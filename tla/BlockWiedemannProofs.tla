------------------------ MODULE BlockWiedemannProofs ------------------------
(***************************************************************************)
(* TLAPS proofs about BlockWiedemann, for any number of blocks, lengths of *)
(* the sequence and of F, rolling parameters, runs and faults: the state   *)
(* keeps its types, and no file ever holds a vector or a sum that belongs  *)
(* to another iteration or that a wrong product went into.                 *)
(*                                                                         *)
(* The invariant follows the vector in memory from the file it is loaded   *)
(* from, through the check, into the next files (GroupSound), and bounds   *)
(* what mksol writes by the number of times the script was started.        *)
(*                                                                         *)
(* The second part proves what the script promises when it is started      *)
(* again: RecoveryInv says, for every program, on which files it may rely  *)
(* if the files were in order when the script was started (RunRight), and  *)
(* what they hold when the script has ended (EndRight).                    *)
(***************************************************************************)
EXTENDS BlockWiedemann, FiniteSetTheorems, WellFoundedInduction, TLAPS

Progs == {"idle", "prep", "secure", "splity", "krylov", "acollect", "lingen",
          "splitf", "mksol", "gather", "cleanup"}
Places == {"load", "chunk", "A", "A2", "S", "S2", "V", "V2", "roll", "end"}
AFiles == [n0 : 0..Max(Groups), n1 : 0..Max(Groups), j0 : 0..NK, j1 : 0..NK,
           full : BOOLEAN, ok : BOOLEAN]
Disks == [X : {None, Right}, C : {None, Right}, V : [Groups -> [Iters -> Contents]],
          A : SUBSET AFiles, F : {None, Cut, Right}, Fs : [Groups -> {None, Cut, Right}],
          S : [Groups -> [Iters -> Contents]], K : {None, Cut, Right}, W : {None, Cut, Right}]
Memories == [ph : {"", "cat", "across", "F"}, done : SUBSET Int,
             temp : SUBSET AFiles, todo : SUBSET AFiles, rc : 0..2]

\* A wrong product is only kept when nothing is checked.
Unseen == IF skip_online_checks THEN {Bad} ELSE {}

\* The files hold what their names say, and mksol gets no further than one
\* interval after F for every run of the script.
FilesSound ==
  /\ disk \in Disks
  /\ \A g \in Groups, k \in Iters :
        /\ disk.V[g][k] \in {None, Cut, k} \cup Unseen
        /\ disk.S[g][k] \in {None, Cut, 0, k} \cup Unseen
        /\ k > NS + runs => disk.S[g][k] = None

\* The vector in memory of a group: that of the interval before the products,
\* that of the next one after them.
BeforeChunk == {"chunk"}
AfterChunk == {"A", "A2", "S", "S2", "V", "V2", "roll"}
GroupSound(g) ==
  /\ at[g] = "load" => s[g] = start
  /\ at[g] \in BeforeChunk => vec[g] \in {Cut, s[g]} \cup Unseen
  /\ at[g] \in AfterChunk => vec[g] \in {Cut, s[g] + 1} \cup Unseen
  /\ at[g] \in BeforeChunk \cup AfterChunk => Looping
  /\ prog = "krylov" /\ at[g] \in BeforeChunk \cup AfterChunk => s[g] < NK
  /\ prog = "mksol" /\ at[g] # "end" => s[g] < NS + runs

MemorySound ==
  /\ prog \in Progs /\ exit \in {"none", "ok", "failed", "killed"}
  /\ prog # "idle" => runs > 0
  /\ at \in [Groups -> Places] /\ s \in [Groups -> Iters]
  /\ vec \in [Groups -> Contents] /\ start \in Iters
  /\ \A g \in Groups : GroupSound(g)
  /\ ac \in Memories
  /\ ac.ph = "cat" => ac.temp \cup ac.todo # {}

CountsSound == par \in Params /\ runs \in 0..MaxRuns /\ faults \in 0..MaxFaults

DiskInv == FilesSound /\ MemorySound /\ CountsSound

-----------------------------------------------------------------------------
(* Least and greatest numbers, and the first A file.                       *)

LEMMA LeastNat ==
    ASSUME NEW T \in SUBSET Nat, T # {}
    PROVE  Min(T) \in T /\ \A j \in T : Min(T) <= j
  <1>1. IsWellFoundedOn(OpToRel(<, Nat), Nat)
    BY NatLessThanWellFounded
  <1>2. PICK i \in T : \A j \in T : ~(<<j, i>> \in OpToRel(<, Nat))
    BY <1>1, WFMin
  <1>3. \A j \in T : ~(j < i)
    BY <1>2 DEF OpToRel
  <1>4. \A j \in T : i <= j
    BY <1>3
  <1> QED
    BY <1>2, <1>4 DEF Min

LEMMA GreatestNat ==
    ASSUME NEW b \in Nat, NEW T \in SUBSET (0..b), T # {}
    PROVE  Max(T) \in T /\ \A j \in T : j <= Max(T)
  <1> DEFINE D == {b - j : j \in T}
  <1>1. D \in SUBSET Nat /\ D # {}
    <2>1. \A j \in T : b - j \in Nat
      OBVIOUS
    <2> QED
      BY <2>1
  <1>2. Min(D) \in D /\ \A d \in D : Min(D) <= d
    BY <1>1, LeastNat
  <1>3. PICK i \in T : Min(D) = b - i
    BY <1>2
  <1>4. ASSUME NEW j \in T PROVE j <= i
    <2>1. b - j \in D
      OBVIOUS
    <2>2. b - i <= b - j
      BY <1>2, <1>3, <2>1
    <2>3. i \in 0..b /\ j \in 0..b
      OBVIOUS
    <2> QED
      BY <2>2, <2>3
  <1> QED
    BY <1>3, <1>4 DEF Max

LEMMA GroupNumbers ==
    /\ Groups # {} /\ Groups \subseteq Nat \ {0}
    /\ Max(Groups) \in Nat /\ \A g \in Groups : g <= Max(Groups)
  <1> DEFINE n == Cardinality(Groups)
  <1>1. n \in Nat \ {0} /\ Groups = 1..n
    BY BWAssumption
  <1> HIDE DEF n
  <1>2. Groups \in SUBSET (0..n) /\ Groups # {} /\ n \in Nat
    BY <1>1
  <1>3. Max(Groups) \in Groups /\ \A g \in Groups : g <= Max(Groups)
    BY <1>2, GreatestNat
  <1> QED
    BY <1>1, <1>2, <1>3

LEMMA FirstFile ==
    ASSUME NEW T \in SUBSET AFiles, T # {}
    PROVE  First(T) \in T
  <1> DEFINE N0 == {f.n0 : f \in T}
             J0 == {f.j0 : f \in {h \in T : h.n0 = Min(N0)}}
  <1>1. /\ T \subseteq [n0 : Nat, n1 : Nat, j0 : Nat, j1 : Nat, full : BOOLEAN, ok : BOOLEAN]
    BY GroupNumbers, BWAssumption DEF AFiles
  <1>2. N0 \in SUBSET Nat /\ N0 # {}
    BY <1>1
  <1>3. Min(N0) \in N0 /\ \A j \in N0 : Min(N0) <= j
    BY <1>2, LeastNat
  <1>4. J0 \in SUBSET Nat /\ J0 # {}
    BY <1>1, <1>3
  <1>5. Min(J0) \in J0 /\ \A j \in J0 : Min(J0) <= j
    BY <1>4, LeastNat
  <1>6. PICK f \in T : f.n0 = Min(N0) /\ f.j0 = Min(J0)
    BY <1>5
  <1>7. ASSUME NEW h \in T PROVE Sorted(f, h)
    <2>1. h.n0 \in Nat /\ h.j0 \in Nat /\ f.n0 \in Nat /\ f.j0 \in Nat
      BY <1>1
    <2>2. f.n0 <= h.n0
      BY <1>3, <1>6
    <2>3. h.n0 = f.n0 => f.j0 <= h.j0
      BY <1>5, <1>6
    <2> QED
      BY <2>1, <2>2, <2>3 DEF Sorted
  <1> QED
    BY <1>6, <1>7 DEF First

\* What acollect glues is an A file.
LEMMA GlueTyped ==
    ASSUME NEW T \in SUBSET AFiles, T # {}
    PROVE  Glue(T, TRUE) \in SUBSET AFiles
  <1>1. /\ {f.n0 : f \in T} \in SUBSET (0..Max(Groups)) /\ {f.n0 : f \in T} # {}
        /\ {f.n1 : f \in T} \in SUBSET (0..Max(Groups)) /\ {f.n1 : f \in T} # {}
        /\ {f.j0 : f \in T} \in SUBSET (0..NK) /\ {f.j0 : f \in T} # {}
        /\ {f.j1 : f \in T} \in SUBSET (0..NK) /\ {f.j1 : f \in T} # {}
    BY DEF AFiles
  <1>2. Max(Groups) \in Nat /\ NK \in Nat
    BY GroupNumbers, BWAssumption
  <1>3. Min({f.n0 : f \in T}) \in 0..Max(Groups)
    BY <1>1, <1>2, LeastNat
  <1>4. Min({f.j0 : f \in T}) \in 0..NK
    BY <1>1, <1>2, LeastNat
  <1>5. Max({f.n1 : f \in T}) \in 0..Max(Groups)
    BY <1>1, <1>2, GreatestNat
  <1>6. Max({f.j1 : f \in T}) \in 0..NK
    BY <1>1, <1>2, GreatestNat
  <1> QED
    BY <1>3, <1>4, <1>5, <1>6 DEF Glue, AFiles

LEMMA LastCheckpoint ==
    ASSUME FilesSound, NEW T \in {"V", "S"}, last_cp(T) # None
    PROVE  last_cp(T) \in checkpoints(disk[T])
  <1>1. checkpoints(disk[T]) \in SUBSET (0..Top) /\ Top \in Nat
    BY BWAssumption DEF checkpoints, Iters
  <1> QED
    BY <1>1, GreatestNat DEF last_cp

-----------------------------------------------------------------------------
(* The parts of the invariant.                                             *)

LEMMA Numbers ==
    /\ 0 \in Iters /\ Iters \subseteq Nat
    /\ NS \in Nat /\ NK \in Nat /\ Top \in Nat /\ MaxRuns \in Nat /\ MaxFaults \in Nat
    /\ \A k \in Nat : k <= NK => k \in Iters
    /\ \A k \in Nat : k <= NS + MaxRuns => k \in Iters
  BY BWAssumption DEF Iters

LEMMA IdleTyped == Idle \in Memories /\ Idle.ph = ""
  <1>1. {} \in SUBSET Int /\ {} \in SUBSET AFiles /\ 0 \in 0..2
    OBVIOUS
  <1> QED
    BY <1>1 DEF Idle, Memories

LEMMA RunMemory ==
    ASSUME NEW p \in Progs, p # "idle", NEW i \in Iters, Run(p, i),
           runs' > 0, p = "mksol" => i < NS + runs'
    PROVE  MemorySound'
  <1>1. /\ at' = [g \in Groups |-> "load"] /\ s' = [g \in Groups |-> i]
        /\ vec' = [g \in Groups |-> None] /\ start' = i /\ prog' = p /\ exit' = "none"
        /\ ac' = Idle
    BY DEF Run
  <1>2. \A g \in Groups : GroupSound(g)'
    BY <1>1 DEF GroupSound, BeforeChunk, AfterChunk
  <1>3. ac' \in Memories /\ ac'.ph = ""
    BY <1>1, IdleTyped
  <1> QED
    BY <1>1, <1>2, <1>3 DEF MemorySound, Places, Contents

LEMMA StopMemory ==
    ASSUME NEW how \in {"ok", "failed", "killed"}, Stop(how)
    PROVE  MemorySound'
  <1>1. /\ at' = [g \in Groups |-> "load"] /\ s' = [g \in Groups |-> 0]
        /\ vec' = [g \in Groups |-> None] /\ start' = 0 /\ prog' = "idle" /\ exit' = how
        /\ ac' = Idle
    BY DEF Stop
  <1>2. \A g \in Groups : GroupSound(g)'
    BY <1>1 DEF GroupSound, BeforeChunk, AfterChunk
  <1>3. ac' \in Memories /\ ac'.ph = ""
    BY <1>1, IdleTyped
  <1> QED
    BY <1>1, <1>2, <1>3, Numbers DEF MemorySound, Places, Contents, Progs

\* A step of one group: the others keep where they are and what they hold.
LEMMA StepMemory ==
    ASSUME DiskInv, NEW g \in Groups, NEW pc \in Places, Step(g, pc),
           s' \in [Groups -> Iters], vec' \in [Groups -> Contents],
           \A h \in Groups \ {g} : s'[h] = s[h] /\ vec'[h] = vec[h],
           GroupSound(g)'
    PROVE  MemorySound' /\ CountsSound' = (faults' \in 0..MaxFaults)
  <1>1. /\ at' = [at EXCEPT ![g] = pc] /\ start' = start /\ prog' = prog /\ exit' = exit
        /\ ac' = ac /\ runs' = runs /\ par' = par
    BY DEF Step, Unit
  <1>2. at' \in [Groups -> Places] /\ \A h \in Groups \ {g} : at'[h] = at[h]
    BY <1>1 DEF DiskInv, MemorySound
  <1>3. ASSUME NEW h \in Groups \ {g} PROVE GroupSound(h)'
    <2>1. GroupSound(h)
      BY DEF DiskInv, MemorySound
    <2> QED
      BY <1>1, <1>2, <2>1 DEF GroupSound, Looping
  <1> QED
    BY <1>1, <1>2, <1>3 DEF DiskInv, MemorySound, CountsSound

LEMMA SameFiles ==
    ASSUME DiskInv, disk' \in Disks, disk'.V = disk.V, disk'.S = disk.S,
           runs' \in Nat, runs <= runs'
    PROVE  FilesSound'
  BY Numbers DEF DiskInv, FilesSound, CountsSound

\* One file V.k or S.k of one group changes.
LEMMA NewV ==
    ASSUME DiskInv, NEW g \in Groups, NEW k \in Iters,
           NEW x \in {None, Cut, k} \cup Unseen,
           disk' = [disk EXCEPT !.V[g][k] = x], runs' = runs
    PROVE  FilesSound'
  <1>1. x \in Contents
    BY DEF Contents, Unseen
  <1>2. /\ disk' \in Disks /\ disk'.S = disk.S
        /\ disk'.V = [disk.V EXCEPT ![g][k] = x]
    BY <1>1 DEF DiskInv, FilesSound, Disks
  <1>3. disk.V \in [Groups -> [Iters -> Contents]]
    BY DEF DiskInv, FilesSound, Disks
  <1> QED
    BY <1>2, <1>3 DEF DiskInv, FilesSound

LEMMA NewS ==
    ASSUME DiskInv, NEW g \in Groups, NEW k \in Iters, k <= NS + runs,
           NEW x \in {None, Cut, 0, k} \cup Unseen,
           disk' = [disk EXCEPT !.S[g][k] = x], runs' = runs
    PROVE  FilesSound'
  <1>1. x \in Contents
    BY Numbers DEF Contents, Unseen
  <1>2. /\ disk' \in Disks /\ disk'.V = disk.V
        /\ disk'.S = [disk.S EXCEPT ![g][k] = x]
    BY <1>1 DEF DiskInv, FilesSound, Disks
  <1>3. disk.S \in [Groups -> [Iters -> Contents]]
    BY DEF DiskInv, FilesSound, Disks
  <1>4. k \in Nat /\ NS + runs \in Nat
    BY Numbers DEF DiskInv, CountsSound
  <1> QED
    BY <1>2, <1>3, <1>4 DEF DiskInv, FilesSound

-----------------------------------------------------------------------------
(* The actions.                                                            *)

\* Start and end of a program: the files are left alone or are typed.
LEMMA FailKeeps == DiskInv /\ Fail => DiskInv'
  <1> SUFFICES ASSUME DiskInv, Fail PROVE DiskInv'
    OBVIOUS
  <1>1. MemorySound'
    BY StopMemory DEF Fail
  <1>2. disk' = disk /\ runs' = runs /\ par' = par /\ faults' = faults
    BY DEF Fail, Unit
  <1>3. disk \in Disks /\ runs \in Nat
    BY DEF DiskInv, FilesSound, CountsSound
  <1> QED
    BY <1>1, <1>2, <1>3, SameFiles DEF DiskInv, CountsSound

\* The script goes on with p after a program that touched neither V nor S.
LEMMA RunKeeps ==
    ASSUME DiskInv, prog # "idle", NEW p \in Progs, p # "idle", Run(p, 0), UNCHANGED faults, Unit,
           disk' \in Disks, disk'.V = disk.V, disk'.S = disk.S
    PROVE  DiskInv'
  <1>1. runs' = runs /\ par' = par /\ runs \in Nat /\ runs > 0 /\ 0 < NS + runs
    BY Numbers DEF Unit, DiskInv, CountsSound, MemorySound
  <1>2. MemorySound'
    BY <1>1, RunMemory, Numbers
  <1> QED
    BY <1>1, <1>2, SameFiles DEF DiskInv, CountsSound

LEMMA CompleteKeeps == DiskInv /\ Complete => DiskInv'
  <1> SUFFICES ASSUME DiskInv, Complete PROVE DiskInv'
    OBVIOUS
  <1>1. /\ runs' = runs + 1 /\ par' = par /\ faults' = faults
        /\ runs \in Nat /\ runs + 1 \in 0..MaxRuns
    BY Numbers DEF Complete, DiskInv, CountsSound
  <1>2. CASE last_cp("S") # None
    <2>1. Run("mksol", last_cp("S")) /\ disk' = disk
      BY <1>2 DEF Complete
    <2>2. PICK g \in Groups : last_cp("S") \in Iters /\ disk.S[g][last_cp("S")] # None
      BY <1>2, LastCheckpoint DEF DiskInv, checkpoints
    <2>3. last_cp("S") < NS + (runs + 1)
      <3>1. ~(last_cp("S") > NS + runs)
        BY <2>2 DEF DiskInv, FilesSound
      <3>2. last_cp("S") \in Nat
        BY <2>2, Numbers
      <3> QED
        BY <1>1, <3>1, <3>2, Numbers
    <2>4. MemorySound'
      BY <1>1, <2>1, <2>2, <2>3, RunMemory DEF Progs
    <2> QED
      BY <1>1, <2>1, <2>4, SameFiles DEF DiskInv, CountsSound, FilesSound
  <1>3. CASE last_cp("S") = None /\ last_cp("V") # None
    <2>1. Run("krylov", last_cp("V")) /\ disk' = disk
      BY <1>3 DEF Complete
    <2>2. last_cp("V") \in Iters
      BY <1>3, LastCheckpoint DEF DiskInv, checkpoints
    <2>3. MemorySound'
      BY <1>1, <2>1, <2>2, RunMemory DEF Progs
    <2> QED
      BY <1>1, <2>1, <2>3, SameFiles DEF DiskInv, CountsSound, FilesSound
  <1>4. CASE last_cp("S") = None /\ last_cp("V") = None
    <2>1. Run("prep", 0) /\ disk' = NoFiles
      BY <1>4 DEF Complete
    <2>2. MemorySound'
      BY <1>1, <2>1, Numbers, RunMemory DEF Progs
    <2>3. FilesSound'
      <3>1. NoFiles \in Disks
        BY DEF NoFiles, Disks, Contents
      <3>2. \A g \in Groups, k \in Iters : NoFiles.V[g][k] = None /\ NoFiles.S[g][k] = None
        BY DEF NoFiles
      <3> QED
        BY <2>1, <3>1, <3>2 DEF FilesSound
    <2> QED
      BY <1>1, <2>2, <2>3 DEF DiskInv, CountsSound
  <1> QED
    BY <1>2, <1>3, <1>4

LEMMA PrepKeeps == DiskInv /\ Prep => DiskInv'
  <1> SUFFICES ASSUME DiskInv, Prep PROVE DiskInv'
    OBVIOUS
  <1>1. disk' \in Disks /\ disk'.V = disk.V /\ disk'.S = disk.S
    BY DEF Prep, DiskInv, FilesSound, Disks
  <1> QED
    BY <1>1, RunKeeps DEF Prep, Progs

LEMMA SecureKeeps == DiskInv /\ Secure => DiskInv'
  <1> SUFFICES ASSUME DiskInv, Secure PROVE DiskInv'
    OBVIOUS
  <1>1. disk' \in Disks /\ disk'.V = disk.V /\ disk'.S = disk.S
    BY DEF Secure, DiskInv, FilesSound, Disks
  <1> QED
    BY <1>1, RunKeeps DEF Secure, Progs

\* split puts the start vector of every block, or a file that is cut short.
LEMMA SplitVFiles ==
    ASSUME DiskInv, NEW G \in SUBSET Groups, NEW x \in {0, Cut},
           disk' = [disk EXCEPT !.V = [g \in Groups |-> IF g \in G THEN [disk.V[g] EXCEPT ![0] = x]
                                                        ELSE disk.V[g]]],
           runs' = runs
    PROVE  FilesSound'
  <1>1. disk.V \in [Groups -> [Iters -> Contents]] /\ x \in Contents /\ 0 \in Iters
    BY Numbers DEF DiskInv, FilesSound, Disks, Contents
  <1>2. /\ disk'.S = disk.S
        /\ disk'.V = [g \in Groups |-> IF g \in G THEN [disk.V[g] EXCEPT ![0] = x] ELSE disk.V[g]]
    BY DEF DiskInv, FilesSound, Disks
  <1>3. disk'.V \in [Groups -> [Iters -> Contents]]
    BY <1>1, <1>2
  <1>4. disk' \in Disks
    BY <1>3 DEF DiskInv, FilesSound, Disks
  <1>5. ASSUME NEW g \in Groups, NEW k \in Iters
        PROVE  disk'.V[g][k] \in {None, Cut, k} \cup Unseen
    BY <1>1, <1>2 DEF DiskInv, FilesSound
  <1> QED
    BY <1>2, <1>4, <1>5 DEF DiskInv, FilesSound

LEMMA SplitFFiles ==
    ASSUME DiskInv, NEW G \in SUBSET Groups, NEW x \in {None, Cut, Right},
           disk' = [disk EXCEPT !.Fs = [g \in Groups |-> IF g \in G THEN x ELSE disk.Fs[g]]]
    PROVE  disk' \in Disks /\ disk'.V = disk.V /\ disk'.S = disk.S
  BY DEF DiskInv, FilesSound, Disks

\* What acollect and lingen remember changes, and no group is running.
LEMMA MemoryKeeps ==
    ASSUME DiskInv, ac' \in Memories, ac'.ph = "cat" => ac'.temp \cup ac'.todo # {},
           UNCHANGED <<prog, exit>>, GroupsIdle, Unit
    PROVE  MemorySound'
  <1>1. /\ prog' = prog /\ exit' = exit /\ at' = at /\ s' = s /\ vec' = vec /\ start' = start
        /\ runs' = runs
    BY DEF GroupsIdle, Unit
  <1>2. ASSUME NEW g \in Groups PROVE GroupSound(g)'
    <2>1. GroupSound(g)
      BY DEF DiskInv, MemorySound
    <2> QED
      BY <1>1, <2>1 DEF GroupSound, Looping
  <1> QED
    BY <1>1, <1>2 DEF DiskInv, MemorySound

\* One more block has been written.
LEMMA SplitMemory ==
    ASSUME DiskInv, ac' = [ac EXCEPT !.done = @ \cup {Min(Groups \ ac.done)}],
           Groups \ ac.done # {}, UNCHANGED <<prog, exit>>, GroupsIdle, Unit
    PROVE  MemorySound' /\ Min(Groups \ ac.done) \in Groups
  <1>1. Min(Groups \ ac.done) \in Groups \ ac.done
    BY LeastNat, GroupNumbers
  <1>2. Min(Groups \ ac.done) \in Int
    BY <1>1, GroupNumbers
  <1>3. ac' \in Memories /\ ac'.ph = ac.ph /\ ac'.temp = ac.temp /\ ac'.todo = ac.todo
    BY <1>2 DEF DiskInv, MemorySound, Memories
  <1> QED
    BY <1>1, <1>3, MemoryKeeps DEF DiskInv, MemorySound

LEMMA SplitYKeeps == DiskInv /\ SplitY => DiskInv'
  <1> SUFFICES ASSUME DiskInv, SplitY PROVE DiskInv'
    OBVIOUS
  <1> DEFINE put(G, x) == [disk EXCEPT !.V = [g \in Groups |-> IF g \in G THEN [disk.V[g] EXCEPT ![0] = x]
                                                              ELSE disk.V[g]]]
             new == Min(Groups \ ac.done)
  <1>1. \/ disk' = put(Groups, 0) /\ Run("krylov", 0) /\ UNCHANGED faults /\ Unit
        \/ Fail
        \/ /\ Groups \ ac.done # {}
           /\ disk' = put({new}, Cut)
           /\ ac' = [ac EXCEPT !.done = @ \cup {new}]
           /\ UNCHANGED <<prog, exit, faults>> /\ GroupsIdle /\ Unit
    BY DEF SplitY, splitWrite
  <1>2. ASSUME disk' = put(Groups, 0), Run("krylov", 0), UNCHANGED faults, Unit
        PROVE  DiskInv'
    <2>1. runs' = runs /\ par' = par /\ runs \in Nat /\ runs > 0
      BY <1>2 DEF Unit, DiskInv, CountsSound, MemorySound, SplitY
    <2>2. FilesSound'
      BY <1>2, <2>1, SplitVFiles
    <2>3. MemorySound'
      BY <1>2, <2>1, RunMemory, Numbers DEF Progs
    <2> QED
      BY <1>2, <2>1, <2>2, <2>3 DEF DiskInv, CountsSound
  <1>3. ASSUME Groups \ ac.done # {}, disk' = put({new}, Cut),
               ac' = [ac EXCEPT !.done = @ \cup {new}],
               UNCHANGED <<prog, exit, faults>>, GroupsIdle, Unit
        PROVE  DiskInv'
    <2>1. MemorySound' /\ new \in Groups
      BY <1>3, SplitMemory
    <2>2. runs' = runs /\ par' = par
      BY <1>3 DEF Unit
    <2>3. FilesSound'
      BY <1>3, <2>1, <2>2, SplitVFiles
    <2> QED
      BY <1>3, <2>1, <2>2, <2>3 DEF DiskInv, CountsSound
  <1> QED
    BY <1>1, <1>2, <1>3, FailKeeps

LEMMA SplitFKeeps == DiskInv /\ SplitF => DiskInv'
  <1> SUFFICES ASSUME DiskInv, SplitF PROVE DiskInv'
    OBVIOUS
  <1> DEFINE put(G, x) == [disk EXCEPT !.Fs = [g \in Groups |-> IF g \in G THEN x ELSE disk.Fs[g]]]
             new == Min(Groups \ ac.done)
  <1>1. \/ disk' = put(Groups, disk.F) /\ Run("mksol", 0) /\ UNCHANGED faults /\ Unit
        \/ Fail
        \/ /\ Groups \ ac.done # {}
           /\ disk' = put({new}, Cut)
           /\ ac' = [ac EXCEPT !.done = @ \cup {new}]
           /\ UNCHANGED <<prog, exit, faults>> /\ GroupsIdle /\ Unit
    BY DEF SplitF, splitWrite
  <1>2. ASSUME disk' = put(Groups, disk.F), Run("mksol", 0), UNCHANGED faults, Unit
        PROVE  DiskInv'
    <2>1. disk.F \in {None, Cut, Right}
      BY DEF DiskInv, FilesSound, Disks
    <2>2. disk' \in Disks /\ disk'.V = disk.V /\ disk'.S = disk.S
      BY <1>2, <2>1, SplitFFiles
    <2> QED
      BY <1>2, <2>2, RunKeeps DEF Progs, SplitF
  <1>3. ASSUME Groups \ ac.done # {}, disk' = put({new}, Cut),
               ac' = [ac EXCEPT !.done = @ \cup {new}],
               UNCHANGED <<prog, exit, faults>>, GroupsIdle, Unit
        PROVE  DiskInv'
    <2>1. MemorySound' /\ new \in Groups
      BY <1>3, SplitMemory
    <2>2. runs' = runs /\ par' = par /\ runs \in Nat
      BY <1>3 DEF Unit, DiskInv, CountsSound
    <2>3. disk' \in Disks /\ disk'.V = disk.V /\ disk'.S = disk.S
      BY <1>3, <2>1, SplitFFiles
    <2> QED
      BY <1>3, <2>1, <2>2, <2>3, SameFiles DEF DiskInv, CountsSound
  <1> QED
    BY <1>1, <1>2, <1>3, FailKeeps

\* What is known of a group inside the loop.
LEMMA InLoop ==
    ASSUME DiskInv, NEW g \in Groups
    PROVE  /\ GroupSound(g) /\ s[g] \in Iters /\ s[g] \in Nat /\ vec[g] \in Contents
           /\ runs \in Nat /\ runs <= MaxRuns /\ faults \in 0..MaxFaults /\ start \in Iters
           /\ s \in [Groups -> Iters] /\ vec \in [Groups -> Contents]
           /\ disk \in Disks
  <1>1. /\ GroupSound(g) /\ s \in [Groups -> Iters] /\ vec \in [Groups -> Contents]
        /\ start \in Iters /\ disk \in Disks /\ faults \in 0..MaxFaults
    BY DEF DiskInv, MemorySound, CountsSound, FilesSound
  <1>2. s[g] \in Iters /\ s[g] \in Nat /\ vec[g] \in Contents
    BY <1>1, Numbers
  <1>3. runs \in Nat /\ runs <= MaxRuns
    BY Numbers DEF DiskInv, CountsSound
  <1> QED
    BY <1>1, <1>2, <1>3

\* The next interval still has a number, and its S file is within the bound.
LEMMA NextNumber ==
    ASSUME DiskInv, NEW g \in Groups, at[g] \in AfterChunk
    PROVE  s[g] + 1 \in Iters /\ (prog = "mksol" => s[g] + 1 <= NS + runs)
  <1>1. prog = "krylov" \/ prog = "mksol"
    BY InLoop DEF GroupSound, Looping
  <1>2. CASE prog = "krylov"
    BY <1>2, InLoop, Numbers DEF GroupSound
  <1>3. CASE prog = "mksol"
    <2>1. at[g] # "end"
      BY DEF AfterChunk
    <2>2. s[g] + 1 <= NS + runs
      BY <1>3, <2>1, InLoop, Numbers DEF GroupSound
    <2>3. s[g] + 1 <= NS + MaxRuns
      BY <2>2, InLoop, Numbers
    <2> QED
      BY <1>3, <2>2, <2>3, InLoop, Numbers
  <1> QED
    BY <1>1, <1>2, <1>3

\* A group that moves on with the same number and the same vector.
LEMMA MoveKeeps ==
    ASSUME DiskInv, NEW g \in Groups, NEW pc \in AfterChunk, at[g] \in AfterChunk,
           Step(g, pc), UNCHANGED <<s, vec>>, faults' \in 0..MaxFaults, FilesSound'
    PROVE  DiskInv'
  <1>1. pc \in Places /\ pc # "load" /\ pc # "end" /\ at[g] # "end" /\ pc \notin BeforeChunk
    BY DEF AfterChunk, Places, BeforeChunk
  <1>2. at'[g] = pc /\ prog' = prog /\ runs' = runs
    BY DEF Step, Unit, DiskInv, MemorySound
  <1>3. GroupSound(g)'
    BY <1>1, <1>2, InLoop DEF GroupSound, Looping
  <1>4. MemorySound' /\ CountsSound'
    BY <1>1, <1>3, StepMemory, InLoop
  <1> QED
    BY <1>4 DEF DiskInv

LEMMA LoadKeeps ==
    ASSUME DiskInv, NEW g \in Groups, Load(g) \/ LoadMksol(g)
    PROVE  DiskInv'
  <1>1. CASE Fail
    BY <1>1, FailKeeps
  <1>2. CASE ~Fail
    <2>1. PICK pc \in {"chunk", "end"} : Step(g, pc)
      BY <1>2 DEF Load, LoadMksol
    <2>2. /\ at[g] = "load" /\ prog \in {"krylov", "mksol"}
          /\ vec' = [vec EXCEPT ![g] = disk.V[g][start]] /\ disk.V[g][start] # None
          /\ s' = s /\ disk' = disk /\ faults' = faults
          /\ pc = "chunk" /\ prog = "krylov" => start < NK
      <3>1. CASE Load(g)
        <4>1. Step(g, IF start >= NK THEN "end" ELSE "chunk")
          BY <1>2, <3>1 DEF Load
        <4>2. at' = [at EXCEPT ![g] = pc] /\ at' = [at EXCEPT ![g] = IF start >= NK THEN "end" ELSE "chunk"]
          BY <2>1, <4>1 DEF Step
        <4>3. pc = IF start >= NK THEN "end" ELSE "chunk"
          BY <4>2 DEF DiskInv, MemorySound
        <4>4. pc = "chunk" => start < NK
          <5>1. start \in Nat /\ NK \in Nat
            BY InLoop, Numbers
          <5>2. pc = "chunk" => ~(start >= NK)
            BY <4>3
          <5> QED
            BY <5>1, <5>2
        <4> QED
          BY <1>2, <3>1, <4>4 DEF Load, pi_load_file
      <3>2. CASE LoadMksol(g)
        BY <1>2, <3>2 DEF LoadMksol, pi_load_file
      <3> QED
        BY <3>1, <3>2
    <2>3. at'[g] = pc /\ prog' = prog /\ runs' = runs
      BY <2>1 DEF Step, Unit, DiskInv, MemorySound
    <2>4. /\ disk.V[g][start] \in {Cut, start} \cup Unseen
          /\ disk.V[g][start] \in Contents
      BY <2>2, InLoop DEF DiskInv, FilesSound, Disks
    <2>5. GroupSound(g)'
      BY <2>1, <2>2, <2>3, <2>4, InLoop
      DEF GroupSound, Looping, BeforeChunk, AfterChunk
    <2>6. MemorySound' /\ CountsSound'
      BY <2>1, <2>2, <2>4, <2>5, StepMemory, InLoop DEF Places
    <2>7. FilesSound'
      BY <2>2, <2>3, InLoop, SameFiles
    <2> QED
      BY <2>6, <2>7 DEF DiskInv
  <1> QED
    BY <1>1, <1>2

\* A wrong product is stopped, or nobody looks.
LEMMA CheckedKeeps ==
    ASSUME DiskInv, NEW g \in Groups, NEW next \in AfterChunk,
           at[g] = "chunk", Checked(g, next)
    PROVE  DiskInv'
  <1>1. PICK wrong \in BOOLEAN :
          /\ wrong => faults < MaxFaults
          /\ faults' = faults + (IF wrong THEN 1 ELSE 0)
          /\ IF wrong /\ ~skip_online_checks
             THEN Stop("failed") /\ UNCHANGED disk /\ Unit
             ELSE /\ vec' = [vec EXCEPT ![g] = IF wrong THEN Bad ELSE times(@)]
                  /\ Step(g, next) /\ UNCHANGED <<s, disk>>
    BY DEF Checked
  <1>2. faults' \in 0..MaxFaults
    BY <1>1, InLoop, Numbers
  <1>3. CASE wrong /\ ~skip_online_checks
    <2>1. MemorySound' /\ disk' = disk /\ runs' = runs /\ par' = par
      BY <1>1, <1>3, StopMemory DEF Unit
    <2> QED
      BY <1>2, <2>1, SameFiles, InLoop DEF DiskInv, CountsSound
  <1>4. CASE ~(wrong /\ ~skip_online_checks)
    <2> DEFINE x == IF wrong THEN Bad ELSE times(vec[g])
    <2>1. vec' = [vec EXCEPT ![g] = x] /\ s' = s /\ disk' = disk /\ Step(g, next)
      BY <1>1, <1>4
    <2>2. at'[g] = next /\ prog' = prog /\ runs' = runs
      BY <2>1 DEF Step, Unit, DiskInv, MemorySound
    <2>3. /\ next \in Places /\ next # "load" /\ next # "end" /\ next \notin BeforeChunk
          /\ at[g] \in BeforeChunk /\ at[g] # "end" /\ prog \in {"krylov", "mksol"}
      BY InLoop DEF AfterChunk, Places, BeforeChunk, GroupSound, Looping
    <2>4. vec[g] \in {Cut, s[g]} \cup Unseen
      BY <2>3, InLoop DEF GroupSound
    <2>5. x \in {Cut, s[g] + 1} \cup Unseen
      BY <1>4, <2>4, InLoop DEF times, Unseen, Cut, Bad
    <2>6. s[g] + 1 \in Iters
      <3>1. CASE prog = "krylov"
        BY <3>1, <2>3, InLoop, Numbers DEF GroupSound
      <3>2. CASE prog = "mksol"
        <4>1. s[g] < NS + runs
          BY <3>2, <2>3, InLoop DEF GroupSound
        <4>2. s[g] + 1 <= NS + MaxRuns
          BY <4>1, InLoop, Numbers
        <4> QED
          BY <4>2, InLoop, Numbers
      <3> QED
        BY <2>3, <3>1, <3>2
    <2>7. x \in Contents
      BY <2>5, <2>6 DEF Contents, Unseen
    <2>8. vec'[g] = x /\ vec' \in [Groups -> Contents]
      BY <2>1, <2>7, InLoop
    <2>9. GroupSound(g)'
      BY <2>1, <2>2, <2>3, <2>5, <2>8, InLoop DEF GroupSound, Looping
    <2>10. MemorySound' /\ CountsSound'
      BY <1>2, <2>1, <2>3, <2>8, <2>9, StepMemory, InLoop
    <2> QED
      BY <2>1, <2>2, <2>10, SameFiles, InLoop DEF DiskInv
  <1> QED
    BY <1>3, <1>4

LEMMA ChunkKeeps ==
    ASSUME DiskInv, NEW g \in Groups, Chunk(g) \/ ChunkMksol(g)
    PROVE  DiskInv'
  BY CheckedKeeps DEF Chunk, ChunkMksol, AfterChunk

LEMMA WriteAFiles ==
    ASSUME DiskInv, NEW g \in Groups, prog = "krylov", at[g] \in AfterChunk,
           NEW full \in BOOLEAN, NEW ok \in BOOLEAN, WriteA(g, full, ok), runs' = runs
    PROVE  FilesSound'
  <1>1. AFile(g, full, ok) \in AFiles
    <2>1. s[g] < NK
      BY InLoop DEF GroupSound
    <2>2. s[g] \in 0..NK /\ s[g] + 1 \in 0..NK
      BY <2>1, InLoop, Numbers
    <2>3. g \in Nat \ {0} /\ g <= Max(Groups) /\ Max(Groups) \in Nat
      BY GroupNumbers
    <2>4. g - 1 \in 0..Max(Groups) /\ g \in 0..Max(Groups)
      BY <2>3
    <2> QED
      BY <2>2, <2>4 DEF AFile, AFiles
  <1>2. disk' \in Disks /\ disk'.V = disk.V /\ disk'.S = disk.S
    BY <1>1, InLoop DEF WriteA, Disks
  <1> QED
    BY <1>2, SameFiles, InLoop

LEMMA OpenAKeeps ==
    ASSUME DiskInv, NEW g \in Groups, OpenA(g)
    PROVE  DiskInv'
  <1>1. /\ prog = "krylov" /\ at[g] \in AfterChunk /\ "A2" \in AfterChunk
        /\ WriteA(g, FALSE, FALSE) /\ Step(g, "A2") /\ UNCHANGED <<s, vec>> /\ faults' = faults
    BY DEF OpenA, AfterChunk
  <1>2. FilesSound'
    BY <1>1, WriteAFiles DEF Step, Unit
  <1> QED
    BY <1>1, <1>2, MoveKeeps, InLoop

LEMMA CloseAKeeps ==
    ASSUME DiskInv, NEW g \in Groups, CloseA(g)
    PROVE  DiskInv'
  <1>1. /\ prog = "krylov" /\ at[g] \in AfterChunk /\ "V" \in AfterChunk
        /\ Step(g, "V") /\ UNCHANGED <<s, vec>>
    BY DEF CloseA, AfterChunk
  <1>2. PICK short \in BOOLEAN :
           /\ short => faults < MaxFaults
           /\ faults' = faults + (IF short THEN 1 ELSE 0)
           /\ WriteA(g, ~short, vec[g] = s[g] + 1)
    BY DEF CloseA
  <1>3. FilesSound'
    BY <1>1, <1>2, WriteAFiles DEF Step, Unit
  <1>4. faults' \in 0..MaxFaults
    BY <1>2, InLoop, Numbers
  <1> QED
    BY <1>1, <1>3, <1>4, MoveKeeps

\* What mksol accumulates is right, nothing, or marked as made from a cut file.
LEMMA SumRight ==
    ASSUME DiskInv, NEW g \in Groups, at[g] \in AfterChunk
    PROVE  sumOf(g) \in {Cut, 0, s[g] + 1} \cup Unseen
  <1>1. vec[g] \in {Cut, s[g] + 1} \cup Unseen
    BY InLoop DEF GroupSound
  <1> QED
    BY <1>1, InLoop, Numbers DEF sumOf, Unseen, Cut, Bad

LEMMA SaveKeeps ==
    ASSUME DiskInv, NEW g \in Groups, OpenS(g) \/ CloseS(g)
    PROVE  DiskInv'
  <1>1. PICK pc \in AfterChunk :
          /\ prog = "mksol" /\ at[g] \in AfterChunk
          /\ Step(g, pc) /\ UNCHANGED <<s, vec>> /\ faults' = faults
    BY DEF OpenS, CloseS, AfterChunk
  <1>2. s[g] + 1 \in Iters /\ s[g] + 1 <= NS + runs
    BY <1>1, NextNumber
  <1>3. PICK x \in {Cut, 0, s[g] + 1} \cup Unseen :
          disk' = [disk EXCEPT !.S[g][s[g] + 1] = x]
    BY <1>1, SumRight DEF OpenS, CloseS, pi_save_file_begin
  <1>4. runs' = runs
    BY <1>1 DEF Step, Unit
  <1>5. FilesSound'
    BY <1>2, <1>3, <1>4, NewS
  <1> QED
    BY <1>1, <1>5, MoveKeeps, InLoop

LEMMA OpenVKeeps ==
    ASSUME DiskInv, NEW g \in Groups, OpenV(g) \/ CloseV(g)
    PROVE  DiskInv'
  <1>1. PICK pc \in AfterChunk :
          /\ at[g] \in AfterChunk /\ Step(g, pc) /\ UNCHANGED <<s, vec>>
    BY DEF OpenV, CloseV, AfterChunk
  <1>2. s[g] + 1 \in Iters /\ vec[g] \in {Cut, s[g] + 1} \cup Unseen
    BY <1>1, NextNumber, InLoop DEF GroupSound
  <1>3. runs' = runs
    BY <1>1 DEF Step, Unit
  <1>4. faults' \in 0..MaxFaults
    BY InLoop, Numbers DEF OpenV, CloseV
  <1>5. CASE disk' = disk
    BY <1>1, <1>3, <1>4, <1>5, MoveKeeps, SameFiles, InLoop
  <1>6. CASE disk' # disk
    <2>1. PICK x \in {Cut, s[g] + 1} \cup Unseen :
            disk' = [disk EXCEPT !.V[g][s[g] + 1] = x]
      BY <1>2, <1>6 DEF OpenV, CloseV, pi_save_file_begin
    <2>2. FilesSound'
      BY <1>2, <1>3, <2>1, NewV
    <2> QED
      BY <1>1, <1>4, <2>2, MoveKeeps
  <1> QED
    BY <1>5, <1>6

\* A checkpoint is removed, or the group is one interval further.
LEMMA DiscardKeeps ==
    ASSUME DiskInv, NEW g \in Groups, Discard(g)
    PROVE  DiskInv'
  <1> DEFINE gone == IF par.keep = 0 THEN {} ELSE keep_rolling_checkpoints(g, s[g] + 1)
             next == IF prog = "krylov" THEN (IF s[g] + 1 >= NK THEN "end" ELSE "chunk")
                     ELSE IF s[g] >= NS \/ (s[g] = NS - 1 /\ ~par.exact) THEN "end" ELSE "chunk"
  <1>1. /\ Looping /\ at[g] = "roll" /\ at[g] \in AfterChunk /\ vec' = vec /\ faults' = faults
        /\ \/ /\ gone # {}
              /\ disk' = [disk EXCEPT !.V[g][Min(gone)] = None]
              /\ Step(g, "roll") /\ s' = s
           \/ /\ s' = [s EXCEPT ![g] = @ + 1] /\ Step(g, next) /\ disk' = disk
    BY DEF Discard, AfterChunk
  <1>2. s[g] + 1 \in Iters /\ vec[g] \in {Cut, s[g] + 1} \cup Unseen
    BY <1>1, NextNumber, InLoop DEF GroupSound
  <1>3. CASE gone # {} /\ disk' = [disk EXCEPT !.V[g][Min(gone)] = None] /\ Step(g, "roll") /\ s' = s
    <2>1. gone \in SUBSET (0 .. s[g] + 1)
      BY DEF keep_rolling_checkpoints
    <2>2. Min(gone) \in 0 .. s[g] + 1
      BY <1>3, <2>1, LeastNat, InLoop
    <2>3. Min(gone) \in Iters
      BY <1>2, <2>2, BWAssumption DEF Iters
    <2>4. runs' = runs /\ "roll" \in AfterChunk
      BY <1>3 DEF Step, Unit, AfterChunk
    <2>5. FilesSound'
      BY <1>3, <2>3, <2>4, NewV
    <2> QED
      BY <1>1, <1>3, <2>4, <2>5, MoveKeeps, InLoop
  <1>4. CASE s' = [s EXCEPT ![g] = @ + 1] /\ Step(g, next) /\ disk' = disk
    <2>1. /\ next \in {"chunk", "end"} /\ next \in Places /\ next \notin AfterChunk
      BY DEF Places, AfterChunk
    <2>2. at'[g] = next /\ prog' = prog /\ runs' = runs
      BY <1>4 DEF Step, Unit, DiskInv, MemorySound
    <2>3. s'[g] = s[g] + 1 /\ s' \in [Groups -> Iters]
      BY <1>2, <1>4, InLoop
    <2>4. prog = "krylov" /\ next = "chunk" => s[g] + 1 < NK
      BY InLoop, Numbers
    <2>5. prog = "mksol" /\ next = "chunk" => s[g] + 1 < NS + runs
      <3>1. runs > 0
        BY <1>1 DEF Looping, DiskInv, MemorySound
      <3>2. prog = "mksol" /\ next = "chunk" => s[g] < NS
        BY InLoop, Numbers
      <3> QED
        BY <3>1, <3>2, InLoop, Numbers
    <2>6. GroupSound(g)'
      BY <1>1, <1>2, <2>1, <2>2, <2>3, <2>4, <2>5
      DEF GroupSound, Looping, BeforeChunk
    <2>7. MemorySound' /\ CountsSound'
      BY <1>1, <1>4, <2>1, <2>3, <2>6, StepMemory, InLoop
    <2> QED
      BY <1>4, <2>2, <2>7, SameFiles, InLoop DEF DiskInv
  <1> QED
    BY <1>1, <1>3, <1>4

LEMMA LoopEndKeeps == DiskInv /\ LoopEnd => DiskInv'
  <1> SUFFICES ASSUME DiskInv, LoopEnd PROVE DiskInv'
    OBVIOUS
  <1>1. disk' \in Disks /\ disk'.V = disk.V /\ disk'.S = disk.S /\ prog # "idle"
    BY DEF LoopEnd, Looping, DiskInv, FilesSound
  <1> QED
    BY <1>1, RunKeeps DEF LoopEnd, Progs

\* The memory of acollect, typed.
LEMMA MemoryTyped ==
    ASSUME DiskInv
    PROVE  /\ ac \in Memories /\ disk \in Disks /\ disk.A \in SUBSET AFiles
           /\ ac.temp \in SUBSET AFiles /\ ac.todo \in SUBSET AFiles
           /\ ac.ph = "cat" => ac.temp \cup ac.todo # {}
           /\ ac.rc \in {0, 1, 2}
           /\ runs \in Nat
  <1>1. ac \in Memories /\ disk \in Disks /\ (ac.ph = "cat" => ac.temp \cup ac.todo # {})
    BY DEF DiskInv, MemorySound, FilesSound
  <1>2. disk.A \in SUBSET AFiles
    BY <1>1 DEF Disks
  <1>3. /\ ac.temp \in SUBSET AFiles /\ ac.todo \in SUBSET AFiles /\ ac.rc \in 0..2
    BY <1>1 DEF Memories
  <1>4. runs \in Nat
    BY Numbers DEF DiskInv, CountsSound
  <1> QED
    BY <1>1, <1>2, <1>3, <1>4

LEMMA AcollectMergeKeeps == DiskInv /\ AcollectMerge => DiskInv'
  <1> SUFFICES ASSUME DiskInv, AcollectMerge PROVE DiskInv'
    OBVIOUS
  <1> DEFINE blocks == {f.n0 : f \in disk.A} \ ac.done
             T == {f \in disk.A : f.n0 = Min(blocks)}
  <1>1. \/ Fail
        \/ Run("lingen", 0) /\ UNCHANGED <<disk, faults>> /\ Unit
        \/ /\ ac' = IF blocks = {} THEN [ac EXCEPT !.ph = "across"]
                    ELSE [ac EXCEPT !.done = @ \cup {Min(blocks)},
                                    !.ph = IF Cardinality(T) = 1 THEN "" ELSE "cat",
                                    !.todo = IF Cardinality(T) = 1 THEN {} ELSE T]
           /\ UNCHANGED <<disk, prog, exit, faults>> /\ GroupsIdle /\ Unit
    BY DEF AcollectMerge
  <1>2. ASSUME Run("lingen", 0), UNCHANGED <<disk, faults>>, Unit
        PROVE  DiskInv'
    BY <1>2, MemoryTyped, RunKeeps DEF AcollectMerge, Progs
  <1>3. ASSUME ac' = IF blocks = {} THEN [ac EXCEPT !.ph = "across"]
                     ELSE [ac EXCEPT !.done = @ \cup {Min(blocks)},
                                     !.ph = IF Cardinality(T) = 1 THEN "" ELSE "cat",
                                     !.todo = IF Cardinality(T) = 1 THEN {} ELSE T],
               UNCHANGED <<disk, prog, exit, faults>>, GroupsIdle, Unit
        PROVE  DiskInv'
    <2>1. ac' \in Memories /\ (ac'.ph = "cat" => ac'.temp \cup ac'.todo # {})
      <3>1. CASE blocks = {}
        BY <1>3, <3>1, MemoryTyped DEF Memories
      <3>2. CASE blocks # {}
        <4>1. blocks \in SUBSET Nat
          BY MemoryTyped, GroupNumbers DEF AFiles
        <4>2. Min(blocks) \in blocks /\ Min(blocks) \in Int
          <5> SUFFICES ASSUME NEW bs \in SUBSET Nat, bs # {}
                       PROVE  Min(bs) \in bs /\ Min(bs) \in Int
            BY <3>2, <4>1
          <5>1. PICK m \in bs : m = Min(bs)
            BY LeastNat
          <5>2. m \in Int
            OBVIOUS
          <5> QED
            BY <5>1, <5>2
        <4>3. T # {} /\ T \in SUBSET AFiles
          BY <4>2, MemoryTyped
        <4> HIDE DEF T, blocks
        <4>4. ac' = [ac EXCEPT !.done = @ \cup {Min(blocks)},
                               !.ph = IF Cardinality(T) = 1 THEN "" ELSE "cat",
                               !.todo = IF Cardinality(T) = 1 THEN {} ELSE T]
          BY <1>3, <3>2
        <4> QED
          BY <4>2, <4>3, <4>4, MemoryTyped DEF Memories
      <3> QED
        BY <3>1, <3>2
    <2>2. MemorySound'
      BY <1>3, <2>1, MemoryKeeps
    <2> QED
      BY <1>3, <2>2, MemoryTyped, SameFiles DEF DiskInv, CountsSound, Unit
  <1> QED
    BY <1>1, <1>2, <1>3, FailKeeps

LEMMA AcollectCatKeeps == DiskInv /\ AcollectCat => DiskInv'
  <1> SUFFICES ASSUME DiskInv, AcollectCat PROVE DiskInv'
    OBVIOUS
  <1>1. PICK f \in ac.todo :
          /\ disk' = [disk EXCEPT !.A = @ \ {f}]
          /\ ac' = [ac EXCEPT !.todo = @ \ {f}, !.temp = @ \cup {f}]
    BY MemoryTyped, FirstFile DEF AcollectCat
  <1>2. f \in AFiles
    BY MemoryTyped
  <1>3. ac' \in Memories /\ ac'.temp # {}
    BY <1>1, <1>2, MemoryTyped DEF Memories
  <1>4. MemorySound'
    BY <1>3, MemoryKeeps DEF AcollectCat
  <1>5. disk' \in Disks /\ disk'.V = disk.V /\ disk'.S = disk.S
    BY <1>1, MemoryTyped DEF Disks
  <1> QED
    BY <1>4, <1>5, MemoryTyped, SameFiles DEF AcollectCat, DiskInv, CountsSound, Unit

LEMMA AcollectAcrossKeeps == DiskInv /\ AcollectAcross => DiskInv'
  <1> SUFFICES ASSUME DiskInv, AcollectAcross PROVE DiskInv'
    OBVIOUS
  <1> DEFINE T == {f \in disk.A : f.j0 = First(disk.A).j0}
  <1>1. \/ Fail
        \/ Run("lingen", 0) /\ UNCHANGED <<disk, faults>> /\ Unit
        \/ /\ ~(Cardinality(disk.A) <= 1)
           /\ ac' = [ac EXCEPT !.ph = "cat", !.todo = T, !.rc = IF T = disk.A THEN 2 ELSE 1]
           /\ UNCHANGED <<disk, prog, exit, faults>> /\ GroupsIdle /\ Unit
    BY DEF AcollectAcross
  <1>2. ASSUME Run("lingen", 0), UNCHANGED <<disk, faults>>, Unit
        PROVE  DiskInv'
    BY <1>2, MemoryTyped, RunKeeps DEF AcollectAcross, Progs
  <1>3. ASSUME ~(Cardinality(disk.A) <= 1),
               ac' = [ac EXCEPT !.ph = "cat", !.todo = T, !.rc = IF T = disk.A THEN 2 ELSE 1],
               UNCHANGED <<disk, prog, exit, faults>>, GroupsIdle, Unit
        PROVE  DiskInv'
    <2>1. disk.A # {}
      BY <1>3, FS_EmptySet
    <2>2. T # {} /\ T \in SUBSET AFiles
      BY <2>1, FirstFile, MemoryTyped
    <2> HIDE DEF T
    <2>3. ac' \in Memories /\ ac'.temp \cup ac'.todo # {}
      <3> DEFINE rc == IF T = disk.A THEN 2 ELSE 1
      <3>1. ac' = [ac EXCEPT !.ph = "cat", !.todo = T, !.rc = rc] /\ rc \in 0..2
        BY <1>3
      <3> HIDE DEF rc
      <3>2. ac'.todo = T
        BY <3>1, MemoryTyped DEF Memories
      <3>3. ac' \in Memories
        BY <3>1, <2>2, MemoryTyped DEF Memories
      <3> QED
        BY <2>2, <3>2, <3>3
    <2>4. MemorySound'
      BY <1>3, <2>3, MemoryKeeps
    <2> QED
      BY <1>3, <2>4, MemoryTyped, SameFiles DEF DiskInv, CountsSound, Unit
  <1> QED
    BY <1>1, <1>2, <1>3, FailKeeps

LEMMA AcollectRenameKeeps == DiskInv /\ AcollectRename => DiskInv'
  <1> SUFFICES ASSUME DiskInv, AcollectRename PROVE DiskInv'
    OBVIOUS
  <1>1. /\ prog = "acollect" /\ ac.ph = "cat" /\ ac.todo = {}
        /\ disk' = [disk EXCEPT !.A = @ \cup Glue(ac.temp, TRUE)]
        /\ UNCHANGED faults /\ Unit
    BY DEF AcollectRename
  <1>2. Glue(ac.temp, TRUE) \in SUBSET AFiles
    BY <1>1, MemoryTyped, GlueTyped
  <1>3. disk' \in Disks /\ disk'.V = disk.V /\ disk'.S = disk.S
    BY <1>1, <1>2, MemoryTyped DEF Disks
  <1>4. FilesSound' /\ runs' = runs /\ par' = par
    BY <1>1, <1>3, MemoryTyped, SameFiles DEF Unit
  <1>5. CASE ac.rc = 0
    <2>1. ac' = [ac EXCEPT !.ph = "", !.temp = {}] /\ UNCHANGED <<prog, exit>> /\ GroupsIdle
      BY <1>5 DEF AcollectRename
    <2>2. ac' \in Memories /\ ac'.ph = ""
      BY <2>1, MemoryTyped DEF Memories
    <2>3. MemorySound'
      BY <1>1, <2>1, <2>2, MemoryKeeps
    <2> QED
      BY <1>1, <1>4, <2>3 DEF DiskInv, CountsSound
  <1>6. CASE ac.rc = 1
    <2>1. MemorySound'
      BY <1>6, StopMemory DEF AcollectRename
    <2> QED
      BY <1>1, <1>4, <2>1 DEF DiskInv, CountsSound
  <1>7. CASE ac.rc = 2
    BY <1>1, <1>3, <1>7, RunKeeps DEF AcollectRename, Progs
  <1> QED
    BY <1>5, <1>6, <1>7, MemoryTyped

LEMMA LingenKeeps == DiskInv /\ (Lingen \/ bw_commit_f) => DiskInv'
  <1> SUFFICES ASSUME DiskInv, Lingen \/ bw_commit_f PROVE DiskInv'
    OBVIOUS
  <1>1. CASE bw_commit_f
    <2>1. disk' \in Disks /\ disk'.V = disk.V /\ disk'.S = disk.S
      BY <1>1, MemoryTyped DEF bw_commit_f, Disks
    <2> QED
      BY <1>1, <2>1, RunKeeps DEF bw_commit_f, Progs
  <1>2. ASSUME disk' = [disk EXCEPT !.F = Cut], ac' = [ac EXCEPT !.ph = "F"],
               UNCHANGED <<prog, exit, faults>>, GroupsIdle, Unit
        PROVE  DiskInv'
    <2>1. disk' \in Disks /\ disk'.V = disk.V /\ disk'.S = disk.S
      BY <1>2, MemoryTyped DEF Disks
    <2>2. ac' \in Memories /\ ac'.ph = "F"
      BY <1>2, MemoryTyped DEF Memories
    <2>3. MemorySound'
      BY <1>2, <2>2, MemoryKeeps
    <2> QED
      BY <1>2, <2>1, <2>3, MemoryTyped, SameFiles DEF DiskInv, CountsSound, Unit
  <1> QED
    BY <1>1, <1>2, FailKeeps DEF Lingen

LEMMA GatherKeeps == DiskInv /\ Gather => DiskInv'
  <1> SUFFICES ASSUME DiskInv, Gather PROVE DiskInv'
    OBVIOUS
  <1>1. PICK good \in BOOLEAN :
          disk' = [disk EXCEPT !.K = IF good THEN Right ELSE Cut, !.W = IF good THEN Right ELSE @]
    BY DEF Gather
  <1>2. disk' \in Disks /\ disk'.V = disk.V /\ disk'.S = disk.S
    BY <1>1, MemoryTyped DEF Disks
  <1> QED
    BY <1>2, RunKeeps DEF Gather, Progs

LEMMA CleanupKeeps == DiskInv /\ Cleanup => DiskInv'
  <1> SUFFICES ASSUME DiskInv, Cleanup PROVE DiskInv'
    OBVIOUS
  <1>1. disk' \in Disks /\ disk'.V = disk.V /\ disk'.S = disk.S
    BY MemoryTyped DEF Cleanup, Disks
  <1>2. MemorySound'
    BY StopMemory DEF Cleanup
  <1> QED
    BY <1>1, <1>2, MemoryTyped, SameFiles DEF Cleanup, DiskInv, CountsSound, Unit

LEMMA KillKeeps == DiskInv /\ Kill => DiskInv'
  <1> SUFFICES ASSUME DiskInv, Kill PROVE DiskInv'
    OBVIOUS
  <1>1. MemorySound'
    BY StopMemory DEF Kill
  <1> QED
    BY <1>1, MemoryTyped, SameFiles DEF Kill, DiskInv, CountsSound

LEMMA StutterKeeps == DiskInv /\ UNCHANGED vars => DiskInv'
  BY DEF vars, DiskInv, FilesSound, MemorySound, CountsSound, GroupSound, Looping

LEMMA InitHolds == Init => DiskInv
  <1> SUFFICES ASSUME Init PROVE DiskInv
    OBVIOUS
  <1>1. FilesSound
    <2>1. NoFiles \in Disks
      BY DEF NoFiles, Disks, Contents
    <2>2. \A g \in Groups, k \in Iters : NoFiles.V[g][k] = None /\ NoFiles.S[g][k] = None
      BY DEF NoFiles
    <2> QED
      BY <2>1, <2>2 DEF Init, FilesSound
  <1>2. \A g \in Groups : GroupSound(g)
    BY DEF Init, GroupSound, BeforeChunk, AfterChunk
  <1>3. MemorySound
    BY <1>2, IdleTyped, Numbers DEF Init, MemorySound, Places, Contents, Progs
  <1> QED
    BY <1>1, <1>3, Numbers DEF Init, DiskInv, CountsSound

LEMMA NextKeeps == DiskInv /\ [Next]_vars => DiskInv'
  <1> SUFFICES ASSUME DiskInv, [Next]_vars PROVE DiskInv'
    OBVIOUS
  <1>1. ASSUME NEW g \in Groups, GroupStep(g) PROVE DiskInv'
    BY <1>1, LoadKeeps, ChunkKeeps, OpenAKeeps, CloseAKeeps, SaveKeeps, OpenVKeeps, DiscardKeeps
    DEF GroupStep
  <1>2. CASE Program
    BY <1>1, <1>2, PrepKeeps, SecureKeeps, SplitYKeeps, SplitFKeeps, LoopEndKeeps,
       AcollectMergeKeeps, AcollectCatKeeps, AcollectAcrossKeeps, AcollectRenameKeeps,
       LingenKeeps, GatherKeeps, CleanupKeeps
    DEF Program
  <1> QED
    BY <1>2, CompleteKeeps, KillKeeps, StutterKeeps DEF Next

-----------------------------------------------------------------------------
(* The theorem.                                                            *)

\* Whatever is killed, goes wrong or is started again: as long as the products
\* are checked, a file named after an iteration holds what belongs to it or is
\* recognisably cut, and the numbers stay within their bounds.
THEOREM FilesHoldTheirIteration == Spec => []DiskSound
  <1>1. DiskInv => TypeOK
    BY Numbers DEF DiskInv, FilesSound, MemorySound, CountsSound, TypeOK, Disks, AFiles, Places
  <1>2. DiskInv => FaultsStayOffDisk
    BY DEF DiskInv, FilesSound, FaultsStayOffDisk, Unseen
  <1> QED
    BY <1>1, <1>2, InitHolds, NextKeeps, PTL DEF Spec, DiskSound

-----------------------------------------------------------------------------
(* The files a program relies on.                                          *)

\* There is something to compute, and the products are checked.  Without checks a
\* wrong product goes into the files, and with an empty sequence krylov writes no
\* A file, so that lingen fails.
Usual == NK > 0 /\ ~skip_online_checks

\* The parameters ask for old vectors to be removed and spare none: V.0 goes away.
GoesAway == par.keep # 0 /\ par.precious = 0

NoSums == \A g \in Groups, k \in Iters : disk.S[g][k] = None
NoFs == \A g \in Groups : disk.Fs[g] = None

\* The sums: nothing comes before the first interval, and only zeros after F.
\* There are none before mksol.
SumsInv ==
  /\ \A g \in Groups, k \in Iters : disk.S[g][k] \in IF k \in 1..NS THEN {None, Cut, k} ELSE {None, 0}
  /\ prog \in {"prep", "secure", "splity", "krylov", "acollect", "lingen", "splitf"} => NoSums

\* The dot products of block g up to interval d are in the files T.
Covered(T, g, d) == \A j \in 1..NK : j <= d => \E f \in T : f.n1 = g /\ f.j0 < j /\ j <= f.j1
Sound(f) == f.ok /\ (faults = 0 => f.full)
Block(g) == [n0 |-> g - 1, n1 |-> g, j0 |-> 0, j1 |-> NK, full |-> TRUE, ok |-> TRUE]

\* V.0 is there for mksol, unless the parameters let it go.
FirstRight == \A g \in Groups : disk.V[g][0] \in {None, 0} /\ (disk.V[g][0] = None => GoesAway)

NoVectors == \A g \in Groups, k \in Iters : disk.V[g][k] = None
PrepRight == NoVectors /\ disk.A = {} /\ NoFs
SecureRight == PrepRight /\ disk.X = Right
SplityRight ==
  /\ disk.X = Right /\ disk.C = Right /\ disk.A = {} /\ NoFs
  /\ \A g \in Groups, k \in Iters : disk.V[g][k] # None => k = 0 /\ g \in ac.done

\* krylov: the interval up to which the A files of a group are closed, and that
\* of its last vector on disk.
DataDone(g) == IF at[g] \in {"V", "V2", "roll"} THEN s[g] + 1 ELSE s[g]
SavedAt(g) == IF at[g] = "roll" THEN s[g] + 1 ELSE s[g]

\* The A files of a group are right up to there; the one that comes after may be
\* open, or have been left by a run that was killed.  Before the vector is written
\* the data of its interval are in a file of their own.
DataRight(g) ==
  /\ \A f \in disk.A : f.n1 = g => IF f.j1 <= DataDone(g) THEN Sound(f)
                                  ELSE f.j0 = DataDone(g) /\ f.j1 = f.j0 + 1 /\ at[g] # "V"
  /\ Covered(disk.A, g, DataDone(g))
  /\ at[g] = "V" => \E f \in disk.A : f.n1 = g /\ f.j0 = s[g] /\ f.j1 = s[g] + 1
KrylovGroup(g) ==
  /\ at[g] \in {"load", "chunk", "A", "A2", "V", "V2", "roll", "end"}
  /\ s[g] >= start
  /\ at[g] = "load" => disk.V[g][start] = start
  /\ at[g] \in {"chunk", "A", "A2", "V", "V2", "roll"} => vec[g] # Cut
  /\ \A k \in Iters : disk.V[g][k] # None => k <= s[g] \/ (k = s[g] + 1 /\ at[g] \in {"V2", "roll"})
  /\ \A k \in Iters : k >= start /\ disk.V[g][k] = Cut => k = s[g] + 1 /\ at[g] = "V2"
  /\ faults = 0 => disk.V[g][SavedAt(g)] # None
  /\ at[g] = "end" => s[g] >= NK
KrylovRight ==
  /\ disk.X = Right /\ disk.C = Right /\ NoFs /\ FirstRight
  /\ \A g \in Groups : KrylovGroup(g)
  /\ \/ disk.A = {Whole} /\ NK <= start
     \/ Tiles(disk.A) /\ \A g \in Groups : DataRight(g)

\* After krylov: the last vector of each group is that of the end or a later one.
Iterated ==
  /\ disk.X = Right /\ disk.C = Right /\ FirstRight
  /\ faults = 0 => \A g \in Groups : \E k \in Iters :
       k >= NK /\ disk.V[g][k] = k /\ \A l \in Iters : disk.V[g][l] # None => l <= k

\* acollect: the files and A.temp together always hold all of the data.
Pieces == disk.A \cup ac.temp
Collecting ==
  /\ Tiles(Pieces) /\ \A g \in Groups : Covered(Pieces, g, NK)
  /\ \A f \in Pieces : Sound(f) /\ (ac.ph # "" \/ ac.done # {} => f.full)
  /\ \A f \in Pieces : f.n0 \in ac.done => f = Block(f.n1) \/ (ac.ph = "cat" /\ f \in ac.temp \cup ac.todo)
  /\ ac.ph \in {"", "cat", "across"} /\ ac.rc \in {0, 2}
  /\ ac.ph # "cat" => ac.temp = {} /\ ac.rc = 0
  /\ ac.ph = "across" \/ ac.rc = 2 => Pieces = {Block(g) : g \in Groups}
  /\ ac.ph = "cat" => ac.todo \subseteq disk.A /\ ac.temp \cap disk.A = {}
  /\ ac.ph = "cat" /\ ac.rc = 0 => \E b \in ac.done : ac.temp \cup ac.todo = {f \in Pieces : f.n0 = b}
  /\ ac.ph = "cat" /\ ac.rc = 2 => ac.todo = disk.A
AcollectRight == Iterated /\ NoFs /\ ((disk.A = {Whole} /\ ac = Idle) \/ Collecting)

LingenRight == Iterated /\ NoFs /\ disk.A = {Whole}
SplitfRight ==
  /\ Iterated /\ disk.A = {Whole} /\ disk.F = Right
  /\ \A g \in Groups : disk.Fs[g] # None => g \in ac.done

\* mksol and after: as long as there are no sums the A file is still there.
Solvable ==
  /\ disk.F = Right /\ disk.X = Right /\ disk.C = Right /\ \A g \in Groups : disk.Fs[g] = Right
Kept == NoSums => disk.A = {Whole}
SumsDone(g) == DataDone(g)
MksolGroup(g) ==
  /\ at[g] \in {"load", "chunk", "S", "S2", "V", "V2", "roll", "end"}
  /\ at[g] = "load" => disk.V[g][start] \in {None, start} /\ (disk.V[g][start] = None => GoesAway /\ Kept)
  /\ at[g] \in {"chunk", "S", "S2", "V", "V2", "roll"} => vec[g] # Cut
  /\ \A k \in 1..NS : k <= SumsDone(g) => disk.S[g][k] = k
  /\ \A k \in Iters : disk.S[g][k] # None => k <= SumsDone(g) \/ (k = s[g] + 1 /\ at[g] = "S2")
  /\ at[g] \in {"V", "V2", "roll", "end"} => disk.S[g][SumsDone(g)] # None
  /\ at[g] = "end" => s[g] >= NS
MksolRight == Solvable /\ Kept /\ \A g \in Groups : MksolGroup(g)
GatherRight ==
  /\ Solvable /\ ~NoSums
  /\ \A g \in Groups, k \in 1..NS : disk.S[g][k] = k

\* What the running program may rely on, when the script found its files in order.
RunRight ==
  /\ prog = "prep" => PrepRight
  /\ prog = "secure" => SecureRight
  /\ prog = "splity" => SplityRight
  /\ prog = "krylov" => KrylovRight
  /\ prog = "acollect" => AcollectRight
  /\ prog = "lingen" => LingenRight
  /\ prog = "splitf" => SplitfRight
  /\ prog = "mksol" => MksolRight
  /\ prog = "gather" => GatherRight
  /\ prog = "cleanup" => GatherRight /\ disk.K = Right
\* How such a run ends.
EndRight ==
  /\ exit = "none" => NoVectors
  /\ exit = "ok" => disk.W = Right /\ ~NoSums
  /\ exit = "failed" => faults > 0 \/ (GoesAway /\ Kept)
  /\ exit = "killed" /\ ~hit /\ faults = 0 => Healthy

RecoveryInv ==
  /\ SumsInv
  /\ prog # "idle" => exit = "none"
  /\ (healthy => RunRight /\ (prog = "idle" => EndRight))
-----------------------------------------------------------------------------
(* The last files.                                                         *)

\* The number of the last file of a block.
LEMMA LastOf ==
    ASSUME NEW d, NEW g
    PROVE  \/ maxOf(d, g) = None /\ \A k \in Iters : d[g][k] = None
           \/ /\ maxOf(d, g) \in Iters /\ d[g][maxOf(d, g)] # None
              /\ \A k \in Iters : d[g][k] # None => k <= maxOf(d, g)
  <1> DEFINE T == {k \in Iters : d[g][k] # None}
  <1>1. T \in SUBSET (0..Top) /\ Top \in Nat
    BY Numbers DEF Iters
  <1>2. CASE T = {}
    <2>1. maxOf(d, g) = None
      BY <1>2 DEF maxOf
    <2> QED
      BY <1>2, <2>1
  <1>3. CASE T # {}
    <2>1. maxOf(d, g) = Max(T)
      BY <1>3 DEF maxOf
    <2>2. Max(T) \in T /\ \A j \in T : j <= Max(T)
      BY <1>1, <1>3, GreatestNat
    <2> QED
      BY <2>1, <2>2
  <1> QED
    BY <1>2, <1>3

\* The number of the last vector of any block.
LEMMA LastVector ==
    \/ last_cp("V") = None /\ NoVectors
    \/ /\ last_cp("V") \in Iters /\ \E g \in Groups : disk.V[g][last_cp("V")] # None
       /\ \A g \in Groups, k \in Iters : disk.V[g][k] # None => k <= last_cp("V")
  <1> DEFINE T == checkpoints(disk["V"])
  <1>1. T = {k \in Iters : \E g \in Groups : disk.V[g][k] # None}
    BY DEF checkpoints
  <1>2. T \in SUBSET (0..Top) /\ Top \in Nat
    BY <1>1, Numbers DEF Iters
  <1>3. last_cp("V") = IF T = {} THEN None ELSE Max(T)
    BY DEF last_cp
  <1> HIDE DEF T
  <1>4. CASE T = {}
    BY <1>1, <1>3, <1>4 DEF NoVectors
  <1>5. CASE T # {}
    <2>1. Max(T) \in T /\ \A j \in T : j <= Max(T)
      BY <1>2, <1>5, GreatestNat
    <2> QED
      BY <1>1, <1>3, <1>5, <2>1
  <1> QED
    BY <1>4, <1>5

\* The number of the last sum of any block.
LEMMA LastSum ==
    \/ last_cp("S") = None /\ NoSums
    \/ /\ last_cp("S") \in Iters /\ ~NoSums
       /\ \E g \in Groups : disk.S[g][last_cp("S")] # None
       /\ \A g \in Groups, k \in Iters : disk.S[g][k] # None => k <= last_cp("S")
  <1> DEFINE T == checkpoints(disk["S"])
  <1>1. T = {k \in Iters : \E g \in Groups : disk.S[g][k] # None}
    BY DEF checkpoints
  <1>2. T \in SUBSET (0..Top) /\ Top \in Nat
    BY <1>1, Numbers DEF Iters
  <1>3. last_cp("S") = IF T = {} THEN None ELSE Max(T)
    BY DEF last_cp
  <1> HIDE DEF T
  <1>4. CASE T = {}
    BY <1>1, <1>3, <1>4 DEF NoSums
  <1>5. CASE T # {}
    <2>1. Max(T) \in T /\ \A j \in T : j <= Max(T)
      BY <1>2, <1>5, GreatestNat
    <2> QED
      BY <1>1, <1>3, <1>5, <2>1 DEF NoSums
  <1> QED
    BY <1>4, <1>5

\* Numbers of iterations are not the mark of a missing file.
LEMMA Marks == None \notin Iters /\ Cut \notin Iters /\ Bad \notin Iters /\ None # Cut /\ 0 # None /\ 0 # Cut
  BY Numbers DEF None, Cut, Bad

-----------------------------------------------------------------------------
(* The sums.                                                               *)

\* A program that leaves the sums alone, and is not followed by an earlier one.
LEMMA SameSums ==
    ASSUME SumsInv, disk'.S = disk.S,
           prog' \in {"prep", "secure", "splity", "krylov", "acollect", "lingen", "splitf"}
             => prog \in {"prep", "secure", "splity", "krylov", "acollect", "lingen", "splitf"}
    PROVE  SumsInv'
  BY DEF SumsInv, NoSums

\* A step of a group that leaves the sums alone.
LEMMA StepSums ==
    ASSUME SumsInv, NEW g, NEW pc, Step(g, pc), disk'.S = disk.S
    PROVE  SumsInv'
  BY SameSums DEF Step

\* The script ends, whatever the files hold.
LEMMA StopSums ==
    ASSUME SumsInv, NEW how, Stop(how), disk'.S = disk.S
    PROVE  SumsInv'
  BY SameSums DEF Stop

LEMMA FailSums == SumsInv /\ Fail => SumsInv'
  BY StopSums DEF Fail

LEMMA CompleteSums == DiskInv /\ SumsInv /\ Complete => SumsInv'
  <1> SUFFICES ASSUME DiskInv, SumsInv, Complete PROVE SumsInv'
    OBVIOUS
  <1>1. CASE last_cp("S") # None
    BY <1>1, SameSums DEF Complete, Run
  <1>2. CASE last_cp("S") = None /\ disk' = disk
    BY <1>2, LastSum, Marks DEF SumsInv, NoSums
  <1>3. CASE disk' = NoFiles
    BY <1>3 DEF NoFiles, SumsInv, NoSums
  <1> QED
    BY <1>1, <1>2, <1>3 DEF Complete

LEMMA SplitSums ==
    ASSUME DiskInv, SumsInv, SplitY \/ SplitF
    PROVE  SumsInv'
  <1>1. disk \in Disks
    BY DEF DiskInv, FilesSound
  <1>2. PICK name \in {"V", "F"}, v \in {0, disk.F}, next \in {"krylov", "mksol"} :
          splitWrite(name, v, next) /\ prog \in {"splity", "splitf"}
    <2>1. CASE SplitY
      <3>1. splitWrite("V", 0, "krylov") /\ prog \in {"splity", "splitf"}
        BY <2>1 DEF SplitY
      <3> QED
        BY <3>1
    <2>2. CASE SplitF
      <3>1. splitWrite("F", disk.F, "mksol") /\ prog \in {"splity", "splitf"}
        BY <2>2 DEF SplitF
      <3> QED
        BY <3>1
    <2> QED
      BY <2>1, <2>2
  <1>3. disk'.S = disk.S
    BY <1>1, <1>2 DEF splitWrite, Fail, Disks
  <1>4. prog' \in {prog, "idle", "krylov", "mksol"}
    BY <1>2 DEF splitWrite, Fail, Run, Stop
  <1> QED
    BY <1>2, <1>3, <1>4, SameSums

\* What mksol adds up.
LEMMA SumOf ==
    ASSUME Usual, DiskInv, NEW g \in Groups, prog = "mksol", at[g] \in {"S", "S2"}
    PROVE  /\ s[g] + 1 \in Iters /\ s[g] + 1 # 0
           /\ sumOf(g) \in IF s[g] + 1 \in 1..NS THEN {Cut, s[g] + 1} ELSE {0}
           /\ (s[g] + 1 \in 1..NS /\ vec[g] # Cut /\ disk.Fs[g] = Right) => sumOf(g) = s[g] + 1
  <1>1. at[g] \in AfterChunk /\ GroupSound(g) /\ s[g] \in Nat
    BY InLoop, Numbers DEF AfterChunk
  <1>2. s[g] + 1 \in Iters
    BY <1>1, NextNumber
  <1>3. vec[g] \in {Cut, s[g] + 1}
    BY <1>1 DEF GroupSound, Unseen, Usual
  <1>4. s[g] + 1 \in 1..NS <=> ~(s[g] >= NS)
    BY <1>1, Numbers
  <1>5. Cut # Bad /\ s[g] + 1 # Bad
    BY <1>1 DEF Cut, Bad
  <1> QED
    BY <1>1, <1>2, <1>3, <1>4, <1>5 DEF sumOf

LEMMA SaveSums ==
    ASSUME Usual, DiskInv, SumsInv, NEW g \in Groups, OpenS(g) \/ CloseS(g)
    PROVE  SumsInv'
  <1>1. prog = "mksol" /\ at[g] \in {"S", "S2"} /\ prog' = prog
    BY DEF OpenS, CloseS, Step
  <1> DEFINE k == s[g] + 1
             Set == IF k \in 1..NS THEN {None, Cut, k} ELSE {None, 0}
  <1>2. k \in Iters /\ sumOf(g) \in IF k \in 1..NS THEN {Cut, k} ELSE {0}
    BY <1>1, SumOf
  <1>3. disk.S[g][k] \in Set
    BY <1>2 DEF SumsInv
  <1>4. PICK x \in Set : disk' = [disk EXCEPT !.S[g][k] = x]
    <2>1. CASE CloseS(g)
      BY <1>2, <2>1 DEF CloseS
    <2>2. CASE OpenS(g)
      BY <1>2, <1>3, <2>2, Numbers, Marks DEF OpenS, pi_save_file_begin
    <2> QED
      BY <2>1, <2>2
  <1>5. disk'.S = [disk.S EXCEPT ![g][k] = x] /\ disk.S \in [Groups -> [Iters -> Contents]]
    BY <1>4 DEF DiskInv, FilesSound, Disks
  <1>6. \A h \in Groups, l \in Iters : disk'.S[h][l] = IF h = g /\ l = k THEN x ELSE disk.S[h][l]
    BY <1>2, <1>5
  <1> QED
    BY <1>1, <1>4, <1>6 DEF SumsInv

LEMMA GroupSums ==
    ASSUME Usual, DiskInv, SumsInv, NEW g \in Groups, GroupStep(g)
    PROVE  SumsInv'
  <1>1. disk \in Disks
    BY DEF DiskInv, FilesSound
  <1>2. CASE Load(g) \/ LoadMksol(g)
    BY <1>2, FailSums, StepSums DEF Load, LoadMksol
  <1>3. CASE Chunk(g) \/ ChunkMksol(g)
    BY <1>3, StopSums, StepSums DEF Chunk, ChunkMksol, Checked
  <1>4. CASE OpenA(g) \/ CloseA(g)
    BY <1>1, <1>4, StepSums DEF OpenA, CloseA, WriteA, Disks
  <1>5. CASE OpenV(g) \/ CloseV(g)
    BY <1>1, <1>5, StepSums DEF OpenV, CloseV, Disks
  <1>6. CASE Discard(g)
    BY <1>1, <1>6, StepSums DEF Discard, Disks
  <1> QED
    BY <1>2, <1>3, <1>4, <1>5, <1>6, SaveSums DEF GroupStep

LEMMA NextSums == Usual /\ DiskInv /\ SumsInv /\ [Next]_vars => SumsInv'
  <1> SUFFICES ASSUME Usual, DiskInv, SumsInv, [Next]_vars PROVE SumsInv'
    OBVIOUS
  <1>1. disk \in Disks
    BY DEF DiskInv, FilesSound
  <1>2. CASE Prep \/ Secure \/ LoopEnd \/ Lingen \/ bw_commit_f \/ Gather \/ Cleanup
    <2>1. disk'.S = disk.S
      BY <1>1, <1>2 DEF Prep, Secure, LoopEnd, Lingen, bw_commit_f, Gather, Cleanup, Fail, Disks
    <2> QED
      BY <1>2, <2>1, SameSums, StopSums, FailSums
      DEF Prep, Secure, LoopEnd, Lingen, bw_commit_f, Gather, Cleanup, Run, Looping
  <1>3. CASE AcollectMerge \/ AcollectCat \/ AcollectAcross \/ AcollectRename
    <2>1. disk'.S = disk.S
      BY <1>1, <1>3 DEF AcollectMerge, AcollectCat, AcollectAcross, AcollectRename, Fail, Disks
    <2>2. prog = "acollect"
      BY <1>3 DEF AcollectMerge, AcollectCat, AcollectAcross, AcollectRename
    <2> QED
      BY <2>1, <2>2, SameSums
  <1>4. CASE Kill \/ UNCHANGED vars
    BY <1>4, SameSums, StopSums DEF Kill, vars
  <1> QED
    BY <1>2, <1>3, <1>4, CompleteSums, SplitSums, GroupSums DEF Next, Program

-----------------------------------------------------------------------------
(* How a run of the script starts and ends.                                *)

\* A program that fails for a reason.
LEMMA FailEnds ==
    ASSUME Fail, faults > 0 \/ (GoesAway /\ Kept)
    PROVE  RunRight' /\ EndRight'
  <1>1. prog' = "idle" /\ exit' = "failed" /\ disk' = disk /\ faults' = faults /\ par' = par
    BY DEF Fail, Stop, Unit
  <1>2. (GoesAway' <=> GoesAway) /\ (Kept' <=> Kept)
    BY <1>1 DEF GoesAway, Kept, NoSums
  <1> QED
    BY <1>1, <1>2 DEF RunRight, EndRight

\* A run that goes on with mksol.
LEMMA ResumeMksol ==
    ASSUME DiskInv, SumsInv, Complete, Healthy, last_cp("S") # None
    PROVE  RunRight' /\ prog' # "idle"
  <1> DEFINE m == last_cp("S")
  <1>1. /\ m \in Iters /\ ~NoSums
        /\ \A g \in Groups, k \in Iters : disk.S[g][k] # None => k <= m
    BY LastSum
  <1>2. /\ disk.F = Right /\ disk.X = Right /\ disk.C = Right
        /\ \A g \in Groups : /\ disk.Fs[g] = Right /\ disk.V[g][m] = m
                             /\ \A k \in 1..NS : k <= m => disk.S[g][k] = k
    BY DEF Healthy
  <1> HIDE DEF m
  <1>3. /\ prog' = "mksol" /\ disk' = disk /\ start' = m
        /\ at' = [g \in Groups |-> "load"] /\ s' = [g \in Groups |-> m]
    BY DEF Complete, Run, m
  <1>4. Solvable' /\ Kept'
    BY <1>1, <1>2, <1>3 DEF Solvable, Kept, NoSums
  <1>5. ASSUME NEW g \in Groups PROVE MksolGroup(g)'
    <2>1. at'[g] = "load" /\ s'[g] = m /\ SumsDone(g)' = m
      BY <1>3 DEF SumsDone, DataDone
    <2>2. disk'.V[g][start'] = start' /\ start' # None
      BY <1>1, <1>2, <1>3, Marks
    <2>3. \A k \in 1..NS : k <= m => disk'.S[g][k] = k
      BY <1>2, <1>3
    <2>4. \A k \in Iters : disk'.S[g][k] # None => k <= m
      BY <1>1, <1>3
    <2> QED
      BY <2>1, <2>2, <2>3, <2>4 DEF MksolGroup
  <1> QED
    BY <1>3, <1>4, <1>5 DEF RunRight, MksolRight

\* A run that goes on with krylov.
LEMMA ResumeKrylov ==
    ASSUME DiskInv, SumsInv, Complete, Healthy, last_cp("S") = None, last_cp("V") # None
    PROVE  RunRight' /\ prog' # "idle"
  <1> DEFINE m == last_cp("V")
  <1>1. /\ m \in Iters
        /\ \A g \in Groups, k \in Iters : disk.V[g][k] # None => k <= m
    BY LastVector
  <1>2. /\ disk.X = Right /\ disk.C = Right
        /\ Groups \X (1..Min({m, NK})) \subseteq AData
        /\ disk.A = {Whole} \/ Tiles(disk.A)
        /\ \A f \in disk.A : IF f.j1 <= m THEN f.full /\ f.ok
                             ELSE f.j0 = m /\ f.j1 = m + 1 /\ f.n1 = f.n0 + 1
        /\ \A g \in Groups : disk.V[g][m] = m /\ disk.V[g][0] = 0 /\ disk.Fs[g] = None
    BY DEF Healthy
  <1> HIDE DEF m
  <1>3. /\ prog' = "krylov" /\ disk' = disk /\ start' = m /\ faults' = faults /\ par' = par
        /\ at' = [g \in Groups |-> "load"] /\ s' = [g \in Groups |-> m]
    BY DEF Complete, Run, m
  <1>4. m \in Nat /\ NK \in Nat /\ 0 \in Iters
    BY <1>1, Numbers
  <1>5. \A g \in Groups : at'[g] = "load" /\ s'[g] = m /\ DataDone(g)' = m /\ SavedAt(g)' = m
    BY <1>3 DEF DataDone, SavedAt
  <1>6. disk'.X = Right /\ disk'.C = Right /\ NoFs' /\ FirstRight'
    BY <1>2, <1>3, Marks DEF NoFs, FirstRight
  <1>7. ASSUME NEW g \in Groups PROVE KrylovGroup(g)'
    <2>1. disk'.V[g][m] = m /\ m # None /\ m # Cut
      BY <1>1, <1>2, <1>3, Marks
    <2>2. \A k \in Iters : disk'.V[g][k] # None => k <= m
      BY <1>1, <1>3
    <2>3. \A k \in Iters : k >= m /\ disk'.V[g][k] = Cut => FALSE
      <3> SUFFICES ASSUME NEW k \in Iters, k >= m, disk'.V[g][k] = Cut PROVE FALSE
        OBVIOUS
      <3>1. k <= m
        BY <2>2, Marks
      <3>2. k = m
        BY <3>1, <1>4, Numbers
      <3> QED
        BY <2>1, <3>2
    <2> QED
      BY <1>3, <1>4, <1>5, <2>1, <2>2, <2>3 DEF KrylovGroup
  <1>8. CASE Tiles(disk.A)
    <2>1. ASSUME NEW g \in Groups, NEW j \in 1..NK, j <= m
          PROVE  \E f \in disk.A : f.n1 = g /\ f.j0 < j /\ j <= f.j1
      <3>1. Min({m, NK}) \in {m, NK}
        BY <1>4, LeastNat
      <3>2. j \in 1..Min({m, NK})
        BY <1>4, <2>1, <3>1
      <3>3. <<g, j>> \in AData
        BY <1>2, <3>2
      <3>4. PICK f \in disk.A : g \in (f.n0 + 1)..f.n1 /\ j \in (f.j0 + 1)..f.j1
        BY <3>3 DEF AData, Covers
      <3>5. f \in AFiles /\ f.n1 = f.n0 + 1 /\ g \in Nat
        BY <1>8, GroupNumbers DEF Tiles, DiskInv, FilesSound, Disks
      <3>6. f.n0 \in Nat /\ f.n1 \in Nat /\ f.j0 \in Nat /\ f.j1 \in Nat
        BY <3>5, GroupNumbers, Numbers DEF AFiles
      <3>7. f.n1 = g /\ f.j0 < j /\ j <= f.j1
        BY <3>4, <3>5, <3>6
      <3> QED
        BY <3>7
    <2>2. \A g \in Groups : DataRight(g)'
      BY <1>2, <1>3, <1>5, <2>1 DEF DataRight, Covered, Sound
    <2>3. Tiles(disk'.A)
      BY <1>3, <1>8
    <2> QED
      BY <1>3, <1>6, <1>7, <2>2, <2>3 DEF RunRight, KrylovRight
  <1>9. CASE disk.A = {Whole} /\ NK <= m
    BY <1>3, <1>6, <1>7, <1>9 DEF RunRight, KrylovRight
  <1>10. CASE disk.A = {Whole} /\ ~(NK <= m)
    <2>1. Whole.n1 = Whole.n0 + 1 /\ Whole.j0 = m /\ Whole.j1 = m + 1
      BY <1>2, <1>10 DEF Whole
    <2>2. Whole.j0 < Whole.j1
      BY <1>4, <2>1
    <2>3. Tiles(disk.A)
      BY <1>10, <2>1, <2>2 DEF Tiles
    <2> QED
      BY <1>8, <2>3
  <1> QED
    BY <1>2, <1>8, <1>9, <1>10

LEMMA CompleteRight ==
    ASSUME DiskInv, SumsInv, Complete, healthy'
    PROVE  RunRight' /\ (prog' = "idle" => EndRight')
  <1>1. Healthy
    BY DEF Complete
  <1>2. CASE last_cp("S") # None
    BY <1>1, <1>2, ResumeMksol
  <1>3. CASE last_cp("S") = None /\ last_cp("V") # None
    BY <1>1, <1>3, ResumeKrylov
  <1>4. CASE last_cp("S") = None /\ last_cp("V") = None
    <2>1. disk' = NoFiles /\ prog' = "prep"
      BY <1>4 DEF Complete, Run
    <2> QED
      BY <2>1 DEF RunRight, PrepRight, NoVectors, NoFs, NoFiles
  <1> QED
    BY <1>2, <1>3, <1>4

LEMMA PrepareRight ==
    ASSUME DiskInv, RunRight, Prep \/ Secure
    PROVE  RunRight' /\ prog' # "idle"
  <1>1. disk \in Disks
    BY DEF DiskInv, FilesSound
  <1>2. CASE Prep
    <2>1. PrepRight /\ prog' = "secure" /\ disk' = [disk EXCEPT !.X = Right]
      BY <1>2 DEF Prep, Run, RunRight
    <2>2. disk'.V = disk.V /\ disk'.A = disk.A /\ disk'.Fs = disk.Fs /\ disk'.X = Right
      BY <1>1, <2>1 DEF Disks
    <2> QED
      BY <2>1, <2>2 DEF RunRight, SecureRight, PrepRight, NoVectors, NoFs
  <1>3. CASE Secure
    <2>1. SecureRight /\ prog' = "splity" /\ disk' = [disk EXCEPT !.C = Right] /\ ac' = Idle
      BY <1>3 DEF Secure, Run, RunRight
    <2>2. disk'.V = disk.V /\ disk'.A = disk.A /\ disk'.Fs = disk.Fs /\ disk'.X = disk.X /\ disk'.C = Right
      BY <1>1, <2>1 DEF Disks
    <2> QED
      BY <2>1, <2>2 DEF RunRight, SecureRight, SplityRight, PrepRight, NoVectors, NoFs
  <1> QED
    BY <1>2, <1>3

-----------------------------------------------------------------------------
(* The programs before and after the two loops.                            *)

LEMMA SplitYRight ==
    ASSUME DiskInv, RunRight, SplitY
    PROVE  RunRight' /\ (prog' = "idle" => EndRight')
  <1> DEFINE put(G, x) == [disk EXCEPT !.V = [g \in Groups |-> IF g \in G THEN [disk.V[g] EXCEPT ![0] = x]
                                                              ELSE disk.V[g]]]
             new == Min(Groups \ ac.done)
  <1>1. /\ prog = "splity" /\ disk \in Disks /\ 0 \in Iters
        /\ disk.V \in [Groups -> [Iters -> Contents]]
        /\ SplityRight
    BY Numbers DEF SplitY, RunRight, DiskInv, FilesSound, Disks
  <1>2. Groups \ ac.done # {} => new \in Groups \ ac.done
    BY LeastNat, GroupNumbers
  <1>3. Groups \ ac.done # {} => disk.V[new][0] = None
    BY <1>1, <1>2 DEF SplityRight
  <1>4. \/ disk' = put(Groups, 0) /\ Run("krylov", 0) /\ UNCHANGED faults /\ Unit
        \/ /\ Groups \ ac.done # {}
           /\ disk' = put({new}, Cut)
           /\ ac' = [ac EXCEPT !.done = @ \cup {new}]
           /\ UNCHANGED <<prog, exit, faults>> /\ GroupsIdle /\ Unit
    BY <1>3 DEF SplitY, splitWrite
  <1> HIDE DEF new
  <1>5. ASSUME disk' = put(Groups, 0), Run("krylov", 0), UNCHANGED faults, Unit
        PROVE  RunRight' /\ prog' # "idle"
    <2>1. /\ prog' = "krylov" /\ start' = 0 /\ par' = par /\ faults' = faults
          /\ at' = [g \in Groups |-> "load"] /\ s' = [g \in Groups |-> 0]
      BY <1>5 DEF Run, Unit
    <2>2. /\ disk'.X = disk.X /\ disk'.C = disk.C /\ disk'.A = disk.A /\ disk'.Fs = disk.Fs
          /\ disk'.V = [g \in Groups |-> [disk.V[g] EXCEPT ![0] = 0]]
      BY <1>1, <1>5 DEF Disks
    <2>3. \A g \in Groups, k \in Iters : disk'.V[g][k] = IF k = 0 THEN 0 ELSE None
      BY <1>1, <2>2 DEF SplityRight
    <2>4. disk'.X = Right /\ disk'.C = Right /\ disk'.A = {} /\ NoFs'
      BY <1>1, <2>2 DEF SplityRight, NoFs
    <2>5. FirstRight'
      BY <1>1, <2>3, Marks DEF FirstRight
    <2>6. ASSUME NEW g \in Groups PROVE KrylovGroup(g)' /\ DataRight(g)'
      <3>1. at'[g] = "load" /\ s'[g] = 0 /\ DataDone(g)' = 0 /\ SavedAt(g)' = 0
        BY <2>1 DEF DataDone, SavedAt
      <3>2. Covered(disk'.A, g, 0)
        BY DEF Covered
      <3> QED
        BY <1>1, <2>1, <2>3, <2>4, <3>1, <3>2, Marks DEF KrylovGroup, DataRight
    <2>7. Tiles(disk'.A)
      BY <2>4 DEF Tiles
    <2> QED
      BY <2>1, <2>4, <2>5, <2>6, <2>7 DEF RunRight, KrylovRight
  <1>6. ASSUME Groups \ ac.done # {}, disk' = put({new}, Cut),
               ac' = [ac EXCEPT !.done = @ \cup {new}],
               UNCHANGED <<prog, exit, faults>>, GroupsIdle, Unit
        PROVE  RunRight' /\ prog' # "idle"
    <2>1. /\ disk'.X = disk.X /\ disk'.C = disk.C /\ disk'.A = disk.A /\ disk'.Fs = disk.Fs
          /\ disk'.V = [g \in Groups |-> IF g \in {new} THEN [disk.V[g] EXCEPT ![0] = Cut] ELSE disk.V[g]]
      BY <1>1, <1>6 DEF Disks
    <2>2. prog' = "splity" /\ ac'.done = ac.done \cup {new}
      BY <1>1, <1>6 DEF DiskInv, MemorySound, Memories
    <2>3. \A g \in Groups, k \in Iters :
            disk'.V[g][k] = IF g = new /\ k = 0 THEN Cut ELSE disk.V[g][k]
      BY <1>1, <2>1
    <2>4. \A g \in Groups, k \in Iters : disk'.V[g][k] # None => k = 0 /\ g \in ac'.done
      BY <1>1, <2>2, <2>3 DEF SplityRight
    <2> QED
      BY <1>1, <2>1, <2>2, <2>4 DEF RunRight, SplityRight, NoFs
  <1> QED
    BY <1>4, <1>5, <1>6

\* What krylov leaves behind does not depend on what the next programs do.
LEMMA StillIterated ==
    ASSUME Iterated, disk'.X = disk.X, disk'.C = disk.C, disk'.V = disk.V, UNCHANGED <<faults, par>>
    PROVE  Iterated'
  BY DEF Iterated, FirstRight, GoesAway

LEMMA SplitFRight ==
    ASSUME DiskInv, SumsInv, RunRight, SplitF
    PROVE  RunRight' /\ (prog' = "idle" => EndRight')
  <1> DEFINE put(G, x) == [disk EXCEPT !.Fs = [g \in Groups |-> IF g \in G THEN x ELSE disk.Fs[g]]]
             new == Min(Groups \ ac.done)
  <1>1. prog = "splitf" /\ disk \in Disks /\ SplitfRight /\ NoSums
    BY DEF SplitF, RunRight, DiskInv, FilesSound, SumsInv
  <1>2. Groups \ ac.done # {} => new \in Groups \ ac.done
    BY LeastNat, GroupNumbers
  <1>3. Groups \ ac.done # {} => disk.Fs[new] = None
    BY <1>1, <1>2 DEF SplitfRight
  <1>4. \/ disk' = put(Groups, disk.F) /\ Run("mksol", 0) /\ UNCHANGED faults /\ Unit
        \/ /\ Groups \ ac.done # {}
           /\ disk' = put({new}, Cut)
           /\ ac' = [ac EXCEPT !.done = @ \cup {new}]
           /\ UNCHANGED <<prog, exit, faults>> /\ GroupsIdle /\ Unit
    BY <1>3 DEF SplitF, splitWrite
  <1> HIDE DEF new
  <1>5. ASSUME disk' = put(Groups, disk.F), Run("mksol", 0), UNCHANGED faults, Unit
        PROVE  RunRight' /\ prog' # "idle"
    <2>1. /\ prog' = "mksol" /\ start' = 0 /\ par' = par /\ faults' = faults
          /\ at' = [g \in Groups |-> "load"] /\ s' = [g \in Groups |-> 0]
      BY <1>5 DEF Run, Unit
    <2>2. /\ disk'.X = disk.X /\ disk'.C = disk.C /\ disk'.A = disk.A /\ disk'.V = disk.V
          /\ disk'.F = disk.F /\ disk'.S = disk.S /\ \A g \in Groups : disk'.Fs[g] = disk.F
      BY <1>1, <1>5 DEF Disks
    <2>3. Solvable' /\ Kept'
      BY <1>1, <2>2 DEF SplitfRight, Iterated, Solvable, Kept
    <2>4. ASSUME NEW g \in Groups PROVE MksolGroup(g)'
      <3>1. at'[g] = "load" /\ s'[g] = 0 /\ SumsDone(g)' = 0
        BY <2>1 DEF SumsDone, DataDone
      <3>2. disk'.V[g][start'] \in {None, start'} /\ (disk'.V[g][start'] = None => GoesAway' /\ Kept')
        BY <1>1, <2>1, <2>2, <2>3 DEF SplitfRight, Iterated, FirstRight, GoesAway
      <3>3. \A k \in Iters : disk'.S[g][k] = None
        BY <1>1, <2>2 DEF NoSums
      <3>4. \A k \in 1..NS : ~(k <= 0)
        BY Numbers
      <3> QED
        BY <3>1, <3>2, <3>3, <3>4 DEF MksolGroup
    <2> QED
      BY <2>1, <2>3, <2>4 DEF RunRight, MksolRight
  <1>6. ASSUME Groups \ ac.done # {}, disk' = put({new}, Cut),
               ac' = [ac EXCEPT !.done = @ \cup {new}],
               UNCHANGED <<prog, exit, faults>>, GroupsIdle, Unit
        PROVE  RunRight' /\ prog' # "idle"
    <2>1. /\ disk'.X = disk.X /\ disk'.C = disk.C /\ disk'.A = disk.A /\ disk'.V = disk.V
          /\ disk'.F = disk.F /\ \A g \in Groups : g # new => disk'.Fs[g] = disk.Fs[g]
      BY <1>1, <1>6 DEF Disks
    <2>2. prog' = "splitf" /\ ac'.done = ac.done \cup {new} /\ UNCHANGED <<faults, par>>
      BY <1>1, <1>6 DEF DiskInv, MemorySound, Memories, Unit
    <2>3. Iterated'
      BY <1>1, <2>1, <2>2, StillIterated DEF SplitfRight
    <2> QED
      BY <1>1, <2>1, <2>2, <2>3 DEF RunRight, SplitfRight
  <1> QED
    BY <1>4, <1>5, <1>6

LEMMA LingenStepRight ==
    ASSUME Usual, DiskInv, RunRight, Lingen \/ bw_commit_f
    PROVE  RunRight' /\ prog' # "idle"
  <1>1. prog = "lingen" /\ disk \in Disks /\ LingenRight
    BY DEF Lingen, bw_commit_f, RunRight, DiskInv, FilesSound
  <1>2. Cardinality({Whole}) = 1 /\ disk.A = {Whole}
    BY <1>1, FS_Singleton DEF LingenRight
  <1>3. /\ Whole.n1 - Whole.n0 = Cardinality(Groups) /\ Whole.ok
        /\ Whole.j1 - Whole.j0 = NK /\ ~(Whole.j1 - Whole.j0 < NK)
    BY Numbers, BWAssumption DEF Whole
  <1>4. CASE Lingen
    <2>1. /\ disk' = [disk EXCEPT !.F = Cut] /\ UNCHANGED <<prog, exit, faults>> /\ Unit
      BY <1>2, <1>3, <1>4 DEF Lingen
    <2>2. /\ disk'.X = disk.X /\ disk'.C = disk.C /\ disk'.A = disk.A /\ disk'.V = disk.V
          /\ disk'.Fs = disk.Fs /\ UNCHANGED <<faults, par>>
      BY <1>1, <2>1 DEF Disks, Unit
    <2>3. Iterated'
      BY <1>1, <2>2, StillIterated DEF LingenRight
    <2> QED
      BY <1>1, <2>1, <2>2, <2>3 DEF RunRight, LingenRight, NoFs
  <1>5. CASE bw_commit_f
    <2>1. disk' = [disk EXCEPT !.F = Right] /\ Run("splitf", 0) /\ UNCHANGED faults /\ Unit
      BY <1>2, <1>3, <1>5 DEF bw_commit_f
    <2>2. /\ disk'.X = disk.X /\ disk'.C = disk.C /\ disk'.A = disk.A /\ disk'.V = disk.V
          /\ disk'.Fs = disk.Fs /\ disk'.F = Right /\ UNCHANGED <<faults, par>>
      BY <1>1, <2>1 DEF Disks, Unit
    <2>3. Iterated'
      BY <1>1, <2>2, StillIterated DEF LingenRight
    <2>4. prog' = "splitf"
      BY <2>1 DEF Run
    <2> QED
      BY <1>1, <2>2, <2>3, <2>4 DEF RunRight, LingenRight, SplitfRight, NoFs
  <1> QED
    BY <1>4, <1>5

\* gather finds every sum once.
LEMMA GatherStepRight ==
    ASSUME DiskInv, SumsInv, RunRight, Gather
    PROVE  RunRight' /\ prog' # "idle"
  <1>1. prog = "gather" /\ disk \in Disks /\ GatherRight
    BY DEF Gather, RunRight, DiskInv, FilesSound
  <1>2. ASSUME NEW g \in Groups, NEW k \in Iters, disk.S[g][k] # None
        PROVE  disk.S[g][k] = IF k \in 1..NS THEN k ELSE 0
    BY <1>1, <1>2, Marks DEF SumsInv, GatherRight
  <1>3. \A p \in prelude : disk.S[p[1]][p[2]] >= 0
    <2> SUFFICES ASSUME NEW p \in prelude PROVE disk.S[p[1]][p[2]] >= 0
      OBVIOUS
    <2>1. p[1] \in Groups /\ p[2] \in Iters /\ disk.S[p[1]][p[2]] # None
      BY DEF prelude
    <2>2. disk.S[p[1]][p[2]] = IF p[2] \in 1..NS THEN p[2] ELSE 0
      BY <1>2, <2>1
    <2>3. p[2] \in Nat
      BY <2>1, Numbers
    <2> QED
      BY <2>2, <2>3
  <1>4. ASSUME NEW g \in Groups, NEW c \in 1..NS
        PROVE  Cardinality({p \in prelude : p[1] = g /\ disk.S[g][p[2]] = c}) = 1
    <2>1. c \in Iters /\ c # 0
      BY Numbers
    <2>2. disk.S[g][c] = c /\ c # None
      BY <1>1, <2>1, Marks DEF GatherRight
    <2>3. <<g, c>> \in prelude
      BY <2>1, <2>2 DEF prelude
    <2>4. ASSUME NEW p \in prelude, p[1] = g, disk.S[g][p[2]] = c PROVE p = <<g, c>>
      <3>1. p[2] \in Iters /\ disk.S[g][p[2]] # None /\ p = <<p[1], p[2]>>
        BY <2>4 DEF prelude
      <3>2. p[2] = c
        BY <1>2, <2>1, <2>4, <3>1
      <3> QED
        BY <2>4, <3>1, <3>2
    <2>5. {p \in prelude : p[1] = g /\ disk.S[g][p[2]] = c} = {<<g, c>>}
      BY <2>2, <2>3, <2>4
    <2> QED
      BY <2>5, FS_Singleton
  <1>5. disk' = [disk EXCEPT !.K = Right, !.W = Right] /\ Run("cleanup", 0)
    BY <1>3, <1>4 DEF Gather
  <1>6. /\ disk'.F = disk.F /\ disk'.X = disk.X /\ disk'.C = disk.C /\ disk'.Fs = disk.Fs
        /\ disk'.S = disk.S /\ disk'.K = Right
    BY <1>1, <1>5 DEF Disks
  <1>7. prog' = "cleanup"
    BY <1>5 DEF Run
  <1> QED
    BY <1>1, <1>6, <1>7 DEF RunRight, GatherRight, Solvable, NoSums

LEMMA CleanupStepRight ==
    ASSUME DiskInv, RunRight, Cleanup
    PROVE  RunRight' /\ EndRight'
  <1>1. disk \in Disks /\ GatherRight /\ disk.K = Right
    BY DEF Cleanup, RunRight, DiskInv, FilesSound
  <1>2. disk'.W = Right /\ disk'.S = disk.S
    BY <1>1 DEF Cleanup, Disks
  <1>3. prog' = "idle" /\ exit' = "ok"
    BY DEF Cleanup, Stop
  <1> QED
    BY <1>1, <1>2, <1>3 DEF RunRight, EndRight, GatherRight, NoSums

-----------------------------------------------------------------------------
(* krylov.                                                                 *)

\* What keep_rolling_checkpoints removes: never the file just written, and V.0
\* only when the parameters say so.
LEMMA Discarded ==
    ASSUME DiskInv, NEW g \in Groups, at[g] = "roll", par.keep # 0,
           keep_rolling_checkpoints(g, s[g] + 1) # {}
    PROVE  /\ Min(keep_rolling_checkpoints(g, s[g] + 1)) \in Iters
           /\ Min(keep_rolling_checkpoints(g, s[g] + 1)) = 0 => GoesAway
           /\ disk.V[g][s[g] + 1] # None => Min(keep_rolling_checkpoints(g, s[g] + 1)) # s[g] + 1
  <1> DEFINE v == s[g] + 1
             vs == {k \in 0..v : disk.V[g][k] # None}
             old == {k \in vs : Cardinality({l \in vs : l > k}) >= par.keep}
  <1>1. v \in Iters /\ v \in Nat
    BY NextNumber, InLoop DEF AfterChunk
  <1>2. par.keep \in Nat /\ par.precious \in Nat
    BY BWAssumption DEF DiskInv, CountsSound
  <1>3. PICK m : m = Min(keep_rolling_checkpoints(g, v))
    OBVIOUS
  <1>4. keep_rolling_checkpoints(g, v) = {k \in old : ~(par.precious # 0 /\ (k % par.precious) = 0)}
    BY DEF keep_rolling_checkpoints
  <1>5. keep_rolling_checkpoints(g, v) \in SUBSET Nat
    <2>1. vs \subseteq Nat
      BY <1>1
    <2>2. old \subseteq vs
      OBVIOUS
    <2> HIDE DEF vs, old
    <2> QED
      BY <1>4, <2>1, <2>2
  <1>6. m \in old /\ ~(par.precious # 0 /\ (m % par.precious) = 0)
    BY <1>3, <1>4, <1>5, LeastNat
  <1>7. m \in Iters
    BY <1>1, <1>6, BWAssumption DEF Iters
  <1>8. ASSUME m = 0 PROVE GoesAway
    <2>1. ASSUME par.precious # 0 PROVE FALSE
      <3>1. (0 % par.precious) = 0
        BY <1>2, <2>1
      <3> QED
        BY <1>6, <1>8, <2>1, <3>1
    <2> QED
      BY <2>1 DEF GoesAway
  <1>9. ASSUME disk.V[g][v] # None, m = v PROVE FALSE
    <2>1. {l \in vs : l > v} = {}
      BY <1>1
    <2>2. Cardinality({l \in vs : l > m}) = 0
      BY <1>9, <2>1, FS_EmptySet
    <2>3. Cardinality({l \in vs : l > m}) >= par.keep
      BY <1>6
    <2> HIDE DEF vs
    <2> QED
      BY <1>2, <2>2, <2>3
  <1> HIDE DEF v
  <1>10. /\ Min(keep_rolling_checkpoints(g, v)) \in Iters
         /\ Min(keep_rolling_checkpoints(g, v)) = 0 => GoesAway
         /\ disk.V[g][v] # None => Min(keep_rolling_checkpoints(g, v)) # v
    BY <1>3, <1>7, <1>8, <1>9
  <1> QED
    BY <1>10 DEF v

\* What holds of a group of krylov does not depend on the others.
LEMMA OtherGroup ==
    ASSUME DiskInv, NEW g \in Groups, NEW h \in Groups \ {g}, NEW pc, Step(g, pc), KrylovGroup(h),
           s'[h] = s[h], vec'[h] = vec[h], disk'.V[h] = disk.V[h], faults' = 0 => faults = 0
    PROVE  KrylovGroup(h)' /\ DataDone(h)' = DataDone(h)
  <1>1. at'[h] = at[h] /\ start' = start
    BY DEF Step, DiskInv, MemorySound
  <1> QED
    BY <1>1 DEF KrylovGroup, SavedAt, DataDone

\* A step of krylov that leaves the A files alone.
LEMMA KrylovMoves ==
    ASSUME DiskInv, KrylovRight, prog = "krylov", NEW g \in Groups, NEW pc, Step(g, pc),
           \A h \in Groups \ {g} : s'[h] = s[h] /\ vec'[h] = vec[h] /\ disk'.V[h] = disk.V[h],
           disk'.X = disk.X, disk'.C = disk.C, disk'.Fs = disk.Fs, disk'.A = disk.A,
           FirstRight', faults' = 0 => faults = 0, KrylovGroup(g)', DataDone(g)' = DataDone(g), pc # "V"
    PROVE  RunRight' /\ prog' # "idle"
  <1>1. /\ prog' = "krylov" /\ start' = start /\ at'[g] # "V"
        /\ \A h \in Groups \ {g} : at'[h] = at[h] /\ s'[h] = s[h]
    BY DEF Step, DiskInv, MemorySound
  <1>2. \A h \in Groups : KrylovGroup(h)
    BY DEF KrylovRight
  <1>3. \A h \in Groups : KrylovGroup(h)' /\ DataDone(h)' = DataDone(h)
    BY <1>2, OtherGroup
  <1>4. ASSUME NEW h \in Groups, DataRight(h) PROVE DataRight(h)'
    <2>1. at'[h] = "V" => \E f \in disk'.A : f.n1 = h /\ f.j0 = s'[h] /\ f.j1 = s'[h] + 1
      BY <1>1, <1>4 DEF DataRight
    <2>2. at'[h] = "V" => at[h] = "V"
      BY <1>1
    <2> QED
      BY <1>3, <1>4, <2>1, <2>2 DEF DataRight, Sound
  <1>5. KrylovRight'
    BY <1>1, <1>3, <1>4 DEF KrylovRight, NoFs
  <1> QED
    BY <1>1, <1>5 DEF RunRight

LEMMA LoadRight ==
    ASSUME DiskInv, RunRight, NEW g \in Groups, Load(g)
    PROVE  RunRight' /\ prog' # "idle"
  <1>1. prog = "krylov" /\ at[g] = "load" /\ KrylovRight /\ KrylovGroup(g)
    BY DEF Load, RunRight, KrylovRight
  <1>2. s[g] = start /\ start \in Iters /\ disk.V[g][start] = start
    BY <1>1, InLoop DEF GroupSound, KrylovGroup
  <1>3. disk.X # None /\ pi_load_file(disk.C) /\ pi_load_file(disk.V[g][start])
    BY <1>1, <1>2, Marks DEF KrylovRight, pi_load_file, Right, None
  <1> DEFINE pc == IF start >= NK THEN "end" ELSE "chunk"
  <1>4. /\ vec' = [vec EXCEPT ![g] = disk.V[g][start]] /\ Step(g, pc)
        /\ UNCHANGED <<s, disk, faults>>
    BY <1>3 DEF Load
  <1>5. at'[g] = pc /\ vec'[g] = start /\ start' = start /\ par' = par
    BY <1>1, <1>2, <1>4, InLoop DEF Step, Unit, DiskInv, MemorySound
  <1>6. \A h \in Groups \ {g} : vec'[h] = vec[h]
    BY <1>4, InLoop
  <1>7. KrylovGroup(g)'
    <2>1. at'[g] \in {"end", "chunk"} /\ (at'[g] = "end" => start >= NK)
      BY <1>5
    <2>2. s'[g] = s[g] /\ disk' = disk
      BY <1>4
    <2> QED
      BY <1>1, <1>2, <1>5, <2>1, <2>2, Marks DEF KrylovGroup, SavedAt
  <1>8. DataDone(g)' = DataDone(g)
    BY <1>1, <1>4, <1>5 DEF DataDone
  <1>9. FirstRight'
    BY <1>1, <1>4, <1>5 DEF KrylovRight, FirstRight, GoesAway
  <1> QED
    BY <1>1, <1>4, <1>6, <1>7, <1>8, <1>9, KrylovMoves

\* A wrong product ends the program, a right one makes the next vector.
LEMMA CheckedRight ==
    ASSUME Usual, DiskInv, NEW g \in Groups, NEW next, at[g] = "chunk", Checked(g, next), vec[g] # Cut
    PROVE  \/ prog' = "idle" /\ exit' = "failed" /\ faults' > 0
           \/ /\ vec' = [vec EXCEPT ![g] = s[g] + 1] /\ vec'[g] = s[g] + 1 /\ s[g] + 1 # Cut
              /\ Step(g, next) /\ UNCHANGED <<s, disk, faults>>
  <1>1. PICK wrong \in BOOLEAN :
          /\ faults' = faults + (IF wrong THEN 1 ELSE 0)
          /\ IF wrong /\ ~skip_online_checks
             THEN Stop("failed") /\ UNCHANGED disk /\ Unit
             ELSE /\ vec' = [vec EXCEPT ![g] = IF wrong THEN Bad ELSE times(@)]
                  /\ Step(g, next) /\ UNCHANGED <<s, disk>>
    BY DEF Checked
  <1>2. faults \in Nat
    BY InLoop, Numbers
  <1>3. CASE wrong
    BY <1>1, <1>2, <1>3 DEF Usual, Stop
  <1>4. CASE ~wrong
    <2>1. vec[g] = s[g] /\ s[g] \in Nat
      BY InLoop DEF GroupSound, BeforeChunk, Unseen, Usual
    <2>2. times(vec[g]) = s[g] + 1 /\ s[g] + 1 # Cut
      BY <2>1 DEF times, Cut
    <2>3. faults' = faults
      BY <1>1, <1>2, <1>4
    <2> QED
      BY <1>1, <1>4, <2>2, <2>3, InLoop
  <1> QED
    BY <1>3, <1>4

LEMMA ChunkRight ==
    ASSUME Usual, DiskInv, RunRight, NEW g \in Groups, Chunk(g)
    PROVE  RunRight' /\ (prog' = "idle" => EndRight')
  <1>1. prog = "krylov" /\ at[g] = "chunk" /\ KrylovRight /\ KrylovGroup(g) /\ Checked(g, "A")
    BY DEF Chunk, RunRight, KrylovRight
  <1>2. vec[g] # Cut
    BY <1>1 DEF KrylovGroup
  <1>3. CASE prog' = "idle" /\ exit' = "failed" /\ faults' > 0
    BY <1>3 DEF RunRight, EndRight
  <1>4. CASE /\ vec' = [vec EXCEPT ![g] = s[g] + 1] /\ vec'[g] = s[g] + 1 /\ s[g] + 1 # Cut
             /\ Step(g, "A") /\ UNCHANGED <<s, disk, faults>>
    <2>1. at'[g] = "A" /\ start' = start /\ par' = par
      BY <1>4 DEF Step, Unit, DiskInv, MemorySound
    <2>2. \A h \in Groups \ {g} : vec'[h] = vec[h]
      BY <1>4, InLoop
    <2>3. KrylovGroup(g)'
      BY <1>1, <1>4, <2>1 DEF KrylovGroup, SavedAt
    <2>4. DataDone(g)' = DataDone(g)
      BY <1>1, <1>4, <2>1 DEF DataDone
    <2>5. FirstRight'
      BY <1>1, <1>4, <2>1 DEF KrylovRight, FirstRight, GoesAway
    <2> QED
      BY <1>1, <1>4, <2>2, <2>3, <2>4, <2>5, KrylovMoves
  <1> QED
    BY <1>1, <1>2, <1>3, <1>4, CheckedRight

\* The vector of the next interval is put on disk.
LEMMA OpenVRight ==
    ASSUME Usual, DiskInv, RunRight, prog = "krylov", NEW g \in Groups, OpenV(g)
    PROVE  RunRight' /\ prog' # "idle"
  <1>1. at[g] = "V" /\ KrylovRight /\ KrylovGroup(g) /\ UNCHANGED <<s, vec>>
    BY DEF OpenV, RunRight, KrylovRight
  <1>2. disk \in Disks /\ disk.V \in [Groups -> [Iters -> Contents]] /\ faults \in Nat /\ s[g] \in Nat
    BY InLoop, Numbers DEF Disks
  <1>3. s[g] + 1 \in Iters /\ s[g] + 1 # 0
    BY <1>1, <1>2, NextNumber DEF AfterChunk
  <1>4. CASE faults' = faults + 1 /\ Step(g, "roll") /\ UNCHANGED disk
    <2>1. at'[g] = "roll" /\ start' = start /\ par' = par /\ faults' # 0
      BY <1>2, <1>4 DEF Step, Unit, DiskInv, MemorySound
    <2>2. KrylovGroup(g)'
      BY <1>1, <1>4, <2>1 DEF KrylovGroup
    <2>3. DataDone(g)' = DataDone(g)
      BY <1>1, <2>1 DEF DataDone
    <2>4. FirstRight'
      BY <1>1, <1>4, <2>1 DEF KrylovRight, FirstRight, GoesAway
    <2> QED
      BY <1>1, <1>4, <2>1, <2>2, <2>3, <2>4, KrylovMoves
  <1>5. CASE /\ disk' = [disk EXCEPT !.V[g][s[g] + 1] = pi_save_file_begin(@, vec[g])]
             /\ Step(g, "V2") /\ UNCHANGED faults
    <2>1. PICK x : disk' = [disk EXCEPT !.V[g][s[g] + 1] = x]
      BY <1>5
    <2>2. /\ disk'.X = disk.X /\ disk'.C = disk.C /\ disk'.A = disk.A /\ disk'.Fs = disk.Fs
          /\ disk'.V = [disk.V EXCEPT ![g][s[g] + 1] = x]
      BY <1>2, <2>1 DEF Disks
    <2>3. /\ \A h \in Groups \ {g} : disk'.V[h] = disk.V[h]
          /\ \A k \in Iters : k # s[g] + 1 => disk'.V[g][k] = disk.V[g][k]
      BY <1>2, <1>3, <2>2
    <2>4. at'[g] = "V2" /\ start' = start /\ par' = par
      BY <1>5 DEF Step, Unit, DiskInv, MemorySound
    <2>5. KrylovGroup(g)'
      <3>1. \A k \in Iters : disk'.V[g][k] # None => k <= s[g] \/ k = s[g] + 1
        BY <1>1, <2>3 DEF KrylovGroup
      <3>2. \A k \in Iters : k >= start /\ disk'.V[g][k] = Cut => k = s[g] + 1
        BY <1>1, <2>3 DEF KrylovGroup
      <3>3. s[g] # s[g] + 1 /\ s[g] \in Iters
        BY <1>2, InLoop
      <3>4. faults = 0 => disk'.V[g][s[g]] # None
        BY <1>1, <2>3, <3>3 DEF KrylovGroup, SavedAt
      <3> QED
        BY <1>1, <1>5, <2>4, <3>1, <3>2, <3>4 DEF KrylovGroup, SavedAt
    <2>6. DataDone(g)' = DataDone(g)
      BY <1>1, <2>4 DEF DataDone
    <2>7. FirstRight'
      BY <1>1, <1>3, <2>3, <2>4, Numbers DEF KrylovRight, FirstRight, GoesAway
    <2> QED
      BY <1>1, <1>5, <2>2, <2>3, <2>5, <2>6, <2>7, KrylovMoves
  <1> QED
    BY <1>4, <1>5 DEF OpenV

LEMMA CloseVRight ==
    ASSUME Usual, DiskInv, RunRight, prog = "krylov", NEW g \in Groups, CloseV(g)
    PROVE  RunRight' /\ prog' # "idle"
  <1>1. /\ at[g] = "V2" /\ KrylovRight /\ KrylovGroup(g) /\ UNCHANGED <<s, vec, faults>>
        /\ disk' = [disk EXCEPT !.V[g][s[g] + 1] = vec[g]] /\ Step(g, "roll")
    BY DEF CloseV, RunRight, KrylovRight
  <1>2. disk \in Disks /\ disk.V \in [Groups -> [Iters -> Contents]] /\ s[g] \in Nat
    BY InLoop DEF Disks
  <1>3. s[g] + 1 \in Iters /\ s[g] + 1 # 0
    BY <1>1, <1>2, NextNumber DEF AfterChunk
  <1>4. vec[g] = s[g] + 1 /\ vec[g] # None /\ vec[g] # Cut
    BY <1>1, <1>3, InLoop, Marks DEF GroupSound, AfterChunk, Unseen, Usual, KrylovGroup
  <1>5. /\ disk'.X = disk.X /\ disk'.C = disk.C /\ disk'.A = disk.A /\ disk'.Fs = disk.Fs
        /\ disk'.V = [disk.V EXCEPT ![g][s[g] + 1] = vec[g]]
    BY <1>1, <1>2 DEF Disks
  <1>6. /\ \A h \in Groups \ {g} : disk'.V[h] = disk.V[h]
        /\ \A k \in Iters : k # s[g] + 1 => disk'.V[g][k] = disk.V[g][k]
        /\ disk'.V[g][s[g] + 1] = vec[g]
    BY <1>2, <1>3, <1>5
  <1>7. at'[g] = "roll" /\ start' = start /\ par' = par
    BY <1>1 DEF Step, Unit, DiskInv, MemorySound
  <1>8. KrylovGroup(g)'
    <2>1. \A k \in Iters : disk'.V[g][k] # None => k <= s[g] \/ k = s[g] + 1
      BY <1>1, <1>6 DEF KrylovGroup
    <2>2. \A k \in Iters : k >= start /\ disk'.V[g][k] = Cut => FALSE
      BY <1>1, <1>4, <1>6 DEF KrylovGroup
    <2> QED
      BY <1>1, <1>4, <1>6, <1>7, <2>1, <2>2 DEF KrylovGroup, SavedAt
  <1>9. DataDone(g)' = DataDone(g)
    BY <1>1, <1>7 DEF DataDone
  <1>10. FirstRight'
    BY <1>1, <1>3, <1>6, <1>7, Numbers DEF KrylovRight, FirstRight, GoesAway
  <1> QED
    BY <1>1, <1>5, <1>6, <1>8, <1>9, <1>10, KrylovMoves

LEMMA DiscardRight ==
    ASSUME Usual, DiskInv, RunRight, prog = "krylov", NEW g \in Groups, Discard(g)
    PROVE  RunRight' /\ prog' # "idle"
  <1> DEFINE gone == keep_rolling_checkpoints(g, s[g] + 1)
             next == IF s[g] + 1 >= NK THEN "end" ELSE "chunk"
  <1>1. /\ at[g] = "roll" /\ KrylovRight /\ KrylovGroup(g) /\ UNCHANGED <<vec, faults>>
        /\ \/ /\ par.keep # 0 /\ gone # {}
              /\ disk' = [disk EXCEPT !.V[g][Min(gone)] = None]
              /\ Step(g, "roll") /\ s' = s
           \/ /\ s' = [s EXCEPT ![g] = @ + 1] /\ Step(g, next) /\ disk' = disk
    BY DEF Discard, RunRight, KrylovRight
  <1>2. disk \in Disks /\ disk.V \in [Groups -> [Iters -> Contents]] /\ s[g] \in Nat
    BY InLoop DEF Disks
  <1>3. s[g] + 1 \in Iters /\ start \in Nat /\ NK \in Nat
    BY <1>1, <1>2, NextNumber, InLoop, Numbers DEF AfterChunk
  <1>4. CASE /\ par.keep # 0 /\ gone # {}
             /\ disk' = [disk EXCEPT !.V[g][Min(gone)] = None]
             /\ Step(g, "roll") /\ s' = s
    <2>1. PICK m : m = Min(gone)
      OBVIOUS
    <2>2. m \in Iters /\ (m = 0 => GoesAway) /\ (disk.V[g][s[g] + 1] # None => m # s[g] + 1)
      BY <1>1, <1>4, <2>1, Discarded
    <2> HIDE DEF gone
    <2>3. disk' = [disk EXCEPT !.V[g][m] = None]
      BY <1>4, <2>1
    <2>4. /\ disk'.X = disk.X /\ disk'.C = disk.C /\ disk'.A = disk.A /\ disk'.Fs = disk.Fs
          /\ disk'.V = [disk.V EXCEPT ![g][m] = None]
      BY <1>2, <2>3 DEF Disks
    <2>5. /\ \A h \in Groups \ {g} : disk'.V[h] = disk.V[h]
          /\ \A k \in Iters : disk'.V[g][k] = IF k = m THEN None ELSE disk.V[g][k]
      BY <1>2, <2>2, <2>4
    <2>6. at'[g] = "roll" /\ start' = start /\ par' = par
      BY <1>4 DEF Step, Unit, DiskInv, MemorySound
    <2>7. KrylovGroup(g)'
      <3>1. \A k \in Iters : disk'.V[g][k] # None => k <= s[g] \/ k = s[g] + 1
        BY <1>1, <2>5 DEF KrylovGroup
      <3>2. \A k \in Iters : k >= start /\ disk'.V[g][k] = Cut => FALSE
        BY <1>1, <2>5, Marks DEF KrylovGroup
      <3>3. faults = 0 => disk'.V[g][s[g] + 1] # None
        BY <1>1, <1>3, <2>2, <2>5 DEF KrylovGroup, SavedAt
      <3> QED
        BY <1>1, <1>4, <2>6, <3>1, <3>2, <3>3 DEF KrylovGroup, SavedAt
    <2>8. DataDone(g)' = DataDone(g)
      BY <1>1, <1>4, <2>6 DEF DataDone
    <2>9. FirstRight'
      <3>1. \A h \in Groups : disk'.V[h][0] = IF h = g /\ m = 0 THEN None ELSE disk.V[h][0]
        BY <2>5, Numbers
      <3> QED
        BY <1>1, <2>2, <2>6, <3>1 DEF KrylovRight, FirstRight, GoesAway
    <2> QED
      BY <1>1, <1>4, <2>4, <2>5, <2>7, <2>8, <2>9, KrylovMoves
  <1>5. CASE s' = [s EXCEPT ![g] = @ + 1] /\ Step(g, next) /\ disk' = disk
    <2>1. at'[g] = next /\ start' = start /\ par' = par
      BY <1>5 DEF Step, Unit, DiskInv, MemorySound
    <2>2. s'[g] = s[g] + 1 /\ \A h \in Groups \ {g} : s'[h] = s[h]
      BY <1>5, InLoop
    <2>3. KrylovGroup(g)'
      <3>1. at'[g] \in {"chunk", "end"} /\ (at'[g] = "end" => s[g] + 1 >= NK)
        BY <2>1
      <3>2. s[g] + 1 >= start
        BY <1>1, <1>2, <1>3 DEF KrylovGroup
      <3>3. \A k \in Iters : disk.V[g][k] # None => k <= s[g] + 1
        BY <1>1, <1>2, Numbers DEF KrylovGroup
      <3>4. \A k \in Iters : k >= start /\ disk.V[g][k] = Cut => FALSE
        BY <1>1 DEF KrylovGroup
      <3> QED
        BY <1>1, <1>5, <2>1, <2>2, <3>1, <3>2, <3>3, <3>4 DEF KrylovGroup, SavedAt
    <2>4. DataDone(g)' = DataDone(g)
      BY <1>1, <2>1, <2>2 DEF DataDone
    <2>5. FirstRight'
      BY <1>1, <1>5, <2>1 DEF KrylovRight, FirstRight, GoesAway
    <2> QED
      BY <1>1, <1>5, <2>2, <2>3, <2>4, <2>5, KrylovMoves
  <1> QED
    BY <1>1, <1>4, <1>5

\* The numbers in an A file, and the block it belongs to.
LEMMA FileNumbers ==
    ASSUME NEW f \in AFiles
    PROVE  /\ f.n0 \in Nat /\ f.n1 \in Nat /\ f.j0 \in Nat /\ f.j1 \in Nat
           /\ f.j1 <= NK /\ f.n1 <= Max(Groups) /\ f.full \in BOOLEAN /\ f.ok \in BOOLEAN
           /\ f = [n0 |-> f.n0, n1 |-> f.n1, j0 |-> f.j0, j1 |-> f.j1, full |-> f.full, ok |-> f.ok]
  BY GroupNumbers, Numbers DEF AFiles

\* The blocks are numbered from 1 on.
LEMMA BlockNumbers ==
    /\ Cardinality(Groups) \in Nat /\ Cardinality(Groups) > 0
    /\ Max(Groups) = Cardinality(Groups)
    /\ \A g : g \in Groups <=> g \in Nat /\ 1 <= g /\ g <= Cardinality(Groups)
  <1> DEFINE n == Cardinality(Groups)
  <1>1. n \in Nat \ {0} /\ Groups = 1..n
    BY BWAssumption
  <1> HIDE DEF n
  <1>2. Groups \in SUBSET (0..n) /\ Groups # {} /\ n \in Nat /\ n \in Groups
    BY <1>1
  <1>3. Max(Groups) \in Groups /\ \A g \in Groups : g <= Max(Groups)
    BY <1>2, GreatestNat
  <1>4. Max(Groups) = n
    BY <1>1, <1>2, <1>3
  <1> QED
    BY <1>1, <1>4 DEF n

\* A group writes the A file of its interval: the others' files stay, and no two
\* files of the group have data in common.
LEMMA WriteARight ==
    ASSUME DiskInv, RunRight, prog = "krylov", NEW g \in Groups, at[g] \in {"A", "A2"},
           NEW full \in BOOLEAN, NEW ok \in BOOLEAN, NEW pc, WriteA(g, full, ok), Step(g, pc),
           UNCHANGED <<s, vec>>, faults' = 0 => faults = 0,
           pc = "A2" \/ (pc = "V" /\ ok /\ (faults' = 0 => full))
    PROVE  RunRight' /\ prog' # "idle"
  <1> DEFINE new == AFile(g, full, ok)
             Same(f) == f.n0 = g - 1 /\ f.n1 = g /\ f.j0 = s[g] /\ f.j1 = s[g] + 1
  <1>1. KrylovRight /\ KrylovGroup(g) /\ disk \in Disks /\ disk.A \in SUBSET AFiles
    BY InLoop, MemoryTyped DEF RunRight, KrylovRight
  <1>2. s[g] \in Nat /\ s[g] < NK /\ start \in Nat /\ start <= s[g] /\ NK \in Nat /\ g \in Nat
    BY <1>1, InLoop, Numbers, GroupNumbers DEF GroupSound, AfterChunk, KrylovGroup
  <1>3. Tiles(disk.A) /\ \A h \in Groups : DataRight(h)
    BY <1>1, <1>2 DEF KrylovRight
  <1>4. /\ disk'.X = disk.X /\ disk'.C = disk.C /\ disk'.Fs = disk.Fs /\ disk'.V = disk.V
        /\ disk'.A = {f \in disk.A : ~Same(f)} \cup {new}
    BY <1>1 DEF WriteA, Disks
  <1>5. /\ new.n0 = g - 1 /\ new.n1 = g /\ new.j0 = s[g] /\ new.j1 = s[g] + 1
        /\ new.full = full /\ new.ok = ok
    BY DEF AFile
  <1> HIDE DEF new
  <1>6. /\ prog' = "krylov" /\ start' = start /\ par' = par /\ at'[g] = pc
        /\ \A h \in Groups \ {g} : at'[h] = at[h]
    BY DEF Step, Unit, DiskInv, MemorySound
  <1>7. DataDone(g) = s[g] /\ DataDone(g)' = IF pc = "V" THEN s[g] + 1 ELSE s[g]
    BY <1>6 DEF DataDone
  <1>8. \A h \in Groups \ {g} : DataDone(h)' = DataDone(h)
    BY <1>6 DEF DataDone
  <1>9. \A f \in disk.A : f.n1 = f.n0 + 1 /\ f.j0 < f.j1
    BY <1>3 DEF Tiles
  <1>10. ASSUME NEW f \in disk.A, f.n1 = g, ~Same(f)
         PROVE  f.j1 <= s[g] /\ Sound(f)
    <2>1. f.n0 \in Nat /\ f.n0 = g - 1
      BY <1>1, <1>2, <1>9, <1>10, FileNumbers
    <2>2. IF f.j1 <= s[g] THEN Sound(f) ELSE f.j0 = s[g] /\ f.j1 = f.j0 + 1
      BY <1>3, <1>7, <1>10 DEF DataRight
    <2> QED
      BY <1>10, <2>1, <2>2
  <1>11. Tiles(disk'.A)
    <2>1. \A f \in disk'.A : f.n1 = f.n0 + 1 /\ f.j0 < f.j1
      BY <1>2, <1>4, <1>5, <1>9
    <2>2. ASSUME NEW f \in disk'.A, NEW h \in disk'.A, f.n1 = h.n1, f # h
          PROVE  f.j1 <= h.j0 \/ h.j1 <= f.j0
      <3>1. CASE f = new
        BY <1>4, <1>5, <1>10, <2>2, <3>1
      <3>2. CASE h = new
        BY <1>4, <1>5, <1>10, <2>2, <3>2
      <3>3. CASE f \in disk.A /\ h \in disk.A
        BY <1>3, <2>2, <3>3 DEF Tiles
      <3> QED
        BY <1>4, <3>1, <3>2, <3>3
    <2> QED
      BY <2>1, <2>2 DEF Tiles
  <1>12. DataRight(g)'
    <2>1. ASSUME NEW f \in disk'.A, f.n1 = g
          PROVE  IF f.j1 <= DataDone(g)' THEN Sound(f)'
                 ELSE f.j0 = DataDone(g)' /\ f.j1 = f.j0 + 1 /\ at'[g] # "V"
      <3>1. CASE f = new
        BY <1>2, <1>5, <1>6, <1>7, <3>1 DEF Sound
      <3>2. CASE f \in disk.A /\ ~Same(f)
        <4>1. f.j1 <= s[g] /\ Sound(f) /\ f.j1 \in Nat
          BY <1>1, <1>10, <2>1, <3>2, FileNumbers
        <4>2. f.j1 <= DataDone(g)'
          BY <1>2, <1>7, <4>1
        <4> QED
          BY <4>1, <4>2 DEF Sound
      <3> QED
        BY <1>4, <3>1, <3>2
    <2>2. ASSUME NEW j \in 1..NK, j <= DataDone(g)'
          PROVE  \E f \in disk'.A : f.n1 = g /\ f.j0 < j /\ j <= f.j1
      <3>1. CASE j <= s[g]
        <4>1. PICK f \in disk.A : f.n1 = g /\ f.j0 < j /\ j <= f.j1
          BY <1>3, <1>7, <3>1 DEF DataRight, Covered
        <4>2. f.j0 \in Nat
          BY <1>1, FileNumbers
        <4>3. ~Same(f)
          BY <1>2, <3>1, <4>1, <4>2
        <4> QED
          BY <1>4, <4>1, <4>3
      <3>2. CASE ~(j <= s[g])
        <4>1. s[g] < j /\ j <= s[g] + 1
          BY <1>2, <1>7, <2>2, <3>2
        <4> QED
          BY <1>4, <1>5, <4>1
      <3> QED
        BY <3>1, <3>2
    <2>3. \E f \in disk'.A : f.n1 = g /\ f.j0 = s'[g] /\ f.j1 = s'[g] + 1
      BY <1>4, <1>5
    <2> QED
      BY <2>1, <2>2, <2>3 DEF DataRight, Covered
  <1>13. ASSUME NEW h \in Groups \ {g} PROVE DataRight(h)'
    <2>1. \A f : f.n1 = h => (f \in disk'.A <=> f \in disk.A)
      BY <1>4, <1>5
    <2>2. DataRight(h) /\ DataDone(h)' = DataDone(h) /\ at'[h] = at[h] /\ s'[h] = s[h]
      BY <1>3, <1>6, <1>8
    <2> QED
      BY <2>1, <2>2 DEF DataRight, Covered, Sound
  <1>14. KrylovGroup(g)'
    <2>1. at[g] \in {"A", "A2"} /\ pc \in {"A2", "V"}
      OBVIOUS
    <2> QED
      BY <1>1, <1>4, <1>6, <2>1 DEF KrylovGroup, SavedAt
  <1>15. \A h \in Groups : KrylovGroup(h)'
    BY <1>1, <1>4, <1>14, OtherGroup DEF KrylovRight
  <1>16. FirstRight' /\ NoFs'
    BY <1>1, <1>4, <1>6 DEF KrylovRight, FirstRight, GoesAway, NoFs
  <1>17. KrylovRight'
    BY <1>1, <1>4, <1>11, <1>12, <1>13, <1>15, <1>16 DEF KrylovRight
  <1> QED
    BY <1>6, <1>17 DEF RunRight

LEMMA DataStepRight ==
    ASSUME Usual, DiskInv, RunRight, NEW g \in Groups, OpenA(g) \/ CloseA(g)
    PROVE  RunRight' /\ prog' # "idle"
  <1>1. CASE OpenA(g)
    BY <1>1, WriteARight DEF OpenA
  <1>2. CASE CloseA(g)
    <2>1. PICK short \in BOOLEAN :
            /\ faults' = faults + (IF short THEN 1 ELSE 0)
            /\ WriteA(g, ~short, vec[g] = s[g] + 1)
      BY <1>2 DEF CloseA
    <2>2. /\ prog = "krylov" /\ at[g] = "A2" /\ Step(g, "V") /\ UNCHANGED <<s, vec>>
      BY <1>2 DEF CloseA
    <2>3. vec[g] = s[g] + 1
      <3>1. KrylovGroup(g)
        BY <2>2 DEF RunRight, KrylovRight
      <3> QED
        BY <2>2, <3>1, InLoop DEF GroupSound, AfterChunk, Unseen, Usual, KrylovGroup
    <2>4. faults \in Nat
      BY InLoop, Numbers
    <2>5. (faults' = 0 => faults = 0) /\ (faults' = 0 => ~short)
      BY <2>1, <2>4
    <2>6. PICK full \in BOOLEAN, ok \in BOOLEAN :
            WriteA(g, full, ok) /\ ok /\ (faults' = 0 => full)
      <3>1. (~short) \in BOOLEAN /\ (vec[g] = s[g] + 1) \in BOOLEAN
        OBVIOUS
      <3> QED
        BY <2>1, <2>3, <2>5, <3>1
    <2> QED
      BY <2>2, <2>5, <2>6, WriteARight
  <1> QED
    BY <1>1, <1>2

\* krylov ends: every group has reached the end of the sequence.
LEMMA KrylovEnds ==
    ASSUME Usual, DiskInv, RunRight, LoopEnd, prog = "krylov"
    PROVE  RunRight' /\ prog' # "idle"
  <1>1. /\ KrylovRight /\ disk.A \in SUBSET AFiles /\ NK \in Nat
        /\ \A g \in Groups : at[g] = "end" /\ KrylovGroup(g)
    BY MemoryTyped, Numbers DEF LoopEnd, RunRight, KrylovRight
  <1>2. prog' = "acollect" /\ ac' = Idle /\ disk' = disk /\ faults' = faults /\ par' = par
    BY DEF LoopEnd, Run, Unit
  <1>3. \A g \in Groups : s[g] \in Nat /\ s[g] >= NK /\ DataDone(g) = s[g]
    BY <1>1, InLoop DEF KrylovGroup, DataDone
  <1>4. Iterated'
    <2>1. ASSUME NEW g \in Groups, faults = 0
          PROVE  /\ s[g] \in Iters /\ s[g] >= NK /\ disk.V[g][s[g]] = s[g]
                 /\ \A l \in Iters : disk.V[g][l] # None => l <= s[g]
      <3>1. s[g] \in Iters /\ KrylovGroup(g) /\ at[g] = "end"
        BY <1>1, InLoop
      <3>2. disk.V[g][s[g]] # None
        BY <2>1, <3>1 DEF KrylovGroup, SavedAt
      <3>3. disk.V[g][s[g]] # Cut
        BY <3>1 DEF KrylovGroup
      <3>4. disk.V[g][s[g]] \in {None, Cut, s[g]}
        BY <3>1 DEF DiskInv, FilesSound, Unseen, Usual
      <3> QED
        BY <1>3, <3>1, <3>2, <3>3, <3>4 DEF KrylovGroup
    <2> QED
      BY <1>1, <1>2, <2>1 DEF Iterated, KrylovRight, FirstRight, GoesAway
  <1>5. NoFs'
    BY <1>1, <1>2 DEF KrylovRight, NoFs
  <1>6. CASE disk.A = {Whole}
    BY <1>2, <1>4, <1>5, <1>6 DEF RunRight, AcollectRight
  <1>7. CASE Tiles(disk.A) /\ \A g \in Groups : DataRight(g)
    <2>1. Pieces' = disk.A /\ ac'.ph = "" /\ ac'.done = {} /\ ac'.rc = 0 /\ ac'.temp = {}
      BY <1>2 DEF Pieces, Idle
    <2>2. ASSUME NEW f \in disk.A PROVE Sound(f)
      <3>1. f.n1 = f.n0 + 1
        BY <1>7 DEF Tiles
      <3>2. f.n1 \in Groups
        BY <1>1, <3>1, FileNumbers, BlockNumbers
      <3>3. ~(f.j0 = s[f.n1] /\ f.j1 = f.j0 + 1)
        BY <1>1, <1>3, <3>2, FileNumbers
      <3> QED
        BY <1>3, <1>7, <3>2, <3>3 DEF DataRight
    <2>3. ASSUME NEW g \in Groups PROVE Covered(disk.A, g, NK)
      <3>1. Covered(disk.A, g, s[g])
        BY <1>3, <1>7 DEF DataRight
      <3> QED
        BY <1>1, <1>3, <3>1 DEF Covered
    <2>4. Collecting'
      <3>1. Tiles(Pieces') /\ \A g \in Groups : Covered(Pieces', g, NK)
        BY <1>7, <2>1, <2>3
      <3>2. \A f \in Pieces' : Sound(f)' /\ f.n0 \notin ac'.done
        BY <1>2, <2>1, <2>2 DEF Sound
      <3>3. /\ ac'.ph # "cat" /\ ac'.ph # "across"
        BY <2>1
      <3>4. /\ ac'.ph \in {"", "cat", "across"} /\ ac'.rc \in {0, 2}
        BY <2>1
      <3>5. ac'.rc # 2
        <4>1. 0 # 2
          OBVIOUS
        <4> QED
          BY <2>1, <4>1, Zenon
      <3>6. ~(ac'.ph # "" \/ ac'.done # {})
        BY <2>1
      <3> QED
        BY <2>1, <3>1, <3>2, <3>3, <3>4, <3>5, <3>6, Zenon DEF Collecting
    <2> QED
      BY <1>2, <1>4, <1>5, <2>4 DEF RunRight, AcollectRight
  <1> QED
    BY <1>1, <1>6, <1>7 DEF KrylovRight

-----------------------------------------------------------------------------
(* acollect.                                                               *)

\* There are finitely many A files.
LEMMA FilesFinite == IsFiniteSet(AFiles)
  <1> DEFINE N == 0..Max(Groups)
             J == 0..NK
             P == ((N \X N) \X (J \X J)) \X (BOOLEAN \X BOOLEAN)
             F == [f \in AFiles |-> <<<<<<f.n0, f.n1>>, <<f.j0, f.j1>>>>, <<f.full, f.ok>>>>]
  <1>1. IsFiniteSet(N) /\ IsFiniteSet(J)
    <2>1. 0 \in Int /\ Max(Groups) \in Int /\ NK \in Int
      BY GroupNumbers, Numbers
    <2> QED
      BY <2>1, FS_Interval
  <1>2. IsFiniteSet(BOOLEAN)
    <2>1. IsFiniteSet({} \cup {TRUE})
      BY FS_EmptySet, FS_AddElement
    <2>2. IsFiniteSet(({} \cup {TRUE}) \cup {FALSE})
      BY <2>1, FS_AddElement
    <2>3. BOOLEAN = ({} \cup {TRUE}) \cup {FALSE}
      OBVIOUS
    <2> QED
      BY <2>2, <2>3
  <1>3. F \in [AFiles -> P]
    BY DEF AFiles
  <1>4. ASSUME NEW f \in AFiles, NEW h \in AFiles, F[f] = F[h] PROVE f = h
    <2>1. /\ f.n0 = h.n0 /\ f.n1 = h.n1 /\ f.j0 = h.j0 /\ f.j1 = h.j1
          /\ f.full = h.full /\ f.ok = h.ok
      BY <1>4
    <2> QED
      BY <2>1, FileNumbers
  <1> HIDE DEF F
  <1>5. F \in Injection(AFiles, P)
    BY <1>3, <1>4 DEF Injection, IsInjective
  <1> HIDE DEF N, J
  <1>6. IsFiniteSet(N \X N) /\ IsFiniteSet(J \X J) /\ IsFiniteSet(BOOLEAN \X BOOLEAN)
    BY <1>1, <1>2, FS_Product
  <1>7. IsFiniteSet((N \X N) \X (J \X J))
    BY <1>6, FS_Product
  <1>8. IsFiniteSet(P)
    BY <1>6, <1>7, FS_Product
  <1> HIDE DEF P
  <1> QED
    BY <1>5, <1>8, FS_Injection

\* A set of A files with one element or none.
LEMMA OneFile ==
    ASSUME NEW T \in SUBSET AFiles
    PROVE  /\ IsFiniteSet(T) /\ Cardinality(T) \in Nat
           /\ T # {} /\ Cardinality(T) <= 1 => \E f \in AFiles : T = {f}
           /\ Cardinality(T) = 1 => \E f \in AFiles : T = {f}
  <1>1. IsFiniteSet(T)
    BY FilesFinite, FS_Subset
  <1>2. Cardinality(T) \in Nat /\ (Cardinality(T) = 0 <=> T = {}) /\ (Cardinality(T) = 1 <=> \E f : T = {f})
    BY <1>1, FS_CardinalityType, FS_EmptySet, FS_Singleton
  <1> QED
    BY <1>1, <1>2

\* Files that begin at different places have as many beginnings as there are files.
LEMMA ManyBeginnings ==
    ASSUME NEW T \in SUBSET AFiles, NEW lo, \A f, h \in T : f[lo] = h[lo] => f = h
    PROVE  Cardinality({f[lo] : f \in T}) = Cardinality(T)
  <1> DEFINE S == {f[lo] : f \in T}
             F == [f \in T |-> f[lo]]
  <1>1. F \in [T -> S]
    OBVIOUS
  <1>2. \A f, h \in T : F[f] = F[h] => f = h
    OBVIOUS
  <1>3. \A x \in S : \E f \in T : F[f] = x
    OBVIOUS
  <1>4. F \in Bijection(T, S)
    BY <1>1, <1>2, <1>3 DEF Bijection, Injection, Surjection, IsInjective
  <1>5. ExistsBijection(T, S)
    BY <1>4 DEF ExistsBijection
  <1> QED
    BY <1>5, OneFile, FS_Bijection

LEMMA LeastIs ==
    ASSUME NEW T \in SUBSET Nat, NEW a \in T, \A j \in T : a <= j
    PROVE  Min(T) = a
  <1>1. PICK m : m = Min(T)
    OBVIOUS
  <1>2. m \in T /\ m <= a
    BY <1>1, LeastNat
  <1>3. a <= m /\ a \in Nat /\ m \in Nat
    BY <1>2
  <1>4. m = a
    BY <1>2, <1>3
  <1> QED
    BY <1>1, <1>4

LEMMA GreatestIs ==
    ASSUME NEW b \in Nat, NEW T \in SUBSET (0..b), NEW a \in T, \A j \in T : j <= a
    PROVE  Max(T) = a
  <1>1. PICK m : m = Max(T)
    OBVIOUS
  <1>2. m \in T /\ a <= m
    BY <1>1, GreatestNat
  <1>3. m <= a /\ a \in Nat /\ m \in Nat
    BY <1>2
  <1>4. m = a
    BY <1>2, <1>3
  <1> QED
    BY <1>1, <1>4

\* What comes out when right files are glued.
LEMMA Glued ==
    ASSUME NEW T \in SUBSET AFiles, \A f \in T : f.ok,
           NEW lo \in T, \A f \in T : lo.n0 <= f.n0, NEW hi \in T, \A f \in T : f.n1 <= hi.n1,
           NEW fst \in T, \A f \in T : fst.j0 <= f.j0, NEW lst \in T, \A f \in T : f.j1 <= lst.j1
    PROVE  Glue(T, TRUE) = {[n0 |-> lo.n0, n1 |-> hi.n1, j0 |-> fst.j0, j1 |-> lst.j1,
                             full |-> TRUE, ok |-> TRUE]}
  <1>1. /\ {f.n0 : f \in T} \in SUBSET Nat /\ {f.j0 : f \in T} \in SUBSET Nat
        /\ {f.n1 : f \in T} \in SUBSET (0..Max(Groups)) /\ {f.j1 : f \in T} \in SUBSET (0..NK)
    BY FileNumbers DEF AFiles
  <1>2. Max(Groups) \in Nat /\ NK \in Nat
    BY GroupNumbers, Numbers
  <1>3. Min({f.n0 : f \in T}) = lo.n0
    BY <1>1, LeastIs
  <1>4. Min({f.j0 : f \in T}) = fst.j0
    BY <1>1, LeastIs
  <1>5. Max({f.n1 : f \in T}) = hi.n1
    BY <1>1, <1>2, GreatestIs
  <1>6. Max({f.j1 : f \in T}) = lst.j1
    BY <1>1, <1>2, GreatestIs
  <1>7. (\A f \in T : f.ok) = TRUE
    OBVIOUS
  <1> QED
    BY <1>3, <1>4, <1>5, <1>6, <1>7 DEF Glue

\* The files of a block that hold all of its data follow each other.
LEMMA BlockFollows ==
    ASSUME Usual, NEW T \in SUBSET AFiles, Tiles(T), NEW g \in Groups, Covered(T, g, NK)
    PROVE  /\ \E f \in T : f.n1 = g /\ f.j0 = 0
           /\ \E f \in T : f.n1 = g /\ f.j1 = NK
           /\ \A f, h \in T : f.n1 = g /\ h.n1 = g /\ f.j0 = h.j0 => f = h
           /\ \A f \in T : f.n1 = g /\ f.j0 # 0 => \E h \in T : h.n1 = g /\ h.j1 = f.j0
  <1>1. NK \in Nat /\ 1 \in 1..NK /\ NK \in 1..NK
    BY Numbers DEF Usual
  <1>2. \A f \in T : /\ f.j0 \in Nat /\ f.j1 \in Nat /\ f.j1 <= NK /\ f.j0 < f.j1
    BY FileNumbers DEF Tiles
  <1>3. \A j \in 1..NK : \E f \in T : f.n1 = g /\ f.j0 < j /\ j <= f.j1
    BY <1>1 DEF Covered
  <1>4. \E f \in T : f.n1 = g /\ f.j0 = 0
    <2>1. PICK f \in T : f.n1 = g /\ f.j0 < 1
      BY <1>1, <1>3
    <2> QED
      BY <1>2, <2>1
  <1>5. \E f \in T : f.n1 = g /\ f.j1 = NK
    <2>1. PICK f \in T : f.n1 = g /\ NK <= f.j1
      BY <1>1, <1>3
    <2> QED
      BY <1>1, <1>2, <2>1
  <1>6. \A f, h \in T : f.n1 = h.n1 /\ f # h => f.j1 <= h.j0 \/ h.j1 <= f.j0
    BY DEF Tiles
  <1>7. \A f, h \in T : f.n1 = g /\ h.n1 = g /\ f.j0 = h.j0 => f = h
    BY <1>2, <1>6
  <1>8. ASSUME NEW f \in T, f.n1 = g, f.j0 # 0 PROVE \E h \in T : h.n1 = g /\ h.j1 = f.j0
    <2>1. f.j0 \in 1..NK
      BY <1>1, <1>2, <1>8
    <2>2. PICK h \in T : h.n1 = g /\ h.j0 < f.j0 /\ f.j0 <= h.j1
      BY <1>3, <2>1
    <2>3. h # f
      BY <1>2, <2>2
    <2>4. h.j1 <= f.j0
      BY <1>2, <1>6, <1>8, <2>2, <2>3
    <2> QED
      BY <1>2, <2>2, <2>4
  <1> QED
    BY <1>4, <1>5, <1>7, <1>8

\* Whole files of a block.
LEMMA BlockIs ==
    /\ \A g : (Block(g)).n0 = g - 1 /\ (Block(g)).n1 = g /\ (Block(g)).j0 = 0 /\ (Block(g)).j1 = NK
              /\ (Block(g)).full = TRUE /\ (Block(g)).ok = TRUE
    /\ \A g \in Groups : Block(g) \in AFiles
    /\ Whole.n0 = 0 /\ Whole.n1 = Cardinality(Groups) /\ Whole.j0 = 0 /\ Whole.j1 = NK
    /\ Whole.full = TRUE /\ Whole.ok = TRUE
    /\ Cardinality(Groups) = 1 => Whole = Block(1)
  <1>1. \A g : (Block(g)).n0 = g - 1 /\ (Block(g)).n1 = g /\ (Block(g)).j0 = 0 /\ (Block(g)).j1 = NK
              /\ (Block(g)).full = TRUE /\ (Block(g)).ok = TRUE
    BY DEF Block
  <1>2. ASSUME NEW g \in Groups PROVE Block(g) \in AFiles
    <2>1. g - 1 \in 0..Max(Groups) /\ g \in 0..Max(Groups) /\ 0 \in 0..NK /\ NK \in 0..NK
      BY BlockNumbers, Numbers
    <2> QED
      BY <2>1 DEF Block, AFiles
  <1>3. /\ Whole.n0 = 0 /\ Whole.n1 = Cardinality(Groups) /\ Whole.j0 = 0 /\ Whole.j1 = NK
        /\ Whole.full = TRUE /\ Whole.ok = TRUE
    BY DEF Whole
  <1>4. ASSUME Cardinality(Groups) = 1 PROVE Whole = Block(1)
    <2>1. 1 - 1 = 0
      OBVIOUS
    <2> QED
      BY <1>4, <2>1 DEF Block, Whole
  <1> QED
    BY <1>1, <1>2, <1>3, <1>4

\* The file of a block that has one file only.
LEMMA OnlyFile ==
    ASSUME Usual, NEW T \in SUBSET AFiles, Tiles(T), NEW g \in Groups, Covered(T, g, NK),
           \A f, h \in T : f.n1 = g /\ h.n1 = g => f = h,
           \A f \in T : f.full /\ f.ok
    PROVE  /\ \A f \in T : f.n1 = g => f = Block(g)
           /\ Block(g) \in T
  <1>1. PICK f \in T : f.n1 = g /\ f.j0 = 0
    BY BlockFollows
  <1>2. PICK h \in T : h.n1 = g /\ h.j1 = NK
    BY BlockFollows
  <1>3. h = f
    BY <1>1, <1>2
  <1>4. f.n0 = g - 1
    <2>1. f.n1 = f.n0 + 1 /\ f.n0 \in Nat
      BY FileNumbers DEF Tiles
    <2> QED
      BY <1>1, <2>1
  <1>5. f.full = TRUE /\ f.ok = TRUE
    BY FileNumbers
  <1>6. f = Block(g)
    BY <1>1, <1>2, <1>3, <1>4, <1>5, FileNumbers DEF Block
  <1> QED
    BY <1>1, <1>6

\* The A files while acollect has nothing in A.temp.
LEMMA DataFollows ==
    ASSUME Usual, DiskInv, Tiles(disk.A), \A g \in Groups : Covered(disk.A, g, NK)
    PROVE  /\ \A f \in disk.A : /\ f \in AFiles /\ f.n1 = f.n0 + 1 /\ f.n1 \in Groups
                                 /\ f.n0 \in Nat /\ f.j0 \in Nat
           /\ \A g \in Groups :
                /\ \E f \in disk.A : f.n1 = g /\ f.j0 = 0
                /\ \E f \in disk.A : f.n1 = g /\ f.j1 = NK
                /\ \A f, h \in disk.A : f.n1 = g /\ h.n1 = g /\ f.j0 = h.j0 => f = h
                /\ \A f \in disk.A : f.n1 = g /\ f.j0 # 0 => \E h \in disk.A : h.n1 = g /\ h.j1 = f.j0
  <1>1. PICK T \in SUBSET AFiles : T = disk.A
    BY MemoryTyped
  <1>2. Tiles(T) /\ \A g \in Groups : Covered(T, g, NK)
    BY <1>1
  <1>3. ASSUME NEW f \in T
        PROVE  f \in AFiles /\ f.n1 = f.n0 + 1 /\ f.n1 \in Groups /\ f.n0 \in Nat /\ f.j0 \in Nat
    <2>1. f.n1 = f.n0 + 1 /\ f.n0 \in Nat /\ f.n1 \in Nat /\ f.n1 <= Max(Groups) /\ f.j0 \in Nat
      BY <1>2, FileNumbers DEF Tiles
    <2> QED
      BY <2>1, BlockNumbers
  <1>4. ASSUME NEW g \in Groups
        PROVE  /\ \E f \in T : f.n1 = g /\ f.j0 = 0
               /\ \E f \in T : f.n1 = g /\ f.j1 = NK
               /\ \A f, h \in T : f.n1 = g /\ h.n1 = g /\ f.j0 = h.j0 => f = h
               /\ \A f \in T : f.n1 = g /\ f.j0 # 0 => \E h \in T : h.n1 = g /\ h.j1 = f.j0
    <2>1. Covered(T, g, NK)
      BY <1>2
    <2> QED
      BY <1>2, <2>1, BlockFollows
  <1> QED
    BY <1>1, <1>3, <1>4

\* acollect goes on, with the same data in its files.
LEMMA AcollectStays ==
    ASSUME Iterated, NoFs, Collecting', prog' = "acollect",
           disk'.X = disk.X, disk'.C = disk.C, disk'.V = disk.V, disk'.Fs = disk.Fs,
           UNCHANGED <<faults, par>>
    PROVE  RunRight' /\ prog' # "idle"
  BY StillIterated DEF RunRight, AcollectRight, NoFs

\* acollect ends: all data are in one file.
LEMMA AcollectEnds ==
    ASSUME Iterated, NoFs, disk'.A = {Whole}, prog' = "lingen",
           disk'.X = disk.X, disk'.C = disk.C, disk'.V = disk.V, disk'.Fs = disk.Fs,
           UNCHANGED <<faults, par>>
    PROVE  RunRight' /\ prog' # "idle"
  BY StillIterated DEF RunRight, LingenRight, NoFs

\* A single file holds the data of a single block.
LEMMA SingleFile ==
    ASSUME Usual, DiskInv, Collecting, Pieces = disk.A, Cardinality(disk.A) <= 1,
           \A f \in disk.A : f.full
    PROVE  disk.A = {Whole}
  <1>1. disk.A \in SUBSET AFiles /\ Tiles(disk.A) /\ \A g \in Groups : Covered(disk.A, g, NK)
    BY MemoryTyped DEF Collecting
  <1>2. \A f \in disk.A : f.ok
    BY DEF Collecting, Sound
  <1>3. 1 \in Groups /\ Cardinality(Groups) \in Groups
    BY BlockNumbers
  <1>4. \A g \in Groups : \E f \in disk.A : f.n1 = g
    BY <1>1, BlockFollows
  <1>5. PICK f \in AFiles : disk.A = {f}
    <2>1. disk.A # {}
      BY <1>3, <1>4
    <2> QED
      BY <1>1, <2>1, OneFile
  <1>6. f.n1 = 1 /\ f.n1 = Cardinality(Groups)
    BY <1>3, <1>4, <1>5
  <1>7. f = Block(1)
    BY <1>1, <1>2, <1>3, <1>5, <1>6, OnlyFile
  <1> QED
    BY <1>5, <1>6, <1>7, BlockIs

\* The next block with several files: they follow each other, so that acollect
\* goes on.
LEMMA AcollectMergeRight ==
    ASSUME Usual, DiskInv, RunRight, AcollectMerge
    PROVE  RunRight' /\ (prog' = "idle" => EndRight')
  <1> DEFINE blocks == {f.n0 : f \in disk.A} \ ac.done
             b == Min(blocks)
             T == {f \in disk.A : f.n0 = b}
  <1>1. /\ prog = "acollect" /\ ac.ph = "" /\ AcollectRight /\ Iterated /\ NoFs
        /\ ac \in Memories /\ disk.A \in SUBSET AFiles /\ faults \in Nat
    <2>1. prog = "acollect" /\ ac.ph = "" /\ AcollectRight
      BY DEF AcollectMerge, RunRight
    <2>2. faults \in Nat
      BY Numbers DEF DiskInv, CountsSound
    <2> QED
      BY <2>1, <2>2, MemoryTyped DEF AcollectRight
  <1>2. CASE \E f \in disk.A : ~f.full
    <2>1. PICK f \in disk.A : ~f.full
      BY <1>2
    <2>2. f # Whole
      BY <2>1, BlockIs
    <2>3. Sound(f)
      BY <1>1, <2>2 DEF AcollectRight, Collecting, Pieces
    <2>4. faults > 0
      <3>1. faults # 0
        BY <2>1, <2>3 DEF Sound
      <3>2. faults \in Nat
        BY <1>1
      <3> QED
        BY <3>1, <3>2
    <2>5. Fail
      BY <1>2 DEF AcollectMerge
    <2> QED
      BY <2>4, <2>5, FailEnds
  <1>3. CASE (\A f \in disk.A : f.full) /\ ac.done = {} /\ Cardinality(disk.A) <= 1
    <2>1. Run("lingen", 0) /\ UNCHANGED <<disk, faults>> /\ Unit
      BY <1>3 DEF AcollectMerge
    <2>2. disk.A = {Whole}
      <3>1. CASE Collecting
        <4>1. Pieces = disk.A
          BY <1>1, <3>1 DEF Collecting, Pieces
        <4> QED
          BY <1>3, <3>1, <4>1, SingleFile
      <3> QED
        BY <1>1, <3>1 DEF AcollectRight
    <2> QED
      BY <1>1, <2>1, <2>2, AcollectEnds DEF Run, Unit
  <1>4. CASE (\A f \in disk.A : f.full) /\ ~(ac.done = {} /\ Cardinality(disk.A) <= 1)
    <2>1. Collecting /\ ac.temp = {} /\ ac.rc = 0 /\ Pieces = disk.A
      <3>1. disk.A # {Whole} \/ ac # Idle
        <4>1. Cardinality({Whole}) <= 1
          <5>1. Cardinality({Whole}) = 1
            BY FS_Singleton
          <5> QED
            BY <5>1
        <4>2. Idle.done = {}
          BY DEF Idle
        <4> QED
          BY <1>4, <4>1, <4>2
      <3>2. Collecting
        BY <1>1, <3>1 DEF AcollectRight
      <3>3. ac.temp = {} /\ ac.rc = 0
        BY <1>1, <3>2 DEF Collecting
      <3> QED
        BY <3>2, <3>3 DEF Pieces
    <2>2. /\ Tiles(disk.A) /\ \A g \in Groups : Covered(disk.A, g, NK)
          /\ \A f \in disk.A : Sound(f) /\ f.ok /\ f.full
          /\ \A f \in disk.A : f.n0 \in ac.done => f = Block(f.n1)
      BY <1>1, <1>4, <2>1 DEF Collecting, Sound
    <2>3. \A f \in disk.A : f.n1 = f.n0 + 1 /\ f.n0 \in Nat /\ f.n1 \in Groups
      BY <2>2, DataFollows
    <2>4. CASE blocks = {}
      <3>1. ac' = [ac EXCEPT !.ph = "across"] /\ UNCHANGED <<disk, prog, exit, faults>> /\ Unit
        BY <1>4, <2>4 DEF AcollectMerge
      <3>2. /\ ac'.ph = "across" /\ ac'.done = ac.done /\ ac'.temp = {} /\ ac'.todo = ac.todo
            /\ ac'.rc = 0
        BY <1>1, <2>1, <3>1 DEF Memories
      <3>3. \A f \in disk.A : f = Block(f.n1)
        BY <2>2, <2>4
      <3>4. \A g \in Groups : Block(g) \in disk.A
        <4> SUFFICES ASSUME NEW g \in Groups PROVE Block(g) \in disk.A
          OBVIOUS
        <4>1. PICK f \in disk.A : f.n1 = g
          BY <2>2, DataFollows
        <4> QED
          BY <3>3, <4>1
      <3>5. disk.A = {Block(g) : g \in Groups}
        BY <2>3, <3>3, <3>4
      <3>6. Pieces' = disk.A /\ disk'.A = disk.A
        BY <3>1, <3>2 DEF Pieces
      <3>7. Collecting'
        <4>1. \A f \in Pieces' : Sound(f)' /\ f.full
          BY <2>2, <3>1, <3>6 DEF Sound
        <4>2. ac'.ph # "cat" /\ ac'.ph \in {"", "cat", "across"} /\ ac'.rc \in {0, 2}
          BY <3>2
        <4> QED
          BY <2>2, <3>2, <3>3, <3>5, <3>6, <4>1, <4>2, Zenon DEF Collecting
      <3> QED
        BY <1>1, <3>1, <3>7, AcollectStays DEF Unit
    <2>5. CASE blocks # {}
      <3>1. b \in blocks
        <4>1. blocks \in SUBSET Nat
          BY <2>3
        <4> QED
          BY <2>5, <4>1, LeastNat
      <3> HIDE DEF b, blocks
      <3>2. PICK g \in Groups : g = b + 1
        BY <2>3, <3>1 DEF blocks
      <3>3. b \in Nat /\ T \in SUBSET AFiles /\ T \subseteq disk.A /\ T # {}
        BY <1>1, <2>3, <3>1 DEF blocks
      <3>4. \A f \in disk.A : f \in T <=> f.n1 = g
        BY <2>3, <3>2, <3>3
      <3> HIDE DEF T
      <3>40. /\ \E f \in disk.A : f.n1 = g /\ f.j0 = 0
             /\ \A f, h \in disk.A : f.n1 = g /\ h.n1 = g /\ f.j0 = h.j0 => f = h
             /\ \A f \in disk.A : f.n1 = g /\ f.j0 # 0 => \E h \in disk.A : h.n1 = g /\ h.j1 = f.j0
        BY <2>2, DataFollows
      <3>5. ~inconsistent(T, "j0", "j1")
        <4>1. \A f, h \in T : f["j0"] = h["j0"] => f = h
          BY <3>3, <3>4, <3>40
        <4>2. Cardinality({f["j0"] : f \in T}) = Cardinality(T)
          BY <3>3, <4>1, ManyBeginnings
        <4>3. Min({h["j0"] : h \in T}) = 0
          <5>1. PICK f \in disk.A : f.n1 = g /\ f.j0 = 0
            BY <2>2, DataFollows
          <5>2. 0 \in {h["j0"] : h \in T}
            BY <3>4, <5>1
          <5>3. {h["j0"] : h \in T} \in SUBSET Nat
            BY <3>3, FileNumbers
          <5>4. \A j \in {h["j0"] : h \in T} : 0 <= j
            BY <5>3
          <5> QED
            BY <5>2, <5>3, <5>4, LeastIs
        <4>4. \A f \in T : f["j0"] # 0 => \E h \in T : h["j1"] = f["j0"]
          BY <3>3, <3>4, <3>40
        <4> QED
          BY <4>2, <4>3, <4>4 DEF inconsistent
      <3>6. /\ ac' = [ac EXCEPT !.done = @ \cup {b},
                                !.ph = IF Cardinality(T) = 1 THEN "" ELSE "cat",
                                !.todo = IF Cardinality(T) = 1 THEN {} ELSE T]
            /\ UNCHANGED <<disk, prog, exit, faults>> /\ Unit
        BY <1>4, <2>5, <3>5 DEF AcollectMerge, T, b, blocks
      <3>7. /\ ac'.ph = (IF Cardinality(T) = 1 THEN "" ELSE "cat") /\ ac'.done = ac.done \cup {b}
            /\ ac'.temp = {} /\ ac'.todo = (IF Cardinality(T) = 1 THEN {} ELSE T) /\ ac'.rc = 0
        BY <1>1, <2>1, <3>6 DEF Memories
      <3>8. Pieces' = disk.A /\ disk'.A = disk.A
        BY <3>6, <3>7 DEF Pieces
      <3>9. \A f \in Pieces' : Sound(f)' /\ f.full
        BY <2>2, <3>6, <3>8 DEF Sound
      <3>10. ac'.rc \in {0, 2} /\ ac'.rc # 2
        <4>1. 0 # 2
          OBVIOUS
        <4> QED
          BY <3>7, <4>1, Zenon
      <3>11. CASE Cardinality(T) = 1
        <4>1. ac'.ph = "" /\ ac'.todo = {}
          BY <3>7, <3>11
        <4>2. \A f, h \in disk.A : f.n1 = g /\ h.n1 = g => f = h
          <5>1. PICK x \in AFiles : T = {x}
            BY <3>3, <3>11, OneFile
          <5> QED
            BY <3>4, <5>1
        <4>3. \A f \in disk.A : f.n1 = g => f = Block(g)
          <5>1. PICK D \in SUBSET AFiles : D = disk.A
            BY <1>1
          <5>2. /\ Tiles(D) /\ Covered(D, g, NK) /\ \A f \in D : f.full /\ f.ok
                /\ \A f, h \in D : f.n1 = g /\ h.n1 = g => f = h
            BY <2>2, <4>2, <5>1
          <5> QED
            BY <5>1, <5>2, OnlyFile
        <4>4. \A f \in disk.A : f.n0 \in ac'.done => f = Block(f.n1)
          BY <2>2, <2>3, <3>2, <3>7, <4>3
        <4>5. ac'.ph \in {"", "cat", "across"} /\ ac'.ph # "cat" /\ ac'.ph # "across"
          BY <4>1
        <4>6. Collecting'
          BY <2>2, <3>7, <3>8, <3>9, <3>10, <4>4, <4>5, Zenon DEF Collecting
        <4> QED
          BY <1>1, <3>6, <4>6, AcollectStays DEF Unit
      <3>12. CASE Cardinality(T) # 1
        <4>1. ac'.ph = "cat" /\ ac'.todo = T
          BY <3>7, <3>12
        <4>2. \A f \in disk.A : f.n0 \in ac'.done => f = Block(f.n1) \/ f \in ac'.temp \cup ac'.todo
          BY <2>2, <3>7, <4>1 DEF T
        <4>3. ac'.ph \in {"", "cat", "across"} /\ ac'.ph # "across"
          BY <4>1
        <4>4. b \in ac'.done /\ ac'.temp \cup ac'.todo = {f \in Pieces' : f.n0 = b}
          BY <3>7, <3>8, <4>1 DEF T
        <4>5. ac'.todo \subseteq disk'.A /\ ac'.temp \cap disk'.A = {}
          BY <3>3, <3>7, <3>8, <4>1
        <4>6. Collecting'
          BY <2>2, <3>8, <3>9, <3>10, <4>1, <4>2, <4>3, <4>4, <4>5, Zenon DEF Collecting
        <4> QED
          BY <1>1, <3>6, <4>6, AcollectStays DEF Unit
      <3> QED
        BY <3>11, <3>12
    <2> QED
      BY <2>4, <2>5
  <1> QED
    BY <1>2, <1>3, <1>4

\* A file is copied: A.temp and the files together hold what they held.
LEMMA AcollectCatRight ==
    ASSUME Usual, DiskInv, RunRight, AcollectCat
    PROVE  RunRight' /\ prog' # "idle"
  <1>1. /\ prog = "acollect" /\ ac.ph = "cat" /\ ac.todo # {} /\ AcollectRight /\ Iterated /\ NoFs
        /\ ac \in Memories /\ disk \in Disks
    BY MemoryTyped DEF AcollectCat, RunRight, AcollectRight
  <1>2. Collecting
    <2>1. Idle.ph = ""
      BY DEF Idle
    <2> QED
      BY <1>1, <2>1 DEF AcollectRight
  <1>3. PICK f : f = First(ac.todo)
    OBVIOUS
  <1>4. f \in ac.todo
    BY <1>1, <1>3, MemoryTyped, FirstFile
  <1>5. disk' = [disk EXCEPT !.A = @ \ {f}] /\ ac' = [ac EXCEPT !.todo = @ \ {f}, !.temp = @ \cup {f}]
    BY <1>3 DEF AcollectCat
  <1>6. /\ disk'.X = disk.X /\ disk'.C = disk.C /\ disk'.V = disk.V /\ disk'.Fs = disk.Fs
        /\ disk'.A = disk.A \ {f}
    BY <1>1, <1>5 DEF Disks
  <1>7. /\ ac'.ph = "cat" /\ ac'.done = ac.done /\ ac'.rc = ac.rc
        /\ ac'.todo = ac.todo \ {f} /\ ac'.temp = ac.temp \cup {f}
    BY <1>1, <1>5 DEF Memories
  <1>8. prog' = "acollect" /\ UNCHANGED <<faults, par>>
    BY <1>1 DEF AcollectCat, Unit
  <1>9. /\ Tiles(Pieces) /\ \A g \in Groups : Covered(Pieces, g, NK)
        /\ \A h \in Pieces : Sound(h) /\ h.full
        /\ \A h \in Pieces : h.n0 \in ac.done => h = Block(h.n1) \/ h \in ac.temp \cup ac.todo
        /\ ac.rc \in {0, 2} /\ (ac.rc = 2 => Pieces = {Block(g) : g \in Groups})
        /\ ac.todo \subseteq disk.A /\ ac.temp \cap disk.A = {}
        /\ ac.rc = 0 => \E b \in ac.done : ac.temp \cup ac.todo = {h \in Pieces : h.n0 = b}
        /\ ac.rc = 2 => ac.todo = disk.A
    BY <1>1, <1>2 DEF Collecting
  <1>10. Pieces' = Pieces
    BY <1>4, <1>6, <1>7, <1>9 DEF Pieces
  <1>11. ac'.temp \cup ac'.todo = ac.temp \cup ac.todo
    BY <1>4, <1>7
  <1>12. \A h \in Pieces' : Sound(h)' /\ h.full
    BY <1>8, <1>9, <1>10 DEF Sound
  <1>13. ac'.todo \subseteq disk'.A /\ ac'.temp \cap disk'.A = {} /\ (ac'.rc = 2 => ac'.todo = disk'.A)
    BY <1>6, <1>7, <1>9
  <1>14. ac'.ph \in {"", "cat", "across"} /\ ac'.ph # "across"
    BY <1>7
  <1>15. /\ Tiles(Pieces') /\ \A g \in Groups : Covered(Pieces', g, NK)
         /\ \A h \in Pieces' : h.n0 \in ac'.done => h = Block(h.n1) \/ h \in ac'.temp \cup ac'.todo
    BY <1>7, <1>9, <1>10, <1>11
  <1>16. ac'.rc = 0 => \E b \in ac'.done : ac'.temp \cup ac'.todo = {h \in Pieces' : h.n0 = b}
    BY <1>7, <1>9, <1>10, <1>11
  <1>17. ac'.rc \in {0, 2} /\ (ac'.rc = 2 => Pieces' = {Block(g) : g \in Groups})
    BY <1>7, <1>9, <1>10
  <1>18. Collecting'
    BY <1>7, <1>12, <1>13, <1>14, <1>15, <1>16, <1>17, Zenon DEF Collecting
  <1> QED
    BY <1>1, <1>6, <1>8, <1>18, AcollectStays

\* The files of all blocks go side by side.
LEMMA AcollectAcrossRight ==
    ASSUME Usual, DiskInv, RunRight, AcollectAcross
    PROVE  RunRight' /\ prog' # "idle"
  <1> DEFINE T == {f \in disk.A : f.j0 = First(disk.A).j0}
  <1>1. /\ prog = "acollect" /\ ac.ph = "across" /\ AcollectRight /\ Iterated /\ NoFs
        /\ ac \in Memories /\ disk.A \in SUBSET AFiles
    BY MemoryTyped DEF AcollectAcross, RunRight, AcollectRight
  <1>2. Collecting
    <2>1. Idle.ph = ""
      BY DEF Idle
    <2> QED
      BY <1>1, <2>1 DEF AcollectRight
  <1>3. ac.temp = {} /\ Pieces = disk.A /\ disk.A = {Block(g) : g \in Groups}
    <2>1. ac.temp = {} /\ Pieces = {Block(g) : g \in Groups}
      BY <1>1, <1>2 DEF Collecting
    <2> QED
      BY <2>1 DEF Pieces
  <1>4. /\ Tiles(disk.A) /\ \A g \in Groups : Covered(disk.A, g, NK)
        /\ \A f \in disk.A : Sound(f)
    BY <1>2, <1>3 DEF Collecting
  <1>5. \A f \in disk.A : \E g \in Groups :
          f = Block(g) /\ f.n0 = g - 1 /\ f.n1 = g /\ f.j0 = 0 /\ f.j1 = NK /\ f.full
    BY <1>3, BlockIs
  <1>6. 1 \in Groups /\ \A g \in Groups : Block(g) \in disk.A
    BY <1>3, BlockNumbers
  <1>7. CASE Cardinality(disk.A) <= 1
    <2>1. disk.A = {Whole}
      BY <1>2, <1>3, <1>5, <1>7, SingleFile
    <2>2. Run("lingen", 0) /\ UNCHANGED <<disk, faults>> /\ Unit
      BY <1>7 DEF AcollectAcross
    <2> QED
      BY <1>1, <2>1, <2>2, AcollectEnds DEF Run, Unit
  <1>8. CASE ~(Cardinality(disk.A) <= 1)
    <2>1. T = disk.A
      <3>1. First(disk.A) \in disk.A
        BY <1>1, <1>6, FirstFile
      <3> QED
        BY <1>5, <3>1
    <2>2. ~inconsistent(T, "n0", "n1")
      <3>1. \A f, h \in disk.A : f["n0"] = h["n0"] => f = h
        <4> SUFFICES ASSUME NEW f \in disk.A, NEW h \in disk.A, f["n0"] = h["n0"] PROVE f = h
          OBVIOUS
        <4>1. PICK g \in Groups : f = Block(g) /\ f.n0 = g - 1
          BY <1>5
        <4>2. PICK k \in Groups : h = Block(k) /\ h.n0 = k - 1
          BY <1>5
        <4>3. g = k
          BY <4>1, <4>2, GroupNumbers
        <4> QED
          BY <4>1, <4>2, <4>3
      <3>2. Cardinality({f["n0"] : f \in disk.A}) = Cardinality(disk.A)
        BY <1>1, <3>1, ManyBeginnings
      <3>3. Min({h["n0"] : h \in disk.A}) = 0
        <4>1. 0 \in {h["n0"] : h \in disk.A}
          <5>1. (Block(1)).n0 = 0 /\ Block(1) \in disk.A
            BY <1>6, BlockIs
          <5> QED
            BY <5>1
        <4>2. {h["n0"] : h \in disk.A} \in SUBSET Nat
          BY <1>1, FileNumbers
        <4>3. \A j \in {h["n0"] : h \in disk.A} : 0 <= j
          BY <4>2
        <4> QED
          BY <4>1, <4>2, <4>3, LeastIs
      <3>4. ASSUME NEW f \in disk.A, f["n0"] # 0 PROVE \E h \in disk.A : h["n1"] = f["n0"]
        <4>1. PICK g \in Groups : f = Block(g) /\ f.n0 = g - 1
          BY <1>5
        <4>2. g - 1 \in Groups
          BY <3>4, <4>1, BlockNumbers
        <4>3. Block(g - 1) \in disk.A /\ (Block(g - 1)).n1 = g - 1
          BY <1>6, <4>2, BlockIs
        <4> QED
          BY <4>1, <4>3
      <3> QED
        BY <2>1, <3>2, <3>3, <3>4 DEF inconsistent
    <2>3. Cardinality({f.j1 : f \in T}) = 1
      <3>1. {f.j1 : f \in T} = {NK}
        BY <1>5, <1>6, <2>1
      <3> QED
        BY <3>1, FS_Singleton
    <2>4. /\ ac' = [ac EXCEPT !.ph = "cat", !.todo = disk.A, !.rc = 2]
          /\ UNCHANGED <<disk, prog, exit, faults>> /\ Unit
      <3>1. ~(Cardinality({f.j1 : f \in T}) > 1)
        BY <2>3
      <3> QED
        BY <1>8, <2>1, <2>2, <3>1 DEF AcollectAcross
    <2> HIDE DEF T
    <2>5. /\ ac'.ph = "cat" /\ ac'.done = ac.done /\ ac'.rc = 2
          /\ ac'.todo = disk.A /\ ac'.temp = {}
      BY <1>1, <1>3, <2>4 DEF Memories
    <2>6. Pieces' = disk.A /\ disk'.A = disk.A
      BY <2>4, <2>5 DEF Pieces
    <2>7. \A h \in Pieces' : Sound(h)' /\ h.full
      BY <1>4, <1>5, <2>4, <2>6 DEF Sound
    <2>8. \A h \in Pieces' : h = Block(h.n1)
      BY <1>5, <2>6
    <2>9. ac'.ph \in {"", "cat", "across"} /\ ac'.ph # "across"
      BY <2>5
    <2>10. ac'.rc \in {0, 2} /\ ac'.rc # 0
      <3>1. 2 # 0
        OBVIOUS
      <3> QED
        BY <2>5, <3>1, Zenon
    <2>11. ac'.todo \subseteq disk'.A /\ ac'.temp \cap disk'.A = {} /\ ac'.todo = disk'.A
      BY <2>5, <2>6
    <2>12. Collecting'
      BY <1>3, <1>4, <2>5, <2>6, <2>7, <2>8, <2>9, <2>10, <2>11, Zenon DEF Collecting
    <2> QED
      BY <1>1, <2>4, <2>12, AcollectStays DEF Unit
  <1> QED
    BY <1>7, <1>8

\* A.temp gets its name, and holds all data of the block or of all blocks.
LEMMA AcollectRenameRight ==
    ASSUME Usual, DiskInv, RunRight, AcollectRename
    PROVE  RunRight' /\ prog' # "idle"
  <1>1. /\ prog = "acollect" /\ ac.ph = "cat" /\ ac.todo = {} /\ AcollectRight /\ Iterated /\ NoFs
        /\ ac \in Memories /\ disk \in Disks /\ ac.temp \in SUBSET AFiles /\ ac.temp # {}
        /\ disk.A \in SUBSET AFiles
    BY MemoryTyped DEF AcollectRename, RunRight, AcollectRight
  <1>2. Collecting
    <2>1. Idle.ph = ""
      BY DEF Idle
    <2> QED
      BY <1>1, <2>1 DEF AcollectRight
  <1>3. /\ Tiles(Pieces) /\ \A g \in Groups : Covered(Pieces, g, NK)
        /\ \A h \in Pieces : Sound(h) /\ h.full
        /\ \A h \in Pieces : h.n0 \in ac.done => h = Block(h.n1) \/ h \in ac.temp
        /\ ac.rc \in {0, 2} /\ (ac.rc = 2 => Pieces = {Block(g) : g \in Groups})
        /\ ac.temp \cap disk.A = {}
        /\ ac.rc = 0 => \E b \in ac.done : ac.temp = {h \in Pieces : h.n0 = b}
        /\ ac.rc = 2 => disk.A = {}
    BY <1>1, <1>2 DEF Collecting
  <1>4. Pieces = disk.A \cup ac.temp /\ Pieces \in SUBSET AFiles
    BY <1>1 DEF Pieces
  <1>5. \A f \in Pieces : f \in AFiles /\ f.n1 = f.n0 + 1 /\ f.n0 \in Nat /\ f.n1 \in Groups /\ f.ok
    <2> SUFFICES ASSUME NEW f \in Pieces
                 PROVE  f \in AFiles /\ f.n1 = f.n0 + 1 /\ f.n0 \in Nat /\ f.n1 \in Groups /\ f.ok
      OBVIOUS
    <2>1. f \in AFiles /\ f.n1 = f.n0 + 1 /\ f.ok
      BY <1>3, <1>4 DEF Tiles, Sound
    <2>2. f.n0 \in Nat /\ f.n1 \in Nat /\ f.n1 <= Max(Groups)
      BY <2>1, FileNumbers
    <2> QED
      BY <2>1, <2>2, BlockNumbers
  <1>6. CASE ac.rc = 0
    <2>1. PICK b \in ac.done : ac.temp = {h \in Pieces : h.n0 = b}
      BY <1>3, <1>6
    <2>2. PICK g \in Groups : g = b + 1 /\ b \in Nat
      BY <1>1, <1>5, <2>1
    <2>3. \A f \in Pieces : f \in ac.temp <=> f.n1 = g
      BY <1>5, <2>1, <2>2
    <2>4. Glue(ac.temp, TRUE) = {Block(g)}
      <3>1. PICK T \in SUBSET AFiles : T = Pieces
        BY <1>4
      <3>2. Tiles(T) /\ Covered(T, g, NK)
        BY <1>3, <3>1
      <3>3. PICK fst \in T : fst.n1 = g /\ fst.j0 = 0
        BY <3>2, BlockFollows
      <3>4. PICK lst \in T : lst.n1 = g /\ lst.j1 = NK
        BY <3>2, BlockFollows
      <3>5. fst \in ac.temp /\ lst \in ac.temp /\ fst.n0 = b
        BY <1>5, <2>2, <2>3, <3>1, <3>3, <3>4
      <3>6. \A f \in ac.temp : /\ f.ok /\ fst.n0 <= f.n0 /\ f.n1 <= fst.n1
                               /\ fst.j0 <= f.j0 /\ f.j1 <= lst.j1
        <4> SUFFICES ASSUME NEW f \in ac.temp
                     PROVE  /\ f.ok /\ fst.n0 <= f.n0 /\ f.n1 <= fst.n1
                            /\ fst.j0 <= f.j0 /\ f.j1 <= lst.j1
          OBVIOUS
        <4>1. f \in Pieces /\ f.n1 = g /\ f.n0 = b
          BY <1>4, <2>1, <2>3
        <4>2. f \in AFiles /\ f.ok
          BY <1>5, <4>1
        <4>3. f.j0 \in Nat /\ f.j1 <= NK
          BY <4>2, FileNumbers
        <4> QED
          BY <2>2, <3>3, <3>4, <3>5, <4>1, <4>2, <4>3
      <3>7. Glue(ac.temp, TRUE) = {[n0 |-> fst.n0, n1 |-> fst.n1, j0 |-> fst.j0, j1 |-> lst.j1,
                                    full |-> TRUE, ok |-> TRUE]}
        <4>1. PICK G \in SUBSET AFiles : G = ac.temp
          BY <1>1
        <4>2. fst \in G /\ lst \in G /\ \A f \in G : f.ok
          BY <3>5, <3>6, <4>1
        <4>3. (\A f \in G : fst.n0 <= f.n0) /\ (\A f \in G : f.n1 <= fst.n1)
          BY <3>6, <4>1
        <4>4. (\A f \in G : fst.j0 <= f.j0) /\ (\A f \in G : f.j1 <= lst.j1)
          BY <3>6, <4>1
        <4>5. Glue(G, TRUE) = {[n0 |-> fst.n0, n1 |-> fst.n1, j0 |-> fst.j0, j1 |-> lst.j1,
                                full |-> TRUE, ok |-> TRUE]}
          BY <4>2, <4>3, <4>4, Glued
        <4> QED
          BY <4>1, <4>5
      <3>8. fst.n0 = g - 1 /\ fst.n1 = g /\ fst.j0 = 0 /\ lst.j1 = NK
        BY <2>2, <3>3, <3>4, <3>5
      <3> QED
        BY <3>7, <3>8 DEF Block
    <2>5. /\ disk' = [disk EXCEPT !.A = @ \cup {Block(g)}]
          /\ ac' = [ac EXCEPT !.ph = "", !.temp = {}] /\ UNCHANGED <<prog, exit, faults>> /\ Unit
      <3>1. disk' = [disk EXCEPT !.A = @ \cup Glue(ac.temp, TRUE)] /\ UNCHANGED faults /\ Unit
        BY DEF AcollectRename
      <3>2. ac' = [ac EXCEPT !.ph = "", !.temp = {}] /\ UNCHANGED <<prog, exit>>
        BY <1>6 DEF AcollectRename
      <3> QED
        BY <2>4, <3>1, <3>2
    <2>6. /\ disk'.X = disk.X /\ disk'.C = disk.C /\ disk'.V = disk.V /\ disk'.Fs = disk.Fs
          /\ disk'.A = disk.A \cup {Block(g)}
      BY <1>1, <2>5 DEF Disks
    <2>7. /\ ac'.ph = "" /\ ac'.done = ac.done /\ ac'.rc = 0 /\ ac'.todo = {} /\ ac'.temp = {}
      BY <1>1, <1>6, <2>5 DEF Memories
    <2>8. Pieces' = disk.A \cup {Block(g)}
      BY <2>6, <2>7 DEF Pieces
    <2>9. \A f \in disk.A : f \in Pieces /\ f.n1 # g /\ f \notin ac.temp
      BY <1>3, <1>4, <2>3
    <2>10. /\ (Block(g)).n1 = g /\ (Block(g)).n0 = g - 1 /\ (Block(g)).j0 = 0 /\ (Block(g)).j1 = NK
           /\ (Block(g)).full = TRUE /\ (Block(g)).ok = TRUE
      BY BlockIs
    <2>11. Tiles(Pieces')
      <3>1. \A f \in Pieces' : f.n1 = f.n0 + 1 /\ f.j0 < f.j1
        <4>1. g = g - 1 + 1 /\ 0 < NK
          BY <2>2, Numbers DEF Usual
        <4>2. \A f \in disk.A : f.n1 = f.n0 + 1 /\ f.j0 < f.j1
          BY <1>3, <2>9 DEF Tiles
        <4> QED
          BY <2>8, <2>10, <4>1, <4>2
      <3>2. \A f, h \in disk.A : f.n1 = h.n1 /\ f # h => f.j1 <= h.j0 \/ h.j1 <= f.j0
        BY <1>3, <2>9 DEF Tiles
      <3>3. \A f, h \in Pieces' : f.n1 = h.n1 /\ f # h => f.j1 <= h.j0 \/ h.j1 <= f.j0
        BY <2>8, <2>9, <2>10, <3>2
      <3> QED
        BY <3>1, <3>3 DEF Tiles
    <2>12. ASSUME NEW k \in Groups PROVE Covered(Pieces', k, NK)
      <3>1. ASSUME NEW j \in 1..NK PROVE \E f \in Pieces' : f.n1 = k /\ f.j0 < j /\ j <= f.j1
        <4>1. CASE k = g
          <5>1. 0 < j /\ j <= NK
            BY Numbers
          <5> QED
            BY <2>8, <2>10, <4>1, <5>1
        <4>2. CASE k # g
          <5>1. Covered(Pieces, k, NK) /\ j <= NK
            BY <1>3, Numbers
          <5>2. PICK f \in Pieces : f.n1 = k /\ f.j0 < j /\ j <= f.j1
            BY <5>1 DEF Covered
          <5>3. f \in disk.A
            BY <1>4, <2>3, <4>2, <5>2
          <5> QED
            BY <2>8, <5>2, <5>3
        <4> QED
          BY <4>1, <4>2
      <3> QED
        BY <3>1 DEF Covered
    <2>13. \A f \in Pieces' : Sound(f)' /\ f.full
      <3>1. Block(g).ok = TRUE /\ Block(g).full = TRUE /\ faults' = faults
        BY <2>5, <2>10
      <3>2. \A f \in disk.A : Sound(f) /\ f.full
        BY <1>3, <2>9
      <3> QED
        BY <2>8, <3>1, <3>2 DEF Sound
    <2>14. \A f \in Pieces' : f.n0 \in ac'.done => f = Block(f.n1)
      BY <1>3, <2>7, <2>8, <2>9, <2>10
    <2>15. ac'.ph # "cat" /\ ac'.ph # "across" /\ ac'.ph \in {"", "cat", "across"}
      BY <2>7
    <2>16. ac'.rc \in {0, 2} /\ ac'.rc # 2
      <3>1. 0 # 2
        OBVIOUS
      <3> QED
        BY <2>7, <3>1, Zenon
    <2>17. Collecting'
      BY <2>7, <2>11, <2>12, <2>13, <2>14, <2>15, <2>16, Zenon DEF Collecting
    <2> QED
      BY <1>1, <2>5, <2>6, <2>17, AcollectStays DEF Unit
  <1>7. CASE ac.rc = 2
    <2>1. ac.temp = {Block(g) : g \in Groups} /\ disk.A = {}
      BY <1>3, <1>4, <1>7
    <2>2. PICK n \in Groups : n = Cardinality(Groups) /\ 1 \in Groups /\ \A g \in Groups : g \in Nat /\ 1 <= g /\ g <= n
      BY BlockNumbers
    <2>3. \A f \in ac.temp : f.ok /\ 0 <= f.n0 /\ f.n1 <= n /\ f.j0 = 0 /\ f.j1 = NK
      <3> SUFFICES ASSUME NEW g \in Groups
                   PROVE  /\ (Block(g)).ok /\ 0 <= (Block(g)).n0 /\ (Block(g)).n1 <= n
                          /\ (Block(g)).j0 = 0 /\ (Block(g)).j1 = NK
        BY <2>1
      <3>1. 0 <= g - 1 /\ g <= n
        BY <2>2
      <3> QED
        BY <3>1, BlockIs
    <2>4. /\ Block(1) \in ac.temp /\ (Block(1)).n0 = 0 /\ (Block(1)).j0 = 0 /\ (Block(1)).j1 = NK
          /\ Block(n) \in ac.temp /\ (Block(n)).n1 = n
      <3>1. 1 - 1 = 0
        OBVIOUS
      <3> QED
        BY <2>1, <2>2, <3>1, BlockIs
    <2>5. PICK lo \in ac.temp : lo.n0 = 0 /\ lo.j0 = 0 /\ lo.j1 = NK
      BY <2>4
    <2>6. PICK hi \in ac.temp : hi.n1 = n
      BY <2>4
    <2>7. NK <= NK /\ 0 <= 0
      BY Numbers
    <2>8. Glue(ac.temp, TRUE) = {[n0 |-> lo.n0, n1 |-> hi.n1, j0 |-> lo.j0, j1 |-> lo.j1,
                                  full |-> TRUE, ok |-> TRUE]}
      <3>1. \A f \in ac.temp : /\ f.ok /\ lo.n0 <= f.n0 /\ f.n1 <= hi.n1
                               /\ lo.j0 <= f.j0 /\ f.j1 <= lo.j1
        BY <2>3, <2>5, <2>6, <2>7
      <3>2. PICK G \in SUBSET AFiles : G = ac.temp
        BY <1>1
      <3>3. lo \in G /\ hi \in G /\ \A f \in G : f.ok
        BY <3>1, <3>2
      <3>4. (\A f \in G : lo.n0 <= f.n0) /\ (\A f \in G : f.n1 <= hi.n1)
        BY <3>1, <3>2
      <3>5. (\A f \in G : lo.j0 <= f.j0) /\ (\A f \in G : f.j1 <= lo.j1)
        BY <3>1, <3>2
      <3>6. Glue(G, TRUE) = {[n0 |-> lo.n0, n1 |-> hi.n1, j0 |-> lo.j0, j1 |-> lo.j1,
                              full |-> TRUE, ok |-> TRUE]}
        BY <3>3, <3>4, <3>5, Glued
      <3> QED
        BY <3>2, <3>6, Zenon
    <2>9. Glue(ac.temp, TRUE) = {Whole}
      BY <2>2, <2>5, <2>6, <2>8 DEF Whole
    <2>10. disk' = [disk EXCEPT !.A = @ \cup {Whole}] /\ Run("lingen", 0) /\ UNCHANGED faults /\ Unit
      <3>1. disk' = [disk EXCEPT !.A = @ \cup Glue(ac.temp, TRUE)] /\ UNCHANGED faults /\ Unit
        BY DEF AcollectRename
      <3>2. Run("lingen", 0)
        BY <1>7 DEF AcollectRename
      <3> QED
        BY <2>9, <3>1, <3>2
    <2>11. /\ disk'.X = disk.X /\ disk'.C = disk.C /\ disk'.V = disk.V /\ disk'.Fs = disk.Fs
           /\ disk'.A = {Whole}
      BY <1>1, <2>1, <2>10 DEF Disks
    <2>12. prog' = "lingen" /\ UNCHANGED <<faults, par>>
      BY <2>10 DEF Run, Unit
    <2> QED
      BY <1>1, <2>11, <2>12, AcollectEnds
  <1> QED
    BY <1>3, <1>6, <1>7

-----------------------------------------------------------------------------
(* mksol.                                                                  *)

\* What holds of a group of mksol does not depend on the others.
LEMMA OtherSums ==
    ASSUME DiskInv, NEW g \in Groups, NEW h \in Groups \ {g}, NEW pc, Step(g, pc), MksolGroup(h), Kept',
           s'[h] = s[h], vec'[h] = vec[h], disk'.V[h] = disk.V[h], disk'.S[h] = disk.S[h]
    PROVE  MksolGroup(h)'
  <1>1. at'[h] = at[h] /\ start' = start /\ par' = par
    BY DEF Step, Unit, DiskInv, MemorySound
  <1> QED
    BY <1>1 DEF MksolGroup, SumsDone, DataDone, GoesAway

\* A step of a group of mksol.
LEMMA MksolMoves ==
    ASSUME DiskInv, MksolRight, prog = "mksol", NEW g \in Groups, NEW pc, Step(g, pc), Kept', MksolGroup(g)',
           \A h \in Groups \ {g} : /\ s'[h] = s[h] /\ vec'[h] = vec[h]
                                   /\ disk'.V[h] = disk.V[h] /\ disk'.S[h] = disk.S[h],
           disk'.F = disk.F, disk'.X = disk.X, disk'.C = disk.C, disk'.Fs = disk.Fs
    PROVE  RunRight' /\ prog' # "idle"
  <1>1. prog' = "mksol"
    BY DEF Step
  <1>2. \A h \in Groups : MksolGroup(h)'
    BY OtherSums DEF MksolRight
  <1>3. MksolRight'
    BY <1>2 DEF MksolRight, Solvable
  <1> QED
    BY <1>1, <1>3 DEF RunRight

\* mksol fails at once only if the parameters have let V.0 go.
LEMMA LoadMksolRight ==
    ASSUME DiskInv, RunRight, NEW g \in Groups, LoadMksol(g)
    PROVE  RunRight' /\ (prog' = "idle" => EndRight')
  <1>1. prog = "mksol" /\ at[g] = "load" /\ MksolRight /\ MksolGroup(g)
    BY DEF LoadMksol, RunRight, MksolRight
  <1>2. s[g] = start /\ start \in Iters /\ disk.V[g][start] \in {None, start}
    BY <1>1, InLoop DEF GroupSound, MksolGroup
  <1>3. CASE disk.V[g][start] = None
    <2>1. Fail
      BY <1>3 DEF LoadMksol, pi_load_file
    <2>2. GoesAway /\ Kept
      BY <1>1, <1>3 DEF MksolGroup
    <2> QED
      BY <2>1, <2>2, FailEnds
  <1>4. CASE disk.V[g][start] # None
    <2>1. disk.V[g][start] = start /\ start # Cut
      BY <1>2, <1>4, Marks
    <2>2. disk.X # None /\ pi_load_file(disk.C) /\ disk.Fs[g] # None /\ pi_load_file(disk.V[g][start])
      BY <1>1, <1>4 DEF MksolRight, Solvable, pi_load_file, Right, None
    <2>3. /\ vec' = [vec EXCEPT ![g] = disk.V[g][start]] /\ Step(g, "chunk")
          /\ UNCHANGED <<s, disk, faults>>
      BY <2>2 DEF LoadMksol
    <2>4. at'[g] = "chunk" /\ vec'[g] = start
      BY <2>1, <2>3, InLoop DEF Step, DiskInv, MemorySound
    <2>5. \A h \in Groups \ {g} : vec'[h] = vec[h]
      BY <2>3, InLoop
    <2>6. SumsDone(g)' = SumsDone(g)
      BY <1>1, <2>3, <2>4 DEF SumsDone, DataDone
    <2>7. MksolGroup(g)'
      BY <1>1, <2>1, <2>3, <2>4, <2>6 DEF MksolGroup
    <2>8. Kept'
      BY <1>1, <2>3 DEF MksolRight, Kept, NoSums
    <2> QED
      BY <1>1, <2>3, <2>5, <2>7, <2>8, MksolMoves
  <1> QED
    BY <1>3, <1>4

LEMMA ChunkMksolRight ==
    ASSUME Usual, DiskInv, RunRight, NEW g \in Groups, ChunkMksol(g)
    PROVE  RunRight' /\ (prog' = "idle" => EndRight')
  <1>1. prog = "mksol" /\ at[g] = "chunk" /\ MksolRight /\ MksolGroup(g) /\ Checked(g, "S")
    BY DEF ChunkMksol, RunRight, MksolRight
  <1>2. vec[g] # Cut
    BY <1>1 DEF MksolGroup
  <1>3. CASE prog' = "idle" /\ exit' = "failed" /\ faults' > 0
    BY <1>3 DEF RunRight, EndRight
  <1>4. CASE /\ vec' = [vec EXCEPT ![g] = s[g] + 1] /\ vec'[g] = s[g] + 1 /\ s[g] + 1 # Cut
             /\ Step(g, "S") /\ UNCHANGED <<s, disk, faults>>
    <2>1. at'[g] = "S"
      BY <1>4 DEF Step, DiskInv, MemorySound
    <2>2. \A h \in Groups \ {g} : vec'[h] = vec[h]
      BY <1>4, InLoop
    <2>3. SumsDone(g)' = SumsDone(g)
      BY <1>1, <1>4, <2>1 DEF SumsDone, DataDone
    <2>4. MksolGroup(g)'
      BY <1>1, <1>4, <2>1, <2>3 DEF MksolGroup
    <2>5. Kept'
      BY <1>1, <1>4 DEF MksolRight, Kept, NoSums
    <2> QED
      BY <1>1, <1>4, <2>2, <2>4, <2>5, MksolMoves
  <1> QED
    BY <1>1, <1>2, <1>3, <1>4, CheckedRight

\* The sum of an interval is put on disk: from then on there are sums.
LEMMA SaveRight ==
    ASSUME Usual, DiskInv, RunRight, NEW g \in Groups, OpenS(g) \/ CloseS(g)
    PROVE  RunRight' /\ prog' # "idle"
  <1> DEFINE k == s[g] + 1
  <1>1. /\ prog = "mksol" /\ at[g] \in {"S", "S2"} /\ MksolRight /\ MksolGroup(g)
        /\ UNCHANGED <<s, vec, faults>>
    BY DEF OpenS, CloseS, RunRight, MksolRight
  <1>2. disk \in Disks /\ disk.S \in [Groups -> [Iters -> Contents]] /\ s[g] \in Nat
    BY InLoop DEF Disks
  <1>3. /\ k \in Iters /\ sumOf(g) \in IF k \in 1..NS THEN {Cut, k} ELSE {0}
        /\ k \in 1..NS => sumOf(g) = k
    <2>1. disk.Fs[g] = Right /\ vec[g] # Cut
      BY <1>1 DEF MksolRight, Solvable, MksolGroup
    <2> QED
      BY <1>1, <2>1, SumOf
  <1>4. sumOf(g) # None
    BY <1>3, Marks
  <1>5. PICK x, pc :
          /\ disk' = [disk EXCEPT !.S[g][k] = x] /\ Step(g, pc) /\ x # None
          /\ \/ at[g] = "S" /\ pc = "S2"
             \/ at[g] = "S2" /\ pc = "V" /\ x = sumOf(g)
    <2>1. CASE CloseS(g)
      BY <1>4, <2>1 DEF CloseS
    <2>2. CASE OpenS(g)
      <3> DEFINE x == IF sumOf(g) = 0 /\ disk.S[g][k] = None THEN 0
                      ELSE pi_save_file_begin(disk.S[g][k], sumOf(g))
      <3>1. x # None
        BY <1>4, Marks DEF pi_save_file_begin
      <3>2. disk' = [disk EXCEPT !.S[g][k] = x] /\ Step(g, "S2") /\ at[g] = "S"
        BY <2>2 DEF OpenS
      <3> HIDE DEF x
      <3> QED
        BY <3>1, <3>2
    <2> QED
      BY <2>1, <2>2
  <1>6. /\ disk'.F = disk.F /\ disk'.X = disk.X /\ disk'.C = disk.C /\ disk'.Fs = disk.Fs
        /\ disk'.V = disk.V /\ disk'.A = disk.A
        /\ disk'.S = [disk.S EXCEPT ![g][k] = x]
    BY <1>2, <1>5 DEF Disks
  <1>7. /\ \A h \in Groups \ {g} : disk'.S[h] = disk.S[h]
        /\ \A l \in Iters : disk'.S[g][l] = IF l = k THEN x ELSE disk.S[g][l]
    BY <1>2, <1>3, <1>6
  <1>8. Kept'
    <2>1. disk'.S[g][k] # None
      BY <1>3, <1>5, <1>7
    <2> QED
      BY <1>3, <2>1 DEF Kept, NoSums
  <1>9. at'[g] = pc
    BY <1>5 DEF Step, DiskInv, MemorySound
  <1>10. SumsDone(g) = s[g] /\ SumsDone(g)' = IF pc = "V" THEN k ELSE s[g]
    BY <1>1, <1>5, <1>9 DEF SumsDone, DataDone
  <1> HIDE DEF k
  <1>11. k = s[g] + 1
    BY DEF k
  <1>12. 1..NS \subseteq Iters /\ \A l \in Iters : l \in Nat
    BY Numbers
  <1>13. CASE pc = "S2"
    <2>1. \A l \in 1..NS : l <= s[g] => disk'.S[g][l] = l
      BY <1>1, <1>2, <1>7, <1>10, <1>11, <1>12 DEF MksolGroup
    <2>2. \A l \in Iters : disk'.S[g][l] # None => l <= s[g] \/ l = s[g] + 1
      BY <1>1, <1>7, <1>10, <1>11 DEF MksolGroup
    <2> QED
      <3>1. MksolGroup(g)'
        BY <1>1, <1>9, <1>10, <1>13, <2>1, <2>2 DEF MksolGroup
      <3> QED
        BY <1>1, <1>5, <1>6, <1>7, <1>8, <3>1, MksolMoves
  <1>14. CASE pc = "V" /\ x = sumOf(g)
    <2>1. \A l \in 1..NS : l <= k => disk'.S[g][l] = l
      <3> SUFFICES ASSUME NEW l \in 1..NS, l <= k PROVE disk'.S[g][l] = l
        OBVIOUS
      <3>1. CASE l = k
        BY <1>3, <1>7, <1>14, <3>1
      <3>2. CASE l # k
        <4>1. l <= s[g] /\ l \in Iters
          BY <1>2, <1>11, <1>12, <3>2
        <4> QED
          BY <1>1, <1>7, <1>10, <3>2, <4>1 DEF MksolGroup
      <3> QED
        BY <3>1, <3>2
    <2>2. \A l \in Iters : disk'.S[g][l] # None => l <= k
      <3> SUFFICES ASSUME NEW l \in Iters, disk'.S[g][l] # None, l # k PROVE l <= k
        BY <1>2, <1>11
      <3>1. l <= s[g] \/ l = s[g] + 1
        BY <1>1, <1>7, <1>10 DEF MksolGroup
      <3> QED
        BY <1>2, <1>11, <1>12, <3>1
    <2>3. disk'.S[g][k] # None
      BY <1>3, <1>5, <1>7
    <2> QED
      <3>1. MksolGroup(g)'
        BY <1>1, <1>9, <1>10, <1>14, <2>1, <2>2, <2>3 DEF MksolGroup
      <3> QED
        BY <1>1, <1>5, <1>6, <1>7, <1>8, <3>1, MksolMoves
  <1> QED
    BY <1>5, <1>13, <1>14

\* The vectors that mksol writes and removes: it only needs those in memory.
LEMMA MksolVectors ==
    ASSUME Usual, DiskInv, RunRight, prog = "mksol", NEW g \in Groups, OpenV(g) \/ CloseV(g) \/ Discard(g)
    PROVE  RunRight' /\ prog' # "idle"
  <1>1. at[g] \in {"V", "V2", "roll"} /\ MksolRight /\ MksolGroup(g) /\ vec' = vec
    BY DEF OpenV, CloseV, Discard, RunRight, MksolRight
  <1>2. disk \in Disks /\ disk.V \in [Groups -> [Iters -> Contents]] /\ s[g] \in Nat /\ NS \in Nat
    BY InLoop, Numbers DEF Disks
  <1>3. PICK k, x, pc :
          /\ disk' = disk \/ disk' = [disk EXCEPT !.V[g][k] = x]
          /\ Step(g, pc)
          /\ \/ s' = s /\ pc \in {"V2", "roll"}
             \/ /\ at[g] = "roll" /\ s' = [s EXCEPT ![g] = @ + 1] /\ pc \in {"chunk", "end"}
                /\ pc = "end" => s[g] >= NS \/ s[g] = NS - 1
    <2>1. CASE OpenV(g)
      BY <2>1 DEF OpenV
    <2>2. CASE CloseV(g)
      BY <2>2 DEF CloseV
    <2>3. CASE Discard(g)
      <3> DEFINE gone == IF par.keep = 0 THEN {} ELSE keep_rolling_checkpoints(g, s[g] + 1)
                 next == IF s[g] >= NS \/ (s[g] = NS - 1 /\ ~par.exact) THEN "end" ELSE "chunk"
      <3>1. \/ /\ disk' = [disk EXCEPT !.V[g][Min(gone)] = None] /\ Step(g, "roll") /\ s' = s
            \/ s' = [s EXCEPT ![g] = @ + 1] /\ Step(g, next) /\ disk' = disk /\ at[g] = "roll"
        BY <2>3 DEF Discard
      <3>2. next \in {"chunk", "end"} /\ (next = "end" => s[g] >= NS \/ s[g] = NS - 1)
        OBVIOUS
      <3> HIDE DEF gone, next
      <3> QED
        BY <3>1, <3>2
    <2> QED
      BY <2>1, <2>2, <2>3
  <1>4. /\ disk'.F = disk.F /\ disk'.X = disk.X /\ disk'.C = disk.C /\ disk'.Fs = disk.Fs
        /\ disk'.S = disk.S /\ disk'.A = disk.A
        /\ \A h \in Groups \ {g} : disk'.V[h] = disk.V[h]
    <2>1. CASE disk' = [disk EXCEPT !.V[g][k] = x]
      <3>1. /\ disk'.F = disk.F /\ disk'.X = disk.X /\ disk'.C = disk.C /\ disk'.Fs = disk.Fs
            /\ disk'.S = disk.S /\ disk'.A = disk.A /\ disk'.V = [disk.V EXCEPT ![g][k] = x]
        BY <1>2, <2>1 DEF Disks
      <3> QED
        BY <1>2, <3>1
    <2> QED
      BY <1>3, <2>1
  <1>5. at'[g] = pc
    BY <1>3 DEF Step, DiskInv, MemorySound
  <1>6. \A h \in Groups \ {g} : s'[h] = s[h] /\ vec'[h] = vec[h]
    BY <1>1, <1>3, InLoop
  <1>7. s'[g] = (IF s' = s THEN s[g] ELSE s[g] + 1) /\ (pc \in {"chunk", "end"} => s'[g] = s[g] + 1)
    BY <1>3, InLoop
  <1>8. SumsDone(g) = s[g] + 1 /\ SumsDone(g)' = s[g] + 1
    <2>1. SumsDone(g) = s[g] + 1
      BY <1>1 DEF SumsDone, DataDone
    <2>2. CASE s' = s /\ pc \in {"V2", "roll"}
      <3>1. at'[g] \in {"V", "V2", "roll"} /\ s'[g] = s[g]
        BY <1>5, <2>2
      <3> QED
        BY <2>1, <3>1 DEF SumsDone, DataDone
    <2>3. CASE pc \in {"chunk", "end"}
      <3>1. at'[g] \notin {"V", "V2", "roll"} /\ s'[g] = s[g] + 1
        BY <1>5, <1>7, <2>3
      <3> QED
        BY <2>1, <3>1 DEF SumsDone, DataDone
    <2> QED
      BY <1>3, <2>1, <2>2, <2>3
  <1>9. MksolGroup(g)'
    <2>1. pc \in {"V2", "roll", "chunk", "end"} /\ (pc = "end" => s'[g] >= NS)
      BY <1>2, <1>3, <1>7
    <2>2. \A l \in Iters : disk.S[g][l] # None => l <= s[g] + 1
      BY <1>1, <1>8, Numbers DEF MksolGroup
    <2>3. \A l \in 1..NS : l <= s[g] + 1 => disk.S[g][l] = l
      BY <1>1, <1>8 DEF MksolGroup
    <2>4. disk.S[g][s[g] + 1] # None /\ vec[g] # Cut
      BY <1>1, <1>8 DEF MksolGroup
    <2> QED
      BY <1>1, <1>4, <1>5, <1>8, <2>1, <2>2, <2>3, <2>4 DEF MksolGroup
  <1>10. Kept'
    BY <1>1, <1>4 DEF MksolRight, Kept, NoSums
  <1> QED
    BY <1>1, <1>3, <1>4, <1>6, <1>9, <1>10, MksolMoves

\* mksol ends: all sums are there.
LEMMA MksolEnds ==
    ASSUME DiskInv, RunRight, LoopEnd, prog = "mksol"
    PROVE  RunRight' /\ prog' # "idle"
  <1>1. /\ MksolRight /\ NS \in Nat
        /\ \A g \in Groups : at[g] = "end" /\ MksolGroup(g)
    BY Numbers DEF LoopEnd, RunRight, MksolRight
  <1>2. prog' = "gather" /\ disk' = disk
    BY DEF LoopEnd, Run
  <1>3. ASSUME NEW g \in Groups
        PROVE  /\ s[g] \in Iters /\ disk.S[g][s[g]] # None
               /\ \A k \in 1..NS : disk.S[g][k] = k
    <2>1. s[g] \in Iters /\ s[g] \in Nat /\ SumsDone(g) = s[g] /\ s[g] >= NS
      BY <1>1, InLoop DEF SumsDone, DataDone, MksolGroup
    <2>2. \A k \in 1..NS : k <= s[g]
      BY <1>1, <2>1
    <2> QED
      BY <1>1, <2>1, <2>2 DEF MksolGroup
  <1>4. GatherRight
    <2>1. Solvable
      BY <1>1 DEF MksolRight
    <2>2. PICK g \in Groups : s[g] \in Iters /\ disk.S[g][s[g]] # None
      BY <1>3, GroupNumbers
    <2>3. ~NoSums
      BY <2>2 DEF NoSums
    <2>4. \A h \in Groups, k \in 1..NS : disk.S[h][k] = k
      BY <1>3
    <2> QED
      BY <2>1, <2>3, <2>4 DEF GatherRight
  <1>5. GatherRight'
    BY <1>2, <1>4 DEF GatherRight, Solvable, NoSums
  <1> QED
    BY <1>2, <1>5 DEF RunRight

-----------------------------------------------------------------------------
(* Kills.                                                                  *)

\* The files of krylov are in order when every block has its last vector at the
\* same interval and the dot products up to there.
LEMMA VectorsHealthy ==
    ASSUME last_cp("S") = None, NEW m \in Iters, last_cp("V") = m,
           disk.X = Right, disk.C = Right, FirstRight, NoFs, ~GoesAway,
           \A g \in Groups : disk.V[g][m] = m,
           \/ disk.A = {Whole} /\ NK <= m
           \/ /\ Tiles(disk.A)
              /\ \A g \in Groups, j \in 1..NK : j <= m =>
                   \E f \in disk.A : f.full /\ f.ok /\ f.n1 = g /\ f.j0 < j /\ j <= f.j1
              /\ \A f \in disk.A : IF f.j1 <= m THEN f.full /\ f.ok ELSE f.j0 = m /\ f.j1 = m + 1,
           disk.A \in SUBSET AFiles
    PROVE  Healthy
  <1>1. m # None /\ m \in Nat /\ NK \in Nat
    BY Marks, Numbers
  <1>2. Min({m, NK}) \in Nat /\ Min({m, NK}) <= m /\ Min({m, NK}) <= NK
    <2>1. {m, NK} \in SUBSET Nat /\ {m, NK} # {}
      BY <1>1
    <2>2. PICK k : k = Min({m, NK})
      OBVIOUS
    <2>3. k \in {m, NK} /\ \A j \in {m, NK} : k <= j
      BY <2>1, <2>2, LeastNat
    <2> QED
      BY <1>1, <2>2, <2>3
  <1>3. ASSUME NEW g \in Groups, NEW j \in 1..Min({m, NK}) PROVE <<g, j>> \in AData
    <2>1. j \in 1..NK /\ j <= m /\ 1 <= j
      BY <1>1, <1>2
    <2>2. PICK f \in disk.A : f.full /\ f.ok /\ Covers(f, g, j)
      <3>1. CASE disk.A = {Whole}
        <4>1. g \in (0 + 1)..Cardinality(Groups) /\ j \in (0 + 1)..NK
          BY <2>1, BlockNumbers
        <4>2. Covers(Whole, g, j)
          BY <4>1, BlockIs DEF Covers
        <4> QED
          BY <3>1, <4>2, BlockIs
      <3>2. CASE disk.A # {Whole}
        <4>1. PICK f \in disk.A : f.full /\ f.ok /\ f.n1 = g /\ f.j0 < j /\ j <= f.j1
          BY <2>1, <3>2
        <4>2. f.n1 = f.n0 + 1 /\ f.n0 \in Nat /\ f.j0 \in Nat /\ f.j1 \in Nat
          BY <3>2, FileNumbers DEF Tiles
        <4>3. g \in (f.n0 + 1)..f.n1 /\ j \in (f.j0 + 1)..f.j1
          BY <2>1, <4>1, <4>2
        <4> QED
          BY <4>1, <4>3 DEF Covers
      <3> QED
        BY <3>1, <3>2
    <2> QED
      BY <2>1, <2>2 DEF AData
  <1>4. Groups \X (1..Min({m, NK})) \subseteq AData
    <2> SUFFICES ASSUME NEW p \in Groups \X (1..Min({m, NK})) PROVE p \in AData
      OBVIOUS
    <2>1. p[1] \in Groups /\ p[2] \in 1..Min({m, NK}) /\ p = <<p[1], p[2]>>
      OBVIOUS
    <2> QED
      BY <1>3, <2>1
  <1>5. disk.A = {Whole} \/ Tiles(disk.A)
    OBVIOUS
  <1>6. \A f \in disk.A : IF f.j1 <= m THEN f.full /\ f.ok
                          ELSE f.j0 = m /\ f.j1 = m + 1 /\ f.n1 = f.n0 + 1
    BY BlockIs DEF Tiles
  <1>7. \A g \in Groups : /\ disk.V[g][m] = m /\ disk.V[g][0] = 0 /\ disk.Fs[g] = None
                          /\ (par.keep = 0 \/ par.precious # 0)
    BY DEF FirstRight, NoFs, GoesAway
  <1> QED
    BY <1>4, <1>5, <1>6, <1>7 DEF Healthy

\* Outside of the windows all groups have their last vector and their last sum at
\* the same interval.
LEMMA SameLast ==
    ASSUME ~Window, NEW T \in {"V", "S"}, last_cp(T) # None
    PROVE  /\ last_cp(T) \in Iters
           /\ \A g \in Groups : /\ disk[T][g][last_cp(T)] # None
                                /\ \A k \in Iters : disk[T][g][k] # None => k <= last_cp(T)
  <1>1. PICK m : m = last_cp(T)
    OBVIOUS
  <1>2. /\ m \in Iters
        /\ \E g \in Groups : disk[T][g][m] # None
        /\ \A g \in Groups, k \in Iters : disk[T][g][k] # None => k <= m
    <2>1. CASE T = "V"
      BY <1>1, <2>1, LastVector
    <2>2. CASE T = "S"
      BY <1>1, <2>2, LastSum
    <2> QED
      BY <2>1, <2>2
  <1>3. PICK h \in Groups : disk[T][h][m] # None
    BY <1>2
  <1>4. \A g \in Groups : maxOf(disk[T], g) = maxOf(disk[T], h)
    <2>1. \A g \in Groups : maxOf(disk.V, g) = maxOf(disk.V, h) /\ maxOf(disk.S, g) = maxOf(disk.S, h)
      BY DEF Window
    <2>2. CASE T = "V"
      BY <2>1, <2>2
    <2>3. CASE T = "S"
      BY <2>1, <2>3
    <2> QED
      BY <2>2, <2>3
  <1>5. PICK d : d = disk[T]
    OBVIOUS
  <1>6. maxOf(d, h) = m
    <2>1. PICK l : l = maxOf(d, h)
      OBVIOUS
    <2>2. l \in Iters /\ m <= l /\ d[h][l] # None
      BY <1>2, <1>3, <1>5, <2>1, LastOf
    <2>3. l <= m
      BY <1>2, <1>5, <2>2
    <2>4. l \in Nat /\ m \in Nat
      BY <1>2, <2>2, Numbers
    <2>5. l = m
      BY <2>2, <2>3, <2>4
    <2> QED
      BY <2>1, <2>5
  <1>7. \A g \in Groups : d[g][m] # None
    <2> SUFFICES ASSUME NEW g \in Groups PROVE d[g][m] # None
      OBVIOUS
    <2>1. maxOf(d, g) = m
      BY <1>4, <1>5, <1>6
    <2>2. m # None
      BY <1>2, Marks
    <2> QED
      BY <2>1, <2>2, LastOf
  <1> QED
    BY <1>1, <1>2, <1>5, <1>7

\* A kill once there are sums: gather or mksol can go on.
LEMMA KilledLate ==
    ASSUME DiskInv, SumsInv, RunRight, prog # "idle", ~Window, last_cp("S") # None
    PROVE  Healthy
  <1>1. PICK m : m = last_cp("S")
    OBVIOUS
  <1>2. m \in Iters /\ m # None /\ \A g \in Groups : disk.S[g][m] # None
    BY <1>1, SameLast
  <1>3. ~NoSums
    BY <1>2, GroupNumbers DEF NoSums
  <1>4. prog \in {"mksol", "gather", "cleanup"}
    BY <1>3 DEF SumsInv, DiskInv, MemorySound, Progs
  <1>5. \A g \in Groups : disk.V[g][m] = m
    BY <1>1, <1>2 DEF Window
  <1>6. Solvable
    BY <1>4 DEF RunRight, MksolRight, GatherRight
  <1>7. ASSUME NEW g \in Groups, NEW k \in 1..NS, k <= m PROVE disk.S[g][k] = k
    <2>1. CASE prog \in {"gather", "cleanup"}
      BY <2>1 DEF RunRight, GatherRight
    <2>2. CASE prog = "mksol"
      <3>1. MksolGroup(g)
        BY <2>2 DEF RunRight, MksolRight
      <3>2. at[g] # "S2"
        BY DEF Window
      <3>3. m <= SumsDone(g)
        BY <1>2, <3>1, <3>2 DEF MksolGroup
      <3>4. SumsDone(g) \in Nat /\ m \in Nat
        BY <1>2, InLoop, Numbers DEF SumsDone, DataDone
      <3>5. k <= SumsDone(g)
        BY <1>7, <3>3, <3>4
      <3> QED
        BY <3>1, <3>5 DEF MksolGroup
    <2> QED
      BY <1>4, <2>1, <2>2
  <1> QED
    BY <1>1, <1>2, <1>5, <1>6, <1>7 DEF Healthy, Solvable

\* A kill of krylov.
LEMMA KilledKrylov ==
    ASSUME Usual, DiskInv, KrylovRight, prog = "krylov", faults = 0, ~Window,
           last_cp("S") = None, last_cp("V") # None
    PROVE  Healthy
  <1>1. PICK m : m = last_cp("V")
    OBVIOUS
  <1>2. /\ m \in Iters /\ m # None /\ m \in Nat
        /\ \A g \in Groups : /\ disk.V[g][m] # None
                             /\ \A k \in Iters : disk.V[g][k] # None => k <= m
    BY <1>1, SameLast, Numbers
  <1>3. ~GoesAway
    BY <1>1, <1>2 DEF Window, GoesAway
  <1>4. ASSUME NEW g \in Groups
        PROVE  m = SavedAt(g) /\ start <= m /\ disk.V[g][m] = m
    <2>1. KrylovGroup(g) /\ at[g] # "V2" /\ s[g] \in Nat /\ s[g] \in Iters /\ start \in Nat
      BY InLoop, Numbers DEF KrylovRight, Window
    <2>2. SavedAt(g) \in Iters /\ SavedAt(g) \in Nat /\ s[g] <= SavedAt(g)
      <3>1. CASE at[g] = "roll"
        <4>1. s[g] + 1 \in Iters
          BY <3>1, NextNumber DEF AfterChunk
        <4> QED
          BY <2>1, <3>1, <4>1 DEF SavedAt
      <3>2. CASE at[g] # "roll"
        BY <2>1, <3>2 DEF SavedAt
      <3> QED
        BY <3>1, <3>2
    <2>3. SavedAt(g) <= m
      BY <1>2, <2>1, <2>2 DEF KrylovGroup
    <2>4. m <= SavedAt(g)
      <3>1. m <= s[g] \/ (m = s[g] + 1 /\ at[g] = "roll")
        BY <1>2, <2>1 DEF KrylovGroup
      <3>2. CASE m <= s[g]
        BY <1>2, <2>1, <2>2, <3>2
      <3>3. CASE m = s[g] + 1 /\ at[g] = "roll"
        BY <1>2, <3>3 DEF SavedAt
      <3> QED
        BY <3>1, <3>2, <3>3
    <2>5. m = SavedAt(g)
      BY <1>2, <2>2, <2>3, <2>4
    <2>6. start <= m
      <3>1. start <= s[g]
        BY <2>1 DEF KrylovGroup
      <3> QED
        BY <1>2, <2>1, <2>2, <2>3, <3>1
    <2>7. disk.V[g][m] # Cut
      BY <1>2, <2>1, <2>6 DEF KrylovGroup
    <2>8. disk.V[g][m] \in {None, Cut, m}
      BY <1>2 DEF DiskInv, FilesSound, Unseen, Usual
    <2> QED
      BY <1>2, <2>5, <2>6, <2>7, <2>8
  <1>5. CASE disk.A = {Whole} /\ NK <= start
    <2>1. NK <= m
      <3>1. start <= m
        BY <1>4, GroupNumbers
      <3>2. start \in Nat /\ NK \in Nat
        BY InLoop, GroupNumbers, Numbers
      <3> QED
        BY <1>2, <1>5, <3>1, <3>2
    <2> QED
      BY <1>1, <1>2, <1>3, <1>4, <1>5, <2>1, MemoryTyped, VectorsHealthy DEF KrylovRight
  <1>6. CASE Tiles(disk.A) /\ \A g \in Groups : DataRight(g)
    <2>1. ASSUME NEW g \in Groups
          PROVE  /\ DataDone(g) \in Nat /\ m <= DataDone(g)
                 /\ m = DataDone(g) \/ (at[g] = "V" /\ DataDone(g) = m + 1 /\ s[g] = m)
      <3>1. s[g] \in Nat /\ at[g] # "V2" /\ m = SavedAt(g)
        BY <1>4, InLoop DEF Window
      <3> QED
        BY <1>2, <3>1 DEF SavedAt, DataDone
    <2>2. ASSUME NEW g \in Groups, NEW j \in 1..NK, j <= m
          PROVE  \E f \in disk.A : f.full /\ f.ok /\ f.n1 = g /\ f.j0 < j /\ j <= f.j1
      <3>1. DataRight(g) /\ j \in Nat /\ j <= DataDone(g)
        BY <1>2, <1>6, <2>1, <2>2, Numbers
      <3>2. PICK f \in disk.A : f.n1 = g /\ f.j0 < j /\ j <= f.j1
        BY <3>1 DEF DataRight, Covered
      <3>3. f.j0 \in Nat
        BY MemoryTyped, FileNumbers
      <3>4. f.j0 # DataDone(g)
        BY <2>1, <3>1, <3>2, <3>3
      <3>5. Sound(f)
        BY <3>1, <3>2, <3>4 DEF DataRight
      <3> QED
        BY <3>2, <3>5 DEF Sound
    <2>3. ASSUME NEW f \in disk.A
          PROVE  IF f.j1 <= m THEN f.full /\ f.ok ELSE f.j0 = m /\ f.j1 = m + 1
      <3>1. /\ f \in AFiles /\ f.n1 = f.n0 + 1 /\ f.j0 < f.j1
            /\ f.n0 \in Nat /\ f.n1 \in Nat /\ f.j0 \in Nat /\ f.j1 \in Nat /\ f.n1 <= Max(Groups)
        BY <1>6, MemoryTyped, FileNumbers DEF Tiles
      <3>2. PICK g \in Groups : g = f.n1
        BY <3>1, BlockNumbers
      <3>3. IF f.j1 <= DataDone(g) THEN Sound(f) ELSE f.j0 = DataDone(g) /\ f.j1 = f.j0 + 1
        BY <1>6, <3>2 DEF DataRight
      <3>4. CASE f.j1 <= m
        <4>1. f.j1 <= DataDone(g)
          BY <1>2, <2>1, <3>1, <3>4
        <4>2. Sound(f)
          BY <3>3, <4>1
        <4> QED
          BY <3>4, <4>2 DEF Sound
      <3>5. CASE ~(f.j1 <= m) /\ m = DataDone(g)
        BY <3>3, <3>5
      <3>6. CASE ~(f.j1 <= m) /\ at[g] = "V" /\ DataDone(g) = m + 1 /\ s[g] = m
        <4>1. PICK h \in disk.A : h.n1 = g /\ h.j0 = m /\ h.j1 = m + 1
          BY <1>6, <3>6 DEF DataRight
        <4>2. f = h
          <5>1. CASE f.j1 <= m + 1
            <6>1. ~(f.j1 <= h.j0) /\ ~(h.j1 <= f.j0)
              BY <1>2, <3>1, <3>6, <4>1, <5>1
            <6> QED
              BY <1>6, <3>2, <4>1, <6>1 DEF Tiles
          <5>2. CASE ~(f.j1 <= m + 1)
            BY <1>6, <3>2, <3>6, <5>2 DEF DataRight
          <5> QED
            BY <5>1, <5>2
        <4> QED
          BY <3>6, <4>1, <4>2
      <3> QED
        BY <2>1, <3>4, <3>5, <3>6
    <2> QED
      BY <1>1, <1>2, <1>3, <1>4, <1>6, <2>2, <2>3, MemoryTyped, VectorsHealthy DEF KrylovRight
  <1> QED
    BY <1>5, <1>6 DEF KrylovRight

\* A kill of acollect, lingen or split.
LEMMA KilledCollecting ==
    ASSUME Usual, DiskInv, Iterated, NoFs, faults = 0, ~Window,
           disk.A = {Whole} \/ Collecting,
           last_cp("S") = None, last_cp("V") # None
    PROVE  Healthy
  <1>1. PICK m : m = last_cp("V")
    OBVIOUS
  <1>2. /\ m \in Iters /\ m # None /\ m \in Nat /\ NK \in Nat
        /\ \A g \in Groups : /\ disk.V[g][m] # None
                             /\ \A k \in Iters : disk.V[g][k] # None => k <= m
    BY <1>1, SameLast, Numbers
  <1>3. ~GoesAway
    BY <1>1, <1>2 DEF Window, GoesAway
  <1>4. ASSUME NEW g \in Groups PROVE disk.V[g][m] = m /\ NK <= m
    <2>1. PICK k \in Iters : k >= NK /\ disk.V[g][k] = k /\ \A l \in Iters : disk.V[g][l] # None => l <= k
      BY DEF Iterated
    <2>2. k <= m /\ m <= k /\ k \in Nat
      BY <1>2, <2>1, Marks, Numbers
    <2>3. k = m
      BY <1>2, <2>2
    <2> QED
      BY <2>1, <2>3
  <1>5. NK <= m
    BY <1>4, GroupNumbers
  <1>6. CASE disk.A = {Whole}
    BY <1>1, <1>2, <1>3, <1>4, <1>5, <1>6, MemoryTyped, VectorsHealthy DEF Iterated
  <1>7. CASE Collecting
    <2>1. Pieces = disk.A
      BY DEF Window, Pieces
    <2>2. /\ Tiles(disk.A) /\ \A g \in Groups : Covered(disk.A, g, NK)
          /\ \A f \in disk.A : Sound(f)
      BY <1>7, <2>1 DEF Collecting
    <2>3. ASSUME NEW g \in Groups, NEW j \in 1..NK
          PROVE  \E f \in disk.A : f.full /\ f.ok /\ f.n1 = g /\ f.j0 < j /\ j <= f.j1
      <3>1. j <= NK /\ Covered(disk.A, g, NK)
        BY <1>2, <2>2
      <3>2. PICK f \in disk.A : f.n1 = g /\ f.j0 < j /\ j <= f.j1
        BY <3>1 DEF Covered
      <3> QED
        BY <2>2, <3>2 DEF Sound
    <2>4. ASSUME NEW f \in disk.A PROVE f.j1 <= m /\ f.full /\ f.ok
      <3>1. f.j1 <= NK /\ f.j1 \in Nat
        BY MemoryTyped, FileNumbers
      <3> QED
        BY <1>2, <1>5, <2>2, <3>1 DEF Sound
    <2> QED
      BY <1>1, <1>2, <1>3, <1>4, <2>2, <2>3, <2>4, MemoryTyped, VectorsHealthy DEF Iterated
  <1> QED
    BY <1>6, <1>7

\* A kill outside of the windows leaves the files in order.
LEMMA KilledHealthy ==
    ASSUME Usual, DiskInv, SumsInv, RunRight, prog # "idle", faults = 0, ~Window
    PROVE  Healthy
  <1>1. CASE last_cp("S") # None
    BY <1>1, KilledLate
  <1>2. CASE last_cp("S") = None /\ last_cp("V") = None
    BY <1>2 DEF Healthy
  <1>3. CASE last_cp("S") = None /\ last_cp("V") # None
    <2>1. NoSums /\ ~NoVectors
      <3>1. NoSums
        BY <1>3, LastSum, Marks
      <3>2. PICK m \in Iters, g \in Groups : disk.V[g][m] # None
        BY <1>3, LastVector
      <3> QED
        BY <3>1, <3>2 DEF NoVectors
    <2>2. prog \in Progs \ {"idle"}
      BY DEF DiskInv, MemorySound
    <2>3. prog \notin {"prep", "secure", "gather", "cleanup"}
      BY <2>1 DEF RunRight, PrepRight, SecureRight, GatherRight
    <2>4. prog # "splity"
      <3> SUFFICES ASSUME prog = "splity" PROVE FALSE
        OBVIOUS
      <3>1. ac.done = {}
        BY DEF Window
      <3>2. NoVectors
        BY <3>1 DEF RunRight, SplityRight, NoVectors
      <3> QED
        BY <2>1, <3>2
    <2>5. prog # "mksol"
      <3> SUFFICES ASSUME prog = "mksol" PROVE FALSE
        OBVIOUS
      <3>1. \A g \in Groups : disk.Fs[g] = Right /\ disk.Fs[g] # None
        BY DEF RunRight, MksolRight, Solvable, Right, None
      <3> QED
        BY <1>3, <3>1, GroupNumbers DEF Window
    <2>6. CASE prog = "krylov"
      BY <1>3, <2>6, KilledKrylov DEF RunRight
    <2>7. CASE prog = "acollect"
      BY <1>3, <2>7, KilledCollecting DEF RunRight, AcollectRight
    <2>8. CASE prog = "lingen"
      BY <1>3, <2>8, KilledCollecting DEF RunRight, LingenRight
    <2>9. CASE prog = "splitf"
      <3>1. NoFs
        BY <1>3, <2>9 DEF Window, NoFs
      <3> QED
        BY <1>3, <2>9, <3>1, KilledCollecting DEF RunRight, SplitfRight
    <2> QED
      BY <2>2, <2>3, <2>4, <2>5, <2>6, <2>7, <2>8, <2>9 DEF Progs
  <1> QED
    BY <1>1, <1>2, <1>3

\* What a start of the script finds depends on the files only.
LEMMA SameHealthy ==
    ASSUME disk' = disk, par' = par
    PROVE  Healthy' <=> Healthy
  <1>1. last_cp("S")' = last_cp("S") /\ last_cp("V")' = last_cp("V") /\ AData' = AData
    BY DEF last_cp, AData
  <1> QED
    BY <1>1 DEF Healthy

LEMMA KillRight ==
    ASSUME Usual, DiskInv, SumsInv, RunRight, Kill
    PROVE  RunRight' /\ EndRight'
  <1>1. /\ prog # "idle" /\ prog' = "idle" /\ exit' = "killed" /\ hit' = Window
        /\ disk' = disk /\ par' = par /\ faults' = faults
    BY DEF Kill, Stop
  <1>2. ASSUME ~hit', faults' = 0 PROVE Healthy'
    BY <1>1, <1>2, KilledHealthy, SameHealthy
  <1> QED
    BY <1>1, <1>2 DEF RunRight, EndRight

-----------------------------------------------------------------------------
(* The invariant, and what follows from it.                                *)

LEMMA GroupRight ==
    ASSUME Usual, DiskInv, RunRight, NEW g \in Groups, GroupStep(g)
    PROVE  RunRight' /\ (prog' = "idle" => EndRight')
  <1>1. CASE Load(g) \/ LoadMksol(g)
    BY <1>1, LoadRight, LoadMksolRight
  <1>2. CASE Chunk(g) \/ ChunkMksol(g)
    BY <1>2, ChunkRight, ChunkMksolRight
  <1>3. CASE OpenA(g) \/ CloseA(g)
    BY <1>3, DataStepRight
  <1>4. CASE OpenS(g) \/ CloseS(g)
    BY <1>4, SaveRight
  <1>5. CASE OpenV(g) \/ CloseV(g) \/ Discard(g)
    <2>1. prog \in {"krylov", "mksol"}
      BY <1>5 DEF OpenV, CloseV, Discard, Looping
    <2> QED
      BY <1>5, <2>1, OpenVRight, CloseVRight, DiscardRight, MksolVectors
  <1> QED
    BY <1>1, <1>2, <1>3, <1>4, <1>5 DEF GroupStep

LEMMA ProgramRight ==
    ASSUME Usual, DiskInv, SumsInv, RunRight, Program
    PROVE  RunRight' /\ (prog' = "idle" => EndRight')
  <1>1. CASE Prep \/ Secure
    BY <1>1, PrepareRight
  <1>2. CASE SplitY \/ SplitF
    BY <1>2, SplitYRight, SplitFRight
  <1>3. CASE LoopEnd
    <2>1. prog \in {"krylov", "mksol"}
      BY <1>3 DEF LoopEnd, Looping
    <2> QED
      BY <1>3, <2>1, KrylovEnds, MksolEnds
  <1>4. CASE AcollectMerge \/ AcollectCat
    BY <1>4, AcollectMergeRight, AcollectCatRight
  <1>5. CASE AcollectAcross \/ AcollectRename
    BY <1>5, AcollectAcrossRight, AcollectRenameRight
  <1>6. CASE Lingen \/ bw_commit_f
    BY <1>6, LingenStepRight
  <1>7. CASE Gather
    BY <1>7, GatherStepRight
  <1>8. CASE Cleanup
    BY <1>8, CleanupStepRight
  <1>9. CASE \E g \in Groups : GroupStep(g)
    BY <1>9, GroupRight
  <1> QED
    BY <1>1, <1>2, <1>3, <1>4, <1>5, <1>6, <1>7, <1>8, <1>9 DEF Program

\* A run has no result before it ends.
LEMMA NoResultYet ==
    ASSUME DiskInv, prog # "idle" => exit = "none", [Next]_vars
    PROVE  prog' # "idle" => exit' = "none"
  <1>1. ASSUME NEW p, NEW i, Run(p, i) PROVE exit' = "none"
    BY <1>1 DEF Run
  <1>2. ASSUME NEW how, Stop(how) PROVE prog' = "idle"
    BY <1>2 DEF Stop
  <1>3. Fail => prog' = "idle"
    BY <1>2 DEF Fail
  <1>4. ASSUME NEW g, NEW pc, Step(g, pc) PROVE prog' = prog /\ exit' = exit
    BY <1>4 DEF Step
  <1>5. ASSUME NEW name, NEW v, NEW next, splitWrite(name, v, next) PROVE prog' # "idle" => exit' = "none"
    BY <1>1, <1>3, <1>5 DEF splitWrite
  <1>6. CASE Complete
    BY <1>1, <1>6 DEF Complete
  <1>7. CASE Prep \/ Secure \/ SplitY \/ SplitF
    BY <1>1, <1>5, <1>7 DEF Prep, Secure, SplitY, SplitF
  <1>8. CASE LoopEnd \/ AcollectMerge \/ AcollectCat \/ AcollectAcross
    BY <1>1, <1>3, <1>8 DEF LoopEnd, AcollectMerge, AcollectCat, AcollectAcross
  <1>9. CASE AcollectRename
    <2>1. \/ UNCHANGED <<prog, exit>>
          \/ Stop("failed")
          \/ Run("lingen", 0)
      <3>1. CASE ac.rc = 0
        BY <1>9, <3>1 DEF AcollectRename
      <3>2. CASE ac.rc = 1
        BY <1>9, <3>2 DEF AcollectRename
      <3>3. CASE ac.rc = 2
        BY <1>9, <3>3 DEF AcollectRename
      <3> QED
        BY <3>1, <3>2, <3>3, MemoryTyped
    <2> QED
      BY <1>1, <1>2, <1>9, <2>1
  <1>10. CASE Lingen \/ bw_commit_f \/ Gather \/ Cleanup
    BY <1>1, <1>2, <1>3, <1>10 DEF Lingen, bw_commit_f, Gather, Cleanup
  <1>11. CASE \E g \in Groups : GroupStep(g)
    <2>1. PICK g \in Groups : GroupStep(g)
      BY <1>11
    <2>2. CASE Load(g) \/ LoadMksol(g)
      BY <1>3, <1>4, <2>2 DEF Load, LoadMksol
    <2>3. CASE Chunk(g) \/ ChunkMksol(g)
      BY <1>2, <1>4, <2>3 DEF Chunk, ChunkMksol, Checked
    <2>4. CASE OpenA(g) \/ CloseA(g) \/ OpenS(g) \/ CloseS(g) \/ OpenV(g) \/ CloseV(g) \/ Discard(g)
      BY <1>4, <2>4 DEF OpenA, CloseA, OpenS, CloseS, OpenV, CloseV, Discard
    <2> QED
      BY <2>1, <2>2, <2>3, <2>4 DEF GroupStep
  <1>12. CASE Kill
    BY <1>2, <1>12 DEF Kill
  <1>13. CASE UNCHANGED vars
    BY <1>13 DEF vars
  <1> QED
    BY <1>6, <1>7, <1>8, <1>9, <1>10, <1>11, <1>12, <1>13 DEF Next, Program

\* Only a start of the script looks whether the files are in order.
LEMMA SameOrder == Program => healthy' = healthy
  <1> SUFFICES ASSUME Program PROVE healthy' = healthy
    OBVIOUS
  <1>1. ASSUME Unit \/ Fail \/ \E g, pc : Step(g, pc) PROVE healthy' = healthy
    BY <1>1 DEF Unit, Fail, Step
  <1>2. ASSUME NEW name, NEW v, NEW next, splitWrite(name, v, next) PROVE healthy' = healthy
    BY <1>1, <1>2 DEF splitWrite
  <1>3. CASE Prep \/ Secure \/ SplitY \/ SplitF \/ LoopEnd
    BY <1>1, <1>2, <1>3 DEF Prep, Secure, SplitY, SplitF, LoopEnd
  <1>4. CASE AcollectMerge \/ AcollectCat \/ AcollectAcross \/ AcollectRename
    BY <1>1, <1>4 DEF AcollectMerge, AcollectCat, AcollectAcross, AcollectRename
  <1>5. CASE Lingen \/ bw_commit_f \/ Gather \/ Cleanup
    BY <1>1, <1>5 DEF Lingen, bw_commit_f, Gather, Cleanup
  <1>6. CASE \E g \in Groups : GroupStep(g)
    <2>1. PICK g \in Groups : GroupStep(g)
      BY <1>6
    <2>2. CASE Load(g) \/ LoadMksol(g)
      BY <1>1, <2>2 DEF Load, LoadMksol
    <2>3. CASE Chunk(g) \/ ChunkMksol(g)
      BY <1>1, <2>3 DEF Chunk, ChunkMksol, Checked
    <2>4. CASE OpenA(g) \/ CloseA(g) \/ OpenS(g) \/ CloseS(g) \/ OpenV(g) \/ CloseV(g) \/ Discard(g)
      BY <1>1, <2>4 DEF OpenA, CloseA, OpenS, CloseS, OpenV, CloseV, Discard
    <2> QED
      BY <2>1, <2>2, <2>3, <2>4 DEF GroupStep
  <1> QED
    BY <1>3, <1>4, <1>5, <1>6 DEF Program

\* Nothing changes when nothing happens.
LEMMA StillRight ==
    ASSUME UNCHANGED <<par, disk, prog, at, s, vec, start, ac, exit, faults, hit>>,
           RunRight, prog = "idle" => EndRight
    PROVE  RunRight' /\ (prog' = "idle" => EndRight')
  <1>1. /\ par' = par /\ disk' = disk /\ prog' = prog /\ at' = at /\ s' = s /\ vec' = vec
        /\ start' = start /\ ac' = ac /\ exit' = exit /\ faults' = faults /\ hit' = hit
    OBVIOUS
  <1>2. PrepRight' = PrepRight /\ SecureRight' = SecureRight /\ SplityRight' = SplityRight
    BY <1>1 DEF PrepRight, SecureRight, SplityRight, NoVectors, NoFs
  <1>3. KrylovRight' = KrylovRight
    <2>1. \A g \in Groups : KrylovGroup(g)' = KrylovGroup(g) /\ DataRight(g)' = DataRight(g)
      BY <1>1 DEF KrylovGroup, DataRight, SavedAt, DataDone, Sound
    <2>2. FirstRight' = FirstRight /\ NoFs' = NoFs
      BY <1>1 DEF FirstRight, NoFs, GoesAway
    <2> QED
      BY <1>1, <2>1, <2>2 DEF KrylovRight
  <1>4. Iterated' = Iterated /\ NoFs' = NoFs /\ Collecting' = Collecting
    BY <1>1 DEF Iterated, FirstRight, GoesAway, NoFs, Collecting, Pieces, Sound
  <1>5. /\ AcollectRight' = AcollectRight /\ LingenRight' = LingenRight /\ SplitfRight' = SplitfRight
    BY <1>1, <1>4 DEF AcollectRight, LingenRight, SplitfRight
  <1>6. MksolRight' = MksolRight /\ GatherRight' = GatherRight
    BY <1>1 DEF MksolRight, GatherRight, MksolGroup, Solvable, Kept, NoSums, SumsDone, DataDone, GoesAway
  <1>7. EndRight' = EndRight
    <2>1. Healthy' = Healthy
      BY <1>1, SameHealthy DEF Healthy
    <2> QED
      BY <1>1, <2>1 DEF EndRight, NoVectors, NoSums, Kept, GoesAway
  <1> QED
    BY <1>1, <1>2, <1>3, <1>5, <1>6, <1>7 DEF RunRight

\* The invariant holds at first, and every step keeps it.
LEMMA RecoveryInit == Init => RecoveryInv
  <1> SUFFICES ASSUME Init PROVE RecoveryInv
    OBVIOUS
  <1>1. /\ prog = "idle" /\ exit = "none"
        /\ \A g \in Groups, k \in Iters : disk.V[g][k] = None /\ disk.S[g][k] = None
    BY DEF Init, NoFiles
  <1>2. SumsInv
    BY <1>1 DEF SumsInv
  <1>3. RunRight /\ EndRight
    BY <1>1 DEF RunRight, EndRight, NoVectors
  <1> QED
    BY <1>1, <1>2, <1>3 DEF RecoveryInv

LEMMA RecoveryNext == Usual /\ DiskInv /\ RecoveryInv /\ [Next]_vars => RecoveryInv'
  <1> SUFFICES ASSUME Usual, DiskInv, RecoveryInv, [Next]_vars PROVE RecoveryInv'
    OBVIOUS
  <1>1. SumsInv /\ SumsInv'
    BY NextSums DEF RecoveryInv
  <1>2. prog' # "idle" => exit' = "none"
    BY NoResultYet DEF RecoveryInv
  <1>3. ASSUME healthy' PROVE RunRight' /\ (prog' = "idle" => EndRight')
    <2>1. CASE Complete
      BY <1>1, <1>3, <2>1, CompleteRight
    <2>2. CASE Program
      <3>1. healthy' = healthy
        BY <2>2, SameOrder
      <3>2. RunRight
        BY <1>3, <3>1 DEF RecoveryInv
      <3> QED
        BY <1>1, <2>2, <3>2, ProgramRight
    <2>3. CASE Kill
      <3>1. healthy' = healthy
        BY <2>3 DEF Kill
      <3>2. RunRight
        BY <1>3, <3>1 DEF RecoveryInv
      <3> QED
        BY <1>1, <2>3, <3>2, KillRight
    <2>4. CASE UNCHANGED vars
      <3>1. /\ par' = par /\ disk' = disk /\ prog' = prog /\ at' = at /\ s' = s /\ vec' = vec
            /\ start' = start /\ ac' = ac /\ exit' = exit /\ faults' = faults
            /\ healthy' = healthy /\ hit' = hit
        BY <2>4 DEF vars
      <3>2. RunRight /\ (prog = "idle" => EndRight)
        BY <1>3, <3>1 DEF RecoveryInv
      <3> QED
        BY <3>1, <3>2, StillRight
    <2> QED
      BY <2>1, <2>2, <2>3, <2>4 DEF Next
  <1> QED
    BY <1>1, <1>2, <1>3 DEF RecoveryInv

-----------------------------------------------------------------------------
(* What the invariant says of restarts.                                    *)

\* As long as there are no sums, the dot products up to the last vector are there.
LEMMA NothingLost ==
    ASSUME Usual, DiskInv, RecoveryInv
    PROVE  ResumeLosesNoData
  <1> SUFFICES ASSUME NEW g \in Groups,
                      prog \in {"idle", "krylov"}, last_cp("S") = None, faults = 0,
                      maxOf(disk.V, g) > 0, maxOf(disk.V, g) <= NK, ~hit, healthy,
                      NEW j \in 1..maxOf(disk.V, g)
               PROVE  <<g, j>> \in AData
    BY DEF ResumeLosesNoData
  <1>1. PICK m : m = maxOf(disk.V, g)
    OBVIOUS
  <1>2. m \in Iters /\ m \in Nat /\ disk.V[g][m] # None
    <2>1. ~(None > 0)
      BY DEF None
    <2> QED
      BY <1>1, <2>1, LastOf, Numbers
  <1>3. j \in Nat /\ 1 <= j /\ j <= m /\ j \in 1..NK /\ m <= NK /\ NK \in Nat
    BY <1>1, <1>2, Numbers
  <1>4. RunRight /\ (prog = "idle" => EndRight)
    BY DEF RecoveryInv
  <1>5. NoSums
    BY LastSum, Marks
  <1>6. ASSUME NEW f \in disk.A, f.full, f.ok, g \in (f.n0 + 1)..f.n1, j \in (f.j0 + 1)..f.j1
        PROVE  <<g, j>> \in AData
    BY <1>3, <1>6 DEF AData, Covers
  <1>7. ASSUME disk.A = {Whole} PROVE <<g, j>> \in AData
    <2>1. g \in (Whole.n0 + 1)..Whole.n1 /\ j \in (Whole.j0 + 1)..Whole.j1
      BY <1>3, BlockIs, BlockNumbers
    <2> QED
      BY <1>6, <1>7, <2>1, BlockIs
  <1>8. CASE prog = "krylov"
    <2>1. KrylovRight /\ KrylovGroup(g) /\ s[g] \in Nat
      BY <1>4, <1>8, InLoop DEF RunRight, KrylovRight
    <2>2. CASE Tiles(disk.A) /\ DataRight(g)
      <3>1. m <= DataDone(g) /\ DataDone(g) \in Nat
        <4>1. m <= s[g] \/ (m = s[g] + 1 /\ at[g] \in {"V2", "roll"})
          BY <1>2, <2>1 DEF KrylovGroup
        <4> QED
          BY <1>2, <2>1, <4>1 DEF DataDone
      <3>2. j <= DataDone(g)
        BY <1>2, <1>3, <3>1
      <3>3. PICK f \in disk.A : f.n1 = g /\ f.j0 < j /\ j <= f.j1
        BY <1>3, <2>2, <3>2 DEF DataRight, Covered
      <3>4. f.n1 = f.n0 + 1 /\ f.n0 \in Nat /\ f.j0 \in Nat /\ f.j1 \in Nat
        BY <2>2, MemoryTyped, FileNumbers DEF Tiles
      <3>5. f.j0 # DataDone(g)
        BY <3>1, <3>2, <3>3, <3>4
      <3>6. Sound(f)
        BY <2>2, <3>3, <3>5 DEF DataRight
      <3>7. g \in (f.n0 + 1)..f.n1 /\ j \in (f.j0 + 1)..f.j1
        BY <1>3, <3>3, <3>4
      <3> QED
        BY <1>6, <3>6, <3>7 DEF Sound
    <2> QED
      BY <1>7, <2>1, <2>2 DEF KrylovRight
  <1>9. CASE prog = "idle"
    <2>1. exit # "none" /\ exit # "ok"
      BY <1>2, <1>4, <1>5, <1>9 DEF EndRight, NoVectors
    <2>2. CASE exit = "failed"
      <3>1. ~(0 > 0)
        OBVIOUS
      <3>2. disk.A = {Whole}
        BY <1>4, <1>5, <1>9, <2>2, <3>1 DEF EndRight, Kept
      <3> QED
        BY <1>7, <3>2
    <2>3. CASE exit = "killed"
      <3>1. PICK l : l = last_cp("V")
        OBVIOUS
      <3>2. l \in Iters /\ l # None /\ m <= l
        BY <1>2, <3>1, LastVector, Marks DEF NoVectors
      <3>3. Groups \X (1..Min({l, NK})) \subseteq AData
        BY <1>4, <1>9, <2>3, <3>1, <3>2 DEF EndRight, Healthy
      <3>4. j \in 1..Min({l, NK})
        <4>1. {l, NK} \in SUBSET Nat /\ {l, NK} # {} /\ l \in Nat
          BY <1>3, <3>2, Numbers
        <4>2. PICK k : k = Min({l, NK})
          OBVIOUS
        <4>3. k \in {l, NK}
          BY <4>1, <4>2, LeastNat
        <4>4. j <= k /\ k \in Nat
          BY <1>2, <1>3, <3>2, <4>1, <4>3
        <4> QED
          BY <1>3, <4>2, <4>4
      <3> QED
        BY <3>3, <3>4
    <2> QED
      BY <2>1, <2>2, <2>3 DEF DiskInv, MemorySound
  <1> QED
    BY <1>8, <1>9

LEMMA Recovered ==
    ASSUME Usual, DiskInv, RecoveryInv
    PROVE  RestartsRecover
  <1>1. exit # "none" /\ healthy => EndRight
    BY DEF RecoveryInv
  <1>2. ResumeWorks
    <2>1. exit = "ok" /\ healthy => disk.W = Right
      BY <1>1 DEF EndRight
    <2>2. exit = "failed" /\ healthy => faults > 0 \/ (par.keep # 0 /\ par.precious = 0)
      BY <1>1 DEF EndRight, GoesAway
    <2> QED
      BY <2>1, <2>2 DEF ResumeWorks
  <1>3. KillLeavesFilesInOrder
    BY <1>1 DEF KillLeavesFilesInOrder, EndRight
  <1> QED
    BY <1>2, <1>3, NothingLost DEF RestartsRecover

\* The script can be killed in any state and started again, any number of times,
\* with any number of faults.  A run that found the files in order ends with a
\* solution unless something goes wrong in it or the parameters let krylov remove
\* V.0; a kill outside of the windows leaves the files in order; and whenever a
\* vector is on disk the dot products up to it are there.
THEOREM RestartsKeepTheirPromise == Usual => (Spec => []RestartsRecover)
  <1> SUFFICES ASSUME Usual PROVE Spec => []RestartsRecover
    OBVIOUS
  <1>1. Init => DiskInv /\ RecoveryInv
    BY InitHolds, RecoveryInit
  <1>2. DiskInv /\ RecoveryInv /\ [Next]_vars => DiskInv' /\ RecoveryInv'
    BY NextKeeps, RecoveryNext
  <1>3. DiskInv /\ RecoveryInv => RestartsRecover
    BY Recovered
  <1> QED
    BY <1>1, <1>2, <1>3, PTL DEF Spec
=============================================================================

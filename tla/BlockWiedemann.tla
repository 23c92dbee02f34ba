--------------------------- MODULE BlockWiedemann ---------------------------
(***************************************************************************)
(* The programs of the block Wiedemann algorithm (linalg/bwc: prep,        *)
(* secure, split, krylov, acollect, lingen, mksol, gather, cleanup) as     *)
(* the script bwc.pl runs them (target :complete), through the files they  *)
(* leave in the working directory.  The script and its programs may be     *)
(* killed at any time, a product may go wrong, a write may fail; the       *)
(* script is started again and resumes from the files.                     *)
(*                                                                         *)
(* Iterations are counted in checking intervals (bw->interval): V.k is the *)
(* file of the vector after k intervals, the A file of interval k holds    *)
(* the dot products made in it, S.k what mksol accumulates in the k-th.    *)
(* With interleaving, two groups of threads work on two blocks of columns. *)
(***************************************************************************)
EXTENDS Integers, FiniteSets, FiniteSetsExt

CONSTANTS
  Groups,               \* the blocks of columns of the splits parameter: 1 .. g
  NK,                   \* krylov's end
  NS,                   \* the length of F, in intervals (rounded up)
  Params,               \* keep_rolling_checkpoints, checkpoint_precious, and
                        \* whether the length of F is a multiple of interval
  skip_online_checks,
  Top,                  \* bound: the largest iteration number of a file
  MaxRuns, MaxFaults    \* bounds: runs of the script, faults in all

\* Every run of the script adds at most one interval after the end of F, so that
\* Top has room for what mksol writes.
ASSUME BWAssumption ==
  /\ Cardinality(Groups) \in Nat \ {0} /\ Groups = 1..Cardinality(Groups)
  /\ NK \in Nat /\ NS \in Nat /\ MaxRuns \in Nat /\ MaxFaults \in Nat
  /\ Top \in Nat /\ NK <= Top /\ NS + MaxRuns <= Top
  /\ \A p \in Params : p.keep \in Nat /\ p.precious \in Nat
  /\ skip_online_checks \in BOOLEAN

VARIABLES
  par,      \* the parameters, from Params
  disk,     \* the files
  prog,     \* the running program, or "idle"
  at, s,    \* per group of threads of krylov and mksol: step and interval
  vec,      \* per group: the vector in memory
  start,    \* bw->start
  ac,       \* memory of acollect and split
  exit,     \* how the last run of the script ended
  runs, faults,
  healthy,  \* ghost: what the script found when it was started
  hit       \* ghost: was the last kill in one of the windows of Window

vars == <<par, disk, prog, at, s, vec, start, ac, exit, runs, faults, healthy, hit>>

\* What is in a file, besides the number of intervals done: nothing, a file
\* that is cut short or made from such a file, the result of a wrong product.
None == -1
Cut == -2
Bad == -3
Right == 1

Iters == 0..Top

NoFiles == [X |-> None, C |-> None, V |-> [g \in Groups |-> [k \in Iters |-> None]], A |-> {},
            F |-> None, Fs |-> [g \in Groups |-> None],
            S |-> [g \in Groups |-> [k \in Iters |-> None]], K |-> None, W |-> None]

Idle == [ph |-> "", done |-> {}, temp |-> {}, todo |-> {}, rc |-> 0]

Init ==
  /\ par \in Params
  /\ disk = NoFiles
  /\ prog = "idle" /\ exit = "none" /\ runs = 0 /\ faults = 0 /\ start = 0
  /\ at = [g \in Groups |-> "load"] /\ s = [g \in Groups |-> 0] /\ vec = [g \in Groups |-> None]
  /\ ac = Idle
  /\ healthy = TRUE /\ hit = FALSE

Unit == UNCHANGED <<par, runs, healthy, hit>>
GroupsIdle == UNCHANGED <<at, s, vec, start>>

\* The script goes on with program p; krylov and mksol start at iteration i.
Run(p, i) ==
  /\ prog' = p /\ start' = i /\ exit' = "none" /\ ac' = Idle
  /\ at' = [g \in Groups |-> "load"] /\ s' = [g \in Groups |-> i] /\ vec' = [g \in Groups |-> None]

Stop(how) ==
  /\ prog' = "idle" /\ exit' = how /\ start' = 0 /\ ac' = Idle
  /\ at' = [g \in Groups |-> "load"] /\ s' = [g \in Groups |-> 0] /\ vec' = [g \in Groups |-> None]

\* A program exits with a status that is not zero: so does the script.
Fail == Stop("failed") /\ UNCHANGED <<disk, faults>> /\ Unit

checkpoints(d) == {k \in Iters : \E g \in Groups : d[g][k] # None}

\* The largest number of a checkpoint file, None if there is none.
last_cp(T) == LET cp == checkpoints(disk[T]) IN IF cp = {} THEN None ELSE Max(cp)

-----------------------------------------------------------------------------
\* What a start of the script needs to find on the disk.
Covers(f, g, j) == g \in (f.n0 + 1)..f.n1 /\ j \in (f.j0 + 1)..f.j1
AData == {p \in Groups \X (1..NK) : \E f \in disk.A : f.full /\ f.ok /\ Covers(f, p[1], p[2])}

\* What acollect makes, and what it can make it from: files of one block of
\* columns each, no two with the same data.
Whole == [n0 |-> 0, n1 |-> Cardinality(Groups), j0 |-> 0, j1 |-> NK, full |-> TRUE, ok |-> TRUE]
Tiles(T) ==
  /\ \A f \in T : f.n1 = f.n0 + 1 /\ f.j0 < f.j1
  /\ \A f, h \in T : f.n1 = h.n1 /\ f # h => f.j1 <= h.j0 \/ h.j1 <= f.j0

Healthy ==
  LET sm == last_cp("S")
      vm == last_cp("V")
  IN IF sm # None
     THEN /\ disk.F = Right /\ disk.X = Right /\ disk.C = Right
          /\ \A g \in Groups : /\ disk.Fs[g] = Right /\ disk.V[g][sm] = sm
                               /\ \A k \in 1..NS : k <= sm => disk.S[g][k] = k
     ELSE vm # None =>
          /\ disk.X = Right /\ disk.C = Right
          /\ Groups \X (1..Min({vm, NK})) \subseteq AData
          /\ disk.A = {Whole} \/ Tiles(disk.A)
          /\ \A f \in disk.A : IF f.j1 <= vm THEN f.full /\ f.ok
                              ELSE f.j0 = vm /\ f.j1 = vm + 1 /\ f.n1 = f.n0 + 1
          /\ \A g \in Groups : /\ disk.V[g][vm] = vm /\ disk.V[g][0] = 0 /\ disk.Fs[g] = None
                               /\ (par.keep = 0 \/ par.precious # 0)

-----------------------------------------------------------------------------
\* bwc.pl :complete looks at the checkpoints of mksol, then of krylov; if there
\* are none it wipes the directory and begins with prep.
Complete ==
  /\ prog = "idle" /\ exit # "ok" /\ runs < MaxRuns
  /\ runs' = runs + 1 /\ healthy' = Healthy /\ hit' = FALSE
  /\ IF last_cp("S") # None THEN Run("mksol", last_cp("S")) /\ UNCHANGED disk
     ELSE IF last_cp("V") # None THEN Run("krylov", last_cp("V")) /\ UNCHANGED disk
     ELSE Run("prep", 0) /\ disk' = NoFiles
  /\ UNCHANGED <<par, faults>>

\* prep writes Y and X (Y is the file V is split from), secure the check vector.
Prep ==
  /\ prog = "prep"
  /\ disk' = [disk EXCEPT !.X = Right]
  /\ Run("secure", 0) /\ UNCHANGED faults /\ Unit

Secure ==
  /\ prog = "secure"
  /\ disk' = [disk EXCEPT !.C = Right]
  /\ Run("splity", 0) /\ UNCHANGED faults /\ Unit

\* split refuses to overwrite, and makes a link when there is one block only.
splitWrite(name, v, next) ==
  LET old(g) == IF name = "V" THEN disk.V[g][0] ELSE disk.Fs[g]
      put(G, x) == IF name = "V"
                   THEN [disk EXCEPT !.V = [g \in Groups |-> IF g \in G THEN [@[g] EXCEPT ![0] = x] ELSE @[g]]]
                   ELSE [disk EXCEPT !.Fs = [g \in Groups |-> IF g \in G THEN x ELSE @[g]]]
      rest == Groups \ ac.done
  IN IF rest = {}
     THEN disk' = put(Groups, v) /\ Run(next, 0) /\ UNCHANGED faults /\ Unit
     ELSE IF old(Min(rest)) # None THEN Fail
     ELSE IF Cardinality(Groups) = 1
     THEN disk' = put(Groups, v) /\ Run(next, 0) /\ UNCHANGED faults /\ Unit
     ELSE /\ disk' = put({Min(rest)}, Cut)
          /\ ac' = [ac EXCEPT !.done = @ \cup {Min(rest)}]
          /\ UNCHANGED <<prog, exit, faults>> /\ GroupsIdle /\ Unit

SplitY == prog = "splity" /\ splitWrite("V", 0, "krylov")
SplitF == prog = "splitf" /\ splitWrite("F", disk.F, "mksol")

-----------------------------------------------------------------------------
\* krylov and mksol: the steps of a group of threads.
Looping == prog \in {"krylov", "mksol"}

Step(g, pc) == at' = [at EXCEPT ![g] = pc] /\ UNCHANGED <<start, prog, exit, ac>> /\ Unit

\* A file that cannot be opened ends the program.
pi_load_file(c) == c # None

\* krylov: X, the vector of iteration start and the check vector.
Load(g) ==
  /\ prog = "krylov" /\ at[g] = "load"
  /\ IF disk.X = None \/ ~pi_load_file(disk.V[g][start]) \/ (~skip_online_checks /\ ~pi_load_file(disk.C))
     THEN Fail
     ELSE /\ vec' = [vec EXCEPT ![g] = disk.V[g][start]]
          /\ Step(g, IF start >= NK THEN "end" ELSE "chunk")
          /\ UNCHANGED <<s, disk, faults>>

\* mksol: X and the check vector only for the checks; F is opened in the loop,
\* which goes on until its end is met.
LoadMksol(g) ==
  /\ prog = "mksol" /\ at[g] = "load"
  /\ IF \/ ~pi_load_file(disk.V[g][start]) \/ disk.Fs[g] = None
        \/ ~skip_online_checks /\ (disk.X = None \/ ~pi_load_file(disk.C))
     THEN Fail
     ELSE /\ vec' = [vec EXCEPT ![g] = disk.V[g][start]]
          /\ Step(g, "chunk")
          /\ UNCHANGED <<s, disk, faults>>

times(v) == IF v >= 0 THEN v + 1 ELSE v

\* Mutant of Checked: the check vector is never looked at.
Unchecked(g, next) ==
  \E wrong \in BOOLEAN :
    /\ wrong => faults < MaxFaults
    /\ faults' = faults + (IF wrong THEN 1 ELSE 0)
    /\ vec' = [vec EXCEPT ![g] = IF wrong THEN Bad ELSE times(@)]
    /\ Step(g, next) /\ UNCHANGED <<s, disk>>

\* One interval of products, wrong or not, and the check against the vector
\* that secure made.
Checked(g, next) ==
  \E wrong \in BOOLEAN :
    /\ wrong => faults < MaxFaults
    /\ faults' = faults + (IF wrong THEN 1 ELSE 0)
    /\ IF wrong /\ ~skip_online_checks
       THEN Stop("failed") /\ UNCHANGED disk /\ Unit
       ELSE /\ vec' = [vec EXCEPT ![g] = IF wrong THEN Bad ELSE times(@)]
            /\ Step(g, next) /\ UNCHANGED <<s, disk>>

\* The flips of the interleaving keep the groups together.
flip(g) == \A h \in Groups : at[h] # "load" /\ s[h] >= s[g]

Chunk(g) == prog = "krylov" /\ at[g] = "chunk" /\ flip(g) /\ Checked(g, "A")
ChunkMksol(g) == prog = "mksol" /\ at[g] = "chunk" /\ flip(g) /\ Checked(g, "S")

AFile(g, full, ok) == [n0 |-> g - 1, n1 |-> g, j0 |-> s[g], j1 |-> s[g] + 1, full |-> full, ok |-> ok]
\* fopen with mode "w": what was in the file is gone.
WriteA(g, full, ok) ==
  disk' = [disk EXCEPT !.A = {f \in @ : ~(f.n0 = g - 1 /\ f.n1 = g /\ f.j0 = s[g] /\ f.j1 = s[g] + 1)} \cup {AFile(g, full, ok)}]

OpenA(g) ==
  /\ prog = "krylov" /\ at[g] = "A"
  /\ WriteA(g, FALSE, FALSE) /\ Step(g, "A2") /\ UNCHANGED <<s, vec, faults>>

\* A short write is reported and the program goes on.
CloseA(g) ==
  /\ prog = "krylov" /\ at[g] = "A2"
  /\ \E short \in BOOLEAN :
       /\ short => faults < MaxFaults
       /\ faults' = faults + (IF short THEN 1 ELSE 0)
       /\ WriteA(g, ~short, vec[g] = s[g] + 1)
  /\ Step(g, "V") /\ UNCHANGED <<s, vec>>

\* pi_save_file opens the file without truncating it, extends it and fills it
\* through a map: a file that already holds these data holds them throughout
\* (and a new file is all zero, which is what S holds beyond the end of F).
pi_save_file_begin(old, v) == IF old = v THEN v ELSE Cut

\* What mksol adds up in interval s: nothing beyond the end of F.
sumOf(g) == IF s[g] >= NS THEN 0
            ELSE IF vec[g] = s[g] + 1 /\ disk.Fs[g] = Right THEN s[g] + 1
            ELSE IF vec[g] = Bad THEN Bad ELSE Cut

OpenS(g) ==
  /\ prog = "mksol" /\ at[g] = "S"
  /\ disk' = [disk EXCEPT !.S[g][s[g] + 1] = IF sumOf(g) = 0 /\ @ = None THEN 0 ELSE pi_save_file_begin(@, sumOf(g))]
  /\ Step(g, "S2") /\ UNCHANGED <<s, vec, faults>>

CloseS(g) ==
  /\ prog = "mksol" /\ at[g] = "S2"
  /\ disk' = [disk EXCEPT !.S[g][s[g] + 1] = sumOf(g)]
  /\ Step(g, "V") /\ UNCHANGED <<s, vec, faults>>

\* A checkpoint whose file cannot be made is given up with a warning.
OpenV(g) ==
  /\ Looping /\ at[g] = "V"
  /\ \/ /\ disk' = [disk EXCEPT !.V[g][s[g] + 1] = pi_save_file_begin(@, vec[g])]
        /\ Step(g, "V2") /\ UNCHANGED faults
     \/ /\ faults < MaxFaults /\ faults' = faults + 1
        /\ Step(g, "roll") /\ UNCHANGED disk
  /\ UNCHANGED <<s, vec>>

CloseV(g) ==
  /\ Looping /\ at[g] = "V2"
  /\ disk' = [disk EXCEPT !.V[g][s[g] + 1] = vec[g]]
  /\ Step(g, "roll") /\ UNCHANGED <<s, vec, faults>>

\* Mutant of keep_rolling_checkpoints: multiples of precious are not spared.
roll_all(g, v) ==
  LET vs == {k \in 0..v : disk.V[g][k] # None}
  IN {k \in vs : Cardinality({l \in vs : l > k}) >= par.keep}

\* Mutant of keep_rolling_checkpoints: files already removed are tried again.
roll_again(g, v) ==
  {k \in 0..v : v - k >= par.keep /\ ~(par.precious # 0 /\ k % par.precious = 0)}

\* Of the checkpoints up to v all but the last keep are removed, in increasing
\* order, save those at multiples of precious.
keep_rolling_checkpoints(g, v) ==
  LET vs == {k \in 0..v : disk.V[g][k] # None}
      old == {k \in vs : Cardinality({l \in vs : l > k}) >= par.keep}
  IN {k \in old : ~(par.precious # 0 /\ k % par.precious = 0)}

\* The next file to be removed, one at a time: the program may be killed.
Discard(g) ==
  /\ Looping /\ at[g] = "roll"
  /\ LET gone == IF par.keep = 0 THEN {} ELSE keep_rolling_checkpoints(g, s[g] + 1)
     IN IF gone # {}
        THEN /\ disk' = [disk EXCEPT !.V[g][Min(gone)] = None]
             /\ Step(g, "roll") /\ UNCHANGED s
        ELSE /\ s' = [s EXCEPT ![g] = @ + 1]
             /\ Step(g, IF prog = "krylov" THEN (IF s[g] + 1 >= NK THEN "end" ELSE "chunk")
                        ELSE IF s[g] >= NS \/ (s[g] = NS - 1 /\ ~par.exact) THEN "end" ELSE "chunk")
             /\ UNCHANGED disk
  /\ UNCHANGED <<vec, faults>>

LoopEnd ==
  /\ Looping /\ \A g \in Groups : at[g] = "end"
  /\ IF prog = "krylov" THEN Run("acollect", 0) ELSE Run("gather", 0)
  /\ UNCHANGED <<disk, faults>> /\ Unit

-----------------------------------------------------------------------------
\* acollect --remove-old: first the files of one block of columns after each
\* other, then the files of all blocks side by side.
inconsistent(T, lo, hi) ==
  \/ Cardinality({f[lo] : f \in T}) # Cardinality(T)
  \/ \E f \in T : f[lo] # Min({h[lo] : h \in T}) /\ ~\E h \in T : h[hi] = f[lo]
Sorted(f, h) == f.n0 < h.n0 \/ (f.n0 = h.n0 /\ f.j0 <= h.j0)
First(T) == CHOOSE f \in T : \A h \in T : Sorted(f, h)
Glue(T, full) == {[n0 |-> Min({f.n0 : f \in T}), n1 |-> Max({f.n1 : f \in T}),
                   j0 |-> Min({f.j0 : f \in T}), j1 |-> Max({f.j1 : f \in T}),
                   full |-> full, ok |-> \A f \in T : f.ok]}

\* read_afiles and the loop over the blocks: the next block with several files.
AcollectMerge ==
  /\ prog = "acollect" /\ ac.ph = ""
  /\ LET blocks == {f.n0 : f \in disk.A} \ ac.done
         T == {f \in disk.A : f.n0 = Min(blocks)}
     IN IF \E f \in disk.A : ~f.full THEN Fail
        ELSE IF ac.done = {} /\ Cardinality(disk.A) <= 1
        THEN Run("lingen", 0) /\ UNCHANGED <<disk, faults>> /\ Unit
        ELSE IF blocks # {} /\ inconsistent(T, "j0", "j1") THEN Fail
        ELSE /\ ac' = IF blocks = {} THEN [ac EXCEPT !.ph = "across"]
                      ELSE [ac EXCEPT !.done = @ \cup {Min(blocks)},
                                      !.ph = IF Cardinality(T) = 1 THEN "" ELSE "cat",
                                      !.todo = IF Cardinality(T) = 1 THEN {} ELSE T]
             /\ UNCHANGED <<disk, prog, exit, faults>> /\ GroupsIdle /\ Unit

\* A file is copied to A.temp, then removed.
AcollectCat ==
  /\ prog = "acollect" /\ ac.ph = "cat" /\ ac.todo # {}
  /\ LET f == First(ac.todo)
     IN /\ disk' = [disk EXCEPT !.A = @ \ {f}]
        /\ ac' = [ac EXCEPT !.todo = @ \ {f}, !.temp = @ \cup {f}]
  /\ UNCHANGED <<prog, exit, faults>> /\ GroupsIdle /\ Unit

\* Side by side: the files that begin like the first one must be of the same
\* length; a file that does not fit is left and makes the program fail in the end.
AcollectAcross ==
  /\ prog = "acollect" /\ ac.ph = "across"
  /\ LET T == {f \in disk.A : f.j0 = First(disk.A).j0}
     IN IF Cardinality(disk.A) <= 1
        THEN Run("lingen", 0) /\ UNCHANGED <<disk, faults>> /\ Unit
        ELSE IF inconsistent(T, "n0", "n1") \/ Cardinality({f.j1 : f \in T}) > 1 THEN Fail
        ELSE /\ ac' = [ac EXCEPT !.ph = "cat", !.todo = T, !.rc = IF T = disk.A THEN 2 ELSE 1]
             /\ UNCHANGED <<disk, prog, exit, faults>> /\ GroupsIdle /\ Unit

\* A.temp gets its name.
AcollectRename ==
  /\ prog = "acollect" /\ ac.ph = "cat" /\ ac.todo = {}
  /\ disk' = [disk EXCEPT !.A = @ \cup Glue(ac.temp, TRUE)]
  /\ CASE ac.rc = 0 -> ac' = [ac EXCEPT !.ph = "", !.temp = {}] /\ UNCHANGED <<prog, exit>> /\ GroupsIdle
       [] ac.rc = 1 -> Stop("failed")
       [] ac.rc = 2 -> Run("lingen", 0)
  /\ UNCHANGED faults /\ Unit

\* lingen takes the only A file.  From data that are wrong or too few it may
\* find nothing, or an F that is wrong.
Lingen ==
  /\ prog = "lingen" /\ ac.ph = ""
  /\ \/ /\ \/ Cardinality(disk.A) # 1
           \/ \E f \in disk.A : f.n1 - f.n0 # Cardinality(Groups) \/ ~f.ok \/ f.j1 - f.j0 < NK
        /\ Fail
     \/ /\ \E f \in disk.A : disk.A = {f} /\ f.n1 - f.n0 = Cardinality(Groups)
        /\ disk' = [disk EXCEPT !.F = Cut]
        /\ ac' = [ac EXCEPT !.ph = "F"]
        /\ UNCHANGED <<prog, exit, faults>> /\ GroupsIdle /\ Unit

bw_commit_f ==
  /\ prog = "lingen" /\ ac.ph = "F"
  /\ disk' = [disk EXCEPT !.F = IF \A f \in disk.A : f.ok /\ f.j1 - f.j0 = NK THEN Right ELSE Cut]
  /\ Run("splitf", 0) /\ UNCHANGED faults /\ Unit

\* The S files that gather finds, whatever run they come from.
prelude == {p \in Groups \X Iters : disk.S[p[1]][p[2]] # None}

\* gather adds up all S files it finds and looks for the first product by M
\* that vanishes; without one it says so and ends like a successful run.
Gather ==
  /\ prog = "gather"
  /\ LET good == /\ \A p \in prelude : disk.S[p[1]][p[2]] >= 0
                 /\ \A g \in Groups, c \in 1..NS : Cardinality({p \in prelude : p[1] = g /\ disk.S[g][p[2]] = c}) = 1
     IN disk' = [disk EXCEPT !.K = IF good THEN Right ELSE Cut, !.W = IF good THEN Right ELSE @]
  /\ Run("cleanup", 0) /\ UNCHANGED faults /\ Unit

\* cleanup reduces whatever K files there are, and writes W.
Cleanup ==
  /\ prog = "cleanup"
  /\ disk' = [disk EXCEPT !.W = disk.K]
  /\ Stop("ok") /\ UNCHANGED faults /\ Unit

-----------------------------------------------------------------------------
\* The moments at which a kill leaves files that the next run takes for good,
\* or from which it cannot go on.
maxOf(d, g) == LET ks == {k \in Iters : d[g][k] # None} IN IF ks = {} THEN None ELSE Max(ks)
Window ==
  \/ \E g \in Groups : at[g] \in {"V2", "S2"}                            \* a checkpoint is being written
  \/ prog = "splity" /\ ac.done # {}                                     \* so are the first vectors
  \/ \E g, h \in Groups : maxOf(disk.V, g) # maxOf(disk.V, h)            \* the groups are not at
                          \/ maxOf(disk.S, g) # maxOf(disk.S, h)         \*   the same checkpoint
  \/ ac.temp # {}                                                        \* data are in A.temp only
  \/ prog \in {"splitf", "mksol"} /\ last_cp("S") = None /\ \E g \in Groups : disk.Fs[g] # None   \* split will refuse
  \/ last_cp("S") # None /\ \E g \in Groups : disk.V[g][last_cp("S")] # last_cp("S")  \* S is ahead of V
  \/ last_cp("S") = None /\ last_cp("V") # None /\ par.keep # 0 /\ par.precious = 0  \* V.0 goes away

Kill ==
  /\ prog # "idle"
  /\ Stop("killed") /\ hit' = Window
  /\ UNCHANGED <<par, disk, runs, faults, healthy>>

GroupStep(g) == Load(g) \/ LoadMksol(g) \/ Chunk(g) \/ ChunkMksol(g) \/ OpenA(g) \/ CloseA(g) \/ OpenS(g) \/ CloseS(g)
                \/ OpenV(g) \/ CloseV(g) \/ Discard(g)
Program ==
  \/ Prep \/ Secure \/ SplitY \/ SplitF \/ LoopEnd \/ AcollectMerge \/ AcollectCat \/ AcollectAcross
  \/ AcollectRename \/ Lingen \/ bw_commit_f \/ Gather \/ Cleanup
  \/ \E g \in Groups : GroupStep(g)
Next == Complete \/ Program \/ Kill

Spec == Init /\ [][Next]_vars /\ WF_vars(Program)

-----------------------------------------------------------------------------
\* The types of the state.
Contents == {None, Cut, Bad} \cup Iters
TypeOK ==
  /\ par \in Params
  /\ disk.X \in {None, Right} /\ disk.C \in {None, Right}
  /\ disk.V \in [Groups -> [Iters -> Contents]] /\ disk.S \in [Groups -> [Iters -> Contents]]
  /\ disk.A \subseteq [n0 : 0..Max(Groups), n1 : 0..Max(Groups), j0 : 0..NK, j1 : 0..NK, full : BOOLEAN, ok : BOOLEAN]
  /\ disk.F \in {None, Cut, Right} /\ disk.Fs \in [Groups -> {None, Cut, Right}]
  /\ disk.K \in {None, Cut, Right} /\ disk.W \in {None, Cut, Right}
  /\ at \in [Groups -> {"load", "chunk", "A", "A2", "S", "S2", "V", "V2", "roll", "end"}]
  /\ s \in [Groups -> Iters] /\ vec \in [Groups -> Contents] /\ start \in Iters
  /\ exit \in {"none", "ok", "failed", "killed"} /\ runs \in 0..MaxRuns /\ faults \in 0..MaxFaults

\* krylov and mksol compare the product of the last interval with the check
\* vector before they write anything: a wrong product never reaches a file, and
\* a vector or dot product with the number of another iteration never does either.
FaultsStayOffDisk ==
  ~skip_online_checks =>
    \A g \in Groups, k \in Iters : disk.V[g][k] \in {None, Cut, k} /\ disk.S[g][k] \in {None, Cut, 0, k}

\* The A file of an interval is written before the vector at its end: whenever a
\* vector is on disk, krylov can be resumed there without losing a dot product,
\* unless the vector itself was cut or an A file was written short.
ResumeLosesNoData ==
  \A g \in Groups :
    LET vm == maxOf(disk.V, g)
    IN (/\ prog \in {"idle", "krylov"} /\ last_cp("S") = None /\ faults = 0
        /\ vm > 0 /\ vm <= NK /\ ~hit /\ healthy)
       => \A j \in 1..vm : <<g, j>> \in AData

\* A run of the script that finds its files in order ends with a solution of the
\* linear system: it does not fail unless something goes wrong in this run or the
\* parameters let krylov discard V.0, and what it writes is right in any case.
ResumeWorks ==
  /\ exit = "ok" /\ healthy => disk.W = Right
  /\ exit = "failed" /\ healthy => faults > 0 \/ (par.keep # 0 /\ par.precious = 0)

\* A kill of a run that began with its files in order leaves them in order, save
\* in the windows listed above.
KillLeavesFilesInOrder ==
  exit = "killed" /\ healthy /\ ~hit /\ faults = 0 => Healthy

\* Every run of the script ends.
RunsEnd == []<>(prog = "idle")

\* The type of the state, and no wrong value in a file.
DiskSound == TypeOK /\ FaultsStayOffDisk

\* Whatever was killed, the next run finds what it needs and loses nothing.
RestartsRecover == ResumeLosesNoData /\ ResumeWorks /\ KillLeavesFilesInOrder

====

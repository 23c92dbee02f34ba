------------------------ MODULE DistributeTaskProofs ------------------------
(***************************************************************************)
(* What holds of distribute_task for every number of hosts and cores,      *)
(* every range and any number of failures: the output files and their      *)
(* count, the processes on the hosts and their list, and the work that is  *)
(* never thrown away.                                                      *)
(***************************************************************************)
EXTENDS DistributeTask, RangesProofs

(***************************************************************************)
(* Finite sums.  A non-empty family of subsets of a finite set has a       *)
(* smallest element.                                                       *)
(***************************************************************************)
LEMMA SmallestExists ==
    ASSUME NEW S, IsFiniteSet(S), NEW B \in SUBSET SUBSET S, B # {}
    PROVE  \E T \in B : \A U \in SUBSET T : U # T => U \notin B
<1> DEFINE R == StrictSubsetOrdering(S)
<1>1. IsWellFoundedOn(R, FiniteSubsetsOf(S))
  BY FS_StrictSubsetOrderingWellFounded
<1>2. FiniteSubsetsOf(S) = SUBSET S
  BY FS_FiniteSubsetsOfFinite
<1>3. \E T \in B : \A U \in B : ~ (<<U, T>> \in R)
  <2> HIDE DEF R
  <2> QED  BY <1>1, <1>2, WFMin
<1>4. PICK T \in B : \A U \in B : ~ (<<U, T>> \in R)
  BY <1>3
<1>5. ASSUME NEW U \in SUBSET T, U # T, U \in B
      PROVE  FALSE
  <2>1. <<U, T>> \in R
    BY <1>5 DEF StrictSubsetOrdering
  <2> QED  BY <2>1, <1>4, <1>5
<1> QED  BY <1>5

Part(s) == CHOOSE x \in s : TRUE

Parts(f, S, g) ==
    g = [s \in SUBSET S |-> IF s = {} THEN 0 ELSE f[Part(s)] + g[s \ {Part(s)}]]

LEMMA SumIs ==
    ASSUME NEW f, NEW S
    PROVE  SumFunctionOnSet(f, S) = (CHOOSE g : Parts(f, S, g))[S]
  BY DEF SumFunctionOnSet, FoldFunctionOnSet, MapThenFoldSet, Parts, Part

LEMMA PartsAgree ==
    ASSUME NEW f, NEW S, NEW T, NEW g, NEW h, Parts(f, S, g), Parts(f, T, h),
           NEW U \in SUBSET S, U \in SUBSET T, IsFiniteSet(U)
    PROVE  g[U] = h[U]
<1> DEFINE B == {V \in SUBSET U : g[V] # h[V]}
<1> SUFFICES ASSUME B # {} PROVE FALSE
  OBVIOUS
<1>1. PICK V \in B : \A W \in SUBSET V : W # V => W \notin B
  <2>1. B \in SUBSET SUBSET U /\ B # {}
    OBVIOUS
  <2> HIDE DEF B
  <2> QED  BY <2>1, SmallestExists
<1>2. V \in SUBSET S /\ V \in SUBSET T
  OBVIOUS
<1>3. g[V] = IF V = {} THEN 0 ELSE f[Part(V)] + g[V \ {Part(V)}]
  BY <1>2 DEF Parts
<1>4. h[V] = IF V = {} THEN 0 ELSE f[Part(V)] + h[V \ {Part(V)}]
  BY <1>2 DEF Parts
<1>5. V # {}
  BY <1>3, <1>4
<1>6. Part(V) \in V
  BY <1>5 DEF Part
<1>7. V \ {Part(V)} \notin B /\ V \ {Part(V)} \in SUBSET U
  BY <1>1, <1>6
<1>8. g[V \ {Part(V)}] = h[V \ {Part(V)}]
  BY <1>7
<1> QED  BY <1>3, <1>4, <1>8

LEMMA PartsExist ==
    ASSUME NEW f, NEW S, IsFiniteSet(S)
    PROVE  \E g : Parts(f, S, g)
<1> DEFINE B == {T \in SUBSET S : ~ \E g : Parts(f, T, g)}
<1> SUFFICES ASSUME B # {} PROVE FALSE
  OBVIOUS
<1>1. PICK T \in B : \A U \in SUBSET T : U # T => U \notin B
  <2>1. B \in SUBSET SUBSET S /\ B # {}
    OBVIOUS
  <2> HIDE DEF B
  <2> QED  BY <2>1, SmallestExists
<1>2. IsFiniteSet(T) /\ \A U \in SUBSET T : IsFiniteSet(U)
  <2>1. IsFiniteSet(T)
    BY FS_Subset
  <2> QED  BY <2>1, FS_Subset
<1> DEFINE G(U) == CHOOSE g : Parts(f, U, g)
<1>3. \A U \in SUBSET T : U # T => Parts(f, U, G(U))
  BY <1>1
<1> DEFINE g == [s \in SUBSET T |-> IF s = {} THEN 0 ELSE
                   f[Part(s)] + G(s \ {Part(s)})[s \ {Part(s)}]]
<1>4. ASSUME NEW s \in SUBSET T, s # T
      PROVE  g[s] = G(s)[s]
  <2>1. Parts(f, s, G(s))
    BY <1>3, <1>4
  <2> HIDE DEF G
  <2>2. G(s)[s] = IF s = {} THEN 0 ELSE f[Part(s)] + G(s)[s \ {Part(s)}]
    BY <2>1 DEF Parts
  <2>3. CASE s = {}
    BY <2>2, <2>3
  <2>4. CASE s # {}
    <3>1. Part(s) \in s
      BY <2>4 DEF Part
    <3>2. s \ {Part(s)} \in SUBSET T /\ s \ {Part(s)} # T
      BY <3>1
    <3>3. Parts(f, s \ {Part(s)}, G(s \ {Part(s)}))
      BY <3>2, <1>3
    <3>4. G(s)[s \ {Part(s)}] = G(s \ {Part(s)})[s \ {Part(s)}]
      <4>1. IsFiniteSet(s \ {Part(s)})
        BY <3>2, <1>2
      <4> QED  BY <2>1, <3>3, <4>1, PartsAgree
    <3> QED  BY <2>2, <2>4, <3>4
  <2> QED  BY <2>3, <2>4
<1>5. ASSUME NEW s \in SUBSET T, s # {}
      PROVE  g[s] = f[Part(s)] + g[s \ {Part(s)}]
  <2>1. Part(s) \in s
    BY <1>5 DEF Part
  <2>2. s \ {Part(s)} \in SUBSET T /\ s \ {Part(s)} # T
    BY <2>1
  <2>3. g[s \ {Part(s)}] = G(s \ {Part(s)})[s \ {Part(s)}]
    BY <2>2, <1>4
  <2>4. g[s] = f[Part(s)] + G(s \ {Part(s)})[s \ {Part(s)}]
    BY <1>5
  <2> HIDE DEF G, g
  <2> QED  BY <2>3, <2>4
<1>6. g = [s \in SUBSET T |-> g[s]]
  OBVIOUS
<1>7. g[{}] = 0
  OBVIOUS
<1> HIDE DEF g
<1>8. Parts(f, T, g)
  BY <1>5, <1>6, <1>7 DEF Parts
<1> QED  BY <1>8

(***************************************************************************)
(* A finite sum is the value at any element plus the sum over the others.  *)
(***************************************************************************)
Sum(f, S) == SumFunctionOnSet(f, S)

LEMMA SumEmpty == \A f : Sum(f, {}) = 0
<1> TAKE f
<1>1. PICK g : Parts(f, {}, g)
  BY FS_EmptySet, PartsExist
<1>2. Parts(f, {}, CHOOSE h : Parts(f, {}, h))
  BY <1>1
<1>3. (CHOOSE h : Parts(f, {}, h))[{}] = 0
  BY <1>2 DEF Parts
<1> QED  BY <1>3, SumIs DEF Sum

LEMMA SumPart ==
    ASSUME NEW f, NEW S, IsFiniteSet(S), S # {}
    PROVE  Part(S) \in S /\ Sum(f, S) = f[Part(S)] + Sum(f, S \ {Part(S)})
<1> DEFINE T == S \ {Part(S)}
           G(U) == CHOOSE g : Parts(f, U, g)
<1>1. Part(S) \in S
  BY DEF Part
<1>2. IsFiniteSet(T)
  BY FS_Subset
<1>3. Parts(f, S, G(S)) /\ Parts(f, T, G(T))
  <2>1. (\E g : Parts(f, S, g)) /\ (\E g : Parts(f, T, g))
    BY <1>2, PartsExist
  <2> QED  BY <2>1
<1>4. Sum(f, S) = G(S)[S] /\ Sum(f, T) = G(T)[T]
  BY SumIs DEF Sum
<1> HIDE DEF G
<1>5. G(S)[S] = f[Part(S)] + G(S)[T]
  BY <1>3 DEF Parts
<1>6. G(S)[T] = G(T)[T]
  BY <1>2, <1>3, PartsAgree
<1> QED  BY <1>1, <1>4, <1>5, <1>6

LEMMA SumType ==
    ASSUME NEW f, NEW S, IsFiniteSet(S), \A x \in S : f[x] \in Nat
    PROVE  Sum(f, S) \in Nat
<1> DEFINE B == {T \in SUBSET S : Sum(f, T) \notin Nat}
<1> SUFFICES ASSUME B # {} PROVE FALSE
  OBVIOUS
<1>1. PICK T \in B : \A U \in SUBSET T : U # T => U \notin B
  <2>1. B \in SUBSET SUBSET S /\ B # {}
    OBVIOUS
  <2> HIDE DEF B
  <2> QED  BY <2>1, SmallestExists
<1>2. T # {}
  BY SumEmpty
<1>3. IsFiniteSet(T)
  BY FS_Subset
<1>4. Part(T) \in T /\ Sum(f, T) = f[Part(T)] + Sum(f, T \ {Part(T)})
  BY <1>2, <1>3, SumPart
<1>5. T \ {Part(T)} \notin B
  BY <1>1, <1>4
<1>6. Sum(f, T \ {Part(T)}) \in Nat /\ f[Part(T)] \in Nat
  BY <1>5
<1> QED  BY <1>4, <1>6

LEMMA SumSplit ==
    ASSUME NEW f, NEW S, IsFiniteSet(S), \A x \in S : f[x] \in Nat, NEW x \in S
    PROVE  /\ Sum(f, S) \in Nat /\ Sum(f, S \ {x}) \in Nat
           /\ Sum(f, S) = f[x] + Sum(f, S \ {x})
<1> DEFINE B == {T \in SUBSET S : \E y \in T : Sum(f, T) # f[y] + Sum(f, T \ {y})}
<1>0. \A T \in SUBSET S : IsFiniteSet(T) /\ Sum(f, T) \in Nat
  <2> TAKE T \in SUBSET S
  <2>1. IsFiniteSet(T)
    BY FS_Subset
  <2> QED  BY <2>1, SumType
<1>1. SUFFICES ASSUME B # {} PROVE FALSE
  BY <1>0
<1>2. PICK T \in B : \A U \in SUBSET T : U # T => U \notin B
  <2>1. B \in SUBSET SUBSET S /\ B # {}
    BY <1>1
  <2> HIDE DEF B
  <2> QED  BY <2>1, SmallestExists
<1>3. PICK y \in T : Sum(f, T) # f[y] + Sum(f, T \ {y})
  OBVIOUS
<1>4. PICK c : c = Part(T)
  OBVIOUS
<1>5. c \in T /\ Sum(f, T) = f[c] + Sum(f, T \ {c})
  BY <1>0, <1>4, SumPart
<1>6. y # c
  BY <1>3, <1>5
<1> DEFINE V == T \ {y, c}
<1>7. Sum(f, T \ {c}) = f[y] + Sum(f, V)
  <2>1. T \ {c} \notin B /\ y \in T \ {c}
    BY <1>2, <1>5, <1>6
  <2>2. Sum(f, T \ {c}) = f[y] + Sum(f, (T \ {c}) \ {y})
    BY <2>1
  <2>3. (T \ {c}) \ {y} = V
    OBVIOUS
  <2> QED  BY <2>2, <2>3
<1>8. Sum(f, T \ {y}) = f[c] + Sum(f, V)
  <2>1. T \ {y} \notin B /\ c \in T \ {y}
    BY <1>2, <1>3, <1>5, <1>6
  <2>2. Sum(f, T \ {y}) = f[c] + Sum(f, (T \ {y}) \ {c})
    BY <2>1
  <2>3. (T \ {y}) \ {c} = V
    OBVIOUS
  <2> QED  BY <2>2, <2>3
<1>9. Sum(f, V) \in Nat /\ f[c] \in Nat /\ f[y] \in Nat
  BY <1>0, <1>5
<1> QED  BY <1>3, <1>5, <1>7, <1>8, <1>9

(***************************************************************************)
(* Two sums compare as their terms do, however the terms are indexed.      *)
(***************************************************************************)
LEMMA SumInjection ==
    ASSUME NEW S, NEW T, IsFiniteSet(S), IsFiniteSet(T), NEW f, NEW g,
           \A x \in S : f[x] \in Nat, \A y \in T : g[y] \in Nat,
           NEW m \in [S -> T], \A x, y \in S : m[x] = m[y] => x = y,
           \A x \in S : f[x] <= g[m[x]]
    PROVE  Sum(f, S) <= Sum(g, T)
<1> DEFINE Image(U) == {m[x] : x \in U}
           B == {U \in SUBSET S : \E V \in SUBSET T :
                   Image(U) \subseteq V /\ ~(Sum(f, U) <= Sum(g, V))}
<1>0. /\ \A U \in SUBSET S : IsFiniteSet(U) /\ Sum(f, U) \in Nat
      /\ \A V \in SUBSET T : IsFiniteSet(V) /\ Sum(g, V) \in Nat
  <2>1. \A U \in SUBSET S : IsFiniteSet(U)
    BY FS_Subset
  <2>2. \A V \in SUBSET T : IsFiniteSet(V)
    BY FS_Subset
  <2>3. \A U \in SUBSET S : Sum(f, U) \in Nat
    BY <2>1, SumType
  <2>4. \A V \in SUBSET T : Sum(g, V) \in Nat
    BY <2>2, SumType
  <2> QED  BY <2>1, <2>2, <2>3, <2>4
<1>1. SUFFICES ASSUME B # {} PROVE FALSE
  <2>1. Image(S) \subseteq T
    OBVIOUS
  <2>2. S \notin B
    BY <1>1
  <2> QED  BY <2>1, <2>2
<1>2. PICK U \in B : \A W \in SUBSET U : W # U => W \notin B
  <2>1. B \in SUBSET SUBSET S /\ B # {}
    BY <1>1
  <2> HIDE DEF B
  <2> QED  BY <2>1, SmallestExists
<1>3. PICK V \in SUBSET T : Image(U) \subseteq V /\ ~(Sum(f, U) <= Sum(g, V))
  OBVIOUS
<1>4. U # {}
  BY <1>0, <1>3, SumEmpty
<1>5. PICK x : x \in U
  BY <1>4
<1>6. x \in S /\ m[x] \in V /\ U \ {x} \in SUBSET U /\ U \ {x} # U
  BY <1>3, <1>5
<1>7. Image(U \ {x}) \subseteq V \ {m[x]}
  BY <1>3, <1>6
<1>8. Sum(f, U \ {x}) <= Sum(g, V \ {m[x]})
  <2>1. U \ {x} \notin B /\ U \ {x} \in SUBSET S /\ V \ {m[x]} \in SUBSET T
    BY <1>2, <1>6
  <2> HIDE DEF Image
  <2> QED  BY <2>1, <1>7
<1>9. Sum(f, U) = f[x] + Sum(f, U \ {x})
  <2>1. \A y \in U : f[y] \in Nat
    OBVIOUS
  <2> QED  BY <2>1, <1>0, <1>5, SumSplit
<1>10. Sum(g, V) = g[m[x]] + Sum(g, V \ {m[x]})
  <2>1. \A y \in V : g[y] \in Nat
    OBVIOUS
  <2> QED  BY <2>1, <1>0, <1>6, SumSplit
<1>11. /\ f[x] \in Nat /\ g[m[x]] \in Nat /\ f[x] <= g[m[x]]
       /\ Sum(f, U \ {x}) \in Nat /\ Sum(g, V \ {m[x]}) \in Nat
  BY <1>0, <1>6
<1>12. Sum(f, U) <= Sum(g, V)
  <2> HIDE DEF B, Image
  <2> QED  BY <1>8, <1>9, <1>10, <1>11
<1> QED  BY <1>3, <1>12

LEMMA SumAgrees ==
    ASSUME NEW S, IsFiniteSet(S), NEW f, NEW g,
           \A x \in S : f[x] \in Nat /\ g[x] = f[x]
    PROVE  Sum(f, S) = Sum(g, S)
<1> DEFINE m == [x \in S |-> x]
<1>1. /\ m \in [S -> S] /\ \A x, y \in S : m[x] = m[y] => x = y
      /\ \A x \in S : f[x] <= g[m[x]] /\ g[x] <= f[m[x]]
  OBVIOUS
<1>2. \A x \in S : f[x] \in Nat /\ g[x] \in Nat
  OBVIOUS
<1> HIDE DEF m
<1>3. Sum(f, S) <= Sum(g, S)
  BY <1>1, <1>2, SumInjection
<1>4. Sum(g, S) <= Sum(f, S)
  BY <1>1, <1>2, SumInjection
<1>5. Sum(f, S) \in Nat /\ Sum(g, S) \in Nat
  BY <1>2, SumType
<1> QED  BY <1>3, <1>4, <1>5

-----------------------------------------------------------------------------
(***************************************************************************)
(* The states of the master, its files and the processes.                  *)
(***************************************************************************)
ProperJob == {j \in Job : j.lo < j.hi}

ProperFile == {f \in File : f[1] < f[2]}

Proc == [host : Host, lo : Nat, hi : Nat, pid : 1..MaxPid, th : Nat \ {0}, open : BOOLEAN]

\* A set of output files.  A file holds no more numbers than its name says, and
\* one with a trailer all of them.
Fits(f, c) ==
    /\ c \in Content /\ c.q <= NumberOf(f)
    /\ c.end = "total" => c.q = NumberOf(f)

Files(d) ==
    /\ d = [f \in DOMAIN d |-> d[f]]
    /\ DOMAIN d \subseteq ProperFile /\ IsFiniteSet(DOMAIN d)
    /\ \A f \in DOMAIN d : Fits(f, d[f])

JobSet(J) == J \subseteq ProperJob /\ IsFiniteSet(J)

Work ==
    [todo : SUBSET ProperJob, kept : SUBSET ProperJob, fetch : SUBSET ProperJob,
     job : ProperJob \cup {NoJob}, alive : {-1, 0, 1},
     file : ProperFile \cup {<<>>}, files : SUBSET ProperFile,
     back : {"boot", "read", "fetch", "clean"}, gz : BOOLEAN,
     ranges : Seq(Nat \X Nat), hosts : SUBSET Host, host : Host \cup {"none"}, n : Int]

MasterTyped ==
    /\ pc \in Label
    /\ JobSet(jobs) /\ JobSet(disk)
    /\ work \in Work
    /\ IsFiniteSet(work.todo) /\ IsFiniteSet(work.kept) /\ IsFiniteSet(work.fetch)
    /\ nrels \in Nat /\ lastCheck \in 0..nrels

RemoteTyped ==
    /\ rem = [h \in Host |-> rem[h]] /\ \A h \in Host : Files(rem[h])
    /\ IsFiniteSet(procs) /\ \A x \in procs : x \in Proc /\ x.lo < x.hi

Kinds == {"crash", "death", "net", "reboot", "slow"}

\* The master's local variables hold what the code at hand needs.
Checking == {"check", "unlink", "trunc", "mv", "gzip"}

Plain(f) == [f EXCEPT ![3] = FALSE]

WorkShape ==
    /\ pc \in {"tail", "rm", "last"} => work.job \in ProperJob
    /\ pc = "last" => work.back = "clean"
    /\ pc = "rm" => Name(work.job) \in DOMAIN local /\ work.back \in {"fetch", "clean"}
    /\ pc \in Checking \cup {"run"} => work.file \in ProperFile
    /\ pc = "check" => work.gz = work.file[3]
    /\ pc = "unlink" => work.gz /\ work.file[3] /\ Plain(work.file) \in DOMAIN local
    /\ pc \in {"unlink", "trunc", "mv", "gzip", "run"} => work.file \in DOMAIN local
    /\ pc \in {"trunc", "mv", "gzip"} => ~work.file[3]
    /\ pc = "mv" => local[work.file].q # 0
    /\ pc = "start" => Separated(work.ranges) /\ (work.n > 0 => work.host \in Host)

TypeInv ==
    /\ scn \in Scenarios
    /\ MasterTyped /\ Files(local) /\ RemoteTyped
    /\ faults \in [Kinds -> Nat]
    /\ WorkShape

-----------------------------------------------------------------------------
\* The files the master has still to check.
Pending(f) ==
    \/ f \in work.files
    \/ pc \in Checking \cup {"run"} /\ f = work.file
    \/ pc = "unlink" /\ f = Plain(work.file)
    \/ pc = "rm" /\ f = Name(work.job)

\* gzip will find the file it would write, and the master will die.
Gz(f) == [f EXCEPT ![3] = TRUE]

Doomed == pc = "gzip" /\ Gz(work.file) \in DOMAIN local

Whole(f) == local[f].end \in {"total", "marker"} /\ local[f].q = NumberOf(f)

\* After a check the master goes on with the files there were at the start.
FilesLeft ==
    /\ work.files \subseteq DOMAIN local
    /\ pc \notin Checking \cup {"boot"} => work.files = {}
    /\ pc \in Checking /\ work.back # "boot" => work.files = {}
    /\ pc \in Checking => Doomed \/ work.file \notin work.files
    /\ pc = "unlink" => Plain(work.file) \notin work.files

\* A plain file of the sieve is the one being repaired, or was left by a failed
\* gzip next to the compressed one.
Compressed ==
    \A f \in DOMAIN local :
        \/ f[3] = Sieve
        \/ pc \in {"unlink", "trunc", "mv", "gzip"} /\ f = Plain(work.file)
        \/ ~f[3] /\ Whole(f) /\ Gz(f) \in DOMAIN local /\ Whole(Gz(f))

Repairing ==
    /\ pc \in {"unlink", "trunc", "mv", "gzip"} => Sieve /\ work.gz
    /\ pc \in {"unlink", "trunc", "run"} => local[work.file].end = "none"
    /\ pc = "unlink" => local[Plain(work.file)] = local[work.file]
    /\ pc = "mv" => local[work.file].end = "marker" /\ local[work.file].q < NumberOf(work.file)
    /\ pc = "gzip" => Whole(work.file)

\* The number of a recorded file is known.
Recorded(f) == local[f].end \in {"total", "marker"}

Marked ==
    \A f \in DOMAIN local :
        local[f].end = "marker" /\ ~(pc = "mv" /\ f = work.file) => local[f].q = NumberOf(f)

\* At most one file is not recorded, or the two forms of one.
Single ==
    /\ \A f, g \in DOMAIN local :
          ~Recorded(f) /\ ~Recorded(g) =>
             f = g \/ (pc = "unlink" /\ {f, g} = {work.file, Plain(work.file)})
    /\ \A f \in DOMAIN local : pc # "down" /\ ~Pending(f) => Recorded(f)
    /\ pc \in {"mv", "gzip"} => \A f \in DOMAIN local : Recorded(f)

\* The files counted, and the numbers in some of the files d.
Checked == {f \in DOMAIN local : ~Pending(f)}

Numbers(d, S) == SumFunction([f \in S |-> d[f].q])

Counted ==
    /\ pc = "down" => nrels = 0
    /\ pc # "down" /\ Sieve /\ ~Doomed => nrels = Numbers(local, Checked)

\* Only sieve_check writes markers, in the working directory.
NoMarkers == \A h \in Host : \A f \in DOMAIN rem[h] : rem[h][f].end # "marker"

FileInv == FilesLeft /\ Compressed /\ Repairing /\ Marked /\ Single /\ Counted

-----------------------------------------------------------------------------
\* The jobs the master knows of.
Polling == pc \in {"status", "tail", "fetch"} \/ (pc \in Checking \cup {"rm"} /\ work.back = "fetch")

Cleaning == pc \in {"clean", "last"} \/ (pc \in Checking \cup {"rm"} /\ work.back = "clean")

AtHand(l) == IF pc = l THEN {work.job} ELSE {}

Listed ==
    IF Polling THEN work.todo \cup work.kept \cup work.fetch \cup AtHand("tail")
    ELSE IF pc \in {"write1", "close1", "start", "write2", "close2"} THEN jobs
    ELSE disk

\* Those whose output is not fetched yet.
ToFetch == IF Cleaning THEN work.todo \cup AtHand("last") ELSE Listed

JobOf(x) == [host |-> x.host, lo |-> x.lo, hi |-> x.hi, pid |-> x.pid, th |-> x.th]

Apart(a, b, c, d) == b <= c \/ d <= a

\* The polling moves every job from todo to kept or fetch, as done.
Sorting ==
    /\ Polling => \A j \in work.fetch : j.pid = 0
    /\ pc \in {"status", "tail"} =>
          /\ \A j \in work.todo \cup work.kept : j.pid # 0
          /\ work.todo \cap work.kept = {}
    /\ pc = "tail" => work.job.pid # 0 /\ work.job \notin work.todo \cup work.kept
    /\ Polling /\ pc \notin {"status", "tail"} => work.todo = {} /\ work.fetch \cap work.kept = {}
    /\ pc = "tail" /\ work.alive = 0 =>
          \A x \in procs : <<x.host, x.pid>> # <<work.job.host, work.job.pid>>
    /\ Cleaning => work.todo \subseteq disk
    /\ pc = "last" => work.job \in disk \ work.todo
    /\ pc = "isdone" => jobs = disk

\* In sequential mode there are no jobs.
Alone ==
    IF Parallel
    THEN pc \notin {"seq", "run"} /\ (pc \in Checking => work.back # "read")
    ELSE /\ procs = {} /\ jobs = {} /\ disk = {}
         /\ ~Polling /\ ~Cleaning
         /\ pc \notin {"write1", "close1", "start", "write2", "close2"}

\* The jobs L account for the processes P: they are apart, no host has more
\* threads of them than cores, and every process is the one of a job.
Tracks(L, P, C) ==
    /\ JobSet(L)
    /\ \A i, j \in L : i # j => Apart(i.lo, i.hi, j.lo, j.hi)
    /\ \A h \in Host : SumFunction([j \in {i \in L : i.host = h} |-> j.th]) <= C[h]
    /\ \A x \in P : x.open /\ JobOf(x) \in L

Owned ==
    /\ pc # "done" => Tracks(Listed, procs, Cores)
    /\ \E L : Tracks(L, procs, Cores)

FilesApart ==
    /\ \A j \in ToFetch, f \in DOMAIN local : Apart(j.lo, j.hi, f[1], f[2])
    /\ \A f, g \in DOMAIN local :
          f # g => \/ Apart(f[1], f[2], g[1], g[2])
                   \/ pc = "unlink" /\ {f, g} = {work.file, Plain(work.file)}

Writing ==
    ~Cleaning /\ pc # "done" =>
        \A x \in procs : /\ Name(x) \in DOMAIN rem[x.host]
                         /\ rem[x.host][Name(x)].end = "none"

Killing ==
    Cleaning /\ faults.net = 0 => \A x \in procs : JobOf(x) \in work.todo

\* Every job or file lies below the range or in one of the ranges of the list.
Holes ==
    pc = "start" =>
        \A r \in JobRanges \cup FileRanges : r[2] < QMin \/ Within(r, work.ranges)

FreeCores ==
    pc = "start" /\ work.n > 0 => Busy(work.host) + work.n <= Cores[work.host]

Ended == pc = "done" /\ faults.net = 0 => procs = {}

Known == Owned /\ FilesApart /\ Writing /\ Killing /\ Ended

ProcInv == Sorting /\ Alone /\ Holes /\ FreeCores /\ (AllKnown => Known)

-----------------------------------------------------------------------------
(* The options of the scenario, and the initial state.                     *)

LEMMA Options ==
    ASSUME scn \in Scenarios
    PROVE  /\ scn \in Scenario /\ (Sieve <=> QMax = 0)
           /\ Sieve \in BOOLEAN /\ Parallel \in BOOLEAN /\ Keep \in BOOLEAN
           /\ Cores \in [Host -> Nat] /\ MaxThreads \in Nat \ {0}
           /\ QMin \in Nat /\ QMax \in Nat /\ Size \in Nat \ {0}
<1>1. scn \in Scenario /\ (scn.sieve <=> scn.max = 0)
  BY ScenariosAssumption
<1>2. /\ scn.sieve \in BOOLEAN /\ scn.parallel \in BOOLEAN /\ scn.keep \in BOOLEAN
      /\ scn.cores \in [Host -> Nat] /\ scn.maxThreads \in Nat \ {0}
      /\ scn.min \in Nat /\ scn.max \in Nat /\ scn.len \in Nat \ {0}
  BY <1>1 DEF Scenario
<1> QED
  BY <1>1, <1>2 DEF Sieve, Parallel, Keep, Cores, MaxThreads, QMin, QMax, Size

LEMMA SameOptions ==
    ASSUME UNCHANGED scn
    PROVE  /\ Sieve' = Sieve /\ Parallel' = Parallel /\ Keep' = Keep
           /\ Cores' = Cores /\ MaxThreads' = MaxThreads
           /\ QMin' = QMin /\ QMax' = QMax /\ Size' = Size
  BY DEF Sieve, Parallel, Keep, Cores, MaxThreads, QMin, QMax, Size

LEMMA JobFields ==
    ASSUME NEW j \in ProperJob
    PROVE  /\ j.host \in Host /\ j.lo \in Nat /\ j.hi \in Nat /\ j.lo < j.hi
           /\ j.pid \in 0..MaxPid /\ j.th \in Nat \ {0}
           /\ [j EXCEPT !.pid = 0] \in ProperJob
           /\ j = [host |-> j.host, lo |-> j.lo, hi |-> j.hi, pid |-> j.pid, th |-> j.th]
  BY PidAssumption DEF ProperJob, Job

LEMMA NameIsFile ==
    ASSUME scn \in Scenarios, NEW x, x.lo \in Nat, x.hi \in Nat, x.lo < x.hi
    PROVE  /\ Name(x) \in ProperFile /\ NumberOf(Name(x)) = x.hi - x.lo
           /\ Name(x)[1] = x.lo /\ Name(x)[2] = x.hi /\ Name(x)[3] = Sieve
<1>1. Sieve \in BOOLEAN
  BY Options
<1> QED  BY <1>1 DEF Name, ProperFile, File, NumberOf

LEMMA FileFields ==
    ASSUME NEW f \in ProperFile
    PROVE  /\ f[1] \in Nat /\ f[2] \in Nat /\ f[3] \in BOOLEAN /\ f[1] < f[2]
           /\ f = <<f[1], f[2], f[3]>>
           /\ NumberOf(f) \in Nat \ {0}
           /\ \A b \in BOOLEAN : [f EXCEPT ![3] = b] = <<f[1], f[2], b>>
           /\ \A q \in Nat \ {0} : [f EXCEPT ![2] = f[1] + q] \in ProperFile
           /\ \A q \in Nat \ {0} : [f EXCEPT ![2] = f[1] + q] = <<f[1], f[1] + q, f[3]>>
  BY DEF ProperFile, File, NumberOf

LEMMA FreshFits ==
    ASSUME NEW f \in ProperFile
    PROVE  Fits(f, Fresh) /\ Fits(f, [q |-> 0, end |-> "mixed"])
  BY FileFields DEF Fits, Fresh, Content

LEMMA NoWorkTyped ==
    /\ NoWork \in Work
    /\ NoWork.todo = {} /\ NoWork.kept = {} /\ NoWork.fetch = {} /\ NoWork.files = {}
    /\ NoWork.n = 0
  BY DEF NoWork, Work

-----------------------------------------------------------------------------
(* Sets of files.                                                          *)

LEMMA FilesWith ==
    ASSUME NEW d, Files(d), NEW f \in ProperFile, NEW c, Fits(f, c), NEW e, e = With(d, f, c)
    PROVE  /\ Files(e) /\ DOMAIN e = DOMAIN d \cup {f} /\ e[f] = c
           /\ \A g \in DOMAIN d : g # f => e[g] = d[g]
<1>1. /\ DOMAIN e = DOMAIN d \cup {f} /\ e[f] = c
      /\ \A g \in DOMAIN d : g # f => e[g] = d[g]
      /\ e = [g \in DOMAIN e |-> e[g]]
  BY DEF With
<1>2. IsFiniteSet(DOMAIN e)
  BY <1>1, FS_AddElement DEF Files
<1> QED  BY <1>1, <1>2 DEF Files

LEMMA FilesWithout ==
    ASSUME NEW d, Files(d), NEW f, NEW e, e = Without(d, f)
    PROVE  /\ Files(e) /\ DOMAIN e = DOMAIN d \ {f}
           /\ \A g \in DOMAIN e : e[g] = d[g]
<1>1. /\ DOMAIN e = DOMAIN d \ {f} /\ \A g \in DOMAIN e : e[g] = d[g]
      /\ e = [g \in DOMAIN e |-> e[g]]
  BY DEF Without, Restrict
<1>2. IsFiniteSet(DOMAIN e)
  BY <1>1, FS_RemoveElement DEF Files
<1> QED  BY <1>1, <1>2 DEF Files

LEMMA FilesExcept ==
    ASSUME NEW d, Files(d), NEW f \in DOMAIN d, NEW c, Fits(f, c), NEW e, e = [d EXCEPT ![f] = c]
    PROVE  /\ Files(e) /\ DOMAIN e = DOMAIN d /\ e[f] = c
           /\ \A g \in DOMAIN d : g # f => e[g] = d[g]
<1>1. /\ DOMAIN e = DOMAIN d /\ e[f] = c
      /\ \A g \in DOMAIN d : g # f => e[g] = d[g]
      /\ e = [g \in DOMAIN e |-> e[g]]
  BY DEF Files
<1> QED  BY <1>1 DEF Files

\* A file on a host changes.
LEMMA RemoteStep ==
    ASSUME RemoteTyped, NEW h \in Host, NEW d, Files(d), rem' = [rem EXCEPT ![h] = d],
           IsFiniteSet(procs'), \A x \in procs' : x \in Proc /\ x.lo < x.hi
    PROVE  RemoteTyped'
<1>1. \A i \in Host : rem'[i] = IF i = h THEN d ELSE rem[i]
  BY DEF RemoteTyped
<1>2. rem' = [i \in Host |-> rem'[i]]
  BY DEF RemoteTyped
<1> QED  BY <1>1, <1>2 DEF RemoteTyped

-----------------------------------------------------------------------------
(* The ranges of the files and of the jobs, and the holes.                 *)

LEMMA ImageFinite ==
    ASSUME NEW S, IsFiniteSet(S), NEW f
    PROVE  IsFiniteSet({f[x] : x \in S})
<1> DEFINE g == [x \in S |-> f[x]]
<1>1. g \in Surjection(S, {f[x] : x \in S})
  BY DEF Surjection
<1> QED  BY <1>1, FS_Surjection

LEMMA RangesTyped ==
    ASSUME Files(local), JobSet(jobs)
    PROVE  /\ FileRanges \in SUBSET (Nat \X Nat) /\ JobRanges \in SUBSET (Nat \X Nat)
           /\ IsFiniteSet(FileRanges) /\ IsFiniteSet(JobRanges)
           /\ \A r \in FileRanges \cup JobRanges : Lo(r) < Hi(r)
<1> DEFINE F == [f \in DOMAIN local |-> <<f[1], f[2]>>]
           J == [j \in jobs |-> <<j.lo, j.hi>>]
<1>1. FileRanges = {F[f] : f \in DOMAIN local} /\ JobRanges = {J[j] : j \in jobs}
  BY DEF FileRanges, JobRanges
<1>2. IsFiniteSet(FileRanges) /\ IsFiniteSet(JobRanges)
  <2>1. IsFiniteSet(DOMAIN local) /\ IsFiniteSet(jobs)
    BY DEF Files, JobSet
  <2> HIDE DEF F, J
  <2> QED  BY <1>1, <2>1, ImageFinite
<1>3. \A f \in DOMAIN local : f[1] \in Nat /\ f[2] \in Nat /\ f[1] < f[2]
  BY FileFields DEF Files
<1>4. \A j \in jobs : j.lo \in Nat /\ j.hi \in Nat /\ j.lo < j.hi
  BY JobFields DEF JobSet
<1>5. FileRanges \in SUBSET (Nat \X Nat) /\ JobRanges \in SUBSET (Nat \X Nat)
  BY <1>3, <1>4 DEF FileRanges, JobRanges
<1>6. \A r \in FileRanges \cup JobRanges : Lo(r) < Hi(r)
  BY <1>3, <1>4 DEF FileRanges, JobRanges, Lo, Hi
<1> QED  BY <1>2, <1>5, <1>6

LEMMA MergedRanges ==
    ASSUME NEW S \in SUBSET (Nat \X Nat), IsFiniteSet(S), \A r \in S : Lo(r) < Hi(r),
           NEW m, m = MergeRanges(S)
    PROVE  m \in Seq(Nat \X Nat) /\ Separated(m) /\ \A r \in S : Within(r, m)
<1>1. \A r \in S : Lo(r) <= Hi(r)
  BY DEF Lo, Hi
<1> QED  BY <1>1, MergeRangesRight

\* A hole is a proper range, and apart from every range of the list.
LEMMA HoleIsApart ==
    ASSUME scn \in Scenarios, NEW ranges \in Seq(Nat \X Nat), Separated(ranges),
           NEW h, h = FindHole(QMin, QMax, Size, ranges), h # <<>>
    PROVE  /\ h \in Nat \X Nat /\ h[1] \in Nat /\ h[2] \in Nat /\ h[1] < h[2]
           /\ QMin <= h[1]
           /\ \A r \in Nat \X Nat : r[2] < QMin \/ Within(r, ranges)
                 => Apart(r[1], r[2], h[1], h[2])
<1>1. QMin \in Nat /\ QMax \in Nat /\ Size \in Nat \ {0}
  BY Options
<1>2. /\ h \in Nat \X Nat /\ h[1] < h[2] /\ QMin <= h[1]
      /\ \A i \in DOMAIN ranges : ranges[i][2] <= h[1] \/ h[2] <= ranges[i][1]
  BY <1>1, HoleIsFree DEF Lo, Hi
<1>3. h[1] \in Nat /\ h[2] \in Nat
  BY <1>2
<1>4. ASSUME NEW r \in Nat \X Nat, r[2] < QMin \/ Within(r, ranges)
      PROVE  r[2] <= h[1] \/ h[2] <= r[1]
  <2>1. r[1] \in Nat /\ r[2] \in Nat
    OBVIOUS
  <2>2. CASE r[2] < QMin
    BY <2>1, <2>2, <1>1, <1>2, <1>3
  <2>3. CASE Within(r, ranges)
    <3>1. PICK i \in DOMAIN ranges : ranges[i][1] <= r[1] /\ r[2] <= ranges[i][2]
      BY <2>3 DEF Within, Lo, Hi
    <3>2. ranges[i] \in Nat \X Nat
      OBVIOUS
    <3>3. ranges[i][1] \in Nat /\ ranges[i][2] \in Nat
      BY <3>2
    <3> QED  BY SMTT(30), <3>1, <3>3, <2>1, <1>2, <1>3
  <2> QED  BY <1>4, <2>2, <2>3
<1> QED  BY <1>2, <1>3, <1>4 DEF Apart

-----------------------------------------------------------------------------
(* Type correctness.                                                       *)

LEMMA WorkFields ==
    ASSUME work \in Work
    PROVE  /\ work.todo \subseteq ProperJob /\ work.kept \subseteq ProperJob
           /\ work.fetch \subseteq ProperJob /\ work.job \in ProperJob \cup {NoJob}
           /\ work.alive \in {-1, 0, 1} /\ work.file \in ProperFile \cup {<<>>}
           /\ work.files \subseteq ProperFile
           /\ work.back \in {"boot", "read", "fetch", "clean"}
           /\ work.gz \in BOOLEAN /\ work.ranges \in Seq(Nat \X Nat)
           /\ work.hosts \subseteq Host /\ work.host \in Host \cup {"none"}
           /\ work.n \in Int
  BY DEF Work

LEMMA FaultTyped ==
    ASSUME faults \in [Kinds -> Nat], UNCHANGED faults \/ \E k \in Kinds : Fault(k)
    PROVE  faults' \in [Kinds -> Nat]
  BY DEF Fault

LEMMA RemoteSame ==
    ASSUME RemoteTyped, UNCHANGED <<rem, procs>>
    PROVE  RemoteTyped'
  BY DEF RemoteTyped

\* A step that only takes away processes.
LEMMA FewerProcs ==
    ASSUME RemoteTyped, UNCHANGED rem, procs' \subseteq procs
    PROVE  RemoteTyped'
<1>1. IsFiniteSet(procs')
  BY FS_Subset DEF RemoteTyped
<1> QED  BY <1>1 DEF RemoteTyped

LEMMA InitType == Init => TypeInv
<1> SUFFICES ASSUME Init PROVE TypeInv
  OBVIOUS
<1>1. MasterTyped
  <2>1. JobSet({}) /\ IsFiniteSet({})
    BY FS_EmptySet DEF JobSet
  <2> QED  BY <2>1, NoWorkTyped DEF Init, MasterTyped, Label
<1>2. Files(Empty)
  BY FS_EmptySet DEF Files, Empty
<1>3. RemoteTyped
  BY <1>2, FS_EmptySet DEF Init, RemoteTyped
<1>4. faults \in [Kinds -> Nat]
  BY DEF Init, NoFaults, Kinds
<1>5. WorkShape
  BY DEF Init, WorkShape, Checking
<1> QED  BY <1>1, <1>2, <1>3, <1>4, <1>5 DEF TypeInv, Init

\* The steps of the environment, which leave the master alone.
LEMMA EnvironmentType ==
    ASSUME TypeInv, UNCHANGED scn, UNCHANGED master, RemoteTyped', faults' \in [Kinds -> Nat]
    PROVE  TypeInv'
<1>1. MasterTyped' /\ Files(local)'
  BY DEF TypeInv, MasterTyped, master
<1>2. WorkShape'
  BY SameOptions DEF TypeInv, WorkShape, Name, master
<1> QED  BY <1>1, <1>2 DEF TypeInv

LEMMA ProcType ==
    ASSUME TypeInv, UNCHANGED scn, NEW x \in procs, ProcOpen(x) \/ ProcStep(x) \/ ProcFinish(x)
    PROVE  TypeInv'
<1>1. /\ RemoteTyped /\ IsFiniteSet(procs) /\ x \in Proc /\ x.lo < x.hi
      /\ x.host \in Host /\ Files(rem[x.host])
      /\ x.lo \in Nat /\ x.hi \in Nat /\ faults \in [Kinds -> Nat] /\ scn \in Scenarios
  BY DEF TypeInv, RemoteTyped, Proc
<1> DEFINE f == Name(x)
           h == x.host
<1>2. f \in ProperFile /\ NumberOf(f) = x.hi - x.lo
  BY <1>1, NameIsFile
<1> HIDE DEF f, h
<1>a. h \in Host /\ Files(rem[h])
  BY <1>1 DEF h
<1>3. CASE ProcOpen(x)
  <2>1. Files(Opened(h, f))
    <3> DEFINE c == IF Writers(h, f) = {} THEN Fresh ELSE [q |-> 0, end |-> "mixed"]
    <3>1. Fits(f, c)
      BY <1>2, FreshFits
    <3>2. Opened(h, f) = With(rem[h], f, c)
      BY DEF Opened
    <3> HIDE DEF c
    <3>3. Files(With(rem[h], f, c))
      BY <3>1, <1>a, <1>2, FilesWith
    <3> QED  BY <3>2, <3>3
  <2>2. rem' = [rem EXCEPT ![h] = Opened(h, f)]
    BY <1>3 DEF ProcOpen, f, h
  <2>3. IsFiniteSet(procs') /\ \A y \in procs' : y \in Proc /\ y.lo < y.hi
    <3>1. procs' = (procs \ {x}) \cup {[x EXCEPT !.open = TRUE]}
      BY <1>3 DEF ProcOpen
    <3>2. IsFiniteSet(procs \ {x})
      BY <1>1, FS_RemoveElement
    <3>3. IsFiniteSet(procs')
      BY <3>1, <3>2, FS_AddElement
    <3>4. [x EXCEPT !.open = TRUE] \in Proc /\ [x EXCEPT !.open = TRUE].lo < [x EXCEPT !.open = TRUE].hi
      BY <1>1 DEF Proc
    <3> QED  BY <1>1, <3>1, <3>3, <3>4 DEF RemoteTyped
  <2>4. RemoteTyped'
    BY <2>1, <2>2, <2>3, <1>1, <1>a, RemoteStep
  <2> QED  BY <2>4, <1>1, <1>3, EnvironmentType DEF ProcOpen
<1>4. CASE ProcStep(x)
  <2> DEFINE c == rem[h][f]
             v == [c EXCEPT !.q = @ + 1]
  <2>1. f \in DOMAIN rem[h] /\ c.end = "none" /\ c.q < x.hi - x.lo
    BY <1>4 DEF ProcStep, f, h
  <2>2. Fits(f, c)
    BY <2>1, <1>1, <1>a DEF Files
  <2>3. Fits(f, v)
    BY <2>1, <2>2, <1>1, <1>2 DEF Fits, Content
  <2>4. rem' = [rem EXCEPT ![h] = [rem[h] EXCEPT ![f] = v]]
    BY <1>4 DEF ProcStep, f, h
  <2>5. Files([rem[h] EXCEPT ![f] = v])
    <3> HIDE DEF c, v
    <3> QED  BY <2>1, <2>3, <1>1, <1>a, FilesExcept
  <2>6. RemoteTyped'
    <3>1. UNCHANGED procs
      BY <1>4 DEF ProcStep
    <3> HIDE DEF c, v
    <3> QED  BY <2>4, <2>5, <3>1, <1>1, <1>a, RemoteStep DEF RemoteTyped
  <2> QED  BY <2>6, <1>1, <1>4, EnvironmentType DEF ProcStep
<1>5. CASE ProcFinish(x)
  <2>1. procs' \subseteq procs /\ UNCHANGED <<master, faults>>
    BY <1>5 DEF ProcFinish
  <2>2. CASE f \in DOMAIN rem[h] /\ rem[h][f].end = "none"
    <3> DEFINE c == rem[h][f]
               v == [c EXCEPT !.end = "total"]
    <3>1. c.q = x.hi - x.lo /\ rem' = [rem EXCEPT ![h] = [rem[h] EXCEPT ![f] = v]]
      BY <2>2, <1>5 DEF ProcFinish, f, h
    <3>2. Fits(f, c)
      BY <2>2, <1>1, <1>a DEF Files
    <3>3. Fits(f, v)
      BY <3>1, <3>2, <1>1, <1>2 DEF Fits, Content
    <3>4. Files([rem[h] EXCEPT ![f] = v])
      <4> HIDE DEF c, v
      <4> QED  BY <2>2, <3>3, <1>1, <1>a, FilesExcept
    <3>5. IsFiniteSet(procs') /\ \A y \in procs' : y \in Proc /\ y.lo < y.hi
      BY <2>1, <1>1, FS_Subset DEF RemoteTyped
    <3>6. RemoteTyped'
      <4> HIDE DEF c, v
      <4> QED  BY <3>1, <3>4, <3>5, <1>1, <1>a, RemoteStep
    <3> QED  BY <3>6, <2>1, <1>1, EnvironmentType
  <2>3. CASE ~(f \in DOMAIN rem[h] /\ rem[h][f].end = "none")
    <3>1. UNCHANGED rem
      BY <2>3, <1>5 DEF ProcFinish, f, h
    <3>2. RemoteTyped'
      BY <3>1, <2>1, <1>1, FewerProcs
    <3> QED  BY <3>2, <2>1, <1>1, EnvironmentType
  <2> QED  BY <2>2, <2>3
<1> QED  BY <1>3, <1>4, <1>5

LEMMA DownType ==
    ASSUME TypeInv, UNCHANGED scn, Crash \/ SeqFail
    PROVE  TypeInv'
<1>1. /\ pc' = "down" /\ jobs' = {} /\ nrels' = 0 /\ lastCheck' = 0 /\ work' = NoWork
      /\ UNCHANGED <<disk, local, remote>>
      /\ \E k \in Kinds : Fault(k)
  BY DEF Crash, SeqFail, Die, Kinds
<1>2. MasterTyped'
  <2>1. JobSet({}) /\ IsFiniteSet({})
    BY FS_EmptySet DEF JobSet
  <2> QED  BY <1>1, <2>1, NoWorkTyped DEF TypeInv, MasterTyped, Label
<1>3. Files(local)'
  BY <1>1 DEF TypeInv
<1>4. RemoteTyped'
  BY <1>1, RemoteSame DEF remote, TypeInv
<1>5. WorkShape'
  BY <1>1 DEF WorkShape, Checking
<1>6. faults' \in [Kinds -> Nat]
  BY <1>1, FaultTyped DEF TypeInv
<1> QED  BY <1>2, <1>3, <1>4, <1>5, <1>6 DEF TypeInv

LEMMA HostsType ==
    ASSUME TypeInv, UNCHANGED scn, (\E x \in procs : ProcDie(x)) \/ (\E h \in Host : Reboot(h))
    PROVE  TypeInv'
<1>1. /\ procs' \subseteq procs /\ UNCHANGED <<master, rem>>
      /\ \E k \in Kinds : Fault(k)
  BY DEF ProcDie, Reboot, Kinds
<1>2. RemoteTyped'
  BY <1>1, FewerProcs DEF TypeInv
<1>3. faults' \in [Kinds -> Nat]
  BY <1>1, FaultTyped DEF TypeInv
<1> QED  BY <1>1, <1>2, <1>3, EnvironmentType

-----------------------------------------------------------------------------
(* Type correctness of the steps of the master.                            *)

LEMMA TypeBuilt ==
    ASSUME TypeInv, UNCHANGED scn, MasterTyped', Files(local)', RemoteTyped', WorkShape',
           UNCHANGED faults \/ \E k \in Kinds : Fault(k)
    PROVE  TypeInv'
  BY FaultTyped DEF TypeInv

LEMMA NetTyped ==
    /\ NetOK => UNCHANGED faults
    /\ NetFails => \E k \in Kinds : Fault(k)
  BY DEF NetOK, NetFails, Kinds

\* A step that leaves the lists and the counters alone.
LEMMA WorkStep ==
    ASSUME TypeInv, UNCHANGED <<jobs, disk, lastCheck>>, pc' \in Label,
           nrels' \in Nat, nrels <= nrels', work' \in Work,
           IsFiniteSet(work'.todo), IsFiniteSet(work'.kept), IsFiniteSet(work'.fetch)
    PROVE  MasterTyped'
  BY DEF TypeInv, MasterTyped

LEMMA WorkSame ==
    ASSUME TypeInv
    PROVE  /\ work \in Work /\ nrels \in Nat /\ nrels <= nrels
           /\ IsFiniteSet(work.todo) /\ IsFiniteSet(work.kept) /\ IsFiniteSet(work.fetch)
           /\ IsFiniteSet(NoWork.todo) /\ IsFiniteSet(NoWork.kept) /\ IsFiniteSet(NoWork.fetch)
           /\ Files(local) /\ RemoteTyped /\ scn \in Scenarios
  BY NoWorkTyped, FS_EmptySet DEF TypeInv, MasterTyped

LEMMA BootType ==
    ASSUME TypeInv, UNCHANGED scn, Restart \/ Boot
    PROVE  TypeInv'
<1>1. UNCHANGED <<jobs, disk, local, nrels, lastCheck, rem, procs, faults>>
  BY DEF Restart, Boot, remote
<1>2. RemoteTyped' /\ Files(local)'
  BY <1>1, WorkSame, RemoteSame
<1>3. CASE Restart
  <2>1. pc' = "boot" /\ work' = [NoWork EXCEPT !.files = DOMAIN local]
    BY <1>3 DEF Restart
  <2>2. work' \in Work /\ work'.todo = {} /\ work'.kept = {} /\ work'.fetch = {}
    <3>1. DOMAIN local \in SUBSET ProperFile
      BY WorkSame DEF Files
    <3> QED  BY <2>1, <3>1, NoWorkTyped DEF Work, NoWork
  <2>3. MasterTyped'
    BY <1>1, <2>1, <2>2, WorkSame, WorkStep, FS_EmptySet DEF Label
  <2>4. WorkShape'
    BY <2>1 DEF WorkShape, Checking
  <2> QED  BY <1>1, <1>2, <2>3, <2>4, TypeBuilt
<1>4. CASE Boot /\ work.files = {}
  <2>1. pc' = "read" /\ UNCHANGED work
    BY <1>4 DEF Boot
  <2>2. MasterTyped'
    BY <1>1, <2>1, WorkSame, WorkStep DEF Label
  <2>3. WorkShape'
    BY <2>1 DEF WorkShape, Checking
  <2> QED  BY <1>1, <1>2, <2>2, <2>3, TypeBuilt
<1>5. CASE Boot /\ work.files # {}
  <2>1. PICK f \in work.files :
           /\ pc' = "check"
           /\ work' = [work EXCEPT !.files = @ \ {f}, !.file = f, !.back = "boot", !.gz = f[3]]
    BY <1>5 DEF Boot
  <2>2. f \in ProperFile /\ f[3] \in BOOLEAN
    BY WorkSame, WorkFields, FileFields
  <2>3. /\ work' \in Work /\ UNCHANGED <<work.todo, work.kept, work.fetch>>
        /\ work'.file = f /\ work'.gz = f[3]
    BY <2>1, <2>2, WorkSame DEF Work
  <2>4. MasterTyped'
    BY <1>1, <2>1, <2>3, WorkSame, WorkStep DEF Label
  <2>5. WorkShape'
    BY <2>1, <2>2, <2>3 DEF WorkShape, Checking
  <2> QED  BY <1>1, <1>2, <2>4, <2>5, TypeBuilt
<1> QED  BY <1>3, <1>4, <1>5

\* The labels a check goes back to.
LEMMA BackLabels == {"boot", "read", "fetch", "clean"} \subseteq Label
  BY DEF Label

LEMMA CheckStepType ==
    ASSUME TypeInv, UNCHANGED scn, CheckUnchanged, Files(local)', WorkShape',
           work' \in Work, UNCHANGED <<work.todo, work.kept, work.fetch>>,
           pc' \in Label, UNCHANGED nrels \/ \E f \in ProperFile : \E c : Fits(f, c) /\ Import(c)
    PROVE  TypeInv'
<1>1. UNCHANGED <<jobs, disk, lastCheck, rem, procs, faults>>
  BY DEF CheckUnchanged, remote
<1>2. nrels' \in Nat /\ nrels <= nrels'
  <2>1. nrels \in Nat
    BY WorkSame
  <2>2. CASE UNCHANGED nrels
    BY <2>1, <2>2
  <2>3. CASE \E f \in ProperFile : \E c : Fits(f, c) /\ Import(c)
    <3>0. PICK f \in ProperFile : \E c : Fits(f, c) /\ Import(c)
      BY <2>3
    <3>1. PICK c : Fits(f, c) /\ Import(c)
      BY <3>0
    <3>2. c.q \in Nat
      BY <3>1 DEF Fits, Content
    <3> QED  BY <2>1, <3>1, <3>2 DEF Import
  <2> QED  BY <2>2, <2>3
<1>3. MasterTyped'
  BY <1>1, <1>2, WorkSame, WorkStep
<1>4. RemoteTyped'
  BY <1>1, WorkSame, RemoteSame
<1> QED  BY <1>1, <1>3, <1>4, TypeBuilt

\* A step of the check that goes on elsewhere.
LEMMA BackType ==
    ASSUME TypeInv, UNCHANGED scn, CheckUnchanged, Files(local)', pc' = work.back, UNCHANGED work,
           UNCHANGED nrels \/ \E f \in ProperFile : \E c : Fits(f, c) /\ Import(c)
    PROVE  TypeInv'
<1>1. work.back \in {"boot", "read", "fetch", "clean"}
  BY WorkSame, WorkFields
<1>2. pc' \in Label
  BY <1>1, BackLabels
<1>3. WorkShape'
  BY <1>1 DEF WorkShape, Checking
<1> QED  BY <1>2, <1>3, WorkSame, CheckStepType

LEMMA PlainIsFile ==
    ASSUME NEW f \in ProperFile
    PROVE  /\ Plain(f) \in ProperFile /\ Plain(f)[3] = FALSE
           /\ Gz(f) \in ProperFile /\ Gz(f)[3] = TRUE
           /\ Plain(f) = <<f[1], f[2], FALSE>> /\ Gz(f) = <<f[1], f[2], TRUE>>
           /\ NumberOf(Plain(f)) = NumberOf(f) /\ NumberOf(Gz(f)) = NumberOf(f)
           /\ \A c : Fits(f, c) => Fits(Plain(f), c) /\ Fits(Gz(f), c)
<1>1. /\ Plain(f) = <<f[1], f[2], FALSE>> /\ Gz(f) = <<f[1], f[2], TRUE>>
      /\ f[1] \in Nat /\ f[2] \in Nat /\ f[1] < f[2]
  BY FileFields DEF Plain, Gz
<1>2. /\ Plain(f) \in ProperFile /\ Plain(f)[3] = FALSE /\ NumberOf(Plain(f)) = NumberOf(f)
      /\ Gz(f) \in ProperFile /\ Gz(f)[3] = TRUE /\ NumberOf(Gz(f)) = NumberOf(f)
  <2>1. ASSUME NEW b \in BOOLEAN, NEW g, g = <<f[1], f[2], b>>
        PROVE  g \in ProperFile /\ g[3] = b /\ g[2] - g[1] = f[2] - f[1]
    BY <1>1, <2>1 DEF ProperFile, File
  <2> QED  BY <2>1, <1>1 DEF NumberOf
<1> QED  BY <1>1, <1>2 DEF Fits

\* The two forms of a file.
LEMMA Forms ==
    ASSUME NEW f \in ProperFile
    PROVE  /\ Plain(Plain(f)) = Plain(f) /\ [f EXCEPT ![3] = TRUE] = Gz(f)
           /\ ~f[3] => Plain(f) = f /\ Gz(f) # f
           /\ f[3] => Gz(Plain(f)) = f /\ Plain(f) # f
<1>1. /\ Plain(f) \in ProperFile /\ Gz(f) \in ProperFile
      /\ Plain(f) = <<f[1], f[2], FALSE>> /\ Gz(f) = <<f[1], f[2], TRUE>>
      /\ f = <<f[1], f[2], f[3]>> /\ f[3] \in BOOLEAN
  BY PlainIsFile, FileFields
<1>2. PICK p : p = Plain(f)
  OBVIOUS
<1>3. /\ Plain(p) = <<p[1], p[2], FALSE>> /\ Gz(p) = <<p[1], p[2], TRUE>>
      /\ p = <<f[1], f[2], FALSE>>
  BY <1>1, <1>2, PlainIsFile
<1>4. Plain(p) = p /\ Gz(p) = <<f[1], f[2], TRUE>>
  BY <1>3
<1>a. Plain(f)[3] = FALSE /\ Gz(f)[3] = TRUE
  BY PlainIsFile
<1>5. ASSUME ~f[3]
      PROVE  Plain(f) = f /\ Gz(f) # f
  <2>1. f[3] = FALSE
    BY <1>5, <1>1
  <2>2. f = <<f[1], f[2], FALSE>>
    BY <2>1, <1>1, Zenon
  <2> QED  BY <2>1, <2>2, <1>1, <1>a
<1>6. ASSUME f[3]
      PROVE  Gz(p) = f /\ p # f
  <2>1. f[3] = TRUE
    BY <1>6, <1>1
  <2>2. f = <<f[1], f[2], TRUE>>
    BY <2>1, <1>1, Zenon
  <2>3. p # f
    BY <2>1, <1>2, <1>a
  <2> QED  BY <2>2, <2>3, <1>4
<1> QED  BY <1>2, <1>4, <1>5, <1>6 DEF Gz

LEMMA CheckType ==
    ASSUME TypeInv, UNCHANGED scn, Check
    PROVE  TypeInv'
<1> DEFINE w == work.file
<1>1. /\ Files(local) /\ work \in Work /\ scn \in Scenarios
      /\ w \in DOMAIN local => w \in ProperFile /\ Fits(w, local[w])
  BY WorkSame DEF Files
<1>2. CASE CheckMissing
  BY <1>1, <1>2, BackType DEF CheckMissing
<1>3. CASE CheckInvalid
  <2>1. local' = Without(local, w) /\ pc' = work.back /\ CheckUnchanged /\ UNCHANGED <<nrels, work>>
    BY <1>3 DEF CheckInvalid
  <2>2. Files(local')
    BY <2>1, <1>1, FilesWithout
  <2> QED  BY <2>1, <2>2, BackType
<1>4. CASE CheckClean
  BY <1>1, <1>4, BackType DEF CheckClean
<1>5. CASE CheckPartial
  <2>1. /\ pc = "check" /\ w \in DOMAIN local /\ CheckUnchanged /\ UNCHANGED <<nrels, work>>
        /\ work.gz = w[3]
    BY <1>5 DEF CheckPartial, At, TypeInv, WorkShape
  <2>2. CASE work.gz
    <3>1. local' = With(local, Plain(w), local[w]) /\ pc' = "unlink"
      BY <2>2, <1>5 DEF CheckPartial, Plain
    <3>2. Plain(w) \in ProperFile /\ Fits(Plain(w), local[w])
      BY <2>1, <1>1, PlainIsFile
    <3>3. Files(local') /\ DOMAIN local' = DOMAIN local \cup {Plain(w)}
      <4>1. PICK e : e = local'
        OBVIOUS
      <4>2. PICK f, c : f = Plain(w) /\ c = local[w]
        OBVIOUS
      <4>3. e = With(local, f, c) /\ f \in ProperFile /\ Fits(f, c)
        BY <3>1, <3>2, <4>1, <4>2
      <4>4. Files(e) /\ DOMAIN e = DOMAIN local \cup {f}
        BY <4>3, <1>1, FilesWith
      <4> QED  BY <4>1, <4>2, <4>4
    <3>4. WorkShape'
      BY <3>1, <3>3, <2>1, <2>2, <1>1 DEF WorkShape, Checking
    <3> QED  BY <3>1, <3>3, <3>4, <2>1, <1>1, CheckStepType DEF Label
  <2>3. CASE ~work.gz
    <3>1. UNCHANGED local /\ pc' = "trunc"
      BY <2>3, <1>5 DEF CheckPartial
    <3>2. WorkShape'
      BY <3>1, <2>1, <2>3, <1>1 DEF WorkShape, Checking
    <3> QED  BY <3>1, <3>2, <2>1, <1>1, CheckStepType DEF Label
  <2> QED  BY <2>2, <2>3
<1>6. CASE CheckUnlink
  <2>1. /\ pc = "unlink" /\ w \in DOMAIN local /\ Plain(w) \in DOMAIN local /\ w[3]
        /\ local' = Without(local, w) /\ work' = [work EXCEPT !.file = Plain(w)]
        /\ pc' = "trunc" /\ CheckUnchanged /\ UNCHANGED nrels
    <3>1. work' = [work EXCEPT !.file = Plain(w)]
      BY <1>1, <1>6 DEF CheckUnlink, Plain
    <3> QED  BY <3>1, <1>6 DEF CheckUnlink, At, TypeInv, WorkShape
  <2>2. Files(local') /\ DOMAIN local' = DOMAIN local \ {w}
    <3>1. PICK e : e = local'
      OBVIOUS
    <3>2. Files(e) /\ DOMAIN e = DOMAIN local \ {w}
      <4> HIDE DEF w
      <4> QED  BY <2>1, <3>1, <1>1, FilesWithout
    <3> QED  BY <3>1, <3>2
  <2>3. /\ Plain(w) \in ProperFile /\ Plain(w)[3] = FALSE
    BY <2>1, <1>1, PlainIsFile
  <2>4. Plain(w) # w
    BY <2>1, <2>3
  <2>5. /\ work' \in Work /\ UNCHANGED <<work.todo, work.kept, work.fetch, work.gz, work.job>>
        /\ work'.file = Plain(w)
    BY <2>1, <2>3, <1>1 DEF Work
  <2>6. WorkShape'
    BY <2>1, <2>2, <2>3, <2>4, <2>5, <1>1 DEF WorkShape, Checking
  <2> QED  BY <2>1, <2>2, <2>5, <2>6, CheckStepType DEF Label
<1>7. CASE CheckTruncate
  <2>1. /\ pc = "trunc" /\ w \in DOMAIN local /\ ~w[3] /\ CheckUnchanged /\ UNCHANGED <<nrels, work>>
    BY <1>7 DEF CheckTruncate, At, TypeInv, WorkShape
  <2>2. CASE local[w].q < 2
    <3>1. local' = Without(local, w) /\ pc' = work.back
      BY <2>2, <1>7 DEF CheckTruncate
    <3>2. Files(local')
      BY <3>1, <1>1, FilesWithout
    <3> QED  BY <3>1, <3>2, <2>1, BackType
  <2>3. CASE ~(local[w].q < 2)
    <3> DEFINE c == [q |-> local[w].q - 1, end |-> "marker"]
    <3>1. local' = [local EXCEPT ![w] = c] /\ pc' = "mv"
      BY <2>3, <1>7 DEF CheckTruncate
    <3>2. Fits(w, c) /\ c.q # 0
      <4>1. local[w].q \in Nat /\ local[w].q <= NumberOf(w) /\ NumberOf(w) \in Nat
        BY <2>1, <1>1, FileFields DEF Fits, Content
      <4> QED  BY <4>1, <2>3 DEF Fits, Content
    <3> HIDE DEF c
    <3>3. Files(local') /\ DOMAIN local' = DOMAIN local /\ local'[w] = c
      BY <3>1, <3>2, <2>1, <1>1, FilesExcept
    <3>4. WorkShape'
      BY <3>1, <3>2, <3>3, <2>1, <1>1 DEF WorkShape, Checking
    <3> QED  BY <3>1, <3>3, <3>4, <2>1, <1>1, CheckStepType DEF Label
  <2> QED  BY <2>2, <2>3
<1>8. CASE CheckRename
  <2> DEFINE c == local[w]
             f == [w EXCEPT ![2] = w[1] + c.q]
  <2>1. /\ pc = "mv" /\ w \in DOMAIN local /\ w \in ProperFile /\ ~w[3] /\ c.q # 0
        /\ local' = With(Without(local, w), f, c) /\ CheckUnchanged
    BY <1>1, <1>8 DEF CheckRename, At, TypeInv, WorkShape
  <2>2. c.q \in Nat \ {0} /\ Fits(w, c)
    BY <2>1, <1>1 DEF Fits, Content
  <2>3. f \in ProperFile /\ f = <<w[1], w[1] + c.q, w[3]>> /\ w[1] \in Nat
    BY <2>1, <2>2, FileFields
  <2>4. NumberOf(f) = c.q
    BY <2>2, <2>3 DEF NumberOf
  <2>5. Fits(f, c)
    BY <2>2, <2>4 DEF Fits, Content
  <2>6. Files(local') /\ f \in DOMAIN local'
    <3>1. Files(Without(local, w))
      BY <1>1, FilesWithout
    <3>2. PICK d, e : d = Without(local, w) /\ e = local'
      OBVIOUS
    <3> HIDE DEF c, f
    <3>3. Files(d) /\ e = With(d, f, c)
      BY <3>1, <3>2, <2>1
    <3>4. Files(e) /\ DOMAIN e = DOMAIN d \cup {f}
      BY <3>3, <2>3, <2>5, FilesWith
    <3> QED  BY <3>2, <3>4
  <2>7. CASE work.gz
    <3>1. work' = [work EXCEPT !.file = f] /\ pc' = "gzip" /\ UNCHANGED nrels
      BY <2>7, <1>8 DEF CheckRename
    <3>2. /\ work' \in Work /\ UNCHANGED <<work.todo, work.kept, work.fetch>>
          /\ work'.file = f
      <4> HIDE DEF f
      <4> QED  BY <3>1, <2>3, <1>1 DEF Work
    <3>3. ~f[3]
      BY <2>1, <2>3
    <3>4. WorkShape'
      <4> HIDE DEF f
      <4> QED  BY <3>1, <3>2, <3>3, <2>3, <2>6 DEF WorkShape, Checking
    <3> QED  BY <3>1, <3>2, <3>4, <2>1, <2>6, CheckStepType DEF Label
  <2>8. CASE ~work.gz
    <3>1. pc' = work.back /\ Import(c) /\ UNCHANGED work
      BY <2>8, <1>8 DEF CheckRename
    <3> HIDE DEF c, f
    <3> QED  BY <3>1, <2>1, <2>3, <2>5, <2>6, BackType
  <2> QED  BY <2>7, <2>8
<1>9. CASE CheckGzip
  <2> DEFINE c == local[w]
             f == [w EXCEPT ![3] = TRUE]
  <2>1. w \in DOMAIN local /\ w \in ProperFile /\ Fits(w, c)
    BY <1>1, <1>9 DEF CheckGzip, At, TypeInv, WorkShape
  <2>2. f \in ProperFile /\ Fits(f, c)
    BY <2>1, PlainIsFile DEF Gz
  <2>3. CASE f \in DOMAIN local
    <3>1. /\ pc' = "down" /\ jobs' = {} /\ nrels' = 0 /\ lastCheck' = 0 /\ work' = NoWork
          /\ UNCHANGED <<disk, local, rem, procs, faults>>
      BY <2>3, <1>9 DEF CheckGzip, Die, remote
    <3>2. JobSet({}) /\ IsFiniteSet({})
      BY FS_EmptySet DEF JobSet
    <3>3. MasterTyped'
      BY <3>1, <3>2, NoWorkTyped DEF TypeInv, MasterTyped, Label
    <3>4. RemoteTyped' /\ Files(local)'
      BY <3>1, <1>1, WorkSame, RemoteSame
    <3>5. WorkShape'
      BY <3>1 DEF WorkShape, Checking
    <3> QED  BY <3>1, <3>3, <3>4, <3>5, TypeBuilt
  <2>4. CASE f \notin DOMAIN local
    <3>1. /\ local' = With(Without(local, w), f, c) /\ pc' = work.back /\ Import(c)
          /\ UNCHANGED work /\ CheckUnchanged
      BY <2>4, <1>9 DEF CheckGzip, CheckUnchanged
    <3>2. Files(local')
      <4>1. Files(Without(local, w))
        BY <1>1, FilesWithout
      <4> HIDE DEF c, f
      <4> QED  BY <4>1, <3>1, <2>2, FilesWith
    <3> HIDE DEF c, f
    <3> QED  BY <3>1, <3>2, <2>2, BackType
  <2> QED  BY <2>3, <2>4
<1> QED  BY <1>2, <1>3, <1>4, <1>5, <1>6, <1>7, <1>8, <1>9 DEF Check

\* A subset of the jobs, with one of them marked as done or taken out.
LEMMA SomeJobs ==
    ASSUME NEW S, S \subseteq ProperJob, IsFiniteSet(S)
    PROVE  /\ \A T \in SUBSET S : T \subseteq ProperJob /\ IsFiniteSet(T)
           /\ \A j \in ProperJob : S \cup {j} \subseteq ProperJob /\ IsFiniteSet(S \cup {j})
<1>1. \A T \in SUBSET S : IsFiniteSet(T)
  BY FS_Subset
<1>2. \A j \in ProperJob : IsFiniteSet(S \cup {j})
  BY FS_AddElement
<1> QED  BY <1>1, <1>2

\* The steps of the polling and of the cleaning up, which change the lists of
\* jobs to look at; the working directory and the hosts are dealt with apart.
LEMMA PollStep ==
    ASSUME TypeInv, UNCHANGED scn, UNCHANGED <<jobs, disk, nrels, lastCheck>>,
           pc' \in Label, work' \in Work, Files(local)', RemoteTyped', WorkShape',
           work'.todo \subseteq work.todo,
           work'.kept = work.kept \/ \E j \in ProperJob : work'.kept = work.kept \cup {j},
           work'.fetch \subseteq work.fetch
             \/ \E j \in ProperJob : work'.fetch = work.fetch \cup {j},
           UNCHANGED faults \/ \E k \in Kinds : Fault(k)
    PROVE  TypeInv'
<1>1. /\ work.todo \subseteq ProperJob /\ work.kept \subseteq ProperJob /\ work.fetch \subseteq ProperJob
      /\ IsFiniteSet(work.todo) /\ IsFiniteSet(work.kept) /\ IsFiniteSet(work.fetch)
      /\ nrels \in Nat /\ nrels <= nrels
  BY WorkSame, WorkFields
<1>2. IsFiniteSet(work'.todo) /\ IsFiniteSet(work'.kept) /\ IsFiniteSet(work'.fetch)
  <2>1. IsFiniteSet(work'.todo)
    BY <1>1, SomeJobs
  <2>2. IsFiniteSet(work'.kept)
    BY <1>1, SomeJobs
  <2>3. IsFiniteSet(work'.fetch)
    BY <1>1, SomeJobs
  <2> QED  BY <2>1, <2>2, <2>3
<1>3. MasterTyped'
  BY <1>1, <1>2, WorkStep
<1> QED  BY <1>3, TypeBuilt

LEMMA ReadJobsType ==
    ASSUME TypeInv, UNCHANGED scn, ReadJobs
    PROVE  TypeInv'
<1>1. UNCHANGED <<jobs, disk, local, nrels, lastCheck, rem, procs, faults>>
  BY DEF ReadJobs, remote
<1>2. disk \subseteq ProperJob /\ IsFiniteSet(disk) /\ nrels \in Nat /\ nrels <= nrels
  BY WorkSame DEF TypeInv, MasterTyped, JobSet
<1>3. /\ pc' \in {"status", "isdone"}
      /\ work'.todo \subseteq disk /\ work'.kept = {} /\ work'.fetch \subseteq disk
      /\ work' \in Work
  <2>1. CASE Parallel
    <3> DEFINE t == {j \in disk : j.pid # 0}
               u == {j \in disk : j.pid = 0}
    <3>1. t \in SUBSET disk /\ u \in SUBSET disk
      OBVIOUS
    <3>2. pc' = "status" /\ work' = [NoWork EXCEPT !.todo = t, !.fetch = u]
      BY <2>1 DEF ReadJobs
    <3> HIDE DEF t, u
    <3> QED  BY <3>1, <3>2, <1>2, NoWorkTyped DEF Work, NoWork
  <2>2. CASE ~Parallel
    BY <2>2, NoWorkTyped DEF ReadJobs
  <2> QED  BY <2>1, <2>2
<1>4. IsFiniteSet(work'.todo) /\ IsFiniteSet(work'.kept) /\ IsFiniteSet(work'.fetch)
  BY <1>2, <1>3, SomeJobs, FS_EmptySet
<1>5. MasterTyped'
  BY <1>1, <1>2, <1>3, <1>4, WorkStep DEF Label
<1>6. WorkShape'
  BY <1>3 DEF WorkShape, Checking
<1> QED  BY <1>1, <1>5, <1>6, WorkSame, RemoteSame, TypeBuilt

LEMMA AskAliveType ==
    ASSUME TypeInv, UNCHANGED scn, AskAlive
    PROVE  TypeInv'
<1>1. PICK j \in work.todo, r \in {-1, 0, 1} :
          /\ IsJobAlive(j, r)
          /\ work' = [work EXCEPT !.todo = @ \ {j}, !.job = j, !.alive = r]
  BY DEF AskAlive
<1>2. pc' = "tail" /\ UNCHANGED <<jobs, disk, local, nrels, lastCheck, rem, procs>>
  BY DEF AskAlive, remote
<1>3. j \in ProperJob
  BY WorkSame, WorkFields
<1>4. /\ work' \in Work /\ work'.job = j /\ work'.todo \subseteq work.todo
      /\ work'.kept = work.kept /\ work'.fetch = work.fetch
  BY <1>1, <1>3, WorkSame DEF Work
<1>5. UNCHANGED faults \/ \E k \in Kinds : Fault(k)
  BY <1>1, NetTyped DEF IsJobAlive
<1>6. WorkShape'
  BY <1>2, <1>3, <1>4 DEF WorkShape, Checking
<1> QED  BY <1>2, <1>4, <1>5, <1>6, WorkSame, RemoteSame, PollStep DEF Label

\* A file is removed on a host, or the removal fails.
LEMMA RemovalTyped ==
    ASSUME RemoteTyped, NEW h \in Host, NEW f, UNCHANGED procs,
           rem' = [rem EXCEPT ![h] = Without(@, f)]
    PROVE  RemoteTyped'
<1>1. PICK d : d = Without(rem[h], f)
  OBVIOUS
<1>2. Files(rem[h])
  BY DEF RemoteTyped
<1>3. Files(d)
  BY <1>1, <1>2, FilesWithout
<1>4. rem' = [rem EXCEPT ![h] = d]
  BY <1>1
<1> QED  BY <1>3, <1>4, RemoteStep DEF RemoteTyped

\* What the second command of job_status leaves.
LEMMA AskTailCases ==
    ASSUME AskTail
    PROVE  /\ pc = "tail" /\ pc' = "status"
           /\ UNCHANGED <<jobs, disk, local, nrels, lastCheck, procs, aliens>>
           /\ NetOK \/ NetFails
           /\ \/ /\ work' = [work EXCEPT !.kept = @ \cup {work.job}] /\ UNCHANGED rem
                 /\ JobStatus(work.job) = 1 \/ NetFails
              \/ /\ work' = [work EXCEPT !.fetch = @ \cup {[work.job EXCEPT !.pid = 0]}]
                 /\ UNCHANGED rem
                 /\ JobStatus(work.job) = 0 \/ JobStatus(work.job) = -1
              \/ /\ work' = [work EXCEPT !.job = NoJob] /\ UNCHANGED rem
                 /\ JobStatus(work.job) = -1 \/ JobStatus(work.job) = -2
              \/ /\ work' = [work EXCEPT !.job = NoJob]
                 /\ JobStatus(work.job) = -1
                 /\ rem' = [rem EXCEPT ![work.job.host] = Without(@, Name(work.job))]
  BY DEF AskTail, At

LEMMA AskTailType ==
    ASSUME TypeInv, UNCHANGED scn, AskTail
    PROVE  TypeInv'
<1> DEFINE j == work.job
<1>1. /\ pc = "tail" /\ pc' = "status"
      /\ UNCHANGED <<jobs, disk, local, nrels, lastCheck, procs, aliens>>
      /\ UNCHANGED faults \/ \E k \in Kinds : Fault(k)
  BY AskTailCases, NetTyped
<1>2. j \in ProperJob /\ j.host \in Host /\ [j EXCEPT !.pid = 0] \in ProperJob
  <2>1. j \in ProperJob
    BY <1>1 DEF TypeInv, WorkShape
  <2> QED  BY <2>1, JobFields
<1>3. RemoteTyped'
  <2>1. CASE UNCHANGED rem
    BY <2>1, <1>1, WorkSame, RemoteSame
  <2>2. CASE rem' = [rem EXCEPT ![j.host] = Without(@, Name(j))]
    BY <2>2, <1>1, <1>2, WorkSame, RemovalTyped
  <2> QED  BY <2>1, <2>2, AskTailCases
<1>4. /\ work' \in Work /\ work'.todo = work.todo
      /\ work'.kept = work.kept \/ \E i \in ProperJob : work'.kept = work.kept \cup {i}
      /\ work'.fetch = work.fetch \/ \E i \in ProperJob : work'.fetch = work.fetch \cup {i}
  <2>1. CASE work' = [work EXCEPT !.kept = @ \cup {j}]
    <3> HIDE DEF j
    <3> QED  BY <2>1, <1>2, WorkSame DEF Work
  <2>2. CASE work' = [work EXCEPT !.fetch = @ \cup {[j EXCEPT !.pid = 0]}]
    <3>1. PICK i : i = [j EXCEPT !.pid = 0]
      OBVIOUS
    <3>2. i \in ProperJob /\ work' = [work EXCEPT !.fetch = @ \cup {i}]
      BY <3>1, <2>2, <1>2
    <3> QED  BY <3>2, WorkSame DEF Work
  <2>3. CASE work' = [work EXCEPT !.job = NoJob]
    BY <2>3, WorkSame DEF Work
  <2> QED  BY <2>1, <2>2, <2>3, AskTailCases
<1>5. WorkShape'
  BY <1>1 DEF WorkShape, Checking
<1>6. Files(local)' /\ pc' \in Label
  BY <1>1, WorkSame DEF Label
<1> QED  BY <1>1, <1>3, <1>4, <1>5, <1>6, PollStep

\* A file is copied from a host that has it.
LEMMA CopyTyped ==
    ASSUME TypeInv, NEW j \in ProperJob, Name(j) \in DOMAIN rem[j.host],
           local' = With(local, Name(j), rem[j.host][Name(j)])
    PROVE  /\ Files(local)' /\ DOMAIN local' = DOMAIN local \cup {Name(j)}
           /\ local'[Name(j)] = rem[j.host][Name(j)]
           /\ \A g \in DOMAIN local : g # Name(j) => local'[g] = local[g]
<1>1. PICK f, c, d : f = Name(j) /\ c = rem[j.host][f] /\ d = local'
  OBVIOUS
<1>2. Files(rem[j.host]) /\ Files(local)
  BY WorkSame, JobFields DEF RemoteTyped
<1>3. f \in ProperFile /\ Fits(f, c)
  BY <1>1, <1>2 DEF Files
<1>4. d = With(local, f, c)
  BY <1>1
<1>5. Files(d) /\ DOMAIN d = DOMAIN local \cup {f} /\ d[f] = c
  BY <1>2, <1>3, <1>4, FilesWith
<1>6. \A g \in DOMAIN local : g # f => d[g] = local[g]
  BY <1>4 DEF With
<1> QED  BY <1>1, <1>5, <1>6

LEMMA FetchType ==
    ASSUME TypeInv, UNCHANGED scn, StatusDone \/ Fetch
    PROVE  TypeInv'
<1>1. /\ UNCHANGED <<jobs, disk, nrels, lastCheck, rem, procs>>
      /\ UNCHANGED faults \/ \E k \in Kinds : Fault(k)
  BY NetTyped DEF StatusDone, Fetch, remote
<1>2. RemoteTyped'
  BY <1>1, WorkSame, RemoteSame
<1>3. CASE StatusDone
  <2>1. pc' = "fetch" /\ UNCHANGED <<local, work>>
    BY <1>3 DEF StatusDone
  <2>2. WorkShape'
    BY <2>1 DEF WorkShape, Checking
  <2> QED  BY <2>1, <2>2, <1>1, <1>2, WorkSame, PollStep DEF Label
<1>4. CASE Fetch
  <2>1. pc = "fetch"
    BY <1>4 DEF Fetch, At
  <2>2. PICK j \in work.fetch :
           \/ /\ work' = [work EXCEPT !.fetch = @ \ {j}, !.job = NoJob]
              /\ UNCHANGED <<pc, local>>
           \/ /\ work' = [work EXCEPT !.fetch = @ \ {j}, !.job = NoJob, !.kept = @ \cup {j}]
              /\ UNCHANGED <<pc, local>>
           \/ /\ Name(j) \in DOMAIN rem[j.host]
              /\ local' = With(local, Name(j), rem[j.host][Name(j)])
              /\ work' = [work EXCEPT !.fetch = @ \ {j}, !.job = j, !.back = "fetch"]
              /\ pc' = "rm"
    <3>1. PICK j \in work.fetch :
         LET f == Name(j)
             left == [work EXCEPT !.fetch = @ \ {j}, !.job = NoJob]
         IN  \/ /\ f \in DOMAIN local \/ f \notin DOMAIN rem[j.host]
                /\ NetOK
                /\ work' = left
                /\ UNCHANGED <<pc, local>>
             \/ /\ f \notin DOMAIN local
                /\ NetFails
                /\ work' = [left EXCEPT !.kept = @ \cup {j}]
                /\ UNCHANGED <<pc, local>>
             \/ /\ f \notin DOMAIN local /\ f \in DOMAIN rem[j.host]
                /\ NetOK
                /\ local' = With(local, f, rem[j.host][f])
                /\ work' = [left EXCEPT !.job = j, !.back = "fetch"]
                /\ pc' = "rm"
      BY <1>4 DEF Fetch
    <3> QED  BY <3>1, WorkSame DEF Work
  <2>3. j \in ProperJob
    BY WorkSame, WorkFields
  <2>4. /\ work' \in Work /\ work'.todo = work.todo /\ work'.fetch \subseteq work.fetch
        /\ work'.kept = work.kept \/ \E i \in ProperJob : work'.kept = work.kept \cup {i}
    <3>1. CASE work' = [work EXCEPT !.fetch = @ \ {j}, !.job = NoJob]
      BY <3>1, WorkSame DEF Work
    <3>2. CASE work' = [work EXCEPT !.fetch = @ \ {j}, !.job = NoJob, !.kept = @ \cup {j}]
      BY <3>2, <2>3, WorkSame DEF Work
    <3>3. CASE work' = [work EXCEPT !.fetch = @ \ {j}, !.job = j, !.back = "fetch"]
      BY <3>3, <2>3, WorkSame DEF Work
    <3> QED  BY <3>1, <3>2, <3>3, <2>2
  <2>5. CASE UNCHANGED <<pc, local>>
    <3>1. WorkShape'
      BY <2>1, <2>5 DEF WorkShape, Checking
    <3> QED  BY <3>1, <2>1, <2>4, <2>5, <1>1, <1>2, WorkSame, PollStep DEF Label
  <2>6. CASE /\ Name(j) \in DOMAIN rem[j.host]
             /\ local' = With(local, Name(j), rem[j.host][Name(j)])
             /\ work' = [work EXCEPT !.fetch = @ \ {j}, !.job = j, !.back = "fetch"]
             /\ pc' = "rm"
    <3>1. Files(local)' /\ DOMAIN local' = DOMAIN local \cup {Name(j)}
      BY <2>3, <2>6, CopyTyped
    <3>2. work'.job = j /\ work'.back = "fetch"
      BY <2>6, WorkSame DEF Work
    <3>3. WorkShape'
      BY <3>1, <3>2, <2>3, <2>6, SameOptions DEF WorkShape, Checking, Name
    <3> QED  BY <3>1, <3>3, <2>4, <2>6, <1>1, <1>2, PollStep DEF Label
  <2> QED  BY <2>2, <2>5, <2>6
<1> QED  BY <1>3, <1>4

LEMMA FetchRmType ==
    ASSUME TypeInv, UNCHANGED scn, FetchRm
    PROVE  TypeInv'
<1> DEFINE j == work.job
<1>1. /\ pc = "rm" /\ pc' = "check"
      /\ UNCHANGED <<jobs, disk, local, nrels, lastCheck, procs>>
      /\ UNCHANGED faults \/ \E k \in Kinds : Fault(k)
  BY NetTyped DEF FetchRm, At, ToCheck
<1>2. j \in ProperJob /\ j.host \in Host /\ Name(j) \in ProperFile
  <2>1. j \in ProperJob
    BY <1>1 DEF TypeInv, WorkShape
  <2> QED  BY <2>1, JobFields, NameIsFile, WorkSame
<1>3. RemoteTyped'
  <2>1. CASE UNCHANGED rem
    BY <2>1, <1>1, WorkSame, RemoteSame
  <2>2. CASE rem' = [rem EXCEPT ![j.host] = Without(@, Name(j))]
    BY <2>2, <1>1, <1>2, WorkSame, RemovalTyped
  <2> QED  BY <2>1, <2>2 DEF FetchRm
<1>4. /\ work' \in Work /\ work'.file = Name(j) /\ work'.gz = Name(j)[3]
      /\ work'.todo = work.todo /\ work'.kept = work.kept /\ work'.fetch = work.fetch
  <2>1. PICK f : f = Name(j)
    OBVIOUS
  <2>2. f[3] \in BOOLEAN
    BY <2>1, <1>2, FileFields
  <2>3. work' = [work EXCEPT !.file = f, !.back = work.back, !.gz = f[3]]
    BY <2>1 DEF FetchRm, ToCheck
  <2> QED  BY <2>1, <2>2, <2>3, <1>2, WorkSame DEF Work
<1>5. WorkShape'
  BY <1>1, <1>2, <1>4 DEF WorkShape, Checking
<1>6. Files(local)' /\ pc' \in Label
  BY <1>1, WorkSame DEF Label
<1> QED  BY <1>1, <1>3, <1>4, <1>5, <1>6, PollStep

LEMMA WriteType ==
    ASSUME TypeInv, UNCHANGED scn, FetchDone \/ WriteOpen \/ WriteClose
    PROVE  TypeInv'
<1>1. UNCHANGED <<local, nrels, lastCheck, rem, procs, faults>>
  BY DEF FetchDone, WriteOpen, WriteClose, remote
<1>2. RemoteTyped' /\ Files(local)'
  BY <1>1, WorkSame, RemoteSame
<1>3. JobSet(jobs) /\ JobSet(disk) /\ JobSet(work.kept) /\ JobSet({})
  BY WorkSame, WorkFields, FS_EmptySet DEF TypeInv, MasterTyped, JobSet
<1>4. JobSet(jobs') /\ JobSet(disk')
  BY <1>3 DEF FetchDone, WriteOpen, WriteClose
<1>5. /\ work' \in Work
      /\ IsFiniteSet(work'.todo) /\ IsFiniteSet(work'.kept) /\ IsFiniteSet(work'.fetch)
      /\ pc' = "start" => Separated(work'.ranges) /\ work'.n = 0
  <2>1. CASE UNCHANGED work /\ pc' # "start"
    BY <2>1, WorkSame
  <2>2. CASE /\ pc' = "start"
             /\ work' = [NoWork EXCEPT !.hosts = Host,
                                       !.ranges = MergeRanges(FileRanges \cup JobRanges)]
    <3>1. PICK S, m : S = FileRanges \cup JobRanges /\ m = MergeRanges(S)
      OBVIOUS
    <3>2. S \in SUBSET (Nat \X Nat) /\ IsFiniteSet(S) /\ \A r \in S : Lo(r) < Hi(r)
      <4>1. IsFiniteSet(S)
        BY <3>1, <1>3, WorkSame, RangesTyped, FS_Union
      <4> QED  BY <3>1, <4>1, <1>3, WorkSame, RangesTyped
    <3>3. m \in Seq(Nat \X Nat) /\ Separated(m)
      BY <3>1, <3>2, MergedRanges
    <3>4. work' = [NoWork EXCEPT !.hosts = Host, !.ranges = m]
      BY <2>2, <3>1
    <3>5. /\ work' \in Work /\ work'.ranges = m /\ work'.n = 0
          /\ work'.todo = {} /\ work'.kept = {} /\ work'.fetch = {}
      BY <3>3, <3>4, NoWorkTyped DEF Work, NoWork
    <3> QED  BY <3>3, <3>5, FS_EmptySet
  <2>3. (UNCHANGED work /\ pc' # "start") \/
          (pc' = "start" /\
           work' = [NoWork EXCEPT !.hosts = Host, !.ranges = MergeRanges(FileRanges \cup JobRanges)])
    BY DEF FetchDone, WriteOpen, WriteClose
  <2> QED  BY <2>1, <2>2, <2>3
<1>6. pc' \in {"write1", "close1", "close2", "start", "isdone"}
  BY DEF FetchDone, WriteOpen, WriteClose
<1>7. MasterTyped'
  BY <1>1, <1>4, <1>5, <1>6, WorkSame DEF MasterTyped, Label, TypeInv
<1>8. WorkShape'
  BY <1>5, <1>6 DEF WorkShape, Checking
<1> QED  BY <1>1, <1>2, <1>7, <1>8, TypeBuilt

-----------------------------------------------------------------------------
(* Starting new jobs.                                                      *)

\* The next hole and the pid of a new job, when there are any.
LEMMA HoleTyped ==
    ASSUME TypeInv, pc = "start", work.n > 0, CanLaunch
    PROVE  /\ NextHole \in Nat \X Nat /\ NextHole[1] \in Nat /\ NextHole[2] \in Nat
           /\ NextHole[1] < NextHole[2] /\ QMin <= NextHole[1]
           /\ \A r \in Nat \X Nat : r[2] < QMin \/ Within(r, work.ranges)
                => Apart(r[1], r[2], NextHole[1], NextHole[2])
           /\ Threads \in Nat \ {0} /\ Threads <= work.n
           /\ work.host \in Host /\ work.ranges \in Seq(Nat \X Nat) /\ Separated(work.ranges)
<1>1. /\ scn \in Scenarios /\ work.ranges \in Seq(Nat \X Nat) /\ Separated(work.ranges)
      /\ work.n \in Int /\ work.host \in Host
  BY WorkSame, WorkFields DEF TypeInv, WorkShape
<1>2. NextHole # <<>>
  BY DEF CanLaunch
<1>3. Threads \in Nat \ {0} /\ Threads <= work.n
  <2>1. MaxThreads \in Nat \ {0}
    BY <1>1, Options
  <2> QED  BY <2>1, <1>1 DEF Threads
<1>4. PICK h : h = NextHole
  OBVIOUS
<1>5. h = FindHole(QMin, QMax, Size, work.ranges) /\ h # <<>>
  BY <1>2, <1>4 DEF NextHole
<1>6. /\ h \in Nat \X Nat /\ h[1] \in Nat /\ h[2] \in Nat /\ h[1] < h[2] /\ QMin <= h[1]
      /\ \A r \in Nat \X Nat : r[2] < QMin \/ Within(r, work.ranges)
            => Apart(r[1], r[2], h[1], h[2])
  BY <1>1, <1>5, HoleIsApart
<1> QED  BY <1>1, <1>3, <1>4, <1>6

LEMMA PidTyped ==
    ASSUME CanLaunch
    PROVE  FreePid \in 1..MaxPid /\ FreePid \notin UsedPids
<1> DEFINE F == {p \in 1..MaxPid : p \notin UsedPids}
<1>1. F # {} /\ F \subseteq Nat
  BY PidAssumption DEF CanLaunch
<1>2. \E p \in F : \A r \in 1..(p - 1) : r \in UsedPids
  <2>1. PICK p \in F : \A r \in F : p <= r
    <3> HIDE DEF F
    <3> QED  BY <1>1, LeastExists
  <2>2. ASSUME NEW r \in 1..(p - 1), r \notin UsedPids
        PROVE  FALSE
    <3>1. p \in 1..MaxPid /\ r \in 1..MaxPid
      BY PidAssumption
    <3>2. r \in F /\ p <= r
      BY <3>1, <2>1, <2>2
    <3> QED  BY <3>1, <3>2, PidAssumption
  <2> QED  BY <2>1, <2>2
<1> QED  BY <1>2 DEF FreePid

LEMMA BusyTyped ==
    ASSUME NEW J, JobSet(J), NEW h
    PROVE  /\ IsFiniteSet({i \in J : i.host = h})
           /\ SumFunction([j \in {i \in J : i.host = h} |-> j.th]) \in Nat
<1> DEFINE S == {i \in J : i.host = h}
           f == [j \in S |-> j.th]
<1>1. IsFiniteSet(S)
  BY FS_Subset DEF JobSet
<1>2. \A j \in S : f[j] \in Nat
  BY JobFields DEF JobSet
<1>3. DOMAIN f = S
  OBVIOUS
<1> HIDE DEF S, f
<1>4. Sum(f, S) \in Nat
  BY <1>1, <1>2, SumType
<1>5. SumFunction(f) = Sum(f, S)
  BY <1>3 DEF SumFunction, Sum
<1> QED  BY <1>1, <1>4, <1>5 DEF S, f

\* The steps of the loop over the hosts.
LEMMA StartStep ==
    ASSUME TypeInv, UNCHANGED scn, UNCHANGED <<disk, local, nrels, lastCheck>>,
           JobSet(jobs'), pc' \in {"start", "write2"}, RemoteTyped',
           NEW rs \in Seq(Nat \X Nat), NEW hs \in SUBSET Host, NEW h \in Host \cup {"none"}, NEW n \in Int,
           work' = [work EXCEPT !.hosts = hs, !.host = h, !.n = n, !.ranges = rs],
           pc' = "start" => Separated(rs) /\ (n > 0 => h \in Host),
           UNCHANGED faults \/ \E k \in Kinds : Fault(k)
    PROVE  TypeInv'
<1>1. /\ work' \in Work /\ work'.todo = work.todo /\ work'.kept = work.kept
      /\ work'.fetch = work.fetch /\ work'.ranges = rs /\ work'.n = n /\ work'.host = h
  BY WorkSame DEF Work
<1>2. MasterTyped'
  BY <1>1, WorkSame DEF MasterTyped, TypeInv, Label
<1>3. WorkShape'
  BY <1>1 DEF WorkShape, Checking
<1> QED  BY <1>2, <1>3, WorkSame, TypeBuilt

LEMMA HostsLoopType ==
    ASSUME TypeInv, UNCHANGED scn, PickHost \/ NoHole \/ StartDone
    PROVE  TypeInv'
<1>1. /\ pc = "start" /\ UNCHANGED <<jobs, disk, local, nrels, lastCheck, rem, procs>>
      /\ UNCHANGED faults \/ \E k \in Kinds : Fault(k)
  BY NetTyped DEF PickHost, NoHole, StartDone, At, remote
<1>2. /\ work \in Work /\ work.ranges \in Seq(Nat \X Nat) /\ Separated(work.ranges)
      /\ work.hosts \in SUBSET Host /\ work.host \in Host \cup {"none"} /\ work.n \in Int
      /\ RemoteTyped' /\ JobSet(jobs')
  BY <1>1, WorkSame, WorkFields, RemoteSame DEF TypeInv, WorkShape, MasterTyped
<1>3. CASE PickHost
  <2>1. PICK h \in work.hosts :
         LET w == [work EXCEPT !.hosts = @ \ {h}, !.host = h]
         IN  \/ NetOK /\ work' = [w EXCEPT !.n = Cores[h] - Busy(h)]
             \/ Cores[h] > Busy(h) /\ NetFails /\ work' = [w EXCEPT !.n = 0]
    BY <1>3 DEF PickHost
  <2>2. h \in Host /\ Cores[h] \in Nat
    BY <1>2, WorkSame, Options
  <2>3. Busy(h) \in Nat
    BY <1>1, BusyTyped DEF Busy, TypeInv, MasterTyped
  <2>4. \E n \in Int : work' = [work EXCEPT !.hosts = work.hosts \ {h}, !.host = h, !.n = n,
                                            !.ranges = work.ranges]
    <3>1. CASE work' = [work EXCEPT !.hosts = work.hosts \ {h}, !.host = h, !.n = Cores[h] - Busy(h)]
      <4>1. Cores[h] - Busy(h) \in Int
        BY <2>2, <2>3
      <4>2. PICK n : n = Cores[h] - Busy(h)
        OBVIOUS
      <4>3. work' = [work EXCEPT !.hosts = work.hosts \ {h}, !.host = h, !.n = n, !.ranges = work.ranges]
        BY <3>1, <4>2, <1>2 DEF Work
      <4> QED  BY <4>1, <4>2, <4>3
    <3>2. CASE work' = [work EXCEPT !.hosts = work.hosts \ {h}, !.host = h, !.n = 0]
      <4>1. work' = [work EXCEPT !.hosts = work.hosts \ {h}, !.host = h, !.n = 0, !.ranges = work.ranges]
        BY <3>2, <1>2 DEF Work
      <4>2. PICK n : n = 0
        OBVIOUS
      <4>3. n \in Int
        BY <4>2
      <4>4. work' = [work EXCEPT !.hosts = work.hosts \ {h}, !.host = h, !.n = n, !.ranges = work.ranges]
        BY <4>1, <4>2
      <4> QED  BY <4>3, <4>4
    <3>3. \/ work' = [work EXCEPT !.hosts = work.hosts \ {h}, !.host = h, !.n = Cores[h] - Busy(h)]
          \/ work' = [work EXCEPT !.hosts = work.hosts \ {h}, !.host = h, !.n = 0]
      BY <2>1, <1>2 DEF Work
    <3> QED  BY <3>1, <3>2, <3>3
  <2>5. PICK n \in Int : work' = [work EXCEPT !.hosts = work.hosts \ {h}, !.host = h, !.n = n,
                                              !.ranges = work.ranges]
    BY <2>4
  <2>6. pc' = "start" /\ work.hosts \ {h} \in SUBSET Host
    BY <1>1, <1>2, <1>3 DEF PickHost
  <2> QED  BY <1>1, <1>2, <2>2, <2>5, <2>6, StartStep
<1>4. CASE NoHole
  <2>1. work' = [work EXCEPT !.hosts = {}, !.host = work.host, !.n = 0, !.ranges = work.ranges]
    BY <1>2, <1>4 DEF NoHole, Work
  <2>2. pc' = "start"
    BY <1>1, <1>4 DEF NoHole
  <2>3. {} \in SUBSET Host /\ 0 \in Int /\ ~(0 > 0)
    OBVIOUS
  <2>4. PICK n : n = 0
    OBVIOUS
  <2>5. n \in Int /\ ~(n > 0)
    BY <2>3, <2>4
  <2>6. work' = [work EXCEPT !.hosts = {}, !.host = work.host, !.n = n, !.ranges = work.ranges]
    BY <2>1, <2>4
  <2> QED  BY <1>1, <1>2, <2>2, <2>3, <2>5, <2>6, StartStep
<1>5. CASE StartDone
  <2>1. work' = [work EXCEPT !.hosts = work.hosts, !.host = work.host, !.n = work.n, !.ranges = work.ranges]
    BY <1>2, <1>5 DEF StartDone, Work
  <2>2. pc' = "write2"
    BY <1>5 DEF StartDone
  <2> QED  BY <1>1, <1>2, <2>1, <2>2, StartStep
<1> QED  BY <1>3, <1>4, <1>5

\* What a start does: the new job, its process and its output file, and the
\* range it takes, or none of the last two.
NewJob == [host |-> work.host, lo |-> NextHole[1], hi |-> NextHole[2], pid |-> FreePid,
           th |-> Threads]

NewProc(open) == [host |-> work.host, lo |-> NextHole[1], hi |-> NextHole[2], pid |-> FreePid,
                  th |-> Threads, open |-> open]

Runs ==
    /\ procs' = procs \cup {NewProc(TRUE)}
    /\ rem' = [rem EXCEPT ![work.host] = Opened(work.host, Name(NewJob))]

LaunchListed ==
    /\ jobs' = jobs \cup {NewJob}
    /\ work' = [work EXCEPT !.n = @ - MaxThreads,
                            !.ranges = WithHole(QMin, work.ranges, NextHole)]

LaunchUnlisted ==
    /\ UNCHANGED jobs
    /\ work' = [work EXCEPT !.n = @ - MaxThreads, !.ranges = From(QMin, work.ranges)]

LEMMA LaunchCases ==
    ASSUME Launch
    PROVE  /\ pc = "start" /\ pc' = "start" /\ work.n > 0 /\ CanLaunch
           /\ UNCHANGED <<disk, local, nrels, lastCheck, aliens>>
           /\ UNCHANGED faults \/ \E k \in Kinds : Fault(k)
           /\ \/ NetOK /\ Runs /\ LaunchListed
              \/ /\ Fault("slow") /\ LaunchListed
                 /\ procs' = procs \cup {NewProc(FALSE)} /\ UNCHANGED rem
              \/ NetFails /\ LaunchUnlisted /\ UNCHANGED <<rem, procs>>
              \/ scn.lostStart /\ NetFails /\ Runs /\ LaunchUnlisted
<1>1. /\ pc = "start" /\ pc' = "start" /\ work.n > 0 /\ CanLaunch
      /\ UNCHANGED <<disk, local, nrels, lastCheck, aliens>>
  BY DEF Launch, At
<1>2. NewJob.host = work.host
  BY DEF NewJob
<1>3. \/ NetOK /\ Runs /\ LaunchListed
      \/ /\ Fault("slow") /\ LaunchListed
         /\ procs' = procs \cup {NewProc(FALSE)} /\ UNCHANGED rem
      \/ NetFails /\ LaunchUnlisted /\ UNCHANGED <<rem, procs>>
      \/ scn.lostStart /\ NetFails /\ Runs /\ LaunchUnlisted
  BY <1>2 DEF Launch, NewJob, NewProc, Runs, LaunchListed, LaunchUnlisted
<1>4. UNCHANGED faults \/ \E k \in Kinds : Fault(k)
  BY <1>3, NetTyped DEF Kinds
<1> QED  BY <1>1, <1>3, <1>4

\* The new job and its process.
LEMMA NewJobTyped ==
    ASSUME TypeInv, pc = "start", work.n > 0, CanLaunch
    PROVE  /\ NewJob \in ProperJob
           /\ NewJob.host = work.host /\ NewJob.lo = NextHole[1] /\ NewJob.hi = NextHole[2]
           /\ NewJob.pid = FreePid /\ NewJob.th = Threads /\ NewJob.pid # 0
           /\ \A b \in BOOLEAN : /\ NewProc(b) \in Proc /\ NewProc(b).lo < NewProc(b).hi
                                 /\ NewProc(b).open = b /\ JobOf(NewProc(b)) = NewJob
                                 /\ NewProc(b).host = NewJob.host
                                 /\ Name(NewProc(b)) = Name(NewJob)
<1>1. FreePid \in 1..MaxPid
  BY PidTyped
<1>2. /\ NextHole[1] \in Nat /\ NextHole[2] \in Nat /\ NextHole[1] < NextHole[2]
      /\ Threads \in Nat \ {0} /\ work.host \in Host
  BY HoleTyped
<1>3. NewJob \in ProperJob
  BY <1>1, <1>2, PidAssumption DEF NewJob, ProperJob, Job
<1>4. \A b \in BOOLEAN : NewProc(b) \in Proc /\ NewProc(b).lo < NewProc(b).hi
  BY <1>1, <1>2 DEF NewProc, Proc
<1>5. NewJob.pid # 0
  BY <1>1, PidAssumption DEF NewJob
<1> QED  BY <1>3, <1>4, <1>5 DEF NewJob, NewProc, JobOf, Name

\* The ranges that are left.
LEMMA LaunchRanges ==
    ASSUME TypeInv, pc = "start", work.n > 0, CanLaunch, LaunchListed \/ LaunchUnlisted
    PROVE  /\ \E rs \in Seq(Nat \X Nat), n \in Int :
                /\ Separated(rs) /\ n = work.n - MaxThreads
                /\ work' = [work EXCEPT !.hosts = work.hosts, !.host = work.host, !.n = n, !.ranges = rs]
                /\ \A r \in Nat \X Nat : Within(r, work.ranges) => r[2] < QMin \/ Within(r, rs)
                /\ LaunchListed => Within(NextHole, rs)
<1>1. /\ NextHole \in Nat \X Nat /\ Lo(NextHole) <= Hi(NextHole)
      /\ work.ranges \in Seq(Nat \X Nat) /\ Separated(work.ranges)
  BY HoleTyped DEF Lo, Hi
<1>2. QMin \in Nat /\ MaxThreads \in Nat /\ work.n \in Int /\ work \in Work
  BY WorkSame, WorkFields, Options
<1>3. PICK n : n = work.n - MaxThreads
  OBVIOUS
<1>4. n \in Int
  BY <1>2, <1>3
<1>5. CASE LaunchListed
  <2>1. PICK rs : rs = WithHole(QMin, work.ranges, NextHole)
    OBVIOUS
  <2>2. PICK h, ra : h = NextHole /\ ra = work.ranges
    OBVIOUS
  <2>3. /\ rs \in Seq(Nat \X Nat) /\ Separated(rs) /\ Within(h, rs)
        /\ \A r \in Nat \X Nat : Within(r, ra) => Hi(r) < QMin \/ Within(r, rs)
    <3>1. rs = WithHole(QMin, ra, h) /\ h \in Nat \X Nat /\ Lo(h) <= Hi(h)
      BY <2>1, <2>2, <1>1
    <3>2. ra \in Seq(Nat \X Nat) /\ Separated(ra)
      BY <2>2, <1>1
    <3> QED  BY <3>1, <3>2, <1>2, WithHoleRight
  <2>4. work' = [work EXCEPT !.hosts = work.hosts, !.host = work.host, !.n = n, !.ranges = rs]
    BY <2>1, <1>2, <1>3, <1>5 DEF LaunchListed, Work
  <2> QED  BY <1>3, <1>4, <2>2, <2>3, <2>4 DEF Hi
<1>6. CASE LaunchUnlisted /\ ~LaunchListed
  <2>1. PICK rs : rs = From(QMin, work.ranges)
    OBVIOUS
  <2>2. PICK ra : ra = work.ranges
    OBVIOUS
  <2>3. /\ rs \in Seq(Nat \X Nat) /\ Separated(rs)
        /\ \A r \in Nat \X Nat : Within(r, ra) => Hi(r) < QMin \/ Within(r, rs)
    <3>1. rs = From(QMin, ra) /\ ra \in Seq(Nat \X Nat) /\ Separated(ra)
      BY <2>1, <2>2, <1>1
    <3> QED  BY <3>1, <1>2, FromKeeps
  <2>4. work' = [work EXCEPT !.hosts = work.hosts, !.host = work.host, !.n = n, !.ranges = rs]
    BY <2>1, <1>2, <1>3, <1>6 DEF LaunchUnlisted, Work
  <2> QED  BY <1>3, <1>4, <1>6, <2>2, <2>3, <2>4 DEF Hi
<1> QED  BY <1>5, <1>6

LEMMA LaunchType ==
    ASSUME TypeInv, UNCHANGED scn, Launch
    PROVE  TypeInv'
<1>1. /\ pc = "start" /\ pc' = "start" /\ work.n > 0 /\ CanLaunch
      /\ UNCHANGED <<disk, local, nrels, lastCheck>>
      /\ UNCHANGED faults \/ \E k \in Kinds : Fault(k)
  BY LaunchCases
<1>2. LaunchListed \/ LaunchUnlisted
  BY LaunchCases
<1>3. \/ Runs
      \/ UNCHANGED rem /\ procs' = procs \cup {NewProc(FALSE)}
      \/ UNCHANGED <<rem, procs>>
  BY LaunchCases
<1>4. NewJob \in ProperJob /\ work.host \in Host /\ Name(NewJob) \in ProperFile
  <2>1. NewJob \in ProperJob
    BY <1>1, NewJobTyped
  <2> QED  BY <2>1, <1>1, HoleTyped, JobFields, NameIsFile, WorkSame
<1>5. IsFiniteSet(procs) /\ Files(rem[work.host])
  BY <1>4, WorkSame DEF RemoteTyped
<1>6. \A b \in BOOLEAN : /\ IsFiniteSet(procs \cup {NewProc(b)})
                         /\ \A x \in procs \cup {NewProc(b)} : x \in Proc /\ x.lo < x.hi
  BY <1>1, <1>5, NewJobTyped, FS_AddElement, WorkSame DEF RemoteTyped
<1>7. RemoteTyped'
  <2>1. CASE Runs
    <3> DEFINE f == Name(NewJob)
               c == IF Writers(work.host, f) = {} THEN Fresh ELSE [q |-> 0, end |-> "mixed"]
    <3>1. PICK d : d = With(rem[work.host], f, c)
      OBVIOUS
    <3>2. Fits(f, c)
      BY <1>4, FreshFits
    <3>3. Files(d)
      <4> HIDE DEF f, c
      <4> QED  BY <3>1, <3>2, <1>4, <1>5, FilesWith DEF f
    <3>4. rem' = [rem EXCEPT ![work.host] = d]
      BY <2>1, <3>1 DEF Runs, Opened
    <3>5. procs' = procs \cup {NewProc(TRUE)}
      BY <2>1 DEF Runs
    <3>6. IsFiniteSet(procs') /\ \A x \in procs' : x \in Proc /\ x.lo < x.hi
      BY <3>5, <1>6
    <3> QED  BY <3>3, <3>4, <3>6, <1>4, WorkSame, RemoteStep
  <2>2. CASE UNCHANGED rem /\ procs' = procs \cup {NewProc(FALSE)}
    BY <2>2, <1>6, WorkSame DEF RemoteTyped
  <2>3. CASE UNCHANGED <<rem, procs>>
    BY <2>3, WorkSame, RemoteSame
  <2> QED  BY <1>3, <2>1, <2>2, <2>3
<1>8. JobSet(jobs')
  <2>1. JobSet(jobs)
    BY DEF TypeInv, MasterTyped
  <2>2. IsFiniteSet(jobs \cup {NewJob})
    BY <2>1, FS_AddElement DEF JobSet
  <2> QED  BY <1>2, <1>4, <2>1, <2>2 DEF LaunchListed, LaunchUnlisted, JobSet
<1>9. \E rs \in Seq(Nat \X Nat), n \in Int :
        /\ Separated(rs)
        /\ work' = [work EXCEPT !.hosts = work.hosts, !.host = work.host, !.n = n, !.ranges = rs]
  BY <1>1, <1>2, LaunchRanges
<1>10. PICK rs \in Seq(Nat \X Nat), n \in Int :
        /\ Separated(rs)
        /\ work' = [work EXCEPT !.hosts = work.hosts, !.host = work.host, !.n = n, !.ranges = rs]
  BY <1>9
<1>11. work.hosts \in SUBSET Host
  BY WorkSame, WorkFields
<1> QED  BY <1>1, <1>4, <1>7, <1>8, <1>10, <1>11, StartStep

-----------------------------------------------------------------------------
(* The end of the loop, the cleaning up, and the sequential mode.          *)

LEMMA IsDoneType ==
    ASSUME TypeInv, UNCHANGED scn, IsDone
    PROVE  TypeInv'
<1>1. /\ UNCHANGED <<jobs, disk, local, nrels, rem, procs, faults>>
      /\ pc' \in {"clean", "done", "read", "seq"}
      /\ work' = NoWork \/ work' = [NoWork EXCEPT !.todo = disk]
      /\ lastCheck' = nrels \/ lastCheck' = lastCheck
  BY DEF IsDone, remote
<1>2. /\ JobSet(jobs) /\ JobSet(disk) /\ nrels \in Nat /\ lastCheck \in 0..nrels
      /\ disk \in SUBSET ProperJob /\ IsFiniteSet(disk)
  BY DEF TypeInv, MasterTyped, JobSet
<1>3. work' \in Work /\ work'.todo \subseteq disk /\ work'.kept = {} /\ work'.fetch = {}
  <2>1. CASE work' = NoWork
    BY <2>1, NoWorkTyped
  <2>2. CASE work' = [NoWork EXCEPT !.todo = disk]
    BY <2>2, <1>2, NoWorkTyped DEF Work, NoWork
  <2> QED  BY <2>1, <2>2, <1>1
<1>4. IsFiniteSet(work'.todo) /\ IsFiniteSet(work'.kept) /\ IsFiniteSet(work'.fetch)
  BY <1>2, <1>3, FS_Subset, FS_EmptySet
<1>5. lastCheck' \in 0..nrels'
  BY <1>1, <1>2
<1>6. MasterTyped'
  BY <1>1, <1>2, <1>3, <1>4, <1>5 DEF MasterTyped, Label
<1>7. WorkShape'
  BY <1>1 DEF WorkShape, Checking
<1> QED  BY <1>1, <1>6, <1>7, WorkSame, RemoteSame, TypeBuilt

LEMMA CleanCases ==
    ASSUME CleanKill
    PROVE  /\ pc = "clean" /\ pc' \in {"last", "clean"} /\ (pc' = "last" <=> Sieve)
           /\ UNCHANGED <<jobs, disk, local, nrels, lastCheck>>
           /\ NetOK \/ NetFails
           /\ \E j \in work.todo :
                /\ work' = [work EXCEPT !.todo = @ \ {j}, !.job = j, !.back = "clean"]
                /\ \/ /\ procs' = {x \in procs : <<x.host, x.pid>> # <<j.host, j.pid>>}
                      /\ UNCHANGED rem \/ rem' = [rem EXCEPT ![j.host] = Without(@, Name(j))]
                   \/ UNCHANGED <<procs, rem>> /\ (j.pid = 0 \/ NetFails \/ ~Exists(j))
<1>1. PICK j \in work.todo, r \in {-1, 0, 1} :
         /\ IF j.pid = 0 THEN r = 0 /\ NetOK ELSE IsJobAlive(j, r)
         /\ IF r = 1
            THEN /\ procs' = {x \in procs : <<x.host, x.pid>> # <<j.host, j.pid>>}
                 /\ aliens' = aliens \ {<<j.host, j.pid>>}
                 /\ rem' = IF Sieve THEN rem
                           ELSE [rem EXCEPT ![j.host] = Without(@, Name(j))]
            ELSE UNCHANGED <<procs, aliens, rem>>
         /\ work' = [work EXCEPT !.todo = @ \ {j}, !.job = j, !.back = "clean"]
         /\ pc' = IF Sieve THEN "last" ELSE "clean"
  BY DEF CleanKill
<1>2. NetOK \/ NetFails
  BY <1>1 DEF IsJobAlive
<1>3. pc = "clean" /\ UNCHANGED <<jobs, disk, local, nrels, lastCheck>>
  BY DEF CleanKill, At
<1>4. \/ /\ procs' = {x \in procs : <<x.host, x.pid>> # <<j.host, j.pid>>}
         /\ UNCHANGED rem \/ rem' = [rem EXCEPT ![j.host] = Without(@, Name(j))]
      \/ UNCHANGED <<procs, rem>> /\ (j.pid = 0 \/ NetFails \/ ~Exists(j))
  <2>1. CASE r = 1
    BY <2>1, <1>1
  <2>2. CASE r # 1
    <3>1. UNCHANGED <<procs, rem>>
      BY <2>2, <1>1
    <3>2. j.pid = 0 \/ NetFails \/ ~Exists(j)
      BY <2>2, <1>1 DEF IsJobAlive
    <3> QED  BY <3>1, <3>2
  <2> QED  BY <2>1, <2>2
<1>5. pc' \in {"last", "clean"} /\ (pc' = "last" <=> Sieve)
  BY <1>1
<1> QED  BY <1>1, <1>2, <1>3, <1>4, <1>5

LEMMA CleanType ==
    ASSUME TypeInv, UNCHANGED scn, CleanKill \/ CleanFetch \/ CleanDone
    PROVE  TypeInv'
<1>1. CASE CleanKill
  <2>1. PICK j \in work.todo :
           /\ work' = [work EXCEPT !.todo = @ \ {j}, !.job = j, !.back = "clean"]
           /\ \/ /\ procs' = {x \in procs : <<x.host, x.pid>> # <<j.host, j.pid>>}
                 /\ UNCHANGED rem \/ rem' = [rem EXCEPT ![j.host] = Without(@, Name(j))]
              \/ UNCHANGED <<procs, rem>>
    BY <1>1, CleanCases
  <2>2. /\ pc' \in {"last", "clean"} /\ UNCHANGED <<jobs, disk, local, nrels, lastCheck>>
        /\ UNCHANGED faults \/ \E k \in Kinds : Fault(k)
    BY <1>1, CleanCases, NetTyped
  <2>3. j \in ProperJob /\ j.host \in Host
    <3>1. j \in ProperJob
      BY WorkSame, WorkFields
    <3> QED  BY <3>1, JobFields
  <2>4. /\ work' \in Work /\ work'.todo \subseteq work.todo /\ work'.job = j /\ work'.back = "clean"
        /\ work'.kept = work.kept /\ work'.fetch = work.fetch
    BY <2>1, <2>3, WorkSame DEF Work
  <2>5. /\ procs' \subseteq procs
        /\ UNCHANGED rem \/ rem' = [rem EXCEPT ![j.host] = Without(@, Name(j))]
    BY <2>1
  <2>6. RemoteTyped'
    <3>1. CASE UNCHANGED rem
      BY <3>1, <2>5, WorkSame, FewerProcs
    <3>2. CASE rem' = [rem EXCEPT ![j.host] = Without(@, Name(j))]
      <4>1. PICK d : d = Without(rem[j.host], Name(j))
        OBVIOUS
      <4>2. Files(rem[j.host])
        BY <2>3, WorkSame DEF RemoteTyped
      <4>3. Files(d)
        <5>1. PICK f : f = Name(j)
          OBVIOUS
        <5> QED  BY <4>1, <4>2, <5>1, FilesWithout
      <4>4. IsFiniteSet(procs') /\ \A x \in procs' : x \in Proc /\ x.lo < x.hi
        BY <2>5, WorkSame, FS_Subset DEF RemoteTyped
      <4>5. rem' = [rem EXCEPT ![j.host] = d]
        BY <3>2, <4>1
      <4> QED  BY <2>3, <4>3, <4>4, <4>5, WorkSame, RemoteStep
    <3> QED  BY <2>5, <3>1, <3>2
  <2>7. WorkShape'
    BY <2>2, <2>3, <2>4 DEF WorkShape, Checking
  <2>8. Files(local)' /\ pc' \in Label
    BY <2>2, WorkSame DEF Label
  <2> QED  BY <2>2, <2>4, <2>6, <2>7, <2>8, PollStep
<1>2. CASE CleanFetch
  <2> DEFINE j == work.job
  <2>1. /\ pc = "last" /\ UNCHANGED <<jobs, disk, nrels, lastCheck, work, rem, procs>>
        /\ UNCHANGED faults \/ \E k \in Kinds : Fault(k)
    BY <1>2, NetTyped DEF CleanFetch, At, remote
  <2>2. j \in ProperJob
    BY <2>1 DEF TypeInv, WorkShape
  <2>3. RemoteTyped'
    BY <2>1, WorkSame, RemoteSame
  <2>4. CASE pc' = "clean" /\ UNCHANGED local
    <3>1. WorkShape'
      BY <2>4 DEF WorkShape, Checking
    <3> QED  BY <3>1, <2>1, <2>3, <2>4, WorkSame, PollStep DEF Label
  <2>5. CASE /\ Name(j) \in DOMAIN rem[j.host]
             /\ local' = With(local, Name(j), rem[j.host][Name(j)])
             /\ pc' = "rm"
    <3>1. Files(local)' /\ DOMAIN local' = DOMAIN local \cup {Name(j)}
      BY <2>2, <2>5, CopyTyped
    <3>2. work.back = "clean"
      BY <2>1 DEF TypeInv, WorkShape
    <3>3. WorkShape'
      BY <3>1, <3>2, <2>1, <2>2, <2>5, SameOptions DEF WorkShape, Checking, Name
    <3> QED  BY <3>1, <3>3, <2>1, <2>3, <2>5, WorkSame, PollStep DEF Label
  <2> QED  BY <1>2, <2>4, <2>5 DEF CleanFetch
<1>3. CASE CleanDone
  <2>1. /\ disk' = {} /\ jobs' = {} /\ pc' = "done"
        /\ UNCHANGED <<local, nrels, lastCheck, work, rem, procs, faults>>
    BY <1>3 DEF CleanDone, remote
  <2>2. JobSet({})
    BY FS_EmptySet DEF JobSet
  <2>3. MasterTyped'
    BY <2>1, <2>2, WorkSame DEF MasterTyped, TypeInv, Label
  <2>4. WorkShape'
    BY <2>1 DEF WorkShape, Checking
  <2> QED  BY <2>1, <2>3, <2>4, WorkSame, RemoteSame, TypeBuilt
<1> QED  BY <1>1, <1>2, <1>3

\* The hole of the sequential mode has no file yet.
LEMMA SeqHoleIsNew ==
    ASSUME TypeInv, SeqHole # <<>>, NEW f, f = <<SeqHole[1], SeqHole[2], Sieve>>
    PROVE  /\ f \in ProperFile /\ f[3] = Sieve
           /\ \A g \in DOMAIN local : Apart(g[1], g[2], f[1], f[2]) /\ g[1] < g[2]
<1>1. scn \in Scenarios /\ Files(local) /\ JobSet({})
  BY WorkSame, FS_EmptySet DEF JobSet
<1>2. PICK m, h : m = MergeRanges(FileRanges) /\ h = SeqHole
  OBVIOUS
<1>3. /\ FileRanges \in SUBSET (Nat \X Nat) /\ IsFiniteSet(FileRanges)
      /\ \A r \in FileRanges : Lo(r) < Hi(r)
  BY <1>1, RangesTyped DEF TypeInv, MasterTyped
<1>4. m \in Seq(Nat \X Nat) /\ Separated(m) /\ \A r \in FileRanges : Within(r, m)
  BY <1>2, <1>3, MergedRanges
<1>5. h = FindHole(QMin, QMax, Size, m) /\ h # <<>>
  BY <1>2 DEF SeqHole
<1>6. /\ h[1] \in Nat /\ h[2] \in Nat /\ h[1] < h[2]
      /\ \A r \in Nat \X Nat : r[2] < QMin \/ Within(r, m) => Apart(r[1], r[2], h[1], h[2])
  BY <1>1, <1>4, <1>5, HoleIsApart
<1>7. Sieve \in BOOLEAN
  BY <1>1, Options
<1>8. f = <<h[1], h[2], Sieve>>
  BY <1>2
<1>9. f \in ProperFile /\ f[1] = h[1] /\ f[2] = h[2] /\ f[3] = Sieve
  BY <1>6, <1>7, <1>8 DEF ProperFile, File
<1>10. ASSUME NEW g \in DOMAIN local
       PROVE  Apart(g[1], g[2], f[1], f[2]) /\ g[1] < g[2]
  <2>1. PICK r : r = <<g[1], g[2]>>
    OBVIOUS
  <2>2. r \in FileRanges /\ r[1] = g[1] /\ r[2] = g[2]
    BY <2>1 DEF FileRanges
  <2>3. r \in Nat \X Nat /\ Within(r, m)
    BY <2>2, <1>3, <1>4
  <2>4. Apart(r[1], r[2], h[1], h[2])
    BY <2>3, <1>6
  <2>5. g[1] < g[2]
    BY <1>1, FileFields DEF Files
  <2> QED  BY <2>2, <2>4, <2>5, <1>9
<1> QED  BY <1>9, <1>10

LEMMA SeqType ==
    ASSUME TypeInv, UNCHANGED scn, SeqStart \/ SeqStep \/ SeqFinish
    PROVE  TypeInv'
<1> DEFINE w == work.file
<1>1. /\ UNCHANGED <<jobs, disk, nrels, lastCheck, rem, procs, faults>>
  BY DEF SeqStart, SeqStep, SeqFinish, remote
<1>2. RemoteTyped' /\ Files(local)
  BY <1>1, WorkSame, RemoteSame
<1>3. pc = "run" => w \in DOMAIN local /\ w \in ProperFile /\ Fits(w, local[w])
  BY <1>2 DEF TypeInv, WorkShape, Files
<1>4. CASE SeqStart
  <2>1. CASE pc' = "read" /\ UNCHANGED <<local, work>>
    <3>1. WorkShape'
      BY <2>1 DEF WorkShape, Checking
    <3> QED  BY <3>1, <2>1, <1>1, <1>2, WorkSame, PollStep DEF Label
  <2>2. CASE ~(pc' = "read" /\ UNCHANGED <<local, work>>)
    <3>1. PICK f : f = <<SeqHole[1], SeqHole[2], Sieve>>
      OBVIOUS
    <3>2. SeqHole # <<>> /\ local' = With(local, f, Fresh) /\ work' = [work EXCEPT !.file = f] /\ pc' = "run"
      BY <1>4, <2>2, <3>1 DEF SeqStart
    <3>3. f \in ProperFile
      BY <3>1, <3>2, SeqHoleIsNew
    <3>4. PICK d : d = local'
      OBVIOUS
    <3>5. Files(d) /\ DOMAIN d = DOMAIN local \cup {f}
      BY <3>2, <3>3, <3>4, <1>2, FreshFits, FilesWith
    <3>6. /\ work' \in Work /\ UNCHANGED <<work.todo, work.kept, work.fetch>> /\ work'.file = f
      BY <3>2, <3>3, WorkSame DEF Work
    <3>7. WorkShape'
      BY <3>2, <3>3, <3>4, <3>5, <3>6 DEF WorkShape, Checking
    <3> QED  BY <3>2, <3>4, <3>5, <3>6, <3>7, <1>1, <1>2, PollStep DEF Label
  <2> QED  BY <2>1, <2>2
<1>5. CASE SeqStep
  <2>1. PICK c : c = [local[w] EXCEPT !.q = @ + 1]
    OBVIOUS
  <2>2. pc = "run" /\ pc' = "run" /\ UNCHANGED work /\ local[w].q < NumberOf(w) /\ local' = [local EXCEPT ![w] = c]
    BY <1>5, <2>1 DEF SeqStep, At
  <2>3. Fits(w, c)
    <3>1. local[w].end # "total" \/ local[w].q = NumberOf(w)
      BY <2>2, <1>3 DEF Fits
    <3>2. NumberOf(w) \in Nat
      BY <2>2, <1>3, FileFields
    <3> QED  BY <3>1, <3>2, <2>1, <2>2, <1>3 DEF Fits, Content
  <2>4. PICK d : d = local'
    OBVIOUS
  <2>5. Files(d) /\ DOMAIN d = DOMAIN local
    BY <2>2, <2>3, <2>4, <1>2, <1>3, FilesExcept
  <2>6. WorkShape'
    BY <2>2, <2>4, <2>5, <1>3 DEF WorkShape, Checking
  <2> QED  BY <2>2, <2>4, <2>5, <2>6, <1>1, <1>2, WorkSame, PollStep DEF Label
<1>6. CASE SeqFinish
  <2>1. PICK c : c = [local[w] EXCEPT !.end = "total"]
    OBVIOUS
  <2>2. /\ pc = "run" /\ pc' = "check" /\ local[w].q = NumberOf(w) /\ local' = [local EXCEPT ![w] = c]
        /\ work' = [work EXCEPT !.file = w, !.back = "read", !.gz = w[3]]
    BY <1>6, <2>1 DEF SeqFinish, At, ToCheck
  <2>3. Fits(w, c)
    BY <2>1, <2>2, <1>3 DEF Fits, Content
  <2>4. PICK d : d = local'
    OBVIOUS
  <2>5. Files(d) /\ DOMAIN d = DOMAIN local
    BY <2>2, <2>3, <2>4, <1>2, <1>3, FilesExcept
  <2>6. w[3] \in BOOLEAN
    BY <2>2, <1>3, FileFields
  <2>7. /\ work' \in Work /\ UNCHANGED <<work.todo, work.kept, work.fetch>>
        /\ work'.file = w /\ work'.gz = w[3]
    BY <2>2, <2>6, WorkSame DEF Work
  <2>8. WorkShape'
    BY <2>2, <2>7, <1>3 DEF WorkShape, Checking
  <2> QED  BY <2>2, <2>4, <2>5, <2>7, <2>8, <1>1, <1>2, PollStep DEF Label
<1> QED  BY <1>4, <1>5, <1>6

-----------------------------------------------------------------------------
(* Every step keeps the invariant.                                         *)

LEMMA TypeStep ==
    ASSUME TypeInv, [Next]_vars
    PROVE  TypeInv' /\ UNCHANGED scn
<1>1. CASE UNCHANGED vars
  <2>1. UNCHANGED <<scn, master, rem, procs, faults>>
    BY <1>1 DEF vars, remote
  <2> QED  BY <2>1, WorkSame, RemoteSame, EnvironmentType DEF TypeInv
<1>2. CASE Next
  <2>1. UNCHANGED scn
    BY <1>2 DEF Next
  <2>2. CASE Master
    BY <2>1, <2>2, BootType, CheckType, ReadJobsType, AskAliveType, AskTailType, FetchType,
       FetchRmType, WriteType, HostsLoopType, LaunchType, IsDoneType, CleanType, SeqType
       DEF Master
  <2>3. CASE Environment
    BY <2>1, <2>3, ProcType, DownType, HostsType DEF Environment, Progress
  <2> QED  BY <1>2, <2>1, <2>2, <2>3 DEF Next
<1> QED  BY <1>1, <1>2

LEMMA TypeAlways == Spec => []TypeInv
<1>1. Init => TypeInv
  BY InitType
<1>2. TypeInv /\ [Next]_vars => TypeInv'
  BY TypeStep
<1> QED  BY <1>1, <1>2, PTL DEF Spec

LEMMA TypeImplied == TypeInv => TypeOK
<1> SUFFICES ASSUME TypeInv PROVE TypeOK
  OBVIOUS
<1>1. pc \in Label /\ jobs \subseteq Job /\ disk \subseteq Job /\ nrels \in Nat /\ lastCheck \in 0..nrels
  BY DEF TypeInv, MasterTyped, JobSet, ProperJob
<1>2. \A d : Files(d) => \A f \in DOMAIN d :
          f \in File /\ d[f] \in Content /\ d[f].q <= NumberOf(f) /\ f[1] < f[2]
  BY DEF Files, Fits, ProperFile
<1>3. \A d \in {local} \cup {rem[h] : h \in Host} : Files(d)
  BY DEF TypeInv, RemoteTyped
<1>4. \A x \in procs : x.host \in Host /\ x.pid \in 1..MaxPid /\ x.lo < x.hi
  BY DEF TypeInv, RemoteTyped, Proc
<1> QED  BY <1>1, <1>2, <1>3, <1>4 DEF TypeOK

\* The state of the master, its files and the processes is always of its type,
\* with any number of hosts, cores and failures.  It is what keeps the names and
\* contents of the output files together: whatever sieve_check cuts and renames,
\* no file is named after an empty range or holds more than its name says, and
\* the list of ranges find_hole works on is sorted, with gaps.
THEOREM TypeCorrect == Spec => []TypeOK
  BY TypeAlways, TypeImplied, PTL

-----------------------------------------------------------------------------
(* No work is lost.                                                        *)

LEMMA FileRemoved ==
    ASSUME RemoteTyped, NEW h \in Host, NEW f, rem' = [rem EXCEPT ![h] = Without(@, f)],
           NEW i \in Host, NEW g \in DOMAIN rem[i] \ DOMAIN rem'[i]
    PROVE  i = h /\ g = f
<1>1. PICK d : d = Without(rem[h], f)
  OBVIOUS
<1>2. Files(rem[h])
  BY DEF RemoteTyped
<1>3. DOMAIN d = DOMAIN rem[h] \ {f}
  BY <1>1, <1>2, FilesWithout
<1>4. rem'[i] = IF i = h THEN d ELSE rem[i]
  BY <1>1 DEF RemoteTyped
<1> QED  BY <1>3, <1>4

\* No other step takes away a file.
LEMMA FilesStay ==
    ASSUME TypeInv, NEW h \in Host, NEW d, DOMAIN rem[h] \subseteq DOMAIN d,
           rem' = [rem EXCEPT ![h] = d], NEW i \in Host
    PROVE  DOMAIN rem[i] \subseteq DOMAIN rem'[i]
<1>1. rem'[i] = IF i = h THEN d ELSE rem[i]
  BY DEF TypeInv, RemoteTyped
<1> QED  BY <1>1

LEMMA ProcFilesStay ==
    ASSUME TypeInv, NEW x \in procs, ProcOpen(x) \/ ProcStep(x) \/ ProcFinish(x), NEW i \in Host
    PROVE  DOMAIN rem[i] \subseteq DOMAIN rem'[i]
<1>1. x.host \in Host
  BY DEF TypeInv, RemoteTyped, Proc
<1>2. CASE UNCHANGED rem
  BY <1>2
<1>3. CASE \E d : DOMAIN rem[x.host] \subseteq DOMAIN d /\ rem' = [rem EXCEPT ![x.host] = d]
  BY <1>1, <1>3, FilesStay
<1>4. CASE ProcOpen(x)
  BY <1>3, <1>4 DEF ProcOpen, Opened, With
<1>5. CASE ProcStep(x)
  BY <1>3, <1>5 DEF ProcStep
<1>6. CASE ProcFinish(x)
  BY <1>2, <1>3, <1>6 DEF ProcFinish
<1> QED  BY <1>4, <1>5, <1>6

LEMMA KeepsWork ==
    ASSUME TypeInv, [Next]_vars, NEW h \in Host, NEW f \in DOMAIN rem[h] \ DOMAIN rem'[h],
           rem[h][f].end = "total"
    PROVE  f \in DOMAIN local \/ pc = "clean"
<1>1. RemoteTyped
  BY WorkSame
<1>2. CASE UNCHANGED rem
  BY <1>2
<1>3. CASE AskTail
  <2>1. /\ JobStatus(work.job) = -1 /\ pc = "tail"
        /\ rem' = [rem EXCEPT ![work.job.host] = Without(@, Name(work.job))]
    BY <1>2, <1>3, AskTailCases
  <2>2. work.job.host \in Host
    <3>1. work.job \in ProperJob
      BY <2>1 DEF TypeInv, WorkShape
    <3> QED  BY <3>1, JobFields
  <2>3. h = work.job.host /\ f = Name(work.job)
    BY <1>1, <2>1, <2>2, FileRemoved
  <2>4. rem[work.job.host][Name(work.job)].end # "total"
    BY <2>1, <2>3 DEF JobStatus
  <2> QED  BY <2>3, <2>4
<1>4. CASE FetchRm
  <2>1. pc = "rm" /\ rem' = [rem EXCEPT ![work.job.host] = Without(@, Name(work.job))]
    BY <1>2, <1>4 DEF FetchRm, At
  <2>2. work.job.host \in Host /\ Name(work.job) \in DOMAIN local
    <3>1. work.job \in ProperJob /\ Name(work.job) \in DOMAIN local
      BY <2>1 DEF TypeInv, WorkShape
    <3> QED  BY <3>1, JobFields
  <2>3. PICK g : g = Name(work.job)
    OBVIOUS
  <2>4. f = g
    BY <1>1, <2>1, <2>2, <2>3, FileRemoved
  <2> QED  BY <2>2, <2>3, <2>4
<1>5. CASE CleanKill
  BY <1>5, CleanCases
<1>6. CASE Launch
  <2>1. CASE Runs
    <3>1. /\ pc = "start" /\ work.n > 0 /\ CanLaunch
      BY <1>6, LaunchCases
    <3>2. work.host \in Host
      BY <3>1, HoleTyped
    <3>3. PICK d : d = Opened(work.host, Name(NewJob))
      OBVIOUS
    <3>4. DOMAIN rem[work.host] \subseteq DOMAIN d
      BY <3>3 DEF Opened, With
    <3>5. rem' = [rem EXCEPT ![work.host] = d]
      BY <2>1, <3>3 DEF Runs
    <3> QED  BY <3>2, <3>4, <3>5, FilesStay
  <2> QED  BY <1>2, <1>6, <2>1, LaunchCases
<1>7. CASE \E pid \in 1..MaxPid : Progress(pid)
  BY <1>7, ProcFilesStay DEF Progress
<1>8. CASE UNCHANGED vars
  BY <1>2, <1>8 DEF vars, remote
<1>9. CASE Restart \/ Boot \/ Check
  BY <1>2, <1>9 DEF Restart, Boot, Check, CheckMissing, CheckInvalid, CheckClean, CheckPartial,
     CheckUnlink, CheckTruncate, CheckRename, CheckGzip, CheckUnchanged, remote
<1>10. CASE ReadJobs \/ AskAlive \/ StatusDone \/ Fetch \/ FetchDone \/ WriteOpen \/ WriteClose
  BY <1>2, <1>10 DEF ReadJobs, AskAlive, StatusDone, Fetch, FetchDone, WriteOpen, WriteClose, remote
<1>11. CASE PickHost \/ NoHole \/ StartDone \/ IsDone \/ CleanFetch \/ CleanDone
  BY <1>2, <1>11 DEF PickHost, NoHole, StartDone, IsDone, CleanFetch, CleanDone, remote
<1>12. CASE SeqStart \/ SeqStep \/ SeqFinish
  BY <1>2, <1>12 DEF SeqStart, SeqStep, SeqFinish, remote
<1>13. CASE (\E x \in procs : ProcDie(x)) \/ (\E i \in Host : Reboot(i)) \/ Crash \/ SeqFail
  BY <1>2, <1>13 DEF ProcDie, Reboot, Crash, SeqFail, remote
<1> QED  BY <1>3, <1>4, <1>5, <1>6, <1>7, <1>8, <1>9, <1>10, <1>11, <1>12, <1>13
         DEF Next, Master, Environment

\* distribute_task never throws away complete work: whatever the order of the ssh
\* calls, the failures and the crashes, the file of a job that ended is removed
\* from its host only when it is in the working directory, or when the task is
\* over.  (job_status asks kill -0 before it looks at the last line, so a job that
\* ends in between is found to be complete, not dead.)
THEOREM WorkKept == Spec => NoWorkLost
<1>1. TypeInv /\ [Next]_vars =>
        [\A h \in Host : \A f \in DOMAIN rem[h] \ DOMAIN rem'[h] :
            rem[h][f].end = "total" => f \in DOMAIN local \/ pc = "clean"]_vars
  BY KeepsWork
<1> QED  BY <1>1, TypeAlways, PTL DEF Spec, NoWorkLost

-----------------------------------------------------------------------------
(* The output files and their count.                                       *)

LEMMA NumbersIs ==
    ASSUME NEW d, Files(d), NEW S \in SUBSET DOMAIN d
    PROVE  /\ IsFiniteSet(S) /\ \A f \in S : d[f].q \in Nat
           /\ Numbers(d, S) = Sum([f \in S |-> d[f].q], S)
<1>1. IsFiniteSet(S) /\ \A f \in S : d[f].q \in Nat
  BY FS_Subset DEF Files, Fits, Content
<1>2. DOMAIN [f \in S |-> d[f].q] = S
  OBVIOUS
<1> QED  BY <1>1, <1>2 DEF Numbers, SumFunction, Sum

LEMMA NumbersSame ==
    ASSUME NEW d, NEW e, NEW S, \A f \in S : e[f] = d[f]
    PROVE  Numbers(e, S) = Numbers(d, S)
<1>1. [f \in S |-> e[f].q] = [f \in S |-> d[f].q]
  OBVIOUS
<1> QED  BY <1>1 DEF Numbers

LEMMA NumbersMore ==
    ASSUME NEW d, Files(d), NEW S \in SUBSET DOMAIN d, NEW f \in DOMAIN d \ S
    PROVE  Numbers(d, S \cup {f}) = Numbers(d, S) + d[f].q
<1>1. PICK T : T = S \cup {f}
  OBVIOUS
<1>2. T \in SUBSET DOMAIN d /\ f \in T /\ T \ {f} = S
  BY <1>1
<1>3. PICK F : F = [g \in T |-> d[g].q]
  OBVIOUS
<1>4. PICK G : G = [g \in S |-> d[g].q]
  OBVIOUS
<1>5. IsFiniteSet(T) /\ \A g \in T : F[g] \in Nat
  BY <1>2, <1>3, NumbersIs
<1>6. Sum(F, T) \in Nat /\ Sum(F, S) \in Nat /\ Sum(F, T) = F[f] + Sum(F, S)
  BY <1>2, <1>5, SumSplit
<1>7. Sum(F, S) = Sum(G, S)
  <2>1. \A g \in S : F[g] \in Nat /\ G[g] = F[g]
    BY <1>2, <1>3, <1>4, <1>5
  <2>2. IsFiniteSet(S)
    BY NumbersIs
  <2> QED  BY <2>1, <2>2, SumAgrees
<1>8. Numbers(d, T) = Sum(F, T) /\ Numbers(d, S) = Sum(G, S)
  BY <1>2, <1>3, <1>4, NumbersIs
<1>9. F[f] = d[f].q /\ F[f] \in Nat
  BY <1>2, <1>3, <1>5
<1> QED  BY <1>1, <1>6, <1>7, <1>8, <1>9

LEMMA CountKept ==
    ASSUME Counted, ~Doomed, pc # "down", pc' # "down", UNCHANGED <<scn, nrels>>,
           Checked' = Checked, \A f \in Checked : local'[f] = local[f]
    PROVE  Counted'
<1>1. PICK d, e, S : d = local /\ e = local' /\ S = Checked
  OBVIOUS
<1>2. Numbers(e, S) = Numbers(d, S)
  BY <1>1, NumbersSame
<1>3. Sieve' = Sieve
  BY SameOptions
<1>4. Numbers(local, Checked)' = Numbers(e, S)
  BY <1>1 DEF Numbers
<1> QED  BY <1>1, <1>2, <1>3, <1>4 DEF Counted

LEMMA CountMore ==
    ASSUME Counted, ~Doomed, pc # "down", pc' # "down", UNCHANGED scn, Files(local)',
           Checked \subseteq DOMAIN local', NEW f \in DOMAIN local' \ Checked, Import(local'[f]),
           Checked' = Checked \cup {f}, \A g \in Checked : local'[g] = local[g]
    PROVE  Counted'
<1>1. PICK d, e, S : d = local /\ e = local' /\ S = Checked
  OBVIOUS
<1>2. Numbers(e, S) = Numbers(d, S)
  BY <1>1, NumbersSame
<1>3. Numbers(e, S \cup {f}) = Numbers(e, S) + e[f].q
  <2>1. Files(e) /\ S \in SUBSET DOMAIN e /\ f \in DOMAIN e \ S
    BY <1>1
  <2> QED  BY <2>1, NumbersMore
<1>4. Sieve' = Sieve
  BY SameOptions
<1>5. Numbers(local, Checked)' = Numbers(e, S \cup {f})
  BY <1>1 DEF Numbers
<1> QED  BY <1>1, <1>2, <1>3, <1>4, <1>5 DEF Counted, Import

\* Where no file is being made, fetched or checked.
Quiet == Label \ (Checking \cup {"boot", "run", "rm", "down"})

LEMMA QuietFacts ==
    ASSUME FileInv, pc \in Quiet
    PROVE  /\ work.files = {} /\ (\A f : ~Pending(f)) /\ Checked = DOMAIN local /\ ~Doomed
           /\ \A f \in DOMAIN local : Recorded(f)
           /\ pc # "down" /\ pc \notin Checking \cup {"boot", "run", "rm"}
<1>1. pc # "down" /\ pc \notin Checking \cup {"boot", "run", "rm"}
  BY DEF Quiet
<1>2. work.files = {}
  BY <1>1 DEF FileInv, FilesLeft
<1>3. \A f : ~Pending(f)
  BY <1>1, <1>2 DEF Pending, Checking
<1>4. ~Doomed
  BY <1>1 DEF Doomed, Checking
<1> QED  BY <1>1, <1>2, <1>3, <1>4 DEF FileInv, Single, Checked

\* Steps that do not touch the files, and leave the master where they are not.
LEMMA QuietStep ==
    ASSUME FileInv, UNCHANGED <<scn, local, nrels>>, pc \in Quiet, pc' \in Quiet,
           work'.files = {}
    PROVE  FileInv'
<1>1. pc' # "down" /\ pc' \notin Checking \cup {"boot", "run", "rm"}
  BY DEF Quiet
<1>2. (\A f : ~Pending(f)') /\ ~Doomed'
  BY <1>1 DEF Pending, Checking, Doomed
<1>3. FilesLeft' /\ Repairing' /\ Marked'
  BY <1>1, QuietFacts DEF FileInv, FilesLeft, Repairing, Checking, Marked
<1>4. Compressed'
  <2>1. \A f \in DOMAIN local :
            f[3] = Sieve \/ (~f[3] /\ Whole(f) /\ Gz(f) \in DOMAIN local /\ Whole(Gz(f)))
    BY QuietFacts DEF FileInv, Compressed, Checking
  <2> QED  BY <2>1, SameOptions DEF Compressed, Whole
<1>5. Single'
  BY <1>1, QuietFacts DEF Single, Recorded, Checking
<1>6. Counted'
  <2>1. Checked' = Checked
    BY <1>2, QuietFacts DEF Checked
  <2> QED  BY <1>1, <2>1, QuietFacts, CountKept DEF FileInv
<1> QED  BY <1>3, <1>4, <1>5, <1>6 DEF FileInv

\* Steps of the processes and hosts.
LEMMA OutsideStep ==
    ASSUME FileInv, UNCHANGED <<scn, master>>
    PROVE  FileInv'
<1> USE DEF master
<1>1. /\ \A f : Pending(f)' <=> Pending(f)
      /\ \A f : Recorded(f)' <=> Recorded(f)
      /\ Doomed' <=> Doomed
      /\ Sieve' = Sieve
  BY SameOptions DEF Pending, Doomed, Recorded, Name
<1>2. FilesLeft' /\ Repairing' /\ Marked'
  BY <1>1 DEF FileInv, FilesLeft, Repairing, Marked, Whole
<1>3. Compressed'
  BY <1>1 DEF FileInv, Compressed, Whole
<1>4. Single'
  BY <1>1 DEF FileInv, Single
<1>5. Counted'
  <2>1. Checked' = Checked
    BY <1>1 DEF Checked
  <2> QED  BY <1>1, <2>1 DEF FileInv, Counted
<1> QED  BY <1>2, <1>3, <1>4, <1>5 DEF FileInv

\* The master dies outside the check.
LEMMA DownFiles ==
    ASSUME FileInv, UNCHANGED <<scn, local>>, pc \notin Checking, pc' = "down", nrels' = 0, work' = NoWork
    PROVE  FileInv'
<1>1. work'.files = {}
  BY NoWorkTyped
<1>2. FilesLeft' /\ Repairing' /\ Counted'
  BY <1>1 DEF FilesLeft, Repairing, Counted, Checking
<1>3. Marked' /\ Single'
  BY DEF FileInv, Marked, Single, Recorded, Checking
<1>4. Compressed'
  BY SameOptions DEF FileInv, Compressed, Whole, Checking
<1> QED  BY <1>2, <1>3, <1>4 DEF FileInv

\* The files on the hosts have no marker.
LEMMA MarkersStep ==
    ASSUME TypeInv, NoMarkers, [Next]_vars
    PROVE  NoMarkers'
<1>1. \A h \in Host : rem[h] = [f \in DOMAIN rem[h] |-> rem[h][f]]
  BY DEF TypeInv, RemoteTyped, Files
<1>2. CASE UNCHANGED rem
  BY <1>2 DEF NoMarkers
<1>3. ASSUME NEW h \in Host, NEW d, rem' = [rem EXCEPT ![h] = d],
             \A f \in DOMAIN d : \/ d[f].end \in {"none", "mixed", "total"}
                                 \/ f \in DOMAIN rem[h] /\ d[f] = rem[h][f]
      PROVE  NoMarkers'
  <2>1. \A i \in Host : rem'[i] = IF i = h THEN d ELSE rem[i]
    BY <1>3 DEF TypeInv, RemoteTyped
  <2> QED  BY <1>3, <2>1 DEF NoMarkers
<1>4. ASSUME NEW h \in Host, NEW f, rem' = [rem EXCEPT ![h] = Without(@, f)]
      PROVE  NoMarkers'
  <2>1. PICK d : d = Without(rem[h], f)
    OBVIOUS
  <2>a. DOMAIN d = DOMAIN rem[h] \ {f} /\ \A g \in DOMAIN d : d[g] = rem[h][g]
    BY <2>1 DEF Without, Restrict
  <2>2. \A g \in DOMAIN d : \/ d[g].end \in {"none", "mixed", "total"}
                            \/ g \in DOMAIN rem[h] /\ d[g] = rem[h][g]
    BY <2>a
  <2>3. rem' = [rem EXCEPT ![h] = d]
    BY <1>4, <2>1
  <2> QED  BY ZenonT(60), <1>3, <2>2, <2>3
<1>5. ASSUME NEW h \in Host, NEW f, rem' = [rem EXCEPT ![h] = Opened(h, f)]
      PROVE  NoMarkers'
  <2>1. PICK d : d = Opened(h, f)
    OBVIOUS
  <2>2. \A g \in DOMAIN d : \/ d[g].end \in {"none", "mixed", "total"}
                            \/ g \in DOMAIN rem[h] /\ d[g] = rem[h][g]
    BY <2>1 DEF Opened, With, Fresh
  <2>3. rem' = [rem EXCEPT ![h] = d]
    BY <1>5, <2>1
  <2> QED  BY ZenonT(60), <1>3, <2>2, <2>3
<1>6. CASE \E pid \in 1..MaxPid : Progress(pid)
  <2>1. PICK x \in procs : ProcOpen(x) \/ ProcStep(x) \/ ProcFinish(x)
    BY <1>6 DEF Progress
  <2>2. x.host \in Host
    BY DEF TypeInv, RemoteTyped, Proc
  <2>3. CASE ProcOpen(x)
    BY <1>5, <2>2, <2>3 DEF ProcOpen
  <2>5. CASE ProcStep(x)
    <3>1. PICK h, f, c, d : /\ h = x.host /\ f = Name(x) /\ c = [rem[h][f] EXCEPT !.q = @ + 1]
                            /\ d = [rem[h] EXCEPT ![f] = c]
      OBVIOUS
    <3>2. f \in DOMAIN rem[h] /\ rem[h][f].end = "none" /\ rem' = [rem EXCEPT ![h] = d]
      BY <2>5, <3>1 DEF ProcStep
    <3>3. rem[h][f] \in Content
      BY <3>1, <3>2, <2>2 DEF TypeInv, RemoteTyped, Files, Fits
    <3>4. c.end = "none"
      BY <3>1, <3>2, <3>3 DEF Content
    <3>5. \A g \in DOMAIN d : \/ d[g].end \in {"none", "mixed", "total"}
                              \/ g \in DOMAIN rem[h] /\ d[g] = rem[h][g]
      BY <3>1, <3>4
    <3>6. h \in Host
      BY <3>1, <2>2
    <3> QED  BY ZenonT(60), <3>2, <3>5, <3>6, <1>3
  <2>6. CASE ProcFinish(x) /\ ~UNCHANGED rem
    <3>1. PICK h, f, c, d : /\ h = x.host /\ f = Name(x) /\ c = [rem[h][f] EXCEPT !.end = "total"]
                            /\ d = [rem[h] EXCEPT ![f] = c]
      OBVIOUS
    <3>2. f \in DOMAIN rem[h] /\ rem' = [rem EXCEPT ![h] = d]
      BY <2>6, <3>1 DEF ProcFinish
    <3>3. rem[h][f] \in Content
      BY <3>1, <3>2, <2>2 DEF TypeInv, RemoteTyped, Files, Fits
    <3>4. c.end = "total"
      BY <3>1, <3>2, <3>3 DEF Content
    <3>5. \A g \in DOMAIN d : \/ d[g].end \in {"none", "mixed", "total"}
                              \/ g \in DOMAIN rem[h] /\ d[g] = rem[h][g]
      BY <3>1, <3>4
    <3>6. h \in Host
      BY <3>1, <2>2
    <3> QED  BY ZenonT(60), <3>2, <3>5, <3>6, <1>3
  <2> QED  BY <1>2, <2>1, <2>3, <2>5, <2>6
<1>7. CASE AskTail
  <2>1. CASE rem' = [rem EXCEPT ![work.job.host] = Without(@, Name(work.job))]
    <3>1. work.job \in ProperJob
      BY <1>7, AskTailCases DEF TypeInv, WorkShape
    <3> QED  BY <3>1, <2>1, <1>4, JobFields
  <2> QED  BY <1>2, <1>7, <2>1, AskTailCases
<1>8. CASE FetchRm
  <2>1. CASE rem' = [rem EXCEPT ![work.job.host] = Without(@, Name(work.job))]
    <3>1. work.job \in ProperJob
      BY <1>8 DEF FetchRm, At, TypeInv, WorkShape
    <3> QED  BY <3>1, <2>1, <1>4, JobFields
  <2> QED  BY <1>2, <1>8, <2>1 DEF FetchRm
<1>9. CASE CleanKill
  <2>1. PICK j \in work.todo : UNCHANGED rem \/ rem' = [rem EXCEPT ![j.host] = Without(@, Name(j))]
    BY <1>9, CleanCases
  <2>2. j.host \in Host
    BY JobFields, WorkSame, WorkFields
  <2> QED  BY <1>2, <1>4, <2>1, <2>2
<1>10. CASE Launch
  <2>1. CASE Runs
    <3>1. work.host \in Host
      BY <1>10, LaunchCases, HoleTyped
    <3> QED  BY <1>5, <2>1, <3>1 DEF Runs
  <2> QED  BY <1>2, <1>10, <2>1, LaunchCases
<1>11. CASE UNCHANGED vars
  BY <1>2, <1>11 DEF vars, remote
<1>12. CASE Restart \/ Boot \/ Check
  BY <1>2, <1>12 DEF Restart, Boot, Check, CheckMissing, CheckInvalid, CheckClean, CheckPartial,
     CheckUnlink, CheckTruncate, CheckRename, CheckGzip, CheckUnchanged, remote
<1>13. CASE ReadJobs \/ AskAlive \/ StatusDone \/ Fetch \/ FetchDone \/ WriteOpen \/ WriteClose
  BY <1>2, <1>13 DEF ReadJobs, AskAlive, StatusDone, Fetch, FetchDone, WriteOpen, WriteClose, remote
<1>14. CASE PickHost \/ NoHole \/ StartDone \/ IsDone \/ CleanFetch \/ CleanDone
  BY <1>2, <1>14 DEF PickHost, NoHole, StartDone, IsDone, CleanFetch, CleanDone, remote
<1>15. CASE SeqStart \/ SeqStep \/ SeqFinish
  BY <1>2, <1>15 DEF SeqStart, SeqStep, SeqFinish, remote
<1>16. CASE (\E x \in procs : ProcDie(x)) \/ (\E i \in Host : Reboot(i)) \/ Crash \/ SeqFail
  BY <1>2, <1>16 DEF ProcDie, Reboot, Crash, SeqFail, remote
<1> QED  BY <1>6, <1>7, <1>8, <1>9, <1>10, <1>11, <1>12, <1>13, <1>14, <1>15, <1>16
         DEF Next, Master, Environment

-----------------------------------------------------------------------------
(* The start of the master, and what it makes and fetches.                 *)

LEMMA RestartFiles ==
    ASSUME TypeInv, FileInv, UNCHANGED scn, Restart
    PROVE  FileInv'
<1>1. /\ pc = "down" /\ pc' = "boot" /\ UNCHANGED <<local, nrels>>
      /\ work'.files = DOMAIN local
  BY DEF Restart, NoWork
<1>2. FilesLeft' /\ Repairing' /\ Marked'
  BY <1>1 DEF FileInv, FilesLeft, Repairing, Marked, Checking
<1>3. Compressed'
  BY <1>1, SameOptions DEF FileInv, Compressed, Whole
<1>4. Single'
  BY <1>1 DEF FileInv, Single, Recorded, Pending
<1>5. Counted'
  <2>1. Checked' = {}
    BY <1>1 DEF Checked, Pending
  <2>2. [f \in {} |-> local'[f].q] = [f \in {} |-> 0]
    OBVIOUS
  <2>3. PICK g : g = [f \in {} |-> 0]
    OBVIOUS
  <2>4. SumFunction(g) = 0 /\ DOMAIN g = {}
    BY <2>3, SumEmpty DEF SumFunction, Sum
  <2>5. Numbers(local, Checked)' = 0
    BY <2>1, <2>2, <2>3, <2>4 DEF Numbers
  <2> QED  BY <1>1, <2>5 DEF FileInv, Counted
<1> QED  BY <1>2, <1>3, <1>4, <1>5 DEF FileInv

LEMMA BootFiles ==
    ASSUME TypeInv, FileInv, UNCHANGED scn, Boot
    PROVE  FileInv'
<1>1. pc = "boot" /\ UNCHANGED <<local, nrels>>
  BY DEF Boot, At
<1>2. ~Doomed /\ \A f : Pending(f) <=> f \in work.files
  BY <1>1 DEF Doomed, Pending, Checking
<1>3. /\ pc' \in {"read", "check"}
      /\ pc' = "check" => work'.back = "boot" /\ work'.file \notin work'.files
      /\ pc' = "read" => work'.files = {}
      /\ work'.files \subseteq DOMAIN local
      /\ \A f : Pending(f)' <=> f \in work.files
  <2>1. CASE work.files = {}
    BY <1>1, <2>1 DEF Boot, Pending, Checking
  <2>2. CASE work.files # {}
    <3>1. PICK f \in work.files :
             /\ pc' = "check"
             /\ work' = [work EXCEPT !.files = @ \ {f}, !.file = f, !.back = "boot", !.gz = f[3]]
      BY <2>2 DEF Boot
    <3>2. work'.files = work.files \ {f} /\ work'.file = f /\ work'.back = "boot"
      BY <3>1, WorkSame DEF Work
    <3> QED  BY <3>1, <3>2 DEF FileInv, FilesLeft, Pending, Checking
  <2> QED  BY <2>1, <2>2
<1>4. FilesLeft' /\ Repairing' /\ Marked'
  BY <1>1, <1>3 DEF FileInv, FilesLeft, Repairing, Marked, Checking
<1>5. Compressed'
  BY <1>1, <1>3, SameOptions DEF FileInv, Compressed, Whole
<1>6. Single'
  BY <1>1, <1>2, <1>3 DEF FileInv, Single, Recorded
<1>7. Counted'
  <2>1. Checked' = Checked
    BY <1>1, <1>2, <1>3 DEF Checked
  <2> QED  BY <1>1, <1>2, <1>3, <2>1, CountKept DEF FileInv
<1> QED  BY <1>4, <1>5, <1>6, <1>7 DEF FileInv

\* A new file, which is still to be checked.
LEMMA NewFile ==
    ASSUME TypeInv, FileInv, UNCHANGED <<scn, nrels>>, pc \in Quiet,
           NEW f, f \notin DOMAIN local, f[3] = Sieve,
           DOMAIN local' = DOMAIN local \cup {f}, \A g \in DOMAIN local : local'[g] = local[g],
           local'[f].end # "marker", pc' \in {"rm", "run"}, work'.files = {},
           pc' = "rm" => f = Name(work'.job),
           pc' = "run" => f = work'.file /\ local'[f].end = "none"
    PROVE  FileInv'
<1>1. \A g : Pending(g)' <=> g = f
  BY SameOptions DEF Pending, Checking, Name
<1>2. /\ Checked = DOMAIN local /\ ~Doomed /\ pc # "down"
      /\ \A g \in DOMAIN local : Recorded(g)
      /\ pc \notin Checking \cup {"boot", "run", "rm"}
  BY QuietFacts
<1>3. FilesLeft'
  BY DEF FilesLeft, Checking
<1>4. Repairing'
  BY DEF Repairing
<1>5. Marked'
  BY <1>2 DEF FileInv, Marked, Checking
<1>6. Compressed'
  <2>1. \A g \in DOMAIN local :
            g[3] = Sieve \/ (~g[3] /\ Whole(g) /\ Gz(g) \in DOMAIN local /\ Whole(Gz(g)))
    BY <1>2 DEF FileInv, Compressed, Checking
  <2>2. \A g \in DOMAIN local : Whole(g)' <=> Whole(g)
    BY DEF Whole
  <2> QED  BY <2>1, <2>2, SameOptions DEF Compressed
<1>7. Single'
  BY <1>1, <1>2 DEF Single, Recorded
<1>8. Counted'
  <2>1. Checked' = Checked
    BY <1>1, <1>2 DEF Checked
  <2> QED  BY <1>2, <2>1, CountKept DEF FileInv
<1> QED  BY <1>3, <1>4, <1>5, <1>6, <1>7, <1>8 DEF FileInv

LEMMA FetchFiles ==
    ASSUME TypeInv, FileInv, NoMarkers, UNCHANGED scn, Fetch \/ CleanFetch
    PROVE  FileInv'
<1>1. pc \in {"fetch", "last"} /\ UNCHANGED nrels
  BY DEF Fetch, CleanFetch, At
<1>2. pc \in Quiet
  BY <1>1 DEF Quiet, Label, Checking
<1>3. work.files = {}
  BY <1>2, QuietFacts
<1>4. work'.files = {}
  BY <1>3, WorkSame DEF Fetch, CleanFetch, Work
<1>5. \/ UNCHANGED local /\ pc' \in {"fetch", "clean"}
      \/ /\ pc' = "rm" /\ Name(work'.job) \notin DOMAIN local
         /\ Name(work'.job) \in DOMAIN rem[work'.job.host] /\ work'.job \in ProperJob
         /\ local' = With(local, Name(work'.job), rem[work'.job.host][Name(work'.job)])
  <2>1. CASE Fetch
    <3>1. PICK j \in work.fetch :
             \/ UNCHANGED <<pc, local>>
             \/ /\ Name(j) \notin DOMAIN local /\ Name(j) \in DOMAIN rem[j.host]
                /\ local' = With(local, Name(j), rem[j.host][Name(j)])
                /\ work' = [[work EXCEPT !.fetch = @ \ {j}, !.job = NoJob]
                              EXCEPT !.job = j, !.back = "fetch"]
                /\ pc' = "rm"
      BY <2>1 DEF Fetch
    <3>2. j \in ProperJob
      BY WorkSame, WorkFields
    <3>3. CASE UNCHANGED <<pc, local>>
      BY <2>1, <3>3 DEF Fetch, At
    <3>4. CASE ~UNCHANGED <<pc, local>>
      <4>1. work'.job = j
        BY <3>1, <3>4, WorkSame DEF Work
      <4> QED  BY <3>1, <3>2, <3>4, <4>1
    <3> QED  BY <3>3, <3>4
  <2>2. CASE CleanFetch
    <3>1. work.job \in ProperJob
      BY <2>2 DEF CleanFetch, At, TypeInv, WorkShape
    <3> QED  BY <2>2, <3>1 DEF CleanFetch
  <2> QED  BY <2>1, <2>2
<1>6. CASE UNCHANGED local /\ pc' \in {"fetch", "clean"}
  <2>1. pc' \in Quiet
    BY <1>6 DEF Quiet, Label, Checking
  <2> QED  BY <1>1, <1>2, <1>4, <1>6, <2>1, QuietStep
<1>7. CASE ~(UNCHANGED local /\ pc' \in {"fetch", "clean"})
  <2>1. PICK f, j : j = work'.job /\ f = Name(j)
    OBVIOUS
  <2>2. /\ pc' = "rm" /\ f \notin DOMAIN local /\ f \in DOMAIN rem[j.host] /\ j \in ProperJob
        /\ local' = With(local, f, rem[j.host][f])
    BY <1>5, <1>7, <2>1
  <2>3. f[3] = Sieve /\ j.host \in Host
    BY <2>1, <2>2, JobFields DEF Name
  <2>4. rem[j.host][f].end # "marker"
    BY <2>2, <2>3 DEF NoMarkers
  <2>5. /\ DOMAIN local' = DOMAIN local \cup {f} /\ local'[f] = rem[j.host][f]
        /\ \A g \in DOMAIN local : local'[g] = local[g]
    BY <2>2 DEF With
  <2>6. pc' = "rm" => f = Name(work'.job)
    BY <2>1
  <2> QED  BY <1>1, <1>2, <1>4, <2>2, <2>3, <2>4, <2>5, <2>6, NewFile
<1> QED  BY <1>6, <1>7

LEMMA FetchRmFiles ==
    ASSUME TypeInv, FileInv, UNCHANGED scn, FetchRm
    PROVE  FileInv'
<1>1. /\ pc = "rm" /\ pc' = "check" /\ UNCHANGED <<local, nrels>>
      /\ work' = [work EXCEPT !.file = Name(work.job), !.back = work.back, !.gz = Name(work.job)[3]]
  BY DEF FetchRm, ToCheck, At
<1>2. work'.file = Name(work.job) /\ work'.back = work.back /\ work'.files = work.files
  BY <1>1, WorkSame DEF Work
<1>3. work.files = {} /\ ~Doomed
  BY <1>1 DEF FileInv, FilesLeft, Checking, Doomed
<1>4. \A f : Pending(f)' <=> Pending(f)
  BY <1>1, <1>2 DEF Pending, Checking
<1>5. FilesLeft' /\ Repairing' /\ Marked'
  BY <1>1, <1>2, <1>3 DEF FileInv, FilesLeft, Repairing, Marked, Checking
<1>6. Compressed'
  BY <1>1, SameOptions DEF FileInv, Compressed, Whole
<1>7. Single'
  BY <1>1, <1>4 DEF FileInv, Single, Recorded
<1>8. Counted'
  <2>1. Checked' = Checked
    BY <1>1, <1>4 DEF Checked
  <2> QED  BY <1>1, <1>3, <2>1, CountKept DEF FileInv
<1> QED  BY <1>5, <1>6, <1>7, <1>8 DEF FileInv

LEMMA SeqFiles ==
    ASSUME TypeInv, TypeInv', FileInv, UNCHANGED scn, SeqStart \/ SeqStep \/ SeqFinish
    PROVE  FileInv'
<1> DEFINE w == work.file
<1>0. UNCHANGED nrels /\ Files(local) /\ Files(local)'
  BY WorkSame DEF SeqStart, SeqStep, SeqFinish, TypeInv
<1>1. CASE SeqStart
  <2>1. pc \in Quiet
    BY <1>1 DEF SeqStart, At, Quiet, Label, Checking
  <2>2. work.files = {}
    BY <2>1, QuietFacts
  <2>3. CASE pc' = "read" /\ UNCHANGED <<local, work>>
    <3>1. pc' \in Quiet
      BY <2>3 DEF Quiet, Label, Checking
    <3> QED  BY <1>0, <2>1, <2>2, <2>3, <3>1, QuietStep
  <2>4. CASE ~(pc' = "read" /\ UNCHANGED <<local, work>>)
    <3>1. PICK f : f = <<SeqHole[1], SeqHole[2], Sieve>>
      OBVIOUS
    <3>2. SeqHole # <<>> /\ local' = With(local, f, Fresh) /\ work' = [work EXCEPT !.file = f] /\ pc' = "run"
      BY <1>1, <2>4, <3>1 DEF SeqStart
    <3>3. /\ f \in ProperFile /\ f[3] = Sieve
          /\ \A g \in DOMAIN local : Apart(g[1], g[2], f[1], f[2]) /\ g[1] < g[2]
      BY <3>1, <3>2, SeqHoleIsNew
    <3>4. f \notin DOMAIN local
      BY <3>3, FileFields DEF Apart
    <3>5. /\ DOMAIN local' = DOMAIN local \cup {f} /\ local'[f].end = "none"
          /\ \A g \in DOMAIN local : local'[g] = local[g]
      BY <3>2, <3>4 DEF With, Fresh
    <3>6. work'.file = f /\ work'.files = {}
      BY <3>2, <2>2, WorkSame DEF Work
    <3> QED  BY <1>0, <2>1, <3>2, <3>3, <3>4, <3>5, <3>6, NewFile
  <2> QED  BY <2>3, <2>4
<1>2. CASE SeqStep \/ SeqFinish
  <2>1. /\ pc = "run" /\ w \in DOMAIN local /\ w \in ProperFile /\ local[w] \in Content
        /\ local[w].end = "none" /\ work.files = {} /\ ~Doomed
    BY <1>0, <1>2 DEF SeqStep, SeqFinish, At, TypeInv, WorkShape, FileInv, Repairing, FilesLeft,
       Checking, Doomed, Files, Fits
  <2>2. /\ DOMAIN local' = DOMAIN local /\ \A g \in DOMAIN local : g # w => local'[g] = local[g]
        /\ \/ pc' = "run" /\ local'[w].end = "none" /\ UNCHANGED work
           \/ /\ pc' = "check" /\ local'[w].end = "total"
              /\ work' = [work EXCEPT !.file = w, !.back = "read", !.gz = w[3]]
    <3>1. CASE SeqStep
      <4>1. PICK c : c = [local[w] EXCEPT !.q = @ + 1]
        OBVIOUS
      <4>2. c.end = "none" /\ local' = [local EXCEPT ![w] = c] /\ pc' = "run" /\ UNCHANGED work
        BY <3>1, <4>1, <2>1 DEF SeqStep, Content
      <4> QED  BY <4>2, <2>1
    <3>2. CASE SeqFinish
      <4>1. PICK c : c = [local[w] EXCEPT !.end = "total"]
        OBVIOUS
      <4>2. /\ c.end = "total" /\ local' = [local EXCEPT ![w] = c] /\ pc' = "check"
            /\ work' = [work EXCEPT !.file = w, !.back = "read", !.gz = w[3]]
        BY <3>2, <4>1, <2>1 DEF SeqFinish, ToCheck, Content
      <4> QED  BY <4>2, <2>1
    <3> QED  BY <1>2, <3>1, <3>2
  <2>3. /\ work'.file = w /\ work'.files = {} /\ (pc' = "check" => work'.back = "read")
    BY <2>1, <2>2, WorkSame DEF Work
  <2>4. (\A g : Pending(g) <=> g = w) /\ (\A g : Pending(g)' <=> g = w)
    BY <2>1, <2>2, <2>3 DEF Pending, Checking
  <2>5. FilesLeft' /\ Repairing' /\ Marked'
    BY <2>1, <2>2, <2>3 DEF FileInv, FilesLeft, Repairing, Marked, Checking
  <2>6. Compressed'
    <3>1. \A g \in DOMAIN local :
            g[3] = Sieve \/ (~g[3] /\ Whole(g) /\ Gz(g) \in DOMAIN local /\ Whole(Gz(g)))
      BY <2>1 DEF FileInv, Compressed
    <3>2. \A g \in DOMAIN local : Whole(g) => g # w /\ Whole(g)'
      BY <2>1, <2>2 DEF Whole
    <3> QED  BY <2>2, <3>1, <3>2, SameOptions DEF Compressed
  <2>7. Single'
    BY <2>1, <2>2, <2>3, <2>4 DEF FileInv, Single, Recorded
  <2>8. Counted'
    <3>1. Checked' = Checked /\ \A g \in Checked : local'[g] = local[g]
      BY <2>2, <2>4 DEF Checked
    <3> QED  BY <1>0, <2>1, <2>2, <3>1, CountKept DEF FileInv
  <2> QED  BY <2>5, <2>6, <2>7, <2>8 DEF FileInv
<1> QED  BY <1>1, <1>2

-----------------------------------------------------------------------------
(* The check of a file.                                                    *)

LEMMA BackFiles ==
    ASSUME TypeInv, FileInv, UNCHANGED scn, pc \in Checking, pc' = work.back, UNCHANGED work
    PROVE  /\ pc' # "down" /\ pc' \notin Checking \cup {"run", "rm"} /\ ~Doomed'
           /\ \A f : Pending(f)' <=> f \in work.files
           /\ Repairing' /\ (work.files \subseteq DOMAIN local' => FilesLeft')
<1>1. pc' \in {"boot", "read", "fetch", "clean"}
  BY WorkSame, WorkFields
<1>2. pc' # "boot" => work.files = {}
  BY DEF FileInv, FilesLeft
<1>3. pc' # "down" /\ pc' \notin Checking \cup {"run", "rm"} /\ ~Doomed'
  BY <1>1 DEF Checking, Doomed
<1>4. \A f : Pending(f)' <=> f \in work.files
  BY <1>1 DEF Pending, Checking
<1>5. Repairing' /\ (work.files \subseteq DOMAIN local' => FilesLeft')
  BY <1>1, <1>2 DEF Repairing, FilesLeft, Checking
<1> QED  BY <1>3, <1>4, <1>5

\* During a check but for the removal of a compressed file, and unless the master
\* is going to die, the files to be counted are those that are neither left from
\* the start nor being checked.
LEMMA CheckFacts ==
    ASSUME TypeInv, FileInv, pc \in Checking
    PROVE  /\ pc # "down" /\ work.files \subseteq DOMAIN local
           /\ (pc # "gzip" => ~Doomed) /\ (~Doomed => work.file \notin work.files)
           /\ work.file \in ProperFile
           /\ \A f : Pending(f) <=> \/ f \in work.files \/ f = work.file
                                    \/ pc = "unlink" /\ f = Plain(work.file)
  BY DEF FileInv, FilesLeft, Doomed, TypeInv, WorkShape, Pending, Checking

\* A check that ends with the file removed or missing.
LEMMA CheckDropped ==
    ASSUME TypeInv, TypeInv', FileInv, UNCHANGED <<scn, nrels, work>>, pc \in {"check", "trunc"},
           pc' = work.back, work.file \in DOMAIN local => ~Whole(work.file),
           DOMAIN local' = DOMAIN local \ {work.file}, \A f \in DOMAIN local' : local'[f] = local[f]
    PROVE  FileInv'
<1> DEFINE w == work.file
<1>1. pc \in Checking /\ pc # "gzip" /\ pc # "unlink"
  BY DEF Checking
<1>2. /\ work.files \subseteq DOMAIN local /\ ~Doomed /\ w \notin work.files /\ pc # "down"
      /\ \A f : Pending(f) <=> f \in work.files \/ f = w
  BY <1>1, CheckFacts
<1>3. /\ pc' # "down" /\ pc' \notin Checking \cup {"run", "rm"}
      /\ \A f : Pending(f)' <=> f \in work.files
      /\ Repairing' /\ (work.files \subseteq DOMAIN local' => FilesLeft')
  BY <1>1, BackFiles
<1>4. FilesLeft'
  BY <1>2, <1>3
<1>5. Marked'
  BY <1>1, <1>3 DEF FileInv, Marked, Checking
<1>6. Compressed'
  <2>1. w \in ProperFile
    BY <1>1, CheckFacts
  <2>2. \A f \in DOMAIN local' : f[3] = Sieve \/ (~f[3] /\ Whole(f) /\ Gz(f) \in DOMAIN local /\ Whole(Gz(f)))
    <3>1. CASE pc = "check"
      BY <3>1 DEF FileInv, Compressed
    <3>2. CASE pc = "trunc"
      <4>1. ~w[3]
        BY <3>2 DEF TypeInv, WorkShape
      <4>2. w = Plain(w)
        BY <2>1, <4>1, Forms
      <4> QED  BY <4>2, <3>2 DEF FileInv, Compressed
    <3> QED  BY <3>1, <3>2
  <2>3. \A f \in DOMAIN local' : Whole(f)' <=> Whole(f)
    BY DEF Whole
  <2> QED  BY <2>2, <2>3, SameOptions DEF Compressed
<1>7. Single'
  <2>1. \A f, g \in DOMAIN local : ~Recorded(f) /\ ~Recorded(g) => f = g
    BY <1>1 DEF FileInv, Single
  <2>2. \A f \in DOMAIN local' : Recorded(f)' <=> Recorded(f)
    BY DEF Recorded
  <2>3. \A f \in DOMAIN local' : ~Pending(f)' => ~Pending(f)
    BY <1>2, <1>3
  <2>4. \A f \in DOMAIN local : ~Pending(f) => Recorded(f)
    BY <1>2 DEF FileInv, Single
  <2> QED  BY <1>3, <2>1, <2>2, <2>3, <2>4 DEF Single, Checking
<1>8. Counted'
  <2>1. Checked' = Checked /\ \A g \in Checked : local'[g] = local[g]
    BY <1>2, <1>3 DEF Checked
  <2> QED  BY <1>2, <1>3, <2>1, CountKept DEF FileInv
<1> QED  BY <1>3, <1>4, <1>5, <1>6, <1>7, <1>8 DEF FileInv

LEMMA CheckCleanFiles ==
    ASSUME TypeInv, FileInv, UNCHANGED scn, CheckClean
    PROVE  FileInv'
<1> DEFINE w == work.file
<1>1. /\ pc = "check" /\ w \in DOMAIN local /\ Recorded(w) /\ Import(local[w])
      /\ pc' = work.back /\ UNCHANGED <<local, work>>
  BY DEF CheckClean, At, Recorded
<1>2. pc \in Checking
  BY <1>1 DEF Checking
<1>3. /\ work.files \subseteq DOMAIN local /\ ~Doomed /\ w \notin work.files /\ pc # "down"
      /\ \A f : Pending(f) <=> f \in work.files \/ f = w
  BY <1>1, <1>2, CheckFacts
<1>4. /\ pc' # "down" /\ pc' \notin Checking \cup {"run", "rm"}
      /\ \A f : Pending(f)' <=> f \in work.files
      /\ Repairing' /\ (work.files \subseteq DOMAIN local' => FilesLeft')
  BY <1>1, <1>2, BackFiles
<1>5. FilesLeft' /\ Marked'
  BY <1>1, <1>3, <1>4 DEF FileInv, Marked, Checking
<1>6. Compressed'
  BY <1>1, <1>4, SameOptions DEF FileInv, Compressed, Whole
<1>7. Single'
  <2>1. \A f, g \in DOMAIN local : ~Recorded(f) /\ ~Recorded(g) => f = g
    BY <1>1 DEF FileInv, Single
  <2>2. \A f \in DOMAIN local : ~Pending(f)' => Recorded(f)
    BY <1>1, <1>3, <1>4 DEF FileInv, Single
  <2> QED  BY <1>1, <1>4, <2>1, <2>2 DEF Single, Recorded, Checking
<1>8. Counted'
  <2>1. Checked' = Checked \cup {w} /\ w \notin Checked
    BY <1>1, <1>3, <1>4 DEF Checked
  <2>2. Checked \subseteq DOMAIN local' /\ Files(local)'
    BY <1>1, WorkSame DEF Checked
  <2>3. w \in DOMAIN local' \ Checked /\ Import(local'[w])
    BY <1>1, <2>1
  <2> QED  BY <1>1, <1>3, <1>4, <2>1, <2>2, <2>3, CountMore DEF FileInv
<1> QED  BY <1>4, <1>5, <1>6, <1>7, <1>8 DEF FileInv

LEMMA CheckPartialFiles ==
    ASSUME TypeInv, TypeInv', FileInv, UNCHANGED scn, CheckPartial
    PROVE  FileInv'
<1> DEFINE w == work.file
           p == Plain(w)
<1>1. /\ pc = "check" /\ w \in DOMAIN local /\ Sieve /\ local[w].end = "none"
      /\ UNCHANGED <<nrels, work>> /\ work.gz = w[3]
  BY DEF CheckPartial, At, TypeInv, WorkShape
<1>2. pc \in Checking
  BY <1>1 DEF Checking
<1>3. /\ work.files \subseteq DOMAIN local /\ ~Doomed /\ w \notin work.files /\ pc # "down"
      /\ w \in ProperFile /\ \A f : Pending(f) <=> f \in work.files \/ f = w
  BY <1>1, <1>2, CheckFacts
<1>4. ~Whole(w)
  BY <1>1 DEF Whole
<1>5. \A f \in DOMAIN local :
          f[3] = TRUE \/ (~f[3] /\ Whole(f) /\ Gz(f) \in DOMAIN local /\ Whole(Gz(f)))
  BY <1>1, WorkSame, Options DEF FileInv, Compressed
<1>6. w[3] = TRUE
  BY <1>1, <1>4, <1>5
<1>7. p \in ProperFile /\ p[3] = FALSE /\ p # w /\ Gz(p) = w
  BY <1>3, <1>6, PlainIsFile, Forms
<1>8. p \notin DOMAIN local /\ p \notin work.files
  BY <1>3, <1>4, <1>5, <1>7
<1>9. local' = With(local, p, local[w]) /\ pc' = "unlink"
  BY <1>1, <1>6 DEF CheckPartial, Plain
<1> HIDE DEF w, p
<1>10. /\ DOMAIN local' = DOMAIN local \cup {p} /\ local'[p] = local[w]
       /\ \A f \in DOMAIN local : local'[f] = local[f]
  BY <1>8, <1>9 DEF With
<1>11. ~Doomed'
  BY <1>9 DEF Doomed
<1>12. \A f : Pending(f)' <=> f \in work.files \/ f = w \/ f = p
  BY <1>1, <1>9 DEF Pending, Checking, p, w
<1>13. FilesLeft' /\ Repairing'
  <2>1. FilesLeft'
    BY <1>1, <1>2, <1>3, <1>8, <1>9, <1>10 DEF FileInv, FilesLeft, Checking, p, w
  <2>2. Repairing'
    BY <1>1, <1>6, <1>9, <1>10, SameOptions DEF Repairing, p, w
  <2> QED  BY <2>1, <2>2
<1>14. Marked'
  BY <1>1, <1>9, <1>10 DEF FileInv, Marked
<1>15. Compressed'
  <2>1. \A f \in DOMAIN local : Whole(f)' <=> Whole(f)
    BY <1>10 DEF Whole
  <2> QED  BY <1>1, <1>5, <1>9, <1>10, <2>1, SameOptions DEF Compressed, p, w
<1>16. Single'
  <2>1. \A f \in DOMAIN local : ~Recorded(f) => f = w
    BY <1>1 DEF FileInv, Single, Recorded
  <2>2. \A f \in DOMAIN local' : ~Recorded(f)' => f = w \/ f = p
    BY <1>10, <2>1 DEF Recorded
  <2>3. \A f \in DOMAIN local' : ~Pending(f)' => Recorded(f)'
    BY <1>12, <2>2
  <2>4. \A f, g \in DOMAIN local' :
            ~Recorded(f)' /\ ~Recorded(g)' => f = g \/ {f, g} = {w, p}
    BY <2>2
  <2>5. work'.file = w /\ Plain(work'.file) = p
    BY <1>1 DEF w, p
  <2> QED  BY <1>9, <2>3, <2>4, <2>5 DEF Single
<1>17. Counted'
  <2>1. Checked' = Checked /\ \A g \in Checked : local'[g] = local[g]
    BY <1>3, <1>8, <1>10, <1>12 DEF Checked, w
  <2> QED  BY <1>1, <1>3, <1>9, <2>1, CountKept DEF FileInv
<1> QED  BY <1>13, <1>14, <1>15, <1>16, <1>17 DEF FileInv

LEMMA CheckUnlinkFiles ==
    ASSUME TypeInv, TypeInv', FileInv, UNCHANGED scn, CheckUnlink
    PROVE  FileInv'
<1> DEFINE w == work.file
           p == Plain(w)
<1>1. /\ pc = "unlink" /\ w \in DOMAIN local /\ p \in DOMAIN local /\ w[3] /\ work.gz
      /\ pc' = "trunc" /\ local' = Without(local, w) /\ UNCHANGED nrels
      /\ Sieve /\ local[w].end = "none" /\ local[p] = local[w]
  BY DEF CheckUnlink, At, TypeInv, WorkShape, FileInv, Repairing
<1>2. pc \in Checking
  BY <1>1 DEF Checking
<1>3. /\ work.files \subseteq DOMAIN local /\ ~Doomed /\ w \notin work.files /\ pc # "down"
      /\ w \in ProperFile /\ \A f : Pending(f) <=> f \in work.files \/ f = w \/ f = p
  BY <1>1, <1>2, CheckFacts
<1>4. p \in ProperFile /\ p[3] = FALSE /\ p # w /\ Plain(p) = p
  BY <1>1, <1>3, PlainIsFile, Forms
<1>5. /\ work'.file = p /\ work'.back = work.back /\ work'.files = work.files /\ work'.gz = work.gz
  <2>1. work' = [work EXCEPT !.file = p]
    BY WorkSame DEF CheckUnlink, Plain
  <2> QED  BY <2>1, WorkSame DEF Work
<1>6. p \notin work.files
  BY <1>1 DEF FileInv, FilesLeft
<1> HIDE DEF w, p
<1>7. /\ DOMAIN local' = DOMAIN local \ {w} /\ \A f \in DOMAIN local' : local'[f] = local[f]
  BY <1>1 DEF Without, Restrict
<1>8. ~Doomed' /\ \A f : Pending(f)' <=> f \in work.files \/ f = p
  BY <1>1, <1>5 DEF Pending, Checking, Doomed
<1>9. FilesLeft' /\ Repairing'
  BY <1>1, <1>2, <1>3, <1>4, <1>5, <1>6, <1>7, SameOptions
     DEF FileInv, FilesLeft, Repairing, Checking
<1>10. Marked'
  BY <1>1, <1>7 DEF FileInv, Marked
<1>11. Compressed'
  <2>1. \A f \in DOMAIN local' : Whole(f)' <=> Whole(f)
    BY <1>7 DEF Whole
  <2>2. ~Whole(w)
    BY <1>1 DEF Whole
  <2>3. \A f \in DOMAIN local :
            f[3] = Sieve \/ f = p \/ (~f[3] /\ Whole(f) /\ Gz(f) \in DOMAIN local /\ Whole(Gz(f)))
    BY <1>1 DEF FileInv, Compressed, p, w
  <2> QED  BY <1>1, <1>4, <1>5, <1>7, <2>1, <2>2, <2>3, SameOptions DEF Compressed
<1>12. Single'
  <2>1. \A f, g \in DOMAIN local : ~Recorded(f) /\ ~Recorded(g) => f = g \/ {f, g} = {w, p}
    BY DEF FileInv, Single, p, w
  <2>2. \A f \in DOMAIN local' : Recorded(f)' <=> Recorded(f)
    BY <1>7 DEF Recorded
  <2>3. \A f, g \in DOMAIN local' : ~Recorded(f)' /\ ~Recorded(g)' => f = g
    BY <1>7, <2>1, <2>2
  <2>4. \A f \in DOMAIN local : ~Pending(f) => Recorded(f)
    BY <1>3 DEF FileInv, Single
  <2>5. \A f \in DOMAIN local' : ~Pending(f)' => Recorded(f)'
    BY <1>3, <1>7, <1>8, <2>2, <2>4 DEF w, p
  <2> QED  BY <1>1, <2>3, <2>5 DEF Single
<1>13. Counted'
  <2>1. Checked' = Checked /\ \A g \in Checked : local'[g] = local[g]
    BY <1>3, <1>7, <1>8 DEF Checked, w, p
  <2> QED  BY <1>1, <1>3, <2>1, CountKept DEF FileInv
<1> QED  BY <1>9, <1>10, <1>11, <1>12, <1>13 DEF FileInv

LEMMA CheckTruncateFiles ==
    ASSUME TypeInv, TypeInv', FileInv, UNCHANGED scn, CheckTruncate
    PROVE  FileInv'
<1> DEFINE w == work.file
<1>1. /\ pc = "trunc" /\ w \in DOMAIN local /\ ~w[3] /\ UNCHANGED <<nrels, work>>
      /\ Sieve /\ work.gz /\ local[w].end = "none"
  BY DEF CheckTruncate, At, TypeInv, WorkShape, FileInv, Repairing
<1>2. pc \in Checking
  BY <1>1 DEF Checking
<1>3. /\ work.files \subseteq DOMAIN local /\ ~Doomed /\ w \notin work.files /\ pc # "down"
      /\ w \in ProperFile /\ \A f : Pending(f) <=> f \in work.files \/ f = w
  BY <1>1, <1>2, CheckFacts
<1>4. ~Whole(w)
  BY <1>1 DEF Whole
<1>5. CASE local[w].q < 2
  <2>1. local' = Without(local, w) /\ pc' = work.back
    BY <1>5 DEF CheckTruncate
  <2>2. DOMAIN local' = DOMAIN local \ {w} /\ \A f \in DOMAIN local' : local'[f] = local[f]
    BY <2>1 DEF Without, Restrict
  <2> QED  BY <1>1, <1>4, <2>1, <2>2, CheckDropped
<1>6. CASE ~(local[w].q < 2)
  <2>1. PICK c : c = [q |-> local[w].q - 1, end |-> "marker"]
    OBVIOUS
  <2>2. local' = [local EXCEPT ![w] = c] /\ pc' = "mv"
    BY <1>6, <2>1 DEF CheckTruncate
  <2>3. c.end = "marker" /\ c.q < NumberOf(w)
    <3>1. local[w].q \in Nat /\ local[w].q <= NumberOf(w) /\ NumberOf(w) \in Nat
      BY <1>1, <1>3, WorkSame, FileFields DEF Files, Fits, Content
    <3> QED  BY <2>1, <3>1
  <2>4. /\ DOMAIN local' = DOMAIN local /\ local'[w] = c
        /\ \A f \in DOMAIN local : f # w => local'[f] = local[f]
    <3>1. local = [f \in DOMAIN local |-> local[f]]
      BY WorkSame DEF Files
    <3> QED  BY <1>1, <2>2, <3>1
  <2> HIDE DEF w
  <2>5. ~Doomed' /\ \A f : Pending(f)' <=> f \in work.files \/ f = w
    BY <1>1, <2>2 DEF Pending, Checking, Doomed, w
  <2>6. FilesLeft' /\ Repairing'
    BY <1>1, <1>2, <1>3, <2>2, <2>3, <2>4, SameOptions
       DEF FileInv, FilesLeft, Repairing, Checking, w
  <2>7. Marked'
    BY <1>1, <2>2, <2>4 DEF FileInv, Marked, w
  <2>8. Compressed'
    <3>1. \A f \in DOMAIN local : Whole(f) => Whole(f)'
      BY <1>4, <2>4 DEF Whole
    <3>2. \A f \in DOMAIN local :
            \/ f[3] = Sieve \/ f = Plain(w)
            \/ (~f[3] /\ Whole(f) /\ Gz(f) \in DOMAIN local /\ Whole(Gz(f)))
      BY <1>1 DEF FileInv, Compressed, w
    <3> QED  BY <1>1, <2>2, <2>4, <3>1, <3>2, SameOptions DEF Compressed, w
  <2>9. Single'
    <3>1. \A f \in DOMAIN local : ~Recorded(f) => f = w
      BY <1>1 DEF FileInv, Single, Recorded, w
    <3>2. \A f \in DOMAIN local' : Recorded(f)'
      BY <2>3, <2>4, <3>1 DEF Recorded
    <3> QED  BY <3>2 DEF Single
  <2>10. Counted'
    <3>1. Checked' = Checked /\ \A g \in Checked : local'[g] = local[g]
      BY <1>3, <2>4, <2>5 DEF Checked, w
    <3> QED  BY <1>1, <1>3, <2>2, <3>1, CountKept DEF FileInv
  <2> QED  BY <2>6, <2>7, <2>8, <2>9, <2>10 DEF FileInv
<1> QED  BY <1>5, <1>6

\* The file under its new name may take the place of a plain file left by a gzip
\* that failed: gzip is then going to fail again.
LEMMA CheckRenameFiles ==
    ASSUME TypeInv, TypeInv', FileInv, UNCHANGED scn, CheckRename
    PROVE  FileInv'
<1> DEFINE w == work.file
           c == local[w]
           f == [w EXCEPT ![2] = w[1] + c.q]
<1>1. /\ pc = "mv" /\ w \in DOMAIN local /\ w \in ProperFile /\ ~w[3] /\ c.q # 0
      /\ Sieve /\ work.gz /\ c.end = "marker" /\ c.q < NumberOf(w)
  BY WorkSame DEF CheckRename, At, TypeInv, WorkShape, FileInv, Repairing, Files
<1>2. /\ local' = With(Without(local, w), f, c) /\ pc' = "gzip" /\ UNCHANGED nrels
      /\ work' = [work EXCEPT !.file = f]
  BY <1>1 DEF CheckRename
<1>3. c.q \in Nat \ {0}
  BY <1>1, WorkSame DEF Files, Fits, Content
<1>4. f \in ProperFile /\ f = <<w[1], w[1] + c.q, w[3]>> /\ w[1] \in Nat /\ w = <<w[1], w[2], w[3]>> /\ w[2] \in Nat
  BY <1>1, <1>3, FileFields
<1>5. NumberOf(f) = c.q /\ f # w /\ f[3] = FALSE
  <2>1. w[1] + c.q < w[2] /\ NumberOf(f) = c.q
    BY <1>1, <1>3, <1>4 DEF NumberOf
  <2> QED  BY <2>1, <1>1, <1>4, FileFields
<1>6. pc \in Checking
  BY <1>1 DEF Checking
<1>7. /\ work.files \subseteq DOMAIN local /\ ~Doomed /\ w \notin work.files /\ pc # "down"
      /\ \A g : Pending(g) <=> g \in work.files \/ g = w
  BY <1>1, <1>6, CheckFacts
<1>8. \A g \in DOMAIN local :
          \/ g[3] = TRUE \/ g = w
          \/ (~g[3] /\ Whole(g) /\ Gz(g) \in DOMAIN local /\ Whole(Gz(g)))
  <2>1. w = Plain(w)
    BY <1>1, Forms
  <2> QED  BY <1>1, <2>1, WorkSame, Options DEF FileInv, Compressed
<1>9. \A g \in DOMAIN local : Gz(g) # w /\ Gz(g) # f
  BY <1>1, <1>5, WorkSame, PlainIsFile DEF Files
<1>a. Gz(f) # w /\ Gz(f) # f /\ Plain(f) = f
  <2>1. PICK g : g = f
    OBVIOUS
  <2>2. g \in ProperFile /\ ~g[3]
    BY <2>1, <1>4, <1>5
  <2>3. Gz(g) # g /\ Plain(g) = g /\ Gz(g)[3] = TRUE
    BY <2>2, Forms, PlainIsFile
  <2> QED  BY <2>1, <2>3, <1>1
<1>10. /\ work'.file = f /\ work'.back = work.back /\ work'.files = work.files /\ work'.gz = work.gz
  <2>1. PICK g : g = f
    OBVIOUS
  <2>2. work' = [work EXCEPT !.file = g]
    BY <1>2, <2>1
  <2>3. work'.file = g /\ work'.back = work.back /\ work'.files = work.files /\ work'.gz = work.gz
    BY <2>2, WorkSame DEF Work
  <2> QED  BY <2>1, <2>3
<1> HIDE DEF w, c, f
<1>11. /\ DOMAIN local' = (DOMAIN local \ {w}) \cup {f} /\ local'[f] = c
       /\ \A g \in DOMAIN local : g # w /\ g # f => local'[g] = local[g]
  BY <1>2 DEF With, Without, Restrict
<1>12. \A g : Pending(g)' <=> g \in work.files \/ g = f
  BY <1>2, <1>10 DEF Pending, Checking
<1>13. f \in DOMAIN local => Doomed'
  BY <1>2, <1>5, <1>8, <1>10, <1>11, <1>a DEF Doomed
<1>14. FilesLeft'
  <2>1. work.files \subseteq DOMAIN local'
    BY <1>7, <1>11
  <2>2. Doomed' \/ f \notin work.files
    BY <1>7, <1>13
  <2> QED  BY <1>2, <1>6, <1>10, <2>1, <2>2 DEF FileInv, FilesLeft, Checking
<1>15. Repairing'
  BY <1>1, <1>2, <1>5, <1>10, <1>11, SameOptions DEF Repairing, Whole
<1>16. \A g \in DOMAIN local' : Recorded(g)'
  <2>1. \A g \in DOMAIN local : Recorded(g)
    BY <1>1 DEF FileInv, Single
  <2> QED  BY <1>1, <1>11, <2>1 DEF Recorded, c
<1>17. Single'
  BY <1>16 DEF Single
<1>18. Marked'
  <2>1. \A g \in DOMAIN local : g # w /\ local[g].end = "marker" => local[g].q = NumberOf(g)
    BY DEF FileInv, Marked, w
  <2> QED  BY <1>2, <1>5, <1>11, <2>1 DEF Marked
<1>19. Compressed'
  <2>1. \A g \in DOMAIN local : g # w /\ g # f => (Whole(g) => Whole(g)')
    BY <1>11 DEF Whole
  <2>2. \A g \in DOMAIN local : g # w /\ g # f /\ ~g[3] =>
            Whole(g)' /\ Gz(g) \in DOMAIN local' /\ Whole(Gz(g))'
    BY <1>8, <1>9, <1>11, <2>1
  <2> QED  BY <1>1, <1>2, <1>5, <1>10, <1>11, <1>a, <2>2, SameOptions, WorkSame, Options DEF Compressed
<1>20. Counted'
  <2>1. CASE f \in DOMAIN local
    BY <1>2, <1>13, <2>1 DEF Counted
  <2>2. CASE f \notin DOMAIN local
    <3>1. Checked' = Checked /\ \A g \in Checked : local'[g] = local[g]
      BY <1>7, <1>11, <1>12, <2>2 DEF Checked
    <3> QED  BY <1>2, <1>7, <3>1, CountKept DEF FileInv
  <2> QED  BY <2>1, <2>2
<1> QED  BY <1>14, <1>15, <1>17, <1>18, <1>19, <1>20 DEF FileInv

LEMMA CheckGzipFiles ==
    ASSUME TypeInv, TypeInv', FileInv, UNCHANGED scn, CheckGzip
    PROVE  FileInv'
<1> DEFINE w == work.file
           c == local[w]
           f == [w EXCEPT ![3] = TRUE]
<1>1. /\ pc = "gzip" /\ w \in DOMAIN local /\ w \in ProperFile /\ ~w[3]
      /\ Sieve /\ work.gz /\ Whole(w)
  BY WorkSame DEF CheckGzip, At, TypeInv, WorkShape, FileInv, Repairing, Files
<1>2. pc \in Checking
  BY <1>1 DEF Checking
<1>3. f = Gz(w) /\ f[3] = TRUE /\ f # w /\ Plain(w) = w /\ NumberOf(f) = NumberOf(w) /\ f \in ProperFile
  <2>1. f = Gz(w) /\ Gz(w)[3] = TRUE /\ NumberOf(Gz(w)) = NumberOf(w) /\ Gz(w) \in ProperFile
    BY <1>1, PlainIsFile, Forms
  <2>2. Plain(w) = w /\ Gz(w) # w
    BY <1>1, Forms
  <2> QED  BY <2>1, <2>2
<1>4. \A g \in DOMAIN local : Recorded(g)
  BY <1>1 DEF FileInv, Single
<1>5. \A g \in DOMAIN local : local[g].end = "marker" => local[g].q = NumberOf(g)
  BY <1>1 DEF FileInv, Marked
<1>6. \A g \in DOMAIN local : Whole(g)
  <2>1. \A g \in DOMAIN local : local[g].end = "total" => local[g].q = NumberOf(g)
    BY WorkSame DEF Files, Fits
  <2> QED  BY <1>4, <1>5, <2>1 DEF Whole, Recorded
<1>7. \A g \in DOMAIN local : g[3] = TRUE \/ g = w \/ Gz(g) \in DOMAIN local
  BY <1>1, <1>3, WorkSame, Options DEF FileInv, Compressed
<1>8. CASE f \in DOMAIN local
  <2>1. pc' = "down" /\ nrels' = 0 /\ work' = NoWork /\ UNCHANGED local
    BY <1>8 DEF CheckGzip, Die
  <2>2. work'.files = {}
    BY <2>1, NoWorkTyped
  <2>3. FilesLeft' /\ Repairing' /\ Counted'
    BY <2>1, <2>2 DEF FilesLeft, Repairing, Counted, Checking
  <2>4. Marked' /\ Single'
    BY <1>4, <1>5, <2>1 DEF Marked, Single, Recorded
  <2>5. Compressed'
    <3>1. \A g \in DOMAIN local : Whole(g)'
      BY <1>6, <2>1 DEF Whole
    <3>2. \A g \in DOMAIN local : g[3] = TRUE \/ (g[3] = FALSE /\ Gz(g) \in DOMAIN local)
      BY <1>3, <1>7, <1>8, WorkSame, FileFields DEF Files
    <3> QED  BY <1>1, <2>1, <3>1, <3>2, SameOptions, WorkSame, Options DEF Compressed
  <2> QED  BY <2>3, <2>4, <2>5 DEF FileInv
<1>9. CASE f \notin DOMAIN local
  <2>1. local' = With(Without(local, w), f, c) /\ pc' = work.back /\ Import(c) /\ UNCHANGED work
    BY <1>9 DEF CheckGzip
  <2>2. ~Doomed
    BY <1>3, <1>9 DEF Doomed
  <2>3. /\ work.files \subseteq DOMAIN local /\ w \notin work.files /\ pc # "down"
        /\ \A g : Pending(g) <=> g \in work.files \/ g = w
    BY <1>1, <1>2, <2>2, CheckFacts
  <2>4. /\ pc' # "down" /\ pc' \notin Checking \cup {"run", "rm"} /\ ~Doomed'
        /\ \A g : Pending(g)' <=> g \in work.files
        /\ Repairing' /\ (work.files \subseteq DOMAIN local' => FilesLeft')
    BY <1>2, <2>1, BackFiles
  <2>a. \A g \in DOMAIN local : Gz(g) # w
    BY <1>1, WorkSame, PlainIsFile DEF Files
  <2> HIDE DEF w, c, f
  <2>5. /\ DOMAIN local' = (DOMAIN local \ {w}) \cup {f} /\ local'[f] = c
        /\ \A g \in DOMAIN local : g # w => local'[g] = local[g]
    BY <1>9, <2>1 DEF With, Without, Restrict
  <2>6. FilesLeft'
    BY <2>3, <2>4, <2>5
  <2>7. \A g \in DOMAIN local' : Whole(g)'
    BY <1>1, <1>3, <1>6, <2>5 DEF Whole, c
  <2>8. Marked' /\ Single'
    <3>1. \A g \in DOMAIN local' : Recorded(g)' /\ local'[g].q = NumberOf(g)
      BY <2>7 DEF Whole, Recorded
    <3> QED  BY <3>1 DEF Marked, Single
  <2>9. Compressed'
    BY <1>1, <1>3, <1>7, <2>5, <2>7, <2>a, SameOptions, WorkSame, Options DEF Compressed, Files
  <2>10. Counted'
    <3>1. Checked' = Checked \cup {f} /\ f \notin Checked
      BY <1>9, <2>3, <2>4, <2>5 DEF Checked
    <3>2. Checked \subseteq DOMAIN local' /\ \A g \in Checked : local'[g] = local[g]
      BY <2>3, <2>5 DEF Checked
    <3>3. f \in DOMAIN local' \ Checked /\ Import(local'[f]) /\ Files(local)'
      BY <2>1, <2>5, <3>1 DEF TypeInv
    <3> QED  BY <2>2, <2>3, <2>4, <3>1, <3>2, <3>3, CountMore DEF FileInv
  <2> QED  BY <2>4, <2>6, <2>8, <2>9, <2>10 DEF FileInv
<1> QED  BY <1>8, <1>9

LEMMA CheckFiles ==
    ASSUME TypeInv, TypeInv', FileInv, UNCHANGED scn, Check
    PROVE  FileInv'
<1>1. CASE CheckMissing
  <2>1. /\ pc = "check" /\ work.file \notin DOMAIN local /\ pc' = work.back
        /\ UNCHANGED <<nrels, work, local>>
    BY <1>1 DEF CheckMissing, At
  <2> QED  BY <2>1, CheckDropped
<1>2. CASE CheckInvalid
  <2>1. /\ pc = "check" /\ local[work.file].end \in {"mixed", "none"} /\ pc' = work.back
        /\ UNCHANGED <<nrels, work>> /\ local' = Without(local, work.file)
    BY <1>2 DEF CheckInvalid, At
  <2>2. /\ DOMAIN local' = DOMAIN local \ {work.file}
        /\ \A f \in DOMAIN local' : local'[f] = local[f]
    BY <2>1 DEF Without, Restrict
  <2>3. ~Whole(work.file)
    BY <2>1 DEF Whole
  <2> QED  BY <2>1, <2>2, <2>3, CheckDropped
<1> QED  BY <1>1, <1>2, CheckCleanFiles, CheckPartialFiles, CheckUnlinkFiles, CheckTruncateFiles,
            CheckRenameFiles, CheckGzipFiles DEF Check

LEMMA FileStep ==
    ASSUME TypeInv, FileInv, NoMarkers, [Next]_vars, ~scn.crashInCheck
    PROVE  FileInv'
<1>0. TypeInv' /\ UNCHANGED scn
  BY TypeStep
<1>1. CASE UNCHANGED vars
  BY <1>1, OutsideStep DEF vars
<1>2. CASE \/ \E pid \in 1..MaxPid : Progress(pid)
           \/ \E x \in procs : ProcDie(x)
           \/ \E h \in Host : Reboot(h)
  <2>1. UNCHANGED master
    BY <1>2 DEF Progress, ProcOpen, ProcStep, ProcFinish, ProcDie, Reboot
  <2> QED  BY <2>1, <1>0, OutsideStep
<1>3. CASE Crash \/ SeqFail
  <2>1. pc \notin Checking
    BY <1>3 DEF Crash, InCheck, SeqFail, At, Checking
  <2>2. pc' = "down" /\ nrels' = 0 /\ work' = NoWork /\ UNCHANGED local
    BY <1>3 DEF Crash, SeqFail, Die
  <2> QED  BY <2>1, <2>2, <1>0, DownFiles
<1>4. CASE Restart \/ Boot \/ Check
  BY <1>0, <1>4, RestartFiles, BootFiles, CheckFiles
<1>5. CASE Fetch \/ CleanFetch \/ FetchRm
  BY <1>0, <1>5, FetchFiles, FetchRmFiles
<1>6. CASE SeqStart \/ SeqStep \/ SeqFinish
  BY <1>0, <1>6, SeqFiles
<1>7. CASE ReadJobs \/ IsDone
  <2>1. /\ pc \in {"read", "isdone"} /\ pc' \in {"status", "isdone", "clean", "done", "read", "seq"}
        /\ UNCHANGED <<local, nrels>>
    BY <1>7 DEF ReadJobs, IsDone, At
  <2>2. work'.files = {}
    <3>1. \A t, u : [NoWork EXCEPT !.todo = t, !.fetch = u].files = {}
      BY DEF NoWork
    <3>2. \A t : [NoWork EXCEPT !.todo = t].files = {}
      BY DEF NoWork
    <3>3. CASE ReadJobs
      BY <3>1, <3>3, NoWorkTyped DEF ReadJobs
    <3>4. CASE IsDone
      BY <3>2, <3>4, NoWorkTyped DEF IsDone
    <3> QED  BY <1>7, <3>3, <3>4
  <2>3. pc \in Quiet /\ pc' \in Quiet
    BY <2>1 DEF Quiet, Label, Checking
  <2> QED  BY <2>1, <2>2, <2>3, <1>0, QuietStep
<1>8. CASE \/ AskAlive \/ AskTail \/ StatusDone \/ FetchDone \/ WriteOpen
           \/ PickHost \/ NoHole \/ StartDone \/ CleanKill \/ CleanDone
  <2>1. /\ pc \in {"status", "tail", "fetch", "write1", "write2", "start", "clean"}
        /\ pc' \in {"status", "tail", "fetch", "write1", "close1", "close2", "start", "write2", "last",
                    "clean", "done"}
        /\ UNCHANGED <<local, nrels>>
    BY <1>8 DEF AskAlive, AskTail, StatusDone, FetchDone, WriteOpen, PickHost, NoHole, StartDone,
       CleanKill, CleanDone, At
  <2>2. pc \in Quiet /\ pc' \in Quiet
    BY <2>1 DEF Quiet, Label, Checking
  <2>3. work.files = {}
    BY <2>2, QuietFacts
  <2>4. work'.files = work.files
    BY <1>8, WorkSame DEF AskAlive, AskTail, StatusDone, FetchDone, WriteOpen, PickHost, NoHole,
       StartDone, CleanKill, CleanDone, Work
  <2> QED  BY <2>1, <2>2, <2>3, <2>4, <1>0, QuietStep
<1>9. CASE WriteClose \/ Launch
  <2>1. /\ pc \in {"close1", "close2", "start"} /\ pc' \in {"start", "isdone"}
        /\ UNCHANGED <<local, nrels>>
    BY <1>9, LaunchCases DEF WriteClose, At
  <2>2. pc \in Quiet /\ pc' \in Quiet
    BY <2>1 DEF Quiet, Label, Checking
  <2>3. work.files = {}
    BY <2>2, QuietFacts
  <2>4. work'.files = {}
    <3>1. CASE Launch
      BY <3>1, <2>3, WorkSame, LaunchCases DEF LaunchListed, LaunchUnlisted, Work
    <3>2. CASE WriteClose
      BY <3>2, <2>3 DEF WriteClose, NoWork
    <3> QED  BY <1>9, <3>1, <3>2
  <2> QED  BY <2>1, <2>2, <2>4, <1>0, QuietStep
<1> QED  BY <1>1, <1>2, <1>3, <1>4, <1>5, <1>6, <1>7, <1>8, <1>9 DEF Next, Master, Environment

LEMMA InitFiles == Init => FileInv /\ NoMarkers
<1> SUFFICES ASSUME Init PROVE FileInv /\ NoMarkers
  OBVIOUS
<1>1. pc = "boot" /\ local = Empty /\ DOMAIN local = {} /\ nrels = 0 /\ work.files = {}
  BY NoWorkTyped DEF Init, Empty
<1>2. FilesLeft /\ Compressed /\ Repairing /\ Marked /\ Single
  BY <1>1 DEF FilesLeft, Compressed, Repairing, Marked, Single, Checking
<1>3. Counted
  <2>1. Checked = {} /\ [f \in {} |-> local[f].q] = [f \in {} |-> 0]
    BY <1>1 DEF Checked
  <2>2. PICK g : g = [f \in {} |-> 0]
    OBVIOUS
  <2>3. SumFunction(g) = 0 /\ DOMAIN g = {}
    BY <2>2, SumEmpty DEF SumFunction, Sum
  <2>4. Numbers(local, Checked) = 0
    BY <2>1, <2>2, <2>3 DEF Numbers
  <2> QED  BY <1>1, <2>4 DEF Counted
<1>4. NoMarkers
  BY DEF Init, Empty, NoMarkers
<1> QED  BY <1>2, <1>3, <1>4 DEF FileInv

LEMMA HonestFiles ==
    ASSUME TypeInv, FileInv
    PROVE  FilesHonest
<1>1. TypeOK
  BY TypeImplied
<1>2. ASSUME pc \in Quiet, NEW f \in DOMAIN local
      PROVE  Complete(local[f]) = NumberOf(f)
  <2>1. local[f].end \in {"total", "marker"}
    BY <1>2, QuietFacts DEF Recorded
  <2>2. local[f].end = "marker" => local[f].q = NumberOf(f)
    BY <1>2, QuietFacts DEF FileInv, Marked, Checking
  <2>3. local[f].end = "total" => local[f].q = NumberOf(f)
    BY WorkSame DEF Files, Fits
  <2> QED  BY <2>1, <2>2, <2>3 DEF Complete
<1>3. FilesSound
  <2>1. {"start", "write2", "close2", "isdone", "seq", "done"} \subseteq Quiet
    BY DEF Quiet, Label, Checking
  <2> QED  BY <2>1, <1>2 DEF FilesSound
<1>4. NrelsHonest
  <2> SUFFICES ASSUME pc = "isdone", Sieve PROVE nrels = SumFunction([f \in DOMAIN local |-> local[f].q])
    BY DEF NrelsHonest
  <2>1. pc \in Quiet
    BY DEF Quiet, Label, Checking
  <2> QED  BY <2>1, QuietFacts DEF FileInv, Counted, Numbers
<1> QED  BY <1>1, <1>3, <1>4 DEF FilesHonest

\* The output files can be relied on, whatever the number of jobs, hosts and
\* failures, provided that the master is not killed while it repairs a file
\* (sieve_check truncates before it renames, and a file cut short under its old
\* name would pass for complete): when the loop looks for holes or asks
\* sieve_is_done, every file is named after the range it completely covers, and the
\* relations counted are those of the files.
THEOREM HonestOutput ==
    ASSUME \A c \in Scenarios : ~c.crashInCheck
    PROVE  Spec => []FilesHonest
<1>1. Init => TypeInv /\ FileInv /\ NoMarkers
  BY InitType, InitFiles
<1>2. (TypeInv /\ FileInv /\ NoMarkers) /\ [Next]_vars => (TypeInv /\ FileInv /\ NoMarkers)'
  <2>1. TypeInv => ~scn.crashInCheck
    BY DEF TypeInv
  <2> QED  BY <2>1, TypeStep, FileStep, MarkersStep
<1>3. TypeInv /\ FileInv => FilesHonest
  BY HonestFiles
<1> QED  BY <1>1, <1>2, <1>3, PTL DEF Spec

-----------------------------------------------------------------------------
(* The lists of jobs.                                                      *)

\* A check leads to the next step of the check, or back, and leaves the lists of
\* jobs alone, unless gzip fails.
LEMMA CheckMoves ==
    ASSUME TypeInv, Check
    PROVE  /\ pc \in Checking /\ UNCHANGED <<disk, rem, procs, aliens, faults>>
           /\ \/ /\ pc = "gzip" /\ Doomed /\ pc' = "down" /\ jobs' = {} /\ work' = NoWork
                 /\ UNCHANGED local
              \/ /\ UNCHANGED jobs /\ work'.todo = work.todo /\ work'.kept = work.kept
                 /\ work'.fetch = work.fetch /\ work'.back = work.back
                 /\ pc' \in Checking \/ pc' = work.back
<1>1. work \in Work
  BY WorkSame
<1>2. CASE CheckMissing \/ CheckInvalid \/ CheckClean \/ CheckPartial \/ CheckTruncate
  BY <1>2 DEF CheckMissing, CheckInvalid, CheckClean, CheckPartial, CheckTruncate,
     CheckUnchanged, remote, At, Checking
<1>3. CASE CheckUnlink
  <2>1. PICK f : work' = [work EXCEPT !.file = f]
    BY <1>1, <1>3 DEF CheckUnlink, Plain
  <2>2. /\ work'.todo = work.todo /\ work'.kept = work.kept
        /\ work'.fetch = work.fetch /\ work'.back = work.back
    BY <2>1, <1>1 DEF Work
  <2> QED  BY <1>3, <2>2 DEF CheckUnlink, CheckUnchanged, remote, At, Checking
<1>4. CASE CheckRename
  <2>1. UNCHANGED work \/ \E f : work' = [work EXCEPT !.file = f]
    BY <1>4 DEF CheckRename
  <2>2. /\ work'.todo = work.todo /\ work'.kept = work.kept
        /\ work'.fetch = work.fetch /\ work'.back = work.back
    BY <2>1, <1>1 DEF Work
  <2> QED  BY <1>4, <2>2 DEF CheckRename, CheckUnchanged, remote, At, Checking
<1>5. CASE CheckGzip
  BY <1>5 DEF CheckGzip, Die, remote, At, Checking, Doomed, Gz
<1> QED  BY <1>2, <1>3, <1>4, <1>5 DEF Check

\* After such a step the lists mean what they meant.
LEMMA CheckLists ==
    ASSUME TypeInv, pc \in Checking, UNCHANGED <<disk, jobs>>,
           work'.todo = work.todo, work'.kept = work.kept, work'.fetch = work.fetch,
           work'.back = work.back, pc' \in Checking \/ pc' = work.back
    PROVE  /\ (Polling' <=> Polling) /\ (Cleaning' <=> Cleaning)
           /\ Listed' = Listed /\ ToFetch' = ToFetch
           /\ pc' \notin {"status", "tail", "last", "isdone", "start", "write1", "close1", "write2",
                          "close2", "seq", "run", "down", "done"}
           /\ pc' \in Checking => work'.back = work.back
<1>1. work.back \in {"boot", "read", "fetch", "clean"}
  BY WorkSame, WorkFields
<1>2. (Polling' <=> Polling) /\ (Cleaning' <=> Cleaning)
  BY <1>1 DEF Polling, Cleaning, Checking
<1>3. pc' \notin {"status", "tail", "last", "isdone", "start", "write1", "close1", "write2",
                  "close2", "seq", "run", "down", "done"}
  BY <1>1 DEF Checking
<1>4. Listed' = Listed
  <2>1. /\ pc \notin {"write1", "close1", "start", "write2", "close2", "tail"}
        /\ pc' \notin {"write1", "close1", "start", "write2", "close2", "tail"}
    BY <1>3 DEF Checking
  <2> QED  BY <1>2, <2>1 DEF Listed, AtHand
<1>5. ToFetch' = ToFetch
  <2>1. pc # "last" /\ pc' # "last"
    BY <1>3 DEF Checking
  <2> QED  BY <1>2, <1>4, <2>1 DEF ToFetch, AtHand
<1> QED  BY <1>2, <1>3, <1>4, <1>5

\* The steps of the processes and hosts.
LEMMA OutsideMoves ==
    ASSUME TypeInv, \/ \E pid \in 1..MaxPid : Progress(pid)
                    \/ \E x \in procs : ProcDie(x)
                    \/ \E h \in Host : Reboot(h)
                    \/ UNCHANGED vars
    PROVE  /\ UNCHANGED master
           /\ \A x \in procs' : \E y \in procs : x.host = y.host /\ x.pid = y.pid
           /\ procs = {} => procs' = {}
<1>1. CASE \E x \in procs : ProcOpen(x)
  <2>1. PICK x \in procs : ProcOpen(x)
    BY <1>1
  <2>2. [x EXCEPT !.open = TRUE].host = x.host /\ [x EXCEPT !.open = TRUE].pid = x.pid
    BY WorkSame DEF RemoteTyped, Proc
  <2> QED  BY <2>1, <2>2 DEF ProcOpen
<1>2. CASE procs' \subseteq procs /\ UNCHANGED master
  BY <1>2
<1> QED  BY <1>1, <1>2 DEF Progress, ProcStep, ProcFinish, ProcDie, Reboot, vars, remote

LEMMA OutsideLists ==
    ASSUME UNCHANGED master
    PROVE  /\ (Polling' <=> Polling) /\ (Cleaning' <=> Cleaning)
           /\ Listed' = Listed /\ ToFetch' = ToFetch
  BY DEF Polling, Cleaning, Listed, ToFetch, AtHand, master

LEMMA SortingStep ==
    ASSUME TypeInv, Sorting, Alone, [Next]_vars
    PROVE  Sorting'
<1>0. work \in Work /\ UNCHANGED scn
  BY WorkSame, TypeStep
<1>1. CASE \/ \E pid \in 1..MaxPid : Progress(pid)
           \/ \E x \in procs : ProcDie(x)
           \/ \E h \in Host : Reboot(h)
           \/ UNCHANGED vars
  <2>1. /\ UNCHANGED master
        /\ \A x \in procs' : \E y \in procs : x.host = y.host /\ x.pid = y.pid
    BY <1>1, OutsideMoves
  <2>2. (Polling' <=> Polling) /\ (Cleaning' <=> Cleaning)
    BY <2>1, OutsideLists
  <2>3. pc = "tail" /\ work.alive = 0 =>
            \A x \in procs' : <<x.host, x.pid>> # <<work.job.host, work.job.pid>>
    BY <2>1 DEF Sorting
  <2> QED  BY <2>1, <2>2, <2>3 DEF Sorting, master
<1>2. CASE pc' \notin {"status", "tail", "fetch", "clean", "last", "isdone"} /\ pc' \notin Checking \cup {"rm"}
  BY <1>2 DEF Sorting, Polling, Cleaning
<1>3. CASE Crash \/ SeqFail \/ Restart \/ FetchDone \/ WriteOpen \/ PickHost \/ NoHole \/ Launch
           \/ StartDone \/ CleanDone \/ SeqStart \/ SeqStep
  <2>1. pc' \in {"down", "boot", "write1", "close1", "close2", "start", "write2", "done", "read", "run"}
    BY <1>3, LaunchCases DEF Crash, SeqFail, Die, Restart, FetchDone, WriteOpen, PickHost, NoHole,
       StartDone, CleanDone, SeqStart, SeqStep, At
  <2> QED  BY <1>2, <2>1 DEF Checking
<1>4. CASE Boot
  <2>1. pc' = "read" \/ (pc' = "check" /\ work'.back = "boot")
    BY <1>4, <1>0 DEF Boot, Work
  <2> QED  BY <2>1 DEF Sorting, Polling, Cleaning, Checking
<1>5. CASE SeqFinish
  <2>1. pc' = "check" /\ work'.back = "read"
    BY <1>5, <1>0 DEF SeqFinish, ToCheck, Work
  <2> QED  BY <2>1 DEF Sorting, Polling, Cleaning, Checking
<1>6. CASE Check
  <2>1. CASE pc' = "down"
    BY <1>2, <2>1 DEF Checking
  <2>2. CASE pc' # "down"
    <3>1. /\ pc \in Checking /\ UNCHANGED <<disk, procs, jobs>> /\ work'.todo = work.todo
          /\ work'.kept = work.kept /\ work'.fetch = work.fetch /\ work'.back = work.back
          /\ pc' \in Checking \/ pc' = work.back
      BY <1>6, <2>2, CheckMoves
    <3>2. /\ (Polling' <=> Polling) /\ (Cleaning' <=> Cleaning)
          /\ pc' \notin {"status", "tail", "last", "isdone"}
      BY <3>1, CheckLists
    <3>3. pc \notin {"status", "tail"}
      BY <3>1 DEF Checking
    <3> QED  BY <3>1, <3>2, <3>3 DEF Sorting
  <2> QED  BY <2>1, <2>2
<1>7. CASE ReadJobs
  <2>1. CASE Parallel
    <3>1. PICK t, u : t = {j \in disk : j.pid # 0} /\ u = {j \in disk : j.pid = 0}
      OBVIOUS
    <3>2. pc' = "status" /\ work' = [NoWork EXCEPT !.todo = t, !.fetch = u]
      BY <1>7, <2>1, <3>1 DEF ReadJobs
    <3>3. work'.todo = t /\ work'.fetch = u /\ work'.kept = {}
      BY <3>2 DEF NoWork
    <3> QED  BY <3>1, <3>2, <3>3 DEF Sorting, Polling, Cleaning, Checking
  <2>2. CASE ~Parallel
    <3>1. pc' = "isdone" /\ UNCHANGED <<jobs, disk>>
      BY <1>7, <2>2 DEF ReadJobs
    <3>2. jobs = disk
      BY <2>2 DEF Alone
    <3> QED  BY <3>1, <3>2 DEF Sorting, Polling, Cleaning, Checking
  <2> QED  BY <2>1, <2>2
<1>8. CASE AskAlive
  <2>1. PICK j \in work.todo, r \in {-1, 0, 1} :
           /\ IsJobAlive(j, r)
           /\ work' = [work EXCEPT !.todo = @ \ {j}, !.job = j, !.alive = r]
    BY <1>8 DEF AskAlive
  <2>2. pc = "status" /\ pc' = "tail" /\ UNCHANGED procs
    BY <1>8 DEF AskAlive, At, remote
  <2>3. /\ work'.todo = work.todo \ {j} /\ work'.kept = work.kept /\ work'.fetch = work.fetch
        /\ work'.job = j /\ work'.alive = r
    BY <2>1, <1>0 DEF Work
  <2>4. r = 0 => \A x \in procs : ~(x.host = j.host /\ x.pid = j.pid)
    BY <2>1 DEF IsJobAlive, Exists
  <2>5. Polling /\ ~Cleaning'
    BY <2>2 DEF Polling, Cleaning, Checking
  <2> QED  BY <2>2, <2>3, <2>4, <2>5 DEF Sorting
<1>9. CASE AskTail
  <2>1. pc = "tail" /\ pc' = "status"
    BY <1>9, AskTailCases
  <2>2. /\ work'.todo = work.todo
        /\ \/ work'.kept = work.kept \cup {work.job} /\ work'.fetch = work.fetch
           \/ work'.kept = work.kept /\ work'.fetch = work.fetch
           \/ work'.kept = work.kept /\ work'.fetch = work.fetch \cup {[work.job EXCEPT !.pid = 0]}
    BY <1>9, <1>0, AskTailCases DEF Work
  <2>3. [work.job EXCEPT !.pid = 0].pid = 0
    <3>1. work.job \in Job
      BY <2>1 DEF TypeInv, WorkShape, ProperJob
    <3> QED  BY <3>1 DEF Job
  <2>4. Polling /\ ~Cleaning'
    BY <2>1 DEF Polling, Cleaning, Checking
  <2> QED  BY ZenonT(60), <2>1, <2>2, <2>3, <2>4 DEF Sorting
<1>10. CASE StatusDone
  <2>1. pc = "status" /\ pc' = "fetch" /\ work.todo = {} /\ UNCHANGED work
    BY <1>10 DEF StatusDone, At
  <2>2. Polling /\ ~Cleaning'
    BY <2>1 DEF Polling, Cleaning, Checking
  <2> QED  BY <2>1, <2>2 DEF Sorting
<1>11. CASE Fetch
  <2>1. pc = "fetch" /\ pc' \in {"fetch", "rm"} /\ (pc' = "rm" => work'.back = "fetch")
    BY <1>11, <1>0 DEF Fetch, At, Work
  <2>2. PICK j \in work.fetch :
          /\ work'.todo = work.todo /\ work'.fetch = work.fetch \ {j}
          /\ work'.kept = work.kept \/ work'.kept = work.kept \cup {j}
    BY <1>11, <1>0 DEF Fetch, Work
  <2>3. Polling /\ ~Cleaning'
    BY <2>1 DEF Polling, Cleaning, Checking
  <2> QED  BY <2>1, <2>2, <2>3 DEF Sorting
<1>12. CASE FetchRm
  <2>1. /\ pc = "rm" /\ pc' = "check" /\ UNCHANGED disk
        /\ work' = [work EXCEPT !.file = Name(work.job), !.back = work.back, !.gz = Name(work.job)[3]]
    BY <1>12 DEF FetchRm, ToCheck, At
  <2>2. /\ work'.back = work.back /\ work'.todo = work.todo /\ work'.kept = work.kept
        /\ work'.fetch = work.fetch
    BY <2>1, <1>0 DEF Work
  <2>3. (Polling' <=> Polling) /\ (Cleaning' <=> Cleaning)
    BY <2>1, <2>2 DEF Polling, Cleaning, Checking
  <2> QED  BY <2>1, <2>2, <2>3 DEF Sorting
<1>13. CASE WriteClose
  <2>1. disk' = jobs /\ UNCHANGED jobs /\ pc' \in {"start", "isdone"}
    BY <1>13 DEF WriteClose
  <2> QED  BY <2>1 DEF Sorting, Polling, Cleaning, Checking
<1>14. CASE IsDone
  <2>1. pc' \in {"clean", "done", "read", "seq"} /\ (pc' = "clean" => work'.todo = disk) /\ UNCHANGED disk
    BY <1>14, NoWorkTyped DEF IsDone, NoWork
  <2> QED  BY <2>1 DEF Sorting, Polling, Cleaning, Checking
<1>15. CASE CleanKill
  <2>1. /\ pc = "clean" /\ pc' \in {"last", "clean"} /\ UNCHANGED disk
        /\ \E j \in work.todo : work' = [work EXCEPT !.todo = @ \ {j}, !.job = j, !.back = "clean"]
    BY <1>15, CleanCases
  <2>2. PICK j \in work.todo : work'.todo = work.todo \ {j} /\ work'.job = j
    BY <2>1, <1>0 DEF Work
  <2>3. Cleaning /\ ~Polling'
    BY <2>1 DEF Polling, Cleaning, Checking
  <2> QED  BY <2>1, <2>2, <2>3 DEF Sorting
<1>16. CASE CleanFetch
  <2>1. pc = "last" /\ pc' \in {"rm", "clean"} /\ UNCHANGED <<disk, work>>
    BY <1>16 DEF CleanFetch, At
  <2>2. work.back = "clean"
    BY <2>1 DEF TypeInv, WorkShape
  <2>3. Cleaning /\ ~Polling'
    BY <2>1, <2>2 DEF Polling, Cleaning, Checking
  <2> QED  BY <2>1, <2>3 DEF Sorting
<1> QED  BY <1>1, <1>3, <1>4, <1>5, <1>6, <1>7, <1>8, <1>9, <1>10, <1>11, <1>12, <1>13, <1>14, <1>15,
            <1>16 DEF Next, Master, Environment

\* In sequential mode there are no jobs, in parallel mode no runs of the master's own.
LEMMA AloneStep ==
    ASSUME TypeInv, Alone, [Next]_vars
    PROVE  Alone'
<1>0. work \in Work /\ UNCHANGED scn /\ Parallel' = Parallel
  BY WorkSame, TypeStep, SameOptions
<1>1. CASE \/ \E pid \in 1..MaxPid : Progress(pid)
           \/ \E x \in procs : ProcDie(x)
           \/ \E h \in Host : Reboot(h)
           \/ UNCHANGED vars
  <2>1. UNCHANGED master /\ (procs = {} => procs' = {})
    BY <1>1, OutsideMoves
  <2>2. (Polling' <=> Polling) /\ (Cleaning' <=> Cleaning)
    BY <2>1, OutsideLists
  <2> QED  BY <2>1, <2>2, <1>0 DEF Alone, master
<1>2. CASE Check /\ pc' # "down"
  <2>1. /\ pc \in Checking /\ UNCHANGED <<disk, procs, jobs>> /\ work'.todo = work.todo
        /\ work'.kept = work.kept /\ work'.fetch = work.fetch /\ work'.back = work.back
        /\ pc' \in Checking \/ pc' = work.back
    BY <1>2, CheckMoves
  <2>2. /\ (Polling' <=> Polling) /\ (Cleaning' <=> Cleaning)
        /\ pc' \notin {"start", "write1", "close1", "write2", "close2", "seq", "run"}
    BY <2>1, CheckLists
  <2> QED  BY <2>1, <2>2, <1>0 DEF Alone
<1>3. CASE Crash \/ SeqFail \/ (Check /\ pc' = "down")
  <2>1. pc' = "down" /\ jobs' = {} /\ UNCHANGED <<disk, procs>>
    <3>1. CASE Crash \/ SeqFail
      BY <3>1 DEF Crash, SeqFail, Die, remote
    <3>2. CASE Check /\ pc' = "down"
      <4>1. work.back \in {"boot", "read", "fetch", "clean"}
        BY WorkSame, WorkFields
      <4> QED  BY <3>2, <4>1, CheckMoves DEF Checking
    <3> QED  BY <1>3, <3>1, <3>2
  <2> QED  BY <2>1, <1>0 DEF Alone, Polling, Cleaning, Checking
<1>4. CASE Restart \/ Boot
  <2>1. /\ UNCHANGED <<jobs, disk, procs>>
        /\ pc' \in {"boot", "read"} \/ (pc' = "check" /\ work'.back = "boot")
    BY <1>4, <1>0 DEF Restart, Boot, Work, remote
  <2> QED  BY <2>1, <1>0 DEF Alone, Polling, Cleaning, Checking
<1>5. CASE ReadJobs
  <2>1. UNCHANGED <<jobs, disk, procs>> /\ pc' = (IF Parallel THEN "status" ELSE "isdone")
    BY <1>5 DEF ReadJobs, remote
  <2> QED  BY <2>1, <1>0 DEF Alone, Polling, Cleaning, Checking
<1>6. CASE AskAlive \/ AskTail \/ StatusDone \/ Fetch \/ FetchRm \/ FetchDone
  <2>1. /\ pc \in {"status", "tail", "fetch", "rm"}
        /\ \/ pc' \in {"status", "tail", "fetch", "rm", "write1"}
           \/ pc = "rm" /\ pc' = "check" /\ work'.back = work.back
    <3>1. CASE FetchRm
      BY <3>1, <1>0 DEF FetchRm, ToCheck, At, Work
    <3> QED  BY <1>6, <3>1 DEF AskAlive, AskTail, StatusDone, Fetch, FetchDone, At
  <2>2. pc = "rm" => work.back \in {"fetch", "clean"}
    BY DEF TypeInv, WorkShape
  <2>3. Parallel
    BY <2>1, <2>2 DEF Alone, Polling, Cleaning, Checking
  <2>4. pc = "check" \/ pc' # "check" \/ work'.back # "read"
    BY <2>1, <2>2
  <2> QED  BY <2>1, <2>3, <2>4, <1>0 DEF Alone, Checking
<1>7. CASE WriteOpen \/ WriteClose \/ PickHost \/ NoHole \/ Launch \/ StartDone
  <2>1. /\ pc \in {"write1", "close1", "start", "write2", "close2"}
        /\ pc' \in {"close1", "start", "write2", "close2", "isdone"}
    BY <1>7, LaunchCases DEF WriteOpen, WriteClose, PickHost, NoHole, StartDone, At
  <2> QED  BY <2>1, <1>0 DEF Alone, Checking
<1>8. CASE IsDone
  <2>1. /\ UNCHANGED <<jobs, disk, procs>> /\ pc' \in {"clean", "done", "read", "seq"}
        /\ pc' = "clean" => Parallel /\ (pc' = "seq" => ~Parallel)
        /\ pc' = "seq" => ~Parallel
    BY <1>8 DEF IsDone, remote
  <2> QED  BY <2>1, <1>0 DEF Alone, Polling, Cleaning, Checking
<1>9. CASE CleanKill \/ CleanFetch \/ CleanDone
  <2>1. pc \in {"clean", "last"} /\ pc' \in {"clean", "last", "rm", "done"}
    BY <1>9, CleanCases DEF CleanFetch, CleanDone, At
  <2> QED  BY <2>1, <1>0 DEF Alone, Polling, Cleaning, Checking
<1>10. CASE SeqStart \/ SeqStep \/ SeqFinish
  <2>1. /\ pc \in {"seq", "run"} /\ UNCHANGED <<jobs, disk, procs>>
        /\ pc' \in {"read", "run"} \/ (pc' = "check" /\ work'.back = "read")
    BY <1>10, <1>0 DEF SeqStart, SeqStep, SeqFinish, At, ToCheck, remote, Work
  <2> QED  BY <2>1, <1>0 DEF Alone, Polling, Cleaning, Checking
<1> QED  BY <1>1, <1>2, <1>3, <1>4, <1>5, <1>6, <1>7, <1>8, <1>9, <1>10 DEF Next, Master, Environment

-----------------------------------------------------------------------------
(* The jobs that account for the processes.                                *)

ThreadsOn(L, h) == SumFunction([j \in {i \in L : i.host = h} |-> j.th])

OnHost(L, h) == {i \in L : i.host = h}

ThreadsOf(S) == [j \in S |-> j.th]

LEMMA ThreadsSum ==
    ASSUME NEW L, JobSet(L), NEW h
    PROVE  /\ IsFiniteSet(OnHost(L, h))
           /\ ThreadsOn(L, h) = Sum(ThreadsOf(OnHost(L, h)), OnHost(L, h))
           /\ \A j \in L : j.th \in Nat
<1>1. SumFunction(ThreadsOf(OnHost(L, h))) = Sum(ThreadsOf(OnHost(L, h)), OnHost(L, h))
  BY DEF SumFunction, Sum, ThreadsOf
<1>2. IsFiniteSet(OnHost(L, h))
  BY FS_Subset DEF JobSet, OnHost
<1>3. \A j \in L : j.th \in Nat
  BY JobFields DEF JobSet
<1> QED  BY <1>1, <1>2, <1>3 DEF ThreadsOn, OnHost, ThreadsOf

LEMMA ThreadsTyped ==
    ASSUME NEW L, JobSet(L), NEW h
    PROVE  ThreadsOn(L, h) \in Nat
<1>1. PICK S : S = OnHost(L, h)
  OBVIOUS
<1>2. PICK f : f = ThreadsOf(S)
  OBVIOUS
<1>3. IsFiniteSet(S) /\ ThreadsOn(L, h) = Sum(f, S) /\ \A i \in L : i.th \in Nat
  BY <1>1, <1>2, ThreadsSum
<1>4. \A i \in S : f[i] \in Nat
  BY <1>1, <1>2, <1>3 DEF OnHost, ThreadsOf
<1> QED  BY <1>3, <1>4, SumType

LEMMA BusyIs == \A h : Busy(h) = ThreadsOn(jobs, h)
  BY DEF Busy, ThreadsOn

\* A job more.
LEMMA ThreadsMore ==
    ASSUME NEW L, JobSet(L), NEW j \in ProperJob, j \notin L, NEW h
    PROVE  /\ ThreadsOn(L, h) \in Nat
           /\ h = j.host => ThreadsOn(L \cup {j}, h) = ThreadsOn(L, h) + j.th
           /\ h # j.host => ThreadsOn(L \cup {j}, h) = ThreadsOn(L, h)
<1>1. PICK M : M = L \cup {j}
  OBVIOUS
<1>2. JobSet(M)
  BY <1>1, FS_AddElement DEF JobSet
<1>3. PICK S : S = OnHost(M, h)
  OBVIOUS
<1>4. PICK T : T = OnHost(L, h)
  OBVIOUS
<1>5. PICK f : f = ThreadsOf(S)
  OBVIOUS
<1>6. PICK g : g = ThreadsOf(T)
  OBVIOUS
<1>7. IsFiniteSet(S) /\ ThreadsOn(M, h) = Sum(f, S) /\ \A i \in M : i.th \in Nat
  BY <1>2, <1>3, <1>5, ThreadsSum
<1>8. IsFiniteSet(T) /\ ThreadsOn(L, h) = Sum(g, T) /\ \A i \in L : i.th \in Nat
  BY <1>4, <1>6, ThreadsSum
<1>9. Sum(g, T) \in Nat
  BY <1>4, <1>6, <1>8, SumType DEF OnHost, ThreadsOf
<1>10. CASE h # j.host
  <2>1. S = T
    BY <1>1, <1>3, <1>4, <1>10 DEF OnHost
  <2> QED  BY <2>1, <1>1, <1>5, <1>6, <1>7, <1>8, <1>9, <1>10
<1>11. CASE h = j.host
  <2>1. j \in S /\ S \ {j} = T
    BY <1>1, <1>3, <1>4, <1>11 DEF OnHost
  <2>2. \A i \in S : f[i] \in Nat
    BY <1>3, <1>5, <1>7 DEF OnHost, ThreadsOf
  <2>3. Sum(f, S) = f[j] + Sum(f, T)
    <3>1. IsFiniteSet(S) /\ j \in S
      BY <2>1, <1>7
    <3>2. Sum(f, S) = f[j] + Sum(f, S \ {j})
      BY <3>1, <2>2, SumSplit
    <3> QED  BY <3>2, <2>1
  <2>4. Sum(g, T) = Sum(f, T)
    <3>1. \A i \in T : g[i] \in Nat /\ f[i] = g[i]
      BY <2>1, <1>4, <1>5, <1>6, <1>8 DEF OnHost, ThreadsOf
    <3> QED  BY <3>1, <1>8, SumAgrees
  <2>5. f[j] = j.th
    BY <2>1, <1>5 DEF ThreadsOf
  <2>6. Sum(f, S) = Sum(g, T) + j.th
    <3>1. j.th \in Nat
      BY JobFields
    <3> QED  BY <3>1, <2>3, <2>4, <2>5, <1>9
  <2> QED  BY <2>6, <1>1, <1>7, <1>8, <1>9, <1>11
<1> QED  BY <1>10, <1>11

\* The list changes to M, whose jobs are those of L but for their pids.
LEMMA TracksMap ==
    ASSUME NEW L, NEW P, NEW C \in [Host -> Nat], Tracks(L, P, C), NEW M, JobSet(M), NEW Q,
           NEW m \in [M -> L], \A i, j \in M : m[i] = m[j] => i = j,
           \A i \in M : i.host = m[i].host /\ i.lo = m[i].lo /\ i.hi = m[i].hi /\ i.th = m[i].th,
           \A x \in Q : x.open /\ JobOf(x) \in M
    PROVE  Tracks(M, Q, C)
<1>1. \A i, j \in M : i # j => Apart(i.lo, i.hi, j.lo, j.hi)
  BY DEF Tracks, Apart
<1>2. ASSUME NEW h \in Host
      PROVE  ThreadsOn(M, h) <= C[h]
  <2>1. PICK S : S = OnHost(M, h)
    OBVIOUS
  <2>t. PICK T : T = OnHost(L, h)
    OBVIOUS
  <2>2. PICK f : f = ThreadsOf(S)
    OBVIOUS
  <2>g. PICK g : g = ThreadsOf(T)
    OBVIOUS
  <2>3. JobSet(L)
    BY DEF Tracks
  <2>4. /\ IsFiniteSet(S) /\ ThreadsOn(M, h) = Sum(f, S) /\ \A j \in M : j.th \in Nat
    BY <2>1, <2>t, <2>2, <2>g, ThreadsSum
  <2>5. /\ IsFiniteSet(T) /\ ThreadsOn(L, h) = Sum(g, T) /\ \A j \in L : j.th \in Nat
    BY <2>1, <2>t, <2>2, <2>g, <2>3, ThreadsSum
  <2>6. PICK n : n = [j \in S |-> m[j]]
    OBVIOUS
  <2>7. /\ n \in [S -> T] /\ \A x, y \in S : n[x] = n[y] => x = y
        /\ \A x \in S : f[x] <= g[n[x]]
    <3>1. ASSUME NEW x \in S
          PROVE  n[x] = m[x] /\ m[x] \in T /\ f[x] <= g[n[x]] /\ x \in M
      <4>1. x \in M /\ x.host = h /\ n[x] = m[x] /\ f[x] = x.th /\ x.th \in Nat
        BY <2>1, <2>t, <2>2, <2>g, <2>4, <2>6 DEF OnHost, ThreadsOf
      <4>2. m[x] \in L /\ m[x].host = h /\ m[x].th = x.th
        BY <4>1
      <4>3. m[x] \in T /\ g[m[x]] = m[x].th
        BY <4>2, <2>1, <2>t, <2>2, <2>g DEF OnHost, ThreadsOf
      <4> QED  BY <4>1, <4>2, <4>3
    <3>2. n \in [S -> T]
      BY <3>1, <2>6
    <3>3. \A x, y \in S : n[x] = n[y] => x = y
      BY <3>1
    <3> QED  BY <3>1, <3>2, <3>3
  <2>8. (\A x \in S : f[x] \in Nat) /\ (\A y \in T : g[y] \in Nat)
    BY <2>1, <2>t, <2>2, <2>g, <2>4, <2>5 DEF OnHost, ThreadsOf
  <2>9. Sum(f, S) <= Sum(g, T)
    BY <2>4, <2>5, <2>7, <2>8, SumInjection
  <2>10. Sum(f, S) \in Nat /\ Sum(g, T) \in Nat
    BY <2>4, <2>5, <2>8, SumType
  <2>11. ThreadsOn(L, h) <= C[h] /\ C[h] \in Nat
    BY DEF Tracks, ThreadsOn
  <2> QED  BY <2>4, <2>5, <2>9, <2>10, <2>11
<1> QED  BY <1>1, <1>2 DEF Tracks, ThreadsOn

\* The list loses jobs, and processes go.
LEMMA TracksFewer ==
    ASSUME NEW L, NEW P, NEW C \in [Host -> Nat], Tracks(L, P, C), NEW M \in SUBSET L,
           NEW Q \in SUBSET P, \A x \in Q : JobOf(x) \in M
    PROVE  Tracks(M, Q, C)
<1>1. PICK m : m = [i \in M |-> i]
  OBVIOUS
<1>2. /\ m \in [M -> L] /\ \A i \in M : m[i] = i
  BY <1>1
<1>3. JobSet(M)
  BY FS_Subset DEF Tracks, JobSet
<1>4. \A x \in Q : x.open /\ JobOf(x) \in M
  BY DEF Tracks
<1> QED  BY <1>2, <1>3, <1>4, TracksMap

\* A job is marked as done.
LEMMA TracksDone ==
    ASSUME NEW L, NEW P, NEW C \in [Host -> Nat], Tracks(L, P, C), NEW j \in L, NEW d,
           d = [j EXCEPT !.pid = 0], \A x \in P : JobOf(x) # j, NEW M, M = (L \ {j}) \cup {d}
    PROVE  Tracks(M, P, C)
<1>1. PICK m : m = [i \in M |-> IF i = d THEN j ELSE i]
  OBVIOUS
<1>2. j \in ProperJob /\ L \subseteq ProperJob /\ IsFiniteSet(L)
  BY DEF Tracks, JobSet
<1>3. /\ d \in ProperJob /\ d.host = j.host /\ d.lo = j.lo /\ d.hi = j.hi /\ d.th = j.th
      /\ j.lo < j.hi /\ j.lo \in Nat /\ j.hi \in Nat
  BY <1>2, JobFields
<1>4. d \notin L \ {j}
  <2> SUFFICES ASSUME d \in L, d # j PROVE FALSE
    OBVIOUS
  <2>1. Apart(d.lo, d.hi, j.lo, j.hi)
    BY DEF Tracks
  <2> QED  BY <2>1, <1>3 DEF Apart
<1>5. JobSet(M)
  <2>1. IsFiniteSet(L \ {j})
    BY <1>2, FS_RemoveElement
  <2>2. IsFiniteSet(M)
    BY <2>1, FS_AddElement
  <2> QED  BY <2>2, <1>2, <1>3 DEF JobSet
<1>6. m \in [M -> L] /\ \A i, k \in M : m[i] = m[k] => i = k
  BY <1>1, <1>4
<1>7. \A i \in M : i.host = m[i].host /\ i.lo = m[i].lo /\ i.hi = m[i].hi /\ i.th = m[i].th
  BY <1>1, <1>3
<1>8. \A x \in P : x.open /\ JobOf(x) \in M
  BY DEF Tracks
<1> QED  BY SMTT(30), <1>5, <1>6, <1>7, <1>8, TracksMap

\* A job is started.
LEMMA TracksMore ==
    ASSUME NEW L, NEW P, NEW C \in [Host -> Nat], Tracks(L, P, C), NEW j \in ProperJob, NEW x,
           x.open, JobOf(x) = j, \A i \in L : Apart(i.lo, i.hi, j.lo, j.hi),
           ThreadsOn(L, j.host) + j.th <= C[j.host]
    PROVE  Tracks(L \cup {j}, P \cup {x}, C)
<1>1. JobSet(L) /\ j.host \in Host /\ j.lo < j.hi /\ j.lo \in Nat /\ j.hi \in Nat /\ j.th \in Nat
  BY JobFields DEF Tracks
<1>2. PICK M : M = L \cup {j}
  OBVIOUS
<1>3. JobSet(M)
  BY <1>1, <1>2, FS_AddElement DEF JobSet
<1>4. j \notin L
  <2> SUFFICES ASSUME j \in L PROVE FALSE
    OBVIOUS
  <2>1. Apart(j.lo, j.hi, j.lo, j.hi)
    OBVIOUS
  <2> QED  BY <2>1, <1>1 DEF Apart
<1>5. ASSUME NEW i \in M, NEW k \in M, i # k
      PROVE  Apart(i.lo, i.hi, k.lo, k.hi)
  BY <1>2, <1>5 DEF Tracks, Apart
<1>6. ASSUME NEW h \in Host
      PROVE  ThreadsOn(M, h) <= C[h]
  <2>1. /\ ThreadsOn(L, h) \in Nat
        /\ h = j.host => ThreadsOn(M, h) = ThreadsOn(L, h) + j.th
        /\ h # j.host => ThreadsOn(M, h) = ThreadsOn(L, h)
    BY <1>1, <1>2, <1>4, ThreadsMore
  <2>2. ThreadsOn(L, h) <= C[h]
    BY DEF Tracks, ThreadsOn
  <2> QED  BY <2>1, <2>2, <1>1
<1>7. \A y \in P \cup {x} : y.open /\ JobOf(y) \in M
  BY <1>2 DEF Tracks
<1>8. Tracks(M, P \cup {x}, C)
  BY <1>3, <1>5, <1>6, <1>7 DEF Tracks, ThreadsOn
<1> QED  BY <1>2, <1>8

\* Two processes of one range are the same.
LEMMA TracksOne ==
    ASSUME NEW L, NEW P, NEW C, Tracks(L, P, C), P \subseteq Proc, NEW x \in P, NEW y \in P,
           x.lo = y.lo, x.hi = y.hi
    PROVE  x = y
<1>1. JobOf(x) \in L /\ JobOf(y) \in L /\ x.open /\ y.open
  BY DEF Tracks
<1>2. JobOf(x) \in ProperJob
  BY <1>1 DEF Tracks, JobSet
<1>3. JobOf(x) = JobOf(y)
  <2> SUFFICES ASSUME JobOf(x) # JobOf(y) PROVE FALSE
    OBVIOUS
  <2>1. PICK i, j : i = JobOf(x) /\ j = JobOf(y)
    OBVIOUS
  <2>2. Apart(i.lo, i.hi, j.lo, j.hi)
    BY <2>1, <1>1 DEF Tracks
  <2>3. i.lo = j.lo /\ i.hi = j.hi
    BY <2>1 DEF JobOf
  <2>4. i.lo < i.hi /\ i.lo \in Nat /\ i.hi \in Nat
    BY <2>1, <1>2, JobFields
  <2> QED  BY <2>2, <2>3, <2>4 DEF Apart
<1>4. x.host = y.host /\ x.pid = y.pid /\ x.th = y.th
  BY <1>3 DEF JobOf
<1>5. x \in Proc /\ y \in Proc
  OBVIOUS
<1> QED  BY <1>1, <1>4, <1>5 DEF Proc

\* The processes of a host have no more threads than its jobs.
LEMMA TracksThreads ==
    ASSUME NEW L, NEW P, NEW C \in [Host -> Nat], Tracks(L, P, C), P \subseteq Proc, IsFiniteSet(P),
           NEW h \in Host
    PROVE  SumFunction([x \in {y \in P : y.host = h} |-> x.th]) <= C[h]
<1>1. PICK S : S = {x \in P : x.host = h}
  OBVIOUS
<1>t. PICK T : T = OnHost(L, h)
  OBVIOUS
<1>2. PICK f : f = [x \in S |-> x.th]
  OBVIOUS
<1>g. PICK g : g = ThreadsOf(T)
  OBVIOUS
<1>3. JobSet(L)
  BY DEF Tracks
<1>4. /\ IsFiniteSet(T) /\ ThreadsOn(L, h) = Sum(g, T) /\ \A i \in L : i.th \in Nat
  BY <1>1, <1>t, <1>2, <1>g, <1>3, ThreadsSum
<1>5. IsFiniteSet(S)
  BY <1>1, <1>t, FS_Subset
<1>6. PICK m : m = [x \in S |-> JobOf(x)]
  OBVIOUS
<1>7. \A x \in S : m[x] \in T /\ f[x] \in Nat /\ f[x] = g[m[x]]
  <2> TAKE x \in S
  <2>1. x \in P /\ x.host = h /\ x \in Proc
    BY <1>1, <1>t
  <2>2. JobOf(x) \in L /\ JobOf(x).host = h /\ JobOf(x).th = x.th
    BY <2>1 DEF Tracks, JobOf
  <2>3. JobOf(x) \in T
    BY <2>2, <1>1, <1>t DEF OnHost, ThreadsOf
  <2> QED  BY <2>1, <2>2, <2>3, <1>2, <1>g, <1>6 DEF Proc, OnHost, ThreadsOf
<1>8. m \in [S -> T] /\ \A x \in S : f[x] <= g[m[x]]
  BY <1>6, <1>7
<1>9. \A x, y \in S : m[x] = m[y] => x = y
  <2>1. \A x, y \in S : m[x] = m[y] => x.lo = y.lo /\ x.hi = y.hi
    BY <1>6 DEF JobOf
  <2>2. \A x \in S : x \in P
    BY <1>1, <1>t
  <2> QED  BY <2>1, <2>2, TracksOne
<1>10. \A i \in T : g[i] \in Nat
  BY <1>1, <1>t, <1>2, <1>g, <1>4 DEF OnHost, ThreadsOf
<1>11. Sum(f, S) <= Sum(g, T)
  BY <1>4, <1>5, <1>7, <1>8, <1>9, <1>10, SumInjection
<1>12. Sum(f, S) \in Nat /\ Sum(g, T) \in Nat
  BY <1>4, <1>5, <1>7, <1>10, SumType
<1>13. ThreadsOn(L, h) <= C[h] /\ C[h] \in Nat
  BY DEF Tracks, ThreadsOn
<1>14. SumFunction(f) = Sum(f, S)
  BY <1>2, <1>g DEF SumFunction, Sum
<1>15. SumFunction(f) <= C[h]
  BY <1>4, <1>11, <1>12, <1>13, <1>14
<1> QED  BY <1>1, <1>t, <1>2, <1>g, <1>15

-----------------------------------------------------------------------------
(* The failures only grow.                                                 *)

LEMMA FaultStep ==
    ASSUME TypeInv, [Next]_vars
    PROVE  UNCHANGED faults \/ \E k \in Kinds : Fault(k)
<1>1. CASE UNCHANGED vars
  BY <1>1 DEF vars
<1>2. CASE Restart \/ Boot \/ ReadJobs \/ StatusDone \/ FetchDone \/ WriteOpen \/ WriteClose \/ NoHole
           \/ StartDone \/ IsDone \/ CleanDone \/ SeqStart \/ SeqStep \/ SeqFinish
  BY <1>2 DEF Restart, Boot, ReadJobs, StatusDone, FetchDone, WriteOpen, WriteClose, NoHole,
     StartDone, IsDone, CleanDone, SeqStart, SeqStep, SeqFinish
<1>3. CASE Check
  BY <1>3, CheckMoves
<1>4. CASE AskAlive \/ AskTail \/ Fetch \/ FetchRm \/ PickHost \/ CleanKill \/ CleanFetch
  <2>1. NetOK \/ NetFails
    BY <1>4, AskTailCases, CleanCases DEF AskAlive, IsJobAlive, Fetch, FetchRm, PickHost, CleanFetch
  <2> QED  BY <2>1, NetTyped
<1>5. CASE Launch
  BY <1>5, LaunchCases
<1>6. CASE Environment
  BY <1>6 DEF Environment, Progress, ProcOpen, ProcStep, ProcFinish, ProcDie, Reboot, Crash, SeqFail, Kinds
<1> QED  BY <1>1, <1>2, <1>3, <1>4, <1>5, <1>6 DEF Next, Master

LEMMA KnownBefore ==
    ASSUME TypeInv, [Next]_vars
    PROVE  /\ AllKnown' => AllKnown
           /\ faults'.net = 0 => faults.net = 0
           /\ AllKnown' /\ scn.lostStart => ~NetFails
           /\ AllKnown' => ~Fault("crash") /\ ~Fault("slow")
<1>1. UNCHANGED faults \/ \E k \in Kinds : Fault(k)
  BY FaultStep
<1>2. faults \in [Kinds -> Nat] /\ UNCHANGED scn
  BY TypeStep DEF TypeInv
<1>3. \A k \in Kinds : faults'[k] = faults[k] \/ (faults'[k] = faults[k] + 1)
  BY <1>1, <1>2 DEF Fault
<1>4. faults.crash \in Nat /\ faults.slow \in Nat /\ faults.net \in Nat
  BY <1>2 DEF Kinds
<1>5. /\ faults'.crash = 0 => faults.crash = 0
      /\ faults'.slow = 0 => faults.slow = 0
      /\ faults'.net = 0 => faults.net = 0
  BY <1>3, <1>4 DEF Kinds
<1>6. /\ Fault("crash") => faults'.crash # 0
      /\ Fault("slow") => faults'.slow # 0
      /\ Fault("net") => faults'.net # 0
  BY <1>2, <1>4 DEF Fault, Kinds
<1> QED  BY <1>2, <1>5, <1>6 DEF AllKnown, NetFails

-----------------------------------------------------------------------------
(* Steps that leave most of it alone.                                      *)

LEMMA CoresTyped == TypeInv => Cores \in [Host -> Nat] /\ scn \in Scenarios
  BY Options DEF TypeInv

LEMMA OwnedFewer ==
    ASSUME TypeInv, UNCHANGED scn, Owned, pc # "done", procs' \subseteq procs,
           Listed' \subseteq Listed, \A x \in procs' : JobOf(x) \in Listed'
    PROVE  Owned'
<1>1. Cores \in [Host -> Nat] /\ Cores' = Cores
  BY CoresTyped, SameOptions
<1>2. Tracks(Listed, procs, Cores)
  BY DEF Owned
<1>3. PICK L, M, P, Q, C : L = Listed /\ M = Listed' /\ P = procs /\ Q = procs' /\ C = Cores
  OBVIOUS
<1>4. /\ C \in [Host -> Nat] /\ Tracks(L, P, C) /\ M \in SUBSET L /\ Q \in SUBSET P
      /\ \A x \in Q : JobOf(x) \in M
  BY <1>1, <1>2, <1>3
<1>5. Tracks(M, Q, C)
  BY <1>4, TracksFewer
<1>6. Tracks(Listed', procs', Cores')
  BY <1>5, <1>3, <1>1
<1> QED  BY <1>6 DEF Owned

LEMMA OwnedSame ==
    ASSUME TypeInv, UNCHANGED scn, Owned, pc # "done", UNCHANGED procs, Listed' = Listed
    PROVE  Owned'
<1>1. \A x \in procs : JobOf(x) \in Listed
  BY DEF Owned, Tracks
<1> QED  BY <1>1, OwnedFewer

LEMMA ApartFewer ==
    ASSUME FilesApart, pc # "unlink", ToFetch' \subseteq ToFetch, DOMAIN local' \subseteq DOMAIN local
    PROVE  FilesApart'
  BY DEF FilesApart

LEMMA WritingKept ==
    ASSUME UNCHANGED <<scn, rem>>, Writing, procs' \subseteq procs,
           Cleaning' \/ pc' = "done" \/ (~Cleaning /\ pc # "done")
    PROVE  Writing'
  BY SameOptions DEF Writing, Name

\* A step of the master that leaves the processes, their files and the jobs alone.
LEMMA KnownSame ==
    ASSUME TypeInv, Known, UNCHANGED <<scn, procs, rem>>, pc # "done", pc' # "done", FilesApart',
           Listed' = Listed, Cleaning' <=> Cleaning, Cleaning => work'.todo = work.todo,
           faults'.net = 0 => faults.net = 0
    PROVE  Known'
<1>1. Owned'
  BY OwnedSame DEF Known
<1>2. Writing'
  BY WritingKept DEF Known
<1>3. Killing'
  BY DEF Known, Killing
<1>4. Ended'
  BY DEF Ended
<1> QED  BY <1>1, <1>2, <1>3, <1>4 DEF Known

-----------------------------------------------------------------------------
(* What is claimed follows.                                                *)

LEMMA ApartPoints ==
    ASSUME NEW r, NEW s, r[1] \in Nat, r[2] \in Nat, s[1] \in Nat, s[2] \in Nat,
           Apart(r[1], r[2], s[1], s[2])
    PROVE  Points(r) \cap Points(s) = {}
  BY DEF Points, Lo, Hi, Apart

LEMMA OneFilePerRange ==
    ASSUME FilesApart, Files(local), pc # "unlink", NEW f \in DOMAIN local, NEW g \in DOMAIN local,
           f[1] = g[1], f[2] = g[2]
    PROVE  f = g
<1>1. f[1] < f[2] /\ f[1] \in Nat /\ f[2] \in Nat
  BY FileFields DEF Files
<1> QED  BY <1>1 DEF FilesApart, Apart

LEMMA ProcessesAccounted ==
    ASSUME TypeInv, ProcInv
    PROVE  ProcessesTracked
<1> SUFFICES ASSUME AllKnown PROVE ProcessesTracked
  BY DEF ProcessesTracked, WorkDisjoint, OneWriter, CoresRespected, NothingLeftRunning
<1>1. Known /\ Sorting
  BY DEF ProcInv
<1>2. PICK L : Tracks(L, procs, Cores)
  BY <1>1 DEF Known, Owned
<1>3. Cores \in [Host -> Nat] /\ procs \subseteq Proc /\ IsFiniteSet(procs) /\ Files(local) /\ scn \in Scenarios
  BY CoresTyped, WorkSame DEF RemoteTyped
<1>4. OneWriter
  <2> SUFFICES ASSUME NEW x \in procs, NEW y \in procs, Name(x) = Name(y) PROVE x = y
    BY DEF OneWriter
  <2>1. x.lo = y.lo /\ x.hi = y.hi
    BY DEF Name
  <2> QED  BY <2>1, <1>2, <1>3, TracksOne
<1>5. CoresRespected
  <2> SUFFICES ASSUME NEW h \in Host
               PROVE  SumFunction([x \in {y \in procs : y.host = h} |-> x.th]) <= Cores[h]
    BY DEF CoresRespected
  <2> QED  BY <1>2, <1>3, TracksThreads
<1>6. NothingLeftRunning
  BY <1>1 DEF NothingLeftRunning, Known, Ended
<1>7. WorkDisjoint
  <2> SUFFICES ASSUME pc \in {"write2", "close2", "isdone"}
               PROVE  /\ \A i, j \in jobs : i # j => Points(<<i.lo, i.hi>>) \cap Points(<<j.lo, j.hi>>) = {}
                      /\ Covered(JobRanges) \cap Covered(FileRanges) = {}
                      /\ \A f, g \in DOMAIN local : f # g => Points(f) \cap Points(g) = {}
    BY DEF WorkDisjoint
  <2>1. Listed = jobs /\ ToFetch = jobs
    BY <1>1 DEF Listed, ToFetch, Sorting, Polling, Cleaning, Checking
  <2>2. /\ \A i, j \in jobs : i # j => Apart(i.lo, i.hi, j.lo, j.hi)
        /\ \A j \in jobs : j \in ProperJob
    BY <2>1, <1>1 DEF Known, Owned, Tracks, JobSet
  <2>3. /\ \A j \in jobs, f \in DOMAIN local : Apart(j.lo, j.hi, f[1], f[2])
        /\ \A f, g \in DOMAIN local : f # g => Apart(f[1], f[2], g[1], g[2])
    BY <2>1, <1>1 DEF Known, FilesApart
  <2>4. \A f \in DOMAIN local : f[1] \in Nat /\ f[2] \in Nat
    BY <1>3, FileFields DEF Files
  <2>5. \A j \in jobs : j.lo \in Nat /\ j.hi \in Nat
    BY <2>2, JobFields
  <2>6. ASSUME NEW i \in jobs, NEW j \in jobs, i # j
        PROVE  Points(<<i.lo, i.hi>>) \cap Points(<<j.lo, j.hi>>) = {}
    BY <2>6, <2>2, <2>5, ApartPoints
  <2>7. ASSUME NEW f \in DOMAIN local, NEW g \in DOMAIN local, f # g
        PROVE  Points(f) \cap Points(g) = {}
    BY <2>7, <2>3, <2>4, ApartPoints
  <2>8. ASSUME NEW j \in jobs, NEW f \in DOMAIN local
        PROVE  Points(<<j.lo, j.hi>>) \cap Points(<<f[1], f[2]>>) = {}
    BY <2>3, <2>4, <2>5, ApartPoints
  <2>9. Covered(JobRanges) \cap Covered(FileRanges) = {}
    BY <2>8 DEF Covered, JobRanges, FileRanges
  <2> QED  BY <2>6, <2>7, <2>9
<1> QED  BY <1>4, <1>5, <1>6, <1>7 DEF ProcessesTracked

-----------------------------------------------------------------------------
(* The holes and the free cores, while new jobs are started.               *)

LEMMA StartMoves ==
    ASSUME TypeInv, [Next]_vars, pc' = "start"
    PROVE  \/ UNCHANGED master
           \/ WriteClose /\ pc = "close1"
           \/ pc = "start" /\ (PickHost \/ NoHole \/ Launch)
<1>0. \A l : l \notin {"start"} => l # pc'
  OBVIOUS
<1>1. CASE UNCHANGED vars
  BY <1>1 DEF vars
<1>2. CASE Environment
  BY <1>2 DEF Environment, Progress, ProcOpen, ProcStep, ProcFinish, ProcDie, Reboot, Crash, SeqFail, Die
<1>3. CASE Check
  <2>1. pc \in Checking
    BY <1>3, CheckMoves
  <2>2. work.back # "start"
    BY WorkSame, WorkFields
  <2> QED  BY <1>3, <2>2, CheckMoves DEF Checking
<1>4. ~(\/ Restart \/ Boot \/ ReadJobs \/ AskAlive \/ AskTail \/ StatusDone \/ FetchRm \/ FetchDone
        \/ WriteOpen \/ StartDone \/ IsDone \/ CleanFetch \/ CleanDone \/ SeqStart \/ SeqStep \/ SeqFinish)
  BY <1>0 DEF Restart, Boot, ReadJobs, AskAlive, AskTail, StatusDone, FetchRm, FetchDone, WriteOpen,
     StartDone, IsDone, CleanFetch, CleanDone, SeqStart, SeqStep, SeqFinish, At, ToCheck
<1>5. ~CleanKill /\ ~Fetch
  BY CleanCases DEF Fetch, At
<1>6. WriteClose => pc = "close1"
  BY DEF WriteClose, At
<1> QED  BY <1>1, <1>2, <1>3, <1>4, <1>5, <1>6 DEF Next, Master, PickHost, NoHole, Launch, At

LEMMA HolesStep ==
    ASSUME TypeInv, Holes, [Next]_vars
    PROVE  Holes'
<1> SUFFICES ASSUME pc' = "start" PROVE Holes'
  BY DEF Holes
<1>0. UNCHANGED scn /\ QMin' = QMin /\ work \in Work
  BY TypeStep, SameOptions, WorkSame
<1>1. ASSUME pc = "start", UNCHANGED <<jobs, local>>, work'.ranges = work.ranges
      PROVE  Holes'
  BY <1>0, <1>1 DEF Holes, JobRanges, FileRanges
<1>2. CASE UNCHANGED master
  BY <1>1, <1>2 DEF master
<1>3. CASE PickHost \/ NoHole
  <2>1. pc = "start" /\ UNCHANGED <<jobs, local>>
    BY <1>3 DEF PickHost, NoHole, At
  <2>2. work'.ranges = work.ranges
    BY <1>0, <1>3 DEF PickHost, NoHole, Work
  <2> QED  BY <1>1, <2>1, <2>2
<1>4. CASE WriteClose /\ pc = "close1"
  <2>1. PICK m : m = MergeRanges(FileRanges \cup JobRanges)
    OBVIOUS
  <2>2. UNCHANGED <<jobs, local>> /\ work' = [NoWork EXCEPT !.hosts = Host, !.ranges = m]
    BY <1>4, <2>1 DEF WriteClose, At
  <2>3. work'.ranges = m
    BY <2>2 DEF NoWork
  <2>4. PICK S : S = FileRanges \cup JobRanges
    OBVIOUS
  <2>5. S \in SUBSET (Nat \X Nat) /\ IsFiniteSet(S) /\ \A r \in S : Lo(r) < Hi(r)
    BY <2>4, WorkSame, RangesTyped, FS_Union DEF TypeInv, MasterTyped
  <2>6. \A r \in S : Within(r, m)
    BY <2>1, <2>4, <2>5, MergedRanges
  <2>7. JobRanges' = JobRanges /\ FileRanges' = FileRanges
    BY <2>2 DEF JobRanges, FileRanges
  <2>8. \A r \in JobRanges' \cup FileRanges' : Within(r, work'.ranges)
    BY <2>3, <2>4, <2>6, <2>7
  <2> QED  BY <2>8 DEF Holes
<1>5. CASE Launch
  <2>1. /\ pc = "start" /\ work.n > 0 /\ CanLaunch /\ (LaunchListed \/ LaunchUnlisted)
        /\ UNCHANGED local
    BY <1>5, LaunchCases
  <2>2. PICK rs \in Seq(Nat \X Nat), n \in Int :
          /\ work' = [work EXCEPT !.hosts = work.hosts, !.host = work.host, !.n = n, !.ranges = rs]
          /\ \A r \in Nat \X Nat : Within(r, work.ranges) => r[2] < QMin \/ Within(r, rs)
          /\ LaunchListed => Within(NextHole, rs)
    BY <2>1, LaunchRanges
  <2>3. work'.ranges = rs
    BY <2>2, <1>0 DEF Work
  <2>4. \A r \in JobRanges \cup FileRanges : r \in Nat \X Nat /\ (r[2] < QMin \/ Within(r, work.ranges))
    BY <2>1, WorkSame, RangesTyped DEF TypeInv, MasterTyped, Holes
  <2>5. \A r \in JobRanges \cup FileRanges : r[2] < QMin \/ Within(r, rs)
    BY <2>2, <2>4
  <2>6. FileRanges' = FileRanges
    BY <2>1 DEF FileRanges
  <2>7. JobRanges' = JobRanges \/ (LaunchListed /\ JobRanges' = JobRanges \cup {NextHole})
    <3>1. CASE LaunchUnlisted
      BY <3>1 DEF LaunchUnlisted, JobRanges
    <3>2. CASE LaunchListed
      <4>1. NextHole \in Nat \X Nat
        BY <2>1, HoleTyped
      <4>2. <<NewJob.lo, NewJob.hi>> = NextHole
        BY <4>1, <2>1, NewJobTyped
      <4>3. jobs' = jobs \cup {NewJob}
        BY <3>2 DEF LaunchListed
      <4>4. JobRanges' = JobRanges \cup {<<NewJob.lo, NewJob.hi>>}
        BY <4>3 DEF JobRanges
      <4> QED  BY <3>2, <4>2, <4>4
    <3> QED  BY <2>1, <3>1, <3>2
  <2>8. \A r \in JobRanges' \cup FileRanges' : r[2] < QMin \/ Within(r, rs)
    BY <2>2, <2>5, <2>6, <2>7
  <2> QED  BY <2>3, <2>8, <1>0 DEF Holes
<1> QED  BY <1>2, <1>3, <1>4, <1>5, StartMoves

LEMMA FreeCoresStep ==
    ASSUME TypeInv, FreeCores, [Next]_vars
    PROVE  FreeCores'
<1> SUFFICES ASSUME pc' = "start" PROVE FreeCores'
  BY DEF FreeCores
<1>0. UNCHANGED scn /\ Cores' = Cores /\ MaxThreads' = MaxThreads /\ work \in Work
  BY TypeStep, SameOptions, WorkSame
<1>a. JobSet(jobs) /\ Cores \in [Host -> Nat]
  BY CoresTyped DEF TypeInv, MasterTyped
<1>2. CASE UNCHANGED master
  BY <1>0, <1>2 DEF master, FreeCores, Busy
<1>3. CASE WriteClose /\ pc = "close1"
  <2>1. \A m : [NoWork EXCEPT !.hosts = Host, !.ranges = m].n = 0
    BY DEF NoWork
  <2>2. work'.n = 0
    BY <1>3, <2>1 DEF WriteClose, At
  <2> QED  BY <2>2 DEF FreeCores
<1>4. CASE NoHole
  <2>1. work'.n = 0
    BY <1>0, <1>4 DEF NoHole, Work
  <2> QED  BY <2>1 DEF FreeCores
<1>5. CASE PickHost
  <2>1. PICK h \in work.hosts :
         LET w == [work EXCEPT !.hosts = @ \ {h}, !.host = h]
         IN  \/ NetOK /\ work' = [w EXCEPT !.n = Cores[h] - Busy(h)]
             \/ Cores[h] > Busy(h) /\ NetFails /\ work' = [w EXCEPT !.n = 0]
    BY <1>5 DEF PickHost
  <2>2. work'.host = h /\ (work'.n = Cores[h] - Busy(h) \/ work'.n = 0)
    BY <2>1, <1>0 DEF Work
  <2>3. h \in Host /\ Cores[h] \in Nat
    BY <1>0, <1>a, WorkFields
  <2>4. Busy(h) \in Nat
    BY <1>a, BusyIs, ThreadsTyped
  <2>5. Busy(work.host)' = Busy(h)
    BY <1>5, <2>2 DEF PickHost, Busy
  <2> QED  BY <2>2, <2>3, <2>4, <2>5, <1>0 DEF FreeCores
<1>6. CASE Launch
  <2>1. /\ pc = "start" /\ work.n > 0 /\ CanLaunch /\ (LaunchListed \/ LaunchUnlisted)
    BY <1>6, LaunchCases
  <2>2. work'.host = work.host /\ work'.n = work.n - MaxThreads
    BY <2>1, <1>0 DEF LaunchListed, LaunchUnlisted, Work
  <2>3. PICK h, L : h = work.host /\ L = jobs
    OBVIOUS
  <2>4. h \in Host /\ Cores[h] \in Nat /\ work.n \in Int /\ MaxThreads \in Nat \ {0}
    BY <2>1, <2>3, <1>0, <1>a, HoleTyped, WorkFields, Options, CoresTyped
  <2>5. ThreadsOn(L, h) \in Nat /\ Busy(work.host) = ThreadsOn(L, h)
    BY <2>3, <1>a, BusyIs, ThreadsTyped
  <2>6. PICK M : M = jobs'
    OBVIOUS
  <2>7. Busy(work.host)' = ThreadsOn(M, h)
    BY <2>2, <2>3, <2>6 DEF Busy, ThreadsOn
  <2>8. CASE M = L
    <3>1. ThreadsOn(L, h) + work.n <= Cores[h]
      BY <2>1, <2>3, <2>5 DEF FreeCores
    <3> QED  BY <2>2, <2>3, <2>4, <2>5, <2>7, <2>8, <3>1, <1>0 DEF FreeCores
  <2>9. CASE M # L
    <3>1. PICK j : j = NewJob
      OBVIOUS
    <3>2. /\ j \in ProperJob /\ M = L \cup {j} /\ j \notin L /\ j.host = h /\ j.th = Threads
      BY <2>1, <2>3, <2>6, <2>9, <3>1, NewJobTyped DEF LaunchListed, LaunchUnlisted
    <3>3. ThreadsOn(M, h) = ThreadsOn(L, h) + j.th
      BY <3>2, <2>3, <1>a, ThreadsMore
    <3>4. j.th = IF work.n < MaxThreads THEN work.n ELSE MaxThreads
      BY <3>2 DEF Threads
    <3>5. ThreadsOn(L, h) + work.n <= Cores[h]
      BY <2>1, <2>3, <2>5 DEF FreeCores
    <3>6. work'.n > 0 => ThreadsOn(M, h) + work'.n <= Cores[h]
      BY <3>3, <3>4, <3>5, <2>2, <2>4, <2>5
    <3> QED  BY <3>6, <2>2, <2>3, <2>7, <1>0 DEF FreeCores
  <2> QED  BY <2>8, <2>9
<1> QED  BY <1>2, <1>3, <1>4, <1>5, <1>6, StartMoves

-----------------------------------------------------------------------------
(* The processes the master knows of: the steps outside the master.        *)

LEMMA OutsideKnown ==
    ASSUME TypeInv, Known, UNCHANGED <<scn, master>>, procs' \subseteq procs, Writing',
           faults'.net = 0 => faults.net = 0
    PROVE  Known'
<1>1. /\ (Polling' <=> Polling) /\ (Cleaning' <=> Cleaning)
      /\ Listed' = Listed /\ ToFetch' = ToFetch /\ Cores' = Cores
  BY OutsideLists, SameOptions
<1>2. \A L : Tracks(L, procs, Cores) => Tracks(L, procs', Cores)
  BY DEF Tracks
<1>3. Owned'
  BY <1>1, <1>2 DEF Known, Owned, master
<1>4. FilesApart'
  BY <1>1 DEF Known, FilesApart, master
<1>5. Killing' /\ Ended'
  BY <1>1 DEF Known, Killing, Ended, master
<1> QED  BY <1>3, <1>4, <1>5 DEF Known

LEMMA ProcKnown ==
    ASSUME TypeInv, Known, UNCHANGED scn, NEW x \in procs, ProcOpen(x) \/ ProcStep(x) \/ ProcFinish(x)
    PROVE  Known'
<1>1. PICK L : Tracks(L, procs, Cores)
  BY DEF Known, Owned
<1>2. UNCHANGED <<scn, master>> /\ UNCHANGED faults /\ procs \subseteq Proc
  BY WorkSame DEF ProcOpen, ProcStep, ProcFinish, RemoteTyped
<1>3. \A y \in procs : y # x => ~(y.lo = x.lo /\ y.hi = x.hi)
  BY <1>1, <1>2, TracksOne
<1>4. \A y \in procs : y # x => Name(y) # Name(x)
  BY <1>3 DEF Name
<1>5. x.host \in Host /\ rem = [h \in Host |-> rem[h]]
  BY <1>2, WorkSame DEF Proc, RemoteTyped
<1>6. (Cleaning' <=> Cleaning) /\ pc' = pc
  BY <1>2, OutsideLists DEF master
<1>7. ~ProcOpen(x)
  BY <1>1 DEF Tracks, ProcOpen
<1>8. CASE ProcStep(x)
  <2>1. PICK h, f, d : h = x.host /\ f = Name(x) /\ d = rem[h]
    OBVIOUS
  <2>2. procs' = procs /\ f \in DOMAIN d /\ rem' = [rem EXCEPT ![h][f].q = @ + 1]
    BY <1>8, <2>1 DEF ProcStep
  <2>3. d = [g \in DOMAIN d |-> d[g]] /\ d[f] \in Content
    BY <1>5, <2>1, <2>2, WorkSame DEF RemoteTyped, Files, Fits
  <2>4. PICK e : e = [d EXCEPT ![f].q = @ + 1]
    OBVIOUS
  <2>5. rem' = [rem EXCEPT ![h] = e]
    BY <2>1, <2>2, <2>4
  <2>6. DOMAIN e = DOMAIN d /\ \A g \in DOMAIN d : e[g].end = d[g].end
    BY <2>2, <2>3, <2>4 DEF Content
  <2>7. \A i \in Host : DOMAIN rem'[i] = DOMAIN rem[i] /\ \A g \in DOMAIN rem[i] : rem'[i][g].end = rem[i][g].end
    BY <1>5, <2>1, <2>5, <2>6
  <2>8. \A y \in procs : Name(y)' = Name(y) /\ y.host \in Host
    BY <1>2, SameOptions DEF Name, Proc
  <2>9. Writing'
    BY <1>6, <2>2, <2>7, <2>8 DEF Writing, Known
  <2> QED  BY <1>2, <2>2, <2>9, OutsideKnown
<1>9. CASE ProcFinish(x)
  <2>1. PICK h, f, d : h = x.host /\ f = Name(x) /\ d = rem[h]
    OBVIOUS
  <2>2. procs' = procs \ {x} /\ (UNCHANGED rem \/ rem' = [rem EXCEPT ![h][f].end = "total"])
    BY <1>9, <2>1 DEF ProcFinish
  <2>3. d = [g \in DOMAIN d |-> d[g]]
    BY <1>5, <2>1, WorkSame DEF RemoteTyped, Files
  <2>4. PICK e : e = [d EXCEPT ![f].end = "total"]
    OBVIOUS
  <2>5. UNCHANGED rem \/ rem' = [rem EXCEPT ![h] = e]
    BY <2>1, <2>2, <2>4
  <2>6. DOMAIN e = DOMAIN d /\ \A g \in DOMAIN d : g # f => e[g] = d[g]
    BY <2>3, <2>4
  <2>7. \A i \in Host : DOMAIN rem'[i] = DOMAIN rem[i] /\ \A g \in DOMAIN rem[i] : g # f => rem'[i][g] = rem[i][g]
    BY <1>5, <2>1, <2>5, <2>6
  <2>8. \A y \in procs : Name(y)' = Name(y) /\ y.host \in Host /\ (y # x => Name(y) # f)
    BY <1>2, <1>4, <2>1, SameOptions DEF Name, Proc
  <2>9. Writing'
    BY <1>6, <2>2, <2>7, <2>8 DEF Writing, Known
  <2> QED  BY <1>2, <2>2, <2>9, OutsideKnown
<1> QED  BY <1>7, <1>8, <1>9

LEMMA EnvironmentKnown ==
    ASSUME TypeInv, Alone, Known, AllKnown', [Next]_vars, Environment \/ UNCHANGED vars
    PROVE  Known'
<1>0. UNCHANGED scn /\ (faults'.net = 0 => faults.net = 0)
  BY TypeStep, KnownBefore
<1>1. CASE \E pid \in 1..MaxPid : Progress(pid)
  BY <1>0, <1>1, ProcKnown DEF Progress
<1>2. CASE (\E x \in procs : ProcDie(x)) \/ (\E h \in Host : Reboot(h)) \/ UNCHANGED vars
  <2>1. UNCHANGED <<scn, master, rem>> /\ procs' \subseteq procs
    BY <1>0, <1>2 DEF ProcDie, Reboot, vars, remote
  <2>2. (Cleaning' <=> Cleaning) /\ pc' = pc
    BY <2>1, OutsideLists DEF master
  <2>3. Writing'
    BY <2>1, <2>2, WritingKept DEF Known, Writing
  <2> QED  BY <1>0, <2>1, <2>3, OutsideKnown
<1>3. CASE Crash
  BY <1>3, KnownBefore DEF Crash
<1>4. CASE SeqFail
  <2>1. /\ pc = "run" /\ pc' = "down" /\ UNCHANGED <<scn, disk, local, procs, rem>> /\ work' = NoWork
    BY <1>0, <1>4 DEF SeqFail, Die, remote, At
  <2>2. Listed' = Listed /\ ToFetch' = ToFetch /\ ~Cleaning /\ ~Cleaning'
    BY <2>1 DEF Listed, ToFetch, Cleaning, Polling, Checking
  <2>3. FilesApart'
    BY <2>1, <2>2, ApartFewer DEF Known
  <2> QED  BY <1>0, <2>1, <2>2, <2>3, KnownSame
<1> QED  BY <1>1, <1>2, <1>3, <1>4 DEF Environment

-----------------------------------------------------------------------------
(* The checks.                                                             *)

LEMMA ListsTyped ==
    ASSUME TypeInv
    PROVE  Listed \subseteq ProperJob /\ ToFetch \subseteq ProperJob
<1>1. /\ work.todo \subseteq ProperJob /\ work.kept \subseteq ProperJob /\ work.fetch \subseteq ProperJob
      /\ pc \in {"tail", "last"} => work.job \in ProperJob
      /\ jobs \subseteq ProperJob /\ disk \subseteq ProperJob
  BY WorkSame, WorkFields DEF TypeInv, WorkShape, MasterTyped, JobSet
<1> QED  BY <1>1 DEF Listed, ToFetch, AtHand

\* A file gets another name, and a range within the one it had.
LEMMA FileRenamed ==
    ASSUME TypeInv, FilesApart, pc # "unlink", NEW w \in DOMAIN local, NEW f, f[1] = w[1],
           f[2] \in Nat, f[2] <= w[2], DOMAIN local' = (DOMAIN local \ {w}) \cup {f}, ToFetch' = ToFetch
    PROVE  FilesApart'
<1>1. \A g \in DOMAIN local : g[1] \in Nat /\ g[2] \in Nat /\ g[1] < g[2]
  BY WorkSame, FileFields DEF Files
<1>2. \A j \in ToFetch : j.lo \in Nat /\ j.hi \in Nat
  BY ListsTyped, JobFields
<1>3. \A j \in ToFetch : Apart(j.lo, j.hi, f[1], f[2])
  BY <1>1, <1>2 DEF FilesApart, Apart
<1>4. \A g \in DOMAIN local \ {w} : Apart(f[1], f[2], g[1], g[2]) /\ Apart(g[1], g[2], f[1], f[2])
  BY <1>1 DEF FilesApart, Apart
<1> QED  BY <1>3, <1>4 DEF FilesApart

LEMMA CheckApart ==
    ASSUME TypeInv, UNCHANGED scn, FilesApart, Check, pc' # "down"
    PROVE  FilesApart'
<1> DEFINE w == work.file
<1>1. /\ pc \in Checking /\ UNCHANGED <<disk, jobs>> /\ work'.todo = work.todo
      /\ work'.kept = work.kept /\ work'.fetch = work.fetch /\ work'.back = work.back
      /\ pc' \in Checking \/ pc' = work.back
  BY CheckMoves
<1>2. ToFetch' = ToFetch
  BY <1>1, CheckLists
<1>3. /\ Files(local) /\ work \in Work
      /\ w \in DOMAIN local => w \in ProperFile /\ Fits(w, local[w])
  BY WorkSame DEF Files
<1>4. CASE CheckMissing \/ CheckInvalid \/ CheckClean \/ CheckTruncate
  <2>1. DOMAIN local' \subseteq DOMAIN local
    BY <1>3, <1>4 DEF CheckMissing, CheckInvalid, CheckClean, CheckTruncate, Without, Restrict
  <2>2. pc # "unlink"
    BY <1>4 DEF CheckMissing, CheckInvalid, CheckClean, CheckTruncate, At
  <2> QED  BY <1>2, <2>1, <2>2, ApartFewer
<1>5. CASE CheckPartial
  <2>1. pc = "check" /\ w \in DOMAIN local /\ UNCHANGED work
    BY <1>5 DEF CheckPartial, At
  <2>2. CASE work.gz
    <3>1. PICK p : p = Plain(w)
      OBVIOUS
    <3>2. DOMAIN local' = DOMAIN local \cup {p} /\ pc' = "unlink"
      BY <1>5, <2>2, <3>1 DEF CheckPartial, Plain, With
    <3>3. p[1] = w[1] /\ p[2] = w[2] /\ Plain(work'.file) = p /\ work'.file = w
      <4>1. work'.file = w
        BY <2>1
      <4>2. Plain(w) = <<w[1], w[2], FALSE>>
        BY <2>1, <1>3, PlainIsFile
      <4> HIDE DEF w
      <4> QED  BY <3>1, <4>1, <4>2
    <3>4. ASSUME NEW f \in DOMAIN local', NEW g \in DOMAIN local', f # g
          PROVE  Apart(f[1], f[2], g[1], g[2]) \/ {f, g} = {w, p}
      <4>1. CASE f # p /\ g # p
        BY <2>1, <3>2, <3>4, <4>1 DEF FilesApart
      <4>2. CASE f = p
        BY <2>1, <3>2, <3>3, <3>4, <4>2 DEF FilesApart
      <4>3. CASE g = p
        BY <2>1, <3>2, <3>3, <3>4, <4>3 DEF FilesApart
      <4> QED  BY <4>1, <4>2, <4>3
    <3>5. \A j \in ToFetch, f \in DOMAIN local' : Apart(j.lo, j.hi, f[1], f[2])
      BY <2>1, <3>2, <3>3 DEF FilesApart
    <3> QED  BY <1>2, <3>2, <3>3, <3>4, <3>5 DEF FilesApart
  <2>3. CASE ~work.gz
    <3>1. UNCHANGED local
      BY <1>5, <2>3 DEF CheckPartial
    <3> QED  BY <1>2, <2>1, <3>1, ApartFewer
  <2> QED  BY <2>2, <2>3
<1>6. CASE CheckUnlink
  <2>1. DOMAIN local' = DOMAIN local \ {w}
    BY <1>6 DEF CheckUnlink, Without, Restrict
  <2> QED  BY <1>2, <2>1 DEF FilesApart
<1>7. CASE CheckRename
  <2>1. PICK f, q : q = local[w].q /\ f = [w EXCEPT ![2] = w[1] + q]
    OBVIOUS
  <2>2. pc = "mv" /\ w \in DOMAIN local /\ DOMAIN local' = (DOMAIN local \ {w}) \cup {f} /\ q # 0
    BY <1>7, <2>1 DEF CheckRename, At, With, Without, Restrict, TypeInv, WorkShape
  <2>3. q \in Nat \ {0} /\ q <= NumberOf(w)
    BY <1>3, <2>1, <2>2 DEF Fits, Content
  <2>4. f = <<w[1], w[1] + q, w[3]>> /\ w[1] \in Nat /\ w[2] \in Nat
    BY <1>3, <2>1, <2>2, <2>3, FileFields
  <2>5. f[1] = w[1] /\ f[2] \in Nat /\ f[2] <= w[2]
    BY <2>3, <2>4 DEF NumberOf
  <2> HIDE DEF w
  <2> QED  BY <1>2, <2>2, <2>5, FileRenamed
<1>8. CASE CheckGzip
  <2>1. PICK f : f = Gz(w)
    OBVIOUS
  <2>2. w \in DOMAIN local
    BY <1>8 DEF CheckGzip, At, TypeInv, WorkShape
  <2>3. DOMAIN local' = (DOMAIN local \ {w}) \cup {f} /\ pc = "gzip"
    BY <1>8, <2>1 DEF CheckGzip, Die, At, Gz, With, Without, Restrict
  <2>4. f = <<w[1], w[2], TRUE>> /\ w[2] \in Nat
    BY <1>3, <2>1, <2>2, PlainIsFile, FileFields
  <2>5. f[1] = w[1] /\ f[2] \in Nat /\ f[2] <= w[2]
    BY <2>4
  <2> HIDE DEF w
  <2> QED  BY <1>2, <2>2, <2>3, <2>5, FileRenamed
<1> QED  BY <1>4, <1>5, <1>6, <1>7, <1>8 DEF Check

LEMMA CheckKnown ==
    ASSUME TypeInv, UNCHANGED scn, Known, Check, faults'.net = 0 => faults.net = 0
    PROVE  Known'
<1>1. pc \in Checking /\ UNCHANGED <<rem, procs>> /\ FilesApart
  BY CheckMoves DEF Known
<1>2. ~Doomed
  <2> SUFFICES ASSUME Doomed PROVE FALSE
    OBVIOUS
  <2>1. /\ pc = "gzip" /\ work.file \in DOMAIN local /\ Gz(work.file) \in DOMAIN local /\ ~work.file[3]
    BY DEF Doomed, TypeInv, WorkShape
  <2>2. PICK w, f : w = work.file /\ f = Gz(w)
    OBVIOUS
  <2>3. w \in ProperFile
    BY <2>1, <2>2, WorkSame DEF Files
  <2>4. f[1] = w[1] /\ f[2] = w[2] /\ f # w
    <3>1. Gz(w) = <<w[1], w[2], TRUE>> /\ Gz(w) # w
      BY <2>1, <2>2, <2>3, PlainIsFile, Forms
    <3>2. f = <<w[1], w[2], TRUE>> /\ f # w
      BY <2>2, <3>1
    <3> QED  BY <3>2
  <2> QED  BY <1>1, <2>1, <2>2, <2>4, WorkSame, OneFilePerRange
<1>3. /\ UNCHANGED <<disk, jobs>> /\ work'.todo = work.todo
      /\ work'.kept = work.kept /\ work'.fetch = work.fetch /\ work'.back = work.back
      /\ pc' \in Checking \/ pc' = work.back
  BY <1>2, CheckMoves
<1>4. Listed' = Listed /\ (Cleaning' <=> Cleaning) /\ pc' # "down" /\ pc' # "done" /\ pc # "done"
  BY <1>1, <1>3, CheckLists DEF Checking
<1>5. FilesApart'
  BY <1>1, <1>4, CheckApart
<1> QED  BY <1>1, <1>3, <1>4, <1>5, KnownSame

-----------------------------------------------------------------------------
(* The polling and the fetching.                                           *)

\* Steps that only move the master.
LEMMA MovesKnown ==
    ASSUME TypeInv, UNCHANGED scn, Sorting, Alone, Known, faults'.net = 0 => faults.net = 0,
           \/ Restart \/ Boot \/ ReadJobs \/ AskAlive \/ StatusDone \/ FetchDone
           \/ WriteOpen \/ WriteClose \/ PickHost \/ NoHole \/ StartDone
    PROVE  Known'
<1>0. work \in Work
  BY WorkSame
<1>1. /\ UNCHANGED <<procs, rem, local>> /\ pc # "done" /\ pc' # "done" /\ pc # "unlink"
      /\ ~Cleaning /\ ~Cleaning'
  <2>1. UNCHANGED <<procs, rem, local>>
    BY DEF Restart, Boot, ReadJobs, AskAlive, StatusDone, FetchDone, WriteOpen, WriteClose, PickHost,
       NoHole, StartDone, remote
  <2>2. /\ pc \in {"down", "boot", "read", "status", "fetch", "write1", "close1", "start", "write2", "close2"}
        /\ \/ pc' \in {"boot", "read", "status", "tail", "fetch", "write1", "close1", "start", "write2",
                       "close2", "isdone"}
           \/ pc' = "check" /\ work'.back = "boot"
    <3>1. CASE Boot
      BY <3>1, <1>0 DEF Boot, At, Work
    <3>2. CASE Restart \/ ReadJobs \/ AskAlive \/ StatusDone \/ FetchDone
      BY <3>2 DEF Restart, ReadJobs, AskAlive, StatusDone, FetchDone, At
    <3>3. CASE WriteOpen \/ WriteClose \/ PickHost \/ NoHole \/ StartDone
      BY <3>3 DEF WriteOpen, WriteClose, PickHost, NoHole, StartDone, At
    <3> QED  BY <3>1, <3>2, <3>3
  <2> QED  BY <2>1, <2>2 DEF Cleaning, Checking
<1>2. Listed' = Listed
  <2>1. CASE Restart
    <3>1. pc = "down" /\ pc' = "boot" /\ UNCHANGED disk
      BY <2>1 DEF Restart
    <3> QED  BY <3>1 DEF Listed, Polling, Checking
  <2>2. CASE Boot
    <3>1. pc = "boot" /\ (pc' = "read" \/ (pc' = "check" /\ work'.back = "boot")) /\ UNCHANGED disk
      BY <2>2, <1>0 DEF Boot, At, Work
    <3> QED  BY <3>1 DEF Listed, Polling, Checking
  <2>3. CASE ReadJobs /\ Parallel
    <3>1. PICK t, u : t = {j \in disk : j.pid # 0} /\ u = {j \in disk : j.pid = 0}
      OBVIOUS
    <3>2. pc = "read" /\ pc' = "status" /\ work' = [NoWork EXCEPT !.todo = t, !.fetch = u]
      BY <2>3, <3>1 DEF ReadJobs, At
    <3>3. work'.todo = t /\ work'.fetch = u /\ work'.kept = {}
      BY <3>2 DEF NoWork
    <3>4. Listed = disk /\ Listed' = t \cup {} \cup u \cup {}
      BY <3>2, <3>3 DEF Listed, Polling, Checking, AtHand
    <3> QED  BY <3>1, <3>4
  <2>4. CASE ReadJobs /\ ~Parallel
    <3>1. pc = "read" /\ pc' = "isdone" /\ UNCHANGED disk
      BY <2>4 DEF ReadJobs, At
    <3> QED  BY <3>1 DEF Listed, Polling, Checking
  <2>5. CASE AskAlive
    <3>1. PICK j \in work.todo, r \in {-1, 0, 1} :
             work' = [work EXCEPT !.todo = @ \ {j}, !.job = j, !.alive = r]
      BY <2>5 DEF AskAlive
    <3>2. /\ work'.todo = work.todo \ {j} /\ work'.kept = work.kept /\ work'.fetch = work.fetch
          /\ work'.job = j /\ pc = "status" /\ pc' = "tail"
      BY <3>1, <1>0, <2>5 DEF Work, AskAlive, At
    <3>3. /\ Listed = work.todo \cup work.kept \cup work.fetch \cup {}
          /\ Listed' = (work.todo \ {j}) \cup work.kept \cup work.fetch \cup {j}
      BY <3>2 DEF Listed, Polling, AtHand
    <3> QED  BY <3>1, <3>3
  <2>6. CASE StatusDone
    <3>1. pc = "status" /\ pc' = "fetch" /\ UNCHANGED work
      BY <2>6 DEF StatusDone, At
    <3> QED  BY <3>1 DEF Listed, Polling, AtHand
  <2>7. CASE FetchDone
    <3>1. pc = "fetch" /\ pc' = "write1" /\ work.fetch = {} /\ jobs' = work.kept
      BY <2>7 DEF FetchDone, At
    <3>2. work.todo = {}
      BY <3>1 DEF Sorting, Polling
    <3> QED  BY <3>1, <3>2 DEF Listed, Polling, Checking, AtHand
  <2>8. CASE WriteOpen \/ PickHost \/ NoHole \/ StartDone
    <3>1. /\ pc \in {"write1", "write2", "start"} /\ pc' \in {"close1", "close2", "start", "write2"}
          /\ UNCHANGED jobs
      BY <2>8 DEF WriteOpen, PickHost, NoHole, StartDone, At
    <3> QED  BY <3>1 DEF Listed, Polling, Checking
  <2>9. CASE WriteClose
    <3>1. pc \in {"close1", "close2"} /\ pc' \in {"start", "isdone"} /\ disk' = jobs /\ UNCHANGED jobs
      BY <2>9 DEF WriteClose, At
    <3> QED  BY <3>1 DEF Listed, Polling, Checking
  <2> QED  BY <2>1, <2>2, <2>3, <2>4, <2>5, <2>6, <2>7, <2>8, <2>9
<1>3. FilesApart'
  <2>1. ToFetch' = ToFetch
    BY <1>1, <1>2 DEF ToFetch
  <2> QED  BY <1>1, <2>1, ApartFewer DEF Known
<1> QED  BY <1>1, <1>2, <1>3, KnownSame

\* Two listed jobs, or a job and the process of another, have other numbers.
LEMMA ListedApart ==
    ASSUME TypeInv, Known, pc # "done"
    PROVE  /\ \A i, j \in Listed : i # j => Apart(i.lo, i.hi, j.lo, j.hi)
           /\ \A x \in procs : JobOf(x) \in Listed
           /\ \A x \in procs, j \in Listed : Name(x) = Name(j) => JobOf(x) = j
<1>1. /\ \A i, j \in Listed : i # j => Apart(i.lo, i.hi, j.lo, j.hi)
      /\ \A x \in procs : JobOf(x) \in Listed
  BY DEF Known, Owned, Tracks
<1>2. ASSUME NEW x \in procs, NEW j \in Listed, Name(x) = Name(j), JobOf(x) # j
      PROVE  FALSE
  <2>1. Apart(JobOf(x).lo, JobOf(x).hi, j.lo, j.hi)
    BY <1>1, <1>2
  <2>2. JobOf(x).lo = j.lo /\ JobOf(x).hi = j.hi
    BY <1>2 DEF Name, JobOf
  <2>3. j.lo \in Nat /\ j.hi \in Nat /\ j.lo < j.hi
    BY ListsTyped, JobFields
  <2> QED  BY <2>1, <2>2, <2>3 DEF Apart
<1> QED  BY <1>1, <1>2

\* A file is removed on a host that is of none of its processes.
LEMMA WritingRemoved ==
    ASSUME TypeInv, UNCHANGED <<scn, procs>>, Writing, ~Cleaning, pc # "done", NEW h \in Host, NEW f,
           rem' = [rem EXCEPT ![h] = Without(@, f)],
           \A x \in procs : x.host # h \/ Name(x) # f
    PROVE  Writing'
<1>1. PICK e, d : e = rem[h] /\ d = Without(e, f)
  OBVIOUS
<1>2. Files(rem[h]) /\ rem = [i \in Host |-> rem[i]] /\ procs \subseteq Proc
  BY WorkSame DEF RemoteTyped
<1>3. DOMAIN d = DOMAIN e \ {f} /\ \A g \in DOMAIN d : d[g] = e[g]
  <2>1. d = Without(e, f)
    BY <1>1
  <2> QED  BY <2>1 DEF Without, Restrict
<1>4. rem' = [rem EXCEPT ![h] = d]
  BY <1>1
<1>5. ASSUME NEW x \in procs
      PROVE  Name(x) \in DOMAIN rem'[x.host] /\ rem'[x.host][Name(x)].end = "none"
  <2>1. Name(x) \in DOMAIN rem[x.host] /\ rem[x.host][Name(x)].end = "none" /\ x.host \in Host
    BY <1>2 DEF Writing, Proc
  <2>2. CASE x.host = h
    BY <2>1, <2>2, <1>1, <1>2, <1>3, <1>4
  <2>3. CASE x.host # h
    BY <2>1, <2>3, <1>2, <1>4
  <2> QED  BY <2>2, <2>3
<1> QED  BY <1>5, SameOptions DEF Writing, Name

\* A job that is not found running has no process.
LEMMA TailFree ==
    ASSUME TypeInv, Sorting, Known, pc = "tail", JobStatus(work.job) \in {0, -1, -2}, NEW x \in procs
    PROVE  JobOf(x) # work.job
<1> SUFFICES ASSUME JobOf(x) = work.job PROVE FALSE
  OBVIOUS
<1>1. x.host = work.job.host /\ x.pid = work.job.pid /\ x.lo = work.job.lo /\ x.hi = work.job.hi
  BY DEF JobOf
<1>2. Name(x) = Name(work.job)
  BY <1>1 DEF Name
<1>3. ~Cleaning
  BY DEF Cleaning, Checking
<1>4. Name(x) \in DOMAIN rem[x.host] /\ rem[x.host][Name(x)].end = "none"
  BY <1>3 DEF Known, Writing
<1>5. work.alive # 0
  BY <1>1 DEF Sorting
<1> QED  BY <1>1, <1>2, <1>4, <1>5 DEF JobStatus

LEMMA AskTailKnown ==
    ASSUME TypeInv, UNCHANGED scn, Sorting, Known, AskTail, faults'.net = 0 => faults.net = 0
    PROVE  Known'
<1> DEFINE j == work.job
           d == [j EXCEPT !.pid = 0]
<1>0. work \in Work /\ Cores \in [Host -> Nat] /\ Cores' = Cores
  BY WorkSame, CoresTyped, SameOptions
<1>1. pc = "tail" /\ pc' = "status" /\ UNCHANGED <<jobs, disk, local, procs>> /\ ~Cleaning /\ ~Cleaning'
  BY AskTailCases DEF Cleaning, Checking
<1>2. j \in ProperJob /\ j \notin work.todo \cup work.kept \cup work.fetch
  BY <1>1 DEF TypeInv, WorkShape, Sorting, Polling
<1>3. /\ Listed = work.todo \cup work.kept \cup work.fetch \cup {j} /\ ToFetch = Listed
      /\ Listed' = work'.todo \cup work'.kept \cup work'.fetch /\ ToFetch' = Listed'
  BY <1>1 DEF Listed, ToFetch, Polling, AtHand
<1>4. Killing' /\ Ended'
  BY <1>1 DEF Killing, Ended
<1>5. Tracks(Listed, procs, Cores)
  BY <1>1 DEF Known, Owned
<1>6. CASE work' = [work EXCEPT !.kept = @ \cup {work.job}] /\ UNCHANGED rem
  <2>1. /\ work'.todo = work.todo /\ work'.kept = work.kept \cup {j} /\ work'.fetch = work.fetch
    BY <1>0, <1>6 DEF Work
  <2>2. Listed' = Listed /\ ToFetch' = ToFetch
    BY <1>3, <2>1
  <2>3. FilesApart'
    BY <1>1, <2>2, ApartFewer DEF Known
  <2> QED  BY <1>1, <1>6, <2>2, <2>3, KnownSame
<1>7. CASE /\ work' = [work EXCEPT !.fetch = @ \cup {[work.job EXCEPT !.pid = 0]}]
           /\ UNCHANGED rem
           /\ JobStatus(work.job) = 0 \/ JobStatus(work.job) = -1
  <2>1. \A x \in procs : JobOf(x) # j
    BY <1>1, <1>7, TailFree
  <2>2. /\ work'.todo = work.todo /\ work'.kept = work.kept /\ work'.fetch = work.fetch \cup {d}
    BY <1>0, <1>7 DEF Work
  <2>3. Listed' = (Listed \ {j}) \cup {d}
    BY <1>2, <1>3, <2>2
  <2>4. Tracks(Listed', procs', Cores')
    <3>1. PICK L, M, P, C, i, e : L = Listed /\ M = Listed' /\ P = procs /\ C = Cores /\ i = j /\ e = d
      OBVIOUS
    <3>2. i \in L /\ e = [i EXCEPT !.pid = 0] /\ M = (L \ {i}) \cup {e}
      BY <3>1, <1>3, <2>3
    <3>3. C \in [Host -> Nat] /\ Tracks(L, P, C) /\ \A x \in P : JobOf(x) # i
      BY <3>1, <1>0, <1>5, <2>1
    <3>4. Tracks(M, P, C)
      BY <3>2, <3>3, TracksDone
    <3> QED  BY <3>1, <3>4, <1>0, <1>1
  <2>5. d.lo = j.lo /\ d.hi = j.hi
    BY <1>2, JobFields DEF ProperJob, Job
  <2>6. FilesApart'
    BY <1>1, <1>3, <2>3, <2>5 DEF Known, FilesApart
  <2>7. Writing'
    BY <1>1, <1>7, WritingKept DEF Known
  <2> QED  BY <1>4, <2>4, <2>6, <2>7 DEF Known, Owned
<1>8. CASE work' = [work EXCEPT !.job = NoJob] /\ JobStatus(work.job) \in {-1, -2}
  <2>1. \A x \in procs : JobOf(x) # j
    BY <1>1, <1>8, TailFree
  <2>2. /\ work'.todo = work.todo /\ work'.kept = work.kept /\ work'.fetch = work.fetch
    BY <1>0, <1>8 DEF Work
  <2>3. Listed' = Listed \ {j} /\ ToFetch' \subseteq ToFetch
    BY <1>2, <1>3, <2>2
  <2>4. Owned'
    <3>1. \A x \in procs' : JobOf(x) \in Listed'
      BY <1>1, <1>5, <2>1, <2>3 DEF Tracks
    <3> QED  BY <3>1, <1>1, <2>3, OwnedFewer DEF Known
  <2>5. FilesApart'
    BY <1>1, <2>3, ApartFewer DEF Known
  <2>6. Writing'
    <3>1. CASE UNCHANGED rem
      BY <3>1, <1>1, WritingKept DEF Known
    <3>2. CASE rem' = [rem EXCEPT ![work.job.host] = Without(@, Name(work.job))]
      <4>1. PICK h, f : h = work.job.host /\ f = Name(work.job)
        OBVIOUS
      <4>2. h \in Host /\ rem' = [rem EXCEPT ![h] = Without(@, f)]
        BY <3>2, <4>1, <1>2, JobFields
      <4>3. \A x \in procs : x.host # h \/ Name(x) # f
        BY <4>1, <1>1, <1>3, <2>1, ListedApart
      <4> QED  BY <4>2, <4>3, <1>1, WritingRemoved DEF Known
    <3> QED  BY <1>8, <3>1, <3>2, AskTailCases
  <2> QED  BY <1>4, <2>4, <2>5, <2>6 DEF Known
<1> QED  BY <1>6, <1>7, <1>8, AskTailCases

\* A listed output file arrives.
LEMMA FileFetched ==
    ASSUME TypeInv, FilesApart, pc # "unlink", NEW j \in ToFetch,
           \A i \in ToFetch : i # j => Apart(i.lo, i.hi, j.lo, j.hi),
           ToFetch' \subseteq ToFetch \ {j}, DOMAIN local' = DOMAIN local \cup {Name(j)}
    PROVE  FilesApart'
<1>1. PICK f : f = Name(j)
  OBVIOUS
<1>2. f[1] = j.lo /\ f[2] = j.hi
  BY <1>1 DEF Name
<1>3. \A i \in ToFetch', g \in DOMAIN local' : Apart(i.lo, i.hi, g[1], g[2])
  BY <1>1, <1>2 DEF FilesApart
<1>4. \A g \in DOMAIN local : Apart(f[1], f[2], g[1], g[2]) /\ Apart(g[1], g[2], f[1], f[2])
  BY <1>2 DEF FilesApart, Apart
<1>5. \A g, k \in DOMAIN local : g # k => Apart(g[1], g[2], k[1], k[2])
  BY DEF FilesApart
<1>6. ASSUME NEW g \in DOMAIN local', NEW k \in DOMAIN local', g # k
      PROVE  Apart(g[1], g[2], k[1], k[2])
  BY <1>1, <1>4, <1>5, <1>6
<1> QED  BY <1>3, <1>6 DEF FilesApart

LEMMA FetchKnown ==
    ASSUME TypeInv, UNCHANGED scn, Sorting, Known, Fetch, faults'.net = 0 => faults.net = 0
    PROVE  Known'
<1>0. work \in Work /\ procs \subseteq Proc
  BY WorkSame DEF RemoteTyped
<1>1. /\ pc = "fetch" /\ pc' \in {"fetch", "rm"} /\ UNCHANGED <<jobs, disk, rem, procs>>
      /\ pc' = "rm" => work'.back = "fetch"
  BY <1>0, WorkSame DEF Fetch, At, remote, Work
<1>2. PICK j \in work.fetch :
         LET f == Name(j)
             left == [work EXCEPT !.fetch = @ \ {j}, !.job = NoJob]
         IN  \/ work' = left /\ UNCHANGED <<pc, local>>
             \/ work' = [left EXCEPT !.kept = @ \cup {j}] /\ UNCHANGED <<pc, local>>
             \/ /\ f \notin DOMAIN local /\ f \in DOMAIN rem[j.host]
                /\ local' = With(local, f, rem[j.host][f])
                /\ work' = [left EXCEPT !.job = j, !.back = "fetch"]
                /\ pc' = "rm"
  BY <1>1 DEF Fetch
<1>3. /\ Polling /\ Polling' /\ ~Cleaning /\ ~Cleaning' /\ work.todo = {} /\ j.pid = 0
      /\ work.fetch \cap work.kept = {}
  <2>1. Polling /\ Polling' /\ ~Cleaning /\ ~Cleaning'
    BY <1>1 DEF Polling, Cleaning, Checking
  <2> QED  BY <2>1, <1>1 DEF Sorting
<1>4. /\ Listed = work.kept \cup work.fetch /\ ToFetch = Listed
      /\ Listed' = work'.todo \cup work'.kept \cup work'.fetch /\ ToFetch' = Listed'
  BY <1>1, <1>3 DEF Listed, ToFetch, AtHand
<1>5. work'.todo = {} /\ work'.fetch = work.fetch \ {j}
  BY <1>0, <1>2, <1>3 DEF Work
<1>6. \A x \in procs : JobOf(x) # j
  <2> TAKE x \in procs
  <2>1. x.pid \in 1..MaxPid /\ JobOf(x).pid = x.pid
    BY <1>0 DEF Proc, JobOf
  <2> QED  BY <2>1, <1>3
<1>7. ASSUME work'.kept = work.kept, FilesApart'
      PROVE  Known'
  <2>1. Listed' = Listed \ {j}
    BY <1>3, <1>4, <1>5, <1>7
  <2>2. \A x \in procs' : JobOf(x) \in Listed'
    BY <1>1, <1>6, <2>1, ListedApart
  <2>3. Owned'
    BY <1>1, <2>1, <2>2, OwnedFewer DEF Known
  <2>4. Writing'
    BY <1>1, <1>3, WritingKept DEF Known
  <2> QED  BY <1>1, <1>3, <1>7, <2>3, <2>4 DEF Known, Killing, Ended
<1>8. CASE work' = [work EXCEPT !.fetch = @ \ {j}, !.job = NoJob] /\ UNCHANGED <<pc, local>>
  <2>1. work'.kept = work.kept
    BY <1>0, <1>8 DEF Work
  <2>2. ToFetch' \subseteq ToFetch
    BY <1>4, <1>5, <2>1
  <2>3. FilesApart'
    BY <1>1, <1>8, <2>2, ApartFewer DEF Known
  <2> QED  BY <1>7, <2>1, <2>3
<1>9. CASE /\ work' = [[work EXCEPT !.fetch = @ \ {j}, !.job = NoJob] EXCEPT !.kept = @ \cup {j}]
           /\ UNCHANGED <<pc, local>>
  <2>1. work'.kept = work.kept \cup {j}
    BY <1>0, <1>9 DEF Work
  <2>2. Listed' = Listed /\ ToFetch' = ToFetch
    BY <1>4, <1>5, <2>1
  <2>3. FilesApart'
    BY <1>1, <1>9, <2>2, ApartFewer DEF Known
  <2> QED  BY <1>1, <1>3, <2>2, <2>3, KnownSame
<1>10. CASE /\ local' = With(local, Name(j), rem[j.host][Name(j)])
            /\ work' = [[work EXCEPT !.fetch = @ \ {j}, !.job = NoJob] EXCEPT !.job = j, !.back = "fetch"]
  <2>1. work'.kept = work.kept
    BY <1>0, <1>10 DEF Work
  <2>2. DOMAIN local' = DOMAIN local \cup {Name(j)}
    BY <1>10 DEF With
  <2>3. j \in ToFetch /\ ToFetch' \subseteq ToFetch \ {j}
    BY <1>3, <1>4, <1>5, <2>1
  <2>4. \A i \in ToFetch : i # j => Apart(i.lo, i.hi, j.lo, j.hi)
    BY <1>1, <1>4, <2>3, ListedApart
  <2>5. FilesApart'
    BY <1>1, <2>2, <2>3, <2>4, FileFetched DEF Known
  <2> QED  BY <1>7, <2>1, <2>5
<1> QED  BY <1>2, <1>8, <1>9, <1>10

LEMMA FetchRmKnown ==
    ASSUME TypeInv, UNCHANGED scn, Known, FetchRm, faults'.net = 0 => faults.net = 0
    PROVE  Known'
<1>0. work \in Work
  BY WorkSame
<1>1. /\ pc = "rm" /\ pc' = "check" /\ UNCHANGED <<jobs, disk, local, procs>>
      /\ work' = [work EXCEPT !.file = Name(work.job), !.back = work.back, !.gz = Name(work.job)[3]]
      /\ UNCHANGED rem \/ rem' = [rem EXCEPT ![work.job.host] = Without(@, Name(work.job))]
  BY DEF FetchRm, ToCheck, At
<1>2. /\ work'.back = work.back /\ work'.todo = work.todo /\ work'.kept = work.kept
      /\ work'.fetch = work.fetch
  BY <1>0, <1>1 DEF Work
<1>3. (Polling' <=> Polling) /\ (Cleaning' <=> Cleaning)
  BY <1>1, <1>2 DEF Polling, Cleaning, Checking
<1>4. Listed' = Listed /\ ToFetch' = ToFetch
  BY <1>1, <1>2, <1>3 DEF Listed, ToFetch, AtHand
<1>5. FilesApart'
  BY <1>1, <1>4, ApartFewer DEF Known
<1>6. Owned'
  BY <1>1, <1>4, OwnedSame DEF Known
<1>7. Killing' /\ Ended'
  BY <1>1, <1>2, <1>3 DEF Known, Killing, Ended
<1>8. Writing'
  <2>1. CASE Cleaning
    BY <1>3, <2>1 DEF Writing
  <2>2. CASE ~Cleaning /\ UNCHANGED rem
    BY <1>1, <2>2, WritingKept DEF Known
  <2>3. CASE ~Cleaning /\ rem' = [rem EXCEPT ![work.job.host] = Without(@, Name(work.job))]
    <3>1. PICK h, f : h = work.job.host /\ f = Name(work.job)
      OBVIOUS
    <3>2. work.job \in ProperJob /\ f \in DOMAIN local
      BY <1>1, <3>1 DEF TypeInv, WorkShape
    <3>3. h \in Host /\ rem' = [rem EXCEPT ![h] = Without(@, f)]
      BY <2>3, <3>1, <3>2, JobFields
    <3>4. ASSUME NEW x \in procs, Name(x) = f
          PROVE  FALSE
      <4>1. PICK j : j = JobOf(x)
        OBVIOUS
      <4>2. j \in Listed /\ ToFetch = Listed
        BY <1>1, <2>3, <4>1, ListedApart DEF ToFetch
      <4>3. j.lo = x.lo /\ j.hi = x.hi /\ f[1] = x.lo /\ f[2] = x.hi
        BY <3>4, <4>1 DEF JobOf, Name
      <4>4. Apart(j.lo, j.hi, f[1], f[2])
        BY <3>2, <4>2 DEF Known, FilesApart
      <4>5. j.lo \in Nat /\ j.hi \in Nat /\ j.lo < j.hi
        BY <4>2, ListsTyped, JobFields
      <4> QED  BY <4>3, <4>4, <4>5 DEF Apart
    <3> QED  BY <1>1, <2>3, <3>3, <3>4, WritingRemoved DEF Known
  <2> QED  BY <1>1, <2>1, <2>2, <2>3
<1> QED  BY <1>5, <1>6, <1>7, <1>8 DEF Known

-----------------------------------------------------------------------------
(* Starting a job.                                                         *)

\* The new job is apart from those listed and from the files, and fits.
LEMMA NewJobApart ==
    ASSUME TypeInv, Holes, FreeCores, pc = "start", work.n > 0, CanLaunch
    PROVE  /\ \A i \in jobs : Apart(i.lo, i.hi, NewJob.lo, NewJob.hi)
           /\ \A f \in DOMAIN local : Apart(NewJob.lo, NewJob.hi, f[1], f[2])
           /\ ThreadsOn(jobs, NewJob.host) + NewJob.th <= Cores[NewJob.host]
<1>1. /\ NewJob.lo = NextHole[1] /\ NewJob.hi = NextHole[2]
      /\ NewJob.host = work.host /\ NewJob.th = Threads
  BY NewJobTyped
<1>2. JobSet(jobs) /\ Files(local) /\ work \in Work
  BY WorkSame DEF TypeInv, MasterTyped
<1>3. ASSUME NEW r \in JobRanges \cup FileRanges
      PROVE  Apart(r[1], r[2], NextHole[1], NextHole[2])
  <2>1. r \in Nat \X Nat
    BY <1>2, RangesTyped
  <2>2. r[2] < QMin \/ Within(r, work.ranges)
    BY DEF Holes
  <2> QED  BY <2>1, <2>2, HoleTyped
<1>4. ASSUME NEW i \in jobs
      PROVE  Apart(i.lo, i.hi, NewJob.lo, NewJob.hi)
  <2>1. <<i.lo, i.hi>> \in JobRanges
    BY DEF JobRanges
  <2>2. PICK r : r = <<i.lo, i.hi>>
    OBVIOUS
  <2>3. Apart(r[1], r[2], NextHole[1], NextHole[2])
    BY <2>1, <2>2, <1>3
  <2> QED  BY <2>2, <2>3, <1>1
<1>5. ASSUME NEW f \in DOMAIN local
      PROVE  Apart(NewJob.lo, NewJob.hi, f[1], f[2])
  <2>1. <<f[1], f[2]>> \in FileRanges
    BY DEF FileRanges
  <2>2. PICK r : r = <<f[1], f[2]>>
    OBVIOUS
  <2>3. Apart(r[1], r[2], NextHole[1], NextHole[2])
    BY <2>1, <2>2, <1>3
  <2> QED  BY <2>2, <2>3, <1>1 DEF Apart
<1>6. ThreadsOn(jobs, NewJob.host) + NewJob.th <= Cores[NewJob.host]
  <2>1. PICK h, t : h = work.host /\ t = ThreadsOn(jobs, h)
    OBVIOUS
  <2>2. t \in Nat /\ Busy(h) = t
    BY <2>1, <1>2, BusyIs, ThreadsTyped
  <2>3. t + work.n <= Cores[h]
    BY <2>1, <2>2 DEF FreeCores
  <2>4. h \in Host /\ Cores[h] \in Nat /\ Threads \in Nat /\ Threads <= work.n /\ work.n \in Int
    BY <2>1, <1>2, HoleTyped, CoresTyped, WorkFields
  <2>5. t + Threads <= Cores[h]
    BY <2>2, <2>3, <2>4
  <2> QED  BY <2>1, <2>5, <1>1
<1> QED  BY <1>4, <1>5, <1>6

LEMMA LaunchKnown ==
    ASSUME TypeInv, UNCHANGED scn, Holes, FreeCores, Known, Launch,
           ~Fault("slow"), scn.lostStart => ~NetFails, faults'.net = 0 => faults.net = 0
    PROVE  Known'
<1>0. work \in Work /\ procs \subseteq Proc /\ Cores \in [Host -> Nat] /\ Cores' = Cores
  BY WorkSame, CoresTyped, SameOptions DEF RemoteTyped
<1>1. /\ pc = "start" /\ pc' = "start" /\ work.n > 0 /\ CanLaunch /\ UNCHANGED <<disk, local>>
      /\ (Runs /\ LaunchListed) \/ (LaunchUnlisted /\ UNCHANGED <<rem, procs>>)
  BY LaunchCases
<1>2. /\ ~Cleaning /\ ~Cleaning' /\ Listed = jobs /\ Listed' = jobs'
      /\ ToFetch = jobs /\ ToFetch' = jobs'
  BY <1>1 DEF Cleaning, Checking, Listed, ToFetch, Polling, AtHand
<1>3. CASE LaunchUnlisted /\ UNCHANGED <<rem, procs>>
  <2>1. jobs' = jobs
    BY <1>3 DEF LaunchUnlisted
  <2>2. FilesApart'
    BY <1>1, <1>2, <2>1, ApartFewer DEF Known
  <2> QED  BY <1>1, <1>2, <1>3, <2>1, <2>2, KnownSame
<1>4. CASE Runs /\ LaunchListed
  <2>1. PICK j, x, h, f : j = NewJob /\ x = NewProc(TRUE) /\ h = work.host /\ f = Name(NewJob)
    OBVIOUS
  <2>2. /\ j \in ProperJob /\ j.host = h /\ h \in Host /\ x \in Proc /\ x.open /\ JobOf(x) = j
        /\ x.host = h /\ Name(x) = f /\ f = Name(j) /\ f \in ProperFile
    <3>1. j \in ProperJob /\ j.host = h /\ x \in Proc /\ x.open = TRUE /\ JobOf(x) = j
          /\ x.host = h /\ Name(x) = f /\ f = Name(j)
      BY <1>1, <2>1, NewJobTyped
    <3>2. f \in ProperFile
      BY ZenonT(60), <3>1, JobFields, NameIsFile, CoresTyped
    <3> QED  BY <3>1, <3>2, JobFields
  <2>3. /\ procs' = procs \cup {x} /\ jobs' = jobs \cup {j}
        /\ rem' = [rem EXCEPT ![h] = Opened(h, f)]
    BY <1>4, <2>1 DEF Runs, LaunchListed
  <2>4. /\ \A i \in jobs : Apart(i.lo, i.hi, j.lo, j.hi)
        /\ \A g \in DOMAIN local : Apart(j.lo, j.hi, g[1], g[2])
        /\ ThreadsOn(jobs, j.host) + j.th <= Cores[j.host]
    BY <1>1, <2>1, NewJobApart
  <2>5. Owned'
    <3>1. PICK L, P, C : L = jobs /\ P = procs /\ C = Cores
      OBVIOUS
    <3>2. C \in [Host -> Nat] /\ Tracks(L, P, C)
      BY <3>1, <1>0, <1>1, <1>2 DEF Known, Owned
    <3>3. ThreadsOn(L, j.host) + j.th <= C[j.host] /\ \A i \in L : Apart(i.lo, i.hi, j.lo, j.hi)
      BY <3>1, <2>4
    <3>4. Tracks(L \cup {j}, P \cup {x}, C)
      BY <3>2, <3>3, <2>2, TracksMore
    <3>5. Tracks(Listed', procs', Cores')
      BY <3>1, <3>4, <1>0, <1>2, <2>3
    <3> QED  BY <3>5 DEF Owned
  <2>6. FilesApart'
    <3>1. \A i \in ToFetch', g \in DOMAIN local' : Apart(i.lo, i.hi, g[1], g[2])
      BY <1>1, <1>2, <2>3, <2>4 DEF Known, FilesApart
    <3> QED  BY <1>1, <3>1 DEF Known, FilesApart
  <2>7. ASSUME NEW y \in procs
        PROVE  Name(y) # f
    <3> SUFFICES ASSUME Name(y) = f PROVE FALSE
      OBVIOUS
    <3>1. PICK i : i = JobOf(y)
      OBVIOUS
    <3>2. i \in jobs
      BY <1>1, <1>2, <3>1, ListedApart
    <3>3. i.lo = j.lo /\ i.hi = j.hi
      BY <3>1, <2>2 DEF Name, JobOf
    <3>4. j.lo \in Nat /\ j.hi \in Nat /\ j.lo < j.hi
      BY <2>2, JobFields
    <3> QED  BY <2>4, <3>2, <3>3, <3>4 DEF Apart
  <2>8. Writing'
    <3>1. Writers(h, f) = {}
      BY <2>7 DEF Writers
    <3>2. PICK e, d : e = rem[h] /\ d = With(e, f, Fresh)
      OBVIOUS
    <3>3. rem' = [rem EXCEPT ![h] = d] /\ rem = [i \in Host |-> rem[i]]
      BY <2>3, <3>1, <3>2, WorkSame DEF Opened, RemoteTyped
    <3>4. DOMAIN d = DOMAIN e \cup {f} /\ d[f] = Fresh /\ \A g \in DOMAIN e : g # f => d[g] = e[g]
      BY <3>2 DEF With
    <3>5. ASSUME NEW y \in procs
          PROVE  Name(y) \in DOMAIN rem'[y.host] /\ rem'[y.host][Name(y)].end = "none"
      <4>1. y.host \in Host /\ Name(y) \in DOMAIN rem[y.host] /\ rem[y.host][Name(y)].end = "none"
        BY <1>0, <1>1, <1>2 DEF Known, Writing, Proc
      <4>2. CASE y.host = h
        BY <4>1, <4>2, <2>2, <2>7, <3>2, <3>3, <3>4
      <4>3. CASE y.host # h
        BY <4>1, <4>3, <3>3
      <4> QED  BY <4>2, <4>3
    <3>6. Name(x) \in DOMAIN rem'[x.host] /\ rem'[x.host][Name(x)].end = "none"
      BY <2>2, <3>2, <3>3, <3>4 DEF Fresh
    <3>7. \A y : Name(y)' = Name(y)
      BY SameOptions DEF Name
    <3>8. \A y \in procs' : Name(y) \in DOMAIN rem'[y.host] /\ rem'[y.host][Name(y)].end = "none"
      BY <2>3, <3>5, <3>6
    <3> QED  BY <3>7, <3>8 DEF Writing
  <2> QED  BY <1>1, <1>2, <2>5, <2>6, <2>8 DEF Known, Killing, Ended
<1> QED  BY <1>1, <1>3, <1>4

-----------------------------------------------------------------------------
(* The end of the loop, the cleaning up, and sequential mode.              *)

LEMMA IsDoneKnown ==
    ASSUME TypeInv, UNCHANGED scn, Sorting, Alone, Known, IsDone, faults'.net = 0 => faults.net = 0
    PROVE  Known'
<1>1. /\ pc = "isdone" /\ UNCHANGED <<disk, local, procs, rem>>
      /\ \/ pc' = "clean" /\ work'.todo = disk
         \/ pc' = "done" /\ ~Parallel
         \/ pc' \in {"read", "seq"}
  BY NoWorkTyped DEF IsDone, At, remote, NoWork
<1>2. ~Cleaning /\ Listed = disk /\ ToFetch = disk
  BY <1>1 DEF Cleaning, Checking, Listed, ToFetch, Polling, AtHand
<1>3. /\ (Cleaning' <=> pc' = "clean") /\ Listed' = disk
      /\ pc' = "clean" => ToFetch' = work'.todo \cup {}
      /\ pc' # "clean" => ToFetch' = disk
  BY <1>1 DEF Cleaning, Checking, Listed, ToFetch, Polling, AtHand
<1>4. ToFetch' = ToFetch
  BY <1>1, <1>2, <1>3
<1>5. FilesApart'
  BY <1>1, <1>4, ApartFewer DEF Known
<1>6. CASE pc' = "clean" /\ work'.todo = disk
  <2>1. Owned'
    BY <1>1, <1>2, <1>3, OwnedSame DEF Known
  <2>2. \A x \in procs' : JobOf(x) \in work'.todo
    BY <1>1, <1>2, <1>6, ListedApart
  <2> QED  BY <1>3, <1>5, <1>6, <2>1, <2>2 DEF Known, Writing, Killing, Ended
<1>7. CASE pc' = "done" /\ ~Parallel
  <2>1. procs' = {}
    BY <1>1, <1>7 DEF Alone
  <2>2. Owned'
    BY <1>1, <1>7, SameOptions DEF Known, Owned
  <2> QED  BY <1>5, <2>1, <2>2 DEF Known, Writing, Killing, Ended
<1>8. CASE pc' \in {"read", "seq"}
  BY <1>1, <1>2, <1>3, <1>5, <1>8, KnownSame
<1> QED  BY <1>1, <1>6, <1>7, <1>8

LEMMA CleanKillKnown ==
    ASSUME TypeInv, UNCHANGED scn, Sorting, Known, CleanKill, faults'.net = 0 => faults.net = 0,
           NetFails => faults'.net # 0
    PROVE  Known'
<1>0. work \in Work /\ procs \subseteq Proc
  BY WorkSame DEF RemoteTyped
<1>1. PICK j \in work.todo :
        /\ work' = [work EXCEPT !.todo = @ \ {j}, !.job = j, !.back = "clean"]
        /\ \/ procs' = {x \in procs : <<x.host, x.pid>> # <<j.host, j.pid>>}
           \/ UNCHANGED procs /\ (j.pid = 0 \/ NetFails \/ ~Exists(j))
  BY CleanCases
<1>2. pc = "clean" /\ pc' \in {"last", "clean"} /\ UNCHANGED <<disk, local>>
  BY CleanCases
<1>3. work'.todo = work.todo \ {j} /\ work'.job = j
  BY <1>0, <1>1 DEF Work
<1>4. Cleaning /\ Cleaning' /\ Listed = disk /\ Listed' = disk
  BY <1>2 DEF Cleaning, Listed, Polling, Checking
<1>5. ToFetch' \subseteq ToFetch
  BY <1>1, <1>2, <1>3, <1>4 DEF ToFetch, AtHand
<1>6. FilesApart'
  BY <1>2, <1>5, ApartFewer DEF Known
<1>7. procs' \subseteq procs
  BY <1>1
<1>8. Owned'
  <2>1. \A x \in procs' : JobOf(x) \in Listed'
    BY <1>2, <1>4, <1>7, ListedApart
  <2> QED  BY <1>2, <1>4, <1>7, <2>1, OwnedFewer DEF Known
<1>9. Killing'
  <2> SUFFICES ASSUME faults'.net = 0, NEW x \in procs' PROVE JobOf(x) \in work'.todo
    BY DEF Killing
  <2>1. JobOf(x) \in work.todo /\ x \in procs /\ x \in Proc
    BY <1>0, <1>4, <1>7 DEF Known, Killing
  <2>2. x.pid # 0 /\ JobOf(x).pid = x.pid /\ JobOf(x).host = x.host
    BY <2>1 DEF Proc, JobOf
  <2>3. <<x.host, x.pid>> # <<j.host, j.pid>> \/ j.pid = 0
    BY <1>1, <2>1 DEF Exists
  <2>4. JobOf(x) # j
    BY <2>2, <2>3
  <2> QED  BY <1>3, <2>1, <2>4
<1> QED  BY <1>2, <1>4, <1>6, <1>8, <1>9 DEF Known, Writing, Ended

LEMMA CleanFetchKnown ==
    ASSUME TypeInv, UNCHANGED scn, Sorting, Known, CleanFetch, faults'.net = 0 => faults.net = 0
    PROVE  Known'
<1>1. PICK j : j = work.job
  OBVIOUS
<1>2. /\ pc = "last" /\ pc' \in {"rm", "clean"} /\ UNCHANGED <<disk, work, procs, rem>>
      /\ \/ UNCHANGED local
         \/ local' = With(local, Name(j), rem[j.host][Name(j)])
  BY <1>1 DEF CleanFetch, At, remote
<1>3. work.back = "clean"
  BY <1>2 DEF TypeInv, WorkShape
<1>4. Cleaning /\ Cleaning' /\ Listed = disk /\ Listed' = disk
  BY <1>2, <1>3 DEF Cleaning, Listed, Polling, Checking
<1>5. ToFetch = work.todo \cup {j} /\ ToFetch' = work.todo
  BY <1>1, <1>2, <1>4 DEF ToFetch, AtHand
<1>6. j \in disk /\ j \notin work.todo /\ work.todo \subseteq disk
  BY <1>1, <1>2, <1>4 DEF Sorting
<1>7. FilesApart'
  <2>1. CASE UNCHANGED local
    BY <1>2, <1>5, <2>1, ApartFewer DEF Known
  <2>2. CASE local' = With(local, Name(j), rem[j.host][Name(j)])
    <3>1. DOMAIN local' = DOMAIN local \cup {Name(j)}
      BY <2>2 DEF With
    <3>2. \A i \in ToFetch : i # j => Apart(i.lo, i.hi, j.lo, j.hi)
      BY <1>2, <1>4, <1>5, <1>6, ListedApart
    <3>3. j \in ToFetch /\ ToFetch' \subseteq ToFetch \ {j}
      BY <1>5, <1>6
    <3> QED  BY <1>2, <3>1, <3>2, <3>3, FileFetched DEF Known
  <2> QED  BY <1>2, <2>1, <2>2
<1> QED  BY <1>2, <1>4, <1>7, KnownSame

LEMMA CleanDoneKnown ==
    ASSUME TypeInv, UNCHANGED scn, Known, CleanDone
    PROVE  Known'
<1>1. /\ pc = "clean" /\ pc' = "done" /\ work.todo = {} /\ disk' = {}
      /\ UNCHANGED <<local, work, rem, procs, faults>>
  BY DEF CleanDone, At, remote
<1>2. Cleaning /\ ~Cleaning' /\ Listed' = {} /\ ToFetch' = {}
  BY <1>1 DEF Cleaning, Listed, ToFetch, Polling, Checking, AtHand
<1>3. Owned'
  BY <1>1, SameOptions DEF Known, Owned
<1>4. FilesApart'
  BY <1>1, <1>2, ApartFewer DEF Known
<1>5. Ended'
  BY <1>1, <1>2 DEF Known, Killing, Ended
<1> QED  BY <1>1, <1>2, <1>3, <1>4, <1>5 DEF Known, Writing, Killing

LEMMA SeqKnown ==
    ASSUME TypeInv, UNCHANGED scn, Alone, Known, SeqStart \/ SeqStep \/ SeqFinish,
           faults'.net = 0 => faults.net = 0
    PROVE  Known'
<1>0. work \in Work
  BY WorkSame
<1>1. /\ pc \in {"seq", "run"} /\ UNCHANGED <<jobs, disk, rem, procs>>
      /\ pc' \in {"read", "run"} \/ (pc' = "check" /\ work'.back = "read")
  BY <1>0 DEF SeqStart, SeqStep, SeqFinish, ToCheck, At, remote, Work
<1>2. disk = {}
  BY <1>1 DEF Alone
<1>3. /\ ~Cleaning /\ ~Cleaning' /\ Listed = disk /\ Listed' = disk /\ ToFetch = {} /\ ToFetch' = {}
  BY <1>1, <1>2 DEF Cleaning, Checking, Listed, ToFetch, Polling, AtHand
<1>4. FilesApart'
  <2>1. CASE DOMAIN local' = DOMAIN local
    BY <1>1, <1>3, <2>1, ApartFewer DEF Known
  <2>2. CASE SeqStart
    <3>1. CASE UNCHANGED local
      BY <2>1, <3>1
    <3>2. CASE ~UNCHANGED local
      <4>1. PICK f : f = <<SeqHole[1], SeqHole[2], Sieve>>
        OBVIOUS
      <4>2. SeqHole # <<>> /\ local' = With(local, f, Fresh)
        BY <2>2, <3>2, <4>1 DEF SeqStart
      <4>3. \A g \in DOMAIN local : Apart(g[1], g[2], f[1], f[2])
        BY <4>1, <4>2, SeqHoleIsNew
      <4>4. DOMAIN local' = DOMAIN local \cup {f}
        BY <4>2 DEF With
      <4>5. \A g, k \in DOMAIN local : g # k => Apart(g[1], g[2], k[1], k[2])
        BY <1>1 DEF Known, FilesApart
      <4>6. ASSUME NEW g \in DOMAIN local', NEW k \in DOMAIN local', g # k
            PROVE  Apart(g[1], g[2], k[1], k[2])
        BY <4>3, <4>4, <4>5, <4>6 DEF Apart
      <4> QED  BY <1>3, <4>6 DEF FilesApart
    <3> QED  BY <3>1, <3>2
  <2>3. CASE SeqStep \/ SeqFinish
    BY <2>1, <2>3 DEF SeqStep, SeqFinish
  <2> QED  BY <2>2, <2>3
<1> QED  BY <1>1, <1>3, <1>4, KnownSame

-----------------------------------------------------------------------------
(* The theorem.                                                            *)

LEMMA KnownStep ==
    ASSUME TypeInv, Sorting, Alone, Holes, FreeCores, Known, AllKnown', [Next]_vars
    PROVE  Known'
<1>1. /\ UNCHANGED scn /\ (faults'.net = 0 => faults.net = 0)
      /\ ~Fault("slow") /\ (scn.lostStart => ~NetFails)
  BY TypeStep, KnownBefore
<1>2. NetFails => faults'.net # 0
  <2>1. faults \in [Kinds -> Nat]
    BY DEF TypeInv
  <2>2. faults.net \in Nat /\ (NetFails => faults' = [faults EXCEPT !["net"] = @ + 1])
    BY <2>1 DEF NetFails, Fault, Kinds
  <2> QED  BY <2>1, <2>2 DEF Kinds
<1>3. CASE Environment \/ UNCHANGED vars
  BY <1>3, EnvironmentKnown
<1>4. CASE Check
  BY <1>1, <1>4, CheckKnown
<1>5. CASE \/ Restart \/ Boot \/ ReadJobs \/ AskAlive \/ StatusDone \/ FetchDone
           \/ WriteOpen \/ WriteClose \/ PickHost \/ NoHole \/ StartDone
  BY <1>1, <1>5, MovesKnown
<1>6. CASE AskTail \/ Fetch \/ FetchRm \/ Launch
  BY <1>1, <1>6, AskTailKnown, FetchKnown, FetchRmKnown, LaunchKnown
<1>7. CASE IsDone \/ CleanKill \/ CleanFetch \/ CleanDone
  BY <1>1, <1>2, <1>7, IsDoneKnown, CleanKillKnown, CleanFetchKnown, CleanDoneKnown
<1>8. CASE SeqStart \/ SeqStep \/ SeqFinish
  BY <1>1, <1>8, SeqKnown
<1> QED  BY <1>3, <1>4, <1>5, <1>6, <1>7, <1>8 DEF Next, Master

LEMMA AccountsStep ==
    ASSUME TypeInv, ProcInv, [Next]_vars
    PROVE  ProcInv'
<1>1. AllKnown' => Known /\ Known'
  BY KnownBefore, KnownStep DEF ProcInv
<1> QED  BY <1>1, SortingStep, AloneStep, HolesStep, FreeCoresStep DEF ProcInv

LEMMA InitAccounts == Init => ProcInv
<1> SUFFICES ASSUME Init PROVE ProcInv
  OBVIOUS
<1>1. /\ pc = "boot" /\ jobs = {} /\ disk = {} /\ procs = {} /\ DOMAIN local = {} /\ scn \in Scenarios
  BY DEF Init, Empty
<1>2. ~Polling /\ ~Cleaning /\ Listed = {} /\ ToFetch = {}
  BY <1>1 DEF Polling, Cleaning, Checking, Listed, ToFetch, AtHand
<1>3. Tracks({}, {}, Cores)
  <2>1. JobSet({})
    BY FS_EmptySet DEF JobSet
  <2>2. PICK C : C = Cores /\ C \in [Host -> Nat]
    BY <1>1, Options
  <2>3. ASSUME NEW h \in Host
        PROVE  ThreadsOn({}, h) <= C[h]
    <3>1. OnHost({}, h) = {}
      BY DEF OnHost
    <3>2. ThreadsOn({}, h) = Sum(ThreadsOf({}), {})
      BY <2>1, <3>1, ThreadsSum
    <3>3. ThreadsOn({}, h) = 0
      BY <3>2, SumEmpty
    <3> QED  BY <2>2, <3>3
  <2> QED  BY <2>1, <2>2, <2>3 DEF Tracks, ThreadsOn
<1>4. Known
  BY <1>1, <1>2, <1>3 DEF Known, Owned, FilesApart, Writing, Killing, Ended
<1>5. Sorting /\ Alone /\ Holes /\ FreeCores
  BY <1>1, <1>2 DEF Sorting, Alone, Holes, FreeCores, Checking
<1> QED  BY <1>4, <1>5 DEF ProcInv

\* While the master knows every process (it never crashed, no start reported as
\* failed had succeeded, and no job was slow to create its output file), what it
\* and the hosts do stays accounted for by the list of jobs: when new jobs have
\* been started no number is in two of the jobs and files, no two processes write
\* to one output file, no host runs more threads than it has cores, and when the
\* task is over and no ssh call failed, no process is left.  Beyond that, any ssh
\* call may fail, processes may die and hosts reboot, in any order and number.
THEOREM AllTracked == Spec => []ProcessesTracked
<1>1. Init => ProcInv
  BY InitAccounts
<1>2. TypeInv /\ ProcInv /\ [Next]_vars => ProcInv'
  BY AccountsStep
<1>3. TypeInv /\ ProcInv => ProcessesTracked
  BY ProcessesAccounted
<1> QED  BY <1>1, <1>2, <1>3, TypeAlways, PTL DEF Spec
=============================================================================

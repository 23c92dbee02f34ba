-------------------------- MODULE TaskGraphProofs --------------------------
(***************************************************************************)
(* OnlyCurrentData for every table of tasks that TableAssumption and       *)
(* FilterAssumption allow, any numbers and parameters, and any number of   *)
(* kills and changes.  The argument relates what is on disk to what the    *)
(* done files and their times say (DiskInv), and what the driver decides   *)
(* from them in one run to what it then may rely on (RunInv).              *)
(* NothingThrownAway for those tables whose tasks are visited in the order *)
(* of their dependencies: what is put on the list of tasks to clean up is  *)
(* out of date, and stays so while they are cleaned up (KeepInv).          *)
(***************************************************************************)
EXTENDS TaskGraph, FiniteSetTheorems, SequenceTheorems, WellFoundedInduction, TLAPS

Others == Tasks \ {Root}

\* The parameters the files belong to: those of the parameter file, or, while
\* it is written, those it is about to have.
Written == IF pc = "param2" THEN param ELSE pfile

NumberFact(m) == <<Root, "n", m>>

\* The facts a task adds to those of the tasks it depends on ...
Own(t, s) == {<<t, p, s[p]>> : p \in ParamOf(t)}

\* ... and all of them, with the number m and the parameters s.
Whole(t, m, s) == {NumberFact(m)} \cup UNION {Own(u, s) : u \in Ancestors[t]}

\* The task and what it depends on are marked, in the order of their marks.
LinkedBy(mk, t) ==
    \A u \in Ancestors[t] \ {Root} :
        mk[u] # 0 /\ \A d \in DepOf(u) : mk[d] <= mk[u]

Linked(t) == LinkedBy(mark, t)

\* The data a resumable task would go on with.
Batches(t) == jobs[t] \cup IF out[t] = "none" THEN {} ELSE {prov[t]}

Blank == \A t \in Others : out[t] = "none" /\ mark[t] = 0 /\ jobs[t] = {}

-----------------------------------------------------------------------------
(* What is on disk.                                                        *)

Pcs == {"off", "visit", "ask", "clean", "clean2", "param", "param2", "task",
        "body", "made", "end"}

DiskTypes ==
    /\ nfile \in Numbers \cup {NoNumber}
    /\ pfile \in [Params -> Values \cup {Absent}]
    /\ mark \in [Tasks -> Nat] /\ clock \in Nat \ {0} /\ pace \in {0, 1}
    /\ out \in [Tasks -> {"none", "part", "whole"}]
    /\ prov \in [Tasks -> SUBSET Facts]
    /\ jobs \in [Tasks -> SUBSET SUBSET Facts]
    /\ \A t \in Tasks : mark[t] <= clock

\* The number is there once the driver was called.
NumberThere ==
    IF nfile = NoNumber
    THEN pc = "off" /\ prov[Root] = {} /\ mark[Root] = 0 /\ Blank
    ELSE prov[Root] = {NumberFact(nfile)} /\ mark[Root] # 0

\* Jobs belong to tasks that are not done and have files, but for the moment
\* before the first file comes or after the last one has gone.
JobsListed ==
    \A t \in Tasks :
        /\ t \notin Dist => jobs[t] = {}
        /\ mark[t] # 0 => jobs[t] = {}
        /\ jobs[t] # {} =>
              \/ HasFiles(t)
              \/ pc = "body" /\ stack # <<>> /\ t = Head(stack)
              \/ pc = "clean2" /\ cleanup # <<>> /\ t = Head(cleanup)

\* Without a parameter file nothing has been computed yet.
ParametersThere ==
    IF pc = "param2" THEN pfile = [p \in Params |-> Absent]
    ELSE (\A p \in Params : pfile[p] # Absent) \/ Blank

NoFilesNoFacts == \A t \in Others : out[t] = "none" => prov[t] = {}

\* The data of a marked task that is linked is what its facts should be.
MarkedRight ==
    \A t \in Others :
        mark[t] # 0 /\ out[t] = "whole" /\ Linked(t) => prov[t] = Whole(t, nfile, Written)

\* So is what a resumable task goes on with when the tasks before it are linked;
\* the data of one that depends on the number only is of one number.
BatchesRight ==
    \A t \in Resume : \A b \in Batches(t) :
        IF DepOf(t) = {Root}
        THEN \E m \in Numbers : b = Whole(t, m, Written)
        ELSE (\A d \in DepOf(t) : Linked(d)) => b = Whole(t, nfile, Written)

DiskInv ==
    /\ DiskTypes /\ NumberThere /\ JobsListed /\ ParametersThere /\ NoFilesNoFacts
    /\ MarkedRight /\ BatchesRight

-----------------------------------------------------------------------------
(* The driver.                                                             *)

Deciding == pc \in {"visit", "ask", "clean", "clean2", "param"}
Running == pc \in {"param2", "task", "body", "made", "end"}

DriverTypes ==
    /\ pc \in Pcs /\ n \in Numbers /\ param \in Settings
    /\ recover \in BOOLEAN /\ diff \subseteq Params
    /\ done \in [Tasks -> Nat] /\ \A t \in Tasks : done[t] <= clock
    /\ queue \in Seq(Tasks) /\ cleanup \in Seq(Tasks) /\ stack \in Seq(Tasks)
    /\ visited \subseteq Tasks /\ dupPurge \in BOOLEAN
    /\ answer \in Answers \cup {""}

\* The driver works on the number in the file, and init is done.
Called == pc # "off" => nfile = n /\ done[Root] = mark[Root]

\* A task taken to be done has its mark, and what it depends on is done before.
DoneLinked ==
    pc # "off" => \A t \in Others : done[t] # 0 =>
        done[t] = mark[t] /\ \A d \in DepOf(t) : done[d] # 0 /\ done[d] <= done[t]

\* It may be kept only when the parameters it depends on have not changed, and
\* the number has not.
Kept(t) == recover /\ ParamOf(t) \cap diff = {}

KeptSame ==
    Deciding =>
        /\ diff = IF recover THEN Changed(param) ELSE {}
        /\ ~recover => \A t \in Others : mark[t] < mark[Root]
        /\ \A t \in Others : done[t] # 0 => Kept(t)
        /\ ~dupPurge

Resumed(t) ==
    t \in Resume /\ mark[t] = 0 /\ Kept(t) /\ \A d \in DepOf(t) : done[d] # 0

Gone(t) == out[t] = "none" /\ mark[t] = 0 /\ jobs[t] = {}

\* A visited task is done, or to be resumed, or to be cleaned up, or has nothing.
Sorted(t) == done[t] # 0 \/ Resumed(t) \/ t \in ToSet(cleanup) \/ Gone(t)

VisitedSorted ==
    /\ pc = "visit" =>
          /\ \A t \in visited \ {Root} : Sorted(t)
          /\ \A t \in Others \ visited : done[t] = 0
          /\ Root \in visited \cup ToSet(queue)
          /\ \A t \in visited : ReverseOf(Dep, t) \subseteq visited \cup ToSet(queue)
          /\ ToSet(cleanup) \subseteq visited
    /\ pc \in {"ask", "clean", "clean2", "param"} => \A t \in Others : Sorted(t)
    /\ pc = "clean2" => cleanup # <<>>
    /\ pc = "param" => cleanup = <<>>

CleanupRight ==
    /\ \A i, j \in DOMAIN cleanup : cleanup[i] = cleanup[j] => i = j
    /\ Deciding => \A t \in ToSet(cleanup) : t # Root /\ done[t] = 0

\* Once the files are cleaned up, what is marked is done, and the tasks that are
\* not have no data, except those of the task at work and of the filtering.
Filtered == IF dupPurge \/ (pc = "body" /\ Top = "sieve") THEN {"dup", "purge"} ELSE {}

AtWork == IF pc \in {"body", "made"} THEN {Top} ELSE {}

CleanedUp ==
    Running =>
        /\ Written = param
        /\ \A t \in Others : done[t] = mark[t]
        /\ \A t \in Others : done[t] = 0 /\ out[t] # "none" =>
              IF t \in Resume THEN \A d \in DepOf(t) : done[d] # 0 ELSE t \in Filtered \cup AtWork
        /\ \A t \in Resume : jobs[t] # {} => \A d \in DepOf(t) : done[d] # 0

\* The task at work.
BodyRight ==
    /\ pc \in {"body", "made"} =>
          /\ stack # <<>> /\ Top \in Others /\ done[Top] = 0
          /\ \A d \in DepOf(Top) : done[d] # 0
    /\ pc = "body" =>
          /\ InputsWhole(Top)
          /\ out[Top] # "none" => prov[Top] = Whole(Top, n, param)
          /\ IF Top \in Dist THEN Whole(Top, n, param) \in jobs[Top] ELSE out[Top] # "none"
          /\ Top = "sieve" => (out["dup"] = "none" <=> out["purge"] = "none")
    /\ pc = "made" =>
          out[Top] = "whole" /\ prov[Top] = Whole(Top, n, param) /\ jobs[Top] = {}

\* What the sieve has filtered.
FilteredRight ==
    Running =>
        /\ dupPurge =>
              /\ "sieve" \in Tasks /\ (done["sieve"] # 0 \/ (pc = "made" /\ Top = "sieve"))
              /\ out["dup"] = "whole" /\ out["purge"] = "whole"
        /\ \A t \in Filtered : out[t] # "none" => prov[t] = Whole(t, n, param)

RunInv ==
    /\ DriverTypes /\ Called /\ DoneLinked /\ KeptSame /\ VisitedSorted
    /\ CleanupRight /\ CleanedUp /\ BodyRight /\ FilteredRight

IInv == DiskInv /\ RunInv

-----------------------------------------------------------------------------
(* Sequences, sets and the table.                                          *)

\* The elements of a sequence, and those of what do_init's queue and lists do
\* with it.
LEMMA FirstAndRest ==
    ASSUME NEW S, NEW s \in Seq(S), s # <<>>
    PROVE  /\ Head(s) \in S /\ Tail(s) \in Seq(S)
           /\ ToSet(s) = {Head(s)} \cup ToSet(Tail(s))
  <1>1. /\ Head(s) \in S /\ Tail(s) \in Seq(S) /\ Len(Tail(s)) = Len(s) - 1
        /\ \A i \in 1 .. Len(Tail(s)) : Tail(s)[i] = s[i + 1]
    BY HeadTailProperties
  <1>2. Len(s) \in Nat \ {0} /\ DOMAIN s = 1 .. Len(s) /\ DOMAIN Tail(s) = 1 .. (Len(s) - 1)
    BY <1>1, EmptySeq, LenProperties
  <1>3. Head(s) = s[1]
    BY <1>2
  <1>4. ASSUME NEW i \in DOMAIN s PROVE s[i] = Head(s) \/ s[i] \in ToSet(Tail(s))
    <2>1. CASE i = 1
      BY <2>1, <1>3
    <2>2. CASE i # 1
      <3>1. i - 1 \in 1 .. Len(Tail(s)) /\ (i - 1) + 1 = i
        BY <2>2, <1>1, <1>2
      <3>2. Tail(s)[i - 1] = s[i]
        BY <3>1, <1>1
      <3> QED
        BY <3>1, <3>2, <1>1, <1>2 DEF ToSet
    <2> QED
      BY <2>1, <2>2
  <1>5. ASSUME NEW i \in DOMAIN Tail(s) PROVE Tail(s)[i] \in ToSet(s)
    <2>1. Tail(s)[i] = s[i + 1] /\ i + 1 \in DOMAIN s
      BY <1>1, <1>2
    <2> QED
      BY <2>1 DEF ToSet
  <1>6. Head(s) \in ToSet(s)
    BY <1>2, <1>3 DEF ToSet
  <1>7. \A x \in ToSet(s) : x \in {Head(s)} \cup ToSet(Tail(s))
    BY <1>4 DEF ToSet
  <1>8. \A x \in ToSet(Tail(s)) : x \in ToSet(s)
    BY <1>5 DEF ToSet
  <1> QED
    BY <1>1, <1>6, <1>7, <1>8

\* The queue gets the tasks of both sequences.
LEMMA ConcatSet ==
    ASSUME NEW S, NEW s \in Seq(S), NEW r \in Seq(S)
    PROVE  s \o r \in Seq(S) /\ ToSet(s \o r) = ToSet(s) \cup ToSet(r)
  <1>1. /\ s \o r \in Seq(S) /\ Len(s \o r) = Len(s) + Len(r)
        /\ \A i \in 1 .. Len(s) + Len(r) :
              (s \o r)[i] = IF i <= Len(s) THEN s[i] ELSE r[i - Len(s)]
    BY ConcatProperties
  <1>2. /\ Len(s) \in Nat /\ DOMAIN s = 1 .. Len(s)
        /\ Len(r) \in Nat /\ DOMAIN r = 1 .. Len(r)
        /\ DOMAIN (s \o r) = 1 .. Len(s) + Len(r)
    BY <1>1, LenProperties
  <1>3. \A x \in ToSet(s \o r) : x \in ToSet(s) \cup ToSet(r)
    <2>1. SUFFICES ASSUME NEW i \in 1 .. Len(s) + Len(r)
                   PROVE  (s \o r)[i] \in ToSet(s) \cup ToSet(r)
      BY <1>2 DEF ToSet
    <2>2. CASE i <= Len(s)
      <3>1. (s \o r)[i] = s[i] /\ i \in DOMAIN s
        BY <2>2, <1>1, <1>2
      <3> QED
        BY <3>1 DEF ToSet
    <2>3. CASE ~(i <= Len(s))
      <3>1. (s \o r)[i] = r[i - Len(s)] /\ i - Len(s) \in DOMAIN r
        BY <2>3, <1>1, <1>2
      <3> QED
        BY <3>1 DEF ToSet
    <2> QED
      BY <2>2, <2>3
  <1>4. \A x \in ToSet(s) : x \in ToSet(s \o r)
    <2>1. SUFFICES ASSUME NEW i \in DOMAIN s PROVE s[i] \in ToSet(s \o r)
      BY DEF ToSet
    <2>2. (s \o r)[i] = s[i] /\ i \in DOMAIN (s \o r)
      BY <1>1, <1>2
    <2> QED
      BY <2>2 DEF ToSet
  <1>5. \A x \in ToSet(r) : x \in ToSet(s \o r)
    <2>1. SUFFICES ASSUME NEW i \in DOMAIN r PROVE r[i] \in ToSet(s \o r)
      BY DEF ToSet
    <2>2. /\ Len(s) + i \in 1 .. Len(s) + Len(r) /\ ~(Len(s) + i <= Len(s))
          /\ (Len(s) + i) - Len(s) = i
      BY <1>2
    <2>3. (s \o r)[Len(s) + i] = r[i] /\ Len(s) + i \in DOMAIN (s \o r)
      BY <2>2, <1>1, <1>2
    <2> QED
      BY <2>3 DEF ToSet
  <1> QED
    BY <1>1, <1>3, <1>4, <1>5

\* The list gets one task more.
LEMMA AppendSet ==
    ASSUME NEW S, NEW s \in Seq(S), NEW x \in S
    PROVE  Append(s, x) \in Seq(S) /\ ToSet(Append(s, x)) = ToSet(s) \cup {x}
  <1>1. /\ Append(s, x) \in Seq(S) /\ Len(s) \in Nat /\ Len(Append(s, x)) = Len(s) + 1
        /\ DOMAIN s = 1 .. Len(s) /\ DOMAIN Append(s, x) = 1 .. Len(s) + 1
        /\ Append(s, x)[Len(s) + 1] = x
        /\ \A i \in 1 .. Len(s) : Append(s, x)[i] = s[i]
    OBVIOUS
  <1>2. \A y \in ToSet(Append(s, x)) : y \in ToSet(s) \cup {x}
    <2>1. SUFFICES ASSUME NEW i \in 1 .. Len(s) + 1
                   PROVE  Append(s, x)[i] \in ToSet(s) \cup {x}
      BY <1>1 DEF ToSet
    <2>2. i = Len(s) + 1 \/ i \in 1 .. Len(s)
      BY <1>1
    <2> QED
      BY <1>1, <2>2 DEF ToSet
  <1>3. \A y \in ToSet(s) : y \in ToSet(Append(s, x))
    <2>1. SUFFICES ASSUME NEW i \in DOMAIN s PROVE s[i] \in ToSet(Append(s, x))
      BY DEF ToSet
    <2>2. Append(s, x)[i] = s[i] /\ i \in DOMAIN Append(s, x)
      BY <1>1
    <2> QED
      BY <2>2 DEF ToSet
  <1>4. x \in ToSet(Append(s, x))
    BY <1>1 DEF ToSet
  <1> QED
    BY <1>1, <1>2, <1>3, <1>4

\* The orders of a hash: the sequences of a finite set have its elements.
LEMMA OrdersOfSet ==
    ASSUME NEW S, IsFiniteSet(S), NEW s \in SetToSeqs(S)
    PROVE  s \in Seq(S) /\ ToSet(s) = S
  <1> DEFINE k == Cardinality(S)
  <1>1. k \in Nat
    BY FS_CardinalityType
  <1>2. s \in [1..k -> S] /\ \A i, j \in 1..k : i # j => s[i] # s[j]
    BY DEF SetToSeqs
  <1>3. IsFiniteSet(1..k) /\ Cardinality(1..k) = k
    BY <1>1, FS_Interval
  <1>4. s \in Injection(1..k, S)
    BY <1>2 DEF Injection, IsInjective
  <1>5. s \in Surjection(1..k, S)
    BY <1>3, <1>4, FS_Injection
  <1>6. \A x \in S : \E i \in 1..k : s[i] = x
    BY <1>5 DEF Surjection
  <1>7. DOMAIN s = 1..k
    BY <1>2
  <1> HIDE DEF k
  <1>8. s \in Seq(S)
    BY <1>1, <1>2, SeqDef
  <1> QED
    BY <1>2, <1>6, <1>7, <1>8 DEF ToSet

\* Taking the largest of some bounded numbers.
LEMMA LargestOf ==
    ASSUME NEW b \in Nat, NEW T \in SUBSET (0..b), T # {}
    PROVE  Max(T) \in T /\ \A j \in T : j <= Max(T)
  <1> DEFINE D == {b - j : j \in T}
  <1>1. D \in SUBSET Nat /\ D # {}
    <2>1. \A j \in T : b - j \in Nat
      OBVIOUS
    <2> QED
      BY <2>1
  <1>2. IsWellFoundedOn(OpToRel(<, Nat), Nat)
    BY NatLessThanWellFounded
  <1>3. PICK d \in D : \A e \in D : ~(<<e, d>> \in OpToRel(<, Nat))
    BY <1>1, <1>2, WFMin
  <1>4. PICK i \in T : d = b - i
    BY <1>3
  <1>5. ASSUME NEW j \in T PROVE j <= i
    <2>1. b - j \in D /\ b - j \in Nat /\ d \in Nat
      BY <1>1, <1>3
    <2>2. ~(b - j < d)
      BY <2>1, <1>3 DEF OpToRel
    <2>3. i \in 0..b /\ j \in 0..b
      OBVIOUS
    <2> QED
      BY <1>4, <2>2, <2>3
  <1>6. \A j \in T : i >= j
    <2>1. T \subseteq Int
      OBVIOUS
    <2> QED
      BY <1>5, <2>1
  <1>7. Max(T) \in T /\ \A j \in T : Max(T) >= j
    BY <1>6 DEF Max
  <1>8. T \subseteq Int
    OBVIOUS
  <1> QED
    BY <1>7, <1>8

\* The table: what a task depends on, directly or not.
LEMMA Table ==
    /\ IsFiniteSet(Tasks) /\ Root \in Tasks /\ Target \in Tasks
    /\ \A t \in Tasks : Dep[t] \in Seq(Tasks) /\ Req[t] \in Seq(Tasks)
    /\ \A t \in Tasks : DepOf(t) \subseteq Tasks
    /\ DepOf(Root) = {}
  <1>1. ASSUME NEW t \in Tasks PROVE DepOf(t) \subseteq Tasks
    <2>1. Dep[t] \in Seq(Tasks)
      BY TableAssumption
    <2>2. Dep[t] \in [1 .. Len(Dep[t]) -> Tasks] /\ DOMAIN Dep[t] = 1 .. Len(Dep[t])
      BY <2>1, LenProperties
    <2> QED
      BY <2>2 DEF DepOf, ToSet
  <1>2. DepOf(Root) = {}
    BY TableAssumption DEF DepOf, ToSet
  <1> QED
    BY <1>1, <1>2, TableAssumption

\* What is before a task is what is in all closed sets around it ...
LEMMA AncestorsAre ==
    ASSUME NEW t \in Tasks
    PROVE  Ancestors[t] = {u \in Tasks : \A S \in DepClosed : t \in S => u \in S}
  BY DEF Ancestors

\* ... hence in each of them,
LEMMA AncestorsLeast ==
    ASSUME NEW t \in Tasks, NEW S \in SUBSET Tasks, t \in S, \A u \in S : DepOf(u) \subseteq S
    PROVE  Ancestors[t] \subseteq S
  <1>1. S \in DepClosed
    BY DEF DepClosed
  <1> QED
    BY <1>1, AncestorsAre

\* and is itself closed;
LEMMA AncestorsClosed ==
    ASSUME NEW t \in Tasks
    PROVE  /\ t \in Ancestors[t] /\ Ancestors[t] \subseteq Tasks
           /\ \A u \in Ancestors[t] : DepOf(u) \subseteq Ancestors[t]
  <1>1. t \in Ancestors[t] /\ Ancestors[t] \subseteq Tasks
    BY AncestorsAre
  <1>2. ASSUME NEW u \in Ancestors[t], NEW d \in DepOf(u) PROVE d \in Ancestors[t]
    <2>1. u \in Tasks /\ d \in Tasks
      BY <1>1, Table
    <2>2. ASSUME NEW S \in DepClosed, t \in S PROVE d \in S
      <3>1. u \in S
        BY <2>2, AncestorsAre
      <3> QED
        BY <3>1 DEF DepClosed
    <2> QED
      BY <2>1, <2>2, AncestorsAre
  <1> QED
    BY <1>1, <1>2

\* what is before a task it depends on is before it;
LEMMA AncestorsOfDep ==
    ASSUME NEW t \in Tasks, NEW d \in DepOf(t)
    PROVE  d \in Tasks /\ Ancestors[d] \subseteq Ancestors[t]
  <1>1. d \in Tasks /\ d \in Ancestors[t]
    BY Table, AncestorsClosed
  <1>2. Ancestors[t] \in SUBSET Tasks /\ \A u \in Ancestors[t] : DepOf(u) \subseteq Ancestors[t]
    BY AncestorsClosed
  <1> QED
    BY <1>1, <1>2, AncestorsLeast

\* and it is the task with what is before the tasks it depends on.
LEMMA AncestorsStep ==
    ASSUME NEW t \in Tasks
    PROVE  Ancestors[t] = {t} \cup UNION {Ancestors[d] : d \in DepOf(t)}
  <1> DEFINE S == {t} \cup UNION {Ancestors[d] : d \in DepOf(t)}
  <1>1. DepOf(t) \subseteq Tasks
    BY Table
  <1>2. S \in SUBSET Tasks
    BY <1>1, AncestorsClosed
  <1>3. ASSUME NEW u \in S PROVE DepOf(u) \subseteq S
    <2>1. CASE u = t
      <3>1. \A d \in DepOf(t) : d \in Ancestors[d]
        BY <1>1, AncestorsClosed
      <3> QED
        BY <2>1, <3>1
    <2>2. CASE u # t
      <3>1. PICK d \in DepOf(t) : u \in Ancestors[d]
        BY <2>2
      <3>2. DepOf(u) \subseteq Ancestors[d]
        BY <3>1, <1>1, AncestorsClosed
      <3> QED
        BY <3>2
    <2> QED
      BY <2>1, <2>2
  <1>4. Ancestors[t] \subseteq S
    BY <1>2, <1>3, AncestorsLeast
  <1>5. S \subseteq Ancestors[t]
    BY AncestorsClosed, AncestorsOfDep
  <1> QED
    BY <1>4, <1>5

\* Nothing is before the number.
LEMMA RootAlone == Ancestors[Root] = {Root}
  BY AncestorsStep, Table

\* Every other task has something before it, and somewhere before it is a task
\* that depends on the number itself.
LEMMA RootBefore ==
    ASSUME NEW t \in Others
    PROVE  DepOf(t) # {} /\ \E u \in Ancestors[t] \ {Root} : Root \in DepOf(u)
  <1>1. t \in Tasks /\ t # Root /\ Root \in Ancestors[t]
    BY TableAssumption DEF Others
  <1>2. \E u \in Ancestors[t] \ {Root} : Root \in DepOf(u)
    <2> DEFINE S == Ancestors[t] \ {Root}
    <2>1. SUFFICES ASSUME \A u \in S : Root \notin DepOf(u) PROVE FALSE
      OBVIOUS
    <2>2. t \in S /\ S \in SUBSET Tasks
      BY <1>1, AncestorsClosed
    <2>3. \A u \in S : DepOf(u) \subseteq S
      BY <1>1, <2>1, AncestorsClosed
    <2>4. Ancestors[t] \subseteq S
      BY <1>1, <2>2, <2>3, AncestorsLeast
    <2> QED
      BY <1>1, <2>4
  <1>3. DepOf(t) # {}
    <2>1. SUFFICES ASSUME DepOf(t) = {} PROVE FALSE
      OBVIOUS
    <2>2. Ancestors[t] = {t}
      BY <1>1, <2>1, AncestorsStep
    <2> QED
      BY <1>1, <2>2
  <1> QED
    BY <1>2, <1>3

\* The traversal of do_init reaches every task.
LEMMA AllReached ==
    ASSUME NEW S \in SUBSET Tasks, Root \in S, \A t \in S : ReverseOf(Dep, t) \subseteq S
    PROVE  S = Tasks
  <1>1. SUFFICES ASSUME NEW t \in Tasks, t \notin S PROVE FALSE
    OBVIOUS
  <1> DEFINE R == Tasks \ S
  <1>2. ASSUME NEW u \in R PROVE DepOf(u) \subseteq R
    <2>1. \A d \in DepOf(u) : d \notin S
      BY DEF ReverseOf, DepOf
    <2> QED
      BY <2>1, Table
  <1>3. Ancestors[t] \subseteq R
    BY <1>1, <1>2, AncestorsLeast
  <1> QED
    BY <1>1, <1>3, TableAssumption

-----------------------------------------------------------------------------
(* Facts.                                                                  *)

\* The number comes from itself only.
LEMMA WholeRoot == \A m, s : Whole(Root, m, s) = {NumberFact(m)}
  BY RootAlone, TableAssumption DEF Whole, Own

\* The facts of a task are its own and those of the tasks it depends on.
LEMMA WholeStep ==
    ASSUME NEW t \in Others, NEW m, NEW s
    PROVE  \A x : x \in Whole(t, m, s) <=>
                     x \in Own(t, s) \/ \E d \in DepOf(t) : x \in Whole(d, m, s)
  <1>1. t \in Tasks /\ DepOf(t) # {}
    BY RootBefore DEF Others
  <1>2. Ancestors[t] = {t} \cup UNION {Ancestors[d] : d \in DepOf(t)}
    BY <1>1, AncestorsStep
  <1>3. ASSUME NEW x \in Whole(t, m, s)
        PROVE  x \in Own(t, s) \/ \E d \in DepOf(t) : x \in Whole(d, m, s)
    <2>1. CASE x = NumberFact(m)
      <3>1. PICK d \in DepOf(t) : TRUE
        BY <1>1
      <3>2. x \in Whole(d, m, s)
        BY <2>1 DEF Whole
      <3> QED
        BY <3>2
    <2>2. CASE x # NumberFact(m)
      <3>1. PICK u \in Ancestors[t] : x \in Own(u, s)
        BY <2>2 DEF Whole
      <3>2. CASE u = t
        BY <3>1, <3>2
      <3>3. CASE u # t
        <4>1. PICK d \in DepOf(t) : u \in Ancestors[d]
          BY <1>2, <3>3
        <4>2. x \in Whole(d, m, s)
          BY <3>1, <4>1 DEF Whole
        <4> QED
          BY <4>2
      <3> QED
        BY <3>2, <3>3
    <2> QED
      BY <2>1, <2>2
  <1>4. Own(t, s) \subseteq Whole(t, m, s)
    BY <1>2 DEF Whole
  <1>5. ASSUME NEW d \in DepOf(t) PROVE Whole(d, m, s) \subseteq Whole(t, m, s)
    BY <1>1, AncestorsOfDep DEF Whole
  <1> QED
    BY <1>3, <1>4, <1>5

\* The number can be read from the facts.
LEMMA WholeNumber ==
    ASSUME NEW t \in Tasks, NEW m, NEW k, NEW s, NumberFact(k) \in Whole(t, m, s)
    PROVE  k = m
  <1>1. CASE NumberFact(k) = NumberFact(m)
    BY <1>1 DEF NumberFact
  <1>2. ASSUME NEW u \in Ancestors[t], NumberFact(k) \in Own(u, s) PROVE FALSE
    <2>1. PICK p \in ParamOf(u) : NumberFact(k) = <<u, p, s[p]>>
      BY <1>2 DEF Own
    <2>2. u = Root
      BY <2>1 DEF NumberFact
    <2> QED
      BY <2>1, <2>2, TableAssumption
  <1> QED
    BY <1>1, <1>2 DEF Whole

\* Parameters that no task before it depends on make no difference.
LEMMA WholeSame ==
    ASSUME NEW t \in Tasks, NEW m, NEW s, NEW r,
           \A u \in Ancestors[t] : \A p \in ParamOf(u) : s[p] = r[p]
    PROVE  Whole(t, m, s) = Whole(t, m, r)
  <1>1. \A u \in Ancestors[t] : Own(u, s) = Own(u, r)
    BY DEF Own
  <1> QED
    BY <1>1 DEF Whole

\* They are facts of the model.
LEMMA WholeFacts ==
    ASSUME NEW t \in Tasks, NEW m \in Numbers, NEW s \in [Params -> Values]
    PROVE  Whole(t, m, s) \subseteq Facts
  <1>1. Ancestors[t] \subseteq Tasks
    BY AncestorsClosed
  <1>2. ASSUME NEW u \in Tasks PROVE Own(u, s) \subseteq Facts
    BY DEF Own, Facts, ParamOf
  <1>3. NumberFact(m) \in Facts
    BY Table DEF NumberFact, Facts
  <1> QED
    BY <1>1, <1>2, <1>3 DEF Whole

\* They are what a run from scratch would compute from.
LEMMA WholeIdeal == \A t \in Tasks : Ideal(t) = Whole(t, n, param)
  BY DEF Ideal, Whole, NumberFact, Own

\* A setting gives every parameter a value.
LEMMA SettingValues ==
    ASSUME NEW s \in Settings
    PROVE  s \in [Params -> Values]
  <1>1. s \in [Params -> Nat]
    BY ValuesAssumption
  <1>2. \A p \in Params : s[p] \in Values
    BY DEF Values
  <1> QED
    BY <1>1, <1>2

-----------------------------------------------------------------------------
(* Marks.                                                                  *)

\* Removing a mark links nothing.
LEMMA LinkedLess ==
    ASSUME NEW mk \in [Tasks -> Nat], NEW x \in Others, NEW mk2,
           mk2 = [mk EXCEPT ![x] = 0],
           NEW t \in Tasks, LinkedBy(mk2, t)
    PROVE  LinkedBy(mk, t)
  <1>1. Ancestors[t] \subseteq Tasks /\ \A u \in Ancestors[t] : DepOf(u) \subseteq Ancestors[t]
    BY AncestorsClosed
  <1>2. x \in Tasks /\ x # Root
    BY DEF Others
  <1>3. x \notin Ancestors[t]
    BY <1>2 DEF LinkedBy
  <1>4. \A u \in Ancestors[t] : mk2[u] = mk[u]
    BY <1>1, <1>3
  <1>5. ASSUME NEW u \in Ancestors[t] \ {Root}
        PROVE  mk[u] # 0 /\ \A d \in DepOf(u) : mk[d] <= mk[u]
    <2>1. mk2[u] # 0 /\ \A d \in DepOf(u) : mk2[d] <= mk2[u]
      BY <1>5 DEF LinkedBy
    <2>2. \A d \in DepOf(u) : d \in Ancestors[t]
      BY <1>1
    <2> QED
      BY <1>4, <2>1, <2>2
  <1> QED
    BY <1>5 DEF LinkedBy

\* A number that is newer than all marks unlinks every task.
LEMMA NewNumberUnlinks ==
    ASSUME NEW mk, \A t \in Others : mk[t] < mk[Root], mk \in [Tasks -> Nat],
           NEW t \in Others
    PROVE  ~LinkedBy(mk, t)
  <1>1. PICK u \in Ancestors[t] \ {Root} : Root \in DepOf(u)
    BY RootBefore
  <1>2. u \in Others /\ u \in Tasks /\ Root \in Tasks
    BY AncestorsClosed, Table DEF Others
  <1>3. mk[u] < mk[Root] /\ mk[u] \in Nat /\ mk[Root] \in Nat
    BY <1>2
  <1>4. ~(mk[Root] <= mk[u])
    BY <1>3
  <1> QED
    BY <1>1, <1>4 DEF LinkedBy

\* Of a done task everything before it is done, and linked.
LEMMA DoneBefore ==
    ASSUME NEW dn, NEW mk, dn \in [Tasks -> Nat], mk \in [Tasks -> Nat], dn[Root] = mk[Root],
           dn[Root] # 0,
           \A t \in Others : dn[t] # 0 =>
               dn[t] = mk[t] /\ \A d \in DepOf(t) : dn[d] # 0 /\ dn[d] <= dn[t],
           NEW t \in Tasks, dn[t] # 0
    PROVE  LinkedBy(mk, t) /\ \A u \in Ancestors[t] : dn[u] # 0
  <1> DEFINE S == {u \in Tasks : dn[u] # 0}
  <1>1. ASSUME NEW u \in S PROVE DepOf(u) \subseteq S
    <2>1. CASE u = Root
      BY <2>1, Table
    <2>2. CASE u # Root
      <3>1. u \in Others
        BY <2>2 DEF Others
      <3> QED
        BY <3>1, Table
    <2> QED
      BY <2>1, <2>2
  <1>2. Ancestors[t] \subseteq S
    BY <1>1, AncestorsLeast
  <1>3. \A u \in Tasks : dn[u] # 0 => dn[u] = mk[u]
    BY DEF Others
  <1>4. ASSUME NEW u \in Ancestors[t] \ {Root}
        PROVE  mk[u] # 0 /\ \A d \in DepOf(u) : mk[d] <= mk[u]
    <2>1. u \in Others /\ u \in Tasks /\ dn[u] # 0 /\ dn[u] = mk[u]
      BY <1>2, <1>3 DEF Others
    <2>2. \A d \in DepOf(u) : d \in Tasks /\ dn[d] # 0 /\ dn[d] <= dn[u] /\ dn[d] = mk[d]
      BY <2>1, <1>3, Table
    <2> QED
      BY <2>1, <2>2
  <1> QED
    BY <1>2, <1>4 DEF LinkedBy

-----------------------------------------------------------------------------
(* The steps that leave the disk as it is.                                 *)

disk == <<nfile, pfile, mark, out, prov, jobs, clock, pace>>

\* When only the driver's variables change, DiskInv stays true.
LEMMA DiskKept ==
    ASSUME DiskInv, UNCHANGED disk, Written' = Written, JobsListed',
           pc # "off", (pc = "param2") <=> (pc' = "param2")
    PROVE  DiskInv'
  <1>1. /\ nfile' = nfile /\ pfile' = pfile /\ mark' = mark /\ out' = out /\ prov' = prov
        /\ jobs' = jobs /\ clock' = clock /\ pace' = pace
    BY DEF disk
  <1>2. DiskTypes'
    BY <1>1 DEF DiskInv, DiskTypes
  <1>3. nfile # NoNumber
    BY DEF DiskInv, NumberThere
  <1>4. NumberThere'
    BY <1>1, <1>3 DEF DiskInv, NumberThere
  <1>5. ParametersThere'
    BY <1>1 DEF DiskInv, ParametersThere, Blank
  <1>6. NoFilesNoFacts'
    BY <1>1 DEF DiskInv, NoFilesNoFacts
  <1>7. MarkedRight'
    BY <1>1 DEF DiskInv, MarkedRight, Linked
  <1>8. BatchesRight'
    BY <1>1 DEF DiskInv, BatchesRight, Linked, Batches
  <1> QED
    BY <1>2, <1>4, <1>5, <1>6, <1>7, <1>8 DEF DiskInv

\* When the driver has gone, nothing is left of what it knew.
LEMMA OffRun ==
    ASSUME DriverTypes, CleanupRight, pc' = "off",
           UNCHANGED <<config, done, search, stack, dupPurge, clock>>
    PROVE  RunInv'
  <1> USE DEF config, search
  <1>1. DriverTypes'
    BY DEF DriverTypes, Pcs
  <1>2. Called' /\ DoneLinked' /\ KeptSame' /\ VisitedSorted' /\ BodyRight'
    BY DEF Called, DoneLinked, KeptSame, VisitedSorted, BodyRight, Deciding
  <1>3. CleanupRight' /\ CleanedUp' /\ FilteredRight'
    BY DEF CleanupRight, CleanedUp, FilteredRight, Deciding, Running
  <1> QED
    BY <1>1, <1>2, <1>3 DEF RunInv

\* Nothing happens.
LEMMA StutterInv ==
    ASSUME IInv, UNCHANGED vars
    PROVE  IInv'
  <1> USE DEF vars, files, config, search, world
  <1>1. Written' = Written
    BY DEF Written
  <1>2. DiskTypes' /\ NumberThere' /\ JobsListed' /\ ParametersThere' /\ NoFilesNoFacts'
    BY DEF IInv, DiskInv, DiskTypes, NumberThere, JobsListed, HasFiles, ParametersThere, Blank,
           NoFilesNoFacts
  <1>3. MarkedRight' /\ BatchesRight'
    BY <1>1 DEF IInv, DiskInv, MarkedRight, BatchesRight, Linked, Batches
  <1>4. DriverTypes' /\ Called' /\ DoneLinked'
    BY DEF IInv, RunInv, DriverTypes, Called, DoneLinked
  <1>5. KeptSame' /\ CleanupRight'
    BY DEF IInv, RunInv, KeptSame, Deciding, Changed, Kept, CleanupRight
  <1>6. VisitedSorted'
    BY DEF IInv, RunInv, VisitedSorted, Sorted, Resumed, Kept, Gone
  <1>7. CleanedUp' /\ BodyRight' /\ FilteredRight'
    BY <1>1 DEF IInv, RunInv, CleanedUp, BodyRight, FilteredRight, Running, Filtered, AtWork, Top,
                InputsWhole
  <1> QED
    BY <1>2, <1>3, <1>4, <1>5, <1>6, <1>7 DEF IInv, DiskInv, RunInv

\* An empty directory, before the first call.
LEMMA InitInv ==
    ASSUME Init
    PROVE  IInv
  <1>1. /\ nfile = NoNumber /\ pfile = [p \in Params |-> Absent] /\ pace \in {0, 1} /\ clock = 1
        /\ \A t \in Tasks : mark[t] = 0 /\ out[t] = "none" /\ prov[t] = {} /\ jobs[t] = {}
    BY DEF Init, Nobody
  <1>2. DiskTypes
    <2>1. nfile \in Numbers \cup {NoNumber} /\ pfile \in [Params -> Values \cup {Absent}]
      BY <1>1
    <2>2. mark \in [Tasks -> Nat] /\ out \in [Tasks -> {"none", "part", "whole"}]
      BY DEF Init, Nobody
    <2>3. prov \in [Tasks -> SUBSET Facts] /\ jobs \in [Tasks -> SUBSET SUBSET Facts]
      BY DEF Init
    <2> QED
      BY <1>1, <2>1, <2>2, <2>3 DEF DiskTypes
  <1>3. pc = "off" /\ cleanup = <<>> /\ queue = <<>> /\ stack = <<>>
    BY DEF Init
  <1>4. NumberThere /\ ParametersThere /\ NoFilesNoFacts
    BY <1>1, <1>3, Table DEF NumberThere, ParametersThere, NoFilesNoFacts, Blank, Others
  <1>5. JobsListed
    BY <1>1 DEF JobsListed
  <1>6. MarkedRight /\ BatchesRight
    BY <1>1, TableAssumption DEF MarkedRight, BatchesRight, Batches, Others
  <1>7. DriverTypes
    <2>1. done \in [Tasks -> Nat] /\ \A t \in Tasks : done[t] = 0
      BY DEF Init, Nobody
    <2>2. /\ pc \in Pcs /\ n \in Numbers /\ param \in Settings /\ recover \in BOOLEAN
          /\ diff \subseteq Params /\ answer \in Answers \cup {""}
          /\ visited \subseteq Tasks /\ dupPurge \in BOOLEAN
      BY DEF Init, Pcs
    <2>3. queue \in Seq(Tasks) /\ cleanup \in Seq(Tasks) /\ stack \in Seq(Tasks)
      BY <1>3
    <2>4. clock = 1
      BY <1>1
    <2>5. \A t \in Tasks : done[t] <= clock
      BY <2>1, <2>4
    <2> QED
      BY <2>1, <2>2, <2>3, <2>5 DEF DriverTypes
  <1>8. Called /\ DoneLinked /\ KeptSame /\ VisitedSorted /\ BodyRight
    BY <1>3 DEF Called, DoneLinked, KeptSame, VisitedSorted, BodyRight, Deciding
  <1>9. CleanedUp /\ FilteredRight /\ CleanupRight
    <2>1. DOMAIN cleanup = {}
      BY <1>3
    <2> QED
      BY <1>3, <2>1 DEF CleanedUp, FilteredRight, CleanupRight, Deciding, Running
  <1> QED
    BY <1>2, <1>4, <1>5, <1>6, <1>7, <1>8, <1>9 DEF IInv, DiskInv, RunInv

\* In a shelter, jobs are listed for tasks with files when the driver dies.
LEMMA KillInv ==
    ASSUME IInv, Sheltered, Kill
    PROVE  IInv'
  <1> USE DEF files
  <1>1. /\ pc # "off" /\ pc # "param2" /\ pc' = "off"
        /\ \A t \in Dist : jobs[t] # {} => HasFiles(t)
        /\ UNCHANGED <<files, config, done, search, stack, dupPurge, clock, pace>>
    BY DEF Kill, Exposed, Sheltered
  <1>2. Written' = Written
    BY <1>1 DEF Written
  <1>3. JobsListed'
    BY <1>1 DEF IInv, DiskInv, JobsListed, HasFiles
  <1>4. DiskInv'
    BY <1>1, <1>2, <1>3, DiskKept DEF IInv, disk
  <1>5. RunInv'
    BY <1>1, OffRun DEF IInv, RunInv
  <1> QED
    BY <1>4, <1>5 DEF IInv

\* The traversal has reached every task, so each is sorted.
LEMMA VisitEndInv ==
    ASSUME IInv, VisitEnd
    PROVE  IInv'
  <1> USE DEF files, config, world
  <1>1. /\ pc = "visit" /\ queue = <<>> /\ visited' = {}
        /\ pc' = IF cleanup = <<>> THEN "param" ELSE "ask"
        /\ UNCHANGED <<files, config, done, queue, cleanup, answer, stack, dupPurge, world>>
    BY DEF VisitEnd
  <1>2. Written' = Written
    BY <1>1 DEF Written
  <1>3. JobsListed'
    BY <1>1 DEF IInv, DiskInv, JobsListed, HasFiles
  <1>4. DiskInv'
    BY <1>1, <1>2, <1>3, DiskKept DEF IInv, disk
  <1>5. DriverTypes' /\ Called' /\ DoneLinked'
    BY <1>1 DEF IInv, RunInv, DriverTypes, Pcs, Called, DoneLinked
  <1>6. KeptSame' /\ CleanupRight'
    BY <1>1 DEF IInv, RunInv, KeptSame, CleanupRight, Deciding, Changed, Kept
  <1>7. visited = Tasks
    <2>1. ToSet(queue) = {}
      BY <1>1 DEF ToSet
    <2>2. /\ visited \in SUBSET Tasks /\ Root \in visited
          /\ \A t \in visited : ReverseOf(Dep, t) \subseteq visited
      BY <1>1, <2>1 DEF IInv, RunInv, VisitedSorted, DriverTypes
    <2> QED
      BY <2>2, AllReached
  <1>8. \A t \in Others : Sorted(t)
    BY <1>1, <1>7 DEF IInv, RunInv, VisitedSorted, Others
  <1>9. \A t \in Others : Sorted(t)'
    BY <1>1, <1>8 DEF Sorted, Resumed, Kept, Gone
  <1>10. VisitedSorted'
    BY <1>1, <1>9 DEF VisitedSorted
  <1>11. CleanedUp' /\ BodyRight' /\ FilteredRight'
    BY <1>1 DEF CleanedUp, BodyRight, FilteredRight, Running
  <1> QED
    BY <1>4, <1>5, <1>6, <1>10, <1>11 DEF IInv, RunInv

\* The user approves, or the driver ends.
LEMMA AskInv ==
    ASSUME IInv, NEW a \in Answers, Ask(a)
    PROVE  IInv'
  <1> USE DEF files, config, search
  <1>1. /\ pc = "ask" /\ pc' \in {"off", "clean"} /\ answer' \in {answer, a}
        /\ pc' = "off" => answer' = answer
        /\ UNCHANGED <<files, config, done, queue, visited, cleanup, stack, dupPurge,
                       clock, pace, changes>>
    BY DEF Ask
  <1>2. Written' = Written
    BY <1>1 DEF Written
  <1>3. JobsListed'
    BY <1>1 DEF IInv, DiskInv, JobsListed, HasFiles
  <1>4. DiskInv'
    BY <1>1, <1>2, <1>3, DiskKept DEF IInv, disk
  <1>5. CASE pc' = "off"
    <2>1. RunInv'
      BY <1>1, <1>5, OffRun DEF IInv, RunInv
    <2> QED
      BY <1>4, <2>1 DEF IInv
  <1>6. CASE pc' = "clean"
    <2>1. DriverTypes' /\ Called' /\ DoneLinked'
      BY <1>1, <1>6 DEF IInv, RunInv, DriverTypes, Pcs, Called, DoneLinked
    <2>2. KeptSame' /\ CleanupRight'
      BY <1>1, <1>6 DEF IInv, RunInv, KeptSame, CleanupRight, Deciding, Changed, Kept
    <2>3. VisitedSorted'
      BY <1>1, <1>6 DEF IInv, RunInv, VisitedSorted, Sorted, Resumed, Kept, Gone
    <2>4. CleanedUp' /\ BodyRight' /\ FilteredRight'
      BY <1>6 DEF CleanedUp, BodyRight, FilteredRight, Running
    <2> QED
      BY <1>4, <2>1, <2>2, <2>3, <2>4 DEF IInv, RunInv
  <1> QED
    BY <1>1, <1>5, <1>6

\* The list is empty.
LEMMA CleanEndInv ==
    ASSUME IInv, CleanEnd
    PROVE  IInv'
  <1> USE DEF files, config, search, world
  <1>1. /\ pc = "clean" /\ cleanup = <<>> /\ pc' = "param"
        /\ UNCHANGED <<files, config, done, search, stack, dupPurge, world>>
    BY DEF CleanEnd
  <1>2. Written' = Written
    BY <1>1 DEF Written
  <1>3. JobsListed'
    BY <1>1 DEF IInv, DiskInv, JobsListed, HasFiles
  <1>4. DiskInv'
    BY <1>1, <1>2, <1>3, DiskKept DEF IInv, disk
  <1>5. DriverTypes' /\ Called' /\ DoneLinked'
    BY <1>1 DEF IInv, RunInv, DriverTypes, Pcs, Called, DoneLinked
  <1>6. KeptSame' /\ CleanupRight'
    BY <1>1 DEF IInv, RunInv, KeptSame, CleanupRight, Deciding, Changed, Kept
  <1>7. VisitedSorted'
    BY <1>1 DEF IInv, RunInv, VisitedSorted, Sorted, Resumed, Kept, Gone
  <1>8. CleanedUp' /\ BodyRight' /\ FilteredRight'
    BY <1>1 DEF CleanedUp, BodyRight, FilteredRight, Running
  <1> QED
    BY <1>4, <1>5, <1>6, <1>7, <1>8 DEF IInv, RunInv

\* do_task's calls and returns, and the end.
LEMMA StackInv ==
    ASSUME IInv, pc = "task", pc' \in {"task", "end"}, stack' \in Seq(Tasks),
           UNCHANGED <<files, config, done, search, dupPurge, world>>
    PROVE  IInv'
  <1> USE DEF files, config, search, world
  <1>2. Written' = Written
    BY DEF Written
  <1>3. JobsListed'
    BY DEF IInv, DiskInv, JobsListed, HasFiles
  <1>4. DiskInv'
    BY <1>2, <1>3, DiskKept DEF IInv, disk
  <1>5. DriverTypes' /\ Called' /\ DoneLinked'
    BY DEF IInv, RunInv, DriverTypes, Pcs, Called, DoneLinked
  <1>6. KeptSame' /\ CleanupRight' /\ VisitedSorted' /\ BodyRight'
    BY DEF IInv, RunInv, KeptSame, CleanupRight, VisitedSorted, BodyRight, Deciding
  <1>7. CleanedUp' /\ FilteredRight'
    BY <1>2 DEF IInv, RunInv, CleanedUp, FilteredRight, Filtered, AtWork, Running
  <1> QED
    BY <1>4, <1>5, <1>6, <1>7 DEF IInv, RunInv

\* do_task returns from a task that is done.
LEMMA ReturnInv ==
    ASSUME IInv, Return
    PROVE  IInv'
  <1>1. stack \in Seq(Tasks) /\ stack # <<>>
    BY DEF IInv, RunInv, DriverTypes, Return, AtTask
  <1>2. Tail(stack) \in Seq(Tasks)
    BY <1>1, FirstAndRest
  <1> QED
    BY <1>2, StackInv DEF Return, AtTask

\* do_task is called for a prerequisite.
LEMMA DescendInv ==
    ASSUME IInv, Descend
    PROVE  IInv'
  <1>1. stack \in Seq(Tasks) /\ stack # <<>>
    BY DEF IInv, RunInv, DriverTypes, Descend, AtTask
  <1>2. Top \in Tasks
    BY <1>1, FirstAndRest DEF Top
  <1>3. Prerequisites(Top) \in Seq(Tasks)
    BY <1>2, Table, ConcatSet DEF Prerequisites
  <1>4. \A i \in Missing(Top) : Prerequisites(Top)[i] \in Tasks
    BY <1>3 DEF Missing
  <1>5. \A u \in Tasks : <<u>> \o stack \in Seq(Tasks)
    BY <1>1
  <1>6. stack' \in Seq(Tasks)
    BY <1>4, <1>5 DEF Descend
  <1> QED
    BY <1>6, StackInv DEF Descend, AtTask

\* do_task returns from the target.
LEMMA EndInv ==
    ASSUME IInv, End
    PROVE  IInv'
  <1>1. stack' \in Seq(Tasks)
    BY DEF IInv, RunInv, DriverTypes, End
  <1> QED
    BY <1>1, StackInv DEF End

-----------------------------------------------------------------------------
(* The driver is called.                                                   *)

\* The driver is called, with any number and setting.
LEMMA CallInv ==
    ASSUME IInv, pc \in {"off", "end"}, NEW m \in Numbers, NEW s \in Settings, Call(m, s)
    PROVE  IInv'
  <1> DEFINE same == nfile = m
             now == 1 + Max({mark[t] : t \in Tasks})
  <1>1. /\ nfile' = m /\ n' = m /\ param' = s /\ recover' = same /\ pc' = "visit"
        /\ diff' = IF same THEN Changed(s) ELSE {}
        /\ queue' = <<Root>> /\ visited' = {} /\ cleanup' = <<>> /\ stack' = <<>>
        /\ answer' = "" /\ dupPurge' = FALSE
        /\ UNCHANGED <<pfile, out, jobs, pace>>
    BY DEF Call
  <1>2. /\ clock' = now
        /\ mark' = [mark EXCEPT ![Root] = IF same THEN @ ELSE now]
        /\ prov' = [prov EXCEPT ![Root] = {NumberFact(m)}]
        /\ done' = [Nobody EXCEPT ![Root] = mark'[Root]]
    BY DEF Call, NumberFact
  <1>3. /\ mark \in [Tasks -> Nat] /\ prov \in [Tasks -> SUBSET Facts] /\ clock \in Nat
        /\ \A t \in Tasks : mark[t] <= clock
        /\ m \in Nat /\ m # NoNumber
    BY ValuesAssumption DEF IInv, DiskInv, DiskTypes
  <1>4. now \in Nat \ {0} /\ \A t \in Tasks : mark[t] < now
    <2> DEFINE T == {mark[t] : t \in Tasks}
    <2>1. T \in SUBSET (0..clock) /\ T # {}
      BY <1>3, Table
    <2>2. Max(T) \in T /\ \A j \in T : j <= Max(T)
      BY <1>3, <2>1, LargestOf
    <2>3. \A t \in Tasks : mark[t] <= Max(T) /\ mark[t] \in Nat
      BY <1>3, <2>2
    <2> HIDE DEF T
    <2>4. Max(T) \in Nat
      <3>1. Max(T) \in 0..clock
        BY <2>1, <2>2
      <3> QED
        BY <3>1, <1>3
    <2> QED
      BY <2>3, <2>4 DEF T
  <1> HIDE DEF now
  <1>5. /\ mark' \in [Tasks -> Nat] /\ mark'[Root] = (IF same THEN mark[Root] ELSE now)
        /\ \A t \in Others : mark'[t] = mark[t]
        /\ \A t \in Tasks : mark'[t] <= now
        /\ same => mark' = mark
    BY <1>2, <1>3, <1>4, Table DEF Others
  <1>6. /\ prov' \in [Tasks -> SUBSET Facts] /\ prov'[Root] = {NumberFact(m)}
        /\ \A t \in Others : prov'[t] = prov[t]
    <2>1. NumberFact(m) \in Facts
      BY Table DEF NumberFact, Facts
    <2> QED
      BY <1>2, <1>3, <2>1, Table DEF Others
  <1>7. mark'[Root] # 0
    BY <1>3, <1>4, <1>5 DEF IInv, DiskInv, NumberThere
  <1>8. ~same => \A t \in Others : ~LinkedBy(mark', t)
    <2>1. \A t \in Others : t \in Tasks
      BY DEF Others
    <2>2. ~same => \A t \in Others : mark'[t] < mark'[Root]
      BY <2>1, <1>4, <1>5
    <2> QED
      BY <2>2, <1>5, NewNumberUnlinks
  <1>9. Written' = Written
    BY <1>1 DEF Written
  <1>10. DiskTypes'
    BY <1>1, <1>2, <1>4, <1>5, <1>6 DEF IInv, DiskInv, DiskTypes
  <1>11. NumberThere'
    BY <1>1, <1>3, <1>6, <1>7 DEF NumberThere
  <1>12. JobsListed'
    <2>1. ASSUME NEW t \in Tasks, jobs[t] # {} PROVE t \in Dist /\ mark[t] = 0 /\ HasFiles(t)
      BY <2>1 DEF IInv, DiskInv, JobsListed
    <2>2. \A t \in Dist : t \in Others
      BY TableAssumption DEF Others
    <2>3. ASSUME NEW t \in Tasks, jobs[t] # {}
          PROVE  t \in Dist /\ mark'[t] = 0 /\ HasFiles(t)'
      <3>1. t \in Dist /\ mark[t] = 0 /\ HasFiles(t)
        BY <2>1, <2>3
      <3>2. mark'[t] = mark[t] /\ out'[t] = out[t]
        BY <2>2, <3>1, <1>1, <1>5
      <3> QED
        BY <3>1, <3>2 DEF HasFiles
    <2> QED
      BY <2>3, <1>1 DEF JobsListed
  <1>13. ParametersThere'
    BY <1>1, <1>5 DEF IInv, DiskInv, ParametersThere, Blank
  <1>14. NoFilesNoFacts'
    BY <1>1, <1>6 DEF IInv, DiskInv, NoFilesNoFacts
  <1>15. MarkedRight'
    BY <1>1, <1>5, <1>6, <1>8, <1>9 DEF IInv, DiskInv, MarkedRight, Linked
  <1>16. BatchesRight'
    <2>1. SUFFICES ASSUME NEW t \in Resume, NEW b \in Batches(t)'
                   PROVE  IF DepOf(t) = {Root}
                          THEN \E k \in Numbers : b = Whole(t, k, Written')
                          ELSE (\A d \in DepOf(t) : LinkedBy(mark', d)) =>
                                   b = Whole(t, m, Written')
      BY <1>1 DEF BatchesRight, Linked
    <2>2. t \in Others /\ t \in Tasks
      BY TableAssumption DEF Others
    <2>3. b \in Batches(t)
      BY <2>2, <1>1, <1>6 DEF Batches
    <2>4. CASE DepOf(t) = {Root}
      BY <2>3, <2>4, <1>9 DEF IInv, DiskInv, BatchesRight
    <2>5. CASE DepOf(t) # {Root} /\ same
      BY <2>3, <2>5, <1>5, <1>9 DEF IInv, DiskInv, BatchesRight, Linked
    <2>6. CASE DepOf(t) # {Root} /\ ~same
      <3>1. Root \notin DepOf(t)
        BY <2>2, <2>6, TableAssumption
      <3>2. PICK d \in DepOf(t) : TRUE
        BY <2>2, RootBefore
      <3>3. d \in Others
        BY <2>2, <3>1, <3>2, Table DEF Others
      <3> QED
        BY <2>6, <3>2, <3>3, <1>8
    <2> QED
      BY <2>4, <2>5, <2>6
  <1>17. DiskInv'
    BY <1>10, <1>11, <1>12, <1>13, <1>14, <1>15, <1>16 DEF DiskInv
  <1>18. /\ done' \in [Tasks -> Nat] /\ done'[Root] = mark'[Root]
         /\ \A t \in Others : done'[t] = 0
         /\ \A t \in Tasks : done'[t] <= now
    BY <1>2, <1>4, <1>5, Table DEF Nobody, Others
  <1>19. DriverTypes'
    <2>1. diff' \subseteq Params /\ recover' \in BOOLEAN
      BY <1>1 DEF Changed
    <2>2. queue' \in Seq(Tasks) /\ cleanup' \in Seq(Tasks) /\ stack' \in Seq(Tasks)
      <3>1. <<Root>> \in Seq(Tasks) /\ <<>> \in Seq(Tasks)
        BY Table
      <3> QED
        BY <3>1, <1>1
    <2>3. n' \in Numbers /\ param' \in Settings /\ pc' \in Pcs /\ visited' \subseteq Tasks
      BY <1>1 DEF Pcs
    <2>4. dupPurge' \in BOOLEAN /\ answer' \in Answers \cup {""}
      BY <1>1
    <2> QED
      BY <1>2, <1>18, <2>1, <2>2, <2>3, <2>4 DEF DriverTypes
  <1>20. Called' /\ DoneLinked'
    BY <1>1, <1>18 DEF Called, DoneLinked
  <1>21. KeptSame'
    <2>1. diff' = IF recover' THEN Changed(param)' ELSE {}
      BY <1>1 DEF Changed
    <2>2. ~recover' => \A t \in Others : mark'[t] < mark'[Root]
      BY <1>1, <1>4, <1>5 DEF Others
    <2> QED
      BY <1>1, <1>18, <2>1, <2>2 DEF KeptSame
  <1>22. ToSet(queue') = {Root} /\ ToSet(cleanup') = {} /\ DOMAIN cleanup' = {}
    <2>1. DOMAIN <<Root>> = {1} /\ <<Root>>[1] = Root /\ DOMAIN <<>> = {}
      OBVIOUS
    <2>2. ToSet(<<Root>>) = {Root} /\ ToSet(<<>>) = {}
      BY <2>1 DEF ToSet
    <2>3. queue' = <<Root>> /\ cleanup' = <<>>
      BY <1>1
    <2> QED
      BY <2>1, <2>2, <2>3
  <1>23. VisitedSorted' /\ CleanupRight'
    BY <1>1, <1>18, <1>22 DEF VisitedSorted, CleanupRight
  <1>24. CleanedUp' /\ BodyRight' /\ FilteredRight'
    BY <1>1 DEF CleanedUp, BodyRight, FilteredRight, Running
  <1> QED
    BY <1>17, <1>19, <1>20, <1>21, <1>23, <1>24 DEF IInv, RunInv

-----------------------------------------------------------------------------
(* The traversal.                                                          *)

\* The list of tasks to clean up grows by a task that is not in it.
LEMMA AppendDistinct ==
    ASSUME NEW s \in Seq(Tasks), NEW x \in Tasks, x \notin ToSet(s),
           \A i, j \in DOMAIN s : s[i] = s[j] => i = j
    PROVE  LET r == Append(s, x) IN \A i, j \in DOMAIN r : r[i] = r[j] => i = j
  <1> DEFINE r == Append(s, x)
  <1>1. /\ Len(s) \in Nat /\ DOMAIN s = 1 .. Len(s) /\ DOMAIN r = 1 .. Len(s) + 1
        /\ r[Len(s) + 1] = x /\ \A i \in 1 .. Len(s) : r[i] = s[i]
    OBVIOUS
  <1>2. \A i \in DOMAIN s : s[i] # x
    BY DEF ToSet
  <1> HIDE DEF r
  <1>3. SUFFICES ASSUME NEW i \in DOMAIN r, NEW j \in DOMAIN r, r[i] = r[j] PROVE i = j
    BY DEF r
  <1>4. (i = Len(s) + 1 \/ i \in DOMAIN s) /\ (j = Len(s) + 1 \/ j \in DOMAIN s)
    BY <1>1
  <1> QED
    BY <1>1, <1>2, <1>3, <1>4

\* A task that was visited, or whose visit is due, stays so.
LEMMA VisitInv ==
    ASSUME IInv, Visit
    PROVE  IInv'
  <1> DEFINE t == Head(queue)
             since == IF t = Root THEN done[t] ELSE mark[t]
             fresh == ~OutOfDate(t, since) /\ ParamOf(t) \cap diff = {}
             isDone == fresh /\ since # 0
             resumes == fresh /\ t \in Resume /\ recover
  <1>1. /\ pc = "visit" /\ queue # <<>>
        /\ UNCHANGED <<nfile, pfile, mark, out, prov, jobs, clock, pace>>
        /\ UNCHANGED <<pc, n, param, recover, diff, answer, stack, dupPurge>>
    BY DEF Visit, files, config, world
  <1>2. CASE t \in visited
    <2>1. queue' = Tail(queue) /\ visited' = visited /\ done' = done /\ cleanup' = cleanup
      BY <1>2 DEF Visit, Seen
    <2>2. queue \in Seq(Tasks) /\ Tail(queue) \in Seq(Tasks) /\ ToSet(queue) = {t} \cup ToSet(queue')
      BY <1>1, <2>1, FirstAndRest DEF IInv, RunInv, DriverTypes
    <2>3. Written' = Written
      BY <1>1 DEF Written
    <2>4. JobsListed'
      BY <1>1, <2>1 DEF IInv, DiskInv, JobsListed, HasFiles
    <2>5. DiskInv'
      BY <1>1, <2>3, <2>4, DiskKept DEF IInv, disk
    <2>6. DriverTypes' /\ Called' /\ DoneLinked'
      BY <1>1, <2>1, <2>2 DEF IInv, RunInv, DriverTypes, Pcs, Called, DoneLinked
    <2>7. KeptSame' /\ CleanupRight'
      BY <1>1, <2>1 DEF IInv, RunInv, KeptSame, CleanupRight, Deciding, Changed, Kept
    <2>8. \A u \in Others : Sorted(u) => Sorted(u)'
      BY <1>1, <2>1 DEF Sorted, Resumed, Kept, Gone
    <2>9. VisitedSorted'
      <3>1. visited \cup ToSet(queue) = visited' \cup ToSet(queue')
        BY <1>2, <2>1, <2>2
      <3>2. visited \subseteq Tasks
        BY DEF IInv, RunInv, DriverTypes
      <3> QED
        BY <1>1, <2>1, <2>8, <3>1, <3>2 DEF IInv, RunInv, VisitedSorted, Others
    <2>10. CleanedUp' /\ BodyRight' /\ FilteredRight'
      BY <1>1 DEF CleanedUp, BodyRight, FilteredRight, Running
    <2> QED
      BY <2>5, <2>6, <2>7, <2>9, <2>10 DEF IInv, RunInv
  <1>3. CASE t \notin visited
    <2>1. PICK rdep \in SetToSeqs(ReverseOf(Dep, t)), rreq \in SetToSeqs(ReverseOf(Req, t)) :
              queue' = Tail(queue) \o rdep \o rreq
      BY <1>3 DEF Visit, Seen
    <2>2. /\ visited' = visited \cup {t}
          /\ done' = [done EXCEPT ![t] = IF isDone THEN since ELSE 0]
          /\ cleanup' = IF ~isDone /\ ~resumes /\ HasFiles(t) THEN Append(cleanup, t) ELSE cleanup
      BY <1>3 DEF Visit, Seen
    <2>3. /\ t \in Tasks /\ Tail(queue) \in Seq(Tasks)
          /\ ToSet(queue) = {t} \cup ToSet(Tail(queue))
      BY <1>1, FirstAndRest DEF IInv, RunInv, DriverTypes
    <2>4. queue' \in Seq(Tasks) /\ ToSet(queue) \cup ReverseOf(Dep, t) \subseteq {t} \cup ToSet(queue')
      <3>1. ReverseOf(Dep, t) \subseteq Tasks /\ ReverseOf(Req, t) \subseteq Tasks
        BY DEF ReverseOf
      <3>2. IsFiniteSet(ReverseOf(Dep, t)) /\ IsFiniteSet(ReverseOf(Req, t))
        BY <3>1, Table, FS_Subset
      <3>3. /\ rdep \in Seq(ReverseOf(Dep, t)) /\ ToSet(rdep) = ReverseOf(Dep, t)
            /\ rreq \in Seq(ReverseOf(Req, t))
        BY <3>2, <2>1, OrdersOfSet
      <3>4. rdep \in Seq(Tasks) /\ rreq \in Seq(Tasks)
        BY <3>1, <3>3, SeqMonotonic
      <3>5. PICK q : q = Tail(queue)
        OBVIOUS
      <3>6. q \in Seq(Tasks)
        BY <2>3, <3>5
      <3>7. q \o rdep \in Seq(Tasks) /\ ToSet(q \o rdep) = ToSet(q) \cup ToSet(rdep)
        BY <3>4, <3>6, ConcatSet
      <3>8. PICK r : r = q \o rdep
        OBVIOUS
      <3>9. r \in Seq(Tasks)
        BY <3>7, <3>8
      <3>10. r \o rreq \in Seq(Tasks) /\ ToSet(r \o rreq) = ToSet(r) \cup ToSet(rreq)
        BY <3>4, <3>9, ConcatSet
      <3>11. queue' = r \o rreq
        BY <2>1, <3>5, <3>8
      <3>12. ToSet(r) = ToSet(q) \cup ReverseOf(Dep, t)
        BY <3>3, <3>7, <3>8
      <3>13. ToSet(queue) = {t} \cup ToSet(q)
        BY <2>3, <3>5
      <3> QED
        BY <3>10, <3>11, <3>12, <3>13
    <2>5. t # Root => t \in Others /\ done[t] = 0
      BY <1>1, <1>3, <2>3 DEF IInv, RunInv, VisitedSorted, Others
    <2>6. t = Root => isDone /\ done' = done /\ since = done[Root]
      <3>1. ASSUME t = Root PROVE fresh /\ since = done[Root] /\ done[Root] # 0
        <4>1. DepOf(t) = {} /\ ParamOf(t) = {}
          BY <3>1, Table, TableAssumption
        <4>2. done[Root] = mark[Root] /\ mark[Root] # 0
          BY <1>1 DEF IInv, RunInv, DiskInv, Called, NumberThere
        <4> QED
          BY <3>1, <4>1, <4>2 DEF OutOfDate
      <3>2. done \in [Tasks -> Nat]
        BY DEF IInv, RunInv, DriverTypes
      <3> QED
        BY <2>2, <2>3, <3>1, <3>2
    <2>7. t # Root => since = mark[t]
      OBVIOUS
    <2>8. fresh => /\ \A d \in DepOf(t) : done[d] # 0 /\ (since # 0 => ~(done[d] > since))
                   /\ ParamOf(t) \cap diff = {}
      BY DEF OutOfDate
    <2> HIDE DEF fresh, since
    <2>9. /\ done \in [Tasks -> Nat] /\ mark \in [Tasks -> Nat]
          /\ \A d \in Tasks : mark[d] <= clock
          /\ clock \in Nat
      BY DEF IInv, RunInv, DriverTypes, DiskInv, DiskTypes
    <2>10. /\ done' \in [Tasks -> Nat]
           /\ done'[t] = (IF isDone THEN since ELSE 0)
           /\ \A d \in Tasks : d # t => done'[d] = done[d]
           /\ \A d \in Tasks : done[d] # 0 => done'[d] = done[d]
      <3>1. since \in Nat
        BY <2>3, <2>6, <2>7, <2>9
      <3>2. \A d \in Tasks : d # t => done'[d] = done[d]
        BY <2>2, <2>9
      <3>3. \A d \in Tasks : done[d] # 0 => done'[d] = done[d]
        BY <2>5, <2>6, <3>2
      <3> QED
        BY <2>2, <2>3, <2>9, <3>1, <3>2, <3>3
    <2>11. \A u \in Tasks : DepOf(u) \subseteq Tasks
      BY Table
    <2>12. Written' = Written
      BY <1>1 DEF Written
    <2>13. JobsListed'
      BY <1>1 DEF IInv, DiskInv, JobsListed, HasFiles
    <2>14. DiskInv'
      BY <1>1, <2>12, <2>13, DiskKept DEF IInv, disk
    <2>15. t # Root /\ isDone => Kept(t)
      <3>1. SUFFICES ASSUME t # Root, isDone, ~recover PROVE FALSE
        BY <2>8 DEF Kept
      <3>2. t \in Others /\ \A u \in Others : mark[u] < mark[Root]
        BY <1>1, <2>5, <3>1 DEF IInv, RunInv, KeptSame, Deciding
      <3>3. PICK d \in DepOf(t) : TRUE
        BY <3>2, RootBefore
      <3>4. d \in Tasks /\ done[d] # 0 /\ ~(done[d] > mark[t])
        BY <2>3, <2>7, <2>8, <2>11, <3>1, <3>3
      <3>5. CASE d = Root
        <4>1. done[Root] = mark[Root]
          BY <1>1 DEF IInv, RunInv, Called
        <4> QED
          BY <2>3, <2>9, <3>2, <3>4, <3>5, <4>1
      <3>6. CASE d # Root
        <4>1. Kept(d)
          BY <1>1, <3>4, <3>6 DEF IInv, RunInv, KeptSame, Deciding, Others
        <4> QED
          BY <3>1, <4>1 DEF Kept
      <3> QED
        BY <3>5, <3>6
    <2>16. /\ cleanup' \in Seq(Tasks)
           /\ ToSet(cleanup') \subseteq ToSet(cleanup) \cup {t}
           /\ ToSet(cleanup) \subseteq ToSet(cleanup')
           /\ t \in ToSet(cleanup') => ~isDone
           /\ ~isDone /\ ~resumes /\ HasFiles(t) => t \in ToSet(cleanup')
           /\ \A i, j \in DOMAIN cleanup' : cleanup'[i] = cleanup'[j] => i = j
      <3>1. /\ cleanup \in Seq(Tasks) /\ t \notin ToSet(cleanup)
            /\ \A i, j \in DOMAIN cleanup : cleanup[i] = cleanup[j] => i = j
        BY <1>1, <1>3 DEF IInv, RunInv, DriverTypes, VisitedSorted, CleanupRight
      <3>2. /\ Append(cleanup, t) \in Seq(Tasks)
            /\ ToSet(Append(cleanup, t)) = ToSet(cleanup) \cup {t}
        BY <2>3, <3>1, AppendSet
      <3>3. \A i, j \in DOMAIN Append(cleanup, t) :
                Append(cleanup, t)[i] = Append(cleanup, t)[j] => i = j
        BY <2>3, <3>1, AppendDistinct
      <3>4. CASE ~isDone /\ ~resumes /\ HasFiles(t)
        BY <2>2, <3>1, <3>2, <3>3, <3>4
      <3>5. CASE ~(~isDone /\ ~resumes /\ HasFiles(t))
        BY <2>2, <3>1, <3>5
      <3> QED
        BY <3>4, <3>5
    <2>17. DriverTypes'
      <3>1. \A d \in Tasks : done'[d] <= clock
        BY <2>3, <2>6, <2>7, <2>9, <2>10 DEF IInv, RunInv, DriverTypes
      <3>2. visited' \subseteq Tasks
        BY <2>2, <2>3 DEF IInv, RunInv, DriverTypes
      <3> QED
        BY <1>1, <2>4, <2>10, <2>16, <3>1, <3>2 DEF IInv, RunInv, DriverTypes
    <2>18. Called'
      <3>1. done'[Root] = done[Root]
        BY <2>6, <2>10, Table
      <3> QED
        BY <1>1, <3>1 DEF IInv, RunInv, Called
    <2>19. DoneLinked'
      <3>1. SUFFICES ASSUME NEW u \in Others, done'[u] # 0
                     PROVE  done'[u] = mark[u] /\ \A d \in DepOf(u) : done'[d] # 0 /\ done'[d] <= done'[u]
        BY <1>1 DEF DoneLinked
      <3>2. u \in Tasks /\ DepOf(u) \subseteq Tasks
        BY <2>11 DEF Others
      <3>3. CASE u # t
        <4>1. done'[u] = done[u] /\ done[u] # 0
          BY <3>1, <3>2, <3>3, <2>10
        <4>2. done[u] = mark[u] /\ \A d \in DepOf(u) : done[d] # 0 /\ done[d] <= done[u]
          BY <1>1, <4>1 DEF IInv, RunInv, DoneLinked
        <4> QED
          BY <3>2, <4>1, <4>2, <2>10
      <3>4. CASE u = t
        <4>1. t # Root /\ isDone /\ done'[t] = mark[t] /\ since = mark[t] /\ since # 0
          BY <3>1, <3>4, <2>7, <2>10 DEF Others
        <4>2. \A d \in DepOf(t) : d \in Tasks /\ done[d] # 0 /\ ~(done[d] > mark[t])
          BY <3>2, <3>4, <4>1, <2>8
        <4>3. \A d \in DepOf(t) : done'[d] # 0 /\ done'[d] <= mark[t]
          BY <4>2, <2>3, <2>9, <2>10
        <4> QED
          BY <3>4, <4>1, <4>3
      <3> QED
        BY <3>3, <3>4
    <2>20. KeptSame'
      <3>1. \A u \in Others : done'[u] # 0 => Kept(u)
        <4>1. SUFFICES ASSUME NEW u \in Others, done'[u] # 0 PROVE Kept(u)
          OBVIOUS
        <4>2. CASE u = t
          BY <4>1, <4>2, <2>10, <2>15 DEF Others
        <4>3. CASE u # t
          BY <1>1, <4>1, <4>3, <2>10 DEF IInv, RunInv, KeptSame, Deciding, Others
        <4> QED
          BY <4>2, <4>3
      <3> QED
        BY <1>1, <3>1 DEF IInv, RunInv, KeptSame, Deciding, Changed, Kept
    <2>21. VisitedSorted'
      <3>1. ASSUME NEW u \in visited' \ {Root} PROVE Sorted(u)'
        <4>1. CASE u = t
          <5>1. t \in Others /\ since = mark[t] /\ t \in Tasks
            BY <3>1, <4>1, <2>3, <2>5, <2>7
          <5>2. CASE isDone
            BY <4>1, <5>2, <2>10 DEF Sorted
          <5>3. CASE ~isDone /\ resumes
            <6>1. /\ t \in Resume /\ mark[t] = 0 /\ Kept(t)
                  /\ \A d \in DepOf(t) : d \in Tasks /\ done[d] # 0
              BY <5>1, <5>3, <2>8, <2>11 DEF Kept
            <6> QED
              BY <4>1, <6>1, <1>1, <2>10 DEF Sorted, Resumed, Kept
          <5>4. CASE ~isDone /\ ~resumes /\ HasFiles(t)
            BY <4>1, <5>4, <2>16 DEF Sorted
          <5>5. CASE ~HasFiles(t)
            <6>1. Gone(t)
              BY <1>1, <5>1, <5>5 DEF IInv, DiskInv, JobsListed, Gone, HasFiles
            <6> QED
              BY <4>1, <6>1, <1>1 DEF Sorted, Gone
          <5> QED
            BY <5>2, <5>3, <5>4, <5>5
        <4>2. CASE u # t
          <5>1. u \in visited \ {Root} /\ u \in Tasks /\ Sorted(u)
            BY <1>1, <3>1, <4>2, <2>2 DEF IInv, RunInv, VisitedSorted, DriverTypes
          <5>2. DepOf(u) \subseteq Tasks /\ ToSet(cleanup) \subseteq ToSet(cleanup')
            BY <5>1, <2>11, <2>16
          <5> QED
            BY <5>1, <5>2, <1>1, <2>10 DEF Sorted, Resumed, Kept, Gone
        <4> QED
          BY <4>1, <4>2
      <3>2. \A u \in Others \ visited' : done'[u] = 0
        BY <1>1, <2>2, <2>10 DEF IInv, RunInv, VisitedSorted, Others
      <3>3. visited \cup ToSet(queue) \subseteq visited' \cup ToSet(queue')
        BY <2>2, <2>4
      <3>4. Root \in visited' \cup ToSet(queue')
        BY <1>1, <3>3 DEF IInv, RunInv, VisitedSorted
      <3>5. ASSUME NEW u \in visited' PROVE ReverseOf(Dep, u) \subseteq visited' \cup ToSet(queue')
        <4>1. CASE u = t
          BY <4>1, <2>2, <2>4
        <4>2. CASE u # t
          BY <1>1, <3>5, <4>2, <2>2, <3>3 DEF IInv, RunInv, VisitedSorted
        <4> QED
          BY <4>1, <4>2
      <3>6. ToSet(cleanup') \subseteq visited'
        BY <1>1, <2>2, <2>16 DEF IInv, RunInv, VisitedSorted
      <3> QED
        BY <1>1, <3>1, <3>2, <3>4, <3>5, <3>6 DEF VisitedSorted
    <2>22. CleanupRight'
      <3>1. ASSUME NEW u \in ToSet(cleanup') PROVE u # Root /\ done'[u] = 0
        <4>1. CASE u = t
          BY <3>1, <4>1, <2>6, <2>10, <2>16
        <4>2. CASE u # t
          <5>1. u \in ToSet(cleanup) /\ u \in Tasks
            BY <1>1, <3>1, <4>2, <2>16 DEF IInv, RunInv, VisitedSorted, DriverTypes
          <5>2. u # Root /\ done[u] = 0
            BY <1>1, <5>1 DEF IInv, RunInv, CleanupRight, Deciding
          <5> QED
            BY <4>2, <5>1, <5>2, <2>10
        <4> QED
          BY <4>1, <4>2
      <3> QED
        BY <3>1, <2>16 DEF CleanupRight
    <2>23. CleanedUp' /\ BodyRight' /\ FilteredRight'
      BY <1>1 DEF CleanedUp, BodyRight, FilteredRight, Running
    <2> QED
      BY <2>14, <2>17, <2>18, <2>19, <2>20, <2>21, <2>22, <2>23 DEF IInv, RunInv
  <1> QED
    BY <1>2, <1>3

-----------------------------------------------------------------------------
(* The files are cleaned up.                                               *)

\* What remains of the files is still right when those of one task go.
LEMMA CleanDisk ==
    ASSUME IInv, NEW x \in Others, pc \in {"clean", "clean2"}, pc' \in {"clean", "clean2"},
           mark' = mark \/ mark' = [mark EXCEPT ![x] = 0],
           UNCHANGED <<out, prov>> \/ Removed(x),
           jobs' = jobs \/ jobs' = [jobs EXCEPT ![x] = {}],
           UNCHANGED <<nfile, pfile, clock, pace, param>>, JobsListed'
    PROVE  DiskInv'
  <1>1. x \in Tasks /\ x # Root
    BY DEF Others
  <1>2. /\ mark \in [Tasks -> Nat] /\ out \in [Tasks -> {"none", "part", "whole"}]
        /\ prov \in [Tasks -> SUBSET Facts] /\ jobs \in [Tasks -> SUBSET SUBSET Facts]
        /\ clock \in Nat /\ \A t \in Tasks : mark[t] <= clock
    BY DEF IInv, DiskInv, DiskTypes
  <1>3. /\ mark' \in [Tasks -> Nat] /\ \A t \in Tasks : t # x => mark'[t] = mark[t]
        /\ mark'[x] \in {0, mark[x]}
    BY <1>1, <1>2
  <1>4. /\ out' \in [Tasks -> {"none", "part", "whole"}] /\ prov' \in [Tasks -> SUBSET Facts]
        /\ \A t \in Tasks : t # x => out'[t] = out[t] /\ prov'[t] = prov[t]
        /\ \/ out'[x] = out[x] /\ prov'[x] = prov[x]
           \/ out'[x] = "none" /\ prov'[x] = {}
    BY <1>1, <1>2 DEF Removed
  <1>5. jobs' \in [Tasks -> SUBSET SUBSET Facts] /\ \A t \in Tasks : jobs'[t] \subseteq jobs[t]
    BY <1>1, <1>2
  <1>6. \A t \in Tasks : LinkedBy(mark', t) => LinkedBy(mark, t)
    BY <1>2, LinkedLess
  <1>7. Written' = Written
    BY DEF Written
  <1>8. DiskTypes'
    <2>1. \A t \in Tasks : mark'[t] <= clock
      BY <1>1, <1>2, <1>3
    <2> QED
      BY <1>3, <1>4, <1>5, <2>1 DEF IInv, DiskInv, DiskTypes
  <1>9. NumberThere'
    BY <1>1, <1>3, <1>4, Table DEF IInv, DiskInv, NumberThere
  <1>10. ParametersThere'
    <2>1. Blank => Blank'
      BY <1>3, <1>4, <1>5 DEF Blank, Others
    <2> QED
      BY <2>1 DEF IInv, DiskInv, ParametersThere
  <1>11. NoFilesNoFacts'
    BY <1>4 DEF IInv, DiskInv, NoFilesNoFacts, Others
  <1>12. MarkedRight'
    <2>1. SUFFICES ASSUME NEW t \in Others, mark'[t] # 0, out'[t] = "whole", LinkedBy(mark', t)
                   PROVE  prov'[t] = Whole(t, nfile, Written)
      BY <1>7 DEF MarkedRight, Linked
    <2>2. /\ t \in Tasks /\ mark[t] # 0 /\ out[t] = "whole" /\ prov'[t] = prov[t]
          /\ LinkedBy(mark, t)
      BY <2>1, <1>3, <1>4, <1>6 DEF Others
    <2> QED
      BY <2>2 DEF IInv, DiskInv, MarkedRight, Linked
  <1>13. BatchesRight'
    <2>1. SUFFICES ASSUME NEW t \in Resume, NEW b \in Batches(t)'
                   PROVE  IF DepOf(t) = {Root}
                          THEN \E k \in Numbers : b = Whole(t, k, Written)
                          ELSE (\A d \in DepOf(t) : LinkedBy(mark', d)) =>
                                   b = Whole(t, nfile, Written)
      BY <1>7 DEF BatchesRight, Linked
    <2>2. t \in Tasks /\ DepOf(t) \subseteq Tasks
      BY TableAssumption, Table
    <2>3. b \in Batches(t)
      BY <2>2, <1>4, <1>5 DEF Batches
    <2> QED
      BY <2>2, <2>3, <1>6 DEF IInv, DiskInv, BatchesRight, Linked
  <1> QED
    BY <1>8, <1>9, <1>10, <1>11, <1>12, <1>13 DEF DiskInv

\* So is what the driver decided, when that task is one to clean up.
LEMMA CleanRun ==
    ASSUME IInv, NEW x \in Others, done[x] = 0,
           pc \in {"clean", "clean2"}, pc' \in {"clean", "clean2"},
           mark' = mark \/ mark' = [mark EXCEPT ![x] = 0],
           UNCHANGED <<nfile, pfile, clock, config, done, queue, visited, answer, stack, dupPurge>>,
           cleanup' \in Seq(Tasks), ToSet(cleanup') \subseteq ToSet(cleanup),
           pc' = "clean2" => cleanup' # <<>>,
           \A i, j \in DOMAIN cleanup' : cleanup'[i] = cleanup'[j] => i = j,
           \A t \in Others : Sorted(t) => Sorted(t)'
    PROVE  RunInv'
  <1> USE DEF config
  <1>1. x \in Tasks /\ x # Root
    BY DEF Others
  <1>2. mark \in [Tasks -> Nat]
    BY DEF IInv, DiskInv, DiskTypes
  <1>3. /\ mark' \in [Tasks -> Nat] /\ mark'[Root] = mark[Root]
        /\ \A t \in Others : mark'[t] \in {0, mark[t]}
        /\ \A t \in Others : done[t] # 0 => mark'[t] = mark[t]
    BY <1>1, <1>2, Table DEF Others
  <1>4. DriverTypes'
    BY DEF IInv, RunInv, DriverTypes, Pcs
  <1>5. Called' /\ DoneLinked'
    BY <1>3 DEF IInv, RunInv, Called, DoneLinked
  <1>6. KeptSame'
    <2>1. ~recover => \A t \in Others : mark'[t] < mark'[Root]
      <3>1. SUFFICES ASSUME ~recover, NEW t \in Others PROVE mark'[t] < mark'[Root]
        OBVIOUS
      <3>2. mark[t] < mark[Root] /\ mark[t] \in Nat /\ mark[Root] \in Nat
        BY <3>1, <1>2, Table DEF IInv, RunInv, KeptSame, Deciding, Others
      <3> QED
        BY <3>2, <1>3
    <2> QED
      BY <2>1 DEF IInv, RunInv, KeptSame, Deciding, Changed, Kept
  <1>7. VisitedSorted'
    BY DEF IInv, RunInv, VisitedSorted
  <1>8. CleanupRight'
    BY DEF IInv, RunInv, CleanupRight, Deciding
  <1>9. CleanedUp' /\ BodyRight' /\ FilteredRight'
    BY DEF CleanedUp, BodyRight, FilteredRight, Running
  <1> QED
    BY <1>4, <1>5, <1>6, <1>7, <1>8, <1>9 DEF RunInv

\* The first files of a task go, or its done file does.
LEMMA CleanFirstInv ==
    ASSUME IInv, Sheltered, CleanFirst
    PROVE  IInv'
  <1> DEFINE x == Head(cleanup)
  <1>1. /\ pc = "clean" /\ cleanup # <<>> /\ answer # "l"
    BY DEF IInv, RunInv, DriverTypes, Sheltered, CleanFirst
  <1>2. /\ pc' = "clean2" /\ cleanup' = cleanup
        /\ mark' = mark \/ mark' = [mark EXCEPT ![x] = 0]
        /\ UNCHANGED <<out, prov>> \/ Removed(x)
        /\ UNCHANGED <<nfile, pfile, jobs, config, done, queue, visited, answer, stack, dupPurge,
                       clock, pace>>
    BY <1>1 DEF CleanFirst, world
  <1>3. x \in ToSet(cleanup) /\ cleanup \in Seq(Tasks) /\ x \in Tasks
    BY <1>1, FirstAndRest DEF IInv, RunInv, DriverTypes
  <1>4. x \in Others /\ done[x] = 0
    BY <1>1, <1>3 DEF IInv, RunInv, CleanupRight, Deciding, Others
  <1> HIDE DEF x
  <1>5. /\ mark \in [Tasks -> Nat] /\ out \in [Tasks -> {"none", "part", "whole"}]
        /\ prov \in [Tasks -> SUBSET Facts]
    BY DEF IInv, DiskInv, DiskTypes
  <1>6. /\ \A t \in Tasks : t # x => mark'[t] = mark[t] /\ out'[t] = out[t]
        /\ mark'[x] \in {0, mark[x]} /\ out'[x] \in {"none", out[x]}
    BY <1>2, <1>3, <1>5 DEF Removed
  <1>7. JobsListed'
    <2>1. SUFFICES ASSUME NEW t \in Tasks
                   PROVE  /\ t \notin Dist => jobs[t] = {}
                          /\ mark'[t] # 0 => jobs[t] = {}
                          /\ jobs[t] # {} => HasFiles(t)' \/ t = x
      BY <1>1, <1>2 DEF JobsListed, x
    <2>2. /\ t \notin Dist => jobs[t] = {}
          /\ mark[t] # 0 => jobs[t] = {}
          /\ jobs[t] # {} => HasFiles(t)
      BY <1>1 DEF IInv, DiskInv, JobsListed
    <2> QED
      BY <2>2, <1>6 DEF HasFiles
  <1>8. DiskInv'
    BY <1>1, <1>2, <1>4, <1>7, CleanDisk DEF config
  <1>9. \A t \in Others : Sorted(t) => Sorted(t)'
    BY <1>2, <1>6 DEF Sorted, Resumed, Kept, Gone, Others, config
  <1>10. \A i, j \in DOMAIN cleanup' : cleanup'[i] = cleanup'[j] => i = j
    BY <1>2 DEF IInv, RunInv, CleanupRight
  <1>11. RunInv'
    BY <1>1, <1>2, <1>3, <1>4, <1>9, <1>10, CleanRun
  <1> QED
    BY <1>8, <1>11 DEF IInv

\* A tail repeats nothing that the sequence does not repeat.
LEMMA TailDistinct ==
    ASSUME NEW s \in Seq(Tasks), s # <<>>, \A i, j \in DOMAIN s : s[i] = s[j] => i = j
    PROVE  \A i, j \in DOMAIN Tail(s) : Tail(s)[i] = Tail(s)[j] => i = j
  <1>1. /\ Len(s) \in Nat \ {0} /\ DOMAIN s = 1 .. Len(s)
        /\ DOMAIN Tail(s) = 1 .. (Len(s) - 1)
        /\ \A i \in DOMAIN Tail(s) : Tail(s)[i] = s[i + 1]
    BY EmptySeq, LenProperties, HeadTailProperties
  <1>2. SUFFICES ASSUME NEW i \in DOMAIN Tail(s), NEW j \in DOMAIN Tail(s), Tail(s)[i] = Tail(s)[j]
                 PROVE  i = j
    OBVIOUS
  <1>3. i + 1 \in DOMAIN s /\ j + 1 \in DOMAIN s /\ i \in Int /\ j \in Int
    BY <1>1
  <1>4. s[i + 1] = s[j + 1]
    BY <1>1, <1>2
  <1>5. i + 1 = j + 1
    BY <1>3, <1>4
  <1> QED
    BY <1>3, <1>5

\* The rest of its files go, and its jobs.
LEMMA CleanRestInv ==
    ASSUME IInv, CleanRest
    PROVE  IInv'
  <1> DEFINE x == Head(cleanup)
  <1>1. /\ pc = "clean2" /\ pc' = "clean" /\ cleanup' = Tail(cleanup)
        /\ Removed(x) /\ mark' = [mark EXCEPT ![x] = 0]
        /\ jobs' = IF x \in Dist THEN [jobs EXCEPT ![x] = {}] ELSE jobs
        /\ UNCHANGED <<nfile, pfile, config, done, queue, visited, answer, stack, dupPurge,
                       clock, pace>>
    BY DEF CleanRest, world
  <1>2. cleanup # <<>>
    BY <1>1 DEF IInv, RunInv, VisitedSorted
  <1>3. /\ cleanup \in Seq(Tasks) /\ x \in Tasks /\ Tail(cleanup) \in Seq(Tasks)
        /\ ToSet(cleanup) = {x} \cup ToSet(Tail(cleanup))
    BY <1>2, FirstAndRest DEF IInv, RunInv, DriverTypes
  <1>4. x \in Others /\ done[x] = 0
    BY <1>1, <1>3 DEF IInv, RunInv, CleanupRight, Deciding, Others
  <1>5. /\ mark \in [Tasks -> Nat] /\ out \in [Tasks -> {"none", "part", "whole"}]
        /\ prov \in [Tasks -> SUBSET Facts] /\ jobs \in [Tasks -> SUBSET SUBSET Facts]
    BY DEF IInv, DiskInv, DiskTypes
  <1>6. \A i, j \in DOMAIN cleanup' : cleanup'[i] = cleanup'[j] => i = j
    <2>1. \A i, j \in DOMAIN cleanup : cleanup[i] = cleanup[j] => i = j
      BY DEF IInv, RunInv, CleanupRight
    <2> QED
      BY <1>1, <1>2, <1>3, <2>1, TailDistinct
  <1>7. cleanup' \in Seq(Tasks) /\ ToSet(cleanup) = {x} \cup ToSet(cleanup')
    BY <1>1, <1>3
  <1>8. \A t \in Tasks : jobs[t] # {} => t \in Dist /\ (HasFiles(t) \/ t = x)
    BY <1>1, <1>2 DEF IInv, DiskInv, JobsListed
  <1> HIDE DEF x
  <1>9. /\ \A t \in Tasks : t # x => mark'[t] = mark[t] /\ out'[t] = out[t] /\ jobs'[t] = jobs[t]
        /\ mark'[x] = 0 /\ out'[x] = "none" /\ jobs'[x] = {}
    BY <1>1, <1>3, <1>5, <1>8 DEF Removed
  <1>10. JobsListed'
    <2>1. SUFFICES ASSUME NEW t \in Tasks
                   PROVE  /\ t \notin Dist => jobs'[t] = {}
                          /\ mark'[t] # 0 => jobs'[t] = {}
                          /\ jobs'[t] # {} => HasFiles(t)'
      BY DEF JobsListed
    <2>2. mark[t] # 0 => jobs[t] = {}
      BY DEF IInv, DiskInv, JobsListed
    <2> QED
      BY <2>2, <1>8, <1>9 DEF HasFiles
  <1>11. DiskInv'
    BY <1>1, <1>4, <1>10, CleanDisk DEF config
  <1>12. \A t \in Others : Sorted(t) => Sorted(t)'
    <2>1. SUFFICES ASSUME NEW t \in Others, Sorted(t) PROVE Sorted(t)'
      OBVIOUS
    <2>2. CASE t = x
      BY <2>2, <1>9 DEF Sorted, Gone
    <2>3. CASE t # x
      BY <2>1, <2>3, <1>1, <1>7, <1>9 DEF Sorted, Resumed, Kept, Gone, Others, config
    <2> QED
      BY <2>2, <2>3
  <1>13. RunInv'
    BY <1>1, <1>4, <1>6, <1>7, <1>12, CleanRun
  <1> QED
    BY <1>11, <1>13 DEF IInv

-----------------------------------------------------------------------------
(* The parameter file is written.                                          *)

\* A task whose parameters were found unchanged, and what it depends on done,
\* has the same facts with the old parameters and with the new ones.
LEMMA KeptWhole ==
    ASSUME IInv, pc = "param", NEW t \in Others, Kept(t), ~Blank,
           \A d \in DepOf(t) : done[d] # 0, NEW m
    PROVE  Whole(t, m, pfile) = Whole(t, m, param)
  <1>1. ASSUME NEW u \in Others, Kept(u) PROVE \A p \in ParamOf(u) : pfile[p] = param[p]
    <2>1. /\ recover /\ diff = Changed(param) /\ \A p \in Params : pfile[p] # Absent
          /\ ParamOf(u) \cap diff = {}
      BY <1>1 DEF IInv, RunInv, KeptSame, Deciding, DiskInv, ParametersThere, Kept
    <2> QED
      BY <2>1 DEF Changed, ParamOf
  <1>2. /\ done \in [Tasks -> Nat] /\ mark \in [Tasks -> Nat] /\ done[Root] = mark[Root]
        /\ done[Root] # 0
        /\ \A u \in Others : done[u] # 0 =>
              done[u] = mark[u] /\ \A d \in DepOf(u) : done[d] # 0 /\ done[d] <= done[u]
    BY DEF IInv, RunInv, DriverTypes, DiskInv, DiskTypes, Called, DoneLinked, NumberThere
  <1>3. ASSUME NEW u \in Ancestors[t] PROVE \A p \in ParamOf(u) : pfile[p] = param[p]
    <2>1. t \in Tasks /\ u \in Tasks /\ DepOf(t) \subseteq Tasks
      BY AncestorsClosed, Table DEF Others
    <2>2. CASE u = Root
      BY <2>2, TableAssumption
    <2>3. CASE u = t
      BY <2>3, <1>1
    <2>4. CASE u # t /\ u # Root
      <3>1. PICK d \in DepOf(t) : u \in Ancestors[d]
        BY <2>1, <2>4, AncestorsStep
      <3>2. d \in Tasks /\ done[d] # 0
        BY <2>1, <3>1
      <3>3. done[u] # 0
        BY <1>2, <3>1, <3>2, DoneBefore
      <3>4. u \in Others
        BY <2>1, <2>4 DEF Others
      <3>5. Kept(u)
        BY <3>3, <3>4 DEF IInv, RunInv, KeptSame, Deciding
      <3> QED
        BY <3>4, <3>5, <1>1
    <2> QED
      BY <2>2, <2>3, <2>4
  <1> QED
    BY <1>3, WholeSame DEF Others

\* From here the new parameters count: what is kept does not depend on those that differ.
LEMMA WriteParamOpenInv ==
    ASSUME IInv, WriteParamOpen
    PROVE  IInv'
  <1> USE DEF config, search, world
  <1>1. /\ pc = "param" /\ pc' = "param2" /\ pfile' = [p \in Params |-> Absent]
        /\ UNCHANGED <<nfile, mark, out, prov, jobs, config, done, search, stack, dupPurge, world>>
    BY DEF WriteParamOpen
  <1>2. Written = pfile /\ Written' = param
    BY <1>1 DEF Written
  <1>3. ToSet(cleanup) = {} /\ \A t \in Others : Sorted(t)
    BY <1>1 DEF IInv, RunInv, VisitedSorted, ToSet
  <1>4. \A t \in Others : done[t] # 0 =>
            done[t] = mark[t] /\ Kept(t) /\ \A d \in DepOf(t) : done[d] # 0
    BY <1>1 DEF IInv, RunInv, DoneLinked, KeptSame, Deciding
  <1>5. ASSUME NEW t \in Others, ~Gone(t)
        PROVE  /\ Kept(t) /\ \A d \in DepOf(t) : done[d] # 0
               /\ done[t] = mark[t] \/ (t \in Resume /\ mark[t] = 0)
               /\ \A m : Whole(t, m, pfile) = Whole(t, m, param)
    <2>1. /\ Kept(t) /\ \A d \in DepOf(t) : done[d] # 0
          /\ done[t] = mark[t] \/ (t \in Resume /\ mark[t] = 0)
      BY <1>3, <1>4, <1>5 DEF Sorted, Resumed
    <2>2. ~Blank
      BY <1>5 DEF Blank, Gone
    <2> QED
      BY <1>1, <2>1, <2>2, KeptWhole
  <1>6. /\ done \in [Tasks -> Nat] /\ mark \in [Tasks -> Nat] /\ done[Root] = mark[Root]
        /\ done[Root] # 0 /\ pc # "off" /\ nfile # NoNumber
        /\ \A u \in Others : done[u] # 0 =>
              done[u] = mark[u] /\ \A d \in DepOf(u) : done[d] # 0 /\ done[d] <= done[u]
    BY <1>1 DEF IInv, RunInv, DriverTypes, DiskInv, DiskTypes, Called, DoneLinked, NumberThere
  <1>7. \A t \in Tasks : done[t] # 0 => LinkedBy(mark, t)
    BY <1>6, DoneBefore
  <1>8. DiskTypes'
    BY <1>1 DEF IInv, DiskInv, DiskTypes
  <1>9. NumberThere' /\ NoFilesNoFacts' /\ ParametersThere'
    BY <1>1, <1>6 DEF IInv, DiskInv, NumberThere, NoFilesNoFacts, ParametersThere
  <1>10. JobsListed'
    BY <1>1 DEF IInv, DiskInv, JobsListed, HasFiles
  <1>11. MarkedRight'
    <2>1. SUFFICES ASSUME NEW t \in Others, mark[t] # 0, out[t] = "whole", LinkedBy(mark, t)
                   PROVE  prov[t] = Whole(t, nfile, param)
      BY <1>1, <1>2 DEF MarkedRight, Linked
    <2>2. prov[t] = Whole(t, nfile, pfile) /\ ~Gone(t)
      BY <2>1, <1>2 DEF IInv, DiskInv, MarkedRight, Linked, Gone
    <2> QED
      BY <2>2, <1>5
  <1>12. BatchesRight'
    <2>1. SUFFICES ASSUME NEW t \in Resume, NEW b \in Batches(t)
                   PROVE  IF DepOf(t) = {Root}
                          THEN \E k \in Numbers : b = Whole(t, k, param)
                          ELSE (\A d \in DepOf(t) : LinkedBy(mark, d)) => b = Whole(t, nfile, param)
      BY <1>1, <1>2 DEF BatchesRight, Batches, Linked
    <2>2. t \in Others /\ ~Gone(t)
      BY TableAssumption DEF Batches, Gone, Others
    <2>3. IF DepOf(t) = {Root}
          THEN \E k \in Numbers : b = Whole(t, k, pfile)
          ELSE (\A d \in DepOf(t) : LinkedBy(mark, d)) => b = Whole(t, nfile, pfile)
      BY <1>2 DEF IInv, DiskInv, BatchesRight, Linked
    <2> QED
      BY <2>2, <2>3, <1>5
  <1>13. DriverTypes' /\ Called' /\ DoneLinked'
    BY <1>1 DEF IInv, RunInv, DriverTypes, Pcs, Called, DoneLinked
  <1>14. KeptSame' /\ VisitedSorted' /\ BodyRight' /\ CleanupRight'
    BY <1>1 DEF IInv, RunInv, KeptSame, VisitedSorted, BodyRight, CleanupRight, Deciding
  <1>15. CleanedUp'
    <2>1. \A t \in Others : done[t] = mark[t]
      <3>1. SUFFICES ASSUME NEW t \in Others, done[t] = 0 PROVE mark[t] = 0
        BY <1>4
      <3> QED
        BY <3>1, <1>3 DEF Sorted, Resumed, Gone
    <2>2. \A t \in Others : done[t] = 0 /\ out[t] # "none" =>
              t \in Resume /\ \A d \in DepOf(t) : done[d] # 0
      BY <1>3 DEF Sorted, Resumed, Gone
    <2>3. \A t \in Resume : jobs[t] # {} => \A d \in DepOf(t) : done[d] # 0
      BY <1>5, TableAssumption DEF Gone, Others
    <2> QED
      BY <1>1, <1>2, <2>1, <2>2, <2>3 DEF CleanedUp
  <1>16. FilteredRight'
    <2>1. ~dupPurge
      BY <1>1 DEF IInv, RunInv, KeptSame, Deciding
    <2> QED
      BY <1>1, <2>1 DEF FilteredRight, Filtered
  <1> QED
    BY <1>8, <1>9, <1>10, <1>11, <1>12, <1>13, <1>14, <1>15, <1>16 DEF IInv, DiskInv, RunInv

\* The file now holds them all, none being false.
LEMMA WriteParamCloseInv ==
    ASSUME IInv, Sheltered, WriteParamClose
    PROVE  IInv'
  <1> USE DEF config, search, world
  <1>1. /\ pc = "param2" /\ pc' = "task" /\ stack' = <<Target>>
        /\ pfile' = [p \in Params |-> IF param[p] = 0 THEN Absent ELSE param[p]]
        /\ UNCHANGED <<nfile, mark, out, prov, jobs, config, done, search, dupPurge, world>>
    BY DEF WriteParamClose
  <1>2. param \in [Params -> Nat] /\ param \in [Params -> Values] /\ \A p \in Params : param[p] # 0
    BY SettingValues, ValuesAssumption DEF IInv, RunInv, DriverTypes, Sheltered
  <1>3. pfile' = param
    BY <1>1, <1>2
  <1>4. Written' = Written /\ Written' = param
    BY <1>1, <1>3 DEF Written
  <1>5. \A p \in Params : param[p] # Absent
    BY <1>2 DEF Absent
  <1>6. DiskTypes'
    BY <1>1, <1>2, <1>3 DEF IInv, DiskInv, DiskTypes
  <1>7. NumberThere' /\ NoFilesNoFacts' /\ ParametersThere'
    BY <1>1, <1>3, <1>5 DEF IInv, DiskInv, NumberThere, NoFilesNoFacts, ParametersThere
  <1>8. JobsListed'
    BY <1>1 DEF IInv, DiskInv, JobsListed, HasFiles
  <1>9. MarkedRight' /\ BatchesRight'
    BY <1>1, <1>4 DEF IInv, DiskInv, MarkedRight, BatchesRight, Linked, Batches
  <1>10. DriverTypes' /\ Called' /\ DoneLinked'
    <2>1. <<Target>> \in Seq(Tasks)
      BY Table
    <2> QED
      BY <1>1, <2>1 DEF IInv, RunInv, DriverTypes, Pcs, Called, DoneLinked
  <1>11. KeptSame' /\ VisitedSorted' /\ BodyRight' /\ CleanupRight'
    BY <1>1 DEF IInv, RunInv, KeptSame, VisitedSorted, BodyRight, CleanupRight, Deciding
  <1>12. CleanedUp' /\ FilteredRight'
    BY <1>1, <1>4 DEF IInv, RunInv, CleanedUp, FilteredRight, Running, Filtered, AtWork
  <1> QED
    BY <1>6, <1>7, <1>8, <1>9, <1>10, <1>11, <1>12 DEF IInv, DiskInv, RunInv

-----------------------------------------------------------------------------
(* do_task.                                                                *)

\* While tasks are done, the files are those of the present number and
\* parameters, and the done fields say what the done files say.
LEMMA WorkFacts ==
    ASSUME IInv, Working
    PROVE  /\ mark \in [Tasks -> Nat] /\ done \in [Tasks -> Nat] /\ done[Root] = mark[Root]
           /\ done[Root] # 0 /\ nfile = n /\ nfile # NoNumber /\ n \in Numbers
           /\ Written = param /\ pfile = param
           /\ prov[Root] = {NumberFact(n)}
           /\ \A t \in Others : done[t] = mark[t]
           /\ \A t \in Others : done[t] # 0 =>
                 done[t] = mark[t] /\ \A d \in DepOf(t) : done[d] # 0 /\ done[d] <= done[t]
  <1>1. pc # "off" /\ pc # "param2" /\ Running
    BY DEF Working, Running
  <1>2. nfile # NoNumber /\ prov[Root] = {NumberFact(nfile)} /\ mark[Root] # 0
    BY <1>1 DEF IInv, DiskInv, NumberThere
  <1>3. /\ mark \in [Tasks -> Nat] /\ done \in [Tasks -> Nat] /\ n \in Numbers
        /\ nfile = n /\ done[Root] = mark[Root]
    BY <1>1 DEF IInv, DiskInv, DiskTypes, RunInv, DriverTypes, Called
  <1>4. Written = param /\ pfile = param
    BY <1>1 DEF IInv, RunInv, CleanedUp, Written
  <1> QED
    BY <1>1, <1>2, <1>3, <1>4 DEF IInv, RunInv, CleanedUp, DoneLinked

\* What is done is linked.
LEMMA WorkLinked ==
    ASSUME IInv, Working, NEW t \in Tasks, done[t] # 0
    PROVE  Linked(t)
  BY WorkFacts, DoneBefore DEF Linked

\* What is done and whole comes from what it should.
LEMMA DoneWhole ==
    ASSUME IInv, Working, NEW t \in Tasks, done[t] # 0, t = Root \/ out[t] = "whole"
    PROVE  prov[t] = Whole(t, n, param)
  <1>1. CASE t = Root
    BY <1>1, WorkFacts, WholeRoot
  <1>2. CASE t # Root
    <2>1. t \in Others /\ mark[t] # 0 /\ Linked(t)
      BY <1>2, WorkFacts, WorkLinked DEF Others
    <2>2. prov[t] = Whole(t, nfile, Written)
      BY <1>2, <2>1 DEF IInv, DiskInv, MarkedRight
    <2> QED
      BY <2>2, WorkFacts
  <1> QED
    BY <1>1, <1>2

\* A task that is done now is computed from what it should.
LEMMA InputsRight ==
    ASSUME IInv, Working, NEW t \in Others, \A d \in DepOf(t) : done[d] # 0,
           InputsWhole(t)
    PROVE  Inputs(t) = Whole(t, n, param)
  <1>1. \A d \in DepOf(t) : prov[d] = Whole(d, n, param)
    <2>1. SUFFICES ASSUME NEW d \in DepOf(t) PROVE prov[d] = Whole(d, n, param)
      OBVIOUS
    <2>2. d \in Tasks /\ done[d] # 0 /\ (d = Root \/ out[d] = "whole")
      BY Table DEF InputsWhole, Others
    <2> QED
      BY <2>2, DoneWhole
  <1>2. \A x : x \in Inputs(t) <=>
                  x \in Own(t, param) \/ \E d \in DepOf(t) : x \in Whole(d, n, param)
    BY <1>1 DEF Inputs, Needs, Own
  <1>3. \A x : x \in Inputs(t) <=> x \in Whole(t, n, param)
    BY <1>2, WholeStep
  <1> QED
    BY <1>3

\* What a resumable task goes on with, when it passes the check, is right.
LEMMA BatchRight ==
    ASSUME IInv, Working, NEW t \in Resume, \A d \in DepOf(t) : done[d] # 0,
           NEW b \in Batches(t), Needs(t) \subseteq b
    PROVE  b = Whole(t, n, param)
  <1>1. t \in Tasks /\ DepOf(t) \subseteq Tasks
    BY TableAssumption, Table
  <1>2. IF DepOf(t) = {Root}
        THEN \E m \in Numbers : b = Whole(t, m, param)
        ELSE (\A d \in DepOf(t) : Linked(d)) => b = Whole(t, n, param)
    BY WorkFacts DEF IInv, DiskInv, BatchesRight
  <1>3. CASE DepOf(t) = {Root}
    <2>1. PICK m \in Numbers : b = Whole(t, m, param)
      BY <1>2, <1>3
    <2>2. NumberFact(n) \in b
      BY <1>3, WorkFacts DEF Needs
    <2>3. n = m
      BY <1>1, <2>1, <2>2, WholeNumber
    <2> QED
      BY <2>1, <2>3
  <1>4. CASE DepOf(t) # {Root}
    BY <1>1, <1>2, <1>4, WorkLinked
  <1> QED
    BY <1>3, <1>4

\* As long as the sieve is not done, dup and purge are not.
LEMMA FilterUndone ==
    ASSUME IInv, Working, "sieve" \in Tasks, done["sieve"] = 0
    PROVE  /\ {"dup", "purge"} \subseteq Others \ Resume /\ "sieve" \in Dist /\ "sieve" \in Others
           /\ done["dup"] = 0 /\ done["purge"] = 0
  <1>1. /\ {"dup", "purge"} \subseteq Others \ Resume /\ "sieve" \in Dist
        /\ DepOf("dup") = {"sieve"} /\ DepOf("purge") = {"dup"}
    BY FilterAssumption DEF Others
  <1>2. "sieve" \in Others
    BY <1>1, TableAssumption DEF Others
  <1>3. done["dup"] = 0
    BY <1>1, WorkFacts
  <1>4. done["purge"] = 0
    BY <1>1, <1>3, WorkFacts
  <1> QED
    BY <1>1, <1>2, <1>3, <1>4

\* What a task writes does not disturb what is on disk: it only changes what
\* belongs to tasks that are not done, and what can be resumed is right.
LEMMA WorkDisk ==
    ASSUME IInv, Working, Working',
           UNCHANGED <<nfile, pfile, mark, clock, pace, param>>,
           out' \in [Tasks -> {"none", "part", "whole"}],
           prov' \in [Tasks -> SUBSET Facts],
           jobs' \in [Tasks -> SUBSET SUBSET Facts],
           \A t \in Tasks : done[t] # 0 => out'[t] = out[t] /\ prov'[t] = prov[t],
           \A t \in Others : out'[t] = "none" => prov'[t] = {},
           \A t \in Resume : \A b \in Batches(t)' : b \in Batches(t) \/ b = Whole(t, n, param),
           JobsListed'
    PROVE  DiskInv'
  <1>1. pc # "off" /\ pc # "param2" /\ pc' # "off" /\ pc' # "param2"
    BY DEF Working
  <1>2. Written' = param /\ Written = param
    BY <1>1, WorkFacts DEF Written
  <1>3. DiskTypes'
    BY DEF IInv, DiskInv, DiskTypes
  <1>4. NumberThere'
    BY <1>1, WorkFacts, Table DEF IInv, DiskInv, NumberThere
  <1>5. ParametersThere'
    <2>1. param \in [Params -> Nat]
      BY ValuesAssumption DEF IInv, RunInv, DriverTypes
    <2>2. \A p \in Params : pfile'[p] # Absent
      BY <2>1, WorkFacts DEF Absent
    <2> QED
      BY <1>1, <2>2 DEF ParametersThere
  <1>6. NoFilesNoFacts'
    BY DEF NoFilesNoFacts
  <1>7. MarkedRight'
    <2>1. SUFFICES ASSUME NEW t \in Others, mark[t] # 0, out'[t] = "whole"
                   PROVE  prov'[t] = Whole(t, nfile, param)
      BY <1>2 DEF MarkedRight, Linked
    <2>2. t \in Tasks /\ done[t] # 0
      BY <2>1, WorkFacts DEF Others
    <2>3. prov[t] = Whole(t, n, param)
      BY <2>1, <2>2, DoneWhole
    <2> QED
      BY <2>2, <2>3, WorkFacts
  <1>8. BatchesRight'
    <2>1. SUFFICES ASSUME NEW t \in Resume, NEW b \in Batches(t)'
                   PROVE  IF DepOf(t) = {Root}
                          THEN \E m \in Numbers : b = Whole(t, m, param)
                          ELSE (\A d \in DepOf(t) : LinkedBy(mark, d)) =>
                                   b = Whole(t, nfile, param)
      BY <1>2 DEF BatchesRight, Linked
    <2>2. CASE b = Whole(t, n, param)
      BY <2>2, WorkFacts
    <2>3. CASE b \in Batches(t)
      BY <2>3, <1>2 DEF IInv, DiskInv, BatchesRight, Linked
    <2> QED
      BY <2>2, <2>3
  <1> QED
    BY <1>3, <1>4, <1>5, <1>6, <1>7, <1>8 DEF DiskInv

\* Nor does it disturb what the driver knows.
LEMMA WorkRun ==
    ASSUME IInv, Working, Working',
           UNCHANGED <<nfile, mark, clock, config, done, search, stack>>,
           dupPurge' \in BOOLEAN, CleanedUp', BodyRight', FilteredRight'
    PROVE  RunInv'
  <1> USE DEF config, search
  <1>1. DriverTypes'
    BY DEF IInv, RunInv, DriverTypes, Pcs, Working
  <1>2. Called' /\ DoneLinked'
    BY DEF IInv, RunInv, Called, DoneLinked, Working
  <1>3. KeptSame' /\ VisitedSorted' /\ CleanupRight'
    BY DEF IInv, RunInv, KeptSame, VisitedSorted, CleanupRight, Deciding, Working
  <1> QED
    BY <1>1, <1>2, <1>3 DEF RunInv

\* When a task begins, what it depends on is done.
LEMMA ReadyFacts ==
    ASSUME IInv, NEW t \in Tasks, Ready(t)
    PROVE  /\ t \in Others /\ stack # <<>> /\ t = Top /\ done[t] = 0 /\ pc = "task"
           /\ \A d \in DepOf(t) : done[d] # 0
           /\ mark[t] = 0
  <1>1. /\ pc = "task" /\ stack # <<>> /\ t = Top /\ done[t] = 0 /\ Missing(t) = {}
    BY DEF Ready, AtTask
  <1>2. t \in Others /\ mark[t] = 0
    BY <1>1, WorkFacts DEF Others, Working
  <1>3. Dep[t] \in Seq(Tasks) /\ Req[t] \in Seq(Tasks)
    BY Table
  <1>4. ToSet(Dep[t]) \subseteq ToSet(Prerequisites(t))
    BY <1>3, ConcatSet DEF Prerequisites
  <1>5. \A d \in ToSet(Prerequisites(t)) : done[d] # 0
    BY <1>1 DEF Missing, ToSet
  <1> QED
    BY <1>1, <1>2, <1>4, <1>5 DEF DepOf

\* The type of what the steps below change.
LEMMA WorkTypes ==
    ASSUME IInv, Working
    PROVE  /\ out \in [Tasks -> {"none", "part", "whole"}]
           /\ prov \in [Tasks -> SUBSET Facts] /\ jobs \in [Tasks -> SUBSET SUBSET Facts]
           /\ \A t \in Tasks : Whole(t, n, param) \in SUBSET Facts
           /\ \A t \in Others : out[t] = "none" => prov[t] = {}
           /\ dupPurge \in BOOLEAN
           /\ Dist = Resume /\ Resume \subseteq Others /\ Others \subseteq Tasks
  <1>1. n \in Numbers /\ param \in Settings
    BY DEF IInv, RunInv, DriverTypes
  <1>2. param \in [Params -> Values]
    BY <1>1, SettingValues
  <1>3. \A t \in Tasks : Whole(t, n, param) \in SUBSET Facts
    BY <1>1, <1>2, WholeFacts
  <1> QED
    BY <1>3, TableAssumption DEF IInv, DiskInv, DiskTypes, NoFilesNoFacts, RunInv, DriverTypes,
                                 Others

\* What a cleaned up directory holds: the files of a task that is not done are
\* those of a resumable task, of the task at work or of the filtering.
LEMMA WorkClean ==
    ASSUME IInv, Working
    PROVE  /\ \A t \in Others : done[t] = 0 /\ out[t] # "none" =>
                 IF t \in Resume THEN \A d \in DepOf(t) : done[d] # 0 ELSE t \in Filtered \cup AtWork
           /\ \A t \in Resume : jobs[t] # {} => \A d \in DepOf(t) : done[d] # 0
           /\ dupPurge =>
                 /\ "sieve" \in Tasks /\ (done["sieve"] # 0 \/ (pc = "made" /\ Top = "sieve"))
                 /\ out["dup"] = "whole" /\ out["purge"] = "whole"
           /\ \A t \in Filtered : out[t] # "none" => prov[t] = Whole(t, n, param)
           /\ \A t \in Tasks :
                 /\ t \notin Dist => jobs[t] = {}
                 /\ mark[t] # 0 => jobs[t] = {}
                 /\ jobs[t] # {} => HasFiles(t) \/ (pc = "body" /\ stack # <<>> /\ t = Top)
  <1>1. Running /\ pc # "clean2"
    BY DEF Running, Working
  <1>2. \A t \in Tasks :
            /\ t \notin Dist => jobs[t] = {}
            /\ mark[t] # 0 => jobs[t] = {}
            /\ jobs[t] # {} => HasFiles(t) \/ (pc = "body" /\ stack # <<>> /\ t = Top)
    BY <1>1 DEF IInv, DiskInv, JobsListed, Top
  <1> QED
    BY <1>1, <1>2 DEF IInv, RunInv, CleanedUp, FilteredRight

\* dup and purge have nothing to do.
LEMMA BeginMadeInv ==
    ASSUME IInv, NEW t \in Tasks, Ready(t), dupPurge, t \in {"dup", "purge"}, pc' = "made",
           UNCHANGED <<out, prov, jobs, nfile, pfile, mark, config, done, search, stack, dupPurge,
                       world>>
    PROVE  IInv'
  <1>1. /\ t \in Others /\ stack # <<>> /\ t = Top /\ done[t] = 0 /\ pc = "task" /\ mark[t] = 0
        /\ \A d \in DepOf(t) : done[d] # 0
        /\ Working /\ Working'
    BY ReadyFacts DEF Working
  <1>2. JobsListed'
    BY <1>1, WorkClean DEF JobsListed, HasFiles
  <1>3. DiskInv'
    BY <1>1, <1>2, WorkTypes, WorkDisk DEF Batches, config, world
  <1>4. Top' = Top /\ Filtered' = Filtered /\ AtWork' = {Top} /\ AtWork = {} /\ Written' = Written
    BY <1>1 DEF Top, Filtered, AtWork, Written, config
  <1>5. CleanedUp'
    BY <1>1, <1>4, WorkFacts, WorkClean DEF CleanedUp, config
  <1>6. out[t] = "whole" /\ prov[t] = Whole(t, n, param) /\ jobs[t] = {}
    <2>1. t \in Filtered /\ out[t] = "whole" /\ "sieve" \in Tasks
      BY <1>1, WorkClean DEF Filtered
    <2>2. t \notin Dist
      BY <2>1, FilterAssumption, WorkTypes, <1>1
    <2> QED
      BY <1>1, <2>1, <2>2, WorkClean
  <1>7. BodyRight'
    BY <1>1, <1>4, <1>6 DEF BodyRight, config
  <1>8. FilteredRight'
    BY <1>1, <1>4, WorkClean DEF FilteredRight, config
  <1>9. RunInv'
    BY <1>1, <1>5, <1>7, <1>8, WorkTypes, WorkRun DEF world
  <1> QED
    BY <1>3, <1>9 DEF IInv

\* A task before it has no data: the driver dies.
LEMMA BeginOffInv ==
    ASSUME IInv, NEW t \in Tasks, Ready(t), pc' = "off",
           UNCHANGED <<out, prov, jobs, nfile, pfile, mark, config, done, search, stack, dupPurge,
                       world>>
    PROVE  IInv'
  <1>1. pc = "task" /\ Working
    BY ReadyFacts DEF Working
  <1>2. JobsListed'
    BY <1>1, WorkClean DEF JobsListed, HasFiles
  <1>3. Written' = Written
    BY <1>1 DEF Written
  <1>4. DiskInv'
    BY <1>1, <1>2, <1>3, DiskKept DEF IInv, disk, world
  <1>5. RunInv'
    BY <1>1, OffRun DEF IInv, RunInv, world
  <1> QED
    BY <1>4, <1>5 DEF IInv

\* A distributed task checks its files and starts jobs.
LEMMA BeginDistInv ==
    ASSUME IInv, NEW t \in Dist, Ready(t), InputsWhole(t), pc' = "body",
           jobs' = [jobs EXCEPT ![t] = @ \cup {Inputs(t)}],
           IF PassesCheck(t) THEN UNCHANGED <<out, prov>> ELSE Removed(t),
           UNCHANGED <<nfile, pfile, mark, config, done, search, stack, dupPurge, world>>
    PROVE  IInv'
  <1>1. t \in Tasks /\ t \in Resume
    BY TableAssumption
  <1>2. /\ t \in Others /\ stack # <<>> /\ t = Top /\ done[t] = 0 /\ pc = "task" /\ mark[t] = 0
        /\ \A d \in DepOf(t) : done[d] # 0
        /\ Working /\ Working'
    BY <1>1, ReadyFacts DEF Working
  <1>3. Inputs(t) = Whole(t, n, param)
    BY <1>2, InputsRight
  <1>4. PICK w \in SUBSET Facts : w = Whole(t, n, param)
    BY <1>1, <1>2, WorkTypes
  <1>5. /\ jobs' \in [Tasks -> SUBSET SUBSET Facts] /\ jobs'[t] = jobs[t] \cup {w}
        /\ \A u \in Tasks : u # t => jobs'[u] = jobs[u]
    BY <1>1, <1>2, <1>3, <1>4, WorkTypes
  <1>6. /\ out' \in [Tasks -> {"none", "part", "whole"}] /\ prov' \in [Tasks -> SUBSET Facts]
        /\ \A u \in Tasks : u # t => out'[u] = out[u] /\ prov'[u] = prov[u]
        /\ \/ PassesCheck(t) /\ out'[t] = out[t] /\ prov'[t] = prov[t]
           \/ out'[t] = "none" /\ prov'[t] = {}
    BY <1>1, <1>2, WorkTypes DEF Removed
  <1>7. out'[t] # "none" => prov'[t] = w
    <2>1. SUFFICES ASSUME out'[t] # "none" PROVE prov[t] = w
      BY <1>6
    <2>2. prov[t] \in Batches(t) /\ Needs(t) \subseteq prov[t]
      BY <2>1, <1>6 DEF Batches, PassesCheck
    <2> QED
      BY <2>2, <1>1, <1>2, <1>4, BatchRight
  <1>8. JobsListed'
    BY <1>1, <1>2, <1>5, <1>6, WorkClean DEF JobsListed, HasFiles, Top
  <1>9. DiskInv'
    <2>1. \A u \in Resume : \A b \in Batches(u)' : b \in Batches(u) \/ b = Whole(u, n, param)
      BY <1>2, <1>4, <1>5, <1>6, <1>7, WorkTypes DEF Batches
    <2>2. \A u \in Others : out'[u] = "none" => prov'[u] = {}
      BY <1>2, <1>6, WorkTypes
    <2>3. \A u \in Tasks : done[u] # 0 => out'[u] = out[u] /\ prov'[u] = prov[u]
      BY <1>2, <1>6
    <2> QED
      BY <1>2, <1>5, <1>6, <1>8, <2>1, <2>2, <2>3, WorkDisk DEF config, world
  <1>10. Top' = Top /\ AtWork' = {t} /\ AtWork = {} /\ Written' = Written /\ Filtered \subseteq Filtered'
    BY <1>2 DEF Top, Filtered, AtWork, Written, config
  <1>11. CleanedUp'
    <2>1. \A u \in Others : done[u] = 0 /\ out'[u] # "none" =>
              IF u \in Resume THEN \A d \in DepOf(u) : done[d] # 0 ELSE u \in Filtered' \cup AtWork'
      BY <1>1, <1>2, <1>6, <1>10, WorkTypes, WorkClean
    <2>2. \A u \in Resume : jobs'[u] # {} => \A d \in DepOf(u) : done[d] # 0
      BY <1>2, <1>5, WorkTypes, WorkClean
    <2> QED
      BY <1>2, <1>10, <2>1, <2>2, WorkFacts DEF CleanedUp, config
  <1>12. ASSUME t = "sieve" PROVE out'["dup"] = "none" /\ out'["purge"] = "none"
    <2>1. /\ {"dup", "purge"} \subseteq Others \ Resume /\ done["dup"] = 0 /\ done["purge"] = 0
      BY <1>1, <1>2, <1>12, FilterUndone
    <2>2. ~dupPurge
      BY <1>2, <1>12, WorkClean
    <2>3. Filtered = {}
      BY <1>2, <2>2 DEF Filtered
    <2>4. out["dup"] = "none" /\ out["purge"] = "none"
      BY <1>2, <1>10, <2>1, <2>3, WorkClean
    <2> QED
      BY <1>1, <1>6, <2>1, <2>4 DEF Others
  <1>13. InputsWhole(t)'
    BY <1>1, <1>2, <1>6, Table DEF InputsWhole
  <1>14. BodyRight'
    BY <1>1, <1>2, <1>4, <1>5, <1>7, <1>10, <1>12, <1>13 DEF BodyRight, InputsWhole, config
  <1>15. FilteredRight'
    <2>1. dupPurge =>
              /\ "sieve" \in Tasks /\ done["sieve"] # 0
              /\ out'["dup"] = "whole" /\ out'["purge"] = "whole"
      <3>1. SUFFICES ASSUME dupPurge
                     PROVE /\ "sieve" \in Tasks /\ done["sieve"] # 0
                           /\ out'["dup"] = "whole" /\ out'["purge"] = "whole"
        OBVIOUS
      <3>2. "sieve" \in Tasks /\ done["sieve"] # 0 /\ out["dup"] = "whole" /\ out["purge"] = "whole"
        BY <1>2, <3>1, WorkClean
      <3>3. {"dup", "purge"} \subseteq Tasks \ Resume
        BY <3>2, FilterAssumption
      <3> QED
        BY <3>2, <3>3, <1>1, <1>6
    <2>2. \A u \in Filtered' : out'[u] # "none" => prov'[u] = Whole(u, n, param)
      <3>1. CASE t = "sieve"
        BY <3>1, <1>12 DEF Filtered
      <3>2. CASE t # "sieve"
        <4>1. Filtered' = Filtered
          BY <3>2, <1>2, <1>10 DEF Filtered
        <4>2. Filtered \subseteq Tasks \ {t}
          <5>1. Filtered # {} => dupPurge
            BY <1>2 DEF Filtered
          <5>2. dupPurge => {"dup", "purge"} \subseteq Tasks \ Resume
            BY <2>1, FilterAssumption
          <5> QED
            BY <5>1, <5>2, <1>1 DEF Filtered
        <4> QED
          BY <4>1, <4>2, <1>2, <1>6, WorkClean
      <3> QED
        BY <3>1, <3>2
    <2> QED
      BY <2>1, <2>2 DEF FilteredRight, config
  <1>16. RunInv'
    BY <1>2, <1>11, <1>14, <1>15, WorkTypes, WorkRun DEF world
  <1> QED
    BY <1>9, <1>16 DEF IInv

\* Another task begins to write its data, into a place that is empty.
LEMMA BeginOtherInv ==
    ASSUME IInv, NEW t \in Tasks \ Dist, Ready(t), InputsWhole(t), pc' = "body",
           ~(dupPurge /\ t \in {"dup", "purge"}),
           out' = [out EXCEPT ![t] = "part"],
           prov' = [prov EXCEPT ![t] = Inputs(t) \cup IF t \in Incremental THEN @ ELSE {}],
           UNCHANGED <<jobs, nfile, pfile, mark, config, done, search, stack, dupPurge, world>>
    PROVE  IInv'
  <1>1. t \in Tasks /\ t \notin Resume
    BY TableAssumption
  <1>2. /\ t \in Others /\ stack # <<>> /\ t = Top /\ done[t] = 0 /\ pc = "task" /\ mark[t] = 0
        /\ \A d \in DepOf(t) : done[d] # 0
        /\ Working /\ Working'
    BY <1>1, ReadyFacts DEF Working
  <1>3. t # "sieve"
    BY <1>1, FilterAssumption
  <1>4. Top' = Top /\ AtWork' = {t} /\ AtWork = {} /\ Written' = Written /\ Filtered' = Filtered
    BY <1>2, <1>3 DEF Top, Filtered, AtWork, Written, config
  <1>5. t \notin Filtered
    BY <1>2 DEF Filtered
  <1>6. prov[t] = {}
    <2>1. out[t] = "none"
      BY <1>1, <1>2, <1>4, <1>5, WorkClean
    <2> QED
      BY <1>2, <2>1, WorkTypes
  <1>7. Inputs(t) = Whole(t, n, param)
    BY <1>2, InputsRight
  <1>8. PICK w \in SUBSET Facts : w = Whole(t, n, param)
    BY <1>1, <1>2, WorkTypes
  <1>9. /\ out' \in [Tasks -> {"none", "part", "whole"}] /\ prov' \in [Tasks -> SUBSET Facts]
        /\ \A u \in Tasks : u # t => out'[u] = out[u] /\ prov'[u] = prov[u]
        /\ out'[t] = "part" /\ prov'[t] = w
    <2>1. prov' = [prov EXCEPT ![t] = w]
      <3>1. (Inputs(t) \cup IF t \in Incremental THEN prov[t] ELSE {}) = w
        BY <1>6, <1>7, <1>8
      <3> QED
        BY <3>1
    <2> QED
      BY <1>1, <1>2, <2>1, WorkTypes
  <1>10. JobsListed'
    BY <1>2, <1>9, WorkClean DEF JobsListed, HasFiles
  <1>11. DiskInv'
    <2>1. \A u \in Resume : \A b \in Batches(u)' : b \in Batches(u) \/ b = Whole(u, n, param)
      BY <1>1, <1>2, <1>9, WorkTypes DEF Batches
    <2>2. \A u \in Others : out'[u] = "none" => prov'[u] = {}
      BY <1>2, <1>9, WorkTypes
    <2>3. \A u \in Tasks : done[u] # 0 => out'[u] = out[u] /\ prov'[u] = prov[u]
      BY <1>2, <1>9
    <2> QED
      BY <1>2, <1>9, <1>10, <2>1, <2>2, <2>3, WorkTypes, WorkDisk DEF config, world
  <1>12. CleanedUp'
    <2>1. \A u \in Others : done[u] = 0 /\ out'[u] # "none" =>
              IF u \in Resume THEN \A d \in DepOf(u) : done[d] # 0 ELSE u \in Filtered' \cup AtWork'
      BY <1>1, <1>2, <1>9, <1>4, WorkTypes, WorkClean
    <2>2. \A u \in Resume : jobs'[u] # {} => \A d \in DepOf(u) : done[d] # 0
      BY <1>2, WorkTypes, WorkClean
    <2> QED
      BY <1>2, <1>4, <2>1, <2>2, WorkFacts DEF CleanedUp, config
  <1>13. InputsWhole(t)'
    BY <1>1, <1>2, <1>9, Table DEF InputsWhole
  <1>14. BodyRight'
    BY <1>1, <1>2, <1>3, <1>8, <1>9, <1>4, <1>13 DEF BodyRight, InputsWhole, config
  <1>15. FilteredRight'
    <2>1. Filtered = IF dupPurge THEN {"dup", "purge"} ELSE {}
      BY <1>2 DEF Filtered
    <2>2. dupPurge => {"dup", "purge"} \subseteq Tasks \ {t}
      BY <1>2, <1>5, <2>1, WorkClean, FilterAssumption
    <2>3. dupPurge =>
              /\ "sieve" \in Tasks /\ done["sieve"] # 0
              /\ out'["dup"] = "whole" /\ out'["purge"] = "whole"
      BY <1>2, <1>9, <2>2, WorkClean
    <2>4. \A u \in Filtered : out'[u] # "none" => prov'[u] = Whole(u, n, param)
      BY <1>2, <1>9, <2>1, <2>2, WorkClean
    <2> QED
      BY <1>4, <2>3, <2>4 DEF FilteredRight, config
  <1>16. RunInv'
    BY <1>2, <1>12, <1>14, <1>15, WorkTypes, WorkRun DEF world
  <1> QED
    BY <1>11, <1>16 DEF IInv

\* A task begins.
LEMMA BeginInv ==
    ASSUME IInv, NEW t \in Tasks, Begin(t)
    PROVE  IInv'
  <1>1. /\ Ready(t)
        /\ UNCHANGED <<nfile, pfile, mark, config, done, search, stack, dupPurge, world>>
    BY DEF Begin
  <1>2. CASE dupPurge /\ t \in {"dup", "purge"}
    <2>1. pc' = "made" /\ UNCHANGED <<out, prov, jobs>>
      BY <1>2 DEF Begin
    <2> QED
      BY <1>1, <1>2, <2>1, BeginMadeInv
  <1>3. CASE ~(dupPurge /\ t \in {"dup", "purge"}) /\ ~InputsWhole(t)
    <2>1. pc' = "off" /\ UNCHANGED <<out, prov, jobs>>
      BY <1>3 DEF Begin
    <2> QED
      BY <1>1, <2>1, BeginOffInv
  <1>4. CASE ~(dupPurge /\ t \in {"dup", "purge"}) /\ InputsWhole(t) /\ t \in Dist
    <2>1. /\ pc' = "body" /\ jobs' = [jobs EXCEPT ![t] = @ \cup {Inputs(t)}]
          /\ IF PassesCheck(t) THEN UNCHANGED <<out, prov>> ELSE Removed(t)
      BY <1>4 DEF Begin
    <2> QED
      BY <1>1, <1>4, <2>1, BeginDistInv
  <1>5. CASE ~(dupPurge /\ t \in {"dup", "purge"}) /\ InputsWhole(t) /\ t \notin Dist
    <2>1. /\ pc' = "body" /\ out' = [out EXCEPT ![t] = "part"]
          /\ prov' = [prov EXCEPT ![t] = Inputs(t) \cup IF t \in Incremental THEN @ ELSE {}]
          /\ UNCHANGED jobs
      BY <1>5 DEF Begin
    <2> QED
      BY <1>1, <1>5, <2>1, BeginOtherInv
  <1> QED
    BY <1>2, <1>3, <1>4, <1>5

\* The output files fetched are those that pass the check.
LEMMA FetchInv ==
    ASSUME IInv, Fetch
    PROVE  IInv'
  <1> DEFINE t == Top
  <1>1. /\ pc = "body" /\ pc' = "body" /\ t \in Dist
        /\ out' = [out EXCEPT ![t] = "part"]
        /\ prov' = [prov EXCEPT ![t] = @ \cup UNION {b \in jobs[t] : Needs(t) \subseteq b}]
        /\ UNCHANGED <<nfile, pfile, mark, jobs, config, done, search, stack, dupPurge, world>>
        /\ Working /\ Working'
    BY DEF Fetch, Working
  <1>2. t \in Tasks /\ t \in Resume
    BY <1>1, TableAssumption
  <1>3. /\ stack # <<>> /\ t \in Others /\ done[t] = 0 /\ \A d \in DepOf(t) : done[d] # 0
        /\ InputsWhole(t) /\ (out[t] # "none" => prov[t] = Whole(t, n, param))
        /\ Whole(t, n, param) \in jobs[t]
        /\ t = "sieve" => (out["dup"] = "none" <=> out["purge"] = "none")
    BY <1>1 DEF IInv, RunInv, BodyRight
  <1>4. Inputs(t) = Whole(t, n, param)
    BY <1>1, <1>3, InputsRight
  <1>5. PICK w \in SUBSET Facts : w = Whole(t, n, param)
    BY <1>1, <1>2, WorkTypes
  <1>6. Needs(t) \subseteq w
    BY <1>4, <1>5 DEF Inputs
  <1>7. ASSUME NEW b \in jobs[t], Needs(t) \subseteq b PROVE b = w
    BY <1>1, <1>2, <1>3, <1>5, <1>7, BatchRight DEF Batches
  <1>8. UNION {b \in jobs[t] : Needs(t) \subseteq b} = w
    <2>1. w \in {b \in jobs[t] : Needs(t) \subseteq b}
      BY <1>3, <1>5, <1>6
    <2>2. \A b \in {c \in jobs[t] : Needs(t) \subseteq c} : b = w
      BY <1>7
    <2> QED
      BY <2>1, <2>2
  <1>9. prov[t] = {} \/ prov[t] = w
    BY <1>1, <1>3, <1>5, WorkTypes
  <1>10. Top' = t /\ AtWork' = {t} /\ AtWork = {t} /\ Written' = Written /\ Filtered' = Filtered
    BY <1>1 DEF Top, Filtered, AtWork, Written, config
  <1> HIDE DEF t
  <1>11. /\ out' \in [Tasks -> {"none", "part", "whole"}] /\ prov' \in [Tasks -> SUBSET Facts]
         /\ \A u \in Tasks : u # t => out'[u] = out[u] /\ prov'[u] = prov[u]
         /\ out'[t] = "part" /\ prov'[t] = w
    <2>1. prov[t] \cup UNION {b \in jobs[t] : Needs(t) \subseteq b} = w
      BY <1>8, <1>9
    <2>2. prov' = [prov EXCEPT ![t] = w]
      BY <1>1, <2>1
    <2> QED
      BY <1>1, <1>2, <2>2, WorkTypes
  <1>12. JobsListed'
    BY <1>1, <1>10, <1>11, WorkClean DEF JobsListed, HasFiles, t
  <1>13. DiskInv'
    <2>1. \A u \in Resume : \A b \in Batches(u)' : b \in Batches(u) \/ b = Whole(u, n, param)
      BY <1>1, <1>5, <1>11, WorkTypes DEF Batches
    <2>2. \A u \in Others : out'[u] = "none" => prov'[u] = {}
      BY <1>1, <1>11, WorkTypes
    <2>3. \A u \in Tasks : done[u] # 0 => out'[u] = out[u] /\ prov'[u] = prov[u]
      BY <1>3, <1>11
    <2> QED
      BY <1>1, <1>11, <1>12, <2>1, <2>2, <2>3, WorkTypes, WorkDisk DEF config, world
  <1>14. CleanedUp'
    <2>1. \A u \in Others : done[u] = 0 /\ out'[u] # "none" =>
              IF u \in Resume THEN \A d \in DepOf(u) : done[d] # 0 ELSE u \in Filtered' \cup AtWork'
      BY <1>1, <1>2, <1>3, <1>10, <1>11, WorkTypes, WorkClean
    <2>2. \A u \in Resume : jobs[u] # {} => \A d \in DepOf(u) : done[d] # 0
      BY <1>1, WorkClean
    <2> QED
      BY <1>1, <1>10, <2>1, <2>2, WorkFacts DEF CleanedUp, config
  <1>15. ASSUME "sieve" \in Tasks PROVE {"dup", "purge"} \subseteq Tasks \ {t}
    BY <1>2, <1>15, FilterAssumption
  <1>16. \A d \in DepOf(t) \ {Root} : out'[d] = "whole"
    BY <1>2, <1>3, <1>11, Table DEF InputsWhole
  <1>17. BodyRight'
    <2>1. t = "sieve" => (out'["dup"] = "none" <=> out'["purge"] = "none")
      BY <1>2, <1>3, <1>11, <1>15
    <2> QED
      BY <1>1, <1>3, <1>5, <1>10, <1>11, <1>16, <2>1 DEF BodyRight, InputsWhole, config
  <1>18. FilteredRight'
    <2>1. dupPurge =>
              /\ "sieve" \in Tasks /\ done["sieve"] # 0
              /\ out'["dup"] = "whole" /\ out'["purge"] = "whole"
      BY <1>1, <1>11, <1>15, WorkClean
    <2>2. Filtered \subseteq Tasks \ {t}
      BY <1>2, <1>15, <2>1 DEF Filtered, t
    <2>3. \A u \in Filtered : out'[u] # "none" => prov'[u] = Whole(u, n, param)
      BY <1>1, <1>11, <2>2, WorkClean
    <2> QED
      BY <1>1, <1>10, <2>1, <2>3 DEF FilteredRight, config
  <1>19. RunInv'
    BY <1>1, <1>14, <1>17, <1>18, WorkTypes, WorkRun DEF world
  <1> QED
    BY <1>13, <1>19 DEF IInv

\* dup and purge add nothing to the facts of the sieve.
LEMMA FilterWhole ==
    ASSUME "sieve" \in Tasks, NEW m, NEW s
    PROVE  Whole("dup", m, s) = Whole("sieve", m, s) /\ Whole("purge", m, s) = Whole("sieve", m, s)
  <1>1. /\ "dup" \in Others /\ "purge" \in Others
        /\ DepOf("dup") = {"sieve"} /\ DepOf("purge") = {"dup"}
        /\ Own("dup", s) = {} /\ Own("purge", s) = {}
    BY FilterAssumption DEF Others, Own
  <1>2. \A x : x \in Whole("dup", m, s) <=> x \in Whole("sieve", m, s)
    BY <1>1, WholeStep
  <1>3. \A x : x \in Whole("purge", m, s) <=> x \in Whole("dup", m, s)
    BY <1>1, WholeStep
  <1> QED
    BY <1>2, <1>3

\* The sieve runs dup and purge.
LEMMA SieveFilterInv ==
    ASSUME IInv, SieveFilter
    PROVE  IInv'
  <1>1. /\ pc = "body" /\ pc' = "body" /\ Top = "sieve" /\ out["sieve"] = "part"
        /\ out' = [out EXCEPT !["dup"] = "part", !["purge"] = "part"]
        /\ prov' = [prov EXCEPT !["dup"] = @ \cup prov["sieve"],
                                !["purge"] = prov["dup"] \cup prov["sieve"]]
        /\ UNCHANGED <<nfile, pfile, mark, jobs, config, done, search, stack, dupPurge, world>>
        /\ Working /\ Working'
    BY DEF SieveFilter, Working
  <1>2. /\ stack # <<>> /\ "sieve" \in Others /\ done["sieve"] = 0
        /\ \A d \in DepOf("sieve") : done[d] # 0
        /\ InputsWhole("sieve") /\ prov["sieve"] = Whole("sieve", n, param)
        /\ "sieve" \in Dist => Whole("sieve", n, param) \in jobs["sieve"]
    BY <1>1 DEF IInv, RunInv, BodyRight
  <1>3. /\ "sieve" \in Tasks /\ {"dup", "purge"} \subseteq Others \ Resume /\ "sieve" \in Dist
        /\ done["dup"] = 0 /\ done["purge"] = 0 /\ "dup" \in Tasks /\ "purge" \in Tasks
        /\ "sieve" \in Resume
    BY <1>1, <1>2, FilterUndone, WorkTypes
  <1>4. PICK w \in SUBSET Facts : w = Whole("sieve", n, param)
    BY <1>1, <1>3, WorkTypes
  <1>5. Whole("dup", n, param) = w /\ Whole("purge", n, param) = w
    BY <1>3, <1>4, FilterWhole
  <1>6. /\ Filtered = {"dup", "purge"} /\ Filtered' = Filtered /\ AtWork = {"sieve"}
        /\ AtWork' = AtWork /\ Top' = Top /\ Written' = Written
    BY <1>1 DEF Top, Filtered, AtWork, Written, config
  <1>7. prov["dup"] = {} \/ prov["dup"] = w
    BY <1>1, <1>3, <1>5, <1>6, WorkTypes, WorkClean
  <1>8. /\ out' \in [Tasks -> {"none", "part", "whole"}] /\ prov' \in [Tasks -> SUBSET Facts]
        /\ \A u \in Tasks \ {"dup", "purge"} : out'[u] = out[u] /\ prov'[u] = prov[u]
        /\ out'["dup"] = "part" /\ prov'["dup"] = w /\ out'["purge"] = "part" /\ prov'["purge"] = w
    <2>1. prov["dup"] \cup prov["sieve"] = w
      BY <1>2, <1>4, <1>7
    <2>2. prov' = [prov EXCEPT !["dup"] = w, !["purge"] = w]
      BY <1>1, <2>1
    <2> QED
      BY <1>1, <1>3, <2>2, WorkTypes
  <1>9. JobsListed'
    BY <1>1, <1>3, <1>6, <1>8, WorkClean DEF JobsListed, HasFiles, Top
  <1>10. DiskInv'
    <2>1. \A u \in Resume : \A b \in Batches(u)' : b \in Batches(u)
      BY <1>1, <1>3, <1>8, WorkTypes DEF Batches
    <2>2. \A u \in Others : out'[u] = "none" => prov'[u] = {}
      BY <1>1, <1>8, WorkTypes
    <2>3. \A u \in Tasks : done[u] # 0 => out'[u] = out[u] /\ prov'[u] = prov[u]
      BY <1>3, <1>8
    <2> QED
      BY <1>1, <1>8, <1>9, <2>1, <2>2, <2>3, WorkTypes, WorkDisk DEF config, world
  <1>11. CleanedUp'
    <2>1. \A u \in Others : done[u] = 0 /\ out'[u] # "none" =>
              IF u \in Resume THEN \A d \in DepOf(u) : done[d] # 0 ELSE u \in Filtered' \cup AtWork'
      BY <1>1, <1>3, <1>6, <1>8, WorkTypes, WorkClean
    <2>2. \A u \in Resume : jobs[u] # {} => \A d \in DepOf(u) : done[d] # 0
      BY <1>1, WorkClean
    <2> QED
      BY <1>1, <1>6, <2>1, <2>2, WorkFacts DEF CleanedUp, config
  <1>12. InputsWhole("sieve")'
    BY <1>2, <1>3, <1>8, Table DEF InputsWhole
  <1>13. BodyRight'
    BY <1>1, <1>2, <1>3, <1>4, <1>6, <1>8, <1>12 DEF BodyRight, InputsWhole, config
  <1>14. FilteredRight'
    <2>1. ~dupPurge
      BY <1>1, <1>2, WorkClean
    <2> QED
      BY <1>1, <1>5, <1>6, <1>8, <2>1 DEF FilteredRight, config
  <1>15. RunInv'
    BY <1>1, <1>11, <1>13, <1>14, WorkTypes, WorkRun DEF world
  <1> QED
    BY <1>10, <1>15 DEF IInv

\* The task ends, and with the sieve the filtering.
LEMMA FinishInv ==
    ASSUME IInv, Finish
    PROVE  IInv'
  <1> DEFINE t == Top
  <1>1. /\ pc = "body" /\ pc' = "made" /\ (t \in Dist => out[t] = "part")
        /\ t = "sieve" => out["purge"] = "part"
        /\ out' = [u \in Tasks |-> IF u = t \/ (t = "sieve" /\ u \in {"dup", "purge"})
                                   THEN "whole" ELSE out[u]]
        /\ jobs' = [jobs EXCEPT ![t] = {}]
        /\ dupPurge' = (dupPurge \/ t = "sieve")
        /\ UNCHANGED <<nfile, pfile, mark, prov, config, done, search, stack, world>>
        /\ Working /\ Working'
    BY DEF Finish, Working
  <1>2. /\ stack # <<>> /\ t \in Others /\ done[t] = 0 /\ \A d \in DepOf(t) : done[d] # 0
        /\ out[t] # "none" /\ prov[t] = Whole(t, n, param)
        /\ t = "sieve" => out["dup"] # "none" /\ out["purge"] # "none"
    BY <1>1 DEF IInv, RunInv, BodyRight
  <1>3. t \in Tasks
    BY <1>2 DEF Others
  <1>4. t = "sieve" =>
            /\ {"dup", "purge"} \subseteq Others \ Resume /\ done["dup"] = 0 /\ done["purge"] = 0
            /\ "sieve" \in Dist
    BY <1>1, <1>2, <1>3, FilterUndone
  <1>5. Top' = t /\ AtWork' = {t} /\ AtWork = {t} /\ Written' = Written
    BY <1>1 DEF Top, AtWork, Written, config
  <1>6. Filtered' = Filtered
    BY <1>1 DEF Filtered
  <1> HIDE DEF t
  <1>7. /\ out' \in [Tasks -> {"none", "part", "whole"}]
        /\ \A u \in Tasks : out'[u] = out[u] \/ (out'[u] = "whole" /\ out[u] # "none" /\ done[u] = 0)
        /\ out'[t] = "whole"
    BY <1>1, <1>2, <1>3, <1>4, WorkTypes
  <1>8. /\ jobs' \in [Tasks -> SUBSET SUBSET Facts] /\ jobs'[t] = {}
        /\ \A u \in Tasks : u # t => jobs'[u] = jobs[u]
        /\ \A u \in Tasks : jobs'[u] \subseteq jobs[u]
    BY <1>1, <1>3, WorkTypes
  <1>9. JobsListed'
    <2>1. SUFFICES ASSUME NEW u \in Tasks
                   PROVE  /\ u \notin Dist => jobs'[u] = {}
                          /\ mark[u] # 0 => jobs'[u] = {}
                          /\ jobs'[u] # {} => HasFiles(u)'
      BY <1>1 DEF JobsListed
    <2>2. CASE u = t
      BY <2>2, <1>8
    <2>3. CASE u # t
      BY <2>3, <1>1, <1>7, <1>8, WorkClean DEF HasFiles, t
    <2> QED
      BY <2>2, <2>3
  <1>10. DiskInv'
    <2>1. \A u \in Resume : \A b \in Batches(u)' : b \in Batches(u)
      <3>1. SUFFICES ASSUME NEW u \in Resume, NEW b \in Batches(u)' PROVE b \in Batches(u)
        OBVIOUS
      <3>2. u \in Tasks
        BY <1>1, WorkTypes
      <3>3. out'[u] = "none" <=> out[u] = "none"
        BY <3>2, <1>7
      <3> QED
        BY <1>1, <1>8, <3>1, <3>2, <3>3 DEF Batches
    <2>2. \A u \in Others : out'[u] = "none" => prov'[u] = {}
      BY <1>1, <1>7, WorkTypes
    <2>3. \A u \in Tasks : done[u] # 0 => out'[u] = out[u] /\ prov'[u] = prov[u]
      BY <1>1, <1>7
    <2> QED
      BY <1>1, <1>7, <1>8, <1>9, <2>1, <2>2, <2>3, WorkTypes, WorkDisk DEF config, world
  <1>11. CleanedUp'
    <2>1. \A u \in Others : done[u] = 0 /\ out'[u] # "none" =>
              IF u \in Resume THEN \A d \in DepOf(u) : done[d] # 0 ELSE u \in Filtered' \cup AtWork'
      BY <1>1, <1>5, <1>6, <1>7, WorkTypes, WorkClean
    <2>2. \A u \in Resume : jobs'[u] # {} => \A d \in DepOf(u) : done[d] # 0
      BY <1>1, <1>8, WorkTypes, WorkClean
    <2> QED
      BY <1>1, <1>5, <2>1, <2>2, WorkFacts DEF CleanedUp, config
  <1>12. BodyRight'
    BY <1>1, <1>2, <1>5, <1>7, <1>8 DEF BodyRight, config
  <1>13. FilteredRight'
    <2>1. ASSUME dupPurge'
          PROVE  /\ "sieve" \in Tasks /\ (done["sieve"] # 0 \/ t = "sieve")
                 /\ out'["dup"] = "whole" /\ out'["purge"] = "whole"
      <3>1. CASE t = "sieve"
        BY <3>1, <1>1, <1>3, <1>4, WorkTypes
      <3>2. CASE t # "sieve"
        <4>1. dupPurge
          BY <2>1, <3>2, <1>1
        <4>2. /\ "sieve" \in Tasks /\ done["sieve"] # 0
              /\ out["dup"] = "whole" /\ out["purge"] = "whole"
          BY <4>1, <1>1, WorkClean
        <4>3. "dup" \in Tasks /\ "purge" \in Tasks
          BY <4>2, FilterAssumption
        <4> QED
          BY <4>2, <4>3, <1>7
      <3> QED
        BY <3>1, <3>2
    <2>2. \A u \in Filtered : out'[u] # "none" => prov'[u] = Whole(u, n, param)
      <3>1. Filtered \subseteq Tasks
        <4>1. "sieve" \in Tasks => {"dup", "purge"} \subseteq Tasks
          BY FilterAssumption
        <4>2. dupPurge => "sieve" \in Tasks
          BY <1>1, WorkClean
        <4> QED
          BY <1>3, <4>1, <4>2 DEF Filtered, t
      <3> QED
        BY <3>1, <1>1, <1>7, WorkClean
    <2> QED
      BY <1>1, <1>5, <1>6, <2>1, <2>2 DEF FilteredRight, config
  <1>14. RunInv'
    BY <1>1, <1>11, <1>12, <1>13, WorkTypes, WorkRun DEF world
  <1> QED
    BY <1>10, <1>14 DEF IInv

\* The done file is written.
LEMMA MarkInv ==
    ASSUME IInv, Mark
    PROVE  IInv'
  <1> DEFINE t == Top
             c == clock + pace
  <1> USE DEF config, search
  <1>1. /\ pc = "made" /\ pc' = "task" /\ clock' = c
        /\ mark' = [mark EXCEPT ![t] = c] /\ done' = [done EXCEPT ![t] = c]
        /\ stack' = Tail(stack)
        /\ UNCHANGED <<nfile, pfile, out, prov, jobs, config, search, dupPurge, pace>>
        /\ Working /\ Working'
    BY DEF Mark, Working
  <1>2. /\ stack # <<>> /\ t \in Others /\ done[t] = 0 /\ \A d \in DepOf(t) : done[d] # 0
        /\ out[t] = "whole" /\ prov[t] = Whole(t, n, param) /\ jobs[t] = {}
    BY <1>1 DEF IInv, RunInv, BodyRight
  <1>3. t \in Tasks /\ t # Root
    BY <1>2 DEF Others
  <1>4. /\ clock \in Nat \ {0} /\ pace \in {0, 1} /\ stack \in Seq(Tasks)
        /\ \A u \in Tasks : mark[u] <= clock /\ done[u] <= clock
    BY DEF IInv, DiskInv, DiskTypes, RunInv, DriverTypes
  <1>5. Tail(stack) \in Seq(Tasks)
    BY <1>2, <1>4, FirstAndRest
  <1>6. Written' = Written /\ Written = param /\ AtWork = {t} /\ AtWork' = {} /\ Filtered' = Filtered
    BY <1>1, WorkFacts DEF Written, AtWork, Filtered
  <1>7. c \in Nat \ {0} /\ clock <= c
    BY <1>4
  <1> HIDE DEF t, c
  <1>8. /\ mark' \in [Tasks -> Nat] /\ done' \in [Tasks -> Nat]
        /\ mark'[t] = c /\ done'[t] = c
        /\ \A u \in Tasks : u # t => mark'[u] = mark[u] /\ done'[u] = done[u]
    BY <1>1, <1>3, <1>7, WorkFacts
  <1>9. \A u \in Tasks : mark'[u] <= c /\ done'[u] <= c
    <2>1. SUFFICES ASSUME NEW u \in Tasks PROVE mark'[u] <= c /\ done'[u] <= c
      OBVIOUS
    <2>2. CASE u = t
      BY <2>2, <1>7, <1>8
    <2>3. CASE u # t
      <3>1. mark'[u] <= clock /\ done'[u] <= clock /\ mark'[u] \in Nat /\ done'[u] \in Nat
        BY <2>3, <1>4, <1>8
      <3> QED
        BY <3>1, <1>4, <1>7
    <2> QED
      BY <2>2, <2>3
  <1>10. DiskTypes'
    BY <1>1, <1>7, <1>8, <1>9 DEF IInv, DiskInv, DiskTypes
  <1>11. NumberThere'
    <2>1. mark'[Root] = mark[Root] /\ nfile # NoNumber
      BY <1>1, <1>3, <1>8, WorkFacts, Table
    <2> QED
      BY <1>1, <2>1 DEF IInv, DiskInv, NumberThere
  <1>12. JobsListed'
    <2>1. SUFFICES ASSUME NEW u \in Tasks
                   PROVE  /\ u \notin Dist => jobs[u] = {}
                          /\ mark'[u] # 0 => jobs[u] = {}
                          /\ jobs[u] # {} => HasFiles(u)'
      BY <1>1 DEF JobsListed
    <2>2. CASE u = t
      BY <2>2, <1>2
    <2>3. CASE u # t
      BY <2>3, <1>1, <1>8, WorkClean DEF HasFiles
    <2> QED
      BY <2>2, <2>3
  <1>13. ParametersThere'
    <2>1. param \in [Params -> Nat]
      BY ValuesAssumption DEF IInv, RunInv, DriverTypes
    <2>2. \A p \in Params : pfile'[p] # Absent
      BY <1>1, <2>1, WorkFacts DEF Absent
    <2> QED
      BY <1>1, <2>2 DEF ParametersThere
  <1>14. NoFilesNoFacts'
    BY <1>1 DEF IInv, DiskInv, NoFilesNoFacts
  <1>15. MarkedRight'
    <2>1. SUFFICES ASSUME NEW u \in Others, mark'[u] # 0, out[u] = "whole"
                   PROVE  prov[u] = Whole(u, n, param)
      BY <1>1, <1>6, WorkFacts DEF MarkedRight
    <2>2. CASE u = t
      BY <2>2, <1>2
    <2>3. CASE u # t
      <3>1. u \in Tasks /\ done[u] # 0
        BY <2>1, <2>3, <1>1, <1>8, WorkFacts DEF Others
      <3> QED
        BY <2>1, <3>1, <1>1, DoneWhole
    <2> QED
      BY <2>2, <2>3
  <1>16. BatchesRight'
    <2>1. SUFFICES ASSUME NEW u \in Resume, NEW b \in Batches(u)
                   PROVE  IF DepOf(u) = {Root}
                          THEN \E m \in Numbers : b = Whole(u, m, param)
                          ELSE b = Whole(u, n, param)
      BY <1>1, <1>6, WorkFacts DEF BatchesRight, Batches
    <2>2. IF DepOf(u) = {Root}
          THEN \E m \in Numbers : b = Whole(u, m, param)
          ELSE (\A d \in DepOf(u) : Linked(d)) => b = Whole(u, n, param)
      BY <1>1, <1>6, WorkFacts DEF IInv, DiskInv, BatchesRight
    <2>3. u \in Others /\ u \in Tasks
      BY <1>1, WorkTypes
    <2>4. \A d \in DepOf(u) : done[d] # 0
      <3>1. jobs[u] # {} \/ out[u] # "none"
        BY DEF Batches
      <3> QED
        BY <3>1, <2>3, <1>1, WorkFacts, WorkClean
    <2>5. \A d \in DepOf(u) : Linked(d)
      BY <2>3, <2>4, <1>1, WorkLinked, Table
    <2> QED
      BY <2>2, <2>5
  <1>17. DriverTypes'
    <2>1. pc' \in Pcs
      BY <1>1 DEF Pcs
    <2> QED
      BY <1>1, <1>5, <1>8, <1>9, <2>1 DEF IInv, RunInv, DriverTypes
  <1>18. Called'
    BY <1>1, <1>3, <1>8, WorkFacts, Table DEF Called
  <1>19. \A u \in Tasks : done[u] # 0 => done'[u] # 0
    BY <1>7, <1>8
  <1>20. DoneLinked'
    <2>1. SUFFICES ASSUME NEW u \in Others, done'[u] # 0, NEW d \in DepOf(u)
                   PROVE  done'[u] = mark'[u] /\ done'[d] # 0 /\ done'[d] <= done'[u]
      <3>1. \A u \in Others : DepOf(u) # {}
        BY RootBefore
      <3> QED
        BY <2>1, <3>1 DEF DoneLinked
    <2>2. u \in Tasks /\ d \in Tasks
      BY Table DEF Others
    <2>3. CASE u = t
      BY <2>2, <2>3, <1>2, <1>8, <1>9, <1>19
    <2>4. CASE u # t
      <3>1. done[u] # 0 /\ done'[u] = done[u] /\ mark'[u] = mark[u]
        BY <2>1, <2>2, <2>4, <1>8
      <3>2. done[u] = mark[u] /\ done[d] # 0 /\ done[d] <= done[u]
        BY <3>1, <1>1, WorkFacts
      <3>3. done'[d] = done[d]
        BY <3>2, <2>2, <1>2, <1>8
      <3> QED
        BY <3>1, <3>2, <3>3
    <2> QED
      BY <2>3, <2>4
  <1>21. KeptSame' /\ VisitedSorted' /\ CleanupRight' /\ BodyRight'
    BY <1>1 DEF IInv, RunInv, KeptSame, VisitedSorted, CleanupRight, BodyRight, Deciding
  <1>22. CleanedUp'
    <2>1. \A u \in Others : done'[u] = mark'[u]
      BY <1>1, <1>8, WorkFacts DEF Others
    <2>2. \A u \in Others : done'[u] = 0 /\ out[u] # "none" =>
              IF u \in Resume THEN \A d \in DepOf(u) : done'[d] # 0 ELSE u \in Filtered
      <3>1. SUFFICES ASSUME NEW u \in Others, done'[u] = 0, out[u] # "none"
                     PROVE  IF u \in Resume THEN \A d \in DepOf(u) : done'[d] # 0
                                            ELSE u \in Filtered
        OBVIOUS
      <3>2. u \in Tasks /\ DepOf(u) \subseteq Tasks
        BY Table DEF Others
      <3>3. u # t
        BY <3>1, <1>7, <1>8
      <3>4. done[u] = 0
        BY <3>1, <3>2, <1>19
      <3> QED
        BY <3>1, <3>2, <3>3, <3>4, <1>1, <1>6, <1>19, WorkClean
    <2>3. \A u \in Resume : jobs[u] # {} => \A d \in DepOf(u) : done'[d] # 0
      <3>1. SUFFICES ASSUME NEW u \in Resume, jobs[u] # {}, NEW d \in DepOf(u) PROVE done'[d] # 0
        OBVIOUS
      <3>2. u \in Tasks /\ d \in Tasks
        BY <1>1, WorkTypes, Table
      <3> QED
        BY <3>1, <3>2, <1>1, <1>19, WorkClean
    <2> QED
      BY <1>1, <1>6, <2>1, <2>2, <2>3 DEF CleanedUp
  <1>23. FilteredRight'
    <2>1. dupPurge => "sieve" \in Tasks /\ done'["sieve"] # 0
      <3>1. dupPurge => "sieve" \in Tasks /\ (done["sieve"] # 0 \/ t = "sieve")
        BY <1>1, WorkClean DEF t
      <3> QED
        BY <3>1, <1>7, <1>8, <1>19
    <2> QED
      BY <1>1, <1>6, <2>1, WorkClean DEF FilteredRight
  <1> QED
    BY <1>10, <1>11, <1>12, <1>13, <1>14, <1>15, <1>16, <1>17, <1>18, <1>20, <1>21, <1>22, <1>23
       DEF IInv, DiskInv, RunInv

-----------------------------------------------------------------------------
(* The theorem.                                                            *)

\* Every step keeps the invariant.
LEMMA NextInv ==
    ASSUME IInv, Sheltered, [Next]_vars
    PROVE  IInv'
  <1>1. CASE RunAgain
    BY <1>1, CallInv DEF RunAgain, IInv, RunInv, DriverTypes
  <1>2. CASE RunChanged
    BY <1>2, CallInv DEF RunChanged
  <1>3. CASE Visit
    BY <1>3, VisitInv
  <1>4. CASE VisitEnd
    BY <1>4, VisitEndInv
  <1>5. CASE \E a \in Answers : Ask(a)
    BY <1>5, AskInv
  <1>6. CASE CleanFirst
    BY <1>6, CleanFirstInv
  <1>7. CASE CleanRest
    BY <1>7, CleanRestInv
  <1>8. CASE CleanEnd
    BY <1>8, CleanEndInv
  <1>9. CASE WriteParamOpen
    BY <1>9, WriteParamOpenInv
  <1>10. CASE WriteParamClose
    BY <1>10, WriteParamCloseInv
  <1>11. CASE Return
    BY <1>11, ReturnInv
  <1>12. CASE Descend
    BY <1>12, DescendInv
  <1>13. CASE \E t \in Tasks : Begin(t)
    BY <1>13, BeginInv
  <1>14. CASE Fetch
    BY <1>14, FetchInv
  <1>15. CASE SieveFilter
    BY <1>15, SieveFilterInv
  <1>16. CASE Finish
    BY <1>16, FinishInv
  <1>17. CASE Mark
    BY <1>17, MarkInv
  <1>18. CASE End
    BY <1>18, EndInv
  <1>19. CASE Kill
    BY <1>19, KillInv
  <1>20. CASE UNCHANGED vars
    BY <1>20, StutterInv
  <1> QED
    BY <1>1, <1>2, <1>3, <1>4, <1>5, <1>6, <1>7, <1>8, <1>9, <1>10, <1>11, <1>12, <1>13, <1>14,
       <1>15, <1>16, <1>17, <1>18, <1>19, <1>20 DEF Next, Driver, Body

\* The invariant says that only current data is used.
LEMMA InvCurrent ==
    ASSUME IInv
    PROVE  OnlyCurrentData
  <1>1. TypeOK
    <2>1. /\ mark \in [Tasks -> Nat] /\ done \in [Tasks -> Nat] /\ clock \in Nat
          /\ \A t \in Tasks : mark[t] <= clock /\ done[t] <= clock
      BY DEF IInv, DiskInv, DiskTypes, RunInv, DriverTypes
    <2>2. \A t \in Tasks : mark[t] \in 0..clock /\ done[t] \in 0..clock
      BY <2>1
    <2>3. mark \in [Tasks -> 0..clock] /\ done \in [Tasks -> 0..clock]
      BY <2>1, <2>2
    <2>4. /\ nfile \in Numbers \cup {NoNumber} /\ pfile \in [Params -> Values \cup {Absent}]
          /\ out \in [Tasks -> {"none", "part", "whole"}]
          /\ \A t \in Tasks : prov[t] \subseteq Facts /\ \A b \in jobs[t] : b \subseteq Facts
      BY DEF IInv, DiskInv, DiskTypes
    <2>5. /\ pc \in Pcs /\ n \in Numbers /\ param \in Settings /\ recover \in BOOLEAN
          /\ diff \subseteq Params /\ {queue, cleanup, stack} \subseteq Seq(Tasks)
          /\ visited \subseteq Tasks /\ dupPurge \in BOOLEAN
      BY DEF IInv, RunInv, DriverTypes
    <2>6. \A i, j \in DOMAIN cleanup : cleanup[i] = cleanup[j] => i = j
      BY DEF IInv, RunInv, CleanupRight
    <2> QED
      BY <2>3, <2>4, <2>5, <2>6 DEF TypeOK, Pcs
  <1>2. DoneIsCurrent
    BY DoneWhole, WholeIdeal DEF DoneIsCurrent
  <1>3. ResumedIsCurrent
    <2>1. ASSUME Working, NEW t \in Resume, NEW b \in jobs[t] \cup {prov[t]},
                 \A d \in DepOf(t) : done[d] # 0, Needs(t) \subseteq b
          PROVE  b \subseteq Whole(t, n, param)
      <3>1. CASE b \in Batches(t)
        BY <2>1, <3>1, BatchRight
      <3>2. CASE b \notin Batches(t)
        <4>1. b = prov[t] /\ out[t] = "none"
          BY <2>1, <3>2 DEF Batches
        <4> QED
          BY <2>1, <4>1, WorkTypes
      <3> QED
        BY <3>1, <3>2
    <2>2. \A t \in Resume : Ideal(t) = Whole(t, n, param)
      BY WholeIdeal, TableAssumption
    <2> QED
      BY <2>1, <2>2 DEF ResumedIsCurrent
  <1>4. NoLeftovers
    <2>1. SUFFICES ASSUME pc = "task", NEW t \in Tasks \ Resume, done[t] = 0, out[t] # "none"
                   PROVE  dupPurge /\ t \in {"dup", "purge"}
      BY DEF NoLeftovers
    <2>2. Working /\ AtWork = {}
      BY <2>1 DEF Working, AtWork
    <2>3. t \in Others
      BY <2>1, <2>2, WorkFacts DEF Others
    <2>4. t \in Filtered
      BY <2>1, <2>2, <2>3, WorkClean
    <2> QED
      BY <2>1, <2>4 DEF Filtered
  <1> QED
    BY <1>1, <1>2, <1>3, <1>4 DEF OnlyCurrentData

\* Whatever was killed, refused or changed before, nothing that comes from
\* another number or from other parameters is used by do_task: not as a result,
\* not as the start of a resumed task, not as what a task finds in its place.
THEOREM CurrentData ==
    ASSUME Sheltered
    PROVE  Spec => []OnlyCurrentData
  <1>1. Init => IInv
    BY InitInv
  <1>2. IInv /\ [Next]_vars => IInv'
    BY NextInv
  <1>3. IInv => OnlyCurrentData
    BY InvCurrent
  <1> QED
    BY <1>1, <1>2, <1>3, PTL DEF Spec

-----------------------------------------------------------------------------
(* What is thrown away.                                                    *)

\* The traversal visits a task after those it depends on, and what it does not
\* take to be done is not up to date.
VisitedBefore ==
    pc = "visit" =>
        /\ \A t \in visited \cup ToSet(queue) : DepOf(t) \subseteq visited
        /\ \A t \in visited : done[t] = 0 => ~UpToDate(t)

\* The files of a task may go.
Removable(t) ==
    /\ ~UpToDate(t)
    /\ t \in Resume /\ mark[t] = 0 /\ recover /\ out[t] # "none" =>
           \/ \E d \in DepOf(t) : ~UpToDate(d)
           \/ ~(prov[t] \subseteq Ideal(t))

CleanupRemovable == Deciding => \A t \in ToSet(cleanup) : Removable(t)

\* Between the two steps of a removal the data has gone, if it comes first.
HalfRemoved ==
    pc = "clean2" /\ Head(cleanup) \in MarkLast => out[Head(cleanup)] = "none"

KeepInv == VisitedBefore /\ CleanupRemovable /\ HalfRemoved

\* The value of a parameter can be read from the facts of a task that depends on it.
LEMMA OwnValue ==
    ASSUME NEW t \in Others, NEW m, NEW s, NEW p \in ParamOf(t)
    PROVE  <<t, p, s[p]>> \in Whole(t, m, s) /\ \A v : <<t, p, v>> \in Whole(t, m, s) => v = s[p]
  <1>1. t \in Ancestors[t] /\ t # Root
    BY AncestorsClosed DEF Others
  <1>2. <<t, p, s[p]>> \in Whole(t, m, s)
    BY <1>1 DEF Whole, Own
  <1>3. ASSUME NEW v, <<t, p, v>> \in Whole(t, m, s) PROVE v = s[p]
    <2>1. <<t, p, v>> # NumberFact(m)
      BY <1>1 DEF NumberFact
    <2>2. PICK u \in Ancestors[t] : <<t, p, v>> \in Own(u, s)
      BY <1>3, <2>1 DEF Whole
    <2>3. PICK q \in ParamOf(u) : <<t, p, v>> = <<u, q, s[q]>>
      BY <2>2 DEF Own
    <2> QED
      BY <2>3
  <1> QED
    BY <1>2, <1>3

\* The facts of a task are different when one of its parameters is.
LEMMA OtherValue ==
    ASSUME NEW t \in Others, NEW m, NEW k, NEW s, NEW r, NEW p \in ParamOf(t), s[p] # r[p]
    PROVE  ~(Whole(t, m, s) \subseteq Whole(t, k, r))
  BY OwnValue

\* What a task that is up to date depends on is up to date, and it is linked.
LEMMA UpToDateBefore ==
    ASSUME NEW t \in Tasks, UpToDate(t)
    PROVE  Linked(t) /\ \A d \in DepOf(t) : UpToDate(d)
  <1>1. Linked(t)
    BY DEF Linked, LinkedBy, UpToDate
  <1>2. \A d \in DepOf(t) : UpToDate(d)
    BY AncestorsOfDep DEF UpToDate
  <1> QED
    BY <1>1, <1>2

\* Removing files brings nothing up to date.
LEMMA StaleStays ==
    ASSUME IInv, NEW x \in Others,
           mark' = mark \/ mark' = [mark EXCEPT ![x] = 0],
           UNCHANGED <<out, prov>> \/ Removed(x),
           UNCHANGED <<n, param>>,
           NEW t \in Tasks, UpToDate(t)'
    PROVE  UpToDate(t)
  <1>1. /\ mark \in [Tasks -> Nat] /\ out \in [Tasks -> {"none", "part", "whole"}]
        /\ prov \in [Tasks -> SUBSET Facts]
    BY DEF IInv, DiskInv, DiskTypes
  <1>2. x \in Tasks /\ x # Root
    BY DEF Others
  <1>3. /\ \A u \in Tasks : u # x => mark'[u] = mark[u] /\ out'[u] = out[u] /\ prov'[u] = prov[u]
        /\ \/ mark'[x] = mark[x]
           \/ mark'[x] = 0
        /\ \/ out'[x] = out[x] /\ prov'[x] = prov[x]
           \/ out'[x] = "none"
    BY <1>1, <1>2 DEF Removed
  <1>4. Ancestors[t] \subseteq Tasks /\ \A u \in Ancestors[t] : DepOf(u) \subseteq Ancestors[t]
    BY AncestorsClosed
  <1>5. \A u \in Ancestors[t] \ {Root} :
            /\ mark'[u] # 0 /\ out'[u] = "whole" /\ prov'[u] = Ideal(u)
            /\ \A d \in DepOf(u) : mark'[d] <= mark'[u]
    BY DEF UpToDate, Ideal
  <1>6. \A u \in Ancestors[t] : mark'[u] = mark[u]
    BY <1>2, <1>3, <1>4, <1>5
  <1>7. \A u \in Ancestors[t] \ {Root} : out'[u] = out[u] /\ prov'[u] = prov[u]
    BY <1>2, <1>3, <1>4, <1>5
  <1> QED
    BY <1>4, <1>5, <1>6, <1>7 DEF UpToDate

\* What is marked and depends on a changed parameter is not up to date.
LEMMA ChangedStale ==
    ASSUME IInv, pc = "visit", NEW t \in Others, NEW p \in ParamOf(t) \cap diff
    PROVE  /\ ~UpToDate(t)
           /\ t \in Resume /\ out[t] # "none" /\ (\A d \in DepOf(t) : UpToDate(d)) =>
                  ~(prov[t] \subseteq Ideal(t))
  <1>1. t \in Tasks /\ t # Root /\ t \in Ancestors[t]
    BY AncestorsClosed DEF Others
  <1>2. recover /\ pfile[p] # param[p] /\ Written = pfile /\ nfile = n
    BY DEF IInv, RunInv, KeptSame, Deciding, Changed, Called, Written
  <1>3. Ideal(t) = Whole(t, n, param)
    BY <1>1, WholeIdeal
  <1>4. \A m : ~(Whole(t, m, pfile) \subseteq Whole(t, n, param))
    BY <1>2, OtherValue
  <1>5. ASSUME UpToDate(t) PROVE FALSE
    <2>1. mark[t] # 0 /\ out[t] = "whole" /\ prov[t] = Ideal(t)
      BY <1>1, <1>5 DEF UpToDate
    <2>2. prov[t] = Whole(t, nfile, Written)
      BY <1>1, <1>5, <2>1, UpToDateBefore DEF IInv, DiskInv, MarkedRight
    <2> QED
      BY <1>2, <1>3, <1>4, <2>1, <2>2
  <1>6. ASSUME t \in Resume, out[t] # "none", \A d \in DepOf(t) : UpToDate(d)
        PROVE  ~(prov[t] \subseteq Ideal(t))
    <2>1. prov[t] \in Batches(t)
      BY <1>6 DEF Batches
    <2>2. \A d \in DepOf(t) : Linked(d)
      BY <1>1, <1>6, Table, UpToDateBefore
    <2>3. \E m : prov[t] = Whole(t, m, pfile)
      BY <1>2, <1>6, <2>1, <2>2 DEF IInv, DiskInv, BatchesRight
    <2> QED
      BY <1>3, <1>4, <2>3
  <1> QED
    BY <1>5, <1>6

\* A task that is not done although it is marked, or that has to be begun again
\* although it could be resumed, is rightly put on the list.
LEMMA VisitKeep ==
    ASSUME IInv, KeepInv, InOrder, Visit
    PROVE  KeepInv'
  <1> DEFINE t == Head(queue)
             since == IF t = Root THEN done[t] ELSE mark[t]
             fresh == ~OutOfDate(t, since) /\ ParamOf(t) \cap diff = {}
             isDone == fresh /\ since # 0
             resumes == fresh /\ t \in Resume /\ recover
  <1>1. /\ pc = "visit" /\ pc' = "visit" /\ queue # <<>>
        /\ UNCHANGED <<mark, out, prov, n, param, recover, diff>>
    BY DEF Visit, files, config, world
  <1>2. /\ t \in Tasks /\ Tail(queue) \in Seq(Tasks)
        /\ ToSet(queue) = {t} \cup ToSet(Tail(queue))
    BY <1>1, FirstAndRest DEF IInv, RunInv, DriverTypes
  <1>3. HalfRemoved'
    BY <1>1 DEF HalfRemoved
  <1>4. \A u : (UpToDate(u)' <=> UpToDate(u)) /\ (Removable(u)' <=> Removable(u))
    BY <1>1 DEF UpToDate, Ideal, Removable
  <1>5. Deciding /\ Deciding'
    BY <1>1 DEF Deciding
  <1>6. /\ \A u \in visited \cup ToSet(queue) : DepOf(u) \subseteq visited
        /\ \A u \in visited : done[u] = 0 => ~UpToDate(u)
        /\ \A u \in ToSet(cleanup) : Removable(u)
    BY <1>1, <1>5 DEF KeepInv, VisitedBefore, CleanupRemovable
  <1>7. CASE t \in visited
    <2>1. queue' = Tail(queue) /\ visited' = visited /\ done' = done /\ cleanup' = cleanup
      BY <1>7 DEF Visit, Seen
    <2>2. VisitedBefore'
      BY <1>2, <1>4, <1>6, <2>1 DEF VisitedBefore
    <2>3. CleanupRemovable'
      BY <1>4, <1>6, <2>1 DEF CleanupRemovable
    <2> QED
      BY <1>3, <2>2, <2>3 DEF KeepInv
  <1>8. CASE t \notin visited
    <2>1. PICK rdep \in SetToSeqs(ReverseOf(Dep, t)), rreq \in SetToSeqs(ReverseOf(Req, t)) :
              queue' = Tail(queue) \o rdep \o rreq
      BY <1>8 DEF Visit, Seen
    <2>2. /\ visited' = visited \cup {t}
          /\ done' = [done EXCEPT ![t] = IF isDone THEN since ELSE 0]
          /\ cleanup' = IF ~isDone /\ ~resumes /\ HasFiles(t) THEN Append(cleanup, t) ELSE cleanup
      BY <1>8 DEF Visit, Seen
    <2>3. ToSet(queue') \subseteq ToSet(queue) \cup ReverseOf(Dep, t) \cup ReverseOf(Req, t)
      <3>1. ReverseOf(Dep, t) \subseteq Tasks /\ ReverseOf(Req, t) \subseteq Tasks
        BY DEF ReverseOf
      <3>2. IsFiniteSet(ReverseOf(Dep, t)) /\ IsFiniteSet(ReverseOf(Req, t))
        BY <3>1, Table, FS_Subset
      <3>3. /\ rdep \in Seq(ReverseOf(Dep, t)) /\ ToSet(rdep) = ReverseOf(Dep, t)
            /\ rreq \in Seq(ReverseOf(Req, t)) /\ ToSet(rreq) = ReverseOf(Req, t)
        BY <3>2, <2>1, OrdersOfSet
      <3>4. rdep \in Seq(Tasks) /\ rreq \in Seq(Tasks)
        BY <3>1, <3>3, SeqMonotonic
      <3>5. PICK q : q = Tail(queue)
        OBVIOUS
      <3>6. q \in Seq(Tasks)
        BY <1>2, <3>5
      <3>7. q \o rdep \in Seq(Tasks) /\ ToSet(q \o rdep) = ToSet(q) \cup ToSet(rdep)
        BY <3>4, <3>6, ConcatSet
      <3>8. PICK r : r = q \o rdep
        OBVIOUS
      <3>9. r \in Seq(Tasks)
        BY <3>7, <3>8
      <3>10. ToSet(r \o rreq) = ToSet(r) \cup ToSet(rreq)
        BY <3>4, <3>9, ConcatSet
      <3>11. queue' = r \o rreq
        BY <2>1, <3>5, <3>8
      <3> QED
        BY <1>2, <3>3, <3>5, <3>7, <3>8, <3>10, <3>11
    <2>4. visited \subseteq Tasks /\ visited' \subseteq Tasks
      BY <1>2, <2>2 DEF IInv, RunInv, DriverTypes
    <2>5. DepOf(t) \subseteq visited /\ \A u \in visited' : DepOf(u) \subseteq visited'
      BY <1>2, <1>6, <2>2
    <2>6. ASSUME NEW w \in ReverseOf(Dep, t) \cup ReverseOf(Req, t) PROVE DepOf(w) \subseteq visited'
      <3>1. w \in Tasks /\ t \in ToSet(Dep[w]) \cup ToSet(Req[w])
        BY DEF ReverseOf
      <3>2. Dep[w] \in Seq(Tasks) /\ Req[w] \in Seq(Tasks)
        BY <3>1, Table
      <3>3. t \in ToSet(Prerequisites(w))
        BY <3>1, <3>2, ConcatSet DEF Prerequisites
      <3>4. DepOf(w) \subseteq Ancestors[t]
        BY <3>1, <3>3 DEF InOrder
      <3>5. Ancestors[t] \subseteq visited'
        BY <1>2, <2>2, <2>4, <2>5, AncestorsLeast
      <3> QED
        BY <3>4, <3>5
    <2>7. \A u \in visited' \cup ToSet(queue') : DepOf(u) \subseteq visited'
      BY <1>6, <2>2, <2>3, <2>5, <2>6
    <2>8. /\ done \in [Tasks -> Nat] /\ mark \in [Tasks -> Nat]
          /\ done[Root] = mark[Root] /\ done[Root] # 0
          /\ \A d \in Others : done[d] # 0 => done[d] = mark[d]
      BY <1>1 DEF IInv, RunInv, DriverTypes, DiskInv, DiskTypes, NumberThere, Called, DoneLinked
    <2>9. t = Root => isDone
      <3>1. ASSUME t = Root PROVE DepOf(t) = {} /\ ParamOf(t) = {}
        BY <3>1, Table, TableAssumption
      <3> QED
        BY <2>8, <3>1 DEF OutOfDate
    <2>10. ASSUME ~isDone, NEW d \in DepOf(t), done[d] = 0 PROVE ~UpToDate(d)
      BY <1>6, <2>5, <2>10
    <2> HIDE DEF since
    <2>11. t # Root => since = mark[t] /\ t \in Others
      BY <1>2 DEF since, Others
    <2>12. ASSUME ~isDone PROVE ~UpToDate(t)
      <3>1. SUFFICES ASSUME UpToDate(t) PROVE FALSE
        OBVIOUS
      <3>2. t # Root /\ t \in Others /\ since = mark[t]
        BY <2>9, <2>11, <2>12
      <3>3. mark[t] # 0 /\ \A d \in DepOf(t) : mark[d] <= mark[t] /\ UpToDate(d)
        BY <1>2, <3>1, <3>2, AncestorsClosed, UpToDateBefore DEF UpToDate
      <3>4. CASE OutOfDate(t, since)
        <4>1. PICK d \in DepOf(t) : done[d] = 0 \/ done[d] > mark[t]
          BY <3>2, <3>4 DEF OutOfDate
        <4>2. d \in Tasks
          BY <1>2, Table
        <4>3. done[d] # 0
          BY <1>6, <2>5, <3>3, <4>1
        <4>4. done[d] = mark[d]
          BY <2>8, <4>2, <4>3 DEF Others
        <4> QED
          BY <1>2, <2>8, <3>3, <4>1, <4>2, <4>3, <4>4
      <3>5. CASE ParamOf(t) \cap diff # {}
        BY <1>1, <3>1, <3>2, <3>5, ChangedStale
      <3> QED
        BY <2>12, <3>2, <3>3, <3>4, <3>5
    <2>13. ASSUME ~isDone, ~resumes PROVE Removable(t)
      <3>1. t # Root /\ t \in Others /\ since = mark[t]
        BY <2>9, <2>11, <2>13
      <3>2. SUFFICES ASSUME t \in Resume, mark[t] = 0, recover, out[t] # "none",
                            \A d \in DepOf(t) : UpToDate(d)
                     PROVE  ~(prov[t] \subseteq Ideal(t))
        BY <2>12, <2>13 DEF Removable
      <3>3. CASE OutOfDate(t, since)
        <4>1. PICK d \in DepOf(t) : done[d] = 0
          BY <3>1, <3>2, <3>3 DEF OutOfDate
        <4> QED
          BY <1>6, <2>5, <3>2, <4>1
      <3>4. CASE ParamOf(t) \cap diff # {}
        BY <1>1, <3>1, <3>2, <3>4, ChangedStale
      <3> QED
        BY <2>13, <3>2, <3>3, <3>4
    <2>14. VisitedBefore'
      <3>1. ASSUME NEW u \in visited', done'[u] = 0 PROVE ~UpToDate(u)
        <4>1. CASE u = t
          <5>1. done'[t] = IF isDone THEN since ELSE 0
            BY <1>2, <2>2, <2>8
          <5>2. ~isDone
            BY <3>1, <4>1, <5>1
          <5> QED
            BY <2>12, <4>1, <5>2
        <4>2. CASE u # t
          <5>1. u \in visited /\ u \in Tasks /\ done[u] = 0
            BY <2>2, <2>4, <2>8, <3>1, <4>2
          <5> QED
            BY <1>6, <5>1
        <4> QED
          BY <4>1, <4>2
      <3> QED
        BY <1>4, <2>7, <3>1 DEF VisitedBefore
    <2>15. CleanupRemovable'
      <3> HIDE DEF t, isDone, resumes
      <3>1. CASE ~isDone /\ ~resumes /\ HasFiles(t)
        <4>1. cleanup \in Seq(Tasks) /\ cleanup' = Append(cleanup, t)
          BY <2>2, <3>1 DEF IInv, RunInv, DriverTypes
        <4>2. ToSet(cleanup') = ToSet(cleanup) \cup {t}
          BY <1>2, <4>1, AppendSet
        <4> QED
          BY <1>4, <1>6, <2>13, <3>1, <4>2 DEF CleanupRemovable
      <3>2. CASE ~(~isDone /\ ~resumes /\ HasFiles(t))
        BY <1>4, <1>6, <2>2, <3>2 DEF CleanupRemovable
      <3> QED
        BY <3>1, <3>2
    <2> QED
      BY <1>3, <2>14, <2>15 DEF KeepInv
  <1> QED
    BY <1>7, <1>8

\* The list remains right while its tasks are removed.
LEMMA CleanFirstKeep ==
    ASSUME IInv, KeepInv, InOrder, Sheltered, CleanFirst
    PROVE  KeepInv'
  <1> DEFINE x == Head(cleanup)
  <1>1. /\ pc = "clean" /\ cleanup # <<>> /\ answer # "l"
    BY DEF IInv, RunInv, DriverTypes, Sheltered, CleanFirst
  <1>2. /\ pc' = "clean2" /\ cleanup' = cleanup /\ UNCHANGED <<n, param, recover>>
        /\ IF x \in MarkLast THEN Removed(x) /\ UNCHANGED mark
           ELSE mark' = [mark EXCEPT ![x] = 0] /\ UNCHANGED <<out, prov>>
    BY <1>1 DEF CleanFirst, config
  <1>3. x \in ToSet(cleanup) /\ x \in Tasks /\ cleanup \in Seq(Tasks)
    BY <1>1, FirstAndRest DEF IInv, RunInv, DriverTypes
  <1>4. x \in Others
    BY <1>1, <1>3 DEF IInv, RunInv, CleanupRight, Deciding, Others
  <1>5. \A u \in ToSet(cleanup) : u \in Tasks /\ Removable(u)
    <2>1. ToSet(cleanup) \subseteq Tasks
      BY <1>3 DEF ToSet
    <2> QED
      BY <1>1, <2>1 DEF KeepInv, CleanupRemovable, Deciding
  <1> HIDE DEF x
  <1>6. \A u \in Tasks : UpToDate(u)' => UpToDate(u)
    BY <1>2, <1>4, StaleStays
  <1>7. /\ mark \in [Tasks -> Nat] /\ out \in [Tasks -> {"none", "part", "whole"}]
        /\ prov \in [Tasks -> SUBSET Facts]
    BY DEF IInv, DiskInv, DiskTypes
  <1>8. ASSUME NEW u \in ToSet(cleanup) PROVE Removable(u)'
    <2>1. u \in Tasks /\ Removable(u) /\ DepOf(u) \subseteq Tasks
      BY <1>5, <1>8, Table
    <2>2. Ideal(u)' = Ideal(u)
      BY <1>2 DEF Ideal
    <2>3. SUFFICES ASSUME u \in Resume, mark'[u] = 0, recover, out'[u] # "none"
                   PROVE  mark[u] = 0 /\ out[u] # "none" /\ prov'[u] = prov[u]
      BY <1>2, <1>6, <2>1, <2>2 DEF Removable
    <2>4. CASE u = x
      <3>1. u \in MarkLast
        BY <2>3 DEF InOrder
      <3>2. out'[u] = "none"
        BY <1>2, <1>3, <1>7, <2>4, <3>1 DEF Removed
      <3> QED
        BY <2>3, <3>2
    <2>5. CASE u # x
      BY <1>2, <1>7, <2>1, <2>3, <2>5 DEF Removed
    <2> QED
      BY <2>4, <2>5
  <1>9. CleanupRemovable'
    BY <1>2, <1>8 DEF CleanupRemovable
  <1>10. HalfRemoved'
    BY <1>2, <1>3, <1>7 DEF HalfRemoved, Removed, x
  <1>11. VisitedBefore'
    BY <1>2 DEF VisitedBefore
  <1> QED
    BY <1>9, <1>10, <1>11 DEF KeepInv

LEMMA CleanRestKeep ==
    ASSUME IInv, KeepInv, CleanRest
    PROVE  KeepInv'
  <1> DEFINE x == Head(cleanup)
  <1>1. /\ pc = "clean2" /\ pc' = "clean" /\ cleanup' = Tail(cleanup)
        /\ UNCHANGED <<n, param, recover>>
        /\ Removed(x) /\ mark' = [mark EXCEPT ![x] = 0]
    BY DEF CleanRest, config
  <1>2. cleanup # <<>>
    BY <1>1 DEF IInv, RunInv, VisitedSorted
  <1>3. /\ cleanup \in Seq(Tasks) /\ x \in Tasks /\ x \in ToSet(cleanup)
        /\ ToSet(cleanup') \subseteq ToSet(cleanup)
    BY <1>1, <1>2, FirstAndRest DEF IInv, RunInv, DriverTypes
  <1>4. x \in Others
    BY <1>1, <1>3 DEF IInv, RunInv, CleanupRight, Deciding, Others
  <1>5. \A u \in ToSet(cleanup) : u \in Tasks /\ Removable(u)
    <2>1. ToSet(cleanup) \subseteq Tasks
      BY <1>3 DEF ToSet
    <2> QED
      BY <1>1, <2>1 DEF KeepInv, CleanupRemovable, Deciding
  <1> HIDE DEF x
  <1>6. \A u \in Tasks : UpToDate(u)' => UpToDate(u)
    BY <1>1, <1>4, StaleStays
  <1>7. /\ mark \in [Tasks -> Nat] /\ out \in [Tasks -> {"none", "part", "whole"}]
        /\ prov \in [Tasks -> SUBSET Facts]
    BY DEF IInv, DiskInv, DiskTypes
  <1>8. ASSUME NEW u \in ToSet(cleanup) PROVE Removable(u)'
    <2>1. u \in Tasks /\ Removable(u) /\ DepOf(u) \subseteq Tasks
      BY <1>5, <1>8, Table
    <2>2. Ideal(u)' = Ideal(u)
      BY <1>1 DEF Ideal
    <2>3. SUFFICES ASSUME mark'[u] = 0, out'[u] # "none"
                   PROVE  mark[u] = 0 /\ out[u] # "none" /\ prov'[u] = prov[u]
      BY <1>1, <1>6, <2>1, <2>2 DEF Removable
    <2>4. u # x
      BY <1>1, <1>3, <1>7, <2>3 DEF Removed
    <2> QED
      BY <1>1, <1>7, <2>1, <2>3, <2>4 DEF Removed
  <1>9. CleanupRemovable'
    BY <1>1, <1>3, <1>8 DEF CleanupRemovable
  <1>10. HalfRemoved' /\ VisitedBefore'
    BY <1>1 DEF HalfRemoved, VisitedBefore
  <1> QED
    BY <1>9, <1>10 DEF KeepInv

\* The other steps do not bear on it.
LEMMA OtherKeep ==
    ASSUME IInv, KeepInv, [Next]_vars, ~Visit, ~CleanFirst, ~CleanRest
    PROVE  KeepInv'
  <1>1. ASSUME pc' # "visit", pc' # "clean2", cleanup' = cleanup, Deciding,
               UNCHANGED <<mark, out, prov, n, param, recover>>
        PROVE  KeepInv'
    <2>1. \A u : Removable(u)' <=> Removable(u)
      BY <1>1 DEF UpToDate, Ideal, Removable
    <2>2. CleanupRemovable'
      BY <1>1, <2>1 DEF KeepInv, CleanupRemovable
    <2> QED
      BY <1>1, <2>2 DEF KeepInv, VisitedBefore, HalfRemoved
  <1>2. ASSUME ~Deciding' PROVE KeepInv'
    BY <1>2 DEF KeepInv, VisitedBefore, CleanupRemovable, HalfRemoved, Deciding
  <1>3. ASSUME NEW m, NEW s, Call(m, s) PROVE KeepInv'
    <2>1. /\ pc' = "visit" /\ visited' = {} /\ queue' = <<Root>> /\ cleanup' = <<>>
      BY <1>3 DEF Call
    <2>2. ToSet(queue') = {Root} /\ ToSet(cleanup') = {}
      BY <2>1 DEF ToSet
    <2> QED
      BY <2>1, <2>2, Table DEF KeepInv, VisitedBefore, CleanupRemovable, HalfRemoved
  <1>4. CASE VisitEnd
    <2>1. /\ pc = "visit" /\ pc' \in {"param", "ask"} /\ cleanup' = cleanup
          /\ UNCHANGED <<mark, out, prov, n, param, recover>>
      BY <1>4 DEF VisitEnd, files, config
    <2> QED
      BY <1>1, <2>1 DEF Deciding
  <1>5. ASSUME NEW a \in Answers, Ask(a) PROVE KeepInv'
    <2>1. /\ pc = "ask" /\ pc' \in {"off", "clean"} /\ cleanup' = cleanup
          /\ UNCHANGED <<mark, out, prov, n, param, recover>>
      BY <1>5 DEF Ask, files, config
    <2> QED
      BY <1>1, <2>1 DEF Deciding
  <1>6. CASE CleanEnd
    <2>1. /\ pc = "clean" /\ pc' = "param" /\ cleanup' = cleanup
          /\ UNCHANGED <<mark, out, prov, n, param, recover>>
      BY <1>6 DEF CleanEnd, files, config, search
    <2> QED
      BY <1>1, <2>1 DEF Deciding
  <1>7. CASE WriteParamOpen \/ WriteParamClose \/ Return \/ Descend \/ End \/ Kill
    BY <1>2, <1>7 DEF WriteParamOpen, WriteParamClose, Return, Descend, End, Kill, AtTask, Deciding
  <1>8. CASE (\E t \in Tasks : Begin(t)) \/ Fetch \/ SieveFilter \/ Finish \/ Mark
    <2>1. pc' \in {"made", "off", "body", "task"}
      BY <1>8 DEF Begin, Fetch, SieveFilter, Finish, Mark
    <2> QED
      BY <1>2, <2>1 DEF Deciding
  <1>9. CASE UNCHANGED vars
    <2>1. UNCHANGED <<mark, out, prov, n, param, recover, pc, cleanup, visited, queue, done>>
      BY <1>9 DEF vars, files, config, search
    <2>2. \A u : (Removable(u)' <=> Removable(u)) /\ (UpToDate(u)' <=> UpToDate(u))
      BY <2>1 DEF UpToDate, Ideal, Removable
    <2> QED
      BY <2>1, <2>2 DEF KeepInv, VisitedBefore, CleanupRemovable, HalfRemoved, Deciding
  <1>10. RunAgain \/ RunChanged => \E m, s : Call(m, s)
    BY DEF RunAgain, RunChanged
  <1> QED
    BY <1>3, <1>4, <1>5, <1>6, <1>7, <1>8, <1>9, <1>10 DEF Next, Driver, Body

\* A distributed task that begins removes its files only if they belong to
\* another number.
LEMMA BeginRemoves ==
    ASSUME IInv, NEW x \in Tasks, Begin(x), NEW t \in Tasks, out[t] # "none", out'[t] = "none"
    PROVE  /\ ~UpToDate(t)
           /\ t \in Resume => ~(prov[t] \subseteq Ideal(t))
  <1>1. /\ x \in Others /\ done[x] = 0 /\ pc = "task" /\ mark[x] = 0
        /\ \A d \in DepOf(x) : done[d] # 0
    BY ReadyFacts DEF Begin
  <1>2. Working
    BY <1>1 DEF Working
  <1>3. out \in [Tasks -> {"none", "part", "whole"}]
    BY <1>2, WorkTypes
  <1>4. x \in Dist /\ InputsWhole(x) /\ ~PassesCheck(x) /\ Removed(x)
    BY <1>3 DEF Begin
  <1>5. t = x
    BY <1>3, <1>4 DEF Removed
  <1>6. ~UpToDate(t)
    BY <1>1, <1>5, AncestorsClosed DEF UpToDate, Others
  <1>7. x \in Resume /\ prov[x] \in Batches(x) /\ ~(Needs(x) \subseteq prov[x])
    BY <1>4, <1>5, TableAssumption DEF Batches, PassesCheck
  <1>8. ASSUME prov[x] \subseteq Ideal(x) PROVE FALSE
    <2>1. IF DepOf(x) = {Root}
          THEN \E m \in Numbers : prov[x] = Whole(x, m, param)
          ELSE (\A d \in DepOf(x) : Linked(d)) => prov[x] = Whole(x, n, param)
      BY <1>2, <1>7, WorkFacts DEF IInv, DiskInv, BatchesRight
    <2>2. Ideal(x) = Whole(x, n, param)
      BY WholeIdeal
    <2>3. prov[x] = Whole(x, n, param)
      <3>1. CASE DepOf(x) = {Root}
        <4>1. PICK m \in Numbers : prov[x] = Whole(x, m, param)
          BY <2>1, <3>1
        <4>2. NumberFact(m) \in Whole(x, n, param)
          BY <1>8, <2>2, <4>1 DEF Whole
        <4>3. m = n
          BY <4>2, WholeNumber
        <4> QED
          BY <4>1, <4>3
      <3>2. CASE DepOf(x) # {Root}
        BY <1>1, <1>2, <2>1, <3>2, Table, WorkLinked
      <3> QED
        BY <3>1, <3>2
    <2>4. Inputs(x) = Whole(x, n, param)
      BY <1>1, <1>2, <1>4, InputsRight
    <2> QED
      BY <1>7, <2>3, <2>4 DEF Inputs
  <1> QED
    BY <1>5, <1>6, <1>8

\* The data of a task goes in the steps of the clean-up and when a task begins.
LEMMA StepKeeps ==
    ASSUME IInv, KeepInv, Sheltered, [Next]_vars,
           NEW t \in Tasks, out[t] # "none", out'[t] = "none"
    PROVE  Removable(t)
  <1>1. out \in [Tasks -> {"none", "part", "whole"}]
    BY DEF IInv, DiskInv, DiskTypes
  <1>2. ASSUME cleanup # <<>>, pc \in {"clean", "clean2"}, Removed(Head(cleanup))
        PROVE  Removable(t)
    <2>1. Head(cleanup) \in ToSet(cleanup) /\ Head(cleanup) \in Tasks
      BY <1>2, FirstAndRest DEF IInv, RunInv, DriverTypes
    <2>2. t = Head(cleanup)
      BY <1>1, <1>2 DEF Removed
    <2> QED
      BY <1>2, <2>1, <2>2 DEF KeepInv, CleanupRemovable, Deciding
  <1>3. CASE CleanFirst
    BY <1>2, <1>3 DEF CleanFirst
  <1>4. CASE CleanRest
    <2>1. pc = "clean2" /\ Removed(Head(cleanup))
      BY <1>4 DEF CleanRest
    <2>2. cleanup # <<>>
      BY <2>1 DEF IInv, RunInv, VisitedSorted
    <2> QED
      BY <1>2, <2>1, <2>2
  <1>5. CASE \E x \in Tasks : Begin(x)
    BY <1>5, BeginRemoves DEF Removable
  <1>6. CASE Fetch \/ SieveFilter \/ Finish
    BY <1>1, <1>6 DEF Fetch, SieveFilter, Finish
  <1>7. CASE UNCHANGED out
    BY <1>7
  <1>8. ASSUME NEW m, NEW s, Call(m, s) PROVE UNCHANGED out
    BY <1>8 DEF Call
  <1>9. RunAgain \/ RunChanged => UNCHANGED out
    BY <1>8 DEF RunAgain, RunChanged
  <1>10. \/ Visit \/ VisitEnd \/ (\E a \in Answers : Ask(a)) \/ CleanEnd \/ WriteParamOpen
         \/ WriteParamClose \/ Return \/ Descend \/ Mark \/ End \/ Kill \/ UNCHANGED vars
         => UNCHANGED out
    BY DEF Visit, VisitEnd, Ask, CleanEnd, WriteParamOpen, WriteParamClose, Return, Descend, Mark,
           End, Kill, vars, files
  <1> QED
    BY <1>3, <1>4, <1>5, <1>6, <1>7, <1>9, <1>10 DEF Next, Driver, Body

\* Whatever the driver removes, in the clean-up or when it checks the files of a
\* distributed task, is out of date, and what a resumable task could go on with
\* is not removed.
THEOREM NothingLost ==
    ASSUME Sheltered, InOrder
    PROVE  Spec => NothingThrownAway
  <1>1. Init => IInv /\ KeepInv
    <2>1. Init => KeepInv
      BY DEF Init, KeepInv, VisitedBefore, CleanupRemovable, HalfRemoved, Deciding
    <2> QED
      BY <2>1, InitInv
  <1>2. IInv /\ KeepInv /\ [Next]_vars => IInv' /\ KeepInv'
    BY NextInv, VisitKeep, CleanFirstKeep, CleanRestKeep, OtherKeep
  <1>3. IInv /\ KeepInv /\ [Next]_vars =>
            [\A t \in Tasks : out[t] # "none" /\ out'[t] = "none" =>
                /\ ~UpToDate(t)
                /\ t \in Resume /\ mark[t] = 0 /\ recover =>
                      \/ \E d \in DepOf(t) : ~UpToDate(d)
                      \/ ~(prov[t] \subseteq Ideal(t))]_vars
    BY StepKeeps DEF Removable
  <1> QED
    BY <1>1, <1>2, <1>3, PTL DEF Spec, NothingThrownAway

=============================================================================

------------------------------ MODULE TaskGraph ------------------------------
(***************************************************************************)
(* The driver of a factorization (do_init and do_task of cadofct.pm): a    *)
(* run reads the parameters, decides from the done files, their times and  *)
(* the parameters of the previous run which steps are up to date, removes  *)
(* the files of the others, and does what is missing.  The driver may be   *)
(* killed at any point, and run again, with the same or with other         *)
(* parameters.                                                             *)
(*                                                                         *)
(* The data of a step is abstracted to the facts it was computed from:     *)
(* <<t, p, v>> says that step t ran with value v of parameter p.           *)
(***************************************************************************)
EXTENDS Integers, FiniteSets, Sequences, SequencesExt, FiniteSetsExt

CONSTANTS
    Tasks, Dep, Req, Param, Resume, Dist, \* the table of tasks
    MarkLast,            \* tasks whose done file is not the first file removed
    Root, Target,        \* "init" and "sqrt"
    Numbers,             \* numbers to factor
    Settings,            \* values of the parameters, as functions; 0 is false
    Answers,             \* to "Are you OK to continue? [y/l/N]"
    Windows,             \* where the driver may be killed: "jobs", while a task
                         \* has jobs but no file; "files", in the removal of a
                         \* task's files; "param", while the parameter file is
                         \* written
    MaxKill, MaxChange   \* bounds: kills and refusals, changes of the parameters

NoNumber == 0
Absent == -1

Params == DOMAIN (CHOOSE s \in Settings : TRUE)

ParamOf(t) == Param[t] \cap Params

DepOf(t) == ToSet(Dep[t])

\* Sets that contain what their tasks depend on.
DepClosed == {S \in SUBSET Tasks : \A t \in S : DepOf(t) \subseteq S}

\* A task and everything it depends on: what is in all such sets around it.
Ancestors == [t \in Tasks |-> {u \in Tasks : \A S \in DepClosed : t \in S => u \in S}]

\* Everything depends on the number.  Whatever depends on the number directly
\* depends on nothing else, and the resumable tasks are the distributed ones.
ASSUME TableAssumption ==
    /\ IsFiniteSet(Tasks) /\ Root \in Tasks /\ Target \in Tasks
    /\ Dep \in [Tasks -> Seq(Tasks)] /\ Req \in [Tasks -> Seq(Tasks)]
    /\ Dep[Root] = <<>> /\ ParamOf(Root) = {}
    /\ \A t \in Tasks : Root \in Ancestors[t]
    /\ \A t \in Tasks : Root \in DepOf(t) => DepOf(t) = {Root}
    /\ Dist = Resume /\ Resume \subseteq Tasks \ {Root}

\* dup follows the sieve and purge follows dup; they depend on nothing else.
ASSUME FilterAssumption ==
    "sieve" \in Tasks =>
        /\ "sieve" \in Dist
        /\ {"dup", "purge"} \subseteq Tasks \ (Resume \cup {Root})
        /\ DepOf("dup") = {"sieve"} /\ DepOf("purge") = {"dup"}
        /\ ParamOf("dup") = {} /\ ParamOf("purge") = {}

ASSUME ValuesAssumption ==
    /\ Numbers \subseteq Nat \ {NoNumber}
    /\ Settings \subseteq [Params -> Nat]

ASSUME BoundsAssumption == {MaxKill, MaxChange} \subseteq Nat

VARIABLES
    \* The working directory.
    nfile,     \* the number in $name.n, or NoNumber
    pfile,     \* the values in $name.param; Absent for a parameter not there
    mark,      \* the time of each done file, 0 if there is none ($name.n's for init)
    out,       \* the data files of each task: "none", "part" or "whole"
    prov,      \* the facts the data files come from
    jobs,      \* the jobs file of each task: the facts of each batch of jobs
    \* The driver.
    pc,
    n, param,  \* the number and the parameters it was called with
    recover, diff,             \* do_init's $recover and the true %param_diff
    done,                      \* the `done' fields, 0 for undefined
    queue, visited, cleanup,   \* the traversal and its result
    answer,
    stack,                     \* the calls of do_task
    dupPurge,                  \* $dup_purge_done
    \* The rest of the world.
    clock,
    pace,      \* 1: a task takes longer than the resolution of file times; 0: it
               \* does not, and all done files of a run may have the same time
    kills, changes

files == <<nfile, pfile, mark, out, prov, jobs>>
config == <<n, param, recover, diff>>
search == <<queue, visited, cleanup, answer>>
world == <<clock, pace, kills, changes>>
vars == <<files, pc, config, done, search, stack, dupPurge, world>>

Nobody == [t \in Tasks |-> 0]

Init ==
    /\ nfile = NoNumber /\ pfile = [p \in Params |-> Absent]
    /\ mark = Nobody
    /\ out = [t \in Tasks |-> "none"] /\ prov = [t \in Tasks |-> {}]
    /\ jobs = [t \in Tasks |-> {}]
    /\ pc = "off"
    /\ n \in Numbers /\ param \in Settings /\ recover = FALSE /\ diff = {}
    /\ done = Nobody
    /\ queue = <<>> /\ visited = {} /\ cleanup = <<>> /\ answer = ""
    /\ stack = <<>> /\ dupPurge = FALSE
    /\ clock = 1 /\ pace \in {0, 1} /\ kills = 0 /\ changes = 0

-----------------------------------------------------------------------------
(* do_init.                                                                *)

\* %param_diff: only the parameters found in the old file are compared.
Changed(s) == {p \in Params : pfile[p] # Absent /\ pfile[p] # s[p]}

\* The driver is called.  The number is written to $name.n unless it is there;
\* the time of that file is the time of the task init.
Call(m, s) ==
    LET same == nfile = m
        now == 1 + Max({mark[t] : t \in Tasks})
    IN  /\ n' = m /\ param' = s
        /\ recover' = same
        /\ diff' = IF same THEN Changed(s) ELSE {}
        /\ nfile' = m
        /\ clock' = now
        /\ mark' = [mark EXCEPT ![Root] = IF same THEN @ ELSE now]
        /\ prov' = [prov EXCEPT ![Root] = {<<Root, "n", m>>}]
        /\ done' = [Nobody EXCEPT ![Root] = mark'[Root]]
        /\ queue' = <<Root>> /\ visited' = {} /\ cleanup' = <<>> /\ answer' = ""
        /\ stack' = <<>> /\ dupPurge' = FALSE
        /\ pc' = "visit"
        /\ UNCHANGED <<pfile, out, jobs, pace, kills>>

\* It is called again as it was, or with other arguments (also after its end).
RunAgain == pc = "off" /\ Call(n, param) /\ UNCHANGED changes

RunChanged ==
    /\ pc \in {"off", "end"}
    /\ changes < MaxChange /\ changes' = changes + 1
    /\ \E m \in Numbers, s \in Settings : <<m, s>> # <<n, param>> /\ Call(m, s)

ReverseOf(table, t) == {u \in Tasks : t \in ToSet(table[u])}

\* Mutant of OutOfDate: a dependency done within the same second is newer.
OutOfDateSameSecond(t, since) ==
    \E d \in DepOf(t) : done[d] = 0 \/ (since # 0 /\ done[d] >= since)

\* A dependency is not done, or it was done after the task.
OutOfDate(t, since) ==
    \E d \in DepOf(t) : done[d] = 0 \/ (since # 0 /\ done[d] > since)

\* There are files to clean up: data of the task, or its done file.
HasFiles(t) == out[t] # "none" \/ mark[t] # 0

\* Skip if already visited.
Seen(t) == t \in visited

\* One step of the traversal.  The test that all previous nodes have been
\* visited has no effect: its `next' leaves the inner loop only.
Visit ==
    LET t == Head(queue)
        since == IF t = Root THEN done[t] ELSE mark[t]
        fresh == ~OutOfDate(t, since) /\ ParamOf(t) \cap diff = {}
        isDone == fresh /\ since # 0
        resumes == fresh /\ t \in Resume /\ recover
    IN  /\ pc = "visit" /\ queue # <<>>
        /\ IF Seen(t)
           THEN queue' = Tail(queue) /\ UNCHANGED <<visited, done, cleanup>>
           ELSE /\ visited' = visited \cup {t}
                /\ \E rdep \in SetToSeqs(ReverseOf(Dep, t)),
                      rreq \in SetToSeqs(ReverseOf(Req, t)) :
                          queue' = Tail(queue) \o rdep \o rreq
                /\ done' = [done EXCEPT ![t] = IF isDone THEN since ELSE 0]
                /\ cleanup' = IF ~isDone /\ ~resumes /\ HasFiles(t)
                              THEN Append(cleanup, t) ELSE cleanup
        /\ UNCHANGED <<files, pc, config, answer, stack, dupPurge, world>>

VisitEnd ==
    /\ pc = "visit" /\ queue = <<>>
    /\ visited' = {}
    /\ pc' = IF cleanup = <<>> THEN "param" ELSE "ask"
    /\ UNCHANGED <<files, config, done, queue, cleanup, answer, stack, dupPurge, world>>

\* The user approves, or not (nor in time): "Aborting...".
Ask(a) ==
    /\ pc = "ask"
    /\ IF a = "N"
       THEN kills < MaxKill /\ kills' = kills + 1 /\ pc' = "off" /\ UNCHANGED answer
       ELSE pc' = "clean" /\ answer' = a /\ UNCHANGED kills
    /\ UNCHANGED <<files, config, done, queue, visited, cleanup, stack, dupPurge,
                   clock, pace, changes>>

Removed(t) ==
    /\ out' = [out EXCEPT ![t] = "none"]
    /\ prov' = [prov EXCEPT ![t] = {}]

\* The files of the first task of the list are removed, in the order of their
\* names; the answer `l' spares those of the linear algebra.
CleanFirst ==
    LET t == Head(cleanup)
    IN  /\ pc = "clean" /\ cleanup # <<>>
        /\ IF answer = "l" /\ t = "linalg"
           THEN cleanup' = Tail(cleanup) /\ UNCHANGED <<pc, mark, out, prov>>
           ELSE /\ pc' = "clean2" /\ UNCHANGED cleanup
                /\ IF t \in MarkLast
                   THEN Removed(t) /\ UNCHANGED mark
                   ELSE mark' = [mark EXCEPT ![t] = 0] /\ UNCHANGED <<out, prov>>
        /\ UNCHANGED <<nfile, pfile, jobs, config, done, queue, visited, answer,
                       stack, dupPurge, world>>

\* Mutant of CleanRest: the old jobs are left running.
CleanRestJobs ==
    LET t == Head(cleanup)
    IN  /\ pc = "clean2"
        /\ Removed(t) /\ mark' = [mark EXCEPT ![t] = 0]
        /\ cleanup' = Tail(cleanup) /\ pc' = "clean"
        /\ UNCHANGED <<nfile, pfile, jobs, config, done, queue, visited, answer,
                       stack, dupPurge, world>>

\* The rest of the files; and old jobs are killed, and their list removed.
CleanRest ==
    LET t == Head(cleanup)
    IN  /\ pc = "clean2"
        /\ Removed(t) /\ mark' = [mark EXCEPT ![t] = 0]
        /\ jobs' = IF t \in Dist THEN [jobs EXCEPT ![t] = {}] ELSE jobs
        /\ cleanup' = Tail(cleanup) /\ pc' = "clean"
        /\ UNCHANGED <<nfile, pfile, config, done, queue, visited, answer,
                       stack, dupPurge, world>>

CleanEnd ==
    /\ pc = "clean" /\ cleanup = <<>>
    /\ pc' = "param"
    /\ UNCHANGED <<files, config, done, search, stack, dupPurge, world>>

\* write_param: opening the file empties it ...
WriteParamOpen ==
    /\ pc = "param"
    /\ pfile' = [p \in Params |-> Absent]
    /\ pc' = "param2"
    /\ UNCHANGED <<nfile, mark, out, prov, jobs, config, done, search, stack,
                   dupPurge, world>>

\* ... and closing it writes the parameters that are not false.  Then
\* do_task("sqrt") is called.
WriteParamClose ==
    /\ pc = "param2"
    /\ pfile' = [p \in Params |-> IF param[p] = 0 THEN Absent ELSE param[p]]
    /\ stack' = <<Target>>
    /\ pc' = "task"
    /\ UNCHANGED <<nfile, mark, out, prov, jobs, config, done, search, dupPurge,
                   world>>

-----------------------------------------------------------------------------
(* do_task.                                                                *)

Top == Head(stack)

Prerequisites(t) == Dep[t] \o Req[t]

\* The places of the prerequisites still to do; do_task returns at once from
\* the others.
Missing(t) == {i \in DOMAIN Prerequisites(t) : done[Prerequisites(t)[i]] = 0}

AtTask == pc = "task" /\ stack # <<>>

Return ==
    /\ AtTask /\ done[Top] # 0
    /\ stack' = Tail(stack)
    /\ UNCHANGED <<files, pc, config, done, search, dupPurge, world>>

Descend ==
    /\ AtTask /\ done[Top] = 0
    /\ \E i \in Missing(Top) :
          /\ \A j \in Missing(Top) : i <= j
          /\ stack' = <<Prerequisites(Top)[i]>> \o stack
    /\ UNCHANGED <<files, pc, config, done, search, dupPurge, world>>

\* What the data of a task comes from when it is computed now.
Needs(t) == UNION {prov[d] : d \in DepOf(t)}
Inputs(t) == Needs(t) \cup {<<t, p, param[p]>> : p \in ParamOf(t)}

\* Tasks that go on with the files they find: the distributed ones, dup (with
\* what is in nodup/) and bwc (with its checkpoints).
Incremental == Dist \cup {"dup", "linalg"}

InputsWhole(t) == \A d \in DepOf(t) \ {Root} : out[d] = "whole"

Ready(t) == AtTask /\ t = Top /\ done[t] = 0 /\ Missing(t) = {}

\* "Make sure that all the output files that are already here are correct": the
\* check removes those of another number (polysel) or polynomial (sieve).
PassesCheck(t) == Needs(t) \subseteq prov[t]

\* do_<t> starts: it reads the data of the tasks before it (and dies if there
\* is none), and begins to write its own.  dup and purge have nothing to do
\* when the sieve has just done their work.  A distributed task checks the
\* files that are there, and starts jobs.
Begin(t) ==
    /\ Ready(t)
    /\ IF dupPurge /\ t \in {"dup", "purge"}
       THEN pc' = "made" /\ UNCHANGED <<out, prov, jobs>>
       ELSE IF ~InputsWhole(t)
       THEN pc' = "off" /\ UNCHANGED <<out, prov, jobs>>
       ELSE /\ pc' = "body"
            /\ IF t \in Dist
               THEN /\ jobs' = [jobs EXCEPT ![t] = @ \cup {Inputs(t)}]
                    /\ IF PassesCheck(t) THEN UNCHANGED <<out, prov>> ELSE Removed(t)
               ELSE /\ out' = [out EXCEPT ![t] = "part"]
                    /\ prov' = [prov EXCEPT ![t] =
                          Inputs(t) \cup IF t \in Incremental THEN @ ELSE {}]
                    /\ UNCHANGED jobs
    /\ UNCHANGED <<nfile, pfile, mark, config, done, search, stack, dupPurge, world>>

\* distribute_task fetches output files of the jobs.  The check keeps those
\* made for the present number (polysel) or polynomial (sieve).
Fetch ==
    /\ pc = "body" /\ Top \in Dist
    /\ out' = [out EXCEPT ![Top] = "part"]
    /\ prov' = [prov EXCEPT ![Top] =
          @ \cup UNION {b \in jobs[Top] : Needs(Top) \subseteq b}]
    /\ UNCHANGED <<nfile, pfile, mark, jobs, pc, config, done, search, stack, dupPurge,
                   world>>

\* The sieve tests whether it has enough relations by running dup and purge.
SieveFilter ==
    /\ pc = "body" /\ Top = "sieve" /\ out["sieve"] = "part"
    /\ out' = [out EXCEPT !["dup"] = "part", !["purge"] = "part"]
    /\ prov' = [prov EXCEPT !["dup"] = @ \cup prov["sieve"],
                            !["purge"] = prov["dup"] \cup prov["sieve"]]
    /\ UNCHANGED <<nfile, pfile, mark, jobs, pc, config, done, search, stack, dupPurge,
                   world>>

\* Mutant of Finish: the sieve ends although the purge it ran failed.
FinishWithoutPurge ==
    /\ pc = "body"
    /\ Top \in Dist => out[Top] = "part"
    /\ Top = "sieve" => out["purge"] = "part"
    /\ out' = [out EXCEPT ![Top] = "whole"]
    /\ jobs' = [jobs EXCEPT ![Top] = {}]
    /\ dupPurge' = (dupPurge \/ Top = "sieve")
    /\ pc' = "made"
    /\ UNCHANGED <<nfile, pfile, mark, prov, config, done, search, stack, world>>

\* do_<t> ends; do_sieve ends after a dup and a purge that were sufficient, and
\* its jobs are killed.
Finish ==
    /\ pc = "body"
    /\ Top \in Dist => out[Top] = "part"
    /\ Top = "sieve" => out["purge"] = "part"
    /\ out' = [t \in Tasks |->
          IF t = Top \/ (Top = "sieve" /\ t \in {"dup", "purge"})
          THEN "whole" ELSE out[t]]
    /\ jobs' = [jobs EXCEPT ![Top] = {}]
    /\ dupPurge' = (dupPurge \/ Top = "sieve")
    /\ pc' = "made"
    /\ UNCHANGED <<nfile, pfile, mark, prov, config, done, search, stack, world>>

\* The done file is written.
Mark ==
    /\ pc = "made"
    /\ clock' = clock + pace
    /\ mark' = [mark EXCEPT ![Top] = clock']
    /\ done' = [done EXCEPT ![Top] = clock']
    /\ stack' = Tail(stack)
    /\ pc' = "task"
    /\ UNCHANGED <<nfile, pfile, out, prov, jobs, config, search, dupPurge, pace,
                   kills, changes>>

End ==
    /\ pc = "task" /\ stack = <<>>
    /\ pc' = "end"
    /\ UNCHANGED <<files, config, done, search, stack, dupPurge, world>>

-----------------------------------------------------------------------------
(* The driver is killed, or one of its commands fails.                     *)

Exposed ==
    \/ (\E t \in Dist : jobs[t] # {} /\ ~HasFiles(t)) /\ "jobs" \notin Windows
    \/ pc = "clean2" /\ "files" \notin Windows
    \/ pc = "param2" /\ "param" \notin Windows

Kill ==
    /\ pc \notin {"off", "end"} /\ ~Exposed
    /\ kills < MaxKill /\ kills' = kills + 1
    /\ pc' = "off"
    /\ UNCHANGED <<files, config, done, search, stack, dupPurge, clock, pace, changes>>

\* What a run may not meet for OnlyCurrentData to hold (each is a way in which the
\* code does not keep it): a kill that leaves jobs without files, a kill within the
\* writing of the parameter file, a parameter that is false, and the answer l.
Sheltered ==
    /\ {"jobs", "param"} \cap Windows = {} /\ "l" \notin Answers
    /\ \A s \in Settings, p \in Params : s[p] # 0

\* The tables for which nothing is thrown away that can be used.  Whatever puts a
\* task into the queue of the traversal comes after all that the task depends on,
\* so that these are visited before it; and the data of a resumable task goes
\* before its done file.
InOrder ==
    /\ \A t \in Tasks : \A u \in ToSet(Prerequisites(t)) : DepOf(t) \subseteq Ancestors[u]
    /\ Resume \subseteq MarkLast

Driver ==
    \/ Visit \/ VisitEnd \/ (\E a \in Answers : Ask(a))
    \/ CleanFirst \/ CleanRest \/ CleanEnd \/ WriteParamOpen \/ WriteParamClose
    \/ Return \/ Descend \/ (\E t \in Tasks : Begin(t)) \/ Finish \/ Mark \/ End

Body == Fetch \/ SieveFilter

Next == Driver \/ Body \/ RunAgain \/ RunChanged \/ Kill

\* The driver goes on; a distributed task gets its output files in the end, and
\* the sieve tests them; and a driver that was killed is run again.
Fairness == WF_vars(Driver) /\ WF_vars(Fetch) /\ WF_vars(SieveFilter) /\ WF_vars(RunAgain)

Spec == Init /\ [][Next]_vars /\ Fairness

-----------------------------------------------------------------------------
(* Properties.                                                             *)

Values == UNION {{s[p] : p \in Params} : s \in Settings}
Facts == Tasks \X (Params \cup {"n"}) \X (Numbers \cup Values)

\* The type of the state.  No task is twice in the list of tasks to clean up.
TypeOK ==
    /\ nfile \in Numbers \cup {NoNumber}
    /\ pfile \in [Params -> Values \cup {Absent}]
    /\ mark \in [Tasks -> 0..clock] /\ done \in [Tasks -> 0..clock]
    /\ out \in [Tasks -> {"none", "part", "whole"}]
    /\ \A t \in Tasks : prov[t] \subseteq Facts /\ \A b \in jobs[t] : b \subseteq Facts
    /\ pc \in {"off", "visit", "ask", "clean", "clean2", "param", "param2", "task",
               "body", "made", "end"}
    /\ n \in Numbers /\ param \in Settings
    /\ recover \in BOOLEAN /\ diff \subseteq Params
    /\ {queue, cleanup, stack} \subseteq Seq(Tasks) /\ visited \subseteq Tasks
    /\ dupPurge \in BOOLEAN
    /\ \A i, j \in DOMAIN cleanup : cleanup[i] = cleanup[j] => i = j

\* The facts a task's data comes from when everything is computed from scratch
\* with the present number and parameters.
Ideal(t) ==
    {<<Root, "n", n>>} \cup
    UNION {{<<u, p, param[p]>> : p \in ParamOf(u)} : u \in Ancestors[t]}

Working == pc \in {"task", "body", "made", "end"}

\* What a run takes to be done, and so its result, is what a run from scratch
\* would have computed: whatever was killed, refused or changed before, nothing
\* is kept that comes from another number or from other parameters.
DoneIsCurrent ==
    Working => \A t \in Tasks :
        done[t] # 0 /\ (out[t] = "whole" \/ t = Root) => prov[t] = Ideal(t)

\* The data a resumable task starts from is current as well: files and jobs of
\* a run with other parameters are not mixed with new ones.
ResumedIsCurrent ==
    Working => \A t \in Resume : \A b \in jobs[t] \cup {prov[t]} :
        (\A d \in DepOf(t) : done[d] # 0) /\ Needs(t) \subseteq b => b \subseteq Ideal(t)

\* When the tasks are done, those not done and not resumable have no data left
\* over (what dup and bwc would go on with), except dup's and purge's from the
\* sieve of this run.
NoLeftovers ==
    pc = "task" /\ answer # "l" =>
        \A t \in Tasks \ Resume : done[t] = 0 /\ out[t] # "none" =>
            dupPurge /\ t \in {"dup", "purge"}

\* A task and what it depends on are complete, in order, and current.
UpToDate(t) ==
    \A u \in Ancestors[t] \ {Root} :
        /\ mark[u] # 0 /\ out[u] = "whole" /\ prov[u] = Ideal(u)
        /\ \A d \in DepOf(u) : mark[d] <= mark[u]

\* Nothing that can be used is removed: neither the data of a task that is up
\* to date, nor the files a resumable task could go on with.
NothingThrownAway ==
    [][\A t \in Tasks : out[t] # "none" /\ out'[t] = "none" =>
          /\ ~UpToDate(t)
          /\ t \in Resume /\ mark[t] = 0 /\ recover =>
                \/ \E d \in DepOf(t) : ~UpToDate(d)
                \/ ~(prov[t] \subseteq Ideal(t))]_vars

\* The done file of a task is only there when the data is ("it must mean that
\* the task has already been done").
MarkedIsMade == \A t \in Tasks \ {Root} : mark[t] # 0 => out[t] = "whole"

\* The driver reaches its end, unless it was killed while it removed the files
\* of a task and left the done file there.
Completes == <>(pc = "end" \/ (kills > 0 /\ ~MarkedIsMade))

\* Nothing of another number or of other parameters is used: not as a result,
\* not as the start of a resumed task, not as what a task finds in its place.
OnlyCurrentData == TypeOK /\ DoneIsCurrent /\ ResumedIsCurrent /\ NoLeftovers

=============================================================================

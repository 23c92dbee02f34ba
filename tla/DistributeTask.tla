--------------------------- MODULE DistributeTask ---------------------------
(***************************************************************************)
(* distribute_task (cadofct.pm): the master loop shared by polynomial      *)
(* selection and sieving.  It polls the jobs listed in <name>.<task>_jobs  *)
(* over ssh, fetches and repairs the output files of those that ended,     *)
(* starts new jobs in the holes of the range, and leaves the loop when     *)
(* is_done says so.  Around it: the remote processes, which write their    *)
(* output file one special-q at a time, finish, or die; hosts that reboot; *)
(* ssh and rsync calls that fail; and the crash of the master, which is    *)
(* run again "with the same parameters".                                   *)
(*                                                                         *)
(* The work is a range of numbers (special-q's, or leading coefficients).  *)
(* A file name is <<lo, hi, gz>>.  A file's content is the number q of     *)
(* numbers it has begun and its last line: "total" (the trailer a complete *)
(* job prints), "marker" (the line sieve_check appends after truncating),  *)
(* "none" (any other line), or "mixed" when two processes wrote to it.     *)
(* Each number completely sieved counts for one relation.                  *)
(***************************************************************************)
EXTENDS Ranges, Functions

CONSTANTS
    Host,                \* the machines
    Scenarios,           \* the settings and failures to consider: see Scenario
    MaxPid               \* bound on the pids in use

\* The options distribute_task is called with, and bounds on the failures.
Scenario ==
    [cores : [Host -> Nat],     \* the numbers of cores of the machines
     maxThreads : Nat \ {0},    \* opt max_threads
     parallel : BOOLEAN,        \* param parallel
     sieve : BOOLEAN,           \* do_sieve's options (partial, gzip, no max) or
                                \* do_polysel's (whole files, plain, a max)
     keep : BOOLEAN,            \* opt keep: leave the output files on the hosts
     min : Nat, max : Nat, len : Nat \ {0}, \* the range (max 0 if unset)
     needed : Nat,              \* the numbers the filtering needs
     lostStart : BOOLEAN,       \* a start ssh reports as failed may have succeeded
     crashInCheck : BOOLEAN,    \* the master may crash while it repairs a file
     aliens : BOOLEAN,          \* after a reboot, a pid may be another program's
     crash : Nat, death : Nat, net : Nat, reboot : Nat, \* failures at most
     slow : Nat,                \* jobs slow to create their file, at most
     cap : Nat]                 \* bound on the range

FirstCheck == 2                 \* param firstcheck
CheckRange == 1                 \* param checkrange

ASSUME PidAssumption == MaxPid \in Nat

ASSUME ScenariosAssumption ==
    \A c \in Scenarios : c \in Scenario /\ (c.sieve <=> c.max = 0)

VARIABLES
    scn,       \* the scenario, which does not change
    pc,        \* where the master is; "down" when it is not running
    jobs,      \* the list $jobs: [host, lo, hi, pid, th], pid 0 for "done"
    disk,      \* the contents of the jobs file ({} if there is none)
    local,     \* the output files in the working directory
    nrels, lastCheck,  \* do_sieve's counters
    work,      \* the master's locals: see NoWork
    rem,       \* the output files on each host
    procs,     \* the processes running: [host, lo, hi, pid, th, open]
    aliens,    \* <<host, pid>> of other programs
    faults     \* failures so far, per kind

master == <<pc, jobs, disk, local, nrels, lastCheck, work>>
remote == <<rem, procs, aliens>>
vars == <<scn, master, remote, faults>>

Sieve == scn.sieve
Parallel == scn.parallel
Keep == scn.keep
Cores == scn.cores
MaxThreads == scn.maxThreads
QMin == scn.min
QMax == scn.max
Size == scn.len

Name(x) == <<x.lo, x.hi, Sieve>>

NumberOf(f) == f[2] - f[1]

Empty == [x \in {} |-> x]

Fresh == [q |-> 0, end |-> "none"]

\* The numbers a file covers completely: the last one begun is only known to
\* be complete when a trailer or a marker follows it.
Complete(c) ==
    CASE c.end \in {"total", "marker"} -> c.q
      [] c.end = "none"                -> IF c.q = 0 THEN 0 ELSE c.q - 1
      [] c.end = "mixed"               -> 0

\* The master's local variables: the jobs still to look at, the jobs kept, the
\* jobs to fetch, the job and the file at hand, the files left to check, where
\* to go on after a check, is_gzip, the ranges, the hosts left and the free cores.
NoJob == [host |-> "none"]

NoWork == [todo |-> {}, kept |-> {}, fetch |-> {}, job |-> NoJob, alive |-> 0,
           file |-> <<>>, files |-> {}, back |-> "read", gz |-> FALSE, ranges |-> <<>>,
           hosts |-> {}, host |-> "none", n |-> 0]

NoFaults == [crash |-> 0, death |-> 0, net |-> 0, reboot |-> 0, slow |-> 0]

Init ==
    /\ scn \in Scenarios
    /\ pc = "boot" /\ jobs = {} /\ disk = {} /\ local = Empty
    /\ nrels = 0 /\ lastCheck = 0 /\ work = NoWork
    /\ rem = [h \in Host |-> Empty]
    /\ procs = {} /\ aliens = {} /\ faults = NoFaults

\* One more failure of a kind, within its bound.
Fault(kind) ==
    /\ faults[kind] < scn[kind]
    /\ faults' = [faults EXCEPT ![kind] = @ + 1]

\* An ssh or rsync call goes through, or it does not.
NetOK == UNCHANGED faults
NetFails == Fault("net")

-----------------------------------------------------------------------------
(* The processes.                                                          *)

Without(f, x) == Restrict(f, DOMAIN f \ {x})

With(f, x, c) == [y \in DOMAIN f \cup {x} |-> IF y = x THEN c ELSE f[y]]

Writers(h, f) == {x \in procs : x.host = h /\ x.open /\ Name(x) = f}

\* Opening the output file truncates it; if another process is still writing
\* to it, what the two leave there is not a file of either.
Opened(h, f) ==
    With(rem[h], f,
         IF Writers(h, f) = {} THEN Fresh ELSE [q |-> 0, end |-> "mixed"])

ProcOpen(x) ==
    /\ ~x.open
    /\ rem' = [rem EXCEPT ![x.host] = Opened(x.host, Name(x))]
    /\ procs' = (procs \ {x}) \cup {[x EXCEPT !.open = TRUE]}
    /\ UNCHANGED <<master, aliens, faults>>

\* The siever begins its next number.
ProcStep(x) ==
    LET c == rem[x.host][Name(x)]
    IN  /\ x.open /\ Name(x) \in DOMAIN rem[x.host]
        /\ c.end = "none" /\ c.q < x.hi - x.lo
        /\ rem' = [rem EXCEPT ![x.host][Name(x)].q = @ + 1]
        /\ UNCHANGED <<master, procs, aliens, faults>>

\* The siever prints its trailer and ends.  A process whose file was removed or
\* clobbered ends as well.
ProcFinish(x) ==
    LET f == Name(x)
        h == x.host
    IN  /\ x.open
        /\ f \in DOMAIN rem[h] =>
             rem[h][f].end # "none" \/ rem[h][f].q = x.hi - x.lo
        /\ rem' = IF f \in DOMAIN rem[h] /\ rem[h][f].end = "none"
                  THEN [rem EXCEPT ![h][f].end = "total"] ELSE rem
        /\ procs' = procs \ {x}
        /\ UNCHANGED <<master, aliens, faults>>

Progress(pid) ==
    \E x \in procs : x.pid = pid /\ (ProcOpen(x) \/ ProcStep(x) \/ ProcFinish(x))

ProcDie(x) ==
    /\ Fault("death")
    /\ procs' = procs \ {x}
    /\ UNCHANGED <<master, rem, aliens>>

\* A host reboots: its processes are gone, their files stay.  With aliens, the
\* pids of its jobs are then the pids of other programs.
Reboot(h) ==
    /\ Fault("reboot")
    /\ \E x \in procs : x.host = h
    /\ procs' = {x \in procs : x.host # h}
    /\ aliens' = {a \in aliens : a[1] # h} \cup
           IF scn.aliens THEN {<<h, x.pid>> : x \in {y \in procs : y.host = h}} ELSE {}
    /\ UNCHANGED <<master, rem>>

-----------------------------------------------------------------------------
(* The master is killed, and run again.                                    *)

InCheck == pc \in {"check", "unlink", "trunc", "mv", "gzip"}

Crash ==
    /\ pc \notin {"down", "done"}
    /\ scn.crashInCheck \/ ~InCheck
    /\ Fault("crash")
    /\ pc' = "down"
    /\ jobs' = {} /\ nrels' = 0 /\ lastCheck' = 0 /\ work' = NoWork
    /\ UNCHANGED <<disk, local, remote>>

\* Mutant of Restart: the files already there are trusted.
RestartUnchecked ==
    /\ pc = "down"
    /\ pc' = "boot"
    /\ work' = NoWork
    /\ UNCHANGED <<jobs, disk, local, nrels, lastCheck, remote, faults>>

\* The master starts: it lists the output files that are already there.
Restart ==
    /\ pc = "down"
    /\ pc' = "boot"
    /\ work' = [NoWork EXCEPT !.files = DOMAIN local]
    /\ UNCHANGED <<jobs, disk, local, nrels, lastCheck, remote, faults>>

\* A failed command with the `kill' option.
Die ==
    /\ pc' = "down"
    /\ jobs' = {} /\ nrels' = 0 /\ lastCheck' = 0 /\ work' = NoWork

-----------------------------------------------------------------------------
(* opt check: sieve_check and polysel_check.                               *)

At(l) == pc = l

\* The check of file f starts; the master goes on at `back' afterwards.
ToCheck(f, back) ==
    /\ pc' = "check"
    /\ work' = [work EXCEPT !.file = f, !.back = back, !.gz = f[3]]

\* import_rels, at the end of the check (polysel_check counts nothing).
Import(c) == nrels' = IF Sieve THEN nrels + c.q ELSE nrels

CheckUnchanged == UNCHANGED <<jobs, disk, lastCheck, remote, faults>>

\* "File not found, check not done."
CheckMissing ==
    /\ At("check") /\ work.file \notin DOMAIN local
    /\ pc' = work.back
    /\ CheckUnchanged /\ UNCHANGED <<local, nrels, work>>

\* Invalid files are removed; so are the incomplete ones of polysel.
CheckInvalid ==
    /\ At("check") /\ work.file \in DOMAIN local
    /\ local[work.file].end \in {"mixed"} \cup (IF Sieve THEN {} ELSE {"none"})
    /\ local' = Without(local, work.file)
    /\ pc' = work.back
    /\ CheckUnchanged /\ UNCHANGED <<nrels, work>>

\* The last line is the trailer or the marker: the file is clean.
CheckClean ==
    /\ At("check") /\ work.file \in DOMAIN local
    /\ local[work.file].end \in {"total", "marker"}
    /\ Import(local[work.file])
    /\ pc' = work.back
    /\ CheckUnchanged /\ UNCHANGED <<local, work>>

\* A partial file of the sieve: uncompress it under its plain name (gzip -d
\* would fail on a truncated file) ...
CheckPartial ==
    /\ At("check") /\ Sieve /\ work.file \in DOMAIN local
    /\ local[work.file].end = "none"
    /\ IF work.gz
       THEN /\ local' = With(local, [work.file EXCEPT ![3] = FALSE],
                             local[work.file])
            /\ pc' = "unlink"
       ELSE UNCHANGED local /\ pc' = "trunc"
    /\ CheckUnchanged /\ UNCHANGED <<nrels, work>>

\* ... remove the compressed one ...
CheckUnlink ==
    /\ At("unlink")
    /\ local' = Without(local, work.file)
    /\ work' = [work EXCEPT !.file[3] = FALSE]
    /\ pc' = "trunc"
    /\ CheckUnchanged /\ UNCHANGED nrels

\* ... cut the last number begun, which need not be complete, and append the
\* marker; a file with fewer than two numbers has nothing to recover ...
CheckTruncate ==
    LET c == local[work.file]
    IN  /\ At("trunc")
        /\ IF c.q < 2
           THEN local' = Without(local, work.file) /\ pc' = work.back
           ELSE /\ local' = [local EXCEPT ![work.file] =
                                [q |-> c.q - 1, end |-> "marker"]]
                /\ pc' = "mv"
        /\ CheckUnchanged /\ UNCHANGED <<nrels, work>>

\* ... rename it after the range it really covers ...
CheckRename ==
    LET c == local[work.file]
        f == [work.file EXCEPT ![2] = work.file[1] + c.q]
    IN  /\ At("mv")
        /\ local' = With(Without(local, work.file), f, c)
        /\ IF work.gz
           THEN /\ work' = [work EXCEPT !.file = f]
                /\ pc' = "gzip" /\ UNCHANGED nrels
           ELSE pc' = work.back /\ Import(c) /\ UNCHANGED work
        /\ CheckUnchanged

\* ... and compress it again.  gzip does not overwrite a file: it fails, and
\* with it the master.
CheckGzip ==
    LET f == [work.file EXCEPT ![3] = TRUE]
        c == local[work.file]
    IN  /\ At("gzip")
        /\ IF f \in DOMAIN local
           THEN Die /\ UNCHANGED local
           ELSE /\ local' = With(Without(local, work.file), f, c)
                /\ pc' = work.back /\ Import(c) /\ UNCHANGED <<jobs, lastCheck, work>>
        /\ UNCHANGED <<disk, remote, faults>>

Check ==
    \/ CheckMissing \/ CheckInvalid \/ CheckClean \/ CheckPartial
    \/ CheckUnlink \/ CheckTruncate \/ CheckRename \/ CheckGzip

\* The files already there are checked, in the order of their names: of two
\* files with the same range, the plain one first.
Boot ==
    /\ At("boot")
    /\ IF work.files = {}
       THEN pc' = "read" /\ UNCHANGED work
       ELSE \E f \in work.files :
              /\ f[3] => [f EXCEPT ![3] = FALSE] \notin work.files
              /\ pc' = "check"
              /\ work' = [work EXCEPT !.files = @ \ {f}, !.file = f,
                                      !.back = "boot", !.gz = f[3]]
    /\ UNCHANGED <<jobs, disk, local, nrels, lastCheck, remote, faults>>

-----------------------------------------------------------------------------
(* See what is running, and retrieve finished data.                        *)

\* read_jobs: the jobs file is read, and the jobs with a pid are the running
\* ones.  In sequential mode there are no jobs to poll.
ReadJobs ==
    /\ At("read")
    /\ IF Parallel
       THEN /\ pc' = "status"
            /\ work' = [NoWork EXCEPT !.todo = {j \in disk : j.pid # 0},
                                      !.fetch = {j \in disk : j.pid = 0}]
       ELSE pc' = "isdone" /\ work' = NoWork
    /\ UNCHANGED <<jobs, disk, local, nrels, lastCheck, remote, faults>>

\* Mutant of Exists: a job is taken to be alive when its output file is there.
ExistsFile(j) == Name(j) \in DOMAIN rem[j.host]

\* is_job_alive: is there a process of that pid?  (The test that it has the
\* output file open is disabled.)  -1 when the host cannot be reached.
Exists(j) ==
    \/ \E x \in procs : x.host = j.host /\ x.pid = j.pid
    \/ <<j.host, j.pid>> \in aliens

IsJobAlive(j, r) ==
    \/ NetOK /\ r = (IF Exists(j) THEN 1 ELSE 0)
    \/ NetFails /\ r = -1

\* job_status, first command: kill -0.
AskAlive ==
    /\ At("status")
    /\ \E j \in work.todo, r \in {-1, 0, 1} :
          /\ IsJobAlive(j, r)
          /\ work' = [work EXCEPT !.todo = @ \ {j}, !.job = j, !.alive = r]
    /\ pc' = "tail"
    /\ UNCHANGED <<jobs, disk, local, nrels, lastCheck, remote>>

\* Mutant of JobStatus: only a job known to be alive counts as running, and one
\* on an unreachable host counts as dead.
JobStatusUnknownDead(j) ==
    LET f == Name(j)
        c == rem[j.host][f]
        here == f \in DOMAIN rem[j.host]
    IN  IF here /\ c.end = "total" THEN 0
        ELSE IF ~here /\ Sieve THEN -2
        ELSE IF work.alive = 1 THEN 1
        ELSE -1

\* Mutant of JobStatus: a job that is not alive is dead, whatever it wrote.
JobStatusDeadFirst(j) ==
    LET f == Name(j)
        c == rem[j.host][f]
        here == f \in DOMAIN rem[j.host]
    IN  IF work.alive = 0 THEN -1
        ELSE IF here /\ c.end = "total" THEN 0
        ELSE IF ~here /\ Sieve THEN -2
        ELSE 1

\* job_status, second command: the last line of the output file decides, then
\* what the first command said.  `gzip -dc | tail' of a missing file succeeds
\* and prints "No such file or directory"; plain tail fails.
JobStatus(j) ==
    LET f == Name(j)
        c == rem[j.host][f]
        here == f \in DOMAIN rem[j.host]
    IN  IF here /\ c.end = "total" THEN 0
        ELSE IF ~here /\ Sieve THEN -2
        ELSE IF work.alive # 0 THEN 1
        ELSE -1

\* The job is kept, marked as done, or dropped; a dead job's output is removed
\* unless partial output can be used.
AskTail ==
    /\ At("tail")
    /\ pc' = "status"
    /\ LET j == work.job
           done == [j EXCEPT !.pid = 0]
           keep == work' = [work EXCEPT !.kept = @ \cup {j}] /\ UNCHANGED rem
           fetch == work' = [work EXCEPT !.fetch = @ \cup {done}] /\ UNCHANGED rem
           drop == work' = [work EXCEPT !.job = NoJob] /\ UNCHANGED rem
       IN  \/ NetFails /\ keep
           \/ NetOK /\ JobStatus(j) = 1 /\ keep
           \/ NetOK /\ JobStatus(j) = 0 /\ fetch
           \/ NetOK /\ JobStatus(j) = -1 /\ Sieve /\ fetch
           \/ NetOK /\ JobStatus(j) = -2 /\ drop
           \/ /\ JobStatus(j) = -1 /\ ~Sieve
              /\ work' = [work EXCEPT !.job = NoJob]
              /\ \/ NetOK /\ rem' = [rem EXCEPT ![j.host] = Without(@, Name(j))]
                 \/ NetFails /\ UNCHANGED rem
    /\ UNCHANGED <<jobs, disk, local, nrels, lastCheck, procs, aliens>>

StatusDone ==
    /\ At("status") /\ work.todo = {}
    /\ pc' = "fetch"
    /\ UNCHANGED <<jobs, disk, local, nrels, lastCheck, work, remote, faults>>

\* get_job_output, first command: rsync.  A file already here is not fetched;
\* an unreachable host is tried again next time; a missing file is too bad.
Fetch ==
    /\ At("fetch")
    /\ \E j \in work.fetch :
         LET f == Name(j)
             left == [work EXCEPT !.fetch = @ \ {j}, !.job = NoJob]
         IN  \/ /\ f \in DOMAIN local \/ f \notin DOMAIN rem[j.host]
                /\ NetOK
                /\ work' = left
                /\ UNCHANGED <<pc, local>>
             \/ /\ f \notin DOMAIN local
                /\ NetFails
                /\ work' = [left EXCEPT !.kept = @ \cup {j}]
                /\ UNCHANGED <<pc, local>>
             \/ /\ f \notin DOMAIN local /\ f \in DOMAIN rem[j.host]
                /\ NetOK
                /\ local' = With(local, f, rem[j.host][f])
                /\ work' = [left EXCEPT !.job = j, !.back = "fetch"]
                /\ pc' = "rm"
    /\ UNCHANGED <<jobs, disk, nrels, lastCheck, remote>>

\* get_job_output, second command: the file is removed on the host unless it
\* is to be kept (whether that worked is not looked at); then it is checked.
FetchRm ==
    /\ At("rm")
    /\ LET j == work.job
       IN  /\ \/ ~Keep /\ NetOK /\ rem' = [rem EXCEPT ![j.host] = Without(@, Name(j))]
              \/ ~Keep /\ NetFails /\ UNCHANGED rem
              \/ Keep /\ NetOK /\ UNCHANGED rem
           /\ ToCheck(Name(j), work.back)
    /\ UNCHANGED <<jobs, disk, local, nrels, lastCheck, procs, aliens>>

FetchDone ==
    /\ At("fetch") /\ work.fetch = {}
    /\ jobs' = work.kept
    /\ pc' = "write1"
    /\ UNCHANGED <<disk, local, nrels, lastCheck, work, remote, faults>>

\* write_jobs: opening the file empties it, closing it writes it.
WriteOpen ==
    /\ \/ At("write1") /\ pc' = "close1"
       \/ At("write2") /\ pc' = "close2"
    /\ disk' = {}
    /\ UNCHANGED <<jobs, local, nrels, lastCheck, work, remote, faults>>

FileRanges == {<<f[1], f[2]>> : f \in DOMAIN local}
JobRanges == {<<j.lo, j.hi>> : j \in jobs}

\* After the first write, the ranges of the files and of the jobs are merged
\* and the loop over the hosts begins; after the second, is_done is called.
WriteClose ==
    /\ disk' = jobs
    /\ \/ /\ At("close1")
          /\ pc' = "start"
          /\ work' = [NoWork EXCEPT !.hosts = Host,
                                    !.ranges = MergeRanges(FileRanges \cup JobRanges)]
       \/ At("close2") /\ pc' = "isdone" /\ UNCHANGED work
    /\ UNCHANGED <<jobs, local, nrels, lastCheck, remote, faults>>

-----------------------------------------------------------------------------
(* Start new jobs.                                                         *)

Busy(h) == SumFunction([j \in {i \in jobs : i.host = h} |-> j.th])

\* The next host: its free cores, or none when not all files could be sent.
PickHost ==
    /\ At("start") /\ work.n <= 0
    /\ \E h \in work.hosts :
         LET w == [work EXCEPT !.hosts = @ \ {h}, !.host = h]
         IN  \/ NetOK /\ work' = [w EXCEPT !.n = Cores[h] - Busy(h)]
             \/ Cores[h] > Busy(h) /\ NetFails /\ work' = [w EXCEPT !.n = 0]
    /\ UNCHANGED <<pc, jobs, disk, local, nrels, lastCheck, remote>>

\* The threads of the next job: max_threads, or the cores that are left.
Threads == IF work.n < MaxThreads THEN work.n ELSE MaxThreads

NextHole == FindHole(QMin, QMax, Size, work.ranges)

\* The pids in use on the hosts or in a list.
UsedPids == {x.pid : x \in procs} \cup {a[2] : a \in aliens}
              \cup {j.pid : j \in jobs \cup disk}

FreePid == CHOOSE p \in 1..MaxPid : p \notin UsedPids
                                    /\ \A r \in 1..(p - 1) : r \in UsedPids

\* There is a hole, and it is within the bounds of the model.
CanLaunch ==
    /\ IF NextHole = <<>> THEN FALSE ELSE NextHole[2] <= scn.cap
    /\ 1..MaxPid \ UsedPids # {}

\* No hole (or one beyond the bounds of the model): `last HOST'.
NoHole ==
    /\ At("start") /\ work.n > 0
    /\ ~CanLaunch
    /\ work' = [work EXCEPT !.hosts = {}, !.n = 0]
    /\ UNCHANGED <<pc, jobs, disk, local, nrels, lastCheck, remote, faults>>

\* A job is started in the next hole.  It is listed, and its range taken, only
\* if the remote command succeeded; when ssh fails the process may have been
\* started nevertheless.  A process creates its output file at once, or later.
Launch ==
    LET r == NextHole
        j == [host |-> work.host, lo |-> r[1], hi |-> r[2], pid |-> FreePid,
              th |-> Threads]
        p(open) == [host |-> work.host, lo |-> r[1], hi |-> r[2],
                    pid |-> FreePid, th |-> Threads, open |-> open]
        runs == /\ procs' = procs \cup {p(TRUE)}
                /\ rem' = [rem EXCEPT ![j.host] = Opened(j.host, Name(j))]
        listed == /\ jobs' = jobs \cup {j}
                  /\ work' = [work EXCEPT !.n = @ - MaxThreads,
                               !.ranges = WithHole(QMin, work.ranges, r)]
        unlisted == /\ work' = [work EXCEPT !.n = @ - MaxThreads,
                                 !.ranges = From(QMin, work.ranges)]
                    /\ UNCHANGED jobs
    IN  /\ At("start") /\ work.n > 0
        /\ CanLaunch
        /\ \/ NetOK /\ runs /\ listed
           \/ /\ Fault("slow") /\ listed
              /\ procs' = procs \cup {p(FALSE)} /\ UNCHANGED rem
           \/ NetFails /\ unlisted /\ UNCHANGED <<rem, procs>>
           \/ scn.lostStart /\ NetFails /\ runs /\ unlisted
        /\ UNCHANGED <<pc, disk, local, nrels, lastCheck, aliens>>

StartDone ==
    /\ At("start") /\ work.n <= 0 /\ work.hosts = {}
    /\ pc' = "write2"
    /\ UNCHANGED <<jobs, disk, local, nrels, lastCheck, work, remote, faults>>

-----------------------------------------------------------------------------
(* The end of the loop, and the cleaning up.                               *)

\* What filtering can use: dup only takes compressed files.
Usable == Covered({<<f[1], f[2]>> : f \in {g \in DOMAIN local : g[3]}})

\* sieve_is_done calls dup and purge only when enough new relations came in;
\* polysel_is_done wants one range of files around the whole interval.
Ask == nrels >= FirstCheck /\ nrels - lastCheck >= CheckRange

Enough ==
    IF Sieve
    THEN Ask /\ Cardinality(Usable) >= scn.needed
    ELSE \E r \in ToSet(MergeRanges(FileRanges)) : r[1] <= QMin /\ r[2] >= QMax

IsDone ==
    /\ At("isdone")
    /\ lastCheck' = IF Sieve /\ Ask THEN nrels ELSE lastCheck
    /\ IF Enough
       THEN IF Parallel
            THEN pc' = "clean" /\ work' = [NoWork EXCEPT !.todo = disk]
            ELSE pc' = "done" /\ work' = NoWork
       ELSE pc' = (IF Parallel THEN "read" ELSE "seq") /\ work' = NoWork
    /\ UNCHANGED <<jobs, disk, local, nrels, remote, faults>>

\* kill_job: a job found alive is killed, and its output removed unless partial
\* output can be used.  A job whose pid is "done" is not alive.
CleanKill ==
    /\ At("clean")
    /\ \E j \in work.todo, r \in {-1, 0, 1} :
         /\ IF j.pid = 0 THEN r = 0 /\ NetOK ELSE IsJobAlive(j, r)
         /\ IF r = 1
            THEN /\ procs' = {x \in procs : <<x.host, x.pid>> # <<j.host, j.pid>>}
                 /\ aliens' = aliens \ {<<j.host, j.pid>>}
                 /\ rem' = IF Sieve THEN rem
                           ELSE [rem EXCEPT ![j.host] = Without(@, Name(j))]
            ELSE UNCHANGED <<procs, aliens, rem>>
         /\ work' = [work EXCEPT !.todo = @ \ {j}, !.job = j, !.back = "clean"]
         /\ pc' = IF Sieve THEN "last" ELSE "clean"
    /\ UNCHANGED <<jobs, disk, local, nrels, lastCheck>>

\* What a killed job wrote is fetched and checked, if it can be.
CleanFetch ==
    LET j == work.job
        f == Name(j)
    IN  /\ At("last")
        /\ \/ /\ NetOK /\ f \notin DOMAIN local /\ f \in DOMAIN rem[j.host]
              /\ local' = With(local, f, rem[j.host][f])
              /\ pc' = "rm"
           \/ /\ f \in DOMAIN local \/ f \notin DOMAIN rem[j.host]
              /\ NetOK /\ pc' = "clean" /\ UNCHANGED local
           \/ /\ f \notin DOMAIN local
              /\ NetFails /\ pc' = "clean" /\ UNCHANGED local
        /\ UNCHANGED <<jobs, disk, nrels, lastCheck, work, remote>>

\* The jobs file is removed.
CleanDone ==
    /\ At("clean") /\ work.todo = {}
    /\ disk' = {} /\ jobs' = {}
    /\ pc' = "done"
    /\ UNCHANGED <<local, nrels, lastCheck, work, remote, faults>>

-----------------------------------------------------------------------------
(* Sequential mode: the job runs in the working directory.                 *)

SeqHole == FindHole(QMin, QMax, Size, MergeRanges(FileRanges))

SeqStart ==
    /\ At("seq")
    /\ IF SeqHole = <<>> \/ SeqHole[2] > scn.cap
       THEN pc' = "read" /\ UNCHANGED <<local, work>>
       ELSE LET f == <<SeqHole[1], SeqHole[2], Sieve>>
            IN  /\ local' = With(local, f, Fresh)
                /\ work' = [work EXCEPT !.file = f]
                /\ pc' = "run"
    /\ UNCHANGED <<jobs, disk, nrels, lastCheck, remote, faults>>

SeqStep ==
    /\ At("run") /\ local[work.file].q < NumberOf(work.file)
    /\ local' = [local EXCEPT ![work.file].q = @ + 1]
    /\ UNCHANGED <<pc, jobs, disk, nrels, lastCheck, work, remote, faults>>

SeqFinish ==
    /\ At("run") /\ local[work.file].q = NumberOf(work.file)
    /\ local' = [local EXCEPT ![work.file].end = "total"]
    /\ ToCheck(work.file, "read")
    /\ UNCHANGED <<jobs, disk, nrels, lastCheck, remote, faults>>

\* The job fails: the command has the `kill' option.
SeqFail ==
    /\ At("run") /\ Fault("death")
    /\ Die
    /\ UNCHANGED <<disk, local, remote>>

-----------------------------------------------------------------------------
Master ==
    \/ Restart \/ Boot \/ Check
    \/ ReadJobs \/ AskAlive \/ AskTail \/ StatusDone \/ Fetch \/ FetchRm \/ FetchDone
    \/ WriteOpen \/ WriteClose
    \/ PickHost \/ NoHole \/ Launch \/ StartDone
    \/ IsDone \/ CleanKill \/ CleanFetch \/ CleanDone
    \/ SeqStart \/ SeqStep \/ SeqFinish

Environment ==
    \/ \E pid \in 1..MaxPid : Progress(pid)
    \/ \E x \in procs : ProcDie(x)
    \/ \E h \in Host : Reboot(h)
    \/ Crash \/ SeqFail

Next == (Master \/ Environment) /\ UNCHANGED scn

\* The master runs (and is run again after a crash), and so do the processes;
\* failures may happen, and need not.
Fairness ==
    /\ WF_vars(Master /\ UNCHANGED scn)
    /\ \A pid \in 1..MaxPid : WF_vars(Progress(pid) /\ UNCHANGED scn)

Spec == Init /\ [][Next]_vars /\ Fairness

-----------------------------------------------------------------------------
(* Properties.                                                             *)

Label == {"boot", "check", "unlink", "trunc", "mv", "gzip", "read", "status",
          "tail", "fetch", "rm", "write1", "close1", "start", "write2", "close2",
          "isdone", "clean", "last", "seq", "run", "done", "down"}

Job == [host : Host, lo : Nat, hi : Nat, pid : 0..MaxPid, th : Nat \ {0}]

File == Nat \X Nat \X BOOLEAN

Content == [q : Nat, end : {"none", "total", "marker", "mixed"}]

\* The type of the state.  Every file, here or on a host, is named after a
\* proper range and holds no more numbers than its name says.
TypeOK ==
    /\ pc \in Label
    /\ jobs \subseteq Job /\ disk \subseteq Job
    /\ \A d \in {local} \cup {rem[h] : h \in Host} : \A f \in DOMAIN d :
          f \in File /\ d[f] \in Content /\ d[f].q <= NumberOf(f) /\ f[1] < f[2]
    /\ nrels \in Nat /\ lastCheck \in 0..nrels
    /\ \A x \in procs : x.host \in Host /\ x.pid \in 1..MaxPid /\ x.lo < x.hi

\* When the master looks for holes, calls is_done or has ended, the name of
\* every output file is the range it completely covers ("incompletely sieved
\* ranges are a nuisance"): whatever was fetched from a dead job has been cut.
FilesSound ==
    pc \in {"start", "write2", "close2", "isdone", "seq", "done"} =>
        \A f \in DOMAIN local : Complete(local[f]) = NumberOf(f)

\* When is_done is called, the relations counted are those of the files.
NrelsHonest ==
    pc = "isdone" /\ Sieve =>
        nrels = SumFunction([f \in DOMAIN local |-> local[f].q])

\* The master knows every process: it never crashed, no start was reported as
\* failed that had succeeded, and no job was slow to create its output file.
AllKnown ==
    /\ faults.crash = 0 /\ faults.slow = 0
    /\ scn.lostStart => faults.net = 0

\* When new jobs have been started, no number is in two of the jobs and files.
WorkDisjoint ==
    pc \in {"write2", "close2", "isdone"} /\ AllKnown =>
        /\ \A i, j \in jobs : i # j => Points(<<i.lo, i.hi>>) \cap Points(<<j.lo, j.hi>>) = {}
        /\ Covered(JobRanges) \cap Covered(FileRanges) = {}
        /\ \A f, g \in DOMAIN local : f # g => Points(f) \cap Points(g) = {}

\* No two processes write to the same output file.
OneWriter ==
    AllKnown => \A x, y \in procs : x # y => x.host # y.host \/ Name(x) # Name(y)

\* A host never runs more threads than it has cores: a job leaves the list, and
\* gives back its cores, only when its process is gone.
CoresRespected ==
    AllKnown => \A h \in Host :
        SumFunction([x \in {y \in procs : y.host = h} |-> x.th]) <= Cores[h]

\* The complete output of a job is removed from its host only once it is in the
\* working directory, or when the task is over.
NoWorkLost ==
    [][\A h \in Host : \A f \in DOMAIN rem[h] \ DOMAIN rem'[h] :
          rem[h][f].end = "total" => f \in DOMAIN local \/ pc = "clean"]_vars

\* If no ssh call failed, the task ends with no job running.
NothingLeftRunning == pc = "done" /\ faults.net = 0 /\ AllKnown => procs = {}

\* The task ends: the range is covered, or there are enough relations.  With
\* crashes, this is "cadofactor.pl is supposed to resist to a crash of the host
\* or remote machines".
Finishes == <>(pc = "done")

\* What the output files and their count say can be relied on.
FilesHonest == TypeOK /\ FilesSound /\ NrelsHonest

\* The processes on the hosts are those of the list: no number is worked on
\* twice, no file has two writers, no host is overloaded, none is left running.
ProcessesTracked == WorkDisjoint /\ OneWriter /\ CoresRespected /\ NothingLeftRunning

=============================================================================

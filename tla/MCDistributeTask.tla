-------------------------- MODULE MCDistributeTask --------------------------
(***************************************************************************)
(* Instances of DistributeTask: one or two hosts, a handful of numbers.    *)
(***************************************************************************)
EXTENDS DistributeTask

CONSTANTS h1, h2

TwoHosts == {h1, h2}

OnFirst(n) == [h \in TwoHosts |-> IF h = h1 THEN n ELSE 0]

\* Sieving on one host, and nothing fails.
Base ==
    [cores |-> OnFirst(1), maxThreads |-> 1, parallel |-> TRUE, sieve |-> TRUE,
     keep |-> FALSE, min |-> 2, max |-> 0, len |-> 3, needed |-> 3,
     lostStart |-> FALSE, crashInCheck |-> FALSE, aliens |-> FALSE,
     crash |-> 0, death |-> 0, net |-> 0, reboot |-> 0, slow |-> 0, cap |-> 6]

\* Three cores and jobs of up to two threads; a job dies, a call fails, and the
\* output files are kept on the host.
Sieving ==
    [Base EXCEPT !.cores = OnFirst(3), !.maxThreads = 2, !.keep = TRUE,
                 !.death = 1, !.net = 1]

\* Polynomial selection on two hosts; one reboots, and a call fails.
Polysel ==
    [Base EXCEPT !.cores = [h \in TwoHosts |-> 1], !.sieve = FALSE,
                 !.min = 1, !.max = 4, !.len = 2, !.net = 1, !.reboot = 1]

\* The master crashes, anywhere but in the repair of a file.
Crashing == [Base EXCEPT !.crash = 1, !.death = 1, !.net = 1]

\* Processes the master does not know of: a start that was reported as failed,
\* and a job dropped because it had not created its file yet.
Orphans == [Base EXCEPT !.lostStart = TRUE, !.net = 1, !.slow = 1]

\* Sequential mode: a job fails, and the master crashes.
Sequential ==
    [Base EXCEPT !.parallel = FALSE, !.needed = 4, !.crash = 1, !.death = 1,
                 !.cap = 9]

MCScenarios == {Sieving, Polysel, Crashing, Orphans, Sequential}

\* A finished task stays finished.
MCSpec == Init /\ [][Next \/ (pc = "done" /\ UNCHANGED vars)]_vars /\ Fairness
=============================================================================

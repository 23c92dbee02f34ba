----------------------------- MODULE MCTaskGraph -----------------------------
(***************************************************************************)
(* TaskGraph on the table %tasks of cadofct.pm: the steps of a             *)
(* factorization and what each of them depends on.  One parameter of the   *)
(* polynomial selection varies, and one of the replay.                     *)
(***************************************************************************)
EXTENDS TaskGraph

TaskNames ==
    {"init", "polysel", "factbase", "freerels", "sieve", "dup", "purge", "merge",
     "replay", "linalg", "chars", "sqrt"}

\* dep: if one of these is more recent, the task has to be done again.
DepTable ==
    [t \in TaskNames |->
        CASE t = "init"     -> <<>>
          [] t = "polysel"  -> <<"init">>
          [] t = "factbase" -> <<"polysel">>
          [] t = "freerels" -> <<"factbase">>
          [] t = "sieve"    -> <<"polysel">>
          [] t = "dup"      -> <<"sieve">>
          [] t = "purge"    -> <<"dup">>
          [] t = "merge"    -> <<"purge">>
          [] t = "replay"   -> <<"merge">>
          [] t = "linalg"   -> <<"replay">>
          [] t = "chars"    -> <<"linalg">>
          [] t = "sqrt"     -> <<"chars">>]

\* req: these have to be completed before, but may be more recent.
ReqTable ==
    [t \in TaskNames |-> IF t = "sieve" THEN <<"factbase", "freerels">> ELSE <<>>]

\* param: the parameters the task depends on.
ParamTable ==
    [t \in TaskNames |->
        CASE t = "polysel"  -> {"degree", "kjM", "kjl", "kjkeep", "kjkmax", "kjincr",
                                "kjpb", "kjp0max", "kjadmin", "kjadmax"}
          [] t = "factbase" -> {"alim"}
          [] t = "sieve"    -> {"excess"}
          [] t = "merge"    -> {"keep", "maxlevel", "cwmax", "rwmax", "ratio", "bwstrat"}
          [] t = "replay"   -> {"skip"}
          [] t = "linalg"   -> {"bwmt", "bwthreshold", "linalg", "bwc_interval",
                                "bwc_mm_impl", "bwc_interleaving"}
          [] t = "chars"    -> {"nchar"}
          [] t = "sqrt"     -> {"nkermax"}
          [] OTHER          -> {}]

\* resume: the task goes on with what it finds; dist: it has jobs on the hosts.
ResumeTable == {"polysel", "sieve"}
DistTable == {"polysel", "sieve"}

\* The tasks whose done file comes, in the order of the names of their files
\* (`files' and <task>_done), after data of the task.
DataFirst ==
    {"polysel", "freerels", "sieve", "merge", "replay", "linalg", "sqrt"}

Setting(a, b) == [kjM |-> a, skip |-> b]

First == Setting(1, 1)

\* No value is false.
MCSettings == {First, Setting(2, 1), Setting(1, 2)}

TwoNumbers == {15, 21}

\* A driver that has ended may stay so.
Ended == pc = "end" /\ UNCHANGED vars

MCNext == Next \/ Ended

\* The instance is one of those for which OnlyCurrentData and NothingThrownAway
\* are proved.
ASSUME ShelteredAssumption == Sheltered
ASSUME InOrderAssumption == InOrder

\* The first run factors 15.
FirstInit == Init /\ n = 15 /\ param = First

FirstSpec == FirstInit /\ [][MCNext]_vars /\ Fairness
=============================================================================

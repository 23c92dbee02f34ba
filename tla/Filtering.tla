----------------------------- MODULE Filtering ------------------------------
(***************************************************************************)
(* The filtering that the driver repeats while the sieve delivers files    *)
(* (cadofct.pm, dup, purge and sieve_is_done): dup1 (filter/dup1.c) splits *)
(* the relations of new files into slices, dup2 (filter/dup2.c) rewrites   *)
(* all files of a slice without duplicates, purge (module Purge) decides   *)
(* whether there are enough relations.  The driver and its programs may be *)
(* killed at any time and are started again.                               *)
(*                                                                         *)
(* Only what is on disk survives a kill: the relation files, the slices,   *)
(* and the numbers in the logs of dup2.                                    *)
(***************************************************************************)
EXTENDS Purge

CONSTANTS
  Files,           \* the relation files that the sieve will deliver
  LinesOf(_),      \* the relations of a file, in order
  Slices,          \* the slices (NSLICES)
  SliceOf(_),      \* dup1: the high bits of its hash of (a, b)
  K,               \* the size of the hash table of dup2
  HashOf(_),       \* dup2: <<h % K, h >> 32>> for its hash h of (a, b)
  Contents,        \* the possible contents of the relation files, and
  Relation(_, _),  \* the relation of a given number in each
  minpr0, minpa0,  \* the bounds of the first pass of purge
  keep, excess,    \* parameters of purge
  wanted,          \* the excess that the driver asks for
  MaxKills         \* bound: how often the programs are killed

VARIABLES
  relfiles,   \* the relation files in the working directory
  nodup,      \* nodup[s][f]: file f of slice s, <<>> also if it is empty
  made,       \* the files that exist in the slices
  filelist,   \* the list of the relation files
  logs,       \* the numbers of remaining relations in the logs of dup2
  todo,       \* files still to be handled by the running program
  mem,        \* memory of dup2: slice, hash table, remaining, pre-file
  content,    \* what is in the relations (looked at by purge only)
  P,          \* memory of purge
  out,        \* the purged file, and the status of purge
  pc, kills,
  cut         \* ghost: files whose splitting was cut short by a kill

vars == <<relfiles, nodup, made, filelist, logs, todo, mem, content, P, out, pc, kills, cut>>

FileSeqs(T) == {s \in [1..Cardinality(T) -> T] : \A i, j \in DOMAIN s : s[i] = s[j] => i = j}

NoMem == [slice |-> 0, H |-> <<>>, nodu |-> 0, pre |-> <<>>]
NoP == [rel_used |-> {}, rel_compact |-> <<>>, H |-> <<>>, nrel |-> 0, nprimes |-> 0,
        rels |-> <<>>, final |-> FALSE, start |-> 0]
NoOut == [nrows |-> 0, ncols |-> 0, rows |-> <<>>, status |-> "none"]

Init ==
  /\ relfiles = {} /\ made = {} /\ cut = {}
  /\ nodup = [s \in Slices |-> [f \in Files |-> <<>>]]
  /\ logs = [s \in Slices |-> 0]
  /\ filelist = <<>> /\ todo = <<>> /\ mem = NoMem /\ P = NoP /\ out = NoOut
  /\ content = <<>>
  /\ pc = "sieve" /\ kills = 0

\* The sieve delivers a file and the driver finds it time to check.
Sieve ==
  /\ pc = "sieve"
  /\ \E new \in SUBSET (Files \ relfiles) :
       /\ new # {}
       /\ relfiles' = relfiles \cup new
  /\ pc' = "dup"
  /\ UNCHANGED <<nodup, made, filelist, logs, todo, mem, content, P, out, kills, cut>>

(***************************************************************************)
(* Duplicates.                                                             *)
(***************************************************************************)

\* dup: the new files are those that do not exist in slice 0.  The order of the
\* files is that of readdir.
ListFiles ==
  /\ pc = "dup"
  /\ filelist' \in FileSeqs(relfiles)
  /\ todo' = SelectSeq(filelist', LAMBDA f : f \notin made)
  /\ pc' = "dup1"
  /\ UNCHANGED <<relfiles, nodup, made, logs, mem, content, P, out, kills, cut>>

part(f, s) == SelectSeq(LinesOf(f), LAMBDA r : SliceOf(r) = s)

\* split_relfile creates the files of all slices ...
SplitOpen ==
  /\ pc = "dup1" /\ todo # <<>>
  /\ made' = made \cup {Head(todo)}
  /\ pc' = "split"
  /\ UNCHANGED <<relfiles, filelist, nodup, logs, todo, mem, content, P, out, kills, cut>>

\* ... and writes each relation to the file of its slice.
SplitWrite ==
  /\ pc = "split"
  /\ nodup' = [s \in Slices |-> [nodup[s] EXCEPT ![Head(todo)] = part(Head(todo), s)]]
  /\ todo' = Tail(todo)
  /\ pc' = "dup1"
  /\ UNCHANGED <<relfiles, filelist, made, logs, mem, content, P, out, kills, cut>>

\* dup2 is started on slice s with a zero table, for all files.
startSlice(s) ==
  /\ mem' = [slice |-> s, H |-> [i \in 0..K-1 |-> 0], nodu |-> 0, pre |-> <<>>]
  /\ todo' = filelist
  /\ pc' = "dup2"

EndSplit ==
  /\ pc = "dup1" /\ todo = <<>>
  /\ startSlice(Min(Slices))
  /\ UNCHANGED <<relfiles, filelist, nodup, made, logs, content, P, out, kills, cut>>

\* One line of remove_dup_in_files: the search for j starts at i and goes on over
\* slots that hold something else.  A relation whose j is in the table already,
\* or is 0, is dropped.
remove_dup(st, r) ==
  LET i == HashOf(r)[1]
      j == HashOf(r)[2]
      hit(d) == st.H[(i + d) % K] \in {0, j}
      d0 == CHOOSE d \in 0..K-1 : hit(d) /\ \A e \in 0..d-1 : ~hit(e)
      slot == (i + d0) % K
  IN IF st.H[slot] = j THEN st
     ELSE [st EXCEPT !.H[slot] = j, !.nodu = @ + 1, !.pre = Append(@, r)]

\* Mutant of Dup2File: the file is removed before the pre-file is in its place.
Dup2FileUnlink ==
  /\ pc = "dup2" /\ todo # <<>>
  /\ mem' = FoldLeft(remove_dup, [mem EXCEPT !.pre = <<>>], nodup[mem.slice][Head(todo)])
  /\ nodup' = [nodup EXCEPT ![mem.slice][Head(todo)] = <<>>]
  /\ pc' = "rename"
  /\ UNCHANGED <<relfiles, filelist, made, logs, todo, content, P, out, kills, cut>>

\* A whole file is read, the lines that are kept go to the pre-file.
Dup2File ==
  /\ pc = "dup2" /\ todo # <<>>
  /\ mem' = FoldLeft(remove_dup, [mem EXCEPT !.pre = <<>>], nodup[mem.slice][Head(todo)])
  /\ pc' = "rename"
  /\ UNCHANGED <<relfiles, filelist, nodup, made, logs, todo, content, P, out, kills, cut>>

\* The pre-file takes the place of the file (same directory, same name).
Dup2Rename ==
  /\ pc = "rename"
  /\ nodup' = [nodup EXCEPT ![mem.slice][Head(todo)] = mem.pre]
  /\ todo' = Tail(todo)
  /\ pc' = "dup2"
  /\ UNCHANGED <<relfiles, filelist, made, logs, mem, content, P, out, kills, cut>>

\* The number of remaining relations goes to the log; on to the next slice.
EndSlice ==
  /\ pc = "dup2" /\ todo = <<>>
  /\ logs' = [logs EXCEPT ![mem.slice] = mem.nodu]
  /\ IF mem.slice = Max(Slices)
     THEN mem' = NoMem /\ pc' = "purge" /\ UNCHANGED todo
     ELSE startSlice(mem.slice + 1)
  /\ UNCHANGED <<relfiles, filelist, nodup, made, content, P, out, kills, cut>>

(***************************************************************************)
(* Purge.                                                                  *)
(***************************************************************************)

SumLogs == FoldSet(LAMBDA s, n : n + logs[s], 0, Slices)

\* The relations in the order in which purge reads them: files, then slices.
input(order) ==
  LET slices(f) == FoldLeft(LAMBDA acc, s : acc \o nodup[s][f], <<>>, SetToSortSeq(Slices, <))
  IN FoldLeft(LAMBDA acc, f : acc \o slices(f), <<>>, order)

\* After the scan of a pass: in the last pass the excess asked for must be there.
scanned(Q) ==
  /\ P' = [Q EXCEPT !.start = Q.nrel - Q.nprimes]
  /\ IF Q.final /\ Q.nrel < Q.nprimes + excess
     THEN out' = [NoOut EXCEPT !.status = "few"] /\ pc' = "check"
     ELSE out' = NoOut /\ pc' = "remove"

\* The driver passes the sum of the numbers in the logs as -nrels; first pass.
PurgeStart ==
  /\ pc = "purge"
  /\ content' \in IF content = <<>> THEN Contents ELSE {content}
  /\ \E ids \in {input(filelist)} : \E rels \in {[i \in DOMAIN ids |-> Relation(content', ids[i])]} :
       LET P0 == [NoP EXCEPT !.rel_used = 1..Len(ids), !.rels = rels, !.nrel = SumLogs,
                             !.rel_compact = [i \in DOMAIN ids |-> {}],
                             !.final = minpr0 <= 0 /\ minpa0 <= 0]
       IN IF Len(ids) # SumLogs
          THEN P' = NoP /\ out' = [NoOut EXCEPT !.status = "mismatch"] /\ pc' = "check"
          ELSE \E Q \in {scan_relations(P0, rels, minpr0, minpa0)} : scanned(Q)
  /\ UNCHANGED <<relfiles, filelist, nodup, made, logs, todo, mem, kills, cut>>

\* One iteration of remove_singletons: largest cliques (last pass only), then one
\* pass over the relations; the loop ends when the number stays the same.
RemoveSingletons ==
  /\ pc = "remove"
  /\ \E Q \in (IF P.final THEN deleteHeavierRows(P, keep) ELSE {P}) :
       P' = onepass_singleton_removal(Q, Len(P.rels))
  /\ pc' = IF P'.nrel = P.nrel THEN "passed" ELSE "remove"
  /\ UNCHANGED <<relfiles, filelist, nodup, made, logs, todo, mem, content, out, kills, cut>>

\* The end of a pass: no excess, another pass with all primes, or the output.
EndPass ==
  /\ pc = "passed"
  /\ IF P.nrel <= P.nprimes
     THEN P' = P /\ out' = [NoOut EXCEPT !.status = "few"] /\ pc' = "check"
     ELSE IF P.final
     THEN /\ \E H \in {renumber(P.H)} :
               out' = reread(H, P.rels, P.rel_used, P.nrel,
                             Cardinality({h \in Slots : H.hashcount[h] > 0}))
          /\ P' = P /\ pc' = "check"
     ELSE \E Q \in {scan_relations([P EXCEPT !.final = TRUE], P.rels, 0, 0)} : scanned(Q)
  /\ UNCHANGED <<relfiles, filelist, nodup, made, logs, todo, mem, content, kills, cut>>

\* Mutant of Check: a failure leads to another filtering, without new relations.
CheckAgain ==
  /\ pc = "check"
  /\ pc' = IF out.status = "ok" THEN "done" ELSE "dup"
  /\ P' = NoP
  /\ UNCHANGED <<relfiles, filelist, nodup, made, logs, todo, mem, content, out, kills, cut>>

\* sieve_is_done: any failure of purge means that more relations are needed, as
\* does an excess that is too small.
Check ==
  /\ pc = "check"
  /\ pc' = IF (out.status = "ok" /\ out.nrows - out.ncols >= wanted) \/ relfiles = Files THEN "done" ELSE "sieve"
  /\ P' = NoP
  /\ UNCHANGED <<relfiles, filelist, nodup, made, logs, todo, mem, content, out, kills, cut>>

(***************************************************************************)
(* Kills.                                                                  *)
(***************************************************************************)

prefixesOf(s) == {SubSeq(s, 1, n) : n \in 0..Len(s)}

\* The driver is killed and started again: it imports the relation files and
\* filters anew.  A file that was being split keeps what had been written.
Kill ==
  /\ pc \in {"dup1", "split", "dup2", "rename"} /\ kills < MaxKills
  /\ kills' = kills + 1
  /\ todo' = <<>> /\ mem' = NoMem
  /\ IF pc = "split"
     THEN /\ cut' = cut \cup {Head(todo)}
          /\ \E w \in [Slices -> UNION {prefixesOf(part(Head(todo), s)) : s \in Slices}] :
               /\ \A s \in Slices : w[s] \in prefixesOf(part(Head(todo), s))
               /\ nodup' = [s \in Slices |-> [nodup[s] EXCEPT ![Head(todo)] = w[s]]]
     ELSE UNCHANGED <<nodup, cut>>
  /\ pc' = "dup"
  /\ UNCHANGED <<relfiles, filelist, made, logs, content, P, out>>

Done == pc = "done" /\ UNCHANGED vars

Step ==
  \/ Sieve \/ ListFiles \/ SplitOpen \/ SplitWrite \/ EndSplit
  \/ Dup2File \/ Dup2Rename \/ EndSlice
  \/ PurgeStart \/ RemoveSingletons \/ EndPass \/ Check

Next == Step \/ Kill \/ Done

\* The programs go on as long as they are not killed.
Spec == Init /\ [][Next]_vars /\ WF_vars(Step)
====

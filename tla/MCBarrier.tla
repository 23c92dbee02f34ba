---- MODULE MCBarrier ----
(* Three threads sharing one barrier for three rounds.  The root changes   *)
(* every round, so that a root is fast in one round and slow in the next.  *)
EXTENDS Barrier, Sequences

CONSTANTS t0, t1, t2

MCThread == {t0, t1, t2}
MCRoot == <<t0, t1, t0>>

====

---- MODULE MCCollectives ----
EXTENDS Collectives

Grid(h, v, hc, vc, g, dim) == [nhj |-> h, nvj |-> v, nhc |-> hc, nvc |-> vc, groups |-> g, n |-> dim]

\* Two nodes above each other with two threads side by side, two nodes side by
\* side with four threads each, a square of nodes, a square of threads, and two
\* interleaved groups on two nodes or on two threads.
MCJobs ==
  {<<c, Grid(2, 1, 1, 2, 1, 5)>> : c \in {"hello", "print", "allreduce", "broadcast", "flag", "data_eq",
                                          "save0", "save1", "vector", "timing", "disp", "krylov"}}
    \cup {<<c, Grid(1, 2, 2, 2, 1, 7)>> : c \in {"hello", "save1", "vector"}}
    \cup {<<c, Grid(2, 2, 1, 1, 1, 6)>> : c \in {"hello", "save0", "vector", "krylov"}}
    \cup {<<"krylov", Grid(1, 1, 2, 2, 1, 7)>>,
          <<"krylov", Grid(2, 1, 1, 1, 2, 3)>>, <<"krylov", Grid(1, 1, 1, 2, 2, 3)>>}
MCFlags == {0, 1}
MCGuesses == {-1, 1}
====

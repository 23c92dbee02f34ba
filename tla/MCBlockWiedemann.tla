---- MODULE MCBlockWiedemann ----
\* Model checking of BlockWiedemann with one block of columns or two, all
\* checkpoints kept, the last one kept, or the last one and every second.
EXTENDS BlockWiedemann

MCParams == {[keep |-> 0, precious |-> 0, exact |-> TRUE], [keep |-> 0, precious |-> 0, exact |-> FALSE],
             [keep |-> 1, precious |-> 2, exact |-> TRUE], [keep |-> 1, precious |-> 0, exact |-> FALSE]}
====

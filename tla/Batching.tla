------------------------------ MODULE Batching ------------------------------
(***************************************************************************)
(* detail/batch.hpp: how a run over `total' rows is cut into batches of    *)
(* `size'.  Positions and batch numbers count from 1 here.                 *)
(***************************************************************************)
EXTENDS Naturals

BatchCount(total, size) == (total + size - 1) \div size

BatchShort(b, total, size) ==
    LET start == (b - 1) * size IN
    {p \in 1..total : start < p /\ (p < start + size \/ size = 1)}
Batch(b, total, size) ==
    LET start == (b - 1) * size IN
    {p \in 1..total : start < p /\ p <= start + size}
=============================================================================

--------------------------- MODULE MCHandleCreate ---------------------------
(* Two wrappers; options that are all unset, all set, and set against a    *)
(* directory that says something else.                                     *)
EXTENDS HandleCreate

Unset == [cache |-> 0, len |-> 0, dim |-> 0, auto_workers |-> FALSE, cfgLen |-> 0, cfgDim |-> 0]
MCOptions ==
    { Unset,
      [Unset EXCEPT !.cache = 2, !.dim = 1],
      [Unset EXCEPT !.cache = 2, !.len = 5, !.dim = 1],
      [Unset EXCEPT !.cache = 2, !.len = 5, !.cfgLen = 4, !.cfgDim = 2],
      [Unset EXCEPT !.auto_workers = TRUE, !.cache = 2] }
=============================================================================

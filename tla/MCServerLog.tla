---------------------------- MODULE MCServerLog ----------------------------
(* Instances of ServerLog. *)
EXTENDS ServerLog

\* Every level, and the lowest and the highest once more without time stamp.
AllLevels == {0, 1, 2, LL_WARNING, LL_RAW, LL_RAW + LL_WARNING}
=============================================================================

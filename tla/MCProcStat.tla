----------------------------- MODULE MCProcStat -----------------------------
(* An instance of ProcStat: the name of a program has up to 15 characters. *)
EXTENDS ProcStat, TLC
=============================================================================

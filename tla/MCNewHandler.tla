---------------------------- MODULE MCNewHandler ----------------------------
(* A small instance of NewHandler.                                         *)
EXTENDS NewHandler, TLC

CONSTANTS t1, t2, h1, h2

TwoThreads == {t1, t2}
TwoHandlers == {h1, h2}
=============================================================================

------------------------------ MODULE MCCrc64 ------------------------------
(* An instance of Crc64: a narrow word. *)
EXTENDS Crc64, TLC

\* Five polynomials of degree 16, each without its highest term.
NarrowPolys == {{0, 3, 4, 6}, {0, 1, 7}, {0, 2, 3, 5, 6, 7}, {0, 5, 12}, {0, 2, 15}}
=============================================================================

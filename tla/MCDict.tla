------------------------------- MODULE MCDict -------------------------------
(* Instances of Dict with unsigned long of eight bits: 2 * 4 * 24 and the  *)
(* table of LONG_MAX + 1 buckets, of 0 bytes modulo 256, fit.              *)
EXTENDS Dict, TLC

CONSTANTS a1, a2, a3, i1, i2, k0, k1, k3, k128

MCAddresses == {a1, a2, a3}
MCHash == k0 :> 0 @@ k1 :> 1 @@ k3 :> 3 @@ k128 :> 128
OneKeyEach == {k0, k1, k3, k128}
=============================================================================

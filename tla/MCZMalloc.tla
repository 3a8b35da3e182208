----------------------------- MODULE MCZMalloc -----------------------------
(* Small instances of ZMalloc.                                             *)
EXTENDS ZMallocAccounting, TLC

CONSTANTS t1, t2, t3, b1, b2, b3

TwoThreads == {t1, t2}
ThreeThreads == {t1, t2, t3}
TwoBlocks == {b1, b2}
ThreeBlocks == {b1, b2, b3}
AllCalls == EntryPoints
AllocAndFree == {"zmalloc", "zfree"}
NoPayload == {}
=============================================================================

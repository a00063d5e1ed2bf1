----------------------------- MODULE MCFIFOLock -----------------------------
(***************************************************************************)
(* FIFOLock for TLC: a handful of goroutines on one lock.                  *)
(***************************************************************************)
EXTENDS FIFOLock, TLC

CONSTANTS c1, c2, c3, c4

MCCallers3 == {c1, c2, c3}
MCCallers4 == {c1, c2, c3, c4}
=============================================================================

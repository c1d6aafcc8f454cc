------------------------------- MODULE MCPool -------------------------------
(* A small instance of the pool and its senders for TLC.  It has liveness  *)
(* properties, so its addresses and goroutines are not made symmetric.     *)
EXTENDS Pool
==============================================================================

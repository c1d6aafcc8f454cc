----------------------------- MODULE MCRequester -----------------------------
(* Small instances of the requester for TLC. *)
EXTENDS Requester
==============================================================================

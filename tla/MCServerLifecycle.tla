---------------------------- MODULE MCServerLifecycle ----------------------------
(***************************************************************************)
(* Three client connections over a pool of two, so that a request waits;   *)
(* a list of slots, the longest request, sends three statements.           *)
(***************************************************************************)
EXTENDS ServerLifecycle, TLC

=============================================================================

------------------------------ MODULE MCHttpLayer ------------------------------
(***************************************************************************)
(* Every operation with every kind of token, parameters, body and outcome. *)
(***************************************************************************)
EXTENDS HttpLayer, TLC

=============================================================================

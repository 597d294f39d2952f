-------------------------- MODULE MCGen9Connection --------------------------
(***************************************************************************)
(* Two callers with a request each: one of the dispatcher, that drops the  *)
(* connection after an error, and one of the shelf coordinator.            *)
(***************************************************************************)
EXTENDS Gen9Connection, TLC

CONSTANTS a, b

OneAndOne == a :> 1 @@ b :> 1
=============================================================================

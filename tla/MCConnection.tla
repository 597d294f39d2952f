---------------------------- MODULE MCConnection ----------------------------
(***************************************************************************)
(* A connection to a worker that holds one expert.  The requests "first"   *)
(* and "second" have the same key; "alone" asks for an expert the worker   *)
(* does not hold, under a token id of its own.                             *)
(***************************************************************************)
EXTENDS Connection, TLC

CONSTANTS first, second, alone, own, foreign, t1, t2

Key(e, t) == [expert |-> e, token |-> t]

AllKeys == first  :> Key(own, t1) @@ second :> Key(own, t1) @@
           alone  :> Key(foreign, t2)

ReusedKey    == {first, second, alone}
KeyOfRequest == [r \in Requests |-> AllKeys[r]]
=============================================================================

---------------------------- MODULE MCBatchLink ----------------------------
(***************************************************************************)
(* A coordinator and a standby in a process of its own.                    *)
(***************************************************************************)
EXTENDS BatchLink, TLC

CONSTANTS primary, standby, head, spare

TwoEndpoints == {primary, standby}
Processing   == primary :> head @@ standby :> spare
=============================================================================

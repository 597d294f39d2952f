--------------------------- MODULE MCExpertStage ---------------------------
(***************************************************************************)
(* A batch of two experts: the first has a standby console, the second     *)
(* none.                                                                   *)
(***************************************************************************)
EXTENDS ExpertStage, TLC

CONSTANTS n1, n2, n3

Candidates == 1 :> <<n1, n2>> @@ 2 :> <<n3>>
=============================================================================

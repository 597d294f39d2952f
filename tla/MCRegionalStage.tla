--------------------------- MODULE MCRegionalStage ---------------------------
(***************************************************************************)
(* Two heads; the experts of the first are at both ends of the batch.      *)
(***************************************************************************)
EXTENDS RegionalStage, TLC

Interleaved == <<1, 2, 1>>
=============================================================================

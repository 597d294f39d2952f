---------------------------- MODULE MCGen9Layer ----------------------------
(***************************************************************************)
(* Two tokens through a dense and a MoE layer of one shelf of two          *)
(* consoles.  Expert e1 is on both; token a also needs e2, which only u1   *)
(* holds.  So a batch of both has no replica, one of e1 has, and if u1 is  *)
(* marked down while a is grouping, its two batches meet at a console.     *)
(* Replies are FAST: only the consoles' caches tell the batches apart.     *)
(***************************************************************************)
EXTENDS Gen9Layer, TLC

CONSTANTS a, b, u1, u2, e1, e2

InOrder   == <<u1, u2>>
TwoLayers == <<0, 1>>
OneHost   == 0 :> u1 @@ 1 :> u1
Held      == 1 :> (e1 :> <<u1, u2>> @@ e2 :> <<u1>>)
Chosen      == a :> (1 :> <<e1, e2>>) @@ b :> (1 :> <<e1>>)
=============================================================================

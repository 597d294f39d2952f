----------------------------- MODULE MCGen9Node -----------------------------
(***************************************************************************)
(* Two peers, two experts, three loads; two f32 experts do not fit.        *)
(***************************************************************************)
EXTENDS Gen9Node, TLC

CONSTANTS h1, h2

Sizes == "f32" :> 4 @@ "fp8" :> 1
=============================================================================

----------------------------- MODULE Gen9Model -----------------------------
(***************************************************************************)
(* model.py: how many bytes each piece of a checkpoint takes, from its     *)
(* shape p.  A rate of bytes per parameter is a fraction <<n, d>>, rounded *)
(* as Python rounds: to the nearest integer, a tie to the even one.        *)
(***************************************************************************)
EXTENDS Integers, Sequences, Functions

Round(n, d) ==
    LET q == n \div d
        r == 2 * (n % d)
    IN  IF r > d \/ (r = d /\ q % 2 = 1) THEN q + 1 ELSE q

Times(k, rate) == Round(k * rate[1], rate[2])

-----------------------------------------------------------------------------
(* Formats *)

HalfBytes(dtype) ==
    CASE dtype = "fp8" -> 2 [] dtype \in {"fp4", "mxfp4"} -> 1
      [] dtype \in {"bf16", "fp16"} -> 4 [] dtype = "fp32" -> 8

\* The payload of a weight and its part of the scale its block shares.
BytesPerParam(q) ==
    IF q.block = 0 THEN <<HalfBytes(q.dtype), 2>>
                   ELSE <<HalfBytes(q.dtype) * q.block + 2 * q.scale, 2 * q.block>>

Bf16(k) == 2 * k

-----------------------------------------------------------------------------
(* Attention: MLA keeps one latent per token in every layer; the hybrid    *)
(* folds tokens by a ratio that differs from layer to layer                *)

Ratio(a, layer) ==
    IF a.ratios = <<>> THEN a.csa
    ELSE a.ratios[IF layer < Len(a.ratios) THEN layer + 1 ELSE Len(a.ratios)]

Kind(a, layer) ==
    IF a.type = "mla" THEN "mla"
    ELSE CASE Ratio(a, layer) <= 1 -> "swa"
           [] Ratio(a, layer) > 1 /\ Ratio(a, layer) = a.csa -> "csa"
           [] OTHER -> "hca"

MlaParams(a, d) ==
    LET qOut == a.heads * (a.nope + a.rope)
        q    == IF a.qLora = {} THEN d * qOut
                ELSE LET r == CHOOSE r \in a.qLora : TRUE IN d * r + r * qOut
    IN  q + d * (a.kvLora + a.rope) + a.kvLora * a.heads * (a.nope + a.v) + a.heads * a.v * d

HybridParams(a, d, layer) ==
    LET c == a.dim
        overlap == IF Kind(a, layer) = "csa" THEN 2 ELSE 1
        base == d * a.qLora + a.qLora * a.heads * c + d * c + a.heads * c * a.group
                  + a.groups * a.group * d + a.qLora + c + a.heads
        compress == 2 * overlap * d * c + Ratio(a, layer) * overlap * c + c
        index == a.qLora * a.ixHeads * a.ixDim + d * a.ixHeads + 4 * d * a.ixDim
                   + 2 * Ratio(a, layer) * a.ixDim + a.ixDim
    IN  base + (IF Kind(a, layer) = "swa" THEN 0 ELSE compress)
             + (IF Kind(a, layer) = "csa" THEN index ELSE 0)

WeightParams(a, d, layer) == IF a.type = "mla" THEN MlaParams(a, d) ELSE HybridParams(a, d, layer)

\* One cached entry: fp8, its rotated part in bf16.
KvEntry(a) == (a.dim - a.rope) + 2 * a.rope

KvPerToken(a, layer) ==
    CASE Kind(a, layer) = "mla" -> a.kvLora + 2 * a.rope
      [] Kind(a, layer) = "swa" -> 0
      [] Kind(a, layer) = "hca" -> Round(KvEntry(a), Ratio(a, layer))
      [] Kind(a, layer) = "csa" ->
           LET ix == BytesPerParam(a.ixQuant)
           IN  Round(KvEntry(a) * ix[2] + a.ixDim * ix[1], Ratio(a, layer) * ix[2])

StateBytes(a) == IF a.type = "mla" THEN 0 ELSE a.window * KvEntry(a)

-----------------------------------------------------------------------------
(* Pieces of the model *)

PlanningLayers(p) == p.layers + p.mtp

ExpertQuant(p) == IF p.expertWeights = {} THEN p.weights ELSE CHOOSE q \in p.expertWeights : TRUE

ExpertBytes(p) == Times(3 * p.moe.inter * p.hidden, BytesPerParam(ExpertQuant(p)))
AttentionBytes(p, layer) ==
    Times(WeightParams(p.attention, p.hidden, layer), BytesPerParam(p.weights))

HcDim(p) == p.hc * p.hidden
MixHc(p) == (2 + p.hc) * p.hc
HcBytes(p) == IF p.hc = 1 THEN 0
              ELSE Times(2 * (MixHc(p) * HcDim(p) + MixHc(p) + 3), BytesPerParam(p.weights))
HcHead(p)  == IF p.hc = 1 THEN 0 ELSE p.hc * HcDim(p) + p.hc + 1

Bf16Plus(p, k) ==
    LET b == BytesPerParam(p.weights) IN Round(Bf16(k) * b[2] + HcHead(p) * b[1], b[2])
FinalHeadBytes(p) == Bf16Plus(p, p.hidden)
MtpExtraBytes(p)  == Bf16Plus(p, 3 * p.hidden)

RouterBytes(p) == Times(p.hidden * p.moe.routed, BytesPerParam(p.weights))

GateExtras(p, layer) ==
    CASE layer < p.moe.dense -> 0
      [] layer >= p.moe.dense /\ layer < p.moe.hash -> p.vocab * p.moe.topk * 4
      [] OTHER -> Times(p.moe.routed, BytesPerParam(p.weights))

HotBytesPerMoeLayer(p, layer) ==
    AttentionBytes(p, layer) + RouterBytes(p) + GateExtras(p, layer)
      + ExpertBytes(p) * p.moe.shared + Bf16(2 * p.hidden) + HcBytes(p)

ColdBytesPerMoeLayer(p) == ExpertBytes(p) * p.moe.routed

DenseLayerBytes(p, layer) ==
    AttentionBytes(p, layer) + Times(3 * p.hidden * p.moe.denseInter, BytesPerParam(p.weights))
      + Bf16(2 * p.hidden) + HcBytes(p)

EmbeddingBytes(p) == Bf16(p.vocab * p.hidden)

MtpHotBytes(p, head) ==
    HotBytesPerMoeLayer(p, p.layers + head)
      + Times(2 * p.hidden * p.hidden, BytesPerParam(p.weights)) + MtpExtraBytes(p)

\* Fault: an MTP head is counted as one more layer, without its projection and norms.
HeadAsLayer(p, i) ==
    IF i < p.moe.dense THEN DenseLayerBytes(p, i) ELSE HotBytesPerMoeLayer(p, i)

BlockBytes(p, i) ==
    CASE i < p.moe.dense -> DenseLayerBytes(p, i)
      [] i >= p.moe.dense /\ i < p.layers -> HotBytesPerMoeLayer(p, i)
      [] OTHER -> MtpHotBytes(p, i - p.layers)

BlockKvBytes(p, i, context) ==
    context * KvPerToken(p.attention, i) + StateBytes(p.attention)

MtpBytes(p) ==
    SumFunction([head \in 0..p.mtp - 1 |-> MtpHotBytes(p, head) + ColdBytesPerMoeLayer(p)])

LayerBytes(p, i) ==
    IF i < p.moe.dense THEN DenseLayerBytes(p, i)
                       ELSE HotBytesPerMoeLayer(p, i) + ColdBytesPerMoeLayer(p)

TotalBytes(p) ==
    2 * EmbeddingBytes(p) + FinalHeadBytes(p) + MtpBytes(p)
      + SumFunction([i \in 0..p.layers - 1 |-> LayerBytes(p, i)])

\* A checkpoint whose pieces take whole numbers of bytes, an expert at least one, and whose
\* dense layers are among its layers.
ValidProfile(p, context) ==
    /\ p.layers \in Nat /\ p.mtp \in Nat /\ p.moe.routed \in Nat
    /\ p.moe.dense \in 0..p.layers
    /\ ExpertBytes(p) \in Nat \ {0} /\ EmbeddingBytes(p) \in Nat /\ FinalHeadBytes(p) \in Nat
    /\ \A i \in 0..PlanningLayers(p) - 1 :
          BlockBytes(p, i) \in Nat /\ BlockKvBytes(p, i, context) \in Nat

==================================================

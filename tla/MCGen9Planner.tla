--------------------------- MODULE MCGen9Planner ---------------------------
(***************************************************************************)
(* Fleets of up to five real consoles, some of them damaged, and two small *)
(* checkpoints whose bytes stand for megabytes: one of each kind of        *)
(* attention, with and without a dense layer and an MTP head.              *)
(***************************************************************************)
EXTENDS Gen9Planner

Fp8Block == [dtype |-> "fp8", scale |-> 4, block |-> 16]
Ue8m0    == [dtype |-> "fp8", scale |-> 1, block |-> 64]
Mxfp4    == [dtype |-> "mxfp4", scale |-> 1, block |-> 32]

Tiny == [layers |-> 3, mtp |-> 0, hidden |-> 16, vocab |-> 40, hc |-> 1,
         attention |-> [type |-> "mla", heads |-> 2, kvLora |-> 4, qLora |-> {}, nope |-> 4,
                        rope |-> 2, v |-> 4],
         moe |-> [routed |-> 6, shared |-> 1, topk |-> 2, inter |-> 32, dense |-> 1,
                  denseInter |-> 64, hash |-> 0],
         weights |-> Fp8Block, expertWeights |-> {}]

Hybrid == [layers |-> 3, mtp |-> 1, hidden |-> 16, vocab |-> 50, hc |-> 2,
           attention |-> [type |-> "hybrid", heads |-> 2, dim |-> 8, qLora |-> 4, groups |-> 2,
                          group |-> 4, rope |-> 2, ixHeads |-> 2, ixDim |-> 4, window |-> 8,
                          csa |-> 4, ratios |-> <<0, 4, 16, 4>>, ixQuant |-> Mxfp4],
           moe |-> [routed |-> 7, shared |-> 1, topk |-> 2, inter |-> 40, dense |-> 0,
                    denseInter |-> 0, hash |-> 1],
           weights |-> Ue8m0, expertWeights |-> {Mxfp4}]

Losing(tier, mb) == [Pristine EXCEPT !.losses = [n \in {tier} |-> mb]]
Slowed(tier, pc) == [Pristine EXCEPT !.scales = [n \in {tier} |-> pc]]
Budget(mb)       == [Pristine EXCEPT !.budget = {mb}]
Bad(id, sku, d)  == [Nominal(id, sku) EXCEPT !.downbin = d]

Fleets ==
    {SyntheticFleet(c) : c \in {<<<<"ps5", 4>>>>, <<<<"xbox-series-x", 4>>>>,
                                <<<<"xbox-series-x", 3>>, <<"xbox-series-s", 2>>>>,
                                <<<<"ps5-pro", 1>>, <<"amd-4700s", 2>>, <<"bc-250", 1>>>>,
                                <<<<"host-sim", 2>>, <<"amd-4800s", 1>>, <<"ps5-slim", 2>>>>}}
    \cup {<<Bad(1, "xbox-series-x", d), Nominal(2, "ps5"), Bad(3, "ps5", e),
             Nominal(4, "bc-250")>> :
            d \in {Losing("gddr6-fast", 4 * GB), Slowed("gddr6-fast", 50), Budget(11 * GB)},
            e \in {Budget(5 * GB), Losing("gddr6", 9 * GB)}}
    \cup {<<Bad(1, "ps5-pro", Slowed("gddr6", 25)), Nominal(2, "ps5-pro"),
            [Nominal(3, "xbox-series-x") EXCEPT !.runtime = "xbox-devmode", !.backend = {"d3d12"}],
            [Nominal(4, "bc-250") EXCEPT !.override = {64}, !.measured = {940000},
                                         !.backend = {"rocm"}]>>,
          <<Nominal(1, "ps5"), Nominal(1, "ps5")>>, <<>>,
          <<Bad(1, "ps5", Slowed("gddr6", 0))>>,
          <<Bad(1, "host-sim", Losing("host-ram", 9 * GB))>>,
          <<Nominal(1, "ps5-pro")>>
            \o [i \in 1..3 |-> Bad(i + 1, "host-sim", Losing("host-ram", 7 * GB))]}

All == [fleet : Fleets, profile : {Tiny, Hybrid}, context : {8, 256, 1024}, size : {1, 2, 3, 5},
        ssd : BOOLEAN]

=============================================================================

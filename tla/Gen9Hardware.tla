---------------------------- MODULE Gen9Hardware ----------------------------
(***************************************************************************)
(* hardware.py and the file format of inventory.py: what a console of the  *)
(* fleet can be asked to hold, from what it was sold as, the runtime it    *)
(* boots and what this one unit has lost.  Memory is counted in MB,        *)
(* bandwidth in MB/s, clocks in MHz and throughput in MFLOP/s, so that     *)
(* every figure of the table is an integer.  A value that may be None is a *)
(* set of at most one element.                                             *)
(***************************************************************************)
EXTENDS Integers, Sequences, FiniteSetsExt, Functions, TLC

GB == 1024

Get(f, k, d) == IF k \in DOMAIN f THEN f[k] ELSE d
AtMost(a, b) == IF a < b THEN a ELSE b
AtLeast(a, b) == IF a > b THEN a ELSE b
Or(opt, d) == IF opt = {} THEN d ELSE CHOOSE v \in opt : TRUE

-----------------------------------------------------------------------------
(* The table of consoles *)

Tier(name, total, bw, reserved, weights) ==
    [name |-> name, total |-> total, bw |-> bw, reserved |-> reserved, weights |-> weights]

Usable(t) == IF t.weights THEN AtLeast(0, t.total - t.reserved) ELSE 0

OnGpu == <<"vulkan", "rocm", "cpu">>

PS5 == [sku |-> "ps5", cores |-> 8, cpu |-> 3500, physical |-> 40, enabled |-> 36, gpu |-> 2230,
        tiers |-> <<Tier("gddr6", 16 * GB, 448000, 3 * GB, TRUE)>>, storage |-> 825 * GB,
        backends |-> OnGpu]

PS5_SLIM == [PS5 EXCEPT !.sku = "ps5-slim", !.storage = 1024 * GB]

PS5_PRO == [sku |-> "ps5-pro", cores |-> 8, cpu |-> 3850, physical |-> 64, enabled |-> 60,
            gpu |-> 2170, tiers |-> <<Tier("gddr6", 16 * GB, 576000, 0, TRUE),
                                      Tier("ddr5-os", 2 * GB, 0, 2 * GB, FALSE)>>,
            storage |-> 2048 * GB, backends |-> OnGpu]

XBOX_SERIES_X == [sku |-> "xbox-series-x", cores |-> 8, cpu |-> 3800, physical |-> 56,
                  enabled |-> 52, gpu |-> 1825,
                  tiers |-> <<Tier("gddr6-fast", 10 * GB, 560000, 0, TRUE),
                              Tier("gddr6-slow", 6 * GB, 336000, 2560, TRUE)>>,
                  storage |-> 1024 * GB, backends |-> <<"d3d12", "cpu">>]

XBOX_SERIES_S == [sku |-> "xbox-series-s", cores |-> 8, cpu |-> 3600, physical |-> 24,
                  enabled |-> 20, gpu |-> 1565,
                  tiers |-> <<Tier("gddr6-fast", 8 * GB, 224000, 0, TRUE),
                              Tier("gddr6-slow", 2 * GB, 56000, 2 * GB, TRUE)>>,
                  storage |-> 512 * GB, backends |-> <<"d3d12", "cpu">>]

AMD_4700S == [sku |-> "amd-4700s", cores |-> 8, cpu |-> 3200, physical |-> 40, enabled |-> 0,
              gpu |-> 0, tiers |-> <<Tier("gddr6", 16 * GB, 92000, GB, TRUE)>>,
              storage |-> 512 * GB, backends |-> <<"cpu">>]

AMD_4800S == [AMD_4700S EXCEPT !.sku = "amd-4800s", !.cpu = 4000, !.physical = 56]

BC_250 == [sku |-> "bc-250", cores |-> 6, cpu |-> 3500, physical |-> 40, enabled |-> 24,
           gpu |-> 2000, tiers |-> <<Tier("gddr6", 16 * GB, 360000, 3 * GB, TRUE)>>,
           storage |-> 256 * GB, backends |-> OnGpu]

HOST_SIM_SKU == [sku |-> "host-sim", cores |-> 8, cpu |-> 3000, physical |-> 0, enabled |-> 0,
                 gpu |-> 0, tiers |-> <<Tier("host-ram", 8 * GB, 50000, 0, TRUE)>>,
                 storage |-> 64 * GB, backends |-> <<"cpu">>]

SKUS == {PS5, PS5_SLIM, PS5_PRO, XBOX_SERIES_X, XBOX_SERIES_S, AMD_4700S, AMD_4800S, BC_250,
         HOST_SIM_SKU}

\* sku_for once a board revision was looked up: an inventory names its SKU here.
SkuFor(name) == CHOOSE s \in SKUS : s.sku = name

\* The tier with the most bandwidth of those that hold weights, the first of equals.
FastTier(s) ==
    LET usable == {i \in DOMAIN s.tiers : Usable(s.tiers[i]) > 0}
        best == {i \in usable : \A j \in usable : s.tiers[j].bw <= s.tiers[i].bw}
    IN  s.tiers[CHOOSE i \in best : \A j \in best : i <= j]

-----------------------------------------------------------------------------
(* What a unit has lost: a scale is in percent *)

Pristine == [cus |-> 0, cores |-> 0, cpu |-> {}, gpu |-> {}, losses |-> <<>>, scales |-> <<>>,
             budget |-> {}]

\* What Downbin's constructor accepts.
ValidDownbin(d) ==
    /\ d.cus >= 0 /\ d.cores >= 0
    /\ \A n \in DOMAIN d.scales : d.scales[n] \in 1..100

Tightest(a, b) == IF a \cup b = {} THEN {} ELSE {Min(a \cup b)}

Merge(a, b) ==
    [cus    |-> a.cus + b.cus,
     cores  |-> a.cores + b.cores,
     cpu    |-> Tightest(a.cpu, b.cpu),
     gpu    |-> Tightest(a.gpu, b.gpu),
     losses |-> [n \in DOMAIN a.losses \cup DOMAIN b.losses |->
                   Get(a.losses, n, 0) + Get(b.losses, n, 0)],
     scales |-> [n \in DOMAIN a.scales \cup DOMAIN b.scales |->
                   (Get(a.scales, n, 100) * Get(b.scales, n, 100)) \div 100],
     budget |-> Tightest(a.budget, b.budget)]

RuntimeDownbin(runtime, spec, app) ==
    CASE runtime = "xbox-devmode" ->
           [Pristine EXCEPT !.cores = 2, !.budget = {IF app THEN GB ELSE 5 * GB}]
      [] runtime = "ps5-hen" -> [Pristine EXCEPT !.budget = {8 * GB}]
      [] runtime \in {"ps5-linux", "salvage-linux"} ->
           [Pristine EXCEPT !.losses = [n \in {FastTier(spec).name} |-> GB]]
      [] OTHER -> Pristine

\* The backend asked for when it can be had, otherwise the best that can.
PickBackend(spec, runtime, requested) ==
    LET allowed ==
          IF runtime \in {"xbox-devmode", "ps5-hen", "host-sim"} THEN <<"cpu">>
          ELSE SelectSeq(spec.backends, LAMBDA b : b # "d3d12" \/ runtime = "xbox-gdk")
        offered == IF allowed = <<>> THEN <<"cpu">> ELSE allowed
    IN  Or(requested \cap Range(offered), offered[1])

\* Half precision multiply-adds: what memory feeds, at most a quarter of the peak.
EstimateGemv(backend, cus, gpu, cores, cpu, bw) ==
    IF backend = "cpu" THEN AtMost((bw * 7) \div 10, cores * cpu * 8)
                       ELSE AtMost((bw * 14) \div 10, cus * 32 * gpu)

-----------------------------------------------------------------------------
(* One unit *)

Surviving(spec, d) ==
    [i \in DOMAIN spec.tiers |->
       LET t == spec.tiers[i]
           total == AtLeast(0, t.total - Get(d.losses, t.name, 0))
       IN  Tier(t.name, total, (t.bw * Get(d.scales, t.name, 100)) \div 100,
                AtMost(t.reserved, total), t.weights)]

\* Fault: the tiers are handed out from the slowest up.
Behind(tiers, i, j) == tiers[i].bw < tiers[j].bw \/ (tiers[i].bw = tiers[j].bw /\ i < j)

\* Tiers in the order they are handed out: the most bandwidth first, equals as they are listed.
Ahead(tiers, i, j) == tiers[i].bw > tiers[j].bw \/ (tiers[i].bw = tiers[j].bw /\ i < j)

\* What is left of a tier: the sandbox takes its memory from the fastest first.
Spared(tiers, budget, i) ==
    LET before == SumFunction([j \in {k \in DOMAIN tiers : Ahead(tiers, k, i)} |->
                                 Usable(tiers[j])])
    IN  IF budget = {} THEN Usable(tiers[i])
        ELSE AtMost(Usable(tiers[i]), AtLeast(0, Or(budget, 0) - before))

\* The coffers, by the place of their tier in the table.
ApplyMemoryDownbin(spec, d) ==
    LET tiers == Surviving(spec, d)
    IN  [i \in {j \in DOMAIN tiers : Spared(tiers, d.budget, j) > 0} |->
           [bw |-> tiers[i].bw, size |-> Spared(tiers, d.budget, i)]]

FastBandwidth(coffers) == Max({0} \cup {coffers[i].bw : i \in DOMAIN coffers})

Reductions(u) == Merge(RuntimeDownbin(u.runtime, SkuFor(u.sku), u.app), u.downbin)

\* A cap of 0 is no cap.
Clock(nominal, cap) == IF Or(cap, 0) = 0 THEN nominal ELSE AtMost(nominal, Or(cap, 0))

Effective(u) ==
    LET spec    == SkuFor(u.sku)
        total   == Reductions(u)
        baseline == IF u.override = {} THEN spec.enabled
                    ELSE AtMost(Or(u.override, 0), spec.physical)
        active  == AtLeast(0, baseline - total.cus)
        picked  == PickBackend(spec, u.runtime, u.backend)
        backend == IF active = 0 THEN "cpu" ELSE picked
        coffers == ApplyMemoryDownbin(spec, total)
        estimate == EstimateGemv(backend, active, Clock(spec.gpu, total.gpu),
                                 AtLeast(1, spec.cores - total.cores),
                                 Clock(spec.cpu, total.cpu),
                                 FastBandwidth(coffers))
    IN  [sku |-> spec.sku, backend |-> backend, coffers |-> coffers, storage |-> spec.storage,
         gflops |-> Or(u.measured, estimate), measured |-> u.measured # {}]

WeightAtLeast(cap, bw) ==
    SumFunction([i \in {j \in DOMAIN cap.coffers : cap.coffers[j].bw >= bw} |->
                   cap.coffers[i].size])
WeightBytes(cap) == SumFunction([i \in DOMAIN cap.coffers |-> cap.coffers[i].size])

-----------------------------------------------------------------------------
(* The inventory file: a field is left out when it says nothing *)

Without(f, keys) == [k \in DOMAIN f \ keys |-> f[k]]

DownbinToDict(d) == Without(d, {k \in DOMAIN d : d[k] = Pristine[k]})

DownbinFromDict(raw) == [k \in DOMAIN Pristine |-> Get(raw, k, Pristine[k])]

Optional == [backend |-> {}, measured |-> {}, app |-> FALSE, override |-> {}]

EntryToDict(u) ==
    LET said == [u EXCEPT !.downbin = DownbinToDict(@)]
    IN  Without(said, {k \in DOMAIN Optional : u[k] = Optional[k]}
                      \cup (IF said.downbin = <<>> THEN {"downbin"} ELSE {}))

EntryFromDict(raw) ==
    [k \in {"id", "sku", "runtime", "downbin"} \cup DOMAIN Optional |->
       CASE k = "downbin" -> DownbinFromDict(Get(raw, k, <<>>))
         [] k = "runtime" -> Get(raw, k, "host-sim")
         [] k \in DOMAIN Optional -> Get(raw, k, Optional[k])
         [] OTHER -> raw[k]]

\* A fleet of nominal consoles: counts is a sequence of <<sku, how many>>, and units are
\* numbered as their names sort.
DefaultRuntime(sku) ==
    CASE sku \in {"ps5", "ps5-slim", "ps5-pro"} -> "ps5-linux"
      [] sku \in {"xbox-series-x", "xbox-series-s"} -> "xbox-gdk"
      [] sku = "host-sim" -> "host-sim"
      [] OTHER -> "salvage-linux"

Nominal(id, sku) ==
    Optional @@ [id |-> id, sku |-> sku, runtime |-> DefaultRuntime(sku), downbin |-> Pristine]

SyntheticFleet(counts) ==
    LET before(k) == SumFunction([i \in 1..k - 1 |-> counts[i][2]])
        sku(n) == counts[CHOOSE k \in DOMAIN counts : n \in before(k) + 1..before(k + 1)][1]
    IN  [n \in 1..before(Len(counts) + 1) |-> Nominal(n, sku(n))]

DuplicateId(fleet) == \E i, j \in DOMAIN fleet : i # j /\ fleet[i].id = fleet[j].id

\* What a caller says of a unit: a console of the table, its figures whole numbers, and what
\* is lost of a tier no less than nothing.
Figures(opt) == \A v, w \in opt : v \in Int /\ v = w

ValidEntry(u) ==
    /\ u = [k \in {"id", "sku", "runtime", "downbin"} \cup DOMAIN Optional |-> u[k]]
    /\ u.id \in Nat /\ u.sku \in {s.sku : s \in SKUS}
    /\ Figures(u.measured) /\ Figures(u.override)
    /\ LET d == u.downbin IN
       /\ d = [k \in DOMAIN Pristine |-> d[k]]
       /\ d.cus \in Int /\ d.cores \in Int /\ Figures(d.cpu) /\ Figures(d.gpu)
       /\ Figures(d.budget)
       /\ \A n \in DOMAIN d.losses : d.losses[n] \in Nat
       /\ \A n \in DOMAIN d.scales : d.scales[n] \in Int

==================================================

---------------------------- MODULE Gen9Planner ----------------------------
(***************************************************************************)
(* planner.py's plan_split, one action per turn of its loops: the fleet of *)
(* an inventory file is dealt into shelves, each shelf gets a run of       *)
(* layers and a host for their hot blocks, each layer's experts go to the  *)
(* shelf's RAM, then to its drives, then elsewhere, and the two ends of    *)
(* the model go where room is left.                                        *)
(***************************************************************************)
EXTENDS Gen9Hardware, Gen9Model

CONSTANTS Cases    \* what is planned: [fleet, profile, context, size, ssd]

Floor    == 200000  \* HOT_BANDWIDTH_FLOOR_GBPS, in MB/s
Headroom == 8       \* RESIDENCY_HEADROOM, in percent

\* A call plans units of the console table for a checkpoint whose pieces take whole numbers
\* of bytes, an expert at least one, and whose dense layers are among its layers.
ASSUME CasesAssumption ==
    \A c \in Cases :
       /\ c.size \in Int /\ c.ssd \in BOOLEAN
       /\ c.fleet \in Seq(Range(c.fleet))
       /\ \A i \in DOMAIN c.fleet : ValidEntry(c.fleet[i])
       /\ ValidProfile(c.profile, c.context)

VARIABLES case,     \* the call of plan_split
          phase,    \* the loop it is in, "done" or "error"
          caps,     \* unit -> its effective capability
          units,    \* unit -> what it is asked to hold
          shelves,  \* the units of each shelf
          quotas,   \* how many layers each shelf is to have
          stages,   \* the stages so far
          at,       \* the shelf, later the stage, whose turn it is
          layer,    \* the next layer
          pass,     \* where its experts are tried: "ram", "ssd" or "outside" the shelf
          todo,     \* the units whose turn in this pass is to come
          next,     \* the layer's first expert that is on no unit yet
          short     \* bytes of experts that went nowhere

planVars == <<case, phase, caps, units, shelves, quotas, stages, at, layer, pass, todo, next,
              short>>

PlanInit ==
    /\ case \in Cases
    /\ phase = "load"
    /\ caps = <<>> /\ units = <<>> /\ shelves = <<>> /\ quotas = <<>> /\ stages = <<>>
    /\ at = 1 /\ layer = 0 /\ pass = "none" /\ todo = {} /\ next = 0 /\ short = 0

profile  == case.profile
Consoles == DOMAIN units
Blocks   == PlanningLayers(profile)

-----------------------------------------------------------------------------
(* A unit's plan *)

Usably(mb) == (mb * (100 - Headroom)) \div 100

NoPlan(cap) ==
    [hosted |-> {}, io |-> {}, shards |-> {}, hot |-> 0, fast |-> 0, slow |-> 0, ssd |-> 0,
     kv |-> 0, capacity |-> Usably(WeightBytes(cap)),
     fastCapacity |-> Usably(WeightAtLeast(cap, Floor)), gflops |-> cap.gflops]

Resident(u) == u.hot + u.fast + u.slow + u.kv
\* Fault: the caches of the hosted layers are not counted.
RoomBesideKv(u) == u.capacity - (u.hot + u.fast + u.slow)

Room(u)     == u.capacity - Resident(u)

\* Every turn of a loop over units is the one that sorts first: by what key says of it, the
\* most first and equals by name.
First(ids, key) ==
    {a \in ids : \A b \in ids \ {a} : key[a] > key[b] \/ (key[a] = key[b] /\ a < b)}

-----------------------------------------------------------------------------
(* The fleet, from the file it was saved in *)

Loaded == [i \in DOMAIN case.fleet |-> EntryFromDict(EntryToDict(case.fleet[i]))]

Refused ==
    \/ Loaded = <<>> \/ case.size < 1 \/ DuplicateId(Loaded)
    \/ \E i \in DOMAIN Loaded : ~ValidDownbin(Loaded[i].downbin)

RefuseFleet ==
    /\ phase = "load"
    /\ Refused
    /\ phase' = "error"
    /\ UNCHANGED <<case, caps, units, shelves, quotas, stages, at, layer, pass, todo, next, short>>

LoadFleet ==
    /\ phase = "load"
    /\ ~Refused
    /\ LET ids == {Loaded[i].id : i \in DOMAIN Loaded}
           unit(id) == Loaded[CHOOSE i \in DOMAIN Loaded : Loaded[i].id = id]
       IN  /\ caps' = [id \in ids |-> Effective(unit(id))]
           /\ units' = [id \in ids |-> NoPlan(Effective(unit(id)))]
    /\ phase' = "shelve"
    /\ UNCHANGED <<case, shelves, quotas, stages, at, layer, pass, todo, next, short>>

-----------------------------------------------------------------------------
(* Shelves: units are dealt round the table, the most capable first *)

MoreCapable(a, b) ==
    \/ units[a].capacity > units[b].capacity
    \/ units[a].capacity = units[b].capacity /\ units[a].gflops > units[b].gflops
    \/ units[a].capacity = units[b].capacity /\ units[a].gflops = units[b].gflops /\ a < b

Index(id) == Cardinality({b \in Consoles : MoreCapable(b, id)})

BuildShelves ==
    LET n == AtLeast(1, (Cardinality(Consoles) + case.size - 1) \div case.size)
    IN  [s \in 1..n |-> {id \in Consoles : Index(id) % n = s - 1}]

ShelfCapacity(shelf) == SumFunction([id \in shelf |-> units[id].capacity])

Shelve ==
    /\ phase = "shelve"
    /\ LET capacity == [s \in DOMAIN BuildShelves |-> ShelfCapacity(BuildShelves[s])]
           total    == SumFunction(capacity)
       IN  IF total <= 0
           THEN phase' = "error" /\ UNCHANGED <<shelves, quotas>>
           ELSE /\ phase' = "deal"
                /\ shelves' = BuildShelves
                /\ quotas' = [s \in DOMAIN capacity |-> (Blocks * capacity[s]) \div total]
    /\ UNCHANGED <<case, caps, units, stages, at, layer, pass, todo, next, short>>

\* Layers that are over go to the shelf with the most capacity per layer it would have, the
\* first of equals.
Hungrier(i, j) ==
    ShelfCapacity(shelves[i]) * (quotas[j] + 1) > ShelfCapacity(shelves[j]) * (quotas[i] + 1)

DealLayer ==
    /\ phase = "deal"
    /\ SumFunction(quotas) < Blocks
    /\ \E s \in DOMAIN quotas :
          /\ \A j \in DOMAIN quotas : ~Hungrier(j, s) /\ (s <= j \/ Hungrier(s, j))
          /\ quotas' = [quotas EXCEPT ![s] = @ + 1]
    /\ UNCHANGED <<case, phase, caps, units, shelves, stages, at, layer, pass, todo, next, short>>

EndDeal ==
    /\ phase = "deal"
    /\ SumFunction(quotas) >= Blocks
    /\ phase' = "range"
    /\ UNCHANGED <<case, caps, units, shelves, quotas, stages, at, layer, pass, todo, next, short>>

-----------------------------------------------------------------------------
(* Layer ranges: each shelf in turn, and a host for the hot blocks of its  *)
(* range                                                                   *)

BlockNeed(i) == BlockBytes(profile, i) + BlockKvBytes(profile, i, case.context)

Need(first, n) == SumFunction([i \in first..first + n - 1 |-> BlockNeed(i)])

\* The member that holds the hot blocks: the fastest coffer, then the largest.
Hosts(shelf, need) ==
    LET bw(id) == FastBandwidth(caps[id].coffers)
        able   == {id \in shelf : units[id].fastCapacity >= need /\ bw(id) >= Floor}
        rank(a, b) == \/ bw(a) > bw(b)
                      \/ bw(a) = bw(b) /\ units[a].fastCapacity > units[b].fastCapacity
                      \/ /\ bw(a) = bw(b) /\ units[a].fastCapacity = units[b].fastCapacity
                         /\ a > b
    IN  {a \in able : \A b \in able \ {a} : rank(a, b)}

\* What the later shelves are given of the layers this one cannot host.
Spill(k, lost) ==
    LET share == lost \div AtLeast(1, Len(shelves) - k)
    IN  [i \in DOMAIN quotas |-> IF i > k THEN quotas[i] + share ELSE quotas[i]]

Host(u, first, n) ==
    LET mine == first..first + n - 1
    IN  [u EXCEPT !.hosted = @ \cup mine,
                  !.io = @ \cup {<<"mtp-head", i - profile.layers>> :
                                   i \in {j \in mine : j >= profile.layers}},
                  !.hot = @ + SumFunction([i \in mine |-> BlockBytes(profile, i)]),
                  !.kv = @ + SumFunction([i \in mine |->
                                            BlockKvBytes(profile, i, case.context)])]

InRange == phase = "range" /\ at <= Len(shelves) /\ layer < Blocks

Skip ==
    /\ InRange
    /\ quotas[at] = 0
    /\ at' = at + 1
    /\ UNCHANGED <<case, phase, caps, units, shelves, quotas, stages, layer, pass, todo, next,
                   short>>

\* A shelf that can host nothing fails the plan.
Unhosted ==
    /\ InRange
    /\ quotas[at] > 0
    /\ \A n \in 1..quotas[at] : Hosts(shelves[at], Need(layer, n)) = {}
    /\ phase' = "error"
    /\ UNCHANGED <<case, caps, units, shelves, quotas, stages, at, layer, pass, todo, next, short>>

HostRange ==
    /\ InRange
    /\ \E n \in 1..quotas[at] :
          /\ \A m \in n + 1..quotas[at] : Hosts(shelves[at], Need(layer, m)) = {}
          /\ \E host \in Hosts(shelves[at], Need(layer, n)) :
                /\ units' = [units EXCEPT ![host] = Host(@, layer, n)]
                /\ stages' = Append(stages, [first |-> layer, n |-> n, host |-> host,
                                             shelf |-> shelves[at], experts |-> shelves[at]])
          /\ quotas' = Spill(at, quotas[at] - n)
          /\ layer' = layer + n
    /\ at' = at + 1
    /\ UNCHANGED <<case, phase, caps, shelves, pass, todo, next, short>>

EndRanges ==
    /\ phase = "range"
    /\ at > Len(shelves) \/ layer >= Blocks
    /\ phase' = IF layer < Blocks THEN "error" ELSE "experts"
    /\ at' = 1
    /\ layer' = 0
    /\ UNCHANGED <<case, caps, units, shelves, quotas, stages, pass, todo, next, short>>

-----------------------------------------------------------------------------
(* Experts of a layer: in the RAM of its shelf, on its drives, and in the  *)
(* RAM of the other units                                                  *)

Expert == ExpertBytes(profile)
Routed == profile.moe.routed
Left   == Routed - next
Dense(l) == l < profile.moe.dense

\* A member's part of a layer: by how fast it reads, and never nothing.
Share(id) ==
    LET speed == [m \in stages[at].shelf |-> AtLeast(units[m].gflops, 1000)]
    IN  AtLeast(1, Round(Routed * speed[id], SumFunction(speed)))

\* The fast coffer while the whole shard fits beside what is there.
TierFor(u, want) == IF u.hot + u.kv + u.fast + want <= u.fastCapacity THEN "fast" ELSE "slow"

\* How many of the experts that are left a unit takes: half of a drive is for experts.
Takes(id) ==
    LET u == units[id]
        ram == Room(u) \div Expert
        drive == (caps[id].storage \div 2 - u.ssd) \div Expert
    IN  CASE pass = "ram"     -> AtMost(Left, AtMost(ram, Share(id)))
          [] pass = "ssd"     -> AtMost(Left, AtLeast(0, drive))
          [] pass = "outside" -> AtMost(Left, ram)

Hold(u, n, tier) ==
    LET more(t) == IF t = tier THEN n * Expert ELSE 0
    IN  [u EXCEPT !.shards = @ \cup {[layer |-> layer, first |-> next, n |-> n, tier |-> tier]},
                  !.fast = @ + more("fast"), !.slow = @ + more("slow"), !.ssd = @ + more("ssd")]

Turn(id) ==
    /\ phase = "experts" /\ at <= Len(stages) /\ Left > 0
    /\ id \in First(todo, [b \in todo |-> IF pass = "ssd" THEN caps[b].storage ELSE Room(units[b])])
    /\ todo' = todo \ {id}
    /\ UNCHANGED <<case, phase, caps, shelves, quotas, at, layer, pass, short>>

PassBy ==
    \E id \in todo :
       /\ Turn(id)
       /\ Takes(id) <= 0
       /\ UNCHANGED <<units, stages, next>>

TakeShard ==
    \E id \in todo :
       /\ Turn(id)
       /\ Takes(id) > 0
       /\ LET n == Takes(id)
              tier == IF pass = "ssd" THEN "ssd" ELSE TierFor(units[id], n * Expert)
          IN  /\ units' = [units EXCEPT ![id] = Hold(@, n, tier)]
              /\ next' = next + n
       /\ stages' = [stages EXCEPT ![at].experts = @ \cup {id}]

\* The next pass over the layer, once every unit of this one had its turn.
NextPass ==
    /\ phase = "experts" /\ at <= Len(stages) /\ ~Dense(layer)
    /\ todo = {} /\ Left > 0 /\ pass # "outside"
    /\ pass' = CASE pass = "none" -> "ram"
                 [] pass = "ram"  -> IF case.ssd THEN "ssd" ELSE "outside"
                 [] pass = "ssd"  -> "outside"
    /\ todo' = IF pass' = "outside" THEN Consoles \ stages[at].shelf ELSE stages[at].shelf
    /\ UNCHANGED <<case, phase, caps, units, shelves, quotas, stages, at, layer, next, short>>

\* A dense layer has no experts, any other is done with when all are placed or all were tried.
NextLayer ==
    /\ phase = "experts" /\ at <= Len(stages)
    /\ Dense(layer) \/ Left = 0 \/ (pass = "outside" /\ todo = {})
    /\ short' = IF Dense(layer) THEN short ELSE short + Left * Expert
    /\ layer' = layer + 1
    /\ at' = IF layer' = stages[at].first + stages[at].n THEN at + 1 ELSE at
    /\ pass' = "none" /\ todo' = {} /\ next' = 0
    /\ UNCHANGED <<case, phase, caps, units, shelves, quotas, stages>>

EndExperts ==
    /\ phase = "experts" /\ at > Len(stages)
    /\ phase' = "embedding"
    /\ UNCHANGED <<case, caps, units, shelves, quotas, stages, at, layer, pass, todo, next, short>>

-----------------------------------------------------------------------------
(* The two ends of the model, in the roomiest unit's RAM or on its drive    *)

WithPiece(u, piece, size) ==
    LET fits == Room(u) >= size
    IN  [u EXCEPT !.io = @ \cup {<<piece, IF fits THEN "ram" ELSE "ssd">>},
                  !.hot = @ + (IF fits THEN size ELSE 0),
                  !.ssd = @ + (IF fits THEN 0 ELSE size)]

AssignPiece(piece) ==
    /\ \E id \in Consoles :
          /\ \A b \in Consoles \ {id} : \/ Room(units[id]) > Room(units[b])
                                        \/ Room(units[id]) = Room(units[b]) /\ id > b
          /\ units' = [units EXCEPT ![id] = WithPiece(@, piece, EmbeddingBytes(profile))]
    /\ UNCHANGED <<case, caps, shelves, quotas, stages, at, layer, pass, todo, next, short>>

AssignEmbedding == phase = "embedding" /\ AssignPiece("embedding") /\ phase' = "lm_head"

\* The plan is refused at the end if experts went nowhere.
AssignHead ==
    /\ phase = "lm_head"
    /\ AssignPiece("lm_head")
    /\ phase' = IF short > 0 THEN "error" ELSE "done"

PlanNext ==
    \/ RefuseFleet \/ LoadFleet \/ Shelve \/ DealLayer \/ EndDeal
    \/ Skip \/ Unhosted \/ HostRange \/ EndRanges
    \/ PassBy \/ TakeShard \/ NextPass \/ NextLayer \/ EndExperts
    \/ AssignEmbedding \/ AssignHead

PlanSpec == PlanInit /\ [][PlanNext]_planVars

-----------------------------------------------------------------------------
Planned == phase = "done"

\* Nothing a unit is asked to hold in RAM exceeds what is left of it after every loss and
\* the headroom, whichever step of the plan added it last.
WithinCapacity ==
    \A id \in Consoles : Resident(units[id]) <= units[id].capacity

\* A plan is whole: each block is hosted once, by the host of the one stage whose layers it
\* is among; every expert of every MoE layer is in exactly one shard, on a unit that layer's
\* stage asks; and the bytes of all units are those of the model, its final norm and head
\* apart, which no unit is given.
HostedOnce ==
    \A l \in 0..Blocks - 1 :
       \E i \in DOMAIN stages :
          /\ l \in stages[i].first..stages[i].first + stages[i].n - 1
          /\ {id \in Consoles : l \in units[id].hosted} = {stages[i].host}

Has(s, l, e) == s.layer = l /\ e \in s.first..s.first + s.n - 1

ExpertsOnce ==
    \A l \in profile.moe.dense..Blocks - 1 : \A e \in 0..Routed - 1 :
       \E i \in DOMAIN stages : \E id \in stages[i].experts : \E s \in units[id].shards :
          /\ l \in stages[i].first..stages[i].first + stages[i].n - 1
          /\ Has(s, l, e)
          /\ \A b \in Consoles : \A t \in units[b].shards : Has(t, l, e) => b = id /\ t = s

OnUnits(u) == u.hot + u.fast + u.slow + u.ssd

BytesPlaced ==
    SumFunction([id \in Consoles |-> OnUnits(units[id])])
      = TotalBytes(profile) - FinalHeadBytes(profile)

PlanWhole == Planned => HostedOnce /\ ExpertsOnce /\ BytesPlaced

\* A sandbox or a loss recorded for a unit only ever takes away: what the planner reads of
\* it, at any bandwidth floor, is no more than without the record; and a memory budget
\* costs the slowest tiers first.
Floors == {0, Floor, 400000}

LossTakesAway ==
    \A id \in DOMAIN caps :
      LET u    == case.fleet[CHOOSE i \in DOMAIN case.fleet : case.fleet[i].id = id]
          bare == Effective([u EXCEPT !.downbin = Pristine])
          free == Effective([u EXCEPT !.downbin.budget = {}])
      IN  \A f \in Floors :
            /\ WeightAtLeast(caps[id], f) <= WeightAtLeast(bare, f)
            /\ WeightAtLeast(caps[id], f)
                 = IF u.downbin.budget = {} THEN WeightAtLeast(free, f)
                   ELSE AtMost(WeightAtLeast(free, f), AtLeast(0, Or(u.downbin.budget, 0)))

=============================================================================

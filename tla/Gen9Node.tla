------------------------------ MODULE Gen9Node ------------------------------
(***************************************************************************)
(* A gen9 console, gen9_cluster/node.py: its ShardStore and the handler    *)
(* threads of NodeServer, one per connection, that load shards into it and *)
(* read experts out of it.  put() holds the store's lock; a shard is put   *)
(* expert by expert and a batch gets its experts one by one, without it.   *)
(*                                                                         *)
(* Abstracted: weights are the bytes they take and their tier; a           *)
(* kernel's rows are the weights they were computed from.                  *)
(* (The dedup cache around a batch is in module Gen9Layer.)                *)
(***************************************************************************)
EXTENDS Integers, Sequences, FiniteSets, Functions

CONSTANTS Handlers,   \* threads of connected peers
          Experts,    \* expert ids of a layer: consecutive numbers
          Capacity,   \* ShardStore.capacity_bytes, 0 for no limit
          Bytes,      \* what an expert takes: f32 and fp8
          Tiers,      \* the tiers a shard may name
          HasBlock,   \* whether the node was given a block_fn
          MaxLoads    \* bound: shards loaded and experts mapped

ASSUME ExpertsAssumption ==
    /\ Experts \subseteq Nat /\ IsFiniteSet(Experts)
    /\ \A e, f \in Experts : e..f \subseteq Experts
ASSUME CapacityAssumption == Capacity \in Nat
ASSUME WeightsAssumption == Bytes \in [{"f32", "fp8"} -> Nat \ {0}]
ASSUME TiersAssumption == "ssd" \in Tiers
ASSUME BoundAssumption == MaxLoads \in Nat

VARIABLES store,     \* ShardStore._experts
          resident,  \* ShardStore.resident_bytes
          handler,   \* what each thread is doing
          loads,     \* loads begun so far
          acked,     \* experts some LOAD_ACK covers
          twice      \* whether a key was put again (bookkeeping)

nodeVars == <<store, resident, handler, loads, acked, twice>>

Weights == [bytes : Nat, tier : Tiers]
Stored  == DOMAIN store

Idle       == [at |-> "idle"]
Reply(m)   == [at |-> "reply", msg |-> m]
\* The last expert of a shard.
Last(s) == s.first + s.n - 1

\* _on_load past the tests of the body: the shard and the experts still to put.
Loading(s) == [at |-> "load", shard |-> s, next |-> s.first]
\* _run_batch: the experts asked for, and what get() returned of them.
Getting(ids) == [at |-> "batch", ids |-> ids, got |-> <<>>]

Missing(e) == [at |-> "reply", msg |-> "missing", of |-> e]
Rows(b)    == [at |-> "reply", msg |-> "rows", got |-> b.got,
               storage |-> \E w \in Range(b.got) : w.tier = "ssd"]

Shards == [first : Experts, n : 1..Cardinality(Experts), kind : {"f32", "fp8"}, tier : Tiers,
           whole : BOOLEAN]

NodeTypeOK ==
    /\ Stored \subseteq Experts
    /\ \A e \in Stored : store[e] \in Weights
    /\ resident \in Nat
    /\ \A h \in Handlers : handler[h].at \in {"idle", "load", "batch", "reply"}
    /\ loads \in 0..MaxLoads
    /\ acked \subseteq Experts
    /\ twice \in BOOLEAN

NodeInit ==
    /\ store    = <<>>
    /\ resident = 0
    /\ handler  = [h \in Handlers |-> Idle]
    /\ loads    = 0
    /\ acked    = {}
    /\ twice    = FALSE

Set(h, state) == handler' = [handler EXCEPT ![h] = state]

-----------------------------------------------------------------------------
\* ShardStore.put.  An expert on the SSD is mapped and takes no memory.
InRam(w) == w.tier # "ssd"

Fits(w) == Capacity = 0 \/ ~InRam(w) \/ resident + w.bytes <= Capacity

\* Fault: what is replaced is given back, wherever it was.
Refunded(e, w) ==
    (IF InRam(w) THEN resident + w.bytes ELSE resident)
      - (IF e \in Stored THEN store[e].bytes ELSE 0)

\* Fault: a mapped expert is counted as well.
AllCounted(e, w) == resident + w.bytes

\* The bytes of a copy that is replaced stay counted.
Counted(e, w) == IF InRam(w) THEN resident + w.bytes ELSE resident

Put(e, w) ==
    /\ store' = [x \in Stored \cup {e} |-> IF x = e THEN w ELSE store[x]]
    /\ resident' = Counted(e, w)
    /\ twice' = (twice \/ e \in Stored)

\* ShardStore.map_from_storage, called by the process that owns the store.
MapFromStorage(e) ==
    /\ loads < MaxLoads
    /\ loads' = loads + 1
    /\ Put(e, [bytes |-> Bytes["f32"], tier |-> "ssd"])
    /\ UNCHANGED <<handler, acked>>

\* _on_load up to the first put: a body whose length does not fit its header is refused
\* whole (_load_f32, _load_fp8).
Load(h, s) ==
    /\ handler[h].at = "idle"
    /\ loads < MaxLoads
    /\ Last(s) \in Experts
    /\ loads' = loads + 1
    /\ Set(h, IF s.whole THEN Loading(s) ELSE Reply("error"))
    /\ UNCHANGED <<store, resident, acked, twice>>

\* Fault: a shard is acknowledged for what its header names.
AckedAll(s, e) == s.first..Last(s)

\* What a peer may count on once expert e was put.
Acked(s, e) == IF e = Last(s) THEN s.first..e ELSE {}

\* One expert of the shard, under the store's lock; over the budget the rest is not
\* put and the error is sent (CapacityError).
PutNext(h) ==
    LET s == handler[h].shard
        e == handler[h].next
        w == [bytes |-> Bytes[s.kind], tier |-> s.tier]
    IN  /\ handler[h].at = "load"
        /\ IF Fits(w)
             THEN /\ Put(e, w)
                  /\ Set(h, IF e = Last(s) THEN Reply("ack")
                                           ELSE [handler[h] EXCEPT !.next = e + 1])
                  /\ acked' = acked \cup Acked(s, e)
             ELSE Set(h, Reply("error")) /\ UNCHANGED <<store, resident, twice, acked>>
        /\ UNCHANGED <<loads>>

-----------------------------------------------------------------------------
\* _on_expert_batch, as far as the store is concerned.
AskBatch(h, ids) ==
    /\ handler[h].at = "idle"
    /\ Set(h, Getting(ids))
    /\ UNCHANGED <<store, resident, loads, acked, twice>>

\* ShardStore.get of the next expert: a reference to the weights, or ShardMissing.
GetNext(h) ==
    LET b == handler[h]
        e == b.ids[Len(b.got) + 1]
    IN  /\ b.at = "batch"
        /\ Len(b.got) < Len(b.ids)
        /\ Set(h, IF e \in Stored THEN [b EXCEPT !.got = Append(@, store[e])]
                                  ELSE Missing(e))
        /\ UNCHANGED <<store, resident, loads, acked, twice>>

\* The kernel, over the weights that were got; FROM_STORAGE if one of them is mapped.
RunBatch(h) ==
    LET b == handler[h] IN
    /\ b.at = "batch"
    /\ Len(b.got) = Len(b.ids)
    /\ Set(h, Rows(b))
    /\ UNCHANGED <<store, resident, loads, acked, twice>>

\* The other frames: HELLO, PING and STATUS are answered as they are, BLOCK_FWD if the
\* node has a block_fn, and an unknown type is an ERROR.
AnswerFrame(h, msg) ==
    /\ handler[h].at = "idle"
    /\ Set(h, Reply(IF msg = "BLOCK_FWD" /\ ~HasBlock THEN "error" ELSE msg))
    /\ UNCHANGED <<store, resident, loads, acked, twice>>

\* The reply is written and the next frame awaited.
Send(h) ==
    /\ handler[h].at = "reply"
    /\ Set(h, Idle)
    /\ UNCHANGED <<store, resident, loads, acked, twice>>

Asked == {<<e>> : e \in Experts} \cup {<<e, f>> : e, f \in Experts}

NodeNext ==
    \/ \E e \in Experts : MapFromStorage(e)
    \/ \E h \in Handlers : \E s \in Shards : Load(h, s)
    \/ \E h \in Handlers : \E ids \in Asked : AskBatch(h, ids)
    \/ \E h \in Handlers, msg \in {"STATUS", "BLOCK_FWD"} : AnswerFrame(h, msg)
    \/ \E h \in Handlers : PutNext(h) \/ GetNext(h) \/ RunBatch(h) \/ Send(h)

NodeSpec == NodeInit /\ [][NodeNext]_nodeVars

-----------------------------------------------------------------------------
\* What an expert takes of the memory, and what all of them take.
RamOf(w) == IF InRam(w) THEN w.bytes ELSE 0
RamBytes == SumFunction([e \in Stored |-> RamOf(store[e])])

\* The weights in memory stay within the budget, however loads of several peers overlap,
\* replace each other or move an expert between memory and SSD.
StoredWithinBudget == Capacity > 0 => RamBytes <= resident /\ resident <= Capacity

\* While no expert was stored twice the budget is used to the byte.  (An expert stored
\* again is counted again, and its first copy's bytes are lost for good.)
BudgetExact == ~twice => resident = RamBytes

\* What a peer was told is so: an expert whose shard was acknowledged is there for every
\* later batch, although a load puts its experts one at a time, may fail half-way and
\* batches read the store without its lock.
AckedServed ==
    [][\A h \in Handlers : handler[h].at = "batch" /\ handler'[h].at = "reply"
           /\ handler'[h].msg = "missing" => handler'[h].of \notin acked]_nodeVars

=============================================================================

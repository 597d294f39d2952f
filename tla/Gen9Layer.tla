----------------------------- MODULE Gen9Layer -----------------------------
(***************************************************************************)
(* A token through a gen9 fleet: FleetCoordinator and ShelfCoordinator     *)
(* (coordinator.py), the ExpertDispatcher of each shelf (dispatch.py), and *)
(* how a console answers a batch through its dedup cache (node.py,         *)
(* dedup.py).  Several tokens go through one FleetCoordinator at a time,   *)
(* each in a thread of its own, and share the pool's connections and the   *)
(* dispatcher's record of consoles that are down.                          *)
(*                                                                         *)
(* Abstracted: an activation and its gates belong to the token and the     *)
(* layer, so a batch is the sequence of its experts; a row is the expert   *)
(* it comes from.  The pool is reduced to what dropping a connection does  *)
(* to those who use it (module Gen9Connection is the detail).  A console   *)
(* serves its batches in any order.  The dispatcher's executor has a       *)
(* worker for every batch.                                                 *)
(*                                                                         *)
(* A request is written under the connection's _lock, to a socket without  *)
(* a timeout (settimeout(None)).  A console that takes no more bytes so    *)
(* holds up a writer and everyone behind it for as long as it pleases;     *)
(* only the wait for the reply is timed.                                   *)
(***************************************************************************)
EXTENDS Integers, Sequences, FiniteSets, FiniteSetsExt, Functions

CONSTANTS Tokens,       \* threads inside forward()
          Units,        \* consoles
          Named,        \* the consoles in the order of their names
          Layers,       \* the layers of the plan, in order
          DenseLayers,  \* the first of them, that have no routed experts
          Host,         \* the host console of each layer's shelf
          Placement,    \* layer -> expert -> the consoles that hold it, best first
          Routed,       \* the router's top-k for a token at a layer
          MaxRetries,   \* of a console's batch
          Fast,         \* whether each console collapses its own experts
          MaxFaults     \* bound: how often consoles become unreachable or stop reading

ASSUME UnitsAssumption == Named \in Seq(Units) /\ Range(Named) = Units
ASSUME LayersAssumption ==
    /\ Layers \in Seq(Int) /\ Layers # <<>>
    /\ \A i, j \in DOMAIN Layers : Layers[i] = Layers[j] => i = j
    /\ DenseLayers \in Nat
    /\ Host \in [Range(Layers) -> Units]
ASSUME PlacementAssumption ==
    \A l \in DOMAIN Placement : \A e \in DOMAIN Placement[l] :
        Placement[l][e] \in Seq(Units) /\ Placement[l][e] # <<>>
\* A router picks top_k of the experts the plan placed, each once.
ASSUME RoutedAssumption ==
    \A t \in Tokens : \A d \in DOMAIN Layers : d > DenseLayers =>
        /\ Layers[d] \in DOMAIN Placement
        /\ Routed[t][Layers[d]] \in Seq(DOMAIN Placement[Layers[d]])
        /\ Routed[t][Layers[d]] # <<>>
        /\ \A i, j \in DOMAIN Routed[t][Layers[d]] :
              Routed[t][Layers[d]][i] = Routed[t][Layers[d]][j] => i = j
ASSUME BoundsAssumption == MaxRetries \in Nat /\ MaxFaults \in Nat

VARIABLES at,       \* where each token stands
          depth,    \* the index of its layer
          routed,   \* how many of the layer's experts it has grouped
          groups,   \* its batches: console -> experts
          calls,    \* _call_unit of each batch
          sum,      \* the last sum of each token: how often it counts each expert
          down,     \* ExpertDispatcher._down of each host's shelf
          up,       \* consoles that can be reached
          full,     \* those whose connection takes no more bytes
          runs,     \* DedupCache._slots of each console
          faulty,   \* whether anything went wrong at a console (bookkeeping)
          losses    \* times a console became unreachable, or stopped reading

tokens   == <<at, depth, routed, groups, calls, sum, down>>
consoles == <<up, full, runs>>
faults   == <<faulty, losses>>
vars     == <<tokens, consoles, faults>>

-----------------------------------------------------------------------------
Layer(t)   == Layers[depth[t]]
HostOf(t)  == Host[Layer(t)]
TopK(t) == Routed[t][Layer(t)]
Holders(l, e) == Placement[l][e]

\* Fault: one batch id per layer, for whatever token.
LayerBatch(t) == <<0, Layer(t)>>

\* A batch id is minted once per layer of a token (_new_batch_id).
Batch(t) == <<t, Layer(t)>>

\* _call_unit of one batch: the console it is at, the attempt, the consoles that failed,
\* what it was told.
NoCall    == [at |-> "none"]
Call(u)   == [at |-> "ask", to |-> u, attempt |-> 1, tried |-> {}, got |-> <<>>]
Ended(how, rows) == [at |-> how, got |-> rows]
Over      == {"ok", "raised"}

\* No sum yet.
NoSum == [layer |-> -1, counts |-> <<>>]

\* retry_safe of the errors a call can end with (errors.py): only a connection
\* that could not be had, or was lost, is retried.
Safe(error) == error = "connect"

Init ==
    /\ at     = [t \in Tokens |-> "start"]
    /\ depth  = [t \in Tokens |-> 1]
    /\ routed = [t \in Tokens |-> 0]
    /\ groups = [t \in Tokens |-> <<>>]
    /\ calls  = [t \in Tokens |-> [u \in Units |-> NoCall]]
    /\ sum    = [t \in Tokens |-> NoSum]
    /\ down   = [h \in Range(Host) |-> {}]
    /\ up     = Units
    /\ full   = {}
    /\ runs   = [u \in Units |-> <<>>]
    /\ faulty = FALSE
    /\ losses = 0

Goto(t, where) == at' = [at EXCEPT ![t] = where]

\* ShelfCoordinator.run and FleetCoordinator.forward: the next layer, in whatever
\* shelf it is, or the end.
NextLayer(t) ==
    IF depth[t] = Len(Layers)
      THEN Goto(t, "output") /\ UNCHANGED depth
      ELSE Goto(t, "start") /\ depth' = [depth EXCEPT ![t] = @ + 1]

-----------------------------------------------------------------------------
\* The block of a layer, on the shelf's host.
\* ShelfCoordinator._run_block: the connection and the BLOCK_FWD frame, which is written at
\* once or when the host takes it.  A token that loses the host ends: no other console has
\* the shelf's KV cache.
AskHost(t) ==
    /\ at[t] = "start"
    /\ Goto(t, IF HostOf(t) \notin up THEN "failed"
               ELSE IF HostOf(t) \in full THEN "send" ELSE "block")
    /\ UNCHANGED <<depth, routed, groups, calls, sum, down, consoles, faults>>

WriteHost(t) ==
    /\ at[t] = "send"
    /\ HostOf(t) \notin full
    /\ Goto(t, "block")
    /\ UNCHANGED <<depth, routed, groups, calls, sum, down, consoles, faults>>

HostAnswers(t) ==
    /\ at[t] = "block"
    /\ HostOf(t) \in up
    /\ IF depth[t] <= DenseLayers THEN NextLayer(t) ELSE Goto(t, "route") /\ UNCHANGED depth
    /\ UNCHANGED <<routed, groups, calls, sum, down, consoles, faults>>

\* No answer in time, or an ERROR frame.
HostFails(t) ==
    /\ at[t] = "block"
    /\ Goto(t, "failed")
    /\ faulty' = TRUE
    /\ UNCHANGED <<depth, routed, groups, calls, sum, down, consoles, losses>>

-----------------------------------------------------------------------------
\* run_layer.
\* _owner: the first holder not marked down, or the first one if all are.
Owner(holders, skip) ==
    LET live == {i \in DOMAIN holders : holders[i] \notin skip}
    IN  holders[IF live = {} THEN 1 ELSE Min(live)]

\* group_by_unit takes the experts in rank order and reads _down anew for each one.
Grouped(t) ==
    LET e == TopK(t)[routed[t] + 1]
        u == Owner(Holders(Layer(t), e), down[HostOf(t)])
        had == IF u \in DOMAIN groups[t] THEN groups[t][u] ELSE <<>>
    IN  [v \in DOMAIN groups[t] \cup {u} |-> IF v = u THEN Append(had, e) ELSE groups[t][v]]

\* The batches are handed to the executor once all are grouped.
Group(t) ==
    LET last == routed[t] + 1 = Len(TopK(t)) IN
    /\ at[t] = "route"
    /\ groups' = [groups EXCEPT ![t] = Grouped(t)]
    /\ routed' = [routed EXCEPT ![t] = IF last THEN 0 ELSE @ + 1]
    /\ Goto(t, IF last THEN "fan" ELSE "route")
    /\ calls' = [calls EXCEPT ![t] = [u \in Units |->
                   IF last /\ u \in DOMAIN Grouped(t) THEN Call(u) ELSE NoCall]]
    /\ UNCHANGED <<depth, sum, down, consoles, faults>>

SetCall(t, g, call) == calls' = [calls EXCEPT ![t][g] = call]

Raise(call, error) == [call EXCEPT !.at = "mark", !.got = error]

\* Fault: the batch id alone names an answer.
SameId(slot, experts) == TRUE

\* batch_fingerprint covers everything that changes the answer.
Matches(slot, experts) == slot.experts = experts

\* DedupCache.run at console u for a batch b: it is started, joined, replayed or
\* refused as one id with two contents.
Answered(u, b, experts) ==
    LET slot == runs[u][b] IN
    IF b \notin DOMAIN runs[u] THEN [at |-> "wait", got |-> <<>>]
    ELSE IF ~Matches(slot, experts) THEN [at |-> "refused", got |-> <<>>]
    ELSE IF slot.done THEN [at |-> "told", got |-> slot.experts]
    ELSE [at |-> "wait", got |-> <<>>]

Started(u, b, experts) ==
    IF b \in DOMAIN runs[u] THEN runs
    ELSE [runs EXCEPT ![u] = [c \in DOMAIN @ \cup {b} |->
             IF c = b THEN [experts |-> experts, done |-> FALSE] ELSE @[c]]]

\* The frame reaches the console.  A batch it does not know may find the cache full of
\* batches under way (DedupCapacityError).
Deliver(t, g) ==
    LET call  == calls[t][g]
        reply == Answered(call.to, Batch(t), groups[t][g])
    IN  \/ /\ SetCall(t, g, [call EXCEPT !.at = reply.at, !.got = reply.got])
           /\ runs' = Started(call.to, Batch(t), groups[t][g])
           /\ UNCHANGED faulty
        \/ /\ Batch(t) \notin DOMAIN runs[call.to]
           /\ SetCall(t, g, [call EXCEPT !.at = "refused"])
           /\ faulty' = TRUE
           /\ UNCHANGED runs

\* _connect and the request: no connection is to be had, the write waits for the console or
\* for _lock, or the batch is at the console.
Ask(t, g) ==
    LET call == calls[t][g] IN
    /\ call.at = "ask"
    /\ \/ call.to \notin up /\ SetCall(t, g, Raise(call, "connect")) /\ UNCHANGED <<runs, faulty>>
       \/ /\ call.to \in up \cap full
          /\ SetCall(t, g, [call EXCEPT !.at = "write"])
          /\ UNCHANGED <<runs, faulty>>
       \/ call.to \in up \ full /\ Deliver(t, g)
    /\ UNCHANGED <<at, depth, routed, groups, sum, down, up, full, losses>>

\* The console takes bytes again, and _lock goes from one writer to the next.
Write(t, g) ==
    /\ calls[t][g].at = "write"
    /\ calls[t][g].to \in up \ full
    /\ Deliver(t, g)
    /\ UNCHANGED <<at, depth, routed, groups, sum, down, up, full, losses>>

Timeout(t, g) ==
    LET call == calls[t][g] IN
    /\ call.at = "wait"
    /\ SetCall(t, g, Raise(call, "timeout"))
    /\ faulty' = TRUE
    /\ UNCHANGED <<at, depth, routed, groups, sum, down, consoles, losses>>

\* _decode_reply: rows for exactly the experts asked for.  A FAST reply is one sum,
\* and its experts cannot be told.
Decodes(rows, asked) == Fast \/ Range(rows) = Range(asked)

\* A reply: rows, or an ERROR frame.
Read(t, g) ==
    LET call == calls[t][g]
        good == call.at = "told" /\ Decodes(call.got, groups[t][g])
    IN  /\ call.at \in {"told", "refused"}
        /\ SetCall(t, g, IF good THEN Ended("ok", call.got) ELSE Raise(call, "error"))
        /\ down' = IF call.at = "told"
                     THEN [down EXCEPT ![HostOf(t)] = @ \ {call.to}] ELSE down
        /\ UNCHANGED <<at, depth, routed, groups, sum, consoles, faults>>

\* _mark_down: the console is skipped from now on, then its connection is dropped.
MarkDown(t, g) ==
    /\ calls[t][g].at = "mark"
    /\ down' = [down EXCEPT ![HostOf(t)] = @ \cup {calls[t][g].to}]
    /\ SetCall(t, g, [calls[t][g] EXCEPT !.at = "drop"])
    /\ UNCHANGED <<at, depth, routed, groups, sum, consoles, faults>>

\* Fault: any holder of the first expert will do.
HoldsFirst(l, experts, u) == u \in Range(Holders(l, experts[1]))

\* A replica for all of the experts or none.
HoldsAll(l, experts, u) == \A e \in Range(experts) : u \in Range(Holders(l, e))

Replicas(l, experts, tried) == {u \in Units \ tried : HoldsAll(l, experts, u)}

\* _replica_for takes the first of the candidates in the order of their names.
FirstNamed(S) == Named[Min({i \in DOMAIN Named : Named[i] \in S})]

Tried(call) == call.tried \cup {call.to}

\* What _call_unit does with an error after _mark_down: range(max_retries + 1) attempts.
AfterFailure(t, g) ==
    LET call  == calls[t][g]
        tried == Tried(call)
        next  == Replicas(Layer(t), groups[t][g], tried)
    IN  IF Safe(call.got) /\ next # {} /\ call.attempt <= MaxRetries
          THEN [at |-> "ask", to |-> FirstNamed(next), attempt |-> call.attempt + 1,
                tried |-> tried, got |-> <<>>]
          ELSE Ended("raised", <<>>)

Writers(u, cs) ==
    {c \in Tokens \X Units : cs[c[1]][c[2]].at = "write" /\ cs[c[1]][c[2]].to = u}

\* A connection is lost, with all who use it, of any token; cs is calls after what the
\* dropping thread did to its own.  Who waits for a reply and the one whose write is cut
\* short get a ConnectError; who was behind it finds no socket when it has _lock, an
\* AttributeError, which is no Gen9Error: its call is over.  The one may also be a host's
\* frame, or a write that ended just then.
Cut(u, cs) ==
    /\ full' = full \ {u}
    /\ at' = [t \in Tokens |-> IF at[t] \in {"send", "block"} /\ HostOf(t) = u
                                THEN "failed" ELSE at[t]]
    /\ \E cut \in {{}} \cup {{c} : c \in Writers(u, cs)} :
          calls' = [t \in Tokens |-> [g \in Units |->
              IF cs[t][g].at \notin {"wait", "write"} \/ cs[t][g].to # u THEN cs[t][g]
              ELSE IF cs[t][g].at = "wait" \/ <<t, g>> \in cut THEN Raise(cs[t][g], "connect")
              ELSE Ended("raised", <<>>)]]

\* Fault: close() takes _lock.
DropUnderLock(t, g) ==
    /\ calls[t][g].at = "drop"
    /\ Writers(calls[t][g].to, calls) = {}
    /\ Cut(calls[t][g].to, [calls EXCEPT ![t][g] = AfterFailure(t, g)])
    /\ UNCHANGED <<depth, routed, groups, sum, down, up, runs, faults>>

\* pool.drop closes the socket under whoever writes to it.
Drop(t, g) ==
    /\ calls[t][g].at = "drop"
    /\ Cut(calls[t][g].to, [calls EXCEPT ![t][g] = AfterFailure(t, g)])
    /\ UNCHANGED <<depth, routed, groups, sum, down, up, runs, faults>>

\* How often an expert's row is in the sum: rows are filed by expert, unless each
\* console sent one sum of its own.
Count(t, e) ==
    LET rows == UNION {{<<g, i>> : i \in {j \in DOMAIN calls[t][g].got : calls[t][g].got[j] = e}} :
                          g \in DOMAIN groups[t]}
    IN  IF Fast THEN Cardinality(rows) ELSE IF rows = {} THEN 0 ELSE 1

\* The end of run_layer, once every call is over: the first error is raised, or the
\* rows are added up.
Reduce(t) ==
    /\ at[t] = "fan"
    /\ \A g \in DOMAIN groups[t] : calls[t][g].at \in Over
    /\ IF \A g \in DOMAIN groups[t] : calls[t][g].at = "ok"
         THEN /\ sum' = [sum EXCEPT ![t] = [layer |-> Layer(t), counts |->
                           [e \in UNION {Range(calls[t][g].got) : g \in DOMAIN groups[t]} |->
                               Count(t, e)]]]
              /\ NextLayer(t)
         ELSE Goto(t, "failed") /\ UNCHANGED <<sum, depth>>
    /\ groups' = [groups EXCEPT ![t] = <<>>]
    /\ calls'  = [calls EXCEPT ![t] = [u \in Units |-> NoCall]]
    /\ UNCHANGED <<routed, down, consoles, faults>>

-----------------------------------------------------------------------------
\* The consoles.
Running(u) == {b \in DOMAIN runs[u] : ~runs[u][b].done}

\* Whoever waits at u for batch b, having started or joined it, is told.
Tell(u, b, how, what) ==
    calls' = [t \in Tokens |-> [g \in Units |->
        IF calls[t][g].at = "wait" /\ calls[t][g].to = u /\ Batch(t) = b
          THEN [calls[t][g] EXCEPT !.at = how, !.got = what]
          ELSE calls[t][g]]]

\* _run_batch is over: every expert was resident, the reply is kept.
NodeAnswers(u, b) ==
    /\ \A e \in Range(runs[u][b].experts) : u \in Range(Holders(b[2], e))
    /\ runs' = [runs EXCEPT ![u][b].done = TRUE]
    /\ Tell(u, b, "told", runs[u][b].experts)
    /\ UNCHANGED <<at, depth, routed, groups, sum, down, up, full, faults>>

\* It raised (a shard that is not resident, a kernel): the batch is forgotten.
NodeFails(u, b) ==
    /\ runs' = [runs EXCEPT ![u] = Restrict(@, DOMAIN @ \ {b})]
    /\ Tell(u, b, "refused", <<>>)
    /\ faulty' = TRUE
    /\ UNCHANGED <<at, depth, routed, groups, sum, down, up, full, losses>>

\* An answer expires or makes room.
NodeForgets(u, b) ==
    /\ runs[u][b].done
    /\ runs' = [runs EXCEPT ![u] = Restrict(@, DOMAIN @ \ {b})]
    /\ UNCHANGED <<tokens, up, full, faults>>

\* The network or the console goes: its connection is lost with all that is under way.  Of
\* a console that stopped reading this is no second fault.
Lose(u) ==
    /\ u \in up
    /\ u \in full \/ losses < MaxFaults
    /\ losses' = IF u \in full THEN losses ELSE losses + 1
    /\ faulty' = TRUE
    /\ up' = up \ {u}
    /\ Cut(u, calls)
    /\ UNCHANGED <<depth, routed, groups, sum, down, runs>>

\* It can be reached again, as it was or restarted.
Return(u) ==
    /\ u \notin up
    /\ up' = up \cup {u}
    /\ runs' = runs \/ runs' = [runs EXCEPT ![u] = <<>>]
    /\ UNCHANGED <<tokens, full, faults>>

\* A console stops reading, and its socket fills; or it goes on.
Stall(u) ==
    /\ u \in up \ full
    /\ losses < MaxFaults
    /\ losses' = losses + 1
    /\ full' = full \cup {u}
    /\ UNCHANGED <<tokens, up, runs, faulty>>

Resume(u) ==
    /\ u \in full
    /\ full' = full \ {u}
    /\ UNCHANGED <<tokens, up, runs, faults>>

-----------------------------------------------------------------------------
CallStep(t, g) ==
    \/ Ask(t, g)
    \/ Write(t, g)
    \/ Read(t, g)
    \/ MarkDown(t, g)
    \/ Drop(t, g)

TokenStep(t) ==
    \/ AskHost(t)
    \/ WriteHost(t)
    \/ Group(t)
    \/ Reduce(t)

NodeStep ==
    \/ \E u \in Units : \E b \in Running(u) : NodeAnswers(u, b) \/ NodeFails(u, b)
    \/ \E u \in Units : \E b \in DOMAIN runs[u] : NodeForgets(u, b)

Next ==
    \/ \E t \in Tokens : TokenStep(t)
    \/ \E t \in Tokens : HostAnswers(t) \/ HostFails(t)
    \/ \E t \in Tokens, g \in Units : CallStep(t, g)
    \/ \E t \in Tokens, g \in Units : Timeout(t, g)
    \/ NodeStep
    \/ \E u \in Units : Lose(u) \/ Return(u) \/ Stall(u) \/ Resume(u)

Spec == Init /\ [][Next]_vars

\* The threads of the coordinator run, and the wait for a reply has a timeout; a write
\* has none, and the consoles owe nothing, not even to read.
Fairness ==
    /\ \A t \in Tokens : WF_vars(TokenStep(t)) /\ WF_vars(HostFails(t))
    /\ \A t \in Tokens, g \in Units : WF_vars(CallStep(t, g)) /\ WF_vars(Timeout(t, g))

FairSpec == Spec /\ Fairness

-----------------------------------------------------------------------------
\* The sum of a MoE layer that was not given up counts every routed expert once and
\* no other, whatever was retried, replayed or taken over by a replica (run_layer).
SumComplete ==
    \A t \in Tokens : sum[t] # NoSum =>
        sum[t].counts = [e \in Range(Routed[t][sum[t].layer]) |-> 1]

\* A console is only asked for a batch when it holds every expert of it, the first
\* console of a batch as well as any replica (_owner, _replica_for).
HoldersAsked ==
    \A t \in Tokens : \A g \in DOMAIN groups[t] : calls[t][g].at = "wait" =>
        \A e \in Range(groups[t][g]) : calls[t][g].to \in Range(Holders(Layer(t), e))

\* A token fails only when something did go wrong at a console: tokens that share
\* the consoles, their connections and their caches do not make each other fail.
NoFailureWithoutFault ==
    (\E t \in Tokens : at[t] = "failed") => faulty

\* The write of a token's own, or one it waits behind, at a console that does not read.
Blocked(t) ==
    \/ at[t] = "send" /\ HostOf(t) \in full
    \/ \E g \in Units : calls[t][g].at = "write" /\ calls[t][g].to \in full

\* Every token ends, with its output or with an error, unless from some moment on it is in
\* a write to a console that does not read.  A console that does not answer, and a write
\* that blocks another token, hold no token up for ever: timeouts, pool.drop and close()
\* go on while another thread has the connection's _lock (transport.py).
TokenEnds ==
    \A t \in Tokens : <>(at[t] \in {"output", "failed"}) \/ <>[]Blocked(t)

=============================================================================

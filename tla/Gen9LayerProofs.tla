--------------------------- MODULE Gen9LayerProofs ---------------------------
(***************************************************************************)
(* Any number of tokens, layers, consoles and faults: what a token's sum   *)
(* holds, which console an expert is asked of, and that without a fault no *)
(* token fails.  FleetInv, below, is what makes these inductive: it says   *)
(* of every batch which console it is with and which of them it waits for. *)
(***************************************************************************)
EXTENDS Gen9Layer, FiniteSetTheorems, TLAPS

\* Experts of any layer, the calls the threads can be in and the slots of a console's cache.
E == UNION {DOMAIN Placement[l] : l \in DOMAIN Placement}

LiveCalls == [at : {"ask", "write", "wait", "told", "refused", "mark", "drop"}, to : Units,
              attempt : Nat, tried : SUBSET Units,
              got : Seq(E) \cup {"connect", "timeout", "error"}]
EndedCalls == [at : Over, got : Seq(E)]
AnyCalls   == {NoCall} \cup LiveCalls \cup EndedCalls

Slots == [experts : Seq(E), done : BOOLEAN]

\* The caches of the consoles.
CachesOK ==
    /\ runs = [u \in Units |-> runs[u]]
    /\ \A u \in Units : \A b \in DOMAIN runs[u] : runs[u][b] \in Slots

FleetTypeOK ==
    /\ at     \in [Tokens -> {"start", "send", "block", "route", "fan", "output", "failed"}]
    /\ depth  \in [Tokens -> DOMAIN Layers]
    /\ routed \in [Tokens -> Nat]
    /\ groups = [t \in Tokens |-> groups[t]]
    /\ calls  \in [Tokens -> [Units -> AnyCalls]]
    /\ sum    = [t \in Tokens |-> sum[t]]
    /\ down   \in [Range(Host) -> SUBSET Units]
    /\ up     \in SUBSET Units
    /\ CachesOK
    /\ faulty \in BOOLEAN

\* Nothing is twice in a sequence.
Unrepeated(q) == \A i, j \in DOMAIN q : q[i] = q[j] => i = j

\* What grouping the first n experts of token t's layer comes to: each of them once in the
\* batch of one console, that holds it.
Grouping(t, f, n) ==
    /\ DOMAIN f \subseteq Units
    /\ \A g \in DOMAIN f :
          /\ f[g] \in Seq(E)
          /\ \A e \in Range(f[g]) : /\ g \in Range(Holders(Layer(t), e))
                                    /\ \E i \in 1..n : e = TopK(t)[i]
          /\ Unrepeated(f[g])
    /\ \A i \in 1..n : \E g \in DOMAIN f : TopK(t)[i] \in Range(f[g])
    /\ \A g, h \in DOMAIN f : g # h => Range(f[g]) \cap Range(f[h]) = {}

GroupOK(t) ==
    /\ at[t] \in {"route", "fan"} => depth[t] > DenseLayers
    /\ at[t] = "route" => routed[t] < Len(TopK(t)) /\ Grouping(t, groups[t], routed[t])
    /\ at[t] = "fan" => routed[t] = 0 /\ Grouping(t, groups[t], Len(TopK(t)))
    /\ at[t] \notin {"route", "fan"} => routed[t] = 0 /\ groups[t] = <<>>

GroupInv == \A t \in Tokens : GroupOK(t)

\* A call that waits is in the cache of its console, under way and with its own experts.
Waits(t, g, u) ==
    /\ u \in up
    /\ Batch(t) \in DOMAIN runs[u]
    /\ ~runs[u][Batch(t)].done
    /\ runs[u][Batch(t)].experts = groups[t][g]

\* A call is at a console that holds all of its experts, and has been told of just these.
LiveOK(t, g, call) ==
    /\ call \in LiveCalls
    /\ HoldsAll(Layer(t), groups[t][g], call.to)
    /\ call.at = "wait" => Waits(t, g, call.to)
    /\ call.at = "told" => call.got = groups[t][g]

EndedOK(t, g, call) == call \in EndedCalls /\ (call.at = "ok" => call.got = groups[t][g])

Batched(t, g) == at[t] = "fan" /\ g \in DOMAIN groups[t]

CallOK(t, g) ==
    IF Batched(t, g) THEN LiveOK(t, g, calls[t][g]) \/ EndedOK(t, g, calls[t][g])
                     ELSE calls[t][g] = NoCall

CallInv == \A t \in Tokens, g \in Units : CallOK(t, g)

\* No console has seen a batch of a layer the token did not reach.
Fresh ==
    \A u \in Units, t \in Tokens, i \in DOMAIN Layers :
        <<t, Layers[i]>> \in DOMAIN runs[u] => i <= depth[t]

\* While nothing went wrong each batch goes to its own console and no other.
QuietCall(t, g) ==
    Batched(t, g) => /\ calls[t][g].at \in {"ask", "write", "wait", "told", "ok"}
                     /\ calls[t][g].at # "ok" => calls[t][g].to = g

QuietSlot(t, u) ==
    Batch(t) \in DOMAIN runs[u] =>
        \/ at[t] = "output"
        \/ Batched(t, u) /\ runs[u][Batch(t)].experts = groups[t][u]

Quiet ==
    ~faulty =>
        /\ up = Units
        /\ \A t \in Tokens : at[t] # "failed"
        /\ \A t \in Tokens, g \in Units : QuietCall(t, g) /\ QuietSlot(t, g)

FleetInv ==
    /\ FleetTypeOK
    /\ GroupInv
    /\ CallInv
    /\ Fresh
    /\ Quiet
    /\ SumComplete

-----------------------------------------------------------------------------
\* The least of some numbers is one of them.
LEMMA MinIn ==
    ASSUME NEW I \in SUBSET Nat, I # {}
    PROVE  Min(I) \in I
<1> DEFINE R == {s \in Nat \X Nat : s[1] < s[2]}
<1>1. IsWellFoundedOn(R, Nat)
  BY NatLessThanWellFounded DEF OpToRel
<1>2. PICK k \in I : \A j \in I : ~(<<j, k>> \in R)
  <2> HIDE DEF R
  <2> QED BY <1>1, WFMin
<1>3. \A j \in I : k =< j
  <2> TAKE j \in I
  <2>1. <<j, k>> \in R <=> j < k
    OBVIOUS
  <2> QED BY <1>2, <2>1
<1> QED BY <1>3 DEF Min

\* The first console of some is one of them.
LEMMA FirstNamedIn ==
    ASSUME NEW S \in SUBSET Units, S # {}
    PROVE  FirstNamed(S) \in S
<1> DEFINE I == {i \in DOMAIN Named : Named[i] \in S}
<1>1. PICK u \in S : TRUE
  OBVIOUS
<1>2. u \in Range(Named)
  BY UnitsAssumption
<1>3. PICK i \in DOMAIN Named : Named[i] = u
  BY <1>2 DEF Range
<1>4. I \in SUBSET Nat /\ I # {}
  BY <1>3, UnitsAssumption
<1>5. Min(I) \in I
  BY <1>4, MinIn
<1> QED BY <1>5 DEF FirstNamed

\* The owner of an expert holds it, whoever is marked down.
LEMMA OwnerHolds ==
    ASSUME NEW holders \in Seq(Units), holders # <<>>, NEW skip
    PROVE  Owner(holders, skip) \in Range(holders) /\ Owner(holders, skip) \in Units
<1> DEFINE I == {i \in DOMAIN holders : holders[i] \notin skip}
<1>1. PICK k \in DOMAIN holders : Owner(holders, skip) = holders[k]
  <2>1. 1 \in DOMAIN holders
    OBVIOUS
  <2>2. I # {} => Min(I) \in I
    <3>1. I \in SUBSET Nat
      OBVIOUS
    <3> QED BY <3>1, MinIn
  <2> QED BY <2>1, <2>2 DEF Owner
<1> QED BY <1>1 DEF Range

\* What a batch gains with one more expert.
LEMMA RangeAppend ==
    ASSUME NEW s \in Seq(E), NEW e \in E
    PROVE  Append(s, e) \in Seq(E) /\ Range(Append(s, e)) = Range(s) \cup {e}
<1>1. /\ DOMAIN Append(s, e) = 1..(Len(s) + 1) /\ DOMAIN s = 1..Len(s) /\ Len(s) \in Nat
      /\ \A i \in 1..Len(s) : Append(s, e)[i] = s[i]
      /\ Append(s, e)[Len(s) + 1] = e
  OBVIOUS
<1>2. Append(s, e) \in Seq(E)
  OBVIOUS
<1>3. \A x \in Range(Append(s, e)) : x \in Range(s) \cup {e}
  BY <1>1 DEF Range
<1>4. \A x \in Range(s) \cup {e} : x \in Range(Append(s, e))
  BY <1>1 DEF Range
<1> QED BY <1>2, <1>3, <1>4

\* Where a token stands in the plan.
LEMMA PlanFacts ==
    ASSUME FleetTypeOK, NEW t \in Tokens
    PROVE  /\ Layer(t) \in Range(Layers) /\ Layer(t) = Layers[depth[t]]
           /\ HostOf(t) \in Range(Host) /\ HostOf(t) \in Units
           /\ depth[t] \in Nat /\ Len(Layers) \in Nat /\ depth[t] \in 1..Len(Layers)
<1>1. depth[t] \in DOMAIN Layers /\ DOMAIN Layers = 1..Len(Layers) /\ Len(Layers) \in Nat
  BY LayersAssumption DEF FleetTypeOK
<1>2. Layer(t) \in Range(Layers)
  BY <1>1 DEF Layer, Range
<1>3. HostOf(t) \in Range(Host) /\ HostOf(t) \in Units
  BY <1>2, LayersAssumption DEF HostOf, Range
<1> QED BY <1>1, <1>2, <1>3 DEF Layer

\* The experts of a MoE layer: some, different, all placed.
LEMMA RoutedFacts ==
    ASSUME FleetTypeOK, NEW t \in Tokens, depth[t] > DenseLayers
    PROVE  /\ TopK(t) \in Seq(E) /\ Len(TopK(t)) \in Nat \ {0}
           /\ DOMAIN TopK(t) = 1..Len(TopK(t))
           /\ \A i \in 1..Len(TopK(t)) :
                 /\ Holders(Layer(t), TopK(t)[i]) \in Seq(Units)
                 /\ Holders(Layer(t), TopK(t)[i]) # <<>>
           /\ \A i, j \in 1..Len(TopK(t)) : TopK(t)[i] = TopK(t)[j] => i = j
<1>1. depth[t] \in DOMAIN Layers
  BY DEF FleetTypeOK
<1>2. /\ Layer(t) \in DOMAIN Placement
      /\ TopK(t) \in Seq(DOMAIN Placement[Layer(t)])
      /\ TopK(t) # <<>>
      /\ \A i, j \in DOMAIN TopK(t) : TopK(t)[i] = TopK(t)[j] => i = j
  BY <1>1, RoutedAssumption DEF Layer, TopK
<1>3. DOMAIN Placement[Layer(t)] \subseteq E
  BY <1>2 DEF E
<1>4. TopK(t) \in Seq(E) /\ DOMAIN TopK(t) = 1..Len(TopK(t)) /\ Len(TopK(t)) \in Nat \ {0}
  BY <1>2, <1>3
<1>5. \A i \in 1..Len(TopK(t)) : TopK(t)[i] \in DOMAIN Placement[Layer(t)]
  BY <1>2, <1>4
<1> QED BY <1>2, <1>4, <1>5, PlacementAssumption DEF Holders

-----------------------------------------------------------------------------
\* Live calls, ended calls and no call are told apart by where they are.
LEMMA CallKinds ==
    /\ \A c \in AnyCalls :
          c.at \in {"ask", "write", "wait", "told", "refused", "mark", "drop"} => c \in LiveCalls
    /\ \A c \in LiveCalls : c.at \notin Over \cup {"none"}
    /\ \A c \in EndedCalls : c.at \in Over
    /\ NoCall.at = "none"
<1>1. NoCall.at = "none"
  BY DEF NoCall
<1>2. \A c \in EndedCalls : c.at \in Over
  BY DEF EndedCalls
<1>3. \A c \in LiveCalls : c.at \notin Over \cup {"none"}
  BY DEF LiveCalls, Over
<1> QED BY <1>1, <1>2, <1>3 DEF AnyCalls, Over

\* A new call is about to ask the console of its batch.
LEMMA CallBegins ==
    ASSUME NEW u \in Units
    PROVE  Call(u) \in LiveCalls /\ Call(u).at = "ask" /\ Call(u).to = u
<1>1. << >> \in Seq(E)
  OBVIOUS
<1> QED BY <1>1 DEF LiveCalls, Call

\* SetCall changes one call.
LEMMA OneCall ==
    ASSUME FleetTypeOK, NEW t \in Tokens, NEW g \in Units, NEW c \in AnyCalls, SetCall(t, g, c)
    PROVE  /\ calls' \in [Tokens -> [Units -> AnyCalls]]
           /\ calls'[t][g] = c
           /\ \A s \in Tokens, h \in Units : s # t \/ h # g => calls'[s][h] = calls[s][h]
  BY DEF FleetTypeOK, SetCall

\* A token that stays where it is keeps its batches, and a call that stays as it is and, if
\* it waits, is still waited for, keeps its place.
LEMMA GroupKept ==
    ASSUME NEW t \in Tokens, GroupOK(t),
           at'[t] = at[t], depth'[t] = depth[t], routed'[t] = routed[t], groups'[t] = groups[t]
    PROVE  GroupOK(t)'
<1>1. Layer(t)' = Layer(t) /\ TopK(t)' = TopK(t)
  BY DEF Layer, TopK
<1>2. \A n : Grouping(t, groups[t], n)' <=> Grouping(t, groups[t], n)
  BY <1>1 DEF Grouping, Holders
<1> QED BY <1>1, <1>2 DEF GroupOK

\* A step that moves no token keeps every token's batches.
LEMMA GroupsKept ==
    ASSUME GroupInv, UNCHANGED <<at, depth, routed, groups>>
    PROVE  GroupInv'
  BY GroupKept DEF GroupInv

\* A call that stays as it is, in a batch that stays, and is waited for if it waits.
LEMMA CallKept ==
    ASSUME NEW t \in Tokens, NEW g \in Units, CallOK(t, g),
           Batched(t, g)' <=> Batched(t, g),
           depth'[t] = depth[t], groups'[t] = groups[t], calls'[t][g] = calls[t][g],
           Batched(t, g) /\ calls[t][g].at = "wait" => Waits(t, g, calls[t][g].to)'
    PROVE  CallOK(t, g)'
  BY DEF CallOK, LiveOK, EndedOK, HoldsAll, Layer, Holders

\* Such a call is in one of the states of a batch.
LEMMA LiveCall ==
    ASSUME CallInv, FleetTypeOK, NEW t \in Tokens, NEW g \in Units,
           calls[t][g].at \in {"ask", "write", "wait", "told", "refused", "mark", "drop"}
    PROVE  Batched(t, g) /\ LiveOK(t, g, calls[t][g])
<1>1. CallOK(t, g)
  BY DEF CallInv
<1> QED BY <1>1, CallKinds DEF CallOK, EndedOK, Over

\* A step that adds nothing up.
LEMMA SumsKept ==
    ASSUME SumComplete, UNCHANGED sum
    PROVE  SumComplete'
  BY DEF SumComplete

-----------------------------------------------------------------------------
\* The invariant holds before the first token.
LEMMA FleetInit == Init => FleetInv
<1> SUFFICES ASSUME Init PROVE FleetInv
  OBVIOUS
<1>1. FleetTypeOK
  <2>1. 1 \in DOMAIN Layers
    BY LayersAssumption
  <2>2. DOMAIN << >> = 1..Len(<< >>) /\ Len(<< >>) = 0
    OBVIOUS
  <2>3. \A u \in Units : DOMAIN runs[u] = {}
    BY <2>2 DEF Init
  <2>4. faulty \in BOOLEAN
    BY Zenon DEF Init
  <2>5. NoCall \in AnyCalls
    BY DEF AnyCalls
  <2>6. calls \in [Tokens -> [Units -> AnyCalls]]
    BY <2>5 DEF Init
  <2>7. /\ at \in [Tokens -> {"start", "send", "block", "route", "fan", "output", "failed"}]
        /\ depth \in [Tokens -> DOMAIN Layers] /\ routed \in [Tokens -> Nat]
        /\ up \in SUBSET Units
    BY <2>1 DEF Init
  <2>8. down \in [Range(Host) -> SUBSET Units]
    BY DEF Init
  <2>9. CachesOK
    BY <2>3 DEF Init, CachesOK
  <2> QED BY <2>4, <2>6, <2>7, <2>8, <2>9 DEF Init, FleetTypeOK
<1>2. GroupInv
  BY DEF Init, GroupInv, GroupOK
<1>3. CallInv
  BY DEF Init, CallInv, CallOK, Batched
<1>4. \A u \in Units : DOMAIN runs[u] = {}
  <2>1. DOMAIN << >> = 1..Len(<< >>) /\ Len(<< >>) = 0
    OBVIOUS
  <2> QED BY <2>1 DEF Init
<1>5. Fresh
  BY <1>4 DEF Fresh
<1>6. Quiet
  BY <1>4 DEF Init, Quiet, QuietCall, QuietSlot, Batched
<1>7. SumComplete
  BY DEF Init, SumComplete
<1> QED BY <1>1, <1>2, <1>3, <1>5, <1>6, <1>7 DEF FleetInv

\* A token without batches has no call either.
LEMMA Unbatched ==
    ASSUME FleetInv, NEW t \in Tokens, at[t] \notin {"route", "fan"}
    PROVE  /\ routed[t] = 0 /\ groups[t] = <<>> /\ groups = [groups EXCEPT ![t] = <<>>]
           /\ calls = [calls EXCEPT ![t] = [u \in Units |-> NoCall]]
<1>1. routed[t] = 0 /\ groups[t] = <<>>
  BY DEF FleetInv, GroupInv, GroupOK
<1>2. \A u \in Units : calls[t][u] = NoCall
  BY DEF FleetInv, CallInv, CallOK, Batched
<1>3. calls[t] = [u \in Units |-> NoCall]
  BY <1>2 DEF FleetInv, FleetTypeOK
<1>4. groups = [groups EXCEPT ![t] = <<>>]
  BY <1>1 DEF FleetInv, FleetTypeOK
<1>5. calls = [calls EXCEPT ![t] = [u \in Units |-> NoCall]]
  BY <1>3 DEF FleetInv, FleetTypeOK
<1> QED BY <1>1, <1>4, <1>5

\* A token in no batch, or that leaves its batches, moves on, ends or fails.
LEMMA TokenMoves ==
    ASSUME FleetInv, NEW t \in Tokens,
           at[t] \in {"start", "send", "block", "fan"},
           UNCHANGED <<routed, down, consoles>>,
           groups' = [groups EXCEPT ![t] = <<>>],
           calls' = [calls EXCEPT ![t] = [u \in Units |-> NoCall]],
           sum' = [s \in Tokens |-> sum'[s]], SumComplete',
           \E to \in {"start", "send", "block", "route", "output", "failed"} :
              /\ at' = [at EXCEPT ![t] = to]
              /\ to = "failed" => faulty'
              /\ to = "route" => depth[t] > DenseLayers
              /\ \/ UNCHANGED depth /\ (at[t] # "fan" \/ to \in {"output", "failed"})
                 \/ to = "start" /\ depth[t] # Len(Layers) /\ depth' = [depth EXCEPT ![t] = @ + 1],
           faulty' \in BOOLEAN, faulty => faulty'
    PROVE  FleetInv'
<1>1. UNCHANGED <<routed, down, up, runs>>
  BY DEF consoles
<1>2. PICK to \in {"start", "send", "block", "route", "output", "failed"} :
              /\ at' = [at EXCEPT ![t] = to]
              /\ to = "failed" => faulty'
              /\ to = "route" => depth[t] > DenseLayers
              /\ \/ UNCHANGED depth /\ (at[t] # "fan" \/ to \in {"output", "failed"})
                 \/ to = "start" /\ depth[t] # Len(Layers) /\ depth' = [depth EXCEPT ![t] = @ + 1]
  OBVIOUS
<1>idle. /\ groups' = [s \in Tokens |-> groups'[s]] /\ groups'[t] = <<>>
      /\ calls' \in [Tokens -> [Units -> AnyCalls]] /\ \A g \in Units : calls'[t][g] = NoCall
      /\ \A s \in Tokens \ {t} : groups'[s] = groups[s] /\ calls'[s] = calls[s]
  <2>1. NoCall \in AnyCalls
    BY DEF AnyCalls
  <2>2. /\ groups' = [s \in Tokens |-> groups'[s]] /\ groups'[t] = <<>>
        /\ \A s \in Tokens \ {t} : groups'[s] = groups[s]
    BY DEF FleetInv, FleetTypeOK
  <2> QED BY <2>1, <2>2 DEF FleetInv, FleetTypeOK
<1>3. /\ at \in [Tokens -> {"start", "send", "block", "route", "fan", "output", "failed"}]
      /\ depth \in [Tokens -> DOMAIN Layers]
  BY DEF FleetInv, FleetTypeOK
<1>4. depth[t] \in 1..Len(Layers) /\ Len(Layers) \in Nat /\ DOMAIN Layers = 1..Len(Layers)
  BY PlanFacts, LayersAssumption DEF FleetInv
<1>5. /\ at'[t] = to /\ \A s \in Tokens \ {t} : at'[s] = at[s] /\ depth'[s] = depth[s]
      /\ depth'[t] = depth[t] \/ (to = "start" /\ depth'[t] = depth[t] + 1)
      /\ depth' \in [Tokens -> DOMAIN Layers]
  <2>1. at'[t] = to /\ \A s \in Tokens \ {t} : at'[s] = at[s]
    BY <1>2, <1>3
  <2>2. CASE UNCHANGED depth /\ (at[t] # "fan" \/ to \in {"output", "failed"})
    BY <1>3, <2>1, <2>2
  <2>3. CASE to = "start" /\ depth[t] # Len(Layers) /\ depth' = [depth EXCEPT ![t] = @ + 1]
    <3>1. depth[t] + 1 \in DOMAIN Layers
      BY <1>4, <2>3
    <3> QED BY <1>3, <2>1, <2>3, <3>1
  <2> QED BY <1>2, <2>2, <2>3
<1>6. FleetTypeOK'
  <2>1. at' \in [Tokens -> {"start", "send", "block", "route", "fan", "output", "failed"}]
    BY <1>2, <1>3
  <2>2. CachesOK'
    BY <1>1 DEF FleetInv, FleetTypeOK, CachesOK
  <2> QED BY <1>idle, <1>1, <1>5, <2>1, <2>2 DEF FleetInv, FleetTypeOK
<1>7. GroupInv'
  <2>1. GroupOK(t)'
    <3>1. routed'[t] = 0 /\ groups'[t] = << >>
      BY <1>idle, <1>1 DEF FleetInv, GroupInv, GroupOK
    <3>2. to = "route" => 0 < Len(TopK(t)) /\ depth' = depth
      BY <1>2, RoutedFacts DEF FleetInv
    <3>3. Grouping(t, << >>, 0)'
      BY DEF Grouping
    <3> QED BY <1>1, <1>2, <1>5, <3>1, <3>2, <3>3 DEF GroupOK, TopK, Layer
  <2>2. \A s \in Tokens \ {t} : GroupOK(s)'
    BY <1>idle, <1>1, <1>5, GroupKept DEF FleetInv, GroupInv
  <2> QED BY <2>1, <2>2 DEF GroupInv
<1>8. CallInv'
  <2> SUFFICES ASSUME NEW s \in Tokens, NEW g \in Units PROVE CallOK(s, g)'
    BY DEF CallInv
  <2>1. CallOK(s, g)
    BY DEF FleetInv, CallInv
  <2>2. CASE s = t
    <3>1. ~Batched(t, g)'
      BY <1>2, <1>5 DEF Batched
    <3> QED BY <1>idle, <2>2, <3>1 DEF CallOK
  <2>3. CASE s # t
    <3>1. Batched(s, g)' <=> Batched(s, g)
      BY <1>idle, <1>1, <1>5, <2>3 DEF Batched
    <3>2. \A u : Waits(s, g, u)' <=> Waits(s, g, u)
      BY <1>idle, <1>1, <1>5, <2>3 DEF Waits, Batch, Layer
    <3>3. Batched(s, g) /\ calls[s][g].at = "wait" => Waits(s, g, calls[s][g].to)
      BY LiveCall DEF FleetInv, LiveOK
    <3> QED BY <1>idle, <1>5, <2>1, <2>3, <3>1, <3>2, <3>3, CallKept
  <2> QED BY <2>2, <2>3
<1>9. Fresh'
  <2>1. \A s \in Tokens : depth[s] <= depth'[s] /\ depth[s] \in Nat /\ depth'[s] \in Nat
    BY <1>3, <1>4, <1>5
  <2>2. \A i \in DOMAIN Layers : i \in Nat
    BY <1>4
  <2> QED BY <1>1, <2>1, <2>2 DEF FleetInv, Fresh
<1>10. Quiet'
  <2> SUFFICES ASSUME ~faulty'
               PROVE  /\ up' = Units
                      /\ \A s \in Tokens : at'[s] # "failed"
                      /\ \A s \in Tokens, g \in Units : QuietCall(s, g)' /\ QuietSlot(s, g)'
    BY DEF Quiet
  <2>1. ~faulty /\ to # "failed" /\ Quiet
    BY <1>2 DEF FleetInv
  <2>2. up' = Units /\ \A s \in Tokens : at'[s] # "failed"
    BY <1>1, <1>5, <2>1 DEF Quiet
  <2>3. ASSUME NEW s \in Tokens \ {t}, NEW g \in Units PROVE QuietCall(s, g)' /\ QuietSlot(s, g)'
    <3>1. QuietCall(s, g) /\ QuietSlot(s, g)
      BY <2>1 DEF Quiet
    <3> QED BY <1>idle, <1>1, <1>5, <3>1 DEF QuietCall, QuietSlot, Batched, Batch, Layer
  <2>4. ASSUME NEW g \in Units PROVE QuietCall(t, g)' /\ QuietSlot(t, g)'
    <3>1. ~Batched(t, g)'
      BY <1>2, <1>5 DEF Batched
    <3>2. CASE to = "output"
      BY <1>5, <3>1, <3>2 DEF QuietCall, QuietSlot
    <3>3. CASE at[t] # "fan" /\ UNCHANGED depth
      <4>1. at[t] \in {"start", "send", "block"}
        BY <3>3
      <4>2. Batch(t) \notin DOMAIN runs[g]
        BY <2>1, <4>1 DEF Quiet, QuietSlot, Batched
      <4>3. Batch(t)' = Batch(t)
        BY <3>3 DEF Batch, Layer
      <4> QED BY <1>1, <3>1, <4>2, <4>3 DEF QuietCall, QuietSlot
    <3>4. CASE depth' = [depth EXCEPT ![t] = @ + 1]
      <4>1. Batch(t)' = <<t, Layers[depth'[t]]>> /\ depth'[t] \in DOMAIN Layers
        BY <1>5 DEF Batch, Layer
      <4>2. ~(depth'[t] <= depth[t])
        BY <1>3, <1>4, <3>4
      <4>3. <<t, Layers[depth'[t]]>> \notin DOMAIN runs[g]
        BY <4>1, <4>2 DEF FleetInv, Fresh
      <4> QED BY <1>1, <3>1, <4>1, <4>3 DEF QuietCall, QuietSlot
    <3> QED BY <1>2, <2>1, <3>2, <3>3, <3>4
  <2> QED BY <2>2, <2>3, <2>4
<1> QED BY <1>6, <1>7, <1>8, <1>9, <1>10 DEF FleetInv

\* While nothing went wrong the host of a layer can be reached.
LEMMA AskHostStep ==
    ASSUME FleetInv, NEW t \in Tokens, AskHost(t)
    PROVE  FleetInv'
<1>1. at[t] = "start" /\ faulty' = faulty /\ UNCHANGED <<depth, routed, sum, down, consoles>>
  BY DEF AskHost, faults
<1>2. /\ groups' = [groups EXCEPT ![t] = <<>>]
      /\ calls' = [calls EXCEPT ![t] = [u \in Units |-> NoCall]]
  <2>1. UNCHANGED <<groups, calls>>
    BY DEF AskHost
  <2> QED BY <1>1, <2>1, Unbatched
<1>3. HostOf(t) \in up \/ faulty
  BY PlanFacts DEF FleetInv, Quiet
<1>4. PICK to \in {"send", "block", "failed"} :
         at' = [at EXCEPT ![t] = to] /\ (to = "failed" => faulty')
  <2>1. CASE HostOf(t) \in up \cap full
    BY <2>1 DEF AskHost, Goto
  <2>2. CASE HostOf(t) \in up \ full
    BY <2>2 DEF AskHost, Goto
  <2>3. CASE HostOf(t) \notin up
    BY <1>1, <1>3, <2>3 DEF AskHost, Goto
  <2> QED BY <2>1, <2>2, <2>3
<1>5. sum' = [s \in Tokens |-> sum'[s]] /\ SumComplete' /\ faulty' \in BOOLEAN
  BY <1>1, SumsKept DEF FleetInv, FleetTypeOK
<1> HIDE DEF FleetInv
<1> QED BY <1>1, <1>2, <1>4, <1>5, TokenMoves

\* The host takes the frame.
LEMMA WriteHostStep ==
    ASSUME FleetInv, NEW t \in Tokens, WriteHost(t)
    PROVE  FleetInv'
<1>1. at[t] = "send" /\ faulty' = faulty /\ UNCHANGED <<depth, routed, sum, down, consoles>>
  BY DEF WriteHost, faults
<1>2. /\ groups' = [groups EXCEPT ![t] = <<>>]
      /\ calls' = [calls EXCEPT ![t] = [u \in Units |-> NoCall]]
  <2>1. UNCHANGED <<groups, calls>>
    BY DEF WriteHost
  <2> QED BY <1>1, <2>1, Unbatched
<1>3. at' = [at EXCEPT ![t] = "block"]
  BY DEF WriteHost, Goto
<1>4. sum' = [s \in Tokens |-> sum'[s]] /\ SumComplete' /\ faulty' \in BOOLEAN
  BY <1>1, SumsKept DEF FleetInv, FleetTypeOK
<1> HIDE DEF FleetInv
<1> QED BY <1>1, <1>2, <1>3, <1>4, TokenMoves

\* The host of a layer answers: a dense layer is over, an MoE layer is routed.
LEMMA HostAnswersStep ==
    ASSUME FleetInv, NEW t \in Tokens, HostAnswers(t)
    PROVE  FleetInv'
<1>1. at[t] = "block" /\ faulty' = faulty /\ UNCHANGED <<routed, sum, down, consoles>>
  BY DEF HostAnswers, faults
<1>2. /\ groups' = [groups EXCEPT ![t] = <<>>]
      /\ calls' = [calls EXCEPT ![t] = [u \in Units |-> NoCall]]
  <2>1. UNCHANGED <<groups, calls>>
    BY DEF HostAnswers
  <2> QED BY <1>1, <2>1, Unbatched
<1>3. depth[t] \in Nat /\ DenseLayers \in Nat
  BY PlanFacts, LayersAssumption DEF FleetInv
<1>4. \E to \in {"start", "send", "block", "route", "output", "failed"} :
         /\ at' = [at EXCEPT ![t] = to]
         /\ to # "failed"
         /\ to = "route" => depth[t] > DenseLayers
         /\ \/ UNCHANGED depth
            \/ to = "start" /\ depth[t] # Len(Layers) /\ depth' = [depth EXCEPT ![t] = @ + 1]
  <2>1. CASE depth[t] <= DenseLayers
    BY <2>1 DEF HostAnswers, NextLayer, Goto
  <2>2. CASE depth[t] > DenseLayers
    BY <1>3, <2>2 DEF HostAnswers, Goto
  <2> QED BY <1>3, <2>1, <2>2
<1>5. sum' = [s \in Tokens |-> sum'[s]] /\ SumComplete' /\ faulty' \in BOOLEAN
  BY <1>1, SumsKept DEF FleetInv, FleetTypeOK
<1>6. at[t] # "fan"
  BY <1>1
<1> HIDE DEF FleetInv
<1> QED BY <1>1, <1>2, <1>4, <1>5, <1>6, TokenMoves

\* The host fails, which is a fault, and so does the token.
LEMMA HostFailsStep ==
    ASSUME FleetInv, NEW t \in Tokens, HostFails(t)
    PROVE  FleetInv'
<1>1. at[t] = "block" /\ faulty' = TRUE /\ UNCHANGED <<depth, routed, sum, down, consoles>>
  BY DEF HostFails
<1>2. /\ groups' = [groups EXCEPT ![t] = <<>>]
      /\ calls' = [calls EXCEPT ![t] = [u \in Units |-> NoCall]]
  <2>1. UNCHANGED <<groups, calls>>
    BY DEF HostFails
  <2> QED BY <1>1, <2>1, Unbatched
<1>3. at' = [at EXCEPT ![t] = "failed"] /\ faulty'
  BY <1>1 DEF HostFails, Goto
<1>4. sum' = [s \in Tokens |-> sum'[s]] /\ SumComplete' /\ faulty' \in BOOLEAN
  BY <1>1, SumsKept DEF FleetInv, FleetTypeOK
<1> HIDE DEF FleetInv
<1> QED BY <1>1, <1>2, <1>3, <1>4, TokenMoves

-----------------------------------------------------------------------------
\* The caches keep their slots, and gain at most one, of token t's batch g.
Grown(t, g) ==
    /\ \A v \in Units : \A b \in DOMAIN runs[v] :
          b \in DOMAIN runs'[v] /\ runs'[v][b] = runs[v][b]
    /\ \A v \in Units : \A b \in DOMAIN runs'[v] :
          \/ b \in DOMAIN runs[v]
          \/ /\ b = Batch(t) /\ runs'[v][b] \in Slots
             /\ ~faulty' => v = g /\ runs'[v][b].experts = groups[t][g]

\* A step of one call, which may have its batch started at a console.
LEMMA CallMoves ==
    ASSUME FleetInv, NEW t \in Tokens, NEW g \in Units, Batched(t, g),
           NEW c \in AnyCalls, SetCall(t, g, c),
           UNCHANGED <<at, depth, routed, groups, sum, up>>,
           down' \in [Range(Host) -> SUBSET Units],
           CachesOK', Grown(t, g),
           LiveOK(t, g, c)' \/ EndedOK(t, g, c)',
           ~faulty' => c.at \in {"ask", "write", "wait", "told", "ok"} /\ (c.at # "ok" => c.to = g),
           faulty' \in BOOLEAN, faulty => faulty'
    PROVE  FleetInv'
<1>1. /\ calls' \in [Tokens -> [Units -> AnyCalls]]
      /\ calls'[t][g] = c
      /\ \A s \in Tokens, h \in Units : s # t \/ h # g => calls'[s][h] = calls[s][h]
  BY OneCall DEF FleetInv
<1>2. FleetTypeOK'
  BY <1>1 DEF FleetInv, FleetTypeOK
<1>3. GroupInv'
  BY GroupsKept DEF FleetInv
<1>4. \A s \in Tokens, h \in Units : Batched(s, h)' <=> Batched(s, h)
  BY DEF Batched
<1>5. \A s \in Tokens : Batch(s)' = Batch(s) /\ Layer(s)' = Layer(s)
  BY DEF Batch, Layer
<1>6. CallInv'
  <2> SUFFICES ASSUME NEW s \in Tokens, NEW h \in Units PROVE CallOK(s, h)'
    BY DEF CallInv
  <2>1. CASE s = t /\ h = g
    BY <1>1, <1>4, <2>1 DEF CallOK
  <2>2. CASE s # t \/ h # g
    <3>1. CallOK(s, h)
      BY DEF FleetInv, CallInv
    <3>2. \A u \in Units : Waits(s, h, u) => Waits(s, h, u)'
      BY <1>5 DEF Waits, Grown
    <3>3. Batched(s, h) /\ calls[s][h].at = "wait" =>
             Waits(s, h, calls[s][h].to) /\ calls[s][h].to \in Units
      BY LiveCall DEF FleetInv, LiveOK, LiveCalls
    <3> QED BY <1>1, <1>4, <2>2, <3>1, <3>2, <3>3, CallKept
  <2> QED BY <2>1, <2>2
<1>7. Fresh'
  <2> SUFFICES ASSUME NEW u \in Units, NEW s \in Tokens, NEW i \in DOMAIN Layers,
                      <<s, Layers[i]>> \in DOMAIN runs'[u]
               PROVE  i <= depth'[s]
    BY DEF Fresh
  <2>1. CASE <<s, Layers[i]>> \in DOMAIN runs[u]
    BY <2>1 DEF FleetInv, Fresh
  <2>2. CASE <<s, Layers[i]>> = Batch(t)
    <3>1. s = t /\ Layers[i] = Layers[depth[t]]
      BY <2>2 DEF Batch, Layer
    <3>2. i = depth[t] /\ depth[t] \in Nat
      BY <3>1, PlanFacts, LayersAssumption DEF FleetInv, FleetTypeOK
    <3> QED BY <3>1, <3>2
  <2> QED BY <2>1, <2>2 DEF Grown
<1>8. Quiet'
  <2> SUFFICES ASSUME ~faulty'
               PROVE  /\ up' = Units
                      /\ \A s \in Tokens : at'[s] # "failed"
                      /\ \A s \in Tokens, h \in Units : QuietCall(s, h)' /\ QuietSlot(s, h)'
    BY DEF Quiet
  <2>1. ~faulty /\ Quiet
    BY DEF FleetInv
  <2>2. up' = Units /\ \A s \in Tokens : at'[s] # "failed"
    BY <2>1 DEF Quiet
  <2>3. ASSUME NEW s \in Tokens, NEW h \in Units PROVE QuietCall(s, h)'
    <3>1. QuietCall(s, h)
      BY <2>1 DEF Quiet
    <3>2. CASE s = t /\ h = g
      BY <1>1, <3>2 DEF QuietCall
    <3>3. CASE s # t \/ h # g
      BY <1>1, <1>4, <3>1, <3>3 DEF QuietCall
    <3> QED BY <3>2, <3>3
  <2>4. ASSUME NEW s \in Tokens, NEW h \in Units PROVE QuietSlot(s, h)'
    <3>1. QuietSlot(s, h)
      BY <2>1 DEF Quiet
    <3>2. CASE Batch(s) \in DOMAIN runs[h]
      BY <1>4, <1>5, <3>1, <3>2 DEF QuietSlot, Grown
    <3>3. CASE Batch(s) \in DOMAIN runs'[h] /\ Batch(s) \notin DOMAIN runs[h]
      <4>1. Batch(s) = Batch(t) /\ h = g /\ runs'[h][Batch(s)].experts = groups[t][g]
        BY <3>3 DEF Grown
      <4>2. s = t
        BY <4>1 DEF Batch
      <4> QED BY <1>4, <1>5, <4>1, <4>2 DEF QuietSlot
    <3> QED BY <1>5, <3>2, <3>3 DEF QuietSlot
  <2> QED BY <2>2, <2>3, <2>4
<1>9. SumComplete'
  BY SumsKept DEF FleetInv
<1> QED BY <1>2, <1>3, <1>6, <1>7, <1>8, <1>9 DEF FleetInv

\* A call in one of its states, what the invariant says of it and of its batch.
LEMMA CallFacts ==
    ASSUME FleetInv, NEW t \in Tokens, NEW g \in Units,
           calls[t][g].at \in {"ask", "write", "wait", "told", "refused", "mark", "drop"}
    PROVE  /\ Batched(t, g) /\ calls[t][g] \in LiveCalls /\ calls[t][g].to \in Units
           /\ HoldsAll(Layer(t), groups[t][g], calls[t][g].to)
           /\ calls[t][g].at = "wait" => Waits(t, g, calls[t][g].to)
           /\ calls[t][g].at = "told" => calls[t][g].got = groups[t][g]
           /\ groups[t][g] \in Seq(E)
           /\ faulty \/ (QuietCall(t, g) /\ QuietSlot(t, g) /\ up = Units)
<1>1. Batched(t, g) /\ LiveOK(t, g, calls[t][g])
  BY LiveCall DEF FleetInv
<1>2. groups[t][g] \in Seq(E)
  BY <1>1 DEF FleetInv, GroupInv, GroupOK, Grouping, Batched
<1>3. faulty \/ (QuietCall(t, g) /\ QuietSlot(t, g) /\ up = Units)
  BY DEF FleetInv, Quiet
<1>4. calls[t][g].to \in Units
  BY <1>1 DEF LiveOK, LiveCalls
<1> QED BY <1>1, <1>2, <1>3, <1>4 DEF LiveOK

\* What a step of a call that leaves the caches alone has to show.
LEMMA CallMovesAlone ==
    ASSUME FleetInv, NEW t \in Tokens, NEW g \in Units, Batched(t, g),
           NEW c \in AnyCalls, SetCall(t, g, c),
           UNCHANGED <<at, depth, routed, groups, sum, consoles>>,
           down' \in [Range(Host) -> SUBSET Units],
           LiveOK(t, g, c) \/ EndedOK(t, g, c),
           ~faulty' => c.at \in {"ask", "write", "wait", "told", "ok"} /\ (c.at # "ok" => c.to = g),
           faulty' \in BOOLEAN, faulty => faulty'
    PROVE  FleetInv'
<1>1. UNCHANGED <<up, runs>> /\ CachesOK' /\ Grown(t, g)
  BY DEF consoles, FleetInv, FleetTypeOK, CachesOK, Grown
<1>2. LiveOK(t, g, c)' \/ EndedOK(t, g, c)'
  BY <1>1 DEF LiveOK, EndedOK, Waits, HoldsAll, Layer, Batch, Holders
<1> HIDE DEF FleetInv
<1> QED BY <1>1, <1>2, CallMoves

\* Starting a batch adds its slot and changes no other.
LEMMA StartedGrows ==
    ASSUME FleetTypeOK, NEW t \in Tokens, NEW g \in Units, NEW u \in Units,
           groups[t][g] \in Seq(E), ~faulty' => u = g,
           runs' = Started(u, Batch(t), groups[t][g])
    PROVE  /\ CachesOK' /\ Grown(t, g) /\ Batch(t) \in DOMAIN runs'[u]
           /\ Batch(t) \in DOMAIN runs[u] => runs'[u][Batch(t)] = runs[u][Batch(t)]
           /\ Batch(t) \notin DOMAIN runs[u] =>
                 runs'[u][Batch(t)].experts = groups[t][g] /\ ~runs'[u][Batch(t)].done
<1> PICK b : b = Batch(t)
  OBVIOUS
<1> PICK experts : experts = groups[t][g]
  OBVIOUS
<1>1. runs = [v \in Units |-> runs[v]] /\ CachesOK
  BY DEF FleetTypeOK, CachesOK
<1>2. CASE b \in DOMAIN runs[u]
  <2>1. runs' = runs
    BY <1>2 DEF Started
  <2> QED BY <1>1, <1>2, <2>1 DEF CachesOK, Grown
<1>3. CASE b \notin DOMAIN runs[u]
  <2> DEFINE slot == [experts |-> experts, done |-> FALSE]
             new == [c \in DOMAIN runs[u] \cup {b} |-> IF c = b THEN slot ELSE runs[u][c]]
  <2>1. runs' = [runs EXCEPT ![u] = new]
    BY <1>3 DEF Started
  <2>2. runs'[u] = new /\ \A v \in Units \ {u} : runs'[v] = runs[v]
    BY <1>1, <2>1
  <2>3. runs' = [v \in Units |-> runs'[v]]
    BY <1>1, <2>1
  <2>4. /\ DOMAIN new = DOMAIN runs[u] \cup {b} /\ new[b] = slot
        /\ \A c \in DOMAIN runs[u] : new[c] = runs[u][c]
    BY <1>3
  <2>5. slot \in Slots /\ slot.experts = experts /\ ~slot.done
    BY DEF Slots
  <2> HIDE DEF new, slot
  <2>6. CachesOK'
    BY <1>1, <2>2, <2>3, <2>4, <2>5 DEF CachesOK
  <2>7. Grown(t, g)
    BY <1>3, <2>2, <2>4, <2>5 DEF Grown
  <2> QED BY <1>3, <2>2, <2>4, <2>5, <2>6, <2>7
<1> QED BY <1>2, <1>3

\* A batch is only joined under its own experts, and the first one asked starts it or finds
\* the cache full, which is a fault.
LEMMA DeliverStep ==
    ASSUME FleetInv, NEW t \in Tokens, NEW g \in Units, calls[t][g].at \in {"ask", "write"},
           calls[t][g].to \in up, Deliver(t, g),
           UNCHANGED <<at, depth, routed, groups, sum, down, up>>
    PROVE  FleetInv'
<1> PICK call : call = calls[t][g]
  OBVIOUS
<1> PICK b : b = Batch(t)
  OBVIOUS
<1> PICK reply : reply = Answered(call.to, b, groups[t][g])
  OBVIOUS
<1> PICK slot : slot = runs[call.to][b]
  OBVIOUS
<1>1. call.at \in {"ask", "write"}
  OBVIOUS
<1>2. /\ Batched(t, g) /\ call \in LiveCalls /\ call.to \in Units
      /\ HoldsAll(Layer(t), groups[t][g], call.to) /\ groups[t][g] \in Seq(E)
      /\ faulty \/ (QuietCall(t, g) /\ QuietSlot(t, g) /\ up = Units)
  BY <1>1, CallFacts
<1>3. down' \in [Range(Host) -> SUBSET Units] /\ faulty \in BOOLEAN
  BY DEF FleetInv, FleetTypeOK
<1>4. ~faulty => call.to = g
  BY <1>1, <1>2 DEF QuietCall
<1>5. Layer(t)' = Layer(t) /\ Batch(t)' = Batch(t)
  BY DEF Layer, Batch
<1>6. HoldsAll(Layer(t), groups[t][g], call.to)'
  <2>1. \A k \in Units : HoldsAll(Layer(t), groups[t][g], k) => HoldsAll(Layer(t), groups[t][g], k)'
    BY <1>5 DEF HoldsAll, Holders
  <2> QED BY <1>2, <2>1
<1>7. CASE /\ Batch(t) \notin DOMAIN runs[call.to] /\ faulty' = TRUE /\ runs' = runs
           /\ SetCall(t, g, [call EXCEPT !.at = "refused"])
  <2> PICK c : c = [call EXCEPT !.at = "refused"]
    OBVIOUS
  <2>1. c \in LiveCalls /\ c.at = "refused" /\ c.to = call.to
    BY <1>2 DEF LiveCalls
  <2>2. c \in AnyCalls /\ LiveOK(t, g, c)'
    BY <1>6, <2>1 DEF AnyCalls, LiveOK
  <2>3. CachesOK' /\ Grown(t, g)
    BY <1>7 DEF FleetInv, FleetTypeOK, CachesOK, Grown
  <2>4. SetCall(t, g, c) /\ faulty' /\ faulty' \in BOOLEAN
    BY <1>7
  <2> HIDE DEF FleetInv
  <2> QED BY <1>2, <1>3, <2>2, <2>3, <2>4, CallMoves
<1>8. CASE /\ SetCall(t, g, [call EXCEPT !.at = reply.at, !.got = reply.got])
           /\ runs' = Started(call.to, Batch(t), groups[t][g]) /\ faulty' = faulty
  <2> PICK c : c = [call EXCEPT !.at = reply.at, !.got = reply.got]
    OBVIOUS
  <2>1. SetCall(t, g, c) /\ runs' = Started(call.to, Batch(t), groups[t][g])
    BY <1>8
  <2>2. /\ CachesOK' /\ Grown(t, g) /\ b \in DOMAIN runs'[call.to]
        /\ b \in DOMAIN runs[call.to] => runs'[call.to][b] = slot
        /\ b \notin DOMAIN runs[call.to] =>
              runs'[call.to][b].experts = groups[t][g] /\ ~runs'[call.to][b].done
    <3>1. FleetTypeOK
      BY DEF FleetInv
    <3>2. /\ CachesOK' /\ Grown(t, g) /\ Batch(t) \in DOMAIN runs'[call.to]
          /\ Batch(t) \in DOMAIN runs[call.to] =>
                runs'[call.to][Batch(t)] = runs[call.to][Batch(t)]
          /\ Batch(t) \notin DOMAIN runs[call.to] =>
                runs'[call.to][Batch(t)].experts = groups[t][g] /\ ~runs'[call.to][Batch(t)].done
      BY <1>2, <1>4, <1>8, <2>1, <3>1, StartedGrows
    <3> QED BY <3>2
  <2>3. /\ reply.at \in {"wait", "told", "refused"} /\ reply.got \in Seq(E)
        /\ reply.at = "wait" /\ b \in DOMAIN runs[call.to] =>
              slot.experts = groups[t][g] /\ ~slot.done
        /\ reply.at = "told" => reply.got = groups[t][g]
        /\ reply.at = "refused" => b \in DOMAIN runs[call.to] /\ slot.experts # groups[t][g]
    <3>1. << >> \in Seq(E)
      OBVIOUS
    <3>2. CASE b \notin DOMAIN runs[call.to]
      BY <3>1, <3>2 DEF Answered
    <3>3. CASE b \in DOMAIN runs[call.to] /\ slot.experts # groups[t][g]
      BY <3>1, <3>3 DEF Answered, Matches
    <3>4. CASE b \in DOMAIN runs[call.to] /\ slot.experts = groups[t][g] /\ slot.done
      BY <1>2, <3>4 DEF Answered, Matches
    <3>5. CASE b \in DOMAIN runs[call.to] /\ slot.experts = groups[t][g] /\ ~slot.done
      BY <3>1, <3>5 DEF Answered, Matches
    <3> QED BY <3>2, <3>3, <3>4, <3>5
  <2>4. c \in LiveCalls /\ c.at = reply.at /\ c.to = call.to /\ c.got = reply.got
    BY <1>2, <2>3 DEF LiveCalls
  <2>5. reply.at = "wait" => Waits(t, g, call.to)'
    <3> SUFFICES ASSUME reply.at = "wait" PROVE Waits(t, g, call.to)'
      OBVIOUS
    <3>1. runs'[call.to][b].experts = groups[t][g] /\ ~runs'[call.to][b].done
      BY <2>2, <2>3
    <3>2. \A k \in up' : b \in DOMAIN runs'[k] =>
             (~runs'[k][b].done /\ runs'[k][b].experts = groups'[t][g] => Waits(t, g, k)')
      BY <1>5 DEF Waits
    <3> QED BY <1>8, <2>2, <3>1, <3>2
  <2>6. LiveOK(t, g, c)'
    BY <1>6, <2>3, <2>4, <2>5 DEF LiveOK
  <2>7. ~faulty => reply.at # "refused"
    BY <1>2, <1>4, <2>3 DEF QuietSlot, Batched
  <2>8. c \in AnyCalls
    BY <2>4 DEF AnyCalls
  <2>9. ~faulty' => c.at \in {"ask", "write", "wait", "told", "ok"} /\ (c.at # "ok" => c.to = g)
    BY <1>4, <1>8, <2>3, <2>4, <2>7
  <2> HIDE DEF FleetInv
  <2> QED BY <1>2, <1>3, <1>8, <2>1, <2>2, <2>6, <2>8, <2>9, CallMoves
<1> QED BY <1>7, <1>8 DEF Deliver

\* A call finds no console, which is a fault, or one that does not read, or delivers its batch.
LEMMA AskStep ==
    ASSUME FleetInv, NEW t \in Tokens, NEW g \in Units, Ask(t, g)
    PROVE  FleetInv'
<1> PICK call : call = calls[t][g]
  OBVIOUS
<1>1. call.at = "ask" /\ UNCHANGED <<at, depth, routed, groups, sum, down, up, full>>
  BY DEF Ask
<1>2. /\ Batched(t, g) /\ call \in LiveCalls
      /\ HoldsAll(Layer(t), groups[t][g], call.to)
      /\ call.to \in Units
      /\ faulty \/ (QuietCall(t, g) /\ up = Units)
  BY <1>1, CallFacts
<1>3. down' \in [Range(Host) -> SUBSET Units] /\ faulty \in BOOLEAN
  BY <1>1 DEF FleetInv, FleetTypeOK
<1>4. CASE call.to \notin up /\ SetCall(t, g, Raise(call, "connect")) /\ UNCHANGED <<runs, faulty>>
  <2> PICK c : c = Raise(call, "connect")
    OBVIOUS
  <2>1. c \in LiveCalls /\ c.at = "mark" /\ c.to = call.to
    BY <1>2 DEF Raise, LiveCalls
  <2>2. c \in AnyCalls /\ LiveOK(t, g, c)
    BY <1>2, <2>1 DEF AnyCalls, LiveOK
  <2>3. faulty'
    BY <1>2, <1>4
  <2>4. SetCall(t, g, c) /\ UNCHANGED consoles
    BY <1>1, <1>4 DEF consoles
  <2> HIDE DEF FleetInv
  <2> QED BY <1>1, <1>2, <1>3, <1>4, <2>2, <2>3, <2>4, CallMovesAlone
<1>5. CASE SetCall(t, g, [call EXCEPT !.at = "write"]) /\ UNCHANGED <<runs, faulty>>
  <2> PICK c : c = [call EXCEPT !.at = "write"]
    OBVIOUS
  <2>1. c \in LiveCalls /\ c.at = "write" /\ c.to = call.to
    BY <1>2 DEF LiveCalls
  <2>2. c \in AnyCalls /\ LiveOK(t, g, c)
    BY <1>2, <2>1 DEF AnyCalls, LiveOK
  <2>3. ~faulty => c.to = g
    BY <1>1, <1>2, <2>1 DEF QuietCall
  <2>4. SetCall(t, g, c) /\ UNCHANGED consoles
    BY <1>1, <1>5 DEF consoles
  <2> HIDE DEF FleetInv
  <2> QED BY <1>1, <1>2, <1>3, <1>5, <2>1, <2>2, <2>3, <2>4, CallMovesAlone
<1>6. CASE call.to \in up \ full /\ Deliver(t, g)
  <2> HIDE DEF FleetInv
  <2> QED BY <1>1, <1>6, DeliverStep
<1> QED BY <1>4, <1>5, <1>6 DEF Ask

\* A console that reads again has the batch delivered.
LEMMA WriteStep ==
    ASSUME FleetInv, NEW t \in Tokens, NEW g \in Units, Write(t, g)
    PROVE  FleetInv'
<1>1. /\ calls[t][g].at = "write" /\ calls[t][g].to \in up /\ Deliver(t, g)
      /\ UNCHANGED <<at, depth, routed, groups, sum, down, up>>
  BY DEF Write
<1> HIDE DEF FleetInv
<1> QED BY <1>1, DeliverStep

\* A call gives up, which is a fault: its batch may go on at the console.
LEMMA TimeoutStep ==
    ASSUME FleetInv, NEW t \in Tokens, NEW g \in Units, Timeout(t, g)
    PROVE  FleetInv'
<1> PICK call : call = calls[t][g]
  OBVIOUS
<1> PICK c : c = Raise(call, "timeout")
  OBVIOUS
<1>1. call.at = "wait"
  BY DEF Timeout
<1>2. Batched(t, g) /\ call \in LiveCalls /\ HoldsAll(Layer(t), groups[t][g], call.to)
  BY <1>1, CallFacts
<1>3. /\ UNCHANGED <<at, depth, routed, groups, sum, consoles>> /\ faulty' = TRUE
      /\ down' \in [Range(Host) -> SUBSET Units] /\ SetCall(t, g, c)
  BY DEF Timeout, FleetInv, FleetTypeOK
<1>4. c \in LiveCalls /\ c.at = "mark" /\ c.to = call.to
  BY <1>2 DEF Raise, LiveCalls
<1>5. c \in AnyCalls /\ LiveOK(t, g, c)
  BY <1>2, <1>4 DEF AnyCalls, LiveOK
<1>6. faulty' \in BOOLEAN /\ faulty'
  BY <1>3
<1> HIDE DEF FleetInv
<1> QED BY <1>2, <1>3, <1>5, <1>6, CallMovesAlone

\* A reply that decodes is of the very experts of the batch; any other is an error, and none
\* comes while nothing went wrong.
LEMMA ReadStep ==
    ASSUME FleetInv, NEW t \in Tokens, NEW g \in Units, Read(t, g)
    PROVE  FleetInv'
<1> PICK call : call = calls[t][g]
  OBVIOUS
<1>1. call.at \in {"told", "refused"}
  BY DEF Read
<1>2. /\ Batched(t, g) /\ call \in LiveCalls /\ HoldsAll(Layer(t), groups[t][g], call.to)
      /\ groups[t][g] \in Seq(E)
      /\ call.at = "told" => call.got = groups[t][g]
      /\ faulty \/ QuietCall(t, g)
  BY <1>1, CallFacts
<1>3. UNCHANGED <<at, depth, routed, groups, sum, consoles>> /\ faulty' = faulty
  BY DEF Read, faults
<1>4. down' \in [Range(Host) -> SUBSET Units]
  <2>1. down \in [Range(Host) -> SUBSET Units]
    BY DEF FleetInv, FleetTypeOK
  <2> QED BY <2>1 DEF Read
<1>5. faulty' \in BOOLEAN /\ (faulty => faulty')
  BY <1>3 DEF FleetInv, FleetTypeOK
<1>6. CASE call.at = "told"
  <2> PICK c : c = Ended("ok", call.got)
    OBVIOUS
  <2>1. Decodes(call.got, groups[t][g])
    BY <1>2, <1>6 DEF Decodes
  <2>2. SetCall(t, g, c)
    BY <1>6, <2>1 DEF Read
  <2>3. c \in EndedCalls /\ c.at = "ok" /\ c.got = groups[t][g]
    BY <1>2, <1>6 DEF EndedCalls, Ended, Over
  <2>4. c \in AnyCalls /\ EndedOK(t, g, c)
    BY <2>3 DEF AnyCalls, EndedOK
  <2> HIDE DEF FleetInv
  <2> QED BY <1>2, <1>3, <1>4, <1>5, <2>2, <2>3, <2>4, CallMovesAlone
<1>7. CASE call.at = "refused"
  <2> PICK c : c = Raise(call, "error")
    OBVIOUS
  <2>1. SetCall(t, g, c)
    BY <1>7 DEF Read
  <2>2. c \in LiveCalls /\ c.at = "mark" /\ c.to = call.to
    BY <1>2 DEF Raise, LiveCalls
  <2>3. c \in AnyCalls /\ LiveOK(t, g, c)
    BY <1>2, <2>2 DEF AnyCalls, LiveOK
  <2>4. faulty'
    BY <1>2, <1>3, <1>7 DEF QuietCall
  <2> HIDE DEF FleetInv
  <2> QED BY <1>2, <1>3, <1>4, <1>5, <2>1, <2>3, <2>4, CallMovesAlone
<1> QED BY <1>1, <1>6, <1>7

\* A call marks its console down, and will drop the connection to it.
LEMMA MarkDownStep ==
    ASSUME FleetInv, NEW t \in Tokens, NEW g \in Units, MarkDown(t, g)
    PROVE  FleetInv'
<1> PICK call : call = calls[t][g]
  OBVIOUS
<1> PICK c : c = [call EXCEPT !.at = "drop"]
  OBVIOUS
<1>1. call.at = "mark"
  BY DEF MarkDown
<1>2. /\ Batched(t, g) /\ call \in LiveCalls /\ HoldsAll(Layer(t), groups[t][g], call.to)
      /\ call.to \in Units /\ (faulty \/ QuietCall(t, g))
  BY <1>1, CallFacts
<1>3. /\ UNCHANGED <<at, depth, routed, groups, sum, consoles>> /\ faulty' = faulty
      /\ SetCall(t, g, c)
  BY DEF MarkDown, faults
<1>4. down' \in [Range(Host) -> SUBSET Units]
  <2>1. down \in [Range(Host) -> SUBSET Units]
    BY DEF FleetInv, FleetTypeOK
  <2> QED BY <1>2, <2>1 DEF MarkDown
<1>5. faulty' \in BOOLEAN /\ faulty'
  BY <1>1, <1>2, <1>3 DEF FleetInv, FleetTypeOK, QuietCall
<1>6. c \in LiveCalls /\ c.at = "drop" /\ c.to = call.to
  BY <1>2 DEF LiveCalls
<1>7. c \in AnyCalls /\ LiveOK(t, g, c)
  BY <1>2, <1>6 DEF AnyCalls, LiveOK
<1> HIDE DEF FleetInv
<1> QED BY <1>2, <1>3, <1>4, <1>5, <1>7, CallMovesAlone

-----------------------------------------------------------------------------
\* A connection is dropped: whoever waits on it fails or retries, and the rest is as before.
LEMMA CutKept ==
    ASSUME FleetInv, NEW u \in Units, NEW cs \in [Tokens -> [Units -> AnyCalls]], Cut(u, cs),
           \A t \in Tokens, g \in Units :
              IF Batched(t, g) THEN LiveOK(t, g, cs[t][g]) \/ EndedOK(t, g, cs[t][g])
                               ELSE cs[t][g] = NoCall,
           UNCHANGED <<depth, routed, groups, sum, down, runs>>,
           up' \in {up, up \ {u}}, faulty' = TRUE
    PROVE  FleetInv'
<1>1. \A t \in Tokens :
         at'[t] = IF at[t] \in {"send", "block"} /\ HostOf(t) = u THEN "failed" ELSE at[t]
  BY DEF Cut
<1>2. \A t \in Tokens, g \in Units :
         IF cs[t][g].at \notin {"wait", "write"} \/ cs[t][g].to # u
           THEN calls'[t][g] = cs[t][g]
           ELSE calls'[t][g] \in {Raise(cs[t][g], "connect"), Ended("raised", <<>>)}
  <2>1. PICK cut :
           calls' = [t \in Tokens |-> [g \in Units |->
               IF cs[t][g].at \notin {"wait", "write"} \/ cs[t][g].to # u THEN cs[t][g]
               ELSE IF cs[t][g].at = "wait" \/ <<t, g>> \in cut THEN Raise(cs[t][g], "connect")
               ELSE Ended("raised", <<>>)]]
    BY Zenon DEF Cut
  <2> SUFFICES ASSUME NEW t \in Tokens, NEW g \in Units
               PROVE  IF cs[t][g].at \notin {"wait", "write"} \/ cs[t][g].to # u
                        THEN calls'[t][g] = cs[t][g]
                        ELSE calls'[t][g] \in {Raise(cs[t][g], "connect"), Ended("raised", <<>>)}
    OBVIOUS
  <2> QED BY <2>1
<1>3. \A t \in Tokens, g \in Units : Batched(t, g)' <=> Batched(t, g)
  BY <1>1 DEF Batched
<1>4. \A t \in Tokens, g \in Units : calls'[t][g] \in AnyCalls /\ CallOK(t, g)'
  <2> SUFFICES ASSUME NEW t \in Tokens, NEW g \in Units
               PROVE  calls'[t][g] \in AnyCalls /\ CallOK(t, g)'
    OBVIOUS
  <2> PICK c : c = cs[t][g]
    OBVIOUS
  <2> PICK d : d = calls'[t][g]
    OBVIOUS
  <2>1. IF c.at \notin {"wait", "write"} \/ c.to # u
          THEN d = c ELSE d \in {Raise(c, "connect"), Ended("raised", <<>>)}
    BY <1>2
  <2>2. IF Batched(t, g) THEN LiveOK(t, g, c) \/ EndedOK(t, g, c) ELSE c = NoCall
    OBVIOUS
  <2>3. c \in AnyCalls
    OBVIOUS
  <2>4. \A k \in Units : HoldsAll(Layer(t), groups[t][g], k) => HoldsAll(Layer(t), groups[t][g], k)'
    BY DEF HoldsAll, Holders, Layer
  <2>5. \A k \in Units \ {u} : Waits(t, g, k) => Waits(t, g, k)'
    BY DEF Waits, Batch, Layer
  <2>6. CASE ~Batched(t, g)
    BY <1>3, <2>1, <2>2, <2>6 DEF CallOK, NoCall, AnyCalls
  <2>7. CASE Batched(t, g) /\ EndedOK(t, g, c)
    <3>1. d = c
      BY <2>1, <2>7 DEF EndedOK, EndedCalls, Over
    <3> QED BY <1>3, <2>3, <2>7, <3>1 DEF CallOK, EndedOK
  <2>8. CASE Batched(t, g) /\ d = Ended("raised", <<>>)
    <3>1. << >> \in Seq(E)
      OBVIOUS
    <3>2. d \in EndedCalls /\ d.at = "raised"
      BY <2>8, <3>1 DEF EndedCalls, Ended, Over
    <3> QED BY <1>3, <2>8, <3>2 DEF CallOK, EndedOK, AnyCalls
  <2>9. CASE Batched(t, g) /\ LiveOK(t, g, c) /\ d # Ended("raised", <<>>)
    <3>1. c \in LiveCalls /\ c.to \in Units
      BY <2>9 DEF LiveOK, LiveCalls
    <3>2. \/ d = c /\ (c.at = "wait" => c.to # u)
          \/ d = Raise(c, "connect")
      BY <2>1, <2>9
    <3>3. CASE d = c /\ (c.at = "wait" => c.to # u)
      <4>1. LiveOK(t, g, c)'
        BY <2>4, <2>5, <2>9, <3>1, <3>3 DEF LiveOK
      <4> QED BY <1>3, <2>9, <3>1, <3>3, <4>1 DEF CallOK, AnyCalls
    <3>4. CASE d = Raise(c, "connect")
      <4>1. d \in LiveCalls /\ d.to = c.to /\ d.at = "mark"
        BY <3>1, <3>4 DEF Raise, LiveCalls
      <4>2. LiveOK(t, g, d)'
        BY <2>4, <2>9, <3>1, <4>1 DEF LiveOK
      <4> QED BY <1>3, <2>9, <4>1, <4>2 DEF CallOK, AnyCalls
    <3> QED BY <3>2, <3>3, <3>4
  <2> QED BY <2>2, <2>6, <2>7, <2>8, <2>9
<1>5. FleetTypeOK'
  <2>1. calls' \in [Tokens -> [Units -> AnyCalls]]
    BY <1>4 DEF Cut
  <2>2. at' \in [Tokens -> {"start", "send", "block", "route", "fan", "output", "failed"}]
    BY DEF Cut, FleetInv, FleetTypeOK
  <2>3. CachesOK'
    BY DEF FleetInv, FleetTypeOK, CachesOK
  <2>4. faulty' \in BOOLEAN
    OBVIOUS
  <2> QED BY <2>1, <2>2, <2>3, <2>4 DEF FleetInv, FleetTypeOK
<1>6. GroupInv'
  <2> SUFFICES ASSUME NEW t \in Tokens PROVE GroupOK(t)'
    BY DEF GroupInv
  <2>1. GroupOK(t)
    BY DEF FleetInv, GroupInv
  <2>2. CASE at'[t] = at[t]
    BY <2>1, <2>2, GroupKept
  <2>3. CASE at[t] \in {"send", "block"} /\ at'[t] = "failed"
    BY <2>1, <2>3 DEF GroupOK
  <2> QED BY <1>1, <2>2, <2>3
<1>7. Fresh'
  BY DEF FleetInv, Fresh
<1>8. Quiet'
  BY DEF Quiet
<1>9. SumComplete'
  BY SumsKept DEF FleetInv
<1> QED BY <1>4, <1>5, <1>6, <1>7, <1>8, <1>9 DEF FleetInv, CallInv

\* A connection is dropped: its call asks a replica or raises, all who wait on it are cut off.
LEMMA DropStep ==
    ASSUME FleetInv, NEW t \in Tokens, NEW g \in Units, Drop(t, g)
    PROVE  FleetInv'
<1> PICK call : call = calls[t][g]
  OBVIOUS
<1> PICK c : c = AfterFailure(t, g)
  OBVIOUS
<1> PICK cs : cs = [calls EXCEPT ![t][g] = c]
  OBVIOUS
<1>1. call.at = "drop"
  BY DEF Drop
<1>2. /\ Batched(t, g) /\ call \in LiveCalls /\ call.to \in Units
      /\ faulty \/ QuietCall(t, g)
  BY <1>1, CallFacts
<1>3. /\ UNCHANGED <<depth, routed, groups, sum, down, runs>> /\ up' = up
      /\ faulty' = faulty /\ Cut(call.to, cs)
  BY DEF Drop, faults, consoles
<1>4. faulty' = TRUE
  BY <1>1, <1>2, <1>3 DEF FleetInv, FleetTypeOK, QuietCall
<1>5. c \in AnyCalls /\ (LiveOK(t, g, c) \/ EndedOK(t, g, c))
  <2>1. CASE c = Ended("raised", <<>>)
    <3>1. << >> \in Seq(E)
      OBVIOUS
    <3>2. c \in EndedCalls /\ c.at = "raised"
      BY <2>1, <3>1 DEF EndedCalls, Ended, Over
    <3> QED BY <3>2 DEF AnyCalls, EndedOK
  <2>2. CASE c # Ended("raised", <<>>)
    <3> PICK tried : tried = Tried(call)
      OBVIOUS
    <3> PICK next : next = Replicas(Layer(t), groups[t][g], tried)
      OBVIOUS
    <3>1. /\ next # {}
          /\ c = [at |-> "ask", to |-> FirstNamed(next), attempt |-> call.attempt + 1,
                  tried |-> tried, got |-> <<>>]
      BY <2>2 DEF AfterFailure
    <3>2. next \in SUBSET Units
      BY DEF Replicas
    <3>3. FirstNamed(next) \in next
      BY <3>1, <3>2, FirstNamedIn
    <3>4. tried \in SUBSET Units /\ call.attempt + 1 \in Nat
      BY <1>2 DEF Tried, LiveCalls
    <3>5. << >> \in Seq(E)
      OBVIOUS
    <3>6. c \in LiveCalls /\ c.at = "ask" /\ c.to = FirstNamed(next)
      BY <1>2, <3>1, <3>2, <3>3, <3>4, <3>5 DEF LiveCalls
    <3>7. HoldsAll(Layer(t), groups[t][g], c.to)
      BY <3>3, <3>6 DEF Replicas
    <3> QED BY <3>6, <3>7 DEF AnyCalls, LiveOK
  <2> QED BY <2>1, <2>2
<1>6. /\ cs \in [Tokens -> [Units -> AnyCalls]] /\ cs[t][g] = c
      /\ \A s \in Tokens, h \in Units : s # t \/ h # g => cs[s][h] = calls[s][h]
  BY <1>5 DEF FleetInv, FleetTypeOK
<1>7. \A s \in Tokens, h \in Units :
         IF Batched(s, h) THEN LiveOK(s, h, cs[s][h]) \/ EndedOK(s, h, cs[s][h])
                          ELSE cs[s][h] = NoCall
  <2> SUFFICES ASSUME NEW s \in Tokens, NEW h \in Units
               PROVE  IF Batched(s, h) THEN LiveOK(s, h, cs[s][h]) \/ EndedOK(s, h, cs[s][h])
                                       ELSE cs[s][h] = NoCall
    OBVIOUS
  <2>1. CASE s = t /\ h = g
    BY <1>2, <1>5, <1>6, <2>1
  <2>2. CASE s # t \/ h # g
    <3>1. CallOK(s, h) /\ cs[s][h] = calls[s][h]
      BY <1>6, <2>2 DEF FleetInv, CallInv
    <3> QED BY <3>1 DEF CallOK
  <2> QED BY <2>1, <2>2
<1>8. PICK u \in Units : u = call.to
  BY <1>2
<1>9. up' \in {up, up \ {u}} /\ Cut(u, cs)
  BY <1>3, <1>8
<1>10. cs \in [Tokens -> [Units -> AnyCalls]]
  BY <1>6
<1> HIDE DEF FleetInv
<1> QED BY <1>3, <1>4, <1>7, <1>9, <1>10, CutKept

\* A console is lost, which is a fault, with all that wait on it.
LEMMA LoseStep ==
    ASSUME FleetInv, NEW u \in Units, Lose(u)
    PROVE  FleetInv'
<1> PICK cs : cs = calls
  OBVIOUS
<1>1. /\ UNCHANGED <<depth, routed, groups, sum, down, runs>> /\ up' \in {up, up \ {u}}
      /\ faulty' = TRUE /\ Cut(u, cs)
  BY DEF Lose
<1>2. cs \in [Tokens -> [Units -> AnyCalls]]
  BY DEF FleetInv, FleetTypeOK
<1>3. \A s \in Tokens, h \in Units :
         IF Batched(s, h) THEN LiveOK(s, h, cs[s][h]) \/ EndedOK(s, h, cs[s][h])
                          ELSE cs[s][h] = NoCall
  BY DEF FleetInv, CallInv, CallOK
<1> HIDE DEF FleetInv
<1> QED BY <1>1, <1>2, <1>3, CutKept

-----------------------------------------------------------------------------
\* A step of a console: it may end a batch or forget it, and those who wait are told.
LEMMA ConsoleMoves ==
    ASSUME FleetInv,
           UNCHANGED <<at, depth, routed, groups, sum, down, up>>, CachesOK',
           \A v \in Units : \A k \in DOMAIN runs'[v] :
              k \in DOMAIN runs[v] /\ runs'[v][k].experts = runs[v][k].experts,
           calls' = [t \in Tokens |-> [g \in Units |-> calls'[t][g]]],
           \A t \in Tokens, g \in Units :
              \/ /\ calls'[t][g] = calls[t][g]
                 /\ calls[t][g].at = "wait" /\ Batched(t, g) => Waits(t, g, calls[t][g].to)'
              \/ /\ Batched(t, g) /\ LiveOK(t, g, calls'[t][g])
                 /\ calls'[t][g].at \in {"told", "refused"} /\ calls'[t][g].to = calls[t][g].to
                 /\ calls[t][g].at = "wait" /\ (~faulty' => calls'[t][g].at = "told"),
           faulty' \in BOOLEAN, faulty => faulty'
    PROVE  FleetInv'
<1>1. \A t \in Tokens, g \in Units : Batched(t, g)' <=> Batched(t, g)
  BY DEF Batched
<1>2. \A t \in Tokens, g \in Units : calls'[t][g] \in AnyCalls /\ CallOK(t, g)'
  <2> SUFFICES ASSUME NEW t \in Tokens, NEW g \in Units
               PROVE  calls'[t][g] \in AnyCalls /\ CallOK(t, g)'
    OBVIOUS
  <2> PICK c : c = calls'[t][g]
    OBVIOUS
  <2>1. CASE c = calls[t][g]
    <3>1. CallOK(t, g) /\ c \in AnyCalls
      BY <2>1 DEF FleetInv, FleetTypeOK, CallInv
    <3>2. Batched(t, g) /\ calls[t][g].at = "wait" => Waits(t, g, calls[t][g].to)'
      <4>1. calls'[t][g] = calls[t][g]
        BY <2>1
      <4>2. ~(calls'[t][g].at \in {"told", "refused"} /\ calls[t][g].at = "wait")
        BY <4>1
      <4> QED BY <4>2
    <3>3. calls'[t][g] = calls[t][g] /\ depth'[t] = depth[t] /\ groups'[t] = groups[t]
      BY <2>1
    <3>4. CallOK(t, g)'
      BY <1>1, <3>1, <3>2, <3>3, CallKept
    <3> QED BY <3>1, <3>4
  <2>2. CASE c # calls[t][g]
    <3>1. Batched(t, g) /\ LiveOK(t, g, c) /\ c.at \in {"told", "refused"}
      BY <2>2
    <3>2. HoldsAll(Layer(t), groups[t][g], c.to)'
      <4>1. \A k : HoldsAll(Layer(t), groups[t][g], k) => HoldsAll(Layer(t), groups[t][g], k)'
        BY DEF HoldsAll, Holders, Layer
      <4> QED BY <3>1, <4>1 DEF LiveOK
    <3>3. LiveOK(t, g, c)'
      BY <3>1, <3>2 DEF LiveOK
    <3> QED BY <1>1, <3>1, <3>3 DEF CallOK, LiveOK, AnyCalls
  <2> QED BY <2>1, <2>2
<1>3. FleetTypeOK'
  <2>1. calls' \in [Tokens -> [Units -> AnyCalls]]
    BY <1>2
  <2> QED BY <2>1 DEF FleetInv, FleetTypeOK
<1>4. GroupInv'
  BY GroupsKept DEF FleetInv
<1>5. Fresh'
  BY DEF FleetInv, Fresh
<1>6. Quiet'
  <2> SUFFICES ASSUME ~faulty'
               PROVE  /\ up' = Units
                      /\ \A s \in Tokens : at'[s] # "failed"
                      /\ \A s \in Tokens, h \in Units : QuietCall(s, h)' /\ QuietSlot(s, h)'
    BY DEF Quiet
  <2>1. ~faulty /\ Quiet
    BY DEF FleetInv
  <2>2. up' = Units /\ \A s \in Tokens : at'[s] # "failed"
    BY <2>1 DEF Quiet
  <2>3. ASSUME NEW s \in Tokens, NEW h \in Units PROVE QuietCall(s, h)' /\ QuietSlot(s, h)'
    <3>1. QuietCall(s, h) /\ QuietSlot(s, h)
      BY <2>1 DEF Quiet
    <3>2. QuietCall(s, h)'
      <4>1. CASE calls'[s][h] = calls[s][h]
        BY <1>1, <3>1, <4>1 DEF QuietCall
      <4>2. CASE calls'[s][h] # calls[s][h]
        BY <1>1, <3>1, <4>2 DEF QuietCall
      <4> QED BY <4>1, <4>2
    <3>3. Batch(s)' = Batch(s)
      BY DEF Batch, Layer
    <3> QED BY <1>1, <3>1, <3>2, <3>3 DEF QuietSlot
  <2> QED BY <2>2, <2>3
<1>7. SumComplete'
  BY SumsKept DEF FleetInv
<1> QED BY <1>2, <1>3, <1>4, <1>5, <1>6, <1>7 DEF FleetInv, CallInv

\* A console answers: the batch is over in its cache, and those who wait are told.
LEMMA NodeAnswersStep ==
    ASSUME FleetInv, NEW u \in Units, NEW b \in Running(u), NodeAnswers(u, b)
    PROVE  FleetInv'
<1>1. UNCHANGED <<at, depth, routed, groups, sum, down, up>> /\ faulty' = faulty
  BY DEF NodeAnswers, faults
<1>2. /\ runs = [v \in Units |-> runs[v]] /\ runs[u][b] \in Slots /\ b \in DOMAIN runs[u]
      /\ \A v \in Units : \A k \in DOMAIN runs[v] : runs[v][k] \in Slots
  BY DEF FleetInv, FleetTypeOK, CachesOK, Running
<1>3. /\ runs' = [v \in Units |-> runs'[v]]
      /\ \A v \in Units : DOMAIN runs'[v] = DOMAIN runs[v]
      /\ \A v \in Units : \A k \in DOMAIN runs[v] : v # u \/ k # b => runs'[v][k] = runs[v][k]
      /\ runs'[u][b] = [runs[u][b] EXCEPT !.done = TRUE]
  BY <1>2 DEF NodeAnswers
<1>4. runs'[u][b] \in Slots /\ runs'[u][b].experts = runs[u][b].experts
  BY <1>2, <1>3 DEF Slots
<1>5. CachesOK'
  BY <1>2, <1>3, <1>4 DEF CachesOK
<1>6. \A v \in Units : \A k \in DOMAIN runs'[v] :
         k \in DOMAIN runs[v] /\ runs'[v][k].experts = runs[v][k].experts
  BY <1>3, <1>4
<1>7. calls' = [t \in Tokens |-> [g \in Units |-> calls'[t][g]]]
  BY DEF NodeAnswers, Tell
<1>8. ASSUME NEW t \in Tokens, NEW g \in Units
      PROVE  \/ /\ calls'[t][g] = calls[t][g]
                /\ calls[t][g].at = "wait" /\ Batched(t, g) => Waits(t, g, calls[t][g].to)'
             \/ /\ Batched(t, g) /\ LiveOK(t, g, calls'[t][g])
                /\ calls'[t][g].at \in {"told", "refused"} /\ calls'[t][g].to = calls[t][g].to
                /\ calls[t][g].at = "wait" /\ (~faulty' => calls'[t][g].at = "told")
  <2> PICK call : call = calls[t][g]
    OBVIOUS
  <2> PICK c : c = calls'[t][g]
    OBVIOUS
  <2>1. CASE call.at = "wait" /\ call.to = u /\ Batch(t) = b
    <3>1. c = [call EXCEPT !.at = "told", !.got = runs[u][b].experts]
      BY <2>1 DEF NodeAnswers, Tell
    <3>2. /\ Batched(t, g) /\ call \in LiveCalls /\ Waits(t, g, u)
          /\ HoldsAll(Layer(t), groups[t][g], call.to) /\ groups[t][g] \in Seq(E)
      BY <2>1, CallFacts
    <3>3. runs[u][b].experts = groups[t][g]
      BY <2>1, <3>2 DEF Waits
    <3>4. c \in LiveCalls /\ c.at = "told" /\ c.to = call.to /\ c.got = groups[t][g]
      BY <3>1, <3>2, <3>3 DEF LiveCalls
    <3>5. LiveOK(t, g, c)
      BY <3>2, <3>4 DEF LiveOK
    <3> QED BY <2>1, <3>2, <3>4, <3>5
  <2>2. CASE ~(call.at = "wait" /\ call.to = u /\ Batch(t) = b)
    <3>1. c = call
      BY <2>2 DEF NodeAnswers, Tell
    <3>2. SUFFICES ASSUME call.at = "wait" PROVE Waits(t, g, call.to)'
      BY <3>1
    <3>3. Waits(t, g, call.to) /\ call.to \in Units
      BY <3>2, CallFacts
    <3>4. runs'[call.to][Batch(t)] = runs[call.to][Batch(t)]
      BY <1>3, <2>2, <3>2, <3>3 DEF Waits
    <3>5. Batch(t)' = Batch(t)
      BY <1>1 DEF Batch, Layer
    <3>6. \A k \in Units : Waits(t, g, k) /\ runs'[k][Batch(t)] = runs[k][Batch(t)] =>
             Waits(t, g, k)'
      BY <1>1, <1>3, <3>5 DEF Waits
    <3> QED BY <3>3, <3>4, <3>6
  <2> QED BY <2>1, <2>2
<1>9. faulty' \in BOOLEAN /\ (faulty => faulty')
  BY <1>1 DEF FleetInv, FleetTypeOK
<1> HIDE DEF FleetInv
<1> QED BY <1>1, <1>5, <1>6, <1>7, <1>8, <1>9, ConsoleMoves

\* Taking a batch out of a cache.
LEMMA Forgotten ==
    ASSUME FleetInv, NEW u \in Units, NEW b,
           runs' = [runs EXCEPT ![u] = Restrict(@, DOMAIN @ \ {b})]
    PROVE  /\ CachesOK'
           /\ \A v \in Units : \A k \in DOMAIN runs'[v] :
                 k \in DOMAIN runs[v] /\ runs'[v][k] = runs[v][k]
           /\ \A v \in Units : \A k \in DOMAIN runs[v] :
                 v # u \/ k # b => k \in DOMAIN runs'[v]
<1>1. /\ runs = [v \in Units |-> runs[v]]
      /\ \A v \in Units : \A k \in DOMAIN runs[v] : runs[v][k] \in Slots
  BY DEF FleetInv, FleetTypeOK, CachesOK
<1>2. runs'[u] = [k \in DOMAIN runs[u] \ {b} |-> runs[u][k]]
  BY <1>1 DEF Restrict
<1>3. runs' = [v \in Units |-> runs'[v]] /\ \A v \in Units \ {u} : runs'[v] = runs[v]
  BY <1>1
<1> QED BY <1>1, <1>2, <1>3 DEF CachesOK

\* A console fails a batch, which is a fault: the batch is forgotten and may be asked again.
LEMMA NodeFailsStep ==
    ASSUME FleetInv, NEW u \in Units, NEW b \in Running(u), NodeFails(u, b)
    PROVE  FleetInv'
<1>1. UNCHANGED <<at, depth, routed, groups, sum, down, up>> /\ faulty' = TRUE
  BY DEF NodeFails
<1>2. /\ CachesOK'
      /\ \A v \in Units : \A k \in DOMAIN runs'[v] :
            k \in DOMAIN runs[v] /\ runs'[v][k] = runs[v][k]
      /\ \A v \in Units : \A k \in DOMAIN runs[v] : v # u \/ k # b => k \in DOMAIN runs'[v]
  BY Forgotten DEF NodeFails
<1>3. calls' = [t \in Tokens |-> [g \in Units |-> calls'[t][g]]]
  BY DEF NodeFails, Tell
<1>4. ASSUME NEW t \in Tokens, NEW g \in Units
      PROVE  \/ /\ calls'[t][g] = calls[t][g]
                /\ calls[t][g].at = "wait" /\ Batched(t, g) => Waits(t, g, calls[t][g].to)'
             \/ /\ Batched(t, g) /\ LiveOK(t, g, calls'[t][g])
                /\ calls'[t][g].at \in {"told", "refused"} /\ calls'[t][g].to = calls[t][g].to
                /\ calls[t][g].at = "wait" /\ (~faulty' => calls'[t][g].at = "told")
  <2> PICK call : call = calls[t][g]
    OBVIOUS
  <2> PICK c : c = calls'[t][g]
    OBVIOUS
  <2>1. CASE call.at = "wait" /\ call.to = u /\ Batch(t) = b
    <3>1. c = [call EXCEPT !.at = "refused", !.got = <<>>]
      BY <2>1 DEF NodeFails, Tell
    <3>2. /\ Batched(t, g) /\ call \in LiveCalls
          /\ HoldsAll(Layer(t), groups[t][g], call.to)
      BY <2>1, CallFacts
    <3>3. << >> \in Seq(E)
      OBVIOUS
    <3>4. c \in LiveCalls /\ c.at = "refused" /\ c.to = call.to
      BY <3>1, <3>2, <3>3 DEF LiveCalls
    <3>5. LiveOK(t, g, c)
      BY <3>2, <3>4 DEF LiveOK
    <3> QED BY <1>1, <2>1, <3>2, <3>4, <3>5
  <2>2. CASE ~(call.at = "wait" /\ call.to = u /\ Batch(t) = b)
    <3>1. c = call
      BY <2>2 DEF NodeFails, Tell
    <3>2. SUFFICES ASSUME call.at = "wait" PROVE Waits(t, g, call.to)'
      BY <3>1
    <3>3. Waits(t, g, call.to) /\ call.to \in Units
      BY <3>2, CallFacts
    <3>4. call.to # u \/ Batch(t) # b
      BY <2>2, <3>2
    <3>5. Batch(t)' = Batch(t)
      BY <1>1 DEF Batch, Layer
    <3>6. \A k \in Units : Waits(t, g, k) /\ (k # u \/ Batch(t) # b) => Waits(t, g, k)'
      BY <1>1, <1>2, <3>5 DEF Waits
    <3> QED BY <3>3, <3>4, <3>6
  <2> QED BY <2>1, <2>2
<1>5. \A v \in Units : \A k \in DOMAIN runs'[v] :
         k \in DOMAIN runs[v] /\ runs'[v][k].experts = runs[v][k].experts
  BY <1>2
<1>6. faulty' \in BOOLEAN /\ (faulty => faulty')
  BY <1>1
<1> HIDE DEF FleetInv
<1> QED BY <1>1, <1>2, <1>3, <1>4, <1>5, <1>6, ConsoleMoves

\* Only a batch that is over is forgotten, so nobody waits for it.
LEMMA NodeForgetsStep ==
    ASSUME FleetInv, NEW u \in Units, NEW b \in DOMAIN runs[u], NodeForgets(u, b)
    PROVE  FleetInv'
<1>1. /\ UNCHANGED <<at, depth, routed, groups, sum, down, up, calls>> /\ faulty' = faulty
      /\ runs[u][b].done
  BY DEF NodeForgets, faults, tokens
<1>2. /\ CachesOK'
      /\ \A v \in Units : \A k \in DOMAIN runs'[v] :
            k \in DOMAIN runs[v] /\ runs'[v][k] = runs[v][k]
      /\ \A v \in Units : \A k \in DOMAIN runs[v] : v # u \/ k # b => k \in DOMAIN runs'[v]
  BY Forgotten DEF NodeForgets
<1>3. calls' = [t \in Tokens |-> [g \in Units |-> calls'[t][g]]]
  BY <1>1 DEF FleetInv, FleetTypeOK
<1>4. ASSUME NEW t \in Tokens, NEW g \in Units, calls[t][g].at = "wait"
      PROVE  Waits(t, g, calls[t][g].to)'
  <2>1. Waits(t, g, calls[t][g].to) /\ calls[t][g].to \in Units
    BY <1>4, CallFacts
  <2>2. Batch(t)' = Batch(t)
    BY <1>1 DEF Batch, Layer
  <2>3. \A k \in Units : Waits(t, g, k) => Waits(t, g, k)'
    BY <1>1, <1>2, <2>2 DEF Waits
  <2> QED BY <1>1, <2>1, <2>3
<1>5. \A v \in Units : \A k \in DOMAIN runs'[v] :
         k \in DOMAIN runs[v] /\ runs'[v][k].experts = runs[v][k].experts
  BY <1>2
<1>6. faulty' \in BOOLEAN /\ (faulty => faulty')
  BY <1>1 DEF FleetInv, FleetTypeOK
<1>7. \A t \in Tokens, g \in Units : calls'[t][g] = calls[t][g]
  BY <1>1
<1> HIDE DEF FleetInv
<1> QED BY <1>1, <1>2, <1>3, <1>4, <1>5, <1>6, <1>7, ConsoleMoves

\* Whoever returns, restarted or not, nobody waits on.
LEMMA ReturnStep ==
    ASSUME FleetInv, NEW u \in Units, Return(u)
    PROVE  FleetInv'
<1>1. /\ UNCHANGED <<at, depth, routed, groups, sum, down, calls>> /\ faulty' = faulty
      /\ u \notin up /\ up' = up \cup {u} /\ (runs' = runs \/ runs' = [runs EXCEPT ![u] = <<>>])
  BY DEF Return, faults, tokens
<1>2. faulty /\ faulty' /\ faulty' \in BOOLEAN
  BY <1>1 DEF FleetInv, FleetTypeOK, Quiet
<1>3. /\ runs = [v \in Units |-> runs[v]]
      /\ \A v \in Units : \A k \in DOMAIN runs[v] : runs[v][k] \in Slots
  BY DEF FleetInv, FleetTypeOK, CachesOK
<1>4. /\ runs' = [v \in Units |-> runs'[v]]
      /\ \A v \in Units : v # u => runs'[v] = runs[v]
      /\ \A v \in Units : \A k \in DOMAIN runs'[v] :
            k \in DOMAIN runs[v] /\ runs'[v][k] = runs[v][k]
  <2>1. DOMAIN << >> = 1..Len(<< >>) /\ Len(<< >>) = 0
    OBVIOUS
  <2>2. CASE runs' = runs
    BY <1>3, <2>2
  <2>3. CASE runs' = [runs EXCEPT ![u] = <<>>]
    <3>1. runs'[u] = <<>> /\ runs' = [v \in Units |-> runs'[v]]
          /\ \A v \in Units : v # u => runs'[v] = runs[v]
      BY <1>3, <2>3
    <3>2. DOMAIN runs'[u] = {}
      BY <2>1, <3>1
    <3> QED BY <3>1, <3>2
  <2> QED BY <1>1, <2>2, <2>3
<1>5. FleetTypeOK'
  <2>1. CachesOK'
    BY <1>3, <1>4 DEF CachesOK
  <2> QED BY <1>1, <1>2, <2>1 DEF FleetInv, FleetTypeOK
<1>6. GroupInv'
  BY <1>1, GroupsKept DEF FleetInv
<1>7. CallInv'
  <2> SUFFICES ASSUME NEW t \in Tokens, NEW g \in Units PROVE CallOK(t, g)'
    BY DEF CallInv
  <2>1. CallOK(t, g)
    BY DEF FleetInv, CallInv
  <2>2. Batched(t, g) /\ calls[t][g].at = "wait" => Waits(t, g, calls[t][g].to)'
    <3> SUFFICES ASSUME calls[t][g].at = "wait" PROVE Waits(t, g, calls[t][g].to)'
      OBVIOUS
    <3>1. Waits(t, g, calls[t][g].to) /\ calls[t][g].to \in Units
      BY CallFacts
    <3>2. \A k \in Units : Waits(t, g, k) => Waits(t, g, k)'
      BY <1>1, <1>4 DEF Waits, Batch, Layer
    <3> QED BY <1>1, <3>1, <3>2
  <2>3. Batched(t, g)' <=> Batched(t, g)
    BY <1>1 DEF Batched
  <2> QED BY <1>1, <2>1, <2>2, <2>3, CallKept
<1>8. Fresh'
  BY <1>1, <1>4 DEF FleetInv, Fresh
<1>9. Quiet'
  BY <1>2 DEF Quiet
<1>10. SumComplete'
  BY <1>1, SumsKept DEF FleetInv
<1> QED BY <1>5, <1>6, <1>7, <1>8, <1>9, <1>10 DEF FleetInv

\* Whether a console reads is nothing to the invariant, nor is a step that changes nothing.
LEMMA NothingMoves ==
    ASSUME FleetInv,
           UNCHANGED <<at, depth, routed, groups, calls, sum, down, up, runs, faulty>>
    PROVE  FleetInv'
<1>1. FleetTypeOK'
  BY DEF FleetInv, FleetTypeOK, CachesOK
<1>2. GroupInv'
  BY GroupsKept DEF FleetInv
<1>3. CallInv'
  <2> SUFFICES ASSUME NEW t \in Tokens, NEW g \in Units PROVE CallOK(t, g)'
    BY DEF CallInv
  <2>1. CallOK(t, g) /\ (Batched(t, g)' <=> Batched(t, g))
    BY DEF FleetInv, CallInv, Batched
  <2>2. Batched(t, g) /\ calls[t][g].at = "wait" => Waits(t, g, calls[t][g].to)
    BY CallFacts
  <2>3. \A k : Waits(t, g, k) => Waits(t, g, k)'
    BY DEF Waits, Batch, Layer
  <2> QED BY <2>1, <2>2, <2>3, CallKept
<1>4. Fresh'
  BY DEF FleetInv, Fresh
<1>5. Quiet'
  BY DEF FleetInv, Quiet, QuietCall, QuietSlot, Batched, Batch, Layer
<1>6. SumComplete'
  BY SumsKept DEF FleetInv
<1> QED BY <1>1, <1>2, <1>3, <1>4, <1>5, <1>6 DEF FleetInv

-----------------------------------------------------------------------------
\* A new element at the end of a sequence repeats nothing.
LEMMA UnrepeatedAppend ==
    ASSUME NEW S, NEW q \in Seq(S), NEW x \in S, Unrepeated(q), x \notin Range(q)
    PROVE  Unrepeated(Append(q, x))
<1>1. /\ DOMAIN Append(q, x) = 1..(Len(q) + 1) /\ DOMAIN q = 1..Len(q) /\ Len(q) \in Nat
      /\ Append(q, x)[Len(q) + 1] = x /\ \A i \in 1..Len(q) : Append(q, x)[i] = q[i]
  OBVIOUS
<1>2. \A i \in 1..Len(q) : q[i] # x
  BY <1>1 DEF Range
<1>3. \A i \in 1..(Len(q) + 1) : i \in 1..Len(q) \/ i = Len(q) + 1
  BY <1>1
<1> QED BY <1>1, <1>2, <1>3 DEF Unrepeated

\* Grouping one more expert: in a batch of a console that holds it, and in no other.
LEMMA GroupsOneMore ==
    ASSUME FleetInv, NEW t \in Tokens, at[t] = "route"
    PROVE  /\ Grouping(t, Grouped(t), routed[t] + 1)
           /\ routed[t] \in Nat /\ routed[t] + 1 <= Len(TopK(t)) /\ Len(TopK(t)) \in Nat
           /\ depth[t] > DenseLayers
<1>n. PICK n : n = routed[t]
  OBVIOUS
<1>f. PICK f : f = groups[t]
  OBVIOUS
<1>e. PICK e : e = TopK(t)[n + 1]
  OBVIOUS
<1>u. PICK u : u = Owner(Holders(Layer(t), e), down[HostOf(t)])
  OBVIOUS
<1>had. PICK had : had = IF u \in DOMAIN f THEN f[u] ELSE <<>>
  OBVIOUS
<1>1. n \in Nat /\ n < Len(TopK(t)) /\ Grouping(t, f, n) /\ depth[t] > DenseLayers
  BY <1>n, <1>f DEF FleetInv, FleetTypeOK, GroupInv, GroupOK
<1>2. /\ TopK(t) \in Seq(E) /\ Len(TopK(t)) \in Nat
      /\ DOMAIN TopK(t) = 1..Len(TopK(t))
      /\ \A i \in 1..Len(TopK(t)) :
            /\ Holders(Layer(t), TopK(t)[i]) \in Seq(Units)
            /\ Holders(Layer(t), TopK(t)[i]) # <<>>
      /\ \A i, j \in 1..Len(TopK(t)) : TopK(t)[i] = TopK(t)[j] => i = j
  BY <1>1, RoutedFacts DEF FleetInv
<1>3. n + 1 \in 1..Len(TopK(t)) /\ e \in E
  BY <1>1, <1>2, <1>e
<1>4. u \in Range(Holders(Layer(t), e)) /\ u \in Units
  BY <1>2, <1>3, <1>e, <1>u, OwnerHolds
<1>5. had \in Seq(E) /\ (u \in DOMAIN f => had = f[u]) /\ (u \notin DOMAIN f => Range(had) = {})
  <2>1. << >> \in Seq(E) /\ DOMAIN << >> = 1..Len(<< >>) /\ Len(<< >>) = 0
    OBVIOUS
  <2> QED BY <1>1, <1>had, <2>1 DEF Grouping, Range
<1>6. Append(had, e) \in Seq(E) /\ Range(Append(had, e)) = Range(had) \cup {e}
  BY <1>3, <1>5, RangeAppend
<1>new. PICK new : new = [v \in DOMAIN f \cup {u} |-> IF v = u THEN Append(had, e) ELSE f[v]]
  OBVIOUS
<1>7. new = Grouped(t)
  BY <1>n, <1>f, <1>e, <1>u, <1>had, <1>new DEF Grouped
<1>8. /\ DOMAIN new = DOMAIN f \cup {u} /\ new[u] = Append(had, e)
      /\ \A v \in DOMAIN f : v # u => new[v] = f[v]
  BY <1>new
<1>9. DOMAIN new \subseteq Units
  BY <1>1, <1>4, <1>8 DEF Grouping
<1>10. \A g \in DOMAIN new : Range(new[g]) = IF g = u THEN Range(had) \cup {e} ELSE Range(f[g])
  BY <1>6, <1>8
<1>11. \A i \in 1..(n + 1) : i \in 1..n \/ TopK(t)[i] = e
  BY <1>1, <1>e
<1>12. \A g \in DOMAIN new :
         /\ new[g] \in Seq(E)
         /\ \A x \in Range(new[g]) : /\ g \in Range(Holders(Layer(t), x))
                                     /\ \E i \in 1..(n + 1) : x = TopK(t)[i]
  <2> SUFFICES ASSUME NEW g \in DOMAIN new
               PROVE  /\ new[g] \in Seq(E)
                      /\ \A x \in Range(new[g]) : /\ g \in Range(Holders(Layer(t), x))
                                                  /\ \E i \in 1..(n + 1) : x = TopK(t)[i]
    OBVIOUS
  <2>1. new[g] \in Seq(E)
    BY <1>1, <1>6, <1>8 DEF Grouping
  <2>2. ASSUME NEW x \in Range(new[g])
        PROVE  /\ g \in Range(Holders(Layer(t), x))
               /\ \E i \in 1..(n + 1) : x = TopK(t)[i]
    <3>1. CASE x = e /\ g = u
      <4>1. n + 1 \in 1..(n + 1)
        BY <1>1
      <4> QED BY <1>4, <1>e, <3>1, <4>1
    <3>2. CASE g \in DOMAIN f /\ x \in Range(f[g])
      <4>1. PICK i \in 1..n : x = TopK(t)[i]
        BY <1>1, <3>2 DEF Grouping
      <4>2. i \in 1..(n + 1)
        BY <1>1
      <4> QED BY <1>1, <3>2, <4>1, <4>2 DEF Grouping
    <3> QED BY <1>5, <1>8, <1>10, <3>1, <3>2
  <2> QED BY <2>1, <2>2
<1>13. \A i \in 1..(n + 1) : \E g \in DOMAIN new : TopK(t)[i] \in Range(new[g])
  <2> SUFFICES ASSUME NEW i \in 1..(n + 1)
               PROVE  \E g \in DOMAIN new : TopK(t)[i] \in Range(new[g])
    OBVIOUS
  <2>1. CASE TopK(t)[i] = e
    BY <1>8, <1>10, <2>1
  <2>2. CASE i \in 1..n
    <3>1. PICK g \in DOMAIN f : TopK(t)[i] \in Range(f[g])
      BY <1>1, <2>2 DEF Grouping
    <3>2. g \in DOMAIN new /\ TopK(t)[i] \in Range(new[g])
      BY <1>5, <1>8, <1>10, <3>1
    <3> QED BY <3>2
  <2> QED BY <1>11, <2>1, <2>2
<1>14. \A g \in DOMAIN f : e \notin Range(f[g])
  <2> SUFFICES ASSUME NEW g \in DOMAIN f, e \in Range(f[g]) PROVE FALSE
    OBVIOUS
  <2>1. PICK i \in 1..n : e = TopK(t)[i]
    BY <1>1 DEF Grouping
  <2>2. i \in 1..Len(TopK(t)) /\ i # n + 1
    BY <1>1, <1>2
  <2> QED BY <1>2, <1>3, <1>e, <2>1, <2>2
<1>15. \A g, h \in DOMAIN new : g # h => Range(new[g]) \cap Range(new[h]) = {}
  <2> SUFFICES ASSUME NEW g \in DOMAIN new, NEW h \in DOMAIN new, g # h,
                      NEW x \in Range(new[g]) \cap Range(new[h])
               PROVE  FALSE
    OBVIOUS
  <2>1. CASE x = e
    BY <1>8, <1>10, <1>14, <2>1
  <2>2. CASE x # e
    <3>1. g \in DOMAIN f /\ h \in DOMAIN f /\ x \in Range(f[g]) /\ x \in Range(f[h])
      BY <1>5, <1>8, <1>10, <2>2
    <3> QED BY <1>1, <3>1 DEF Grouping
  <2> QED BY <2>1, <2>2
<1>16. \A g \in DOMAIN new : Unrepeated(new[g])
  <2>1. Unrepeated(had) /\ e \notin Range(had)
    BY <1>1, <1>5, <1>14, <1>had DEF Grouping, Unrepeated
  <2>2. Unrepeated(Append(had, e))
    BY <1>3, <1>5, <2>1, UnrepeatedAppend
  <2> QED BY <1>1, <1>8, <2>2 DEF Grouping
<1>17. Grouping(t, new, n + 1)
  BY <1>9, <1>12, <1>13, <1>15, <1>16 DEF Grouping
<1> QED BY <1>1, <1>2, <1>3, <1>7, <1>17, <1>n

\* Grouping an expert, and with the last one the batches go out, each to its console.
LEMMA GroupStep ==
    ASSUME FleetInv, NEW t \in Tokens, Group(t)
    PROVE  FleetInv'
<1> PICK new : new = Grouped(t)
  OBVIOUS
<1> PICK n : n = routed[t]
  OBVIOUS
<1> DEFINE last == n + 1 = Len(TopK(t))
<1>1. /\ at[t] = "route" /\ UNCHANGED <<depth, sum, down, up, runs>> /\ faulty' = faulty
      /\ at' = [at EXCEPT ![t] = IF last THEN "fan" ELSE "route"]
      /\ groups' = [groups EXCEPT ![t] = new]
      /\ routed' = [routed EXCEPT ![t] = IF last THEN 0 ELSE @ + 1]
      /\ calls' = [calls EXCEPT ![t] = [u \in Units |->
                     IF last /\ u \in DOMAIN new THEN Call(u) ELSE NoCall]]
  BY DEF Group, Goto, consoles, faults
<1>2. /\ Grouping(t, new, n + 1) /\ n \in Nat /\ n + 1 <= Len(TopK(t)) /\ Len(TopK(t)) \in Nat
      /\ depth[t] > DenseLayers
  BY <1>1, GroupsOneMore
<1>3. /\ at'[t] = (IF last THEN "fan" ELSE "route") /\ groups'[t] = new
      /\ routed'[t] = (IF last THEN 0 ELSE n + 1)
      /\ \A s \in Tokens : s # t =>
            /\ at'[s] = at[s] /\ groups'[s] = groups[s] /\ routed'[s] = routed[s]
            /\ calls'[s] = calls[s]
      /\ \A g \in Units : calls'[t][g] = IF last /\ g \in DOMAIN new THEN Call(g) ELSE NoCall
  BY <1>1 DEF FleetInv, FleetTypeOK
<1>4. \A g \in Units : Call(g) \in LiveCalls /\ Call(g).at = "ask" /\ Call(g).to = g
  BY CallBegins
<1>5. FleetTypeOK'
  <2>1. at' \in [Tokens -> {"start", "send", "block", "route", "fan", "output", "failed"}]
    BY <1>1 DEF FleetInv, FleetTypeOK
  <2>2. routed' \in [Tokens -> Nat]
    BY <1>1, <1>2 DEF FleetInv, FleetTypeOK
  <2>3. calls' \in [Tokens -> [Units -> AnyCalls]]
    <3>1. NoCall \in AnyCalls /\ \A g \in Units : Call(g) \in AnyCalls
      BY <1>4 DEF AnyCalls
    <3>2. [u \in Units |-> IF last /\ u \in DOMAIN new THEN Call(u) ELSE NoCall]
             \in [Units -> AnyCalls]
      BY <3>1
    <3> QED BY <1>1, <3>2 DEF FleetInv, FleetTypeOK
  <2>4. CachesOK'
    BY <1>1 DEF FleetInv, FleetTypeOK, CachesOK
  <2>5. groups' = [s \in Tokens |-> groups'[s]]
    BY <1>1 DEF FleetInv, FleetTypeOK
  <2> QED BY <1>1, <2>1, <2>2, <2>3, <2>4, <2>5 DEF FleetInv, FleetTypeOK
<1>6. Layer(t)' = Layer(t) /\ TopK(t)' = TopK(t)
  BY <1>1 DEF Layer, TopK
<1>7. Grouping(t, new, n + 1)'
  <2>1. \A k : Grouping(t, new, k)' <=> Grouping(t, new, k)
    BY <1>6 DEF Grouping, Holders
  <2> QED BY <1>2, <2>1
<1>8. GroupInv'
  <2> SUFFICES ASSUME NEW s \in Tokens PROVE GroupOK(s)'
    BY DEF GroupInv
  <2>1. CASE s = t /\ last
    BY <1>1, <1>2, <1>3, <1>6, <1>7, <2>1 DEF GroupOK
  <2>2. CASE s = t /\ ~last
    BY <1>1, <1>2, <1>3, <1>6, <1>7, <2>2 DEF GroupOK
  <2>3. CASE s # t
    BY <1>1, <1>3, <2>3, GroupKept DEF FleetInv, GroupInv
  <2> QED BY <2>1, <2>2, <2>3
<1>9. \A g \in Units : Batched(t, g)' <=> last /\ g \in DOMAIN new
  BY <1>3 DEF Batched
<1>10. \A s \in Tokens, g \in Units : s # t => (Batched(s, g)' <=> Batched(s, g))
  BY <1>3 DEF Batched
<1>11. CallInv'
  <2> SUFFICES ASSUME NEW s \in Tokens, NEW g \in Units PROVE CallOK(s, g)'
    BY DEF CallInv
  <2>1. CASE s = t /\ last /\ g \in DOMAIN new
    <3>1. HoldsAll(Layer(t), new[g], g)
      BY <1>2, <2>1 DEF Grouping, HoldsAll
    <3>2. HoldsAll(Layer(t), groups[t][g], Call(g).to)'
      BY <1>3, <1>4, <1>6, <3>1 DEF HoldsAll, Holders
    <3>3. LiveOK(t, g, Call(g))'
      BY <1>4, <3>2 DEF LiveOK
    <3>4. calls'[t][g] = Call(g)
      BY <1>3, <2>1
    <3> QED BY <1>9, <2>1, <3>3, <3>4 DEF CallOK
  <2>2. CASE s = t /\ ~(last /\ g \in DOMAIN new)
    BY <1>3, <1>9, <2>2 DEF CallOK
  <2>3. CASE s # t
    <3>1. CallOK(s, g)
      BY DEF FleetInv, CallInv
    <3>2. \A k : Waits(s, g, k) => Waits(s, g, k)'
      BY <1>1, <1>3, <2>3 DEF Waits, Batch, Layer
    <3>3. Batched(s, g) /\ calls[s][g].at = "wait" => Waits(s, g, calls[s][g].to)
      BY CallFacts
    <3>4. depth'[s] = depth[s] /\ groups'[s] = groups[s] /\ calls'[s][g] = calls[s][g]
      BY <1>1, <1>3, <2>3
    <3> QED BY <1>10, <2>3, <3>1, <3>2, <3>3, <3>4, CallKept
  <2> QED BY <2>1, <2>2, <2>3
<1>12. Fresh'
  BY <1>1 DEF FleetInv, Fresh
<1>13. Quiet'
  <2> SUFFICES ASSUME ~faulty'
               PROVE  /\ up' = Units
                      /\ \A s \in Tokens : at'[s] # "failed"
                      /\ \A s \in Tokens, g \in Units : QuietCall(s, g)' /\ QuietSlot(s, g)'
    BY DEF Quiet
  <2>1. ~faulty /\ Quiet
    BY <1>1 DEF FleetInv
  <2>2. up' = Units /\ \A s \in Tokens : at'[s] # "failed"
    BY <1>1, <1>3, <2>1 DEF Quiet
  <2>3. ASSUME NEW s \in Tokens, NEW g \in Units, s # t
        PROVE  QuietCall(s, g)' /\ QuietSlot(s, g)'
    <3>1. QuietCall(s, g) /\ QuietSlot(s, g)
      BY <2>1 DEF Quiet
    <3> QED BY <1>1, <1>3, <1>10, <2>3, <3>1 DEF QuietCall, QuietSlot, Batch, Layer
  <2>4. ASSUME NEW g \in Units PROVE QuietCall(t, g)' /\ QuietSlot(t, g)'
    <3>1. Batch(t) \notin DOMAIN runs[g]
      BY <1>1, <2>1 DEF Quiet, QuietSlot, Batched
    <3>2. Batch(t)' = Batch(t)
      BY <1>6 DEF Batch
    <3>3. QuietSlot(t, g)'
      BY <1>1, <3>1, <3>2 DEF QuietSlot
    <3>4. QuietCall(t, g)'
      BY <1>3, <1>4, <1>9 DEF QuietCall
    <3> QED BY <3>3, <3>4
  <2> QED BY <2>2, <2>3, <2>4
<1>14. SumComplete'
  BY <1>1, SumsKept DEF FleetInv
<1> QED BY <1>5, <1>8, <1>11, <1>12, <1>13, <1>14 DEF FleetInv

-----------------------------------------------------------------------------
\* When every call of a token ended well, each routed expert's row is with one console.
LEMMA RowsOnce ==
    ASSUME FleetInv, NEW t \in Tokens, at[t] = "fan",
           \A g \in DOMAIN groups[t] : calls[t][g].at = "ok"
    PROVE  [e \in UNION {Range(calls[t][g].got) : g \in DOMAIN groups[t]} |-> Count(t, e)]
              = [e \in Range(TopK(t)) |-> 1]
<1>1. Grouping(t, groups[t], Len(TopK(t))) /\ depth[t] > DenseLayers
  BY DEF FleetInv, GroupInv, GroupOK
<1>2. DOMAIN TopK(t) = 1..Len(TopK(t))
  BY <1>1, RoutedFacts DEF FleetInv
<1>3. ASSUME NEW g \in DOMAIN groups[t] PROVE calls[t][g].got = groups[t][g]
  <2>1. g \in Units /\ Batched(t, g) /\ calls[t][g].at = "ok"
    BY <1>1 DEF Grouping, Batched
  <2>2. EndedOK(t, g, calls[t][g])
    BY <2>1, CallKinds DEF FleetInv, CallInv, CallOK, LiveOK, Over
  <2> QED BY <2>1, <2>2 DEF EndedOK
<1>4. \A e : e \in Range(TopK(t)) <=> \E g \in DOMAIN groups[t] : e \in Range(groups[t][g])
  <2>1. ASSUME NEW e \in Range(TopK(t)) PROVE \E g \in DOMAIN groups[t] : e \in Range(groups[t][g])
    <3>1. PICK i \in 1..Len(TopK(t)) : e = TopK(t)[i]
      BY <1>2, <2>1 DEF Range
    <3> QED BY <1>1, <3>1 DEF Grouping
  <2>2. ASSUME NEW g \in DOMAIN groups[t], NEW e \in Range(groups[t][g]) PROVE e \in Range(TopK(t))
    <3>1. PICK i \in 1..Len(TopK(t)) : e = TopK(t)[i]
      BY <1>1 DEF Grouping
    <3> QED BY <1>2, <3>1 DEF Range
  <2> QED BY <2>1, <2>2
<1>5. UNION {Range(calls[t][g].got) : g \in DOMAIN groups[t]} = Range(TopK(t))
  BY <1>3, <1>4
<1>6. ASSUME NEW e \in Range(TopK(t)) PROVE Count(t, e) = 1
  <2> DEFINE rows == UNION {{<<g, i>> : i \in {j \in DOMAIN calls[t][g].got :
                                                     calls[t][g].got[j] = e}} :
                               g \in DOMAIN groups[t]}
  <2>1. PICK g \in DOMAIN groups[t] : e \in Range(groups[t][g])
    BY <1>4
  <2>2. ASSUME NEW h \in DOMAIN groups[t], h # g PROVE e \notin Range(groups[t][h])
    BY <1>1, <2>1, <2>2 DEF Grouping
  <2>3. PICK i \in DOMAIN groups[t][g] : groups[t][g][i] = e
    BY <2>1 DEF Range
  <2>4. rows = {<<g, i>>}
    <3>1. <<g, i>> \in rows
      BY <1>3, <2>1, <2>3
    <3>2. ASSUME NEW r \in rows PROVE r = <<g, i>>
      <4>1. PICK h \in DOMAIN groups[t] :
               \E j \in DOMAIN groups[t][h] : r = <<h, j>> /\ groups[t][h][j] = e
        BY <1>3
      <4>2. PICK j \in DOMAIN groups[t][h] : r = <<h, j>> /\ groups[t][h][j] = e
        BY <4>1
      <4>3. h = g
        BY <2>2, <4>2 DEF Range
      <4>4. j = i
        BY <1>1, <2>1, <2>3, <4>2, <4>3 DEF Grouping, Unrepeated
      <4> QED BY <4>2, <4>3, <4>4
    <3> QED BY <3>1, <3>2
  <2>5. Cardinality({<<g, i>>}) = 1
    BY FS_Singleton
  <2> QED BY <2>4, <2>5 DEF Count
<1> QED BY <1>5, <1>6

\* The sum is of what the consoles were told to give, and the token moves on, or it fails.
LEMMA ReduceStep ==
    ASSUME FleetInv, NEW t \in Tokens, Reduce(t)
    PROVE  FleetInv'
<1>1. /\ at[t] = "fan" /\ UNCHANGED <<routed, down, consoles>> /\ faulty' = faulty
      /\ groups' = [groups EXCEPT ![t] = <<>>]
      /\ calls' = [calls EXCEPT ![t] = [u \in Units |-> NoCall]]
  BY DEF Reduce, faults
<1>2. faulty' \in BOOLEAN /\ (faulty => faulty')
  BY <1>1 DEF FleetInv, FleetTypeOK
<1>3. sum = [s \in Tokens |-> sum[s]] /\ SumComplete
  BY DEF FleetInv, FleetTypeOK
<1>4. CASE \A g \in DOMAIN groups[t] : calls[t][g].at = "ok"
  <2> PICK new : new = [layer |-> Layer(t), counts |-> [e \in Range(TopK(t)) |-> 1]]
    OBVIOUS
  <2>1. sum' = [sum EXCEPT ![t] = new]
    BY <1>1, <1>4, RowsOnce DEF Reduce
  <2>2. sum' = [s \in Tokens |-> sum'[s]] /\ sum'[t] = new
        /\ \A s \in Tokens : s # t => sum'[s] = sum[s]
    BY <1>3, <2>1
  <2>3. SumComplete'
    <3>1. new.counts = [e \in Range(Routed[t][new.layer]) |-> 1]
      BY DEF TopK
    <3>2. \A s \in Tokens : s # t => sum'[s] = sum[s]
      BY <2>2
    <3> QED BY <1>3, <2>2, <3>1, <3>2 DEF SumComplete
  <2>4. NextLayer(t)
    BY <1>4 DEF Reduce
  <2>5. \E to \in {"start", "send", "block", "route", "output", "failed"} :
           /\ at' = [at EXCEPT ![t] = to]
           /\ to = "failed" => faulty'
           /\ to = "route" => depth[t] > DenseLayers
           /\ \/ UNCHANGED depth /\ (at[t] # "fan" \/ to \in {"output", "failed"})
              \/ to = "start" /\ depth[t] # Len(Layers) /\ depth' = [depth EXCEPT ![t] = @ + 1]
    BY <2>4 DEF NextLayer, Goto
  <2>6. at[t] \in {"start", "send", "block", "fan"}
    BY <1>1
  <2> HIDE DEF FleetInv
  <2> QED BY <1>1, <1>2, <2>2, <2>3, <2>5, <2>6, TokenMoves
<1>5. CASE ~(\A g \in DOMAIN groups[t] : calls[t][g].at = "ok")
  <2>1. at' = [at EXCEPT ![t] = "failed"] /\ UNCHANGED <<sum, depth>>
    BY <1>5 DEF Reduce, Goto
  <2>2. faulty'
    <3>1. PICK g \in DOMAIN groups[t] : calls[t][g].at # "ok" /\ calls[t][g].at \in Over
      BY <1>5 DEF Reduce
    <3>2. g \in Units /\ Batched(t, g)
      BY <1>1 DEF Batched, FleetInv, GroupInv, GroupOK, Grouping
    <3>3. faulty
      BY <3>1, <3>2 DEF FleetInv, Quiet, QuietCall, Over
    <3> QED BY <1>1, <3>3
  <2>3. sum' = [s \in Tokens |-> sum'[s]] /\ SumComplete'
    BY <1>3, <2>1, SumsKept
  <2>4. \E to \in {"start", "send", "block", "route", "output", "failed"} :
           /\ at' = [at EXCEPT ![t] = to]
           /\ to = "failed" => faulty'
           /\ to = "route" => depth[t] > DenseLayers
           /\ \/ UNCHANGED depth /\ (at[t] # "fan" \/ to \in {"output", "failed"})
              \/ to = "start" /\ depth[t] # Len(Layers) /\ depth' = [depth EXCEPT ![t] = @ + 1]
    BY <2>1, <2>2
  <2>5. at[t] \in {"start", "send", "block", "fan"}
    BY <1>1
  <2> HIDE DEF FleetInv
  <2> QED BY <1>1, <1>2, <2>3, <2>4, <2>5, TokenMoves
<1> QED BY <1>4, <1>5

-----------------------------------------------------------------------------
\* Every step keeps the invariant.
LEMMA FleetStep == FleetInv /\ [Next]_vars => FleetInv'
<1> SUFFICES ASSUME FleetInv, [Next]_vars PROVE FleetInv'
  OBVIOUS
<1>1. ASSUME NEW t \in Tokens, TokenStep(t) PROVE FleetInv'
  BY <1>1, AskHostStep, WriteHostStep, GroupStep, ReduceStep DEF TokenStep
<1>2. ASSUME NEW t \in Tokens, HostAnswers(t) \/ HostFails(t) PROVE FleetInv'
  BY <1>2, HostAnswersStep, HostFailsStep
<1>3. ASSUME NEW t \in Tokens, NEW g \in Units, CallStep(t, g) PROVE FleetInv'
  BY <1>3, AskStep, WriteStep, ReadStep, MarkDownStep, DropStep DEF CallStep
<1>4. ASSUME NEW t \in Tokens, NEW g \in Units, Timeout(t, g) PROVE FleetInv'
  BY <1>4, TimeoutStep
<1>5. ASSUME NodeStep PROVE FleetInv'
  BY <1>5, NodeAnswersStep, NodeFailsStep, NodeForgetsStep DEF NodeStep
<1>6. ASSUME NEW u \in Units, Lose(u) \/ Return(u) \/ Stall(u) \/ Resume(u) PROVE FleetInv'
  <2>1. CASE Stall(u) \/ Resume(u)
    <3>1. UNCHANGED <<at, depth, routed, groups, calls, sum, down, up, runs, faulty>>
      BY <2>1 DEF Stall, Resume, tokens, faults
    <3> HIDE DEF FleetInv
    <3> QED BY <3>1, NothingMoves
  <2> QED BY <1>6, <2>1, LoseStep, ReturnStep
<1>7. CASE UNCHANGED vars
  <2>1. UNCHANGED <<at, depth, routed, groups, calls, sum, down, up, runs, faulty>>
    BY <1>7 DEF vars, tokens, consoles, faults
  <2> HIDE DEF FleetInv
  <2> QED BY <2>1, NothingMoves
<1> HIDE DEF FleetInv
<1> QED BY <1>1, <1>2, <1>3, <1>4, <1>5, <1>6, <1>7 DEF Next

\* So it always holds.
LEMMA FleetAlways == Spec => []FleetInv
<1> HIDE DEF FleetInv
<1> QED BY FleetInit, FleetStep, PTL DEF Spec

\* The variables of a fleet have their types (coordinator.py, dispatch.py, dedup.py).
THEOREM FleetTyped == Spec => []FleetTypeOK
<1>1. FleetInv => FleetTypeOK
  BY DEF FleetInv
<1> QED BY <1>1, FleetAlways, PTL

\* The sum of a layer counts every routed expert once and no other, whatever was retried,
\* replayed or taken over (ShelfCoordinator.run_layer).
THEOREM SumsAreComplete == Spec => []SumComplete
<1>1. FleetInv => SumComplete
  BY DEF FleetInv
<1> QED BY <1>1, FleetAlways, PTL

\* No console is asked for an expert it does not hold (_owner, _replica_for).
THEOREM OnlyHoldersAsked == Spec => []HoldersAsked
<1>1. FleetInv => HoldersAsked
  <2> SUFFICES ASSUME FleetInv, NEW t \in Tokens, NEW g \in DOMAIN groups[t],
                      calls[t][g].at = "wait", NEW e \in Range(groups[t][g])
               PROVE  calls[t][g].to \in Range(Holders(Layer(t), e))
    BY DEF HoldersAsked
  <2>1. DOMAIN << >> = 1..Len(<< >>) /\ Len(<< >>) = 0
    OBVIOUS
  <2>2. g \in Units
    BY <2>1 DEF FleetInv, GroupInv, GroupOK, Grouping
  <2> QED BY <2>2, CallFacts DEF HoldsAll
<1> QED BY <1>1, FleetAlways, PTL

\* Tokens that share the consoles do not make each other fail.
THEOREM NoUncausedFailure == Spec => []NoFailureWithoutFault
<1>1. FleetInv => NoFailureWithoutFault
  BY DEF FleetInv, Quiet, NoFailureWithoutFault
<1> QED BY <1>1, FleetAlways, PTL
=============================================================================

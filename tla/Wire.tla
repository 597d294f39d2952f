-------------------------------- MODULE Wire --------------------------------
(***************************************************************************)
(* A message of either cluster on its way: it is encoded, may lose or gain *)
(* bytes at its end, and is decoded.  (A socket loses no bytes inside a    *)
(* frame; what can disagree is the length a peer announces and what its    *)
(* payload holds.)  The PS3 cluster's file is a message too: one tool      *)
(* writes it, and each tier's process reads its part of the tree from it.  *)
(***************************************************************************)
EXTENDS Integers, Sequences, FiniteSets

CONSTANTS Garbage, NoId, MaxPayload, MaxFrame, MaxEntries, MaxString, MaxRequestId,
          Messages   \* kind -> the messages of that kind that are sent

C == INSTANCE Cells
G == INSTANCE Gen9Wire
P == INSTANCE P3xcWire
D == INSTANCE Ps3Deployment

VARIABLES kind,      \* the codec
          msg,       \* what is sent
          payload,   \* the bytes of it
          resized,   \* whether they lost or gained some
          result     \* what was decoded

vars == <<kind, msg, payload, resized, result>>

Pending == [raised |-> FALSE]

Init ==
    /\ kind \in DOMAIN Messages
    /\ msg \in Messages[kind]
    /\ payload = <<>>
    /\ resized = FALSE
    /\ result = Pending

Files == {"cluster", "document"}

Encoded(k, m) ==
    CASE k = "header" -> G!EncodeHeader(m)
      [] k = "batch"  -> G!EncodeBatch(m)
      [] k = "rows"   -> G!EncodeRows(m)
      [] k = "shard"  -> G!EncodeShard(m)
      [] k = "hello"  -> G!EncodeHello(m)
      [] k = "BREQ"   -> P!EncodeRequest(m)
      [] k = "sum"    -> P!EncodeSum(m)
      [] k = "BRSP"   -> P!EncodeContributions(m)
      [] k = "BERR"   -> P!EncodeError(m)
      [] k = "cluster" -> IF D!Generated(m) = D!Rejected THEN C!Rejected
                          ELSE <<"file", D!ToDict(D!Generated(m))>>
      [] k = "document" -> <<"file", m>>

Decoded(k, p) ==
    CASE k = "header" -> G!DecodeHeader(p)
      [] k = "batch"  -> G!DecodeBatch(p)
      [] k = "rows"   -> G!DecodeRows(p)
      [] k = "shard"  -> G!DecodeShard(p)
      [] k = "hello"  -> G!DecodeHello(p)
      [] k \in Files -> D!FromDict(p[2])
      [] OTHER -> IF P!ReadFrame(C!Size(p), p) = C!Rejected THEN C!Rejected
                  ELSE P!DecodeBatch(p)

Encode ==
    /\ result = Pending
    /\ payload = <<>>
    /\ LET p == Encoded(kind, msg) IN
       IF p = C!Rejected THEN result' = C!Rejected /\ UNCHANGED payload
                         ELSE payload' = p /\ UNCHANGED result
    /\ UNCHANGED <<kind, msg, resized>>

Resize ==
    /\ result = Pending
    /\ payload # <<>>
    /\ ~resized
    /\ kind \notin Files
    /\ resized' = TRUE
    /\ \/ \E n \in 1..C!Size(payload) - 1 : payload' = C!Cut(payload, n)
       \/ payload' = payload \o C!Cell(1, 0)
    /\ UNCHANGED <<kind, msg, result>>

Decode ==
    /\ result = Pending
    /\ payload # <<>>
    /\ result' = Decoded(kind, payload)
    /\ UNCHANGED <<kind, msg, payload, resized>>

Next == Encode \/ Resize \/ Decode

Spec == Init /\ [][Next]_vars

-----------------------------------------------------------------------------
\* What a message is after the wire: the texts of an error are clipped.
Carried ==
    CASE kind = "BERR" ->
           [msg EXCEPT !.detail = P!Clip(@),
                       !.failures = [i \in DOMAIN @ |-> [@[i] EXCEPT !.node = P!Clip(@)]]]
      [] kind = "cluster" -> D!Generated(msg)
      [] OTHER -> msg

\* A message the encoder let through is decoded to itself: the two ends agree on every
\* offset, width, flag and limit.
RoundTrip ==
    payload # <<>> /\ ~resized /\ result # Pending /\ kind # "document" => result = Carried

\* The forms a payload may take when it ends early or late and is accepted still: the
\* last text of a hello is shortened, the id of an error goes missing, and a shard's
\* header does not look at what comes behind it.
Tolerated ==
    \/ kind = "hello" /\ [result EXCEPT !.texts[4] = <<>>] = [msg EXCEPT !.texts[4] = <<>>]
    \/ kind = "BERR" /\ result = [Carried EXCEPT !.id = NoId]
    \/ kind = "shard" /\ result = msg

\* No payload that is shorter or longer than it was made is taken for a batch, for rows
\* or for a sum: a lost tail never becomes a narrower activation or fewer experts.
ResizedRejected == resized /\ result # Pending => result = C!Rejected \/ Tolerated

-----------------------------------------------------------------------------
(* What the tiers make of one cluster file *)

\* Who is asked for each position of a list of consoles, when the layer coordinator groups
\* it by region and each region by head, or the coordinator by head at once.
Asked(c, nodes) ==
    IF c.regions = <<>>
    THEN UNION {{<<p, b.peer>> : p \in D!Range(b.positions)} :
                  b \in D!Range(D!GroupBy(D!Plan(c, {}), nodes))}
    ELSE UNION {LET part == [i \in DOMAIN b.positions |-> nodes[b.positions[i]]]
                IN  UNION {{<<b.positions[i], h.peer>> : i \in D!Range(h.positions)} :
                             h \in D!Range(D!GroupBy(D!Plan(c, {b.peer}), part))} :
                  b \in D!Range(D!GroupBy(D!TieredPlan(c), nodes))}

\* The head g, started from the same file, runs the expert on the same console and knows
\* where it is; and whoever is above g knows where g is.
Runs(c, g, k, node) ==
    /\ k \in DOMAIN D!Placement(c, {g}) /\ D!Placement(c, {g})[k].node = node
    /\ \E m \in D!Range(D!Group(c, g).members) :
          m.node = node /\ D!ExpertEndpoints(c, {g})[node] = m.at
    /\ IF c.regions = <<>> THEN g \in DOMAIN D!GroupEndpoints(c, {})
       ELSE \E r \in D!Range(c.regions) : /\ r.id = D!TieredPlan(c)[node]
                                          /\ g \in DOMAIN D!GroupEndpoints(c, {r.id})

Routed(c) == {D!Placement(c, {})[k].node : k \in DOMAIN D!Placement(c, {})}

\* A cluster file that is accepted gives every expert one owner at every tier: whatever
\* consoles a token needs, each position of the list is asked of one head, the head that
\* runs that expert, and its contribution is in the reduction once.
OneOwner ==
    kind \in Files /\ result # Pending /\ result # C!Rejected =>
      \A picks \in SUBSET Routed(result) :
        LET nodes == D!SetToSortSeq(picks, LAMBDA a, b : a > b)
            asked == Asked(result, nodes)
            sum   == D!HierarchicalReduce(nodes, nodes, D!Plan(result, {}))
        IN  /\ Cardinality(asked) = Len(nodes)
            /\ {a[1] : a \in asked} = DOMAIN nodes
            /\ \A a \in asked, k \in DOMAIN D!Placement(result, {}) :
                 D!Placement(result, {})[k].node = nodes[a[1]] => Runs(result, a[2], k, nodes[a[1]])
            /\ D!Once(D!FlattenSeq(sum)) /\ D!Range(D!FlattenSeq(sum)) = picks

\* The addresses the generator numbers off, standbys included, never collide in a tier.
AddressesDistinct ==
    kind = "cluster" /\ result # Pending /\ result # C!Rejected =>
      \A tier \in {result.subclusters, result.regions} :
        D!Once(D!FlattenSeq([i \in DOMAIN tier |-> D!Endpoints(tier[i])]))

=============================================================================

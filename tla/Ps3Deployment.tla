--------------------------- MODULE Ps3Deployment ---------------------------
(***************************************************************************)
(* deployment.py and subcluster.py: the cluster file that the tools write, *)
(* and what a layer coordinator, a regional coordinator and a head server  *)
(* each make of it.  An address is <<host, port>>; a group, a region and a *)
(* console are numbered as their names sort.  An argument that may be None *)
(* is a set of at most one element.                                        *)
(***************************************************************************)
EXTENDS Integers, Sequences, SequencesExt, FiniteSetsExt, Functions

\* The outcome of a constructor that raised.
Rejected == [raised |-> TRUE]

Field(doc, k, d) == IF k \in DOMAIN doc THEN doc[k] ELSE d

-----------------------------------------------------------------------------
(* ClusterConfig *)

Once(seq) == \A i, j \in DOMAIN seq : seq[i] = seq[j] => i = j

MembersOf(specs) == FlattenSeq([i \in DOMAIN specs |-> specs[i].members])

\* Fault: a console may be a member of two heads.
ValidShared(c) ==
    LET groups  == [i \in DOMAIN c.subclusters |-> c.subclusters[i].id]
        fronted == FlattenSeq([i \in DOMAIN c.regions |-> c.regions[i].subclusters])
    IN  /\ c.size >= 1
        /\ Once(groups) /\ Once(fronted)
        /\ \A i \in DOMAIN c.subclusters : Len(c.subclusters[i].members) <= c.size
        /\ Range(fronted) \subseteq Range(groups)
        /\ c.regions # <<>> => Range(fronted) = Range(groups)

Valid(c) ==
    LET groups  == [i \in DOMAIN c.subclusters |-> c.subclusters[i].id]
        nodes   == [i \in DOMAIN MembersOf(c.subclusters) |-> MembersOf(c.subclusters)[i].node]
        regions == [i \in DOMAIN c.regions |-> c.regions[i].id]
        fronted == FlattenSeq([i \in DOMAIN c.regions |-> c.regions[i].subclusters])
    IN  /\ c.size >= 1
        /\ Once(groups) /\ Once(nodes) /\ Once(regions) /\ Once(fronted)
        /\ \A i \in DOMAIN c.subclusters : Len(c.subclusters[i].members) <= c.size
        /\ Range(fronted) \subseteq Range(groups)
        /\ c.regions # <<>> => Range(fronted) = Range(groups)

Config(c) == IF Valid(c) THEN c ELSE Rejected

Group(c, g) == CHOOSE s \in Range(c.subclusters) : s.id = g
Region(c, r) == CHOOSE s \in Range(c.regions) : s.id = r

\* The subclusters a call is about: one group's, or all.
Specs(c, group) == IF group = {} THEN c.subclusters
                   ELSE SelectSeq(c.subclusters, LAMBDA s : s.id \in group)

\* Which console runs an expert, and which stand by: of two members, the later.
Placement(c, group) ==
    LET ms == MembersOf(Specs(c, group))
        key(m) == <<m.layer, m.expert>>
        last(k) == CHOOSE i \in DOMAIN ms : /\ key(ms[i]) = k
                                            /\ \A j \in DOMAIN ms : key(ms[j]) = k => j <= i
    IN  [k \in {key(m) : m \in Range(ms)} |->
           [node |-> ms[last(k)].node,
            replicas |-> UNION {{r.node : r \in Range(m.replicas)} :
                                  m \in {n \in Range(ms) : key(n) = k}}]]

ExpertEndpoints(c, group) ==
    LET named == FlattenSeq([i \in DOMAIN MembersOf(Specs(c, group)) |->
                   LET m == MembersOf(Specs(c, group))[i]
                   IN  <<[node |-> m.node, at |-> m.at]>> \o m.replicas])
        last(n) == CHOOSE i \in DOMAIN named :
                       named[i].node = n /\ \A j \in DOMAIN named : named[j].node = n => j <= i
    IN  [n \in {e.node : e \in Range(named)} |-> named[last(n)].at]

Endpoints(spec) == <<spec.at>> \o spec.standby

Wanted(c, region) ==
    IF region = {} THEN c.subclusters
    ELSE SelectSeq(c.subclusters,
                   LAMBDA s : \E r \in region : s.id \in Range(Region(c, r).subclusters))

GroupEndpoints(c, region) ==
    [g \in {s.id : s \in Range(Wanted(c, region))} |-> Endpoints(Group(c, g))]

-----------------------------------------------------------------------------
(* Plans: console -> the peer to call for it *)

Plan(c, region) ==
    LET specs == Range(Wanted(c, region))
    IN  [n \in UNION {{m.node : m \in Range(s.members)} : s \in specs} |->
           (CHOOSE s \in specs : \E m \in Range(s.members) : m.node = n).id]

TieredPlan(c) ==
    [n \in DOMAIN Plan(c, {}) |->
       (CHOOSE r \in Range(c.regions) : Plan(c, {})[n] \in Range(r.subclusters)).id]

\* The positions of a list of consoles by the peer that serves them, in the peers' order.
GroupBy(plan, nodes) ==
    LET peers == SetToSortSeq({plan[n] : n \in Range(nodes)}, LAMBDA a, b : a < b)
    IN  [i \in DOMAIN peers |->
           [peer |-> peers[i],
            positions |-> SelectSeq([p \in DOMAIN nodes |-> p],
                                    LAMBDA p : plan[nodes[p]] = peers[i])]]

\* A sum in the order it is made: the contributions at a peer's positions, those that came,
\* and then the peers' partial sums.
PartialReduce(contributions, positions) ==
    LET kept == SelectSeq(positions, LAMBDA p : p \in DOMAIN contributions)
    IN  FoldLeft(LAMBDA acc, p : Append(acc, contributions[p]), <<>>, kept)

HierarchicalReduce(contributions, nodes, plan) ==
    LET buckets == GroupBy(plan, nodes)
        partials == [i \in DOMAIN buckets |-> PartialReduce(contributions, buckets[i].positions)]
    IN  SelectSeq(partials, LAMBDA s : s # <<>>)

-----------------------------------------------------------------------------
(* The file *)

Unless(k, v, none) == IF v = none THEN <<>> ELSE [key \in {k} |-> v]

With(f, g) == [k \in DOMAIN f \cup DOMAIN g |-> IF k \in DOMAIN f THEN f[k] ELSE g[k]]

MemberDoc(m) ==
    With([layer |-> m.layer, expert |-> m.expert, node |-> m.node, at |-> m.at],
         Unless("replicas", m.replicas, <<>>))

ToDict(c) ==
    With([size |-> c.size,
          subclusters |-> [i \in DOMAIN c.subclusters |->
             LET s == c.subclusters[i]
             IN  With([id |-> s.id, at |-> s.at,
                       members |-> [j \in DOMAIN s.members |-> MemberDoc(s.members[j])]],
                      Unless("standby", s.standby, <<>>))]],
         Unless("regions",
                [i \in DOMAIN c.regions |->
                   LET s == c.regions[i]
                   IN  With([id |-> s.id, at |-> s.at, subclusters |-> s.subclusters],
                            Unless("standby", s.standby, <<>>))], <<>>))

FromDict(doc) ==
    LET subs == Field(doc, "subclusters", <<>>)
        regs == Field(doc, "regions", <<>>)
        member(m) == [layer |-> m.layer, expert |-> m.expert, node |-> m.node, at |-> m.at,
                      replicas |-> Field(m, "replicas", <<>>)]
    IN  IF subs = <<>> THEN Rejected
        ELSE Config([size |-> Field(doc, "size", 22),
                     subclusters |-> [i \in DOMAIN subs |->
                        [id |-> subs[i].id, at |-> subs[i].at,
                         standby |-> Field(subs[i], "standby", <<>>),
                         members |-> [j \in DOMAIN Field(subs[i], "members", <<>>) |->
                                        member(subs[i].members[j])]]],
                     regions |-> [i \in DOMAIN regs |->
                        [id |-> regs[i].id, at |-> regs[i].at,
                         subclusters |-> Field(regs[i], "subclusters", <<>>),
                         standby |-> Field(regs[i], "standby", <<>>)]]])

-----------------------------------------------------------------------------
(* The generator: consoles in order, heads of up to size of them, and the   *)
(* heads dealt to regions                                                    *)

CeilDiv(a, b) == (a + b - 1) \div b

\* Each generation of standbys takes the next block of ports.
\* Fault: a generation starts at the last port of the one before it.
ExtraOverlapping(host, base, index, stride, count) ==
    [slot \in 1..count |-> <<host, base + (stride - 1) * slot + index>>]

ExtraAddresses(host, base, index, stride, count) ==
    [slot \in 1..count |-> <<host, base + stride * slot + index>>]

ForLayer(a) ==
    LET n == CeilDiv(a.experts, a.size)
        console(e) == [layer |-> a.layer, expert |-> e, node |-> e, at |-> <<"console", 9000 + e>>,
                       replicas |-> <<>>]
    IN  Config([size |-> a.size, regions |-> <<>>,
                subclusters |-> [i \in 1..n |->
                  [id |-> i - 1, at |-> <<"head", 8100 + i - 1>>,
                   standby |-> ExtraAddresses("head", 8100, i - 1, n, a.standby),
                   members |-> [j \in 1..Min({a.size, a.experts - (i - 1) * a.size}) |->
                                  console((i - 1) * a.size + j - 1)]]]])

WithRegions(c, a) ==
    LET heads == [i \in DOMAIN c.subclusters |-> c.subclusters[i].id]
        per   == CeilDiv(Len(heads), a.regions)
        all   == [i \in 1..a.regions |->
                    [id |-> i - 1, at |-> <<"region", 8200 + i - 1>>,
                     subclusters |-> SubSeq(heads, (i - 1) * per + 1, Min({i * per, Len(heads)})),
                     standby |-> ExtraAddresses("region", 8200, i - 1, a.regions, a.rstandby)]]
    IN  IF a.regions < 1 \/ a.regions > Len(heads) THEN Rejected
        ELSE Config([c EXCEPT !.regions = SelectSeq(all, LAMBDA r : r.subclusters # <<>>)])

Generated(a) == IF a.tiers = 2 THEN ForLayer(a) ELSE WithRegions(ForLayer(a), a)

=============================================================================

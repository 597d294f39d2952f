------------------------------- MODULE MCWire -------------------------------
(***************************************************************************)
(* Messages of every kind, with and without ids, at and over the limits.   *)
(***************************************************************************)
EXTENDS Wire, TLC

Ids    == {NoId, 0, 7}
Vector == {<<>>, <<5>>, <<5, 6>>}
Lists  == {<<>>, <<1>>, <<2, 1>>, <<3, 1, 2>>}
Texts  == {<<>>, <<1, 2>>, <<1, 2, 3>>}

Rows(n, w) == [i \in 1..n |-> [j \in 1..w |-> 10 * i + j]]

Headers == [type : {1, 3, 14}, flags : {0, 8}, request : {1, 300}, layer : {0, 2},
            dtype : {0, 3}, length : {0, MaxPayload, MaxPayload + 1}]
Batches == {m \in [ids : Lists, gates : Lists, act : Vector, batch : Ids] : m.ids # <<>>}
Replies == {[ids |-> l, rows |-> Rows(n, w)] :
              l \in {<<1>>, <<2, 1>>, <<3, 1, 2>>}, n \in 1..3, w \in 0..2}
Heads   == [layer : {0}, first : {4}, n : {2}, hidden : {8}, inter : {16}, dtype : {0, 3},
            tier : Texts]
Hellos  == {[weight |-> 9, fast |-> 4, gflops |-> 2, texts |-> <<a, <<7>>, b, c>>] :
              a \in Texts, b \in Texts, c \in Texts}

Entry(e) == [expert |-> e, replica |-> e % 2, gate |-> 10 + e]
Requests == {[layer |-> 3, x |-> x, entries |-> [i \in DOMAIN l |-> Entry(l[i])], deadline |-> d,
              fast |-> f, id |-> id] :
               x \in {<<>>, <<5, 6>>}, l \in Lists, d \in {9}, f \in BOOLEAN, id \in Ids}
\* At and over the range of each field.
Edges == {[layer |-> 3, x |-> <<5>>, entries |-> <<[expert |-> e, replica |-> r, gate |-> 1]>>,
           deadline |-> d, fast |-> FALSE, id |-> id] :
            e \in {65535, 65536}, r \in {255, 256}, d \in {3600000, 3600001}, id \in {7, 8}}
Sums     == [layer : {3}, sum : Vector, n : 0..3, id : Ids]
Contribs == {[layer |-> 3, rows |-> Rows(n, w), experts |-> l, id |-> id] :
               n \in 1..3, w \in 1..2, l \in Lists \cup {<<65536>>}, id \in Ids \cup {8}}
Failures == {<<>>, <<[expert |-> 1, reason |-> 3, node |-> <<1, 2, 3>>]>>,
             <<[expert |-> 1, reason |-> 3, node |-> <<>>],
               [expert |-> 2, reason |-> 4, node |-> <<1>>]>>}
Errors   == [layer : {3}, code : {4}, failures : Failures, detail : Texts, id : Ids]

Clusters == [layer : {3}, experts : 1..6, size : 1..3, standby : 0..2, tiers : {2}]
            \cup [layer : {3}, experts : 1..6, size : 1..3, standby : 0..1, tiers : {3},
                  regions : 1..4, rstandby : 0..2]

Console(n, e) == [layer |-> 3, expert |-> e, node |-> n, at |-> <<"console", 9000 + n>>]
Spare(n, e)   == Console(n, e) @@ [replicas |-> <<[node |-> n + 100, at |-> <<"spare", n>>]>>]
Front(g, ms)   == [id |-> g, at |-> <<"head", g>>, members |-> ms]
Over(r, gs)   == [id |-> r, at |-> <<"region", r>>, subclusters |-> gs]

Heads2 == {<<Front(0, <<Console(0, 0), Console(1, 1)>>), Front(1, <<Console(2, 2), Spare(3, 3)>>)>>,
           <<Front(1, <<Console(3, 0), Spare(1, 1)>>), Front(0, <<Console(2, 0)>>)>>,
           <<Front(0, <<Console(0, 0), Console(1, 1)>>), Front(1, <<Console(1, 2)>>)>>,
           <<Front(0, <<Console(0, 0)>>), Front(0, <<Console(1, 1)>>)>>,
           <<[id |-> 0, at |-> <<"head", 0>>]>>,
           <<Front(0, <<Console(0, 0), Console(1, 0), Console(2, 2)>>)>>}
Regions == {<<>>, <<Over(0, <<0>>), Over(1, <<1>>)>>, <<Over(1, <<0>>), Over(0, <<1>>)>>,
            <<Over(0, <<1, 0>>)>>, <<Over(0, <<0>>)>>, <<Over(0, <<0, 1>>), Over(1, <<1>>)>>,
            <<Over(0, <<0>>), Over(0, <<1>>)>>, <<Over(0, <<0, 1, 2>>)>>}
Hand == [subclusters : Heads2, regions : Regions, size : {0, 2, 3}]
        \cup [subclusters : Heads2] \cup {[size |-> 3]}

All == "header" :> Headers @@ "batch" :> Batches @@ "rows" :> Replies @@ "shard" :> Heads
         @@ "hello" :> Hellos @@ "BREQ" :> Requests \cup Edges @@ "sum" :> Sums @@ "BRSP" :> Contribs
         @@ "BERR" :> Errors @@ "cluster" :> Clusters @@ "document" :> Hand
=============================================================================

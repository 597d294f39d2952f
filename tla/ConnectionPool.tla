--------------------------- MODULE ConnectionPool ---------------------------
(***************************************************************************)
(* The pool of connections to one peer: PersistentSocketTransport of       *)
(* ps3_cluster/transport.py.                                               *)
(*                                                                         *)
(* A process is one call of submit_raw and of the handle it returns.  A    *)
(* connection is named after the call that opened it.  The steps of        *)
(* _acquire are the two critical sections under _lock and, between them,   *)
(* one connect attempt after another outside it; the connection chosen is  *)
(* used only after the lock is left.  What happens on a connection is      *)
(* Connection.tla; here it is the calls in flight on it, the keys          *)
(* abandoned on it, and whether it is retired.                             *)
(*                                                                         *)
(* Abstracted: other peers share nothing with this one but the closing of  *)
(* the transport; a cooldown ends at any moment after it began; of equally *)
(* loaded connections any may be chosen, where the code takes the oldest;  *)
(* whether an endpoint accepts is open at every attempt.                   *)
(***************************************************************************)
EXTENDS Naturals, Sequences, FiniteSets, SequencesExt

CONSTANTS Calls,         \* requests to the peer
          Keys,          \* the correlation keys a request may have
          EndpointList,  \* the peer's endpoints, preferred first
          MaxConns,      \* max_connections_per_node
          None           \* "no connection"

Endpoints == ToSet(EndpointList)

ASSUME NoCallAssumption   == None \notin Calls
ASSUME MaxConnsAssumption == MaxConns \in Nat \ {0}
ASSUME EndpointAssumption == EndpointList \in Seq(Endpoints) \ {<<>>} /\ IsInjective(EndpointList)

VARIABLES shut,      \* _closed
          pool,      \* the connections in _pools for this peer
          closing,   \* the connections close() took out and has yet to close
          open,      \* the connections that are not retired
          endpoint,  \* the endpoint a connection was opened to
          poisoned,  \* the keys abandoned on each connection
          cooling,   \* endpoints in cooldown (_dead_until)
          pc,        \* where each call stands
          key,       \* the correlation key of each call
          todo,      \* endpoints the call has yet to try: the healthy ones and the others
          failures,  \* endpoints that refused the call
          conn       \* the connection the call has chosen

vars == <<shut, pool, closing, open, endpoint, poisoned, cooling, pc, key, todo,
          failures, conn>>

Ends == {"closed", "exhausted", "unreachable", "collision", "reply", "timeout", "lost"}

TypeOK ==
    /\ shut     \in BOOLEAN
    /\ pool     \subseteq Calls
    /\ closing  \subseteq Calls
    /\ open     \subseteq Calls
    /\ endpoint \in [Calls -> Endpoints \cup {None}]
    /\ poisoned \in [Calls -> SUBSET Keys]
    /\ cooling  \subseteq Endpoints
    /\ pc       \in [Calls -> {"new", "look", "connect", "add", "send", "wait"} \cup Ends]
    /\ key      \in [Calls -> Keys \cup {None}]
    /\ todo     \in [Calls -> [fresh : SUBSET Endpoints, dead : SUBSET Endpoints]]
    /\ failures \in [Calls -> SUBSET Endpoints]
    /\ conn     \in [Calls -> Calls \cup {None}]

\* No endpoint is left to try.
Nowhere == [fresh |-> {}, dead |-> {}]

Init ==
    /\ shut     = FALSE
    /\ pool     = {}
    /\ closing  = {}
    /\ open     = {}
    /\ endpoint = [c \in Calls |-> None]
    /\ poisoned = [c \in Calls |-> {}]
    /\ cooling  = {}
    /\ pc       = [c \in Calls |-> "new"]
    /\ key      = [c \in Calls |-> None]
    /\ todo     = [c \in Calls |-> Nowhere]
    /\ failures = [c \in Calls |-> {}]
    /\ conn     = [c \in Calls |-> None]

-----------------------------------------------------------------------------
GoTo(c, l) == pc' = [pc EXCEPT ![c] = l]

\* The connections with what they carry, and what only the call itself looks at.
Sockets == <<open, endpoint, poisoned>>
Local   == <<key, todo, failures, conn>>

InFlightOn(n) == {c \in Calls : pc[c] = "wait" /\ conn[c] = n /\ n \in open}

HoldsKey(n, k) == k \in poisoned[n] \cup {key[c] : c \in InFlightOn(n)}

\* Fault: endpoints in cooldown are left out instead of put last.
PreferredOnly == [fresh |-> Endpoints \ cooling, dead |-> {}]

\* _preferred: endpoints in cooldown go last, unless all of them are.
Preferred == [fresh |-> Endpoints \ cooling, dead |-> cooling]

\* The endpoint of a set that the peer's list names first.
First(S) ==
    EndpointList[CHOOSE i \in DOMAIN EndpointList :
        /\ EndpointList[i] \in S
        /\ \A j \in DOMAIN EndpointList : EndpointList[j] \in S => i <= j]

\* The endpoint _connect tries next.
Target(c) == First(IF todo[c].fresh # {} THEN todo[c].fresh ELSE todo[c].dead)

-----------------------------------------------------------------------------
\* A request with some key: _acquire reads the preference before it takes the lock.
Prefer(c) ==
    /\ pc[c] = "new"
    /\ \E k \in Keys : key' = [key EXCEPT ![c] = k]
    /\ todo' = [todo EXCEPT ![c] = Preferred]
    /\ GoTo(c, "look")
    /\ UNCHANGED <<shut, pool, closing, Sockets, cooling, failures, conn>>

\* The pool with its retired connections pruned, and those of it that may carry the key.
Live == pool \cap open

Free(c) == {n \in Live : ~HoldsKey(n, key[c])}

\* Sockets to an endpoint in cooldown come second.
Choice(c) ==
    LET healthy == {n \in Free(c) : endpoint[n] \notin cooling}
    IN  IF healthy # {} THEN healthy ELSE Free(c)

Idle(c) == {n \in Choice(c) : InFlightOn(n) = {}}

LeastLoaded(c) ==
    {n \in Choice(c) : \A m \in Choice(c) :
        Cardinality(InFlightOn(n)) <= Cardinality(InFlightOn(m))}

\* The first critical section: the transport is closed, ...
LookClosed(c) ==
    /\ pc[c] = "look"
    /\ shut
    /\ GoTo(c, "closed")
    /\ UNCHANGED <<shut, pool, closing, Sockets, cooling, Local>>

\* ... a connection is idle, or the pool is full and one is shared, ...
Reuse(c) ==
    /\ pc[c] = "look"
    /\ ~shut
    /\ pool' = Live
    /\ \E n \in IF Idle(c) # {} THEN Idle(c)
                ELSE IF Cardinality(Live) >= MaxConns THEN LeastLoaded(c) ELSE {} :
          conn' = [conn EXCEPT ![c] = n]
    /\ GoTo(c, "send")
    /\ UNCHANGED <<shut, closing, Sockets, cooling, key, todo, failures>>

\* ... the pool is full and the key is in use on every connection (PoolExhausted), ...
Exhausted(c) ==
    /\ pc[c] = "look"
    /\ ~shut
    /\ Cardinality(Live) >= MaxConns
    /\ Free(c) = {}
    /\ pool' = Live
    /\ GoTo(c, "exhausted")
    /\ UNCHANGED <<shut, closing, Sockets, cooling, Local>>

\* ... or there is room to grow: leave the lock and connect.
Grow(c) ==
    /\ pc[c] = "look"
    /\ ~shut
    /\ Idle(c) = {}
    /\ Cardinality(Live) < MaxConns
    /\ pool' = Live
    /\ GoTo(c, "connect")
    /\ UNCHANGED <<shut, closing, Sockets, cooling, Local>>

-----------------------------------------------------------------------------
\* _connect: the next endpoint refuses and goes into cooldown ...
ConnectRefused(c) ==
    /\ pc[c] = "connect"
    /\ todo[c] # Nowhere
    /\ cooling' = cooling \cup {Target(c)}
    /\ failures' = [failures EXCEPT ![c] = @ \cup {Target(c)}]
    /\ todo' = [todo EXCEPT ![c] = [fresh |-> @.fresh \ {Target(c)}, dead |-> @.dead \ {Target(c)}]]
    /\ UNCHANGED <<shut, pool, closing, Sockets, pc, key, conn>>

\* ... or accepts, and is marked live ...
ConnectAccepted(c) ==
    /\ pc[c] = "connect"
    /\ todo[c] # Nowhere
    /\ cooling' = cooling \ {Target(c)}
    /\ open' = open \cup {c}
    /\ endpoint' = [endpoint EXCEPT ![c] = Target(c)]
    /\ todo' = [todo EXCEPT ![c] = Nowhere]
    /\ failures' = [failures EXCEPT ![c] = {}]
    /\ GoTo(c, "add")
    /\ UNCHANGED <<shut, pool, closing, poisoned, key, conn>>

\* ... until none is left: NodeConnectError.
GiveUp(c) ==
    /\ pc[c] = "connect"
    /\ todo[c] = Nowhere
    /\ GoTo(c, "unreachable")
    /\ UNCHANGED <<shut, pool, closing, Sockets, cooling, Local>>

\* Fault: the transport's closing is not looked at again.
AddBlindly(c) ==
    /\ pc[c] = "add"
    /\ pool' = pool \cup {c}
    /\ conn' = [conn EXCEPT ![c] = c]
    /\ GoTo(c, "send")
    /\ UNCHANGED <<shut, closing, Sockets, cooling, key, todo, failures>>

\* The second critical section: join the pool ...
Add(c) ==
    /\ pc[c] = "add"
    /\ ~shut
    /\ pool' = pool \cup {c}
    /\ conn' = [conn EXCEPT ![c] = c]
    /\ GoTo(c, "send")
    /\ UNCHANGED <<shut, closing, Sockets, cooling, key, todo, failures>>

\* ... or, if the transport was closed meanwhile, close the connection.
AddClosed(c) ==
    /\ pc[c] = "add"
    /\ shut
    /\ open' = open \ {c}
    /\ GoTo(c, "closed")
    /\ UNCHANGED <<shut, pool, closing, endpoint, poisoned, cooling, Local>>

-----------------------------------------------------------------------------
\* send on the chosen connection: it was retired meanwhile, or the key was taken.
SendFails(c) ==
    /\ pc[c] = "send"
    /\ conn[c] \notin open \/ HoldsKey(conn[c], key[c])
    /\ GoTo(c, IF conn[c] \notin open THEN "closed" ELSE "collision")
    /\ UNCHANGED <<shut, pool, closing, Sockets, cooling, Local>>

Send(c) ==
    /\ pc[c] = "send"
    /\ conn[c] \in open
    /\ ~HoldsKey(conn[c], key[c])
    /\ GoTo(c, "wait")
    /\ UNCHANGED <<shut, pool, closing, Sockets, cooling, Local>>

\* The wait ends with the reply, ...
Replied(c) ==
    /\ pc[c] = "wait"
    /\ conn[c] \in open
    /\ GoTo(c, "reply")
    /\ UNCHANGED <<shut, pool, closing, Sockets, cooling, Local>>

\* ... with a timeout, which abandons the key on this connection and (ping, call_batch)
\* may put its endpoint into cooldown, ...
TimedOut(c) ==
    /\ pc[c] = "wait"
    /\ poisoned' = [poisoned EXCEPT ![conn[c]] = @ \cup {key[c]}]
    /\ cooling' \in {cooling, cooling \cup {endpoint[conn[c]]}}
    /\ GoTo(c, "timeout")
    /\ UNCHANGED <<shut, pool, closing, open, endpoint, Local>>

\* ... or because the connection was retired.
Lost(c) ==
    /\ pc[c] = "wait"
    /\ conn[c] \notin open
    /\ cooling' \in {cooling, cooling \cup {endpoint[conn[c]]}}
    /\ GoTo(c, "lost")
    /\ UNCHANGED <<shut, pool, closing, Sockets, Local>>

-----------------------------------------------------------------------------
\* A connection retires itself: its peer went away.
Retire(n) ==
    /\ n \in open
    /\ open' = open \ {n}
    /\ UNCHANGED <<shut, pool, closing, endpoint, poisoned, cooling, pc, Local>>

\* close: take the pool out under the lock ...
Shutdown ==
    /\ ~shut
    /\ shut' = TRUE
    /\ pool' = {}
    /\ closing' = pool
    /\ UNCHANGED <<Sockets, cooling, pc, Local>>

\* ... and close its connections one by one after leaving it.
CloseOne(n) ==
    /\ n \in closing
    /\ closing' = closing \ {n}
    /\ open' = open \ {n}
    /\ UNCHANGED <<shut, pool, endpoint, poisoned, cooling, pc, Local>>

CooldownEnds(e) ==
    /\ e \in cooling
    /\ cooling' = cooling \ {e}
    /\ UNCHANGED <<shut, pool, closing, Sockets, pc, Local>>

-----------------------------------------------------------------------------
Next ==
    \/ \E c \in Calls :
          \/ Prefer(c) \/ LookClosed(c) \/ Reuse(c) \/ Exhausted(c) \/ Grow(c)
          \/ ConnectRefused(c) \/ ConnectAccepted(c) \/ GiveUp(c)
          \/ Add(c) \/ AddClosed(c)
          \/ SendFails(c) \/ Send(c) \/ Replied(c) \/ TimedOut(c) \/ Lost(c)
          \/ Retire(c) \/ CloseOne(c)
    \/ Shutdown
    \/ \E e \in Endpoints : CooldownEnds(e)

Spec == Init /\ [][Next]_vars

-----------------------------------------------------------------------------
(* Properties *)

\* No socket leaks: an open connection is in the pool of a transport that is not closed,
\* or on its way out of it, or in the hands of the call that opened it.
NoSocketLeak ==
    \A n \in open : (n \in pool /\ ~shut) \/ n \in closing \/ pc[n] = "add"

\* "every endpoint is still tried before the transport gives up": a call is told the peer
\* is unreachable only after each endpoint refused it, however stale the cooldowns it read.
EveryEndpointTried ==
    \A c \in Calls : pc[c] = "unreachable" => failures[c] = Endpoints
=============================================================================

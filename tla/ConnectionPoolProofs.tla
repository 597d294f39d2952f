------------------------ MODULE ConnectionPoolProofs ------------------------
(***************************************************************************)
(* What holds of the pool of a peer for any number of calls, keys,         *)
(* endpoints and connections.                                              *)
(***************************************************************************)
EXTENDS ConnectionPool, WellFoundedInduction, TLAPS

\* The endpoints a call has yet to try.
Untried(c) == todo[c].fresh \cup todo[c].dead

\* What close() has taken out it took once.
ClosingInv == ~shut => closing = {}

\* Until it has a connection a call has tried, or has yet to try, every endpoint.
TryingInv ==
    \A c \in Calls :
        /\ pc[c] \in {"look", "connect"} => failures[c] \cup Untried(c) = Endpoints
        /\ pc[c] = "unreachable" => failures[c] = Endpoints

\* A connection has an endpoint; whoever sends or waits has a key and such a connection.
ChosenInv ==
    /\ \A n \in pool \cup open : endpoint[n] \in Endpoints
    /\ \A c \in Calls :
          /\ pc[c] # "new" => key[c] \in Keys
          /\ pc[c] = "add" => endpoint[c] \in Endpoints
          /\ pc[c] \in {"send", "wait"} => conn[c] \in Calls /\ endpoint[conn[c]] \in Endpoints

IInv ==
    /\ TypeOK
    /\ ClosingInv
    /\ TryingInv
    /\ ChosenInv
    /\ NoSocketLeak

-----------------------------------------------------------------------------
\* The first of some endpoints is one of them.
LEMMA FirstType ==
    ASSUME NEW S \in SUBSET Endpoints, S # {}
    PROVE  First(S) \in S
<1> DEFINE I == {i \in DOMAIN EndpointList : EndpointList[i] \in S}
           R == {s \in Nat \X Nat : s[1] < s[2]}
<1>1. DOMAIN EndpointList \subseteq Nat
  BY EndpointAssumption
<1>2. PICK e \in S : TRUE
  OBVIOUS
<1>3. PICK i \in DOMAIN EndpointList : EndpointList[i] = e
  BY <1>2 DEF Endpoints, ToSet
<1>4. i \in I
  BY <1>2, <1>3
<1>5. IsWellFoundedOn(R, Nat)
  BY NatLessThanWellFounded DEF OpToRel
<1>6. PICK k \in I : \A j \in I : ~(<<j, k>> \in R)
  <2>1. I \subseteq Nat /\ I # {}
    BY <1>1, <1>4
  <2> HIDE DEF I, R
  <2> QED BY <1>5, <2>1, WFMin
<1>7. ASSUME NEW j \in I
      PROVE  k <= j
  <2>1. j \in Nat /\ k \in Nat
    BY <1>1
  <2>2. <<j, k>> \in R <=> j < k
    BY <2>1
  <2>3. ~(j < k)
    BY <2>2, <1>6
  <2> QED BY <2>1, <2>3
<1>8. QED
  BY <1>7 DEF First

\* The endpoint a call tries next is one it has yet to try.
LEMMA TargetType ==
    ASSUME TypeOK, NEW c \in Calls, todo[c] # Nowhere
    PROVE  Target(c) \in Untried(c) /\ Target(c) \in Endpoints
<1>1. /\ todo[c] \in [fresh : SUBSET Endpoints, dead : SUBSET Endpoints]
      /\ todo[c].fresh \in SUBSET Endpoints /\ todo[c].dead \in SUBSET Endpoints
  BY DEF TypeOK
<1>2. todo[c].fresh # {} \/ todo[c].dead # {}
  BY <1>1 DEF Nowhere
<1>3. Target(c) \in Untried(c)
  BY <1>1, <1>2, FirstType DEF Target, Untried
<1>4. QED
  BY <1>1, <1>3 DEF Untried

-----------------------------------------------------------------------------
\* The invariant holds of a transport nobody has used.
LEMMA InitInv == Init => IInv
<1> SUFFICES ASSUME Init PROVE IInv
  OBVIOUS
<1>1. TypeOK
  BY DEF Init, TypeOK, Nowhere
<1>2. ClosingInv /\ TryingInv /\ ChosenInv /\ NoSocketLeak
  BY DEF Init, ClosingInv, TryingInv, ChosenInv, NoSocketLeak
<1>3. QED
  BY <1>1, <1>2 DEF IInv

\* Every step keeps the invariant.
LEMMA StepInv ==
    ASSUME IInv, [Next]_vars
    PROVE  IInv'
<1> USE DEF IInv
<1>1. ASSUME NEW c \in Calls, Prefer(c) PROVE IInv'
  <2>1. Preferred \in [fresh : SUBSET Endpoints, dead : SUBSET Endpoints]
        /\ Preferred.fresh \cup Preferred.dead = Endpoints
    BY DEF Preferred, TypeOK
  <2>2. TypeOK'
    BY <1>1, <2>1 DEF Prefer, TypeOK, GoTo, Sockets
  <2>3. TryingInv'
    BY <1>1, <2>1 DEF Prefer, TypeOK, TryingInv, Untried, GoTo, Sockets
  <2>4. ChosenInv'
    BY <1>1 DEF Prefer, TypeOK, ChosenInv, GoTo, Sockets
  <2> QED BY <1>1, <2>2, <2>3, <2>4 DEF Prefer, TypeOK, ClosingInv, NoSocketLeak, GoTo, Sockets
<1>2. ASSUME NEW c \in Calls, LookClosed(c) \/ Exhausted(c) \/ Grow(c) \/ GiveUp(c) PROVE IInv'
  <2>1. /\ \E l \in {"closed", "exhausted", "connect", "unreachable"} :
              /\ pc' = [pc EXCEPT ![c] = l]
              /\ l = "unreachable" => pc[c] = "connect" /\ todo[c] = Nowhere
              /\ l = "connect" => pc[c] = "look"
              /\ pc[c] \in {"look", "connect"}
        /\ pool' = pool \/ pool' = Live
        /\ UNCHANGED <<shut, closing, Sockets, cooling, Local>>
    BY <1>2 DEF LookClosed, Exhausted, Grow, GiveUp, GoTo
  <2>2. TypeOK'
    BY <2>1 DEF TypeOK, Sockets, Local, Ends, Live
  <2>3. TryingInv'
    <3>1. todo[c] = Nowhere => Untried(c) = {}
      BY DEF Nowhere, Untried
    <3>2. failures' = failures /\ \A d \in Calls : Untried(d)' = Untried(d)
      BY <2>1 DEF Local, Untried
    <3>3. PICK l \in {"closed", "exhausted", "connect", "unreachable"} :
              /\ pc' = [pc EXCEPT ![c] = l]
              /\ l = "unreachable" => pc[c] = "connect" /\ todo[c] = Nowhere
              /\ l = "connect" => pc[c] = "look"
      BY <2>1
    <3>4. l = "unreachable" => failures[c] = Endpoints
      BY <3>1, <3>3 DEF TryingInv
    <3>5. pc \in [Calls -> {"new", "look", "connect", "add", "send", "wait"} \cup Ends]
      BY DEF TypeOK
    <3>6. ASSUME NEW d \in Calls
          PROVE  /\ pc'[d] \in {"look", "connect"} => failures[d] \cup Untried(d) = Endpoints
                 /\ pc'[d] = "unreachable" => failures[d] = Endpoints
      BY <3>3, <3>4, <3>5 DEF TryingInv
    <3> QED BY <3>2, <3>6 DEF TryingInv
  <2>4. NoSocketLeak' /\ ChosenInv'
    BY <2>1 DEF TypeOK, NoSocketLeak, ChosenInv, Live, Sockets, Local
  <2> QED BY <2>1, <2>2, <2>3, <2>4 DEF TypeOK, ClosingInv, Sockets, Local
<1>3. ASSUME NEW c \in Calls, Reuse(c) PROVE IInv'
  <2>1. PICK n \in pool : conn' = [conn EXCEPT ![c] = n]
    BY <1>3 DEF Reuse, Idle, LeastLoaded, Choice, Free, Live
  <2>2. pool' = Live /\ pc' = [pc EXCEPT ![c] = "send"] /\ pc[c] = "look"
        /\ UNCHANGED <<shut, closing, Sockets, cooling, key, todo, failures>>
    BY <1>3 DEF Reuse, GoTo
  <2>3. TypeOK'
    BY <2>1, <2>2 DEF TypeOK, Sockets, Live
  <2>4. TryingInv' /\ ClosingInv'
    BY <2>1, <2>2 DEF TypeOK, TryingInv, ClosingInv, Untried, Sockets
  <2>5. ChosenInv'
    BY <2>1, <2>2 DEF TypeOK, ChosenInv, Sockets, Live
  <2>6. NoSocketLeak'
    BY <2>2 DEF TypeOK, NoSocketLeak, Live, Sockets
  <2> QED BY <2>3, <2>4, <2>5, <2>6
<1>4. ASSUME NEW c \in Calls, ConnectRefused(c) PROVE IInv'
  <2>1. Target(c) \in Untried(c) /\ Target(c) \in Endpoints
    BY <1>4, TargetType DEF ConnectRefused
  <2>2. TypeOK'
    BY <1>4, <2>1 DEF ConnectRefused, TypeOK, Sockets
  <2>3. failures'[c] \cup Untried(c)' = failures[c] \cup Untried(c)
    BY <1>4, <2>1 DEF ConnectRefused, TypeOK, Untried
  <2>4. TryingInv'
    BY <1>4, <2>3 DEF ConnectRefused, TypeOK, TryingInv, Untried
  <2> QED BY <1>4, <2>2, <2>4 DEF ConnectRefused, ClosingInv, ChosenInv, NoSocketLeak, Sockets
<1>5. ASSUME NEW c \in Calls, ConnectAccepted(c) PROVE IInv'
  <2>1. Target(c) \in Endpoints
    BY <1>5, TargetType DEF ConnectAccepted
  <2>2. TypeOK'
    BY <1>5, <2>1 DEF ConnectAccepted, TypeOK, Nowhere, GoTo
  <2>3. TryingInv' /\ ClosingInv'
    BY <1>5 DEF ConnectAccepted, TypeOK, TryingInv, ClosingInv, Untried, GoTo
  <2>4. ChosenInv'
    BY <1>5, <2>1 DEF ConnectAccepted, TypeOK, ChosenInv, GoTo
  <2>5. NoSocketLeak'
    BY <1>5 DEF ConnectAccepted, TypeOK, NoSocketLeak, GoTo
  <2> QED BY <2>2, <2>3, <2>4, <2>5
<1>6. ASSUME NEW c \in Calls, Add(c) PROVE IInv'
  <2>1. TypeOK'
    BY <1>6 DEF Add, TypeOK, GoTo, Sockets
  <2>2. TryingInv' /\ ClosingInv'
    BY <1>6 DEF Add, TypeOK, TryingInv, ClosingInv, Untried, GoTo, Sockets
  <2>3. endpoint[c] \in Endpoints
    BY <1>6 DEF Add, ChosenInv
  <2>4. ChosenInv'
    BY <1>6, <2>3 DEF Add, TypeOK, ChosenInv, GoTo, Sockets
  <2>5. NoSocketLeak'
    BY <1>6 DEF Add, TypeOK, NoSocketLeak, GoTo, Sockets
  <2> QED BY <2>1, <2>2, <2>4, <2>5
<1>7. ASSUME NEW c \in Calls, AddClosed(c) PROVE IInv'
  <2>1. TypeOK'
    BY <1>7 DEF AddClosed, TypeOK, Ends, GoTo, Local
  <2>2. TryingInv' /\ ClosingInv' /\ ChosenInv'
    BY <1>7 DEF AddClosed, TypeOK, TryingInv, ClosingInv, ChosenInv, Untried, GoTo, Local
  <2>3. NoSocketLeak'
    BY <1>7 DEF AddClosed, TypeOK, NoSocketLeak, GoTo, Local
  <2> QED BY <2>1, <2>2, <2>3
<1>8. ASSUME NEW c \in Calls, SendFails(c) \/ Send(c) \/ Replied(c) \/ TimedOut(c) \/ Lost(c)
      PROVE IInv'
  <2>1. /\ pc[c] \in {"send", "wait"}
        /\ \E l \in {"closed", "collision", "wait", "reply", "timeout", "lost"} :
              pc' = [pc EXCEPT ![c] = l]
        /\ poisoned' \in {poisoned, [poisoned EXCEPT ![conn[c]] = @ \cup {key[c]}]}
        /\ cooling' \in {cooling, cooling \cup {endpoint[conn[c]]}}
        /\ UNCHANGED <<shut, pool, closing, open, endpoint, Local>>
    BY <1>8 DEF SendFails, Send, Replied, TimedOut, Lost, GoTo, Sockets
  <2>2. conn[c] \in Calls /\ endpoint[conn[c]] \in Endpoints /\ key[c] \in Keys
    BY <2>1 DEF ChosenInv
  <2>3. TypeOK'
    <3>1. cooling' \subseteq Endpoints
      BY <2>1, <2>2 DEF TypeOK
    <3>2. poisoned' \in [Calls -> SUBSET Keys]
      BY <2>1, <2>2 DEF TypeOK
    <3>3. pc' \in [Calls -> {"new", "look", "connect", "add", "send", "wait"} \cup Ends]
      BY <2>1 DEF TypeOK, Ends
    <3> QED BY <2>1, <3>1, <3>2, <3>3 DEF TypeOK, Local
  <2>4. TryingInv' /\ ClosingInv' /\ ChosenInv'
    BY <2>1 DEF TypeOK, TryingInv, ClosingInv, ChosenInv, Untried, Local
  <2>5. NoSocketLeak'
    BY <2>1 DEF TypeOK, NoSocketLeak, Local
  <2> QED BY <2>3, <2>4, <2>5
<1>9. ASSUME NEW n \in Calls, Retire(n) \/ CloseOne(n) PROVE IInv'
  <2>1. /\ open' = open \ {n} /\ closing' \in {closing, closing \ {n}}
        /\ UNCHANGED <<shut, pool, endpoint, poisoned, cooling, pc, Local>>
    BY <1>9 DEF Retire, CloseOne
  <2>2. TypeOK' /\ ClosingInv'
    BY <2>1 DEF TypeOK, ClosingInv, Local
  <2>3. TryingInv' /\ ChosenInv' /\ NoSocketLeak'
    BY <2>1 DEF TypeOK, TryingInv, ChosenInv, NoSocketLeak, Untried, Local
  <2> QED BY <2>2, <2>3
<1>10. ASSUME Shutdown \/ \E e \in Endpoints : CooldownEnds(e) PROVE IInv'
  <2>1. /\ \/ shut' = TRUE /\ pool' = {} /\ closing' = pool /\ shut = FALSE
           \/ UNCHANGED <<shut, pool, closing>>
        /\ cooling' \subseteq cooling
        /\ UNCHANGED <<Sockets, pc, Local>>
    BY <1>10 DEF Shutdown, CooldownEnds, TypeOK
  <2>2. shut' \in BOOLEAN /\ pool' \subseteq Calls /\ closing' \subseteq Calls
    BY <2>1 DEF TypeOK
  <2>3. TypeOK'
    BY <2>1, <2>2 DEF TypeOK, Sockets, Local
  <2>4. ClosingInv'
    BY <2>1 DEF ClosingInv
  <2>5. TryingInv' /\ ChosenInv' /\ NoSocketLeak'
    BY <2>1 DEF TypeOK, TryingInv, ChosenInv, ClosingInv, NoSocketLeak, Untried, Sockets, Local
  <2> QED BY <2>3, <2>4, <2>5
<1>11. CASE UNCHANGED vars
  BY <1>11 DEF vars, TypeOK, ClosingInv, TryingInv, ChosenInv, NoSocketLeak, Untried
<1>12. QED
  <2>1. Next \/ UNCHANGED vars
    OBVIOUS
  <2> QED BY <2>1, <1>1, <1>2, <1>3, <1>4, <1>5, <1>6, <1>7, <1>8, <1>9, <1>10, <1>11 DEF Next

\* The invariant holds throughout.
LEMMA Invariance == Spec => []IInv
<1>1. IInv /\ [Next]_vars => IInv'
  BY StepInv
<1>2. QED
  BY <1>1, InitInv, PTL DEF Spec

-----------------------------------------------------------------------------
\* Every variable of the pool keeps its type (PersistentSocketTransport.__init__).
THEOREM TypeCorrect == Spec => []TypeOK
<1>1. IInv => TypeOK
  BY DEF IInv
<1>2. QED
  BY <1>1, Invariance, PTL

\* Whatever calls connect, send and give up while the transport is closed, an open socket
\* is in the pool of an open transport, on the list of close(), or in the hands of the call
\* that opened it (_acquire, close).
THEOREM SocketsOwned == Spec => []NoSocketLeak
<1>1. IInv => NoSocketLeak
  BY DEF IInv
<1>2. QED
  BY <1>1, Invariance, PTL

\* A call that is told the peer is unreachable has tried each of its endpoints, however
\* cooldowns began and ended meanwhile (_preferred, _connect).
THEOREM AllEndpointsTried == Spec => []EveryEndpointTried
<1>1. IInv => EveryEndpointTried
  BY DEF IInv, TryingInv, EveryEndpointTried
<1>2. QED
  BY <1>1, Invariance, PTL

=============================================================================

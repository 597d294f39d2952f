------------------------ MODULE Gen9ConnectionProofs ------------------------
(***************************************************************************)
(* Which request a reply of a console answers, and which sockets are left  *)
(* open, for any number of threads, requests, connection objects and       *)
(* sockets.                                                                *)
(***************************************************************************)
EXTENDS Gen9Connection, TLAPS

\* What a thread works on at each of its steps.
PlaceInv ==
    /\ \A t \in Threads :
          /\ pc[t] \in {"dial", "request", "redial", "send", "wait", "idle"} => t \in Callers
          /\ pc[t] \in {"dial", "request", "redial", "send", "wait"} => held[t] \in Conns
          /\ pc[t] \in {"close", "abort", "fail"} => victim[t] \in Conns
    /\ \A t \in Callers :
          /\ pc[t] = "idle" => round[t] < Rounds[t]
          /\ told[t] # Nothing => pc[t] = "wait"

\* Sockets and readers belong to the object that dialed them, for good.
WireInv ==
    /\ pending = [c \in Conns |-> pending[c]]
    /\ \A s \in Sockets :
          /\ s > dialed => wire[s] = <<>> /\ reader[s].at = "gone"
          /\ s <= dialed => reader[s].conn \in Conns
          /\ reader[s].at # "gone" => s <= dialed
          /\ reader[s].at \in {"read", "deliver"} =>
                /\ reader[s].src # NoSocket /\ reader[s].src <= dialed
                /\ reader[reader[s].src].conn = reader[s].conn
          /\ reader[s].at = "deliver" => reader[s].hand # <<>>
    /\ \A c \in Conns : sock[c] # NoSocket => sock[c] <= dialed /\ reader[sock[c]].conn = c

\* The slot of id in c's table is that of the request t waits for.
Awaited(c, id, t) == Waiting(t) /\ held[t] = c /\ rid[t] = id

\* A frame of an object was given its id by it; if the table still holds the id, the thread
\* in it waits for just this frame.
Good(c, f) ==
    /\ f.id < nextId[c]
    /\ f.id \in DOMAIN pending[c] =>
          Awaited(c, f.id, pending[c][f.id]) /\ f.of = <<pending[c][f.id], round[pending[c][f.id]]>>

FrameInv ==
    /\ \A c \in Conns : \A id \in DOMAIN pending[c] : id < nextId[c]
    /\ \A s \in Sockets :
          /\ \A i \in DOMAIN wire[s] : Good(reader[s].conn, wire[s][i])
          /\ reader[s].at = "deliver" => Good(reader[s].conn, reader[s].hand[1])

IInv ==
    /\ TypeOK
    /\ PlaceInv
    /\ WireInv
    /\ FrameInv
    /\ WaiterReachable
    /\ OwnReply
-----------------------------------------------------------------------------
\* The invariant holds before the first request.
LEMMA InitInv == Init => IInv
<1> SUFFICES ASSUME Init PROVE IInv
  OBVIOUS
<1>1. TypeOK
  <2>1. /\ pool \in Conns \cup {None} /\ sock \in [Conns -> Sockets \cup {NoSocket}]
        /\ closed \in [Conns -> BOOLEAN] /\ nextId \in [Conns -> Ids]
        /\ writer \in [Conns -> Callers \cup {None}] /\ dialed \in 0..MaxSockets
        /\ shut \subseteq Sockets /\ console \subseteq Sockets
    BY SocketsAssumption DEF Init, Ids
  <2>2. \A c \in Conns : DOMAIN pending[c] \subseteq Ids
                         /\ \A id \in DOMAIN pending[c] : pending[c][id] \in Callers
    <3>1. DOMAIN << >> = 1..Len(<< >>) /\ Len(<< >>) = 0
      OBVIOUS
    <3> QED BY <3>1 DEF Init
  <2>3. wire \in [Sockets -> Seq(Frame)]
    BY DEF Init
  <2>4. reader \in [Sockets -> [conn : Conns \cup {None}, at : {"new", "read", "deliver", "gone"},
                                src : Sockets \cup {NoSocket}, hand : Seq(Frame)]]
    <3>1. [Reader(None) EXCEPT !.at = "gone"]
             = [conn |-> None, at |-> "gone", src |-> NoSocket, hand |-> << >>]
      BY DEF Reader
    <3>2. << >> \in Seq(Frame)
      OBVIOUS
    <3> QED BY <3>1, <3>2 DEF Init
  <2>5. /\ pc \in [Threads -> {"idle", "dial", "request", "redial", "send", "abort",
                               "wait", "drop", "close", "fail", "done"}]
        /\ held \in [Threads -> Conns \cup {None}] /\ victim \in [Threads -> Conns \cup {None}]
        /\ rid \in [Callers -> Ids]
    BY DEF Init, Ids
  <2>6. round \in [Callers -> Nat] /\ \A t \in Callers : round[t] <= Rounds[t]
    BY RoundsAssumption DEF Init
  <2>7. told \in [Callers -> Told]
    BY DEF Init, Told
  <2>8. overlap \in BOOLEAN
    BY Zenon DEF Init
  <2> QED BY <2>1, <2>2, <2>3, <2>4, <2>5, <2>6, <2>7, <2>8 DEF TypeOK
<1>2. PlaceInv
  <2>1. \A t \in Threads : pc[t] \in {"drop", "done", "idle"} /\ (pc[t] = "idle" => t \in Callers)
    BY DEF Init, Threads
  <2>2. \A t \in Callers : pc[t] = "idle" => round[t] < Rounds[t]
    BY RoundsAssumption, CloserAssumption DEF Init, Threads
  <2>3. \A t \in Callers : told[t] = Nothing
    BY DEF Init
  <2> QED BY <2>1, <2>2, <2>3 DEF PlaceInv
<1>3. WireInv
  BY DEF Init, WireInv, Reader, Sockets
<1>4. FrameInv
  <2>1. DOMAIN << >> = 1..Len(<< >>) /\ Len(<< >>) = 0
    OBVIOUS
  <2> QED BY <2>1 DEF Init, FrameInv, Reader
<1>5. WaiterReachable /\ OwnReply
  BY DEF Init, WaiterReachable, OwnReply, Waiting, Threads, Nothing
<1>6. QED
  BY <1>1, <1>2, <1>3, <1>4, <1>5 DEF IInv

\* Frames stay good when no id is given out again, and who waits in a table goes on waiting.
LEMMA FramesKept ==
    ASSUME IInv, TypeOK',
           \A c \in Conns : nextId'[c] >= nextId[c],
           \A c \in Conns : \A id \in DOMAIN pending'[c] :
              /\ id < nextId'[c] /\ id \in Ids
              /\ id < nextId[c] =>
                    /\ id \in DOMAIN pending[c] /\ pending'[c][id] = pending[c][id]
                    /\ \A t \in Callers : pending[c][id] = t /\ Awaited(c, id, t) =>
                          Awaited(c, id, t)' /\ round'[t] = round[t],
           \A s \in Sockets :
              /\ \A i \in DOMAIN wire'[s] :
                    /\ reader'[s].conn \in Conns
                    /\ Good(reader'[s].conn, wire'[s][i]) \/ Good(reader[s].conn, wire[s][i])'
              /\ reader'[s].at = "deliver" =>
                    /\ reader'[s].conn \in Conns /\ reader'[s].hand # << >>
                    /\ \/ Good(reader'[s].conn, reader'[s].hand[1])
                       \/ Good(reader[s].conn, reader[s].hand[1])'
    PROVE  FrameInv'
<1>1. ASSUME NEW c \in Conns, NEW f \in Frame, Good(c, f) PROVE Good(c, f)'
  <2>1. f.id \in Nat /\ nextId[c] \in Nat /\ nextId'[c] \in Nat /\ nextId'[c] >= nextId[c]
    BY DEF IInv, TypeOK, Ids, Frame
  <2>2. f.id < nextId[c]
    BY <1>1 DEF Good
  <2>3. ASSUME f.id \in DOMAIN pending'[c]
        PROVE  /\ Awaited(c, f.id, pending[c][f.id])'
               /\ f.of = <<pending'[c][f.id], round'[pending'[c][f.id]]>>
    <3>1. f.id \in DOMAIN pending[c] /\ pending'[c][f.id] = pending[c][f.id]
      BY <2>2, <2>3
    <3>2. PICK t \in Callers : pending[c][f.id] = t
      BY <3>1 DEF IInv, TypeOK
    <3>3. Awaited(c, f.id, t) /\ f.of = <<t, round[t]>>
      BY <1>1, <3>1, <3>2 DEF Good
    <3>4. Awaited(c, f.id, t)' /\ round'[t] = round[t]
      BY <2>2, <2>3, <3>2, <3>3
    <3>5. pending'[c][f.id] = t
      BY <3>1, <3>2
    <3> QED BY <3>3, <3>4, <3>5 DEF Awaited
  <2>4. f.id < nextId'[c]
    BY <2>1, <2>2
  <2> QED BY <2>3, <2>4 DEF Good
<1>2. ASSUME NEW s \in Sockets, NEW i \in DOMAIN wire'[s]
      PROVE  Good(reader[s].conn, wire[s][i])'
  <2>1. wire'[s][i] \in Frame
    BY DEF TypeOK
  <2> QED BY <1>1, <2>1
<1>3. ASSUME NEW s \in Sockets, reader'[s].at = "deliver"
      PROVE  Good(reader[s].conn, reader[s].hand[1])'
  <2>1. reader'[s].hand \in Seq(Frame) /\ reader'[s].hand # << >>
    BY <1>3 DEF TypeOK
  <2>2. reader'[s].hand[1] \in Frame
    BY <2>1
  <2> QED BY <1>1, <1>3, <2>2
<1>4. \A c \in Conns : \A id \in DOMAIN pending'[c] : id < nextId'[c]
  OBVIOUS
<1>5. QED
  BY <1>2, <1>3, <1>4 DEF FrameInv

\* A thread that does not wait moves and leaves tables, sockets' frames and readers alone.
LEMMA MoveInv ==
    ASSUME IInv, TypeOK', PlaceInv', UNCHANGED <<pending, wire, reader, dialed>>,
           \A c \in Conns : nextId'[c] >= nextId[c] /\ sock'[c] \in {sock[c], NoSocket},
           NEW t \in Threads, ~Waiting(t), pc'[t] # "wait",
           \A u \in Callers \ {t} : /\ pc'[u] = pc[u] /\ held'[u] = held[u] /\ rid'[u] = rid[u]
                                    /\ round'[u] = round[u] /\ told'[u] = told[u]
    PROVE  IInv'
<1>1. WireInv'
  BY DEF IInv, WireInv
<1>2. \A u \in Callers : Waiting(u)' => u # t /\ Waiting(u)
  BY DEF Waiting
<1>3. FrameInv'
  <2>1. ASSUME NEW c \in Conns, NEW id \in DOMAIN pending'[c]
        PROVE  /\ id < nextId'[c] /\ id \in Ids
               /\ id < nextId[c] =>
                     /\ id \in DOMAIN pending[c] /\ pending'[c][id] = pending[c][id]
                     /\ \A u \in Callers : pending[c][id] = u /\ Awaited(c, id, u) =>
                           Awaited(c, id, u)' /\ round'[u] = round[u]
    <3>1. id < nextId[c] /\ id \in Ids /\ nextId[c] \in Nat /\ nextId'[c] \in Nat
      BY DEF IInv, FrameInv, TypeOK, Ids
    <3>2. id < nextId'[c]
      BY <3>1 DEF Ids
    <3>3. ASSUME NEW u \in Callers, Awaited(c, id, u)
          PROVE  Awaited(c, id, u)' /\ round'[u] = round[u]
      BY <3>3 DEF Awaited, Waiting
    <3> QED BY <3>1, <3>2, <3>3
  <2>2. ASSUME NEW s \in Sockets
        PROVE  /\ \A i \in DOMAIN wire[s] :
                    reader[s].conn \in Conns /\ Good(reader[s].conn, wire[s][i])
               /\ reader[s].at = "deliver" =>
                    /\ reader[s].conn \in Conns /\ reader[s].hand # << >>
                    /\ Good(reader[s].conn, reader[s].hand[1])
    <3>1. s <= dialed => reader[s].conn \in Conns
      BY DEF IInv, WireInv
    <3>2. s > dialed => DOMAIN wire[s] = {} /\ reader[s].at # "deliver"
      <4>1. DOMAIN << >> = 1..Len(<< >>) /\ Len(<< >>) = 0
        OBVIOUS
      <4> QED BY <4>1 DEF IInv, WireInv
    <3>3. s > dialed \/ s <= dialed
      BY DEF Sockets, IInv, TypeOK
    <3>4. reader[s].at = "deliver" => reader[s].hand # << >>
      BY DEF IInv, WireInv
    <3> QED BY <3>1, <3>2, <3>3, <3>4 DEF IInv, FrameInv
  <2> QED BY <2>1, <2>2, FramesKept
<1>4. WaiterReachable'
  BY <1>2 DEF IInv, WaiterReachable
<1>5. OwnReply'
  <2>1. ASSUME NEW u \in Callers, told'[u].kind = "reply"
        PROVE  told'[u].of = <<u, round'[u]>>
    <3>1. CASE u = t
      BY <2>1, <3>1 DEF PlaceInv, Nothing
    <3>2. CASE u # t
      BY <2>1, <3>2 DEF IInv, OwnReply
    <3> QED BY <3>1, <3>2
  <2> QED BY <2>1 DEF OwnReply
<1>6. QED
  BY <1>1, <1>3, <1>4, <1>5 DEF IInv

\* The steps of a caller that neither dial nor touch a table.
LEMMA CallerMoves ==
    ASSUME IInv, NEW t \in Callers, Get(t) \/ DialFails(t) \/ Request(t) \/ SendFails(t) \/ Wake(t)
    PROVE  IInv'
<1> USE DEF IInv, Threads
<1> DEFINE Steps == {"idle", "dial", "request", "redial", "send", "abort", "wait", "drop",
                     "close", "fail", "done"}
<1>0. /\ pc \in [Threads -> Steps] /\ held \in [Threads -> Conns \cup {None}]
      /\ rid \in [Callers -> Ids] /\ round \in [Callers -> Nat] /\ told \in [Callers -> Told]
      /\ victim \in [Threads -> Conns \cup {None}] /\ t # Closer
      /\ Rounds[t] \in Nat /\ round[t] \in Nat /\ round[t] <= Rounds[t]
  BY CloserAssumption, RoundsAssumption DEF TypeOK
<1>1. CASE Get(t)
  <2>1. round' = [round EXCEPT ![t] = @ + 1] /\ round[t] < Rounds[t]
    BY <1>1 DEF Get, PlaceInv
  <2>2. <<t, round'[t]>> \in Conns
    <3>1. round'[t] \in 1..Rounds[t]
      BY <1>0, <2>1
    <3> QED BY <3>1 DEF Conns
  <2>3. PICK k \in Conns, l \in {"request", "dial"} :
              held' = [held EXCEPT ![t] = k] /\ pc' = [pc EXCEPT ![t] = l] /\ pool' \in Conns
    <3>1. CASE pool # None /\ Connected(pool)
      BY <1>1, <3>1 DEF Get, Goto, TypeOK
    <3>2. CASE ~(pool # None /\ Connected(pool))
      BY <1>1, <2>2, <3>2 DEF Get, Goto
    <3> QED BY <3>1, <3>2
  <2>4. TypeOK'
    <3>1. /\ held' \in [Threads -> Conns \cup {None}] /\ pc' \in [Threads -> Steps]
          /\ round' \in [Callers -> Nat] /\ pool' \in Conns \cup {None}
      BY <1>0, <2>1, <2>3
    <3>2. \A u \in Callers : round'[u] <= Rounds[u]
      BY <1>0, <2>1 DEF TypeOK
    <3>3. overlap' \in BOOLEAN
      BY <1>1 DEF Get, TypeOK
    <3> QED BY <1>1, <3>1, <3>2, <3>3 DEF Get, TypeOK, objects, wires
  <2>5. PlaceInv'
    BY <1>0, <1>1, <2>1, <2>3 DEF Get, PlaceInv
  <2>6. ~Waiting(t) /\ pc'[t] # "wait"
    BY <1>0, <1>1, <2>3 DEF Get, Waiting
  <2>7. /\ UNCHANGED <<pending, wire, reader, dialed, rid, told>>
        /\ \A c \in Conns : nextId'[c] >= nextId[c] /\ sock'[c] \in {sock[c], NoSocket}
    BY <1>1 DEF Get, objects, wires, TypeOK, Ids
  <2>8. \A u \in Callers \ {t} : pc'[u] = pc[u] /\ held'[u] = held[u] /\ round'[u] = round[u]
    BY <1>0, <2>1, <2>3
  <2> QED BY <2>4, <2>5, <2>6, <2>7, <2>8, MoveInv
<1>2. ASSUME DialFails(t) \/ Request(t) \/ SendFails(t) \/ Wake(t)
      PROVE  /\ pool' = pool /\ sock' = sock /\ closed' = closed /\ pending' = pending
             /\ round' = round /\ overlap' = overlap /\ reader' = reader
             /\ UNCHANGED wires
  BY <1>2 DEF DialFails, Request, SendFails, Wake, objects
<1>3. ASSUME DialFails(t) \/ Request(t) \/ SendFails(t) \/ Wake(t)
      PROVE  \E l \in {"idle", "done", "drop", "abort", "redial", "send"} :
                /\ pc' = [pc EXCEPT ![t] = l]
                /\ l = "idle" => round[t] < Rounds[t]
                /\ l \in {"redial", "send"} => held[t] \in Conns /\ held' = held /\ rid' = rid
                /\ l \notin {"redial", "send"} => Release(t)
                /\ IF l = "abort" THEN victim' = [victim EXCEPT ![t] = held[t]] /\ held[t] \in Conns
                                  ELSE victim' = victim
  <2>1. Finished(t) \in {"idle", "done"} /\ (Finished(t) = "idle" => round[t] < Rounds[t])
    BY <1>0 DEF Finished
  <2>2. ASSUME AfterError(t) \/ Goto(t, Finished(t))
        PROVE  \E l \in {"idle", "done", "drop"} : /\ pc' = [pc EXCEPT ![t] = l]
                                                   /\ l = "idle" => round[t] < Rounds[t]
    BY <2>1, <2>2 DEF AfterError, Goto
  <2>3. CASE DialFails(t)
    BY <2>2, <2>3 DEF DialFails
  <2>4. CASE Request(t)
    BY <2>4 DEF Request, Goto, PlaceInv
  <2>5. CASE SendFails(t)
    BY <2>5 DEF SendFails, Goto, PlaceInv
  <2>6. CASE Wake(t)
    BY <2>2, <2>6 DEF Wake
  <2> QED BY <1>3, <2>3, <2>4, <2>5, <2>6
<1>4. ASSUME DialFails(t) \/ Request(t) \/ SendFails(t) \/ Wake(t)
      PROVE  /\ nextId' \in [Conns -> Ids] /\ \A c \in Conns : nextId'[c] >= nextId[c]
             /\ writer' \in [Conns -> Callers \cup {None}]
             /\ told' \in [Callers -> Told] /\ told'[t] = Nothing
             /\ \A u \in Callers \ {t} : told'[u] = told[u]
             /\ ~Waiting(t)
  <2>1. nextId \in [Conns -> Ids] /\ writer \in [Conns -> Callers \cup {None}]
    BY DEF TypeOK
  <2>2. CASE DialFails(t) \/ Request(t)
    <3>1. told[t] = Nothing /\ pc[t] # "wait"
      BY <2>2 DEF DialFails, Request, PlaceInv
    <3> QED BY <1>0, <2>1, <2>2, <3>1 DEF DialFails, Request, objects, Ids, Waiting
  <2>3. CASE SendFails(t)
    <3>1. told[t] = Nothing /\ pc[t] # "wait" /\ held[t] \in Conns
      BY <2>3 DEF SendFails, PlaceInv
    <3>2. nextId' = [nextId EXCEPT ![held[t]] = @ + 1] /\ writer' = [writer EXCEPT ![held[t]] = t]
      BY <2>3 DEF SendFails, TakeId, NextId
    <3> QED BY <1>0, <2>1, <2>3, <3>1, <3>2 DEF SendFails, Ids, Waiting
  <2>4. CASE Wake(t)
    <3>1. told' = [told EXCEPT ![t] = Nothing] /\ told[t] # Nothing /\ nextId' = nextId
          /\ writer' = writer
      BY <2>4 DEF Wake, objects
    <3> QED BY <1>0, <2>1, <3>1 DEF Told, Ids, Waiting
  <2> QED BY <1>4, <2>2, <2>3, <2>4
<1>5. CASE DialFails(t) \/ Request(t) \/ SendFails(t) \/ Wake(t)
  <2>1. PICK l \in {"idle", "done", "drop", "abort", "redial", "send"} :
                /\ pc' = [pc EXCEPT ![t] = l]
                /\ l = "idle" => round[t] < Rounds[t]
                /\ l \in {"redial", "send"} => held[t] \in Conns /\ held' = held /\ rid' = rid
                /\ l \notin {"redial", "send"} => Release(t)
                /\ IF l = "abort" THEN victim' = [victim EXCEPT ![t] = held[t]] /\ held[t] \in Conns
                                  ELSE victim' = victim
    BY <1>3, <1>5
  <2>2. /\ pc' \in [Threads -> Steps] /\ held' \in [Threads -> Conns \cup {None}]
        /\ rid' \in [Callers -> Ids] /\ victim' \in [Threads -> Conns \cup {None}]
        /\ \A u \in Callers \ {t} : pc'[u] = pc[u] /\ held'[u] = held[u] /\ rid'[u] = rid[u]
        /\ \A u \in Threads \ {t} : pc'[u] = pc[u] /\ held'[u] = held[u] /\ victim'[u] = victim[u]
        /\ pc'[t] = l /\ (l \in {"redial", "send"} => held'[t] \in Conns)
        /\ (l = "abort" => victim'[t] \in Conns)
    BY <1>0, <2>1 DEF Release, Ids
  <2>3. TypeOK'
    BY <1>0, <1>2, <1>4, <1>5, <2>2 DEF TypeOK, wires
  <2>4. PlaceInv'
    BY <1>0, <1>2, <1>4, <1>5, <2>1, <2>2 DEF PlaceInv
  <2>5. \A c \in Conns : nextId'[c] >= nextId[c] /\ sock'[c] \in {sock[c], NoSocket}
    BY <1>2, <1>4, <1>5
  <2>6. \A u \in Callers \ {t} : round'[u] = round[u]
    BY <1>2, <1>5
  <2> QED BY <1>2, <1>4, <1>5, <2>1, <2>2, <2>3, <2>4, <2>5, <2>6, MoveInv DEF wires
<1>6. QED
  BY <1>1, <1>5
\* The steps that take a connection out of the pool and its socket away.
LEMMA CloserMoves ==
    ASSUME IInv, NEW t \in Threads, Drop(t) \/ CloseSocket(t)
    PROVE  IInv'
<1> USE DEF IInv
<1> DEFINE Steps == {"idle", "dial", "request", "redial", "send", "abort", "wait", "drop",
                     "close", "fail", "done"}
<1>0. /\ pc \in [Threads -> Steps] /\ victim \in [Threads -> Conns \cup {None}]
      /\ Closer \notin Callers /\ Callers \subseteq Threads /\ (t = Closer \/ t \in Callers)
      /\ \A u \in Callers : Rounds[u] \in Nat /\ round[u] \in Nat /\ round[u] <= Rounds[u]
  BY CloserAssumption, RoundsAssumption DEF TypeOK, Threads
<1>1. CASE Drop(t)
  <2>1. PICK l \in {"idle", "done", "close"} :
              /\ pc' = [pc EXCEPT ![t] = l]
              /\ l = "idle" => t \in Callers /\ round[t] < Rounds[t]
              /\ IF l = "close" THEN victim' = [victim EXCEPT ![t] = pool] /\ pool \in Conns
                                ELSE victim' = victim
    <3>1. t \in Callers => /\ Finished(t) \in {"idle", "done"}
                           /\ Finished(t) = "idle" => round[t] < Rounds[t]
      BY <1>0 DEF Finished
    <3> QED BY <1>0, <1>1, <3>1 DEF Drop, Goto, TypeOK
  <2>2. /\ pool' = None /\ pc[t] = "drop"
        /\ UNCHANGED <<sock, closed, nextId, pending, writer, dialed, shut, console, wire,
                       reader, round, held, rid, told>>
    BY <1>1 DEF Drop, objects, wires
  <2>3. /\ pc' \in [Threads -> Steps] /\ victim' \in [Threads -> Conns \cup {None}]
        /\ \A u \in Threads \ {t} : pc'[u] = pc[u] /\ victim'[u] = victim[u]
        /\ pc'[t] = l /\ (l = "close" => victim'[t] \in Conns)
    BY <1>0, <2>1
  <2>4. TypeOK'
    <3>1. overlap' \in BOOLEAN
      <4>1. overlap \in BOOLEAN
        BY DEF TypeOK
      <4>2. CASE t = Closer
        BY <1>1, <4>1, <4>2 DEF Drop
      <4>3. CASE t # Closer
        BY <1>1, <4>1, <4>3 DEF Drop
      <4> QED BY <4>2, <4>3
    <3> QED BY <2>2, <2>3, <3>1 DEF TypeOK
  <2>5. PlaceInv'
    BY <1>0, <2>1, <2>2, <2>3 DEF PlaceInv
  <2>6. /\ ~Waiting(t) /\ pc'[t] # "wait"
        /\ \A u \in Callers \ {t} : pc'[u] = pc[u]
    BY <1>0, <2>2, <2>3 DEF Waiting
  <2>7. \A c \in Conns : nextId'[c] >= nextId[c]
    BY <2>2 DEF TypeOK, Ids
  <2> QED BY <2>2, <2>4, <2>5, <2>6, <2>7, MoveInv
<1>2. CASE CloseSocket(t)
  <2>1. /\ victim[t] \in Conns /\ pc[t] \in {"close", "abort"}
        /\ pc' = [pc EXCEPT ![t] = "fail"]
        /\ sock' = [sock EXCEPT ![victim[t]] = NoSocket]
        /\ closed' = [closed EXCEPT ![victim[t]] = TRUE]
        /\ shut' = shut \cup ({sock[victim[t]]} \ {NoSocket})
        /\ console' = console \ {sock[victim[t]]}
        /\ UNCHANGED <<pool, nextId, pending, writer, dialed, wire, reader, round, held, rid,
                       victim, told, overlap>>
    BY <1>2 DEF CloseSocket, TakeSocket, Goto, PlaceInv
  <2>2. /\ pc' \in [Threads -> Steps] /\ pc'[t] = "fail"
        /\ \A u \in Threads \ {t} : pc'[u] = pc[u]
    BY <1>0, <2>1
  <2>3. TypeOK'
    <3>1. /\ sock' \in [Conns -> Sockets \cup {NoSocket}] /\ closed' \in [Conns -> BOOLEAN]
          /\ shut' \subseteq Sockets /\ console' \subseteq Sockets
      BY <2>1 DEF TypeOK
    <3> QED BY <2>1, <2>2, <3>1 DEF TypeOK
  <2>4. PlaceInv'
    BY <1>0, <2>1, <2>2 DEF PlaceInv
  <2>5. \A c \in Conns : nextId'[c] >= nextId[c] /\ sock'[c] \in {sock[c], NoSocket}
    BY <2>1 DEF TypeOK, Ids
  <2>6. ~Waiting(t) /\ \A u \in Callers \ {t} : pc'[u] = pc[u]
    BY <1>0, <2>1, <2>2 DEF Waiting
  <2> QED BY <2>1, <2>2, <2>3, <2>4, <2>5, <2>6, MoveInv
<1>3. QED
  BY <1>1, <1>2

\* What the tables hold and who waits, where a step leaves threads, rounds and ids alone.
LEMMA TableFacts ==
    ASSUME IInv
    PROVE  /\ \A c \in Conns : /\ nextId[c] \in Nat \ {0}
                               /\ \A id \in DOMAIN pending[c] :
                                     id \in Ids /\ id < nextId[c] /\ pending[c][id] \in Callers
           /\ \A s \in Sockets :
                 /\ \A i \in DOMAIN wire[s] :
                       reader[s].conn \in Conns /\ Good(reader[s].conn, wire[s][i])
                 /\ reader[s].at = "deliver" =>
                       /\ reader[s].conn \in Conns /\ reader[s].hand # << >>
                       /\ Good(reader[s].conn, reader[s].hand[1])
<1>1. ASSUME NEW s \in Sockets
      PROVE  /\ \A i \in DOMAIN wire[s] :
                  reader[s].conn \in Conns /\ Good(reader[s].conn, wire[s][i])
             /\ reader[s].at = "deliver" =>
                  /\ reader[s].conn \in Conns /\ reader[s].hand # << >>
                  /\ Good(reader[s].conn, reader[s].hand[1])
  <2>1. s <= dialed => reader[s].conn \in Conns
    BY DEF IInv, WireInv
  <2>2. s > dialed => DOMAIN wire[s] = {} /\ reader[s].at # "deliver"
    <3>1. DOMAIN << >> = 1..Len(<< >>) /\ Len(<< >>) = 0
      OBVIOUS
    <3> QED BY <3>1 DEF IInv, WireInv
  <2>3. s > dialed \/ s <= dialed
    BY DEF Sockets, IInv, TypeOK
  <2>4. reader[s].at = "deliver" => reader[s].hand # << >>
    BY DEF IInv, WireInv
  <2> QED BY <2>1, <2>2, <2>3, <2>4 DEF IInv, FrameInv
<1>2. ASSUME NEW c \in Conns
      PROVE  /\ nextId[c] \in Nat \ {0}
             /\ \A id \in DOMAIN pending[c] :
                   id \in Ids /\ id < nextId[c] /\ pending[c][id] \in Callers
  BY DEF IInv, TypeOK, Ids, FrameInv
<1> QED BY <1>1, <1>2

\* A new socket belongs to the object that dialed it and has no frames yet.
LEMMA DialInv ==
    ASSUME IInv, NEW t \in Callers, Dial(t) PROVE IInv'
<1> USE DEF IInv
<1> DEFINE Steps == {"idle", "dial", "request", "redial", "send", "abort", "wait", "drop",
                     "close", "fail", "done"}
           n == dialed + 1
<1>1. /\ pc \in [Threads -> Steps] /\ t \in Threads /\ Closer \notin Callers
      /\ dialed \in Nat /\ n \in Sockets /\ n \notin 0..dialed /\ held[t] \in Conns
      /\ dialed' = n /\ sock' = [sock EXCEPT ![held[t]] = n]
      /\ closed' = [closed EXCEPT ![held[t]] = FALSE] /\ console' = console \cup {n}
      /\ reader' = [reader EXCEPT ![n] = Reader(held[t])]
      /\ UNCHANGED <<pool, nextId, pending, writer, shut, wire, round, held, rid, victim, told,
                     overlap>>
  BY SocketsAssumption, CloserAssumption DEF Dial, TypeOK, PlaceInv, Sockets, Threads
<1>2. PICK l \in {"request", "send"} : pc' = [pc EXCEPT ![t] = l]
  BY DEF Dial, Goto
<1>3. /\ pc' \in [Threads -> Steps] /\ pc'[t] = l /\ pc[t] \notin {"wait", "idle"}
      /\ \A u \in Threads \ {t} : pc'[u] = pc[u]
  BY <1>1, <1>2 DEF Dial
<1>4. TypeOK'
  <2>1. /\ sock' \in [Conns -> Sockets \cup {NoSocket}] /\ closed' \in [Conns -> BOOLEAN]
        /\ console' \subseteq Sockets /\ dialed' \in 0..MaxSockets
    <3>1. /\ sock \in [Conns -> Sockets \cup {NoSocket}] /\ closed \in [Conns -> BOOLEAN]
          /\ console \subseteq Sockets
      BY DEF TypeOK
    <3>2. n \in 0..MaxSockets
      BY <1>1, SocketsAssumption DEF Sockets
    <3> QED BY <1>1, <3>1, <3>2
  <2>2. Reader(held[t]) \in [conn : Conns \cup {None}, at : {"new", "read", "deliver", "gone"},
                             src : Sockets \cup {NoSocket}, hand : Seq(Frame)]
    BY <1>1 DEF Reader
  <2>3. reader' \in [Sockets -> [conn : Conns \cup {None}, at : {"new", "read", "deliver", "gone"},
                                 src : Sockets \cup {NoSocket}, hand : Seq(Frame)]]
    BY <1>1, <2>2 DEF TypeOK
  <2> QED BY <1>1, <1>3, <2>1, <2>3 DEF TypeOK
<1>5. PlaceInv'
  <2>1. \A u \in Threads : /\ pc'[u] = "idle" => pc[u] = "idle"
                           /\ pc'[u] = "wait" <=> pc[u] = "wait"
    BY <1>1, <1>3
  <2>2. Callers \subseteq Threads
    BY DEF Threads
  <2>3. ASSUME NEW u \in Threads
        PROVE  /\ pc'[u] \in {"dial", "request", "redial", "send", "wait", "idle"} => u \in Callers
               /\ pc'[u] \in {"dial", "request", "redial", "send", "wait"} => held[u] \in Conns
               /\ pc'[u] \in {"close", "abort", "fail"} => victim[u] \in Conns
    BY <1>1, <1>3 DEF PlaceInv
  <2> QED BY <1>1, <2>1, <2>2, <2>3 DEF PlaceInv
<1>6. /\ reader'[n] = [conn |-> held[t], at |-> "new", src |-> NoSocket, hand |-> << >>]
      /\ wire[n] = << >>
      /\ \A s \in Sockets \ {n} : reader'[s] = reader[s]
  BY <1>1 DEF Reader, TypeOK, WireInv
<1>7. WireInv'
  <2>1. ASSUME NEW s \in Sockets
        PROVE  /\ s > n => wire[s] = <<>> /\ reader'[s].at = "gone"
               /\ s <= n => reader'[s].conn \in Conns
               /\ reader'[s].at # "gone" => s <= n
               /\ reader'[s].at \in {"read", "deliver"} =>
                     /\ reader'[s].src # NoSocket /\ reader'[s].src <= n
                     /\ reader'[reader'[s].src].conn = reader'[s].conn
               /\ reader'[s].at = "deliver" => reader'[s].hand # <<>>
    <3>1. CASE s = n
      BY <1>1, <1>6, <3>1
    <3>2. CASE s # n
      <4>1. s \in Nat /\ reader[s].src \in Sockets \cup {NoSocket}
        BY DEF TypeOK, Sockets
      <4>2. /\ s > dialed => wire[s] = <<>> /\ reader[s].at = "gone"
            /\ s <= dialed => reader[s].conn \in Conns
            /\ reader[s].at # "gone" => s <= dialed
            /\ reader[s].at \in {"read", "deliver"} =>
                  /\ reader[s].src # NoSocket /\ reader[s].src <= dialed
                  /\ reader[reader[s].src].conn = reader[s].conn
            /\ reader[s].at = "deliver" => reader[s].hand # <<>>
        BY DEF WireInv
      <4>3. reader'[s] = reader[s]
        BY <1>6, <3>2
      <4>4. reader[s].at \in {"read", "deliver"} =>
              /\ reader[s].src \in Sockets /\ reader[s].src # n
              /\ reader'[reader[s].src] = reader[reader[s].src]
        BY <1>1, <1>6, <4>1, <4>2
      <4>5. (s > n => s > dialed) /\ (s <= n => s <= dialed) /\ (s <= dialed => s <= n)
        BY <1>1, <3>2, <4>1
      <4>6. reader[s].at \in {"read", "deliver"} => reader[s].src <= n
        BY <1>1, <4>1, <4>2 DEF Sockets
      <4> QED BY <4>2, <4>3, <4>4, <4>5, <4>6
    <3> QED BY <3>1, <3>2
  <2>2. ASSUME NEW c \in Conns, sock'[c] # NoSocket
        PROVE  sock'[c] <= n /\ reader'[sock'[c]].conn = c
    <3>1. CASE c = held[t]
      BY <1>1, <1>6, <3>1 DEF TypeOK
    <3>2. CASE c # held[t]
      <4>1. sock'[c] = sock[c] /\ sock[c] \in Sockets
        BY <1>1, <2>2, <3>2 DEF TypeOK
      <4>2. sock[c] <= dialed /\ reader[sock[c]].conn = c
        BY <2>2, <4>1 DEF WireInv
      <4>3. sock[c] # n /\ sock[c] <= n
        BY <1>1, <4>1, <4>2 DEF Sockets
      <4> QED BY <1>6, <4>1, <4>2, <4>3
    <3> QED BY <3>1, <3>2
  <2> QED BY <1>1, <2>1, <2>2 DEF WireInv
<1>8. FrameInv'
  <2>1. \A s \in Sockets :
           /\ \A i \in DOMAIN wire[s] :
                 reader'[s].conn \in Conns /\ Good(reader'[s].conn, wire[s][i])
           /\ reader'[s].at = "deliver" =>
                 /\ reader'[s].conn \in Conns /\ reader'[s].hand # << >>
                 /\ Good(reader'[s].conn, reader'[s].hand[1])
    <3>1. DOMAIN << >> = 1..Len(<< >>) /\ Len(<< >>) = 0
      OBVIOUS
    <3> QED BY <1>6, <3>1, TableFacts
  <2>2. ASSUME NEW c \in Conns, NEW id \in DOMAIN pending[c]
        PROVE  /\ id < nextId[c] /\ id \in Ids
               /\ \A u \in Callers : pending[c][id] = u /\ Awaited(c, id, u) => Awaited(c, id, u)'
    BY <1>1, <1>3, TableFacts DEF Awaited, Waiting, Threads
  <2>3. \A c \in Conns : nextId[c] >= nextId[c]
    BY TableFacts
  <2> QED BY <1>1, <1>4, <2>1, <2>2, <2>3, FramesKept
<1>9. WaiterReachable' /\ OwnReply'
  BY <1>1, <1>3 DEF WaiterReachable, OwnReply, Waiting, Threads
<1>10. QED
  BY <1>4, <1>5, <1>7, <1>8, <1>9

-----------------------------------------------------------------------------
\* A slot that is taken out of a table.
LEMMA SlotForgotten ==
    ASSUME NEW f, NEW id
    PROVE  /\ DOMAIN Forget(f, id) = DOMAIN f \ {id}
           /\ \A x \in DOMAIN f \ {id} : Forget(f, id)[x] = f[x]
BY DEF Forget, Restrict

\* A request is registered under an id that was never given out.
LEMMA Registered ==
    ASSUME IInv, NEW t \in Callers, held[t] \in Conns, TakeId(t), Register(t)
    PROVE  /\ nextId' \in [Conns -> Ids] /\ nextId'[held[t]] = nextId[held[t]] + 1
           /\ \A c \in Conns : nextId'[c] >= nextId[c]
           /\ pending' = [c \in Conns |-> pending'[c]]
           /\ \A c \in Conns : \A id \in DOMAIN pending'[c] :
                 /\ id \in Ids /\ id < nextId'[c] /\ pending'[c][id] \in Callers
                 /\ id < nextId[c] => id \in DOMAIN pending[c] /\ pending'[c][id] = pending[c][id]
           /\ \A c \in Conns : \A id \in DOMAIN pending[c] :
                 id \in DOMAIN pending'[c] /\ pending'[c][id] = pending[c][id]
           /\ nextId[held[t]] \in DOMAIN pending'[held[t]]
           /\ pending'[held[t]][nextId[held[t]]] = t
<1> DEFINE c == held[t]
           n == nextId[c]
<1>1. /\ nextId \in [Conns -> Ids] /\ n \in Nat \ {0} /\ c \in Conns
      /\ pending = [d \in Conns |-> pending[d]]
      /\ \A d \in Conns : nextId[d] \in Nat \ {0}
  BY TableFacts DEF IInv, TypeOK, WireInv, Ids
<1>2. nextId' = [nextId EXCEPT ![c] = n + 1]
  BY DEF TakeId, NextId
<1>3. pending' = [pending EXCEPT ![c] = Remember(pending[c], n, t)]
  BY DEF Register
<1>4. /\ nextId' \in [Conns -> Ids] /\ nextId'[c] = n + 1
      /\ \A d \in Conns : nextId'[d] >= nextId[d] /\ nextId'[d] \in Nat
      /\ \A d \in Conns \ {c} : nextId'[d] = nextId[d]
  BY <1>1, <1>2 DEF Ids
<1>5. /\ pending' = [d \in Conns |-> pending'[d]]
      /\ pending'[c] = Remember(pending[c], n, t)
      /\ \A d \in Conns \ {c} : pending'[d] = pending[d]
  BY <1>1, <1>3
<1>6. /\ DOMAIN pending'[c] = DOMAIN pending[c] \cup {n} /\ pending'[c][n] = t
      /\ \A x \in DOMAIN pending[c] \ {n} : pending'[c][x] = pending[c][x]
  BY <1>5 DEF Remember
<1>7. n \notin DOMAIN pending[c]
  BY <1>1, TableFacts
<1>8. ASSUME NEW d \in Conns, NEW id \in DOMAIN pending'[d]
      PROVE  /\ id \in Ids /\ id < nextId'[d] /\ pending'[d][id] \in Callers
             /\ id < nextId[d] => id \in DOMAIN pending[d] /\ pending'[d][id] = pending[d][id]
  <2>1. CASE d = c
    <3>1. CASE id = n
      BY <1>1, <1>4, <1>6, <2>1, <3>1 DEF Ids
    <3>2. CASE id # n
      <4>1. id \in DOMAIN pending[c] /\ pending'[c][id] = pending[c][id]
        BY <1>6, <2>1, <3>2
      <4>2. id \in Ids /\ id < n /\ pending[c][id] \in Callers
        BY <1>1, <4>1, TableFacts
      <4> QED BY <1>1, <1>4, <2>1, <4>1, <4>2 DEF Ids
    <3> QED BY <3>1, <3>2
  <2>2. CASE d # c
    BY <1>4, <1>5, <2>2, TableFacts
  <2> QED BY <2>1, <2>2
<1>9. ASSUME NEW d \in Conns, NEW id \in DOMAIN pending[d]
      PROVE  id \in DOMAIN pending'[d] /\ pending'[d][id] = pending[d][id]
  BY <1>5, <1>6, <1>7
<1>10. QED
  BY <1>4, <1>5, <1>6, <1>8, <1>9

\* A send that finds no socket leaves a slot behind, and no frame with its id.
LEMMA SendOnNothingInv ==
    ASSUME IInv, NEW t \in Callers, SendOnNothing(t) PROVE IInv'
<1> USE DEF IInv
<1> DEFINE Steps == {"idle", "dial", "request", "redial", "send", "abort", "wait", "drop",
                     "close", "fail", "done"}
<1>1. /\ pc \in [Threads -> Steps] /\ pc[t] = "send" /\ t \in Threads /\ Callers \subseteq Threads
      /\ held \in [Threads -> Conns \cup {None}] /\ rid \in [Callers -> Ids] /\ held[t] \in Conns
      /\ TakeId(t) /\ Register(t) /\ Release(t) /\ pc' = [pc EXCEPT ![t] = Finished(t)]
      /\ UNCHANGED <<pool, sock, closed, writer, wires, reader, round, victim, told, overlap>>
  BY DEF SendOnNothing, TypeOK, PlaceInv, Threads, Goto
<1>2. Finished(t) \in {"idle", "done"} /\ (Finished(t) = "idle" => round[t] < Rounds[t])
  BY RoundsAssumption DEF Finished, TypeOK
<1>3. /\ pc' \in [Threads -> Steps] /\ held' \in [Threads -> Conns \cup {None}]
      /\ rid' \in [Callers -> Ids] /\ pc'[t] = Finished(t)
      /\ \A u \in Threads \ {t} : pc'[u] = pc[u] /\ held'[u] = held[u]
      /\ \A u \in Callers \ {t} : rid'[u] = rid[u]
  BY <1>1, <1>2 DEF Release, Ids
<1>4. TypeOK'
  BY <1>1, <1>3, Registered DEF TypeOK, wires, Ids
<1>5. PlaceInv'
  BY <1>1, <1>2, <1>3 DEF PlaceInv
<1>6. WireInv'
  BY <1>1, Registered DEF WireInv, wires
<1>7. FrameInv'
  <2>1. \A c \in Conns : \A id \in DOMAIN pending'[c] :
           /\ id < nextId'[c] /\ id \in Ids
           /\ id < nextId[c] => id \in DOMAIN pending[c] /\ pending'[c][id] = pending[c][id]
    BY <1>1, Registered
  <2>2. ASSUME NEW c, NEW id, NEW u \in Callers, Awaited(c, id, u) PROVE Awaited(c, id, u)'
    <3>1. u # t
      BY <1>1, <2>2 DEF Awaited, Waiting
    <3> QED BY <1>1, <1>3, <2>2, <3>1 DEF Awaited, Waiting
  <2>3. \A c \in Conns : nextId'[c] >= nextId[c]
    BY <1>1, Registered
  <2> QED BY <1>1, <1>4, <2>1, <2>2, <2>3, FramesKept, TableFacts DEF wires
<1>8. WaiterReachable'
  <2>1. ASSUME NEW u \in Callers, Waiting(u)'
        PROVE  rid'[u] \in DOMAIN pending'[held'[u]] /\ pending'[held'[u]][rid'[u]] = u
    <3>1. u # t /\ Waiting(u) /\ rid'[u] = rid[u] /\ held'[u] = held[u] /\ held[u] \in Conns
      BY <1>1, <1>2, <1>3, <2>1 DEF Waiting, PlaceInv
    <3> QED BY <1>1, <3>1, Registered DEF WaiterReachable
  <2> QED BY <2>1 DEF WaiterReachable
<1>9. OwnReply'
  BY <1>1 DEF OwnReply
<1>10. QED
  BY <1>4, <1>5, <1>6, <1>7, <1>8, <1>9

\* A send registers its slot before its frame can be seen, under the id the frame carries.
LEMMA SendInv ==
    ASSUME IInv, NEW t \in Callers, Send(t) PROVE IInv'
<1> USE DEF IInv
<1> DEFINE Steps == {"idle", "dial", "request", "redial", "send", "abort", "wait", "drop",
                     "close", "fail", "done"}
<1>0. PICK c \in Conns, s \in Sockets, n \in Ids :
          c = held[t] /\ s = sock[c] /\ n = nextId[c] /\ round[t] \in Nat
  BY DEF Send, TypeOK, PlaceInv, Threads
<1>1. /\ pc \in [Threads -> Steps] /\ pc[t] = "send" /\ t \in Threads /\ Callers \subseteq Threads
      /\ rid \in [Callers -> Ids] /\ held[t] \in Conns
      /\ told[t] = Nothing /\ TakeId(t) /\ Register(t)
      /\ rid' = [rid EXCEPT ![t] = n] /\ pc' = [pc EXCEPT ![t] = "wait"]
      /\ UNCHANGED <<pool, sock, closed, writer, dialed, shut, console, reader, round,
                     held, victim, told, overlap>>
  BY <1>0 DEF Send, TypeOK, PlaceInv, Threads, Goto
<1>2. /\ pc' \in [Threads -> Steps] /\ pc'[t] = "wait" /\ rid' \in [Callers -> Ids]
      /\ rid'[t] = n
      /\ \A u \in Threads \ {t} : pc'[u] = pc[u]
      /\ \A u \in Callers \ {t} : rid'[u] = rid[u]
  BY <1>1
<1>3. PICK f \in Frame :
      /\ wire \in [Sockets -> Seq(Frame)] /\ f.id = n /\ f.of = <<t, round[t]>>
      /\ wire' = IF s \in console THEN [wire EXCEPT ![s] = Append(@, f)] ELSE wire
      /\ s <= dialed /\ reader[s].conn = c
  <2>1. [id |-> n, of |-> <<t, round[t]>>] \in Frame
    BY <1>0 DEF Frame
  <2>2. wire' = IF s \in console
                  THEN [wire EXCEPT ![s] = Append(@, [id |-> n, of |-> <<t, round[t]>>])] ELSE wire
    BY <1>0, <1>2 DEF Send
  <2>3. wire \in [Sockets -> Seq(Frame)] /\ s <= dialed /\ reader[s].conn = c
    BY <1>0 DEF TypeOK, WireInv, Sockets, NoSocket
  <2> QED BY <2>1, <2>2, <2>3
<1>4. TypeOK'
  <2>1. wire' \in [Sockets -> Seq(Frame)]
    BY <1>3
  <2> QED BY <1>1, <1>2, <2>1, Registered DEF TypeOK, Ids
<1>5. PlaceInv'
  BY <1>1, <1>2 DEF PlaceInv
<1>6. WireInv'
  <2>1. \A r \in Sockets : r > dialed => wire'[r] = wire[r]
    BY <1>1, <1>3 DEF Sockets, TypeOK
  <2> QED BY <1>1, <2>1, Registered DEF WireInv
<1>7. Good(c, f)'
  <2>1. pc'[t] = "wait" /\ told'[t] = Nothing /\ held'[t] = c /\ rid'[t] = n
    BY <1>0, <1>1, <1>2
  <2>2. nextId'[c] = n + 1 /\ pending'[c][n] = t /\ round'[t] = round[t]
    BY <1>0, <1>1, Registered
  <2>3. n < nextId'[c]
    BY <2>2 DEF Ids
  <2> QED BY <1>3, <2>1, <2>2, <2>3 DEF Good, Awaited, Waiting
<1>8. FrameInv'
  <2>1. \A d \in Conns : \A id \in DOMAIN pending'[d] :
           /\ id < nextId'[d] /\ id \in Ids
           /\ id < nextId[d] => id \in DOMAIN pending[d] /\ pending'[d][id] = pending[d][id]
    BY <1>1, Registered
  <2>2. ASSUME NEW d, NEW id, NEW u \in Callers, Awaited(d, id, u) PROVE Awaited(d, id, u)'
    <3>1. u # t
      BY <1>1, <2>2 DEF Awaited, Waiting
    <3> QED BY <1>1, <1>2, <2>2, <3>1 DEF Awaited, Waiting
  <2>3. \A d \in Conns : nextId'[d] >= nextId[d]
    BY <1>1, Registered
  <2>4. ASSUME NEW r \in Sockets, NEW i \in DOMAIN wire'[r]
        PROVE  /\ reader'[r].conn \in Conns
               /\ Good(reader'[r].conn, wire'[r][i]) \/ Good(reader[r].conn, wire[r][i])'
    <3>1. CASE r = s /\ i = Len(wire[s]) + 1
      <4>1. wire'[r][i] = f /\ reader'[r].conn = c
        BY <1>1, <1>3, <3>1
      <4> QED BY <1>1, <1>3, <1>7, <3>1, <4>1
    <3>2. CASE ~(r = s /\ i = Len(wire[s]) + 1)
      <4>1. i \in DOMAIN wire[r] /\ wire'[r][i] = wire[r][i]
        BY <1>3, <3>2
      <4> QED BY <1>1, <4>1, TableFacts
    <3> QED BY <3>1, <3>2
  <2> QED BY <1>1, <1>4, <2>1, <2>2, <2>3, <2>4, FramesKept, TableFacts
<1>9. WaiterReachable'
  <2>1. ASSUME NEW u \in Callers, Waiting(u)'
        PROVE  rid'[u] \in DOMAIN pending'[held'[u]] /\ pending'[held'[u]][rid'[u]] = u
    <3>1. CASE u = t
      BY <1>0, <1>1, <1>2, <3>1, Registered
    <3>2. CASE u # t
      <4>1. Waiting(u) /\ rid'[u] = rid[u] /\ held'[u] = held[u] /\ held[u] \in Conns
        BY <1>1, <1>2, <2>1, <3>2 DEF Waiting, PlaceInv
      <4> QED BY <1>1, <4>1, Registered DEF WaiterReachable
    <3> QED BY <3>1, <3>2
  <2> QED BY <2>1 DEF WaiterReachable
<1>10. OwnReply'
  BY <1>1 DEF OwnReply
<1>11. QED
  BY <1>4, <1>5, <1>6, <1>8, <1>9, <1>10

-----------------------------------------------------------------------------
\* The invariant after a step that takes slots out of tables, told or timed out, moves frames
\* or readers, and leaves alone whoever still has a slot.
LEMMA ShrinkInv ==
    ASSUME IInv, TypeOK', PlaceInv', WireInv', UNCHANGED <<nextId, round>>,
           \A c \in Conns : \A id \in DOMAIN pending'[c] :
              /\ id \in DOMAIN pending[c] /\ pending'[c][id] = pending[c][id]
              /\ \A u \in Callers : pending[c][id] = u /\ Awaited(c, id, u) => Awaited(c, id, u)',
           \A u \in Callers : Waiting(u)' =>
              /\ Waiting(u) /\ held'[u] = held[u] /\ rid'[u] = rid[u]
              /\ rid[u] \in DOMAIN pending'[held[u]],
           \A u \in Callers : told'[u].kind = "reply" =>
              told'[u] = told[u] \/ told'[u].of = <<u, round[u]>>,
           \A s \in Sockets :
              /\ \A i \in DOMAIN wire'[s] :
                    /\ reader'[s].conn \in Conns
                    /\ Good(reader'[s].conn, wire'[s][i])
              /\ reader'[s].at = "deliver" =>
                    /\ reader'[s].conn \in Conns /\ reader'[s].hand # << >>
                    /\ Good(reader'[s].conn, reader'[s].hand[1])
    PROVE  IInv'
<1>1. FrameInv'
  <2>1. ASSUME NEW c \in Conns, NEW id \in DOMAIN pending'[c]
        PROVE  id < nextId'[c] /\ id \in Ids
    BY TableFacts
  <2>2. \A c \in Conns : nextId'[c] >= nextId[c]
    BY DEF IInv, TypeOK, Ids
  <2> QED BY <2>1, <2>2, FramesKept
<1>2. WaiterReachable'
  <2>1. ASSUME NEW u \in Callers, Waiting(u)'
        PROVE  rid'[u] \in DOMAIN pending'[held'[u]] /\ pending'[held'[u]][rid'[u]] = u
    <3>1. /\ Waiting(u) /\ held'[u] = held[u] /\ rid'[u] = rid[u]
          /\ rid[u] \in DOMAIN pending'[held[u]]
      BY <2>1
    <3>2. held[u] \in Conns
      BY <3>1 DEF Waiting, IInv, PlaceInv, Threads
    <3>3. pending[held[u]][rid[u]] = u
      BY <3>1 DEF IInv, WaiterReachable
    <3> QED BY <3>1, <3>2, <3>3
  <2> QED BY <2>1 DEF WaiterReachable
<1>3. OwnReply'
  BY DEF IInv, OwnReply
<1>4. QED
  BY <1>1, <1>2, <1>3 DEF IInv

\* A request whose time is up takes its slot with it.
LEMMA TimeoutInv ==
    ASSUME IInv, NEW t \in Callers, Timeout(t) PROVE IInv'
<1> USE DEF IInv
<1> DEFINE Steps == {"idle", "dial", "request", "redial", "send", "abort", "wait", "drop",
                     "close", "fail", "done"}
<1>0. PICK c \in Conns : c = held[t]
  BY DEF Timeout, Waiting, PlaceInv, Threads
<1>1. /\ pc \in [Threads -> Steps] /\ Waiting(t) /\ t \in Threads /\ Callers \subseteq Threads
      /\ held \in [Threads -> Conns \cup {None}] /\ rid \in [Callers -> Ids]
      /\ pending = [d \in Conns |-> pending[d]]
      /\ pending' = [pending EXCEPT ![c] = Forget(@, rid[t])]
      /\ AfterError(t) /\ Release(t)
      /\ UNCHANGED <<pool, sock, closed, nextId, writer, wires, reader, round, victim, told,
                     overlap>>
  BY <1>0 DEF Timeout, PopSlot, TypeOK, WireInv, Threads
<1>2. PICK l \in {"idle", "done", "drop"} :
          pc' = [pc EXCEPT ![t] = l] /\ (l = "idle" => round[t] < Rounds[t])
  <2>1. Rounds[t] \in Nat /\ round[t] \in Nat /\ round[t] <= Rounds[t]
    BY RoundsAssumption DEF TypeOK
  <2>2. Finished(t) \in {"idle", "done"} /\ (Finished(t) = "idle" => round[t] < Rounds[t])
    BY <2>1 DEF Finished
  <2> QED BY <1>1, <2>2 DEF AfterError, Goto
<1>3. /\ pc' \in [Threads -> Steps] /\ held' \in [Threads -> Conns \cup {None}]
      /\ rid' \in [Callers -> Ids] /\ pc'[t] = l
      /\ \A u \in Threads \ {t} : pc'[u] = pc[u] /\ held'[u] = held[u]
      /\ \A u \in Callers \ {t} : rid'[u] = rid[u]
  BY <1>1, <1>2 DEF Release, Ids
<1>4. /\ pending' = [d \in Conns |-> pending'[d]]
      /\ \A d \in Conns \ {c} : pending'[d] = pending[d]
      /\ DOMAIN pending'[c] = DOMAIN pending[c] \ {rid[t]}
      /\ \A id \in DOMAIN pending'[c] : pending'[c][id] = pending[c][id]
  <2>1. /\ DOMAIN Forget(pending[c], rid[t]) = DOMAIN pending[c] \ {rid[t]}
        /\ \A id \in DOMAIN pending[c] \ {rid[t]} :
              Forget(pending[c], rid[t])[id] = pending[c][id]
    BY SlotForgotten
  <2> QED BY <1>1, <2>1
<1>5. TypeOK'
  <2>1. \A d \in Conns : DOMAIN pending'[d] \subseteq Ids
                         /\ \A id \in DOMAIN pending'[d] : pending'[d][id] \in Callers
    BY <1>4 DEF TypeOK
  <2> QED BY <1>1, <1>3, <2>1 DEF TypeOK, wires
<1>6. PlaceInv'
  <2>1. told[t] = Nothing
    BY <1>1 DEF Waiting
  <2> QED BY <1>1, <1>2, <1>3, <2>1 DEF PlaceInv
<1>7. WireInv'
  BY <1>1, <1>4 DEF WireInv, wires
<1>8. ASSUME NEW d \in Conns, NEW id \in DOMAIN pending'[d]
      PROVE  /\ id \in DOMAIN pending[d] /\ pending'[d][id] = pending[d][id]
             /\ \A u \in Callers : Awaited(d, id, u) => Awaited(d, id, u)'
  <2>1. id \in DOMAIN pending[d] /\ pending'[d][id] = pending[d][id]
    BY <1>4
  <2>2. ASSUME NEW u \in Callers, Awaited(d, id, u) PROVE Awaited(d, id, u)'
    <3>1. u # t
      BY <1>0, <1>4, <2>2 DEF Awaited
    <3> QED BY <1>1, <1>3, <2>2, <3>1 DEF Awaited, Waiting
  <2> QED BY <2>1, <2>2
<1>9. ASSUME NEW u \in Callers, Waiting(u)'
      PROVE  /\ Waiting(u) /\ held'[u] = held[u] /\ rid'[u] = rid[u]
             /\ rid[u] \in DOMAIN pending'[held[u]]
  <2>1. u # t /\ Waiting(u) /\ held'[u] = held[u] /\ rid'[u] = rid[u]
    BY <1>1, <1>2, <1>3, <1>9 DEF Waiting
  <2>2. held[u] \in Conns
    BY <2>1 DEF Waiting, PlaceInv, Threads
  <2>3. /\ rid[u] \in DOMAIN pending[held[u]] /\ pending[held[u]][rid[u]] = u
        /\ pending[c][rid[t]] = t
    BY <1>0, <1>1, <2>1 DEF WaiterReachable
  <2>4. held[u] = c => rid[u] # rid[t]
    BY <2>1, <2>3
  <2> QED BY <1>4, <2>1, <2>2, <2>3, <2>4
<1>10. UNCHANGED <<nextId, round, told, wire, reader>>
  BY <1>1 DEF wires
<1>11. ASSUME NEW s \in Sockets
       PROVE  /\ \A i \in DOMAIN wire'[s] :
                    reader'[s].conn \in Conns /\ Good(reader'[s].conn, wire'[s][i])
              /\ reader'[s].at = "deliver" =>
                    /\ reader'[s].conn \in Conns /\ reader'[s].hand # << >>
                    /\ Good(reader'[s].conn, reader'[s].hand[1])
  BY <1>10, TableFacts
<1>12. \A u \in Callers : told'[u].kind = "reply" =>
           told'[u] = told[u] \/ told'[u].of = <<u, round[u]>>
  BY <1>10
<1> HIDE DEF IInv
<1>13. QED
  BY <1>5, <1>6, <1>7, <1>8, <1>9, <1>10, <1>11, <1>12, ShrinkInv

\* Failing a connection tells everyone who waits on it, and nobody else.
LEMMA Failed ==
    ASSUME IInv, NEW c \in Conns, FailAll(c)
    PROVE  /\ pending' = [d \in Conns |-> pending'[d]] /\ DOMAIN pending'[c] = {}
           /\ \A d \in Conns \ {c} : pending'[d] = pending[d]
           /\ told' \in [Callers -> Told]
           /\ \A u \in Callers : \/ told'[u] = told[u] /\ ~(Waiting(u) /\ held[u] = c)
                                 \/ told'[u] = Error /\ Waiting(u) /\ held[u] = c
<1> USE DEF IInv
<1>1. /\ told' = [u \in Callers |-> IF \E id \in DOMAIN pending[c] : pending[c][id] = u
                                          /\ Waiting(u) /\ held[u] = c /\ rid[u] = id
                                       THEN Error ELSE told[u]]
      /\ pending' = [pending EXCEPT ![c] = <<>>]
      /\ pending = [d \in Conns |-> pending[d]]
  BY DEF FailAll, WireInv
<1>2. DOMAIN << >> = {}
  <2>1. DOMAIN << >> = 1..Len(<< >>) /\ Len(<< >>) = 0
    OBVIOUS
  <2> QED BY <2>1
<1>3. told' \in [Callers -> Told]
  BY <1>1 DEF TypeOK, Told
<1>4. ASSUME NEW u \in Callers
      PROVE  \/ told'[u] = told[u] /\ ~(Waiting(u) /\ held[u] = c)
             \/ told'[u] = Error /\ Waiting(u) /\ held[u] = c
  BY <1>1 DEF WaiterReachable
<1>5. QED
  BY <1>1, <1>2, <1>3, <1>4

\* A step that fails a connection, and moves no thread that waits.
LEMMA FailInv ==
    ASSUME IInv, TypeOK', PlaceInv', WireInv', NEW c \in Conns, FailAll(c),
           UNCHANGED <<nextId, round, held, rid, wire>>,
           \A u \in Callers : pc'[u] = "wait" <=> pc[u] = "wait",
           \A s \in Sockets : /\ reader'[s].conn = reader[s].conn
                              /\ reader'[s].at = "deliver" => reader'[s] = reader[s]
    PROVE  IInv'
<1> USE DEF IInv
<1>1. ASSUME NEW d \in Conns, NEW id \in DOMAIN pending'[d]
      PROVE  /\ id \in DOMAIN pending[d] /\ pending'[d][id] = pending[d][id]
             /\ \A u \in Callers : Awaited(d, id, u) => Awaited(d, id, u)'
  <2>1. d # c /\ pending'[d] = pending[d]
    BY Failed
  <2>2. ASSUME NEW u \in Callers, Awaited(d, id, u) PROVE Awaited(d, id, u)'
    BY <2>1, <2>2, Failed DEF Awaited, Waiting
  <2> QED BY <2>1, <2>2
<1>2. ASSUME NEW u \in Callers, Waiting(u)'
      PROVE  Waiting(u) /\ rid[u] \in DOMAIN pending'[held[u]]
  <2>1. Waiting(u) /\ held[u] # c
    BY <1>2, Failed DEF Waiting, Nothing, Error
  <2>2. held[u] \in Conns
    BY <2>1 DEF Waiting, PlaceInv, Threads
  <2>3. pending'[held[u]] = pending[held[u]]
    BY <2>1, <2>2, Failed
  <2> QED BY <2>1, <2>3 DEF WaiterReachable
<1>3. \A u \in Callers : told'[u].kind = "reply" => told'[u] = told[u]
  BY Failed DEF Error
<1>4. QED
  BY <1>1, <1>2, <1>3, ShrinkInv, TableFacts

\* The second half of a close, of a send that failed and of drop.
LEMMA CloseFailsInv ==
    ASSUME IInv, NEW t \in Threads, CloseFails(t) PROVE IInv'
<1> USE DEF IInv
<1> DEFINE Steps == {"idle", "dial", "request", "redial", "send", "abort", "wait", "drop",
                     "close", "fail", "done"}
<1>0. PICK c \in Conns : c = victim[t]
  BY DEF CloseFails, PlaceInv
<1>1. /\ pc \in [Threads -> Steps] /\ pc[t] = "fail" /\ Callers \subseteq Threads
      /\ victim \in [Threads -> Conns \cup {None}]
      /\ (t = Closer \/ t \in Callers) /\ Closer \notin Callers /\ FailAll(c)
      /\ writer \in [Conns -> Callers \cup {None}] /\ None \notin Threads
      /\ writer' = IF writer[c] = t THEN [writer EXCEPT ![c] = None] ELSE writer
      /\ victim' = [victim EXCEPT ![t] = None]
      /\ UNCHANGED <<pool, sock, closed, nextId, wires, reader, round, held, rid, overlap>>
  BY <1>0, CloserAssumption, NoneAssumption DEF CloseFails, FailWaiters, TypeOK, Threads
<1>2. PICK l \in {"idle", "done", "drop"} :
          pc' = [pc EXCEPT ![t] = l] /\ (l = "idle" => t \in Callers /\ round[t] < Rounds[t])
  <2>1. t \in Callers => /\ Finished(t) \in {"idle", "done"}
                         /\ Finished(t) = "idle" => round[t] < Rounds[t]
    BY RoundsAssumption DEF Finished, TypeOK
  <2>2. writer[c] = t => t \in Callers
    BY <1>1
  <2>3. CASE writer[c] = t
    <3>1. AfterError(t)
      BY <1>0, <2>3 DEF CloseFails
    <3> QED BY <2>1, <2>2, <2>3, <3>1 DEF AfterError, Goto
  <2>4. CASE writer[c] # t
    <3>1. Goto(t, IF t = Closer THEN "done" ELSE Finished(t))
      BY <1>0, <2>4 DEF CloseFails
    <3> QED BY <1>1, <2>1, <3>1 DEF Goto
  <2> QED BY <2>3, <2>4
<1>3. /\ pc' \in [Threads -> Steps] /\ pc'[t] = l /\ \A u \in Threads \ {t} : pc'[u] = pc[u]
      /\ victim' \in [Threads -> Conns \cup {None}]
      /\ \A u \in Threads \ {t} : victim'[u] = victim[u]
      /\ writer' \in [Conns -> Callers \cup {None}]
  BY <1>1, <1>2
<1>4. TypeOK'
  <2>1. \A d \in Conns : DOMAIN pending'[d] \subseteq Ids
                         /\ \A id \in DOMAIN pending'[d] : pending'[d][id] \in Callers
    BY <1>1, Failed DEF TypeOK
  <2> QED BY <1>1, <1>3, <2>1, Failed DEF TypeOK, wires
<1>5. PlaceInv'
  <2>1. \A u \in Callers : told'[u] # Nothing => pc[u] = "wait"
    BY <1>1, Failed DEF PlaceInv, Waiting
  <2> QED BY <1>1, <1>2, <1>3, <2>1 DEF PlaceInv
<1>6. WireInv'
  BY <1>1, Failed DEF WireInv, wires
<1>7. \A u \in Callers : pc'[u] = "wait" <=> pc[u] = "wait"
  BY <1>1, <1>2, <1>3
<1>8. QED
  BY <1>1, <1>4, <1>5, <1>6, <1>7, FailInv DEF wires

-----------------------------------------------------------------------------
\* A reader starts on the socket its object has by then, and ends by failing the object.
LEMMA ReaderInv ==
    ASSUME IInv, NEW s \in Sockets, ReaderStarts(s) \/ ReaderEnds(s) PROVE IInv'
<1> USE DEF IInv
<1> DEFINE Readers == [conn : Conns \cup {None}, at : {"new", "read", "deliver", "gone"},
                       src : Sockets \cup {NoSocket}, hand : Seq(Frame)]
<1>0. PICK c \in Conns : c = reader[s].conn
  BY DEF ReaderStarts, ReaderEnds, WireInv
<1>1. reader \in [Sockets -> Readers] /\ s <= dialed
  BY DEF ReaderStarts, ReaderEnds, WireInv, TypeOK
<1>2. CASE ReaderStarts(s)
  <2>1. PICK src \in Sockets \cup {NoSocket}, at \in {"read", "gone"} :
              /\ reader' = [reader EXCEPT ![s].src = src, ![s].at = at]
              /\ src = sock[c] /\ (at = "read" => src # NoSocket)
    BY <1>0, <1>2 DEF ReaderStarts, TypeOK
  <2>2. /\ reader' \in [Sockets -> Readers] /\ reader'[s].conn = c
        /\ reader'[s].src = src /\ reader'[s].at = at
        /\ \A r \in Sockets : reader'[r].conn = reader[r].conn
        /\ \A r \in Sockets \ {s} : reader'[r] = reader[r]
    <3>1. reader[s] \in Readers /\ reader[s].conn = c
      BY <1>0, <1>1
    <3>2. reader'[s] = [conn |-> c, at |-> at, src |-> src, hand |-> reader[s].hand]
      BY <1>1, <2>1, <3>1
    <3>3. \A r \in Sockets \ {s} : reader'[r] = reader[r]
      BY <1>1, <2>1
    <3>4. reader'[s] \in Readers
      BY <3>1, <3>2
    <3>5. \A r \in Sockets : reader'[r] \in Readers /\ reader'[r].conn = reader[r].conn
      BY <1>0, <1>1, <3>2, <3>3, <3>4
    <3>6. DOMAIN reader' = Sockets /\ reader' = [r \in Sockets |-> reader'[r]]
      BY <1>1, <2>1
    <3> HIDE DEF Readers
    <3>7. reader' \in [Sockets -> Readers]
      BY <3>5, <3>6
    <3> QED BY <3>2, <3>3, <3>5, <3>7
  <2>3. UNCHANGED <<pool, sock, closed, nextId, pending, writer, dialed, shut, console, wire,
                    pc, round, held, rid, victim, told, overlap>>
    BY <1>2 DEF ReaderStarts, objects, wires, threads
  <2>4. TypeOK'
    BY <2>2, <2>3 DEF TypeOK
  <2>5. PlaceInv'
    BY <2>3 DEF PlaceInv
  <2>6. WireInv'
    <3>1. at = "read" => src <= dialed /\ src \in Sockets /\ reader[src].conn = c
      BY <2>1 DEF WireInv
    <3>2. \A r \in Sockets : reader[r].at \in {"read", "deliver"} => reader[r].src \in Sockets
      BY <1>1 DEF WireInv
    <3>3. ASSUME NEW r \in Sockets
          PROVE  /\ r > dialed => wire[r] = <<>> /\ reader'[r].at = "gone"
                 /\ r <= dialed => reader'[r].conn \in Conns
                 /\ reader'[r].at # "gone" => r <= dialed
                 /\ reader'[r].at \in {"read", "deliver"} =>
                       /\ reader'[r].src # NoSocket /\ reader'[r].src <= dialed
                       /\ reader'[reader'[r].src].conn = reader'[r].conn
                 /\ reader'[r].at = "deliver" => reader'[r].hand # <<>>
      <4>1. CASE r = s
        <5>1. ~(r > dialed)
          BY <1>1, <4>1 DEF TypeOK, Sockets
        <5> QED BY <1>0, <1>1, <2>1, <2>2, <3>1, <4>1, <5>1
      <4>2. CASE r # s
        <5>1. /\ r > dialed => wire[r] = <<>> /\ reader[r].at = "gone"
              /\ r <= dialed => reader[r].conn \in Conns
              /\ reader[r].at # "gone" => r <= dialed
              /\ reader[r].at \in {"read", "deliver"} =>
                    /\ reader[r].src # NoSocket /\ reader[r].src <= dialed
                    /\ reader[reader[r].src].conn = reader[r].conn
              /\ reader[r].at = "deliver" => reader[r].hand # <<>>
          BY DEF WireInv
        <5> QED BY <2>2, <3>2, <4>2, <5>1
      <4> QED BY <4>1, <4>2
    <3>4. \A d \in Conns : sock[d] # NoSocket => sock[d] <= dialed /\ reader'[sock[d]].conn = d
      BY <2>2 DEF WireInv, TypeOK
    <3> QED BY <2>3, <3>3, <3>4 DEF WireInv
  <2>7. ASSUME NEW r \in Sockets
        PROVE  /\ \A i \in DOMAIN wire'[r] :
                     reader'[r].conn \in Conns /\ Good(reader'[r].conn, wire'[r][i])
               /\ reader'[r].at = "deliver" =>
                     /\ reader'[r].conn \in Conns /\ reader'[r].hand # << >>
                     /\ Good(reader'[r].conn, reader'[r].hand[1])
    BY <2>1, <2>2, <2>3, TableFacts
  <2> QED BY <2>3, <2>4, <2>5, <2>6, <2>7, ShrinkInv
             DEF Awaited, Waiting, OwnReply, WaiterReachable
<1>3. CASE ReaderEnds(s)
  <2>1. /\ FailAll(c) /\ reader' = [reader EXCEPT ![s].at = "gone"]
        /\ UNCHANGED <<pool, sock, closed, nextId, writer, dialed, shut, console, wire,
                       pc, round, held, rid, victim, overlap>>
    BY <1>0, <1>3 DEF ReaderEnds, wires
  <2>2. /\ reader' \in [Sockets -> Readers] /\ reader'[s].at = "gone"
        /\ \A r \in Sockets : /\ reader'[r].conn = reader[r].conn
                              /\ reader'[r].at # "gone" => reader'[r] = reader[r]
                              /\ reader[r].at = "gone" => reader'[r].at = "gone"
    BY <1>1, <2>1
  <2>3. TypeOK'
    <3>1. \A d \in Conns : DOMAIN pending'[d] \subseteq Ids
                           /\ \A id \in DOMAIN pending'[d] : pending'[d][id] \in Callers
      BY Failed, <2>1 DEF TypeOK
    <3> QED BY <2>1, <2>2, <3>1, Failed DEF TypeOK
  <2>4. PlaceInv'
    <3>1. \A u \in Callers : told'[u] # Nothing => pc[u] = "wait"
      BY <2>1, Failed DEF PlaceInv, Waiting
    <3> QED BY <2>1, <3>1 DEF PlaceInv
  <2>5. WireInv'
    <3>1. ASSUME NEW r \in Sockets
          PROVE  /\ r > dialed => wire[r] = <<>> /\ reader'[r].at = "gone"
                 /\ r <= dialed => reader'[r].conn \in Conns
                 /\ reader'[r].at # "gone" => r <= dialed
                 /\ reader'[r].at \in {"read", "deliver"} =>
                       /\ reader'[r].src # NoSocket /\ reader'[r].src <= dialed
                       /\ reader'[reader'[r].src].conn = reader'[r].conn
                 /\ reader'[r].at = "deliver" => reader'[r].hand # <<>>
      <4>1. reader[r].at \in {"read", "deliver"} => reader[r].src \in Sockets
        BY <1>1 DEF WireInv
      <4>2. /\ r > dialed => wire[r] = <<>> /\ reader[r].at = "gone"
            /\ r <= dialed => reader[r].conn \in Conns
            /\ reader[r].at # "gone" => r <= dialed
            /\ reader[r].at \in {"read", "deliver"} =>
                  /\ reader[r].src # NoSocket /\ reader[r].src <= dialed
                  /\ reader[reader[r].src].conn = reader[r].conn
            /\ reader[r].at = "deliver" => reader[r].hand # <<>>
        BY DEF WireInv
      <4>3. reader[r].at = "gone" \/ reader'[r] = reader[r] \/ reader'[r].at = "gone"
        BY <2>2
      <4> QED BY <2>2, <4>1, <4>2, <4>3
    <3>2. \A d \in Conns : sock[d] # NoSocket => sock[d] <= dialed /\ reader'[sock[d]].conn = d
      BY <2>2 DEF WireInv, TypeOK
    <3>3. pending' = [d \in Conns |-> pending'[d]]
      BY <2>1, Failed
    <3> QED BY <2>1, <3>1, <3>2, <3>3 DEF WireInv
  <2> QED BY <2>1, <2>2, <2>3, <2>4, <2>5, FailInv
<1>4. QED
  BY <1>2, <1>3

\* Frames move from a socket into the hands of a reader of the same object, or are lost.
LEMMA FrameMoves ==
    ASSUME IInv, NEW s \in Sockets, ReaderTakes(s) \/ ConsoleGone(s) PROVE IInv'
<1> USE DEF IInv
<1> DEFINE Readers == [conn : Conns \cup {None}, at : {"new", "read", "deliver", "gone"},
                       src : Sockets \cup {NoSocket}, hand : Seq(Frame)]
<1>1. /\ UNCHANGED <<pool, sock, closed, nextId, pending, writer, dialed, shut,
                     pc, round, held, rid, victim, told, overlap>>
      /\ console' \subseteq Sockets
  BY DEF ReaderTakes, ConsoleGone, objects, threads, TypeOK
<1>2. reader \in [Sockets -> Readers] /\ wire \in [Sockets -> Seq(Frame)]
  BY DEF TypeOK
<1>3. /\ reader' \in [Sockets -> Readers] /\ wire' \in [Sockets -> Seq(Frame)]
      /\ \A r \in Sockets :
            /\ reader'[r].conn = reader[r].conn /\ reader'[r].src = reader[r].src
            /\ reader'[r].at = "gone" <=> reader[r].at = "gone"
            /\ reader'[r].at \in {"read", "deliver"} => reader[r].at \in {"read", "deliver"}
            /\ wire[r] = << >> => wire'[r] = << >>
            /\ \A i \in DOMAIN wire'[r] :
                  \E j \in DOMAIN wire[r] : wire'[r][i] = wire[r][j]
            /\ reader'[r].at = "deliver" =>
                  \/ reader'[r] = reader[r]
                  \/ /\ reader[r].at = "read" /\ wire[reader[r].src] # << >>
                     /\ reader'[r].hand = <<wire[reader[r].src][1]>>
  <2>1. CASE ReaderTakes(s)
    <3> DEFINE src == reader[s].src
    <3>1. src \in Sockets /\ wire[src] # << >> /\ reader[s].at = "read"
      BY <1>2, <2>1 DEF ReaderTakes, WireInv
    <3>2. /\ reader' = [reader EXCEPT ![s].hand = <<wire[src][1]>>, ![s].at = "deliver"]
          /\ wire' = [wire EXCEPT ![src] = Tail(@)]
      BY <1>2, <2>1, <3>1 DEF ReaderTakes
    <3>3. /\ Tail(wire[src]) \in Seq(Frame) /\ wire[src][1] \in Frame
          /\ \A i \in DOMAIN Tail(wire[src]) :
                i + 1 \in DOMAIN wire[src] /\ Tail(wire[src])[i] = wire[src][i + 1]
      BY <1>2, <3>1
    <3> HIDE DEF src
    <3>4. wire' \in [Sockets -> Seq(Frame)] /\ wire'[src] = Tail(wire[src])
      BY <1>2, <3>1, <3>2, <3>3
    <3>5. /\ reader' \in [Sockets -> Readers] /\ reader'[s].hand = <<wire[src][1]>>
          /\ reader'[s].at = "deliver" /\ reader'[s].conn = reader[s].conn
          /\ reader'[s].src = reader[s].src
          /\ \A r \in Sockets \ {s} : reader'[r] = reader[r]
      <4>1. /\ reader'[s] = [reader[s] EXCEPT !.hand = <<wire[src][1]>>, !.at = "deliver"]
            /\ \A r \in Sockets \ {s} : reader'[r] = reader[r]
            /\ DOMAIN reader' = Sockets /\ reader' = [r \in Sockets |-> reader'[r]]
        BY <1>2, <3>2
      <4>2. reader[s] \in Readers /\ <<wire[src][1]>> \in Seq(Frame)
        BY <1>2, <3>3
      <4>3. reader'[s] = [conn |-> reader[s].conn, at |-> "deliver", src |-> reader[s].src,
                          hand |-> <<wire[src][1]>>]
        BY <4>1, <4>2
      <4>4. reader'[s] \in Readers
        BY <4>2, <4>3
      <4>5. \A r \in Sockets : reader'[r] \in Readers
        BY <1>2, <4>1, <4>4
      <4> HIDE DEF Readers
      <4>6. reader' \in [Sockets -> Readers]
        BY <4>1, <4>5
      <4> QED BY <4>1, <4>3, <4>6
    <3>6. \A r \in Sockets : r # src => wire'[r] = wire[r]
      BY <1>2, <3>2
    <3>7. \A i \in DOMAIN wire'[src] : \E j \in DOMAIN wire[src] : wire'[src][i] = wire[src][j]
      BY <3>3, <3>4
    <3>8. ASSUME NEW r \in Sockets
          PROVE  /\ reader'[r].conn = reader[r].conn /\ reader'[r].src = reader[r].src
                 /\ reader'[r].at = "gone" <=> reader[r].at = "gone"
                 /\ reader'[r].at \in {"read", "deliver"} => reader[r].at \in {"read", "deliver"}
                 /\ reader'[r].at = "deliver" =>
                       \/ reader'[r] = reader[r]
                       \/ /\ reader[r].at = "read" /\ wire[reader[r].src] # << >>
                          /\ reader'[r].hand = <<wire[reader[r].src][1]>>
      BY <3>1, <3>5 DEF src
    <3>9. ASSUME NEW r \in Sockets
          PROVE  /\ wire[r] = << >> => wire'[r] = << >>
                 /\ \A i \in DOMAIN wire'[r] : \E j \in DOMAIN wire[r] : wire'[r][i] = wire[r][j]
      BY <3>1, <3>6, <3>7
    <3> QED BY <3>4, <3>5, <3>8, <3>9
  <2>2. CASE ConsoleGone(s)
    <3>1. PICK n \in 0..Len(wire[s]) : wire' = [wire EXCEPT ![s] = SubSeq(@, 1, n)]
      BY <2>2 DEF ConsoleGone
    <3>2. /\ SubSeq(wire[s], 1, n) \in Seq(Frame)
          /\ wire[s] = << >> => SubSeq(wire[s], 1, n) = << >>
          /\ \A i \in DOMAIN SubSeq(wire[s], 1, n) :
                i \in DOMAIN wire[s] /\ SubSeq(wire[s], 1, n)[i] = wire[s][i]
      BY <1>2, <3>1
    <3>3. reader' = reader
      BY <2>2 DEF ConsoleGone
    <3> QED BY <1>2, <3>1, <3>2, <3>3
  <2> QED BY <2>1, <2>2
<1>4. TypeOK' /\ PlaceInv'
  BY <1>1, <1>3 DEF TypeOK, PlaceInv
<1>5. WireInv'
  <2>1. ASSUME NEW r \in Sockets
        PROVE  /\ r > dialed => wire'[r] = <<>> /\ reader'[r].at = "gone"
               /\ r <= dialed => reader'[r].conn \in Conns
               /\ reader'[r].at # "gone" => r <= dialed
               /\ reader'[r].at \in {"read", "deliver"} =>
                     /\ reader'[r].src # NoSocket /\ reader'[r].src <= dialed
                     /\ reader'[reader'[r].src].conn = reader'[r].conn
               /\ reader'[r].at = "deliver" => reader'[r].hand # <<>>
    <3>1. reader[r].at \in {"read", "deliver"} => reader[r].src \in Sockets
      BY <1>2 DEF WireInv
    <3>2. /\ r > dialed => wire[r] = <<>> /\ reader[r].at = "gone"
          /\ r <= dialed => reader[r].conn \in Conns
          /\ reader[r].at # "gone" => r <= dialed
          /\ reader[r].at \in {"read", "deliver"} =>
                /\ reader[r].src # NoSocket /\ reader[r].src <= dialed
                /\ reader[reader[r].src].conn = reader[r].conn
          /\ reader[r].at = "deliver" => reader[r].hand # <<>>
      BY DEF WireInv
    <3>3. reader'[r].at = "deliver" => reader'[r].hand # <<>>
      <4>1. \A x : <<x>> # << >>
        OBVIOUS
      <4>2. CASE reader'[r] = reader[r]
        BY <3>2, <4>2
      <4>3. CASE reader'[r].hand = <<wire[reader[r].src][1]>>
        BY <4>1, <4>3
      <4> QED BY <1>3, <4>2, <4>3
    <3> QED BY <1>3, <3>1, <3>2, <3>3
  <2>2. \A d \in Conns : sock[d] # NoSocket => sock[d] <= dialed /\ reader'[sock[d]].conn = d
    BY <1>3 DEF WireInv, TypeOK
  <2> QED BY <1>1, <2>1, <2>2 DEF WireInv
<1>6. ASSUME NEW r \in Sockets
      PROVE  /\ \A i \in DOMAIN wire'[r] :
                   reader'[r].conn \in Conns /\ Good(reader'[r].conn, wire'[r][i])
             /\ reader'[r].at = "deliver" =>
                   /\ reader'[r].conn \in Conns /\ reader'[r].hand # << >>
                   /\ Good(reader'[r].conn, reader'[r].hand[1])
  <2>1. \A i \in DOMAIN wire'[r] :
           reader'[r].conn \in Conns /\ Good(reader'[r].conn, wire'[r][i])
    <3>1. ASSUME NEW i \in DOMAIN wire'[r]
          PROVE  reader'[r].conn \in Conns /\ Good(reader'[r].conn, wire'[r][i])
      <4>1. PICK j \in DOMAIN wire[r] : wire'[r][i] = wire[r][j]
        BY <1>3
      <4>2. reader[r].conn \in Conns /\ Good(reader[r].conn, wire[r][j])
        BY TableFacts
      <4>3. reader'[r].conn = reader[r].conn
        BY <1>3
      <4> QED BY <4>1, <4>2, <4>3
    <3> QED BY <3>1
  <2>2. ASSUME reader'[r].at = "deliver"
        PROVE  /\ reader'[r].conn \in Conns /\ reader'[r].hand # << >>
               /\ Good(reader'[r].conn, reader'[r].hand[1])
    <3>1. CASE reader'[r] = reader[r]
      BY <2>2, <3>1, TableFacts
    <3>2. CASE /\ reader[r].at = "read" /\ wire[reader[r].src] # << >>
               /\ reader'[r].hand = <<wire[reader[r].src][1]>>
      <4>1. reader[r].src \in Sockets /\ reader[reader[r].src].conn = reader[r].conn
        BY <1>2, <3>2 DEF WireInv
      <4>2. 1 \in DOMAIN wire[reader[r].src]
        BY <1>2, <3>2, <4>1
      <4>3. reader[r].conn \in Conns /\ Good(reader[r].conn, wire[reader[r].src][1])
        BY <4>1, <4>2, TableFacts
      <4> QED BY <1>3, <3>2, <4>3
    <3> QED BY <1>3, <2>2, <3>1, <3>2
  <2> QED BY <2>1, <2>2
<1>7. QED
  BY <1>1, <1>4, <1>5, <1>6, ShrinkInv DEF Awaited, Waiting, OwnReply, WaiterReachable

\* A frame that is delivered takes its id out of the table, and its waiter is told.
LEMMA DeliverInv ==
    ASSUME IInv, NEW s \in Sockets, ReaderDelivers(s) PROVE IInv'
<1> USE DEF IInv
<1> DEFINE Readers == [conn : Conns \cup {None}, at : {"new", "read", "deliver", "gone"},
                       src : Sockets \cup {NoSocket}, hand : Seq(Frame)]
<1>0. /\ reader[s].at = "deliver" /\ reader[s].conn \in Conns
      /\ reader[s].hand \in Seq(Frame) /\ reader[s].hand # << >>
      /\ Good(reader[s].conn, reader[s].hand[1])
  BY TableFacts DEF ReaderDelivers, TypeOK
<1>1. PICK c \in Conns, f \in Frame :
          c = reader[s].conn /\ f = reader[s].hand[1] /\ Good(c, f)
  BY <1>0
<1>2. /\ \E at \in {"gone", "read"} : reader' = [reader EXCEPT ![s].hand = <<>>, ![s].at = at]
      /\ pending' = [pending EXCEPT ![c] = Forget(@, f.id)]
      /\ told' = IF f.id \in DOMAIN pending[c]
                   THEN [told EXCEPT ![pending[c][f.id]] = Reply(f)] ELSE told
      /\ UNCHANGED <<pool, sock, closed, nextId, writer, dialed, shut, console, wire, pc, round,
                     held, rid, victim, overlap>>
  BY <1>1 DEF ReaderDelivers, wires
<1>3. /\ pending' = [d \in Conns |-> pending'[d]]
      /\ \A d \in Conns \ {c} : pending'[d] = pending[d]
      /\ DOMAIN pending'[c] = DOMAIN pending[c] \ {f.id}
      /\ \A id \in DOMAIN pending'[c] : pending'[c][id] = pending[c][id]
  <2>1. /\ DOMAIN Forget(pending[c], f.id) = DOMAIN pending[c] \ {f.id}
        /\ \A id \in DOMAIN pending[c] \ {f.id} : Forget(pending[c], f.id)[id] = pending[c][id]
    BY SlotForgotten
  <2>2. pending = [d \in Conns |-> pending[d]]
    BY DEF WireInv
  <2> QED BY <1>2, <2>1, <2>2
<1>4. /\ reader' \in [Sockets -> Readers]
      /\ \A r \in Sockets : reader'[r].conn = reader[r].conn /\ reader'[r].src = reader[r].src
      /\ \A r \in Sockets \ {s} : reader'[r] = reader[r]
      /\ reader'[s].at \in {"gone", "read"}
  <2>1. PICK at \in {"gone", "read"} :
            reader' = [reader EXCEPT ![s].hand = <<>>, ![s].at = at]
    BY <1>2
  <2>2. reader \in [Sockets -> Readers] /\ reader[s] \in Readers
    BY DEF TypeOK
  <2>3. reader'[s] = [conn |-> reader[s].conn, at |-> at, src |-> reader[s].src, hand |-> << >>]
    BY <2>1, <2>2
  <2>4. reader'[s] \in Readers
    BY <2>2, <2>3
  <2>5. /\ \A r \in Sockets \ {s} : reader'[r] = reader[r]
        /\ reader' = [r \in Sockets |-> reader'[r]]
    BY <2>1, <2>2
  <2>6. \A r \in Sockets : reader'[r] \in Readers
    BY <2>2, <2>4, <2>5
  <2> HIDE DEF Readers
  <2>7. reader' \in [Sockets -> Readers]
    BY <2>5, <2>6
  <2> QED BY <2>3, <2>5, <2>7
<1>5. \/ f.id \notin DOMAIN pending[c] /\ told' = told
      \/ \E w \in Callers : /\ Awaited(c, f.id, w) /\ pending[c][f.id] = w
                            /\ f.of = <<w, round[w]>> /\ told' = [told EXCEPT ![w] = Reply(f)]
  <2>1. CASE f.id \in DOMAIN pending[c]
    <3>1. pending[c][f.id] \in Callers
      BY <2>1 DEF TypeOK
    <3> QED BY <1>1, <1>2, <2>1, <3>1 DEF Good
  <2> QED BY <1>2, <2>1
<1>6. /\ told' \in [Callers -> Told]
      /\ \A u \in Callers : \/ told'[u] = told[u] /\ ~(Awaited(c, f.id, u))
                            \/ Awaited(c, f.id, u) /\ told'[u] = Reply(f) /\ f.of = <<u, round[u]>>
  <2>1. told \in [Callers -> Told] /\ Reply(f) \in Told
    BY DEF TypeOK, Told, Reply, Frame
  <2>2. \A u \in Callers : Awaited(c, f.id, u) =>
            f.id \in DOMAIN pending[c] /\ pending[c][f.id] = u
    BY DEF WaiterReachable, Awaited
  <2> QED BY <1>5, <2>1, <2>2
<1>7. TypeOK'
  <2>1. \A d \in Conns : DOMAIN pending'[d] \subseteq Ids
                         /\ \A id \in DOMAIN pending'[d] : pending'[d][id] \in Callers
    BY <1>3 DEF TypeOK
  <2> QED BY <1>2, <1>4, <1>6, <2>1 DEF TypeOK
<1>8. PlaceInv'
  <2>1. \A u \in Callers : told'[u] # Nothing => pc[u] = "wait"
    BY <1>6 DEF PlaceInv, Awaited, Waiting
  <2> QED BY <1>2, <2>1 DEF PlaceInv
<1>9. WireInv'
  <2>1. ASSUME NEW r \in Sockets
        PROVE  /\ r > dialed => wire[r] = <<>> /\ reader'[r].at = "gone"
               /\ r <= dialed => reader'[r].conn \in Conns
               /\ reader'[r].at # "gone" => r <= dialed
               /\ reader'[r].at \in {"read", "deliver"} =>
                     /\ reader'[r].src # NoSocket /\ reader'[r].src <= dialed
                     /\ reader'[reader'[r].src].conn = reader'[r].conn
               /\ reader'[r].at = "deliver" => reader'[r].hand # <<>>
    <3>1. /\ r > dialed => wire[r] = <<>> /\ reader[r].at = "gone"
          /\ r <= dialed => reader[r].conn \in Conns
          /\ reader[r].at # "gone" => r <= dialed
          /\ reader[r].at \in {"read", "deliver"} =>
                /\ reader[r].src # NoSocket /\ reader[r].src <= dialed
                /\ reader[reader[r].src].conn = reader[r].conn
          /\ reader[r].at = "deliver" => reader[r].hand # <<>>
      BY DEF WireInv
    <3>2. reader[r].at \in {"read", "deliver"} => reader[r].src \in Sockets
      BY <3>1 DEF TypeOK
    <3>3. CASE r = s
      BY <1>0, <1>4, <3>1, <3>2, <3>3
    <3>4. CASE r # s
      BY <1>4, <3>1, <3>2, <3>4
    <3> QED BY <3>3, <3>4
  <2>2. \A d \in Conns : sock[d] # NoSocket => sock[d] <= dialed /\ reader'[sock[d]].conn = d
    BY <1>4 DEF WireInv, TypeOK
  <2> QED BY <1>2, <1>3, <2>1, <2>2 DEF WireInv
<1>10. ASSUME NEW d \in Conns, NEW id \in DOMAIN pending'[d]
       PROVE  /\ id \in DOMAIN pending[d] /\ pending'[d][id] = pending[d][id]
              /\ \A u \in Callers : Awaited(d, id, u) => Awaited(d, id, u)'
  <2>1. id \in DOMAIN pending[d] /\ pending'[d][id] = pending[d][id] /\ (d = c => id # f.id)
    BY <1>3
  <2>2. ASSUME NEW u \in Callers, Awaited(d, id, u) PROVE Awaited(d, id, u)'
    <3>1. ~Awaited(c, f.id, u)
      BY <2>1, <2>2 DEF Awaited
    <3>2. told'[u] = told[u]
      BY <1>6, <3>1
    <3> QED BY <1>2, <2>2, <3>2 DEF Awaited, Waiting
  <2> QED BY <2>1, <2>2
<1>11. ASSUME NEW u \in Callers, Waiting(u)'
       PROVE  /\ Waiting(u) /\ held'[u] = held[u] /\ rid'[u] = rid[u]
              /\ rid[u] \in DOMAIN pending'[held[u]]
  <2>1. Waiting(u) /\ ~Awaited(c, f.id, u)
    BY <1>2, <1>6, <1>11 DEF Waiting, Awaited, Reply, Nothing
  <2>2. held[u] \in Conns
    BY <2>1 DEF Waiting, PlaceInv, Threads
  <2>3. rid[u] \in DOMAIN pending[held[u]] /\ (held[u] = c => rid[u] # f.id)
    BY <2>1 DEF WaiterReachable, Awaited
  <2> QED BY <1>2, <1>3, <2>1, <2>2, <2>3
<1>12. \A u \in Callers : told'[u].kind = "reply" =>
           told'[u] = told[u] \/ told'[u].of = <<u, round[u]>>
  BY <1>6 DEF Reply
<1>13. ASSUME NEW r \in Sockets
       PROVE  /\ \A i \in DOMAIN wire'[r] :
                    reader'[r].conn \in Conns /\ Good(reader'[r].conn, wire'[r][i])
              /\ reader'[r].at = "deliver" =>
                    /\ reader'[r].conn \in Conns /\ reader'[r].hand # << >>
                    /\ Good(reader'[r].conn, reader'[r].hand[1])
  BY <1>2, <1>4, TableFacts
<1>14. UNCHANGED <<nextId, round>>
  BY <1>2
<1> HIDE DEF IInv
<1>15. QED
  BY <1>7, <1>8, <1>9, <1>10, <1>11, <1>12, <1>13, <1>14, ShrinkInv

-----------------------------------------------------------------------------
\* Every step keeps the invariant.
LEMMA StepInv == IInv /\ [Next]_vars => IInv'
<1> SUFFICES ASSUME IInv, [Next]_vars PROVE IInv'
  OBVIOUS
<1>1. ASSUME NEW t \in Threads, Closes(t) PROVE IInv'
  BY <1>1, CloserMoves, CloseFailsInv DEF Closes
<1>2. CASE Drop(Closer)
  BY <1>2, CloserMoves DEF Threads
<1>3. ASSUME NEW t \in Callers, CallerStep(t) PROVE IInv'
  BY <1>3, CallerMoves, CloserMoves, DialInv, SendInv, SendOnNothingInv DEF CallerStep, Threads
<1>4. ASSUME NEW t \in Callers, Timeout(t) PROVE IInv'
  BY <1>4, TimeoutInv
<1>5. ASSUME NEW s \in Sockets, ReaderStep(s) \/ ConsoleGone(s) PROVE IInv'
  BY <1>5, ReaderInv, FrameMoves, DeliverInv DEF ReaderStep
<1>6. CASE UNCHANGED vars
  <2>1. UNCHANGED <<pool, sock, closed, nextId, pending, writer, dialed, shut, console, wire,
                    reader, pc, round, held, rid, victim, told, overlap>>
    BY <1>6 DEF vars, objects, wires, threads
  <2>2. TypeOK' /\ PlaceInv' /\ WireInv'
    BY <2>1 DEF IInv, TypeOK, PlaceInv, WireInv
  <2>3. WaiterReachable' /\ OwnReply'
    BY <2>1 DEF IInv, Waiting, WaiterReachable, OwnReply
  <2>4. \A c, f : Good(c, f)' <=> Good(c, f)
    BY <2>1 DEF Good, Awaited, Waiting
  <2>5. FrameInv'
    BY <2>1, <2>4 DEF IInv, FrameInv
  <2> QED BY <2>2, <2>3, <2>5 DEF IInv
<1>7. QED
  BY <1>1, <1>2, <1>3, <1>4, <1>5, <1>6 DEF Next

LEMMA Invariance == Spec => []IInv
  BY InitInv, StepInv, PTL DEF Spec

\* Every variable keeps the type the program gives it.
THEOREM TypeCorrect == Spec => []TypeOK
<1>1. IInv => TypeOK
  BY DEF IInv
<1> QED BY <1>1, Invariance, PTL

\* A caller is only ever given the reply to the request it waits for, whatever sockets its
\* connection object dialed, lost and dialed again, and however many readers they left behind
\* (_next_request_id counts over the life of the object).
THEOREM RepliesBelong == Spec => []OwnReply
<1>1. IInv => OwnReply
  BY DEF IInv
<1> QED BY <1>1, Invariance, PTL

\* A caller that waits is always in the table of the connection it holds, under its own id:
\* a reply, a loss of the socket or a close can still find it.
THEOREM WaitersReachable == Spec => []WaiterReachable
<1>1. IInv => WaiterReachable
  BY DEF IInv
<1> QED BY <1>1, Invariance, PTL

-----------------------------------------------------------------------------
\* Sockets of threads that never overlap.  A connection object exists once the get() that
\* names it has begun.
Begun(c) == c # None => c[2] <= round[c[1]]
Using    == {"dial", "request", "redial", "send", "wait"}
Closing  == {"close", "abort", "fail"}

\* A thread refers to a connection object only while it uses or closes it, and an object
\* that is closed, or not made yet, has no socket.
UseInv ==
    /\ Begun(pool)
    /\ \A t \in Threads :
          /\ Begun(held[t]) /\ Begun(victim[t])
          /\ held[t] # None => pc[t] \in Using
          /\ victim[t] # None => pc[t] \in Closing
    /\ \A c \in Conns : closed[c] \/ ~Begun(c) => sock[c] = NoSocket

\* Without overlap one thread at most is at work, on the pooled object or on the one it took
\* out of the pool, and each of these two has the only socket that may be open.
AloneInv ==
    ~overlap =>
        /\ \A t, u \in Threads : AtWork(t) /\ AtWork(u) => t = u
        /\ \A t \in Threads :
              /\ pc[t] \in Using => held[t] = pool
              /\ pc[t] \in {"dial", "redial"} => sock[held[t]] = NoSocket
              /\ pc[t] = "fail" => sock[victim[t]] = NoSocket
        /\ \A s \in OpenSockets :
              \/ pool # None /\ sock[pool] = s
              \/ \E t \in Threads : victim[t] # None /\ sock[victim[t]] = s

\* Both hold before the first request.
LEMMA SequentialInit == Init => UseInv /\ AloneInv
<1> SUFFICES ASSUME Init PROVE UseInv /\ AloneInv
  OBVIOUS
<1>1. UseInv
  BY DEF Init, UseInv, Begun
<1>2. \A t \in Threads : ~AtWork(t) /\ pc[t] \notin Using /\ pc[t] # "fail"
  BY DEF Init, AtWork, Using
<1>3. OpenSockets = {}
  BY DEF Init, OpenSockets
<1> QED BY <1>1, <1>2, <1>3 DEF AloneInv, Using

\* Conns and what names them.
LEMMA ConnOfRound ==
    ASSUME NEW t \in Callers, NEW r \in 1..Rounds[t]
    PROVE  <<t, r>> \in Conns /\ <<t, r>> # None
<1>1. <<t, r>> \in {t} \X (1..Rounds[t])
  OBVIOUS
<1>2. {t} \X (1..Rounds[t]) \in {{u} \X (1..Rounds[u]) : u \in Callers}
  OBVIOUS
<1>3. <<t, r>> \in Conns
  BY <1>1, <1>2 DEF Conns
<1> QED BY <1>3, NoneAssumption

LEMMA ConnShape ==
    ASSUME NEW c \in Conns
    PROVE  c[1] \in Callers /\ c[2] \in Nat
<1>1. PICK t \in Callers : c \in {t} \X (1..Rounds[t])
  BY DEF Conns
<1> QED BY <1>1

\* Steps of the readers, of the console, and of a request under way: no object, no socket
\* and no thread's place in AloneInv changes.
LEMMA SequentialKept ==
    ASSUME IInv, UseInv, AloneInv,
           UNCHANGED <<pool, sock, closed, dialed, shut, round, held, victim, overlap>>,
           \/ UNCHANGED pc
           \/ \E t \in Callers :
                 /\ pc[t] \in Using
                 /\ \E to \in Using \ {"dial"} :
                       /\ pc' = [pc EXCEPT ![t] = to]
                       /\ to = "redial" => sock[held[t]] = NoSocket
    PROVE  UseInv' /\ AloneInv'
<1>1. \A c : Begun(c)' <=> Begun(c)
  BY DEF Begun
<1>2. \A t \in Threads : /\ pc'[t] \in Using <=> pc[t] \in Using
                         /\ pc'[t] \notin Using => pc'[t] = pc[t]
                         /\ pc'[t] \in {"dial", "redial"} =>
                               pc'[t] = pc[t] \/ sock[held[t]] = NoSocket
  BY DEF IInv, TypeOK, Using
<1>3. \A t \in Threads : AtWork(t)' <=> AtWork(t)
  BY <1>2 DEF AtWork, Using
<1>4. UseInv'
  BY <1>1, <1>2 DEF UseInv, Using, Closing
<1>5. AloneInv'
  BY <1>2, <1>3 DEF AloneInv, OpenSockets, Using
<1> QED BY <1>4, <1>5

\* A new request: nobody else is at work, so what the pool holds is the only open socket,
\* and an object that is replaced has none.
LEMMA SequentialGet ==
    ASSUME IInv, UseInv, AloneInv, NEW t \in Callers, Get(t)
    PROVE  UseInv' /\ AloneInv'
<1>0. round[t] + 1 \in 1..Rounds[t]
  <2>1. round[t] \in Nat /\ Rounds[t] \in Nat
    BY RoundsAssumption DEF IInv, TypeOK
  <2>2. pc[t] = "idle" /\ round[t] < Rounds[t]
    BY DEF Get, IInv, PlaceInv
  <2> QED BY <2>1, <2>2
<1>1. /\ pc[t] = "idle" /\ round' = [round EXCEPT ![t] = @ + 1] /\ t \in Threads
      /\ UNCHANGED <<sock, closed, dialed, shut, victim>>
      /\ held' = [held EXCEPT ![t] = pool'] /\ pool' # None
      /\ \/ pool' = pool /\ Connected(pool) /\ pc' = [pc EXCEPT ![t] = "request"]
         \/ /\ pool' = <<t, round[t] + 1>> /\ pc' = [pc EXCEPT ![t] = "dial"]
            /\ pool = None \/ ~Connected(pool)
  <2>2. <<t, round[t] + 1>> # None
    BY <1>0, ConnOfRound
  <2>3. round'[t] = round[t] + 1
    BY DEF Get, IInv, TypeOK
  <2> QED BY <2>2, <2>3 DEF Get, Goto, objects, wires, Threads
<1>2. round \in [Callers -> Nat] /\ round' \in [Callers -> Nat]
  BY <1>1 DEF IInv, TypeOK
<1>3. \A c \in Conns \cup {None} : Begun(c) => Begun(c)'
  BY <1>1, <1>2, ConnShape DEF Begun
<1>4. pool' \in Conns \cup {None} /\ Begun(pool)'
  <2>1. CASE pool' = pool
    BY <2>1, <1>3 DEF UseInv, IInv, TypeOK, Begun
  <2>2. CASE pool' = <<t, round[t] + 1>>
    <3> QED BY <2>2, <1>0, <1>1, <1>2, ConnOfRound DEF Begun
  <2> QED BY <1>1, <2>1, <2>2
<1>5. UseInv'
  <2>1. \A u \in Threads : held'[u] = held[u] \/ (u = t /\ held'[u] = pool')
    BY <1>1 DEF IInv, TypeOK
  <2>2. \A u \in Threads : Begun(held[u])' /\ Begun(victim[u])'
    BY <1>1, <1>3, <1>4, <2>1 DEF UseInv, IInv, TypeOK
  <2>3. \A u \in Threads : /\ held'[u] # None => pc'[u] \in Using
                           /\ victim'[u] # None => pc'[u] \in Closing
    BY <1>1, <2>1 DEF UseInv, IInv, TypeOK, Using, Closing
  <2>4. \A c \in Conns : closed'[c] \/ ~Begun(c)' => sock'[c] = NoSocket
    BY <1>1, <1>3 DEF UseInv
  <2> QED BY <1>4, <2>2, <2>3, <2>4 DEF UseInv
<1>6. ASSUME ~overlap' PROVE AloneInv'
  <2>1. ~overlap /\ \A u \in Threads \ {t} : ~AtWork(u)
    BY <1>6 DEF Get
  <2>2. \A u \in Threads \ {t} : pc'[u] = pc[u] /\ held'[u] = held[u] /\ ~AtWork(u)'
    BY <1>1, <2>1 DEF IInv, TypeOK, AtWork
  <2>3. \A u \in Threads \ {t} : pc'[u] \notin Using /\ pc'[u] \notin Closing
    BY <2>2 DEF AtWork, Using, Closing
  <2>4. pc'[t] \in {"request", "dial"} /\ held'[t] = pool'
    BY <1>1 DEF IInv, TypeOK
  <2>5. \A u \in Threads : victim[u] = None
    <3>1. \A u \in Threads : pc[u] \notin Closing
      BY <1>1, <2>2, <2>3 DEF Closing
    <3> QED BY <3>1 DEF UseInv
  <2>6. \A s \in OpenSockets : pool # None /\ sock[pool] = s /\ s # NoSocket
    BY <2>1, <2>5 DEF AloneInv, OpenSockets, NoSocket
  <2>7. pool = None \/ ~Connected(pool) => OpenSockets = {}
    <3>1. pool \in Conns /\ ~Connected(pool) => sock[pool] = NoSocket
      BY DEF Connected, UseInv
    <3> QED BY <3>1, <2>6 DEF IInv, TypeOK
  <2>8. pc'[t] = "dial" => sock'[pool'] = NoSocket
    <3>1. CASE pool' = <<t, round[t] + 1>>
      <4>1. ~Begun(<<t, round[t] + 1>>) /\ <<t, round[t] + 1>> \in Conns
        <5>1. <<t, round[t] + 1>> \in Conns /\ <<t, round[t] + 1>> # None
          BY <1>0, ConnOfRound
        <5>2. ~(<<t, round[t] + 1>>[2] <= round[<<t, round[t] + 1>>[1]])
          BY <1>2
        <5> QED BY <5>1, <5>2 DEF Begun
      <4> QED BY <3>1, <4>1, <1>1 DEF UseInv
    <3>2. CASE pc' = [pc EXCEPT ![t] = "request"]
      BY <1>1, <3>2 DEF IInv, TypeOK
    <3> QED BY <1>1, <3>1, <3>2
  <2>9. \A s \in OpenSockets' : pool' # None /\ sock'[pool'] = s
    BY <1>1, <2>6, <2>7 DEF OpenSockets
  <2> QED BY <2>2, <2>3, <2>4, <2>8, <2>9 DEF AloneInv, Using, Closing
<1> QED BY <1>5, <1>6 DEF AloneInv

\* A dial: the object is the pooled one and has no socket, so the new one is the only one.
LEMMA SequentialDial ==
    ASSUME IInv, UseInv, AloneInv, NEW t \in Callers, Dial(t)
    PROVE  UseInv' /\ AloneInv'
<1>1. /\ pc[t] \in {"dial", "redial"} /\ t \in Threads /\ held[t] \in Conns
      /\ dialed' = dialed + 1 /\ sock' = [sock EXCEPT ![held[t]] = dialed']
      /\ closed' = [closed EXCEPT ![held[t]] = FALSE]
      /\ \E to \in {"request", "send"} : pc' = [pc EXCEPT ![t] = to]
      /\ UNCHANGED <<pool, shut, round, held, victim, overlap>>
  BY DEF Dial, Goto, IInv, PlaceInv, Threads
<1>2. \A c : Begun(c)' <=> Begun(c)
  BY <1>1 DEF Begun
<1>3. \A u \in Threads \ {t} : pc'[u] = pc[u]
  BY <1>1 DEF IInv, TypeOK
<1>4. pc'[t] \in {"request", "send"}
  BY <1>1 DEF IInv, TypeOK
<1>5. UseInv'
  <2>1. \A u \in Threads : /\ held'[u] # None => pc'[u] \in Using
                           /\ victim'[u] # None => pc'[u] \in Closing
    BY <1>1, <1>3, <1>4 DEF UseInv, Using, Closing
  <2>2. ASSUME NEW c \in Conns, closed'[c] \/ ~Begun(c)'
        PROVE  sock'[c] = NoSocket
    <3>1. c # held[t]
      BY <1>1, <1>2, <2>2 DEF UseInv, IInv, TypeOK
    <3> QED BY <1>1, <1>2, <2>2, <3>1 DEF UseInv, IInv, TypeOK
  <2> QED BY <1>1, <1>2, <2>1, <2>2 DEF UseInv
<1>6. ASSUME ~overlap PROVE AloneInv'
  <2>1. AtWork(t) /\ AtWork(t)'
    BY <1>1, <1>4, CloserAssumption DEF AtWork
  <2>2. \A u \in Threads \ {t} : ~AtWork(u) /\ ~AtWork(u)'
    BY <1>1, <1>3, <1>6, <2>1 DEF AloneInv, AtWork
  <2>3. \A u \in Threads \ {t} : pc'[u] \notin Using /\ pc[u] \notin Closing
    BY <1>3, <2>2 DEF AtWork, Using, Closing
  <2>4. \A u \in Threads : victim[u] = None
    BY <1>1, <2>3 DEF UseInv, Closing
  <2>5. held[t] = pool /\ pool # None /\ sock[pool] = NoSocket
    BY <1>1, <1>6, NoneAssumption DEF AloneInv, Using
  <2>6. OpenSockets = {}
    BY <1>6, <2>4, <2>5 DEF AloneInv, OpenSockets, NoSocket
  <2>7. OpenSockets' \subseteq {dialed'} /\ sock'[pool] = dialed'
    <3>1. dialed \in Nat
      BY DEF IInv, TypeOK
    <3> QED BY <1>1, <2>5, <2>6, <3>1 DEF OpenSockets, IInv, TypeOK
  <2>8. \A u \in Threads : pc'[u] \notin {"dial", "redial", "fail"}
    BY <1>3, <1>4, <2>2, <2>3 DEF AtWork, Using
  <2> QED BY <1>1, <2>1, <2>2, <2>3, <2>5, <2>7, <2>8 DEF AloneInv, Using
<1> QED BY <1>1, <1>5, <1>6 DEF AloneInv

\* The end of a request: the thread lets go of the pooled object.
LEMMA SequentialRelease ==
    ASSUME IInv, UseInv, AloneInv, NEW t \in Callers,
           pc[t] \in Using, held' = [held EXCEPT ![t] = None],
           \E to \in {"idle", "done", "drop"} : pc' = [pc EXCEPT ![t] = to],
           UNCHANGED <<pool, sock, closed, dialed, shut, round, victim, overlap>>
    PROVE  UseInv' /\ AloneInv'
<1>1. t \in Threads
  BY DEF Threads
<1>2. \A c : Begun(c)' <=> Begun(c)
  BY DEF Begun
<1>3. \A u \in Threads \ {t} : pc'[u] = pc[u] /\ held'[u] = held[u]
  BY DEF IInv, TypeOK
<1>4. pc'[t] \in {"idle", "done", "drop"} /\ held'[t] = None
  BY <1>1 DEF IInv, TypeOK
<1>5. victim[t] = None
  BY <1>1 DEF UseInv, Using, Closing
<1>6. UseInv'
  <2>1. Begun(None)
    BY DEF Begun
  <2> QED BY <1>2, <1>3, <1>4, <1>5, <2>1 DEF UseInv
<1>7. AtWork(t)
  BY CloserAssumption DEF AtWork, Using
<1>8. AloneInv'
  BY <1>1, <1>3, <1>4, <1>7 DEF AloneInv, AtWork, OpenSockets, Using
<1> QED BY <1>6, <1>8

\* A write that fails: the thread goes on to close the object.
LEMMA SequentialSendFails ==
    ASSUME IInv, UseInv, AloneInv, NEW t \in Callers, SendFails(t)
    PROVE  UseInv' /\ AloneInv'
<1>1. /\ pc[t] = "send" /\ t \in Threads /\ held[t] \in Conns
      /\ victim' = [victim EXCEPT ![t] = held[t]] /\ held' = [held EXCEPT ![t] = None]
      /\ pc' = [pc EXCEPT ![t] = "abort"]
      /\ UNCHANGED <<pool, sock, closed, dialed, shut, round, overlap>>
  BY DEF SendFails, Goto, Release, IInv, PlaceInv, Threads, wires
<1>2. \A c : Begun(c)' <=> Begun(c)
  BY <1>1 DEF Begun
<1>3. \A u \in Threads \ {t} : pc'[u] = pc[u] /\ held'[u] = held[u] /\ victim'[u] = victim[u]
  BY <1>1 DEF IInv, TypeOK
<1>4. pc'[t] = "abort" /\ held'[t] = None /\ victim'[t] = held[t] /\ victim[t] = None
  BY <1>1 DEF IInv, TypeOK, UseInv, Closing
<1>5. UseInv'
  <2>1. Begun(None)
    BY DEF Begun
  <2> QED BY <1>1, <1>2, <1>3, <1>4, <2>1 DEF UseInv, Closing
<1>6. AtWork(t)
  BY <1>1, CloserAssumption DEF AtWork
<1>7. AloneInv'
  BY <1>1, <1>3, <1>4, <1>6 DEF AloneInv, AtWork, OpenSockets, Using
<1> QED BY <1>5, <1>7

\* drop(), and close() of the pool: the thread at work takes the pooled object.
LEMMA SequentialDrop ==
    ASSUME IInv, UseInv, AloneInv, NEW t \in Threads, Drop(t)
    PROVE  UseInv' /\ AloneInv'
<1>1. /\ pc[t] = "drop" /\ pool' = None
      /\ UNCHANGED <<sock, closed, dialed, shut, round, held>>
      /\ \/ /\ pool = None /\ UNCHANGED victim
            /\ \E to \in {"idle", "done"} : pc' = [pc EXCEPT ![t] = to]
         \/ /\ pool # None /\ victim' = [victim EXCEPT ![t] = pool]
            /\ pc' = [pc EXCEPT ![t] = "close"]
  BY DEF Drop, Goto, Finished, objects, wires
<1>2. \A c : Begun(c)' <=> Begun(c)
  BY <1>1 DEF Begun
<1>3. \A u \in Threads \ {t} : pc'[u] = pc[u] /\ victim'[u] = victim[u]
  BY <1>1 DEF IInv, TypeOK
<1>4. /\ victim[t] = None /\ held[t] = None
      /\ \/ pool = None /\ victim'[t] = None /\ pc'[t] \in {"idle", "done"}
         \/ pool # None /\ victim'[t] = pool /\ pc'[t] = "close"
  BY <1>1 DEF IInv, TypeOK, UseInv, Using, Closing
<1>5. UseInv'
  <2>1. Begun(None)
    BY DEF Begun
  <2> QED BY <1>1, <1>2, <1>3, <1>4, <2>1 DEF UseInv, Closing
<1>6. ASSUME ~overlap' PROVE AloneInv'
  <2>1. ~overlap /\ \A u \in Threads \ {t} : ~AtWork(u)
    <3>1. CASE t = Closer
      BY <1>6, <3>1 DEF Drop, Threads
    <3>2. CASE t # Closer
      <4>1. ~overlap /\ AtWork(t)
        BY <1>1, <1>6, <3>2 DEF Drop, AtWork
      <4> QED BY <4>1 DEF AloneInv
    <3> QED BY <3>1, <3>2
  <2>2. \A u \in Threads \ {t} : ~AtWork(u)' /\ pc'[u] \notin Using /\ pc'[u] \notin Closing
    BY <1>3, <2>1 DEF AtWork, Using, Closing
  <2>3. \A u \in Threads : victim[u] = None
    <3>1. \A u \in Threads \ {t} : pc[u] \notin Closing
      BY <1>3, <2>2
    <3> QED BY <1>4, <3>1 DEF UseInv
  <2>4. \A s \in OpenSockets' : pool # None /\ sock[pool] = s
    BY <1>1, <2>1, <2>3 DEF AloneInv, OpenSockets
  <2> QED BY <1>1, <1>4, <2>2, <2>4 DEF AloneInv, Using, Closing
<1> QED BY <1>5, <1>6 DEF AloneInv

\* close(): the socket of the object, the only open one without overlap, is closed.
LEMMA SequentialClose ==
    ASSUME IInv, UseInv, AloneInv, NEW t \in Threads, Closes(t)
    PROVE  UseInv' /\ AloneInv'
<1>1. CASE CloseSocket(t)
  <2>1. /\ pc[t] \in {"close", "abort"} /\ victim[t] \in Conns /\ pc' = [pc EXCEPT ![t] = "fail"]
        /\ closed' = [closed EXCEPT ![victim[t]] = TRUE]
        /\ sock' = [sock EXCEPT ![victim[t]] = NoSocket]
        /\ shut' = shut \cup ({sock[victim[t]]} \ {NoSocket})
        /\ UNCHANGED <<pool, dialed, round, held, victim, overlap>>
    BY <1>1 DEF CloseSocket, TakeSocket, Goto, IInv, PlaceInv
  <2>2. \A c : Begun(c)' <=> Begun(c)
    BY <2>1 DEF Begun
  <2>3. \A u \in Threads \ {t} : pc'[u] = pc[u]
    BY <2>1 DEF IInv, TypeOK
  <2>4. pc'[t] = "fail" /\ \A c \in Conns : sock'[c] = NoSocket \/ sock'[c] = sock[c]
    BY <2>1 DEF IInv, TypeOK
  <2>5. sock'[victim[t]] = NoSocket /\ \A c \in Conns \ {victim[t]} :
           sock'[c] = sock[c] /\ closed'[c] = closed[c]
    BY <2>1 DEF IInv, TypeOK
  <2>6. UseInv'
    BY <2>1, <2>2, <2>3, <2>4, <2>5 DEF UseInv, Closing, Using
  <2>7. ASSUME ~overlap PROVE AloneInv'
    <3>1. AtWork(t)
      BY <2>1 DEF AtWork
    <3>2. \A u \in Threads \ {t} : ~AtWork(u) /\ ~AtWork(u)'
      BY <2>3, <2>7, <3>1 DEF AloneInv, AtWork
    <3>3. \A u \in Threads : pc'[u] \notin Using
      BY <2>3, <2>4, <3>2 DEF AtWork, Using
    <3>4. \A u \in Threads : pc'[u] = "fail" => u = t
      BY <3>2 DEF AtWork
    <3>5. ASSUME NEW s \in OpenSockets'
          PROVE  \/ pool' # None /\ sock'[pool'] = s
                 \/ \E u \in Threads : victim'[u] # None /\ sock'[victim'[u]] = s
      <4>1. s \in OpenSockets /\ s # sock[victim[t]]
        BY <2>1 DEF OpenSockets, NoSocket
      <4>2. \A c \in Conns : sock[c] = s => sock'[c] = s
        BY <2>5, <4>1
      <4> QED BY <2>1, <2>7, <4>1, <4>2 DEF AloneInv, IInv, TypeOK
    <3> QED BY <2>1, <2>5, <3>2, <3>3, <3>4, <3>5 DEF AloneInv, Using
  <2> QED BY <2>1, <2>6, <2>7 DEF AloneInv
<1>2. CASE CloseFails(t)
  <2>1. /\ pc[t] = "fail" /\ victim' = [victim EXCEPT ![t] = None]
        /\ \E to \in {"idle", "done", "drop"} : pc' = [pc EXCEPT ![t] = to]
        /\ t = Closer => pc' = [pc EXCEPT ![t] = "done"] \/ writer[victim[t]] = t
        /\ UNCHANGED <<pool, sock, closed, dialed, shut, round, held, overlap>>
    BY <1>2 DEF CloseFails, AfterError, Finished, Goto, wires
  <2>2. \A c : Begun(c)' <=> Begun(c)
    BY <2>1 DEF Begun
  <2>3. \A u \in Threads \ {t} : pc'[u] = pc[u] /\ victim'[u] = victim[u]
    BY <2>1 DEF IInv, TypeOK
  <2>4. pc'[t] \in {"idle", "done", "drop"} /\ victim'[t] = None /\ held[t] = None
    BY <2>1 DEF IInv, TypeOK, UseInv, Using
  <2>5. UseInv'
    <3>1. Begun(None)
      BY DEF Begun
    <3> QED BY <2>1, <2>2, <2>3, <2>4, <3>1 DEF UseInv
  <2>6. ASSUME ~overlap PROVE AloneInv'
    <3>1. AtWork(t)
      BY <2>1 DEF AtWork
    <3>2. \A u \in Threads \ {t} : ~AtWork(u) /\ ~AtWork(u)'
      BY <2>3, <2>6, <3>1 DEF AloneInv, AtWork
    <3>3. \A u \in Threads : pc'[u] \notin Using /\ pc'[u] # "fail"
      BY <2>3, <2>4, <3>2 DEF AtWork, Using
    <3>4. sock[victim[t]] = NoSocket
      BY <2>1, <2>6 DEF AloneInv
    <3>5. OpenSockets' = OpenSockets /\ NoSocket \notin OpenSockets
      BY <2>1 DEF OpenSockets, NoSocket
    <3>6. ASSUME NEW s \in OpenSockets'
          PROVE  \/ pool' # None /\ sock'[pool'] = s
                 \/ \E u \in Threads : victim'[u] # None /\ sock'[victim'[u]] = s
      BY <2>1, <2>3, <2>6, <3>4, <3>5 DEF AloneInv
    <3> QED BY <3>2, <3>3, <3>6 DEF AloneInv, Using
  <2> QED BY <2>1, <2>5, <2>6 DEF AloneInv
<1> QED BY <1>1, <1>2 DEF Closes

\* Every step keeps both.
LEMMA SequentialStep == IInv /\ UseInv /\ AloneInv /\ [Next]_vars => UseInv' /\ AloneInv'
<1> SUFFICES ASSUME IInv, UseInv, AloneInv, [Next]_vars PROVE UseInv' /\ AloneInv'
  OBVIOUS
<1>1. ASSUME NEW t \in Callers, CallerStep(t) \/ Timeout(t) PROVE UseInv' /\ AloneInv'
  <2>1. CASE Request(t) \/ Send(t)
    <3>1. /\ pc[t] \in Using
          /\ \E to \in Using \ {"dial"} :
                pc' = [pc EXCEPT ![t] = to] /\ (to = "redial" => sock[held[t]] = NoSocket)
      BY <2>1 DEF Request, Send, Goto, Using
    <3>2. UNCHANGED <<pool, sock, closed, dialed, shut, round, held, victim, overlap>>
      BY <2>1 DEF Request, Send, objects, wires
    <3> QED BY <3>1, <3>2, SequentialKept
  <2>2. CASE DialFails(t) \/ Wake(t) \/ Timeout(t) \/ SendOnNothing(t)
    <3>1. /\ pc[t] \in Using /\ held' = [held EXCEPT ![t] = None]
          /\ UNCHANGED <<pool, sock, closed, dialed, shut, round, victim, overlap>>
      BY <2>2 DEF DialFails, Wake, Timeout, SendOnNothing, Waiting, Release, Using, objects, wires
    <3>2. \E to \in {"idle", "done", "drop"} : pc' = [pc EXCEPT ![t] = to]
      BY <2>2 DEF DialFails, Wake, Timeout, SendOnNothing, AfterError, Finished, Goto
    <3> QED BY <3>1, <3>2, SequentialRelease
  <2> QED BY <1>1, <2>1, <2>2, SequentialGet, SequentialDial, SequentialSendFails,
             SequentialDrop DEF CallerStep, Threads
<1>2. ASSUME NEW s \in Sockets, ReaderStep(s) \/ ConsoleGone(s) PROVE UseInv' /\ AloneInv'
  <2>1. \/ ReaderStarts(s) \/ ReaderTakes(s) \/ ReaderDelivers(s) \/ ReaderEnds(s)
        \/ ConsoleGone(s)
    BY <1>2 DEF ReaderStep
  <2>2. UNCHANGED <<pool, sock, closed, dialed, shut, pc, round, held, victim, overlap>>
    BY <2>1 DEF ReaderStarts, ReaderTakes, ReaderDelivers, ReaderEnds, ConsoleGone, objects,
                wires, threads
  <2> QED BY <2>2, SequentialKept
<1>3. CASE UNCHANGED vars
  <2>1. UNCHANGED <<pool, sock, closed, dialed, shut, pc, round, held, victim, overlap>>
    BY <1>3 DEF vars, objects, wires, threads
  <2> QED BY <2>1, SequentialKept
<1>4. CASE Drop(Closer)
  BY <1>4, SequentialDrop DEF Threads
<1> QED BY <1>1, <1>2, <1>3, <1>4, SequentialClose DEF Next

\* Threads that never overlap leave no socket open that nobody could close, whatever dials,
\* writes and consoles fail (connect, get, drop, close).
THEOREM NothingLeftBehind == Spec => []SequentialLeavesNothing
<1>1. Spec => [](UseInv /\ AloneInv)
  BY SequentialInit, SequentialStep, Invariance, PTL DEF Spec
<1>2. UseInv /\ AloneInv => SequentialLeavesNothing
  BY DEF AloneInv, SequentialLeavesNothing, Owned, InUse
<1> QED BY <1>1, <1>2, PTL

=============================================================================

-------------------------- MODULE ConnectionProofs --------------------------
(***************************************************************************)
(* What Connection promises for every set of requests and keys.            *)
(*                                                                         *)
(* OwnReply is not inductive.  A reply finds its slot by key, so what must *)
(* be known is who may stand under a key while a frame of that key is      *)
(* under way: its own request, or nobody because the key was abandoned or  *)
(* the connection retired (OutInv).  That in turn needs a request that     *)
(* waits to be the one under its key, since wait and cancel pop by key     *)
(* (RegisteredInv), and no key to be freed before its frame was read       *)
(* (ReplyInv).                                                             *)
(***************************************************************************)
EXTENDS Connection, FiniteSetTheorems, TLAPS

Held == {"write", "waiting", "expired"}

\* A retired connection has an empty table, and only a retired one has failed anybody.
RetiredInv ==
    /\ state # "open" => InFlight = {}
    /\ doomed \cup failed # {} => state # "open"

PoisonInv == poisoned \cap InFlight = {}

\* A request that was sent and not answered is under its key, or was taken out.
RegisteredInv ==
    \A r \in Requests : pc[r] \in Held =>
        pending[KeyOf[r]] = r \/ r \in doomed \cup failed

\* A frame that is not written yet is nowhere.
FrameInv == \A r \in Requests : pc[r] \in {"new", "write"} => frame[r] = "none"

\* A reply in the reader's hands or parked is off the wire, and for the right request.
ReplyInv ==
    /\ reader.at = "delivering" =>
          /\ reader.to \in Requests /\ reader.msg \in Reply
          /\ frame[reader.msg.of] = "read"
          /\ Unambiguous(reader.to) => reader.msg.of = reader.to
    /\ \A r \in Requests : message[r] # NoReply =>
          /\ message[r] \in Reply
          /\ frame[message[r].of] = "read"
          /\ Unambiguous(r) => message[r].of = r

\* While the frame of a request is under way, nobody else stands under its key.
OutInv ==
    \A r \in Requests : Unambiguous(r) /\ frame[r] \in {"out", "rsp", "err"} =>
        \/ pending[KeyOf[r]] = r
        \/ KeyOf[r] \in poisoned
        \/ state # "open"

\* A wait that failed has abandoned its key or seen the connection retired.
AnswerInv ==
    \A r \in Requests :
        /\ answer[r].kind = "timeout" => KeyOf[r] \in poisoned
        /\ answer[r].kind \in {"disconnected", "closed"} => state # "open"

IInv ==
    /\ TypeOK
    /\ PendingHasOwner
    /\ RetiredInv
    /\ PoisonInv
    /\ RegisteredInv
    /\ FrameInv
    /\ ReplyInv
    /\ OutInv
    /\ AnswerInv
    /\ OwnReply

-----------------------------------------------------------------------------
\* The slot a reply finds belongs to a request in the table with the reply's token, and
\* the reply's own key is not an abandoned one (_deliver).
LEMMA SlotFound ==
    ASSUME TypeOK, NEW q \in Requests, SlotFor(q) # None
    PROVE  /\ ReplyKey(q) \notin poisoned
           /\ \E k \in InFlight : k.token = KeyOf[q].token /\ pending[k] = SlotFor(q)
<1> DEFINE sameToken == {j \in InFlight : j.token = ReplyKey(q).token}
<1>1. ReplyKey(q).token = KeyOf[q].token
  BY DEF ReplyKey
<1>2. ReplyKey(q) \notin poisoned
  BY DEF SlotFor
<1>3. CASE ReplyKey(q) \in InFlight
  <2>1. SlotFor(q) = pending[ReplyKey(q)]
    BY <1>2, <1>3 DEF SlotFor
  <2> QED
    BY <1>1, <1>2, <1>3, <2>1
<1>4. CASE ReplyKey(q) \notin InFlight
  <2>1. /\ Cardinality(sameToken) = 1
        /\ SlotFor(q) = pending[CHOOSE j \in sameToken : TRUE]
    BY <1>2, <1>4 DEF SlotFor
  <2>2. sameToken # {}
    BY <2>1, FS_EmptySet
  <2>3. (CHOOSE j \in sameToken : TRUE) \in sameToken
    BY <2>2
  <2> QED
    BY <1>1, <1>2, <2>1, <2>3
<1> QED
  BY <1>3, <1>4

\* Only the request itself can be the one its reply finds, if nobody shares its token.
LEMMA OwnSlot ==
    ASSUME IInv, NEW q \in Requests, frame[q] \in {"rsp", "err"}, SlotFor(q) # None,
           Unambiguous(SlotFor(q))
    PROVE  SlotFor(q) = q
<1>1. PICK k \in InFlight : k.token = KeyOf[q].token /\ pending[k] = SlotFor(q)
  BY SlotFound DEF IInv
<1>2. SlotFor(q) \in Requests /\ KeyOf[SlotFor(q)] = k
  BY <1>1 DEF IInv, TypeOK, PendingHasOwner, InFlight
<1>3. KeyOf[q] = k
  BY <1>1, <1>2 DEF Unambiguous
<1>4. Unambiguous(q)
  BY <1>2, <1>3 DEF Unambiguous
<1>5. k \notin poisoned /\ state = "open"
  BY <1>1 DEF IInv, PoisonInv, RetiredInv
<1> QED
  BY <1>1, <1>3, <1>4, <1>5 DEF IInv, OutInv

\* Nothing has been sent.
LEMMA InitInv == Init => IInv
<1> SUFFICES ASSUME Init PROVE IInv
  OBVIOUS
<1>1. TypeOK
  BY DEF Init, TypeOK, Reading, NoReply, Failure, Answer
<1>2. PendingHasOwner /\ RetiredInv /\ PoisonInv /\ RegisteredInv /\ FrameInv
  BY DEF Init, PendingHasOwner, RetiredInv, PoisonInv, RegisteredInv, FrameInv, InFlight, Held
<1>3. ReplyInv /\ OutInv /\ AnswerInv /\ OwnReply
  BY DEF Init, ReplyInv, OutInv, AnswerInv, OwnReply, AnsweredByPeer, Reading, Failure
<1> QED
  BY <1>1, <1>2, <1>3 DEF IInv

\* Every step of the callers, the reader, the peer and whoever retires the connection
\* keeps the invariant.
LEMMA StepInv == IInv /\ [Next]_vars => IInv'
<1> SUFFICES ASSUME IInv, [Next]_vars PROVE IInv'
  OBVIOUS
<1> USE NoRequestAssumption DEF Parked, Wires, Failure
<1>1. ASSUME NEW r \in Requests, Register(r) PROVE IInv'
  <2>1. TypeOK'
    BY <1>1 DEF IInv, TypeOK, Register, Keys
  <2>2. PendingHasOwner' /\ RetiredInv' /\ PoisonInv'
    BY <1>1, <2>1 DEF IInv, TypeOK, Register, HoldsKey, InFlight, Keys, PendingHasOwner,
                      RetiredInv, PoisonInv
  <2>3. RegisteredInv' /\ FrameInv'
    BY <1>1 DEF IInv, TypeOK, Register, HoldsKey, InFlight, Keys, RegisteredInv, FrameInv, Held
  <2>4. OutInv'
    BY <1>1 DEF IInv, TypeOK, Register, HoldsKey, InFlight, Keys, OutInv, FrameInv, Unambiguous
  <2>5. ReplyInv' /\ AnswerInv' /\ OwnReply'
    BY <1>1 DEF IInv, Register, ReplyInv, AnswerInv, OwnReply, AnsweredByPeer, Unambiguous
  <2> QED
    BY <2>1, <2>2, <2>3, <2>4, <2>5 DEF IInv
<1>2. ASSUME NEW r \in Requests, RefuseSend(r) PROVE IInv'
  <2>1. TypeOK'
    BY <1>2 DEF IInv, TypeOK, RefuseSend, Return, Answer
  <2>2. RetiredInv' /\ PoisonInv' /\ RegisteredInv' /\ FrameInv'
    BY <1>2 DEF IInv, TypeOK, RefuseSend, Return, InFlight, RetiredInv, PoisonInv,
                RegisteredInv, FrameInv, Held
  <2>4. PendingHasOwner'
    <3>1. pc[r] = "new" /\ pending' = pending /\ InFlight' = InFlight
      BY <1>2 DEF RefuseSend, InFlight
    <3>2. \A k \in InFlight : pending[k] \in Requests /\ pending[k] # r
      BY <3>1 DEF IInv, TypeOK, InFlight, PendingHasOwner
    <3>3. \A q \in Requests : q # r => pc'[q] = pc[q]
      BY <1>2 DEF IInv, TypeOK, RefuseSend, Return
    <3> QED
      BY <3>1, <3>2, <3>3 DEF IInv, PendingHasOwner
  <2>3. ReplyInv' /\ OutInv' /\ AnswerInv' /\ OwnReply'
    BY <1>2 DEF IInv, TypeOK, RefuseSend, Return, ReplyInv, OutInv, AnswerInv, OwnReply,
                AnsweredByPeer, Unambiguous
  <2> QED
    BY <2>1, <2>2, <2>3, <2>4 DEF IInv
<1>3. ASSUME NEW r \in Requests, Write(r) PROVE IInv'
  <2>1. TypeOK'
    BY <1>3 DEF IInv, TypeOK, Write
  <2>2. PendingHasOwner' /\ RetiredInv' /\ PoisonInv' /\ RegisteredInv' /\ FrameInv'
    BY <1>3 DEF IInv, TypeOK, Write, InFlight, PendingHasOwner, RetiredInv,
                PoisonInv, RegisteredInv, FrameInv, Held
  <2>3. OutInv'
    BY <1>3 DEF IInv, TypeOK, Write, OutInv, RegisteredInv, RetiredInv, Held, Unambiguous
  <2>4. ReplyInv'
    BY <1>3 DEF IInv, TypeOK, Write, ReplyInv, FrameInv, Reply, Unambiguous
  <2>5. AnswerInv' /\ OwnReply'
    BY <1>3 DEF IInv, Write, AnswerInv, OwnReply, AnsweredByPeer, Unambiguous
  <2> QED
    BY <2>1, <2>2, <2>3, <2>4, <2>5 DEF IInv
<1>4. ASSUME NEW why \in {"disconnected", "closed"}, Retire(why)
      PROVE  /\ state' \in {"open", "disconnected", "closed"} /\ state' # "open"
             /\ pending' = [k \in Keys |-> None]
             /\ doomed' \subseteq Requests
             /\ doomed \subseteq doomed'
             /\ \A k \in InFlight : pending[k] \in doomed'
  BY <1>4 DEF IInv, TypeOK, Retire, InFlight, RetiredInv
<1>5. ASSUME NEW r \in Requests, WriteFails(r) PROVE IInv'
  <2>0. Retire("disconnected")
    BY <1>5 DEF WriteFails
  <2>1. TypeOK'
    BY <1>4, <1>5, <2>0 DEF IInv, TypeOK, WriteFails, Return, Answer
  <2>2. PendingHasOwner' /\ RetiredInv' /\ PoisonInv' /\ FrameInv'
    BY <1>4, <1>5, <2>0 DEF IInv, TypeOK, WriteFails, Return, InFlight, PendingHasOwner,
                            RetiredInv, PoisonInv, FrameInv
  <2>3. RegisteredInv'
    BY <1>4, <1>5, <2>0 DEF IInv, TypeOK, WriteFails, Return, InFlight, RegisteredInv, Held, Keys
  <2>4. ReplyInv' /\ OutInv' /\ AnswerInv' /\ OwnReply'
    BY <1>4, <1>5, <2>0 DEF IInv, TypeOK, WriteFails, Return, ReplyInv, OutInv, AnswerInv,
                            OwnReply, AnsweredByPeer, Unambiguous
  <2> QED
    BY <2>1, <2>2, <2>3, <2>4 DEF IInv
<1>6. ASSUME NEW r \in Requests, Wake(r) PROVE IInv'
  <2>1. TypeOK'
    BY <1>6, ZenonT(40)
         DEF IInv, TypeOK, Wake, Pop, Return, Answer, Reply, NoReply, EventSet, Keys, RetiredInv
  <2>2. PendingHasOwner' /\ RetiredInv' /\ PoisonInv' /\ FrameInv'
    BY <1>6 DEF IInv, TypeOK, Wake, Pop, Return, InFlight, PendingHasOwner, RetiredInv,
                PoisonInv, FrameInv, RegisteredInv, Held
  <2>3. RegisteredInv'
    BY <1>6 DEF IInv, TypeOK, Wake, Pop, Return, InFlight, RegisteredInv, RetiredInv, Held, Keys
  <2>4. OutInv'
    BY <1>6 DEF IInv, TypeOK, Wake, Pop, Return, InFlight, OutInv, RegisteredInv, RetiredInv,
                ReplyInv, EventSet, Held, Keys, Unambiguous
  <2>5. ReplyInv' /\ AnswerInv'
    BY <1>6 DEF IInv, TypeOK, Wake, Return, ReplyInv, AnswerInv, EventSet, Reply, RetiredInv,
                Unambiguous
  <2>6. OwnReply'
    BY <1>6 DEF IInv, TypeOK, Wake, Return, ReplyInv, OwnReply, AnsweredByPeer, EventSet,
                Unambiguous
  <2> QED
    BY <2>1, <2>2, <2>3, <2>4, <2>5, <2>6 DEF IInv
<1>7. ASSUME NEW r \in Requests, Expire(r) PROVE IInv'
  <2>1. TypeOK'
    BY <1>7 DEF IInv, TypeOK, Expire
  <2>2. PendingHasOwner' /\ RetiredInv' /\ PoisonInv' /\ RegisteredInv' /\ FrameInv'
    BY <1>7 DEF IInv, TypeOK, Expire, InFlight, PendingHasOwner, RetiredInv, PoisonInv,
                RegisteredInv, FrameInv, Held
  <2>3. ReplyInv' /\ OutInv' /\ AnswerInv' /\ OwnReply'
    BY <1>7 DEF IInv, TypeOK, Expire, ReplyInv, OutInv, AnswerInv, OwnReply,
                AnsweredByPeer, Unambiguous
  <2> QED
    BY <2>1, <2>2, <2>3 DEF IInv
<1>8. ASSUME NEW r \in Requests, Abandon(r) PROVE IInv'
  <2>1. TypeOK'
    BY <1>8 DEF IInv, TypeOK, Abandon, Pop, Return, Answer, Keys
  <2>2. PendingHasOwner' /\ RetiredInv' /\ PoisonInv' /\ FrameInv'
    BY <1>8 DEF IInv, TypeOK, Abandon, Pop, Return, InFlight, PendingHasOwner, RetiredInv,
                PoisonInv, FrameInv, RegisteredInv, Held
  <2>3. RegisteredInv'
    BY <1>8 DEF IInv, TypeOK, Abandon, Pop, Return, InFlight, RegisteredInv, RetiredInv, Held, Keys
  <2>4. OutInv'
    BY <1>8 DEF IInv, TypeOK, Abandon, Pop, Return, OutInv, Keys, Unambiguous
  <2>5. ReplyInv' /\ AnswerInv' /\ OwnReply'
    BY <1>8 DEF IInv, TypeOK, Abandon, Return, ReplyInv, AnswerInv, OwnReply, AnsweredByPeer,
                Unambiguous
  <2> QED
    BY <2>1, <2>2, <2>3, <2>4, <2>5 DEF IInv
<1>9. ASSUME NEW r \in Requests, Cancel(r) PROVE IInv'
  <2>1. TypeOK'
    BY <1>9 DEF IInv, TypeOK, Cancel, Pop, Keys
  <2>2. PendingHasOwner' /\ RetiredInv' /\ PoisonInv' /\ FrameInv'
    BY <1>9 DEF IInv, TypeOK, Cancel, Pop, InFlight, PendingHasOwner, RetiredInv, PoisonInv,
                FrameInv
  <2>3. KeyOf[r] \notin InFlight
    BY <1>9 DEF IInv, Cancel, AnswerInv, PoisonInv, RetiredInv
  <2>4. pending' = pending
    BY <1>9, <2>3 DEF IInv, TypeOK, Cancel, Pop, InFlight, Keys
  <2>5. RegisteredInv' /\ OutInv'
    BY <1>9, <2>4 DEF IInv, TypeOK, Cancel, RegisteredInv, OutInv, Held, Unambiguous
  <2>6. ReplyInv' /\ AnswerInv' /\ OwnReply'
    BY <1>9 DEF IInv, TypeOK, Cancel, ReplyInv, AnswerInv, OwnReply, AnsweredByPeer, Unambiguous
  <2> QED
    BY <2>1, <2>2, <2>5, <2>6 DEF IInv
<1>10. ASSUME NEW r \in Requests, Fail(r) PROVE IInv'
  <2>1. TypeOK'
    BY <1>10 DEF IInv, TypeOK, Fail
  <2>2. PendingHasOwner' /\ RetiredInv' /\ PoisonInv' /\ RegisteredInv' /\ FrameInv'
    BY <1>10 DEF IInv, TypeOK, Fail, InFlight, PendingHasOwner, RetiredInv, PoisonInv,
                 RegisteredInv, FrameInv, Held
  <2>3. ReplyInv' /\ OutInv' /\ AnswerInv' /\ OwnReply'
    BY <1>10 DEF IInv, TypeOK, Fail, ReplyInv, OutInv, AnswerInv, OwnReply, AnsweredByPeer,
                 Unambiguous
  <2> QED
    BY <2>1, <2>2, <2>3 DEF IInv
<1>11. ASSUME NEW r \in Requests, Serve(r) PROVE IInv'
  <2>1. TypeOK' /\ FrameInv'
    BY <1>11 DEF IInv, TypeOK, FrameInv, Serve
  <2>2. PendingHasOwner' /\ RetiredInv' /\ PoisonInv' /\ RegisteredInv'
    BY <1>11 DEF IInv, Serve, InFlight, PendingHasOwner, RetiredInv, PoisonInv, RegisteredInv, Held
  <2>3. ReplyInv'
    BY <1>11 DEF IInv, TypeOK, Serve, ReplyInv, Reply, Unambiguous
  <2>4. OutInv'
    BY <1>11 DEF IInv, TypeOK, Serve, OutInv, Unambiguous
  <2>5. AnswerInv' /\ OwnReply'
    BY <1>11 DEF IInv, Serve, AnswerInv, OwnReply, AnsweredByPeer, Unambiguous
  <2> QED
    BY <2>1, <2>2, <2>3, <2>4, <2>5 DEF IInv
<1>12. ASSUME NEW q \in Requests, Match(q) PROVE IInv'
  <2>0. SlotFor(q) # None => SlotFor(q) \in Requests
    BY SlotFound DEF IInv, TypeOK, InFlight
  <2>1. TypeOK' /\ FrameInv'
    BY <1>12, <2>0 DEF IInv, TypeOK, FrameInv, Match, Reading, Reply, NoReply
  <2>2. PendingHasOwner' /\ RetiredInv' /\ PoisonInv' /\ RegisteredInv'
    BY <1>12 DEF IInv, Match, InFlight, PendingHasOwner, RetiredInv, PoisonInv, RegisteredInv, Held
  <2>3. SlotFor(q) # None /\ Unambiguous(SlotFor(q)) => SlotFor(q) = q
    BY <1>12, OwnSlot DEF Match
  <2>4. ReplyInv'
    BY <1>12, <2>0, <2>3 DEF IInv, TypeOK, Match, Reading, ReplyInv, Reply, NoReply, Unambiguous
  <2>5. OutInv' /\ AnswerInv' /\ OwnReply'
    BY <1>12 DEF IInv, TypeOK, Match, OutInv, AnswerInv, OwnReply, AnsweredByPeer, Unambiguous
  <2> QED
    BY <2>1, <2>2, <2>4, <2>5 DEF IInv
<1>13. ASSUME Complete PROVE IInv'
  <2>1. TypeOK' /\ FrameInv'
    BY <1>13 DEF IInv, TypeOK, FrameInv, Complete, Reading, NoReply, ReplyInv
  <2>2. PendingHasOwner' /\ RetiredInv' /\ PoisonInv' /\ RegisteredInv'
    BY <1>13 DEF IInv, Complete, InFlight, PendingHasOwner, RetiredInv, PoisonInv,
                 RegisteredInv, Held
  <2>3. ReplyInv'
    BY <1>13 DEF IInv, TypeOK, Complete, Reading, ReplyInv, Unambiguous
  <2>4. OutInv' /\ AnswerInv' /\ OwnReply'
    BY <1>13 DEF IInv, Complete, OutInv, AnswerInv, OwnReply, AnsweredByPeer, Unambiguous
  <2> QED
    BY <2>1, <2>2, <2>3, <2>4 DEF IInv
<1>14. ASSUME ReaderEnds \/ Close PROVE IInv'
  <2>0. PICK why \in {"disconnected", "closed"} : Retire(why)
    BY <1>14 DEF ReaderEnds, Close
  <2>u. /\ UNCHANGED <<poisoned, message, failed, peer, frame, ahead, pc, answer>>
        /\ reader' = reader \/ (reader.at = "reading" /\ reader' = [Reading EXCEPT !.at = "gone"])
    BY <1>14 DEF ReaderEnds, Close
  <2>1. TypeOK'
    BY <1>4, <2>0, <2>u DEF IInv, TypeOK, Reading, NoReply
  <2>2. PendingHasOwner' /\ RetiredInv' /\ PoisonInv' /\ FrameInv'
    BY <1>4, <2>0, <2>u DEF IInv, InFlight, PendingHasOwner, RetiredInv, PoisonInv, FrameInv
  <2>3. RegisteredInv'
    BY <1>4, <2>0, <2>u DEF IInv, InFlight, RegisteredInv, Held, Keys
  <2>4. ReplyInv' /\ OutInv' /\ AnswerInv' /\ OwnReply'
    BY <1>4, <2>0, <2>u DEF IInv, ReplyInv, OutInv, AnswerInv, OwnReply, AnsweredByPeer,
                            Reading, Unambiguous
  <2> QED
    BY <2>1, <2>2, <2>3, <2>4 DEF IInv
<1>15. ASSUME PeerDown \/ UNCHANGED vars PROVE IInv'
  <2>1. TypeOK'
    BY <1>15 DEF IInv, TypeOK, PeerDown, vars
  <2>2. PendingHasOwner' /\ RetiredInv' /\ PoisonInv' /\ RegisteredInv' /\ FrameInv'
    BY <1>15 DEF IInv, PeerDown, vars, InFlight, PendingHasOwner, RetiredInv, PoisonInv,
                 RegisteredInv, FrameInv, Held
  <2>3. ReplyInv' /\ OutInv' /\ AnswerInv' /\ OwnReply'
    BY <1>15 DEF IInv, PeerDown, vars, ReplyInv, OutInv, AnswerInv, OwnReply, AnsweredByPeer,
                 Unambiguous
  <2> QED
    BY <2>1, <2>2, <2>3 DEF IInv
<1> QED
  BY <1>1, <1>2, <1>3, <1>5, <1>6, <1>7, <1>8, <1>9, <1>10, <1>11, <1>12, <1>13, <1>14, <1>15
     DEF Next, Reader

\* The invariant holds throughout.
LEMMA Invariance == Spec => []IInv
  BY InitInv, StepInv, PTL DEF Spec

\* Every variable keeps its type, whatever threads, peer and clock do.
THEOREM TypeCorrect == Spec => []TypeOK
<1>1. IInv => TypeOK
  BY DEF IInv
<1> QED
  BY Invariance, <1>1, PTL

\* A request that cannot be taken for another is handed only the reply to itself, however
\* replies, timeouts, reuse of its key and the end of the connection interleave (_deliver,
\* wait, cancel, _retire).
THEOREM RepliesMatch == Spec => []OwnReply
<1>1. IInv => OwnReply
  BY DEF IInv
<1> QED
  BY Invariance, <1>1, PTL

\* The table holds only requests that a running thread will take out (in_flight).
THEOREM NoSlotLeaks == Spec => []PendingHasOwner
<1>1. IInv => PendingHasOwner
  BY DEF IInv
<1> QED
  BY Invariance, <1>1, PTL

\* A waiting request can always be woken: nobody loses its slot (wait, _retire).
THEOREM NoLostWakeup == Spec => []WaiterReachable
<1>1. IInv => WaiterReachable
  BY DEF IInv, RegisteredInv, WaiterReachable, EventSet, Held
<1> QED
  BY Invariance, <1>1, PTL
=============================================================================

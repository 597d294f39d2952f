----------------------------- MODULE Connection -----------------------------
(***************************************************************************)
(* One persistent socket of the pooled transport: _Connection of           *)
(* ps3_cluster/transport.py, with the handles its callers hold and the     *)
(* peer at the other end (ps3_cluster/node.py).                            *)
(*                                                                         *)
(* A process is one request: the thread that sends it, waits for it and    *)
(* may give up on it.  Next to the requests run the reader thread and any  *)
(* thread that retires the connection.  Each action is what happens under  *)
(* _state_lock at once, or one step outside it; the reader leaves the lock *)
(* between choosing a pending slot and completing it, and a thread that    *)
(* retires the connection fails the slots one by one after leaving it.     *)
(*                                                                         *)
(* Abstracted: a layer is part of the expert's name, a partial write is a  *)
(* failed one, and the two directions of the socket are the place each     *)
(* request's one frame has reached.  A worker answers in the order of the  *)
(* requests, a coordinator (its _UpstreamHandler) in any order: InOrder.   *)
(***************************************************************************)
EXTENDS FiniteSets

CONSTANTS Requests,  \* requests sent over this connection
          KeyOf,     \* the correlation key of each: an expert and a token id
          Own,       \* the expert the peer holds
          InOrder,   \* whether the peer answers one request after the other
          None       \* "no request", "no reply"

Keys == {KeyOf[r] : r \in Requests}

ASSUME NoRequestAssumption == None \notin Requests
ASSUME OrderAssumption == InOrder \in BOOLEAN
ASSUME KeyAssumption ==
    \A r \in Requests : KeyOf[r] = [expert |-> KeyOf[r].expert, token |-> KeyOf[r].token]

VARIABLES state,     \* "open", or why the connection was retired
          pending,   \* _pending: the request waiting under each key, or None
          poisoned,  \* _poisoned: keys abandoned for good
          doomed,    \* slots taken out by _retire and not failed yet
          message,   \* _Pending.message
          failed,    \* requests whose _Pending.error is set
          reader,    \* the reader thread: the reply in its hands and its slot
          peer,      \* "up" or "down"
          frame,     \* where the frame of each request is
          ahead,     \* the frames written before it, if the peer keeps their order
          pc,        \* where each request stands
          answer     \* how it ended

vars == <<state, pending, poisoned, doomed, message, failed, reader, peer,
          frame, ahead, pc, answer>>

-----------------------------------------------------------------------------
\* A reply is its kind and the request it answers.
NoReply == [kind |-> "none", of |-> None]

Reply == [kind : {"rsp", "err"}, of : Requests]

Reading == [at |-> "reading", msg |-> NoReply, to |-> None]

\* How a request ended: a reply, a failure of the wait, or a failure to send at all.
Answer == [kind : {"none", "rsp", "err", "timeout", "disconnected", "closed",
                   "refused", "not open", "unsent"},
           of : Requests \cup {None}]

Failure(kind) == [kind |-> kind, of |-> None]

TypeOK ==
    /\ state    \in {"open", "disconnected", "closed"}
    /\ pending  \in [Keys -> Requests \cup {None}]
    /\ poisoned \subseteq Keys
    /\ doomed   \subseteq Requests
    /\ message  \in [Requests -> Reply \cup {NoReply}]
    /\ failed   \subseteq Requests
    /\ reader   \in [at : {"reading", "delivering", "gone"}, msg : Reply \cup {NoReply},
                     to : Requests \cup {None}]
    /\ peer     \in {"up", "down"}
    /\ frame    \in [Requests -> {"none", "out", "rsp", "err", "read"}]
    /\ ahead    \in [Requests -> SUBSET Requests]
    /\ pc       \in [Requests -> {"new", "write", "waiting", "expired", "answered"}]
    /\ answer   \in [Requests -> Answer]

Init ==
    /\ state    = "open"
    /\ pending  = [k \in Keys |-> None]
    /\ poisoned = {}
    /\ doomed   = {}
    /\ message  = [r \in Requests |-> NoReply]
    /\ failed   = {}
    /\ reader   = Reading
    /\ peer     = "up"
    /\ frame    = [r \in Requests |-> "none"]
    /\ ahead    = [r \in Requests |-> {}]
    /\ pc       = [r \in Requests |-> "new"]
    /\ answer   = [r \in Requests |-> Failure("none")]

-----------------------------------------------------------------------------
InFlight == {k \in Keys : pending[k] # None}

HoldsKey(k) == k \in InFlight \cup poisoned

EventSet(r) == message[r] # NoReply \/ r \in failed

Pop(k) == pending' = [pending EXCEPT ![k] = None]

Return(r, a) ==
    /\ pc' = [pc EXCEPT ![r] = "answered"]
    /\ answer' = [answer EXCEPT ![r] = a]

\* The two halves of a slot, the wires, and everything a caller does not touch.
Parked == <<message, failed>>
Wires  == <<peer, frame, ahead>>

\* Fault: the table is emptied and nobody fails what was in it.
RetireSilently(why) ==
    /\ state' = IF state = "open" THEN why ELSE state
    /\ pending' = [k \in Keys |-> None]
    /\ doomed' = doomed

\* _retire under the lock: the first to retire takes the pending slots; they are failed
\* after the lock is left.
Retire(why) ==
    IF state = "open"
      THEN /\ state' = why
           /\ pending' = [k \in Keys |-> None]
           /\ doomed' = doomed \cup {pending[k] : k \in InFlight}
      ELSE UNCHANGED <<state, pending, doomed>>

-----------------------------------------------------------------------------
\* send: register the key ...
Register(r) ==
    /\ pc[r] = "new"
    /\ state = "open"
    /\ ~HoldsKey(KeyOf[r])
    /\ pending' = [pending EXCEPT ![KeyOf[r]] = r]
    /\ pc' = [pc EXCEPT ![r] = "write"]
    /\ UNCHANGED <<state, poisoned, doomed, Parked, reader, Wires, answer>>

\* ... or refuse: TransportClosed, or ValueError for a key in flight or abandoned.
RefuseSend(r) ==
    /\ pc[r] = "new"
    /\ state # "open" \/ HoldsKey(KeyOf[r])
    /\ Return(r, Failure(IF state # "open" THEN "not open" ELSE "refused"))
    /\ UNCHANGED <<state, pending, poisoned, doomed, Parked, reader, Wires>>

\* ... and write the frame.
Write(r) ==
    /\ pc[r] = "write"
    /\ frame' = [frame EXCEPT ![r] = "out"]
    /\ ahead' = [ahead EXCEPT ![r] = IF InOrder THEN {q \in Requests : frame[q] # "none"} ELSE {}]
    /\ pc' = [pc EXCEPT ![r] = "waiting"]
    /\ UNCHANGED <<state, pending, poisoned, doomed, Parked, reader, peer, answer>>

\* sendall raised: retire the connection and raise.
WriteFails(r) ==
    /\ pc[r] = "write"
    /\ state # "open" \/ peer = "down"
    /\ Retire("disconnected")
    /\ Return(r, Failure("unsent"))
    /\ UNCHANGED <<poisoned, Parked, reader, Wires>>

\* wait: the event is set; pop the key, raise the slot's error or return its message.
Wake(r) ==
    /\ pc[r] = "waiting"
    /\ EventSet(r)
    /\ Pop(KeyOf[r])
    /\ Return(r, IF r \in failed THEN Failure(state)
                 ELSE message[r])
    /\ UNCHANGED <<state, poisoned, doomed, Parked, reader, Wires>>

\* wait: the event was not set in time ...
Expire(r) ==
    /\ pc[r] = "waiting"
    /\ ~EventSet(r)
    /\ pc' = [pc EXCEPT ![r] = "expired"]
    /\ UNCHANGED <<state, pending, poisoned, doomed, Parked, reader, Wires, answer>>

\* Fault: a late answer finds its key free again.
AbandonAndForget(r) ==
    /\ pc[r] = "expired"
    /\ Pop(KeyOf[r])
    /\ Return(r, Failure("timeout"))
    /\ UNCHANGED <<state, poisoned, doomed, Parked, reader, Wires>>

\* ... so the key is retired for the life of the connection: NodeTimeout.
Abandon(r) ==
    /\ pc[r] = "expired"
    /\ Pop(KeyOf[r])
    /\ poisoned' = poisoned \cup {KeyOf[r]}
    /\ Return(r, Failure("timeout"))
    /\ UNCHANGED <<state, doomed, Parked, reader, Wires>>

\* cancel, as call_batch uses it: after the wait has failed.
Cancel(r) ==
    /\ answer[r].kind \in {"timeout", "disconnected", "closed"}
    /\ Pop(KeyOf[r])
    /\ poisoned' = poisoned \cup {KeyOf[r]}
    /\ UNCHANGED <<state, doomed, Parked, reader, Wires, pc, answer>>

-----------------------------------------------------------------------------
\* The peer echoes the token id and names its own expert, whichever was asked for.
ReplyKey(q) == [expert |-> Own, token |-> KeyOf[q].token]

\* Fault: only the exact key is looked up.
SlotForExact(q) ==
    IF ReplyKey(q) \in InFlight THEN pending[ReplyKey(q)] ELSE None

\* _deliver under the lock: the slot for the reply to q.  A reply whose key is nobody's
\* goes to the only request with its token id: an ERR may name another expert.
SlotFor(q) ==
    LET k         == ReplyKey(q)
        sameToken == {j \in InFlight : j.token = k.token}
    IN  IF k \in poisoned THEN None
        ELSE IF k \in InFlight THEN pending[k]
        ELSE IF Cardinality(sameToken) = 1 THEN pending[CHOOSE j \in sameToken : TRUE]
        ELSE None

\* The reader has the next frame: find its slot under the lock, or drop it.
Match(q) ==
    /\ reader.at = "reading"
    /\ frame[q] \in {"rsp", "err"}
    /\ \A p \in ahead[q] : frame[p] = "read"
    /\ frame' = [frame EXCEPT ![q] = "read"]
    /\ reader' = IF SlotFor(q) = None THEN Reading
                 ELSE [at |-> "delivering", msg |-> [kind |-> frame[q], of |-> q],
                       to |-> SlotFor(q)]
    /\ UNCHANGED <<state, pending, poisoned, doomed, Parked, peer, ahead, pc, answer>>

\* ... and complete that slot without the lock.
Complete ==
    /\ reader.at = "delivering"
    /\ message' = [message EXCEPT ![reader.to] = reader.msg]
    /\ reader' = Reading
    /\ UNCHANGED <<state, pending, poisoned, doomed, failed, Wires, pc, answer>>

\* The reader sees the end of the stream, or its own socket closed.
ReaderEnds ==
    /\ reader.at = "reading"
    /\ peer = "down" \/ state # "open"
    /\ Retire("disconnected")
    /\ reader' = [Reading EXCEPT !.at = "gone"]
    /\ UNCHANGED <<poisoned, Parked, Wires, pc, answer>>

\* The transport closes the connection.
Close ==
    /\ state = "open"
    /\ Retire("closed")
    /\ UNCHANGED <<poisoned, Parked, reader, Wires, pc, answer>>

\* _retire after the lock: fail the slots taken out, one after another.
Fail(r) ==
    /\ r \in doomed
    /\ doomed' = doomed \ {r}
    /\ failed' = failed \cup {r}
    /\ UNCHANGED <<state, pending, poisoned, message, reader, Wires, pc, answer>>

\* The peer (node.py, _handle_one) answers with its own expert and the token it was sent:
\* RSP or ERR for the expert it holds, ERR for any other.
Serve(r) ==
    /\ peer = "up"
    /\ frame[r] = "out"
    /\ \A p \in ahead[r] : frame[p] # "out"
    /\ \E kind \in IF KeyOf[r].expert = Own THEN {"rsp", "err"} ELSE {"err"} :
          frame' = [frame EXCEPT ![r] = kind]
    /\ UNCHANGED <<state, pending, poisoned, doomed, Parked, reader, peer, ahead, pc, answer>>

PeerDown ==
    /\ peer = "up"
    /\ peer' = "down"
    /\ UNCHANGED <<state, pending, poisoned, doomed, Parked, reader, frame, ahead, pc, answer>>

-----------------------------------------------------------------------------
Reader == (\E q \in Requests : Match(q)) \/ Complete \/ ReaderEnds

Next ==
    \/ \E r \in Requests :
          \/ Register(r) \/ RefuseSend(r) \/ Write(r) \/ WriteFails(r)
          \/ Wake(r) \/ Expire(r) \/ Abandon(r) \/ Cancel(r)
          \/ Fail(r) \/ Serve(r)
    \/ Reader
    \/ Close
    \/ PeerDown

Spec == Init /\ [][Next]_vars

\* Threads keep running and a peer that is up answers what it was sent.  Nobody has to
\* time out, close the connection or crash.
FairSpec ==
    /\ Spec
    /\ WF_vars(Reader)
    /\ \A r \in Requests :
          /\ WF_vars(Register(r) \/ RefuseSend(r)) /\ WF_vars(Write(r) \/ WriteFails(r))
          /\ WF_vars(Wake(r)) /\ WF_vars(Abandon(r))
          /\ WF_vars(Fail(r)) /\ WF_vars(Serve(r))

-----------------------------------------------------------------------------
(* Properties *)

\* Every request with the token of r has the key of r: no other request can be taken for it.
Unambiguous(r) ==
    \A q \in Requests : KeyOf[q].token = KeyOf[r].token => KeyOf[q] = KeyOf[r]

AnsweredByPeer(r) == answer[r].kind \in {"rsp", "err"}

\* A request whose token no other key has is answered only by its own reply: not by the late
\* answer to an abandoned request with the same key, and not after the key was used and
\* freed before.
OwnReply == \A r \in Requests : AnsweredByPeer(r) /\ Unambiguous(r) => answer[r].of = r

\* Nothing stays in the table that no thread will take out: in_flight counts it, and the
\* pool chooses connections by that count.
PendingHasOwner ==
    \A k \in InFlight : KeyOf[pending[k]] = k /\ pc[pending[k]] \in {"write", "waiting", "expired"}

\* No lost wakeup: a waiting request has been woken or somebody still holds its slot, the
\* table, the reader or the thread that retires the connection.
WaiterReachable ==
    \A r \in Requests : pc[r] = "waiting" =>
        \/ EventSet(r)
        \/ pending[KeyOf[r]] = r
        \/ r \in doomed

\* A request that nobody else can be taken for is answered or failed without any timeout,
\* whether the peer answers, dies or the connection is closed under it.
WaiterServed ==
    \A r \in Requests : Unambiguous(r) => (pc[r] = "waiting" ~> pc[r] = "answered")
=============================================================================

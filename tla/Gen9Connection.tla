--------------------------- MODULE Gen9Connection ---------------------------
(***************************************************************************)
(* The transport of the gen9 fleet, gen9_cluster/transport.py: one console *)
(* reached through ConnectionPool by several threads, the NodeConnection   *)
(* objects the pool hands out, the sockets these dial and the reader       *)
(* thread each dial starts.  A thread is a caller of the dispatcher        *)
(* (dispatch.py): it gets a connection, sends a request, waits, and on any *)
(* error drops whatever connection the pool holds for the console.         *)
(*                                                                         *)
(* A step is what happens under one lock or between two blocking calls.    *)
(* Abstracted: frames are whole (id and the request they belong to), the   *)
(* console answers the frames of a socket in order (node.py), so a frame's *)
(* answer can be read once those before it were.  Every dial fails once    *)
(* MaxSockets were made.                                                   *)
(***************************************************************************)
EXTENDS Naturals, Sequences, FiniteSets, Functions

CONSTANTS Callers,     \* threads of the dispatcher
          Closer,      \* the thread that closes the pool
          Droppers,    \* callers that drop the connection when a request failed
          Rounds,      \* how many requests each caller makes
          MaxSockets,  \* bound: sockets dialed
          None         \* no connection, no thread

ASSUME RoundsAssumption  == Rounds \in [Callers -> Nat]
ASSUME SocketsAssumption == MaxSockets \in Nat \ {0}
ASSUME CloserAssumption  == Closer \notin Callers

Threads == Callers \cup {Closer}
\* A NodeConnection is named after the get() that made it: whose, and which round of it.
Conns   == UNION {{t} \X (1..Rounds[t]) : t \in Callers}
Sockets == 1..MaxSockets
Ids     == Nat \ {0}

ASSUME NoneAssumption == None \notin Threads \cup Conns

NoSocket == 0

VARIABLES pool,     \* ConnectionPool._connections of the console
          sock,     \* NodeConnection._sock
          closed,   \* NodeConnection._closed
          nextId,   \* NodeConnection._next_id
          pending,  \* NodeConnection._pending: the caller waiting under each id
          writer,   \* the thread that holds NodeConnection._lock across steps
          dialed,   \* sockets made so far
          shut,     \* sockets closed on this side
          console,  \* open sockets whose other end is up
          wire,     \* the frames sent over each socket and not read back yet
          reader,   \* the reader thread that each dial started
          pc,       \* where each thread stands
          round,    \* requests each caller has begun
          held,     \* the connection each caller uses
          rid,      \* the id of its request
          victim,   \* the connection each thread is closing
          told,     \* what _Pending carries: nothing, a reply or an error
          overlap   \* whether two threads have been at work at once

objects == <<sock, closed, nextId, pending, writer>>
wires   == <<dialed, shut, console, wire>>
threads == <<pc, round, held, rid, victim, told>>
vars    == <<pool, objects, wires, reader, threads, overlap>>

-----------------------------------------------------------------------------
Frame == [id : Ids, of : Callers \X Nat]

Nothing  == [kind |-> "nothing"]
Error    == [kind |-> "error"]
Reply(f) == [kind |-> "reply", of |-> f.of]

Told == {Nothing, Error} \cup [kind : {"reply"}, of : Callers \X Nat]

\* A reader: the object it serves, the socket it reads, the frame in its hands.
Reader(c) == [conn |-> c, at |-> "new", src |-> NoSocket, hand |-> <<>>]

TypeOK ==
    /\ pool    \in Conns \cup {None}
    /\ sock    \in [Conns -> Sockets \cup {NoSocket}]
    /\ closed  \in [Conns -> BOOLEAN]
    /\ nextId  \in [Conns -> Ids]
    /\ \A c \in Conns : DOMAIN pending[c] \subseteq Ids
                        /\ \A id \in DOMAIN pending[c] : pending[c][id] \in Callers
    /\ writer  \in [Conns -> Callers \cup {None}]
    /\ dialed  \in 0..MaxSockets
    /\ shut    \subseteq Sockets
    /\ console \subseteq Sockets
    /\ wire    \in [Sockets -> Seq(Frame)]
    /\ reader  \in [Sockets -> [conn : Conns \cup {None}, at : {"new", "read", "deliver", "gone"},
                                src : Sockets \cup {NoSocket}, hand : Seq(Frame)]]
    /\ pc      \in [Threads -> {"idle", "dial", "request", "redial", "send", "abort",
                                "wait", "drop", "close", "fail", "done"}]
    /\ round   \in [Callers -> Nat]
    /\ \A t \in Callers : round[t] <= Rounds[t]
    /\ held    \in [Threads -> Conns \cup {None}]
    /\ rid     \in [Callers -> Ids]
    /\ victim  \in [Threads -> Conns \cup {None}]
    /\ told    \in [Callers -> Told]
    /\ overlap \in BOOLEAN

Init ==
    /\ pool    = None
    /\ sock    = [c \in Conns |-> NoSocket]
    /\ closed  = [c \in Conns |-> FALSE]
    /\ nextId  = [c \in Conns |-> 1]
    /\ pending = [c \in Conns |-> <<>>]
    /\ writer  = [c \in Conns |-> None]
    /\ dialed  = 0
    /\ shut    = {}
    /\ console = {}
    /\ wire    = [s \in Sockets |-> <<>>]
    /\ reader  = [s \in Sockets |-> [Reader(None) EXCEPT !.at = "gone"]]
    /\ pc      = [t \in Threads |-> IF t = Closer THEN "drop"
                                 ELSE IF Rounds[t] = 0 THEN "done" ELSE "idle"]
    /\ round   = [t \in Callers |-> 0]
    /\ held    = [t \in Threads |-> None]
    /\ rid     = [t \in Callers |-> 1]
    /\ victim  = [t \in Threads |-> None]
    /\ told    = [t \in Callers |-> Nothing]
    /\ overlap = FALSE

-----------------------------------------------------------------------------
Connected(c) == sock[c] # NoSocket /\ ~closed[c]

\* Fault: the counter is read and not advanced.
SameId(n) == n

\* Ids count up over the life of the object, whatever sockets it dials.  (The code
\* keeps 32 bits of the count; an id would have to stay pending that long to meet
\* itself.)
NextId(n) == n + 1

Goto(t, where) == pc' = [pc EXCEPT ![t] = where]

Waiting(t) == pc[t] = "wait" /\ told[t] = Nothing

Forget(f, id) == Restrict(f, DOMAIN f \ {id})

Finished(t) == IF round[t] = Rounds[t] THEN "done" ELSE "idle"

\* A request is over: what the thread kept of it goes.  One of the dispatcher that
\* failed drops the console's pooled connection (_mark_down), one of the shelf
\* coordinator does not.
Release(t) ==
    /\ held' = [held EXCEPT ![t] = None]
    /\ rid'  = [rid EXCEPT ![t] = 1]

AfterError(t) == Goto(t, IF t \in Droppers THEN "drop" ELSE Finished(t))

AtWork(t) == pc[t] \notin {"idle", "done"} /\ (t = Closer => pc[t] # "drop")

\* ConnectionPool.get, under the pool's lock.  A connection that is stored but
\* not connected yet is replaced like a lost one.
Get(t) ==
    /\ pc[t] = "idle"
    /\ round' = [round EXCEPT ![t] = @ + 1]
    /\ overlap' = (overlap \/ \E u \in Threads \ {t} : AtWork(u))
    /\ IF pool # None /\ Connected(pool)
         THEN /\ held' = [held EXCEPT ![t] = pool]
              /\ Goto(t, "request")
              /\ UNCHANGED pool
         ELSE /\ pool' = <<t, round'[t]>>
              /\ held' = [held EXCEPT ![t] = pool']
              /\ Goto(t, "dial")
    /\ UNCHANGED <<objects, wires, reader, rid, victim, told>>

\* NodeConnection.connect after its first test: a new socket and its reader,
\* whatever happened to the object while the dial was under way.
Dial(t) ==
    /\ pc[t] \in {"dial", "redial"}
    /\ dialed < MaxSockets
    /\ dialed' = dialed + 1
    /\ sock' = [sock EXCEPT ![held[t]] = dialed']
    /\ closed' = [closed EXCEPT ![held[t]] = FALSE]
    /\ console' = console \cup {dialed'}
    /\ reader' = [reader EXCEPT ![dialed'] = Reader(held[t])]
    /\ Goto(t, IF pc[t] = "dial" THEN "request" ELSE "send")
    /\ UNCHANGED <<pool, nextId, pending, writer, shut, wire, round, held,
                   rid, victim, told, overlap>>

DialFails(t) ==
    /\ pc[t] \in {"dial", "redial"}
    /\ AfterError(t)
    /\ Release(t)
    /\ UNCHANGED <<pool, objects, wires, reader, round, victim, told, overlap>>

\* NodeConnection.request up to its lock.
Request(t) ==
    /\ pc[t] = "request"
    /\ Goto(t, IF sock[held[t]] = NoSocket THEN "redial" ELSE "send")
    /\ UNCHANGED <<pool, objects, wires, reader, round, held, rid, victim, told,
                   overlap>>

\* The id is taken under _lock before the outcome of the write is known.
TakeId(t) ==
    /\ writer[held[t]] = None
    /\ nextId' = [nextId EXCEPT ![held[t]] = NextId(@)]

Remember(f, id, t) == [x \in DOMAIN f \cup {id} |-> IF x = id THEN t ELSE f[x]]

Register(t) == pending' = [pending EXCEPT ![held[t]] = Remember(@, nextId[held[t]], t)]

Send(t) ==
    LET s == sock[held[t]] IN
    /\ pc[t] = "send"
    /\ s # NoSocket
    /\ TakeId(t)
    /\ rid' = [rid EXCEPT ![t] = nextId[held[t]]]
    /\ Register(t)
    /\ wire' = IF s \in console
                 THEN [wire EXCEPT ![s] = Append(@, [id |-> rid'[t], of |-> <<t, round[t]>>])]
                 ELSE wire
    /\ Goto(t, "wait")
    /\ UNCHANGED <<pool, sock, closed, writer, dialed, shut, console, reader, round,
                   held, victim, told, overlap>>

\* sendall raises OSError: the slot is popped, the object is closed, all under _lock.
SendFails(t) ==
    /\ pc[t] = "send"
    /\ sock[held[t]] \notin console \cup {NoSocket}
    /\ TakeId(t)
    /\ victim' = [victim EXCEPT ![t] = held[t]]
    /\ writer' = [writer EXCEPT ![held[t]] = t]
    /\ Goto(t, "abort")
    /\ Release(t)
    /\ UNCHANGED <<pool, sock, closed, pending, wires, reader, round, told, overlap>>

\* _sock was taken away since Request: an AttributeError, which is no Gen9Error,
\* leaves the slot in the table and nobody drops the connection.
SendOnNothing(t) ==
    /\ pc[t] = "send"
    /\ sock[held[t]] = NoSocket
    /\ TakeId(t)
    /\ Register(t)
    /\ Goto(t, Finished(t))
    /\ Release(t)
    /\ UNCHANGED <<pool, sock, closed, writer, wires, reader, round, victim, told,
                   overlap>>

\* The wait ends with a reply; whether that is an ERROR frame changes what the
\* caller raises, and then it may drop the connection.
Wake(t) ==
    /\ pc[t] = "wait"
    /\ told[t] # Nothing
    /\ \/ told[t].kind = "reply" /\ Goto(t, Finished(t))
       \/ AfterError(t)
    /\ told' = [told EXCEPT ![t] = Nothing]
    /\ Release(t)
    /\ UNCHANGED <<pool, objects, wires, reader, round, victim, overlap>>

PopSlot(t) == pending' = [pending EXCEPT ![held[t]] = Forget(@, rid[t])]

Timeout(t) ==
    /\ Waiting(t)
    /\ PopSlot(t)
    /\ AfterError(t)
    /\ Release(t)
    /\ UNCHANGED <<pool, sock, closed, nextId, writer, wires, reader, round, victim,
                   told, overlap>>

\* ConnectionPool.drop, and close for the one console of the model: the object is
\* taken out under the lock and closed after it.
Drop(t) ==
    /\ pc[t] = "drop"
    /\ t = Closer => overlap' = (overlap \/ \E u \in Callers : AtWork(u))
    /\ t # Closer => UNCHANGED overlap
    /\ IF pool = None
         THEN Goto(t, IF t = Closer THEN "done" ELSE Finished(t)) /\ UNCHANGED victim
         ELSE Goto(t, "close") /\ victim' = [victim EXCEPT ![t] = pool]
    /\ pool' = None
    /\ UNCHANGED <<objects, wires, reader, round, held, rid, told>>

\* Fault: the object forgets its socket and leaves it open.
ForgetSocket(c) ==
    /\ closed' = [closed EXCEPT ![c] = TRUE]
    /\ sock' = [sock EXCEPT ![c] = NoSocket]
    /\ UNCHANGED <<shut, console>>

TakeSocket(c) ==
    /\ closed' = [closed EXCEPT ![c] = TRUE]
    /\ sock' = [sock EXCEPT ![c] = NoSocket]
    /\ shut' = shut \cup ({sock[c]} \ {NoSocket})
    /\ console' = console \ {sock[c]}

\* NodeConnection.close, up to _fail_all.
CloseSocket(t) ==
    /\ pc[t] \in {"close", "abort"}
    /\ TakeSocket(victim[t])
    /\ Goto(t, "fail")
    /\ UNCHANGED <<pool, nextId, pending, writer, dialed, wire, reader, round, held,
                   rid, victim, told, overlap>>

\* Fault: the table is emptied and nobody in it is told.
EmptyTable(c) == pending' = [pending EXCEPT ![c] = <<>>] /\ UNCHANGED told

\* _fail_all: everyone who waits on the object, on whatever socket.
FailAll(c) ==
    /\ told' = [t \in Callers |-> IF \E id \in DOMAIN pending[c] : pending[c][id] = t
                                       /\ Waiting(t) /\ held[t] = c /\ rid[t] = id
                                    THEN Error ELSE told[t]]
    /\ pending' = [pending EXCEPT ![c] = <<>>]

\* Fault: close() shuts the socket and leaves the waiters to the reader.
LeaveToReader(c) == UNCHANGED <<told, pending>>

FailWaiters(c) == FailAll(c)

CloseFails(t) ==
    LET sending == writer[victim[t]] = t IN
    /\ pc[t] = "fail"
    /\ FailWaiters(victim[t])
    /\ writer' = IF sending THEN [writer EXCEPT ![victim[t]] = None] ELSE writer
    /\ IF sending THEN AfterError(t)
                  ELSE Goto(t, IF t = Closer THEN "done" ELSE Finished(t))
    /\ victim' = [victim EXCEPT ![t] = None]
    /\ UNCHANGED <<pool, sock, closed, nextId, wires, reader, round, held, rid,
                   overlap>>

-----------------------------------------------------------------------------
\* The reader threads.
\* A reader takes the socket the object has when it starts running.
ReaderStarts(s) ==
    LET c == reader[s].conn IN
    /\ reader[s].at = "new"
    /\ reader' = [reader EXCEPT ![s].src = sock[c],
                                ![s].at = IF sock[c] = NoSocket \/ closed[c]
                                            THEN "gone" ELSE "read"]
    /\ UNCHANGED <<pool, objects, wires, threads, overlap>>

ReaderTakes(s) ==
    LET src == reader[s].src IN
    /\ reader[s].at = "read"
    /\ wire[src] # <<>>
    /\ reader' = [reader EXCEPT ![s].hand = <<Head(wire[src])>>, ![s].at = "deliver"]
    /\ wire' = [wire EXCEPT ![src] = Tail(@)]
    /\ UNCHANGED <<pool, objects, dialed, shut, console, threads, overlap>>

\* A reply nobody waits for any more is passed over.
ReaderDelivers(s) ==
    LET c == reader[s].conn
        f == reader[s].hand[1] IN
    /\ reader[s].at = "deliver"
    /\ reader' = [reader EXCEPT ![s].hand = <<>>,
                                ![s].at = IF closed[c] THEN "gone" ELSE "read"]
    /\ pending' = [pending EXCEPT ![c] = Forget(@, f.id)]
    /\ told' = IF f.id \in DOMAIN pending[c]
                 THEN [told EXCEPT ![pending[c][f.id]] = Reply(f)] ELSE told
    /\ UNCHANGED <<pool, sock, closed, nextId, writer, wires, pc, round, held, rid,
                   victim, overlap>>

\* The end of the stream, or an error of the socket closed under it.
ReaderEnds(s) ==
    LET src == reader[s].src IN
    /\ reader[s].at = "read"
    /\ src \in shut \/ (src \notin console /\ wire[src] = <<>>)
    /\ FailAll(reader[s].conn)
    /\ reader' = [reader EXCEPT ![s].at = "gone"]
    /\ UNCHANGED <<pool, sock, closed, nextId, writer, wires, pc, round, held, rid,
                   victim, overlap>>

\* The console goes away, and of its answers only the first few are under way.
ConsoleGone(s) ==
    /\ s \in console
    /\ console' = console \ {s}
    /\ \E n \in 0..Len(wire[s]) : wire' = [wire EXCEPT ![s] = SubSeq(@, 1, n)]
    /\ UNCHANGED <<pool, objects, dialed, shut, reader, threads, overlap>>

-----------------------------------------------------------------------------
Closes(t) ==
    \/ CloseSocket(t)
    \/ CloseFails(t)

CallerStep(t) ==
    \/ Get(t)
    \/ Dial(t)
    \/ DialFails(t)
    \/ Request(t)
    \/ Send(t)
    \/ SendFails(t)
    \/ SendOnNothing(t)
    \/ Wake(t)
    \/ Drop(t)

ReaderStep(s) ==
    \/ ReaderStarts(s)
    \/ ReaderTakes(s)
    \/ ReaderDelivers(s)
    \/ ReaderEnds(s)

Next ==
    \/ \E t \in Threads : Closes(t)
    \/ Drop(Closer)
    \/ \E t \in Callers : CallerStep(t)
    \/ \E t \in Callers : Timeout(t)
    \/ \E s \in Sockets : ReaderStep(s)
    \/ \E s \in Sockets : ConsoleGone(s)

Spec == Init /\ [][Next]_vars

\* The threads run, and close() once begun; a timeout need not expire, a console
\* need not answer.
Fairness ==
    /\ \A t \in Threads : WF_vars(Closes(t))
    /\ \A t \in Callers : WF_vars(CallerStep(t))
    /\ \A s \in Sockets : WF_vars(ReaderStep(s))

FairSpec == Spec /\ Fairness

-----------------------------------------------------------------------------
\* A caller that is given a reply is given the reply to its own request, although
\* a late reply to a request abandoned on the same object, perhaps over an earlier
\* socket of it, may still be in a reader's hands (_next_request_id).
OwnReply ==
    \A t \in Callers : told[t].kind = "reply" => told[t].of = <<t, round[t]>>

\* The table of a connection and its waiters agree: a waiter that has not been told
\* anything is in the table of the object it holds under its id, so a reader or a
\* close can still find it.
WaiterReachable ==
    \A t \in Callers : Waiting(t) =>
        /\ rid[t] \in DOMAIN pending[held[t]]
        /\ pending[held[t]][rid[t]] = t

\* The sockets somebody could still close: that of the pooled connection, and that
\* of a connection some thread uses or is closing.
InUse == {pool} \cup {held[t] : t \in Threads} \cup {victim[t] : t \in Threads}

Owned == {sock[c] : c \in InUse \ {None}}

OpenSockets == (1..dialed) \ shut

\* Threads that never overlap leave no socket behind: each open one belongs to the
\* pooled connection or to the thread at work.  (With overlapping threads get()
\* replaces a connection that is still dialing, and a request resurrects one that
\* was dropped; then a socket stays open that nobody can close.)
SequentialLeavesNothing == ~overlap => OpenSockets \subseteq Owned

\* A reader still watches the connection t waits on, and that socket is gone, at
\* either end.
LossSeen(t) ==
    /\ Waiting(t)
    /\ \E s \in Sockets : /\ reader[s].conn = held[t]
                          /\ reader[s].at \in {"read", "deliver"}
                          /\ reader[s].src \notin console

\* A caller that waits on a connection whose reader is still there when the socket is
\* lost is told so by the reader or by the thread that closes the connection; it need
\* not wait for its own timeout.
LossIsTold == \A t \in Callers : LossSeen(t) ~> ~Waiting(t)

=============================================================================

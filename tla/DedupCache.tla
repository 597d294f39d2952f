----------------------------- MODULE DedupCache -----------------------------
(***************************************************************************)
(* The response cache of a coordinator: ps3_cluster/dedup.py.              *)
(*                                                                         *)
(* A process is one call of run() or replay() by a coordinator thread.  A  *)
(* call that misses creates a _Slot; the slot is named after that call, so *)
(* slot[c] is the object call c created, and it stays that object after    *)
(* the table has dropped it.  Each action is one step between two points   *)
(* where another thread can observe something: taking the lock, one turn   *)
(* of a loop under the lock, releasing it, and setting a slot's event,     *)
(* which the code does without the lock.                                   *)
(*                                                                         *)
(* Abstracted: a fingerprint is a value, a frame is its length and the     *)
(* call that computed it, the hit and miss counters are left out, and the  *)
(* clock moves only while the lock is free (a critical section takes no    *)
(* time on the scale of ttl).  Two slots finished at the same tick are     *)
(* evicted in either order.                                                *)
(***************************************************************************)
EXTENDS Integers, FiniteSets, Functions

CONSTANTS Calls,        \* calls of run() and replay()
          Ids,          \* request ids
          Requests,     \* the requests a call may make
          SizesOf,      \* the lengths a response frame of each id may have
          MaxEntries,   \* max_entries
          MaxBytes,     \* max_bytes
          Ttl,          \* ttl, in ticks
          MaxTime,      \* the clock stops here
          None          \* "no call", "no id"

ASSUME NoneAssumption    == None \notin Calls \cup Ids
ASSUME IdsAssumption     == IsFiniteSet(Ids)
ASSUME RequestAssumption ==
    \A r \in Requests : /\ r = [op |-> r.op, id |-> r.id, fp |-> r.fp]
                        /\ r.op \in {"run", "replay"} /\ r.id \in Ids
ASSUME SizesAssumption   == SizesOf \in [Ids -> SUBSET Nat]
ASSUME EntriesAssumption == MaxEntries \in Nat \ {0}
ASSUME BytesAssumption   == MaxBytes \in Nat
ASSUME ClockAssumption   == Ttl \in Nat \ {0} /\ MaxTime \in Nat

VARIABLES now,     \* time.monotonic()
          lock,    \* the call inside `with self._lock`, or None
          table,   \* _slots: the call whose slot an id maps to, or None
          bytes,   \* _bytes
          pc,      \* where each call stands
          req,     \* the request of each call
          slot,    \* the _Slot each call created
          joined,  \* the slot a call that found one holds a reference to
          answer   \* what each call returned

vars == <<now, lock, table, bytes, pc, req, slot, joined, answer>>

-----------------------------------------------------------------------------
PCs == {"new", "enter", "expire", "lookup", "reserve", "compute", "finish",
        "fit", "failed", "await", "peek", "answered"}

NoRequest == [op |-> "run", id |-> None, fp |-> None]

Slot == [done : BOOLEAN, cached : BOOLEAN, failed : BOOLEAN,
         finished : 0..MaxTime, size : Nat]

\* _Slot.__init__
FreshSlot == [done |-> FALSE, cached |-> TRUE, failed |-> FALSE,
              finished |-> 0, size |-> 0]

\* How a call ended, and the call whose computation it was handed.
Answer == [kind : {"none", "frame", "error", "mismatch", "capacity", "timeout"},
           of : Calls \cup {None}]

Refusal(kind) == [kind |-> kind, of |-> None]

TypeOK ==
    /\ now    \in 0..MaxTime
    /\ lock   \in Calls \cup {None}
    /\ table  \in [Ids -> Calls \cup {None}]
    /\ bytes  \in Nat
    /\ pc     \in [Calls -> PCs]
    /\ req    \in [Calls -> Requests \cup {NoRequest}]
    /\ slot   \in [Calls -> Slot]
    /\ joined \in [Calls -> Calls \cup {None}]
    /\ answer \in [Calls -> Answer]

Init ==
    /\ now    = 0
    /\ lock   = None
    /\ table  = [i \in Ids |-> None]
    /\ bytes  = 0
    /\ pc     = [c \in Calls |-> "new"]
    /\ req    = [c \in Calls |-> NoRequest]
    /\ slot   = [c \in Calls |-> FreshSlot]
    /\ joined = [c \in Calls |-> None]
    /\ answer = [c \in Calls |-> Refusal("none")]

-----------------------------------------------------------------------------
Tracked == {i \in Ids : table[i] # None}

\* Fault: a slot is dropped without asking whether its batch has ended.
CompletedOrRunning == {i \in Tracked : slot[table[i]].cached}

\* What both eviction loops and the expiry may drop: done and cached.
Completed == {i \in Tracked : slot[table[i]].done /\ slot[table[i]].cached}

Oldest(S) == {i \in S : \A j \in S : slot[table[i]].finished <= slot[table[j]].finished}

\* Fault: the age test forgets that a running slot has no finish time yet.
StaleOrRunning == {i \in Tracked : slot[table[i]].cached /\ slot[table[i]].finished < now - Ttl}

\* Fault: a response is kept one tick beyond its ttl.
StaleLate == {i \in Completed : slot[table[i]].finished < now - Ttl - 1}

Stale == {i \in Completed : slot[table[i]].finished < now - Ttl}

\* _drop_locked for an entry of Completed, the only kind its callers drop.
Drop(i) ==
    /\ table' = [table EXCEPT ![i] = None]
    /\ bytes' = IF bytes > slot[table[i]].size THEN bytes - slot[table[i]].size ELSE 0

GoTo(c, l) == pc' = [pc EXCEPT ![c] = l]

Return(c, a) ==
    /\ GoTo(c, "answered")
    /\ answer' = [answer EXCEPT ![c] = a]

Slots == <<table, bytes>>

-----------------------------------------------------------------------------
\* A coordinator thread calls run(id, fp, compute) or replay(id).
Arrive(c, r) ==
    /\ pc[c] = "new"
    /\ req' = [req EXCEPT ![c] = r]
    /\ GoTo(c, "enter")
    /\ UNCHANGED <<now, lock, Slots, slot, joined, answer>>

\* run(None, ...): a batch without a name computes and touches nothing.
RunUnnamed(c) ==
    /\ pc[c] = "new"
    /\ \E kind \in {"frame", "error"} : Return(c, [kind |-> kind, of |-> c])
    /\ UNCHANGED <<now, lock, Slots, req, slot, joined>>

Enter(c) ==
    /\ pc[c] = "enter"
    /\ lock = None
    /\ lock' = c
    /\ GoTo(c, "expire")
    /\ UNCHANGED <<now, Slots, req, slot, joined, answer>>

\* _expire_locked: one stale slot after another, then on to the lookup.
ExpireOne(c, i) ==
    /\ pc[c] = "expire"
    /\ i \in Stale
    /\ Drop(i)
    /\ UNCHANGED <<now, lock, pc, req, slot, joined, answer>>

ExpireDone(c) ==
    /\ pc[c] = "expire"
    /\ Stale = {}
    /\ GoTo(c, "lookup")
    /\ UNCHANGED <<now, lock, Slots, req, slot, joined, answer>>

\* The id is tracked under other content: MismatchedRequestError.
Mismatch(c) ==
    LET e == table[req[c].id] IN
    /\ pc[c] = "lookup" /\ req[c].op = "run"
    /\ e # None /\ req[e].fp # req[c].fp
    /\ lock' = None
    /\ Return(c, Refusal("mismatch"))
    /\ UNCHANGED <<now, Slots, req, slot, joined>>

\* A retry: keep a reference to the slot, leave the lock and wait.
Join(c) ==
    LET e == table[req[c].id] IN
    /\ pc[c] = "lookup" /\ req[c].op = "run"
    /\ e # None /\ req[e].fp = req[c].fp
    /\ lock' = None
    /\ joined' = [joined EXCEPT ![c] = e]
    /\ GoTo(c, "await")
    /\ UNCHANGED <<now, Slots, req, slot, answer>>

Miss(c) ==
    /\ pc[c] = "lookup" /\ req[c].op = "run"
    /\ table[req[c].id] = None
    /\ GoTo(c, "reserve")
    /\ UNCHANGED <<now, lock, Slots, req, slot, joined, answer>>

\* _reserve_slot_locked: evict the oldest completed slot while the table is full ...
EvictForSlot(c, i) ==
    /\ pc[c] = "reserve"
    /\ Cardinality(Tracked) >= MaxEntries
    /\ i \in Oldest(Completed)
    /\ Drop(i)
    /\ UNCHANGED <<now, lock, pc, req, slot, joined, answer>>

\* ... refuse when nothing is completed (DedupCapacityError) ...
RejectFull(c) ==
    /\ pc[c] = "reserve"
    /\ Cardinality(Tracked) >= MaxEntries
    /\ Completed = {}
    /\ lock' = None
    /\ Return(c, Refusal("capacity"))
    /\ UNCHANGED <<now, Slots, req, slot, joined>>

\* ... and with room, install the new slot and leave the lock to compute.
Register(c) ==
    /\ pc[c] = "reserve"
    /\ Cardinality(Tracked) < MaxEntries
    /\ table' = [table EXCEPT ![req[c].id] = c]
    /\ slot'  = [slot EXCEPT ![c] = FreshSlot]
    /\ lock' = None
    /\ GoTo(c, "compute")
    /\ UNCHANGED <<now, bytes, req, joined, answer>>

-----------------------------------------------------------------------------
\* compute() returned a frame: _finish up to done.set(), without the lock.
ComputeOk(c) ==
    /\ pc[c] = "compute"
    /\ \E n \in SizesOf[req[c].id] :
          slot' = [slot EXCEPT ![c] = [@ EXCEPT !.done = TRUE, !.size = n,
                                                !.finished = now]]
    /\ GoTo(c, "finish")
    /\ UNCHANGED <<now, lock, Slots, req, joined, answer>>

\* Fault: the error path does not set the event.
ComputeFailSilently(c) ==
    /\ pc[c] = "compute"
    /\ slot' = [slot EXCEPT ![c] = [@ EXCEPT !.failed = TRUE, !.cached = FALSE]]
    /\ GoTo(c, "failed")
    /\ UNCHANGED <<now, lock, Slots, req, joined, answer>>

\* compute() raised: the slot is marked and its waiters released, without the lock.
ComputeFail(c) ==
    /\ pc[c] = "compute"
    /\ slot' = [slot EXCEPT ![c] = [@ EXCEPT !.done = TRUE, !.failed = TRUE,
                                             !.cached = FALSE, !.finished = now]]
    /\ GoTo(c, "failed")
    /\ UNCHANGED <<now, lock, Slots, req, joined, answer>>

\* The error path then takes the lock and pops whatever slot has this id.
ForgetFailed(c) ==
    /\ pc[c] = "failed"
    /\ lock = None
    /\ table' = [table EXCEPT ![req[c].id] = None]
    /\ Return(c, [kind |-> "error", of |-> c])
    /\ UNCHANGED <<now, lock, bytes, req, slot, joined>>

\* _finish under the lock, a frame over budget: not retained; pops by id too.
FinishOversized(c) ==
    /\ pc[c] = "finish"
    /\ lock = None
    /\ slot[c].size > MaxBytes
    /\ slot'  = [slot EXCEPT ![c].cached = FALSE]
    /\ table' = [table EXCEPT ![req[c].id] = None]
    /\ Return(c, [kind |-> "frame", of |-> c])
    /\ UNCHANGED <<now, lock, bytes, req, joined>>

FinishEnter(c) ==
    /\ pc[c] = "finish"
    /\ lock = None
    /\ slot[c].size <= MaxBytes
    /\ lock' = c
    /\ GoTo(c, "fit")
    /\ UNCHANGED <<now, Slots, req, slot, joined, answer>>

\* _make_bytes_locked: evict the oldest completed frame while the new one does not
\* fit.  The frame being finished is itself a candidate.
EvictForBytes(c, i) ==
    /\ pc[c] = "fit"
    /\ bytes + slot[c].size > MaxBytes
    /\ i \in Oldest(Completed)
    /\ Drop(i)
    /\ UNCHANGED <<now, lock, pc, req, slot, joined, answer>>

\* Fault: the new frame is stored without making room.
AccountAnyway(c) ==
    /\ pc[c] = "fit"
    /\ bytes' = bytes + slot[c].size
    /\ lock' = None
    /\ Return(c, [kind |-> "frame", of |-> c])
    /\ UNCHANGED <<now, table, req, slot, joined>>

Account(c) ==
    /\ pc[c] = "fit"
    /\ bytes + slot[c].size <= MaxBytes \/ Completed = {}
    /\ bytes' = bytes + slot[c].size
    /\ lock' = None
    /\ Return(c, [kind |-> "frame", of |-> c])
    /\ UNCHANGED <<now, table, req, slot, joined>>

-----------------------------------------------------------------------------
\* _await: the event is set; raise the slot's error or return its frame.
Await(c) ==
    LET e == joined[c] IN
    /\ pc[c] = "await"
    /\ slot[e].done
    /\ Return(c, [kind |-> IF slot[e].failed THEN "error" ELSE "frame", of |-> e])
    /\ UNCHANGED <<now, lock, Slots, req, slot, joined>>

AwaitTimeout(c) ==
    /\ pc[c] = "await"
    /\ ~slot[joined[c]].done
    /\ Return(c, Refusal("timeout"))
    /\ UNCHANGED <<now, lock, Slots, req, slot, joined>>

\* replay(): fetch the slot under the lock, look into it after leaving the lock.
ReplayLookup(c) ==
    /\ pc[c] = "lookup" /\ req[c].op = "replay"
    /\ lock' = None
    /\ joined' = [joined EXCEPT ![c] = table[req[c].id]]
    /\ GoTo(c, "peek")
    /\ UNCHANGED <<now, Slots, req, slot, answer>>

Peek(c) ==
    LET e == joined[c] IN
    /\ pc[c] = "peek"
    /\ IF e # None /\ slot[e].done /\ slot[e].cached
         THEN Return(c, [kind |-> "frame", of |-> e])
         ELSE Return(c, Refusal("none"))
    /\ UNCHANGED <<now, lock, Slots, req, slot, joined>>

-----------------------------------------------------------------------------
\* clear(), as its users call it: between calls, never during one.
Clear ==
    /\ \A c \in Calls : pc[c] \in {"new", "answered"}
    /\ table' = [i \in Ids |-> None]
    /\ bytes' = 0
    /\ UNCHANGED <<now, lock, pc, req, slot, joined, answer>>

Tick ==
    /\ now < MaxTime
    /\ lock = None
    /\ now' = now + 1
    /\ UNCHANGED <<lock, Slots, pc, req, slot, joined, answer>>

\* One step of a call that has arrived, other than timing out.
Step(c) ==
    \/ Enter(c)
    \/ \E i \in Ids : ExpireOne(c, i) \/ EvictForSlot(c, i) \/ EvictForBytes(c, i)
    \/ ExpireDone(c)
    \/ Mismatch(c) \/ Join(c) \/ Miss(c)
    \/ RejectFull(c) \/ Register(c)
    \/ ComputeOk(c) \/ ComputeFail(c) \/ ForgetFailed(c)
    \/ FinishOversized(c) \/ FinishEnter(c) \/ Account(c)
    \/ Await(c) \/ ReplayLookup(c) \/ Peek(c)

Next ==
    \/ \E c \in Calls :
          \/ \E r \in Requests : Arrive(c, r)
          \/ RunUnnamed(c)
          \/ Step(c)
          \/ AwaitTimeout(c)
    \/ Clear
    \/ Tick

Spec == Init /\ [][Next]_vars

-----------------------------------------------------------------------------
(* Properties *)

InFlight == {c \in Calls : pc[c] = "compute"}

\* The ids whose response always fits the byte budget.
FittingIds == {i \in Ids : \A n \in SizesOf[i] : n <= MaxBytes}

\* "an in-flight batch can never be evicted before it completes" (dedup.py, max_entries),
\* which holds for the batches whose response cannot be oversized: each running one is the
\* one its id maps to, so a retry joins it.
FittingInFlightTracked ==
    \A c \in InFlight : req[c].id \in FittingIds => table[req[c].id] = c

\* Whatever a call is handed was computed for its own id, and by run() for its own
\* content: the table is changed between the lookup and the return, the slot is not.
AnswerOfSameRequest ==
    \A c \in Calls :
        LET e == answer[c].of IN
        e \notin {c, None} => /\ req[e].id = req[c].id
                              /\ req[c].op = "run" => req[e].fp = req[c].fp

\* A failure is handed to the retries that were waiting and is not remembered: once the
\* failed call has raised, no later call can find its slot.
FailureForgotten ==
    \A i \in Tracked : slot[table[i]].failed => pc[table[i]] = "failed"

\* max_entries bounds the table at every instant, the two lock-free windows included.
EntriesBounded == Cardinality(Tracked) <= MaxEntries

\* No waiter is stranded: the slot a retry waits on is done, or the call that created it is
\* still computing, whatever became of the slot in the table meanwhile.
WaiterHasWorker ==
    \A c \in Calls : pc[c] = "await" =>
        slot[joined[c]].done \/ pc[joined[c]] = "compute"

\* ttl: whoever joins or replays a completed response finds it young enough.
NoStaleReplay ==
    [][\A c \in Calls : joined'[c] # joined[c] =>
           LET s == slot[joined'[c]] IN s.done /\ s.cached => s.finished >= now - Ttl]_vars

\* The frames the table retains, in bytes.
RetainedBytes == SumFunction([i \in Tracked |-> slot[table[i]].size])

Quiescent == \A c \in Calls : pc[c] \in {"new", "answered"}

\* "Worst-case retained memory is bounded by min(max_entries * max_response, max_bytes)":
\* whenever no call is under way, what the table retains fits the byte budget and the count
\* does not fall short of it, as long as no response over the budget has been computed.
FittingBytesCovered ==
    (\A c \in Calls : slot[c].done => slot[c].size <= MaxBytes)
        => (Quiescent => RetainedBytes <= MaxBytes /\ RetainedBytes <= bytes)

-----------------------------------------------------------------------------
(* The abstract promise, for the batches whose response fits. *)

Watched(c) == req[c].op = "run" /\ req[c].id \in FittingIds

StageOf(c) ==
    IF ~Watched(c) THEN "idle"
    ELSE CASE pc[c] = "compute"                     -> "running"
           [] pc[c] \in {"finish", "fit", "failed"} -> "ran"
           [] pc[c] = "answered"                    -> "closed"
           [] OTHER                                 -> "asked"

AskedBy(c) == IF Watched(c) THEN req[c] ELSE NoRequest

SourceOf(c) == IF Watched(c) THEN answer[c].of ELSE None

IdOfRequest(r) == r.id

Promise == INSTANCE SingleFlight WITH
    Requests  <- {r \in Requests : r.op = "run" /\ r.id \in FittingIds},
    IdOf      <- IdOfRequest,
    NoCall    <- None,
    stage     <- [c \in Calls |-> StageOf(c)],
    asked     <- [c \in Calls |-> AskedBy(c)],
    source    <- [c \in Calls |-> SourceOf(c)]

SingleFlightPromise == Promise!Spec
=============================================================================

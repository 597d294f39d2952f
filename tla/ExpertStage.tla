----------------------------- MODULE ExpertStage -----------------------------
(***************************************************************************)
(* One batch through a subcluster coordinator: handle_batch, _serve_batch  *)
(* and close of ps3_cluster/coordinator.py, with the dispatcher it fans    *)
(* out through (ps3_cluster/dispatch.py).                                  *)
(*                                                                         *)
(* The processes are the thread that serves the batch (it submits one call *)
(* per position, gathers them under one deadline and answers), one pool    *)
(* thread per position running _call_expert with its retries, the consoles *)
(* and the thread that closes the coordinator.  A frame is one attempt of  *)
(* one position; a console may run it long after the call gave it up.      *)
(*                                                                         *)
(* Abstracted: arrays, gates and the order of the sum, which the gathered  *)
(* positions fix; the ownership and fast checks, which refuse a batch      *)
(* before anything starts; the dedup cache, which is DedupCache.tla; the   *)
(* transport, which is Connection.tla and ConnectionPool.tla, shows here   *)
(* as the ways a call can end.                                             *)
(***************************************************************************)
EXTENDS Naturals, Sequences, SequencesExt, FiniteSets

CONSTANTS Width,              \* the experts of the batch are at positions 1..Width
          CandidatesOf,       \* the consoles of each, in failover order
          Attempts,           \* RetryPolicy.attempts
          RetryOnError,       \* RetryPolicy.retry_on_node_error
          RetryOnTimeout,     \* RetryPolicy.retry_on_timeout
          RetryOnDisconnect,  \* RetryPolicy.retry_on_disconnect
          Group               \* the coordinator's own name

Positions == 1..Width
Tries     == 1..Attempts
Nodes     == UNION {ToSet(CandidatesOf[p]) : p \in Positions}

ASSUME WidthAssumption     == Width \in Nat \ {0}
ASSUME AttemptsAssumption  == Attempts \in Nat \ {0}
ASSUME CandidateAssumption ==
    \A p \in Positions : CandidatesOf[p] \in Seq(Nodes) /\ CandidatesOf[p] # <<>>
ASSUME PolicyAssumption    == {RetryOnError, RetryOnTimeout, RetryOnDisconnect} \subseteq BOOLEAN
ASSUME GroupAssumption     == Group \notin Nodes

VARIABLES closed,    \* BaseCoordinator._closed
          pool,      \* the fan-out executor: "open", or "down" once close() took it
          drained,   \* dispatcher.close() has returned
          shut,      \* the transport is closed
          serving,   \* where the serving thread stands
          at,        \* the position it is about to submit or to gather
          mine,      \* the executor it submits to: a "second" one if the first is down
          late,      \* the stage deadline has passed
          call,      \* where the call of each position stands
          trail,     \* the consoles each call has tried
          frame,     \* the request of each attempt
          outcome,   \* how each call ended
          gathered,  \* what gather() has recorded for each position
          reply      \* the answer

vars == <<closed, pool, drained, shut, serving, at, mine, late, call, trail, frame, outcome,
          gathered, reply>>

Failures == {"unreachable", "error", "timeout", "disconnected", "closed", "collision"}
Outcomes == {"none", "ok"} \cup Failures

NoAnswer == [kind |-> "none", failures |-> {}]

Failure == [position : Positions, node : Nodes \cup {Group}, reason : Failures]

TypeOK ==
    /\ closed   \in BOOLEAN
    /\ pool     \in {"open", "down"}
    /\ drained  \in BOOLEAN
    /\ shut     \in BOOLEAN
    /\ serving  \in {"idle", "admitted", "submit", "gather", "answered"}
    /\ at       \in 1..(Width + 1)
    /\ mine     \in {"none", "first", "second"}
    /\ late     \in BOOLEAN
    /\ call     \in [Positions -> {"none", "queued", "choose", "connect", "wait", "done"}]
    /\ trail    \in [Positions -> Seq(Nodes)]
    /\ \A p \in Positions : Len(trail[p]) <= Attempts
    /\ frame    \in [Positions \X Tries -> {"none", "sent", "ran", "erred"}]
    /\ outcome  \in [Positions -> Outcomes]
    /\ gathered \in [Positions -> Outcomes]
    /\ reply    \in [kind : {"none", "rows", "closed", "unknown", "failed"},
                     failures : SUBSET Failure]

Init ==
    /\ closed   = FALSE
    /\ pool     = "open"
    /\ drained  = FALSE
    /\ shut     = FALSE
    /\ serving  = "idle"
    /\ at       = 1
    /\ mine     = "none"
    /\ late     = FALSE
    /\ call     = [p \in Positions |-> "none"]
    /\ trail    = [p \in Positions |-> <<>>]
    /\ frame    = [pt \in Positions \X Tries |-> "none"]
    /\ outcome  = [p \in Positions |-> "none"]
    /\ gathered = [p \in Positions |-> "none"]
    /\ reply    = NoAnswer

Teardown == <<closed, pool, drained, shut>>
Thread   == <<serving, at, mine, late, gathered, reply>>
Work     == <<call, trail, frame, outcome>>

Answer(kind, failures) ==
    /\ serving' = "answered"
    /\ reply' = [kind |-> kind, failures |-> failures]

-----------------------------------------------------------------------------
\* handle_batch looks at _closed once, before anything else.
Admit ==
    /\ serving = "idle"
    /\ IF closed
         THEN Answer("closed", {})
         ELSE serving' = "admitted" /\ UNCHANGED reply
    /\ UNCHANGED <<Teardown, Work, at, mine, late, gathered>>

\* submit_expert_stage: take the executor, or make a new one after close() took it.
TakeExecutor ==
    /\ serving = "admitted"
    /\ serving' = "submit"
    /\ mine' = IF pool = "open" THEN "first" ELSE "second"
    /\ UNCHANGED <<Teardown, Work, at, late, gathered, reply>>

\* One position after another goes to the executor ...
Submit ==
    /\ serving = "submit"
    /\ mine = "first" => pool = "open"
    /\ call' = [call EXCEPT ![at] = "queued"]
    /\ IF at = Width THEN serving' = "gather" /\ at' = 1
                     ELSE at' = at + 1 /\ UNCHANGED serving
    /\ UNCHANGED <<Teardown, mine, late, gathered, reply, trail, frame, outcome>>

\* ... which refuses once it is down: the handler answers ERR_UNKNOWN.
SubmitRefused ==
    /\ serving = "submit"
    /\ mine = "first" /\ pool = "down"
    /\ Answer("unknown", {})
    /\ UNCHANGED <<Teardown, Work, at, mine, late, gathered>>

-----------------------------------------------------------------------------
\* Fault: a timeout counts as a request that never reached the console.
RetryAfterTimeout(exc) ==
    exc \in {"unreachable", "timeout"} \/ (exc = "error" /\ RetryOnError)

\* RetryPolicy.should_retry
ShouldRetry(exc) ==
    CASE exc = "unreachable"  -> TRUE
      [] exc = "error"        -> RetryOnError
      [] exc = "timeout"      -> RetryOnTimeout
      [] exc = "disconnected" -> RetryOnDisconnect
      [] OTHER                -> FALSE

\* _call_expert catches what an attempt raised: try again or raise it.
TryEnds(p, exc) ==
    IF Len(trail[p]) >= Attempts \/ ~ShouldRetry(exc)
      THEN /\ call' = [call EXCEPT ![p] = "done"]
           /\ outcome' = [outcome EXCEPT ![p] = exc]
      ELSE /\ call' = [call EXCEPT ![p] = "choose"]
           /\ UNCHANGED outcome

Start(p) ==
    /\ call[p] = "queued"
    /\ call' = [call EXCEPT ![p] = "choose"]
    /\ UNCHANGED <<Teardown, Thread, trail, frame, outcome>>

\* The next candidate, the last one again when they are used up.
Choose(p) ==
    LET n == Len(trail[p]) + 1
        candidates == CandidatesOf[p]
    IN  /\ call[p] = "choose"
        /\ trail' = [trail EXCEPT ![p] = Append(@,
                        candidates[IF n <= Len(candidates) THEN n ELSE Len(candidates)])]
        /\ call' = [call EXCEPT ![p] = "connect"]
        /\ UNCHANGED <<Teardown, Thread, frame, outcome>>

\* The request of the current attempt.
Current(p) == <<p, Len(trail[p])>>

\* transport.dispatch raises before the frame is written: the console cannot be reached,
\* the connection was retired or the key taken since it was chosen, the write failed, or
\* the transport was closed.
NotSent(p, exc) ==
    /\ call[p] = "connect"
    /\ exc \in {"unreachable", "closed", "collision", "disconnected"}
    /\ TryEnds(p, exc)
    /\ UNCHANGED <<Teardown, Thread, trail, frame>>

Sent(p) ==
    /\ call[p] = "connect"
    /\ ~shut
    /\ frame' = [frame EXCEPT ![Current(p)] = "sent"]
    /\ call' = [call EXCEPT ![p] = "wait"]
    /\ UNCHANGED <<Teardown, Thread, trail, outcome>>

\* The reply arrives: an output, or an ERR, ...
Replied(p) ==
    /\ call[p] = "wait"
    /\ frame[Current(p)] = "ran"
    /\ call' = [call EXCEPT ![p] = "done"]
    /\ outcome' = [outcome EXCEPT ![p] = "ok"]
    /\ UNCHANGED <<Teardown, Thread, trail, frame>>

RepliedErr(p) ==
    /\ call[p] = "wait"
    /\ frame[Current(p)] = "erred"
    /\ TryEnds(p, "error")
    /\ UNCHANGED <<Teardown, Thread, trail, frame>>

\* ... or does not, whatever the console did or will do with the frame.
NoReply(p, exc) ==
    /\ call[p] = "wait"
    /\ exc \in {"timeout", "disconnected"} \/ (shut /\ exc = "closed")
    /\ TryEnds(p, exc)
    /\ UNCHANGED <<Teardown, Thread, trail, frame>>

\* A console computes, or fails to (node.py).
Execute(pt) ==
    /\ frame[pt] = "sent"
    /\ \E result \in {"ran", "erred"} : frame' = [frame EXCEPT ![pt] = result]
    /\ UNCHANGED <<Teardown, Thread, call, trail, outcome>>

-----------------------------------------------------------------------------
DeadlinePasses ==
    /\ serving = "gather"
    /\ ~late
    /\ late' = TRUE
    /\ UNCHANGED <<Teardown, Work, serving, at, mine, gathered, reply>>

\* Fault: the deadline is not looked at.
GatherPatiently ==
    /\ serving = "gather"
    /\ at <= Width
    /\ call[at] = "done"
    /\ gathered' = [gathered EXCEPT ![at] = outcome[at]]
    /\ at' = at + 1
    /\ UNCHANGED <<Teardown, Work, serving, mine, late, reply>>

\* gather: wait for the next position until the deadline; after it, a call that has not
\* ended is a NodeTimeout and keeps running.
Gather ==
    /\ serving = "gather"
    /\ at <= Width
    /\ call[at] = "done" \/ late
    /\ gathered' = [gathered EXCEPT ![at] = IF call[at] = "done" THEN outcome[at] ELSE "timeout"]
    /\ at' = at + 1
    /\ UNCHANGED <<Teardown, Work, serving, mine, late, reply>>

\* Fault: the batch is answered with what there is, if there is anything.
RespondPartly ==
    /\ serving = "gather"
    /\ at = Width + 1
    /\ IF \E p \in Positions : gathered[p] = "ok"
         THEN Answer("rows", {})
         ELSE Answer("failed", {[position |-> p, node |-> Group, reason |-> gathered[p]] :
                                   p \in Positions})
    /\ UNCHANGED <<Teardown, Work, at, mine, late, gathered>>

\* The rows, or one failure for each position that has none: its reason and the last
\* console its call had tried by now.
Respond ==
    LET failed == {p \in Positions : gathered[p] # "ok"} IN
    /\ serving = "gather"
    /\ at = Width + 1
    /\ IF failed = {}
         THEN Answer("rows", {})
         ELSE Answer("failed",
                {[position |-> p, reason |-> gathered[p],
                  node |-> IF trail[p] = <<>> THEN Group ELSE Last(trail[p])] : p \in failed})
    /\ UNCHANGED <<Teardown, Work, at, mine, late, gathered>>

-----------------------------------------------------------------------------
\* BaseCoordinator.close: mark, ...
MarkClosed ==
    /\ ~closed
    /\ closed' = TRUE
    /\ UNCHANGED <<Thread, Work, pool, drained, shut>>

\* ... take the executor and wait for the calls it was given, ...
ShutExecutor ==
    /\ closed /\ pool = "open"
    /\ pool' = "down"
    /\ UNCHANGED <<Thread, Work, closed, drained, shut>>

Drain ==
    /\ pool = "down" /\ ~drained
    /\ mine = "first" => \A p \in Positions : call[p] \in {"none", "done"}
    /\ drained' = TRUE
    /\ UNCHANGED <<Thread, Work, closed, pool, shut>>

\* ... and close the transport.
CloseTransport ==
    /\ drained /\ ~shut
    /\ shut' = TRUE
    /\ UNCHANGED <<Thread, Work, closed, pool, drained>>

-----------------------------------------------------------------------------
Serve == Admit \/ TakeExecutor \/ Submit \/ SubmitRefused \/ Gather \/ Respond

Next ==
    \/ Serve
    \/ DeadlinePasses
    \/ \E p \in Positions :
          \/ Start(p) \/ Choose(p) \/ Sent(p) \/ Replied(p) \/ RepliedErr(p)
          \/ \E exc \in Failures : NotSent(p, exc) \/ NoReply(p, exc)
          \/ \E t \in Tries : Execute(<<p, t>>)
    \/ MarkClosed \/ ShutExecutor \/ Drain \/ CloseTransport

Spec == Init /\ [][Next]_vars

\* The serving thread runs and time passes.  No console has to answer, no call to end.
FairSpec == Spec /\ WF_vars(Serve) /\ WF_vars(DeadlinePasses)

-----------------------------------------------------------------------------
(* Properties *)

\* The policy that promises at-most-once (SAFE_RETRY, with or without retry_on_node_error).
Cautious == ~RetryOnTimeout /\ ~RetryOnDisconnect

\* "retrying keeps at-most-once semantics" (RetryPolicy): of all attempts at an expert, the
\* replicas included, only one can ever have computed an output.
AtMostOnce ==
    Cautious => \A p \in Positions :
        Cardinality({t \in Tries : frame[<<p, t>>] \in {"sent", "ran"}}) <= 1

\* "either delivers every selected contribution or raises": rows are returned only when
\* each expert ran and its call brought the output back, deadline and retries included.
RowsComplete ==
    reply.kind = "rows" =>
        \A p \in Positions : outcome[p] = "ok" /\ frame[Current(p)] = "ran"

\* SubclusterError.safe_to_retry, for the answer the layer receives.
SafeToRetry ==
    \/ reply.kind = "closed"
    \/ reply.kind = "failed" /\ \A f \in reply.failures : f.reason \in {"unreachable", "closed"}

\* "true only when no expert can have run" (hierarchy.py, README.md): re-sending a batch
\* whose refusal says it is safe runs no expert a second time.
SafeMeansNeverRan ==
    SafeToRetry => \A pt \in Positions \X Tries : frame[pt] # "ran"

\* A batch that was taken on is answered, even if no console ever answers.
BatchAnswered == (serving = "admitted") ~> (serving = "answered")
=============================================================================

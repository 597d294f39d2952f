---------------------------- MODULE RegionalStage ----------------------------
(***************************************************************************)
(* One batch through a regional coordinator: handle_batch, _serve_batch    *)
(* and close of ps3_cluster/regional.py and coordinator.py, with the stage *)
(* it fans out through (HierarchicalExpertDispatcher and HierarchicalStage *)
(* of ps3_cluster/hierarchy.py).  The stage of a layer is the same stage   *)
(* without the handler around it.                                          *)
(*                                                                         *)
(* The stage submits one call_batch per head server in group order, awaits *)
(* them in that order under one deadline and raises the first failure,     *)
(* while the calls run in pool threads, a head may run its batch long      *)
(* after the call that sent it gave up, and close() tears the region down. *)
(*                                                                         *)
(* Abstracted: arrays and sums; the ownership and fast checks, which       *)
(* refuse a batch before anything starts; the dedup cache around the       *)
(* stage (DedupCache.tla); call_batch under the default LinkRetryPolicy,   *)
(* which shows as the ways it can end (BatchLink.tla); what a head does    *)
(* with a batch, which shows as the experts that ran and the answers it    *)
(* may give then (ExpertStage.tla, the heads under the default, cautious   *)
(* RetryPolicy).  A write ends: the sendall of a submit has no timeout,    *)
(* and nothing is said of a head that never reads again.                   *)
(***************************************************************************)
EXTENDS Naturals, FiniteSets

CONSTANTS Width,     \* the experts of the batch are at positions 1..Width
          Heads,     \* the head servers 1..Heads, in group order
          HeadOf     \* the head server that fronts each position

Positions == 1..Width
Groups    == 1..Heads

At(h) == {p \in Positions : HeadOf[p] = h}

ASSUME SizeAssumption == Width \in Nat \ {0} /\ Heads \in Nat \ {0}
ASSUME HeadAssumption == HeadOf \in [Positions -> Groups] /\ \A h \in Groups : At(h) # {}

VARIABLES closed,    \* BaseCoordinator._closed
          pool,      \* the fan-out executor: "open", or "down" once close() took it
          drained,   \* dispatcher.close() has returned
          shut,      \* the transport is closed
          handler,   \* where the handler of the batch stands
          at,        \* the group the stage is about to submit or to await
          mine,      \* the executor it submits to: a "second" one if the first is down
          late,      \* the deadline of the stage has passed
          call,      \* where each call_batch of the stage stands
          frame,     \* how far its frame got
          said,      \* what the head answered
          outcome,   \* how the call ended, as far as the stage that awaits it knows
          ran,       \* the positions that were computed
          reply      \* the answer to the batch

vars == <<closed, pool, drained, shut, handler, at, mine, late, call, frame, said, outcome,
          ran, reply>>

\* "unreachable" is also ERR_UNKNOWN_EXPERT and ERR_BAD_REQUEST of a head that refused the
\* batch; "closed" is ERR_SHUTTING_DOWN.
Reasons == {"unreachable", "closed", "other"}

\* A BatchFailure: the expert's position, the head it is attributed to, the reason.
Failure == [position : Positions, head : Groups, reason : Reasons]

\* "failed" names failures; the others are a code without any.
Answer == [kind : {"none", "rows", "failed", "closed", "unnamed"}, failures : SUBSET Failure]

\* What a call_batch can end with, next to an answer of the head.
LinkErrors == {"unreachable", "lost", "shut"}

Outcome == Answer \cup [kind : LinkErrors \cup {"late"}, failures : {{}}]

Just(kind) == [kind |-> kind, failures |-> {}]

TypeOK ==
    /\ {closed, drained, shut, late} \subseteq BOOLEAN
    /\ pool    \in {"open", "down"}
    /\ handler \in {"none", "admitted", "submit", "await", "replied"}
    /\ at      \in 1..(Heads + 1)
    /\ mine    \in {"none", "first", "second"}
    /\ call    \in [Groups -> {"none", "queued", "wait", "done"}]
    /\ frame   \in [Groups -> {"none", "out", "answered"}]
    /\ said    \in [Groups -> Answer]
    /\ outcome \in [Groups -> Outcome]
    /\ ran     \subseteq Positions
    /\ reply   \in Answer

Init ==
    /\ closed  = FALSE
    /\ pool    = "open"
    /\ drained = FALSE
    /\ shut    = FALSE
    /\ handler = "none"
    /\ at      = 1
    /\ mine    = "none"
    /\ late    = FALSE
    /\ call    = [h \in Groups |-> "none"]
    /\ frame   = [h \in Groups |-> "none"]
    /\ said    = [h \in Groups |-> Just("none")]
    /\ outcome = [h \in Groups |-> Just("none")]
    /\ ran     = {}
    /\ reply   = Just("none")

Teardown == <<closed, pool, drained, shut>>
Staging  == <<at, mine, late>>
Calling  == <<call, frame, said, outcome, ran>>

Send(answer) ==
    /\ handler' = "replied"
    /\ reply'   = answer

-----------------------------------------------------------------------------
\* The frame arrives; handle_batch looks at _closed once, before anything else.
Arrive ==
    /\ handler = "none"
    /\ IF closed THEN Send(Just("closed")) ELSE handler' = "admitted" /\ UNCHANGED reply
    /\ UNCHANGED <<Teardown, Staging, Calling>>

\* submit_expert_stage: take the executor, or make a new one after close() took it, ...
TakeExecutor ==
    /\ handler = "admitted"
    /\ mine' = IF pool = "open" THEN "first" ELSE "second"
    /\ handler' = "submit"
    /\ UNCHANGED <<Teardown, Calling, at, late, reply>>

\* ... submit one call per group ...
Submit ==
    /\ handler = "submit"
    /\ mine = "first" => pool = "open"
    /\ call' = [call EXCEPT ![at] = "queued"]
    /\ IF at = Heads
         THEN at' = 1 /\ handler' = "await"
         ELSE at' = at + 1 /\ UNCHANGED handler
    /\ UNCHANGED <<Teardown, mine, late, frame, said, outcome, ran, reply>>

\* Fault: the refusal is logged and nobody is answered.
RefusedInSilence ==
    /\ handler = "submit"
    /\ mine = "first" /\ pool = "down"
    /\ UNCHANGED vars

\* ... until the executor is down.  The RuntimeError leaves _serve_batch, the handler
\* answers ERR_UNKNOWN and names nobody, and nobody awaits what was submitted.
SubmitRefused ==
    /\ handler = "submit"
    /\ mine = "first" /\ pool = "down"
    /\ Send(Just("unnamed"))
    /\ UNCHANGED <<Teardown, Staging, Calling>>

-----------------------------------------------------------------------------
\* A call ends; its future keeps the outcome for a stage that has not gone on without it.
EndCall(h, end) ==
    /\ call' = [call EXCEPT ![h] = "done"]
    /\ outcome' = IF outcome[h].kind = "none" /\ handler \in {"submit", "await"}
                    THEN [outcome EXCEPT ![h] = end] ELSE outcome
    /\ said' = [said EXCEPT ![h] = Just("none")]

\* call_batch gives up before a whole frame was written: NodeConnectError or PoolExhausted,
\* a write that failed half-way, TransportClosed of the transport or of a connection that
\* was retired under the call.
NotSent(h, kind) ==
    /\ call[h] = "queued"
    /\ EndCall(h, Just(kind))
    /\ UNCHANGED <<Teardown, Staging, handler, frame, ran, reply>>

Sent(h) ==
    /\ call[h] = "queued"
    /\ ~shut
    /\ call' = [call EXCEPT ![h] = "wait"]
    /\ frame' = [frame EXCEPT ![h] = "out"]
    /\ UNCHANGED <<Teardown, Staging, handler, said, outcome, ran, reply>>

Replied(h) ==
    /\ call[h] = "wait"
    /\ frame[h] = "answered"
    /\ EndCall(h, said[h])
    /\ UNCHANGED <<Teardown, Staging, handler, frame, ran, reply>>

\* The answer does not come in time, or the link is lost or closed; the frame goes on.
NoReply(h, kind) ==
    /\ call[h] = "wait"
    /\ kind = "lost" \/ (kind = "shut" /\ shut)
    /\ EndCall(h, Just(kind))
    /\ UNCHANGED <<Teardown, Staging, handler, frame, ran, reply>>

\* The failures a head may name when the experts R of its batch ran: those that did not,
\* unless it refused the batch for some of them, and any that did, but not as unreachable.
\* A console whose frame is out when the head's own transport closes is named with
\* ERR_SHUTTING_DOWN whether it runs or not.
Named(h, R) ==
    {F \in SUBSET [position : At(h), head : {h}, reason : Reasons] :
        /\ At(h) \ R \subseteq {f.position : f \in F} \/ R = {}
        /\ \A f \in F : f.reason = "unreachable" => f.position \notin R
        /\ \A f, g \in F : f.position = g.position => f = g
        /\ F # {}}

Answers(h, R) ==
    {Just("unnamed")} \cup {[kind |-> "failed", failures |-> F] : F \in Named(h, R)}
    \cup (IF R = {} THEN {Just("closed")} ELSE {})
    \cup (IF R = At(h) THEN {Just("rows")} ELSE {})

\* A head handles a batch: it refuses it or runs some experts, and answers with all rows,
\* the failures it has, or a code alone; the answer is dropped if nobody waits for it.
HeadAnswers(h) ==
    /\ frame[h] = "out"
    /\ \E R \in SUBSET At(h) :
          /\ ran' = ran \cup R
          /\ \E answer \in Answers(h, R) :
                said' = IF call[h] = "wait" THEN [said EXCEPT ![h] = answer] ELSE said
    /\ frame' = [frame EXCEPT ![h] = "answered"]
    /\ UNCHANGED <<Teardown, Staging, handler, call, outcome, reply>>

-----------------------------------------------------------------------------
DeadlinePasses ==
    /\ handler = "await"
    /\ ~late
    /\ late' = TRUE
    /\ UNCHANGED <<Teardown, Calling, handler, at, mine, reply>>

\* Fault: the first failure ends the wait for the others.
AwaitUntilFailure ==
    /\ handler = "await"
    /\ at <= Heads
    /\ call[at] = "done" \/ late
    /\ outcome' = IF call[at] = "done" THEN outcome ELSE [outcome EXCEPT ![at] = Just("late")]
    /\ at' = IF outcome'[at].kind = "rows" THEN at + 1 ELSE Heads + 1
    /\ UNCHANGED <<Teardown, handler, mine, late, call, frame, said, ran, reply>>

\* _await_all: one group after the other, until the deadline; after it, a call that has
\* not ended is a TimeoutError and keeps running.
Await ==
    /\ handler = "await"
    /\ at <= Heads
    /\ call[at] = "done" \/ late
    /\ outcome' = IF call[at] = "done" THEN outcome ELSE [outcome EXCEPT ![at] = Just("late")]
    /\ at' = at + 1
    /\ UNCHANGED <<Teardown, handler, mine, late, call, frame, said, ran, reply>>

\* The reason code of a failure that names nobody: failure_reason, or the BERR's own code.
Reason(kind) ==
    CASE kind = "unreachable"        -> "unreachable"
      [] kind \in {"closed", "shut"} -> "closed"
      [] OTHER                       -> "other"

\* _forward_error and _link_error: what the head named, or else every entry of the batch
\* under that head, also those that another head fronts.
Reported(h, end) ==
    IF end.failures # {} THEN end.failures
    ELSE {[position |-> p, head |-> h, reason |-> Reason(end.kind)] : p \in Positions}

Failed == {h \in Groups : outcome[h].kind # "rows"}

FirstFailed == CHOOSE h \in Failed : \A g \in Failed : h <= g

\* Fault: an answer is given for what there is.
RespondPartly ==
    /\ handler = "await"
    /\ at = Heads + 1
    /\ Send(IF Failed # Groups THEN Just("rows") ELSE Just("unnamed"))
    /\ UNCHANGED <<Teardown, Staging, Calling>>

\* Fault: a call the deadline overtook is reported like a head that was not reached.
RespondTimeoutAsLink ==
    /\ handler = "await"
    /\ at = Heads + 1
    /\ IF Failed = {} THEN Send(Just("rows"))
       ELSE LET h   == FirstFailed
                end == IF outcome[h].kind = "late" THEN Just("unreachable") ELSE outcome[h]
            IN  Send([kind |-> "failed", failures |-> Reported(h, end)])
    /\ UNCHANGED <<Teardown, Staging, Calling>>

\* All rows, or the first failure in group order; a TimeoutError is not caught in
\* _serve_batch: the handler answers ERR_NODE_TIMEOUT and names nobody.
Respond ==
    /\ handler = "await"
    /\ at = Heads + 1
    /\ IF Failed = {} THEN Send(Just("rows"))
       ELSE LET h   == FirstFailed
                end == outcome[h]
            IN  Send(IF end.kind = "late" THEN Just("unnamed")
                     ELSE [kind |-> "failed", failures |-> Reported(h, end)])
    /\ UNCHANGED <<Teardown, Staging, Calling>>

-----------------------------------------------------------------------------
\* BaseCoordinator.close: mark, ...
MarkClosed ==
    /\ ~closed
    /\ closed' = TRUE
    /\ UNCHANGED <<Staging, Calling, handler, reply, pool, drained, shut>>

\* ... take the executor and wait for the calls it was given, ...
ShutExecutor ==
    /\ closed /\ pool = "open"
    /\ pool' = "down"
    /\ UNCHANGED <<Staging, Calling, handler, reply, closed, drained, shut>>

\* Fault: close also waits for the answers to the frames that are out.
DrainFrames ==
    /\ pool = "down" /\ ~drained
    /\ mine = "first" => \A h \in Groups : frame[h] # "out" /\ call[h] \in {"none", "done"}
    /\ drained' = TRUE
    /\ UNCHANGED <<Staging, Calling, handler, reply, closed, pool, shut>>

Drain ==
    /\ pool = "down" /\ ~drained
    /\ mine = "first" => \A h \in Groups : call[h] \in {"none", "done"}
    /\ drained' = TRUE
    /\ UNCHANGED <<Staging, Calling, handler, reply, closed, pool, shut>>

\* ... and close the transport.
CloseTransport ==
    /\ drained /\ ~shut
    /\ shut' = TRUE
    /\ UNCHANGED <<Staging, Calling, handler, reply, closed, pool, drained>>

-----------------------------------------------------------------------------
Serve == TakeExecutor \/ Submit \/ SubmitRefused \/ Await \/ Respond

Call(h) ==
    \/ Sent(h) \/ Replied(h)
    \/ \E kind \in LinkErrors : NotSent(h, kind) \/ NoReply(h, kind)

Close == MarkClosed \/ ShutExecutor \/ Drain \/ CloseTransport

Next ==
    \/ Arrive \/ Serve \/ DeadlinePasses
    \/ \E h \in Groups : Call(h) \/ HeadAnswers(h)
    \/ Close

Spec == Init /\ [][Next]_vars

\* The threads run and time passes: the handler, the stage's deadline, the calls (each has
\* a timeout of its own) and close(), once it was called.  No head has to answer.
FairSpec ==
    /\ Spec
    /\ WF_vars(Serve) /\ WF_vars(DeadlinePasses)
    /\ \A h \in Groups : WF_vars(Call(h))
    /\ WF_vars(ShutExecutor \/ Drain \/ CloseTransport)

-----------------------------------------------------------------------------
(* Properties *)

\* "A region answers with every requested contribution or a BERR, never a short sum"
\* (regional.py): rows mean that every expert of the batch ran and that every call
\* brought its rows back, whatever ended late, failed or was torn down meanwhile.
RowsComplete ==
    reply.kind = "rows" => ran = Positions /\ \A h \in Groups : outcome[h].kind = "rows"

\* "Every sibling batch has been awaited, so nothing is orphaned" (hierarchy.py), as far as
\* the deadline allows: a stage that returned in time has no call running.
AwaitedInTime ==
    reply.kind \in {"rows", "failed"} /\ ~late => \A h \in Groups : call[h] = "done"

\* A safe reason that is attributed to the head that fronts the expert is true: that expert
\* did not run and never will.  ERR_SHUTTING_DOWN is so only as the code of a refused batch
\* or of a call that could not be sent: a head that names experts with it speaks of frames
\* its own closing transport may have sent, and so does the region once its own is closed.
OwnSafeReasonTrue ==
    \A f \in reply.failures :
        /\ f.head = HeadOf[f.position]
        /\ \/ f.reason = "unreachable"
           \/ f.reason = "closed" /\ ~shut /\ outcome[f.head].failures = {}
        => f.position \notin ran /\ frame[f.head] # "out"

\* A batch that was taken on is answered, even if no head ever answers and the region is
\* closed meanwhile.
BatchAnswered == (handler = "admitted") ~> (handler = "replied")

\* close() returns: the calls it waits for end, whoever still owes them an answer.
CloseReturns == closed ~> shut
=============================================================================

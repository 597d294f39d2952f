------------------------------ MODULE BatchLink ------------------------------
(***************************************************************************)
(* One logical batch over the link to a coordinator: call_batch of         *)
(* ps3_cluster/hierarchy.py with its retries, and the processes that may   *)
(* serve an attempt: _UpstreamHandler and handle_batch of                  *)
(* ps3_cluster/coordinator.py under the dedup cache.                       *)
(*                                                                         *)
(* Every attempt carries the same request id.  The call is one thread; an  *)
(* attempt that reached a process has a thread of that process's upstream  *)
(* pool, which goes on after the caller gave the attempt up.  An execution *)
(* is named after the attempt that started it.  A process may crash and    *)
(* lose its cache; several endpoints may lead to one process.              *)
(*                                                                         *)
(* Abstracted: the cache is the promise DedupCache.tla implements (a       *)
(* completed answer may be dropped at any moment, a running one never);    *)
(* whether a coordinator is closed and whether its cache has room are open *)
(* at every attempt; the choice of an endpoint and the ways a send can     *)
(* fail are ConnectionPool.tla; that a reply is handed only to its own     *)
(* attempt is Connection.tla; what an execution does is ExpertStage.tla    *)
(* and RegionalStage.tla, of which only the reasons its BERR names matter  *)
(* here.  A write ends: the sendall of a submit has no timeout, and the    *)
(* model says nothing of a peer that never reads again.                    *)
(***************************************************************************)
EXTENDS Naturals

CONSTANTS Endpoints,    \* the endpoints of the logical coordinator
          ProcessOf,    \* the process behind each
          MaxAttempts,  \* LinkRetryPolicy.attempts, at most
          MaxEpoch,     \* how often a process may lose an answer
          None          \* "no endpoint", "no attempt"

Attempts  == 1..MaxAttempts
Processes == {ProcessOf[e] : e \in Endpoints}

ASSUME AttemptsAssumption == MaxAttempts \in Nat \ {0}
ASSUME EpochAssumption    == MaxEpoch \in Nat
ASSUME NoneAssumption     == None \notin Endpoints \cup Attempts

VARIABLES policy,   \* the LinkRetryPolicy of the call
          pc,       \* where the call stands
          attempt,  \* the current attempt
          answer,   \* what the call returned or raised
          frame,    \* where the request of each attempt is
          at,       \* the endpoint it went to
          source,   \* the execution its handler waits for
          reply,    \* the frame its handler sent back
          up,       \* processes that run
          table,    \* the execution a process remembers for the request id
          epoch,    \* how often a process has lost or dropped one
          ran,      \* the executions that were started
          born,     \* the epoch of its process each started in
          result    \* how each ended

caller == <<policy, pc, attempt, answer>>
wire   == <<frame, at, source, reply>>
server == <<up, table, epoch>>
runs   == <<ran, born, result>>
vars   == <<caller, wire, server, runs>>

-----------------------------------------------------------------------------
Policies == [attempts : Attempts, retry_safe : BOOLEAN, retry_ambiguous : BOOLEAN]

\* BERR answers that no execution produced: handle_batch refuses the batch (the coordinator
\* is closed, does not hold an expert, does not serve fast batches), the cache is full, or
\* the execution a retry waits for takes too long.
Refusals == {"refused", "capacity", "running"}

\* How an execution ends: rows, a BERR, a BERR whose every named reason is in _NEVER_RAN,
\* or an exception.
Results == {"rows", "failed", "blameless", "raised"}

\* How a submit fails: no endpoint or connection to be had, the connection or the write
\* failed, or (no TransportError) the correlation key was taken.
Unsent == {"unreachable", "disconnected", "collision"}

NoAnswer == [kind |-> "none", of |-> None]

TypeOK ==
    /\ policy  \in Policies
    /\ pc      \in {"new", "submit", "wait", "returned"}
    /\ attempt \in Attempts
    /\ answer  \in [kind : {"none", "lost"} \cup Refusals \cup Results \cup Unsent,
                    of : Attempts \cup {None}]
    /\ frame   \in [Attempts -> {"none", "out", "handled", "replied", "lost"}]
    /\ at      \in [Attempts -> Endpoints \cup {None}]
    /\ source  \in [Attempts -> Attempts \cup {None}]
    /\ reply   \in [Attempts -> {"none"} \cup Refusals \cup Results]
    /\ up      \subseteq Processes
    /\ table   \in [Processes -> Attempts \cup {None}]
    /\ epoch   \in [Processes -> 0..MaxEpoch]
    /\ ran     \subseteq Attempts
    /\ born    \in [Attempts -> 0..MaxEpoch]
    /\ result  \in [Attempts -> {"none"} \cup Results]

Init ==
    /\ policy  \in Policies
    /\ pc      = "new"
    /\ attempt = 1
    /\ answer  = NoAnswer
    /\ frame   = [a \in Attempts |-> "none"]
    /\ at      = [a \in Attempts |-> None]
    /\ source  = [a \in Attempts |-> None]
    /\ reply   = [a \in Attempts |-> "none"]
    /\ up      = Processes
    /\ table   = [p \in Processes |-> None]
    /\ epoch   = [p \in Processes |-> 0]
    /\ ran     = {}
    /\ born    = [a \in Attempts |-> 0]
    /\ result  = [a \in Attempts |-> "none"]

-----------------------------------------------------------------------------
Home(a) == ProcessOf[at[a]]

Return(a) == pc' = "returned" /\ answer' = a /\ UNCHANGED attempt

Last == attempt >= policy.attempts

\* Fault: an ambiguous failure is retried under retry_safe.
MayRetryEither(ambiguous) == policy.retry_safe

\* Whether the policy allows another attempt, were there one left.
MayRetry(ambiguous) == IF ambiguous THEN policy.retry_ambiguous ELSE policy.retry_safe

\* Fault: the attempts are not counted.
AgainUncounted(kind, ambiguous) ==
    IF Last \/ ~MayRetry(ambiguous)
      THEN Return([kind |-> kind, of |-> None])
      ELSE pc' = "submit" /\ UNCHANGED <<attempt, answer>>

\* An attempt failed with a TransportError: the next one, or raise it.
Again(kind, ambiguous) ==
    IF Last \/ ~MayRetry(ambiguous)
      THEN Return([kind |-> kind, of |-> None])
      ELSE pc' = "submit" /\ attempt' = attempt + 1 /\ UNCHANGED answer

-----------------------------------------------------------------------------
Call ==
    /\ pc = "new"
    /\ pc' = "submit"
    /\ UNCHANGED <<policy, attempt, answer, wire, server, runs>>

\* submit_batch raises before the frame is written.
SubmitFails(kind) ==
    /\ pc = "submit"
    /\ IF kind = "collision" THEN Return([kind |-> kind, of |-> None])
                             ELSE Again(kind, FALSE)
    /\ UNCHANGED <<policy, wire, server, runs>>

\* The frame is written.  To a process that is down it still may be, on a connection
\* that has not noticed.
Submit(e) ==
    /\ pc = "submit"
    /\ pc' = "wait"
    /\ at' = [at EXCEPT ![attempt] = e]
    /\ frame' = [frame EXCEPT ![attempt] = IF ProcessOf[e] \in up THEN "out" ELSE "lost"]
    /\ UNCHANGED <<policy, attempt, answer, source, reply, server, runs>>

\* The answer of the current attempt arrives: the rows, or SubclusterError, which is
\* never retried.
Answered ==
    /\ pc = "wait"
    /\ frame[attempt] = "replied"
    /\ Return([kind |-> reply[attempt], of |-> source[attempt]])
    /\ UNCHANGED <<policy, wire, server, runs>>

\* A timeout or a lost connection: cancel, mark the endpoint dead, and retry only by
\* permission.  The frame goes on.
GiveUp ==
    /\ pc = "wait"
    /\ Again("lost", TRUE)
    /\ UNCHANGED <<policy, wire, server, runs>>

-----------------------------------------------------------------------------
Reply(a, kind) ==
    /\ frame' = [frame EXCEPT ![a] = "replied"]
    /\ reply' = [reply EXCEPT ![a] = kind]

\* handle_batch refuses before it looks in the cache, or the cache has no room.
Refuse(a, kind) ==
    /\ frame[a] = "out"
    /\ kind = "refused" \/ (kind = "capacity" /\ table[Home(a)] = None)
    /\ Reply(a, kind)
    /\ UNCHANGED <<caller, at, source, server, runs>>

\* Fault: a retry that finds its batch still running starts it again.
ExecuteAgain(a) ==
    /\ frame[a] = "out"
    /\ table[Home(a)] \notin {b \in ran : result[b] # "none"}
    /\ table' = [table EXCEPT ![Home(a)] = a]
    /\ ran' = ran \cup {a}
    /\ born' = [born EXCEPT ![a] = epoch[Home(a)]]
    /\ source' = [source EXCEPT ![a] = a]
    /\ frame' = [frame EXCEPT ![a] = "handled"]
    /\ UNCHANGED <<caller, at, reply, up, epoch, result>>

\* The process does not know the request id: it runs the batch ...
Execute(a) ==
    /\ frame[a] = "out"
    /\ table[Home(a)] = None
    /\ table' = [table EXCEPT ![Home(a)] = a]
    /\ ran' = ran \cup {a}
    /\ born' = [born EXCEPT ![a] = epoch[Home(a)]]
    /\ source' = [source EXCEPT ![a] = a]
    /\ frame' = [frame EXCEPT ![a] = "handled"]
    /\ UNCHANGED <<caller, at, reply, up, epoch, result>>

\* ... or waits for the execution it knows, ended or not.
Join(a) ==
    /\ frame[a] = "out"
    /\ table[Home(a)] # None
    /\ source' = [source EXCEPT ![a] = table[Home(a)]]
    /\ frame' = [frame EXCEPT ![a] = "handled"]
    /\ UNCHANGED <<caller, at, reply, server, runs>>

\* The execution ends with rows, with a BERR of either sort, which is remembered like rows,
\* or with an exception, which is not.
Finish(a, how) ==
    /\ frame[a] = "handled"
    /\ source[a] = a
    /\ result[a] = "none"
    /\ result' = [result EXCEPT ![a] = how]
    /\ IF how = "raised"
         THEN /\ epoch[Home(a)] < MaxEpoch
              /\ table' = [table EXCEPT ![Home(a)] = None]
              /\ epoch' = [epoch EXCEPT ![Home(a)] = @ + 1]
         ELSE UNCHANGED <<table, epoch>>
    /\ UNCHANGED <<caller, wire, up, ran, born>>

\* The handler sends back what the execution it waits for ended with, ...
Respond(a) ==
    /\ frame[a] = "handled"
    /\ result[source[a]] # "none"
    /\ Reply(a, result[source[a]])
    /\ UNCHANGED <<caller, at, source, server, runs>>

\* ... or that it is still running, if it is not its own.
RespondRunning(a) ==
    /\ frame[a] = "handled"
    /\ source[a] # a
    /\ result[source[a]] = "none"
    /\ Reply(a, "running")
    /\ UNCHANGED <<caller, at, source, server, runs>>

-----------------------------------------------------------------------------
\* The cache drops the completed answer: its ttl, or room for others.
Forget(p) ==
    /\ table[p] # None
    /\ result[table[p]] # "none"
    /\ epoch[p] < MaxEpoch
    /\ table' = [table EXCEPT ![p] = None]
    /\ epoch' = [epoch EXCEPT ![p] = @ + 1]
    /\ UNCHANGED <<caller, wire, up, runs>>

\* A process dies with its handlers and its cache.  Its consoles may have computed all
\* the same.
Crash(p) ==
    /\ p \in up
    /\ epoch[p] < MaxEpoch
    /\ up' = up \ {p}
    /\ table' = [table EXCEPT ![p] = None]
    /\ epoch' = [epoch EXCEPT ![p] = @ + 1]
    /\ frame' = [a \in Attempts |-> IF frame[a] \in {"out", "handled"} /\ Home(a) = p
                                      THEN "lost" ELSE frame[a]]
    /\ UNCHANGED <<caller, at, source, reply, runs>>

Restart(p) ==
    /\ p \in Processes \ up
    /\ up' = up \cup {p}
    /\ UNCHANGED <<caller, wire, table, epoch, runs>>

-----------------------------------------------------------------------------
Caller ==
    \/ (\E kind \in Unsent : SubmitFails(kind)) \/ (\E e \in Endpoints : Submit(e))
    \/ Answered \/ GiveUp

Next ==
    \/ Call
    \/ Caller
    \/ \E a \in Attempts :
          \/ \E kind \in Refusals : Refuse(a, kind)
          \/ Execute(a) \/ Join(a)
          \/ \E how \in Results : Finish(a, how)
          \/ Respond(a) \/ RespondRunning(a)
    \/ \E p \in Processes : Forget(p) \/ Crash(p) \/ Restart(p)

Spec == Init /\ [][Next]_vars

\* The calling thread runs, and its wait has a timeout.  No process has to answer.
FairSpec == Spec /\ WF_vars(Caller)

-----------------------------------------------------------------------------
(* Properties *)

\* "the dedup cache that makes a retried batch execute once per process" (coordinator.py):
\* whatever retries, joins, refusals and late handlers do, a process executes the batch a
\* second time only after it crashed, dropped the first answer or saw it raise.
OncePerProcess ==
    \A a, b \in ran : a # b => <<Home(a), born[a]>> # <<Home(b), born[b]>>

\* Without retry_ambiguous a batch is executed at most once in the whole cluster.
AtMostOnce == ~policy.retry_ambiguous => \A a, b \in ran : a = b

\* Rows that are returned are those of an execution that produced them, replayed or not,
\* and no execution that ended otherwise is mixed in.
RowsFromExecution ==
    answer.kind = "rows" => answer.of \in ran /\ result[answer.of] = "rows"

\* safe_to_retry of what the call raised: NodeConnectError and PoolExhausted, and a
\* SubclusterError whose code, or whose every named reason, is in _NEVER_RAN, be it a
\* refusal or the end of an execution.
SafeToRetry == answer.kind \in {"unreachable", "refused", "blameless"}

\* "keeps a layer-level retry at-most-once" (errors.py), as far as the link goes: without
\* retry_ambiguous an error that is safe to retry hides no execution.  No process ran the
\* batch, or the only execution in the cluster is the one whose BERR it is; an abandoned
\* attempt has not run it elsewhere.  (That such a BERR proves its own experts never ran
\* is the claim SafeMeansNeverRan of ExpertStage.tla, which the code does not keep.)
CautiousSafeHidesNoRun ==
    ~policy.retry_ambiguous /\ SafeToRetry =>
        \A a \in ran : a = answer.of /\ result[a] = "blameless"

\* The call returns, even if no process ever answers what was sent to it.
CallReturns == (pc = "submit") ~> (pc = "returned")
=============================================================================

--------------------------- MODULE BatchLinkProofs ---------------------------
(***************************************************************************)
(* What a batch over one link promises for every number of attempts, every *)
(* arrangement of endpoints and processes and every retry policy.          *)
(*                                                                         *)
(* OncePerProcess is not inductive: that two executions differ in their    *)
(* process or its epoch follows from what the process remembers.  An       *)
(* execution of the current epoch is still the one in the table            *)
(* (RememberedInv), so nothing is executed next to it.  AtMostOnce needs   *)
(* that without permission only the current attempt was ever sent          *)
(* (CautiousInv).                                                          *)
(***************************************************************************)
EXTENDS BatchLink, TLAPS

\* What has been sent, and what can have been executed.
SentInv ==
    /\ pc \in {"new", "submit"} => frame[attempt] = "none"
    /\ pc # "returned" => answer = NoAnswer
    /\ \A a \in Attempts :
          /\ a > attempt => frame[a] = "none"
          /\ frame[a] # "none" => at[a] \in Endpoints
          /\ frame[a] \in {"none", "out"} => a \notin ran /\ source[a] = None
          /\ frame[a] = "handled" => source[a] \in ran
          /\ source[a] = a => a \in ran

\* A process remembers an execution of its own until its epoch ends.
RememberedInv ==
    /\ \A a \in ran : /\ born[a] <= epoch[Home(a)]
                      /\ born[a] = epoch[Home(a)] => table[Home(a)] = a
    /\ \A p \in Processes : table[p] # None => table[p] \in ran

\* A handler's answer is the outcome of an execution, or a refusal and no execution.
ReplyInv ==
    \A a \in Attempts : frame[a] = "replied" =>
        /\ reply[a] \in Results => source[a] \in ran /\ result[source[a]] = reply[a]
        /\ reply[a] = "refused" => a \notin ran

\* The call's answer is that of its last attempt.
AnswerInv ==
    /\ answer.kind \in Unsent => frame[attempt] = "none"
    /\ answer.kind \in {"refused", "blameless"} =>
          /\ frame[attempt] = "replied" /\ reply[attempt] = answer.kind
          /\ answer.of = source[attempt]
    /\ RowsFromExecution

\* A policy that does not retry ambiguous failures has sent the current attempt only.
CautiousInv ==
    ~policy.retry_ambiguous => \A a \in Attempts : frame[a] # "none" => a = attempt

IInv ==
    /\ TypeOK
    /\ SentInv
    /\ RememberedInv
    /\ ReplyInv
    /\ AnswerInv
    /\ CautiousInv
    /\ OncePerProcess

-----------------------------------------------------------------------------
\* The invariant holds when the call has not begun.
LEMMA InitInv == Init => IInv
<1> SUFFICES ASSUME Init PROVE IInv
  OBVIOUS
<1> USE AttemptsAssumption, EpochAssumption, NoneAssumption DEF Init
<1>1. TypeOK
  BY DEF TypeOK, NoAnswer, Attempts, Policies
<1>2. SentInv /\ RememberedInv /\ ReplyInv /\ CautiousInv
  BY DEF SentInv, RememberedInv, ReplyInv, CautiousInv, Results, Attempts, NoAnswer
<1>3. AnswerInv /\ OncePerProcess
  BY DEF AnswerInv, OncePerProcess, RowsFromExecution, NoAnswer, Unsent
<1> QED
  BY <1>1, <1>2, <1>3 DEF IInv

\* An attempt that ends without an answer ends the call or leads to the next attempt.
LEMMA NextAttempt ==
  ASSUME IInv, NEW kind \in {"unreachable", "disconnected", "lost"}, NEW ambiguous \in BOOLEAN,
         Again(kind, ambiguous)
  PROVE  \/ /\ pc' = "returned" /\ attempt' = attempt
            /\ answer' = [kind |-> kind, of |-> None]
         \/ /\ pc' = "submit" /\ attempt' = attempt + 1 /\ attempt' \in Attempts
            /\ answer' = answer
            /\ ambiguous => policy.retry_ambiguous
<1>1. policy.attempts \in Attempts /\ attempt \in Attempts
  BY DEF IInv, TypeOK, Policies
<1> QED
  BY <1>1, AttemptsAssumption DEF Again, Return, Last, MayRetry, Attempts

\* Every step preserves the invariant.
LEMMA StepInv == IInv /\ [Next]_vars => IInv'
<1> SUFFICES ASSUME IInv, [Next]_vars PROVE IInv'
  OBVIOUS
<1> USE AttemptsAssumption, EpochAssumption, NoneAssumption DEF IInv
<1>h. \A a \in Attempts : frame[a] # "none" => Home(a) \in Processes
  BY DEF SentInv, Home, Processes
<1>r. \A a \in ran : a \in Attempts /\ frame[a] # "none"
  BY DEF SentInv, TypeOK
<1>1. CASE Call
  <2> USE <1>1 DEF Call, wire, server, runs
  <2>1. TypeOK'
    BY DEF TypeOK
  <2>2. SentInv' /\ RememberedInv' /\ ReplyInv' /\ CautiousInv'
    BY DEF SentInv, RememberedInv, ReplyInv, CautiousInv, Home
  <2>3. AnswerInv' /\ OncePerProcess'
    BY DEF AnswerInv, OncePerProcess, RowsFromExecution, Home
  <2> QED
    BY <2>1, <2>2, <2>3
<1>2. ASSUME NEW kind \in Unsent, SubmitFails(kind)
      PROVE IInv'
  <2> USE <1>2 DEF SubmitFails, wire, server, runs
  <2>1. \/ /\ pc' = "returned" /\ attempt' = attempt
           /\ answer' = [kind |-> kind, of |-> None]
        \/ /\ pc' = "submit" /\ attempt' = attempt + 1 /\ attempt' \in Attempts
           /\ answer' = answer
    BY NextAttempt DEF Unsent, Return
  <2>2. TypeOK'
    BY <2>1 DEF TypeOK, Unsent
  <2>3. frame[attempt] = "none" /\ answer = NoAnswer
    BY DEF SentInv
  <2>4. SentInv' /\ CautiousInv'
    BY <2>1, <2>3 DEF SentInv, CautiousInv, Attempts, TypeOK
  <2>5. RememberedInv' /\ ReplyInv' /\ OncePerProcess'
    BY DEF RememberedInv, ReplyInv, OncePerProcess, Home
  <2>6. AnswerInv'
    BY <2>1, <2>3 DEF AnswerInv, RowsFromExecution, Unsent, NoAnswer
  <2> QED
    BY <2>2, <2>4, <2>5, <2>6
<1>3. ASSUME NEW e \in Endpoints, Submit(e)
      PROVE IInv'
  <2> USE <1>3 DEF Submit, server, runs
  <2>1. frame[attempt] = "none" /\ attempt \in Attempts /\ answer = NoAnswer
    BY DEF SentInv, TypeOK
  <2>2. TypeOK'
    BY DEF TypeOK
  <2>3. attempt \notin ran
    BY <2>1, <1>r
  <2>4. \A a \in Attempts : a # attempt => frame'[a] = frame[a] /\ at'[a] = at[a]
    BY DEF TypeOK
  <2>5. frame'[attempt] \in {"out", "lost"} /\ at'[attempt] = e
    BY <2>1 DEF TypeOK
  <2>6. SentInv'
    BY <2>1, <2>3, <2>4, <2>5 DEF SentInv, Attempts, TypeOK
  <2>7. \A a \in ran : Home(a)' = Home(a)
    BY <2>3, <2>4, <1>r DEF Home
  <2>8. RememberedInv' /\ OncePerProcess'
    BY <2>7 DEF RememberedInv, OncePerProcess
  <2>9. ReplyInv' /\ CautiousInv'
    BY <2>1, <2>4, <2>5 DEF ReplyInv, CautiousInv
  <2>10. AnswerInv'
    BY <2>1 DEF AnswerInv, RowsFromExecution, NoAnswer, Unsent
  <2> QED
    BY <2>2, <2>6, <2>8, <2>9, <2>10
<1>4. CASE Answered
  <2> USE <1>4 DEF Answered, Return, wire, server, runs
  <2>1. attempt \in Attempts /\ frame[attempt] = "replied"
    BY DEF TypeOK
  <2>2. reply[attempt] \in {"none"} \cup Refusals \cup Results
    BY <2>1 DEF TypeOK
  <2>3. TypeOK'
    BY <2>1, <2>2 DEF TypeOK
  <2>4. SentInv' /\ RememberedInv' /\ ReplyInv' /\ CautiousInv' /\ OncePerProcess'
    BY DEF SentInv, RememberedInv, ReplyInv, CautiousInv, OncePerProcess, Home
  <2>5. AnswerInv'
    BY <2>1, <2>2 DEF AnswerInv, RowsFromExecution, ReplyInv, Unsent, Refusals, Results
  <2> QED
    BY <2>3, <2>4, <2>5
<1>5. CASE GiveUp
  <2> USE <1>5 DEF GiveUp, wire, server, runs
  <2>1. \/ /\ pc' = "returned" /\ attempt' = attempt
           /\ answer' = [kind |-> "lost", of |-> None]
        \/ /\ pc' = "submit" /\ attempt' = attempt + 1 /\ attempt' \in Attempts
           /\ answer' = answer
           /\ policy.retry_ambiguous
    BY NextAttempt
  <2>2. answer = NoAnswer
    BY DEF SentInv
  <2>3. TypeOK'
    BY <2>1 DEF TypeOK
  <2>4. SentInv' /\ CautiousInv'
    BY <2>1, <2>2 DEF SentInv, CautiousInv, Attempts, TypeOK
  <2>5. RememberedInv' /\ ReplyInv' /\ OncePerProcess'
    BY DEF RememberedInv, ReplyInv, OncePerProcess, Home
  <2>6. AnswerInv'
    BY <2>1, <2>2 DEF AnswerInv, RowsFromExecution, Unsent, NoAnswer
  <2> QED
    BY <2>3, <2>4, <2>5, <2>6
<1>6. ASSUME NEW a \in Attempts, NEW kind \in Refusals, Refuse(a, kind)
      PROVE IInv'
  <2> USE <1>6 DEF Refuse, Reply, caller, server, runs
  <2>1. TypeOK'
    BY DEF TypeOK
  <2>2. /\ frame' = [frame EXCEPT ![a] = "replied"] /\ reply' = [reply EXCEPT ![a] = kind]
        /\ a \notin ran /\ kind \notin Results
    BY DEF SentInv, Refusals, Results
  <2>3. SentInv' /\ CautiousInv'
    BY <2>2 DEF SentInv, CautiousInv, TypeOK
  <2>4. RememberedInv' /\ OncePerProcess' /\ AnswerInv'
    BY <2>2 DEF RememberedInv, OncePerProcess, AnswerInv, RowsFromExecution, Home, TypeOK,
                SentInv, Unsent
  <2>5. ReplyInv'
    BY <2>2 DEF ReplyInv, TypeOK
  <2> QED
    BY <2>1, <2>3, <2>4, <2>5
<1>7. ASSUME NEW a \in Attempts, Execute(a)
      PROVE IInv'
  <2> USE <1>7 DEF Execute, caller
  <2>1. TypeOK'
    BY <1>h DEF TypeOK
  <2>2. /\ a \notin ran /\ Home(a) \in Processes /\ a # None /\ source[a] = None
        /\ \A b \in Attempts : Home(b)' = Home(b)
    BY <1>h DEF SentInv, Home
  <2>3. SentInv' /\ CautiousInv'
    BY <2>2 DEF SentInv, CautiousInv, TypeOK
  <2>4. /\ \A b \in ran : born'[b] = born[b] /\ b \in Attempts
        /\ born'[a] = epoch[Home(a)]
    BY <2>2, <1>r DEF TypeOK
  <2>5. \A b \in ran : Home(b) = Home(a) => born[b] # epoch[Home(a)]
    BY <1>r DEF RememberedInv
  <2>6. epoch[Home(a)] \in 0..MaxEpoch
    BY <2>2 DEF TypeOK
  <2>7. \A b \in ran' : /\ born'[b] <= epoch'[Home(b)']
                        /\ born'[b] = epoch'[Home(b)'] => table'[Home(b)'] = b
    <3> SUFFICES ASSUME NEW b \in ran'
                 PROVE  /\ born'[b] <= epoch'[Home(b)']
                        /\ born'[b] = epoch'[Home(b)'] => table'[Home(b)'] = b
      OBVIOUS
    <3>1. CASE b = a
      BY <3>1, <2>2, <2>4, <2>6 DEF TypeOK
    <3>2. CASE b \in ran
      BY <3>2, <2>2, <2>4, <2>5 DEF RememberedInv, TypeOK
    <3> QED
      BY <3>1, <3>2
  <2>8. \A p \in Processes : table'[p] # None => table'[p] \in ran'
    BY <2>2 DEF RememberedInv, TypeOK
  <2>9. RememberedInv'
    BY <2>7, <2>8 DEF RememberedInv
  <2>10. OncePerProcess'
    BY <2>2, <2>4, <2>5 DEF OncePerProcess
  <2>11. ReplyInv'
    BY <2>2 DEF ReplyInv, TypeOK
  <2>12. AnswerInv'
    BY <2>2 DEF AnswerInv, RowsFromExecution, Unsent, TypeOK
  <2> QED
    BY <2>1, <2>3, <2>9, <2>10, <2>11, <2>12
<1>8. ASSUME NEW a \in Attempts, Join(a)
      PROVE IInv'
  <2> USE <1>8 DEF Join, caller, server, runs
  <2>1. table[Home(a)] \in ran /\ Home(a) \in Processes
    BY <1>h DEF RememberedInv
  <2>2. TypeOK'
    BY <2>1 DEF TypeOK
  <2>3. a \notin ran /\ \A b \in Attempts : Home(b)' = Home(b)
    BY DEF SentInv, Home
  <2>4. SentInv' /\ CautiousInv'
    BY <2>1, <2>3 DEF SentInv, CautiousInv, TypeOK
  <2>5. RememberedInv' /\ OncePerProcess'
    BY <2>3, <1>r DEF RememberedInv, OncePerProcess
  <2>6. ReplyInv' /\ AnswerInv'
    BY DEF ReplyInv, AnswerInv, RowsFromExecution, Unsent, TypeOK
  <2> QED
    BY <2>2, <2>4, <2>5, <2>6
<1>9. ASSUME NEW a \in Attempts, NEW how \in Results, Finish(a, how)
      PROVE IInv'
  <2> USE <1>9 DEF Finish, caller, wire
  <2>1. TypeOK'
    BY <1>h DEF TypeOK, Results
  <2>2. a \in ran /\ \A b \in Attempts : Home(b)' = Home(b)
    BY DEF SentInv, Home
  <2>3. SentInv' /\ CautiousInv' /\ OncePerProcess'
    BY <2>2, <1>r DEF SentInv, CautiousInv, OncePerProcess
  <2>4. \A p \in Processes :
           \/ table'[p] = table[p] /\ epoch'[p] = epoch[p]
           \/ table'[p] = None /\ epoch'[p] = epoch[p] + 1
    BY <1>h DEF TypeOK
  <2>5. RememberedInv'
    <3>1. \A b \in ran : born[b] \in Nat /\ Home(b) \in Processes /\ epoch[Home(b)] \in Nat
      BY <1>h, <1>r DEF TypeOK
    <3> QED
      BY <2>2, <2>4, <3>1, <1>r DEF RememberedInv
  <2>6. \A b \in Attempts : result[b] # "none" => result'[b] = result[b]
    BY DEF TypeOK
  <2>7. ReplyInv' /\ AnswerInv'
    <3>1. \A b \in ran : b \in Attempts
      BY DEF TypeOK
    <3> QED
      BY <2>6, <3>1 DEF ReplyInv, AnswerInv, RowsFromExecution, Unsent, Results
  <2> QED
    BY <2>1, <2>3, <2>5, <2>7
<1>10. ASSUME NEW a \in Attempts, NEW kind, Reply(a, kind), frame[a] = "handled",
              \/ kind = "running"
              \/ kind \in Results /\ kind = result[source[a]],
              UNCHANGED <<caller, at, source, server, runs>>
       PROVE IInv'
  <2> USE <1>10 DEF Reply, caller, server, runs
  <2>1. TypeOK'
    BY DEF TypeOK, Refusals
  <2>2. source[a] \in ran /\ \A b \in Attempts : Home(b)' = Home(b)
    BY DEF SentInv, Home
  <2>3. SentInv' /\ CautiousInv'
    BY <2>2 DEF SentInv, CautiousInv, TypeOK
  <2>4. RememberedInv' /\ OncePerProcess'
    BY <2>2, <1>r DEF RememberedInv, OncePerProcess
  <2>5. ReplyInv'
    BY <2>2 DEF ReplyInv, TypeOK, Results
  <2>6. AnswerInv'
    BY DEF AnswerInv, RowsFromExecution, Unsent, TypeOK
  <2> QED
    BY <2>1, <2>3, <2>4, <2>5, <2>6
<1>11. ASSUME NEW p \in Processes, UNCHANGED <<caller, at, source, reply, runs>>,
              table' = [table EXCEPT ![p] = None], epoch[p] < MaxEpoch,
              epoch' = [epoch EXCEPT ![p] = @ + 1], up' \subseteq Processes,
              frame' \in [Attempts -> {"none", "out", "handled", "replied", "lost"}],
              \A a \in Attempts : \/ frame'[a] = frame[a]
                                  \/ frame[a] \in {"out", "handled"} /\ frame'[a] = "lost"
       PROVE IInv'
  <2> USE <1>11 DEF caller, runs
  <2>1. TypeOK'
    BY DEF TypeOK
  <2>2. \A b \in Attempts : Home(b)' = Home(b)
    BY DEF Home
  <2>3. attempt \in Attempts
    BY DEF TypeOK
  <2>4. SentInv' /\ CautiousInv'
    BY <2>3 DEF SentInv, CautiousInv
  <2>5. \A b \in ran : born[b] \in Nat /\ Home(b) \in Processes /\ epoch[Home(b)] \in Nat
    BY <1>h, <1>r DEF TypeOK
  <2>6. RememberedInv'
    BY <2>2, <2>5, <1>r DEF RememberedInv, TypeOK
  <2>7. OncePerProcess'
    BY <2>2, <1>r DEF OncePerProcess
  <2>8. ReplyInv' /\ AnswerInv'
    BY <2>3 DEF ReplyInv, AnswerInv, RowsFromExecution
  <2> QED
    BY <2>1, <2>4, <2>6, <2>7, <2>8
<1>12. ASSUME NEW p \in Processes, Restart(p)
       PROVE IInv'
  <2> USE <1>12 DEF Restart, caller, wire, runs
  <2>1. TypeOK'
    BY DEF TypeOK
  <2>2. SentInv' /\ RememberedInv' /\ ReplyInv' /\ CautiousInv'
    BY DEF SentInv, RememberedInv, ReplyInv, CautiousInv, Home
  <2>3. AnswerInv' /\ OncePerProcess'
    BY DEF AnswerInv, OncePerProcess, RowsFromExecution, Home
  <2> QED
    BY <2>1, <2>2, <2>3
<1>13. CASE UNCHANGED vars
  <2> USE <1>13 DEF vars, caller, wire, server, runs
  <2>1. TypeOK'
    BY DEF TypeOK
  <2>2. SentInv' /\ RememberedInv' /\ ReplyInv' /\ CautiousInv'
    BY DEF SentInv, RememberedInv, ReplyInv, CautiousInv, Home
  <2>3. AnswerInv' /\ OncePerProcess'
    BY DEF AnswerInv, OncePerProcess, RowsFromExecution, Home
  <2> QED
    BY <2>1, <2>2, <2>3
<1>14. ASSUME NEW a \in Attempts, Respond(a) \/ RespondRunning(a)
       PROVE IInv'
  <2>1. CASE RespondRunning(a)
    BY <2>1, <1>10 DEF RespondRunning
  <2>2. CASE Respond(a)
    <3>1. frame[a] = "handled" /\ source[a] \in Attempts /\ result[source[a]] \in Results
      BY <2>2 DEF Respond, SentInv, TypeOK
    <3> QED
      BY <2>2, <3>1, <1>10 DEF Respond
  <2> QED
    BY <2>1, <2>2, <1>14
<1>15. ASSUME NEW p \in Processes, Forget(p) \/ Crash(p)
       PROVE IInv'
  <2>1. CASE Forget(p)
    <3>1. up' \subseteq Processes /\ frame' = frame
      BY <2>1 DEF Forget, wire, TypeOK
    <3>2. frame \in [Attempts -> {"none", "out", "handled", "replied", "lost"}]
      BY DEF TypeOK
    <3> QED
      BY <2>1, <3>1, <3>2, <1>11 DEF Forget, wire
  <2>2. CASE Crash(p)
    <3>1. up' \subseteq Processes
      BY <2>2 DEF Crash, TypeOK
    <3>2. frame' \in [Attempts -> {"none", "out", "handled", "replied", "lost"}]
      <4>1. frame \in [Attempts -> {"none", "out", "handled", "replied", "lost"}]
        BY DEF TypeOK
      <4> QED
        BY <2>2, <4>1 DEF Crash
    <3>3. ASSUME NEW a \in Attempts
          PROVE  \/ frame'[a] = frame[a]
                 \/ frame[a] \in {"out", "handled"} /\ frame'[a] = "lost"
      <4>1. frame'[a] = IF frame[a] \in {"out", "handled"} /\ Home(a) = p
                          THEN "lost" ELSE frame[a]
        BY <2>2 DEF Crash
      <4> QED
        BY <4>1
    <3> QED
      BY <2>2, <3>1, <3>2, <3>3, <1>11 DEF Crash
  <2> QED
    BY <2>1, <2>2, <1>15
<1> QED
  BY <1>1, <1>2, <1>3, <1>4, <1>5, <1>6, <1>7, <1>8, <1>9, <1>12, <1>13, <1>14, <1>15
     DEF Next, Caller

-----------------------------------------------------------------------------
\* The invariant holds throughout.
LEMMA Invariance == Spec => []IInv
  BY InitInv, StepInv, PTL DEF Spec

\* Every variable keeps its type.
THEOREM TypeCorrect == Spec => []TypeOK
<1>1. IInv => TypeOK
  BY DEF IInv
<1> QED
  BY Invariance, <1>1, PTL

\* A process executes a batch once, unless it crashed or lost the answer in between,
\* whatever retries reach it (handle_batch under the dedup cache).
THEOREM ExecutedOnce == Spec => []OncePerProcess
<1>1. IInv => OncePerProcess
  BY DEF IInv
<1> QED
  BY Invariance, <1>1, PTL

\* No more than one execution anywhere, unless retry_ambiguous allows it (call_batch).
THEOREM ExecutedAtMostOnce == Spec => []AtMostOnce
<1>1. IInv => AtMostOnce
  BY DEF IInv, CautiousInv, SentInv, AtMostOnce, TypeOK
<1> QED
  BY Invariance, <1>1, PTL

\* Rows come from the execution that produced them, replayed or not (call_batch, _await).
THEOREM RowsHonest == Spec => []RowsFromExecution
<1>1. IInv => RowsFromExecution
  BY DEF IInv, AnswerInv
<1> QED
  BY Invariance, <1>1, PTL

\* Without retry_ambiguous an error that is safe to retry hides no execution: nothing ran,
\* or the execution whose BERR it is and no other (call_batch, errors.py).
THEOREM SafeHidesNoRun == Spec => []CautiousSafeHidesNoRun
<1>1. ASSUME IInv
      PROVE  CautiousSafeHidesNoRun
  <2>1. SUFFICES ASSUME ~policy.retry_ambiguous, SafeToRetry, NEW a \in ran
                 PROVE  a = answer.of /\ result[a] = "blameless"
    BY DEF CautiousSafeHidesNoRun
  <2>2. a \in Attempts /\ frame[a] # "none"
    BY <1>1 DEF IInv, SentInv, TypeOK
  <2>3. \A b \in Attempts : frame[b] # "none" => b = attempt
    BY <1>1, <2>1 DEF IInv, CautiousInv
  <2>4. a = attempt
    BY <2>2, <2>3
  <2>5. answer.kind = "blameless"
    BY <1>1, <2>1, <2>2, <2>4 DEF IInv, AnswerInv, ReplyInv, SafeToRetry, Unsent
  <2>6. /\ reply[attempt] = "blameless" /\ frame[attempt] = "replied"
        /\ answer.of = source[attempt]
    BY <1>1, <2>5 DEF IInv, AnswerInv
  <2>7. source[attempt] \in ran /\ result[source[attempt]] = "blameless"
    BY <1>1, <2>2, <2>4, <2>6 DEF IInv, ReplyInv, Results
  <2>8. source[attempt] \in Attempts /\ frame[source[attempt]] # "none"
    BY <1>1, <2>7 DEF IInv, SentInv, TypeOK
  <2>9. source[attempt] = a
    BY <2>3, <2>4, <2>8
  <2> QED
    BY <2>6, <2>7, <2>9
<1> QED
  BY Invariance, <1>1, PTL
=============================================================================

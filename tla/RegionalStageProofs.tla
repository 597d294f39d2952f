------------------------- MODULE RegionalStageProofs -------------------------
(***************************************************************************)
(* What holds of a batch of a region for any number of heads and experts.  *)
(***************************************************************************)
EXTENDS RegionalStage, WellFoundedInduction, TLAPS

\* The head will not run its part of the batch any more.
Sealed(h) == frame[h] = "answered" \/ (frame[h] = "none" /\ call[h] = "done")

\* What the handler has done so far, and what it has waited for.
StageInv ==
    /\ handler \in {"none", "admitted"} => at = 1
    /\ handler \in {"none", "admitted", "submit"} =>
          at \in Groups /\ \A h \in Groups : h >= at => call[h] = "none"
    /\ handler # "replied" => reply = Just("none")
    /\ handler = "await" /\ ~late => \A h \in Groups : h < at => call[h] = "done"

\* How far a frame got, and what can have run.
CallInv ==
    \A h \in Groups :
        /\ call[h] \in {"none", "queued"} => frame[h] = "none"
        /\ frame[h] # "answered" => At(h) \cap ran = {}

\* What an answer or the end of a call says of the head is true of it.
TrueOf(h, end) ==
    /\ end.kind = "rows" => At(h) \subseteq ran
    /\ end.kind \in {"unreachable", "closed"} => Sealed(h) /\ At(h) \cap ran = {}
    /\ end.kind = "shut" => shut \/ (Sealed(h) /\ At(h) \cap ran = {})
    /\ \A f \in end.failures :
          /\ f.head = h /\ f.position \in At(h)
          /\ f.reason = "unreachable" => Sealed(h) /\ f.position \notin ran

TrueInv == \A h \in Groups : TrueOf(h, said[h]) /\ TrueOf(h, outcome[h])

\* What the region says is true of the heads it names.
ReplyInv ==
    \A f \in reply.failures :
        /\ f.head = HeadOf[f.position]
        /\ \/ f.reason = "unreachable"
           \/ f.reason = "closed" /\ ~shut /\ outcome[f.head].failures = {}
        => f.position \notin ran /\ Sealed(f.head)

IInv ==
    /\ TypeOK
    /\ StageInv
    /\ CallInv
    /\ TrueInv
    /\ RowsComplete
    /\ AwaitedInTime
    /\ ReplyInv

-----------------------------------------------------------------------------
\* The outcomes that carry no failures are outcomes, and some of them are answers.
LEMMA JustTypes ==
    /\ \A k \in {"none", "rows", "closed", "unnamed"} : Just(k) \in Answer
    /\ \A k \in LinkErrors \cup {"late"} : Just(k) \in Outcome
    /\ Answer \subseteq Outcome
    /\ \A k : Just(k).kind = k /\ Just(k).failures = {}
  BY DEF Just, Answer, Outcome

\* What a head may answer is an answer, and none that the region itself would give.
LEMMA AnswersTypes ==
    ASSUME NEW h \in Groups, NEW R \in SUBSET At(h), NEW answer \in Answers(h, R)
    PROVE  /\ answer \in Answer
           /\ answer.kind \in {"unnamed", "failed", "closed", "rows"}
           /\ answer.kind = "closed" => R = {}
           /\ answer.kind = "rows" => R = At(h)
           /\ \A f \in answer.failures :
                 /\ f.head = h /\ f.position \in At(h)
                 /\ f.reason = "unreachable" => f.position \notin R
<1>1. CASE answer = Just("unnamed") \/ (answer = Just("closed") /\ R = {})
            \/ (answer = Just("rows") /\ R = At(h))
  BY <1>1, JustTypes
<1>2. ASSUME NEW F \in Named(h, R), answer = [kind |-> "failed", failures |-> F]
      PROVE  /\ answer \in Answer /\ answer.kind = "failed"
             /\ \A f \in answer.failures :
                 /\ f.head = h /\ f.position \in At(h)
                 /\ f.reason = "unreachable" => f.position \notin R
  <2>1. \A f \in F : f \in Failure /\ f.head = h /\ f.position \in At(h)
                     /\ (f.reason = "unreachable" => f.position \notin R)
    BY DEF Named, Failure, At, Reasons
  <2>2. F \in SUBSET Failure
    BY <2>1
  <2> QED BY <1>2, <2>1, <2>2 DEF Answer
<1>3. QED
  BY <1>1, <1>2 DEF Answers

\* The failures a region reports are failures.
LEMMA ReportedType ==
    ASSUME NEW h \in Groups, NEW end \in Outcome
    PROVE  Reported(h, end) \in SUBSET Failure
<1>1. end.failures \in SUBSET Failure
  BY DEF Outcome, Answer
<1>2. Reason(end.kind) \in Reasons
  BY DEF Reason, Reasons
<1>3. \A p \in Positions : [position |-> p, head |-> h, reason |-> Reason(end.kind)] \in Failure
  BY <1>2 DEF Failure
<1>4. QED
  BY <1>1, <1>3 DEF Reported

\* A group that failed, if there is one, is the first of some.
LEMMA FirstFailedType ==
    ASSUME Failed # {}
    PROVE  FirstFailed \in Failed
<1> DEFINE R == {s \in Nat \X Nat : s[1] < s[2]}
<1>1. Failed \subseteq Nat
  BY SizeAssumption DEF Failed, Groups
<1>2. IsWellFoundedOn(R, Nat)
  BY NatLessThanWellFounded DEF OpToRel
<1>3. PICK h \in Failed : \A g \in Failed : ~(<<g, h>> \in R)
  <2> HIDE DEF R
  <2> QED BY <1>1, <1>2, WFMin
<1>4. ASSUME NEW g \in Failed
      PROVE  h <= g
  <2>1. g \in Nat /\ h \in Nat
    BY <1>1
  <2>2. <<g, h>> \in R <=> g < h
    BY <2>1
  <2>3. ~(g < h)
    BY <2>2, <1>3
  <2> QED BY <2>1, <2>3
<1>5. QED
  BY <1>4 DEF FirstFailed
-----------------------------------------------------------------------------
\* The invariant holds before the batch arrives.
LEMMA InitInv == Init => IInv
<1> SUFFICES ASSUME Init PROVE IInv
  OBVIOUS
<1>1. Just("none").kind = "none" /\ Just("none").failures = {}
  BY JustTypes
<1>2. TypeOK
  <2>1. at \in 1..(Heads + 1)
    BY SizeAssumption DEF Init
  <2>2. Just("none") \in Answer /\ Just("none") \in Outcome
    BY JustTypes
  <2>3. {closed, drained, shut, late} \subseteq BOOLEAN
    BY DEF Init
  <2>4. said \in [Groups -> Answer] /\ outcome \in [Groups -> Outcome] /\ reply \in Answer
    BY <2>2 DEF Init
  <2> QED BY <2>1, <2>3, <2>4 DEF Init, TypeOK
<1>3. StageInv /\ CallInv
  BY SizeAssumption DEF Init, StageInv, CallInv, Groups
<1>4. TrueInv
  BY <1>1 DEF Init, TrueInv, TrueOf
<1>5. RowsComplete /\ AwaitedInTime /\ ReplyInv
  BY <1>1 DEF Init, RowsComplete, AwaitedInTime, ReplyInv
<1>6. QED
  BY <1>2, <1>3, <1>4, <1>5 DEF IInv

\* A step of the handler before it awaits, and the refusal that ends one.
LEMMA SubmitSteps ==
    ASSUME IInv, Arrive \/ TakeExecutor \/ Submit \/ SubmitRefused
    PROVE  IInv'
<1> USE SizeAssumption
<1> USE JustTypes
<1>1. CASE Arrive
  <2>1. TypeOK'
    BY <1>1 DEF IInv, TypeOK, Arrive, Send, Teardown, Staging, Calling
  <2>2. QED
    BY <1>1, <2>1 DEF IInv, Arrive, Send, Teardown, Staging, Calling, StageInv, CallInv, TrueInv,
                TrueOf, Sealed, RowsComplete, AwaitedInTime, ReplyInv
<1>2. CASE TakeExecutor
  <2>1. TypeOK'
    BY <1>2 DEF IInv, TypeOK, TakeExecutor, Teardown, Calling
  <2>2. QED
    BY <1>2, <2>1 DEF IInv, TakeExecutor, Teardown, Calling, StageInv, CallInv, TrueInv,
                TrueOf, Sealed, RowsComplete, AwaitedInTime, ReplyInv
<1>3. CASE Submit
  <2>1. TypeOK'
    <3>1. at \in Groups /\ at' \in 1..(Heads + 1)
      BY <1>3 DEF IInv, TypeOK, StageInv, Submit, Groups
    <3>2. call' \in [Groups -> {"none", "queued", "wait", "done"}]
      BY <1>3, <3>1 DEF IInv, TypeOK, Submit
    <3> QED BY <1>3, <3>1, <3>2 DEF IInv, TypeOK, Submit, Teardown
  <2>2. QED
    BY <1>3, <2>1 DEF IInv, TypeOK, Submit, Teardown, StageInv, CallInv, TrueInv,
                TrueOf, Sealed, RowsComplete, AwaitedInTime, ReplyInv, Groups
<1>4. CASE SubmitRefused
  <2>1. TypeOK'
    BY <1>4 DEF IInv, TypeOK, SubmitRefused, Send, Teardown, Staging, Calling
  <2>2. QED
    BY <1>4, <2>1 DEF IInv, SubmitRefused, Send, Teardown, Staging, Calling, StageInv, CallInv,
                TrueInv, TrueOf, Sealed, RowsComplete, AwaitedInTime, ReplyInv
<1>5. QED
  BY <1>1, <1>2, <1>3, <1>4
\* A call that ends with what the head said, or with an error that is true of the head.
LEMMA EndCallStep ==
    ASSUME IInv, NEW h \in Groups, NEW end \in Outcome, EndCall(h, end),
           call[h] \in {"queued", "wait"}, call'[h] = "done" => TrueOf(h, end)',
           UNCHANGED <<Teardown, Staging, handler, frame, ran, reply>>
    PROVE  IInv'
<1> USE JustTypes
<1>1. TypeOK'
  BY DEF IInv, TypeOK, EndCall, Teardown, Staging
<1>2. call'[h] = "done" /\ \A g \in Groups \ {h} : call'[g] = call[g]
  BY DEF IInv, TypeOK, EndCall
<1>3. \A g \in Groups : /\ said'[g] \in {said[g], Just("none")}
                        /\ outcome'[g] = outcome[g] \/ (g = h /\ outcome'[g] = end)
  BY DEF IInv, TypeOK, EndCall
<1>4. handler = "replied" => outcome' = outcome
  BY DEF EndCall
<1>5. StageInv' /\ CallInv'
  BY <1>2 DEF IInv, StageInv, CallInv, Staging
<1>6. \A g \in Groups : Sealed(g) => Sealed(g)'
  BY <1>2 DEF Sealed
<1>7. TrueInv'
  <2>1. ASSUME NEW g \in Groups, NEW e, TrueOf(g, e)
        PROVE  TrueOf(g, e)'
    BY <2>1, <1>6 DEF TrueOf, Teardown
  <2>2. \A g \in Groups : TrueOf(g, Just("none"))'
    BY DEF TrueOf
  <2> QED BY <1>2, <1>3, <2>1, <2>2 DEF IInv, TrueInv
<1>8. RowsComplete' /\ AwaitedInTime'
  BY <1>2, <1>4 DEF IInv, StageInv, RowsComplete, AwaitedInTime, Staging
<1>9. ReplyInv'
  <2>1. \A f \in reply.failures : f.head \in Groups
    BY DEF IInv, TypeOK, Answer, Failure
  <2>2. reply.failures # {} => outcome' = outcome
    BY <1>4 DEF IInv, StageInv
  <2> QED BY <2>1, <2>2, <1>6 DEF IInv, ReplyInv, Teardown
<1>10. QED
  BY <1>1, <1>5, <1>7, <1>8, <1>9 DEF IInv

\* A call is sent, or ends in one of its ways.
LEMMA CallSteps ==
    ASSUME IInv, NEW h \in Groups, Call(h)
    PROVE  IInv'
<1> USE JustTypes
<1>1. ASSUME NEW kind \in LinkErrors, NotSent(h, kind)
      PROVE  IInv'
  <2>1. call'[h] = "done" => TrueOf(h, Just(kind))'
    BY <1>1 DEF IInv, TypeOK, CallInv, NotSent, TrueOf, Sealed, LinkErrors, Teardown
  <2> QED BY <1>1, <2>1, EndCallStep DEF NotSent
<1>2. ASSUME NEW kind \in LinkErrors, NoReply(h, kind)
      PROVE  IInv'
  <2>1. TrueOf(h, Just(kind))'
    BY <1>2 DEF NoReply, TrueOf, Teardown
  <2> QED BY <1>2, <2>1, EndCallStep DEF NoReply
<1>3. CASE Replied(h)
  <2>1. PICK end \in Outcome : end = said[h]
    BY DEF IInv, TypeOK
  <2>2. call'[h] = "done" => TrueOf(h, end)'
    BY <1>3, <2>1 DEF IInv, TrueInv, TrueOf, Sealed, Replied, Teardown
  <2>3. EndCall(h, end)
    BY <1>3, <2>1 DEF Replied
  <2> QED BY <1>3, <2>2, <2>3, EndCallStep DEF Replied
<1>4. CASE Sent(h)
  <2>1. TypeOK'
    BY <1>4 DEF IInv, TypeOK, Sent, Teardown, Staging
  <2> QED BY <1>4, <2>1 DEF IInv, TypeOK, Sent, Teardown, Staging, StageInv, CallInv, TrueInv,
                 TrueOf, Sealed, RowsComplete, AwaitedInTime, ReplyInv, Answer, Failure
<1>5. QED
  BY <1>1, <1>2, <1>3, <1>4 DEF Call
\* The head runs the experts R and answers; nobody else runs its experts.
LEMMA HeadStep ==
    ASSUME IInv, NEW h \in Groups, HeadAnswers(h)
    PROVE  IInv'
<1> USE JustTypes
<1>0. PICK R \in SUBSET At(h) :
         /\ ran' = ran \cup R
         /\ \E answer \in Answers(h, R) :
               said' = IF call[h] = "wait" THEN [said EXCEPT ![h] = answer] ELSE said
  BY DEF HeadAnswers
<1>1. PICK answer \in Answers(h, R) :
         /\ ran' = ran \cup R
         /\ said' = IF call[h] = "wait" THEN [said EXCEPT ![h] = answer] ELSE said
  BY <1>0
<1>2. /\ answer \in Answer
      /\ answer.kind \in {"unnamed", "failed", "closed", "rows"}
      /\ answer.kind = "closed" => R = {}
      /\ answer.kind = "rows" => R = At(h)
      /\ \A f \in answer.failures :
            /\ f.head = h /\ f.position \in At(h)
            /\ f.reason = "unreachable" => f.position \notin R
  BY AnswersTypes
<1>3. TypeOK'
  BY <1>1, <1>2 DEF IInv, TypeOK, HeadAnswers, Teardown, Staging, At
<1>4. /\ frame[h] = "out" /\ frame'[h] = "answered"
      /\ \A g \in Groups \ {h} : frame'[g] = frame[g]
      /\ UNCHANGED <<call, outcome, reply, handler, at, late, shut>>
  BY DEF IInv, TypeOK, HeadAnswers, Teardown, Staging
<1>5. At(h) \cap ran = {} /\ call[h] \notin {"none", "queued"}
  BY <1>4 DEF IInv, CallInv
<1>6. \A g \in Groups \ {h} : At(g) \cap At(h) = {} /\ At(g) \cap ran' = At(g) \cap ran
  BY <1>1 DEF At
<1>7. \A g \in Groups : Sealed(g) => Sealed(g)' /\ g # h
  BY <1>4 DEF Sealed
<1>8. StageInv' /\ CallInv'
  BY <1>4, <1>5, <1>6 DEF IInv, StageInv, CallInv
<1>9. TrueInv'
  <2>1. ASSUME NEW g \in Groups, NEW e, TrueOf(g, e)
        PROVE  TrueOf(g, e)'
    <3>1. e.kind = "rows" => At(g) \subseteq ran'
      BY <1>1, <2>1 DEF TrueOf
    <3>2. e.kind \in {"unreachable", "closed"} \/ (e.kind = "shut" /\ ~shut)
          => Sealed(g)' /\ At(g) \cap ran' = {}
      BY <1>6, <1>7, <2>1 DEF TrueOf
    <3>3. \A f \in e.failures : f.reason = "unreachable" => Sealed(g)' /\ f.position \notin ran'
      BY <1>6, <1>7, <2>1 DEF TrueOf
    <3> QED BY <1>4, <2>1, <3>1, <3>2, <3>3 DEF TrueOf
  <2>2. TrueOf(h, answer)'
    BY <1>1, <1>2, <1>4, <1>5 DEF TrueOf, Sealed
  <2>3. \A g \in Groups : said'[g] = said[g] \/ (g = h /\ said'[g] = answer)
    BY <1>1 DEF IInv, TypeOK
  <2> QED BY <1>4, <2>1, <2>2, <2>3 DEF IInv, TrueInv
<1>10. RowsComplete' /\ AwaitedInTime'
  BY <1>1, <1>3, <1>4 DEF IInv, RowsComplete, AwaitedInTime, TypeOK
<1>11. ReplyInv'
  <2>1. ASSUME NEW f \in reply.failures, Sealed(f.head), f.position \notin ran,
               f.head = HeadOf[f.position]
        PROVE  Sealed(f.head)' /\ f.position \notin ran'
    <3>1. f.head \in Groups /\ f.position \in At(f.head)
      BY <2>1 DEF IInv, TypeOK, Answer, Failure, At
    <3> QED BY <1>6, <1>7, <2>1, <3>1
  <2> QED BY <1>4, <2>1 DEF IInv, ReplyInv
<1>12. QED
  BY <1>3, <1>8, <1>9, <1>10, <1>11 DEF IInv

\* The stage awaits the groups one after the other, against its deadline.
LEMMA AwaitSteps ==
    ASSUME IInv, DeadlinePasses \/ Await
    PROVE  IInv'
<1> USE JustTypes
<1>1. CASE DeadlinePasses
  <2>1. TypeOK'
    BY <1>1 DEF IInv, TypeOK, DeadlinePasses, Teardown, Calling
  <2> QED BY <1>1, <2>1 DEF IInv, DeadlinePasses, Teardown, Calling, StageInv, CallInv, TrueInv,
                 TrueOf, Sealed, RowsComplete, AwaitedInTime, ReplyInv
<1>2. CASE Await
  <2>1. at \in Groups /\ at' \in 1..(Heads + 1)
    BY <1>2, SizeAssumption DEF IInv, TypeOK, Await, Groups
  <2>2. outcome' \in [Groups -> Outcome]
    BY <1>2, <2>1 DEF IInv, TypeOK, Await
  <2>3. TypeOK'
    BY <1>2, <2>1, <2>2 DEF IInv, TypeOK, Await, Teardown
  <2>4. \A g \in Groups : outcome'[g] \in {outcome[g], Just("late")}
    BY <1>2, <2>1 DEF IInv, TypeOK, Await
  <2>5. TrueInv'
    <3>1. ASSUME NEW g \in Groups, NEW e
          PROVE  TrueOf(g, e)' <=> TrueOf(g, e)
      BY <1>2 DEF Await, Teardown, TrueOf, Sealed
    <3>2. \A g \in Groups : TrueOf(g, Just("late"))
      BY DEF TrueOf
    <3> QED BY <1>2, <2>4, <3>1, <3>2 DEF IInv, TrueInv, Await
  <2>6. StageInv' /\ CallInv'
    BY <1>2, <2>1 DEF IInv, StageInv, CallInv, Await, Teardown, Groups
  <2>7. RowsComplete' /\ AwaitedInTime' /\ ReplyInv'
    BY <1>2 DEF IInv, StageInv, Await, Teardown, RowsComplete, AwaitedInTime, ReplyInv
  <2> QED BY <2>3, <2>5, <2>6, <2>7 DEF IInv
<1>3. QED
  BY <1>1, <1>2
\* What a region makes of the end of a call is true if the end is.
LEMMA ReportedTrue ==
    ASSUME NEW h \in Groups, NEW end \in Outcome, TrueOf(h, end), NEW f \in Reported(h, end),
           f.head = HeadOf[f.position],
           f.reason = "unreachable" \/ (f.reason = "closed" /\ ~shut /\ end.failures = {})
    PROVE  f.position \notin ran /\ Sealed(f.head)
<1>1. CASE end.failures # {}
  BY <1>1 DEF Reported, TrueOf
<1>2. CASE end.failures = {}
  <2>1. PICK p \in Positions : f = [position |-> p, head |-> h, reason |-> Reason(end.kind)]
    BY <1>2 DEF Reported
  <2>2. p \in At(h) /\ f.head = h /\ f.position = p
    BY <2>1 DEF At
  <2>3. end.kind = "unreachable" \/ (end.kind \in {"closed", "shut"} /\ ~shut)
    BY <2>1 DEF Reason
  <2> QED BY <2>2, <2>3 DEF TrueOf
<1>3. QED
  BY <1>1, <1>2

\* The answer of the region: all rows, nobody named, or what the first failure says.
LEMMA RespondStep ==
    ASSUME IInv, Respond
    PROVE  IInv'
<1> USE JustTypes
<1>1. /\ handler = "await" /\ handler' = "replied" /\ at = Heads + 1
      /\ UNCHANGED <<Teardown, Staging, Calling>>
  BY DEF Respond, Send
<1>2. \A h \in Groups : ~late => call[h] = "done"
  BY <1>1, SizeAssumption DEF IInv, StageInv, Groups
<1>3. CASE Failed = {}
  <2>1. reply' = Just("rows")
    BY <1>3 DEF Respond, Send
  <2>2. TypeOK'
    BY <1>1, <2>1 DEF IInv, TypeOK, Teardown, Staging, Calling
  <2>3. ran = Positions /\ \A h \in Groups : outcome[h].kind = "rows"
    <3>1. \A h \in Groups : outcome[h].kind = "rows"
      BY <1>3 DEF Failed
    <3>2. \A p \in Positions : HeadOf[p] \in Groups /\ p \in At(HeadOf[p])
      BY HeadAssumption DEF At
    <3>3. \A h \in Groups : At(h) \subseteq ran
      BY <3>1 DEF IInv, TrueInv, TrueOf
    <3>4. Positions \subseteq ran
      BY <3>2, <3>3
    <3> QED BY <3>1, <3>4 DEF IInv, TypeOK
  <2> QED BY <1>1, <1>2, <2>1, <2>2, <2>3 DEF IInv, Teardown, Staging, Calling, StageInv, CallInv,
                 TrueInv, TrueOf, Sealed, RowsComplete, AwaitedInTime, ReplyInv
<1>4. CASE Failed # {} /\ outcome[FirstFailed].kind = "late"
  <2>1. reply' = Just("unnamed")
    BY <1>4 DEF Respond, Send
  <2>2. TypeOK'
    BY <1>1, <2>1 DEF IInv, TypeOK, Teardown, Staging, Calling
  <2> QED BY <1>1, <2>1, <2>2 DEF IInv, Teardown, Staging, Calling, StageInv, CallInv,
                 TrueInv, TrueOf, Sealed, RowsComplete, AwaitedInTime, ReplyInv
<1>5. CASE Failed # {} /\ outcome[FirstFailed].kind # "late"
  <2>1. PICK h \in Groups : h = FirstFailed
    BY <1>5, FirstFailedType DEF Failed
  <2>2. PICK end \in Outcome : end = outcome[h]
    BY DEF IInv, TypeOK
  <2>3. reply' = [kind |-> "failed", failures |-> Reported(h, end)]
    BY <1>5, <2>1, <2>2 DEF Respond, Send
  <2>4. TypeOK'
    <3>1. reply' \in Answer
      BY <2>3, ReportedType DEF Answer
    <3> QED BY <1>1, <3>1 DEF IInv, TypeOK, Teardown, Staging, Calling
  <2>5. ReplyInv'
    <3>1. TrueOf(h, end)
      BY <2>2 DEF IInv, TrueInv
    <3>2. \A f \in Reported(h, end) :
            /\ f.head = HeadOf[f.position]
            /\ f.reason = "unreachable" \/ (f.reason = "closed" /\ ~shut /\ end.failures = {})
            => f.position \notin ran /\ Sealed(f.head)
      BY <3>1, ReportedTrue
    <3>3. \A f \in Reported(h, end) : f.head = h
      BY <3>1 DEF Reported, TrueOf
    <3> QED BY <1>1, <2>2, <2>3, <3>2, <3>3 DEF ReplyInv, Sealed, Teardown, Calling
  <2> QED BY <1>1, <1>2, <2>3, <2>4, <2>5 DEF IInv, Teardown, Staging, Calling, StageInv, CallInv,
                 TrueInv, TrueOf, Sealed, RowsComplete, AwaitedInTime
<1>6. QED
  BY <1>3, <1>4, <1>5

\* close() changes what the region says of itself, never what it says of a head.
LEMMA CloseSteps ==
    ASSUME IInv, Close
    PROVE  IInv'
<1>1. /\ UNCHANGED <<Staging, Calling, handler, reply>>
      /\ shut => shut'
  BY DEF Close, MarkClosed, ShutExecutor, Drain, CloseTransport
<1>2. TypeOK'
  BY <1>1 DEF IInv, TypeOK, Close, MarkClosed, ShutExecutor, Drain, CloseTransport, Staging, Calling
<1>3. QED
  BY <1>1, <1>2
  DEF IInv, Staging, Calling, StageInv, CallInv, TrueInv, TrueOf, Sealed, RowsComplete,
              AwaitedInTime, ReplyInv

\* Every step keeps the invariant.
LEMMA StepInv == IInv /\ [Next]_vars => IInv'
<1> SUFFICES ASSUME IInv, [Next]_vars PROVE IInv'
  OBVIOUS
<1>1. CASE Arrive \/ Serve \/ DeadlinePasses
  BY <1>1, SubmitSteps, AwaitSteps, RespondStep DEF Serve
<1>2. ASSUME NEW h \in Groups, Call(h) \/ HeadAnswers(h)
      PROVE  IInv'
  BY <1>2, CallSteps, HeadStep
<1>3. CASE Close
  BY <1>3, CloseSteps
<1>4. CASE UNCHANGED vars
  BY <1>4 DEF vars, IInv, TypeOK, StageInv, CallInv, TrueInv, TrueOf, Sealed, RowsComplete,
              AwaitedInTime, ReplyInv
<1>5. QED
  BY <1>1, <1>2, <1>3, <1>4 DEF Next

\* The invariant holds in every reachable state.
LEMMA Invariance == Spec => []IInv
<1>1. QED
  BY InitInv, StepInv, PTL DEF Spec

-----------------------------------------------------------------------------
\* Every variable of the stage keeps its type, for any number of heads and experts.
THEOREM TypeCorrect == Spec => []TypeOK
<1>1. IInv => TypeOK
  BY DEF IInv
<1>2. QED
  BY <1>1, Invariance, PTL

\* A region never answers with a short sum: rows mean that every expert of the batch ran
\* and that every head's rows came back.
THEOREM RowsAreComplete == Spec => []RowsComplete
<1>1. IInv => RowsComplete
  BY DEF IInv
<1>2. QED
  BY <1>1, Invariance, PTL

\* A stage that returned before its deadline left no call_batch running.
THEOREM SiblingsAwaited == Spec => []AwaitedInTime
<1>1. IInv => AwaitedInTime
  BY DEF IInv
<1>2. QED
  BY <1>1, Invariance, PTL

\* A safe reason in a region's BERR is true of an expert under the head that fronts it,
\* ERR_SHUTTING_DOWN as far as no head named it and the region's transport is open.
THEOREM SafeReasonsTrue == Spec => []OwnSafeReasonTrue
<1>1. IInv => OwnSafeReasonTrue
  BY DEF IInv, ReplyInv, Sealed, OwnSafeReasonTrue
<1>2. QED
  BY <1>1, Invariance, PTL
=============================================================================

-------------------------- MODULE ExpertStageProofs --------------------------
(***************************************************************************)
(* What holds of a batch of a subcluster for any number of experts,        *)
(* consoles and attempts.                                                  *)
(***************************************************************************)
EXTENDS ExpertStage, FiniteSetTheorems, TLAPS

\* What the serving thread has submitted, and what it has gathered.
StageInv ==
    /\ serving \in {"idle", "admitted", "submit"} =>
          at \in Positions /\ \A p \in Positions : p >= at => call[p] = "none"
    /\ serving = "gather" => \A p \in Positions : p < at => gathered[p] # "none"
    /\ serving # "answered" => reply = NoAnswer

\* How many attempts a call has made at each of its steps.
TrailInv ==
    \A p \in Positions :
        /\ call[p] \in {"none", "queued"} => trail[p] = <<>>
        /\ call[p] = "choose" => Len(trail[p]) < Attempts
        /\ call[p] \in {"connect", "wait"} => Len(trail[p]) >= 1

\* Attempts that a cautious call has behind it have not computed and will not, and one it
\* has yet to make has not been sent.
Harmless(p, t) == frame[<<p, t>>] \in {"none", "erred"}

PastInv ==
    \A p \in Positions, t \in Tries :
        /\ t > Len(trail[p]) => frame[<<p, t>>] = "none"
        /\ Cautious /\ t # Len(trail[p]) => Harmless(p, t)
        /\ Cautious /\ call[p] \notin {"wait", "done"} => Harmless(p, t)
        /\ call[p] = "connect" /\ t = Len(trail[p]) => frame[<<p, t>>] = "none"

\* What a call says of its last attempt is true of it.
OutcomeInv ==
    \A p \in Positions :
        /\ call[p] = "done" <=> outcome[p] # "none"
        /\ outcome[p] = "ok" => Len(trail[p]) >= 1 /\ frame[Current(p)] = "ran"
        /\ gathered[p] = "ok" => outcome[p] = "ok"

IInv ==
    /\ TypeOK
    /\ StageInv
    /\ TrailInv
    /\ PastInv
    /\ OutcomeInv
    /\ RowsComplete

-----------------------------------------------------------------------------
\* The candidate of any attempt is a console.
LEMMA CandidateType ==
    ASSUME NEW p \in Positions, NEW n \in Nat \ {0}
    PROVE  CandidatesOf[p][IF n <= Len(CandidatesOf[p]) THEN n ELSE Len(CandidatesOf[p])] \in Nodes
<1>1. CandidatesOf[p] \in Seq(Nodes) /\ CandidatesOf[p] # <<>>
  BY CandidateAssumption
<1>2. Len(CandidatesOf[p]) \in Nat \ {0}
  BY <1>1
<1>3. (IF n <= Len(CandidatesOf[p]) THEN n ELSE Len(CandidatesOf[p])) \in 1..Len(CandidatesOf[p])
  BY <1>2
<1>4. QED
  BY <1>1, <1>3

\* A request that is under way belongs to one of the attempts.
LEMMA CurrentType ==
    ASSUME TypeOK, TrailInv, NEW p \in Positions, call[p] \in {"connect", "wait"}
    PROVE  Current(p) \in Positions \X Tries /\ Len(trail[p]) \in Tries
  BY AttemptsAssumption DEF TypeOK, TrailInv, Current, Tries

-----------------------------------------------------------------------------
\* The invariant holds before the batch arrives.
LEMMA InitInv == Init => IInv
<1> SUFFICES ASSUME Init PROVE IInv
  OBVIOUS
<1>1. 1 \in Positions /\ 1 \in 1..(Width + 1)
  BY WidthAssumption DEF Positions
<1>2. TypeOK
  <2>1. trail \in [Positions -> Seq(Nodes)] /\ \A p \in Positions : Len(trail[p]) <= Attempts
    BY AttemptsAssumption DEF Init
  <2>2. reply \in [kind : {"none", "rows", "closed", "unknown", "failed"},
                   failures : SUBSET Failure]
    BY DEF Init, NoAnswer
  <2>3. /\ closed \in BOOLEAN /\ pool \in {"open", "down"} /\ drained \in BOOLEAN
        /\ shut \in BOOLEAN /\ late \in BOOLEAN
    BY DEF Init
  <2>4. /\ serving \in {"idle", "admitted", "submit", "gather", "answered"}
        /\ at \in 1..(Width + 1) /\ mine \in {"none", "first", "second"}
    BY <1>1 DEF Init
  <2>5. /\ call \in [Positions -> {"none", "queued", "choose", "connect", "wait", "done"}]
        /\ frame \in [Positions \X Tries -> {"none", "sent", "ran", "erred"}]
        /\ outcome \in [Positions -> Outcomes] /\ gathered \in [Positions -> Outcomes]
    BY DEF Init, Outcomes
  <2> QED BY <2>1, <2>2, <2>3, <2>4, <2>5 DEF TypeOK
<1>3. StageInv /\ TrailInv /\ OutcomeInv
  BY <1>1, AttemptsAssumption DEF Init, StageInv, TrailInv, OutcomeInv, Positions
<1>4. PastInv
  BY DEF Init, PastInv, Harmless
<1>5. RowsComplete
  BY DEF Init, RowsComplete, NoAnswer
<1>6. QED
  BY <1>2, <1>3, <1>4, <1>5 DEF IInv

\* The end of an attempt keeps the invariant: what may be retried computed nothing.
LEMMA TryEndsInv ==
    ASSUME IInv, NEW p \in Positions, NEW exc \in Failures, TryEnds(p, exc),
           call[p] \in {"connect", "wait"},
           UNCHANGED <<Teardown, Thread, trail, frame>>,
           Cautious /\ ShouldRetry(exc) => \A t \in Tries : Harmless(p, t)
    PROVE  IInv'
<1> USE DEF IInv
<1>1. /\ \/ call' = [call EXCEPT ![p] = "done"] /\ outcome' = [outcome EXCEPT ![p] = exc]
         \/ /\ call' = [call EXCEPT ![p] = "choose"] /\ outcome' = outcome
            /\ Len(trail[p]) < Attempts /\ ShouldRetry(exc)
      /\ exc # "none" /\ exc # "ok"
  <2>1. Len(trail[p]) \in Nat /\ Attempts \in Nat
    BY AttemptsAssumption DEF TypeOK
  <2> QED BY <2>1 DEF TryEnds, Failures
<1>2. TypeOK'
  <2>1. PICK l \in {"done", "choose"}, o \in Outcomes :
              /\ call' = [call EXCEPT ![p] = l]
              /\ outcome' = [outcome EXCEPT ![p] = o] \/ outcome' = outcome
    BY <1>1 DEF Outcomes
  <2>2. call' \in [Positions -> {"none", "queued", "choose", "connect", "wait", "done"}]
    BY <2>1 DEF TypeOK
  <2>3. outcome' \in [Positions -> Outcomes]
    BY <2>1 DEF TypeOK
  <2> QED BY <2>2, <2>3 DEF TypeOK, Teardown, Thread
<1>3. StageInv'
  BY <1>1 DEF TypeOK, StageInv, Teardown, Thread
<1>4. TrailInv'
  <2>1. PICK l \in {"done", "choose"} :
              /\ call' = [call EXCEPT ![p] = l]
              /\ l = "choose" => Len(trail[p]) < Attempts
    BY <1>1
  <2>2. call \in [Positions -> {"none", "queued", "choose", "connect", "wait", "done"}]
    BY DEF TypeOK
  <2>3. ASSUME NEW q \in Positions
        PROVE  /\ call'[q] \in {"none", "queued"} => trail[q] = <<>>
               /\ call'[q] = "choose" => Len(trail[q]) < Attempts
               /\ call'[q] \in {"connect", "wait"} => Len(trail[q]) >= 1
    BY <2>1, <2>2 DEF TrailInv
  <2> QED BY <2>3 DEF TrailInv
<1>5. PastInv'
  <2>1. PICK l \in {"done", "choose"} :
              /\ call' = [call EXCEPT ![p] = l]
              /\ l = "choose" => ShouldRetry(exc)
    BY <1>1
  <2>2. call \in [Positions -> {"none", "queued", "choose", "connect", "wait", "done"}]
    BY DEF TypeOK
  <2>3. ASSUME NEW q \in Positions, NEW t \in Tries
        PROVE  /\ Cautious /\ call'[q] \notin {"wait", "done"} => Harmless(q, t)
               /\ call'[q] = "connect" => call[q] = "connect"
    <3>1. CASE q = p
      BY <2>1, <2>2, <3>1
    <3>2. CASE q # p
      <4>1. call'[q] = call[q]
        BY <2>1, <2>2, <3>2
      <4> QED BY <4>1 DEF PastInv
    <3> QED BY <3>1, <3>2
  <2>4. frame' = frame /\ trail' = trail
    OBVIOUS
  <2>5. ASSUME NEW q \in Positions, NEW t \in Tries
        PROVE  /\ t > Len(trail[q]) => frame[<<q, t>>] = "none"
               /\ Cautious /\ t # Len(trail[q]) => Harmless(q, t)
               /\ Cautious /\ call'[q] \notin {"wait", "done"} => Harmless(q, t)
               /\ call'[q] = "connect" /\ t = Len(trail[q]) => frame[<<q, t>>] = "none"
    BY <2>3 DEF PastInv
  <2> QED BY <2>4, <2>5, ZenonT(40) DEF PastInv, Harmless
<1>6. outcome[p] = "none"
  BY DEF OutcomeInv
<1>7. OutcomeInv'
  BY <1>1, <1>6 DEF TypeOK, OutcomeInv, Current, Thread
<1>8. RowsComplete'
  BY <1>1, <1>6 DEF TypeOK, RowsComplete, Current, Thread
<1>9. QED
  BY <1>2, <1>3, <1>4, <1>5, <1>7, <1>8

\* The serving thread keeps the invariant: rows are answered when every call was gathered
\* as "ok", and what was gathered was the call's outcome.
LEMMA ServeInv ==
    ASSUME IInv, Serve PROVE IInv'
<1> USE DEF IInv
<1>1. CASE Admit
  <2>1. TypeOK'
    BY <1>1 DEF TypeOK, Admit, Answer, Teardown, Work
  <2>2. StageInv'
    BY <1>1 DEF StageInv, Admit, Answer, Work
  <2>3. TrailInv' /\ PastInv' /\ OutcomeInv'
    BY <1>1 DEF TrailInv, PastInv, Harmless, OutcomeInv, Current, Admit, Work
  <2>4. RowsComplete'
    BY <1>1 DEF StageInv, RowsComplete, NoAnswer, Admit, Answer
  <2> QED BY <2>1, <2>2, <2>3, <2>4
<1>2. CASE TakeExecutor
  <2>1. TypeOK'
    BY <1>2 DEF TypeOK, TakeExecutor, Teardown, Work
  <2>2. StageInv' /\ RowsComplete'
    BY <1>2 DEF StageInv, RowsComplete, NoAnswer, TakeExecutor, Work
  <2>3. TrailInv' /\ PastInv' /\ OutcomeInv'
    BY <1>2 DEF TrailInv, PastInv, Harmless, OutcomeInv, Current, TakeExecutor, Work
  <2> QED BY <2>1, <2>2, <2>3
<1>3. CASE Submit
  <2>1. /\ at \in Positions /\ call[at] = "none" /\ trail[at] = <<>> /\ outcome[at] = "none"
        /\ \A p \in Positions : p >= at => call[p] = "none"
    <3>1. at \in Positions /\ \A p \in Positions : p >= at => call[p] = "none"
      BY <1>3 DEF Submit, StageInv
    <3>2. call[at] = "none"
      BY <3>1, WidthAssumption DEF Positions
    <3> QED BY <3>1, <3>2 DEF TrailInv, OutcomeInv
  <2>2. call' = [call EXCEPT ![at] = "queued"]
    BY <1>3 DEF Submit
  <2>3. call \in [Positions -> {"none", "queued", "choose", "connect", "wait", "done"}]
    BY DEF TypeOK
  <2>4. \/ serving' = "gather" /\ at' = 1
        \/ serving' = "submit" /\ at' = at + 1 /\ at # Width
    BY <1>3 DEF Submit
  <2>5. TypeOK'
    <3>1. at' \in 1..(Width + 1)
      BY <2>1, <2>4, WidthAssumption DEF Positions
    <3>2. call' \in [Positions -> {"none", "queued", "choose", "connect", "wait", "done"}]
      BY <2>2, <2>3
    <3> QED BY <3>1, <3>2, <2>4, <1>3 DEF TypeOK, Submit, Teardown
  <2>6. StageInv'
    <3>1. CASE serving' = "gather" /\ at' = 1
      BY <3>1, <1>3, WidthAssumption DEF StageInv, Submit, Positions
    <3>2. CASE serving' = "submit" /\ at' = at + 1 /\ at # Width
      <4>1. at' \in Positions
        BY <2>1, <3>2, WidthAssumption DEF Positions
      <4>2. ASSUME NEW p \in Positions, p >= at' PROVE call'[p] = "none"
        BY <2>1, <2>2, <2>3, <3>2, <4>2 DEF Positions
      <4> QED BY <4>1, <4>2, <3>2, <1>3 DEF StageInv, Submit
    <3> QED BY <3>1, <3>2, <2>4
  <2>7. TrailInv'
    BY <2>1, <2>2, <2>3, <1>3 DEF TrailInv, Submit
  <2>8. PastInv'
    <3>1. ASSUME NEW q \in Positions, NEW t \in Tries
          PROVE  /\ Cautious /\ call'[q] \notin {"wait", "done"} => Harmless(q, t)
                 /\ call'[q] = "connect" => call[q] = "connect"
      BY <2>1, <2>2, <2>3 DEF PastInv
    <3>2. ASSUME NEW q \in Positions, NEW t \in Tries
          PROVE  /\ t > Len(trail[q]) => frame[<<q, t>>] = "none"
                 /\ Cautious /\ t # Len(trail[q]) => Harmless(q, t)
                 /\ Cautious /\ call'[q] \notin {"wait", "done"} => Harmless(q, t)
                 /\ call'[q] = "connect" /\ t = Len(trail[q]) => frame[<<q, t>>] = "none"
      BY <3>1 DEF PastInv
    <3>3. frame' = frame /\ trail' = trail
      BY <1>3 DEF Submit
    <3> QED BY <3>2, <3>3, Zenon DEF PastInv, Harmless
  <2>9. OutcomeInv' /\ RowsComplete'
    BY <2>1, <2>2, <2>3, <1>3 DEF OutcomeInv, RowsComplete, Current, Submit
  <2> QED BY <2>5, <2>6, <2>7, <2>8, <2>9
<1>4. CASE SubmitRefused
  <2>1. TypeOK'
    BY <1>4 DEF TypeOK, SubmitRefused, Answer, Teardown, Work
  <2>2. StageInv' /\ RowsComplete'
    BY <1>4 DEF StageInv, RowsComplete, SubmitRefused, Answer, Work
  <2>3. TrailInv' /\ PastInv' /\ OutcomeInv'
    BY <1>4 DEF TrailInv, PastInv, Harmless, OutcomeInv, Current, SubmitRefused, Work
  <2> QED BY <2>1, <2>2, <2>3
<1>5. CASE Gather
  <2>1. at \in Positions /\ at' = at + 1
    BY <1>5 DEF Gather, TypeOK, Positions
  <2>2. PICK o \in Outcomes :
              /\ gathered' = [gathered EXCEPT ![at] = o]
              /\ o # "none" /\ (o = "ok" => outcome[at] = "ok")
    <3>1. CASE call[at] = "done"
      BY <1>5, <2>1, <3>1 DEF Gather, TypeOK, OutcomeInv
    <3>2. CASE call[at] # "done"
      BY <1>5, <3>2 DEF Gather, Outcomes, Failures
    <3> QED BY <3>1, <3>2
  <2>3. gathered \in [Positions -> Outcomes]
    BY DEF TypeOK
  <2>4. TypeOK'
    <3>1. at' \in 1..(Width + 1) /\ gathered' \in [Positions -> Outcomes]
      BY <2>1, <2>2, <2>3, WidthAssumption DEF Positions
    <3> QED BY <3>1, <1>5 DEF TypeOK, Gather, Teardown, Work
  <2>5. StageInv'
    <3>1. ASSUME NEW p \in Positions, p < at' PROVE gathered'[p] # "none"
      BY <2>1, <2>2, <2>3, <3>1, <1>5 DEF StageInv, Gather, Positions
    <3> QED BY <3>1, <1>5 DEF StageInv, Gather
  <2>6. TrailInv' /\ PastInv'
    BY <1>5 DEF TrailInv, PastInv, Harmless, Gather, Work
  <2>7. OutcomeInv' /\ RowsComplete'
    BY <2>2, <2>3, <1>5 DEF OutcomeInv, RowsComplete, Current, Gather, Work
  <2> QED BY <2>4, <2>5, <2>6, <2>7
<1>6. CASE Respond
  <2> DEFINE failed == {p \in Positions : gathered[p] # "ok"}
             report == {[position |-> p, reason |-> gathered[p],
                         node |-> IF trail[p] = <<>> THEN Group ELSE Last(trail[p])] :
                            p \in failed}
  <2>1. \A p \in Positions : gathered[p] # "none"
    BY <1>6, WidthAssumption DEF Respond, StageInv, Positions
  <2>2. report \in SUBSET Failure
    <3>1. ASSUME NEW p \in failed
          PROVE  [position |-> p, reason |-> gathered[p],
                  node |-> IF trail[p] = <<>> THEN Group ELSE Last(trail[p])] \in Failure
      <4>1. p \in Positions /\ gathered[p] \in Failures
        BY <2>1 DEF TypeOK, Outcomes
      <4>2. (IF trail[p] = <<>> THEN Group ELSE Last(trail[p])) \in Nodes \cup {Group}
        BY <4>1 DEF TypeOK, Last
      <4> QED BY <4>1, <4>2 DEF Failure
    <3> QED BY <3>1
  <2>3. \/ failed = {} /\ reply' = [kind |-> "rows", failures |-> {}]
        \/ reply' = [kind |-> "failed", failures |-> report]
    BY <1>6 DEF Respond, Answer
  <2>4. TypeOK'
    <3>1. reply' \in [kind : {"none", "rows", "closed", "unknown", "failed"},
                      failures : SUBSET Failure]
      BY <2>2, <2>3
    <3> QED BY <3>1, <1>6 DEF TypeOK, Respond, Answer, Teardown, Work
  <2>5. StageInv'
    BY <1>6 DEF StageInv, Respond, Answer
  <2>6. TrailInv' /\ PastInv' /\ OutcomeInv'
    BY <1>6 DEF TrailInv, PastInv, Harmless, OutcomeInv, Current, Respond, Work
  <2>7. RowsComplete'
    <3>1. ASSUME reply'.kind = "rows", NEW p \in Positions
          PROVE  outcome[p] = "ok" /\ frame[Current(p)] = "ran"
      BY <2>3, <3>1 DEF OutcomeInv
    <3> QED BY <3>1, <1>6 DEF RowsComplete, Current, Respond, Work
  <2> QED BY <2>4, <2>5, <2>6, <2>7
<1>7. QED
  BY <1>1, <1>2, <1>3, <1>4, <1>5, <1>6 DEF Serve

\* A call starts, and chooses its next console: all attempts behind it are harmless.
LEMMA ChooseInv ==
    ASSUME IInv, NEW p \in Positions, Start(p) \/ Choose(p) PROVE IInv'
<1> USE DEF IInv
<1> DEFINE Steps == {"none", "queued", "choose", "connect", "wait", "done"}
<1>1. /\ call \in [Positions -> Steps] /\ trail \in [Positions -> Seq(Nodes)]
      /\ Len(trail[p]) \in Nat /\ Attempts \in Nat \ {0}
  BY AttemptsAssumption DEF TypeOK
<1>2. outcome[p] = "none" /\ call[p] \in {"queued", "choose"}
  BY DEF OutcomeInv, Start, Choose
<1>3. PICK l \in {"choose", "connect"}, tr \in Seq(Nodes) :
          /\ call' = [call EXCEPT ![p] = l]
          /\ trail' = [trail EXCEPT ![p] = tr]
          /\ l = "choose"  => tr = trail[p] /\ Len(tr) < Attempts
          /\ l = "connect" => Len(tr) = Len(trail[p]) + 1 /\ Len(tr) <= Attempts
  <2>1. CASE Start(p)
    <3>1. Len(trail[p]) < Attempts
      BY <1>1, <2>1 DEF Start, TrailInv
    <3>2. trail[p] \in Seq(Nodes) /\ trail' = [trail EXCEPT ![p] = trail[p]]
      BY <1>1, <2>1 DEF Start
    <3> QED BY <3>1, <3>2, <2>1 DEF Start
  <2>2. CASE Choose(p)
    <3> DEFINE k == Len(trail[p]) + 1
               n == CandidatesOf[p][IF k <= Len(CandidatesOf[p])
                                      THEN k ELSE Len(CandidatesOf[p])]
    <3>1. n \in Nodes /\ trail' = [trail EXCEPT ![p] = Append(@, n)]
      <4>1. k \in Nat \ {0}
        BY <1>1
      <4> QED BY <4>1, <2>2, CandidateType DEF Choose
    <3> HIDE DEF n
    <3>2. /\ Append(trail[p], n) \in Seq(Nodes)
          /\ Len(Append(trail[p], n)) = Len(trail[p]) + 1
      BY <1>1, <3>1
    <3>3. Len(trail[p]) < Attempts
      BY <2>2 DEF Choose, TrailInv
    <3>4. /\ call' = [call EXCEPT ![p] = "connect"]
          /\ trail' = [trail EXCEPT ![p] = Append(trail[p], n)]
          /\ Len(Append(trail[p], n)) <= Attempts
      <4>1. call' = [call EXCEPT ![p] = "connect"]
        BY <2>2 DEF Choose
      <4>2. trail' = [trail EXCEPT ![p] = Append(trail[p], n)]
        BY <3>1
      <4>3. Len(Append(trail[p], n)) <= Attempts
        BY <1>1, <3>2, <3>3
      <4> QED BY <4>1, <4>2, <4>3
    <3> QED BY <3>2, <3>4
  <2> QED BY <2>1, <2>2
<1>4. UNCHANGED <<Teardown, Thread, frame, outcome>>
  BY DEF Start, Choose
<1>5. TypeOK'
  <2>1. call' \in [Positions -> Steps] /\ trail' \in [Positions -> Seq(Nodes)]
    BY <1>1, <1>3
  <2>2. ASSUME NEW q \in Positions PROVE Len(trail'[q]) <= Attempts
    BY <1>1, <1>3 DEF TypeOK
  <2> QED BY <2>1, <2>2, <1>4 DEF TypeOK, Teardown, Thread
<1>6. StageInv'
  BY <1>1, <1>2, <1>3, <1>4 DEF StageInv, Thread
<1>7. TrailInv'
  <2>1. ASSUME NEW q \in Positions
        PROVE  /\ call'[q] \in {"none", "queued"} => trail'[q] = <<>>
               /\ call'[q] = "choose" => Len(trail'[q]) < Attempts
               /\ call'[q] \in {"connect", "wait"} => Len(trail'[q]) >= 1
    BY <1>1, <1>3 DEF TrailInv
  <2> QED BY <2>1 DEF TrailInv
<1>8. PastInv'
  <2>1. ASSUME NEW q \in Positions, NEW t \in Tries
        PROVE  /\ t > Len(trail'[q]) => frame[<<q, t>>] = "none"
               /\ Cautious /\ t # Len(trail'[q]) => Harmless(q, t)
               /\ Cautious /\ call'[q] \notin {"wait", "done"} => Harmless(q, t)
               /\ call'[q] = "connect" /\ t = Len(trail'[q]) => frame[<<q, t>>] = "none"
    <3>1. CASE q = p
      <4>1. call'[p] = l /\ trail'[p] = tr
        BY <1>1, <1>3
      <4>2. Len(tr) >= Len(trail[p]) /\ Len(tr) \in Nat /\ t \in Nat
        BY <1>1, <1>3 DEF Tries
      <4>3. Cautious => Harmless(p, t)
        BY <1>2 DEF PastInv
      <4>4. t > Len(trail[p]) => frame[<<p, t>>] = "none"
        BY DEF PastInv
      <4> QED BY <3>1, <4>1, <4>2, <4>3, <4>4, <1>1, <1>3
    <3>2. CASE q # p
      <4>1. call'[q] = call[q] /\ trail'[q] = trail[q]
        BY <1>1, <1>3, <3>2
      <4> QED BY <4>1 DEF PastInv
    <3> QED BY <3>1, <3>2
  <2> QED BY <2>1, <1>4, Zenon DEF PastInv, Harmless
<1>9. OutcomeInv'
  <2>1. ASSUME NEW q \in Positions
        PROVE  /\ call'[q] = "done" <=> outcome[q] # "none"
               /\ outcome[q] = "ok" => Len(trail'[q]) >= 1 /\ frame[<<q, Len(trail'[q])>>] = "ran"
               /\ gathered[q] = "ok" => outcome[q] = "ok"
    BY <1>1, <1>2, <1>3 DEF OutcomeInv, Current
  <2> QED BY <2>1, <1>4 DEF OutcomeInv, Current, Thread
<1>10. RowsComplete'
  <2>1. reply.kind # "rows"
    BY <1>2 DEF RowsComplete
  <2> QED BY <2>1, <1>4 DEF RowsComplete, Thread
<1>11. QED
  BY <1>5, <1>6, <1>7, <1>8, <1>9, <1>10

\* A frame is written for the last attempt, and the console it reached runs it: no earlier
\* attempt of a cautious call is touched.
LEMMA FrameInv ==
    ASSUME IInv, NEW p \in Positions, Sent(p) \/ \E t \in Tries : Execute(<<p, t>>)
    PROVE  IInv'
<1> USE DEF IInv
<1> DEFINE Steps == {"none", "queued", "choose", "connect", "wait", "done"}
           States == {"none", "sent", "ran", "erred"}
<1>1. /\ call \in [Positions -> Steps] /\ frame \in [Positions \X Tries -> States]
      /\ Len(trail[p]) \in Nat
  BY DEF TypeOK
<1>2. PICK t \in Tries, r \in States \ {"none"} :
          /\ frame' = [frame EXCEPT ![<<p, t>>] = r]
          /\ frame[<<p, t>>] \in {"none", "sent"} /\ t <= Len(trail[p])
          /\ Cautious => t = Len(trail[p]) /\ call'[p] \in {"wait", "done"}
          /\ \/ call' = call /\ call[p] # "connect"
             \/ call' = call /\ t # Len(trail[p])
             \/ call' = [call EXCEPT ![p] = "wait"] /\ call[p] = "connect"
  <2>1. CASE Sent(p)
    <3>1. Current(p) = <<p, Len(trail[p])>> /\ Len(trail[p]) \in Tries
      BY <2>1, CurrentType DEF Sent, Current
    <3>2. frame[<<p, Len(trail[p])>>] = "none"
      BY <3>1, <2>1 DEF Sent, PastInv
    <3>3. /\ frame' = [frame EXCEPT ![<<p, Len(trail[p])>>] = "sent"]
          /\ call' = [call EXCEPT ![p] = "wait"] /\ call[p] = "connect"
      BY <3>1, <2>1 DEF Sent
    <3>4. call'[p] = "wait" /\ Len(trail[p]) <= Len(trail[p])
      BY <1>1, <3>3
    <3> QED BY <3>1, <3>2, <3>3, <3>4
  <2>2. ASSUME NEW t \in Tries, Execute(<<p, t>>)
        PROVE  \E u \in Tries, r \in States \ {"none"} :
                  /\ frame' = [frame EXCEPT ![<<p, u>>] = r]
                  /\ frame[<<p, u>>] \in {"none", "sent"} /\ u <= Len(trail[p])
                  /\ Cautious => u = Len(trail[p]) /\ call'[p] \in {"wait", "done"}
                  /\ \/ call' = call /\ call[p] # "connect"
                     \/ call' = call /\ u # Len(trail[p])
                     \/ call' = [call EXCEPT ![p] = "wait"] /\ call[p] = "connect"
    <3>1. frame[<<p, t>>] = "sent" /\ call' = call
      BY <2>2 DEF Execute
    <3>2. t <= Len(trail[p])
      BY <3>1, <1>1 DEF PastInv, Tries
    <3>3. Cautious => t = Len(trail[p]) /\ call[p] \in {"wait", "done"}
      BY <3>1 DEF PastInv, Harmless
    <3>4. call[p] # "connect" \/ t # Len(trail[p])
      BY <3>1 DEF PastInv
    <3>5. PICK r \in {"ran", "erred"} : frame' = [frame EXCEPT ![<<p, t>>] = r]
      BY <2>2 DEF Execute
    <3> QED BY <3>1, <3>2, <3>3, <3>4, <3>5
  <2> QED BY <2>1, <2>2
<1>3. UNCHANGED <<Teardown, Thread, trail, outcome>>
  BY DEF Sent, Execute
<1>4. call' \in [Positions -> Steps] /\ frame' \in [Positions \X Tries -> States]
  BY <1>1, <1>2
<1>5. TypeOK'
  BY <1>3, <1>4 DEF TypeOK, Teardown, Thread
<1>6. \A q \in Positions : call'[q] = call[q] \/ (q = p /\ call[q] = "connect" /\ call'[q] = "wait")
  BY <1>1, <1>2
<1>7. StageInv' /\ TrailInv'
  BY <1>3, <1>6 DEF StageInv, TrailInv, Thread
<1>8. PastInv'
  <2>1. ASSUME NEW q \in Positions, NEW u \in Tries
        PROVE  /\ u > Len(trail[q]) => frame'[<<q, u>>] = "none"
               /\ Cautious /\ u # Len(trail[q]) => frame'[<<q, u>>] \in {"none", "erred"}
               /\ Cautious /\ call'[q] \notin {"wait", "done"} =>
                     frame'[<<q, u>>] \in {"none", "erred"}
               /\ call'[q] = "connect" /\ u = Len(trail[q]) => frame'[<<q, u>>] = "none"
    <3>1. CASE <<q, u>> = <<p, t>>
      BY <3>1, <1>1, <1>2 DEF Tries
    <3>2. CASE <<q, u>> # <<p, t>>
      <4>1. frame'[<<q, u>>] = frame[<<q, u>>]
        BY <3>2, <1>1, <1>2
      <4> QED BY <4>1, <1>6 DEF PastInv, Harmless
    <3> QED BY <3>1, <3>2
  <2> QED BY <2>1, <1>3, Zenon DEF PastInv, Harmless
<1>9. OutcomeInv' /\ RowsComplete'
  <2>1. ASSUME NEW q \in Positions, outcome[q] = "ok"
        PROVE  Len(trail[q]) >= 1 /\ frame'[<<q, Len(trail[q])>>] = "ran"
    <3>1. Len(trail[q]) >= 1 /\ frame[<<q, Len(trail[q])>>] = "ran"
      BY <2>1 DEF OutcomeInv, Current
    <3>2. Len(trail[q]) \in Tries
      BY <3>1, AttemptsAssumption DEF TypeOK, Tries
    <3>3. <<q, Len(trail[q])>> # <<p, t>>
      BY <3>1, <1>2
    <3> QED BY <3>1, <3>2, <3>3, <1>1, <1>2
  <2> QED BY <2>1, <1>3, <1>6 DEF OutcomeInv, RowsComplete, Current, Thread
<1>10. QED
  BY <1>5, <1>7, <1>8, <1>9

\* An output ends its call with the attempt that computed it.
LEMMA RepliedInv ==
    ASSUME IInv, NEW p \in Positions, Replied(p) PROVE IInv'
<1> USE DEF IInv
<1>1. /\ call \in [Positions -> {"none", "queued", "choose", "connect", "wait", "done"}]
      /\ outcome \in [Positions -> Outcomes] /\ call[p] = "wait" /\ frame[Current(p)] = "ran"
      /\ Len(trail[p]) >= 1 /\ outcome[p] = "none"
  BY DEF TypeOK, Replied, TrailInv, OutcomeInv
<1>2. /\ call' = [call EXCEPT ![p] = "done"] /\ outcome' = [outcome EXCEPT ![p] = "ok"]
      /\ UNCHANGED <<Teardown, Thread, trail, frame>>
  BY DEF Replied
<1>3. TypeOK'
  <2>1. /\ call' \in [Positions -> {"none", "queued", "choose", "connect", "wait", "done"}]
        /\ outcome' \in [Positions -> Outcomes]
    BY <1>1, <1>2 DEF Outcomes
  <2> QED BY <2>1, <1>2 DEF TypeOK, Teardown, Thread
<1>4. StageInv' /\ TrailInv'
  <2>1. \A q \in Positions : call'[q] = call[q] \/ (call[q] = "wait" /\ call'[q] = "done")
    BY <1>1, <1>2
  <2> QED BY <2>1, <1>2 DEF StageInv, TrailInv, Thread
<1>5. PastInv'
  <2>1. ASSUME NEW q \in Positions, NEW t \in Tries
        PROVE  /\ t > Len(trail[q]) => frame[<<q, t>>] = "none"
               /\ Cautious /\ t # Len(trail[q]) => Harmless(q, t)
               /\ Cautious /\ call'[q] \notin {"wait", "done"} => Harmless(q, t)
               /\ call'[q] = "connect" /\ t = Len(trail[q]) => frame[<<q, t>>] = "none"
    BY <1>1, <1>2 DEF PastInv
  <2> QED BY <2>1, <1>2, Zenon DEF PastInv, Harmless
<1>6. OutcomeInv' /\ RowsComplete'
  BY <1>1, <1>2 DEF OutcomeInv, RowsComplete, Current, Thread
<1>7. QED
  BY <1>3, <1>4, <1>5, <1>6

\* Closing the coordinator and the passing of its deadline disturb no part of it.
LEMMA OutsideInv ==
    ASSUME IInv,
           DeadlinePasses \/ MarkClosed \/ ShutExecutor \/ Drain \/ CloseTransport \/ UNCHANGED vars
    PROVE  IInv'
<1> USE DEF IInv, Teardown, Thread, Work, vars
<1>1. UNCHANGED <<Work, serving, at, mine, gathered, reply>>
  BY DEF DeadlinePasses, MarkClosed, ShutExecutor, Drain, CloseTransport
<1>2. /\ closed' \in BOOLEAN /\ pool' \in {"open", "down"} /\ drained' \in BOOLEAN
      /\ shut' \in BOOLEAN /\ late' \in BOOLEAN
  BY DEF TypeOK, DeadlinePasses, MarkClosed, ShutExecutor, Drain, CloseTransport
<1>3. TypeOK'
  BY <1>1, <1>2 DEF TypeOK
<1>4. StageInv' /\ TrailInv'
  BY <1>1 DEF StageInv, TrailInv
<1>5. PastInv' /\ OutcomeInv' /\ RowsComplete'
  BY <1>1 DEF PastInv, Harmless, OutcomeInv, RowsComplete, Current
<1>6. QED
  BY <1>3, <1>4, <1>5

\* Every step keeps the invariant.
LEMMA StepInv == IInv /\ [Next]_vars => IInv'
<1> SUFFICES ASSUME IInv, [Next]_vars PROVE IInv'
  OBVIOUS
<1>1. CASE Serve
  BY <1>1, ServeInv
<1>2. CASE DeadlinePasses \/ MarkClosed \/ ShutExecutor \/ Drain \/ CloseTransport \/ UNCHANGED vars
  BY <1>2, OutsideInv
<1>3. ASSUME NEW p \in Positions, Start(p) \/ Choose(p) PROVE IInv'
  BY <1>3, ChooseInv
<1>4. ASSUME NEW p \in Positions, Sent(p) PROVE IInv'
  BY <1>4, FrameInv
<1>5. ASSUME NEW p \in Positions, NEW t \in Tries, Execute(<<p, t>>) PROVE IInv'
  BY <1>5, FrameInv
<1>6. ASSUME NEW p \in Positions, Replied(p) PROVE IInv'
  BY <1>6, RepliedInv
<1>7. ASSUME NEW p \in Positions, NEW exc \in Failures,
             NotSent(p, exc) \/ (RepliedErr(p) /\ exc = "error") \/ NoReply(p, exc)
      PROVE  IInv'
  <2>1. /\ TryEnds(p, exc) /\ UNCHANGED <<Teardown, Thread, trail, frame>>
        /\ call[p] \in {"connect", "wait"}
    BY <1>7 DEF NotSent, RepliedErr, NoReply
  <2>2. ASSUME Cautious, ShouldRetry(exc), NEW t \in Tries PROVE Harmless(p, t)
    <3>1. exc \in {"unreachable", "error"}
      BY <2>2 DEF Cautious, ShouldRetry, Failures
    <3>2. CASE NotSent(p, exc)
      BY <2>2, <3>2 DEF NotSent, IInv, PastInv
    <3>3. CASE RepliedErr(p)
      <4>1. frame[<<p, Len(trail[p])>>] = "erred"
        BY <3>3 DEF RepliedErr, Current
      <4> QED BY <2>2, <4>1 DEF IInv, PastInv, Harmless
    <3>4. CASE NoReply(p, exc)
      BY <3>1, <3>4 DEF NoReply
    <3> QED BY <1>7, <3>2, <3>3, <3>4
  <2> QED BY <2>1, <2>2, TryEndsInv
<1>8. ASSUME NEW p \in Positions, RepliedErr(p) PROVE IInv'
  <2>1. "error" \in Failures
    BY DEF Failures
  <2> QED BY <1>7, <1>8, <2>1
<1>9. ASSUME NEW p \in Positions,
             \/ Start(p) \/ Choose(p) \/ Sent(p) \/ Replied(p) \/ RepliedErr(p)
             \/ \E exc \in Failures : NotSent(p, exc) \/ NoReply(p, exc)
             \/ \E t \in Tries : Execute(<<p, t>>)
      PROVE  IInv'
  <2>1. CASE Start(p) \/ Choose(p) \/ Sent(p) \/ Replied(p) \/ RepliedErr(p)
    BY <2>1, <1>3, <1>4, <1>6, <1>8
  <2>2. CASE \E exc \in Failures : NotSent(p, exc) \/ NoReply(p, exc)
    <3>1. PICK exc \in Failures : NotSent(p, exc) \/ NoReply(p, exc)
      BY <2>2
    <3> QED BY <3>1, <1>7
  <2>3. CASE \E t \in Tries : Execute(<<p, t>>)
    BY <2>3, <1>5
  <2> QED BY <1>9, <2>1, <2>2, <2>3
<1>10. QED
  BY <1>1, <1>2, <1>9 DEF Next

LEMMA Invariance == Spec => []IInv
  BY InitInv, StepInv, PTL DEF Spec

-----------------------------------------------------------------------------
\* Every variable keeps the type the program gives it.
THEOREM TypeCorrect == Spec => []TypeOK
<1>1. IInv => TypeOK
  BY DEF IInv
<1> QED BY <1>1, Invariance, PTL

\* Under a policy that retries only what was not delivered or was refused, at most one attempt
\* at an expert ever computes, whatever the failover order and the number of attempts
\* (_call_expert, RetryPolicy): all others stay unsent or are answered with an error.
THEOREM ComputesOnce == Spec => []AtMostOnce
<1>1. IInv => AtMostOnce
  <2> SUFFICES ASSUME IInv, Cautious, NEW p \in Positions
               PROVE  Cardinality({t \in Tries : frame[<<p, t>>] \in {"sent", "ran"}}) <= 1
    BY DEF AtMostOnce
  <2> DEFINE Live == {t \in Tries : frame[<<p, t>>] \in {"sent", "ran"}}
  <2>1. Live \subseteq {Len(trail[p])}
    BY DEF IInv, PastInv, Harmless
  <2>2. Live = {} \/ Live = {Len(trail[p])}
    BY <2>1
  <2>3. Cardinality(Live) \in {0, 1}
    BY <2>2, FS_EmptySet, FS_Singleton
  <2> QED BY <2>3
<1> QED BY <1>1, Invariance, PTL

\* A batch is answered with rows only when the last attempt of every call ran and brought
\* its output back before the serving thread gathered it (gather and _serve_batch).
THEOREM RowsAreComplete == Spec => []RowsComplete
<1>1. IInv => RowsComplete
  BY DEF IInv
<1> QED BY <1>1, Invariance, PTL

=============================================================================

----------------------- MODULE WorkflowRunRefinement -----------------------
(***************************************************************************)
(* WorkflowRun implements RunLedger, for every number of steps, attempts     *)
(* and controllers and every fault budget.                                  *)
(*                                                                         *)
(* Each way the ledger of a run can change (LedgerStep) is one step of the    *)
(* abstract ledger or a stutter.  This needs the invariants of               *)
(* WorkflowRunProofs (the live attempt is the latest one and for the next    *)
(* step; a queued run has an attempt left) and one more, AbsentIsEmpty: no   *)
(* controller or route can reach a run before it is started.                 *)
(***************************************************************************)
EXTENDS WorkflowRunProofs

\* A run that was never started has no attempt.
AbsentIsEmpty == run_state = "ABSENT" => generation = 0

\* What the refinement rests on.
LedgerInv == Inv /\ BudgetOK /\ AbsentIsNew /\ AbsentIsEmpty

\* A queued, paused or blocked run is not settled, and so on: the phases.
LEMMA Phases ==
    /\ PhaseOf("ABSENT") = "none"
    /\ PhaseOf("QUEUED") = "open" /\ PhaseOf("RUNNING") = "open"
    /\ PhaseOf("PAUSED") = "held" /\ PhaseOf("BLOCKED") = "held"
    /\ PhaseOf("CANCELLING") = "cancelling"
    /\ PhaseOf("SUCCEEDED") = "succeeded"
    /\ PhaseOf("FAILED") = "failed"
    /\ PhaseOf("CANCELLED") = "cancelled"
  BY DEF PhaseOf

\* Nothing but its start happens to a run that was never started: there is no
\* attempt a controller could stop or a route could recover.
LEMMA FromAbsent ==
    ASSUME LedgerInv, [Next]_vars, run_state = "ABSENT"
    PROVE  UNCHANGED ledger \/ Start
  <1>1. Attempts = {}
    BY DEF LedgerInv, AbsentIsEmpty, Attempts
  <1>2. CASE UNCHANGED vars
    BY <1>2 DEF vars, ledger, runVars, attemptVars
  <1>3. CASE User
    <2>1. settled_at # "set"
      BY DEF LedgerInv, Inv, LedgerOK, SettledMeansFinished, Terminal
    <2> QED
      BY <1>3, <2>1 DEF User, Cancel, ExpireContent
  <1>4. CASE Faults
    BY <1>4 DEF Faults, AgentChanges, SendReplyLost, ControllerCrash, RecoverCrash, PostAgain,
        LoseCall, AgentRestart, AgentOnly, ledger, runVars, attemptVars
  <1>5. ASSUME NEW c \in Controllers, Wake(c) \/ Controller(c)
        PROVE  UNCHANGED ledger
    <2>1. ~Wake(c)
      BY DEF Wake
    <2>2. ~ConfirmStop(c) /\ ~RefusalFails(c)
      BY <1>1 DEF ConfirmStop, RefusalFails, LedgerInv, Inv, ControllerType, TargetOK
    <2> QED
      BY <1>5, <2>1, <2>2 DEF Controller, Inspect, SendStop, SendAccepted, SendHeld, SendUnanswered,
         SendRefused, MarkDispatched, RefusalFenced, ledger, runVars, attemptVars
  <1> QED
    BY <1>1, <1>2, <1>3, <1>4, <1>5 DEF Next

\* Once started, a run is never absent again, and without a start it has no
\* attempt.
LEMMA AbsentIsEmptyNext ==
    ASSUME LedgerInv, [Next]_vars
    PROVE  AbsentIsEmpty'
  <1>1. CASE run_state = "ABSENT"
    BY <1>1, FromAbsent DEF Start, ledger, runVars, AbsentIsEmpty, LedgerInv
  <1>2. CASE run_state # "ABSENT"
    <2>1. LedgerStep
      BY LedgerSteps DEF LedgerInv, Inv, ControllerType
    <2>2. ASSUME NEW stopped \in BOOLEAN, NEW lost \in BOOLEAN,
                 AdvanceCloses(stopped, lost) \/ AdvanceFences(stopped, lost)
          PROVE  run_state' # "ABSENT"
      <3>1. ~NothingToAdvance /\ MustFence(lost)
        BY <2>2 DEF AdvanceCloses, AdvanceFences
      <3>2. /\ Directed \in {"RUNNING", "PAUSED", "CANCELLING"}
            /\ AfterFence(lost) \in {"QUEUED", "FAILED", "PAUSED", "CANCELLED"}
        BY <3>1, FenceOutcome DEF LedgerInv, Inv
      <3> QED
        BY <2>2, <3>2 DEF AdvanceCloses, AdvanceFences
    <2>3. run_state' # "ABSENT"
      BY <1>2, <2>1, <2>2 DEF LedgerStep, ledger, runVars, Start, ExpireContent, Cancel, AdvanceStarts,
         Complete, FailRetryable, StopFor
    <2> QED
      BY <2>3 DEF AbsentIsEmpty
  <1> QED
    BY <1>1, <1>2

\* The invariant of the refinement holds throughout.
LEMMA LedgerInvariant == Spec => []LedgerInv
  <1>1. Init => BudgetOK /\ AbsentIsNew /\ AbsentIsEmpty
    BY BudgetInit DEF Init, AbsentIsNew, AbsentIsEmpty
  <1>2. LedgerInv /\ [Next]_vars => BudgetOK' /\ AbsentIsNew' /\ AbsentIsEmpty'
    BY LedgerSteps, BudgetNext, AbsentNext, AbsentIsEmptyNext DEF LedgerInv, Inv, ControllerType
  <1> QED
    BY <1>1, <1>2, Invariant, PTL DEF Spec, LedgerInv

-----------------------------------------------------------------------------
\* One lemma for each way the ledger changes.

\* What the abstract state reads of an unchanged ledger.
LEMMA SameLedger ==
    ASSUME UNCHANGED <<run_state, next_step, generation, checkpoint, attempt_state, step_index>>
    PROVE  UNCHANGED Ledger!ledgerVars
  BY DEF Ledger!ledgerVars, Holder, Closing, AttemptsOf, Attempts

\* A live attempt holds the run, and its step is the next one.
LEMMA HolderIsLive ==
    ASSUME LedgerInv
    PROVE  /\ generation \in Nat
           /\ CurrentIsLive => /\ Holder = generation /\ Holder # 0
                               /\ run_state \in {"RUNNING", "PAUSED", "CANCELLING"}
           /\ ~CurrentIsLive => Holder = 0 /\ ~Closing
           /\ Closing => CurrentIsLive
  BY DEF LedgerInv, Inv, LedgerOK, LedgerType, OnlyCurrentAttemptLive, CurrentIsLive, Holder, Closing,
     Attempts, Live

\* start() begins the run.
LEMMA StartBegins ==
    ASSUME LedgerInv, Start PROVE Ledger!Begin
  BY Phases DEF Start, attemptVars, Ledger!Begin, Holder, Closing, AttemptsOf, Attempts

\* cancel() holds it back for good.
LEMMA CancelHolds ==
    ASSUME LedgerInv, NEW expected \in 1..revision, Cancel(expected) PROVE Ledger!Hold
  <1>1. run_state \in {"QUEUED", "RUNNING", "PAUSED", "BLOCKED"} /\ run_state' = "CANCELLING"
    BY DEF Cancel, LedgerInv, Inv, LedgerOK, LedgerType, RunStates, Terminal
  <1>2. PhaseOf(run_state') \in Ledger!Onward(PhaseOf(run_state))
    BY <1>1, Phases DEF Ledger!Onward
  <1> QED
    BY <1>2 DEF Cancel, attemptVars, Ledger!Hold, Holder, Closing, AttemptsOf, Attempts

\* expire_content() forgets the results of a settled run.
LEMMA ExpiryForgets ==
    ASSUME LedgerInv, ExpireContent PROVE Ledger!Forget
  <1>1. run_state \in Terminal
    BY DEF ExpireContent, LedgerInv, Inv, LedgerOK, SettledMeansFinished
  <1>2. PhaseOf(run_state) \in Ledger!SettledPhases
    BY <1>1, Phases DEF Terminal, Ledger!SettledPhases
  <1> QED
    BY <1>2 DEF ExpireContent, attemptVars, Ledger!Forget, Ledger!NothingKept, Holder, Closing,
       AttemptsOf, Attempts

\* advance() closes the admission of the live attempt.
LEMMA AdvanceClosesHolder ==
    ASSUME LedgerInv, NEW stopped \in BOOLEAN, NEW lost \in BOOLEAN, AdvanceCloses(stopped, lost)
    PROVE  Ledger!Close
  <1>1. /\ CurrentIsLive /\ run_state' = Directed
        /\ attempt_state' = [attempt_state EXCEPT ![generation] = "STOPPING"]
        /\ UNCHANGED <<next_step, generation, checkpoint, step_index>>
    BY DEF AdvanceCloses
  <1>2. /\ run_state \in {"RUNNING", "PAUSED", "CANCELLING"}
        /\ Directed \in {"RUNNING", "PAUSED", "CANCELLING"}
        /\ run_state = "PAUSED" => Directed \in {"PAUSED", "CANCELLING"}
        /\ run_state = "CANCELLING" => Directed = "CANCELLING"
    BY <1>1, HolderIsLive, FenceOutcome DEF AdvanceCloses, LedgerInv, Inv
  <1>3. PhaseOf(run_state') \in Ledger!Onward(PhaseOf(run_state))
    BY <1>1, <1>2, Phases DEF Ledger!Onward
  <1>4. attempt_state'[generation] = "STOPPING" /\ generation > 0
    BY <1>1 DEF CurrentIsLive, LedgerInv, Inv, LedgerOK, LedgerType, Attempts
  <1>5. Closing' = TRUE /\ Holder' = Holder /\ Holder # 0
    BY <1>1, <1>4, HolderIsLive DEF Closing, Holder, Live
  <1>6. Cardinality(AttemptsOf(next_step))' = Cardinality(AttemptsOf(next_step))
    BY <1>1 DEF AttemptsOf, Attempts
  <1> QED
    BY <1>1, <1>3, <1>5, <1>6 DEF Ledger!Close

\* A retry is decided only for the live attempt of a running run, and a run
\* fails for want of attempts only when all of them are used.
LEMMA RetryOutcome ==
    ASSUME LedgerInv, NEW lost \in BOOLEAN, ~NothingToAdvance, MustFence(lost),
           AfterFence(lost) \in {"QUEUED", "FAILED"}
    PROVE  /\ CurrentIsLive /\ run_state = "RUNNING"
           /\ AfterFence(lost) = "QUEUED" => Cardinality(AttemptsOf(next_step)) < MaxAttempts
           /\ AfterFence(lost) = "FAILED" => Cardinality(AttemptsOf(next_step)) = MaxAttempts
  <1>1. Directed \in {"RUNNING", "PAUSED", "CANCELLING"} /\ Directed # "CANCELLING"
    BY FenceOutcome DEF AfterFence, LedgerInv, Inv
  <1>2. Expired(lost) /\ Authorized /\ Directed # "PAUSED" /\ AfterFence(lost) = Retry
    BY <1>1 DEF AfterFence
  <1>3. CurrentIsLive /\ run_state = "RUNNING"
    BY <1>1, <1>2 DEF Expired, Directed
  <1>4. next_step \in 0..(Steps - 1) /\ MaxAttempts \in Nat
    BY <1>3, WorkflowAssumption
       DEF LedgerInv, Inv, LedgerOK, LedgerType, OnlyCurrentAttemptLive, CurrentIsLive, Attempts
  <1>5. /\ Cardinality(AttemptsOf(next_step)) \in Nat
        /\ Cardinality(AttemptsOf(next_step)) <= MaxAttempts
    BY <1>4, AttemptsFinite DEF LedgerInv, Inv, LedgerOK, BudgetOK, AttemptBudget
  <1> QED
    BY <1>2, <1>3, <1>4, <1>5 DEF Retry

\* advance() fences: the attempt, if one is live, no longer holds the run.
LEMMA AdvanceFencesDrops ==
    ASSUME LedgerInv, run_state # "ABSENT",
           NEW stopped \in BOOLEAN, NEW lost \in BOOLEAN, AdvanceFences(stopped, lost)
    PROVE  Ledger!Drop
  <1> DEFINE s == AfterFence(lost)
  <1>1. /\ run_state' = s
        /\ attempt_state' = [g \in Attempts |->
               IF g = generation /\ CurrentIsLive THEN "STOPPED" ELSE attempt_state[g]]
        /\ UNCHANGED <<next_step, generation, checkpoint, step_index>>
    BY DEF AdvanceFences
  <1>2. ~NothingToAdvance /\ MustFence(lost)
    BY DEF AdvanceFences
  <1>3. /\ s \in {"QUEUED", "FAILED", "PAUSED", "CANCELLED"}
        /\ run_state = "CANCELLING" => s = "CANCELLED"
        /\ run_state \in {"QUEUED", "RUNNING", "PAUSED", "BLOCKED", "CANCELLING"}
    BY <1>2, FenceOutcome DEF LedgerInv, Inv, LedgerOK, LedgerType, RunStates, Terminal
  <1>4. s \in {"QUEUED", "FAILED"} =>
           /\ CurrentIsLive /\ run_state = "RUNNING"
           /\ s = "QUEUED" => Cardinality(AttemptsOf(next_step)) < MaxAttempts
           /\ s = "FAILED" => Cardinality(AttemptsOf(next_step)) = MaxAttempts
    BY <1>2, RetryOutcome
  <1> HIDE DEF s
  <1>5. Holder' = 0 /\ Closing' = FALSE
    BY <1>1 DEF Holder, Closing, CurrentIsLive, LedgerInv, Inv, LedgerOK, LedgerType, Attempts, Live
  <1>6. Cardinality(AttemptsOf(next_step))' = Cardinality(AttemptsOf(next_step))
    BY <1>1 DEF AttemptsOf, Attempts
  <1>7. CASE s = "QUEUED"
    BY <1>1, <1>4, <1>5, <1>6, <1>7, HolderIsLive, Phases DEF Ledger!Drop
  <1>8. CASE s = "FAILED"
    BY <1>1, <1>4, <1>5, <1>6, <1>8, HolderIsLive, Phases DEF Ledger!Drop
  <1>9. CASE s = "PAUSED"
    <2>1. PhaseOf(run_state) \in {"open", "held"} /\ PhaseOf(run_state') = "held"
      BY <1>1, <1>3, <1>9, Phases
    <2> QED
      BY <1>1, <1>5, <1>6, <2>1 DEF Ledger!Drop
  <1>10. CASE s = "CANCELLED"
    <2>1. /\ PhaseOf(run_state) \in {"open", "held", "cancelling"}
          /\ PhaseOf(run_state') = "cancelled"
      BY <1>1, <1>3, <1>10, Phases
    <2> QED
      BY <1>1, <1>5, <1>6, <2>1 DEF Ledger!Drop
  <1> QED
    BY <1>3, <1>7, <1>8, <1>9, <1>10

\* advance() admits a new attempt of the next step, which holds the run.
LEMMA AdvanceStartsAdmits ==
    ASSUME LedgerInv, NEW lost \in BOOLEAN, AdvanceStarts(lost)
    PROVE  Ledger!Admit
  <1> DEFINE h == generation + 1
  <1>1. /\ run_state = "QUEUED" /\ run_state' = "RUNNING" /\ generation' = h
        /\ generation \in Nat
        /\ UNCHANGED <<next_step, checkpoint>>
    BY DEF AdvanceStarts, LedgerInv, Inv, LedgerOK, LedgerType
  <1>2. Holder = 0
    BY <1>1, HolderIsLive
  <1>3. attempt_state'[h] = "REASONING"
    BY <1>1 DEF AdvanceStarts
  <1>4. Holder' = h /\ Closing' = FALSE
    BY <1>1, <1>3 DEF Holder, Closing, Live
  <1>5. AttemptsOf(next_step)' = AttemptsOf(next_step) \cup {h} /\ h \notin AttemptsOf(next_step)
    BY <1>1 DEF AdvanceStarts, StepToTry, AttemptsOf, Attempts
  <1>6. IsFiniteSet(AttemptsOf(next_step))
    BY AttemptsFinite DEF LedgerInv, Inv, LedgerOK
  <1>7. Cardinality(AttemptsOf(next_step))' = Cardinality(AttemptsOf(next_step)) + 1
    BY <1>5, <1>6, FS_AddElement
  <1>8. Cardinality(AttemptsOf(next_step)) < MaxAttempts
    BY <1>1 DEF LedgerInv, BudgetOK
  <1>9. PhaseOf(run_state) = "open" /\ PhaseOf(run_state') = "open"
    BY <1>1, Phases
  <1> QED
    BY <1>1, <1>2, <1>4, <1>7, <1>8, <1>9 DEF Ledger!Admit

\* complete() delivers the result of the attempt that holds the run.
LEMMA CompleteDelivers ==
    ASSUME LedgerInv, NEW g \in Attempts, Complete(g)
    PROVE  Ledger!Deliver
  <1>1. /\ g = generation /\ run_state = "RUNNING" /\ step_index[g] = next_step
        /\ next_step \in 0..(Steps - 1)
    BY AdmittedIsCurrent DEF Complete, LedgerInv, Inv
  <1>2. attempt_state[g] = "REASONING" /\ generation > 0
    BY <1>1 DEF Complete, Admitted, Attempts
  <1>3. Holder = g /\ Holder # 0 /\ Closing = FALSE
    BY <1>1, <1>2 DEF Holder, Closing, Live
  <1>4. /\ checkpoint' = [checkpoint EXCEPT ![next_step] = g]
        /\ attempt_state' = [attempt_state EXCEPT ![g] = "COMPLETED"]
        /\ next_step' = next_step + 1
        /\ run_state' = IF next_step + 1 = Steps THEN "SUCCEEDED" ELSE "QUEUED"
        /\ UNCHANGED <<generation, step_index>>
    BY <1>1 DEF Complete
  <1>5. attempt_state'[generation] = "COMPLETED"
    BY <1>1, <1>4 DEF LedgerInv, Inv, LedgerOK, LedgerType
  <1>6. Holder' = 0 /\ Closing' = FALSE
    BY <1>4, <1>5 DEF Holder, Closing, Live
  <1>7. AttemptsOf(next_step)' = {}
    BY <1>1, <1>4 DEF AttemptsOf, Attempts, LedgerInv, BudgetOK, Inv, LedgerOK, LedgerType
  <1>8. Cardinality(AttemptsOf(next_step))' = 0
    BY <1>7, FS_EmptySet
  <1>9. /\ PhaseOf(run_state) = "open"
        /\ PhaseOf(run_state') = IF next_step' = Steps THEN "succeeded" ELSE "open"
    BY <1>1, <1>4, Phases
  <1> QED
    BY <1>3, <1>4, <1>6, <1>8, <1>9 DEF Ledger!Deliver

\* A failure that no retry follows drops the holder, whose admission is open.
LEMMA FailureDrops ==
    ASSUME LedgerInv, NEW g \in Attempts, NEW s \in {"FAILED", "BLOCKED"},
           Admitted(g), StopFor(g, s)
    PROVE  Ledger!Drop
  <1>1. /\ g = generation /\ run_state = "RUNNING"
        /\ attempt_state[g] = "REASONING" /\ generation > 0
    BY AdmittedIsCurrent DEF Admitted, LedgerInv, Inv, Attempts
  <1>2. Holder # 0 /\ Closing = FALSE
    BY <1>1 DEF Holder, Closing, Live
  <1>3. /\ run_state' = s
        /\ attempt_state' = [attempt_state EXCEPT ![g] = "STOPPED"]
        /\ UNCHANGED <<next_step, generation, checkpoint, step_index>>
    BY DEF StopFor
  <1>4. attempt_state'[generation] = "STOPPED"
    BY <1>1, <1>3 DEF LedgerInv, Inv, LedgerOK, LedgerType
  <1>5. Holder' = 0 /\ Closing' = FALSE
    BY <1>3, <1>4 DEF Holder, Closing, Live
  <1>6. Cardinality(AttemptsOf(next_step))' = Cardinality(AttemptsOf(next_step))
    BY <1>3 DEF AttemptsOf, Attempts
  <1>7. /\ PhaseOf(run_state) = "open"
        /\ PhaseOf(run_state') = IF s = "FAILED" THEN "failed" ELSE "held"
    BY <1>1, <1>3, Phases
  <1> QED
    BY <1>2, <1>3, <1>5, <1>6, <1>7 DEF Ledger!Drop

-----------------------------------------------------------------------------
\* Every step of the run is a step of the ledger it promises, or none.
LEMMA RefinesNext ==
    ASSUME LedgerInv, [Next]_vars
    PROVE  [Ledger!LedgerNext]_(Ledger!ledgerVars)
  <1> SUFFICES Ledger!LedgerNext \/ UNCHANGED Ledger!ledgerVars
    OBVIOUS
  <1>1. LedgerStep
    BY LedgerSteps DEF LedgerInv, Inv, ControllerType
  <1>2. CASE run_state = "ABSENT"
    BY <1>2, FromAbsent, StartBegins, SameLedger DEF ledger, runVars, Ledger!LedgerNext
  <1>3. CASE UNCHANGED ledger \/ \E g \in Attempts : FailRetryable(g)
    BY <1>3, SameLedger DEF ledger, runVars, FailRetryable, attemptVars
  <1>4. CASE Start \/ ExpireContent \/ \E expected \in 1..revision : Cancel(expected)
    BY <1>4, StartBegins, ExpiryForgets, CancelHolds DEF Ledger!LedgerNext
  <1>5. CASE \E stopped, lost \in BOOLEAN : AdvanceCloses(stopped, lost)
    BY <1>5, AdvanceClosesHolder DEF Ledger!LedgerNext
  <1>6. CASE run_state # "ABSENT" /\ \E stopped, lost \in BOOLEAN : AdvanceFences(stopped, lost)
    BY <1>6, AdvanceFencesDrops DEF Ledger!LedgerNext
  <1>7. CASE \E lost \in BOOLEAN : AdvanceStarts(lost)
    BY <1>7, AdvanceStartsAdmits DEF Ledger!LedgerNext
  <1>8. CASE \E g \in Attempts : Complete(g)
    BY <1>8, CompleteDelivers DEF Ledger!LedgerNext
  <1>9. CASE \E g \in Attempts, s \in {"FAILED", "BLOCKED"} : Admitted(g) /\ StopFor(g, s)
    BY <1>9, FailureDrops DEF Ledger!LedgerNext
  <1> QED
    BY <1>1, <1>2, <1>3, <1>4, <1>5, <1>6, <1>7, <1>8, <1>9 DEF LedgerStep

\* The run implements the ledger it promises: however controllers, sessions,
\* late or repeated calls, crashes and deadlines interleave, steps complete in
\* order, each once and from the attempt that held the run with its admission
\* open, within MAX_ATTEMPTS, and never once the run is held or cancelling.
THEOREM ImplementsLedger == Spec => RunImplementsLedger
  <1>1. Init => Ledger!LedgerInit
    <2>1. ASSUME Init PROVE Cardinality(AttemptsOf(next_step)) = 0
      <3>1. AttemptsOf(next_step) = {}
        BY <2>1 DEF Init, AttemptsOf, Attempts
      <3> QED
        BY <3>1, FS_EmptySet
    <2> QED
      BY <2>1, Phases DEF Init, Ledger!LedgerInit, Ledger!NothingKept, Holder, Closing
  <1>2. LedgerInv /\ [Next]_vars => [Ledger!LedgerNext]_(Ledger!ledgerVars)
    BY RefinesNext
  <1> QED
    BY <1>1, <1>2, LedgerInvariant, PTL DEF Spec, RunImplementsLedger, Ledger!LedgerSpec
=============================================================================

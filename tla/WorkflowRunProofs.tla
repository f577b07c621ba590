------------------------- MODULE WorkflowRunProofs -------------------------
(***************************************************************************)
(* Proofs about WorkflowRun, for every number of steps, attempts and        *)
(* controllers and every fault budget.                                      *)
(*                                                                         *)
(* Only the fields of the run and of its attempts (the ledger) decide the    *)
(* safety properties.  LedgerSteps reduces a step of the system to one of    *)
(* the few ways the ledger can change; each invariant is then shown to       *)
(* survive those.  The invariants need each other: next_step stays in range  *)
(* because the live attempt is for the next step, and that attempt is the    *)
(* only live one because nothing starts another unless the run is QUEUED.    *)
(***************************************************************************)
EXTENDS WorkflowRun, FiniteSetTheorems, TLAPS

ledger == <<runVars, attempt_state, step_index>>

\* A controller past its inspection is looking at an attempt that exists.
TargetOK ==
    \A c \in Controllers :
        pc[c] \in {"stop", "confirm", "send", "mark", "refused"} => target[c] \in Attempts

\* Content is removed only from settled runs.
ExpiredIsSettled == content = "expired" => settled_at = "set"

\* The part of TypeOK that speaks of the ledger.
LedgerType ==
    /\ run_state \in RunStates
    /\ revision \in Nat /\ next_step \in 0..Steps /\ generation \in Nat
    /\ settled_at \in {"null", "set"} /\ content \in {"kept", "expired"}
    /\ checkpoint \in [0..(Steps - 1) -> 0..generation]
    /\ attempt_state \in [Attempts -> AttemptStates]
    /\ step_index \in [Attempts -> 0..(Steps - 1)]

\* What one run's ledger needs to stay well formed.
LedgerOK ==
    /\ LedgerType
    /\ OnlyCurrentAttemptLive
    /\ SettledMeansFinished
    /\ ExpiredIsSettled

\* The ways a step can change the ledger.
LedgerStep ==
    \/ UNCHANGED ledger
    \/ Start
    \/ ExpireContent
    \/ \E expected \in 1..revision : Cancel(expected)
    \/ \E stopped, lost \in BOOLEAN : AdvanceCloses(stopped, lost)
    \/ \E stopped, lost \in BOOLEAN : AdvanceFences(stopped, lost)
    \/ \E lost \in BOOLEAN : AdvanceStarts(lost)
    \/ \E g \in Attempts : Complete(g)
    \/ \E g \in Attempts : FailRetryable(g)
    \/ \E g \in Attempts, s \in {"FAILED", "BLOCKED"} : Admitted(g) /\ StopFor(g, s)

\* advance() in full is one of its four outcomes.
LEMMA AdvanceSteps ==
    ASSUME NEW stopped \in BOOLEAN, NEW lost \in BOOLEAN, Advance(stopped, lost)
    PROVE  LedgerStep
  BY DEF Advance, LedgerStep, ledger, runVars, AdvanceReturns

\* Every step of the system changes the ledger in one of the listed ways.
LEMMA LedgerSteps ==
    ASSUME TargetOK, [Next]_vars
    PROVE  LedgerStep
  <1>1. CASE UNCHANGED vars
    BY <1>1 DEF vars, LedgerStep, ledger, runVars, attemptVars
  <1>2. CASE User
    BY <1>2 DEF User, LedgerStep
  <1>3. CASE Faults
    BY <1>3 DEF Faults, AgentChanges, SendReplyLost, ControllerCrash, RecoverCrash, PostAgain,
        LoseCall, AgentRestart, AgentOnly, LedgerStep, ledger, runVars, attemptVars
  <1>4. ASSUME NEW c \in Controllers, Wake(c)
        PROVE  LedgerStep
    <2>1. Advance(FALSE, FALSE)
      BY <1>4 DEF Wake
    <2> QED BY <2>1, AdvanceSteps
  <1>5. ASSUME NEW c \in Controllers, ConfirmStop(c)
        PROVE  LedgerStep
    <2>1. Advance(TRUE, FALSE)
      BY <1>5 DEF ConfirmStop
    <2> QED BY <2>1, AdvanceSteps
  <1>6. ASSUME NEW c \in Controllers, RefusalFails(c)
        PROVE  LedgerStep
    BY <1>6 DEF RefusalFails, LedgerStep, TargetOK
  <1>7. ASSUME NEW c \in Controllers, Controller(c), ~ConfirmStop(c), ~RefusalFails(c)
        PROVE  LedgerStep
    BY <1>7 DEF Controller, Inspect, SendStop, SendAccepted, SendHeld, SendUnanswered,
        SendRefused, MarkDispatched, RefusalFenced, LedgerStep, ledger, runVars, attemptVars
  <1>8. ASSUME NEW g \in Attempts, Recover(g)
        PROVE  LedgerStep
    <2>1. Advance(TRUE, TRUE)
      BY <1>8 DEF Recover
    <2> QED BY <2>1, AdvanceSteps
  <1>9. ASSUME NEW g \in Attempts, Routes(g), ~Recover(g)
        PROVE  LedgerStep
    BY <1>9 DEF Routes, FailForGood, FailNeedsAttention, CallFenced, LedgerStep,
        ledger, runVars, attemptVars
  <1>10. ASSUME NEW g \in Attempts, AttemptExpires(g) \/ Session(g)
         PROVE  LedgerStep
    BY <1>10 DEF AttemptExpires, Session, Handoff, HandoffRefused, SessionReplies, SessionFails,
        PostRaises, SessionEnds, AgentOnly, LedgerStep, ledger, runVars, attemptVars
  <1> QED
    BY <1>1, <1>2, <1>3, <1>4, <1>5, <1>6, <1>7, <1>8, <1>9, <1>10 DEF Next

-----------------------------------------------------------------------------
\* The ledger stays well formed.

\* A fresh ledger has no attempt.
LEMMA LedgerInit == Init => LedgerOK
  BY WorkflowAssumption DEF Init, LedgerOK, LedgerType, OnlyCurrentAttemptLive, SettledMeansFinished,
     ExpiredIsSettled, Attempts, RunStates, Terminal, AttemptStates

\* An admitted attempt is the live one, so it is for the next step.
LEMMA AdmittedIsCurrent ==
    ASSUME LedgerOK, NEW g \in Attempts, Admitted(g)
    PROVE  /\ g = generation /\ run_state = "RUNNING" /\ step_index[g] = next_step
           /\ next_step \in 0..(Steps - 1)
  BY DEF LedgerOK, LedgerType, OnlyCurrentAttemptLive, Admitted, Live, Attempts

\* What advance() may decide for a run that must be fenced.
LEMMA FenceOutcome ==
    ASSUME LedgerOK, NEW lost \in BOOLEAN, ~NothingToAdvance, MustFence(lost)
    PROVE  /\ Directed \in {"RUNNING", "PAUSED", "CANCELLING"}
           /\ AfterFence(lost) \in {"QUEUED", "FAILED", "PAUSED", "CANCELLED"}
           /\ AfterFence(lost) = "QUEUED" =>
                 Cardinality(AttemptsOf(next_step)) < MaxAttempts
           /\ run_state \notin Terminal
           /\ run_state = "PAUSED" => AfterFence(lost) \in {"PAUSED", "CANCELLED"}
           /\ run_state = "BLOCKED" => AfterFence(lost) \in {"PAUSED", "CANCELLED"}
           /\ run_state = "CANCELLING" => AfterFence(lost) = "CANCELLED"
           /\ run_state = "PAUSED" => Directed \in {"PAUSED", "CANCELLING"}
           /\ run_state = "CANCELLING" => Directed = "CANCELLING"
  <1>1. CurrentIsLive => run_state \in {"RUNNING", "PAUSED", "CANCELLING"}
    BY DEF LedgerOK, LedgerType, OnlyCurrentAttemptLive, CurrentIsLive, Attempts
  <1>2. Directed \in {"RUNNING", "PAUSED", "CANCELLING"}
    BY <1>1 DEF MustFence, Expired, Directed
  <1>3. Directed = "RUNNING" => Authorized /\ Expired(lost)
    BY DEF MustFence, Directed
  <1>4. AfterFence(lost) \in {"QUEUED", "FAILED", "PAUSED", "CANCELLED"}
    BY <1>2, <1>3 DEF AfterFence, Retry
  <1>5. AfterFence(lost) = "QUEUED" => Cardinality(AttemptsOf(next_step)) < MaxAttempts
    BY <1>2 DEF AfterFence, Retry
  <1>6. run_state \notin Terminal
    BY DEF NothingToAdvance
  <1>7. /\ run_state = "PAUSED" => Directed \in {"PAUSED", "CANCELLING"}
        /\ run_state = "CANCELLING" => Directed = "CANCELLING"
        /\ run_state = "BLOCKED" => Directed \in {"PAUSED", "CANCELLING"}
    BY <1>2 DEF Directed
  <1> QED
    BY <1>2, <1>4, <1>5, <1>6, <1>7 DEF AfterFence

\* Every way the ledger can change keeps it well formed.
LEMMA LedgerNext ==
    ASSUME LedgerOK, LedgerStep
    PROVE  LedgerOK'
  <1> USE WorkflowAssumption
  <1>0. UNCHANGED <<generation, next_step, attempt_state, step_index>> =>
           /\ attempt_state' \in [Attempts' -> AttemptStates]
           /\ step_index' \in [Attempts' -> 0..(Steps - 1)]
           /\ next_step' \in 0..Steps /\ generation' \in Nat
           /\ run_state' \in {run_state, "CANCELLING"} => OnlyCurrentAttemptLive'
    BY DEF LedgerOK, LedgerType, OnlyCurrentAttemptLive, Attempts
  <1>1. CASE UNCHANGED ledger
    BY <1>0, <1>1 DEF ledger, runVars, LedgerOK, LedgerType, SettledMeansFinished, ExpiredIsSettled
  <1>2. CASE Start
    <2>1. OnlyCurrentAttemptLive'
      BY <1>2 DEF Start, attemptVars, LedgerOK, OnlyCurrentAttemptLive, Attempts
    <2> QED
      BY <1>0, <1>2, <2>1 DEF Start, attemptVars, LedgerOK, LedgerType, SettledMeansFinished,
         ExpiredIsSettled, RunStates, Terminal
  <1>3. CASE ExpireContent
    BY <1>0, <1>3 DEF ExpireContent, attemptVars, LedgerOK, LedgerType, SettledMeansFinished,
       ExpiredIsSettled
  <1>4. ASSUME NEW expected \in 1..revision, Cancel(expected)
        PROVE  LedgerOK'
    BY <1>0, <1>4 DEF Cancel, Bump, attemptVars, LedgerOK, LedgerType, SettledMeansFinished,
       ExpiredIsSettled, RunStates, Terminal
  <1>5. ASSUME NEW stopped \in BOOLEAN, NEW lost \in BOOLEAN, AdvanceCloses(stopped, lost)
        PROVE  LedgerOK'
    <2>1. /\ Directed \in {"RUNNING", "PAUSED", "CANCELLING"}
          /\ run_state \notin Terminal
      BY <1>5, FenceOutcome DEF AdvanceCloses
    <2>2. LedgerType'
      BY <1>5, <2>1 DEF AdvanceCloses, CurrentIsLive, LedgerOK, LedgerType, Attempts, RunStates,
         AttemptStates, Live
    <2>3. OnlyCurrentAttemptLive'
      BY <1>5, <2>1 DEF AdvanceCloses, CurrentIsLive, LedgerOK, LedgerType, OnlyCurrentAttemptLive,
         Attempts
    <2>4. SettledMeansFinished'
      BY <1>5, <2>1 DEF AdvanceCloses, CurrentIsLive, LedgerOK, LedgerType, SettledMeansFinished,
         Attempts, Terminal, Live
    <2>5. ExpiredIsSettled'
      BY <1>5 DEF AdvanceCloses, LedgerOK, ExpiredIsSettled
    <2> QED
      BY <2>2, <2>3, <2>4, <2>5 DEF LedgerOK
  <1>6. ASSUME NEW stopped \in BOOLEAN, NEW lost \in BOOLEAN, AdvanceFences(stopped, lost)
        PROVE  LedgerOK'
    <2> DEFINE s == AfterFence(lost)
    <2>1. s \in {"QUEUED", "FAILED", "PAUSED", "CANCELLED"} /\ run_state \notin Terminal
      BY <1>6, FenceOutcome DEF AdvanceFences
    <2>2. /\ run_state' = s /\ settled_at' = Settled(s) /\ revision' = revision + 1
          /\ attempt_state' = [g \in Attempts |->
                 IF g = generation /\ CurrentIsLive THEN "STOPPED" ELSE attempt_state[g]]
          /\ UNCHANGED <<next_step, generation, content, checkpoint, step_index>>
      BY <1>6 DEF AdvanceFences, Bump
    <2> HIDE DEF s
    <2>3. LedgerType'
      <3>1. settled_at' \in {"null", "set"}
        BY <2>2 DEF Settled, LedgerOK, LedgerType
      <3>2. attempt_state' \in [Attempts' -> AttemptStates]
        BY <2>2 DEF LedgerOK, LedgerType, Attempts, AttemptStates
      <3> QED
        BY <2>1, <2>2, <3>1, <3>2 DEF LedgerOK, LedgerType, Attempts, RunStates, Terminal
    <2>4. \A g \in Attempts' : attempt_state'[g] \notin Live
      BY <2>2 DEF CurrentIsLive, LedgerOK, LedgerType, OnlyCurrentAttemptLive, Attempts, Live
    <2>5. OnlyCurrentAttemptLive'
      BY <2>4 DEF OnlyCurrentAttemptLive
    <2>6. SettledMeansFinished'
      BY <2>1, <2>2 DEF Settled, LedgerOK, SettledMeansFinished, Terminal
    <2>7. ExpiredIsSettled'
      BY <2>2 DEF Settled, LedgerOK, ExpiredIsSettled
    <2> QED
      BY <2>3, <2>5, <2>6, <2>7 DEF LedgerOK
  <1>7. ASSUME NEW lost \in BOOLEAN, AdvanceStarts(lost)
        PROVE  LedgerOK'
    <2>1. next_step \in 0..(Steps - 1)
      BY <1>7 DEF AdvanceStarts, LedgerOK, LedgerType, SettledMeansFinished
    <2>2. LedgerType'
      BY <1>7, <2>1 DEF AdvanceStarts, Bump, StepToTry, LedgerOK, LedgerType, Attempts, RunStates,
         AttemptStates, Live
    <2>3. OnlyCurrentAttemptLive'
      BY <1>7 DEF AdvanceStarts, StepToTry, LedgerOK, LedgerType, OnlyCurrentAttemptLive, Attempts
    <2>4. SettledMeansFinished'
      BY <1>7 DEF AdvanceStarts, LedgerOK, LedgerType, SettledMeansFinished, Terminal, Live
    <2>5. ExpiredIsSettled'
      BY <1>7 DEF AdvanceStarts, LedgerOK, ExpiredIsSettled
    <2> QED
      BY <2>2, <2>3, <2>4, <2>5 DEF LedgerOK
  <1>8. ASSUME NEW g \in Attempts, Complete(g)
        PROVE  LedgerOK'
    <2>1. /\ g = generation /\ run_state = "RUNNING" /\ step_index[g] = next_step
          /\ next_step \in 0..(Steps - 1)
      BY <1>8, AdmittedIsCurrent DEF Complete
    <2>2. LedgerType'
      BY <1>8, <2>1 DEF Complete, Bump, Settled, LedgerOK, LedgerType, Attempts, RunStates, Terminal,
         AttemptStates
    <2>3. OnlyCurrentAttemptLive'
      BY <1>8, <2>1 DEF Complete, LedgerOK, LedgerType, OnlyCurrentAttemptLive, Attempts, Live
    <2>4. SettledMeansFinished'
      BY <1>8, <2>1 DEF Complete, Settled, LedgerOK, LedgerType, SettledMeansFinished, Terminal
    <2>5. ExpiredIsSettled'
      BY <1>8 DEF Complete, Settled, LedgerOK, ExpiredIsSettled
    <2> QED
      BY <2>2, <2>3, <2>4, <2>5 DEF LedgerOK
  <1>9. ASSUME NEW g \in Attempts, FailRetryable(g)
        PROVE  LedgerOK'
    BY <1>0, <1>9 DEF FailRetryable, Bump, attemptVars, LedgerOK, LedgerType, SettledMeansFinished,
       ExpiredIsSettled
  <1>10. ASSUME NEW g \in Attempts, NEW s \in {"FAILED", "BLOCKED"}, Admitted(g), StopFor(g, s)
         PROVE  LedgerOK'
    <2>1. /\ g = generation /\ run_state = "RUNNING"
      BY <1>10, AdmittedIsCurrent
    <2>2. LedgerType'
      BY <1>10, <2>1 DEF StopFor, Bump, Settled, LedgerOK, LedgerType, Attempts, RunStates, Terminal,
         AttemptStates
    <2>3. OnlyCurrentAttemptLive'
      BY <1>10, <2>1 DEF StopFor, LedgerOK, LedgerType, OnlyCurrentAttemptLive, Attempts, Live
    <2>4. SettledMeansFinished'
      BY <1>10, <2>1 DEF StopFor, Settled, LedgerOK, LedgerType, SettledMeansFinished, Terminal
    <2>5. ExpiredIsSettled'
      BY <1>10 DEF StopFor, Settled, LedgerOK, ExpiredIsSettled
    <2> QED
      BY <2>2, <2>3, <2>4, <2>5 DEF LedgerOK
  <1> QED
    BY <1>1, <1>2, <1>3, <1>4, <1>5, <1>6, <1>7, <1>8, <1>9, <1>10 DEF LedgerStep

-----------------------------------------------------------------------------
\* Controllers, sessions and calls.

\* The part of TypeOK about sessions, calls and the environment.
ProcessType ==
    /\ dispatched \subseteq Attempts /\ overdue \subseteq Attempts
    /\ agent \in {"available", "withdrawn", "deleted"}
    /\ session \in [Attempts -> SessionStates]
    /\ stop_asked \subseteq Attempts
    /\ calls \subseteq (Attempts \X Outcomes) /\ recovering \subseteq Attempts
    /\ faults \in 0..MaxFaults

\* The part of TypeOK about controllers.
Places == {"idle", "inspect", "stop", "confirm", "send", "mark", "refused"}
ControllerType ==
    /\ pc \in [Controllers -> Places]
    /\ target \in [Controllers -> 0..generation]
    /\ TargetOK

\* A disturbance stays within the budget.
LEMMA FaultType == ProcessType /\ Fault => faults' \in 0..MaxFaults
  BY WorkflowAssumption DEF ProcessType, Fault

\* advance() only ever adds an attempt, whose session has not begun.
LEMMA AdvanceProcess ==
    ASSUME LedgerType, ProcessType,
           NEW stopped \in BOOLEAN, NEW lost \in BOOLEAN, Advance(stopped, lost)
    PROVE  /\ generation' \in {generation, generation + 1}
           /\ session' \in [Attempts' -> SessionStates]
           /\ UNCHANGED <<dispatched, overdue, agent, stop_asked, calls>>
  BY DEF Advance, AdvanceReturns, AdvanceCloses, AdvanceFences, AdvanceStarts, LedgerType, ProcessType,
     Attempts, SessionStates, runVars

\* Attempts are never forgotten.
LEMMA AttemptsGrow == LedgerType /\ LedgerStep => generation' \in {generation, generation + 1}
  BY DEF LedgerStep, ledger, runVars, Start, ExpireContent, Cancel, AdvanceCloses, AdvanceFences,
     AdvanceStarts, Complete, FailRetryable, StopFor

\* A controller that moves to a place with an attempt that exists, or to one
\* that needs none, keeps the controllers' types.
LEMMA GotoType ==
    ASSUME LedgerType, ControllerType, generation' \in {generation, generation + 1},
           NEW c \in Controllers, NEW place \in Places, NEW g \in 0..generation,
           place \in {"idle", "inspect"} \/ g \in Attempts,
           Goto(c, place, g)
    PROVE  ControllerType'
  <1>1. pc' \in [Controllers -> Places] /\ target' \in [Controllers -> 0..generation']
    BY DEF ControllerType, Goto, LedgerType
  <1>2. ASSUME NEW d \in Controllers,
               pc'[d] \in {"stop", "confirm", "send", "mark", "refused"}
        PROVE  target'[d] \in Attempts'
    <2>1. CASE d = c
      BY <1>2, <2>1 DEF ControllerType, Goto, Attempts, LedgerType
    <2>2. CASE d # c
      <3>1. pc'[d] = pc[d] /\ target'[d] = target[d]
        BY <2>2 DEF ControllerType, Goto
      <3>2. target[d] \in Attempts
        BY <1>2, <3>1 DEF ControllerType, TargetOK
      <3> QED
        BY <3>1, <3>2 DEF Attempts, LedgerType
    <2> QED
      BY <2>1, <2>2
  <1> QED
    BY <1>1, <1>2 DEF ControllerType, TargetOK

\* Controllers that do not move keep their types as attempts are added.
LEMMA StayType ==
    ASSUME LedgerType, ControllerType, generation' \in {generation, generation + 1},
           UNCHANGED controllerVars
    PROVE  ControllerType'
  BY DEF LedgerType, ControllerType, TargetOK, controllerVars, Attempts

\* wake() never acts on an attempt that does not exist.
LEMMA ControllerNext ==
    ASSUME LedgerType, ControllerType, LedgerStep, [Next]_vars
    PROVE  ControllerType'
  <1>0. generation' \in {generation, generation + 1}
    BY AttemptsGrow
  <1>1. CASE UNCHANGED controllerVars
    BY <1>0, <1>1, StayType
  <1>2. ASSUME NEW c \in Controllers, Goto(c, "inspect", 0) \/ Goto(c, "idle", 0)
        PROVE  ControllerType'
    BY <1>0, <1>2, GotoType DEF Places, LedgerType
  <1>3. ASSUME NEW c \in Controllers, target[c] \in Attempts,
               NEW place \in {"confirm", "mark", "refused"}, Goto(c, place, target[c])
        PROVE  ControllerType'
    BY <1>0, <1>3, GotoType DEF Places, Attempts, LedgerType
  <1>4. ASSUME NEW c \in Controllers, Inspect(c)
        PROVE  ControllerType'
    <2>1. CASE generation = 0
      <3>1. Goto(c, "idle", 0)
        BY <1>4, <2>1 DEF Inspect
      <3> QED BY <1>2, <3>1
    <2>2. CASE generation > 0
      <3>1. generation \in Attempts /\ generation \in 0..generation
        BY <2>2 DEF LedgerType, Attempts
      <3>2. Goto(c, "idle", 0) \/ \E place \in {"stop", "confirm", "send"} : Goto(c, place, generation)
        BY <1>4 DEF Inspect, StopPlace
      <3> QED
        BY <1>0, <1>2, <3>1, <3>2, GotoType DEF Places
    <2> QED
      BY <2>1, <2>2 DEF LedgerType
  <1>5. ASSUME NEW c \in Controllers,
               Wake(c) \/ Controller(c) \/ SendReplyLost(c) \/ ControllerCrash(c), ~Inspect(c)
        PROVE  ControllerType'
    <2>1. pc[c] \in {"stop", "confirm", "send", "mark", "refused"} => target[c] \in Attempts
      BY DEF ControllerType, TargetOK
    <2>2. CASE Wake(c)
      BY <1>2, <2>2 DEF Wake
    <2>3. CASE SendStop(c) \/ SendAccepted(c) \/ SendHeld(c) \/ SendRefused(c)
      BY <1>3, <2>1, <2>3 DEF SendStop, SendAccepted, SendHeld, SendRefused
    <2>4. CASE \/ ConfirmStop(c) \/ SendUnanswered(c) \/ MarkDispatched(c) \/ RefusalFails(c)
               \/ RefusalFenced(c) \/ SendReplyLost(c) \/ ControllerCrash(c)
      BY <1>2, <2>4 DEF ConfirmStop, SendUnanswered, MarkDispatched, RefusalFails, RefusalFenced,
         SendReplyLost, ControllerCrash
    <2> QED
      BY <1>5, <2>2, <2>3, <2>4 DEF Controller
  <1>6. CASE User
    BY <1>1, <1>6 DEF User, Start, Cancel, ExpireContent
  <1>7. ASSUME NEW g \in Attempts,
               \/ AttemptExpires(g) \/ Routes(g) \/ Session(g) \/ RecoverCrash(g) \/ PostAgain(g)
               \/ \E o \in Outcomes : LoseCall(g, o)
        PROVE  ControllerType'
    BY <1>1, <1>7 DEF AttemptExpires, Routes, Complete, FailForGood, FailNeedsAttention, FailRetryable,
       Recover, CallFenced, RecoverCrash, LoseCall, Session, Handoff, HandoffRefused, SessionReplies,
       SessionFails, PostRaises, SessionEnds, PostAgain, AgentOnly
  <1>8. CASE AgentRestart \/ \E a \in {"available", "withdrawn", "deleted"} : AgentChanges(a)
    BY <1>1, <1>8 DEF AgentRestart, AgentOnly, AgentChanges
  <1> QED
    BY <1>1, <1>4, <1>5, <1>6, <1>7, <1>8 DEF Next, Faults, vars, controllerVars

\* Sessions and calls of the Agent stay of their type.
LEMMA SessionType ==
    ASSUME LedgerType, ProcessType, NEW g \in Attempts, Session(g) \/ PostAgain(g)
    PROVE  /\ session' \in [Attempts -> SessionStates]
           /\ stop_asked' \subseteq Attempts
           /\ calls' \subseteq (Attempts \X Outcomes)
           /\ faults' \in 0..MaxFaults
           /\ AgentOnly
  <1> USE WorkflowAssumption DEF ProcessType, SessionStates, Outcomes
  <1>1. ASSUME NEW o \in Outcomes, Post(g, o)
        PROVE  /\ session' \in [Attempts -> SessionStates]
               /\ stop_asked' \subseteq Attempts
               /\ calls' \subseteq (Attempts \X Outcomes)
    BY <1>1 DEF Post, Posted
  <1>2. ASSUME NEW o \in Outcomes, ReportFailure(g, o)
        PROVE  /\ session' \in [Attempts -> SessionStates]
               /\ stop_asked' \subseteq Attempts
               /\ calls' \subseteq (Attempts \X Outcomes)
    BY <1>1, <1>2 DEF ReportFailure, EndSession
  <1>3. CASE Handoff(g)
    BY <1>3 DEF Handoff
  <1>4. CASE HandoffRefused(g)
    BY <1>2, <1>4 DEF HandoffRefused
  <1>5. CASE SessionReplies(g)
    BY <1>1, <1>5 DEF SessionReplies
  <1>6. CASE SessionFails(g)
    BY <1>2, <1>6 DEF SessionFails
  <1>7. CASE PostRaises(g)
    BY <1>2, <1>7 DEF PostRaises
  <1>8. CASE SessionEnds(g)
    BY <1>8 DEF SessionEnds, EndSession
  <1>9. CASE PostAgain(g)
    BY <1>9, FaultType DEF PostAgain, Posted, agentVars
  <1> QED
    BY <1>3, <1>4, <1>5, <1>6, <1>7, <1>8, <1>9 DEF Session

\* Every step keeps the types of sessions, calls and the environment.
LEMMA ProcessNext ==
    ASSUME LedgerType, ProcessType, ControllerType, [Next]_vars
    PROVE  ProcessType'
  <1>1. CASE UNCHANGED vars
    BY <1>1 DEF vars, runVars, attemptVars, agentVars, ProcessType, Attempts
  <1>2. CASE User
    BY <1>2 DEF User, Start, Cancel, ExpireContent, attemptVars, agentVars, ProcessType, Attempts
  <1>3. ASSUME NEW stopped \in BOOLEAN, NEW lost \in BOOLEAN, Advance(stopped, lost),
               recovering' \subseteq recovering, UNCHANGED faults
        PROVE  ProcessType'
    <2>1. /\ generation' \in {generation, generation + 1}
          /\ session' \in [Attempts' -> SessionStates]
          /\ UNCHANGED <<dispatched, overdue, agent, stop_asked, calls>>
      BY <1>3, AdvanceProcess
    <2>2. Attempts \subseteq Attempts'
      BY <2>1 DEF Attempts, LedgerType
    <2> QED
      BY <1>3, <2>1, <2>2 DEF ProcessType
  <1>4. ASSUME NEW c \in Controllers, Wake(c) \/ ConfirmStop(c)
        PROVE  ProcessType'
    BY <1>3, <1>4 DEF Wake, ConfirmStop
  <1>5. ASSUME NEW g \in Attempts, Recover(g)
        PROVE  ProcessType'
    BY <1>3, <1>5 DEF Recover
  <1>6. ASSUME NEW c \in Controllers,
               \/ Inspect(c) \/ SendStop(c) \/ SendHeld(c) \/ SendUnanswered(c) \/ SendRefused(c)
               \/ RefusalFails(c) \/ RefusalFenced(c) \/ ControllerCrash(c)
        PROVE  ProcessType'
    <2>1. pc[c] = "stop" => target[c] \in Attempts
      BY DEF ControllerType, TargetOK
    <2>2. generation' = generation
      BY <1>6 DEF Inspect, SendStop, SendHeld, SendUnanswered, SendRefused, RefusalFails, RefusalFenced,
         StopFor, ControllerCrash, runVars
    <2>3. UNCHANGED <<dispatched, overdue, agent, session, calls, recovering>>
      BY <1>6 DEF Inspect, SendStop, SendHeld, SendUnanswered, SendRefused, RefusalFails, RefusalFenced,
         StopFor, ControllerCrash, attemptVars, agentVars
    <2>4. stop_asked' \subseteq Attempts
      BY <1>6, <2>1 DEF Inspect, SendStop, SendHeld, SendUnanswered, SendRefused, RefusalFails,
         RefusalFenced, StopFor, ControllerCrash, agentVars, ProcessType
    <2>5. faults' \in 0..MaxFaults
      BY <1>6, FaultType DEF Inspect, SendStop, SendHeld, SendUnanswered, SendRefused, RefusalFails,
         RefusalFenced, StopFor, ControllerCrash, ProcessType
    <2> QED
      BY <2>2, <2>3, <2>4, <2>5 DEF ProcessType, Attempts
  <1>7. ASSUME NEW c \in Controllers, SendAccepted(c) \/ SendReplyLost(c)
        PROVE  ProcessType'
    <2>1. target[c] \in Attempts
      BY <1>7 DEF SendAccepted, SendReplyLost, ControllerType, TargetOK
    <2>2. faults' \in 0..MaxFaults
      BY <1>7, FaultType DEF SendAccepted, SendReplyLost, ProcessType
    <2> QED
      BY <1>7, <2>1, <2>2 DEF SendAccepted, SendReplyLost, StartSession, runVars, attemptVars,
         ProcessType, Attempts, SessionStates
  <1>8. ASSUME NEW c \in Controllers, MarkDispatched(c)
        PROVE  ProcessType'
    <2>1. target[c] \in Attempts
      BY <1>8 DEF MarkDispatched, ControllerType, TargetOK
    <2> QED
      BY <1>8, <2>1 DEF MarkDispatched, runVars, agentVars, ProcessType, Attempts
  <1>9. ASSUME NEW g \in Attempts, Routes(g), ~Recover(g)
        PROVE  ProcessType'
    BY <1>9 DEF Routes, Complete, FailForGood, FailNeedsAttention, FailRetryable, CallFenced, StopFor,
       runVars, attemptVars, agentVars, ProcessType, Attempts
  <1>10. ASSUME NEW g \in Attempts, Session(g) \/ PostAgain(g)
         PROVE  ProcessType'
    BY <1>10, SessionType DEF AgentOnly, runVars, attemptVars, ProcessType, Attempts
  <1>11. ASSUME NEW g \in Attempts, AttemptExpires(g)
         PROVE  ProcessType'
    BY <1>11 DEF AttemptExpires, runVars, agentVars, ProcessType, Attempts
  <1>12. ASSUME NEW g \in Attempts,
                RecoverCrash(g) \/ \E o \in Outcomes : LoseCall(g, o)
         PROVE  ProcessType'
    <2>1. faults' \in 0..MaxFaults
      BY <1>12, FaultType DEF RecoverCrash, LoseCall
    <2> QED
      BY <1>12, <2>1 DEF RecoverCrash, LoseCall, runVars, attemptVars, agentVars, ProcessType, Attempts
  <1>13. CASE AgentRestart \/ \E a \in {"available", "withdrawn", "deleted"} : AgentChanges(a)
    <2>1. faults' \in 0..MaxFaults
      BY <1>13, FaultType DEF AgentRestart, AgentChanges
    <2> QED
      BY <1>13, <2>1 DEF AgentRestart, AgentOnly, AgentChanges, runVars, attemptVars, agentVars,
         SessionStates, ProcessType, Attempts
  <1> QED
    BY <1>1, <1>2, <1>4, <1>5, <1>6, <1>7, <1>8, <1>9, <1>10, <1>11, <1>12, <1>13
       DEF Next, Controller, Faults

\* TypeOK is about the ledger and the processes.
LEMMA TypeParts == LedgerType /\ ProcessType /\ ControllerType => TypeOK
  BY DEF TypeOK, LedgerType, ProcessType, ControllerType, Places

\* The inductive invariant.
Inv == LedgerOK /\ ProcessType /\ ControllerType

\* The inductive invariant holds throughout.
LEMMA Invariant == Spec => []Inv
  <1>1. Init => Inv
    BY LedgerInit, WorkflowAssumption DEF Init, Inv, ProcessType, ControllerType, Places,
       TargetOK, Attempts, SessionStates
  <1>2. Inv /\ [Next]_vars => Inv'
    BY LedgerSteps, LedgerNext, ProcessNext, ControllerNext DEF Inv, LedgerOK, ControllerType
  <1> QED
    BY <1>1, <1>2, PTL DEF Spec

\* Rows, controllers, sessions and calls keep their types; in particular
\* complete() never counts past the last step.
THEOREM TypeCorrect == Spec => []TypeOK
  <1>1. Inv => TypeOK
    BY TypeParts DEF Inv, LedgerOK
  <1> QED
    BY <1>1, Invariant, PTL

\* advance() and complete() keep at most one attempt live: the latest one, for
\* the next step, whatever controllers, late calls and crashes interleave.
THEOREM OneLiveAttempt == Spec => []OnlyCurrentAttemptLive
  <1>1. Inv => OnlyCurrentAttemptLive
    BY DEF Inv, LedgerOK
  <1> QED
    BY <1>1, Invariant, PTL

\* A run is settled exactly when it is terminal, and succeeds exactly when its
\* last step completed.
THEOREM SettlementIsRight == Spec => []SettledMeansFinished
  <1>1. Inv => SettledMeansFinished
    BY DEF Inv, LedgerOK
  <1> QED
    BY <1>1, Invariant, PTL

-----------------------------------------------------------------------------
\* Checkpoints, the attempt budget and what a held run may do.

\* No change of the ledger loses, reorders or replaces a checkpoint.
LEMMA CheckpointsNext ==
    ASSUME LedgerOK, CheckpointsMatchProgress, LedgerStep
    PROVE  CheckpointsMatchProgress'
  <1> USE WorkflowAssumption DEF CheckpointsMatchProgress
  <1>1. CASE UNCHANGED ledger
    BY <1>1 DEF ledger, runVars, Attempts
  <1>2. CASE Start
    BY <1>2 DEF Start, attemptVars, Attempts
  <1>3. CASE ExpireContent
    BY <1>3 DEF ExpireContent
  <1>4. ASSUME NEW expected \in 1..revision, Cancel(expected)
        PROVE  CheckpointsMatchProgress'
    BY <1>4 DEF Cancel, attemptVars, Attempts
  <1>5. ASSUME NEW stopped \in BOOLEAN, NEW lost \in BOOLEAN,
               AdvanceCloses(stopped, lost) \/ AdvanceFences(stopped, lost)
        PROVE  CheckpointsMatchProgress'
    <2>1. UNCHANGED <<content, next_step, checkpoint, generation, step_index>>
      BY <1>5 DEF AdvanceCloses, AdvanceFences
    <2>2. \A g \in Attempts : attempt_state[g] = "COMPLETED" => attempt_state'[g] = "COMPLETED"
      <3>1. CASE AdvanceCloses(stopped, lost)
        BY <3>1 DEF AdvanceCloses, CurrentIsLive, Live, Attempts, LedgerOK, LedgerType
      <3>2. CASE AdvanceFences(stopped, lost)
        BY <3>2 DEF AdvanceFences, CurrentIsLive, Live
      <3> QED
        BY <1>5, <3>1, <3>2
    <2> QED
      BY <2>1, <2>2 DEF Attempts
  <1>6. ASSUME NEW lost \in BOOLEAN, AdvanceStarts(lost)
        PROVE  CheckpointsMatchProgress'
    BY <1>6 DEF AdvanceStarts, Attempts, LedgerOK, LedgerType
  <1>7. ASSUME NEW g \in Attempts, Complete(g)
        PROVE  CheckpointsMatchProgress'
    <2>1. /\ step_index[g] = next_step /\ next_step \in 0..(Steps - 1) /\ run_state = "RUNNING"
      BY <1>7, AdmittedIsCurrent DEF Complete
    <2>2. content = "kept"
      BY <2>1 DEF LedgerOK, LedgerType, ExpiredIsSettled, SettledMeansFinished, Terminal
    <2>3. attempt_state[g] = "REASONING"
      BY <1>7 DEF Complete, Admitted
    <2> QED
      BY <1>7, <2>1, <2>2, <2>3 DEF Complete, Attempts, LedgerOK, LedgerType
  <1>8. ASSUME NEW g \in Attempts, FailRetryable(g)
        PROVE  CheckpointsMatchProgress'
    BY <1>8 DEF FailRetryable, attemptVars, Attempts
  <1>9. ASSUME NEW g \in Attempts, NEW s \in {"FAILED", "BLOCKED"}, Admitted(g), StopFor(g, s)
        PROVE  CheckpointsMatchProgress'
    <2>1. attempt_state[g] = "REASONING"
      BY <1>9 DEF Admitted
    <2> QED
      BY <1>9, <2>1 DEF StopFor, Attempts, LedgerOK, LedgerType
  <1> QED
    BY <1>1, <1>2, <1>3, <1>4, <1>5, <1>6, <1>7, <1>8, <1>9 DEF LedgerStep

\* Completed steps are exactly the first next_step ones, each kept from a
\* completed attempt of that step: none is lost, skipped or replayed.
THEOREM CheckpointsAreKept == Spec => []CheckpointsMatchProgress
  <1>1. Init => CheckpointsMatchProgress
    BY WorkflowAssumption DEF Init, CheckpointsMatchProgress
  <1>2. Inv /\ CheckpointsMatchProgress /\ [Next]_vars => CheckpointsMatchProgress'
    BY LedgerSteps, CheckpointsNext DEF Inv, ControllerType
  <1> QED
    BY <1>1, <1>2, Invariant, PTL DEF Spec

\* The budget: no attempt is for a later step than the next one, and a run
\* that may start an attempt has one left.
BudgetOK ==
    /\ \A g \in Attempts : step_index[g] <= next_step
    /\ AttemptBudget
    /\ run_state \in {"ABSENT", "QUEUED"} => Cardinality(AttemptsOf(next_step)) < MaxAttempts

\* The attempts of a step are finitely many.
LEMMA AttemptsFinite ==
    ASSUME LedgerType, NEW i
    PROVE  IsFiniteSet(AttemptsOf(i)) /\ Cardinality(AttemptsOf(i)) \in Nat
  <1>1. IsFiniteSet(1..generation)
    BY FS_Interval DEF LedgerType
  <1>2. AttemptsOf(i) \subseteq 1..generation
    BY DEF AttemptsOf, Attempts
  <1> QED
    BY <1>1, <1>2, FS_Subset, FS_CardinalityType

\* A change that adds no attempt and keeps next_step keeps every count.
LEMMA BudgetFrame ==
    ASSUME BudgetOK, UNCHANGED <<generation, step_index, next_step>>,
           run_state' \in {"ABSENT", "QUEUED"} =>
               Cardinality(AttemptsOf(next_step)) < MaxAttempts
    PROVE  BudgetOK'
  BY DEF BudgetOK, AttemptBudget, AttemptsOf, Attempts

\* Every change of the ledger keeps the budget.
LEMMA BudgetNext ==
    ASSUME LedgerOK, BudgetOK, LedgerStep
    PROVE  BudgetOK'
  <1> USE WorkflowAssumption
  <1>1. CASE UNCHANGED ledger
    BY <1>1, BudgetFrame DEF ledger, runVars, BudgetOK
  <1>2. CASE Start
    BY <1>2, BudgetFrame DEF Start, attemptVars, BudgetOK
  <1>3. CASE ExpireContent
    BY <1>3, BudgetFrame DEF ExpireContent, attemptVars, BudgetOK
  <1>4. ASSUME NEW expected \in 1..revision, Cancel(expected)
        PROVE  BudgetOK'
    BY <1>4, BudgetFrame DEF Cancel, attemptVars, BudgetOK
  <1>5. ASSUME NEW stopped \in BOOLEAN, NEW lost \in BOOLEAN, AdvanceCloses(stopped, lost)
        PROVE  BudgetOK'
    <2>1. Directed \in {"RUNNING", "PAUSED", "CANCELLING"}
      BY <1>5, FenceOutcome DEF AdvanceCloses
    <2> QED
      BY <1>5, <2>1, BudgetFrame DEF AdvanceCloses
  <1>6. ASSUME NEW stopped \in BOOLEAN, NEW lost \in BOOLEAN, AdvanceFences(stopped, lost)
        PROVE  BudgetOK'
    <2>1. /\ AfterFence(lost) # "ABSENT"
          /\ AfterFence(lost) = "QUEUED" => Cardinality(AttemptsOf(next_step)) < MaxAttempts
      BY <1>6, FenceOutcome DEF AdvanceFences
    <2> QED
      BY <1>6, <2>1, BudgetFrame DEF AdvanceFences
  <1>7. ASSUME NEW lost \in BOOLEAN, AdvanceStarts(lost)
        PROVE  BudgetOK'
    <2> DEFINE h == generation + 1
    <2>1. h \notin Attempts /\ Attempts' = Attempts \cup {h} /\ generation \in Nat
      BY <1>7 DEF AdvanceStarts, Attempts, LedgerOK, LedgerType
    <2>2. step_index'[h] = next_step /\ \A g \in Attempts : step_index'[g] = step_index[g]
      BY <1>7 DEF AdvanceStarts, StepToTry, Attempts, LedgerOK, LedgerType
    <2>3. AttemptsOf(next_step)' = AttemptsOf(next_step) \cup {h}
      BY <1>7, <2>1, <2>2 DEF AttemptsOf, AdvanceStarts
    <2>4. \A i : i # next_step => AttemptsOf(i)' = AttemptsOf(i)
      BY <2>1, <2>2 DEF AttemptsOf
    <2>5. Cardinality(AttemptsOf(next_step))' = Cardinality(AttemptsOf(next_step)) + 1
      <3>1. IsFiniteSet(AttemptsOf(next_step)) /\ h \notin AttemptsOf(next_step)
        BY <2>1, AttemptsFinite DEF AttemptsOf, LedgerOK
      <3> QED
        BY <2>3, <3>1, FS_AddElement
    <2>6. Cardinality(AttemptsOf(next_step))' <= MaxAttempts
      <3>1. Cardinality(AttemptsOf(next_step)) < MaxAttempts
        BY <1>7 DEF AdvanceStarts, BudgetOK
      <3>2. Cardinality(AttemptsOf(next_step)) \in Nat
        BY AttemptsFinite DEF LedgerOK
      <3> QED
        BY <2>5, <3>1, <3>2
    <2>7. AttemptBudget'
      <3>1. next_step' = next_step
        BY <1>7 DEF AdvanceStarts
      <3>2. ASSUME NEW i \in 0..(Steps - 1)
            PROVE  Cardinality(AttemptsOf(i)') <= MaxAttempts
        <4>1. CASE i = next_step
          BY <2>6, <3>1, <4>1
        <4>2. CASE i # next_step
          BY <2>4, <4>2 DEF BudgetOK, AttemptBudget
        <4> QED
          BY <4>1, <4>2
      <3> QED
        BY <3>2 DEF AttemptBudget
    <2>8. run_state' = "RUNNING" /\ next_step' = next_step
      BY <1>7 DEF AdvanceStarts
    <2>9. \A g \in Attempts' : step_index'[g] <= next_step'
      BY <2>1, <2>2, <2>8 DEF BudgetOK, LedgerOK, LedgerType
    <2> QED
      BY <2>7, <2>8, <2>9 DEF BudgetOK
  <1>8. ASSUME NEW g \in Attempts, Complete(g)
        PROVE  BudgetOK'
    <2>1. UNCHANGED <<generation, step_index>> /\ next_step' = next_step + 1
      BY <1>8 DEF Complete
    <2>2. \A i : AttemptsOf(i)' = AttemptsOf(i)
      BY <2>1 DEF AttemptsOf, Attempts
    <2>3. \A h \in Attempts : step_index[h] <= next_step /\ step_index[h] \in Nat
      BY DEF BudgetOK, LedgerOK, LedgerType
    <2>4. AttemptsOf(next_step)' = {}
      BY <2>1, <2>3 DEF AttemptsOf, Attempts, LedgerOK, LedgerType
    <2>5. Cardinality(AttemptsOf(next_step))' = 0
      BY <2>4, FS_EmptySet
    <2>6. AttemptBudget'
      BY <2>2 DEF BudgetOK, AttemptBudget
    <2>7. \A h \in Attempts' : step_index'[h] <= next_step'
      BY <2>1, <2>3 DEF Attempts, LedgerOK, LedgerType
    <2> QED
      BY <2>5, <2>6, <2>7, WorkflowAssumption DEF BudgetOK
  <1>9. ASSUME NEW g \in Attempts, FailRetryable(g)
        PROVE  BudgetOK'
    BY <1>9, BudgetFrame DEF FailRetryable, attemptVars, BudgetOK
  <1>10. ASSUME NEW g \in Attempts, NEW s \in {"FAILED", "BLOCKED"}, Admitted(g), StopFor(g, s)
         PROVE  BudgetOK'
    BY <1>10, BudgetFrame DEF StopFor
  <1> QED
    BY <1>1, <1>2, <1>3, <1>4, <1>5, <1>6, <1>7, <1>8, <1>9, <1>10 DEF LedgerStep

\* Before the first attempt every count is zero.
LEMMA BudgetInit == Init => BudgetOK
  <1>1. ASSUME Init, NEW i
        PROVE  Cardinality(AttemptsOf(i)) = 0
    <2>1. AttemptsOf(i) = {}
      BY <1>1 DEF Init, AttemptsOf, Attempts
    <2> QED
      BY <2>1, FS_EmptySet
  <1> QED
    BY <1>1, WorkflowAssumption DEF Init, BudgetOK, AttemptBudget, Attempts

\* At most MAX_ATTEMPTS attempts of any step are ever admitted, although the
\* count is taken when a retry is queued and not when the attempt starts.
THEOREM AttemptsAreBounded == Spec => []AttemptBudget
  <1>1. Init => BudgetOK
    BY BudgetInit
  <1>2. Inv /\ BudgetOK /\ [Next]_vars => BudgetOK'
    BY LedgerSteps, BudgetNext DEF Inv, ControllerType
  <1>3. BudgetOK => AttemptBudget
    BY DEF BudgetOK
  <1> QED
    BY <1>1, <1>2, <1>3, Invariant, PTL DEF Spec

\* One step of the ledger respects the fence.
HeldStep ==
    /\ run_state \in Terminal => UNCHANGED <<run_state, revision, attempt_state>>
    /\ run_state = "CANCELLING" => run_state' \in {"CANCELLING", "CANCELLED"}
    /\ run_state = "PAUSED" => run_state' \in {"PAUSED", "CANCELLING", "CANCELLED"}
    /\ run_state = "BLOCKED" => run_state' \in {"BLOCKED", "PAUSED", "CANCELLING", "CANCELLED"}
    /\ run_state \notin {"ABSENT", "QUEUED", "RUNNING"} => UNCHANGED <<next_step, generation>>

\* Every step of the ledger respects the fence.
LEMMA HeldNext ==
    ASSUME LedgerOK, LedgerStep
    PROVE  HeldStep
  <1> USE DEF HeldStep, Terminal
  <1>1. CASE UNCHANGED ledger
    BY <1>1 DEF ledger, runVars
  <1>2. CASE Start \/ ExpireContent
    BY <1>2 DEF Start, ExpireContent, attemptVars
  <1>3. ASSUME NEW expected \in 1..revision, Cancel(expected)
        PROVE  HeldStep
    BY <1>3 DEF Cancel
  <1>4. ASSUME NEW stopped \in BOOLEAN, NEW lost \in BOOLEAN, AdvanceCloses(stopped, lost)
        PROVE  HeldStep
    <2>1. run_state \in {"RUNNING", "PAUSED", "CANCELLING"}
      BY <1>4 DEF AdvanceCloses, CurrentIsLive, LedgerOK, LedgerType, OnlyCurrentAttemptLive, Attempts
    <2>2. /\ run_state = "PAUSED" => Directed \in {"PAUSED", "CANCELLING"}
          /\ run_state = "CANCELLING" => Directed = "CANCELLING"
      BY <1>4, FenceOutcome DEF AdvanceCloses
    <2> QED
      BY <1>4, <2>1, <2>2 DEF AdvanceCloses
  <1>5. ASSUME NEW stopped \in BOOLEAN, NEW lost \in BOOLEAN, AdvanceFences(stopped, lost)
        PROVE  HeldStep
    <2>1. /\ run_state \notin Terminal
          /\ run_state = "PAUSED" => AfterFence(lost) \in {"PAUSED", "CANCELLED"}
          /\ run_state = "BLOCKED" => AfterFence(lost) \in {"PAUSED", "CANCELLED"}
          /\ run_state = "CANCELLING" => AfterFence(lost) = "CANCELLED"
      BY <1>5, FenceOutcome DEF AdvanceFences
    <2> QED
      BY <1>5, <2>1 DEF AdvanceFences
  <1>6. ASSUME NEW lost \in BOOLEAN, AdvanceStarts(lost)
        PROVE  HeldStep
    BY <1>6 DEF AdvanceStarts
  <1>7. ASSUME NEW g \in Attempts, Complete(g)
        PROVE  HeldStep
    BY <1>7 DEF Complete, Admitted
  <1>8. ASSUME NEW g \in Attempts, FailRetryable(g)
        PROVE  HeldStep
    BY <1>8 DEF FailRetryable, Admitted
  <1>9. ASSUME NEW g \in Attempts, NEW s \in {"FAILED", "BLOCKED"}, Admitted(g), StopFor(g, s)
        PROVE  HeldStep
    BY <1>9 DEF StopFor, Admitted
  <1> QED
    BY <1>1, <1>2, <1>3, <1>4, <1>5, <1>6, <1>7, <1>8, <1>9 DEF LedgerStep

\* Once a run is cancelling, paused, blocked or settled, no late result, stale
\* controller or restarted Agent makes it progress or brings it back.
THEOREM HeldRunsStayHeld == Spec => NoProgressOnceHeld
  <1>1. Inv /\ [Next]_vars => [HeldStep]_vars
    BY LedgerSteps, HeldNext DEF Inv, ControllerType
  <1> QED
    BY <1>1, Invariant, PTL DEF Spec, NoProgressOnceHeld, HeldStep

\* One step of the ledger moves the revision with the progress.
RevisionStep ==
    /\ revision' >= revision
    /\ <<next_step, generation, settled_at>>' # <<next_step, generation, settled_at>>
           => revision' > revision

\* A run that was never started has no revision yet.
AbsentIsNew == run_state = "ABSENT" => revision = 0

\* No step brings a run back to the time before its start.
LEMMA AbsentNext ==
    ASSUME LedgerOK, AbsentIsNew, LedgerStep
    PROVE  AbsentIsNew'
  <1> USE DEF AbsentIsNew
  <1>1. CASE UNCHANGED ledger
    BY <1>1 DEF ledger, runVars
  <1>2. CASE Start \/ ExpireContent
    BY <1>2 DEF Start, ExpireContent
  <1>3. ASSUME NEW expected \in 1..revision, Cancel(expected)
        PROVE  AbsentIsNew'
    BY <1>3 DEF Cancel
  <1>4. ASSUME NEW stopped \in BOOLEAN, NEW lost \in BOOLEAN, AdvanceCloses(stopped, lost)
        PROVE  AbsentIsNew'
    <2>1. Directed \in {"RUNNING", "PAUSED", "CANCELLING"}
      BY <1>4, FenceOutcome DEF AdvanceCloses
    <2> QED
      BY <1>4, <2>1 DEF AdvanceCloses
  <1>5. ASSUME NEW stopped \in BOOLEAN, NEW lost \in BOOLEAN, AdvanceFences(stopped, lost)
        PROVE  AbsentIsNew'
    <2>1. AfterFence(lost) # "ABSENT"
      BY <1>5, FenceOutcome DEF AdvanceFences
    <2> QED
      BY <1>5, <2>1 DEF AdvanceFences
  <1>6. ASSUME NEW lost \in BOOLEAN, AdvanceStarts(lost)
        PROVE  AbsentIsNew'
    BY <1>6 DEF AdvanceStarts
  <1>7. ASSUME NEW g \in Attempts, Complete(g)
        PROVE  AbsentIsNew'
    BY <1>7 DEF Complete
  <1>8. ASSUME NEW g \in Attempts, FailRetryable(g)
        PROVE  AbsentIsNew'
    BY <1>8 DEF FailRetryable, Admitted
  <1>9. ASSUME NEW g \in Attempts, NEW s \in {"FAILED", "BLOCKED"}, Admitted(g), StopFor(g, s)
        PROVE  AbsentIsNew'
    BY <1>9 DEF StopFor
  <1> QED
    BY <1>1, <1>2, <1>3, <1>4, <1>5, <1>6, <1>7, <1>8, <1>9 DEF LedgerStep

\* Every step of the ledger moves the revision with the progress.
LEMMA RevisionNext ==
    ASSUME LedgerOK, AbsentIsNew, LedgerStep
    PROVE  RevisionStep
  <1> USE DEF RevisionStep, Bump
  <1>0. revision \in Nat
    BY DEF LedgerOK, LedgerType
  <1>1. CASE UNCHANGED ledger
    BY <1>0, <1>1 DEF ledger, runVars
  <1>2. CASE Start
    BY <1>0, <1>2 DEF Start, AbsentIsNew
  <1>3. CASE ExpireContent
    BY <1>0, <1>3 DEF ExpireContent
  <1>4. ASSUME NEW expected \in 1..revision, Cancel(expected)
        PROVE  RevisionStep
    BY <1>0, <1>4 DEF Cancel
  <1>5. ASSUME NEW stopped \in BOOLEAN, NEW lost \in BOOLEAN, AdvanceCloses(stopped, lost)
        PROVE  RevisionStep
    BY <1>0, <1>5 DEF AdvanceCloses
  <1>6. ASSUME NEW stopped \in BOOLEAN, NEW lost \in BOOLEAN, AdvanceFences(stopped, lost)
        PROVE  RevisionStep
    BY <1>0, <1>6 DEF AdvanceFences
  <1>7. ASSUME NEW lost \in BOOLEAN, AdvanceStarts(lost)
        PROVE  RevisionStep
    BY <1>0, <1>7 DEF AdvanceStarts
  <1>8. ASSUME NEW g \in Attempts, Complete(g)
        PROVE  RevisionStep
    BY <1>0, <1>8 DEF Complete
  <1>9. ASSUME NEW g \in Attempts, FailRetryable(g)
        PROVE  RevisionStep
    BY <1>0, <1>9 DEF FailRetryable
  <1>10. ASSUME NEW g \in Attempts, NEW s \in {"FAILED", "BLOCKED"}, Admitted(g), StopFor(g, s)
         PROVE  RevisionStep
    BY <1>0, <1>10 DEF StopFor
  <1> QED
    BY <1>1, <1>2, <1>3, <1>4, <1>5, <1>6, <1>7, <1>8, <1>9, <1>10 DEF LedgerStep

\* The revision a user confirmed identifies the progress the user saw: no
\* checkpoint, attempt or settlement happens without moving it.
THEOREM RevisionIsFaithful == Spec => RevisionTracksProgress
  <1>1. Init => AbsentIsNew
    BY DEF Init, AbsentIsNew
  <1>2. Inv /\ AbsentIsNew /\ [Next]_vars => AbsentIsNew'
    BY LedgerSteps, AbsentNext DEF Inv, ControllerType
  <1>3. Inv /\ AbsentIsNew /\ [Next]_vars => [RevisionStep]_vars
    BY LedgerSteps, RevisionNext DEF Inv, ControllerType
  <1> QED
    BY <1>1, <1>2, <1>3, Invariant, PTL DEF Spec, RevisionTracksProgress, RevisionStep
=============================================================================

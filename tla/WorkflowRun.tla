---------------------------- MODULE WorkflowRun ----------------------------
(***************************************************************************)
(* One workflow run of api/domains/workflows, from its start to settlement. *)
(* A run executes its steps in order; each step is tried by at most          *)
(* MAX_ATTEMPTS attempts, numbered by the run's generation.                  *)
(*                                                                         *)
(* Four kinds of process share the run's rows:                              *)
(*   - the product API: start, cancel, retention;                           *)
(*   - controllers (event workers and the minutely maintenance pass), which *)
(*     call wake(): advance the run, then send the step to the Agent or ask  *)
(*     it to stop;                                                          *)
(*   - the Agent's trigger server, one thread (a session) per step it holds; *)
(*   - the machine routes that receive the sessions' results and failures,   *)
(*     delayed, lost or repeated.                                           *)
(*                                                                         *)
(* Every repository method locks the run row, so it is one step.  fail() of *)
(* a retryable failure is two transactions and so two steps: FailRetryable  *)
(* and Recover.  Time is abstract: an attempt may become overdue at any      *)
(* moment (expires_at <= now).                                              *)
(***************************************************************************)
EXTENDS Naturals, FiniteSets

CONSTANTS
    Steps,         \* number of steps in the pinned version
    MaxAttempts,   \* MAX_ATTEMPTS
    Controllers,   \* threads that may execute wake() concurrently
    Endings,       \* how sessions may end in this instance, of the Outcomes below
    MaxFaults      \* bound: crashes, lost and repeated messages, and changes
                   \* of the Agent's availability, per behaviour

\* What a session posts: a result, unmet criteria (not retryable), a request
\* for a person's attention, or any other failure (retryable).
Outcomes == {"result", "unmet", "attention", "retry"}

ASSUME WorkflowAssumption ==
    /\ Endings \subseteq Outcomes
    /\ Steps \in Nat \ {0}
    /\ MaxAttempts \in Nat \ {0}
    /\ MaxFaults \in Nat

Terminal == {"SUCCEEDED", "FAILED", "CANCELLED"}
RunStates == {"ABSENT", "QUEUED", "RUNNING", "PAUSED", "BLOCKED", "CANCELLING"} \cup Terminal
Live == {"REASONING", "STOPPING"}
AttemptStates == Live \cup {"STOPPED", "COMPLETED"}

SessionStates == {"none", "handoff", "work", "ended"} \cup Outcomes

\* The trigger server holds the attempt in _STEPS.
HeldBy(s) == s \notin {"none", "ended"}

VARIABLES
    run_state, revision, next_step, generation,   \* workflow_run
    settled_at, content,                          \* workflow_run, retention
    checkpoint,      \* per step: the attempt whose result was kept, or 0
    attempt_state, step_index,                    \* workflow_attempt, by generation
    dispatched,      \* attempts with dispatched_at set
    overdue,         \* attempts whose expires_at has passed
    agent,           \* whether the Agent runs and the initiator may use it
    pc, target,      \* each controller's place in wake(), the attempt it inspected
    session,         \* the trigger server's thread for each attempt, if any
    stop_asked,      \* sessions told to stop
    calls,           \* posts in flight from a session to the machine routes
    recovering,      \* fail() calls between their two transactions
    faults           \* disturbances so far

runVars == <<run_state, revision, next_step, generation, settled_at, content, checkpoint>>
attemptVars == <<attempt_state, step_index, dispatched, overdue>>
controllerVars == <<pc, target>>
agentVars == <<session, stop_asked>>
vars == <<runVars, attemptVars, agent, controllerVars, agentVars, calls, recovering, faults>>

Attempts == 1..generation

Init ==
    /\ run_state = "ABSENT" /\ revision = 0 /\ next_step = 0 /\ generation = 0
    /\ settled_at = "null" /\ content = "kept"
    /\ checkpoint = [i \in 0..(Steps - 1) |-> 0]
    /\ attempt_state = [g \in Attempts |-> "STOPPED"]
    /\ step_index = [g \in Attempts |-> 0]
    /\ dispatched = {} /\ overdue = {}
    /\ agent = "available"
    /\ pc = [c \in Controllers |-> "idle"]
    /\ target = [c \in Controllers |-> 0]
    /\ session = [g \in Attempts |-> "none"]
    /\ stop_asked = {}
    /\ calls = {} /\ recovering = {}
    /\ faults = 0

\* Every disturbance is paid for out of one budget.
Fault == faults < MaxFaults /\ faults' = faults + 1

\* Mutant of Bump: the revision stays.
NoBump == revision' = revision

\* Every recorded transition moves the revision.
Bump == revision' = revision + 1

\* Mutant of Settled: a failed run is left unsettled.
SettledUnlessFailed(s) == IF s \in Terminal \ {"FAILED"} THEN "set" ELSE settled_at

\* _settle(): the value of settled_at once the run is in state s.
Settled(s) == IF s \in Terminal THEN "set" ELSE settled_at

-----------------------------------------------------------------------------
\* The product API.

\* start(), after the service found the Agent running; a retry of the same
\* request returns the existing run.
Start ==
    /\ run_state = "ABSENT"
    /\ agent = "available"
    /\ run_state' = "QUEUED"
    /\ revision' = 1
    /\ UNCHANGED <<next_step, generation, settled_at, content, checkpoint,
                   attemptVars, agent, controllerVars, agentVars, calls, recovering, faults>>

\* cancel(): refused unless the caller saw the current revision.
Cancel(expected) ==
    /\ run_state \notin Terminal \cup {"ABSENT", "CANCELLING"}
    /\ agent # "deleted"
    /\ expected = revision
    /\ run_state' = "CANCELLING"
    /\ Bump
    /\ UNCHANGED <<next_step, generation, settled_at, content, checkpoint,
                   attemptVars, agent, controllerVars, agentVars, calls, recovering, faults>>

\* expire_content(): the retention pass over runs settled long ago.
ExpireContent ==
    /\ settled_at = "set" /\ content = "kept"
    /\ content' = "expired"
    /\ checkpoint' = [i \in 0..(Steps - 1) |-> 0]
    /\ UNCHANGED <<run_state, revision, next_step, generation, settled_at,
                   attemptVars, agent, controllerVars, agentVars, calls, recovering, faults>>

\* The Agent stops or starts, the initiator loses or regains authority, the
\* Agent is deleted for good.
AgentChanges(a) ==
    /\ Fault
    /\ agent # "deleted" /\ a # agent
    /\ agent' = a
    /\ UNCHANGED <<runVars, attemptVars, controllerVars, agentVars, calls, recovering>>

\* expires_at passes.  It is read for a live attempt only.
AttemptExpires(g) ==
    /\ g \notin overdue /\ attempt_state[g] \in Live
    /\ overdue' = overdue \cup {g}
    /\ UNCHANGED <<runVars, attempt_state, step_index, dispatched, agent,
                   controllerVars, agentVars, calls, recovering, faults>>

-----------------------------------------------------------------------------
\* advance(stopped, lost): all progression of a run.

Authorized == agent = "available"

\* Mutant of CurrentIsLive: forgets attempts that are still stopping.
CurrentIsReasoning == generation > 0 /\ attempt_state[generation] = "REASONING"

CurrentIsLive == generation > 0 /\ attempt_state[generation] \in Live

\* The state the run must be in before progression is considered.
Directed ==
    IF agent = "deleted" THEN "CANCELLING"
    ELSE IF ~Authorized /\ run_state # "CANCELLING" THEN "PAUSED"
    ELSE run_state

\* Mutant of Expired: a deadline that passed is not noticed.
ExpiredUnlessOverdue(lost) ==
    CurrentIsLive /\ (lost \/ attempt_state[generation] = "STOPPING")

Expired(lost) ==
    /\ CurrentIsLive
    /\ generation \in overdue \/ lost \/ attempt_state[generation] = "STOPPING"

MustFence(lost) == Directed \in {"CANCELLING", "PAUSED"} \/ Expired(lost)

\* A settled run, or one paused with nothing left to stop.
NothingToAdvance ==
    \/ run_state \in Terminal
    \/ run_state = "PAUSED" /\ agent # "deleted" /\ ~CurrentIsLive

AttemptsOf(i) == {g \in Attempts : step_index[g] = i}

\* Mutant of Retry: off by one.
RetryOnceMore == IF Cardinality(AttemptsOf(next_step)) <= MaxAttempts THEN "QUEUED" ELSE "FAILED"

Retry == IF Cardinality(AttemptsOf(next_step)) < MaxAttempts THEN "QUEUED" ELSE "FAILED"

\* Mutant of AfterFence: an attempt that ran out of time is not tried again.
AfterFenceGivesUp(lost) ==
    IF Directed = "CANCELLING" THEN "CANCELLED"
    ELSE IF Expired(lost) /\ Authorized /\ Directed # "PAUSED"
    THEN IF generation \in overdue THEN "FAILED" ELSE Retry
    ELSE Directed

\* The state of a run whose attempt, if there was one, has stopped.
AfterFence(lost) ==
    IF Directed = "CANCELLING" THEN "CANCELLED"
    ELSE IF Expired(lost) /\ Authorized /\ Directed # "PAUSED" THEN Retry
    ELSE Directed

AdvanceReturns(lost) ==
    /\ NothingToAdvance \/ (~MustFence(lost) /\ run_state # "QUEUED")
    /\ UNCHANGED <<runVars, attempt_state, step_index, session>>

\* Close admission first: the attempt is STOPPING until its stop is confirmed.
AdvanceCloses(stopped, lost) ==
    /\ ~NothingToAdvance /\ MustFence(lost)
    /\ CurrentIsLive /\ ~stopped
    /\ run_state' = Directed
    /\ attempt_state' = [attempt_state EXCEPT ![generation] = "STOPPING"]
    /\ UNCHANGED <<revision, next_step, generation, settled_at, content, checkpoint,
                   step_index, session>>

AdvanceFences(stopped, lost) ==
    /\ ~NothingToAdvance /\ MustFence(lost)
    /\ CurrentIsLive => stopped
    /\ run_state' = AfterFence(lost)
    /\ settled_at' = Settled(AfterFence(lost))
    /\ Bump
    /\ attempt_state' = [g \in Attempts |->
           IF g = generation /\ CurrentIsLive THEN "STOPPED" ELSE attempt_state[g]]
    /\ UNCHANGED <<next_step, generation, content, checkpoint, step_index, session>>

\* Mutants of StepToTry: the step after the next one; the first step again.
StepAhead == next_step + 1
StepAgain == 0

\* The step a new attempt is for.
StepToTry == next_step

AdvanceStarts(lost) ==
    /\ ~NothingToAdvance /\ ~MustFence(lost)
    /\ run_state = "QUEUED"
    /\ run_state' = "RUNNING"
    /\ generation' = generation + 1
    /\ Bump
    /\ attempt_state' = [g \in 1..(generation + 1) |->
           IF g = generation + 1 THEN "REASONING" ELSE attempt_state[g]]
    /\ step_index' = [g \in 1..(generation + 1) |->
           IF g = generation + 1 THEN StepToTry ELSE step_index[g]]
    /\ session' = [g \in 1..(generation + 1) |->
           IF g = generation + 1 THEN "none" ELSE session[g]]
    /\ UNCHANGED <<next_step, settled_at, content, checkpoint>>

Advance(stopped, lost) ==
    /\ \/ AdvanceReturns(lost)
       \/ AdvanceCloses(stopped, lost)
       \/ AdvanceFences(stopped, lost)
       \/ AdvanceStarts(lost)
    /\ UNCHANGED <<dispatched, overdue, agent, stop_asked, calls>>

-----------------------------------------------------------------------------
\* wake(): one controller c.

Goto(c, place, g) ==
    /\ pc' = [pc EXCEPT ![c] = place]
    /\ target' = [target EXCEPT ![c] = g]

\* A delivered workflow.run.changed event or the maintenance pass.
Wake(c) ==
    /\ pc[c] = "idle"
    /\ run_state \notin Terminal \cup {"ABSENT"}
    /\ Advance(FALSE, FALSE)
    /\ Goto(c, "inspect", 0)
    /\ UNCHANGED <<recovering, faults>>

\* Mutant of StopPlace: an attempt the Agent never accepted is not stopped.
StopPlaceIfAccepted == IF generation \in dispatched THEN "stop" ELSE "idle"

\* The Agent is told to stop only an attempt that it is known to hold.
StopPlace == IF generation \in dispatched THEN "stop" ELSE "confirm"

\* Everything after this acts on what this unlocked read returned.
Inspect(c) ==
    /\ pc[c] = "inspect"
    /\ IF generation > 0 /\ attempt_state[generation] = "STOPPING"
       THEN Goto(c, StopPlace, generation)
       ELSE IF /\ generation > 0 /\ attempt_state[generation] = "REASONING"
               /\ run_state = "RUNNING"
               /\ generation \notin dispatched \cup overdue
       THEN Goto(c, "send", generation)
       ELSE Goto(c, "idle", 0)
    /\ UNCHANGED <<runVars, attemptVars, agent, agentVars, calls, recovering, faults>>

\* The stop is best effort: confirm follows whether or not the Agent got it.
SendStop(c) ==
    /\ pc[c] = "stop"
    /\ Goto(c, "confirm", target[c])
    /\ stop_asked' \in {stop_asked,
           IF HeldBy(session[target[c]]) THEN stop_asked \cup {target[c]} ELSE stop_asked}
    /\ UNCHANGED <<runVars, attemptVars, agent, session, calls, recovering, faults>>

\* advance(stopped=True): it names the run, not the attempt that was stopped.
ConfirmStop(c) ==
    /\ pc[c] = "confirm"
    /\ Advance(TRUE, FALSE)
    /\ Goto(c, "idle", 0)
    /\ UNCHANGED <<recovering, faults>>

\* start_workflow_step(): refused only while the attempt is still in _STEPS.
StartSession(g) ==
    /\ ~HeldBy(session[g])
    /\ session' = [session EXCEPT ![g] = "handoff"]
    /\ UNCHANGED stop_asked

SendAccepted(c) ==          \* 202
    /\ pc[c] = "send"
    /\ StartSession(target[c])
    /\ Goto(c, "mark", target[c])
    /\ UNCHANGED <<runVars, attemptVars, agent, calls, recovering, faults>>

SendHeld(c) ==              \* 409
    /\ pc[c] = "send"
    /\ HeldBy(session[target[c]])
    /\ Goto(c, "mark", target[c])
    /\ UNCHANGED <<runVars, attemptVars, agent, agentVars, calls, recovering, faults>>

SendReplyLost(c) ==         \* the Agent started the step, the reply was lost
    /\ Fault
    /\ pc[c] = "send"
    /\ StartSession(target[c])
    /\ Goto(c, "idle", 0)
    /\ UNCHANGED <<runVars, attemptVars, agent, calls, recovering>>

SendUnanswered(c) ==        \* unreachable, or a rejection worth retrying
    /\ pc[c] = "send"
    /\ Goto(c, "idle", 0)
    /\ UNCHANGED <<runVars, attemptVars, agent, agentVars, calls, recovering, faults>>

SendRefused(c) ==           \* another client error after the grace period
    /\ pc[c] = "send"
    /\ Goto(c, "refused", target[c])
    /\ UNCHANGED <<runVars, attemptVars, agent, agentVars, calls, recovering, faults>>

MarkDispatched(c) ==
    /\ pc[c] = "mark"
    /\ dispatched' = dispatched \cup {target[c]}
    /\ Goto(c, "idle", 0)
    /\ UNCHANGED <<runVars, attempt_state, step_index, overdue, agent, agentVars,
                   calls, recovering, faults>>

ControllerCrash(c) ==
    /\ Fault
    /\ pc[c] # "idle"
    /\ Goto(c, "idle", 0)
    /\ UNCHANGED <<runVars, attemptVars, agent, agentVars, calls, recovering>>

-----------------------------------------------------------------------------
\* The machine routes.

\* Mutant of Admitted: the state of the run is not checked.
AdmittedWhateverRun(g) ==
    /\ attempt_state[g] = "REASONING"
    /\ generation = g
    /\ g \notin overdue
    /\ Authorized

\* _fenced_attempt(): the attempt may still act for the run.
Admitted(g) ==
    /\ run_state = "RUNNING"
    /\ attempt_state[g] = "REASONING"
    /\ generation = g
    /\ g \notin overdue
    /\ Authorized

\* complete(): checkpoint, progression and settlement in one transaction.
Complete(g) ==
    /\ <<g, "result">> \in calls
    /\ Admitted(g)
    /\ calls' = calls \ {<<g, "result">>}
    /\ checkpoint' = [checkpoint EXCEPT ![step_index[g]] = g]
    /\ attempt_state' = [attempt_state EXCEPT ![g] = "COMPLETED"]
    /\ next_step' = next_step + 1
    /\ Bump
    /\ run_state' = IF next_step + 1 = Steps THEN "SUCCEEDED" ELSE "QUEUED"
    /\ settled_at' = Settled(IF next_step + 1 = Steps THEN "SUCCEEDED" ELSE "QUEUED")
    /\ UNCHANGED <<generation, content, step_index, dispatched, overdue, agent,
                   controllerVars, agentVars, recovering, faults>>

\* The writes of fail() for a failure that no retry follows.
StopFor(g, s) ==
    /\ run_state' = s
    /\ settled_at' = Settled(s)
    /\ Bump
    /\ attempt_state' = [attempt_state EXCEPT ![g] = "STOPPED"]
    /\ UNCHANGED <<next_step, generation, content, checkpoint, step_index, dispatched,
                   overdue, agent, agentVars, recovering, faults>>

FailForGood(g) ==
    /\ <<g, "unmet">> \in calls
    /\ Admitted(g)
    /\ calls' = calls \ {<<g, "unmet">>}
    /\ StopFor(g, "FAILED")
    /\ UNCHANGED controllerVars

FailNeedsAttention(g) ==
    /\ <<g, "attention">> \in calls
    /\ Admitted(g)
    /\ calls' = calls \ {<<g, "attention">>}
    /\ StopFor(g, "BLOCKED")
    /\ UNCHANGED controllerVars

\* First transaction of a retryable failure: history only.
FailRetryable(g) ==
    /\ <<g, "retry">> \in calls
    /\ Admitted(g)
    /\ calls' = calls \ {<<g, "retry">>}
    /\ Bump
    /\ recovering' = recovering \cup {g}
    /\ UNCHANGED <<run_state, next_step, generation, settled_at, content, checkpoint,
                   attemptVars, agent, controllerVars, agentVars, faults>>

\* Second transaction: advance(stopped=True, lost=True), again by run.
Recover(g) ==
    /\ g \in recovering
    /\ recovering' = recovering \ {g}
    /\ Advance(TRUE, TRUE)
    /\ UNCHANGED <<controllerVars, faults>>

\* The API process dies between the two.
RecoverCrash(g) ==
    /\ Fault
    /\ g \in recovering
    /\ recovering' = recovering \ {g}
    /\ UNCHANGED <<runVars, attemptVars, agent, controllerVars, agentVars, calls>>

\* The controller reports a definitive refusal with fail(); a fenced attempt
\* raises a conflict instead.
RefusalFails(c) ==
    /\ pc[c] = "refused"
    /\ Admitted(target[c])
    /\ StopFor(target[c], "FAILED")
    /\ Goto(c, "idle", 0)
    /\ UNCHANGED calls

RefusalFenced(c) ==
    /\ pc[c] = "refused"
    /\ ~Admitted(target[c])
    /\ Goto(c, "idle", 0)
    /\ UNCHANGED <<runVars, attemptVars, agent, agentVars, calls, recovering, faults>>

\* A fenced call is answered 409; an exact duplicate result is acknowledged.
CallFenced(g, o) ==
    /\ <<g, o>> \in calls
    /\ ~Admitted(g)
    /\ calls' = calls \ {<<g, o>>}
    /\ UNCHANGED <<runVars, attemptVars, agent, controllerVars, agentVars, recovering, faults>>

LoseCall(g, o) ==
    /\ Fault
    /\ <<g, o>> \in calls
    /\ calls' = calls \ {<<g, o>>}
    /\ UNCHANGED <<runVars, attemptVars, agent, controllerVars, agentVars, recovering>>

-----------------------------------------------------------------------------
\* _run_workflow_step(): the session of attempt g on the Agent.

\* Only a post for a REASONING attempt can have an effect: others, which
\* every route refuses, are answered on the spot.
Posted(g, o) == IF attempt_state[g] = "REASONING" THEN calls \cup {<<g, o>>} ELSE calls

Post(g, o) ==
    /\ session' = [session EXCEPT ![g] = o]
    /\ calls' = Posted(g, o)
    /\ UNCHANGED stop_asked

\* _STEPS.pop(), with the stop flag the entry carries.
EndSession(g) ==
    /\ session' = [session EXCEPT ![g] = "ended"]
    /\ stop_asked' = stop_asked \ {g}
    /\ UNCHANGED calls

\* _report_failure(): silent for a session that was told to stop.
ReportFailure(g, o) == IF g \in stop_asked THEN EndSession(g) ELSE Post(g, o)

AgentOnly ==
    UNCHANGED <<runVars, attemptVars, agent, controllerVars, recovering>>

\* admit() hands the step over, or refuses (fenced, or too much context).
Handoff(g) ==
    /\ session[g] = "handoff"
    /\ Admitted(g)
    /\ session' = [session EXCEPT ![g] = "work"]
    /\ AgentOnly /\ UNCHANGED <<stop_asked, calls, faults>>

HandoffRefused(g) ==
    /\ session[g] = "handoff"
    /\ ReportFailure(g, "retry")
    /\ AgentOnly /\ UNCHANGED faults

SessionReplies(g) ==
    /\ session[g] = "work"
    /\ \E o \in {"result", "unmet"} \cap Endings : Post(g, o)
    /\ AgentOnly /\ UNCHANGED faults

SessionFails(g) ==
    /\ session[g] = "work"
    /\ \E o \in {"attention", "retry"} \cap Endings : ReportFailure(g, o)
    /\ AgentOnly /\ UNCHANGED faults

\* A post of a reply that is refused or times out raises and is reported as
\* a failure, even if the first post is still on its way or was accepted.
PostRaises(g) ==
    /\ session[g] \in {"result", "unmet"}
    /\ ReportFailure(g, "retry")
    /\ AgentOnly /\ UNCHANGED faults

\* The post returned, or the report of a failure was given up.
SessionEnds(g) ==
    /\ session[g] \in Outcomes
    /\ session[g] \in {"result", "unmet"} => <<g, session[g]>> \notin calls
    /\ EndSession(g)
    /\ AgentOnly /\ UNCHANGED faults

\* _post_json() repeats a post whose answer did not arrive.
PostAgain(g) ==
    /\ Fault
    /\ session[g] \in Outcomes
    /\ calls' = Posted(g, session[g])
    /\ AgentOnly /\ UNCHANGED agentVars

\* _STEPS is process-local: a pod restart ends every session.
AgentRestart ==
    /\ Fault
    /\ \E g \in Attempts : HeldBy(session[g])
    /\ session' = [g \in Attempts |-> IF HeldBy(session[g]) THEN "ended" ELSE session[g]]
    /\ stop_asked' = {}
    /\ AgentOnly /\ UNCHANGED calls

-----------------------------------------------------------------------------
User ==
    \/ Start
    \/ \E expected \in 1..revision : Cancel(expected)
    \/ ExpireContent

Controller(c) ==
    \/ Inspect(c) \/ SendStop(c) \/ ConfirmStop(c)
    \/ SendAccepted(c) \/ SendHeld(c) \/ SendUnanswered(c) \/ SendRefused(c)
    \/ MarkDispatched(c) \/ RefusalFails(c) \/ RefusalFenced(c)

Routes(g) ==
    \/ Complete(g) \/ FailForGood(g) \/ FailNeedsAttention(g)
    \/ FailRetryable(g) \/ Recover(g)
    \/ \E o \in Outcomes : CallFenced(g, o)

Session(g) ==
    \/ Handoff(g) \/ HandoffRefused(g) \/ SessionReplies(g) \/ SessionFails(g)
    \/ PostRaises(g) \/ SessionEnds(g)

Faults ==
    \/ \E a \in {"available", "withdrawn", "deleted"} : AgentChanges(a)
    \/ \E c \in Controllers : SendReplyLost(c) \/ ControllerCrash(c)
    \/ \E g \in Attempts : RecoverCrash(g) \/ PostAgain(g)
    \/ \E g \in Attempts, o \in Outcomes : LoseCall(g, o)
    \/ AgentRestart

Next ==
    \/ User
    \/ \E c \in Controllers : Wake(c) \/ Controller(c)
    \/ \E g \in Attempts : AttemptExpires(g) \/ Routes(g) \/ Session(g)
    \/ Faults

Spec == Init /\ [][Next]_vars

\* The maintenance pass wakes an active run every minute and time passes.
\* Nothing is assumed of the Agent, of its callbacks or of event delivery.
Fairness ==
    /\ \A c \in Controllers : WF_vars(Wake(c)) /\ WF_vars(Controller(c))
    /\ WF_vars(\E g \in Attempts : AttemptExpires(g))

FairSpec == Spec /\ Fairness

-----------------------------------------------------------------------------
\* Properties.

\* Type correctness of the rows, the controllers, the sessions and the calls.
TypeOK ==
    /\ run_state \in RunStates
    /\ revision \in Nat /\ next_step \in 0..Steps /\ generation \in Nat
    /\ settled_at \in {"null", "set"} /\ content \in {"kept", "expired"}
    /\ checkpoint \in [0..(Steps - 1) -> 0..generation]
    /\ attempt_state \in [Attempts -> AttemptStates]
    /\ step_index \in [Attempts -> 0..(Steps - 1)]
    /\ dispatched \subseteq Attempts /\ overdue \subseteq Attempts
    /\ agent \in {"available", "withdrawn", "deleted"}
    /\ pc \in [Controllers -> {"idle", "inspect", "stop", "confirm", "send", "mark", "refused"}]
    /\ target \in [Controllers -> 0..generation]
    /\ session \in [Attempts -> SessionStates]
    /\ stop_asked \subseteq Attempts
    /\ calls \subseteq (Attempts \X Outcomes) /\ recovering \subseteq Attempts
    /\ faults \in 0..MaxFaults

\* advance() and complete(): completed steps are exactly the first next_step
\* ones, each kept from a completed attempt of that very step, until retention
\* removes them; "completed steps are never replayed".
CheckpointsMatchProgress ==
    \A i \in 0..(Steps - 1) :
        IF content = "expired" \/ i >= next_step THEN checkpoint[i] = 0
        ELSE /\ checkpoint[i] \in Attempts
             /\ attempt_state[checkpoint[i]] = "COMPLETED"
             /\ step_index[checkpoint[i]] = i

\* advance() serialises all progression: only the latest attempt can be live,
\* it is for the next step, and only while the run is running or winding down.
OnlyCurrentAttemptLive ==
    \A g \in Attempts : attempt_state[g] \in Live =>
        /\ g = generation
        /\ step_index[g] = next_step
        /\ run_state \in {"RUNNING", "PAUSED", "CANCELLING"}

\* _settle(): settled_at is set exactly in a terminal state, success means
\* that every step completed, and a running run has a live attempt.
SettledMeansFinished ==
    /\ settled_at = "set" <=> run_state \in Terminal
    /\ run_state = "SUCCEEDED" <=> next_step = Steps
    /\ run_state = "RUNNING" => attempt_state[generation] \in Live

\* advance(): at most MAX_ATTEMPTS attempts of any step are ever admitted.
AttemptBudget ==
    \A i \in 0..(Steps - 1) : Cardinality(AttemptsOf(i)) <= MaxAttempts

\* Fencing: a run that is cancelling, paused, blocked or settled neither takes
\* a result nor starts an attempt, and leaves that state only towards
\* cancellation (a blocked one may also be paused); an Agent's restart does
\* not resume it.
NoProgressOnceHeld ==
    [][/\ run_state \in Terminal => UNCHANGED <<run_state, revision, attempt_state>>
       /\ run_state = "CANCELLING" => run_state' \in {"CANCELLING", "CANCELLED"}
       /\ run_state = "PAUSED" => run_state' \in {"PAUSED", "CANCELLING", "CANCELLED"}
       /\ run_state = "BLOCKED" => run_state' \in {"BLOCKED", "PAUSED", "CANCELLING", "CANCELLED"}
       /\ run_state \notin {"ABSENT", "QUEUED", "RUNNING"} =>
              UNCHANGED <<next_step, generation>>]_vars

\* The optimistic lock of cancel(): progress and settlement always move the
\* revision, so a cancel confirmed on an old screen never hits newer progress.
RevisionTracksProgress ==
    [][/\ revision' >= revision
       /\ <<next_step, generation, settled_at>>' # <<next_step, generation, settled_at>>
              => revision' > revision]_vars

\* The refinement mapping: a queued or running run is open, and the live
\* attempt holds it until its stop is confirmed.
PhaseOf(s) ==
    CASE s = "ABSENT" -> "none"
      [] s \in {"QUEUED", "RUNNING"} -> "open"
      [] s \in {"PAUSED", "BLOCKED"} -> "held"
      [] s = "CANCELLING" -> "cancelling"
      [] s = "SUCCEEDED" -> "succeeded"
      [] s = "FAILED" -> "failed"
      [] s = "CANCELLED" -> "cancelled"

Holder == IF generation > 0 /\ attempt_state[generation] \in Live THEN generation ELSE 0

Closing == generation > 0 /\ attempt_state[generation] = "STOPPING"

Ledger == INSTANCE RunLedger WITH
    phase <- PhaseOf(run_state), kept <- checkpoint, done <- next_step,
    last <- generation, holder <- Holder, fenced <- Closing,
    tries <- Cardinality(AttemptsOf(next_step))

\* The run, with its concurrent controllers, sessions, late calls, crashes and
\* deadlines, implements the ledger of one holder at a time: steps complete in
\* order, each from the attempt that held the run with its admission open, within
\* the attempts of a step, and never once the run is held, cancelling or settled.
RunImplementsLedger == Ledger!LedgerSpec

\* The scheduled pass recovers missed wakeups: whatever the Agent does, a
\* started run ends, or is parked for a person (paused or blocked).
RunSettlesOrParks ==
    run_state = "QUEUED" ~> run_state \in Terminal \cup {"PAUSED", "BLOCKED"}

\* A cancellation completes, without the Agent's help.
CancellationCompletes ==
    run_state = "CANCELLING" ~> run_state = "CANCELLED"

\* docs/features/agent-workflows.md: "Each attempt is sent at most once".
\* Violated: the trigger server forgets an attempt when its session ends.
AttemptStartedOnce ==
    [][\A g \in Attempts : session[g] = "ended" => session'[g] = "ended"]_vars
=============================================================================

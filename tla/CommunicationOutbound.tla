----------------------- MODULE CommunicationOutbound -----------------------
(***************************************************************************)
(* The outbound half of api/domains/communications: the replies of one      *)
(* conversation (one ordering key of one Communication Connection), claimed  *)
(* by the outbound thread of each Communications replica, handed to the      *)
(* Platform Plugin and completed, retried, dead-lettered or cancelled.       *)
(*                                                                         *)
(* Every guard of claim_next_outbound that looks at other rows looks only    *)
(* at rows of the same conversation, so one conversation is the whole story. *)
(* A row is an index of out, whose order is the (created_at, id) order: posts  *)
(* are taken to commit in the order in which they were stamped.               *)
(* Time is abstract: a claim lease is "live" or "expired", a backoff has      *)
(* ended or has not.                                                        *)
(***************************************************************************)
EXTENDS Naturals, Sequences, FiniteSets

CONSTANTS
    Keys,          \* idempotency keys the runtime may post replies under
    Processors,    \* outbound threads, one per Communications replica
    MaxAttempts,   \* complete_outbound's max_attempts
    MaxFaults      \* bound: failed sends, deaths, overruns and switch-offs

ASSUME OutboundAssumption == MaxAttempts \in Nat \ {0} /\ MaxFaults \in Nat

Blocking == {"PENDING", "PROCESSING", "DEAD_LETTERED"}
OutStatuses == Blocking \cup {"SUCCEEDED", "CANCELLED"}

\* attempt_count is only compared with max_attempts, so it saturates there.
OutRows == [key : Keys, status : OutStatuses, attempt_count : 0..MaxAttempts,
            due : BOOLEAN, lease : {"none", "live", "expired"}]

\* What a finished plugin.send leaves for complete_outbound.
Answers == {"none", "message_id", "retryable", "fatal"}

VARIABLES
    out,         \* the conversation's outbound rows, in creation order
    connection,  \* "enabled", "disabled" or "retired"
    pc,          \* where each processor is in process_one, or "dead"
    held,        \* the row each processor claimed (0 when none)
    answer,      \* what the send of that row returned
    shown,       \* history: keys in the order the provider first took them
    faults       \* faults so far

processorVars == <<pc, held, answer>>
vars == <<out, connection, processorVars, shown, faults>>

Init ==
    /\ out = <<>>
    /\ connection = "enabled"
    /\ pc = [p \in Processors |-> "idle"]
    /\ held = [p \in Processors |-> 0]
    /\ answer = [p \in Processors |-> "none"]
    /\ shown = <<>>
    /\ faults = 0

Fault == faults < MaxFaults /\ faults' = faults + 1

-----------------------------------------------------------------------------
\* The runtime posts a reply.

\* Mutant of NewRow: a reply is queued UNAVAILABLE, as an inbound message is
\* while the Agent is stopped.
NewRowUnavailable(k) ==
    [key |-> k, status |-> "UNAVAILABLE", attempt_count |-> 0,
     due |-> TRUE, lease |-> "none"]

NewRow(k) == [key |-> k, status |-> "PENDING", attempt_count |-> 0,
              due |-> TRUE, lease |-> "none"]

\* A row with the reply's idempotency key exists already.
KnownKey(k) == \E i \in 1..Len(out) : out[i].key = k

\* enqueue_runtime_reply.  A repeated post returns the existing row.
Reply(k) ==
    /\ ~ KnownKey(k)
    /\ out' = Append(out, NewRow(k))
    /\ UNCHANGED <<connection, processorVars, shown, faults>>

-----------------------------------------------------------------------------
\* process_one: claim, send, complete.

\* Mutant of Reclaimed: expired claims are left alone.
ReclaimedNever == out

\* The update that opens claim_next_outbound: expired claims become PENDING
\* again, their attempts as they were.
Reclaimed ==
    [i \in 1..Len(out) |->
        IF out[i].status = "PROCESSING" /\ out[i].lease = "expired"
        THEN [out[i] EXCEPT !.status = "PENDING", !.lease = "none"]
        ELSE out[i]]

\* Mutant of Overtakes: a dead-lettered reply no longer holds the others back.
OvertakesDeadLetter(rows, i) ==
    \E j \in 1..(i - 1) : rows[j].status \in {"PENDING", "PROCESSING"}

\* A row created before row i is pending, in flight or dead-lettered.
Overtakes(rows, i) == \E j \in 1..(i - 1) : rows[j].status \in Blocking

Claimable(rows, i) ==
    /\ connection = "enabled"
    /\ rows[i].status = "PENDING"
    /\ rows[i].due
    /\ ~ Overtakes(rows, i)

Claimed(r) ==
    [r EXCEPT !.status = "PROCESSING", !.lease = "live",
              !.attempt_count = IF @ < MaxAttempts THEN @ + 1 ELSE @]

\* claim_next_outbound finds a row: reclaim and claim are one transaction.
Claim(p, i) ==
    /\ pc[p] = "idle"
    /\ Claimable(Reclaimed, i)
    /\ out' = [Reclaimed EXCEPT ![i] = Claimed(@)]
    /\ pc' = [pc EXCEPT ![p] = "sending"]
    /\ held' = [held EXCEPT ![p] = i]
    /\ UNCHANGED <<connection, answer, shown, faults>>

\* claim_next_outbound finds none: the reclaim is committed all the same.
ClaimNothing(p) ==
    /\ pc[p] = "idle"
    /\ \A i \in 1..Len(out) : ~ Claimable(Reclaimed, i)
    /\ Reclaimed # out
    /\ out' = Reclaimed
    /\ UNCHANGED <<connection, processorVars, shown, faults>>

Answered(p, a) ==
    /\ pc' = [pc EXCEPT ![p] = "sent"]
    /\ answer' = [answer EXCEPT ![p] = a]
    /\ UNCHANGED <<out, connection, held>>

\* The provider takes a reply; only its first appearance is recorded.
Show(k) ==
    shown' = IF \E i \in 1..Len(shown) : shown[i] = k THEN shown ELSE Append(shown, k)

\* plugin.send returns a provider message id.  The Connection was enabled
\* when it was looked up after the claim; it may have changed since.
Send(p) ==
    /\ pc[p] = "sending"
    /\ Show(out[held[p]].key)
    /\ Answered(p, "message_id")
    /\ UNCHANGED faults

\* The Connection was disabled or retired after the claim, or the delivery
\* could not be prepared: the error is retryable unless normalised otherwise.
Unsendable(p) ==
    /\ pc[p] = "sending"
    /\ connection # "enabled"
    /\ \E a \in {"retryable", "fatal"} : Answered(p, a)
    /\ UNCHANGED <<shown, faults>>

\* plugin.send raises, the provider having taken the message or not.
SendFails(p) ==
    /\ pc[p] = "sending"
    /\ Fault
    /\ \/ Show(out[held[p]].key)
       \/ UNCHANGED shown
    /\ \E a \in {"retryable", "fatal"} : Answered(p, a)

\* Mutant of Completion: a send that raised completes the row as delivered.
CompletionAlways(r, a) == [r EXCEPT !.lease = "none", !.status = "SUCCEEDED"]

\* _apply_completion for an outbound row (whose cancel_requested_at is null).
Completion(r, a) ==
    [r EXCEPT
        !.lease = "none",
        !.status = CASE a = "message_id" -> "SUCCEEDED"
                     [] a = "fatal" -> "DEAD_LETTERED"
                     [] a = "retryable" /\ r.attempt_count >= MaxAttempts -> "DEAD_LETTERED"
                     [] OTHER -> "PENDING",
        !.due = ~ (a = "retryable" /\ r.attempt_count < MaxAttempts)]

Finished(p) ==
    /\ pc' = [pc EXCEPT ![p] = "idle"]
    /\ held' = [held EXCEPT ![p] = 0]
    /\ answer' = [answer EXCEPT ![p] = "none"]

\* complete_outbound: by row id, and only a row that is PROCESSING, whoever
\* claimed it.
Complete(p) ==
    /\ pc[p] = "sent"
    /\ out[held[p]].status = "PROCESSING"
    /\ out' = [out EXCEPT ![held[p]] = Completion(@, answer[p])]
    /\ Finished(p)
    /\ UNCHANGED <<connection, shown, faults>>

\* The row was reclaimed, completed by another processor or cancelled.
CompleteTooLate(p) ==
    /\ pc[p] = "sent"
    /\ out[held[p]].status # "PROCESSING"
    /\ Finished(p)
    /\ UNCHANGED <<out, connection, shown, faults>>

-----------------------------------------------------------------------------
\* Operators, time and faults.

\* retry_dead_lettered.
RetryDeadLettered(i) ==
    /\ connection = "enabled"
    /\ out[i].status = "DEAD_LETTERED"
    /\ out' = [out EXCEPT ![i] = NewRow(@.key)]
    /\ UNCHANGED <<connection, processorVars, shown, faults>>

\* The Connection is switched off, on, or retired (for good, and every open
\* row of it is cancelled in the same transaction).
Disable ==
    /\ connection = "enabled"
    /\ Fault
    /\ connection' = "disabled"
    /\ UNCHANGED <<out, processorVars, shown>>

Enable ==
    /\ connection = "disabled"
    /\ connection' = "enabled"
    /\ UNCHANGED <<out, processorVars, shown, faults>>

\* Mutant of CancelledRow: the status filter of the update is missing.
CancelledRowAny(r) == [r EXCEPT !.status = "CANCELLED", !.lease = "none"]

CancelledRow(r) ==
    IF r.status \in {"PENDING", "PROCESSING"}
    THEN [r EXCEPT !.status = "CANCELLED", !.lease = "none"] ELSE r

Retire ==
    /\ connection # "retired"
    /\ Fault
    /\ connection' = "retired"
    /\ out' = [i \in 1..Len(out) |-> CancelledRow(out[i])]
    /\ UNCHANGED <<processorVars, shown>>

\* The backoff of a failed row is over.
BackoffEnds(i) ==
    /\ out[i].status = "PENDING"
    /\ ~ out[i].due
    /\ out' = [out EXCEPT ![i].due = TRUE]
    /\ UNCHANGED <<connection, processorVars, shown, faults>>

\* A claim outlives its lease.  With its processor still at work that takes
\* a send slower than the lease, which counts as a fault.
AtWork(i) == \E p \in Processors : held[p] = i

LeaseRunsOut(i) ==
    /\ out[i].status = "PROCESSING"
    /\ out[i].lease = "live"
    /\ out' = [out EXCEPT ![i].lease = "expired"]
    /\ UNCHANGED <<connection, processorVars, shown>>

LeaseExpires(i) == ~ AtWork(i) /\ LeaseRunsOut(i) /\ UNCHANGED faults

SendOverruns(i) == AtWork(i) /\ LeaseRunsOut(i) /\ Fault

\* The replica stops, or a database call raises out of process_one: nothing
\* restarts process_outbound's loop within the process.
Die(p) ==
    /\ pc[p] # "dead"
    /\ Fault
    /\ pc' = [pc EXCEPT ![p] = "dead"]
    /\ held' = [held EXCEPT ![p] = 0]
    /\ answer' = [answer EXCEPT ![p] = "none"]
    /\ UNCHANGED <<out, connection, shown>>

\* A new replica takes its place.
Replace(p) ==
    /\ pc[p] = "dead"
    /\ pc' = [pc EXCEPT ![p] = "idle"]
    /\ UNCHANGED <<out, connection, held, answer, shown, faults>>

-----------------------------------------------------------------------------
RowStep(i) ==
    \/ RetryDeadLettered(i)
    \/ BackoffEnds(i)
    \/ LeaseExpires(i)
    \/ SendOverruns(i)
    \/ \E p \in Processors : Claim(p, i)

ProcessorStep(p) ==
    \/ ClaimNothing(p)
    \/ Send(p)
    \/ Unsendable(p)
    \/ SendFails(p)
    \/ Complete(p)
    \/ CompleteTooLate(p)
    \/ Die(p)
    \/ Replace(p)

Next ==
    \/ \E k \in Keys : Reply(k)
    \/ \E i \in 1..Len(out) : RowStep(i)
    \/ \E p \in Processors : ProcessorStep(p)
    \/ Disable \/ Enable \/ Retire

Spec == Init /\ [][Next]_vars

\* A living processor keeps going through its loop (it polls every 0.5 s),
\* a call in progress returns, and leases and backoffs run out.  Replies,
\* operators, faults and the start of a new replica are not fair.
Progress(p) ==
    \/ ClaimNothing(p)
    \/ \E i \in 1..Cardinality(Keys) : i <= Len(out) /\ Claim(p, i)
    \/ Send(p) \/ Unsendable(p) \/ Complete(p) \/ CompleteTooLate(p)

Elapses(i) ==
    /\ i <= Len(out)
    /\ BackoffEnds(i) \/ LeaseExpires(i)

FairSpec ==
    /\ Spec
    /\ \A p \in Processors : WF_vars(Progress(p))
    /\ \A i \in 1..Cardinality(Keys) : WF_vars(Elapses(i))

-----------------------------------------------------------------------------
\* Properties.

TypeOK ==
    /\ out \in Seq(OutRows)
    /\ connection \in {"enabled", "disabled", "retired"}
    /\ pc \in [Processors -> {"idle", "sending", "sent", "dead"}]
    /\ held \in [Processors -> 0..Len(out)]
    /\ answer \in [Processors -> Answers]
    /\ shown \in Seq(Keys)
    /\ faults \in 0..MaxFaults

\* The refinement mapping: the rows are the queue, the first appearances at
\* the provider are what was shown.
Stream == INSTANCE ConversationStream WITH
    queued <- [i \in 1..Len(out) |-> out[i].key]

\* The gateway implements the ordered stream: whatever claims expire, sends
\* fail, late completions arrive and operators retry or retire, a reply is
\* never shown before the one queued ahead of it
\* (delivery_repository.claim_next_outbound, "A later reply cannot overtake
\* an earlier pending, in-flight, or dead-lettered delivery").
RepliesInOrder == Stream!StreamSpec

\* A reply that the ledger calls SUCCEEDED was taken by the provider, also
\* when the claim that completes it is not the claim that sent it.
SucceededWasShown ==
    \A i \in 1..Len(out) :
        out[i].status = "SUCCEEDED" => \E j \in 1..Len(shown) : shown[j] = out[i].key

\* A reply that was delivered is never claimed, retried, dead-lettered or
\* cancelled again: no late completion or retirement takes it back.
DeliveredStaysDelivered ==
    [][\A i \in 1..Len(out) :
          out[i].status = "SUCCEEDED" => out'[i].status = "SUCCEEDED"]_vars

\* Every queued reply is delivered or cancelled, is dead-lettered or waits
\* behind a dead-lettered one for an operator, unless the Connection stays
\* switched off or every outbound thread has died for good.
Settled(i) ==
    /\ i <= Len(out)
    /\ \/ out[i].status \in {"SUCCEEDED", "CANCELLED"}
       \/ \E j \in 1..i : out[j].status = "DEAD_LETTERED"

RepliesSettle ==
    \/ <>[](connection # "enabled")
    \/ <>[](\A p \in Processors : pc[p] = "dead")
    \/ \A i \in 1..Cardinality(Keys) : (i <= Len(out)) ~> Settled(i)
=============================================================================

--------------------- MODULE CommunicationInboundProofs ----------------------
(***************************************************************************)
(* Proofs about CommunicationInbound, for any number of messages, attempts,   *)
(* events and faults.  Besides its types the inductive invariant says that a  *)
(* message that may still be claimed has attempts left, that a cancelled one  *)
(* is PROCESSING or CANCELLED, and that a run or turn that is about to report  *)
(* success has queued a reply.                                               *)
(***************************************************************************)
EXTENDS CommunicationInbound, TLAPS

\* What is true of every row: it can be claimed only with attempts left, and a
\* request to cancel it leaves it PROCESSING or CANCELLED.
RowGood(r) ==
    /\ r \in Rows
    /\ r.status \in {"ABSENT", "PENDING"} => r.attempt_count < MaxAttempts
    /\ r.cancel_requested => r.status \in {"PROCESSING", "CANCELLED"}

RowsGood ==
    /\ delivery \in [Messages -> Rows]
    /\ \A m \in Messages : RowGood(delivery[m])

\* Without VERBOSE_MODE every recorded reply is an answer.
RepliesGood ==
    /\ replies \subseteq Replies
    /\ ~ Verbose => \A r \in replies : r.says = "answer"

GatewayGood ==
    /\ retired \in BOOLEAN /\ running \in BOOLEAN
    /\ kind \in Kinds
    /\ faults \in 0..MaxFaults

\* The OpenClaw worker has no approvals and sends no notices.
WorkerGood ==
    /\ worker \in [at : WorkerPlaces, of : {NoMessage} \cup Messages]
    /\ worker.at # "idle" => worker.of \in Messages
    /\ kind = "openclaw" =>
          worker.at \in {"idle", "claimed", "turn", "replying", "closing", "failing"}

RunGood ==
    /\ run \in [at : RunPlaces, of : {NoMessage} \cup Messages, seq : 0..MaxEvents]
    /\ run.at # "none" => run.of \in Messages
    /\ run.at \in {"none", "starting", "draining"} => run.seq < MaxEvents

FlagsGood == pending \in BOOLEAN /\ asked \in BOOLEAN /\ told \subseteq Messages

HasReply(rs, m) == \E r \in rs : r.source = m

\* Whoever is about to report success has queued a reply.
ClosingAnswered ==
    /\ run.at = "closing" => HasReply(replies, run.of)
    /\ kind = "openclaw" /\ worker.at = "closing" => HasReply(replies, worker.of)

AdapterGood == WorkerGood /\ RunGood /\ FlagsGood /\ ClosingAnswered

IInv == RowsGood /\ RepliesGood /\ GatewayGood /\ AdapterGood

-----------------------------------------------------------------------------
\* What a step may make of a row, and of the replies.
RowKept(old, new) ==
    /\ RowGood(new)
    /\ old.status \in Settled => new.status = old.status
    /\ old.cancel_requested => new.cancel_requested

RowsKept ==
    /\ delivery' \in [Messages -> Rows]
    /\ \A m \in Messages : RowKept(delivery[m], delivery'[m])

RepliesKept ==
    /\ RepliesGood'
    /\ replies \subseteq replies'
    /\ \A r \in replies' : r \notin replies => Repliable(r.source)

\* No row changes.
LEMMA SameRows == ASSUME IInv, delivery' = delivery PROVE RowsKept
BY DEF IInv, RowsGood, RowsKept, RowKept

\* One row changes.
LEMMA OneRow ==
    ASSUME IInv, NEW m \in Messages, NEW row, RowKept(delivery[m], row),
           delivery' = [delivery EXCEPT ![m] = row]
    PROVE  RowsKept
<1>1. row \in Rows
    BY DEF RowKept, RowGood
<1>2. delivery' \in [Messages -> Rows]
    BY <1>1 DEF IInv, RowsGood
<1>3. \A n \in Messages : delivery'[n] = IF n = m THEN row ELSE delivery[n]
    BY DEF IInv, RowsGood
<1>4. \A n \in Messages : RowKept(delivery[n], delivery[n])
    BY DEF IInv, RowsGood, RowKept
<1>5. QED
    BY <1>2, <1>3, <1>4 DEF RowsKept

\* Every row may change.
LEMMA EveryRow ==
    ASSUME IInv, delivery' = [m \in Messages |-> delivery'[m]],
           \A m \in Messages : RowKept(delivery[m], delivery'[m])
    PROVE  RowsKept
<1>1. \A m \in Messages : delivery'[m] \in Rows
    BY DEF RowKept, RowGood
<1>2. delivery' \in [Messages -> Rows]
    BY <1>1
<1>3. QED
    BY <1>2 DEF RowsKept

\* _apply_completion of a PROCESSING row.
LEMMA CompletedKept ==
    ASSUME NEW r, RowGood(r), r.status = "PROCESSING",
           NEW succeeded \in BOOLEAN, NEW fatal \in BOOLEAN
    PROVE  RowKept(r, Completed(r, succeeded, fatal))
<1> DEFINE new == Completed(r, succeeded, fatal)
           retried == ~ (r.cancel_requested \/ succeeded \/ fatal
                           \/ r.attempt_count >= MaxAttempts)
<1>1. r \in Rows /\ r.attempt_count \in 0..MaxAttempts
    BY DEF RowGood, Rows
<1>2. /\ new = [r EXCEPT !.lease = "none", !.status = new.status, !.due = ~ retried]
      /\ new.status \in {"CANCELLED", "SUCCEEDED", "PENDING", "DEAD_LETTERED"}
      /\ r.cancel_requested => new.status = "CANCELLED"
      /\ new.status = "PENDING" => retried
    BY <1>1 DEF Completed, Rows
<1>3. /\ new \in Rows
      /\ new.attempt_count = r.attempt_count
      /\ new.cancel_requested = r.cancel_requested
    BY <1>1, <1>2 DEF Rows, Open, Settled
<1>4. new.status = "PENDING" => new.attempt_count < MaxAttempts
    BY <1>1, <1>2, <1>3, InboundAssumption
<1>5. QED
    BY <1>2, <1>3, <1>4 DEF RowKept, RowGood, Settled

LEMMA CompleteDeliveryRows ==
    ASSUME IInv, NEW m \in Messages, NEW succeeded \in BOOLEAN, NEW fatal \in BOOLEAN,
           CompleteDelivery(m, succeeded, fatal)
    PROVE  RowsKept
<1>1. CASE Completable(m)
    <2>1. delivery' = [delivery EXCEPT ![m] = Completed(delivery[m], succeeded, fatal)]
        BY <1>1 DEF CompleteDelivery
    <2>2. RowGood(delivery[m]) /\ delivery[m].status = "PROCESSING"
        BY <1>1 DEF IInv, RowsGood, Completable
    <2>3. QED
        BY <2>1, <2>2, CompletedKept, OneRow
<1>2. CASE ~ Completable(m)
    BY <1>2, SameRows DEF CompleteDelivery
<1>3. QED
    BY <1>1, <1>2

LEMMA RenewedRows ==
    ASSUME IInv, NEW m \in Messages, NEW flag \in BOOLEAN,
           delivery' = [delivery EXCEPT ![m].awaiting_input = flag]
    PROVE  RowsKept
<1>1. RowGood(delivery[m])
    BY DEF IInv, RowsGood
<1>2. RowKept(delivery[m], [delivery[m] EXCEPT !.awaiting_input = flag])
    BY <1>1 DEF RowKept, RowGood, Rows
<1>3. QED
    BY <1>2, OneRow

-----------------------------------------------------------------------------
\* The rows through each step of the gateway.
LEMMA AcceptRows == ASSUME IInv, NEW m \in Messages, Accept(m) PROVE RowsKept
<1> DEFINE status == IF running THEN "PENDING" ELSE "UNAVAILABLE"
           new == [delivery[m] EXCEPT !.status = status]
<1>1. RowGood(delivery[m]) /\ delivery[m].status = "ABSENT"
    BY DEF IInv, RowsGood, Accept
<1>2. status \in {"PENDING", "UNAVAILABLE"}
    OBVIOUS
<1>3. ~ delivery[m].cancel_requested
    BY <1>1 DEF RowGood
<1>4. RowKept(delivery[m], new)
    BY <1>1, <1>2, <1>3 DEF RowKept, RowGood, Rows, Open, Settled
<1>5. delivery' = [delivery EXCEPT ![m] = new]
    BY DEF Accept
<1>6. QED
    BY <1>4, <1>5, OneRow

LEMMA RequestCancelRows == ASSUME IInv, NEW m \in Messages, RequestCancel(m) PROVE RowsKept
<1> DEFINE status == IF delivery[m].status = "PENDING" THEN "CANCELLED" ELSE delivery[m].status
           new == [delivery[m] EXCEPT !.cancel_requested = TRUE, !.status = status]
<1>1. RowGood(delivery[m]) /\ delivery[m].status \in {"PENDING", "PROCESSING"}
    BY DEF IInv, RowsGood, RequestCancel, Open
<1>2. status \in {"CANCELLED", "PROCESSING"}
    BY <1>1
<1>3. RowKept(delivery[m], new)
    BY <1>1, <1>2 DEF RowKept, RowGood, Rows, Open, Settled
<1>4. delivery' = [delivery EXCEPT ![m] = new]
    BY DEF RequestCancel, IInv, RowsGood
<1>5. QED
    BY <1>3, <1>4, OneRow

LEMMA ReclaimRows == ASSUME IInv, Reclaim PROVE RowsKept
<1>1. delivery' = [m \in Messages |->
          IF Expired(m) THEN Completed(delivery[m], FALSE, FALSE) ELSE delivery[m]]
    BY DEF Reclaim
<1>2. ASSUME NEW m \in Messages PROVE RowKept(delivery[m], delivery'[m])
    <2>1. RowGood(delivery[m])
        BY DEF IInv, RowsGood
    <2>2. CASE Expired(m)
        BY <1>1, <2>1, <2>2, CompletedKept DEF Expired
    <2>3. CASE ~ Expired(m)
        BY <1>1, <2>1, <2>3 DEF RowKept
    <2>4. QED
        BY <2>2, <2>3
<1>3. delivery' = [m \in Messages |-> delivery'[m]]
    BY <1>1
<1>4. QED
    BY <1>2, <1>3, EveryRow

LEMMA RetireRows == ASSUME IInv, Retire PROVE RowsKept
<1>1. delivery' = [m \in Messages |->
          IF delivery[m].status \in Open
          THEN [delivery[m] EXCEPT !.status = "CANCELLED", !.lease = "none"]
          ELSE delivery[m]]
    BY DEF Retire
<1>2. ASSUME NEW m \in Messages PROVE RowKept(delivery[m], delivery'[m])
    <2>1. RowGood(delivery[m])
        BY DEF IInv, RowsGood
    <2>2. CASE delivery[m].status \in Open
        <3>1. delivery'[m] = [delivery[m] EXCEPT !.status = "CANCELLED", !.lease = "none"]
            BY <1>1, <2>2
        <3>2. QED
            BY <2>1, <2>2, <3>1 DEF RowKept, RowGood, Rows, Open, Settled
    <2>3. CASE delivery[m].status \notin Open
        BY <1>1, <2>1, <2>3 DEF RowKept
    <2>4. QED
        BY <2>2, <2>3
<1>3. delivery' = [m \in Messages |-> delivery'[m]]
    BY <1>1
<1>4. QED
    BY <1>2, <1>3, EveryRow

LEMMA ClaimRows == ASSUME IInv, NEW m \in Messages, ClaimNextInbound(m) PROVE RowsKept
<1>1. RowGood(delivery[m]) /\ delivery[m].status = "PENDING"
    BY DEF IInv, RowsGood, ClaimNextInbound, ClaimableNext
<1>2. /\ delivery[m].attempt_count \in 0..MaxAttempts
      /\ delivery[m].attempt_count + 1 \in 0..MaxAttempts
    BY <1>1, InboundAssumption DEF RowGood, Rows
<1>3. RowKept(delivery[m], Claimed(delivery[m]))
    BY <1>1, <1>2 DEF RowKept, RowGood, Rows, Open, Settled, Claimed
<1>4. QED
    BY <1>3, OneRow DEF ClaimNextInbound

LEMMA TimeRows ==
    ASSUME IInv, NEW m \in Messages, LeaseRunsOut(m) \/ BackoffEnds(m) PROVE RowsKept
<1>1. RowGood(delivery[m])
    BY DEF IInv, RowsGood
<1>2. /\ RowKept(delivery[m], [delivery[m] EXCEPT !.lease = "expired"])
      /\ RowKept(delivery[m], [delivery[m] EXCEPT !.due = TRUE])
    BY <1>1 DEF RowKept, RowGood, Rows
<1>3. QED
    BY <1>2, OneRow DEF LeaseRunsOut, BackoffEnds

-----------------------------------------------------------------------------
\* The replies, the worker and the run.
LEMMA SameReplies == ASSUME IInv, replies' = replies PROVE RepliesKept
BY DEF IInv, RepliesGood, RepliesKept

\* enqueue_runtime_reply leaves a reply of its source in place.
LEMMA NewReply ==
    ASSUME IInv, NEW m \in Messages, NEW suffix \in 0..MaxEvents,
           NEW says \in {"answer", "progress"}, ~ Verbose => says = "answer",
           Repliable(m), replies' = WithReply(m, suffix, says)
    PROVE  RepliesKept /\ HasReply(replies', m)
<1>1. CASE \E r \in replies : r.source = m /\ r.suffix = suffix
    <2>1. replies' = replies
        BY <1>1 DEF WithReply
    <2>2. QED
        BY <1>1, <2>1, SameReplies DEF HasReply
<1>2. CASE ~ \E r \in replies : r.source = m /\ r.suffix = suffix
    <2> DEFINE new == [source |-> m, suffix |-> suffix, says |-> says]
    <2>1. replies' = replies \cup {new}
        BY <1>2 DEF WithReply
    <2>2. new \in Replies /\ new.source = m /\ new.says = says
        BY DEF Replies
    <2>3. RepliesGood'
        BY <2>1, <2>2 DEF IInv, RepliesGood
    <2>4. QED
        BY <2>1, <2>2, <2>3 DEF RepliesKept, HasReply
<1>3. QED
    BY <1>1, <1>2

OpenClawPlaces == {"idle", "claimed", "turn", "replying", "closing", "failing"}

LEMMA WorkerMoves ==
    ASSUME IInv, NEW place \in WorkerPlaces, worker.at # "idle", WorkerTo(place),
           kind' = kind, kind = "openclaw" => place \in OpenClawPlaces
    PROVE  WorkerGood' /\ worker'.at = place /\ worker'.of = worker.of
BY DEF IInv, AdapterGood, WorkerGood, WorkerTo, OpenClawPlaces

LEMMA WorkerIdles ==
    ASSUME worker' = IdleWorker
    PROVE  WorkerGood' /\ worker'.at = "idle"
BY DEF WorkerGood, IdleWorker, WorkerPlaces, NoMessage

LEMMA RunMoves ==
    ASSUME IInv, NEW place \in RunPlaces, run.at # "none", RunTo(place),
           place \in {"starting", "draining"} => run.seq < MaxEvents, place # "none"
    PROVE  RunGood' /\ run'.at = place /\ run'.of = run.of
BY DEF IInv, AdapterGood, RunGood, RunTo

LEMMA RunAdvances ==
    ASSUME IInv, run.at = "draining", NEW place \in {"draining", "replying"},
           run' = [run EXCEPT !.seq = NextEvent, !.at = place],
           place = "draining" => MoreEvents
    PROVE  RunGood' /\ run'.at = place /\ run'.of = run.of
<1>1. run \in [at : RunPlaces, of : {NoMessage} \cup Messages, seq : 0..MaxEvents]
    BY DEF IInv, AdapterGood, RunGood
<1>2. run.seq \in 0..MaxEvents /\ run.seq < MaxEvents /\ run.of \in Messages
    BY <1>1 DEF IInv, AdapterGood, RunGood
<1>3. NextEvent \in 0..MaxEvents
    BY <1>2, InboundAssumption DEF NextEvent
<1>4. /\ run' \in [at : RunPlaces, of : {NoMessage} \cup Messages, seq : 0..MaxEvents]
      /\ run'.at = place /\ run'.of = run.of /\ run'.seq = NextEvent
    BY <1>1, <1>3 DEF RunPlaces
<1>5. QED
    BY <1>2, <1>4 DEF RunGood, MoreEvents

LEMMA RunGone ==
    ASSUME run' = NoRun
    PROVE  RunGood' /\ run'.at = "none"
BY InboundAssumption DEF RunGood, NoRun, RunPlaces, NoMessage

\* Replies are kept, so success stays announced.
LEMMA ClosingKept ==
    ASSUME IInv, RepliesKept, kind' = kind,
           run'.at = "closing" => HasReply(replies', run'.of) \/ (run.at = "closing" /\ run'.of = run.of),
           kind = "openclaw" /\ worker'.at = "closing" =>
               HasReply(replies', worker'.of) \/ (worker.at = "closing" /\ worker'.of = worker.of)
    PROVE  ClosingAnswered'
<1>1. \A m : HasReply(replies, m) => HasReply(replies', m)
    BY DEF HasReply, RepliesKept
<1>2. QED
    BY <1>1 DEF IInv, AdapterGood, ClosingAnswered

LEMMA FaultCounts == ASSUME IInv, Fault PROVE faults' \in 0..MaxFaults
BY InboundAssumption DEF IInv, GatewayGood, Fault

\* What every step establishes.
StepGood == RowsKept /\ RepliesKept /\ GatewayGood' /\ AdapterGood'

\* Steps of the gateway leave the adapter alone.
LEMMA GatewayStep ==
    ASSUME IInv, RowsKept, replies' = replies, UNCHANGED <<kind, adapterVars>>,
           retired' \in BOOLEAN, running' \in BOOLEAN, faults' \in 0..MaxFaults
    PROVE  StepGood
<1>1. UNCHANGED <<worker, run, pending, asked, told>>
    BY DEF adapterVars
<1>2. RepliesKept
    BY SameReplies
<1>3. GatewayGood'
    BY DEF IInv, GatewayGood
<1>4. WorkerGood' /\ RunGood' /\ FlagsGood'
    BY <1>1 DEF IInv, AdapterGood, WorkerGood, RunGood, FlagsGood
<1>5. ClosingAnswered'
    BY <1>1, <1>2, ClosingKept
<1>6. QED
    BY <1>2, <1>3, <1>4, <1>5 DEF StepGood, AdapterGood

\* Steps of the adapter leave the gateway's flags alone.
LEMMA GatewaySame ==
    ASSUME IInv, UNCHANGED gatewayVars, faults' \in 0..MaxFaults PROVE GatewayGood'
BY DEF IInv, GatewayGood, gatewayVars

LEMMA MessageStepGood ==
    ASSUME IInv, NEW m \in Messages,
           \/ Accept(m) \/ RequestCancel(m) \/ BackoffEnds(m)
           \/ LeaseExpires(m) \/ HeartbeatsMissed(m)
    PROVE  StepGood
<1>1. RowsKept
    BY AcceptRows, RequestCancelRows, TimeRows DEF LeaseExpires, HeartbeatsMissed
<1>2. UNCHANGED <<replies, retired, running, kind, adapterVars>>
    BY DEF Accept, RequestCancel, BackoffEnds, LeaseExpires, HeartbeatsMissed, LeaseRunsOut,
        gatewayVars
<1>3. faults' \in 0..MaxFaults
    BY FaultCounts DEF Accept, RequestCancel, BackoffEnds, LeaseExpires, HeartbeatsMissed,
        LeaseRunsOut, IInv, GatewayGood
<1>4. retired' \in BOOLEAN /\ running' \in BOOLEAN
    BY <1>2, Zenon DEF IInv, GatewayGood
<1>5. QED
    BY <1>1, <1>2, <1>3, <1>4, GatewayStep

LEMMA ReclaimGood == ASSUME IInv, Reclaim PROVE StepGood
<1>1. RowsKept
    BY ReclaimRows
<1>2. UNCHANGED <<replies, retired, running, kind, adapterVars, faults>>
    BY DEF Reclaim, gatewayVars
<1>3. retired' \in BOOLEAN /\ running' \in BOOLEAN /\ faults' \in 0..MaxFaults
    BY <1>2, Zenon DEF IInv, GatewayGood
<1>4. QED
    BY <1>1, <1>2, <1>3, GatewayStep

LEMMA RetireGood == ASSUME IInv, Retire PROVE StepGood
<1>1. RowsKept
    BY RetireRows
<1>2. UNCHANGED <<replies, running, kind, adapterVars>> /\ retired' = TRUE
    BY DEF Retire
<1>3. retired' \in BOOLEAN /\ running' \in BOOLEAN
    BY <1>2, Zenon DEF IInv, GatewayGood
<1>4. faults' \in 0..MaxFaults
    BY FaultCounts DEF Retire
<1>5. QED
    BY <1>1, <1>2, <1>3, <1>4, GatewayStep

LEMMA HeartbeatGood == ASSUME IInv, Heartbeat PROVE StepGood
<1>1. run.of \in Messages /\ pending \in BOOLEAN
    BY DEF IInv, AdapterGood, RunGood, FlagsGood, Heartbeat, RunIsLive
<1>2. RowsKept
    BY <1>1, RenewedRows DEF Heartbeat, Renewed
<1>3. UNCHANGED <<replies, retired, running, kind, adapterVars, faults>>
    BY DEF Heartbeat, gatewayVars
<1>4. retired' \in BOOLEAN /\ running' \in BOOLEAN /\ faults' \in 0..MaxFaults
    BY <1>3, Zenon DEF IInv, GatewayGood
<1>5. QED
    BY <1>2, <1>3, <1>4, GatewayStep

\* The adapter loses its memory, or the Agent starts.
LEMMA PodGood == ASSUME IInv, PodRestarts \/ StopAgent \/ StartAgent PROVE StepGood
<1>1. RowsKept /\ RepliesKept /\ kind' = kind
    BY SameRows, SameReplies DEF PodRestarts, StopAgent, StartAgent, AdapterLost
<1>2. faults' \in 0..MaxFaults
    BY FaultCounts DEF PodRestarts, StopAgent, StartAgent, IInv, GatewayGood
<1>3. retired' \in BOOLEAN /\ running' \in BOOLEAN
    BY Zenon DEF PodRestarts, StopAgent, StartAgent, AdapterLost, IInv, GatewayGood
<1>4. CASE StartAgent
    <2>1. UNCHANGED <<replies, kind, adapterVars>>
        BY <1>4 DEF StartAgent
    <2>2. QED
        BY <1>1, <1>2, <1>3, <2>1, GatewayStep
<1>5. CASE PodRestarts \/ StopAgent
    <2>1. AdapterLost
        BY <1>5 DEF PodRestarts, StopAgent
    <2>2. /\ WorkerGood' /\ RunGood'
          /\ worker'.at = "idle" /\ run'.at = "none"
        BY <2>1, WorkerIdles, RunGone DEF AdapterLost
    <2>3. FlagsGood'
        BY <2>1, Zenon DEF AdapterLost, FlagsGood
    <2>4. ClosingAnswered'
        BY <2>2 DEF ClosingAnswered
    <2>5. GatewayGood'
        BY <1>1, <1>2, <1>3 DEF IInv, GatewayGood
    <2>6. QED
        BY <1>1, <2>2, <2>3, <2>4, <2>5 DEF StepGood, AdapterGood
<1>6. QED
    BY <1>4, <1>5

-----------------------------------------------------------------------------
\* The delivery worker.
LEMMA WorkerOnly ==
    ASSUME IInv, RowsKept, RepliesKept, UNCHANGED gatewayVars, run' = run,
           faults' \in 0..MaxFaults, FlagsGood', WorkerGood',
           kind = "openclaw" /\ worker'.at = "closing" => HasReply(replies', worker'.of)
    PROVE  StepGood
<1>1. GatewayGood' /\ kind' = kind
    BY GatewaySame DEF gatewayVars
<1>2. RunGood'
    BY DEF IInv, AdapterGood, RunGood
<1>3. ClosingAnswered'
    BY <1>1, ClosingKept
<1>4. QED
    BY <1>1, <1>2, <1>3 DEF StepGood, AdapterGood

\* The worker goes to a place, and nothing else happens but to the flags.
LEMMA WorkerGoes ==
    ASSUME IInv, NEW place \in WorkerPlaces, worker.at # "idle", WorkerTo(place),
           kind = "openclaw" => place \in OpenClawPlaces /\ place # "closing",
           UNCHANGED <<delivery, replies, gatewayVars, run>>,
           faults' \in 0..MaxFaults, FlagsGood'
    PROVE  StepGood
<1>1. kind' = kind
    BY DEF gatewayVars
<1>2. WorkerGood' /\ worker'.at = place
    BY <1>1, WorkerMoves
<1>3. QED
    BY <1>2, SameRows, SameReplies, WorkerOnly

\* The worker goes back to its loop, and nothing else happens but to the flags.
LEMMA WorkerRests ==
    ASSUME IInv, worker' = IdleWorker, RowsKept, UNCHANGED <<replies, gatewayVars, run>>,
           faults' \in 0..MaxFaults, FlagsGood'
    PROVE  StepGood
BY WorkerIdles, SameReplies, WorkerOnly

LEMMA FlagsSame == ASSUME IInv, UNCHANGED <<pending, asked, told>> PROVE FlagsGood'
BY DEF IInv, AdapterGood, FlagsGood

LEMMA FaultsSame == ASSUME IInv, faults' = faults PROVE faults' \in 0..MaxFaults
BY DEF IInv, GatewayGood

LEMMA ClaimGood == ASSUME IInv, NEW m \in Messages, Claim(m) \/ ClaimLost(m) PROVE StepGood
<1>1. ClaimNextInbound(m) /\ worker.at = "idle"
    BY DEF Claim, ClaimLost, ClaimNextInbound
<1>2. RowsKept /\ RepliesKept /\ FlagsGood'
    BY <1>1, ClaimRows, SameReplies, FlagsSame DEF ClaimNextInbound
<1>3. UNCHANGED <<gatewayVars, run>>
    BY <1>1 DEF ClaimNextInbound
<1>4. faults' \in 0..MaxFaults
    BY FaultCounts, FaultsSame DEF Claim, ClaimLost
<1>5. WorkerGood' /\ worker'.at # "closing"
    <2>1. CASE Claim(m)
        BY <2>1 DEF Claim, WorkerGood, WorkerPlaces
    <2>2. CASE ClaimLost(m)
        BY <1>1, <1>3, <2>2 DEF ClaimLost, gatewayVars, IInv, AdapterGood, WorkerGood
    <2>3. QED
        BY <2>1, <2>2
<1>6. QED
    BY <1>2, <1>3, <1>4, <1>5, WorkerOnly

LEMMA SignalGood == ASSUME IInv, NEW m \in Messages, CancelSignal(m) PROVE StepGood
<1>1. FlagsGood'
    BY DEF CancelSignal, IInv, AdapterGood, FlagsGood
<1>2. RowsKept /\ RepliesKept /\ faults' \in 0..MaxFaults
    BY SameRows, SameReplies, FaultsSame DEF CancelSignal
<1>3. UNCHANGED <<gatewayVars, run, worker>>
    BY DEF CancelSignal
<1>4. WorkerGood'
    BY <1>3 DEF gatewayVars, IInv, AdapterGood, WorkerGood
<1>5. kind = "openclaw" /\ worker'.at = "closing" => HasReply(replies', worker'.of)
    BY <1>3 DEF CancelSignal, IInv, AdapterGood, ClosingAnswered
<1>6. QED
    BY <1>1, <1>2, <1>3, <1>4, <1>5, WorkerOnly

LEMMA TakeGood ==
    ASSUME IInv, TakeTurn \/ TakeForAnswer \/ TakeStaleClick PROVE StepGood
<1>1. /\ worker.at = "claimed"
      /\ UNCHANGED <<delivery, replies, gatewayVars, run, pending, asked, told, faults>>
    BY DEF TakeTurn, TakeForAnswer, TakeStaleClick, WorkerAt
<1>2. FlagsGood' /\ faults' \in 0..MaxFaults
    BY <1>1, FlagsSame, FaultsSame
<1>3. PICK place \in {"turn", "approving", "notifying"} :
         WorkerTo(place) /\ (kind = "openclaw" => place = "turn")
    BY DEF TakeTurn, TakeForAnswer, TakeStaleClick
<1>4. QED
    BY <1>1, <1>2, <1>3, WorkerGoes DEF WorkerPlaces, OpenClawPlaces

LEMMA TakeAsMessageGood == ASSUME IInv, TakeAsMessage PROVE StepGood
<1>1. /\ worker.at = "claimed" /\ kind = "hermes" /\ worker.of \in Messages
      /\ UNCHANGED <<delivery, replies, gatewayVars, pending, asked, told, faults>>
    BY DEF TakeAsMessage, WorkerAt, IInv, AdapterGood, WorkerGood
<1>2. FlagsGood' /\ faults' \in 0..MaxFaults /\ RowsKept /\ RepliesKept /\ kind' = kind
    BY <1>1, FlagsSame, FaultsSame, SameRows, SameReplies DEF gatewayVars
<1>3. CASE run' = run /\ worker' = IdleWorker
    BY <1>1, <1>2, <1>3, WorkerRests
<1>4. CASE run' = run /\ WorkerTo("notifying")
    BY <1>1, <1>2, <1>4, WorkerGoes DEF WorkerPlaces
<1>5. CASE run' = [NoRun EXCEPT !.at = "starting", !.of = worker.of] /\ worker' = IdleWorker
    <2>1. run' = [at |-> "starting", of |-> worker.of, seq |-> 0]
        BY <1>5 DEF NoRun
    <2>2. RunGood' /\ run'.at = "starting"
        BY <1>1, <2>1, InboundAssumption DEF RunGood, RunPlaces
    <2>3. WorkerGood' /\ worker'.at = "idle"
        BY <1>5, WorkerIdles
    <2>4. ClosingAnswered'
        BY <2>2, <2>3 DEF ClosingAnswered
    <2>5. GatewayGood'
        BY <1>1, <1>2, GatewaySame
    <2>6. QED
        BY <1>2, <2>2, <2>3, <2>4, <2>5 DEF StepGood, AdapterGood
<1>6. QED
    BY <1>3, <1>4, <1>5 DEF TakeAsMessage

\* OpenClaw never reaches the places of approvals and notices.
LEMMA HermesPlaces ==
    ASSUME IInv, worker.at \in {"approving", "resolving", "publishing", "notifying"}
    PROVE  kind # "openclaw"
BY DEF IInv, AdapterGood, WorkerGood

LEMMA SubmitApprovalGood == ASSUME IInv, SubmitApproval PROVE StepGood
<1>1. /\ worker.at = "approving"
      /\ UNCHANGED <<delivery, replies, gatewayVars, run, told>>
    BY DEF SubmitApproval, WorkerAt
<1>2. kind # "openclaw"
    BY <1>1, HermesPlaces
<1>3. FlagsGood'
    BY Zenon DEF SubmitApproval, IInv, AdapterGood, FlagsGood
<1>4. faults' \in 0..MaxFaults
    BY FaultCounts, FaultsSame DEF SubmitApproval
<1>5. CASE \E place \in {"resolving", "notifying", "claimed", "failing"} : WorkerTo(place)
    BY <1>1, <1>2, <1>3, <1>4, <1>5, WorkerGoes DEF WorkerPlaces
<1>6. CASE worker' = IdleWorker
    BY <1>1, <1>3, <1>4, <1>6, SameRows, WorkerRests
<1>7. QED
    BY <1>5, <1>6 DEF SubmitApproval

LEMMA ResolveApprovalGood == ASSUME IInv, ResolveApproval PROVE StepGood
<1>1. worker.at = "resolving"
    BY DEF ResolveApproval, WorkerAt
<1>2. kind # "openclaw"
    BY <1>1, HermesPlaces
<1>3. FlagsGood'
    BY Zenon DEF ResolveApproval, IInv, AdapterGood, FlagsGood
<1>4. faults' \in 0..MaxFaults
    BY FaultsSame DEF ResolveApproval
<1>5. QED
    BY <1>1, <1>2, <1>3, <1>4, WorkerGoes DEF ResolveApproval, WorkerPlaces

LEMMA PublishAwaitingGood == ASSUME IInv, PublishAwaiting PROVE StepGood
<1>1. /\ worker.at = "publishing" /\ WorkerTo("closing")
      /\ UNCHANGED <<replies, gatewayVars, run, pending, asked, told, faults>>
    BY DEF PublishAwaiting, WorkerAt
<1>2. kind # "openclaw" /\ kind' = kind
    BY <1>1, HermesPlaces DEF gatewayVars
<1>3. RowsKept
    <2>1. CASE RunIsLive /\ Renewable(run.of)
        <3>1. run.of \in Messages /\ pending \in BOOLEAN
            BY <2>1 DEF IInv, AdapterGood, RunGood, FlagsGood, RunIsLive
        <3>2. delivery' = [delivery EXCEPT ![run.of].awaiting_input = pending]
            BY <2>1 DEF PublishAwaiting, Renewed
        <3>3. QED
            BY <3>1, <3>2, RenewedRows
    <2>2. CASE ~ (RunIsLive /\ Renewable(run.of))
        BY <2>2, SameRows DEF PublishAwaiting
    <2>3. QED
        BY <2>1, <2>2
<1>4. WorkerGood'
    BY <1>1, <1>2, WorkerMoves DEF WorkerPlaces
<1>5. RepliesKept /\ FlagsGood' /\ faults' \in 0..MaxFaults
    BY <1>1, SameReplies, FlagsSame, FaultsSame
<1>6. QED
    BY <1>1, <1>2, <1>3, <1>4, <1>5, WorkerOnly

LEMMA NotifyGood == ASSUME IInv, Notify \/ NoticeLost PROVE StepGood
<1>1. /\ worker.at = "notifying"
      /\ UNCHANGED <<delivery, replies, gatewayVars, run, pending, asked, told>>
    BY DEF Notify, NoticeLost, WorkerAt
<1>2. kind # "openclaw"
    BY <1>1, HermesPlaces
<1>3. FlagsGood' /\ RowsKept
    BY <1>1, FlagsSame, SameRows
<1>4. faults' \in 0..MaxFaults
    BY FaultCounts, FaultsSame DEF Notify, NoticeLost
<1>5. CASE WorkerTo("closing")
    BY <1>1, <1>2, <1>3, <1>4, <1>5, WorkerGoes DEF WorkerPlaces
<1>6. CASE worker' = IdleWorker
    BY <1>1, <1>3, <1>4, <1>6, WorkerRests
<1>7. QED
    BY <1>5, <1>6 DEF Notify, NoticeLost

LEMMA TurnEndsGood == ASSUME IInv, TurnEnds PROVE StepGood
<1>1. /\ worker.at = "turn"
      /\ UNCHANGED <<delivery, replies, gatewayVars, run, pending, asked, told, faults>>
    BY DEF TurnEnds, WorkerAt
<1>2. FlagsGood' /\ faults' \in 0..MaxFaults
    BY <1>1, FlagsSame, FaultsSame
<1>3. WorkerTo("failing") \/ WorkerTo("replying")
    BY DEF TurnEnds
<1>4. QED
    BY <1>1, <1>2, <1>3, WorkerGoes DEF WorkerPlaces, OpenClawPlaces

LEMMA TurnRepliesGood == ASSUME IInv, TurnReplies PROVE StepGood
<1>1. /\ worker.at = "replying" /\ worker.of \in Messages /\ kind' = kind
      /\ UNCHANGED <<delivery, gatewayVars, run, pending, asked, told>>
    BY DEF TurnReplies, WorkerAt, gatewayVars, IInv, AdapterGood, WorkerGood
<1>2. FlagsGood' /\ RowsKept
    BY <1>1, FlagsSame, SameRows
<1>3. faults' \in 0..MaxFaults
    BY FaultCounts, FaultsSame DEF TurnReplies
<1>4. ASSUME Repliable(worker.of), replies' = WithReply(worker.of, 0, "answer")
      PROVE  RepliesKept /\ HasReply(replies', worker.of)
    <2>1. 0 \in 0..MaxEvents
        BY InboundAssumption
    <2>2. QED
        BY <1>1, <1>4, <2>1, NewReply
<1>5. RepliesKept
    BY <1>4, SameReplies DEF TurnReplies
<1>6. CASE WorkerTo("failing")
    <2>1. WorkerGood' /\ worker'.at = "failing"
        BY <1>1, <1>6, WorkerMoves DEF WorkerPlaces, OpenClawPlaces
    <2>2. QED
        BY <1>1, <1>2, <1>3, <1>5, <2>1, WorkerOnly
<1>7. CASE /\ Repliable(worker.of) /\ WorkerTo("closing")
           /\ replies' = WithReply(worker.of, 0, "answer")
    <2>1. WorkerGood' /\ worker'.of = worker.of
        BY <1>1, <1>7, WorkerMoves DEF WorkerPlaces, OpenClawPlaces
    <2>2. HasReply(replies', worker'.of)
        BY <1>4, <1>7, <2>1
    <2>3. QED
        BY <1>1, <1>2, <1>3, <1>5, <2>1, <2>2, WorkerOnly
<1>8. QED
    BY <1>6, <1>7 DEF TurnReplies

LEMMA ReportGood == ASSUME IInv, Close \/ Fail \/ ReportLost PROVE StepGood
<1>1. /\ worker.at \in {"closing", "failing"} /\ worker.of \in Messages
      /\ worker' = IdleWorker
      /\ told' = told \ {worker.of}
      /\ UNCHANGED <<replies, gatewayVars, run, pending, asked>>
    BY DEF Close, Fail, ReportLost, WorkerReports, WorkerAt, IInv, AdapterGood, WorkerGood
<1>2. FlagsGood'
    BY <1>1 DEF IInv, AdapterGood, FlagsGood
<1>3. faults' \in 0..MaxFaults
    BY FaultCounts, FaultsSame DEF Close, Fail, ReportLost, WorkerReports
<1>4. RowsKept
    BY <1>1, CompleteDeliveryRows, SameRows DEF Close, Fail, ReportLost, WorkerReports
<1>5. QED
    BY <1>1, <1>2, <1>3, <1>4, WorkerRests

LEMMA WorkerStepGood == ASSUME IInv, WorkerStep PROVE StepGood
BY TakeGood, TakeAsMessageGood, SubmitApprovalGood, ResolveApprovalGood, PublishAwaitingGood,
   NotifyGood, TurnEndsGood, TurnRepliesGood, ReportGood DEF WorkerStep

-----------------------------------------------------------------------------
\* The Hermes run.
LEMMA RunOnly ==
    ASSUME IInv, RowsKept, RepliesKept, UNCHANGED gatewayVars, worker' = worker,
           faults' \in 0..MaxFaults, FlagsGood', RunGood',
           run'.at = "closing" => HasReply(replies', run'.of)
    PROVE  StepGood
<1>1. GatewayGood' /\ kind' = kind
    BY GatewaySame DEF gatewayVars
<1>2. WorkerGood'
    BY <1>1 DEF IInv, AdapterGood, WorkerGood
<1>3. ClosingAnswered'
    BY <1>1, ClosingKept
<1>4. QED
    BY <1>1, <1>2, <1>3 DEF StepGood, AdapterGood

\* The run moves on, and nothing else happens but to the flags.
LEMMA RunGoes ==
    ASSUME IInv, RunGood', run'.at # "closing",
           UNCHANGED <<delivery, replies, gatewayVars, worker>>,
           faults' \in 0..MaxFaults, FlagsGood'
    PROVE  StepGood
BY SameRows, SameReplies, RunOnly

LEMMA StartRunGood == ASSUME IInv, StartRun PROVE StepGood
<1>1. /\ run.at = "starting" /\ run.seq < MaxEvents
      /\ UNCHANGED <<delivery, replies, gatewayVars, worker, pending, asked, told, faults>>
    BY DEF StartRun, RunAt, IInv, AdapterGood, RunGood
<1>2. RunGood' /\ run'.at # "closing"
    BY <1>1, RunMoves DEF StartRun, RunPlaces
<1>3. FlagsGood' /\ faults' \in 0..MaxFaults
    BY <1>1, FlagsSame, FaultsSame
<1>4. QED
    BY <1>1, <1>2, <1>3, RunGoes

LEMMA ToolEventGood == ASSUME IInv, ToolEvent PROVE StepGood
<1>1. /\ run.at = "draining" /\ run.of \in Messages /\ MoreEvents
      /\ UNCHANGED <<delivery, gatewayVars, worker, pending, asked, told, faults>>
    BY DEF ToolEvent, RunAt, IInv, AdapterGood, RunGood
<1>2. run' = [run EXCEPT !.seq = NextEvent, !.at = "draining"]
    BY <1>1 DEF ToolEvent, IInv, AdapterGood, RunGood
<1>3. RunGood' /\ run'.at = "draining"
    BY <1>1, <1>2, RunAdvances
<1>4. NextEvent \in 0..MaxEvents
    BY <1>1, InboundAssumption DEF NextEvent, MoreEvents, IInv, AdapterGood, RunGood
<1>5. RepliesKept
    <2>1. CASE Verbose /\ Repliable(run.of)
        BY <1>1, <1>4, <2>1, NewReply DEF ToolEvent
    <2>2. CASE ~ (Verbose /\ Repliable(run.of))
        BY <2>2, SameReplies DEF ToolEvent
    <2>3. QED
        BY <2>1, <2>2
<1>6. FlagsGood' /\ faults' \in 0..MaxFaults /\ RowsKept
    BY <1>1, FlagsSame, FaultsSame, SameRows
<1>7. QED
    BY <1>1, <1>3, <1>5, <1>6, RunOnly

LEMMA ApprovalEventGood == ASSUME IInv, ApprovalEvent PROVE StepGood
<1>1. /\ run.at = "draining" /\ run.of \in Messages /\ MoreEvents
      /\ UNCHANGED <<replies, gatewayVars, worker, told, faults>>
    BY DEF ApprovalEvent, RunAt, IInv, AdapterGood, RunGood
<1>2. run' = [run EXCEPT !.seq = NextEvent, !.at = "draining"]
    BY <1>1 DEF ApprovalEvent, IInv, AdapterGood, RunGood
<1>3. RunGood' /\ run'.at = "draining"
    BY <1>1, <1>2, RunAdvances
<1>4. RowsKept
    <2>1. CASE Renewable(run.of)
        <3>1. delivery' = [delivery EXCEPT ![run.of].awaiting_input = TRUE]
            BY <2>1 DEF ApprovalEvent
        <3>2. QED
            BY <1>1, <3>1, RenewedRows
    <2>2. CASE ~ Renewable(run.of)
        BY <2>2, SameRows DEF ApprovalEvent
    <2>3. QED
        BY <2>1, <2>2
<1>5. FlagsGood'
    BY Zenon DEF ApprovalEvent, IInv, AdapterGood, FlagsGood
<1>6. faults' \in 0..MaxFaults /\ RepliesKept
    BY <1>1, FaultsSame, SameReplies
<1>7. QED
    BY <1>1, <1>3, <1>4, <1>5, <1>6, RunOnly

LEMMA ApprovalTimesOutGood == ASSUME IInv, ApprovalTimesOut PROVE StepGood
<1>1. /\ run' = run /\ run.at = "draining"
      /\ UNCHANGED <<delivery, replies, gatewayVars, worker, faults>>
    BY DEF ApprovalTimesOut, RunAt
<1>2. RunGood' /\ run'.at # "closing"
    BY <1>1 DEF IInv, AdapterGood, RunGood
<1>3. FlagsGood'
    BY Zenon DEF ApprovalTimesOut, IInv, AdapterGood, FlagsGood
<1>4. QED
    BY <1>1, <1>2, <1>3, FaultsSame, RunGoes

LEMMA RunEndGood == ASSUME IInv, RunCompletes \/ RunFails \/ CloseLost PROVE StepGood
<1>1. /\ run.at \in {"draining", "closing"}
      /\ UNCHANGED <<delivery, replies, gatewayVars, worker, told>>
    BY DEF RunCompletes, RunFails, CloseLost, RunAt
<1>2. RunGood' /\ run'.at # "closing"
    <2>1. CASE RunTo("failing")
        BY <1>1, <2>1, RunMoves DEF RunPlaces
    <2>2. CASE RunCompletes /\ run' = [run EXCEPT !.seq = NextEvent, !.at = "replying"]
        BY <2>2, RunAdvances DEF RunCompletes, RunAt
    <2>3. QED
        BY <2>1, <2>2 DEF RunCompletes, RunFails, CloseLost
<1>3. FlagsGood'
    BY Zenon DEF RunCompletes, RunFails, CloseLost, IInv, AdapterGood, FlagsGood
<1>4. faults' \in 0..MaxFaults
    BY FaultCounts, FaultsSame DEF RunCompletes, RunFails, CloseLost
<1>5. QED
    BY <1>1, <1>2, <1>3, <1>4, RunGoes

LEMMA RunRepliesGood == ASSUME IInv, RunReplies PROVE StepGood
<1>1. /\ run.at = "replying" /\ run.of \in Messages /\ run.seq \in 0..MaxEvents
      /\ UNCHANGED <<delivery, gatewayVars, worker, pending, asked, told>>
    BY DEF RunReplies, RunAt, IInv, AdapterGood, RunGood
<1>2. FlagsGood' /\ RowsKept
    BY <1>1, FlagsSame, SameRows
<1>3. faults' \in 0..MaxFaults
    BY FaultCounts, FaultsSame DEF RunReplies
<1>4. ASSUME Repliable(run.of), replies' = WithReply(run.of, run.seq, "answer")
      PROVE  RepliesKept /\ HasReply(replies', run.of)
    BY <1>1, <1>4, NewReply
<1>5. RepliesKept
    BY <1>4, SameReplies DEF RunReplies
<1>6. CASE RunTo("failing")
    <2>1. RunGood' /\ run'.at = "failing"
        BY <1>1, <1>6, RunMoves DEF RunPlaces
    <2>2. QED
        BY <1>1, <1>2, <1>3, <1>5, <2>1, RunOnly
<1>7. CASE /\ Repliable(run.of) /\ RunTo("closing")
           /\ replies' = WithReply(run.of, run.seq, "answer")
    <2>1. RunGood' /\ run'.of = run.of
        BY <1>1, <1>7, RunMoves DEF RunPlaces
    <2>2. HasReply(replies', run'.of)
        BY <1>4, <1>7, <2>1
    <2>3. QED
        BY <1>1, <1>2, <1>3, <1>5, <2>1, <2>2, RunOnly
<1>8. QED
    BY <1>6, <1>7 DEF RunReplies

LEMMA RunReportGood == ASSUME IInv, RunCloses \/ RunReportsFailure PROVE StepGood
<1>1. /\ run.at \in {"closing", "failing"} /\ run.of \in Messages
      /\ run' = NoRun
      /\ UNCHANGED <<replies, gatewayVars, worker, told>>
    BY DEF RunCloses, RunReportsFailure, RunEnds, RunAt, IInv, AdapterGood, RunGood
<1>2. RunGood' /\ run'.at = "none"
    BY <1>1, RunGone
<1>3. FlagsGood'
    BY Zenon DEF RunCloses, RunReportsFailure, RunEnds, IInv, AdapterGood, FlagsGood
<1>4. faults' \in 0..MaxFaults
    BY FaultCounts, FaultsSame DEF RunCloses, RunReportsFailure
<1>5. RowsKept
    BY <1>1, CompleteDeliveryRows, SameRows DEF RunCloses, RunReportsFailure
<1>6. RepliesKept
    BY <1>1, SameReplies
<1>7. QED
    BY <1>1, <1>2, <1>3, <1>4, <1>5, <1>6, RunOnly

LEMMA RunStepGood == ASSUME IInv, RunStep PROVE StepGood
BY StartRunGood, ToolEventGood, ApprovalEventGood, ApprovalTimesOutGood, RunEndGood,
   RunRepliesGood, RunReportGood DEF RunStep

-----------------------------------------------------------------------------
LEMMA NextGood == ASSUME IInv, Next PROVE StepGood
BY MessageStepGood, ClaimGood, SignalGood, ReclaimGood, WorkerStepGood, RunStepGood,
   HeartbeatGood, RetireGood, PodGood DEF Next, MessageStep

\* The first state satisfies the invariant.
LEMMA InitIInv == Init => IInv
<1> SUFFICES ASSUME Init PROVE IInv
    OBVIOUS
<1>1. RowGood(AbsentRow)
    BY InboundAssumption DEF RowGood, AbsentRow, Rows
<1>2. RowsGood
    BY <1>1 DEF Init, RowsGood, RowGood
<1>3. RepliesGood
    BY DEF Init, RepliesGood
<1>4. GatewayGood
    <2>1. faults \in 0..MaxFaults
        BY InboundAssumption DEF Init
    <2>2. QED
        BY <2>1, Zenon DEF Init, GatewayGood
<1>5. WorkerGood /\ worker.at = "idle"
    BY DEF Init, WorkerGood, IdleWorker, WorkerPlaces, NoMessage
<1>6. RunGood /\ run.at = "none"
    BY InboundAssumption DEF Init, RunGood, NoRun, RunPlaces, NoMessage
<1>7. FlagsGood
    BY Zenon DEF Init, FlagsGood
<1>8. ClosingAnswered
    BY <1>5, <1>6 DEF ClosingAnswered
<1>9. QED
    BY <1>2, <1>3, <1>4, <1>5, <1>6, <1>7, <1>8 DEF IInv, AdapterGood

\* Every step keeps the invariant.
LEMMA NextIInv == IInv /\ [Next]_vars => IInv'
<1> SUFFICES ASSUME IInv, [Next]_vars PROVE IInv'
    OBVIOUS
<1>1. CASE UNCHANGED vars
    <2>1. UNCHANGED <<delivery, replies, retired, running, kind, worker, run, pending,
                      asked, told, faults>>
        BY <1>1 DEF vars, gatewayVars, adapterVars
    <2>2. QED
        BY <2>1 DEF IInv, RowsGood, RepliesGood, GatewayGood, AdapterGood, WorkerGood, RunGood,
            FlagsGood, ClosingAnswered
<1>2. CASE Next
    <2>1. StepGood
        BY <1>2, NextGood
    <2>2. RowsGood' /\ RepliesGood'
        BY <2>1 DEF StepGood, RowsKept, RowKept, RepliesKept, RowsGood
    <2>3. QED
        BY <2>1, <2>2 DEF StepGood, IInv
<1>3. QED
    BY <1>1, <1>2

\* The inductive invariant holds in every reachable state.
THEOREM Invariance == Spec => []IInv
BY InitIInv, NextIInv, PTL DEF Spec

\* Every variable keeps its type; in particular no message is claimed more than
\* MaxAttempts times, whatever is lost, late or restarted.
THEOREM TypeCorrect == Spec => []TypeOK
<1>1. IInv => TypeOK
    BY DEF IInv, RowsGood, RepliesGood, GatewayGood, AdapterGood, WorkerGood, RunGood,
        FlagsGood, TypeOK
<1>2. QED
    BY <1>1, Invariance, PTL

\* A cancellation beats every late success, retry and reply.
THEOREM CancellationWins == Spec => CancelWins
<1>1. ASSUME IInv, [Next]_vars, NEW m \in Messages, delivery[m].cancel_requested
      PROVE  /\ delivery'[m].status \in {"PROCESSING", "CANCELLED"}
             /\ {r \in replies' : r.source = m} = {r \in replies : r.source = m}
    <2>1. CASE UNCHANGED vars
        <3>1. delivery' = delivery /\ replies' = replies
            BY <2>1 DEF vars
        <3>2. delivery[m].status \in {"PROCESSING", "CANCELLED"}
            BY <1>1 DEF IInv, RowsGood, RowGood
        <3>3. QED
            BY <3>1, <3>2
    <2>2. CASE Next
        <3>1. StepGood
            BY <1>1, <2>2, NextGood
        <3>2. delivery'[m].status \in {"PROCESSING", "CANCELLED"}
            BY <1>1, <3>1 DEF StepGood, RowsKept, RowKept, RowGood
        <3>3. \A r \in replies' : r \notin replies => r.source # m
            BY <1>1, <3>1 DEF StepGood, RepliesKept, Repliable
        <3>4. replies \subseteq replies'
            BY <3>1 DEF StepGood, RepliesKept
        <3>5. QED
            BY <3>2, <3>3, <3>4
    <2>3. QED
        BY <1>1, <2>1, <2>2
<1>2. IInv /\ [Next]_vars =>
        \A m \in Messages : delivery[m].cancel_requested =>
          /\ delivery'[m].status \in {"PROCESSING", "CANCELLED"}
          /\ {r \in replies' : r.source = m} = {r \in replies : r.source = m}
    BY <1>1
<1>3. QED
    BY <1>2, Invariance, PTL DEF Spec, CancelWins

\* A settled message stays as it settled, whatever reports come in late.
THEOREM SettledForGood == Spec => SettledStaysSettled
<1>1. ASSUME IInv, [Next]_vars, NEW m \in Messages, delivery[m].status \in Settled
      PROVE  delivery'[m].status = delivery[m].status
    <2>1. CASE UNCHANGED vars
        BY <2>1 DEF vars
    <2>2. CASE Next
        BY <1>1, <2>2, NextGood DEF StepGood, RowsKept, RowKept
    <2>3. QED
        BY <1>1, <2>1, <2>2
<1>2. IInv /\ [Next]_vars =>
        \A m \in Messages :
          delivery[m].status \in Settled => delivery'[m].status = delivery[m].status
    BY <1>1
<1>3. QED
    BY <1>2, Invariance, PTL DEF Spec, SettledStaysSettled

\* Without VERBOSE_MODE, a run or turn that makes its message succeed has its
\* answer queued.  (With it, a progress line of an earlier attempt can hold the
\* answer's idempotency key.)
THEOREM AnswersReachQueue == ASSUME ~ Verbose PROVE Spec => AnswerQueued
<1>1. ASSUME IInv, NEW m \in Messages,
             AnsweredBy(run, m) \/ (AnsweredBy(worker, m) /\ kind = "openclaw")
      PROVE  \E r \in replies : r.source = m /\ r.says = "answer"
    <2>1. HasReply(replies, m)
        BY <1>1 DEF IInv, AdapterGood, ClosingAnswered, AnsweredBy
    <2>2. QED
        BY <1>1, <2>1 DEF HasReply, IInv, RepliesGood
<1>2. IInv /\ [Next]_vars =>
        \A m \in Messages :
          /\ delivery[m].status # "SUCCEEDED" /\ delivery'[m].status = "SUCCEEDED"
          /\ \/ AnsweredBy(run, m) /\ run'.at = "none"
             \/ AnsweredBy(worker, m) /\ kind = "openclaw"
          => \E r \in replies : r.source = m /\ r.says = "answer"
    BY <1>1
<1>3. QED
    BY <1>2, Invariance, PTL DEF Spec, AnswerQueued
=============================================================================

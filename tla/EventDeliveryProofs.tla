------------------------ MODULE EventDeliveryProofs ------------------------
(***************************************************************************)
(* TLAPS proofs about EventDelivery, for every set of events, handlers and  *)
(* workers and every value of the bounds.                                   *)
(***************************************************************************)
EXTENDS EventDelivery, TLAPS

\* A worker that is not idle holds a message of the queue's type.
Busy == \A w \in Workers : pc[w] # "idle" => msg[w] \in Messages

\* Only staged deliveries are ever sent, held, published or swept, so Stage
\* never overwrites a row that another process already works on.
Staged(d) == row[d].status # "ABSENT"
OnlyStaged ==
    /\ \A e \in Events : e \notin {outbox[i] : i \in 1..Len(outbox)} =>
          \A d \in Deliveries : d[1] = e => ~Staged(d)
    /\ \A e \in Events : \A d \in todo[e] \cup sent[e] : Staged(d)
    /\ \A m \in Messages : queue[m] > 0 => Staged(m.id)
    /\ \A w \in Workers : pc[w] # "idle" => Staged(msg[w].id)
    /\ \A d \in claimed : Staged(d)

\* A worker about to record a success ran the handler of its delivery, and
\* whoever runs or ran a handler had counted the attempt.
HandledBeforeMarked ==
    \A w \in Workers :
       LET d == msg[w].id IN
       /\ pc[w] = "handle" => row[d].attempt_count > 0
       /\ pc[w] \in {"load", "commit"} /\ mark[w] = "SUCCEEDED" =>
             d \in handled /\ row[d].attempt_count > 0

\* While an undisturbed claim is held, the row cannot be claimed again: it is
\* PROCESSING with a fresh claim, or dead-lettered under the worker's feet.
HeldNotClaimable ==
    \A d \in Deliveries \ disturbed : \A w \in Workers :
       Holds(w, d) =>
          /\ row[d].status \in {"PROCESSING", "DEAD_LETTERED"}
          /\ ~Claimable(row[d])

-----------------------------------------------------------------------------
\* Facts about the operators.

\* The event of a delivery is an event.
LEMMA DeliveryEvent == \A d \in Deliveries : d[1] \in Events
  BY DEF Deliveries

\* The messages the code sends are messages.
LEMMA MessageType ==
    \A d \in Deliveries :
       /\ \A n \in 0..MaxRetries : ProcessMessage(d, n) \in Messages
       /\ ExhaustedMessage(d) \in Messages
  BY DeliveryAssumption DEF Messages, ProcessMessage, ExhaustedMessage

Queues == [Messages -> 0..MaxCopies]

\* Sending and taking keep the broker's counters in range.
LEMMA QueueType ==
    ASSUME NEW q \in Queues, NEW m \in Messages
    PROVE  /\ Put(q, m) \in Queues
           /\ q[m] > 0 => Take(q, m) \in Queues
           /\ AfterRaise(q, m) \in Queues
<1>1. \A n \in Messages : Put(q, n) \in Queues
  BY DeliveryAssumption DEF Queues, Put
<1>2. q[m] > 0 => Take(q, m) \in Queues
  BY DeliveryAssumption DEF Queues, Take
<1>3. AfterRaise(q, m) \in Queues
  <2>1. m.id \in Deliveries /\ m.retries \in 0..MaxRetries
    BY DEF Messages
  <2>2. m.retries < MaxRetries => ProcessMessage(m.id, m.retries + 1) \in Messages
    BY <2>1, MessageType, DeliveryAssumption
  <2>3. ExhaustedMessage(m.id) \in Messages
    BY <2>1, MessageType
  <2> QED BY <1>1, <2>2, <2>3 DEF AfterRaise
<1> QED BY <1>1, <1>2, <1>3

\* Every write to the table writes a row, and what each writes to the columns
\* the invariants read.
LEMMA NewRow ==
    /\ NoRow \in Rows /\ NoRow.status = "ABSENT" /\ NoRow.dead_letter_reason = "none"
    /\ PendingRow \in Rows
    /\ PendingRow.status = "PENDING" /\ PendingRow.created_at = "fresh"
    /\ PendingRow.dead_letter_reason = "none"
<1>1. 0 \in 0..AttemptCap
  BY DeliveryAssumption
<1> QED BY Zenon, <1>1
     DEF NoRow, PendingRow, Rows, Statuses, Stamps, Terminal, Nullable

\* What mark_delivery_enqueued and the sweep write is an ENQUEUED row that the sweep can find.
LEMMA EnqueuedRow ==
    ASSUME NEW r \in Rows
    PROVE  /\ Enqueued(r) \in Rows
           /\ Enqueued(r).status = "ENQUEUED"
           /\ Enqueued(r).enqueued_at = "fresh"
           /\ Enqueued(r).dead_letter_reason = "none"
           /\ Enqueued(r).attempt_count = r.attempt_count
  BY Zenon DEF Enqueued, Rows, Statuses, Stamps, Nullable

\* What claim_delivery writes is a dated PROCESSING row with at least one attempt.
LEMMA ClaimRow ==
    ASSUME NEW r \in Rows
    PROVE  /\ ClaimedRow(r) \in Rows
           /\ ClaimedRow(r).status = "PROCESSING"
           /\ ClaimedRow(r).claimed_at = "fresh"
           /\ ClaimedRow(r).dead_letter_reason = "none"
           /\ ClaimedRow(r).attempt_count > 0
<1> DEFINE n == IF r.attempt_count < AttemptCap THEN r.attempt_count + 1
                                                ELSE r.attempt_count
<1>1. r.attempt_count \in 0..AttemptCap
  BY DEF Rows
<1>2. n \in 0..AttemptCap /\ n > 0
  BY <1>1, DeliveryAssumption
<1>3. ClaimedRow(r).attempt_count = n
  BY Zenon DEF ClaimedRow, Rows
<1>4. ClaimedRow(r) \in Rows
  BY Zenon, <1>2 DEF ClaimedRow, Rows, Statuses, Stamps, Nullable
<1>5. /\ ClaimedRow(r).status = "PROCESSING"
      /\ ClaimedRow(r).claimed_at = "fresh"
      /\ ClaimedRow(r).dead_letter_reason = "none"
  BY Zenon DEF ClaimedRow, Rows
<1> QED BY <1>2, <1>3, <1>4, <1>5

\* The passing of time changes nothing of a row but the timestamp that went stale.
LEMMA StaleRow ==
    ASSUME NEW r \in Rows
    PROVE  /\ PendingStale(r) \in Rows
           /\ PendingStale(r).created_at = "stale"
           /\ PendingStale(r).status = r.status
           /\ PendingStale(r).dead_letter_reason = r.dead_letter_reason
           /\ PendingStale(r).attempt_count = r.attempt_count
           /\ EnqueuedStale(r) \in Rows
           /\ EnqueuedStale(r).enqueued_at = "stale"
           /\ EnqueuedStale(r).status = r.status
           /\ EnqueuedStale(r).dead_letter_reason = r.dead_letter_reason
           /\ EnqueuedStale(r).attempt_count = r.attempt_count
           /\ ClaimStale(r) \in Rows
           /\ ClaimStale(r).claimed_at = "stale"
           /\ ClaimStale(r).status = r.status
           /\ ClaimStale(r).dead_letter_reason = r.dead_letter_reason
           /\ ClaimStale(r).attempt_count = r.attempt_count
<1>1. /\ PendingStale(r) \in Rows /\ EnqueuedStale(r) \in Rows /\ ClaimStale(r) \in Rows
  BY Zenon DEF PendingStale, EnqueuedStale, ClaimStale, Rows, Stamps
<1>2. /\ PendingStale(r).created_at = "stale"
      /\ PendingStale(r).status = r.status
      /\ PendingStale(r).dead_letter_reason = r.dead_letter_reason
      /\ PendingStale(r).attempt_count = r.attempt_count
  BY Zenon DEF PendingStale, Rows
<1>3. /\ EnqueuedStale(r).enqueued_at = "stale"
      /\ EnqueuedStale(r).status = r.status
      /\ EnqueuedStale(r).dead_letter_reason = r.dead_letter_reason
      /\ EnqueuedStale(r).attempt_count = r.attempt_count
  BY Zenon DEF EnqueuedStale, Rows
<1>4. /\ ClaimStale(r).claimed_at = "stale"
      /\ ClaimStale(r).status = r.status
      /\ ClaimStale(r).dead_letter_reason = r.dead_letter_reason
      /\ ClaimStale(r).attempt_count = r.attempt_count
  BY Zenon DEF ClaimStale, Rows
<1> QED BY <1>1, <1>2, <1>3, <1>4

\* What an unlocked mark may do to a row: it moves the status only to the one
\* it assigns, and then writes the timestamp that goes with it.
LEMMA MarkedRow ==
    ASSUME NEW r \in Rows, NEW s \in Rows, NEW m \in Marks, NEW error \in Nullable
    PROVE  LET t == Marked(r, s, m, error) IN
           /\ t \in Rows
           /\ t.attempt_count = r.attempt_count
           /\ t.created_at = r.created_at
           /\ t.claimed_at = r.claimed_at
           /\ t.enqueued_at \in {r.enqueued_at, "fresh"}
           /\ t.completed_at \in {r.completed_at, "set"}
           /\ t.status # r.status =>
                 \/ m = "SUCCEEDED" /\ t.status = "SUCCEEDED" /\ t.completed_at = "set"
                 \/ m = "RETRYABLE" /\ t.status = "ENQUEUED" /\ t.enqueued_at = "fresh"
                 \/ /\ m \in Reasons
                    /\ t.status = "DEAD_LETTERED" /\ t.completed_at = "set"
<1> DEFINE a == SucceededRow(r, s)
           b == RetryableRow(r, s, error)
           c == DeadLetteredRow(r, s, m, error)
<1>f. \A l, x, n : Flush(l, x, n) = n \/ Flush(l, x, n) = x
  BY DEF Flush
<1>s. \A x \in {"SUCCEEDED", "ENQUEUED", "DEAD_LETTERED"} :
         /\ Flush(s.status, x, r.status) \in {r.status, x}
         /\ Flush(s.status, x, r.status) \in Statuses
  BY <1>f DEF Rows, Statuses, Terminal
<1>d. \A x \in Reasons \cup {"none"} :
         Flush(s.dead_letter_reason, x, r.dead_letter_reason) \in Reasons \cup {"none"}
  BY <1>f DEF Rows
<1>e. Flush(s.last_error, "null", r.last_error) \in Nullable
  BY <1>f DEF Rows, Nullable
<1>1. /\ a \in Rows /\ a.attempt_count = r.attempt_count /\ a.created_at = r.created_at
      /\ a.claimed_at = r.claimed_at /\ a.enqueued_at = r.enqueued_at
      /\ a.completed_at = "set" /\ a.status \in {r.status, "SUCCEEDED"}
  <2>1. /\ a.attempt_count = r.attempt_count /\ a.created_at = r.created_at
        /\ a.claimed_at = r.claimed_at /\ a.enqueued_at = r.enqueued_at
        /\ a.completed_at = "set" /\ a.status = Flush(s.status, "SUCCEEDED", r.status)
    BY Zenon DEF SucceededRow, Rows
  <2>2. a \in Rows
    BY Zenon, <1>s, <1>d, <1>e DEF SucceededRow, Rows, Nullable
  <2> QED BY <2>1, <2>2, <1>s
<1>2. /\ b \in Rows /\ b.attempt_count = r.attempt_count /\ b.created_at = r.created_at
      /\ b.claimed_at = r.claimed_at /\ b.enqueued_at = "fresh"
      /\ b.completed_at = r.completed_at /\ b.status \in {r.status, "ENQUEUED"}
  <2>1. /\ b.attempt_count = r.attempt_count /\ b.created_at = r.created_at
        /\ b.claimed_at = r.claimed_at /\ b.enqueued_at = "fresh"
        /\ b.completed_at = r.completed_at /\ b.status = Flush(s.status, "ENQUEUED", r.status)
    BY Zenon DEF RetryableRow, Rows
  <2>2. b \in Rows
    BY Zenon, <1>s, <1>d DEF RetryableRow, Rows, Stamps
  <2> QED BY <2>1, <2>2, <1>s
<1>3. m \in Reasons =>
      /\ c \in Rows /\ c.attempt_count = r.attempt_count /\ c.created_at = r.created_at
      /\ c.claimed_at = r.claimed_at /\ c.enqueued_at = r.enqueued_at
      /\ c.completed_at = "set" /\ c.status \in {r.status, "DEAD_LETTERED"}
  <2>1. /\ c.attempt_count = r.attempt_count /\ c.created_at = r.created_at
        /\ c.claimed_at = r.claimed_at /\ c.enqueued_at = r.enqueued_at
        /\ c.completed_at = "set" /\ c.status = Flush(s.status, "DEAD_LETTERED", r.status)
    BY Zenon DEF DeadLetteredRow, Rows
  <2>2. m \in Reasons => c \in Rows
    BY Zenon, <1>s, <1>d DEF DeadLetteredRow, Rows, Nullable
  <2> QED BY <2>1, <2>2, <1>s
<1> HIDE DEF a, b, c
<1>4. m \in {"SUCCEEDED", "RETRYABLE"} \/ m \in Reasons
  BY DEF Marks
<1>5. Marked(r, s, m, error) = IF m = "SUCCEEDED" THEN a ELSE IF m = "RETRYABLE" THEN b ELSE c
  BY DEF Marked, a, b, c
<1> QED BY <1>1, <1>2, <1>3, <1>4, <1>5
-----------------------------------------------------------------------------
\* Type correctness.

\* The initial state has its types, and no worker is busy.
LEMMA TypeInit == Init => TypeOK /\ Busy
<1> SUFFICES ASSUME Init PROVE TypeOK /\ Busy
  OBVIOUS
<1>1. row \in [Deliveries -> Rows] /\ snap \in [Workers -> Rows]
  BY NewRow DEF Init
<1>2. outbox \in Seq(Events)
  BY DEF Init
<1>3. queue \in [Messages -> 0..MaxCopies] /\ faults \in 0..MaxFaults
  BY DeliveryAssumption DEF Init
<1>4. /\ pc \in [Workers -> {"idle", "claim", "handle", "load", "commit"}]
      /\ msg \in [Workers -> Messages \cup {NoMessage}]
      /\ mark \in [Workers -> Marks]
  BY DEF Init, Marks
<1>5. /\ todo \in [Events -> SUBSET Deliveries] /\ sent \in [Events -> SUBSET Deliveries]
      /\ claimed \in SUBSET Deliveries
      /\ handled \in SUBSET Deliveries /\ disturbed \in SUBSET Deliveries
  BY DEF Init
<1>6. Busy
  BY DEF Init, Busy
<1> QED BY <1>1, <1>2, <1>3, <1>4, <1>5, <1>6 DEF TypeOK

\* A worker's registers after it has gone back to idle.
LEMMA IdleType ==
    ASSUME TypeOK, Busy, NEW w \in Workers, Idle(w)
    PROVE  /\ pc' \in [Workers -> {"idle", "claim", "handle", "load", "commit"}]
           /\ msg' \in [Workers -> Messages \cup {NoMessage}]
           /\ mark' \in [Workers -> Marks]
           /\ snap' \in [Workers -> Rows]
           /\ Busy'
  BY NewRow DEF TypeOK, Busy, Idle, Marks

\* Every step keeps the types, and that a busy worker holds a real message.
LEMMA TypeNext == TypeOK /\ Busy /\ [Next]_vars => TypeOK' /\ Busy'
<1> SUFFICES ASSUME TypeOK, Busy, [Next]_vars PROVE TypeOK' /\ Busy'
  OBVIOUS
<1> USE DEF dispatchVars, workerVars, historyVars
<1>0. /\ queue \in Queues /\ \A w \in Workers : pc[w] # "idle" => msg[w].id \in Deliveries
      /\ row \in [Deliveries -> Rows]
  BY DEF TypeOK, Busy, Queues, Messages
<1>f. Fault => faults' \in 0..MaxFaults
  BY DeliveryAssumption DEF TypeOK, Fault
<1>1. ASSUME NEW e \in Events, Stage(e) PROVE TypeOK' /\ Busy'
  <2>1. row' \in [Deliveries -> Rows]
    BY <1>1, NewRow DEF Stage, TypeOK
  <2>2. outbox' \in Seq(Events) /\ todo' \in [Events -> SUBSET Deliveries]
    BY <1>1 DEF Stage, TypeOK
  <2> QED BY <1>1, <2>1, <2>2 DEF Stage, TypeOK, Busy
<1>2. ASSUME NEW e \in Events, ApiCrash(e) PROVE TypeOK' /\ Busy'
  BY <1>2, <1>f DEF ApiCrash, TypeOK, Busy
<1>3. ASSUME NEW d \in Deliveries, DispatchSend(d) PROVE TypeOK' /\ Busy'
  <2>1. queue' \in Queues
    BY <1>0, <1>3, QueueType, MessageType, DeliveryAssumption DEF DispatchSend
  <2>2. todo' \in [Events -> SUBSET Deliveries] /\ sent' \in [Events -> SUBSET Deliveries]
    BY <1>3, DeliveryEvent DEF DispatchSend, TypeOK
  <2> QED BY <1>3, <2>1, <2>2 DEF DispatchSend, TypeOK, Busy, Queues
<1>4. ASSUME NEW d \in Deliveries, DispatchMark(d) PROVE TypeOK' /\ Busy'
  <2>1. row' \in [Deliveries -> Rows]
    BY <1>0, <1>4, EnqueuedRow DEF DispatchMark
  <2>2. sent' \in [Events -> SUBSET Deliveries] /\ disturbed' \in SUBSET Deliveries
    BY <1>4 DEF DispatchMark, TypeOK
  <2> QED BY <1>4, <2>1, <2>2 DEF DispatchMark, TypeOK, Busy
<1>5. ASSUME NEW d \in Deliveries, DispatchError(d) PROVE TypeOK' /\ Busy'
  BY <1>5, <1>f, DeliveryEvent DEF DispatchError, TypeOK, Busy
<1>6. ASSUME NEW w \in Workers, NEW d \in Deliveries, NEW n \in 0..MaxRetries,
             \/ ReceiveSettled(w, d, n) \/ ReceiveValid(w, d, n)
             \/ \E reason \in Verdicts : ReceiveInvalid(w, d, n, reason)
      PROVE  TypeOK' /\ Busy'
  <2> DEFINE m == ProcessMessage(d, n)
  <2>1. m \in Messages
    BY MessageType
  <2>2. queue[m] > 0 /\ queue' = Take(queue, m)
    BY <1>6 DEF ReceiveSettled, ReceiveValid, ReceiveInvalid
  <2>3. queue' \in Queues
    BY <1>0, <2>1, <2>2, QueueType
  <2> HIDE DEF m
  <2>4. CASE ReceiveSettled(w, d, n)
    BY <2>3, <2>4 DEF ReceiveSettled, TypeOK, Busy, Queues
  <2>5. CASE ReceiveValid(w, d, n)
    <3>1. /\ pc' = [pc EXCEPT ![w] = "claim"] /\ msg' = [msg EXCEPT ![w] = m]
          /\ mark' = mark /\ snap' = snap
      BY <2>5 DEF ReceiveValid, m
    <3>2. /\ pc' \in [Workers -> {"idle", "claim", "handle", "load", "commit"}]
          /\ msg' \in [Workers -> Messages \cup {NoMessage}]
          /\ mark' \in [Workers -> Marks] /\ snap' \in [Workers -> Rows] /\ Busy'
      BY <2>1, <3>1 DEF TypeOK, Busy
    <3> QED BY <2>3, <2>5, <3>2 DEF ReceiveValid, TypeOK, Queues
  <2>6. ASSUME NEW reason \in Verdicts, ReceiveInvalid(w, d, n, reason) PROVE TypeOK' /\ Busy'
    <3>1. /\ pc' = [pc EXCEPT ![w] = "load"] /\ msg' = [msg EXCEPT ![w] = m]
          /\ mark' = [mark EXCEPT ![w] = reason] /\ snap' = snap
      BY <2>6 DEF ReceiveInvalid, m
    <3>2. reason \in Marks
      BY DeliveryAssumption DEF Marks, Reasons
    <3>3. /\ pc' \in [Workers -> {"idle", "claim", "handle", "load", "commit"}]
          /\ msg' \in [Workers -> Messages \cup {NoMessage}]
          /\ mark' \in [Workers -> Marks] /\ snap' \in [Workers -> Rows] /\ Busy'
      BY <2>1, <3>1, <3>2 DEF TypeOK, Busy
    <3> QED BY <2>3, <2>6, <3>3 DEF ReceiveInvalid, TypeOK, Queues
  <2> QED BY <1>6, <2>4, <2>5, <2>6
<1>7. ASSUME NEW w \in Workers, NEW d \in Deliveries, ReceiveExhausted(w, d)
      PROVE  TypeOK' /\ Busy'
  <2> DEFINE m == ExhaustedMessage(d)
  <2>1. m \in Messages
    BY MessageType
  <2>2. queue' \in Queues
    BY <1>0, <1>7, <2>1, QueueType DEF ReceiveExhausted
  <2>3. /\ pc' = [pc EXCEPT ![w] = "load"] /\ msg' = [msg EXCEPT ![w] = m]
        /\ mark' = [mark EXCEPT ![w] = "RETRY_EXHAUSTED"] /\ snap' = snap
    BY <1>7 DEF ReceiveExhausted
  <2> HIDE DEF m
  <2>4. /\ pc' \in [Workers -> {"idle", "claim", "handle", "load", "commit"}]
        /\ msg' \in [Workers -> Messages \cup {NoMessage}]
        /\ mark' \in [Workers -> Marks] /\ snap' \in [Workers -> Rows] /\ Busy'
    BY <2>1, <2>3 DEF TypeOK, Busy, Marks, Reasons
  <2> QED BY <1>7, <2>2, <2>4 DEF ReceiveExhausted, TypeOK, Queues
<1>8. ASSUME NEW w \in Workers, Claim(w) PROVE TypeOK' /\ Busy'
  <2>1. row' \in [Deliveries -> Rows]
    BY <1>0, <1>8, ClaimRow DEF Claim
  <2>2. pc' \in [Workers -> {"idle", "claim", "handle", "load", "commit"}] /\ Busy'
    BY <1>8 DEF Claim, TypeOK, Busy
  <2> QED BY <1>8, <2>1, <2>2 DEF Claim, TypeOK
<1>9. ASSUME NEW w \in Workers, ClaimRefused(w) PROVE TypeOK' /\ Busy'
  BY <1>9, IdleType DEF ClaimRefused, TypeOK
<1>10. ASSUME NEW w \in Workers,
              HandlerSucceeds(w) \/ HandlerFailsForGood(w) \/ HandlerFails(w)
       PROVE  TypeOK' /\ Busy'
  <2>1. /\ pc' \in [Workers -> {"idle", "claim", "handle", "load", "commit"}] /\ Busy'
        /\ mark' \in [Workers -> Marks]
    BY <1>10 DEF HandlerSucceeds, HandlerFailsForGood, HandlerFails, TypeOK, Busy, Marks, Reasons
  <2>2. handled' \in SUBSET Deliveries /\ faults' \in 0..MaxFaults
    BY <1>0, <1>10, <1>f DEF HandlerSucceeds, HandlerFailsForGood, HandlerFails, TypeOK
  <2> QED BY <1>10, <2>1, <2>2 DEF HandlerSucceeds, HandlerFailsForGood, HandlerFails, TypeOK
<1>11. ASSUME NEW w \in Workers, MarkLoad(w) PROVE TypeOK' /\ Busy'
  <2>1. snap' \in [Workers -> Rows]
    BY <1>0, <1>11 DEF MarkLoad, TypeOK
  <2>2. pc' \in [Workers -> {"idle", "claim", "handle", "load", "commit"}] /\ Busy'
    BY <1>11 DEF MarkLoad, TypeOK, Busy
  <2> QED BY <1>11, <2>1, <2>2 DEF MarkLoad, TypeOK
<1>12. ASSUME NEW w \in Workers, MarkCommit(w) PROVE TypeOK' /\ Busy'
  <2>1. PICK error \in ErrorWrites(row[msg[w].id], snap[w]) :
           row' = [row EXCEPT ![msg[w].id] = Marked(row[msg[w].id], snap[w], mark[w], error)]
    BY <1>12 DEF MarkCommit
  <2>2. row[msg[w].id] \in Rows /\ snap[w] \in Rows /\ mark[w] \in Marks
    BY <1>0, <1>12 DEF MarkCommit, TypeOK
  <2>3. error \in Nullable
    BY <2>2 DEF ErrorWrites, Rows, Nullable
  <2>4. row' \in [Deliveries -> Rows]
    BY <1>0, <2>1, <2>2, <2>3, MarkedRow
  <2>5. queue' \in Queues
    BY <1>0, <1>12, QueueType DEF MarkCommit, Busy
  <2> QED BY <1>12, <2>4, <2>5, IdleType DEF MarkCommit, TypeOK, Queues
<1>13. ASSUME NEW w \in Workers, MarkRejected(w) \/ WorkerRaises(w) \/ WorkerCrash(w)
       PROVE  TypeOK' /\ Busy'
  <2>1. queue' \in Queues
    BY <1>0, <1>13, QueueType DEF MarkRejected, WorkerRaises, WorkerCrash, Busy
  <2>2. faults' \in 0..MaxFaults
    BY <1>13, <1>f DEF MarkRejected, WorkerRaises, WorkerCrash, TypeOK
  <2> QED BY <1>13, <2>1, <2>2, IdleType
          DEF MarkRejected, WorkerRaises, WorkerCrash, TypeOK, Queues
<1>14. ASSUME NEW w \in Workers, Redeliver(w) PROVE TypeOK' /\ Busy'
  <2>1. queue' \in Queues
    BY <1>0, <1>14, QueueType DEF Redeliver, Busy
  <2> QED BY <1>14, <1>f, <2>1 DEF Redeliver, TypeOK, Busy, Queues
<1>15. ASSUME NEW m \in Messages, Lose(m) PROVE TypeOK' /\ Busy'
  <2>1. queue' \in Queues
    BY <1>0, <1>15, QueueType DEF Lose
  <2> QED BY <1>15, <1>f, <2>1 DEF Lose, TypeOK, Busy, Queues
<1>16. ASSUME NEW S \in SUBSET Deliveries, ReconcileClaim(S) PROVE TypeOK' /\ Busy'
  <2>1. row' \in [Deliveries -> Rows]
    BY <1>0, <1>16, EnqueuedRow DEF ReconcileClaim
  <2> QED BY <1>16, <2>1 DEF ReconcileClaim, TypeOK, Busy
<1>17. ASSUME NEW d \in Deliveries, ReconcilePublish(d) PROVE TypeOK' /\ Busy'
  <2>1. queue' \in Queues
    BY <1>0, <1>17, QueueType, MessageType, DeliveryAssumption DEF ReconcilePublish
  <2> QED BY <1>17, <2>1 DEF ReconcilePublish, TypeOK, Busy, Queues
<1>18. ASSUME NEW S \in SUBSET Deliveries, ReconcileFails(S) PROVE TypeOK' /\ Busy'
  BY <1>18, <1>f DEF ReconcileFails, TypeOK, Busy
<1>19. ASSUME NEW d \in Deliveries, Ages(d) \/ ClaimOverruns(d) PROVE TypeOK' /\ Busy'
  <2>1. row' \in [Deliveries -> Rows]
    BY <1>0, <1>19, StaleRow DEF Ages, PendingAges, EnqueuedAges, ClaimAges, ClaimOverruns
  <2>2. faults' \in 0..MaxFaults /\ disturbed' \in SUBSET Deliveries
    BY <1>19, <1>f DEF Ages, PendingAges, EnqueuedAges, ClaimAges, ClaimOverruns, TypeOK
  <2> QED BY <1>19, <2>1, <2>2
          DEF Ages, PendingAges, EnqueuedAges, ClaimAges, ClaimOverruns, TypeOK, Busy
<1>20. CASE UNCHANGED vars
  BY <1>20 DEF vars, TypeOK, Busy
<1> QED BY <1>1, <1>2, <1>3, <1>4, <1>5, <1>6, <1>7, <1>8, <1>9, <1>10, <1>11, <1>12,
           <1>13, <1>14, <1>15, <1>16, <1>17, <1>18, <1>19, <1>20
        DEF Next, Dispatch, Receive, WorkerStep, Reconcile, Faults

\* The table, the queue and the workers' registers keep their types whatever
\* the API, the workers, the broker and the reconciler do.
THEOREM TypeCorrect == Spec => []TypeOK
<1>1. Init => TypeOK /\ Busy
  BY TypeInit
<1>2. TypeOK /\ Busy /\ [Next]_vars => (TypeOK /\ Busy)'
  BY TypeNext
<1> QED BY <1>1, <1>2, PTL DEF Spec
-----------------------------------------------------------------------------
\* Only staged deliveries move.

\* A message that a send or a retry adds is about the delivery it is sent for.
LEMMA QueueGrows ==
    ASSUME NEW q \in Queues, NEW m \in Messages, NEW n \in Messages
    PROVE  /\ Put(q, m)[n] > 0 => q[n] > 0 \/ n = m
           /\ q[m] > 0 /\ Take(q, m)[n] > 0 => q[n] > 0
           /\ AfterRaise(q, m)[n] > 0 => q[n] > 0 \/ n.id = m.id
<1>1. \A k \in Messages : Put(q, k)[n] > 0 => q[n] > 0 \/ n = k
  BY DeliveryAssumption DEF Queues, Put
<1>2. q[m] > 0 /\ Take(q, m)[n] > 0 => q[n] > 0
  BY DeliveryAssumption DEF Queues, Take
<1>3. AfterRaise(q, m)[n] > 0 => q[n] > 0 \/ n.id = m.id
  <2>1. m.id \in Deliveries /\ m.retries \in 0..MaxRetries
    BY DEF Messages
  <2>2. /\ m.retries < MaxRetries => ProcessMessage(m.id, m.retries + 1) \in Messages
        /\ ProcessMessage(m.id, m.retries + 1).id = m.id
    BY <2>1, MessageType, DeliveryAssumption DEF ProcessMessage
  <2>3. ExhaustedMessage(m.id) \in Messages /\ ExhaustedMessage(m.id).id = m.id
    BY <2>1, MessageType DEF ExhaustedMessage
  <2> QED BY <1>1, <2>2, <2>3 DEF AfterRaise
<1> QED BY <1>1, <1>2, <1>3

\* No step sends, holds or sweeps a delivery that was never staged.
LEMMA OnlyStagedNext ==
    TypeOK /\ Busy /\ OnlyStaged /\ [Next]_vars => OnlyStaged'
<1> SUFFICES ASSUME TypeOK, Busy, OnlyStaged, [Next]_vars PROVE OnlyStaged'
  OBVIOUS
<1> USE DEF dispatchVars, workerVars, historyVars
<1>0. /\ queue \in Queues
      /\ \A w \in Workers : pc[w] # "idle" => msg[w] \in Messages /\ msg[w].id \in Deliveries
      /\ row \in [Deliveries -> Rows] /\ \A m \in Messages : m.id \in Deliveries
  BY DEF TypeOK, Busy, Queues, Messages
<1>s. /\ \A d \in Deliveries : Enqueued(row[d]).status # "ABSENT"
      /\ \A d \in Deliveries : ClaimedRow(row[d]).status # "ABSENT"
      /\ \A d \in Deliveries : /\ PendingStale(row[d]).status = row[d].status
                               /\ EnqueuedStale(row[d]).status = row[d].status
                               /\ ClaimStale(row[d]).status = row[d].status
  BY <1>0, EnqueuedRow, ClaimRow, StaleRow
\* Unless a row is staged by this very step, no row becomes staged.
<1>a. ASSUME outbox' = outbox, \A d \in Deliveries : Staged(d)' <=> Staged(d),
             \A e \in Events : todo'[e] \cup sent'[e] \subseteq todo[e] \cup sent[e],
             \A m \in Messages : queue'[m] > 0 => queue[m] > 0 \/ Staged(m.id),
             \A w \in Workers : pc'[w] # "idle" => Staged(msg'[w].id) /\ msg'[w].id \in Deliveries,
             \A d \in claimed' : Staged(d) /\ d \in Deliveries
      PROVE  OnlyStaged'
  <2>1. \A e \in Events : e \notin {outbox'[i] : i \in 1..Len(outbox')} =>
           \A d \in Deliveries : d[1] = e => ~Staged(d)'
    BY <1>a DEF OnlyStaged
  <2>2. \A e \in Events : \A d \in todo'[e] \cup sent'[e] : Staged(d)'
    BY <1>a DEF OnlyStaged, TypeOK
  <2>3. \A m \in Messages : queue'[m] > 0 => Staged(m.id)'
    BY <1>0, <1>a DEF OnlyStaged
  <2> QED BY <1>a, <2>1, <2>2, <2>3 DEF OnlyStaged, Staged
<1>b. ASSUME NEW w \in Workers, Idle(w)
      PROVE  \A v \in Workers : pc'[v] # "idle" => Staged(msg'[v].id) /\ msg'[v].id \in Deliveries
  BY <1>0, <1>b DEF Idle, OnlyStaged, TypeOK
<1>c. /\ \A w \in Workers : pc[w] # "idle" => Staged(msg[w].id) /\ msg[w].id \in Deliveries
      /\ \A d \in claimed : Staged(d) /\ d \in Deliveries
      /\ \A m \in Messages : queue[m] > 0 => Staged(m.id)
      /\ \A e \in Events : \A d \in todo[e] \cup sent[e] : Staged(d)
  BY <1>0 DEF OnlyStaged, TypeOK
<1>1. ASSUME NEW e \in Events, Stage(e) PROVE OnlyStaged'
  <2>1. \A d \in Deliveries : /\ d[1] = e => Staged(d)'
                              /\ d[1] # e => (Staged(d)' <=> Staged(d))
                              /\ Staged(d) => Staged(d)'
    BY <1>1, NewRow DEF Stage, Staged
  <2>2. \A x \in Events : x \notin {outbox'[i] : i \in 1..Len(outbox')} =>
            x # e /\ x \notin {outbox[i] : i \in 1..Len(outbox)}
    <3>1. outbox \in Seq(Events) /\ outbox' = Append(outbox, e)
      BY <1>1 DEF Stage, TypeOK
    <3> QED BY <3>1
  <2>3. \A x \in Events : x \notin {outbox'[i] : i \in 1..Len(outbox')} =>
           \A d \in Deliveries : d[1] = x => ~Staged(d)'
    BY <2>1, <2>2 DEF OnlyStaged
  <2>4. \A x \in Events : \A d \in todo'[x] \cup sent'[x] : Staged(d)'
    BY <1>1, <1>c, <2>1 DEF Stage, TypeOK
  <2>5. /\ \A m \in Messages : queue'[m] > 0 => Staged(m.id)'
        /\ \A w \in Workers : pc'[w] # "idle" => Staged(msg[w].id)'
        /\ \A d \in claimed' : Staged(d)'
    BY <1>0, <1>1, <1>c, <2>1 DEF Stage
  <2>6. msg' = msg
    BY <1>1 DEF Stage
  <2> QED BY <2>3, <2>4, <2>5, <2>6 DEF OnlyStaged, Staged
<1>2. ASSUME NEW e \in Events, ApiCrash(e) PROVE OnlyStaged'
  BY <1>2, <1>a, <1>c DEF ApiCrash, TypeOK, Staged
<1>3. ASSUME NEW d \in Deliveries, DispatchSend(d) PROVE OnlyStaged'
  <2>1. d[1] \in Events /\ d \in todo[d[1]]
    BY <1>3, DeliveryEvent DEF DispatchSend
  <2>2. ProcessMessage(d, 0) \in Messages /\ ProcessMessage(d, 0).id = d
    BY MessageType, DeliveryAssumption DEF ProcessMessage
  <2>3. \A m \in Messages : queue'[m] > 0 => queue[m] > 0 \/ Staged(m.id)
    BY <1>0, <1>3, <1>c, <2>1, <2>2, QueueGrows DEF DispatchSend
  <2>4. \A e \in Events : todo'[e] \cup sent'[e] \subseteq todo[e] \cup sent[e]
    BY <1>3, <2>1 DEF DispatchSend, TypeOK
  <2> QED BY <1>3, <1>a, <1>c, <2>3, <2>4 DEF DispatchSend, Staged
<1>4. ASSUME NEW d \in Deliveries, DispatchMark(d) PROVE OnlyStaged'
  <2>1. d[1] \in Events /\ d \in sent[d[1]] /\ Staged(d)
    BY <1>4, <1>c, DeliveryEvent DEF DispatchMark
  <2>2. \A c \in Deliveries : Staged(c)' <=> Staged(c)
    BY <1>0, <1>4, <1>s, <2>1 DEF DispatchMark, Staged
  <2>3. \A e \in Events : todo'[e] \cup sent'[e] \subseteq todo[e] \cup sent[e]
    BY <1>4, <2>1 DEF DispatchMark, TypeOK
  <2> QED BY <1>4, <1>a, <1>c, <2>2, <2>3 DEF DispatchMark
<1>5. ASSUME NEW d \in Deliveries, DispatchError(d) PROVE OnlyStaged'
  <2>1. \A e \in Events : todo'[e] \cup sent'[e] \subseteq todo[e] \cup sent[e]
    BY <1>5, DeliveryEvent DEF DispatchError, TypeOK
  <2> QED BY <1>5, <1>a, <1>c, <2>1 DEF DispatchError, Staged
<1>6. ASSUME NEW w \in Workers, Receive(w) PROVE OnlyStaged'
  <2>1. PICK m \in Messages :
          /\ queue[m] > 0 /\ queue' = Take(queue, m)
          /\ \/ UNCHANGED <<pc, msg>>
             \/ \E p \in {"claim", "load"} :
                   pc' = [pc EXCEPT ![w] = p] /\ msg' = [msg EXCEPT ![w] = m]
    BY <1>6, MessageType
    DEF Receive, ReceiveSettled, ReceiveValid, ReceiveInvalid, ReceiveExhausted
  <2>2. UNCHANGED <<row, outbox, todo, sent, claimed>>
    BY <1>6 DEF Receive, ReceiveSettled, ReceiveValid, ReceiveInvalid, ReceiveExhausted
  <2>3. \A n \in Messages : queue'[n] > 0 => queue[n] > 0
    BY <1>0, <2>1, QueueGrows
  <2>4. \A v \in Workers : pc'[v] # "idle" => Staged(msg'[v].id) /\ msg'[v].id \in Deliveries
    BY <1>0, <1>c, <2>1 DEF TypeOK
  <2> QED BY <1>a, <1>c, <2>2, <2>3, <2>4 DEF Staged
<1>7. ASSUME NEW w \in Workers, Claim(w) PROVE OnlyStaged'
  <2>1. \A d \in Deliveries : Staged(d)' <=> Staged(d)
    BY <1>0, <1>7, <1>c, <1>s DEF Claim, Staged
  <2> QED BY <1>7, <1>a, <1>c, <2>1 DEF Claim, TypeOK
<1>8. ASSUME NEW w \in Workers, ClaimRefused(w) PROVE OnlyStaged'
  <2>1. UNCHANGED <<row, outbox, todo, sent, queue, claimed>> /\ Idle(w)
    BY <1>8 DEF ClaimRefused
  <2> QED BY <1>a, <1>b, <1>c, <2>1 DEF Staged
<1>9. ASSUME NEW w \in Workers,
             \/ HandlerSucceeds(w) \/ HandlerFailsForGood(w) \/ HandlerFails(w) \/ MarkLoad(w)
      PROVE  OnlyStaged'
  <2>1. UNCHANGED <<row, outbox, todo, sent, queue, claimed, msg>>
    BY <1>9 DEF HandlerSucceeds, HandlerFailsForGood, HandlerFails, MarkLoad
  <2>2. \A v \in Workers : pc'[v] # "idle" => pc[v] # "idle"
    BY <1>9 DEF HandlerSucceeds, HandlerFailsForGood, HandlerFails, MarkLoad, TypeOK
  <2> QED BY <1>a, <1>c, <2>1, <2>2 DEF Staged
<1>10. ASSUME NEW w \in Workers, MarkCommit(w) PROVE OnlyStaged'
  <2> DEFINE d == msg[w].id
  <2>1. PICK error \in ErrorWrites(row[d], snap[w]) :
           row' = [row EXCEPT ![d] = Marked(row[d], snap[w], mark[w], error)]
    BY <1>10 DEF MarkCommit
  <2>2. /\ d \in Deliveries /\ Staged(d) /\ msg[w] \in Messages
        /\ row[d] \in Rows /\ snap[w] \in Rows /\ mark[w] \in Marks
    BY <1>0, <1>10, <1>c DEF MarkCommit, TypeOK
  <2>3. error \in Nullable
    BY <2>2 DEF ErrorWrites, Rows, Nullable
  <2>4. Marked(row[d], snap[w], mark[w], error).status # "ABSENT"
    BY <2>2, <2>3, MarkedRow DEF Staged
  <2>5. \A c \in Deliveries : Staged(c)' <=> Staged(c)
    BY <1>0, <2>1, <2>2, <2>4 DEF Staged
  <2>6. \A m \in Messages : queue'[m] > 0 => queue[m] > 0 \/ Staged(m.id)
    BY <1>0, <1>10, <2>2, QueueGrows DEF MarkCommit
  <2>7. UNCHANGED <<outbox, todo, sent, claimed>> /\ Idle(w)
    BY <1>10 DEF MarkCommit
  <2> QED BY <1>a, <1>b, <1>c, <2>5, <2>6, <2>7
<1>11. ASSUME NEW w \in Workers, MarkRejected(w) \/ WorkerRaises(w) \/ WorkerCrash(w)
       PROVE  OnlyStaged'
  <2>1. UNCHANGED <<row, outbox, todo, sent, claimed>> /\ Idle(w)
    BY <1>11 DEF MarkRejected, WorkerRaises, WorkerCrash
  <2>2. msg[w] \in Messages /\ Staged(msg[w].id)
    BY <1>0, <1>11, <1>c DEF MarkRejected, WorkerRaises, WorkerCrash
  <2>3. queue' = AfterRaise(queue, msg[w]) \/ queue' = Put(queue, msg[w])
    BY <1>11 DEF MarkRejected, WorkerRaises, WorkerCrash
  <2>4. \A m \in Messages : queue'[m] > 0 => queue[m] > 0 \/ Staged(m.id)
    BY <1>0, <2>2, <2>3, QueueGrows
  <2> QED BY <1>a, <1>b, <1>c, <2>1, <2>4 DEF Staged
<1>12. ASSUME NEW w \in Workers, Redeliver(w) PROVE OnlyStaged'
  <2>1. \A m \in Messages : queue'[m] > 0 => queue[m] > 0 \/ Staged(m.id)
    BY <1>0, <1>12, <1>c, QueueGrows DEF Redeliver
  <2> QED BY <1>12, <1>a, <1>c, <2>1 DEF Redeliver, Staged
<1>13. ASSUME NEW m \in Messages, Lose(m) PROVE OnlyStaged'
  <2>1. \A n \in Messages : queue'[n] > 0 => queue[n] > 0
    BY <1>0, <1>13, QueueGrows DEF Lose
  <2> QED BY <1>13, <1>a, <1>c, <2>1 DEF Lose, Staged
<1>14. ASSUME NEW S \in SUBSET Deliveries, ReconcileClaim(S) PROVE OnlyStaged'
  <2>1. \A d \in S : Staged(d)
    BY <1>14 DEF ReconcileClaim, Batch, Stuck, Staged
  <2>2. \A d \in Deliveries : Staged(d)' <=> Staged(d)
    BY <1>0, <1>14, <1>s, <2>1 DEF ReconcileClaim, Staged
  <2> QED BY <1>14, <1>a, <1>c, <2>1, <2>2 DEF ReconcileClaim
<1>15. ASSUME NEW d \in Deliveries, ReconcilePublish(d) PROVE OnlyStaged'
  <2>1. ProcessMessage(d, 0) \in Messages /\ ProcessMessage(d, 0).id = d
    BY MessageType, DeliveryAssumption DEF ProcessMessage
  <2>2. \A m \in Messages : queue'[m] > 0 => queue[m] > 0 \/ Staged(m.id)
    BY <1>0, <1>15, <1>c, <2>1, QueueGrows DEF ReconcilePublish
  <2> QED BY <1>15, <1>a, <1>c, <2>2 DEF ReconcilePublish, Staged
<1>16. ASSUME NEW S \in SUBSET Deliveries, ReconcileFails(S) PROVE OnlyStaged'
  BY <1>16, <1>a, <1>c DEF ReconcileFails, Staged
<1>17. ASSUME NEW d \in Deliveries, Ages(d) \/ ClaimOverruns(d) PROVE OnlyStaged'
  <2>1. \A c \in Deliveries : Staged(c)' <=> Staged(c)
    BY <1>0, <1>17, <1>s
    DEF Ages, PendingAges, EnqueuedAges, ClaimAges, ClaimOverruns, Staged
  <2>2. UNCHANGED <<outbox, todo, sent, queue, pc, msg, claimed>>
    BY <1>17 DEF Ages, PendingAges, EnqueuedAges, ClaimAges, ClaimOverruns
  <2> QED BY <1>a, <1>c, <2>1, <2>2
<1>18. CASE UNCHANGED vars
  BY <1>18, <1>a, <1>c DEF vars, Staged
<1> QED BY <1>1, <1>2, <1>3, <1>4, <1>5, <1>6, <1>7, <1>8, <1>9, <1>10, <1>11, <1>12,
           <1>13, <1>14, <1>15, <1>16, <1>17, <1>18
        DEF Next, Dispatch, WorkerStep, Reconcile, Faults
-----------------------------------------------------------------------------
\* Rows stay consistent.

\* The writes a step can make to one row, each with the reason it may.
RowEffect(d) ==
    \/ row'[d] = row[d]
    \/ /\ row'[d] = PendingRow
       /\ d[1] \notin {outbox[i] : i \in 1..Len(outbox)}
    \/ /\ row'[d] = Enqueued(row[d])
       /\ row[d].status \notin Terminal
       /\ Held(d) => Stuck(row[d]) \/ d \in disturbed'
    \/ /\ row'[d] = ClaimedRow(row[d])
       /\ Claimable(row[d])
    \/ row'[d] = PendingStale(row[d]) /\ row[d].status = "PENDING"
    \/ row'[d] = EnqueuedStale(row[d]) /\ row[d].status = "ENQUEUED"
    \/ row'[d] = ClaimStale(row[d]) /\ (Held(d) => d \in disturbed')
    \/ \E w \in Workers, error \in Nullable :
          /\ MarkCommit(w) /\ msg[w].id = d
          /\ snap[w] \in Rows /\ mark[w] \in Marks
          /\ row'[d] = Marked(row[d], snap[w], mark[w], error)
          /\ ReasonMatchesStatus(row'[d])

\* Every step writes each row in one of the listed ways.
LEMMA RowEffects ==
    TypeOK /\ Busy /\ [Next]_vars => \A d \in Deliveries : RowEffect(d)
<1> SUFFICES ASSUME TypeOK, Busy, [Next]_vars, NEW d \in Deliveries PROVE RowEffect(d)
  OBVIOUS
<1> USE DEF dispatchVars, workerVars, historyVars
<1>0. /\ row \in [Deliveries -> Rows]
      /\ \A w \in Workers : pc[w] # "idle" => msg[w].id \in Deliveries
  BY DEF TypeOK, Busy, Messages
<1>1. ASSUME NEW e \in Events, Stage(e) PROVE RowEffect(d)
  BY <1>1 DEF Stage, RowEffect
<1>2. ASSUME NEW c \in Deliveries, DispatchMark(c) PROVE RowEffect(d)
  BY <1>0, <1>2 DEF DispatchMark, RowEffect
<1>3. ASSUME NEW w \in Workers, Claim(w) PROVE RowEffect(d)
  BY <1>0, <1>3 DEF Claim, RowEffect
<1>4. ASSUME NEW w \in Workers, MarkCommit(w) PROVE RowEffect(d)
  <2> DEFINE c == msg[w].id
  <2>1. PICK error \in ErrorWrites(row[c], snap[w]) :
          /\ ReasonMatchesStatus(Marked(row[c], snap[w], mark[w], error))
          /\ row' = [row EXCEPT ![c] = Marked(row[c], snap[w], mark[w], error)]
    BY <1>4 DEF MarkCommit
  <2>2. c \in Deliveries /\ row[c] \in Rows /\ snap[w] \in Rows /\ mark[w] \in Marks
    BY <1>0, <1>4 DEF MarkCommit, TypeOK
  <2>3. error \in Nullable
    BY <2>2 DEF ErrorWrites, Rows, Nullable
  <2>4. CASE d = c
    <3>1. row'[d] = Marked(row[d], snap[w], mark[w], error) /\ ReasonMatchesStatus(row'[d])
      BY <1>0, <2>1, <2>4
    <3> QED BY <1>4, <2>2, <2>3, <2>4, <3>1 DEF RowEffect
  <2>5. CASE d # c
    BY <1>0, <2>1, <2>5 DEF RowEffect
  <2> QED BY <2>4, <2>5
<1>5. ASSUME NEW S \in SUBSET Deliveries, ReconcileClaim(S) PROVE RowEffect(d)
  <2>1. d \in S => Stuck(row[d]) /\ row[d].status \notin Terminal
    BY <1>5 DEF ReconcileClaim, Batch, Stuck, Terminal
  <2> QED BY <1>5, <2>1 DEF ReconcileClaim, RowEffect
<1>6. ASSUME NEW c \in Deliveries, Ages(c) \/ ClaimOverruns(c) PROVE RowEffect(d)
  BY <1>0, <1>6 DEF Ages, PendingAges, EnqueuedAges, ClaimAges, ClaimOverruns, RowEffect
<1>7. CASE UNCHANGED row
  BY <1>7 DEF RowEffect
<1>8. ASSUME NEW w \in Workers,
             \/ Receive(w) \/ ClaimRefused(w) \/ HandlerSucceeds(w) \/ HandlerFailsForGood(w)
             \/ MarkLoad(w) \/ MarkRejected(w) \/ HandlerFails(w) \/ WorkerRaises(w)
             \/ WorkerCrash(w) \/ Redeliver(w)
      PROVE  UNCHANGED row
  BY <1>8
  DEF Receive, ReceiveSettled, ReceiveValid, ReceiveInvalid, ReceiveExhausted, ClaimRefused,
      HandlerSucceeds, HandlerFailsForGood, MarkLoad, MarkRejected, HandlerFails, WorkerRaises,
      WorkerCrash, Redeliver
<1>9. ASSUME \/ \E e \in Events : ApiCrash(e)
             \/ \E c \in Deliveries : DispatchSend(c) \/ DispatchError(c) \/ ReconcilePublish(c)
             \/ \E m \in Messages : Lose(m)
             \/ \E S \in SUBSET Deliveries : ReconcileFails(S)
             \/ UNCHANGED vars
      PROVE  UNCHANGED row
  BY <1>9
  DEF ApiCrash, DispatchSend, DispatchError, ReconcilePublish, Lose, ReconcileFails, vars
<1> QED BY <1>1, <1>2, <1>3, <1>4, <1>5, <1>6, <1>7, <1>8, <1>9
        DEF Next, Dispatch, WorkerStep, Reconcile, Faults

\* RowConsistent, for one row.
GoodRow(r) ==
    /\ r.status = "PENDING" => r.created_at # "null"
    /\ r.status = "ENQUEUED" => r.enqueued_at # "null"
    /\ r.status = "PROCESSING" => r.claimed_at # "null"
    /\ r.status \in Terminal => r.completed_at = "set"
    /\ ReasonMatchesStatus(r)

\* Each of these writes keeps a row consistent.
LEMMA GoodRowKept ==
    ASSUME NEW r \in Rows, GoodRow(r)
    PROVE  /\ GoodRow(PendingRow)
           /\ GoodRow(Enqueued(r))
           /\ GoodRow(ClaimedRow(r))
           /\ \A t \in {PendingStale(r), EnqueuedStale(r), ClaimStale(r)} : GoodRow(t)
           /\ \A s \in Rows, m \in Marks, error \in Nullable :
                 ReasonMatchesStatus(Marked(r, s, m, error))
                    => GoodRow(Marked(r, s, m, error))
<1>1. GoodRow(PendingRow)
  BY NewRow DEF GoodRow, ReasonMatchesStatus, Terminal
<1>2. GoodRow(Enqueued(r))
  BY EnqueuedRow DEF GoodRow, ReasonMatchesStatus, Terminal
<1>3. GoodRow(ClaimedRow(r))
  BY ClaimRow DEF GoodRow, ReasonMatchesStatus, Terminal
<1>4. /\ PendingStale(r).enqueued_at = r.enqueued_at
      /\ PendingStale(r).claimed_at = r.claimed_at
      /\ PendingStale(r).completed_at = r.completed_at
  BY Zenon DEF PendingStale, Rows
<1>5. /\ EnqueuedStale(r).created_at = r.created_at
      /\ EnqueuedStale(r).claimed_at = r.claimed_at
      /\ EnqueuedStale(r).completed_at = r.completed_at
  BY Zenon DEF EnqueuedStale, Rows
<1>6. /\ ClaimStale(r).created_at = r.created_at
      /\ ClaimStale(r).enqueued_at = r.enqueued_at
      /\ ClaimStale(r).completed_at = r.completed_at
  BY Zenon DEF ClaimStale, Rows
<1>7. \A t \in {PendingStale(r), EnqueuedStale(r), ClaimStale(r)} : GoodRow(t)
  BY <1>4, <1>5, <1>6, StaleRow DEF GoodRow, ReasonMatchesStatus
<1>8. ASSUME NEW s \in Rows, NEW m \in Marks, NEW error \in Nullable,
             ReasonMatchesStatus(Marked(r, s, m, error))
      PROVE  GoodRow(Marked(r, s, m, error))
  <2> DEFINE t == Marked(r, s, m, error)
  <2>1. /\ t.created_at = r.created_at /\ t.claimed_at = r.claimed_at
        /\ t.enqueued_at \in {r.enqueued_at, "fresh"}
        /\ t.completed_at \in {r.completed_at, "set"}
        /\ t.status # r.status =>
              \/ t.status = "SUCCEEDED" /\ t.completed_at = "set"
              \/ t.status = "ENQUEUED" /\ t.enqueued_at = "fresh"
              \/ t.status = "DEAD_LETTERED" /\ t.completed_at = "set"
    BY MarkedRow
  <2>2. ReasonMatchesStatus(t)
    BY <1>8
  <2> HIDE DEF t
  <2>3. GoodRow(t)
    BY <2>1, <2>2 DEF GoodRow, Terminal
  <2> QED BY <2>3 DEF t
<1> QED BY <1>1, <1>2, <1>3, <1>7, <1>8

\* Every committed row can be found by the reconciliation sweep, and a terminal
\* one says when and why it ended, however the unlocked updates interleave.
THEOREM RowsStayConsistent == Spec => []RowConsistent
<1>1. Init => RowConsistent
  BY NewRow DEF Init, RowConsistent, ReasonMatchesStatus, Terminal
<1>2. TypeOK /\ Busy /\ RowConsistent /\ [Next]_vars => RowConsistent'
  <2> SUFFICES ASSUME TypeOK, Busy, RowConsistent, [Next]_vars, NEW d \in Deliveries
               PROVE  GoodRow(row'[d])
    BY DEF RowConsistent, GoodRow
  <2>1. row[d] \in Rows /\ GoodRow(row[d])
    BY DEF TypeOK, RowConsistent, GoodRow
  <2>2. RowEffect(d)
    BY RowEffects
  <2> QED BY <2>1, <2>2, GoodRowKept DEF RowEffect
<1>3. Init => TypeOK /\ Busy
  BY TypeInit
<1>4. TypeOK /\ Busy /\ [Next]_vars => (TypeOK /\ Busy)'
  BY TypeNext
<1> QED BY <1>1, <1>2, <1>3, <1>4, PTL DEF Spec
-----------------------------------------------------------------------------
\* What a step can do to a worker.

\* A worker comes to hold a delivery only by claiming it, comes to a commit of
\* success only through a handler that returned, and loses what it held when
\* it commits.  The history variables only grow.
WorkerEffect(w) ==
    /\ \A d \in Deliveries :
          Holds(w, d)' => Holds(w, d) \/ (Claim(w) /\ msg[w].id = d)
    /\ pc'[w] = "handle" =>
          (pc[w] = "handle" \/ Claim(w)) /\ msg'[w].id = msg[w].id
    /\ pc'[w] \in {"load", "commit"} /\ mark'[w] = "SUCCEEDED" =>
          /\ msg'[w].id = msg[w].id
          /\ \/ pc[w] = "handle" /\ msg[w].id \in handled'
             \/ pc[w] \in {"load", "commit"} /\ mark[w] = "SUCCEEDED"
    /\ MarkCommit(w) => pc'[w] = "idle"

\* Every step moves each worker in one of the listed ways, and the histories only grow.
LEMMA WorkerEffects ==
    TypeOK /\ Busy /\ [Next]_vars =>
       /\ \A w \in Workers : WorkerEffect(w)
       /\ handled \subseteq handled'
       /\ disturbed \subseteq disturbed'
<1> SUFFICES ASSUME TypeOK, Busy, [Next]_vars
             PROVE  /\ \A w \in Workers : WorkerEffect(w)
                    /\ handled \subseteq handled'
                    /\ disturbed \subseteq disturbed'
  OBVIOUS
<1> USE DEF dispatchVars, workerVars, historyVars
<1>0. \A w \in Workers : MarkCommit(w) => pc'[w] = "idle"
  BY DEF MarkCommit, Idle, TypeOK
<1>1. ASSUME UNCHANGED <<pc, msg, mark>> PROVE \A w \in Workers : WorkerEffect(w)
  BY <1>0, <1>1 DEF WorkerEffect, Holds
<1>2. ASSUME NEW v \in Workers, Idle(v) PROVE \A w \in Workers : WorkerEffect(w)
  <2> TAKE w \in Workers
  <2>1. w = v => pc'[w] = "idle"
    BY <1>2 DEF Idle, TypeOK
  <2>2. w # v => pc'[w] = pc[w] /\ msg'[w] = msg[w] /\ mark'[w] = mark[w]
    BY <1>2 DEF Idle, TypeOK
  <2> QED BY <1>0, <2>1, <2>2 DEF WorkerEffect, Holds
<1>3. ASSUME NEW v \in Workers, NEW m, NEW k \in Reasons \ HandlerMarks,
             msg' = [msg EXCEPT ![v] = m],
             \/ pc' = [pc EXCEPT ![v] = "claim"] /\ mark' = mark
             \/ pc' = [pc EXCEPT ![v] = "load"] /\ mark' = [mark EXCEPT ![v] = k]
      PROVE  \A w \in Workers : WorkerEffect(w)
  <2> TAKE w \in Workers
  <2>1. w = v => pc'[w] = "claim" \/ (pc'[w] = "load" /\ mark'[w] \notin HandlerMarks)
    BY <1>3 DEF TypeOK
  <2>2. w # v => pc'[w] = pc[w] /\ msg'[w] = msg[w] /\ mark'[w] = mark[w]
    BY <1>3 DEF TypeOK
  <2> QED BY <1>0, <2>1, <2>2 DEF WorkerEffect, Holds, HandlerMarks
<1>4. ASSUME NEW v \in Workers, Receive(v) PROVE \A w \in Workers : WorkerEffect(w)
  <2>1. \A k \in Verdicts \cup {"RETRY_EXHAUSTED"} : k \in Reasons \ HandlerMarks
    BY DeliveryAssumption DEF ValidationReasons, Reasons, HandlerMarks
  <2>2. CASE \E d \in Deliveries, n \in 0..MaxRetries : ReceiveSettled(v, d, n)
    BY <1>1, <2>2 DEF ReceiveSettled
  <2>3. CASE \E d \in Deliveries, n \in 0..MaxRetries : ReceiveValid(v, d, n)
    BY <1>3, <2>1, <2>3 DEF ReceiveValid
  <2>4. CASE \E d \in Deliveries, n \in 0..MaxRetries, k \in Verdicts : ReceiveInvalid(v, d, n, k)
    BY <1>3, <2>1, <2>4 DEF ReceiveInvalid
  <2>5. CASE \E d \in Deliveries : ReceiveExhausted(v, d)
    BY <1>3, <2>1, <2>5 DEF ReceiveExhausted
  <2> QED BY <1>4, <2>2, <2>3, <2>4, <2>5 DEF Receive
<1>5. ASSUME NEW v \in Workers, Claim(v) PROVE \A w \in Workers : WorkerEffect(w)
  <2> TAKE w \in Workers
  <2>1. msg' = msg /\ mark' = mark /\ pc' = [pc EXCEPT ![v] = "handle"]
    BY <1>5 DEF Claim
  <2>2. w = v => pc'[w] = "handle" /\ Claim(w)
    BY <1>5, <2>1 DEF TypeOK
  <2>3. w # v => pc'[w] = pc[w]
    BY <2>1 DEF TypeOK
  <2> QED BY <1>0, <2>1, <2>2, <2>3 DEF WorkerEffect, Holds
<1>6. ASSUME NEW v \in Workers,
             \/ HandlerSucceeds(v) \/ HandlerFailsForGood(v) \/ HandlerFails(v) \/ MarkLoad(v)
      PROVE  \A w \in Workers : WorkerEffect(w)
  <2> TAKE w \in Workers
  <2>1. msg' = msg /\ (w # v => pc'[w] = pc[w] /\ mark'[w] = mark[w])
    BY <1>6 DEF HandlerSucceeds, HandlerFailsForGood, HandlerFails, MarkLoad, TypeOK
  <2>2. CASE MarkLoad(v)
    <3>1. w = v => pc[w] = "load" /\ pc'[w] = "commit" /\ mark'[w] = mark[w]
      BY <2>2 DEF MarkLoad, TypeOK
    <3> QED BY <1>0, <2>1, <3>1 DEF WorkerEffect, Holds
  <2>3. CASE HandlerSucceeds(v)
    <3>1. w = v => pc[w] = "handle" /\ pc'[w] = "load" /\ msg[w].id \in handled'
      BY <2>3 DEF HandlerSucceeds, TypeOK
    <3> QED BY <1>0, <2>1, <3>1 DEF WorkerEffect, Holds
  <2>4. CASE HandlerFailsForGood(v) \/ HandlerFails(v)
    <3>1. w = v => pc[w] = "handle" /\ pc'[w] = "load" /\ mark'[w] # "SUCCEEDED"
      BY <2>4 DEF HandlerFailsForGood, HandlerFails, TypeOK
    <3> QED BY <1>0, <2>1, <3>1 DEF WorkerEffect, Holds
  <2> QED BY <1>6, <2>2, <2>3, <2>4
<1>7. ASSUME NEW v \in Workers,
             \/ ClaimRefused(v) \/ MarkCommit(v) \/ MarkRejected(v) \/ WorkerRaises(v)
             \/ WorkerCrash(v)
      PROVE  Idle(v)
  BY <1>7 DEF ClaimRefused, MarkCommit, MarkRejected, WorkerRaises, WorkerCrash
<1>8. ASSUME \/ \E e \in Events : Stage(e) \/ ApiCrash(e)
             \/ \E d \in Deliveries : \/ DispatchSend(d) \/ DispatchMark(d) \/ DispatchError(d)
                                      \/ ReconcilePublish(d) \/ Ages(d) \/ ClaimOverruns(d)
             \/ \E m \in Messages : Lose(m)
             \/ \E S \in SUBSET Deliveries : ReconcileClaim(S) \/ ReconcileFails(S)
             \/ \E w \in Workers : Redeliver(w)
             \/ UNCHANGED vars
      PROVE  UNCHANGED <<pc, msg, mark>>
  BY <1>8
  DEF Stage, ApiCrash, DispatchSend, DispatchMark, DispatchError, ReconcilePublish, Ages,
      PendingAges, EnqueuedAges, ClaimAges, ClaimOverruns, Lose, ReconcileClaim, ReconcileFails,
      Redeliver, vars
<1>9. \A w \in Workers : WorkerEffect(w)
  BY <1>1, <1>2, <1>4, <1>5, <1>6, <1>7, <1>8
  DEF Next, Dispatch, WorkerStep, Reconcile, Faults
<1>10. ASSUME NEW w \in Workers, WorkerStep(w)
       PROVE  handled \subseteq handled' /\ disturbed' = disturbed
  BY <1>10
  DEF WorkerStep, Receive, ReceiveSettled, ReceiveValid, ReceiveInvalid, ReceiveExhausted, Claim,
      ClaimRefused, HandlerSucceeds, HandlerFailsForGood, MarkLoad, MarkCommit, MarkRejected
<1>11. ASSUME NEW d \in Deliveries, Dispatch(d) \/ Ages(d)
       PROVE  handled' = handled /\ disturbed \subseteq disturbed'
  BY <1>11
  DEF Dispatch, DispatchSend, DispatchMark, Ages, PendingAges, EnqueuedAges, ClaimAges
<1>12. ASSUME Reconcile
       PROVE  UNCHANGED historyVars
  BY <1>12 DEF Reconcile, ReconcileClaim, ReconcilePublish
<1>13. ASSUME Faults
       PROVE  handled' = handled /\ disturbed \subseteq disturbed'
  BY <1>13
  DEF Faults, ApiCrash, DispatchError, ClaimOverruns, HandlerFails, WorkerRaises, WorkerCrash,
      Redeliver, Lose, ReconcileFails
<1>14. ASSUME NEW e \in Events, Stage(e)
       PROVE  UNCHANGED historyVars
  BY <1>14 DEF Stage
<1>15. handled \subseteq handled' /\ disturbed \subseteq disturbed'
  BY <1>10, <1>11, <1>12, <1>13, <1>14 DEF Next, vars
<1> QED BY <1>9, <1>15
-----------------------------------------------------------------------------
\* A success was handled.

Base == TypeOK /\ Busy /\ OnlyStaged

\* The base invariant holds initially.
LEMMA BaseInit == Init => Base
  BY TypeInit, NewRow DEF Base, Init, OnlyStaged, Staged, Messages

\* The base invariant is inductive.
LEMMA BaseNext == Base /\ [Next]_vars => Base'
  BY TypeNext, OnlyStagedNext DEF Base

\* attempt_count never goes back to zero: only Stage writes it afresh, and
\* Stage never meets a staged row.
LEMMA AttemptsKept ==
    ASSUME Base, [Next]_vars, NEW d \in Deliveries, row[d].attempt_count > 0, Staged(d)
    PROVE  row'[d].attempt_count > 0
<1>1. row[d] \in Rows /\ RowEffect(d)
  BY RowEffects DEF Base, TypeOK
<1>2. d[1] \in {outbox[i] : i \in 1..Len(outbox)}
  BY DeliveryEvent DEF Base, OnlyStaged
<1>3. \/ row'[d] = row[d]
      \/ row'[d] = Enqueued(row[d])
      \/ row'[d] = ClaimedRow(row[d])
      \/ row'[d] = PendingStale(row[d])
      \/ row'[d] = EnqueuedStale(row[d])
      \/ row'[d] = ClaimStale(row[d])
      \/ \E s \in Rows, m \in Marks, error \in Nullable : row'[d] = Marked(row[d], s, m, error)
  BY <1>1, <1>2 DEF RowEffect
<1> QED BY <1>1, <1>3, EnqueuedRow, ClaimRow, StaleRow, MarkedRow

\* A success mark, waiting or written, is about a delivery whose handler returned.
LEMMA HandledNext ==
    Base /\ HandledBeforeMarked /\ SucceededMeansHandled /\ [Next]_vars
       => HandledBeforeMarked' /\ SucceededMeansHandled'
<1> SUFFICES ASSUME Base, HandledBeforeMarked, SucceededMeansHandled, [Next]_vars
             PROVE  HandledBeforeMarked' /\ SucceededMeansHandled'
  OBVIOUS
<1>0. /\ \A w \in Workers : WorkerEffect(w)
      /\ handled \subseteq handled'
  BY WorkerEffects DEF Base
<1>1. \A w \in Workers : pc[w] # "idle" => msg[w].id \in Deliveries /\ Staged(msg[w].id)
  BY DEF Base, Busy, OnlyStaged, Messages
<1>2. HandledBeforeMarked'
  <2> SUFFICES ASSUME NEW w \in Workers
               PROVE  LET d == msg'[w].id IN
                      /\ pc'[w] = "handle" => row'[d].attempt_count > 0
                      /\ pc'[w] \in {"load", "commit"} /\ mark'[w] = "SUCCEEDED" =>
                            d \in handled' /\ row'[d].attempt_count > 0
    BY DEF HandledBeforeMarked
  <2>1. WorkerEffect(w)
    BY <1>0
  <2>2. ASSUME Claim(w) PROVE row'[msg[w].id].attempt_count > 0
    <3>1. msg[w].id \in Deliveries /\ row \in [Deliveries -> Rows]
      BY <1>1, <2>2 DEF Claim, Base, TypeOK
    <3>2. row'[msg[w].id] = ClaimedRow(row[msg[w].id])
      BY <2>2, <3>1 DEF Claim
    <3> QED BY <3>1, <3>2, ClaimRow
  <2>3. pc[w] = "handle" => row'[msg[w].id].attempt_count > 0
    BY <1>1, AttemptsKept DEF HandledBeforeMarked
  <2>4. pc[w] \in {"load", "commit"} /\ mark[w] = "SUCCEEDED" =>
           msg[w].id \in handled' /\ row'[msg[w].id].attempt_count > 0
    BY <1>0, <1>1, AttemptsKept DEF HandledBeforeMarked
  <2> QED BY <2>1, <2>2, <2>3, <2>4 DEF WorkerEffect
<1>3. SucceededMeansHandled'
  <2> SUFFICES ASSUME NEW d \in Deliveries, row'[d].status = "SUCCEEDED"
               PROVE  d \in handled' /\ row'[d].attempt_count > 0
    BY DEF SucceededMeansHandled
  <2>0. row[d] \in Rows
    BY DEF Base, TypeOK
  <2>1. CASE row[d].status = "SUCCEEDED"
    <3>1. d \in handled /\ row[d].attempt_count > 0 /\ Staged(d)
      BY <2>1 DEF SucceededMeansHandled, Staged
    <3> QED BY <1>0, <3>1, AttemptsKept
  <2>2. CASE row[d].status # "SUCCEEDED"
    <3>1. RowEffect(d)
      BY RowEffects DEF Base
    <3>2. PICK w \in Workers, error \in Nullable :
             /\ MarkCommit(w) /\ msg[w].id = d
             /\ snap[w] \in Rows /\ mark[w] \in Marks
             /\ row'[d] = Marked(row[d], snap[w], mark[w], error)
      BY <2>0, <2>2, <3>1, NewRow, EnqueuedRow, ClaimRow, StaleRow DEF RowEffect
    <3>3. mark[w] = "SUCCEEDED"
      BY <2>0, <2>2, <3>2, MarkedRow
    <3>4. pc[w] = "commit"
      BY <3>2 DEF MarkCommit
    <3>5. d \in handled /\ row[d].attempt_count > 0 /\ Staged(d)
      BY <1>1, <3>2, <3>3, <3>4 DEF HandledBeforeMarked
    <3> QED BY <1>0, <3>5, AttemptsKept
  <2> QED BY <2>1, <2>2
<1> QED BY <1>2, <1>3

\* SUCCEEDED is never recorded for a delivery whose handler has not returned
\* normally, whatever crashes, retries, duplicates and sweeps happened before.
THEOREM SuccessWasHandled == Spec => []SucceededMeansHandled
<1>1. Init => HandledBeforeMarked /\ SucceededMeansHandled
  BY NewRow DEF Init, HandledBeforeMarked, SucceededMeansHandled
<1>2. Init => Base
  BY BaseInit
<1>3. Base /\ [Next]_vars => Base'
  BY BaseNext
<1>4. Base /\ HandledBeforeMarked /\ SucceededMeansHandled /\ [Next]_vars
         => HandledBeforeMarked' /\ SucceededMeansHandled'
  BY HandledNext
<1> QED BY <1>1, <1>2, <1>3, <1>4, PTL DEF Spec
-----------------------------------------------------------------------------
\* Claims exclude each other.

Exclusion == HeldNotClaimable /\ ClaimExclusive

\* A delivery that is held undisturbed cannot be claimed, so no second worker gets it.
LEMMA ExclusionNext == Base /\ Exclusion /\ [Next]_vars => Exclusion'
<1> SUFFICES ASSUME Base, Exclusion, [Next]_vars PROVE Exclusion'
  OBVIOUS
<1>0. /\ \A w \in Workers : WorkerEffect(w)
      /\ disturbed \subseteq disturbed'
  BY WorkerEffects DEF Base
<1>1. HeldNotClaimable'
  <2> SUFFICES ASSUME NEW d \in Deliveries, d \notin disturbed', NEW v \in Workers, Holds(v, d)'
               PROVE  /\ row'[d].status \in {"PROCESSING", "DEAD_LETTERED"}
                      /\ ~Claimable(row'[d])
    BY DEF HeldNotClaimable
  <2>0. row[d] \in Rows /\ d \notin disturbed /\ RowEffect(d)
    BY <1>0, RowEffects DEF Base, TypeOK
  <2>1. CASE Claim(v) /\ msg[v].id = d
    <3>1. row'[d] = ClaimedRow(row[d])
      BY <2>1 DEF Claim, Base, TypeOK
    <3> QED BY <2>0, <3>1, ClaimRow DEF Claimable
  <2>2. CASE Holds(v, d)
    <3>0. /\ Held(d)
          /\ row[d].status \in {"PROCESSING", "DEAD_LETTERED"}
          /\ ~Claimable(row[d])
      BY <2>0, <2>2 DEF Exclusion, HeldNotClaimable, Held
    <3>1. d[1] \in {outbox[i] : i \in 1..Len(outbox)}
      BY <3>0, DeliveryEvent DEF Base, OnlyStaged, Staged
    <3>2. ~Stuck(row[d])
      BY <3>0 DEF Stuck, Claimable
    <3>3. \/ row'[d] = row[d]
          \/ \E w \in Workers, error \in Nullable :
                /\ MarkCommit(w) /\ msg[w].id = d
                /\ snap[w] \in Rows /\ mark[w] \in Marks
                /\ row'[d] = Marked(row[d], snap[w], mark[w], error)
      BY <2>0, <3>0, <3>1, <3>2 DEF RowEffect
    <3>4. ASSUME NEW w \in Workers, NEW error \in Nullable,
                 MarkCommit(w), msg[w].id = d, snap[w] \in Rows, mark[w] \in Marks,
                 row'[d] = Marked(row[d], snap[w], mark[w], error)
          PROVE  /\ row'[d].status \in {"PROCESSING", "DEAD_LETTERED"}
                 /\ ~Claimable(row'[d])
      <4>1. pc[w] = "commit" /\ pc'[w] = "idle"
        BY <1>0, <3>4 DEF WorkerEffect, MarkCommit
      <4>2. v # w
        BY <4>1 DEF Holds
      <4>3. ~Holds(w, d)
        BY <2>0, <2>2, <4>2 DEF Exclusion, ClaimExclusive
      <4>4. mark[w] \notin HandlerMarks
        BY <3>4, <4>1, <4>3 DEF Holds
      <4>5. /\ row'[d].claimed_at = row[d].claimed_at
            /\ row'[d].status # row[d].status => row'[d].status = "DEAD_LETTERED"
        BY <2>0, <3>4, <4>4, MarkedRow DEF HandlerMarks
      <4> QED BY <3>0, <4>5 DEF Claimable
    <3> QED BY <3>0, <3>3, <3>4
  <2> QED BY <1>0, <2>1, <2>2 DEF WorkerEffect
<1>2. ClaimExclusive'
  <2> SUFFICES ASSUME NEW d \in Deliveries, d \notin disturbed',
                      NEW v \in Workers, NEW w \in Workers, Holds(v, d)', Holds(w, d)'
               PROVE  v = w
    BY DEF ClaimExclusive
  <2>0. d \notin disturbed
    BY <1>0
  <2>1. /\ Holds(v, d) \/ (Claim(v) /\ msg[v].id = d)
        /\ Holds(w, d) \/ (Claim(w) /\ msg[w].id = d)
    BY <1>0 DEF WorkerEffect
  <2>2. \A u \in Workers : Claim(u) /\ msg[u].id = d => ~Holds(v, d) /\ ~Holds(w, d)
    BY <2>0 DEF Exclusion, HeldNotClaimable, Claim
  <2>3. Claim(v) /\ Claim(w) => v = w
    BY DEF Claim, Base, TypeOK
  <2> QED BY <2>0, <2>1, <2>2, <2>3 DEF Exclusion, ClaimExclusive
<1> QED BY <1>1, <1>2 DEF Exclusion

\* The exclusion invariant holds throughout.
LEMMA ExclusionInvariant == Spec => [](Base /\ Exclusion)
<1>1. Init => Exclusion
  BY DEF Init, Exclusion, HeldNotClaimable, ClaimExclusive, Holds
<1>2. Init => Base
  BY BaseInit
<1>3. Base /\ [Next]_vars => Base'
  BY BaseNext
<1>4. Base /\ Exclusion /\ [Next]_vars => Exclusion'
  BY ExclusionNext
<1> QED BY <1>1, <1>2, <1>3, <1>4, PTL DEF Spec

\* Two workers never run the handler of one delivery at the same time, unless
\* the claim was taken from a live worker.
THEOREM ClaimsExclude == Spec => []ClaimExclusive
<1>1. Base /\ Exclusion => ClaimExclusive
  BY DEF Exclusion
<1> QED BY <1>1, ExclusionInvariant, PTL

\* A delivery that succeeded is not processed again, with the same exception.
THEOREM SuccessIsNotReprocessed == Spec => SuccessNotReprocessed
<1>1. Base /\ Exclusion /\ [Next]_vars =>
         [\A d \in Deliveries : row[d].status = "SUCCEEDED" /\ row'[d].status \notin Terminal
              => d \in disturbed]_vars
  <2> SUFFICES ASSUME Base, Exclusion, [Next]_vars, NEW d \in Deliveries,
                      row[d].status = "SUCCEEDED", row'[d].status \notin Terminal,
                      d \notin disturbed
               PROVE  FALSE
    OBVIOUS
  <2>0. row[d] \in Rows /\ RowEffect(d)
    BY RowEffects DEF Base, TypeOK
  <2>1. d[1] \in {outbox[i] : i \in 1..Len(outbox)}
    BY DeliveryEvent DEF Base, OnlyStaged, Staged
  <2>2. ~Claimable(row[d]) /\ row[d].status \in Terminal
    BY DEF Claimable, Terminal
  <2>3. PICK w \in Workers, error \in Nullable :
           /\ MarkCommit(w) /\ msg[w].id = d
           /\ snap[w] \in Rows /\ mark[w] \in Marks
           /\ row'[d] = Marked(row[d], snap[w], mark[w], error)
    BY <2>0, <2>1, <2>2, StaleRow DEF RowEffect, Terminal
  <2>4. mark[w] = "RETRYABLE"
    BY <2>0, <2>3, MarkedRow DEF Terminal
  <2>5. Holds(w, d)
    BY <2>3, <2>4 DEF Holds, MarkCommit, HandlerMarks
  <2> QED BY <2>5 DEF Exclusion, HeldNotClaimable
<1> QED BY <1>1, ExclusionInvariant, PTL DEF Spec, SuccessNotReprocessed
=============================================================================

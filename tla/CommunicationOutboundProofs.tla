--------------------- MODULE CommunicationOutboundProofs ---------------------
(***************************************************************************)
(* Proofs about CommunicationOutbound, for any number of replies, processors, *)
(* attempts and faults.  What was shown is a prefix of what was queued: a     *)
(* claim needs every earlier row SUCCEEDED (CANCELLED rows exist only when     *)
(* the Connection is retired, and then nothing is claimed), SUCCEEDED is       *)
(* final, and a row succeeds only through an answer that followed a show.     *)
(***************************************************************************)
EXTENDS CommunicationOutbound, SequenceTheorems, TLAPS

\* A reply is queued once.
KeysDistinct ==
    \A i, j \in 1..Len(out) : out[i].key = out[j].key => i = j

\* What was shown is what was queued, up to some point.
ShownPrefix ==
    /\ Len(shown) <= Len(out)
    /\ \A i \in 1..Len(shown) : shown[i] = out[i].key

\* Rows succeed only up to that point.
SucceededShown == \A i \in 1..Len(out) : out[i].status = "SUCCEEDED" => i <= Len(shown)

\* Whoever holds a row, however stale its claim, has only SUCCEEDED ones ahead.
HeldBehindSucceeded ==
    \A p \in Processors : \A j \in 1..Len(out) :
        j < held[p] => out[j].status = "SUCCEEDED"

\* A processor that sends or completes holds a row.
WorkingHolds ==
    \A p \in Processors : pc[p] \in {"sending", "sent"} => held[p] # 0

\* A provider's message id waits to be recorded, for a row that was shown.
AnswerShown ==
    \A p \in Processors :
        answer[p] = "message_id" => pc[p] = "sent" /\ held[p] <= Len(shown)

\* Rows are cancelled only by retirement.
CancelledMeansRetired ==
    \A i \in 1..Len(out) : out[i].status = "CANCELLED" => connection = "retired"

IInv ==
    /\ TypeOK
    /\ KeysDistinct
    /\ ShownPrefix
    /\ SucceededShown
    /\ HeldBehindSucceeded
    /\ WorkingHolds
    /\ AnswerShown
    /\ CancelledMeansRetired

-----------------------------------------------------------------------------
\* Facts about sequences.
LEMMA FunctionIsSeq ==
    ASSUME NEW S, NEW n \in Nat, NEW f \in [1..n -> S]
    PROVE  f \in Seq(S) /\ Len(f) = n
OBVIOUS

LEMMA SeqExcept ==
    ASSUME NEW S, NEW s \in Seq(S), NEW i \in 1..Len(s), NEW e \in S
    PROVE  /\ [s EXCEPT ![i] = e] \in Seq(S)
           /\ Len([s EXCEPT ![i] = e]) = Len(s)
           /\ \A j \in 1..Len(s) : [s EXCEPT ![i] = e][j] = IF j = i THEN e ELSE s[j]
OBVIOUS

\* The type of a row and of its fields.
LEMMA RowTypes ==
    ASSUME TypeOK, NEW i \in 1..Len(out)
    PROVE  out[i] \in OutRows /\ out[i].key \in Keys /\ out[i].status \in OutStatuses
<1>1. out[i] \in OutRows
    BY DEF TypeOK
<1>2. QED
    BY <1>1 DEF OutRows

\* What any operation but a reply makes of the rows: a row keeps its key, a
\* delivered row stays delivered, a row becomes SUCCEEDED only when it was
\* shown, and CANCELLED only by retirement.
RowKept(old, new, i) ==
    /\ new \in OutRows
    /\ new.key = old.key
    /\ old.status = "SUCCEEDED" => new.status = "SUCCEEDED"
    /\ new.status = "SUCCEEDED" => old.status = "SUCCEEDED" \/ i <= Len(shown)
    /\ new.status = "CANCELLED" => old.status = "CANCELLED" \/ connection' = "retired"

RowsKept ==
    /\ out' \in Seq(OutRows)
    /\ Len(out') = Len(out)
    /\ \A i \in 1..Len(out) : RowKept(out[i], out'[i], i)

\* One row is replaced.
LEMMA OneRowKept ==
    ASSUME TypeOK, NEW i \in 1..Len(out), NEW row, RowKept(out[i], row, i),
           out' = [out EXCEPT ![i] = row]
    PROVE  RowsKept
<1>1. out \in Seq(OutRows) /\ row \in OutRows
    BY DEF TypeOK, RowKept
<1>2. /\ out' \in Seq(OutRows)
      /\ Len(out') = Len(out)
      /\ \A j \in 1..Len(out) : out'[j] = IF j = i THEN row ELSE out[j]
    BY <1>1, SeqExcept
<1>3. \A j \in 1..Len(out) : RowKept(out[j], out[j], j)
    BY <1>1 DEF RowKept
<1>4. QED
    BY <1>2, <1>3 DEF RowsKept

\* Every row is replaced.
LEMMA AllRowsKept ==
    ASSUME TypeOK, \A i \in 1..Len(out) : RowKept(out[i], out'[i], i),
           out' = [i \in 1..Len(out) |-> out'[i]]
    PROVE  RowsKept
<1>1. out' \in [1..Len(out) -> OutRows] /\ Len(out) \in Nat
    BY DEF TypeOK, RowKept
<1>2. out' \in Seq(OutRows) /\ Len(out') = Len(out)
    BY <1>1, FunctionIsSeq
<1>3. QED
    BY <1>2 DEF RowsKept

\* No row changes.
LEMMA SameRowsKept == ASSUME TypeOK, out' = out PROVE RowsKept
<1>1. out \in Seq(OutRows) /\ \A i \in 1..Len(out) : out[i] \in OutRows
    BY DEF TypeOK
<1>2. QED
    BY <1>1 DEF RowsKept, RowKept

\* Reclaiming keeps the rows, their keys and every row that is not PROCESSING.
LEMMA ReclaimedFacts ==
    ASSUME TypeOK
    PROVE  /\ Reclaimed \in Seq(OutRows)
           /\ Len(Reclaimed) = Len(out)
           /\ \A i \in 1..Len(out) :
                 /\ Reclaimed[i] \in OutRows
                 /\ Reclaimed[i].key = out[i].key
                 /\ \/ Reclaimed[i].status = out[i].status
                    \/ out[i].status = "PROCESSING" /\ Reclaimed[i].status = "PENDING"
<1>1. \A i \in 1..Len(out) : out[i] \in OutRows
    BY DEF TypeOK
<1>2. ASSUME NEW i \in 1..Len(out)
      PROVE  /\ Reclaimed[i] \in OutRows
             /\ Reclaimed[i].key = out[i].key
             /\ \/ Reclaimed[i].status = out[i].status
                \/ out[i].status = "PROCESSING" /\ Reclaimed[i].status = "PENDING"
    <2>1. out[i] \in OutRows
        BY <1>1
    <2>2. CASE out[i].status = "PROCESSING" /\ out[i].lease = "expired"
        <3>1. Reclaimed[i] = [out[i] EXCEPT !.status = "PENDING", !.lease = "none"]
            BY <2>2 DEF Reclaimed
        <3>2. QED
            BY <2>1, <2>2, <3>1 DEF OutRows, OutStatuses, Blocking
    <2>3. CASE ~ (out[i].status = "PROCESSING" /\ out[i].lease = "expired")
        <3>1. Reclaimed[i] = out[i]
            BY <2>3 DEF Reclaimed
        <3>2. QED
            BY <2>1, <3>1
    <2>4. QED
        BY <2>2, <2>3
<1>3. Len(out) \in Nat
    BY DEF TypeOK
<1>4. Reclaimed \in [1..Len(out) -> OutRows]
    BY <1>2 DEF Reclaimed
<1>5. QED
    BY <1>2, <1>3, <1>4, FunctionIsSeq

-----------------------------------------------------------------------------
\* The rows through each operation.
LEMMA ClaimRows ==
    ASSUME TypeOK, NEW p \in Processors, NEW i \in 1..Len(out), Claim(p, i)
    PROVE  RowsKept
<1>1. Reclaimed[i] \in OutRows /\ Reclaimed[i].key = out[i].key
    BY ReclaimedFacts
<1>2. Reclaimed[i].status = "PENDING"
    BY DEF Claim, Claimable
<1>3. /\ Claimed(Reclaimed[i]) \in OutRows
      /\ Claimed(Reclaimed[i]).key = out[i].key
      /\ Claimed(Reclaimed[i]).status = "PROCESSING"
    <2> DEFINE n == Reclaimed[i].attempt_count
    <2>1. n \in 0..MaxAttempts
        BY <1>1 DEF OutRows
    <2>2. (IF n < MaxAttempts THEN n + 1 ELSE n) \in 0..MaxAttempts
        BY <2>1, OutboundAssumption
    <2>3. QED
        BY <1>1, <2>2 DEF Claimed, OutRows, OutStatuses, Blocking
<1>4. out[i].status \in {"PENDING", "PROCESSING"}
    BY <1>2, ReclaimedFacts
<1>5. /\ out' \in Seq(OutRows)
      /\ Len(out') = Len(out)
      /\ \A j \in 1..Len(out) : out'[j] = IF j = i THEN Claimed(Reclaimed[i]) ELSE Reclaimed[j]
    BY <1>3, ReclaimedFacts, SeqExcept DEF Claim
<1>6. \A j \in 1..Len(out) : RowKept(out[j], out'[j], j)
    BY <1>3, <1>4, <1>5, ReclaimedFacts DEF RowKept
<1>7. QED
    BY <1>5, <1>6 DEF RowsKept

LEMMA ClaimNothingRows ==
    ASSUME TypeOK, NEW p \in Processors, ClaimNothing(p) PROVE RowsKept
<1>1. out' = Reclaimed
    BY DEF ClaimNothing
<1>2. \A j \in 1..Len(out) : RowKept(out[j], out'[j], j)
    BY <1>1, ReclaimedFacts DEF RowKept
<1>3. QED
    BY <1>1, <1>2, ReclaimedFacts DEF RowsKept

LEMMA CompleteRows ==
    ASSUME IInv, NEW p \in Processors, Complete(p) PROVE RowsKept
<1> DEFINE i == held[p]
           row == Completion(out[i], answer[p])
<1>1. i \in 1..Len(out)
    BY DEF IInv, TypeOK, WorkingHolds, Complete
<1>2. out[i] \in OutRows /\ answer[p] \in Answers
    BY <1>1 DEF IInv, TypeOK
<1>3. row \in OutRows /\ row.key = out[i].key
    BY <1>2 DEF Completion, OutRows, OutStatuses, Blocking, Answers
<1>4. out[i].status = "PROCESSING"
    BY DEF Complete
<1>5. row.status = "SUCCEEDED" => answer[p] = "message_id"
    BY <1>2 DEF Completion, OutRows, Answers
<1>6. row.status # "CANCELLED"
    BY <1>2 DEF Completion, OutRows, Answers
<1>7. row.status = "SUCCEEDED" => i <= Len(shown)
    BY <1>5 DEF IInv, AnswerShown
<1>8. RowKept(out[i], row, i)
    BY <1>3, <1>4, <1>6, <1>7 DEF RowKept
<1>9. out' = [out EXCEPT ![i] = row]
    BY DEF Complete
<1>10. QED
    BY <1>1, <1>8, <1>9, OneRowKept DEF IInv

LEMMA RetryRows ==
    ASSUME TypeOK, NEW i \in 1..Len(out), RetryDeadLettered(i) PROVE RowsKept
<1>1. out[i] \in OutRows
    BY DEF TypeOK
<1>2. RowKept(out[i], NewRow(out[i].key), i)
    BY <1>1, OutboundAssumption
    DEF RowKept, NewRow, OutRows, OutStatuses, Blocking, RetryDeadLettered
<1>3. QED
    BY <1>2, OneRowKept DEF RetryDeadLettered

LEMMA BackoffRows ==
    ASSUME TypeOK, NEW i \in 1..Len(out), BackoffEnds(i) PROVE RowsKept
<1>1. out[i] \in OutRows
    BY DEF TypeOK
<1>2. RowKept(out[i], [out[i] EXCEPT !.due = TRUE], i)
    BY <1>1 DEF RowKept, OutRows
<1>3. QED
    BY <1>2, OneRowKept DEF BackoffEnds

LEMMA LeaseRows ==
    ASSUME TypeOK, NEW i \in 1..Len(out), LeaseRunsOut(i) PROVE RowsKept
<1>1. out[i] \in OutRows
    BY DEF TypeOK
<1>2. RowKept(out[i], [out[i] EXCEPT !.lease = "expired"], i)
    BY <1>1 DEF RowKept, OutRows
<1>3. QED
    BY <1>2, OneRowKept DEF LeaseRunsOut

LEMMA RetireRows ==
    ASSUME TypeOK, Retire PROVE RowsKept
<1>1. ASSUME NEW i \in 1..Len(out) PROVE RowKept(out[i], CancelledRow(out[i]), i)
    <2>1. out[i] \in OutRows
        BY DEF TypeOK
    <2>2. QED
        BY <2>1 DEF RowKept, CancelledRow, OutRows, OutStatuses, Blocking, Retire
<1>2. out' = [i \in 1..Len(out) |-> CancelledRow(out[i])]
    BY DEF Retire
<1>3. \A i \in 1..Len(out) : out'[i] = CancelledRow(out[i])
    BY <1>2
<1>4. QED
    BY <1>1, <1>2, <1>3, AllRowsKept

-----------------------------------------------------------------------------
\* From the rows to the invariant.

\* The parts of the invariant that speak of the rows alone follow from
\* RowsKept when what was shown does not change.
LEMMA RowParts ==
    ASSUME IInv, RowsKept, shown' = shown, connection = "retired" => connection' = "retired"
    PROVE  KeysDistinct' /\ ShownPrefix' /\ SucceededShown' /\ CancelledMeansRetired'
<1>1. Len(out) \in Nat /\ Len(shown) \in Nat
    BY DEF IInv, TypeOK
<1>2. KeysDistinct'
    BY <1>1 DEF IInv, KeysDistinct, RowsKept, RowKept
<1>3. ShownPrefix'
    BY <1>1 DEF IInv, ShownPrefix, RowsKept, RowKept
<1>4. SucceededShown'
    BY <1>1 DEF IInv, SucceededShown, RowsKept, RowKept
<1>5. CancelledMeansRetired'
    BY <1>1 DEF IInv, CancelledMeansRetired, RowsKept, RowKept
<1>6. QED
    BY <1>2, <1>3, <1>4, <1>5

\* A processor that takes no new row keeps only SUCCEEDED ones ahead.
LEMMA HeldParts ==
    ASSUME IInv, RowsKept, \A p \in Processors : held'[p] \in {held[p], 0}
    PROVE  HeldBehindSucceeded'
<1>1. \A p \in Processors : held[p] \in Nat
    BY DEF IInv, TypeOK
<1>2. SUFFICES ASSUME NEW p \in Processors, NEW j \in 1..Len(out'), j < held'[p]
              PROVE  out'[j].status = "SUCCEEDED"
    BY DEF HeldBehindSucceeded
<1>3. j \in 1..Len(out) /\ j < held[p]
    BY <1>1, <1>2 DEF RowsKept
<1>4. out[j].status = "SUCCEEDED"
    BY <1>3 DEF IInv, HeldBehindSucceeded
<1>5. QED
    BY <1>3, <1>4 DEF RowsKept, RowKept

\* The operations on a row or the Connection that leave the processors alone.
LEMMA QuietKeeps ==
    ASSUME IInv, RowsKept, UNCHANGED <<processorVars, shown>>,
           connection = "retired" => connection' = "retired",
           connection' \in {"enabled", "disabled", "retired"}, faults' \in 0..MaxFaults
    PROVE  IInv'
<1>1. UNCHANGED <<pc, held, answer, shown>>
    BY DEF processorVars
<1>2. TypeOK'
    BY <1>1 DEF IInv, TypeOK, RowsKept
<1>3. HeldBehindSucceeded'
    BY <1>1, HeldParts
<1>4. WorkingHolds' /\ AnswerShown'
    BY <1>1 DEF IInv, WorkingHolds, AnswerShown
<1>5. QED
    BY <1>2, <1>3, <1>4, RowParts DEF IInv

\* A fault is counted.
LEMMA FaultCounts == ASSUME TypeOK, Fault PROVE faults' \in 0..MaxFaults
BY OutboundAssumption DEF TypeOK, Fault

LEMMA RowStepKeeps ==
    ASSUME IInv, NEW i \in 1..Len(out),
           RetryDeadLettered(i) \/ BackoffEnds(i) \/ LeaseExpires(i) \/ SendOverruns(i)
    PROVE  IInv'
<1>1. TypeOK
    BY DEF IInv
<1>2. RowsKept
    BY <1>1, RetryRows, BackoffRows, LeaseRows DEF LeaseExpires, SendOverruns
<1>3. UNCHANGED <<connection, processorVars, shown>>
    BY DEF RetryDeadLettered, BackoffEnds, LeaseExpires, SendOverruns, LeaseRunsOut
<1>4. faults' \in 0..MaxFaults
    BY <1>1, FaultCounts DEF RetryDeadLettered, BackoffEnds, LeaseExpires, SendOverruns, TypeOK
<1>5. connection' \in {"enabled", "disabled", "retired"}
    BY <1>1, <1>3 DEF TypeOK
<1>6. QED
    BY <1>2, <1>3, <1>4, <1>5, QuietKeeps

LEMMA ConnectionKeeps ==
    ASSUME IInv, Disable \/ Enable \/ Retire PROVE IInv'
<1>1. TypeOK
    BY DEF IInv
<1>2. RowsKept
    BY <1>1, SameRowsKept, RetireRows DEF Disable, Enable
<1>3. /\ UNCHANGED <<processorVars, shown>>
      /\ connection = "retired" => connection' = "retired"
      /\ connection' \in {"enabled", "disabled", "retired"}
    BY DEF Disable, Enable, Retire
<1>4. faults' \in 0..MaxFaults
    BY <1>1, FaultCounts DEF Disable, Enable, Retire, TypeOK
<1>5. QED
    BY <1>2, <1>3, <1>4, QuietKeeps

LEMMA ReplyKeeps ==
    ASSUME IInv, NEW k \in Keys, Reply(k) PROVE IInv'
<1>1. NewRow(k) \in OutRows /\ NewRow(k).key = k /\ NewRow(k).status = "PENDING"
    BY OutboundAssumption DEF NewRow, OutRows, OutStatuses, Blocking
<1>2. /\ out' \in Seq(OutRows)
      /\ Len(out') = Len(out) + 1
      /\ \A i \in 1..Len(out) : out'[i] = out[i]
      /\ out'[Len(out) + 1] = NewRow(k)
      /\ Len(out) \in Nat /\ Len(shown) \in Nat
    BY <1>1 DEF IInv, TypeOK, Reply
<1>3. UNCHANGED <<connection, pc, held, answer, shown, faults>>
    BY DEF Reply, processorVars
<1>4. TypeOK'
    BY <1>2, <1>3 DEF IInv, TypeOK
<1>5. KeysDistinct'
    BY <1>1, <1>2 DEF IInv, KeysDistinct, Reply, KnownKey
<1>6. ShownPrefix'
    BY <1>2, <1>3 DEF IInv, ShownPrefix
<1>7. SucceededShown' /\ CancelledMeansRetired'
    BY <1>1, <1>2, <1>3 DEF IInv, SucceededShown, CancelledMeansRetired
<1>8. HeldBehindSucceeded'
    BY <1>2, <1>3 DEF IInv, HeldBehindSucceeded, TypeOK
<1>9. WorkingHolds' /\ AnswerShown'
    BY <1>3 DEF IInv, WorkingHolds, AnswerShown
<1>10. QED
    BY <1>4, <1>5, <1>6, <1>7, <1>8, <1>9 DEF IInv

LEMMA ClaimKeeps ==
    ASSUME IInv, NEW p \in Processors, NEW i \in 1..Len(out), Claim(p, i) PROVE IInv'
<1>1. TypeOK /\ RowsKept
    BY ClaimRows DEF IInv
<1>2. /\ UNCHANGED <<connection, answer, shown, faults>>
      /\ connection = "enabled"
      /\ pc' = [pc EXCEPT ![p] = "sending"]
      /\ held' = [held EXCEPT ![p] = i]
    BY DEF Claim, Claimable
<1>3. ASSUME NEW j \in 1..Len(out), j < i PROVE out[j].status = "SUCCEEDED"
    <2>1. Reclaimed[j].status \notin Blocking
        BY <1>3 DEF Claim, Claimable, Overtakes
    <2>2. out[j].status \in OutStatuses
        BY <1>1, RowTypes
    <2>3. out[j].status \notin Blocking
        BY <1>1, <2>1, ReclaimedFacts DEF Blocking
    <2>4. out[j].status # "CANCELLED"
        BY <1>2 DEF IInv, CancelledMeansRetired
    <2>5. QED
        BY <2>2, <2>3, <2>4 DEF OutStatuses
<1>4. HeldBehindSucceeded'
    <2>1. SUFFICES ASSUME NEW q \in Processors, NEW j \in 1..Len(out'), j < held'[q]
                  PROVE  out'[j].status = "SUCCEEDED"
        BY DEF HeldBehindSucceeded
    <2>2. j \in 1..Len(out)
        BY <1>1 DEF RowsKept
    <2>3. out[j].status = "SUCCEEDED"
        BY <1>1, <1>2, <1>3, <2>1, <2>2 DEF IInv, HeldBehindSucceeded, TypeOK
    <2>4. QED
        BY <1>1, <2>2, <2>3 DEF RowsKept, RowKept
<1>5. TypeOK'
    BY <1>1, <1>2 DEF TypeOK, RowsKept
<1>6. WorkingHolds'
    BY <1>1, <1>2 DEF IInv, WorkingHolds, TypeOK
<1>7. AnswerShown'
    <2>1. answer[p] # "message_id"
        BY DEF IInv, AnswerShown, Claim
    <2>2. QED
        BY <1>1, <1>2, <2>1 DEF IInv, AnswerShown, TypeOK
<1>8. QED
    BY <1>1, <1>2, <1>4, <1>5, <1>6, <1>7, RowParts DEF IInv

-----------------------------------------------------------------------------
\* Sending.

\* The provider shows the next reply in order, or one it has shown before.
ShowsNext ==
    \/ shown' = shown
    \/ /\ Len(shown) < Len(out)
       /\ shown' = Append(shown, out[Len(shown) + 1].key)

LEMMA ShowInOrder ==
    ASSUME IInv, NEW p \in Processors, pc[p] = "sending", Show(out[held[p]].key)
    PROVE  ShowsNext /\ held[p] <= Len(shown')
<1> DEFINE i == held[p]
<1>1. i \in 1..Len(out) /\ Len(out) \in Nat /\ Len(shown) \in Nat /\ shown \in Seq(Keys)
    BY DEF IInv, TypeOK, WorkingHolds
<1>2. i - 1 <= Len(shown)
    <2>1. CASE i = 1
        BY <1>1, <2>1
    <2>2. CASE i # 1
        <3>1. i - 1 \in 1..Len(out) /\ i - 1 < i
            BY <1>1, <2>2
        <3>2. out[i - 1].status = "SUCCEEDED"
            BY <3>1 DEF IInv, HeldBehindSucceeded
        <3>3. QED
            BY <3>1, <3>2 DEF IInv, SucceededShown
    <2>3. QED
        BY <2>1, <2>2
<1>3. CASE i <= Len(shown)
    <2>1. shown[i] = out[i].key
        BY <1>1, <1>3 DEF IInv, ShownPrefix
    <2>2. shown' = shown
        BY <1>1, <1>3, <2>1 DEF Show
    <2>3. QED
        BY <1>3, <2>2 DEF ShowsNext
<1>4. CASE Len(shown) < i
    <2>1. i = Len(shown) + 1
        BY <1>1, <1>2, <1>4
    <2>2. \A j \in 1..Len(shown) : shown[j] # out[i].key
        <3>1. SUFFICES ASSUME NEW j \in 1..Len(shown) PROVE shown[j] # out[i].key
            OBVIOUS
        <3>2. j \in 1..Len(out) /\ j # i /\ shown[j] = out[j].key
            BY <1>1, <2>1 DEF IInv, ShownPrefix
        <3>3. QED
            BY <1>1, <3>2 DEF IInv, KeysDistinct
    <2>3. shown' = Append(shown, out[i].key)
        BY <2>2 DEF Show
    <2>4. Len(shown') = Len(shown) + 1
        BY <1>1, <2>3
    <2>5. QED
        BY <1>1, <2>1, <2>3, <2>4 DEF ShowsNext
<1>5. QED
    BY <1>1, <1>3, <1>4

\* A send, whether it succeeds or not.
LEMMA SendStepKeeps ==
    ASSUME IInv, NEW p \in Processors, NEW a \in Answers, pc[p] = "sending",
           Answered(p, a), ShowsNext, a = "message_id" => held[p] <= Len(shown'),
           faults' \in 0..MaxFaults
    PROVE  IInv'
<1>1. /\ UNCHANGED <<out, connection, held>>
      /\ pc' = [pc EXCEPT ![p] = "sent"]
      /\ answer' = [answer EXCEPT ![p] = a]
    BY DEF Answered
<1>2. /\ shown' \in Seq(Keys)
      /\ Len(shown') \in Nat /\ Len(shown) \in Nat /\ Len(out) \in Nat
      /\ Len(shown) <= Len(shown')
      /\ Len(shown') <= Len(out)
      /\ \A i \in 1..Len(shown') : shown'[i] = out[i].key
    <2>1. TypeOK /\ Len(shown) \in Nat /\ Len(out) \in Nat /\ shown \in Seq(Keys)
        BY DEF IInv, TypeOK
    <2>2. CASE shown' = shown
        BY <2>1, <2>2 DEF IInv, ShownPrefix
    <2>3. CASE Len(shown) < Len(out) /\ shown' = Append(shown, out[Len(shown) + 1].key)
        <3>1. out[Len(shown) + 1].key \in Keys
            BY <2>1, <2>3, RowTypes
        <3>2. /\ shown' \in Seq(Keys)
              /\ Len(shown') = Len(shown) + 1
              /\ \A i \in 1..Len(shown) : shown'[i] = shown[i]
              /\ shown'[Len(shown) + 1] = out[Len(shown) + 1].key
            BY <2>1, <2>3, <3>1
        <3>3. QED
            BY <2>1, <2>3, <3>2 DEF IInv, ShownPrefix
    <2>4. QED
        BY <2>2, <2>3 DEF ShowsNext
<1>3. TypeOK'
    BY <1>1, <1>2 DEF IInv, TypeOK
<1>4. KeysDistinct' /\ CancelledMeansRetired'
    BY <1>1 DEF IInv, KeysDistinct, CancelledMeansRetired
<1>5. ShownPrefix'
    BY <1>1, <1>2 DEF ShownPrefix
<1>6. SucceededShown'
    BY <1>1, <1>2 DEF IInv, SucceededShown
<1>7. HeldBehindSucceeded'
    BY <1>1 DEF IInv, HeldBehindSucceeded
<1>8. WorkingHolds'
    BY <1>1 DEF IInv, WorkingHolds, TypeOK
<1>9. AnswerShown'
    <2>1. SUFFICES ASSUME NEW q \in Processors, answer'[q] = "message_id"
                  PROVE  pc'[q] = "sent" /\ held'[q] <= Len(shown')
        BY DEF AnswerShown
    <2>2. CASE q = p
        BY <1>1, <2>1, <2>2 DEF IInv, TypeOK
    <2>3. CASE q # p
        <3>1. pc[q] = "sent" /\ held[q] <= Len(shown) /\ held[q] \in Nat
            BY <1>1, <2>1, <2>3 DEF IInv, AnswerShown, TypeOK
        <3>2. QED
            BY <1>1, <1>2, <2>3, <3>1 DEF IInv, TypeOK
    <2>4. QED
        BY <2>2, <2>3
<1>10. QED
    BY <1>3, <1>4, <1>5, <1>6, <1>7, <1>8, <1>9 DEF IInv

LEMMA SendKeeps ==
    ASSUME IInv, NEW p \in Processors, Send(p) \/ Unsendable(p) \/ SendFails(p)
    PROVE  IInv' /\ ShowsNext
<1>1. TypeOK
    BY DEF IInv
<1>2. CASE Send(p)
    <2>1. ShowsNext /\ held[p] <= Len(shown')
        BY <1>2, ShowInOrder DEF Send
    <2>2. QED
        BY <1>1, <1>2, <2>1, SendStepKeeps DEF Send, Answers, TypeOK
<1>3. CASE Unsendable(p)
    BY <1>1, <1>3, SendStepKeeps DEF Unsendable, Answers, TypeOK, ShowsNext
<1>4. CASE SendFails(p)
    <2>1. ShowsNext
        BY <1>4, ShowInOrder DEF SendFails, ShowsNext
    <2>2. QED
        BY <1>1, <1>4, <2>1, FaultCounts, SendStepKeeps DEF SendFails, Answers
<1>5. QED
    BY <1>2, <1>3, <1>4

\* A processor lets go of its row: it completed it, came too late, or died.
LEMMA LetGoKeeps ==
    ASSUME IInv, RowsKept, NEW p \in Processors, NEW place \in {"idle", "dead"},
           pc' = [pc EXCEPT ![p] = place], held' = [held EXCEPT ![p] = 0],
           answer' = [answer EXCEPT ![p] = "none"],
           UNCHANGED <<connection, shown>>, faults' \in 0..MaxFaults
    PROVE  IInv'
<1>1. TypeOK'
    BY DEF IInv, TypeOK, RowsKept, Answers
<1>2. HeldBehindSucceeded'
    <2>1. \A q \in Processors : held'[q] \in {held[q], 0}
        BY DEF IInv, TypeOK
    <2>2. QED
        BY <2>1, HeldParts
<1>3. WorkingHolds' /\ AnswerShown'
    BY DEF IInv, TypeOK, WorkingHolds, AnswerShown
<1>4. QED
    BY <1>1, <1>2, <1>3, RowParts DEF IInv

LEMMA FinishKeeps ==
    ASSUME IInv, NEW p \in Processors, Complete(p) \/ CompleteTooLate(p) \/ Die(p)
    PROVE  IInv' /\ RowsKept
<1>1. TypeOK
    BY DEF IInv
<1>2. CASE Complete(p)
    BY <1>1, <1>2, CompleteRows, LetGoKeeps DEF Complete, Finished, TypeOK
<1>3. CASE CompleteTooLate(p)
    BY <1>1, <1>3, SameRowsKept, LetGoKeeps DEF CompleteTooLate, Finished, TypeOK
<1>4. CASE Die(p)
    BY <1>1, <1>4, SameRowsKept, LetGoKeeps, FaultCounts DEF Die
<1>5. QED
    BY <1>2, <1>3, <1>4

LEMMA ClaimNothingKeeps ==
    ASSUME IInv, NEW p \in Processors, ClaimNothing(p) PROVE IInv'
<1>1. TypeOK
    BY DEF IInv
<1>2. RowsKept
    BY <1>1, ClaimNothingRows
<1>3. UNCHANGED <<connection, processorVars, shown, faults>>
    BY DEF ClaimNothing
<1>4. QED
    BY <1>1, <1>2, <1>3, QuietKeeps DEF TypeOK

LEMMA ReplaceKeeps ==
    ASSUME IInv, NEW p \in Processors, Replace(p) PROVE IInv'
<1>1. UNCHANGED <<out, connection, held, answer, shown, faults>> /\ pc[p] = "dead"
    BY DEF Replace
<1>2. pc' = [pc EXCEPT ![p] = "idle"]
    BY DEF Replace
<1>3. TypeOK'
    BY <1>1, <1>2 DEF IInv, TypeOK
<1>4. WorkingHolds' /\ AnswerShown'
    BY <1>1, <1>2 DEF IInv, TypeOK, WorkingHolds, AnswerShown
<1>5. KeysDistinct' /\ ShownPrefix' /\ SucceededShown' /\ CancelledMeansRetired'
    BY <1>1 DEF IInv, KeysDistinct, ShownPrefix, SucceededShown, CancelledMeansRetired
<1>6. HeldBehindSucceeded'
    BY <1>1 DEF IInv, HeldBehindSucceeded
<1>7. QED
    BY <1>3, <1>4, <1>5, <1>6 DEF IInv

-----------------------------------------------------------------------------
\* The first state satisfies the invariant.
LEMMA InitIInv == Init => IInv
<1> SUFFICES ASSUME Init PROVE IInv
    OBVIOUS
<1>1. /\ out \in Seq(OutRows) /\ Len(out) = 0
      /\ shown \in Seq(Keys) /\ Len(shown) = 0
    BY DEF Init
<1>2. TypeOK
    BY <1>1, OutboundAssumption DEF Init, TypeOK, Answers
<1>3. WorkingHolds /\ AnswerShown
    BY DEF Init, WorkingHolds, AnswerShown
<1>4. /\ KeysDistinct /\ ShownPrefix /\ SucceededShown
      /\ HeldBehindSucceeded /\ CancelledMeansRetired
    BY <1>1 DEF KeysDistinct, ShownPrefix, SucceededShown, HeldBehindSucceeded,
        CancelledMeansRetired
<1>5. QED
    BY <1>2, <1>3, <1>4 DEF IInv

\* Every step keeps the invariant.
LEMMA NextIInv == IInv /\ [Next]_vars => IInv'
<1> SUFFICES ASSUME IInv, [Next]_vars PROVE IInv'
    OBVIOUS
<1>1. CASE UNCHANGED vars
    BY <1>1 DEF vars, processorVars, IInv, TypeOK, KeysDistinct, ShownPrefix, SucceededShown,
        HeldBehindSucceeded, WorkingHolds, AnswerShown, CancelledMeansRetired
<1>2. CASE \E k \in Keys : Reply(k)
    BY <1>2, ReplyKeeps
<1>3. CASE \E i \in 1..Len(out) : RowStep(i)
    BY <1>3, RowStepKeeps, ClaimKeeps DEF RowStep
<1>4. CASE \E p \in Processors : ProcessorStep(p)
    BY <1>4, ClaimNothingKeeps, SendKeeps, FinishKeeps, ReplaceKeeps DEF ProcessorStep
<1>5. CASE Disable \/ Enable \/ Retire
    BY <1>5, ConnectionKeeps
<1>6. QED
    BY <1>1, <1>2, <1>3, <1>4, <1>5 DEF Next

\* The inductive invariant holds in every reachable state.
THEOREM Invariance == Spec => []IInv
BY InitIInv, NextIInv, PTL DEF Spec

\* Every variable keeps its type.
THEOREM TypeCorrect == Spec => []TypeOK
<1>1. IInv => TypeOK
    BY DEF IInv
<1>2. QED
    BY <1>1, Invariance, PTL

\* A reply that the ledger calls SUCCEEDED was taken by the provider, whichever
\* claim completes it.
THEOREM SucceededReal == Spec => []SucceededWasShown
<1>1. IInv => SucceededWasShown
    <2>1. SUFFICES ASSUME IInv, NEW i \in 1..Len(out), out[i].status = "SUCCEEDED"
                  PROVE  \E j \in 1..Len(shown) : shown[j] = out[i].key
        BY DEF SucceededWasShown
    <2>2. i \in 1..Len(shown)
        BY <2>1 DEF IInv, SucceededShown, TypeOK
    <2>3. QED
        BY <2>1, <2>2 DEF IInv, ShownPrefix
<1>2. QED
    BY <1>1, Invariance, PTL

-----------------------------------------------------------------------------
\* Every step but a reply keeps the rows, and shows at most the next one.
LEMMA StepShape ==
    ASSUME IInv, Next
    PROVE  \/ \E k \in Keys : Reply(k)
           \/ RowsKept /\ ShowsNext
<1>1. TypeOK
    BY DEF IInv
<1>2. ASSUME NEW i \in 1..Len(out), RowStep(i) PROVE RowsKept /\ ShowsNext
    <2>1. RowsKept
        BY <1>1, <1>2, RetryRows, BackoffRows, LeaseRows, ClaimRows
        DEF RowStep, LeaseExpires, SendOverruns
    <2>2. shown' = shown
        BY <1>2 DEF RowStep, RetryDeadLettered, BackoffEnds, LeaseExpires, SendOverruns,
            LeaseRunsOut, Claim
    <2>3. QED
        BY <2>1, <2>2 DEF ShowsNext
<1>3. ASSUME NEW p \in Processors, ProcessorStep(p) PROVE RowsKept /\ ShowsNext
    <2>1. CASE Send(p) \/ Unsendable(p) \/ SendFails(p)
        <3>1. out' = out
            BY <2>1 DEF Send, Unsendable, SendFails, Answered
        <3>2. QED
            BY <1>1, <2>1, <3>1, SendKeeps, SameRowsKept
    <2>2. CASE Complete(p) \/ CompleteTooLate(p) \/ Die(p)
        <3>1. shown' = shown
            BY <2>2 DEF Complete, CompleteTooLate, Die
        <3>2. QED
            BY <2>2, <3>1, FinishKeeps DEF ShowsNext
    <2>3. CASE ClaimNothing(p)
        BY <1>1, <2>3, ClaimNothingRows DEF ClaimNothing, ShowsNext
    <2>4. CASE Replace(p)
        BY <1>1, <2>4, SameRowsKept DEF Replace, ShowsNext
    <2>5. QED
        BY <1>3, <2>1, <2>2, <2>3, <2>4 DEF ProcessorStep
<1>4. ASSUME Disable \/ Enable \/ Retire PROVE RowsKept /\ ShowsNext
    BY <1>1, <1>4, SameRowsKept, RetireRows DEF Disable, Enable, Retire, ShowsNext
<1>5. QED
    BY <1>2, <1>3, <1>4 DEF Next

\* A delivered reply is never claimed, retried or cancelled again.
THEOREM DeliveredForGood == Spec => DeliveredStaysDelivered
<1>1. ASSUME IInv, [Next]_vars
      PROVE  \A i \in 1..Len(out) : out[i].status = "SUCCEEDED" => out'[i].status = "SUCCEEDED"
    <2>1. CASE UNCHANGED vars
        BY <2>1 DEF vars
    <2>2. CASE \E k \in Keys : Reply(k)
        BY <1>1, <2>2 DEF Reply, IInv, TypeOK
    <2>3. CASE RowsKept
        BY <2>3 DEF RowsKept, RowKept
    <2>4. QED
        BY <1>1, <2>1, <2>2, <2>3, StepShape
<1>2. QED
    BY <1>1, Invariance, PTL DEF Spec, DeliveredStaysDelivered

-----------------------------------------------------------------------------
\* The queue that the rows stand for.
Queue == [i \in 1..Len(out) |-> out[i].key]

LEMMA QueueFacts ==
    ASSUME TypeOK
    PROVE  Queue \in Seq(Keys) /\ Len(Queue) = Len(out)
<1>1. Queue \in [1..Len(out) -> Keys] /\ Len(out) \in Nat
    BY RowTypes DEF Queue, TypeOK
<1>2. QED
    BY <1>1, FunctionIsSeq

\* A reply of the gateway queues a reply of the stream.
LEMMA ReplyQueues ==
    ASSUME IInv, NEW k \in Keys, Reply(k) PROVE Stream!QueueReply(k)
<1>1. TypeOK /\ Len(out) \in Nat
    BY DEF IInv, TypeOK
<1>2. Queue \in Seq(Keys) /\ Len(Queue) = Len(out)
    BY <1>1, QueueFacts
<1>3. \A i \in 1..Len(Queue) : Queue[i] # k
    BY <1>2 DEF Queue, Reply, KnownKey
<1>4. Queue' = Append(Queue, k)
    <2>1. /\ Len(out') = Len(out) + 1
          /\ \A i \in 1..Len(out) : out'[i] = out[i]
          /\ out'[Len(out) + 1].key = k
        BY <1>1 DEF IInv, TypeOK, Reply, NewRow
    <2>2. /\ Queue' = [i \in 1..(Len(out) + 1) |-> Queue'[i]]
          /\ \A i \in 1..Len(out) : Queue'[i] = Queue[i]
          /\ Queue'[Len(out) + 1] = k
        BY <1>1, <2>1 DEF Queue
    <2>3. /\ Append(Queue, k) \in Seq(Keys)
          /\ Len(Append(Queue, k)) = Len(out) + 1
          /\ \A i \in 1..Len(out) : Append(Queue, k)[i] = Queue[i]
          /\ Append(Queue, k)[Len(out) + 1] = k
        BY <1>1, <1>2, AppendProperties
    <2>4. \A i \in 1..(Len(out) + 1) : Queue'[i] = Append(Queue, k)[i]
        BY <1>1, <2>2, <2>3
    <2>5. Queue' \in Seq(Keys) /\ Len(Queue') = Len(out) + 1
        <3>1. \A i \in 1..Len(out) : Queue[i] \in Keys
            BY <1>2
        <3>2. Queue' \in [1..(Len(out) + 1) -> Keys]
            BY <1>1, <2>2, <3>1
        <3>3. QED
            BY <1>1, <3>2, FunctionIsSeq
    <2>6. QED
        BY <2>3, <2>4, <2>5, SeqEqual
<1>5. shown' = shown
    BY DEF Reply
<1>6. QED
    BY <1>3, <1>4, <1>5 DEF Stream!QueueReply, Queue

\* Every other step shows the stream's next reply or leaves the stream alone.
LEMMA OthersShow ==
    ASSUME IInv, RowsKept, ShowsNext
    PROVE  Stream!ShowNext \/ UNCHANGED Stream!streamVars
<1>1. TypeOK /\ Len(out) \in Nat /\ Len(shown) \in Nat
    BY DEF IInv, TypeOK
<1>2. Queue' = Queue
    BY DEF Queue, RowsKept, RowKept
<1>3. CASE shown' = shown
    BY <1>2, <1>3 DEF Stream!streamVars, Queue
<1>4. CASE Len(shown) < Len(out) /\ shown' = Append(shown, out[Len(shown) + 1].key)
    <2>1. Queue[Len(shown) + 1] = out[Len(shown) + 1].key
        BY <1>1, <1>4 DEF Queue
    <2>2. Len(shown) < Len(Queue)
        BY <1>1, <1>4, QueueFacts
    <2>3. QED
        BY <1>2, <1>4, <2>1, <2>2 DEF Stream!ShowNext, Queue
<1>5. QED
    BY <1>3, <1>4 DEF ShowsNext

\* The gateway implements the ordered stream: no reply is shown before the one
\* queued ahead of it, for any number of replicas and faults.
THEOREM ImplementsStream == Spec => RepliesInOrder
<1>1. Init => Stream!StreamInit
    <2>1. ASSUME Init PROVE Queue = <<>> /\ shown = <<>>
        BY <2>1 DEF Init, Queue
    <2>2. QED
        BY <2>1 DEF Stream!StreamInit, Queue
<1>2. IInv /\ [Next]_vars => [Stream!StreamNext]_(Stream!streamVars)
    <2>1. SUFFICES ASSUME IInv, [Next]_vars
                  PROVE  Stream!StreamNext \/ UNCHANGED Stream!streamVars
        OBVIOUS
    <2>2. CASE UNCHANGED vars
        BY <2>2 DEF vars, Stream!streamVars
    <2>3. CASE Next
        BY <2>1, <2>3, StepShape, ReplyQueues, OthersShow DEF Stream!StreamNext
    <2>4. QED
        BY <2>1, <2>2, <2>3
<1>3. QED
    BY <1>1, <1>2, Invariance, PTL DEF Spec, RepliesInOrder, Stream!StreamSpec
=============================================================================

------------------------ MODULE ConversationStream -------------------------
(***************************************************************************)
(* What the Communications gateway promises the people in one conversation: *)
(* the Agent's replies are a single ordered stream.  Each reply is queued    *)
(* once, and the replies are shown in the order in which they were queued,   *)
(* none of them before the one queued ahead of it.  Nothing is promised       *)
(* about when, because an operator may leave a dead-lettered reply alone.    *)
(***************************************************************************)
EXTENDS Sequences, Naturals

CONSTANT Keys          \* the idempotency keys a reply can be queued under

VARIABLES
    queued,            \* the replies accepted for the conversation, in order
    shown              \* the replies shown so far, by their first appearance

streamVars == <<queued, shown>>

StreamInit == queued = <<>> /\ shown = <<>>

QueueReply(k) ==
    /\ \A i \in 1..Len(queued) : queued[i] # k
    /\ queued' = Append(queued, k)
    /\ UNCHANGED shown

ShowNext ==
    /\ Len(shown) < Len(queued)
    /\ shown' = Append(shown, queued[Len(shown) + 1])
    /\ UNCHANGED queued

StreamNext == ShowNext \/ \E k \in Keys : QueueReply(k)

StreamSpec == StreamInit /\ [][StreamNext]_streamVars
=============================================================================

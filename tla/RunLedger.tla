----------------------------- MODULE RunLedger ------------------------------
(***************************************************************************)
(* What a workflow run promises to the people who start and cancel it,       *)
(* without controllers, sessions, calls and deadlines.  Steps complete one    *)
(* after the other, each once, and only while the run is open.  At most one   *)
(* attempt holds the run; only the holder's result is taken, never after its  *)
(* admission was closed; a step has a limited number of holders.  A run that  *)
(* is held for a person or cancelling makes no more progress, and a settled   *)
(* one changes no more, except that its results are removed one day.         *)
(***************************************************************************)
EXTENDS Naturals

CONSTANTS Steps, MaxAttempts

VARIABLES
    phase,    \* how the run stands
    kept,     \* for each step, the attempt whose result is kept, or 0
    done,     \* how many steps are complete
    last,     \* attempts so far
    holder,   \* the attempt that holds the run, or 0
    fenced,   \* whether the holder's admission is closed
    tries     \* attempts of the step that is next

ledgerVars == <<phase, kept, done, last, holder, fenced, tries>>

SettledPhases == {"succeeded", "failed", "cancelled"}

NothingKept == [i \in 0..(Steps - 1) |-> 0]

LedgerInit ==
    /\ phase = "none" /\ kept = NothingKept /\ done = 0
    /\ last = 0 /\ holder = 0 /\ fenced = FALSE /\ tries = 0

Begin ==
    /\ phase = "none" /\ phase' = "open"
    /\ UNCHANGED <<kept, done, last, holder, fenced, tries>>

Admit ==
    /\ phase = "open" /\ holder = 0 /\ tries < MaxAttempts
    /\ last' = last + 1 /\ holder' = last + 1
    /\ fenced' = FALSE /\ tries' = tries + 1
    /\ UNCHANGED <<phase, kept, done>>

\* The holder's result is kept and the next step, if there is one, is open.
Deliver ==
    /\ phase = "open" /\ holder # 0 /\ ~fenced
    /\ kept' = [kept EXCEPT ![done] = holder]
    /\ done' = done + 1 /\ tries' = 0 /\ holder' = 0
    /\ phase' = IF done' = Steps THEN "succeeded" ELSE "open"
    /\ UNCHANGED <<last, fenced>>

\* Where a run may go without progress: never back.
Onward(p) == CASE p = "open" -> {"open", "held", "cancelling"}
               [] p = "held" -> {"held", "cancelling"}
               [] p = "cancelling" -> {"cancelling"}
               [] OTHER -> {}

Hold ==
    /\ phase' \in Onward(phase)
    /\ UNCHANGED <<kept, done, last, holder, fenced, tries>>

Close ==
    /\ phase' \in Onward(phase)
    /\ holder # 0 /\ fenced' = TRUE
    /\ UNCHANGED <<kept, done, last, holder, tries>>

\* The holder, if there is one, has stopped without a result.
Drop ==
    /\ phase \in {"open", "held", "cancelling"}
    /\ \/ phase' = "open" /\ phase = "open" /\ holder # 0 /\ tries < MaxAttempts
       \/ /\ phase' = "failed" /\ phase = "open" /\ holder # 0
          /\ fenced => tries = MaxAttempts
       \/ phase' = "held" /\ phase \in {"open", "held"}
       \/ phase' = "cancelled"
    /\ holder' = 0 /\ fenced' = FALSE
    /\ UNCHANGED <<kept, done, last, tries>>

Forget ==
    /\ phase \in SettledPhases
    /\ kept' = NothingKept
    /\ UNCHANGED <<phase, done, last, holder, fenced, tries>>

LedgerNext == Begin \/ Admit \/ Deliver \/ Hold \/ Close \/ Drop \/ Forget

LedgerSpec == LedgerInit /\ [][LedgerNext]_ledgerVars
=============================================================================

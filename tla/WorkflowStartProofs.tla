------------------------- MODULE WorkflowStartProofs -------------------------
(***************************************************************************)
(* Proofs about WorkflowStart, for any number of clients, request           *)
(* identities, versions and runs.  Besides its types the inductive invariant *)
(* says that nobody has a revision open that is newer than the definition's,  *)
(* that whoever has the current revision open has the latest version open,   *)
(* and that a request past its first check asks for something.               *)
(***************************************************************************)
EXTENDS WorkflowStart, SequenceTheorems, TLAPS

Run == [request : Requests, ask : Asks, version : DOMAIN bases,
        state : {"live", "settled"}, expired : BOOLEAN]

\* Whoever is at the current revision has read the latest version.
EditorsCurrent ==
    \A c \in Clients :
        /\ read[c].revision <= revision
        /\ read[c].revision = revision => read[c].version = Len(bases)

\* A request that is past its first check asks for something.
AskingSomething == \A c \in Clients : asking[c] # Idle => asking[c].ask \in Asks

IInv ==
    /\ TypeOK
    /\ EditorsCurrent
    /\ AskingSomething
    /\ OneRunPerRequest
    /\ SavesSeeLatest

-----------------------------------------------------------------------------
\* Idle is a request of the right type, and asks for nothing.
LEMMA IdleFacts ==
    /\ Idle \in [request : Requests, ask : Asks \cup {NoAsk}, version : 0..MaxVersions]
    /\ Idle.ask = NoAsk
<1>1. (CHOOSE r \in Requests : TRUE) \in Requests
    BY StartAssumption
<1>2. QED
    BY <1>1, StartAssumption DEF Idle

\* The first state satisfies the invariant.
LEMMA InitIInv == Init => IInv
<1> SUFFICES ASSUME Init PROVE IInv
    OBVIOUS
<1> USE DEF Init
<1>1. bases \in Seq(0..MaxVersions) /\ Len(bases) = 1 /\ DOMAIN bases = {1} /\ bases[1] = 0
    BY StartAssumption
<1>2. /\ \A S : runs \in Seq(S)
      /\ Len(runs) = 0
      /\ DOMAIN runs = {}
    OBVIOUS
<1>3. TypeOK
    <2>1. read \in [Clients -> [revision : Nat, version : DOMAIN bases]]
        BY <1>1
    <2>2. asking \in [Clients -> [request : Requests, ask : Asks \cup {NoAsk},
                                  version : 0..MaxVersions]]
        BY IdleFacts
    <2>3. revision \in Nat /\ Len(bases) \in 1..MaxVersions
        BY <1>1, StartAssumption
    <2>4. archived \in BOOLEAN /\ answers = {}
        BY Zenon
    <2>5. QED
        BY <1>1, <1>2, <2>1, <2>2, <2>3, <2>4, Zenon DEF TypeOK
<1>4. EditorsCurrent
    <2>1. \A c \in Clients : read[c].revision = 1 /\ read[c].version = 1
        OBVIOUS
    <2>2. revision = 1 /\ Len(bases) = 1
        BY <1>1, Zenon
    <2>3. ASSUME NEW c \in Clients
          PROVE  read[c].revision <= revision /\ read[c].version = Len(bases)
        <3> HIDE DEF Init
        <3>1. QED
            BY <2>1, <2>2
    <2>4. QED
        BY <2>3 DEF EditorsCurrent
<1>5. AskingSomething
    BY DEF AskingSomething
<1>6. OneRunPerRequest
    BY <1>2 DEF OneRunPerRequest
<1>7. SavesSeeLatest
    BY <1>1 DEF SavesSeeLatest
<1>8. QED
    BY <1>3, <1>4, <1>5, <1>6, <1>7 DEF IInv

\* Opening the editor reads the definition as it is.
LEMMA OpenEditorKeeps ==
    ASSUME IInv, NEW c \in Clients, OpenEditor(c) PROVE IInv'
<1> USE DEF IInv
<1>1. Len(bases) \in DOMAIN bases
    BY DEF TypeOK
<1>2. TypeOK'
    BY <1>1 DEF TypeOK, OpenEditor, definition
<1>3. EditorsCurrent'
    BY DEF EditorsCurrent, OpenEditor, definition, TypeOK
<1>4. QED
    BY <1>2, <1>3 DEF OpenEditor, definition, AskingSomething, OneRunPerRequest,
        SavesSeeLatest, TypeOK

\* A version is saved by someone who had read the latest one.
LEMMA SaveVersionKeeps ==
    ASSUME IInv, NEW c \in Clients, SaveVersion(c) PROVE IInv'
<1> USE DEF IInv
<1>1. read[c].version = Len(bases) /\ read[c].version \in 0..MaxVersions
    BY DEF SaveVersion, Saveable, EditorsCurrent, TypeOK
<1>2. /\ bases' \in Seq(0..MaxVersions)
      /\ Len(bases') = Len(bases) + 1
      /\ DOMAIN bases \subseteq DOMAIN bases'
      /\ \A n \in DOMAIN bases : bases'[n] = bases[n]
      /\ bases'[Len(bases) + 1] = Len(bases)
      /\ DOMAIN bases' = DOMAIN bases \cup {Len(bases) + 1}
    BY <1>1 DEF SaveVersion, TypeOK
<1>3. TypeOK'
    <2>1. runs' \in Seq(Run')
        <3>1. runs \in Seq(Run) /\ runs' = runs
            BY DEF SaveVersion, TypeOK, Run
        <3>2. Run \subseteq Run'
            BY <1>2 DEF Run
        <3>3. QED
            BY <3>1, <3>2, SeqMonotonic
    <2>2. read' \in [Clients -> [revision : Nat, version : DOMAIN bases']]
        BY <1>2 DEF SaveVersion, TypeOK
    <2>3. Len(bases') \in 1..MaxVersions /\ revision' \in Nat
        BY <1>2, StartAssumption DEF SaveVersion, TypeOK
    <2>4. QED
        BY <1>2, <2>1, <2>2, <2>3 DEF SaveVersion, TypeOK, Run
<1>4. EditorsCurrent'
    BY DEF EditorsCurrent, SaveVersion, TypeOK
<1>5. SavesSeeLatest'
    BY <1>2 DEF SavesSeeLatest, TypeOK
<1>6. QED
    BY <1>3, <1>4, <1>5 DEF SaveVersion, AskingSomething, OneRunPerRequest

\* Archiving moves the revision only.
LEMMA ArchiveKeeps ==
    ASSUME IInv, NEW c \in Clients, Archive(c) PROVE IInv'
<1> USE DEF IInv
<1>1. TypeOK'
    BY DEF Archive, TypeOK
<1>2. EditorsCurrent'
    BY DEF Archive, EditorsCurrent, TypeOK
<1>3. QED
    BY <1>1, <1>2 DEF Archive, AskingSomething, OneRunPerRequest, SavesSeeLatest

\* The first check writes down what is asked, with a version that exists.
LEMMA FirstCheckKeeps ==
    ASSUME IInv, NEW c \in Clients, NEW request \in Requests, NEW ask \in Asks,
           FirstCheck(c, request, ask)
    PROVE  IInv'
<1> USE DEF IInv
<1>1. VersionOf(ask) \in 0..MaxVersions
    BY StartAssumption DEF FirstCheck, VersionExists, TypeOK
<1>2. TypeOK'
    <2>1. asking' \in [Clients -> [request : Requests, ask : Asks \cup {NoAsk},
                                   version : 0..MaxVersions]]
        BY <1>1 DEF FirstCheck, TypeOK
    <2>2. QED
        BY <2>1 DEF FirstCheck, TypeOK, definition
<1>3. AskingSomething'
    BY DEF FirstCheck, AskingSomething, TypeOK
<1>4. QED
    BY <1>2, <1>3 DEF FirstCheck, definition, EditorsCurrent, OneRunPerRequest,
        SavesSeeLatest, TypeOK

\* A retry is told of the run of its first try.
LEMMA AnswerRetryKeeps ==
    ASSUME IInv, NEW c \in Clients, NEW request \in Requests, NEW ask \in Asks,
           AnswerRetry(c, request, ask)
    PROVE  IInv'
<1> USE DEF IInv
<1> PICK k \in Under(request) :
       /\ runs[k].ask = ask
       /\ answers' = answers \cup {[request |-> request, ask |-> ask, run |-> k]}
    BY DEF AnswerRetry
<1>1. k \in DOMAIN runs /\ runs[k].request = request
    BY DEF Under
<1>2. TypeOK'
    BY <1>1 DEF AnswerRetry, TypeOK, definition
<1>3. OneRunPerRequest'
    BY <1>1 DEF OneRunPerRequest, AnswerRetry
<1>4. QED
    BY <1>2, <1>3 DEF AnswerRetry, definition, EditorsCurrent, AskingSomething,
        SavesSeeLatest, TypeOK

\* A request gives up, or is told of the run that won.
LEMMA CommitFindsKeeps ==
    ASSUME IInv, NEW c \in Clients, CommitFinds(c) PROVE IInv'
<1> USE DEF IInv
<1>1. PICK k \in Recheck(c) :
         answers' = IF runs[k].ask = asking[c].ask
                    THEN answers \cup {[request |-> asking[c].request,
                                        ask |-> asking[c].ask, run |-> k]}
                    ELSE answers
    BY DEF CommitFinds
<1>2. k \in DOMAIN runs /\ runs[k].request = asking[c].request
    BY <1>1 DEF Recheck, Under
<1>3. asking[c].request \in Requests /\ asking[c].ask \in Asks
    BY DEF CommitFinds, AskingSomething, TypeOK
<1>4. TypeOK'
    BY <1>1, <1>2, <1>3, IdleFacts DEF CommitFinds, TypeOK, definition
<1>5. OneRunPerRequest'
    BY <1>1, <1>2 DEF OneRunPerRequest, CommitFinds
<1>6. AskingSomething'
    BY DEF AskingSomething, CommitFinds, TypeOK
<1>7. QED
    BY <1>4, <1>5, <1>6 DEF CommitFinds, definition, EditorsCurrent, SavesSeeLatest, TypeOK

\* A request gives up.
LEMMA GivesUpKeeps ==
    ASSUME IInv, NEW c \in Clients, GivesUp(c) PROVE IInv'
<1> USE DEF IInv
<1>1. TypeOK'
    BY IdleFacts DEF GivesUp, TypeOK, definition
<1>2. AskingSomething'
    BY DEF AskingSomething, GivesUp, TypeOK
<1>3. QED
    BY <1>1, <1>2 DEF GivesUp, definition, EditorsCurrent, SavesSeeLatest,
        OneRunPerRequest, TypeOK

\* A run is created under the locks, when none has its request identity.
LEMMA CommitKeeps ==
    ASSUME IInv, NEW c \in Clients, Commit(c) PROVE IInv'
<1> USE DEF IInv
<1>1. asking[c].request \in Requests /\ asking[c].ask \in Asks
    BY DEF Commit, AskingSomething, TypeOK
<1>2. NewRun(c) \in Run
    BY <1>1 DEF Commit, Startable, VersionExists, NewRun, Run
<1>3. /\ runs' \in Seq(Run)
      /\ DOMAIN runs' = DOMAIN runs \cup {Len(runs) + 1}
      /\ \A k \in DOMAIN runs : runs'[k] = runs[k]
      /\ runs'[Len(runs) + 1] = NewRun(c)
      /\ Len(runs) + 1 \notin DOMAIN runs
    BY <1>2 DEF Commit, TypeOK, Run
<1>4. Run' = Run
    BY DEF Commit, definition, Run
<1>5. TypeOK'
    <2>1. answers' \subseteq [request : Requests, ask : Asks, run : DOMAIN runs']
        BY <1>1, <1>3 DEF Commit, TypeOK
    <2>2. QED
        BY <1>3, <1>4, <2>1, IdleFacts DEF Commit, definition, TypeOK, Run
<1>6. OneRunPerRequest'
    <2>1. \A k \in DOMAIN runs : runs[k].request # asking[c].request
        BY DEF Commit, Recheck, Under
    <2>2. \A j, k \in DOMAIN runs' : runs'[j].request = runs'[k].request => j = k
        BY <1>3, <2>1 DEF OneRunPerRequest, NewRun
    <2>3. \A a \in answers' : runs'[a.run].request = a.request /\ runs'[a.run].ask = a.ask
        <3> SUFFICES ASSUME NEW a \in answers'
                     PROVE  runs'[a.run].request = a.request /\ runs'[a.run].ask = a.ask
            OBVIOUS
        <3>1. CASE a \in answers
            BY <1>3, <3>1 DEF OneRunPerRequest, TypeOK
        <3>2. CASE a \notin answers
            BY <1>3, <3>2 DEF Commit, NewRun
        <3>3. QED
            BY <3>1, <3>2
    <2>4. QED
        BY <2>2, <2>3 DEF OneRunPerRequest
<1>7. AskingSomething'
    BY DEF AskingSomething, Commit, TypeOK
<1>8. QED
    BY <1>5, <1>6, <1>7 DEF Commit, definition, EditorsCurrent, SavesSeeLatest, TypeOK

\* Settling or expiring a run changes neither its request nor what it asked.
LEMMA RunStepKeeps ==
    ASSUME IInv, NEW k \in 1..MaxRuns, Settle(k) \/ ExpireContent(k) PROVE IInv'
<1> USE DEF IInv
<1>1. /\ runs' \in Seq(Run)
      /\ DOMAIN runs' = DOMAIN runs
      /\ \A j \in DOMAIN runs : /\ runs'[j].request = runs[j].request
                                /\ runs'[j].ask = runs[j].ask
    <2>1. runs \in Seq(Run)
        BY DEF TypeOK, Run
    <2>2. k \in DOMAIN runs /\ runs[k] \in Run
        BY <2>1 DEF Settle, ExpireContent
    <2>3. /\ [runs[k] EXCEPT !.state = "settled"] \in Run
          /\ [runs[k] EXCEPT !.expired = TRUE] \in Run
        BY <2>2 DEF Run
    <2>4. CASE Settle(k)
        BY <2>1, <2>2, <2>3, <2>4 DEF Settle
    <2>5. CASE ExpireContent(k)
        BY <2>1, <2>2, <2>3, <2>5 DEF ExpireContent
    <2>6. QED
        BY <2>4, <2>5
<1>2. UNCHANGED <<definition, asking, read, answers>>
    BY DEF Settle, ExpireContent
<1>3. TypeOK'
    BY <1>1, <1>2 DEF TypeOK, definition, Run
<1>4. OneRunPerRequest'
    BY <1>1, <1>2 DEF OneRunPerRequest, TypeOK
<1>5. QED
    BY <1>2, <1>3, <1>4 DEF definition, EditorsCurrent, AskingSomething, SavesSeeLatest, TypeOK

\* Every step keeps the invariant.
LEMMA NextIInv == IInv /\ [Next]_vars => IInv'
<1> SUFFICES ASSUME IInv, [Next]_vars PROVE IInv'
    OBVIOUS
<1>1. CASE UNCHANGED vars
    BY <1>1 DEF vars, definition, IInv, TypeOK, EditorsCurrent, AskingSomething,
        OneRunPerRequest, SavesSeeLatest
<1>2. CASE Next
    BY <1>2, OpenEditorKeeps, SaveVersionKeeps, ArchiveKeeps, FirstCheckKeeps,
        AnswerRetryKeeps, CommitKeeps, CommitFindsKeeps, GivesUpKeeps, RunStepKeeps DEF Next
<1>3. QED
    BY <1>1, <1>2

\* The inductive invariant holds in every reachable state.
THEOREM Invariance == Spec => []IInv
BY InitIInv, NextIInv, PTL DEF Spec

\* Every variable keeps its type and every run has a version that was saved.
THEOREM TypeCorrect == Spec => []TypeOK
<1>1. IInv => TypeOK
    BY DEF IInv
<1>2. QED
    BY <1>1, Invariance, PTL

\* One request identity names one run and its retries are told of that run:
\* WorkflowRunRepository.start looks again under its locks.
THEOREM StartIdempotent == Spec => []OneRunPerRequest
<1>1. IInv => OneRunPerRequest
    BY DEF IInv
<1>2. QED
    BY <1>1, Invariance, PTL

\* No edit is lost: save_version compares the revision under the row's lock.
THEOREM NoLostEdit == Spec => []SavesSeeLatest
<1>1. IInv => SavesSeeLatest
    BY DEF IInv
<1>2. QED
    BY <1>1, Invariance, PTL

-----------------------------------------------------------------------------
\* Only SaveVersion touches the versions and only Commit adds a run.
LEMMA StepShape ==
    ASSUME IInv, Next
    PROVE  \/ \E c \in Clients : SaveVersion(c) \/ Commit(c)
           \/ /\ bases' = bases /\ DOMAIN runs' = DOMAIN runs
              /\ Len(runs') = Len(runs)
              /\ archived => archived'
<1>1. ASSUME NEW k \in 1..MaxRuns, Settle(k) \/ ExpireContent(k)
      PROVE  /\ bases' = bases /\ DOMAIN runs' = DOMAIN runs
             /\ Len(runs') = Len(runs) /\ archived' = archived
    BY <1>1 DEF Settle, ExpireContent, definition, IInv, TypeOK
<1>2. ASSUME NEW c \in Clients, OpenEditor(c) \/ Archive(c) \/ CommitFinds(c) \/ GivesUp(c)
      PROVE  bases' = bases /\ runs' = runs /\ (archived => archived')
    BY <1>2 DEF OpenEditor, Archive, CommitFinds, GivesUp, definition
<1>3. ASSUME NEW c \in Clients, NEW request \in Requests, NEW ask \in Asks,
             FirstCheck(c, request, ask) \/ AnswerRetry(c, request, ask)
      PROVE  bases' = bases /\ runs' = runs /\ archived' = archived
    BY <1>3 DEF FirstCheck, AnswerRetry, definition
<1>4. QED
    BY <1>1, <1>2, <1>3 DEF Next

\* An archived definition gets no version and no run, whatever a request had
\* read before it took the locks.
THEOREM ArchiveCloses == Spec => ArchivedIsClosed
<1>1. ASSUME IInv, [Next]_vars, archived
      PROVE  archived' /\ bases' = bases /\ Len(runs') = Len(runs)
    <2>1. CASE UNCHANGED vars
        BY <1>1, <2>1 DEF vars, definition
    <2>2. CASE Next
        <3>1. \A c \in Clients : ~SaveVersion(c) /\ ~Commit(c)
            BY <1>1 DEF SaveVersion, Saveable, Commit, Startable
        <3>2. QED
            BY <1>1, <2>2, <3>1, StepShape
    <2>3. QED
        BY <1>1, <2>1, <2>2
<1>2. QED
    BY <1>1, Invariance, PTL DEF Spec, ArchivedIsClosed

\* A run whose content retention removed is never the source of a new run:
\* repository.start reads the source again under a lock.
THEOREM ExpiredNotCopied == Spec => RetentionHonoured
<1>1. ASSUME IInv, [Next]_vars
      PROVE  \A k \in DOMAIN runs' \ DOMAIN runs :
                 runs'[k].ask.source # 0 => ~runs[runs'[k].ask.source].expired
    <2>1. CASE UNCHANGED vars
        BY <2>1 DEF vars
    <2>2. CASE \E c \in Clients : SaveVersion(c)
        BY <2>2 DEF SaveVersion
    <2>3. ASSUME NEW c \in Clients, Commit(c)
          PROVE  \A k \in DOMAIN runs' \ DOMAIN runs :
                     runs'[k].ask.source # 0 => ~runs[runs'[k].ask.source].expired
        <3>1. /\ DOMAIN runs' = DOMAIN runs \cup {Len(runs) + 1}
              /\ runs'[Len(runs) + 1] = NewRun(c)
            BY <1>1, <2>3 DEF Commit, IInv, TypeOK
        <3>2. QED
            BY <2>3, <3>1 DEF Commit, SourceKept, NewRun
    <2>4. CASE Next
        BY <1>1, <2>2, <2>3, <2>4, StepShape
    <2>5. QED
        BY <1>1, <2>1, <2>4
<1>2. QED
    BY <1>1, Invariance, PTL DEF Spec, RetentionHonoured
=============================================================================

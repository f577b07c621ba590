---------------------------- MODULE WorkflowStart ----------------------------
(***************************************************************************)
(* api/domains/workflows: one workflow definition, edited and archived by     *)
(* several people, started and re-run by clients that retry a request whose   *)
(* answer was lost. A start is decided twice: WorkflowRunService._start        *)
(* reads, without locks, and WorkflowRunRepository.start decides again with    *)
(* the Agent, the definition and a re-run's source locked. Between the two      *)
(* the definition may be archived, the source's content may expire, and another *)
(* request under the same identity may win.                                  *)
(***************************************************************************)
EXTENDS Naturals, Sequences

CONSTANTS
    Clients,      \* starts, re-runs and edits in progress; all starts of one person
    Requests,     \* client_request_id values
    MaxVersions,  \* bound: versions saved
    MaxRuns       \* bound: runs started

ASSUME StartAssumption ==
    Requests # {} /\ MaxVersions \in Nat \ {0} /\ MaxRuns \in Nat

\* What is asked for: a start of a version, or a re-run of a run. start_hash
\* covers the version (and inputs) of a start but only the source of a re-run. It
\* also covers the person: the same request from another one is a different ask.
Asks == [source : {0}, version : 1..MaxVersions]
            \cup [source : 1..MaxRuns, version : {0}]

NoAsk == [source |-> 0, version |-> 0]

VARIABLES
    revision,  \* the definition's revision
    bases,     \* its versions: the version each one's author had read
    archived,  \* archived_at is set
    runs,      \* the runs, in creation order
    asking,    \* what each client's request is past the first check with
    read,      \* the revision and version each client has open in an editor
    answers    \* history: the run each answered start was told of

definition == <<revision, bases, archived>>
vars == <<definition, runs, asking, read, answers>>

Idle == [request |-> CHOOSE r \in Requests : TRUE, ask |-> NoAsk, version |-> 0]

\* WorkflowRepository.create has saved version 1.
Init ==
    /\ revision = 1 /\ bases = <<0>> /\ archived = FALSE
    /\ runs = <<>>
    /\ asking = [c \in Clients |-> Idle]
    /\ read = [c \in Clients |-> [revision |-> 1, version |-> 1]]
    /\ answers = {}

-----------------------------------------------------------------------------
\* Editing: save_version compares the revision with the definition row locked.

OpenEditor(c) ==
    /\ read' = [read EXCEPT ![c] = [revision |-> revision, version |-> Len(bases)]]
    /\ UNCHANGED <<definition, runs, asking, answers>>

\* Mutant of Saveable: the last writer wins.
SaveableAlways(c) == ~archived

Saveable(c) == read[c].revision = revision /\ ~archived

SaveVersion(c) ==
    /\ Saveable(c) /\ Len(bases) < MaxVersions
    /\ bases' = Append(bases, read[c].version)
    /\ revision' = revision + 1
    /\ UNCHANGED <<archived, runs, asking, read, answers>>

Archive(c) ==
    /\ Saveable(c)
    /\ archived' = TRUE /\ revision' = revision + 1
    /\ UNCHANGED <<bases, runs, asking, read, answers>>

-----------------------------------------------------------------------------
\* Starting.

Under(request) == {k \in DOMAIN runs : runs[k].request = request}

\* Mutant of VersionExists: the version is taken as it was sent.
VersionExistsUnchecked(v) == TRUE

VersionExists(v) == v \in DOMAIN bases

\* rerun(): only a settled run; its version and inputs are copied here.
Rerunnable(k) == k \in DOMAIN runs /\ runs[k].state = "settled"
VersionOf(ask) == IF ask.source = 0 THEN ask.version ELSE runs[ask.source].version

\* _start up to repository.start: an answer, a conflict or on to the locks.
FirstCheck(c, request, ask) ==
    /\ asking[c] = Idle
    /\ ask.source # 0 => Rerunnable(ask.source)
    /\ Under(request) = {}
    /\ ask.source # 0 => ~runs[ask.source].expired
    /\ VersionExists(VersionOf(ask))
    /\ asking' = [asking EXCEPT ![c] =
                    [request |-> request, ask |-> ask, version |-> VersionOf(ask)]]
    /\ UNCHANGED <<definition, runs, read, answers>>

\* existing_start finds the run of an earlier try.
AnswerRetry(c, request, ask) ==
    /\ asking[c] = Idle
    /\ ask.source # 0 => Rerunnable(ask.source)
    /\ \E k \in Under(request) :
          /\ runs[k].ask = ask
          /\ answers' = answers \cup {[request |-> request, ask |-> ask, run |-> k]}
    /\ UNCHANGED <<definition, runs, asking, read>>

\* Mutant of Recheck: the first check is trusted.
RecheckTrusted(c) == {}

\* repository.start looks for the request again once it holds the locks.
Recheck(c) == Under(asking[c].request)

\* Mutant of SourceKept: the source is not read again.
SourceKeptTrusted(c) == TRUE

SourceKept(c) ==
    asking[c].ask.source # 0 => ~runs[asking[c].ask.source].expired

\* Mutant of Startable: an archived definition still starts.
StartableArchived(c) == VersionExists(asking[c].version)

Startable(c) == ~archived /\ VersionExists(asking[c].version)

NewRun(c) == [request |-> asking[c].request, ask |-> asking[c].ask,
              version |-> asking[c].version, state |-> "live", expired |-> FALSE]

Commit(c) ==
    /\ asking[c] # Idle /\ Recheck(c) = {} /\ SourceKept(c) /\ Startable(c)
    /\ Len(runs) < MaxRuns
    /\ runs' = Append(runs, NewRun(c))
    /\ answers' = answers \cup {[request |-> asking[c].request, ask |-> asking[c].ask,
                                 run |-> Len(runs) + 1]}
    /\ asking' = [asking EXCEPT ![c] = Idle]
    /\ UNCHANGED <<definition, read>>

\* Another request under this identity won: its run, if it asked for the same.
CommitFinds(c) ==
    /\ asking[c] # Idle
    /\ \E k \in Recheck(c) :
          answers' = IF runs[k].ask = asking[c].ask
                     THEN answers \cup {[request |-> asking[c].request,
                                         ask |-> asking[c].ask, run |-> k]}
                     ELSE answers
    /\ asking' = [asking EXCEPT ![c] = Idle]
    /\ UNCHANGED <<definition, runs, read>>

\* 409 under the locks, or the process dies before its commit.
GivesUp(c) ==
    /\ asking[c] # Idle
    /\ asking' = [asking EXCEPT ![c] = Idle]
    /\ UNCHANGED <<definition, runs, read, answers>>

-----------------------------------------------------------------------------
\* The runs: the ledger settles them, retention removes their content.

Settle(k) ==
    /\ k \in DOMAIN runs /\ runs[k].state = "live"
    /\ runs' = [runs EXCEPT ![k].state = "settled"]
    /\ UNCHANGED <<definition, asking, read, answers>>

ExpireContent(k) ==
    /\ k \in DOMAIN runs /\ runs[k].state = "settled" /\ ~runs[k].expired
    /\ runs' = [runs EXCEPT ![k].expired = TRUE]
    /\ UNCHANGED <<definition, asking, read, answers>>

-----------------------------------------------------------------------------
Next ==
    \/ \E c \in Clients :
          \/ OpenEditor(c) \/ SaveVersion(c) \/ Archive(c)
          \/ \E request \in Requests, ask \in Asks :
                FirstCheck(c, request, ask) \/ AnswerRetry(c, request, ask)
          \/ Commit(c) \/ CommitFinds(c) \/ GivesUp(c)
    \/ \E k \in 1..MaxRuns : Settle(k) \/ ExpireContent(k)

Spec == Init /\ [][Next]_vars

-----------------------------------------------------------------------------
\* Every variable has its type; a run runs a version that was saved.
TypeOK ==
    /\ revision \in Nat /\ archived \in BOOLEAN
    /\ bases \in Seq(0..MaxVersions) /\ Len(bases) \in 1..MaxVersions
    /\ runs \in Seq([request : Requests, ask : Asks, version : DOMAIN bases,
                     state : {"live", "settled"}, expired : BOOLEAN])
    /\ asking \in [Clients -> [request : Requests, ask : Asks \cup {NoAsk},
                               version : 0..MaxVersions]]
    /\ read \in [Clients -> [revision : Nat, version : DOMAIN bases]]
    /\ answers \subseteq [request : Requests, ask : Asks, run : DOMAIN runs]

\* However often and by however many a start is retried, its request identity
\* names one run, everyone who asked for that run was told of it, and nobody was
\* told of a run asked for differently.
OneRunPerRequest ==
    /\ \A j, k \in DOMAIN runs : runs[j].request = runs[k].request => j = k
    /\ \A a \in answers : runs[a.run].request = a.request /\ runs[a.run].ask = a.ask

\* No edit is lost: the author of every version had read the one before it.
SavesSeeLatest == \A n \in DOMAIN bases : bases[n] = n - 1

\* Once archived, a definition gets no version and no run, though a request may
\* have found it live before it took the locks.
ArchivedIsClosed ==
    [][archived => archived' /\ bases' = bases /\ Len(runs') = Len(runs)]_vars

\* A run whose content retention removed is not copied into a new one, though
\* the copy was read while the content was still there.
RetentionHonoured ==
    [][\A k \in DOMAIN runs' \ DOMAIN runs :
          runs'[k].ask.source # 0 => ~runs[runs'[k].ask.source].expired]_vars
=============================================================================

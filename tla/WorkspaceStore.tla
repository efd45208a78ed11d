--------------------------- MODULE WorkspaceStore ---------------------------
(***************************************************************************)
(* The row of a workspace, its ledger and the records kept beside the      *)
(* snapshot.  A mail poll that found nothing is recorded without writing   *)
(* the snapshot: the revision goes up, the ledger gets the run, and the    *)
(* marker "mat" stays at the revision the snapshot was last written for.   *)
(* Readers lay the pending runs over the snapshot; the next full write     *)
(* absorbs them; maintenance may drain them.                               *)
(*                                                                         *)
(* Of the snapshot the model keeps the timeline, by the id of the command  *)
(* that wrote each row.  Handlers read the row and the pending runs in two *)
(* requests, evaluate, and commit in a third that may land after its       *)
(* sender gave up.  Those of an older deployment know nothing of the       *)
(* overlay.  Managed commands are admitted under a grant the owner may     *)
(* revoke and give again at any time.                                      *)
(***************************************************************************)
EXTENDS Integers, Sequences

CONSTANTS
    Handlers,       \* gateway invocations
    Commands,       \* command ids
    Polls,          \* command ids of empty mail polls, one per run
    Rewriting,      \* commands that write over an older row
    Managed,        \* commands that need the owner's grant
    Nobody,         \* no poll holds the lease; no command made the revision
    MaxPending,     \* 256 in the source
    MaxAttempts,    \* 5 in the source
    MaxCalls,       \* bound: calls the handlers serve
    MaxEvents       \* bound: drains, decisions on the grant, lost answers and leases

Ids == Commands \cup Polls

ASSUME StoreConstants ==
    /\ Rewriting \subseteq Commands
    /\ Managed \subseteq Commands \ Rewriting
    /\ Commands \cap Polls = {}
    /\ Nobody \notin Ids \cup Handlers
    /\ MaxPending \in Nat \ {0}
    /\ MaxAttempts \in Nat \ {0}

VARIABLES
    workspace,  \* [rev, mat, rows]: the row of pjsdas_workspaces
    ledger,     \* per revision, the ledger row that made it
    grant,      \* [rev, live]: the row of pjsdas_business_management_grants
    holder,     \* the poll whose execution lease stands
    begun,      \* the polls begun so far
    wire,       \* commit requests under way
    pc,         \* where each handler is
    call,       \* what it serves: [id, aware, echo, admitted]
    attempt,    \* which attempt it makes
    base,       \* the workspace it read
    answer,     \* the answer it gave
    past,       \* observer: the history at each revision
    until,      \* observer: the revision at which each grant revision ended
    calls, events       \* served so far, against the bounds

store == <<workspace, ledger, past>>
begin == <<begun, calls>>
consent == <<grant, until>>
local == <<call, attempt, base, answer>>
vars == <<workspace, ledger, grant, holder, begun, wire, pc, call, attempt, base,
          answer, past, until, calls, events>>

-----------------------------------------------------------------------------
(* The row, the pending runs and their merge *)

\* A ledger row: the command, whether it is an empty run kept outside the
\* snapshot, and the grant revision it was admitted under (0: none needed).
Entry(id, run, admitted) == [id |-> id, run |-> run, admitted |-> admitted]

Known(id) == \E r \in DOMAIN ledger : ledger[r].id = id

PendingRuns(low, high) == [i \in 1 .. high - low |-> ledger[low + i].id]

\* pjsdas_logical_workspace_snapshot_v1 of the locked row.
Logical == workspace.rows \o PendingRuns(workspace.mat, workspace.rev)

IsPrefix(s, t) == Len(s) <= Len(t) /\ \A i \in DOMAIN s : s[i] = t[i]

\* pjsdas_merge_empty_gmail_runs_v1: a writer that does not know the pending
\* runs may only have appended, one that does has them right after the rows
\* of the snapshot and nowhere else.
Knows(rows) ==
    LET pending == PendingRuns(workspace.mat, workspace.rev)
        old == Len(workspace.rows)
    IN  /\ IsPrefix(workspace.rows \o pending, rows)
        /\ \A i \in DOMAIN rows :
               (\E k \in DOMAIN pending : rows[i] = pending[k])
               => i \in old + 1 .. old + Len(pending)

Ignores(rows) ==
    LET pending == PendingRuns(workspace.mat, workspace.rev)
    IN  /\ IsPrefix(workspace.rows, rows)
        /\ \A i \in DOMAIN rows, k \in DOMAIN pending : rows[i] # pending[k]

Mergeable(rows) ==
    workspace.mat = workspace.rev \/ Ignores(rows) \/ Knows(rows)

Merged(rows) ==
    IF workspace.mat # workspace.rev /\ Ignores(rows)
    THEN Logical \o SubSeq(rows, Len(workspace.rows) + 1, Len(rows))
    ELSE rows

CommandRows(rows) == {i \in DOMAIN rows : rows[i] \in Commands}

\* The evaluators, as far as the timeline goes: most commands append a row,
\* some write over the row of an earlier command.
Effect(id, rows) ==
    IF id \in Rewriting /\ CommandRows(rows) # {}
    THEN [rows EXCEPT ![CHOOSE i \in CommandRows(rows) : TRUE] = id]
    ELSE Append(rows, id)

NoCall == [id |-> Nobody, aware |-> TRUE, echo |-> FALSE, admitted |-> 0]
NoBase == [rev |-> 0, mat |-> 0, rows |-> <<>>]
NoAnswer == [outcome |-> "NONE", rev |-> 0, rows |-> <<>>]
Failure(code) == [NoAnswer EXCEPT !.outcome = code]

Init ==
    /\ workspace = NoBase
    /\ ledger = <<>>
    /\ past = <<>>
    /\ grant = [rev |-> 1, live |-> TRUE]
    /\ until = <<>>
    /\ holder = Nobody
    /\ begun = {}
    /\ wire = {}
    /\ pc = [h \in Handlers |-> "idle"]
    /\ call = [h \in Handlers |-> NoCall]
    /\ attempt = [h \in Handlers |-> 1]
    /\ base = [h \in Handlers |-> NoBase]
    /\ answer = [h \in Handlers |-> NoAnswer]
    /\ calls = 0 /\ events = 0
-----------------------------------------------------------------------------
(* The RPCs: one transaction each, under the lock of the row *)

Request(h, route) ==
    [from |-> h, id |-> call[h].id, route |-> route, expected |-> base[h].rev,
     rows |-> Effect(call[h].id, base[h].rows),
     grant |-> grant.rev, admitted |-> call[h].admitted]

Reply(outcome, rows) == [outcome |-> outcome, rev |-> workspace.rev, rows |-> rows]

\* The answer reaches its sender, if that still waits.
Answered(q, reply) ==
    /\ wire' = wire \ {q}
    /\ IF q.from = Nobody
       THEN UNCHANGED <<pc, answer>>
       ELSE /\ pc' = [pc EXCEPT ![q.from] = "answered"]
            /\ answer' = [answer EXCEPT ![q.from] = reply]
    /\ UNCHANGED <<call, attempt, base, events>>

Refused(q, reply) ==
    /\ Answered(q, reply)
    /\ UNCHANGED <<store, begin, consent, holder>>

\* A full write: the snapshot, both revisions and the ledger row.
Written(q, rows) ==
    LET next == workspace.rev + 1
    IN  /\ workspace' = [rev |-> next, mat |-> next, rows |-> rows]
        /\ ledger' = Append(ledger, Entry(q.id, FALSE, q.admitted))
        /\ past' = Append(past, rows)
        /\ Answered(q, [outcome |-> "COMMITTED", rev |-> next, rows |-> rows])
        /\ UNCHANGED <<begin, consent, holder>>

\* The guarded routes hold the row of the grant until the transaction ends.
GrantStands(q) == q.route = "managed" => grant.live /\ grant.rev = q.grant

\* A metadata-only route answers with no snapshot, so it writes none but the
\* one submitted.
WritesAsSent(q) == q.route = "echo" => Merged(q.rows) = q.rows

\* pjsdas_commit_workspace, v2, v3 and the guarded routes to v2.
Commit(q) ==
    /\ q \in wire
    /\ q.route \in {"full", "echo", "managed"}
    /\ IF ~GrantStands(q)
       THEN Refused(q, Failure("AUTH_FORBIDDEN"))
       ELSE IF Known(q.id)
       THEN Refused(q, Reply("ALREADY_APPLIED", Logical))
       ELSE IF q.expected # workspace.rev
       THEN Refused(q, Reply("CONFLICT", Logical))
       ELSE IF ~Mergeable(q.rows) \/ ~WritesAsSent(q)
       THEN Refused(q, Failure("WORKSPACE_CONFLICT"))
       ELSE Written(q, Merged(q.rows))

\* pjsdas_checkpoint_empty_gmail_poll_v1: the revision and the ledger row, and
\* no snapshot (the rows of the answer are what its revision stands for).
Checkpointed(q) ==
    LET next == workspace.rev + 1
        rows == Append(Logical, q.id)
    IN  /\ workspace' = [workspace EXCEPT !.rev = next]
        /\ ledger' = Append(ledger, Entry(q.id, TRUE, 0))
        /\ past' = Append(past, rows)
        /\ Answered(q, [outcome |-> "COMMITTED", rev |-> next, rows |-> rows])
        /\ UNCHANGED <<begin, consent, holder>>

\* What makes a poll ineligible besides the length of the window - the cursor,
\* the schema, the coverage boundary, the id of its run - is a choice.
Checkpoint(q, eligible) ==
    /\ q \in wire
    /\ q.route = "checkpoint"
    /\ IF holder # q.id
       THEN Refused(q, Failure("AUTH_FORBIDDEN"))
       ELSE IF Known(q.id)
       THEN Refused(q, Reply("ALREADY_APPLIED", Logical))
       ELSE IF q.expected # workspace.rev
       THEN Refused(q, Reply("CONFLICT", Logical))
       ELSE IF ~eligible \/ workspace.rev - workspace.mat >= MaxPending
       THEN Refused(q, Failure("NOT_ELIGIBLE"))
       ELSE Checkpointed(q)

\* One of the events that the bound counts.
Event == events < MaxEvents /\ events' = events + 1

\* Mutant: the drain writes the snapshot under the revision it has.
DrainInPlace ==
    /\ Event
    /\ workspace.mat < workspace.rev
    /\ workspace' = [workspace EXCEPT !.mat = workspace.rev, !.rows = Logical]
    /\ UNCHANGED <<ledger, past, begin, consent, holder, wire, pc, local>>

\* pjsdas_drain_empty_gmail_runs_v1, with the expected revision just read: a
\* drain on an older one changes nothing.  The new revision has no command.
Drain ==
    /\ Event
    /\ workspace.mat < workspace.rev
    /\ LET next == workspace.rev + 1
       IN  workspace' = [rev |-> next, mat |-> next, rows |-> Logical]
    /\ ledger' = Append(ledger, Entry(Nobody, FALSE, 0))
    /\ past' = Append(past, Logical)
    /\ UNCHANGED <<begin, consent, holder, wire, pc, local>>

-----------------------------------------------------------------------------
(* Handlers *)

Move(h, label) == pc' = [pc EXCEPT ![h] = label]

\* What a call had read is dropped with its answer.
End(h, reply) ==
    /\ Move(h, "done")
    /\ answer' = [answer EXCEPT ![h] = reply]
    /\ base' = [base EXCEPT ![h] = NoBase]
    /\ attempt' = [attempt EXCEPT ![h] = 1]

Aware(h) == call[h].aware

\* A poll is begun by the worker that took the lease, under an id of its own.
\* A managed command is admitted only under a grant that stands.
Begin(h, id, aware, echo) ==
    /\ pc[h] \in {"idle", "done"}
    /\ calls < MaxCalls
    /\ calls' = calls + 1
    /\ id \in Polls =>
           /\ holder = Nobody
           /\ aware
           /\ id \notin begun
    /\ id \in Managed => grant.live
    /\ echo => id \in Commands \ Managed
    /\ holder' = IF id \in Polls THEN id ELSE holder
    /\ begun' = begun \cup ({id} \cap Polls)
    /\ call' = [call EXCEPT ![h] =
           [id |-> id, aware |-> aware, echo |-> echo,
            admitted |-> IF id \in Managed THEN grant.rev ELSE 0]]
    /\ attempt' = [attempt EXCEPT ![h] = 1]
    /\ base' = [base EXCEPT ![h] = NoBase]
    /\ answer' = [answer EXCEPT ![h] = NoAnswer]
    /\ Move(h, "readRow")
    /\ UNCHANGED <<workspace, ledger, past, consent, wire, events>>

\* readForUser, first request: snapshot and both revisions of one row.
ReadRow(h) ==
    /\ pc[h] \in {"readRow", "readBack"}
    /\ base' = [base EXCEPT ![h] = workspace]
    /\ Move(h, CASE Aware(h) /\ workspace.mat < workspace.rev ->
                       IF pc[h] = "readRow" THEN "readRuns" ELSE "readBackRuns"
                 [] OTHER -> IF pc[h] = "readRow" THEN "lookup" ELSE "told")
    /\ UNCHANGED <<store, begin, consent, holder, wire, call, attempt, answer, events>>

\* Mutant: the runs since the snapshot, as many as there are by now.
RunsOfLatest(b) == {r \in b.mat + 1 .. Len(ledger) : ledger[r].run}

\* The runs of the window that was read; overlayEmptyGmailRuns refuses a
\* window that is not full, too long, or already in the snapshot.
RunsOf(b) == {r \in b.mat + 1 .. b.rev : r \in DOMAIN ledger /\ ledger[r].run}

ValidWindow(b) ==
    /\ RunsOf(b) = b.mat + 1 .. b.rev
    /\ b.rev - b.mat <= MaxPending
    /\ \A r \in RunsOf(b), i \in DOMAIN b.rows : b.rows[i] # ledger[r].id
    /\ \A r, s \in RunsOf(b) : ledger[r].id = ledger[s].id => r = s

ReadRuns(h) ==
    /\ pc[h] \in {"readRuns", "readBackRuns"}
    /\ IF ValidWindow(base[h])
       THEN /\ base' = [base EXCEPT ![h].rows =
                            @ \o PendingRuns(base[h].mat, base[h].rev)]
            /\ Move(h, IF pc[h] = "readRuns" THEN "lookup" ELSE "told")
            /\ UNCHANGED <<answer, attempt>>
       ELSE End(h, Failure("WORKSPACE_INVALID"))
    /\ UNCHANGED <<store, begin, consent, holder, wire, call, events>>

Read(h, outcome) == [outcome |-> outcome, rev |-> base[h].rev, rows |-> base[h].rows]

\* Mutant: any grant will do.
AuthorizedByAny(h) == call[h].id \in Managed => grant.live

\* authorizeManagement with the grant admitted before: a managed command is
\* authorised again before the workspace is shown and before the commit is sent.
Authorized(h) ==
    call[h].id \in Managed => grant.live /\ grant.rev = call[h].admitted

\* readCommandForUser; the poller evaluates what it read without a look at the
\* ledger.
Lookup(h) ==
    /\ pc[h] = "lookup"
    /\ Move(h, IF call[h].id \in Commands /\ Known(call[h].id)
               THEN "told" ELSE "evaluate")
    /\ UNCHANGED <<store, begin, consent, holder, wire, local, events>>

\* The answer to a command that was applied before.
Tell(h) ==
    /\ pc[h] = "told"
    /\ End(h, IF Authorized(h) THEN Read(h, "ALREADY_APPLIED")
              ELSE Failure("AUTH_FORBIDDEN"))
    /\ UNCHANGED <<store, begin, consent, holder, wire, call, events>>

\* The evaluation may find nothing to write, or a conflict.
NoWrite(h) ==
    /\ pc[h] = "evaluate"
    /\ call[h].id \in Commands
    /\ End(h, IF Authorized(h) THEN Read(h, "NO_WRITE")
              ELSE Failure("AUTH_FORBIDDEN"))
    /\ UNCHANGED <<store, begin, consent, holder, wire, call, events>>

Route(h) ==
    IF call[h].id \in Polls THEN "checkpoint"
    ELSE IF call[h].id \in Managed THEN "managed"
    ELSE IF call[h].echo THEN "echo" ELSE "full"

\* A poll asserts its lease, a managed command its grant, a request earlier.
Send(h) ==
    /\ pc[h] = "evaluate"
    /\ IF Authorized(h) /\ (call[h].id \in Polls => holder = call[h].id)
       THEN /\ wire' = wire \cup {Request(h, Route(h))}
            /\ Move(h, "waiting")
            /\ UNCHANGED <<answer, base, attempt>>
       ELSE End(h, Failure("AUTH_FORBIDDEN")) /\ UNCHANGED wire
    /\ UNCHANGED <<store, begin, consent, holder, call, events>>

\* The executor starts over on a conflict, under the grant it was admitted
\* under; the poller gives up.  (A metadata-only route reads the workspace once
\* more in between, for an answer nobody uses.)
Retry(h) ==
    /\ pc[h] = "answered"
    /\ answer[h].outcome = "CONFLICT"
    /\ IF call[h].id \in Polls \/ attempt[h] = MaxAttempts
       THEN End(h, Failure("WORKSPACE_CONFLICT"))
       ELSE IF ~Authorized(h)
       THEN End(h, Failure("AUTH_FORBIDDEN"))
       ELSE /\ attempt' = [attempt EXCEPT ![h] = @ + 1]
            /\ base' = [base EXCEPT ![h] = NoBase]
            /\ Move(h, "readRow")
            /\ answer' = [answer EXCEPT ![h] = NoAnswer]
    /\ UNCHANGED <<store, begin, consent, holder, wire, call, events>>

\* Metadata-only routes and a deployment without the overlay send no snapshot
\* along; the store reads the workspace again.
ReadsBack(h) == call[h].echo \/ ~Aware(h)

AlreadyApplied(h) ==
    /\ pc[h] = "answered"
    /\ answer[h].outcome = "ALREADY_APPLIED"
    /\ IF ReadsBack(h)
       THEN /\ Move(h, "readBack")
            /\ answer' = [answer EXCEPT ![h] = NoAnswer]
            /\ base' = [base EXCEPT ![h] = NoBase]
            /\ UNCHANGED attempt
       ELSE End(h, IF Authorized(h) THEN answer[h] ELSE Failure("AUTH_FORBIDDEN"))
    /\ UNCHANGED <<store, begin, consent, holder, wire, call, events>>

\* Where no snapshot came along, the one submitted is taken for it.
Succeed(h) ==
    /\ pc[h] = "answered"
    /\ answer[h].outcome = "COMMITTED"
    /\ End(h, IF ReadsBack(h)
              THEN [answer[h] EXCEPT !.rows = Effect(call[h].id, base[h].rows)]
              ELSE answer[h])
    /\ UNCHANGED <<store, begin, consent, holder, wire, call, events>>

\* Only NOT_ELIGIBLE makes the poller write the snapshot instead.
FallBack(h) ==
    /\ pc[h] = "answered"
    /\ answer[h].outcome = "NOT_ELIGIBLE"
    /\ wire' = wire \cup {Request(h, "full")}
    /\ Move(h, "waiting")
    /\ answer' = [answer EXCEPT ![h] = NoAnswer]
    /\ UNCHANGED <<store, begin, consent, holder, call, attempt, base, events>>

Fail(h) ==
    /\ pc[h] = "answered"
    /\ answer[h].outcome \in {"AUTH_FORBIDDEN", "WORKSPACE_CONFLICT"}
    /\ End(h, answer[h])
    /\ UNCHANGED <<store, begin, consent, holder, wire, call, events>>

\* The answer is lost, or the handler dies; its request may still land.
LoseAnswer(h) ==
    /\ pc[h] = "waiting"
    /\ Event
    /\ \E q \in wire :
           /\ q.from = h
           /\ wire' = (wire \ {q}) \cup {[q EXCEPT !.from = Nobody]}
    /\ End(h, Failure("WORKSPACE_UNAVAILABLE"))
    /\ UNCHANGED <<store, begin, consent, holder, call>>

-----------------------------------------------------------------------------
(* The lease of the poller and the owner's grant *)

Release(h) ==
    /\ pc[h] = "done"
    /\ holder = call[h].id
    /\ holder' = Nobody
    /\ UNCHANGED <<store, begin, consent, wire, pc, local, events>>

LoseLease ==
    /\ holder # Nobody
    /\ Event
    /\ holder' = Nobody
    /\ UNCHANGED <<store, begin, consent, wire, pc, local>>

\* pjsdas_decide_scoped_management_consent_v1, for a decision made on the
\* grant as it is (on another it changes nothing), and the trigger that counts
\* the grant's revisions.
Decide(approve) ==
    /\ Event
    /\ approve \/ grant.live
    /\ grant' = [rev |-> grant.rev + 1, live |-> approve]
    /\ until' = Append(until, workspace.rev)
    /\ UNCHANGED <<store, begin, holder, wire, pc, local>>

-----------------------------------------------------------------------------
HandlerStep(h) ==
    \/ \E id \in Ids, aware, echo \in BOOLEAN : Begin(h, id, aware, echo)
    \/ ReadRow(h) \/ ReadRuns(h) \/ Lookup(h) \/ Tell(h) \/ NoWrite(h) \/ Send(h)
    \/ Retry(h) \/ AlreadyApplied(h) \/ Succeed(h) \/ FallBack(h) \/ Fail(h)
    \/ LoseAnswer(h) \/ Release(h)

Next ==
    \/ \E h \in Handlers : HandlerStep(h)
    \/ \E q \in wire : Commit(q) \/ \E eligible \in BOOLEAN : Checkpoint(q, eligible)
    \/ Drain
    \/ LoseLease
    \/ \E approve \in BOOLEAN : Decide(approve)

Spec == Init /\ [][Next]_vars

-----------------------------------------------------------------------------
(* Properties *)

Revisions == 1 .. workspace.rev

HistoryAt(r) == IF r = 0 THEN <<>> ELSE past[r]

TypeOK ==
    /\ workspace.mat \in 0 .. workspace.rev
    /\ DOMAIN ledger = Revisions /\ DOMAIN past = Revisions
    /\ grant \in [rev : Nat, live : BOOLEAN]
    /\ holder \in Polls \cup {Nobody}
    /\ pc \in [Handlers -> {"idle", "readRow", "readRuns", "lookup", "told",
                 "evaluate", "waiting", "answered", "readBack", "readBackRuns", "done"}]

\* No schedule makes the workspace unreadable: the window of pending runs is
\* complete and within its limit for every row that was read, however long
\* ago.
ReadsNeverFail ==
    \A h \in Handlers : answer[h].outcome # "WORKSPACE_INVALID"

\* Whatever snapshot a handler of this deployment evaluates or answers with is
\* the history at the revision it names, pending runs included: the row and
\* the runs are read in two requests, and writers may come between.
SnapshotsAreExact ==
    /\ ReadsNeverFail
    /\ \A h \in Handlers : Aware(h) =>
        /\ pc[h] \in {"lookup", "told", "evaluate", "waiting"}
           => base[h].rows = HistoryAt(base[h].rev)
        /\ pc[h] = "done" => answer[h].rows = HistoryAt(answer[h].rev)

\* When a revision of the grant ends, so does what it covers: no command that
\* was admitted under it is committed later, whatever was checked before and
\* though the grant be given again, and none is shown a later workspace.
NothingPastItsGrant ==
    \A n \in DOMAIN until :
        /\ \A r \in DOMAIN ledger :
               ledger[r].id \in Managed /\ ledger[r].admitted = n => r <= until[n]
        /\ \A h \in Handlers :
               pc[h] = "done" /\ call[h].admitted = n => answer[h].rev <= until[n]
-----------------------------------------------------------------------------
(* The history the store implements *)

Applied == {ledger[r].id : r \in DOMAIN ledger} \ {Nobody}

History == INSTANCE WorkspaceHistory
    WITH revision <- workspace.rev, history <- Logical, applied <- Applied

\* Full writes, checkpoints beside the snapshot, absorption and drains look
\* like commands that take effect once each on the whole history.
ImplementsWorkspaceHistory == History!Spec
=============================================================================

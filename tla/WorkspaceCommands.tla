------------------------- MODULE WorkspaceCommands -------------------------
(***************************************************************************)
(* The transactional workspace authority and the command executor.         *)
(*                                                                         *)
(* One row per user holds the whole snapshot and a revision; a ledger row  *)
(* per command id holds the payload hash, the resulting revision, the      *)
(* receipt and the compensation.  A handler (one gateway invocation) reads *)
(* the row, then the ledger, then the ledger's later rows, in separate     *)
(* requests, evaluates the command on what it read, and commits the whole  *)
(* next snapshot through an RPC that locks the row and compares the        *)
(* revision.  Handlers run concurrently; the same command may be in        *)
(* several of them, and any of them may die between two requests.          *)
(*                                                                         *)
(* A Gmail poll that found nothing may advance the revision without        *)
(* rewriting the snapshot: its ledger row is then laid over every read.    *)
(* A drain writes such rows into the snapshot, and advances the revision   *)
(* without a row of its own.  "data" is the snapshot with the pending rows *)
(* laid over it, which is what a reader gets (WorkspaceStore shows that).  *)
(*                                                                         *)
(* Four kinds of request reach the row:                                    *)
(*   "execute"  createAuthoritativeCommandExecutor().execute               *)
(*   "undo"     createAuthoritativeCommandExecutor().undo                  *)
(*   "kernel"   createMutationKernel().execute (its receipts do not name   *)
(*              the affected objects)                                      *)
(*   "source"   transactionalWorkspaceSource.write (a read, then a write   *)
(*              bound to the revision that was read)                       *)
(***************************************************************************)
EXTENDS Integers, FiniteSets

CONSTANTS
    Handlers,       \* concurrent gateway invocations
    CommandIds,     \* command identities chosen by the clients
    Payloads,       \* what a command asks for
    Requests,       \* the requests the clients send
    Cells,          \* fields of business objects
    Objects,        \* business objects
    Values,         \* values of a field
    ObjectOf,       \* [Cells -> Objects]
    Intent,         \* [Payloads -> SUBSET Cells]: intentFieldScopes
    Effect,         \* [Payloads -> [Data -> Data]]: the evaluator
    Undoable,       \* payloads whose evaluation returns a compensation
    Compensation,   \* [Undoable -> [Data -> [Data -> Data]]]: what undoing a
                    \* payload evaluated on one snapshot makes of a later one
    EmptyPolls,     \* payloads of polls that found nothing
    TypedFacts,     \* payloads typedFactAlreadyCurrent looks at
    Proposals,      \* payloads that carry a signed proposal
    Confirmable,    \* payloads the evaluator may answer NEEDS_CONFIRMATION to
    Managed,        \* payloads of the *_management operations
    InitialData,    \* snapshots the workspace was bootstrapped with
    MaxAttempts,    \* 5 in the source
    NoEntry         \* readCommandForUser found no row

Data == [Cells -> Values]

Kinds == {"execute", "undo", "kernel", "source"}

(***************************************************************************)
(* A request names its command id; "body" is the payload, or for an undo   *)
(* the id of the command to undo; "base" is baseRevision (execute) or      *)
(* expectedRevision (kernel).                                              *)
(***************************************************************************)
RequestType ==
    [kind : Kinds \ {"undo"}, id : CommandIds, body : Payloads, base : Nat]
        \cup [kind : {"undo"}, id : CommandIds, body : CommandIds, base : Nat]

(***************************************************************************)
(* A ledger row.  The receipt of the source carries a delta between the    *)
(* snapshot before and after the command, from which the affected objects  *)
(* and the compensation are derived; the row keeps the two snapshots.      *)
(***************************************************************************)
EntryType ==
    [kind : Kinds, body : Payloads \cup CommandIds, base : Nat,
     rev : Nat \ {0}, before : Data, after : Data]

Outcomes ==
    {"NONE", "COMMITTED", "ALREADY_APPLIED", "NO_WRITE", "CONFLICT",
     "OBJECT_CONFLICT", "OPAQUE_INTERVENING_WRITE",
     "BUSINESS_CONFIRMATION_REQUIRED", "INVALID_ARGUMENT", "STALE_PROPOSAL",
     "COMMAND_ID_REUSED", "WORKSPACE_CONFLICT", "UNAVAILABLE"}

Labels == {"idle", "readWorkspace", "readLedger", "readTarget", "readRaw",
           "readLater", "commit", "readBack"}

Conflicts == {"CONFLICT", "OBJECT_CONFLICT", "OPAQUE_INTERVENING_WRITE",
              "BUSINESS_CONFIRMATION_REQUIRED"}

ASSUME ConstantsAssumption ==
    /\ ObjectOf \in [Cells -> Objects]
    /\ Intent \in [Payloads -> SUBSET Cells]
    /\ Effect \in [Payloads -> [Data -> Data]]
    /\ Undoable \subseteq Payloads
    /\ Compensation \in [Undoable -> [Data -> [Data -> Data]]]
    /\ Requests \subseteq RequestType
    /\ Requests # {}
    /\ InitialData \subseteq Data
    /\ MaxAttempts \in Nat \ {0}
    /\ NoEntry \notin EntryType
    /\ Payloads \cap CommandIds = {}
    /\ TypedFacts \cap Proposals = {}

(***************************************************************************)
(* correct_opportunity_fact, set_opportunity_preference and job_viewed are *)
(* the commands whose scope is narrower than the object, and they write    *)
(* only the field they name in it.                                         *)
(***************************************************************************)
ASSUME EvaluatorStaysInScope ==
    \A p \in Payloads, d \in Data, c \in Cells :
        /\ Effect[p][d][c] # d[c]
        /\ \E i \in Intent[p] : ObjectOf[i] = ObjectOf[c]
        => c \in Intent[p]

VARIABLES
    workspace,  \* [rev, materialized, data]: the row of pjsdas_workspaces
    ledger,     \* [CommandIds -> EntryType \cup {NoEntry}]
    pc,         \* where each handler is
    request,    \* the request it serves
    attempt,    \* attempts lost to a concurrent commit
    seen,       \* the workspace it read
    target,     \* the ledger row an undo read for its target
    response    \* the answer it gave

WorkspaceType == [rev : Nat, materialized : Nat, data : Data]

row == <<workspace, ledger>>
local == <<request, attempt, seen, target, response>>
vars == <<workspace, ledger, pc, request, attempt, seen, target, response>>

NoResponse == [outcome |-> "NONE", rev |-> 0, receipt |-> 0]

-----------------------------------------------------------------------------
(* The ledger and what receipts say *)

Committed == {c \in CommandIds : ledger[c] # NoEntry}

After(rev) == {c \in Committed : ledger[c].rev > rev}

Changed(e) == {c \in Cells : e.before[c] # e.after[c]}

ObjectsOf(cells) == {ObjectOf[c] : c \in cells}

AffectedObjects(e) == ObjectsOf(Changed(e))

Opaque(e) == e.kind = "kernel"

\* Fields a receipt declares as changed; only execute declares any.
ConflictScopes(e) ==
    IF e.kind = "execute"
    THEN {c \in Cells :
            /\ ObjectOf[c] \in AffectedObjects(e)
            /\ ObjectOf[c] \in ObjectsOf(Intent[e.body]) => c \in Intent[e.body]}
    ELSE {}

\* Mutant: a receipt that declares the fields it changed is always compatible.
IncompatibleIfUndeclared(intent, e) ==
    {o \in ObjectsOf(intent) \cap AffectedObjects(e) :
        ~ \E c \in ConflictScopes(e) : ObjectOf[c] = o}

Incompatible(intent, e) ==
    {o \in ObjectsOf(intent) \cap AffectedObjects(e) :
        \/ ~ \E c \in ConflictScopes(e) : ObjectOf[c] = o
        \/ \E c \in ConflictScopes(e) \cap intent : ObjectOf[c] = o}

HasCompensation(e) == e.body \in Undoable

\* The rows a checkpoint may leave pending.
IsEmptyPoll(e) == e.kind = "source" /\ e.body \in EmptyPolls

SameHash(e, r) == e.kind = r.kind /\ e.body = r.body

-----------------------------------------------------------------------------
(* Steps of a handler *)

Goto(h, label) == pc' = [pc EXCEPT ![h] = label]

Answer(h, outcome, rev, receipt) ==
    /\ Goto(h, "idle")
    /\ response' = [response EXCEPT
            ![h] = [outcome |-> outcome, rev |-> rev, receipt |-> receipt]]

Receive(h, r) ==
    /\ pc[h] = "idle"
    /\ Goto(h, "readWorkspace")
    /\ request' = [request EXCEPT ![h] = r]
    /\ attempt' = [attempt EXCEPT ![h] = 0]
    /\ target' = [target EXCEPT ![h] = NoEntry]
    /\ response' = [response EXCEPT ![h] = NoResponse]
    /\ UNCHANGED <<workspace, ledger, seen>>

\* readForUser.  The kernel asks the ledger only when the revision moved.
ReadWorkspace(h) ==
    /\ pc[h] = "readWorkspace"
    /\ seen' = [seen EXCEPT ![h] = workspace]
    /\ Goto(h, CASE request[h].kind = "execute" -> "readLedger"
                 [] request[h].kind = "undo" -> "readTarget"
                 [] request[h].kind = "source" -> "commit"
                 [] request[h].kind = "kernel" ->
                        IF workspace.rev = request[h].base
                        THEN "commit" ELSE "readLedger")
    /\ UNCHANGED <<workspace, ledger, request, attempt, target, response>>

\* Mutant: the payload hash is not compared.
AnswerAnyFromLedger(h) ==
    LET e == ledger[request[h].id]
    IN  /\ e # NoEntry
        /\ Answer(h, "ALREADY_APPLIED", seen[h].rev, e.rev)

\* readCommandForUser found the command: its receipt is the answer, next to
\* the workspace that was read before it.
AnswerFromLedger(h) ==
    LET e == ledger[request[h].id]
    IN  /\ e # NoEntry
        /\ IF SameHash(e, request[h])
           THEN Answer(h, "ALREADY_APPLIED", seen[h].rev, e.rev)
           ELSE Answer(h, "COMMAND_ID_REUSED", seen[h].rev, 0)

ReadLedgerHit(h) ==
    /\ pc[h] = "readLedger"
    /\ AnswerFromLedger(h)
    /\ UNCHANGED <<workspace, ledger, request, attempt, seen, target>>

\* The evaluator runs on the snapshot that was read; an unchanged result is
\* answered without a write.
Evaluate(h) ==
    LET p == request[h].body
        next == Effect[p][seen[h].data]
    IN  \/ /\ p \in Confirmable
           /\ Answer(h, "BUSINESS_CONFIRMATION_REQUIRED", seen[h].rev, 0)
        \/ /\ next = seen[h].data
           /\ Answer(h, "NO_WRITE", seen[h].rev, 0)
        \/ /\ next # seen[h].data
           /\ Goto(h, "commit")
           /\ UNCHANGED response

\* A command id the ledger does not know.  A signed proposal is bound to the
\* revision it was prepared on; a fact that already holds needs no write.
ReadLedgerMiss(h) ==
    LET r == request[h]
        now == seen[h].rev
        holds == r.body \in TypedFacts /\ Effect[r.body][seen[h].data] = seen[h].data
    IN  /\ pc[h] = "readLedger"
        /\ r.kind = "execute"
        /\ ledger[r.id] = NoEntry
        /\ \/ r.base > now /\ Answer(h, "INVALID_ARGUMENT", now, 0)
           \/ r.base < now /\ r.body \in Proposals /\ Answer(h, "STALE_PROPOSAL", now, 0)
           \/ r.base <= now /\ holds /\ Answer(h, "ALREADY_APPLIED", now, 0)
           \/ /\ r.base < now /\ r.body \notin Proposals /\ ~holds
              /\ Goto(h, "readLater")
              /\ UNCHANGED response
           \/ r.base = now /\ ~holds /\ Evaluate(h)
        /\ UNCHANGED <<workspace, ledger, request, attempt, seen, target>>

\* The kernel was prepared on another revision and never committed.
KernelConflict(h) ==
    /\ pc[h] = "readLedger"
    /\ request[h].kind = "kernel"
    /\ ledger[request[h].id] = NoEntry
    /\ Answer(h, "CONFLICT", seen[h].rev, 0)
    /\ UNCHANGED <<workspace, ledger, request, attempt, seen, target>>

\* readCommandsAfterRevision(baseRevision), then conflictFromIntervening.
ReadIntervening(h) ==
    LET r == request[h]
        later == {ledger[c] : c \in After(r.base)}
    IN  /\ pc[h] = "readLater"
        /\ r.kind = "execute"
        /\ \/ /\ \E e \in later : Opaque(e)
              /\ Answer(h, "OPAQUE_INTERVENING_WRITE", seen[h].rev, 0)
           \/ /\ \A e \in later : ~Opaque(e)
              /\ \E e \in later : Incompatible(Intent[r.body], e) # {}
              /\ Answer(h, "OBJECT_CONFLICT", seen[h].rev, 0)
           \/ /\ \A e \in later :
                    ~Opaque(e) /\ Incompatible(Intent[r.body], e) = {}
              /\ Evaluate(h)
        /\ UNCHANGED <<workspace, ledger, request, attempt, seen, target>>

-----------------------------------------------------------------------------
(* Undo *)

ReadTarget(h) ==
    /\ pc[h] = "readTarget"
    /\ request[h].kind = "undo"
    /\ target' = [target EXCEPT ![h] = ledger[request[h].body]]
    /\ Goto(h, IF target'[h] # NoEntry /\ target'[h].body \in Managed
               THEN "readRaw" ELSE "readLedger")
    /\ UNCHANGED <<workspace, ledger, request, attempt, seen, response>>

\* The undo of a managed command reads the row again, with its raw data.
ReadRaw(h) ==
    /\ pc[h] = "readRaw"
    /\ seen' = [seen EXCEPT ![h] = workspace]
    /\ Goto(h, "readLedger")
    /\ UNCHANGED <<workspace, ledger, request, attempt, target, response>>

UndoLedgerMiss(h) ==
    /\ pc[h] = "readLedger"
    /\ request[h].kind = "undo"
    /\ ledger[request[h].id] = NoEntry
    /\ IF target[h] = NoEntry \/ ~HasCompensation(target[h])
       THEN Answer(h, "BUSINESS_CONFIRMATION_REQUIRED", seen[h].rev, 0)
       ELSE Goto(h, "readLater") /\ UNCHANGED response
    /\ UNCHANGED <<workspace, ledger, request, attempt, seen, target>>

\* Mutant: only commands that mean to change the target's fields block it.
ReadDependentsByIntent(h) ==
    LET t == target[h]
        later == {ledger[c] : c \in After(t.rev)}
        shared == \E e \in later :
                    e.kind = "execute" /\ Intent[e.body] \cap Changed(t) # {}
    IN  /\ pc[h] = "readLater"
        /\ request[h].kind = "undo"
        /\ IF shared
           THEN Answer(h, "OBJECT_CONFLICT", seen[h].rev, 0)
           ELSE Goto(h, "commit") /\ UNCHANGED response
        /\ UNCHANGED <<workspace, ledger, request, attempt, seen, target>>

\* readCommandsAfterRevision(target.resultingRevision): every later command
\* on an object the target affected blocks the undo, whatever its fields.
ReadDependents(h) ==
    LET t == target[h]
        later == {ledger[c] : c \in After(t.rev)}
        blocked == \/ Opaque(t) /\ later # {}
                   \/ \E e \in later : Opaque(e)
        shared == \E e \in later :
                    AffectedObjects(e) \cap AffectedObjects(t) # {}
    IN  /\ pc[h] = "readLater"
        /\ request[h].kind = "undo"
        /\ CASE blocked -> Answer(h, "OPAQUE_INTERVENING_WRITE", seen[h].rev, 0)
             [] ~blocked /\ shared -> Answer(h, "OBJECT_CONFLICT", seen[h].rev, 0)
             [] ~blocked /\ ~shared -> Goto(h, "commit") /\ UNCHANGED response
        /\ UNCHANGED <<workspace, ledger, request, attempt, seen, target>>

-----------------------------------------------------------------------------
(* The commit RPC: it locks the row, so each of these is one transaction *)

NextSnapshot(h) ==
    IF request[h].kind = "undo"
    THEN Compensation[target[h].body][target[h].before][seen[h].data]
    ELSE Effect[request[h].body][seen[h].data]

NewEntry(h) ==
    [kind |-> request[h].kind, body |-> request[h].body,
     base |-> IF request[h].kind = "execute" THEN request[h].base ELSE seen[h].rev,
     rev |-> workspace.rev + 1, before |-> seen[h].data, after |-> NextSnapshot(h)]

\* Mutant: a full write leaves the mark of what the snapshot holds where it was.
WriteSnapshotOnly(e) ==
    workspace' = [workspace EXCEPT !.rev = e.rev, !.data = e.after]

\* A full write puts every pending poll into the snapshot; a poll that found
\* nothing may be recorded beside it instead.
WriteSnapshot(e) ==
    \E m \in IF IsEmptyPoll(e) THEN {workspace.materialized, e.rev} ELSE {e.rev} :
        workspace' = [rev |-> e.rev, materialized |-> m, data |-> e.after]

\* Mutant: the revision is not compared under the lock.
CommitAppliesAnyRevision(h) ==
    LET e == NewEntry(h)
    IN  /\ pc[h] = "commit"
        /\ ledger[request[h].id] = NoEntry
        /\ WriteSnapshot(e)
        /\ ledger' = [ledger EXCEPT ![request[h].id] = e]
        /\ Answer(h, "COMMITTED", e.rev, e.rev)
        /\ UNCHANGED <<request, attempt, seen, target>>

\* Nobody committed since the read.  The answer may be lost on its way.
CommitApplies(h) ==
    LET e == NewEntry(h)
    IN  /\ pc[h] = "commit"
        /\ ledger[request[h].id] = NoEntry
        /\ workspace.rev = seen[h].rev
        /\ WriteSnapshot(e)
        /\ ledger' = [ledger EXCEPT ![request[h].id] = e]
        /\ \/ Answer(h, "COMMITTED", e.rev, e.rev)
           \/ Answer(h, "UNAVAILABLE", 0, 0)
        /\ UNCHANGED <<request, attempt, seen, target>>

\* The same command got there first.  The metadata-only RPCs do not return
\* the snapshot, so the store reads the row again before it answers.
CommitFindsReceipt(h) ==
    LET e == ledger[request[h].id]
    IN  /\ pc[h] = "commit"
        /\ e # NoEntry
        /\ IF ~SameHash(e, request[h])
           THEN Answer(h, "COMMAND_ID_REUSED", workspace.rev, 0)
           ELSE IF request[h].kind = "kernel"
           THEN Answer(h, "ALREADY_APPLIED", workspace.rev, e.rev)
           ELSE Goto(h, "readBack") /\ UNCHANGED response
        /\ UNCHANGED <<workspace, ledger, request, attempt, seen, target>>

ReadBack(h) ==
    /\ pc[h] = "readBack"
    /\ Answer(h, "ALREADY_APPLIED", workspace.rev, ledger[request[h].id].rev)
    /\ UNCHANGED <<workspace, ledger, request, attempt, seen, target>>

\* Mutant: one attempt too many.
CommitConflictsOnceMore(h) ==
    /\ pc[h] = "commit"
    /\ ledger[request[h].id] = NoEntry
    /\ workspace.rev # seen[h].rev
    /\ attempt' = [attempt EXCEPT ![h] = @ + 1]
    /\ IF attempt[h] < MaxAttempts
       THEN Goto(h, "readWorkspace") /\ UNCHANGED response
       ELSE Answer(h, "WORKSPACE_CONFLICT", workspace.rev, 0)
    /\ UNCHANGED <<workspace, ledger, request, seen, target>>

\* Another command moved the revision: execute and undo start over on the
\* new snapshot, at most MaxAttempts times; the other writers give up.
CommitConflicts(h) ==
    /\ pc[h] = "commit"
    /\ ledger[request[h].id] = NoEntry
    /\ workspace.rev # seen[h].rev
    /\ IF request[h].kind \in {"kernel", "source"}
       THEN /\ Answer(h, "CONFLICT", workspace.rev, 0)
            /\ UNCHANGED attempt
       ELSE /\ attempt' = [attempt EXCEPT ![h] = @ + 1]
            /\ IF attempt[h] + 1 < MaxAttempts
               THEN Goto(h, "readWorkspace") /\ UNCHANGED response
               ELSE Answer(h, "WORKSPACE_CONFLICT", workspace.rev, 0)
    /\ UNCHANGED <<workspace, ledger, request, seen, target>>

\* A request to the database fails, the evaluator throws, or the invocation
\* is cut off.
Abandon(h) ==
    /\ pc[h] # "idle"
    /\ Answer(h, "UNAVAILABLE", 0, 0)
    /\ UNCHANGED <<workspace, ledger, request, attempt, seen, target>>

\* The maintenance drain writes the pending rows into the snapshot; its new
\* revision is a fence against the readers of the old one.
Drain ==
    LET fence == workspace.rev + 1
    IN  /\ workspace.materialized # workspace.rev
        /\ workspace' = [rev |-> fence, materialized |-> fence, data |-> workspace.data]
        /\ UNCHANGED <<ledger, pc, request, attempt, seen, target, response>>

-----------------------------------------------------------------------------
Init ==
    /\ \E d \in InitialData :
        /\ workspace = [rev |-> 0, materialized |-> 0, data |-> d]
        /\ seen = [h \in Handlers |-> workspace]
    /\ ledger = [c \in CommandIds |-> NoEntry]
    /\ pc = [h \in Handlers |-> "idle"]
    /\ request = [h \in Handlers |-> CHOOSE r \in Requests : TRUE]
    /\ attempt = [h \in Handlers |-> 0]
    /\ target = [h \in Handlers |-> NoEntry]
    /\ response = [h \in Handlers |-> NoResponse]

Progress(h) ==
    \/ ReadWorkspace(h)
    \/ ReadLedgerHit(h)
    \/ ReadLedgerMiss(h)
    \/ KernelConflict(h)
    \/ ReadIntervening(h)
    \/ ReadTarget(h)
    \/ ReadRaw(h)
    \/ UndoLedgerMiss(h)
    \/ ReadDependents(h)
    \/ CommitApplies(h)
    \/ CommitFindsReceipt(h)
    \/ ReadBack(h)
    \/ CommitConflicts(h)

Next ==
    \/ \E h \in Handlers :
        \/ \E r \in Requests : Receive(h, r)
        \/ Progress(h)
        \/ Abandon(h)
    \/ Drain

Spec == Init /\ [][Next]_vars

-----------------------------------------------------------------------------
(* Properties *)

TypeOK ==
    /\ workspace \in WorkspaceType
    /\ ledger \in [CommandIds -> EntryType \cup {NoEntry}]
    /\ pc \in [Handlers -> Labels]
    /\ request \in [Handlers -> Requests]
    /\ attempt \in [Handlers -> 0 .. MaxAttempts]
    /\ seen \in [Handlers -> WorkspaceType]
    /\ target \in [Handlers -> EntryType \cup {NoEntry}]
    /\ response \in [Handlers -> [outcome : Outcomes, rev : Nat, receipt : Nat]]

\* The ledger explains every revision.  No two rows claim one; every revision
\* the stored snapshot lacks has the row of the poll that made it, or the
\* overlay of a read is incomplete (the merge then raises 'Pending empty-poll
\* revision evidence is incomplete', and the workspace can neither be read
\* nor written); and a revision without a row is the fence of a drain, which
\* follows such a poll and never another fence.
RevisionsAreEvident ==
    /\ workspace.materialized <= workspace.rev
    /\ \A c \in Committed : ledger[c].rev \in 1 .. workspace.rev
    /\ \A c, d \in Committed : ledger[c].rev = ledger[d].rev => c = d
    /\ \A r \in workspace.materialized + 1 .. workspace.rev :
            \E c \in Committed : ledger[c].rev = r /\ IsEmptyPoll(ledger[c])
    /\ \A r \in 1 .. workspace.rev :
            \E c \in Committed :
                \/ ledger[c].rev = r
                \/ ledger[c].rev = r - 1 /\ IsEmptyPoll(ledger[c])

\* No lost update: each command was applied to exactly the snapshot the row
\* before it in the ledger left, and the last one left what is stored now,
\* although handlers read, evaluate and write whole snapshots concurrently
\* and drains move the revision under them.
NoLostUpdate ==
    /\ \A c \in Committed :
            (\A d \in Committed : ledger[d].rev <= ledger[c].rev)
            => ledger[c].after = workspace.data
    /\ \A c, d \in Committed :
            /\ ledger[c].rev < ledger[d].rev
            /\ \A x \in Committed :
                    ledger[x].rev <= ledger[c].rev \/ ledger[x].rev >= ledger[d].rev
            => ledger[d].before = ledger[c].after

\* A command prepared on an older revision is applied only if nothing it
\* means to change was changed since then by a command it had not seen, and
\* no row of the interval hides what it changed (conflictFromIntervening).
NoSilentOverwrite ==
    \A c, d \in Committed :
        LET mine == ledger[c]
            other == ledger[d]
        IN  /\ mine.kind = "execute"
            /\ mine.base < other.rev
            /\ other.rev < mine.rev
            => ~Opaque(other) /\ Changed(other) \cap Intent[mine.body] = {}

\* An undo runs only while its target still stands: the target is an earlier
\* command, and every field of every object the target affected holds what the
\* target left there, so nothing newer is lost on those objects ("refused
\* rather than erasing newer facts").  What a compensation writes elsewhere is
\* not checked, by the code or here.
UndoMeetsItsTarget ==
    \A u \in Committed : ledger[u].kind = "undo" =>
        LET undo == ledger[u]
            t == ledger[undo.body]
        IN  /\ t # NoEntry
            /\ t.rev < undo.rev
            /\ \A c \in Cells :
                    ObjectOf[c] \in AffectedObjects(t) => undo.before[c] = t.after[c]

\* Undo commands with different ids do not compensate one command twice: once
\* an undo has changed an object its target affected, no other one runs.
UndoneOnce ==
    \A u, v \in Committed :
        /\ ledger[u].kind = "undo" /\ ledger[v].kind = "undo"
        /\ ledger[u].body = ledger[v].body
        /\ ledger[u].rev < ledger[v].rev
        => AffectedObjects(ledger[u]) \cap AffectedObjects(ledger[ledger[u].body]) = {}

\* What a handler says was applied is in the ledger, for the payload asked
\* and at the revision of the receipt; a handler that answers COMMITTED is
\* never wrong about it, whatever happens afterwards.
AnswersAreBacked ==
    \A h \in Handlers :
        LET a == response[h]
            e == ledger[request[h].id]
        IN  a.receipt # 0 =>
                /\ e # NoEntry
                /\ SameHash(e, request[h])
                /\ a.receipt = e.rev
                /\ a.outcome = "COMMITTED" => a.rev = e.rev

\* The exact retry of a command that is already committed is never answered
\* with a conflict.
RetryNeverRefused ==
    [][\A h \in Handlers :
        /\ pc[h] # "idle" /\ response'[h].outcome \in Conflicts
        /\ ledger[request[h].id] # NoEntry
        => ~SameHash(ledger[request[h].id], request[h])]_vars
=============================================================================

------------------------ MODULE InstantInteractions ------------------------
(***************************************************************************)
(* Optimistic interactions of one browser tab.                             *)
(*                                                                         *)
(* A click is first mirrored in localStorage, then journaled in IndexedDB  *)
(* together with its effect on the cached rows, and only then sent.  Sends *)
(* are serial.  An answer confirms the interaction and corrects the rows   *)
(* under the later ones, or takes it back with everything that depends on  *)
(* it; what cannot be taken back at once is quarantined.  Recovery repairs *)
(* what a reload, a lost answer or a failed transaction left behind.       *)
(*                                                                         *)
(* Commands are numbered in the order of the clicks (createdAt).  Rows are *)
(* never created or deleted here, and fields of a row do not disappear.    *)
(***************************************************************************)
EXTENDS Integers, Sequences, FiniteSetsExt, Folds, TLC, WorkspaceDelta

CONSTANTS
    MaxCommands,  \* bound on the clicks
    Clicks,       \* what the user may ask for
    MaxForeign,   \* bound on the commits of others
    MaxFaults     \* bound on reloads, lost answers and failed transactions

Commands == 1 .. MaxCommands

ASSUME InteractionsAssumption ==
    /\ MaxCommands \in Nat /\ MaxForeign \in Nat /\ MaxFaults \in Nat
    /\ "updatedAt" \in Fields
    /\ Keys # {}
    /\ 0 .. 2 * MaxCommands + 1 + MaxForeign \subseteq Values
    /\ Clicks \subseteq [undoes : 0 .. MaxCommands, row : Keys,
                         field : Fields \ {"updatedAt"}, valid : BOOLEAN]

VARIABLES
    server,      \* [rev, rows]: the authoritative workspace
    receipts,    \* [Commands -> [rev, change]]: its ledger, rev 0 when absent
    foreign,     \* commits of others: [rev, row, field]
    late,        \* copies of a request that may still arrive: [cmd, base]
    cache,       \* [Keys -> row]: the data stores of IndexedDB
    canon,       \* [rev, rows]: meta.authoritativeProjection
    checkpoint,  \* lastSyncedVersion
    journal,     \* commandInteractions in IndexedDB
    mirror,      \* the interactions in the outbox of localStorage
    view,        \* the rows the page shows
    asked,       \* what each command asks for
    prep,        \* preparations under way: localPreparations, preparedDispatches
    queue,       \* flights and tails: who is sent or waits to be
    proc,        \* the send that runs, and the recovery that runs
    faults

stored == <<cache, canon, checkpoint, journal, mirror>>
backend == <<server, receipts, foreign, late>>
realm == <<view, asked, prep, queue, proc>>
vars == <<server, receipts, foreign, late, cache, canon, checkpoint, journal, mirror,
          view, asked, prep, queue, proc, faults>>

Open == {"active", "projection_pending", "rollback_pending"}
Terminal == {"confirmed", "rejected", "conflict"}
Closed == {"conflict", "rollback_pending"}

NoChange == [before |-> <<>>, after |-> <<>>]
NoJournal == [state |-> "none", change |-> NoChange, base |-> 0, preds |-> {}, rev |-> 0]
NoMirror == [status |-> "absent", change |-> NoChange, base |-> 0, preds |-> {}, root |-> 0]
NoReceipt == [rev |-> 0, change |-> NoChange]
NotAsked == [undoes |-> 0, row |-> CHOOSE k \in Keys : TRUE, field |-> "updatedAt", valid |-> FALSE]
Ready == [at |-> "none", seen |-> NoRow]
Idle == [at |-> "idle", cmd |-> 0, recovery |-> FALSE, was |-> "none", kind |-> "none",
         work |-> NoChange]

LocalStamp(c) == 2 * c
ServerStamp(c) == 2 * c + 1
ForeignStamp == 2 * MaxCommands + 2 + Cardinality(foreign)
ForeignValue == MaxCommands + 1

RowOf(c) == asked[c].row
IsUndo(c) == asked[c].undoes # 0
Mirrored == {c \in Commands : mirror[c].status # "absent"}
OpenJournals == {c \in Commands : journal[c].state \in Open}
Queued(c) == \E i \in DOMAIN queue : queue[i].cmd = c

\* A fault happens, within the bound.
Fault == faults < MaxFaults /\ faults' = faults + 1

-----------------------------------------------------------------------------
(* Deltas of one row *)

\* orderInteractions: the changes of several commands, by number.  op is
\* applied to each, the earliest click first.
Along(op(_, _), base, changes) ==
    MapThenFoldSet(op, base, LAMBDA c : changes[c], Max, DOMAIN changes)

\* patchDeltaRow; NoRow stands for a check that failed.
Patched(change, row) ==
    IF row # NoRow /\ Fits(row, change) THEN PatchRow(row, change) ELSE NoRow

PatchUp(row, changes) == Along(Patched, row, changes)

\* The latest click first.
PatchDown(row, changes) ==
    MapThenFoldSet(Patched, row, LAMBDA c : changes[c], Min, DOMAIN changes)

\* patchDeltaRow without the check.
Overlay(row, changes) == Along(LAMBDA x, r : PatchRow(r, x), row, changes)

\* The fields of top, and those of row that it does not have.
Over(top, row) ==
    [f \in DOMAIN row \cup DOMAIN top |-> IF f \in DOMAIN top THEN top[f] ELSE row[f]]

Layer(row, changes) == Along(LAMBDA x, r : Over(x.after, r), row, changes)

\* The fields of row, as the changes leave them.
Followed(x, row) == [f \in DOMAIN row |-> IF f \in DOMAIN x.after THEN x.after[f] ELSE row[f]]

Follow(row, changes) == Along(Followed, row, changes)

\* The preimage of x follows what was accepted below it.
RebaseOn(accepted, x) ==
    LET before == [f \in DOMAIN x.before |->
                      IF f \in DOMAIN accepted.after THEN accepted.after[f] ELSE x.before[f]]
    IN  [before |-> before,
         after |-> [f \in DOMAIN x.after |->
                      IF x.before[f] = x.after[f] THEN before[f] ELSE x.after[f]]]

\* rebaseDelta
Rebase(change, accepted) == Along(RebaseOn, change, accepted)

Accepted(S) == [c \in S |-> journal[c].change]

ConfirmedPreds(c) == {p \in journal[c].preds : journal[p].state = "confirmed"}

\* dependentInteractions: everything open that rests on it.
Dependents(root) ==
    LET closed(S) == root \in S /\ \A c \in OpenJournals : journal[c].preds \cap S # {} => c \in S
    IN  {c \in OpenJournals \ {root} : \A S \in SUBSET Commands : closed(S) => c \in S}

\* Mutant: the rollback goes to the optimistic predecessor.
RollbackOptimistic(c) == ReverseRow(journal[c].change)

\* The inverse of a step, down to the authoritative predecessor.
Rollback(c) ==
    [before |-> journal[c].change.after,
     after |-> Follow(journal[c].change.before, Accepted(ConfirmedPreds(c)))]

\* What the acknowledgement changes in the cache: from the row with this
\* interaction and the later ones to the row with the server's result and the
\* later ones.
Settlement(c) ==
    LET mine == journal[c].change
        theirs == receipts[c].change
        later == Accepted(Dependents(c))
        prior == Layer(mine.before, Accepted(ConfirmedPreds(c)))
        baseline == IF mine = NoChange THEN theirs.before ELSE Over(theirs.before, prior)
    IN  [before |-> Overlay(PatchRow(baseline, mine), later),
         after |-> Overlay(PatchRow(baseline, theirs), later)]

-----------------------------------------------------------------------------
(* A click *)

SetPrep(c, at) == prep' = [prep EXCEPT ![c].at = at]

\* beginInstantCommand up to its first await: the intent is mirrored.
BeginCommand(c, k) ==
    LET row == view[k.row]
        next == [row EXCEPT ![k.field] = c, !["updatedAt"] = LocalStamp(c)]
        preds == {d \in Mirrored :
                    /\ mirror[d].status # "conflict" /\ mirror[d].change # NoChange
                    /\ RowOf(d) = k.row}
    IN  /\ k.undoes = 0
        /\ mirror' = [mirror EXCEPT ![c] =
                [status |-> "pending", change |-> Compact(row, next), base |-> checkpoint,
                 preds |-> preds, root |-> 0]]
        /\ prep' = [prep EXCEPT ![c] = [at |-> "reading", seen |-> row]]

\* beginInstantUndo up to its first await.
BeginUndo(c, k) ==
    /\ k.undoes \in 1 .. c - 1
    /\ asked[k.undoes] # NotAsked /\ ~IsUndo(k.undoes)
    /\ mirror' = [mirror EXCEPT ![c] =
            [status |-> "pending", change |-> NoChange, base |-> checkpoint,
             preds |-> {k.undoes}, root |-> 0]]
    /\ prep' = [prep EXCEPT ![c] = [at |-> "target", seen |-> view[RowOf(k.undoes)]]]

Begin(c) ==
    /\ asked[c] = NotAsked
    /\ \A d \in 1 .. c - 1 : asked[d] # NotAsked
    /\ \E k \in Clicks :
        /\ BeginCommand(c, k) \/ BeginUndo(c, k)
        /\ asked' = [asked EXCEPT ![c] =
                IF k.undoes = 0 THEN k ELSE [k EXCEPT !.row = RowOf(k.undoes)]]
    /\ UNCHANGED <<backend, cache, canon, checkpoint, journal, view, queue, proc, faults>>

\* IndexedDB runs transactions that overlap in the order they were asked for:
\* neither a read nor a write of a later click comes before an earlier one's.
InTurn(c, stages) == \A d \in 1 .. c - 1 : prep[d].at \notin stages

Reads == {"reading", "target"}
Writes == {"persisting", "archiving"}

\* readPendingCommandInteractions: what is already journaled comes first.
ReadPending(c) ==
    /\ prep[c].at = "reading" /\ InTurn(c, Reads)
    /\ mirror' = [mirror EXCEPT ![c].preds =
            @ \cup {d \in OpenJournals : journal[d].change # NoChange /\ RowOf(d) = RowOf(c)}]
    /\ SetPrep(c, "persisting")
    /\ UNCHANGED <<backend, cache, canon, checkpoint, journal, view, asked, queue, proc, faults>>

\* undoInteractionProjection: possible while the row is as the target left it.
Undoable(target, row) ==
    /\ journal[target].state \in {"active", "confirmed"}
    /\ \A f \in Named(journal[target].change) : At(row, f) = At(journal[target].change.after, f)

Compensation(c, row) ==
    LET t == asked[c].undoes
        back == [row EXCEPT ![asked[t].field] = journal[t].change.before[asked[t].field],
                            !["updatedAt"] = LocalStamp(c)]
    IN  Compact(row, back)

ReadTarget(c) ==
    /\ prep[c].at = "target" /\ InTurn(c, Reads)
    /\ IF Undoable(asked[c].undoes, prep[c].seen)
       THEN /\ mirror' = [mirror EXCEPT ![c].change = Compensation(c, prep[c].seen)]
            /\ SetPrep(c, "persisting")
       ELSE SetPrep(c, "archiving") /\ UNCHANGED mirror
    /\ UNCHANGED <<backend, cache, canon, checkpoint, journal, view, asked, queue, proc, faults>>

JournalOf(c, change) ==
    [state |-> "active", change |-> change, base |-> mirror[c].base,
     preds |-> mirror[c].preds, rev |-> 0]

\* persistInteractionProjection: row and journal in one transaction.
Persist(c) ==
    LET row == cache[RowOf(c)]
        change == mirror[c].change
    IN  /\ prep[c].at = "persisting" /\ InTurn(c, Reads \cup Writes)
        /\ \/ /\ Fits(row, change)
              /\ cache' = [cache EXCEPT ![RowOf(c)] = PatchRow(row, change)]
              /\ view' = cache'
              /\ journal' = [journal EXCEPT ![c] = JournalOf(c, change)]
              /\ SetPrep(c, "prepared")
              /\ UNCHANGED faults
           \/ /\ IF Fits(row, change) THEN Fault ELSE UNCHANGED faults
              /\ SetPrep(c, "archiving")
              /\ UNCHANGED <<cache, view, journal>>
        /\ UNCHANGED <<backend, canon, checkpoint, mirror, asked, queue, proc>>

\* Mutant: the mirror is retired although the archive could not be written.
ArchiveOrDrop(c) ==
    /\ prep[c].at = "archiving"
    /\ SetPrep(c, "none")
    /\ mirror' = [mirror EXCEPT ![c] = NoMirror]
    /\ \/ /\ journal' = [journal EXCEPT ![c] = [JournalOf(c, mirror[c].change) EXCEPT !.state = "rejected"]]
          /\ UNCHANGED faults
       \/ Fault /\ UNCHANGED journal
    /\ UNCHANGED <<backend, cache, canon, checkpoint, view, asked, queue, proc>>

\* archiveFailedPreparation: the refused intent is kept, or its mirror is.
Archive(c) ==
    /\ prep[c].at = "archiving"
    /\ \/ /\ journal' = [journal EXCEPT ![c] = [JournalOf(c, mirror[c].change) EXCEPT !.state = "rejected"]]
          /\ SetPrep(c, "archived")
          /\ UNCHANGED <<mirror, faults>>
       \/ /\ Fault
          /\ mirror' = [mirror EXCEPT ![c].status = "conflict", ![c].root = 0]
          /\ SetPrep(c, "none")
          /\ UNCHANGED journal
    /\ UNCHANGED <<backend, cache, canon, checkpoint, view, asked, queue, proc>>

Archived(c) ==
    /\ prep[c].at = "archived"
    /\ mirror' = [mirror EXCEPT ![c] = NoMirror]
    /\ SetPrep(c, "none")
    /\ UNCHANGED <<backend, cache, canon, checkpoint, journal, view, asked, queue, proc, faults>>

Enqueue(c, recovery) == queue' = Append(queue, [cmd |-> c, recovery |-> recovery])

\* The timer of schedulePreparedDispatch, or a recovery that comes before it.
Dispatch(c) ==
    /\ prep[c].at = "prepared"
    /\ SetPrep(c, "none")
    /\ Enqueue(c, FALSE)
    /\ UNCHANGED <<backend, stored, view, asked, proc, faults>>

-----------------------------------------------------------------------------
(* The server *)

\* What it answers to a command prepared on revision base.
Verdict(c, base) ==
    LET later(rev) == {x \in foreign : x.rev > rev /\ x.row = RowOf(c)}
        others(rev) == {d \in Commands \ {c} : receipts[d].rev > rev /\ RowOf(d) = RowOf(c)}
        t == asked[c].undoes
    IN  CASE receipts[c].rev # 0 -> "known"
          [] receipts[c].rev = 0 /\ IsUndo(c) ->
                IF receipts[t].rev = 0 THEN "refused"
                ELSE IF later(receipts[t].rev) # {} \/ others(receipts[t].rev) # {}
                THEN "conflict" ELSE "applied"
          [] receipts[c].rev = 0 /\ ~IsUndo(c) ->
                IF \/ \E x \in later(base) : x.field = asked[c].field
                   \/ \E d \in others(base) : asked[d].field = asked[c].field
                THEN "conflict"
                ELSE IF asked[c].valid THEN "applied" ELSE "refused"

Execute(c) ==
    LET row == server.rows[RowOf(c)]
        t == asked[c].undoes
        next == IF IsUndo(c)
                THEN [row EXCEPT ![asked[t].field] = receipts[t].change.before[asked[t].field],
                                 !["updatedAt"] = ServerStamp(c)]
                ELSE [row EXCEPT ![asked[c].field] = c, !["updatedAt"] = ServerStamp(c)]
    IN  /\ server' = [rev |-> server.rev + 1, rows |-> [server.rows EXCEPT ![RowOf(c)] = next]]
        /\ receipts' = [receipts EXCEPT ![c] =
                [rev |-> server.rev + 1, change |-> Compact(row, next)]]

LateCopy(x) ==
    /\ x \in late
    /\ late' = late \ {x}
    /\ IF Verdict(x.cmd, x.base) = "applied" THEN Execute(x.cmd) ELSE UNCHANGED <<server, receipts>>
    /\ UNCHANGED <<foreign, stored, realm, faults>>

\* Another client changes a field of a row.
OtherCommit(k, f) ==
    /\ Cardinality(foreign) < MaxForeign
    /\ server' = [rev |-> server.rev + 1,
                  rows |-> [server.rows EXCEPT ![k] =
                      [@ EXCEPT ![f] = ForeignValue, !["updatedAt"] = ForeignStamp]]]
    /\ foreign' = foreign \cup {[rev |-> server.rev + 1, row |-> k, field |-> f]}
    /\ UNCHANGED <<receipts, late, stored, realm, faults>>

-----------------------------------------------------------------------------
(* Sending: proc["flight"] serves the head of the queue *)

SetProc(p, at) == proc' = [proc EXCEPT ![p].at = at] /\ UNCHANGED queue

Finish(p) ==
    /\ proc' = [proc EXCEPT ![p] = Idle]
    /\ queue' = IF p = "flight" THEN Tail(queue) ELSE queue

Current(p) == proc[p].cmd

\* The head of send: what is closed or over is not sent, and what may have
\* been sent is looked up before it is sent again.
SendStarts ==
    /\ queue # <<>> /\ proc["flight"].at = "idle"
    /\ LET c == Head(queue).cmd
           known == Head(queue).recovery \/ mirror[c].status = "unknown"
       IN  IF mirror[c].status \in Closed \/ journal[c].state \in Terminal \cup {"rollback_pending"}
           THEN Finish("flight")
           ELSE /\ proc' = [proc EXCEPT !["flight"] =
                        [Idle EXCEPT !.at = IF known THEN "lookup" ELSE "predecessors",
                                     !.cmd = c, !.recovery = known, !.was = journal[c].state]]
                /\ UNCHANGED queue
    /\ UNCHANGED <<backend, stored, view, asked, prep, faults>>

Lookup ==
    /\ proc["flight"].at = "lookup"
    /\ SetProc("flight", IF receipts[Current("flight")].rev # 0 THEN "answered" ELSE "predecessors")
    /\ UNCHANGED <<backend, stored, view, asked, prep, faults>>

\* Mutant: it is sent although a predecessor has no answer yet.
CheckPredecessorsEarly ==
    LET p == "flight"
        preds == {d \in journal[Current(p)].preds : journal[d].state # "none"}
    IN  /\ proc[p].at = "predecessors"
        /\ IF \E d \in preds : mirror[d].status \in Closed \/ journal[d].state \in {"rejected", "conflict"}
           THEN proc' = [proc EXCEPT ![p].at = "reject", ![p].kind = "rejected"] /\ UNCHANGED queue
           ELSE SetProc(p, "request")
        /\ UNCHANGED <<backend, stored, view, asked, prep, faults>>

\* What it rests on is settled first: refused with a refused predecessor, put
\* off behind an open one.
CheckPredecessors ==
    LET p == "flight"
        preds == {d \in journal[Current(p)].preds : journal[d].state # "none"}
        refused == {d \in preds : mirror[d].status \in Closed \/ journal[d].state \in {"rejected", "conflict"}}
        waiting == {d \in preds : journal[d].state \in {"active", "projection_pending"}}
    IN  /\ proc[p].at = "predecessors"
        /\ IF refused # {} THEN proc' = [proc EXCEPT ![p].at = "reject", ![p].kind = "rejected"] /\ UNCHANGED queue
           ELSE IF waiting # {} THEN Finish(p)
           ELSE SetProc(p, "request")
        /\ UNCHANGED <<backend, stored, view, asked, prep, faults>>

\* The revision a request is bound to.
RequestBase(c) ==
    LET revs == {journal[c].base} \cup {journal[d].rev : d \in journal[c].preds}
    IN  CHOOSE r \in revs : \A q \in revs : q <= r

\* A command or an undo, and its answer.
Request ==
    LET c == Current("flight")
        verdict == Verdict(c, RequestBase(c))
    IN  /\ proc["flight"].at = "request"
        /\ \/ /\ verdict = "applied"
              /\ Execute(c)
              /\ SetProc("flight", "answered")
           \/ /\ verdict = "known"
              /\ SetProc("flight", "answered")
              /\ UNCHANGED <<server, receipts>>
           \/ /\ verdict \in {"refused", "conflict"}
              /\ proc' = [proc EXCEPT !["flight"].at = "reject",
                    !["flight"].kind = IF verdict = "conflict" THEN "conflict" ELSE "rejected"]
              /\ UNCHANGED <<server, receipts, queue>>
        /\ UNCHANGED <<foreign, late, stored, view, asked, prep, faults>>

\* The answer is lost; the request may have been executed, or be on its way.
\* A lookup follows at once, never a blind copy.
SendFails ==
    LET f == proc["flight"]
        status == IF f.was = "projection_pending" THEN "projection_pending" ELSE "unknown"
    IN  /\ f.at \in {"lookup", "request", "again"}
        /\ Fault
        /\ IF f.at = "request"
           THEN \/ late' = late \cup {[cmd |-> f.cmd, base |-> RequestBase(f.cmd)]}
                \/ UNCHANGED late
           ELSE UNCHANGED late
        /\ mirror' = [mirror EXCEPT ![f.cmd] =
                IF @ = NoMirror THEN @ ELSE [@ EXCEPT !.status = status, !.root = 0]]
        /\ proc' = [proc EXCEPT !["flight"] = Idle]
        /\ queue' = IF f.recovery THEN Tail(queue)
                    ELSE Append(Tail(queue), [cmd |-> f.cmd, recovery |-> TRUE])
        /\ UNCHANGED <<server, receipts, foreign, cache, canon, checkpoint, journal, view, asked, prep>>

\* 401 or 403: the intent waits.
Denied ==
    /\ proc["flight"].at = "request"
    /\ Fault
    /\ mirror' = [mirror EXCEPT ![Current("flight")] =
            IF @ = NoMirror THEN @ ELSE [@ EXCEPT !.status = "pending", !.root = 0]]
    /\ Finish("flight")
    /\ UNCHANGED <<backend, cache, canon, checkpoint, journal, view, asked, prep>>

-----------------------------------------------------------------------------
(* reconcile: the answer holds the receipt and its delta *)

\* The pending journals are read, and the settlement computed from them.
ReadLater ==
    LET c == Current("flight")
    IN  /\ proc["flight"].at = "answered"
        /\ proc' = [proc EXCEPT !["flight"].at = "settle", !["flight"].work = Settlement(c)]
        /\ UNCHANGED <<backend, stored, view, asked, prep, queue, faults>>

\* The row is corrected and the journal confirmed, in one transaction.
Settle ==
    LET c == Current("flight")
        work == proc["flight"].work
        row == cache[RowOf(c)]
    IN  /\ proc["flight"].at = "settle"
        /\ \/ /\ Fits(row, work)
              /\ cache' = [cache EXCEPT ![RowOf(c)] = PatchRow(row, work)]
              /\ journal' = [journal EXCEPT ![c].state = "confirmed",
                    ![c].change = receipts[c].change, ![c].base = receipts[c].rev - 1,
                    ![c].rev = receipts[c].rev]
              /\ SetProc("flight", "settled")
              /\ UNCHANGED faults
           \/ /\ IF Fits(row, work) THEN Fault ELSE UNCHANGED faults
              /\ SetProc("flight", "keep")
              /\ UNCHANGED <<cache, journal>>
        /\ UNCHANGED <<backend, canon, checkpoint, mirror, view, asked, prep>>

\* Mutant: any confirmed revision becomes the checkpoint.
AdvancedToReceipt(c) == IF journal[c].rev > checkpoint THEN journal[c].rev ELSE checkpoint

\* advanceConfirmedCheckpoint: only to the revision next to it.
Advanced(c) ==
    IF journal[c].state = "confirmed" /\ journal[c].base = checkpoint
       /\ journal[c].rev = journal[c].base + 1
    THEN journal[c].rev ELSE checkpoint

\* Mutant: a failure after the transaction keeps it as unprojected all the same.
SettledOrKept ==
    LET c == Current("flight")
    IN  /\ proc["flight"].at = "settled"
        /\ \/ /\ view' = cache
              /\ checkpoint' = Advanced(c)
              /\ mirror' = [mirror EXCEPT ![c] = NoMirror]
              /\ Finish("flight")
              /\ UNCHANGED faults
           \/ /\ Fault
              /\ SetProc("flight", "keep")
              /\ UNCHANGED <<view, checkpoint, mirror>>
        /\ UNCHANGED <<backend, cache, canon, journal, asked, prep>>

Settled ==
    LET c == Current("flight")
    IN  /\ proc["flight"].at = "settled"
        /\ view' = cache
        /\ checkpoint' = Advanced(c)
        /\ mirror' = [mirror EXCEPT ![c] = NoMirror]
        /\ Finish("flight")
        /\ UNCHANGED <<backend, cache, canon, journal, asked, prep, faults>>

\* The server confirmed, the cache could not follow: the journal says so.
KeepConfirmed ==
    LET c == Current("flight")
    IN  /\ proc["flight"].at = "keep"
        /\ journal' = [journal EXCEPT ![c].state = "projection_pending"]
        /\ SetProc("flight", "kept")
        /\ UNCHANGED <<backend, cache, canon, checkpoint, mirror, view, asked, prep, faults>>

\* After a lookup the whole snapshot is asked for; otherwise a later recovery will.
Kept ==
    LET c == Current("flight")
    IN  /\ proc["flight"].at = "kept"
        /\ mirror' = [mirror EXCEPT ![c] =
                IF @ = NoMirror THEN @ ELSE [@ EXCEPT !.status = "projection_pending", !.root = 0]]
        /\ IF proc["flight"].recovery /\ proc["flight"].kind = "none"
           THEN proc' = [proc EXCEPT !["flight"].at = "again", !["flight"].kind = "snapshot"]
                /\ UNCHANGED queue
           ELSE Finish("flight")
        /\ UNCHANGED <<backend, cache, canon, checkpoint, journal, view, asked, prep, faults>>

-----------------------------------------------------------------------------
(* recoverAuthoritativeProjection: a whole snapshot, then what is open over it *)

\* The cache, the reservations and the open journals are read.
Sample ==
    /\ proc["flight"].at = "again"
    /\ proc' = [proc EXCEPT !["flight"].at = "receipts", !["flight"].work =
            [local |-> cache, reserved |-> Mirrored,
             records |-> OpenJournals \cup {Current("flight")}]]
    /\ UNCHANGED <<backend, stored, view, asked, prep, queue, faults>>

ReadReceipts ==
    LET work == proc["flight"].work
    IN  /\ proc["flight"].at = "receipts"
        /\ proc' = [proc EXCEPT !["flight"].at = "remote", !["flight"].work =
                [local |-> work.local, reserved |-> work.reserved, records |-> work.records,
                 found |-> {c \in work.records : receipts[c].rev # 0}]]
        /\ UNCHANGED <<backend, stored, view, asked, prep, queue, faults>>

ReadRemote ==
    LET work == proc["flight"].work
    IN  /\ proc["flight"].at = "remote"
        /\ proc' = [proc EXCEPT !["flight"].at = "install", !["flight"].work =
                [local |-> work.local, reserved |-> work.reserved, records |-> work.records,
                 found |-> work.found, remote |-> server]]
        /\ UNCHANGED <<backend, stored, view, asked, prep, queue, faults>>

\* Quarantined without a receipt, or resting on such a command.
Unwound(work) ==
    LET open == work.records \ work.found
        closed(S) == \A c \in open :
            journal[c].state = "rollback_pending" \/ journal[c].preds \cap S # {} => c \in S
    IN  {c \in open : \A S \in SUBSET Commands : closed(S) => c \in S}

\* What it rests on, and what that rests on, as far as it was read.
Ancestors(work, c) ==
    LET closed(S) == /\ journal[c].preds \subseteq S
                     /\ \A m \in S \cap work.records : journal[m].preds \subseteq S
    IN  {m \in Commands : \A S \in SUBSET Commands : closed(S) => m \in S}

\* The deltas of the commands that stay open, over what the snapshot holds.
Rebased(work) ==
    LET kept == (work.records \ work.found) \ Unwound(work)
        under(n) == {m \in Ancestors(work, n) :
                        m \in work.found \cup kept \/ journal[m].state = "confirmed"}
        change[n \in Commands] ==
            IF n \in work.found THEN receipts[n].change
            ELSE IF n \in kept
            THEN Rebase(journal[n].change, [m \in under(n) |-> change[m]])
            ELSE journal[n].change
    IN  [n \in kept |-> change[n]]

Overlaid(rows, changes) ==
    [k \in Keys |-> PatchUp(rows[k], [c \in {d \in DOMAIN changes : RowOf(d) = k} |-> changes[c]])]

AssertCurrent(work) == checkpoint <= work.remote.rev /\ work.reserved = Mirrored

\* replaceLocalSnapshotFromCloud with interactionSteps: one transaction.
Install ==
    LET work == proc["flight"].work
        kept == Rebased(work)
        rows == Overlaid(work.remote.rows, kept)
        fits == /\ AssertCurrent(work)
                /\ work.local = cache
                /\ canon.rev <= work.remote.rev
                /\ \A c \in work.found : receipts[c].rev <= work.remote.rev
                /\ \A k \in Keys : rows[k] # NoRow
    IN  /\ proc["flight"].at = "install"
        /\ \/ /\ fits
              /\ cache' = rows
              /\ canon' = work.remote
              /\ journal' = [c \in Commands |->
                    IF c \in work.found
                    THEN [journal[c] EXCEPT !.state = "confirmed", !.change = receipts[c].change,
                                            !.base = receipts[c].rev - 1, !.rev = receipts[c].rev]
                    ELSE IF c \in Unwound(work) THEN [journal[c] EXCEPT !.state = "rejected"]
                    ELSE IF c \in DOMAIN kept THEN [journal[c] EXCEPT !.change = kept[c]]
                    ELSE journal[c]]
              /\ SetProc("flight", "installed")
              /\ UNCHANGED faults
           \/ /\ IF fits THEN Fault ELSE UNCHANGED faults
              /\ SetProc("flight", "keep")
              /\ UNCHANGED <<cache, canon, journal>>
        /\ UNCHANGED <<backend, checkpoint, mirror, view, asked, prep>>

\* releaseIndependentQuarantine
Released(m, roots, retired) ==
    [c \in Commands |->
        IF m[c].status # "absent" /\ m[c].root \in roots /\ c \notin retired
        THEN [m[c] EXCEPT !.status = "unknown", !.root = 0] ELSE m[c]]

\* The metadata follows, unless the mirrors or the checkpoint moved meanwhile.
Installed ==
    LET work == proc["flight"].work
        over == {c \in work.records : journal[c].state \in Terminal}
        retired == [c \in Commands |-> IF c \in over THEN NoMirror ELSE mirror[c]]
    IN  /\ proc["flight"].at = "installed"
        /\ IF AssertCurrent(work)
           THEN /\ checkpoint' = work.remote.rev
                /\ mirror' = Released(retired, {c \in over : journal[c].state = "rejected"}, over)
           ELSE UNCHANGED <<checkpoint, mirror>>
        /\ view' = cache
        /\ Finish("flight")
        /\ UNCHANGED <<backend, cache, canon, journal, asked, prep, faults>>
-----------------------------------------------------------------------------
(* reject: by a send, or by the recovery of a quarantine *)

\* Mutant: the chain is followed both ways, whatever its journals came to.
RejectReadsBelow(p) ==
    LET c == Current(p)
    IN  /\ proc[p].at = "reject"
        /\ proc' = [proc EXCEPT ![p].at = "rollback",
                                ![p].work = [d \in Dependents(c) \cup ConfirmedPreds(c) \cup {c} |->
                                    [record |-> journal[d], inverse |-> Rollback(d)]]]
        /\ UNCHANGED <<backend, stored, view, asked, prep, queue, faults>>

\* The open journals are read and the inverse of each step computed.  Nothing
\* keeps a send from confirming one of them before they are written back.
RejectReads(p) ==
    LET c == Current(p)
    IN  /\ proc[p].at = "reject"
        /\ proc' = [proc EXCEPT ![p].at = "rollback",
                                ![p].work = [d \in Dependents(c) \cup {c} |->
                                    [record |-> journal[d], inverse |-> Rollback(d)]]]
        /\ UNCHANGED <<backend, stored, view, asked, prep, queue, faults>>

\* Each inverse is checked against what the one before it left.
UnwoundRow(p) ==
    PatchDown(cache[RowOf(Current(p))], [d \in DOMAIN proc[p].work |-> proc[p].work[d].inverse])

Closes(p) == DOMAIN proc[p].work

\* All the inverses and all the terminal journals, in one transaction.
RollsBack(p) ==
    LET c == Current(p)
        row == UnwoundRow(p)
    IN  /\ proc[p].at = "rollback"
        /\ row # NoRow
        /\ cache' = [cache EXCEPT ![RowOf(c)] = row]
        /\ journal' = [d \in Commands |->
                IF d \in Closes(p)
                THEN [proc[p].work[d].record EXCEPT !.state = IF d = c THEN proc[p].kind ELSE "rejected"]
                ELSE journal[d]]
        /\ SetProc(p, "retire")
        /\ UNCHANGED <<backend, canon, checkpoint, mirror, view, asked, prep, faults>>

\* The mirrors are retired, and what was closed only because of this one is
\* released.
Retire(p) ==
    LET c == Current(p)
        over == DOMAIN proc[p].work
        retired == [d \in Commands |->
            IF d \notin over \/ mirror[d] = NoMirror THEN mirror[d]
            ELSE IF journal[d].state = "conflict"
            THEN [mirror[d] EXCEPT !.status = "conflict", !.root = 0] ELSE NoMirror]
    IN  /\ proc[p].at = "retire"
        /\ view' = cache
        /\ mirror' = Released(retired, {c}, over)
        /\ Finish(p)
        /\ UNCHANGED <<backend, cache, canon, checkpoint, journal, asked, prep, faults>>

\* The rollback did not fit or its transaction failed: the mirrors are closed
\* first, then the journals.
Quarantines(p) ==
    /\ proc[p].at = "rollback"
    /\ IF UnwoundRow(p) # NoRow THEN Fault ELSE UNCHANGED faults
    /\ mirror' = [d \in Commands |->
            IF d \in Closes(p) /\ mirror[d] # NoMirror
            THEN [mirror[d] EXCEPT !.status = "rollback_pending", !.root = Current(p)]
            ELSE mirror[d]]
    /\ SetProc(p, "quarantine")
    /\ UNCHANGED <<backend, cache, canon, checkpoint, journal, view, asked, prep>>

\* The open journals could not be read: everything mirrored is closed.
QuarantinesBlindly(p) ==
    LET c == Current(p)
    IN  /\ proc[p].at = "reject"
        /\ Fault
        /\ mirror' = [d \in Commands |->
                IF mirror[d] # NoMirror
                THEN [mirror[d] EXCEPT !.status = "rollback_pending", !.root = c] ELSE mirror[d]]
        /\ proc' = [proc EXCEPT ![p].at = "quarantine", ![p].work = [d \in {c} |-> [record |-> journal[c], inverse |-> NoChange]]]
        /\ UNCHANGED <<backend, cache, canon, checkpoint, journal, view, asked, prep, queue>>

QuarantinesJournals(p) ==
    /\ proc[p].at = "quarantine"
    /\ journal' = [d \in Commands |->
            IF d \in Closes(p) THEN [proc[p].work[d].record EXCEPT !.state = "rollback_pending"]
            ELSE journal[d]]
    /\ Finish(p)
    /\ UNCHANGED <<backend, cache, canon, checkpoint, mirror, view, asked, prep, faults>>

-----------------------------------------------------------------------------
(* recoverInstantInteraction, started by the replay loop *)

\* A predecessor of a mirrored interaction was refused.
RestsOnRefused(c) ==
    \E d \in mirror[c].preds : \/ journal[d].state \in {"rejected", "conflict", "rollback_pending"}
                               \/ mirror[d].status \in Closed

\* The change of a mirrored interaction, over what was confirmed below it.
Restored(c) ==
    Rebase(IF mirror[c].change # NoChange THEN mirror[c].change ELSE Compensation(c, cache[RowOf(c)]),
           Accepted({d \in mirror[c].preds : journal[d].state = "confirmed"}))

Restorable(c) ==
    IF RestsOnRefused(c) THEN TRUE
    ELSE IF mirror[c].change = NoChange /\ ~Undoable(asked[c].undoes, cache[RowOf(c)]) THEN FALSE
    ELSE Fits(cache[RowOf(c)], Restored(c))

\* A mirrored interaction without a journal whose rows have moved on: its
\* recovery throws, and the replay loop gets no further.
Stranded(c) ==
    /\ mirror[c].status \notin {"absent", "conflict"}
    /\ journal[c] = NoJournal /\ receipts[c].rev = 0
    /\ prep[c].at = "none" /\ ~Restorable(c)

\* What no preparation and no flight of this tab takes care of.
Recoverable(c) ==
    /\ proc["replay"].at = "idle"
    /\ \A d \in 1 .. c - 1 : ~Stranded(d)
    /\ mirror[c].status \notin {"absent", "conflict"}
    /\ prep[c].at = "none" /\ ~Queued(c)

\* reconcileTerminalJournal for root, seen from the journals of its quarantine.
Reconciled(root) ==
    LET related == {d \in Commands : mirror[d] # NoMirror /\ mirror[d].root = root}
        over == {d \in {root} \cup (IF journal[root].state = "confirmed" THEN {} ELSE related) :
                    journal[d].state \in Terminal}
        retired == [d \in Commands |->
            IF d \notin over \/ mirror[d] = NoMirror THEN mirror[d]
            ELSE IF journal[d].state = "conflict"
            THEN [mirror[d] EXCEPT !.status = "conflict", !.root = 0] ELSE NoMirror]
    IN  IF journal[root].state = "confirmed" THEN retired ELSE Released(retired, {root}, over)

RecoverTerminal(c) ==
    /\ Recoverable(c)
    /\ journal[c].state \in Terminal
    /\ checkpoint' = Advanced(c)
    /\ mirror' = Reconciled(c)
    /\ UNCHANGED <<backend, cache, canon, journal, realm, faults>>

RecoverQuarantined(c) ==
    LET root == IF mirror[c].root = 0 THEN c ELSE mirror[c].root
    IN  /\ Recoverable(c)
        /\ journal[c].state \notin Terminal
        /\ mirror[c].status = "rollback_pending"
        /\ IF journal[root].state \in Open
           THEN /\ proc' = [proc EXCEPT !["replay"] =
                        [Idle EXCEPT !.at = "reject", !.cmd = root, !.kind = "rejected"]]
                /\ UNCHANGED mirror
           ELSE /\ mirror' = IF journal[root].state = "confirmed"
                             THEN [mirror EXCEPT ![c].status = "conflict", ![c].root = 0]
                             ELSE Reconciled(root)
                /\ UNCHANGED proc
        /\ UNCHANGED <<backend, cache, canon, checkpoint, journal, view, asked, prep, queue, faults>>

\* Mutant: what was confirmed without a projection is not taken up again.
RedispatchActive(c) ==
    /\ Recoverable(c)
    /\ mirror[c].status # "rollback_pending"
    /\ journal[c].state = "active"
    /\ Enqueue(c, TRUE)
    /\ UNCHANGED <<backend, stored, view, asked, prep, proc, faults>>

\* Journaled and open: a send that looks up the receipt first.
Redispatch(c) ==
    /\ Recoverable(c)
    /\ mirror[c].status # "rollback_pending"
    /\ journal[c].state \in {"active", "projection_pending"}
    /\ Enqueue(c, TRUE)
    /\ UNCHANGED <<backend, stored, view, asked, prep, proc, faults>>

\* Mirrored, never journaled.  The receipt is looked up first; here there is
\* none, for only what is journaled is sent and no journal is lost.
LookUpOrphan(c) ==
    /\ Recoverable(c)
    /\ mirror[c].status # "rollback_pending"
    /\ journal[c] = NoJournal
    /\ proc' = [proc EXCEPT !["replay"] = [Idle EXCEPT !.at = "restore", !.cmd = c]]
    /\ UNCHANGED <<backend, stored, view, asked, prep, queue, faults>>

\* What rests on a refused command is archived, the rest is laid over
\* the cache as the click would have done.
Restore ==
    LET c == Current("replay")
        row == cache[RowOf(c)]
        change == Restored(c)
    IN  /\ proc["replay"].at = "restore"
        /\ \/ /\ RestsOnRefused(c)
              /\ SetPrep(c, "archiving")
              /\ UNCHANGED <<cache, view, journal, queue>>
           \/ /\ ~RestsOnRefused(c) /\ Restorable(c)
              /\ cache' = [cache EXCEPT ![RowOf(c)] = PatchRow(row, change)]
              /\ view' = cache'
              /\ journal' = [journal EXCEPT ![c] = JournalOf(c, change)]
              /\ Enqueue(c, TRUE)
              /\ UNCHANGED prep
           \/ /\ ~Restorable(c)
              /\ UNCHANGED <<cache, view, journal, prep, queue>>
        /\ proc' = [proc EXCEPT !["replay"] = Idle]
        /\ UNCHANGED <<backend, canon, checkpoint, mirror, asked, faults>>

-----------------------------------------------------------------------------
(* The rest of the browser *)

\* refreshConnectedAuthoritativeCache: only while nothing unresolved is
\* mirrored.  Its own races are ClientOutbox's.
Refresh ==
    /\ \A c \in Mirrored : mirror[c].status = "conflict"
    /\ checkpoint < server.rev \/ canon.rev < server.rev
    /\ cache' = server.rows
    /\ canon' = server
    /\ checkpoint' = server.rev
    /\ view' = cache'
    /\ UNCHANGED <<backend, journal, mirror, asked, prep, queue, proc, faults>>

\* A reload or a crash, at any await.
Reload ==
    /\ Fault
    /\ prep' = [c \in Commands |-> Ready]
    /\ queue' = <<>>
    /\ proc' = [p \in {"flight", "replay"} |-> Idle]
    /\ view' = cache
    /\ UNCHANGED <<backend, stored, asked>>

Init ==
    /\ server = [rev |-> 0, rows |-> [k \in Keys |-> [f \in Fields |-> 0]]]
    /\ receipts = [c \in Commands |-> NoReceipt]
    /\ foreign = {} /\ late = {}
    /\ cache = server.rows /\ view = cache /\ canon = server /\ checkpoint = 0
    /\ journal = [c \in Commands |-> NoJournal]
    /\ mirror = [c \in Commands |-> NoMirror]
    /\ asked = [c \in Commands |-> NotAsked]
    /\ prep = [c \in Commands |-> Ready]
    /\ queue = <<>>
    /\ proc = [p \in {"flight", "replay"} |-> Idle]
    /\ faults = 0

Prepare(c) ==
    \/ ReadPending(c) \/ ReadTarget(c) \/ Persist(c) \/ Archive(c) \/ Archived(c) \/ Dispatch(c)

Send ==
    \/ SendStarts \/ Lookup \/ CheckPredecessors \/ Request
    \/ ReadLater \/ Settle \/ Settled \/ KeepConfirmed \/ Kept
    \/ Sample \/ ReadReceipts \/ ReadRemote \/ Install \/ Installed

Reject(p) == RejectReads(p) \/ RollsBack(p) \/ Retire(p) \/ Quarantines(p)
             \/ QuarantinesBlindly(p) \/ QuarantinesJournals(p)

Recover(c) ==
    \/ RecoverTerminal(c) \/ RecoverQuarantined(c) \/ Redispatch(c) \/ LookUpOrphan(c)

Next ==
    \/ \E c \in Commands : Begin(c) \/ Prepare(c) \/ Recover(c)
    \/ Send \/ SendFails \/ Denied
    \/ \E p \in {"flight", "replay"} : Reject(p)
    \/ Restore
    \/ \E x \in late : LateCopy(x)
    \/ \E k \in Keys, f \in Fields \ {"updatedAt"} : OtherCommit(k, f)
    \/ Refresh \/ Reload

Spec == Init /\ [][Next]_vars

-----------------------------------------------------------------------------
(* Properties *)

\* Every variable keeps its shape, no revision runs ahead of the server's, and
\* no click vanishes: its mirror goes only when there is a journal of it.
TypeOK ==
    /\ server.rev \in Nat
    /\ \A k \in Keys : {cache[k], canon.rows[k], server.rows[k]} \subseteq [Fields -> Values]
    /\ canon.rev \in 0 .. server.rev /\ checkpoint \in 0 .. server.rev
    /\ \A c \in Commands :
        /\ journal[c].state \in {"none"} \cup Open \cup Terminal
        /\ mirror[c].status \in {"absent", "pending", "unknown", "projection_pending"} \cup Closed
        /\ mirror[c].preds \subseteq 1 .. c - 1
        /\ journal[c].state = "confirmed" => journal[c].rev \in 1 .. server.rev
        /\ asked[c] # NotAsked /\ mirror[c] = NoMirror => journal[c] # NoJournal
    /\ faults \in 0 .. MaxFaults
    /\ queue \in Seq([cmd : Commands, recovery : BOOLEAN])

\* What was taken back locally was not committed, whatever answers were lost
\* (PLAN.md:83: a rollback is the inverse of an unaccepted change).  The code
\* does not keep this where a predecessor had no journal when its successor was
\* sent.
RejectedWasNotCommitted ==
    \A c \in Commands : journal[c].state \in {"rejected", "conflict"} => receipts[c].rev = 0

\* What a confirmed interaction was laid over is never taken back or put in
\* quarantine afterwards.
NothingConfirmedIsUndermined ==
    [][\A c, d \in Commands :
        /\ journal[c].state = "confirmed" /\ d \in journal[c].preds
        /\ journal[d].state \in Open
        /\ journal'[d].state # journal[d].state
        => journal'[d].state \notin {"rejected", "conflict", "rollback_pending"}]_vars

\* A rejection of the recovery saves the records it read (reject).  None of
\* them is confirmed meanwhile, although nothing keeps a send out.
NothingUndercut ==
    proc["replay"].at \in {"rollback", "quarantine"} =>
        \A d \in Closes("replay") : journal[d].state # "confirmed"

\* What is confirmed stays confirmed, with its revision: no late rejection, no
\* recovery and no second settlement takes it back.
ConfirmedStays ==
    [][\A c \in Commands : journal[c].state = "confirmed" =>
            journal'[c].state = "confirmed" /\ journal'[c].rev = journal[c].rev]_vars

\* What the cache must hold when the interactions in open are laid over it: the
\* latest of them, else the latest confirmed one that the installed snapshot
\* does not have yet, else the snapshot.
Expected(k, f, open) ==
    LET mine == {c \in open : RowOf(c) = k /\ f \in DOMAIN journal[c].change.after}
        newer == {c \in Commands : /\ journal[c].state = "confirmed" /\ journal[c].rev > canon.rev
                                   /\ RowOf(c) = k /\ f \in DOMAIN journal[c].change.after}
    IN  IF mine # {}
        THEN journal[CHOOSE c \in mine : \A d \in mine : d <= c].change.after[f]
        ELSE IF newer # {}
        THEN journal[CHOOSE c \in newer : \A d \in newer : journal[d].rev <= journal[c].rev].change.after[f]
        ELSE canon.rows[k][f]

\* The checkpoint claims no revision whose change the cache does not hold.
CheckpointIsBacked ==
    \A r \in 1 .. checkpoint :
        r <= canon.rev \/ \E c \in Commands : journal[c].state = "confirmed" /\ journal[c].rev = r

\* Released from the quarantine of another interaction while its own rollback is
\* still owed: nothing in the recovery takes it up again.
Forsaken(c) == mirror[c].status = "unknown" /\ journal[c].state = "rollback_pending"

=============================================================================

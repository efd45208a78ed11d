---------------------------- MODULE ClientOutbox ----------------------------
(***************************************************************************)
(* The browser's command outbox, its local cache and its checkpoint.       *)
(*                                                                         *)
(* A command is written to the account's outbox (localStorage) before it   *)
(* is sent, and leaves it only when its outcome is known.  Answers are     *)
(* lost, arrive late or find the cache changed; tabs share the outbox, the *)
(* checkpoint and the cache (IndexedDB), and a tab may be reloaded at any  *)
(* await.  The server is the authority of WorkspaceCommands seen from the  *)
(* client: a request reads the row, then the ledger, then decides.         *)
(*                                                                         *)
(* The cache is a snapshot of revision "at" patched with the deltas of     *)
(* some later revisions; the checkpoint is the revision of lastSyncedVersion. *)
(***************************************************************************)
EXTENDS Integers, FiniteSets

CONSTANTS
    Tabs,           \* browser tabs of one account
    Commands,       \* command ids
    Compact,        \* domain commands: answered with a delta, not a snapshot
    Visible,        \* tabs in the foreground: the user acts in these, and only
                    \* these refresh the cache; timers run in every tab
    Verdicts,       \* what the evaluator may say of a command, see Verdict
    MaxForeign,     \* bound: commits of other devices
    MaxFaults       \* bound: lost answers, refusals and reloads

\* The evaluator changes the snapshot, leaves it as it is, or throws.
Verdict == {"write", "noop", "invalid"}

\* "flight" is the one call of oneCommandFlight; "probe" is a receipt-only
\* call, which does not join it.
Slots == [tab : Tabs, command : Commands, lane : {"flight", "probe"}]

Statuses == {"absent", "pending", "unknown", "conflict", "projection_pending"}

Phases == {"idle", "sent", "read", "missed", "answered", "captured", "installed",
           "persisted"}

\* Lookups are "recover" after a lost submit, "resend" before a new one,
\* "receipt" alone; "read" fetches the snapshot an answer came without.
Modes == {"none", "submit", "recover", "resend", "receipt", "read"}

CallOutcomes == {"NONE", "ABSENT", "COMMITTED", "ALREADY_APPLIED", "HOLDS",
                 "NO_WRITE", "CONFLICT", "REJECTED"}

\* The server has the change: by a receipt, or because the fact holds already.
Confirming == {"COMMITTED", "ALREADY_APPLIED", "HOLDS"}

Told == {"new", "open", "confirmed", "nowrite", "rejected", "conflict", "discarded"}

MaxRevision == MaxForeign + Cardinality(Commands)

Caches == [at : 0 .. MaxRevision, deltas : SUBSET (1 .. MaxRevision)]

ASSUME OutboxAssumption ==
    /\ Compact \subseteq Commands
    /\ Visible \subseteq Tabs
    /\ Verdicts \subseteq Verdict
    /\ IsFiniteSet(Commands)
    /\ MaxForeign \in Nat
    /\ MaxFaults \in Nat

VARIABLES
    revision,   \* the server's row
    ledger,     \* [Commands -> revision of the receipt, 0 if none]
    verdict,    \* [Commands -> Verdict]
    overlap,    \* what other commits since the command's base did to its objects
    late,       \* submits the server may still commit although nobody waits
    outbox,     \* [Commands -> Statuses]: PendingCommand.status
    base,       \* [Commands -> Nat]: PendingCommand.baseRevision
    facts,      \* entries with confirmedFact: confirmed without a receipt
    cache,      \* the local data stores
    checkpoint, \* lastSyncedVersion
    call,       \* [Slots -> CallType]
    refresh,    \* [Tabs -> RefreshType]: refreshConnectedAuthoritativeCache
    told,       \* [Commands -> Told]: what the user was last told
    foreign,    \* commits of other devices so far
    faults      \* faults so far

server == <<revision, ledger, verdict, overlap, late, foreign>>
entries == <<outbox, base, facts, told>>
device == <<cache, checkpoint>>
vars == <<server, entries, device, call, refresh, faults>>

EmptyCache == [at |-> 0, deltas |-> {}]

Idle == [phase |-> "idle", mode |-> "none", kept |-> "absent", outcome |-> "NONE",
         seen |-> 0, receipt |-> 0, local |-> EmptyCache]

CallType == [phase : Phases, mode : Modes, kept : Statuses, outcome : CallOutcomes,
             seen : 0 .. MaxRevision, receipt : 0 .. MaxRevision, local : Caches]

NoRefresh == [phase |-> "idle", seen |-> 0, local |-> EmptyCache, sampled |-> 0]

RefreshType == [phase : {"idle", "sent", "answered", "compared", "installed"},
                seen : 0 .. MaxRevision, local : Caches, sampled : 0 .. MaxRevision]

Issued == {c \in Commands : told[c] # "new"}

Content(k) == (1 .. k.at) \cup k.deltas

\* pendingCommandSummary: entries that are not conflicts.
Unresolved == {c \in Commands : outbox[c] \notin {"absent", "conflict"}}

Fault == faults < MaxFaults /\ faults' = faults + 1

\* A transaction of a tab reports its completion before a later transaction of
\* the same tab reads or writes the stores.
Free(t) == \A s \in Slots : s.tab = t => call[s].phase # "persisted"

-----------------------------------------------------------------------------
(* The outbox *)

\* patchPending and removePending find nothing when another tab removed it.
Patch(c, status) ==
    outbox' = [outbox EXCEPT ![c] = IF @ = "absent" THEN @ ELSE status]

Remove(c) ==
    /\ outbox' = [outbox EXCEPT ![c] = "absent"]
    /\ facts' = facts \ {c}

Tell(c, what) ==
    told' = [told EXCEPT ![c] = IF @ = "confirmed" THEN @ ELSE what]

End(s) == call' = [call EXCEPT ![s] = Idle]

Send(s, mode) ==
    call' = [call EXCEPT ![s] = [Idle EXCEPT
                !.phase = "sent", !.mode = mode,
                !.local = IF mode \in {"submit", "read"} THEN cache ELSE @,
                !.kept = IF mode = "resend" THEN outbox[s.command] ELSE @,
                !.outcome = IF mode = "read" THEN "HOLDS" ELSE "NONE"]]

Stage(c, v) ==
    /\ told[c] = "new"
    /\ outbox' = [outbox EXCEPT ![c] = "pending"]
    /\ base' = [base EXCEPT ![c] = checkpoint]
    /\ verdict' = [verdict EXCEPT ![c] = v]
    /\ told' = [told EXCEPT ![c] = "open"]
    /\ \E how \in IF checkpoint < revision THEN {"none", "same", "clash"} ELSE {"none"} :
        overlap' = [overlap EXCEPT ![c] = how]
    /\ UNCHANGED <<revision, ledger, late, foreign, facts, device, refresh, faults>>

\* executeConnectedBusinessCommand, undoConnectedBusinessCommand
Execute(s, v) ==
    /\ s.lane = "flight"
    /\ s.tab \in Visible
    /\ Free(s.tab)
    /\ Stage(s.command, v)
    /\ Send(s, "submit")

\* queueConnectedBusinessCommand
Queue(c, v) ==
    /\ Stage(c, v)
    /\ UNCHANGED call

\* The same command again: executed, undone or confirmed by the user, any
\* status; the receipt is looked up before anything is sent.
Retry(s) ==
    /\ s.lane = "flight"
    /\ s.tab \in Visible
    /\ Free(s.tab)
    /\ call[s] = Idle
    /\ outbox[s.command] # "absent"
    /\ UNCHANGED <<server, entries, device, refresh, faults>>
    /\ Send(s, "resend")

\* Mutant: a confirmed entry is taken for a finished one.
ReplayUnconfirmed(s) ==
    /\ Free(s.tab)
    /\ s.command \in Unresolved
    /\ outbox[s.command] # "projection_pending"
    /\ s.lane = "flight"
    /\ call[s] = Idle
    /\ UNCHANGED <<server, entries, device, refresh, faults>>
    /\ Send(s, "resend")

\* replayAccountPendingOperations: a conflict waits for the user, a confirmed
\* command is only looked up.
Replay(s) ==
    LET c == s.command
        lane == IF outbox[c] = "projection_pending" THEN "probe" ELSE "flight"
        mode == IF outbox[c] # "projection_pending" THEN "resend"
                ELSE IF c \in facts THEN "read" ELSE "receipt"
    IN  /\ Free(s.tab)
        /\ c \in Unresolved
        /\ s.lane = lane
        /\ call[s] = Idle
        /\ UNCHANGED <<server, entries, device, refresh, faults>>
        /\ Send(s, mode)

\* confirmConnectedCommand with receiptOnly
LookUp(s) ==
    /\ s.lane = "probe"
    /\ s.tab \in Visible
    /\ Free(s.tab)
    /\ call[s] = Idle
    /\ outbox[s.command] # "absent"
    /\ UNCHANGED <<server, entries, device, refresh, faults>>
    /\ Send(s, "receipt")

\* The user edits the text of a conflicted capture into a new intent.
Discard(c) ==
    /\ outbox[c] = "conflict"
    /\ Remove(c)
    /\ Tell(c, "discarded")
    /\ UNCHANGED <<server, base, device, call, refresh, faults>>

-----------------------------------------------------------------------------
(* The server *)

\* A commit may change the objects of commands that are not committed yet,
\* or make the very change one of them asks for.
Committing(c) ==
    /\ revision' = revision + 1
    /\ \E S \in SUBSET {d \in Issued \ {c} : ledger[d] = 0}, how \in {"same", "clash"} :
        overlap' = [d \in Commands |-> IF d \in S THEN how ELSE overlap[d]]

OtherCommit ==
    /\ foreign < MaxForeign
    /\ foreign' = foreign + 1
    /\ \E S \in SUBSET {d \in Issued : ledger[d] = 0}, how \in {"same", "clash"} :
        overlap' = [d \in Commands |-> IF d \in S THEN how ELSE overlap[d]]
    /\ revision' = revision + 1
    /\ UNCHANGED <<ledger, verdict, late, entries, device, call, refresh, faults>>

Applicable(c) == ledger[c] = 0 /\ verdict[c] = "write" /\ overlap[c] = "none"

\* A copy of the command nobody waits for any more reaches the server.
LateCopy(c) ==
    /\ c \in late
    /\ late' = late \ {c}
    /\ Applicable(c)
    /\ Committing(c)
    /\ ledger' = [ledger EXCEPT ![c] = revision + 1]
    /\ UNCHANGED <<verdict, foreign, entries, device, call, refresh, faults>>

ServerReadsRow(s) ==
    /\ call[s].phase = "sent"
    /\ call' = [call EXCEPT ![s].seen = revision,
                    ![s].phase = IF call[s].mode = "read" THEN "answered" ELSE "read"]
    /\ UNCHANGED <<server, entries, device, refresh, faults>>

ServerReadsLedger(s) ==
    LET receipt == ledger[s.command]
    IN  /\ call[s].phase = "read"
        /\ call' = [call EXCEPT
                ![s].phase = IF receipt = 0 /\ @ = "read" /\ call[s].mode = "submit"
                             THEN "missed" ELSE "answered",
                ![s].receipt = receipt,
                ![s].outcome = IF receipt # 0 THEN "ALREADY_APPLIED"
                               ELSE IF call[s].mode = "submit" THEN "NONE" ELSE "ABSENT"]
        /\ UNCHANGED <<server, entries, device, refresh, faults>>

Answer(s, outcome, seen, receipt) ==
    call' = [call EXCEPT ![s].phase = "answered", ![s].outcome = outcome,
                         ![s].seen = seen, ![s].receipt = receipt]

ServerCommits(s) ==
    LET c == s.command
    IN  /\ call[s].phase = "missed"
        /\ call[s].seen = revision
        /\ Applicable(c)
        /\ Committing(c)
        /\ ledger' = [ledger EXCEPT ![c] = revision + 1]
        /\ late' = late \ {c}
        /\ Answer(s, "COMMITTED", revision + 1, revision + 1)
        /\ UNCHANGED <<verdict, foreign, entries, device, refresh, faults>>

\* A copy of the command committed after the ledger was read: the commit RPC
\* finds the receipt, unless the later rows were read first.
ServerFindsTwin(s) ==
    LET c == s.command
    IN  /\ call[s].phase = "missed"
        /\ ledger[c] # 0
        /\ \/ Answer(s, "ALREADY_APPLIED", revision, ledger[c])
           \/ base[c] < call[s].seen /\ Answer(s, "CONFLICT", call[s].seen, 0)
        /\ UNCHANGED <<server, entries, device, refresh, faults>>

\* Nothing is written: the evaluator refuses or changes nothing, another
\* commit made the same change, or one the command must not overwrite.
ServerDeclines(s) ==
    LET c == s.command
        seen == call[s].seen
        Says(outcome) == Answer(s, outcome, seen, 0)
    IN  /\ call[s].phase = "missed"
        /\ ledger[c] = 0
        /\ \/ verdict[c] = "invalid" /\ Says("REJECTED")
           \/ verdict[c] = "noop" /\ (Says("NO_WRITE") \/ Says("HOLDS"))
           \/ overlap[c] = "same" /\ base[c] < seen /\ Says("HOLDS")
           \/ overlap[c] # "none" /\ base[c] < seen /\ Says("CONFLICT")
        /\ UNCHANGED <<server, entries, device, refresh, faults>>

\* The revision moved before the commit: the executor starts over.
ServerStartsOver(s) ==
    /\ call[s].phase = "missed"
    /\ ledger[s.command] = 0
    /\ call[s].seen # revision
    /\ call' = [call EXCEPT ![s].phase = "sent"]
    /\ UNCHANGED <<server, entries, device, refresh, faults>>

-----------------------------------------------------------------------------
(* The answer at the client *)

\* A projected outcome retires the entry; a confirmed one that could not be
\* projected stays, and is from now on only looked up.
Settle(s, projected) ==
    LET c == s.command
        outcome == call[s].outcome
    IN  IF outcome = "CONFLICT"
        THEN Patch(c, "conflict") /\ Tell(c, "conflict") /\ UNCHANGED facts
        ELSE IF outcome = "NO_WRITE"
        THEN Remove(c) /\ Tell(c, "nowrite")
        ELSE IF projected
        THEN Remove(c) /\ Tell(c, "confirmed")
        ELSE /\ Patch(c, "projection_pending")
             /\ facts' = IF outcome = "HOLDS" /\ outbox[c] # "absent"
                         THEN facts \cup {c} ELSE facts
             /\ Tell(c, "confirmed")

\* recoverUnknown without a receipt: only now is the outcome called unknown.
StaysUnknown(c) == Patch(c, "unknown")

\* Mutant: the recorded projection is not asked for its version.
SnapshotFitsCheckpoint(s) ==
    /\ checkpoint <= call[s].seen
    /\ Content(cache) = Content(call[s].local)

\* What the snapshot or the delta of an answer must meet to be installed.
SnapshotFits(s) ==
    /\ checkpoint <= call[s].seen
    /\ cache.at <= call[s].seen
    /\ Content(cache) = Content(call[s].local)

HasDelta(s) ==
    /\ s.command \in Compact
    /\ call[s].mode = "submit"
    /\ call[s].receipt # 0

HasSnapshot(s) ==
    \/ s.command \notin Compact
    \/ call[s].mode # "submit"

\* submitPending and the lookups, on an answer.  A lookup exports the local
\* snapshot only now; a submit did so before it was sent.
Arrive(s) ==
    LET c == s.command
        m == call[s]
        bare == m.mode = "submit" /\ ~HasDelta(s) /\ ~HasSnapshot(s)
        Becomes(rec) == call' = [call EXCEPT ![s] = rec] /\ UNCHANGED <<outbox, facts, told>>
    IN  /\ m.phase = "answered"
        /\ Free(s.tab)
        /\ \/ /\ m.outcome = "ABSENT" /\ m.mode = "recover"
              /\ StaysUnknown(c) /\ End(s) /\ UNCHANGED <<facts, told>>
           \/ /\ m.outcome = "ABSENT" /\ m.mode = "receipt"
              /\ End(s) /\ UNCHANGED <<outbox, facts, told>>
           \/ /\ m.outcome = "ABSENT" /\ m.mode = "resend"
              /\ \/ m.kept # "projection_pending" /\ Send(s, "submit")
                 \/ outbox[c] \in {"projection_pending", "absent"} /\ End(s)
              /\ UNCHANGED <<outbox, facts, told>>
           \/ /\ m.outcome = "REJECTED"
              /\ Remove(c) /\ Tell(c, "rejected") /\ End(s)
           \/ /\ m.outcome = "CONFLICT" /\ bare
              /\ Settle(s, FALSE) /\ End(s)
           \/ /\ m.outcome \notin {"ABSENT", "REJECTED", "CONFLICT"} /\ bare
              /\ Becomes([m EXCEPT !.phase = "sent", !.mode = "read"])
           \/ /\ m.outcome \notin {"ABSENT", "REJECTED"} /\ ~bare
              /\ Becomes(IF m.mode \in {"submit", "read"} THEN [m EXCEPT !.phase = "captured"]
                         ELSE [m EXCEPT !.phase = "captured", !.mode = "receipt",
                                        !.kept = "absent", !.local = cache])
        /\ UNCHANGED <<server, base, device, refresh, faults>>

\* replaceLocalSnapshotFromCloud: one IndexedDB transaction.
Install(s) ==
    /\ call[s].phase = "captured"
    /\ ~HasDelta(s)
    /\ Free(s.tab)
    /\ SnapshotFits(s)
    /\ cache' = [at |-> call[s].seen, deltas |-> {}]
    /\ call' = [call EXCEPT ![s].phase = "installed"]
    /\ UNCHANGED <<server, entries, checkpoint, refresh, faults>>

\* persistInteractionProjection: the delta is laid over the rows it names.
PersistDelta(s) ==
    /\ call[s].phase = "captured"
    /\ HasDelta(s)
    /\ Free(s.tab)
    /\ cache' = [cache EXCEPT !.deltas = @ \cup {call[s].receipt}]
    /\ call' = [call EXCEPT ![s].phase = "persisted"]
    /\ UNCHANGED <<server, entries, checkpoint, refresh, faults>>

\* AccountCacheChangedError, or a delta whose rows the cache has otherwise.
Refuse(s) ==
    /\ call[s].phase = "captured"
    /\ IF HasDelta(s) THEN Content(cache) # 1 .. call[s].receipt - 1
       ELSE ~SnapshotFits(s)
    /\ Settle(s, FALSE)
    /\ End(s)
    /\ UNCHANGED <<server, base, device, refresh, faults>>

\* Mutant: no second look at the checkpoint after the transaction.
FinishInstallUnchecked(s) ==
    /\ call[s].phase = "installed"
    /\ checkpoint' = call[s].seen
    /\ Settle(s, TRUE)
    /\ End(s)
    /\ UNCHANGED <<server, base, cache, refresh, faults>>

\* projectAuthoritativeResult checks once more before it writes the checkpoint.
FinishInstall(s) ==
    LET seen == call[s].seen
    IN  /\ call[s].phase = "installed"
        /\ checkpoint' = IF checkpoint <= seen THEN seen ELSE checkpoint
        /\ Settle(s, checkpoint <= seen)
        /\ End(s)
        /\ UNCHANGED <<server, base, cache, refresh, faults>>

\* Only the delta that follows the checkpoint moves it.
FinishDelta(s) ==
    LET receipt == call[s].receipt
    IN  /\ call[s].phase = "persisted"
        /\ checkpoint' = IF checkpoint = receipt - 1 THEN receipt ELSE checkpoint
        /\ Settle(s, TRUE)
        /\ End(s)
        /\ UNCHANGED <<server, base, cache, refresh, faults>>

-----------------------------------------------------------------------------
(* Faults *)

\* Mutant: a failed lookup is taken for a failed projection.
LostIsUnprojected(s) ==
    LET m == call[s]
    IN  /\ m.phase \in {"sent", "read", "missed", "answered"}
        /\ Fault
        /\ Settle(s, FALSE)
        /\ End(s)
        /\ late' = IF m.mode = "submit" THEN late \cup {s.command} ELSE late
        /\ UNCHANGED <<revision, ledger, verdict, overlap, foreign, base, device, refresh>>

\* The answer is lost, or the server fails: a submit is looked up, a lookup
\* gives up.  The server may still run the request.
Lost(s) ==
    LET c == s.command
        m == call[s]
    IN  /\ m.phase \in {"sent", "read", "missed", "answered"}
        /\ Fault
        /\ CASE m.mode = "submit" ->
                  /\ Send(s, "recover")
                  /\ late' = late \cup {d \in {c} : ledger[d] = 0}
                  /\ UNCHANGED <<outbox, facts, told>>
             [] m.mode = "recover" ->
                  StaysUnknown(c) /\ End(s) /\ UNCHANGED <<late, facts, told>>
             [] m.mode = "read" /\ s.lane = "flight" ->
                  Settle(s, FALSE) /\ End(s) /\ UNCHANGED late
             [] OTHER ->
                  End(s) /\ UNCHANGED <<late, outbox, facts, told>>
        /\ UNCHANGED <<revision, ledger, verdict, overlap, foreign, base, device, refresh>>

\* Mutant: an expired session drops the command like a rejected one.
TurnedAwayForgets(s) ==
    /\ call[s].phase = "sent"
    /\ call[s].mode = "submit"
    /\ Fault
    /\ Remove(s.command)
    /\ End(s)
    /\ UNCHANGED <<server, base, told, device, refresh>>

\* Not sent (no token, the cache is not the account's), or 401 and 403: the
\* server has done nothing.
TurnedAway(s) ==
    /\ call[s].phase = "sent"
    /\ call[s].mode = "submit"
    /\ Fault
    /\ Patch(s.command, "pending") \/ UNCHANGED outbox
    /\ End(s)
    /\ UNCHANGED <<server, base, facts, told, device, refresh>>

\* The tab is reloaded or closed, or its account changes: every call of the
\* tab is dropped where it stands.
Reload(t) ==
    LET gone == {s \in Slots : s.tab = t /\ call[s] # Idle}
    IN  /\ gone # {} \/ refresh[t] # NoRefresh
        /\ Fault
        /\ call' = [s \in Slots |-> IF s \in gone THEN Idle ELSE call[s]]
        /\ refresh' = [refresh EXCEPT ![t] = NoRefresh]
        /\ late' = late \cup {s.command : s \in {g \in gone :
                        /\ call[g].mode = "submit"
                        /\ call[g].phase \in {"sent", "read", "missed"}
                        /\ ledger[g.command] = 0}}
        /\ UNCHANGED <<revision, ledger, verdict, overlap, foreign, entries, device>>

-----------------------------------------------------------------------------
(* refreshConnectedAuthoritativeCache *)

RefreshStart(t) ==
    /\ refresh[t] = NoRefresh
    /\ Unresolved = {}
    /\ Free(t)
    /\ refresh' = [refresh EXCEPT ![t] =
            [phase |-> "sent", seen |-> 0, local |-> cache, sampled |-> checkpoint]]
    /\ UNCHANGED <<server, entries, device, call, faults>>

RefreshRead(t) ==
    /\ refresh[t].phase = "sent"
    /\ refresh' = [refresh EXCEPT ![t].phase = "answered", ![t].seen = revision]
    /\ UNCHANGED <<server, entries, device, call, faults>>

RefreshStops(t) ==
    /\ refresh' = [refresh EXCEPT ![t] = NoRefresh]
    /\ UNCHANGED <<server, entries, device, call, faults>>

\* A new command defers the refresh; a checkpoint that moved while it read
\* makes it take the local snapshot once more.
RefreshArrive(t) ==
    /\ refresh[t].phase = "answered"
    /\ Free(t)
    /\ \/ Unresolved # {} /\ RefreshStops(t)
       \/ /\ Unresolved = {}
          /\ refresh' = [refresh EXCEPT ![t].phase = "compared",
                ![t].local = IF checkpoint = refresh[t].sampled THEN @ ELSE cache,
                ![t].sampled = checkpoint]
          /\ UNCHANGED <<server, entries, device, call, faults>>

\* markCurrent, or a replacement guarded like that of a command; both write the
\* checkpoint in a later step.  A checkpoint moved by a delta keeps the
\* fingerprint of an older snapshot, so it never counts as unchanged.
RefreshApply(t) ==
    LET r == refresh[t]
        current == \/ Content(r.local) = 1 .. r.seen
                   \/ r.seen = checkpoint /\ r.seen \notin r.local.deltas
        admitted == /\ Unresolved = {}
                    /\ checkpoint <= r.seen
                    /\ Content(cache) = Content(r.local)
                    /\ current \/ cache.at <= r.seen
    IN  /\ r.phase = "compared"
        /\ Free(t)
        /\ \/ ~admitted /\ RefreshStops(t)
           \/ /\ admitted
              /\ cache' = IF current THEN cache ELSE [at |-> r.seen, deltas |-> {}]
              /\ refresh' = [refresh EXCEPT ![t].phase = "installed"]
              /\ UNCHANGED <<server, entries, checkpoint, call, faults>>

RefreshFinish(t) ==
    LET seen == refresh[t].seen
    IN  /\ refresh[t].phase = "installed"
        /\ checkpoint' = IF Unresolved = {} /\ checkpoint <= seen THEN seen ELSE checkpoint
        /\ refresh' = [refresh EXCEPT ![t] = NoRefresh]
        /\ UNCHANGED <<server, entries, cache, call, faults>>

-----------------------------------------------------------------------------
Init ==
    /\ revision = 0
    /\ ledger = [c \in Commands |-> 0]
    /\ verdict = [c \in Commands |-> "write"]
    /\ overlap = [c \in Commands |-> "none"]
    /\ late = {}
    /\ outbox = [c \in Commands |-> "absent"]
    /\ base = [c \in Commands |-> 0]
    /\ facts = {}
    /\ cache = EmptyCache
    /\ checkpoint = 0
    /\ call = [s \in Slots |-> Idle]
    /\ refresh = [t \in Tabs |-> NoRefresh]
    /\ told = [c \in Commands |-> "new"]
    /\ foreign = 0
    /\ faults = 0

ServerStep(s) ==
    \/ ServerReadsRow(s) \/ ServerReadsLedger(s)
    \/ ServerCommits(s) \/ ServerFindsTwin(s) \/ ServerDeclines(s) \/ ServerStartsOver(s)

AnswerStep(s) ==
    \/ Arrive(s) \/ Install(s) \/ PersistDelta(s) \/ Refuse(s)
    \/ FinishInstall(s) \/ FinishDelta(s)

RefreshStep(t) ==
    \/ RefreshStart(t) \/ RefreshRead(t) \/ RefreshArrive(t)
    \/ RefreshApply(t) \/ RefreshFinish(t)

Next ==
    \/ \E s \in Slots, v \in Verdicts : Execute(s, v)
    \/ \E c \in Commands, v \in Verdicts : Queue(c, v)
    \/ \E s \in Slots :
        Retry(s) \/ Replay(s) \/ LookUp(s) \/ ServerStep(s) \/ AnswerStep(s)
        \/ Lost(s) \/ TurnedAway(s)
    \/ \E c \in Commands : Discard(c) \/ LateCopy(c)
    \/ \E t \in Tabs : Reload(t)
    \/ \E t \in Visible : RefreshStep(t)
    \/ OtherCommit

Spec == Init /\ [][Next]_vars

\* The 60 s timer, focus and reconnect replay the outbox and refresh the cache;
\* requests are answered and JavaScript tasks run.  The user promises nothing.
FairSpec ==
    /\ Spec
    /\ \A s \in Slots : SF_vars(Replay(s)) /\ WF_vars(ServerStep(s)) /\ WF_vars(AnswerStep(s))
    /\ \A t \in Visible : WF_vars(RefreshStep(t))

-----------------------------------------------------------------------------
(* Properties *)

\* Every variable keeps its range, and the two marks of a confirmed fact and of
\* an installed snapshot never outrun the entry and the server they speak of.
TypeOK ==
    /\ revision \in 0 .. MaxRevision
    /\ ledger \in [Commands -> 0 .. MaxRevision]
    /\ verdict \in [Commands -> Verdict]
    /\ overlap \in [Commands -> {"none", "same", "clash"}]
    /\ late \subseteq Commands
    /\ outbox \in [Commands -> Statuses]
    /\ base \in [Commands -> 0 .. MaxRevision]
    /\ facts \subseteq {c \in Commands : outbox[c] # "absent"}
    /\ cache \in Caches
    /\ checkpoint \in 0 .. revision
    /\ call \in [Slots -> CallType]
    /\ refresh \in [Tabs -> RefreshType]
    /\ told \in [Commands -> Told]
    /\ foreign \in 0 .. MaxForeign
    /\ faults \in 0 .. MaxFaults

\* An old answer never moves the account's checkpoint back.
CheckpointNeverGoesBack == [][checkpoint' >= checkpoint]_vars

\* A snapshot never replaces a newer one, even when the checkpoint of the newer
\* one was never written.
SnapshotNeverGoesBack == [][cache'.at >= cache.at]_vars

\* An intent whose outcome the user has not been told is still in the outbox.
NoIntentIsForgotten == \A c \in Commands : told[c] = "open" => outbox[c] # "absent"

\* What the user was told to be saved is: a change that was asked for, and that
\* no other commit can have made, has its receipt at the server.
ConfirmedIsTrue ==
    \A c \in Commands :
        told[c] = "confirmed" /\ verdict[c] = "write" /\ overlap[c] = "none" => ledger[c] # 0

\* Every intent is eventually settled or waits as a conflict for the user.
EveryIntentSettles ==
    \A c \in Commands :
        outbox[c] \notin {"absent", "conflict"} ~> outbox[c] \in {"absent", "conflict"}

\* However the answers raced, in the end the cache shows every confirmed change.
CacheConverges ==
    <>[](\A c \in Commands :
            told[c] = "confirmed" /\ ledger[c] # 0 => ledger[c] \in Content(cache))

=============================================================================

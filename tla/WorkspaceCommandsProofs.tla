---------------------- MODULE WorkspaceCommandsProofs ----------------------
(***************************************************************************)
(* Proofs about WorkspaceCommands, for any handlers, commands, requests    *)
(* and evaluator: its invariants, and that it implements CommandLog.       *)
(***************************************************************************)
EXTENDS WorkspaceRefinement, TLAPS

(***************************************************************************)
(* The inductive invariant.  Its first half is about the row and the       *)
(* ledger only, its second half about what the handlers have read.         *)
(***************************************************************************)

\* Each row records what its command does to the snapshot it was applied to,
\* or names the earlier command it undoes.
EntriesAreTheirEffect ==
    \A c \in Committed :
        LET e == ledger[c]
        IN  /\ e.kind # "undo" =>
                /\ e.body \in Payloads
                /\ e.after = Effect[e.body][e.before]
            /\ e.kind = "undo" =>
                /\ e.body \in CommandIds
                /\ ledger[e.body] # NoEntry
                /\ ledger[e.body].rev < e.rev

\* A field no later row changed still has the value a row left it with.
UntouchedStands ==
    \A c \in Committed : \A x \in Cells :
        (\A d \in Committed : ledger[d].rev > ledger[c].rev => x \notin Changed(ledger[d]))
        => workspace.data[x] = ledger[c].after[x]

LedgerInv ==
    /\ RevisionsAreEvident
    /\ EntriesAreTheirEffect
    /\ NoLostUpdate
    /\ UntouchedStands
    /\ NoSilentOverwrite
    /\ UndoMeetsItsTarget
    /\ UndoneOnce

\* What a handler read is not from the future, and is the stored snapshot as
\* long as the revision has not moved.
SeenIsPast(h) ==
    /\ seen[h].rev <= workspace.rev
    /\ seen[h].rev = workspace.rev => seen[h].data = workspace.data

\* A handler that is still at work has an attempt left.
AttemptsRemain(h) == pc[h] # "idle" => attempt[h] < MaxAttempts

\* An undo past its checks holds the ledger row of its target, and the row
\* has a compensation.
TargetIsRead(h) ==
    request[h].kind = "undo" =>
        /\ target[h] # NoEntry => target[h] = ledger[request[h].body]
        /\ pc[h] \in {"readLater", "commit"} =>
                target[h] # NoEntry /\ HasCompensation(target[h])

\* A command about to be committed is compatible with every command between
\* its base and the snapshot it was evaluated on.
CommandIsCompatible(h) ==
    pc[h] = "commit" /\ request[h].kind = "execute" =>
        \A d \in Committed :
            request[h].base < ledger[d].rev /\ ledger[d].rev <= seen[h].rev =>
                /\ ~Opaque(ledger[d])
                /\ Changed(ledger[d]) \cap Intent[request[h].body] = {}

\* Nothing after the target of an undo about to be committed changed an
\* object the target changed, or hides what it changed.
UndoHasNoDependents(h) ==
    pc[h] = "commit" /\ request[h].kind = "undo" =>
        \A d \in Committed :
            target[h].rev < ledger[d].rev /\ ledger[d].rev <= seen[h].rev =>
                /\ ~Opaque(ledger[d])
                /\ AffectedObjects(ledger[d]) \cap AffectedObjects(target[h]) = {}

\* A handler reads the row back only for a command that is committed.
ReadBackIsBacked(h) ==
    pc[h] = "readBack" =>
        /\ ledger[request[h].id] # NoEntry
        /\ SameHash(ledger[request[h].id], request[h])

\* AnswersAreBacked, for one handler.
AnswerIsBacked(h) ==
    response[h].receipt # 0 =>
        /\ ledger[request[h].id] # NoEntry
        /\ SameHash(ledger[request[h].id], request[h])
        /\ response[h].receipt = ledger[request[h].id].rev
        /\ response[h].outcome = "COMMITTED" =>
                response[h].rev = ledger[request[h].id].rev

HandlerOK(h) ==
    /\ SeenIsPast(h)
    /\ AttemptsRemain(h)
    /\ TargetIsRead(h)
    /\ CommandIsCompatible(h)
    /\ UndoHasNoDependents(h)
    /\ ReadBackIsBacked(h)
    /\ AnswerIsBacked(h)

HandlerInv == \A h \in Handlers : HandlerOK(h)

Inv == TypeOK /\ LedgerInv /\ HandlerInv

-----------------------------------------------------------------------------
(* Facts about the operators *)

\* A request names a known command id, and a body of its own kind.
LEMMA RequestFacts ==
    ASSUME NEW r \in Requests
    PROVE  /\ r.kind \in Kinds /\ r.id \in CommandIds /\ r.base \in Nat
           /\ r.kind = "undo" => r.body \in CommandIds
           /\ r.kind # "undo" => r.body \in Payloads
BY ConstantsAssumption DEF RequestType, Kinds

\* Compensating a row that has a compensation gives a snapshot.
LEMMA CompensationIsData ==
    ASSUME NEW e \in EntryType, HasCompensation(e), NEW d \in Data
    PROVE  Compensation[e.body][e.before][d] \in Data
BY ConstantsAssumption DEF HasCompensation, EntryType

\* A receipt that conflictFromIntervening lets pass did not change any field
\* the command means to change: either it is about other objects, or it
\* declares the fields it meant to change on a shared object, and the
\* evaluator kept to them.
LEMMA CompatibleChangesNothingMeant ==
    ASSUME NEW p \in Payloads, NEW e \in EntryType,
           e.kind = "execute" =>
                e.body \in Payloads /\ e.after = Effect[e.body][e.before],
           Incompatible(Intent[p], e) = {}
    PROVE  Changed(e) \cap Intent[p] = {}
<1> SUFFICES ASSUME NEW c \in Cells, c \in Changed(e), c \in Intent[p]
             PROVE  FALSE
    BY DEF Changed
<1>1. ObjectOf[c] \in ObjectsOf(Intent[p]) \cap AffectedObjects(e)
    BY DEF ObjectsOf, AffectedObjects
<1>2. PICK s \in ConflictScopes(e) : ObjectOf[s] = ObjectOf[c]
    BY <1>1 DEF Incompatible
<1>3. e.kind = "execute" /\ e.body \in Payloads /\ e.after = Effect[e.body][e.before]
    BY <1>2 DEF ConflictScopes
<1>4. c \in ConflictScopes(e)
  <2>1. ObjectOf[c] \in AffectedObjects(e)
    BY <1>1
  <2>2. ASSUME ObjectOf[c] \in ObjectsOf(Intent[e.body])
        PROVE  c \in Intent[e.body]
    <3>1. PICK i \in Intent[e.body] : ObjectOf[i] = ObjectOf[c]
        BY <2>2 DEF ObjectsOf
    <3>2. e.before \in Data /\ Effect[e.body][e.before][c] # e.before[c]
        BY <1>3 DEF Changed, EntryType
    <3> QED
        BY <1>3, <3>1, <3>2, EvaluatorStaysInScope
  <2> QED
    BY <1>3, <2>1, <2>2 DEF ConflictScopes
<1> QED
    BY <1>1, <1>4 DEF Incompatible

\* A snapshot the evaluator or an undo produces is a snapshot.
LEMMA NewEntryFacts ==
    ASSUME TypeOK, NEW h \in Handlers, TargetIsRead(h), pc[h] = "commit"
    PROVE  /\ NewEntry(h) \in EntryType
           /\ NewEntry(h).kind = request[h].kind
           /\ NewEntry(h).body = request[h].body
           /\ NewEntry(h).rev = workspace.rev + 1
           /\ NewEntry(h).before = seen[h].data
           /\ NewEntry(h).after = NextSnapshot(h)
           /\ request[h].kind = "execute" => NewEntry(h).base = request[h].base
<1>1. request[h] \in Requests /\ seen[h].data \in Data /\ seen[h].rev \in Nat
    BY DEF TypeOK, WorkspaceType
<1>2. NextSnapshot(h) \in Data
  <2>1. CASE request[h].kind = "undo"
    <3>1. target[h] \in EntryType /\ HasCompensation(target[h])
        BY <2>1 DEF TypeOK, TargetIsRead
    <3> QED
        BY <1>1, <2>1, <3>1, CompensationIsData DEF NextSnapshot
  <2>2. CASE request[h].kind # "undo"
    <3>1. request[h].body \in Payloads
        BY <1>1, <2>2, RequestFacts
    <3> QED
        BY <1>1, <2>2, <3>1, ConstantsAssumption DEF NextSnapshot
  <2> QED
    BY <2>1, <2>2
<1>3. /\ request[h].kind \in Kinds /\ request[h].base \in Nat
      /\ request[h].body \in Payloads \cup CommandIds
    BY <1>1, RequestFacts
<1>4. workspace.rev + 1 \in Nat \ {0}
    BY DEF TypeOK, WorkspaceType
<1> QED
    BY <1>1, <1>2, <1>3, <1>4 DEF NewEntry, EntryType

-----------------------------------------------------------------------------
(* Type correctness *)


\* Where a handler goes and what it answers are of the right types.
LEMMA GotoIsTyped ==
    ASSUME TypeOK, NEW h \in Handlers, NEW label \in Labels, Goto(h, label)
    PROVE  pc' \in [Handlers -> Labels]
BY DEF TypeOK, Goto

\* An answer keeps the types.
LEMMA AnswerIsTyped ==
    ASSUME TypeOK, NEW h \in Handlers, NEW outcome \in Outcomes,
           NEW rev \in Nat, NEW receipt \in Nat, Answer(h, outcome, rev, receipt)
    PROVE  /\ pc' \in [Handlers -> Labels]
           /\ response' \in [Handlers -> [outcome : Outcomes, rev : Nat, receipt : Nat]]
<1>1. pc' \in [Handlers -> Labels]
    BY GotoIsTyped DEF Answer, Labels
<1>2. [outcome |-> outcome, rev |-> rev, receipt |-> receipt]
        \in [outcome : Outcomes, rev : Nat, receipt : Nat]
    OBVIOUS
<1> QED
    BY <1>1, <1>2 DEF Answer, TypeOK

\* The part of a snapshot read, a receipt or an attempt that is answered.
LEMMA NumbersAreTyped ==
    ASSUME TypeOK, NEW h \in Handlers
    PROVE  /\ seen[h].rev \in Nat /\ workspace.rev \in Nat /\ attempt[h] \in Nat
           /\ request[h].id \in CommandIds /\ request[h].kind \in Kinds
           /\ ledger[request[h].id] # NoEntry => ledger[request[h].id].rev \in Nat
<1>1. request[h].id \in CommandIds /\ request[h].kind \in Kinds
    BY RequestFacts DEF TypeOK
<1>2. ledger[request[h].id] \in EntryType \cup {NoEntry}
    BY <1>1 DEF TypeOK
<1> QED
    BY <1>1, <1>2, ConstantsAssumption DEF TypeOK, WorkspaceType, EntryType

\* A handler whose step writes neither the row nor the ledger, nor what it
\* has read.
LEMMA AnswerOnlyIsTyped ==
    ASSUME TypeOK,
           UNCHANGED <<workspace, ledger, request, attempt, seen, target>>,
           pc' \in [Handlers -> Labels],
           \/ response' \in [Handlers -> [outcome : Outcomes, rev : Nat, receipt : Nat]]
           \/ UNCHANGED response
    PROVE  TypeOK'
BY DEF TypeOK

\* Evaluate answers or goes on to the commit.
LEMMA EvaluateIsTyped ==
    ASSUME TypeOK, NEW h \in Handlers, Evaluate(h)
    PROVE  /\ pc' \in [Handlers -> Labels]
           /\ \/ response' \in [Handlers -> [outcome : Outcomes, rev : Nat, receipt : Nat]]
              \/ UNCHANGED response
<1>1. seen[h].rev \in Nat /\ 0 \in Nat
    BY NumbersAreTyped
<1>2. CASE Answer(h, "BUSINESS_CONFIRMATION_REQUIRED", seen[h].rev, 0)
    BY <1>1, <1>2, AnswerIsTyped DEF Outcomes
<1>3. CASE Answer(h, "NO_WRITE", seen[h].rev, 0)
    BY <1>1, <1>3, AnswerIsTyped DEF Outcomes
<1>4. CASE Goto(h, "commit") /\ UNCHANGED response
    BY <1>4, GotoIsTyped DEF Labels
<1> QED
    BY <1>2, <1>3, <1>4 DEF Evaluate

\* Every step keeps the variables in their types.
LEMMA TypeStep ==
    ASSUME TypeOK, HandlerInv, [Next]_vars
    PROVE  TypeOK'
<1> USE DEF HandlerInv, HandlerOK
<1>1. ASSUME NEW h \in Handlers, NEW r \in Requests, Receive(h, r)
      PROVE  TypeOK'
    <2>1. pc' \in [Handlers -> Labels]
        BY <1>1, GotoIsTyped DEF Receive, Labels
    <2>2. NoResponse \in [outcome : Outcomes, rev : Nat, receipt : Nat]
        BY DEF NoResponse, Outcomes
    <2>3. 0 \in 0 .. MaxAttempts
        BY ConstantsAssumption
    <2>4. /\ request' \in [Handlers -> Requests]
          /\ attempt' \in [Handlers -> 0 .. MaxAttempts]
          /\ target' \in [Handlers -> EntryType \cup {NoEntry}]
        BY <1>1, <2>3 DEF TypeOK, Receive
    <2>5. response' \in [Handlers -> [outcome : Outcomes, rev : Nat, receipt : Nat]]
        BY <1>1, <2>2 DEF TypeOK, Receive
    <2> QED
        BY <1>1, <2>1, <2>4, <2>5 DEF TypeOK, Receive
<1>2. ASSUME NEW h \in Handlers, ReadWorkspace(h)
      PROVE  TypeOK'
    <2>1. \E label \in Labels : Goto(h, label)
        BY <1>2, NumbersAreTyped DEF ReadWorkspace, Kinds, Labels
    <2>2. pc' \in [Handlers -> Labels]
        BY <2>1, GotoIsTyped
    <2> QED
        BY <1>2, <2>2 DEF TypeOK, ReadWorkspace
<1>3. ASSUME NEW h \in Handlers, ReadLedgerHit(h)
      PROVE  TypeOK'
    <2> DEFINE e == ledger[request[h].id]
    <2>1. seen[h].rev \in Nat /\ e.rev \in Nat /\ 0 \in Nat
        BY <1>3, NumbersAreTyped DEF ReadLedgerHit, AnswerFromLedger
    <2>2. \/ Answer(h, "ALREADY_APPLIED", seen[h].rev, e.rev)
          \/ Answer(h, "COMMAND_ID_REUSED", seen[h].rev, 0)
        BY <1>3 DEF ReadLedgerHit, AnswerFromLedger
    <2>3. /\ pc' \in [Handlers -> Labels]
          /\ response' \in [Handlers -> [outcome : Outcomes, rev : Nat, receipt : Nat]]
        BY <2>1, <2>2, AnswerIsTyped DEF Outcomes
    <2> QED
        BY <1>3, <2>3, AnswerOnlyIsTyped DEF ReadLedgerHit
<1>4. ASSUME NEW h \in Handlers, ReadLedgerMiss(h)
      PROVE  TypeOK'
    <2>1. seen[h].rev \in Nat /\ 0 \in Nat
        BY NumbersAreTyped
    <2>2. \/ \E o \in Outcomes : Answer(h, o, seen[h].rev, 0)
          \/ Goto(h, "readLater") /\ UNCHANGED response
          \/ Evaluate(h)
        BY <1>4 DEF ReadLedgerMiss, Outcomes
    <2>3. /\ pc' \in [Handlers -> Labels]
          /\ \/ response' \in [Handlers -> [outcome : Outcomes, rev : Nat, receipt : Nat]]
             \/ UNCHANGED response
        BY <2>1, <2>2, AnswerIsTyped, EvaluateIsTyped, GotoIsTyped DEF Labels
    <2> QED
        BY <1>4, <2>3, AnswerOnlyIsTyped DEF ReadLedgerMiss
<1>5. ASSUME NEW h \in Handlers, KernelConflict(h)
      PROVE  TypeOK'
    <2>1. seen[h].rev \in Nat /\ 0 \in Nat /\ "CONFLICT" \in Outcomes
        BY NumbersAreTyped DEF Outcomes
    <2> QED
        BY <1>5, <2>1, AnswerIsTyped, AnswerOnlyIsTyped DEF KernelConflict
<1>6. ASSUME NEW h \in Handlers, ReadIntervening(h)
      PROVE  TypeOK'
    <2>1. seen[h].rev \in Nat /\ 0 \in Nat
        BY NumbersAreTyped
    <2>2. \/ \E o \in Outcomes : Answer(h, o, seen[h].rev, 0)
          \/ Evaluate(h)
        BY <1>6 DEF ReadIntervening, Outcomes
    <2>3. /\ pc' \in [Handlers -> Labels]
          /\ \/ response' \in [Handlers -> [outcome : Outcomes, rev : Nat, receipt : Nat]]
             \/ UNCHANGED response
        BY <2>1, <2>2, AnswerIsTyped, EvaluateIsTyped
    <2> QED
        BY <1>6, <2>3, AnswerOnlyIsTyped DEF ReadIntervening
<1>7. ASSUME NEW h \in Handlers, ReadTarget(h)
      PROVE  TypeOK'
    <2>1. request[h].body \in CommandIds
        BY <1>7, RequestFacts DEF ReadTarget, TypeOK
    <2>2. ledger[request[h].body] \in EntryType \cup {NoEntry}
        BY <2>1 DEF TypeOK
    <2>3. \E label \in Labels : Goto(h, label)
        BY <1>7 DEF ReadTarget, Labels
    <2>4. pc' \in [Handlers -> Labels]
        BY <2>3, GotoIsTyped
    <2> QED
        BY <1>7, <2>2, <2>4 DEF TypeOK, ReadTarget
<1>8. ASSUME NEW h \in Handlers, ReadRaw(h)
      PROVE  TypeOK'
    <2>1. pc' \in [Handlers -> Labels]
        BY <1>8, GotoIsTyped DEF ReadRaw, Labels
    <2> QED
        BY <1>8, <2>1 DEF TypeOK, ReadRaw
<1>9. ASSUME NEW h \in Handlers, UndoLedgerMiss(h)
      PROVE  TypeOK'
    <2>1. seen[h].rev \in Nat /\ 0 \in Nat
        BY NumbersAreTyped
    <2>2. \/ Answer(h, "BUSINESS_CONFIRMATION_REQUIRED", seen[h].rev, 0)
          \/ Goto(h, "readLater") /\ UNCHANGED response
        BY <1>9 DEF UndoLedgerMiss
    <2>3. /\ pc' \in [Handlers -> Labels]
          /\ \/ response' \in [Handlers -> [outcome : Outcomes, rev : Nat, receipt : Nat]]
             \/ UNCHANGED response
        BY <2>1, <2>2, AnswerIsTyped, GotoIsTyped DEF Labels, Outcomes
    <2> QED
        BY <1>9, <2>3, AnswerOnlyIsTyped DEF UndoLedgerMiss
<1>10. ASSUME NEW h \in Handlers, ReadDependents(h)
       PROVE  TypeOK'
    <2>1. seen[h].rev \in Nat /\ 0 \in Nat
        BY NumbersAreTyped
    <2>2. \/ \E o \in Outcomes : Answer(h, o, seen[h].rev, 0)
          \/ Goto(h, "commit") /\ UNCHANGED response
        BY <1>10 DEF ReadDependents, Outcomes
    <2>3. /\ pc' \in [Handlers -> Labels]
          /\ \/ response' \in [Handlers -> [outcome : Outcomes, rev : Nat, receipt : Nat]]
             \/ UNCHANGED response
        BY <2>1, <2>2, AnswerIsTyped, GotoIsTyped DEF Labels
    <2> QED
        BY <1>10, <2>3, AnswerOnlyIsTyped DEF ReadDependents
<1>11. ASSUME NEW h \in Handlers, CommitApplies(h)
       PROVE  TypeOK'
    <2> DEFINE e == NewEntry(h)
    <2>1. e \in EntryType
        BY <1>11, NewEntryFacts DEF CommitApplies
    <2>2. e.rev \in Nat /\ 0 \in Nat /\ e.after \in Data
        BY <2>1 DEF EntryType
    <2>3. /\ \E m \in {workspace.materialized, e.rev} :
                workspace' = [rev |-> e.rev, materialized |-> m, data |-> e.after]
          /\ ledger' = [ledger EXCEPT ![request[h].id] = e]
          /\ UNCHANGED <<request, attempt, seen, target>>
        BY <1>11 DEF CommitApplies, WriteSnapshot
    <2>4. \/ Answer(h, "COMMITTED", e.rev, e.rev)
          \/ Answer(h, "UNAVAILABLE", 0, 0)
        BY <1>11 DEF CommitApplies
    <2> HIDE DEF e
    <2>5. /\ pc' \in [Handlers -> Labels]
          /\ response' \in [Handlers -> [outcome : Outcomes, rev : Nat, receipt : Nat]]
        BY <2>2, <2>4, AnswerIsTyped DEF Outcomes
    <2>6. /\ workspace' \in WorkspaceType
          /\ ledger' \in [CommandIds -> EntryType \cup {NoEntry}]
      <3>1. workspace.materialized \in Nat
        BY DEF TypeOK, WorkspaceType
      <3>2. workspace' \in WorkspaceType
        BY <2>2, <2>3, <3>1 DEF WorkspaceType
      <3> QED
        BY <2>1, <2>3, <3>2 DEF TypeOK
    <2> QED
        BY <2>3, <2>5, <2>6 DEF TypeOK
<1>12. ASSUME NEW h \in Handlers, CommitFindsReceipt(h)
       PROVE  TypeOK'
    <2> DEFINE e == ledger[request[h].id]
    <2>1. workspace.rev \in Nat /\ e.rev \in Nat /\ 0 \in Nat
        BY <1>12, NumbersAreTyped DEF CommitFindsReceipt
    <2>2. \/ Answer(h, "COMMAND_ID_REUSED", workspace.rev, 0)
          \/ Answer(h, "ALREADY_APPLIED", workspace.rev, e.rev)
          \/ Goto(h, "readBack") /\ UNCHANGED response
        BY <1>12 DEF CommitFindsReceipt
    <2>3. /\ pc' \in [Handlers -> Labels]
          /\ \/ response' \in [Handlers -> [outcome : Outcomes, rev : Nat, receipt : Nat]]
             \/ UNCHANGED response
        BY <2>1, <2>2, AnswerIsTyped, GotoIsTyped DEF Labels, Outcomes
    <2> QED
        BY <1>12, <2>3, AnswerOnlyIsTyped DEF CommitFindsReceipt
<1>13. ASSUME NEW h \in Handlers, ReadBack(h)
       PROVE  TypeOK'
    <2>1. workspace.rev \in Nat /\ ledger[request[h].id].rev \in Nat
        BY <1>13, NumbersAreTyped DEF ReadBack, ReadBackIsBacked
    <2>2. "ALREADY_APPLIED" \in Outcomes
        BY DEF Outcomes
    <2> QED
        BY <1>13, <2>1, <2>2, AnswerIsTyped, AnswerOnlyIsTyped DEF ReadBack
<1>14. ASSUME NEW h \in Handlers, CommitConflicts(h)
       PROVE  TypeOK'
    <2>1. workspace.rev \in Nat /\ 0 \in Nat /\ attempt[h] \in 0 .. MaxAttempts
          /\ MaxAttempts \in Nat
          /\ attempt[h] < MaxAttempts
        BY <1>14, NumbersAreTyped, ConstantsAssumption
        DEF TypeOK, AttemptsRemain, CommitConflicts
    <2>2. \/ \E o \in Outcomes : Answer(h, o, workspace.rev, 0)
          \/ Goto(h, "readWorkspace") /\ UNCHANGED response
        BY <1>14 DEF CommitConflicts, Outcomes
    <2>3. /\ pc' \in [Handlers -> Labels]
          /\ \/ response' \in [Handlers -> [outcome : Outcomes, rev : Nat, receipt : Nat]]
             \/ UNCHANGED response
        BY <2>1, <2>2, AnswerIsTyped, GotoIsTyped DEF Labels
    <2>4. attempt' \in [Handlers -> 0 .. MaxAttempts]
        BY <1>14, <2>1 DEF TypeOK, CommitConflicts
    <2> QED
        BY <1>14, <2>3, <2>4 DEF TypeOK, CommitConflicts
<1>15. ASSUME NEW h \in Handlers, Abandon(h)
       PROVE  TypeOK'
    <2>1. 0 \in Nat /\ "UNAVAILABLE" \in Outcomes
        BY DEF Outcomes
    <2> QED
        BY <1>15, <2>1, AnswerIsTyped, AnswerOnlyIsTyped DEF Abandon
<1>16. CASE Drain
    BY <1>16 DEF Drain, TypeOK, WorkspaceType
<1>17. CASE UNCHANGED vars
    BY <1>17 DEF TypeOK, vars
<1> QED
    BY <1>1, <1>2, <1>3, <1>4, <1>5, <1>6, <1>7, <1>8, <1>9, <1>10, <1>11,
       <1>12, <1>13, <1>14, <1>15, <1>16, <1>17 DEF Next, Progress

-----------------------------------------------------------------------------
(* The commit *)

\* What CommitApplies does to the row and the ledger.
LEMMA CommitFacts ==
    ASSUME TypeOK, NEW h \in Handlers, HandlerOK(h), RevisionsAreEvident,
           CommitApplies(h)
    PROVE  /\ request[h].id \in CommandIds /\ request[h].id \notin Committed
           /\ Committed' = Committed \cup {request[h].id}
           /\ \A c \in Committed :
                /\ ledger'[c] = ledger[c]
                /\ ledger[c] \in EntryType
                /\ ledger[c].rev \in 1 .. workspace.rev
           /\ ledger'[request[h].id] = NewEntry(h)
           /\ NewEntry(h) \in EntryType
           /\ workspace.rev \in Nat
           /\ workspace'.rev = workspace.rev + 1
           /\ workspace'.materialized
                \in IF IsEmptyPoll(NewEntry(h)) THEN {workspace.materialized, workspace'.rev}
                   ELSE {workspace'.rev}
           /\ workspace'.data = NewEntry(h).after
           /\ NewEntry(h).rev = workspace.rev + 1
           /\ NewEntry(h).before = workspace.data
           /\ seen[h].rev = workspace.rev
<1> DEFINE id == request[h].id
           e == NewEntry(h)
<1>1. id \in CommandIds /\ id \notin Committed
    BY NumbersAreTyped DEF CommitApplies, Committed
<1>2. TargetIsRead(h) /\ pc[h] = "commit" /\ seen[h].rev = workspace.rev
      /\ seen[h].data = workspace.data
    BY DEF HandlerOK, CommitApplies, SeenIsPast
<1>3. /\ e \in EntryType
      /\ e.rev = workspace.rev + 1
      /\ e.before = workspace.data
    BY <1>2, NewEntryFacts
<1>4. /\ \E m \in IF IsEmptyPoll(e) THEN {workspace.materialized, e.rev} ELSE {e.rev} :
            workspace' = [rev |-> e.rev, materialized |-> m, data |-> e.after]
      /\ ledger' = [ledger EXCEPT ![id] = e]
    BY DEF CommitApplies, WriteSnapshot
<1> HIDE DEF e, id
<1>5. ledger \in [CommandIds -> EntryType \cup {NoEntry}] /\ NoEntry \notin EntryType
      /\ workspace.rev \in Nat
    BY ConstantsAssumption DEF TypeOK, WorkspaceType
<1>6. ledger'[id] = e /\ \A c \in CommandIds \ {id} : ledger'[c] = ledger[c]
    BY <1>1, <1>4, <1>5
<1>7. Committed' = Committed \cup {id}
    BY <1>1, <1>3, <1>5, <1>6 DEF Committed
<1>8. \A c \in Committed : /\ ledger'[c] = ledger[c]
                           /\ ledger[c] \in EntryType
                           /\ ledger[c].rev \in 1 .. workspace.rev
    BY <1>1, <1>5, <1>6 DEF Committed, RevisionsAreEvident
<1>9. /\ workspace'.rev = workspace.rev + 1 /\ workspace'.data = e.after
      /\ workspace'.materialized
            \in IF IsEmptyPoll(e) THEN {workspace.materialized, workspace'.rev}
               ELSE {workspace'.rev}
    BY <1>3, <1>4
<1> QED
    BY <1>1, <1>2, <1>3, <1>5, <1>6, <1>7, <1>8, <1>9 DEF e, id

\* The commit keeps the ledger's invariants.
LEMMA CommitKeepsLedgerInv ==
    ASSUME TypeOK, LedgerInv, NEW h \in Handlers, HandlerOK(h), CommitApplies(h)
    PROVE  LedgerInv'
<1> DEFINE id == request[h].id
           e == NewEntry(h)
           r == request[h]
<1> USE DEF LedgerInv
<1>1. /\ id \in CommandIds /\ id \notin Committed
      /\ Committed' = Committed \cup {id}
      /\ \A c \in Committed : /\ ledger'[c] = ledger[c]
                              /\ ledger[c] \in EntryType
                              /\ ledger[c].rev \in 1 .. workspace.rev
      /\ ledger'[id] = e
      /\ workspace.rev \in Nat /\ workspace.materialized \in Nat
      /\ workspace'.rev = workspace.rev + 1
      /\ workspace'.data = e.after
      /\ e.rev = workspace.rev + 1
      /\ e.before = workspace.data
      /\ seen[h].rev = workspace.rev
      /\ e \in EntryType
    BY CommitFacts DEF TypeOK, WorkspaceType
<1>0. workspace'.materialized
        \in IF IsEmptyPoll(e) THEN {workspace.materialized, workspace'.rev} ELSE {workspace'.rev}
    BY CommitFacts
<1>2. e.kind = r.kind /\ e.body = r.body /\ e.after = NextSnapshot(h)
      /\ (r.kind = "execute" => e.base = r.base)
    BY NewEntryFacts DEF HandlerOK, CommitApplies
<1>3. /\ r.kind # "undo" => r.body \in Payloads
      /\ r.kind = "undo" => r.body \in CommandIds
    BY RequestFacts DEF TypeOK
<1>4. pc[h] = "commit"
    BY DEF CommitApplies
<1>5. r.kind = "undo" =>
        /\ target[h] = ledger[r.body] /\ ledger[r.body] # NoEntry
        /\ r.body \in Committed
    BY <1>3, <1>4 DEF HandlerOK, TargetIsRead, Committed
<1>6. r.kind = "execute" =>
        \A d \in Committed : r.base < ledger[d].rev =>
            ~Opaque(ledger[d]) /\ Changed(ledger[d]) \cap Intent[r.body] = {}
    BY <1>1, <1>4 DEF HandlerOK, CommandIsCompatible
<1>7. r.kind = "undo" =>
        \A d \in Committed : ledger[r.body].rev < ledger[d].rev =>
            AffectedObjects(ledger[d]) \cap AffectedObjects(ledger[r.body]) = {}
    BY <1>1, <1>4, <1>5 DEF HandlerOK, UndoHasNoDependents
<1>8. r.kind # "undo" => e.after = Effect[e.body][e.before]
    BY <1>1, <1>2 DEF NextSnapshot, NewEntry
<1> HIDE DEF e, id, r
<1>9. RevisionsAreEvident'
  <2>1. /\ workspace'.materialized <= workspace'.rev
        /\ \A c \in Committed' : ledger'[c].rev \in 1 .. workspace'.rev
    BY <1>0, <1>1 DEF RevisionsAreEvident
  <2>2. \A c, d \in Committed' : ledger'[c].rev = ledger'[d].rev => c = d
    BY <1>1 DEF RevisionsAreEvident
  <2>3. ASSUME NEW v \in workspace'.materialized + 1 .. workspace'.rev
        PROVE  \E c \in Committed' : ledger'[c].rev = v /\ IsEmptyPoll(ledger'[c])
    <3>1. IsEmptyPoll(e) /\ workspace'.materialized = workspace.materialized
        BY <1>0, <1>1, <2>3
    <3>2. CASE v = workspace.rev + 1
        BY <1>1, <3>1, <3>2
    <3>3. CASE v \in workspace.materialized + 1 .. workspace.rev
        BY <1>1, <3>3 DEF RevisionsAreEvident
    <3> QED
        BY <1>1, <2>3, <3>1, <3>2, <3>3
  <2>4. ASSUME NEW v \in 1 .. workspace'.rev
        PROVE  \E c \in Committed' :
                \/ ledger'[c].rev = v
                \/ ledger'[c].rev = v - 1 /\ IsEmptyPoll(ledger'[c])
    <3>1. CASE v = workspace.rev + 1
        BY <1>1, <3>1
    <3>2. CASE v \in 1 .. workspace.rev
        BY <1>1, <3>2 DEF RevisionsAreEvident
    <3> QED
        BY <1>1, <2>4, <3>1, <3>2
  <2> QED
    BY <2>1, <2>2, <2>3, <2>4 DEF RevisionsAreEvident, IsEmptyPoll
<1>10. EntriesAreTheirEffect'
  <2> SUFFICES ASSUME NEW c \in Committed'
        PROVE  /\ ledger'[c].kind # "undo" =>
                    /\ ledger'[c].body \in Payloads
                    /\ ledger'[c].after = Effect[ledger'[c].body][ledger'[c].before]
               /\ ledger'[c].kind = "undo" =>
                    /\ ledger'[c].body \in CommandIds
                    /\ ledger'[ledger'[c].body] # NoEntry
                    /\ ledger'[ledger'[c].body].rev < ledger'[c].rev
    BY DEF EntriesAreTheirEffect
  <2>1. CASE c \in Committed
    BY <1>1, <2>1 DEF EntriesAreTheirEffect, Committed
  <2>2. CASE c = id
    BY <1>1, <1>2, <1>3, <1>5, <1>8, <2>2 DEF Committed
  <2> QED
    BY <1>1, <2>1, <2>2
<1>11. NoLostUpdate'
  <2>1. \A c \in Committed' :
            (\A d \in Committed' : ledger'[d].rev <= ledger'[c].rev)
            => ledger'[c].after = workspace'.data
    BY <1>1
  <2>2. ASSUME NEW c \in Committed', NEW d \in Committed', ledger'[c].rev < ledger'[d].rev,
               \A x \in Committed' :
                    ledger'[x].rev <= ledger'[c].rev \/ ledger'[x].rev >= ledger'[d].rev
        PROVE  ledger'[d].before = ledger'[c].after
    <3>1. c \in Committed
        BY <1>1, <2>2
    <3>2. CASE d \in Committed
        BY <1>1, <2>2, <3>1, <3>2 DEF NoLostUpdate
    <3>3. CASE d = id
      <4>1. \A x \in Committed : ledger[x].rev <= ledger[c].rev
        BY <1>1, <2>2, <3>1, <3>3
      <4> QED
        BY <1>1, <3>1, <3>3, <4>1 DEF NoLostUpdate
    <3> QED
        BY <1>1, <3>2, <3>3
  <2> QED
    BY <2>1, <2>2 DEF NoLostUpdate
<1>12. UntouchedStands'
  <2> SUFFICES ASSUME NEW c \in Committed', NEW x \in Cells,
                      \A d \in Committed' :
                        ledger'[d].rev > ledger'[c].rev => x \notin Changed(ledger'[d])
               PROVE  workspace'.data[x] = ledger'[c].after[x]
    BY DEF UntouchedStands, Changed
  <2>1. CASE c \in Committed
    <3>1. workspace.data[x] = ledger[c].after[x]
        BY <1>1, <2>1 DEF UntouchedStands
    <3>2. x \notin Changed(e)
        BY <1>1, <2>1
    <3> QED
        BY <1>1, <2>1, <3>1, <3>2 DEF Changed
  <2>2. CASE c = id
    BY <1>1, <2>2
  <2> QED
    BY <1>1, <2>1, <2>2
<1>13. NoSilentOverwrite'
  <2> SUFFICES ASSUME NEW c \in Committed', NEW d \in Committed',
                      ledger'[c].kind = "execute",
                      ledger'[c].base < ledger'[d].rev,
                      ledger'[d].rev < ledger'[c].rev
               PROVE  /\ ~Opaque(ledger'[d])
                      /\ Changed(ledger'[d]) \cap Intent[ledger'[c].body] = {}
    BY DEF NoSilentOverwrite, Opaque, Changed
  <2>1. d \in Committed
    BY <1>1
  <2>2. CASE c \in Committed
    BY <1>1, <2>1, <2>2 DEF NoSilentOverwrite
  <2>3. CASE c = id
    BY <1>1, <1>2, <1>6, <2>1, <2>3
  <2> QED
    BY <1>1, <2>2, <2>3
<1>14. UndoMeetsItsTarget'
  <2> SUFFICES ASSUME NEW u \in Committed', ledger'[u].kind = "undo"
               PROVE  LET undo == ledger'[u]
                          t == ledger'[undo.body]
                      IN  /\ t # NoEntry
                          /\ t.rev < undo.rev
                          /\ \A c \in Cells :
                                ObjectOf[c] \in AffectedObjects(t) => undo.before[c] = t.after[c]
    BY DEF UndoMeetsItsTarget, AffectedObjects, ObjectsOf, Changed
  <2>1. CASE u \in Committed
    <3>1. ledger[u].body \in Committed
        BY <1>1, <2>1 DEF EntriesAreTheirEffect, Committed
    <3> QED
        BY <1>1, <2>1, <3>1 DEF UndoMeetsItsTarget
  <2>2. CASE u = id
    <3> DEFINE t == ledger[r.body]
    <3>1. /\ r.kind = "undo" /\ r.body \in Committed
          /\ ledger'[u] = e /\ e.body = r.body /\ ledger'[e.body] = t
          /\ t # NoEntry /\ t.rev < e.rev
        BY <1>1, <1>2, <1>5, <2>2
    <3>2. ASSUME NEW c \in Cells, ObjectOf[c] \in AffectedObjects(t)
          PROVE  e.before[c] = t.after[c]
      <4>1. \A d \in Committed : ledger[d].rev > t.rev => c \notin Changed(ledger[d])
        <5> SUFFICES ASSUME NEW d \in Committed, ledger[d].rev > t.rev, c \in Changed(ledger[d])
                     PROVE  FALSE
            OBVIOUS
        <5>1. ObjectOf[c] \in AffectedObjects(ledger[d])
            BY DEF AffectedObjects, ObjectsOf
        <5>2. t.rev < ledger[d].rev
            BY <1>1, <3>1
        <5> QED
            BY <1>7, <3>1, <3>2, <5>1, <5>2
      <4> QED
        BY <1>1, <3>1, <4>1 DEF UntouchedStands
    <3> HIDE DEF t
    <3> QED
        BY <3>1, <3>2
  <2> QED
    BY <1>1, <2>1, <2>2
<1>15. UndoneOnce'
  <2> SUFFICES ASSUME NEW u \in Committed', NEW v \in Committed',
                      ledger'[u].kind = "undo", ledger'[v].kind = "undo",
                      ledger'[u].body = ledger'[v].body, ledger'[u].rev < ledger'[v].rev
               PROVE  AffectedObjects(ledger'[u])
                        \cap AffectedObjects(ledger'[ledger'[u].body]) = {}
    BY DEF UndoneOnce, AffectedObjects, ObjectsOf, Changed
  <2>1. u \in Committed /\ ledger[u].body \in Committed /\ ledger[ledger[u].body].rev < ledger[u].rev
    BY <1>1 DEF EntriesAreTheirEffect, Committed
  <2>2. CASE v \in Committed
    BY <1>1, <2>1, <2>2 DEF UndoneOnce
  <2>3. CASE v = id
    BY <1>1, <1>2, <1>7, <2>1, <2>3
  <2> QED
    BY <1>1, <2>2, <2>3
<1> QED
    BY <1>9, <1>10, <1>11, <1>12, <1>13, <1>14, <1>15

-----------------------------------------------------------------------------
(* The handlers *)

\* The step of one handler is not seen by another.
Idles(k) ==
    /\ pc'[k] = pc[k]
    /\ request'[k] = request[k]
    /\ attempt'[k] = attempt[k]
    /\ seen'[k] = seen[k]
    /\ target'[k] = target[k]
    /\ response'[k] = response[k]

\* A handler that takes no step stays correct when nothing is committed.
LEMMA IdleHandler ==
    ASSUME NEW k \in Handlers, HandlerOK(k), Idles(k), UNCHANGED row
    PROVE  HandlerOK(k)'
<1> USE DEF Idles, row
<1>1. SeenIsPast(k)' /\ AttemptsRemain(k)' /\ TargetIsRead(k)'
    BY DEF HandlerOK, SeenIsPast, AttemptsRemain, TargetIsRead
<1>2. CommandIsCompatible(k)'
    BY DEF HandlerOK, CommandIsCompatible, Committed, Opaque, Changed
<1>3. UndoHasNoDependents(k)'
    BY DEF HandlerOK, UndoHasNoDependents, Committed, Opaque, AffectedObjects, ObjectsOf, Changed
<1>4. ReadBackIsBacked(k)' /\ AnswerIsBacked(k)'
    BY DEF HandlerOK, ReadBackIsBacked, AnswerIsBacked, SameHash
<1> QED
    BY <1>1, <1>2, <1>3, <1>4 DEF HandlerOK

\* Nor does another handler's commit disturb it: the new row is later than
\* everything it has read.
LEMMA CommitKeepsOthers ==
    ASSUME TypeOK, RevisionsAreEvident, NEW h \in Handlers, HandlerOK(h), CommitApplies(h),
           NEW k \in Handlers, HandlerOK(k), Idles(k)
    PROVE  /\ SeenIsPast(k)' /\ AttemptsRemain(k)' /\ TargetIsRead(k)'
           /\ CommandIsCompatible(k)' /\ UndoHasNoDependents(k)'
           /\ ReadBackIsBacked(k)' /\ AnswerIsBacked(k)'
<1> DEFINE id == request[h].id
           e == NewEntry(h)
<1>1. /\ id \notin Committed
      /\ Committed' = Committed \cup {id}
      /\ \A c \in Committed : ledger'[c] = ledger[c]
      /\ ledger'[id] = e
      /\ workspace.rev \in Nat
      /\ workspace'.rev = workspace.rev + 1
      /\ e.rev = workspace.rev + 1
    BY CommitFacts
<1>2. seen[k].rev \in Nat /\ seen[k].rev <= workspace.rev
    BY NumbersAreTyped DEF HandlerOK, SeenIsPast
<1>3. /\ request[k].id \in CommandIds
      /\ request[k].kind = "undo" => request[k].body \in CommandIds
    BY RequestFacts DEF TypeOK
<1> HIDE DEF e, id
<1>4. SeenIsPast(k)' /\ AttemptsRemain(k)'
    BY <1>1, <1>2 DEF HandlerOK, SeenIsPast, AttemptsRemain, Idles
<1>5. TargetIsRead(k)'
  <2> SUFFICES ASSUME request[k].kind = "undo", target[k] # NoEntry
               PROVE  target[k] = ledger'[request[k].body]
    BY DEF HandlerOK, TargetIsRead, Idles
  <2>1. target[k] = ledger[request[k].body] /\ request[k].body \in Committed
    BY <1>3 DEF HandlerOK, TargetIsRead, Committed
  <2> QED
    BY <1>1, <2>1
<1>6. CommandIsCompatible(k)'
  <2> SUFFICES ASSUME pc[k] = "commit", request[k].kind = "execute", NEW d \in Committed',
                      request[k].base < ledger'[d].rev, ledger'[d].rev <= seen[k].rev
               PROVE  /\ ~Opaque(ledger'[d])
                      /\ Changed(ledger'[d]) \cap Intent[request[k].body] = {}
    BY DEF CommandIsCompatible, Idles, Opaque, Changed
  <2>1. d \in Committed
    BY <1>1, <1>2
  <2> QED
    BY <1>1, <2>1 DEF HandlerOK, CommandIsCompatible
<1>7. UndoHasNoDependents(k)'
  <2> SUFFICES ASSUME pc[k] = "commit", request[k].kind = "undo", NEW d \in Committed',
                      target[k].rev < ledger'[d].rev, ledger'[d].rev <= seen[k].rev
               PROVE  /\ ~Opaque(ledger'[d])
                      /\ AffectedObjects(ledger'[d]) \cap AffectedObjects(target[k]) = {}
    BY DEF UndoHasNoDependents, Idles, Opaque, AffectedObjects, ObjectsOf, Changed
  <2>1. d \in Committed
    BY <1>1, <1>2
  <2> QED
    BY <1>1, <2>1 DEF HandlerOK, UndoHasNoDependents
<1>8. ReadBackIsBacked(k)'
    BY <1>1, <1>3 DEF HandlerOK, ReadBackIsBacked, Idles, Committed, SameHash
<1>9. AnswerIsBacked(k)'
    BY <1>1, <1>3 DEF HandlerOK, AnswerIsBacked, Idles, Committed, SameHash
<1> QED
    BY <1>4, <1>5, <1>6, <1>7, <1>8, <1>9

\* Other handlers idle while one moves on or answers.
LEMMA OthersIdle ==
    ASSUME TypeOK, NEW h \in Handlers, NEW k \in Handlers \ {h},
           UNCHANGED <<request, attempt, seen, target>>,
           \/ \E label \in Labels : Goto(h, label) /\ UNCHANGED response
           \/ \E o \in Outcomes : \E rev, receipt \in Nat : Answer(h, o, rev, receipt)
    PROVE  Idles(k)
BY DEF Idles, Goto, Answer, TypeOK

\* A handler that answers keeps what it read, and owes nothing more than the
\* receipt it named.
LEMMA AnswerIsOK ==
    ASSUME TypeOK, NEW h \in Handlers, HandlerOK(h),
           UNCHANGED <<workspace, ledger, request, attempt, seen, target>>,
           NEW o \in Outcomes, NEW rev \in Nat, NEW receipt \in Nat,
           Answer(h, o, rev, receipt),
           receipt # 0 =>
                /\ o # "COMMITTED"
                /\ ledger[request[h].id] # NoEntry
                /\ SameHash(ledger[request[h].id], request[h])
                /\ receipt = ledger[request[h].id].rev
    PROVE  HandlerOK(h)'
<1>1. /\ pc'[h] = "idle"
      /\ response'[h] = [outcome |-> o, rev |-> rev, receipt |-> receipt]
    BY DEF Answer, Goto, TypeOK
<1>2. /\ SeenIsPast(h)' /\ AttemptsRemain(h)' /\ TargetIsRead(h)'
      /\ CommandIsCompatible(h)' /\ UndoHasNoDependents(h)' /\ ReadBackIsBacked(h)'
    BY <1>1 DEF HandlerOK, SeenIsPast, AttemptsRemain, TargetIsRead,
            CommandIsCompatible, UndoHasNoDependents, ReadBackIsBacked
<1>3. AnswerIsBacked(h)'
    BY <1>1 DEF AnswerIsBacked, SameHash
<1> QED
    BY <1>2, <1>3 DEF HandlerOK

\* A handler that moves on keeps what it read; what it must have checked by
\* then is left to each step.
LEMMA GotoIsOK ==
    ASSUME TypeOK, NEW h \in Handlers, HandlerOK(h), pc[h] # "idle",
           UNCHANGED <<workspace, ledger, request, attempt, seen, target, response>>,
           NEW label \in Labels, Goto(h, label),
           label = "commit" /\ request[h].kind = "execute" =>
                \A d \in Committed :
                    request[h].base < ledger[d].rev /\ ledger[d].rev <= seen[h].rev =>
                        /\ ~Opaque(ledger[d])
                        /\ Changed(ledger[d]) \cap Intent[request[h].body] = {},
           label = "commit" /\ request[h].kind = "undo" =>
                \A d \in Committed :
                    target[h].rev < ledger[d].rev /\ ledger[d].rev <= seen[h].rev =>
                        /\ ~Opaque(ledger[d])
                        /\ AffectedObjects(ledger[d]) \cap AffectedObjects(target[h]) = {},
           label \in {"readLater", "commit"} /\ request[h].kind = "undo" =>
                target[h] # NoEntry /\ HasCompensation(target[h]),
           label = "readBack" =>
                /\ ledger[request[h].id] # NoEntry
                /\ SameHash(ledger[request[h].id], request[h])
    PROVE  HandlerOK(h)'
<1>1. pc'[h] = label
    BY DEF Goto, TypeOK
<1>2. /\ SeenIsPast(h)' /\ AttemptsRemain(h)' /\ TargetIsRead(h)'
    BY <1>1 DEF HandlerOK, SeenIsPast, AttemptsRemain, TargetIsRead
<1>3. CommandIsCompatible(h)'
    BY <1>1 DEF CommandIsCompatible, Committed, Opaque, Changed
<1>4. UndoHasNoDependents(h)'
    BY <1>1 DEF UndoHasNoDependents, Committed, Opaque, AffectedObjects, ObjectsOf, Changed
<1>5. ReadBackIsBacked(h)' /\ AnswerIsBacked(h)'
    BY <1>1 DEF HandlerOK, ReadBackIsBacked, AnswerIsBacked, SameHash
<1> QED
    BY <1>2, <1>3, <1>4, <1>5 DEF HandlerOK

\* Evaluate answers, or goes on to commit a compatible command.
LEMMA EvaluateIsOK ==
    ASSUME TypeOK, NEW h \in Handlers, HandlerOK(h), pc[h] # "idle",
           UNCHANGED <<workspace, ledger, request, attempt, seen, target>>,
           Evaluate(h), request[h].kind = "execute",
           \A d \in Committed :
                request[h].base < ledger[d].rev /\ ledger[d].rev <= seen[h].rev =>
                    /\ ~Opaque(ledger[d])
                    /\ Changed(ledger[d]) \cap Intent[request[h].body] = {}
    PROVE  HandlerOK(h)' /\ \A k \in Handlers \ {h} : Idles(k)
<1>1. seen[h].rev \in Nat /\ 0 \in Nat
    BY NumbersAreTyped
<1>2. CASE \E o \in Outcomes : Answer(h, o, seen[h].rev, 0)
    BY <1>1, <1>2, AnswerIsOK, OthersIdle
<1>3. CASE Goto(h, "commit") /\ UNCHANGED response
  <2>1. "commit" \in Labels
    BY DEF Labels
  <2> QED
    BY <1>3, <2>1, GotoIsOK, OthersIdle
<1> QED
    BY <1>2, <1>3 DEF Evaluate, Outcomes

\* Every step of a handler keeps it correct and leaves the others alone.
LEMMA HandlerStep ==
    ASSUME TypeOK, LedgerInv, NEW h \in Handlers, HandlerOK(h),
           \/ \E r \in Requests : Receive(h, r)
           \/ Progress(h)
           \/ Abandon(h)
    PROVE  HandlerOK(h)' /\ \A k \in Handlers \ {h} : Idles(k)
<1> DEFINE Done == HandlerOK(h)' /\ \A k \in Handlers \ {h} : Idles(k)
<1>0. /\ seen[h].rev \in Nat /\ workspace.rev \in Nat /\ 0 \in Nat
      /\ request[h].id \in CommandIds /\ request[h].kind \in Kinds
      /\ ledger[request[h].id] # NoEntry => ledger[request[h].id].rev \in Nat
      /\ request[h].kind # "undo" => request[h].body \in Payloads
    BY NumbersAreTyped, RequestFacts DEF TypeOK
<1>1. ASSUME NEW r \in Requests, Receive(h, r)
      PROVE  Done
    <2>1. /\ pc'[h] = "readWorkspace" /\ attempt'[h] = 0 /\ target'[h] = NoEntry
          /\ response'[h] = NoResponse /\ seen'[h] = seen[h]
          /\ UNCHANGED <<workspace, ledger>>
        BY <1>1 DEF Receive, Goto, TypeOK
    <2>2. HandlerOK(h)'
        BY <2>1, ConstantsAssumption
        DEF HandlerOK, SeenIsPast, AttemptsRemain, TargetIsRead, CommandIsCompatible,
            UndoHasNoDependents, ReadBackIsBacked, AnswerIsBacked, NoResponse
    <2>3. \A k \in Handlers \ {h} : Idles(k)
        BY <1>1 DEF Receive, Goto, Idles, TypeOK
    <2> QED
        BY <2>2, <2>3
<1>2. ASSUME ReadWorkspace(h)
      PROVE  Done
    <2>1. /\ seen'[h] = workspace /\ pc[h] # "idle"
          /\ UNCHANGED <<workspace, ledger, request, attempt, target, response>>
          /\ \E label \in {"readLedger", "readTarget", "commit"} : Goto(h, label)
        BY <1>0, <1>2 DEF ReadWorkspace, TypeOK, Kinds
    <2>2. /\ pc'[h] \in {"readLedger", "readTarget", "commit"}
          /\ \A k \in Handlers \ {h} : pc'[k] = pc[k]
        BY <2>1 DEF Goto, TypeOK
    <2>3. request[h].kind = "execute" => Goto(h, "readLedger")
        BY <1>2 DEF ReadWorkspace
    <2>4. request[h].kind = "undo" => Goto(h, "readTarget")
        BY <1>2 DEF ReadWorkspace
    <2>5. request[h].kind \in {"execute", "undo"} => pc'[h] # "commit"
        BY <2>3, <2>4 DEF Goto, TypeOK
    <2>6. HandlerOK(h)'
        BY <1>0, <2>1, <2>2, <2>5
        DEF HandlerOK, SeenIsPast, AttemptsRemain, TargetIsRead, CommandIsCompatible,
            UndoHasNoDependents, ReadBackIsBacked, AnswerIsBacked, SameHash
    <2>7. \A k \in Handlers \ {h} : Idles(k)
        BY <1>2, <2>2 DEF ReadWorkspace, Idles, TypeOK
    <2> QED
        BY <2>6, <2>7
<1>3. ASSUME ReadLedgerHit(h)
      PROVE  Done
    <2> DEFINE e == ledger[request[h].id]
    <2>1. /\ e # NoEntry
          /\ \/ SameHash(e, request[h]) /\ Answer(h, "ALREADY_APPLIED", seen[h].rev, e.rev)
             \/ Answer(h, "COMMAND_ID_REUSED", seen[h].rev, 0)
          /\ UNCHANGED <<workspace, ledger, request, attempt, seen, target>>
        BY <1>3 DEF ReadLedgerHit, AnswerFromLedger
    <2>2. {"ALREADY_APPLIED", "COMMAND_ID_REUSED"} \subseteq Outcomes
        BY DEF Outcomes
    <2> QED
        BY <1>0, <2>1, <2>2, AnswerIsOK, OthersIdle
<1>4. ASSUME ReadLedgerMiss(h)
      PROVE  Done
    <2>1. /\ pc[h] # "idle" /\ request[h].kind = "execute"
          /\ UNCHANGED <<workspace, ledger, request, attempt, seen, target>>
        BY <1>4 DEF ReadLedgerMiss
    <2>2. CASE \E o \in Outcomes : Answer(h, o, seen[h].rev, 0)
        BY <1>0, <2>1, <2>2, AnswerIsOK, OthersIdle
    <2>3. CASE Goto(h, "readLater") /\ UNCHANGED response
      <3>1. "readLater" \in Labels
        BY DEF Labels
      <3> QED
        BY <2>1, <2>3, <3>1, GotoIsOK, OthersIdle
    <2>4. CASE request[h].base = seen[h].rev /\ Evaluate(h)
      <3>1. \A d \in Committed : ledger[d].rev \in Nat
        BY DEF LedgerInv, RevisionsAreEvident
      <3> QED
        BY <1>0, <2>1, <2>4, <3>1, EvaluateIsOK
    <2> QED
        BY <1>4, <2>2, <2>3, <2>4 DEF ReadLedgerMiss, Outcomes
<1>5. ASSUME KernelConflict(h)
      PROVE  Done
    <2>1. "CONFLICT" \in Outcomes
        BY DEF Outcomes
    <2> QED
        BY <1>0, <1>5, <2>1, AnswerIsOK, OthersIdle DEF KernelConflict
<1>6. ASSUME ReadIntervening(h)
      PROVE  Done
    <2>1. /\ pc[h] # "idle" /\ request[h].kind = "execute"
          /\ UNCHANGED <<workspace, ledger, request, attempt, seen, target>>
        BY <1>6 DEF ReadIntervening
    <2>2. CASE \E o \in Outcomes : Answer(h, o, seen[h].rev, 0)
        BY <1>0, <2>1, <2>2, AnswerIsOK, OthersIdle
    <2>3. CASE /\ \A e \in {ledger[c] : c \in After(request[h].base)} :
                    ~Opaque(e) /\ Incompatible(Intent[request[h].body], e) = {}
               /\ Evaluate(h)
      <3>1. ASSUME NEW d \in Committed, request[h].base < ledger[d].rev
            PROVE  /\ ~Opaque(ledger[d])
                   /\ Changed(ledger[d]) \cap Intent[request[h].body] = {}
        <4>1. ledger[d].rev > request[h].base
            BY <3>1, RequestFacts DEF TypeOK, LedgerInv, RevisionsAreEvident
        <4>2. /\ ~Opaque(ledger[d])
              /\ Incompatible(Intent[request[h].body], ledger[d]) = {}
            BY <2>3, <4>1 DEF After
        <4>3. /\ ledger[d] \in EntryType
              /\ ledger[d].kind = "execute" =>
                    /\ ledger[d].body \in Payloads
                    /\ ledger[d].after = Effect[ledger[d].body][ledger[d].before]
            BY DEF TypeOK, LedgerInv, EntriesAreTheirEffect, Committed
        <4>4. request[h].body \in Payloads
            BY <1>0, <2>1
        <4> QED
            BY <4>2, <4>3, <4>4, CompatibleChangesNothingMeant
      <3> QED
        BY <2>1, <2>3, <3>1, EvaluateIsOK
    <2> QED
        BY <1>6, <2>2, <2>3 DEF ReadIntervening, Outcomes
<1>7. ASSUME ReadTarget(h)
      PROVE  Done
    <2>1. /\ target'[h] = ledger[request[h].body] /\ pc[h] # "idle"
          /\ UNCHANGED <<workspace, ledger, request, attempt, seen, response>>
          /\ \E label \in {"readRaw", "readLedger"} : Goto(h, label)
        BY <1>7 DEF ReadTarget, TypeOK
    <2>2. /\ pc'[h] \in {"readRaw", "readLedger"}
          /\ \A k \in Handlers \ {h} : pc'[k] = pc[k]
        BY <2>1 DEF Goto, TypeOK
    <2>3. HandlerOK(h)'
        BY <2>1, <2>2
        DEF HandlerOK, SeenIsPast, AttemptsRemain, TargetIsRead, CommandIsCompatible,
            UndoHasNoDependents, ReadBackIsBacked, AnswerIsBacked, SameHash
    <2>4. \A k \in Handlers \ {h} : Idles(k)
        BY <1>7, <2>2 DEF ReadTarget, Idles, TypeOK
    <2> QED
        BY <2>3, <2>4
<1>8. ASSUME ReadRaw(h)
      PROVE  Done
    <2>1. /\ seen'[h] = workspace /\ pc[h] # "idle" /\ pc'[h] = "readLedger"
          /\ UNCHANGED <<workspace, ledger, request, attempt, target, response>>
        BY <1>8 DEF ReadRaw, Goto, TypeOK
    <2>2. HandlerOK(h)'
        BY <1>0, <2>1
        DEF HandlerOK, SeenIsPast, AttemptsRemain, TargetIsRead, CommandIsCompatible,
            UndoHasNoDependents, ReadBackIsBacked, AnswerIsBacked, SameHash
    <2>3. \A k \in Handlers \ {h} : Idles(k)
        BY <1>8 DEF ReadRaw, Goto, Idles, TypeOK
    <2> QED
        BY <2>2, <2>3
<1>9. ASSUME UndoLedgerMiss(h)
      PROVE  Done
    <2>1. /\ pc[h] # "idle" /\ request[h].kind = "undo"
          /\ UNCHANGED <<workspace, ledger, request, attempt, seen, target>>
        BY <1>9 DEF UndoLedgerMiss
    <2>2. CASE Answer(h, "BUSINESS_CONFIRMATION_REQUIRED", seen[h].rev, 0)
      <3>1. "BUSINESS_CONFIRMATION_REQUIRED" \in Outcomes
        BY DEF Outcomes
      <3> QED
        BY <1>0, <2>1, <2>2, <3>1, AnswerIsOK, OthersIdle
    <2>3. CASE /\ target[h] # NoEntry /\ HasCompensation(target[h])
               /\ Goto(h, "readLater") /\ UNCHANGED response
      <3>1. "readLater" \in Labels
        BY DEF Labels
      <3> QED
        BY <2>1, <2>3, <3>1, GotoIsOK, OthersIdle
    <2> QED
        BY <1>9, <2>2, <2>3 DEF UndoLedgerMiss
<1>10. ASSUME ReadDependents(h)
       PROVE  Done
    <2> DEFINE t == target[h]
               later == {ledger[c] : c \in After(t.rev)}
               hidden == \E e \in later : Opaque(e)
               shared == \E e \in later : AffectedObjects(e) \cap AffectedObjects(t) # {}
    <2>1. /\ pc[h] = "readLater" /\ request[h].kind = "undo"
          /\ UNCHANGED <<workspace, ledger, request, attempt, seen, target>>
        BY <1>10 DEF ReadDependents
    <2>2. CASE \E o \in Outcomes : Answer(h, o, seen[h].rev, 0)
        BY <1>0, <2>1, <2>2, AnswerIsOK, OthersIdle
    <2>3. CASE ~hidden /\ ~shared /\ Goto(h, "commit") /\ UNCHANGED response
      <3>1. t # NoEntry /\ HasCompensation(t) /\ t \in EntryType
        BY <2>1 DEF HandlerOK, TargetIsRead, TypeOK
      <3>2. ASSUME NEW d \in Committed, t.rev < ledger[d].rev
            PROVE  ~Opaque(ledger[d]) /\ AffectedObjects(ledger[d]) \cap AffectedObjects(t) = {}
        <4>1. ledger[d].rev > t.rev
            BY <3>1, <3>2 DEF EntryType, LedgerInv, RevisionsAreEvident
        <4> QED
            BY <2>3, <4>1 DEF After
      <3>3. "commit" \in Labels
        BY DEF Labels
      <3> QED
        BY <2>1, <2>3, <3>1, <3>2, <3>3, GotoIsOK, OthersIdle
    <2> QED
        BY <1>10, <2>2, <2>3 DEF ReadDependents, Outcomes
<1>11. ASSUME CommitApplies(h)
       PROVE  Done
    <2> DEFINE id == request[h].id
               e == NewEntry(h)
    <2>1. /\ id \notin Committed
          /\ Committed' = Committed \cup {id}
          /\ \A c \in Committed : ledger'[c] = ledger[c]
          /\ ledger'[id] = e
          /\ e \in EntryType
          /\ workspace'.rev = workspace.rev + 1
          /\ e.rev = workspace.rev + 1
        BY <1>11, CommitFacts DEF LedgerInv
    <2>2. pc[h] = "commit" /\ UNCHANGED <<request, attempt, seen, target>>
        BY <1>11 DEF CommitApplies
    <2>3. e.kind = request[h].kind /\ e.body = request[h].body
        BY <2>2, NewEntryFacts DEF HandlerOK
    <2>4. \/ Answer(h, "COMMITTED", e.rev, e.rev)
          \/ Answer(h, "UNAVAILABLE", 0, 0)
        BY <1>11 DEF CommitApplies
    <2>5. e.rev \in Nat /\ {"COMMITTED", "UNAVAILABLE"} \subseteq Outcomes /\ e # NoEntry
        BY <2>1, ConstantsAssumption DEF EntryType, Outcomes
    <2>6. request[h].kind = "undo" =>
            target[h] = ledger[request[h].body] /\ request[h].body \in Committed
        BY <2>2, RequestFacts DEF HandlerOK, TargetIsRead, Committed, TypeOK
    <2> HIDE DEF e, id
    <2>7. /\ pc'[h] = "idle"
          /\ \/ response'[h] = [outcome |-> "COMMITTED", rev |-> e.rev, receipt |-> e.rev]
             \/ response'[h] = [outcome |-> "UNAVAILABLE", rev |-> 0, receipt |-> 0]
        BY <2>4 DEF Answer, Goto, TypeOK
    <2>8. /\ SeenIsPast(h)' /\ AttemptsRemain(h)' /\ CommandIsCompatible(h)'
          /\ UndoHasNoDependents(h)' /\ ReadBackIsBacked(h)'
        BY <1>0, <2>1, <2>2, <2>7
        DEF HandlerOK, SeenIsPast, AttemptsRemain, CommandIsCompatible,
            UndoHasNoDependents, ReadBackIsBacked
    <2>9. TargetIsRead(h)'
        BY <2>1, <2>2, <2>6, <2>7 DEF TargetIsRead
    <2>10. AnswerIsBacked(h)'
        BY <2>1, <2>2, <2>3, <2>5, <2>7 DEF AnswerIsBacked, SameHash, id
    <2>11. HandlerOK(h)'
        BY <2>8, <2>9, <2>10 DEF HandlerOK
    <2>12. \A k \in Handlers \ {h} : Idles(k)
        BY <1>0, <2>2, <2>4, <2>5, OthersIdle
    <2> QED
        BY <2>11, <2>12
<1>12. ASSUME CommitFindsReceipt(h)
       PROVE  Done
    <2> DEFINE e == ledger[request[h].id]
    <2>1. /\ pc[h] # "idle" /\ e # NoEntry
          /\ UNCHANGED <<workspace, ledger, request, attempt, seen, target>>
          /\ \/ Answer(h, "COMMAND_ID_REUSED", workspace.rev, 0)
             \/ SameHash(e, request[h]) /\ Answer(h, "ALREADY_APPLIED", workspace.rev, e.rev)
             \/ SameHash(e, request[h]) /\ Goto(h, "readBack") /\ UNCHANGED response
        BY <1>12 DEF CommitFindsReceipt
    <2>2. {"ALREADY_APPLIED", "COMMAND_ID_REUSED"} \subseteq Outcomes /\ "readBack" \in Labels
        BY DEF Outcomes, Labels
    <2> QED
        BY <1>0, <2>1, <2>2, AnswerIsOK, GotoIsOK, OthersIdle
<1>13. ASSUME ReadBack(h)
       PROVE  Done
    <2>1. /\ ledger[request[h].id] # NoEntry
          /\ SameHash(ledger[request[h].id], request[h])
        BY <1>13 DEF ReadBack, HandlerOK, ReadBackIsBacked
    <2>2. "ALREADY_APPLIED" \in Outcomes
        BY DEF Outcomes
    <2> QED
        BY <1>0, <1>13, <2>1, <2>2, AnswerIsOK, OthersIdle DEF ReadBack
<1>14. ASSUME CommitConflicts(h)
       PROVE  Done
    <2>1. /\ pc[h] = "commit"
          /\ UNCHANGED <<workspace, ledger, request, seen, target>>
        BY <1>14 DEF CommitConflicts
    <2>2. /\ attempt[h] \in Nat /\ MaxAttempts \in Nat
          /\ {"CONFLICT", "WORKSPACE_CONFLICT"} \subseteq Outcomes
        BY ConstantsAssumption, NumbersAreTyped DEF Outcomes
    <2>3. CASE \E o \in {"CONFLICT", "WORKSPACE_CONFLICT"} : Answer(h, o, workspace.rev, 0)
      <3>1. pc'[h] = "idle" /\ response'[h].receipt = 0
        BY <2>3 DEF Answer, Goto, TypeOK
      <3>2. HandlerOK(h)'
        BY <2>1, <3>1
        DEF HandlerOK, SeenIsPast, AttemptsRemain, TargetIsRead, CommandIsCompatible,
            UndoHasNoDependents, ReadBackIsBacked, AnswerIsBacked
      <3>3. \A k \in Handlers \ {h} : attempt'[k] = attempt[k]
        BY <1>14 DEF CommitConflicts, TypeOK
      <3>4. \A k \in Handlers \ {h} : Idles(k)
        BY <2>1, <2>3, <3>3 DEF Idles, Answer, Goto, TypeOK
      <3> QED
        BY <3>2, <3>4
    <2>4. CASE /\ attempt[h] + 1 < MaxAttempts
               /\ attempt' = [attempt EXCEPT ![h] = @ + 1]
               /\ Goto(h, "readWorkspace") /\ UNCHANGED response
      <3>1. pc'[h] = "readWorkspace" /\ attempt'[h] < MaxAttempts /\ response'[h] = response[h]
        BY <2>2, <2>4 DEF Goto, TypeOK
      <3>2. HandlerOK(h)'
        BY <2>1, <3>1
        DEF HandlerOK, SeenIsPast, AttemptsRemain, TargetIsRead, CommandIsCompatible,
            UndoHasNoDependents, ReadBackIsBacked, AnswerIsBacked, SameHash
      <3>3. \A k \in Handlers \ {h} : Idles(k)
        BY <2>1, <2>4 DEF Idles, Goto, TypeOK
      <3> QED
        BY <3>2, <3>3
    <2> QED
        BY <1>14, <2>3, <2>4 DEF CommitConflicts
<1>15. ASSUME Abandon(h)
       PROVE  Done
    <2>1. "UNAVAILABLE" \in Outcomes
        BY DEF Outcomes
    <2> QED
        BY <1>0, <1>15, <2>1, AnswerIsOK, OthersIdle DEF Abandon
<1> QED
    BY <1>1, <1>2, <1>3, <1>4, <1>5, <1>6, <1>7, <1>8, <1>9, <1>10, <1>11,
       <1>12, <1>13, <1>14, <1>15 DEF Progress

-----------------------------------------------------------------------------
(* The inductive invariant and what follows from it *)

\* At first the ledger is empty and nobody has read anything else.
LEMMA InitInv == Init => Inv
<1> SUFFICES ASSUME Init PROVE Inv
    OBVIOUS
<1>1. PICK d \in InitialData :
        /\ workspace = [rev |-> 0, materialized |-> 0, data |-> d]
        /\ seen = [h \in Handlers |-> workspace]
    BY DEF Init
<1>2. /\ ledger = [c \in CommandIds |-> NoEntry]
      /\ pc = [h \in Handlers |-> "idle"]
      /\ attempt = [h \in Handlers |-> 0]
      /\ target = [h \in Handlers |-> NoEntry]
      /\ response = [h \in Handlers |-> NoResponse]
    BY DEF Init
<1>3. request \in [Handlers -> Requests]
    BY ConstantsAssumption DEF Init
<1>4. TypeOK
  <2>1. d \in Data /\ 0 \in 0 .. MaxAttempts /\ "idle" \in Labels
        /\ NoResponse \in [outcome : Outcomes, rev : Nat, receipt : Nat]
    BY ConstantsAssumption DEF Labels, Outcomes, NoResponse
  <2> QED
    BY <1>1, <1>2, <1>3, <2>1 DEF TypeOK, WorkspaceType
<1>5. Committed = {}
    BY <1>2 DEF Committed
<1>6. LedgerInv
    BY <1>1, <1>5 DEF LedgerInv, RevisionsAreEvident, EntriesAreTheirEffect, NoLostUpdate,
        UntouchedStands, NoSilentOverwrite, UndoMeetsItsTarget, UndoneOnce
<1>7. HandlerInv
    BY <1>1, <1>2 DEF HandlerInv, HandlerOK, SeenIsPast, AttemptsRemain, TargetIsRead,
        CommandIsCompatible, UndoHasNoDependents, ReadBackIsBacked, AnswerIsBacked, NoResponse
<1> QED
    BY <1>4, <1>6, <1>7 DEF Inv

\* Nothing is committed by a step that leaves the row and the ledger alone.
LEMMA QuietKeepsLedgerInv ==
    ASSUME LedgerInv, UNCHANGED row
    PROVE  LedgerInv'
<1> USE DEF row, LedgerInv, Committed
<1>1. RevisionsAreEvident' /\ NoLostUpdate'
    BY DEF RevisionsAreEvident, IsEmptyPoll, NoLostUpdate
<1>2. EntriesAreTheirEffect' /\ UntouchedStands'
    BY DEF EntriesAreTheirEffect, UntouchedStands, Changed
<1>3. NoSilentOverwrite' /\ UndoMeetsItsTarget' /\ UndoneOnce'
    BY DEF NoSilentOverwrite, UndoMeetsItsTarget, UndoneOnce, Opaque, AffectedObjects,
        ObjectsOf, Changed
<1> QED
    BY <1>1, <1>2, <1>3

\* A drain adds a revision without a row: its fence follows the pending poll
\* it wrote into the snapshot, and no snapshot or row changes.
LEMMA DrainKeepsLedgerInv ==
    ASSUME TypeOK, LedgerInv, Drain
    PROVE  LedgerInv'
<1> USE DEF LedgerInv
<1>1. /\ workspace.rev \in Nat /\ workspace.materialized \in Nat
      /\ workspace.materialized # workspace.rev
      /\ workspace'.rev = workspace.rev + 1 /\ workspace'.materialized = workspace.rev + 1
      /\ workspace'.data = workspace.data /\ ledger' = ledger /\ Committed' = Committed
    BY DEF Drain, TypeOK, WorkspaceType, Committed
<1>2. \E c \in Committed : ledger[c].rev = workspace.rev /\ IsEmptyPoll(ledger[c])
  <2>1. workspace.rev \in workspace.materialized + 1 .. workspace.rev
    BY <1>1 DEF RevisionsAreEvident
  <2> QED
    BY <2>1 DEF RevisionsAreEvident
<1>3. RevisionsAreEvident'
  <2>1. \A v \in workspace'.materialized + 1 .. workspace'.rev : FALSE
    BY <1>1
  <2>2. /\ workspace'.materialized <= workspace'.rev
        /\ \A c \in Committed' : ledger'[c].rev \in 1 .. workspace'.rev
        /\ \A c, d \in Committed' : ledger'[c].rev = ledger'[d].rev => c = d
    BY <1>1 DEF RevisionsAreEvident
  <2>3. ASSUME NEW v \in 1 .. workspace'.rev
        PROVE  \E c \in Committed' :
                \/ ledger'[c].rev = v
                \/ ledger'[c].rev = v - 1 /\ IsEmptyPoll(ledger'[c])
    <3>1. CASE v = workspace.rev + 1
        BY <1>1, <1>2, <3>1
    <3>2. CASE v \in 1 .. workspace.rev
        BY <1>1, <3>2 DEF RevisionsAreEvident
    <3> QED
        BY <1>1, <2>3, <3>1, <3>2
  <2> QED
    BY <2>1, <2>2, <2>3 DEF RevisionsAreEvident, IsEmptyPoll
<1>4. EntriesAreTheirEffect' /\ UntouchedStands' /\ NoLostUpdate'
    BY <1>1 DEF EntriesAreTheirEffect, UntouchedStands, NoLostUpdate, Changed
<1>5. NoSilentOverwrite' /\ UndoMeetsItsTarget' /\ UndoneOnce'
    BY <1>1 DEF NoSilentOverwrite, UndoMeetsItsTarget, UndoneOnce, Opaque, AffectedObjects,
        ObjectsOf, Changed
<1> QED
    BY <1>3, <1>4, <1>5

\* What a handler read is older than a drain's fence.
LEMMA DrainKeepsHandler ==
    ASSUME TypeOK, NEW k \in Handlers, HandlerOK(k), Drain
    PROVE  HandlerOK(k)'
<1>1. /\ workspace.rev \in Nat /\ seen[k].rev \in Nat
      /\ workspace'.rev = workspace.rev + 1
      /\ UNCHANGED <<ledger, pc, request, attempt, seen, target, response>>
    BY DEF Drain, TypeOK, WorkspaceType
<1>2. SeenIsPast(k)' /\ AttemptsRemain(k)' /\ TargetIsRead(k)'
    BY <1>1 DEF HandlerOK, SeenIsPast, AttemptsRemain, TargetIsRead
<1>3. CommandIsCompatible(k)'
    BY <1>1 DEF HandlerOK, CommandIsCompatible, Committed, Opaque, Changed
<1>4. UndoHasNoDependents(k)'
    BY <1>1 DEF HandlerOK, UndoHasNoDependents, Committed, Opaque, AffectedObjects, ObjectsOf,
        Changed
<1>5. ReadBackIsBacked(k)' /\ AnswerIsBacked(k)'
    BY <1>1 DEF HandlerOK, ReadBackIsBacked, AnswerIsBacked, SameHash
<1> QED
    BY <1>2, <1>3, <1>4, <1>5 DEF HandlerOK

\* Only a commit writes the row or the ledger.
LEMMA OnlyCommitsWrite ==
    ASSUME NEW h \in Handlers,
           \/ \E r \in Requests : Receive(h, r)
           \/ Progress(h)
           \/ Abandon(h)
    PROVE  CommitApplies(h) \/ UNCHANGED row
BY DEF Progress, Receive, ReadWorkspace, ReadLedgerHit, ReadLedgerMiss, KernelConflict,
    ReadIntervening, ReadTarget, ReadRaw, UndoLedgerMiss, ReadDependents,
    CommitFindsReceipt, ReadBack, CommitConflicts, Abandon, row

\* Every step keeps the invariant, part by part.
LEMMA NextInv == Inv /\ [Next]_vars => Inv'
<1> SUFFICES ASSUME Inv, [Next]_vars PROVE Inv'
    OBVIOUS
<1> USE DEF Inv, HandlerInv
<1>1. TypeOK'
    BY TypeStep
<1>2. CASE UNCHANGED vars
  <2>1. UNCHANGED row /\ \A k \in Handlers : Idles(k)
    BY <1>2 DEF vars, row, Idles
  <2> QED
    BY <1>1, <2>1, QuietKeepsLedgerInv, IdleHandler
<1>3. ASSUME NEW h \in Handlers,
             \/ \E r \in Requests : Receive(h, r)
             \/ Progress(h)
             \/ Abandon(h)
      PROVE  Inv'
  <2>1. HandlerOK(h)' /\ \A k \in Handlers \ {h} : Idles(k)
    BY <1>3, HandlerStep
  <2>2. CASE CommitApplies(h)
    <3>1. LedgerInv'
        BY <2>2, CommitKeepsLedgerInv
    <3>2. \A k \in Handlers \ {h} : HandlerOK(k)'
        BY <2>1, <2>2, CommitKeepsOthers DEF LedgerInv, HandlerOK
    <3> QED
        BY <1>1, <2>1, <3>1, <3>2
  <2>3. CASE UNCHANGED row
    BY <1>1, <2>1, <2>3, QuietKeepsLedgerInv, IdleHandler
  <2> QED
    BY <1>3, <2>2, <2>3, OnlyCommitsWrite
<1>4. CASE Drain
    BY <1>1, <1>4, DrainKeepsLedgerInv, DrainKeepsHandler
<1> QED
    BY <1>2, <1>3, <1>4 DEF Next

\* The inductive invariant holds in every reachable state.
THEOREM InvHolds == Spec => []Inv
BY InitInv, NextInv, PTL DEF Spec

\* The variables keep their types: in particular no handler commits an undo
\* without the ledger row of its target, and none outlives its attempts.
THEOREM TypeCorrect == Spec => []TypeOK
<1>1. Inv => TypeOK
    BY DEF Inv
<1> QED
    BY <1>1, InvHolds, PTL

\* No revision is claimed twice, each one the snapshot lacks has the row of its
\* poll, and one without a row is the fence of a drain after such a poll.
THEOREM LedgerIsEvident == Spec => []RevisionsAreEvident
<1>1. Inv => RevisionsAreEvident
    BY DEF Inv, LedgerInv
<1> QED
    BY <1>1, InvHolds, PTL

\* Whole-snapshot writes by concurrent handlers never lose a command.
THEOREM NoUpdateIsLost == Spec => []NoLostUpdate
<1>1. Inv => NoLostUpdate
    BY DEF Inv, LedgerInv
<1> QED
    BY <1>1, InvHolds, PTL

\* A rebased command overwrites nothing it had not seen, given an evaluator
\* that stays in the fields it declares (EvaluatorStaysInScope).
THEOREM NothingSilentlyOverwritten == Spec => []NoSilentOverwrite
<1>1. Inv => NoSilentOverwrite
    BY DEF Inv, LedgerInv
<1> QED
    BY <1>1, InvHolds, PTL

\* An undo runs only while everything on the objects its target affected is
\* still what the target left, whatever its compensation then writes.
THEOREM UndoMeetsTarget == Spec => []UndoMeetsItsTarget
<1>1. Inv => UndoMeetsItsTarget
    BY DEF Inv, LedgerInv
<1> QED
    BY <1>1, InvHolds, PTL

\* Once an undo has changed an object its target affected, no other undo of
\* that target runs.
THEOREM UndoIsUnique == Spec => []UndoneOnce
<1>1. Inv => UndoneOnce
    BY DEF Inv, LedgerInv
<1> QED
    BY <1>1, InvHolds, PTL

\* Every receipt a handler ever answered with is the ledger's.
THEOREM ReceiptsAreBacked == Spec => []AnswersAreBacked
<1>1. Inv => AnswersAreBacked
    BY DEF Inv, HandlerInv, HandlerOK, AnswerIsBacked, AnswersAreBacked
<1> QED
    BY <1>1, InvHolds, PTL

-----------------------------------------------------------------------------
(* The command executor implements CommandLog.                             *)

\* The row of each revision that has one.
LEMMA RowFacts ==
    ASSUME TypeOK, RevisionsAreEvident
    PROVE  /\ \A v \in DOMAIN LogOfLedger : v \in 1 .. workspace.rev
           /\ \A v \in DOMAIN LogOfLedger : \E c \in Committed :
                v = ledger[c].rev /\ LogOfLedger[v] = Logged(c)
           /\ \A c \in Committed :
                /\ ledger[c].rev \in DOMAIN LogOfLedger
                /\ LogOfLedger[ledger[c].rev] = Logged(c)
<1>1. DOMAIN LogOfLedger = {ledger[c].rev : c \in Committed}
    BY DEF LogOfLedger
<1>2. ASSUME NEW c \in Committed
      PROVE  ledger[c].rev \in DOMAIN LogOfLedger /\ LogOfLedger[ledger[c].rev] = Logged(c)
  <2>1. CommittedAt(ledger[c].rev) = c
    BY DEF CommittedAt, RevisionsAreEvident
  <2> QED
    BY <1>1, <2>1 DEF LogOfLedger
<1>3. \A v \in DOMAIN LogOfLedger : \E c \in Committed :
            v = ledger[c].rev /\ LogOfLedger[v] = Logged(c)
    BY <1>1, <1>2
<1> QED
    BY <1>2, <1>3 DEF RevisionsAreEvident

\* The commit records a command whose id is not in the log.
LEMMA CommitRecords ==
    ASSUME Inv, Inv', NEW h \in Handlers, CommitApplies(h)
    PROVE  Log!Record(request[h].id, request[h].kind, request[h].body, NextSnapshot(h))
<1> DEFINE id == request[h].id
           e == NewEntry(h)
           n == workspace.rev
           last == [id |-> id, kind |-> request[h].kind, body |-> request[h].body,
                    before |-> workspace.data, after |-> NextSnapshot(h)]
<1>1. /\ id \notin Committed
      /\ Committed' = Committed \cup {id}
      /\ \A c \in Committed : ledger'[c] = ledger[c]
      /\ ledger'[id] = e
      /\ n \in Nat /\ workspace'.rev = n + 1 /\ workspace'.data = e.after
      /\ e.rev = n + 1 /\ e.before = workspace.data
    BY CommitFacts DEF Inv, LedgerInv, HandlerInv
<1>2. e.kind = request[h].kind /\ e.body = request[h].body /\ e.after = NextSnapshot(h)
    BY NewEntryFacts DEF Inv, HandlerInv, HandlerOK, CommitApplies
<1>3. TypeOK /\ RevisionsAreEvident /\ TypeOK' /\ RevisionsAreEvident'
    BY DEF Inv, LedgerInv
<1> HIDE DEF e, id, n
<1>4. \A v \in DOMAIN LogOfLedger : LogOfLedger[v].id # id
    BY <1>1, <1>3, RowFacts DEF Logged
<1>5. DOMAIN LogOfLedger' = DOMAIN LogOfLedger \cup {n + 1}
  <2>1. /\ DOMAIN LogOfLedger = {ledger[c].rev : c \in Committed}
        /\ DOMAIN LogOfLedger' = {ledger'[c].rev : c \in Committed'}
    BY DEF LogOfLedger
  <2> QED
    BY <1>1, <2>1
<1>6. n + 1 \notin DOMAIN LogOfLedger
    BY <1>1, <1>3, RowFacts DEF n
<1>7. ASSUME NEW v, v = n + 1
      PROVE  LogOfLedger'[v] = last
  <2>1. \A c \in Committed' : ledger'[c].rev = v <=> c = id
    BY <1>1, <1>3, <1>7 DEF RevisionsAreEvident
  <2>2. CommittedAt(v)' = id
    BY <1>1, <2>1 DEF CommittedAt
  <2>3. v \in {ledger'[c].rev : c \in Committed'}
    BY <1>1, <2>1
  <2>4. LogOfLedger'[v] = [id |-> id, kind |-> e.kind, body |-> e.body,
                           before |-> e.before, after |-> e.after]
    BY <1>1, <2>2, <2>3 DEF LogOfLedger, Logged
  <2> QED
    BY <1>1, <1>2, <2>4 DEF id
<1>8. ASSUME NEW v \in DOMAIN LogOfLedger
      PROVE  LogOfLedger'[v] = LogOfLedger[v]
  <2>1. PICK c \in Committed : v = ledger[c].rev /\ LogOfLedger[v] = Logged(c)
    BY <1>3, RowFacts
  <2>2. c \in Committed' /\ ledger'[c] = ledger[c]
    BY <1>1, <2>1
  <2>3. CommittedAt(v)' = c
    BY <1>3, <2>1, <2>2 DEF CommittedAt, RevisionsAreEvident
  <2>4. v \in {ledger'[d].rev : d \in Committed'}
    BY <2>1, <2>2
  <2> QED
    BY <2>1, <2>2, <2>3, <2>4 DEF LogOfLedger, Logged
<1>9. LogOfLedger' = [v \in DOMAIN LogOfLedger \cup {n + 1} |->
                        IF v = n + 1 THEN last ELSE LogOfLedger[v]]
  <2>1. LogOfLedger' = [v \in DOMAIN LogOfLedger' |-> LogOfLedger'[v]]
    BY DEF LogOfLedger
  <2> QED
    BY <1>5, <1>6, <1>7, <1>8, <2>1
<1> QED
    BY <1>1, <1>2, <1>4, <1>9 DEF Log!Record, n, id

\* The guard of an executed command, at its commit.
LEMMA ExecuteSimulates ==
    ASSUME Inv, Inv', NEW h \in Handlers, CommitApplies(h), request[h].kind = "execute"
    PROVE  \E base \in 0 .. workspace.rev : Log!Execute(request[h].id, request[h].body, base)
<1> DEFINE n == workspace.rev
           base == IF request[h].base <= n THEN request[h].base ELSE n
<1>1. n \in Nat /\ request[h].base \in Nat
    BY RequestFacts DEF Inv, TypeOK, WorkspaceType
<1>2. base \in 0 .. n
    BY <1>1
<1>3. seen[h].rev = n
    BY CommitFacts DEF Inv, LedgerInv, HandlerInv
<1>4. ASSUME NEW v \in DOMAIN LogOfLedger, v > base
      PROVE  /\ LogOfLedger[v].kind # "kernel"
             /\ Log!Changed(LogOfLedger[v]) \cap Intent[request[h].body] = {}
  <2>1. PICK c \in Committed : v = ledger[c].rev /\ LogOfLedger[v] = Logged(c)
    BY RowFacts DEF Inv, LedgerInv
  <2>2. request[h].base < ledger[c].rev /\ ledger[c].rev <= n
    BY <1>1, <1>4, <2>1 DEF Inv, LedgerInv, RevisionsAreEvident
  <2>3. ~Opaque(ledger[c]) /\ Changed(ledger[c]) \cap Intent[request[h].body] = {}
    BY <1>3, <2>2 DEF Inv, HandlerInv, HandlerOK, CommandIsCompatible, CommitApplies
  <2> QED
    BY <2>1, <2>3 DEF Log!Changed, Changed, Opaque, Logged
<1>5. Log!Untouched(Intent[request[h].body], base)
    BY <1>4 DEF Log!Untouched
<1>6. Log!Record(request[h].id, "execute", request[h].body,
                 Effect[request[h].body][workspace.data])
  <2>1. NextSnapshot(h) = Effect[request[h].body][workspace.data]
    BY CommitFacts, NewEntryFacts
    DEF Inv, LedgerInv, HandlerInv, HandlerOK, CommitApplies, NextSnapshot
  <2> QED
    BY <2>1, CommitRecords
<1> HIDE DEF base
<1>7. Log!Execute(request[h].id, request[h].body, base)
    BY <1>5, <1>6 DEF Log!Execute
<1> QED
    BY <1>2, <1>7

\* The guard of an undo, at its commit.
LEMMA UndoSimulates ==
    ASSUME Inv, Inv', NEW h \in Handlers, CommitApplies(h), request[h].kind = "undo"
    PROVE  \E i \in DOMAIN LogOfLedger : Log!Undo(request[h].id, i)
<1> DEFINE n == workspace.rev
           b == request[h].body
           i == ledger[b].rev
<1>1. /\ b \in Committed /\ target[h] = ledger[b]
      /\ HasCompensation(ledger[b])
    BY RequestFacts
    DEF Inv, HandlerInv, HandlerOK, TargetIsRead, CommitApplies, Committed, TypeOK
<1>2. i \in DOMAIN LogOfLedger /\ LogOfLedger[i] = Logged(b)
    BY <1>1, RowFacts DEF Inv, LedgerInv
<1>3. seen[h].rev = n /\ seen[h].data = workspace.data /\ n \in Nat /\ i \in Nat
    BY <1>1, CommitFacts
    DEF Inv, LedgerInv, HandlerInv, HandlerOK, SeenIsPast, RevisionsAreEvident
<1>4. ASSUME NEW v \in DOMAIN LogOfLedger, v > i
      PROVE  /\ LogOfLedger[v].kind # "kernel"
             /\ Log!Changed(LogOfLedger[v]) \cap Log!Reach(LogOfLedger[i]) = {}
  <2>1. PICK c \in Committed : v = ledger[c].rev /\ LogOfLedger[v] = Logged(c)
    BY RowFacts DEF Inv, LedgerInv
  <2>2. i < ledger[c].rev /\ ledger[c].rev <= n
    BY <1>3, <1>4, <2>1 DEF Inv, LedgerInv, RevisionsAreEvident
  <2>3. ~Opaque(ledger[c]) /\ AffectedObjects(ledger[c]) \cap AffectedObjects(ledger[b]) = {}
    BY <1>1, <1>3, <2>2 DEF Inv, HandlerInv, HandlerOK, UndoHasNoDependents, CommitApplies
  <2>4. Log!Changed(LogOfLedger[v]) = Changed(ledger[c])
        /\ Log!Changed(LogOfLedger[i]) = Changed(ledger[b])
    BY <1>2, <2>1 DEF Log!Changed, Changed, Logged
  <2>5. ASSUME NEW x \in Changed(ledger[c]), x \in Log!Reach(LogOfLedger[i])
        PROVE  FALSE
    <3>1. PICK y \in Changed(ledger[b]) : ObjectOf[y] = ObjectOf[x]
        BY <2>4, <2>5 DEF Log!Reach
    <3>2. ObjectOf[x] \in AffectedObjects(ledger[c])
        BY DEF AffectedObjects, ObjectsOf
    <3>3. ObjectOf[x] \in AffectedObjects(ledger[b])
        BY <3>1 DEF AffectedObjects, ObjectsOf
    <3> QED
        BY <2>3, <3>2, <3>3
  <2> QED
    BY <2>1, <2>3, <2>4, <2>5 DEF Opaque, Logged
<1>5. Log!Untouched(Log!Reach(LogOfLedger[i]), i)
    BY <1>4 DEF Log!Untouched
<1>6. NextSnapshot(h)
        = Compensation[LogOfLedger[i].body][LogOfLedger[i].before][workspace.data]
    BY <1>1, <1>2, <1>3 DEF NextSnapshot, Logged
<1>7. LogOfLedger[i].body \in Undoable /\ LogOfLedger[i].id = b
    BY <1>1, <1>2 DEF HasCompensation, Logged
<1>8. Log!Record(request[h].id, "undo", b, NextSnapshot(h))
    BY CommitRecords
<1> HIDE DEF i, b
<1>9. Log!Undo(request[h].id, i)
    BY <1>5, <1>6, <1>7, <1>8 DEF Log!Undo
<1> QED
    BY <1>2, <1>9

\* A drain is a fence of the log.
LEMMA DrainSimulates ==
    ASSUME Inv, Drain
    PROVE  Log!Fence
<1>1. /\ workspace.rev \in Nat /\ workspace.materialized \in Nat
      /\ workspace.materialized # workspace.rev
      /\ workspace'.rev = workspace.rev + 1
      /\ workspace'.data = workspace.data /\ ledger' = ledger
    BY DEF Drain, Inv, TypeOK, WorkspaceType
<1>2. PICK c \in Committed : ledger[c].rev = workspace.rev /\ IsEmptyPoll(ledger[c])
  <2>1. workspace.rev \in workspace.materialized + 1 .. workspace.rev
    BY <1>1 DEF Inv, LedgerInv, RevisionsAreEvident
  <2> QED
    BY <2>1 DEF Inv, LedgerInv, RevisionsAreEvident
<1>3. workspace.rev \in DOMAIN LogOfLedger /\ LogOfLedger[workspace.rev] = Logged(c)
    BY <1>2, RowFacts DEF Inv, LedgerInv
<1>4. LogOfLedger' = LogOfLedger
    BY <1>1 DEF LogOfLedger, CommittedAt, Committed, Logged
<1> QED
    BY <1>1, <1>2, <1>3, <1>4 DEF Log!Fence, IsEmptyPoll, Logged

\* Every step of the executor is a command or a fence of the log, or a stutter.
LEMMA StepSimulates ==
    ASSUME Inv, Inv', [Next]_vars
    PROVE  [Log!Next]_<<workspace.data, workspace.rev, LogOfLedger>>
<1>1. ASSUME NEW h \in Handlers, CommitApplies(h)
      PROVE  Log!Next
  <2>1. request[h].id \in CommandIds /\ request[h].kind \in Kinds
    BY NumbersAreTyped DEF Inv
  <2>2. workspace'.rev # workspace.rev
    <3>1. workspace.rev \in Nat /\ workspace'.rev = workspace.rev + 1
        BY <1>1, CommitFacts DEF Inv, LedgerInv, HandlerInv
    <3> QED
        BY <3>1
  <2>3. CASE request[h].kind = "execute"
    <3>1. request[h].body \in Payloads
        BY <2>3, RequestFacts DEF Inv, TypeOK
    <3> QED
        BY <1>1, <2>1, <2>2, <2>3, <3>1, ExecuteSimulates DEF Log!Next
  <2>4. CASE request[h].kind = "undo"
    BY <1>1, <2>1, <2>2, <2>4, UndoSimulates DEF Log!Next
  <2>5. CASE request[h].kind \in {"kernel", "source"}
    <3>1. request[h].body \in Payloads
        BY <2>5, RequestFacts DEF Inv, TypeOK
    <3>2. NextSnapshot(h) = Effect[request[h].body][workspace.data]
        BY <1>1, <2>5 DEF Inv, HandlerInv, HandlerOK, SeenIsPast, CommitApplies, NextSnapshot
    <3>3. Log!Write(request[h].id, request[h].kind, request[h].body)
        BY <1>1, <3>2, CommitRecords DEF Log!Write
    <3> QED
        BY <2>1, <2>2, <2>5, <3>1, <3>3 DEF Log!Next
  <2> QED
    BY <2>1, <2>3, <2>4, <2>5 DEF Kinds
<1>2. CASE Drain
  <2>1. Log!Fence /\ workspace'.rev # workspace.rev
    BY <1>2, DrainSimulates DEF Drain, Inv, TypeOK, WorkspaceType
  <2> QED
    BY <2>1 DEF Log!Next
<1>3. CASE UNCHANGED row
    BY <1>3 DEF row, LogOfLedger, CommittedAt, Committed, Logged
<1>4. CASE UNCHANGED vars
    BY <1>3, <1>4 DEF vars, row
<1> QED
    BY <1>1, <1>2, <1>3, <1>4, OnlyCommitsWrite DEF Next

\* The log starts empty, on an initial snapshot.
LEMMA InitSimulates == Init => Log!Init
<1> SUFFICES ASSUME Init PROVE Log!Init
    OBVIOUS
<1>1. workspace.rev = 0 /\ workspace.data \in InitialData
    BY DEF Init
<1>2. Committed = {}
    BY DEF Init, Committed
<1>3. LogOfLedger = [i \in {} |-> workspace.data]
  <2>1. {ledger[c].rev : c \in Committed} = {}
    BY <1>2
  <2> QED
    BY <2>1 DEF LogOfLedger
<1> QED
    BY <1>1, <1>3 DEF Log!Init

\* Concurrent handlers with separate reads and an optimistic commit implement
\* commands applied one at a time (CommandLog), for any number of handlers,
\* commands and attempts, and whatever an undo's compensation writes.
THEOREM Refinement == Spec => ImplementsCommandLog
<1>1. Inv /\ Inv' /\ [Next]_vars => [Log!Next]_<<workspace.data, workspace.rev, LogOfLedger>>
    BY StepSimulates
<1> QED
    BY <1>1, InitSimulates, InvHolds, PTL DEF Spec, ImplementsCommandLog, Log!Spec
=============================================================================

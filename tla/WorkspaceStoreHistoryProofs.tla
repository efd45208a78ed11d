--------------------- MODULE WorkspaceStoreHistoryProofs ---------------------
(***************************************************************************)
(* Proof that readers see the history at the revision they name, and that  *)
(* the store implements WorkspaceHistory, for every value of the           *)
(* constants.                                                              *)
(***************************************************************************)
EXTENDS WorkspaceStoreProofs

-----------------------------------------------------------------------------
(* Sequences *)

\* A function on an initial segment is a sequence of that length.
LEMMA SeqOfFunction ==
    ASSUME NEW S, NEW n \in Nat, NEW f \in [1 .. n -> S]
    PROVE  f \in Seq(S) /\ Len(f) = n
<1>1. f \in Seq(S)
  BY SeqDef
<1>2. Len(f) \in Nat /\ DOMAIN f = 1 .. Len(f)
  BY <1>1, LenProperties
<1>3. DOMAIN f = 1 .. n
  OBVIOUS
<1> QED BY <1>1, <1>2, <1>3

\* The pending runs are as many as the revisions between.
LEMMA PendingSeq ==
    ASSUME NEW low \in Nat, NEW high \in Nat, low <= high,
           \A r \in low + 1 .. high : ledger[r].id \in Ids
    PROVE  /\ PendingRuns(low, high) \in Seq(Ids)
           /\ Len(PendingRuns(low, high)) = high - low
           /\ \A i \in 1 .. high - low : PendingRuns(low, high)[i] = ledger[low + i].id
<1>1. PendingRuns(low, high) \in [1 .. high - low -> Ids]
  BY DEF PendingRuns
<1>2. high - low \in Nat
  OBVIOUS
<1> QED BY <1>1, <1>2, SeqOfFunction DEF PendingRuns

\* Without a gap there are none.
LEMMA NoPending ==
    ASSUME NEW n \in Nat
    PROVE  PendingRuns(n, n) = <<>>
<1>1. PendingRuns(n, n) \in Seq(Ids) /\ Len(PendingRuns(n, n)) = 0
  BY PendingSeq
<1> QED BY <1>1, EmptySeq

\* What a command makes of a history is a history: its rows are those before,
\* or its own.
LEMMA EffectRows ==
    ASSUME NEW id \in Ids, NEW rows \in Seq(Ids)
    PROVE  /\ Effect(id, rows) \in Seq(Ids)
           /\ \A i \in DOMAIN Effect(id, rows) :
                  \/ Effect(id, rows)[i] = id
                  \/ \E j \in DOMAIN rows : Effect(id, rows)[i] = rows[j]
<1>1. CASE id \in Rewriting /\ CommandRows(rows) # {}
  <2> DEFINE k == CHOOSE i \in CommandRows(rows) : TRUE
  <2>1. Effect(id, rows) = [rows EXCEPT ![k] = id]
    BY <1>1 DEF Effect
  <2> HIDE DEF k
  <2>2. rows \in [1 .. Len(rows) -> Ids] /\ Len(rows) \in Nat
    BY LenProperties
  <2>3. [rows EXCEPT ![k] = id] \in [1 .. Len(rows) -> Ids]
    BY <2>2
  <2>4. Effect(id, rows) \in Seq(Ids)
    BY <2>1, <2>2, <2>3, SeqOfFunction
  <2>5. \A i \in DOMAIN rows : \/ [rows EXCEPT ![k] = id][i] = id
                               \/ [rows EXCEPT ![k] = id][i] = rows[i]
    BY <2>2
  <2> QED BY <2>1, <2>2, <2>3, <2>4, <2>5
<1>2. CASE ~(id \in Rewriting /\ CommandRows(rows) # {})
  <2>1. Effect(id, rows) = Append(rows, id)
    BY <1>2 DEF Effect
  <2>2. /\ Append(rows, id) \in Seq(Ids) /\ Len(Append(rows, id)) = Len(rows) + 1
        /\ \A i \in 1 .. Len(rows) : Append(rows, id)[i] = rows[i]
        /\ Append(rows, id)[Len(rows) + 1] = id
    BY AppendProperties
  <2>3. DOMAIN rows = 1 .. Len(rows) /\ DOMAIN Append(rows, id) = 1 .. Len(rows) + 1 /\ Len(rows) \in Nat
    BY <2>2, LenProperties
  <2>4. ASSUME NEW i \in DOMAIN Append(rows, id)
        PROVE  \/ Append(rows, id)[i] = id
               \/ \E j \in DOMAIN rows : Append(rows, id)[i] = rows[j]
    BY <2>2, <2>3
  <2> QED BY <2>1, <2>2, <2>4
<1> QED BY <1>1, <1>2

-----------------------------------------------------------------------------
(* The invariant *)

\* Every row was made by one of the first revisions.
Made(rows, rev) == \A i \in DOMAIN rows : \E r \in 1 .. rev : ledger[r].id = rows[i]

\* A row of the workspace, as it is or as it was: the runs outside the snapshot
\* are in the ledger, none of them is in the snapshot, and together they are
\* the history.
Window(b) ==
    /\ b.mat \in 0 .. b.rev
    /\ b.rev - b.mat <= MaxPending
    /\ b.rows \in Seq(Ids)
    /\ \A r \in b.mat + 1 .. b.rev : ledger[r].run
    /\ Made(b.rows, b.mat)
    /\ b.rows \o PendingRuns(b.mat, b.rev) = HistoryAt(b.rev)

StoreHist ==
    /\ Window(workspace)
    /\ past \in Seq(Seq(Ids)) /\ Len(past) = workspace.rev
    /\ \A r \in DOMAIN ledger : ledger[r].run => ledger[r].id \in Polls
    /\ \A r, s \in DOMAIN ledger :
           ledger[r].id = ledger[s].id /\ ledger[r].id # Nobody => r = s

\* What a handler read and has not dropped.
Holds(h) == pc[h] \in {"lookup", "told", "evaluate", "waiting", "answered"}
ReadsRuns(h) == pc[h] \in {"readRuns", "readBackRuns"}

HandlerHist(h) ==
    /\ call[h].echo => call[h].id \in Commands \ Managed
    /\ base[h].rows \in Seq(Ids) /\ Made(base[h].rows, base[h].rev)
    /\ ReadsRuns(h) =>
           /\ Aware(h) /\ Window(base[h])
           /\ base[h].rev = workspace.rev => base[h] = workspace
    /\ Holds(h) =>
           /\ Aware(h) => base[h].rows = HistoryAt(base[h].rev)
           /\ base[h].rev = workspace.rev => base[h].rows \in {workspace.rows, Logical}
    /\ answer[h].outcome # "WORKSPACE_INVALID"
    /\ pc[h] = "answered" \/ (pc[h] = "done" /\ Aware(h))
       => answer[h].rows = HistoryAt(answer[h].rev)
    /\ pc[h] = "answered" /\ answer[h].outcome = "COMMITTED" /\ call[h].echo
       => answer[h].rows = Effect(call[h].id, base[h].rows)

\* What a request asks to be written: the effect of its command on what its
\* sender had read, which is the snapshot or the whole history as long as
\* nobody wrote in between.
RequestHist(q) ==
    /\ q.expected \in 0 .. workspace.rev
    /\ q.rows \in Seq(Ids)
    /\ \A i \in DOMAIN q.rows :
           q.rows[i] = q.id \/ \E r \in 1 .. q.expected : ledger[r].id = q.rows[i]
    /\ q.expected = workspace.rev
       => q.rows \in {Effect(q.id, workspace.rows), Effect(q.id, Logical)}
    /\ q.from # Nobody =>
           /\ q.rows = Effect(q.id, base[q.from].rows)
           /\ call[q.from].echo => q.route = "echo"

Hist ==
    /\ StoreHist
    /\ \A h \in Handlers : HandlerHist(h)
    /\ \A q \in wire : RequestHist(q)

\* The invariant says what the property asks.
LEMMA HistImplies == Hist => SnapshotsAreExact
BY DEF Hist, HandlerHist, SnapshotsAreExact, ReadsNeverFail, Holds

\* At first there is no history and nobody has read any.
LEMMA InitHist == Init => Hist
<1> SUFFICES ASSUME Init PROVE Hist
  OBVIOUS
<1>1. /\ workspace = NoBase /\ past = <<>> /\ ledger = <<>> /\ wire = {}
      /\ NoBase.rev = 0 /\ NoBase.mat = 0 /\ NoBase.rows = <<>>
  BY DEF Init, NoBase
<1>2. <<>> \in Seq(Ids) /\ <<>> \in Seq(Seq(Ids)) /\ Len(<<>>) = 0 /\ DOMAIN <<>> = {}
  BY EmptySeq
<1>3. PendingRuns(0, 0) = <<>> /\ <<>> \o <<>> = <<>>
  BY NoPending, ConcatEmptySeq
<1>4. MaxPending \in Nat
  BY StoreConstants
<1>5. Window(workspace)
  BY <1>1, <1>2, <1>3, <1>4 DEF Window, Made, HistoryAt
<1>6. StoreHist
  BY <1>1, <1>2, <1>5 DEF StoreHist
<1>7. ASSUME NEW h \in Handlers PROVE HandlerHist(h)
  <2>1. pc[h] = "idle" /\ base[h] = NoBase /\ answer[h].outcome = "NONE" /\ ~call[h].echo
    BY DEF Init, NoCall, NoAnswer
  <2> QED BY <1>1, <1>2, <2>1 DEF HandlerHist, Made, ReadsRuns, Holds
<1> QED BY <1>1, <1>6, <1>7 DEF Hist

-----------------------------------------------------------------------------
(* Steps that leave the store alone *)

\* A handler that does nothing, while the store stays.
LEMMA HandlerStays ==
    ASSUME NEW h, HandlerHist(h), UNCHANGED <<workspace, ledger, past>>,
           UNCHANGED <<pc[h], call[h], base[h], answer[h]>>
    PROVE  HandlerHist(h)'
<1>1. Window(base[h])' = Window(base[h])
  BY DEF Window, Made, HistoryAt, PendingRuns
<1>2. /\ Effect(call[h].id, base[h].rows)' = Effect(call[h].id, base[h].rows)
      /\ Made(base[h].rows, base[h].rev)' = Made(base[h].rows, base[h].rev)
      /\ HistoryAt(base[h].rev)' = HistoryAt(base[h].rev)
      /\ HistoryAt(answer[h].rev)' = HistoryAt(answer[h].rev)
      /\ Logical' = Logical
  BY DEF Effect, CommandRows, Made, HistoryAt, Logical, PendingRuns
<1> QED BY <1>1, <1>2 DEF HandlerHist, ReadsRuns, Holds, Aware

\* A step of one handler that waits for nothing, while the store stays and no
\* request is sent.
LEMMA LocalHist ==
    ASSUME Inv, Hist, NEW h \in Handlers, pc[h] # "waiting",
           UNCHANGED <<workspace, ledger, past, wire>>,
           \A g \in Handlers \ {h} : /\ pc'[g] = pc[g] /\ call'[g] = call[g]
                                     /\ base'[g] = base[g] /\ answer'[g] = answer[g],
           HandlerHist(h)'
    PROVE  Hist'
<1>1. StoreHist'
  BY DEF Hist, StoreHist, Window, Made, HistoryAt, PendingRuns
<1>2. ASSUME NEW g \in Handlers, g # h PROVE HandlerHist(g)'
  BY <1>2, HandlerStays DEF Hist
<1>3. ASSUME NEW q \in wire PROVE RequestHist(q)'
  <2>1. RequestHist(q) /\ RequestInv(q)
    BY DEF Hist, Inv
  <2>2. q.from # Nobody => q.from \in Handlers \ {h}
    BY <2>1 DEF RequestInv
  <2> QED BY <2>1, <2>2 DEF RequestHist, Logical, PendingRuns
<1> QED BY <1>1, <1>2, <1>3 DEF Hist

\* Who has read nothing holds the empty history.
LEMMA NoBaseHist ==
    /\ NoBase.rows \in Seq(Ids) /\ DOMAIN NoBase.rows = {} /\ NoBase.rows = <<>>
    /\ NoAnswer.outcome = "NONE"
BY EmptySeq DEF NoBase, NoAnswer

\* A call that ends with a history of the revision it names.
LEMMA EndHist ==
    ASSUME Inv, Hist, NEW h \in Handlers, pc[h] # "waiting",
           UNCHANGED <<workspace, ledger, past, wire, call>>,
           NEW reply, End(h, reply), reply.outcome # "WORKSPACE_INVALID",
           Aware(h) => reply.rows = HistoryAt(reply.rev)
    PROVE  Hist'
<1>1. /\ pc' = [pc EXCEPT ![h] = "done"]
      /\ answer' = [answer EXCEPT ![h] = reply]
      /\ base' = [base EXCEPT ![h] = NoBase]
      /\ DOMAIN pc = Handlers /\ DOMAIN answer = Handlers /\ DOMAIN base = Handlers
  BY DEF End, Move, Inv, Shape
<1>2. HandlerHist(h) /\ pc'[h] = "done" /\ answer'[h] = reply /\ base'[h] = NoBase
  BY <1>1 DEF Hist
<1>3. HandlerHist(h)'
  BY <1>2, NoBaseHist DEF HandlerHist, Made, ReadsRuns, Holds, Aware, HistoryAt
<1> QED BY <1>1, <1>3, LocalHist

\* A refusal stands for no revision.
LEMMA FailureHist ==
    ASSUME Inv, Hist, NEW h \in Handlers, pc[h] # "waiting",
           UNCHANGED <<workspace, ledger, past, wire, call>>,
           NEW code, End(h, Failure(code)), code # "WORKSPACE_INVALID"
    PROVE  Hist'
<1>1. /\ Failure(code).outcome = code /\ Failure(code).rows = <<>> /\ Failure(code).rev = 0
  BY DEF Failure, NoAnswer
<1> QED BY <1>1, EndHist DEF HistoryAt

\* A call that starts, or starts over.
LEMMA StartHist ==
    ASSUME Inv, Hist, NEW h \in Handlers, pc[h] # "waiting",
           UNCHANGED <<workspace, ledger, past, wire>>,
           NEW label \in {"readRow", "readBack"},
           pc' = [pc EXCEPT ![h] = label],
           base' = [base EXCEPT ![h] = NoBase],
           answer' = [answer EXCEPT ![h] = NoAnswer],
           \A g \in Handlers \ {h} : call'[g] = call[g],
           call'[h].echo => call'[h].id \in Commands \ Managed
    PROVE  Hist'
<1>1. DOMAIN pc = Handlers /\ DOMAIN answer = Handlers /\ DOMAIN base = Handlers
  BY DEF Inv, Shape
<1>2. pc'[h] \in {"readRow", "readBack"} /\ answer'[h] = NoAnswer /\ base'[h] = NoBase
  BY <1>1
<1>3. HandlerHist(h)'
  BY <1>2, NoBaseHist DEF HandlerHist, Made, ReadsRuns, Holds
<1> QED BY <1>1, <1>3, LocalHist

\* A call begins with nothing read.
LEMMA BeginHist ==
    ASSUME Inv, Hist, NEW h \in Handlers, NEW id \in Ids, NEW aware, NEW echo,
           Begin(h, id, aware, echo)
    PROVE  Hist'
<1>1. /\ pc[h] # "waiting"
      /\ pc' = [pc EXCEPT ![h] = "readRow"]
      /\ base' = [base EXCEPT ![h] = NoBase]
      /\ answer' = [answer EXCEPT ![h] = NoAnswer]
      /\ call' = [call EXCEPT ![h] =
             [id |-> id, aware |-> aware, echo |-> echo,
              admitted |-> IF id \in Managed THEN grant.rev ELSE 0]]
      /\ UNCHANGED <<workspace, ledger, past, wire>>
      /\ echo => id \in Commands \ Managed
  BY DEF Begin, Move
<1>2. DOMAIN call = Handlers
  BY DEF Inv, Shape
<1>3. call'[h].echo = echo /\ call'[h].id = id /\ \A g \in Handlers \ {h} : call'[g] = call[g]
  BY <1>1, <1>2
<1> QED BY <1>1, <1>3, StartHist

\* The row as it stands is a window; without pending runs its snapshot is the
\* history.
LEMMA ReadRowHist ==
    ASSUME Inv, Hist, NEW h \in Handlers, ReadRow(h)
    PROVE  Hist'
<1>1. /\ UNCHANGED <<workspace, ledger, past, wire, call, answer>>
      /\ pc[h] \in {"readRow", "readBack"}
      /\ base' = [base EXCEPT ![h] = workspace]
  BY DEF ReadRow, store
<1>2. /\ DOMAIN pc = Handlers /\ DOMAIN base = Handlers
      /\ DOMAIN ledger = 1 .. workspace.rev /\ workspace.rev \in Nat
  BY GrantIsOpen DEF Inv, Shape
<1>3. HandlerHist(h) /\ Window(workspace) /\ base'[h] = workspace
  BY <1>1, <1>2 DEF Hist, StoreHist
<1>4. workspace.mat \in Nat /\ workspace.mat <= workspace.rev
  BY <1>2, <1>3 DEF Window
<1>5. Made(workspace.rows, workspace.rev) /\ workspace.rows \in Seq(Ids)
  BY <1>2, <1>3, <1>4 DEF Window, Made
<1>6. CASE Aware(h) /\ workspace.mat < workspace.rev
  <2>1. pc'[h] \in {"readRuns", "readBackRuns"} /\ \A g \in Handlers \ {h} : pc'[g] = pc[g]
    BY <1>1, <1>2, <1>6 DEF ReadRow, Move
  <2>2. Window(base[h])'
    <3>1. Window(workspace)' = Window(workspace)
      BY <1>1 DEF Window, Made, HistoryAt, PendingRuns
    <3>2. base'[h] = workspace'
      BY <1>1, <1>3
    <3> QED BY <1>3, <3>1, <3>2 DEF Window, Made, HistoryAt, PendingRuns
  <2>3. Made(base[h].rows, base[h].rev)'
    BY <1>1, <1>3, <1>5 DEF Made
  <2>4. HandlerHist(h)'
    BY <1>1, <1>3, <1>5, <1>6, <2>1, <2>2, <2>3 DEF HandlerHist, ReadsRuns, Holds, Aware
  <2> QED BY <1>1, <1>2, <2>1, <2>4, LocalHist
<1>7. CASE ~(Aware(h) /\ workspace.mat < workspace.rev)
  <2>1. pc'[h] \in {"lookup", "told"} /\ \A g \in Handlers \ {h} : pc'[g] = pc[g]
    BY <1>1, <1>2, <1>7 DEF ReadRow, Move
  <2>2. Aware(h) => workspace.rows = HistoryAt(workspace.rev)
    <3>1. Aware(h) => workspace.mat = workspace.rev
      BY <1>2, <1>4, <1>7
    <3>2. workspace.mat = workspace.rev => workspace.rows \o PendingRuns(workspace.mat, workspace.rev) = workspace.rows
      BY <1>2, <1>5, NoPending, ConcatEmptySeq
    <3> QED BY <1>3, <3>1, <3>2 DEF Window
  <2>3. Made(base[h].rows, base[h].rev)' /\ HistoryAt(base[h].rev)' = HistoryAt(workspace.rev)
    BY <1>1, <1>3, <1>5 DEF Made, HistoryAt
  <2>4. HandlerHist(h)'
    BY <1>1, <1>3, <1>5, <2>1, <2>2, <2>3 DEF HandlerHist, ReadsRuns, Holds, Aware
  <2> QED BY <1>1, <1>2, <2>1, <2>4, LocalHist
<1> QED BY <1>6, <1>7

\* No window that was read is ever refused.
LEMMA WindowIsValid ==
    ASSUME Inv, Hist, NEW h \in Handlers, ReadsRuns(h)
    PROVE  ValidWindow(base[h])
<1> DEFINE b == base[h]
<1>1. Window(b) /\ b.rev \in 0 .. workspace.rev
  BY DEF Inv, Hist, HandlerInv, HandlerHist
<1>2. DOMAIN ledger = 1 .. workspace.rev /\ workspace.rev \in Nat
  BY GrantIsOpen DEF Inv, Shape
<1>3. StoreHist
  BY DEF Hist
<1> HIDE DEF b
<1>4. RunsOf(b) = b.mat + 1 .. b.rev
  BY <1>1, <1>2 DEF Window, RunsOf
<1>5. \A r \in RunsOf(b) : r \in DOMAIN ledger /\ ledger[r].id \in Polls /\ ledger[r].id # Nobody
  BY <1>3, StoreConstants DEF RunsOf, StoreHist, Ids
<1>6. ASSUME NEW r \in RunsOf(b), NEW i \in DOMAIN b.rows PROVE b.rows[i] # ledger[r].id
  <2>1. PICK s \in 1 .. b.mat : ledger[s].id = b.rows[i]
    BY <1>1 DEF Window, Made
  <2>2. s \in DOMAIN ledger /\ s # r
    BY <1>1, <1>2, <1>4, <2>1 DEF Window
  <2> QED BY <1>3, <1>5, <2>1, <2>2 DEF StoreHist
<1>7. \A r, s \in RunsOf(b) : ledger[r].id = ledger[s].id => r = s
  BY <1>3, <1>5 DEF StoreHist
<1> QED BY <1>1, <1>4, <1>6, <1>7 DEF ValidWindow, Window, b

\* The runs of a window follow its rows.
LEMMA WindowRows ==
    ASSUME Inv, Hist, NEW b, Window(b), b.rev \in 0 .. workspace.rev
    PROVE  /\ PendingRuns(b.mat, b.rev) \in Seq(Ids)
           /\ b.rows \o PendingRuns(b.mat, b.rev) \in Seq(Ids)
           /\ Made(b.rows \o PendingRuns(b.mat, b.rev), b.rev)
<1>1. DOMAIN ledger = 1 .. workspace.rev /\ workspace.rev \in Nat
  BY GrantIsOpen DEF Inv, Shape
<1>2. b.mat \in Nat /\ b.rev \in Nat /\ b.mat <= b.rev /\ b.rows \in Seq(Ids)
  BY <1>1 DEF Window
<1>3. ASSUME NEW r \in b.mat + 1 .. b.rev PROVE ledger[r].id \in Ids
  <2>1. r \in DOMAIN ledger /\ ledger[r].run
    BY <1>1, <1>2 DEF Window
  <2> QED BY <2>1 DEF Hist, StoreHist, Ids
<1> DEFINE p == PendingRuns(b.mat, b.rev)
<1>4. /\ p \in Seq(Ids) /\ Len(p) = b.rev - b.mat
      /\ \A i \in 1 .. b.rev - b.mat : p[i] = ledger[b.mat + i].id
  BY <1>2, <1>3, PendingSeq
<1> HIDE DEF p
<1>5. /\ b.rows \o p \in Seq(Ids) /\ Len(b.rows \o p) = Len(b.rows) + Len(p)
      /\ \A i \in 1 .. Len(b.rows) + Len(p) :
             (b.rows \o p)[i] = IF i <= Len(b.rows) THEN b.rows[i] ELSE p[i - Len(b.rows)]
  BY <1>2, <1>4, ConcatProperties
<1>6. /\ DOMAIN b.rows = 1 .. Len(b.rows) /\ Len(b.rows) \in Nat
      /\ DOMAIN (b.rows \o p) = 1 .. Len(b.rows) + Len(p)
  BY <1>2, <1>5, LenProperties
<1>7. ASSUME NEW i \in 1 .. Len(b.rows) + Len(p)
      PROVE  \E r \in 1 .. b.rev : ledger[r].id = (b.rows \o p)[i]
  <2>1. CASE i <= Len(b.rows)
    <3>1. PICK r \in 1 .. b.mat : ledger[r].id = b.rows[i]
      BY <1>6, <1>7, <2>1 DEF Window, Made
    <3> QED BY <1>2, <1>5, <2>1, <3>1
  <2>2. CASE i > Len(b.rows)
    <3>1. i - Len(b.rows) \in 1 .. b.rev - b.mat
      BY <1>2, <1>4, <1>6, <1>7, <2>2
    <3>2. (b.rows \o p)[i] = ledger[b.mat + (i - Len(b.rows))].id
      BY <1>4, <1>5, <1>6, <2>2, <3>1
    <3>3. b.mat + (i - Len(b.rows)) \in 1 .. b.rev
      BY <1>2, <1>6, <3>1
    <3> QED BY <3>2, <3>3
  <2> QED BY <1>4, <1>6, <2>1, <2>2
<1>8. Made(b.rows \o p, b.rev)
  BY <1>6, <1>7 DEF Made
<1> QED BY <1>4, <1>5, <1>8 DEF p

\* The runs complete the row that was read, however late they are read.
LEMMA ReadRunsHist ==
    ASSUME Inv, Hist, NEW h \in Handlers, ReadRuns(h)
    PROVE  Hist'
<1>1. UNCHANGED <<workspace, ledger, past, wire, call>> /\ ReadsRuns(h) /\ pc[h] # "waiting"
  BY DEF ReadRuns, store, ReadsRuns
<1>2. /\ DOMAIN pc = Handlers /\ DOMAIN base = Handlers
      /\ Reading(base[h]) /\ base[h].rev \in 0 .. workspace.rev
      /\ HandlerHist(h) /\ Window(base[h])
  BY <1>1 DEF Inv, Shape, HandlerInv, Hist, HandlerHist
<1> DEFINE rows == base[h].rows \o PendingRuns(base[h].mat, base[h].rev)
<1>3. /\ base' = [base EXCEPT ![h].rows = rows]
      /\ pc' = [pc EXCEPT ![h] = IF pc[h] = "readRuns" THEN "lookup" ELSE "told"]
      /\ answer' = answer
  BY <1>1, WindowIsValid DEF ReadRuns, Move
<1>4. rows \in Seq(Ids) /\ Made(rows, base[h].rev) /\ rows = HistoryAt(base[h].rev)
  BY <1>2, WindowRows DEF Window
<1>5. base[h].rev = workspace.rev => rows = Logical
  BY <1>1, <1>2 DEF HandlerHist, Logical
<1> HIDE DEF rows
<1>6. /\ base'[h].rows = rows /\ base'[h].rev = base[h].rev
      /\ pc'[h] \in {"lookup", "told"}
      /\ \A g \in Handlers \ {h} : pc'[g] = pc[g] /\ base'[g] = base[g]
  BY <1>2, <1>3 DEF Reading
<1>7. Made(base[h].rows, base[h].rev)' /\ HistoryAt(base[h].rev)' = HistoryAt(base[h].rev)
      /\ Logical' = Logical /\ HistoryAt(answer[h].rev)' = HistoryAt(answer[h].rev)
  BY <1>1, <1>3, <1>4, <1>6 DEF Made, HistoryAt, Logical, PendingRuns
<1>8. HandlerHist(h)'
  BY <1>1, <1>2, <1>3, <1>4, <1>5, <1>6, <1>7 DEF HandlerHist, ReadsRuns, Holds, Aware
<1> QED BY <1>1, <1>3, <1>6, <1>8, LocalHist

\* A lookup keeps what was read.
LEMMA LookupHist ==
    ASSUME Inv, Hist, NEW h \in Handlers, Lookup(h)
    PROVE  Hist'
<1>1. /\ UNCHANGED <<workspace, ledger, past, wire, call, base, answer>>
      /\ pc[h] = "lookup"
  BY DEF Lookup, store, local
<1>2. DOMAIN pc = Handlers /\ HandlerHist(h)
  BY DEF Inv, Shape, Hist
<1>3. pc'[h] \in {"told", "evaluate"} /\ \A g \in Handlers \ {h} : pc'[g] = pc[g]
  BY <1>1, <1>2 DEF Lookup, Move
<1>4. /\ Made(base[h].rows, base[h].rev)' = Made(base[h].rows, base[h].rev)
      /\ HistoryAt(base[h].rev)' = HistoryAt(base[h].rev)
      /\ Logical' = Logical
  BY <1>1 DEF Made, HistoryAt, Logical, PendingRuns
<1>5. HandlerHist(h)'
  BY <1>1, <1>2, <1>3, <1>4 DEF HandlerHist, ReadsRuns, Holds, Aware
<1> QED BY <1>1, <1>3, <1>5, LocalHist

\* What is told is what was read.
LEMMA TellHist ==
    ASSUME Inv, Hist, NEW h \in Handlers, Tell(h) \/ NoWrite(h)
    PROVE  Hist'
<1>1. /\ UNCHANGED <<workspace, ledger, past, wire, call>>
      /\ pc[h] \in {"told", "evaluate"}
  BY DEF Tell, NoWrite, store
<1>2. PICK outcome \in {"ALREADY_APPLIED", "NO_WRITE"} :
          End(h, IF Authorized(h) THEN Read(h, outcome) ELSE Failure("AUTH_FORBIDDEN"))
  BY DEF Tell, NoWrite
<1>3. CASE Authorized(h)
  <2>1. End(h, Read(h, outcome))
    BY <1>2, <1>3
  <2>2. /\ Read(h, outcome).outcome # "WORKSPACE_INVALID"
        /\ Read(h, outcome).rows = base[h].rows /\ Read(h, outcome).rev = base[h].rev
    BY DEF Read
  <2>3. Aware(h) => base[h].rows = HistoryAt(base[h].rev)
    BY <1>1 DEF Hist, HandlerHist, Holds
  <2>4. HistoryAt(Read(h, outcome).rev) = HistoryAt(base[h].rev)
    BY <2>2 DEF HistoryAt
  <2> QED BY <1>1, <2>1, <2>2, <2>3, <2>4, EndHist
<1>4. CASE ~Authorized(h)
  BY <1>1, <1>2, <1>4, FailureHist
<1> QED BY <1>3, <1>4

\* A new attempt drops what was read.
LEMMA RetryHist ==
    ASSUME Inv, Hist, NEW h \in Handlers, Retry(h)
    PROVE  Hist'
<1>1. UNCHANGED <<workspace, ledger, past, wire, call>> /\ pc[h] # "waiting"
  BY DEF Retry, store
<1>2. CASE call[h].id \in Polls \/ attempt[h] = MaxAttempts \/ ~Authorized(h)
  BY <1>1, <1>2, FailureHist DEF Retry
<1>3. CASE ~(call[h].id \in Polls \/ attempt[h] = MaxAttempts \/ ~Authorized(h))
  <2>1. /\ pc' = [pc EXCEPT ![h] = "readRow"]
        /\ base' = [base EXCEPT ![h] = NoBase]
        /\ answer' = [answer EXCEPT ![h] = NoAnswer]
    BY <1>3 DEF Retry, Move
  <2>2. call'[h].echo => call'[h].id \in Commands \ Managed
    BY <1>1 DEF Hist, HandlerHist
  <2> QED BY <1>1, <2>1, <2>2, StartHist
<1> QED BY <1>2, <1>3

\* The answer of the store is the history, or is read back.
LEMMA AlreadyAppliedHist ==
    ASSUME Inv, Hist, NEW h \in Handlers, AlreadyApplied(h)
    PROVE  Hist'
<1>1. UNCHANGED <<workspace, ledger, past, wire, call>> /\ pc[h] = "answered" /\ HandlerHist(h)
  BY DEF AlreadyApplied, store, Hist
<1>2. CASE ReadsBack(h)
  <2>1. /\ pc' = [pc EXCEPT ![h] = "readBack"]
        /\ base' = [base EXCEPT ![h] = NoBase]
        /\ answer' = [answer EXCEPT ![h] = NoAnswer]
    BY <1>2 DEF AlreadyApplied, Move
  <2>2. call'[h].echo => call'[h].id \in Commands \ Managed
    BY <1>1 DEF HandlerHist
  <2> QED BY <1>1, <2>1, <2>2, StartHist
<1>3. CASE ~ReadsBack(h) /\ Authorized(h)
  <2>1. End(h, answer[h])
    BY <1>3 DEF AlreadyApplied
  <2> QED BY <1>1, <2>1, EndHist DEF HandlerHist
<1>4. CASE ~ReadsBack(h) /\ ~Authorized(h)
  BY <1>1, <1>4, FailureHist DEF AlreadyApplied
<1> QED BY <1>2, <1>3, <1>4

\* Where the answer brought no snapshot, the one submitted is the history.
LEMMA SucceedHist ==
    ASSUME Inv, Hist, NEW h \in Handlers, Succeed(h)
    PROVE  Hist'
<1>1. /\ UNCHANGED <<workspace, ledger, past, wire, call>> /\ pc[h] = "answered"
      /\ answer[h].outcome = "COMMITTED"
      /\ HandlerHist(h) /\ Answer(answer[h])
  BY DEF Succeed, store, Inv, Hist, HandlerInv
<1> DEFINE written == Effect(call[h].id, base[h].rows)
<1>2. CASE ReadsBack(h)
  <2>1. End(h, [answer[h] EXCEPT !.rows = written])
    BY <1>2 DEF Succeed
  <2>2. Aware(h) => answer[h].rows = written
    BY <1>1, <1>2 DEF HandlerHist, ReadsBack
  <2> HIDE DEF written
  <2>3. PICK reply : reply = [answer[h] EXCEPT !.rows = written]
    OBVIOUS
  <2>4. reply.rows = written /\ reply.rev = answer[h].rev /\ reply.outcome = answer[h].outcome
    BY <1>1, <2>3 DEF Answer
  <2>5. Aware(h) => reply.rows = HistoryAt(reply.rev)
    BY <1>1, <2>2, <2>4 DEF HandlerHist
  <2>6. End(h, reply)
    BY <2>1, <2>3
  <2> QED BY <1>1, <2>4, <2>5, <2>6, EndHist
<1>3. CASE ~ReadsBack(h)
  <2>1. End(h, answer[h])
    BY <1>3 DEF Succeed
  <2> QED BY <1>1, <2>1, EndHist DEF HandlerHist
<1> QED BY <1>2, <1>3

\* A failure shows nothing.
LEMMA FailHist ==
    ASSUME Inv, Hist, NEW h \in Handlers, Fail(h)
    PROVE  Hist'
<1>1. /\ UNCHANGED <<workspace, ledger, past, wire, call>> /\ pc[h] = "answered"
      /\ End(h, answer[h]) /\ HandlerHist(h)
  BY DEF Fail, store, Hist
<1> QED BY <1>1, EndHist DEF HandlerHist

-----------------------------------------------------------------------------
(* Steps on the wire *)

\* A request that carries what its sender read.
LEMMA SendsHist ==
    ASSUME Inv, Hist, NEW h \in Handlers, pc[h] \in {"evaluate", "answered"}, NEW route,
           UNCHANGED <<workspace, ledger, past, call, base>>,
           pc' = [pc EXCEPT ![h] = "waiting"],
           answer' = answer \/ answer' = [answer EXCEPT ![h] = NoAnswer],
           wire' = wire \cup {Request(h, route)},
           call[h].echo => route = "echo"
    PROVE  Hist'
<1>1. /\ DOMAIN pc = Handlers /\ DOMAIN answer = Handlers
      /\ workspace.rev \in Nat /\ DOMAIN ledger = 1 .. workspace.rev
  BY GrantIsOpen DEF Inv, Shape
<1>2. /\ HandlerHist(h) /\ Holds(h) /\ h # Nobody
      /\ base[h].rev \in 0 .. workspace.rev /\ call[h].id \in Ids
  BY StoreConstants DEF Inv, Hist, HandlerInv, Holds
<1>3. StoreHist'
  BY DEF Hist, StoreHist, Window, Made, HistoryAt, PendingRuns
<1>4. ASSUME NEW g \in Handlers, g # h PROVE HandlerHist(g)'
  <2>1. HandlerHist(g) /\ UNCHANGED <<pc[g], call[g], base[g], answer[g]>>
    BY <1>1, <1>4 DEF Hist
  <2> QED BY <2>1, HandlerStays
<1>5. HandlerHist(h)'
  <2>1. /\ pc'[h] = "waiting"
        /\ answer'[h].outcome # "WORKSPACE_INVALID"
    BY <1>1, <1>2, NoBaseHist DEF HandlerHist
  <2>2. /\ Made(base[h].rows, base[h].rev)' = Made(base[h].rows, base[h].rev)
        /\ HistoryAt(base[h].rev)' = HistoryAt(base[h].rev)
        /\ Logical' = Logical
    BY DEF Made, HistoryAt, Logical, PendingRuns
  <2> QED BY <1>2, <2>1, <2>2 DEF HandlerHist, ReadsRuns, Holds, Aware
<1>6. ASSUME NEW q, q = Request(h, route) PROVE RequestHist(q)'
  <2>1. /\ q.from = h /\ q.id = call[h].id /\ q.expected = base[h].rev /\ q.route = route
        /\ q.rows = Effect(q.id, base[h].rows)
    BY <1>6 DEF Request
  <2>2. base[h].rows \in Seq(Ids) /\ Made(base[h].rows, base[h].rev)
    BY <1>2 DEF HandlerHist
  <2>3. /\ q.rows \in Seq(Ids)
        /\ \A i \in DOMAIN q.rows :
               q.rows[i] = q.id \/ \E r \in 1 .. q.expected : ledger[r].id = q.rows[i]
    BY <1>2, <2>1, <2>2, EffectRows DEF Made
  <2>4. q.expected = workspace.rev
        => q.rows = Effect(q.id, workspace.rows) \/ q.rows = Effect(q.id, Logical)
    BY <1>2, <2>1 DEF HandlerHist
  <2>5. Logical' = Logical
    BY DEF Logical, PendingRuns
  <2> QED BY <1>2, <2>1, <2>3, <2>4, <2>5 DEF RequestHist
<1>7. ASSUME NEW q \in wire PROVE RequestHist(q)'
  BY DEF Hist, RequestHist, Logical, PendingRuns
<1>8. \A q \in wire' : RequestHist(q)'
  BY <1>6, <1>7
<1> QED BY <1>3, <1>4, <1>5, <1>8 DEF Hist

\* What is sent was computed from what was read.
LEMMA SendHist ==
    ASSUME Inv, Hist, NEW h \in Handlers, Send(h)
    PROVE  Hist'
<1>1. CASE Authorized(h) /\ (call[h].id \in Polls => holder = call[h].id)
  <2>1. /\ pc[h] = "evaluate" /\ pc' = [pc EXCEPT ![h] = "waiting"]
        /\ wire' = wire \cup {Request(h, Route(h))}
        /\ UNCHANGED <<workspace, ledger, past, call, base, answer>>
    BY <1>1 DEF Send, Move, store
  <2>2. call[h].echo => Route(h) = "echo"
    BY StoreConstants DEF Route, Hist, HandlerHist
  <2> QED BY <2>1, <2>2, SendsHist
<1>2. CASE ~(Authorized(h) /\ (call[h].id \in Polls => holder = call[h].id))
  <2>1. /\ pc[h] # "waiting" /\ End(h, Failure("AUTH_FORBIDDEN"))
        /\ UNCHANGED <<workspace, ledger, past, wire, call>>
    BY <1>2 DEF Send, store
  <2> QED BY <2>1, FailureHist
<1> QED BY <1>1, <1>2

\* The same for the full write of a poll.
LEMMA FallBackHist ==
    ASSUME Inv, Hist, NEW h \in Handlers, FallBack(h)
    PROVE  Hist'
<1>1. /\ pc[h] = "answered" /\ pc' = [pc EXCEPT ![h] = "waiting"]
      /\ wire' = wire \cup {Request(h, "full")}
      /\ answer' = [answer EXCEPT ![h] = NoAnswer]
      /\ UNCHANGED <<workspace, ledger, past, call, base>>
  BY DEF FallBack, Move, store
<1>2. call[h].id \in Polls
  BY DEF FallBack, Inv, HandlerInv
<1>3. ~call[h].echo
  BY <1>2, StoreConstants DEF Hist, HandlerHist
<1> QED BY <1>1, <1>3, SendsHist

\* A request whose sender gave up is still what it was.
LEMMA LoseAnswerHist ==
    ASSUME Inv, Hist, NEW h \in Handlers, LoseAnswer(h)
    PROVE  Hist'
<1>1. /\ DOMAIN pc = Handlers /\ DOMAIN answer = Handlers /\ DOMAIN base = Handlers
      /\ Nobody \notin Handlers
  BY StoreConstants DEF Inv, Shape
<1>2. PICK q \in wire : /\ q.from = h
                        /\ wire' = (wire \ {q}) \cup {[q EXCEPT !.from = Nobody]}
  BY DEF LoseAnswer
<1>3. /\ UNCHANGED <<workspace, ledger, past, call>>
      /\ pc' = [pc EXCEPT ![h] = "done"]
      /\ answer' = [answer EXCEPT ![h] = Failure("WORKSPACE_UNAVAILABLE")]
      /\ base' = [base EXCEPT ![h] = NoBase]
  BY DEF LoseAnswer, End, Move, store
<1>4. /\ Failure("WORKSPACE_UNAVAILABLE").rows = <<>> /\ Failure("WORKSPACE_UNAVAILABLE").rev = 0
      /\ Failure("WORKSPACE_UNAVAILABLE").outcome = "WORKSPACE_UNAVAILABLE"
  BY DEF Failure, NoAnswer
<1>5. StoreHist'
  BY <1>3 DEF Hist, StoreHist, Window, Made, HistoryAt, PendingRuns
<1>6. HandlerHist(h)'
  <2>1. /\ pc'[h] = "done" /\ answer'[h] = Failure("WORKSPACE_UNAVAILABLE") /\ base'[h] = NoBase
        /\ HandlerHist(h)
    BY <1>1, <1>3 DEF Hist
  <2> QED BY <1>3, <1>4, <2>1, NoBaseHist DEF HandlerHist, Made, ReadsRuns, Holds, Aware, HistoryAt
<1>7. ASSUME NEW g \in Handlers, g # h PROVE HandlerHist(g)'
  <2>1. HandlerHist(g) /\ UNCHANGED <<pc[g], call[g], base[g], answer[g]>>
    BY <1>1, <1>3, <1>7 DEF Hist
  <2> QED BY <1>3, <2>1, HandlerStays
<1>8. ASSUME NEW r \in wire, r # q PROVE RequestHist(r)'
  <2>1. RequestHist(r) /\ r.from # h
    BY <1>1, <1>2, <1>8 DEF Inv, OneEach, Hist
  <2> QED BY <1>1, <1>3, <2>1 DEF RequestHist, Logical, PendingRuns
<1>9. ASSUME NEW r, r = [q EXCEPT !.from = Nobody] PROVE RequestHist(r)'
  <2>1. RequestInv(q) /\ RequestHist(q)
    BY DEF Inv, Hist
  <2>2. /\ r.from = Nobody /\ r.id = q.id /\ r.rows = q.rows /\ r.expected = q.expected
    BY <1>9, <2>1 DEF RequestInv
  <2> QED BY <1>3, <2>1, <2>2 DEF RequestHist, Logical, PendingRuns
<1>10. \A r \in wire' : RequestHist(r)'
  BY <1>2, <1>8, <1>9
<1>11. \A g \in Handlers : HandlerHist(g)'
  BY <1>6, <1>7
<1> QED BY <1>5, <1>10, <1>11 DEF Hist

\* A step that leaves the store, the handlers and the wire alone.
LEMMA Untouched ==
    ASSUME Hist, UNCHANGED <<workspace, ledger, past, wire, pc, call, base, answer>>
    PROVE  Hist'
<1>1. StoreHist'
  BY DEF Hist, StoreHist, Window, Made, HistoryAt, PendingRuns
<1>2. \A h \in Handlers : HandlerHist(h)'
  BY HandlerStays DEF Hist
<1>3. \A q \in wire : RequestHist(q)'
  BY DEF Hist, RequestHist, Logical, PendingRuns
<1> QED BY <1>1, <1>2, <1>3 DEF Hist

-----------------------------------------------------------------------------
(* Steps of the store *)

\* The sender of an answered request holds what it held.
LEMMA AnsweredHist ==
    ASSUME Inv, Hist, NEW q \in wire, NEW reply, Answered(q, reply),
           StoreHist',
           \A h \in Handlers : pc'[h] = pc[h] /\ answer'[h] = answer[h] => HandlerHist(h)',
           \A h \in Handlers : Holds(h) =>
               /\ Made(base[h].rows, base[h].rev)'
               /\ Aware(h) => base[h].rows = HistoryAt(base[h].rev)'
               /\ base[h].rev = workspace'.rev
                  => base[h].rows = workspace'.rows \/ base[h].rows = Logical',
           \A r \in wire : RequestHist(r)',
           reply.outcome # "WORKSPACE_INVALID",
           reply.rows = HistoryAt(reply.rev)',
           reply.outcome = "COMMITTED" /\ q.route = "echo" => reply.rows = q.rows
    PROVE  Hist'
<1>1. /\ DOMAIN pc = Handlers /\ DOMAIN answer = Handlers
      /\ RequestInv(q) /\ RequestHist(q)
  BY DEF Inv, Shape, Hist
<1>2. wire' = wire \ {q} /\ UNCHANGED <<call, base>>
  BY DEF Answered
<1>3. CASE q.from = Nobody
  <2>1. UNCHANGED <<pc, answer>>
    BY <1>3 DEF Answered
  <2> QED BY <1>2, <2>1 DEF Hist
<1>4. CASE q.from # Nobody
  <2>1. PICK h \in Handlers : h = q.from
    BY <1>1, <1>4 DEF RequestInv
  <2>2. /\ pc' = [pc EXCEPT ![h] = "answered"]
        /\ answer' = [answer EXCEPT ![h] = reply]
    BY <1>4, <2>1 DEF Answered
  <2>3. /\ HandlerHist(h) /\ Holds(h)
        /\ pc'[h] = "answered" /\ answer'[h] = reply
        /\ q.id = call[h].id /\ q.rows = Effect(q.id, base[h].rows)
        /\ call[h].echo => q.route = "echo"
    BY <1>1, <1>4, <2>1, <2>2 DEF Hist, Holds, RequestInv, RequestHist
  <2>4. /\ Made(base[h].rows, base[h].rev)'
        /\ Aware(h) => base[h].rows = HistoryAt(base[h].rev)'
        /\ base[h].rev = workspace'.rev
           => base[h].rows = workspace'.rows \/ base[h].rows = Logical'
    BY <2>3
  <2>5. answer'[h].rows = HistoryAt(answer[h].rev)'
    BY <2>3 DEF HistoryAt
  <2>6. call[h].echo /\ reply.outcome = "COMMITTED" => reply.rows = Effect(call[h].id, base[h].rows)
    BY <2>3
  <2>7. HandlerHist(h)'
    BY <1>2, <2>3, <2>4, <2>5, <2>6 DEF HandlerHist, ReadsRuns, Holds, Aware
  <2>8. ASSUME NEW g \in Handlers, g # h PROVE HandlerHist(g)'
    BY <1>1, <2>2, <2>8
  <2> QED BY <1>2, <2>7, <2>8 DEF Hist
<1> QED BY <1>3, <1>4

\* A refusal brings the history as it stands, or nothing.
LEMMA RefusedHist ==
    ASSUME Inv, Hist, NEW q \in wire, NEW reply, Refused(q, reply),
           reply.outcome \notin {"WORKSPACE_INVALID", "COMMITTED"},
           reply.rows = HistoryAt(reply.rev)
    PROVE  Hist'
<1>1. Answered(q, reply) /\ UNCHANGED <<workspace, ledger, past, call, base>>
  BY DEF Refused, Answered, store
<1>2. StoreHist'
  BY <1>1 DEF Hist, StoreHist, Window, Made, HistoryAt, PendingRuns
<1>3. ASSUME NEW h \in Handlers, pc'[h] = pc[h], answer'[h] = answer[h] PROVE HandlerHist(h)'
  BY <1>1, <1>3, HandlerStays DEF Hist
<1>4. ASSUME NEW h \in Handlers, Holds(h)
      PROVE  /\ Made(base[h].rows, base[h].rev)'
             /\ Aware(h) => base[h].rows = HistoryAt(base[h].rev)'
             /\ base[h].rev = workspace'.rev
                => base[h].rows = workspace'.rows \/ base[h].rows = Logical'
  <2>1. /\ Made(base[h].rows, base[h].rev)' = Made(base[h].rows, base[h].rev)
        /\ HistoryAt(base[h].rev)' = HistoryAt(base[h].rev)
        /\ Logical' = Logical
    BY <1>1 DEF Made, HistoryAt, Logical, PendingRuns
  <2> QED BY <1>1, <1>4, <2>1 DEF Hist, HandlerHist
<1>5. ASSUME NEW r \in wire PROVE RequestHist(r)'
  BY <1>1 DEF Hist, RequestHist, Logical, PendingRuns
<1>6. reply.rows = HistoryAt(reply.rev)'
  BY <1>1 DEF HistoryAt
<1> QED BY <1>1, <1>2, <1>3, <1>4, <1>5, <1>6, AnsweredHist

\* The refusals of the store.
LEMMA RefusalsHist ==
    ASSUME Inv, Hist, NEW q \in wire, NEW outcome,
           outcome \notin {"WORKSPACE_INVALID", "COMMITTED"},
           Refused(q, Failure(outcome)) \/ Refused(q, Reply(outcome, Logical))
    PROVE  Hist'
<1>1. /\ Failure(outcome).outcome = outcome /\ Failure(outcome).rows = <<>>
      /\ Failure(outcome).rev = 0
  BY DEF Failure, NoAnswer
<1>2. /\ Reply(outcome, Logical).outcome = outcome /\ Reply(outcome, Logical).rows = Logical
      /\ Reply(outcome, Logical).rev = workspace.rev
  BY DEF Reply
<1>3. Logical = HistoryAt(workspace.rev)
  BY DEF Hist, StoreHist, Window, Logical
<1>4. Failure(outcome).rows = HistoryAt(Failure(outcome).rev)
  BY <1>1 DEF HistoryAt
<1>5. Reply(outcome, Logical).rows = HistoryAt(Reply(outcome, Logical).rev)
  BY <1>2, <1>3 DEF HistoryAt
<1>6. CASE Refused(q, Failure(outcome))
  BY <1>1, <1>4, <1>6, RefusedHist
<1>7. CASE Refused(q, Reply(outcome, Logical))
  BY <1>2, <1>5, <1>7, RefusedHist
<1> QED BY <1>6, <1>7

-----------------------------------------------------------------------------
(* A new revision *)

\* A revision with a ledger row and a history.
Grows(e, x) ==
    /\ e \in Entries /\ x \in Seq(Ids)
    /\ ledger' = Append(ledger, e) /\ past' = Append(past, x)
    /\ workspace'.rev = workspace.rev + 1

\* What was in the ledger and in the history stays.
LEMMA Extended ==
    ASSUME Inv, Hist, NEW e, NEW x, Grows(e, x)
    PROVE  /\ workspace.rev \in Nat /\ DOMAIN ledger = 1 .. workspace.rev
           /\ DOMAIN ledger' = 1 .. workspace.rev + 1
           /\ \A r \in 1 .. workspace.rev : ledger'[r] = ledger[r]
           /\ ledger'[workspace.rev + 1] = e
           /\ past' \in Seq(Seq(Ids)) /\ Len(past') = workspace.rev + 1
           /\ \A r \in 1 .. workspace.rev : past'[r] = past[r]
           /\ past'[workspace.rev + 1] = x
<1>1. /\ workspace.rev \in Nat /\ DOMAIN ledger = 1 .. workspace.rev
      /\ ledger \in Seq(Entries) /\ Len(ledger) = workspace.rev
      /\ past \in Seq(Seq(Ids)) /\ Len(past) = workspace.rev
  BY GrantIsOpen DEF Inv, Shape, Hist, StoreHist
<1>2. e \in Entries /\ x \in Seq(Ids) /\ ledger' = Append(ledger, e) /\ past' = Append(past, x)
  BY DEF Grows
<1>3. /\ ledger' \in Seq(Entries) /\ Len(ledger') = workspace.rev + 1
      /\ \A r \in 1 .. workspace.rev : ledger'[r] = ledger[r]
      /\ ledger'[workspace.rev + 1] = e
  BY <1>1, <1>2, AppendProperties
<1>4. /\ past' \in Seq(Seq(Ids)) /\ Len(past') = workspace.rev + 1
      /\ \A r \in 1 .. workspace.rev : past'[r] = past[r]
      /\ past'[workspace.rev + 1] = x
  BY <1>1, <1>2, AppendProperties
<1>5. DOMAIN ledger' = 1 .. workspace.rev + 1
  BY <1>3, LenProperties
<1> QED BY <1>1, <1>3, <1>4, <1>5

\* A row that was read before stays a window, and its revision the past.
LEMMA WindowGrows ==
    ASSUME Inv, Hist, NEW e, NEW x, Grows(e, x), NEW b, b.rev \in 0 .. workspace.rev, Window(b)
    PROVE  Window(b)'
<1>1. /\ workspace.rev \in Nat
      /\ \A r \in 1 .. workspace.rev : ledger'[r] = ledger[r] /\ past'[r] = past[r]
  BY Extended
<1>2. b.mat \in Nat /\ b.mat <= b.rev /\ b.rev \in Nat /\ b.rev <= workspace.rev
  BY <1>1 DEF Window
<1>3. HistoryAt(b.rev)' = HistoryAt(b.rev)
  BY <1>1, <1>2 DEF HistoryAt
<1>4. PendingRuns(b.mat, b.rev)' = PendingRuns(b.mat, b.rev)
  <2>1. \A i \in 1 .. b.rev - b.mat : ledger'[b.mat + i] = ledger[b.mat + i]
    BY <1>1, <1>2
  <2> QED BY <2>1 DEF PendingRuns
<1>5. Made(b.rows, b.mat)'
  <2> SUFFICES ASSUME NEW i \in DOMAIN b.rows
               PROVE  \E r \in 1 .. b.mat : ledger'[r].id = b.rows[i]
    BY DEF Made
  <2>1. PICK r \in 1 .. b.mat : ledger[r].id = b.rows[i]
    BY DEF Window, Made
  <2> QED BY <1>1, <1>2, <2>1
<1>6. \A r \in b.mat + 1 .. b.rev : ledger'[r].run
  BY <1>1, <1>2 DEF Window
<1> QED BY <1>3, <1>4, <1>5, <1>6 DEF Window

\* What was read before is not the current revision any more, and stands.
LEMMA ReadGrows ==
    ASSUME Inv, Hist, NEW e, NEW x, Grows(e, x), NEW h \in Handlers,
           UNCHANGED <<call[h], base[h]>>
    PROVE  /\ base[h].rev # workspace'.rev
           /\ Made(base[h].rows, base[h].rev)'
           /\ HistoryAt(base[h].rev)' = HistoryAt(base[h].rev)
           /\ HistoryAt(answer[h].rev) = IF answer[h].rev = 0 THEN <<>> ELSE past'[answer[h].rev]
           /\ Window(base[h]) => Window(base[h])'
<1>1. /\ workspace.rev \in Nat
      /\ \A r \in 1 .. workspace.rev : ledger'[r] = ledger[r] /\ past'[r] = past[r]
  BY Extended
<1>2. base[h].rev \in 0 .. workspace.rev /\ answer[h].rev \in 0 .. workspace.rev /\ HandlerHist(h)
  BY DEF Inv, HandlerInv, Hist
<1>3. base[h].rev # workspace'.rev
  BY <1>1, <1>2 DEF Grows
<1>4. Made(base[h].rows, base[h].rev)'
  BY <1>1, <1>2 DEF HandlerHist, Made
<1>5. HistoryAt(base[h].rev)' = HistoryAt(base[h].rev)
  BY <1>1, <1>2 DEF HistoryAt
<1>6. HistoryAt(answer[h].rev) = IF answer[h].rev = 0 THEN <<>> ELSE past'[answer[h].rev]
  BY <1>1, <1>2 DEF HistoryAt
<1>7. ASSUME Window(base[h]) PROVE Window(base[h])'
  <2>1. PICK b : b = base[h] /\ b = base'[h]
    OBVIOUS
  <2>2. Window(b)'
    BY <1>2, <1>7, <2>1, WindowGrows
  <2>3. /\ PendingRuns(base[h].mat, base[h].rev)' = PendingRuns(b.mat, b.rev)'
        /\ Made(base[h].rows, base[h].mat)' = Made(b.rows, b.mat)'
        /\ HistoryAt(base[h].rev)' = HistoryAt(b.rev)'
    BY <2>1 DEF Made, HistoryAt, PendingRuns
  <2> QED BY <2>1, <2>2, <2>3 DEF Window
<1> QED BY <1>3, <1>4, <1>5, <1>6, <1>7

\* What a handler holds stays the history at its revision when the store grows.
LEMMA HandlerHistGrows ==
    ASSUME Inv, Hist, NEW e, NEW x, Grows(e, x), NEW h \in Handlers,
           UNCHANGED <<pc[h], call[h], base[h], answer[h]>>
    PROVE  HandlerHist(h)'
<1>1. HandlerHist(h)
  BY DEF Hist
<1>2. /\ base[h].rev # workspace'.rev
      /\ Made(base[h].rows, base[h].rev)'
      /\ HistoryAt(base[h].rev)' = HistoryAt(base[h].rev)
      /\ HistoryAt(answer[h].rev) = IF answer[h].rev = 0 THEN <<>> ELSE past'[answer[h].rev]
      /\ Window(base[h]) => Window(base[h])'
  BY ReadGrows
<1>3. HistoryAt(answer[h].rev)' = HistoryAt(answer[h].rev)
  BY <1>2 DEF HistoryAt
<1>4. Effect(call[h].id, base[h].rows)' = Effect(call[h].id, base[h].rows)
  BY DEF Effect, CommandRows
<1> QED BY <1>1, <1>2, <1>3, <1>4 DEF HandlerHist, ReadsRuns, Holds, Aware

\* A request that was sent before names an older revision.
LEMMA RequestHistGrows ==
    ASSUME Inv, Hist, NEW e, NEW x, Grows(e, x), NEW q \in wire, UNCHANGED <<call, base>>
    PROVE  RequestHist(q)'
<1>1. RequestHist(q)
  BY DEF Hist
<1>2. /\ workspace.rev \in Nat /\ workspace'.rev = workspace.rev + 1
      /\ \A r \in 1 .. workspace.rev : ledger'[r] = ledger[r]
  BY Extended DEF Grows
<1>3. q.expected \in 0 .. workspace'.rev /\ q.expected # workspace'.rev
  BY <1>1, <1>2 DEF RequestHist
<1>4. \A i \in DOMAIN q.rows :
          q.rows[i] = q.id \/ \E r \in 1 .. q.expected : ledger'[r].id = q.rows[i]
  BY <1>1, <1>2 DEF RequestHist
<1> QED BY <1>1, <1>3, <1>4 DEF RequestHist

\* The store after a new revision, when its row is a window again.
LEMMA StoreHistGrows ==
    ASSUME Inv, Hist, NEW e, NEW x, Grows(e, x), Window(workspace)',
           e.run => e.id \in Polls,
           e.id = Nobody \/ ~Known(e.id)
    PROVE  StoreHist'
<1>1. /\ workspace.rev \in Nat /\ DOMAIN ledger = 1 .. workspace.rev
      /\ DOMAIN ledger' = 1 .. workspace.rev + 1
      /\ \A r \in 1 .. workspace.rev : ledger'[r] = ledger[r]
      /\ ledger'[workspace.rev + 1] = e
      /\ past' \in Seq(Seq(Ids)) /\ Len(past') = workspace.rev + 1
  BY Extended
<1>2. StoreHist
  BY DEF Hist
<1>3. \A r \in DOMAIN ledger' : r \in DOMAIN ledger \/ r = workspace.rev + 1
  BY <1>1
<1>4. \A r \in DOMAIN ledger' : ledger'[r].run => ledger'[r].id \in Polls
  BY <1>1, <1>2, <1>3 DEF StoreHist
<1>5. ASSUME NEW r \in DOMAIN ledger', NEW s \in DOMAIN ledger',
             ledger'[r].id = ledger'[s].id, ledger'[r].id # Nobody
      PROVE  r = s
  <2>1. CASE r \in DOMAIN ledger /\ s \in DOMAIN ledger
    BY <1>1, <1>2, <1>5, <2>1 DEF StoreHist
  <2>2. CASE r = workspace.rev + 1 /\ s \in DOMAIN ledger
    BY <1>1, <1>5, <2>2 DEF Known
  <2>3. CASE s = workspace.rev + 1 /\ r \in DOMAIN ledger
    BY <1>1, <1>5, <2>3 DEF Known
  <2> QED BY <1>3, <2>1, <2>2, <2>3
<1>6. Len(past') = workspace'.rev
  BY <1>1 DEF Grows
<1> QED BY <1>1, <1>4, <1>5, <1>6 DEF StoreHist

\* A full write leaves no pending runs.
LEMMA FullWindow ==
    ASSUME Inv, Hist, NEW e, NEW x, Grows(e, x),
           workspace' = [rev |-> workspace.rev + 1, mat |-> workspace.rev + 1, rows |-> x],
           \A i \in DOMAIN x : x[i] = e.id \/ \E r \in 1 .. workspace.rev : ledger[r].id = x[i]
    PROVE  Window(workspace)'
<1>0. PICK next : next = workspace.rev + 1
  OBVIOUS
<1>1. /\ workspace.rev \in Nat
      /\ \A r \in 1 .. workspace.rev : ledger'[r] = ledger[r]
      /\ ledger'[next] = e /\ past'[next] = x
  BY <1>0, Extended
<1>2. workspace'.rev = next /\ workspace'.mat = next /\ workspace'.rows = x
  BY <1>0
<1>3. x \in Seq(Ids) /\ next \in Nat /\ next # 0 /\ MaxPending \in Nat
  BY <1>0, <1>1, StoreConstants DEF Grows
<1>4. Made(x, next)'
  <2> SUFFICES ASSUME NEW i \in DOMAIN x
               PROVE  \E r \in 1 .. next : ledger'[r].id = x[i]
    BY DEF Made
  <2>1. CASE x[i] = e.id
    BY <1>1, <1>3, <2>1
  <2>2. CASE \E r \in 1 .. workspace.rev : ledger[r].id = x[i]
    BY <1>0, <1>1, <1>3, <2>2
  <2> QED BY <2>1, <2>2
<1>5. PendingRuns(workspace.mat, workspace.rev)' = <<>>
  <2>1. PICK n \in Nat : n = next
    BY <1>3
  <2>2. [i \in 1 .. n - n |-> ledger'[n + i].id] = <<>>
    <3>1. [i \in 1 .. n - n |-> ledger'[n + i].id] \in [1 .. 0 -> Ids]
      BY <2>1
    <3>2. 0 \in Nat
      OBVIOUS
    <3>3. \A f \in [1 .. 0 -> Ids] : f \in Seq(Ids) /\ Len(f) = 0
      BY <3>2, SeqOfFunction
    <3> QED BY <3>1, <3>3, EmptySeq
  <2> QED BY <1>2, <2>1, <2>2 DEF PendingRuns
<1>6. HistoryAt(workspace.rev)' = x
  BY <1>1, <1>2, <1>3 DEF HistoryAt
<1>7. x \o <<>> = x
  BY <1>3, ConcatEmptySeq
<1>8. Made(workspace.rows, workspace.mat)'
  BY <1>2, <1>4 DEF Made
<1>9. next - next <= MaxPending /\ next \in 0 .. next /\ ~(\E r \in next + 1 .. next : TRUE)
  BY <1>3
<1> QED BY <1>2, <1>3, <1>5, <1>6, <1>7, <1>8, <1>9 DEF Window

\* A run beside the snapshot widens the window by one.
LEMMA RunWindow ==
    ASSUME Inv, Hist, NEW e, NEW x, Grows(e, x),
           workspace' = [workspace EXCEPT !.rev = workspace.rev + 1],
           e.run, e.id \in Polls, x = Append(Logical, e.id),
           workspace.rev - workspace.mat < MaxPending
    PROVE  Window(workspace)'
<1>0. PICK next, mat, rows, p : /\ next = workspace.rev + 1
                               /\ mat = workspace.mat
                               /\ rows = workspace.rows
                               /\ p = PendingRuns(workspace.mat, workspace.rev)
  OBVIOUS
<1>1. /\ workspace.rev \in Nat
      /\ \A r \in 1 .. workspace.rev : ledger'[r] = ledger[r]
      /\ ledger'[next] = e /\ past'[next] = x
  BY <1>0, Extended
<1>2. Window(workspace) /\ Reading(workspace)
  BY DEF Hist, StoreHist, Inv, Shape
<1>3. workspace'.rev = next /\ workspace'.mat = mat /\ workspace'.rows = rows
  BY <1>0, <1>2 DEF Reading
<1>4. mat \in Nat /\ mat <= workspace.rev /\ rows \in Seq(Ids) /\ MaxPending \in Nat
  BY <1>0, <1>1, <1>2, StoreConstants DEF Window
<1>5. p \in Seq(Ids) /\ rows \o p \in Seq(Ids) /\ e.id \in Ids
  BY <1>0, <1>1, <1>2, WindowRows DEF Ids
<1>6. Len(p) = workspace.rev - mat /\ \A i \in 1 .. workspace.rev - mat : p[i] = ledger[mat + i].id
  <2>1. \A r \in mat + 1 .. workspace.rev : ledger[r].id \in Ids
    <3>1. ASSUME NEW r \in mat + 1 .. workspace.rev PROVE ledger[r].id \in Polls
      <4>1. r \in DOMAIN ledger /\ ledger[r].run
        BY <1>0, <1>1, <1>2, <1>4, Extended DEF Window
      <4> QED BY <4>1 DEF Hist, StoreHist
    <3> QED BY <3>1 DEF Ids
  <2> QED BY <1>0, <1>1, <1>4, <2>1, PendingSeq
<1>7. /\ Append(p, e.id) \in Seq(Ids) /\ Len(Append(p, e.id)) = Len(p) + 1
      /\ \A i \in 1 .. Len(p) : Append(p, e.id)[i] = p[i]
      /\ Append(p, e.id)[Len(p) + 1] = e.id
  BY <1>5, AppendProperties
<1>8. PendingRuns(workspace.mat, workspace.rev)' = Append(p, e.id)
  <2>1. PendingRuns(workspace.mat, workspace.rev)' = [i \in 1 .. next - mat |-> ledger'[mat + i].id]
    BY <1>3 DEF PendingRuns
  <2>2. DOMAIN Append(p, e.id) = 1 .. next - mat
    BY <1>0, <1>1, <1>4, <1>6, <1>7, LenProperties
  <2>3. Append(p, e.id) = [i \in DOMAIN Append(p, e.id) |-> Append(p, e.id)[i]]
    BY <1>7, LenProperties
  <2>4. ASSUME NEW i \in 1 .. next - mat PROVE ledger'[mat + i].id = Append(p, e.id)[i]
    <3>1. CASE i <= Len(p)
      <4>1. /\ i \in 1 .. workspace.rev - mat /\ i \in 1 .. Len(p)
            /\ mat + i \in 1 .. workspace.rev
        BY <1>0, <1>1, <1>4, <1>6, <3>1
      <4> QED BY <1>1, <1>6, <1>7, <4>1
    <3>2. CASE i = Len(p) + 1
      BY <1>0, <1>1, <1>4, <1>6, <1>7, <3>2
    <3> QED BY <1>0, <1>1, <1>4, <1>6, <3>1, <3>2
  <2> QED BY <2>1, <2>2, <2>3, <2>4
<1>9. rows \o Append(p, e.id) = x
  <2>1. <<e.id>> \in Seq(Ids)
    BY <1>5
  <2>2. Append(p, e.id) = p \o <<e.id>> /\ Append(rows \o p, e.id) = (rows \o p) \o <<e.id>>
    BY <1>5, AppendIsConcat
  <2>3. (rows \o p) \o <<e.id>> = rows \o (p \o <<e.id>>)
    BY <1>4, <1>5, <2>1, ConcatAssociative
  <2> QED BY <1>0, <2>2, <2>3 DEF Logical
<1>10. HistoryAt(workspace.rev)' = x
  BY <1>0, <1>1, <1>3 DEF HistoryAt
<1>11. Made(workspace.rows, workspace.mat)'
  <2> SUFFICES ASSUME NEW i \in DOMAIN rows
               PROVE  \E r \in 1 .. mat : ledger'[r].id = rows[i]
    BY <1>3 DEF Made
  <2>1. PICK r \in 1 .. mat : ledger[r].id = rows[i]
    BY <1>0, <1>2 DEF Window, Made
  <2> QED BY <1>1, <1>4, <2>1
<1>12. ASSUME NEW r \in mat + 1 .. next PROVE ledger'[r].run
  <2>1. CASE r = next
    BY <1>1, <2>1
  <2>2. CASE r # next
    <3>1. r \in mat + 1 .. workspace.rev /\ r \in 1 .. workspace.rev
      BY <1>0, <1>1, <1>4, <2>2
    <3> QED BY <1>0, <1>1, <1>2, <3>1 DEF Window
  <2> QED BY <2>1, <2>2
<1>13. mat \in 0 .. next /\ next - mat <= MaxPending
  BY <1>0, <1>1, <1>4
<1> QED BY <1>3, <1>4, <1>8, <1>9, <1>10, <1>11, <1>12, <1>13 DEF Window

\* A committed request: its sender gets the new history.
LEMMA GrantedHist ==
    ASSUME Inv, Hist, NEW q \in wire, NEW e, NEW x, Grows(e, x), StoreHist',
           Answered(q, [outcome |-> "COMMITTED", rev |-> workspace.rev + 1, rows |-> x]),
           q.route = "echo" => x = q.rows
    PROVE  Hist'
<1>0. PICK reply : reply = [outcome |-> "COMMITTED", rev |-> workspace.rev + 1, rows |-> x]
  OBVIOUS
<1>1. UNCHANGED <<call, base>>
  BY DEF Answered
<1>2. reply.rows = HistoryAt(reply.rev)'
  BY <1>0, Extended DEF HistoryAt
<1>3. /\ reply.outcome # "WORKSPACE_INVALID" /\ reply.rows = x
      /\ Answered(q, reply)
  BY <1>0
<1>4. ASSUME NEW h \in Handlers, pc'[h] = pc[h], answer'[h] = answer[h] PROVE HandlerHist(h)'
  BY <1>1, <1>4, HandlerHistGrows
<1>5. ASSUME NEW h \in Handlers, Holds(h)
      PROVE  /\ Made(base[h].rows, base[h].rev)'
             /\ Aware(h) => base[h].rows = HistoryAt(base[h].rev)'
             /\ base[h].rev = workspace'.rev
                => base[h].rows = workspace'.rows \/ base[h].rows = Logical'
  <2>1. /\ base[h].rev # workspace'.rev
        /\ Made(base[h].rows, base[h].rev)'
        /\ HistoryAt(base[h].rev)' = HistoryAt(base[h].rev)
    BY <1>1, ReadGrows
  <2> QED BY <1>5, <2>1 DEF Hist, HandlerHist
<1>6. \A r \in wire : RequestHist(r)'
  BY <1>1, RequestHistGrows
<1> QED BY <1>2, <1>3, <1>4, <1>5, <1>6, AnsweredHist

\* The pending runs are no commands: they follow the snapshot, and to write
\* over a command is to write over a row of the snapshot.
LEMMA LogicalRows ==
    ASSUME Inv, Hist
    PROVE  LET w == workspace.rows
               p == PendingRuns(workspace.mat, workspace.rev)
           IN  /\ w \in Seq(Ids) /\ p \in Seq(Ids) /\ Logical \in Seq(Ids)
               /\ Len(p) = workspace.rev - workspace.mat
               /\ Len(Logical) = Len(w) + Len(p)
               /\ \A i \in 1 .. Len(w) : Logical[i] = w[i]
               /\ \A k \in 1 .. Len(p) : /\ Logical[Len(w) + k] = p[k]
                                        /\ p[k] \in Polls /\ Known(p[k])
               /\ CommandRows(Logical) = CommandRows(w)
               /\ Made(Logical, workspace.rev)
<1>1. /\ workspace.rev \in Nat /\ DOMAIN ledger = 1 .. workspace.rev
      /\ StoreHist /\ Window(workspace)
  BY GrantIsOpen DEF Inv, Shape, Hist, StoreHist
<1>2. PICK w, p : w = workspace.rows /\ p = PendingRuns(workspace.mat, workspace.rev)
  OBVIOUS
<1>3. /\ workspace.mat \in Nat /\ workspace.mat <= workspace.rev
      /\ w \in Seq(Ids) /\ Logical = w \o p
  <2>1. workspace.mat \in Nat /\ workspace.mat <= workspace.rev
    BY <1>1 DEF Window
  <2>2. w \in Seq(Ids)
    BY <1>1, <1>2 DEF Window, StoreHist, Made
  <2>3. Logical = w \o p
    BY <1>2 DEF Logical
  <2> QED BY <2>1, <2>2, <2>3
<1>4. ASSUME NEW r \in workspace.mat + 1 .. workspace.rev
      PROVE  ledger[r].id \in Polls /\ ledger[r].id \in Ids /\ Known(ledger[r].id)
  <2>1. r \in DOMAIN ledger /\ ledger[r].run
    BY <1>1, <1>3 DEF Window
  <2> QED BY <1>1, <2>1 DEF StoreHist, Ids, Known
<1>5. /\ p \in Seq(Ids) /\ Len(p) = workspace.rev - workspace.mat
      /\ \A k \in 1 .. workspace.rev - workspace.mat : p[k] = ledger[workspace.mat + k].id
  BY <1>1, <1>2, <1>3, <1>4, PendingSeq
<1>6. ASSUME NEW k \in 1 .. Len(p) PROVE p[k] \in Polls /\ Known(p[k])
  <2>1. workspace.mat + k \in workspace.mat + 1 .. workspace.rev
    BY <1>1, <1>3, <1>5
  <2> QED BY <1>4, <1>5, <2>1
<1>7. /\ Logical \in Seq(Ids) /\ Len(Logical) = Len(w) + Len(p)
      /\ \A i \in 1 .. Len(w) + Len(p) :
             Logical[i] = IF i <= Len(w) THEN w[i] ELSE p[i - Len(w)]
  BY <1>3, <1>5, ConcatProperties
<1>8. /\ Len(w) \in Nat /\ DOMAIN w = 1 .. Len(w) /\ Len(p) \in Nat
      /\ DOMAIN Logical = 1 .. Len(w) + Len(p)
  BY <1>3, <1>5, <1>7, LenProperties
<1>9. \A i \in 1 .. Len(w) : Logical[i] = w[i]
  BY <1>7, <1>8
<1>10. ASSUME NEW k \in 1 .. Len(p) PROVE Logical[Len(w) + k] = p[k]
  <2>1. Len(w) + k \in 1 .. Len(w) + Len(p) /\ ~(Len(w) + k <= Len(w)) /\ (Len(w) + k) - Len(w) = k
    BY <1>8
  <2> QED BY <1>7, <2>1
<1>11. CommandRows(Logical) = CommandRows(w)
  <2>1. ASSUME NEW i \in DOMAIN Logical, Logical[i] \in Commands
        PROVE  i \in DOMAIN w /\ w[i] \in Commands
    <3>1. CASE i <= Len(w)
      BY <1>8, <1>9, <2>1, <3>1
    <3>2. CASE i > Len(w)
      <4>1. PICK k \in 1 .. Len(p) : i = Len(w) + k
        <5>1. i - Len(w) \in 1 .. Len(p) /\ i = Len(w) + (i - Len(w))
          BY <1>8, <3>2
        <5> QED BY <5>1
      <4> QED BY <1>6, <1>10, <2>1, <4>1, StoreConstants
    <3> QED BY <1>8, <3>1, <3>2
  <2>2. \A i \in DOMAIN w : i \in DOMAIN Logical /\ Logical[i] = w[i]
    BY <1>8, <1>9
  <2> QED BY <2>1, <2>2 DEF CommandRows
<1>12. Made(Logical, workspace.rev)
  BY <1>1, WindowRows DEF Logical
<1> QED BY <1>2, <1>3, <1>5, <1>6, <1>7, <1>9, <1>10, <1>11, <1>12

\* A sequence without its beginning.
LEMMA LastRow ==
    ASSUME NEW S, NEW s \in Seq(S), NEW n \in 1 .. Len(s), n = Len(s)
    PROVE  SubSeq(s, n, n) = <<s[n]>>
<1>1. n \in Int /\ \A i \in n .. n : s[i] \in S
  BY ElementOfSeq
<1>2. /\ SubSeq(s, n, n) \in Seq(S)
      /\ Len(SubSeq(s, n, n)) = IF n <= n THEN n - n + 1 ELSE 0
      /\ \A i \in 1 .. n - n + 1 : SubSeq(s, n, n)[i] = s[n + i - 1]
  BY <1>1, SubSeqProperties
<1>3. Len(SubSeq(s, n, n)) = 1 /\ SubSeq(s, n, n)[1] = s[n]
  BY <1>1, <1>2
<1>4. <<s[n]>> \in Seq(S) /\ Len(<<s[n]>>) = 1 /\ <<s[n]>>[1] = s[n]
  BY ElementOfSeq
<1>5. PICK t \in Seq(S), u \in Seq(S) : t = SubSeq(s, n, n) /\ u = <<s[n]>>
  BY <1>2, <1>4
<1>6. Len(t) = Len(u) /\ Len(t) = 1 /\ t[1] = u[1]
  BY <1>3, <1>4, <1>5
<1>7. \A i \in 1 .. Len(t) : t[i] = u[i]
  BY <1>6
<1>8. t = u
  BY <1>6, <1>7, SeqEqual
<1> QED BY <1>5, <1>8

\* What a commit writes is the effect of its command on the whole history,
\* whichever of the two its sender had read.
LEMMA MergeIsEffect ==
    ASSUME Inv, Hist, NEW q \in wire, q.expected = workspace.rev,
           Mergeable(q.rows), ~Known(q.id)
    PROVE  Merged(q.rows) = Effect(q.id, Logical)
<1>1. /\ RequestHist(q) /\ q.id \in Ids
      /\ workspace.rev \in Nat /\ DOMAIN ledger = 1 .. workspace.rev
      /\ workspace.mat \in Nat /\ workspace.mat <= workspace.rev
  BY GrantIsOpen DEF Inv, Shape, RequestInv, Hist, StoreHist, Window
<1>2. PICK w, p, rows, id :
          /\ w = workspace.rows /\ p = PendingRuns(workspace.mat, workspace.rev)
          /\ rows = q.rows /\ id = q.id
  OBVIOUS
<1>3. /\ w \in Seq(Ids) /\ p \in Seq(Ids) /\ Logical \in Seq(Ids)
      /\ Len(p) = workspace.rev - workspace.mat
      /\ Len(Logical) = Len(w) + Len(p)
      /\ \A i \in 1 .. Len(w) : Logical[i] = w[i]
      /\ \A k \in 1 .. Len(p) : Logical[Len(w) + k] = p[k] /\ p[k] \in Polls /\ Known(p[k])
      /\ CommandRows(Logical) = CommandRows(w)
  BY <1>2, LogicalRows
<1>4. /\ Len(w) \in Nat /\ DOMAIN w = 1 .. Len(w)
      /\ Len(p) \in Nat /\ DOMAIN p = 1 .. Len(p)
      /\ DOMAIN Logical = 1 .. Len(Logical) /\ Len(Logical) \in Nat
  BY <1>3, LenProperties
<1>5. rows = Effect(id, w) \/ rows = Effect(id, Logical)
  BY <1>1, <1>2 DEF RequestHist
<1>6. CASE workspace.mat = workspace.rev
  <2>1. p = <<>>
    BY <1>1, <1>2, <1>6, NoPending
  <2>2. Logical = w
    BY <1>2, <1>3, <2>1, ConcatEmptySeq DEF Logical
  <2> QED BY <1>2, <1>5, <1>6, <2>2 DEF Merged
<1>7. CASE workspace.mat # workspace.rev
  <2>1. Len(p) >= 1
    BY <1>1, <1>3, <1>7
  <2>2. Len(w) + 1 \in DOMAIN Logical /\ Logical[Len(w) + 1] = p[1] /\ p[1] \in Polls /\ Known(p[1])
    BY <1>3, <1>4, <2>1
  <2>3. CASE rows = Effect(id, Logical)
    <3>1. Len(w) + 1 \in DOMAIN rows /\ rows[Len(w) + 1] = p[1]
      <4>1. CASE id \in Rewriting /\ CommandRows(Logical) # {}
        <5>1. PICK k \in CommandRows(Logical) : rows = [Logical EXCEPT ![k] = id]
          BY <2>3, <4>1 DEF Effect
        <5>2. k # Len(w) + 1
          BY <2>2, <5>1, StoreConstants DEF CommandRows
        <5>3. DOMAIN rows = DOMAIN Logical /\ rows[Len(w) + 1] = Logical[Len(w) + 1]
          BY <2>2, <5>1, <5>2
        <5> QED BY <2>2, <5>3
      <4>2. CASE ~(id \in Rewriting /\ CommandRows(Logical) # {})
        <5>1. rows = Append(Logical, id)
          BY <2>3, <4>2 DEF Effect
        <5>2. /\ rows \in Seq(Ids) /\ Len(rows) = Len(Logical) + 1
              /\ \A i \in 1 .. Len(Logical) : rows[i] = Logical[i]
          BY <1>1, <1>2, <1>3, <5>1, AppendProperties
        <5>3. DOMAIN rows = 1 .. Len(Logical) + 1
          BY <5>2, LenProperties
        <5> QED BY <1>4, <2>2, <5>2, <5>3
      <4> QED BY <4>1, <4>2
    <3>2. ~Ignores(rows)
      BY <1>2, <1>4, <2>1, <3>1 DEF Ignores
    <3> QED BY <1>2, <2>3, <3>2 DEF Merged
  <2>4. CASE rows = Effect(id, w) /\ id \in Rewriting /\ CommandRows(w) # {}
    <3>1. PICK k \in CommandRows(w) : rows = [w EXCEPT ![k] = id]
      BY <2>4 DEF Effect
    <3>2. k \in DOMAIN w /\ DOMAIN rows = DOMAIN w /\ rows[k] = id
      BY <3>1 DEF CommandRows
    <3>3. w[k] # id
      <4>1. Made(workspace.rows, workspace.mat)
        BY DEF Hist, StoreHist, Window
      <4>2. PICK r \in 1 .. workspace.mat : ledger[r].id = w[k]
        BY <1>2, <3>2, <4>1 DEF Made
      <4>3. r \in DOMAIN ledger
        BY <1>1
      <4> QED BY <1>2, <4>2, <4>3 DEF Known
    <3>4. ~Ignores(rows)
      BY <1>2, <3>2, <3>3 DEF Ignores, IsPrefix
    <3>5. Len(rows) = Len(w)
      <4>1. rows \in Seq(Ids)
        BY <1>1, <1>2 DEF RequestHist
      <4>2. DOMAIN rows = 1 .. Len(rows) /\ Len(rows) \in Nat
        BY <4>1, LenProperties
      <4> QED BY <1>4, <3>2, <4>2
    <3>6. ~Knows(rows)
      <4> SUFFICES ASSUME Knows(rows) PROVE FALSE
        OBVIOUS
      <4>1. Len(Logical) <= Len(rows)
        BY DEF Knows, IsPrefix, Logical
      <4> QED BY <1>3, <1>4, <2>1, <3>5, <4>1
    <3> QED BY <1>2, <1>7, <3>4, <3>6 DEF Mergeable
  <2>5. CASE rows = Effect(id, w) /\ ~(id \in Rewriting /\ CommandRows(w) # {})
    <3>1. rows = Append(w, id) /\ Effect(id, Logical) = Append(Logical, id)
      BY <1>3, <2>5 DEF Effect
    <3>2. /\ rows \in Seq(Ids) /\ Len(rows) = Len(w) + 1 /\ rows[Len(w) + 1] = id
      BY <1>1, <1>2, <1>3, <3>1, AppendProperties
    <3>3. Ignores(rows)
      <4>1. ~Knows(rows)
        <5> SUFFICES ASSUME Knows(rows) PROVE FALSE
          OBVIOUS
        <5>1. Len(Logical) <= Len(rows) /\ \A i \in DOMAIN Logical : Logical[i] = rows[i]
          BY <1>2 DEF Knows, IsPrefix, Logical
        <5>2. id = p[1]
          BY <2>2, <3>2, <5>1
        <5> QED BY <1>2, <2>2, <5>2
      <4> QED BY <1>2, <1>7, <4>1 DEF Mergeable
    <3>4. Merged(rows) = Logical \o SubSeq(rows, Len(w) + 1, Len(rows))
      BY <1>2, <1>7, <3>3 DEF Merged
    <3>5. PICK n \in 1 .. Len(rows) : n = Len(w) + 1 /\ n = Len(rows)
      BY <1>4, <3>2
    <3>6. SubSeq(rows, n, n) = <<rows[n]>>
      BY <3>2, <3>5, LastRow
    <3>7. Merged(rows) = Logical \o <<id>>
      BY <3>2, <3>4, <3>5, <3>6
    <3> QED BY <1>1, <1>2, <1>3, <3>1, <3>7, AppendIsConcat
  <2> QED BY <1>5, <2>3, <2>4, <2>5
<1> QED BY <1>6, <1>7

\* So what it writes are rows that were there, and its own.
LEMMA MergedRows ==
    ASSUME Inv, Hist, NEW q \in wire, q.expected = workspace.rev,
           Mergeable(q.rows), ~Known(q.id)
    PROVE  /\ Merged(q.rows) \in Seq(Ids)
           /\ \A i \in DOMAIN Merged(q.rows) :
                  \/ Merged(q.rows)[i] = q.id
                  \/ \E r \in 1 .. workspace.rev : ledger[r].id = Merged(q.rows)[i]
<1>1. Merged(q.rows) = Effect(q.id, Logical)
  BY MergeIsEffect
<1>2. q.id \in Ids
  BY DEF Inv, RequestInv
<1>3. Logical \in Seq(Ids) /\ Made(Logical, workspace.rev)
  BY LogicalRows
<1> QED BY <1>1, <1>2, <1>3, EffectRows DEF Made

\* The commit, with all its refusals.
LEMMA CommitHist ==
    ASSUME Inv, Hist, NEW q \in wire, Commit(q)
    PROVE  Hist'
<1>1. RequestInv(q) /\ RequestHist(q)
  BY DEF Inv, Hist
<1>2. CASE ~GrantStands(q)
  BY <1>2, RefusalsHist DEF Commit
<1>3. CASE GrantStands(q) /\ Known(q.id)
  BY <1>3, RefusalsHist DEF Commit
<1>4. CASE GrantStands(q) /\ ~Known(q.id) /\ q.expected # workspace.rev
  BY <1>4, RefusalsHist DEF Commit
<1>5. CASE /\ GrantStands(q) /\ ~Known(q.id) /\ q.expected = workspace.rev
           /\ ~Mergeable(q.rows) \/ ~WritesAsSent(q)
  BY <1>5, RefusalsHist DEF Commit
<1>6. CASE /\ GrantStands(q) /\ ~Known(q.id) /\ q.expected = workspace.rev
           /\ ~(~Mergeable(q.rows) \/ ~WritesAsSent(q))
  <2>1. Written(q, Merged(q.rows))
    BY <1>6 DEF Commit
  <2>2. PICK e, x : e = Entry(q.id, FALSE, q.admitted) /\ x = Merged(q.rows)
    OBVIOUS
  <2>3. /\ x \in Seq(Ids)
        /\ \A i \in DOMAIN x : x[i] = q.id \/ \E r \in 1 .. workspace.rev : ledger[r].id = x[i]
    BY <1>6, <2>2, MergedRows
  <2>4. /\ workspace' = [rev |-> workspace.rev + 1, mat |-> workspace.rev + 1, rows |-> x]
        /\ ledger' = Append(ledger, e) /\ past' = Append(past, x)
        /\ Answered(q, [outcome |-> "COMMITTED", rev |-> workspace.rev + 1, rows |-> x])
    BY <2>1, <2>2 DEF Written
  <2>5. q.admitted \in Nat
    BY <1>1, GrantIsOpen DEF Inv, RequestInv, Admission
  <2>6. e \in Entries /\ e.id = q.id /\ ~e.run /\ ~Known(e.id)
    BY <1>1, <1>6, <2>2, <2>5 DEF Entries, Entry, RequestInv
  <2>7. Grows(e, x)
    BY <2>3, <2>4, <2>6 DEF Grows
  <2>8. Window(workspace)'
    BY <2>3, <2>4, <2>6, <2>7, FullWindow
  <2>9. StoreHist'
    BY <2>6, <2>7, <2>8, StoreHistGrows
  <2>10. q.route = "echo" => x = q.rows
    BY <1>6, <2>2 DEF WritesAsSent
  <2> QED BY <2>4, <2>7, <2>9, <2>10, GrantedHist
<1> QED BY <1>2, <1>3, <1>4, <1>5, <1>6

\* The checkpoint, with all its refusals.
LEMMA CheckpointHist ==
    ASSUME Inv, Hist, NEW q \in wire, NEW eligible, Checkpoint(q, eligible)
    PROVE  Hist'
<1>1. q.id \in Polls /\ q.route # "echo"
  BY DEF Inv, Checkpoint, RequestInv
<1>2. CASE holder # q.id
  BY <1>2, RefusalsHist DEF Checkpoint
<1>3. CASE holder = q.id /\ Known(q.id)
  BY <1>3, RefusalsHist DEF Checkpoint
<1>4. CASE holder = q.id /\ ~Known(q.id) /\ q.expected # workspace.rev
  BY <1>4, RefusalsHist DEF Checkpoint
<1>5. CASE /\ holder = q.id /\ ~Known(q.id) /\ q.expected = workspace.rev
           /\ ~eligible \/ workspace.rev - workspace.mat >= MaxPending
  BY <1>5, RefusalsHist DEF Checkpoint
<1>6. CASE /\ holder = q.id /\ ~Known(q.id) /\ q.expected = workspace.rev
           /\ ~(~eligible \/ workspace.rev - workspace.mat >= MaxPending)
  <2>1. Checkpointed(q)
    BY <1>6 DEF Checkpoint
  <2>2. PICK e, x : e = Entry(q.id, TRUE, 0) /\ x = Append(Logical, q.id)
    OBVIOUS
  <2>3. /\ workspace' = [workspace EXCEPT !.rev = workspace.rev + 1]
        /\ ledger' = Append(ledger, e) /\ past' = Append(past, x)
        /\ Answered(q, [outcome |-> "COMMITTED", rev |-> workspace.rev + 1, rows |-> x])
    BY <2>1, <2>2 DEF Checkpointed
  <2>4. e \in Entries /\ e.id = q.id /\ e.run /\ ~Known(e.id)
    BY <1>1, <1>6, <2>2 DEF Entries, Entry, Ids
  <2>5. Window(workspace) /\ Reading(workspace) /\ workspace.rev \in Nat
    BY DEF Hist, StoreHist, Inv, Shape
  <2>6. Logical \in Seq(Ids)
    BY <2>5, WindowRows DEF Logical
  <2>7. x \in Seq(Ids) /\ x = Append(Logical, e.id)
    BY <1>1, <2>2, <2>4, <2>6, AppendProperties DEF Ids
  <2>8. Grows(e, x)
    BY <2>3, <2>4, <2>5, <2>7 DEF Grows, Reading
  <2>9. workspace.rev - workspace.mat < MaxPending
    BY <1>6, <2>5, StoreConstants DEF Window
  <2>10. Window(workspace)'
    BY <1>1, <2>3, <2>4, <2>7, <2>8, <2>9, RunWindow
  <2>11. StoreHist'
    BY <1>1, <2>4, <2>8, <2>10, StoreHistGrows
  <2> QED BY <1>1, <2>3, <2>8, <2>11, GrantedHist
<1> QED BY <1>2, <1>3, <1>4, <1>5, <1>6

\* A drain materializes the history as it is.
LEMMA DrainHist ==
    ASSUME Inv, Hist, Drain
    PROVE  Hist'
<1>1. PICK e, x : e = Entry(Nobody, FALSE, 0) /\ x = Logical
  OBVIOUS
<1>2. /\ workspace' = [rev |-> workspace.rev + 1, mat |-> workspace.rev + 1, rows |-> x]
      /\ ledger' = Append(ledger, e) /\ past' = Append(past, x)
      /\ UNCHANGED <<wire, pc, call, base, answer>>
  BY <1>1 DEF Drain, local
<1>3. e \in Entries /\ e.id = Nobody /\ ~e.run
  BY <1>1 DEF Entries, Entry
<1>4. x \in Seq(Ids) /\ Made(x, workspace.rev)
  <2>1. Window(workspace) /\ workspace.rev \in Nat
    BY DEF Hist, StoreHist, Inv, Shape
  <2> QED BY <1>1, <2>1, WindowRows DEF Logical
<1>5. Grows(e, x)
  BY <1>2, <1>3, <1>4 DEF Grows
<1>6. Window(workspace)'
  BY <1>2, <1>4, <1>5, FullWindow DEF Made
<1>7. StoreHist'
  BY <1>3, <1>5, <1>6, StoreHistGrows
<1>8. \A h \in Handlers : HandlerHist(h)'
  BY <1>2, <1>5, HandlerHistGrows
<1>9. \A q \in wire : RequestHist(q)'
  BY <1>2, <1>5, RequestHistGrows
<1> QED BY <1>2, <1>7, <1>8, <1>9 DEF Hist

-----------------------------------------------------------------------------
\* Every step keeps the invariant.
LEMMA NextHist == Inv /\ Hist /\ [Next]_vars => Hist'
<1> SUFFICES ASSUME Inv, Hist, [Next]_vars PROVE Hist'
  OBVIOUS
<1>1. ASSUME NEW h \in Handlers, HandlerStep(h) PROVE Hist'
  <2>1. CASE \E id \in Ids, aware, echo \in BOOLEAN : Begin(h, id, aware, echo)
    BY <2>1, BeginHist
  <2>2. CASE ReadRow(h)
    BY <2>2, ReadRowHist
  <2>3. CASE ReadRuns(h)
    BY <2>3, ReadRunsHist
  <2>4. CASE Lookup(h)
    BY <2>4, LookupHist
  <2>5. CASE Tell(h) \/ NoWrite(h)
    BY <2>5, TellHist
  <2>6. CASE Send(h)
    BY <2>6, SendHist
  <2>7. CASE Retry(h)
    BY <2>7, RetryHist
  <2>8. CASE AlreadyApplied(h)
    BY <2>8, AlreadyAppliedHist
  <2>9. CASE Succeed(h)
    BY <2>9, SucceedHist
  <2>10. CASE FallBack(h)
    BY <2>10, FallBackHist
  <2>11. CASE LoseAnswer(h)
    BY <2>11, LoseAnswerHist
  <2>12. CASE Release(h)
    BY <2>12, Untouched DEF Release, store, local
  <2>13. CASE Fail(h)
    BY <2>13, FailHist
  <2> QED BY <1>1, <2>1, <2>2, <2>3, <2>4, <2>5, <2>6, <2>7, <2>8, <2>9, <2>10, <2>11, <2>12,
             <2>13 DEF HandlerStep
<1>2. ASSUME NEW q \in wire, Commit(q) \/ \E eligible \in BOOLEAN : Checkpoint(q, eligible)
      PROVE Hist'
  BY <1>2, CommitHist, CheckpointHist
<1>3. CASE Drain
  BY <1>3, DrainHist
<1>4. CASE LoseLease
  BY <1>4, Untouched DEF LoseLease, store, local
<1>5. ASSUME NEW approve \in BOOLEAN, Decide(approve) PROVE Hist'
  BY <1>5, Untouched DEF Decide, store, local
<1>6. CASE UNCHANGED vars
  BY <1>6, Untouched DEF vars
<1> QED BY <1>1, <1>2, <1>3, <1>4, <1>5, <1>6 DEF Next

\* Reading the row and the pending runs in two requests is enough: whatever
\* comes between, a reader gets the history at the revision it names, and no
\* window is ever refused.
THEOREM ReadersSeeTheHistory == Spec => []SnapshotsAreExact
<1>1. Init => Inv /\ Hist
  BY InitInv, InitHist
<1>2. Inv /\ Hist /\ [Next]_vars => (Inv /\ Hist)'
  BY NextInv, NextHist
<1>3. Hist => SnapshotsAreExact
  BY HistImplies
<1> QED BY <1>1, <1>2, <1>3, PTL DEF Spec

-----------------------------------------------------------------------------
(* The store implements the abstract history *)

\* After a step that makes a revision, the whole history is the one recorded
\* with it, and its command is among the applied ones.
LEMMA GrowsRefines ==
    ASSUME Inv, Hist, Hist', NEW e, NEW x, Grows(e, x)
    PROVE  /\ Logical' = x
           /\ e.id # Nobody => Applied' = Applied \cup {e.id}
           /\ e.id = Nobody => Applied' = Applied
<1>1. /\ workspace.rev \in Nat /\ DOMAIN ledger = 1 .. workspace.rev
      /\ DOMAIN ledger' = 1 .. workspace.rev + 1
      /\ \A r \in 1 .. workspace.rev : ledger'[r] = ledger[r]
      /\ ledger'[workspace.rev + 1] = e
      /\ past'[workspace.rev + 1] = x
      /\ workspace'.rev = workspace.rev + 1
  BY Extended DEF Grows
<1>2. Logical' = HistoryAt(workspace.rev)'
  BY DEF Hist, StoreHist, Window, Logical
<1>3. HistoryAt(workspace.rev)' = x
  BY <1>1 DEF HistoryAt
<1>4. {ledger'[r].id : r \in DOMAIN ledger'} = {ledger[r].id : r \in DOMAIN ledger} \cup {e.id}
  <2>1. ASSUME NEW r \in DOMAIN ledger' PROVE ledger'[r].id \in {ledger[s].id : s \in DOMAIN ledger} \cup {e.id}
    BY <1>1, <2>1
  <2>2. ASSUME NEW r \in DOMAIN ledger PROVE r \in DOMAIN ledger' /\ ledger'[r].id = ledger[r].id
    BY <1>1, <2>2
  <2>3. workspace.rev + 1 \in DOMAIN ledger'
    BY <1>1
  <2> QED BY <1>1, <2>1, <2>2, <2>3
<1> QED BY <1>2, <1>3, <1>4 DEF Applied

\* A revision made by a command is an application of that command.
LEMMA ApplyRefines ==
    ASSUME Inv, Hist, Hist', NEW e, NEW x, Grows(e, x),
           e.id \in Ids, ~Known(e.id), x = Effect(e.id, Logical)
    PROVE  \E id \in Ids : History!Apply(id)
<1>1. e.id # Nobody
  BY StoreConstants
<1>2. Logical' = Effect(e.id, Logical) /\ Applied' = Applied \cup {e.id}
  BY <1>1, GrowsRefines
<1>3. e.id \notin Applied
  BY DEF Applied, Known
<1>4. workspace'.rev = workspace.rev + 1
  BY DEF Grows
<1> QED BY <1>2, <1>3, <1>4 DEF History!Apply

\* A step that leaves the row and the ledger alone says nothing.
LEMMA StutterRefines ==
    ASSUME UNCHANGED <<workspace, ledger>>
    PROVE  UNCHANGED <<workspace.rev, Logical, Applied>>
BY DEF Logical, PendingRuns, Applied

\* A full write applies its command to the whole history, whether or not its
\* sender knew of the runs outside the snapshot.
LEMMA CommitRefines ==
    ASSUME Inv, Hist, Hist', NEW q \in wire, Commit(q)
    PROVE  (\E id \in Ids : History!Apply(id)) \/ UNCHANGED <<workspace.rev, Logical, Applied>>
<1>1. CASE /\ GrantStands(q) /\ ~Known(q.id) /\ q.expected = workspace.rev
           /\ Mergeable(q.rows) /\ WritesAsSent(q)
  <2>1. Written(q, Merged(q.rows))
    BY <1>1 DEF Commit
  <2>2. PICK e, x : e = Entry(q.id, FALSE, q.admitted) /\ x = Merged(q.rows)
    OBVIOUS
  <2>3. x \in Seq(Ids) /\ x = Effect(q.id, Logical)
    BY <1>1, <2>2, MergedRows, MergeIsEffect
  <2>4. q.id \in Ids /\ q.admitted \in Nat
    BY GrantIsOpen DEF Inv, RequestInv, Admission
  <2>5. e \in Entries /\ e.id = q.id
    BY <2>2, <2>4 DEF Entries, Entry
  <2>6. Grows(e, x)
    BY <2>1, <2>2, <2>3, <2>5 DEF Written, Grows
  <2> QED BY <1>1, <2>3, <2>4, <2>5, <2>6, ApplyRefines
<1>2. CASE ~ /\ GrantStands(q) /\ ~Known(q.id) /\ q.expected = workspace.rev
             /\ Mergeable(q.rows) /\ WritesAsSent(q)
  <2>1. UNCHANGED store
    BY <1>2 DEF Commit, Refused
  <2> QED BY <2>1, StutterRefines DEF store
<1> QED BY <1>1, <1>2

\* So does a checkpoint, which writes no snapshot.
LEMMA CheckpointRefines ==
    ASSUME Inv, Hist, Hist', NEW q \in wire, NEW eligible, Checkpoint(q, eligible)
    PROVE  (\E id \in Ids : History!Apply(id)) \/ UNCHANGED <<workspace.rev, Logical, Applied>>
<1>1. q.id \in Polls
  BY DEF Inv, Checkpoint, RequestInv
<1>2. CASE Checkpointed(q) /\ ~Known(q.id)
  <2>1. PICK e, x : e = Entry(q.id, TRUE, 0) /\ x = Append(Logical, q.id)
    OBVIOUS
  <2>2. e \in Entries /\ e.id = q.id /\ q.id \in Ids
    BY <1>1, <2>1 DEF Entries, Entry, Ids
  <2>3. Logical \in Seq(Ids)
    BY LogicalRows
  <2>4. x \in Seq(Ids)
    BY <2>1, <2>2, <2>3, AppendProperties
  <2>5. x = Effect(q.id, Logical)
    BY <1>1, <2>1, StoreConstants DEF Effect
  <2>6. Reading(workspace)
    BY DEF Inv, Shape
  <2>7. Grows(e, x)
    BY <1>2, <2>1, <2>2, <2>4, <2>6 DEF Checkpointed, Grows, Reading
  <2> QED BY <1>2, <2>2, <2>5, <2>7, ApplyRefines
<1>3. CASE ~(Checkpointed(q) /\ ~Known(q.id))
  <2>1. UNCHANGED store
    BY <1>3 DEF Checkpoint, Refused
  <2> QED BY <2>1, StutterRefines DEF store
<1> QED BY <1>2, <1>3

\* A drain moves runs into the snapshot and is seen as a mere revision.
LEMMA DrainRefines ==
    ASSUME Inv, Hist, Hist', Drain
    PROVE  History!Fence
<1>1. PICK e, x : e = Entry(Nobody, FALSE, 0) /\ x = Logical
  OBVIOUS
<1>2. e \in Entries /\ e.id = Nobody
  BY <1>1 DEF Entries, Entry
<1>3. x \in Seq(Ids)
  BY <1>1, LogicalRows
<1>4. Grows(e, x)
  BY <1>1, <1>2, <1>3 DEF Drain, Grows
<1>5. Logical' = Logical /\ Applied' = Applied
  BY <1>1, <1>2, <1>4, GrowsRefines
<1> QED BY <1>4, <1>5 DEF History!Fence, Grows

\* Every step of the store is a step of the history, or none.
LEMMA NextRefines ==
    Inv /\ Hist /\ Hist' /\ [Next]_vars
    => [History!Next]_<<workspace.rev, Logical, Applied>>
<1> SUFFICES ASSUME Inv, Hist, Hist', [Next]_vars
             PROVE  History!Next \/ UNCHANGED <<workspace.rev, Logical, Applied>>
  OBVIOUS
<1>1. ASSUME NEW h \in Handlers, HandlerStep(h) PROVE UNCHANGED <<workspace, ledger>>
  BY <1>1 DEF HandlerStep, Begin, ReadRow, ReadRuns, Lookup, Tell, NoWrite, Send, Retry,
     AlreadyApplied, Succeed, FallBack, Fail, LoseAnswer, Release, store
<1>2. ASSUME NEW q \in wire, Commit(q) \/ \E eligible \in BOOLEAN : Checkpoint(q, eligible)
      PROVE  (\E id \in Ids : History!Apply(id)) \/ UNCHANGED <<workspace.rev, Logical, Applied>>
  BY <1>2, CommitRefines, CheckpointRefines
<1>3. CASE Drain
  BY <1>3, DrainRefines DEF History!Next
<1>4. CASE LoseLease
  BY <1>4, StutterRefines DEF LoseLease, store
<1>5. ASSUME NEW approve \in BOOLEAN, Decide(approve) PROVE UNCHANGED <<workspace, ledger>>
  BY <1>5 DEF Decide, store
<1>6. CASE UNCHANGED vars
  BY <1>6, StutterRefines DEF vars
<1> QED BY <1>1, <1>2, <1>3, <1>4, <1>5, <1>6, StutterRefines DEF Next, History!Next

\* The empty workspace is the empty history.
LEMMA InitRefines == Init => History!Init
<1> SUFFICES ASSUME Init PROVE workspace.rev = 0 /\ Logical = <<>> /\ Applied = {}
  BY DEF History!Init
<1>1. workspace.rev = 0 /\ workspace.mat = 0 /\ workspace.rows = <<>> /\ ledger = <<>>
  BY DEF Init, NoBase
<1>2. Logical = workspace.rows \o PendingRuns(0, 0)
  BY <1>1 DEF Logical
<1>3. Logical = <<>> \o <<>>
  BY <1>1, <1>2, NoPending
<1>4. Applied = {}
  BY <1>1 DEF Applied
<1> QED BY <1>1, <1>3, <1>4, ConcatEmptySeq

\* Full writes, checkpoints beside the snapshot, the absorption of pending runs
\* by writers that know them and by writers that do not, and drains: to whoever
\* reads the whole history, every command takes effect once, on the history as
\* it stands, and no recorded run moves or disappears.
THEOREM StoreImplementsHistory == Spec => ImplementsWorkspaceHistory
<1>1. Init => Inv /\ Hist /\ History!Init
  BY InitInv, InitHist, InitRefines
<1>2. Inv /\ Hist /\ [Next]_vars
      => (Inv /\ Hist)' /\ [History!Next]_<<workspace.rev, Logical, Applied>>
  BY NextInv, NextHist, NextRefines
<1> QED BY <1>1, <1>2, PTL DEF Spec, ImplementsWorkspaceHistory, History!Spec
=============================================================================

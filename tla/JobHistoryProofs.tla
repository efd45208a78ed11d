--------------------------- MODULE JobHistoryProofs ---------------------------
(***************************************************************************)
(* Proofs about JobHistory, for any messages, dates, slots and length of   *)
(* history.                                                                *)
(*                                                                         *)
(* The inductive invariant is RecordInv: the record has the types of       *)
(* Records and is Complete (an interview, and no other event, has an       *)
(* occurrence, and then its task; no two events share a position), and     *)
(* every row of the ledger keeps compensations that fit the record.  It    *)
(* is proved in layers: one lemma per evaluator (...Ok), one per           *)
(* compensation (Undone...Ok), the folds over a message's facts and over a *)
(* batch's compensations, then one lemma per command (...Keeps).  The set  *)
(* S of identities in use and the number n of commands are parameters of   *)
(* the types, so that each lemma can say which identity a step adds.       *)
(*                                                                         *)
(* FactsOnce needs OnceInv besides: for each fact of a source record, the  *)
(* receipts that stand for it, with one more while the record still owes   *)
(* it, are at most one more than its confirmed questions (ClaimedOnce); a  *)
(* live event that a receipt recorded is one it stands for (LiveIsClaimed);*)
(* and a row that can still be undone deletes every event its receipt is   *)
(* bound to (RowClaims), which is what makes an undo give up the claim and *)
(* the event together.  A step either adds one receipt (Adds) or only      *)
(* takes claims away (Weakens).                                            *)
(*                                                                         *)
(* ReceiptsHonest needs HonestInv besides: what a receipt rests on was made*)
(* by receipts up to it, and one that stands for the submission relies on a*)
(* receipt whose proof is there (BasisInv); and a command that recorded a  *)
(* fact and can still be undone was the last to record one (FactRow),      *)
(* because all of them write the job.  A step that takes claims away takes *)
(* no event a remaining claim rests on (Honest).                           *)
(***************************************************************************)
EXTENDS JobHistory, FiniteSetTheorems, SequenceTheorems, TLAPS

(* Partial functions, and the identities a command makes *)

\* The functions from a part of D to T.
Partial(D, T) == UNION {[E -> T] : E \in SUBSET D}

LEMMA PartialIs ==
    ASSUME NEW D, NEW T, NEW f \in Partial(D, T)
    PROVE  /\ f = [x \in DOMAIN f |-> f[x]]
           /\ DOMAIN f \subseteq D
           /\ \A x \in DOMAIN f : f[x] \in T
  BY DEF Partial

LEMMA IsPartial ==
    ASSUME NEW D, NEW T, NEW E \in SUBSET D, NEW f \in [E -> T]
    PROVE  f \in Partial(D, T)
  BY DEF Partial

LEMMA NoneIsPartial ==
    ASSUME NEW D, NEW T
    PROVE  <<>> \in Partial(D, T)
  BY DEF Partial

LEMMA PartialGrows ==
    ASSUME NEW C, NEW D, C \subseteq D, NEW T, NEW U, T \subseteq U, NEW f \in Partial(C, T)
    PROVE  f \in Partial(D, U)
  BY DEF Partial

LEMMA PutIs ==
    ASSUME NEW f, NEW x, NEW v
    PROVE  /\ DOMAIN Put(f, x, v) = DOMAIN f \cup {x}
           /\ Put(f, x, v)[x] = v
           /\ \A y \in DOMAIN f : y # x => Put(f, x, v)[y] = f[y]
  BY DEF Put

LEMMA PutIsPartial ==
    ASSUME NEW D, NEW T, NEW f \in Partial(D, T), NEW x \in D, NEW v \in T
    PROVE  Put(f, x, v) \in Partial(D, T)
<1>1. Put(f, x, v) \in [DOMAIN f \cup {x} -> T]
  BY DEF Put, Partial
<1> QED BY <1>1, PartialIs, IsPartial

LEMMA SetIsPartial ==
    ASSUME NEW D, NEW T, NEW f \in Partial(D, T), NEW x, NEW v,
           x \in DOMAIN f => v \in T
    PROVE  [f EXCEPT ![x] = v] \in Partial(D, T)
  BY DEF Partial

LEMMA RestrictIsPartial ==
    ASSUME NEW D, NEW T, NEW f \in Partial(D, T), NEW E \in SUBSET DOMAIN f
    PROVE  Restrict(f, E) \in Partial(D, T)
<1>1. Restrict(f, E) \in [E -> T]
  BY DEF Partial, Restrict
<1> QED BY <1>1, PartialIs, IsPartial

\* The identities made by the first n commands.
Made(n) == {Id(c, i) : c \in 1 .. n, i \in 1 .. 2}

LEMMA MadeIs ==
    ASSUME NEW n \in Nat
    PROVE  /\ Made(n) \subseteq Made(n + 1) /\ Made(n) \subseteq Nat
           /\ 0 \notin Made(n) /\ Apply \notin Made(n)
           /\ \A i \in 1 .. 2 : Id(n + 1, i) \in Made(n + 1) \ Made(n) /\ Id(n + 1, i) \in Nat \ {0, Apply}
           /\ Id(n + 1, 1) # Id(n + 1, 2)
  BY DEF Made, Id, Apply

LEMMA MadeInIds ==
    ASSUME NEW n \in Times
    PROVE  Made(n) \subseteq Ids
  BY HistoryAssumption DEF Made, Ids, Times

-----------------------------------------------------------------------------
(* The types of the record's parts: S is the set of identities in use, n    *)
(* the number of commands so far.                                           *)

StampT(S, n) == [id : S \cup {0}, at : 0 .. n]
ProcessT(S, n) == [on : BOOLEAN, stage : Stages, owner : StampT(S, n), last : 0 .. n]
TaskT(n) == [status : Statuses, at : 0 .. n]
EventT(S, n) == [type : {"interview", "offer"}, slot : Nat, due : Nat, at : 0 .. n, made : 0 .. n,
                 pos : S, dead : BOOLEAN]
LiveStates == {"scheduled", "in_progress", "completed", "cancelled"}
NodeT(n) == [state : LiveStates \cup {"superseded"}, slot : Nat, by : {"none", "task", "user"},
             at : 0 .. n]
ChainT(n) == {v \in Seq(NodeT(n)) :
                 /\ Len(v) # 0 /\ v[Len(v)].state \in LiveStates
                 /\ \A i \in 1 .. Len(v) - 1 : v[i].state = "superseded"}
GoneT(n) == [key : Facts, corrected : BOOLEAN, after : 0 .. n]
ReceiptT(S, n) ==
    {r \in [msg : Messages, keys : SUBSET Facts, mutated : SUBSET Facts,
            bound : Partial(Facts, SUBSET S), affected : SUBSET S, gone : SUBSET GoneT(n),
            undone : 0 .. n, status : {"committed", "decision_required", "undone"}] :
        /\ r.mutated \subseteq r.keys /\ GoneKeys(r) \subseteq r.keys
        /\ DOMAIN r.bound = r.mutated}
RequestT(n) == {q \in [msg : Messages, fact : Facts, state : {"open", "answered", "superseded"}] :
                   DateOf[q.msg] <= n}

TasksT(S, n) == Partial(S \cup {Apply}, TaskT(n))
EventsT(S, n) == Partial(S, EventT(S, n))
NodesT(S, n) == Partial(S, ChainT(n))
ReceiptsT(S, n) == Partial(1 .. n, ReceiptT(S, n))
RequestsT(S, n) == Partial(S, RequestT(n))

Records(S, n) ==
    [stage : Stages, part : {"active", "abandoned"}, owner : StampT(S, n), proofs : SUBSET S,
     process : ProcessT(S, n), tasks : TasksT(S, n), events : EventsT(S, n), nodes : NodesT(S, n),
     receipts : ReceiptsT(S, n), requests : RequestsT(S, n),
     answers : SUBSET (S \X {"confirm", "dismiss"})]

\* Interviews, and no other events, have an occurrence; they have a task then;
\* and no two events have the same position.
Complete(j) ==
    /\ Apply \in DOMAIN j.tasks
    /\ \A e \in DOMAIN j.events :
          /\ j.events[e].type = "interview" <=> e \in DOMAIN j.nodes
          /\ e \in DOMAIN j.nodes => e \in DOMAIN j.tasks
    /\ \A d, e \in DOMAIN j.events : j.events[d].pos = j.events[e].pos => d = e

RecordOk(j, S, n) == j \in Records(S, n) /\ Complete(j)

LEMMA RecordIs ==
    ASSUME NEW S, NEW n, NEW j \in Records(S, n)
    PROVE  /\ j.stage \in Stages /\ j.part \in {"active", "abandoned"} /\ j.owner \in StampT(S, n)
           /\ j.proofs \in SUBSET S /\ j.process \in ProcessT(S, n) /\ j.tasks \in TasksT(S, n)
           /\ j.events \in EventsT(S, n) /\ j.nodes \in NodesT(S, n)
           /\ j.receipts \in ReceiptsT(S, n) /\ j.requests \in RequestsT(S, n)
           /\ j.answers \in SUBSET (S \X {"confirm", "dismiss"})
  BY DEF Records

LEMMA SetStageOk ==
    ASSUME NEW S, NEW n \in Nat, NEW j \in Records(S, n), NEW stage \in Stages,
           NEW owner \in StampT(S, n), NEW last \in 0 .. n
    PROVE  SetStage(j, stage, owner, last) \in Records(S, n)
  BY DEF SetStage, Records, ProcessT

LEMMA AfterSubmissionOk ==
    ASSUME NEW S, NEW n \in Nat, NEW j, RecordOk(j, S, n), NEW id \in S, NEW at \in 0 .. n
    PROVE  RecordOk(AfterSubmission(j, id, at), S, n)
<1> DEFINE k == SetStage(j, "screening", Nobody, at)
           t == [k.tasks EXCEPT ![Apply] = IF @.status \in Open THEN [status |-> "done", at |-> at] ELSE @]
<1>1. Nobody \in StampT(S, n) /\ "screening" \in Stages
  BY DEF Nobody, StampT, Stages
<1>2. k \in Records(S, n)
  BY <1>1, SetStageOk DEF RecordOk
<1>3. k.tasks = j.tasks /\ k.events = j.events /\ k.nodes = j.nodes
  BY DEF SetStage, RecordOk, Records
<1>4. t \in TasksT(S, n)
  <2>1. k.tasks \in Partial(S \cup {Apply}, TaskT(n))
    BY <1>2, RecordIs DEF TasksT
  <2>2. Apply \in DOMAIN k.tasks => k.tasks[Apply] \in TaskT(n)
    BY <2>1, PartialIs
  <2>3. [status |-> "done", at |-> at] \in TaskT(n)
    BY DEF TaskT, Statuses
  <2> QED BY <2>1, <2>2, <2>3, SetIsPartial DEF TasksT
<1> HIDE DEF k
<1>5. AfterSubmission(j, id, at) = [k EXCEPT !.proofs = @ \cup {id}, !.part = "active", !.tasks = t]
  BY DEF AfterSubmission, k
<1>6. DOMAIN t = DOMAIN k.tasks
  OBVIOUS
<1> HIDE DEF t
<1>7. AfterSubmission(j, id, at) \in Records(S, n)
  <2> DEFINE p == k.proofs \cup {id}
  <2>1. p \in SUBSET S
    BY <1>2, RecordIs
  <2> HIDE DEF p
  <2>2. [k EXCEPT !.proofs = p, !.part = "active", !.tasks = t] \in Records(S, n)
    BY <1>2, <1>4, <2>1 DEF Records
  <2> QED BY <1>5, <2>2 DEF p
<1>8. Complete(AfterSubmission(j, id, at))
  BY <1>2, <1>3, <1>5, <1>6 DEF Complete, Records, RecordOk
<1> QED BY <1>7, <1>8 DEF RecordOk

LEMMA RecordsGrow ==
    ASSUME NEW S, NEW R, S \subseteq R, NEW n \in Nat, NEW m \in Nat, n <= m,
           NEW j \in Records(S, n)
    PROVE  j \in Records(R, m)
<1>1. 0 .. n \subseteq 0 .. m /\ 1 .. n \subseteq 1 .. m
  OBVIOUS
<1>2. StampT(S, n) \subseteq StampT(R, m)
  BY <1>1 DEF StampT
<1>3. ProcessT(S, n) \subseteq ProcessT(R, m)
  BY <1>1, <1>2 DEF ProcessT
<1>4. TasksT(S, n) \subseteq TasksT(R, m)
  <2>1. TaskT(n) \subseteq TaskT(m) /\ S \cup {Apply} \subseteq R \cup {Apply}
    BY <1>1 DEF TaskT
  <2> QED BY <2>1, PartialGrows DEF TasksT
<1>5. EventsT(S, n) \subseteq EventsT(R, m)
  <2>1. EventT(S, n) \subseteq EventT(R, m)
    BY <1>1 DEF EventT
  <2> QED BY <2>1, PartialGrows DEF EventsT
<1>6. NodesT(S, n) \subseteq NodesT(R, m)
  <2>1. NodeT(n) \subseteq NodeT(m)
    BY <1>1 DEF NodeT
  <2>2. ChainT(n) \subseteq ChainT(m)
    BY <2>1 DEF ChainT
  <2> QED BY <2>2, PartialGrows DEF NodesT
<1>7. ReceiptsT(S, n) \subseteq ReceiptsT(R, m)
  <2>1. GoneT(n) \subseteq GoneT(m)
    BY <1>1 DEF GoneT
  <2>2. SUBSET S \subseteq SUBSET R
    OBVIOUS
  <2>3. Partial(Facts, SUBSET S) \subseteq Partial(Facts, SUBSET R)
    BY <2>2, PartialGrows
  <2>4. ReceiptT(S, n) \subseteq ReceiptT(R, m)
    BY <1>1, <2>1, <2>2, <2>3 DEF ReceiptT
  <2> QED BY <1>1, <2>4, PartialGrows DEF ReceiptsT
<1>8. RequestsT(S, n) \subseteq RequestsT(R, m)
  <2>1. ASSUME NEW q \in RequestT(n) PROVE q \in RequestT(m)
    BY IntakeAssumption DEF RequestT
  <2> QED BY <2>1, PartialGrows DEF RequestsT
<1> QED BY <1>2, <1>3, <1>4, <1>5, <1>6, <1>7, <1>8 DEF Records

LEMMA RecordGrows ==
    ASSUME NEW S, NEW R, S \subseteq R, NEW n \in Nat, NEW m \in Nat, n <= m,
           NEW j, RecordOk(j, S, n)
    PROVE  RecordOk(j, R, m)
  BY RecordsGrow DEF RecordOk

\* The record with other tasks, events and occurrences.
LEMMA WithParts ==
    ASSUME NEW S, NEW n, NEW j \in Records(S, n), NEW k,
           NEW tasks \in TasksT(S, n), NEW events \in EventsT(S, n), NEW nodes \in NodesT(S, n),
           k = [j EXCEPT !.tasks = tasks, !.events = events, !.nodes = nodes]
    PROVE  /\ k \in Records(S, n)
           /\ k.tasks = tasks /\ k.events = events /\ k.nodes = nodes
  BY DEF Records

-----------------------------------------------------------------------------
(* Versions of an occurrence *)

LEMMA ChainIs ==
    ASSUME NEW n, NEW v \in ChainT(n)
    PROVE  /\ v \in Seq(NodeT(n)) /\ Len(v) \in Nat \ {0} /\ DOMAIN v = 1 .. Len(v)
           /\ Last(v) = v[Len(v)] /\ Last(v) \in NodeT(n) /\ Last(v).state \in LiveStates
  BY DEF ChainT, Last

LEMMA OneVersion ==
    ASSUME NEW n, NEW node \in NodeT(n), node.state \in LiveStates
    PROVE  << node >> \in ChainT(n)
  BY DEF ChainT

\* Another last version.
LEMMA SetLast ==
    ASSUME NEW n, NEW v \in ChainT(n), NEW node \in NodeT(n), node.state \in LiveStates
    PROVE  [v EXCEPT ![Len(v)] = node] \in ChainT(n)
  BY DEF ChainT

LEMMA FrontIs ==
    ASSUME NEW T, NEW v \in Seq(T)
    PROVE  /\ Front(v) \in Seq(T)
           /\ Len(v) # 0 => Len(Front(v)) = Len(v) - 1
           /\ Len(v) = 0 => Len(Front(v)) = 0
           /\ \A i \in 1 .. Len(v) - 1 : Front(v)[i] = v[i]
<1>1. \A i \in 1 .. Len(v) - 1 : v[i] \in T
  OBVIOUS
<1>2. Front(v) = [i \in 1 .. Len(v) - 1 |-> v[i]]
  <2>1. Len(v) \in Nat
    OBVIOUS
  <2>2. Front(v) = [i \in 1 .. (Len(v) - 1) - 1 + 1 |-> v[1 + i - 1]]
    BY SubSeqProperties, <2>1 DEF Front
  <2> QED BY <2>1, <2>2
<1>3. CASE Len(v) # 0
  <2>1. Len(v) - 1 \in Nat
    BY <1>3
  <2> QED BY <1>1, <1>2, <1>3, <2>1
<1>4. CASE Len(v) = 0
  BY <1>1, <1>2, <1>4
<1> QED BY <1>3, <1>4

LEMMA Topped ==
    ASSUME NEW n, NEW s \in Seq(NodeT(n)), NEW node \in NodeT(n), node.state \in LiveStates,
           \A i \in 1 .. Len(s) : s[i].state = "superseded"
    PROVE  Append(s, node) \in ChainT(n)
<1> DEFINE a == Append(s, node)
<1>1. a \in Seq(NodeT(n)) /\ Len(a) = Len(s) + 1 /\ a[Len(s) + 1] = node
      /\ \A i \in 1 .. Len(s) : a[i] = s[i]
  OBVIOUS
<1> HIDE DEF a
<1>2. Len(s) \in Nat
  OBVIOUS
<1>3. 1 .. Len(a) - 1 = 1 .. Len(s)
  BY <1>1, <1>2
<1>4. a \in ChainT(n)
  BY <1>1, <1>2, <1>3 DEF ChainT
<1> QED BY <1>4 DEF a

LEMMA Replaced ==
    ASSUME NEW n, NEW v \in ChainT(n), NEW node \in NodeT(n), node.state \in LiveStates
    PROVE  Append(Front(v), node) \in ChainT(n)
<1>1. v \in Seq(NodeT(n)) /\ Len(v) # 0
  BY ChainIs
<1>2. Front(v) \in Seq(NodeT(n)) /\ Len(Front(v)) = Len(v) - 1
  BY <1>1, FrontIs
<1>3. \A i \in 1 .. Len(v) - 1 : Front(v)[i] = v[i]
  BY <1>1, FrontIs
<1>4. \A i \in 1 .. Len(Front(v)) : Front(v)[i].state = "superseded"
  BY <1>2, <1>3 DEF ChainT
<1> QED BY <1>2, <1>4, Topped

LEMMA VersionDropped ==
    ASSUME NEW n, NEW v \in ChainT(n), NEW node \in NodeT(n), node.state \in LiveStates
    PROVE  Append(Front(Front(v)), node) \in ChainT(n)
<1> DEFINE u == Front(v)  w == Front(u)
<1>1. v \in Seq(NodeT(n)) /\ Len(v) # 0 /\ Len(v) \in Nat
  BY ChainIs
<1>2. u \in Seq(NodeT(n)) /\ Len(u) = Len(v) - 1 /\ \A i \in 1 .. Len(v) - 1 : u[i] = v[i]
  BY <1>1, FrontIs
<1> HIDE DEF u
<1>3. w \in Seq(NodeT(n)) /\ Len(w) \in Nat /\ Len(w) <= Len(u) /\ (Len(w) # 0 => Len(w) < Len(u))
      /\ \A i \in 1 .. Len(u) - 1 : w[i] = u[i]
  BY <1>1, <1>2, FrontIs
<1> HIDE DEF w
<1>4. \A i \in 1 .. Len(w) : w[i] = v[i] /\ v[i].state = "superseded"
  BY <1>1, <1>2, <1>3 DEF ChainT
<1>5. Append(w, node) \in ChainT(n)
  BY <1>3, <1>4, Topped
<1> QED BY <1>5 DEF w, u

LEMMA NewVersionOk ==
    ASSUME NEW n, NEW v \in ChainT(n), NEW node \in NodeT(n), node.state \in LiveStates,
           NEW at \in 0 .. n
    PROVE  NewVersion(v, node, at) \in ChainT(n)
<1> DEFINE w == [v EXCEPT ![Len(v)].state = "superseded", ![Len(v)].at = at]
<1>1. v \in Seq(NodeT(n)) /\ Len(v) \in Nat \ {0} /\ v[Len(v)] \in NodeT(n)
  BY ChainIs
<1> DEFINE last == [v[Len(v)] EXCEPT !.state = "superseded", !.at = at]
<1>2. last \in NodeT(n) /\ last.state = "superseded"
  BY <1>1 DEF NodeT
<1>3. w = [v EXCEPT ![Len(v)] = last]
  BY <1>1
<1>4. w \in Seq(NodeT(n)) /\ Len(w) = Len(v) /\ w[Len(v)] = last
      /\ \A i \in 1 .. Len(v) - 1 : w[i] = v[i]
  <2> HIDE DEF w, last
  <2> QED BY <1>1, <1>2, <1>3
<1> HIDE DEF w
<1>5. Append(w, node) \in ChainT(n)
  <2> HIDE DEF last
  <2>1. \A i \in 1 .. Len(w) : w[i].state = "superseded"
    BY <1>1, <1>2, <1>4 DEF ChainT
  <2> QED BY <1>4, <2>1, Topped
<1> QED BY <1>5 DEF w, NewVersion

\* One version of an occurrence changed where it stands.
LEMMA NodeSet ==
    ASSUME NEW S, NEW n, NEW nodes \in NodesT(S, n), NEW e, NEW v,
           e \in DOMAIN nodes => v \in ChainT(n)
    PROVE  [nodes EXCEPT ![e] = v] \in NodesT(S, n)
  BY SetIsPartial DEF NodesT

LEMMA NodeIs ==
    ASSUME NEW S, NEW n, NEW j \in Records(S, n), NEW e \in DOMAIN j.nodes
    PROVE  /\ j.nodes[e] \in ChainT(n) /\ e \in S
           /\ Current(j, e) \in NodeT(n) /\ Current(j, e).state \in LiveStates
           /\ Current(j, e) = j.nodes[e][Len(j.nodes[e])]
           /\ Len(j.nodes[e]) \in Nat \ {0} /\ DOMAIN j.nodes[e] = 1 .. Len(j.nodes[e])
<1>1. j.nodes \in Partial(S, ChainT(n))
  BY RecordIs DEF NodesT
<1>2. j.nodes[e] \in ChainT(n) /\ e \in S
  BY <1>1, PartialIs
<1> QED BY <1>2, ChainIs DEF Current

LEMMA TaskIs ==
    ASSUME NEW S, NEW n, NEW j \in Records(S, n), NEW t \in DOMAIN j.tasks
    PROVE  j.tasks[t] \in TaskT(n) /\ t \in S \cup {Apply}
<1>1. j.tasks \in Partial(S \cup {Apply}, TaskT(n))
  BY RecordIs DEF TasksT
<1> QED BY <1>1, PartialIs

LEMMA EventIs ==
    ASSUME NEW S, NEW n, NEW j \in Records(S, n), NEW e \in DOMAIN j.events
    PROVE  j.events[e] \in EventT(S, n) /\ e \in S
<1>1. j.events \in Partial(S, EventT(S, n))
  BY RecordIs DEF EventsT
<1> QED BY <1>1, PartialIs

LEMMA ReceiptIs ==
    ASSUME NEW S, NEW n, NEW j \in Records(S, n), NEW r \in DOMAIN j.receipts
    PROVE  j.receipts[r] \in ReceiptT(S, n) /\ r \in 1 .. n
<1>1. j.receipts \in Partial(1 .. n, ReceiptT(S, n))
  BY RecordIs DEF ReceiptsT
<1> QED BY <1>1, PartialIs

LEMMA RequestIs ==
    ASSUME NEW S, NEW n, NEW j \in Records(S, n), NEW d \in DOMAIN j.requests
    PROVE  j.requests[d] \in RequestT(n) /\ d \in S
<1>1. j.requests \in Partial(S, RequestT(n))
  BY RecordIs DEF RequestsT
<1> QED BY <1>1, PartialIs

-----------------------------------------------------------------------------
(* The evaluators keep the record's type. *)

LEMMA AfterEventOk ==
    ASSUME NEW S, NEW n \in Nat, NEW j, RecordOk(j, S, n), NEW id, id \notin S,
           NEW type \in {"interview", "offer"}, NEW slot \in Nat, NEW at \in 0 .. n, NEW t \in 0 .. n
    PROVE  RecordOk(AfterEvent(j, id, type, slot, at, t), S \cup {id}, n)
<1> DEFINE R == S \cup {id}
           event == [type |-> type, slot |-> slot, due |-> slot, at |-> at, made |-> t,
                     pos |-> id, dead |-> FALSE]
           l == SetStage(j, type, [id |-> id, at |-> at], at)
           node == [state |-> "scheduled", slot |-> slot, by |-> "none", at |-> t]
           a == Put(j.events, id, event)
           b == Put(j.tasks, id, [status |-> "todo", at |-> t])
           c == Put(j.nodes, id, << node >>)
           k == AfterEvent(j, id, type, slot, at, t)
<1>1. RecordOk(j, R, n)
  BY RecordGrows
<1>2. l \in Records(R, n)
  <2>1. [id |-> id, at |-> at] \in StampT(R, n) /\ type \in Stages
    BY DEF StampT, Stages
  <2> QED BY <1>1, <2>1, SetStageOk DEF RecordOk
<1>3. l.tasks = j.tasks /\ l.events = j.events /\ l.nodes = j.nodes
  BY <1>1 DEF SetStage, RecordOk, Records
<1>4. a \in EventsT(R, n)
  <2>1. j.events \in Partial(R, EventT(R, n))
    BY <1>1, RecordIs DEF RecordOk, EventsT
  <2>2. event \in EventT(R, n)
    BY DEF EventT
  <2> QED BY <2>1, <2>2, PutIsPartial DEF EventsT
<1>5. b \in TasksT(R, n)
  <2>1. j.tasks \in Partial(R \cup {Apply}, TaskT(n))
    BY <1>1, RecordIs DEF RecordOk, TasksT
  <2>2. [status |-> "todo", at |-> t] \in TaskT(n)
    BY DEF TaskT, Statuses
  <2> QED BY <2>1, <2>2, PutIsPartial DEF TasksT
<1>6. c \in NodesT(R, n)
  <2>1. j.nodes \in Partial(R, ChainT(n))
    BY <1>1, RecordIs DEF RecordOk, NodesT
  <2>2. << node >> \in ChainT(n)
    BY OneVersion DEF NodeT, LiveStates
  <2> QED BY <2>1, <2>2, PutIsPartial DEF NodesT
<1>7. \A e \in DOMAIN j.events : e \in S /\ j.events[e].pos \in S
  <2>1. \A e \in DOMAIN j.events : e \in S /\ j.events[e] \in EventT(S, n)
    BY EventIs DEF RecordOk
  <2> QED BY <2>1 DEF EventT
<1>8. /\ DOMAIN a = DOMAIN j.events \cup {id} /\ a[id] = event
      /\ \A e \in DOMAIN j.events : a[e] = j.events[e]
  <2> HIDE DEF event
  <2>1. \A e \in DOMAIN j.events : e # id
    BY <1>7
  <2> QED BY <2>1 DEF Put
<1>9. DOMAIN b = DOMAIN j.tasks \cup {id} /\ DOMAIN c = DOMAIN j.nodes \cup {id}
  BY PutIs
<1>10. event.type = type /\ event.pos = id
  OBVIOUS
<1>11. \A d, e \in DOMAIN a : a[d].pos = a[e].pos => d = e
  BY <1>7, <1>8, <1>10 DEF RecordOk, Complete
<1>15. id \notin DOMAIN j.nodes
  BY NodeIs DEF RecordOk
<1>16. ASSUME NEW e \in DOMAIN a, e # id
       PROVE  e \in DOMAIN j.events /\ a[e].type = j.events[e].type
  BY <1>8, <1>16
<1>17. Apply \in DOMAIN j.tasks /\ \A e \in DOMAIN j.events :
          /\ j.events[e].type = "interview" <=> e \in DOMAIN j.nodes
          /\ e \in DOMAIN j.nodes => e \in DOMAIN j.tasks
  BY DEF RecordOk, Complete
<1>18. a[id].type = type
  BY <1>8, <1>10
<1> HIDE DEF l, a, b, c
<1>12. CASE type = "offer"
  <2>1. k = [l EXCEPT !.events = a]
    BY <1>3, <1>12 DEF AfterEvent, l, a
  <2>2. k \in Records(R, n) /\ k.events = a /\ k.tasks = j.tasks /\ k.nodes = j.nodes
    BY <1>2, <1>3, <1>4, <2>1 DEF Records
  <2>3. Complete(k)
    <3> HIDE DEF k
    <3>1. ASSUME NEW e \in DOMAIN a
          PROVE  /\ a[e].type = "interview" <=> e \in DOMAIN j.nodes
                 /\ e \in DOMAIN j.nodes => e \in DOMAIN j.tasks
      <4>1. CASE e = id
        BY <1>12, <1>15, <1>18, <4>1
      <4>2. CASE e # id
        BY <1>16, <1>17, <4>2
      <4> QED BY <4>1, <4>2
    <3> QED BY <2>2, <3>1, <1>11, <1>17 DEF Complete
  <2> QED BY <2>2, <2>3 DEF RecordOk
<1>13. CASE type # "offer"
  <2>1. k = [l EXCEPT !.events = a, !.tasks = b, !.nodes = c]
    BY <1>2, <1>3, <1>13 DEF AfterEvent, l, a, b, c, Records
  <2>2. k \in Records(R, n) /\ k.events = a /\ k.tasks = b /\ k.nodes = c
    BY <1>2, <1>4, <1>5, <1>6, <2>1 DEF Records
  <2>3. Complete(k)
    <3> HIDE DEF k
    <3>1. ASSUME NEW e \in DOMAIN a
          PROVE  /\ a[e].type = "interview" <=> e \in DOMAIN c
                 /\ e \in DOMAIN c => e \in DOMAIN b
      <4>1. CASE e = id
        BY <1>9, <1>13, <1>18, <4>1
      <4>2. CASE e # id
        BY <1>9, <1>16, <1>17, <4>2
      <4> QED BY <4>1, <4>2
    <3> QED BY <2>2, <3>1, <1>9, <1>11, <1>17 DEF Complete
  <2> QED BY <2>2, <2>3 DEF RecordOk
<1> QED BY <1>12, <1>13

\* Completeness says nothing of the parts but which keys they have.
LEMMA CompleteAs ==
    ASSUME NEW j, NEW k, Complete(j), DOMAIN k.events = DOMAIN j.events,
           DOMAIN j.tasks \subseteq DOMAIN k.tasks, DOMAIN j.nodes = DOMAIN k.nodes,
           \A e \in DOMAIN j.events : k.events[e].type = j.events[e].type /\ k.events[e].pos = j.events[e].pos
    PROVE  Complete(k)
  BY DEF Complete

LEMMA TaskSet ==
    ASSUME NEW S, NEW n, NEW tasks \in TasksT(S, n), NEW t, NEW v,
           t \in DOMAIN tasks => v \in TaskT(n)
    PROVE  [tasks EXCEPT ![t] = v] \in TasksT(S, n) /\ DOMAIN [tasks EXCEPT ![t] = v] = DOMAIN tasks
  BY SetIsPartial DEF TasksT

\* What a task's status makes of the occurrence's current version.
Driven(node, status, at) ==
    LET next == CASE status = "done"    -> [node EXCEPT !.state = "completed", !.by = "task"]
                  [] status = "doing"   -> [node EXCEPT !.state = "in_progress"]
                  [] status = "todo"    -> [node EXCEPT !.state = "scheduled"]
                  [] status = "skipped" -> node
    IN  [next EXCEPT !.at = at]

LEMMA DrivenOk ==
    ASSUME NEW n, NEW node \in NodeT(n), node.state \in LiveStates, NEW status \in Statuses,
           NEW at \in 0 .. n
    PROVE  Driven(node, status, at) \in NodeT(n) /\ Driven(node, status, at).state \in LiveStates
  BY DEF Driven, NodeT, LiveStates, Statuses

LEMMA SyncedIs ==
    ASSUME NEW S, NEW n, NEW j \in Records(S, n), NEW task, NEW status, NEW at
    PROVE  Synced(j, task, status, at) =
             IF task \notin DOMAIN j.nodes \/ IsOver(Current(j, task)) THEN j
             ELSE [j EXCEPT !.nodes = [j.nodes EXCEPT ![task] =
                       [j.nodes[task] EXCEPT ![Len(j.nodes[task])] = Driven(Current(j, task), status, at)]]]
<1>1. CASE task \in DOMAIN j.nodes
  <2>1. DOMAIN j.nodes[task] = 1 .. Len(j.nodes[task]) /\ Len(j.nodes[task]) \in Nat \ {0}
    BY <1>1, NodeIs
  <2> QED BY <1>1, <2>1 DEF Synced, Driven, Records
<1>2. CASE task \notin DOMAIN j.nodes
  BY <1>2 DEF Synced
<1> QED BY <1>1, <1>2

LEMMA SyncedOk ==
    ASSUME NEW S, NEW n, NEW j, RecordOk(j, S, n), NEW task, NEW status \in Statuses,
           NEW at \in 0 .. n
    PROVE  RecordOk(Synced(j, task, status, at), S, n)
<1>1. j \in Records(S, n)
  BY DEF RecordOk
<1>2. CASE task \notin DOMAIN j.nodes \/ IsOver(Current(j, task))
  BY <1>1, <1>2, SyncedIs
<1>3. CASE task \in DOMAIN j.nodes /\ ~IsOver(Current(j, task))
  <2> DEFINE v == [j.nodes[task] EXCEPT ![Len(j.nodes[task])] = Driven(Current(j, task), status, at)]
             w == [j.nodes EXCEPT ![task] = v]
             k == [j EXCEPT !.nodes = w]
  <2>1. Synced(j, task, status, at) = k
    BY <1>1, <1>3, SyncedIs
  <2>2. v \in ChainT(n)
    BY <1>1, <1>3, NodeIs, DrivenOk, SetLast
  <2>3. j.nodes \in NodesT(S, n)
    BY <1>1, RecordIs
  <2>4. w \in NodesT(S, n) /\ DOMAIN w = DOMAIN j.nodes
    <3> HIDE DEF v
    <3> QED BY <2>2, <2>3, NodeSet
  <2> HIDE DEF w
  <2>5. k \in Records(S, n) /\ k.nodes = w /\ k.tasks = j.tasks /\ k.events = j.events
    BY <1>1, <2>4 DEF Records
  <2> HIDE DEF k
  <2>6. Complete(k)
    BY <2>4, <2>5, CompleteAs DEF RecordOk
  <2> QED BY <2>1, <2>5, <2>6 DEF RecordOk
<1> QED BY <1>2, <1>3

LEMMA AfterStatusOk ==
    ASSUME NEW S, NEW n, NEW j, RecordOk(j, S, n), NEW task, NEW status \in Statuses,
           NEW at \in 0 .. n
    PROVE  RecordOk(AfterStatus(j, task, status, at), S, n)
<1> DEFINE t == [j.tasks EXCEPT ![task] = [status |-> status, at |-> at]]
           k == [j EXCEPT !.tasks = t]
<1>1. j \in Records(S, n) /\ j.tasks \in TasksT(S, n)
  BY RecordIs DEF RecordOk
<1>2. t \in TasksT(S, n) /\ DOMAIN t = DOMAIN j.tasks
  <2>1. [status |-> status, at |-> at] \in TaskT(n)
    BY DEF TaskT
  <2> QED BY <1>1, <2>1, TaskSet
<1>3. AfterStatus(j, task, status, at) = Synced(k, task, status, at)
  BY <1>1 DEF AfterStatus, Records
<1> HIDE DEF t
<1>4. k \in Records(S, n) /\ k.nodes = j.nodes /\ k.tasks = t /\ k.events = j.events
  BY <1>1, <1>2 DEF Records
<1> HIDE DEF k
<1>5. Complete(k)
  BY <1>2, <1>4, CompleteAs DEF RecordOk
<1>6. RecordOk(k, S, n)
  BY <1>4, <1>5 DEF RecordOk
<1> QED BY <1>3, <1>6, SyncedOk

LEMMA SettledTaskOk ==
    ASSUME NEW n, NEW task \in TaskT(n), NEW cancelled \in BOOLEAN, NEW at \in 0 .. n
    PROVE  SettledTask(task, cancelled, at) \in TaskT(n)
  BY DEF SettledTask, TaskT, Statuses

LEMMA AfterSettlingOk ==
    ASSUME NEW S, NEW n \in Nat, NEW j, RecordOk(j, S, n), NEW e \in DOMAIN j.nodes,
           NEW cancelled \in BOOLEAN, NEW at \in 0 .. n
    PROVE  RecordOk(AfterSettling(j, e, cancelled, at), S, n)
<1> DEFINE node == [Current(j, e) EXCEPT !.state = IF cancelled THEN "cancelled" ELSE "completed",
                                         !.by = "user", !.at = at]
           v == IF NeedsConfirmation(Current(j, e)) THEN NewVersion(j.nodes[e], node, at)
                ELSE Append(Front(j.nodes[e]), node)
           w == [j.nodes EXCEPT ![e] = v]
           t == [j.tasks EXCEPT ![e] = SettledTask(j.tasks[e], cancelled, at)]
           p == [j.process EXCEPT !.last = IF cancelled THEN j.process.last ELSE at]
           k == [j EXCEPT !.nodes = w, !.tasks = t, !.process = p]
<1>1. j \in Records(S, n) /\ j.tasks \in TasksT(S, n) /\ j.nodes \in NodesT(S, n)
      /\ j.process \in ProcessT(S, n)
  BY RecordIs DEF RecordOk
<1>2. node \in NodeT(n) /\ node.state \in LiveStates
  <2>1. Current(j, e) \in NodeT(n)
    BY <1>1, NodeIs
  <2> QED BY <2>1 DEF NodeT, LiveStates
<1>3. v \in ChainT(n)
  <2> HIDE DEF node
  <2>1. j.nodes[e] \in ChainT(n)
    BY <1>1, NodeIs
  <2> QED BY <1>2, <2>1, NewVersionOk, Replaced
<1>4. AfterSettling(j, e, cancelled, at) = k
  BY <1>1 DEF AfterSettling, Records
<1> HIDE DEF v
<1>5. w \in NodesT(S, n) /\ DOMAIN w = DOMAIN j.nodes
  BY <1>1, <1>3, NodeSet
<1>6. t \in TasksT(S, n) /\ DOMAIN t = DOMAIN j.tasks
  BY <1>1, TaskIs, SettledTaskOk, TaskSet
<1>7. p \in ProcessT(S, n)
  BY <1>1 DEF ProcessT
<1> HIDE DEF w, t, p
<1>8. k \in Records(S, n) /\ k.nodes = w /\ k.tasks = t /\ k.events = j.events
  BY <1>1, <1>5, <1>6, <1>7 DEF Records
<1> HIDE DEF k
<1>9. Complete(k)
  BY <1>5, <1>6, <1>8, CompleteAs DEF RecordOk
<1> QED BY <1>4, <1>8, <1>9 DEF RecordOk

LEMMA AfterRescheduleOk ==
    ASSUME NEW S, NEW n \in Nat, NEW j, RecordOk(j, S, n), NEW e \in DOMAIN j.nodes,
           NEW slot \in Nat, NEW at \in 0 .. n
    PROVE  RecordOk(AfterReschedule(j, e, slot, at), S, n)
<1> DEFINE node == [state |-> "scheduled", slot |-> slot, by |-> "none", at |-> at]
           v == NewVersion(j.nodes[e], node, at)
           w == [j.nodes EXCEPT ![e] = v]
           x == [j.events EXCEPT ![e].due = slot]
           p == [j.process EXCEPT !.last = at]
           k == [j EXCEPT !.nodes = w, !.events = x, !.process = p]
<1>1. j \in Records(S, n) /\ j.events \in EventsT(S, n) /\ j.nodes \in NodesT(S, n)
      /\ j.process \in ProcessT(S, n)
  BY RecordIs DEF RecordOk
<1>2. node \in NodeT(n) /\ node.state \in LiveStates
  BY DEF NodeT, LiveStates
<1>3. v \in ChainT(n)
  <2> HIDE DEF node
  <2>1. j.nodes[e] \in ChainT(n)
    BY <1>1, NodeIs
  <2> QED BY <1>2, <2>1, NewVersionOk
<1>4. AfterReschedule(j, e, slot, at) = k
  BY <1>1 DEF AfterReschedule, Records
<1> HIDE DEF v
<1>5. w \in NodesT(S, n) /\ DOMAIN w = DOMAIN j.nodes
  BY <1>1, <1>3, NodeSet
<1>6. /\ x \in EventsT(S, n) /\ DOMAIN x = DOMAIN j.events
      /\ \A d \in DOMAIN j.events : x[d].type = j.events[d].type /\ x[d].pos = j.events[d].pos
  <2> DEFINE y == [j.events[e] EXCEPT !.due = slot]
  <2>1. x = [j.events EXCEPT ![e] = y]
    OBVIOUS
  <2>2. e \in DOMAIN j.events => y \in EventT(S, n) /\ y.type = j.events[e].type /\ y.pos = j.events[e].pos
    <3>1. e \in DOMAIN j.events => j.events[e] \in EventT(S, n)
      BY <1>1, EventIs
    <3> QED BY <3>1 DEF EventT
  <2> HIDE DEF y
  <2>3. x \in EventsT(S, n)
    BY <1>1, <2>1, <2>2, SetIsPartial DEF EventsT
  <2> QED BY <2>1, <2>2, <2>3
<1>7. p \in ProcessT(S, n)
  BY <1>1 DEF ProcessT
<1> HIDE DEF w, x, p
<1>8. k \in Records(S, n) /\ k.nodes = w /\ k.tasks = j.tasks /\ k.events = x
  BY <1>1, <1>5, <1>6, <1>7 DEF Records
<1> HIDE DEF k
<1>9. Complete(k)
  BY <1>5, <1>6, <1>8, CompleteAs DEF RecordOk
<1> QED BY <1>4, <1>8, <1>9 DEF RecordOk

LEMMA AfterAbandonOk ==
    ASSUME NEW S, NEW n \in Nat, NEW j, RecordOk(j, S, n), NEW at \in 0 .. n
    PROVE  RecordOk(AfterAbandon(j, at), S, n)
<1> DEFINE t == [x \in DOMAIN j.tasks |->
                   IF x \in OpenTasks(j) THEN [status |-> "skipped", at |-> at] ELSE j.tasks[x]]
           k == [j EXCEPT !.part = "abandoned", !.tasks = t]
<1>1. j \in Records(S, n) /\ j.tasks \in Partial(S \cup {Apply}, TaskT(n))
  BY RecordIs DEF RecordOk, TasksT
<1>2. AfterAbandon(j, at) = k
  BY <1>1 DEF AfterAbandon, Records
<1>3. t \in TasksT(S, n) /\ DOMAIN t = DOMAIN j.tasks
  <2>1. [status |-> "skipped", at |-> at] \in TaskT(n)
    BY DEF TaskT, Statuses
  <2>2. t \in [DOMAIN j.tasks -> TaskT(n)]
    BY <1>1, <2>1, PartialIs
  <2>3. DOMAIN j.tasks \in SUBSET (S \cup {Apply})
    BY <1>1, PartialIs
  <2> HIDE DEF t
  <2>4. t \in Partial(S \cup {Apply}, TaskT(n))
    BY <2>2, <2>3, IsPartial
  <2> QED BY <2>2, <2>4 DEF TasksT
<1> HIDE DEF t
<1>4. k \in Records(S, n) /\ k.nodes = j.nodes /\ k.tasks = t /\ k.events = j.events
  BY <1>1, <1>3 DEF Records
<1> HIDE DEF k
<1>5. Complete(k)
  BY <1>3, <1>4, CompleteAs DEF RecordOk
<1> QED BY <1>2, <1>4, <1>5 DEF RecordOk

LEMMA CancelledNodesOk ==
    ASSUME NEW S, NEW n, NEW j \in Records(S, n), NEW e, NEW at \in 0 .. n
    PROVE  CancelledNodes(j, e, at) \in NodesT(S, n) /\ DOMAIN CancelledNodes(j, e, at) = DOMAIN j.nodes
<1>1. j.nodes \in NodesT(S, n)
  BY RecordIs
<1>2. CASE e \notin DOMAIN j.nodes \/ IsOver(Current(j, e))
  BY <1>1, <1>2 DEF CancelledNodes
<1>3. CASE e \in DOMAIN j.nodes /\ ~IsOver(Current(j, e))
  <2> DEFINE node == [Current(j, e) EXCEPT !.state = "cancelled", !.at = at]
             v == [j.nodes[e] EXCEPT ![Len(j.nodes[e])] = node]
  <2>1. node \in NodeT(n) /\ node.state \in LiveStates
    <3>1. Current(j, e) \in NodeT(n)
      BY <1>3, NodeIs
    <3> QED BY <3>1 DEF NodeT, LiveStates
  <2>2. v \in ChainT(n)
    <3> HIDE DEF node
    <3> QED BY <1>3, <2>1, NodeIs, SetLast
  <2>3. CancelledNodes(j, e, at) = [j.nodes EXCEPT ![e] = v]
    <3>1. DOMAIN j.nodes[e] = 1 .. Len(j.nodes[e]) /\ Len(j.nodes[e]) \in Nat \ {0}
          /\ Current(j, e) = j.nodes[e][Len(j.nodes[e])]
      BY <1>3, NodeIs
    <3> QED BY <1>3, <3>1 DEF CancelledNodes
  <2> HIDE DEF v
  <2> QED BY <1>1, <2>2, <2>3, NodeSet
<1> QED BY <1>2, <1>3

LEMMA WithoutEventOk ==
    ASSUME NEW S, NEW n, NEW j, RecordOk(j, S, n), NEW e, e # Apply
    PROVE  RecordOk(WithoutEvent(j, e), S, n)
<1> DEFINE x == Restrict(j.events, DOMAIN j.events \ {e})
           t == Restrict(j.tasks, DOMAIN j.tasks \ {e})
           k == [j EXCEPT !.events = x, !.tasks = t]
<1>1. j \in Records(S, n) /\ j.tasks \in TasksT(S, n) /\ j.events \in EventsT(S, n)
  BY RecordIs DEF RecordOk
<1>2. WithoutEvent(j, e) = k
  BY <1>1 DEF WithoutEvent, Records
<1>3. /\ x \in EventsT(S, n) /\ DOMAIN x = DOMAIN j.events \ {e}
      /\ \A d \in DOMAIN x : x[d] = j.events[d]
  <2>1. DOMAIN j.events \ {e} \in SUBSET DOMAIN j.events
    OBVIOUS
  <2>2. x \in EventsT(S, n)
    BY <1>1, <2>1, RestrictIsPartial DEF EventsT
  <2> QED BY <2>2 DEF Restrict
<1>4. t \in TasksT(S, n) /\ DOMAIN t = DOMAIN j.tasks \ {e}
  <2>1. DOMAIN j.tasks \ {e} \in SUBSET DOMAIN j.tasks
    OBVIOUS
  <2>2. t \in TasksT(S, n)
    BY <1>1, <2>1, RestrictIsPartial DEF TasksT
  <2> QED BY <2>2 DEF Restrict
<1> HIDE DEF x, t
<1>5. k \in Records(S, n) /\ k.nodes = j.nodes /\ k.tasks = t /\ k.events = x
  BY <1>1, <1>3, <1>4 DEF Records
<1> HIDE DEF k
<1>6. Complete(k)
  BY <1>3, <1>4, <1>5 DEF RecordOk, Complete
<1> QED BY <1>2, <1>5, <1>6 DEF RecordOk

\* The record with other occurrences of the same events.
LEMMA NodesOk ==
    ASSUME NEW S, NEW n, NEW j, RecordOk(j, S, n), NEW w \in NodesT(S, n),
           DOMAIN j.nodes = DOMAIN w
    PROVE  RecordOk([j EXCEPT !.nodes = w], S, n)
<1> DEFINE k == [j EXCEPT !.nodes = w]
<1>1. k \in Records(S, n) /\ k.nodes = w /\ k.tasks = j.tasks /\ k.events = j.events
  BY DEF Records, RecordOk
<1> HIDE DEF k
<1>2. Complete(k)
  BY <1>1, CompleteAs DEF RecordOk
<1>3. RecordOk(k, S, n)
  BY <1>1, <1>2 DEF RecordOk
<1> QED BY <1>3 DEF k

LEMMA AfterDeletionOk ==
    ASSUME NEW S, NEW n, NEW j, RecordOk(j, S, n), NEW e, e # Apply, NEW at \in 0 .. n
    PROVE  RecordOk(AfterDeletion(j, e, at), S, n)
<1>1. /\ CancelledNodes(j, e, at) \in NodesT(S, n)
      /\ DOMAIN CancelledNodes(j, e, at) = DOMAIN j.nodes
  BY CancelledNodesOk DEF RecordOk
<1>2. RecordOk([j EXCEPT !.nodes = CancelledNodes(j, e, at)], S, n)
  BY <1>1, NodesOk
<1> QED BY <1>2, WithoutEventOk DEF AfterDeletion

-----------------------------------------------------------------------------
(* The newest of some events *)

LEMMA LeastOf ==
    ASSUME NEW s \in SUBSET Nat, s # {}
    PROVE  \E m \in s : \A d \in s : m <= d
<1>1. PICK m \in s : \A d \in s : ~(<<d, m>> \in OpToRel(<, Nat))
  BY WFMin, NatLessThanWellFounded
<1>2. \A d \in s : m <= d
  <2> TAKE d \in s
  <2>1. ~(d < m)
    BY <1>1 DEF OpToRel
  <2> QED BY <2>1
<1> QED BY <1>2

LEMMA GreatestOf ==
    ASSUME NEW n \in Nat, NEW s \in SUBSET (0 .. n), s # {}
    PROVE  \E m \in s : \A d \in s : d <= m
<1> DEFINE v == {n - d : d \in s}
<1>1. v \in SUBSET Nat /\ v # {}
  <2>1. \A d \in s : d \in 0 .. n
    OBVIOUS
  <2>2. \A d \in s : n - d \in Nat
    BY <2>1
  <2> QED BY <2>2
<1>2. PICK m \in v : \A d \in v : m <= d
  <2> HIDE DEF v
  <2> QED BY <1>1, LeastOf
<1>3. PICK c \in s : m = n - c
  BY <1>2
<1>4. \A d \in s : d <= c
  <2> TAKE d \in s
  <2>1. n - d \in v
    OBVIOUS
  <2>2. m <= n - d
    BY <1>2, <2>1
  <2> QED BY <1>3, <2>2
<1> QED BY <1>4

LEMMA LastMadeIn ==
    ASSUME NEW S \in SUBSET Nat, NEW n \in Nat, NEW j, RecordOk(j, S, n),
           NEW E \in SUBSET DOMAIN j.events, E # {}
    PROVE  LastMade(j, E) \in E
<1> DEFINE at(e) == j.events[e].at  made(e) == j.events[e].made  pos(e) == j.events[e].pos
<1>1. \A e \in E : at(e) \in 0 .. n /\ made(e) \in 0 .. n /\ pos(e) \in Nat
  <2>1. \A e \in E : j.events[e] \in EventT(S, n)
    BY EventIs DEF RecordOk
  <2> QED BY <2>1 DEF EventT
<1>2. PICK a \in E : \A e \in E : at(e) <= at(a)
  <2> DEFINE s == {at(e) : e \in E}
  <2>1. s \in SUBSET (0 .. n) /\ s # {}
    BY <1>1
  <2> HIDE DEF s
  <2>2. PICK m \in s : \A d \in s : d <= m
    BY <2>1, GreatestOf
  <2> QED BY <2>2 DEF s
<1> DEFINE A == {e \in E : at(e) = at(a)}
<1>3. PICK b \in A : \A e \in A : made(e) <= made(b)
  <2> DEFINE s == {made(e) : e \in A}
  <2>1. s \in SUBSET (0 .. n) /\ s # {}
    BY <1>1
  <2> HIDE DEF s
  <2>2. PICK m \in s : \A d \in s : d <= m
    BY <2>1, GreatestOf
  <2> QED BY <2>2 DEF s
<1> DEFINE B == {e \in A : made(e) = made(b)}
<1>4. PICK c \in B : \A e \in B : pos(c) <= pos(e)
  <2> DEFINE s == {pos(e) : e \in B}
  <2>1. s \in SUBSET Nat /\ s # {}
    BY <1>1
  <2> HIDE DEF s
  <2>2. PICK m \in s : \A d \in s : m <= d
    BY <2>1, LeastOf
  <2> QED BY <2>2 DEF s
<1>5. \A d \in E \ {c} : pos(d) # pos(c)
  BY DEF RecordOk, Complete
<1>6. ASSUME NEW d \in E \ {c}
      PROVE  \/ at(c) > at(d)
             \/ at(c) = at(d) /\ made(c) > made(d)
             \/ at(c) = at(d) /\ made(c) = made(d) /\ pos(c) < pos(d)
  <2>1. at(c) = at(a) /\ made(c) = made(b)
    OBVIOUS
  <2>2. CASE at(d) # at(a)
    BY <1>1, <1>2, <2>1, <2>2
  <2>3. CASE at(d) = at(a) /\ made(d) # made(b)
    <3>1. made(d) <= made(b)
      BY <1>3, <2>3
    <3> QED BY <1>1, <2>1, <2>3, <3>1
  <2>4. CASE at(d) = at(a) /\ made(d) = made(b)
    <3>1. pos(c) <= pos(d)
      BY <1>4, <2>4
    <3> QED BY <1>1, <1>5, <2>1, <2>4, <3>1
  <2> QED BY <2>2, <2>3, <2>4
<1> HIDE DEF at, made, pos
<1>7. \E x \in E : \A d \in E \ {x} :
         \/ at(x) > at(d)
         \/ at(x) = at(d) /\ made(x) > made(d)
         \/ at(x) = at(d) /\ made(x) = made(d) /\ pos(x) < pos(d)
  BY <1>6
<1>8. LastMade(j, E) = CHOOSE x \in E : \A d \in E \ {x} :
         \/ at(x) > at(d)
         \/ at(x) = at(d) /\ made(x) > made(d)
         \/ at(x) = at(d) /\ made(x) = made(d) /\ pos(x) < pos(d)
  BY DEF LastMade, at, made, pos
<1> QED BY <1>7, <1>8

LEMMA AfterInvalidationOk ==
    ASSUME NEW S \in SUBSET Nat, NEW n \in Nat, NEW j, RecordOk(j, S, n), NEW e \in DOMAIN j.events
    PROVE  /\ RecordOk(AfterInvalidation(j, e), S, n)
           /\ AfterInvalidation(j, e).receipts = j.receipts
           /\ AfterInvalidation(j, e).nodes = j.nodes
<1> DEFINE surviving == LiveEvents(j) \ {e}
           heir == LastMade(j, surviving)
           rival == LastMade(j, surviving \ {heir})
           unclear == \/ surviving = {}
                      \/ /\ surviving # {heir}
                         /\ j.events[rival].at = j.events[heir].at
                         /\ j.events[rival].type # j.events[heir].type
           stage == IF unclear THEN "unknown" ELSE j.events[heir].type
           owner == IF unclear THEN Nobody ELSE [id |-> heir, at |-> j.events[heir].at]
           mine  == [id |-> e, at |-> j.events[e].at]
           x == [j.events EXCEPT ![e].dead = TRUE]
           k == [j EXCEPT !.events = x]
           l == IF j.owner = mine /\ j.stage = j.events[e].type
                THEN [k EXCEPT !.stage = stage, !.owner = owner] ELSE k
           m == IF /\ j.process.on /\ j.process.owner = mine /\ j.process.stage = j.events[e].type
                   /\ j.process.last = j.events[e].at
                THEN [l EXCEPT !.process = [on |-> TRUE, stage |-> stage, owner |-> owner, last |-> owner.at]]
                ELSE l
<1>1. j \in Records(S, n) /\ j.events \in EventsT(S, n)
  BY RecordIs DEF RecordOk
<1>2. AfterInvalidation(j, e) = m
  BY <1>1 DEF AfterInvalidation, Records
<1>3. /\ x \in EventsT(S, n) /\ DOMAIN x = DOMAIN j.events
      /\ \A d \in DOMAIN j.events : x[d].type = j.events[d].type /\ x[d].pos = j.events[d].pos
  <2> DEFINE y == [j.events[e] EXCEPT !.dead = TRUE]
  <2>1. x = [j.events EXCEPT ![e] = y]
    OBVIOUS
  <2>2. y \in EventT(S, n) /\ y.type = j.events[e].type /\ y.pos = j.events[e].pos
    <3>1. j.events[e] \in EventT(S, n)
      BY <1>1, EventIs
    <3> QED BY <3>1 DEF EventT
  <2> HIDE DEF y
  <2>3. x \in EventsT(S, n)
    BY <1>1, <2>1, <2>2, SetIsPartial DEF EventsT
  <2> QED BY <2>1, <2>2, <2>3
<1>4. stage \in Stages /\ owner \in StampT(S, n) /\ owner.at \in 0 .. n
  <2>1. CASE unclear
    BY <2>1 DEF Stages, StampT, Nobody
  <2>2. CASE ~unclear
    <3>1. surviving \in SUBSET DOMAIN j.events /\ surviving # {}
      BY <2>2 DEF LiveEvents
    <3>2. heir \in surviving
      <4> HIDE DEF surviving
      <4> QED BY <3>1, LastMadeIn
    <3>3. j.events[heir] \in EventT(S, n) /\ heir \in S
      BY <1>1, <3>1, <3>2, EventIs
    <3> HIDE DEF heir, unclear
    <3> QED BY <2>2, <3>3 DEF EventT, Stages, StampT
  <2> HIDE DEF unclear
  <2> QED BY <2>1, <2>2
<1>5. [on |-> TRUE, stage |-> stage, owner |-> owner, last |-> owner.at] \in ProcessT(S, n)
  BY <1>4 DEF ProcessT
<1> HIDE DEF x, stage, owner, mine
<1>6. k \in Records(S, n) /\ k.nodes = j.nodes /\ k.tasks = j.tasks /\ k.events = x /\ k.receipts = j.receipts
  BY <1>1, <1>3 DEF Records
<1> HIDE DEF k
<1>7. l \in Records(S, n) /\ l.nodes = j.nodes /\ l.tasks = j.tasks /\ l.events = x /\ l.receipts = j.receipts
  BY <1>4, <1>6 DEF Records
<1> HIDE DEF l
<1>8. m \in Records(S, n) /\ m.nodes = j.nodes /\ m.tasks = j.tasks /\ m.events = x /\ m.receipts = j.receipts
  <2> DEFINE p == [on |-> TRUE, stage |-> stage, owner |-> owner, last |-> owner.at]
  <2> HIDE DEF p
  <2>1. [l EXCEPT !.process = p] \in Records(S, n)
    BY <1>5, <1>7 DEF Records, p
  <2>2. /\ [l EXCEPT !.process = p].nodes = l.nodes /\ [l EXCEPT !.process = p].tasks = l.tasks
        /\ [l EXCEPT !.process = p].events = l.events /\ [l EXCEPT !.process = p].receipts = l.receipts
    BY <1>7 DEF Records
  <2> QED BY <1>7, <2>1, <2>2 DEF p
<1> HIDE DEF m
<1>9. Complete(m)
  BY <1>3, <1>8, CompleteAs DEF RecordOk
<1> QED BY <1>2, <1>8, <1>9 DEF RecordOk

-----------------------------------------------------------------------------
(* What a compensation carries, and that it keeps the record's type.        *)

EventUndoT(c, S, n) ==
    /\ c.op = "delete_process_event" /\ c.id \in S
    /\ c.before.stage \in Stages /\ c.before.owner \in StampT(S, n)
    /\ c.before.process \in ProcessT(S, n)
SubmissionUndoT(c, S, n) ==
    /\ c.op = "restore_application_submission" /\ c.id \in S
    /\ c.stage \in Stages /\ c.before \in TaskT(n)
DeletionUndoT(c, S, n) ==
    /\ c.op = "restore_deleted_process_event" /\ c.id \in S
    /\ c.event \in EventT(S, n)
    /\ c.task # <<>> => c.task[1] \in TaskT(n)
    /\ c.before # c.after => c.before[1] \in ChainT(n)
    /\ c.event.type = "interview" => c.task # <<>>
ParticipationUndoT(c, S, n) ==
    /\ c.op = "restore_participation"
    /\ c.tasks \in Partial(S \cup {Apply}, Statuses)
StatusUndoT(c, S, n) ==
    /\ c.op = "set_action_status" /\ c.before \in TaskT(n)
    /\ c.was # c.is => c.was[1] \in ChainT(n)
SettlingUndoT(c, S, n) ==
    /\ c.op = "restore_occurrence_completion"
    /\ c.node \in NodeT(n) /\ c.node.state \in LiveStates
    /\ c.task \in TaskT(n) /\ c.stage \in Stages
VersionUndoT(c, S, n) ==
    /\ c.op = "restore_occurrence_supersession"
    /\ c.previous \in NodeT(n) /\ c.previous.state \in LiveStates
    /\ c.before.task \in TaskT(n) /\ c.before.due \in [due : Nat]
    /\ c.before.process \in ProcessT(S, n)

CompT(c, S, n) ==
    \/ EventUndoT(c, S, n) \/ SubmissionUndoT(c, S, n) \/ DeletionUndoT(c, S, n)
    \/ ParticipationUndoT(c, S, n) \/ StatusUndoT(c, S, n) \/ SettlingUndoT(c, S, n)
    \/ VersionUndoT(c, S, n)

\* The deleted event that c restores is an interview exactly when it still has
\* an occurrence.
CompFits(c, nodes) ==
    c.op = "restore_deleted_process_event" =>
        (c.event.type = "interview" <=> c.id \in nodes)

\* What a compensation leaves alone.
SameBooks(j, k) ==
    /\ DOMAIN k.nodes = DOMAIN j.nodes
    /\ k.receipts = j.receipts /\ k.requests = j.requests /\ k.answers = j.answers

LEMMA UndoneEventOk ==
    ASSUME NEW S, Apply \notin S, NEW n \in Nat, NEW j, RecordOk(j, S, n), NEW c, EventUndoT(c, S, n),
           NEW at \in 0 .. n
    PROVE  /\ RecordOk(UndoneEvent(j, c, at).job, S, n)
           /\ SameBooks(j, UndoneEvent(j, c, at).job)
<1> DEFINE ofJob == j.owner.id = c.id
           ofProcess == j.process.on /\ j.process.owner.id = c.id
           l == WithoutEvent(j, c.id)
           w == IF c.id \notin DOMAIN l.nodes THEN l.nodes
                ELSE [l.nodes EXCEPT ![c.id][Len(j.nodes[c.id])].state = "cancelled",
                                     ![c.id][Len(j.nodes[c.id])].at = at]
           stage == IF ofJob THEN c.before.stage ELSE l.stage
           owner == IF ofJob THEN c.before.owner ELSE l.owner
           process == IF ofProcess THEN c.before.process ELSE l.process
           k == [l EXCEPT !.stage = stage, !.owner = owner, !.process = process, !.nodes = w]
<1>1. RecordOk(l, S, n)
  BY WithoutEventOk DEF EventUndoT
<1>2. l.nodes = j.nodes /\ l.receipts = j.receipts /\ l.requests = j.requests /\ l.answers = j.answers
  BY DEF WithoutEvent, RecordOk, Records
<1>3. UndoneEvent(j, c, at).job = k
  BY <1>1 DEF UndoneEvent, Restored, RecordOk, Records
<1>4. w \in NodesT(S, n) /\ DOMAIN w = DOMAIN j.nodes
  <2>1. j.nodes \in NodesT(S, n)
    BY RecordIs DEF RecordOk
  <2>2. CASE c.id \notin DOMAIN j.nodes
    BY <1>2, <2>1, <2>2
  <2>3. CASE c.id \in DOMAIN j.nodes
    <3> DEFINE node == [Current(j, c.id) EXCEPT !.state = "cancelled", !.at = at]
               v == [j.nodes[c.id] EXCEPT ![Len(j.nodes[c.id])] = node]
    <3>1. node \in NodeT(n) /\ node.state \in LiveStates
      <4>1. Current(j, c.id) \in NodeT(n)
        BY <2>3, NodeIs DEF RecordOk
      <4> QED BY <4>1 DEF NodeT, LiveStates
    <3>2. v \in ChainT(n)
      <4> HIDE DEF node
      <4> QED BY <2>3, <3>1, NodeIs, SetLast DEF RecordOk
    <3>3. w = [j.nodes EXCEPT ![c.id] = v]
      <4>1. DOMAIN j.nodes[c.id] = 1 .. Len(j.nodes[c.id]) /\ Len(j.nodes[c.id]) \in Nat \ {0}
            /\ Current(j, c.id) = j.nodes[c.id][Len(j.nodes[c.id])]
        BY <2>3, NodeIs DEF RecordOk
      <4> HIDE DEF l
      <4> QED BY <1>2, <2>3, <4>1
    <3> HIDE DEF v, w
    <3> QED BY <2>1, <3>2, <3>3, NodeSet
  <2> QED BY <2>2, <2>3
<1> HIDE DEF w
<1>5. stage \in Stages /\ owner \in StampT(S, n) /\ process \in ProcessT(S, n)
  BY <1>1, RecordIs DEF RecordOk, EventUndoT
<1> HIDE DEF l, stage, owner, process
<1>6. k \in Records(S, n) /\ k.nodes = w /\ k.tasks = l.tasks /\ k.events = l.events
      /\ k.receipts = l.receipts /\ k.requests = l.requests /\ k.answers = l.answers
  BY <1>1, <1>4, <1>5 DEF RecordOk, Records
<1> HIDE DEF k
<1>7. Complete(k)
  BY <1>1, <1>2, <1>4, <1>6, CompleteAs DEF RecordOk
<1> QED BY <1>2, <1>3, <1>4, <1>6, <1>7 DEF RecordOk, SameBooks

LEMMA UndoneSubmissionOk ==
    ASSUME NEW S, NEW n \in Nat, NEW j, RecordOk(j, S, n), NEW c, SubmissionUndoT(c, S, n)
    PROVE  /\ RecordOk(UndoneSubmission(j, c).job, S, n)
           /\ SameBooks(j, UndoneSubmission(j, c).job)
<1> DEFINE others == j.proofs \ {c.id}
           k == [j EXCEPT !.proofs = others]
           t == [k.tasks EXCEPT ![Apply] = c.before]
           p == [k.process EXCEPT !.stage = IF j.process.on THEN c.stage ELSE k.process.stage]
           l == [k EXCEPT !.stage = c.stage, !.process = p, !.tasks = t]
<1>1. j \in Records(S, n) /\ others \in SUBSET S
  BY RecordIs DEF RecordOk
<1>2. SameBooks(j, j)
  BY DEF SameBooks
<1>3. k \in Records(S, n) /\ SameBooks(j, k) /\ k.tasks = j.tasks /\ k.events = j.events
      /\ k.nodes = j.nodes
  BY <1>1 DEF Records, SameBooks
<1>4. Complete(k)
  <2> HIDE DEF k
  <2> QED BY <1>3, CompleteAs DEF RecordOk
<1>5. UndoneSubmission(j, c).job \in {j, k, l}
  BY <1>1 DEF UndoneSubmission, Restored, Refused, Records
<1> HIDE DEF k
<1>6. t \in TasksT(S, n) /\ DOMAIN t = DOMAIN k.tasks
  BY <1>3, RecordIs, TaskSet DEF SubmissionUndoT
<1>7. p \in ProcessT(S, n)
  BY <1>3, RecordIs DEF SubmissionUndoT, ProcessT
<1> HIDE DEF t, p
<1>8. l \in Records(S, n) /\ SameBooks(k, l) /\ l.tasks = t /\ l.events = k.events /\ l.nodes = k.nodes
  BY <1>3, <1>6, <1>7 DEF Records, SameBooks, SubmissionUndoT
<1> HIDE DEF l
<1>9. Complete(l)
  BY <1>4, <1>6, <1>8, CompleteAs
<1> QED BY <1>1, <1>2, <1>3, <1>4, <1>5, <1>8, <1>9 DEF RecordOk, SameBooks

LEMMA UndoneDeletionOk ==
    ASSUME NEW S, NEW n \in Nat, NEW j, RecordOk(j, S, n), NEW c, DeletionUndoT(c, S, n),
           CompFits(c, DOMAIN j.nodes), NEW at \in 0 .. n, Id(at, 1) \notin S,
           UndoneDeletion(j, c, at).ok
    PROVE  /\ RecordOk(UndoneDeletion(j, c, at).job, S \cup {Id(at, 1)}, n)
           /\ SameBooks(j, UndoneDeletion(j, c, at).job)
<1> DEFINE R == S \cup {Id(at, 1)}
           y == [c.event EXCEPT !.pos = Id(at, 1)]
           x == Put(j.events, c.id, y)
           t == IF c.task = <<>> THEN j.tasks ELSE Put(j.tasks, c.id, c.task[1])
           w == IF c.before = c.after THEN j.nodes ELSE [j.nodes EXCEPT ![c.id] = c.before[1]]
           k == [j EXCEPT !.events = x, !.tasks = t, !.nodes = w]
<1>1. RecordOk(j, R, n)
  BY RecordGrows
<1>2. j \in Records(R, n) /\ j.tasks \in TasksT(R, n) /\ j.nodes \in NodesT(R, n)
      /\ j.events \in EventsT(R, n)
  BY <1>1, RecordIs DEF RecordOk
<1>3. UndoneDeletion(j, c, at).job = k
  BY <1>2 DEF UndoneDeletion, Restored, Records
<1>4. c.id \notin DOMAIN j.events
  BY DEF UndoneDeletion, Restored
<1>5. y \in EventT(R, n) /\ y.type = c.event.type /\ y.pos = Id(at, 1)
  BY DEF DeletionUndoT, EventT
<1>6. x \in EventsT(R, n)
  <2> HIDE DEF y
  <2> QED BY <1>2, <1>5, PutIsPartial DEF EventsT, DeletionUndoT
<1>7. /\ DOMAIN x = DOMAIN j.events \cup {c.id} /\ x[c.id] = y
      /\ \A e \in DOMAIN j.events : x[e] = j.events[e]
  <2> HIDE DEF y
  <2> QED BY <1>4 DEF Put
<1>8. /\ t \in TasksT(R, n)
      /\ DOMAIN j.tasks \subseteq DOMAIN t /\ (c.task # <<>> => c.id \in DOMAIN t)
  <2>1. CASE c.task = <<>>
    BY <1>2, <2>1
  <2>2. CASE c.task # <<>>
    <3>1. t = Put(j.tasks, c.id, c.task[1])
      BY <2>2
    <3>2. Put(j.tasks, c.id, c.task[1]) \in TasksT(R, n)
      BY <1>2, <2>2, PutIsPartial DEF TasksT, DeletionUndoT
    <3> QED BY <3>1, <3>2 DEF Put
  <2> QED BY <2>1, <2>2
<1>9. w \in NodesT(R, n) /\ DOMAIN w = DOMAIN j.nodes
  BY <1>2, NodeSet DEF DeletionUndoT
<1> HIDE DEF y, x, t, w
<1>10. k \in Records(R, n) /\ k.events = x /\ k.tasks = t /\ k.nodes = w
       /\ k.receipts = j.receipts /\ k.requests = j.requests /\ k.answers = j.answers
  BY <1>2, <1>6, <1>8, <1>9 DEF Records
<1> HIDE DEF k
<1>11. ASSUME NEW e \in DOMAIN x
       PROVE  /\ x[e].type = "interview" <=> e \in DOMAIN w
              /\ e \in DOMAIN w => e \in DOMAIN t
  <2>1. CASE e = c.id
    <3>1. x[e].type = c.event.type
      BY <1>5, <1>7, <2>1
    <3>2. c.event.type = "interview" <=> c.id \in DOMAIN j.nodes
      BY DEF CompFits, DeletionUndoT
    <3> QED BY <1>8, <1>9, <2>1, <3>1, <3>2 DEF DeletionUndoT
  <2>2. CASE e # c.id
    BY <1>7, <1>8, <1>9, <2>2 DEF RecordOk, Complete
  <2> QED BY <2>1, <2>2
<1>12. \A d, e \in DOMAIN x : x[d].pos = x[e].pos => d = e
  <2>1. \A e \in DOMAIN j.events : j.events[e].pos \in S
    <3>1. \A e \in DOMAIN j.events : j.events[e] \in EventT(S, n)
      BY EventIs DEF RecordOk
    <3> QED BY <3>1 DEF EventT
  <2>2. \A e \in DOMAIN j.events : x[e].pos # Id(at, 1)
    BY <1>7, <2>1
  <2>3. x[c.id].pos = Id(at, 1)
    BY <1>5, <1>7
  <2>4. \A d, e \in DOMAIN j.events : x[d].pos = x[e].pos => d = e
    BY <1>7 DEF RecordOk, Complete
  <2> QED BY <1>7, <2>2, <2>3, <2>4
<1>13. Complete(k)
  BY <1>8, <1>10, <1>11, <1>12 DEF RecordOk, Complete
<1> QED BY <1>3, <1>9, <1>10, <1>13 DEF RecordOk, SameBooks

LEMMA UndoneStatusOk ==
    ASSUME NEW S, NEW n \in Nat, NEW j, RecordOk(j, S, n), NEW c, StatusUndoT(c, S, n)
    PROVE  /\ RecordOk(UndoneStatus(j, c).job, S, n)
           /\ SameBooks(j, UndoneStatus(j, c).job)
<1> DEFINE t == [j.tasks EXCEPT ![c.id] = c.before]
           w == IF c.was = c.is THEN j.nodes ELSE [j.nodes EXCEPT ![c.id] = c.was[1]]
           k == [j EXCEPT !.tasks = t, !.nodes = w]
<1>1. j \in Records(S, n) /\ j.tasks \in TasksT(S, n) /\ j.nodes \in NodesT(S, n)
  BY RecordIs DEF RecordOk
<1>2. UndoneStatus(j, c).job = k
  BY <1>1 DEF UndoneStatus, Restored, Records
<1>3. t \in TasksT(S, n) /\ DOMAIN t = DOMAIN j.tasks
  BY <1>1, TaskSet DEF StatusUndoT
<1>4. w \in NodesT(S, n) /\ DOMAIN w = DOMAIN j.nodes
  BY <1>1, NodeSet DEF StatusUndoT
<1> HIDE DEF t, w
<1>5. k \in Records(S, n) /\ k.events = j.events /\ k.tasks = t /\ k.nodes = w
      /\ k.receipts = j.receipts /\ k.requests = j.requests /\ k.answers = j.answers
  BY <1>1, <1>3, <1>4 DEF Records
<1> HIDE DEF k
<1>6. Complete(k)
  BY <1>3, <1>4, <1>5, CompleteAs DEF RecordOk
<1> QED BY <1>2, <1>4, <1>5, <1>6 DEF RecordOk, SameBooks

LEMMA UndoneSettlingOk ==
    ASSUME NEW S, NEW n \in Nat, NEW j, RecordOk(j, S, n), NEW c, SettlingUndoT(c, S, n)
    PROVE  /\ RecordOk(UndoneSettling(j, c).job, S, n)
           /\ SameBooks(j, UndoneSettling(j, c).job)
<1> DEFINE t == IF c.id \in DOMAIN j.tasks THEN [j.tasks EXCEPT ![c.id] = c.task] ELSE j.tasks
           v == Append(Front(j.nodes[c.id]), c.node)
           w == [j.nodes EXCEPT ![c.id] = v]
           p == [j.process EXCEPT !.stage = IF j.process.on THEN c.stage ELSE j.process.stage]
           k == [j EXCEPT !.nodes = w, !.tasks = t, !.process = p]
<1>1. j \in Records(S, n) /\ j.tasks \in TasksT(S, n) /\ j.nodes \in NodesT(S, n)
      /\ j.process \in ProcessT(S, n)
  BY RecordIs DEF RecordOk
<1>2. UndoneSettling(j, c).job = k
  BY <1>1 DEF UndoneSettling, Restored, Records
<1>3. t \in TasksT(S, n) /\ DOMAIN t = DOMAIN j.tasks
  BY <1>1, TaskSet DEF SettlingUndoT
<1>4. c.id \in DOMAIN j.nodes => v \in ChainT(n)
  BY <1>1, NodeIs, Replaced DEF SettlingUndoT
<1> HIDE DEF v
<1>5. w \in NodesT(S, n) /\ DOMAIN w = DOMAIN j.nodes
  BY <1>1, <1>4, NodeSet
<1>6. p \in ProcessT(S, n)
  BY <1>1 DEF ProcessT, SettlingUndoT
<1> HIDE DEF t, w, p
<1>7. k \in Records(S, n) /\ k.events = j.events /\ k.tasks = t /\ k.nodes = w
      /\ k.receipts = j.receipts /\ k.requests = j.requests /\ k.answers = j.answers
  BY <1>1, <1>3, <1>5, <1>6 DEF Records
<1> HIDE DEF k
<1>8. Complete(k)
  BY <1>3, <1>5, <1>7, CompleteAs DEF RecordOk
<1> QED BY <1>2, <1>5, <1>7, <1>8 DEF RecordOk, SameBooks

LEMMA UndoneVersionOk ==
    ASSUME NEW S, NEW n \in Nat, NEW j, RecordOk(j, S, n), NEW c, VersionUndoT(c, S, n)
    PROVE  /\ RecordOk(UndoneVersion(j, c).job, S, n)
           /\ SameBooks(j, UndoneVersion(j, c).job)
<1> DEFINE mine == Owners(j, c.id)
           Back(part) == PutBack(mine[part], c.before[part], c.after[part])
           t == [j.tasks EXCEPT ![c.id] = Back("task")]
           x == [j.events EXCEPT ![c.id].due = Back("due").due]
           v == Append(Front(Front(j.nodes[c.id])), c.previous)
           w == [j.nodes EXCEPT ![c.id] = v]
           p == Back("process")
           k == [j EXCEPT !.nodes = w, !.tasks = t, !.events = x, !.process = p]
<1>1. j \in Records(S, n) /\ j.tasks \in TasksT(S, n) /\ j.nodes \in NodesT(S, n)
      /\ j.process \in ProcessT(S, n) /\ j.events \in EventsT(S, n)
  BY RecordIs DEF RecordOk
<1>2. SameBooks(j, j)
  BY DEF SameBooks
<1>3. UndoneVersion(j, c).job = j \/ (c.id \in DOMAIN j.events /\ UndoneVersion(j, c).job = k)
  BY <1>1 DEF UndoneVersion, Restored, Refused, Records
<1>4. mine["task"] = j.tasks[c.id] /\ mine["process"] = j.process
      /\ mine["due"] = [due |-> j.events[c.id].due]
  BY DEF Owners
<1>5. t \in TasksT(S, n) /\ DOMAIN t = DOMAIN j.tasks
  <2>1. c.id \in DOMAIN j.tasks => Back("task") \in TaskT(n)
    <3>1. c.id \in DOMAIN j.tasks => j.tasks[c.id] \in TaskT(n)
      BY <1>1, TaskIs
    <3>2. c.before["task"] \in TaskT(n)
      BY DEF VersionUndoT
    <3> HIDE DEF mine
    <3> QED BY <1>4, <3>1, <3>2 DEF PutBack, TaskT
  <2> HIDE DEF Back
  <2> QED BY <1>1, <2>1, TaskSet
<1>6. c.id \in DOMAIN j.events =>
      /\ x \in EventsT(S, n) /\ DOMAIN x = DOMAIN j.events
      /\ \A d \in DOMAIN j.events : x[d].type = j.events[d].type /\ x[d].pos = j.events[d].pos
  <2> SUFFICES ASSUME c.id \in DOMAIN j.events
               PROVE  /\ x \in EventsT(S, n) /\ DOMAIN x = DOMAIN j.events
                      /\ \A d \in DOMAIN j.events : x[d].type = j.events[d].type /\ x[d].pos = j.events[d].pos
    OBVIOUS
  <2>1. j.events[c.id] \in EventT(S, n)
    BY <1>1, EventIs
  <2>2. Back("due").due \in Nat
    <3>1. c.before["due"] \in [due : Nat]
      BY DEF VersionUndoT
    <3>2. j.events[c.id].due \in Nat
      BY <2>1 DEF EventT
    <3> HIDE DEF mine
    <3> QED BY <1>4, <3>1, <3>2 DEF PutBack
  <2> DEFINE d0 == Back("due").due
             y == [j.events[c.id] EXCEPT !.due = d0]
  <2>3. x = [j.events EXCEPT ![c.id] = y]
    OBVIOUS
  <2> HIDE DEF d0, x
  <2>4. y \in EventT(S, n) /\ y.type = j.events[c.id].type /\ y.pos = j.events[c.id].pos
    BY <2>1, <2>2 DEF EventT, d0
  <2> HIDE DEF y
  <2>5. x \in EventsT(S, n)
    BY <1>1, <2>3, <2>4, SetIsPartial DEF EventsT
  <2> QED BY <2>3, <2>4, <2>5
<1>7. p \in ProcessT(S, n)
  <2>1. c.before["process"] \in ProcessT(S, n)
    BY DEF VersionUndoT
  <2> HIDE DEF mine
  <2> QED BY <1>1, <1>4, <2>1 DEF PutBack, ProcessT
<1>8. c.id \in DOMAIN j.nodes => v \in ChainT(n)
  BY <1>1, NodeIs, VersionDropped DEF VersionUndoT
<1> HIDE DEF v
<1>9. w \in NodesT(S, n) /\ DOMAIN w = DOMAIN j.nodes
  BY <1>1, <1>8, NodeSet
<1> HIDE DEF t, w, p, x
<1>10. CASE c.id \in DOMAIN j.events
  <2>1. k \in Records(S, n) /\ k.events = x /\ k.tasks = t /\ k.nodes = w
       /\ k.receipts = j.receipts /\ k.requests = j.requests /\ k.answers = j.answers
    BY <1>1, <1>5, <1>6, <1>7, <1>9, <1>10 DEF Records
  <2> HIDE DEF k
  <2>2. Complete(k)
    BY <1>5, <1>6, <1>9, <1>10, <2>1, CompleteAs DEF RecordOk
  <2> QED BY <1>2, <1>3, <1>9, <2>1, <2>2 DEF RecordOk, SameBooks
<1> QED BY <1>2, <1>3, <1>10

\* A finite set that has a part with some property has a smallest such part.
LEMMA SmallestPart ==
    ASSUME NEW S, IsFiniteSet(S), NEW W \in SUBSET SUBSET S, W # {}
    PROVE  \E T \in W : \A U \in W : U \subseteq T => U = T
<1>1. PICK T \in W : \A U \in W : ~(<<U, T>> \in StrictSubsetOrdering(S))
  <2>1. W \subseteq FiniteSubsetsOf(S)
    BY FS_FiniteSubsetsOfFinite
  <2> QED BY <2>1, WFMin, FS_StrictSubsetOrderingWellFounded
<1> QED BY <1>1 DEF StrictSubsetOrdering

\* What a fold makes of each part of a set is of the type of that part, when
\* that holds of the empty part and every step keeps it.
LEMMA FoldKeeps ==
    ASSUME NEW S, IsFiniteSet(S), NEW pick, \A s \in SUBSET S : s # {} => pick[s] \in s,
           NEW T, NEW g, g[{}] \in T[{}],
           \A s \in SUBSET S : s # {} /\ g[s \ {pick[s]}] \in T[s \ {pick[s]}] => g[s] \in T[s]
    PROVE  \A s \in SUBSET S : g[s] \in T[s]
<1> DEFINE W == {s \in SUBSET S : g[s] \notin T[s]}
<1> SUFFICES ASSUME W # {} PROVE FALSE
  OBVIOUS
<1>1. PICK s \in W : \A u \in W : u \subseteq s => u = s
  <2> HIDE DEF W
  <2>1. W \in SUBSET SUBSET S
    BY DEF W
  <2> QED BY <2>1, SmallestPart
<1>2. s \in SUBSET S /\ s # {} /\ pick[s] \in s
  BY <1>1
<1>3. s \ {pick[s]} \in SUBSET S /\ s \ {pick[s]} \notin W
  BY <1>1, <1>2
<1> QED BY <1>1, <1>2, <1>3

\* A set of natural numbers that has 0 and every successor has them all.
LEMMA Induction ==
    ASSUME NEW W, 0 \in W, \A n \in Nat : n \in W => n + 1 \in W
    PROVE  Nat \subseteq W
<1> DEFINE V == Nat \ W
<1> SUFFICES ASSUME V # {} PROVE FALSE
  OBVIOUS
<1>1. PICK n \in V : \A m \in V : ~(<<m, n>> \in OpToRel(<, Nat))
  <2> HIDE DEF V
  <2>1. V \subseteq Nat
    BY DEF V
  <2> QED BY <2>1, WFMin, NatLessThanWellFounded
<1>2. n # 0 /\ n - 1 \in Nat /\ n - 1 < n
  OBVIOUS
<1>3. n - 1 \in W
  BY <1>1, <1>2 DEF OpToRel
<1> QED BY <1>2, <1>3

\* There is a fold whose steps are those of a given function.
FoldOf(g, S, base, pick, step) ==
    g = [s \in SUBSET S |-> IF s = {} THEN base ELSE step[s][g[s \ {pick[s]}]]]

\* There is a function that folds a finite set, in the order pick chooses.
LEMMA FoldExists ==
    ASSUME NEW S, IsFiniteSet(S), NEW pick, \A s \in SUBSET S : s # {} => pick[s] \in s,
           NEW base, NEW step
    PROVE  \E g : FoldOf(g, S, base, pick, step)
<1> DEFINE B(g, s) == IF s = {} THEN base ELSE step[s][g[s \ {pick[s]}]]
           Upto(g, n) == \A s \in SUBSET S : Cardinality(s) <= n => g[s] = B(g, s)
           W == {n \in Nat : \E g : Upto(g, n)}
<1>1. \A s \in SUBSET S : IsFiniteSet(s) /\ Cardinality(s) \in Nat
  BY FS_Subset, FS_CardinalityType
<1>2. \A s \in SUBSET S : s # {} => /\ s \ {pick[s]} \in SUBSET S
                                    /\ Cardinality(s \ {pick[s]}) = Cardinality(s) - 1
  BY <1>1, FS_RemoveElement
<1>3. 0 \in W
  <2>1. Upto([s \in SUBSET S |-> base], 0)
    BY <1>1, FS_EmptySet
  <2> QED BY <2>1
<1>4. ASSUME NEW n \in Nat, n \in W PROVE n + 1 \in W
  <2>1. PICK g : Upto(g, n)
    BY <1>4
  <2> DEFINE h == [s \in SUBSET S |-> IF Cardinality(s) <= n THEN g[s] ELSE B(g, s)]
  <2>2. ASSUME NEW s \in SUBSET S, Cardinality(s) <= n + 1
        PROVE  h[s] = B(h, s)
    <3>1. h[s] = B(g, s)
      BY <2>1
    <3>2. s # {} => h[s \ {pick[s]}] = g[s \ {pick[s]}]
      BY <1>1, <1>2, <2>2
    <3> QED BY <3>1, <3>2
  <2>3. Upto(h, n + 1)
    BY <2>2
  <2>4. \E x : Upto(x, n + 1)
    BY <2>3
  <2>5. n + 1 \in Nat
    OBVIOUS
  <2> HIDE DEF h, Upto
  <2> QED BY <2>4, <2>5
<1>5. Cardinality(S) \in W
  <2> HIDE DEF W
  <2> QED BY <1>1, <1>3, <1>4, Induction
<1>6. PICK g : Upto(g, Cardinality(S))
  BY <1>5
<1> DEFINE h == [s \in SUBSET S |-> g[s]]
<1>7. \A s \in SUBSET S : h[s] = B(h, s)
  <2>1. \A s \in SUBSET S : g[s] = B(g, s)
    BY <1>1, <1>6, FS_Subset
  <2> QED BY <1>2, <2>1
<1>8. h = [s \in SUBSET S |-> B(h, s)]
  BY <1>7
<1> QED BY <1>8 DEF FoldOf

\* The values of a fold are of the type of its base when each step keeps it.
LEMMA FoldTyped ==
    ASSUME NEW S, IsFiniteSet(S), NEW pick, \A s \in SUBSET S : s # {} => pick[s] \in s,
           NEW R, NEW base \in R, NEW step,
           \A s \in SUBSET S : s # {} => \A r \in R : step[s][r] \in R
    PROVE  \E g : FoldOf(g, S, base, pick, step) /\ \A s \in SUBSET S : g[s] \in R
<1>1. PICK g : FoldOf(g, S, base, pick, step)
  BY FoldExists
<1> DEFINE T == [s \in SUBSET S |-> R]
<1>2. g[{}] \in T[{}]
  BY <1>1 DEF FoldOf
<1>3. ASSUME NEW s \in SUBSET S, s # {}, g[s \ {pick[s]}] \in T[s \ {pick[s]}]
      PROVE  g[s] \in T[s]
  <2>1. g[s] = step[s][g[s \ {pick[s]}]]
    BY <1>1, <1>3 DEF FoldOf
  <2>2. s \ {pick[s]} \in SUBSET S
    OBVIOUS
  <2> QED BY <1>3, <2>1, <2>2
<1>4. \A s \in SUBSET S : g[s] \in T[s]
  <2> HIDE DEF T
  <2> QED BY <1>2, <1>3, FoldKeeps
<1> QED BY <1>1, <1>4


-----------------------------------------------------------------------------
(* The undo of an abandonment                                               *)

\* k is j with a new status of task t: at most its occurrence's last version
\* changes with it.
StatusSet(j, k, t, status, at) ==
    /\ k.tasks = [j.tasks EXCEPT ![t] = [status |-> status, at |-> at]]
    /\ DOMAIN k.nodes = DOMAIN j.nodes
    /\ \A e \in DOMAIN j.nodes : e # t => k.nodes[e] = j.nodes[e]
    /\ \/ k.nodes = j.nodes
       \/ /\ t \in DOMAIN j.nodes /\ ~IsOver(Current(j, t))
          /\ \E v : k.nodes[t] = [j.nodes[t] EXCEPT ![Len(j.nodes[t])] = v]
    /\ k.stage = j.stage /\ k.part = j.part /\ k.owner = j.owner /\ k.proofs = j.proofs
    /\ k.process = j.process /\ k.events = j.events
    /\ k.receipts = j.receipts /\ k.requests = j.requests /\ k.answers = j.answers

LEMMA AfterStatusIs ==
    ASSUME NEW S, NEW n, NEW j \in Records(S, n), NEW t \in DOMAIN j.tasks, NEW status, NEW at
    PROVE  StatusSet(j, AfterStatus(j, t, status, at), t, status, at)
<1> DEFINE k == AfterStatus(j, t, status, at)
<1> DEFINE l == [j EXCEPT !.tasks[t] = [status |-> status, at |-> at]]
<1>1. /\ l.tasks = [j.tasks EXCEPT ![t] = [status |-> status, at |-> at]]
      /\ l.nodes = j.nodes /\ l.stage = j.stage /\ l.part = j.part /\ l.owner = j.owner
      /\ l.proofs = j.proofs /\ l.process = j.process /\ l.events = j.events
      /\ l.receipts = j.receipts /\ l.requests = j.requests /\ l.answers = j.answers
      /\ DOMAIN l = DOMAIN j
  BY DEF Records
<1>2. DOMAIN j = {"stage", "part", "owner", "proofs", "process", "tasks", "events", "nodes",
                  "receipts", "requests", "answers"}
  BY DEF Records
<1>3. k = Synced(l, t, status, at) /\ k = AfterStatus(j, t, status, at)
  BY DEF AfterStatus
<1> HIDE DEF k, l
<1>4. \/ k = l
      \/ /\ t \in DOMAIN l.nodes /\ ~IsOver(Current(l, t))
         /\ \E v : k = [l EXCEPT !.nodes[t][Len(l.nodes[t])] = v]
  BY <1>3 DEF Synced
<1>5. CASE k = l
  BY <1>1, <1>3, <1>5 DEF StatusSet
<1>6. CASE /\ t \in DOMAIN l.nodes /\ ~IsOver(Current(l, t))
           /\ \E v : k = [l EXCEPT !.nodes[t][Len(l.nodes[t])] = v]
  <2>1. PICK v : k = [l EXCEPT !.nodes[t][Len(l.nodes[t])] = v]
    BY <1>6
  <2> DEFINE w == [l.nodes EXCEPT ![t][Len(l.nodes[t])] = v]
  <2>2. DOMAIN w = DOMAIN l.nodes /\ (\A e \in DOMAIN l.nodes : e # t => w[e] = l.nodes[e])
        /\ w[t] = [l.nodes[t] EXCEPT ![Len(l.nodes[t])] = v]
    BY <1>6
  <2>4. t \in DOMAIN j.nodes /\ ~IsOver(Current(j, t))
    BY <1>1, <1>6 DEF Current
  <2>3. k = [l EXCEPT !.nodes = w]
    BY <1>1, <1>2, <2>1
  <2> HIDE DEF w
  <2>5. k.nodes = w /\ k.stage = l.stage /\ k.part = l.part /\ k.owner = l.owner
        /\ k.proofs = l.proofs /\ k.process = l.process /\ k.events = l.events
        /\ k.receipts = l.receipts /\ k.requests = l.requests /\ k.answers = l.answers
        /\ k.tasks = l.tasks
    BY <1>1, <1>2, <2>3
  <2>6. DOMAIN k.nodes = DOMAIN j.nodes /\ (\A e \in DOMAIN j.nodes : e # t => k.nodes[e] = j.nodes[e])
        /\ k.nodes[t] = [j.nodes[t] EXCEPT ![Len(j.nodes[t])] = v]
    BY <1>1, <2>2, <2>5
  <2>7. \E x : k.nodes[t] = [j.nodes[t] EXCEPT ![Len(j.nodes[t])] = x]
    BY <2>6
  <2>8. /\ k.tasks = [j.tasks EXCEPT ![t] = [status |-> status, at |-> at]]
        /\ k.stage = j.stage /\ k.part = j.part /\ k.owner = j.owner /\ k.proofs = j.proofs
        /\ k.process = j.process /\ k.events = j.events
        /\ k.receipts = j.receipts /\ k.requests = j.requests /\ k.answers = j.answers
    BY <1>1, <2>5
  <2>9. StatusSet(j, k, t, status, at)
    BY <2>4, <2>6, <2>7, <2>8 DEF StatusSet
  <2> QED BY <1>3, <2>9
<1> QED BY <1>4, <1>5, <1>6

\* The record in which the tasks in s have the statuses of tasks again.
Reopened(j, tasks, s, at, S, n) ==
    {k \in Records(S, n) :
        /\ Complete(k) /\ k.part = "active" /\ DOMAIN k.nodes = DOMAIN j.nodes
        /\ DOMAIN k.tasks = DOMAIN j.tasks
        /\ \A t \in DOMAIN j.tasks :
              k.tasks[t] = IF t \in s THEN [status |-> tasks[t], at |-> at] ELSE j.tasks[t]
        /\ \A e \in DOMAIN j.nodes : e \notin s => k.nodes[e] = j.nodes[e]
        /\ k.stage = j.stage /\ k.owner = j.owner /\ k.proofs = j.proofs /\ k.process = j.process
        /\ k.events = j.events /\ k.receipts = j.receipts /\ k.requests = j.requests
        /\ k.answers = j.answers}

LEMMA ReopenedOne ==
    ASSUME NEW S, NEW n \in Nat, NEW at \in 0 .. n, NEW j, RecordOk(j, S, n),
           NEW tasks \in Partial(S \cup {Apply}, Statuses), NEW s, NEW t \in DOMAIN tasks,
           NEW k \in Reopened(j, tasks, s \ {t}, at, S, n), t \in s, NEW l,
           l = IF t \in DOMAIN k.tasks THEN AfterStatus(k, t, tasks[t], at) ELSE k
    PROVE  l \in Reopened(j, tasks, s, at, S, n)
<1>1. tasks[t] \in Statuses
  BY PartialIs
<1>2. RecordOk(k, S, n) /\ k \in Records(S, n)
  BY DEF Reopened, RecordOk
<1>3. CASE t \notin DOMAIN k.tasks
  <2>1. l = k
    BY <1>3
  <2> QED BY <1>3, <2>1 DEF Reopened
<1>4. CASE t \in DOMAIN k.tasks
  <2>1. l = AfterStatus(k, t, tasks[t], at)
    BY <1>4
  <2>2. RecordOk(l, S, n)
    BY <1>1, <1>2, <2>1, AfterStatusOk
  <2>3. /\ l.tasks = [k.tasks EXCEPT ![t] = [status |-> tasks[t], at |-> at]]
        /\ DOMAIN l.nodes = DOMAIN k.nodes
        /\ \A e \in DOMAIN k.nodes : e # t => l.nodes[e] = k.nodes[e]
        /\ l.stage = k.stage /\ l.part = k.part /\ l.owner = k.owner /\ l.proofs = k.proofs
        /\ l.process = k.process /\ l.events = k.events
        /\ l.receipts = k.receipts /\ l.requests = k.requests /\ l.answers = k.answers
    BY <1>2, <1>4, <2>1, AfterStatusIs DEF StatusSet
  <2>4. \A x \in DOMAIN j.tasks :
           l.tasks[x] = IF x \in s THEN [status |-> tasks[x], at |-> at] ELSE j.tasks[x]
    BY <1>4, <2>3 DEF Reopened
  <2>5. \A e \in DOMAIN j.nodes : e \notin s => l.nodes[e] = j.nodes[e]
    BY <2>3 DEF Reopened
  <2> QED BY <1>4, <2>2, <2>3, <2>4, <2>5 DEF Reopened, RecordOk
<1> QED BY <1>3, <1>4

LEMMA UndoneParticipationIs ==
    ASSUME NEW S, IsFiniteSet(S), NEW n \in Nat, NEW at \in 0 .. n, NEW j, RecordOk(j, S, n),
           NEW c, ParticipationUndoT(c, S, n)
    PROVE  /\ UndoneParticipation(j, c, at).job \in Reopened(j, c.tasks, DOMAIN c.tasks, at, S, n)
           /\ UndoneParticipation(j, c, at).ok
<1> DEFINE D == DOMAIN c.tasks
           base == [j EXCEPT !.part = "active"]
           op(t, k) == IF t \in DOMAIN k.tasks THEN AfterStatus(k, t, c.tasks[t], at) ELSE k
           any(s) == CHOOSE x \in s : TRUE
           R == {k \in Records(S, n) : Complete(k)}
           pick == [s \in SUBSET D |-> any(s)]
           step == [s \in SUBSET D |-> [k \in R |-> op(any(s), k)]]
           IsIt(g) == g = [s \in SUBSET D |-> IF s = {} THEN base ELSE op(any(s), g[s \ {any(s)}])]
<1>1. c.tasks \in Partial(S \cup {Apply}, Statuses) /\ D \subseteq S \cup {Apply} /\ IsFiniteSet(D)
  <2>1. c.tasks \in Partial(S \cup {Apply}, Statuses) /\ D \subseteq S \cup {Apply}
    BY PartialIs DEF ParticipationUndoT
  <2>2. IsFiniteSet(S \cup {Apply})
    BY FS_AddElement
  <2> QED BY <2>1, <2>2, FS_Subset
<1>2. /\ base \in Records(S, n) /\ base.part = "active" /\ base.nodes = j.nodes /\ base.tasks = j.tasks
      /\ base.stage = j.stage /\ base.owner = j.owner /\ base.proofs = j.proofs
      /\ base.process = j.process /\ base.events = j.events /\ base.receipts = j.receipts
      /\ base.requests = j.requests /\ base.answers = j.answers
  BY DEF RecordOk, Records
<1> HIDE DEF base
<1>3. base \in R
  BY <1>2, CompleteAs DEF RecordOk
<1>4. \A s \in SUBSET D : s # {} => any(s) \in s /\ any(s) \in D
  OBVIOUS
<1>5. \A s \in SUBSET D : s # {} => \A k \in R : step[s][k] \in R
  <2> TAKE s \in SUBSET D
  <2> HAVE s # {}
  <2> TAKE k \in R
  <2>1. any(s) \in D
    BY <1>4
  <2>2. c.tasks[any(s)] \in Statuses
    BY <1>1, <2>1, PartialIs
  <2> HIDE DEF any
  <2>3. op(any(s), k) \in R
    BY <2>2, AfterStatusOk DEF RecordOk
  <2> QED BY <2>3
<1>6. PICK g : FoldOf(g, D, base, pick, step) /\ \A s \in SUBSET D : g[s] \in R
  <2>1. \A s \in SUBSET D : s # {} => pick[s] \in s
    BY <1>4
  <2> HIDE DEF pick, step, R, D
  <2> QED BY <1>1, <1>3, <1>5, <2>1, FoldTyped
<1>7. IsIt(g)
  <2>1. \A s \in SUBSET D : s # {} =>
            step[s][g[s \ {pick[s]}]] = op(any(s), g[s \ {any(s)}])
    <3> HIDE DEF op, any
    <3> QED BY <1>6
  <2>2. g = [s \in SUBSET D |-> IF s = {} THEN base ELSE step[s][g[s \ {pick[s]}]]]
    BY <1>6 DEF FoldOf
  <2> HIDE DEF pick, step, op, any
  <2> QED BY <2>1, <2>2
<1>8. UndoneParticipation(j, c, at).job = (CHOOSE h : IsIt(h))[D]
  BY DEF UndoneParticipation, Restored, FoldSet, MapThenFoldSet, base
<1>9. PICK h : IsIt(h) /\ UndoneParticipation(j, c, at).job = h[D]
  <2> HIDE DEF IsIt
  <2> QED BY <1>7, <1>8
<1> DEFINE T == [s \in SUBSET D |-> Reopened(j, c.tasks, s, at, S, n)]
<1>10. h[{}] \in T[{}]
  <2>1. h[{}] = base
    BY <1>9
  <2>2. base \in Reopened(j, c.tasks, {}, at, S, n)
    BY <1>2, <1>3 DEF Reopened
  <2> QED BY <2>1, <2>2
<1>11. ASSUME NEW s \in SUBSET D, s # {}, h[s \ {pick[s]}] \in T[s \ {pick[s]}]
      PROVE  h[s] \in T[s]
  <2> DEFINE x == any(s)
  <2>1. h[s] = op(x, h[s \ {x}]) /\ x \in s /\ x \in D
    <3> HIDE DEF op
    <3> QED BY <1>4, <1>9, <1>11
  <2>2. h[s \ {x}] \in Reopened(j, c.tasks, s \ {x}, at, S, n)
    BY <1>11
  <2> HIDE DEF x
  <2>3. h[s] \in Reopened(j, c.tasks, s, at, S, n)
    BY <1>1, <2>1, <2>2, ReopenedOne
  <2> QED BY <2>3
<1>12. \A s \in SUBSET D : h[s] \in T[s]
  <2>1. \A s \in SUBSET D : s # {} => pick[s] \in s
    BY <1>4
  <2> HIDE DEF T, pick, IsIt, D
  <2> QED BY <1>1, <1>10, <1>11, <2>1, FoldKeeps
<1>13. UndoneParticipation(j, c, at).ok
  BY DEF UndoneParticipation, Restored
<1> QED BY <1>9, <1>12, <1>13

LEMMA UndoneParticipationOk ==
    ASSUME NEW S, IsFiniteSet(S), NEW n \in Nat, NEW at \in 0 .. n, NEW j, RecordOk(j, S, n),
           NEW c, ParticipationUndoT(c, S, n)
    PROVE  /\ RecordOk(UndoneParticipation(j, c, at).job, S, n)
           /\ SameBooks(j, UndoneParticipation(j, c, at).job)
  BY UndoneParticipationIs DEF Reopened, RecordOk, SameBooks

\* Whatever is compensated.
LEMMA CompensatedOk ==
    ASSUME NEW S, IsFiniteSet(S), Apply \notin S, NEW n \in Nat, NEW at \in 0 .. n, Id(at, 1) \notin S,
           NEW j, RecordOk(j, S, n), NEW c, CompT(c, S, n), CompFits(c, DOMAIN j.nodes),
           Compensated(j, c, at).ok
    PROVE  /\ RecordOk(Compensated(j, c, at).job, S \cup {Id(at, 1)}, n)
           /\ SameBooks(j, Compensated(j, c, at).job)
           /\ c.op # "restore_deleted_process_event" => RecordOk(Compensated(j, c, at).job, S, n)
<1>1. CASE EventUndoT(c, S, n)
  <2>1. Compensated(j, c, at) = UndoneEvent(j, c, at)
    BY <1>1 DEF Compensated, EventUndoT
  <2> QED BY <1>1, <2>1, UndoneEventOk, RecordGrows
<1>2. CASE SubmissionUndoT(c, S, n)
  <2>1. Compensated(j, c, at) = UndoneSubmission(j, c)
    BY <1>2 DEF Compensated, SubmissionUndoT
  <2> QED BY <1>2, <2>1, UndoneSubmissionOk, RecordGrows
<1>3. CASE DeletionUndoT(c, S, n)
  <2>1. Compensated(j, c, at) = UndoneDeletion(j, c, at)
    BY <1>3 DEF Compensated, DeletionUndoT
  <2> QED BY <1>3, <2>1, UndoneDeletionOk DEF DeletionUndoT
<1>4. CASE ParticipationUndoT(c, S, n)
  <2>1. Compensated(j, c, at) = UndoneParticipation(j, c, at)
    BY <1>4 DEF Compensated, ParticipationUndoT
  <2> QED BY <1>4, <2>1, UndoneParticipationOk, RecordGrows
<1>5. CASE StatusUndoT(c, S, n)
  <2>1. Compensated(j, c, at) = UndoneStatus(j, c)
    BY <1>5 DEF Compensated, StatusUndoT
  <2> QED BY <1>5, <2>1, UndoneStatusOk, RecordGrows
<1>6. CASE SettlingUndoT(c, S, n)
  <2>1. Compensated(j, c, at) = UndoneSettling(j, c)
    BY <1>6 DEF Compensated, SettlingUndoT
  <2> QED BY <1>6, <2>1, UndoneSettlingOk, RecordGrows
<1>7. CASE VersionUndoT(c, S, n)
  <2>1. Compensated(j, c, at) = UndoneVersion(j, c)
    BY <1>7 DEF Compensated, VersionUndoT
  <2> QED BY <1>7, <2>1, UndoneVersionOk, RecordGrows
<1> QED BY <1>1, <1>2, <1>3, <1>4, <1>5, <1>6, <1>7 DEF CompT

-----------------------------------------------------------------------------
(* Folds over at most two elements *)

LEMMA MaxOfTwo ==
    /\ Max({1}) = 1 /\ Max({2}) = 2 /\ Max({1, 2}) = 2
<1>1. \A S \in SUBSET {1, 2} : \A x \in S : (\A y \in S : x >= y) => Max(S) >= x /\ Max(S) \in S
  BY DEF Max
<1> QED BY <1>1

LEMMA PartsOfTwo ==
    ASSUME NEW k \in 0 .. 2, NEW s \in SUBSET (1 .. k)
    PROVE  \/ s = {}
           \/ s = {1} /\ k # 0
           \/ s = {2} /\ k = 2
           \/ s = {1, 2} /\ k = 2
<1>1. CASE k = 0
  <2>1. 1 .. k = {}
    BY <1>1
  <2> QED BY <2>1
<1>2. CASE k = 1
  <2>1. 1 .. k = {1}
    BY <1>2
  <2> QED BY <1>2, <2>1
<1>3. CASE k = 2
  <2>1. 1 .. k = {1, 2}
    BY <1>3
  <2>2. \A x \in s : x = 1 \/ x = 2
    BY <2>1
  <2>3. CASE 1 \in s /\ 2 \in s
    <3>1. s = {1, 2}
      BY <2>2, <2>3
    <3> QED BY <1>3, <3>1
  <2>4. CASE 1 \in s /\ 2 \notin s
    <3>1. s = {1}
      BY <2>2, <2>4
    <3> QED BY <1>3, <3>1
  <2>5. CASE 1 \notin s /\ 2 \in s
    <3>1. s = {2}
      BY <2>2, <2>5
    <3> QED BY <1>3, <3>1
  <2>6. CASE 1 \notin s /\ 2 \notin s
    <3>1. s = {}
      BY <2>2, <2>6
    <3> QED BY <3>1
  <2> QED BY <2>3, <2>4, <2>5, <2>6
<1>4. k = 0 \/ k = 1 \/ k = 2
  OBVIOUS
<1> QED BY <1>1, <1>2, <1>3, <1>4

LEMMA TakenIs ==
    ASSUME NEW j, NEW m \in Messages, NEW at
    PROVE  LET pending == Pending(j, m)
               b0 == Batch(j)
               b1 == WithCandidate(b0, m, 1, pending, at)
               b2 == WithCandidate(b1, m, 2, pending, at)
           IN  \/ Len(FactsOf[m]) = 0 /\ Taken(j, m, at) = b0
               \/ Len(FactsOf[m]) = 1 /\ Taken(j, m, at) = b1
               \/ Len(FactsOf[m]) = 2 /\ Taken(j, m, at) = b2
<1> DEFINE D == DOMAIN FactsOf[m]
           seq == [i \in D |-> i]
           op(b, i) == WithCandidate(b, m, i, Pending(j, m), at)
           base == Batch(j)
           IsIt(g) == g = [s \in SUBSET D |-> IF s = {} THEN base
                                              ELSE op(g[s \ {Max(s)}], seq[Max(s)])]
           G == [s \in SUBSET D |-> IF s = {} THEN base
                                    ELSE IF s = {1} THEN op(base, 1)
                                    ELSE IF s = {2} THEN op(base, 2)
                                    ELSE op(op(base, 1), 2)]
<1>1. PICK k \in 0 .. 2 : k = Len(FactsOf[m]) /\ D = 1 .. k
  <2>1. FactsOf[m] \in Seq(EventFacts \cup {Submitted}) /\ Len(FactsOf[m]) <= 2
    BY IntakeAssumption
  <2>2. Len(FactsOf[m]) \in Nat /\ DOMAIN FactsOf[m] = 1 .. Len(FactsOf[m])
    BY <2>1
  <2> DEFINE len == Len(FactsOf[m])
  <2> HIDE DEF len
  <2>3. len \in Nat /\ len <= 2 => len \in 0 .. 2
    OBVIOUS
  <2> QED BY <2>1, <2>2, <2>3 DEF len
<1>2. Taken(j, m, at) = (CHOOSE g : IsIt(g))[DOMAIN seq]
  BY DEF Taken, FoldLeft, MapThenFoldSet
<1>3. DOMAIN seq = D
  OBVIOUS
<1> HIDE DEF op, base
<1>4. IsIt(G)
  <2>1. ASSUME NEW s \in SUBSET D, s # {}
        PROVE  G[s] = op(G[s \ {Max(s)}], seq[Max(s)])
    <3>1. CASE s = {1}
      BY <1>1, <3>1, MaxOfTwo
    <3>2. CASE s = {2}
      BY <1>1, <3>2, MaxOfTwo
    <3>3. CASE s = {1, 2}
      <4>1. s \ {Max(s)} = {1} /\ {1} \in SUBSET D /\ s # {1} /\ s # {2}
        BY <3>3, MaxOfTwo
      <4>2. Max(s) = 2 /\ seq[2] = 2
        BY <3>3, MaxOfTwo
      <4> QED BY <4>1, <4>2
    <3> QED BY <1>1, <2>1, <3>1, <3>2, <3>3, PartsOfTwo
  <2>2. \A s \in SUBSET D : G[s] = IF s = {} THEN base ELSE op(G[s \ {Max(s)}], seq[Max(s)])
    BY <2>1
  <2>3. G = [s \in SUBSET D |-> G[s]]
    OBVIOUS
  <2> HIDE DEF G, seq
  <2> QED BY <2>2, <2>3
<1>5. PICK h : IsIt(h) /\ Taken(j, m, at) = h[D]
  <2> HIDE DEF IsIt
  <2> QED BY <1>2, <1>3, <1>4
<1>6. h[{}] = base
  BY <1>5
<1>7. ASSUME 1 \in D PROVE h[{1}] = op(base, 1)
  <2>1. h[{1}] = op(h[{1} \ {Max({1})}], seq[Max({1})])
    BY <1>5, <1>7
  <2> QED BY <1>6, <1>7, <2>1, MaxOfTwo
<1>8. ASSUME D = {1, 2} PROVE h[{1, 2}] = op(op(base, 1), 2)
  <2>1. h[{1, 2}] = op(h[{1, 2} \ {Max({1, 2})}], seq[Max({1, 2})])
    BY <1>5, <1>8
  <2>2. {1, 2} \ {Max({1, 2})} = {1} /\ Max({1, 2}) = 2 /\ seq[2] = 2
    BY <1>8, MaxOfTwo
  <2> QED BY <1>7, <1>8, <2>1, <2>2
<1>9. \/ Len(FactsOf[m]) = 0 /\ Taken(j, m, at) = base
      \/ Len(FactsOf[m]) = 1 /\ Taken(j, m, at) = op(base, 1)
      \/ Len(FactsOf[m]) = 2 /\ Taken(j, m, at) = op(op(base, 1), 2)
  <2>1. CASE k = 0
    <3>1. D = {}
      BY <1>1, <2>1
    <3> QED BY <1>1, <1>5, <1>6, <2>1, <3>1
  <2>2. CASE k = 1
    <3>1. D = {1}
      BY <1>1, <2>2
    <3> QED BY <1>1, <1>5, <1>7, <2>2, <3>1
  <2>3. CASE k = 2
    <3>1. D = {1, 2}
      BY <1>1, <2>3
    <3> QED BY <1>1, <1>5, <1>8, <2>3, <3>1
  <2> QED BY <1>1, <2>1, <2>2, <2>3
<1> QED BY <1>9 DEF op, base

\* The compensations a row keeps are none, one, or two (of a message's facts).
LEMMA CompensateNone ==
    ASSUME NEW j, NEW at
    PROVE  Compensate(j, <<>>, at) = Restored(TRUE, j)
<1> DEFINE op(r, c) == IF r.ok THEN Compensated(r.job, c, at) ELSE r
           base == Restored(TRUE, j)
           seq == Reverse(<<>>)
           IsIt(g) == g = [s \in SUBSET DOMAIN seq |-> IF s = {} THEN base
                                                       ELSE op(g[s \ {Max(s)}], seq[Max(s)])]
           G == [s \in SUBSET DOMAIN seq |-> base]
<1>1. Compensate(j, <<>>, at) = (CHOOSE g : IsIt(g))[DOMAIN seq]
  BY DEF Compensate, FoldLeft, MapThenFoldSet
<1>2. DOMAIN seq = {}
  BY DEF Reverse
<1> HIDE DEF op, base, seq
<1>3. IsIt(G)
  BY <1>2
<1>4. PICK h : IsIt(h) /\ Compensate(j, <<>>, at) = h[DOMAIN seq]
  <2> HIDE DEF IsIt
  <2> QED BY <1>1, <1>3
<1> QED BY <1>2, <1>4 DEF base

LEMMA CompensateOne ==
    ASSUME NEW j, NEW at, NEW c
    PROVE  Compensate(j, << c >>, at) = Compensated(j, c, at)
<1> DEFINE op(r, x) == IF r.ok THEN Compensated(r.job, x, at) ELSE r
           base == Restored(TRUE, j)
           seq == Reverse(<< c >>)
           IsIt(g) == g = [s \in SUBSET DOMAIN seq |-> IF s = {} THEN base
                                                       ELSE op(g[s \ {Max(s)}], seq[Max(s)])]
           G == [s \in SUBSET DOMAIN seq |-> IF s = {} THEN base ELSE op(base, c)]
<1>1. Compensate(j, << c >>, at) = (CHOOSE g : IsIt(g))[DOMAIN seq]
  BY DEF Compensate, FoldLeft, MapThenFoldSet
<1>2. DOMAIN seq = {1} /\ seq[1] = c
  BY DEF Reverse
<1>3. op(base, c) = Compensated(j, c, at)
  BY DEF Restored
<1> HIDE DEF op, base, seq
<1>4. \A s \in SUBSET DOMAIN seq : s # {} => s = {1}
  BY <1>2
<1>5. IsIt(G)
  <2>1. \A s \in SUBSET DOMAIN seq : G[s] = IF s = {} THEN base ELSE op(G[s \ {Max(s)}], seq[Max(s)])
    <3>1. G[{}] = base /\ {1} \in SUBSET DOMAIN seq /\ G[{1}] = op(base, c)
      BY <1>2
    <3>2. {1} \ {Max({1})} = {} /\ seq[Max({1})] = c
      BY <1>2, MaxOfTwo
    <3> HIDE DEF G
    <3> QED BY <1>4, <3>1, <3>2
  <2>2. G = [s \in SUBSET DOMAIN seq |-> G[s]]
    OBVIOUS
  <2> HIDE DEF G
  <2> QED BY <2>1, <2>2
<1>6. PICK h : IsIt(h) /\ Compensate(j, << c >>, at) = h[DOMAIN seq]
  <2> HIDE DEF IsIt
  <2> QED BY <1>1, <1>5
<1>7. h[{}] = base
  BY <1>6
<1>8. h[{1}] = op(h[{1} \ {Max({1})}], seq[Max({1})])
  BY <1>2, <1>6
<1> QED BY <1>2, <1>3, <1>6, <1>7, <1>8, MaxOfTwo

LEMMA CompensateTwo ==
    ASSUME NEW j, NEW at, NEW c, NEW d
    PROVE  Compensate(j, << c, d >>, at) =
             IF Compensated(j, d, at).ok THEN Compensated(Compensated(j, d, at).job, c, at)
             ELSE Compensated(j, d, at)
<1> DEFINE op(r, x) == IF r.ok THEN Compensated(r.job, x, at) ELSE r
           base == Restored(TRUE, j)
           seq == Reverse(<< c, d >>)
           IsIt(g) == g = [s \in SUBSET DOMAIN seq |-> IF s = {} THEN base
                                                       ELSE op(g[s \ {Max(s)}], seq[Max(s)])]
           G == [s \in SUBSET DOMAIN seq |->
                    IF s = {} THEN base ELSE IF s = {1} THEN op(base, d)
                    ELSE IF s = {2} THEN op(base, c) ELSE op(op(base, d), c)]
<1>1. Compensate(j, << c, d >>, at) = (CHOOSE g : IsIt(g))[DOMAIN seq]
  BY DEF Compensate, FoldLeft, MapThenFoldSet
<1>2. DOMAIN seq = {1, 2} /\ seq[1] = d /\ seq[2] = c
  BY DEF Reverse
<1>3. op(base, d) = Compensated(j, d, at)
  BY DEF Restored
<1>4. op(op(base, d), c) = IF Compensated(j, d, at).ok THEN Compensated(Compensated(j, d, at).job, c, at)
                           ELSE Compensated(j, d, at)
  BY <1>3
<1> HIDE DEF op, base, seq
<1>5. \A s \in SUBSET DOMAIN seq : s # {} => s = {1} \/ s = {2} \/ s = {1, 2}
  BY <1>2
<1>6. IsIt(G)
  <2>1. ASSUME NEW s \in SUBSET DOMAIN seq, s # {}
        PROVE  G[s] = op(G[s \ {Max(s)}], seq[Max(s)])
    <3>1. CASE s = {1}
      BY <1>2, <3>1, MaxOfTwo
    <3>2. CASE s = {2}
      BY <1>2, <3>2, MaxOfTwo
    <3>3. CASE s = {1, 2}
      <4>1. s \ {Max(s)} = {1} /\ {1} \in SUBSET DOMAIN seq /\ s # {1} /\ s # {2} /\ Max(s) = 2
        BY <1>2, <3>3, MaxOfTwo
      <4> QED BY <1>2, <4>1
    <3> QED BY <1>5, <2>1, <3>1, <3>2, <3>3
  <2>2. \A s \in SUBSET DOMAIN seq : G[s] = IF s = {} THEN base ELSE op(G[s \ {Max(s)}], seq[Max(s)])
    BY <2>1
  <2>3. G = [s \in SUBSET DOMAIN seq |-> G[s]]
    OBVIOUS
  <2> HIDE DEF G
  <2> QED BY <2>2, <2>3
<1>7. PICK h : IsIt(h) /\ Compensate(j, << c, d >>, at) = h[DOMAIN seq]
  <2> HIDE DEF IsIt
  <2> QED BY <1>1, <1>6
<1>8. h[{}] = base
  BY <1>7
<1>9. h[{1}] = op(h[{1} \ {Max({1})}], seq[Max({1})])
  BY <1>2, <1>7
<1>10. h[{1}] = op(base, d)
  BY <1>2, <1>8, <1>9, MaxOfTwo
<1>11. h[{1, 2}] = op(h[{1, 2} \ {Max({1, 2})}], seq[Max({1, 2})])
  BY <1>2, <1>7
<1>12. {1, 2} \ {Max({1, 2})} = {1}
  BY MaxOfTwo
<1> QED BY <1>2, <1>4, <1>7, <1>10, <1>11, <1>12, MaxOfTwo

-----------------------------------------------------------------------------
(* A message's facts *)

LEMMA FactIs ==
    ASSUME NEW fact \in Facts
    PROVE  \/ fact = Submitted
           \/ fact # Submitted /\ fact.kind \in {"interview", "offer"} /\ fact.slot \in Nat
<1>1. PICK m \in Messages : \E i \in DOMAIN FactsOf[m] : fact = FactsOf[m][i]
  BY DEF Facts, FactsIn
<1>2. FactsOf[m] \in Seq(EventFacts \cup {Submitted})
  BY IntakeAssumption
<1>3. \A i \in DOMAIN FactsOf[m] : FactsOf[m][i] \in EventFacts \cup {Submitted}
  BY <1>2
<1>4. fact \in EventFacts \cup {Submitted}
  BY <1>1, <1>3
<1> QED BY <1>4 DEF EventFacts, Submitted, NoSlot

LEMMA FactIn ==
    ASSUME NEW m \in Messages, NEW i \in DOMAIN FactsOf[m]
    PROVE  FactsOf[m][i] \in Facts
  BY DEF Facts, FactsIn

FactUndoT(c, S, n) == EventUndoT(c, S, n) \/ SubmissionUndoT(c, S, n)

LEMMA EventUndoOk ==
    ASSUME NEW S, NEW n, NEW j \in Records(S, n), NEW k, NEW id \in S
    PROVE  EventUndoT(EventUndo(j, k, id), S, n)
  BY RecordIs DEF EventUndo, EventUndoT, Projection

LEMMA SubmissionUndoOk ==
    ASSUME NEW S, NEW n, NEW j, RecordOk(j, S, n), NEW k, NEW id \in S
    PROVE  SubmissionUndoT(SubmissionUndo(j, k, id), S, n)
<1>1. j.tasks[Apply] \in TaskT(n)
  BY TaskIs DEF RecordOk, Complete
<1> QED BY <1>1, RecordIs DEF SubmissionUndo, SubmissionUndoT, RecordOk

\* No occurrence of an identity in S comes, goes or changes.
NodesStay(j, k, S) ==
    \A e \in S : /\ e \in DOMAIN k.nodes <=> e \in DOMAIN j.nodes
                 /\ e \in DOMAIN j.nodes => k.nodes[e] = j.nodes[e]

LEMMA AfterSubmissionIs ==
    ASSUME NEW S, NEW n, NEW j \in Records(S, n), NEW id, NEW at
    PROVE  /\ AfterSubmission(j, id, at).nodes = j.nodes
           /\ AfterSubmission(j, id, at).events = j.events
           /\ AfterSubmission(j, id, at).receipts = j.receipts
           /\ AfterSubmission(j, id, at).requests = j.requests
           /\ AfterSubmission(j, id, at).answers = j.answers
  BY DEF AfterSubmission, SetStage, Records

EventAdded(j, k, id) ==
    /\ DOMAIN k.events = DOMAIN j.events \cup {id}
    /\ DOMAIN k.nodes \in {DOMAIN j.nodes, DOMAIN j.nodes \cup {id}}
    /\ \A e \in DOMAIN j.nodes : e # id => k.nodes[e] = j.nodes[e]
    /\ k.receipts = j.receipts /\ k.requests = j.requests /\ k.answers = j.answers

LEMMA AfterEventIs ==
    ASSUME NEW S, NEW n, NEW j \in Records(S, n), NEW id, NEW type, NEW slot, NEW at, NEW t
    PROVE  EventAdded(j, AfterEvent(j, id, type, slot, at, t), id)
<1> DEFINE event == [type |-> type, slot |-> slot, due |-> slot, at |-> at, made |-> t,
                     pos |-> id, dead |-> FALSE]
           l == SetStage(j, type, [id |-> id, at |-> at], at)
           a == Put(j.events, id, event)
           b == Put(j.tasks, id, [status |-> "todo", at |-> t])
           c == Put(j.nodes, id, << [state |-> "scheduled", slot |-> slot, by |-> "none", at |-> t] >>)
<1>1. /\ l.events = j.events /\ l.tasks = j.tasks /\ l.nodes = j.nodes
      /\ l.receipts = j.receipts /\ l.requests = j.requests /\ l.answers = j.answers
      /\ DOMAIN l = {"stage", "part", "owner", "proofs", "process", "tasks", "events", "nodes",
                     "receipts", "requests", "answers"}
  BY DEF SetStage, Records
<1>2. /\ DOMAIN a = DOMAIN j.events \cup {id} /\ DOMAIN c = DOMAIN j.nodes \cup {id}
      /\ \A e \in DOMAIN j.nodes : e # id => c[e] = j.nodes[e]
  <2> HIDE DEF l, b
  <2> QED BY DEF Put
<1>3. AfterEvent(j, id, type, slot, at, t) =
        IF type = "offer" THEN [l EXCEPT !.events = a]
        ELSE [l EXCEPT !.events = a, !.tasks = b, !.nodes = c]
  <2>1. AfterEvent(j, id, type, slot, at, t) =
          IF type = "offer" THEN [l EXCEPT !.events = Put(l.events, id, event)]
          ELSE [[l EXCEPT !.events = Put(l.events, id, event)] EXCEPT
                  !.tasks = Put([l EXCEPT !.events = Put(l.events, id, event)].tasks, id, [status |-> "todo", at |-> t]),
                  !.nodes = Put([l EXCEPT !.events = Put(l.events, id, event)].nodes, id, << [state |-> "scheduled", slot |-> slot, by |-> "none", at |-> t] >>)]
    BY DEF AfterEvent, l
  <2> QED BY <1>1, <2>1
<1> HIDE DEF l, a, b, c
<1> QED BY <1>1, <1>2, <1>3 DEF EventAdded

\* What applying a fact, which creates an object called id, does to the record.
FactAdded(j, k, id, fact, S, n) ==
    /\ RecordOk(k, S \cup {id}, n) /\ NodesStay(j, k, S)
    /\ DOMAIN k.events \ DOMAIN j.events \in SUBSET {id}
    /\ k.receipts = j.receipts /\ k.requests = j.requests /\ k.answers = j.answers
    /\ FactUndoT(FactUndo(j, k, fact, id), S \cup {id}, n)

LEMMA AfterFactOk ==
    ASSUME NEW S, NEW n \in Nat, NEW j, RecordOk(j, S, n), NEW id, id \notin S, NEW fact \in Facts,
           NEW at \in 0 .. n, NEW t \in 0 .. n
    PROVE  FactAdded(j, AfterFact(j, fact, id, at, t), id, fact, S, n)
<1> DEFINE k == AfterFact(j, fact, id, at, t)
<1>1. RecordOk(j, S \cup {id}, n) /\ j \in Records(S \cup {id}, n) /\ j \in Records(S, n)
  BY RecordGrows DEF RecordOk
<1> SUFFICES FactAdded(j, k, id, fact, S, n)
  OBVIOUS
<1>2. CASE fact = Submitted
  <2>1. k = AfterSubmission(j, id, at)
    BY <1>2 DEF AfterFact
  <2>2. RecordOk(k, S \cup {id}, n)
    BY <1>1, <2>1, AfterSubmissionOk
  <2>3. FactUndoT(FactUndo(j, k, fact, id), S \cup {id}, n)
    BY <1>1, <1>2, SubmissionUndoOk DEF FactUndo, FactUndoT
  <2> HIDE DEF k
  <2> QED BY <1>1, <2>1, <2>2, <2>3, AfterSubmissionIs DEF NodesStay, FactAdded
<1>3. CASE fact # Submitted
  <2> DEFINE kind == fact.kind  slot == fact.slot
  <2>1. k = AfterEvent(j, id, kind, slot, at, t)
    BY <1>3 DEF AfterFact
  <2>2. kind \in {"interview", "offer"} /\ slot \in Nat
    BY <1>3, FactIs
  <2> HIDE DEF kind, slot, k
  <2>3. RecordOk(k, S \cup {id}, n)
    <3>1. RecordOk(AfterEvent(j, id, kind, slot, at, t), S \cup {id}, n)
      BY <2>2, AfterEventOk
    <3> QED BY <2>1, <3>1
  <2>4. FactUndoT(FactUndo(j, k, fact, id), S \cup {id}, n)
    BY <1>1, <1>3, EventUndoOk DEF FactUndo, FactUndoT
  <2>5. EventAdded(j, k, id)
    BY <1>1, <2>1, AfterEventIs
  <2>6. NodesStay(j, k, S)
    BY <2>5 DEF NodesStay, EventAdded
  <2> QED BY <2>3, <2>4, <2>5, <2>6 DEF EventAdded, FactAdded
<1> QED BY <1>2, <1>3

-----------------------------------------------------------------------------
(* Taking a message in *)

\* At most k compensations of facts.
CompsT(comps, k, S, n) ==
    \/ comps = <<>>
    \/ k >= 1 /\ \E c : FactUndoT(c, S, n) /\ comps = <<c>>
    \/ k >= 2 /\ \E c, d : FactUndoT(c, S, n) /\ FactUndoT(d, S, n) /\ comps = <<c, d>>

BatchOk(b, k, S, n) ==
    /\ b = [job |-> b.job, comps |-> b.comps, keys |-> b.keys, mutated |-> b.mutated, bound |-> b.bound,
            affected |-> b.affected, asked |-> b.asked]
    /\ RecordOk(b.job, S, n) /\ CompsT(b.comps, k, S, n)
    /\ b.keys \in SUBSET Facts /\ b.mutated \in SUBSET b.keys
    /\ b.bound \in Partial(Facts, SUBSET S) /\ DOMAIN b.bound = b.mutated
    /\ b.affected \in SUBSET S /\ b.asked \in SUBSET S

LEMMA FactUndoGrows ==
    ASSUME NEW S, NEW R, S \subseteq R, NEW n \in Nat, NEW m \in Nat, n <= m, NEW c, CompT(c, S, n)
    PROVE  CompT(c, R, m) /\ (FactUndoT(c, S, n) => FactUndoT(c, R, m))
<1>1. 0 .. n \subseteq 0 .. m
  OBVIOUS
<1>2. StampT(S, n) \subseteq StampT(R, m)
  BY <1>1 DEF StampT
<1>3. ProcessT(S, n) \subseteq ProcessT(R, m)
  BY <1>1, <1>2 DEF ProcessT
<1>4. TaskT(n) \subseteq TaskT(m)
  BY <1>1 DEF TaskT
<1>5. EventT(S, n) \subseteq EventT(R, m)
  BY <1>1 DEF EventT
<1>6. NodeT(n) \subseteq NodeT(m)
  BY <1>1 DEF NodeT
<1>7. ChainT(n) \subseteq ChainT(m)
  BY <1>6 DEF ChainT
<1>8. Partial(S \cup {Apply}, Statuses) \subseteq Partial(R \cup {Apply}, Statuses)
  BY PartialGrows
<1> HIDE DEF Apply
<1>9. EventUndoT(c, S, n) => EventUndoT(c, R, m)
  BY <1>2, <1>3 DEF EventUndoT
<1>10. SubmissionUndoT(c, S, n) => SubmissionUndoT(c, R, m)
  BY <1>4 DEF SubmissionUndoT
<1>11. DeletionUndoT(c, S, n) => DeletionUndoT(c, R, m)
  BY <1>4, <1>5, <1>7 DEF DeletionUndoT
<1>12. ParticipationUndoT(c, S, n) => ParticipationUndoT(c, R, m)
  BY <1>8 DEF ParticipationUndoT
<1>13. StatusUndoT(c, S, n) => StatusUndoT(c, R, m)
  BY <1>4, <1>7 DEF StatusUndoT
<1>14. SettlingUndoT(c, S, n) => SettlingUndoT(c, R, m)
  BY <1>4, <1>6 DEF SettlingUndoT
<1>15. VersionUndoT(c, S, n) => VersionUndoT(c, R, m)
  BY <1>3, <1>4, <1>6 DEF VersionUndoT
<1> QED BY <1>9, <1>10, <1>11, <1>12, <1>13, <1>14, <1>15 DEF CompT, FactUndoT

LEMMA CompsGrow ==
    ASSUME NEW S, NEW R, S \subseteq R, NEW n \in Nat, NEW m \in Nat, n <= m, NEW comps,
           NEW k, NEW l, k \in Nat, l \in Nat, k <= l, CompsT(comps, k, S, n)
    PROVE  CompsT(comps, l, R, m)
<1>1. \A c : FactUndoT(c, S, n) => FactUndoT(c, R, m)
  BY FactUndoGrows DEF CompT, FactUndoT
<1> QED BY <1>1 DEF CompsT

LEMMA BatchIsOk ==
    ASSUME NEW S, NEW n, NEW j, RecordOk(j, S, n)
    PROVE  BatchOk(Batch(j), 0, S, n) /\ Batch(j).job = j /\ Batch(j).asked = {}
  BY NoneIsPartial DEF Batch, BatchOk, CompsT

LEMMA AppendIs ==
    ASSUME NEW T, NEW s \in Seq(T), NEW d \in T
    PROVE  /\ Append(s, d) \in Seq(T) /\ Len(Append(s, d)) = Len(s) + 1
           /\ Append(s, d)[Len(s) + 1] = d /\ \A i \in 1 .. Len(s) : Append(s, d)[i] = s[i]
  OBVIOUS

\* What appending makes of a sequence.
Appended(a, s, d, T) ==
    /\ a \in Seq(T) /\ Len(a) = Len(s) + 1
    /\ a[Len(s) + 1] = d /\ \A i \in 1 .. Len(s) : a[i] = s[i]

LEMMA AppendAppends ==
    ASSUME NEW T, NEW s \in Seq(T), NEW d \in T
    PROVE  Appended(Append(s, d), s, d, T)
  BY AppendIs DEF Appended

LEMMA AppendToOne ==
    ASSUME NEW c, NEW d
    PROVE  Append(<< c >>, d) = << c, d >>
<1> DEFINE T == {c, d}  s == << c >>  a == Append(s, d)  b == << c, d >>
<1>1. s \in Seq(T) /\ Len(s) = 1 /\ s[1] = c /\ d \in T
  OBVIOUS
<1>2. b \in Seq(T) /\ Len(b) = 2 /\ b[1] = c /\ b[2] = d
  OBVIOUS
<1> HIDE DEF s, b, T
<1>3. a \in Seq(T) /\ Len(a) = 2 /\ a[2] = d /\ a[1] = c
  <2>0. Appended(a, s, d, T)
    BY <1>1, AppendAppends
  <2>1. /\ a \in Seq(T) /\ Len(a) = Len(s) + 1
        /\ a[Len(s) + 1] = d /\ \A i \in 1 .. Len(s) : a[i] = s[i]
    BY <2>0 DEF Appended
  <2> HIDE DEF a
  <2> QED BY <1>1, <2>1
<1> HIDE DEF a
<1>4. \A i \in 1 .. Len(a) : a[i] = b[i]
  BY <1>2, <1>3
<1>5. a = b
  BY <1>2, <1>3, <1>4, SeqEqual
<1> QED BY <1>5 DEF a, b, s

LEMMA CompsAppend ==
    ASSUME NEW S, NEW n, NEW k \in 0 .. 1, NEW comps, CompsT(comps, k, S, n), NEW d, FactUndoT(d, S, n)
    PROVE  CompsT(Append(comps, d), k + 1, S, n)
<1>1. CASE comps = <<>>
  <2>1. Append(comps, d) = <<d>>
    BY <1>1
  <2> QED BY <2>1 DEF CompsT
<1>2. CASE comps # <<>>
  <2>1. PICK c : FactUndoT(c, S, n) /\ comps = <<c>> /\ k = 1
    BY <1>2 DEF CompsT
  <2>2. Append(comps, d) = <<c, d>>
    BY <2>1, AppendToOne
  <2> QED BY <2>1, <2>2 DEF CompsT
<1> QED BY <1>1, <1>2

LEMMA BatchGrows ==
    ASSUME NEW S, NEW R, S \subseteq R, NEW n \in Nat, NEW b, NEW k \in Nat, NEW l \in Nat, k <= l,
           BatchOk(b, k, S, n)
    PROVE  BatchOk(b, l, R, n)
<1>1. RecordOk(b.job, R, n)
  BY RecordGrows DEF BatchOk
<1>2. CompsT(b.comps, l, R, n)
  BY CompsGrow DEF BatchOk
<1>3. b.bound \in Partial(Facts, SUBSET R)
  <2>1. SUBSET S \subseteq SUBSET R
    OBVIOUS
  <2> QED BY <2>1, PartialGrows DEF BatchOk
<1> QED BY <1>1, <1>2, <1>3 DEF BatchOk

\* The events that the receipts in proof rest on.
AffectedBy(b, proof) == UNION {b.job.receipts[r].affected : r \in proof}

LEMMA ProofsAffected ==
    ASSUME NEW S, NEW n \in Nat, NEW b, RecordOk(b.job, S, n), NEW m, NEW fact
    PROVE  AffectedBy(b, ProvenElsewhere(b, m, fact)) \in SUBSET S
<1> DEFINE proofs == {r \in DOMAIN b.job.receipts :
                       Stands(b.job, r, fact) /\ Proves(b.job, r, fact)}
           first == CHOOSE r \in proofs : \A q \in proofs : r <= q
<1>1. ProvenElsewhere(b, m, fact) \subseteq {first} /\ (ProvenElsewhere(b, m, fact) # {} => proofs # {})
  BY DEF ProvenElsewhere
<1>2. \A r \in DOMAIN b.job.receipts : r \in Nat /\ b.job.receipts[r].affected \in SUBSET S
  <2> TAKE r \in DOMAIN b.job.receipts
  <2>1. b.job.receipts[r] \in ReceiptT(S, n) /\ r \in 1 .. n
    BY ReceiptIs DEF RecordOk
  <2> QED BY <2>1 DEF ReceiptT
<1>3. proofs # {} => first \in DOMAIN b.job.receipts
  <2> SUFFICES ASSUME proofs # {} PROVE first \in DOMAIN b.job.receipts
    OBVIOUS
  <2>1. proofs \in SUBSET Nat /\ proofs \subseteq DOMAIN b.job.receipts
    BY <1>2
  <2> HIDE DEF proofs
  <2>2. \E r \in proofs : \A q \in proofs : r <= q
    BY <2>1, LeastOf
  <2> QED BY <2>1, <2>2
<1> HIDE DEF first, proofs
<1> QED BY <1>1, <1>2, <1>3 DEF AffectedBy

\* What handling one more candidate keeps.
Follows(b, c, S) ==
    /\ NodesStay(b.job, c.job, S)
    /\ c.job.receipts = b.job.receipts /\ c.job.answers = b.job.answers

Handled(b, c, k, S, i, n) == BatchOk(c, k + 1, S \cup {Id(n, i)}, n) /\ Follows(b, c, S)

LEMMA WithCandidateOk ==
    ASSUME NEW S, NEW n \in Nat, NEW b, NEW k \in 0 .. 1, BatchOk(b, k, S, n),
           NEW m \in Messages, DateOf[m] <= n, NEW i \in DOMAIN FactsOf[m], NEW pending,
           Id(n, i) \notin S
    PROVE  Handled(b, WithCandidate(b, m, i, pending, n), k, S, i, n)
<1> DEFINE fact == FactsOf[m][i]
           proof == ProvenElsewhere(b, m, fact)
           id == Id(n, i)
           l == AfterFact(b.job, fact, id, DateOf[m], n)
           made == DOMAIN l.events \ DOMAIN b.job.events
           R == S \cup {id}
           q == [msg |-> m, fact |-> fact, state |-> "open"]
           c == WithCandidate(b, m, i, pending, n)
<1> SUFFICES BatchOk(c, k + 1, R, n) /\ Follows(b, c, S)
  BY DEF Handled
<1>1. fact \in Facts
  BY FactIn
<1>2. DateOf[m] \in 0 .. n /\ n \in 0 .. n
  BY IntakeAssumption
<1>3. FactAdded(b.job, l, id, fact, S, n)
  <2> DEFINE at == DateOf[m]
  <2>1. at \in 0 .. n
    BY <1>2
  <2> HIDE DEF fact, at, id
  <2>2. FactAdded(b.job, AfterFact(b.job, fact, id, at, n), id, fact, S, n)
    BY <1>1, <1>2, <2>1, AfterFactOk DEF BatchOk, id
  <2> QED BY <2>2 DEF at
<1>4. BatchOk(b, k + 1, R, n) /\ BatchOk(b, k, R, n)
  BY BatchGrows
<1>5. UNION {b.job.receipts[r].affected : r \in proof} \in SUBSET R
  <2>1. AffectedBy(b, proof) \in SUBSET S
    BY ProofsAffected DEF BatchOk
  <2> QED BY <2>1 DEF AffectedBy
<1>6. b.keys \cup {fact} \in SUBSET Facts /\ b.mutated \cup {fact} \in SUBSET (b.keys \cup {fact})
  BY <1>1 DEF BatchOk
<1>7. /\ Put(b.bound, fact, made) \in Partial(Facts, SUBSET R)
      /\ DOMAIN Put(b.bound, fact, made) = b.mutated \cup {fact}
  <2>1. b.bound \in Partial(Facts, SUBSET R) /\ DOMAIN b.bound = b.mutated
    BY <1>4 DEF BatchOk
  <2>2. made \in SUBSET R
    BY <1>3 DEF FactAdded
  <2> HIDE DEF made, fact, R
  <2>3. Put(b.bound, fact, made) \in Partial(Facts, SUBSET R)
    BY <1>1, <2>1, <2>2, PutIsPartial
  <2> QED BY <2>1, <2>3 DEF Put
<1>8. CompsT(Append(b.comps, FactUndo(b.job, l, fact, id)), k + 1, R, n)
  <2> HIDE DEF fact, l, id
  <2> QED BY <1>3, <1>4, CompsAppend DEF BatchOk, FactAdded
<1>9. Put(b.job.requests, id, q) \in RequestsT(R, n)
  <2>1. q \in RequestT(n)
    BY <1>1 DEF RequestT
  <2>2. b.job.requests \in Partial(R, RequestT(n))
    BY <1>4, RecordIs DEF BatchOk, RecordOk, RequestsT
  <2> HIDE DEF q
  <2> QED BY <2>1, <2>2, PutIsPartial DEF RequestsT
<1>10. CASE Ignored(b, m, fact, pending)
  <2>1. c = b
    BY <1>10 DEF WithCandidate
  <2> QED BY <1>4, <2>1 DEF Follows, NodesStay
<1>11. CASE ~Ignored(b, m, fact, pending) /\ proof # {}
  <2> DEFINE a == UNION {b.job.receipts[r].affected : r \in proof}
  <2>1. c = [b EXCEPT !.keys = b.keys \cup {fact}, !.affected = b.affected \cup a]
    BY <1>11 DEF WithCandidate, BatchOk
  <2> HIDE DEF a
  <2>2. BatchOk(c, k + 1, R, n) /\ c.job = b.job
    <3>1. a \in SUBSET R
      BY <1>5 DEF a
    <3> HIDE DEF c, fact
    <3> QED BY <1>4, <1>6, <2>1, <3>1 DEF BatchOk
  <2> QED BY <2>2 DEF Follows, NodesStay
<1>12. CASE ~Ignored(b, m, fact, pending) /\ proof = {} /\ NeedsDecision(b.job, m, fact)
  <2> DEFINE p == Put(b.job.requests, id, q)
             j == [b.job EXCEPT !.requests = p]
  <2>1. c = [b EXCEPT !.asked = b.asked \cup {id}, !.job = j]
    BY <1>12 DEF WithCandidate, BatchOk, RecordOk, Records
  <2> HIDE DEF p, c
  <2>2. /\ j \in Records(R, n) /\ j.tasks = b.job.tasks /\ j.events = b.job.events
        /\ j.nodes = b.job.nodes /\ j.receipts = b.job.receipts /\ j.answers = b.job.answers
    BY <1>4, <1>9 DEF BatchOk, RecordOk, Records, p
  <2> HIDE DEF j
  <2>3. RecordOk(j, R, n)
    BY <1>4, <2>2, CompleteAs DEF BatchOk, RecordOk
  <2>4. BatchOk(c, k + 1, R, n) /\ c.job = j
    BY <1>4, <2>1, <2>3 DEF BatchOk
  <2> QED BY <2>2, <2>4 DEF Follows, NodesStay, c
<1>13. CASE ~Ignored(b, m, fact, pending) /\ proof = {} /\ ~NeedsDecision(b.job, m, fact)
  <2> DEFINE u == Append(b.comps, FactUndo(b.job, l, fact, id))
             v == Put(b.bound, fact, made)
  <2>1. c = [b EXCEPT !.job = l, !.comps = u, !.keys = b.keys \cup {fact},
                      !.mutated = b.mutated \cup {fact}, !.bound = v,
                      !.affected = b.affected \cup made]
    BY <1>13 DEF WithCandidate, BatchOk
  <2> HIDE DEF c, u, v, fact, l
  <2>2. BatchOk(c, k + 1, R, n) /\ c.job = l
    <3>1. b.affected \cup made \in SUBSET R
      BY <1>3, <1>4 DEF BatchOk, FactAdded
    <3> HIDE DEF made
    <3> QED BY <1>3, <1>4, <1>6, <1>7, <1>8, <2>1, <3>1 DEF BatchOk, FactAdded, u, v
  <2> QED BY <1>3, <2>2 DEF Follows, FactAdded, c, l, fact
<1> QED BY <1>10, <1>11, <1>12, <1>13

LEMMA TakenOk ==
    ASSUME NEW c \in Nat, NEW n, n = c + 1, NEW j, RecordOk(j, Made(c), c),
           NEW m \in Messages, DateOf[m] <= n
    PROVE  BatchOk(Taken(j, m, n), 2, Made(n), n) /\ Follows(Batch(j), Taken(j, m, n), Made(c))
<1> DEFINE pending == Pending(j, m)
           S == Made(c)
           S1 == S \cup {Id(n, 1)}
           S2 == S1 \cup {Id(n, 2)}
           b0 == Batch(j)
           b1 == WithCandidate(b0, m, 1, pending, n)
           b2 == WithCandidate(b1, m, 2, pending, n)
<1>1. n \in Nat /\ c <= n
  OBVIOUS
<1>2. /\ Id(n, 1) \notin S /\ Id(n, 2) \notin S1
      /\ S1 \subseteq Made(n) /\ S2 \subseteq Made(n) /\ S \subseteq Made(n)
  <2>1. /\ Id(n, 1) \in Made(n) \ S /\ Id(n, 2) \in Made(n) \ S /\ S \subseteq Made(n)
        /\ Id(n, 1) # Id(n, 2)
    BY MadeIs
  <2> QED BY <2>1
<1> HIDE DEF pending, S
<1>3. BatchOk(b0, 0, S, n)
  BY <1>1, RecordGrows, BatchIsOk DEF S
<1>4. 1 \in DOMAIN FactsOf[m] =>
         BatchOk(b1, 1, S1, n) /\ Follows(b0, b1, S)
  <2>1. 1 \in DOMAIN FactsOf[m] => Handled(b0, b1, 0, S, 1, n)
    <3> HIDE DEF b0
    <3> QED BY <1>1, <1>2, <1>3, WithCandidateOk
  <2> QED BY <2>1 DEF Handled
<1>5. 2 \in DOMAIN FactsOf[m] /\ BatchOk(b1, 1, S1, n) =>
         BatchOk(b2, 2, S2, n) /\ Follows(b1, b2, S1)
  <2>1. ASSUME 2 \in DOMAIN FactsOf[m], BatchOk(b1, 1, S1, n) PROVE Handled(b1, b2, 1, S1, 2, n)
    <3> DEFINE i == 2  k == 1
    <3>1. k \in 0 .. 1 /\ i \in DOMAIN FactsOf[m] /\ BatchOk(b1, k, S1, n) /\ Id(n, i) \notin S1
      BY <1>2, <2>1
    <3> HIDE DEF b1, S1, i, k
    <3>2. Handled(b1, WithCandidate(b1, m, i, pending, n), k, S1, i, n)
      BY <1>1, <3>1, WithCandidateOk
    <3> QED BY <3>2 DEF i, k
  <2> QED BY <2>1 DEF Handled
<1>6. \/ Len(FactsOf[m]) = 0 /\ Taken(j, m, n) = b0
      \/ Len(FactsOf[m]) = 1 /\ Taken(j, m, n) = b1
      \/ Len(FactsOf[m]) = 2 /\ Taken(j, m, n) = b2
  BY TakenIs DEF pending
<1>7. DOMAIN FactsOf[m] = 1 .. Len(FactsOf[m])
  <2>1. FactsOf[m] \in Seq(EventFacts \cup {Submitted})
    BY IntakeAssumption
  <2> QED BY <2>1
<1> HIDE DEF b0, b1, b2
<1>8. CASE Taken(j, m, n) = b0
  <2>1. BatchOk(b0, 2, Made(n), n)
    BY <1>1, <1>2, <1>3, BatchGrows
  <2> QED BY <1>8, <2>1 DEF Follows, NodesStay, b0
<1>9. CASE Len(FactsOf[m]) = 1 /\ Taken(j, m, n) = b1
  <2>1. BatchOk(b1, 1, S1, n) /\ Follows(b0, b1, S)
    BY <1>4, <1>7, <1>9
  <2>2. BatchOk(b1, 2, Made(n), n)
    BY <1>1, <1>2, <2>1, BatchGrows
  <2> QED BY <1>9, <2>1, <2>2 DEF S, b0
<1>10. CASE Len(FactsOf[m]) = 2 /\ Taken(j, m, n) = b2
  <2>1. BatchOk(b1, 1, S1, n) /\ Follows(b0, b1, S)
    BY <1>4, <1>7, <1>10
  <2>2. BatchOk(b2, 2, S2, n) /\ Follows(b1, b2, S1)
    BY <1>5, <1>7, <1>10, <2>1
  <2>3. BatchOk(b2, 2, Made(n), n)
    BY <1>1, <1>2, <2>2, BatchGrows
  <2>4. Follows(b0, b2, S)
    BY <2>1, <2>2 DEF Follows, NodesStay
  <2> QED BY <1>10, <2>3, <2>4 DEF S, b0
<1> QED BY <1>6, <1>8, <1>9, <1>10

\* The record with other receipts, requests and answers.
WithBooks(j, receipts, requests, answers) ==
    [j EXCEPT !.receipts = receipts, !.requests = requests, !.answers = answers]

BooksSet(j, k, S, n) == RecordOk(k, S, n) /\ k.nodes = j.nodes /\ k.events = j.events

LEMMA BooksOk ==
    ASSUME NEW S, NEW n, NEW j, RecordOk(j, S, n),
           NEW receipts \in ReceiptsT(S, n), NEW requests \in RequestsT(S, n),
           NEW answers \in SUBSET (S \X {"confirm", "dismiss"})
    PROVE  BooksSet(j, WithBooks(j, receipts, requests, answers), S, n)
<1> DEFINE k == WithBooks(j, receipts, requests, answers)
<1>1. k \in Records(S, n) /\ k.tasks = j.tasks /\ k.nodes = j.nodes /\ k.events = j.events
  BY DEF RecordOk, Records, WithBooks
<1> HIDE DEF k
<1>2. Complete(k)
  BY <1>1, CompleteAs DEF RecordOk
<1> QED BY <1>1, <1>2 DEF RecordOk, BooksSet, k

LEMMA ReceiptOk ==
    ASSUME NEW S, NEW n \in Nat, NEW k, NEW b, BatchOk(b, k, S, n), NEW m \in Messages
    PROVE  Receipt(m, b) \in ReceiptT(S, n)
<1>1. GoneKeys(Receipt(m, b)) = {}
  BY DEF GoneKeys, Receipt
<1>2. b.mutated \in SUBSET Facts
  BY DEF BatchOk
<1> QED BY <1>1, <1>2 DEF BatchOk, Receipt, ReceiptT

LEMMA AfterObservationOk ==
    ASSUME NEW S, NEW n \in Nat \ {0}, NEW k, NEW b, BatchOk(b, k, S, n), NEW m \in Messages
    PROVE  /\ RecordOk(AfterObservation(b, m, n), S, n)
           /\ AfterObservation(b, m, n).nodes = b.job.nodes
<1> DEFINE w == Put(b.job.receipts, n, Receipt(m, b))
           j == b.job
<1>1. RecordOk(j, S, n) /\ j \in Records(S, n)
  BY DEF BatchOk, RecordOk
<1>2. w \in ReceiptsT(S, n)
  <2>1. j.receipts \in Partial(1 .. n, ReceiptT(S, n)) /\ n \in 1 .. n
    BY <1>1, RecordIs DEF ReceiptsT
  <2> QED BY <2>1, ReceiptOk, PutIsPartial DEF ReceiptsT
<1> HIDE DEF w
<1>3. AfterObservation(b, m, n) = WithBooks(j, w, j.requests, j.answers)
  BY <1>1 DEF AfterObservation, Records, WithBooks, w
<1>4. j.requests \in RequestsT(S, n) /\ j.answers \in SUBSET (S \X {"confirm", "dismiss"})
  BY <1>1, RecordIs
<1> HIDE DEF j
<1> QED BY <1>1, <1>2, <1>3, <1>4, BooksOk DEF j, BooksSet

LEMMA AnsweredOk ==
    ASSUME NEW S, NEW n, NEW j, RecordOk(j, S, n), NEW d \in DOMAIN j.requests,
           NEW choice \in {"confirm", "dismiss"}
    PROVE  RecordOk(Answered(j, d, choice), S, n) /\ Answered(j, d, choice).nodes = j.nodes
<1> DEFINE q == [j.requests[d] EXCEPT !.state = "answered"]
           w == [j.requests EXCEPT ![d] = q]
           a == j.answers \cup {<<d, choice>>}
<1>1. j \in Records(S, n) /\ j.requests[d] \in RequestT(n) /\ d \in S
  BY RequestIs DEF RecordOk
<1>2. q \in RequestT(n)
  BY <1>1 DEF RequestT
<1>3. w \in RequestsT(S, n)
  <2> HIDE DEF q
  <2> QED BY <1>1, <1>2, RecordIs, SetIsPartial DEF RequestsT
<1>4. a \in SUBSET (S \X {"confirm", "dismiss"})
  BY <1>1, RecordIs
<1>5. Answered(j, d, choice) = WithBooks(j, j.receipts, w, a)
  BY <1>1 DEF Answered, Records, WithBooks
<1>6. j.receipts \in ReceiptsT(S, n)
  BY <1>1, RecordIs
<1> HIDE DEF w, a
<1> QED BY <1>3, <1>4, <1>5, <1>6, BooksOk DEF BooksSet

LEMMA ConfirmedOk ==
    ASSUME NEW c \in Nat, NEW n, n = c + 1, NEW j, RecordOk(j, Made(c), c), NEW d \in DOMAIN j.requests
    PROVE  /\ BatchOk(Confirmed(j, d, n), 1, Made(n), n)
           /\ NodesStay(j, Confirmed(j, d, n).job, Made(c))
<1> DEFINE S == Made(c)
           q == j.requests[d]
           fact == q.fact
           at == DateOf[q.msg]
           l == Answered(j, d, "confirm")
           id == Id(n, 1)
           k == AfterFact(l, fact, id, at, n)
           made == DOMAIN k.events \ DOMAIN l.events
           R == S \cup {id}
           b == Confirmed(j, d, n)
<1>1. n \in Nat /\ c <= n /\ id \notin S /\ R \subseteq Made(n)
  <2>1. Id(n, 1) \in Made(n) \ S /\ S \subseteq Made(n)
    BY MadeIs
  <2> QED BY <2>1
<1>2. q \in RequestT(c)
  BY RequestIs DEF RecordOk
<1>3. fact \in Facts /\ at \in 0 .. n /\ n \in 0 .. n
  BY <1>1, <1>2, IntakeAssumption DEF RequestT
<1>4. RecordOk(l, S, n) /\ l.nodes = j.nodes
  BY <1>1, RecordGrows, AnsweredOk
<1> HIDE DEF S, q, at, fact, l, id
<1>5. FactAdded(l, k, id, fact, S, n)
  BY <1>1, <1>3, <1>4, AfterFactOk
<1>6. b = [Batch(k) EXCEPT !.comps = << FactUndo(l, k, fact, id) >>, !.keys = {fact}, !.mutated = {fact},
                           !.bound = Put(<<>>, fact, made), !.affected = made]
  BY DEF Confirmed, q, at, fact, l, id
<1> HIDE DEF k, b
<1>7. made \in SUBSET R
  BY <1>5 DEF FactAdded
<1>8. Put(<<>>, fact, made) \in Partial(Facts, SUBSET R) /\ DOMAIN Put(<<>>, fact, made) = {fact}
  <2> HIDE DEF made, R
  <2>1. Put(<<>>, fact, made) \in Partial(Facts, SUBSET R)
    BY <1>3, <1>7, NoneIsPartial, PutIsPartial
  <2> QED BY <2>1 DEF Put
<1> DEFINE v == Put(<<>>, fact, made)
           u == << FactUndo(l, k, fact, id) >>
<1>9. CompsT(u, 1, R, n)
  BY <1>5 DEF CompsT, FactAdded
<1> HIDE DEF made, v, u, R
<1>10. b = [job |-> k, comps |-> u, keys |-> {fact}, mutated |-> {fact}, bound |-> v, affected |-> made,
            asked |-> {}]
  BY <1>6 DEF Batch, u, v
<1>11. BatchOk(b, 1, R, n) /\ b.job = k
  BY <1>3, <1>5, <1>7, <1>8, <1>9, <1>10 DEF BatchOk, FactAdded, v, R
<1>12. BatchOk(b, 1, Made(n), n)
  BY <1>1, <1>11, BatchGrows
<1> QED BY <1>4, <1>5, <1>11, <1>12 DEF b, S, FactAdded, NodesStay

LEMMA LosingOk ==
    ASSUME NEW S, NEW n \in Nat, NEW rec \in ReceiptT(S, n), NEW keys \in SUBSET rec.keys,
           NEW corrected \in BOOLEAN
    PROVE  Losing(rec, keys, corrected, n) \in ReceiptT(S, n)
<1> DEFINE more == {[key |-> key, corrected |-> corrected, after |-> n] : key \in keys}
           gone == rec.gone \cup more
           k == Losing(rec, keys, corrected, n)
<1>1. keys \subseteq Facts /\ rec.gone \subseteq GoneT(n) /\ GoneKeys(rec) \subseteq rec.keys
  BY DEF ReceiptT
<1>2. gone \in SUBSET GoneT(n)
  BY <1>1 DEF GoneT
<1>3. k = [rec EXCEPT !.gone = gone]
  BY DEF Losing, ReceiptT
<1>4. \A g \in gone : g.key \in rec.keys
  <2>1. \A g \in rec.gone : g.key \in rec.keys
    BY <1>1 DEF GoneKeys
  <2>2. \A g \in more : g.key \in keys
    OBVIOUS
  <2> QED BY <2>1, <2>2
<1> HIDE DEF gone, k
<1>5. k.gone = gone /\ k.keys = rec.keys
  BY <1>3 DEF ReceiptT
<1>6. GoneKeys(k) \subseteq k.keys
  BY <1>4, <1>5 DEF GoneKeys
<1>7. k \in ReceiptT(S, n)
  BY <1>2, <1>3, <1>6 DEF ReceiptT
<1> QED BY <1>7 DEF k

\* Receipts changed where they stand.
LEMMA ReceiptsMapped ==
    ASSUME NEW S, NEW n, NEW j, RecordOk(j, S, n), NEW w, DOMAIN w = DOMAIN j.receipts,
           w = [q \in DOMAIN w |-> w[q]],
           \A q \in DOMAIN j.receipts : w[q] \in ReceiptT(S, n)
    PROVE  BooksSet(j, [j EXCEPT !.receipts = w], S, n)
<1>1. j \in Records(S, n)
  BY DEF RecordOk
<1>2. w \in ReceiptsT(S, n)
  <2>1. DOMAIN w \in SUBSET (1 .. n)
    <3>1. j.receipts \in Partial(1 .. n, ReceiptT(S, n))
      BY <1>1, RecordIs DEF ReceiptsT
    <3>2. DOMAIN j.receipts \subseteq 1 .. n
      BY <3>1, PartialIs
    <3> QED BY <3>2
  <2>2. w \in [DOMAIN w -> ReceiptT(S, n)]
    OBVIOUS
  <2> QED BY <2>1, <2>2, IsPartial DEF ReceiptsT
<1>3. j.requests \in RequestsT(S, n) /\ j.answers \in SUBSET (S \X {"confirm", "dismiss"})
  BY <1>1, RecordIs
<1>4. [j EXCEPT !.receipts = w] = WithBooks(j, w, j.requests, j.answers)
  BY <1>1 DEF Records, WithBooks
<1> QED BY <1>2, <1>3, <1>4, BooksOk

LEMMA WithReceiptUndoneOk ==
    ASSUME NEW S, NEW n \in Nat, NEW j, RecordOk(j, S, n), NEW r
    PROVE  BooksSet(j, WithReceiptUndone(j, r, n), S, n)
<1> DEFINE v(q) == LET rec == j.receipts[q]
                   IN  IF q = r THEN [rec EXCEPT !.status = "undone", !.undone = n]
                       ELSE IF q > r /\ rec.status = "committed" THEN Losing(rec, Orphaned(j, r, q), FALSE, n)
                       ELSE rec
           w == [q \in DOMAIN j.receipts |-> v(q)]
<1>1. ASSUME NEW q \in DOMAIN j.receipts PROVE v(q) \in ReceiptT(S, n)
  <2> DEFINE rec == j.receipts[q]
  <2>1. rec \in ReceiptT(S, n)
    BY ReceiptIs DEF RecordOk
  <2>2. [rec EXCEPT !.status = "undone", !.undone = n] \in ReceiptT(S, n)
    <3> HIDE DEF rec
    <3> DEFINE k == [rec EXCEPT !.status = "undone", !.undone = n]
    <3>1. k.gone = rec.gone /\ k.keys = rec.keys
      BY <2>1 DEF ReceiptT
    <3>2. GoneKeys(k) = GoneKeys(rec)
      BY <3>1 DEF GoneKeys
    <3>3. n \in 0 .. n
      OBVIOUS
    <3>4. /\ k \in [msg : Messages, keys : SUBSET Facts, mutated : SUBSET Facts,
            bound : Partial(Facts, SUBSET S), affected : SUBSET S, gone : SUBSET GoneT(n),
            undone : 0 .. n, status : {"committed", "decision_required", "undone"}]
          /\ k.mutated = rec.mutated /\ k.bound = rec.bound
      BY <2>1, <3>3 DEF ReceiptT
    <3> HIDE DEF k
    <3>5. k \in ReceiptT(S, n)
      BY <2>1, <3>1, <3>2, <3>4 DEF ReceiptT
    <3> QED BY <3>5 DEF k
  <2>3. Losing(rec, Orphaned(j, r, q), FALSE, n) \in ReceiptT(S, n)
    <3>1. Orphaned(j, r, q) \in SUBSET rec.keys
      BY DEF Orphaned
    <3> HIDE DEF rec
    <3> QED BY <2>1, <3>1, LosingOk
  <2> HIDE DEF rec
  <2> QED BY <2>1, <2>2, <2>3 DEF rec
<1>2. WithReceiptUndone(j, r, n) = [j EXCEPT !.receipts = w]
  BY DEF WithReceiptUndone
<1>3. DOMAIN w = DOMAIN j.receipts /\ w = [q \in DOMAIN w |-> w[q]]
      /\ \A q \in DOMAIN j.receipts : w[q] \in ReceiptT(S, n)
  <2> HIDE DEF v
  <2> QED BY <1>1
<1> HIDE DEF w
<1> QED BY <1>2, <1>3, ReceiptsMapped

LEMMA AfterCorrectionOk ==
    ASSUME NEW S \in SUBSET Nat, NEW n \in Nat, NEW j, RecordOk(j, S, n), NEW e \in DOMAIN j.events,
           NEW r \in DOMAIN j.receipts
    PROVE  /\ RecordOk(AfterCorrection(j, r, e, n), S, n)
           /\ AfterCorrection(j, r, e, n).nodes = j.nodes
<1> DEFINE k == AfterInvalidation(j, e)
           v(q) == IF j.receipts[q].msg # j.receipts[r].msg THEN j.receipts[q]
                   ELSE Losing(j.receipts[q], Revoked(j, r, e, q), TRUE, n)
           w == [q \in DOMAIN j.receipts |-> v(q)]
<1>1. RecordOk(k, S, n) /\ k.receipts = j.receipts /\ k.nodes = j.nodes
  BY AfterInvalidationOk
<1>2. ASSUME NEW q \in DOMAIN j.receipts PROVE v(q) \in ReceiptT(S, n)
  <2> DEFINE rec == j.receipts[q]
  <2>1. rec \in ReceiptT(S, n)
    BY ReceiptIs DEF RecordOk
  <2>2. Losing(rec, Revoked(j, r, e, q), TRUE, n) \in ReceiptT(S, n)
    <3>1. Revoked(j, r, e, q) \in SUBSET rec.keys
      BY DEF Revoked
    <3> HIDE DEF rec
    <3> QED BY <2>1, <3>1, LosingOk
  <2> HIDE DEF rec
  <2> QED BY <2>1, <2>2 DEF rec
<1>3. AfterCorrection(j, r, e, n) = [k EXCEPT !.receipts = w]
  BY DEF AfterCorrection
<1>4. DOMAIN w = DOMAIN k.receipts /\ w = [q \in DOMAIN w |-> w[q]]
      /\ \A q \in DOMAIN k.receipts : w[q] \in ReceiptT(S, n)
  <2> HIDE DEF v, k
  <2> QED BY <1>1, <1>2
<1> HIDE DEF w, k
<1>5. BooksSet(k, [k EXCEPT !.receipts = w], S, n)
  BY <1>1, <1>4, ReceiptsMapped
<1> QED BY <1>1, <1>3, <1>5 DEF BooksSet

-----------------------------------------------------------------------------
(* The compensations a ledger row keeps, when the record's occurrences are  *)
(* those of nodes.                                                          *)

RowCompsT(comps, nodes, S, n) ==
    \/ CompsT(comps, 2, S, n)
    \/ \E c : CompT(c, S, n) /\ CompFits(c, nodes) /\ comps = <<c>>


LEMMA MadeIsFinite ==
    ASSUME NEW n \in Nat
    PROVE  IsFiniteSet(Made(n))
<1>1. IsFiniteSet(0 .. 2 * n + 2)
  BY FS_Interval
<1>2. Made(n) \subseteq 0 .. 2 * n + 2
  BY DEF Made, Id
<1> QED BY <1>1, <1>2, FS_Subset

LEMMA CompensateOk ==
    ASSUME NEW c \in Nat, NEW n, n = c + 1, NEW j, RecordOk(j, Made(c), c), NEW comps,
           RowCompsT(comps, DOMAIN j.nodes, Made(c), c), Compensate(j, comps, n).ok
    PROVE  RecordOk(Compensate(j, comps, n).job, Made(n), n) /\ SameBooks(j, Compensate(j, comps, n).job)
<1> DEFINE S == Made(c)
<1>1. n \in Nat /\ n \in 0 .. n /\ c <= n /\ Apply \notin S /\ Id(n, 1) \notin S
      /\ S \cup {Id(n, 1)} \subseteq Made(n) /\ S \subseteq Made(n)
  <2>1. Id(n, 1) \in Made(n) \ S /\ S \subseteq Made(n) /\ Apply \notin S
    BY MadeIs
  <2> QED BY <2>1
<1>2. IsFiniteSet(S)
  BY MadeIsFinite
<1> HIDE DEF S
<1>3. RecordOk(j, S, n) /\ \A x : CompT(x, S, c) => CompT(x, S, n)
  BY <1>1, RecordGrows, FactUndoGrows DEF S
<1>4. ASSUME NEW k, RecordOk(k, S, n), SameBooks(j, k), NEW x, CompT(x, S, c), CompFits(x, DOMAIN j.nodes),
             Compensated(k, x, n).ok
      PROVE  /\ RecordOk(Compensated(k, x, n).job, Made(n), n) /\ SameBooks(j, Compensated(k, x, n).job)
             /\ x.op # "restore_deleted_process_event" => RecordOk(Compensated(k, x, n).job, S, n)
  <2>1. CompFits(x, DOMAIN k.nodes) /\ CompT(x, S, n)
    BY <1>3, <1>4 DEF SameBooks
  <2>2. /\ RecordOk(Compensated(k, x, n).job, S \cup {Id(n, 1)}, n)
        /\ SameBooks(k, Compensated(k, x, n).job)
        /\ x.op # "restore_deleted_process_event" => RecordOk(Compensated(k, x, n).job, S, n)
    BY <1>1, <1>2, <1>4, <2>1, CompensatedOk
  <2>3. RecordOk(Compensated(k, x, n).job, Made(n), n)
    BY <1>1, <2>2, RecordGrows
  <2> QED BY <1>4, <2>2, <2>3 DEF SameBooks
<1>5. \A x : FactUndoT(x, S, c) => /\ CompT(x, S, c) /\ CompFits(x, DOMAIN j.nodes)
                                   /\ x.op # "restore_deleted_process_event"
  BY DEF FactUndoT, CompT, CompFits, EventUndoT, SubmissionUndoT
<1>6. SameBooks(j, j)
  BY DEF SameBooks
<1>7. CASE comps = <<>>
  <2>1. Compensate(j, comps, n).job = j
    BY <1>7, CompensateNone DEF Restored
  <2>2. RecordOk(j, Made(n), n)
    BY <1>1, <1>3, RecordGrows
  <2> QED BY <1>6, <2>1, <2>2
<1>8. ASSUME NEW x, CompT(x, S, c), CompFits(x, DOMAIN j.nodes), comps = <<x>>
      PROVE  RecordOk(Compensate(j, comps, n).job, Made(n), n) /\ SameBooks(j, Compensate(j, comps, n).job)
  <2>1. Compensate(j, comps, n) = Compensated(j, x, n)
    BY <1>8, CompensateOne
  <2> QED BY <1>3, <1>4, <1>6, <1>8, <2>1
<1>9. ASSUME NEW x, NEW y, FactUndoT(x, S, c), FactUndoT(y, S, c), comps = <<x, y>>
      PROVE  RecordOk(Compensate(j, comps, n).job, Made(n), n) /\ SameBooks(j, Compensate(j, comps, n).job)
  <2> DEFINE l == Compensated(j, y, n)
  <2>1. Compensate(j, comps, n) = IF l.ok THEN Compensated(l.job, x, n) ELSE l
    BY <1>9, CompensateTwo
  <2>2. l.ok
    BY <2>1
  <2>3. RecordOk(l.job, S, n) /\ SameBooks(j, l.job)
    BY <1>3, <1>4, <1>5, <1>6, <1>9, <2>2
  <2>4. Compensate(j, comps, n) = Compensated(l.job, x, n)
    BY <2>1, <2>2
  <2> HIDE DEF l
  <2> QED BY <1>4, <1>5, <1>9, <2>3, <2>4
<1> QED BY <1>7, <1>8, <1>9, <1>5 DEF RowCompsT, CompsT, S

UndoneOk(j, k, n) == RecordOk(k, Made(n), n) /\ DOMAIN k.nodes = DOMAIN j.nodes

LEMMA UndoneBatchOk ==
    ASSUME NEW c \in Nat, NEW n, n = c + 1, NEW j, RecordOk(j, Made(c), c), NEW comps,
           RowCompsT(comps, DOMAIN j.nodes, Made(c), c), NEW r, NEW asked, NEW reopened,
           UndoneBatch(j, r, comps, asked, reopened, n).ok
    PROVE  UndoneOk(j, UndoneBatch(j, r, comps, asked, reopened, n).job, n)
<1> DEFINE back == Compensate(j, comps, n)
           l == back.job
           v(d) == IF d \in reopened THEN [l.requests[d] EXCEPT !.state = "open"]
                   ELSE IF d \in asked THEN [l.requests[d] EXCEPT !.state = "superseded"]
                   ELSE l.requests[d]
           w == [d \in DOMAIN l.requests |-> v(d)]
           k == [l EXCEPT !.requests = w]
           S == Made(n)
<1>1. back.ok
  BY DEF UndoneBatch
<1>2. RecordOk(l, S, n) /\ SameBooks(j, l)
  BY <1>1, CompensateOk
<1>3. /\ UndoneBatch(j, r, comps, asked, reopened, n).job \in {k, WithReceiptUndone(k, r, n)}
  <2>1. l \in Records(S, n)
    BY <1>2 DEF RecordOk
  <2> QED BY <1>1, <2>1 DEF UndoneBatch, Restored, Records
<1> HIDE DEF l, S
<1>4. BooksSet(l, k, S, n)
  <2>1. l \in Records(S, n)
    BY <1>2 DEF RecordOk
  <2>2. w \in RequestsT(S, n)
    <3>1. l.requests \in Partial(S, RequestT(n))
      BY <2>1, RecordIs DEF RequestsT
    <3>2. ASSUME NEW d \in DOMAIN l.requests PROVE v(d) \in RequestT(n)
      <4> DEFINE q == l.requests[d]
      <4>1. q \in RequestT(n)
        BY <3>1, PartialIs
      <4> HIDE DEF q
      <4>2. [q EXCEPT !.state = "open"] \in RequestT(n) /\ [q EXCEPT !.state = "superseded"] \in RequestT(n)
        BY <4>1 DEF RequestT
      <4> QED BY <4>1, <4>2 DEF q
    <3>3. DOMAIN l.requests \in SUBSET S
      BY <3>1, PartialIs
    <3> HIDE DEF v
    <3>4. w \in [DOMAIN l.requests -> RequestT(n)]
      BY <3>2
    <3> HIDE DEF w
    <3> QED BY <3>3, <3>4, IsPartial DEF RequestsT
  <2>3. l.receipts \in ReceiptsT(S, n) /\ l.answers \in SUBSET (S \X {"confirm", "dismiss"})
    BY <2>1, RecordIs
  <2> HIDE DEF w
  <2>4. k = WithBooks(l, l.receipts, w, l.answers)
    BY <2>1 DEF Records, WithBooks
  <2> HIDE DEF k
  <2> QED BY <1>2, <2>2, <2>3, <2>4, BooksOk
<1> HIDE DEF k
<1>5. n \in Nat
  OBVIOUS
<1>6. BooksSet(k, WithReceiptUndone(k, r, n), S, n)
  BY <1>4, <1>5, WithReceiptUndoneOk DEF BooksSet
<1> QED BY <1>2, <1>3, <1>4, <1>6 DEF BooksSet, SameBooks, UndoneOk, S

-----------------------------------------------------------------------------
(* The compensations that the commands leave                                *)

LEMMA DeletionUndoOk ==
    ASSUME NEW S, NEW n \in Nat, NEW j, RecordOk(j, S, n), NEW k, DOMAIN k.nodes = DOMAIN j.nodes,
           NEW e \in DOMAIN j.events
    PROVE  CompT(DeletionUndo(j, k, e), S, n) /\ CompFits(DeletionUndo(j, k, e), DOMAIN k.nodes)
<1> DEFINE c == DeletionUndo(j, k, e)
<1>1. j \in Records(S, n) /\ j.events[e] \in EventT(S, n) /\ e \in S
  BY EventIs DEF RecordOk
<1>2. c.op = "restore_deleted_process_event" /\ c.id = e /\ c.event = j.events[e]
      /\ c.task = Entry(j.tasks, e) /\ c.before = Entry(j.nodes, e) /\ c.after = Entry(k.nodes, e)
  BY DEF DeletionUndo
<1> HIDE DEF c
<1>3. c.task # <<>> => c.task[1] \in TaskT(n)
  <2>1. e \in DOMAIN j.tasks => j.tasks[e] \in TaskT(n)
    BY <1>1, TaskIs
  <2> QED BY <1>2, <2>1 DEF Entry
<1>4. c.before # c.after => c.before[1] \in ChainT(n)
  <2>1. e \in DOMAIN j.nodes => j.nodes[e] \in ChainT(n)
    BY <1>1, NodeIs
  <2> QED BY <1>2, <2>1 DEF Entry
<1>5. c.event.type = "interview" <=> e \in DOMAIN j.nodes
  BY <1>2 DEF RecordOk, Complete
<1>6. c.event.type = "interview" => c.task # <<>>
  <2>1. e \in DOMAIN j.nodes => e \in DOMAIN j.tasks
    BY DEF RecordOk, Complete
  <2>2. e \in DOMAIN j.tasks => c.task # <<>>
    BY <1>2 DEF Entry
  <2> QED BY <1>5, <2>1, <2>2
<1>7. DeletionUndoT(c, S, n)
  BY <1>1, <1>2, <1>3, <1>4, <1>6 DEF DeletionUndoT
<1> QED BY <1>2, <1>5, <1>7 DEF CompT, CompFits, c

LEMMA ParticipationUndoOk ==
    ASSUME NEW S, NEW n, NEW j, RecordOk(j, S, n), NEW nodes
    PROVE  CompT(ParticipationUndo(j), S, n) /\ CompFits(ParticipationUndo(j), nodes)
<1> DEFINE t == [x \in OpenTasks(j) |-> j.tasks[x].status]
<1>1. \A x \in OpenTasks(j) : j.tasks[x] \in TaskT(n) /\ x \in S \cup {Apply}
  BY TaskIs DEF RecordOk, OpenTasks
<1>2. t \in [OpenTasks(j) -> Statuses]
  BY <1>1 DEF TaskT
<1>3. t \in Partial(S \cup {Apply}, Statuses)
  <2>1. OpenTasks(j) \in SUBSET (S \cup {Apply})
    BY <1>1
  <2> QED BY <1>2, <2>1, IsPartial
<1> QED BY <1>3 DEF CompT, CompFits, ParticipationUndo, ParticipationUndoT

LEMMA StatusUndoOk ==
    ASSUME NEW S, NEW n, NEW j, RecordOk(j, S, n), NEW k, DOMAIN k.nodes = DOMAIN j.nodes,
           NEW task \in DOMAIN j.tasks, NEW nodes
    PROVE  CompT(StatusUndo(j, k, task), S, n) /\ CompFits(StatusUndo(j, k, task), nodes)
<1> DEFINE c == StatusUndo(j, k, task)
<1>1. c.op = "set_action_status" /\ c.before = j.tasks[task]
      /\ c.was = Entry(j.nodes, task) /\ c.is = Entry(k.nodes, task)
  BY DEF StatusUndo
<1> HIDE DEF c
<1>2. j.tasks[task] \in TaskT(n)
  BY TaskIs DEF RecordOk
<1>3. c.was # c.is => c.was[1] \in ChainT(n)
  <2>1. task \in DOMAIN j.nodes => j.nodes[task] \in ChainT(n)
    BY NodeIs DEF RecordOk
  <2> QED BY <1>1, <2>1 DEF Entry
<1>4. StatusUndoT(c, S, n)
  BY <1>1, <1>2, <1>3 DEF StatusUndoT
<1> QED BY <1>1, <1>4 DEF CompT, CompFits, c

LEMMA SettlingUndoOk ==
    ASSUME NEW S, NEW n, NEW j, RecordOk(j, S, n), NEW e \in DOMAIN j.events \cap DOMAIN j.nodes, NEW nodes
    PROVE  CompT(SettlingUndo(j, e), S, n) /\ CompFits(SettlingUndo(j, e), nodes)
<1> DEFINE c == SettlingUndo(j, e)
<1>1. c.op = "restore_occurrence_completion" /\ c.node = Current(j, e) /\ c.task = j.tasks[e]
      /\ c.stage = j.process.stage
  BY DEF SettlingUndo
<1> HIDE DEF c
<1>2. j \in Records(S, n) /\ e \in DOMAIN j.tasks
  BY DEF RecordOk, Complete
<1>3. Current(j, e) \in NodeT(n) /\ Current(j, e).state \in LiveStates /\ j.tasks[e] \in TaskT(n)
  BY <1>2, NodeIs, TaskIs
<1>4. j.process.stage \in Stages
  BY <1>2, RecordIs DEF ProcessT
<1>5. SettlingUndoT(c, S, n)
  BY <1>1, <1>3, <1>4 DEF SettlingUndoT
<1> QED BY <1>1, <1>5 DEF CompT, CompFits, c

LEMMA VersionUndoOk ==
    ASSUME NEW S, NEW n, NEW j, RecordOk(j, S, n), NEW k,
           NEW e \in DOMAIN j.events \cap DOMAIN j.nodes, NEW nodes
    PROVE  CompT(VersionUndo(j, k, e), S, n) /\ CompFits(VersionUndo(j, k, e), nodes)
<1> DEFINE c == VersionUndo(j, k, e)
<1>1. c.op = "restore_occurrence_supersession" /\ c.previous = Current(j, e)
      /\ c.before.task = j.tasks[e] /\ c.before.due = [due |-> j.events[e].due]
      /\ c.before.process = j.process
  BY DEF VersionUndo, Owners
<1> HIDE DEF c
<1>2. j \in Records(S, n) /\ e \in DOMAIN j.tasks
  BY DEF RecordOk, Complete
<1>3. Current(j, e) \in NodeT(n) /\ Current(j, e).state \in LiveStates /\ j.tasks[e] \in TaskT(n)
  BY <1>2, NodeIs, TaskIs
<1>4. j.process \in ProcessT(S, n) /\ j.events[e].due \in Nat
  <2>1. j.events[e] \in EventT(S, n)
    BY <1>2, EventIs
  <2> QED BY <1>2, <2>1, RecordIs DEF EventT
<1>5. VersionUndoT(c, S, n)
  BY <1>1, <1>3, <1>4 DEF VersionUndoT
<1> QED BY <1>1, <1>5 DEF CompT, CompFits, c

\* The commands that act on what is there neither add nor remove an occurrence.
LEMMA SameNodes ==
    ASSUME NEW S, NEW n, NEW j, RecordOk(j, S, n), NEW e, NEW x, NEW at \in 0 .. n
    PROVE  /\ DOMAIN AfterSettling(j, e, x, at).nodes = DOMAIN j.nodes
           /\ DOMAIN AfterReschedule(j, e, x, at).nodes = DOMAIN j.nodes
           /\ DOMAIN AfterAbandon(j, at).nodes = DOMAIN j.nodes
           /\ DOMAIN AfterDeletion(j, e, at).nodes = DOMAIN j.nodes
<1>1. DOMAIN AfterSettling(j, e, x, at).nodes = DOMAIN j.nodes
  BY DEF AfterSettling, RecordOk, Records
<1>2. DOMAIN AfterReschedule(j, e, x, at).nodes = DOMAIN j.nodes
  BY DEF AfterReschedule, RecordOk, Records
<1>3. DOMAIN AfterAbandon(j, at).nodes = DOMAIN j.nodes
  BY DEF AfterAbandon, RecordOk, Records
<1>4. DOMAIN AfterDeletion(j, e, at).nodes = DOMAIN j.nodes
  <2>1. DOMAIN CancelledNodes(j, e, at) = DOMAIN j.nodes
    BY CancelledNodesOk DEF RecordOk
  <2> QED BY <2>1 DEF AfterDeletion, WithoutEvent, RecordOk, Records
<1> QED BY <1>1, <1>2, <1>3, <1>4

-----------------------------------------------------------------------------
(* The invariant                                                            *)

RowsOk(rows, nodes, S, n) ==
    /\ DOMAIN rows \subseteq 1 .. n
    /\ \A r \in DOMAIN rows : RowCompsT(rows[r].comps, nodes, S, n)

RecordInv ==
    /\ clock \in Times
    /\ RecordOk(job, Made(clock), clock)
    /\ RowsOk(undoable, DOMAIN job.nodes, Made(clock), clock)

\* What every command makes of the record.
Kept(k) ==
    /\ RecordOk(k, Made(now), now)
    /\ \A e \in Made(clock) : e \in DOMAIN k.nodes <=> e \in DOMAIN job.nodes

LEMMA RowCompsKept ==
    ASSUME NEW c \in Nat, NEW n, n = c + 1, NEW comps, NEW nodes, NEW nodes2,
           RowCompsT(comps, nodes, Made(c), c), \A e \in Made(c) : e \in nodes2 <=> e \in nodes
    PROVE  RowCompsT(comps, nodes2, Made(n), n)
<1>1. Made(c) \subseteq Made(n) /\ n \in Nat /\ c <= n
  BY MadeIs
<1>2. CASE CompsT(comps, 2, Made(c), c)
  BY <1>1, <1>2, CompsGrow DEF RowCompsT
<1>3. CASE ~CompsT(comps, 2, Made(c), c)
  <2>1. PICK x : CompT(x, Made(c), c) /\ CompFits(x, nodes) /\ comps = <<x>>
    BY <1>3 DEF RowCompsT
  <2>2. x.op = "restore_deleted_process_event" => x.id \in Made(c)
    BY <2>1 DEF CompT, EventUndoT, SubmissionUndoT, DeletionUndoT, ParticipationUndoT, StatusUndoT,
                SettlingUndoT, VersionUndoT
  <2>3. CompFits(x, nodes2)
    BY <2>1, <2>2 DEF CompFits
  <2>4. CompT(x, Made(n), n)
    BY <1>1, <2>1, FactUndoGrows
  <2> QED BY <2>1, <2>3, <2>4 DEF RowCompsT
<1> QED BY <1>2, <1>3

LEMMA RowsKept ==
    ASSUME RecordInv, NEW k, Kept(k)
    PROVE  RowsOk(StillUndoable(k), DOMAIN k.nodes, Made(now), now)
<1>1. clock \in Nat
  BY HistoryAssumption DEF RecordInv, Times
<1>2. /\ DOMAIN StillUndoable(k) \subseteq DOMAIN undoable
      /\ \A r \in DOMAIN StillUndoable(k) : StillUndoable(k)[r] = undoable[r]
  BY DEF StillUndoable, Restrict
<1>3. \A r \in DOMAIN undoable : RowCompsT(undoable[r].comps, DOMAIN k.nodes, Made(now), now)
  BY <1>1, RowCompsKept DEF RecordInv, RowsOk, Kept, NodesStay, now
<1>4. DOMAIN undoable \subseteq 1 .. now
  BY <1>1 DEF RecordInv, RowsOk, now
<1> QED BY <1>2, <1>3, <1>4 DEF RowsOk

LEMMA FinalKeeps ==
    ASSUME RecordInv, NEW k, Kept(k), CommitFinal(k)
    PROVE  RecordInv'
<1>1. clock \in Nat /\ clock' = now /\ job' = k /\ now \in Times
  BY HistoryAssumption DEF RecordInv, Times, CommitFinal, Commit, now
<1>2. RowsOk(StillUndoable(k), DOMAIN k.nodes, Made(now), now)
  BY RowsKept
<1> QED BY <1>1, <1>2 DEF RecordInv, CommitFinal, Commit, Kept

LEMMA RowKeeps ==
    ASSUME RecordInv, NEW k, Kept(k), NEW row,
           RowCompsT(row.comps, DOMAIN k.nodes, Made(now), now), CommitWithRow(k, row)
    PROVE  RecordInv'
<1> DEFINE rows == Put(StillUndoable(k), now, row)
<1>1. clock \in Nat /\ clock' = now /\ job' = k /\ now \in Times /\ undoable' = rows
  BY HistoryAssumption DEF RecordInv, Times, CommitWithRow, Commit, now
<1>2. RowsOk(StillUndoable(k), DOMAIN k.nodes, Made(now), now)
  BY RowsKept
<1>3. /\ DOMAIN rows = DOMAIN StillUndoable(k) \cup {now} /\ rows[now] = row
      /\ \A r \in DOMAIN StillUndoable(k) : r # now => rows[r] = StillUndoable(k)[r]
  BY DEF Put
<1>4. now \in 1 .. now
  BY <1>1 DEF now
<1> HIDE DEF rows
<1>5. RowsOk(rows, DOMAIN k.nodes, Made(now), now)
  BY <1>2, <1>3, <1>4 DEF RowsOk
<1> QED BY <1>1, <1>5 DEF RecordInv, Kept

LEMMA UndoKeeps ==
    ASSUME RecordInv, NEW k, Kept(k), NEW c, CompT(c, Made(now), now), CompFits(c, DOMAIN k.nodes),
           CommitWith(k, c)
    PROVE  RecordInv'
<1> DEFINE row == Row(k, << c >>, {}, {})
<1>1. row.comps = << c >>
  BY DEF Row
<1>2. RowCompsT(row.comps, DOMAIN k.nodes, Made(now), now)
  BY <1>1 DEF RowCompsT
<1> HIDE DEF row
<1>3. CommitWithRow(k, row)
  BY DEF CommitWith, row
<1> QED BY <1>2, <1>3, RowKeeps

\* What holds before every command, and what the proofs below use of it.
Ready ==
    /\ clock \in Nat /\ now = clock + 1 /\ now \in Nat \ {0} /\ now \in 0 .. now /\ clock <= now
    /\ RecordOk(job, Made(now), now) /\ RecordOk(job, Made(clock), clock)
    /\ Made(clock) \subseteq Made(now) /\ Made(now) \in SUBSET Nat
    /\ Apply \notin Made(now) /\ Apply \notin Made(clock)
    /\ Id(now, 1) \in Made(now) /\ Id(now, 1) \notin Made(clock)

LEMMA MadeNext ==
    ASSUME NEW c \in Nat, NEW n, n = c + 1
    PROVE  /\ Made(c) \subseteq Made(n) /\ Made(n) \subseteq Nat
           /\ Id(n, 1) \in Made(n) /\ Id(n, 1) \notin Made(c)
           /\ Apply \notin Made(n) /\ Apply \notin Made(c)
  BY DEF Made, Id, Apply

LEMMA IsReady ==
    ASSUME RecordInv
    PROVE  Ready
<1>1. clock \in Nat /\ now = clock + 1 /\ now \in Nat \ {0} /\ now \in 0 .. now /\ clock <= now
  BY HistoryAssumption DEF RecordInv, Times, now
<1>2. /\ Made(clock) \subseteq Made(now) /\ Made(now) \subseteq Nat
      /\ Id(now, 1) \in Made(now) /\ Id(now, 1) \notin Made(clock)
      /\ Apply \notin Made(now) /\ Apply \notin Made(clock)
  BY <1>1, MadeNext
<1>4. RecordOk(job, Made(clock), clock) /\ RecordOk(job, Made(now), now)
  BY <1>1, <1>2, RecordGrows DEF RecordInv
<1> QED BY <1>1, <1>2, <1>4 DEF Ready

LEMMA SubmitKeeps ==
    ASSUME RecordInv, Submit
    PROVE  RecordInv'
<1> DEFINE id == Id(now, 1)  k == AfterSubmission(job, id, now)  c == SubmissionUndo(job, k, id)
<1>1. Ready
  BY IsReady
<1>2. RecordOk(k, Made(now), now)
  BY <1>1, AfterSubmissionOk DEF Ready
<1>3. k.nodes = job.nodes
  BY <1>1, AfterSubmissionIs DEF Ready, RecordOk
<1>4. SubmissionUndoT(c, Made(now), now)
  BY <1>1, SubmissionUndoOk DEF Ready
<1>5. CommitWith(k, c)
  BY DEF Submit
<1> HIDE DEF k, c
<1>6. Kept(k)
  BY <1>2, <1>3 DEF Kept, NodesStay
<1>7. CompT(c, Made(now), now) /\ CompFits(c, DOMAIN k.nodes)
  BY <1>4 DEF CompT, CompFits, SubmissionUndoT
<1> QED BY <1>5, <1>6, <1>7, UndoKeeps

LEMMA RecordEventKeeps ==
    ASSUME RecordInv, NEW type \in {"interview", "offer"}, NEW slot \in Nat, RecordEvent(type, slot)
    PROVE  RecordInv'
<1> DEFINE id == Id(now, 1)  k == AfterEvent(job, id, type, slot, now, now)  c == EventUndo(job, k, id)
<1>1. Ready
  BY IsReady
<1>2. RecordOk(k, Made(clock) \cup {id}, now)
  <2>1. RecordOk(job, Made(clock), now)
    BY <1>1, RecordGrows DEF Ready
  <2> QED BY <1>1, <2>1, AfterEventOk DEF Ready
<1>3. EventAdded(job, k, id)
  BY <1>1, AfterEventIs DEF Ready, RecordOk
<1>4. EventUndoT(c, Made(now), now)
  BY <1>1, EventUndoOk DEF Ready, RecordOk
<1>5. CommitWith(k, c)
  BY DEF RecordEvent
<1> HIDE DEF k, c
<1>6. Kept(k)
  <2>1. RecordOk(k, Made(now), now)
    BY <1>1, <1>2, RecordGrows DEF Ready
  <2> QED BY <1>1, <1>3, <2>1 DEF Kept, NodesStay, EventAdded, Ready
<1>7. CompT(c, Made(now), now) /\ CompFits(c, DOMAIN k.nodes)
  BY <1>4 DEF CompT, CompFits, EventUndoT
<1> QED BY <1>5, <1>6, <1>7, UndoKeeps

LEMMA SetStatusKeeps ==
    ASSUME RecordInv, NEW task \in DOMAIN job.tasks, NEW status \in Statuses, SetStatus(task, status)
    PROVE  RecordInv'
<1> DEFINE k == AfterStatus(job, task, status, now)  c == StatusUndo(job, k, task)
<1>1. Ready
  BY IsReady
<1>2. RecordOk(k, Made(now), now)
  BY <1>1, AfterStatusOk DEF Ready
<1>3. DOMAIN k.nodes = DOMAIN job.nodes
  <2>1. StatusSet(job, k, task, status, now)
    BY <1>1, AfterStatusIs DEF Ready, RecordOk
  <2> HIDE DEF k
  <2> QED BY <2>1 DEF StatusSet
<1>5. CommitWith(k, c)
  BY DEF SetStatus
<1> HIDE DEF k
<1>6. Kept(k)
  BY <1>2, <1>3 DEF Kept, NodesStay
<1>7. CompT(c, Made(now), now) /\ CompFits(c, DOMAIN k.nodes)
  BY <1>1, <1>3, StatusUndoOk DEF Ready
<1> HIDE DEF c
<1> QED BY <1>5, <1>6, <1>7, UndoKeeps

LEMMA SettleKeeps ==
    ASSUME RecordInv, NEW e \in Interviews, NEW cancelled \in BOOLEAN, Settle(e, cancelled)
    PROVE  RecordInv'
<1> DEFINE k == AfterSettling(job, e, cancelled, now)
           c == IF NeedsConfirmation(Current(job, e)) THEN VersionUndo(job, k, e) ELSE SettlingUndo(job, e)
<1>1. Ready /\ e \in DOMAIN job.events \cap DOMAIN job.nodes
  BY IsReady DEF Interviews
<1>2. RecordOk(k, Made(now), now)
  BY <1>1, AfterSettlingOk DEF Ready
<1>3. DOMAIN k.nodes = DOMAIN job.nodes
  BY <1>1, SameNodes DEF Ready
<1>5. CommitWith(k, c)
  BY DEF Settle
<1> HIDE DEF k
<1>6. Kept(k)
  BY <1>2, <1>3 DEF Kept, NodesStay
<1>7. CompT(c, Made(now), now) /\ CompFits(c, DOMAIN k.nodes)
  BY <1>1, VersionUndoOk, SettlingUndoOk DEF Ready
<1> HIDE DEF c
<1> QED BY <1>5, <1>6, <1>7, UndoKeeps

LEMMA RescheduleKeeps ==
    ASSUME RecordInv, NEW e \in Interviews, NEW slot \in Nat, Reschedule(e, slot)
    PROVE  RecordInv'
<1> DEFINE k == AfterReschedule(job, e, slot, now)  c == VersionUndo(job, k, e)
<1>1. Ready /\ e \in DOMAIN job.events \cap DOMAIN job.nodes
  BY IsReady DEF Interviews
<1>2. RecordOk(k, Made(now), now)
  BY <1>1, AfterRescheduleOk DEF Ready
<1>3. DOMAIN k.nodes = DOMAIN job.nodes
  BY <1>1, SameNodes DEF Ready
<1>5. CommitWith(k, c)
  BY DEF Reschedule
<1> HIDE DEF k
<1>6. Kept(k)
  BY <1>2, <1>3 DEF Kept, NodesStay
<1>7. CompT(c, Made(now), now) /\ CompFits(c, DOMAIN k.nodes)
  BY <1>1, VersionUndoOk DEF Ready
<1> HIDE DEF c
<1> QED BY <1>5, <1>6, <1>7, UndoKeeps

LEMMA AbandonKeeps ==
    ASSUME RecordInv, Abandon
    PROVE  RecordInv'
<1> DEFINE k == AfterAbandon(job, now)  c == ParticipationUndo(job)
<1>1. Ready
  BY IsReady
<1>2. RecordOk(k, Made(now), now)
  BY <1>1, AfterAbandonOk DEF Ready
<1>3. DOMAIN k.nodes = DOMAIN job.nodes
  BY <1>1 DEF Ready, AfterAbandon, RecordOk, Records
<1>5. CommitWith(k, c)
  BY DEF Abandon
<1> HIDE DEF k
<1>6. Kept(k)
  BY <1>2, <1>3 DEF Kept, NodesStay
<1>7. CompT(c, Made(now), now) /\ CompFits(c, DOMAIN k.nodes)
  BY <1>1, ParticipationUndoOk DEF Ready
<1> HIDE DEF c
<1> QED BY <1>5, <1>6, <1>7, UndoKeeps

LEMMA DeleteEventKeeps ==
    ASSUME RecordInv, NEW e \in DOMAIN job.events, DeleteEvent(e)
    PROVE  RecordInv'
<1> DEFINE k == AfterDeletion(job, e, now)  c == DeletionUndo(job, k, e)
<1>1. Ready
  BY IsReady
<1>2. RecordOk(k, Made(now), now)
  <2>1. e # Apply
    BY <1>1, EventIs DEF Ready, RecordOk
  <2> QED BY <1>1, <2>1, AfterDeletionOk DEF Ready
<1>3. DOMAIN k.nodes = DOMAIN job.nodes
  BY <1>1, SameNodes DEF Ready
<1>5. CommitWith(k, c)
  BY DEF DeleteEvent
<1> HIDE DEF k
<1>6. Kept(k)
  BY <1>2, <1>3 DEF Kept, NodesStay
<1>7. CompT(c, Made(now), now) /\ CompFits(c, DOMAIN k.nodes)
  BY <1>1, <1>3, DeletionUndoOk DEF Ready
<1> HIDE DEF c
<1> QED BY <1>5, <1>6, <1>7, UndoKeeps

LEMMA InvalidateKeeps ==
    ASSUME RecordInv, NEW e \in DOMAIN job.events, NEW r \in DOMAIN job.receipts, Invalidate(e, r)
    PROVE  RecordInv'
<1> DEFINE k == AfterCorrection(job, r, e, now)
<1>1. Ready
  BY IsReady
<1>2. RecordOk(k, Made(now), now) /\ k.nodes = job.nodes
  <2> DEFINE S == Made(now)  n == now
  <2> HIDE DEF S, n
  <2>1. S \in SUBSET Nat /\ n \in Nat /\ RecordOk(job, S, n)
    BY <1>1 DEF Ready, S, n
  <2>2. RecordOk(AfterCorrection(job, r, e, n), S, n) /\ AfterCorrection(job, r, e, n).nodes = job.nodes
    BY <2>1, AfterCorrectionOk
  <2> QED BY <2>2 DEF S, n
<1>3. CommitFinal(k)
  BY DEF Invalidate
<1> HIDE DEF k
<1>4. Kept(k)
  BY <1>2 DEF Kept, NodesStay
<1> QED BY <1>3, <1>4, FinalKeeps

LEMMA ObserveKeeps ==
    ASSUME RecordInv, NEW m \in Messages, Observe(m)
    PROVE  RecordInv'
<1> DEFINE b == Taken(job, m, now)  k == AfterObservation(b, m, now)
           row == Row(k, b.comps, b.asked, {})
<1>1. Ready
  BY IsReady
<1>2. CommitWithRow(k, row) /\ DateOf[m] <= now
  BY DEF Observe
<1>3. BatchOk(b, 2, Made(now), now) /\ Follows(Batch(job), b, Made(clock))
  BY <1>1, <1>2, TakenOk DEF Ready
<1> HIDE DEF b
<1>4. RecordOk(k, Made(now), now) /\ k.nodes = b.job.nodes
  BY <1>1, <1>3, AfterObservationOk DEF Ready
<1> HIDE DEF k
<1>5. Kept(k)
  BY <1>3, <1>4 DEF Kept, Follows, NodesStay, Batch
<1>6. RowCompsT(row.comps, DOMAIN k.nodes, Made(now), now)
  BY <1>3 DEF BatchOk, Row, RowCompsT
<1> HIDE DEF row
<1> QED BY <1>2, <1>5, <1>6, RowKeeps

LEMMA ConfirmKeeps ==
    ASSUME RecordInv, NEW d \in DOMAIN job.requests, Confirm(d)
    PROVE  RecordInv'
<1> DEFINE b == Confirmed(job, d, now)  k == AfterObservation(b, job.requests[d].msg, now)
           row == Row(k, b.comps, {d}, {d})  m == job.requests[d].msg
<1>1. Ready
  BY IsReady
<1>2. CommitWithRow(k, row)
  BY DEF Confirm
<1>3. BatchOk(b, 1, Made(now), now) /\ NodesStay(job, b.job, Made(clock))
  BY <1>1, ConfirmedOk DEF Ready
<1>4. m \in Messages
  <2>1. job.requests[d] \in RequestT(now)
    BY <1>1, RequestIs DEF Ready, RecordOk
  <2> QED BY <2>1 DEF RequestT
<1> HIDE DEF b, m
<1>5. RecordOk(AfterObservation(b, m, now), Made(now), now) /\ AfterObservation(b, m, now).nodes = b.job.nodes
  BY <1>1, <1>3, <1>4, AfterObservationOk DEF Ready
<1>6. RecordOk(k, Made(now), now) /\ k.nodes = b.job.nodes
  BY <1>5 DEF m
<1> HIDE DEF k
<1>7. Kept(k)
  BY <1>3, <1>6 DEF Kept, NodesStay
<1>8. RowCompsT(row.comps, DOMAIN k.nodes, Made(now), now)
  <2>1. CompsT(b.comps, 2, Made(now), now)
    BY <1>3 DEF BatchOk, CompsT
  <2> QED BY <2>1 DEF Row, RowCompsT
<1> HIDE DEF row
<1> QED BY <1>2, <1>7, <1>8, RowKeeps

LEMMA DismissKeeps ==
    ASSUME RecordInv, NEW d \in DOMAIN job.requests, Dismiss(d)
    PROVE  RecordInv'
<1> DEFINE k == Answered(job, d, "dismiss")  row == Row(k, <<>>, {}, {d})
<1>1. Ready
  BY IsReady
<1>2. CommitWithRow(k, row)
  BY DEF Dismiss
<1>3. RecordOk(k, Made(now), now) /\ k.nodes = job.nodes
  BY <1>1, AnsweredOk DEF Ready
<1> HIDE DEF k
<1>4. Kept(k)
  BY <1>3 DEF Kept, NodesStay
<1>5. RowCompsT(row.comps, DOMAIN k.nodes, Made(now), now)
  BY DEF Row, RowCompsT, CompsT
<1> HIDE DEF row
<1> QED BY <1>2, <1>4, <1>5, RowKeeps

LEMMA UndoStepKeeps ==
    ASSUME RecordInv, NEW n \in DOMAIN undoable, Undo(n)
    PROVE  RecordInv'
<1> DEFINE row == undoable[n]  k == Undone(n).job
<1>1. Ready
  BY IsReady
<1>2. CommitFinal(k)
  BY DEF Undo
<1>3. RowCompsT(row.comps, DOMAIN job.nodes, Made(clock), clock)
  BY DEF RecordInv, RowsOk
<1>4. Undone(n) = UndoneBatch(job, n, row.comps, row.asked, row.reopened, now) /\ Undone(n).ok
  BY DEF Undone, Undo
<1> DEFINE comps == row.comps  asked == row.asked  reopened == row.reopened
<1> HIDE DEF comps, asked, reopened
<1>5. UndoneBatch(job, n, comps, asked, reopened, now).ok /\ RowCompsT(comps, DOMAIN job.nodes, Made(clock), clock)
      /\ k = UndoneBatch(job, n, comps, asked, reopened, now).job
  BY <1>3, <1>4 DEF comps, asked, reopened
<1>6. UndoneOk(job, UndoneBatch(job, n, comps, asked, reopened, now).job, now)
  BY <1>1, <1>5, UndoneBatchOk DEF Ready
<1> HIDE DEF k
<1>7. Kept(k)
  BY <1>5, <1>6 DEF Kept, NodesStay, UndoneOk
<1> QED BY <1>2, <1>7, FinalKeeps

LEMMA RecordInvInit == Init => RecordInv
<1> SUFFICES ASSUME Init PROVE RecordInv
  OBVIOUS
<1>1. job = NewJob /\ clock = 0 /\ undoable = <<>>
  BY DEF Init
<1>2. 0 \in Times
  BY HistoryAssumption DEF Times
<1> DEFINE S == Made(0)  t == [x \in {Apply} |-> [status |-> "todo", at |-> 0]]
<1>3. Nobody \in StampT(S, 0) /\ NewJob.process \in ProcessT(S, 0)
  BY DEF Nobody, StampT, ProcessT, NewJob, Stages
<1>4. t \in TasksT(S, 0)
  <2>1. t \in [{Apply} -> TaskT(0)] /\ {Apply} \in SUBSET (S \cup {Apply})
    BY DEF TaskT, Statuses
  <2> HIDE DEF t
  <2> QED BY <2>1, IsPartial DEF TasksT
<1>5. <<>> \in EventsT(S, 0) /\ <<>> \in NodesT(S, 0) /\ <<>> \in ReceiptsT(S, 0) /\ <<>> \in RequestsT(S, 0)
  BY NoneIsPartial DEF EventsT, NodesT, ReceiptsT, RequestsT
<1>6. NewJob.tasks = t /\ NewJob.events = <<>> /\ NewJob.nodes = <<>>
  BY DEF NewJob
<1> HIDE DEF S, t
<1>7. NewJob \in Records(S, 0)
  BY <1>3, <1>4, <1>5, <1>6 DEF NewJob, Records, Stages
<1>8. Complete(NewJob)
  BY <1>6 DEF Complete, t
<1>9. RowsOk(<<>>, DOMAIN NewJob.nodes, S, 0)
  BY DEF RowsOk
<1> QED BY <1>1, <1>2, <1>7, <1>8, <1>9 DEF RecordInv, RecordOk, S

LEMMA RecordInvStep ==
    ASSUME RecordInv, [Next]_vars
    PROVE  RecordInv'
<1>1. CASE UNCHANGED vars
  BY <1>1 DEF vars, RecordInv
<1>2. CASE Next
  <2>1. CASE Submit
    BY <2>1, SubmitKeeps
  <2>2. CASE \E slot \in Slots : RecordEvent("interview", slot)
    BY <2>2, RecordEventKeeps, HistoryAssumption
  <2>3. CASE RecordEvent("offer", NoSlot)
    BY <2>3, RecordEventKeeps DEF NoSlot
  <2>4. CASE \E task \in DOMAIN job.tasks, status \in Marks : SetStatus(task, status)
    BY <2>4, SetStatusKeeps, HistoryAssumption
  <2>5. CASE \E e \in Interviews, cancelled \in BOOLEAN : Settle(e, cancelled)
    BY <2>5, SettleKeeps
  <2>6. CASE \E e \in Interviews, slot \in Slots : Reschedule(e, slot)
    BY <2>6, RescheduleKeeps, HistoryAssumption
  <2>7. CASE Abandon
    BY <2>7, AbandonKeeps
  <2>8. CASE \E e \in DOMAIN job.events : DeleteEvent(e)
    BY <2>8, DeleteEventKeeps
  <2>9. CASE \E e \in DOMAIN job.events, r \in DOMAIN job.receipts : Invalidate(e, r)
    BY <2>9, InvalidateKeeps
  <2>10. CASE \E m \in Messages : Observe(m)
    BY <2>10, ObserveKeeps
  <2>11. CASE \E d \in DOMAIN job.requests : Confirm(d) \/ Dismiss(d)
    BY <2>11, ConfirmKeeps, DismissKeeps
  <2>12. CASE \E n \in DOMAIN undoable : Undo(n)
    BY <2>12, UndoStepKeeps
  <2> QED BY <1>2, <2>1, <2>2, <2>3, <2>4, <2>5, <2>6, <2>7, <2>8, <2>9, <2>10, <2>11, <2>12 DEF Next
<1> QED BY <1>1, <1>2

LEMMA RecordInvTyped ==
    ASSUME RecordInv
    PROVE  TypeOK
<1> DEFINE S == Made(clock)
<1>1. clock \in Times /\ job \in Records(S, clock) /\ Complete(job) /\ S \subseteq Ids
      /\ 0 .. clock \subseteq Times
  BY MadeInIds, HistoryAssumption DEF RecordInv, RecordOk, Times
<1> HIDE DEF S
<1>2. job.owner \in Stamps /\ job.process \in [on : BOOLEAN, stage : Stages, owner : Stamps, last : Times]
  BY <1>1, RecordIs DEF StampT, ProcessT, Stamps
<1>3. job.stage \in Stages /\ job.part \in {"active", "abandoned"} /\ job.proofs \subseteq Ids
  BY <1>1, RecordIs
<1>4. ASSUME NEW t \in DOMAIN job.tasks
      PROVE  t \in Ids \cup {Apply} /\ job.tasks[t] \in [status : Statuses, at : Times]
  <2>1. job.tasks[t] \in TaskT(clock) /\ t \in S \cup {Apply}
    BY <1>1, TaskIs
  <2> QED BY <1>1, <2>1 DEF TaskT
<1>5. ASSUME NEW e \in DOMAIN job.events
      PROVE  /\ e \in Ids /\ job.events[e].type \in {"interview", "offer"}
             /\ job.events[e].type = "interview" => e \in DOMAIN job.tasks \cap DOMAIN job.nodes
  <2>1. job.events[e] \in EventT(S, clock) /\ e \in S
    BY <1>1, EventIs
  <2>2. job.events[e].type = "interview" => e \in DOMAIN job.tasks \cap DOMAIN job.nodes
    BY <1>1 DEF Complete
  <2> QED BY <1>1, <2>1, <2>2 DEF EventT
<1>6. ASSUME NEW e \in DOMAIN job.nodes
      PROVE  /\ Current(job, e).state \in {"scheduled", "in_progress", "completed", "cancelled"}
             /\ \A i \in 1 .. Len(job.nodes[e]) - 1 : job.nodes[e][i].state = "superseded"
  <2>1. job.nodes[e] \in ChainT(clock) /\ Current(job, e).state \in LiveStates
    BY <1>1, NodeIs
  <2> QED BY <2>1 DEF ChainT, LiveStates
<1>7. ASSUME NEW r \in DOMAIN job.receipts
      PROVE  /\ job.receipts[r].mutated \subseteq job.receipts[r].keys
             /\ GoneKeys(job.receipts[r]) \subseteq job.receipts[r].keys \cap Facts
  <2>1. job.receipts[r] \in ReceiptT(S, clock)
    BY <1>1, ReceiptIs
  <2> QED BY <2>1 DEF ReceiptT
<1>8. DOMAIN undoable \subseteq 1 .. clock
  BY DEF RecordInv, RowsOk
<1> QED BY <1>1, <1>2, <1>3, <1>4, <1>5, <1>6, <1>7, <1>8 DEF TypeOK

\* Type correctness of one job's record, whatever the messages report and however
\* long the history: every command, answer and undo leaves a record of the
\* declared shape, with every interview keeping its task and its occurrence
\* (domainCommands.ts, semanticIntake.ts).
THEOREM TypeCorrect == Spec => []TypeOK
<1>1. Init => RecordInv
  BY RecordInvInit
<1>2. RecordInv /\ [Next]_vars => RecordInv'
  BY RecordInvStep
<1>3. RecordInv => TypeOK
  BY RecordInvTyped
<1> QED BY <1>1, <1>2, <1>3, PTL DEF Spec

-----------------------------------------------------------------------------
(* Appointments are history                                                 *)

\* w keeps what must be kept of the versions v of an occurrence.
ChainKept(v, w) ==
    /\ \A i \in 1 .. Len(v) - 1 : w[i] = v[i]
    /\ IsOver(v[Len(v)]) /\ ~NeedsConfirmation(v[Len(v)]) => w = v
    /\ NeedsConfirmation(v[Len(v)]) /\ w # v => Len(w) > Len(v)

NodesKept(j, k) == \A e \in DOMAIN j.nodes : ChainKept(j.nodes[e], k.nodes[e])

LEMMA ChainSet ==
    ASSUME NEW n, NEW v \in ChainT(n), ~IsOver(v[Len(v)]), NEW node
    PROVE  ChainKept(v, [v EXCEPT ![Len(v)] = node])
<1> DEFINE w == [v EXCEPT ![Len(v)] = node]
<1>1. Len(v) \in Nat \ {0} /\ DOMAIN v = 1 .. Len(v)
  BY ChainIs
<1>2. \A i \in 1 .. Len(v) - 1 : w[i] = v[i]
  <2> DEFINE l == Len(v)
  <2>1. l \in Nat \ {0} /\ DOMAIN v = 1 .. l /\ w = [v EXCEPT ![l] = node]
    BY <1>1
  <2> HIDE DEF l, w
  <2>2. \A i \in 1 .. l - 1 : w[i] = v[i]
    BY <2>1
  <2> QED BY <2>2 DEF l
<1> HIDE DEF w
<1>3. ChainKept(v, w)
  BY <1>2 DEF ChainKept, IsOver, NeedsConfirmation
<1> QED BY <1>3 DEF w

LEMMA ChainTopped ==
    ASSUME NEW n, NEW v \in ChainT(n), ~IsOver(v[Len(v)]), NEW node \in NodeT(n)
    PROVE  ChainKept(v, Append(Front(v), node))
<1> DEFINE u == Front(v)  w == Append(u, node)
<1>1. v \in Seq(NodeT(n)) /\ Len(v) \in Nat \ {0}
  BY ChainIs
<1>2. u \in Seq(NodeT(n)) /\ Len(u) = Len(v) - 1 /\ \A i \in 1 .. Len(v) - 1 : u[i] = v[i]
  BY <1>1, FrontIs
<1> HIDE DEF u
<1>3. \A i \in 1 .. Len(u) : w[i] = u[i]
  BY <1>2, AppendIs
<1> HIDE DEF w
<1>4. \A i \in 1 .. Len(v) - 1 : w[i] = v[i]
  BY <1>2, <1>3
<1> QED BY <1>4 DEF ChainKept, IsOver, NeedsConfirmation, w, u

LEMMA ChainVersioned ==
    ASSUME NEW n, NEW v \in ChainT(n), MayBeSettled(v[Len(v)]), NEW node \in NodeT(n), NEW at \in 0 .. n
    PROVE  ChainKept(v, NewVersion(v, node, at))
<1> DEFINE last == [v[Len(v)] EXCEPT !.state = "superseded", !.at = at]
           u == [v EXCEPT ![Len(v)].state = "superseded", ![Len(v)].at = at]
           w == Append(u, node)
<1>1. v \in Seq(NodeT(n)) /\ Len(v) \in Nat \ {0} /\ v[Len(v)] \in NodeT(n)
  BY ChainIs
<1>2. last \in NodeT(n)
  BY <1>1 DEF NodeT
<1>3. u = [v EXCEPT ![Len(v)] = last]
  BY <1>1
<1>4. u \in Seq(NodeT(n)) /\ Len(u) = Len(v) /\ \A i \in 1 .. Len(v) - 1 : u[i] = v[i]
  <2> HIDE DEF u, last
  <2> QED BY <1>1, <1>2, <1>3
<1> HIDE DEF u, last
<1>5. Len(w) = Len(v) + 1 /\ \A i \in 1 .. Len(v) : w[i] = u[i]
  BY <1>4, AppendIs
<1>6. w = NewVersion(v, node, at)
  BY DEF NewVersion, u
<1> HIDE DEF w
<1>7. (\A i \in 1 .. Len(v) - 1 : w[i] = v[i]) /\ Len(w) > Len(v)
  BY <1>1, <1>4, <1>5
<1>8. IsOver(v[Len(v)]) => NeedsConfirmation(v[Len(v)])
  BY DEF MayBeSettled
<1> QED BY <1>6, <1>7, <1>8 DEF ChainKept

LEMMA NodesSameKept ==
    ASSUME NEW j, NEW k, \A e \in DOMAIN j.nodes : k.nodes[e] = j.nodes[e]
    PROVE  NodesKept(j, k)
  BY DEF NodesKept, ChainKept

\* A command that leaves all but one occurrence alone.
LEMMA OneNodeKept ==
    ASSUME NEW j, NEW e \in DOMAIN j.nodes, NEW v, ChainKept(j.nodes[e], v), NEW k,
           k.nodes = [j.nodes EXCEPT ![e] = v]
    PROVE  NodesKept(j, k)
  BY DEF NodesKept, ChainKept

\* A new occurrence leaves the others alone.
LEMMA NodesStayKept ==
    ASSUME RecordInv, NEW k, NodesStay(job, k, Made(clock))
    PROVE  NodesKept(job, k)
<1>1. \A e \in DOMAIN job.nodes : e \in Made(clock)
  BY NodeIs DEF RecordInv, RecordOk
<1> QED BY <1>1, NodesSameKept DEF NodesStay

LEMMA SettlingKept ==
    ASSUME NEW S, NEW n, NEW j \in Records(S, n), NEW e \in DOMAIN j.nodes, MayBeSettled(Current(j, e)),
           NEW cancelled \in BOOLEAN, NEW at \in 0 .. n
    PROVE  NodesKept(j, AfterSettling(j, e, cancelled, at))
<1> DEFINE node == [Current(j, e) EXCEPT !.state = IF cancelled THEN "cancelled" ELSE "completed",
                                         !.by = "user", !.at = at]
           v == IF NeedsConfirmation(Current(j, e)) THEN NewVersion(j.nodes[e], node, at)
                ELSE Append(Front(j.nodes[e]), node)
           k == AfterSettling(j, e, cancelled, at)
<1>1. j.nodes[e] \in ChainT(n) /\ Current(j, e) = j.nodes[e][Len(j.nodes[e])] /\ Current(j, e) \in NodeT(n)
  BY NodeIs
<1>2. node \in NodeT(n)
  BY <1>1 DEF NodeT, LiveStates
<1>3. k.nodes = [j.nodes EXCEPT ![e] = v]
  BY DEF AfterSettling, Records
<1> HIDE DEF node, k
<1>4. ChainKept(j.nodes[e], v)
  <2>1. CASE NeedsConfirmation(Current(j, e))
    BY <1>1, <1>2, <2>1, ChainVersioned
  <2>2. CASE ~NeedsConfirmation(Current(j, e))
    BY <1>1, <1>2, <2>2, ChainTopped DEF MayBeSettled
  <2> QED BY <2>1, <2>2
<1> HIDE DEF v
<1>5. NodesKept(j, k)
  BY <1>3, <1>4, OneNodeKept
<1> QED BY <1>5 DEF k

LEMMA RescheduleKept ==
    ASSUME NEW S, NEW n, NEW j \in Records(S, n), NEW e \in DOMAIN j.nodes, MayBeSettled(Current(j, e)),
           NEW slot \in Nat, NEW at \in 0 .. n
    PROVE  NodesKept(j, AfterReschedule(j, e, slot, at))
<1> DEFINE node == [state |-> "scheduled", slot |-> slot, by |-> "none", at |-> at]
           v == NewVersion(j.nodes[e], node, at)
           k == AfterReschedule(j, e, slot, at)
<1>1. j.nodes[e] \in ChainT(n) /\ Current(j, e) = j.nodes[e][Len(j.nodes[e])]
  BY NodeIs
<1>2. node \in NodeT(n)
  BY DEF NodeT, LiveStates
<1>3. k.nodes = [j.nodes EXCEPT ![e] = v]
  BY DEF AfterReschedule, Records
<1> HIDE DEF node, k
<1>4. ChainKept(j.nodes[e], v)
  BY <1>1, <1>2, ChainVersioned
<1> HIDE DEF v
<1>5. NodesKept(j, k)
  BY <1>3, <1>4, OneNodeKept
<1> QED BY <1>5 DEF k

LEMMA StatusKept ==
    ASSUME NEW S, NEW n, NEW j \in Records(S, n), NEW k, NEW t, NEW status, NEW at,
           StatusSet(j, k, t, status, at)
    PROVE  NodesKept(j, k)
<1>1. CASE k.nodes = j.nodes
  BY <1>1, NodesSameKept
<1>2. CASE /\ t \in DOMAIN j.nodes /\ ~IsOver(Current(j, t))
           /\ \E v : k.nodes[t] = [j.nodes[t] EXCEPT ![Len(j.nodes[t])] = v]
  <2>1. PICK v : k.nodes[t] = [j.nodes[t] EXCEPT ![Len(j.nodes[t])] = v]
    BY <1>2
  <2>2. j.nodes[t] \in ChainT(n) /\ ~IsOver(j.nodes[t][Len(j.nodes[t])])
    BY <1>2, NodeIs
  <2>3. ChainKept(j.nodes[t], k.nodes[t])
    <3> DEFINE u == j.nodes[t]
    <3>1. u \in ChainT(n) /\ ~IsOver(u[Len(u)]) /\ k.nodes[t] = [u EXCEPT ![Len(u)] = v]
      BY <2>1, <2>2
    <3> HIDE DEF u
    <3>2. ChainKept(u, [u EXCEPT ![Len(u)] = v])
      BY <3>1, ChainSet
    <3>3. ChainKept(u, k.nodes[t])
      BY <3>1, <3>2
    <3> QED BY <3>3 DEF u
  <2>4. \A e \in DOMAIN j.nodes : e # t => k.nodes[e] = j.nodes[e]
    BY DEF StatusSet
  <2> QED BY <2>3, <2>4 DEF NodesKept, ChainKept
<1> QED BY <1>1, <1>2 DEF StatusSet

LEMMA DeletionKept ==
    ASSUME NEW S, NEW n, NEW j \in Records(S, n), NEW e, NEW at \in 0 .. n
    PROVE  NodesKept(j, AfterDeletion(j, e, at))
<1> DEFINE k == AfterDeletion(j, e, at)
<1>1. k.nodes = CancelledNodes(j, e, at)
  BY DEF AfterDeletion, WithoutEvent, Records
<1> HIDE DEF k
<1>2. CASE e \notin DOMAIN j.nodes \/ IsOver(Current(j, e))
  <2>1. k.nodes = j.nodes
    BY <1>1, <1>2 DEF CancelledNodes
  <2> QED BY <2>1, NodesSameKept DEF k
<1>3. CASE e \in DOMAIN j.nodes /\ ~IsOver(Current(j, e))
  <2> DEFINE node == [Current(j, e) EXCEPT !.state = "cancelled", !.at = at]
             v == [j.nodes[e] EXCEPT ![Len(j.nodes[e])] = node]
  <2>1. j.nodes[e] \in ChainT(n) /\ ~IsOver(j.nodes[e][Len(j.nodes[e])])
        /\ DOMAIN j.nodes[e] = 1 .. Len(j.nodes[e]) /\ Len(j.nodes[e]) \in Nat \ {0}
        /\ Current(j, e) = j.nodes[e][Len(j.nodes[e])]
    BY <1>3, NodeIs
  <2>2. k.nodes = [j.nodes EXCEPT ![e] = v]
    <3>1. DOMAIN j.nodes[e] = 1 .. Len(j.nodes[e]) /\ Len(j.nodes[e]) \in Nat \ {0}
          /\ Current(j, e) = j.nodes[e][Len(j.nodes[e])]
      BY <1>3, NodeIs
    <3>2. CancelledNodes(j, e, at) = [j.nodes EXCEPT ![e] = v]
      BY <1>3, <3>1 DEF CancelledNodes
    <3> QED BY <1>1, <3>2
  <2>3. ChainKept(j.nodes[e], v)
    <3> HIDE DEF node
    <3> QED BY <2>1, ChainSet
  <2> HIDE DEF v
  <2>4. NodesKept(j, k)
    BY <1>3, <2>2, <2>3, OneNodeKept
  <2> QED BY <2>4 DEF k
<1> QED BY <1>2, <1>3

\* Every command but an undo.
Undoing == \E n \in DOMAIN undoable : Undo(n)

LEMMA HistoryStep ==
    ASSUME RecordInv, [Next]_vars
    PROVE  Undoing \/ NodesKept(job, job')
<1>1. Ready
  BY IsReady
<1>2. /\ clock \in Nat /\ now \in Nat /\ now \in 0 .. now /\ job \in Records(Made(now), now)
      /\ job \in Records(Made(clock), clock) /\ RecordOk(job, Made(clock), clock)
  BY <1>1 DEF Ready, RecordOk
<1>3. CASE UNCHANGED vars
  BY <1>3, NodesSameKept DEF vars
<1>4. CASE Submit
  <2> DEFINE id == Id(now, 1)  k == AfterSubmission(job, id, now)
  <2>1. k.nodes = job.nodes
    BY <1>2, AfterSubmissionIs
  <2>2. job' = k
    BY <1>4 DEF Submit, CommitWith, CommitWithRow, Commit
  <2> HIDE DEF k
  <2> QED BY <2>1, <2>2, NodesSameKept
<1>5. ASSUME NEW type \in {"interview", "offer"}, NEW slot, RecordEvent(type, slot)
      PROVE  NodesKept(job, job')
  <2> DEFINE id == Id(now, 1)  k == AfterEvent(job, id, type, slot, now, now)
  <2>1. EventAdded(job, k, id)
    BY <1>2, AfterEventIs
  <2>2. job' = k
    BY <1>5 DEF RecordEvent, CommitWith, CommitWithRow, Commit
  <2>3. id \notin Made(clock)
    BY <1>1 DEF Ready
  <2> HIDE DEF k, id
  <2>4. \A e \in DOMAIN job.nodes : e \in Made(clock)
    BY <1>2, NodeIs
  <2> QED BY <2>1, <2>2, <2>3, <2>4, NodesSameKept DEF EventAdded
<1>6. ASSUME NEW task \in DOMAIN job.tasks, NEW status, SetStatus(task, status)
      PROVE  NodesKept(job, job')
  <2> DEFINE k == AfterStatus(job, task, status, now)
  <2>1. StatusSet(job, k, task, status, now)
    BY <1>2, AfterStatusIs
  <2>2. job' = k
    BY <1>6 DEF SetStatus, CommitWith, CommitWithRow, Commit
  <2> HIDE DEF k
  <2> QED BY <1>2, <2>1, <2>2, StatusKept
<1>7. ASSUME NEW e \in Interviews, NEW cancelled \in BOOLEAN, Settle(e, cancelled)
      PROVE  NodesKept(job, job')
  <2>1. e \in DOMAIN job.nodes /\ MayBeSettled(Current(job, e))
    BY <1>7 DEF Interviews, Settle
  <2>2. NodesKept(job, AfterSettling(job, e, cancelled, now))
    BY <1>2, <2>1, SettlingKept
  <2>3. job' = AfterSettling(job, e, cancelled, now)
    BY <1>7 DEF Settle, CommitWith, CommitWithRow, Commit
  <2> QED BY <2>2, <2>3
<1>8. ASSUME NEW e \in Interviews, NEW slot \in Nat, Reschedule(e, slot)
      PROVE  NodesKept(job, job')
  <2>1. e \in DOMAIN job.nodes /\ MayBeSettled(Current(job, e))
    BY <1>8 DEF Interviews, Reschedule
  <2>2. NodesKept(job, AfterReschedule(job, e, slot, now))
    BY <1>2, <2>1, RescheduleKept
  <2>3. job' = AfterReschedule(job, e, slot, now)
    BY <1>8 DEF Reschedule, CommitWith, CommitWithRow, Commit
  <2> QED BY <2>2, <2>3
<1>9. CASE Abandon
  <2>1. job' = AfterAbandon(job, now)
    BY <1>9 DEF Abandon, CommitWith, CommitWithRow, Commit
  <2>2. job'.nodes = job.nodes
    BY <1>2, <2>1 DEF AfterAbandon, Records
  <2> QED BY <2>2, NodesSameKept
<1>10. ASSUME NEW e \in DOMAIN job.events, DeleteEvent(e)
       PROVE  NodesKept(job, job')
  <2>1. NodesKept(job, AfterDeletion(job, e, now))
    BY <1>2, DeletionKept
  <2>2. job' = AfterDeletion(job, e, now)
    BY <1>10 DEF DeleteEvent, CommitWith, CommitWithRow, Commit
  <2> QED BY <2>1, <2>2
<1>11. ASSUME NEW e \in DOMAIN job.events, NEW r \in DOMAIN job.receipts, Invalidate(e, r)
       PROVE  NodesKept(job, job')
  <2> DEFINE S == Made(now)  n == now
  <2> HIDE DEF S, n
  <2>1. S \in SUBSET Nat /\ n \in Nat /\ RecordOk(job, S, n)
    BY <1>1 DEF Ready, S, n
  <2>2. AfterCorrection(job, r, e, n).nodes = job.nodes
    BY <2>1, AfterCorrectionOk
  <2>3. job' = AfterCorrection(job, r, e, n)
    BY <1>11 DEF Invalidate, CommitFinal, Commit, n
  <2> QED BY <2>2, <2>3, NodesSameKept
<1>12. ASSUME NEW m \in Messages, Observe(m)
       PROVE  NodesKept(job, job')
  <2> DEFINE b == Taken(job, m, now)  k == AfterObservation(b, m, now)
  <2>1. job' = k /\ DateOf[m] <= now
    BY <1>12 DEF Observe, CommitWithRow, Commit
  <2>2. BatchOk(b, 2, Made(now), now) /\ Follows(Batch(job), b, Made(clock))
    BY <1>1, <2>1, TakenOk DEF Ready
  <2> HIDE DEF b
  <2>3. RecordOk(k, Made(now), now) /\ k.nodes = b.job.nodes
    BY <1>1, <2>2, AfterObservationOk DEF Ready
  <2> HIDE DEF k
  <2>4. NodesStay(job, k, Made(clock))
    BY <2>2, <2>3 DEF Follows, NodesStay, Batch
  <2> QED BY <2>1, <2>4, NodesStayKept
<1>13. ASSUME NEW d \in DOMAIN job.requests, Confirm(d)
       PROVE  NodesKept(job, job')
  <2> DEFINE b == Confirmed(job, d, now)  m == job.requests[d].msg  k == AfterObservation(b, m, now)
  <2>1. job' = k
    BY <1>13 DEF Confirm, CommitWithRow, Commit
  <2>2. BatchOk(b, 1, Made(now), now) /\ NodesStay(job, b.job, Made(clock))
    BY <1>1, ConfirmedOk DEF Ready
  <2>3. m \in Messages
    <3>1. job.requests[d] \in RequestT(now)
      BY <1>1, RequestIs DEF Ready, RecordOk
    <3> QED BY <3>1 DEF RequestT
  <2> HIDE DEF b, m
  <2>4. k.nodes = b.job.nodes
    BY <1>1, <2>2, <2>3, AfterObservationOk DEF Ready
  <2> HIDE DEF k
  <2>5. NodesStay(job, k, Made(clock))
    BY <2>2, <2>4 DEF NodesStay
  <2> QED BY <2>1, <2>5, NodesStayKept
<1>14. ASSUME NEW d \in DOMAIN job.requests, Dismiss(d)
       PROVE  NodesKept(job, job')
  <2> DEFINE k == Answered(job, d, "dismiss")
  <2>1. job' = k
    BY <1>14 DEF Dismiss, CommitWithRow, Commit
  <2>2. k.nodes = job.nodes
    BY <1>2, AnsweredOk
  <2> HIDE DEF k
  <2> QED BY <2>1, <2>2, NodesSameKept
<1>15. CASE Next
  BY <1>4, <1>5, <1>6, <1>7, <1>8, <1>9, <1>10, <1>11, <1>12, <1>13, <1>14, <1>15, HistoryAssumption
     DEF Next, Undoing
<1> QED BY <1>3, <1>15

LEMMA HistoryIs ==
    ASSUME RecordInv, NodesKept(job, job')
    PROVE  \A e \in DOMAIN job.nodes :
             /\ \A i \in 1 .. Len(job.nodes[e]) - 1 : job'.nodes[e][i] = job.nodes[e][i]
             /\ IsOver(Current(job, e)) /\ ~NeedsConfirmation(Current(job, e)) =>
                   job'.nodes[e] = job.nodes[e]
             /\ NeedsConfirmation(Current(job, e)) /\ job'.nodes[e] # job.nodes[e] =>
                   Len(job'.nodes[e]) > Len(job.nodes[e])
<1>1. \A e \in DOMAIN job.nodes : Current(job, e) = job.nodes[e][Len(job.nodes[e])]
  BY NodeIs DEF RecordInv, RecordOk
<1> QED BY <1>1 DEF NodesKept, ChainKept

\* No command rewrites a finished appointment or an older version of any: only
\* an undo does, for any history (scheduleNodes.ts, "syncScheduleNodeForActionStatus";
\* domainCommands.ts, the settling and rescheduling of an occurrence).
THEOREM HistoryKept == Spec => HistoryIsKept
<1>1. Init => RecordInv
  BY RecordInvInit
<1>2. RecordInv /\ [Next]_vars => RecordInv'
  BY RecordInvStep
<1>3. RecordInv /\ [Next]_vars =>
        [\/ \E n \in DOMAIN undoable : Undo(n)
         \/ \A e \in DOMAIN job.nodes :
             /\ \A i \in 1 .. Len(job.nodes[e]) - 1 : job'.nodes[e][i] = job.nodes[e][i]
             /\ IsOver(Current(job, e)) /\ ~NeedsConfirmation(Current(job, e)) =>
                   job'.nodes[e] = job.nodes[e]
             /\ NeedsConfirmation(Current(job, e)) /\ job'.nodes[e] # job.nodes[e] =>
                   Len(job'.nodes[e]) > Len(job.nodes[e])]_vars
  BY HistoryStep, HistoryIs DEF Undoing
<1> QED BY <1>1, <1>2, <1>3, PTL DEF Spec, HistoryIsKept

-----------------------------------------------------------------------------
(* What the receipts claim, and the rows of the ledger that rest on it.     *)

IdsOf(n) == {Id(n, 1), Id(n, 2)}
Deletes(c) == c.op = "delete_process_event"
Unproves(c) == c.op = "restore_application_submission"
Restores(c) == c.op = "restore_deleted_process_event"

\* What a receipt is bound to was made by its own command, one event a fact;
\* what it lost, it lost later.
ReceiptRests(j, r) ==
    LET rec == j.receipts[r]
    IN  /\ \A key \in rec.mutated :
              /\ rec.bound[key] \subseteq IdsOf(r)
              /\ \A d, e \in rec.bound[key] : d = e
        /\ \A g \in rec.gone : r <= g.after
ReceiptsRest(j) == \A r \in DOMAIN j.receipts : ReceiptRests(j, r)

\* The receipt that recorded an event which is live stands for its fact.
LiveIsClaimed(j) ==
    \A r \in DOMAIN j.receipts : \A key \in j.receipts[r].mutated :
        \A e \in j.receipts[r].bound[key] : e \in LiveEvents(j) => Stands(j, r, key)

\* The receipts of a source record that stand for a fact, with the one it is
\* still owed, are no more than the times it was confirmed, and one.
Standing(j, m, key) == {r \in ReceiptsOf(j, m) : Stands(j, r, key)}
Owed(j, m, key) == IF key \in Pending(j, m) THEN 1 ELSE 0
ConfirmsIn(j, m, key) ==
    {d \in DOMAIN j.requests :
        /\ j.requests[d].msg = m /\ j.requests[d].fact = key
        /\ <<d, "confirm">> \in j.answers}
Within(standing, owed, confirms) == Cardinality(standing) + owed <= 1 + Cardinality(confirms)
ClaimWithin(j, m, key) == Within(Standing(j, m, key), Owed(j, m, key), ConfirmsIn(j, m, key))
ClaimedOnce(j) == \A m \in Messages : \A key \in FactsIn(m) : ClaimWithin(j, m, key)

ClaimsInv(j) == ReceiptsRest(j) /\ LiveIsClaimed(j) /\ ClaimedOnce(j)

\* A row that can still be undone: the event its undo deletes is there, nothing
\* was lost of its receipt, and every event the receipt is bound to goes with
\* it; the event its undo restores is not there, and its receipts still stand.
EventRow(j, row) ==
    \A c \in ToSet(row.comps) : Deletes(c) =>
        <<"event", c.id>> \in row.objects /\ c.id \in DOMAIN j.events

ReceiptRow(j, n, row) ==
    n \in DOMAIN j.receipts =>
        LET rec == j.receipts[n]
        IN  /\ <<"receipt", n>> \in row.objects
            /\ rec.gone = {} /\ (rec.keys # {} => rec.status = "committed")
            /\ \A key \in rec.mutated : \A e \in rec.bound[key] :
                  \E c \in ToSet(row.comps) : Deletes(c) /\ c.id = e

DeletionRow(j, row) ==
    \A c \in ToSet(row.comps) : Restores(c) =>
        /\ <<"event", c.id>> \in row.objects /\ c.id \notin DOMAIN j.events
        /\ \A r \in DOMAIN j.receipts : \A key \in j.receipts[r].mutated :
              c.id \in j.receipts[r].bound[key] => Stands(j, r, key)

RowClaims(j, n, row) == EventRow(j, row) /\ ReceiptRow(j, n, row) /\ DeletionRow(j, row)

OnceInv == ClaimsInv(job) /\ \A n \in DOMAIN undoable : RowClaims(job, n, undoable[n])

-----------------------------------------------------------------------------
(* Counting claims *)

LEMMA WithinLess ==
    ASSUME NEW s, IsFiniteSet(s), NEW c, NEW u, IsFiniteSet(u), c \subseteq u, NEW v, NEW w,
           v \in {0, 1}, w \in {0, 1}, NEW t, t \subseteq s, w <= v \/ \E q \in s : q \notin t, Within(s, v, c)
    PROVE  Within(t, w, u)
<1>1. /\ Cardinality(c) \in Nat /\ Cardinality(u) \in Nat /\ Cardinality(c) <= Cardinality(u)
  BY FS_Subset, FS_CardinalityType
<1>2. /\ Cardinality(s) \in Nat /\ Cardinality(t) \in Nat /\ Cardinality(t) <= Cardinality(s)
      /\ Cardinality(t) = Cardinality(s) => t = s
  BY FS_Subset, FS_CardinalityType
<1> QED BY <1>1, <1>2 DEF Within

LEMMA WithinPaid ==
    ASSUME NEW s, IsFiniteSet(s), NEW c, NEW u, IsFiniteSet(u), c \subseteq u,
           NEW x, Within(s, 1, c)
    PROVE  Within(s \cup {x}, 0, u)
<1>1. /\ Cardinality(c) \in Nat /\ Cardinality(u) \in Nat /\ Cardinality(c) <= Cardinality(u)
  BY FS_Subset, FS_CardinalityType
<1>2. /\ Cardinality(s) \in Nat /\ Cardinality(s \cup {x}) \in {Cardinality(s), Cardinality(s) + 1}
  BY FS_AddElement, FS_CardinalityType
<1> QED BY <1>1, <1>2 DEF Within

LEMMA WithinFirst ==
    ASSUME NEW u, IsFiniteSet(u), NEW x
    PROVE  Within({x}, 0, u)
<1>1. Cardinality(u) \in Nat /\ Cardinality({x}) = 1
  BY FS_Singleton, FS_CardinalityType
<1> QED BY <1>1 DEF Within

LEMMA WithinAsked ==
    ASSUME NEW s, IsFiniteSet(s), NEW c, NEW u, IsFiniteSet(u), c \subseteq u, c # u,
           NEW v, NEW w, v \in {0, 1}, w \in {0, 1}, w <= v, NEW x, Within(s, v, c)
    PROVE  Within(s \cup {x}, w, u)
<1>1. /\ Cardinality(c) \in Nat /\ Cardinality(u) \in Nat /\ Cardinality(c) <= Cardinality(u)
      /\ Cardinality(c) # Cardinality(u)
  BY FS_Subset, FS_CardinalityType
<1>2. /\ Cardinality(s) \in Nat /\ Cardinality(s \cup {x}) \in {Cardinality(s), Cardinality(s) + 1}
  BY FS_AddElement, FS_CardinalityType
<1> QED BY <1>1, <1>2 DEF Within

LEMMA ClaimsFinite ==
    ASSUME NEW n \in Nat, NEW j, RecordOk(j, Made(n), n), NEW m, NEW key
    PROVE  /\ IsFiniteSet(Standing(j, m, key)) /\ Standing(j, m, key) \subseteq DOMAIN j.receipts
           /\ IsFiniteSet(ConfirmsIn(j, m, key)) /\ ConfirmsIn(j, m, key) \subseteq DOMAIN j.requests
           /\ Owed(j, m, key) \in {0, 1}
<1>1. IsFiniteSet(Made(n)) /\ IsFiniteSet(1 .. n)
  BY MadeIsFinite, FS_Interval
<1>2. \A r \in DOMAIN j.receipts : r \in 1 .. n
  BY ReceiptIs DEF RecordOk
<1>3. \A d \in DOMAIN j.requests : d \in Made(n)
  BY RequestIs DEF RecordOk
<1>4. Standing(j, m, key) \subseteq DOMAIN j.receipts /\ ConfirmsIn(j, m, key) \subseteq DOMAIN j.requests
  BY DEF Standing, ConfirmsIn, ReceiptsOf
<1>5. Standing(j, m, key) \in SUBSET (1 .. n) /\ ConfirmsIn(j, m, key) \in SUBSET Made(n)
  BY <1>2, <1>3, <1>4
<1>6. Owed(j, m, key) \in {0, 1}
  BY DEF Owed
<1> QED BY <1>1, <1>4, <1>5, <1>6, FS_Subset

LEMMA RecordedIsBounded ==
    ASSUME RecordInv, ClaimsInv(job), NEW m \in Messages, NEW key \in FactsIn(m)
    PROVE  Cardinality(Recorded(m, key)) <= 1 + Cardinality(Confirms(m, key))
<1> DEFINE T == Recorded(m, key)  s == Standing(job, m, key)  c == ConfirmsIn(job, m, key)
           f == [e \in T |-> CHOOSE r \in s : key \in job.receipts[r].mutated /\ e \in job.receipts[r].bound[key]]
<1>1. Confirms(m, key) = c
  BY DEF Confirms, ConfirmsIn
<1>2. IsFiniteSet(s) /\ IsFiniteSet(c) /\ Owed(job, m, key) \in {0, 1}
  BY IsReady, ClaimsFinite DEF Ready
<1>3. Within(s, Owed(job, m, key), c)
  BY DEF ClaimsInv, ClaimedOnce, ClaimWithin
<1>4. \A e \in T : \E r \in s : key \in job.receipts[r].mutated /\ e \in job.receipts[r].bound[key]
  BY DEF Recorded, ClaimsInv, LiveIsClaimed, Standing, ReceiptsOf
<1>5. \A r \in s : key \in job.receipts[r].mutated => \A d, e \in job.receipts[r].bound[key] : d = e
  BY DEF ClaimsInv, ReceiptsRest, ReceiptRests, Standing, ReceiptsOf
<1> HIDE DEF T, s, c
<1>6. \A e \in T : /\ f[e] \in s /\ key \in job.receipts[f[e]].mutated
                   /\ e \in job.receipts[f[e]].bound[key]
  BY <1>4
<1>7. f \in Injection(T, s)
  <2>1. f \in [T -> s]
    BY <1>6
  <2> HIDE DEF f
  <2>2. \A d, e \in T : f[d] = f[e] => d = e
    BY <1>5, <1>6
  <2> QED BY <2>1, <2>2 DEF Injection, IsInjective
<1>8. Cardinality(T) <= Cardinality(s) /\ IsFiniteSet(T)
  BY <1>2, <1>7, FS_Injection
<1>9. Cardinality(T) \in Nat /\ Cardinality(s) \in Nat /\ Cardinality(c) \in Nat
  BY <1>2, <1>8, FS_CardinalityType
<1>10. Cardinality(T) <= 1 + Cardinality(c)
  BY <1>2, <1>3, <1>8, <1>9 DEF Within
<1> QED BY <1>1, <1>10 DEF T

\* Nothing confirmed, nothing beside the one.
LEMMA RecordedIsOnce ==
    ASSUME RecordInv, ClaimsInv(job)
    PROVE  RecordedOnce
<1> SUFFICES ASSUME NEW m \in Messages, NEW key \in FactsIn(m), Confirms(m, key) = {}
             PROVE  Cardinality(Recorded(m, key)) <= 1
  BY DEF RecordedOnce
<1>1. Cardinality(Confirms(m, key)) = 0
  BY FS_EmptySet
<1>2. Cardinality(Recorded(m, key)) <= 1 + Cardinality(Confirms(m, key))
  BY RecordedIsBounded
<1>3. Cardinality(Recorded(m, key)) <= 1 + 0
  BY <1>1, <1>2
<1> QED BY <1>3

-----------------------------------------------------------------------------
(* What a compensation makes of the events and of the proofs of submission  *)

SameEvent(a, b) == a.type = b.type /\ a.slot = b.slot /\ a.dead = b.dead

CompDone(c, j, l) ==
    /\ DOMAIN l.events = IF Deletes(c) THEN DOMAIN j.events \ {c.id}
                         ELSE IF Restores(c) THEN DOMAIN j.events \cup {c.id} ELSE DOMAIN j.events
    /\ \A e \in DOMAIN j.events : e \in DOMAIN l.events => SameEvent(j.events[e], l.events[e])
    /\ l.proofs = IF Unproves(c) THEN j.proofs \ {c.id} ELSE j.proofs
    /\ l.receipts = j.receipts /\ l.requests = j.requests /\ l.answers = j.answers

LEMMA OpsDiffer ==
    ASSUME NEW c
    PROVE  /\ Deletes(c) => ~Restores(c) /\ ~Unproves(c)
           /\ Restores(c) => ~Unproves(c)
  BY DEF Deletes, Restores, Unproves

\* Compensations of neither an event nor a submission leave both alone.
LEMMA NothingDone ==
    ASSUME NEW c, ~Deletes(c), ~Restores(c), ~Unproves(c), NEW j, NEW l,
           l.events = j.events, l.proofs = j.proofs,
           l.receipts = j.receipts, l.requests = j.requests, l.answers = j.answers
    PROVE  CompDone(c, j, l)
  BY DEF CompDone, SameEvent

LEMMA UndoneEventDone ==
    ASSUME NEW S, NEW n, NEW j \in Records(S, n), NEW c, EventUndoT(c, S, n), NEW at
    PROVE  CompDone(c, j, UndoneEvent(j, c, at).job)
<1> DEFINE l == WithoutEvent(j, c.id)
           k == UndoneEvent(j, c, at).job
           x == Restrict(j.events, DOMAIN j.events \ {c.id})
           ofJob == j.owner.id = c.id
           ofProcess == j.process.on /\ j.process.owner.id = c.id
           w == IF c.id \notin DOMAIN l.nodes THEN l.nodes
                ELSE [l.nodes EXCEPT ![c.id][Len(j.nodes[c.id])].state = "cancelled",
                                     ![c.id][Len(j.nodes[c.id])].at = at]
           stage == IF ofJob THEN c.before.stage ELSE l.stage
           owner == IF ofJob THEN c.before.owner ELSE l.owner
           process == IF ofProcess THEN c.before.process ELSE l.process
<1>1. /\ l.events = x /\ l.proofs = j.proofs /\ l.receipts = j.receipts
      /\ l.requests = j.requests /\ l.answers = j.answers
      /\ DOMAIN l = {"stage", "part", "owner", "proofs", "process", "tasks", "events", "nodes",
                     "receipts", "requests", "answers"}
  BY DEF WithoutEvent, Records
<1>2. k = [l EXCEPT !.stage = stage, !.owner = owner, !.process = process, !.nodes = w]
  BY DEF UndoneEvent, Restored, WithoutEvent, Records
<1> HIDE DEF l, k, w, stage, owner, process
<1>3. k.events = x /\ k.proofs = j.proofs /\ k.receipts = j.receipts
      /\ k.requests = j.requests /\ k.answers = j.answers
  BY <1>1, <1>2
<1>4. DOMAIN x = DOMAIN j.events \ {c.id} /\ \A e \in DOMAIN x : x[e] = j.events[e]
  BY DEF Restrict
<1> HIDE DEF x
<1>5. CompDone(c, j, k)
  BY <1>3, <1>4 DEF CompDone, SameEvent, EventUndoT, Deletes, Unproves
<1> QED BY <1>5 DEF k

LEMMA UndoneSubmissionDone ==
    ASSUME NEW S, NEW n, NEW j \in Records(S, n), NEW c, SubmissionUndoT(c, S, n),
           UndoneSubmission(j, c).ok
    PROVE  CompDone(c, j, UndoneSubmission(j, c).job)
<1> DEFINE others == j.proofs \ {c.id}
           k == [j EXCEPT !.proofs = others]
           l == UndoneSubmission(j, c).job
<1>1. l.events = j.events /\ l.proofs = others /\ l.receipts = j.receipts
      /\ l.requests = j.requests /\ l.answers = j.answers
  <2>1. /\ k.events = j.events /\ k.proofs = others /\ k.receipts = j.receipts
        /\ k.requests = j.requests /\ k.answers = j.answers
        /\ DOMAIN k = {"stage", "part", "owner", "proofs", "process", "tasks", "events", "nodes",
                     "receipts", "requests", "answers"}
    BY DEF Records
  <2>2. l = k \/ l = [k EXCEPT !.stage = c.stage,
                         !.process.stage = IF j.process.on THEN c.stage ELSE @,
                         !.tasks[Apply] = c.before]
    BY DEF UndoneSubmission, Restored, Refused
  <2> HIDE DEF k, l, others
  <2> QED BY <2>1, <2>2
<1> HIDE DEF l
<1>2. CompDone(c, j, l)
  BY <1>1 DEF CompDone, SameEvent, SubmissionUndoT, Deletes, Unproves, Restores
<1> QED BY <1>2 DEF l

LEMMA UndoneDeletionDone ==
    ASSUME NEW S, NEW n, NEW j \in Records(S, n), NEW c, DeletionUndoT(c, S, n), NEW at,
           UndoneDeletion(j, c, at).ok
    PROVE  CompDone(c, j, UndoneDeletion(j, c, at).job)
<1> DEFINE k == UndoneDeletion(j, c, at).job
           y == [c.event EXCEPT !.pos = Id(at, 1)]
           x == Put(j.events, c.id, y)
<1>1. k.events = x /\ k.proofs = j.proofs /\ k.receipts = j.receipts
      /\ k.requests = j.requests /\ k.answers = j.answers
  BY DEF UndoneDeletion, Restored, Records
<1>2. c.id \notin DOMAIN j.events
  BY DEF UndoneDeletion, Restored
<1> HIDE DEF k, y
<1>3. DOMAIN x = DOMAIN j.events \cup {c.id} /\ \A e \in DOMAIN j.events : x[e] = j.events[e]
  BY <1>2 DEF Put
<1> HIDE DEF x
<1>4. CompDone(c, j, k)
  BY <1>1, <1>3 DEF CompDone, SameEvent, DeletionUndoT, Deletes, Unproves, Restores
<1> QED BY <1>4 DEF k

LEMMA UndoneVersionDone ==
    ASSUME NEW S, NEW n, NEW j \in Records(S, n), NEW c, VersionUndoT(c, S, n),
           UndoneVersion(j, c).ok
    PROVE  CompDone(c, j, UndoneVersion(j, c).job)
<1> DEFINE k == UndoneVersion(j, c).job
<1>1. c.id \in DOMAIN j.events /\ \E a, b, d, p : k = [j EXCEPT !.nodes = a, !.tasks = b, !.events[c.id].due = d, !.process = p]
  <2> DEFINE mine == Owners(j, c.id)
             Back(part) == PutBack(mine[part], c.before[part], c.after[part])
             v == Append(Front(Front(j.nodes[c.id])), c.previous)
  <2>1. c.id \in DOMAIN j.events /\ Current(j, c.id) = c.expected
    BY DEF UndoneVersion, Restored, Refused
  <2>2. k = [j EXCEPT !.nodes[c.id] = v, !.tasks[c.id] = Back("task"),
                      !.events[c.id].due = Back("due").due, !.process = Back("process")]
    BY <2>1 DEF UndoneVersion, Restored
  <2> HIDE DEF k, mine, Back, v
  <2>3. k = [j EXCEPT !.nodes = [j.nodes EXCEPT ![c.id] = v], !.tasks = [j.tasks EXCEPT ![c.id] = Back("task")],
                      !.events[c.id].due = Back("due").due, !.process = Back("process")]
    BY <2>2 DEF Records
  <2> QED BY <2>1, <2>3
<1>2. PICK a, b, d, p : k = [j EXCEPT !.nodes = a, !.tasks = b, !.events[c.id].due = d, !.process = p]
  BY <1>1
<1> DEFINE x == [j.events EXCEPT ![c.id].due = d]
<1> HIDE DEF k
<1>3. k.events = x /\ k.proofs = j.proofs /\ k.receipts = j.receipts
      /\ k.requests = j.requests /\ k.answers = j.answers
  BY <1>2 DEF Records
<1>4. DOMAIN x = DOMAIN j.events /\ \A e \in DOMAIN j.events : SameEvent(j.events[e], x[e])
  <2>1. DOMAIN x = DOMAIN j.events
    OBVIOUS
  <2>2. \A e \in DOMAIN j.events : e # c.id => x[e] = j.events[e]
    OBVIOUS
  <2>3. x[c.id] = [j.events[c.id] EXCEPT !.due = d]
    BY <1>1
  <2>4. j.events[c.id] \in EventT(S, n)
    BY <1>1, EventIs
  <2> HIDE DEF x
  <2>5. SameEvent(j.events[c.id], x[c.id])
    BY <2>3, <2>4 DEF EventT, SameEvent
  <2> QED BY <2>1, <2>2, <2>5 DEF SameEvent
<1> HIDE DEF x
<1>5. CompDone(c, j, k)
  BY <1>3, <1>4 DEF CompDone, VersionUndoT, Deletes, Unproves, Restores
<1> QED BY <1>5 DEF k

LEMMA CompensatedDone ==
    ASSUME NEW S, IsFiniteSet(S), NEW n \in Nat, NEW at \in 0 .. n,
           NEW j, RecordOk(j, S, n), NEW c, CompT(c, S, n), Compensated(j, c, at).ok
    PROVE  CompDone(c, j, Compensated(j, c, at).job)
<1>0. j \in Records(S, n)
  BY DEF RecordOk
<1>1. CASE EventUndoT(c, S, n)
  <2>1. Compensated(j, c, at) = UndoneEvent(j, c, at)
    BY <1>1 DEF Compensated, EventUndoT
  <2> QED BY <1>0, <1>1, <2>1, UndoneEventDone
<1>2. CASE SubmissionUndoT(c, S, n)
  <2>1. Compensated(j, c, at) = UndoneSubmission(j, c)
    BY <1>2 DEF Compensated, SubmissionUndoT
  <2> QED BY <1>0, <1>2, <2>1, UndoneSubmissionDone
<1>3. CASE DeletionUndoT(c, S, n)
  <2>1. Compensated(j, c, at) = UndoneDeletion(j, c, at)
    BY <1>3 DEF Compensated, DeletionUndoT
  <2> QED BY <1>0, <1>3, <2>1, UndoneDeletionDone
<1>4. CASE ParticipationUndoT(c, S, n)
  <2> DEFINE k == Compensated(j, c, at).job
  <2>1. Compensated(j, c, at) = UndoneParticipation(j, c, at)
    BY <1>4 DEF Compensated, ParticipationUndoT
  <2>2. k \in Reopened(j, c.tasks, DOMAIN c.tasks, at, S, n)
    BY <1>4, <2>1, UndoneParticipationIs
  <2>3. ~Deletes(c) /\ ~Restores(c) /\ ~Unproves(c)
    BY <1>4 DEF ParticipationUndoT, Deletes, Restores, Unproves
  <2> HIDE DEF k
  <2>4. CompDone(c, j, k)
    BY <2>2, <2>3, NothingDone DEF Reopened
  <2> QED BY <2>4 DEF k
<1>5. CASE StatusUndoT(c, S, n)
  <2> DEFINE k == Compensated(j, c, at).job
             t == [j.tasks EXCEPT ![c.id] = c.before]
             w == IF c.was = c.is THEN j.nodes ELSE [j.nodes EXCEPT ![c.id] = c.was[1]]
  <2>1. k = [j EXCEPT !.tasks = t, !.nodes = w]
    BY <1>0, <1>5 DEF Compensated, StatusUndoT, UndoneStatus, Restored, Records
  <2> HIDE DEF k, t, w
  <2>2. k.events = j.events /\ k.proofs = j.proofs /\ k.receipts = j.receipts
        /\ k.requests = j.requests /\ k.answers = j.answers
    BY <1>0, <2>1 DEF Records
  <2>3. ~Deletes(c) /\ ~Restores(c) /\ ~Unproves(c)
    BY <1>5 DEF StatusUndoT, Deletes, Restores, Unproves
  <2> HIDE DEF k
  <2>4. CompDone(c, j, k)
    BY <2>2, <2>3, NothingDone
  <2> QED BY <2>4 DEF k
<1>6. CASE SettlingUndoT(c, S, n)
  <2> DEFINE k == Compensated(j, c, at).job
             t == IF c.id \in DOMAIN j.tasks THEN [j.tasks EXCEPT ![c.id] = c.task] ELSE j.tasks
             w == [j.nodes EXCEPT ![c.id] = Append(Front(j.nodes[c.id]), c.node)]
             p == [j.process EXCEPT !.stage = IF j.process.on THEN c.stage ELSE j.process.stage]
  <2>1. k = [j EXCEPT !.nodes = w, !.tasks = t, !.process = p]
    <3>1. k = UndoneSettling(j, c).job
      BY <1>6 DEF Compensated, SettlingUndoT
    <3>2. j.process \in ProcessT(S, n)
      BY <1>0, RecordIs
    <3> QED BY <1>0, <3>1, <3>2 DEF UndoneSettling, Restored, Records
  <2> HIDE DEF k, t, w, p
  <2>2. k.events = j.events /\ k.proofs = j.proofs /\ k.receipts = j.receipts
        /\ k.requests = j.requests /\ k.answers = j.answers
    BY <1>0, <2>1 DEF Records
  <2>3. ~Deletes(c) /\ ~Restores(c) /\ ~Unproves(c)
    BY <1>6 DEF SettlingUndoT, Deletes, Restores, Unproves
  <2> HIDE DEF k
  <2>4. CompDone(c, j, k)
    BY <2>2, <2>3, NothingDone
  <2> QED BY <2>4 DEF k
<1>7. CASE VersionUndoT(c, S, n)
  <2>1. Compensated(j, c, at) = UndoneVersion(j, c)
    BY <1>7 DEF Compensated, VersionUndoT
  <2> QED BY <1>0, <1>7, <2>1, UndoneVersionDone
<1> QED BY <1>1, <1>2, <1>3, <1>4, <1>5, <1>6, <1>7 DEF CompT

LEMMA ToSetIs ==
    /\ ToSet(<<>>) = {}
    /\ \A c : ToSet(<< c >>) = {c}
    /\ \A c, d : ToSet(<< c, d >>) = {c, d}
<1>1. ToSet(<<>>) = {}
  BY DEF ToSet
<1>2. ASSUME NEW c PROVE ToSet(<< c >>) = {c}
  <2>1. DOMAIN << c >> = {1} /\ << c >>[1] = c
    OBVIOUS
  <2> QED BY <2>1 DEF ToSet
<1>3. ASSUME NEW c, NEW d PROVE ToSet(<< c, d >>) = {c, d}
  <2>1. DOMAIN << c, d >> = {1, 2} /\ << c, d >>[1] = c /\ << c, d >>[2] = d
    OBVIOUS
  <2> QED BY <2>1 DEF ToSet
<1> QED BY <1>1, <1>2, <1>3

\* What the compensations of a row make of the events and of the proofs.
CompsDone(comps, j, l) ==
    /\ \A c \in ToSet(comps) : Deletes(c) => c.id \notin DOMAIN l.events
    /\ \A e \in LiveEvents(l) :
          e \in LiveEvents(j) \/ \E c \in ToSet(comps) : Restores(c) /\ c.id = e
    /\ \A e \in DOMAIN j.events :
          \/ e \in DOMAIN l.events /\ SameEvent(j.events[e], l.events[e])
          \/ \E c \in ToSet(comps) : Deletes(c) /\ c.id = e
    /\ \A p \in j.proofs : p \in l.proofs \/ \E c \in ToSet(comps) : Unproves(c) /\ c.id = p
    /\ l.receipts = j.receipts /\ l.requests = j.requests /\ l.answers = j.answers

LEMMA OneDone ==
    ASSUME NEW c, NEW j, NEW l, CompDone(c, j, l)
    PROVE  CompsDone(<< c >>, j, l)
<1>1. ToSet(<< c >>) = {c}
  BY ToSetIs
<1>2. \A e \in LiveEvents(l) : e \in LiveEvents(j) \/ (Restores(c) /\ c.id = e)
  BY DEF CompDone, LiveEvents, SameEvent
<1>3. Deletes(c) => ~Restores(c)
  BY OpsDiffer
<1> QED BY <1>1, <1>2, <1>3 DEF CompDone, CompsDone

LEMMA TwoDone ==
    ASSUME NEW c, NEW d, ~Restores(c), ~Restores(d), NEW j, NEW k, NEW l,
           CompDone(d, j, k), CompDone(c, k, l)
    PROVE  CompsDone(<< c, d >>, j, l)
<1>1. ToSet(<< c, d >>) = {c, d}
  BY ToSetIs
<1>2. CompsDone(<< d >>, j, k) /\ CompsDone(<< c >>, k, l) /\ ToSet(<< c >>) = {c} /\ ToSet(<< d >>) = {d}
  BY OneDone, ToSetIs
<1>3. DOMAIN l.events \subseteq DOMAIN k.events
  BY DEF CompDone
<1>4. \A x \in {c, d} : Deletes(x) => x.id \notin DOMAIN l.events
  BY <1>2, <1>3 DEF CompsDone
<1>5. \A e \in LiveEvents(l) : e \in LiveEvents(j)
  BY <1>2 DEF CompsDone
<1>6. \A e \in DOMAIN j.events :
          \/ e \in DOMAIN l.events /\ SameEvent(j.events[e], l.events[e])
          \/ \E x \in {c, d} : Deletes(x) /\ x.id = e
  BY <1>2 DEF CompsDone, SameEvent
<1>7. \A p \in j.proofs : p \in l.proofs \/ \E x \in {c, d} : Unproves(x) /\ x.id = p
  BY <1>2 DEF CompsDone
<1> QED BY <1>1, <1>2, <1>4, <1>5, <1>6, <1>7 DEF CompsDone

LEMMA CompensateDone ==
    ASSUME NEW c \in Nat, NEW n, n = c + 1, NEW j, RecordOk(j, Made(c), c), NEW comps,
           RowCompsT(comps, DOMAIN j.nodes, Made(c), c), Compensate(j, comps, n).ok
    PROVE  CompsDone(comps, j, Compensate(j, comps, n).job)
<1> DEFINE S == Made(c)
<1>1. n \in Nat /\ n \in 0 .. n /\ c <= n /\ Apply \notin S /\ Id(n, 1) \notin S
  <2>1. Id(n, 1) \in Made(n) \ S /\ S \subseteq Made(n) /\ Apply \notin S
    BY MadeIs
  <2> QED BY <2>1
<1>2. IsFiniteSet(S)
  BY MadeIsFinite
<1> HIDE DEF S
<1>3. RecordOk(j, S, n) /\ \A x : CompT(x, S, c) => CompT(x, S, n)
  BY <1>1, RecordGrows, FactUndoGrows DEF S
<1>4. \A x : FactUndoT(x, S, c) => /\ CompT(x, S, c) /\ CompFits(x, DOMAIN j.nodes)
                                   /\ x.op # "restore_deleted_process_event" /\ ~Restores(x)
  BY DEF FactUndoT, CompT, CompFits, EventUndoT, SubmissionUndoT, Restores
<1>5. CASE comps = <<>>
  <2>1. Compensate(j, comps, n).job = j
    BY <1>5, CompensateNone DEF Restored
  <2>2. CompsDone(<<>>, j, j)
    BY ToSetIs DEF CompsDone, SameEvent
  <2> QED BY <1>5, <2>1, <2>2
<1>6. ASSUME NEW x, CompT(x, S, c), comps = <<x>>
      PROVE  CompsDone(comps, j, Compensate(j, comps, n).job)
  <2>1. Compensate(j, comps, n) = Compensated(j, x, n)
    BY <1>6, CompensateOne
  <2>2. CompDone(x, j, Compensated(j, x, n).job)
    BY <1>1, <1>2, <1>3, <1>6, <2>1, CompensatedDone
  <2> QED BY <1>6, <2>1, <2>2, OneDone
<1>7. ASSUME NEW x, NEW y, FactUndoT(x, S, c), FactUndoT(y, S, c), comps = <<x, y>>
      PROVE  CompsDone(comps, j, Compensate(j, comps, n).job)
  <2> DEFINE l == Compensated(j, y, n)  k == Compensated(l.job, x, n)
  <2>1. Compensate(j, comps, n) = IF l.ok THEN k ELSE l
    BY <1>7, CompensateTwo
  <2>2. l.ok /\ Compensate(j, comps, n) = k
    BY <2>1
  <2>3. CompDone(y, j, l.job)
    BY <1>1, <1>2, <1>3, <1>4, <1>7, <2>2, CompensatedDone
  <2>4. RecordOk(l.job, S, n)
    BY <1>1, <1>2, <1>3, <1>4, <1>7, <2>2, CompensatedOk
  <2> HIDE DEF l
  <2>5. CompDone(x, l.job, k.job)
    BY <1>1, <1>2, <1>3, <1>4, <1>7, <2>2, <2>4, CompensatedDone
  <2> HIDE DEF k
  <2>6. CompsDone(<<x, y>>, j, k.job)
    BY <1>4, <1>7, <2>3, <2>5, TwoDone
  <2> QED BY <1>7, <2>2, <2>6
<1> QED BY <1>4, <1>5, <1>6, <1>7 DEF RowCompsT, CompsT, S

-----------------------------------------------------------------------------
(* What a command may make of the receipts                                  *)

TakenAgain(j, m, key, after) == \E r \in ReceiptsOf(j, m) : r > after /\ Stands(j, r, key)

LEMMA PendingIs ==
    ASSUME NEW j, NEW m, NEW key
    PROVE  key \in Pending(j, m) <=>
             \E r \in ReceiptsOf(j, m) :
                \/ \E g \in j.receipts[r].gone : g.key = key /\ ~TakenAgain(j, m, key, g.after)
                \/ /\ j.receipts[r].status = "undone" /\ key \in j.receipts[r].mutated
                   /\ ~TakenAgain(j, m, key, j.receipts[r].undone)
<1> DEFINE mine == ReceiptsOf(j, m)
           L(r) == {g.key : g \in {h \in j.receipts[r].gone : ~TakenAgain(j, m, h.key, h.after)}}
           U(r) == {x \in j.receipts[r].mutated : ~TakenAgain(j, m, x, j.receipts[r].undone)}
<1>1. Pending(j, m) = (UNION {L(r) : r \in mine})
                        \cup UNION {U(r) : r \in {q \in mine : j.receipts[q].status = "undone"}}
  BY DEF Pending, TakenAgain
<1>2. \A r : key \in L(r) <=>
                \E g \in j.receipts[r].gone : g.key = key /\ ~TakenAgain(j, m, key, g.after)
  OBVIOUS
<1>3. \A r : key \in U(r) <=> key \in j.receipts[r].mutated /\ ~TakenAgain(j, m, key, j.receipts[r].undone)
  OBVIOUS
<1> HIDE DEF L, U, mine
<1>4. key \in Pending(j, m) <=>
        \/ \E r \in mine : key \in L(r)
        \/ \E r \in mine : j.receipts[r].status = "undone" /\ key \in U(r)
  BY <1>1
<1> QED BY <1>2, <1>3, <1>4 DEF mine

SameClaims(a, b) ==
    /\ a.msg = b.msg /\ a.keys = b.keys /\ a.mutated = b.mutated /\ a.bound = b.bound
    /\ a.affected = b.affected

Lost(j, k, r, key) == Stands(j, r, key) /\ ~Stands(k, r, key)

\* Receipt r loses nothing but facts it stood for, and with a fact that it
\* recorded the event, which was there.
Loses(j, k, r) ==
    /\ SameClaims(j.receipts[r], k.receipts[r])
    /\ \A key : Stands(k, r, key) => Stands(j, r, key)
    /\ \A key \in j.receipts[r].mutated : Lost(j, k, r, key) =>
          \A e \in j.receipts[r].bound[key] : e \in DOMAIN j.events /\ e \notin LiveEvents(k)

\* What it notes of a loss: the fact, of this or another receipt of the source
\* record, or that the command itself was undone.
Notes(j, k, r, n) ==
    /\ \A g \in k.receipts[r].gone :
          \/ g \in j.receipts[r].gone
          \/ g.after = n /\ \E p \in ReceiptsOf(j, j.receipts[r].msg) : Lost(j, k, p, g.key)
    /\ k.receipts[r].status = "undone" =>
          \/ j.receipts[r].status = "undone" /\ k.receipts[r].undone = j.receipts[r].undone
          \/ \A key \in j.receipts[r].mutated : Lost(j, k, r, key)

\* Questions and answers are kept.
Asks(j, k) ==
    /\ DOMAIN j.requests \subseteq DOMAIN k.requests
    /\ \A d \in DOMAIN j.requests :
          k.requests[d].msg = j.requests[d].msg /\ k.requests[d].fact = j.requests[d].fact
    /\ j.answers \subseteq k.answers

\* An event that is live again is one whose receipts stood.
Revives(j, k, e) ==
    \A r \in DOMAIN j.receipts : \A key \in j.receipts[r].mutated :
        e \in j.receipts[r].bound[key] => Stands(j, r, key)

Weakens(j, k, n) ==
    /\ DOMAIN k.receipts = DOMAIN j.receipts
    /\ \A r \in DOMAIN j.receipts : Loses(j, k, r) /\ Notes(j, k, r, n)
    /\ \A e \in LiveEvents(k) : e \in LiveEvents(j) \/ Revives(j, k, e)
    /\ Asks(j, k)

\* A new receipt, of the record m.
Adds(j, k, m, n) ==
    LET rec == k.receipts[n]
    IN  /\ n \notin DOMAIN j.receipts /\ DOMAIN k.receipts = DOMAIN j.receipts \cup {n}
        /\ \A r \in DOMAIN j.receipts : k.receipts[r] = j.receipts[r]
        /\ rec.msg = m /\ rec.gone = {} /\ rec.status # "undone" /\ rec.mutated \subseteq rec.keys
        /\ rec.keys # {} => rec.status = "committed"
        /\ \A key \in rec.mutated :
              rec.bound[key] \subseteq IdsOf(n) /\ \A d, e \in rec.bound[key] : d = e
        /\ \A e \in LiveEvents(k) : e \in LiveEvents(j) \/ e \in IdsOf(n)
        /\ Asks(j, k)
        /\ \A key \in rec.keys :
              \/ key \in Pending(j, m)
              \/ Standing(j, m, key) = {}
              \/ ConfirmsIn(j, m, key) # ConfirmsIn(k, m, key)

LEMMA AsksConfirms ==
    ASSUME NEW j, NEW k, Asks(j, k), NEW m, NEW key
    PROVE  ConfirmsIn(j, m, key) \subseteq ConfirmsIn(k, m, key)
  BY DEF Asks, ConfirmsIn

LEMMA ReceiptTimes ==
    ASSUME NEW c \in Nat, NEW j, RecordOk(j, Made(c), c), NEW r \in DOMAIN j.receipts
    PROVE  /\ r \in 1 .. c /\ j.receipts[r].undone \in 0 .. c
           /\ \A g \in j.receipts[r].gone : g.after \in 0 .. c
           /\ j.receipts[r].mutated \subseteq j.receipts[r].keys
           /\ j.receipts[r].msg \in Messages
<1>1. j.receipts[r] \in ReceiptT(Made(c), c) /\ r \in 1 .. c
  BY ReceiptIs DEF RecordOk
<1> QED BY <1>1 DEF ReceiptT, GoneT

LEMMA WeakensOwes ==
    ASSUME NEW j, NEW k, NEW n, Weakens(j, k, n), NEW m, NEW key
    PROVE  /\ Standing(k, m, key) \subseteq Standing(j, m, key)
           /\ \/ Owed(k, m, key) <= Owed(j, m, key)
              \/ \E q \in Standing(j, m, key) : q \notin Standing(k, m, key)
<1> DEFINE mine == ReceiptsOf(j, m)
<1>1. ReceiptsOf(k, m) = mine
  BY DEF Weakens, Loses, SameClaims, ReceiptsOf
<1>2. \A r \in mine : Stands(k, r, key) => Stands(j, r, key)
  BY DEF Weakens, Loses, ReceiptsOf
<1>3. Standing(k, m, key) \subseteq Standing(j, m, key)
  BY <1>1, <1>2 DEF Standing
<1>4. ASSUME key \in Pending(k, m), key \notin Pending(j, m)
      PROVE  \E q \in mine : Lost(j, k, q, key)
  <2>1. PICK r \in mine :
                \/ \E g \in k.receipts[r].gone : g.key = key /\ ~TakenAgain(k, m, key, g.after)
                \/ /\ k.receipts[r].status = "undone" /\ key \in k.receipts[r].mutated
                   /\ ~TakenAgain(k, m, key, k.receipts[r].undone)
    BY <1>1, <1>4, PendingIs
  <2>2. \A after : TakenAgain(j, m, key, after) /\ ~TakenAgain(k, m, key, after) =>
           \E q \in mine : Lost(j, k, q, key)
    BY <1>1 DEF TakenAgain, Lost
  <2>3. r \in DOMAIN j.receipts /\ j.receipts[r].msg = m
    BY DEF ReceiptsOf
  <2>4. /\ SameClaims(j.receipts[r], k.receipts[r])
        /\ Notes(j, k, r, n)
    BY <2>3 DEF Weakens, Loses
  <2>5. CASE \E g \in k.receipts[r].gone : g.key = key /\ ~TakenAgain(k, m, key, g.after)
    <3>1. PICK g \in k.receipts[r].gone : g.key = key /\ ~TakenAgain(k, m, key, g.after)
      BY <2>5
    <3>2. CASE g \in j.receipts[r].gone
      <4>1. TakenAgain(j, m, key, g.after)
        BY <1>4, <3>1, <3>2, PendingIs
      <4> QED BY <2>2, <3>1, <4>1
    <3>3. CASE g \notin j.receipts[r].gone
      BY <2>3, <2>4, <3>1, <3>3 DEF Notes
    <3> QED BY <3>2, <3>3
  <2>6. CASE /\ k.receipts[r].status = "undone" /\ key \in k.receipts[r].mutated
             /\ ~TakenAgain(k, m, key, k.receipts[r].undone)
    <3>1. key \in j.receipts[r].mutated
      BY <2>4, <2>6 DEF SameClaims
    <3>2. CASE j.receipts[r].status = "undone" /\ k.receipts[r].undone = j.receipts[r].undone
      <4>1. TakenAgain(j, m, key, j.receipts[r].undone)
        BY <1>4, <3>1, <3>2, PendingIs
      <4> QED BY <2>2, <2>6, <3>2, <4>1
    <3>3. CASE Lost(j, k, r, key)
      BY <3>3
    <3> QED BY <2>4, <2>6, <3>1, <3>2, <3>3 DEF Notes
  <2> QED BY <2>1, <2>5, <2>6
<1>5. ASSUME NEW q \in mine, Lost(j, k, q, key)
      PROVE  q \in Standing(j, m, key) /\ q \notin Standing(k, m, key)
  BY <1>5 DEF Standing, Lost
<1> QED BY <1>3, <1>4, <1>5 DEF Owed

LEMMA WeakensClaims ==
    ASSUME NEW c \in Nat, NEW n, n = c + 1, NEW j, RecordOk(j, Made(c), c),
           NEW k, RecordOk(k, Made(n), n), ClaimsInv(j), Weakens(j, k, n)
    PROVE  ClaimsInv(k)
<1>1. ASSUME NEW r \in DOMAIN k.receipts PROVE ReceiptRests(k, r)
  <2>1. r \in DOMAIN j.receipts /\ ReceiptRests(j, r) /\ Loses(j, k, r) /\ Notes(j, k, r, n)
    BY DEF Weakens, ClaimsInv, ReceiptsRest
  <2>2. r <= n
    BY <2>1, ReceiptTimes
  <2> QED BY <2>1, <2>2 DEF ReceiptRests, Loses, SameClaims, Notes
<1>2. ASSUME NEW r \in DOMAIN k.receipts, NEW key \in k.receipts[r].mutated,
             NEW e \in k.receipts[r].bound[key], e \in LiveEvents(k)
      PROVE  Stands(k, r, key)
  <2>1. r \in DOMAIN j.receipts /\ Loses(j, k, r)
    BY DEF Weakens
  <2>2. key \in j.receipts[r].mutated /\ e \in j.receipts[r].bound[key]
    BY <2>1 DEF Loses, SameClaims
  <2>3. Stands(j, r, key)
    BY <1>2, <2>1, <2>2 DEF Weakens, Revives, ClaimsInv, LiveIsClaimed
  <2> QED BY <1>2, <2>1, <2>2, <2>3 DEF Loses, Lost
<1>3. ASSUME NEW m \in Messages, NEW key \in FactsIn(m) PROVE ClaimWithin(k, m, key)
  <2> DEFINE s == Standing(j, m, key)  t == Standing(k, m, key)
             v == Owed(j, m, key)  w == Owed(k, m, key)
             x == ConfirmsIn(j, m, key)  u == ConfirmsIn(k, m, key)
  <2>1. Within(s, v, x)
    BY DEF ClaimsInv, ClaimedOnce, ClaimWithin
  <2>2. IsFiniteSet(s) /\ v \in {0, 1}
    BY ClaimsFinite
  <2>3. IsFiniteSet(u) /\ w \in {0, 1}
    BY ClaimsFinite
  <2>4. x \subseteq u
    BY AsksConfirms DEF Weakens
  <2>5. t \subseteq s /\ (w <= v \/ \E q \in s : q \notin t)
    BY WeakensOwes
  <2> HIDE DEF s, t, v, w, x, u
  <2>6. Within(t, w, u)
    BY <2>1, <2>2, <2>3, <2>4, <2>5, WithinLess
  <2> QED BY <2>6 DEF ClaimWithin, t, w, u
<1> QED BY <1>1, <1>2, <1>3 DEF ClaimsInv, ReceiptsRest, LiveIsClaimed, ClaimedOnce

LEMMA AddsOwes ==
    ASSUME NEW c \in Nat, NEW n, n = c + 1, NEW j, RecordOk(j, Made(c), c), NEW k,
           NEW o, Adds(j, k, o, n), NEW m, NEW key
    PROVE  /\ m = o /\ key \in k.receipts[n].keys =>
                Standing(k, m, key) = Standing(j, m, key) \cup {n} /\ Owed(k, m, key) = 0
           /\ ~(m = o /\ key \in k.receipts[n].keys) =>
                Standing(k, m, key) = Standing(j, m, key) /\ Owed(k, m, key) <= Owed(j, m, key)
<1> DEFINE mine == ReceiptsOf(j, m)  rec == k.receipts[n]
<1>1. /\ n \notin DOMAIN j.receipts /\ DOMAIN k.receipts = DOMAIN j.receipts \cup {n}
      /\ \A r \in DOMAIN j.receipts : k.receipts[r] = j.receipts[r]
      /\ rec.msg = o /\ rec.gone = {} /\ rec.status # "undone"
      /\ rec.keys # {} => rec.status = "committed"
  BY DEF Adds
<1>2. ReceiptsOf(k, m) = IF m = o THEN mine \cup {n} ELSE mine
  BY <1>1 DEF ReceiptsOf
<1>3. \A r \in mine : r \in DOMAIN j.receipts /\ k.receipts[r] = j.receipts[r]
                      /\ (Stands(k, r, key) <=> Stands(j, r, key))
  BY <1>1 DEF Stands, ReceiptsOf
<1>4. Stands(k, n, key) <=> key \in rec.keys
  BY <1>1 DEF Stands, GoneKeys
<1>5. Standing(k, m, key) =
        Standing(j, m, key) \cup IF m = o /\ key \in rec.keys THEN {n} ELSE {}
  BY <1>2, <1>3, <1>4 DEF Standing
<1>6. \A after : TakenAgain(j, m, key, after) => TakenAgain(k, m, key, after)
  BY <1>2, <1>3 DEF TakenAgain
<1>7. ASSUME m = o, key \in rec.keys, NEW after, after \in 0 .. c
      PROVE  TakenAgain(k, m, key, after)
  BY <1>2, <1>4, <1>7 DEF TakenAgain
<1>8. ASSUME key \in Pending(k, m) PROVE key \in Pending(j, m) /\ ~(m = o /\ key \in rec.keys)
  <2>1. PICK r \in ReceiptsOf(k, m) :
                \/ \E g \in k.receipts[r].gone : g.key = key /\ ~TakenAgain(k, m, key, g.after)
                \/ /\ k.receipts[r].status = "undone" /\ key \in k.receipts[r].mutated
                   /\ ~TakenAgain(k, m, key, k.receipts[r].undone)
    BY <1>8, PendingIs
  <2>2. r \in mine /\ k.receipts[r] = j.receipts[r]
    BY <1>1, <1>2, <1>3, <2>1
  <2>3. \/ \E g \in j.receipts[r].gone : g.key = key /\ ~TakenAgain(j, m, key, g.after)
        \/ /\ j.receipts[r].status = "undone" /\ key \in j.receipts[r].mutated
           /\ ~TakenAgain(j, m, key, j.receipts[r].undone)
    BY <1>6, <2>1, <2>2
  <2>4. key \in Pending(j, m)
    BY <2>2, <2>3, PendingIs
  <2>5. r \in DOMAIN j.receipts
    BY <1>3, <2>2
  <2>6. j.receipts[r].undone \in 0 .. c /\ \A g \in j.receipts[r].gone : g.after \in 0 .. c
    BY <2>5, ReceiptTimes
  <2>7. ~(m = o /\ key \in rec.keys)
    BY <1>7, <2>1, <2>2, <2>6
  <2> QED BY <2>4, <2>7
<1> HIDE DEF rec
<1> QED BY <1>5, <1>8 DEF Owed, rec

LEMMA AddsClaims ==
    ASSUME NEW c \in Nat, NEW n, n = c + 1, NEW j, RecordOk(j, Made(c), c),
           NEW k, RecordOk(k, Made(n), n), ClaimsInv(j), NEW o, Adds(j, k, o, n)
    PROVE  ClaimsInv(k)
<1> DEFINE rec == k.receipts[n]
<1>0. \A r \in DOMAIN j.receipts : k.receipts[r] = j.receipts[r] /\ \A key : Stands(k, r, key) <=> Stands(j, r, key)
  BY DEF Adds, Stands
<1>1. ASSUME NEW r \in DOMAIN k.receipts PROVE ReceiptRests(k, r)
  <2>1. CASE r = n
    BY <2>1 DEF Adds, ReceiptRests
  <2>2. CASE r \in DOMAIN j.receipts
    BY <1>0, <2>2 DEF ClaimsInv, ReceiptsRest, ReceiptRests
  <2> QED BY <2>1, <2>2 DEF Adds
<1>2. ASSUME NEW r \in DOMAIN k.receipts, NEW key \in k.receipts[r].mutated,
             NEW e \in k.receipts[r].bound[key], e \in LiveEvents(k)
      PROVE  Stands(k, r, key)
  <2>1. CASE r = n
    BY <2>1 DEF Adds, Stands, GoneKeys
  <2>2. CASE r \in DOMAIN j.receipts
    <3>1. e \in IdsOf(r) /\ r \in 1 .. c
      BY <1>0, <2>2, ReceiptTimes DEF ClaimsInv, ReceiptsRest, ReceiptRests
    <3>2. e \notin IdsOf(n)
      BY <3>1 DEF IdsOf, Id
    <3>3. e \in LiveEvents(j)
      BY <1>2, <3>2 DEF Adds
    <3> QED BY <1>0, <2>2, <3>3 DEF ClaimsInv, LiveIsClaimed
  <2> QED BY <2>1, <2>2 DEF Adds
<1>3. ASSUME NEW m \in Messages, NEW key \in FactsIn(m) PROVE ClaimWithin(k, m, key)
  <2> DEFINE s == Standing(j, m, key)  t == Standing(k, m, key)
             v == Owed(j, m, key)  w == Owed(k, m, key)
             x == ConfirmsIn(j, m, key)  u == ConfirmsIn(k, m, key)
  <2>1. Within(s, v, x)
    BY DEF ClaimsInv, ClaimedOnce, ClaimWithin
  <2>2. IsFiniteSet(s) /\ v \in {0, 1}
    BY ClaimsFinite
  <2>3. IsFiniteSet(u) /\ w \in {0, 1}
    BY ClaimsFinite
  <2>4. x \subseteq u
    BY AsksConfirms DEF Adds
  <2>5. /\ m = o /\ key \in rec.keys => t = s \cup {n} /\ w = 0
        /\ ~(m = o /\ key \in rec.keys) => t = s /\ w <= v
    BY AddsOwes
  <2>6. m = o /\ key \in rec.keys => v = 1 \/ s = {} \/ x # u
    BY DEF Adds, Owed
  <2> HIDE DEF s, t, v, w, x, u, rec
  <2>7. CASE ~(m = o /\ key \in rec.keys)
    <3>1. t \subseteq s /\ (w <= v \/ \E q \in s : q \notin t)
      BY <2>5, <2>7
    <3>2. Within(t, w, u)
      BY <2>1, <2>2, <2>3, <2>4, <3>1, WithinLess
    <3> QED BY <3>2 DEF ClaimWithin, t, w, u
  <2>8. CASE m = o /\ key \in rec.keys
    <3>1. CASE v = 1
      <4>1. Within(s \cup {n}, 0, u)
        BY <2>1, <2>2, <2>3, <2>4, <3>1, WithinPaid
      <4> QED BY <2>5, <2>8, <4>1 DEF ClaimWithin, t, w, u
    <3>2. CASE s = {}
      <4>1. Within({n}, 0, u)
        BY <2>3, WithinFirst
      <4>2. t = {n} /\ w = 0
        BY <2>5, <2>8, <3>2
      <4> QED BY <4>1, <4>2 DEF ClaimWithin, t, w, u
    <3>3. CASE x # u
      <4>1. t = s \cup {n} /\ w = 0 /\ w <= v
        BY <2>2, <2>5, <2>8
      <4>2. Within(s \cup {n}, w, u)
        BY <2>1, <2>2, <2>3, <2>4, <3>3, <4>1, WithinAsked
      <4> QED BY <4>1, <4>2 DEF ClaimWithin, t, w, u
    <3> QED BY <2>6, <2>8, <3>1, <3>2, <3>3
  <2> QED BY <2>7, <2>8
<1> QED BY <1>1, <1>2, <1>3 DEF ClaimsInv, ReceiptsRest, LiveIsClaimed, ClaimedOnce

-----------------------------------------------------------------------------
(* The rows that a commit leaves, and the one it adds                       *)

\* A receipt is there to stay; it loses what it loses, or it is new.
Moves(j, k, n) ==
    \A r \in DOMAIN k.receipts :
        \/ r \in DOMAIN j.receipts /\ Loses(j, k, r)
        \/ /\ r = n /\ n \notin DOMAIN j.receipts
           /\ \A key \in k.receipts[r].mutated : k.receipts[r].bound[key] \subseteq IdsOf(n)

LEMMA WeakensMoves ==
    ASSUME NEW j, NEW k, NEW n, Weakens(j, k, n)
    PROVE  Moves(j, k, n)
  BY DEF Weakens, Moves

LEMMA SameLoses ==
    ASSUME NEW j, NEW k, NEW r, k.receipts[r] = j.receipts[r]
    PROVE  Loses(j, k, r) /\ \A key : ~Lost(j, k, r, key)
  BY DEF Loses, SameClaims, Lost, Stands

LEMMA AddsMoves ==
    ASSUME NEW j, NEW k, NEW n, NEW m, Adds(j, k, m, n)
    PROVE  Moves(j, k, n)
<1>1. ASSUME NEW r \in DOMAIN j.receipts PROVE Loses(j, k, r)
  BY SameLoses DEF Adds
<1> QED BY <1>1 DEF Adds, Moves

\* An object that a commit does not write stays what it is.
LEMMA Untouched ==
    ASSUME NEW j, NEW k, NEW objects, objects \cap Written(j, k) = {}
    PROVE  /\ \A e : <<"event", e>> \in objects => Entry(j.events, e) = Entry(k.events, e)
           /\ \A r : <<"receipt", r>> \in objects => Entry(j.receipts, r) = Entry(k.receipts, r)
<1>1. \A e : /\ Value(j, <<"event", e>>) = Entry(j.events, e)
             /\ Value(k, <<"event", e>>) = Entry(k.events, e)
  BY DEF Value
<1>2. \A r : /\ Value(j, <<"receipt", r>>) = Entry(j.receipts, r)
             /\ Value(k, <<"receipt", r>>) = Entry(k.receipts, r)
  BY DEF Value
<1>3. \A e : /\ e \in DOMAIN j.events => <<"event", e>> \in Objects(j)
             /\ e \in DOMAIN k.events => <<"event", e>> \in Objects(k)
  BY DEF Objects
<1>4. \A r : /\ r \in DOMAIN j.receipts => <<"receipt", r>> \in Objects(j)
             /\ r \in DOMAIN k.receipts => <<"receipt", r>> \in Objects(k)
  BY DEF Objects
<1>5. ASSUME NEW e, <<"event", e>> \in objects
      PROVE  Entry(j.events, e) = Entry(k.events, e)
  <2> DEFINE o == <<"event", e>>
  <2>1. CASE e \in DOMAIN j.events \/ e \in DOMAIN k.events
    <3>1. o \in Objects(j) \cup Objects(k)
      BY <1>3, <2>1
    <3>2. Value(j, o) = Value(k, o)
      BY <1>5, <3>1 DEF Written
    <3> QED BY <1>1, <3>2
  <2>2. CASE e \notin DOMAIN j.events /\ e \notin DOMAIN k.events
    BY <2>2 DEF Entry
  <2> QED BY <2>1, <2>2
<1>6. ASSUME NEW r, <<"receipt", r>> \in objects
      PROVE  Entry(j.receipts, r) = Entry(k.receipts, r)
  <2> DEFINE o == <<"receipt", r>>
  <2>1. CASE r \in DOMAIN j.receipts \/ r \in DOMAIN k.receipts
    <3>1. o \in Objects(j) \cup Objects(k)
      BY <1>4, <2>1
    <3>2. Value(j, o) = Value(k, o)
      BY <1>6, <3>1 DEF Written
    <3> QED BY <1>2, <3>2
  <2>2. CASE r \notin DOMAIN j.receipts /\ r \notin DOMAIN k.receipts
    BY <2>2 DEF Entry
  <2> QED BY <2>1, <2>2
<1> QED BY <1>5, <1>6

LEMMA SameEntry ==
    ASSUME NEW f, NEW g, NEW x, Entry(f, x) = Entry(g, x)
    PROVE  /\ x \in DOMAIN f <=> x \in DOMAIN g
           /\ x \in DOMAIN f => f[x] = g[x]
<1>1. x \in DOMAIN f => Entry(f, x) = << f[x] >> /\ Len(Entry(f, x)) = 1
  BY DEF Entry
<1>2. x \in DOMAIN g => Entry(g, x) = << g[x] >> /\ Len(Entry(g, x)) = 1
  BY DEF Entry
<1>3. x \notin DOMAIN f => Entry(f, x) = << >> /\ Len(Entry(f, x)) = 0
  BY DEF Entry
<1>4. x \notin DOMAIN g => Entry(g, x) = << >> /\ Len(Entry(g, x)) = 0
  BY DEF Entry
<1> QED BY <1>1, <1>2, <1>3, <1>4

\* A new event or receipt is written.
LEMMA NewIsWritten ==
    ASSUME NEW j, NEW k
    PROVE  /\ \A e \in DOMAIN k.events : e \notin DOMAIN j.events => <<"event", e>> \in Written(j, k)
           /\ \A e \in DOMAIN j.events : e \notin DOMAIN k.events => <<"event", e>> \in Written(j, k)
           /\ \A r \in DOMAIN k.receipts : r \notin DOMAIN j.receipts => <<"receipt", r>> \in Written(j, k)
<1>1. \A x : /\ ({<<"event", x>>} \cap Written(j, k) = {} => (x \in DOMAIN j.events <=> x \in DOMAIN k.events))
             /\ ({<<"receipt", x>>} \cap Written(j, k) = {} => (x \in DOMAIN j.receipts <=> x \in DOMAIN k.receipts))
  <2> TAKE x
  <2>1. ASSUME {<<"event", x>>} \cap Written(j, k) = {}
        PROVE  x \in DOMAIN j.events <=> x \in DOMAIN k.events
    <3> DEFINE objects == {<<"event", x>>}
    <3>0. <<"event", x>> \in objects /\ objects \cap Written(j, k) = {}
      BY <2>1
    <3> HIDE DEF objects
    <3>1. Entry(j.events, x) = Entry(k.events, x)
      BY <3>0, Untouched
    <3> QED BY <3>1, SameEntry
  <2>2. ASSUME {<<"receipt", x>>} \cap Written(j, k) = {}
        PROVE  x \in DOMAIN j.receipts <=> x \in DOMAIN k.receipts
    <3> DEFINE objects == {<<"receipt", x>>}
    <3>0. <<"receipt", x>> \in objects /\ objects \cap Written(j, k) = {}
      BY <2>2
    <3> HIDE DEF objects
    <3>1. Entry(j.receipts, x) = Entry(k.receipts, x)
      BY <3>0, Untouched
    <3> QED BY <3>1, SameEntry
  <2> QED BY <2>1, <2>2
<1> QED BY <1>1

RestoresIn(row, S) == \A x \in ToSet(row.comps) : Restores(x) => x.id \in S

LEMMA RowSurvives ==
    ASSUME NEW c \in Nat, NEW n, n = c + 1, NEW j, NEW k, Moves(j, k, n), NEW r \in 1 .. c, NEW row,
           row.objects \cap Written(j, k) = {}, RestoresIn(row, Made(c)), RowClaims(j, r, row)
    PROVE  RowClaims(k, r, row)
<1> DEFINE objects == row.objects
<1>1. /\ \A e : <<"event", e>> \in row.objects => (e \in DOMAIN j.events <=> e \in DOMAIN k.events)
      /\ \A q : <<"receipt", q>> \in row.objects /\ q \in DOMAIN j.receipts => k.receipts[q] = j.receipts[q]
  <2>1. /\ \A e : <<"event", e>> \in objects => Entry(j.events, e) = Entry(k.events, e)
        /\ \A q : <<"receipt", q>> \in objects => Entry(j.receipts, q) = Entry(k.receipts, q)
    <3>1. objects \cap Written(j, k) = {}
      OBVIOUS
    <3> HIDE DEF objects
    <3> QED BY <3>1, Untouched
  <2>2. ASSUME NEW e, <<"event", e>> \in objects PROVE e \in DOMAIN j.events <=> e \in DOMAIN k.events
    BY <2>1, <2>2, SameEntry
  <2>3. ASSUME NEW q, <<"receipt", q>> \in objects, q \in DOMAIN j.receipts
        PROVE  k.receipts[q] = j.receipts[q]
    BY <2>1, <2>3, SameEntry
  <2> QED BY <2>2, <2>3
<1>2. EventRow(k, row)
  BY <1>1 DEF EventRow, RowClaims
<1>3. ReceiptRow(k, r, row)
  <2> SUFFICES ASSUME r \in DOMAIN k.receipts PROVE ReceiptRow(k, r, row)
    BY DEF ReceiptRow
  <2>1. r \in DOMAIN j.receipts
    BY DEF Moves
  <2>2. <<"receipt", r>> \in row.objects
    BY <2>1 DEF RowClaims, ReceiptRow
  <2>3. k.receipts[r] = j.receipts[r]
    BY <1>1, <2>1, <2>2
  <2> QED BY <2>1, <2>3 DEF RowClaims, ReceiptRow
<1>4. DeletionRow(k, row)
  <2> SUFFICES ASSUME NEW x \in ToSet(row.comps), Restores(x)
               PROVE  /\ <<"event", x.id>> \in row.objects /\ x.id \notin DOMAIN k.events
                      /\ \A q \in DOMAIN k.receipts : \A key \in k.receipts[q].mutated :
                            x.id \in k.receipts[q].bound[key] => Stands(k, q, key)
    BY DEF DeletionRow
  <2>1. /\ <<"event", x.id>> \in row.objects /\ x.id \notin DOMAIN j.events
        /\ \A q \in DOMAIN j.receipts : \A key \in j.receipts[q].mutated :
              x.id \in j.receipts[q].bound[key] => Stands(j, q, key)
    BY DEF RowClaims, DeletionRow
  <2>2. x.id \in Made(c)
    BY DEF RestoresIn
  <2> DEFINE e == x.id
  <2> HIDE DEF e
  <2>3. e \notin IdsOf(n)
    BY <2>2 DEF IdsOf, Id, Made, e
  <2>4. ASSUME NEW q \in DOMAIN k.receipts, NEW key \in k.receipts[q].mutated, e \in k.receipts[q].bound[key]
        PROVE  Stands(k, q, key)
    <3>1. q \in DOMAIN j.receipts /\ Loses(j, k, q)
      BY <2>3, <2>4 DEF Moves
    <3>2. key \in j.receipts[q].mutated /\ e \in j.receipts[q].bound[key]
      BY <2>4, <3>1 DEF Loses, SameClaims
    <3> QED BY <2>1, <3>1, <3>2 DEF Loses, Lost, e
  <2> QED BY <1>1, <2>1, <2>4 DEF e
<1> QED BY <1>2, <1>3, <1>4 DEF RowClaims

LEMMA RowRestores ==
    ASSUME NEW S, NEW n, NEW nodes, NEW row, RowCompsT(row.comps, nodes, S, n)
    PROVE  RestoresIn(row, S)
<1> DEFINE comps == row.comps
<1>1. \A x : CompT(x, S, n) /\ Restores(x) => x.id \in S
  BY DEF CompT, Restores, EventUndoT, SubmissionUndoT, DeletionUndoT, ParticipationUndoT, StatusUndoT,
         SettlingUndoT, VersionUndoT
<1>2. \A x : FactUndoT(x, S, n) => CompT(x, S, n)
  BY DEF FactUndoT, CompT
<1> HIDE DEF comps
<1>3. CASE comps = <<>>
  BY <1>3, ToSetIs DEF RestoresIn, comps
<1>4. ASSUME NEW x, CompT(x, S, n), comps = <<x>> PROVE RestoresIn(row, S)
  BY <1>1, <1>4, ToSetIs DEF RestoresIn, comps
<1>5. ASSUME NEW x, NEW y, CompT(x, S, n), CompT(y, S, n), comps = <<x, y>> PROVE RestoresIn(row, S)
  <2>1. ToSet(comps) = {x, y}
    BY <1>5, ToSetIs
  <2> QED BY <1>1, <1>5, <2>1 DEF RestoresIn, comps
<1> QED BY <1>2, <1>3, <1>4, <1>5 DEF RowCompsT, CompsT, comps

LEMMA RowsSurvive ==
    ASSUME RecordInv, OnceInv, NEW k, Moves(job, k, now)
    PROVE  /\ DOMAIN StillUndoable(k) \subseteq 1 .. clock
           /\ \A r \in DOMAIN StillUndoable(k) : RowClaims(k, r, StillUndoable(k)[r])
<1>1. clock \in Nat /\ now = clock + 1
  BY HistoryAssumption DEF RecordInv, Times, now
<1>2. /\ DOMAIN StillUndoable(k) \subseteq DOMAIN undoable
      /\ \A r \in DOMAIN StillUndoable(k) :
            StillUndoable(k)[r] = undoable[r] /\ undoable[r].objects \cap Written(job, k) = {}
  BY DEF StillUndoable, Restrict
<1>3. DOMAIN undoable \subseteq 1 .. clock
  BY DEF RecordInv, RowsOk
<1>4. ASSUME NEW r \in DOMAIN StillUndoable(k) PROVE RowClaims(k, r, StillUndoable(k)[r])
  <2> DEFINE row == undoable[r]
  <2>1. /\ r \in 1 .. clock /\ row.objects \cap Written(job, k) = {}
        /\ RowClaims(job, r, row)
    BY <1>2, <1>3 DEF OnceInv
  <2>2. RestoresIn(row, Made(clock))
    <3>1. RowCompsT(row.comps, DOMAIN job.nodes, Made(clock), clock)
      BY <1>2 DEF RecordInv, RowsOk
    <3> HIDE DEF row
    <3> QED BY <3>1, RowRestores
  <2> HIDE DEF row
  <2>3. RowClaims(k, r, row)
    BY <1>1, <2>1, <2>2, RowSurvives
  <2> QED BY <1>2, <2>3 DEF row
<1> QED BY <1>2, <1>3, <1>4

\* What a command may do.
Moved(j, k, n) == Weakens(j, k, n) \/ \E m : Adds(j, k, m, n)

LEMMA MovedOnce ==
    ASSUME RecordInv, RecordInv', OnceInv, clock' = now, Moved(job, job', now)
    PROVE  ClaimsInv(job') /\ Moves(job, job', now)
<1> DEFINE c == clock  n == now  j == job  k == job'
<1>1. c \in Nat /\ n = c + 1
  BY HistoryAssumption DEF RecordInv, Times, now
<1>2. RecordOk(j, Made(c), c) /\ RecordOk(k, Made(n), n)
  BY DEF RecordInv
<1>3. ClaimsInv(j) /\ Moved(j, k, n)
  BY DEF OnceInv
<1> HIDE DEF c, n, j, k
<1>4. ClaimsInv(k) /\ Moves(j, k, n)
  <2>1. CASE Weakens(j, k, n)
    BY <1>1, <1>2, <1>3, <2>1, WeakensClaims, WeakensMoves
  <2>2. ASSUME NEW m, Adds(j, k, m, n) PROVE ClaimsInv(k) /\ Moves(j, k, n)
    BY <1>1, <1>2, <1>3, <2>2, AddsClaims, AddsMoves
  <2> QED BY <1>3, <2>1, <2>2 DEF Moved
<1> QED BY <1>4 DEF n, j, k

LEMMA OnceFinal ==
    ASSUME RecordInv, RecordInv', OnceInv, NEW k, CommitFinal(k), Moved(job, k, now)
    PROVE  OnceInv'
<1>1. job' = k /\ clock' = now /\ undoable' = StillUndoable(k)
  BY DEF CommitFinal, Commit
<1>2. ClaimsInv(job') /\ Moves(job, job', now)
  BY <1>1, MovedOnce
<1>3. \A r \in DOMAIN StillUndoable(k) : RowClaims(k, r, StillUndoable(k)[r])
  BY <1>1, <1>2, RowsSurvive
<1> QED BY <1>1, <1>2, <1>3 DEF OnceInv

LEMMA OnceWithRow ==
    ASSUME RecordInv, RecordInv', OnceInv, NEW k, NEW row, CommitWithRow(k, row), Moved(job, k, now),
           RowClaims(k, now, row)
    PROVE  OnceInv'
<1> DEFINE rows == Put(StillUndoable(k), now, row)
<1>1. job' = k /\ clock' = now /\ undoable' = rows
  BY DEF CommitWithRow, Commit
<1>2. ClaimsInv(job') /\ Moves(job, job', now)
  BY <1>1, MovedOnce
<1>3. \A r \in DOMAIN StillUndoable(k) : RowClaims(k, r, StillUndoable(k)[r])
  BY <1>1, <1>2, RowsSurvive
<1>4. /\ DOMAIN rows = DOMAIN StillUndoable(k) \cup {now} /\ rows[now] = row
      /\ \A r \in DOMAIN StillUndoable(k) : r # now => rows[r] = StillUndoable(k)[r]
  BY DEF Put
<1> HIDE DEF rows
<1>5. \A r \in DOMAIN rows : RowClaims(k, r, rows[r])
  BY <1>3, <1>4
<1> QED BY <1>1, <1>2, <1>5 DEF OnceInv

-----------------------------------------------------------------------------
(* Commands that leave the receipts alone                                   *)

\* No event comes to life but those of command n.
NoneRevived(j, k, n) == \A e \in LiveEvents(k) : e \in LiveEvents(j) \/ e \in IdsOf(n)

Quiet(j, k, n) == k.receipts = j.receipts /\ Asks(j, k) /\ NoneRevived(j, k, n)

LEMMA OldReceipts ==
    ASSUME NEW c \in Nat, NEW n, n = c + 1, NEW j, RecordOk(j, Made(c), c), ReceiptsRest(j)
    PROVE  /\ n \notin DOMAIN j.receipts
           /\ \A r \in DOMAIN j.receipts : \A key \in j.receipts[r].mutated :
                 \A e \in j.receipts[r].bound[key] : e \in Made(c) /\ e \notin IdsOf(n)
<1>1. \A r \in DOMAIN j.receipts : r \in 1 .. c
  BY ReceiptTimes
<1>2. \A r \in 1 .. c : IdsOf(r) \subseteq Made(c) /\ IdsOf(r) \cap IdsOf(n) = {}
  BY DEF IdsOf, Made, Id
<1> QED BY <1>1, <1>2 DEF ReceiptsRest, ReceiptRests

LEMMA QuietWeakens ==
    ASSUME NEW c \in Nat, NEW n, n = c + 1, NEW j, RecordOk(j, Made(c), c), ReceiptsRest(j),
           NEW k, Quiet(j, k, n)
    PROVE  Weakens(j, k, n)
<1>1. \A r \in DOMAIN j.receipts : Loses(j, k, r)
  BY SameLoses DEF Quiet
<1>2. \A r \in DOMAIN j.receipts : Notes(j, k, r, n)
  BY DEF Quiet, Notes
<1>3. \A e \in IdsOf(n) : Revives(j, k, e)
  BY OldReceipts DEF Revives
<1> QED BY <1>1, <1>2, <1>3 DEF Weakens, Quiet, NoneRevived

LEMMA QuietOnce ==
    ASSUME RecordInv, RecordInv', OnceInv, NEW k, Quiet(job, k, now), NEW row, CommitWithRow(k, row),
           EventRow(k, row), DeletionRow(k, row)
    PROVE  OnceInv'
<1> DEFINE c == clock  n == now  j == job
<1>1. c \in Nat /\ n = c + 1
  BY HistoryAssumption DEF RecordInv, Times, now
<1>2. RecordOk(j, Made(c), c) /\ ReceiptsRest(j) /\ Quiet(j, k, n)
  BY DEF RecordInv, OnceInv, ClaimsInv
<1> HIDE DEF c, n, j
<1>3. Weakens(j, k, n) /\ n \notin DOMAIN j.receipts
  BY <1>1, <1>2, QuietWeakens, OldReceipts
<1>4. Moved(job, k, now) /\ now \notin DOMAIN k.receipts
  BY <1>2, <1>3 DEF Moved, Quiet, n, j
<1>5. RowClaims(k, now, row)
  BY <1>4 DEF RowClaims, ReceiptRow
<1> QED BY <1>4, <1>5, OnceWithRow

LEMMA QuietWith ==
    ASSUME RecordInv, RecordInv', OnceInv, NEW k, Quiet(job, k, now), NEW u, CommitWith(k, u),
           Deletes(u) => u.id \in DOMAIN k.events /\ u.id \notin DOMAIN job.events,
           Restores(u) => /\ u.id \in DOMAIN job.events /\ u.id \notin DOMAIN k.events
                          /\ \A r \in DOMAIN k.receipts : \A key \in k.receipts[r].mutated :
                                u.id \in k.receipts[r].bound[key] => Stands(k, r, key)
    PROVE  OnceInv'
<1> DEFINE row == Row(k, << u >>, {}, {})
<1>1. row.comps = << u >> /\ row.objects = Written(job, k)
  BY DEF Row
<1>2. CommitWithRow(k, row)
  BY DEF CommitWith
<1> HIDE DEF row
<1>3. ToSet(row.comps) = {u}
  BY <1>1, ToSetIs
<1>4. EventRow(k, row) /\ DeletionRow(k, row)
  <2>1. Deletes(u) => <<"event", u.id>> \in row.objects
    BY <1>1, NewIsWritten
  <2>2. Restores(u) => <<"event", u.id>> \in row.objects
    BY <1>1, NewIsWritten
  <2> QED BY <1>3, <2>1, <2>2 DEF EventRow, DeletionRow
<1> QED BY <1>2, <1>4, QuietOnce

\* The same books and the same live events.
LEMMA SameIsQuiet ==
    ASSUME NEW j, NEW k, NEW n, k.receipts = j.receipts, k.requests = j.requests, k.answers = j.answers,
           \A e \in DOMAIN k.events : ~k.events[e].dead => (e \in DOMAIN j.events /\ ~j.events[e].dead) \/ e \in IdsOf(n)
    PROVE  Quiet(j, k, n)
<1>1. Asks(j, k)
  BY DEF Asks
<1>2. NoneRevived(j, k, n)
  BY DEF NoneRevived, LiveEvents
<1> QED BY <1>1, <1>2 DEF Quiet

LEMMA SameEventsQuiet ==
    ASSUME NEW j, NEW k, NEW n, k.receipts = j.receipts, k.requests = j.requests, k.answers = j.answers,
           k.events = j.events
    PROVE  Quiet(j, k, n)
  BY SameIsQuiet

\* What a command other than the recording of an event or its deletion leaves.
LEMMA PlainWith ==
    ASSUME RecordInv, RecordInv', OnceInv, NEW k, Quiet(job, k, now), NEW u, CommitWith(k, u),
           ~Deletes(u), ~Restores(u)
    PROVE  OnceInv'
  BY QuietWith

LEMMA SubmitOnce ==
    ASSUME RecordInv, RecordInv', OnceInv, Submit
    PROVE  OnceInv'
<1> DEFINE id == Id(now, 1)  k == AfterSubmission(job, id, now)  u == SubmissionUndo(job, k, id)
<1>1. job \in Records(Made(clock), clock)
  BY DEF RecordInv, RecordOk
<1>2. k.events = job.events /\ k.receipts = job.receipts /\ k.requests = job.requests /\ k.answers = job.answers
  BY <1>1, AfterSubmissionIs
<1>3. CommitWith(k, u)
  BY DEF Submit
<1>4. ~Deletes(u) /\ ~Restores(u)
  BY DEF SubmissionUndo, Deletes, Restores
<1> HIDE DEF k, u
<1>5. Quiet(job, k, now)
  BY <1>2, SameEventsQuiet
<1> QED BY <1>3, <1>4, <1>5, PlainWith

LEMMA SetStatusOnce ==
    ASSUME RecordInv, RecordInv', OnceInv, NEW task \in DOMAIN job.tasks, NEW status, SetStatus(task, status)
    PROVE  OnceInv'
<1> DEFINE k == AfterStatus(job, task, status, now)  u == StatusUndo(job, k, task)
<1>1. job \in Records(Made(clock), clock)
  BY DEF RecordInv, RecordOk
<1>2. StatusSet(job, k, task, status, now)
  BY <1>1, AfterStatusIs
<1>3. CommitWith(k, u)
  BY DEF SetStatus
<1>4. ~Deletes(u) /\ ~Restores(u)
  BY DEF StatusUndo, Deletes, Restores
<1> HIDE DEF k, u
<1>5. Quiet(job, k, now)
  BY <1>2, SameEventsQuiet DEF StatusSet
<1> QED BY <1>3, <1>4, <1>5, PlainWith

LEMMA SettleOnce ==
    ASSUME RecordInv, RecordInv', OnceInv, NEW e, NEW cancelled, Settle(e, cancelled)
    PROVE  OnceInv'
<1> DEFINE k == AfterSettling(job, e, cancelled, now)
           u == IF NeedsConfirmation(Current(job, e)) THEN VersionUndo(job, k, e) ELSE SettlingUndo(job, e)
<1>1. job \in Records(Made(clock), clock)
  BY DEF RecordInv, RecordOk
<1>2. k.events = job.events /\ k.receipts = job.receipts /\ k.requests = job.requests /\ k.answers = job.answers
  BY <1>1 DEF AfterSettling, Records
<1>3. CommitWith(k, u)
  BY DEF Settle
<1>4. ~Deletes(u) /\ ~Restores(u)
  <2>1. VersionUndo(job, k, e).op = "restore_occurrence_supersession"
    BY DEF VersionUndo
  <2>2. SettlingUndo(job, e).op = "restore_occurrence_completion"
    BY DEF SettlingUndo
  <2> HIDE DEF k
  <2> QED BY <2>1, <2>2 DEF Deletes, Restores
<1> HIDE DEF k, u
<1>5. Quiet(job, k, now)
  BY <1>2, SameEventsQuiet
<1> QED BY <1>3, <1>4, <1>5, PlainWith

LEMMA RescheduleOnce ==
    ASSUME RecordInv, RecordInv', OnceInv, NEW e \in Interviews, NEW slot, Reschedule(e, slot)
    PROVE  OnceInv'
<1> DEFINE k == AfterReschedule(job, e, slot, now)  u == VersionUndo(job, k, e)
<1>1. job \in Records(Made(clock), clock) /\ e \in DOMAIN job.events
  BY DEF RecordInv, RecordOk, Interviews
<1>2. /\ k.events = [job.events EXCEPT ![e].due = slot]
      /\ k.receipts = job.receipts /\ k.requests = job.requests /\ k.answers = job.answers
  BY <1>1 DEF AfterReschedule, Records
<1>3. CommitWith(k, u)
  BY DEF Reschedule
<1>4. ~Deletes(u) /\ ~Restores(u)
  BY DEF VersionUndo, Deletes, Restores
<1> HIDE DEF k, u
<1>5. \A d \in DOMAIN k.events : d \in DOMAIN job.events /\ k.events[d].dead = job.events[d].dead
  <2>1. job.events[e] \in EventT(Made(clock), clock)
    BY <1>1, EventIs
  <2>2. [job.events[e] EXCEPT !.due = slot].dead = job.events[e].dead
    BY <2>1 DEF EventT
  <2> QED BY <1>1, <1>2, <2>2
<1>6. Quiet(job, k, now)
  BY <1>2, <1>5, SameIsQuiet
<1> QED BY <1>3, <1>4, <1>6, PlainWith

LEMMA AbandonOnce ==
    ASSUME RecordInv, RecordInv', OnceInv, Abandon
    PROVE  OnceInv'
<1> DEFINE k == AfterAbandon(job, now)  u == ParticipationUndo(job)
<1>1. job \in Records(Made(clock), clock)
  BY DEF RecordInv, RecordOk
<1>2. k.events = job.events /\ k.receipts = job.receipts /\ k.requests = job.requests /\ k.answers = job.answers
  BY <1>1 DEF AfterAbandon, Records
<1>3. CommitWith(k, u)
  BY DEF Abandon
<1>4. ~Deletes(u) /\ ~Restores(u)
  BY DEF ParticipationUndo, Deletes, Restores
<1> HIDE DEF k, u
<1>5. Quiet(job, k, now)
  BY <1>2, SameEventsQuiet
<1> QED BY <1>3, <1>4, <1>5, PlainWith

\* The events after one is recorded.
EventMade(j, k, id, type, slot) ==
    /\ DOMAIN k.events = DOMAIN j.events \cup {id}
    /\ \A e \in DOMAIN j.events : e # id => k.events[e] = j.events[e]
    /\ k.events[id].type = type /\ k.events[id].slot = slot /\ ~k.events[id].dead
    /\ k.proofs = j.proofs /\ k.owner.id = id
    /\ k.receipts = j.receipts /\ k.requests = j.requests /\ k.answers = j.answers

LEMMA AfterEventMakes ==
    ASSUME NEW S, NEW n, NEW j \in Records(S, n), NEW id, NEW type, NEW slot, NEW at, NEW t
    PROVE  EventMade(j, AfterEvent(j, id, type, slot, at, t), id, type, slot)
<1> DEFINE event == [type |-> type, slot |-> slot, due |-> slot, at |-> at, made |-> t,
                     pos |-> id, dead |-> FALSE]
           l == SetStage(j, type, [id |-> id, at |-> at], at)
           a == Put(j.events, id, event)
           m == [l EXCEPT !.events = a]
           k == AfterEvent(j, id, type, slot, at, t)
<1>1. /\ l.events = j.events /\ l.proofs = j.proofs /\ l.owner.id = id
      /\ l.receipts = j.receipts /\ l.requests = j.requests /\ l.answers = j.answers
      /\ DOMAIN l = {"stage", "part", "owner", "proofs", "process", "tasks", "events", "nodes",
                     "receipts", "requests", "answers"}
  BY DEF SetStage, Records
<1>2. \E b, c : k = m \/ k = [m EXCEPT !.tasks = b, !.nodes = c]
  <2>1. k = IF type = "offer" THEN [l EXCEPT !.events = Put(l.events, id, event)]
          ELSE [[l EXCEPT !.events = Put(l.events, id, event)] EXCEPT
                  !.tasks = Put([l EXCEPT !.events = Put(l.events, id, event)].tasks, id, [status |-> "todo", at |-> t]),
                  !.nodes = Put([l EXCEPT !.events = Put(l.events, id, event)].nodes, id, << [state |-> "scheduled", slot |-> slot, by |-> "none", at |-> t] >>)]
    BY DEF AfterEvent, l
  <2>2. Put(l.events, id, event) = a
    BY <1>1
  <2> DEFINE b == Put(m.tasks, id, [status |-> "todo", at |-> t])
             c == Put(m.nodes, id, << [state |-> "scheduled", slot |-> slot, by |-> "none", at |-> t] >>)
  <2>3. k = IF type = "offer" THEN m ELSE [m EXCEPT !.tasks = b, !.nodes = c]
    BY <2>1, <2>2
  <2> HIDE DEF k, m, b, c
  <2> QED BY <2>3
<1>3. /\ DOMAIN a = DOMAIN j.events \cup {id} /\ a[id] = event
      /\ \A e \in DOMAIN j.events : e # id => a[e] = j.events[e]
  <2> HIDE DEF event
  <2> QED BY DEF Put
<1>4. event.type = type /\ event.slot = slot /\ ~event.dead
  OBVIOUS
<1> HIDE DEF l, a, k, event
<1>5. /\ m.events = a /\ m.proofs = j.proofs /\ m.owner.id = id
      /\ m.receipts = j.receipts /\ m.requests = j.requests /\ m.answers = j.answers
      /\ DOMAIN m = {"stage", "part", "owner", "proofs", "process", "tasks", "events", "nodes",
                     "receipts", "requests", "answers"}
  BY <1>1
<1> HIDE DEF m
<1>6. /\ k.events = a /\ k.proofs = j.proofs /\ k.owner.id = id
      /\ k.receipts = j.receipts /\ k.requests = j.requests /\ k.answers = j.answers
  BY <1>2, <1>5
<1>7. EventMade(j, k, id, type, slot)
  BY <1>3, <1>4, <1>6 DEF EventMade
<1> QED BY <1>7 DEF k

LEMMA RecordEventOnce ==
    ASSUME RecordInv, RecordInv', OnceInv, NEW type, NEW slot, RecordEvent(type, slot)
    PROVE  OnceInv'
<1> DEFINE id == Id(now, 1)  k == AfterEvent(job, id, type, slot, now, now)  u == EventUndo(job, k, id)
<1>1. job \in Records(Made(clock), clock) /\ Ready
  BY IsReady DEF RecordInv, RecordOk
<1>2. EventMade(job, k, id, type, slot)
  BY <1>1, AfterEventMakes
<1>3. CommitWith(k, u)
  BY DEF RecordEvent
<1>4. u.id = id /\ ~Restores(u)
  BY DEF EventUndo, Restores
<1>5. id \notin DOMAIN job.events /\ id \in IdsOf(now)
  BY <1>1, EventIs DEF Ready, IdsOf
<1> HIDE DEF k, u, id
<1>6. Quiet(job, k, now)
  BY <1>2, <1>5, SameIsQuiet DEF EventMade
<1>7. u.id \in DOMAIN k.events /\ u.id \notin DOMAIN job.events
  BY <1>2, <1>4, <1>5 DEF EventMade
<1> QED BY <1>3, <1>4, <1>6, <1>7, QuietWith

\* The deleted event was live: whatever recorded it still stands.
LEMMA DeleteEventOnce ==
    ASSUME RecordInv, RecordInv', OnceInv, NEW e \in DOMAIN job.events, DeleteEvent(e)
    PROVE  OnceInv'
<1> DEFINE k == AfterDeletion(job, e, now)  u == DeletionUndo(job, k, e)
           x == Restrict(job.events, DOMAIN job.events \ {e})
<1>1. job \in Records(Made(clock), clock)
  BY DEF RecordInv, RecordOk
<1>2. k.events = x /\ k.receipts = job.receipts /\ k.requests = job.requests /\ k.answers = job.answers
  BY <1>1 DEF AfterDeletion, WithoutEvent, Records
<1>3. CommitWith(k, u) /\ ~job.events[e].dead
  BY DEF DeleteEvent, HasHistory
<1>4. u.id = e /\ ~Deletes(u)
  BY DEF DeletionUndo, Deletes
<1>5. DOMAIN x = DOMAIN job.events \ {e} /\ \A d \in DOMAIN x : x[d] = job.events[d]
  BY DEF Restrict
<1> HIDE DEF k, u, x
<1>6. Quiet(job, k, now)
  BY <1>2, <1>5, SameIsQuiet
<1>7. ASSUME NEW r \in DOMAIN k.receipts, NEW key \in k.receipts[r].mutated, e \in k.receipts[r].bound[key]
      PROVE  Stands(k, r, key)
  <2>1. e \in LiveEvents(job)
    BY <1>3 DEF LiveEvents
  <2>2. Stands(job, r, key)
    BY <1>2, <1>7, <2>1 DEF OnceInv, ClaimsInv, LiveIsClaimed
  <2> QED BY <1>2, <2>2 DEF Stands
<1>8. u.id \in DOMAIN job.events /\ u.id \notin DOMAIN k.events
  BY <1>2, <1>4, <1>5
<1> QED BY <1>3, <1>4, <1>6, <1>7, <1>8, QuietWith

LEMMA AnsweredAsks ==
    ASSUME NEW S, NEW n, NEW j \in Records(S, n), NEW d \in DOMAIN j.requests, NEW choice
    PROVE  /\ Asks(j, Answered(j, d, choice)) /\ Answered(j, d, choice).events = j.events
           /\ Answered(j, d, choice).proofs = j.proofs /\ Answered(j, d, choice).owner = j.owner
           /\ Answered(j, d, choice).receipts = j.receipts
           /\ Answered(j, d, choice).answers = j.answers \cup {<<d, choice>>}
           /\ DOMAIN Answered(j, d, choice).requests = DOMAIN j.requests
<1> DEFINE k == Answered(j, d, choice)
<1>1. /\ k.events = j.events /\ k.receipts = j.receipts /\ k.answers = j.answers \cup {<<d, choice>>}
      /\ k.proofs = j.proofs /\ k.owner = j.owner
      /\ k.requests = [j.requests EXCEPT ![d].state = "answered"]
  BY DEF Answered, Records
<1>2. j.requests[d] \in RequestT(n)
  BY RequestIs
<1>3. /\ [j.requests[d] EXCEPT !.state = "answered"].msg = j.requests[d].msg
      /\ [j.requests[d] EXCEPT !.state = "answered"].fact = j.requests[d].fact
  BY <1>2 DEF RequestT
<1> HIDE DEF k
<1>4. /\ DOMAIN k.requests = DOMAIN j.requests /\ \A c \in DOMAIN j.requests : c # d => k.requests[c] = j.requests[c]
      /\ k.requests[d] = [j.requests[d] EXCEPT !.state = "answered"]
  BY <1>1
<1>5. Asks(j, k)
  BY <1>1, <1>3, <1>4 DEF Asks
<1> QED BY <1>1, <1>4, <1>5 DEF k

LEMMA DismissOnce ==
    ASSUME RecordInv, RecordInv', OnceInv, NEW d \in DOMAIN job.requests, Dismiss(d)
    PROVE  OnceInv'
<1> DEFINE k == Answered(job, d, "dismiss")  row == Row(k, <<>>, {}, {d})
<1>1. job \in Records(Made(clock), clock)
  BY DEF RecordInv, RecordOk
<1>2. Asks(job, k) /\ k.events = job.events /\ k.receipts = job.receipts
  BY <1>1, AnsweredAsks
<1>3. CommitWithRow(k, row)
  BY DEF Dismiss
<1>4. row.comps = <<>>
  BY DEF Row
<1> HIDE DEF k, row
<1>5. Quiet(job, k, now)
  BY <1>2 DEF Quiet, NoneRevived, LiveEvents
<1>6. EventRow(k, row) /\ DeletionRow(k, row)
  BY <1>4, ToSetIs DEF EventRow, DeletionRow
<1> QED BY <1>3, <1>5, <1>6, QuietOnce

-----------------------------------------------------------------------------
(* Taking a message in, and confirming a fact of it                         *)

\* What recording a fact makes of the events: at most one more, which the
\* compensation u deletes.
FactMade(j, k, u, id) ==
    /\ k.receipts = j.receipts /\ k.requests = j.requests /\ k.answers = j.answers
    /\ \A e \in DOMAIN j.events : e \in DOMAIN k.events /\ k.events[e] = j.events[e]
    /\ DOMAIN k.events \ DOMAIN j.events = IF Deletes(u) THEN {id} ELSE {}
    /\ u.id = id /\ ~Restores(u)

LEMMA AfterFactMakes ==
    ASSUME NEW S, NEW n, NEW j \in Records(S, n), NEW id, id \notin S, NEW fact \in Facts, NEW at, NEW t
    PROVE  LET k == AfterFact(j, fact, id, at, t) IN FactMade(j, k, FactUndo(j, k, fact, id), id)
<1> DEFINE k == AfterFact(j, fact, id, at, t)  u == FactUndo(j, k, fact, id)
<1>1. id \notin DOMAIN j.events
  BY EventIs
<1>2. CASE fact = Submitted
  <2>1. k = AfterSubmission(j, id, at) /\ u = SubmissionUndo(j, k, id)
    BY <1>2 DEF AfterFact, FactUndo
  <2>2. k.events = j.events /\ k.receipts = j.receipts /\ k.requests = j.requests /\ k.answers = j.answers
    BY <2>1, AfterSubmissionIs
  <2> HIDE DEF k
  <2>3. u.id = id /\ ~Restores(u) /\ ~Deletes(u)
    BY <2>1 DEF SubmissionUndo, Restores, Deletes
  <2> HIDE DEF u
  <2>4. FactMade(j, k, u, id)
    BY <2>2, <2>3 DEF FactMade
  <2> QED BY <2>4 DEF u, k
<1>3. CASE fact # Submitted
  <2> DEFINE kind == fact.kind  slot == fact.slot
  <2>1. k = AfterEvent(j, id, kind, slot, at, t) /\ u = EventUndo(j, k, id)
    BY <1>3 DEF AfterFact, FactUndo
  <2> HIDE DEF kind, slot
  <2>2. EventMade(j, k, id, kind, slot)
    BY <2>1, AfterEventMakes
  <2> HIDE DEF k
  <2>3. u.id = id /\ ~Restores(u) /\ Deletes(u)
    BY <2>1 DEF EventUndo, Restores, Deletes
  <2> HIDE DEF u
  <2>4. FactMade(j, k, u, id)
    BY <1>1, <2>2, <2>3 DEF FactMade, EventMade
  <2> QED BY <2>4 DEF u, k
<1> QED BY <1>2, <1>3

\* What a batch has made of the record j so far: command n's events are new,
\* each is deleted by a compensation, and a fact is bound to one of them.
BatchEvents(b, j, n) ==
    /\ b.job.receipts = j.receipts /\ Asks(j, b.job)
    /\ \A e \in DOMAIN j.events : e \in DOMAIN b.job.events /\ b.job.events[e] = j.events[e]
    /\ \A e \in DOMAIN b.job.events : e \in DOMAIN j.events \/ e \in IdsOf(n)
BatchComps(b, n) ==
    \A c \in ToSet(b.comps) : ~Restores(c) /\ (Deletes(c) => c.id \in IdsOf(n) /\ c.id \in DOMAIN b.job.events)
BatchBound(b, n) ==
    \A key \in b.mutated :
        /\ b.bound[key] \subseteq IdsOf(n) /\ \A d, e \in b.bound[key] : d = e
        /\ \A e \in b.bound[key] : \E c \in ToSet(b.comps) : Deletes(c) /\ c.id = e
BatchDone(b, j, n, pending) ==
    /\ BatchEvents(b, j, n) /\ BatchComps(b, n) /\ BatchBound(b, n)
    /\ pending = {} \/ b.keys \subseteq pending

LEMMA BatchStarts ==
    ASSUME NEW j, NEW n, NEW pending
    PROVE  BatchDone(Batch(j), j, n, pending)
<1>1. /\ Batch(j).job = j /\ Batch(j).comps = <<>> /\ Batch(j).mutated = {} /\ Batch(j).keys = {}
  BY DEF Batch
<1>2. Asks(j, j)
  BY DEF Asks
<1> QED BY <1>1, <1>2, ToSetIs DEF BatchDone, BatchEvents, BatchComps, BatchBound

LEMMA ToSetAppend ==
    ASSUME NEW S, NEW n, NEW k \in 0 .. 1, NEW comps, CompsT(comps, k, S, n), NEW d
    PROVE  ToSet(Append(comps, d)) = ToSet(comps) \cup {d}
<1>1. CASE comps = <<>>
  <2>1. Append(comps, d) = << d >>
    BY <1>1
  <2> QED BY <1>1, <2>1, ToSetIs
<1>2. ASSUME NEW c, comps = << c >> PROVE ToSet(Append(comps, d)) = ToSet(comps) \cup {d}
  <2>1. Append(comps, d) = << c, d >>
    BY <1>2, AppendToOne
  <2>2. ToSet(<< c, d >>) = {c, d} /\ ToSet(<< c >>) = {c}
    BY ToSetIs
  <2> QED BY <1>2, <2>1, <2>2
<1> QED BY <1>1, <1>2 DEF CompsT

LEMMA AsksMore ==
    ASSUME NEW j, NEW k, NEW l, Asks(j, k), Asks(k, l)
    PROVE  Asks(j, l)
  BY DEF Asks

\* One more fact in a batch.
LEMMA FactTaken ==
    ASSUME NEW b, NEW j, NEW n, NEW pending, BatchDone(b, j, n, pending), NEW id \in IdsOf(n),
           NEW l, NEW u, FactMade(b.job, l, u, id), NEW fact, pending = {} \/ fact \in pending,
           NEW c, c.job = l, ToSet(c.comps) = ToSet(b.comps) \cup {u}, c.keys = b.keys \cup {fact},
           c.mutated = b.mutated \cup {fact},
           c.bound = Put(b.bound, fact, DOMAIN l.events \ DOMAIN b.job.events), DOMAIN b.bound = b.mutated
    PROVE  BatchDone(c, j, n, pending)
<1>1. Asks(b.job, l)
  BY DEF FactMade, Asks
<1>2. BatchEvents(c, j, n)
  <2>1. Asks(j, l)
    BY <1>1, AsksMore DEF BatchDone, BatchEvents
  <2>2. \A e \in DOMAIN j.events : e \in DOMAIN l.events /\ l.events[e] = j.events[e]
    BY DEF FactMade, BatchDone, BatchEvents
  <2>3. \A e \in DOMAIN l.events : e \in DOMAIN j.events \/ e \in IdsOf(n)
    BY DEF FactMade, BatchDone, BatchEvents
  <2>4. l.receipts = j.receipts
    BY DEF FactMade, BatchDone, BatchEvents
  <2> QED BY <2>1, <2>2, <2>3, <2>4 DEF BatchEvents
<1>3. BatchComps(c, n)
  BY DEF BatchDone, BatchComps, FactMade
<1>4. BatchBound(c, n)
  <2> DEFINE made == DOMAIN l.events \ DOMAIN b.job.events
  <2>1. made \subseteq IdsOf(n) /\ (\A d, e \in made : d = e) /\ \A e \in made : Deletes(u) /\ u.id = e
    BY DEF FactMade
  <2>2. c.bound[fact] = made /\ \A key \in b.mutated : key # fact => c.bound[key] = b.bound[key]
    BY DEF Put
  <2> HIDE DEF made
  <2> QED BY <2>1, <2>2 DEF BatchDone, BatchBound
<1> QED BY <1>2, <1>3, <1>4 DEF BatchDone

LEMMA WithCandidateDone ==
    ASSUME NEW S, NEW n \in Nat, NEW b, NEW k \in 0 .. 1, BatchOk(b, k, S, n),
           NEW m \in Messages, NEW i \in DOMAIN FactsOf[m], NEW pending,
           Id(n, i) \notin S, Id(n, i) \in IdsOf(n), NEW j, BatchDone(b, j, n, pending)
    PROVE  BatchDone(WithCandidate(b, m, i, pending, n), j, n, pending)
<1> DEFINE fact == FactsOf[m][i]
           proof == ProvenElsewhere(b, m, fact)
           id == Id(n, i)
           at == DateOf[m]
           l == AfterFact(b.job, fact, id, at, n)
           made == DOMAIN l.events \ DOMAIN b.job.events
           u == FactUndo(b.job, l, fact, id)
           q == [msg |-> m, fact |-> fact, state |-> "open"]
           c == WithCandidate(b, m, i, pending, n)
<1>1. fact \in Facts
  BY FactIn
<1>2. b.job \in Records(S, n) /\ id \notin DOMAIN b.job.requests
  BY RequestIs DEF BatchOk, RecordOk
<1>3. ~Ignored(b, m, fact, pending) => pending = {} \/ fact \in pending
  BY DEF Ignored
<1>4. CASE Ignored(b, m, fact, pending)
  <2>1. c = b
    BY <1>4 DEF WithCandidate
  <2> QED BY <2>1
<1>5. CASE ~Ignored(b, m, fact, pending) /\ proof # {}
  <2> DEFINE a == b.affected \cup UNION {b.job.receipts[r].affected : r \in proof}
             ks == b.keys \cup {fact}
  <2>1. c = [b EXCEPT !.keys = ks, !.affected = a]
    BY <1>5 DEF WithCandidate, BatchOk
  <2> HIDE DEF a, ks, c
  <2>2. c.job = b.job /\ c.comps = b.comps /\ c.mutated = b.mutated /\ c.bound = b.bound /\ c.keys = ks
    BY <2>1 DEF BatchOk
  <2>3. pending = {} \/ c.keys \subseteq pending
    BY <1>3, <1>5, <2>2 DEF BatchDone, ks
  <2>4. BatchDone(c, j, n, pending)
    BY <2>2, <2>3 DEF BatchDone, BatchEvents, BatchComps, BatchBound
  <2> QED BY <2>4 DEF c
<1>6. CASE ~Ignored(b, m, fact, pending) /\ proof = {} /\ NeedsDecision(b.job, m, fact)
  <2> DEFINE p == Put(b.job.requests, id, q)
             w == [b.job EXCEPT !.requests = p]
             as == b.asked \cup {id}
  <2>1. c = [b EXCEPT !.asked = as, !.job = w]
    BY <1>2, <1>6 DEF WithCandidate, BatchOk, Records
  <2>2. /\ DOMAIN p = DOMAIN b.job.requests \cup {id}
        /\ \A d \in DOMAIN b.job.requests : p[d] = b.job.requests[d]
    <3> HIDE DEF q, id
    <3> QED BY <1>2 DEF Put
  <2> HIDE DEF p, as, c
  <2>3. /\ w.events = b.job.events /\ w.receipts = b.job.receipts /\ w.answers = b.job.answers
        /\ w.requests = p
    BY <1>2 DEF Records
  <2> HIDE DEF w
  <2>4. Asks(b.job, w)
    BY <2>2, <2>3 DEF Asks
  <2>5. c.job = w /\ c.comps = b.comps /\ c.mutated = b.mutated /\ c.bound = b.bound /\ c.keys = b.keys
    BY <2>1 DEF BatchOk
  <2>6. BatchEvents(c, j, n)
    BY <2>3, <2>4, <2>5, AsksMore DEF BatchDone, BatchEvents
  <2>7. BatchDone(c, j, n, pending)
    BY <2>3, <2>5, <2>6 DEF BatchDone, BatchComps, BatchBound
  <2> QED BY <2>7 DEF c
<1>7. CASE ~Ignored(b, m, fact, pending) /\ proof = {} /\ ~NeedsDecision(b.job, m, fact)
  <2> DEFINE us == Append(b.comps, u)
             v == Put(b.bound, fact, made)
             ks == b.keys \cup {fact}
             ms == b.mutated \cup {fact}
             a == b.affected \cup made
  <2>1. c = [b EXCEPT !.job = l, !.comps = us, !.keys = ks, !.mutated = ms, !.bound = v, !.affected = a]
    BY <1>7 DEF WithCandidate, BatchOk
  <2>2. FactMade(b.job, l, u, id)
    <3> HIDE DEF fact, id, at, c
    <3> QED BY <1>1, <1>2, AfterFactMakes DEF id
  <2> HIDE DEF c, us, v, ks, ms, a, l, u, fact, id
  <2>3. /\ c.job = l /\ c.comps = us /\ c.keys = ks /\ c.mutated = ms /\ c.bound = v
    BY <2>1 DEF BatchOk
  <2>4. ToSet(us) = ToSet(b.comps) \cup {u} /\ DOMAIN b.bound = b.mutated
    BY ToSetAppend DEF us, BatchOk
  <2>5. id \in IdsOf(n)
    BY DEF id
  <2>6. /\ c.job = l /\ ToSet(c.comps) = ToSet(b.comps) \cup {u} /\ c.keys = b.keys \cup {fact}
        /\ c.mutated = b.mutated \cup {fact} /\ c.bound = Put(b.bound, fact, DOMAIN l.events \ DOMAIN b.job.events)
        /\ DOMAIN b.bound = b.mutated
    BY <2>3, <2>4 DEF ks, ms, v
  <2>7. BatchDone(c, j, n, pending)
    BY <1>3, <1>7, <2>2, <2>5, <2>6, FactTaken
  <2> QED BY <2>7 DEF c
<1> QED BY <1>4, <1>5, <1>6, <1>7

LEMMA TakenDone ==
    ASSUME NEW c \in Nat, NEW n, n = c + 1, NEW j, RecordOk(j, Made(c), c),
           NEW m \in Messages, DateOf[m] <= n
    PROVE  BatchDone(Taken(j, m, n), j, n, Pending(j, m))
<1> DEFINE pending == Pending(j, m)
           S == Made(c)
           S1 == S \cup {Id(n, 1)}
           b0 == Batch(j)
           b1 == WithCandidate(b0, m, 1, pending, n)
           b2 == WithCandidate(b1, m, 2, pending, n)
<1>1. n \in Nat /\ c <= n
  OBVIOUS
<1>2. /\ Id(n, 1) \notin S /\ Id(n, 2) \notin S1 /\ Id(n, 1) \in IdsOf(n) /\ Id(n, 2) \in IdsOf(n)
  <2>1. /\ Id(n, 1) \in Made(n) \ S /\ Id(n, 2) \in Made(n) \ S /\ Id(n, 1) # Id(n, 2)
    BY MadeIs
  <2> QED BY <2>1 DEF IdsOf
<1>3. \/ Len(FactsOf[m]) = 0 /\ Taken(j, m, n) = b0
      \/ Len(FactsOf[m]) = 1 /\ Taken(j, m, n) = b1
      \/ Len(FactsOf[m]) = 2 /\ Taken(j, m, n) = b2
  BY TakenIs
<1>4. DOMAIN FactsOf[m] = 1 .. Len(FactsOf[m])
  <2>1. FactsOf[m] \in Seq(EventFacts \cup {Submitted})
    BY IntakeAssumption
  <2> QED BY <2>1
<1> HIDE DEF pending, S
<1>5. BatchOk(b0, 0, S, n) /\ BatchDone(b0, j, n, pending)
  <2>1. RecordOk(j, S, n)
    BY <1>1, RecordGrows DEF S
  <2> QED BY <2>1, BatchIsOk, BatchStarts
<1>6. ASSUME 1 \in DOMAIN FactsOf[m]
      PROVE  BatchOk(b1, 1, S1, n) /\ BatchDone(b1, j, n, pending)
  <2> DEFINE i == 1  k == 0
  <2>0. k \in 0 .. 1 /\ i \in DOMAIN FactsOf[m] /\ BatchOk(b0, k, S, n) /\ BatchDone(b0, j, n, pending)
        /\ Id(n, i) \notin S /\ Id(n, i) \in IdsOf(n)
    BY <1>2, <1>5, <1>6
  <2> HIDE DEF b0, i, k
  <2>1. Handled(b0, WithCandidate(b0, m, i, pending, n), k, S, i, n)
    BY <1>1, <2>0, WithCandidateOk
  <2>2. BatchDone(WithCandidate(b0, m, i, pending, n), j, n, pending)
    BY <1>1, <2>0, WithCandidateDone
  <2> QED BY <2>1, <2>2 DEF Handled, i, k
<1>7. ASSUME 1 \in DOMAIN FactsOf[m], 2 \in DOMAIN FactsOf[m]
      PROVE  BatchDone(b2, j, n, pending)
  <2> DEFINE i == 2  k == 1
  <2>1. k \in 0 .. 1 /\ i \in DOMAIN FactsOf[m] /\ BatchOk(b1, k, S1, n) /\ BatchDone(b1, j, n, pending)
        /\ Id(n, i) \notin S1 /\ Id(n, i) \in IdsOf(n)
    BY <1>2, <1>6, <1>7
  <2> HIDE DEF b1, S1, i, k
  <2>2. BatchDone(WithCandidate(b1, m, i, pending, n), j, n, pending)
    BY <1>1, <2>1, WithCandidateDone
  <2> QED BY <2>2 DEF i
<1> HIDE DEF b0, b1, b2, S1
<1>8. CASE Len(FactsOf[m]) = 0 /\ Taken(j, m, n) = b0
  BY <1>5, <1>8 DEF pending
<1>9. CASE Len(FactsOf[m]) = 1 /\ Taken(j, m, n) = b1
  <2>1. 1 \in DOMAIN FactsOf[m]
    BY <1>4, <1>9
  <2> QED BY <1>6, <1>9, <2>1 DEF pending
<1>10. CASE Len(FactsOf[m]) = 2 /\ Taken(j, m, n) = b2
  <2>1. 1 \in DOMAIN FactsOf[m] /\ 2 \in DOMAIN FactsOf[m]
    BY <1>4, <1>10
  <2> QED BY <1>7, <1>10, <2>1 DEF pending
<1> QED BY <1>3, <1>8, <1>9, <1>10

\* The confirmed fact is recorded, and its confirmation is new.
LEMMA ConfirmedDone ==
    ASSUME NEW c \in Nat, NEW n, n = c + 1, NEW j, RecordOk(j, Made(c), c), NEW d \in DOMAIN j.requests
    PROVE  LET b == Confirmed(j, d, n)
           IN  /\ BatchDone(b, j, n, {}) /\ b.keys = {j.requests[d].fact}
               /\ <<d, "confirm">> \in b.job.answers
<1> DEFINE S == Made(c)
           choice == "confirm"
           fact == j.requests[d].fact
           at == DateOf[j.requests[d].msg]
           l == Answered(j, d, choice)
           id == Id(n, 1)
           k == AfterFact(l, fact, id, at, n)
           u == FactUndo(l, k, fact, id)
           made == DOMAIN k.events \ DOMAIN l.events
           v == Put(<<>>, fact, made)
           b == Confirmed(j, d, n)
           b0 == Batch(l)
<1>1. n \in Nat /\ c <= n /\ id \notin S /\ id \in IdsOf(n)
  <2>1. Id(n, 1) \in Made(n) \ S
    BY MadeIs
  <2> QED BY <2>1 DEF IdsOf
<1>2. fact \in Facts /\ j \in Records(S, c)
  <2>1. j.requests[d] \in RequestT(c)
    BY RequestIs DEF RecordOk
  <2> QED BY <2>1 DEF RequestT, RecordOk
<1>3. RecordOk(l, S, c)
  BY AnsweredOk
<1>4. /\ Asks(j, l) /\ l.events = j.events /\ l.receipts = j.receipts
      /\ l.answers = j.answers \cup {<<d, choice>>}
  <2> HIDE DEF choice
  <2> QED BY <1>2, AnsweredAsks
<1>5. b = [Batch(k) EXCEPT !.comps = << u >>, !.keys = {fact}, !.mutated = {fact},
                           !.bound = v, !.affected = made]
  BY DEF Confirmed
<1>6. FactMade(l, k, u, id)
  <2>1. l \in Records(S, c)
    BY <1>3 DEF RecordOk
  <2> HIDE DEF l, fact, id, at, S
  <2> QED BY <1>1, <1>2, <2>1, AfterFactMakes
<1> HIDE DEF l, k, u, v, made, b, fact, id, S, choice
<1>7. /\ b.job = k /\ b.comps = << u >> /\ b.keys = {fact} /\ b.mutated = {fact} /\ b.bound = v
      /\ b0.job = l /\ b0.comps = <<>> /\ b0.keys = {} /\ b0.mutated = {} /\ b0.bound = <<>>
  BY <1>5 DEF Batch
<1>8. BatchDone(b0, j, n, {})
  <2>1. BatchEvents(b0, j, n)
    BY <1>4, <1>7 DEF BatchEvents
  <2> QED BY <1>7, <2>1, ToSetIs DEF BatchDone, BatchComps, BatchBound
<1>9. ToSet(b.comps) = ToSet(b0.comps) \cup {u} /\ DOMAIN b0.bound = b0.mutated
  BY <1>7, ToSetIs
<1> HIDE DEF b0
<1>10. /\ b.job = k /\ b.keys = b0.keys \cup {fact} /\ b.mutated = b0.mutated \cup {fact}
       /\ b.bound = Put(b0.bound, fact, DOMAIN k.events \ DOMAIN b0.job.events)
       /\ FactMade(b0.job, k, u, id)
  BY <1>6, <1>7 DEF v, made
<1> DEFINE none == {}
<1> HIDE DEF none
<1>11. BatchDone(b0, j, n, none) /\ (none = {} \/ fact \in none)
  BY <1>8 DEF none
<1>12. BatchDone(b, j, n, none)
  BY <1>1, <1>9, <1>10, <1>11, FactTaken
<1>13. <<d, "confirm">> \in b.job.answers
  BY <1>4, <1>6, <1>7 DEF FactMade, choice
<1> QED BY <1>7, <1>12, <1>13 DEF none, b, fact

\* The receipt of a batch, added to the record.
LEMMA AfterObservationIs ==
    ASSUME NEW S, NEW n, NEW b, b.job \in Records(S, n), NEW m, NEW t
    PROVE  LET k == AfterObservation(b, m, t)
           IN  /\ k.events = b.job.events /\ k.requests = b.job.requests /\ k.answers = b.job.answers
               /\ k.proofs = b.job.proofs /\ k.owner = b.job.owner
               /\ DOMAIN k.receipts = DOMAIN b.job.receipts \cup {t} /\ k.receipts[t] = Receipt(m, b)
               /\ \A r \in DOMAIN b.job.receipts : r # t => k.receipts[r] = b.job.receipts[r]
<1> DEFINE w == Put(b.job.receipts, t, Receipt(m, b))  k == AfterObservation(b, m, t)
<1>1. /\ k.events = b.job.events /\ k.requests = b.job.requests /\ k.answers = b.job.answers
      /\ k.receipts = w /\ k.proofs = b.job.proofs /\ k.owner = b.job.owner
  BY DEF AfterObservation, Records
<1>2. /\ DOMAIN w = DOMAIN b.job.receipts \cup {t} /\ w[t] = Receipt(m, b)
      /\ \A r \in DOMAIN b.job.receipts : r # t => w[r] = b.job.receipts[r]
  BY DEF Put
<1> HIDE DEF w
<1> QED BY <1>1, <1>2

\* When its facts are owed, or none of them stands, or are confirmed once more.
Welcome(j, k, m, keys) ==
    \A key \in keys :
        \/ key \in Pending(j, m)
        \/ Standing(j, m, key) = {}
        \/ ConfirmsIn(j, m, key) # ConfirmsIn(k, m, key)

LEMMA BatchAdds ==
    ASSUME NEW c \in Nat, NEW n, n = c + 1, NEW j, RecordOk(j, Made(c), c), ReceiptsRest(j),
           NEW m, NEW b, NEW x, NEW pending, BatchOk(b, x, Made(n), n), BatchDone(b, j, n, pending),
           NEW k, k = AfterObservation(b, m, n), Welcome(j, k, m, b.keys),
           NEW row, row.comps = b.comps, row.objects = Written(j, k)
    PROVE  Adds(j, k, m, n) /\ RowClaims(k, n, row)
<1> DEFINE rec == Receipt(m, b)
<1>1. /\ k.events = b.job.events /\ k.requests = b.job.requests /\ k.answers = b.job.answers
      /\ DOMAIN k.receipts = DOMAIN j.receipts \cup {n} /\ k.receipts[n] = rec
      /\ \A r \in DOMAIN j.receipts : r # n => k.receipts[r] = j.receipts[r]
  <2>1. b.job \in Records(Made(n), n) /\ b.job.receipts = j.receipts
    BY DEF BatchOk, RecordOk, BatchDone, BatchEvents
  <2> QED BY <2>1, AfterObservationIs
<1>2. /\ rec.msg = m /\ rec.keys = b.keys /\ rec.mutated = b.mutated /\ rec.bound = b.bound /\ rec.gone = {}
      /\ rec.status # "undone" /\ (rec.keys # {} => rec.status = "committed")
  BY DEF Receipt
<1>3. n \notin DOMAIN j.receipts
  BY OldReceipts
<1>4. Asks(j, k)
  BY <1>1 DEF BatchDone, BatchEvents, Asks
<1>5. \A e \in LiveEvents(k) : e \in LiveEvents(j) \/ e \in IdsOf(n)
  BY <1>1 DEF BatchDone, BatchEvents, LiveEvents
<1>6. b.mutated \subseteq b.keys /\ BatchBound(b, n) /\ BatchComps(b, n)
  BY DEF BatchOk, BatchDone
<1> HIDE DEF rec
<1>7. Adds(j, k, m, n)
  <2>1. \A r \in DOMAIN j.receipts : k.receipts[r] = j.receipts[r]
    BY <1>1, <1>3
  <2>2. \A key \in rec.mutated : rec.bound[key] \subseteq IdsOf(n) /\ \A d, e \in rec.bound[key] : d = e
    BY <1>2, <1>6 DEF BatchBound
  <2>3. rec.mutated \subseteq rec.keys
    BY <1>2, <1>6
  <2> QED BY <1>1, <1>2, <1>3, <1>4, <1>5, <2>1, <2>2, <2>3 DEF Adds, Welcome
<1>8. EventRow(k, row)
  <2> SUFFICES ASSUME NEW u \in ToSet(b.comps), Deletes(u)
               PROVE  <<"event", u.id>> \in row.objects /\ u.id \in DOMAIN k.events
    BY DEF EventRow
  <2>1. u.id \in IdsOf(n) /\ u.id \in DOMAIN k.events
    BY <1>1, <1>6 DEF BatchComps
  <2>2. IdsOf(n) \cap Made(c) = {}
    BY DEF IdsOf, Made, Id
  <2>3. u.id \notin DOMAIN j.events
    BY <2>1, <2>2, EventIs DEF RecordOk
  <2> QED BY <2>1, <2>3, NewIsWritten
<1>9. ReceiptRow(k, n, row)
  <2>1. <<"receipt", n>> \in row.objects
    BY <1>1, <1>3, NewIsWritten
  <2>2. \A key \in rec.mutated : \A e \in rec.bound[key] : \E u \in ToSet(row.comps) : Deletes(u) /\ u.id = e
    BY <1>2, <1>6 DEF BatchBound
  <2> QED BY <1>1, <1>2, <2>1, <2>2 DEF ReceiptRow
<1>10. DeletionRow(k, row)
  BY <1>6 DEF DeletionRow, BatchComps
<1> QED BY <1>7, <1>8, <1>9, <1>10 DEF RowClaims

\* A record of which nothing is owed, and which is not taken for replayed, has
\* no receipt that stands.
LEMMA NothingStands ==
    ASSUME NEW c \in Nat, NEW j, RecordOk(j, Made(c), c), ReceiptsRest(j), NEW m,
           Pending(j, m) = {}, ~Replayed(j, m), NEW key
    PROVE  Standing(j, m, key) = {}
<1> DEFINE s == {r \in ReceiptsOf(j, m) : j.receipts[r].status # "undone"}
<1>1. s \in SUBSET (0 .. c)
  BY ReceiptTimes DEF ReceiptsOf
<1>2. ASSUME NEW r \in s PROVE \E q \in s : q > r
  <2>1. r \in DOMAIN j.receipts /\ r \in ReceiptsOf(j, m) /\ j.receipts[r].gone # {}
    BY DEF Replayed, ReceiptsOf
  <2>2. PICK g \in j.receipts[r].gone : TRUE
    BY <2>1
  <2> DEFINE lost == g.key  after == g.after
  <2>3. r <= after /\ after \in 0 .. c
    BY <2>1, ReceiptTimes DEF ReceiptsRest, ReceiptRests
  <2>4. TakenAgain(j, m, lost, after)
    <3>1. lost \notin Pending(j, m)
      OBVIOUS
    <3>2. g.key = lost /\ g.after = after
      OBVIOUS
    <3> HIDE DEF lost, after
    <3> QED BY <2>1, <3>1, <3>2, PendingIs
  <2> HIDE DEF lost, after
  <2>5. PICK q \in ReceiptsOf(j, m) : q > after /\ Stands(j, q, lost)
    BY <2>4 DEF TakenAgain
  <2>6. q \in s /\ q \in 1 .. c
    BY <2>5, ReceiptTimes DEF Stands, ReceiptsOf
  <2>7. q > r
    BY <1>1, <2>3, <2>5, <2>6
  <2> QED BY <2>6, <2>7
<1> HIDE DEF s
<1>3. s = {}
  <2> SUFFICES ASSUME s # {} PROVE FALSE
    OBVIOUS
  <2>1. PICK top \in s : \A d \in s : d <= top
    BY <1>1, GreatestOf
  <2>2. PICK q \in s : q > top
    BY <1>2
  <2> QED BY <1>1, <2>1, <2>2
<1> QED BY <1>3 DEF s, Standing, Stands

LEMMA ObserveOnce ==
    ASSUME RecordInv, RecordInv', OnceInv, NEW m \in Messages, Observe(m)
    PROVE  OnceInv'
<1> DEFINE c == clock  n == now  j == job
           b == Taken(j, m, n)  k == AfterObservation(b, m, n)
           row == Row(k, b.comps, b.asked, {})
<1>1. c \in Nat /\ n = c + 1
  BY HistoryAssumption DEF RecordInv, Times, now
<1>2. RecordOk(j, Made(c), c) /\ ReceiptsRest(j)
  BY DEF RecordInv, OnceInv, ClaimsInv
<1>3. CommitWithRow(k, row) /\ DateOf[m] <= n /\ ~Replayed(j, m)
  BY DEF Observe
<1>4. row.comps = b.comps /\ row.objects = Written(j, k)
  BY DEF Row
<1> HIDE DEF c, n, j, b, k, row
<1>5. BatchOk(b, 2, Made(n), n) /\ BatchDone(b, j, n, Pending(j, m))
  BY <1>1, <1>2, <1>3, TakenOk, TakenDone DEF b
<1>6. Welcome(j, k, m, b.keys)
  <2>1. CASE Pending(j, m) = {}
    BY <1>1, <1>2, <1>3, <2>1, NothingStands DEF Welcome
  <2>2. CASE Pending(j, m) # {}
    BY <1>5, <2>2 DEF Welcome, BatchDone
  <2> QED BY <2>1, <2>2
<1>7. Adds(j, k, m, n) /\ RowClaims(k, n, row)
  <2> DEFINE x == 2  pending == Pending(j, m)
  <2>1. BatchOk(b, x, Made(n), n) /\ BatchDone(b, j, n, pending)
    BY <1>5
  <2> HIDE DEF x, pending
  <2>2. k = AfterObservation(b, m, n)
    BY DEF k
  <2> QED BY <1>1, <1>2, <1>4, <1>6, <2>1, <2>2, BatchAdds
<1>8. Moved(job, k, now) /\ RowClaims(k, now, row)
  BY <1>7 DEF Moved, j, n
<1> QED BY <1>3, <1>8, OnceWithRow

LEMMA ConfirmOnce ==
    ASSUME RecordInv, RecordInv', OnceInv, NEW d \in DOMAIN job.requests, Confirm(d)
    PROVE  OnceInv'
<1> DEFINE c == clock  n == now  j == job  m == j.requests[d].msg
           b == Confirmed(j, d, n)  k == AfterObservation(b, m, n)
           row == Row(k, b.comps, {d}, {d})
<1>1. c \in Nat /\ n = c + 1
  BY HistoryAssumption DEF RecordInv, Times, now
<1>2. RecordOk(j, Made(c), c) /\ ReceiptsRest(j) /\ d \in DOMAIN j.requests
  BY DEF RecordInv, OnceInv, ClaimsInv
<1>3. CommitWithRow(k, row) /\ <<d, "confirm">> \notin j.answers
  BY DEF Confirm, Answerable
<1>4. row.comps = b.comps /\ row.objects = Written(j, k)
  BY DEF Row
<1> HIDE DEF c, n, j, b, k, row
<1> DEFINE none == {}  x == 1
<1>5. BatchOk(b, x, Made(n), n) /\ BatchDone(b, j, n, none)
      /\ b.keys = {j.requests[d].fact} /\ <<d, "confirm">> \in b.job.answers
  BY <1>1, <1>2, ConfirmedOk, ConfirmedDone DEF b
<1> HIDE DEF none, x, m
<1>6. k = AfterObservation(b, m, n)
  BY DEF k
<1>7. k.requests = b.job.requests /\ k.answers = b.job.answers
  <2>1. b.job \in Records(Made(n), n)
    BY <1>5 DEF BatchOk, RecordOk
  <2> QED BY <1>6, <2>1, AfterObservationIs
<1>8. Welcome(j, k, m, b.keys)
  <2> DEFINE key == j.requests[d].fact
  <2>1. /\ d \in DOMAIN k.requests /\ k.requests[d].msg = j.requests[d].msg
        /\ k.requests[d].fact = j.requests[d].fact
    BY <1>2, <1>5, <1>7 DEF BatchDone, BatchEvents, Asks
  <2>2. d \in ConfirmsIn(k, m, key)
    BY <1>5, <1>7, <2>1 DEF ConfirmsIn, m
  <2>3. d \notin ConfirmsIn(j, m, key)
    BY <1>3 DEF ConfirmsIn
  <2>4. ConfirmsIn(j, m, key) # ConfirmsIn(k, m, key)
    BY <2>2, <2>3
  <2> QED BY <1>5, <2>4 DEF Welcome
<1>9. Adds(j, k, m, n) /\ RowClaims(k, n, row)
  BY <1>1, <1>2, <1>4, <1>5, <1>6, <1>8, BatchAdds
<1>10. Moved(job, k, now) /\ RowClaims(k, now, row)
  BY <1>9 DEF Moved, j, n
<1>11. CommitWithRow(k, row)
  BY <1>3
<1> QED BY <1>10, <1>11, OnceWithRow

-----------------------------------------------------------------------------
(* A correction, and an undo                                                *)

\* A receipt that loses facts keeps its claims.
LEMMA LosingIs ==
    ASSUME NEW S, NEW n, NEW rec \in ReceiptT(S, n), NEW keys, NEW corrected, NEW at
    PROVE  LET new == Losing(rec, keys, corrected, at)
           IN  /\ SameClaims(rec, new) /\ new.status = rec.status /\ new.undone = rec.undone
               /\ \A g \in new.gone : g \in rec.gone \/ (g.after = at /\ g.key \in keys)
               /\ \A key : key \in GoneKeys(new) <=> key \in GoneKeys(rec) \/ key \in keys
<1> DEFINE more == {[key |-> key, corrected |-> corrected, after |-> at] : key \in keys}
           gone == rec.gone \cup more
           new == Losing(rec, keys, corrected, at)
<1>1. new = [rec EXCEPT !.gone = gone]
  BY DEF Losing, ReceiptT
<1>2. \A g \in more : g.after = at /\ g.key \in keys
  OBVIOUS
<1>3. \A key \in keys : \E g \in more : g.key = key
  <2> TAKE key \in keys
  <2> DEFINE g == [key |-> key, corrected |-> corrected, after |-> at]
  <2>1. g \in more /\ g.key = key
    OBVIOUS
  <2> QED BY <2>1
<1> HIDE DEF new, more
<1>4. SameClaims(rec, new) /\ new.status = rec.status /\ new.undone = rec.undone /\ new.gone = gone
  BY <1>1 DEF ReceiptT, SameClaims
<1>5. \A key : key \in GoneKeys(new) <=> key \in GoneKeys(rec) \/ key \in keys
  BY <1>2, <1>3, <1>4 DEF GoneKeys
<1> QED BY <1>2, <1>4, <1>5 DEF new

LEMMA AfterInvalidationIs ==
    ASSUME NEW S, NEW n, NEW j \in Records(S, n), NEW e
    PROVE  LET k == AfterInvalidation(j, e)
           IN  /\ k.events = [j.events EXCEPT ![e].dead = TRUE] /\ k.requests = j.requests
               /\ k.answers = j.answers /\ k.receipts = j.receipts /\ k.proofs = j.proofs
               /\ DOMAIN k = DOMAIN j
<1> DEFINE surviving == LiveEvents(j) \ {e}
           heir == LastMade(j, surviving)
           rival == LastMade(j, surviving \ {heir})
           unclear == \/ surviving = {}
                      \/ /\ surviving # {heir}
                         /\ j.events[rival].at = j.events[heir].at
                         /\ j.events[rival].type # j.events[heir].type
           stage == IF unclear THEN "unknown" ELSE j.events[heir].type
           owner == IF unclear THEN Nobody ELSE [id |-> heir, at |-> j.events[heir].at]
           process == [on |-> TRUE, stage |-> stage, owner |-> owner, last |-> owner.at]
           x == [j.events EXCEPT ![e].dead = TRUE]
           k == [j EXCEPT !.events = x]
           l == AfterInvalidation(j, e)
<1>1. \/ l = k
      \/ l = [k EXCEPT !.stage = stage, !.owner = owner]
      \/ l = [k EXCEPT !.process = process]
      \/ l = [[k EXCEPT !.stage = stage, !.owner = owner] EXCEPT !.process = process]
  <2>1. k = [j EXCEPT !.events[e].dead = TRUE]
    BY DEF Records
  <2> HIDE DEF surviving, k
  <2> QED BY <2>1 DEF AfterInvalidation, surviving
<1>2. /\ k.events = x /\ k.requests = j.requests /\ k.answers = j.answers /\ k.receipts = j.receipts
      /\ k.proofs = j.proofs
      /\ DOMAIN k = {"stage", "part", "owner", "proofs", "process", "tasks", "events", "nodes",
                     "receipts", "requests", "answers"}
      /\ DOMAIN k = DOMAIN j
  BY DEF Records
<1> HIDE DEF k, l, x, stage, owner, process
<1>3. l.events = x /\ l.requests = j.requests /\ l.answers = j.answers /\ l.receipts = j.receipts
      /\ l.proofs = j.proofs /\ DOMAIN l = DOMAIN j
  BY <1>1, <1>2
<1> QED BY <1>3 DEF l, x

\* What a correction makes of the events, and of a receipt.
CorrectionIs(j, k, r, e, at) ==
    /\ DOMAIN k.events = DOMAIN j.events /\ k.events[e].dead
    /\ \A d \in DOMAIN j.events : d # e => k.events[d] = j.events[d]
    /\ k.requests = j.requests /\ k.answers = j.answers /\ k.proofs = j.proofs
    /\ DOMAIN k.receipts = DOMAIN j.receipts
    /\ \A q \in DOMAIN j.receipts :
          k.receipts[q] = IF j.receipts[q].msg # j.receipts[r].msg THEN j.receipts[q]
                          ELSE Losing(j.receipts[q], Revoked(j, r, e, q), TRUE, at)

LEMMA AfterCorrectionIs ==
    ASSUME NEW S, NEW n, NEW j \in Records(S, n), NEW e \in DOMAIN j.events, NEW r, NEW at
    PROVE  CorrectionIs(j, AfterCorrection(j, r, e, at), r, e, at)
<1> DEFINE i == AfterInvalidation(j, e)
           x == [j.events EXCEPT ![e].dead = TRUE]
           v(q) == IF j.receipts[q].msg # j.receipts[r].msg THEN j.receipts[q]
                   ELSE Losing(j.receipts[q], Revoked(j, r, e, q), TRUE, at)
           w == [q \in DOMAIN j.receipts |-> v(q)]
           k == AfterCorrection(j, r, e, at)
<1>1. /\ i.events = x /\ i.requests = j.requests /\ i.answers = j.answers /\ i.proofs = j.proofs
  BY AfterInvalidationIs
<1>2. "receipts" \in DOMAIN i
  <2>1. DOMAIN i = DOMAIN j
    BY AfterInvalidationIs
  <2> HIDE DEF i
  <2> QED BY <2>1 DEF Records
<1>3. k = [i EXCEPT !.receipts = w]
  BY DEF AfterCorrection
<1>4. /\ DOMAIN x = DOMAIN j.events /\ x[e].dead
      /\ \A d \in DOMAIN j.events : d # e => x[d] = j.events[d]
  <2>1. j.events[e] \in EventT(S, n)
    BY EventIs
  <2>2. [j.events[e] EXCEPT !.dead = TRUE].dead
    BY <2>1 DEF EventT
  <2> QED BY <2>2
<1>5. DOMAIN w = DOMAIN j.receipts /\ \A q \in DOMAIN j.receipts : w[q] = v(q)
  OBVIOUS
<1> HIDE DEF i, w, x, k, v
<1>6. k.events = x /\ k.requests = j.requests /\ k.answers = j.answers /\ k.receipts = w /\ k.proofs = j.proofs
  BY <1>1, <1>2, <1>3
<1>7. CorrectionIs(j, k, r, e, at)
  BY <1>4, <1>5, <1>6 DEF CorrectionIs, v
<1> QED BY <1>7 DEF k

LEMMA CorrectionWeakens ==
    ASSUME NEW c \in Nat, NEW n, n = c + 1, NEW j, RecordOk(j, Made(c), c), ClaimsInv(j),
           NEW e \in DOMAIN j.events, NEW r \in DOMAIN j.receipts, Correctable(j, r, e),
           NEW k, k = AfterCorrection(j, r, e, n)
    PROVE  Weakens(j, k, n)
<1> DEFINE revoked(q) == Revoked(j, r, e, q)
<1>0. j \in Records(Made(c), c)
  BY DEF RecordOk
<1>1. /\ DOMAIN k.events = DOMAIN j.events /\ k.events[e].dead
      /\ \A d \in DOMAIN j.events : d # e => k.events[d] = j.events[d]
      /\ k.requests = j.requests /\ k.answers = j.answers
      /\ DOMAIN k.receipts = DOMAIN j.receipts
      /\ \A q \in DOMAIN j.receipts :
            k.receipts[q] = IF j.receipts[q].msg # j.receipts[r].msg THEN j.receipts[q]
                            ELSE Losing(j.receipts[q], revoked(q), TRUE, n)
  <2> DEFINE S == Made(c)
  <2>1. j \in Records(S, c)
    BY <1>0
  <2> HIDE DEF S
  <2>2. CorrectionIs(j, k, r, e, n)
    BY <2>1, AfterCorrectionIs
  <2> QED BY <2>2 DEF CorrectionIs
<1>2. LiveEvents(k) \subseteq LiveEvents(j) \ {e}
  BY <1>1 DEF LiveEvents
<1>3. \A q \in DOMAIN j.receipts : \A key \in revoked(q) : key \in j.receipts[q].mutated =>
          \A d \in j.receipts[q].bound[key] : d = e
  BY DEF Revoked, OwnedKeys, ClaimsInv, ReceiptsRest, ReceiptRests
<1>4. ASSUME NEW key \in OwnedKeys(j, r, e)
      PROVE  Stands(j, r, key) /\ key \in revoked(r)
  <2>1. e \in LiveEvents(j)
    BY DEF Correctable, LiveEvents
  <2>2. Stands(j, r, key)
    BY <2>1 DEF OwnedKeys, ClaimsInv, LiveIsClaimed
  <2> QED BY <2>2 DEF Revoked, Stands
<1>5. ASSUME NEW q \in DOMAIN j.receipts, j.receipts[q].msg = j.receipts[r].msg
      PROVE  /\ SameClaims(j.receipts[q], k.receipts[q])
             /\ k.receipts[q].status = j.receipts[q].status /\ k.receipts[q].undone = j.receipts[q].undone
             /\ \A g \in k.receipts[q].gone :
                   g \in j.receipts[q].gone \/ (g.after = n /\ g.key \in revoked(q))
             /\ \A key : Stands(k, q, key) <=> Stands(j, q, key) /\ key \notin revoked(q)
  <2> DEFINE rec == j.receipts[q]  new == k.receipts[q]  keys == revoked(q)  corrected == TRUE
  <2>1. rec \in ReceiptT(Made(c), c)
    BY <1>0, ReceiptIs
  <2>2. new = Losing(rec, keys, corrected, n)
    BY <1>1, <1>5
  <2> HIDE DEF rec, new, keys, corrected
  <2>3. /\ SameClaims(rec, new) /\ new.status = rec.status /\ new.undone = rec.undone
        /\ \A g \in new.gone : g \in rec.gone \/ (g.after = n /\ g.key \in keys)
        /\ \A key : key \in GoneKeys(new) <=> key \in GoneKeys(rec) \/ key \in keys
    BY <2>1, <2>2, LosingIs
  <2>4. \A key : Stands(k, q, key) <=> Stands(j, q, key) /\ key \notin keys
    BY <2>3 DEF Stands, SameClaims, rec, new
  <2> QED BY <2>3, <2>4 DEF rec, new, keys
<1> HIDE DEF revoked
<1>6. ASSUME NEW q \in DOMAIN j.receipts, j.receipts[q].msg # j.receipts[r].msg
      PROVE  Loses(j, k, q) /\ Notes(j, k, q, n)
  <2>1. k.receipts[q] = j.receipts[q]
    BY <1>1, <1>6
  <2> QED BY <2>1, SameLoses DEF Notes
<1>7. ASSUME NEW q \in DOMAIN j.receipts, j.receipts[q].msg = j.receipts[r].msg
      PROVE  Loses(j, k, q) /\ Notes(j, k, q, n)
  <2>1. Loses(j, k, q)
    <3>1. ASSUME NEW key \in j.receipts[q].mutated, Lost(j, k, q, key), NEW d \in j.receipts[q].bound[key]
          PROVE  d \in DOMAIN j.events /\ d \notin LiveEvents(k)
      <4>1. key \in revoked(q)
        BY <1>5, <1>7, <3>1 DEF Lost
      <4> QED BY <1>2, <1>3, <3>1, <4>1
    <3> QED BY <1>5, <1>7, <3>1 DEF Loses
  <2>2. ASSUME NEW g \in k.receipts[q].gone, g \notin j.receipts[q].gone
        PROVE  g.after = n /\ \E p \in ReceiptsOf(j, j.receipts[q].msg) : Lost(j, k, p, g.key)
    <3> DEFINE key == g.key
    <3>1. g.after = n /\ key \in revoked(q)
      BY <1>5, <1>7, <2>2
    <3> HIDE DEF key
    <3>2. key \in OwnedKeys(j, r, e)
      BY <3>1 DEF revoked, Revoked
    <3>3. Lost(j, k, r, key)
      BY <1>4, <1>5, <3>2 DEF Lost
    <3>4. r \in ReceiptsOf(j, j.receipts[q].msg)
      BY <1>7 DEF ReceiptsOf
    <3> QED BY <3>1, <3>3, <3>4 DEF key
  <2>3. Notes(j, k, q, n)
    BY <1>5, <1>7, <2>2 DEF Notes
  <2> QED BY <2>1, <2>3
<1>8. Asks(j, k)
  BY <1>1 DEF Asks
<1> QED BY <1>1, <1>2, <1>6, <1>7, <1>8 DEF Weakens

LEMMA InvalidateOnce ==
    ASSUME RecordInv, RecordInv', OnceInv, NEW e \in DOMAIN job.events, NEW r \in DOMAIN job.receipts,
           Invalidate(e, r)
    PROVE  OnceInv'
<1> DEFINE c == clock  n == now  j == job  k == AfterCorrection(job, r, e, now)
<1>1. c \in Nat /\ n = c + 1
  BY HistoryAssumption DEF RecordInv, Times, now
<1>2. RecordOk(j, Made(c), c) /\ ClaimsInv(j)
  BY DEF RecordInv, OnceInv
<1>3. CommitFinal(k) /\ Correctable(j, r, e) /\ k = AfterCorrection(j, r, e, n)
  BY DEF Invalidate
<1>4. e \in DOMAIN j.events /\ r \in DOMAIN j.receipts
  OBVIOUS
<1> HIDE DEF c, n, j, k
<1>5. Weakens(j, k, n)
  BY <1>1, <1>2, <1>3, <1>4, CorrectionWeakens
<1>6. Moved(job, k, now)
  BY <1>5 DEF Moved, j, n
<1> QED BY <1>3, <1>6, OnceFinal

\* What an undo makes of the receipts: its own is undone, and a later one loses
\* what it claims on its account.
ReceiptsUndone(j, k, r, at) ==
    /\ DOMAIN k.receipts = DOMAIN j.receipts /\ r \in DOMAIN j.receipts
    /\ SameClaims(j.receipts[r], k.receipts[r])
    /\ k.receipts[r].status = "undone" /\ k.receipts[r].gone = j.receipts[r].gone
    /\ \A q \in DOMAIN j.receipts : q # r =>
          k.receipts[q] = IF q > r /\ j.receipts[q].status = "committed"
                          THEN Losing(j.receipts[q], Orphaned(j, r, q), FALSE, at)
                          ELSE j.receipts[q]

LEMMA WithReceiptUndoneIs ==
    ASSUME NEW S, NEW n, NEW j \in Records(S, n), NEW i, i.receipts = j.receipts, "receipts" \in DOMAIN i,
           NEW r \in DOMAIN j.receipts, NEW at, NEW k, k = WithReceiptUndone(i, r, at)
    PROVE  /\ ReceiptsUndone(j, k, r, at)
           /\ k.events = i.events /\ k.requests = i.requests /\ k.answers = i.answers /\ k.proofs = i.proofs
<1> DEFINE v(q) == IF q = r THEN [j.receipts[q] EXCEPT !.status = "undone", !.undone = at]
                   ELSE IF q > r /\ j.receipts[q].status = "committed"
                   THEN Losing(j.receipts[q], Orphaned(j, r, q), FALSE, at)
                   ELSE j.receipts[q]
           w == [q \in DOMAIN j.receipts |-> v(q)]
<1>1. k = [i EXCEPT !.receipts = w]
  <2>1. \A q : Orphaned(i, r, q) = Orphaned(j, r, q)
    BY DEF Orphaned
  <2> QED BY <2>1 DEF WithReceiptUndone
<1>2. DOMAIN w = DOMAIN j.receipts /\ \A q \in DOMAIN j.receipts : w[q] = v(q)
  OBVIOUS
<1>3. \A q \in DOMAIN j.receipts : q # r =>
          v(q) = IF q > r /\ j.receipts[q].status = "committed"
                 THEN Losing(j.receipts[q], Orphaned(j, r, q), FALSE, at)
                 ELSE j.receipts[q]
  OBVIOUS
<1>4. SameClaims(j.receipts[r], v(r)) /\ v(r).status = "undone" /\ v(r).gone = j.receipts[r].gone
  <2> DEFINE rec == j.receipts[r]
  <2>1. rec \in ReceiptT(S, n)
    BY ReceiptIs
  <2>2. v(r) = [rec EXCEPT !.status = "undone", !.undone = at]
    OBVIOUS
  <2> HIDE DEF rec, v
  <2>3. SameClaims(rec, v(r)) /\ v(r).status = "undone" /\ v(r).gone = rec.gone
    BY <2>1, <2>2 DEF ReceiptT, SameClaims
  <2> QED BY <2>3 DEF rec
<1> HIDE DEF v, w
<1>5. k.receipts = w /\ k.events = i.events /\ k.requests = i.requests /\ k.answers = i.answers
      /\ k.proofs = i.proofs
  BY <1>1
<1> QED BY <1>2, <1>3, <1>4, <1>5 DEF ReceiptsUndone

\* What an undo makes of the record that its compensations left.
SameQuestions(j, k) ==
    /\ k.answers = j.answers /\ DOMAIN k.requests = DOMAIN j.requests
    /\ \A d \in DOMAIN j.requests :
          k.requests[d].msg = j.requests[d].msg /\ k.requests[d].fact = j.requests[d].fact

LEMMA UndoneBatchIs ==
    ASSUME NEW c \in Nat, NEW n, n = c + 1, NEW j, RecordOk(j, Made(c), c), NEW comps,
           RowCompsT(comps, DOMAIN j.nodes, Made(c), c), NEW r, NEW asked, NEW reopened,
           UndoneBatch(j, r, comps, asked, reopened, n).ok,
           NEW m, m = UndoneBatch(j, r, comps, asked, reopened, n).job
    PROVE  \E l : /\ CompsDone(comps, j, l) /\ m.events = l.events /\ m.proofs = l.proofs /\ SameQuestions(j, m)
                  /\ \/ m.receipts = j.receipts /\ r \notin DOMAIN j.receipts
                     \/ ReceiptsUndone(j, m, r, n)
<1> DEFINE back == Compensate(j, comps, n)
           l == back.job
           v(d) == IF d \in reopened THEN [l.requests[d] EXCEPT !.state = "open"]
                   ELSE IF d \in asked THEN [l.requests[d] EXCEPT !.state = "superseded"]
                   ELSE l.requests[d]
           w == [d \in DOMAIN l.requests |-> v(d)]
           k == [l EXCEPT !.requests = w]
           S == Made(n)
<1>1. back.ok
  BY DEF UndoneBatch
<1>2. RecordOk(l, S, n) /\ l \in Records(S, n) /\ CompsDone(comps, j, l)
  BY <1>1, CompensateOk, CompensateDone DEF RecordOk
<1>3. (m = k /\ r \notin DOMAIN k.receipts) \/ (m = WithReceiptUndone(k, r, n) /\ r \in DOMAIN k.receipts)
  BY <1>1, <1>2 DEF UndoneBatch, Restored, Records
<1> HIDE DEF l, S
<1>4. /\ k.events = l.events /\ k.receipts = l.receipts /\ k.answers = l.answers /\ k.requests = w
      /\ k.proofs = l.proofs /\ "receipts" \in DOMAIN k
  BY <1>2 DEF Records
<1>5. DOMAIN w = DOMAIN l.requests /\ \A d \in DOMAIN l.requests : w[d] = v(d)
  OBVIOUS
<1>6. ASSUME NEW d \in DOMAIN l.requests
      PROVE  v(d).msg = l.requests[d].msg /\ v(d).fact = l.requests[d].fact
  <2> DEFINE q == l.requests[d]
  <2>1. q \in RequestT(n)
    BY <1>2, RequestIs
  <2> HIDE DEF q
  <2>2. \A x : /\ [q EXCEPT !.state = x].msg = q.msg
               /\ [q EXCEPT !.state = x].fact = q.fact
    BY <2>1 DEF RequestT
  <2> QED BY <2>2 DEF q
<1>7. j \in Records(Made(c), c)
  BY DEF RecordOk
<1> HIDE DEF w, v, k
<1>8. l.requests = j.requests /\ l.answers = j.answers /\ l.receipts = j.receipts
  BY <1>2 DEF CompsDone
<1>9. SameQuestions(j, k)
  BY <1>4, <1>5, <1>6, <1>8 DEF SameQuestions
<1> DEFINE u == WithReceiptUndone(k, r, n)
<1>10. CASE m = k /\ r \notin DOMAIN k.receipts
  <2>1. m.events = l.events /\ m.proofs = l.proofs /\ SameQuestions(j, m) /\ m.receipts = j.receipts /\ r \notin DOMAIN j.receipts
    BY <1>4, <1>8, <1>9, <1>10
  <2> QED BY <1>2, <2>1
<1>11. CASE m = u /\ r \in DOMAIN k.receipts
  <2> DEFINE T == Made(c)
  <2>1. j \in Records(T, c) /\ k.receipts = j.receipts /\ "receipts" \in DOMAIN k
    BY <1>4, <1>7, <1>8
  <2> HIDE DEF T
  <2>2. ReceiptsUndone(j, m, r, n) /\ m.events = k.events /\ m.requests = k.requests /\ m.answers = k.answers
        /\ m.proofs = k.proofs
    BY <1>11, <2>1, WithReceiptUndoneIs
  <2>4. m.events = l.events /\ m.proofs = l.proofs /\ SameQuestions(j, m)
    BY <1>4, <1>9, <2>2 DEF SameQuestions
  <2> QED BY <1>2, <2>2, <2>4
<1> QED BY <1>3, <1>10, <1>11
-----------------------------------------------------------------------------
LEMMA UndoWeakens ==
    ASSUME NEW c \in Nat, NEW n, n = c + 1, NEW j, RecordOk(j, Made(c), c), ClaimsInv(j),
           NEW r \in 1 .. c, NEW row, RowClaims(j, r, row), NEW l, CompsDone(row.comps, j, l),
           NEW k, k.events = l.events, SameQuestions(j, k),
           (k.receipts = j.receipts /\ r \notin DOMAIN j.receipts) \/ ReceiptsUndone(j, k, r, n)
    PROVE  Weakens(j, k, n)
<1>1. LiveEvents(k) = LiveEvents(l)
  BY DEF LiveEvents
<1>2. \A e \in LiveEvents(k) : e \in LiveEvents(j) \/ Revives(j, k, e)
  <2> TAKE e \in LiveEvents(k)
  <2> SUFFICES ASSUME e \notin LiveEvents(j) PROVE Revives(j, k, e)
    OBVIOUS
  <2>1. PICK x \in ToSet(row.comps) : Restores(x) /\ x.id = e
    BY <1>1 DEF CompsDone
  <2>2. \A q \in DOMAIN j.receipts : \A key \in j.receipts[q].mutated :
           x.id \in j.receipts[q].bound[key] => Stands(j, q, key)
    BY <2>1 DEF RowClaims, DeletionRow
  <2> QED BY <2>1, <2>2 DEF Revives
<1>3. Asks(j, k)
  BY DEF SameQuestions, Asks
<1>4. ASSUME NEW q \in DOMAIN j.receipts, k.receipts[q] = j.receipts[q]
      PROVE  Loses(j, k, q) /\ Notes(j, k, q, n)
  BY <1>4, SameLoses DEF Notes
<1>5. CASE k.receipts = j.receipts /\ r \notin DOMAIN j.receipts
  BY <1>2, <1>3, <1>4, <1>5 DEF Weakens
<1>6. CASE ReceiptsUndone(j, k, r, n)
  <2>1. DOMAIN k.receipts = DOMAIN j.receipts
    BY <1>6 DEF ReceiptsUndone
  <2>2. r \in DOMAIN j.receipts
    BY <1>6 DEF ReceiptsUndone
  <2>5. Loses(j, k, r) /\ Notes(j, k, r, n)
    <3>1. /\ SameClaims(j.receipts[r], k.receipts[r])
          /\ k.receipts[r].status = "undone" /\ k.receipts[r].gone = j.receipts[r].gone
      BY <1>6, <2>2 DEF ReceiptsUndone
    <3>2. j.receipts[r].mutated \subseteq j.receipts[r].keys
      BY <2>2, ReceiptTimes
    <3>3. \A key : ~Stands(k, r, key)
      BY <3>1 DEF Stands
    <3>4. \A key \in j.receipts[r].mutated : Lost(j, k, r, key)
      BY <2>2, <3>2, <3>3 DEF RowClaims, ReceiptRow, Lost, Stands, GoneKeys
    <3>5. ASSUME NEW key \in j.receipts[r].mutated, NEW e \in j.receipts[r].bound[key]
          PROVE  e \in DOMAIN j.events /\ e \notin LiveEvents(k)
      <4>1. PICK x \in ToSet(row.comps) : Deletes(x) /\ x.id = e
        BY <2>2, <3>5 DEF RowClaims, ReceiptRow
      <4>2. e \in DOMAIN j.events /\ e \notin DOMAIN l.events
        BY <4>1 DEF RowClaims, EventRow, CompsDone
      <4> QED BY <1>1, <4>2 DEF LiveEvents
    <3> QED BY <3>1, <3>3, <3>4, <3>5 DEF Loses, Notes
  <2>3. ASSUME NEW q \in DOMAIN j.receipts, q # r, j.receipts[q].status = "committed", q > r,
               k.receipts[q] = Losing(j.receipts[q], Orphaned(j, r, q), FALSE, n)
        PROVE  Loses(j, k, q) /\ Notes(j, k, q, n)
    <3> DEFINE rec == j.receipts[q]  new == k.receipts[q]  keys == Orphaned(j, r, q)  corrected == FALSE
               S == Made(c)
    <3>1. rec \in ReceiptT(S, c) /\ new = Losing(rec, keys, corrected, n)
      <4>1. j \in Records(S, c)
        BY DEF RecordOk
      <4> HIDE DEF S
      <4> QED BY <2>3, <4>1, ReceiptIs
    <3> HIDE DEF rec, new, keys, corrected, S
    <3>2. /\ SameClaims(rec, new) /\ new.status = rec.status /\ new.undone = rec.undone
          /\ \A g \in new.gone : g \in rec.gone \/ (g.after = n /\ g.key \in keys)
          /\ \A key : key \in GoneKeys(new) <=> key \in GoneKeys(rec) \/ key \in keys
      BY <3>1, LosingIs
    <3>3. \A key : Stands(k, q, key) <=> Stands(j, q, key) /\ key \notin keys
      BY <3>2 DEF Stands, SameClaims, rec, new
    <3>4. \A key \in keys : Stands(j, q, key)
      BY <2>3 DEF Orphaned, Stands, keys
    <3>6. \A key \in keys : key \in rec.mutated => rec.bound[key] = {}
      <4> SUFFICES ASSUME NEW key \in keys, key \in rec.mutated, NEW e \in rec.bound[key]
                   PROVE  FALSE
        OBVIOUS
      <4>1. /\ key \in j.receipts[r].mutated /\ key \in rec.mutated
            /\ ~OwnsItself(j.receipts[r], rec, key)
        BY DEF keys, rec, Orphaned
      <4>2. e \in j.receipts[r].bound[key]
        BY <4>1 DEF OwnsItself
      <4>3. e \in IdsOf(q)
        BY <4>1 DEF rec, ClaimsInv, ReceiptsRest, ReceiptRests
      <4>4. e \in IdsOf(r)
        BY <2>2, <4>1, <4>2 DEF ClaimsInv, ReceiptsRest, ReceiptRests
      <4>5. q \in 1 .. c
        BY ReceiptTimes
      <4> QED BY <2>3, <4>3, <4>4, <4>5 DEF IdsOf, Id
    <3>7. Loses(j, k, q)
      BY <3>2, <3>3, <3>6 DEF Loses, Lost, rec, new
    <3>8. q \in ReceiptsOf(j, j.receipts[q].msg)
      BY DEF ReceiptsOf
    <3>9. Notes(j, k, q, n)
      BY <2>3, <3>2, <3>3, <3>4, <3>8 DEF Notes, Lost, rec, new
    <3> QED BY <3>7, <3>9
  <2>4. \A q \in DOMAIN j.receipts : Loses(j, k, q) /\ Notes(j, k, q, n)
    <3> TAKE q \in DOMAIN j.receipts
    <3>1. CASE q = r
      BY <2>5, <3>1
    <3>2. CASE q # r
      BY <1>4, <1>6, <2>3, <3>2 DEF ReceiptsUndone
    <3> QED BY <3>1, <3>2
  <2> QED BY <1>2, <1>3, <2>1, <2>4 DEF Weakens
<1> QED BY <1>5, <1>6

LEMMA UndoOnce ==
    ASSUME RecordInv, RecordInv', OnceInv, NEW r \in DOMAIN undoable, Undo(r)
    PROVE  OnceInv'
<1> DEFINE c == clock  n == now  j == job  row == undoable[r]  k == Undone(r).job
           comps == row.comps  asked == row.asked  reopened == row.reopened
<1>1. c \in Nat /\ n = c + 1
  BY HistoryAssumption DEF RecordInv, Times, now
<1>2. RecordOk(j, Made(c), c) /\ ClaimsInv(j) /\ RowClaims(j, r, row) /\ r \in 1 .. c
      /\ RowCompsT(comps, DOMAIN j.nodes, Made(c), c)
  BY DEF RecordInv, RowsOk, OnceInv
<1>3. CommitFinal(k) /\ k = UndoneBatch(j, r, comps, asked, reopened, n).job
      /\ UndoneBatch(j, r, comps, asked, reopened, n).ok
  BY DEF Undo, Undone
<1> HIDE DEF c, n, j, k, asked, reopened, comps
<1>4. PICK l : /\ CompsDone(comps, j, l) /\ k.events = l.events /\ SameQuestions(j, k)
               /\ \/ k.receipts = j.receipts /\ r \notin DOMAIN j.receipts
                  \/ ReceiptsUndone(j, k, r, n)
  BY <1>1, <1>2, <1>3, UndoneBatchIs
<1>5. CompsDone(row.comps, j, l)
  BY <1>4 DEF comps
<1> HIDE DEF row
<1>6. Weakens(j, k, n)
  BY <1>1, <1>2, <1>4, <1>5, UndoWeakens
<1>7. Moved(job, k, now)
  BY <1>6 DEF Moved, j, n
<1> QED BY <1>3, <1>7, OnceFinal

LEMMA OnceInvInit == Init => OnceInv
<1> SUFFICES ASSUME Init PROVE OnceInv
  OBVIOUS
<1>1. job = NewJob /\ undoable = <<>>
  BY DEF Init
<1>2. NewJob.receipts = <<>> /\ NewJob.requests = <<>> /\ DOMAIN <<>> = {}
  BY DEF NewJob
<1>3. ASSUME NEW m, NEW key
      PROVE  ClaimWithin(NewJob, m, key)
  <2>1. ReceiptsOf(NewJob, m) = {}
    BY <1>2 DEF ReceiptsOf
  <2>2. Standing(NewJob, m, key) = {} /\ ConfirmsIn(NewJob, m, key) = {}
    BY <1>2, <2>1 DEF Standing, ConfirmsIn
  <2>3. Owed(NewJob, m, key) = 0
    <3>1. key \notin Pending(NewJob, m)
      BY <2>1, PendingIs
    <3> QED BY <3>1 DEF Owed
  <2>4. Cardinality({}) = 0
    BY FS_EmptySet
  <2> QED BY <2>2, <2>3, <2>4 DEF ClaimWithin, Within
<1>4. ClaimsInv(NewJob)
  BY <1>2, <1>3 DEF ClaimsInv, ReceiptsRest, LiveIsClaimed, ClaimedOnce
<1> QED BY <1>1, <1>2, <1>4 DEF OnceInv

LEMMA OnceInvStep ==
    ASSUME RecordInv, OnceInv, [Next]_vars
    PROVE  OnceInv'
<1>0. RecordInv'
  BY RecordInvStep
<1>1. CASE UNCHANGED vars
  BY <1>1 DEF vars, OnceInv
<1>2. CASE Next
  <2>1. CASE Submit
    BY <1>0, <2>1, SubmitOnce
  <2>2. CASE \E slot \in Slots : RecordEvent("interview", slot)
    BY <1>0, <2>2, RecordEventOnce, HistoryAssumption
  <2>3. CASE RecordEvent("offer", NoSlot)
    BY <1>0, <2>3, RecordEventOnce DEF NoSlot
  <2>4. CASE \E task \in DOMAIN job.tasks, status \in Marks : SetStatus(task, status)
    BY <1>0, <2>4, SetStatusOnce, HistoryAssumption
  <2>5. CASE \E e \in Interviews, cancelled \in BOOLEAN : Settle(e, cancelled)
    BY <1>0, <2>5, SettleOnce
  <2>6. CASE \E e \in Interviews, slot \in Slots : Reschedule(e, slot)
    BY <1>0, <2>6, RescheduleOnce, HistoryAssumption
  <2>7. CASE Abandon
    BY <1>0, <2>7, AbandonOnce
  <2>8. CASE \E e \in DOMAIN job.events : DeleteEvent(e)
    BY <1>0, <2>8, DeleteEventOnce
  <2>9. CASE \E e \in DOMAIN job.events, r \in DOMAIN job.receipts : Invalidate(e, r)
    BY <1>0, <2>9, InvalidateOnce
  <2>10. CASE \E m \in Messages : Observe(m)
    BY <1>0, <2>10, ObserveOnce
  <2>11. CASE \E d \in DOMAIN job.requests : Confirm(d) \/ Dismiss(d)
    BY <1>0, <2>11, ConfirmOnce, DismissOnce
  <2>12. CASE \E n \in DOMAIN undoable : Undo(n)
    BY <1>0, <2>12, UndoOnce
  <2> QED BY <1>2, <2>1, <2>2, <2>3, <2>4, <2>5, <2>6, <2>7, <2>8, <2>9, <2>10, <2>11, <2>12 DEF Next
<1> QED BY <1>1, <1>2

\* A fact of a source record that the user has confirmed no question about stands
\* in the job once, however often the record is delivered and whatever is undone,
\* corrected or put back in between, for every set of messages and histories of
\* any length: a receipt is replayed (existingReceipt), recovers only what it lost
\* (pendingFactKeys), and loses what it claims when the command that recorded it is
\* undone or corrected (semanticIntake.ts).
THEOREM FactsOnce == Spec => []RecordedOnce
<1>1. Init => RecordInv /\ OnceInv
  BY RecordInvInit, OnceInvInit
<1>2. RecordInv /\ OnceInv /\ [Next]_vars => RecordInv' /\ OnceInv'
  BY RecordInvStep, OnceInvStep
<1>3. RecordInv /\ OnceInv => RecordedOnce
  BY RecordedIsOnce DEF OnceInv
<1> QED BY <1>1, <1>2, <1>3, PTL DEF Spec

-----------------------------------------------------------------------------
(* What receipts rest on                                                    *)

\* An event as a fact; the object that every command recording a fact writes;
\* the compensations of such commands.
KeyOf(event) == [kind |-> event.type, slot |-> event.slot]
TheJob == <<"job", 0>>
OfFact(c) == Deletes(c) \/ Unproves(c)

\* The events a receipt is bound to are among those it affects, which were made
\* by receipts up to it; a submission is bound to none.
RestsOn(j, r) ==
    LET rec == j.receipts[r]
    IN  /\ \A key \in rec.mutated : rec.bound[key] \subseteq rec.affected
        /\ Submitted \in rec.mutated => rec.bound[Submitted] = {}
        /\ \A e \in rec.affected : \E p \in DOMAIN j.receipts : p <= r /\ e \in IdsOf(p)

\* Receipt p recorded the submission, stands for it, and its proof is there.
ProvedBy(j, p) ==
    /\ Submitted \in j.receipts[p].mutated /\ Stands(j, p, Submitted)
    /\ j.proofs \cap IdsOf(p) # {}

\* A receipt that stands for the submission relies on one that recorded it.
SubmissionRests(j) ==
    \A r \in DOMAIN j.receipts : Stands(j, r, Submitted) =>
        \E p \in DOMAIN j.receipts : p <= r /\ ProvedBy(j, p)

BasisInv(j) == (\A r \in DOMAIN j.receipts : RestsOn(j, r)) /\ SubmissionRests(j)

\* A row of the ledger that can still be undone and whose command recorded a
\* fact: it wrote the job, so that no later receipt recorded one; and what it
\* deletes are events of its own facts.
RecordsFact(j, n, row) ==
    \/ \E c \in ToSet(row.comps) : OfFact(c)
    \/ n \in DOMAIN j.receipts /\ j.receipts[n].mutated # {}
NoneLater(j, n) == \A q \in DOMAIN j.receipts : q > n => j.receipts[q].mutated = {}
FactRow(j, n, row) ==
    /\ RecordsFact(j, n, row) => TheJob \in row.objects /\ NoneLater(j, n)
    /\ \A c \in ToSet(row.comps) : OfFact(c) => c.id \in IdsOf(n)
    /\ \A c \in ToSet(row.comps) : Deletes(c) /\ n \in DOMAIN j.receipts =>
          KeyOf(j.events[c.id]) \in j.receipts[n].mutated

HonestInv == BasisInv(job) /\ \A n \in DOMAIN undoable : FactRow(job, n, undoable[n])

\* What a step may do: no live event is lost; no receipt loses its last event.
LiveKept(j, k) ==
    \A e \in LiveEvents(j) : e \in LiveEvents(k) /\ SameEvent(j.events[e], k.events[e])
Honest(j, k) ==
    \A r \in DOMAIN k.receipts, key \in Facts :
        Unbacked(k, r, key) => r \in DOMAIN j.receipts /\ Unbacked(j, r, key)

LEMMA IdsApart ==
    /\ \A p, q \in Nat : \A e \in IdsOf(p) : e \in IdsOf(q) => p = q
    /\ \A p \in Nat : 0 \notin IdsOf(p)
    /\ \A c \in Nat : IdsOf(c + 1) \cap Made(c) = {}
<1>1. \A p, q \in Nat : \A e \in IdsOf(p) : e \in IdsOf(q) => p = q
  BY DEF IdsOf, Id
<1>2. \A p \in Nat : 0 \notin IdsOf(p)
  BY DEF IdsOf, Id
<1>3. \A c \in Nat : IdsOf(c + 1) \cap Made(c) = {}
  BY DEF IdsOf, Made, Id
<1> QED BY <1>1, <1>2, <1>3

LEMMA JobWritten ==
    ASSUME NEW j, NEW k, j.owner # k.owner \/ j.proofs # k.proofs
    PROVE  TheJob \in Written(j, k)
<1>1. /\ Value(j, TheJob) = <<j.stage, j.part, j.owner, j.proofs>>
      /\ Value(k, TheJob) = <<k.stage, k.part, k.owner, k.proofs>>
  BY DEF Value, TheJob
<1>2. Value(j, TheJob) # Value(k, TheJob)
  BY <1>1
<1>3. TheJob \in Objects(j)
  BY DEF Objects, TheJob
<1> QED BY <1>2, <1>3 DEF Written

LEMMA KeyIsFact ==
    ASSUME NEW key \in Facts, key # Submitted, NEW event
    PROVE  KeyOf(event) = key <=> event.type = key.kind /\ event.slot = key.slot
<1>1. key \in EventFacts
  <2>1. PICK m \in Messages : key \in FactsIn(m)
    BY DEF Facts
  <2>2. PICK i \in DOMAIN FactsOf[m] : key = FactsOf[m][i]
    BY <2>1 DEF FactsIn
  <2>3. FactsOf[m] \in Seq(EventFacts \cup {Submitted})
    BY IntakeAssumption
  <2>4. FactsOf[m][i] \in EventFacts \cup {Submitted}
    BY <2>2, <2>3
  <2> QED BY <2>2, <2>4
<1>2. key = [kind |-> key.kind, slot |-> key.slot]
  BY <1>1 DEF EventFacts
<1> QED BY <1>2 DEF KeyOf

\* A receipt is backed, for a fact that is an event, by a live event of it.
Backs(j, r, key, e) ==
    e \in LiveEvents(j) /\ e \in j.receipts[r].affected /\ KeyOf(j.events[e]) = key

LEMMA UnbackedIs ==
    ASSUME NEW j, NEW r, NEW key \in Facts, key # Submitted
    PROVE  Unbacked(j, r, key) <=> Stands(j, r, key) /\ \A e : ~Backs(j, r, key, e)
<1>1. \A e : KeyOf(j.events[e]) = key <=> j.events[e].type = key.kind /\ j.events[e].slot = key.slot
  BY KeyIsFact
<1> QED BY <1>1 DEF Unbacked, Backs, OfType

LEMMA SubmissionBacked ==
    ASSUME NEW j, BasisInv(j), NEW r \in DOMAIN j.receipts
    PROVE  ~Unbacked(j, r, Submitted)
  BY DEF Unbacked, BasisInv, SubmissionRests, ProvedBy

LEMMA KeptHonest ==
    ASSUME NEW j, NEW k, BasisInv(k), LiveKept(j, k),
           \A r \in DOMAIN k.receipts : r \in DOMAIN j.receipts /\ Loses(j, k, r)
    PROVE  Honest(j, k)
<1> SUFFICES ASSUME NEW r \in DOMAIN k.receipts, NEW key \in Facts, Unbacked(k, r, key)
             PROVE  r \in DOMAIN j.receipts /\ Unbacked(j, r, key)
  BY DEF Honest
<1>1. key # Submitted
  BY SubmissionBacked
<1>2. r \in DOMAIN j.receipts /\ Loses(j, k, r)
  OBVIOUS
<1>3. Stands(j, r, key) /\ j.receipts[r].affected = k.receipts[r].affected
  BY <1>1, <1>2, UnbackedIs DEF Loses, SameClaims
<1>4. ASSUME NEW e, Backs(j, r, key, e) PROVE Backs(k, r, key, e)
  <2>1. e \in LiveEvents(k) /\ SameEvent(j.events[e], k.events[e])
    BY <1>4 DEF Backs, LiveKept
  <2> QED BY <1>3, <1>4, <2>1 DEF Backs, SameEvent, KeyOf
<1> QED BY <1>1, <1>2, <1>3, <1>4, UnbackedIs

\* The basis stays where receipts only lose claims, if what stands for the
\* submission keeps its proof.
LEMMA BasisKept ==
    ASSUME NEW j, BasisInv(j), NEW k, DOMAIN k.receipts = DOMAIN j.receipts,
           \A r \in DOMAIN j.receipts : Loses(j, k, r),
           \A r, p \in DOMAIN j.receipts :
               p <= r /\ Stands(k, r, Submitted) /\ ProvedBy(j, p) => ProvedBy(k, p)
    PROVE  BasisInv(k)
<1>1. ASSUME NEW r \in DOMAIN k.receipts PROVE RestsOn(k, r)
  <2>1. RestsOn(j, r) /\ SameClaims(j.receipts[r], k.receipts[r])
    BY DEF BasisInv, Loses
  <2> QED BY <2>1 DEF RestsOn, SameClaims
<1>2. ASSUME NEW r \in DOMAIN k.receipts, Stands(k, r, Submitted)
      PROVE  \E p \in DOMAIN k.receipts : p <= r /\ ProvedBy(k, p)
  <2>1. Stands(j, r, Submitted)
    BY <1>2 DEF Loses
  <2>2. PICK p \in DOMAIN j.receipts : p <= r /\ ProvedBy(j, p)
    BY <2>1 DEF BasisInv, SubmissionRests
  <2> QED BY <1>2, <2>2
<1> QED BY <1>1, <1>2 DEF BasisInv, SubmissionRests

\* The receipts there were record what they did; a new one that records a fact
\* comes with a change of the job.
GoodMove(j, k, n) ==
    \A r \in DOMAIN k.receipts :
        \/ r \in DOMAIN j.receipts /\ k.receipts[r].mutated = j.receipts[r].mutated
        \/ r = n /\ (k.receipts[r].mutated # {} => TheJob \in Written(j, k))

LEMMA FactRowSurvives ==
    ASSUME NEW c \in Nat, NEW n, n = c + 1, NEW j, NEW k, GoodMove(j, k, n), NEW s \in 1 .. c, NEW row,
           row.objects \cap Written(j, k) = {}, EventRow(j, row), FactRow(j, s, row)
    PROVE  FactRow(k, s, row)
<1>1. s \in DOMAIN k.receipts => s \in DOMAIN j.receipts /\ k.receipts[s].mutated = j.receipts[s].mutated
  BY DEF GoodMove
<1>2. ASSUME RecordsFact(k, s, row) PROVE TheJob \in row.objects /\ NoneLater(k, s)
  <2>1. RecordsFact(j, s, row)
    BY <1>1, <1>2 DEF RecordsFact
  <2>2. TheJob \in row.objects /\ NoneLater(j, s)
    BY <2>1 DEF FactRow
  <2>3. TheJob \notin Written(j, k)
    BY <2>2
  <2> QED BY <2>2, <2>3 DEF NoneLater, GoodMove
<1>3. ASSUME NEW x \in ToSet(row.comps), Deletes(x), s \in DOMAIN k.receipts
      PROVE  KeyOf(k.events[x.id]) \in k.receipts[s].mutated
  <2> DEFINE id == x.id
  <2>1. <<"event", id>> \in row.objects /\ id \in DOMAIN j.events
    BY <1>3 DEF EventRow
  <2>2. KeyOf(j.events[id]) \in j.receipts[s].mutated
    BY <1>1, <1>3 DEF FactRow
  <2> HIDE DEF id
  <2>3. Entry(j.events, id) = Entry(k.events, id)
    BY <2>1, Untouched
  <2>4. j.events[id] = k.events[id]
    BY <2>1, <2>3, SameEntry
  <2> QED BY <1>1, <1>3, <2>2, <2>4 DEF id
<1> QED BY <1>2, <1>3 DEF FactRow

LEMMA FactRowsSurvive ==
    ASSUME RecordInv, OnceInv, HonestInv, NEW k, GoodMove(job, k, now)
    PROVE  \A s \in DOMAIN StillUndoable(k) : FactRow(k, s, StillUndoable(k)[s])
<1>1. clock \in Nat /\ now = clock + 1
  BY HistoryAssumption DEF RecordInv, Times, now
<1>2. /\ DOMAIN StillUndoable(k) \subseteq DOMAIN undoable
      /\ \A s \in DOMAIN StillUndoable(k) :
            StillUndoable(k)[s] = undoable[s] /\ undoable[s].objects \cap Written(job, k) = {}
  BY DEF StillUndoable, Restrict
<1>3. DOMAIN undoable \subseteq 1 .. clock
  BY DEF RecordInv, RowsOk
<1>4. ASSUME NEW s \in DOMAIN StillUndoable(k) PROVE FactRow(k, s, StillUndoable(k)[s])
  <2> DEFINE row == undoable[s]
  <2>1. /\ s \in 1 .. clock /\ row.objects \cap Written(job, k) = {}
        /\ EventRow(job, row) /\ FactRow(job, s, row)
    BY <1>2, <1>3 DEF OnceInv, RowClaims, HonestInv
  <2> HIDE DEF row
  <2>2. FactRow(k, s, row)
    BY <1>1, <2>1, FactRowSurvives
  <2> QED BY <1>2, <2>2 DEF row
<1> QED BY <1>4

LEMMA HonestFinal ==
    ASSUME RecordInv, OnceInv, HonestInv, NEW k, CommitFinal(k), GoodMove(job, k, now), BasisInv(k)
    PROVE  HonestInv'
<1>1. job' = k /\ undoable' = StillUndoable(k)
  BY DEF CommitFinal, Commit
<1>2. \A s \in DOMAIN StillUndoable(k) : FactRow(k, s, StillUndoable(k)[s])
  BY FactRowsSurvive
<1> QED BY <1>1, <1>2 DEF HonestInv

LEMMA HonestWithRow ==
    ASSUME RecordInv, OnceInv, HonestInv, NEW k, NEW row, CommitWithRow(k, row), GoodMove(job, k, now),
           BasisInv(k), FactRow(k, now, row)
    PROVE  HonestInv'
<1> DEFINE rows == Put(StillUndoable(k), now, row)
<1>1. job' = k /\ undoable' = rows
  BY DEF CommitWithRow, Commit
<1>2. \A s \in DOMAIN StillUndoable(k) : FactRow(k, s, StillUndoable(k)[s])
  BY FactRowsSurvive
<1>3. /\ DOMAIN rows = DOMAIN StillUndoable(k) \cup {now} /\ rows[now] = row
      /\ \A s \in DOMAIN StillUndoable(k) : s # now => rows[s] = StillUndoable(k)[s]
  BY DEF Put
<1> HIDE DEF rows
<1>4. \A s \in DOMAIN rows : FactRow(k, s, rows[s])
  BY <1>2, <1>3
<1> QED BY <1>1, <1>4 DEF HonestInv

-----------------------------------------------------------------------------
(* Commands that leave the receipts alone                                   *)

\* The same receipts, and no proof fewer.
SameBasis(j, k) == k.receipts = j.receipts /\ j.proofs \subseteq k.proofs

LEMMA SameBasisKept ==
    ASSUME NEW j, NEW k, SameBasis(j, k), BasisInv(j), NEW n
    PROVE  BasisInv(k) /\ GoodMove(j, k, n) /\ (LiveKept(j, k) => Honest(j, k))
<1>1. \A r \in DOMAIN j.receipts : Loses(j, k, r)
  BY SameLoses DEF SameBasis
<1>2. \A p \in DOMAIN j.receipts : ProvedBy(j, p) => ProvedBy(k, p)
  BY DEF SameBasis, ProvedBy, Stands
<1>3. BasisInv(k)
  BY <1>1, <1>2, BasisKept DEF SameBasis
<1>4. GoodMove(j, k, n)
  BY DEF GoodMove, SameBasis
<1>5. LiveKept(j, k) => Honest(j, k)
  BY <1>1, <1>3, KeptHonest DEF SameBasis
<1> QED BY <1>3, <1>4, <1>5

\* The row of a command whose receipt is not among the record's.
LEMMA RowWithout ==
    ASSUME RecordInv, OnceInv, NEW k, k.receipts = job.receipts, NEW row, row.objects = Written(job, k),
           \A x \in ToSet(row.comps) : OfFact(x) => x.id \in IdsOf(now) /\ TheJob \in Written(job, k)
    PROVE  FactRow(k, now, row)
<1> DEFINE c == clock  n == now  j == job
<1>1. c \in Nat /\ n = c + 1
  BY HistoryAssumption DEF RecordInv, Times, now
<1>2. RecordOk(j, Made(c), c)
  BY DEF RecordInv
<1> HIDE DEF c, n, j
<1>3. \A q \in DOMAIN j.receipts : q \in 1 .. c
  BY <1>1, <1>2, ReceiptTimes
<1>4. \A q \in DOMAIN k.receipts : q # n /\ ~(q > n)
  BY <1>1, <1>3 DEF j
<1> QED BY <1>4 DEF FactRow, RecordsFact, NoneLater, n

LEMMA SameHonest ==
    ASSUME RecordInv, OnceInv, HonestInv, NEW k, SameBasis(job, k), NEW row, CommitWithRow(k, row),
           row.objects = Written(job, k),
           \A x \in ToSet(row.comps) : OfFact(x) => x.id \in IdsOf(now) /\ TheJob \in Written(job, k)
    PROVE  HonestInv' /\ (LiveKept(job, k) => Honest(job, job'))
<1>1. job' = k
  BY DEF CommitWithRow, Commit
<1>2. BasisInv(k) /\ GoodMove(job, k, now) /\ (LiveKept(job, k) => Honest(job, k))
  BY SameBasisKept DEF HonestInv
<1>3. FactRow(k, now, row)
  BY RowWithout DEF SameBasis
<1>4. HonestInv'
  BY <1>2, <1>3, HonestWithRow
<1> QED BY <1>1, <1>2, <1>4

LEMMA SameHonestWith ==
    ASSUME RecordInv, OnceInv, HonestInv, NEW k, SameBasis(job, k), NEW u, CommitWith(k, u),
           OfFact(u) => u.id \in IdsOf(now) /\ TheJob \in Written(job, k)
    PROVE  HonestInv' /\ (LiveKept(job, k) => Honest(job, job'))
<1> DEFINE row == Row(k, << u >>, {}, {})
<1>1. row.comps = << u >> /\ row.objects = Written(job, k) /\ CommitWithRow(k, row)
  BY DEF Row, CommitWith
<1> HIDE DEF row
<1>2. ToSet(row.comps) = {u}
  BY <1>1, ToSetIs
<1> QED BY <1>1, <1>2, SameHonest

LEMMA SameEventsKept ==
    ASSUME NEW j, NEW k, k.events = j.events
    PROVE  LiveKept(j, k)
  BY DEF LiveKept, LiveEvents, SameEvent

LEMMA PlainHonest ==
    ASSUME RecordInv, OnceInv, HonestInv, NEW k, SameBasis(job, k), NEW u, CommitWith(k, u),
           ~OfFact(u), LiveKept(job, k)
    PROVE  HonestInv' /\ Honest(job, job')
  BY SameHonestWith

LEMMA SubmissionProves ==
    ASSUME NEW S, NEW n, NEW j \in Records(S, n), NEW id, NEW at
    PROVE  AfterSubmission(j, id, at).proofs = j.proofs \cup {id}
  BY DEF AfterSubmission, SetStage, Records

LEMMA SubmitHonest ==
    ASSUME RecordInv, OnceInv, HonestInv, Submit
    PROVE  HonestInv' /\ Honest(job, job')
<1> DEFINE id == Id(now, 1)  k == AfterSubmission(job, id, now)  u == SubmissionUndo(job, k, id)
<1>1. job \in Records(Made(clock), clock) /\ Ready
  BY IsReady DEF RecordInv, RecordOk
<1>2. k.events = job.events /\ k.receipts = job.receipts /\ k.proofs = job.proofs \cup {id}
  BY <1>1, AfterSubmissionIs, SubmissionProves
<1>3. CommitWith(k, u)
  BY DEF Submit
<1>4. u.id = id
  BY DEF SubmissionUndo
<1>5. id \notin job.proofs /\ id \in IdsOf(now)
  BY <1>1, RecordIs DEF Ready, IdsOf
<1> HIDE DEF k, u, id
<1>6. TheJob \in Written(job, k)
  BY <1>2, <1>5, JobWritten
<1>7. SameBasis(job, k) /\ LiveKept(job, k)
  BY <1>2, SameEventsKept DEF SameBasis
<1> QED BY <1>3, <1>4, <1>5, <1>6, <1>7, SameHonestWith

LEMMA RecordEventHonest ==
    ASSUME RecordInv, OnceInv, HonestInv, NEW type, NEW slot, RecordEvent(type, slot)
    PROVE  HonestInv' /\ Honest(job, job')
<1> DEFINE id == Id(now, 1)  k == AfterEvent(job, id, type, slot, now, now)  u == EventUndo(job, k, id)
<1>1. job \in Records(Made(clock), clock) /\ Ready
  BY IsReady DEF RecordInv, RecordOk
<1>2. EventMade(job, k, id, type, slot)
  BY <1>1, AfterEventMakes
<1>3. CommitWith(k, u)
  BY DEF RecordEvent
<1>4. u.id = id
  BY DEF EventUndo
<1>5. id \notin DOMAIN job.events /\ id \in IdsOf(now) /\ job.owner.id # id
  <2>1. id \notin Made(clock) /\ id # 0
    BY <1>1 DEF Ready, Id
  <2>2. job.owner.id \in Made(clock) \cup {0}
    BY <1>1, RecordIs DEF StampT
  <2> QED BY <1>1, <2>1, <2>2, EventIs DEF IdsOf
<1> HIDE DEF k, u, id
<1>6. TheJob \in Written(job, k)
  BY <1>2, <1>5, JobWritten DEF EventMade
<1>7. SameBasis(job, k)
  BY <1>2 DEF EventMade, SameBasis
<1>8. LiveKept(job, k)
  BY <1>2, <1>5 DEF EventMade, LiveKept, LiveEvents, SameEvent
<1> QED BY <1>3, <1>4, <1>5, <1>6, <1>7, <1>8, SameHonestWith

LEMMA SetStatusHonest ==
    ASSUME RecordInv, OnceInv, HonestInv, NEW task \in DOMAIN job.tasks, NEW status, SetStatus(task, status)
    PROVE  HonestInv' /\ Honest(job, job')
<1> DEFINE k == AfterStatus(job, task, status, now)  u == StatusUndo(job, k, task)
<1>1. job \in Records(Made(clock), clock)
  BY DEF RecordInv, RecordOk
<1>2. StatusSet(job, k, task, status, now)
  BY <1>1, AfterStatusIs
<1>3. CommitWith(k, u)
  BY DEF SetStatus
<1>4. ~OfFact(u)
  BY DEF StatusUndo, OfFact, Deletes, Unproves
<1> HIDE DEF k, u
<1>5. SameBasis(job, k) /\ LiveKept(job, k)
  BY <1>2, SameEventsKept DEF StatusSet, SameBasis
<1> QED BY <1>3, <1>4, <1>5, PlainHonest

LEMMA SettleHonest ==
    ASSUME RecordInv, OnceInv, HonestInv, NEW e, NEW cancelled, Settle(e, cancelled)
    PROVE  HonestInv' /\ Honest(job, job')
<1> DEFINE k == AfterSettling(job, e, cancelled, now)
           u == IF NeedsConfirmation(Current(job, e)) THEN VersionUndo(job, k, e) ELSE SettlingUndo(job, e)
<1>1. job \in Records(Made(clock), clock)
  BY DEF RecordInv, RecordOk
<1>2. k.events = job.events /\ k.receipts = job.receipts /\ k.proofs = job.proofs
  BY <1>1 DEF AfterSettling, Records
<1>3. CommitWith(k, u)
  BY DEF Settle
<1>4. ~OfFact(u)
  <2>1. VersionUndo(job, k, e).op = "restore_occurrence_supersession"
    BY DEF VersionUndo
  <2>2. SettlingUndo(job, e).op = "restore_occurrence_completion"
    BY DEF SettlingUndo
  <2> HIDE DEF k
  <2> QED BY <2>1, <2>2 DEF OfFact, Deletes, Unproves
<1> HIDE DEF k, u
<1>5. SameBasis(job, k) /\ LiveKept(job, k)
  BY <1>2, SameEventsKept DEF SameBasis
<1> QED BY <1>3, <1>4, <1>5, PlainHonest

LEMMA RescheduleHonest ==
    ASSUME RecordInv, OnceInv, HonestInv, NEW e \in Interviews, NEW slot, Reschedule(e, slot)
    PROVE  HonestInv' /\ Honest(job, job')
<1> DEFINE k == AfterReschedule(job, e, slot, now)  u == VersionUndo(job, k, e)
<1>1. job \in Records(Made(clock), clock) /\ e \in DOMAIN job.events
  BY DEF RecordInv, RecordOk, Interviews
<1>2. /\ k.events = [job.events EXCEPT ![e].due = slot]
      /\ k.receipts = job.receipts /\ k.proofs = job.proofs
  BY <1>1 DEF AfterReschedule, Records
<1>3. CommitWith(k, u)
  BY DEF Reschedule
<1>4. ~OfFact(u)
  BY DEF VersionUndo, OfFact, Deletes, Unproves
<1> HIDE DEF k, u
<1>5. \A d \in DOMAIN job.events : d \in DOMAIN k.events /\ SameEvent(job.events[d], k.events[d])
  <2> DEFINE event == job.events[e]  moved == [event EXCEPT !.due = slot]
  <2>1. event \in EventT(Made(clock), clock)
    BY <1>1, EventIs
  <2>2. SameEvent(event, moved)
    BY <2>1 DEF EventT, SameEvent
  <2>3. k.events[e] = moved /\ \A d \in DOMAIN job.events : d # e => k.events[d] = job.events[d]
    BY <1>1, <1>2
  <2> HIDE DEF moved
  <2> QED BY <1>2, <2>2, <2>3 DEF SameEvent
<1>6. SameBasis(job, k) /\ LiveKept(job, k)
  BY <1>2, <1>5 DEF SameBasis, LiveKept, LiveEvents, SameEvent
<1> QED BY <1>3, <1>4, <1>6, PlainHonest

LEMMA AbandonHonest ==
    ASSUME RecordInv, OnceInv, HonestInv, Abandon
    PROVE  HonestInv' /\ Honest(job, job')
<1> DEFINE k == AfterAbandon(job, now)  u == ParticipationUndo(job)
<1>1. job \in Records(Made(clock), clock)
  BY DEF RecordInv, RecordOk
<1>2. k.events = job.events /\ k.receipts = job.receipts /\ k.proofs = job.proofs
  BY <1>1 DEF AfterAbandon, Records
<1>3. CommitWith(k, u)
  BY DEF Abandon
<1>4. ~OfFact(u)
  BY DEF ParticipationUndo, OfFact, Deletes, Unproves
<1> HIDE DEF k, u
<1>5. SameBasis(job, k) /\ LiveKept(job, k)
  BY <1>2, SameEventsKept DEF SameBasis
<1> QED BY <1>3, <1>4, <1>5, PlainHonest

\* The one command of the user's, with the correction, that may leave a receipt
\* without its event.
LEMMA DeleteEventHonest ==
    ASSUME RecordInv, OnceInv, HonestInv, NEW e, DeleteEvent(e)
    PROVE  HonestInv'
<1> DEFINE k == AfterDeletion(job, e, now)  u == DeletionUndo(job, k, e)
<1>1. job \in Records(Made(clock), clock)
  BY DEF RecordInv, RecordOk
<1>2. k.receipts = job.receipts /\ k.proofs = job.proofs
  BY <1>1 DEF AfterDeletion, WithoutEvent, Records
<1>3. CommitWith(k, u)
  BY DEF DeleteEvent
<1>4. ~OfFact(u)
  BY DEF DeletionUndo, OfFact, Deletes, Unproves
<1> HIDE DEF k, u
<1>5. SameBasis(job, k)
  BY <1>2 DEF SameBasis
<1> QED BY <1>3, <1>4, <1>5, SameHonestWith

LEMMA DismissHonest ==
    ASSUME RecordInv, OnceInv, HonestInv, NEW d \in DOMAIN job.requests, Dismiss(d)
    PROVE  HonestInv' /\ Honest(job, job')
<1> DEFINE k == Answered(job, d, "dismiss")  row == Row(k, <<>>, {}, {d})
<1>1. job \in Records(Made(clock), clock)
  BY DEF RecordInv, RecordOk
<1>2. k.events = job.events /\ k.receipts = job.receipts /\ k.proofs = job.proofs
  BY <1>1, AnsweredAsks
<1>3. CommitWithRow(k, row)
  BY DEF Dismiss
<1>4. row.comps = <<>> /\ row.objects = Written(job, k)
  BY DEF Row
<1> HIDE DEF k, row
<1>5. SameBasis(job, k) /\ LiveKept(job, k)
  BY <1>2, SameEventsKept DEF SameBasis
<1>6. ToSet(row.comps) = {}
  BY <1>4, ToSetIs
<1> QED BY <1>3, <1>4, <1>5, <1>6, SameHonest

-----------------------------------------------------------------------------
(* What a batch's claims rest on                                            *)

\* How recording a fact shows in the job, and in the compensation u of it.
FactTold(j, k, u, id, fact) ==
    /\ j.proofs \subseteq k.proofs /\ (k.owner.id = id \/ id \in k.proofs)
    /\ OfFact(u) /\ (Deletes(u) <=> fact # Submitted)
    /\ fact = Submitted => id \in k.proofs
    /\ fact # Submitted => id \in LiveEvents(k) /\ KeyOf(k.events[id]) = fact

LEMMA AfterFactTells ==
    ASSUME NEW S, NEW n, NEW j \in Records(S, n), NEW id, NEW fact \in Facts, NEW at, NEW t
    PROVE  LET k == AfterFact(j, fact, id, at, t) IN FactTold(j, k, FactUndo(j, k, fact, id), id, fact)
<1> DEFINE k == AfterFact(j, fact, id, at, t)  u == FactUndo(j, k, fact, id)
<1>1. CASE fact = Submitted
  <2>1. k = AfterSubmission(j, id, at) /\ u = SubmissionUndo(j, k, id)
    BY <1>1 DEF AfterFact, FactUndo
  <2>2. k.proofs = j.proofs \cup {id}
    BY <2>1, SubmissionProves
  <2> HIDE DEF k
  <2>3. Unproves(u) /\ ~Deletes(u)
    BY <2>1 DEF SubmissionUndo, Unproves, Deletes
  <2> HIDE DEF u
  <2>4. FactTold(j, k, u, id, fact)
    BY <1>1, <2>2, <2>3 DEF FactTold, OfFact
  <2> QED BY <2>4 DEF u, k
<1>2. CASE fact # Submitted
  <2> DEFINE kind == fact.kind  slot == fact.slot
  <2>1. k = AfterEvent(j, id, kind, slot, at, t) /\ u = EventUndo(j, k, id)
    BY <1>2 DEF AfterFact, FactUndo
  <2> HIDE DEF kind, slot
  <2>2. EventMade(j, k, id, kind, slot)
    BY <2>1, AfterEventMakes
  <2> HIDE DEF k
  <2>3. Deletes(u)
    BY <2>1 DEF EventUndo, Deletes
  <2> HIDE DEF u
  <2>4. KeyOf(k.events[id]) = fact /\ id \in LiveEvents(k)
    BY <1>2, <2>2, KeyIsFact DEF EventMade, LiveEvents, kind, slot
  <2>5. FactTold(j, k, u, id, fact)
    BY <1>2, <2>2, <2>3, <2>4 DEF FactTold, EventMade, OfFact
  <2> QED BY <2>5 DEF u, k
<1> QED BY <1>1, <1>2

\* What recording facts has done to the job, what their compensations delete,
\* and what the receipt will rest on.
TellsJob(b, j, n) ==
    /\ j.proofs \subseteq b.job.proofs
    /\ b.mutated # {} \/ (\E u \in ToSet(b.comps) : OfFact(u)) =>
          b.job.owner.id \in IdsOf(n) \/ b.job.proofs \cap IdsOf(n) # {}
TellsComps(b, n) ==
    \A u \in ToSet(b.comps) :
        /\ OfFact(u) => u.id \in IdsOf(n)
        /\ Deletes(u) => u.id \in DOMAIN b.job.events /\ KeyOf(b.job.events[u.id]) \in b.mutated
TellsBound(b, j, n) ==
    /\ \A key \in b.mutated : b.bound[key] \subseteq b.affected
    /\ Submitted \in b.mutated => b.bound[Submitted] = {} /\ b.job.proofs \cap IdsOf(n) # {}
    /\ \A e \in b.affected : e \in IdsOf(n) \/ \E p \in DOMAIN j.receipts : e \in IdsOf(p)
BacksKey(b, key) == \E e \in LiveEvents(b.job) \cap b.affected : KeyOf(b.job.events[e]) = key
TellsKeys(b, j) ==
    \A key \in b.keys :
        IF key = Submitted
        THEN Submitted \in b.mutated \/ \E p \in DOMAIN j.receipts : ProvedBy(j, p)
        ELSE BacksKey(b, key)
BatchTold(b, j, n) ==
    TellsJob(b, j, n) /\ TellsComps(b, n) /\ TellsBound(b, j, n) /\ TellsKeys(b, j)

LEMMA TellingStarts ==
    ASSUME NEW j, NEW n
    PROVE  BatchTold(Batch(j), j, n)
<1>1. /\ Batch(j).job = j /\ Batch(j).comps = <<>> /\ Batch(j).mutated = {} /\ Batch(j).keys = {}
      /\ Batch(j).affected = {}
  BY DEF Batch
<1> QED BY <1>1, ToSetIs DEF BatchTold, TellsJob, TellsComps, TellsBound, TellsKeys

\* One more fact recorded: l is the record after it, u its compensation.
OneMore(b, c, l, u, fact, made) ==
    /\ c.job = l /\ ToSet(c.comps) = ToSet(b.comps) \cup {u} /\ c.keys = b.keys \cup {fact}
    /\ c.mutated = b.mutated \cup {fact} /\ c.bound = Put(b.bound, fact, made)
    /\ DOMAIN b.bound = b.mutated /\ c.affected = b.affected \cup made
    /\ made = DOMAIN l.events \ DOMAIN b.job.events

LEMMA FactTells ==
    ASSUME NEW b, NEW j, NEW n, BatchTold(b, j, n), NEW id \in IdsOf(n),
           NEW l, NEW u, NEW fact, FactMade(b.job, l, u, id), FactTold(b.job, l, u, id, fact),
           NEW made, NEW c, OneMore(b, c, l, u, fact, made)
    PROVE  BatchTold(c, j, n)
<1>0. /\ c.job = l /\ ToSet(c.comps) = ToSet(b.comps) \cup {u} /\ c.keys = b.keys \cup {fact}
      /\ c.mutated = b.mutated \cup {fact} /\ c.bound = Put(b.bound, fact, made)
      /\ DOMAIN b.bound = b.mutated /\ c.affected = b.affected \cup made
      /\ made = DOMAIN l.events \ DOMAIN b.job.events
  BY DEF OneMore
<1>1. \A e \in DOMAIN b.job.events : e \in DOMAIN l.events /\ l.events[e] = b.job.events[e]
  BY DEF FactMade
<1>2. made = (IF fact # Submitted THEN {id} ELSE {}) /\ u.id = id
  BY <1>0 DEF FactMade, FactTold
<1>3. c.bound[fact] = made /\ \A key \in b.mutated : key # fact => c.bound[key] = b.bound[key]
  BY <1>0 DEF Put
<1>4. TellsJob(c, j, n)
  BY <1>0 DEF BatchTold, TellsJob, FactTold
<1>5. TellsComps(c, n)
  <2>1. Deletes(u) => id \in DOMAIN l.events /\ KeyOf(l.events[id]) \in c.mutated
    BY <1>0 DEF FactTold, LiveEvents
  <2>2. ASSUME NEW x \in ToSet(b.comps), Deletes(x)
        PROVE  x.id \in DOMAIN l.events /\ KeyOf(l.events[x.id]) \in c.mutated
    <3>1. x.id \in DOMAIN b.job.events /\ KeyOf(b.job.events[x.id]) \in b.mutated
      BY <2>2 DEF BatchTold, TellsComps
    <3> QED BY <1>0, <1>1, <3>1
  <2> QED BY <1>0, <1>2, <2>1, <2>2 DEF BatchTold, TellsComps
<1>6. TellsBound(c, j, n)
  <2>1. \A key \in c.mutated : c.bound[key] \subseteq c.affected
    BY <1>0, <1>3 DEF BatchTold, TellsBound
  <2>2. Submitted \in c.mutated => c.bound[Submitted] = {} /\ c.job.proofs \cap IdsOf(n) # {}
    BY <1>0, <1>2, <1>3 DEF BatchTold, TellsBound, FactTold
  <2>3. \A e \in c.affected : e \in IdsOf(n) \/ \E p \in DOMAIN j.receipts : e \in IdsOf(p)
    BY <1>0, <1>2 DEF BatchTold, TellsBound
  <2> QED BY <2>1, <2>2, <2>3 DEF TellsBound
<1>7. TellsKeys(c, j)
  <2>1. fact # Submitted => BacksKey(c, fact)
    BY <1>0, <1>2 DEF FactTold, BacksKey
  <2>2. ASSUME NEW key, BacksKey(b, key) PROVE BacksKey(c, key)
    BY <1>0, <1>1, <2>2 DEF BacksKey, LiveEvents
  <2> QED BY <1>0, <2>1, <2>2 DEF BatchTold, TellsKeys
<1> QED BY <1>4, <1>5, <1>6, <1>7 DEF BatchTold

\* A fact that another source's receipt proves.
LEMMA ProofIs ==
    ASSUME NEW S, NEW n \in Nat, NEW b, RecordOk(b.job, S, n), NEW m, NEW fact,
           NEW r \in ProvenElsewhere(b, m, fact)
    PROVE  r \in DOMAIN b.job.receipts /\ Stands(b.job, r, fact) /\ Proves(b.job, r, fact)
<1> DEFINE proofs == {q \in DOMAIN b.job.receipts :
                       Stands(b.job, q, fact) /\ Proves(b.job, q, fact)}
           first == CHOOSE q \in proofs : \A p \in proofs : q <= p
<1>1. r = first /\ proofs # {}
  BY DEF ProvenElsewhere
<1>2. proofs \in SUBSET Nat
  <2>1. \A q \in DOMAIN b.job.receipts : q \in Nat
    BY ReceiptIs DEF RecordOk
  <2> QED BY <2>1
<1>3. first \in proofs
  <2> HIDE DEF proofs
  <2>1. \E q \in proofs : \A p \in proofs : q <= p
    BY <1>1, <1>2, LeastOf
  <2> QED BY <2>1
<1> QED BY <1>1, <1>3

LEMMA ProofTells ==
    ASSUME NEW S, NEW t \in Nat, NEW b, RecordOk(b.job, S, t), NEW j, NEW n, BatchEvents(b, j, n),
           BasisInv(j), BatchTold(b, j, n), NEW m, NEW fact \in Facts,
           NEW proof, proof = ProvenElsewhere(b, m, fact), proof # {},
           NEW c, c.job = b.job, c.comps = b.comps, c.keys = b.keys \cup {fact}, c.mutated = b.mutated,
           c.bound = b.bound, c.affected = b.affected \cup AffectedBy(b, proof)
    PROVE  BatchTold(c, j, n)
<1>1. b.job.receipts = j.receipts
  BY DEF BatchEvents
<1>2. ASSUME NEW r \in proof
      PROVE  r \in DOMAIN j.receipts /\ Stands(j, r, fact) /\ Proves(b.job, r, fact)
  <2>1. r \in DOMAIN b.job.receipts /\ Stands(b.job, r, fact) /\ Proves(b.job, r, fact)
    BY ProofIs
  <2> QED BY <1>1, <2>1 DEF Stands
<1>3. TellsJob(c, j, n) /\ TellsComps(c, n)
  BY DEF BatchTold, TellsJob, TellsComps
<1>4. TellsBound(c, j, n)
  <2>1. \A r \in proof : \A e \in j.receipts[r].affected : \E p \in DOMAIN j.receipts : e \in IdsOf(p)
    BY <1>2 DEF BasisInv, RestsOn
  <2>2. \A e \in AffectedBy(b, proof) : \E p \in DOMAIN j.receipts : e \in IdsOf(p)
    BY <1>1, <2>1 DEF AffectedBy
  <2> QED BY <2>2 DEF BatchTold, TellsBound
<1>5. TellsKeys(c, j)
  <2>1. PICK r \in proof : TRUE
    OBVIOUS
  <2>2. r \in DOMAIN j.receipts /\ Stands(j, r, fact) /\ Proves(b.job, r, fact)
    BY <1>2
  <2>3. fact = Submitted => \E p \in DOMAIN j.receipts : ProvedBy(j, p)
    BY <2>2 DEF BasisInv, SubmissionRests
  <2>4. ASSUME fact # Submitted PROVE BacksKey(c, fact)
    <3> DEFINE rec == j.receipts[r]
               refs == IF fact \in rec.mutated THEN rec.bound[fact] ELSE rec.affected
    <3>1. PICK e \in refs \cap LiveEvents(b.job) :
                 b.job.events[e].type = fact.kind /\ b.job.events[e].slot = fact.slot
      BY <1>1, <2>2, <2>4 DEF Proves
    <3>2. refs \subseteq rec.affected
      BY <2>2 DEF BasisInv, RestsOn
    <3>3. e \in AffectedBy(b, proof)
      BY <1>1, <3>1, <3>2 DEF AffectedBy
    <3>4. KeyOf(b.job.events[e]) = fact
      BY <2>4, <3>1, KeyIsFact
    <3> HIDE DEF refs
    <3> QED BY <3>1, <3>3, <3>4 DEF BacksKey
  <2>5. \A key : BacksKey(b, key) => BacksKey(c, key)
    BY DEF BacksKey
  <2> QED BY <2>3, <2>4, <2>5 DEF BatchTold, TellsKeys
<1> QED BY <1>3, <1>4, <1>5 DEF BatchTold

LEMMA WithCandidateTold ==
    ASSUME NEW S, NEW n \in Nat, NEW b, NEW k \in 0 .. 1, BatchOk(b, k, S, n),
           NEW m \in Messages, NEW i \in DOMAIN FactsOf[m], NEW pending,
           Id(n, i) \notin S, Id(n, i) \in IdsOf(n), NEW j, BatchDone(b, j, n, pending),
           BasisInv(j), BatchTold(b, j, n)
    PROVE  BatchTold(WithCandidate(b, m, i, pending, n), j, n)
<1> DEFINE fact == FactsOf[m][i]
           proof == ProvenElsewhere(b, m, fact)
           id == Id(n, i)
           at == DateOf[m]
           l == AfterFact(b.job, fact, id, at, n)
           made == DOMAIN l.events \ DOMAIN b.job.events
           u == FactUndo(b.job, l, fact, id)
           q == [msg |-> m, fact |-> fact, state |-> "open"]
           c == WithCandidate(b, m, i, pending, n)
<1>1. fact \in Facts
  BY FactIn
<1>2. b.job \in Records(S, n) /\ RecordOk(b.job, S, n)
  BY DEF BatchOk, RecordOk
<1>3. CASE Ignored(b, m, fact, pending)
  <2>1. c = b
    BY <1>3 DEF WithCandidate
  <2> QED BY <2>1
<1>4. CASE ~Ignored(b, m, fact, pending) /\ proof # {}
  <2> DEFINE a == b.affected \cup AffectedBy(b, proof)
             ks == b.keys \cup {fact}
  <2>1. c = [b EXCEPT !.keys = ks, !.affected = a]
    BY <1>4 DEF WithCandidate, BatchOk, AffectedBy
  <2> HIDE DEF a, ks, c
  <2>2. /\ c.job = b.job /\ c.comps = b.comps /\ c.mutated = b.mutated /\ c.bound = b.bound
        /\ c.keys = ks /\ c.affected = a
    BY <2>1 DEF BatchOk
  <2>3. BatchEvents(b, j, n)
    BY DEF BatchDone
  <2> HIDE DEF fact, proof
  <2>4. proof = ProvenElsewhere(b, m, fact) /\ proof # {}
    BY <1>4 DEF proof
  <2>5. c.keys = b.keys \cup {fact} /\ c.affected = b.affected \cup AffectedBy(b, proof)
    BY <2>2 DEF a, ks
  <2>6. BatchTold(c, j, n)
    BY <1>1, <1>2, <2>2, <2>3, <2>4, <2>5, ProofTells
  <2> QED BY <2>6 DEF c
<1>5. CASE ~Ignored(b, m, fact, pending) /\ proof = {} /\ NeedsDecision(b.job, m, fact)
  <2> DEFINE p == Put(b.job.requests, id, q)
             w == [b.job EXCEPT !.requests = p]
             as == b.asked \cup {id}
  <2>1. c = [b EXCEPT !.asked = as, !.job = w]
    BY <1>2, <1>5 DEF WithCandidate, BatchOk, Records
  <2> HIDE DEF p, as, c
  <2>2. w.events = b.job.events /\ w.proofs = b.job.proofs /\ w.owner = b.job.owner
    BY <1>2 DEF Records
  <2> HIDE DEF w
  <2>3. /\ c.job = w /\ c.comps = b.comps /\ c.mutated = b.mutated /\ c.bound = b.bound
        /\ c.keys = b.keys /\ c.affected = b.affected
    BY <2>1 DEF BatchOk
  <2>4. \A key : BacksKey(c, key) <=> BacksKey(b, key)
    BY <2>2, <2>3 DEF BacksKey, LiveEvents
  <2>5. BatchTold(c, j, n)
    BY <2>2, <2>3, <2>4 DEF BatchTold, TellsJob, TellsComps, TellsBound, TellsKeys
  <2> QED BY <2>5 DEF c
<1>6. CASE ~Ignored(b, m, fact, pending) /\ proof = {} /\ ~NeedsDecision(b.job, m, fact)
  <2> DEFINE us == Append(b.comps, u)
             v == Put(b.bound, fact, made)
             ks == b.keys \cup {fact}
             ms == b.mutated \cup {fact}
             a == b.affected \cup made
  <2>1. c = [b EXCEPT !.job = l, !.comps = us, !.keys = ks, !.mutated = ms, !.bound = v, !.affected = a]
    BY <1>6 DEF WithCandidate, BatchOk
  <2>2. FactMade(b.job, l, u, id) /\ FactTold(b.job, l, u, id, fact)
    <3> HIDE DEF fact, id, at, c
    <3> QED BY <1>1, <1>2, AfterFactMakes, AfterFactTells DEF id
  <2>3. made = DOMAIN l.events \ DOMAIN b.job.events
    OBVIOUS
  <2> HIDE DEF c, us, v, ks, ms, a, l, u, fact, id, made
  <2>4. /\ c.job = l /\ c.comps = us /\ c.keys = ks /\ c.mutated = ms /\ c.bound = v /\ c.affected = a
    BY <2>1 DEF BatchOk
  <2>5. ToSet(us) = ToSet(b.comps) \cup {u} /\ DOMAIN b.bound = b.mutated
    BY ToSetAppend DEF us, BatchOk
  <2>6. id \in IdsOf(n)
    BY DEF id
  <2>7. OneMore(b, c, l, u, fact, made)
    BY <2>3, <2>4, <2>5 DEF OneMore, ks, ms, v, a
  <2>8. BatchTold(c, j, n)
    BY <2>2, <2>6, <2>7, FactTells
  <2> QED BY <2>8 DEF c
<1> QED BY <1>3, <1>4, <1>5, <1>6

LEMMA TakenTold ==
    ASSUME NEW c \in Nat, NEW n, n = c + 1, NEW j, RecordOk(j, Made(c), c), BasisInv(j),
           NEW m \in Messages, DateOf[m] <= n
    PROVE  BatchTold(Taken(j, m, n), j, n)
<1> DEFINE pending == Pending(j, m)
           S == Made(c)
           S1 == S \cup {Id(n, 1)}
           b0 == Batch(j)
           b1 == WithCandidate(b0, m, 1, pending, n)
           b2 == WithCandidate(b1, m, 2, pending, n)
<1>1. n \in Nat /\ c <= n
  OBVIOUS
<1>2. /\ Id(n, 1) \notin S /\ Id(n, 2) \notin S1 /\ Id(n, 1) \in IdsOf(n) /\ Id(n, 2) \in IdsOf(n)
  <2>1. /\ Id(n, 1) \in Made(n) \ S /\ Id(n, 2) \in Made(n) \ S /\ Id(n, 1) # Id(n, 2)
    BY MadeIs
  <2> QED BY <2>1 DEF IdsOf
<1>3. \/ Len(FactsOf[m]) = 0 /\ Taken(j, m, n) = b0
      \/ Len(FactsOf[m]) = 1 /\ Taken(j, m, n) = b1
      \/ Len(FactsOf[m]) = 2 /\ Taken(j, m, n) = b2
  BY TakenIs
<1>4. DOMAIN FactsOf[m] = 1 .. Len(FactsOf[m])
  <2>1. FactsOf[m] \in Seq(EventFacts \cup {Submitted})
    BY IntakeAssumption
  <2> QED BY <2>1
<1> HIDE DEF pending, S
<1>5. BatchOk(b0, 0, S, n) /\ BatchDone(b0, j, n, pending) /\ BatchTold(b0, j, n)
  <2>1. RecordOk(j, S, n)
    BY <1>1, RecordGrows DEF S
  <2> QED BY <2>1, BatchIsOk, BatchStarts, TellingStarts
<1>6. ASSUME 1 \in DOMAIN FactsOf[m]
      PROVE  BatchOk(b1, 1, S1, n) /\ BatchDone(b1, j, n, pending) /\ BatchTold(b1, j, n)
  <2> DEFINE i == 1  k == 0
  <2>0. k \in 0 .. 1 /\ i \in DOMAIN FactsOf[m] /\ BatchOk(b0, k, S, n) /\ BatchDone(b0, j, n, pending)
        /\ Id(n, i) \notin S /\ Id(n, i) \in IdsOf(n) /\ BatchTold(b0, j, n)
    BY <1>2, <1>5, <1>6
  <2> HIDE DEF b0, i, k
  <2>1. Handled(b0, WithCandidate(b0, m, i, pending, n), k, S, i, n)
    BY <1>1, <2>0, WithCandidateOk
  <2>2. BatchDone(WithCandidate(b0, m, i, pending, n), j, n, pending)
    BY <1>1, <2>0, WithCandidateDone
  <2>3. BatchTold(WithCandidate(b0, m, i, pending, n), j, n)
    BY <1>1, <2>0, WithCandidateTold
  <2> QED BY <2>1, <2>2, <2>3 DEF Handled, i, k
<1>7. ASSUME 1 \in DOMAIN FactsOf[m], 2 \in DOMAIN FactsOf[m]
      PROVE  BatchTold(b2, j, n)
  <2> DEFINE i == 2  k == 1
  <2>1. k \in 0 .. 1 /\ i \in DOMAIN FactsOf[m] /\ BatchOk(b1, k, S1, n) /\ BatchDone(b1, j, n, pending)
        /\ Id(n, i) \notin S1 /\ Id(n, i) \in IdsOf(n) /\ BatchTold(b1, j, n)
    BY <1>2, <1>6, <1>7
  <2> HIDE DEF b1, S1, i, k
  <2>2. BatchTold(WithCandidate(b1, m, i, pending, n), j, n)
    BY <1>1, <2>1, WithCandidateTold
  <2> QED BY <2>2 DEF i
<1> HIDE DEF b0, b1, b2, S1
<1>8. CASE Len(FactsOf[m]) = 0 /\ Taken(j, m, n) = b0
  BY <1>5, <1>8
<1>9. CASE Len(FactsOf[m]) = 1 /\ Taken(j, m, n) = b1
  <2>1. 1 \in DOMAIN FactsOf[m]
    BY <1>4, <1>9
  <2> QED BY <1>6, <1>9, <2>1
<1>10. CASE Len(FactsOf[m]) = 2 /\ Taken(j, m, n) = b2
  <2>1. 1 \in DOMAIN FactsOf[m] /\ 2 \in DOMAIN FactsOf[m]
    BY <1>4, <1>10
  <2> QED BY <1>7, <1>10, <2>1
<1> QED BY <1>3, <1>8, <1>9, <1>10

LEMMA ConfirmedTold ==
    ASSUME NEW c \in Nat, NEW n, n = c + 1, NEW j, RecordOk(j, Made(c), c), NEW d \in DOMAIN j.requests
    PROVE  BatchTold(Confirmed(j, d, n), j, n)
<1> DEFINE S == Made(c)
           choice == "confirm"
           fact == j.requests[d].fact
           at == DateOf[j.requests[d].msg]
           l == Answered(j, d, choice)
           id == Id(n, 1)
           k == AfterFact(l, fact, id, at, n)
           u == FactUndo(l, k, fact, id)
           made == DOMAIN k.events \ DOMAIN l.events
           v == Put(<<>>, fact, made)
           b == Confirmed(j, d, n)
           b0 == Batch(l)
<1>1. n \in Nat /\ c <= n /\ id \notin S /\ id \in IdsOf(n)
  <2>1. Id(n, 1) \in Made(n) \ S
    BY MadeIs
  <2> QED BY <2>1 DEF IdsOf
<1>2. fact \in Facts /\ j \in Records(S, c)
  <2>1. j.requests[d] \in RequestT(c)
    BY RequestIs DEF RecordOk
  <2> QED BY <2>1 DEF RequestT, RecordOk
<1>3. l \in Records(S, c)
  <2>1. RecordOk(l, S, c)
    BY AnsweredOk
  <2> QED BY <2>1 DEF RecordOk
<1>4. l.proofs = j.proofs
  <2> HIDE DEF choice
  <2> QED BY <1>2, AnsweredAsks
<1>5. b = [Batch(k) EXCEPT !.comps = << u >>, !.keys = {fact}, !.mutated = {fact},
                           !.bound = v, !.affected = made]
  BY DEF Confirmed
<1>6. FactMade(l, k, u, id) /\ FactTold(l, k, u, id, fact)
  <2> HIDE DEF l, fact, id, at, S
  <2> QED BY <1>1, <1>2, <1>3, AfterFactMakes, AfterFactTells
<1>7. made = DOMAIN k.events \ DOMAIN l.events
  OBVIOUS
<1> HIDE DEF l, k, u, v, made, b, fact, id, S, choice
<1>8. /\ b.job = k /\ b.comps = << u >> /\ b.keys = {fact} /\ b.mutated = {fact} /\ b.bound = v
      /\ b.affected = made
      /\ b0.job = l /\ b0.comps = <<>> /\ b0.keys = {} /\ b0.mutated = {} /\ b0.bound = <<>>
      /\ b0.affected = {}
  BY <1>5 DEF Batch
<1>9. ToSet(b.comps) = ToSet(b0.comps) \cup {u} /\ DOMAIN b0.bound = b0.mutated /\ ToSet(b0.comps) = {}
  BY <1>8, ToSetIs
<1>10. BatchTold(b0, j, n)
  BY <1>4, <1>8, <1>9 DEF BatchTold, TellsJob, TellsComps, TellsBound, TellsKeys
<1>11. OneMore(b0, b, k, u, fact, made) /\ FactMade(b0.job, k, u, id) /\ FactTold(b0.job, k, u, id, fact)
  BY <1>6, <1>7, <1>8, <1>9 DEF v, OneMore
<1> HIDE DEF b0, at
<1>12. BatchTold(b, j, n)
  BY <1>1, <1>10, <1>11, FactTells
<1> QED BY <1>12 DEF b

\* A batch that recorded something has written the job.
LEMMA BatchWrites ==
    ASSUME NEW c \in Nat, NEW n, n = c + 1, NEW j, RecordOk(j, Made(c), c), NEW k, NEW b,
           TellsJob(b, j, n), k.proofs = b.job.proofs, k.owner = b.job.owner,
           b.mutated # {} \/ \E u \in ToSet(b.comps) : OfFact(u)
    PROVE  TheJob \in Written(j, k)
<1>1. k.owner.id \in IdsOf(n) \/ k.proofs \cap IdsOf(n) # {}
  BY DEF TellsJob
<1>2. IdsOf(n) \cap Made(c) = {} /\ 0 \notin IdsOf(n)
  BY IdsApart
<1>3. j.owner.id \in Made(c) \cup {0} /\ j.proofs \subseteq Made(c)
  BY RecordIs DEF RecordOk, StampT
<1>4. j.owner # k.owner \/ j.proofs # k.proofs
  BY <1>1, <1>2, <1>3
<1> QED BY <1>4, JobWritten

BatchKeeps(j, k, n, row) == BasisInv(k) /\ GoodMove(j, k, n) /\ FactRow(k, n, row) /\ Honest(j, k)

LEMMA BatchHonest ==
    ASSUME NEW c \in Nat, NEW n, n = c + 1, NEW j, RecordOk(j, Made(c), c), ReceiptsRest(j), BasisInv(j),
           NEW m, NEW b, NEW x, NEW pending, BatchOk(b, x, Made(n), n), BatchDone(b, j, n, pending),
           BatchTold(b, j, n), NEW k, k = AfterObservation(b, m, n),
           NEW row, row.comps = b.comps, row.objects = Written(j, k)
    PROVE  BatchKeeps(j, k, n, row)
<1> DEFINE rec == Receipt(m, b)
<1>1. /\ k.events = b.job.events /\ k.proofs = b.job.proofs /\ k.owner = b.job.owner
      /\ DOMAIN k.receipts = DOMAIN j.receipts \cup {n} /\ k.receipts[n] = rec
      /\ \A r \in DOMAIN j.receipts : r # n => k.receipts[r] = j.receipts[r]
  <2>1. b.job \in Records(Made(n), n) /\ b.job.receipts = j.receipts
    BY DEF BatchOk, RecordOk, BatchDone, BatchEvents
  <2> QED BY <2>1, AfterObservationIs
<1>2. /\ rec.keys = b.keys /\ rec.mutated = b.mutated /\ rec.bound = b.bound
      /\ rec.affected = b.affected /\ rec.gone = {}
  BY DEF Receipt
<1>3. /\ n \notin DOMAIN j.receipts /\ \A r \in DOMAIN j.receipts : k.receipts[r] = j.receipts[r]
      /\ n \in Nat /\ \A r \in DOMAIN j.receipts : r \in 1 .. c /\ r <= n
  <2>1. \A r \in DOMAIN j.receipts : r \in 1 .. c
    BY ReceiptTimes
  <2> QED BY <1>1, <2>1
<1> HIDE DEF rec
<1>4. TellsJob(b, j, n) /\ TellsComps(b, n) /\ TellsBound(b, j, n) /\ TellsKeys(b, j)
  BY DEF BatchTold
<1>5. /\ \A r \in DOMAIN j.receipts : \A key : Stands(k, r, key) <=> Stands(j, r, key)
      /\ \A key : Stands(k, n, key) => key \in b.keys
  BY <1>1, <1>2, <1>3 DEF Stands
<1>6. LiveKept(j, k)
  BY <1>1 DEF BatchDone, BatchEvents, LiveKept, LiveEvents, SameEvent
<1>7. b.mutated # {} \/ (\E u \in ToSet(b.comps) : OfFact(u)) => TheJob \in Written(j, k)
  BY <1>1, <1>4, BatchWrites
<1>8. GoodMove(j, k, n)
  BY <1>1, <1>2, <1>3, <1>7 DEF GoodMove
<1>9. BasisInv(k)
  <2>1. ASSUME NEW r \in DOMAIN j.receipts PROVE RestsOn(k, r)
    <3>1. RestsOn(j, r)
      BY DEF BasisInv
    <3> QED BY <1>1, <1>3, <3>1 DEF RestsOn
  <2>2. RestsOn(k, n)
    BY <1>1, <1>2, <1>3, <1>4 DEF RestsOn, TellsBound
  <2>3. \A p \in DOMAIN j.receipts : ProvedBy(j, p) => ProvedBy(k, p)
    BY <1>1, <1>3, <1>4, <1>5 DEF ProvedBy, TellsJob
  <2>4. ASSUME NEW r \in DOMAIN j.receipts, Stands(k, r, Submitted)
        PROVE  \E p \in DOMAIN k.receipts : p <= r /\ ProvedBy(k, p)
    BY <1>1, <1>5, <2>3, <2>4 DEF BasisInv, SubmissionRests
  <2>5. ASSUME Stands(k, n, Submitted)
        PROVE  \E p \in DOMAIN k.receipts : p <= n /\ ProvedBy(k, p)
    <3>1. CASE Submitted \in b.mutated
      <4>1. ProvedBy(k, n)
        BY <1>1, <1>2, <1>4, <2>5, <3>1 DEF ProvedBy, TellsBound
      <4> QED BY <1>1, <1>3, <4>1
    <3>2. CASE Submitted \notin b.mutated
      <4>1. PICK p \in DOMAIN j.receipts : ProvedBy(j, p)
        BY <1>4, <1>5, <2>5, <3>2 DEF TellsKeys
      <4> QED BY <1>1, <1>3, <2>3, <4>1
    <3> QED BY <3>1, <3>2
  <2> QED BY <1>1, <2>1, <2>2, <2>4, <2>5 DEF BasisInv, SubmissionRests
<1>10. FactRow(k, n, row)
  <2>1. NoneLater(k, n)
    BY <1>1, <1>3 DEF NoneLater
  <2>2. RecordsFact(k, n, row) => TheJob \in row.objects
    BY <1>1, <1>2, <1>7 DEF RecordsFact
  <2>3. \A u \in ToSet(row.comps) : OfFact(u) => u.id \in IdsOf(n)
    BY <1>4 DEF TellsComps
  <2>4. \A u \in ToSet(row.comps) : Deletes(u) => KeyOf(k.events[u.id]) \in k.receipts[n].mutated
    BY <1>1, <1>2, <1>4 DEF TellsComps
  <2> QED BY <2>1, <2>2, <2>3, <2>4 DEF FactRow
<1>11. Honest(j, k)
  <2> SUFFICES ASSUME NEW r \in DOMAIN k.receipts, NEW key \in Facts, Unbacked(k, r, key)
               PROVE  r \in DOMAIN j.receipts /\ Unbacked(j, r, key)
    BY DEF Honest
  <2>1. key # Submitted
    BY <1>9, SubmissionBacked
  <2>2. Stands(k, r, key) /\ \A e : ~Backs(k, r, key, e)
    BY <2>1, UnbackedIs
  <2>3. CASE r = n
    <3>1. BacksKey(b, key)
      BY <1>4, <1>5, <2>1, <2>2, <2>3 DEF TellsKeys
    <3>2. PICK e \in LiveEvents(b.job) \cap b.affected : KeyOf(b.job.events[e]) = key
      BY <3>1 DEF BacksKey
    <3>3. Backs(k, r, key, e)
      BY <1>1, <1>2, <2>3, <3>2 DEF Backs, LiveEvents
    <3> QED BY <2>2, <3>3
  <2>4. CASE r \in DOMAIN j.receipts
    <3>1. Stands(j, r, key) /\ k.receipts[r] = j.receipts[r]
      BY <1>3, <1>5, <2>2, <2>4
    <3>2. \A e : Backs(j, r, key, e) => Backs(k, r, key, e)
      BY <1>6, <3>1 DEF Backs, LiveKept, SameEvent, KeyOf
    <3> QED BY <2>1, <2>2, <2>4, <3>1, <3>2, UnbackedIs
  <2> QED BY <1>1, <2>3, <2>4
<1> QED BY <1>8, <1>9, <1>10, <1>11 DEF BatchKeeps

LEMMA ObserveHonest ==
    ASSUME RecordInv, OnceInv, HonestInv, NEW m \in Messages, Observe(m)
    PROVE  HonestInv' /\ Honest(job, job')
<1> DEFINE c == clock  n == now  j == job
           b == Taken(j, m, n)  k == AfterObservation(b, m, n)
           row == Row(k, b.comps, b.asked, {})
<1>1. c \in Nat /\ n = c + 1
  BY HistoryAssumption DEF RecordInv, Times, now
<1>2. RecordOk(j, Made(c), c) /\ ReceiptsRest(j) /\ BasisInv(j)
  BY DEF RecordInv, OnceInv, ClaimsInv, HonestInv
<1>3. CommitWithRow(k, row) /\ DateOf[m] <= n
  BY DEF Observe
<1>4. row.comps = b.comps /\ row.objects = Written(j, k)
  BY DEF Row
<1>5. job' = k
  BY <1>3 DEF CommitWithRow, Commit
<1>6. k = AfterObservation(b, m, n)
  OBVIOUS
<1> HIDE DEF c, n, j, b, k, row
<1>7. BatchOk(b, 2, Made(n), n) /\ BatchDone(b, j, n, Pending(j, m)) /\ BatchTold(b, j, n)
  BY <1>1, <1>2, <1>3, TakenOk, TakenDone, TakenTold DEF b
<1>8. BatchKeeps(j, k, n, row)
  <2> DEFINE x == 2  pending == Pending(j, m)
  <2>1. BatchOk(b, x, Made(n), n) /\ BatchDone(b, j, n, pending) /\ BatchTold(b, j, n)
    BY <1>7
  <2> HIDE DEF x, pending
  <2> QED BY <1>1, <1>2, <1>4, <1>6, <2>1, BatchHonest
<1>9. BasisInv(k) /\ GoodMove(job, k, now) /\ FactRow(k, now, row) /\ Honest(job, k)
  BY <1>8 DEF BatchKeeps, j, n
<1> QED BY <1>3, <1>5, <1>9, HonestWithRow

LEMMA ConfirmHonest ==
    ASSUME RecordInv, OnceInv, HonestInv, NEW d \in DOMAIN job.requests, Confirm(d)
    PROVE  HonestInv' /\ Honest(job, job')
<1> DEFINE c == clock  n == now  j == job  m == j.requests[d].msg
           b == Confirmed(j, d, n)  k == AfterObservation(b, m, n)
           row == Row(k, b.comps, {d}, {d})
<1>1. c \in Nat /\ n = c + 1
  BY HistoryAssumption DEF RecordInv, Times, now
<1>2. RecordOk(j, Made(c), c) /\ ReceiptsRest(j) /\ BasisInv(j) /\ d \in DOMAIN j.requests
  BY DEF RecordInv, OnceInv, ClaimsInv, HonestInv
<1>3. CommitWithRow(k, row)
  BY DEF Confirm
<1>4. row.comps = b.comps /\ row.objects = Written(j, k)
  BY DEF Row
<1>5. job' = k
  BY <1>3 DEF CommitWithRow, Commit
<1>6. k = AfterObservation(b, m, n)
  OBVIOUS
<1> HIDE DEF c, n, j, b, k, row
<1> DEFINE none == {}  x == 1
<1>7. BatchOk(b, x, Made(n), n) /\ BatchDone(b, j, n, none) /\ BatchTold(b, j, n)
  BY <1>1, <1>2, ConfirmedOk, ConfirmedDone, ConfirmedTold DEF b
<1> HIDE DEF none, x, m
<1>8. BatchKeeps(j, k, n, row)
  BY <1>1, <1>2, <1>4, <1>6, <1>7, BatchHonest
<1>9. BasisInv(k) /\ GoodMove(job, k, now) /\ FactRow(k, now, row) /\ Honest(job, k)
  BY <1>8 DEF BatchKeeps, j, n
<1> QED BY <1>3, <1>5, <1>9, HonestWithRow

-----------------------------------------------------------------------------
(* Steps that take claims away                                              *)

LEMMA WeakensGood ==
    ASSUME NEW j, NEW k, NEW n, Weakens(j, k, n)
    PROVE  /\ GoodMove(j, k, n) /\ DOMAIN k.receipts = DOMAIN j.receipts
           /\ \A r \in DOMAIN j.receipts : Loses(j, k, r)
  BY DEF Weakens, GoodMove, Loses, SameClaims

\* What loses some claims stands for the others.
LEMMA LosingStands ==
    ASSUME NEW S, NEW c, NEW j \in Records(S, c), NEW k, NEW q \in DOMAIN j.receipts, NEW keys,
           NEW corrected, NEW n, k.receipts[q] = Losing(j.receipts[q], keys, corrected, n), NEW key
    PROVE  Stands(k, q, key) <=> Stands(j, q, key) /\ key \notin keys
<1> DEFINE rec == j.receipts[q]  new == k.receipts[q]
<1>1. rec \in ReceiptT(S, c) /\ new = Losing(rec, keys, corrected, n)
  BY ReceiptIs
<1> HIDE DEF rec, new
<1>2. /\ SameClaims(rec, new) /\ new.status = rec.status
      /\ \A x : x \in GoneKeys(new) <=> x \in GoneKeys(rec) \/ x \in keys
  BY <1>1, LosingIs
<1> QED BY <1>2 DEF Stands, SameClaims, rec, new

\* A submission is bound to no event: no correction of one revokes it.
LEMMA CorrectionBasis ==
    ASSUME NEW c \in Nat, NEW n, n = c + 1, NEW j, RecordOk(j, Made(c), c), BasisInv(j),
           NEW e \in DOMAIN j.events, NEW r \in DOMAIN j.receipts,
           NEW k, k = AfterCorrection(j, r, e, n), Weakens(j, k, n)
    PROVE  BasisInv(k)
<1> DEFINE S == Made(c)  corrected == TRUE
<1>1. j \in Records(S, c)
  BY DEF RecordOk
<1> HIDE DEF S
<1>2. CorrectionIs(j, k, r, e, n)
  BY <1>1, AfterCorrectionIs
<1>3. Submitted \notin OwnedKeys(j, r, e)
  BY DEF OwnedKeys, BasisInv, RestsOn
<1>4. ASSUME NEW p \in DOMAIN j.receipts, ProvedBy(j, p) PROVE ProvedBy(k, p)
  <2>1. k.proofs = j.proofs /\ k.receipts[p].mutated = j.receipts[p].mutated
    BY <1>2, WeakensGood DEF CorrectionIs, Loses, SameClaims
  <2>2. CASE j.receipts[p].msg # j.receipts[r].msg
    <3>1. k.receipts[p] = j.receipts[p]
      BY <1>2, <2>2 DEF CorrectionIs
    <3> QED BY <1>4, <2>1, <3>1 DEF ProvedBy, Stands
  <2>3. CASE j.receipts[p].msg = j.receipts[r].msg
    <3> DEFINE keys == Revoked(j, r, e, p)  key == Submitted
    <3>1. k.receipts[p] = Losing(j.receipts[p], keys, corrected, n)
      BY <1>2, <2>3 DEF CorrectionIs
    <3>2. key \notin keys
      BY <1>3 DEF Revoked
    <3> HIDE DEF keys, key, corrected
    <3>3. Stands(k, p, key) <=> Stands(j, p, key) /\ key \notin keys
      BY ONLY <1>1, <1>4, <3>1, LosingStands
    <3> QED BY <1>4, <2>1, <3>2, <3>3 DEF ProvedBy, key
  <2> QED BY <2>2, <2>3
<1> QED BY <1>4, WeakensGood, BasisKept

LEMMA InvalidateHonest ==
    ASSUME RecordInv, OnceInv, HonestInv, NEW e \in DOMAIN job.events, NEW r \in DOMAIN job.receipts,
           Invalidate(e, r)
    PROVE  HonestInv'
<1> DEFINE c == clock  n == now  j == job  k == AfterCorrection(job, r, e, now)
<1>1. c \in Nat /\ n = c + 1
  BY HistoryAssumption DEF RecordInv, Times, now
<1>2. RecordOk(j, Made(c), c) /\ ClaimsInv(j) /\ BasisInv(j)
  BY DEF RecordInv, OnceInv, HonestInv
<1>3. CommitFinal(k) /\ Correctable(j, r, e) /\ k = AfterCorrection(j, r, e, n)
  BY DEF Invalidate
<1>4. e \in DOMAIN j.events /\ r \in DOMAIN j.receipts
  OBVIOUS
<1> HIDE DEF c, n, j, k
<1>5. Weakens(j, k, n)
  BY <1>1, <1>2, <1>3, <1>4, CorrectionWeakens
<1>6. BasisInv(k)
  BY <1>1, <1>2, <1>3, <1>4, <1>5, CorrectionBasis
<1>7. GoodMove(job, k, now)
  BY <1>5, WeakensGood DEF j, n
<1> QED BY <1>3, <1>6, <1>7, HonestFinal

\* What the receipts other than s stand for once the command s is undone.
LEMMA UndoneStands ==
    ASSUME NEW S, NEW c, NEW j \in Records(S, c), NEW k, NEW s, NEW n, ReceiptsUndone(j, k, s, n),
           NEW q \in DOMAIN j.receipts, NEW key
    PROVE  /\ q = s => ~Stands(k, q, key)
           /\ q # s /\ q > s /\ Stands(j, q, key) =>
                 (Stands(k, q, key) <=> key \notin Orphaned(j, s, q))
           /\ q # s /\ ~(q > s) => (Stands(k, q, key) <=> Stands(j, q, key))
<1>1. CASE q = s
  BY <1>1 DEF ReceiptsUndone, Stands
<1>2. CASE q # s /\ q > s /\ j.receipts[q].status = "committed"
  <2> DEFINE keys == Orphaned(j, s, q)  corrected == FALSE
  <2>1. k.receipts[q] = Losing(j.receipts[q], keys, corrected, n)
    BY <1>2 DEF ReceiptsUndone
  <2> HIDE DEF keys, corrected
  <2>2. Stands(k, q, key) <=> Stands(j, q, key) /\ key \notin keys
    BY <2>1, LosingStands
  <2> QED BY <1>2, <2>2 DEF keys
<1>3. CASE q # s /\ ~(q > s /\ j.receipts[q].status = "committed")
  <2>1. k.receipts[q] = j.receipts[q]
    BY <1>3 DEF ReceiptsUndone
  <2> QED BY <1>3, <2>1 DEF Stands
<1> QED BY <1>1, <1>2, <1>3

\* Receipts after s that recorded nothing themselves lose what s recorded.
LEMMA LaterFalls ==
    ASSUME NEW S, NEW c \in Nat, NEW j \in Records(S, c), NEW k, NEW s, NEW n, ReceiptsUndone(j, k, s, n),
           NoneLater(j, s), NEW r \in DOMAIN j.receipts, s <= r, s \in Nat, r \in Nat,
           NEW key \in j.receipts[s].mutated
    PROVE  ~Stands(j, r, key) \/ ~Stands(k, r, key)
<1>1. CASE r = s
  BY <1>1, UndoneStands
<1>2. CASE r # s
  <2> SUFFICES ASSUME Stands(j, r, key) PROVE ~Stands(k, r, key)
    OBVIOUS
  <2>1. r > s /\ j.receipts[r].mutated = {}
    BY <1>2 DEF NoneLater
  <2>2. key \in j.receipts[r].keys /\ key \notin GoneKeys(j.receipts[r])
    BY DEF Stands
  <2>3. key \in Orphaned(j, s, r)
    BY <2>1, <2>2 DEF Orphaned, OwnsItself
  <2> QED BY <1>2, <2>1, <2>3, UndoneStands
<1> QED BY <1>1, <1>2

\* What an undo of command s leaves: the record j, its receipts and its proofs.
UndoneFrom(j, k, s, n, row) ==
    \E l : /\ CompsDone(row.comps, j, l) /\ k.events = l.events /\ k.proofs = l.proofs
           /\ \/ k.receipts = j.receipts /\ s \notin DOMAIN j.receipts
              \/ ReceiptsUndone(j, k, s, n)

LEMMA UndoBasis ==
    ASSUME NEW c \in Nat, NEW n, NEW j, RecordOk(j, Made(c), c), BasisInv(j), NEW s \in 1 .. c,
           NEW row, FactRow(j, s, row), NEW k, UndoneFrom(j, k, s, n, row), Weakens(j, k, n)
    PROVE  BasisInv(k)
<1>1. PICK l : /\ CompsDone(row.comps, j, l) /\ k.events = l.events /\ k.proofs = l.proofs
               /\ \/ k.receipts = j.receipts /\ s \notin DOMAIN j.receipts
                  \/ ReceiptsUndone(j, k, s, n)
  BY DEF UndoneFrom
<1>2. \A r \in DOMAIN j.receipts : r \in Nat
  BY ReceiptTimes
<1>3. \A r \in DOMAIN j.receipts : Loses(j, k, r)
  BY WeakensGood
<1> DEFINE key == Submitted
<1>4. ASSUME NEW r \in DOMAIN j.receipts, NEW p \in DOMAIN j.receipts, p <= r, Stands(k, r, key), ProvedBy(j, p)
      PROVE  ProvedBy(k, p)
  <2>1. key \in j.receipts[p].mutated /\ Stands(j, p, key)
    BY <1>4 DEF ProvedBy
  <2>2. Stands(j, r, key) /\ k.receipts[p].mutated = j.receipts[p].mutated
    BY <1>3, <1>4 DEF Loses, SameClaims
  <2> HIDE DEF key
  <2>3. CASE p = s
    <3>1. ReceiptsUndone(j, k, s, n)
      BY <1>1, <1>4, <2>3
    <3>2. NoneLater(j, s)
      BY <2>1, <2>3 DEF FactRow, RecordsFact
    <3> DEFINE S == Made(c)
    <3>3. j \in Records(S, c)
      BY DEF RecordOk
    <3> HIDE DEF S
    <3>4. s \in Nat /\ r \in Nat /\ s <= r
      BY <1>2, <1>4, <2>3
    <3>5. ~Stands(j, r, key) \/ ~Stands(k, r, key)
      BY <2>1, <2>3, <3>1, <3>2, <3>3, <3>4, LaterFalls
    <3> QED BY <1>4, <2>2, <3>5
  <2>4. CASE p # s
    <3>1. PICK a \in j.proofs : a \in IdsOf(p)
      BY <1>4 DEF ProvedBy
    <3>2. a \in k.proofs
      <4>1. ASSUME NEW x \in ToSet(row.comps), Unproves(x), x.id = a PROVE FALSE
        <5>1. a \in IdsOf(s)
          BY <4>1 DEF FactRow, OfFact
        <5>2. p = s
          BY <1>2, <3>1, <5>1, IdsApart
        <5> QED BY <2>4, <5>2
      <4> QED BY <1>1, <4>1 DEF CompsDone
    <3>3. Stands(k, p, key)
      <4>1. CASE k.receipts = j.receipts
        BY <2>1, <4>1 DEF Stands
      <4>2. CASE ReceiptsUndone(j, k, s, n)
        <5>1. p > s => key \notin Orphaned(j, s, p)
          <6> SUFFICES ASSUME p > s, key \in Orphaned(j, s, p) PROVE FALSE
            OBVIOUS
          <6>1. s \in DOMAIN j.receipts /\ key \in j.receipts[s].mutated
            BY <4>2 DEF Orphaned, ReceiptsUndone
          <6>2. NoneLater(j, s)
            BY <6>1 DEF FactRow, RecordsFact
          <6> QED BY <2>1, <6>2 DEF NoneLater
        <5> DEFINE S == Made(c)
        <5>2. j \in Records(S, c)
          BY DEF RecordOk
        <5> HIDE DEF S
        <5> QED BY <2>1, <2>4, <4>2, <5>1, <5>2, UndoneStands
      <4> QED BY <1>1, <4>1, <4>2
    <3>4. k.proofs \cap IdsOf(p) # {} /\ key \in k.receipts[p].mutated
      BY <2>1, <2>2, <3>1, <3>2
    <3> QED BY <3>3, <3>4 DEF ProvedBy, key
  <2> QED BY <2>3, <2>4
<1>5. DOMAIN k.receipts = DOMAIN j.receipts
  BY WeakensGood
<1> QED BY <1>3, <1>4, <1>5, BasisKept

\* An undo takes the event of a fact away only with the claims to it.
LEMMA UndoneIsHonest ==
    ASSUME NEW c \in Nat, NEW n, NEW j, RecordOk(j, Made(c), c), BasisInv(j), NEW s \in 1 .. c,
           NEW row, FactRow(j, s, row), NEW k, UndoneFrom(j, k, s, n, row), Weakens(j, k, n), BasisInv(k)
    PROVE  Honest(j, k)
<1>1. PICK l : /\ CompsDone(row.comps, j, l) /\ k.events = l.events
               /\ \/ k.receipts = j.receipts /\ s \notin DOMAIN j.receipts
                  \/ ReceiptsUndone(j, k, s, n)
  BY DEF UndoneFrom
<1>2. \A r \in DOMAIN j.receipts : r \in Nat
  BY ReceiptTimes
<1> SUFFICES ASSUME NEW r \in DOMAIN k.receipts, NEW key \in Facts, Unbacked(k, r, key)
             PROVE  r \in DOMAIN j.receipts /\ Unbacked(j, r, key)
  BY DEF Honest
<1>3. key # Submitted
  BY SubmissionBacked
<1>4. Stands(k, r, key) /\ \A e : ~Backs(k, r, key, e)
  BY <1>3, UnbackedIs
<1>5. r \in DOMAIN j.receipts /\ Loses(j, k, r)
  BY WeakensGood
<1>6. Stands(j, r, key) /\ k.receipts[r].affected = j.receipts[r].affected
  BY <1>4, <1>5 DEF Loses, SameClaims
<1>7. ASSUME NEW e, Backs(j, r, key, e) PROVE FALSE
  <2>1. e \in DOMAIN j.events /\ ~j.events[e].dead /\ e \in j.receipts[r].affected /\ KeyOf(j.events[e]) = key
    BY <1>7 DEF Backs, LiveEvents
  <2>2. CASE e \in DOMAIN l.events /\ SameEvent(j.events[e], l.events[e])
    <3>1. Backs(k, r, key, e)
      BY <1>1, <1>6, <2>1, <2>2 DEF Backs, LiveEvents, SameEvent, KeyOf
    <3> QED BY <1>4, <3>1
  <2>3. ASSUME NEW x \in ToSet(row.comps), Deletes(x), x.id = e PROVE FALSE
    <3>1. OfFact(x) /\ e \in IdsOf(s)
      BY <2>3 DEF FactRow, OfFact
    <3>2. PICK p \in DOMAIN j.receipts : p <= r /\ e \in IdsOf(p)
      BY <1>5, <2>1 DEF BasisInv, RestsOn
    <3>3. p = s
      BY <1>2, <3>1, <3>2, IdsApart
    <3>4. s \in DOMAIN j.receipts /\ s <= r /\ s \in Nat /\ r \in Nat
      BY <1>2, <1>5, <3>2, <3>3
    <3>5. key \in j.receipts[s].mutated
      BY <2>1, <2>3, <3>4 DEF FactRow
    <3>6. NoneLater(j, s)
      BY <2>3, <3>1 DEF FactRow, RecordsFact
    <3>7. ReceiptsUndone(j, k, s, n)
      BY <1>1, <3>4
    <3> DEFINE S == Made(c)
    <3>8. j \in Records(S, c)
      BY DEF RecordOk
    <3> HIDE DEF S
    <3>9. ~Stands(j, r, key) \/ ~Stands(k, r, key)
      BY <1>5, <3>4, <3>5, <3>6, <3>7, <3>8, LaterFalls
    <3> QED BY <1>4, <1>6, <3>9
  <2> QED BY <1>1, <2>1, <2>2, <2>3 DEF CompsDone
<1> QED BY <1>3, <1>5, <1>6, <1>7, UnbackedIs

LEMMA UndoHonest ==
    ASSUME RecordInv, OnceInv, HonestInv, NEW s \in DOMAIN undoable, Undo(s)
    PROVE  HonestInv' /\ Honest(job, job')
<1> DEFINE c == clock  n == now  j == job  row == undoable[s]  k == Undone(s).job
           comps == row.comps  asked == row.asked  reopened == row.reopened
<1>1. c \in Nat /\ n = c + 1
  BY HistoryAssumption DEF RecordInv, Times, now
<1>2. /\ RecordOk(j, Made(c), c) /\ ClaimsInv(j) /\ RowClaims(j, s, row) /\ s \in 1 .. c
      /\ RowCompsT(comps, DOMAIN j.nodes, Made(c), c) /\ BasisInv(j) /\ FactRow(j, s, row)
  BY DEF RecordInv, RowsOk, OnceInv, HonestInv
<1>3. CommitFinal(k) /\ k = UndoneBatch(j, s, comps, asked, reopened, n).job
      /\ UndoneBatch(j, s, comps, asked, reopened, n).ok
  BY DEF Undo, Undone
<1>4. job' = k
  BY <1>3 DEF CommitFinal, Commit
<1> HIDE DEF c, n, j, k, asked, reopened, comps
<1>5. PICK l : /\ CompsDone(comps, j, l) /\ k.events = l.events /\ k.proofs = l.proofs /\ SameQuestions(j, k)
               /\ \/ k.receipts = j.receipts /\ s \notin DOMAIN j.receipts
                  \/ ReceiptsUndone(j, k, s, n)
  BY <1>1, <1>2, <1>3, UndoneBatchIs
<1>6. CompsDone(row.comps, j, l)
  BY <1>5 DEF comps
<1> HIDE DEF row
<1>7. UndoneFrom(j, k, s, n, row)
  BY <1>5, <1>6 DEF UndoneFrom
<1>8. Weakens(j, k, n)
  BY <1>1, <1>2, <1>5, <1>6, UndoWeakens
<1>9. BasisInv(k)
  BY <1>1, <1>2, <1>7, <1>8, UndoBasis
<1>10. Honest(j, k)
  BY <1>1, <1>2, <1>7, <1>8, <1>9, UndoneIsHonest
<1>11. GoodMove(job, k, now)
  BY <1>8, WeakensGood DEF j, n
<1>12. HonestInv'
  BY <1>3, <1>9, <1>11, HonestFinal
<1> QED BY <1>4, <1>10, <1>12 DEF j

-----------------------------------------------------------------------------
LEMMA HonestInvInit == Init => HonestInv
<1> SUFFICES ASSUME Init PROVE HonestInv
  OBVIOUS
<1>1. job = NewJob /\ undoable = <<>> /\ NewJob.receipts = <<>> /\ DOMAIN <<>> = {}
  BY DEF Init, NewJob
<1> QED BY <1>1 DEF HonestInv, BasisInv, SubmissionRests

\* The user's own deletion or correction of an event.
TakesBack ==
    \E e \in DOMAIN job.events :
        DeleteEvent(e) \/ \E r \in DOMAIN job.receipts : Invalidate(e, r)

LEMMA NextIsHonest ==
    ASSUME RecordInv, OnceInv, HonestInv, Next
    PROVE  HonestInv' /\ (TakesBack \/ Honest(job, job'))
<1>1. CASE Submit
  BY <1>1, SubmitHonest
<1>2. CASE \E slot \in Slots : RecordEvent("interview", slot)
  BY <1>2, RecordEventHonest
<1>3. CASE RecordEvent("offer", NoSlot)
  BY <1>3, RecordEventHonest
<1>4. CASE \E task \in DOMAIN job.tasks, status \in Marks : SetStatus(task, status)
  BY <1>4, SetStatusHonest
<1>5. CASE \E e \in Interviews, cancelled \in BOOLEAN : Settle(e, cancelled)
  BY <1>5, SettleHonest
<1>6. CASE \E e \in Interviews, slot \in Slots : Reschedule(e, slot)
  BY <1>6, RescheduleHonest
<1>7. CASE Abandon
  BY <1>7, AbandonHonest
<1>8. CASE \E e \in DOMAIN job.events : DeleteEvent(e)
  BY <1>8, DeleteEventHonest DEF TakesBack
<1>9. CASE \E e \in DOMAIN job.events, r \in DOMAIN job.receipts : Invalidate(e, r)
  BY <1>9, InvalidateHonest DEF TakesBack
<1>10. CASE \E m \in Messages : Observe(m)
  BY <1>10, ObserveHonest
<1>11. CASE \E d \in DOMAIN job.requests : Confirm(d) \/ Dismiss(d)
  BY <1>11, ConfirmHonest, DismissHonest
<1>12. CASE \E n \in DOMAIN undoable : Undo(n)
  BY <1>12, UndoHonest
<1> QED BY <1>1, <1>2, <1>3, <1>4, <1>5, <1>6, <1>7, <1>8, <1>9, <1>10, <1>11, <1>12 DEF Next

\* Only the user's own deletion or correction of an event leaves a receipt
\* standing for a fact the record has lost; no undo does, and no other command,
\* for every set of messages and histories of any length.  A receipt is written
\* over live events (receiptProvesCandidate), and an undo takes a fact from every
\* later receipt that did not record it itself (factInvalidations,
\* semanticIntake.ts); that is enough because every command that records a fact
\* writes the job, so that the one being undone was the last of them
\* (gateway/authoritativeCommands.ts).
THEOREM ReceiptsHonest == Spec => ReceiptsAreHonest
<1>1. Init => RecordInv /\ OnceInv /\ HonestInv
  BY RecordInvInit, OnceInvInit, HonestInvInit
<1>2. RecordInv /\ OnceInv /\ HonestInv /\ [Next]_vars => RecordInv' /\ OnceInv' /\ HonestInv'
  <2>1. CASE Next
    BY <2>1, RecordInvStep, OnceInvStep, NextIsHonest
  <2>2. CASE UNCHANGED vars
    BY <2>2, RecordInvStep, OnceInvStep DEF vars, HonestInv
  <2> QED BY <2>1, <2>2
<1>3. RecordInv /\ OnceInv /\ HonestInv /\ [Next]_vars =>
        [\/ \E e \in DOMAIN job.events :
               DeleteEvent(e) \/ \E r \in DOMAIN job.receipts : Invalidate(e, r)
         \/ \A r \in DOMAIN job'.receipts, key \in Facts :
               Unbacked(job', r, key) => r \in DOMAIN job.receipts /\ Unbacked(job, r, key)]_vars
  BY NextIsHonest DEF TakesBack, Honest
<1> QED BY <1>1, <1>2, <1>3, PTL DEF Spec, ReceiptsAreHonest
=============================================================================

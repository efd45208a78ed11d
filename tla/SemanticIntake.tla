---------------------------- MODULE SemanticIntake ----------------------------
(***************************************************************************)
(* src/src/semanticIntake.ts: how a message's facts enter a job's record,   *)
(* how a question left to the user is answered, and how either is undone.   *)
(* Pure operators over JobRecord's record.                                  *)
(*                                                                          *)
(* A message is one source record: an assertion, made with high confidence, *)
(* about this job, by a source other than Gmail.  A receipt is identified   *)
(* by the command that wrote it, which also stands for its                  *)
(* creationSequence.                                                        *)
(***************************************************************************)
EXTENDS JobRecord

CONSTANTS
    Messages,   \* source records
    SourceOf,   \* [Messages -> sources]
    DateOf,     \* [Messages -> Nat]: source.assertedAt
    FactsOf     \* [Messages -> Seq(facts)]: the candidates, in order

\* A fact is also its own semantic key: what happened, and when it is set for.
Submitted == [kind |-> "submitted", slot |-> NoSlot]
EventFacts == [kind : {"interview"}, slot : Nat] \cup [kind : {"offer"}, slot : {NoSlot}]

\* A message reports what JobRecord models, at most two facts of it.
ASSUME IntakeAssumption ==
    /\ DateOf \in [Messages -> Nat]
    /\ \A m \in Messages :
          /\ FactsOf[m] \in Seq(EventFacts \cup {Submitted})
          /\ Len(FactsOf[m]) <= 2

FactsIn(m) == {FactsOf[m][i] : i \in DOMAIN FactsOf[m]}

SameSource(r, m) == SourceOf[r.msg] = SourceOf[m]
ReceiptsOf(j, m) == {r \in DOMAIN j.receipts : j.receipts[r].msg = m}
GoneKeys(r) == {g.key : g \in r.gone}
Stands(j, r, key) ==
    /\ j.receipts[r].status = "committed"
    /\ key \in j.receipts[r].keys \ GoneKeys(j.receipts[r])

\* pendingFactKeys: facts of this record lost to an undo or a correction and
\* not committed again since.
Pending(j, m) ==
    LET mine == ReceiptsOf(j, m)
        Since(key, after) == \E r \in mine : r > after /\ Stands(j, r, key)
        lost == UNION {{g.key : g \in {h \in j.receipts[r].gone : ~Since(h.key, h.after)}} : r \in mine}
        undone == UNION {{key \in j.receipts[r].mutated : ~Since(key, j.receipts[r].undone)} :
                            r \in {q \in mine : j.receipts[q].status = "undone"}}
    IN  lost \cup undone

\* existingReceipt: this record was taken in and nothing of it was lost.
Replayed(j, m) ==
    /\ Pending(j, m) = {}
    /\ \E r \in ReceiptsOf(j, m) : j.receipts[r].status # "undone" /\ j.receipts[r].gone = {}

\* receiptProvesCandidate: a receipt proves an event fact only by a live event
\* of the same meaning; when the job has exactly one occurrence that is not
\* cancelled, the event must moreover be that occurrence's.
Proves(j, r, fact) ==
    LET rec == j.receipts[r]
        refs == IF fact \in rec.mutated THEN rec.bound[fact] ELSE rec.affected
        kept == {e \in DOMAIN j.nodes : Current(j, e).state # "cancelled"}
    IN  \/ fact = Submitted
        \/ \E e \in refs \cap LiveEvents(j) :
              /\ j.events[e].type = fact.kind
              /\ j.events[e].slot = fact.slot
              /\ Cardinality(kept) = 1 => e \in kept

\* A corrected source cannot bring its revoked fact back by itself.
Corrected(j, m, fact) ==
    \E r \in ReceiptsOf(j, m) : \E g \in j.receipts[r].gone : g.key = fact /\ g.corrected

\* An observation older than the newest fact on record is left to the user.
Outdated(j, m) ==
    \/ DateOf[m] < j.owner.at
    \/ DateOf[m] < j.process.owner.at
    \/ DateOf[m] < j.process.last

AfterFact(j, fact, id, at, now) ==
    IF fact = Submitted THEN AfterSubmission(j, id, at)
    ELSE AfterEvent(j, id, fact.kind, fact.slot, at, now)

FactUndo(j, k, fact, id) ==
    IF fact = Submitted THEN SubmissionUndo(j, k, id) ELSE EventUndo(j, k, id)

NeedsDecision(j, m, fact) ==
    \/ Outdated(j, m)
    \/ fact = Submitted /\ j.part = "abandoned"

-----------------------------------------------------------------------------
(* Taking a message in.  The candidates are handled in order, each against  *)
(* the record the one before it left; b collects what the receipt will say. *)

Batch(j) == [job |-> j, comps |-> <<>>, keys |-> {}, mutated |-> {}, bound |-> <<>>,
             affected |-> {}, asked |-> {}]

\* Mutant: the whole message is taken in again to recover one fact of it.
IgnoredIfCorrected(b, m, fact, pending) == Corrected(b.job, m, fact)

\* Skipped: revoked by a correction, or not among the facts being recovered.
Ignored(b, m, fact, pending) ==
    \/ Corrected(b.job, m, fact)
    \/ pending # {} /\ fact \notin pending

\* A receipt of another source already proves the fact.
ProvenElsewhere(b, m, fact) ==
    LET proofs == {r \in DOMAIN b.job.receipts :
                       Stands(b.job, r, fact) /\ Proves(b.job, r, fact)}
        first == CHOOSE r \in proofs : \A q \in proofs : r <= q
    IN  IF proofs # {} /\ ~SameSource(b.job.receipts[first], m) THEN {first} ELSE {}

WithCandidate(b, m, i, pending, now) ==
    LET fact == FactsOf[m][i]
        proof == ProvenElsewhere(b, m, fact)
        id == Id(now, i)
        k == AfterFact(b.job, fact, id, DateOf[m], now)
        made == DOMAIN k.events \ DOMAIN b.job.events
    IN  IF Ignored(b, m, fact, pending) THEN b
        ELSE IF proof # {}
        THEN [b EXCEPT !.keys = @ \cup {fact},
                       !.affected = @ \cup UNION {b.job.receipts[r].affected : r \in proof}]
        ELSE IF NeedsDecision(b.job, m, fact)
        THEN [b EXCEPT !.asked = @ \cup {id},
                       !.job.requests = Put(@, id, [msg |-> m, fact |-> fact, state |-> "open"])]
        ELSE [b EXCEPT !.job = k,
                       !.comps = Append(@, FactUndo(b.job, k, fact, id)),
                       !.keys = @ \cup {fact}, !.mutated = @ \cup {fact},
                       !.bound = Put(@, fact, made),
                       !.affected = @ \cup made]

Taken(j, m, now) ==
    LET pending == Pending(j, m)
    IN  FoldLeft(LAMBDA b, i : WithCandidate(b, m, i, pending, now), Batch(j),
                 [i \in DOMAIN FactsOf[m] |-> i])

Wrote(b) == b.keys # {} \/ b.asked # {}

Receipt(m, b) ==
    [msg |-> m, keys |-> b.keys, mutated |-> b.mutated, bound |-> b.bound,
     affected |-> b.affected, gone |-> {}, undone |-> 0,
     status |-> IF b.keys # {} THEN "committed" ELSE "decision_required"]

AfterObservation(b, m, now) ==
    [b.job EXCEPT !.receipts = Put(@, now, Receipt(m, b))]

-----------------------------------------------------------------------------
(* Answering a question.  The answer is kept in the timeline, which no undo  *)
(* shortens: the same answer to the same question cannot be recorded twice.  *)

Answerable(j, d, choice) ==
    j.requests[d].state = "open" /\ <<d, choice>> \notin j.answers

Answered(j, d, choice) ==
    [j EXCEPT !.requests[d].state = "answered", !.answers = @ \cup {<<d, choice>>}]

\* A confirmed fact is applied whatever its date, to an abandoned job too.
Confirmed(j, d, now) ==
    LET q == j.requests[d]
        l == Answered(j, d, "confirm")
        k == AfterFact(l, q.fact, Id(now, 1), DateOf[q.msg], now)
        made == DOMAIN k.events \ DOMAIN l.events
    IN  [Batch(k) EXCEPT !.comps = << FactUndo(l, k, q.fact, Id(now, 1)) >>,
                         !.keys = {q.fact}, !.mutated = {q.fact},
                         !.bound = Put(<<>>, q.fact, made), !.affected = made]

-----------------------------------------------------------------------------
(* Undoing a batch: the compensations in reverse order, then the questions  *)
(* it asked are superseded, the one it answered is open again, and its      *)
(* receipt is undone together with what later receipts claim on its account.*)

Compensate(j, comps, now) ==
    FoldLeft(LAMBDA r, c : IF r.ok THEN Compensated(r.job, c, now) ELSE r,
             Restored(TRUE, j), Reverse(comps))

\* ownsIndependentFactMutation: the later receipt recorded the fact itself.
OwnsItself(target, later, key) ==
    /\ key \in later.mutated
    /\ \E e \in later.bound[key] :
          e \notin (IF key \in target.mutated THEN target.bound[key] ELSE target.affected)

\* Mutant: only receipts of the same source record lose the fact.
OrphanedRepeats(j, r, q) ==
    {key \in j.receipts[r].mutated \cap j.receipts[q].keys :
        /\ key \notin GoneKeys(j.receipts[q])
        /\ j.receipts[q].msg = j.receipts[r].msg
        /\ ~OwnsItself(j.receipts[r], j.receipts[q], key)}

\* factInvalidations an undone receipt r leaves in a later one, q.
Orphaned(j, r, q) ==
    {key \in j.receipts[r].mutated \cap j.receipts[q].keys :
        /\ key \notin GoneKeys(j.receipts[q])
        /\ ~OwnsItself(j.receipts[r], j.receipts[q], key)}

\* A receipt that has lost some of its facts.
Losing(rec, keys, corrected, now) ==
    [rec EXCEPT !.gone = @ \cup {[key |-> key, corrected |-> corrected, after |-> now] : key \in keys}]

WithReceiptUndone(j, r, now) ==
    [j EXCEPT !.receipts = [q \in DOMAIN j.receipts |->
        LET rec == j.receipts[q]
        IN  IF q = r THEN [rec EXCEPT !.status = "undone", !.undone = now]
            ELSE IF q > r /\ rec.status = "committed" THEN Losing(rec, Orphaned(j, r, q), FALSE, now)
            ELSE rec]]

\* reopened: the question the command answered, if it answered one.
UndoneBatch(j, r, comps, asked, reopened, now) ==
    LET back == Compensate(j, comps, now)
        k == [back.job EXCEPT !.requests = [d \in DOMAIN @ |->
                 IF d \in reopened THEN [@[d] EXCEPT !.state = "open"]
                 ELSE IF d \in asked THEN [@[d] EXCEPT !.state = "superseded"]
                 ELSE @[d]]]
    IN  IF ~back.ok THEN back
        ELSE Restored(TRUE, IF r \in DOMAIN k.receipts THEN WithReceiptUndone(k, r, now) ELSE k)

-----------------------------------------------------------------------------
(* invalidate_process_event on the receipts: r, which wrote the event e, and *)
(* the others of the same source record that have no other event for it.     *)

OwnedKeys(j, r, e) == {key \in j.receipts[r].mutated : e \in j.receipts[r].bound[key]}

Correctable(j, r, e) ==
    /\ j.events[e].type = "offer"
    /\ ~j.events[e].dead
    /\ j.receipts[r].status = "committed"
    /\ OwnedKeys(j, r, e) # {}

Revoked(j, r, e, q) ==
    {key \in OwnedKeys(j, r, e) \cap j.receipts[q].keys :
        /\ key \notin GoneKeys(j.receipts[q])
        /\ \/ q = r
           \/ key \notin j.receipts[q].mutated
           \/ j.receipts[q].bound[key] \subseteq {e}}

AfterCorrection(j, r, e, now) ==
    [AfterInvalidation(j, e) EXCEPT !.receipts = [q \in DOMAIN j.receipts |->
        IF j.receipts[q].msg # j.receipts[r].msg THEN j.receipts[q]
        ELSE Losing(j.receipts[q], Revoked(j, r, e, q), TRUE, now)]]
=============================================================================

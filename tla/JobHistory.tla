------------------------------ MODULE JobHistory ------------------------------
(***************************************************************************)
(* The history of one job: the commands the authoritative executor may      *)
(* accept about it, in any order, and the undo of those it can still undo.  *)
(* JobRecord and SemanticIntake say what each command makes of the record;  *)
(* this module says when it is accepted (domainCommands.ts,                 *)
(* semanticIntake.ts, processEventDeleteCommand.ts) and when its undo is    *)
(* (gateway/authoritativeCommands.ts).  A command that is refused, throws   *)
(* or finds itself already applied writes nothing and is no step.           *)
(***************************************************************************)
EXTENDS SemanticIntake

CONSTANTS
    Slots,        \* times the user may set an appointment for
    Marks,        \* bound: statuses the user gives a task (a subset of Statuses)
    MaxCommands   \* bound: commands in a history

ASSUME HistoryAssumption ==
    /\ Slots \subseteq Nat
    /\ Marks \subseteq Statuses
    /\ MaxCommands \in Nat

VARIABLES
    job,       \* the record
    clock,     \* commands committed so far
    undoable   \* [command -> what its ledger row keeps for its undo]

vars == <<job, clock, undoable>>

now == clock + 1

Init ==
    /\ job = NewJob
    /\ clock = 0
    /\ undoable = <<>>

-----------------------------------------------------------------------------
(* A commit.  undo() refuses a command with which a later one shares an      *)
(* object, so a ledger row whose objects are written again is past undoing   *)
(* and is forgotten here.                                                    *)

Row(k, comps, asked, reopened) ==
    [comps |-> comps, asked |-> asked, reopened |-> reopened,
     before |-> job, objects |-> Written(job, k)]

StillUndoable(k) ==
    Restrict(undoable, {n \in DOMAIN undoable : undoable[n].objects \cap Written(job, k) = {}})

Commit(k, rows) ==
    /\ clock < MaxCommands
    /\ clock' = now
    /\ job' = k
    /\ undoable' = rows

CommitFinal(k) == Commit(k, StillUndoable(k))
CommitWithRow(k, row) == Commit(k, Put(StillUndoable(k), now, row))
CommitWith(k, undo) == CommitWithRow(k, Row(k, <<undo>>, {}, {}))

\* The interviews that can be acted on and the tasks there are.
Interviews == DOMAIN job.events \cap DOMAIN job.nodes

-----------------------------------------------------------------------------
(* Commands given by the user.                                              *)

\* record_application_submission; an abandoned job needs "reactivate".
Submit ==
    LET id == Id(now, 1)
        k == AfterSubmission(job, id, now)
    IN  CommitWith(k, SubmissionUndo(job, k, id))

RecordEvent(type, slot) ==
    LET id == Id(now, 1)
        k == AfterEvent(job, id, type, slot, now, now)
    IN  CommitWith(k, EventUndo(job, k, id))

SetStatus(task, status) ==
    /\ job.tasks[task].status # status
    /\ LET k == AfterStatus(job, task, status, now)
       IN  CommitWith(k, StatusUndo(job, k, task))

Settle(e, cancelled) ==
    /\ MayBeSettled(Current(job, e))
    /\ LET k == AfterSettling(job, e, cancelled, now)
       IN  CommitWith(k, IF NeedsConfirmation(Current(job, e)) THEN VersionUndo(job, k, e)
                         ELSE SettlingUndo(job, e))

Reschedule(e, slot) ==
    /\ MayBeSettled(Current(job, e))
    /\ LET k == AfterReschedule(job, e, slot, now)
       IN  CommitWith(k, VersionUndo(job, k, e))

Abandon ==
    /\ job.part # "abandoned"
    /\ CommitWith(AfterAbandon(job, now), ParticipationUndo(job))

DeleteEvent(e) ==
    /\ ~HasHistory(job, e)
    /\ LET k == AfterDeletion(job, e, now)
       IN  CommitWith(k, DeletionUndo(job, k, e))

\* A correction has no compensation.
Invalidate(e, r) ==
    /\ Correctable(job, r, e)
    /\ CommitFinal(AfterCorrection(job, r, e, now))

-----------------------------------------------------------------------------
(* Messages, questions, undo.                                               *)

Observe(m) ==
    /\ DateOf[m] <= now
    /\ ~Replayed(job, m)
    /\ LET b == Taken(job, m, now)
           k == AfterObservation(b, m, now)
       IN  Wrote(b) /\ CommitWithRow(k, Row(k, b.comps, b.asked, {}))

Confirm(d) ==
    /\ Answerable(job, d, "confirm")
    /\ LET b == Confirmed(job, d, now)
           k == AfterObservation(b, job.requests[d].msg, now)
       IN  CommitWithRow(k, Row(k, b.comps, {d}, {d}))

Dismiss(d) ==
    /\ Answerable(job, d, "dismiss")
    /\ LET k == Answered(job, d, "dismiss")
       IN  CommitWithRow(k, Row(k, <<>>, {}, {d}))

\* What the undo of command n makes of the record; ok is FALSE if it throws.
Undone(n) ==
    LET row == undoable[n]
    IN  UndoneBatch(job, n, row.comps, row.asked, row.reopened, now)

Undo(n) ==
    /\ Undone(n).ok
    /\ CommitFinal(Undone(n).job)

Next ==
    \/ Submit
    \/ \E slot \in Slots : RecordEvent("interview", slot)
    \/ RecordEvent("offer", NoSlot)
    \/ \E task \in DOMAIN job.tasks, status \in Marks : SetStatus(task, status)
    \/ \E e \in Interviews, cancelled \in BOOLEAN : Settle(e, cancelled)
    \/ \E e \in Interviews, slot \in Slots : Reschedule(e, slot)
    \/ Abandon
    \/ \E e \in DOMAIN job.events : DeleteEvent(e)
    \/ \E e \in DOMAIN job.events, r \in DOMAIN job.receipts : Invalidate(e, r)
    \/ \E m \in Messages : Observe(m)
    \/ \E d \in DOMAIN job.requests : Confirm(d) \/ Dismiss(d)
    \/ \E n \in DOMAIN undoable : Undo(n)

Spec == Init /\ [][Next]_vars

-----------------------------------------------------------------------------
(* Properties.                                                              *)

Times == 0 .. MaxCommands
Ids == {Id(n, i) : n \in Times, i \in 1 .. 2}
Stages == {"not_applied", "screening", "interview", "offer", "unknown"}
Facts == UNION {FactsIn(m) : m \in Messages}
Stamps == [id : Ids \cup {0}, at : Times]

\* Every part of the record keeps its shape; every event that is an interview
\* keeps its task, whatever command or undo came last.
TypeOK ==
    /\ clock \in Times
    /\ job.stage \in Stages /\ job.part \in {"active", "abandoned"}
    /\ job.owner \in Stamps /\ job.proofs \subseteq Ids
    /\ job.process \in [on : BOOLEAN, stage : Stages, owner : Stamps, last : Times]
    /\ DOMAIN job.tasks \subseteq Ids \cup {Apply}
    /\ \A t \in DOMAIN job.tasks : job.tasks[t] \in [status : Statuses, at : Times]
    /\ DOMAIN job.events \subseteq Ids
    /\ \A e \in DOMAIN job.events :
          /\ job.events[e].type \in {"interview", "offer"}
          /\ job.events[e].type = "interview" => e \in DOMAIN job.tasks \cap DOMAIN job.nodes
    /\ \A e \in DOMAIN job.nodes :
          /\ Current(job, e).state \in {"scheduled", "in_progress", "completed", "cancelled"}
          /\ \A i \in 1 .. Len(job.nodes[e]) - 1 : job.nodes[e][i].state = "superseded"
    /\ \A r \in DOMAIN job.receipts :
          /\ job.receipts[r].mutated \subseteq job.receipts[r].keys
          /\ GoneKeys(job.receipts[r]) \subseteq job.receipts[r].keys \cap Facts
    /\ DOMAIN undoable \subseteq 1 .. clock

\* What an object tells the user (timestamps and links are not part of it; a
\* cancelled occurrence is not on the schedule).
Meaning(j, o) ==
    CASE o[1] = "job"        -> <<j.stage>>
      [] o[1] = "process"    -> <<j.process.stage>>
      [] o[1] = "task"       -> IF o[2] \in DOMAIN j.tasks THEN <<j.tasks[o[2]].status>> ELSE <<>>
      [] o[1] = "event"      -> IF o[2] \in DOMAIN j.events
                                THEN <<j.events[o[2]].due, j.events[o[2]].dead>> ELSE <<>>
      [] o[1] = "occurrence" -> IF o[2] \in DOMAIN j.nodes /\ Current(j, o[2]).state # "cancelled"
                                THEN <<Current(j, o[2]).state, Current(j, o[2]).slot>> ELSE <<>>
      [] OTHER               -> <<>>

\* The command recorded a submission, alone or among the facts of a message.
RecordsSubmission(row) ==
    \E c \in ToSet(row.comps) : c.op = "restore_application_submission"

\* An undo that is admitted gives the appointments, events and tasks its command
\* wrote the meaning they had before the command, whatever was recorded about the
\* job in between; the stage of the job and of its process and the task of the
\* application too, unless the command recorded a submission: its undo gives back
\* the proof, which other commands may have given as well.
UndoRestores ==
    [][\A n \in DOMAIN undoable : Undo(n) =>
          LET row == undoable[n]
              shared == {<<"job", 0>>, <<"process", 0>>, <<"task", Apply>>}
          IN  \A o \in row.objects \ (IF RecordsSubmission(row) THEN shared ELSE {}) :
                  Meaning(job', o) = Meaning(row.before, o)]_vars

\* What the code promises of an undo: what was recorded since about objects that
\* its command had not written stays (gateway/authoritativeCommands.ts, "rather
\* than erasing newer facts").
NewerFactsSurvive ==
    [][\A n \in DOMAIN undoable : Undo(n) =>
          \A o \in Objects(job) \ undoable[n].objects :
              Meaning(job, o) # Meaning(undoable[n].before, o) => Meaning(job', o) = Meaning(job, o)]_vars

\* A receipt says that a fact was taken in, and the record has lost its events.
Unbacked(j, r, key) ==
    /\ Stands(j, r, key)
    /\ IF key = Submitted THEN j.proofs = {}
       ELSE \A e \in OfType(j, key.kind) \cap j.receipts[r].affected :
                j.events[e].slot # key.slot

\* Nothing but the user's own deletion or correction leaves a receipt standing
\* for a fact the record has lost: such a message would be answered "already
\* taken in" for ever.  An undo must therefore tell every receipt that relied
\* on the command it undoes.
ReceiptsAreHonest ==
    [][\/ \E e \in DOMAIN job.events :
             DeleteEvent(e) \/ \E r \in DOMAIN job.receipts : Invalidate(e, r)
       \/ \A r \in DOMAIN job'.receipts, key \in Facts :
             Unbacked(job', r, key) => r \in DOMAIN job.receipts /\ Unbacked(job, r, key)]_vars

\* What a source record has put into the job as this fact and still stands there.
Recorded(m, key) ==
    UNION {job.receipts[r].bound[key] \cap LiveEvents(job) :
              r \in {q \in ReceiptsOf(job, m) : key \in job.receipts[q].mutated}}

\* The questions about this fact of a source record that the user has confirmed.
Confirms(m, key) ==
    {d \in DOMAIN job.requests :
        /\ job.requests[d].msg = m /\ job.requests[d].fact = key
        /\ <<d, "confirm">> \in job.answers}

\* A fact that the user has confirmed no question about stands once, however often
\* its message is delivered again and whatever was undone, put back or corrected in
\* between: what is missing is recovered, what stands is not recorded twice.
RecordedOnce ==
    \A m \in Messages : \A key \in FactsIn(m) :
        Confirms(m, key) = {} => Cardinality(Recorded(m, key)) <= 1

\* A finished appointment is history: only the user's explicit word on one known
\* from its task alone, or an undo, changes it, and no older version of any
\* appointment is rewritten except by an undo.
HistoryIsKept ==
    [][\/ \E n \in DOMAIN undoable : Undo(n)
       \/ \A e \in DOMAIN job.nodes :
             /\ \A i \in 1 .. Len(job.nodes[e]) - 1 : job'.nodes[e][i] = job.nodes[e][i]
             /\ IsOver(Current(job, e)) /\ ~NeedsConfirmation(Current(job, e)) =>
                   job'.nodes[e] = job.nodes[e]
             /\ NeedsConfirmation(Current(job, e)) /\ job'.nodes[e] # job.nodes[e] =>
                   Len(job'.nodes[e]) > Len(job.nodes[e])]_vars
=============================================================================

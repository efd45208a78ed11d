------------------------------ MODULE JobRecord ------------------------------
(***************************************************************************)
(* What one job's record holds and what each domain evaluator and each     *)
(* compensation does to it: src/src/domainCommands.ts and the modules it   *)
(* calls (scheduleNodes.ts, actionStatusUndo.ts, processFactCorrection.ts, *)
(* processEventDeleteCommand.ts).  Pure operators from a record to a       *)
(* record; JobHistory makes them the steps of a state machine.             *)
(*                                                                         *)
(* A time is the number of the command executed at that time, so "now" is  *)
(* also the identity of the command; a fact reported by a message is dated *)
(* by the message.  Two types of process event stand for all: "interview"  *)
(* (an appointment: it has a slot, generates a task and owns a schedule    *)
(* occurrence) and "offer" (a terminal fact with none of these).  Slots    *)
(* lie in the future, so an occurrence never elapses unresolved.           *)
(***************************************************************************)
EXTENDS Naturals, Sequences, FiniteSets, SequencesExt

Apply == 1                       \* the task "apply:<job>"
NoSlot == 0
Nobody == [id |-> 0, at |-> 0]   \* no effectiveProcessEventId / ...At

\* Identity of the i-th object a command creates (at most two of a kind).
Id(now, i) == 2 * now + i

Statuses == {"todo", "doing", "done", "skipped"}
Open == {"todo", "doing"}

\* A function with one more entry, or another one.
Put(f, x, v) == [y \in DOMAIN f \cup {x} |-> IF y = x THEN v ELSE f[y]]

NewJob ==
    [stage    |-> "not_applied", part |-> "active", owner |-> Nobody,
     proofs   |-> {},
     process  |-> [on |-> FALSE, stage |-> "not_applied", owner |-> Nobody, last |-> 0],
     tasks    |-> [t \in {Apply} |-> [status |-> "todo", at |-> 0]],
     events   |-> <<>>, nodes |-> <<>>,
     receipts |-> <<>>, requests |-> <<>>, answers |-> {}]

-----------------------------------------------------------------------------
(* Reading the record.                                                     *)

LiveEvents(j) == {e \in DOMAIN j.events : ~j.events[e].dead}

\* First of the events sorted by occurredAt, newest first, in array order.
Newest(j, E) ==
    CHOOSE e \in E : \A d \in E \ {e} :
        \/ j.events[e].at > j.events[d].at
        \/ j.events[e].at = j.events[d].at /\ j.events[e].pos < j.events[d].pos

\* The same, the one recorded last first among the equally dated.
LastMade(j, E) ==
    CHOOSE e \in E : \A d \in E \ {e} :
        LET a == j.events[e]  b == j.events[d]
        IN  \/ a.at > b.at
            \/ a.at = b.at /\ a.made > b.made
            \/ a.at = b.at /\ a.made = b.made /\ a.pos < b.pos

OfType(j, type) == {e \in LiveEvents(j) : j.events[e].type = type}

\* Progress and result of the process are recomputed at every write.
Progress(j) ==
    LET invites == OfType(j, "interview")
        status  == j.tasks[Newest(j, invites)].status
    IN  CASE j.process.stage = "not_applied"            -> "not_started"
          [] j.process.stage \in {"unknown", "screening"} -> "waiting_result"
          [] j.process.stage = "offer"                  -> "completed"
          [] j.process.stage = "interview" ->
               IF invites = {}          THEN "action_required"
               ELSE IF status = "done"  THEN "waiting_result"
               ELSE IF status = "doing" THEN "in_progress"
               ELSE "scheduled"

Result(j) ==
    IF \/ j.process.stage = "offer"
       \/ LiveEvents(j) # {} /\ j.events[Newest(j, LiveEvents(j))].type = "offer"
    THEN "offer" ELSE "pending"

\* The current version of an occurrence.
Current(j, e) == Last(j.nodes[e])

\* A completion known only from a task's checkbox may still be replaced by an
\* explicit command; any other terminal state may not.
NeedsConfirmation(node) == node.state = "completed" /\ node.by = "task"
IsOver(node) == node.state \in {"completed", "cancelled"}
MayBeSettled(node) == NeedsConfirmation(node) \/ ~IsOver(node)

\* The objects a command's receipt names, and an object's stored value
\* (<<>> when there is none).
Objects(j) ==
    {<<"job", 0>>, <<"process", 0>>}
        \cup {<<"task", t>> : t \in DOMAIN j.tasks}
        \cup {<<"event", e>> : e \in DOMAIN j.events}
        \cup {<<"occurrence", e>> : e \in DOMAIN j.nodes}
        \cup {<<"receipt", r>> : r \in DOMAIN j.receipts}
        \cup {<<"request", d>> : d \in DOMAIN j.requests}

Entry(f, k) == IF k \in DOMAIN f THEN <<f[k]>> ELSE <<>>

Value(j, o) ==
    CASE o[1] = "job"        -> <<j.stage, j.part, j.owner, j.proofs>>
      [] o[1] = "process"    -> IF j.process.on
                                THEN <<j.process, Progress(j), Result(j), j.part>> ELSE <<>>
      [] o[1] = "task"       -> <<Entry(j.tasks, o[2]),
                                  IF o[2] \in DOMAIN j.events THEN j.events[o[2]].due ELSE NoSlot>>
      [] o[1] = "event"      -> Entry(j.events, o[2])
      [] o[1] = "occurrence" -> Entry(j.nodes, o[2])
      [] o[1] = "receipt"    -> Entry(j.receipts, o[2])
      [] o[1] = "request"    -> Entry(j.requests, o[2])

Written(j, k) == {o \in Objects(j) \cup Objects(k) : Value(j, o) # Value(k, o)}

-----------------------------------------------------------------------------
(* The evaluators: the record a command leaves.  "at" is when the fact      *)
(* happened, "now" when it is recorded.                                     *)

SetStage(j, stage, owner, last) ==
    [j EXCEPT !.stage = stage, !.owner = owner,
              !.process = [on |-> TRUE, stage |-> stage, owner |-> owner, last |-> last]]

AfterSubmission(j, id, at) ==
    LET k == SetStage(j, "screening", Nobody, at)
    IN  [k EXCEPT !.proofs = @ \cup {id}, !.part = "active",
                  !.tasks[Apply] = IF @.status \in Open THEN [status |-> "done", at |-> at] ELSE @]

AfterEvent(j, id, type, slot, at, now) ==
    LET event == [type |-> type, slot |-> slot, due |-> slot, at |-> at, made |-> now,
                  pos |-> id, dead |-> FALSE]
        k == [SetStage(j, type, [id |-> id, at |-> at], at) EXCEPT !.events = Put(@, id, event)]
    IN  IF type = "offer" THEN k
        ELSE [k EXCEPT !.tasks = Put(@, id, [status |-> "todo", at |-> now]),
                       !.nodes = Put(@, id, << [state |-> "scheduled", slot |-> slot,
                                                by |-> "none", at |-> now] >>)]

\* Mutant: a task drives its occurrence even when that is over.
SyncedAlways(j, task, status, now) ==
    IF task \notin DOMAIN j.nodes THEN j
    ELSE [j EXCEPT !.nodes[task][Len(j.nodes[task])].state =
                        CASE status = "done"    -> "completed"
                          [] status = "doing"   -> "in_progress"
                          [] status = "todo"    -> "scheduled"
                          [] status = "skipped" -> @]

\* syncScheduleNodeForActionStatus: a task drives its occurrence unless the
\* occurrence is already terminal; skipping an event's task leaves its state.
Synced(j, task, status, now) ==
    IF task \notin DOMAIN j.nodes \/ IsOver(Current(j, task)) THEN j
    ELSE LET node == Current(j, task)
             next == CASE status = "done"    -> [node EXCEPT !.state = "completed", !.by = "task"]
                       [] status = "doing"   -> [node EXCEPT !.state = "in_progress"]
                       [] status = "todo"    -> [node EXCEPT !.state = "scheduled"]
                       [] status = "skipped" -> node
         IN  [j EXCEPT !.nodes[task][Len(j.nodes[task])] = [next EXCEPT !.at = now]]

AfterStatus(j, task, status, now) ==
    Synced([j EXCEPT !.tasks[task] = [status |-> status, at |-> now]], task, status, now)

\* Mutant: the version before is not marked superseded.
NewVersionBeside(versions, node, now) == Append(versions, node)

\* A new version of an occurrence; the one before is kept, superseded.
NewVersion(versions, node, now) ==
    Append([versions EXCEPT ![Len(versions)].state = "superseded",
                            ![Len(versions)].at = now], node)

SettledTask(task, cancelled, now) ==
    IF task.status = "done" THEN task
    ELSE [status |-> IF cancelled THEN "skipped" ELSE "done", at |-> now]

\* complete_occurrence and cancel_occurrence.
AfterSettling(j, e, cancelled, now) ==
    LET node == [Current(j, e) EXCEPT !.state = IF cancelled THEN "cancelled" ELSE "completed",
                                      !.by = "user", !.at = now]
        versions == IF NeedsConfirmation(Current(j, e)) THEN NewVersion(j.nodes[e], node, now)
                    ELSE Append(Front(j.nodes[e]), node)
    IN  [j EXCEPT !.nodes[e] = versions,
                  !.tasks[e] = SettledTask(@, cancelled, now),
                  !.process.last = IF cancelled THEN @ ELSE now]

AfterReschedule(j, e, slot, now) ==
    [j EXCEPT !.nodes[e] = NewVersion(@, [state |-> "scheduled", slot |-> slot, by |-> "none",
                                          at |-> now], now),
              !.events[e].due = slot,
              !.process.last = now]

OpenTasks(j) == {t \in DOMAIN j.tasks : j.tasks[t].status \in Open}

AfterAbandon(j, now) ==
    [j EXCEPT !.part = "abandoned",
              !.tasks = [t \in DOMAIN @ |->
                             IF t \in OpenTasks(j) THEN [status |-> "skipped", at |-> now] ELSE @[t]]]

\* An event whose occurrence was completed, or that was corrected, stays.
HasHistory(j, e) ==
    \/ j.events[e].dead
    \/ e \in DOMAIN j.nodes /\ Current(j, e).state = "completed"

CancelledNodes(j, e, now) ==
    IF e \notin DOMAIN j.nodes \/ IsOver(Current(j, e)) THEN j.nodes
    ELSE [j.nodes EXCEPT ![e][Len(j.nodes[e])].state = "cancelled",
                         ![e][Len(j.nodes[e])].at = now]

WithoutEvent(j, e) ==
    [j EXCEPT !.events = Restrict(@, DOMAIN @ \ {e}), !.tasks = Restrict(@, DOMAIN @ \ {e})]

AfterDeletion(j, e, now) == WithoutEvent([j EXCEPT !.nodes = CancelledNodes(j, e, now)], e)

\* invalidate_process_event: the evidence is kept, marked dead, and what it
\* still owns of the projections goes back to the newest surviving event, or
\* to "unknown" when there is none or two outcomes are equally new.
AfterInvalidation(j, e) ==
    LET surviving == LiveEvents(j) \ {e}
        heir == LastMade(j, surviving)
        rival == LastMade(j, surviving \ {heir})
        unclear == \/ surviving = {}
                   \/ /\ surviving # {heir}
                      /\ j.events[rival].at = j.events[heir].at
                      /\ j.events[rival].type # j.events[heir].type
        stage == IF unclear THEN "unknown" ELSE j.events[heir].type
        owner == IF unclear THEN Nobody ELSE [id |-> heir, at |-> j.events[heir].at]
        mine  == [id |-> e, at |-> j.events[e].at]
        k == [j EXCEPT !.events[e].dead = TRUE]
        l == IF j.owner = mine /\ j.stage = j.events[e].type
             THEN [k EXCEPT !.stage = stage, !.owner = owner] ELSE k
    IN  IF /\ j.process.on /\ j.process.owner = mine /\ j.process.stage = j.events[e].type
           /\ j.process.last = j.events[e].at
        THEN [l EXCEPT !.process = [on |-> TRUE, stage |-> stage, owner |-> owner, last |-> owner.at]]
        ELSE l

-----------------------------------------------------------------------------
(* The compensations.  A command's receipt stores one; Compensated is what  *)
(* applyDomainCompensation makes of it later: "ok" is FALSE where it throws *)
(* and nothing is written.                                                  *)

Refused(j) == [ok |-> FALSE, job |-> j]
Restored(ok, k) == [ok |-> ok, job |-> k]

Projection(j) == [stage |-> j.stage, owner |-> j.owner, process |-> j.process,
                  view |-> Value(j, <<"process", 0>>)]

\* j is the record before the command, k the record it left.
EventUndo(j, k, id) ==
    [op |-> "delete_process_event", id |-> id, before |-> Projection(j), after |-> Projection(k)]
DeletionUndo(j, k, e) ==
    [op |-> "restore_deleted_process_event", id |-> e, event |-> j.events[e],
     task |-> Entry(j.tasks, e), before |-> Entry(j.nodes, e), after |-> Entry(k.nodes, e)]
ParticipationUndo(j) ==
    [op |-> "restore_participation",
     tasks |-> [t \in OpenTasks(j) |-> j.tasks[t].status]]
SubmissionUndo(j, k, id) ==
    [op |-> "restore_application_submission", id |-> id, proofs |-> j.proofs,
     events |-> LiveEvents(j), stage |-> j.stage,
     before |-> j.tasks[Apply], after |-> k.tasks[Apply]]
StatusUndo(j, k, task) ==
    [op |-> "set_action_status", id |-> task,
     before |-> j.tasks[task], after |-> k.tasks[task],
     was |-> Entry(j.nodes, task), is |-> Entry(k.nodes, task)]
SettlingUndo(j, e) ==
    [op |-> "restore_occurrence_completion", id |-> e, node |-> Current(j, e),
     task |-> j.tasks[e], stage |-> j.process.stage]
Owners(j, e) == [task |-> j.tasks[e], due |-> [due |-> j.events[e].due],
                 process |-> j.process, progress |-> [progress |-> Progress(j)]]
VersionUndo(j, k, e) ==
    [op |-> "restore_occurrence_supersession", id |-> e, previous |-> Current(j, e),
     expected |-> Current(k, e), before |-> Owners(j, e), after |-> Owners(k, e)]

\* The event goes, its occurrence is cancelled, and whichever projection still
\* points at the event goes back to what it was before.
UndoneEvent(j, c, now) ==
    LET ofJob == j.owner.id = c.id
        ofProcess == j.process.on /\ j.process.owner.id = c.id
        k == WithoutEvent(j, c.id)
    IN  Restored(
          /\ c.id \in DOMAIN j.events => ~j.events[c.id].dead
          /\ j.process.on
          /\ ofJob => <<j.stage, j.owner>> = <<c.after.stage, c.after.owner>>
          /\ ofProcess => Value(j, <<"process", 0>>) = c.after.view,
          [k EXCEPT !.stage = IF ofJob THEN c.before.stage ELSE @,
                    !.owner = IF ofJob THEN c.before.owner ELSE @,
                    !.process = IF ofProcess THEN c.before.process ELSE @,
                    !.nodes = IF c.id \notin DOMAIN @ THEN @
                              ELSE [@ EXCEPT ![c.id][Len(j.nodes[c.id])].state = "cancelled",
                                             ![c.id][Len(j.nodes[c.id])].at = now]])

UndoneDeletion(j, c, now) ==
    Restored(
      /\ c.id \notin DOMAIN j.events
      /\ c.task # <<>> => c.id \notin DOMAIN j.tasks
      /\ c.before # c.after => Entry(j.nodes, c.id) = c.after,
      [j EXCEPT !.events = Put(@, c.id, [c.event EXCEPT !.pos = Id(now, 1)]),
                !.tasks  = IF c.task = <<>> THEN @ ELSE Put(@, c.id, c.task[1]),
                !.nodes  = IF c.before = c.after THEN @ ELSE [@ EXCEPT ![c.id] = c.before[1]]])

UndoneParticipation(j, c, now) ==
    Restored(TRUE,
      FoldSet(LAMBDA t, k : IF t \in DOMAIN k.tasks THEN AfterStatus(k, t, c.tasks[t], now) ELSE k,
              [j EXCEPT !.part = "active"], DOMAIN c.tasks))

\* A submission that others also prove only loses its proof.
UndoneSubmission(j, c) ==
    LET others == j.proofs \ {c.id}
        k == [j EXCEPT !.proofs = others]
    IN  IF ~(others \subseteq c.proofs /\ LiveEvents(j) \subseteq c.events) THEN Refused(j)
        ELSE IF others # {} THEN Restored(TRUE, k)
        ELSE Restored(j.tasks[Apply] = c.after,
               [k EXCEPT !.stage = c.stage,
                         !.process.stage = IF j.process.on THEN c.stage ELSE @,
                         !.tasks[Apply] = c.before])

UndoneStatus(j, c) ==
    Restored(
      /\ Entry(j.tasks, c.id) = <<c.after>>
      /\ c.was # c.is => Entry(j.nodes, c.id) = c.is,
      [j EXCEPT !.tasks[c.id] = c.before,
                !.nodes = IF c.was = c.is THEN @ ELSE [@ EXCEPT ![c.id] = c.was[1]]])

\* lastProgressAt stays where the completion moved it.
UndoneSettling(j, c) ==
    Restored(TRUE,
      [j EXCEPT !.nodes[c.id] = Append(Front(@), c.node),
                !.tasks = IF c.id \in DOMAIN @ THEN [@ EXCEPT ![c.id] = c.task] ELSE @,
                !.process.stage = IF j.process.on THEN c.stage ELSE @])

\* Only fields the command changed are put back, and only if still as it left them.
StillOwned(current, before, after) ==
    \A f \in DOMAIN before : before[f] # after[f] => current[f] = after[f]
PutBack(current, before, after) ==
    [f \in DOMAIN current |-> IF before[f] # after[f] THEN before[f] ELSE current[f]]

\* Mutant: the event keeps the time the occurrence was moved to.
UndoneVersionOnly(j, c) ==
    Restored(Current(j, c.id) = c.expected,
      [j EXCEPT !.nodes[c.id] = Append(Front(Front(@)), c.previous),
                !.tasks[c.id] = PutBack(@, c.before.task, c.after.task)])

UndoneVersion(j, c) ==
    LET mine == Owners(j, c.id)
        Back(part) == PutBack(mine[part], c.before[part], c.after[part])
    IN  IF \/ Current(j, c.id) # c.expected
           \/ c.id \notin DOMAIN j.events
        THEN Refused(j)
        ELSE Restored(
               \A part \in DOMAIN mine : StillOwned(mine[part], c.before[part], c.after[part]),
               [j EXCEPT !.nodes[c.id] = Append(Front(Front(@)), c.previous),
                         !.tasks[c.id] = Back("task"),
                         !.events[c.id].due = Back("due").due,
                         !.process = Back("process")])

Compensated(j, c, now) ==
    CASE c.op = "delete_process_event"            -> UndoneEvent(j, c, now)
      [] c.op = "restore_deleted_process_event"   -> UndoneDeletion(j, c, now)
      [] c.op = "restore_participation"           -> UndoneParticipation(j, c, now)
      [] c.op = "restore_application_submission"  -> UndoneSubmission(j, c)
      [] c.op = "set_action_status"               -> UndoneStatus(j, c)
      [] c.op = "restore_occurrence_completion"   -> UndoneSettling(j, c)
      [] c.op = "restore_occurrence_supersession" -> UndoneVersion(j, c)
=============================================================================

----------------------------- MODULE CommandLog -----------------------------
(***************************************************************************)
(* What the workspace authority promises: the workspace is the result of   *)
(* commands, each with its own identity and revision, applied one at a     *)
(* time to the latest snapshot.  A command prepared on an older revision   *)
(* is applied only if nothing it means to change has changed since; an     *)
(* undo applies its target's compensation, and only while no later command *)
(* changed an object the target changed.  A revision that is not a         *)
(* command's is a fence: it changes nothing and follows an empty poll.     *)
(***************************************************************************)
EXTENDS Integers

CONSTANTS CommandIds, Payloads, Cells, Values, ObjectOf, Intent, Effect, Undoable,
          Compensation, EmptyPolls, InitialData

VARIABLES
    data,   \* the snapshot
    rev,    \* its revision
    log     \* the commands, by the revision each one made

Changed(e) == {c \in Cells : e.before[c] # e.after[c]}

\* The fields of the objects an entry changed.
Reach(e) == {c \in Cells : \E x \in Changed(e) : ObjectOf[x] = ObjectOf[c]}

\* Everything logged after revision i left these cells alone, and says so.
Untouched(cells, i) ==
    \A j \in DOMAIN log :
        j > i => log[j].kind # "kernel" /\ Changed(log[j]) \cap cells = {}

Record(id, kind, body, next) ==
    LET e == [id |-> id, kind |-> kind, body |-> body, before |-> data, after |-> next]
    IN  /\ \A i \in DOMAIN log : log[i].id # id
        /\ data' = next
        /\ rev' = rev + 1
        /\ log' = [i \in DOMAIN log \cup {rev + 1} |-> IF i = rev + 1 THEN e ELSE log[i]]

Execute(id, p, base) ==
    /\ Untouched(Intent[p], base)
    /\ Record(id, "execute", p, Effect[p][data])

Undo(id, i) ==
    /\ log[i].body \in Undoable
    /\ Untouched(Reach(log[i]), i)
    /\ Record(id, "undo", log[i].id, Compensation[log[i].body][log[i].before][data])

\* Writers bound to the latest revision; "kernel" leaves no trace of what it changed.
Write(id, kind, p) == Record(id, kind, p, Effect[p][data])

Fence ==
    /\ rev \in DOMAIN log
    /\ log[rev].kind = "source" /\ log[rev].body \in EmptyPolls
    /\ rev' = rev + 1
    /\ UNCHANGED <<data, log>>

Init == data \in InitialData /\ rev = 0 /\ log = [i \in {} |-> data]

Next ==
    /\ rev' # rev
    /\ \/ \E id \in CommandIds :
            \/ \E p \in Payloads, base \in 0 .. rev : Execute(id, p, base)
            \/ \E i \in DOMAIN log : Undo(id, i)
            \/ \E p \in Payloads, kind \in {"kernel", "source"} : Write(id, kind, p)
       \/ Fence

Spec == Init /\ [][Next]_<<data, rev, log>>
=============================================================================

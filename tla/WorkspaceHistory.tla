-------------------------- MODULE WorkspaceHistory --------------------------
(***************************************************************************)
(* What the workspace store promises its readers: one history of rows that *)
(* grows with one revision after the other.  Every command takes effect    *)
(* once, on the whole history as it stands; a run of the mail poller that  *)
(* was recorded stays where it is.                                         *)
(***************************************************************************)
EXTENDS Naturals, Sequences

CONSTANTS
    Ids,            \* commands, the runs of the poller among them
    Effect(_, _)    \* what a command makes of the history

VARIABLES revision, history, applied

Init == revision = 0 /\ history = <<>> /\ applied = {}

Apply(id) ==
    /\ id \notin applied
    /\ applied' = applied \cup {id}
    /\ history' = Effect(id, history)
    /\ revision' = revision + 1

\* A revision that says nothing: what was prepared before it is stale.
Fence ==
    /\ revision' = revision + 1
    /\ UNCHANGED <<history, applied>>

Next == (\E id \in Ids : Apply(id)) \/ Fence

Spec == Init /\ [][Next]_<<revision, history, applied>>
=============================================================================

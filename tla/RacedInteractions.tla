------------------------- MODULE RacedInteractions -------------------------
(***************************************************************************)
(* The optimistic interactions, and whether a race has happened that their *)
(* cache and their progress do not survive.                                *)
(*                                                                         *)
(* The code has no lock between the replay loop and the sends and clicks   *)
(* of the tab.  Two races leave traces: a send that runs beside a          *)
(* rejection of the recovery (instantCommandClient.ts:249 saves what was   *)
(* read before), and a click on a row whose confirmed interaction still    *)
(* has its mirror, which the click then names as a predecessor.  raced is  *)
(* a history variable: it restricts nothing and says that one of them has  *)
(* happened.                                                               *)
(***************************************************************************)
EXTENDS InstantInteractions

VARIABLE raced

\* A send runs beside a rejection of the recovery.
Overlap ==
    /\ proc["flight"].at # "idle"
    /\ proc["replay"].at \in {"reject", "rollback", "quarantine", "retire"}

\* A mirror that outlived its confirmation, with no send to retire it.
LeftBehind(d) == mirror[d] # NoMirror /\ journal[d].state = "confirmed" /\ ~Queued(d)

Notes == raced' = (raced \/ Overlap' \/ (asked' # asked /\ \E d \in Commands : LeftBehind(d)))

noted == <<vars, raced>>

RacedInit == Init /\ raced = FALSE

RacedSpec == RacedInit /\ [][Next /\ Notes]_noted

\* Promises and timers of a tab run, requests are answered, and focus, reconnect
\* and the timer of CloudContext start the replay loop again and again.
FairSpec ==
    /\ RacedSpec
    /\ \A c \in Commands : WF_noted(Prepare(c) /\ Notes) /\ SF_noted(Recover(c) /\ Notes)
    /\ WF_noted(Send /\ Notes)
    /\ \A p \in {"flight", "replay"} : WF_noted(Reject(p) /\ Notes)
    /\ WF_noted(Restore /\ Notes)

-----------------------------------------------------------------------------
(* Properties *)

\* The cache shows the authoritative rows under the open interactions and
\* nothing else, as long as nothing has raced: no rollback, settlement or
\* recovery leaves a trace behind.  Of a quarantined interaction some fields may
\* already be gone, taken back with a later one.  One fault at a time: after
\* two, an undo that was restored without its change, or a rollback that was
\* interrupted, can leave a trace.
CacheIsExplained ==
    LET quarantined == {c \in OpenJournals : "rollback_pending" \in {journal[c].state, mirror[c].status}}
    IN  raced \/ \A k \in Keys, f \in Fields : \E gone \in SUBSET quarantined :
            cache[k][f] = Expected(k, f, OpenJournals \ gone)

\* Every click is confirmed, taken back, or left to the user as a conflict,
\* unless it is forsaken, an interaction is stranded before it, or something
\* has raced.
EveryClickSettles ==
    \A c \in Commands :
        mirror[c].status # "absent"
            ~> \/ mirror[c].status \in {"absent", "conflict"} \/ Forsaken(c) \/ raced
               \/ \E d \in 1 .. c : Stranded(d)
=============================================================================

--------------------------- MODULE WorkspaceDelta ---------------------------
(***************************************************************************)
(* The delta between two workspace snapshots: diff, patch and reverse.     *)
(*                                                                         *)
(* A row is a function from the fields it has to their values, NoRow the   *)
(* absent row.  A snapshot maps the keys <<collection, id>> to rows.  A    *)
(* change holds the fields of a row before and after; between two rows it  *)
(* is compact, that is, it names only the fields that differ.              *)
(***************************************************************************)
CONSTANTS
    Fields,   \* fields of a row
    Values,   \* values of a field
    Keys,     \* collection and id of a row
    NoRow     \* null

Rows == UNION {[S -> Values] : S \in SUBSET Fields}

Snapshots == [Keys -> Rows \cup {NoRow}]

ASSUME NoRowAssumption == NoRow \notin Rows

-----------------------------------------------------------------------------
(* One row *)

\* row[key], where a field the row does not have is undefined
At(row, f) == IF f \in DOMAIN row THEN {row[f]} ELSE {}

Whole(change) == change.before = NoRow \/ change.after = NoRow

Named(change) == DOMAIN change.before \cup DOMAIN change.after

Differing(change) == {f \in Named(change) : At(change.before, f) # At(change.after, f)}

\* The check of patchDeltaRow: every field it names is as it was or as it shall be.
Fits(current, change) ==
    IF Whole(change)
    THEN current \in {change.before, change.after}
    ELSE /\ current # NoRow
         /\ \A f \in Named(change) :
                At(current, f) \in {At(change.before, f), At(change.after, f)}

\* Mutant: the whole row is replaced.
PatchRowWhole(current, change) ==
    change.after

\* patchDeltaRow: only the fields that differ are written or removed.
PatchRow(current, change) ==
    IF Whole(change)
    THEN change.after
    ELSE LET kept == (DOMAIN current \ Differing(change))
                        \cup (Differing(change) \cap DOMAIN change.after)
         IN  [f \in kept |-> IF f \in Differing(change) THEN change.after[f] ELSE current[f]]

\* Mutant: a field that disappears is not recorded.
CompactAfterFields(before, after) ==
    IF before = NoRow \/ after = NoRow
    THEN [before |-> before, after |-> after]
    ELSE LET kept == {f \in DOMAIN after : At(before, f) # At(after, f)}
         IN  [before |-> [f \in kept \cap DOMAIN before |-> before[f]],
              after |-> [f \in kept |-> after[f]]]

\* compactEntityDelta
Compact(before, after) ==
    IF before = NoRow \/ after = NoRow
    THEN [before |-> before, after |-> after]
    ELSE LET kept == {f \in DOMAIN before \cup DOMAIN after : At(before, f) # At(after, f)}
         IN  [before |-> [f \in kept \cap DOMAIN before |-> before[f]],
              after |-> [f \in kept \cap DOMAIN after |-> after[f]]]

ReverseRow(change) == [before |-> change.after, after |-> change.before]

-----------------------------------------------------------------------------
(* Snapshots *)

DiffWorkspace(before, after) ==
    [k \in {k \in Keys : before[k] # after[k]} |-> Compact(before[k], after[k])]

WorkspaceFits(snapshot, delta) == \A k \in DOMAIN delta : Fits(snapshot[k], delta[k])

ApplyWorkspace(snapshot, delta) ==
    [k \in Keys |-> IF k \in DOMAIN delta THEN PatchRow(snapshot[k], delta[k]) ELSE snapshot[k]]

ReverseWorkspace(delta) == [k \in DOMAIN delta |-> ReverseRow(delta[k])]
=============================================================================

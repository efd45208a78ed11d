----------------------- MODULE MCInstantInteractions -----------------------
(* One row with two fields; clicks that set a field, that are refused, and *)
(* that undo an earlier click.                                             *)
EXTENDS RacedInteractions

MCKeys == {"job"}
MCFields == {"stage", "note", "updatedAt"}
MCValues == 0 .. 2 * MaxCommands + 1 + MaxForeign

Set(field, valid) == [undoes |-> 0, row |-> "job", field |-> field, valid |-> valid]
Undo(c) == [undoes |-> c, row |-> "job", field |-> "stage", valid |-> TRUE]

MCClicks == {Set("stage", TRUE), Set("stage", FALSE), Set("note", TRUE), Undo(1)}
SetClicks == {Set("stage", TRUE), Set("stage", FALSE)}
=============================================================================

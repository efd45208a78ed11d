----------------------- MODULE MCWorkspaceCommands -----------------------
(***************************************************************************)
(* Small instances of WorkspaceCommands.  Object A has two fields, so that *)
(* two commands on it may be compatible; object B has one, which a command *)
(* on A also derives.                                                      *)
(***************************************************************************)
EXTENDS WorkspaceCommands, TLC

CONSTANTS a1, a2, b1, A, B, fact, flip, stage, move, poll,
          c1, c2, c3, c4, h1, h2

MCCells == {a1, a2, b1}
MCObjectOf == (a1 :> A) @@ (a2 :> A) @@ (b1 :> B)
MCValues == {0, 1}

\* fact writes a1, flip flips a2, stage flips a1 and derives b1 from a2,
\* move flips b1, and so does a poll that finds nothing.
MCPayloads == {fact, flip, stage, move, poll}
MCIntent == (fact :> {a1}) @@ (flip :> {a2}) @@ (stage :> {a1, a2}) @@ (move :> {b1})
            @@ (poll :> {})
MCEffect ==
    (fact :> [d \in [MCCells -> MCValues] |-> [d EXCEPT ![a1] = 1]])
    @@ (flip :> [d \in [MCCells -> MCValues] |-> [d EXCEPT ![a2] = 1 - @]])
    @@ (stage :> [d \in [MCCells -> MCValues] |-> [d EXCEPT ![a1] = 1 - @, ![b1] = d[a2]]])
    @@ (move :> [d \in [MCCells -> MCValues] |-> [d EXCEPT ![b1] = 1 - @]])
    @@ (poll :> [d \in [MCCells -> MCValues] |-> [d EXCEPT ![b1] = 1 - @]])

\* Undoing flip puts a2 back.  Undoing fact or stage puts back a1, and the
\* whole of B with it, whether or not the command changed it.
Restoring(cells) ==
    [before \in [MCCells -> MCValues] |->
        [now \in [MCCells -> MCValues] |->
            [c \in MCCells |-> IF c \in cells THEN before[c] ELSE now[c]]]]
MCCompensation ==
    (fact :> Restoring({a1, b1})) @@ (flip :> Restoring({a2}))
    @@ (stage :> Restoring({a1, b1}))

MCInitialData == {[c \in MCCells |-> 0]}

Do(kind, id, body, base) == [kind |-> kind, id |-> id, body |-> body, base |-> base]

\* Concurrent commands on one object, an undo that is sent under two ids,
\* commands prepared on older revisions, a reused id, a signed proposal and a
\* poll that is drained.
CommandRequests ==
    {Do("execute", c1, stage, 0), Do("source", c1, poll, 0), Do("execute", c2, flip, 0),
     Do("execute", c3, fact, 0), Do("kernel", c3, flip, 1), Do("execute", c2, move, 1),
     Do("undo", c3, c1, 0), Do("undo", c4, c1, 0)}

HandlerSymmetry == Permutations(Handlers)

\* One command prepared on an older revision, sent twice.
RetryRequests == {Do("execute", c1, flip, 0), Do("execute", c2, move, 0),
                  Do("execute", c3, fact, 0)}
=============================================================================

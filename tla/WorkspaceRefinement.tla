------------------------ MODULE WorkspaceRefinement ------------------------
(***************************************************************************)
(* The command executor implements CommandLog.  The log is read off the    *)
(* ledger: it maps the revision of each row to the row.                    *)
(***************************************************************************)
EXTENDS WorkspaceCommands

Logged(c) ==
    [id |-> c, kind |-> ledger[c].kind, body |-> ledger[c].body,
     before |-> ledger[c].before, after |-> ledger[c].after]

CommittedAt(r) == CHOOSE c \in Committed : ledger[c].rev = r

LogOfLedger == [r \in {ledger[c].rev : c \in Committed} |-> Logged(CommittedAt(r))]

Log == INSTANCE CommandLog
           WITH data <- workspace.data, rev <- workspace.rev, log <- LogOfLedger

\* Concurrent handlers that read the row, the ledger and the later rows one
\* request at a time, and retries of one command in several of them, look
\* like commands applied one at a time, each under its own id, to the latest
\* snapshot, with the guard of CommandLog evaluated at the commit, and drains
\* that change no command and no snapshot.
ImplementsCommandLog == Log!Spec
=============================================================================

--------------------------- MODULE GmailExecution ---------------------------
(***************************************************************************)
(* Controlled Gmail runs.  A scheduler starts workers; a worker takes the  *)
(* one execution lease of an account (pjsdas_begin_gmail_execution), reads *)
(* the workspace, asks Gmail for its position and one page of mail, checks *)
(* the lease, commits what it read under the workspace revision it saw,    *)
(* and finishes: only the finish moves the mailbox cursor, and only under  *)
(* the lease.  A "poll" follows the cursor; a "sweep" (reconciliation)     *)
(* goes over the mailbox again, one message a run, beside the cursor.      *)
(*                                                                         *)
(* A message is the number of its arrival, which is also Gmail's history   *)
(* position after it.  What a message says is not modelled: consuming one  *)
(* is adding its source record to the workspace timeline, whatever the     *)
(* outcome (fact, unresolved, ignored, payload unavailable).               *)
(***************************************************************************)
EXTENDS Integers, Sequences, FiniteSets, SequencesExt

CONSTANTS
    Workers,      \* invocations of the worker that may overlap
    Kinds,        \* the runs the scheduler starts: subset of {"poll", "sweep"}
    PageSize,     \* ids in a page of Gmail (GMAIL_PROVIDER_PAGE_SIZE)
    RunLimit,     \* messages a poll consumes (UU06_MAX_MESSAGES_PER_RUN)
    MaxMail,      \* bound: messages that arrive in a mailbox
    MaxBoxes,     \* bound: Google accounts linked one after the other
    MaxSweeps,    \* bound: sweeps begun
    MaxFaults     \* bound: failures, foreign writes and owner actions

ASSUME BoundsAssumption ==
    /\ Kinds \subseteq {"poll", "sweep"}
    /\ {PageSize, RunLimit, MaxBoxes} \subseteq Nat \ {0}
    /\ {MaxMail, MaxSweeps, MaxFaults} \subseteq Nat

VARIABLES
    mail,        \* the linked mailbox, held by Google
    binding,     \* google_drive_connections: switch, cursor, continuation
    cycle,       \* gmail_automation_execution_state: request and sweep
    lease,       \* gmail_automation_execution_state: the execution lease
    workspace,   \* the Gmail part of the workspace timeline
    run,         \* what each worker holds in memory
    faults,      \* how many of MaxFaults were used
    observed     \* observer, read by properties only

vars == <<mail, binding, cycle, lease, workspace, run, faults, observed>>

Nobody == "nobody"
NoCursor == -1
Message == (1..MaxBoxes) \X (1..MaxMail)

\* A page token: where the listing goes on, and the lower bound of the query it
\* was made for (the fallback query is kept inside its continuation token).
NoPage == [at |-> 0, low |-> 0]
NoContinuation == [mode |-> "none", page |-> NoPage, pending |-> NoCursor, ids |-> <<>>]

\* A sweep: its number, how much mail there was when it began, where it is, and
\* the ids of that page it has not read.  They are read newest first, so a set
\* says as much as the list.
NoSweep == [start |-> 0, since |-> 0, page |-> 0, ids |-> {}]

\* What a run is about to save: the source records, what finish will write.
NoBatch == [ids |-> {}, fresh |-> {}, gaps |-> {}, boundary |-> FALSE, sweeps |-> {}, proofs |-> {},
            write |-> FALSE, complete |-> FALSE, floor |-> 0,
            cursor |-> NoCursor, cont |-> NoContinuation, sweep |-> NoSweep]

Nothing == [accounted |-> {}, gaps |-> {}, backfilled |-> FALSE, sweeps |-> {}, proofs |-> {}]

Asleep == [pc |-> "idle", kind |-> "poll", box |-> 1, cursor |-> NoCursor,
           cont |-> NoContinuation, sweep |-> NoSweep, profile |-> 0,
           seen |-> Nothing, current |-> FALSE, batch |-> NoBatch]

-----------------------------------------------------------------------------
(* Helpers *)

\* Mutant: the listing includes the position it starts after.
UpwardFrom(from, to) == [i \in 1..(to - from + 1) |-> from + i - 1]

\* The messages after a position up to another, oldest and newest first.
Upward(from, to) == [i \in 1..(to - from) |-> from + i]
Downward(from, to) == [i \in 1..(to - from) |-> to + 1 - i]
FirstOf(s, n) == SubSeq(s, 1, IF n < Len(s) THEN n ELSE Len(s))

\* Mutant: what was consumed stays in the continuation.
RestOfAll(s, n) == s

RestOf(s, n) == SubSeq(s, n + 1, Len(s))

\* Mutant: the lease is not compared with the caller's token.
OwnsSome(w) == lease.live /\ lease.fresh /\ binding.enabled

\* The lease is w's, has not expired, and no write touched the binding row
\* since it was taken (binding_updated_at = updated_at).
Owns(w) == lease.holder = w /\ lease.live /\ lease.fresh /\ binding.enabled

Unleased == [holder |-> Nobody, live |-> FALSE, fresh |-> FALSE]

\* An observation that used one of the bounded faults.
Fault == faults < MaxFaults /\ faults' = faults + 1

-----------------------------------------------------------------------------
(* Gmail: the listings a run asks for *)

\* users.history.list: the ids added after a position, oldest first.
HistoryPage(from) ==
    [ids |-> FirstOf(Upward(from, mail.count), PageSize),
     page |-> IF from + PageSize < mail.count
              THEN [at |-> from + PageSize, low |-> 0] ELSE NoPage]

\* users.messages.list within the 90-day window, newest first.  The first page
\* fixes the window; later pages carry it in their token.
FallbackPage(token) ==
    LET low == IF token = NoPage THEN mail.old ELSE token.low
        top == IF token = NoPage THEN mail.count ELSE token.at
    IN  [ids |-> FirstOf(Downward(low, top), PageSize),
         page |-> IF low + PageSize < top
                  THEN [at |-> top - PageSize, low |-> low] ELSE NoPage]

\* The listing of a sweep: what matches its query now, newest first.  The token
\* is the message the next page begins with.
Newest(S, n) == {m \in S : Cardinality({k \in S : k >= m}) <= n}
SweepPage(token) ==
    LET left == (1..(IF token = 0 THEN mail.count ELSE token)) \ mail.gone
        ids == Newest(left, PageSize)
    IN  [ids |-> ids, page |-> IF left = ids THEN 0 ELSE Max(left \ ids)]

\* What a poll goes through, and the position it may move to once all of it is
\* consumed.  The pending position is the one Gmail reported before listing.
Listing(mode, page, pending, gap) ==
    [ids |-> page.ids, page |-> page.page, mode |-> mode, pending |-> pending, gap |-> gap]

\* The ids left over from the page read last come before any new page.
Remaining(r) == Listing(r.cont.mode, r.cont, r.cont.pending, FALSE)

NextListing(r) ==
    LET resumed == IF r.cont.mode = "none" THEN r.profile ELSE r.cont.pending
        position == IF r.cont.page = NoPage THEN r.cursor ELSE r.cont.page.at
    IN  IF r.cont.mode = "fallback"
        THEN Listing("fallback", FallbackPage(r.cont.page), r.cont.pending, FALSE)
        ELSE IF r.cursor # NoCursor /\ r.cursor >= mail.expired
        THEN Listing("history", HistoryPage(position), resumed, FALSE)
        ELSE Listing("fallback", FallbackPage(NoPage), r.profile, r.cursor # NoCursor)

-----------------------------------------------------------------------------
(* The account and its mailbox *)

Init ==
    /\ mail = [count |-> 0, expired |-> 0, old |-> 0, gone |-> {}]
    /\ binding = [box |-> 1, enabled |-> TRUE, cursor |-> NoCursor, cont |-> NoContinuation]
    /\ cycle = [requested |-> 0, sweep |-> NoSweep, begun |-> 0, completed |-> {}]
    /\ lease = Unleased
    /\ workspace = Nothing
    /\ run = [w \in Workers |-> Asleep]
    /\ faults = 0
    /\ observed = [promised |-> 0, twice |-> {}]

Arrive ==
    /\ mail.count < MaxMail
    /\ mail' = [mail EXCEPT !.count = @ + 1]
    /\ UNCHANGED <<binding, cycle, lease, workspace, run, faults, observed>>

\* Time passes: Gmail forgets old history positions, mail leaves the window.
Age ==
    /\ \E e \in mail.expired..mail.count, o \in mail.old..mail.count :
         /\ o <= e
         /\ <<e, o>> # <<mail.expired, mail.old>>
         /\ mail' = [mail EXCEPT !.expired = e, !.old = o]
    /\ Fault
    /\ UNCHANGED <<binding, cycle, lease, workspace, run, observed>>

\* A message stops matching the sweep's query: it is read, or passes seven days.
Leave ==
    /\ "sweep" \in Kinds
    /\ \E m \in (1..mail.count) \ mail.gone : mail' = [mail EXCEPT !.gone = @ \cup {m}]
    /\ Fault
    /\ UNCHANGED <<binding, cycle, lease, workspace, run, observed>>

\* The owner switches intake off: the continuation goes with the consent, the
\* cursor stays, the trigger drops the lease and the sweep.
Disable ==
    /\ binding.enabled
    /\ binding' = [binding EXCEPT !.enabled = FALSE, !.cont = NoContinuation]
    /\ cycle' = [cycle EXCEPT !.requested = 0, !.sweep = NoSweep]
    /\ lease' = Unleased
    /\ Fault
    /\ UNCHANGED <<mail, workspace, run, observed>>

\* The owner consents again: a new consent starts its own backfill.
Enable ==
    /\ ~binding.enabled
    /\ binding' = [binding EXCEPT !.enabled = TRUE, !.cursor = NoCursor, !.cont = NoContinuation]
    /\ cycle' = [cycle EXCEPT !.requested = 0, !.sweep = NoSweep]
    /\ lease' = Unleased
    /\ UNCHANGED <<mail, workspace, run, faults, observed>>

\* Mutant: linking another account keeps the position.
RelinkKeepsCursor ==
    /\ binding.box < MaxBoxes
    /\ binding' = [binding EXCEPT !.box = @ + 1, !.enabled = FALSE]
    /\ mail' = [count |-> 0, expired |-> 0, old |-> 0, gone |-> {}]
    /\ cycle' = [cycle EXCEPT !.requested = 0, !.sweep = NoSweep]
    /\ lease' = Unleased
    /\ observed' = [observed EXCEPT !.promised = 0]
    /\ Fault
    /\ UNCHANGED <<workspace, run>>

\* Another Google account is linked: a different mailbox.
Relink ==
    /\ binding.box < MaxBoxes
    /\ binding' = [box |-> binding.box + 1, enabled |-> FALSE, cursor |-> NoCursor,
                   cont |-> NoContinuation]
    /\ mail' = [count |-> 0, expired |-> 0, old |-> 0, gone |-> {}]
    /\ cycle' = [cycle EXCEPT !.requested = 0, !.sweep = NoSweep]
    /\ lease' = Unleased
    /\ observed' = [observed EXCEPT !.promised = 0]
    /\ Fault
    /\ UNCHANGED <<workspace, run>>

\* The same account reconnects, or someone else rotates its refresh token: the
\* trigger drops the lease, the cursor and the sweep stay.
Reconnect ==
    /\ lease # Unleased
    /\ lease' = Unleased
    /\ Fault
    /\ UNCHANGED <<mail, binding, cycle, workspace, run, observed>>

\* Another writer bumps updated_at of the row: discovery progress, settings.
TouchBinding ==
    /\ lease.fresh
    /\ lease' = [lease EXCEPT !.fresh = FALSE]
    /\ Fault
    /\ UNCHANGED <<mail, binding, cycle, workspace, run, observed>>

\* Another writer commits to the workspace: every revision read before is stale.
OtherCommit ==
    /\ \E w \in Workers : run[w].current
    /\ run' = [w \in Workers |-> [run[w] EXCEPT !.current = FALSE]]
    /\ Fault
    /\ UNCHANGED <<mail, binding, cycle, lease, workspace, observed>>

\* The lease outlives the time budget of a run (60 seconds against 25): that it
\* expires under a run that still goes on takes a stall, which is a fault.
Expire ==
    /\ lease.live
    /\ lease' = [lease EXCEPT !.live = FALSE]
    /\ IF run[lease.holder].pc \in {"idle", "stray"} THEN UNCHANGED faults ELSE Fault
    /\ UNCHANGED <<mail, binding, cycle, workspace, run, observed>>

\* The morning and evening jobs ask for a sweep.  Times are counted in sweeps:
\* a request made after sweep n began is later than n.
Request ==
    /\ "sweep" \in Kinds
    /\ binding.enabled
    /\ cycle.begun < MaxSweeps
    /\ cycle' = [cycle EXCEPT !.requested = cycle.begun + 1]
    /\ UNCHANGED <<mail, binding, lease, workspace, run, faults, observed>>

-----------------------------------------------------------------------------
(* A run *)

\* The lease is free, was released, or has expired.
Available == lease.holder = Nobody \/ ~lease.live

Asked == cycle.requested # 0 \/ cycle.sweep # NoSweep

\* pjsdas_begin_gmail_execution: the run works on the row as it is now.  The
\* list of accounts to sweep was made before, so the account may have nothing
\* to sweep any more.
Begin(w, kind) ==
    /\ run[w].pc = "idle"
    /\ binding.enabled
    /\ Available
    /\ kind = "sweep" => Asked \/ cycle.begun > 0
    /\ kind = "sweep" /\ cycle.requested # 0 /\ cycle.sweep = NoSweep => cycle.begun < MaxSweeps
    /\ lease' = [holder |-> w, live |-> TRUE, fresh |-> TRUE]
    /\ run' = [run EXCEPT ![w] =
                 [Asleep EXCEPT !.pc = IF kind = "poll" \/ Asked THEN "begun" ELSE "vain",
                                !.kind = kind, !.box = binding.box,
                                !.cursor = IF kind = "poll" THEN binding.cursor ELSE NoCursor,
                                !.cont = IF kind = "poll" THEN binding.cont ELSE NoContinuation,
                                !.sweep = IF kind = "sweep" THEN cycle.sweep ELSE NoSweep]]
    /\ UNCHANGED <<mail, binding, cycle, workspace, faults, observed>>

\* Nothing to sweep: the run gives the lease back.
Dismiss(w) ==
    /\ run[w].pc = "vain"
    /\ lease' = IF Owns(w) THEN Unleased ELSE lease
    /\ run' = [run EXCEPT ![w] = Asleep]
    /\ UNCHANGED <<mail, binding, cycle, workspace, faults, observed>>

\* The workspace and, for a poll, the position of Gmail.  Nothing that happens
\* between the two reads changes either, so they are one step.  A mailbox that
\* is not linked any more has lost its grant: see Abandon.
Read(w) ==
    /\ run[w].pc = "begun"
    /\ run[w].box = binding.box
    /\ run' = [run EXCEPT ![w].pc = "read", ![w].seen = workspace, ![w].current = TRUE,
                          ![w].profile = IF run[w].kind = "poll" THEN mail.count ELSE 0]
    /\ UNCHANGED <<mail, binding, cycle, lease, workspace, faults, observed>>

\* After the page is read only the batch is needed.
Fetched(w, batch) ==
    run' = [run EXCEPT ![w] = [Asleep EXCEPT !.pc = "fetched", !.kind = run[w].kind,
                                             !.box = run[w].box, !.current = run[w].current,
                                             !.batch = batch]]

\* Mutants: the ids left over, or the pages left over, are forgotten.
ExhaustedPages(noRest, lastPage) == lastPage
ExhaustedIds(noRest, lastPage) == noRest

\* A run has come to the end only when no id and no page is left over.
Exhausted(noRest, lastPage) == noRest /\ lastPage

\* A poll reads at most RunLimit messages of the page, fewer when its time
\* budget runs low, at least one.  The rest goes into the continuation.
PollBatch(w, list, n) ==
    LET r == run[w]
        ids == {<<r.box, m>> : m \in ToSet(FirstOf(list.ids, n))}
        rest == RestOf(list.ids, n)
        complete == Exhausted(rest = <<>>, list.page = NoPage)
        gaps == IF list.gap THEN {[box |-> r.box, cursor |-> r.cursor, low |-> mail.old]} ELSE {}
        boundary == ~r.seen.backfilled /\ list.mode = "fallback" /\ complete
    IN  [NoBatch EXCEPT
            !.ids = ids, !.fresh = ids \ r.seen.accounted,
            !.gaps = gaps, !.boundary = boundary,
            !.write = \/ boundary
                      \/ ids = {} /\ gaps = {}
                      \/ ~(ids \subseteq r.seen.accounted)
                      \/ ~(gaps \subseteq r.seen.gaps),
            !.complete = complete,
            !.floor = IF r.cursor = NoCursor /\ r.cont.mode = "none" THEN mail.old ELSE 0,
            !.cursor = IF complete THEN list.pending ELSE NoCursor,
            !.cont = IF complete THEN NoContinuation
                     ELSE [mode |-> list.mode, page |-> list.page,
                           pending |-> list.pending, ids |-> rest]]

FetchPoll(w) ==
    /\ run[w].pc = "read" /\ run[w].kind = "poll"
    /\ run[w].box = binding.box
    /\ LET list == IF run[w].cont.ids # <<>> THEN Remaining(run[w]) ELSE NextListing(run[w])
       IN  \E n \in 0..RunLimit :
             /\ n <= Len(list.ids)
             /\ n = 0 => list.ids = <<>>
             /\ Fetched(w, PollBatch(w, list, n))
    /\ UNCHANGED <<mail, binding, cycle, lease, workspace, faults, observed>>

\* A sweep reads one message (RECONCILIATION_PARSE_SLICE_SIZE).  Its command is
\* named by the sweep, the page token and the ids, and one that the workspace
\* has is not applied again: neither the records nor the proof are written.
SweepBatch(w, sweep, page) ==
    LET r == run[w]
        ids == Newest(page.ids, 1)
        records == {<<r.box, m>> : m \in ids}
        rest == page.ids \ ids
        complete == Exhausted(rest = {}, page.page = 0)
        name == [start |-> sweep.start, page |-> sweep.page, ids |-> ids]
        new == \A c \in r.seen.sweeps : c.name # name
    IN  [NoBatch EXCEPT
            !.ids = records, !.fresh = records \ r.seen.accounted,
            !.sweeps = {[name |-> name, complete |-> complete]},
            !.write = new, !.complete = complete,
            !.proofs = IF complete /\ new THEN {sweep.start} ELSE {},
            !.sweep = [sweep EXCEPT !.page = page.page, !.ids = rest]]

\* A run without a stored sweep begins one; its number is the time it begins.
FetchSweep(w) ==
    /\ run[w].pc = "read" /\ run[w].kind = "sweep"
    /\ run[w].box = binding.box
    /\ LET stored == run[w].sweep
           sweep == IF stored # NoSweep THEN stored
                    ELSE [NoSweep EXCEPT !.start = cycle.begun + 1, !.since = mail.count]
           page == IF sweep.ids # {} THEN [ids |-> sweep.ids, page |-> sweep.page]
                   ELSE SweepPage(sweep.page)
       IN  /\ Fetched(w, SweepBatch(w, sweep, page))
           /\ cycle' = [cycle EXCEPT !.begun = IF sweep.start > @ THEN sweep.start ELSE @]
    /\ UNCHANGED <<mail, binding, lease, workspace, faults, observed>>

\* beforeWorkspaceWrite: the lease is checked before the commit, not in it.
AssertLease(w) ==
    /\ run[w].pc = "fetched"
    /\ run[w].batch.write
    /\ Owns(w)
    /\ run' = [run EXCEPT ![w].pc = "asserted"]
    /\ UNCHANGED <<mail, binding, cycle, lease, workspace, faults, observed>>

\* Every record was there already: no commit.
NoWrite(w) ==
    /\ run[w].pc = "fetched"
    /\ ~run[w].batch.write
    /\ run' = [run EXCEPT ![w].pc = "saved"]
    /\ UNCHANGED <<mail, binding, cycle, lease, workspace, faults, observed>>

\* Mutant: the commit is not guarded by a revision.
AnyRevision(w) == TRUE

SameRevision(w) == run[w].current

\* The commit of the batch against the revision that was read: the other runs'
\* revisions become stale.
Land(w, after) ==
    /\ SameRevision(w)
    /\ LET b == run[w].batch
       IN  /\ workspace' = [accounted |-> workspace.accounted \cup b.ids,
                            gaps |-> workspace.gaps \cup b.gaps,
                            backfilled |-> workspace.backfilled \/ b.boundary,
                            sweeps |-> workspace.sweeps \cup b.sweeps,
                            proofs |-> workspace.proofs \cup b.proofs]
           /\ observed' = [observed EXCEPT !.twice = @ \cup (b.fresh \cap workspace.accounted)]
    /\ run' = [v \in Workers |-> IF v = w THEN after ELSE [run[v] EXCEPT !.current = FALSE]]
    /\ UNCHANGED <<mail, binding, cycle, lease, faults>>

Commit(w) == run[w].pc = "asserted" /\ Land(w, [run[w] EXCEPT !.pc = "saved", !.current = FALSE])

\* The ledger has the command of this batch already, committed by an earlier
\* run since the workspace was read: the commit answers without writing.
CommitKnown(w) ==
    /\ run[w].pc = "asserted"
    /\ run[w].batch.sweeps \cap workspace.sweeps # {}
    /\ run' = [run EXCEPT ![w].pc = "saved", ![w].current = FALSE]
    /\ UNCHANGED <<mail, binding, cycle, lease, workspace, faults, observed>>

\* pjsdas_finish_gmail_execution and pjsdas_finish_gmail_reconciliation.
Finish(w) ==
    LET b == run[w].batch
    IN  /\ run[w].pc = "saved"
        /\ Owns(w)
        /\ lease' = Unleased
        /\ IF run[w].kind = "poll"
           THEN /\ binding' = [binding EXCEPT !.cursor = IF b.complete THEN b.cursor ELSE @,
                                              !.cont = b.cont]
                /\ cycle' = cycle
                /\ observed' = [observed EXCEPT !.promised = IF b.floor > @ THEN b.floor ELSE @]
           ELSE /\ cycle' = [cycle EXCEPT !.sweep = IF b.complete THEN NoSweep ELSE b.sweep,
                                          !.requested = IF b.complete THEN 0 ELSE @,
                                          !.completed = IF b.complete THEN @ \cup {b.sweep.start} ELSE @]
                /\ UNCHANGED <<binding, observed>>
        /\ run' = [run EXCEPT ![w] = Asleep]
        /\ UNCHANGED <<mail, workspace, faults>>

\* What the run does next is refused: it can only fail.
Refused(w) ==
    \/ run[w].pc \in {"begun", "read"} /\ run[w].box # binding.box
    \/ run[w].pc = "fetched" /\ run[w].batch.write /\ ~Owns(w)
    \/ run[w].pc = "asserted" /\ ~run[w].current
    \/ run[w].pc = "saved" /\ ~Owns(w)

\* The run fails: refused, out of budget, or a request that failed.  It reports
\* the failure, which gives the lease back if it still has it, unless that call
\* fails too.  A commit that was sent may still arrive.
Abandon(w) ==
    /\ run[w].pc \notin {"idle", "stray"}
    /\ \/ /\ Refused(w)
          /\ lease' = IF Owns(w) THEN Unleased ELSE lease
          /\ UNCHANGED faults
       \/ /\ Fault
          /\ lease' \in {lease, IF Owns(w) THEN Unleased ELSE lease}
    /\ \/ run' = [run EXCEPT ![w] = Asleep]
       \/ /\ run[w].pc = "asserted"
          /\ run[w].current
          /\ run' = [run EXCEPT ![w].pc = "stray"]
    /\ UNCHANGED <<mail, binding, cycle, workspace, observed>>

\* The commit of a run that is gone arrives late, or is lost or refused.
Stray(w) ==
    /\ run[w].pc = "stray"
    /\ \/ Land(w, Asleep)
       \/ /\ run' = [run EXCEPT ![w] = Asleep]
          /\ UNCHANGED <<mail, binding, cycle, lease, workspace, faults, observed>>

Step(w) ==
    \/ Dismiss(w) \/ Read(w) \/ FetchPoll(w) \/ FetchSweep(w)
    \/ AssertLease(w) \/ NoWrite(w) \/ Commit(w) \/ CommitKnown(w) \/ Finish(w) \/ Abandon(w) \/ Stray(w)

Environment ==
    Arrive \/ Age \/ Leave \/ Disable \/ Enable \/ Relink \/ Reconnect
    \/ TouchBinding \/ OtherCommit \/ Expire \/ Request

Next ==
    \/ Environment
    \/ \E w \in Workers : Step(w) \/ \E kind \in Kinds : Begin(w, kind)

Spec == Init /\ [][Next]_vars

\* Runs keep being started every ten minutes, a started run goes on or fails,
\* and an abandoned lease expires.
Fairness ==
    /\ WF_vars(\E w \in Workers : Begin(w, "poll"))
    /\ \A w \in Workers : WF_vars(Step(w))
    /\ WF_vars(Expire)

FairSpec == Spec /\ Fairness

-----------------------------------------------------------------------------
(* Properties *)

Positions == 0..MaxMail
Pages == [at : Positions, low : Positions]
Listed(ids) == ids \in Seq(1..MaxMail) /\ Len(ids) <= PageSize
Continuations(c) ==
    /\ c.mode \in {"none", "history", "fallback"}
    /\ c.page \in Pages
    /\ c.pending \in Positions \cup {NoCursor}
    /\ Listed(c.ids)

\* The types of the state, of the rows and of what a run holds.
TypeOK ==
    /\ mail \in [count : Positions, expired : Positions, old : Positions, gone : SUBSET (1..MaxMail)]
    /\ binding.box \in 1..MaxBoxes /\ binding.enabled \in BOOLEAN
    /\ binding.cursor \in Positions \cup {NoCursor} /\ Continuations(binding.cont)
    /\ {cycle.requested, cycle.begun} \subseteq Nat
    /\ cycle.completed \subseteq 1..cycle.begun
    /\ cycle.sweep.page \in Positions /\ cycle.sweep.ids \subseteq 1..MaxMail
    /\ lease \in [holder : Workers \cup {Nobody}, live : BOOLEAN, fresh : BOOLEAN]
    /\ workspace.accounted \subseteq Message
    /\ workspace.proofs \subseteq 1..cycle.begun
    /\ \A w \in Workers :
         /\ run[w].pc \in {"idle", "vain", "begun", "read", "fetched", "asserted", "saved", "stray"}
         /\ run[w].kind \in {"poll", "sweep"}
         /\ run[w].batch.fresh \subseteq run[w].batch.ids
         /\ run[w].batch.ids \subseteq Message
         /\ Continuations(run[w].cont)
    /\ faults \in 0..MaxFaults

\* What a mailbox owes nothing for: mail older than the window of its first
\* backfill, and mail a recorded gap names as not proven.
Excused(m) ==
    \/ m <= observed.promised
    \/ \E gap \in workspace.gaps : gap.box = binding.box /\ m \in (gap.cursor + 1)..gap.low

Accounted(m) == <<binding.box, m>> \in workspace.accounted

\* The mailbox cursor never passes a message without a source record: whatever
\* interleaving of runs, lost finishes, late commits, expired history, changed
\* pages and relinked accounts led to it, every message up to the position the
\* row holds is accounted for, or covered by a recorded gap.
Covered == \A m \in 1..binding.cursor : Accounted(m) \/ Excused(m)

\* The cursor of a mailbox only grows while the owner's consent stands: a run
\* that lost its lease cannot put an older position back.
CursorNeverGoesBack ==
    [][binding.enabled /\ binding' # binding /\ binding'.box = binding.box
         => binding'.cursor >= binding.cursor]_vars

\* No message is interpreted as new twice: two runs that both read it as new,
\* or a commit that arrives after its run is gone, do not both get applied.
AppliedOnce == observed.twice = {}

\* A sweep completes only when every message there was at its start, that still
\* matches its query, is accounted for.
SweepCoversMailbox ==
    [][\A n \in cycle'.completed \ cycle.completed :
         \A w \in Workers : run[w].pc = "saved" /\ run[w].batch.sweep.start = n /\ lease.holder = w
           => \A m \in (1..run[w].batch.sweep.since) \ mail.gone : Accounted(m)]_vars

\* A message that arrives is eventually accounted for or excused, unless the
\* owner switches intake off.
EveryMessageAccounted ==
    \A m \in 1..MaxMail :
        mail.count >= m ~> Accounted(m) \/ Excused(m) \/ ~binding.enabled
=============================================================================

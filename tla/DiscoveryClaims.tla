--------------------------- MODULE DiscoveryClaims ---------------------------
(***************************************************************************)
(* Background discovery: paid searches under one approved budget.  A tick  *)
(* of the scheduler (runDiscoveryAutomationForBinding) takes for each      *)
(* source the next batch of queries of its cycle, commits a claim with a   *)
(* budget hold, sends the queries and one model request, and commits the   *)
(* facts, or a checkpoint when there are none, as the settlement of the    *)
(* claim.  Ticks hold no lease and may overlap: what keeps them apart is   *)
(* the claim, which pjsdas_commit_discovery_workspace_v1 admits under the  *)
(* lock of the workspace.                                                  *)
(*                                                                         *)
(* The guard of a paid request (authorizeCurrentScope) reads the consent,  *)
(* the workspace and the consent again; a consent that went and a window   *)
(* that closed never come back, so that one look at all three allows and   *)
(* refuses the same requests.  What a search finds is not modelled, but    *)
(* for whether there was anything to show the model.                       *)
(***************************************************************************)
EXTENDS Integers, Sequences, FiniteSets, Functions

CONSTANTS
    SourceOrder,  \* the enabled sources, in the order of the plan
    QueryCount,   \* planned queries of each source
    BatchSize,    \* queries in a batch, at most
    SearchPrice,  \* of one search request (searchRequestMicroUsd)
    ModelPrice,   \* of one model request (modelInferenceMicroUsd)
    Cap,          \* of the approved policy (maximumMicroUsd)
    MaxTicks,     \* bound: runs of the scheduler
    MaxActive,    \* bound: runs that overlap
    MaxBucket,    \* bound: cadence periods that pass
    MaxFaults     \* bound: edits, lost answers, crashes, changes of authority

Sources == Range(SourceOrder)
Ticks == 1..MaxTicks

ASSUME PlanAssumption ==
    /\ SourceOrder \in Seq(Sources) /\ IsInjective(SourceOrder)
    /\ QueryCount \in [Sources -> Nat \ {0}]
    /\ BatchSize \in Nat \ {0}

ASSUME BoundsAssumption ==
    /\ {SearchPrice, ModelPrice, Cap} \subseteq Nat
    /\ {MaxTicks, MaxActive, MaxFaults} \subseteq Nat
    /\ MaxBucket \in Nat \ {0}

VARIABLES
    revision,   \* of the workspace
    scope,      \* "approved", or another confirmed search scope
    consent,    \* the generation of the consent, 0 when revoked
    window,     \* the approved window: "open" or "closed"
    bucket,     \* the current cadence period
    claims,     \* the ledger: claims, with the admission in their receipt
    settled,    \* the ledger: settlements
    wire,       \* commit requests on their way
    run,        \* what each tick holds in memory
    faults,     \* how many of MaxFaults were used
    paid        \* observer: requests sent, batches abandoned, late requests

vars == <<revision, scope, consent, window, bucket, claims, settled, wire, run, faults, paid>>
world == <<revision, scope, consent, window, bucket>>
ledger == <<claims, settled>>

-----------------------------------------------------------------------------
(* Batches.  A batch is its source, the period its cycle began in, and its *)
(* index in the cycle.                                                     *)

CeilDiv(a, b) == (a + b - 1) \div b

BatchCount(s) == CeilDiv(QueryCount[s], BatchSize)

\* identityFor: the slice of the plan.
QueriesIn(b) ==
    LET start == b[3] * BatchSize
    IN  IF start + BatchSize <= QueryCount[b[1]] THEN BatchSize ELSE QueryCount[b[1]] - start

Batches == UNION {{<<s, c, i>> : c \in 1..MaxBucket, i \in 0..(BatchCount(s) - 1)} : s \in Sources}

\* discoveryBatchPlanningEnvelope
Envelope(b) == QueriesIn(b) * SearchPrice + ModelPrice

ClaimsOf(b) == {c \in claims : c.batch = b}
SettlementsOf(b) == {x \in settled : x.batch = b}

\* held_total: what the claims of the approval retain.
Held == SumFunction([c \in claims |-> IF c.admitted THEN Envelope(c.batch) ELSE 0])

Idle == [pc |-> "idle", start |-> 0, bucket |-> 1, consent |-> 0, plan |-> <<>>,
         attempt |-> 1, query |-> 0, outcome |-> "none", read |-> 0]

Active(t) == run[t].pc \notin {"idle", "done"}
Working(t) == run[t].pc \notin {"idle", "load", "done"}
Batch(t) == Head(run[t].plan)

Fault == faults < MaxFaults /\ faults' = faults + 1

-----------------------------------------------------------------------------
(* The world outside the ticks *)

\* A commit of the user, under the same revision.
Edit ==
    /\ Fault
    /\ revision' = revision + 1
    /\ UNCHANGED <<scope, consent, window, bucket, ledger, wire, run, paid>>

\* The user confirms another search scope, or the approved one again.
ChangeScope ==
    /\ Fault
    /\ revision' = revision + 1
    /\ scope' = IF scope = "approved" THEN "other" ELSE "approved"
    /\ paid' = [paid EXCEPT !.late = [t \in Ticks |-> 0]]
    /\ UNCHANGED <<consent, window, bucket, ledger, wire, run>>

\* The connection is revoked, or consented to again under a new generation.
ChangeConsent ==
    /\ Fault
    /\ consent' = IF consent = 0 THEN 2 ELSE 0
    /\ consent < 2
    /\ UNCHANGED <<revision, scope, window, bucket, ledger, wire, run, paid>>

\* The approved window ends, or the review of the runtime does.
CloseWindow ==
    /\ Fault
    /\ window = "open"
    /\ window' = "closed"
    /\ UNCHANGED <<revision, scope, consent, bucket, ledger, wire, run, paid>>

NextPeriod ==
    /\ bucket < MaxBucket
    /\ bucket' = bucket + 1
    /\ UNCHANGED <<revision, scope, consent, window, ledger, wire, run, faults, paid>>

-----------------------------------------------------------------------------
(* A tick: where it goes next *)

\* What a tick held is gone when it is over.
Over(t) == run' = [run EXCEPT ![t] = [Idle EXCEPT !.pc = "done", !.start = run[t].start]]

\* The next entry of dueSources.
NextEntry(t) ==
    IF Len(run[t].plan) = 1
    THEN Over(t)
    ELSE run' = [run EXCEPT ![t] = [@ EXCEPT !.pc = "claim", !.plan = Tail(run[t].plan), !.attempt = 1,
                                             !.read = 0, !.query = 0, !.outcome = "none"]]

Goes(t, pc) == run' = [run EXCEPT ![t].pc = pc]

\* The claim of the tick stays in the ledger without a settlement.
Abandon(t) == paid' = [paid EXCEPT !.left = @ \cup {Batch(t)}]

\* Mutant: the scope is not read again.
AuthorizedByConsent(t) == run[t].consent = consent /\ window = "open"

\* authorizeCurrentScope of the tick succeeds.
Authorized(t) == run[t].consent = consent /\ window = "open" /\ scope = "approved"

\* AUTH_FORBIDDEN and DISCOVERY_SCOPE_CHANGED end the run; a closed window is
\* the failure of one source.
AuthorityLost(t) == run[t].consent # consent \/ scope # "approved"

\* An authorisation fails while a claim is open.
StopsAfterClaim(t) ==
    /\ ~Authorized(t)
    /\ Abandon(t)
    /\ IF AuthorityLost(t) THEN Over(t) ELSE NextEntry(t)

-----------------------------------------------------------------------------
(* A tick begins: the scope is confirmed and the one of the policy, the    *)
(* window is open, and the progress of each source is read off the ledger. *)

Start(t) ==
    /\ run[t].pc = "idle"
    /\ \A u \in Ticks : u < t => run[u].pc # "idle"
    /\ Cardinality({u \in Ticks : Active(u)}) < MaxActive
    /\ consent # 0 /\ scope = "approved" /\ window = "open"
    /\ run' = [run EXCEPT ![t] = [@ EXCEPT !.pc = "load", !.start = revision,
                                           !.bucket = bucket, !.consent = consent]]
    /\ UNCHANGED <<world, ledger, wire, faults, paid>>

\* latest: the cycle whose first batch was claimed last.
LatestCycle(s, t) ==
    LET first == {c \in claims : c.batch[1] = s /\ c.batch[3] = 0}
    IN  IF first = {} THEN run[t].bucket
        ELSE (CHOOSE c \in first : \A d \in first : d.revision <= c.revision).batch[2]

RecordsOf(s, cycle) == {x \in claims \cup settled : x.batch[1] = s /\ x.batch[2] = cycle}

\* Mutant: an exhausted batch is passed over like any other that was settled.
ProgressPastExhaustion(s, t, elapsed) ==
    LET cycle == LatestCycle(s, t)
        next == Cardinality({x \in settled : x.batch[1] = s /\ x.batch[2] = cycle})
    IN  IF next = BatchCount(s)
        THEN IF cycle = run[t].bucket \/ ~elapsed THEN [state |-> "not_due"]
             ELSE [state |-> "ready", batch |-> <<s, run[t].bucket, 0>>]
        ELSE IF ClaimsOf(<<s, cycle, next>>) # {} THEN [state |-> "uncertain"]
        ELSE [state |-> "ready", batch |-> <<s, cycle, next>>]

\* nextDiscoveryScopeBatch.  elapsed: a cadence has passed since the cycle ended.
Progress(s, t, elapsed) ==
    LET cycle == LatestCycle(s, t)
        done == {x \in settled : x.batch[1] = s /\ x.batch[2] = cycle}
        next == Cardinality(done)
    IN  IF \E x \in done : x.outcome = "exhausted" THEN [state |-> "exhausted"]
        ELSE IF next = BatchCount(s)
             THEN IF cycle = run[t].bucket \/ ~elapsed THEN [state |-> "not_due"]
                  ELSE [state |-> "ready", batch |-> <<s, run[t].bucket, 0>>]
        ELSE IF ClaimsOf(<<s, cycle, next>>) # {} THEN [state |-> "uncertain"]
        ELSE [state |-> "ready", batch |-> <<s, cycle, next>>]

\* Surely elapsed two periods later, surely not in the period it ended.
MayHaveElapsed(s, t, elapsed) ==
    LET ends == {x.bucket : x \in {y \in settled : y.batch[1] = s /\ y.batch[2] = LatestCycle(s, t)}}
    IN  /\ elapsed => \A e \in ends : run[t].bucket > e
        /\ ~elapsed => \E e \in ends : run[t].bucket < e + 2

\* Indices of SourceOrder in their order.
Rising(at) == \A i, j \in DOMAIN at : i < j => at[i] < at[j]

\* A record later than the tick is DISCOVERY_COMMIT_UNVERIFIED and fails the
\* run.  An exhausted source ends it too: what is ready is skipped.
Load(t) ==
    /\ run[t].pc = "load"
    /\ IF \E s \in Sources : \E x \in RecordsOf(s, LatestCycle(s, t)) : x.revision > run[t].start
       THEN Over(t)
       ELSE \E elapsed \in [Sources -> BOOLEAN] :
              /\ \A s \in Sources : MayHaveElapsed(s, t, elapsed[s])
              /\ LET progress(s) == Progress(s, t, elapsed[s])
                     due == {i \in DOMAIN SourceOrder : progress(SourceOrder[i]).state = "ready"}
                 IN  IF due = {} \/ \E s \in Sources : progress(s).state = "exhausted"
                     THEN Over(t)
                     ELSE \E at \in [1..Cardinality(due) -> due] :
                            /\ Rising(at)
                            /\ run' = [run EXCEPT ![t] = [@ EXCEPT !.pc = "claim",
                                  !.plan = [i \in DOMAIN at |-> progress(SourceOrder[at[i]]).batch]]]
    /\ UNCHANGED <<world, ledger, wire, faults, paid>>

-----------------------------------------------------------------------------
(* Requests to the workspace.  One is waited for at a time. *)

Request(t, kind) ==
    [tick |-> t, kind |-> kind, batch |-> Batch(t), outcome |-> run[t].outcome,
     read |-> run'[t].read, consent |-> run[t].consent]

Waits(t) == run[t].pc \in {"claiming", "writing", "settling"}

\* The bounded CAS loop: a second conflict is the end of it.
Retries(t, pc) ==
    /\ run[t].attempt = 1
    /\ run' = [run EXCEPT ![t] = [@ EXCEPT !.pc = pc, !.attempt = 2, !.read = 0]]
    /\ UNCHANGED paid

\* commitDiscoveryCheckpoint of a claim, up to its write.  A hold above the cap
\* is DISCOVERY_BUDGET_EXHAUSTED before anything is sent.
Claim(t) ==
    /\ run[t].pc = "claim"
    /\ IF ~Authorized(t)
       THEN /\ IF AuthorityLost(t) THEN Over(t) ELSE NextEntry(t)
            /\ UNCHANGED wire
       ELSE IF Envelope(Batch(t)) > Cap
       THEN Over(t) /\ UNCHANGED wire
       ELSE /\ run' = [run EXCEPT ![t] = [@ EXCEPT !.pc = "claiming", !.read = revision]]
            /\ wire' = wire \cup {Request(t, "claim")}
    /\ UNCHANGED <<world, ledger, faults, paid>>

\* The claim is answered.  Only an admitted first commit goes on to the search;
\* a declined one is settled as exhausted.
ClaimAnswered(t, answer) ==
    CASE answer = "admitted" -> run' = [run EXCEPT ![t] = [@ EXCEPT !.pc = "query", !.attempt = 1, !.read = 0]] /\ UNCHANGED paid
      [] answer = "declined" -> run' = [run EXCEPT ![t] = [@ EXCEPT !.pc = "settle", !.attempt = 1,
                                                                    !.read = 0, !.outcome = "exhausted"]] /\ UNCHANGED paid
      [] answer = "forbidden" -> Over(t) /\ UNCHANGED paid
      [] answer = "conflict" -> IF run[t].attempt = 1 THEN Retries(t, "claim")
                                ELSE NextEntry(t) /\ UNCHANGED paid

\* The facts are answered.
FactsAnswered(t, answer) ==
    CASE answer = "settled" -> NextEntry(t) /\ UNCHANGED paid
      [] answer = "forbidden" -> Over(t) /\ Abandon(t)
      [] answer = "conflict" -> IF run[t].attempt = 1 THEN Retries(t, "facts") ELSE NextEntry(t) /\ Abandon(t)

\* The checkpoint of a failed or exhausted batch is answered.
SettleAnswered(t, answer) ==
    CASE answer = "settled" -> /\ IF run[t].outcome = "exhausted" THEN Over(t) ELSE NextEntry(t)
                               /\ UNCHANGED paid
      [] answer = "forbidden" -> NextEntry(t) /\ Abandon(t)
      [] answer = "conflict" -> IF run[t].attempt = 1 THEN Retries(t, "settle") ELSE NextEntry(t) /\ Abandon(t)

\* The tick hears the answer if it still waits for it.
Answer(r, answer) ==
    IF Waits(r.tick) /\ Batch(r.tick) = r.batch
    THEN CASE r.kind = "claim" -> ClaimAnswered(r.tick, answer)
           [] r.kind = "facts" -> FactsAnswered(r.tick, answer)
           [] r.kind = "checkpoint" -> SettleAnswered(r.tick, answer)
    ELSE UNCHANGED <<run, paid>>

-----------------------------------------------------------------------------
(* pjsdas_commit_discovery_workspace_v1 *)

\* Mutant: a claim is looked for by its attempt.
ClaimAdmissibleByAttempt(r) ==
    /\ window = "open"
    /\ ~\E c \in ClaimsOf(r.batch) : c.attempt = r.tick
    /\ r.batch[3] > 0 => SettlementsOf([r.batch EXCEPT ![3] = @ - 1]) # {}

\* A claim: the first of its batch, after the settlement of the batch before,
\* within the window of the approval.
ClaimAdmissible(r) ==
    /\ window = "open"
    /\ ClaimsOf(r.batch) = {}
    /\ r.batch[3] > 0 => SettlementsOf([r.batch EXCEPT ![3] = @ - 1]) # {}

\* A settlement: of the claim of the same attempt, the first, and a declined
\* claim has no other end than exhausted.
SettlementAdmissible(r) ==
    /\ \E c \in ClaimsOf(r.batch) : /\ c.attempt = r.tick
                                    /\ c.admitted \/ r.outcome = "exhausted"
    /\ SettlementsOf(r.batch) = {}

\* Mutant: the cap is compared with the holds of others only.
BudgetAdmitsLast(b) == Held <= Cap

\* budget_admitted
BudgetAdmits(b) == Held + Envelope(b) <= Cap

\* Mutant: the revision is not compared.
SeesRevisionAny(r) == TRUE

\* The CAS of the workspace commit.
SeesRevision(r) == r.read = revision

Refuses(r, answer) ==
    /\ Answer(r, answer)
    /\ UNCHANGED <<revision, ledger>>

Records(r) ==
    /\ revision' = revision + 1
    /\ IF r.kind = "claim"
       THEN /\ claims' = claims \cup {[batch |-> r.batch, attempt |-> r.tick,
                                       admitted |-> BudgetAdmits(r.batch), revision |-> revision']}
            /\ UNCHANGED settled
            /\ Answer(r, IF BudgetAdmits(r.batch) THEN "admitted" ELSE "declined")
       ELSE /\ settled' = settled \cup {[batch |-> r.batch, attempt |-> r.tick, outcome |-> r.outcome,
                                         revision |-> revision', bucket |-> bucket, scope |-> scope]}
            /\ UNCHANGED claims
            /\ Answer(r, "settled")

Commit(r) ==
    /\ r \in wire
    /\ wire' = wire \ {r}
    /\ IF \/ r.consent # consent
          \/ ~(IF r.kind = "claim" THEN ClaimAdmissible(r) ELSE SettlementAdmissible(r))
       THEN Refuses(r, "forbidden")
       ELSE IF ~SeesRevision(r) THEN Refuses(r, "conflict")
       ELSE Records(r)
    /\ UNCHANGED <<scope, consent, window, bucket, faults>>

\* No answer, or one that cannot be read or verified: the outcome is unknown and
\* the run turns to the next source.  The request may still arrive, or never.
GiveUp(t) ==
    /\ Waits(t)
    /\ Fault
    /\ Abandon(t)
    /\ NextEntry(t)
    /\ UNCHANGED <<world, ledger, wire>>

Crash(t) ==
    /\ Active(t)
    /\ Fault
    /\ IF run[t].pc \in {"load", "claim"} THEN UNCHANGED paid ELSE Abandon(t)
    /\ Over(t)
    /\ UNCHANGED <<world, ledger, wire>>

-----------------------------------------------------------------------------
(* The search of a claimed batch: executeDiscoveryQueries, aiGatewayText *)

\* The authority is looked at before each query, in its reservation and in the
\* adapter, after the slot was taken: all of them end the batch in the same way,
\* and the last one is the step.
TakeSlot(t) ==
    /\ run[t].pc = "query"
    /\ IF Authorized(t) THEN Goes(t, "send") /\ UNCHANGED paid ELSE StopsAfterClaim(t)
    /\ UNCHANGED <<world, ledger, wire, faults>>

\* One more request is paid for, late when its authority had gone.
Pays(t, what) ==
    [paid EXCEPT ![what][Batch(t)] = paid[what][Batch(t)] + 1,
                 !.late[t] = IF scope = "approved" /\ window = "open" /\ run[t].consent = consent
                             THEN 0 ELSE paid.late[t] + 1]

\* Where a tick goes after its last query: none of them completed, none found
\* anything, or there is something to show the model.
AfterQueries == {[pc |-> "settle", outcome |-> "failed"],
                 [pc |-> "facts", outcome |-> "searched"],
                 [pc |-> "model", outcome |-> "none"]}

\* A query is sent and answered, with a known failure perhaps: the next one
\* follows all the same.
Send(t) ==
    /\ run[t].pc = "send"
    /\ paid' = Pays(t, "searches")
    /\ \E next \in IF run[t].query + 1 < QueriesIn(Batch(t))
                   THEN {[pc |-> "query", outcome |-> "none"]} ELSE AfterQueries :
         run' = [run EXCEPT ![t] = [@ EXCEPT !.query = run[t].query + 1, !.pc = next.pc, !.outcome = next.outcome]]
    /\ UNCHANGED <<world, ledger, wire, faults>>

\* The same before the model request; in its reservation any failure, also of
\* the authority, leaves the execution uncertain and only this source is over.
TakeModel(t) ==
    /\ run[t].pc = "model"
    /\ IF Authorized(t) THEN Goes(t, "sendmodel") /\ UNCHANGED paid
       ELSE Abandon(t) /\ (NextEntry(t) \/ (AuthorityLost(t) /\ Over(t)))
    /\ UNCHANGED <<world, ledger, wire, faults>>

\* The answer of the model is taken, or violates its contract.
SendModel(t) ==
    /\ run[t].pc = "sendmodel"
    /\ paid' = Pays(t, "models")
    /\ \E next \in {[pc |-> "facts", outcome |-> "searched"], [pc |-> "settle", outcome |-> "failed"]} :
         run' = [run EXCEPT ![t] = [@ EXCEPT !.pc = next.pc, !.outcome = next.outcome]]
    /\ UNCHANGED <<world, ledger, wire, faults>>

\* A request went out and its result is unknown.
LoseResult(t) ==
    /\ run[t].pc \in {"send", "sendmodel"}
    /\ Fault
    /\ paid' = [Pays(t, IF run[t].pc = "send" THEN "searches" ELSE "models")
                    EXCEPT !.left = @ \cup {Batch(t)}]
    /\ NextEntry(t)
    /\ UNCHANGED <<world, ledger, wire>>

-----------------------------------------------------------------------------
(* The end of a claimed batch *)

\* Mutant: the checkpoint of a batch without results is left out.
SettleNothing(t) ==
    /\ run[t].pc = "settle"
    /\ NextEntry(t)
    /\ UNCHANGED <<world, ledger, wire, faults, paid>>

\* commitDiscoveryCheckpoint of a settlement; whatever goes wrong in it leaves
\* the batch uncertain.
Settle(t) ==
    /\ run[t].pc = "settle"
    /\ IF Authorized(t)
       THEN /\ run' = [run EXCEPT ![t] = [@ EXCEPT !.pc = "settling", !.read = revision]]
            /\ wire' = wire \cup {Request(t, "checkpoint")}
            /\ UNCHANGED paid
       ELSE Abandon(t) /\ NextEntry(t) /\ UNCHANGED wire
    /\ UNCHANGED <<world, ledger, faults>>

\* commitVerifiedDiscoveryRun, up to its write: the scope the facts were found for
\* is the confirmed one in the workspace that is read, and the facts are written
\* over just that revision.
WriteFacts(t) ==
    /\ run[t].pc = "facts"
    /\ IF Authorized(t)
       THEN /\ run' = [run EXCEPT ![t] = [@ EXCEPT !.pc = "writing", !.read = revision]]
            /\ wire' = wire \cup {Request(t, "facts")}
            /\ UNCHANGED paid
       ELSE StopsAfterClaim(t) /\ UNCHANGED wire
    /\ UNCHANGED <<world, ledger, faults>>

-----------------------------------------------------------------------------
Init ==
    /\ revision = 1 /\ scope = "approved" /\ consent = 1 /\ window = "open" /\ bucket = 1
    /\ claims = {} /\ settled = {} /\ wire = {}
    /\ run = [t \in Ticks |-> Idle]
    /\ faults = 0
    /\ paid = [searches |-> [b \in Batches |-> 0], models |-> [b \in Batches |-> 0],
               left |-> {}, late |-> [t \in Ticks |-> 0]]

Works(t) ==
    \/ Load(t) \/ Claim(t)
    \/ TakeSlot(t) \/ Send(t) \/ TakeModel(t) \/ SendModel(t)
    \/ Settle(t) \/ WriteFacts(t)

Next ==
    \/ Edit \/ ChangeScope \/ ChangeConsent \/ CloseWindow \/ NextPeriod
    \/ \E t \in Ticks : Start(t) \/ Works(t) \/ LoseResult(t) \/ GiveUp(t) \/ Crash(t)
    \/ \E r \in wire : Commit(r)

Spec == Init /\ [][Next]_vars

-----------------------------------------------------------------------------
(* Properties *)

States == {"idle", "load", "claim", "claiming", "query", "send", "model", "sendmodel",
           "facts", "writing", "settle", "settling", "done"}
Outcomes == {"none", "searched", "failed", "exhausted"}

\* The variables have their types, a tick at work has a batch to work on, and
\* after the consent, the scope or the window went a tick sends at most the one
\* request it had been authorised for.
TypeOK ==
    /\ revision \in Nat \ {0}
    /\ scope \in {"approved", "other"} /\ consent \in 0..2 /\ window \in {"open", "closed"}
    /\ bucket \in 1..MaxBucket
    /\ claims \subseteq [batch : Batches, attempt : Ticks, admitted : BOOLEAN, revision : 1..revision]
    /\ settled \subseteq [batch : Batches, attempt : Ticks, outcome : Outcomes \ {"none"},
                          revision : 1..revision, bucket : 1..MaxBucket, scope : {"approved", "other"}]
    /\ wire \subseteq [tick : Ticks, kind : {"claim", "facts", "checkpoint"}, batch : Batches,
                       outcome : Outcomes, read : 1..revision, consent : 1..2]
    /\ \A t \in Ticks :
         /\ run[t].pc \in States
         /\ run[t].plan \in Seq(Batches)
         /\ run[t].pc \in {"idle", "load", "done"} <=> run[t].plan = <<>>
         /\ run[t].attempt \in 1..2
    /\ faults \in 0..MaxFaults
    /\ paid.searches \in [Batches -> Nat] /\ paid.models \in [Batches -> Nat]
    /\ paid.left \subseteq Batches /\ paid.late \in [Ticks -> 0..1]

\* What was spent in requests, of all ticks and cycles together, never exceeds
\* the approved amount, whatever is lost, repeated or left open: the claim holds
\* the price of its whole batch before the first request, and nothing returns it.
SpendWithinCap ==
    SumFunction([b \in Batches |-> paid.searches[b] * SearchPrice + paid.models[b] * ModelPrice]) <= Cap

\* No query of a batch and no model request goes out twice, in one tick or in
\* two that overlap, and none goes out for a batch whose hold was declined.
EachRequestOnce ==
    \A b \in Batches :
        /\ paid.searches[b] <= QueriesIn(b)
        /\ paid.models[b] <= 1
        /\ paid.searches[b] + paid.models[b] > 0 => \E c \in ClaimsOf(b) : c.admitted

\* Facts are committed only while the workspace still confirms the scope they
\* were searched for: between the authorisation and the commit stands the CAS.
FactsMatchScope == \A x \in settled : x.outcome = "searched" => x.scope = "approved"

\* After a declined hold no later tick resumes its cycle: a tick that claims a
\* batch of that cycle had begun before the hold was declined, whether the declined
\* claim was settled as exhausted or left open.
DeclinedIsFinal ==
    \A c, d \in claims :
        /\ ~c.admitted
        /\ c.batch[1] = d.batch[1] /\ c.batch[2] = d.batch[2]
        => run[d.attempt].start < c.revision

\* A claim is settled, or being worked on by the tick that made it, or it was left
\* open by a fault, a change of authority or two lost races for the revision: no
\* failure the code knows about blocks a source for ever.
NoClaimIsForgotten ==
    \A c \in claims :
        \/ SettlementsOf(c.batch) # {}
        \/ c.batch \in paid.left
        \/ Working(c.attempt) /\ Batch(c.attempt) = c.batch
=============================================================================

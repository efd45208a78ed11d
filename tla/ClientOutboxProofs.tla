-------------------------- MODULE ClientOutboxProofs --------------------------
(***************************************************************************)
(* Proofs about the outbox for any number of tabs, commands, other         *)
(* commits and faults: what the user is told is true, no intent is         *)
(* dropped silently, and neither the checkpoint nor the snapshot goes      *)
(* back.                                                                   *)
(***************************************************************************)
EXTENDS ClientOutbox, FiniteSetTheorems, TLAPS

-----------------------------------------------------------------------------
(* The invariant *)

\* If the command was to change something and nobody else can have made that
\* change, the server has its receipt.
Truth(c) == verdict[c] = "write" /\ overlap[c] = "none" => ledger[c] # 0

Receipts == {c \in Commands : ledger[c] # 0}

\* Every revision is a receipt or a commit of another device.
ServerInv ==
    /\ foreign \in 0 .. MaxForeign
    /\ revision = foreign + Cardinality(Receipts)
    /\ revision \in Nat
    /\ ledger \in [Commands -> 0 .. revision]
    /\ verdict \in [Commands -> Verdict]
    /\ overlap \in [Commands -> {"none", "same", "clash"}]
    /\ late \subseteq Commands

\* An entry stands for an intent that was asked for and whose end was not told;
\* what was told, or marked as a fact, is true.
EntryInv(c) ==
    /\ told[c] = "new" => outbox[c] = "absent"
    /\ told[c] = "open" => outbox[c] # "absent"
    /\ told[c] = "confirmed" => Truth(c)
    /\ c \in facts => outbox[c] # "absent" /\ Truth(c)

EntriesInv ==
    /\ outbox \in [Commands -> Statuses]
    /\ base \in [Commands -> 0 .. revision]
    /\ facts \subseteq Commands
    /\ told \in [Commands -> Told]
    /\ \A c \in Commands : EntryInv(c)

DeviceInv == cache \in Caches /\ checkpoint \in 0 .. revision

Lookups == {"recover", "resend", "receipt"}

\* A call for command c: it names no revision the server does not have, and an
\* answer that confirms is true.
CallInv(m, c) ==
    /\ m \in CallType
    /\ m.seen <= revision /\ m.receipt <= revision
    /\ told[c] = "new" => m = Idle
    /\ m.outcome \in Confirming => Truth(c)
    /\ m.mode = "read" => m.outcome \in Confirming \cup {"NO_WRITE"}
    /\ m.phase = "read" => m.mode \in Lookups \cup {"submit"}
    /\ m.phase = "sent" => m.mode # "none"
    /\ m.phase = "missed" => m.mode = "submit"
    /\ m.phase = "answered" =>
           \/ m.mode \in Lookups /\ m.outcome \in {"ABSENT", "ALREADY_APPLIED"}
           \/ m.mode = "submit" /\ m.outcome \in Confirming \cup {"NO_WRITE", "CONFLICT", "REJECTED"}
           \/ m.mode = "read"
    /\ m.phase \in {"captured", "installed", "persisted"} =>
           m.outcome \in Confirming \cup {"NO_WRITE", "CONFLICT"}

CallsInv ==
    /\ call \in [Slots -> CallType]
    /\ \A s \in Slots : CallInv(call[s], s.command)

RefreshesInv ==
    /\ refresh \in [Tabs -> RefreshType]
    /\ \A t \in Tabs : refresh[t].seen <= revision

Inv ==
    /\ ServerInv /\ EntriesInv /\ DeviceInv /\ CallsInv /\ RefreshesInv
    /\ faults \in 0 .. MaxFaults

-----------------------------------------------------------------------------
(* Revisions *)

\* The revisions are within the bound that the constants give.
LEMMA CommitsBounded ==
    ASSUME NEW R \in SUBSET Commands, NEW n \in 0 .. MaxForeign
    PROVE  n + Cardinality(R) \in 0 .. MaxRevision /\ MaxRevision \in Nat
<1>1. IsFiniteSet(Commands) /\ MaxForeign \in Nat
  BY OutboxAssumption
<1>2. /\ Cardinality(R) <= Cardinality(Commands)
      /\ Cardinality(R) \in Nat /\ Cardinality(Commands) \in Nat
  BY <1>1, FS_Subset, FS_CardinalityType
<1> QED BY <1>1, <1>2 DEF MaxRevision

\* The server makes at most one revision for each command and each other commit.
LEMMA RevisionBounded ==
    ASSUME ServerInv
    PROVE  revision \in 0 .. MaxRevision /\ MaxRevision \in Nat
<1>1. Receipts \in SUBSET Commands
  BY DEF Receipts
<1> QED BY <1>1, CommitsBounded DEF ServerInv

\* So TypeOK and the rest follow.
LEMMA InvImplies == Inv => TypeOK /\ ConfirmedIsTrue /\ NoIntentIsForgotten
<1> SUFFICES ASSUME Inv PROVE TypeOK /\ ConfirmedIsTrue /\ NoIntentIsForgotten
  OBVIOUS
<1>1. revision \in 0 .. MaxRevision /\ MaxRevision \in Nat
  BY RevisionBounded DEF Inv
<1>2. 0 .. revision \subseteq 0 .. MaxRevision
  BY <1>1
<1>3. /\ ledger \in [Commands -> 0 .. MaxRevision]
      /\ base \in [Commands -> 0 .. MaxRevision]
  BY <1>2 DEF Inv, ServerInv, EntriesInv
<1>4. facts \subseteq {c \in Commands : outbox[c] # "absent"}
  BY DEF Inv, EntriesInv, EntryInv
<1>5. TypeOK
  BY <1>1, <1>3, <1>4 DEF TypeOK, Inv, ServerInv, EntriesInv, DeviceInv, CallsInv, RefreshesInv
<1>6. ConfirmedIsTrue /\ NoIntentIsForgotten
  BY DEF ConfirmedIsTrue, NoIntentIsForgotten, Inv, EntriesInv, EntryInv, Truth
<1> QED BY <1>5, <1>6

\* A call that was dropped.
LEMMA IdleInv ==
    ASSUME ServerInv, NEW c
    PROVE  Idle \in CallType /\ CallInv(Idle, c)
<1>1. 0 \in 0 .. MaxRevision /\ EmptyCache \in Caches
  BY RevisionBounded DEF EmptyCache, Caches
<1>2. Idle \in CallType
  BY <1>1 DEF Idle, CallType, Phases, Modes, Statuses, CallOutcomes
<1> QED BY <1>2 DEF CallInv, Idle, ServerInv, Confirming, Lookups

\* At first nothing is asked for, and there is nothing to be true.
LEMMA InitInv == Init => Inv
<1> SUFFICES ASSUME Init PROVE Inv
  OBVIOUS
<1>1. Receipts = {} /\ Cardinality(Receipts) = 0
  BY FS_EmptySet DEF Init, Receipts
<1>2. ServerInv
  BY <1>1, OutboxAssumption DEF Init, ServerInv, Verdict
<1>3. EntriesInv
  BY DEF Init, EntriesInv, EntryInv, Statuses, Told
<1>4. 0 \in 0 .. MaxRevision /\ EmptyCache \in Caches
  BY <1>2, RevisionBounded DEF EmptyCache, Caches
<1>5. DeviceInv
  BY <1>4 DEF Init, DeviceInv
<1>6. CallsInv
  BY <1>2, IdleInv DEF Init, CallsInv
<1>7. RefreshesInv
  BY <1>4 DEF Init, RefreshesInv, RefreshType, NoRefresh
<1> QED BY <1>2, <1>3, <1>5, <1>6, <1>7, OutboxAssumption DEF Inv, Init

-----------------------------------------------------------------------------
(* What a step leaves alone *)

\* What was true of the commands stays true, and no revision goes.
Later ==
    /\ revision <= revision' /\ revision' \in Nat
    /\ \A c \in Commands : Truth(c) => Truth(c)'

\* No command is forgotten.
Remembers == \A c \in Commands : told'[c] = "new" => told[c] = "new"

\* A step that leaves the server alone makes nothing untrue.
LEMMA SameServer ==
    ASSUME ServerInv, UNCHANGED <<revision, ledger, verdict, overlap, foreign>>,
           late' \subseteq Commands
    PROVE  ServerInv' /\ Later
BY DEF ServerInv, Receipts, Later, Truth

\* What a call says stays true while the server only grows.
LEMMA CallKept ==
    ASSUME ServerInv, Later, Remembers, NEW c \in Commands, NEW m, CallInv(m, c)
    PROVE  CallInv(m, c)'
<1>1. m \in CallType /\ m.seen \in Nat /\ m.receipt \in Nat
  BY RevisionBounded DEF CallInv, CallType
<1> QED BY <1>1 DEF CallInv, Later, Remembers, ServerInv

\* So it is for all calls when none of them moves.
LEMMA CallsKept ==
    ASSUME ServerInv, Later, Remembers, CallsInv, UNCHANGED call
    PROVE  CallsInv'
BY CallKept DEF CallsInv, Slots

\* One call moves on.
LEMMA OneCall ==
    ASSUME ServerInv, Later, Remembers, CallsInv, NEW s \in Slots, NEW m,
           CallInv(m, s.command)', call' = [call EXCEPT ![s] = m]
    PROVE  CallsInv'
<1>1. m \in CallType
  BY DEF CallInv
<1>2. \A r \in Slots : r.command \in Commands
  BY DEF Slots
<1>3. call' \in [Slots -> CallType] /\ call'[s] = m /\ \A r \in Slots : r # s => call'[r] = call[r]
  BY <1>1 DEF CallsInv
<1>4. ASSUME NEW r \in Slots, r # s PROVE CallInv(call[r], r.command)'
  <2>1. PICK n : n = call[r] /\ CallInv(n, r.command)
    BY DEF CallsInv
  <2>2. CallInv(n, r.command)'
    BY <1>2, <2>1, CallKept
  <2> QED BY <1>3, <1>4, <2>1, <2>2
<1> QED BY <1>3, <1>4 DEF CallsInv

\* The same for the entries.
LEMMA EntriesKept ==
    ASSUME ServerInv, Later, EntriesInv, UNCHANGED entries
    PROVE  EntriesInv' /\ Remembers
<1>1. 0 .. revision \subseteq 0 .. revision'
  BY DEF Later, ServerInv
<1>2. base' \in [Commands -> 0 .. revision']
  BY <1>1 DEF EntriesInv, entries
<1> QED BY <1>2 DEF EntriesInv, EntryInv, Later, Remembers, entries

\* The same for cache and checkpoint.
LEMMA DeviceKept ==
    ASSUME ServerInv, Later, DeviceInv, UNCHANGED device
    PROVE  DeviceInv'
BY DEF DeviceInv, Later, ServerInv, device

\* The same for the refreshes.
LEMMA RefreshesKept ==
    ASSUME ServerInv, Later, RefreshesInv, UNCHANGED refresh
    PROVE  RefreshesInv'
<1>1. \A t \in Tabs : refresh[t].seen \in Nat
  BY RevisionBounded DEF RefreshesInv, RefreshType
<1> QED BY <1>1 DEF RefreshesInv, Later, ServerInv

-----------------------------------------------------------------------------
(* Steps that move one call and nothing else *)

\* A step that only moves one call needs only that call checked.
LEMMA JustCall ==
    ASSUME Inv, NEW s \in Slots, NEW m, CallInv(m, s.command),
           call' = [call EXCEPT ![s] = m],
           UNCHANGED <<server, entries, device, refresh, faults>>
    PROVE  Inv'
<1>1. ServerInv' /\ Later
  BY SameServer DEF Inv, ServerInv, server
<1>2. EntriesInv' /\ Remembers
  BY <1>1, EntriesKept DEF Inv
<1>3. s.command \in Commands
  BY DEF Slots
<1>4. CallInv(m, s.command)'
  BY <1>1, <1>2, <1>3, CallKept DEF Inv
<1>5. CallsInv'
  BY <1>1, <1>2, <1>4, OneCall DEF Inv
<1>6. DeviceInv' /\ RefreshesInv'
  BY <1>1, DeviceKept, RefreshesKept DEF Inv
<1> QED BY <1>1, <1>2, <1>5, <1>6 DEF Inv

\* What Send makes of a slot.
Sent(s, mode) ==
    [Idle EXCEPT !.phase = "sent", !.mode = mode,
                 !.local = IF mode \in {"submit", "read"} THEN cache ELSE @,
                 !.kept = IF mode = "resend" THEN outbox[s.command] ELSE @,
                 !.outcome = IF mode = "read" THEN "HOLDS" ELSE "NONE"]

\* A request that is sent starts with nothing to be true, but for a receipt read.
LEMMA SentInv ==
    ASSUME Inv, NEW s \in Slots, NEW mode \in Modes \ {"none"},
           mode = "read" => Truth(s.command)
    PROVE  /\ Sent(s, mode) \in CallType
           /\ told[s.command] # "new" => CallInv(Sent(s, mode), s.command)
<1>1. /\ s.command \in Commands /\ outbox[s.command] \in Statuses /\ cache \in Caches
      /\ Idle \in CallType
  BY IdleInv DEF Slots, Inv, EntriesInv, DeviceInv
<1>2. Sent(s, mode) = [phase |-> "sent", mode |-> mode,
          kept |-> IF mode = "resend" THEN outbox[s.command] ELSE "absent",
          outcome |-> IF mode = "read" THEN "HOLDS" ELSE "NONE",
          seen |-> 0, receipt |-> 0,
          local |-> IF mode \in {"submit", "read"} THEN cache ELSE EmptyCache]
  <2>1. PICK l, k, o :
            /\ l = IF mode \in {"submit", "read"} THEN cache ELSE Idle.local
            /\ k = IF mode = "resend" THEN outbox[s.command] ELSE Idle.kept
            /\ o = IF mode = "read" THEN "HOLDS" ELSE "NONE"
    OBVIOUS
  <2>2. Sent(s, mode) = [Idle EXCEPT !.phase = "sent", !.mode = mode, !.local = l,
                                     !.kept = k, !.outcome = o]
    BY <2>1 DEF Sent
  <2>3. Sent(s, mode) = [phase |-> "sent", mode |-> mode, kept |-> k, outcome |-> o,
                         seen |-> 0, receipt |-> 0, local |-> l]
    BY <2>2 DEF Idle
  <2>4. Idle.local = EmptyCache /\ Idle.kept = "absent"
    BY DEF Idle
  <2> QED BY <2>1, <2>3, <2>4
<1>3. /\ 0 \in 0 .. MaxRevision /\ EmptyCache \in Caches
      /\ "sent" \in Phases /\ "absent" \in Statuses /\ {"HOLDS", "NONE"} \subseteq CallOutcomes
  BY RevisionBounded DEF Inv, EmptyCache, Caches, Phases, Statuses, CallOutcomes
<1>4. Sent(s, mode) \in CallType
  BY <1>1, <1>2, <1>3 DEF CallType
<1>5. ASSUME told[s.command] # "new" PROVE CallInv(Sent(s, mode), s.command)
  <2>1. revision \in Nat
    BY DEF Inv, ServerInv
  <2> QED BY <1>2, <1>4, <1>5, <2>1 DEF CallInv, Confirming
<1> QED BY <1>4, <1>5

\* What Send does to the calls.
LEMMA SendIsSent ==
    ASSUME NEW s, NEW mode, Send(s, mode)
    PROVE  call' = [call EXCEPT ![s] = Sent(s, mode)]
BY DEF Send, Sent

\* A command with an entry, or with a call, was asked for.
LEMMA EntryIsAsked ==
    ASSUME Inv, NEW c \in Commands, outbox[c] # "absent"
    PROVE  told[c] # "new"
BY DEF Inv, EntriesInv, EntryInv

\* A call that runs is for a command that was asked for.
LEMMA CallIsAsked ==
    ASSUME Inv, NEW s \in Slots, call[s].phase # "idle"
    PROVE  told[s.command] # "new"
BY DEF Inv, CallsInv, CallInv, Idle

\* The three ways to send for an entry that is there.
LEMMA ReplayInv ==
    ASSUME Inv, NEW s \in Slots, Retry(s) \/ Replay(s) \/ LookUp(s)
    PROVE  Inv'
<1>1. s.command \in Commands
  BY DEF Slots
<1>2. outbox[s.command] # "absent"
  BY DEF Retry, Replay, LookUp, Unresolved
<1>3. told[s.command] # "new"
  BY <1>1, <1>2, EntryIsAsked
<1>4. PICK mode \in Modes \ {"none"} :
          Send(s, mode) /\ (mode = "read" => s.command \in facts)
  BY DEF Retry, Replay, LookUp, Modes
<1>5. mode = "read" => Truth(s.command)
  BY <1>1, <1>4 DEF Inv, EntriesInv, EntryInv
<1>6. CallInv(Sent(s, mode), s.command)
  BY <1>3, <1>5, SentInv
<1>7. call' = [call EXCEPT ![s] = Sent(s, mode)]
  BY <1>4, SendIsSent
<1>8. UNCHANGED <<server, entries, device, refresh, faults>>
  BY DEF Retry, Replay, LookUp
<1> QED BY <1>6, <1>7, <1>8, JustCall

\* An answer to a submit is sound if what it confirms is true.
LEMMA AnsweredInv ==
    ASSUME Inv, NEW s \in Slots, call[s].phase = "missed",
           NEW outcome \in Confirming \cup {"NO_WRITE", "CONFLICT", "REJECTED"},
           NEW seen \in 0 .. revision, NEW receipt \in 0 .. revision,
           outcome \in Confirming => Truth(s.command)
    PROVE  LET n == [call[s] EXCEPT !.phase = "answered", !.outcome = outcome,
                                    !.seen = seen, !.receipt = receipt]
           IN  n \in CallType /\ CallInv(n, s.command)
<1>1. PICK m, c, n :
          /\ m = call[s] /\ c = s.command
          /\ n = [m EXCEPT !.phase = "answered", !.outcome = outcome,
                          !.seen = seen, !.receipt = receipt]
  OBVIOUS
<1>2. /\ m \in CallType /\ CallInv(m, c) /\ told[c] # "new"
      /\ revision \in 0 .. MaxRevision /\ MaxRevision \in Nat
  BY <1>1, RevisionBounded, CallIsAsked DEF Inv, CallsInv
<1>3. seen \in 0 .. MaxRevision /\ receipt \in 0 .. MaxRevision
  BY <1>2
<1>4. n \in CallType
  BY <1>1, <1>2, <1>3 DEF CallType, Phases, CallOutcomes, Confirming
<1>5. m.mode = "submit"
  BY <1>1, <1>2 DEF CallInv
<1>6. /\ n.phase = "answered" /\ n.outcome = outcome /\ n.seen = seen
      /\ n.receipt = receipt /\ n.mode = "submit"
  BY <1>1, <1>2, <1>5 DEF CallType
<1>7. CallInv(n, c)
  BY <1>1, <1>2, <1>4, <1>6 DEF CallInv
<1> QED BY <1>1, <1>4, <1>7

\* The server's answers that change no row of it.
LEMMA AnswersInv ==
    ASSUME Inv, NEW s \in Slots,
           \/ ServerReadsRow(s) \/ ServerReadsLedger(s)
           \/ ServerFindsTwin(s) \/ ServerDeclines(s) \/ ServerStartsOver(s)
    PROVE  Inv'
<1>0. PICK m, c : m = call[s] /\ c = s.command
  OBVIOUS
<1>1. /\ c \in Commands /\ CallInv(m, c) /\ m \in CallType /\ call \in [Slots -> CallType]
      /\ revision \in 0 .. MaxRevision /\ revision \in Nat /\ MaxRevision \in Nat
      /\ ledger[c] \in 0 .. revision
  BY <1>0, RevisionBounded DEF Slots, Inv, CallsInv, ServerInv
<1>2. ledger[c] \in 0 .. MaxRevision
  BY <1>1
<1>3. UNCHANGED <<server, entries, device, refresh, faults>>
  BY DEF ServerReadsRow, ServerReadsLedger, ServerFindsTwin, ServerDeclines, ServerStartsOver
<1>4. told[c] # "new"
  <2>1. m.phase # "idle"
    BY <1>0 DEF ServerReadsRow, ServerReadsLedger, ServerFindsTwin, ServerDeclines, ServerStartsOver
  <2> QED BY <1>0, <2>1, CallIsAsked
<1>5. CASE ServerReadsRow(s)
  <2>1. PICK n : n = [m EXCEPT !.seen = revision,
                              !.phase = IF m.mode = "read" THEN "answered" ELSE "read"]
    OBVIOUS
  <2>2. m.phase = "sent" /\ call' = [call EXCEPT ![s] = n]
    BY <1>0, <1>1, <1>5, <2>1 DEF ServerReadsRow
  <2>3. n \in CallType
    BY <1>1, <2>1 DEF CallType, Phases
  <2>4. m.mode # "none" /\ n.mode = m.mode
    BY <1>1, <2>1, <2>2 DEF CallInv, CallType
  <2>5. CallInv(n, c)
    BY <1>1, <1>4, <2>1, <2>2, <2>3, <2>4 DEF CallInv, CallType, Modes, Lookups
  <2> QED BY <1>0, <1>3, <2>2, <2>5, JustCall
<1>6. CASE ServerReadsLedger(s)
  <2>1. PICK n : n = [m EXCEPT
            !.phase = IF ledger[c] = 0 /\ m.phase = "read" /\ m.mode = "submit"
                      THEN "missed" ELSE "answered",
            !.receipt = ledger[c],
            !.outcome = IF ledger[c] # 0 THEN "ALREADY_APPLIED"
                        ELSE IF m.mode = "submit" THEN "NONE" ELSE "ABSENT"]
    OBVIOUS
  <2>2. m.phase = "read" /\ call' = [call EXCEPT ![s] = n]
    BY <1>0, <1>1, <1>6, <2>1 DEF ServerReadsLedger
  <2>3. n \in CallType
    BY <1>1, <1>2, <2>1 DEF CallType, Phases, CallOutcomes
  <2>4. /\ n.mode = m.mode /\ n.seen = m.seen /\ n.receipt = ledger[c]
        /\ n.phase = IF ledger[c] = 0 /\ m.mode = "submit" THEN "missed" ELSE "answered"
        /\ n.outcome = IF ledger[c] # 0 THEN "ALREADY_APPLIED"
                       ELSE IF m.mode = "submit" THEN "NONE" ELSE "ABSENT"
    BY <1>1, <2>1, <2>2 DEF CallType
  <2>5. CallInv(n, c)
    BY <1>1, <1>4, <2>2, <2>3, <2>4 DEF CallInv, Lookups, Confirming, Truth
  <2> QED BY <1>0, <1>3, <2>2, <2>5, JustCall
<1>7. CASE ServerFindsTwin(s)
  <2>1. PICK outcome, seen, receipt :
            /\ Answer(s, outcome, seen, receipt)
            /\ \/ outcome = "ALREADY_APPLIED" /\ seen = revision /\ receipt = ledger[c]
               \/ outcome = "CONFLICT" /\ seen = call[s].seen /\ receipt = 0
    BY <1>0, <1>7 DEF ServerFindsTwin
  <2>2. seen \in 0 .. revision /\ receipt \in 0 .. revision
    BY <1>0, <1>1, <2>1 DEF CallInv, CallType
  <2>3. call[s].phase = "missed" /\ ledger[c] # 0
    BY <1>0, <1>7 DEF ServerFindsTwin
  <2>4. outcome \in Confirming \cup {"NO_WRITE", "CONFLICT", "REJECTED"} /\ Truth(c)
    BY <2>1, <2>3 DEF Confirming, Truth
  <2>5. PICK n : n = [call[s] EXCEPT !.phase = "answered", !.outcome = outcome,
                                    !.seen = seen, !.receipt = receipt]
    OBVIOUS
  <2>6. call' = [call EXCEPT ![s] = n]
    BY <2>1, <2>5 DEF Answer, Inv, CallsInv
  <2>7. CallInv(n, c)
    BY <1>0, <2>2, <2>3, <2>4, <2>5, AnsweredInv
  <2> QED BY <1>0, <1>3, <2>6, <2>7, JustCall
<1>8. CASE ServerDeclines(s)
  <2>1. PICK outcome :
            /\ Answer(s, outcome, call[s].seen, 0)
            /\ outcome \in {"REJECTED", "NO_WRITE", "HOLDS", "CONFLICT"}
            /\ outcome = "HOLDS" => verdict[c] = "noop" \/ overlap[c] = "same"
    BY <1>0, <1>8 DEF ServerDeclines
  <2>2. call[s].seen \in 0 .. revision /\ 0 \in 0 .. revision
    BY <1>0, <1>1 DEF CallInv, CallType
  <2>3. call[s].phase = "missed"
    BY <1>0, <1>8 DEF ServerDeclines
  <2>4. outcome \in Confirming \cup {"NO_WRITE", "CONFLICT", "REJECTED"}
    BY <2>1 DEF Confirming
  <2>5. outcome \in Confirming => Truth(c)
    BY <2>1 DEF Confirming, Truth
  <2>6. PICK n : n = [call[s] EXCEPT !.phase = "answered", !.outcome = outcome,
                                    !.seen = call[s].seen, !.receipt = 0]
    OBVIOUS
  <2>7. call' = [call EXCEPT ![s] = n]
    BY <2>1, <2>6 DEF Answer, Inv, CallsInv
  <2>8. CallInv(n, c)
    BY <1>0, <2>2, <2>3, <2>4, <2>5, <2>6, AnsweredInv
  <2> QED BY <1>0, <1>3, <2>7, <2>8, JustCall
<1>9. CASE ServerStartsOver(s)
  <2>1. PICK n : n = [m EXCEPT !.phase = "sent"]
    OBVIOUS
  <2>2. m.phase = "missed" /\ call' = [call EXCEPT ![s] = n]
    BY <1>0, <1>1, <1>9, <2>1 DEF ServerStartsOver
  <2>3. n \in CallType
    BY <1>1, <2>1 DEF CallType, Phases
  <2>4. m.mode = "submit" /\ n.mode = "submit" /\ n.phase = "sent" /\ n.outcome = m.outcome
        /\ n.seen = m.seen /\ n.receipt = m.receipt
    BY <1>1, <2>1, <2>2 DEF CallInv, CallType
  <2>5. CallInv(n, c)
    BY <1>1, <1>4, <2>3, <2>4 DEF CallInv
  <2> QED BY <1>0, <1>3, <2>2, <2>5, JustCall
<1> QED BY <1>5, <1>6, <1>7, <1>8, <1>9

-----------------------------------------------------------------------------
(* Steps of the server *)

\* The commit of a command: one more receipt.
LEMMA CommitServer ==
    ASSUME ServerInv, NEW c \in Commands, ledger[c] = 0, Committing(c),
           ledger' = [ledger EXCEPT ![c] = revision + 1], late' \subseteq Commands,
           UNCHANGED <<verdict, foreign>>
    PROVE  ServerInv' /\ Later /\ ledger'[c] = revision + 1
<1>1. /\ revision \in Nat /\ revision' = revision + 1 /\ foreign \in 0 .. MaxForeign
      /\ MaxForeign \in Nat /\ IsFiniteSet(Commands)
  BY OutboxAssumption DEF ServerInv, Committing
<1>2. /\ ledger' \in [Commands -> 0 .. revision'] /\ ledger'[c] = revision + 1
      /\ \A d \in Commands : d # c => ledger'[d] = ledger[d]
  <2>1. 0 .. revision \subseteq 0 .. revision' /\ revision + 1 \in 0 .. revision'
    BY <1>1
  <2> QED BY <2>1 DEF ServerInv
<1>3. Cardinality(Receipts)' = Cardinality(Receipts) + 1
  <2>1. Receipts' = Receipts \cup {c} /\ c \notin Receipts
    BY <1>1, <1>2 DEF Receipts
  <2>2. IsFiniteSet(Receipts)
    BY <1>1, FS_Subset DEF Receipts
  <2> QED BY <2>1, <2>2, FS_AddElement
<1>4. /\ overlap' \in [Commands -> {"none", "same", "clash"}]
      /\ \A d \in Commands : overlap'[d] = "none" => overlap[d] = "none"
  BY DEF Committing, ServerInv
<1>5. \A d \in Commands : Truth(d) => Truth(d)'
  BY <1>1, <1>2, <1>4 DEF Truth
<1>6. Cardinality(Receipts) \in Nat
  BY <1>1, FS_Subset, FS_CardinalityType DEF Receipts
<1>7. revision' = foreign' + Cardinality(Receipts)'
  BY <1>1, <1>3, <1>6 DEF ServerInv
<1> QED BY <1>1, <1>2, <1>4, <1>5, <1>7 DEF ServerInv, Later

\* A step of the server that reaches no client.
LEMMA JustServer ==
    ASSUME Inv, ServerInv', Later, UNCHANGED <<entries, device, call, refresh, faults>>
    PROVE  Inv'
BY EntriesKept, CallsKept, DeviceKept, RefreshesKept DEF Inv

\* A copy that lands after its sender gave up.
LEMMA LateCopyInv ==
    ASSUME Inv, NEW c \in Commands, LateCopy(c)
    PROVE  Inv'
<1>1. ledger[c] = 0 /\ late' \subseteq Commands
  BY DEF LateCopy, Applicable, Inv, ServerInv
<1>2. ServerInv' /\ Later
  BY <1>1, CommitServer DEF LateCopy, Inv
<1> QED BY <1>2, JustServer DEF LateCopy

\* Another device commits: the command it overlaps has no receipt.
LEMMA OtherCommitInv ==
    ASSUME Inv, OtherCommit
    PROVE  Inv'
<1>1. /\ revision \in Nat /\ revision' = revision + 1 /\ foreign \in 0 .. MaxForeign
      /\ foreign' = foreign + 1 /\ foreign' \in 0 .. MaxForeign
      /\ Cardinality(Receipts) \in Nat /\ revision = foreign + Cardinality(Receipts)
  <2>1. IsFiniteSet(Receipts)
    BY OutboxAssumption, FS_Subset DEF Receipts
  <2> QED BY <2>1, FS_CardinalityType, OutboxAssumption DEF Inv, ServerInv, OtherCommit
<1>2. /\ overlap' \in [Commands -> {"none", "same", "clash"}]
      /\ \A d \in Commands : overlap'[d] = "none" => overlap[d] = "none"
  BY DEF OtherCommit, Inv, ServerInv
<1>3. UNCHANGED <<ledger, verdict, late, entries, device, call, refresh, faults>>
  BY DEF OtherCommit
<1>4. ledger' \in [Commands -> 0 .. revision']
  BY <1>1, <1>3 DEF Inv, ServerInv
<1>5. Receipts' = Receipts
  BY <1>3 DEF Receipts
<1>6. ServerInv'
  BY <1>1, <1>2, <1>3, <1>4, <1>5 DEF Inv, ServerInv
<1>7. Later
  BY <1>1, <1>2, <1>3 DEF Later, Truth
<1> QED BY <1>3, <1>6, <1>7, JustServer

\* The commit: the receipt makes the outcome true.
LEMMA ServerCommitsInv ==
    ASSUME Inv, NEW s \in Slots, ServerCommits(s)
    PROVE  Inv'
<1>1. PICK m, c : m = call[s] /\ c = s.command /\ c \in Commands
  BY DEF Slots
<1>2. ledger[c] = 0 /\ late' \subseteq Commands /\ m.phase = "missed"
  BY <1>1 DEF ServerCommits, Applicable, Inv, ServerInv
<1>3. ServerInv' /\ Later /\ ledger'[c] = revision + 1
  BY <1>1, <1>2, CommitServer DEF ServerCommits, Inv
<1>4. UNCHANGED <<entries, device, refresh, faults>> /\ revision' = revision + 1 /\ revision \in Nat
  BY DEF ServerCommits, Committing, Inv, ServerInv
<1>5. EntriesInv' /\ Remembers /\ DeviceInv' /\ RefreshesInv'
  BY <1>3, <1>4, EntriesKept, DeviceKept, RefreshesKept DEF Inv
<1>6. PICK n : n = [m EXCEPT !.phase = "answered", !.outcome = "COMMITTED",
                            !.seen = revision + 1, !.receipt = revision + 1]
  OBVIOUS
<1>7. call' = [call EXCEPT ![s] = n]
  <2>1. Answer(s, "COMMITTED", revision + 1, revision + 1) /\ CallsInv
    BY DEF ServerCommits, Inv
  <2>2. call' = [call EXCEPT ![s] = [call[s] EXCEPT !.phase = "answered", !.outcome = "COMMITTED",
                                        !.seen = revision + 1, !.receipt = revision + 1]]
    BY <2>1 DEF Answer, CallsInv
  <2> QED BY <1>1, <1>6, <2>2
<1>8. /\ m \in CallType /\ m.mode = "submit" /\ told[c] # "new"
      /\ revision' \in 0 .. MaxRevision
  <2>1. m \in CallType /\ m.mode = "submit"
    BY <1>1, <1>2 DEF Inv, CallsInv, CallInv
  <2>2. told[c] # "new"
    BY <1>1, <1>2, CallIsAsked
  <2>3. /\ Receipts' \in SUBSET Commands /\ foreign' \in 0 .. MaxForeign
        /\ revision' = foreign' + Cardinality(Receipts')
    BY <1>3 DEF ServerInv, Receipts
  <2>4. revision' \in 0 .. MaxRevision
    BY <2>3, CommitsBounded
  <2> QED BY <2>1, <2>2, <2>4
<1>9. n \in CallType
  BY <1>4, <1>6, <1>8 DEF CallType, Phases, CallOutcomes
<1>10. /\ n.phase = "answered" /\ n.outcome = "COMMITTED" /\ n.seen = revision'
       /\ n.receipt = revision' /\ n.mode = "submit"
  BY <1>4, <1>6, <1>8 DEF CallType
<1>11. told'[c] # "new" /\ Truth(c)'
  BY <1>3, <1>4, <1>8 DEF entries, Truth
<1>12. CallInv(n, c)'
  BY <1>4, <1>9, <1>10, <1>11 DEF CallInv, Confirming
<1>13. CallsInv'
  BY <1>1, <1>3, <1>5, <1>7, <1>12, OneCall DEF Inv
<1> QED BY <1>3, <1>4, <1>5, <1>13 DEF Inv

-----------------------------------------------------------------------------
(* The outbox *)

\* The entry of one command changes, and what is said of it.
LEMMA OneEntry ==
    ASSUME Inv, NEW c \in Commands, told[c] # "new",
           UNCHANGED <<revision, ledger, verdict, overlap, base>>,
           NEW status \in Statuses, NEW what \in Told \ {"new"},
           outbox' = [outbox EXCEPT ![c] = status],
           told' = [told EXCEPT ![c] = what],
           \/ facts' = facts \/ facts' = facts \ {c} \/ facts' = facts \cup {c},
           what = "open" => status # "absent",
           what = "confirmed" => Truth(c),
           c \in facts' => status # "absent" /\ Truth(c)
    PROVE  EntriesInv' /\ Remembers
<1>1. /\ outbox \in [Commands -> Statuses] /\ told \in [Commands -> Told]
      /\ facts \subseteq Commands /\ base \in [Commands -> 0 .. revision]
      /\ \A d \in Commands : EntryInv(d)
  BY DEF Inv, EntriesInv
<1>2. /\ outbox' \in [Commands -> Statuses] /\ told' \in [Commands -> Told]
      /\ facts' \subseteq Commands /\ base' \in [Commands -> 0 .. revision']
      /\ outbox'[c] = status /\ told'[c] = what
      /\ \A d \in Commands : d # c => /\ outbox'[d] = outbox[d] /\ told'[d] = told[d]
                                      /\ d \in facts' => d \in facts
  BY <1>1
<1>3. \A d \in Commands : Truth(d)' = Truth(d)
  BY DEF Truth
<1>4. ASSUME NEW d \in Commands PROVE EntryInv(d)'
  <2>1. CASE d = c
    BY <1>2, <1>3, <2>1 DEF EntryInv
  <2>2. CASE d # c
    BY <1>1, <1>2, <1>3, <2>2 DEF EntryInv
  <2> QED BY <2>1, <2>2
<1>5. Remembers
  BY <1>2 DEF Remembers
<1> QED BY <1>2, <1>4, <1>5 DEF EntriesInv

\* However an answer settles an entry.
LEMMA SettleEntries ==
    ASSUME Inv, NEW s \in Slots, NEW projected, Settle(s, projected),
           told[s.command] # "new",
           call[s].outcome \in Confirming \cup {"NO_WRITE", "CONFLICT"},
           UNCHANGED <<revision, ledger, verdict, overlap, base>>
    PROVE  EntriesInv' /\ Remembers
<1>1. PICK c, outcome : c = s.command /\ outcome = call[s].outcome
  OBVIOUS
<1>2. /\ c \in Commands /\ outbox[c] \in Statuses /\ told[c] \in Told
      /\ EntryInv(c)
      /\ outcome \in Confirming => Truth(c)
  BY <1>1 DEF Slots, Inv, EntriesInv, CallsInv, CallInv
<1>3. CASE outcome = "CONFLICT"
  <2>1. PICK status, what :
            /\ status = IF outbox[c] = "absent" THEN outbox[c] ELSE "conflict"
            /\ what = IF told[c] = "confirmed" THEN told[c] ELSE "conflict"
    OBVIOUS
  <2>2. /\ outbox' = [outbox EXCEPT ![c] = status] /\ told' = [told EXCEPT ![c] = what]
        /\ facts' = facts
    BY <1>1, <1>3, <2>1 DEF Settle, Patch, Tell
  <2>3. status \in Statuses /\ what \in Told \ {"new"} /\ what # "open"
    BY <1>2, <2>1 DEF Statuses, Told
  <2> QED BY <1>1, <1>2, <2>1, <2>2, <2>3, OneEntry DEF EntryInv
<1>4. CASE outcome = "NO_WRITE"
  <2>1. PICK what : what = IF told[c] = "confirmed" THEN told[c] ELSE "nowrite"
    OBVIOUS
  <2>2. /\ outbox' = [outbox EXCEPT ![c] = "absent"] /\ told' = [told EXCEPT ![c] = what]
        /\ facts' = facts \ {c}
    BY <1>1, <1>4, <2>1 DEF Settle, Remove, Tell
  <2>3. "absent" \in Statuses /\ what \in Told \ {"new"} /\ what # "open"
    BY <1>2, <2>1 DEF Statuses, Told
  <2> QED BY <1>1, <1>2, <2>1, <2>2, <2>3, OneEntry DEF EntryInv
<1>5. CASE outcome \in Confirming /\ projected
  <2>1. PICK what : what = IF told[c] = "confirmed" THEN told[c] ELSE "confirmed"
    OBVIOUS
  <2>2. outcome # "CONFLICT" /\ outcome # "NO_WRITE"
    BY <1>5 DEF Confirming
  <2>3. /\ outbox' = [outbox EXCEPT ![c] = "absent"] /\ told' = [told EXCEPT ![c] = what]
        /\ facts' = facts \ {c}
    BY <1>1, <1>5, <2>1, <2>2 DEF Settle, Remove, Tell
  <2>4. "absent" \in Statuses /\ what \in Told \ {"new"} /\ what = "confirmed"
    BY <1>2, <2>1 DEF Statuses, Told
  <2> QED BY <1>1, <1>2, <1>5, <2>3, <2>4, OneEntry
<1>6. CASE outcome \in Confirming /\ ~projected
  <2>1. PICK status, what :
            /\ status = IF outbox[c] = "absent" THEN outbox[c] ELSE "projection_pending"
            /\ what = IF told[c] = "confirmed" THEN told[c] ELSE "confirmed"
    OBVIOUS
  <2>2. outcome # "CONFLICT" /\ outcome # "NO_WRITE"
    BY <1>6 DEF Confirming
  <2>3. /\ outbox' = [outbox EXCEPT ![c] = status] /\ told' = [told EXCEPT ![c] = what]
        /\ facts' = IF outcome = "HOLDS" /\ outbox[c] # "absent" THEN facts \cup {c} ELSE facts
    BY <1>1, <1>6, <2>1, <2>2 DEF Settle, Patch, Tell
  <2>4. status \in Statuses /\ what \in Told \ {"new"} /\ what = "confirmed"
    BY <1>2, <2>1 DEF Statuses, Told
  <2>5. c \in facts' => status # "absent" /\ Truth(c)
    BY <1>2, <1>6, <2>1, <2>3 DEF EntryInv
  <2>6. facts' = facts \/ facts' = facts \cup {c}
    BY <2>3
  <2> QED BY <1>1, <1>2, <1>6, <2>3, <2>4, <2>5, <2>6, OneEntry
<1> QED BY <1>1, <1>3, <1>4, <1>5, <1>6 DEF Confirming

\* A call is over.
LEMMA Ended ==
    ASSUME Inv, NEW s \in Slots, End(s), ServerInv', Later, EntriesInv', Remembers,
           DeviceInv', UNCHANGED refresh, faults' \in 0 .. MaxFaults
    PROVE  Inv'
<1>1. s.command \in Commands /\ Idle \in CallType /\ CallInv(Idle, s.command)
  BY IdleInv DEF Slots, Inv
<1>2. CallInv(Idle, s.command)'
  BY <1>1, CallKept DEF Inv
<1>3. CallsInv'
  BY <1>2, OneCall DEF Inv, End
<1>4. RefreshesInv'
  BY RefreshesKept DEF Inv
<1> QED BY <1>3, <1>4 DEF Inv

\* A call in one of the last phases has something to settle.
LEMMA LastPhases ==
    ASSUME Inv, NEW s \in Slots, call[s].phase \in {"captured", "installed", "persisted"}
    PROVE  /\ call[s].outcome \in Confirming \cup {"NO_WRITE", "CONFLICT"}
           /\ told[s.command] # "new"
           /\ call[s].seen \in 0 .. revision /\ call[s].receipt \in 0 .. revision
           /\ call[s] \in CallType
BY CallIsAsked DEF Inv, CallsInv, CallInv, CallType

\* A refused command is told as refused, and its entry goes.
LEMMA RefuseInv ==
    ASSUME Inv, NEW s \in Slots, Refuse(s)
    PROVE  Inv'
<1>1. ServerInv' /\ Later
  BY SameServer DEF Refuse, server, Inv, ServerInv
<1>2. EntriesInv' /\ Remembers
  BY LastPhases, SettleEntries DEF Refuse, server
<1>3. DeviceInv'
  BY <1>1, DeviceKept DEF Refuse, Inv
<1>4. End(s) /\ UNCHANGED refresh /\ faults' \in 0 .. MaxFaults
  BY DEF Refuse, Inv
<1> QED BY <1>1, <1>2, <1>3, <1>4, Ended

\* The checkpoint and the entry after a projection: the outcome told is true.
LEMMA FinishInv ==
    ASSUME Inv, NEW s \in Slots, FinishInstall(s) \/ FinishDelta(s)
    PROVE  Inv'
<1>1. ServerInv' /\ Later
  BY SameServer DEF FinishInstall, FinishDelta, server, Inv, ServerInv
<1>2. call[s].phase \in {"captured", "installed", "persisted"}
  BY DEF FinishInstall, FinishDelta
<1>3. PICK projected : Settle(s, projected)
  BY DEF FinishInstall, FinishDelta
<1>4. UNCHANGED <<revision, ledger, verdict, overlap, base>>
  BY DEF FinishInstall, FinishDelta, server
<1>5. EntriesInv' /\ Remembers
  BY <1>2, <1>3, <1>4, LastPhases, SettleEntries
<1>6. cache' = cache /\ checkpoint' \in 0 .. revision
  BY <1>2, LastPhases DEF FinishInstall, FinishDelta, Inv, DeviceInv
<1>7. DeviceInv'
  BY <1>4, <1>6 DEF Inv, DeviceInv
<1>8. End(s) /\ UNCHANGED refresh /\ faults' \in 0 .. MaxFaults
  BY DEF FinishInstall, FinishDelta, Inv
<1> QED BY <1>1, <1>5, <1>7, <1>8, Ended

\* The cache takes a snapshot or a delta.
LEMMA InstallInv ==
    ASSUME Inv, NEW s \in Slots, Install(s) \/ PersistDelta(s)
    PROVE  Inv'
<1>1. ServerInv' /\ Later
  BY SameServer DEF Install, PersistDelta, server, Inv, ServerInv
<1>2. EntriesInv' /\ Remembers
  BY <1>1, EntriesKept DEF Install, PersistDelta, Inv
<1>3. PICK m, c : m = call[s] /\ c = s.command /\ c \in Commands
  BY DEF Slots
<1>4. /\ m.phase = "captured" /\ m \in CallType /\ CallInv(m, c)
      /\ m.seen \in 0 .. revision /\ m.receipt \in 0 .. revision
      /\ m.outcome \in Confirming \cup {"NO_WRITE", "CONFLICT"} /\ told[c] # "new"
      /\ revision \in 0 .. MaxRevision /\ MaxRevision \in Nat
  BY <1>3, LastPhases, RevisionBounded DEF Install, PersistDelta, Inv, CallsInv
<1>5. cache' \in Caches
  <2>1. CASE Install(s)
    <3>1. m.seen \in 0 .. MaxRevision
      BY <1>4
    <3> QED BY <1>3, <2>1, <3>1 DEF Install, Caches
  <2>2. CASE PersistDelta(s)
    <3>1. m.receipt \in 1 .. MaxRevision
      BY <1>3, <1>4, <2>2 DEF PersistDelta, HasDelta
    <3>2. cache.deltas \cup {m.receipt} \in SUBSET (1 .. MaxRevision)
      BY <3>1 DEF Inv, DeviceInv, Caches
    <3> QED BY <1>3, <2>2, <3>2 DEF PersistDelta, Inv, DeviceInv, Caches
  <2> QED BY <2>1, <2>2
<1>6. DeviceInv'
  BY <1>5 DEF DeviceInv, Inv, Install, PersistDelta, server
<1>7. PICK n : /\ n = [m EXCEPT !.phase = n.phase] /\ n.phase \in {"installed", "persisted"}
               /\ call' = [call EXCEPT ![s] = n]
  <2>1. PICK phase : /\ phase \in {"installed", "persisted"}
                     /\ call' = [call EXCEPT ![s].phase = phase]
    BY DEF Install, PersistDelta
  <2>2. PICK n : n = [m EXCEPT !.phase = phase]
    OBVIOUS
  <2>3. n.phase = phase
    BY <1>4, <2>2 DEF CallType
  <2> QED BY <1>3, <2>1, <2>2, <2>3
<1>8. n \in CallType
  BY <1>4, <1>7 DEF CallType, Phases
<1>9. n.mode = m.mode /\ n.outcome = m.outcome /\ n.seen = m.seen /\ n.receipt = m.receipt
  BY <1>4, <1>7 DEF CallType
<1>10. CallInv(n, c)
  BY <1>4, <1>7, <1>8, <1>9 DEF CallInv
<1>11. CallsInv'
  BY <1>1, <1>2, <1>3, <1>7, <1>10, CallKept, OneCall DEF Inv
<1>12. RefreshesInv'
  BY <1>1, RefreshesKept DEF Inv, Install, PersistDelta
<1> QED BY <1>1, <1>2, <1>6, <1>11, <1>12 DEF Inv, Install, PersistDelta

-----------------------------------------------------------------------------
(* Answers, faults and the user *)

\* A lookup after a lost submit found nothing.
LEMMA PatchEntries ==
    ASSUME Inv, NEW c \in Commands, NEW status \in Statuses \ {"absent"}, Patch(c, status),
           UNCHANGED <<revision, ledger, verdict, overlap, base, facts, told>>
    PROVE  EntriesInv' /\ Remembers
<1>1. \A d \in Commands : Truth(d)' = Truth(d)
  BY DEF Truth
<1>2. /\ outbox' \in [Commands -> Statuses]
      /\ \A d \in Commands : outbox'[d] = "absent" <=> outbox[d] = "absent"
  BY DEF Patch, Inv, EntriesInv
<1> QED BY <1>1, <1>2 DEF Inv, EntriesInv, EntryInv, Remembers

\* An entry goes, and the user learns why.
LEMMA RemoveEntries ==
    ASSUME Inv, NEW c \in Commands, told[c] # "new", Remove(c),
           NEW what \in {"rejected", "discarded"}, Tell(c, what),
           UNCHANGED <<revision, ledger, verdict, overlap, base>>
    PROVE  EntriesInv' /\ Remembers
<1>1. PICK said : said = IF told[c] = "confirmed" THEN told[c] ELSE what
  OBVIOUS
<1>2. told' = [told EXCEPT ![c] = said] /\ outbox' = [outbox EXCEPT ![c] = "absent"]
  BY <1>1 DEF Tell, Remove
<1>3. facts' = facts \ {c}
  BY DEF Remove
<1>4. said \in Told \ {"new"} /\ said # "open" /\ (said = "confirmed" => told[c] = "confirmed")
  BY <1>1 DEF Told
<1>5. EntryInv(c)
  BY DEF Inv, EntriesInv
<1>6. "absent" \in Statuses
  BY DEF Statuses
<1> QED BY <1>2, <1>3, <1>4, <1>5, <1>6, OneEntry DEF EntryInv

\* The answer arrives: what becomes of the entry depends on what it says.
LEMMA ArriveInv ==
    ASSUME Inv, NEW s \in Slots, Arrive(s)
    PROVE  Inv'
<1>1. PICK m, c : m = call[s] /\ c = s.command /\ c \in Commands
  BY DEF Slots
<1>2. /\ m.phase = "answered" /\ m \in CallType /\ CallInv(m, c) /\ told[c] # "new"
      /\ UNCHANGED <<server, base, device, refresh, faults>>
  BY <1>1, CallIsAsked DEF Arrive, Inv, CallsInv
<1>3. ServerInv' /\ Later /\ faults' \in 0 .. MaxFaults
  BY <1>2, SameServer DEF server, Inv, ServerInv
<1>4. DeviceInv'
  BY <1>2, <1>3, DeviceKept DEF Inv
<1>5. UNCHANGED <<revision, ledger, verdict, overlap, base>>
  BY <1>2 DEF server
<1>6. CASE End(s) /\ UNCHANGED <<outbox, facts, told>>
  <2>1. EntriesInv' /\ Remembers
    BY <1>2, <1>3, <1>6, EntriesKept DEF entries, Inv
  <2> QED BY <1>2, <1>3, <1>4, <1>6, <2>1, Ended
<1>7. CASE StaysUnknown(c) /\ End(s) /\ UNCHANGED <<facts, told>>
  <2>1. "unknown" \in Statuses \ {"absent"}
    BY DEF Statuses
  <2>2. EntriesInv' /\ Remembers
    BY <1>1, <1>5, <1>7, <2>1, PatchEntries DEF StaysUnknown
  <2> QED BY <1>2, <1>3, <1>4, <1>7, <2>2, Ended
<1>8. CASE Remove(c) /\ Tell(c, "rejected") /\ End(s)
  <2>1. EntriesInv' /\ Remembers
    BY <1>1, <1>2, <1>5, <1>8, RemoveEntries
  <2> QED BY <1>2, <1>3, <1>4, <1>8, <2>1, Ended
<1>9. CASE Settle(s, FALSE) /\ End(s) /\ m.outcome = "CONFLICT"
  <2>1. EntriesInv' /\ Remembers
    BY <1>1, <1>2, <1>5, <1>9, SettleEntries
  <2> QED BY <1>2, <1>3, <1>4, <1>9, <2>1, Ended
<1>10. CASE Send(s, "submit") /\ UNCHANGED <<outbox, facts, told>>
  <2>1. CallInv(Sent(s, "submit"), c)
    BY <1>1, <1>2, SentInv DEF Modes
  <2>2. call' = [call EXCEPT ![s] = Sent(s, "submit")]
    BY <1>10, SendIsSent
  <2> QED BY <1>1, <1>2, <1>10, <2>1, <2>2, JustCall DEF entries
<1>11. CASE /\ call' = [call EXCEPT ![s] = [m EXCEPT !.phase = "sent", !.mode = "read"]]
            /\ UNCHANGED <<outbox, facts, told>>
            /\ m.mode = "submit" /\ m.outcome \notin {"ABSENT", "REJECTED", "CONFLICT"}
  <2>1. PICK n : n = [m EXCEPT !.phase = "sent", !.mode = "read"]
    OBVIOUS
  <2>2. /\ n \in CallType /\ n.phase = "sent" /\ n.mode = "read"
        /\ n.outcome = m.outcome /\ n.seen = m.seen /\ n.receipt = m.receipt
    BY <1>2, <2>1 DEF CallType, Phases, Modes
  <2>3. m.outcome \in Confirming \cup {"NO_WRITE"}
    BY <1>2, <1>11 DEF CallInv, Lookups
  <2>4. CallInv(n, c)
    BY <1>2, <2>2, <2>3 DEF CallInv
  <2> QED BY <1>1, <1>2, <1>11, <2>1, <2>4, JustCall DEF entries
<1>12. CASE /\ call' = [call EXCEPT ![s] =
                   IF m.mode \in {"submit", "read"} THEN [m EXCEPT !.phase = "captured"]
                   ELSE [m EXCEPT !.phase = "captured", !.mode = "receipt",
                                  !.kept = "absent", !.local = cache]]
            /\ UNCHANGED <<outbox, facts, told>>
            /\ m.outcome \notin {"ABSENT", "REJECTED"}
  <2>1. PICK n : n = IF m.mode \in {"submit", "read"} THEN [m EXCEPT !.phase = "captured"]
                     ELSE [m EXCEPT !.phase = "captured", !.mode = "receipt",
                                    !.kept = "absent", !.local = cache]
    OBVIOUS
  <2>2. m.outcome \in Confirming \cup {"NO_WRITE", "CONFLICT"}
    BY <1>2, <1>12 DEF CallInv, Confirming
  <2>3. CASE m.mode \in {"submit", "read"}
    <3>1. n = [m EXCEPT !.phase = "captured"]
      BY <2>1, <2>3
    <3>2. /\ n \in CallType /\ n.phase = "captured" /\ n.mode = m.mode
          /\ n.outcome = m.outcome /\ n.seen = m.seen /\ n.receipt = m.receipt
      BY <1>2, <3>1 DEF CallType, Phases
    <3> QED BY <1>1, <1>2, <1>12, <2>1, <2>2, <3>2, JustCall DEF entries, CallInv
  <2>4. CASE m.mode \notin {"submit", "read"}
    <3>1. n = [m EXCEPT !.phase = "captured", !.mode = "receipt", !.kept = "absent", !.local = cache]
      BY <2>1, <2>4
    <3>2. cache \in Caches
      BY DEF Inv, DeviceInv
    <3>3. /\ n \in CallType /\ n.phase = "captured" /\ n.mode = "receipt"
          /\ n.outcome = m.outcome /\ n.seen = m.seen /\ n.receipt = m.receipt
      BY <1>2, <3>1, <3>2 DEF CallType, Phases, Modes, Statuses
    <3> QED BY <1>1, <1>2, <1>12, <2>1, <2>2, <3>3, JustCall DEF entries, CallInv
  <2> QED BY <2>3, <2>4
<1> QED BY <1>1, <1>6, <1>7, <1>8, <1>9, <1>10, <1>11, <1>12 DEF Arrive

\* A lost answer leaves the entry as unknown.
LEMMA LostInv ==
    ASSUME Inv, NEW s \in Slots, Lost(s)
    PROVE  Inv'
<1>1. PICK m, c : m = call[s] /\ c = s.command /\ c \in Commands
  BY DEF Slots
<1>2. /\ m.phase \in {"sent", "read", "missed", "answered"} /\ m \in CallType /\ CallInv(m, c)
      /\ told[c] # "new"
      /\ UNCHANGED <<revision, ledger, verdict, overlap, foreign, base, device, refresh>>
  BY <1>1, CallIsAsked DEF Lost, Inv, CallsInv
<1>3. late' \subseteq Commands
  BY <1>1 DEF Lost, Inv, ServerInv
<1>4. ServerInv' /\ Later
  BY <1>2, <1>3, SameServer DEF Inv
<1>5. faults' \in 0 .. MaxFaults
  BY OutboxAssumption DEF Lost, Fault, Inv
<1>6. DeviceInv'
  BY <1>2, <1>4, DeviceKept DEF Inv
<1>7. CASE Send(s, "recover") /\ UNCHANGED <<outbox, facts, told>>
  <2>0. PICK n : n = Sent(s, "recover")
    OBVIOUS
  <2>1. CallInv(n, c)
    BY <1>1, <1>2, <2>0, SentInv DEF Modes
  <2>2. call' = [call EXCEPT ![s] = n]
    BY <1>7, <2>0, SendIsSent
  <2>3. EntriesInv' /\ Remembers
    BY <1>2, <1>4, <1>7, EntriesKept DEF entries, Inv
  <2>4. CallInv(n, c)'
    BY <1>1, <1>4, <2>1, <2>3, CallKept DEF Inv
  <2>5. CallsInv'
    BY <1>1, <1>4, <2>2, <2>3, <2>4, OneCall DEF Inv
  <2>6. RefreshesInv'
    BY <1>2, <1>4, RefreshesKept DEF Inv
  <2> QED BY <1>4, <1>5, <1>6, <2>3, <2>5, <2>6 DEF Inv
<1>8. CASE StaysUnknown(c) /\ End(s) /\ UNCHANGED <<facts, told>>
  <2>1. "unknown" \in Statuses \ {"absent"}
    BY DEF Statuses
  <2>2. EntriesInv' /\ Remembers
    BY <1>1, <1>2, <1>8, <2>1, PatchEntries DEF StaysUnknown
  <2> QED BY <1>2, <1>4, <1>5, <1>6, <1>8, <2>2, Ended
<1>9. CASE Settle(s, FALSE) /\ End(s) /\ m.mode = "read"
  <2>1. m.outcome \in Confirming \cup {"NO_WRITE", "CONFLICT"}
    BY <1>2, <1>9 DEF CallInv
  <2>2. EntriesInv' /\ Remembers
    BY <1>1, <1>2, <1>9, <2>1, SettleEntries
  <2> QED BY <1>2, <1>4, <1>5, <1>6, <1>9, <2>2, Ended
<1>10. CASE End(s) /\ UNCHANGED <<outbox, facts, told>>
  <2>1. EntriesInv' /\ Remembers
    BY <1>2, <1>4, <1>10, EntriesKept DEF entries, Inv
  <2> QED BY <1>2, <1>4, <1>5, <1>6, <1>10, <2>1, Ended
<1> QED BY <1>1, <1>7, <1>8, <1>9, <1>10 DEF Lost

\* A request turned away before it was executed.
LEMMA TurnedAwayInv ==
    ASSUME Inv, NEW s \in Slots, TurnedAway(s)
    PROVE  Inv'
<1>1. PICK c : c = s.command /\ c \in Commands
  BY DEF Slots
<1>2. ServerInv' /\ Later
  BY SameServer DEF TurnedAway, server, Inv, ServerInv
<1>3. DeviceInv' /\ faults' \in 0 .. MaxFaults
  BY <1>2, DeviceKept, OutboxAssumption DEF TurnedAway, Fault, Inv
<1>4. EntriesInv' /\ Remembers
  <2>1. CASE Patch(c, "pending")
    <3>1. "pending" \in Statuses \ {"absent"}
      BY DEF Statuses
    <3> QED BY <1>1, <2>1, <3>1, PatchEntries DEF TurnedAway, server
  <2>2. CASE UNCHANGED outbox
    BY <1>2, <2>2, EntriesKept DEF TurnedAway, entries, Inv
  <2> QED BY <1>1, <2>1, <2>2 DEF TurnedAway
<1> QED BY <1>2, <1>3, <1>4, Ended DEF TurnedAway

\* The user gives an entry up.
LEMMA DiscardInv ==
    ASSUME Inv, NEW c \in Commands, Discard(c)
    PROVE  Inv'
<1>1. told[c] # "new"
  BY EntryIsAsked DEF Discard
<1>2. ServerInv' /\ Later
  BY SameServer DEF Discard, server, Inv, ServerInv
<1>3. EntriesInv' /\ Remembers
  BY <1>1, RemoveEntries DEF Discard, server
<1> QED BY <1>2, <1>3, CallsKept, DeviceKept, RefreshesKept DEF Discard, Inv

\* A new intent is in the outbox before anything is sent.
LEMMA StageInv ==
    ASSUME Inv, NEW c \in Commands, NEW v \in Verdicts, Stage(c, v)
    PROVE  /\ ServerInv' /\ EntriesInv' /\ DeviceInv' /\ RefreshesInv'
           /\ \A s \in Slots : s.command = c => call[s] = Idle
           /\ \A m, d : d \in Commands /\ d # c /\ CallInv(m, d) => CallInv(m, d)'
           /\ revision' = revision /\ told'[c] # "new"
           /\ faults' \in 0 .. MaxFaults
<1>1. /\ told[c] = "new" /\ outbox' = [outbox EXCEPT ![c] = "pending"]
      /\ base' = [base EXCEPT ![c] = checkpoint] /\ verdict' = [verdict EXCEPT ![c] = v]
      /\ told' = [told EXCEPT ![c] = "open"]
      /\ UNCHANGED <<revision, ledger, late, foreign, facts, cache, checkpoint, refresh, faults>>
  BY DEF Stage, device
<1>2. PICK how \in {"none", "same", "clash"} : overlap' = [overlap EXCEPT ![c] = how]
  BY DEF Stage
<1>3. ServerInv'
  BY <1>1, <1>2, OutboxAssumption DEF Inv, ServerInv, Receipts
<1>4. \A d \in Commands : d # c => /\ Truth(d)' = Truth(d) /\ told'[d] = told[d]
                                   /\ outbox'[d] = outbox[d]
  BY <1>1, <1>2 DEF Truth, Inv, ServerInv, EntriesInv
<1>5. /\ told'[c] = "open" /\ outbox'[c] = "pending" /\ c \notin facts'
      /\ told' \in [Commands -> Told] /\ outbox' \in [Commands -> Statuses]
      /\ base' \in [Commands -> 0 .. revision'] /\ facts' \subseteq Commands
  BY <1>1 DEF Inv, EntriesInv, EntryInv, DeviceInv, Told, Statuses
<1>6. EntriesInv'
  <2>1. EntryInv(c)'
    BY <1>5 DEF EntryInv
  <2>2. \A d \in Commands : d # c => EntryInv(d)'
    BY <1>1, <1>4 DEF Inv, EntriesInv, EntryInv
  <2> QED BY <1>5, <2>1, <2>2 DEF EntriesInv
<1>7. DeviceInv' /\ RefreshesInv' /\ faults' \in 0 .. MaxFaults
  BY <1>1 DEF Inv, DeviceInv, RefreshesInv
<1>8. \A s \in Slots : s.command = c => call[s] = Idle
  BY <1>1 DEF Inv, CallsInv, CallInv
<1>9. ASSUME NEW m, NEW d \in Commands, d # c, CallInv(m, d) PROVE CallInv(m, d)'
  BY <1>1, <1>4, <1>9 DEF CallInv
<1> QED BY <1>1, <1>3, <1>5, <1>6, <1>7, <1>8, <1>9

\* The calls after it: those of other commands, and one for the new one at most.
LEMMA StagedCalls ==
    ASSUME Inv, NEW c \in Commands, NEW v \in Verdicts, Stage(c, v),
           call' \in [Slots -> CallType],
           \A s \in Slots : \/ call'[s] = call[s]
                            \/ s.command = c /\ \E m : call'[s] = m /\ CallInv(m, c)'
    PROVE  Inv'
<1>1. /\ ServerInv' /\ EntriesInv' /\ DeviceInv' /\ RefreshesInv'
      /\ \A s \in Slots : s.command = c => call[s] = Idle
      /\ \A m, d : d \in Commands /\ d # c /\ CallInv(m, d) => CallInv(m, d)'
      /\ revision' = revision /\ told'[c] # "new"
      /\ faults' \in 0 .. MaxFaults
  BY StageInv
<1>2. Idle \in CallType /\ CallInv(Idle, c)'
  <2>1. Idle \in CallType /\ revision \in Nat
    BY IdleInv DEF Inv, ServerInv
  <2> QED BY <1>1, <2>1 DEF CallInv, Idle, Confirming, Lookups
<1>3. ASSUME NEW s \in Slots, call'[s] = call[s] PROVE CallInv(call[s], s.command)'
  <2>1. PICK m, d : m = call[s] /\ d = s.command /\ d \in Commands /\ CallInv(m, d)
    BY DEF Slots, Inv, CallsInv
  <2>2. CallInv(m, d)'
    BY <1>1, <1>2, <2>1
  <2> QED BY <1>3, <2>1, <2>2
<1>4. ASSUME NEW s \in Slots PROVE CallInv(call[s], s.command)'
  <2>1. CASE call'[s] = call[s]
    BY <1>3, <2>1
  <2>2. CASE s.command = c /\ \E m : call'[s] = m /\ CallInv(m, c)'
    <3>1. PICK m : call'[s] = m /\ CallInv(m, c)'
      BY <2>2
    <3> QED BY <2>2, <3>1
  <2> QED BY <2>1, <2>2
<1>5. CallsInv'
  BY <1>4 DEF CallsInv
<1> QED BY <1>1, <1>5 DEF Inv

\* A new command, sent at once.
LEMMA ExecuteInv ==
    ASSUME Inv, NEW s \in Slots, NEW v \in Verdicts, Execute(s, v)
    PROVE  Inv'
<1>1. PICK c, n : c = s.command /\ c \in Commands /\ n = Sent(s, "submit")
  BY DEF Slots
<1>2. Stage(c, v) /\ call' = [call EXCEPT ![s] = n]
  BY <1>1, SendIsSent DEF Execute
<1>3. n \in CallType
  BY <1>1, SentInv DEF Modes
<1>4. /\ n.phase = "sent" /\ n.mode = "submit" /\ n.outcome = "NONE"
      /\ n.seen = 0 /\ n.receipt = 0
  BY <1>1 DEF Sent, Idle
<1>5. revision \in Nat /\ revision' = revision /\ told'[c] # "new"
  BY <1>1, <1>2, StageInv DEF Inv, ServerInv
<1>6. CallInv(n, c)'
  BY <1>3, <1>4, <1>5 DEF CallInv, Confirming
<1>7. /\ call' \in [Slots -> CallType] /\ call'[s] = n
      /\ \A r \in Slots : r # s => call'[r] = call[r]
  BY <1>2, <1>3 DEF Inv, CallsInv
<1>8. \A r \in Slots : \/ call'[r] = call[r]
                       \/ r.command = c /\ \E m : call'[r] = m /\ CallInv(m, c)'
  BY <1>1, <1>6, <1>7
<1> QED BY <1>1, <1>2, <1>7, <1>8, StagedCalls

\* A new command, kept for later.
LEMMA QueueInv ==
    ASSUME Inv, NEW c \in Commands, NEW v \in Verdicts, Queue(c, v)
    PROVE  Inv'
<1>1. Stage(c, v) /\ call' \in [Slots -> CallType] /\ \A s \in Slots : call'[s] = call[s]
  BY DEF Queue, Inv, CallsInv
<1> QED BY <1>1, StagedCalls

\* The calls of a tab are gone; entries and server stay.
LEMMA ReloadInv ==
    ASSUME Inv, NEW t \in Tabs, Reload(t)
    PROVE  Inv'
<1>1. /\ UNCHANGED <<revision, ledger, verdict, overlap, foreign, entries, device>>
      /\ late' \subseteq Commands
      /\ call' \in [Slots -> CallType]
      /\ \A s \in Slots : call'[s] = Idle \/ call'[s] = call[s]
  <2>1. Idle \in CallType
    BY IdleInv DEF Inv
  <2> QED BY <2>1 DEF Reload, Inv, ServerInv, CallsInv, Slots
<1>2. ServerInv' /\ Later
  BY <1>1, SameServer DEF Inv
<1>3. EntriesInv' /\ Remembers /\ DeviceInv'
  BY <1>1, <1>2, EntriesKept, DeviceKept DEF Inv
<1>4. ASSUME NEW s \in Slots PROVE CallInv(call[s], s.command)'
  <2>1. s.command \in Commands /\ CallInv(Idle, s.command) /\ CallInv(call[s], s.command)
    BY IdleInv DEF Slots, Inv, CallsInv
  <2>2. PICK m : m = call'[s] /\ CallInv(m, s.command)
    BY <1>1, <2>1
  <2>3. CallInv(m, s.command)'
    BY <1>2, <1>3, <2>1, <2>2, CallKept DEF Inv
  <2> QED BY <2>2, <2>3
<1>5. refresh' \in [Tabs -> RefreshType] /\ \A u \in Tabs : refresh'[u].seen <= revision'
  <2>1. NoRefresh \in RefreshType /\ NoRefresh.seen = 0 /\ revision \in Nat
    <3>1. 0 \in 0 .. MaxRevision /\ EmptyCache \in Caches
      BY RevisionBounded DEF EmptyCache, Caches, Inv
    <3> QED BY <3>1 DEF NoRefresh, RefreshType, Inv, ServerInv
  <2>2. refresh' = [refresh EXCEPT ![t] = NoRefresh]
    BY DEF Reload
  <2> QED BY <1>1, <2>1, <2>2 DEF Inv, RefreshesInv
<1>6. faults' \in 0 .. MaxFaults
  BY OutboxAssumption DEF Reload, Fault, Inv
<1> QED BY <1>1, <1>2, <1>3, <1>4, <1>5, <1>6 DEF Inv, CallsInv, RefreshesInv

-----------------------------------------------------------------------------
(* The refresh of the cache *)

\* A refresh moves cache and checkpoint only to what the server has.
LEMMA RefreshInv ==
    ASSUME Inv, NEW t \in Tabs, RefreshStep(t)
    PROVE  Inv'
<1>1. UNCHANGED <<server, entries, call, faults>>
  BY DEF RefreshStep, RefreshStart, RefreshRead, RefreshArrive, RefreshApply, RefreshFinish,
     RefreshStops
<1>2. ServerInv' /\ Later
  BY <1>1, SameServer DEF server, Inv, ServerInv
<1>3. EntriesInv' /\ Remembers /\ CallsInv'
  BY <1>1, <1>2, EntriesKept, CallsKept DEF Inv
<1>4. /\ revision \in 0 .. MaxRevision /\ MaxRevision \in Nat /\ revision' = revision
      /\ checkpoint \in 0 .. revision /\ cache \in Caches
      /\ refresh[t] \in RefreshType /\ refresh[t].seen \in 0 .. revision
      /\ refresh \in [Tabs -> RefreshType] /\ \A u \in Tabs : refresh[u].seen <= revision
  BY <1>1, RevisionBounded DEF server, Inv, DeviceInv, RefreshesInv, RefreshType
<1>5. /\ 0 \in 0 .. MaxRevision /\ EmptyCache \in Caches /\ checkpoint \in 0 .. MaxRevision
      /\ refresh[t].seen \in 0 .. MaxRevision
  BY <1>4 DEF EmptyCache, Caches
<1>6. NoRefresh \in RefreshType /\ NoRefresh.seen = 0
  BY <1>5 DEF NoRefresh, RefreshType
<1>7. cache' \in Caches /\ checkpoint' \in 0 .. revision'
  <2>1. [at |-> refresh[t].seen, deltas |-> {}] \in Caches
    BY <1>5 DEF Caches
  <2> QED BY <1>4, <2>1 DEF RefreshStep, RefreshStart, RefreshRead, RefreshArrive,
          RefreshApply, RefreshFinish, RefreshStops, device
<1>8. PICK n \in RefreshType : refresh' = [refresh EXCEPT ![t] = n] /\ n.seen <= revision
  <2>1. CASE RefreshStart(t)
    <3>1. PICK n : n = [phase |-> "sent", seen |-> 0, local |-> cache, sampled |-> checkpoint]
      OBVIOUS
    <3>2. n \in RefreshType /\ n.seen <= revision
      BY <1>4, <1>5, <3>1 DEF RefreshType
    <3>3. refresh' = [refresh EXCEPT ![t] = n]
      BY <2>1, <3>1 DEF RefreshStart
    <3> QED BY <3>2, <3>3
  <2>2. CASE RefreshRead(t)
    <3>1. PICK n : n = [refresh[t] EXCEPT !.phase = "answered", !.seen = revision]
      OBVIOUS
    <3>2. n \in RefreshType /\ n.seen = revision
      BY <1>4, <3>1 DEF RefreshType
    <3>4. n.seen <= revision
      BY <1>4, <3>2
    <3>3. refresh' = [refresh EXCEPT ![t] = n]
      BY <1>4, <2>2, <3>1 DEF RefreshRead
    <3> QED BY <3>2, <3>3, <3>4
  <2>0. NoRefresh.seen <= revision
    BY <1>4, <1>6
  <2>3. CASE RefreshStops(t)
    BY <1>6, <2>0, <2>3 DEF RefreshStops
  <2>4. CASE refresh' = [refresh EXCEPT ![t].phase = "compared",
                ![t].local = IF checkpoint = refresh[t].sampled THEN @ ELSE cache,
                ![t].sampled = checkpoint]
    <3>1. PICK l, n : /\ l = IF checkpoint = refresh[t].sampled THEN refresh[t].local ELSE cache
                      /\ n = [refresh[t] EXCEPT !.phase = "compared", !.local = l,
                                                !.sampled = checkpoint]
      OBVIOUS
    <3>2. l \in Caches
      BY <1>4, <3>1 DEF RefreshType
    <3>3. n \in RefreshType /\ n.seen <= revision
      BY <1>4, <1>5, <3>1, <3>2 DEF RefreshType
    <3>4. refresh' = [refresh EXCEPT ![t] = n]
      BY <1>4, <2>4, <3>1
    <3> QED BY <3>3, <3>4
  <2>5. CASE RefreshApply(t)
    <3>1. CASE refresh' = [refresh EXCEPT ![t].phase = "installed"]
      <4>1. PICK n : n = [refresh[t] EXCEPT !.phase = "installed"]
        OBVIOUS
      <4>2. n \in RefreshType /\ n.seen <= revision
        BY <1>4, <4>1 DEF RefreshType
      <4>3. refresh' = [refresh EXCEPT ![t] = n]
        BY <1>4, <3>1, <4>1
      <4> QED BY <4>2, <4>3
    <3> QED BY <2>3, <2>5, <3>1 DEF RefreshApply
  <2>6. CASE RefreshFinish(t)
    BY <1>6, <2>0, <2>6 DEF RefreshFinish
  <2> QED BY <2>1, <2>2, <2>3, <2>4, <2>5, <2>6 DEF RefreshStep, RefreshArrive
<1>9. RefreshesInv'
  BY <1>4, <1>8 DEF RefreshesInv
<1> QED BY <1>1, <1>2, <1>3, <1>7, <1>9 DEF Inv, DeviceInv

-----------------------------------------------------------------------------
\* Every step keeps the invariant.
LEMMA NextInv == Inv /\ [Next]_vars => Inv'
<1> SUFFICES ASSUME Inv, [Next]_vars PROVE Inv'
  OBVIOUS
<1>1. ASSUME NEW s \in Slots, NEW v \in Verdicts, Execute(s, v) PROVE Inv'
  BY <1>1, ExecuteInv
<1>2. ASSUME NEW c \in Commands, NEW v \in Verdicts, Queue(c, v) PROVE Inv'
  BY <1>2, QueueInv
<1>3. ASSUME NEW s \in Slots, ServerStep(s) PROVE Inv'
  BY <1>3, AnswersInv, ServerCommitsInv DEF ServerStep
<1>4. ASSUME NEW s \in Slots, AnswerStep(s) PROVE Inv'
  BY <1>4, ArriveInv, InstallInv, RefuseInv, FinishInv DEF AnswerStep
<1>5. ASSUME NEW s \in Slots, Retry(s) \/ Replay(s) \/ LookUp(s) \/ Lost(s) \/ TurnedAway(s)
      PROVE Inv'
  BY <1>5, ReplayInv, LostInv, TurnedAwayInv
<1>6. ASSUME NEW c \in Commands, Discard(c) \/ LateCopy(c) PROVE Inv'
  BY <1>6, DiscardInv, LateCopyInv
<1>7. ASSUME NEW t \in Tabs, Reload(t) PROVE Inv'
  BY <1>7, ReloadInv
<1>8. ASSUME NEW t \in Visible, RefreshStep(t) PROVE Inv'
  BY <1>8, OutboxAssumption, RefreshInv
<1>9. CASE OtherCommit
  BY <1>9, OtherCommitInv
<1>10. CASE UNCHANGED vars
  <2>1. UNCHANGED <<server, entries, device, call, refresh, faults>>
    BY <1>10 DEF vars
  <2>2. ServerInv' /\ Later
    BY <2>1, SameServer DEF server, Inv, ServerInv
  <2> QED BY <2>1, <2>2, JustServer
<1> QED BY <1>1, <1>2, <1>3, <1>4, <1>5, <1>6, <1>7, <1>8, <1>9, <1>10 DEF Next

\* No step moves the checkpoint or the snapshot back.
LEMMA NothingGoesBack ==
    Inv /\ [Next]_vars => checkpoint' >= checkpoint /\ cache'.at >= cache.at
<1> SUFFICES ASSUME Inv, [Next]_vars PROVE checkpoint' >= checkpoint /\ cache'.at >= cache.at
  OBVIOUS
<1>1. checkpoint \in Nat /\ cache.at \in Nat /\ cache \in Caches
  BY RevisionBounded DEF Inv, DeviceInv, Caches
<1>2. CASE UNCHANGED <<cache, checkpoint>>
  BY <1>1, <1>2
<1>3. ASSUME NEW s \in Slots, AnswerStep(s), ~UNCHANGED <<cache, checkpoint>>
      PROVE  checkpoint' >= checkpoint /\ cache'.at >= cache.at
  <2>0. ~Arrive(s) /\ ~Refuse(s)
    BY <1>3 DEF Arrive, Refuse, device
  <2>1. CASE Install(s)
    <3>1. call[s].seen \in Nat
      BY LastPhases, <2>1 DEF Install, Inv, ServerInv
    <3> QED BY <1>1, <2>1, <3>1 DEF Install, SnapshotFits
  <2>2. CASE PersistDelta(s)
    BY <1>1, <2>2 DEF PersistDelta, Caches
  <2>3. CASE FinishInstall(s)
    <3>1. call[s].seen \in Nat
      BY LastPhases, <2>3 DEF FinishInstall, Inv, ServerInv
    <3> QED BY <1>1, <2>3, <3>1 DEF FinishInstall
  <2>4. CASE FinishDelta(s)
    <3>1. call[s].receipt \in Nat
      BY LastPhases, <2>4 DEF FinishDelta, Inv, ServerInv
    <3> QED BY <1>1, <2>4, <3>1 DEF FinishDelta
  <2> QED BY <1>3, <2>0, <2>1, <2>2, <2>3, <2>4 DEF AnswerStep
<1>4. ASSUME NEW t \in Visible, RefreshStep(t), ~UNCHANGED <<cache, checkpoint>>
      PROVE  checkpoint' >= checkpoint /\ cache'.at >= cache.at
  <2>1. refresh[t].seen \in Nat
    BY OutboxAssumption, RevisionBounded DEF Inv, RefreshesInv, RefreshType
  <2>2. RefreshApply(t) \/ RefreshFinish(t)
    BY <1>4 DEF RefreshStep, RefreshStart, RefreshRead, RefreshArrive, RefreshStops, device
  <2>3. CASE RefreshApply(t)
    BY <1>1, <1>4, <2>1, <2>3 DEF RefreshApply, RefreshStops, device
  <2>4. CASE RefreshFinish(t)
    BY <1>1, <2>1, <2>4 DEF RefreshFinish
  <2> QED BY <2>2, <2>3, <2>4
<1>5. ASSUME NEW s \in Slots, ServerStep(s) PROVE UNCHANGED <<cache, checkpoint>>
  BY <1>5 DEF ServerStep, ServerReadsRow, ServerReadsLedger, ServerCommits, ServerFindsTwin,
     ServerDeclines, ServerStartsOver, device
<1>6. ASSUME NEW s \in Slots, NEW v \in Verdicts, Execute(s, v) PROVE UNCHANGED <<cache, checkpoint>>
  BY <1>6 DEF Execute, Stage, device
<1>7. ASSUME NEW c \in Commands, NEW v \in Verdicts, Queue(c, v) PROVE UNCHANGED <<cache, checkpoint>>
  BY <1>7 DEF Queue, Stage, device
<1>8. ASSUME NEW s \in Slots, Retry(s) \/ Replay(s) \/ LookUp(s) \/ Lost(s) \/ TurnedAway(s)
      PROVE UNCHANGED <<cache, checkpoint>>
  BY <1>8 DEF Retry, Replay, LookUp, Lost, TurnedAway, device
<1>9. ASSUME NEW c \in Commands, Discard(c) \/ LateCopy(c) PROVE UNCHANGED <<cache, checkpoint>>
  BY <1>9 DEF Discard, LateCopy, device
<1>10. ASSUME NEW t \in Tabs, Reload(t) PROVE UNCHANGED <<cache, checkpoint>>
  BY <1>10 DEF Reload, device
<1>11. OtherCommit \/ UNCHANGED vars => UNCHANGED <<cache, checkpoint>>
  BY DEF OtherCommit, vars, device
<1> QED BY <1>2, <1>3, <1>4, <1>5, <1>6, <1>7, <1>8, <1>9, <1>10, <1>11 DEF Next

-----------------------------------------------------------------------------
(* Theorems *)

\* The invariant of every behaviour.
LEMMA InvHolds == Spec => []Inv
BY InitInv, NextInv, PTL DEF Spec

\* Every variable keeps its range; the checkpoint never outruns the server.
THEOREM TypeCorrect == Spec => []TypeOK
BY InvHolds, InvImplies, PTL

\* Whatever answers were lost, late or raced by another tab: a change that the
\* user was told to be saved, and that nobody else can have made, has its
\* receipt.
THEOREM WhatIsToldIsTrue == Spec => []ConfirmedIsTrue
BY InvHolds, InvImplies, PTL

\* An intent leaves the outbox only with an outcome that the user is told.
THEOREM IntentsAreKept == Spec => []NoIntentIsForgotten
BY InvHolds, InvImplies, PTL

\* Old answers, refreshes and reloads never move the checkpoint back.
THEOREM CheckpointAdvances == Spec => CheckpointNeverGoesBack
<1>1. Inv /\ [Next]_vars => [checkpoint' >= checkpoint]_vars
  BY NothingGoesBack
<1> QED BY <1>1, InvHolds, PTL DEF Spec, CheckpointNeverGoesBack

\* Nor does a snapshot replace a newer one.
THEOREM SnapshotAdvances == Spec => SnapshotNeverGoesBack
<1>1. Inv /\ [Next]_vars => [cache'.at >= cache.at]_vars
  BY NothingGoesBack
<1> QED BY <1>1, InvHolds, PTL DEF Spec, SnapshotNeverGoesBack
=============================================================================

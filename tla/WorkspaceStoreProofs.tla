------------------------ MODULE WorkspaceStoreProofs ------------------------
(***************************************************************************)
(* Proof that nothing is committed or shown past the grant it was admitted *)
(* under, for any number of handlers, commands, polls and events.          *)
(***************************************************************************)
EXTENDS WorkspaceStore, SequenceTheorems, TLAPS

Entries == [id : Ids \cup {Nobody}, run : BOOLEAN, admitted : Nat]

Reading(b) == b = [rev |-> b.rev, mat |-> b.mat, rows |-> b.rows]
Answer(a) == a = [outcome |-> a.outcome, rev |-> a.rev, rows |-> a.rows]

\* The rows of the store and of the grant, and the functions of the handlers.
\* A grant has one revision more than decisions were made on it.
Shape ==
    /\ Reading(workspace)
    /\ workspace.rev \in Nat
    /\ ledger \in Seq(Entries)
    /\ Len(ledger) = workspace.rev
    /\ grant.rev \in Nat
    /\ until \in Seq(Nat)
    /\ \A n \in DOMAIN until : until[n] <= workspace.rev
    /\ grant.rev = Len(until) + 1
    /\ DOMAIN pc = Handlers /\ DOMAIN call = Handlers
    /\ DOMAIN base = Handlers /\ DOMAIN answer = Handlers

\* What a call or a request was admitted under: a managed command under a
\* revision the grant has or had.
Admission(id, admitted) ==
    /\ id \in Ids \cup {Nobody}
    /\ id \in Managed => admitted \in 1 .. grant.rev
    /\ id \notin Managed => admitted = 0

\* An answer that may be shown to a call as it stands.
Shown(h) ==
    \/ pc[h] = "done"
    \/ pc[h] = "answered" /\ answer[h].outcome = "COMMITTED"

\* What a handler holds: no revision the store has not reached, none with a
\* refusal, and none past its grant once it may be shown.
HandlerInv(h) ==
    /\ pc[h] # "idle" => call[h].id \in Ids
    /\ Admission(call[h].id, call[h].admitted)
    /\ Reading(base[h]) /\ Answer(answer[h])
    /\ base[h].rev \in 0 .. workspace.rev
    /\ answer[h].rev \in 0 .. workspace.rev
    /\ answer[h].outcome \in {"AUTH_FORBIDDEN", "WORKSPACE_CONFLICT"} => answer[h].rev = 0
    /\ pc[h] = "answered" /\ answer[h].outcome = "NOT_ELIGIBLE" => call[h].id \in Polls
    /\ Shown(h) /\ call[h].admitted \in DOMAIN until
       => answer[h].rev <= until[call[h].admitted]

\* A request under way: a managed command takes the guarded route with the
\* grant it was admitted under, and its sender waits for it.
RequestInv(q) ==
    /\ q = [from |-> q.from, id |-> q.id, route |-> q.route, expected |-> q.expected,
            rows |-> q.rows, grant |-> q.grant, admitted |-> q.admitted]
    /\ q.id \in Ids
    /\ Admission(q.id, q.admitted)
    /\ q.id \in Managed => q.route = "managed" /\ q.grant = q.admitted
    /\ q.route = "checkpoint" => q.id \in Polls
    /\ q.from # Nobody =>
           /\ q.from \in Handlers
           /\ pc[q.from] = "waiting"
           /\ q.id = call[q.from].id /\ q.admitted = call[q.from].admitted

\* No handler waits for two requests.
OneEach == \A q1, q2 \in wire : q1.from = q2.from /\ q1.from # Nobody => q1 = q2

LedgerInv ==
    \A r \in DOMAIN ledger :
        ledger[r].id \in Managed =>
            /\ ledger[r].admitted \in 1 .. grant.rev
            /\ ledger[r].admitted \in DOMAIN until => r <= until[ledger[r].admitted]

Inv ==
    /\ Shape
    /\ LedgerInv
    /\ \A h \in Handlers : HandlerInv(h)
    /\ \A q \in wire : RequestInv(q)
    /\ OneEach

-----------------------------------------------------------------------------
\* The invariant says what the property asks.
LEMMA InvImplies == Inv => NothingPastItsGrant
<1> SUFFICES ASSUME Inv, NEW n \in DOMAIN until
             PROVE  /\ \A r \in DOMAIN ledger :
                           ledger[r].id \in Managed /\ ledger[r].admitted = n => r <= until[n]
                    /\ \A h \in Handlers :
                           pc[h] = "done" /\ call[h].admitted = n => answer[h].rev <= until[n]
  BY DEF NothingPastItsGrant
<1> QED BY DEF Inv, LedgerInv, HandlerInv, Shown

\* A domain of the observer, and the grant it does not contain.
LEMMA GrantIsOpen ==
    ASSUME Shape
    PROVE  /\ grant.rev \notin DOMAIN until /\ grant.rev \in Nat \ {0}
           /\ DOMAIN until = 1 .. grant.rev - 1
           /\ \A n \in DOMAIN until : until[n] \in 0 .. workspace.rev
           /\ DOMAIN ledger = 1 .. workspace.rev
<1> until \in Seq(Nat) /\ ledger \in Seq(Entries)
  BY DEF Shape
<1> DOMAIN until = 1 .. Len(until) /\ Len(until) \in Nat
  BY LenProperties
<1> DOMAIN ledger = 1 .. Len(ledger)
  BY LenProperties
<1> \A n \in DOMAIN until : until[n] \in 0 .. workspace.rev
  BY ElementOfSeq DEF Shape
<1> QED BY DEF Shape

\* Nothing has happened at first.
LEMMA InitInv == Init => Inv
<1> SUFFICES ASSUME Init PROVE Inv
  OBVIOUS
<1>1. Shape
  BY EmptySeq DEF Init, Shape, NoBase, Reading
<1>2. LedgerInv
  BY DEF Init, LedgerInv
<1>3. ASSUME NEW h \in Handlers PROVE HandlerInv(h)
  BY StoreConstants DEF Init, HandlerInv, Admission, Reading, Answer, Shown, NoCall, NoBase, NoAnswer,
     Ids
<1> QED BY <1>1, <1>2, <1>3 DEF Inv, Init, OneEach

\* A step of one handler that leaves the store, the grant and the wire alone,
\* and before which it waited for nothing.
LEMMA LocalStep ==
    ASSUME Inv, NEW h \in Handlers, pc[h] # "waiting", UNCHANGED <<workspace, ledger, grant, until, wire>>,
           DOMAIN pc' = Handlers, DOMAIN call' = Handlers,
           DOMAIN base' = Handlers, DOMAIN answer' = Handlers,
           \A g \in Handlers \ {h} : /\ pc'[g] = pc[g] /\ call'[g] = call[g]
                                     /\ base'[g] = base[g] /\ answer'[g] = answer[g],
           HandlerInv(h)'
    PROVE  Inv'
<1>1. Shape' /\ LedgerInv' /\ OneEach'
  BY DEF Inv, Shape, LedgerInv, OneEach
<1>2. ASSUME NEW g \in Handlers, g # h PROVE HandlerInv(g)'
  BY <1>2 DEF Inv, HandlerInv, Admission, Shown
<1>3. ASSUME NEW q \in wire PROVE RequestInv(q)'
  BY DEF Inv, RequestInv, Admission
<1> QED BY <1>1, <1>2, <1>3 DEF Inv

\* A call that ends with an answer that may be shown to it.
LEMMA EndStep ==
    ASSUME Inv, NEW h \in Handlers, pc[h] \notin {"idle", "waiting"},
           UNCHANGED <<workspace, ledger, grant, until, wire, call>>,
           NEW reply, End(h, reply), Answer(reply),
           reply.rev \in 0 .. workspace.rev,
           reply.outcome \in {"AUTH_FORBIDDEN", "WORKSPACE_CONFLICT"} => reply.rev = 0,
           call[h].admitted \in DOMAIN until => reply.rev <= until[call[h].admitted]
    PROVE  Inv'
<1>1. Shape /\ HandlerInv(h)
  BY DEF Inv
<1>2. /\ pc' = [pc EXCEPT ![h] = "done"]
      /\ answer' = [answer EXCEPT ![h] = reply]
      /\ base' = [base EXCEPT ![h] = NoBase]
  BY DEF End, Move
<1>3. HandlerInv(h)'
  BY <1>1, <1>2 DEF Shape, HandlerInv, Admission, Reading, Shown, NoBase, Answer
<1> QED BY <1>1, <1>2, <1>3, LocalStep DEF Shape

\* A refusal shows nothing.
LEMMA FailureStep ==
    ASSUME Inv, NEW h \in Handlers, pc[h] \notin {"idle", "waiting"},
           UNCHANGED <<workspace, ledger, grant, until, wire, call>>,
           NEW code, End(h, Failure(code))
    PROVE  Inv'
<1>1. Shape
  BY DEF Inv
<1>2. Answer(Failure(code)) /\ Failure(code).rev = 0
  BY DEF Answer, Failure, NoAnswer
<1>3. \A n \in DOMAIN until : 0 <= until[n]
  BY <1>1, GrantIsOpen
<1>4. 0 \in 0 .. workspace.rev
  BY <1>1 DEF Shape
<1> HIDE DEF Answer
<1> QED BY <1>2, <1>3, <1>4, EndStep

\* A call begins under the grant as it stands.
LEMMA BeginStep ==
    ASSUME Inv, NEW h \in Handlers, NEW id \in Ids, NEW aware, NEW echo, Begin(h, id, aware, echo)
    PROVE  Inv'
<1>1. Shape /\ HandlerInv(h)
  BY DEF Inv
<1>2. /\ pc[h] # "waiting"
      /\ pc' = [pc EXCEPT ![h] = "readRow"]
      /\ base' = [base EXCEPT ![h] = NoBase]
      /\ answer' = [answer EXCEPT ![h] = NoAnswer]
      /\ call' = [call EXCEPT ![h] =
             [id |-> id, aware |-> aware, echo |-> echo,
              admitted |-> IF id \in Managed THEN grant.rev ELSE 0]]
      /\ UNCHANGED <<workspace, ledger, grant, until, wire>>
  BY DEF Begin, Move, consent
<1>3. Admission(id, IF id \in Managed THEN grant.rev ELSE 0)
  BY <1>1, GrantIsOpen DEF Admission
<1>4. HandlerInv(h)'
  BY <1>1, <1>2, <1>3 DEF Shape, HandlerInv, Admission, Reading, Answer, Shown, NoBase, NoAnswer
<1> QED BY <1>1, <1>2, <1>4, LocalStep DEF Shape

\* A row that is read names the present revision.
LEMMA ReadRowStep ==
    ASSUME Inv, NEW h \in Handlers, ReadRow(h)
    PROVE  Inv'
<1>1. Shape /\ HandlerInv(h)
  BY DEF Inv
<1>2. PICK label : pc' = [pc EXCEPT ![h] = label] /\ label \in {"readRuns", "readBackRuns", "lookup", "told"}
  BY DEF ReadRow, Move
<1>3. /\ pc[h] \notin {"idle", "waiting"}
      /\ base' = [base EXCEPT ![h] = workspace]
      /\ UNCHANGED <<workspace, ledger, grant, until, wire, call, answer>>
  BY DEF ReadRow, store, consent
<1>4. HandlerInv(h)'
  BY <1>1, <1>2, <1>3 DEF Shape, HandlerInv, Admission, Reading, Answer, Shown
<1> QED BY <1>1, <1>2, <1>3, <1>4, LocalStep DEF Shape

\* The pending runs change nothing but the rows that were read.
LEMMA ReadRunsStep ==
    ASSUME Inv, NEW h \in Handlers, ReadRuns(h)
    PROVE  Inv'
<1>1. Shape /\ HandlerInv(h) /\ pc[h] \notin {"idle", "waiting"}
  BY DEF Inv, ReadRuns
<1>2. UNCHANGED <<workspace, ledger, grant, until, wire, call>>
  BY DEF ReadRuns, store, consent
<1>3. CASE ValidWindow(base[h])
  <2>1. PICK rows : base' = [base EXCEPT ![h].rows = rows]
    BY <1>3 DEF ReadRuns
  <2>2. PICK label : pc' = [pc EXCEPT ![h] = label] /\ label \in {"lookup", "told"}
    BY <1>3 DEF ReadRuns, Move
  <2>3. answer' = answer
    BY <1>3 DEF ReadRuns
  <2>4. Reading(base'[h]) /\ base'[h].rev = base[h].rev
    BY <1>1, <2>1 DEF Shape, HandlerInv, Reading
  <2>5. HandlerInv(h)'
    BY <1>1, <1>2, <2>2, <2>3, <2>4 DEF Shape, HandlerInv, Admission, Reading, Answer, Shown
  <2> QED BY <1>1, <1>2, <2>1, <2>2, <2>3, <2>5, LocalStep DEF Shape
<1>4. CASE ~ValidWindow(base[h])
  BY <1>1, <1>2, <1>4, FailureStep DEF ReadRuns
<1> QED BY <1>3, <1>4

\* A lookup changes nothing but where the handler is.
LEMMA LookupStep ==
    ASSUME Inv, NEW h \in Handlers, Lookup(h)
    PROVE  Inv'
<1>1. Shape /\ HandlerInv(h)
  BY DEF Inv
<1>2. PICK label : pc' = [pc EXCEPT ![h] = label] /\ label \in {"told", "evaluate"}
  BY DEF Lookup, Move
<1>3. pc[h] \notin {"idle", "waiting"} /\ UNCHANGED <<workspace, ledger, grant, until, wire, call, base, answer>>
  BY DEF Lookup, store, consent, local
<1>4. HandlerInv(h)'
  BY <1>1, <1>2, <1>3 DEF Shape, HandlerInv, Admission, Shown
<1> QED BY <1>1, <1>2, <1>3, <1>4, LocalStep DEF Shape

\* An authorised call was not admitted under a grant that ended.
LEMMA AuthorizedIsOpen ==
    ASSUME Inv, NEW h \in Handlers, Authorized(h)
    PROVE  call[h].admitted \notin DOMAIN until
<1>1. Shape /\ Admission(call[h].id, call[h].admitted)
  BY DEF Inv, HandlerInv
<1> QED BY <1>1, GrantIsOpen DEF Authorized, Admission

\* A call that answers with what it read, if it is still authorised.
LEMMA ReadAnswerStep ==
    ASSUME Inv, NEW h \in Handlers, pc[h] \notin {"idle", "waiting"},
           UNCHANGED <<workspace, ledger, grant, until, wire, call>>,
           NEW outcome \in {"ALREADY_APPLIED", "NO_WRITE"},
           End(h, IF Authorized(h) THEN Read(h, outcome) ELSE Failure("AUTH_FORBIDDEN"))
    PROVE  Inv'
<1>1. CASE Authorized(h)
  <2>1. HandlerInv(h) /\ call[h].admitted \notin DOMAIN until
    BY <1>1, AuthorizedIsOpen DEF Inv
  <2>2. /\ Answer(Read(h, outcome))
        /\ Read(h, outcome).rev \in 0 .. workspace.rev
        /\ Read(h, outcome).outcome \notin {"AUTH_FORBIDDEN", "WORKSPACE_CONFLICT"}
    BY <2>1 DEF Read, Answer, HandlerInv
  <2>3. End(h, Read(h, outcome))
    BY <1>1
  <2> QED BY <2>1, <2>2, <2>3, EndStep
<1>2. CASE ~Authorized(h)
  BY <1>2, FailureStep
<1> QED BY <1>1, <1>2

\* What is shown was authorised again at that moment.
LEMMA TellStep ==
    ASSUME Inv, NEW h \in Handlers, Tell(h) \/ NoWrite(h)
    PROVE  Inv'
<1>1. pc[h] \notin {"idle", "waiting"} /\ UNCHANGED <<workspace, ledger, grant, until, wire, call>>
  BY DEF Tell, NoWrite, store, consent
<1>2. CASE Tell(h)
  BY <1>1, <1>2, ReadAnswerStep DEF Tell
<1>3. CASE NoWrite(h)
  BY <1>1, <1>3, ReadAnswerStep DEF NoWrite
<1> QED BY <1>2, <1>3

\* A conflict is answered by an end or by a new start.
LEMMA RetryStep ==
    ASSUME Inv, NEW h \in Handlers, Retry(h)
    PROVE  Inv'
<1>1. Shape /\ HandlerInv(h)
  BY DEF Inv
<1>2. pc[h] \notin {"idle", "waiting"} /\ UNCHANGED <<workspace, ledger, grant, until, wire, call>>
  BY DEF Retry, store, consent
<1>3. CASE call[h].id \in Polls \/ attempt[h] = MaxAttempts \/ ~Authorized(h)
  BY <1>2, <1>3, FailureStep DEF Retry
<1>4. CASE ~(call[h].id \in Polls \/ attempt[h] = MaxAttempts \/ ~Authorized(h))
  <2>1. /\ pc' = [pc EXCEPT ![h] = "readRow"]
        /\ base' = [base EXCEPT ![h] = NoBase]
        /\ answer' = [answer EXCEPT ![h] = NoAnswer]
    BY <1>4 DEF Retry, Move
  <2>2. HandlerInv(h)'
    BY <1>1, <1>2, <2>1 DEF Shape, HandlerInv, Admission, Reading, Answer, Shown, NoBase, NoAnswer
  <2> QED BY <1>1, <1>2, <2>1, <2>2, LocalStep DEF Shape
<1> QED BY <1>3, <1>4

\* A known command is answered, or read back.
LEMMA AlreadyAppliedStep ==
    ASSUME Inv, NEW h \in Handlers, AlreadyApplied(h)
    PROVE  Inv'
<1>1. Shape /\ HandlerInv(h)
  BY DEF Inv
<1>2. pc[h] \notin {"idle", "waiting"} /\ UNCHANGED <<workspace, ledger, grant, until, wire, call>>
  BY DEF AlreadyApplied, store, consent
<1>3. CASE ReadsBack(h)
  <2>1. /\ pc' = [pc EXCEPT ![h] = "readBack"]
        /\ base' = [base EXCEPT ![h] = NoBase]
        /\ answer' = [answer EXCEPT ![h] = NoAnswer]
    BY <1>3 DEF AlreadyApplied, Move
  <2>2. HandlerInv(h)'
    BY <1>1, <1>2, <2>1 DEF Shape, HandlerInv, Admission, Reading, Answer, Shown, NoBase, NoAnswer
  <2> QED BY <1>1, <1>2, <2>1, <2>2, LocalStep DEF Shape
<1>4. CASE ~ReadsBack(h) /\ Authorized(h)
  <2>1. End(h, answer[h])
    BY <1>4 DEF AlreadyApplied
  <2>2. call[h].admitted \notin DOMAIN until
    BY <1>4, AuthorizedIsOpen
  <2> QED BY <1>1, <1>2, <2>1, <2>2, EndStep DEF HandlerInv
<1>5. CASE ~ReadsBack(h) /\ ~Authorized(h)
  BY <1>2, <1>5, FailureStep DEF AlreadyApplied
<1> QED BY <1>3, <1>4, <1>5

\* What was committed may be shown: the commit happened under the grant.
LEMMA SucceedStep ==
    ASSUME Inv, NEW h \in Handlers, Succeed(h) \/ Fail(h)
    PROVE  Inv'
<1>1. Shape /\ HandlerInv(h)
  BY DEF Inv
<1>2. pc[h] \notin {"idle", "waiting"} /\ UNCHANGED <<workspace, ledger, grant, until, wire, call>>
  BY DEF Succeed, Fail, store, consent
<1>3. PICK reply : /\ End(h, reply)
                   /\ Answer(reply)
                   /\ reply.rev = answer[h].rev
                   /\ reply.outcome = answer[h].outcome
  <2>1. CASE Succeed(h)
    BY <1>1, <2>1 DEF Succeed, HandlerInv, Answer
  <2>2. CASE Fail(h)
    BY <1>1, <2>2 DEF Fail, HandlerInv
  <2> QED BY <2>1, <2>2
<1>4. \/ answer[h].rev = 0
      \/ pc[h] = "answered" /\ answer[h].outcome = "COMMITTED"
  BY <1>1 DEF Succeed, Fail, HandlerInv
<1>5. call[h].admitted \in DOMAIN until => reply.rev <= until[call[h].admitted]
  BY <1>1, <1>3, <1>4, GrantIsOpen DEF HandlerInv, Shown
<1> QED BY <1>1, <1>2, <1>3, <1>5, EndStep DEF HandlerInv

\* A handler that sent a request waits for it and for no other.
LEMMA SendsOne ==
    ASSUME Inv, NEW h \in Handlers, pc[h] \notin {"idle", "waiting", "done"}, NEW route,
           UNCHANGED <<workspace, ledger, grant, until, call, base>>,
           pc' = [pc EXCEPT ![h] = "waiting"],
           answer' = answer \/ answer' = [answer EXCEPT ![h] = NoAnswer],
           wire' = wire \cup {Request(h, route)},
           call[h].id \in Managed => route = "managed" /\ grant.rev = call[h].admitted,
           route = "checkpoint" => call[h].id \in Polls
    PROVE  Inv'
<1>1. Shape /\ HandlerInv(h)
  BY DEF Inv
<1>2. Shape' /\ LedgerInv'
  BY <1>1 DEF Inv, Shape, LedgerInv
<1>3. ASSUME NEW g \in Handlers PROVE HandlerInv(g)'
  <2>1. HandlerInv(g)
    BY DEF Inv
  <2>2. answer'[g] = answer[g] \/ (answer'[g] = NoAnswer /\ g = h)
    BY <1>1 DEF Shape
  <2>3. pc'[g] = IF g = h THEN "waiting" ELSE pc[g]
    BY <1>1 DEF Shape
  <2>4. answer'[g] = NoAnswer => Answer(answer'[g]) /\ answer'[g].rev = 0
    BY DEF NoAnswer, Answer
  <2>5. 0 \in 0 .. workspace.rev
    BY <1>1 DEF Shape
  <2> QED BY <2>1, <2>2, <2>3, <2>4, <2>5 DEF HandlerInv, Admission, Shown, NoAnswer
<1>4. ASSUME NEW q, q = Request(h, route) PROVE RequestInv(q)'
  BY <1>1, <1>2, <1>4 DEF Shape, HandlerInv, Admission, RequestInv, Request
<1>5. ASSUME NEW q \in wire PROVE RequestInv(q)' /\ q.from # h
  <2>1. RequestInv(q)
    BY DEF Inv
  <2>2. h # Nobody
    BY StoreConstants
  <2>3. q.from # h
    BY <2>1, <2>2 DEF RequestInv
  <2> QED BY <1>1, <2>1, <2>3 DEF Shape, RequestInv, Admission
<1>6. Request(h, route).from = h
  BY DEF Request
<1>7. OneEach'
  BY <1>5, <1>6 DEF Inv, OneEach
<1>8. \A q \in wire' : RequestInv(q)'
  BY <1>4, <1>5
<1> QED BY <1>2, <1>3, <1>7, <1>8 DEF Inv

\* A request carries the admission of its call.
LEMMA SendStep ==
    ASSUME Inv, NEW h \in Handlers, Send(h)
    PROVE  Inv'
<1>1. CASE Authorized(h) /\ (call[h].id \in Polls => holder = call[h].id)
  <2>1. /\ pc[h] = "evaluate" /\ pc' = [pc EXCEPT ![h] = "waiting"]
        /\ wire' = wire \cup {Request(h, Route(h))}
        /\ UNCHANGED <<workspace, ledger, grant, until, call, base, answer>>
    BY <1>1 DEF Send, Move, store, consent
  <2>2. call[h].id \in Managed => Route(h) = "managed" /\ grant.rev = call[h].admitted
    BY <1>1, StoreConstants DEF Route, Authorized
  <2>3. Route(h) = "checkpoint" => call[h].id \in Polls
    BY DEF Route
  <2> QED BY <2>1, <2>2, <2>3, SendsOne
<1>2. CASE ~(Authorized(h) /\ (call[h].id \in Polls => holder = call[h].id))
  <2>1. /\ pc[h] \notin {"idle", "waiting"} /\ End(h, Failure("AUTH_FORBIDDEN"))
        /\ UNCHANGED <<workspace, ledger, grant, until, wire, call>>
    BY <1>2 DEF Send, store, consent
  <2> QED BY <2>1, FailureStep
<1> QED BY <1>1, <1>2

\* The full write of a poll carries no admission.
LEMMA FallBackStep ==
    ASSUME Inv, NEW h \in Handlers, FallBack(h)
    PROVE  Inv'
<1>1. /\ pc[h] = "answered" /\ pc' = [pc EXCEPT ![h] = "waiting"]
      /\ wire' = wire \cup {Request(h, "full")}
      /\ answer' = [answer EXCEPT ![h] = NoAnswer]
      /\ UNCHANGED <<workspace, ledger, grant, until, call, base>>
  BY DEF FallBack, Move, store, consent
<1>2. call[h].id \in Polls
  BY DEF FallBack, Inv, HandlerInv
<1>3. call[h].id \in Ids /\ call[h].id \notin Managed
  BY <1>2, StoreConstants DEF Ids
<1> QED BY <1>1, <1>3, SendsOne

\* The store and the grant grow: what was read stays within them, and so does
\* what was shown.
LEMMA HandlerGrows ==
    ASSUME NEW h, HandlerInv(h), UNCHANGED <<pc[h], call[h], base[h], answer[h], until, grant>>,
           workspace.rev \in Nat, workspace'.rev \in Nat, workspace'.rev >= workspace.rev
    PROVE  HandlerInv(h)'
BY DEF HandlerInv, Admission, Shown

\* A ledger row for the next revision: of a managed command only under the
\* grant that stands.
LEMMA StoreGrows ==
    ASSUME Shape, LedgerInv, NEW e \in Entries,
           ledger' = Append(ledger, e),
           workspace'.rev = workspace.rev + 1, Reading(workspace'),
           UNCHANGED <<grant, until>>,
           DOMAIN pc' = Handlers, DOMAIN call' = Handlers,
           DOMAIN base' = Handlers, DOMAIN answer' = Handlers,
           e.id \in Managed => e.admitted = grant.rev
    PROVE  Shape' /\ LedgerInv'
<1>1. /\ ledger' \in Seq(Entries) /\ Len(ledger') = Len(ledger) + 1
      /\ \A r \in 1 .. Len(ledger) : ledger'[r] = ledger[r]
      /\ ledger'[Len(ledger) + 1] = e
  BY AppendProperties DEF Shape
<1>2. \A n \in DOMAIN until : until[n] <= workspace'.rev
  BY GrantIsOpen DEF Shape
<1>3. Shape'
  BY <1>1, <1>2 DEF Shape
<1>4. DOMAIN ledger' = 1 .. workspace.rev + 1 /\ DOMAIN ledger = 1 .. workspace.rev
  BY <1>1, LenProperties DEF Shape
<1>5. ASSUME NEW r \in DOMAIN ledger', ledger'[r].id \in Managed
      PROVE  /\ ledger'[r].admitted \in 1 .. grant.rev
             /\ ledger'[r].admitted \in DOMAIN until => r <= until[ledger'[r].admitted]
  <2>1. CASE r \in DOMAIN ledger
    BY <1>1, <1>4, <1>5, <2>1 DEF Shape, LedgerInv
  <2>2. CASE r = workspace.rev + 1
    BY <1>1, <1>5, <2>2, GrantIsOpen DEF Shape
  <2> QED BY <1>4, <2>1, <2>2 DEF Shape
<1> QED BY <1>3, <1>5 DEF LedgerInv

\* A drain adds a revision without a command.
LEMMA DrainStep ==
    ASSUME Inv, Drain
    PROVE  Inv'
<1> DEFINE next == workspace.rev + 1
           e == Entry(Nobody, FALSE, 0)
<1>1. /\ workspace' = [rev |-> next, mat |-> next, rows |-> Logical]
      /\ ledger' = Append(ledger, e)
      /\ UNCHANGED <<grant, until, wire, pc, call, base, answer>>
  BY DEF Drain, consent, local
<1>2. e \in Entries /\ e.id \notin Managed
  BY StoreConstants DEF Entries, Entry, Ids
<1>3. workspace'.rev = next /\ Reading(workspace')
  BY <1>1 DEF Reading
<1> HIDE DEF e
<1>4. Shape' /\ LedgerInv'
  BY <1>1, <1>2, <1>3, StoreGrows DEF Inv, Shape
<1>5. \A h \in Handlers : HandlerInv(h)'
  BY <1>1, <1>3, HandlerGrows DEF Inv, Shape
<1>6. \A q \in wire : RequestInv(q)'
  BY <1>1 DEF Inv, RequestInv, Admission
<1> QED BY <1>1, <1>4, <1>5, <1>6 DEF Inv, OneEach

\* A decision ends the revision of the grant at the revision the store is at,
\* which nothing committed or shown before is past.
LEMMA DecideStep ==
    ASSUME Inv, NEW approve, Decide(approve)
    PROVE  Inv'
<1>1. Shape /\ UNCHANGED <<workspace, ledger, wire, pc, call, base, answer>>
  BY DEF Inv, Decide, store, local
<1>2. grant'.rev = grant.rev + 1 /\ until' = Append(until, workspace.rev)
  BY DEF Decide
<1>3. /\ until' \in Seq(Nat) /\ Len(until') = Len(until) + 1
      /\ \A n \in 1 .. Len(until) : until'[n] = until[n]
      /\ until'[grant.rev] = workspace.rev
  BY <1>1, <1>2, AppendProperties DEF Shape
<1>4. Shape'
  BY <1>1, <1>2, <1>3, LenProperties DEF Shape
<1>5. /\ DOMAIN until = 1 .. grant.rev - 1 /\ DOMAIN until' = 1 .. grant.rev
      /\ DOMAIN ledger = 1 .. workspace.rev /\ grant.rev \in Nat \ {0}
      /\ \A n \in DOMAIN until : until'[n] = until[n]
  BY <1>1, <1>2, <1>3, <1>4, GrantIsOpen, LenProperties DEF Shape
<1>6. LedgerInv'
  BY <1>1, <1>2, <1>3, <1>5 DEF Inv, Shape, LedgerInv
<1>7. ASSUME NEW h \in Handlers PROVE HandlerInv(h)'
  <2>1. HandlerInv(h)
    BY DEF Inv
  <2> QED BY <1>1, <1>2, <1>3, <1>5, <2>1 DEF Shape, HandlerInv, Admission, Shown
<1>8. ASSUME NEW q \in wire PROVE RequestInv(q)'
  <2>1. RequestInv(q)
    BY DEF Inv
  <2> QED BY <1>1, <1>2, <1>5, <2>1 DEF Shape, RequestInv, Admission
<1> QED BY <1>1, <1>4, <1>6, <1>7, <1>8 DEF Inv, OneEach

\* Its sender, if it still waits, gets the answer and waits no more.
LEMMA AnsweredStep ==
    ASSUME Inv, NEW q \in wire, NEW reply, Answered(q, reply),
           Shape', LedgerInv', UNCHANGED <<grant, until>>,
           workspace'.rev \in Nat, workspace'.rev >= workspace.rev,
           Answer(reply), reply.rev \in 0 .. workspace'.rev,
           reply.outcome \in {"AUTH_FORBIDDEN", "WORKSPACE_CONFLICT"} => reply.rev = 0,
           reply.outcome = "NOT_ELIGIBLE" => q.id \in Polls,
           reply.outcome = "COMMITTED" => q.admitted \notin DOMAIN until
    PROVE  Inv'
<1>1. Shape /\ RequestInv(q)
  BY DEF Inv
<1>2. wire' = wire \ {q} /\ UNCHANGED <<call, base>>
  BY DEF Answered
<1>3. CASE q.from = Nobody
  <2>1. UNCHANGED <<pc, answer>>
    BY <1>3 DEF Answered
  <2>2. \A h \in Handlers : HandlerInv(h)'
    BY <1>1, <1>2, <2>1, HandlerGrows DEF Inv, Shape
  <2>3. \A r \in wire' : RequestInv(r)'
    BY <1>2, <2>1 DEF Inv, RequestInv, Admission
  <2> QED BY <1>2, <2>2, <2>3 DEF Inv, OneEach
<1>4. CASE q.from # Nobody
  <2> DEFINE h == q.from
  <2>1. /\ h \in Handlers /\ pc[h] = "waiting"
        /\ q.id = call[h].id /\ q.admitted = call[h].admitted
    BY <1>1, <1>4 DEF RequestInv
  <2>2. /\ pc' = [pc EXCEPT ![h] = "answered"]
        /\ answer' = [answer EXCEPT ![h] = reply]
    BY <1>4 DEF Answered
  <2> HIDE DEF h
  <2>3. HandlerInv(h) /\ pc'[h] = "answered" /\ answer'[h] = reply
    BY <1>1, <2>1, <2>2 DEF Inv, Shape
  <2>4. HandlerInv(h)'
    BY <1>1, <1>2, <2>1, <2>3 DEF Shape, HandlerInv, Admission, Shown
  <2>5. ASSUME NEW g \in Handlers, g # h PROVE HandlerInv(g)'
    <3>1. HandlerInv(g) /\ UNCHANGED <<pc[g], call[g], base[g], answer[g]>>
      BY <1>1, <1>2, <2>2, <2>5 DEF Inv, Shape
    <3> QED BY <1>1, <3>1, HandlerGrows DEF Shape
  <2>6. ASSUME NEW r \in wire' PROVE RequestInv(r)'
    <3>1. RequestInv(r) /\ r.from # h
      BY <1>2, <1>4 DEF Inv, OneEach, h
    <3> QED BY <1>1, <1>2, <2>2, <3>1 DEF Shape, RequestInv, Admission
  <2> QED BY <1>2, <2>4, <2>5, <2>6 DEF Inv, OneEach
<1> QED BY <1>3, <1>4

\* A refusal writes nothing.
LEMMA RefusedStep ==
    ASSUME Inv, NEW q \in wire, NEW reply, Refused(q, reply),
           Answer(reply), reply.rev \in 0 .. workspace.rev,
           reply.outcome \in {"AUTH_FORBIDDEN", "WORKSPACE_CONFLICT"} => reply.rev = 0,
           reply.outcome = "NOT_ELIGIBLE" => q.id \in Polls,
           reply.outcome # "COMMITTED"
    PROVE  Inv'
<1>1. Answered(q, reply) /\ UNCHANGED <<workspace, ledger, grant, until, call, base>>
  BY DEF Refused, Answered, store, consent
<1>2. Shape /\ RequestInv(q)
  BY DEF Inv
<1>3. DOMAIN pc' = Handlers /\ DOMAIN answer' = Handlers
  BY <1>1, <1>2 DEF Answered, Shape
<1>4. Shape' /\ LedgerInv'
  BY <1>1, <1>2, <1>3 DEF Inv, Shape, LedgerInv
<1>5. workspace'.rev \in Nat /\ workspace'.rev >= workspace.rev /\ reply.rev \in 0 .. workspace'.rev
  BY <1>1, <1>2 DEF Shape
<1> QED BY <1>1, <1>4, <1>5, AnsweredStep

\* What the RPCs answer when they write nothing.
LEMMA Refusals ==
    ASSUME NEW q \in wire, Inv, NEW outcome, NEW rows,
           \/ Refused(q, Failure(outcome)) /\ outcome \in {"AUTH_FORBIDDEN", "WORKSPACE_CONFLICT"}
           \/ Refused(q, Failure(outcome)) /\ outcome = "NOT_ELIGIBLE" /\ q.id \in Polls
           \/ Refused(q, Reply(outcome, rows)) /\ outcome \in {"ALREADY_APPLIED", "CONFLICT"}
    PROVE  Inv'
<1>1. workspace.rev \in 0 .. workspace.rev /\ 0 \in 0 .. workspace.rev
  BY DEF Inv, Shape
<1>2. /\ Answer(Failure(outcome)) /\ Failure(outcome).rev = 0
      /\ Failure(outcome).outcome = outcome
  BY DEF Answer, Failure, NoAnswer
<1>3. /\ Answer(Reply(outcome, rows)) /\ Reply(outcome, rows).rev = workspace.rev
      /\ Reply(outcome, rows).outcome = outcome
  BY DEF Answer, Reply
<1>4. CASE Refused(q, Failure(outcome)) /\ outcome \in {"AUTH_FORBIDDEN", "WORKSPACE_CONFLICT"}
  BY <1>1, <1>2, <1>4, RefusedStep
<1>5. CASE Refused(q, Failure(outcome)) /\ outcome = "NOT_ELIGIBLE" /\ q.id \in Polls
  BY <1>1, <1>2, <1>5, RefusedStep
<1>6. CASE Refused(q, Reply(outcome, rows)) /\ outcome \in {"ALREADY_APPLIED", "CONFLICT"}
  BY <1>1, <1>3, <1>6, RefusedStep
<1> QED BY <1>4, <1>5, <1>6

\* A request that is granted adds its ledger row.
LEMMA GrantedStep ==
    ASSUME Inv, NEW q \in wire, NEW run \in BOOLEAN, NEW admitted, NEW rows,
           workspace'.rev = workspace.rev + 1, Reading(workspace'),
           ledger' = Append(ledger, Entry(q.id, run, admitted)),
           Answered(q, [outcome |-> "COMMITTED", rev |-> workspace.rev + 1, rows |-> rows]),
           UNCHANGED <<grant, until>>,
           admitted \in Nat, q.id \in Managed => admitted = grant.rev,
           q.admitted \notin DOMAIN until
    PROVE  Inv'
<1> DEFINE reply == [outcome |-> "COMMITTED", rev |-> workspace.rev + 1, rows |-> rows]
           e == Entry(q.id, run, admitted)
<1>1. Shape /\ LedgerInv /\ RequestInv(q)
  BY DEF Inv
<1>2. e \in Entries /\ e.id = q.id /\ e.admitted = admitted
  BY <1>1 DEF Entries, Entry, RequestInv
<1>3. /\ DOMAIN pc' = Handlers /\ DOMAIN call' = Handlers
      /\ DOMAIN base' = Handlers /\ DOMAIN answer' = Handlers
  BY <1>1 DEF Shape, Answered
<1>4. /\ Answer(reply) /\ reply.outcome = "COMMITTED" /\ reply.rev \in 0 .. workspace'.rev
      /\ workspace'.rev \in Nat /\ workspace'.rev >= workspace.rev
  BY <1>1 DEF Answer, Shape
<1>5. Answered(q, reply)
  OBVIOUS
<1>6. ledger' = Append(ledger, e)
  OBVIOUS
<1> HIDE DEF reply, e
<1>7. Shape' /\ LedgerInv'
  BY <1>1, <1>2, <1>3, <1>6, StoreGrows
<1> QED BY <1>4, <1>5, <1>7, AnsweredStep

\* The commit of a managed command meets a grant that stands.
LEMMA CommitStep ==
    ASSUME Inv, NEW q \in wire, Commit(q)
    PROVE  Inv'
<1>1. RequestInv(q) /\ Shape
  BY DEF Inv
<1>2. CASE ~GrantStands(q)
  BY <1>2, Refusals DEF Commit
<1>3. CASE GrantStands(q) /\ Known(q.id)
  BY <1>3, Refusals DEF Commit
<1>4. CASE GrantStands(q) /\ ~Known(q.id) /\ q.expected # workspace.rev
  BY <1>4, Refusals DEF Commit
<1>5. CASE /\ GrantStands(q) /\ ~Known(q.id) /\ q.expected = workspace.rev
           /\ ~Mergeable(q.rows) \/ ~WritesAsSent(q)
  BY <1>5, Refusals DEF Commit
<1>6. CASE /\ GrantStands(q) /\ ~Known(q.id) /\ q.expected = workspace.rev
           /\ ~(~Mergeable(q.rows) \/ ~WritesAsSent(q))
  <2>1. Written(q, Merged(q.rows))
    BY <1>6 DEF Commit
  <2>2. /\ q.id \in Managed => q.admitted = grant.rev
        /\ q.id \notin Managed => q.admitted = 0
        /\ q.admitted \in Nat
    BY <1>1, <1>6, GrantIsOpen DEF RequestInv, Admission, GrantStands
  <2>3. q.admitted \notin DOMAIN until
    BY <1>1, <2>2, GrantIsOpen
  <2>4. /\ workspace'.rev = workspace.rev + 1 /\ Reading(workspace')
        /\ ledger' = Append(ledger, Entry(q.id, FALSE, q.admitted))
        /\ Answered(q, [outcome |-> "COMMITTED", rev |-> workspace.rev + 1,
                        rows |-> Merged(q.rows)])
        /\ UNCHANGED <<grant, until>>
    BY <2>1 DEF Written, Reading, consent
  <2> QED BY <2>2, <2>3, <2>4, GrantedStep
<1> QED BY <1>2, <1>3, <1>4, <1>5, <1>6

\* A checkpoint needs no grant.
LEMMA CheckpointStep ==
    ASSUME Inv, NEW q \in wire, NEW eligible, Checkpoint(q, eligible)
    PROVE  Inv'
<1>1. Shape /\ q.id \in Polls /\ q.id \notin Managed /\ q.admitted = 0
  BY StoreConstants DEF Inv, Checkpoint, RequestInv, Admission
<1>2. CASE holder # q.id
  BY <1>2, Refusals DEF Checkpoint
<1>3. CASE holder = q.id /\ Known(q.id)
  BY <1>3, Refusals DEF Checkpoint
<1>4. CASE holder = q.id /\ ~Known(q.id) /\ q.expected # workspace.rev
  BY <1>4, Refusals DEF Checkpoint
<1>5. CASE /\ holder = q.id /\ ~Known(q.id) /\ q.expected = workspace.rev
           /\ ~eligible \/ workspace.rev - workspace.mat >= MaxPending
  BY <1>1, <1>5, Refusals DEF Checkpoint
<1>6. CASE /\ holder = q.id /\ ~Known(q.id) /\ q.expected = workspace.rev
           /\ ~(~eligible \/ workspace.rev - workspace.mat >= MaxPending)
  <2>1. Checkpointed(q)
    BY <1>6 DEF Checkpoint
  <2>2. /\ workspace' = [workspace EXCEPT !.rev = workspace.rev + 1]
        /\ ledger' = Append(ledger, Entry(q.id, TRUE, 0))
        /\ Answered(q, [outcome |-> "COMMITTED", rev |-> workspace.rev + 1,
                        rows |-> Append(Logical, q.id)])
        /\ UNCHANGED <<grant, until>>
    BY <2>1 DEF Checkpointed, consent
  <2>3. workspace'.rev = workspace.rev + 1 /\ Reading(workspace')
    BY <1>1, <2>2 DEF Shape, Reading
  <2>4. q.admitted \notin DOMAIN until
    BY <1>1, GrantIsOpen
  <2>5. 0 \in Nat /\ TRUE \in BOOLEAN
    OBVIOUS
  <2> QED BY <1>1, <2>2, <2>3, <2>4, <2>5, GrantedStep
<1> QED BY <1>2, <1>3, <1>4, <1>5, <1>6

\* A request whose sender gave up keeps what it was sent under.
LEMMA LoseAnswerStep ==
    ASSUME Inv, NEW h \in Handlers, LoseAnswer(h)
    PROVE  Inv'
<1>1. Shape /\ HandlerInv(h) /\ Nobody \notin Handlers
  BY StoreConstants DEF Inv
<1>2. PICK q \in wire : /\ q.from = h
                        /\ wire' = (wire \ {q}) \cup {[q EXCEPT !.from = Nobody]}
  BY DEF LoseAnswer
<1>3. /\ UNCHANGED <<workspace, ledger, grant, until, call>>
      /\ pc[h] = "waiting" /\ pc' = [pc EXCEPT ![h] = "done"]
      /\ answer' = [answer EXCEPT ![h] = Failure("WORKSPACE_UNAVAILABLE")]
      /\ base' = [base EXCEPT ![h] = NoBase]
  BY DEF LoseAnswer, End, Move, store, consent
<1>4. /\ Answer(Failure("WORKSPACE_UNAVAILABLE")) /\ Failure("WORKSPACE_UNAVAILABLE").rev = 0
      /\ Failure("WORKSPACE_UNAVAILABLE").outcome = "WORKSPACE_UNAVAILABLE"
      /\ Reading(NoBase) /\ NoBase.rev = 0
  BY DEF Answer, Failure, NoAnswer, Reading, NoBase
<1>5. Shape' /\ LedgerInv'
  BY <1>1, <1>3 DEF Inv, Shape, LedgerInv
<1>6. HandlerInv(h)'
  <2>1. /\ pc'[h] = "done" /\ answer'[h] = Failure("WORKSPACE_UNAVAILABLE") /\ base'[h] = NoBase
        /\ call'[h] = call[h]
    BY <1>1, <1>3 DEF Shape
  <2>2. 0 \in 0 .. workspace.rev /\ \A n \in DOMAIN until : 0 <= until[n]
    BY <1>1, GrantIsOpen DEF Shape
  <2> QED BY <1>1, <1>3, <1>4, <2>1, <2>2 DEF HandlerInv, Admission, Shown
<1>7. ASSUME NEW g \in Handlers, g # h PROVE HandlerInv(g)'
  <2>1. HandlerInv(g) /\ UNCHANGED <<pc[g], call[g], base[g], answer[g]>>
    BY <1>1, <1>3, <1>7 DEF Inv, Shape
  <2> QED BY <1>1, <1>3, <2>1, HandlerGrows DEF Shape
<1>8. ASSUME NEW r \in wire, r # q PROVE RequestInv(r)' /\ r.from # h
  <2>1. RequestInv(r) /\ r.from # h
    BY <1>1, <1>2, <1>8 DEF Inv, OneEach
  <2> QED BY <1>1, <1>3, <2>1 DEF Shape, RequestInv, Admission
<1>9. ASSUME NEW r, r = [q EXCEPT !.from = Nobody] PROVE RequestInv(r)' /\ r.from = Nobody
  <2>1. RequestInv(q)
    BY DEF Inv
  <2> QED BY <1>3, <1>9, <2>1 DEF RequestInv, Admission
<1>10. \A r \in wire' : RequestInv(r)'
  BY <1>2, <1>8, <1>9
<1>11. OneEach'
  BY <1>2, <1>8, <1>9 DEF Inv, OneEach
<1>12. \A g \in Handlers : HandlerInv(g)'
  BY <1>6, <1>7
<1> QED BY <1>5, <1>10, <1>11, <1>12 DEF Inv

-----------------------------------------------------------------------------
\* Every step keeps the invariant.
LEMMA NextInv == Inv /\ [Next]_vars => Inv'
<1> SUFFICES ASSUME Inv, [Next]_vars PROVE Inv'
  OBVIOUS
<1>1. ASSUME NEW h \in Handlers, HandlerStep(h) PROVE Inv'
  <2>1. CASE \E id \in Ids, aware, echo \in BOOLEAN : Begin(h, id, aware, echo)
    BY <2>1, BeginStep
  <2>2. CASE ReadRow(h)
    BY <2>2, ReadRowStep
  <2>3. CASE ReadRuns(h)
    BY <2>3, ReadRunsStep
  <2>4. CASE Lookup(h)
    BY <2>4, LookupStep
  <2>5. CASE Tell(h) \/ NoWrite(h)
    BY <2>5, TellStep
  <2>6. CASE Send(h)
    BY <2>6, SendStep
  <2>7. CASE Retry(h)
    BY <2>7, RetryStep
  <2>8. CASE AlreadyApplied(h)
    BY <2>8, AlreadyAppliedStep
  <2>9. CASE Succeed(h) \/ Fail(h)
    BY <2>9, SucceedStep
  <2>10. CASE FallBack(h)
    BY <2>10, FallBackStep
  <2>11. CASE LoseAnswer(h)
    BY <2>11, LoseAnswerStep
  <2>12. CASE Release(h)
    BY <2>12 DEF Release, store, consent, local, Inv, Shape, LedgerInv, HandlerInv, Admission,
       Shown, RequestInv, OneEach
  <2> QED BY <1>1, <2>1, <2>2, <2>3, <2>4, <2>5, <2>6, <2>7, <2>8, <2>9, <2>10, <2>11, <2>12
          DEF HandlerStep
<1>2. ASSUME NEW q \in wire, Commit(q) \/ \E eligible \in BOOLEAN : Checkpoint(q, eligible)
      PROVE Inv'
  BY <1>2, CommitStep, CheckpointStep
<1>3. CASE Drain
  BY <1>3, DrainStep
<1>4. CASE LoseLease
  BY <1>4 DEF LoseLease, store, consent, local, Inv, Shape, LedgerInv, HandlerInv, Admission,
     Shown, RequestInv, OneEach
<1>5. ASSUME NEW approve \in BOOLEAN, Decide(approve) PROVE Inv'
  BY <1>5, DecideStep
<1>6. CASE UNCHANGED vars
  BY <1>6 DEF vars, Inv, Shape, LedgerInv, HandlerInv, Admission, Shown, RequestInv, OneEach
<1> QED BY <1>1, <1>2, <1>3, <1>4, <1>5, <1>6 DEF Next

\* However the owner's decisions fall among the requests of the handlers,
\* nothing is committed and nothing is shown past the grant it was admitted
\* under.
THEOREM GrantsHold == Spec => []NothingPastItsGrant
<1>1. Init => Inv
  BY InitInv
<1>2. Inv /\ [Next]_vars => Inv'
  BY NextInv
<1>3. Inv => NothingPastItsGrant
  BY InvImplies
<1> QED BY <1>1, <1>2, <1>3, PTL DEF Spec
=============================================================================

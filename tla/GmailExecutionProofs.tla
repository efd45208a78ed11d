------------------------ MODULE GmailExecutionProofs ------------------------
(***************************************************************************)
(* Proofs about controlled Gmail runs, for any number of workers,          *)
(* mailboxes, messages, sweeps and faults, any page size and run limit:    *)
(*                                                                         *)
(*   no message is applied twice (OnceOnly);                               *)
(*   the rows and the runs hold what they are declared to (TypeCorrect);   *)
(*   the cursor never passes a message that is not recorded                *)
(*   (CursorCovered) and never goes back (CursorForward);                  *)
(*   a sweep that completes has recorded all it owes (SweepCovers).        *)
(*                                                                         *)
(* The first rests on the revision check of the commit alone, the others   *)
(* on the types, on CoverInv (what the row, the continuation and the batch *)
(* of the lease's holder promise) and on SweepInv (what a sweep promises,  *)
(* whichever run is at it).                                                *)
(***************************************************************************)
EXTENDS GmailExecution, TLAPS, WellFoundedInduction, SequenceTheorems

\* What a run holds agrees with the workspace as long as its revision is the
\* current one: what it read is the workspace, and what its batch counts as new
\* has no record there.
FreshRun(r) ==
    r.current =>
        /\ r.pc = "read" => r.seen = workspace
        /\ r.pc \in {"fetched", "asserted", "stray"} =>
               r.batch.fresh \cap workspace.accounted = {}

\* The fields of a run, and a revision that is current only once it was read.
Fields == {"pc", "kind", "box", "cursor", "cont", "sweep", "profile", "seen", "current", "batch"}
RunShape(r) ==
    /\ r = [f \in Fields |-> r[f]]
    /\ r.current => r.pc \notin {"idle", "vain", "begun"}

Fresh == \A w \in Workers : FreshRun(run[w])

Shape ==
    /\ run = [w \in Workers |-> run[w]]
    /\ observed = [promised |-> observed.promised, twice |-> observed.twice]
    /\ \A w \in Workers : RunShape(run[w])

Inv == Shape /\ Fresh /\ AppliedOnce

-----------------------------------------------------------------------------
(* Facts about single runs *)

\* A run that sleeps holds nothing that could be stale.
LEMMA AsleepIsFine == RunShape(Asleep) /\ FreshRun(Asleep)
BY DEF RunShape, FreshRun, Asleep, Fields

\* What a poll counts as new has no record in the workspace it read.
LEMMA PollFresh ==
    ASSUME NEW w, NEW list, NEW n
    PROVE  PollBatch(w, list, n).fresh \cap run[w].seen.accounted = {}
BY DEF PollBatch, NoBatch

\* The same for a sweep.
LEMMA SweepFresh ==
    ASSUME NEW w, NEW sweep, NEW page
    PROVE  SweepBatch(w, sweep, page).fresh \cap run[w].seen.accounted = {}
BY DEF SweepBatch, NoBatch

\* A step that leaves the workspace alone and the other runs as they are, or
\* with a stale revision, is fine when what it makes of one run is.
LEMMA OneRun ==
    ASSUME Inv, workspace' = workspace, observed'.twice = observed.twice,
           observed' = [promised |-> observed'.promised, twice |-> observed'.twice],
           NEW w \in Workers, NEW r, run' = [run EXCEPT ![w] = r],
           RunShape(r), FreshRun(r)
    PROVE  Inv'
<1>1. \A v \in Workers : run'[v] = IF v = w THEN r ELSE run[v]
  BY DEF Inv, Shape
<1>2. Shape'
  BY <1>1 DEF Inv, Shape, RunShape
<1>3. Fresh'
  BY <1>1 DEF Inv, Fresh, FreshRun
<1> QED BY <1>2, <1>3 DEF Inv, AppliedOnce

\* Reading a page makes a batch whose new messages are new.
LEMMA FetchedIsFine ==
    ASSUME Inv, workspace' = workspace, observed' = observed,
           NEW w \in Workers, NEW batch, run[w].pc = "read",
           batch.fresh \cap run[w].seen.accounted = {}, Fetched(w, batch)
    PROVE  Inv'
<1> DEFINE r == [Asleep EXCEPT !.pc = "fetched", !.kind = run[w].kind,
                               !.box = run[w].box, !.current = run[w].current,
                               !.batch = batch]
<1>1. /\ r = [f \in Fields |-> r[f]]
      /\ r.pc = "fetched" /\ r.current = run[w].current /\ r.batch = batch
  BY DEF Asleep, Fields
<1>2. FreshRun(run[w])
  BY DEF Inv, Fresh
<1>3. RunShape(r) /\ FreshRun(r)
  BY <1>1, <1>2 DEF RunShape, FreshRun
<1>4. run' = [run EXCEPT ![w] = r]
  BY DEF Fetched
<1>5. observed' = [promised |-> observed'.promised, twice |-> observed'.twice]
  BY DEF Inv, Shape
<1> HIDE DEF r
<1> QED BY <1>3, <1>4, <1>5, OneRun

\* A commit under the current revision applies only what is new.
LEMMA LandIsFine ==
    ASSUME Inv, NEW w \in Workers, NEW after, Land(w, after),
           run[w].pc \in {"asserted", "stray"},
           RunShape(after), ~after.current
    PROVE  Inv'
<1>1. run[w].batch.fresh \cap workspace.accounted = {}
  BY DEF Inv, Fresh, FreshRun, Land, SameRevision
<1>2. /\ observed'.twice = {}
      /\ observed' = [promised |-> observed'.promised, twice |-> observed'.twice]
  BY <1>1 DEF Inv, Shape, AppliedOnce, Land
<1>3. \A v \in Workers : run'[v] = IF v = w THEN after ELSE [run[v] EXCEPT !.current = FALSE]
  BY DEF Land
<1>4. \A v \in Workers : RunShape(run'[v]) /\ ~run'[v].current
  <2> SUFFICES ASSUME NEW v \in Workers, v # w
               PROVE  RunShape(run'[v]) /\ ~run'[v].current
    BY <1>3
  <2>1. run'[v] = [run[v] EXCEPT !.current = FALSE] /\ RunShape(run[v])
    BY <1>3 DEF Inv, Shape
  <2> QED BY <2>1 DEF RunShape, Fields
<1>5. Shape'
  BY <1>2, <1>4 DEF Shape, Land
<1>6. Fresh'
  BY <1>4 DEF Fresh, FreshRun
<1> QED BY <1>2, <1>5, <1>6 DEF Inv, AppliedOnce

-----------------------------------------------------------------------------
(* Steps *)

\* At first nobody runs and nothing was applied.
LEMMA InitInv == Init => Inv
<1> SUFFICES ASSUME Init PROVE Inv
  OBVIOUS
<1>1. run = [w \in Workers |-> Asleep] /\ observed = [promised |-> 0, twice |-> {}]
  BY DEF Init
<1>2. Shape
  BY <1>1, AsleepIsFine DEF Shape
<1>3. Fresh
  BY <1>1, AsleepIsFine DEF Fresh
<1> QED BY <1>1, <1>2, <1>3 DEF Inv, AppliedOnce

\* A step that leaves runs, workspace and observer alone disturbs nothing.
LEMMA Idle ==
    ASSUME Inv, run' = run, workspace' = workspace, observed'.twice = observed.twice,
           observed' = [promised |-> observed'.promised, twice |-> observed'.twice]
    PROVE  Inv'
<1>1. Shape'
  BY DEF Inv, Shape, RunShape
<1>2. Fresh'
  BY DEF Inv, Fresh, FreshRun
<1> QED BY <1>1, <1>2 DEF Inv, AppliedOnce

\* A run whose state is changed field by field keeps its shape.
LEMMA Moved ==
    ASSUME NEW r, RunShape(r), NEW pc,
           pc \notin {"idle", "vain", "begun"}
    PROVE  /\ RunShape([r EXCEPT !.pc = pc])
           /\ RunShape([r EXCEPT !.pc = pc, !.current = FALSE])
           /\ [r EXCEPT !.pc = pc].pc = pc
           /\ [r EXCEPT !.pc = pc].current = r.current
           /\ [r EXCEPT !.pc = pc].batch = r.batch
           /\ ~[r EXCEPT !.pc = pc, !.current = FALSE].current
BY DEF RunShape, Fields

\* Steps of others make what was read stale, never fresh.
LEMMA EnvironmentInv == ASSUME Inv, Environment PROVE Inv'
<1>1. observed = [promised |-> observed.promised, twice |-> observed.twice]
  BY DEF Inv, Shape
<1>2. CASE OtherCommit
  <2>1. \A w \in Workers : run'[w] = [run[w] EXCEPT !.current = FALSE]
    BY <1>2 DEF OtherCommit
  <2>2. \A w \in Workers : RunShape(run'[w]) /\ ~run'[w].current
    BY <2>1 DEF Inv, Shape, RunShape, Fields
  <2>3. Shape'
    BY <1>2, <2>2 DEF OtherCommit, Inv, Shape
  <2>4. Fresh'
    BY <2>2 DEF Fresh, FreshRun
  <2> QED BY <1>2, <2>3, <2>4 DEF OtherCommit, Inv, AppliedOnce
<1>3. CASE Relink
  <2>1. observed' = [promised |-> 0, twice |-> observed.twice]
    BY <1>1, <1>3 DEF Relink
  <2> QED BY <1>3, <2>1, Idle DEF Relink
<1>4. CASE Arrive \/ Age \/ Leave \/ Disable \/ Enable \/ Reconnect \/ TouchBinding \/ Expire \/ Request
  <2>1. run' = run /\ workspace' = workspace /\ observed' = observed
    BY <1>4 DEF Arrive, Age, Leave, Disable, Enable, Reconnect, TouchBinding, Expire, Request
  <2> QED BY <1>1, <2>1, Idle
<1> QED BY <1>2, <1>3, <1>4 DEF Environment

\* A run begins with nothing read.
LEMMA BeginInv == ASSUME Inv, NEW w \in Workers, NEW kind, Begin(w, kind) PROVE Inv'
<1> DEFINE r == [Asleep EXCEPT !.pc = IF kind = "poll" \/ Asked THEN "begun" ELSE "vain",
                               !.kind = kind, !.box = binding.box,
                               !.cursor = IF kind = "poll" THEN binding.cursor ELSE NoCursor,
                               !.cont = IF kind = "poll" THEN binding.cont ELSE NoContinuation,
                               !.sweep = IF kind = "sweep" THEN cycle.sweep ELSE NoSweep]
<1>1. r = [f \in Fields |-> r[f]] /\ r.current = FALSE
  BY DEF Asleep, Fields
<1>2. RunShape(r) /\ FreshRun(r)
  BY <1>1 DEF RunShape, FreshRun
<1>3. /\ run' = [run EXCEPT ![w] = r]
      /\ workspace' = workspace /\ observed' = observed
  BY DEF Begin
<1>4. observed = [promised |-> observed.promised, twice |-> observed.twice]
  BY DEF Inv, Shape
<1> HIDE DEF r
<1> QED BY <1>2, <1>3, <1>4, OneRun

\* A step of a run, one way to change it after the other.
LEMMA StepInv == ASSUME Inv, NEW w \in Workers, Step(w) PROVE Inv'
<1>0. /\ observed = [promised |-> observed.promised, twice |-> observed.twice]
      /\ RunShape(run[w]) /\ FreshRun(run[w])
      /\ run = [v \in Workers |-> run[v]]
  BY DEF Inv, Shape, Fresh
<1>1. CASE /\ run' = [run EXCEPT ![w] = Asleep]
           /\ workspace' = workspace /\ observed'.twice = observed.twice
           /\ observed' = [promised |-> observed'.promised, twice |-> observed'.twice]
  BY <1>1, AsleepIsFine, OneRun
<1>2. CASE Dismiss(w)
  BY <1>0, <1>1, <1>2 DEF Dismiss
<1>3. CASE Read(w)
  <2> DEFINE r == [run[w] EXCEPT !.pc = "read", !.seen = workspace, !.current = TRUE,
                                 !.profile = IF run[w].kind = "poll" THEN mail.count ELSE 0]
  <2>1. /\ r = [f \in Fields |-> r[f]]
        /\ r.pc = "read" /\ r.seen = workspace
    BY <1>0 DEF RunShape, Fields
  <2>2. RunShape(r) /\ FreshRun(r)
    BY <2>1 DEF RunShape, FreshRun
  <2>3. /\ run' = [run EXCEPT ![w] = r]
        /\ workspace' = workspace /\ observed' = observed
    BY <1>0, <1>3 DEF Read
  <2> HIDE DEF r
  <2> QED BY <1>0, <2>2, <2>3, OneRun
<1>4. CASE FetchPoll(w)
  <2>1. PICK list, n : Fetched(w, PollBatch(w, list, n))
    BY <1>4 DEF FetchPoll
  <2>2. run[w].pc = "read" /\ workspace' = workspace /\ observed' = observed
    BY <1>4 DEF FetchPoll
  <2> QED BY <2>1, <2>2, PollFresh, FetchedIsFine
<1>5. CASE FetchSweep(w)
  <2>1. PICK sweep, page : Fetched(w, SweepBatch(w, sweep, page))
    BY <1>5 DEF FetchSweep
  <2>2. run[w].pc = "read" /\ workspace' = workspace /\ observed' = observed
    BY <1>5 DEF FetchSweep
  <2> QED BY <2>1, <2>2, SweepFresh, FetchedIsFine
<1>6. CASE AssertLease(w)
  <2> DEFINE r == [run[w] EXCEPT !.pc = "asserted"]
  <2>1. RunShape(r) /\ r.pc = "asserted" /\ r.current = run[w].current /\ r.batch = run[w].batch
    BY <1>0, Moved
  <2>2. FreshRun(r)
    BY <1>0, <1>6, <2>1 DEF FreshRun, AssertLease
  <2>3. /\ run' = [run EXCEPT ![w] = r]
        /\ workspace' = workspace /\ observed' = observed
    BY <1>0, <1>6 DEF AssertLease
  <2> HIDE DEF r
  <2> QED BY <1>0, <2>1, <2>2, <2>3, OneRun
<1>7. CASE NoWrite(w)
  <2> DEFINE r == [run[w] EXCEPT !.pc = "saved"]
  <2>1. RunShape(r) /\ r.pc = "saved"
    BY <1>0, Moved
  <2>2. FreshRun(r)
    BY <2>1 DEF FreshRun
  <2>3. /\ run' = [run EXCEPT ![w] = r]
        /\ workspace' = workspace /\ observed' = observed
    BY <1>0, <1>7 DEF NoWrite
  <2> HIDE DEF r
  <2> QED BY <1>0, <2>1, <2>2, <2>3, OneRun
<1>8. CASE Commit(w)
  <2> DEFINE r == [run[w] EXCEPT !.pc = "saved", !.current = FALSE]
  <2>1. RunShape(r) /\ ~r.current
    BY <1>0, Moved
  <2>2. run[w].pc = "asserted" /\ Land(w, r)
    BY <1>8 DEF Commit
  <2> HIDE DEF r
  <2> QED BY <2>1, <2>2, LandIsFine
<1>9. CASE CommitKnown(w)
  <2> DEFINE r == [run[w] EXCEPT !.pc = "saved", !.current = FALSE]
  <2>1. RunShape(r) /\ ~r.current
    BY <1>0, Moved
  <2>2. FreshRun(r)
    BY <2>1 DEF FreshRun
  <2>3. /\ run' = [run EXCEPT ![w] = r]
        /\ workspace' = workspace /\ observed' = observed
    BY <1>0, <1>9 DEF CommitKnown
  <2> HIDE DEF r
  <2> QED BY <1>0, <2>1, <2>2, <2>3, OneRun
<1>10. CASE Finish(w)
  <2>1. observed'.twice = observed.twice
        /\ observed' = [promised |-> observed'.promised, twice |-> observed'.twice]
    BY <1>0, <1>10 DEF Finish
  <2> QED BY <1>1, <1>10, <2>1 DEF Finish
<1>11. CASE Abandon(w)
  <2>1. workspace' = workspace /\ observed' = observed
    BY <1>11 DEF Abandon
  <2>2. CASE run' = [run EXCEPT ![w] = Asleep]
    BY <1>0, <1>1, <2>1, <2>2
  <2>3. CASE run[w].pc = "asserted" /\ run' = [run EXCEPT ![w].pc = "stray"]
    <3> DEFINE r == [run[w] EXCEPT !.pc = "stray"]
    <3>1. RunShape(r) /\ r.pc = "stray" /\ r.current = run[w].current /\ r.batch = run[w].batch
      BY <1>0, Moved
    <3>2. FreshRun(r)
      BY <1>0, <2>3, <3>1 DEF FreshRun
    <3>3. run' = [run EXCEPT ![w] = r]
      BY <1>0, <2>3
    <3> HIDE DEF r
    <3> QED BY <1>0, <2>1, <3>1, <3>2, <3>3, OneRun
  <2> QED BY <1>11, <2>2, <2>3 DEF Abandon
<1>12. CASE Stray(w)
  <2>1. CASE Land(w, Asleep)
    BY <1>12, <2>1, AsleepIsFine, LandIsFine DEF Stray, Asleep
  <2>2. CASE run' = [run EXCEPT ![w] = Asleep] /\ workspace' = workspace /\ observed' = observed
    BY <1>0, <1>1, <2>2
  <2> QED BY <1>12, <2>1, <2>2 DEF Stray
<1> QED
  BY <1>2, <1>3, <1>4, <1>5, <1>6, <1>7, <1>8, <1>9, <1>10, <1>11, <1>12 DEF Step

\* No message is interpreted as new twice, however runs, late commits and other
\* writers interleave: the revision check of the commit is enough, and the lease
\* is not needed for it.
THEOREM OnceOnly == Spec => []AppliedOnce
<1>1. Init => Inv
  BY InitInv
<1>2. Inv /\ [Next]_vars => Inv'
  <2> SUFFICES ASSUME Inv, [Next]_vars PROVE Inv'
    OBVIOUS
  <2>1. CASE UNCHANGED vars
    BY <2>1, Idle DEF vars, Inv, Shape
  <2>2. CASE Next
    BY <2>2, EnvironmentInv, BeginInv, StepInv DEF Next
  <2> QED BY <2>1, <2>2
<1>3. Inv => AppliedOnce
  BY DEF Inv
<1> QED BY <1>1, <1>2, <1>3, PTL DEF Spec

-----------------------------------------------------------------------------
(* Lists of messages *)

Mails == 1..MaxMail
Places == Positions \cup {NoCursor}

\* A list of members of a set is a list of members of a larger one.
LEMMA WiderList == ASSUME NEW S, NEW T, S \subseteq T, NEW s \in Seq(S) PROVE s \in Seq(T)
<1>1. Len(s) \in Nat /\ s \in [1..Len(s) -> S]
  BY LenProperties
<1>2. s \in [1..Len(s) -> T]
  BY <1>1
<1> QED BY <1>1, <1>2

\* A list is what was read of it and what was left.
LEMMA SplitList ==
    ASSUME NEW S, NEW s \in Seq(S), NEW n \in 0..Len(s)
    PROVE  /\ FirstOf(s, n) \in Seq(S) /\ RestOf(s, n) \in Seq(S)
           /\ Len(RestOf(s, n)) <= Len(s)
           /\ ToSet(FirstOf(s, n)) \subseteq S /\ ToSet(RestOf(s, n)) \subseteq S
           /\ ToSet(s) = ToSet(FirstOf(s, n)) \cup ToSet(RestOf(s, n))
<1> DEFINE f == FirstOf(s, n)
           g == RestOf(s, n)
<1>1. Len(s) \in Nat /\ n \in Nat /\ n <= Len(s)
  BY LenProperties
<1>2. f = SubSeq(s, 1, n)
  BY <1>1 DEF FirstOf
<1>3. f \in Seq(S) /\ Len(f) = n /\ \A i \in 1..n : f[i] = s[i]
  <2>1. \A i \in 1..n : s[i] \in S
    BY <1>1, LenProperties
  <2>2. f \in Seq(S) /\ Len(f) = (IF 1 <= n THEN n - 1 + 1 ELSE 0)
        /\ \A i \in 1..(n - 1 + 1) : f[i] = s[1 + i - 1]
    BY <1>1, <1>2, <2>1, SubSeqProperties
  <2> QED BY <1>1, <2>2
<1>4. g \in Seq(S) /\ Len(g) = Len(s) - n /\ \A i \in 1..(Len(s) - n) : g[i] = s[n + i]
  <2>1. \A i \in (n + 1)..Len(s) : s[i] \in S
    BY <1>1, LenProperties
  <2>2. g \in Seq(S) /\ Len(g) = (IF n + 1 <= Len(s) THEN Len(s) - (n + 1) + 1 ELSE 0)
        /\ \A i \in 1..(Len(s) - (n + 1) + 1) : g[i] = s[n + 1 + i - 1]
    BY <1>1, <2>1, SubSeqProperties DEF RestOf
  <2> QED BY <1>1, <2>2
<1>5. ToSet(f) = {s[i] : i \in 1..n}
  BY <1>3, LenProperties DEF ToSet
<1>6. ToSet(g) = {s[i] : i \in (n + 1)..Len(s)}
  <2>1. DOMAIN g = 1..(Len(s) - n)
    BY <1>4, LenProperties
  <2>2. ToSet(g) = {s[n + i] : i \in 1..(Len(s) - n)}
    BY <1>4, <2>1 DEF ToSet
  <2>3. ASSUME NEW i \in (n + 1)..Len(s) PROVE s[i] \in {s[n + j] : j \in 1..(Len(s) - n)}
    <3>1. i - n \in 1..(Len(s) - n) /\ n + (i - n) = i
      BY <1>1
    <3> QED BY <3>1
  <2>4. \A j \in 1..(Len(s) - n) : n + j \in (n + 1)..Len(s)
    BY <1>1
  <2> QED BY <2>2, <2>3, <2>4
<1>7. ToSet(s) = {s[i] : i \in 1..Len(s)}
  BY LenProperties DEF ToSet
<1>8. \A i \in 1..Len(s) : i \in 1..n \/ i \in (n + 1)..Len(s)
  BY <1>1
<1>9. \A i \in 1..n : i \in 1..Len(s)
  BY <1>1
<1>10. \A i \in (n + 1)..Len(s) : i \in 1..Len(s)
  BY <1>1
<1>11. \A i \in 1..Len(s) : s[i] \in S
  BY LenProperties
<1> HIDE DEF f, g
<1>12. ToSet(s) = ToSet(f) \cup ToSet(g)
  BY <1>5, <1>6, <1>7, <1>8, <1>9, <1>10
<1> QED BY <1>1, <1>3, <1>4, <1>5, <1>6, <1>9, <1>10, <1>11, <1>12 DEF f, g

\* The messages between two positions, in either order, are a list of them.
LEMMA Between ==
    ASSUME NEW from \in Nat, NEW to \in Nat, NEW s \in {Upward(from, to), Downward(from, to)}
    PROVE  /\ s \in Seq((from + 1)..to)
           /\ Len(s) = IF from <= to THEN to - from ELSE 0
           /\ \A i \in 1..Len(s) : s[i] = IF s = Upward(from, to) THEN from + i ELSE to + 1 - i
<1> DEFINE n == IF from <= to THEN to - from ELSE 0
<1>1. n \in Nat /\ 1..(to - from) = 1..n
  OBVIOUS
<1>2. CASE s = Upward(from, to)
  <2>1. s = [i \in 1..n |-> from + i] /\ \A i \in 1..n : from + i \in (from + 1)..to
    BY <1>1, <1>2 DEF Upward
  <2> HIDE DEF n
  <2>2. s \in [1..n -> (from + 1)..to]
    BY <2>1
  <2>3. s \in Seq((from + 1)..to) /\ Len(s) = n
    BY <1>1, <2>2
  <2> QED BY <1>2, <2>1, <2>3 DEF n
<1>3. CASE s = Downward(from, to) /\ s # Upward(from, to)
  <2>1. s = [i \in 1..n |-> to + 1 - i] /\ \A i \in 1..n : to + 1 - i \in (from + 1)..to
    BY <1>1, <1>3 DEF Downward
  <2> HIDE DEF n
  <2>2. s \in [1..n -> (from + 1)..to]
    BY <2>1
  <2>3. s \in Seq((from + 1)..to) /\ Len(s) = n
    BY <1>1, <2>2
  <2> QED BY <1>3, <2>1, <2>3 DEF n
<1> QED BY <1>2, <1>3
\* The first page of such a list: where it goes on, everything before is on it.
LEMMA FirstPage ==
    ASSUME NEW from \in Nat, NEW to \in Nat, NEW n \in Nat, NEW down \in BOOLEAN
    PROVE  LET s == IF down THEN Downward(from, to) ELSE Upward(from, to)
               f == FirstOf(s, n)
           IN  /\ f \in Seq((from + 1)..to) /\ Len(f) <= n
               /\ \A m \in (from + 1)..to :
                    (IF down THEN m > to - n ELSE m <= from + n) => m \in ToSet(f)
<1> DEFINE s == IF down THEN Downward(from, to) ELSE Upward(from, to)
           k == IF n < Len(s) THEN n ELSE Len(s)
           f == FirstOf(s, n)
<1>1. /\ s \in Seq((from + 1)..to)
      /\ Len(s) = IF from <= to THEN to - from ELSE 0
  BY Between
<1>2. \A i \in 1..Len(s) : s[i] = IF down THEN to + 1 - i ELSE from + i
  <2>1. ASSUME NEW i \in 1..Len(s) PROVE i \in 1..(to - from)
    BY <1>1, <2>1
  <2>2. CASE down
    BY <2>1, <2>2 DEF Downward
  <2>3. CASE ~down
    BY <2>1, <2>3 DEF Upward
  <2> QED BY <2>2, <2>3
<1> HIDE DEF s
<1>3. k \in 0..Len(s) /\ k <= n /\ f = FirstOf(s, k)
  BY <1>1 DEF FirstOf
<1>4. f \in Seq((from + 1)..to) /\ Len(f) = k /\ \A i \in 1..k : f[i] = s[i]
  <2>1. \A i \in 1..k : s[i] \in (from + 1)..to
    BY <1>1, <1>3, LenProperties
  <2>2. f = SubSeq(s, 1, k)
    BY DEF FirstOf
  <2>3. f \in Seq((from + 1)..to) /\ Len(f) = (IF 1 <= k THEN k - 1 + 1 ELSE 0)
        /\ \A i \in 1..(k - 1 + 1) : f[i] = s[1 + i - 1]
    BY <1>1, <1>3, <2>1, <2>2, SubSeqProperties
  <2> QED BY <1>1, <1>3, <2>3
<1>5. ASSUME NEW m \in (from + 1)..to, IF down THEN m > to - n ELSE m <= from + n
      PROVE  m \in ToSet(f)
  <2> DEFINE i == IF down THEN to + 1 - m ELSE m - from
  <2>1. i \in 1..Len(s) /\ i <= n
    BY <1>1, <1>5
  <2>2. i \in 1..k /\ s[i] = m
    BY <1>2, <2>1
  <2>3. i \in DOMAIN f /\ f[i] = m
    BY <1>4, <2>2, LenProperties
  <2> QED BY <2>3 DEF ToSet
<1> QED BY <1>3, <1>4, <1>5 DEF s

\* A page of Gmail's history holds messages that arrived; those after the
\* position that are not on it come after the next page's position.
LEMMA HistoryPageIs ==
    ASSUME BoundsAssumption, mail.count \in Positions, NEW from \in Positions
    PROVE  LET p == HistoryPage(from)
           IN  /\ p = [ids |-> p.ids, page |-> p.page]
               /\ p.ids \in Seq(1..mail.count) /\ Len(p.ids) <= PageSize
               /\ p.page \in Pages
               /\ \A m \in 1..mail.count :
                    m > from => m \in ToSet(p.ids) \/ (p.page # NoPage /\ m > p.page.at)
<1> DEFINE p == HistoryPage(from)
           f == FirstOf(Upward(from, mail.count), PageSize)
<1>1. /\ from \in Nat /\ mail.count \in Nat /\ PageSize \in Nat /\ PageSize > 0
      /\ from <= MaxMail /\ mail.count <= MaxMail /\ MaxMail \in Nat
  BY DEF Positions, BoundsAssumption
<1>2. /\ f \in Seq((from + 1)..mail.count) /\ Len(f) <= PageSize
      /\ \A m \in (from + 1)..mail.count : m <= from + PageSize => m \in ToSet(f)
  BY <1>1, FirstPage, FALSE \in BOOLEAN
<1>3. /\ p.ids = f /\ p = [ids |-> p.ids, page |-> p.page]
      /\ p.page = IF from + PageSize < mail.count
                  THEN [at |-> from + PageSize, low |-> 0] ELSE NoPage
  BY DEF HistoryPage
<1>4. f \in Seq(1..mail.count)
  <2> DEFINE later == (from + 1)..mail.count
             all == 1..mail.count
  <2>1. later \subseteq all
    BY <1>1
  <2>2. f \in Seq(later)
    BY <1>2
  <2> HIDE DEF f, later, all
  <2>3. f \in Seq(all)
    BY <2>1, <2>2, WiderList
  <2> QED BY <2>3 DEF all
<1>5. p.page \in Pages /\ (from + PageSize < mail.count => p.page # NoPage /\ p.page.at = from + PageSize)
  BY <1>1, <1>3 DEF Pages, NoPage, Positions
<1>6. ASSUME NEW m \in 1..mail.count, m > from, m \notin ToSet(p.ids)
      PROVE  p.page # NoPage /\ m > p.page.at
  <2>1. m \in (from + 1)..mail.count
    BY <1>1, <1>6
  <2>2. m > from + PageSize
    BY <1>1, <1>2, <1>3, <1>6, <2>1
  <2> QED BY <1>1, <1>5, <2>1, <2>2
<1> HIDE DEF p, f
<1> QED BY <1>2, <1>3, <1>4, <1>5, <1>6 DEF p

\* The bounds of a page of the window's listing.
FallbackTop(token) == IF token = NoPage THEN mail.count ELSE token.at
FallbackLow(token) == IF token = NoPage THEN mail.old ELSE token.low

\* The same for that listing, newest first: those within the bounds that are not
\* on the page are on the pages ahead.
LEMMA FallbackPageIs ==
    ASSUME BoundsAssumption, mail.count \in Positions, mail.old \in Positions, NEW token \in Pages
    PROVE  LET p == FallbackPage(token)
           IN  /\ p = [ids |-> p.ids, page |-> p.page]
               /\ p.ids \in Seq(Mails) /\ Len(p.ids) <= PageSize
               /\ p.page \in Pages
               /\ p.page # NoPage => p.page.low = FallbackLow(token)
               /\ \A m \in Nat : FallbackLow(token) < m /\ m <= FallbackTop(token)
                    => m \in ToSet(p.ids) \/ (p.page # NoPage /\ m <= p.page.at)
<1> DEFINE p == FallbackPage(token)
           low == FallbackLow(token)
           top == FallbackTop(token)
           f == FirstOf(Downward(low, top), PageSize)
<1>0. low \in Positions /\ top \in Positions
  BY DEF FallbackLow, FallbackTop, Pages
<1>1. /\ low \in Nat /\ top \in Nat /\ PageSize \in Nat /\ PageSize > 0
      /\ low <= MaxMail /\ top <= MaxMail /\ MaxMail \in Nat
  BY <1>0 DEF Positions, BoundsAssumption
<1>3. /\ p.ids = f /\ p = [ids |-> p.ids, page |-> p.page]
      /\ p.page = IF low + PageSize < top
                  THEN [at |-> top - PageSize, low |-> low] ELSE NoPage
  BY DEF FallbackPage, FallbackLow, FallbackTop
<1> HIDE DEF low, top
<1>2. /\ f \in Seq((low + 1)..top) /\ Len(f) <= PageSize
      /\ \A m \in (low + 1)..top : m > top - PageSize => m \in ToSet(f)
  BY <1>1, FirstPage, TRUE \in BOOLEAN
<1>4. f \in Seq(Mails)
  <2>1. (low + 1)..top \subseteq Mails
    BY <1>1 DEF Mails
  <2> HIDE DEF f
  <2> QED BY <1>2, <2>1, WiderList
<1>5. /\ p.page \in Pages
      /\ low + PageSize < top => p.page # NoPage /\ p.page.at = top - PageSize
      /\ p.page # NoPage => p.page.low = low
  BY <1>1, <1>3 DEF Pages, NoPage, Positions
<1>6. ASSUME NEW m \in Nat, low < m, m <= top, m \notin ToSet(p.ids)
      PROVE  p.page # NoPage /\ m <= p.page.at
  <2>1. m \in (low + 1)..top
    BY <1>1, <1>6
  <2>2. ~(m > top - PageSize)
    BY <1>1, <1>2, <1>3, <1>6, <2>1
  <2> QED BY <1>1, <1>5, <2>1, <2>2
<1> HIDE DEF p, f
<1> QED BY <1>2, <1>3, <1>4, <1>5, <1>6 DEF p, low, top
\* A nonempty set of messages has a newest one.
LEMMA NewestExists ==
    ASSUME NEW n \in Nat, NEW S \in SUBSET (0..n), S # {}
    PROVE  Max(S) \in S /\ \A m \in S : Max(S) >= m
<1> DEFINE T == {n - m : m \in S}
<1>1. T \subseteq Nat /\ T # {}
  <2>1. \A m \in S : n - m \in Nat
    OBVIOUS
  <2> QED BY <2>1
<1>2. PICK x \in T : \A y \in T : ~(<<y, x>> \in OpToRel(<, Nat))
  BY <1>1, NatLessThanWellFounded, WFMin
<1>3. PICK newest \in S : x = n - newest
  OBVIOUS
<1>4. \A m \in S : newest >= m
  <2> SUFFICES ASSUME NEW m \in S, m > newest PROVE FALSE
    OBVIOUS
  <2>1. n - m \in T /\ n - m < x
    BY <1>3
  <2>2. <<n - m, x>> \in OpToRel(<, Nat)
    BY <1>1, <2>1 DEF OpToRel
  <2> QED BY <1>2, <2>1, <2>2
<1> QED BY <1>4 DEF Max

\* Where a page of a sweep begins.
SweepTop(token) == IF token = 0 THEN mail.count ELSE token

\* A page of a sweep: what its query matches is on the page or begins, with the
\* message its token names, the pages ahead.
LEMMA SweepPageIs ==
    ASSUME BoundsAssumption, mail.count \in Positions, NEW token \in Positions
    PROVE  LET p == SweepPage(token)
           IN  /\ p.ids \subseteq Mails
               /\ p.page \in Positions
               /\ \A m \in (1..SweepTop(token)) \ mail.gone :
                    m \in p.ids \/ (p.page # 0 /\ m <= p.page)
<1> DEFINE p == SweepPage(token)
           left == (1..SweepTop(token)) \ mail.gone
           ids == Newest(left, PageSize)
<1>1. SweepTop(token) \in Positions /\ MaxMail \in Nat
  BY DEF SweepTop, BoundsAssumption
<1>2. left \in SUBSET (0..MaxMail) /\ left \subseteq Mails
  BY <1>1 DEF Positions, Mails
<1>3. ids \subseteq left
  BY DEF Newest
<1>4. /\ p.ids = ids
      /\ p.page = IF left = ids THEN 0 ELSE Max(left \ ids)
  BY DEF SweepPage, SweepTop
<1> HIDE DEF p, left, ids
<1>5. CASE left = ids
  <2>1. p.ids = left /\ p.page = 0 /\ 0 \in Positions
    BY <1>1, <1>4, <1>5 DEF Positions
  <2>2. \A m \in left : m \in p.ids
    BY <2>1
  <2> QED BY <1>2, <2>1, <2>2 DEF p, left
<1>6. CASE left # ids
  <2>1. left \ ids # {} /\ left \ ids \in SUBSET (0..MaxMail)
    BY <1>2, <1>3, <1>6
  <2>2. p.page \in left \ ids /\ \A m \in left \ ids : p.page >= m
    BY <1>1, <1>4, <1>6, <2>1, NewestExists
  <2>3. \A m \in left : m \in ids \/ (p.page # 0 /\ m <= p.page)
    BY <1>2, <2>2 DEF Mails
  <2> QED BY <1>2, <1>3, <1>4, <2>2, <2>3 DEF p, left, Mails, Positions
<1> QED BY <1>5, <1>6 DEF p, left
-----------------------------------------------------------------------------
(* Types *)

Lists == {s \in Seq(Mails) : Len(s) <= PageSize}
ContType == [mode : {"none", "history", "fallback"}, page : Pages, pending : Places, ids : Lists]
SweepType == [start : Nat, since : Positions, page : Positions, ids : SUBSET Mails]
NameType == [start : Nat, page : Positions, ids : SUBSET Mails]
CommandType == [name : NameType, complete : BOOLEAN]
GapType == [box : 1..MaxBoxes, cursor : Places, low : Positions]
BatchType ==
    [ids : SUBSET Message, fresh : SUBSET Message, gaps : SUBSET GapType, boundary : BOOLEAN,
     sweeps : SUBSET CommandType, proofs : SUBSET Nat, write : BOOLEAN, complete : BOOLEAN,
     floor : Positions, cursor : Places, cont : ContType, sweep : SweepType]
WorkspaceType ==
    [accounted : SUBSET Message, gaps : SUBSET GapType, backfilled : BOOLEAN,
     sweeps : SUBSET CommandType, proofs : SUBSET Nat]
Stages == {"idle", "vain", "begun", "read", "fetched", "asserted", "saved", "stray"}
RunType ==
    [pc : Stages, kind : {"poll", "sweep"}, box : 1..MaxBoxes, cursor : Places, cont : ContType,
     sweep : SweepType, profile : Positions, seen : WorkspaceType, current : BOOLEAN,
     batch : BatchType]

\* A sweep has a number that was given out.
Numbered(s, n) == s = NoSweep \/ s.start \in 1..n
RunNumbered(r, n) ==
    /\ Numbered(r.sweep, n)
    /\ r.batch.proofs \subseteq 1..n
    /\ r.kind = "sweep" /\ r.pc \in {"fetched", "asserted", "saved"}
         => r.batch.sweep.start \in 1..n
    /\ r.batch.fresh \subseteq r.batch.ids

Types ==
    /\ mail \in [count : Positions, expired : Positions, old : Positions, gone : SUBSET Mails]
    /\ binding \in [box : 1..MaxBoxes, enabled : BOOLEAN, cursor : Places, cont : ContType]
    /\ cycle \in [requested : Nat, sweep : SweepType, begun : Nat, completed : SUBSET Nat]
    /\ cycle.completed \subseteq 1..cycle.begun
    /\ Numbered(cycle.sweep, cycle.begun)
    /\ lease \in [holder : Workers \cup {Nobody}, live : BOOLEAN, fresh : BOOLEAN]
    /\ workspace \in WorkspaceType
    /\ workspace.proofs \subseteq 1..cycle.begun
    /\ run \in [Workers -> RunType]
    /\ \A w \in Workers : RunNumbered(run[w], cycle.begun)
    /\ faults \in 0..MaxFaults
    /\ observed \in [promised : Positions, twice : SUBSET Message]

\* The constant records are of their types.
LEMMA ConstantTypes ==
    ASSUME BoundsAssumption
    PROVE  /\ 0 \in Positions /\ 1 \in 1..MaxBoxes
           /\ NoPage \in Pages /\ NoContinuation \in ContType /\ NoSweep \in SweepType
           /\ NoBatch \in BatchType /\ Nothing \in WorkspaceType /\ Asleep \in RunType
           /\ \A n : RunNumbered(Asleep, n)
<1>1. 0 \in Positions /\ 1 \in 1..MaxBoxes /\ PageSize \in Nat /\ NoCursor \in Places
  BY DEF BoundsAssumption, Positions, Places
<1>2. <<>> \in Lists
  BY <1>1 DEF Lists
<1>3. NoPage \in Pages
  BY <1>1 DEF NoPage, Pages
<1>4. NoContinuation \in ContType
  BY <1>1, <1>2, <1>3 DEF NoContinuation, ContType
<1>5. NoSweep \in SweepType
  BY <1>1 DEF NoSweep, SweepType
<1>6. NoBatch \in BatchType
  BY <1>1, <1>4, <1>5 DEF NoBatch, BatchType
<1>7. Nothing \in WorkspaceType
  BY DEF Nothing, WorkspaceType
<1>8. Asleep \in RunType
  BY <1>1, <1>4, <1>5, <1>6, <1>7 DEF Asleep, RunType, Stages
<1>9. \A n : RunNumbered(Asleep, n)
  BY DEF RunNumbered, Numbered, Asleep, NoBatch
<1> QED BY <1>1, <1>3, <1>4, <1>5, <1>6, <1>7, <1>8, <1>9

\* At first nothing is held.
LEMMA InitTypes == ASSUME BoundsAssumption, Init PROVE Types
<1>1. /\ mail = [count |-> 0, expired |-> 0, old |-> 0, gone |-> {}]
      /\ binding = [box |-> 1, enabled |-> TRUE, cursor |-> NoCursor, cont |-> NoContinuation]
      /\ cycle = [requested |-> 0, sweep |-> NoSweep, begun |-> 0, completed |-> {}]
      /\ lease = Unleased /\ workspace = Nothing /\ faults = 0
      /\ run = [w \in Workers |-> Asleep]
      /\ observed = [promised |-> 0, twice |-> {}]
  BY DEF Init
<1>2. NoCursor \in Places /\ 0 \in Nat /\ 0 \in 0..MaxFaults
  BY DEF Places, BoundsAssumption
<1>3. mail \in [count : Positions, expired : Positions, old : Positions, gone : SUBSET Mails]
  BY <1>1, ConstantTypes
<1>4. binding \in [box : 1..MaxBoxes, enabled : BOOLEAN, cursor : Places, cont : ContType]
  BY <1>1, <1>2, ConstantTypes
<1>5. cycle \in [requested : Nat, sweep : SweepType, begun : Nat, completed : SUBSET Nat]
  BY <1>1, <1>2, ConstantTypes
<1>6. lease \in [holder : Workers \cup {Nobody}, live : BOOLEAN, fresh : BOOLEAN]
  BY <1>1 DEF Unleased
<1>7. observed \in [promised : Positions, twice : SUBSET Message]
  BY <1>1, ConstantTypes
<1>8. run \in [Workers -> RunType] /\ \A w \in Workers : RunNumbered(run[w], cycle.begun)
  BY <1>1, ConstantTypes
<1>9. /\ cycle.completed \subseteq 1..cycle.begun /\ Numbered(cycle.sweep, cycle.begun)
      /\ workspace.proofs \subseteq 1..cycle.begun
  BY <1>1 DEF Numbered, Nothing
<1> QED BY <1>1, <1>2, <1>3, <1>4, <1>5, <1>6, <1>7, <1>8, <1>9, ConstantTypes DEF Types

\* The parts of TypeOK follow.
LEMMA TypesImplyTypeOK == ASSUME Types PROVE TypeOK
<1>1. ASSUME NEW c \in ContType PROVE Continuations(c)
  BY <1>1 DEF ContType, Continuations, Lists, Listed, Places, Mails
<1>2. binding.cont \in ContType /\ \A w \in Workers : run[w].cont \in ContType
  BY DEF Types, RunType
<1>3. Continuations(binding.cont) /\ \A w \in Workers : Continuations(run[w].cont)
  BY <1>1, <1>2
<1>4. \A w \in Workers :
         /\ run[w].pc \in Stages /\ run[w].kind \in {"poll", "sweep"}
         /\ run[w].batch.fresh \subseteq run[w].batch.ids
         /\ run[w].batch.ids \subseteq Message
  <2> SUFFICES ASSUME NEW w \in Workers
               PROVE  /\ run[w].pc \in Stages /\ run[w].kind \in {"poll", "sweep"}
                      /\ run[w].batch.fresh \subseteq run[w].batch.ids
                      /\ run[w].batch.ids \subseteq Message
    OBVIOUS
  <2>1. run[w] \in RunType /\ RunNumbered(run[w], cycle.begun)
    BY DEF Types
  <2>2. run[w].batch \in BatchType
    BY <2>1 DEF RunType
  <2> QED BY <2>1, <2>2 DEF RunType, RunNumbered, BatchType
<1>5. mail \in [count : Positions, expired : Positions, old : Positions, gone : SUBSET (1..MaxMail)]
  BY DEF Types, Mails
<1>6. binding.box \in 1..MaxBoxes /\ binding.enabled \in BOOLEAN /\ binding.cursor \in Positions \cup {NoCursor}
  BY DEF Types, Places
<1>7. /\ {cycle.requested, cycle.begun} \subseteq Nat
      /\ cycle.sweep.page \in Positions /\ cycle.sweep.ids \subseteq 1..MaxMail
  BY DEF Types, SweepType, Mails
<1>8. workspace.accounted \subseteq Message
  BY DEF Types, WorkspaceType
<1> QED BY <1>3, <1>4, <1>5, <1>6, <1>7, <1>8 DEF Types, TypeOK, Stages
\* What a poll goes through is a listing.
ListingType ==
    [ids : Lists, page : Pages, mode : {"none", "history", "fallback"}, pending : Places, gap : BOOLEAN]

\* Both ways to go on make one.
LEMMA ListingTypes ==
    ASSUME BoundsAssumption, Types, NEW w \in Workers
    PROVE  Remaining(run[w]) \in ListingType /\ NextListing(run[w]) \in ListingType
<1> DEFINE r == run[w]
<1>1. /\ r \in RunType /\ mail.count \in Positions /\ mail.old \in Positions
      /\ mail.expired \in Positions
  BY DEF Types
<1> HIDE DEF r
<1>2. /\ r.cont \in ContType /\ r.cursor \in Places /\ r.profile \in Positions
      /\ r.cont.mode \in {"none", "history", "fallback"} /\ r.cont.page \in Pages
      /\ r.cont.pending \in Places /\ r.cont.ids \in Lists
  BY <1>1 DEF RunType, ContType
<1>3. Remaining(r) \in ListingType
  BY <1>2 DEF Remaining, Listing, ListingType
<1>4. ASSUME NEW p \in Pages PROVE FallbackPage(p).ids \in Lists /\ FallbackPage(p).page \in Pages
  BY <1>1, FallbackPageIs DEF Lists
<1>5. ASSUME NEW from \in Positions PROVE HistoryPage(from).ids \in Lists /\ HistoryPage(from).page \in Pages
  <2> DEFINE p == HistoryPage(from)
  <2>1. p.ids \in Seq(1..mail.count) /\ Len(p.ids) <= PageSize /\ p.page \in Pages
    BY <1>1, HistoryPageIs
  <2>2. 1..mail.count \subseteq Mails
    BY <1>1 DEF Mails, Positions, BoundsAssumption
  <2> HIDE DEF p
  <2> DEFINE there == 1..mail.count
  <2>3. p.ids \in Seq(there) /\ there \subseteq Mails
    BY <2>1, <2>2
  <2> HIDE DEF there
  <2>4. p.ids \in Seq(Mails)
    BY <2>3, WiderList
  <2> QED BY <2>1, <2>4 DEF Lists, p
<1>6. r.cont.page # NoPage => r.cont.page.at \in Positions
  BY <1>2 DEF Pages
<1>7. NoPage \in Pages
  BY ConstantTypes
<1>8. NextListing(r) \in ListingType
  <2>1. CASE r.cont.mode = "fallback"
    BY <1>2, <1>4, <2>1 DEF NextListing, Listing, ListingType
  <2>2. CASE r.cont.mode # "fallback" /\ r.cursor # NoCursor /\ r.cursor >= mail.expired
    <3> DEFINE position == IF r.cont.page = NoPage THEN r.cursor ELSE r.cont.page.at
               resumed == IF r.cont.mode = "none" THEN r.profile ELSE r.cont.pending
    <3>1. position \in Positions /\ resumed \in Places
      BY <1>2, <1>6, <2>2 DEF Places
    <3>2. NextListing(r) = Listing("history", HistoryPage(position), resumed, FALSE)
      BY <2>2 DEF NextListing
    <3> HIDE DEF position, resumed
    <3> QED BY <1>5, <3>1, <3>2 DEF Listing, ListingType
  <2>3. CASE r.cont.mode # "fallback" /\ ~(r.cursor # NoCursor /\ r.cursor >= mail.expired)
    <3>1. NextListing(r) = Listing("fallback", FallbackPage(NoPage), r.profile, r.cursor # NoCursor)
      BY <2>3 DEF NextListing
    <3> QED BY <1>2, <1>4, <1>7, <3>1 DEF Listing, ListingType, Places
  <2> QED BY <2>1, <2>2, <2>3
<1> QED BY <1>3, <1>8 DEF r

\* The batch of a poll: what it read of the listing, and what it left.
IsPollBatch(b, w, list, n) ==
    /\ b \in BatchType
    /\ b.fresh \subseteq b.ids /\ b.proofs = {} /\ b.sweeps = {}
    /\ b.ids = {<<run[w].box, m>> : m \in ToSet(FirstOf(list.ids, n))}
    /\ b.gaps = IF list.gap THEN {[box |-> run[w].box, cursor |-> run[w].cursor, low |-> mail.old]}
                ELSE {}
    /\ b.complete <=> RestOf(list.ids, n) = <<>> /\ list.page = NoPage
    /\ b.cursor = IF b.complete THEN list.pending ELSE NoCursor
    /\ b.cont = IF b.complete THEN NoContinuation
                ELSE [mode |-> list.mode, page |-> list.page,
                      pending |-> list.pending, ids |-> RestOf(list.ids, n)]
    /\ b.floor = IF run[w].cursor = NoCursor /\ run[w].cont.mode = "none" THEN mail.old ELSE 0
    /\ ~b.write => b.ids \subseteq run[w].seen.accounted /\ b.gaps \subseteq run[w].seen.gaps

\* A poll makes such a batch.
LEMMA PollBatchType ==
    ASSUME BoundsAssumption, Types, NEW w \in Workers, NEW list \in ListingType,
           NEW n \in 0..Len(list.ids), NEW b, b = PollBatch(w, list, n)
    PROVE  IsPollBatch(b, w, list, n)
<1> DEFINE r == run[w]
           rest == RestOf(list.ids, n)
           ids == {<<r.box, m>> : m \in ToSet(FirstOf(list.ids, n))}
           complete == rest = <<>> /\ list.page = NoPage
           gaps == IF list.gap THEN {[box |-> r.box, cursor |-> r.cursor, low |-> mail.old]} ELSE {}
           boundary == ~r.seen.backfilled /\ list.mode = "fallback" /\ complete
           write == \/ boundary
                    \/ ids = {} /\ gaps = {}
                    \/ ~(ids \subseteq r.seen.accounted)
                    \/ ~(gaps \subseteq r.seen.gaps)
           floor == IF r.cursor = NoCursor /\ r.cont.mode = "none" THEN mail.old ELSE 0
           cursor == IF complete THEN list.pending ELSE NoCursor
           cont == IF complete THEN NoContinuation
                   ELSE [mode |-> list.mode, page |-> list.page,
                         pending |-> list.pending, ids |-> rest]
<1>1. /\ r \in RunType /\ mail.old \in Positions /\ r.box \in 1..MaxBoxes
      /\ r.cursor \in Places
  BY DEF Types, RunType
<1>2. /\ list.ids \in Seq(Mails) /\ Len(list.ids) <= PageSize /\ list.page \in Pages
      /\ list.mode \in {"none", "history", "fallback"} /\ list.pending \in Places
      /\ list.gap \in BOOLEAN
  BY DEF ListingType, Lists
<1>3. /\ b.ids = ids /\ b.fresh = ids \ r.seen.accounted /\ b.gaps = gaps
      /\ b.boundary = boundary /\ b.sweeps = {} /\ b.proofs = {} /\ b.sweep = NoSweep
      /\ b.write = write /\ b.complete = complete /\ b.floor = floor
      /\ b.cursor = cursor /\ b.cont = cont
      /\ b = [ids |-> b.ids, fresh |-> b.fresh, gaps |-> b.gaps, boundary |-> b.boundary,
              sweeps |-> b.sweeps, proofs |-> b.proofs, write |-> b.write, complete |-> b.complete,
              floor |-> b.floor, cursor |-> b.cursor, cont |-> b.cont, sweep |-> b.sweep]
  <2>1. b = [NoBatch EXCEPT !.ids = ids, !.fresh = ids \ r.seen.accounted, !.gaps = gaps,
                            !.boundary = boundary, !.write = write, !.complete = complete,
                            !.floor = floor, !.cursor = cursor, !.cont = cont]
    BY DEF PollBatch, Exhausted
  <2> HIDE DEF ids, gaps, boundary, write, complete, floor, cursor, cont
  <2> QED BY <2>1 DEF NoBatch
<1>4. /\ rest \in Seq(Mails) /\ Len(rest) <= Len(list.ids)
      /\ ToSet(FirstOf(list.ids, n)) \subseteq Mails
  BY <1>2, SplitList
<1>4a. boundary \in BOOLEAN /\ write \in BOOLEAN /\ complete \in BOOLEAN
  OBVIOUS
<1> HIDE DEF r, rest, ids, gaps, boundary, write, complete, floor, cursor, cont
<1>5. rest \in Lists
  <2>1. Len(rest) \in Nat /\ Len(list.ids) \in Nat /\ PageSize \in Nat
    BY <1>2, <1>4, LenProperties DEF BoundsAssumption
  <2> QED BY <1>2, <1>4, <2>1 DEF Lists
<1>6. b.cont \in ContType
  BY <1>2, <1>3, <1>5, ConstantTypes DEF ContType, cont
<1>7. b.ids \in SUBSET Message /\ b.fresh \in SUBSET Message
  BY <1>1, <1>3, <1>4 DEF Message, Mails, ids
<1>8. b.gaps \in SUBSET GapType
  BY <1>1, <1>3 DEF GapType, gaps
<1>9. b.floor \in Positions /\ b.cursor \in Places
  BY <1>1, <1>2, <1>3, ConstantTypes DEF Places, floor, cursor
<1>10. /\ b.boundary \in BOOLEAN /\ b.complete \in BOOLEAN /\ b.write \in BOOLEAN
       /\ b.sweep \in SweepType
       /\ b.sweeps \in SUBSET CommandType /\ b.proofs \in SUBSET Nat
  BY <1>3, <1>4a, ConstantTypes
<1>11. b \in BatchType
  BY <1>3, <1>6, <1>7, <1>8, <1>9, <1>10 DEF BatchType
<1>12. ~b.write => b.ids \subseteq r.seen.accounted /\ b.gaps \subseteq r.seen.gaps
  BY <1>3 DEF write
<1>13. b.complete <=> rest = <<>> /\ list.page = NoPage
  BY <1>3 DEF complete
<1>14. /\ b.cursor = IF b.complete THEN list.pending ELSE NoCursor
       /\ b.cont = IF b.complete THEN NoContinuation
                   ELSE [mode |-> list.mode, page |-> list.page,
                         pending |-> list.pending, ids |-> rest]
  BY <1>3 DEF cursor, cont
<1>15. b.fresh \subseteq b.ids
  BY <1>3
<1> QED BY <1>3, <1>11, <1>12, <1>13, <1>14, <1>15 DEF r, rest, ids, gaps, floor, IsPollBatch

\* A sweep goes over a stored sweep or a new one.
Sweeping(w, sweep, page) ==
    /\ run[w].kind = "sweep"
    /\ sweep = IF run[w].sweep # NoSweep THEN run[w].sweep
               ELSE [NoSweep EXCEPT !.start = cycle.begun + 1, !.since = mail.count]
    /\ page = IF sweep.ids # {} THEN [ids |-> sweep.ids, page |-> sweep.page]
              ELSE SweepPage(sweep.page)
    /\ cycle' = [cycle EXCEPT !.begun = IF sweep.start > cycle.begun THEN sweep.start ELSE cycle.begun]

\* That is what FetchSweep does.
LEMMA SweepingIs ==
    ASSUME NEW w \in Workers, FetchSweep(w)
    PROVE  \E sweep, page : Sweeping(w, sweep, page) /\ Fetched(w, SweepBatch(w, sweep, page))
<1> DEFINE sweep == IF run[w].sweep # NoSweep THEN run[w].sweep
                    ELSE [NoSweep EXCEPT !.start = cycle.begun + 1, !.since = mail.count]
           page == IF sweep.ids # {} THEN [ids |-> sweep.ids, page |-> sweep.page]
                   ELSE SweepPage(sweep.page)
<1>1. /\ run[w].kind = "sweep" /\ Fetched(w, SweepBatch(w, sweep, page))
      /\ cycle' = [cycle EXCEPT !.begun = IF sweep.start > cycle.begun THEN sweep.start ELSE cycle.begun]
  BY DEF FetchSweep
<1> HIDE DEF page
<1>2. page = IF sweep.ids # {} THEN [ids |-> sweep.ids, page |-> sweep.page] ELSE SweepPage(sweep.page)
  BY DEF page
<1> HIDE DEF sweep
<1>3. sweep = IF run[w].sweep # NoSweep THEN run[w].sweep
              ELSE [NoSweep EXCEPT !.start = cycle.begun + 1, !.since = mail.count]
  BY DEF sweep
<1>4. Sweeping(w, sweep, page)
  BY <1>1, <1>2, <1>3 DEF Sweeping
<1> QED BY <1>1, <1>4

\* The sweep has a number that was given out, and the page is one of messages.
LEMMA SweepingTyped ==
    ASSUME BoundsAssumption, Types, NEW w \in Workers, NEW sweep, NEW page, Sweeping(w, sweep, page)
    PROVE  /\ sweep \in SweepType /\ sweep.start \in 1..cycle'.begun
           /\ page.ids \subseteq Mails /\ page.page \in Positions
           /\ cycle'.begun \in Nat /\ cycle'.begun >= cycle.begun
           /\ cycle' = [requested |-> cycle.requested, sweep |-> cycle.sweep,
                        begun |-> cycle'.begun, completed |-> cycle.completed]
<1> DEFINE r == run[w]
<1>1. /\ r \in RunType /\ mail.count \in Positions /\ r.box \in 1..MaxBoxes
      /\ r.sweep \in SweepType /\ Numbered(r.sweep, cycle.begun)
      /\ cycle \in [requested : Nat, sweep : SweepType, begun : Nat, completed : SUBSET Nat]
  BY DEF Types, RunType, RunNumbered
<1>2. sweep \in SweepType
  <2>1. CASE r.sweep # NoSweep
    BY <1>1, <2>1 DEF Sweeping
  <2>2. CASE r.sweep = NoSweep
    <3>1. sweep = [start |-> cycle.begun + 1, since |-> mail.count, page |-> 0, ids |-> {}]
      BY <2>2 DEF Sweeping, NoSweep
    <3> QED BY <1>1, <3>1, ConstantTypes DEF SweepType
  <2> QED BY <2>1, <2>2
<1>3. /\ cycle' = [requested |-> cycle.requested, sweep |-> cycle.sweep,
                   begun |-> cycle'.begun, completed |-> cycle.completed]
      /\ cycle'.begun = IF sweep.start > cycle.begun THEN sweep.start ELSE cycle.begun
  BY <1>1 DEF Sweeping
<1>4. cycle'.begun \in Nat /\ cycle'.begun >= cycle.begun /\ sweep.start \in 1..cycle'.begun
  <2>1. sweep.start \in Nat /\ cycle.begun \in Nat
    BY <1>1, <1>2 DEF SweepType
  <2>2. sweep.start >= 1
    BY <1>1, <2>1 DEF Sweeping, Numbered, NoSweep
  <2> QED BY <1>3, <2>1, <2>2
<1>5. page.ids \subseteq Mails /\ page.page \in Positions
  <2>1. CASE sweep.ids # {}
    BY <1>2, <2>1 DEF Sweeping, SweepType
  <2>2. CASE sweep.ids = {}
    <3>1. page = SweepPage(sweep.page) /\ sweep.page \in Positions
      BY <1>2, <2>2 DEF Sweeping, SweepType
    <3> QED BY <1>1, <3>1, SweepPageIs
  <2> QED BY <2>1, <2>2
<1> QED BY <1>2, <1>3, <1>4, <1>5

\* The name of the command a sweep sends for a page.
NameOf(sweep, page) == [start |-> sweep.start, page |-> sweep.page, ids |-> Newest(page.ids, 1)]

\* The batch of a sweep: one message, the sweep moved past it, and no second
\* command under a name the workspace has.
IsSweepBatch(b, w, sweep, page) ==
    /\ b.sweep = [sweep EXCEPT !.page = page.page, !.ids = page.ids \ Newest(page.ids, 1)]
    /\ b.ids = {<<run[w].box, m>> : m \in Newest(page.ids, 1)}
    /\ b.fresh = b.ids \ run[w].seen.accounted
    /\ b.sweeps = {[name |-> NameOf(sweep, page), complete |-> b.complete]}
    /\ b.complete <=> page.ids \ Newest(page.ids, 1) = {} /\ page.page = 0
    /\ ~b.write => \E c \in run[w].seen.sweeps : c.name = NameOf(sweep, page)
    /\ b.write \in BOOLEAN /\ b.complete \in BOOLEAN /\ b.proofs \subseteq {sweep.start}
    /\ b.gaps = {} /\ b.boundary = FALSE /\ b.floor = 0 /\ b.cursor = NoCursor
    /\ b.cont = NoContinuation
    /\ b = [ids |-> b.ids, fresh |-> b.fresh, gaps |-> b.gaps, boundary |-> b.boundary,
            sweeps |-> b.sweeps, proofs |-> b.proofs, write |-> b.write, complete |-> b.complete,
            floor |-> b.floor, cursor |-> b.cursor, cont |-> b.cont, sweep |-> b.sweep]

\* A sweep makes such a batch.
LEMMA SweepBatchIs ==
    ASSUME NEW w, NEW sweep, NEW page, NEW b, b = SweepBatch(w, sweep, page)
    PROVE  IsSweepBatch(b, w, sweep, page)
<1> DEFINE r == run[w]
           ids == Newest(page.ids, 1)
           name == [start |-> sweep.start, page |-> sweep.page, ids |-> ids]
           new == \A c \in r.seen.sweeps : c.name # name
           records == {<<r.box, m>> : m \in ids}
           rest == page.ids \ ids
           complete == rest = {} /\ page.page = 0
           proofs == IF complete /\ new THEN {sweep.start} ELSE {}
           after == [sweep EXCEPT !.page = page.page, !.ids = rest]
<1>1. /\ b.ids = records /\ b.fresh = records \ r.seen.accounted
      /\ b.gaps = {} /\ b.boundary = FALSE /\ b.complete = complete
      /\ b.sweeps = {[name |-> name, complete |-> complete]}
      /\ b.proofs = proofs /\ b.write = new
      /\ b.floor = 0 /\ b.cursor = NoCursor /\ b.cont = NoContinuation
      /\ b.sweep = after
      /\ b = [ids |-> b.ids, fresh |-> b.fresh, gaps |-> b.gaps, boundary |-> b.boundary,
              sweeps |-> b.sweeps, proofs |-> b.proofs, write |-> b.write, complete |-> b.complete,
              floor |-> b.floor, cursor |-> b.cursor, cont |-> b.cont, sweep |-> b.sweep]
  <2>1. b = [NoBatch EXCEPT !.ids = records, !.fresh = records \ r.seen.accounted,
                            !.sweeps = {[name |-> name, complete |-> complete]},
                            !.write = new, !.complete = complete,
                            !.proofs = proofs, !.sweep = after]
    BY DEF SweepBatch, Exhausted
  <2> HIDE DEF name, new, records, complete, proofs, after
  <2> QED BY <2>1 DEF NoBatch
<1>2. new \in BOOLEAN /\ complete \in BOOLEAN /\ name = NameOf(sweep, page)
  BY DEF NameOf
<1>3. proofs \subseteq {sweep.start}
  OBVIOUS
<1> HIDE DEF new, name, records, rest, complete, proofs, after
<1>4. ~b.write => \E c \in r.seen.sweeps : c.name = NameOf(sweep, page)
  BY <1>1, <1>2 DEF new
<1>5. b.complete <=> rest = {} /\ page.page = 0
  BY <1>1 DEF complete
<1>6. b.sweeps = {[name |-> NameOf(sweep, page), complete |-> b.complete]}
  BY <1>1, <1>2
<1>7. b.ids = {<<run[w].box, m>> : m \in Newest(page.ids, 1)}
      /\ b.sweep = [sweep EXCEPT !.page = page.page, !.ids = page.ids \ Newest(page.ids, 1)]
  BY <1>1 DEF records, after, rest
<1>8. b.write \in BOOLEAN /\ b.complete \in BOOLEAN /\ b.proofs \subseteq {sweep.start}
  BY <1>1, <1>2, <1>3
<1>9. b.fresh = b.ids \ run[w].seen.accounted
  BY <1>1
<1> QED BY <1>1, <1>4, <1>5, <1>6, <1>7, <1>8, <1>9 DEF rest, IsSweepBatch

\* It is a batch.
LEMMA SweepBatchType ==
    ASSUME BoundsAssumption, Types, NEW w \in Workers, NEW sweep \in SweepType, NEW page,
           page.ids \subseteq Mails, page.page \in Positions,
           NEW b, b = SweepBatch(w, sweep, page)
    PROVE  b \in BatchType /\ b.fresh \subseteq b.ids /\ b.sweep.start = sweep.start
<1> DEFINE ids == Newest(page.ids, 1)
<1>0. IsSweepBatch(b, w, sweep, page)
  BY SweepBatchIs
<1>1. ids \subseteq Mails
  BY DEF Newest
<1>2. run[w].box \in 1..MaxBoxes /\ sweep.start \in Nat /\ sweep.page \in Positions
  BY DEF Types, RunType, SweepType
<1> HIDE DEF ids
<1>3. /\ b.sweep = [sweep EXCEPT !.page = page.page, !.ids = page.ids \ ids]
      /\ b.ids = {<<run[w].box, m>> : m \in ids}
      /\ b.fresh \subseteq b.ids
      /\ b.sweeps = {[name |-> NameOf(sweep, page), complete |-> b.complete]}
      /\ b.write \in BOOLEAN /\ b.complete \in BOOLEAN /\ b.proofs \subseteq {sweep.start}
      /\ b.gaps = {} /\ b.boundary = FALSE /\ b.floor = 0 /\ b.cursor = NoCursor
      /\ b.cont = NoContinuation
  BY <1>0 DEF ids, IsSweepBatch
<1>4. b = [ids |-> b.ids, fresh |-> b.fresh, gaps |-> b.gaps, boundary |-> b.boundary,
           sweeps |-> b.sweeps, proofs |-> b.proofs, write |-> b.write, complete |-> b.complete,
           floor |-> b.floor, cursor |-> b.cursor, cont |-> b.cont, sweep |-> b.sweep]
  BY <1>0 DEF IsSweepBatch
<1>5. b.ids \in SUBSET Message /\ b.fresh \in SUBSET Message
  BY <1>1, <1>2, <1>3 DEF Message, Mails
<1>6. b.sweep \in SweepType /\ b.sweep.start = sweep.start
  BY <1>3 DEF SweepType
<1>7. b.sweeps \in SUBSET CommandType
  <2>1. NameOf(sweep, page) \in NameType
    BY <1>1, <1>2 DEF NameOf, NameType, ids
  <2> QED BY <1>3, <2>1 DEF CommandType
<1>8. /\ b.gaps \in SUBSET GapType /\ b.boundary \in BOOLEAN /\ b.proofs \in SUBSET Nat
      /\ b.floor \in Positions /\ b.cursor \in Places /\ b.cont \in ContType
  BY <1>2, <1>3, ConstantTypes DEF Places
<1> QED BY <1>3, <1>4, <1>5, <1>6, <1>7, <1>8 DEF BatchType

-----------------------------------------------------------------------------
(* Types of steps *)

MailType == [count : Positions, expired : Positions, old : Positions, gone : SUBSET Mails]
BindingType == [box : 1..MaxBoxes, enabled : BOOLEAN, cursor : Places, cont : ContType]
CycleType == [requested : Nat, sweep : SweepType, begun : Nat, completed : SUBSET Nat]
LeaseType == [holder : Workers \cup {Nobody}, live : BOOLEAN, fresh : BOOLEAN]
ObservedType == [promised : Positions, twice : SUBSET Message]

\* A larger number of begun sweeps numbers everything it did before.
LEMMA NumberedLater ==
    ASSUME NEW n \in Nat, NEW k \in Nat, n <= k
    PROVE  /\ \A s \in SweepType : Numbered(s, n) => Numbered(s, k)
           /\ \A r : RunNumbered(r, n) => RunNumbered(r, k)
           /\ 1..n \subseteq 1..k
<1>1. 1..n \subseteq 1..k
  OBVIOUS
<1> QED BY <1>1 DEF Numbered, RunNumbered

\* What is left of the types when the rows and the runs are in order.
LEMMA TypesParts ==
    ASSUME mail \in MailType, binding \in BindingType, cycle \in CycleType,
           cycle.completed \subseteq 1..cycle.begun, Numbered(cycle.sweep, cycle.begun),
           lease \in LeaseType, workspace \in WorkspaceType,
           workspace.proofs \subseteq 1..cycle.begun,
           run \in [Workers -> RunType], \A w \in Workers : RunNumbered(run[w], cycle.begun),
           faults \in 0..MaxFaults, observed \in ObservedType
    PROVE  Types
BY DEF Types, MailType, BindingType, CycleType, LeaseType, ObservedType

\* The types of the parts, and what is left of them when nothing changes.
LEMMA PartsTyped ==
    ASSUME Types
    PROVE  /\ mail \in MailType /\ binding \in BindingType /\ cycle \in CycleType
           /\ cycle.completed \subseteq 1..cycle.begun /\ Numbered(cycle.sweep, cycle.begun)
           /\ cycle.begun \in Nat /\ cycle.sweep \in SweepType
           /\ lease \in LeaseType /\ workspace \in WorkspaceType
           /\ workspace.proofs \subseteq 1..cycle.begun
           /\ run \in [Workers -> RunType] /\ \A w \in Workers : RunNumbered(run[w], cycle.begun)
           /\ \A w \in Workers : run[w] \in RunType /\ run[w].batch \in BatchType
           /\ faults \in 0..MaxFaults /\ observed \in ObservedType
           /\ binding.box \in 1..MaxBoxes /\ binding.cursor \in Places /\ binding.cont \in ContType
           /\ mail.count \in Positions /\ mail.old \in Positions
           /\ Unleased \in LeaseType
BY DEF Types, MailType, BindingType, CycleType, LeaseType, ObservedType, RunType, Unleased

\* One run changes.
LEMMA OneRunTyped ==
    ASSUME Types, NEW w \in Workers, NEW r \in RunType, RunNumbered(r, cycle'.begun),
           run' = [run EXCEPT ![w] = r], cycle'.begun \in Nat, cycle.begun <= cycle'.begun
    PROVE  run' \in [Workers -> RunType] /\ \A v \in Workers : RunNumbered(run'[v], cycle'.begun)
<1>1. run \in [Workers -> RunType] /\ cycle.begun \in Nat
      /\ \A v \in Workers : RunNumbered(run[v], cycle.begun)
  BY PartsTyped
<1>2. \A v \in Workers : RunNumbered(run[v], cycle'.begun)
  BY <1>1, NumberedLater
<1> QED BY <1>1, <1>2

\* A run whose revision becomes stale.
LEMMA StaleTyped ==
    ASSUME Types, NEW w \in Workers
    PROVE  /\ [run[w] EXCEPT !.current = FALSE] \in RunType
           /\ RunNumbered([run[w] EXCEPT !.current = FALSE], cycle.begun)
<1>1. run[w] \in RunType /\ RunNumbered(run[w], cycle.begun)
  BY PartsTyped
<1> QED BY <1>1 DEF RunType, RunNumbered

\* Steps of the environment.
LEMMA EnvironmentTypes == ASSUME BoundsAssumption, Types, Environment PROVE Types'
<1>0. /\ mail \in MailType /\ binding \in BindingType /\ cycle \in CycleType
      /\ cycle.completed \subseteq 1..cycle.begun /\ Numbered(cycle.sweep, cycle.begun)
      /\ cycle.begun \in Nat
      /\ lease \in LeaseType /\ Unleased \in LeaseType /\ workspace \in WorkspaceType
      /\ workspace.proofs \subseteq 1..cycle.begun
      /\ run \in [Workers -> RunType] /\ \A w \in Workers : RunNumbered(run[w], cycle.begun)
      /\ faults \in 0..MaxFaults /\ observed \in ObservedType
      /\ MaxFaults \in Nat /\ MaxMail \in Nat /\ MaxBoxes \in Nat
  BY PartsTyped DEF BoundsAssumption
<1>1. workspace' = workspace
  BY DEF Environment, Arrive, Age, Leave, Disable, Enable, Relink, Reconnect, TouchBinding,
         OtherCommit, Expire, Request
<1>2. faults' \in 0..MaxFaults
  <2>1. faults' = faults \/ Fault
    BY DEF Environment, Arrive, Age, Leave, Disable, Enable, Relink, Reconnect, TouchBinding,
       OtherCommit, Expire, Request
  <2>2. CASE Fault
    BY <1>0, <2>2 DEF Fault
  <2> QED BY <1>0, <2>1, <2>2
<1>3. mail' \in MailType
  <2>1. CASE Arrive
    BY <1>0, <2>1 DEF Arrive, MailType, Positions
  <2>2. CASE Age
    <3>1. PICK e \in mail.expired..mail.count, o \in mail.old..mail.count :
            mail' = [mail EXCEPT !.expired = e, !.old = o]
      BY <2>2 DEF Age
    <3>2. e \in Positions /\ o \in Positions
      BY <1>0 DEF MailType, Positions
    <3> QED BY <1>0, <3>1, <3>2 DEF MailType
  <2>3. CASE Leave
    <3>1. PICK m \in (1..mail.count) \ mail.gone : mail' = [mail EXCEPT !.gone = @ \cup {m}]
      BY <2>3 DEF Leave
    <3>2. m \in Mails
      BY <1>0 DEF MailType, Positions, Mails
    <3> QED BY <1>0, <3>1, <3>2 DEF MailType
  <2>4. CASE Relink
    BY <2>4, ConstantTypes DEF Relink, MailType
  <2>5. CASE mail' = mail
    BY <1>0, <2>5
  <2> QED BY <2>1, <2>2, <2>3, <2>4, <2>5 DEF Environment, Disable, Enable, Reconnect,
             TouchBinding, OtherCommit, Expire, Request
<1>4. binding' \in BindingType
  <2>1. CASE Disable \/ Enable
    BY <1>0, <2>1, ConstantTypes DEF Disable, Enable, BindingType, Places
  <2>2. CASE Relink
    <3>1. binding.box \in 1..MaxBoxes /\ binding.box < MaxBoxes
      BY <1>0, <2>2 DEF Relink, BindingType
    <3>2. binding.box + 1 \in 1..MaxBoxes
      BY <1>0, <3>1
    <3> QED BY <2>2, <3>2, ConstantTypes DEF Relink, BindingType, Places
  <2>3. CASE binding' = binding
    BY <1>0, <2>3
  <2> QED BY <2>1, <2>2, <2>3 DEF Environment, Arrive, Age, Leave, Reconnect, TouchBinding,
             OtherCommit, Expire, Request
<1>5. /\ cycle' \in CycleType /\ cycle'.begun = cycle.begun /\ cycle'.completed = cycle.completed
      /\ cycle'.sweep \in {cycle.sweep, NoSweep}
  <2>1. CASE Disable \/ Enable \/ Relink
    <3>1. cycle' = [cycle EXCEPT !.requested = 0, !.sweep = NoSweep]
      BY <2>1 DEF Disable, Enable, Relink
    <3> QED BY <1>0, <3>1, ConstantTypes DEF CycleType
  <2>2. CASE Request
    BY <1>0, <2>2 DEF Request, CycleType
  <2>3. CASE cycle' = cycle
    BY <1>0, <2>3
  <2> QED BY <2>1, <2>2, <2>3 DEF Environment, Arrive, Age, Leave, Reconnect, TouchBinding,
             OtherCommit, Expire
<1>6. lease' \in LeaseType
  <2>1. CASE TouchBinding \/ Expire
    BY <1>0, <2>1 DEF TouchBinding, Expire, LeaseType
  <2>2. CASE lease' \in {lease, Unleased}
    BY <1>0, <2>2
  <2> QED BY <2>1, <2>2 DEF Environment, Arrive, Age, Leave, Disable, Enable, Relink, Reconnect,
             OtherCommit, Request
<1>7. run' \in [Workers -> RunType] /\ \A w \in Workers : RunNumbered(run'[w], cycle.begun)
  <2>1. CASE OtherCommit
    <3>1. \A w \in Workers : run'[w] = [run[w] EXCEPT !.current = FALSE]
      BY <2>1 DEF OtherCommit
    <3>2. \A w \in Workers : run'[w] \in RunType /\ RunNumbered(run'[w], cycle.begun)
      BY <3>1, StaleTyped
    <3> QED BY <2>1, <3>2 DEF OtherCommit
  <2>2. CASE run' = run
    BY <1>0, <2>2
  <2> QED BY <2>1, <2>2 DEF Environment, Arrive, Age, Leave, Disable, Enable, Relink, Reconnect,
             TouchBinding, Expire, Request
<1>8. observed' \in ObservedType
  BY <1>0, ConstantTypes DEF Environment, Arrive, Age, Leave, Disable, Enable, Relink, Reconnect,
     TouchBinding, OtherCommit, Expire, Request, ObservedType
<1>9. Numbered(cycle'.sweep, cycle.begun)
  BY <1>0, <1>5 DEF Numbered
<1> QED BY <1>0, <1>1, <1>2, <1>3, <1>4, <1>5, <1>6, <1>7, <1>8, <1>9
        DEF Types, MailType, BindingType, CycleType, LeaseType, ObservedType
\* What a step of a run leaves alone is of its type again.
LEMMA RunStepTyped ==
    ASSUME BoundsAssumption, Types, mail' = mail, NEW w \in Workers, NEW r \in RunType,
           run' = [run EXCEPT ![w] = r], RunNumbered(r, cycle'.begun),
           binding' \in BindingType, cycle' \in CycleType, cycle.begun <= cycle'.begun,
           cycle'.completed \subseteq 1..cycle'.begun, Numbered(cycle'.sweep, cycle'.begun),
           lease' \in LeaseType, workspace' = workspace, faults' \in 0..MaxFaults,
           observed' \in ObservedType
    PROVE  Types'
<1>1. cycle'.begun \in Nat /\ cycle.begun \in Nat
  BY PartsTyped DEF CycleType
<1>2. run' \in [Workers -> RunType] /\ \A v \in Workers : RunNumbered(run'[v], cycle'.begun)
  BY <1>1, OneRunTyped
<1>3. workspace \in WorkspaceType /\ workspace.proofs \subseteq 1..cycle'.begun /\ mail \in MailType
  BY <1>1, PartsTyped, NumberedLater
<1> QED BY <1>2, <1>3 DEF Types, MailType, BindingType, CycleType, LeaseType, ObservedType

\* A step of a run that changes only the run and the lease.
LEMMA OnlyRunTyped ==
    ASSUME BoundsAssumption, Types, NEW w \in Workers, NEW r \in RunType,
           run' = [run EXCEPT ![w] = r], RunNumbered(r, cycle.begun),
           UNCHANGED <<mail, binding, cycle, workspace, observed>>,
           lease' \in LeaseType, faults' \in 0..MaxFaults
    PROVE  Types'
<1>1. /\ binding' \in BindingType /\ cycle' \in CycleType /\ cycle.begun <= cycle'.begun
      /\ cycle'.completed \subseteq 1..cycle'.begun /\ Numbered(cycle'.sweep, cycle'.begun)
      /\ observed' \in ObservedType /\ mail' = mail /\ workspace' = workspace /\ cycle' = cycle
  BY PartsTyped
<1>2. RunNumbered(r, cycle'.begun)
  BY <1>1
<1> HIDE DEF Types
<1> QED BY <1>1, <1>2, RunStepTyped

\* A commit.
LEMMA LandTyped ==
    ASSUME BoundsAssumption, Types, NEW w \in Workers, NEW after \in RunType, Land(w, after),
           RunNumbered(after, cycle.begun)
    PROVE  Types'
<1>1. run \in [Workers -> RunType] /\ \A v \in Workers : RunNumbered(run[v], cycle.begun)
  BY PartsTyped
<1>2. \A v \in Workers : run'[v] \in RunType /\ RunNumbered(run'[v], cycle.begun)
  <2> SUFFICES ASSUME NEW v \in Workers, v # w
               PROVE  run'[v] \in RunType /\ RunNumbered(run'[v], cycle.begun)
    BY DEF Land
  <2>1. run'[v] = [run[v] EXCEPT !.current = FALSE]
    BY DEF Land
  <2> QED BY <2>1, StaleTyped
<1>3. run' \in [Workers -> RunType]
  BY <1>2 DEF Land
<1>4. run[w].batch \in BatchType /\ workspace \in WorkspaceType /\ RunNumbered(run[w], cycle.begun)
      /\ workspace.proofs \subseteq 1..cycle.begun /\ observed \in ObservedType
  BY PartsTyped
<1>5. /\ workspace'.accounted = workspace.accounted \cup run[w].batch.ids
      /\ workspace'.gaps = workspace.gaps \cup run[w].batch.gaps
      /\ workspace'.backfilled = (workspace.backfilled \/ run[w].batch.boundary)
      /\ workspace'.sweeps = workspace.sweeps \cup run[w].batch.sweeps
      /\ workspace'.proofs = workspace.proofs \cup run[w].batch.proofs
      /\ workspace' = [accounted |-> workspace'.accounted, gaps |-> workspace'.gaps,
                       backfilled |-> workspace'.backfilled,
                       sweeps |-> workspace'.sweeps, proofs |-> workspace'.proofs]
  BY DEF Land
<1>6. workspace' \in WorkspaceType
  <2>1. /\ workspace'.accounted \in SUBSET Message /\ workspace'.gaps \in SUBSET GapType
        /\ workspace'.sweeps \in SUBSET CommandType /\ workspace'.proofs \in SUBSET Nat
    BY <1>4, <1>5 DEF WorkspaceType, BatchType
  <2>2. workspace'.backfilled \in BOOLEAN
    BY <1>5
  <2> QED BY <1>5, <2>1, <2>2 DEF WorkspaceType
<1>7. workspace'.proofs \subseteq 1..cycle.begun
  BY <1>4, <1>5 DEF RunNumbered
<1>8. observed' \in ObservedType
  <2>1. run[w].batch.fresh \subseteq Message
    BY <1>4 DEF BatchType
  <2>2. observed' = [observed EXCEPT !.twice = observed.twice \cup (run[w].batch.fresh \cap workspace.accounted)]
    BY DEF Land
  <2> QED BY <1>4, <2>1, <2>2 DEF ObservedType
<1>9. UNCHANGED <<mail, binding, cycle, lease, faults>>
  BY DEF Land
<1> QED BY <1>2, <1>3, <1>6, <1>7, <1>8, <1>9, PartsTyped
        DEF Types, MailType, BindingType, CycleType, LeaseType, ObservedType

\* A run begins.
LEMMA BeginTypes == ASSUME BoundsAssumption, Types, NEW w \in Workers, NEW kind \in Kinds, Begin(w, kind)
                    PROVE Types'
<1> DEFINE pc == IF kind = "poll" \/ Asked THEN "begun" ELSE "vain"
           cursor == IF kind = "poll" THEN binding.cursor ELSE NoCursor
           cont == IF kind = "poll" THEN binding.cont ELSE NoContinuation
           sweep == IF kind = "sweep" THEN cycle.sweep ELSE NoSweep
           r == [Asleep EXCEPT !.pc = pc, !.kind = kind, !.box = binding.box, !.cursor = cursor,
                               !.cont = cont, !.sweep = sweep]
<1>0. /\ pc \in {"begun", "vain"} /\ cursor \in {binding.cursor, NoCursor}
      /\ cont \in {binding.cont, NoContinuation} /\ sweep \in {cycle.sweep, NoSweep}
  OBVIOUS
<1>2. run' = [run EXCEPT ![w] = r]
  BY DEF Begin
<1> HIDE DEF pc, cursor, cont, sweep
<1>1. r.sweep = sweep /\ r.batch = NoBatch /\ r.pc = pc
  BY DEF Asleep
<1>3. kind \in {"poll", "sweep"} /\ NoCursor \in Places
  BY DEF BoundsAssumption, Places
<1>4. r \in RunType
  <2>1. /\ pc \in Stages /\ binding.box \in 1..MaxBoxes /\ cursor \in Places
        /\ cont \in ContType /\ sweep \in SweepType
    BY <1>0, <1>3, ConstantTypes, PartsTyped DEF Stages
  <2> QED BY <1>3, <2>1, ConstantTypes DEF RunType
<1> HIDE DEF r
<1>5. Numbered(cycle.sweep, cycle.begun) /\ Numbered(NoSweep, cycle.begun)
  BY PartsTyped DEF Numbered
<1>6. RunNumbered(r, cycle.begun)
  BY <1>0, <1>1, <1>5 DEF RunNumbered, NoBatch
<1>7. /\ UNCHANGED <<mail, binding, cycle, workspace, observed>> /\ faults' \in 0..MaxFaults
      /\ lease' \in LeaseType
  BY PartsTyped DEF Begin, LeaseType
<1> QED BY <1>2, <1>4, <1>6, <1>7, OnlyRunTyped

\* A page was read.
LEMMA FetchedTyped ==
    ASSUME BoundsAssumption, Types, NEW w \in Workers, NEW b \in BatchType, NEW n \in Nat,
           b.fresh \subseteq b.ids, b.proofs \subseteq 1..n,
           run[w].kind = "sweep" => b.sweep.start \in 1..n
    PROVE  LET r == [Asleep EXCEPT !.pc = "fetched", !.kind = run[w].kind,
                                   !.box = run[w].box, !.current = run[w].current, !.batch = b]
           IN  r \in RunType /\ RunNumbered(r, n)
<1>1. run[w] \in RunType
  BY PartsTyped
<1>2. run[w].kind \in {"poll", "sweep"} /\ run[w].box \in 1..MaxBoxes /\ run[w].current \in BOOLEAN
  BY <1>1 DEF RunType
<1>3. [Asleep EXCEPT !.pc = "fetched", !.kind = run[w].kind,
                     !.box = run[w].box, !.current = run[w].current, !.batch = b] \in RunType
  BY <1>2, ConstantTypes DEF RunType, Stages
<1>4. RunNumbered([Asleep EXCEPT !.pc = "fetched", !.kind = run[w].kind,
                     !.box = run[w].box, !.current = run[w].current, !.batch = b], n)
  BY <1>2 DEF RunNumbered, Numbered, Asleep
<1> QED BY <1>3, <1>4
\* A step of a run.
LEMMA StepTypes == ASSUME BoundsAssumption, Types, NEW w \in Workers, Step(w) PROVE Types'
<1>0. /\ run[w] \in RunType /\ RunNumbered(run[w], cycle.begun) /\ run[w].batch \in BatchType
      /\ lease \in LeaseType /\ Unleased \in LeaseType /\ workspace \in WorkspaceType
      /\ mail.count \in Positions /\ faults \in 0..MaxFaults
      /\ binding \in BindingType /\ cycle \in CycleType /\ observed \in ObservedType
      /\ cycle.begun \in Nat
  BY PartsTyped DEF CycleType
<1>1. CASE Dismiss(w)
  <2>1. /\ run' = [run EXCEPT ![w] = Asleep] /\ lease' \in LeaseType /\ faults' = faults
        /\ UNCHANGED <<mail, binding, cycle, workspace, observed>>
    BY <1>0, <1>1 DEF Dismiss
  <2> QED BY <1>0, <2>1, ConstantTypes, OnlyRunTyped
<1>2. CASE Read(w)
  <2> DEFINE profile == IF run[w].kind = "poll" THEN mail.count ELSE 0
             r == [run[w] EXCEPT !.pc = "read", !.seen = workspace, !.current = TRUE, !.profile = profile]
  <2>1. /\ run' = [run EXCEPT ![w] = r] /\ lease' = lease /\ faults' = faults
        /\ UNCHANGED <<mail, binding, cycle, workspace, observed>>
    BY <1>2 DEF Read
  <2>2. profile \in Positions
    BY <1>0, ConstantTypes
  <2> HIDE DEF profile
  <2>3. r \in RunType
    BY <1>0, <2>2 DEF RunType, Stages
  <2>4. RunNumbered(r, cycle.begun)
    BY <1>0 DEF RunNumbered, RunType
  <2> HIDE DEF r
  <2> QED BY <1>0, <2>1, <2>3, <2>4, OnlyRunTyped
<1>3. CASE FetchPoll(w)
  <2> DEFINE list == IF run[w].cont.ids # <<>> THEN Remaining(run[w]) ELSE NextListing(run[w])
  <2>1. list \in ListingType
    BY ListingTypes
  <2>2. PICK n \in 0..RunLimit : n <= Len(list.ids) /\ Fetched(w, PollBatch(w, list, n))
    BY <1>3 DEF FetchPoll
  <2>3. /\ run[w].kind = "poll" /\ lease' = lease /\ faults' = faults
        /\ UNCHANGED <<mail, binding, cycle, workspace, observed>>
    BY <1>3 DEF FetchPoll
  <2> HIDE DEF list
  <2>4. n \in 0..Len(list.ids)
    <3>1. list.ids \in Seq(Mails)
      BY <2>1 DEF ListingType, Lists
    <3>2. Len(list.ids) \in Nat
      BY <3>1, LenProperties
    <3> QED BY <2>2, <3>2
  <2>5a. PICK b : b = PollBatch(w, list, n)
    OBVIOUS
  <2>5. b \in BatchType /\ b.fresh \subseteq b.ids /\ b.proofs = {}
    BY <2>1, <2>4, <2>5a, PollBatchType DEF IsPollBatch
  <2> DEFINE r == [Asleep EXCEPT !.pc = "fetched", !.kind = run[w].kind,
                                 !.box = run[w].box, !.current = run[w].current, !.batch = b]
  <2>6. r \in RunType /\ RunNumbered(r, cycle.begun)
    BY <1>0, <2>3, <2>5, FetchedTyped
  <2>7. run' = [run EXCEPT ![w] = r]
    BY <2>2, <2>5a DEF Fetched
  <2> HIDE DEF r
  <2> QED BY <1>0, <2>3, <2>6, <2>7, OnlyRunTyped
<1>4. CASE FetchSweep(w)
  <2>1. PICK sweep, page : Sweeping(w, sweep, page) /\ Fetched(w, SweepBatch(w, sweep, page))
    BY <1>4, SweepingIs
  <2>2. lease' = lease /\ faults' = faults /\ UNCHANGED <<mail, binding, workspace, observed>>
    BY <1>4 DEF FetchSweep
  <2>2a. PICK b : b = SweepBatch(w, sweep, page)
    OBVIOUS
  <2>3. /\ sweep.start \in 1..cycle'.begun /\ sweep \in SweepType
        /\ cycle'.begun \in Nat /\ cycle'.begun >= cycle.begun
        /\ cycle' = [requested |-> cycle.requested, sweep |-> cycle.sweep,
                     begun |-> cycle'.begun, completed |-> cycle.completed]
        /\ b \in BatchType /\ b.fresh \subseteq b.ids /\ b.proofs \subseteq {sweep.start}
        /\ b.sweep.start = sweep.start
    <3>1. Sweeping(w, sweep, page)
      BY <2>1
    <3>2. /\ sweep.start \in 1..cycle'.begun /\ sweep \in SweepType
          /\ cycle'.begun \in Nat /\ cycle'.begun >= cycle.begun
          /\ cycle' = [requested |-> cycle.requested, sweep |-> cycle.sweep,
                       begun |-> cycle'.begun, completed |-> cycle.completed]
          /\ page.ids \subseteq Mails /\ page.page \in Positions
      BY <3>1, SweepingTyped
    <3>3. b \in BatchType /\ b.fresh \subseteq b.ids /\ b.sweep.start = sweep.start
      BY <2>2a, <3>2, SweepBatchType
    <3>4. b.proofs \subseteq {sweep.start}
      BY <2>2a, SweepBatchIs DEF IsSweepBatch
    <3> QED BY <3>2, <3>3, <3>4
  <2> DEFINE r == [Asleep EXCEPT !.pc = "fetched", !.kind = run[w].kind,
                                 !.box = run[w].box, !.current = run[w].current, !.batch = b]
  <2>4. r \in RunType /\ RunNumbered(r, cycle'.begun)
    BY <1>0, <2>3, FetchedTyped
  <2>5. run' = [run EXCEPT ![w] = r]
    BY <2>1, <2>2a DEF Fetched
  <2>6. cycle' \in CycleType /\ cycle.begun <= cycle'.begun
        /\ cycle'.completed = cycle.completed /\ cycle'.sweep = cycle.sweep
    BY <1>0, <2>3 DEF CycleType
  <2>7. cycle'.completed \subseteq 1..cycle'.begun /\ Numbered(cycle'.sweep, cycle'.begun)
    BY <2>3, <2>6, <1>0, PartsTyped, NumberedLater
  <2> HIDE DEF r
  <2>8. binding' \in BindingType /\ observed' \in ObservedType /\ mail' = mail /\ workspace' = workspace
        /\ lease' \in LeaseType /\ faults' \in 0..MaxFaults
    BY <1>0, <2>2
  <2> QED BY <2>2, <2>4, <2>5, <2>6, <2>7, <2>8, RunStepTyped
<1>5. CASE AssertLease(w) \/ NoWrite(w) \/ CommitKnown(w)
  <2>1. PICK r : /\ r \in {[run[w] EXCEPT !.pc = "asserted"], [run[w] EXCEPT !.pc = "saved"],
                           [run[w] EXCEPT !.pc = "saved", !.current = FALSE]}
                 /\ run' = [run EXCEPT ![w] = r]
    BY <1>5 DEF AssertLease, NoWrite, CommitKnown
  <2>2. /\ lease' = lease /\ faults' = faults
        /\ UNCHANGED <<mail, binding, cycle, workspace, observed>>
        /\ run[w].pc \in {"fetched", "asserted"}
    BY <1>5 DEF AssertLease, NoWrite, CommitKnown
  <2>3. r \in RunType
    BY <1>0, <2>1 DEF RunType, Stages
  <2>4. RunNumbered(r, cycle.begun)
    BY <1>0, <2>1, <2>2 DEF RunNumbered, RunType
  <2> QED BY <1>0, <2>1, <2>2, <2>3, <2>4, OnlyRunTyped
<1>6. CASE Commit(w)
  <2> DEFINE r == [run[w] EXCEPT !.pc = "saved", !.current = FALSE]
  <2>1. Land(w, r) /\ run[w].pc = "asserted"
    BY <1>6 DEF Commit
  <2>2. r \in RunType
    BY <1>0 DEF RunType, Stages
  <2>3. RunNumbered(r, cycle.begun)
    BY <1>0, <2>1 DEF RunNumbered, RunType
  <2> HIDE DEF r
  <2> QED BY <2>1, <2>2, <2>3, LandTyped
<1>7. CASE Finish(w)
  <2> DEFINE b == run[w].batch
  <2>1. /\ run' = [run EXCEPT ![w] = Asleep] /\ lease' \in LeaseType /\ faults' = faults
        /\ mail' = mail /\ workspace' = workspace /\ run[w].pc = "saved"
    BY <1>0, <1>7 DEF Finish
  <2>2. b.cursor \in Places /\ b.cont \in ContType /\ b.floor \in Positions /\ b.sweep \in SweepType
    BY <1>0 DEF BatchType
  <2>3. binding' \in BindingType /\ observed' \in ObservedType
    <3>1. CASE run[w].kind = "poll"
      <4>1. PICK cursor \in {b.cursor, binding.cursor} :
              binding' = [binding EXCEPT !.cursor = cursor, !.cont = b.cont]
        BY <1>7, <3>1 DEF Finish
      <4>2. PICK promised \in {b.floor, observed.promised} :
              observed' = [observed EXCEPT !.promised = promised]
        BY <1>7, <3>1 DEF Finish
      <4>3. cursor \in Places /\ promised \in Positions
        BY <1>0, <2>2, <4>1, <4>2 DEF BindingType, ObservedType
      <4> QED BY <1>0, <2>2, <4>1, <4>2, <4>3 DEF BindingType, ObservedType
    <3>2. CASE run[w].kind # "poll"
      BY <1>0, <1>7, <3>2 DEF Finish
    <3> QED BY <3>1, <3>2
  <2>4. /\ cycle' \in CycleType /\ cycle'.begun = cycle.begun
        /\ cycle'.sweep \in {cycle.sweep, NoSweep, b.sweep}
        /\ run[w].kind = "sweep" \/ cycle' = cycle
        /\ cycle'.completed \in {cycle.completed, cycle.completed \cup {b.sweep.start}}
    <3>1. CASE run[w].kind = "poll"
      BY <1>0, <1>7, <3>1 DEF Finish
    <3>2. CASE run[w].kind # "poll"
      <4>1. PICK sweep \in {NoSweep, b.sweep}, requested \in {0, cycle.requested},
                 completed \in {cycle.completed, cycle.completed \cup {b.sweep.start}} :
              cycle' = [cycle EXCEPT !.sweep = sweep, !.requested = requested, !.completed = completed]
        BY <1>7, <3>2 DEF Finish
      <4>2. sweep \in SweepType /\ requested \in Nat /\ completed \in SUBSET Nat
        BY <1>0, <2>2, <4>1, ConstantTypes DEF CycleType, SweepType
      <4>3. run[w].kind = "sweep"
        BY <1>0, <3>2 DEF RunType
      <4> QED BY <1>0, <4>1, <4>2, <4>3 DEF CycleType
    <3> QED BY <3>1, <3>2
  <2>5. run[w].kind = "sweep" => b.sweep.start \in 1..cycle.begun
    BY <1>0, <2>1 DEF RunNumbered
  <2>6. cycle'.completed \subseteq 1..cycle'.begun /\ Numbered(cycle'.sweep, cycle'.begun)
    BY <2>4, <2>5, PartsTyped DEF Numbered
  <2>7. RunNumbered(Asleep, cycle'.begun) /\ Asleep \in RunType
    BY ConstantTypes
  <2>8. cycle.begun <= cycle'.begun /\ faults' \in 0..MaxFaults
    BY <1>0, <2>1, <2>4
  <2> QED BY <2>1, <2>3, <2>4, <2>6, <2>7, <2>8, RunStepTyped
<1>8. CASE Abandon(w)
  <2>1. /\ lease' \in LeaseType /\ faults' \in 0..MaxFaults
        /\ UNCHANGED <<mail, binding, cycle, workspace, observed>>
    <3>1. faults' = faults \/ Fault
      BY <1>8 DEF Abandon
    <3>2. faults' \in 0..MaxFaults
      BY <1>0, <3>1 DEF Fault, BoundsAssumption
    <3> QED BY <1>0, <1>8, <3>2 DEF Abandon
  <2>2. CASE run' = [run EXCEPT ![w] = Asleep]
    BY <2>1, <2>2, ConstantTypes, OnlyRunTyped
  <2>3. CASE run' = [run EXCEPT ![w].pc = "stray"]
    <3> DEFINE r == [run[w] EXCEPT !.pc = "stray"]
    <3>1. r \in RunType
      BY <1>0 DEF RunType, Stages
    <3>2. RunNumbered(r, cycle.begun)
      BY <1>0 DEF RunNumbered, RunType
    <3>3. run' = [run EXCEPT ![w] = r]
      BY <2>3
    <3> HIDE DEF r
    <3> QED BY <2>1, <3>1, <3>2, <3>3, OnlyRunTyped
  <2> QED BY <1>8, <2>2, <2>3 DEF Abandon
<1>9. CASE Stray(w)
  <2>1. CASE Land(w, Asleep)
    BY <2>1, ConstantTypes, LandTyped
  <2>2. CASE run' = [run EXCEPT ![w] = Asleep]
             /\ UNCHANGED <<mail, binding, cycle, lease, workspace, faults, observed>>
    BY <1>0, <2>2, ConstantTypes, OnlyRunTyped
  <2> QED BY <1>9, <2>1, <2>2 DEF Stray
<1> QED BY <1>1, <1>2, <1>3, <1>4, <1>5, <1>6, <1>7, <1>8, <1>9 DEF Step

\* Nothing the program holds ever leaves its type.
LEMMA TypesStep == ASSUME BoundsAssumption, Types, [Next]_vars PROVE Types'
<1>1. CASE UNCHANGED vars
  BY <1>1 DEF vars, Types, RunNumbered, Numbered
<1>2. CASE Next
  <2>1. CASE Environment
    BY <2>1, EnvironmentTypes
  <2>2. CASE \E w \in Workers : Step(w)
    BY <2>2, StepTypes
  <2>3. CASE \E w \in Workers, kind \in Kinds : Begin(w, kind)
    BY <2>3, BeginTypes
  <2> QED BY <1>2, <2>1, <2>2, <2>3 DEF Next
<1> QED BY <1>1, <1>2

\* Nothing of the program ever does.
LEMMA AlwaysTypes == Spec => []Types
<1>1. Init => Types
  BY BoundsAssumption, InitTypes
<1>2. Types /\ [Next]_vars => Types'
  BY BoundsAssumption, TypesStep
<1> QED BY <1>1, <1>2, PTL DEF Spec

\* The rows, the lease and the runs hold what they are declared to hold.
THEOREM TypeCorrect == Spec => []TypeOK
<1>1. Types => TypeOK
  BY TypesImplyTypeOK
<1> QED BY <1>1, AlwaysTypes, PTL

-----------------------------------------------------------------------------
(* What a position owes *)

\* What the coverage of a mailbox is judged by: the row, how much mail there
\* is, and what is recorded.
World == [box |-> binding.box, cursor |-> binding.cursor, cont |-> binding.cont,
          count |-> mail.count, accounted |-> workspace.accounted, gaps |-> workspace.gaps,
          promised |-> observed.promised]

WorldType == [box : 1..MaxBoxes, cursor : Places, cont : ContType, count : Positions,
              accounted : SUBSET Message, gaps : SUBSET GapType, promised : Positions]

Bigger(p, q) == IF q > p THEN q ELSE p

\* What it will be once a batch is committed and finished, but for its position.
With(wd, b) == [wd EXCEPT !.accounted = wd.accounted \cup b.ids, !.gaps = wd.gaps \cup b.gaps,
                          !.promised = Bigger(wd.promised, b.floor)]

\* A message nothing is owed for.
Proven(wd, m) ==
    \/ <<wd.box, m>> \in wd.accounted
    \/ m <= wd.promised
    \/ \E gap \in wd.gaps : gap.box = wd.box /\ m \in (gap.cursor + 1)..gap.low

UpTo(wd, n) == \A m \in 1..n : Proven(wd, m)

\* A message the pages after the one that was read will list.
Ahead(c, m) ==
    /\ c.page # NoPage
    /\ IF c.mode = "history" THEN m > c.page.at ELSE c.page.low < m /\ m <= c.page.at

\* A continuation forgets no message up to the position it is heading for.
Leads(wd, c) ==
    /\ c.pending \in Nat /\ wd.cursor <= c.pending /\ c.pending <= wd.count
    /\ c.mode \in {"history", "fallback"}
    /\ c.mode = "history" => wd.cursor # NoCursor
    /\ \A m \in 1..c.pending : Proven(wd, m) \/ m \in ToSet(c.ids) \/ Ahead(c, m)

ContOk(wd, c) ==
    IF c.mode = "none" THEN c = NoContinuation
    ELSE Leads(wd, c) /\ (c.ids # <<>> \/ c.page # NoPage)

\* A batch may move the cursor only over what is proven with it.
BatchOk(wd, b) ==
    IF b.complete
    THEN /\ b.cursor \in Nat /\ wd.cursor <= b.cursor /\ b.cursor <= wd.count
         /\ UpTo(wd, b.cursor) /\ b.cont = NoContinuation
    ELSE b.cont.mode # "none" /\ ContOk(wd, b.cont)

-----------------------------------------------------------------------------
(* The invariant *)

\* The lease is w's and has not run out.
Holds(w) == lease.holder = w /\ lease.live

\* The run that holds the lease works on the row as it is.
HolderOk(wd, r) ==
    /\ r.pc \notin {"idle", "stray"} => r.box = wd.box
    /\ r.kind = "poll" /\ r.pc \in {"begun", "read"} => r.cursor = wd.cursor /\ r.cont = wd.cont
    /\ r.kind = "poll" /\ r.pc = "read" => wd.cursor <= r.profile /\ r.profile <= wd.count
    /\ r.kind = "poll" /\ r.pc \in {"fetched", "asserted", "saved"}
         => BatchOk(With(wd, r.batch), r.batch)

\* What any run read stays in the workspace, and a poll that saved its batch,
\* or need not save it, has its records there.
ReaderOk(space, r) ==
    /\ r.pc = "read" => /\ r.seen.accounted \subseteq space.accounted
                        /\ r.seen.gaps \subseteq space.gaps
                        /\ r.seen.sweeps \subseteq space.sweeps
    /\ r.kind = "poll" /\ r.pc \in {"fetched", "asserted", "saved", "stray"} => r.batch.sweeps = {}
    /\ r.kind = "poll" /\ (r.pc = "saved" \/ (r.pc = "fetched" /\ ~r.batch.write))
         => r.batch.ids \subseteq space.accounted /\ r.batch.gaps \subseteq space.gaps

Rows ==
    /\ binding.cursor <= mail.count
    /\ UpTo(World, binding.cursor)
    /\ ContOk(World, binding.cont)
Readers == \A w \in Workers : ReaderOk(workspace, run[w])
Holder == \A w \in Workers : Holds(w) => HolderOk(World, run[w])

CoverInv == Rows /\ Readers /\ Holder

-----------------------------------------------------------------------------
(* Facts about worlds *)

\* The world of a state is of its type.
LEMMA WorldTyped == ASSUME Types PROVE World \in WorldType
BY DEF Types, World, WorldType, WorkspaceType

\* One world owes no more than another.
Grows(wd, wx) ==
    /\ wx.box = wd.box /\ wx.cursor = wd.cursor /\ wx.cont = wd.cont
    /\ wd.count <= wx.count
    /\ wd.accounted \subseteq wx.accounted /\ wd.gaps \subseteq wx.gaps
    /\ wd.promised <= wx.promised

\* What was proven stays proven.
LEMMA ProvenGrows ==
    ASSUME NEW wd \in WorldType, NEW wx \in WorldType, Grows(wd, wx), NEW m \in Nat, Proven(wd, m)
    PROVE  Proven(wx, m)
<1>1. wd.promised \in Nat /\ wx.promised \in Nat
  BY DEF WorldType, Positions
<1> QED BY <1>1 DEF Grows, Proven

\* So does what a position owes ...
LEMMA UpToGrows ==
    ASSUME NEW wd \in WorldType, NEW wx \in WorldType, Grows(wd, wx), NEW n \in Int, UpTo(wd, n)
    PROVE  UpTo(wx, n)
<1>1. \A m \in 1..n : m \in Nat
  OBVIOUS
<1> QED BY <1>1, ProvenGrows DEF UpTo

\* ... and what a continuation leads to ...
LEMMA LeadsGrows ==
    ASSUME NEW wd \in WorldType, NEW wx \in WorldType, Grows(wd, wx), NEW c, Leads(wd, c)
    PROVE  Leads(wx, c)
<1>1. wd.count \in Nat /\ wx.count \in Nat
  BY DEF WorldType, Positions
<1>2. c.pending \in Nat /\ wx.cursor <= c.pending /\ c.pending <= wx.count
  BY <1>1 DEF Leads, Grows
<1>3. \A m \in 1..c.pending : Proven(wx, m) \/ m \in ToSet(c.ids) \/ Ahead(c, m)
  <2> SUFFICES ASSUME NEW m \in 1..c.pending, ~(m \in ToSet(c.ids) \/ Ahead(c, m)) PROVE Proven(wx, m)
    OBVIOUS
  <2>1. Proven(wd, m) /\ m \in Nat
    BY DEF Leads
  <2> QED BY <2>1, ProvenGrows
<1> QED BY <1>2, <1>3 DEF Leads, Grows

\* ... whether there is one or not.
LEMMA ContGrows ==
    ASSUME NEW wd \in WorldType, NEW wx \in WorldType, Grows(wd, wx), NEW c, ContOk(wd, c)
    PROVE  ContOk(wx, c)
BY LeadsGrows DEF ContOk

\* What a world is with a batch.
LEMMA WithTyped ==
    ASSUME BoundsAssumption, NEW wd \in WorldType, NEW b \in BatchType
    PROVE  /\ With(wd, b) \in WorldType
           /\ With(wd, b).box = wd.box /\ With(wd, b).cursor = wd.cursor /\ With(wd, b).cont = wd.cont
           /\ With(wd, b).count = wd.count
           /\ With(wd, b).accounted = wd.accounted \cup b.ids
           /\ With(wd, b).gaps = wd.gaps \cup b.gaps
           /\ With(wd, b).promised = Bigger(wd.promised, b.floor)
<1>1. Bigger(wd.promised, b.floor) \in Positions
  BY DEF Bigger, WorldType, BatchType
<1> QED BY <1>1 DEF With, WorldType, BatchType

\* A larger world stays the larger one with a batch.
LEMMA WithGrows ==
    ASSUME BoundsAssumption, NEW wd \in WorldType, NEW wx \in WorldType, Grows(wd, wx), NEW b \in BatchType
    PROVE  Grows(With(wd, b), With(wx, b))
<1>1. wd.promised \in Nat /\ wx.promised \in Nat /\ b.floor \in Nat
  BY DEF WorldType, BatchType, Positions
<1>2. Bigger(wd.promised, b.floor) <= Bigger(wx.promised, b.floor)
  BY <1>1 DEF Bigger, Grows
<1> QED BY <1>2, WithTyped DEF Grows

\* A batch that may be finished stays one.
LEMMA BatchGrows ==
    ASSUME BoundsAssumption, NEW wd \in WorldType, NEW wx \in WorldType, Grows(wd, wx),
           NEW b, BatchOk(wd, b)
    PROVE  BatchOk(wx, b)
<1>1. wd.count \in Nat /\ wx.count \in Nat /\ wd.cursor \in Int
  BY DEF WorldType, Positions, Places, NoCursor
<1>2. CASE b.complete
  <2>1. b.cursor \in Int /\ UpTo(wd, b.cursor)
    BY <1>2 DEF BatchOk
  <2>2. UpTo(wx, b.cursor)
    BY <2>1, UpToGrows
  <2> QED BY <1>1, <1>2, <2>2 DEF BatchOk, Grows
<1>3. CASE ~b.complete
  BY <1>3, ContGrows DEF BatchOk
<1> QED BY <1>2, <1>3

\* What the holder of the lease may do stays so while the row does not change.
LEMMA HolderGrows ==
    ASSUME BoundsAssumption, NEW wd \in WorldType, NEW wx \in WorldType, Grows(wd, wx),
           NEW r \in RunType, HolderOk(wd, r)
    PROVE  HolderOk(wx, r)
<1>1. wd.count \in Nat /\ wx.count \in Nat /\ wd.cursor \in Int /\ r.profile \in Nat
      /\ r.batch \in BatchType
  BY DEF WorldType, Positions, Places, NoCursor, RunType
<1>2. With(wd, r.batch) \in WorldType /\ With(wx, r.batch) \in WorldType
      /\ Grows(With(wd, r.batch), With(wx, r.batch))
  BY <1>1, WithTyped, WithGrows
<1>3. BatchOk(With(wd, r.batch), r.batch) => BatchOk(With(wx, r.batch), r.batch)
  BY <1>2, BatchGrows
<1> QED BY <1>1, <1>3 DEF HolderOk, Grows
-----------------------------------------------------------------------------
(* What a poll reads *)

\* The ids left over and the pages ahead are those of the continuation.
LEMMA RemainingLeads ==
    ASSUME NEW wd, NEW r, Leads(wd, r.cont)
    PROVE  Leads(wd, Remaining(r))
<1>1. /\ Remaining(r).pending = r.cont.pending /\ Remaining(r).mode = r.cont.mode
      /\ Remaining(r).ids = r.cont.ids /\ Remaining(r).page = r.cont.page
  BY DEF Remaining, Listing
<1> QED BY <1>1 DEF Leads, Ahead

\* The next page of the window's listing.
LEMMA FallbackGoesOn ==
    ASSUME BoundsAssumption, Types, NEW wd, NEW c \in ContType, Leads(wd, c),
           c.mode = "fallback", c.ids = <<>>, c.page # NoPage
    PROVE  Leads(wd, Listing("fallback", FallbackPage(c.page), c.pending, FALSE))
<1> DEFINE p == FallbackPage(c.page)
           list == Listing("fallback", p, c.pending, FALSE)
<1>1. /\ list.pending = c.pending /\ list.mode = "fallback" /\ list.ids = p.ids /\ list.page = p.page
  BY DEF Listing
<1>2. /\ p.page # NoPage => p.page.low = c.page.low
      /\ \A m \in Nat : c.page.low < m /\ m <= c.page.at
           => m \in ToSet(p.ids) \/ (p.page # NoPage /\ m <= p.page.at)
  <2>1. c.page \in Pages /\ mail.count \in Positions /\ mail.old \in Positions
    BY DEF ContType, Types
  <2>2. FallbackLow(c.page) = c.page.low /\ FallbackTop(c.page) = c.page.at
    BY DEF FallbackLow, FallbackTop
  <2> HIDE DEF list
  <2> QED BY <2>1, <2>2, FallbackPageIs
<1> HIDE DEF p, list
<1>3. ToSet(c.ids) = {}
  BY DEF ToSet
<1>4. ASSUME NEW m \in 1..list.pending, ~Proven(wd, m)
      PROVE  m \in ToSet(list.ids) \/ Ahead(list, m)
  <2>1. m \in Nat /\ Ahead(c, m)
    BY <1>1, <1>3, <1>4 DEF Leads
  <2>2. c.page.low < m /\ m <= c.page.at
    BY <2>1 DEF Ahead
  <2> QED BY <1>1, <1>2, <2>1, <2>2 DEF Ahead
<1> QED BY <1>1, <1>4 DEF Leads, list, p

\* A page of history, from the cursor or from where the last one ended.
LEMMA HistoryGoesOn ==
    ASSUME BoundsAssumption, Types, NEW wd \in WorldType, wd.count = mail.count,
           wd.cursor # NoCursor, UpTo(wd, wd.cursor),
           NEW position \in Positions, NEW pending \in Nat,
           wd.cursor <= pending, pending <= wd.count,
           \A m \in 1..pending : Proven(wd, m) \/ m > position
    PROVE  Leads(wd, Listing("history", HistoryPage(position), pending, FALSE))
<1> DEFINE p == HistoryPage(position)
           list == Listing("history", p, pending, FALSE)
<1>1. /\ list.pending = pending /\ list.mode = "history" /\ list.ids = p.ids /\ list.page = p.page
  BY DEF Listing
<1>2. mail.count \in Positions /\ mail.count \in Nat
  BY DEF Types, Positions
<1>3. \A m \in 1..mail.count :
        m > position => m \in ToSet(p.ids) \/ (p.page # NoPage /\ m > p.page.at)
  BY <1>2, HistoryPageIs
<1> HIDE DEF p, list
<1>4. ASSUME NEW m \in 1..list.pending, ~Proven(wd, m)
      PROVE  m \in ToSet(list.ids) \/ Ahead(list, m)
  <2>1. m \in 1..mail.count /\ m > position
    BY <1>1, <1>2, <1>4
  <2> QED BY <1>1, <1>3, <2>1 DEF Ahead
<1> QED BY <1>1, <1>4 DEF Leads, list, p

\* The first page of the window's listing: what is older than the window is
\* owed for by the cursor, by a gap or by the floor of a first backfill.
LEMMA FallbackBegins ==
    ASSUME BoundsAssumption, Types, NEW wd \in WorldType, wd.count = mail.count,
           NEW pending \in Nat, NEW gap \in BOOLEAN,
           wd.cursor <= pending, pending <= wd.count,
           \A m \in 1..pending : m <= mail.old => Proven(wd, m)
    PROVE  Leads(wd, Listing("fallback", FallbackPage(NoPage), pending, gap))
<1> DEFINE p == FallbackPage(NoPage)
           list == Listing("fallback", p, pending, gap)
<1>1. /\ list.pending = pending /\ list.mode = "fallback" /\ list.ids = p.ids /\ list.page = p.page
  BY DEF Listing
<1>2. mail.count \in Positions /\ mail.count \in Nat /\ mail.old \in Positions /\ mail.old \in Nat
  BY DEF Types, Positions
<1>3. /\ p.page # NoPage => p.page.low = mail.old
      /\ \A m \in Nat : mail.old < m /\ m <= mail.count
           => m \in ToSet(p.ids) \/ (p.page # NoPage /\ m <= p.page.at)
  <2>1. FallbackLow(NoPage) = mail.old /\ FallbackTop(NoPage) = mail.count /\ NoPage \in Pages
    BY ConstantTypes DEF FallbackLow, FallbackTop
  <2> HIDE DEF list
  <2> QED BY <1>2, <2>1, FallbackPageIs
<1> HIDE DEF p, list
<1>4. ASSUME NEW m \in 1..list.pending, ~Proven(wd, m)
      PROVE  m \in ToSet(list.ids) \/ Ahead(list, m)
  <2>1. m \in Nat /\ mail.old < m /\ m <= mail.count
    BY <1>1, <1>2, <1>4
  <2> QED BY <1>1, <1>3, <2>1 DEF Ahead
<1> QED BY <1>1, <1>4 DEF Leads, list, p

\* Whatever a poll of the lease's holder goes through, it forgets no message up
\* to the position it is heading for.
LEMMA ListingLeads ==
    ASSUME BoundsAssumption, Types, CoverInv, NEW w \in Workers, Holds(w),
           run[w].pc = "read", run[w].kind = "poll",
           NEW list, list = (IF run[w].cont.ids # <<>> THEN Remaining(run[w]) ELSE NextListing(run[w])),
           NEW n \in 0..Len(list.ids), NEW b, b = PollBatch(w, list, n)
    PROVE  Leads(With(World, b), list)
<1> DEFINE r == run[w]
           wd == World
           wx == With(wd, b)
<1>1. /\ r \in RunType /\ r.cont \in ContType /\ r.profile \in Positions /\ r.profile \in Nat
      /\ mail.count \in Positions /\ mail.old \in Positions /\ mail.old \in Nat
      /\ wd \in WorldType
  <2>1. r \in RunType /\ mail.count \in Positions /\ mail.old \in Positions
    BY DEF Types
  <2>2. wd \in WorldType
    BY WorldTyped
  <2> HIDE DEF r, wd
  <2> QED BY <2>1, <2>2 DEF RunType, Positions
<1>2. list \in ListingType
  BY ListingTypes
<1>3. /\ b \in BatchType
      /\ b.gaps = IF list.gap THEN {[box |-> r.box, cursor |-> r.cursor, low |-> mail.old]} ELSE {}
      /\ b.floor = IF r.cursor = NoCursor /\ r.cont.mode = "none" THEN mail.old ELSE 0
  <2>1. IsPollBatch(b, w, list, n)
    BY <1>2, PollBatchType
  <2> QED BY <2>1 DEF IsPollBatch
<1>4. /\ wd.box = binding.box /\ wd.cursor = binding.cursor /\ wd.count = mail.count
      /\ wd.promised \in Nat /\ wd.cursor \in Places
  BY <1>1 DEF World, WorldType, Positions
<1>5. /\ r.box = wd.box /\ r.cursor = wd.cursor /\ r.cont = binding.cont
      /\ wd.cursor <= r.profile /\ r.profile <= wd.count
  BY DEF CoverInv, Holder, HolderOk, World
<1>6. UpTo(wd, wd.cursor) /\ ContOk(wd, r.cont)
  BY <1>4, <1>5 DEF CoverInv, Rows
<1>7. /\ wx \in WorldType /\ wx.box = wd.box /\ wx.cursor = wd.cursor /\ wx.count = wd.count
      /\ wx.gaps = wd.gaps \cup b.gaps /\ wx.promised = Bigger(wd.promised, b.floor)
      /\ Grows(wd, wx)
  <2>1. /\ wx \in WorldType /\ wx.box = wd.box /\ wx.cursor = wd.cursor /\ wx.count = wd.count
        /\ wx.gaps = wd.gaps \cup b.gaps /\ wx.promised = Bigger(wd.promised, b.floor)
        /\ wx.accounted = wd.accounted \cup b.ids /\ wx.cont = wd.cont
    BY <1>1, <1>3, WithTyped
  <2>2. b.floor \in Nat /\ wd.count \in Nat
    BY <1>1, <1>3 DEF BatchType, Positions, WorldType
  <2>3. wd.promised <= Bigger(wd.promised, b.floor)
    BY <1>4, <2>2 DEF Bigger
  <2> HIDE DEF wd, wx
  <2> QED BY <2>1, <2>2, <2>3 DEF Grows
<1> SUFFICES Leads(wx, list)
  OBVIOUS
<1> HIDE DEF r, wd, wx
<1>8. wd.cursor \in Int /\ UpTo(wx, wx.cursor) /\ ContOk(wx, r.cont)
  <2>1. wd.cursor \in Int
    BY <1>4 DEF Places, Positions, NoCursor
  <2> QED BY <1>1, <1>6, <1>7, <2>1, UpToGrows, ContGrows
<1>9. r.cont.mode # "none" => Leads(wx, r.cont) /\ (r.cont.ids # <<>> \/ r.cont.page # NoPage)
  BY <1>8 DEF ContOk
<1>10. r.cont.mode = "none" => r.cont.ids = <<>> /\ r.cont.page = NoPage
  BY <1>8 DEF ContOk, NoContinuation
<1>11. CASE r.cont.ids # <<>>
  <2>1. list = Remaining(r)
    BY <1>11 DEF r
  <2> QED BY <1>9, <1>10, <1>11, <2>1, RemainingLeads
<1>12. CASE r.cont.ids = <<>>
  <2>0. list = NextListing(r)
    BY <1>12 DEF r
  <2>1. CASE r.cont.mode = "fallback"
    <3>1. list = Listing("fallback", FallbackPage(r.cont.page), r.cont.pending, FALSE)
      BY <2>0, <2>1 DEF NextListing
    <3> QED BY <1>1, <1>9, <1>12, <2>1, <3>1, FallbackGoesOn
  <2>2. CASE r.cont.mode # "fallback" /\ r.cursor # NoCursor /\ r.cursor >= mail.expired
    <3> DEFINE position == IF r.cont.page = NoPage THEN r.cursor ELSE r.cont.page.at
               resumed == IF r.cont.mode = "none" THEN r.profile ELSE r.cont.pending
    <3>1. list = Listing("history", HistoryPage(position), resumed, FALSE)
      BY <2>0, <2>2 DEF NextListing
    <3>2. CASE r.cont.mode = "none"
      <4>1. position = wd.cursor /\ resumed = r.profile
        BY <1>5, <1>10, <3>2
      <4>2. position \in Positions
        BY <1>4, <1>5, <2>2, <4>1 DEF Places
      <4>3. \A m \in 1..resumed : Proven(wx, m) \/ m > position
        BY <1>1, <1>7, <1>8, <4>1 DEF UpTo
      <4>4. resumed \in Nat /\ wx.cursor <= resumed /\ resumed <= wx.count /\ wx.count = mail.count
            /\ wx.cursor # NoCursor
        BY <1>1, <1>4, <1>5, <1>7, <2>2, <4>1
      <4> HIDE DEF position, resumed
      <4>5. Leads(wx, Listing("history", HistoryPage(position), resumed, FALSE))
        BY <1>7, <1>8, <4>2, <4>3, <4>4, HistoryGoesOn
      <4> QED BY <3>1, <4>5
    <3>3. CASE r.cont.mode # "none"
      <4>1. /\ position = r.cont.page.at /\ resumed = r.cont.pending /\ r.cont.mode = "history"
            /\ Leads(wx, r.cont)
        BY <1>1, <1>9, <1>12, <2>2, <3>3 DEF ContType
      <4>2. position \in Positions
        BY <1>1, <4>1 DEF ContType, Pages
      <4>3. ToSet(r.cont.ids) = {}
        BY <1>12 DEF ToSet
      <4>4. \A m \in 1..resumed : Proven(wx, m) \/ m > position
        BY <4>1, <4>3 DEF Leads, Ahead
      <4>5. resumed \in Nat /\ wx.cursor <= resumed /\ resumed <= wx.count /\ wx.count = mail.count
            /\ wx.cursor # NoCursor
        BY <1>4, <1>5, <1>7, <2>2, <4>1 DEF Leads
      <4> HIDE DEF position, resumed
      <4>6. Leads(wx, Listing("history", HistoryPage(position), resumed, FALSE))
        BY <1>7, <1>8, <4>2, <4>4, <4>5, HistoryGoesOn
      <4> QED BY <3>1, <4>6
    <3> QED BY <3>2, <3>3
  <2>3. CASE r.cont.mode # "fallback" /\ ~(r.cursor # NoCursor /\ r.cursor >= mail.expired)
    <3>1. list = Listing("fallback", FallbackPage(NoPage), r.profile, r.cursor # NoCursor)
      BY <2>0, <2>3 DEF NextListing
    <3>2. list.gap = (r.cursor # NoCursor)
      BY <3>1 DEF Listing
    <3>3. ASSUME NEW m \in 1..r.profile, m <= mail.old PROVE Proven(wx, m)
      <4>1. CASE r.cursor = NoCursor
        <5>1. r.cont.mode = "none"
          BY <1>1, <1>5, <1>7, <1>9, <2>3, <4>1 DEF Leads, ContType
        <5>2. wx.promised = Bigger(wd.promised, mail.old)
          BY <1>3, <1>7, <4>1, <5>1
        <5>3. m <= wx.promised
          BY <1>1, <1>4, <3>3, <5>2 DEF Bigger
        <5> QED BY <5>3 DEF Proven
      <4>2. CASE r.cursor # NoCursor /\ m <= r.cursor
        <5>1. m \in 1..wx.cursor
          BY <1>1, <1>5, <1>7, <1>8, <4>2
        <5> QED BY <1>8, <5>1 DEF UpTo
      <4>3. CASE r.cursor # NoCursor /\ ~(m <= r.cursor)
        <5> DEFINE gap == [box |-> r.box, cursor |-> r.cursor, low |-> mail.old]
        <5>1. gap \in wx.gaps
          BY <1>3, <1>7, <3>2, <4>3
        <5>2. gap.box = wx.box /\ m \in (gap.cursor + 1)..gap.low
          BY <1>1, <1>5, <1>7, <1>8, <3>3, <4>3
        <5> HIDE DEF gap
        <5> QED BY <5>1, <5>2 DEF Proven
      <4> QED BY <4>1, <4>2, <4>3
    <3>4. /\ r.profile \in Nat /\ wx.cursor <= r.profile /\ r.profile <= wx.count /\ wx.count = mail.count
          /\ (r.cursor # NoCursor) \in BOOLEAN
      BY <1>1, <1>4, <1>5, <1>7
    <3> DEFINE pending == r.profile
               gap == r.cursor # NoCursor
    <3>5. /\ pending \in Nat /\ gap \in BOOLEAN
          /\ \A m \in 1..pending : m <= mail.old => Proven(wx, m)
          /\ wx.cursor <= pending /\ pending <= wx.count /\ wx.count = mail.count
      BY <3>3, <3>4
    <3>6. list = Listing("fallback", FallbackPage(NoPage), pending, gap)
      BY <3>1
    <3> HIDE DEF pending, gap
    <3>7. Leads(wx, Listing("fallback", FallbackPage(NoPage), pending, gap))
      BY <1>7, <3>5, FallbackBegins
    <3> QED BY <3>6, <3>7
  <2> QED BY <2>1, <2>2, <2>3
<1> QED BY <1>11, <1>12

-----------------------------------------------------------------------------
(* Every step keeps the invariant *)

\* A poll of the lease's holder makes a batch that may be finished.
LEMMA PollBatchOk ==
    ASSUME BoundsAssumption, Types, CoverInv, NEW w \in Workers, Holds(w),
           run[w].pc = "read", run[w].kind = "poll",
           NEW list, list = (IF run[w].cont.ids # <<>> THEN Remaining(run[w]) ELSE NextListing(run[w])),
           NEW n \in 0..Len(list.ids), NEW b, b = PollBatch(w, list, n)
    PROVE  BatchOk(With(World, b), b)
<1> DEFINE r == run[w]
           wd == World
           wx == With(wd, b)
           first == FirstOf(list.ids, n)
           rest == RestOf(list.ids, n)
<1>1. list \in ListingType
  BY ListingTypes
<1>2. Leads(wx, list)
  BY ListingLeads
<1>3. IsPollBatch(b, w, list, n)
  BY <1>1, PollBatchType
<1>4. /\ b \in BatchType /\ b.ids = {<<r.box, m>> : m \in ToSet(first)}
      /\ b.complete <=> rest = <<>> /\ list.page = NoPage
      /\ b.cursor = IF b.complete THEN list.pending ELSE NoCursor
      /\ b.cont = IF b.complete THEN NoContinuation
                  ELSE [mode |-> list.mode, page |-> list.page, pending |-> list.pending, ids |-> rest]
  BY <1>3 DEF IsPollBatch
<1>5. ToSet(list.ids) = ToSet(first) \cup ToSet(rest)
  <2>1. list.ids \in Seq(Mails)
    BY <1>1 DEF ListingType, Lists
  <2> QED BY <2>1, SplitList
<1>6. r.box = wd.box /\ wd \in WorldType
  BY WorldTyped DEF CoverInv, Holder, HolderOk
<1>7. wx.box = wd.box /\ wx.accounted = wd.accounted \cup b.ids
  BY <1>4, <1>6, WithTyped
<1> SUFFICES BatchOk(wx, b)
  OBVIOUS
<1> HIDE DEF r, wd, wx, first, rest
<1>8. \A m \in ToSet(first) : Proven(wx, m)
  <2> SUFFICES ASSUME NEW m \in ToSet(first) PROVE Proven(wx, m)
    OBVIOUS
  <2>1. <<wx.box, m>> \in wx.accounted
    BY <1>4, <1>6, <1>7
  <2> QED BY <2>1 DEF Proven
<1>9. /\ list.pending \in Nat /\ wx.cursor <= list.pending /\ list.pending <= wx.count
      /\ list.mode \in {"history", "fallback"}
      /\ list.mode = "history" => wx.cursor # NoCursor
      /\ \A m \in 1..list.pending : Proven(wx, m) \/ m \in ToSet(list.ids) \/ Ahead(list, m)
  BY <1>2 DEF Leads
<1>10. CASE b.complete
  <2>1. ToSet(rest) = {} /\ list.page = NoPage
    BY <1>4, <1>10 DEF ToSet
  <2>2. \A m \in 1..list.pending : Proven(wx, m)
    BY <1>5, <1>8, <1>9, <2>1 DEF Ahead
  <2> QED BY <1>4, <1>9, <1>10, <2>2 DEF BatchOk, UpTo
<1>11. CASE ~b.complete
  <2> DEFINE c == [mode |-> list.mode, page |-> list.page, pending |-> list.pending, ids |-> rest]
  <2>1. /\ b.cont = c /\ c.mode = list.mode /\ c.page = list.page /\ c.pending = list.pending
        /\ c.ids = rest /\ (c.ids # <<>> \/ c.page # NoPage)
    BY <1>4, <1>11
  <2> HIDE DEF c
  <2>2. \A m \in 1..c.pending : Proven(wx, m) \/ m \in ToSet(c.ids) \/ Ahead(c, m)
    BY <1>5, <1>8, <1>9, <2>1 DEF Ahead
  <2>3. Leads(wx, c) /\ c.mode # "none"
    BY <1>9, <2>1, <2>2 DEF Leads
  <2> QED BY <1>11, <2>1, <2>3 DEF BatchOk, ContOk
<1> QED BY <1>10, <1>11

\* A workspace that lost nothing.
SpaceGrows(space, sx) ==
    space.accounted \subseteq sx.accounted /\ space.gaps \subseteq sx.gaps /\ space.sweeps \subseteq sx.sweeps

\* A run whose revision became stale is otherwise what it was.
StaleOf(r) == [r EXCEPT !.current = FALSE]

\* A larger workspace does not disturb what a run owes.
LEMMA ReaderGrows ==
    ASSUME NEW space, NEW sx, SpaceGrows(space, sx), NEW r, ReaderOk(space, r)
    PROVE  ReaderOk(sx, r)
BY DEF SpaceGrows, ReaderOk

\* Nor does a stale revision.
LEMMA StaleOk ==
    ASSUME NEW wd, NEW space, NEW r \in RunType
    PROVE  (HolderOk(wd, r) => HolderOk(wd, StaleOf(r))) /\ (ReaderOk(space, r) => ReaderOk(space, StaleOf(r)))
<1> DEFINE x == StaleOf(r)
<1>1. /\ x.pc = r.pc /\ x.kind = r.kind /\ x.box = r.box /\ x.cursor = r.cursor /\ x.cont = r.cont
      /\ x.profile = r.profile /\ x.batch = r.batch /\ x.seen = r.seen
  BY DEF StaleOf, RunType
<1> HIDE DEF x
<1>2. HolderOk(wd, r) => HolderOk(wd, x)
  BY <1>1 DEF HolderOk
<1>3. ReaderOk(space, r) => ReaderOk(space, x)
  BY <1>1 DEF ReaderOk
<1> QED BY <1>2, <1>3 DEF x

\* A run that ended owes nothing.
LEMMA AsleepOk == \A wd, space : HolderOk(wd, Asleep) /\ ReaderOk(space, Asleep)
BY DEF HolderOk, ReaderOk, Asleep

\* Rows that only gained records stay in order.
LEMMA RowsGrow ==
    ASSUME BoundsAssumption, Types, Types', CoverInv, Grows(World, World')
    PROVE  Rows'
<1> DEFINE wd == World
           wx == World'
<1>1. wd \in WorldType
  BY WorldTyped
<1>2. wx \in WorldType
  BY DEF Types, World, WorldType, WorkspaceType
<1>3. /\ wd.cursor = binding.cursor /\ wd.cont = binding.cont /\ wd.count = mail.count
      /\ wx.cursor = binding'.cursor /\ wx.cont = binding'.cont /\ wx.count = mail'.count
  BY DEF World
<1>4. wd.cursor <= wd.count /\ UpTo(wd, wd.cursor) /\ ContOk(wd, wd.cont)
  BY <1>3 DEF CoverInv, Rows
<1>5. Grows(wd, wx)
  OBVIOUS
<1> SUFFICES wx.cursor <= wx.count /\ UpTo(wx, wx.cursor) /\ ContOk(wx, wx.cont)
  BY <1>3 DEF Rows
<1> HIDE DEF wd, wx
<1>6. wd.count \in Nat /\ wx.count \in Nat /\ wd.cursor \in Int
  BY <1>1, <1>2 DEF WorldType, Positions, Places, NoCursor
<1>7. UpTo(wx, wx.cursor)
  BY <1>1, <1>2, <1>4, <1>5, <1>6, UpToGrows DEF Grows
<1>8. ContOk(wx, wx.cont)
  BY <1>1, <1>2, <1>4, <1>5, ContGrows DEF Grows
<1> QED BY <1>4, <1>5, <1>6, <1>7, <1>8 DEF Grows

\* A step under which the rows only gain records, nobody else gets the lease
\* and the other runs change at most their revision: the rest is about the
\* runs that took it.
LEMMA CoverKept ==
    ASSUME BoundsAssumption, Types, Types', CoverInv, Grows(World, World'),
           SpaceGrows(workspace, workspace'), NEW A,
           \A v \in Workers \ A : (Holds(v)' => Holds(v)) /\ run'[v] \in {run[v], StaleOf(run[v])},
           \A v \in Workers \cap A : ReaderOk(workspace', run'[v]) /\ (Holds(v)' => HolderOk(World', run'[v]))
    PROVE  CoverInv'
<1> DEFINE wd == World
           wx == World'
<1>1. wd \in WorldType /\ wx \in WorldType /\ Grows(wd, wx)
  <2>1. wd \in WorldType
    BY WorldTyped
  <2>2. wx \in WorldType
    BY DEF Types, World, WorldType, WorkspaceType
  <2> QED BY <2>1, <2>2
<1>2. Rows'
  BY RowsGrow
<1>3. ASSUME NEW v \in Workers
      PROVE  ReaderOk(workspace', run'[v]) /\ (Holds(v)' => HolderOk(wx, run'[v]))
  <2>1. CASE v \in A
    BY <2>1
  <2>2. CASE v \notin A
    <3>1. run[v] \in RunType /\ ReaderOk(workspace, run[v]) /\ (Holds(v) => HolderOk(wd, run[v]))
      BY PartsTyped DEF CoverInv, Readers, Holder
    <3>2. (Holds(v)' => Holds(v)) /\ run'[v] \in {run[v], StaleOf(run[v])}
      BY <2>2
    <3> DEFINE gets == Holds(v)'
    <3> HIDE DEF wd, wx, gets
    <3>3. ReaderOk(workspace, run'[v]) /\ (Holds(v) => HolderOk(wd, run'[v]))
      BY <3>1, <3>2, StaleOk
    <3>4. ReaderOk(workspace', run'[v])
      BY <3>3, ReaderGrows
    <3>5. run'[v] \in RunType
      BY <3>1, <3>2 DEF StaleOf, RunType
    <3>6. Holds(v) => HolderOk(wx, run'[v])
      BY <1>1, <3>3, <3>5, HolderGrows
    <3> QED BY <3>2, <3>4, <3>6 DEF gets
  <2> QED BY <2>1, <2>2
<1> QED BY <1>2, <1>3 DEF CoverInv, Readers, Holder

\* At first no position was taken and nothing is held.
LEMMA CoverInit == ASSUME BoundsAssumption, Init PROVE CoverInv
<1>1. /\ mail.count = 0 /\ binding.cursor = NoCursor /\ binding.cont = NoContinuation /\ lease = Unleased
      /\ \A w \in Workers : run[w] = Asleep
  BY DEF Init
<1>2. Rows
  BY <1>1 DEF Rows, NoCursor, UpTo, ContOk, NoContinuation, World
<1>3. Readers
  BY <1>1, AsleepOk DEF Readers
<1>4. Holder
  BY <1>1 DEF Holder, Holds, Unleased
<1> QED BY <1>2, <1>3, <1>4 DEF CoverInv

\* When the owner or the mailbox changes hands nobody holds the lease.
LEMMA CoverReset ==
    ASSUME BoundsAssumption, Types, Types', CoverInv, Disable \/ Enable \/ Relink
    PROVE  CoverInv'
<1>1. lease' = Unleased /\ run' = run /\ workspace' = workspace
  BY DEF Disable, Enable, Relink
<1>2. Readers'
  BY <1>1 DEF CoverInv, Readers
<1>3. Holder'
  BY <1>1 DEF Holder, Holds, Unleased
<1>4. binding'.cont = NoContinuation
  <2>1. binding \in BindingType
    BY PartsTyped
  <2>2. CASE Disable
    BY <2>1, <2>2 DEF Disable, BindingType
  <2>3. CASE Enable
    BY <2>1, <2>3 DEF Enable, BindingType
  <2>4. CASE Relink
    BY <2>4 DEF Relink
  <2> QED BY <2>2, <2>3, <2>4
<1>5. ContOk(World', binding'.cont)
  BY <1>4 DEF ContOk, NoContinuation
<1>6. binding'.cursor <= mail'.count /\ UpTo(World', binding'.cursor)
  <2>1. CASE Disable
    <3>1. /\ binding'.cursor = binding.cursor /\ binding'.box = binding.box
          /\ mail' = mail /\ observed' = observed
      BY <2>1, PartsTyped DEF Disable, BindingType
    <3>2. UpTo(World, binding.cursor) /\ binding.cursor <= mail.count
      BY DEF CoverInv, Rows
    <3>3. \A m : Proven(World', m) <=> Proven(World, m)
      BY <1>1, <3>1 DEF Proven, World
    <3> QED BY <3>1, <3>2, <3>3 DEF UpTo
  <2>2. CASE Enable \/ Relink
    <3>1. binding'.cursor = -1 /\ mail'.count \in Nat
      <4>1. mail'.count \in Positions
        BY DEF Types
      <4>2. binding'.cursor = -1
        <5>1. binding \in BindingType
          BY PartsTyped
        <5>2. CASE Enable
          BY <5>1, <5>2 DEF Enable, BindingType, NoCursor
        <5>3. CASE Relink
          BY <5>3 DEF Relink, NoCursor
        <5> QED BY <2>2, <5>2, <5>3
      <4> QED BY <4>1, <4>2 DEF Positions
    <3>2. 1..binding'.cursor = {}
      BY <3>1
    <3> QED BY <3>1, <3>2 DEF UpTo
  <2> QED BY <2>1, <2>2
<1> QED BY <1>2, <1>3, <1>5, <1>6 DEF CoverInv, Rows

\* A step of the environment.
LEMMA CoverEnvironment ==
    ASSUME BoundsAssumption, Types, Types', CoverInv, Environment PROVE CoverInv'
<1>1. CASE Disable \/ Enable \/ Relink
  BY <1>1, CoverReset
<1>2. CASE Arrive \/ Age \/ Leave \/ Reconnect \/ TouchBinding \/ OtherCommit \/ Expire \/ Request
  <2>1. binding' = binding /\ workspace' = workspace /\ observed' = observed
    BY <1>2 DEF Arrive, Age, Leave, Reconnect, TouchBinding, OtherCommit, Expire, Request
  <2>2. mail.count <= mail'.count
    <3>1. mail.count \in Nat /\ mail \in MailType
      BY PartsTyped DEF Positions
    <3>2. CASE Arrive
      BY <3>1, <3>2 DEF Arrive, MailType
    <3>3. CASE Age
      BY <3>1, <3>3 DEF Age, MailType
    <3>4. CASE Leave
      BY <3>1, <3>4 DEF Leave, MailType
    <3>5. CASE mail' = mail
      BY <3>1, <3>5
    <3> QED BY <1>2, <3>2, <3>3, <3>4, <3>5 DEF Reconnect, TouchBinding, OtherCommit, Expire, Request
  <2>3. Grows(World, World')
    <3>1. observed.promised \in Nat
      BY PartsTyped DEF ObservedType, Positions
    <3> QED BY <2>1, <2>2, <3>1 DEF Grows, World
  <2>4. SpaceGrows(workspace, workspace')
    BY <2>1 DEF SpaceGrows
  <2>5. \A v \in Workers : run'[v] \in {run[v], StaleOf(run[v])}
    BY <1>2 DEF Arrive, Age, Leave, Reconnect, TouchBinding, OtherCommit, Expire, Request, StaleOf
  <2>6. \A v \in Workers : Holds(v)' => Holds(v)
    <3>1. CASE lease' = lease
      BY <3>1 DEF Holds
    <3>2. CASE lease' = Unleased
      BY <3>2 DEF Holds, Unleased
    <3>3. CASE TouchBinding \/ Expire
      <4>1. lease'.holder = lease.holder /\ (lease'.live => lease.live)
        BY <3>3, PartsTyped DEF TouchBinding, Expire, LeaseType
      <4> QED BY <4>1 DEF Holds
    <3> QED BY <1>2, <3>1, <3>2, <3>3 DEF Arrive, Age, Leave, Reconnect, OtherCommit, Request
  <2> DEFINE A == {}
  <2>7. /\ \A v \in Workers \ A : (Holds(v)' => Holds(v)) /\ run'[v] \in {run[v], StaleOf(run[v])}
        /\ \A v \in Workers \cap A : ReaderOk(workspace', run'[v]) /\ (Holds(v)' => HolderOk(World', run'[v]))
    BY <2>5, <2>6
  <2> HIDE DEF A
  <2> QED BY <2>3, <2>4, <2>7, CoverKept
<1> QED BY <1>1, <1>2 DEF Environment

\* A step of one run that leaves the rows and the workspace alone.
LEMMA CoverOneRun ==
    ASSUME BoundsAssumption, Types, Types', CoverInv, NEW w \in Workers, NEW r,
           UNCHANGED <<mail, binding, workspace, observed>>, run' = [run EXCEPT ![w] = r],
           \A v \in Workers \ {w} : Holds(v)' => Holds(v),
           ReaderOk(workspace, r), Holds(w)' => HolderOk(World, r)
    PROVE  CoverInv'
<1>1. World' = World
  BY DEF World
<1>2. Grows(World, World')
  <2>1. observed.promised \in Nat /\ mail.count \in Nat
    BY PartsTyped DEF ObservedType, Positions
  <2> QED BY <2>1 DEF Grows, World
<1>3. SpaceGrows(workspace, workspace')
  BY DEF SpaceGrows
<1>4. run \in [Workers -> RunType]
  BY PartsTyped
<1>5. run'[w] = r /\ \A v \in Workers \ {w} : run'[v] = run[v]
  BY <1>4
<1>6. \A v \in Workers \cap {w} : ReaderOk(workspace', run'[v]) /\ (Holds(v)' => HolderOk(World', run'[v]))
  BY <1>1, <1>5
<1> QED BY <1>2, <1>3, <1>5, <1>6, CoverKept

\* A run begins: it takes the lease and the row as it is.
LEMMA CoverBegin ==
    ASSUME BoundsAssumption, Types, Types', CoverInv, NEW w \in Workers, NEW kind \in Kinds,
           Begin(w, kind)
    PROVE  CoverInv'
<1> DEFINE pc == IF kind = "poll" \/ Asked THEN "begun" ELSE "vain"
           cursor == IF kind = "poll" THEN binding.cursor ELSE NoCursor
           cont == IF kind = "poll" THEN binding.cont ELSE NoContinuation
           sweep == IF kind = "sweep" THEN cycle.sweep ELSE NoSweep
           r == [Asleep EXCEPT !.pc = pc, !.kind = kind, !.box = binding.box, !.cursor = cursor,
                               !.cont = cont, !.sweep = sweep]
<1>1. run' = [run EXCEPT ![w] = r] /\ UNCHANGED <<mail, binding, workspace, observed>>
  BY DEF Begin
<1>2. lease'.holder = w
  BY DEF Begin
<1>3. pc \in {"begun", "vain"} /\ (kind = "poll" => cursor = binding.cursor /\ cont = binding.cont)
  OBVIOUS
<1> HIDE DEF pc, cursor, cont, sweep
<1>4. r.pc = pc /\ r.kind = kind /\ r.box = binding.box /\ r.cursor = cursor /\ r.cont = cont
  BY DEF Asleep
<1> HIDE DEF r
<1>5. HolderOk(World, r)
  BY <1>3, <1>4 DEF HolderOk, World
<1>6. ReaderOk(workspace, r)
  BY <1>3, <1>4 DEF ReaderOk
<1>7. \A v \in Workers \ {w} : Holds(v)' => Holds(v)
  BY <1>2 DEF Holds
<1> QED BY <1>1, <1>5, <1>6, <1>7, CoverOneRun

\* A page was read: a poll's batch may be finished by whoever holds the lease.
LEMMA CoverFetchPoll ==
    ASSUME BoundsAssumption, Types, Types', CoverInv, NEW w \in Workers, FetchPoll(w)
    PROVE  CoverInv'
<1> DEFINE list == IF run[w].cont.ids # <<>> THEN Remaining(run[w]) ELSE NextListing(run[w])
<1>1. list \in ListingType
  BY ListingTypes
<1>2. PICK n \in 0..RunLimit : n <= Len(list.ids) /\ Fetched(w, PollBatch(w, list, n))
  BY DEF FetchPoll
<1>3. /\ run[w].pc = "read" /\ run[w].kind = "poll" /\ run[w].box = binding.box /\ lease' = lease
      /\ UNCHANGED <<mail, binding, workspace, observed>>
  BY DEF FetchPoll
<1>4. PICK listed : listed = list
  OBVIOUS
<1>5. listed = (IF run[w].cont.ids # <<>> THEN Remaining(run[w]) ELSE NextListing(run[w]))
  BY <1>4
<1> HIDE DEF list
<1>6. n \in 0..Len(listed.ids)
  <2>1. listed.ids \in Seq(Mails)
    BY <1>1, <1>4 DEF ListingType, Lists
  <2>2. Len(listed.ids) \in Nat
    BY <2>1, LenProperties
  <2> QED BY <1>2, <1>4, <2>2
<1>7. PICK b : b = PollBatch(w, listed, n)
  OBVIOUS
<1>8. IsPollBatch(b, w, listed, n)
  BY <1>1, <1>4, <1>6, <1>7, PollBatchType
<1> DEFINE r == [Asleep EXCEPT !.pc = "fetched", !.kind = run[w].kind,
                               !.box = run[w].box, !.current = run[w].current, !.batch = b]
<1>9. run' = [run EXCEPT ![w] = r]
  BY <1>2, <1>4, <1>7 DEF Fetched
<1>10. r.pc = "fetched" /\ r.kind = "poll" /\ r.box = binding.box /\ r.batch = b
  BY <1>3 DEF Asleep
<1> HIDE DEF r
<1>11. Holds(w) => HolderOk(World, r)
  <2> SUFFICES ASSUME Holds(w) PROVE HolderOk(World, r)
    OBVIOUS
  <2>1. BatchOk(With(World, b), b)
    BY <1>3, <1>5, <1>6, <1>7, PollBatchOk
  <2> QED BY <1>10, <2>1 DEF HolderOk, World
<1>12. ReaderOk(workspace, r)
  <2>1. run[w].seen.accounted \subseteq workspace.accounted /\ run[w].seen.gaps \subseteq workspace.gaps
    BY <1>3 DEF CoverInv, Readers, ReaderOk
  <2>2. b.sweeps = {} /\ (~b.write => b.ids \subseteq run[w].seen.accounted /\ b.gaps \subseteq run[w].seen.gaps)
    BY <1>8 DEF IsPollBatch
  <2> QED BY <1>10, <2>1, <2>2 DEF ReaderOk
<1>13. \A v \in Workers : Holds(v)' => Holds(v)
  BY <1>3 DEF Holds
<1> QED BY <1>3, <1>9, <1>11, <1>12, <1>13, CoverOneRun

\* A commit adds the batch to the workspace.
LEMMA CoverLand ==
    ASSUME BoundsAssumption, Types, Types', CoverInv, NEW w \in Workers, NEW after, Land(w, after),
           ReaderOk(workspace', after), Holds(w)' => HolderOk(World', after)
    PROVE  CoverInv'
<1>1. /\ workspace'.accounted = workspace.accounted \cup run[w].batch.ids
      /\ workspace'.gaps = workspace.gaps \cup run[w].batch.gaps
      /\ workspace'.sweeps = workspace.sweeps \cup run[w].batch.sweeps
      /\ mail' = mail /\ binding' = binding /\ lease' = lease
  BY DEF Land
<1>2. observed'.promised = observed.promised
  BY PartsTyped DEF Land, ObservedType
<1>3. SpaceGrows(workspace, workspace')
  BY <1>1 DEF SpaceGrows
<1>4. Grows(World, World')
  <2>1. observed.promised \in Nat /\ mail.count \in Nat
    BY PartsTyped DEF ObservedType, Positions
  <2> QED BY <1>1, <1>2, <2>1 DEF Grows, World
<1>5. run'[w] = after /\ \A v \in Workers \ {w} : run'[v] = StaleOf(run[v])
  BY DEF Land, StaleOf
<1>6. \A v \in Workers : Holds(v)' => Holds(v)
  BY <1>1 DEF Holds
<1>7. \A v \in Workers \cap {w} : ReaderOk(workspace', run'[v]) /\ (Holds(v)' => HolderOk(World', run'[v]))
  BY <1>5
<1> QED BY <1>3, <1>4, <1>5, <1>6, <1>7, CoverKept

\* The end of a run: what its batch is proven with is there, so the row may
\* take the batch's position.
LEMMA CoverFinish ==
    ASSUME BoundsAssumption, Types, Types', CoverInv, NEW w \in Workers, Finish(w)
    PROVE  CoverInv' /\ (run[w].kind = "poll" => binding'.cursor >= binding.cursor)
<1> DEFINE b == run[w].batch
           wd == World
           wx == With(wd, b)
           wy == World'
<1>1. /\ run' = [run EXCEPT ![w] = Asleep] /\ lease' = Unleased /\ mail' = mail /\ workspace' = workspace
      /\ run[w].pc = "saved" /\ Holds(w)
  BY DEF Finish, Owns, Holds
<1>2. \A v \in Workers : ~Holds(v)'
  BY <1>1 DEF Holds, Unleased
<1>3. CASE run[w].kind # "poll"
  <2>1. UNCHANGED <<mail, binding, workspace, observed>>
    BY <1>1, <1>3 DEF Finish
  <2>2. CoverInv'
    BY <1>1, <1>2, <2>1, AsleepOk, CoverOneRun
  <2> QED BY <1>3, <2>2
<1>4. CASE run[w].kind = "poll"
  <2>1. /\ binding' = [binding EXCEPT !.cursor = IF b.complete THEN b.cursor ELSE @, !.cont = b.cont]
        /\ observed' = [observed EXCEPT !.promised = IF b.floor > @ THEN b.floor ELSE @]
    BY <1>4 DEF Finish
  <2>2. /\ binding'.box = binding.box /\ binding'.cont = b.cont
        /\ binding'.cursor = IF b.complete THEN b.cursor ELSE binding.cursor
        /\ observed'.promised = Bigger(observed.promised, b.floor)
    BY <2>1, PartsTyped DEF BindingType, ObservedType, Bigger
  <2>3. b.ids \subseteq workspace.accounted /\ b.gaps \subseteq workspace.gaps
    BY <1>1, <1>4 DEF CoverInv, Readers, ReaderOk
  <2>4. BatchOk(wx, b)
    BY <1>1, <1>4 DEF CoverInv, Holder, HolderOk
  <2>5. b \in BatchType /\ wd \in WorldType
    BY PartsTyped, WorldTyped
  <2>6. /\ wx.box = wd.box /\ wx.cursor = wd.cursor /\ wx.cont = wd.cont /\ wx.count = wd.count
        /\ wx.accounted = wd.accounted \cup b.ids /\ wx.gaps = wd.gaps \cup b.gaps
        /\ wx.promised = Bigger(wd.promised, b.floor) /\ wx \in WorldType
    BY <2>5, WithTyped
  <2>7. /\ wd.box = binding.box /\ wd.count = mail.count /\ wd.accounted = workspace.accounted
        /\ wd.gaps = workspace.gaps /\ wd.promised = observed.promised /\ wd.cursor = binding.cursor
        /\ wy.box = binding'.box /\ wy.count = mail'.count /\ wy.accounted = workspace'.accounted
        /\ wy.gaps = workspace'.gaps /\ wy.promised = observed'.promised
        /\ wy.cursor = binding'.cursor /\ wy.cont = binding'.cont
    BY DEF World
  <2>8. /\ wd.cursor <= wd.count /\ UpTo(wd, wd.cursor) /\ wd.cursor \in Int
    BY <2>5, <2>7 DEF CoverInv, Rows, WorldType, Places, Positions, NoCursor
  <2>9. UpTo(wx, wx.cursor)
    <3>1. Grows(wd, wx)
      <4>1. wd.promised \in Nat /\ b.floor \in Nat /\ wd.count \in Nat
        BY <2>5 DEF WorldType, BatchType, Positions
      <4>2. wd.promised <= Bigger(wd.promised, b.floor)
        BY <4>1 DEF Bigger
      <4> HIDE DEF wd, wx, b
      <4> QED BY <2>6, <4>1, <4>2 DEF Grows
    <3> HIDE DEF wd, wx, b
    <3> QED BY <2>5, <2>6, <2>8, <3>1, UpToGrows
  <2>10. \A v \in Workers : run'[v] \in {run[v], Asleep}
    BY <1>1, PartsTyped
  <2>11. Readers'
    BY <1>1, <2>10, AsleepOk DEF CoverInv, Readers
  <2>12. Holder'
    BY <1>2 DEF Holder
  <2> SUFFICES Rows' /\ binding'.cursor >= binding.cursor
    BY <2>11, <2>12 DEF CoverInv
  <2> SUFFICES wy.cursor <= wy.count /\ UpTo(wy, wy.cursor) /\ ContOk(wy, wy.cont) /\ wy.cursor >= wd.cursor
    BY <2>7 DEF Rows
  <2> HIDE DEF b, wd, wx, wy
  <2>13. /\ wy.box = wx.box /\ wy.count = wx.count /\ wy.accounted = wx.accounted /\ wy.gaps = wx.gaps
         /\ wy.promised = wx.promised /\ wy.cont = b.cont
         /\ wy.cursor = IF b.complete THEN b.cursor ELSE wx.cursor
    BY <1>1, <2>2, <2>3, <2>6, <2>7
  <2>14. \A m : Proven(wx, m) => Proven(wy, m)
    BY <2>13 DEF Proven
  <2>15. CASE b.complete
    <3>1. /\ b.cursor \in Nat /\ wx.cursor <= b.cursor /\ b.cursor <= wx.count /\ UpTo(wx, b.cursor)
          /\ b.cont = NoContinuation
      BY <2>4, <2>15 DEF BatchOk
    <3>2. ContOk(wy, wy.cont)
      BY <2>13, <3>1 DEF ContOk, NoContinuation
    <3> QED BY <2>6, <2>8, <2>13, <2>14, <2>15, <3>1, <3>2 DEF UpTo
  <2>16. CASE ~b.complete
    <3>1. b.cont.mode # "none" /\ ContOk(wx, b.cont)
      BY <2>4, <2>16 DEF BatchOk
    <3>2. Leads(wx, b.cont) /\ (b.cont.ids # <<>> \/ b.cont.page # NoPage)
      BY <3>1 DEF ContOk
    <3>3. Leads(wy, b.cont)
      BY <2>13, <2>14, <2>16, <3>2 DEF Leads
    <3>4. ContOk(wy, wy.cont)
      BY <2>13, <3>1, <3>2, <3>3 DEF ContOk
    <3> QED BY <2>6, <2>8, <2>9, <2>13, <2>14, <2>16, <3>4 DEF UpTo
  <2> QED BY <2>15, <2>16
<1> QED BY <1>3, <1>4

\* A step of a run.
LEMMA CoverStep ==
    ASSUME BoundsAssumption, Types, Types', CoverInv, NEW w \in Workers, Step(w)
    PROVE  CoverInv'
<1>0. /\ run[w] \in RunType /\ ReaderOk(workspace, run[w]) /\ (Holds(w) => HolderOk(World, run[w]))
  BY PartsTyped DEF CoverInv, Readers, Holder
<1>1. CASE Dismiss(w) \/ Abandon(w)
  <2>1. /\ UNCHANGED <<mail, binding, workspace, observed>>
        /\ lease' \in {lease, Unleased}
        /\ \/ run' = [run EXCEPT ![w] = Asleep]
           \/ run' = [run EXCEPT ![w].pc = "stray"] /\ run[w].pc = "asserted"
    BY <1>1 DEF Dismiss, Abandon
  <2>2. \A v \in Workers : Holds(v)' => Holds(v)
    BY <2>1 DEF Holds, Unleased
  <2>3. CASE run' = [run EXCEPT ![w] = Asleep]
    BY <2>1, <2>2, <2>3, AsleepOk, CoverOneRun
  <2>4. CASE run' = [run EXCEPT ![w].pc = "stray"] /\ run[w].pc = "asserted"
    <3> DEFINE r == [run[w] EXCEPT !.pc = "stray"]
    <3>1. run' = [run EXCEPT ![w] = r]
      BY <2>4
    <3>2. r.pc = "stray" /\ r.kind = run[w].kind /\ r.batch = run[w].batch
      BY <1>0 DEF RunType
    <3> HIDE DEF r
    <3>3. ReaderOk(workspace, r) /\ HolderOk(World, r)
      BY <1>0, <2>4, <3>2 DEF ReaderOk, HolderOk
    <3> QED BY <2>1, <2>2, <3>1, <3>3, CoverOneRun
  <2> QED BY <2>1, <2>3, <2>4
<1>2. CASE Read(w)
  <2> DEFINE profile == IF run[w].kind = "poll" THEN mail.count ELSE 0
             r == [run[w] EXCEPT !.pc = "read", !.seen = workspace, !.current = TRUE, !.profile = profile]
  <2>1. /\ run' = [run EXCEPT ![w] = r] /\ lease' = lease /\ run[w].pc = "begun"
        /\ UNCHANGED <<mail, binding, workspace, observed>>
    BY <1>2 DEF Read
  <2>2. /\ r.pc = "read" /\ r.kind = run[w].kind /\ r.box = run[w].box /\ r.cursor = run[w].cursor
        /\ r.cont = run[w].cont /\ r.seen = workspace /\ r.profile = profile
    BY <1>0 DEF RunType
  <2>3. r.kind = "poll" => r.profile = mail.count
    BY <2>2
  <2> HIDE DEF profile, r
  <2>4. ReaderOk(workspace, r)
    BY <2>2 DEF ReaderOk
  <2>5. World.cursor <= mail.count /\ World.count = mail.count /\ mail.count \in Nat
    BY PartsTyped DEF CoverInv, Rows, World, Positions
  <2>6. Holds(w) => HolderOk(World, r)
    BY <1>0, <2>1, <2>2, <2>3, <2>5 DEF HolderOk
  <2>7. \A v \in Workers : Holds(v)' => Holds(v)
    BY <2>1 DEF Holds
  <2> QED BY <2>1, <2>4, <2>6, <2>7, CoverOneRun
<1>3. CASE FetchSweep(w)
  <2>1. PICK sweep, page : Sweeping(w, sweep, page) /\ Fetched(w, SweepBatch(w, sweep, page))
    BY <1>3, SweepingIs
  <2>2. /\ run[w].pc = "read" /\ run[w].kind = "sweep" /\ run[w].box = binding.box /\ lease' = lease
        /\ UNCHANGED <<mail, binding, workspace, observed>>
    BY <1>3 DEF FetchSweep
  <2> DEFINE r == [Asleep EXCEPT !.pc = "fetched", !.kind = run[w].kind, !.box = run[w].box,
                                 !.current = run[w].current, !.batch = SweepBatch(w, sweep, page)]
  <2>3. run' = [run EXCEPT ![w] = r]
    BY <2>1 DEF Fetched
  <2>4. r.pc = "fetched" /\ r.kind = "sweep" /\ r.box = binding.box
    BY <2>2 DEF Asleep
  <2> HIDE DEF r
  <2>5. ReaderOk(workspace, r) /\ HolderOk(World, r)
    BY <2>4 DEF ReaderOk, HolderOk, World
  <2>6. \A v \in Workers : Holds(v)' => Holds(v)
    BY <2>2 DEF Holds
  <2> QED BY <2>2, <2>3, <2>5, <2>6, CoverOneRun
<1>4. CASE AssertLease(w) \/ NoWrite(w) \/ CommitKnown(w)
  <2>1. PICK r : /\ r \in {[run[w] EXCEPT !.pc = "asserted"], [run[w] EXCEPT !.pc = "saved"],
                           [run[w] EXCEPT !.pc = "saved", !.current = FALSE]}
                 /\ run' = [run EXCEPT ![w] = r]
                 /\ r.pc = "saved" => \/ run[w].pc = "fetched" /\ ~run[w].batch.write
                                      \/ run[w].batch.sweeps \cap workspace.sweeps # {}
    <3>1. CASE AssertLease(w)
      <4>1. [run[w] EXCEPT !.pc = "asserted"].pc = "asserted"
        BY <1>0 DEF RunType
      <4> QED BY <3>1, <4>1 DEF AssertLease
    <3>2. CASE NoWrite(w)
      BY <3>2 DEF NoWrite
    <3>3. CASE CommitKnown(w)
      BY <3>3 DEF CommitKnown
    <3> QED BY <1>4, <3>1, <3>2, <3>3
  <2>2. /\ lease' = lease /\ UNCHANGED <<mail, binding, workspace, observed>>
        /\ run[w].pc \in {"fetched", "asserted"}
    BY <1>4 DEF AssertLease, NoWrite, CommitKnown
  <2>3. /\ r.pc \in {"asserted", "saved"} /\ r.kind = run[w].kind /\ r.box = run[w].box
        /\ r.batch = run[w].batch
    <3>1. CASE r = [run[w] EXCEPT !.pc = "asserted"]
      BY <1>0, <3>1 DEF RunType
    <3>2. CASE r = [run[w] EXCEPT !.pc = "saved"]
      BY <1>0, <3>2 DEF RunType
    <3>3. CASE r = [run[w] EXCEPT !.pc = "saved", !.current = FALSE]
      BY <1>0, <3>3 DEF RunType
    <3> QED BY <2>1, <3>1, <3>2, <3>3
  <2>4. Holds(w) => HolderOk(World, r)
    BY <1>0, <2>2, <2>3 DEF HolderOk
  <2>5. ReaderOk(workspace, r)
    BY <1>0, <2>1, <2>2, <2>3 DEF ReaderOk
  <2>6. \A v \in Workers : Holds(v)' => Holds(v)
    BY <2>2 DEF Holds
  <2> QED BY <2>1, <2>2, <2>4, <2>5, <2>6, CoverOneRun
<1>5. CASE Commit(w)
  <2> DEFINE r == [run[w] EXCEPT !.pc = "saved", !.current = FALSE]
  <2>1. Land(w, r) /\ run[w].pc = "asserted"
    BY <1>5 DEF Commit
  <2>2. r.pc = "saved" /\ r.kind = run[w].kind /\ r.box = run[w].box /\ r.batch = run[w].batch /\ r \in RunType
    BY <1>0 DEF RunType, Stages
  <2> HIDE DEF r
  <2>3. /\ workspace'.accounted = workspace.accounted \cup run[w].batch.ids
        /\ workspace'.gaps = workspace.gaps \cup run[w].batch.gaps
        /\ workspace'.sweeps = workspace.sweeps \cup run[w].batch.sweeps
        /\ mail' = mail /\ binding' = binding /\ lease' = lease
    BY <2>1 DEF Land
  <2>4. ReaderOk(workspace', r)
    BY <1>0, <2>1, <2>2, <2>3 DEF ReaderOk
  <2>5. Grows(World, World')
    <3>1. observed'.promised = observed.promised /\ observed.promised \in Nat /\ mail.count \in Nat
      BY <2>1, PartsTyped DEF Land, ObservedType, Positions
    <3> QED BY <2>3, <3>1 DEF Grows, World
  <2>6. World \in WorldType /\ World' \in WorldType
    <3>1. World \in WorldType
      BY WorldTyped
    <3>2. World' \in WorldType
      BY DEF Types, World, WorldType, WorkspaceType
    <3> QED BY <3>1, <3>2
  <2>7. Holds(w) => HolderOk(World, r)
    BY <1>0, <2>1, <2>2 DEF HolderOk
  <2>8. Holds(w)' => Holds(w)
    BY <2>3 DEF Holds
  <2> DEFINE wd == World
             wx == World'
             gets == Holds(w)'
  <2>9. /\ wd \in WorldType /\ wx \in WorldType /\ Grows(wd, wx) /\ (gets => Holds(w))
        /\ (Holds(w) => HolderOk(wd, r))
    BY <2>5, <2>6, <2>7, <2>8
  <2> HIDE DEF wd, wx, gets
  <2>10. gets => HolderOk(wx, r)
    BY <2>2, <2>9, HolderGrows
  <2> QED BY <2>1, <2>4, <2>10, CoverLand DEF gets, wx
<1>6. CASE Stray(w)
  <2>1. CASE Land(w, Asleep)
    BY <2>1, AsleepOk, CoverLand
  <2>2. CASE run' = [run EXCEPT ![w] = Asleep]
             /\ UNCHANGED <<mail, binding, cycle, lease, workspace, faults, observed>>
    <3>1. \A v \in Workers : Holds(v)' => Holds(v)
      BY <2>2 DEF Holds
    <3> QED BY <2>2, <3>1, AsleepOk, CoverOneRun
  <2> QED BY <1>6, <2>1, <2>2 DEF Stray
<1> QED BY <1>1, <1>2, <1>3, <1>4, <1>5, <1>6, CoverFetchPoll, CoverFinish DEF Step

\* Every step keeps the invariant.
LEMMA CoverNext ==
    ASSUME BoundsAssumption, Types, Types', CoverInv, [Next]_vars PROVE CoverInv'
<1>1. CASE UNCHANGED vars
  BY <1>1 DEF vars, CoverInv, Rows, Readers, Holder, World, Holds
<1>2. CASE Next
  BY <1>2, CoverEnvironment, CoverBegin, CoverStep DEF Next
<1> QED BY <1>1, <1>2

\* The invariant holds in every state.
LEMMA AlwaysCovers == Spec => []CoverInv
<1>1. Init => CoverInv
  BY BoundsAssumption, CoverInit
<1>2. Types /\ Types' /\ CoverInv /\ [Next]_vars => CoverInv'
  BY BoundsAssumption, CoverNext
<1> QED BY <1>1, <1>2, AlwaysTypes, PTL DEF Spec

\* The mailbox cursor never passes a message without a source record, for every
\* number of workers, page size, run limit and amount of mail: whatever the
\* interleaving, what is up to the position of the row (storeGmailCursor in the
\* finish) is in the timeline or under a recorded gap.
THEOREM CursorCovered == Spec => []Covered
<1>1. CoverInv => Covered
  BY DEF CoverInv, Rows, UpTo, Proven, World, Covered, Accounted, Excused
<1> QED BY <1>1, AlwaysCovers, PTL

\* A step of the program puts no older position back while consent stands.
LEMMA ForwardStep ==
    ASSUME BoundsAssumption, Types, Types', CoverInv, [Next]_vars, binding.enabled,
           binding' # binding, binding'.box = binding.box
    PROVE  binding'.cursor >= binding.cursor
<1>0. binding \in BindingType /\ binding.cursor \in Int /\ binding.box \in Int
  BY PartsTyped DEF BindingType, Places, Positions, NoCursor
<1>1. Next
  BY DEF vars
<1>2. CASE Environment
  <2>1. CASE Disable
    BY <1>0, <2>1 DEF Disable, BindingType
  <2>2. CASE Enable
    BY <2>2 DEF Enable
  <2>3. CASE Relink
    BY <1>0, <2>3 DEF Relink
  <2>4. CASE binding' = binding
    BY <2>4
  <2> QED BY <1>2, <2>1, <2>2, <2>3, <2>4 DEF Environment, Arrive, Age, Leave, Reconnect,
             TouchBinding, OtherCommit, Expire, Request
<1>3. ASSUME NEW w \in Workers, Step(w) PROVE binding'.cursor >= binding.cursor
  <2>1. CASE Finish(w)
    <3>1. CASE run[w].kind = "poll"
      BY <2>1, <3>1, CoverFinish
    <3>2. CASE run[w].kind # "poll"
      BY <2>1, <3>2 DEF Finish
    <3> QED BY <3>1, <3>2
  <2>2. CASE ~Finish(w)
    <3>1. binding' = binding
      BY <1>3, <2>2 DEF Step, Dismiss, Read, FetchPoll, FetchSweep, AssertLease, NoWrite, Commit,
         CommitKnown, Abandon, Stray, Land
    <3> QED BY <3>1
  <2> QED BY <2>1, <2>2
<1>4. ASSUME NEW w \in Workers, NEW kind \in Kinds, Begin(w, kind) PROVE FALSE
  BY <1>4 DEF Begin
<1> QED BY <1>1, <1>2, <1>3, <1>4 DEF Next

\* The cursor of a mailbox only grows while the owner's consent stands: a run
\* that lost its lease cannot put an older position back.
THEOREM CursorForward == Spec => CursorNeverGoesBack
<1>1. Types /\ Types' /\ CoverInv /\ [Next]_vars
        => [binding.enabled /\ binding' # binding /\ binding'.box = binding.box
              => binding'.cursor >= binding.cursor]_vars
  BY BoundsAssumption, ForwardStep
<1> QED BY <1>1, AlwaysTypes, AlwaysCovers, PTL DEF Spec, CursorNeverGoesBack

-----------------------------------------------------------------------------
(* Sweeps *)

\* What a sweep goes over: the linked mailbox and what is recorded of it.
Mailbox == [box |-> binding.box, count |-> mail.count, gone |-> mail.gone,
            accounted |-> workspace.accounted]

\* A sweep has left behind nothing that was there when it began and matches its
\* query, but for the records it is about to make.
Swept(mb, s, records) ==
    /\ s.since <= mb.count
    /\ \A m \in (1..s.since) \ mb.gone :
         <<mb.box, m>> \in mb.accounted \cup records \/ m \in s.ids \/ (s.page # 0 /\ m <= s.page)

\* A sweep run behind its page has a batch.
Late == {"fetched", "asserted", "saved", "stray"}
Behind(r) == r.kind = "sweep" /\ r.pc \in Late
Before(r) == r.kind = "sweep" /\ r.pc \in {"begun", "read"}

\* The batch is under the name of its sweep and its message, and once it is saved
\* its records are there: made by this run, or by the one that used its name.
Named(space, r) ==
    /\ r.batch.complete => r.batch.sweep.ids = {} /\ r.batch.sweep.page = 0
    /\ \E name : /\ r.batch.sweeps = {[name |-> name, complete |-> r.batch.complete]}
                 /\ name.start = r.batch.sweep.start
                 /\ r.batch.ids = {<<r.box, m>> : m \in name.ids}
    /\ r.pc = "fetched" /\ ~r.batch.write
         => \E c \in space.sweeps, d \in r.batch.sweeps : c.name = d.name
    /\ r.pc = "saved" => r.batch.ids \subseteq space.accounted

\* A run in order: h gives every sweep its mailbox, n numbers them.
RunOk(h, n, mb, space, r) ==
    /\ r.box <= mb.box
    /\ Before(r) => /\ r.box = mb.box => Swept(mb, r.sweep, {})
                    /\ r.sweep # NoSweep => r.sweep.start \in 1..n /\ h[r.sweep.start] = r.box
    /\ Behind(r) => /\ r.box = mb.box => Swept(mb, r.batch.sweep, r.batch.ids)
                    /\ r.batch.sweep.start \in 1..n /\ h[r.batch.sweep.start] = r.box
                    /\ Named(space, r)

\* A workspace in order: what a sweep's command is named after is recorded, for
\* the mailbox of that sweep.
SpaceOk(h, n, space) ==
    \A c \in space.sweeps :
        /\ c.name.start \in 1..n
        /\ \A m \in c.name.ids : <<h[c.name.start], m>> \in space.accounted

\* The stored sweep in order.
StoredOk(h, n, mb, s) ==
    /\ Swept(mb, s, {})
    /\ s # NoSweep => s.start \in 1..n /\ h[s.start] = mb.box

SweepInvBy(h) ==
    /\ StoredOk(h, cycle.begun, Mailbox, cycle.sweep)
    /\ SpaceOk(h, cycle.begun, workspace)
    /\ \A w \in Workers : RunOk(h, cycle.begun, Mailbox, workspace, run[w])

\* Every sweep has its mailbox.
SweepInv == \E h \in [Nat -> Nat] : SweepInvBy(h)

MailboxType == [box : 1..MaxBoxes, count : Positions, gone : SUBSET Mails, accounted : SUBSET Message]

\* The mailbox of a state is of its type.
LEMMA MailboxTyped == ASSUME Types PROVE Mailbox \in MailboxType
BY DEF Types, Mailbox, MailboxType, WorkspaceType

\* The same mailbox, later.
MailboxGrows(mb, mx) ==
    /\ mx.box = mb.box /\ mb.count <= mx.count
    /\ mb.gone \subseteq mx.gone /\ mb.accounted \subseteq mx.accounted

\* What a sweep left behind nothing of stays so.
LEMMA SweptGrows ==
    ASSUME NEW mb \in MailboxType, NEW mx \in MailboxType, MailboxGrows(mb, mx), NEW s \in SweepType,
           NEW records, NEW more, records \subseteq mx.accounted \cup more, Swept(mb, s, records)
    PROVE  Swept(mx, s, more)
<1>1. mb.count \in Nat /\ mx.count \in Nat /\ s.since \in Nat
  BY DEF MailboxType, SweepType, Positions
<1>2. s.since <= mx.count
  BY <1>1 DEF Swept, MailboxGrows
<1>3. ASSUME NEW m \in (1..s.since) \ mx.gone
      PROVE  <<mx.box, m>> \in mx.accounted \cup more \/ m \in s.ids \/ (s.page # 0 /\ m <= s.page)
  <2>1. m \in (1..s.since) \ mb.gone
    BY <1>3 DEF MailboxGrows
  <2>2. <<mb.box, m>> \in mb.accounted \cup records \/ m \in s.ids \/ (s.page # 0 /\ m <= s.page)
    BY <2>1 DEF Swept
  <2> QED BY <2>2 DEF MailboxGrows
<1> QED BY <1>2, <1>3 DEF Swept

\* Two numberings that agree on the sweeps there are.
Agree(h, hx, n) == \A i \in 1..n : hx[i] = h[i]

\* A name that is used up stays so, and records stay.
LEMMA NamedGrows ==
    ASSUME NEW space, NEW sx, SpaceGrows(space, sx), NEW r, Named(space, r)
    PROVE  Named(sx, r)
BY DEF SpaceGrows, Named

\* A run in order stays in order while the mailbox and the workspace grow.
LEMMA RunOkGrows ==
    ASSUME NEW mb \in MailboxType, NEW mx \in MailboxType, MailboxGrows(mb, mx),
           NEW space, NEW sx, SpaceGrows(space, sx), NEW n \in Nat, NEW k \in Nat, n <= k,
           NEW h, NEW hx, Agree(h, hx, n), NEW r \in RunType, RunOk(h, n, mb, space, r)
    PROVE  RunOk(hx, k, mx, sx, r)
<1>1. r.sweep \in SweepType /\ r.batch \in BatchType
  BY DEF RunType
<1>2. r.batch.sweep \in SweepType
  BY <1>1 DEF BatchType
<1>3. r.box <= mx.box
  BY DEF RunOk, MailboxGrows
<1>4. Before(r) => /\ r.box = mx.box => Swept(mx, r.sweep, {})
                   /\ r.sweep # NoSweep => r.sweep.start \in 1..k /\ hx[r.sweep.start] = r.box
  <2>1. ASSUME Before(r), r.box = mx.box PROVE Swept(mx, r.sweep, {})
    <3>1. Swept(mb, r.sweep, {})
      BY <2>1 DEF RunOk, MailboxGrows
    <3> QED BY <1>1, <3>1, SweptGrows
  <2>2. ASSUME Before(r), r.sweep # NoSweep PROVE r.sweep.start \in 1..k /\ hx[r.sweep.start] = r.box
    <3>1. r.sweep.start \in 1..n /\ h[r.sweep.start] = r.box
      BY <2>2 DEF RunOk
    <3> QED BY <3>1 DEF Agree
  <2> QED BY <2>1, <2>2
<1>5. Behind(r) => /\ r.box = mx.box => Swept(mx, r.batch.sweep, r.batch.ids)
                   /\ r.batch.sweep.start \in 1..k /\ hx[r.batch.sweep.start] = r.box
                   /\ Named(sx, r)
  <2>1. ASSUME Behind(r), r.box = mx.box PROVE Swept(mx, r.batch.sweep, r.batch.ids)
    <3>1. Swept(mb, r.batch.sweep, r.batch.ids)
      BY <2>1 DEF RunOk, MailboxGrows
    <3> QED BY <1>2, <3>1, SweptGrows
  <2>2. ASSUME Behind(r)
        PROVE  r.batch.sweep.start \in 1..k /\ hx[r.batch.sweep.start] = r.box /\ Named(sx, r)
    <3>1. r.batch.sweep.start \in 1..n /\ h[r.batch.sweep.start] = r.box /\ Named(space, r)
      BY <2>2 DEF RunOk
    <3>2. Named(sx, r)
      BY <3>1, NamedGrows
    <3> QED BY <3>1, <3>2 DEF Agree
  <2> QED BY <2>1, <2>2
<1> QED BY <1>3, <1>4, <1>5 DEF RunOk

\* So does one whose revision became stale.
LEMMA StaleRunOk ==
    ASSUME NEW h, NEW n, NEW mb, NEW space, NEW r \in RunType, RunOk(h, n, mb, space, r)
    PROVE  RunOk(h, n, mb, space, StaleOf(r))
<1> DEFINE x == StaleOf(r)
<1>1. /\ x.pc = r.pc /\ x.kind = r.kind /\ x.box = r.box /\ x.sweep = r.sweep /\ x.batch = r.batch
  BY DEF StaleOf, RunType
<1> HIDE DEF x
<1>2. (Behind(x) <=> Behind(r)) /\ (Before(x) <=> Before(r)) /\ (Named(space, x) <=> Named(space, r))
  BY <1>1 DEF Behind, Before, Named
<1>3. RunOk(h, n, mb, space, x)
  BY <1>1, <1>2 DEF RunOk
<1> QED BY <1>3 DEF x

\* A run that is not a sweep, or is over, has nothing to keep but its mailbox.
LEMMA OtherRunOk ==
    ASSUME NEW h, NEW n, NEW mb, NEW space, NEW r, ~Behind(r), ~Before(r), r.box <= mb.box
    PROVE  RunOk(h, n, mb, space, r)
BY DEF RunOk

\* A step under which the mailbox and the workspace only grow and the other runs
\* change at most their revision: the rest is about the runs that took it.
LEMMA SweepKept ==
    ASSUME BoundsAssumption, Types, Types', NEW h, SweepInvBy(h), NEW hx, Agree(h, hx, cycle.begun),
           MailboxGrows(Mailbox, Mailbox'), SpaceGrows(workspace, workspace'),
           cycle.begun <= cycle'.begun,
           StoredOk(hx, cycle'.begun, Mailbox', cycle'.sweep), SpaceOk(hx, cycle'.begun, workspace'),
           NEW A,
           \A v \in Workers \ A : run'[v] \in {run[v], StaleOf(run[v])},
           \A v \in Workers \cap A : RunOk(hx, cycle'.begun, Mailbox', workspace', run'[v])
    PROVE  SweepInvBy(hx)'
<1> DEFINE mb == Mailbox
           mx == Mailbox'
           n == cycle.begun
           k == cycle'.begun
<1>1. /\ mb \in MailboxType /\ mx \in MailboxType /\ MailboxGrows(mb, mx)
      /\ n \in Nat /\ k \in Nat /\ n <= k /\ Agree(h, hx, n)
  <2>1. mb \in MailboxType
    BY MailboxTyped
  <2>2. mx \in MailboxType
    BY DEF Types, Mailbox, MailboxType, WorkspaceType
  <2>3. n \in Nat /\ k \in Nat
    BY DEF Types
  <2> QED BY <2>1, <2>2, <2>3
<1>2. ASSUME NEW v \in Workers PROVE RunOk(hx, k, mx, workspace', run'[v])
  <2>1. CASE v \in A
    BY <2>1
  <2>2. CASE v \notin A
    <3>1. run[v] \in RunType /\ RunOk(h, n, mb, workspace, run[v])
      BY PartsTyped DEF SweepInvBy
    <3>2. run'[v] \in {run[v], StaleOf(run[v])}
      BY <2>2
    <3> HIDE DEF mb, mx, n, k
    <3>3. RunOk(h, n, mb, workspace, run'[v]) /\ run'[v] \in RunType
      <4>1. StaleOf(run[v]) \in RunType
        BY <3>1 DEF StaleOf, RunType
      <4>2. RunOk(h, n, mb, workspace, StaleOf(run[v]))
        BY <3>1, StaleRunOk
      <4> QED BY <3>1, <3>2, <4>1, <4>2
    <3> QED BY <1>1, <3>3, RunOkGrows
  <2> QED BY <2>1, <2>2
<1> QED BY <1>2 DEF SweepInvBy

\* The stored sweep stays in order too.
LEMMA StoredGrows ==
    ASSUME NEW mb \in MailboxType, NEW mx \in MailboxType, MailboxGrows(mb, mx),
           NEW n \in Nat, NEW k \in Nat, n <= k, NEW h, NEW hx, Agree(h, hx, n),
           NEW s \in SweepType, StoredOk(h, n, mb, s)
    PROVE  StoredOk(hx, k, mx, s)
<1>1. Swept(mx, s, {})
  BY SweptGrows DEF StoredOk
<1>2. s # NoSweep => s.start \in 1..n /\ h[s.start] = mb.box
  BY DEF StoredOk
<1> QED BY <1>1, <1>2 DEF StoredOk, Agree, MailboxGrows

\* So do the names of the workspace.
LEMMA SpaceOkGrows ==
    ASSUME NEW n \in Nat, NEW k \in Nat, n <= k, NEW h, NEW hx, Agree(h, hx, n),
           NEW space, SpaceOk(h, n, space)
    PROVE  SpaceOk(hx, k, space)
BY DEF SpaceOk, Agree

\* No sweep owes anything to a mailbox in which there is no sweep.
LEMMA NoSweepOk ==
    ASSUME NEW mb \in MailboxType, NEW h, NEW n PROVE StoredOk(h, n, mb, NoSweep)
<1>1. mb.count \in Nat /\ NoSweep.since = 0
  BY DEF MailboxType, Positions, NoSweep
<1> QED BY <1>1 DEF StoredOk, Swept

\* At first there is no sweep.
LEMMA SweepInit == ASSUME BoundsAssumption, Init PROVE SweepInv
<1>1. /\ cycle.sweep = NoSweep /\ workspace = Nothing /\ binding.box = 1
      /\ \A w \in Workers : run[w] = Asleep
  BY DEF Init
<1>2. Mailbox \in MailboxType /\ Types
  BY InitTypes, MailboxTyped
<1>3. [i \in Nat |-> 0] \in [Nat -> Nat]
  OBVIOUS
<1>4. PICK h \in [Nat -> Nat] : TRUE
  BY <1>3
<1>5. StoredOk(h, cycle.begun, Mailbox, cycle.sweep)
  BY <1>1, <1>2, NoSweepOk
<1>6. SpaceOk(h, cycle.begun, workspace)
  BY <1>1 DEF SpaceOk, Nothing
<1>7. Asleep.box <= Mailbox.box /\ ~Behind(Asleep) /\ ~Before(Asleep)
  BY <1>1 DEF Asleep, Mailbox, Behind, Before
<1>8. \A w \in Workers : RunOk(h, cycle.begun, Mailbox, workspace, run[w])
  BY <1>1, <1>7, OtherRunOk
<1> QED BY <1>4, <1>5, <1>6, <1>8 DEF SweepInv, SweepInvBy

\* A step that leaves the numbers, the stored sweep and the workspace alone.
LEMMA SweepQuiet ==
    ASSUME BoundsAssumption, Types, Types', NEW h, SweepInvBy(h),
           MailboxGrows(Mailbox, Mailbox'), workspace' = workspace,
           cycle'.begun = cycle.begun, cycle'.sweep \in {cycle.sweep, NoSweep}, NEW A,
           \A v \in Workers \ A : run'[v] \in {run[v], StaleOf(run[v])},
           \A v \in Workers \cap A : RunOk(h, cycle.begun, Mailbox', workspace, run'[v])
    PROVE  SweepInvBy(h)'
<1> DEFINE mb == Mailbox
           mx == Mailbox'
           s == cycle'.sweep
           n == cycle.begun
<1>1. mb \in MailboxType /\ mx \in MailboxType /\ MailboxGrows(mb, mx) /\ n \in Nat
      /\ s \in {cycle.sweep, NoSweep} /\ cycle.sweep \in SweepType
  <2>1. mx \in MailboxType
    BY DEF Types, Mailbox, MailboxType, WorkspaceType
  <2> QED BY <2>1, PartsTyped, MailboxTyped
<1>2. StoredOk(h, n, mb, cycle.sweep) /\ SpaceOk(h, n, workspace) /\ Agree(h, h, n)
  BY DEF SweepInvBy, Agree
<1>3. StoredOk(h, n, mx, s)
  <2> HIDE DEF mb, mx, s, n
  <2>1. StoredOk(h, n, mx, cycle.sweep)
    BY <1>1, <1>2, StoredGrows
  <2> QED BY <1>1, <2>1, NoSweepOk
<1>4. SpaceGrows(workspace, workspace') /\ cycle.begun <= cycle'.begun
  BY <1>1 DEF SpaceGrows
<1>5. StoredOk(h, cycle'.begun, Mailbox', cycle'.sweep) /\ SpaceOk(h, cycle'.begun, workspace')
      /\ Agree(h, h, cycle.begun)
  BY <1>2, <1>3
<1>6. \A v \in Workers \cap A : RunOk(h, cycle'.begun, Mailbox', workspace', run'[v])
  OBVIOUS
<1> QED BY <1>4, <1>5, <1>6, SweepKept

\* Such a step of one run.
LEMMA SweepOneRun ==
    ASSUME BoundsAssumption, Types, Types', NEW h, SweepInvBy(h), NEW w \in Workers, NEW r,
           UNCHANGED <<mail, binding, cycle, workspace>>, run' = [run EXCEPT ![w] = r],
           RunOk(h, cycle.begun, Mailbox, workspace, r)
    PROVE  SweepInvBy(h)'
<1>1. Mailbox' = Mailbox
  BY DEF Mailbox
<1>2. MailboxGrows(Mailbox, Mailbox')
  <2>1. mail.count \in Nat
    BY PartsTyped DEF Positions
  <2> QED BY <1>1, <2>1 DEF MailboxGrows, Mailbox
<1>3. run'[w] = r /\ \A v \in Workers \ {w} : run'[v] = run[v]
  BY PartsTyped
<1>4. \A v \in Workers \cap {w} : RunOk(h, cycle.begun, Mailbox', workspace, run'[v])
  BY <1>1, <1>3
<1> QED BY <1>2, <1>3, <1>4, SweepQuiet

\* Another mailbox: no run is about it yet.
LEMMA SweepRelink ==
    ASSUME BoundsAssumption, Types, Types', NEW h, SweepInvBy(h), Relink
    PROVE  SweepInvBy(h)'
<1>1. /\ binding'.box = binding.box + 1 /\ binding.box \in Nat /\ workspace' = workspace /\ run' = run
      /\ cycle'.sweep = NoSweep /\ cycle'.begun = cycle.begun
  BY PartsTyped DEF Relink, CycleType, BindingType
<1>2. Mailbox' \in MailboxType
  BY DEF Types, Mailbox, MailboxType, WorkspaceType
<1>3. StoredOk(h, cycle'.begun, Mailbox', cycle'.sweep)
  BY <1>1, <1>2, NoSweepOk
<1>4. SpaceOk(h, cycle'.begun, workspace')
  BY <1>1 DEF SweepInvBy
<1>5. ASSUME NEW v \in Workers PROVE RunOk(h, cycle'.begun, Mailbox', workspace', run'[v])
  <2>1. RunOk(h, cycle.begun, Mailbox, workspace, run[v]) /\ run[v].box \in Nat
    BY PartsTyped DEF SweepInvBy, RunType
  <2>2. run[v].box <= Mailbox'.box /\ run[v].box # Mailbox'.box
    BY <1>1, <2>1 DEF RunOk, Mailbox
  <2> QED BY <1>1, <2>1, <2>2 DEF RunOk
<1> QED BY <1>3, <1>4, <1>5 DEF SweepInvBy

\* A step of the environment.
LEMMA SweepEnvironment ==
    ASSUME BoundsAssumption, Types, Types', NEW h, SweepInvBy(h), Environment
    PROVE  SweepInvBy(h)'
<1>1. CASE Relink
  BY <1>1, SweepRelink
<1>2. CASE ~Relink
  <2>0. mail \in MailType /\ mail.count \in Nat /\ binding \in BindingType /\ cycle \in CycleType
    BY PartsTyped DEF Positions
  <2>1. workspace' = workspace
    BY <1>2 DEF Environment, Arrive, Age, Leave, Disable, Enable, Reconnect, TouchBinding, OtherCommit,
       Expire, Request
  <2>2. binding'.box = binding.box
    <3>1. CASE Disable
      BY <2>0, <3>1 DEF Disable, BindingType
    <3>2. CASE Enable
      BY <2>0, <3>2 DEF Enable, BindingType
    <3>3. CASE binding' = binding
      BY <3>3
    <3> QED BY <1>2, <3>1, <3>2, <3>3 DEF Environment, Arrive, Age, Leave, Reconnect, TouchBinding,
               OtherCommit, Expire, Request
  <2>3. mail.count <= mail'.count /\ mail.gone \subseteq mail'.gone
    <3>1. CASE Arrive
      BY <2>0, <3>1 DEF Arrive, MailType
    <3>2. CASE Age
      BY <2>0, <3>2 DEF Age, MailType
    <3>3. CASE Leave
      BY <2>0, <3>3 DEF Leave, MailType
    <3>4. CASE mail' = mail
      BY <2>0, <3>4
    <3> QED BY <1>2, <3>1, <3>2, <3>3, <3>4 DEF Environment, Disable, Enable, Reconnect, TouchBinding,
               OtherCommit, Expire, Request
  <2>4. cycle'.begun = cycle.begun /\ cycle'.sweep \in {cycle.sweep, NoSweep}
    <3>1. CASE Disable \/ Enable
      BY <2>0, <3>1 DEF Disable, Enable, CycleType
    <3>2. CASE Request
      BY <2>0, <3>2 DEF Request, CycleType
    <3>3. CASE cycle' = cycle
      BY <3>3
    <3> QED BY <1>2, <3>1, <3>2, <3>3 DEF Environment, Arrive, Age, Leave, Reconnect, TouchBinding,
               OtherCommit, Expire
  <2>5. \A v \in Workers : run'[v] \in {run[v], StaleOf(run[v])}
    BY <1>2 DEF Environment, Arrive, Age, Leave, Disable, Enable, Reconnect, TouchBinding, OtherCommit,
       Expire, Request, StaleOf
  <2>6. MailboxGrows(Mailbox, Mailbox')
    BY <2>1, <2>2, <2>3 DEF MailboxGrows, Mailbox
  <2> DEFINE A == {}
  <2>7. /\ \A v \in Workers \ A : run'[v] \in {run[v], StaleOf(run[v])}
        /\ \A v \in Workers \cap A : RunOk(h, cycle.begun, Mailbox', workspace, run'[v])
    BY <2>5
  <2> HIDE DEF A
  <2> QED BY <2>1, <2>4, <2>6, <2>7, SweepQuiet
<1> QED BY <1>1, <1>2

\* A run begins with the stored sweep as it is.
LEMMA SweepBegin ==
    ASSUME BoundsAssumption, Types, Types', NEW h, SweepInvBy(h), NEW w \in Workers, NEW kind \in Kinds,
           Begin(w, kind)
    PROVE  SweepInvBy(h)'
<1> DEFINE pc == IF kind = "poll" \/ Asked THEN "begun" ELSE "vain"
           cursor == IF kind = "poll" THEN binding.cursor ELSE NoCursor
           cont == IF kind = "poll" THEN binding.cont ELSE NoContinuation
           sweep == IF kind = "sweep" THEN cycle.sweep ELSE NoSweep
           r == [Asleep EXCEPT !.pc = pc, !.kind = kind, !.box = binding.box, !.cursor = cursor,
                               !.cont = cont, !.sweep = sweep]
<1>1. run' = [run EXCEPT ![w] = r] /\ UNCHANGED <<mail, binding, cycle, workspace>>
  BY DEF Begin
<1>2. pc \in {"begun", "vain"} /\ (kind = "sweep" => sweep = cycle.sweep)
  OBVIOUS
<1> HIDE DEF pc, cursor, cont, sweep
<1>3. r.pc = pc /\ r.kind = kind /\ r.box = binding.box /\ r.sweep = sweep
  BY DEF Asleep
<1> HIDE DEF r
<1>4. StoredOk(h, cycle.begun, Mailbox, cycle.sweep) /\ Mailbox.box = binding.box /\ binding.box \in Nat
  BY PartsTyped DEF SweepInvBy, Mailbox
<1>5. ~Behind(r) /\ (Before(r) => kind = "sweep")
  BY <1>2, <1>3 DEF Behind, Before, Late
<1>6. RunOk(h, cycle.begun, Mailbox, workspace, r)
  BY <1>2, <1>3, <1>4, <1>5 DEF RunOk, StoredOk
<1> QED BY <1>1, <1>6, SweepOneRun

\* What a sweep's page and the pages ahead of it hold is all it has not recorded.
LEMMA PageSwept ==
    ASSUME BoundsAssumption, Types, NEW w \in Workers, NEW sweep, NEW page, Sweeping(w, sweep, page),
           run[w].sweep # NoSweep => Swept(Mailbox, run[w].sweep, {})
    PROVE  /\ sweep.since <= mail.count
           /\ \A m \in (1..sweep.since) \ mail.gone :
                <<binding.box, m>> \in workspace.accounted \/ m \in page.ids \/ (page.page # 0 /\ m <= page.page)
<1> DEFINE r == run[w]
<1>1. /\ mail.count \in Positions /\ mail.count \in Nat /\ sweep \in SweepType /\ sweep.since \in Nat
      /\ sweep.page \in Positions /\ sweep.page \in Nat
  BY PartsTyped, SweepingTyped DEF Positions, SweepType
<1>2. sweep = (IF r.sweep # NoSweep THEN r.sweep
               ELSE [NoSweep EXCEPT !.start = cycle.begun + 1, !.since = mail.count])
  BY DEF Sweeping
<1>3. page = IF sweep.ids # {} THEN [ids |-> sweep.ids, page |-> sweep.page] ELSE SweepPage(sweep.page)
  BY DEF Sweeping
<1>4. Mailbox.box = binding.box /\ Mailbox.count = mail.count /\ Mailbox.gone = mail.gone
      /\ Mailbox.accounted = workspace.accounted
  BY DEF Mailbox
<1>5. CASE r.sweep # NoSweep
  <2>1. /\ sweep.since <= mail.count
        /\ \A m \in (1..sweep.since) \ mail.gone :
             \/ <<binding.box, m>> \in workspace.accounted
             \/ m \in sweep.ids \/ (sweep.page # 0 /\ m <= sweep.page)
    BY <1>2, <1>4, <1>5 DEF Swept
  <2>2. CASE sweep.ids # {}
    BY <1>3, <2>1, <2>2
  <2>3. CASE sweep.ids = {}
    <3>1. ASSUME NEW m \in (1..sweep.since) \ mail.gone, <<binding.box, m>> \notin workspace.accounted
          PROVE  m \in page.ids \/ (page.page # 0 /\ m <= page.page)
      <4>1. sweep.page # 0 /\ m <= sweep.page
        BY <2>1, <2>3, <3>1
      <4>2. m \in (1..SweepTop(sweep.page)) \ mail.gone
        BY <1>1, <3>1, <4>1 DEF SweepTop
      <4> QED BY <1>1, <1>3, <2>3, <4>2, SweepPageIs
    <3> QED BY <2>1, <3>1
  <2> QED BY <2>2, <2>3
<1>6. CASE r.sweep = NoSweep
  <2>1. sweep.since = mail.count /\ sweep.page = 0 /\ sweep.ids = {}
    BY <1>2, <1>6 DEF NoSweep
  <2>2. SweepTop(sweep.page) = mail.count
    BY <2>1 DEF SweepTop
  <2>3. \A m \in (1..SweepTop(sweep.page)) \ mail.gone : m \in page.ids \/ (page.page # 0 /\ m <= page.page)
    BY <1>1, <1>3, <2>1, SweepPageIs
  <2> QED BY <1>1, <2>1, <2>2, <2>3
<1> QED BY <1>5, <1>6

\* A page was read: what the batch records and what its sweep goes on with is
\* what there was.
LEMMA SweepFetched ==
    ASSUME BoundsAssumption, Types, Types', CoverInv, NEW h \in [Nat -> Nat], SweepInvBy(h),
           NEW w \in Workers, FetchSweep(w)
    PROVE  SweepInv'
<1>1. PICK sweep, page : Sweeping(w, sweep, page) /\ Fetched(w, SweepBatch(w, sweep, page))
  BY SweepingIs
<1>2. PICK b : b = SweepBatch(w, sweep, page)
  OBVIOUS
<1>3. IsSweepBatch(b, w, sweep, page)
  BY <1>2, SweepBatchIs
<1>4. /\ run[w].pc = "read" /\ run[w].kind = "sweep" /\ run[w].box = binding.box
      /\ UNCHANGED <<mail, binding, workspace>>
  BY DEF FetchSweep
<1>5. /\ sweep \in SweepType /\ sweep.start \in 1..cycle'.begun
      /\ page.ids \subseteq Mails /\ page.page \in Positions
      /\ cycle'.begun \in Nat /\ cycle.begun \in Nat /\ cycle'.begun >= cycle.begun
      /\ cycle'.sweep = cycle.sweep
      /\ cycle'.begun = IF sweep.start > cycle.begun THEN sweep.start ELSE cycle.begun
  <2>1. Sweeping(w, sweep, page)
    BY <1>1
  <2>2. /\ sweep \in SweepType /\ sweep.start \in 1..cycle'.begun
        /\ page.ids \subseteq Mails /\ page.page \in Positions
        /\ cycle'.begun \in Nat /\ cycle'.begun >= cycle.begun
        /\ cycle' = [requested |-> cycle.requested, sweep |-> cycle.sweep,
                     begun |-> cycle'.begun, completed |-> cycle.completed]
    BY <2>1, SweepingTyped
  <2>3. cycle'.begun = IF sweep.start > cycle.begun THEN sweep.start ELSE cycle.begun
    BY <2>1, PartsTyped DEF Sweeping, CycleType
  <2>4. cycle'.sweep = cycle.sweep /\ cycle.begun \in Nat
    BY <2>2, PartsTyped
  <2> QED BY <2>2, <2>3, <2>4
<1>6. RunOk(h, cycle.begun, Mailbox, workspace, run[w]) /\ Before(run[w]) /\ Mailbox.box = binding.box
  BY <1>4 DEF SweepInvBy, Before, Mailbox
<1>7. /\ Swept(Mailbox, run[w].sweep, {})
      /\ run[w].sweep # NoSweep => run[w].sweep.start \in 1..cycle.begun /\ h[run[w].sweep.start] = run[w].box
  BY <1>4, <1>6 DEF RunOk
<1>8. /\ sweep.since <= mail.count
      /\ \A m \in (1..sweep.since) \ mail.gone :
           \/ <<binding.box, m>> \in workspace.accounted
           \/ m \in page.ids \/ (page.page # 0 /\ m <= page.page)
  BY <1>1, <1>7, PageSwept
<1>0. PICK hx : hx = [i \in Nat |-> IF i = sweep.start THEN binding.box ELSE h[i]]
  OBVIOUS
<1>9. hx \in [Nat -> Nat] /\ hx[sweep.start] = binding.box
  BY <1>0, <1>5, PartsTyped
<1>10. Agree(h, hx, cycle.begun)
  <2>1. CASE run[w].sweep # NoSweep
    <3>1. sweep = run[w].sweep
      BY <1>1, <2>1 DEF Sweeping
    <3>2. h[sweep.start] = binding.box
      BY <1>4, <1>7, <2>1, <3>1
    <3> QED BY <1>0, <1>5, <3>2 DEF Agree
  <2>2. CASE run[w].sweep = NoSweep
    <3>1. sweep.start = cycle.begun + 1
      BY <1>1, <2>2 DEF Sweeping, NoSweep
    <3> QED BY <1>0, <1>5, <3>1 DEF Agree
  <2> QED BY <2>1, <2>2
<1> DEFINE r == [Asleep EXCEPT !.pc = "fetched", !.kind = run[w].kind,
                               !.box = run[w].box, !.current = run[w].current, !.batch = b]
<1>11. run' = [run EXCEPT ![w] = r]
  BY <1>1, <1>2 DEF Fetched
<1>12. r.pc = "fetched" /\ r.kind = "sweep" /\ r.box = binding.box /\ r.batch = b
  BY <1>4 DEF Asleep
<1> HIDE DEF r
<1> DEFINE ids == Newest(page.ids, 1)
<1>13. /\ b.sweep = [sweep EXCEPT !.page = page.page, !.ids = page.ids \ ids]
       /\ b.ids = {<<binding.box, m>> : m \in ids}
       /\ b.sweeps = {[name |-> NameOf(sweep, page), complete |-> b.complete]}
       /\ b.complete <=> page.ids \ ids = {} /\ page.page = 0
       /\ ~b.write => \E c \in run[w].seen.sweeps : c.name = NameOf(sweep, page)
       /\ NameOf(sweep, page).start = sweep.start /\ NameOf(sweep, page).ids = ids
  BY <1>3, <1>4 DEF IsSweepBatch, NameOf
<1> HIDE DEF ids
<1>14. /\ b.sweep.start = sweep.start /\ b.sweep.since = sweep.since
       /\ b.sweep.page = page.page /\ b.sweep.ids = page.ids \ ids
  BY <1>5, <1>13 DEF SweepType
<1>15. Swept(Mailbox, b.sweep, b.ids)
  <2>1. ASSUME NEW m \in (1..b.sweep.since) \ mail.gone
        PROVE  \/ <<binding.box, m>> \in workspace.accounted \cup b.ids
               \/ m \in b.sweep.ids \/ (b.sweep.page # 0 /\ m <= b.sweep.page)
    BY <1>8, <1>13, <1>14, <2>1
  <2> QED BY <1>8, <1>14, <2>1 DEF Swept, Mailbox
<1>16. Named(workspace, r)
  <2>1. run[w].seen.sweeps \subseteq workspace.sweeps
    BY <1>4 DEF CoverInv, Readers, ReaderOk
  <2>2. b.complete => b.sweep.ids = {} /\ b.sweep.page = 0
    BY <1>13, <1>14
  <2>3. \E name : /\ b.sweeps = {[name |-> name, complete |-> b.complete]}
                  /\ name.start = b.sweep.start
                  /\ b.ids = {<<r.box, m>> : m \in name.ids}
    BY <1>12, <1>13, <1>14
  <2>4. ~b.write => \E c \in workspace.sweeps, d \in b.sweeps : c.name = d.name
    <3>1. \A d \in b.sweeps : d.name = NameOf(sweep, page)
      BY <1>13
    <3>2. \E d \in b.sweeps : TRUE
      BY <1>13
    <3> QED BY <1>13, <2>1, <3>1, <3>2
  <2> QED BY <1>12, <2>2, <2>3, <2>4 DEF Named
<1>17. RunOk(hx, cycle'.begun, Mailbox, workspace, r)
  <2>1. Behind(r) /\ ~Before(r)
    BY <1>12 DEF Behind, Before, Late
  <2>2. r.box <= Mailbox.box
    BY <1>6, <1>12, PartsTyped
  <2> QED BY <1>5, <1>9, <1>12, <1>14, <1>15, <1>16, <2>1, <2>2 DEF RunOk
<1>18. Mailbox' = Mailbox /\ MailboxGrows(Mailbox, Mailbox') /\ SpaceGrows(workspace, workspace')
  <2>1. mail.count \in Nat
    BY PartsTyped DEF Positions
  <2> QED BY <1>4, <2>1 DEF Mailbox, MailboxGrows, SpaceGrows
<1>19. StoredOk(hx, cycle'.begun, Mailbox, cycle.sweep) /\ SpaceOk(hx, cycle'.begun, workspace)
  <2>1. /\ Mailbox \in MailboxType /\ MailboxGrows(Mailbox, Mailbox) /\ cycle.sweep \in SweepType
        /\ StoredOk(h, cycle.begun, Mailbox, cycle.sweep) /\ SpaceOk(h, cycle.begun, workspace)
    BY <1>18, PartsTyped, MailboxTyped DEF SweepInvBy
  <2> DEFINE mb == Mailbox
             n == cycle.begun
             k == cycle'.begun
             s == cycle.sweep
  <2>2. /\ mb \in MailboxType /\ MailboxGrows(mb, mb) /\ s \in SweepType
        /\ StoredOk(h, n, mb, s) /\ SpaceOk(h, n, workspace) /\ n \in Nat /\ k \in Nat /\ n <= k
        /\ Agree(h, hx, n)
    BY <1>5, <1>10, <2>1
  <2> HIDE DEF mb, n, k, s
  <2>3. StoredOk(hx, k, mb, s) /\ SpaceOk(hx, k, workspace)
    BY <2>2, StoredGrows, SpaceOkGrows
  <2> QED BY <2>3 DEF mb, k, s
<1>20. run'[w] = r /\ \A v \in Workers \ {w} : run'[v] = run[v]
  BY <1>11, PartsTyped
<1>21. /\ StoredOk(hx, cycle'.begun, Mailbox', cycle'.sweep) /\ SpaceOk(hx, cycle'.begun, workspace')
       /\ cycle.begun <= cycle'.begun
       /\ \A v \in Workers \cap {w} : RunOk(hx, cycle'.begun, Mailbox', workspace', run'[v])
  BY <1>4, <1>5, <1>17, <1>18, <1>19, <1>20
<1>22. SweepInvBy(hx)'
  BY <1>10, <1>18, <1>20, <1>21, SweepKept
<1> QED BY <1>9, <1>22 DEF SweepInv

\* A commit brings the records with the name.
LEMMA SweepLand ==
    ASSUME BoundsAssumption, Types, Types', NEW h, SweepInvBy(h), NEW w \in Workers, NEW after,
           Land(w, after), run[w].pc \in {"asserted", "stray"},
           RunOk(h, cycle.begun, Mailbox', workspace', after),
           run[w].kind # "sweep" => run[w].batch.sweeps = {}
    PROVE  SweepInvBy(h)'
<1>1. /\ workspace'.accounted = workspace.accounted \cup run[w].batch.ids
      /\ workspace'.gaps = workspace.gaps \cup run[w].batch.gaps
      /\ workspace'.sweeps = workspace.sweeps \cup run[w].batch.sweeps
      /\ mail' = mail /\ binding' = binding /\ cycle' = cycle
  BY DEF Land
<1>2. SpaceGrows(workspace, workspace')
  BY <1>1 DEF SpaceGrows
<1>3. MailboxGrows(Mailbox, Mailbox')
  <2>1. mail.count \in Nat
    BY PartsTyped DEF Positions
  <2> QED BY <1>1, <2>1 DEF MailboxGrows, Mailbox
<1>4. run'[w] = after /\ \A v \in Workers \ {w} : run'[v] = StaleOf(run[v])
  BY DEF Land, StaleOf
<1>5. SpaceOk(h, cycle.begun, workspace')
  <2>1. SpaceOk(h, cycle.begun, workspace)
    BY DEF SweepInvBy
  <2>2. ASSUME NEW c \in run[w].batch.sweeps
        PROVE  c.name.start \in 1..cycle.begun
               /\ \A m \in c.name.ids : <<h[c.name.start], m>> \in run[w].batch.ids
    <3>1. run[w].kind = "sweep"
      BY <2>2
    <3>2. Behind(run[w])
      BY <3>1 DEF Behind, Late
    <3>3. /\ run[w].batch.sweep.start \in 1..cycle.begun
          /\ h[run[w].batch.sweep.start] = run[w].box /\ Named(workspace, run[w])
      BY <3>2 DEF SweepInvBy, RunOk
    <3>4. PICK name : /\ run[w].batch.sweeps = {[name |-> name, complete |-> run[w].batch.complete]}
                      /\ name.start = run[w].batch.sweep.start
                      /\ run[w].batch.ids = {<<run[w].box, m>> : m \in name.ids}
      BY <3>3 DEF Named
    <3>5. c.name = name
      BY <2>2, <3>4
    <3> QED BY <3>3, <3>4, <3>5
  <2> QED BY <1>1, <2>1, <2>2 DEF SpaceOk
<1>6. StoredOk(h, cycle.begun, Mailbox', cycle.sweep)
  <2> DEFINE mb == Mailbox
             mx == Mailbox'
             n == cycle.begun
             s == cycle.sweep
  <2>1. /\ mb \in MailboxType /\ mx \in MailboxType /\ MailboxGrows(mb, mx) /\ s \in SweepType
        /\ StoredOk(h, n, mb, s) /\ n \in Nat /\ Agree(h, h, n) /\ n <= n
    <3>1. mx \in MailboxType
      BY DEF Types, Mailbox, MailboxType, WorkspaceType
    <3>2. n \in Nat
      BY PartsTyped
    <3> QED BY <1>3, <3>1, <3>2, PartsTyped, MailboxTyped DEF SweepInvBy, Agree
  <2> HIDE DEF mb, mx, n, s
  <2>2. StoredOk(h, n, mx, s)
    BY <2>1, StoredGrows
  <2> QED BY <2>2 DEF mx, n, s
<1>7. /\ cycle'.begun = cycle.begun /\ cycle.begun <= cycle'.begun /\ cycle'.sweep = cycle.sweep
      /\ Agree(h, h, cycle.begun)
  BY <1>1, PartsTyped DEF Agree
<1>8. /\ \A v \in Workers \ {w} : run'[v] \in {run[v], StaleOf(run[v])}
      /\ \A v \in Workers \cap {w} : RunOk(h, cycle'.begun, Mailbox', workspace', run'[v])
      /\ StoredOk(h, cycle'.begun, Mailbox', cycle'.sweep) /\ SpaceOk(h, cycle'.begun, workspace')
  BY <1>4, <1>5, <1>6, <1>7
<1> QED BY <1>2, <1>3, <1>7, <1>8, SweepKept

\* A name the workspace has stands for records it has.
LEMMA UsedName ==
    ASSUME NEW h, NEW n, NEW mb, NEW space, NEW r, SpaceOk(h, n, space), RunOk(h, n, mb, space, r), Behind(r),
           \E c \in space.sweeps, d \in r.batch.sweeps : c.name = d.name
    PROVE  r.batch.ids \subseteq space.accounted
<1>1. h[r.batch.sweep.start] = r.box /\ Named(space, r)
  BY DEF RunOk
<1>2. PICK name : /\ r.batch.sweeps = {[name |-> name, complete |-> r.batch.complete]}
                  /\ name.start = r.batch.sweep.start
                  /\ r.batch.ids = {<<r.box, m>> : m \in name.ids}
  BY <1>1 DEF Named
<1>3. PICK c \in space.sweeps : c.name = name
  BY <1>2
<1>4. \A m \in name.ids : <<r.box, m>> \in space.accounted
  BY <1>1, <1>2, <1>3 DEF SpaceOk
<1> QED BY <1>2, <1>4

\* The end of a run of a sweep: what it stores is in order, and when it is the
\* end of the sweep, everything the sweep owes is recorded.
LEMMA SweepFinish ==
    ASSUME BoundsAssumption, Types, Types', CoverInv, NEW h, SweepInvBy(h), NEW w \in Workers, Finish(w)
    PROVE  /\ SweepInvBy(h)'
           /\ run[w].kind = "sweep" /\ run[w].batch.complete
                => \A m \in (1..run[w].batch.sweep.since) \ mail.gone : Accounted(m)
<1> DEFINE b == run[w].batch
<1>1. /\ run' = [run EXCEPT ![w] = Asleep] /\ mail' = mail /\ workspace' = workspace
      /\ run[w].pc = "saved" /\ Holds(w) /\ run[w] \in RunType
  BY PartsTyped DEF Finish, Owns, Holds
<1>2. run[w].box = binding.box /\ binding.box \in Nat
  BY <1>1, PartsTyped DEF CoverInv, Holder, HolderOk, World
<1>3. binding'.box = binding.box /\ cycle'.begun = cycle.begun
  <2>1. binding'.box = binding.box
    <3>1. CASE run[w].kind = "poll"
      BY <3>1, PartsTyped DEF Finish, BindingType
    <3>2. CASE run[w].kind # "poll"
      BY <3>2 DEF Finish
    <3> QED BY <3>1, <3>2
  <2>2. cycle'.begun = cycle.begun
    BY PartsTyped DEF Finish, CycleType
  <2> QED BY <2>1, <2>2
<1>4. Mailbox' = Mailbox /\ MailboxGrows(Mailbox, Mailbox') /\ SpaceGrows(workspace, workspace')
      /\ Mailbox.box = binding.box /\ cycle.begun <= cycle'.begun
  <2>1. mail.count \in Nat /\ cycle.begun \in Nat
    BY PartsTyped DEF Positions
  <2> QED BY <1>1, <1>3, <2>1 DEF Mailbox, MailboxGrows, SpaceGrows
<1>5. ~Behind(Asleep) /\ ~Before(Asleep) /\ Asleep.box <= Mailbox.box
  BY <1>4, PartsTyped DEF Asleep, Behind, Before
<1>6. RunOk(h, cycle.begun, Mailbox, workspace, Asleep)
  BY <1>5, OtherRunOk
<1>7. run'[w] = Asleep /\ \A v \in Workers \ {w} : run'[v] = run[v]
  BY <1>1, PartsTyped
<1>8. /\ StoredOk(h, cycle.begun, Mailbox, cycle.sweep) /\ SpaceOk(h, cycle.begun, workspace)
      /\ RunOk(h, cycle.begun, Mailbox, workspace, run[w]) /\ Agree(h, h, cycle.begun)
  BY DEF SweepInvBy, Agree
<1>9. CASE run[w].kind = "poll"
  <2>1. cycle' = cycle
    BY <1>9 DEF Finish
  <2>2. /\ StoredOk(h, cycle'.begun, Mailbox', cycle'.sweep) /\ SpaceOk(h, cycle'.begun, workspace')
        /\ \A v \in Workers \cap {w} : RunOk(h, cycle'.begun, Mailbox', workspace', run'[v])
    BY <1>1, <1>4, <1>6, <1>7, <1>8, <2>1
  <2>3. SweepInvBy(h)'
    BY <1>4, <1>7, <1>8, <2>2, SweepKept
  <2> QED BY <1>9, <2>3
<1>10. CASE run[w].kind # "poll"
  <2>1. Behind(run[w]) /\ run[w].kind = "sweep"
    BY <1>1, <1>10 DEF Behind, Late, RunType
  <2>2. /\ Swept(Mailbox, b.sweep, b.ids) /\ b.sweep.start \in 1..cycle.begun
        /\ h[b.sweep.start] = run[w].box /\ Named(workspace, run[w])
    BY <1>2, <1>4, <1>8, <2>1 DEF RunOk
  <2>3. b.ids \subseteq workspace.accounted /\ (b.complete => b.sweep.ids = {} /\ b.sweep.page = 0)
    BY <1>1, <2>2 DEF Named
  <2>4. cycle'.sweep = IF b.complete THEN NoSweep ELSE b.sweep
    BY <1>10, PartsTyped DEF Finish, CycleType
  <2>5. Mailbox \in MailboxType /\ b.sweep \in SweepType /\ Mailbox.accounted = workspace.accounted
        /\ Mailbox.gone = mail.gone
    BY <1>1, MailboxTyped DEF RunType, BatchType, Mailbox
  <2>6. Swept(Mailbox, b.sweep, {})
    <3>1. MailboxGrows(Mailbox, Mailbox)
      BY <1>4
    <3> QED BY <2>2, <2>3, <2>5, <3>1, SweptGrows
  <2>7. StoredOk(h, cycle.begun, Mailbox, cycle'.sweep)
    <3>1. StoredOk(h, cycle.begun, Mailbox, b.sweep)
      BY <1>2, <1>4, <2>2, <2>6 DEF StoredOk
    <3>2. StoredOk(h, cycle.begun, Mailbox, NoSweep)
      BY <2>5, NoSweepOk
    <3> QED BY <2>4, <3>1, <3>2
  <2>8. /\ StoredOk(h, cycle'.begun, Mailbox', cycle'.sweep) /\ SpaceOk(h, cycle'.begun, workspace')
        /\ \A v \in Workers \cap {w} : RunOk(h, cycle'.begun, Mailbox', workspace', run'[v])
    BY <1>1, <1>3, <1>4, <1>6, <1>7, <1>8, <2>7
  <2>9. SweepInvBy(h)'
    BY <1>4, <1>7, <1>8, <2>8, SweepKept
  <2>10. b.complete => \A m \in (1..b.sweep.since) \ mail.gone : Accounted(m)
    BY <1>4, <2>3, <2>5, <2>6 DEF Swept, Accounted
  <2> QED BY <2>9, <2>10
<1> QED BY <1>9, <1>10

\* A step of a run.
LEMMA SweepStep ==
    ASSUME BoundsAssumption, Types, Types', CoverInv, NEW h \in [Nat -> Nat], SweepInvBy(h),
           NEW w \in Workers, Step(w)
    PROVE  SweepInv'
<1>0. /\ run[w] \in RunType /\ RunOk(h, cycle.begun, Mailbox, workspace, run[w])
      /\ SpaceOk(h, cycle.begun, workspace) /\ ReaderOk(workspace, run[w])
  BY PartsTyped DEF SweepInvBy, CoverInv, Readers
<1>1. SUFFICES ASSUME ~FetchSweep(w) PROVE SweepInvBy(h)'
  BY <1>1, SweepFetched DEF SweepInv
<1>2. RunOk(h, cycle.begun, Mailbox, workspace, Asleep)
  <2>1. ~Behind(Asleep) /\ ~Before(Asleep) /\ Asleep.box <= Mailbox.box
    BY PartsTyped DEF Asleep, Behind, Before, Mailbox
  <2> QED BY <2>1, OtherRunOk
<1>3. CASE Dismiss(w) \/ Abandon(w)
  <2>1. /\ UNCHANGED <<mail, binding, cycle, workspace>>
        /\ \/ run' = [run EXCEPT ![w] = Asleep]
           \/ run' = [run EXCEPT ![w].pc = "stray"] /\ run[w].pc = "asserted"
    BY <1>3 DEF Dismiss, Abandon
  <2>2. CASE run' = [run EXCEPT ![w] = Asleep]
    BY <1>2, <2>1, <2>2, SweepOneRun
  <2>3. CASE run' = [run EXCEPT ![w].pc = "stray"] /\ run[w].pc = "asserted"
    <3> DEFINE r == [run[w] EXCEPT !.pc = "stray"]
    <3>1. run' = [run EXCEPT ![w] = r]
      BY <2>3
    <3>2. r.pc = "stray" /\ r.kind = run[w].kind /\ r.box = run[w].box /\ r.batch = run[w].batch
      BY <1>0 DEF RunType
    <3> HIDE DEF r
    <3>3. (Behind(r) <=> Behind(run[w])) /\ ~Before(r)
      BY <2>3, <3>2 DEF Behind, Before, Late
    <3>4. Named(workspace, run[w]) => Named(workspace, r)
      BY <3>2 DEF Named
    <3>5. RunOk(h, cycle.begun, Mailbox, workspace, r)
      BY <1>0, <3>2, <3>3, <3>4 DEF RunOk
    <3> QED BY <2>1, <3>1, <3>5, SweepOneRun
  <2> QED BY <2>1, <2>2, <2>3
<1>4. CASE Read(w)
  <2> DEFINE profile == IF run[w].kind = "poll" THEN mail.count ELSE 0
             r == [run[w] EXCEPT !.pc = "read", !.seen = workspace, !.current = TRUE, !.profile = profile]
  <2>1. /\ run' = [run EXCEPT ![w] = r] /\ run[w].pc = "begun"
        /\ UNCHANGED <<mail, binding, cycle, workspace>>
    BY <1>4 DEF Read
  <2>2. r.pc = "read" /\ r.kind = run[w].kind /\ r.box = run[w].box /\ r.sweep = run[w].sweep
    BY <1>0 DEF RunType
  <2> HIDE DEF profile, r
  <2>3. ~Behind(r) /\ (Before(r) <=> Before(run[w]))
    BY <2>1, <2>2 DEF Behind, Before, Late
  <2>4. RunOk(h, cycle.begun, Mailbox, workspace, r)
    BY <1>0, <2>2, <2>3 DEF RunOk
  <2> QED BY <2>1, <2>4, SweepOneRun
<1>5. CASE FetchPoll(w)
  <2>1. /\ run[w].kind = "poll" /\ UNCHANGED <<mail, binding, cycle, workspace>>
        /\ \E batch : Fetched(w, batch)
    BY <1>5 DEF FetchPoll
  <2>2. PICK batch : Fetched(w, batch)
    BY <2>1
  <2> DEFINE r == [Asleep EXCEPT !.pc = "fetched", !.kind = run[w].kind,
                                 !.box = run[w].box, !.current = run[w].current, !.batch = batch]
  <2>3. run' = [run EXCEPT ![w] = r]
    BY <2>2 DEF Fetched
  <2>4. r.kind = "poll" /\ r.box = run[w].box
    BY <2>1 DEF Asleep
  <2> HIDE DEF r
  <2>5. RunOk(h, cycle.begun, Mailbox, workspace, r)
    BY <1>0, <2>4, OtherRunOk DEF RunOk, Behind, Before
  <2> QED BY <2>1, <2>3, <2>5, SweepOneRun
<1>6. CASE AssertLease(w) \/ NoWrite(w) \/ CommitKnown(w)
  <2>1. PICK r : /\ run' = [run EXCEPT ![w] = r]
                 /\ r.pc \in {"asserted", "saved"} /\ r.kind = run[w].kind /\ r.box = run[w].box
                 /\ r.batch = run[w].batch
                 /\ r.pc = "saved" => \/ run[w].pc = "fetched" /\ ~run[w].batch.write
                                      \/ run[w].batch.sweeps \cap workspace.sweeps # {}
    <3>1. CASE AssertLease(w)
      <4> DEFINE r == [run[w] EXCEPT !.pc = "asserted"]
      <4>1. r.pc = "asserted" /\ r.kind = run[w].kind /\ r.box = run[w].box /\ r.batch = run[w].batch
        BY <1>0 DEF RunType
      <4>2. run' = [run EXCEPT ![w] = r]
        BY <3>1 DEF AssertLease
      <4> QED BY <4>1, <4>2
    <3>2. CASE NoWrite(w)
      <4> DEFINE r == [run[w] EXCEPT !.pc = "saved"]
      <4>1. r.pc = "saved" /\ r.kind = run[w].kind /\ r.box = run[w].box /\ r.batch = run[w].batch
        BY <1>0 DEF RunType
      <4>2. run' = [run EXCEPT ![w] = r] /\ run[w].pc = "fetched" /\ ~run[w].batch.write
        BY <3>2 DEF NoWrite
      <4> QED BY <4>1, <4>2
    <3>3. CASE CommitKnown(w)
      <4> DEFINE r == [run[w] EXCEPT !.pc = "saved", !.current = FALSE]
      <4>1. r.pc = "saved" /\ r.kind = run[w].kind /\ r.box = run[w].box /\ r.batch = run[w].batch
        BY <1>0 DEF RunType
      <4>2. run' = [run EXCEPT ![w] = r] /\ run[w].batch.sweeps \cap workspace.sweeps # {}
        BY <1>0, <3>3 DEF CommitKnown
      <4> QED BY <4>1, <4>2
    <3> QED BY <1>6, <3>1, <3>2, <3>3
  <2>2. UNCHANGED <<mail, binding, cycle, workspace>> /\ run[w].pc \in {"fetched", "asserted"}
    BY <1>6 DEF AssertLease, NoWrite, CommitKnown
  <2>3. (Behind(r) <=> Behind(run[w])) /\ ~Before(r)
    BY <2>1, <2>2 DEF Behind, Before, Late
  <2>4. Behind(r) => Named(workspace, r)
    <3> SUFFICES ASSUME Behind(r) PROVE Named(workspace, r)
      OBVIOUS
    <3>1. Behind(run[w]) /\ Named(workspace, run[w])
      BY <1>0, <2>3 DEF RunOk
    <3>2. ASSUME r.pc = "saved" PROVE r.batch.ids \subseteq workspace.accounted
      <4>1. \E c \in workspace.sweeps, d \in run[w].batch.sweeps : c.name = d.name
        BY <2>1, <3>1, <3>2 DEF Named
      <4> QED BY <1>0, <2>1, <3>1, <4>1, UsedName
    <3> QED BY <2>1, <3>1, <3>2 DEF Named
  <2>5. RunOk(h, cycle.begun, Mailbox, workspace, r)
    BY <1>0, <2>1, <2>3, <2>4 DEF RunOk
  <2> QED BY <2>1, <2>2, <2>5, SweepOneRun
<1>7. ASSUME NEW after, Land(w, after), run[w].pc \in {"asserted", "stray"},
             after.box = run[w].box, after.pc = "saved", after.kind = run[w].kind,
             after.batch = run[w].batch
      PROVE  RunOk(h, cycle.begun, Mailbox', workspace', after)
  <2>1. /\ workspace'.accounted = workspace.accounted \cup run[w].batch.ids
        /\ workspace'.gaps = workspace.gaps \cup run[w].batch.gaps
        /\ workspace'.sweeps = workspace.sweeps \cup run[w].batch.sweeps
        /\ mail' = mail /\ binding' = binding
    BY <1>7 DEF Land
  <2>2. SpaceGrows(workspace, workspace') /\ Mailbox'.box = Mailbox.box
    BY <2>1 DEF SpaceGrows, Mailbox
  <2>3. after.box <= Mailbox'.box
    BY <1>0, <1>7, <2>2 DEF RunOk
  <2>4. (Behind(after) <=> Behind(run[w])) /\ ~Before(after)
    BY <1>7 DEF Behind, Before, Late
  <2>5. ASSUME Behind(after)
        PROVE  /\ after.box = Mailbox'.box => Swept(Mailbox', after.batch.sweep, after.batch.ids)
               /\ after.batch.sweep.start \in 1..cycle.begun /\ h[after.batch.sweep.start] = after.box
               /\ Named(workspace', after)
    <3>1. /\ run[w].box = Mailbox.box => Swept(Mailbox, run[w].batch.sweep, run[w].batch.ids)
          /\ run[w].batch.sweep.start \in 1..cycle.begun /\ h[run[w].batch.sweep.start] = run[w].box
          /\ Named(workspace, run[w])
      BY <1>0, <2>4, <2>5 DEF RunOk
    <3>2. Named(workspace', after)
      BY <1>7, <2>1, <3>1 DEF Named
    <3>3. after.box = Mailbox'.box => Swept(Mailbox', after.batch.sweep, after.batch.ids)
      <4> SUFFICES ASSUME after.box = Mailbox'.box PROVE Swept(Mailbox', after.batch.sweep, after.batch.ids)
        OBVIOUS
      <4>1. Swept(Mailbox, run[w].batch.sweep, run[w].batch.ids)
        BY <1>7, <2>2, <3>1
      <4>2. /\ Mailbox'.count = Mailbox.count /\ Mailbox'.gone = Mailbox.gone
            /\ Mailbox.accounted \subseteq Mailbox'.accounted
        BY <2>1 DEF Mailbox
      <4> QED BY <1>7, <2>2, <4>1, <4>2 DEF Swept
    <3> QED BY <1>7, <3>1, <3>2, <3>3
  <2> QED BY <2>3, <2>4, <2>5 DEF RunOk
<1>8. CASE Commit(w)
  <2> DEFINE r == [run[w] EXCEPT !.pc = "saved", !.current = FALSE]
  <2>1. Land(w, r) /\ run[w].pc = "asserted"
    BY <1>8 DEF Commit
  <2>2. r.pc = "saved" /\ r.kind = run[w].kind /\ r.box = run[w].box /\ r.batch = run[w].batch
    BY <1>0 DEF RunType
  <2>3. run[w].kind # "sweep" => run[w].batch.sweeps = {}
    BY <1>0, <2>1 DEF ReaderOk, RunType
  <2> HIDE DEF r
  <2>4. RunOk(h, cycle.begun, Mailbox', workspace', r)
    BY <1>7, <2>1, <2>2
  <2> QED BY <2>1, <2>3, <2>4, SweepLand
<1>9. CASE Stray(w)
  <2>1. run[w].pc = "stray"
    BY <1>9 DEF Stray
  <2>2. CASE Land(w, Asleep)
    <3>1. run[w].kind # "sweep" => run[w].batch.sweeps = {}
      BY <1>0, <2>1 DEF ReaderOk, RunType
    <3>2. ~Behind(Asleep) /\ ~Before(Asleep) /\ Asleep.box <= Mailbox'.box
      BY <2>2, PartsTyped DEF Land, Asleep, Behind, Before, Mailbox
    <3>3. RunOk(h, cycle.begun, Mailbox', workspace', Asleep)
      BY <3>2, OtherRunOk
    <3> QED BY <2>1, <2>2, <3>1, <3>3, SweepLand
  <2>3. CASE run' = [run EXCEPT ![w] = Asleep]
             /\ UNCHANGED <<mail, binding, cycle, lease, workspace, faults, observed>>
    BY <1>2, <2>3, SweepOneRun
  <2> QED BY <1>9, <2>2, <2>3 DEF Stray
<1> QED BY <1>1, <1>3, <1>4, <1>5, <1>6, <1>8, <1>9, SweepFinish DEF Step

\* Every step keeps the invariant.
LEMMA SweepNext ==
    ASSUME BoundsAssumption, Types, Types', CoverInv, SweepInv, [Next]_vars PROVE SweepInv'
<1>1. PICK h \in [Nat -> Nat] : SweepInvBy(h)
  BY DEF SweepInv
<1>2. CASE UNCHANGED vars
  <2>1. SweepInvBy(h)'
    BY <1>1, <1>2 DEF vars, SweepInvBy, Mailbox
  <2> QED BY <2>1 DEF SweepInv
<1>3. CASE Environment
  BY <1>1, <1>3, SweepEnvironment DEF SweepInv
<1>4. ASSUME NEW w \in Workers, NEW kind \in Kinds, Begin(w, kind) PROVE SweepInv'
  BY <1>1, <1>4, SweepBegin DEF SweepInv
<1>5. ASSUME NEW w \in Workers, Step(w) PROVE SweepInv'
  BY <1>1, <1>5, SweepStep
<1> QED BY <1>2, <1>3, <1>4, <1>5 DEF Next

\* The invariant holds in every state.
LEMMA AlwaysSweeps == Spec => []SweepInv
<1>1. Init => SweepInv
  BY BoundsAssumption, SweepInit
<1>2. Types /\ Types' /\ CoverInv /\ SweepInv /\ [Next]_vars => SweepInv'
  BY BoundsAssumption, SweepNext
<1> QED BY <1>1, <1>2, AlwaysTypes, AlwaysCovers, PTL DEF Spec

\* Only the end of a run completes a sweep, and only its own.
LEMMA CompletedByFinish ==
    ASSUME BoundsAssumption, Types, [Next]_vars, NEW n \in cycle'.completed \ cycle.completed,
           NEW v \in Workers, lease.holder = v
    PROVE  /\ Finish(v) /\ run[v].kind # "poll" /\ run[v].batch.complete
<1>1. cycle \in CycleType
  BY PartsTyped
<1>2. PICK w \in Workers : Finish(w)
  <2>1. CASE cycle'.completed = cycle.completed
    BY <2>1
  <2>2. CASE \A w \in Workers : ~Finish(w)
    <3>1. CASE Environment
      <4>1. CASE Disable \/ Enable \/ Relink \/ Request
        BY <1>1, <2>1, <4>1 DEF Disable, Enable, Relink, Request, CycleType
      <4>2. CASE cycle' = cycle
        BY <2>1, <4>2
      <4> QED BY <3>1, <4>1, <4>2 DEF Environment, Arrive, Age, Leave, Reconnect, TouchBinding,
                 OtherCommit, Expire
    <3>2. CASE UNCHANGED vars
      BY <3>2 DEF vars
    <3>3. ASSUME NEW w \in Workers, Step(w) PROVE FALSE
      <4>1. CASE FetchSweep(w)
        BY <1>1, <4>1 DEF FetchSweep, CycleType
      <4>2. CASE cycle' = cycle
        BY <4>2
      <4> QED BY <2>2, <3>3, <4>1, <4>2 DEF Step, Dismiss, Read, FetchPoll, AssertLease, NoWrite,
                 Commit, CommitKnown, Abandon, Stray, Land
    <3>4. ASSUME NEW w \in Workers, NEW kind \in Kinds, Begin(w, kind) PROVE FALSE
      BY <3>4 DEF Begin
    <3> QED BY <3>1, <3>2, <3>3, <3>4 DEF Next
  <2> QED BY <2>2
<1>3. w = v
  BY <1>2 DEF Finish, Owns
<1>4. run[w].kind # "poll" /\ run[w].batch.complete
  BY <1>1, <1>2 DEF Finish, CycleType
<1> QED BY <1>2, <1>3, <1>4

\* A sweep completes only when every message there was at its start, that still
\* matches its query, is accounted for: for every number of runs, pages and
\* messages, and whatever runs lost the lease, came back or were named alike.
THEOREM SweepCovers == Spec => SweepCoversMailbox
<1> DEFINE Goal ==
      \A n \in cycle'.completed \ cycle.completed :
         \A w \in Workers : run[w].pc = "saved" /\ run[w].batch.sweep.start = n /\ lease.holder = w
           => \A m \in (1..run[w].batch.sweep.since) \ mail.gone : Accounted(m)
<1>1. Types /\ Types' /\ CoverInv /\ SweepInv /\ [Next]_vars => [Goal]_vars
  <2> SUFFICES ASSUME Types, Types', CoverInv, SweepInv, [Next]_vars,
                      NEW n \in cycle'.completed \ cycle.completed,
                      NEW w \in Workers, lease.holder = w
               PROVE  \A m \in (1..run[w].batch.sweep.since) \ mail.gone : Accounted(m)
    OBVIOUS
  <2>1. Finish(w) /\ run[w].kind # "poll" /\ run[w].batch.complete
    BY BoundsAssumption, CompletedByFinish
  <2>2. run[w].kind = "sweep"
    BY <2>1, PartsTyped DEF RunType
  <2>3. PICK h \in [Nat -> Nat] : SweepInvBy(h)
    BY DEF SweepInv
  <2> QED BY BoundsAssumption, <2>1, <2>2, <2>3, SweepFinish
<1> QED BY <1>1, AlwaysTypes, AlwaysCovers, AlwaysSweeps, PTL DEF Spec, SweepCoversMailbox
=============================================================================

--------------------- MODULE InstantInteractionsProofs ---------------------
(***************************************************************************)
(* The optimistic interactions keep their types, for every number of       *)
(* clicks, commits of others and faults; and where no send undercuts a     *)
(* rejection of the recovery, their checkpoint and what is confirmed.      *)
(*                                                                         *)
(* The proof has three layers.  The rows are data: every operator on       *)
(* changes is a fold over a set of commands, and a fold keeps a type that  *)
(* each of its steps keeps.  The inductive invariant IInv says what each   *)
(* stage of a preparation, a send, a rejection and a recovery may rely on. *)
(* Its proof has a lemma per action; those of sends, rejections and        *)
(* recoveries rest on what one step may do to a journal and to a mirror    *)
(* (JournalMove, MirrorMove).                                              *)
(***************************************************************************)
EXTENDS InstantInteractions, FiniteSetTheorems, TLAPS
-----------------------------------------------------------------------------
(* Folds *)

\* A finite set that has a part with some property has a smallest such part.
LEMMA SmallestPart ==
    ASSUME NEW S, IsFiniteSet(S), NEW W \in SUBSET SUBSET S, W # {}
    PROVE  \E T \in W : \A U \in W : U \subseteq T => U = T
<1>1. PICK T \in W : \A U \in W : ~(<<U, T>> \in StrictSubsetOrdering(S))
  <2>1. W \subseteq FiniteSubsetsOf(S)
    BY FS_FiniteSubsetsOfFinite
  <2> QED BY <2>1, WFMin, FS_StrictSubsetOrderingWellFounded
<1> QED BY <1>1 DEF StrictSubsetOrdering

\* What a fold makes of each part of a set is of the type of that part, when
\* that holds of the empty part and every step keeps it.
LEMMA FoldKeeps ==
    ASSUME NEW S, IsFiniteSet(S), NEW pick, \A s \in SUBSET S : s # {} => pick[s] \in s,
           NEW T, NEW g, g[{}] \in T[{}],
           \A s \in SUBSET S : s # {} /\ g[s \ {pick[s]}] \in T[s \ {pick[s]}] => g[s] \in T[s]
    PROVE  \A s \in SUBSET S : g[s] \in T[s]
<1> DEFINE W == {s \in SUBSET S : g[s] \notin T[s]}
<1> SUFFICES ASSUME W # {} PROVE FALSE
  OBVIOUS
<1>1. PICK s \in W : \A u \in W : u \subseteq s => u = s
  <2> HIDE DEF W
  <2>1. W \in SUBSET SUBSET S
    BY DEF W
  <2> QED BY <2>1, SmallestPart
<1>2. s \in SUBSET S /\ s # {} /\ pick[s] \in s
  BY <1>1
<1>3. s \ {pick[s]} \in SUBSET S /\ s \ {pick[s]} \notin W
  BY <1>1, <1>2
<1> QED BY <1>1, <1>2, <1>3

\* A set of natural numbers that has 0 and every successor has them all.
LEMMA Induction ==
    ASSUME NEW W, 0 \in W, \A n \in Nat : n \in W => n + 1 \in W
    PROVE  Nat \subseteq W
<1> DEFINE V == Nat \ W
<1> SUFFICES ASSUME V # {} PROVE FALSE
  OBVIOUS
<1>1. PICK n \in V : \A m \in V : ~(<<m, n>> \in OpToRel(<, Nat))
  <2> HIDE DEF V
  <2>1. V \subseteq Nat
    BY DEF V
  <2> QED BY <2>1, WFMin, NatLessThanWellFounded
<1>2. n # 0 /\ n - 1 \in Nat /\ n - 1 < n
  OBVIOUS
<1>3. n - 1 \in W
  BY <1>1, <1>2 DEF OpToRel
<1> QED BY <1>2, <1>3

\* There is a fold whose steps are those of a given function.
FoldOf(g, S, base, pick, step) ==
    g = [s \in SUBSET S |-> IF s = {} THEN base ELSE step[s][g[s \ {pick[s]}]]]

\* There is a function that folds a finite set, in the order pick chooses.
LEMMA FoldExists ==
    ASSUME NEW S, IsFiniteSet(S), NEW pick, \A s \in SUBSET S : s # {} => pick[s] \in s,
           NEW base, NEW step
    PROVE  \E g : FoldOf(g, S, base, pick, step)
<1> DEFINE B(g, s) == IF s = {} THEN base ELSE step[s][g[s \ {pick[s]}]]
           Upto(g, n) == \A s \in SUBSET S : Cardinality(s) <= n => g[s] = B(g, s)
           W == {n \in Nat : \E g : Upto(g, n)}
<1>1. \A s \in SUBSET S : IsFiniteSet(s) /\ Cardinality(s) \in Nat
  BY FS_Subset, FS_CardinalityType
<1>2. \A s \in SUBSET S : s # {} => /\ s \ {pick[s]} \in SUBSET S
                                    /\ Cardinality(s \ {pick[s]}) = Cardinality(s) - 1
  BY <1>1, FS_RemoveElement
<1>3. 0 \in W
  <2>1. Upto([s \in SUBSET S |-> base], 0)
    BY <1>1, FS_EmptySet
  <2> QED BY <2>1
<1>4. ASSUME NEW n \in Nat, n \in W PROVE n + 1 \in W
  <2>1. PICK g : Upto(g, n)
    BY <1>4
  <2> DEFINE h == [s \in SUBSET S |-> IF Cardinality(s) <= n THEN g[s] ELSE B(g, s)]
  <2>2. ASSUME NEW s \in SUBSET S, Cardinality(s) <= n + 1
        PROVE  h[s] = B(h, s)
    <3>1. h[s] = B(g, s)
      BY <2>1
    <3>2. s # {} => h[s \ {pick[s]}] = g[s \ {pick[s]}]
      BY <1>1, <1>2, <2>2
    <3> QED BY <3>1, <3>2
  <2>3. Upto(h, n + 1)
    BY <2>2
  <2>4. \E x : Upto(x, n + 1)
    BY <2>3
  <2>5. n + 1 \in Nat
    OBVIOUS
  <2> HIDE DEF h, Upto
  <2> QED BY <2>4, <2>5
<1>5. Cardinality(S) \in W
  <2> HIDE DEF W
  <2> QED BY <1>1, <1>3, <1>4, Induction
<1>6. PICK g : Upto(g, Cardinality(S))
  BY <1>5
<1> DEFINE h == [s \in SUBSET S |-> g[s]]
<1>7. \A s \in SUBSET S : h[s] = B(h, s)
  <2>1. \A s \in SUBSET S : g[s] = B(g, s)
    BY <1>1, <1>6, FS_Subset
  <2> QED BY <1>2, <2>1
<1>8. h = [s \in SUBSET S |-> B(h, s)]
  BY <1>7
<1> QED BY <1>8 DEF FoldOf

\* The values of a fold are of the type of its base when each step keeps it.
LEMMA FoldTyped ==
    ASSUME NEW S, IsFiniteSet(S), NEW pick, \A s \in SUBSET S : s # {} => pick[s] \in s,
           NEW R, NEW base \in R, NEW step,
           \A s \in SUBSET S : s # {} => \A r \in R : step[s][r] \in R
    PROVE  \E g : FoldOf(g, S, base, pick, step) /\ \A s \in SUBSET S : g[s] \in R
<1>1. PICK g : FoldOf(g, S, base, pick, step)
  BY FoldExists
<1> DEFINE T == [s \in SUBSET S |-> R]
<1>2. g[{}] \in T[{}]
  BY <1>1 DEF FoldOf
<1>3. ASSUME NEW s \in SUBSET S, s # {}, g[s \ {pick[s]}] \in T[s \ {pick[s]}]
      PROVE  g[s] \in T[s]
  <2>1. g[s] = step[s][g[s \ {pick[s]}]]
    BY <1>1, <1>3 DEF FoldOf
  <2>2. s \ {pick[s]} \in SUBSET S
    OBVIOUS
  <2> QED BY <1>3, <2>1, <2>2
<1>4. \A s \in SUBSET S : g[s] \in T[s]
  <2> HIDE DEF T
  <2> QED BY <1>2, <1>3, FoldKeeps
<1> QED BY <1>1, <1>4

\* The greatest of some commands is one of them.
LEMMA MaxIn ==
    ASSUME NEW s \in SUBSET Commands, s # {}
    PROVE  Max(s) \in s /\ \A d \in s : d <= Max(s)
<1> USE InteractionsAssumption
<1> DEFINE V == {m \in Nat : \E c \in s : m = MaxCommands - c}
<1>1. V # {} /\ V \subseteq Nat
  <2>1. PICK c \in s : TRUE
    OBVIOUS
  <2>2. MaxCommands - c \in Nat
    BY DEF Commands
  <2> QED BY <2>1, <2>2
<1>2. PICK n \in V : \A m \in V : ~(<<m, n>> \in OpToRel(<, Nat))
  <2> HIDE DEF V
  <2> QED BY <1>1, WFMin, NatLessThanWellFounded
<1>3. PICK c \in s : n = MaxCommands - c
  BY <1>2
<1>4. \A d \in s : c >= d
  <2> TAKE d \in s
  <2>1. MaxCommands - d \in V /\ MaxCommands - d \in Nat /\ n \in Nat
    BY DEF Commands
  <2> HIDE DEF V
  <2>2. ~(MaxCommands - d < n)
    BY <1>2, <2>1 DEF OpToRel
  <2> QED BY <1>3, <2>2 DEF Commands
<1>5. Max(s) \in s /\ \A d \in s : Max(s) >= d
  BY <1>3, <1>4 DEF Max
<1> QED BY <1>5 DEF Commands

\* A nonempty set of commands holds its least number.
LEMMA MinIn ==
    ASSUME NEW s \in SUBSET Commands, s # {}
    PROVE  Min(s) \in s
<1> USE InteractionsAssumption
<1>1. s \subseteq Nat
  BY DEF Commands
<1>2. PICK n \in s : \A m \in s : ~(<<m, n>> \in OpToRel(<, Nat))
  BY <1>1, WFMin, NatLessThanWellFounded
<1>3. \A d \in s : n <= d
  <2> TAKE d \in s
  <2>1. ~(d < n)
    BY <1>1, <1>2 DEF OpToRel
  <2> QED BY <1>1, <2>1
<1> QED BY <1>3 DEF Min

\* Sets of commands are finite.
LEMMA CommandsFinite ==
    ASSUME NEW s \in SUBSET Commands
    PROVE  IsFiniteSet(s)
<1>1. 1 \in Int /\ MaxCommands \in Int
  BY InteractionsAssumption
<1>2. IsFiniteSet(1 .. MaxCommands)
  BY <1>1, FS_Interval
<1> QED BY <1>2, FS_Subset DEF Commands

-----------------------------------------------------------------------------
(* Rows and changes *)

\* What a field may hold when the clicks in A were made.
Held(A, f) == IF f = "updatedAt" THEN Values ELSE {0, ForeignValue} \cup A

\* Parts of rows, whole rows, and changes between parts with the same fields.
Parts(A) == {r \in Rows : \A f \in DOMAIN r : r[f] \in Held(A, f)}
FullRows(A) == {r \in [Fields -> Values] : \A f \in Fields : r[f] \in Held(A, f)}
Changes(A) == {x \in [before : Parts(A), after : Parts(A)] : DOMAIN x.before = DOMAIN x.after}

\* A member of the parts over the fields D.
PartOver(A, D, r) == r \in Parts(A) /\ DOMAIN r = D

\* Whatever a field may hold is a value.
LEMMA HeldValues ==
    ASSUME NEW A \in SUBSET Commands, NEW f
    PROVE  Held(A, f) \subseteq Values
<1>1. ForeignValue \in 0 .. 2 * MaxCommands + 1 + MaxForeign
      /\ Commands \subseteq 0 .. 2 * MaxCommands + 1 + MaxForeign
      /\ 0 \in 0 .. 2 * MaxCommands + 1 + MaxForeign
  BY InteractionsAssumption DEF ForeignValue, Commands
<1>2. 0 .. 2 * MaxCommands + 1 + MaxForeign \subseteq Values
  BY InteractionsAssumption
<1> QED BY <1>1, <1>2 DEF Held

\* A part of a row, from its fields.
LEMMA PartIntro ==
    ASSUME NEW A \in SUBSET Commands, NEW r, NEW D \in SUBSET Fields, r = [f \in D |-> r[f]],
           \A f \in D : r[f] \in Held(A, f)
    PROVE  PartOver(A, D, r)
<1>1. r \in [D -> Values]
  BY HeldValues
<1>2. r \in Rows
  BY <1>1 DEF Rows
<1> QED BY <1>1, <1>2 DEF Parts, PartOver

\* The fields of a part of a row.
LEMMA PartElim ==
    ASSUME NEW A, NEW r \in Parts(A)
    PROVE  /\ r = [f \in DOMAIN r |-> r[f]]
           /\ DOMAIN r \subseteq Fields
           /\ \A f \in DOMAIN r : r[f] \in Held(A, f)
           /\ r # NoRow
BY NoRowAssumption DEF Parts, Rows

\* A whole row is a part of itself ...
LEMMA FullElim ==
    ASSUME NEW A \in SUBSET Commands, NEW r \in FullRows(A)
    PROVE  PartOver(A, Fields, r) /\ r \in [Fields -> Values]
<1>1. r \in [Fields -> Values] /\ \A f \in Fields : r[f] \in Held(A, f)
  BY DEF FullRows
<1> QED BY <1>1, PartIntro

\* ... and a part that has every field is a whole row.
LEMMA FullIntro ==
    ASSUME NEW A \in SUBSET Commands, NEW r, PartOver(A, Fields, r)
    PROVE  r \in FullRows(A)
<1>1. r = [f \in Fields |-> r[f]] /\ \A f \in Fields : r[f] \in Held(A, f)
  BY PartElim DEF PartOver
<1> QED BY <1>1, HeldValues DEF FullRows

\* A change names the same fields before and after; it is never of a whole row.
LEMMA ChangeElim ==
    ASSUME NEW A, NEW x \in Changes(A)
    PROVE  /\ x = [before |-> x.before, after |-> x.after]
           /\ x.before \in Parts(A) /\ x.after \in Parts(A)
           /\ DOMAIN x.before = DOMAIN x.after /\ DOMAIN x.before \subseteq Fields
           /\ ~Whole(x) /\ Named(x) = DOMAIN x.before
           /\ Differing(x) = {f \in DOMAIN x.before : x.before[f] # x.after[f]}
<1>1. x.before \in Parts(A) /\ x.after \in Parts(A) /\ DOMAIN x.before = DOMAIN x.after
      /\ x = [before |-> x.before, after |-> x.after]
  BY DEF Changes
<1>2. DOMAIN x.before \subseteq Fields /\ x.before # NoRow /\ x.after # NoRow
  BY <1>1, PartElim
<1>3. Named(x) = DOMAIN x.before
  BY <1>1 DEF Named
<1>4. \A f \in DOMAIN x.before : At(x.before, f) = {x.before[f]} /\ At(x.after, f) = {x.after[f]}
  BY <1>1 DEF At
<1>5. \A f \in DOMAIN x.before : At(x.before, f) # At(x.after, f) <=> x.before[f] # x.after[f]
  BY <1>4
<1>6. Differing(x) = {f \in DOMAIN x.before : x.before[f] # x.after[f]}
  BY <1>3, <1>5 DEF Differing
<1> QED BY <1>1, <1>2, <1>3, <1>6 DEF Whole

\* Two parts with the same fields make a change.
LEMMA ChangeIntro ==
    ASSUME NEW A, NEW b \in Parts(A), NEW a \in Parts(A), DOMAIN b = DOMAIN a
    PROVE  [before |-> b, after |-> a] \in Changes(A)
BY DEF Changes

\* More clicks allow more.
LEMMA Grows ==
    ASSUME NEW A, NEW B, A \subseteq B
    PROVE  Parts(A) \subseteq Parts(B) /\ FullRows(A) \subseteq FullRows(B)
           /\ Changes(A) \subseteq Changes(B)
<1>1. \A f : Held(A, f) \subseteq Held(B, f)
  BY DEF Held
<1>2. Parts(A) \subseteq Parts(B)
  BY <1>1 DEF Parts
<1>3. FullRows(A) \subseteq FullRows(B)
  BY <1>1 DEF FullRows
<1> QED BY <1>2, <1>3 DEF Changes

\* No change is a change.
LEMMA Nothing ==
    ASSUME NEW A \in SUBSET Commands
    PROVE  NoChange \in Changes(A) /\ <<>> \in Parts(A) /\ NoChange.before = <<>> /\ DOMAIN <<>> = {}
<1>1. DOMAIN <<>> = {} /\ <<>> = [f \in {} |-> <<>>[f]]
  OBVIOUS
<1>2. PartOver(A, {}, <<>>)
  BY <1>1, PartIntro
<1> QED BY <1>1, <1>2, ChangeIntro DEF NoChange, PartOver

\* patchDeltaRow adds the fields that differ to a part of a row ...
LEMMA PatchPart ==
    ASSUME NEW A \in SUBSET Commands, NEW r \in Parts(A), NEW x \in Changes(A)
    PROVE  PartOver(A, DOMAIN r \cup Differing(x), PatchRow(r, x))
<1> DEFINE D == DOMAIN r \cup Differing(x)
           w == [f \in D |-> IF f \in Differing(x) THEN x.after[f] ELSE r[f]]
<1>1. Differing(x) \subseteq DOMAIN x.after /\ Differing(x) \subseteq Fields
  BY ChangeElim
<1>2. PatchRow(r, x) = w
  <2>1. (DOMAIN r \ Differing(x)) \cup (Differing(x) \cap DOMAIN x.after) = D
    BY <1>1
  <2> QED BY <2>1, ChangeElim DEF PatchRow
<1>3. D \subseteq Fields
  BY <1>1, PartElim
<1>4. \A f \in D : w[f] \in Held(A, f)
  <2> TAKE f \in D
  <2>1. CASE f \in Differing(x)
    <3>1. w[f] = x.after[f] /\ f \in DOMAIN x.after /\ x.after \in Parts(A)
      BY <1>1, <2>1, ChangeElim
    <3> HIDE DEF w
    <3> QED BY <3>1, PartElim
  <2>2. CASE f \notin Differing(x)
    BY <2>2, PartElim
  <2> QED BY <2>1, <2>2
<1>5. w = [f \in D |-> w[f]]
  OBVIOUS
<1> HIDE DEF w, D
<1>6. PartOver(A, D, w)
  BY <1>3, <1>4, <1>5, PartIntro
<1> QED BY <1>2, <1>6 DEF D

\* ... and keeps a whole row whole.
LEMMA PatchFull ==
    ASSUME NEW A \in SUBSET Commands, NEW r \in FullRows(A), NEW x \in Changes(A)
    PROVE  PatchRow(r, x) \in FullRows(A) /\ Patched(x, r) \in FullRows(A) \cup {NoRow}
<1>1. r \in Parts(A) /\ DOMAIN r = Fields
  BY FullElim DEF PartOver
<1>2. DOMAIN r \cup Differing(x) = Fields
  BY <1>1, ChangeElim
<1>3. PatchRow(r, x) \in FullRows(A)
  BY <1>1, <1>2, PatchPart, FullIntro
<1> QED BY <1>3 DEF Patched

\* What failed stays failed.
LEMMA PatchedNone ==
    ASSUME NEW x
    PROVE  Patched(x, NoRow) = NoRow
BY DEF Patched

\* The difference of two rows names every field in which they differ.
LEMMA CompactTyped ==
    ASSUME NEW A \in SUBSET Commands, NEW a \in FullRows(A), NEW b \in FullRows(A)
    PROVE  /\ Compact(a, b) \in Changes(A)
           /\ \A f \in Fields : a[f] # b[f] => f \in DOMAIN Compact(a, b).before
<1>1. PartOver(A, Fields, a) /\ PartOver(A, Fields, b)
  BY FullElim
<1>2. a # NoRow /\ b # NoRow
  BY <1>1, PartElim DEF PartOver
<1> DEFINE K == {f \in Fields : a[f] # b[f]}
<1>3. {f \in DOMAIN a \cup DOMAIN b : At(a, f) # At(b, f)} = K
  BY <1>1 DEF PartOver, At
<1>4. Compact(a, b) = [before |-> [f \in K |-> a[f]], after |-> [f \in K |-> b[f]]]
  <2>1. K \cap DOMAIN a = K /\ K \cap DOMAIN b = K
    BY <1>1 DEF PartOver
  <2> HIDE DEF K
  <2> QED BY <1>2, <1>3, <2>1 DEF Compact
<1>5. \A f \in K : a[f] \in Held(A, f) /\ b[f] \in Held(A, f)
  BY <1>1, PartElim DEF PartOver
<1>6. K \subseteq Fields
  OBVIOUS
<1>7. PartOver(A, K, [f \in K |-> a[f]]) /\ PartOver(A, K, [f \in K |-> b[f]])
  <2> HIDE DEF K
  <2> DEFINE u == [f \in K |-> a[f]]
             v == [f \in K |-> b[f]]
  <2>1. u = [f \in K |-> u[f]] /\ v = [f \in K |-> v[f]]
    OBVIOUS
  <2>2. \A f \in K : u[f] \in Held(A, f) /\ v[f] \in Held(A, f)
    BY <1>5
  <2> HIDE DEF u, v
  <2>3. PartOver(A, K, u) /\ PartOver(A, K, v)
    BY <1>6, <2>1, <2>2, PartIntro
  <2> QED BY <2>3 DEF u, v
<1>8. Compact(a, b) \in Changes(A)
  BY <1>4, <1>7, ChangeIntro DEF PartOver
<1> QED BY <1>4, <1>8

\* A field and the stamp are written.
LEMMA Stamped ==
    ASSUME NEW A \in SUBSET Commands, NEW r \in FullRows(A),
           NEW f \in Fields \ {"updatedAt"}, NEW v \in Held(A, f), NEW w \in Values
    PROVE  [r EXCEPT ![f] = v, !["updatedAt"] = w] \in FullRows(A)
<1>1. r \in [Fields -> Values] /\ \A g \in Fields : r[g] \in Held(A, g)
  BY DEF FullRows
<1>2. v \in Values
  BY HeldValues
<1>3. "updatedAt" \in Fields
  BY InteractionsAssumption
<1> DEFINE q == [r EXCEPT ![f] = v, !["updatedAt"] = w]
<1>4. q \in [Fields -> Values]
  BY <1>1, <1>2, <1>3
<1>5. \A g \in Fields : q[g] \in Held(A, g)
  <2> TAKE g \in Fields
  <2>1. CASE g = "updatedAt"
    BY <1>1, <1>3, <2>1 DEF Held
  <2>2. CASE g = f
    BY <1>1, <1>3, <2>2
  <2>3. CASE g # f /\ g # "updatedAt"
    BY <1>1, <2>3
  <2> QED BY <2>1, <2>2, <2>3
<1> QED BY <1>4, <1>5 DEF FullRows

\* A change can be turned around.
LEMMA ReverseTyped ==
    ASSUME NEW A, NEW x \in Changes(A)
    PROVE  ReverseRow(x) \in Changes(A)
BY ChangeElim, ChangeIntro DEF ReverseRow

\* A rebased change names the fields it named.
LEMMA RebaseOnTyped ==
    ASSUME NEW A \in SUBSET Commands, NEW acc \in Changes(A), NEW x \in Changes(A)
    PROVE  RebaseOn(acc, x) \in Changes(A) /\ DOMAIN RebaseOn(acc, x).before = DOMAIN x.before
<1> DEFINE D == DOMAIN x.before
           b == [f \in D |-> IF f \in DOMAIN acc.after THEN acc.after[f] ELSE x.before[f]]
           a == [f \in D |-> IF x.before[f] = x.after[f] THEN b[f] ELSE x.after[f]]
<1>1. D \subseteq Fields /\ DOMAIN x.after = D /\ x.before \in Parts(A) /\ x.after \in Parts(A)
      /\ acc.after \in Parts(A)
  BY ChangeElim
<1>2. \A f \in D : b[f] \in Held(A, f)
  BY <1>1, PartElim
<1>3. \A f \in D : a[f] \in Held(A, f)
  <2> HIDE DEF b
  <2> QED BY <1>1, <1>2, PartElim
<1>4. b = [f \in D |-> b[f]] /\ a = [f \in D |-> a[f]]
  OBVIOUS
<1>5. RebaseOn(acc, x) = [before |-> b, after |-> a]
  BY <1>1 DEF RebaseOn
<1> HIDE DEF a, b, D
<1>6. PartOver(A, D, b) /\ PartOver(A, D, a)
  BY <1>1, <1>2, <1>3, <1>4, PartIntro
<1>7. [before |-> b, after |-> a] \in Changes(A)
  BY <1>6, ChangeIntro DEF PartOver
<1> QED BY <1>5, <1>6, <1>7 DEF PartOver, D

-----------------------------------------------------------------------------
(* What a change does along others: a fold keeps the type that every step of *)
(* it keeps.                                                                 *)

\* patchDeltaRow, from the earliest click to the latest, keeps a type that each step keeps.
LEMMA UpFold ==
    ASSUME NEW S \in SUBSET Commands, NEW changes, DOMAIN changes = S, NEW R, NEW base \in R,
           \A c \in S, r \in R : Patched(changes[c], r) \in R
    PROVE  PatchUp(base, changes) \in R
<1> DEFINE pick == [s \in SUBSET S |-> Max(s)]
           step == [s \in SUBSET S |-> [r \in R |-> Patched(changes[Max(s)], r)]]
           IsIt(g) == g = [s \in SUBSET S |->
                        IF s = {} THEN base ELSE Patched(changes[Max(s)], g[s \ {Max(s)}])]
<1>1. \A s \in SUBSET S : s # {} => pick[s] \in s
  BY MaxIn
<1>2. \A s \in SUBSET S : s # {} => \A r \in R : step[s][r] \in R
  BY MaxIn
<1>3. PICK g : FoldOf(g, S, base, pick, step) /\ \A s \in SUBSET S : g[s] \in R
  <2> HIDE DEF pick, step
  <2> QED BY <1>1, <1>2, CommandsFinite, FoldTyped
<1>4. IsIt(g)
  <2>1. \A s \in SUBSET S : s # {} =>
            step[s][g[s \ {pick[s]}]] = Patched(changes[Max(s)], g[s \ {Max(s)}])
    BY <1>3
  <2>2. g = [s \in SUBSET S |-> IF s = {} THEN base ELSE step[s][g[s \ {pick[s]}]]]
    BY <1>3 DEF FoldOf
  <2> HIDE DEF pick, step
  <2> QED BY <2>1, <2>2
<1>5. PatchUp(base, changes) = (CHOOSE h : IsIt(h))[S]
  BY DEF PatchUp, Along, MapThenFoldSet
<1>6. PICK h : IsIt(h) /\ PatchUp(base, changes) = h[S]
  BY <1>4, <1>5
<1> DEFINE T == [s \in SUBSET S |-> R]
<1>7. h[{}] \in T[{}]
  BY <1>6
<1>8. ASSUME NEW s \in SUBSET S, s # {}, h[s \ {pick[s]}] \in T[s \ {pick[s]}]
      PROVE  h[s] \in T[s]
  <2>1. h[s] = Patched(changes[Max(s)], h[s \ {Max(s)}])
    BY <1>6, <1>8
  <2>2. Max(s) \in S /\ h[s \ {Max(s)}] \in R
    BY <1>8, MaxIn
  <2> QED BY <2>1, <2>2
<1>9. \A s \in SUBSET S : h[s] \in T[s]
  <2> HIDE DEF T, pick, IsIt
  <2> QED BY <1>1, <1>7, <1>8, CommandsFinite, FoldKeeps
<1> QED BY <1>6, <1>9

\* The same from the latest click to the earliest.
LEMMA DownFold ==
    ASSUME NEW S \in SUBSET Commands, NEW changes, DOMAIN changes = S, NEW R, NEW base \in R,
           \A c \in S, r \in R : Patched(changes[c], r) \in R
    PROVE  PatchDown(base, changes) \in R
<1> DEFINE pick == [s \in SUBSET S |-> Min(s)]
           step == [s \in SUBSET S |-> [r \in R |-> Patched(changes[Min(s)], r)]]
           IsIt(g) == g = [s \in SUBSET S |->
                        IF s = {} THEN base ELSE Patched(changes[Min(s)], g[s \ {Min(s)}])]
<1>1. \A s \in SUBSET S : s # {} => pick[s] \in s
  BY MinIn
<1>2. \A s \in SUBSET S : s # {} => \A r \in R : step[s][r] \in R
  BY MinIn
<1>3. PICK g : FoldOf(g, S, base, pick, step) /\ \A s \in SUBSET S : g[s] \in R
  <2> HIDE DEF pick, step
  <2> QED BY <1>1, <1>2, CommandsFinite, FoldTyped
<1>4. IsIt(g)
  <2>1. \A s \in SUBSET S : s # {} =>
            step[s][g[s \ {pick[s]}]] = Patched(changes[Min(s)], g[s \ {Min(s)}])
    BY <1>3
  <2>2. g = [s \in SUBSET S |-> IF s = {} THEN base ELSE step[s][g[s \ {pick[s]}]]]
    BY <1>3 DEF FoldOf
  <2> HIDE DEF pick, step
  <2> QED BY <2>1, <2>2
<1>5. PatchDown(base, changes) = (CHOOSE h : IsIt(h))[S]
  BY DEF PatchDown, MapThenFoldSet
<1>6. PICK h : IsIt(h) /\ PatchDown(base, changes) = h[S]
  BY <1>4, <1>5
<1> DEFINE T == [s \in SUBSET S |-> R]
<1>7. h[{}] \in T[{}]
  BY <1>6
<1>8. ASSUME NEW s \in SUBSET S, s # {}, h[s \ {pick[s]}] \in T[s \ {pick[s]}]
      PROVE  h[s] \in T[s]
  <2>1. h[s] = Patched(changes[Min(s)], h[s \ {Min(s)}])
    BY <1>6, <1>8
  <2>2. Min(s) \in S /\ h[s \ {Min(s)}] \in R
    BY <1>8, MinIn
  <2> QED BY <2>1, <2>2
<1>9. \A s \in SUBSET S : h[s] \in T[s]
  <2> HIDE DEF T, pick, IsIt
  <2> QED BY <1>1, <1>7, <1>8, CommandsFinite, FoldKeeps
<1> QED BY <1>6, <1>9

\* h is the fold that lays the changes over base.
OverlayIs(h, S, R, base, changes) ==
    /\ h = [s \in SUBSET S |->
              IF s = {} THEN base ELSE PatchRow(h[s \ {Max(s)}], changes[Max(s)])]
    /\ \A s \in SUBSET S : h[s] \in R
    /\ Overlay(base, changes) = h[S]

\* The overlay of changes is a fold whose steps keep a type.
LEMMA OverlayFold ==
    ASSUME NEW S \in SUBSET Commands, NEW changes, DOMAIN changes = S, NEW R, NEW base \in R,
           \A c \in S, r \in R : PatchRow(r, changes[c]) \in R
    PROVE  \E h : OverlayIs(h, S, R, base, changes)
<1> DEFINE pick == [s \in SUBSET S |-> Max(s)]
           step == [s \in SUBSET S |-> [r \in R |-> PatchRow(r, changes[Max(s)])]]
           IsIt(g) == g = [s \in SUBSET S |->
                        IF s = {} THEN base ELSE PatchRow(g[s \ {Max(s)}], changes[Max(s)])]
<1>1. \A s \in SUBSET S : s # {} => pick[s] \in s
  BY MaxIn
<1>2. \A s \in SUBSET S : s # {} => \A r \in R : step[s][r] \in R
  BY MaxIn
<1>3. PICK g : FoldOf(g, S, base, pick, step) /\ \A s \in SUBSET S : g[s] \in R
  <2> HIDE DEF pick, step
  <2> QED BY <1>1, <1>2, CommandsFinite, FoldTyped
<1>4. IsIt(g)
  <2>1. \A s \in SUBSET S : s # {} =>
            step[s][g[s \ {pick[s]}]] = PatchRow(g[s \ {Max(s)}], changes[Max(s)])
    BY <1>3
  <2>2. g = [s \in SUBSET S |-> IF s = {} THEN base ELSE step[s][g[s \ {pick[s]}]]]
    BY <1>3 DEF FoldOf
  <2> HIDE DEF pick, step
  <2> QED BY <2>1, <2>2
<1>5. Overlay(base, changes) = (CHOOSE h : IsIt(h))[S]
  BY DEF Overlay, Along, MapThenFoldSet
<1>6. PICK h : IsIt(h) /\ Overlay(base, changes) = h[S]
  BY <1>4, <1>5
<1> DEFINE T == [s \in SUBSET S |-> R]
<1>7. h[{}] \in T[{}]
  BY <1>6
<1>8. ASSUME NEW s \in SUBSET S, s # {}, h[s \ {pick[s]}] \in T[s \ {pick[s]}]
      PROVE  h[s] \in T[s]
  <2>1. h[s] = PatchRow(h[s \ {Max(s)}], changes[Max(s)])
    BY <1>6, <1>8
  <2>2. Max(s) \in S /\ h[s \ {Max(s)}] \in R
    BY <1>8, MaxIn
  <2> QED BY <2>1, <2>2
<1>9. \A s \in SUBSET S : h[s] \in T[s]
  <2> HIDE DEF T, pick, IsIt
  <2> QED BY <1>1, <1>7, <1>8, CommandsFinite, FoldKeeps
<1> QED BY <1>6, <1>9 DEF OverlayIs

\* rebaseDelta along accepted changes keeps a type that each step keeps.
LEMMA RebaseFold ==
    ASSUME NEW S \in SUBSET Commands, NEW changes, DOMAIN changes = S, NEW R, NEW base \in R,
           \A c \in S, r \in R : RebaseOn(changes[c], r) \in R
    PROVE  Rebase(base, changes) \in R
<1> DEFINE pick == [s \in SUBSET S |-> Max(s)]
           step == [s \in SUBSET S |-> [r \in R |-> RebaseOn(changes[Max(s)], r)]]
           IsIt(g) == g = [s \in SUBSET S |->
                        IF s = {} THEN base ELSE RebaseOn(changes[Max(s)], g[s \ {Max(s)}])]
<1>1. \A s \in SUBSET S : s # {} => pick[s] \in s
  BY MaxIn
<1>2. \A s \in SUBSET S : s # {} => \A r \in R : step[s][r] \in R
  BY MaxIn
<1>3. PICK g : FoldOf(g, S, base, pick, step) /\ \A s \in SUBSET S : g[s] \in R
  <2> HIDE DEF pick, step
  <2> QED BY <1>1, <1>2, CommandsFinite, FoldTyped
<1>4. IsIt(g)
  <2>1. \A s \in SUBSET S : s # {} =>
            step[s][g[s \ {pick[s]}]] = RebaseOn(changes[Max(s)], g[s \ {Max(s)}])
    BY <1>3
  <2>2. g = [s \in SUBSET S |-> IF s = {} THEN base ELSE step[s][g[s \ {pick[s]}]]]
    BY <1>3 DEF FoldOf
  <2> HIDE DEF pick, step
  <2> QED BY <2>1, <2>2
<1>5. Rebase(base, changes) = (CHOOSE h : IsIt(h))[S]
  BY DEF Rebase, Along, MapThenFoldSet
<1>6. PICK h : IsIt(h) /\ Rebase(base, changes) = h[S]
  BY <1>4, <1>5
<1> DEFINE T == [s \in SUBSET S |-> R]
<1>7. h[{}] \in T[{}]
  BY <1>6
<1>8. ASSUME NEW s \in SUBSET S, s # {}, h[s \ {pick[s]}] \in T[s \ {pick[s]}]
      PROVE  h[s] \in T[s]
  <2>1. h[s] = RebaseOn(changes[Max(s)], h[s \ {Max(s)}])
    BY <1>6, <1>8
  <2>2. Max(s) \in S /\ h[s \ {Max(s)}] \in R
    BY <1>8, MaxIn
  <2> QED BY <2>1, <2>2
<1>9. \A s \in SUBSET S : h[s] \in T[s]
  <2> HIDE DEF T, pick, IsIt
  <2> QED BY <1>1, <1>7, <1>8, CommandsFinite, FoldKeeps
<1> QED BY <1>6, <1>9

\* The layering of later images keeps a type that each step keeps.
LEMMA LayerFold ==
    ASSUME NEW S \in SUBSET Commands, NEW changes, DOMAIN changes = S, NEW R, NEW base \in R,
           \A c \in S, r \in R : Over(changes[c].after, r) \in R
    PROVE  Layer(base, changes) \in R
<1> DEFINE pick == [s \in SUBSET S |-> Max(s)]
           step == [s \in SUBSET S |-> [r \in R |-> Over(changes[Max(s)].after, r)]]
           IsIt(g) == g = [s \in SUBSET S |->
                        IF s = {} THEN base ELSE Over(changes[Max(s)].after, g[s \ {Max(s)}])]
<1>1. \A s \in SUBSET S : s # {} => pick[s] \in s
  BY MaxIn
<1>2. \A s \in SUBSET S : s # {} => \A r \in R : step[s][r] \in R
  BY MaxIn
<1>3. PICK g : FoldOf(g, S, base, pick, step) /\ \A s \in SUBSET S : g[s] \in R
  <2> HIDE DEF pick, step
  <2> QED BY <1>1, <1>2, CommandsFinite, FoldTyped
<1>4. IsIt(g)
  <2>1. \A s \in SUBSET S : s # {} =>
            step[s][g[s \ {pick[s]}]] = Over(changes[Max(s)].after, g[s \ {Max(s)}])
    BY <1>3
  <2>2. g = [s \in SUBSET S |-> IF s = {} THEN base ELSE step[s][g[s \ {pick[s]}]]]
    BY <1>3 DEF FoldOf
  <2> HIDE DEF pick, step
  <2> QED BY <2>1, <2>2
<1>5. Layer(base, changes) = (CHOOSE h : IsIt(h))[S]
  BY DEF Layer, Along, MapThenFoldSet
<1>6. PICK h : IsIt(h) /\ Layer(base, changes) = h[S]
  BY <1>4, <1>5
<1> DEFINE T == [s \in SUBSET S |-> R]
<1>7. h[{}] \in T[{}]
  BY <1>6
<1>8. ASSUME NEW s \in SUBSET S, s # {}, h[s \ {pick[s]}] \in T[s \ {pick[s]}]
      PROVE  h[s] \in T[s]
  <2>1. h[s] = Over(changes[Max(s)].after, h[s \ {Max(s)}])
    BY <1>6, <1>8
  <2>2. Max(s) \in S /\ h[s \ {Max(s)}] \in R
    BY <1>8, MaxIn
  <2> QED BY <2>1, <2>2
<1>9. \A s \in SUBSET S : h[s] \in T[s]
  <2> HIDE DEF T, pick, IsIt
  <2> QED BY <1>1, <1>7, <1>8, CommandsFinite, FoldKeeps
<1> QED BY <1>6, <1>9

\* The following of later images keeps a type that each step keeps.
LEMMA FollowFold ==
    ASSUME NEW S \in SUBSET Commands, NEW changes, DOMAIN changes = S, NEW R, NEW base \in R,
           \A c \in S, r \in R : Followed(changes[c], r) \in R
    PROVE  Follow(base, changes) \in R
<1> DEFINE pick == [s \in SUBSET S |-> Max(s)]
           step == [s \in SUBSET S |-> [r \in R |-> Followed(changes[Max(s)], r)]]
           IsIt(g) == g = [s \in SUBSET S |->
                        IF s = {} THEN base ELSE Followed(changes[Max(s)], g[s \ {Max(s)}])]
<1>1. \A s \in SUBSET S : s # {} => pick[s] \in s
  BY MaxIn
<1>2. \A s \in SUBSET S : s # {} => \A r \in R : step[s][r] \in R
  BY MaxIn
<1>3. PICK g : FoldOf(g, S, base, pick, step) /\ \A s \in SUBSET S : g[s] \in R
  <2> HIDE DEF pick, step
  <2> QED BY <1>1, <1>2, CommandsFinite, FoldTyped
<1>4. IsIt(g)
  <2>1. \A s \in SUBSET S : s # {} =>
            step[s][g[s \ {pick[s]}]] = Followed(changes[Max(s)], g[s \ {Max(s)}])
    BY <1>3
  <2>2. g = [s \in SUBSET S |-> IF s = {} THEN base ELSE step[s][g[s \ {pick[s]}]]]
    BY <1>3 DEF FoldOf
  <2> HIDE DEF pick, step
  <2> QED BY <2>1, <2>2
<1>5. Follow(base, changes) = (CHOOSE h : IsIt(h))[S]
  BY DEF Follow, Along, MapThenFoldSet
<1>6. PICK h : IsIt(h) /\ Follow(base, changes) = h[S]
  BY <1>4, <1>5
<1> DEFINE T == [s \in SUBSET S |-> R]
<1>7. h[{}] \in T[{}]
  BY <1>6
<1>8. ASSUME NEW s \in SUBSET S, s # {}, h[s \ {pick[s]}] \in T[s \ {pick[s]}]
      PROVE  h[s] \in T[s]
  <2>1. h[s] = Followed(changes[Max(s)], h[s \ {Max(s)}])
    BY <1>6, <1>8
  <2>2. Max(s) \in S /\ h[s \ {Max(s)}] \in R
    BY <1>8, MaxIn
  <2> QED BY <2>1, <2>2
<1>9. \A s \in SUBSET S : h[s] \in T[s]
  <2> HIDE DEF T, pick, IsIt
  <2> QED BY <1>1, <1>7, <1>8, CommandsFinite, FoldKeeps
<1> QED BY <1>6, <1>9

-----------------------------------------------------------------------------
(* What the operators of the interactions make of well-formed rows and changes *)

\* The changes of some commands.
ChangesOf(A, changes) ==
    /\ DOMAIN changes \in SUBSET Commands
    /\ \A c \in DOMAIN changes : changes[c] \in Changes(A)

\* Changes applied upwards leave a whole row, or none.
LEMMA PatchUpTyped ==
    ASSUME NEW A \in SUBSET Commands, NEW changes, ChangesOf(A, changes),
           NEW row \in FullRows(A)
    PROVE  PatchUp(row, changes) \in FullRows(A) \cup {NoRow}
<1> DEFINE S == DOMAIN changes
           R == FullRows(A) \cup {NoRow}
<1>1. S \in SUBSET Commands /\ row \in R
  BY DEF ChangesOf
<1>2. \A c \in S, r \in R : Patched(changes[c], r) \in R
  BY PatchFull, PatchedNone DEF ChangesOf
<1> HIDE DEF S, R
<1>3. PatchUp(row, changes) \in R
  <2>1. DOMAIN changes = S
    BY DEF S
  <2> QED BY <1>1, <1>2, <2>1, UpFold
<1> QED BY <1>3 DEF R

\* Changes applied downwards leave a whole row, or none.
LEMMA PatchDownTyped ==
    ASSUME NEW A \in SUBSET Commands, NEW changes, ChangesOf(A, changes),
           NEW row \in FullRows(A)
    PROVE  PatchDown(row, changes) \in FullRows(A) \cup {NoRow}
<1> DEFINE S == DOMAIN changes
           R == FullRows(A) \cup {NoRow}
<1>1. S \in SUBSET Commands /\ row \in R
  BY DEF ChangesOf
<1>2. \A c \in S, r \in R : Patched(changes[c], r) \in R
  BY PatchFull, PatchedNone DEF ChangesOf
<1> HIDE DEF S, R
<1>3. PatchDown(row, changes) \in R
  <2>1. DOMAIN changes = S
    BY DEF S
  <2> QED BY <1>1, <1>2, <2>1, DownFold
<1> QED BY <1>3 DEF R

\* One part over another has the fields of both.
LEMMA OverPart ==
    ASSUME NEW A \in SUBSET Commands, NEW top \in Parts(A), NEW row \in Parts(A)
    PROVE  PartOver(A, DOMAIN row \cup DOMAIN top, Over(top, row))
<1> DEFINE D == DOMAIN row \cup DOMAIN top
           w == [f \in D |-> IF f \in DOMAIN top THEN top[f] ELSE row[f]]
<1>1. D \subseteq Fields /\ \A f \in D : w[f] \in Held(A, f)
  BY PartElim
<1>2. w = [f \in D |-> w[f]] /\ Over(top, row) = w
  BY DEF Over
<1> HIDE DEF w, D
<1> QED BY <1>1, <1>2, PartIntro DEF D

\* A part that follows a change keeps its fields.
LEMMA FollowedPart ==
    ASSUME NEW A \in SUBSET Commands, NEW x \in Changes(A), NEW row \in Parts(A)
    PROVE  PartOver(A, DOMAIN row, Followed(x, row))
<1> DEFINE D == DOMAIN row
           w == [f \in D |-> IF f \in DOMAIN x.after THEN x.after[f] ELSE row[f]]
<1>1. x.after \in Parts(A)
  BY ChangeElim
<1>2. D \subseteq Fields /\ \A f \in D : w[f] \in Held(A, f)
  BY <1>1, PartElim
<1>3. w = [f \in D |-> w[f]] /\ Followed(x, row) = w
  BY DEF Followed
<1> HIDE DEF w, D
<1> QED BY <1>2, <1>3, PartIntro DEF D

\* Layering adds fields and loses none.
LEMMA LayerTyped ==
    ASSUME NEW A \in SUBSET Commands, NEW changes, ChangesOf(A, changes), NEW row \in Parts(A)
    PROVE  Layer(row, changes) \in Parts(A) /\ DOMAIN row \subseteq DOMAIN Layer(row, changes)
<1> DEFINE S == DOMAIN changes
           R == {r \in Parts(A) : DOMAIN row \subseteq DOMAIN r}
<1>1. S \in SUBSET Commands /\ row \in R
  BY DEF ChangesOf
<1>2. ASSUME NEW c \in S, NEW r \in R PROVE Over(changes[c].after, r) \in R
  <2>1. changes[c].after \in Parts(A)
    BY ChangeElim DEF ChangesOf
  <2> QED BY <2>1, OverPart DEF PartOver
<1> HIDE DEF S, R
<1>3. Layer(row, changes) \in R
  <2>1. DOMAIN changes = S
    BY DEF S
  <2> QED BY <1>1, <1>2, <2>1, LayerFold
<1> QED BY <1>3 DEF R

\* Following neither adds nor loses fields.
LEMMA FollowTyped ==
    ASSUME NEW A \in SUBSET Commands, NEW changes, ChangesOf(A, changes), NEW row \in Parts(A)
    PROVE  PartOver(A, DOMAIN row, Follow(row, changes))
<1> DEFINE S == DOMAIN changes
           R == {r \in Parts(A) : DOMAIN r = DOMAIN row}
<1>1. S \in SUBSET Commands /\ row \in R
  BY DEF ChangesOf
<1>2. \A c \in S, r \in R : Followed(changes[c], r) \in R
  BY FollowedPart DEF ChangesOf, PartOver
<1> HIDE DEF S, R
<1>3. Follow(row, changes) \in R
  <2>1. DOMAIN changes = S
    BY DEF S
  <2> QED BY <1>1, <1>2, <2>1, FollowFold
<1> QED BY <1>3 DEF R, PartOver

\* A change rebased over accepted ones stays a change, of the same fields.
LEMMA RebaseTyped ==
    ASSUME NEW A \in SUBSET Commands, NEW changes, ChangesOf(A, changes), NEW x \in Changes(A)
    PROVE  Rebase(x, changes) \in Changes(A) /\ DOMAIN Rebase(x, changes).before = DOMAIN x.before
<1> DEFINE S == DOMAIN changes
           R == {y \in Changes(A) : DOMAIN y.before = DOMAIN x.before}
<1>1. S \in SUBSET Commands /\ x \in R
  BY DEF ChangesOf
<1>2. \A c \in S, y \in R : RebaseOn(changes[c], y) \in R
  BY RebaseOnTyped DEF ChangesOf
<1> HIDE DEF S, R
<1>3. Rebase(x, changes) \in R
  <2>1. DOMAIN changes = S
    BY DEF S
  <2> QED BY <1>1, <1>2, <2>1, RebaseFold
<1> QED BY <1>3 DEF R

\* Over rows with the same fields, the same changes give rows with the same fields.
LEMMA OverlayPair ==
    ASSUME NEW A \in SUBSET Commands, NEW changes, ChangesOf(A, changes),
           NEW p \in Parts(A), NEW q \in Parts(A), DOMAIN p = DOMAIN q
    PROVE  [before |-> Overlay(p, changes), after |-> Overlay(q, changes)] \in Changes(A)
<1> DEFINE S == DOMAIN changes
           R == Parts(A)
<1>1. S \in SUBSET Commands
  BY DEF ChangesOf
<1>2. \A c \in S, r \in R : PatchRow(r, changes[c]) \in R
  BY PatchPart DEF ChangesOf, PartOver
<1> HIDE DEF S
<1>3. DOMAIN changes = S
  BY DEF S
<1>4. PICK h : OverlayIs(h, S, R, p, changes)
  BY <1>1, <1>2, <1>3, OverlayFold
<1>5. PICK k : OverlayIs(k, S, R, q, changes)
  BY <1>1, <1>2, <1>3, OverlayFold
<1> DEFINE T == [s \in SUBSET S |-> {y \in [before : R, after : R] : DOMAIN y.before = DOMAIN y.after}]
           g == [s \in SUBSET S |-> [before |-> h[s], after |-> k[s]]]
           pick == [s \in SUBSET S |-> Max(s)]
<1>6. \A s \in SUBSET S : s # {} => pick[s] \in s
  BY <1>1, MaxIn
<1>7. g[{}] \in T[{}]
  BY <1>4, <1>5 DEF OverlayIs
<1>8. ASSUME NEW s \in SUBSET S, s # {}, g[s \ {pick[s]}] \in T[s \ {pick[s]}]
      PROVE  g[s] \in T[s]
  <2> DEFINE d == Max(s)
  <2>1. d \in S /\ s \ {d} \in SUBSET S
    BY <1>6, <1>8
  <2>2. DOMAIN h[s \ {d}] = DOMAIN k[s \ {d}]
    BY <1>8, <2>1
  <2>3. h[s] = PatchRow(h[s \ {d}], changes[d]) /\ k[s] = PatchRow(k[s \ {d}], changes[d])
    BY <1>4, <1>5, <1>8 DEF OverlayIs
  <2>4. h[s \ {d}] \in Parts(A) /\ k[s \ {d}] \in Parts(A) /\ changes[d] \in Changes(A)
    BY <1>3, <1>4, <1>5, <2>1 DEF ChangesOf, OverlayIs
  <2> HIDE DEF d
  <2>5. DOMAIN h[s] = DOMAIN h[s \ {d}] \cup Differing(changes[d])
    BY <2>3, <2>4, PatchPart DEF PartOver
  <2>6. DOMAIN k[s] = DOMAIN k[s \ {d}] \cup Differing(changes[d])
    BY <2>3, <2>4, PatchPart DEF PartOver
  <2>7. h[s] \in R /\ k[s] \in R
    BY <1>4, <1>5 DEF OverlayIs
  <2> QED BY <2>2, <2>5, <2>6, <2>7
<1>9. g[S] \in T[S]
  <2> HIDE DEF T, g, pick
  <2> QED BY <1>1, <1>6, <1>7, <1>8, CommandsFinite, FoldKeeps
<1>10. DOMAIN h[S] = DOMAIN k[S]
  BY <1>9
<1>11. h[S] \in Parts(A) /\ k[S] \in Parts(A)
  BY <1>4, <1>5 DEF OverlayIs
<1> QED BY <1>4, <1>5, <1>10, <1>11, ChangeIntro DEF OverlayIs

-----------------------------------------------------------------------------
(* Rollback, settlement and rebased changes *)

\* All that is needed of the journals and the ledger.
Journaled(A) == \A c \in Commands : journal[c].change \in Changes(A)
Receipted(A) == \A c \in Commands : receipts[c].change \in Changes(A)
PredsBelow == \A c \in Commands : journal[c].preds \subseteq 1 .. c - 1

\* The commands before one are commands.
LEMMA BelowCommands ==
    ASSUME NEW c \in Commands
    PROVE  1 .. c - 1 \subseteq Commands /\ c \notin 1 .. c - 1
BY InteractionsAssumption DEF Commands

\* The changes of journaled commands are changes.
LEMMA AcceptedTyped ==
    ASSUME NEW A \in SUBSET Commands, Journaled(A), NEW S \in SUBSET Commands
    PROVE  ChangesOf(A, Accepted(S))
BY DEF ChangesOf, Accepted, Journaled

\* Confirmed predecessors are commands.
LEMMA ConfirmedPredsTyped ==
    ASSUME PredsBelow, NEW c \in Commands
    PROVE  ConfirmedPreds(c) \in SUBSET Commands
BY BelowCommands DEF PredsBelow, ConfirmedPreds

\* The inverse of a step is a change.
LEMMA RollbackTyped ==
    ASSUME NEW A \in SUBSET Commands, Journaled(A), PredsBelow, NEW c \in Commands
    PROVE  Rollback(c) \in Changes(A)
<1>1. ChangesOf(A, Accepted(ConfirmedPreds(c)))
  BY AcceptedTyped, ConfirmedPredsTyped
<1>2. journal[c].change \in Changes(A)
  BY DEF Journaled
<1>3. journal[c].change.before \in Parts(A) /\ journal[c].change.after \in Parts(A)
      /\ DOMAIN journal[c].change.before = DOMAIN journal[c].change.after
  BY <1>2, ChangeElim
<1>4. PartOver(A, DOMAIN journal[c].change.before,
               Follow(journal[c].change.before, Accepted(ConfirmedPreds(c))))
  BY <1>1, <1>3, FollowTyped
<1> QED BY <1>3, <1>4, ChangeIntro DEF Rollback, PartOver

\* What a settlement changes in the cache is a change: both images name the same fields.
LEMMA SettlementTyped ==
    ASSUME NEW A \in SUBSET Commands, Journaled(A), Receipted(A), PredsBelow, NEW c \in Commands
    PROVE  Settlement(c) \in Changes(A)
<1> DEFINE mine == journal[c].change
           theirs == receipts[c].change
           later == Accepted(Dependents(c))
           prior == Layer(mine.before, Accepted(ConfirmedPreds(c)))
           baseline == IF mine = NoChange THEN theirs.before ELSE Over(theirs.before, prior)
<1>1. ChangesOf(A, later) /\ ChangesOf(A, Accepted(ConfirmedPreds(c)))
  BY AcceptedTyped, ConfirmedPredsTyped DEF Dependents, OpenJournals
<1>2. mine \in Changes(A) /\ theirs \in Changes(A)
  BY DEF Journaled, Receipted
<1>3. Settlement(c) = [before |-> Overlay(PatchRow(baseline, mine), later),
                       after |-> Overlay(PatchRow(baseline, theirs), later)]
  BY DEF Settlement
<1>4. NoChange.before = <<>> /\ NoChange \in Changes(A)
  BY Nothing
<1> HIDE DEF mine, theirs, later
<1>5. mine.before \in Parts(A) /\ theirs.before \in Parts(A)
  BY <1>2, ChangeElim
<1>6. prior \in Parts(A) /\ DOMAIN mine.before \subseteq DOMAIN prior
  BY <1>1, <1>5, LayerTyped
<1>7. baseline \in Parts(A) /\ DOMAIN theirs.before \subseteq DOMAIN baseline
      /\ DOMAIN mine.before \subseteq DOMAIN baseline
  <2> HIDE DEF prior
  <2>1. CASE mine = NoChange
    BY <1>5, <2>1, Nothing
  <2>2. CASE mine # NoChange
    <3>1. PartOver(A, DOMAIN prior \cup DOMAIN theirs.before, Over(theirs.before, prior))
      BY <1>5, <1>6, OverPart
    <3> QED BY <1>6, <2>2, <3>1 DEF PartOver
  <2> QED BY <2>1, <2>2
<1> HIDE DEF baseline
<1>8. Differing(mine) \subseteq DOMAIN baseline /\ Differing(theirs) \subseteq DOMAIN baseline
  BY <1>2, <1>7, ChangeElim
<1>9. PatchRow(baseline, mine) \in Parts(A) /\ DOMAIN PatchRow(baseline, mine) = DOMAIN baseline
  BY <1>2, <1>7, <1>8, PatchPart DEF PartOver
<1>10. PatchRow(baseline, theirs) \in Parts(A) /\ DOMAIN PatchRow(baseline, theirs) = DOMAIN baseline
  BY <1>2, <1>7, <1>8, PatchPart DEF PartOver
<1> QED BY <1>1, <1>3, <1>9, <1>10, OverlayPair

\* What an interaction rests on was clicked before it.
LEMMA AncestorsBelow ==
    ASSUME PredsBelow, NEW work, NEW n \in Commands
    PROVE  Ancestors(work, n) \subseteq 1 .. n - 1
<1>1. 1 .. n - 1 \in SUBSET Commands
  BY BelowCommands
<1>2. journal[n].preds \subseteq 1 .. n - 1
  BY DEF PredsBelow
<1>3. \A m \in 1 .. n - 1 : journal[m].preds \subseteq 1 .. n - 1
  BY <1>1, InteractionsAssumption DEF PredsBelow, Commands
<1> QED BY <1>1, <1>2, <1>3 DEF Ancestors

\* What stays open is rebased, and names the fields it named.
RebasedTypes(A, work) ==
    /\ DOMAIN Rebased(work) = (work.records \ work.found) \ Unwound(work)
    /\ ChangesOf(A, Rebased(work))
    /\ \A n \in DOMAIN Rebased(work) :
            DOMAIN Rebased(work)[n].before = DOMAIN journal[n].change.before

\* What a recovery of the projection lays over the snapshot: changes of the same fields as before.
LEMMA RebasedTyped ==
    ASSUME NEW A \in SUBSET Commands, Journaled(A), Receipted(A), PredsBelow,
           NEW work, work.records \in SUBSET Commands
    PROVE  RebasedTypes(A, work)
<1> DEFINE kept == (work.records \ work.found) \ Unwound(work)
           under(n) == {m \in Ancestors(work, n) :
                            m \in work.found \cup kept \/ journal[m].state = "confirmed"}
           B(h, n) == IF n \in work.found THEN receipts[n].change
                      ELSE IF n \in kept
                      THEN Rebase(journal[n].change, [m \in under(n) |-> h[m]])
                      ELSE journal[n].change
           IsIt(h) == h = [n \in Commands |-> B(h, n)]
<1>1. Rebased(work) = [n \in kept |-> (CHOOSE h : IsIt(h))[n]]
  BY DEF Rebased
<1>2. \A n \in Commands : under(n) \subseteq 1 .. n - 1
  BY AncestorsBelow
<1>3. ASSUME NEW g, NEW h, NEW n \in Commands, \A m \in 1 .. n - 1 : g[m] = h[m]
      PROVE  B(g, n) = B(h, n)
  <2>1. [m \in under(n) |-> g[m]] = [m \in under(n) |-> h[m]]
    <3> HIDE DEF under
    <3> QED BY <1>2, <1>3
  <2> HIDE DEF under, kept
  <2> QED BY <2>1
<1> DEFINE Upto(h, n) == \A m \in Commands : m <= n => h[m] = B(h, m)
           W == {n \in Nat : \E h : Upto(h, n)}
<1>4. 0 \in W
  <2>1. \A h : Upto(h, 0)
    BY DEF Commands
  <2> QED BY <2>1
<1>5. ASSUME NEW n \in Nat, n \in W PROVE n + 1 \in W
  <2> HIDE DEF B
  <2>1. PICK g : Upto(g, n)
    BY <1>5
  <2> DEFINE h == [m \in Commands |-> IF m <= n THEN g[m] ELSE B(g, m)]
  <2>2. ASSUME NEW m \in Commands, m <= n + 1 PROVE h[m] = B(h, m)
    <3>1. \A i \in 1 .. m - 1 : i \in Commands /\ i <= n
      BY <2>2, BelowCommands DEF Commands
    <3>2. \A i \in 1 .. m - 1 : h[i] = g[i]
      BY <3>1
    <3>3. h[m] = B(g, m)
      BY <2>1, <2>2
    <3> HIDE DEF h
    <3>4. B(h, m) = B(g, m)
      BY <1>3, <3>2
    <3> QED BY <3>3, <3>4
  <2>3. Upto(h, n + 1)
    BY <2>2
  <2>4. \E x : Upto(x, n + 1)
    BY <2>3
  <2>5. n + 1 \in Nat
    OBVIOUS
  <2> HIDE DEF h, Upto
  <2> QED BY <2>4, <2>5
<1>6. \E h : IsIt(h)
  <2> HIDE DEF B
  <2>1. MaxCommands \in W
    <3> HIDE DEF W
    <3> QED BY <1>4, <1>5, Induction, InteractionsAssumption
  <2>2. PICK g : Upto(g, MaxCommands)
    BY <2>1
  <2> DEFINE h == [m \in Commands |-> g[m]]
  <2>3. \A m \in Commands : h[m] = B(h, m)
    <3> TAKE m \in Commands
    <3>1. \A i \in 1 .. m - 1 : h[i] = g[i]
      BY BelowCommands
    <3>2. h[m] = B(g, m)
      BY <2>2, InteractionsAssumption DEF Commands
    <3> HIDE DEF h
    <3>3. B(h, m) = B(g, m)
      BY <1>3, <3>1
    <3> QED BY <3>2, <3>3
  <2>4. h = [m \in Commands |-> B(h, m)]
    BY <2>3
  <2> QED BY <2>4
<1>7. PICK h : IsIt(h) /\ Rebased(work) = [n \in kept |-> h[n]]
  <2> HIDE DEF IsIt
  <2> QED BY <1>1, <1>6
<1> DEFINE Ok(m) == /\ h[m] \in Changes(A)
                    /\ m \in kept => DOMAIN h[m].before = DOMAIN journal[m].change.before
           V == {n \in Nat : \A m \in Commands : m <= n => Ok(m)}
<1>8. 0 \in V
  BY DEF Commands
<1>9. ASSUME NEW n \in Nat, n \in V PROVE n + 1 \in V
  <2>1. ASSUME NEW m \in Commands, m <= n + 1 PROVE Ok(m)
    <3>1. \A i \in 1 .. m - 1 : i \in Commands /\ h[i] \in Changes(A)
      BY <1>9, <2>1, BelowCommands DEF Commands
    <3>2. ChangesOf(A, [i \in under(m) |-> h[i]])
      <4> HIDE DEF under
      <4> QED BY <1>2, <3>1 DEF ChangesOf
    <3>3. h[m] = B(h, m)
      <4> HIDE DEF B
      <4> QED BY <1>7
    <3>4. journal[m].change \in Changes(A) /\ receipts[m].change \in Changes(A)
      BY DEF Journaled, Receipted
    <3> HIDE DEF under
    <3>5. CASE m \in work.found
      BY <3>3, <3>4, <3>5
    <3>6. CASE m \notin work.found /\ m \in kept
      <4> HIDE DEF kept
      <4> QED BY <3>2, <3>3, <3>4, <3>6, RebaseTyped
    <3>7. CASE m \notin work.found /\ m \notin kept
      <4> HIDE DEF kept
      <4> QED BY <3>3, <3>4, <3>7
    <3> QED BY <3>5, <3>6, <3>7
  <2> HIDE DEF Ok
  <2> QED BY <2>1
<1>10. \A m \in Commands : Ok(m)
  <2>1. MaxCommands \in V
    <3> HIDE DEF V
    <3> QED BY <1>8, <1>9, Induction, InteractionsAssumption
  <2> HIDE DEF Ok
  <2> QED BY <2>1, InteractionsAssumption DEF Commands
<1>11. kept \subseteq Commands
  OBVIOUS
<1>12. DOMAIN Rebased(work) = kept /\ \A n \in kept : Rebased(work)[n] = h[n]
  BY <1>7
<1> HIDE DEF kept
<1> QED BY <1>10, <1>11, <1>12 DEF RebasedTypes, ChangesOf, kept

-----------------------------------------------------------------------------
(* The inductive invariant *)

\* The commands asked for, committed, journaled, and journaled without being confirmed.
AskedOnes == {c \in Commands : asked[c] # NotAsked}
Committed == {c \in Commands : receipts[c].rev # 0}
Journals == {c \in Commands : journal[c].state # "none"}
Unsettled == {c \in Commands : journal[c].state \notin {"none", "confirmed"}}

\* The shapes of the variables.
JournalStates == {"none"} \cup Open \cup Terminal
MirrorStatuses == {"absent", "pending", "unknown", "projection_pending"} \cup Closed
PrepStages == {"none", "reading", "target", "persisting", "archiving", "archived", "prepared"}
Procs == {"flight", "replay"}
RejectStages == {"reject", "rollback", "quarantine", "retire"}
FlightStages == {"idle", "lookup", "predecessors", "request", "answered", "settle", "settled",
                 "keep", "kept", "again", "receipts", "remote", "install", "installed"}

Asks == [undoes : 0 .. MaxCommands, row : Keys, field : Fields, valid : BOOLEAN]
Journal(A) == [state : JournalStates, change : Changes(A), base : Int, preds : SUBSET Commands,
               rev : Nat]
Mirror(A) == [status : MirrorStatuses, change : Changes(A), base : Nat, preds : SUBSET Commands,
              root : 0 .. MaxCommands]
Receipt(A) == [rev : Nat, change : Changes(A)]
Prep(A) == [at : PrepStages, seen : FullRows(A) \cup {NoRow}]
RowsOf(A) == [Keys -> FullRows(A)]
Snapshot(A) == [rev : Nat, rows : RowsOf(A)]

\* What was asked for: earlier clicks first, and an undo of an earlier command.
AskedWell ==
    /\ asked \in [Commands -> Asks]
    /\ \A c \in AskedOnes : /\ 1 .. c - 1 \subseteq AskedOnes
                            /\ asked[c].field # "updatedAt"
    /\ \A c \in AskedOnes : asked[c].undoes # 0 =>
            asked[c].undoes \in AskedOnes /\ asked[c].undoes < c /\ asked[asked[c].undoes].undoes = 0

\* The change of a command that sets a field names it.
Names(c, change) == asked[c].undoes = 0 => asked[c].field \in DOMAIN change.before

\* The ledger holds only what was asked for.
ServerWell ==
    /\ server \in Snapshot(Committed)
    /\ receipts \in [Commands -> Receipt(Committed)]
    /\ \A c \in Commands : receipts[c].rev <= server.rev
    /\ \A c \in Committed : c \in AskedOnes /\ Names(c, receipts[c].change)
    /\ \A x \in late : x.cmd \in AskedOnes
    /\ IsFiniteSet(foreign) /\ Cardinality(foreign) <= MaxForeign

\* The client's rows are whole, and not ahead of the server.
CacheWell ==
    /\ cache \in RowsOf(AskedOnes) /\ view \in RowsOf(AskedOnes) /\ canon \in Snapshot(AskedOnes)
    /\ canon.rev <= server.rev /\ checkpoint \in Nat /\ checkpoint <= server.rev

\* What is journaled was asked for after its predecessors; what is confirmed has a receipt.
JournalsWell ==
    /\ journal \in [Commands -> Journal(AskedOnes)]
    /\ \A c \in Commands :
        /\ journal[c].preds \subseteq 1 .. c - 1
        /\ journal[c].state = "none" => journal[c] = NoJournal
        /\ journal[c].state = "confirmed" => journal[c].rev = receipts[c].rev /\ c \in Committed
        /\ journal[c].state # "none" => c \in AskedOnes /\ Names(c, journal[c].change)

\* A mirror stays until its interaction is journaled.
MirrorsWell ==
    /\ mirror \in [Commands -> Mirror(AskedOnes)]
    /\ \A c \in Commands :
        /\ mirror[c].preds \subseteq 1 .. c - 1
        /\ mirror[c].status = "absent" => mirror[c] = NoMirror
        /\ mirror[c] # NoMirror => c \in AskedOnes /\ Names(c, mirror[c].change)
        /\ c \in AskedOnes /\ mirror[c] = NoMirror => journal[c].state # "none"

\* Reads and writes of preparations are in the order of the clicks, and come before the journal.
PrepsWell ==
    /\ prep \in [Commands -> Prep(AskedOnes)]
    /\ \A c \in Commands :
        /\ prep[c].at \in Reads => prep[c].seen # NoRow
        /\ prep[c].at = "target" => asked[c].undoes # 0
        /\ prep[c].at \in Reads => \A d \in AskedOnes : c < d => prep[d].at \in Reads
        /\ prep[c].at \in Reads \cup Writes => journal[c] = NoJournal /\ mirror[c] # NoMirror
        /\ prep[c].at \in {"archived", "prepared"} => journal[c].state # "none"

\* Only what is journaled is sent.
QueueWell ==
    /\ queue \in Seq([cmd : Commands, recovery : BOOLEAN])
    /\ \A i \in 1 .. Len(queue) : journal[queue[i].cmd].state # "none"

\* The two processes are records.
ProcWell ==
    proc = [p \in Procs |-> [at |-> proc[p].at, cmd |-> proc[p].cmd, recovery |-> proc[p].recovery,
                             was |-> proc[p].was, kind |-> proc[p].kind, work |-> proc[p].work]]

\* A record that a rejection has read and will save again.
RecordWell(d, r) ==
    /\ r \in Journal(AskedOnes) /\ r.preds \subseteq 1 .. d - 1 /\ r.state # "none"
    /\ d \in AskedOnes /\ Names(d, r.change)

\* The records and the inverses that a rejection works on.
WorkWell(work) ==
    /\ DOMAIN work \subseteq Journals
    /\ \A d \in DOMAIN work : RecordWell(d, work[d].record) /\ work[d].inverse \in Changes(AskedOnes)

\* A rejection works on journaled interactions; a send may have confirmed them since.
Rejection(x) ==
    x.at \in RejectStages =>
        /\ x.cmd \in Journals /\ x.kind \in {"rejected", "conflict"}
        /\ x.at \in {"rollback", "quarantine"} => x.cmd \in DOMAIN x.work /\ WorkWell(x.work)
        /\ x.at = "retire" => DOMAIN x.work \subseteq Journals

\* A send serves the head of the queue, and nobody else confirms anything meanwhile.
Sends(x) ==
    /\ x.at \in FlightStages \cup RejectStages
    /\ x.at # "idle" => queue # <<>> /\ x.cmd \in Journals
    /\ x.at \notin {"idle", "settled", "installed", "retire"} => x.cmd \in Unsettled
    /\ x.at \in {"rollback", "quarantine"} => DOMAIN x.work \subseteq Unsettled
    /\ x.at \in {"answered", "settle"} => x.cmd \in Committed
    /\ x.at = "settle" => x.work \in Changes(AskedOnes)

\* What a recovery of the projection has read.
Recovers(x) ==
    /\ x.at \in {"receipts", "remote", "install"} => x.work.records \subseteq Unsettled
    /\ x.at \in {"remote", "install"} => x.work.found \subseteq x.work.records \cap Committed
    /\ x.at \in {"install", "installed"} => x.work.remote \in Snapshot(AskedOnes)
                                            /\ x.work.remote.rev <= server.rev
    /\ x.at = "installed" => x.work.remote.rev <= canon.rev /\ x.work.records \subseteq Commands

\* The recovery restores what has no journal, or rolls back.
Replays(x) ==
    /\ x.at \in {"idle", "restore"} \cup RejectStages
    /\ x.at = "restore" => x.cmd \in Commands /\ journal[x.cmd] = NoJournal
                           /\ mirror[x.cmd] # NoMirror /\ prep[x.cmd].at = "none"

\* Both processes.
ProcsWell ==
    /\ ProcWell
    /\ Rejection(proc["flight"]) /\ Sends(proc["flight"]) /\ Recovers(proc["flight"])
    /\ Rejection(proc["replay"]) /\ Replays(proc["replay"])

\* All of it.
IInv ==
    /\ AskedWell /\ ServerWell /\ CacheWell /\ JournalsWell /\ MirrorsWell /\ PrepsWell
    /\ QueueWell /\ ProcsWell /\ faults \in 0 .. MaxFaults

\* Unless a send undercuts a rejection, what is confirmed stays as it is, and the
\* checkpoint stays backed.
Steady ==
    NothingUndercut =>
        \A c \in Commands : journal[c].state = "confirmed" => journal'[c] = journal[c]

Backs == NothingUndercut /\ CheckpointIsBacked => CheckpointIsBacked'

\* What the lemma of an action proves.
Keeps == IInv' /\ Steady /\ Backs

-----------------------------------------------------------------------------
(* What keeps the parts of the invariant *)

\* Nobody asked.
LEMMA AskedFrame ==
    ASSUME AskedWell, asked' = asked
    PROVE  AskedWell' /\ AskedOnes' = AskedOnes
BY DEF AskedWell, AskedOnes

\* The server did nothing.
LEMMA ServerFrame ==
    ASSUME ServerWell, asked' = asked, UNCHANGED backend
    PROVE  ServerWell' /\ Committed' = Committed
BY DEF ServerWell, AskedOnes, Committed, Names, backend

\* The client's rows stay; the server may move on.
LEMMA CacheFrame ==
    ASSUME CacheWell, asked' = asked, server.rev <= server'.rev,
           UNCHANGED <<cache, view, canon, checkpoint>>, ServerWell, ServerWell'
    PROVE  CacheWell'
BY DEF CacheWell, AskedOnes, ServerWell, Snapshot

\* The journals stay; the ledger may grow.
LEMMA JournalsFrame ==
    ASSUME JournalsWell, UNCHANGED <<asked, journal>>,
           \A c \in Committed : receipts'[c] = receipts[c]
    PROVE  JournalsWell'
BY DEF JournalsWell, AskedOnes, Names, Committed

\* The mirrors stay; more may be journaled.
LEMMA MirrorsFrame ==
    ASSUME MirrorsWell, UNCHANGED <<asked, mirror>>, Journals \subseteq Journals'
    PROVE  MirrorsWell'
BY DEF MirrorsWell, AskedOnes, Names, Journals

\* The preparations stay; what they read and write is left alone.
LEMMA PrepsFrame ==
    ASSUME PrepsWell, UNCHANGED <<asked, prep>>, Journals \subseteq Journals',
           \A c \in Commands : prep[c].at \in Reads \cup Writes =>
                journal'[c] = journal[c] /\ (mirror[c] # NoMirror => mirror'[c] # NoMirror)
    PROVE  PrepsWell'
BY DEF PrepsWell, AskedOnes, Journals

\* The queue stays; more may be journaled.
LEMMA QueueFrame ==
    ASSUME QueueWell, queue' = queue, Journals \subseteq Journals'
    PROVE  QueueWell'
<1> DEFINE T == [cmd : Commands, recovery : BOOLEAN]
<1>1. \A i \in 1 .. Len(queue) : queue[i] \in T
  <2>1. queue \in Seq(T)
    BY DEF QueueWell
  <2> HIDE DEF T
  <2> QED BY <2>1
<1>2. \A i \in 1 .. Len(queue) : queue[i].cmd \in Journals
  BY <1>1 DEF QueueWell, Journals
<1> QED BY <1>2 DEF QueueWell, Journals

\* The checkpoint stays, and what is confirmed stays so at its revision.
LEMMA BackedFrame ==
    ASSUME CheckpointIsBacked, checkpoint' = checkpoint, canon.rev <= canon'.rev,
           canon.rev \in Nat, canon'.rev \in Nat, checkpoint \in Nat,
           \A c \in Commands : journal[c].state = "confirmed" =>
                journal'[c].state = "confirmed" /\ journal'[c].rev = journal[c].rev
    PROVE  CheckpointIsBacked'
BY DEF CheckpointIsBacked

\* The world went on, and nothing that is journaled or unsettled was disturbed.
Grown ==
    /\ AskedOnes \subseteq AskedOnes' /\ Committed \subseteq Committed'
    /\ Journals \subseteq Journals' /\ Unsettled \subseteq Unsettled'
    /\ \A c \in AskedOnes : asked'[c] = asked[c]
    /\ server.rev \in Nat /\ server'.rev \in Nat /\ server.rev <= server'.rev
    /\ canon.rev \in Nat /\ canon'.rev \in Nat /\ canon.rev <= canon'.rev

\* The work of a rejection is as good as it was.
LEMMA WorkGrows ==
    ASSUME AskedOnes \subseteq AskedOnes', Journals \subseteq Journals',
           \A c \in AskedOnes : asked'[c] = asked[c],
           NEW work, WorkWell(work)
    PROVE  /\ DOMAIN work \subseteq Journals'
           /\ \A d \in DOMAIN work :
                /\ work[d].record \in Journal(AskedOnes') /\ work[d].record.preds \subseteq 1 .. d - 1
                /\ work[d].record.state # "none" /\ d \in AskedOnes'
                /\ asked'[d].undoes = 0 => asked'[d].field \in DOMAIN work[d].record.change.before
                /\ work[d].inverse \in Changes(AskedOnes')
<1>1. Changes(AskedOnes) \subseteq Changes(AskedOnes')
  BY Grows
<1>2. Journal(AskedOnes) \subseteq Journal(AskedOnes')
  BY <1>1 DEF Journal
<1> QED BY <1>1, <1>2 DEF WorkWell, RecordWell, Names

\* A rejection is as it was.
LEMMA RejectionGrows ==
    ASSUME AskedOnes \subseteq AskedOnes', Journals \subseteq Journals',
           \A c \in AskedOnes : asked'[c] = asked[c],
           NEW p \in Procs, Rejection(proc[p]), proc'[p] = proc[p]
    PROVE  Rejection(proc[p])'
<1>1. WorkWell(proc[p].work) => WorkWell(proc[p].work)'
  BY WorkGrows DEF WorkWell, RecordWell, Names
<1> QED BY <1>1 DEF Rejection

\* Rows of fewer commands are rows of more.
LEMMA SnapshotGrows ==
    ASSUME NEW A, NEW B, A \subseteq B
    PROVE  RowsOf(A) \subseteq RowsOf(B) /\ Snapshot(A) \subseteq Snapshot(B)
<1>1. FullRows(A) \subseteq FullRows(B)
  BY Grows
<1>2. RowsOf(A) \subseteq RowsOf(B)
  BY <1>1 DEF RowsOf
<1> QED BY <1>2 DEF Snapshot

\* A send is as it was.
LEMMA SendsGrows ==
    ASSUME Grown, Sends(proc["flight"]), proc'["flight"] = proc["flight"],
           queue # <<>> => queue' # <<>>
    PROVE  Sends(proc["flight"])'
<1>1. Changes(AskedOnes) \subseteq Changes(AskedOnes')
  BY Grows DEF Grown
<1> QED BY <1>1 DEF Sends, Grown

\* A recovery of the projection is as it was.
LEMMA RecoversGrows ==
    ASSUME Grown, Recovers(proc["flight"]), proc'["flight"] = proc["flight"]
    PROVE  Recovers(proc["flight"])'
<1>1. Snapshot(AskedOnes) \subseteq Snapshot(AskedOnes')
  BY SnapshotGrows DEF Grown
<1>2. proc["flight"].work.remote \in Snapshot(AskedOnes) => proc["flight"].work.remote.rev \in Nat
  BY DEF Snapshot
<1> QED BY <1>1, <1>2 DEF Recovers, Grown

\* The processes keep their shape.
LEMMA ProcWellFrame ==
    ASSUME ProcWell, proc' = proc
    PROVE  ProcWell'
BY DEF ProcWell

\* No step of a send or a recovery.
LEMMA ProcsGrow ==
    ASSUME Grown, ProcsWell, proc' = proc, queue # <<>> => queue' # <<>>,
           proc["replay"].at = "restore" =>
                LET c == proc["replay"].cmd
                IN  journal'[c] = journal[c] /\ (mirror[c] # NoMirror => mirror'[c] # NoMirror)
                    /\ prep'[c].at = prep[c].at
    PROVE  ProcsWell'
<1>1. Rejection(proc["flight"])' /\ Rejection(proc["replay"])'
  BY RejectionGrows DEF ProcsWell, Procs, Grown
<1>2. Sends(proc["flight"])' /\ Recovers(proc["flight"])'
  BY SendsGrows, RecoversGrows DEF ProcsWell
<1>3. Replays(proc["replay"])'
  BY DEF ProcsWell, Replays, RejectStages
<1> QED BY <1>1, <1>2, <1>3, ProcWellFrame DEF ProcsWell

\* Revisions are numbers; the server and the installed snapshot are records.
LEMMA RevsTyped ==
    ASSUME ServerWell, CacheWell
    PROVE  /\ server.rev \in Nat /\ server.rows \in RowsOf(Committed)
           /\ server = [rev |-> server.rev, rows |-> server.rows]
           /\ canon.rev \in Nat /\ canon.rows \in RowsOf(AskedOnes)
           /\ canon = [rev |-> canon.rev, rows |-> canon.rows]
BY DEF ServerWell, CacheWell, Snapshot

\* The checkpoint and the snapshot stay, and so does what is confirmed.
LEMMA Calm ==
    ASSUME IInv, UNCHANGED <<canon, checkpoint>>,
           \A c \in Commands : journal[c].state = "confirmed" => journal'[c] = journal[c]
    PROVE  Steady /\ Backs
<1>1. canon.rev \in Nat /\ checkpoint \in Nat
  BY RevsTyped DEF IInv, CacheWell
<1> QED BY <1>1, BackedFrame DEF Steady, Backs

\* The invariant holds at first.
LEMMA InitHolds ==
    ASSUME Init PROVE IInv
<1> USE InteractionsAssumption DEF Init
<1>1. AskedOnes = {} /\ Committed = {}
  BY DEF AskedOnes, Committed, NoReceipt
<1>2. {} \in SUBSET Commands
  OBVIOUS
<1>3. [f \in Fields |-> 0] \in FullRows({})
  <2>1. 0 \in Values
    OBVIOUS
  <2> QED BY <2>1 DEF FullRows, Held
<1>4. server \in Snapshot({}) /\ server.rows \in RowsOf({})
  BY <1>3 DEF Snapshot, RowsOf
<1>5. NoChange \in Changes({})
  BY <1>2, Nothing
<1>6. AskedWell
  <2>1. (CHOOSE k \in Keys : TRUE) \in Keys
    OBVIOUS
  <2>2. NotAsked \in Asks
    BY <2>1 DEF NotAsked, Asks
  <2> QED BY <1>1, <2>2 DEF AskedWell
<1>7. ServerWell
  <2>1. NoReceipt \in Receipt({})
    BY <1>5 DEF NoReceipt, Receipt
  <2> QED BY <1>1, <1>4, <2>1, FS_EmptySet DEF ServerWell, NoReceipt
<1>8. CacheWell
  BY <1>1, <1>4 DEF CacheWell, Snapshot
<1>9. JournalsWell
  <2>1. NoJournal \in Journal({})
    BY <1>5 DEF NoJournal, Journal, JournalStates
  <2> QED BY <1>1, <2>1 DEF JournalsWell, NoJournal
<1>10. MirrorsWell
  <2>1. NoMirror \in Mirror({})
    BY <1>5 DEF NoMirror, Mirror, MirrorStatuses
  <2> QED BY <1>1, <2>1 DEF MirrorsWell, NoMirror
<1>11. PrepsWell
  <2>1. Ready \in Prep({}) /\ Ready.at = "none"
    BY DEF Ready, Prep, PrepStages
  <2> QED BY <1>1, <2>1 DEF PrepsWell, Reads, Writes
<1>12. QueueWell
  BY DEF QueueWell
<1>13. ProcsWell
  <2>1. proc["flight"] = Idle /\ proc["replay"] = Idle /\ proc = [p \in Procs |-> Idle]
    BY DEF Procs
  <2>2. Idle.at = "idle" /\ "idle" \notin RejectStages /\ "idle" \in FlightStages
    BY DEF Idle, RejectStages, FlightStages
  <2>3. ProcWell
    BY <2>1 DEF ProcWell, Idle, Procs
  <2> QED BY <2>1, <2>2, <2>3 DEF ProcsWell, Rejection, Sends, Recovers, Replays
<1> QED BY <1>6, <1>7, <1>8, <1>9, <1>10, <1>11, <1>12, <1>13 DEF IInv

-----------------------------------------------------------------------------
(* Clicks and their preparation *)

\* No revision changes, and no journal.
LEMMA Quiet ==
    ASSUME IInv, UNCHANGED <<asked, receipts, journal>>, server' = server, canon' = canon
    PROVE  Grown
<1>1. server.rev \in Nat /\ canon.rev \in Nat
  BY RevsTyped DEF IInv
<1> QED BY <1>1 DEF Grown, AskedOnes, Committed, Journals, Unsettled

\* What a click asks for, and that it is the latest one.
NewAsk(c) ==
    /\ c \in Commands /\ c \notin AskedOnes /\ AskedOnes \subseteq 1 .. c - 1
    /\ AskedOnes' = AskedOnes \cup {c}
    /\ \A d \in Commands : d # c => asked'[d] = asked[d]
    /\ \A d \in AskedOnes : asked'[d] = asked[d] /\ d # c

\* A click asks for the next command.
LEMMA BeginAsks ==
    ASSUME IInv, NEW c \in Commands, Begin(c)
    PROVE  NewAsk(c) /\ AskedWell'
<1> USE InteractionsAssumption
<1>1. PICK k \in Clicks : /\ BeginCommand(c, k) \/ BeginUndo(c, k)
                          /\ asked' = [asked EXCEPT ![c] =
                                IF k.undoes = 0 THEN k ELSE [k EXCEPT !.row = RowOf(k.undoes)]]
  BY DEF Begin
<1>2. /\ asked \in [Commands -> Asks]
      /\ \A d \in AskedOnes : 1 .. d - 1 \subseteq AskedOnes /\ asked[d].field # "updatedAt"
      /\ \A d \in AskedOnes : asked[d].undoes # 0 =>
            asked[d].undoes \in AskedOnes /\ asked[d].undoes < d /\ asked[asked[d].undoes].undoes = 0
  BY DEF IInv, AskedWell
<1>3. c \notin AskedOnes /\ 1 .. c - 1 \subseteq AskedOnes
  <2>1. 1 .. c - 1 \subseteq Commands
    BY BelowCommands
  <2> QED BY <2>1 DEF Begin, AskedOnes
<1>4. AskedOnes \subseteq 1 .. c - 1
  <2> SUFFICES ASSUME NEW d \in AskedOnes PROVE d \in 1 .. c - 1
    OBVIOUS
  <2>1. d \in Commands /\ d # c
    BY <1>3 DEF AskedOnes
  <2>2. ~(c < d)
    BY <1>2, <1>3, <2>1 DEF Commands
  <2> QED BY <2>1, <2>2 DEF Commands
<1>5. k \in [undoes : 0 .. MaxCommands, row : Keys, field : Fields \ {"updatedAt"}, valid : BOOLEAN]
  BY <1>1
<1>6. k.undoes # 0 => k.undoes \in AskedOnes /\ k.undoes < c /\ asked[k.undoes].undoes = 0
                      /\ RowOf(k.undoes) \in Keys
  <2>1. k.undoes # 0 => k.undoes \in 1 .. c - 1 /\ asked[k.undoes] # NotAsked /\ ~IsUndo(k.undoes)
    BY <1>1 DEF BeginCommand, BeginUndo
  <2>2. k.undoes # 0 => k.undoes \in Commands
    BY <2>1, BelowCommands
  <2> QED BY <1>2, <2>1, <2>2 DEF AskedOnes, IsUndo, RowOf, Asks, Commands
<1>7. asked'[c] \in Asks /\ asked'[c].undoes = k.undoes /\ asked'[c].field # "updatedAt"
  <2>1. CASE k.undoes = 0
    <3>1. asked'[c] = k
      BY <1>1, <1>2, <2>1
    <3> QED BY <1>5, <3>1 DEF Asks
  <2>2. CASE k.undoes # 0
    <3>1. asked'[c] = [k EXCEPT !.row = RowOf(k.undoes)]
      BY <1>1, <1>2, <2>2
    <3> QED BY <1>5, <1>6, <2>2, <3>1 DEF Asks
  <2> QED BY <2>1, <2>2
<1>8. asked' \in [Commands -> Asks] /\ \A d \in Commands : d # c => asked'[d] = asked[d]
  BY <1>1, <1>2, <1>7
<1>9. asked'[c] # NotAsked
  BY <1>7 DEF NotAsked
<1>10. AskedOnes' = AskedOnes \cup {c}
  BY <1>8, <1>9 DEF AskedOnes
<1>11. \A d \in AskedOnes : asked'[d] = asked[d] /\ d # c /\ d \in Commands
  BY <1>3, <1>8 DEF AskedOnes
<1>12. \A d \in AskedOnes' : asked'[d].undoes # 0 =>
            asked'[d].undoes \in AskedOnes' /\ asked'[d].undoes < d /\ asked'[asked'[d].undoes].undoes = 0
  BY <1>2, <1>6, <1>7, <1>10, <1>11
<1>13. AskedWell'
  BY <1>2, <1>3, <1>7, <1>8, <1>10, <1>11, <1>12 DEF AskedWell
<1> QED BY <1>3, <1>4, <1>8, <1>10, <1>11, <1>13 DEF NewAsk

\* The row that a click leaves behind differs from the one it found.
LEMMA ClickTyped ==
    ASSUME IInv, NEW c \in Commands, c \notin AskedOnes, NEW k \in Clicks
    PROVE  /\ view[k.row] \in FullRows(AskedOnes) /\ view[k.row] # NoRow
           /\ LET next == [view[k.row] EXCEPT ![k.field] = c, !["updatedAt"] = LocalStamp(c)]
              IN  /\ Compact(view[k.row], next) \in Changes(AskedOnes \cup {c})
                  /\ k.field \in DOMAIN Compact(view[k.row], next).before
<1> USE InteractionsAssumption
<1> DEFINE A == AskedOnes
           B == A \cup {c}
           row == view[k.row]
           next == [row EXCEPT ![k.field] = c, !["updatedAt"] = LocalStamp(c)]
<1>1. k.row \in Keys /\ k.field \in Fields \ {"updatedAt"}
  OBVIOUS
<1>2. A \in SUBSET Commands /\ B \in SUBSET Commands
  BY DEF AskedOnes
<1>3. row \in FullRows(A) /\ row \in FullRows(B)
  <2>1. row \in FullRows(A)
    BY <1>1 DEF IInv, CacheWell, RowsOf
  <2> QED BY <2>1, Grows
<1>4. LocalStamp(c) \in Values
  <2>1. LocalStamp(c) \in 0 .. 2 * MaxCommands + 1 + MaxForeign
    BY DEF LocalStamp, Commands
  <2> QED BY <2>1
<1>5. c \in Held(B, k.field)
  BY <1>1 DEF Held
<1>6. row[k.field] # c
  <2>1. row[k.field] \in {0, ForeignValue} \cup A
    BY <1>1, <1>3 DEF FullRows, Held
  <2> QED BY <2>1 DEF ForeignValue, Commands
<1>7. row \in [Fields -> Values]
  BY <1>3 DEF FullRows
<1> HIDE DEF A, B, row
<1>8. next \in FullRows(B)
  BY <1>1, <1>2, <1>3, <1>4, <1>5, Stamped
<1>9. next[k.field] = c
  BY <1>1, <1>7
<1> HIDE DEF next
<1>10. Compact(row, next) \in Changes(B) /\ k.field \in DOMAIN Compact(row, next).before
  BY <1>1, <1>2, <1>3, <1>6, <1>8, <1>9, CompactTyped
<1>11. row # NoRow
  BY <1>2, <1>3, FullElim, PartElim DEF PartOver
<1> QED BY <1>3, <1>10, <1>11 DEF A, B, row, next

\* What the click writes into its mirror and its preparation.
BegunWell(c) ==
    /\ mirror' = [mirror EXCEPT ![c] = mirror'[c]] /\ mirror'[c] # NoMirror
    /\ mirror'[c].status = "pending" /\ mirror'[c] \in Mirror(AskedOnes')
    /\ mirror'[c].preds \subseteq 1 .. c - 1
    /\ asked'[c].undoes = 0 => asked'[c].field \in DOMAIN mirror'[c].change.before
    /\ prep' = [prep EXCEPT ![c] = prep'[c]] /\ prep'[c].at \in Reads
    /\ prep'[c] \in Prep(AskedOnes') /\ prep'[c].seen # NoRow
    /\ prep'[c].at = "target" => asked'[c].undoes # 0

\* What a click mirrors is well formed, of a set or of an undo.
LEMMA BeginWrites ==
    ASSUME IInv, NEW c \in Commands, Begin(c), NewAsk(c)
    PROVE  BegunWell(c)
<1> USE InteractionsAssumption
<1>1. PICK k \in Clicks : /\ BeginCommand(c, k) \/ BeginUndo(c, k)
                          /\ asked' = [asked EXCEPT ![c] =
                                IF k.undoes = 0 THEN k ELSE [k EXCEPT !.row = RowOf(k.undoes)]]
  BY DEF Begin
<1>2. mirror \in [Commands -> Mirror(AskedOnes)] /\ prep \in [Commands -> Prep(AskedOnes)]
      /\ checkpoint \in Nat /\ DOMAIN asked = Commands
  BY DEF IInv, MirrorsWell, PrepsWell, CacheWell, AskedWell
<1>3. AskedOnes' = AskedOnes \cup {c} /\ AskedOnes \subseteq Commands /\ 1 .. c - 1 \subseteq Commands
  BY BelowCommands DEF NewAsk, AskedOnes
<1>4. Mirrored \subseteq 1 .. c - 1
  <2>1. \A d \in Mirrored : d \in AskedOnes
    BY DEF Mirrored, NoMirror, IInv, MirrorsWell
  <2> QED BY <2>1 DEF NewAsk
<1>5. FullRows(AskedOnes) \subseteq FullRows(AskedOnes')
  BY <1>3, Grows
<1>6. CASE BeginCommand(c, k)
  <2> DEFINE row == view[k.row]
             next == [row EXCEPT ![k.field] = c, !["updatedAt"] = LocalStamp(c)]
             preds == {d \in Mirrored : mirror[d].status # "conflict" /\ mirror[d].change # NoChange
                                        /\ RowOf(d) = k.row}
             m == [status |-> "pending", change |-> Compact(row, next), base |-> checkpoint,
                   preds |-> preds, root |-> 0]
  <2>1. /\ mirror' = [mirror EXCEPT ![c] = m] /\ k.undoes = 0
        /\ prep' = [prep EXCEPT ![c] = [at |-> "reading", seen |-> row]]
    BY <1>6 DEF BeginCommand
  <2>2. row \in FullRows(AskedOnes) /\ row # NoRow /\ Compact(row, next) \in Changes(AskedOnes')
        /\ k.field \in DOMAIN Compact(row, next).before
    BY <1>3, ClickTyped DEF NewAsk
  <2>3. preds \subseteq 1 .. c - 1
    BY <1>4
  <2>4. asked'[c] = k
    BY <1>1, <1>2, <2>1
  <2> HIDE DEF row, next, preds
  <2>5. m \in Mirror(AskedOnes') /\ m # NoMirror /\ mirror'[c] = m
    BY <1>2, <1>3, <2>1, <2>2, <2>3 DEF Mirror, MirrorStatuses, NoMirror
  <2>6. prep'[c] = [at |-> "reading", seen |-> row] /\ prep'[c] \in Prep(AskedOnes')
    BY <1>2, <1>5, <2>1, <2>2 DEF Prep, PrepStages
  <2>7. mirror' = [mirror EXCEPT ![c] = mirror'[c]] /\ prep' = [prep EXCEPT ![c] = prep'[c]]
    BY <2>1, <2>5, <2>6
  <2>8. /\ mirror'[c].status = "pending" /\ mirror'[c].preds = preds
        /\ mirror'[c].change = Compact(row, next)
    BY <2>5
  <2>9. prep'[c].at \in Reads /\ prep'[c].seen # NoRow /\ prep'[c].at # "target"
    BY <2>2, <2>6 DEF Reads
  <2> QED BY <2>2, <2>3, <2>4, <2>5, <2>6, <2>7, <2>8, <2>9 DEF BegunWell
<1>7. CASE BeginUndo(c, k)
  <2> DEFINE m == [status |-> "pending", change |-> NoChange, base |-> checkpoint,
                   preds |-> {k.undoes}, root |-> 0]
             row == view[RowOf(k.undoes)]
  <2>1. /\ k.undoes \in 1 .. c - 1 /\ asked[k.undoes] # NotAsked
        /\ mirror' = [mirror EXCEPT ![c] = m]
        /\ prep' = [prep EXCEPT ![c] = [at |-> "target", seen |-> row]]
    BY <1>7 DEF BeginUndo
  <2>2. NoChange \in Changes(AskedOnes')
    BY <1>3, Nothing
  <2>3. m.status = "pending" /\ m.preds = {k.undoes}
    OBVIOUS
  <2>4. row \in FullRows(AskedOnes) /\ row # NoRow
    <3>1. RowOf(k.undoes) \in Keys
      BY <1>3, <2>1 DEF IInv, AskedWell, Asks, RowOf
    <3>2. row \in FullRows(AskedOnes)
      BY <3>1 DEF IInv, CacheWell, RowsOf
    <3> QED BY <1>3, <3>2, FullElim, PartElim DEF PartOver
  <2> HIDE DEF row
  <2>5. m \in Mirror(AskedOnes') /\ m # NoMirror /\ mirror'[c] = m
    BY <1>2, <1>3, <2>1, <2>2, <2>3 DEF Mirror, MirrorStatuses, NoMirror
  <2>6. prep'[c] = [at |-> "target", seen |-> row] /\ prep'[c] \in Prep(AskedOnes')
    BY <1>2, <1>5, <2>1, <2>4 DEF Prep, PrepStages
  <2>7. asked'[c].undoes # 0
    <3>1. asked'[c] = [k EXCEPT !.row = RowOf(k.undoes)]
      BY <1>1, <1>2, <2>1
    <3> QED BY <2>1, <3>1
  <2>8. mirror' = [mirror EXCEPT ![c] = mirror'[c]] /\ prep' = [prep EXCEPT ![c] = prep'[c]]
    BY <2>1, <2>5, <2>6
  <2>9. mirror'[c].status = "pending" /\ mirror'[c].preds = {k.undoes}
    BY <2>3, <2>5
  <2>10. prep'[c].at \in Reads /\ prep'[c].seen # NoRow
    BY <2>4, <2>6 DEF Reads
  <2> QED BY <2>1, <2>5, <2>6, <2>7, <2>8, <2>9, <2>10 DEF BegunWell
<1> QED BY <1>1, <1>6, <1>7

\* beginInstantCommand and beginInstantUndo keep the invariant.
LEMMA BeginKeeps ==
    ASSUME IInv, NEW c \in Commands, Begin(c)
    PROVE  IInv'
<1> USE InteractionsAssumption
<1>1. NewAsk(c) /\ AskedWell'
  BY BeginAsks
<1>2. BegunWell(c)
  BY <1>1, BeginWrites
<1>3. /\ UNCHANGED <<server, receipts, foreign, late, cache, canon, checkpoint, journal, view,
                     queue, proc, faults>>
      /\ UNCHANGED backend
  BY DEF Begin, backend
<1>4. AskedOnes \subseteq AskedOnes' /\ AskedOnes' \subseteq Commands
  BY <1>1 DEF NewAsk, AskedOnes
<1>5. Changes(AskedOnes) \subseteq Changes(AskedOnes') /\ RowsOf(AskedOnes) \subseteq RowsOf(AskedOnes')
      /\ Snapshot(AskedOnes) \subseteq Snapshot(AskedOnes') /\ FullRows(AskedOnes) \subseteq FullRows(AskedOnes')
  BY <1>4, Grows, SnapshotGrows
<1>6. Grown
  <2>1. server.rev \in Nat /\ canon.rev \in Nat
    BY RevsTyped DEF IInv
  <2>2. \A d \in AskedOnes : asked'[d] = asked[d]
    BY <1>1 DEF NewAsk
  <2>3. Committed' = Committed /\ Journals' = Journals /\ Unsettled' = Unsettled
    BY <1>3 DEF Committed, Journals, Unsettled
  <2> QED BY <1>3, <1>4, <2>1, <2>2, <2>3 DEF Grown
<1>7. ServerWell'
  <2>1. Committed' = Committed /\ \A d \in Committed : d \in AskedOnes
    BY <1>3 DEF Committed, IInv, ServerWell
  <2> QED BY <1>1, <1>3, <1>4, <2>1 DEF IInv, ServerWell, NewAsk, Names
<1>8. CacheWell'
  BY <1>3, <1>5 DEF IInv, CacheWell
<1>9. JournalsWell'
  <2>1. Journal(AskedOnes) \subseteq Journal(AskedOnes')
    BY <1>5 DEF Journal
  <2>2. Committed' = Committed
    BY <1>3 DEF Committed
  <2> QED BY <1>1, <1>3, <1>4, <2>1, <2>2 DEF IInv, JournalsWell, NewAsk, Names
<1>10. MirrorsWell'
  <2>1. Mirror(AskedOnes) \subseteq Mirror(AskedOnes')
    BY <1>5 DEF Mirror
  <2>2. mirror \in [Commands -> Mirror(AskedOnes)]
    BY DEF IInv, MirrorsWell
  <2>3. mirror' \in [Commands -> Mirror(AskedOnes')] /\ \A d \in Commands : d # c => mirror'[d] = mirror[d]
    BY <1>2, <2>1, <2>2 DEF BegunWell
  <2>4. ASSUME NEW d \in Commands, d # c
        PROVE  /\ mirror'[d].preds \subseteq 1 .. d - 1
               /\ mirror'[d].status = "absent" => mirror'[d] = NoMirror
               /\ mirror'[d] # NoMirror => d \in AskedOnes' /\ Names(d, mirror[d].change)'
               /\ d \in AskedOnes' /\ mirror'[d] = NoMirror => journal'[d].state # "none"
    BY <1>1, <1>3, <2>3, <2>4 DEF IInv, MirrorsWell, NewAsk, Names
  <2>5. /\ mirror'[c].preds \subseteq 1 .. c - 1
        /\ mirror'[c].status = "absent" => mirror'[c] = NoMirror
        /\ mirror'[c] # NoMirror => c \in AskedOnes' /\ Names(c, mirror[c].change)'
        /\ c \in AskedOnes' /\ mirror'[c] = NoMirror => journal'[c].state # "none"
    BY <1>1, <1>2 DEF BegunWell, NewAsk, Names
  <2> QED BY <2>3, <2>4, <2>5 DEF MirrorsWell
<1>11. PrepsWell'
  <2>1. Prep(AskedOnes) \subseteq Prep(AskedOnes')
    BY <1>5 DEF Prep
  <2>2. prep \in [Commands -> Prep(AskedOnes)]
    BY DEF IInv, PrepsWell
  <2>3. prep' \in [Commands -> Prep(AskedOnes')] /\ \A d \in Commands : d # c => prep'[d] = prep[d]
    BY <1>2, <2>1, <2>2 DEF BegunWell
  <2>4. journal[c] = NoJournal
    BY <1>1 DEF IInv, JournalsWell, NewAsk
  <2>5. \A d \in Commands : mirror[d] # NoMirror => mirror'[d] # NoMirror
    BY <1>2, <2>2 DEF BegunWell, IInv, MirrorsWell
  <2>6. \A d \in Commands, e \in AskedOnes' : prep'[d].at \in Reads /\ d < e => prep'[e].at \in Reads
    <3> TAKE d \in Commands, e \in AskedOnes'
    <3>1. CASE e = c
      BY <1>2, <3>1 DEF BegunWell
    <3>2. CASE e # c
      <4>1. e \in AskedOnes /\ e \in 1 .. c - 1 /\ e \in Commands
        BY <1>1, <3>2 DEF NewAsk, AskedOnes
      <4>2. d < e => d # c /\ prep'[d] = prep[d] /\ prep'[e] = prep[e]
        BY <2>3, <4>1 DEF Commands
      <4> QED BY <4>1, <4>2 DEF IInv, PrepsWell
    <3> QED BY <3>1, <3>2
  <2>7. ASSUME NEW d \in Commands
        PROVE  /\ prep'[d].at \in Reads => prep'[d].seen # NoRow
               /\ prep'[d].at = "target" => asked'[d].undoes # 0
               /\ prep'[d].at \in Reads \cup Writes => journal'[d] = NoJournal /\ mirror'[d] # NoMirror
               /\ prep'[d].at \in {"archived", "prepared"} => journal'[d].state # "none"
    <3>1. CASE d = c
      BY <1>2, <1>3, <2>4, <3>1 DEF BegunWell, Reads
    <3>2. CASE d # c
      BY <1>1, <1>3, <2>3, <2>5, <3>2 DEF IInv, PrepsWell, NewAsk
    <3> QED BY <3>1, <3>2
  <2> QED BY <2>3, <2>6, <2>7 DEF PrepsWell
<1>12. QueueWell'
  BY <1>3, QueueFrame DEF IInv, Journals
<1>13. ProcsWell'
  <2>1. \A d \in Commands : mirror[d] # NoMirror =>
            /\ d # c /\ mirror'[d] # NoMirror /\ prep'[d] = prep[d]
    <3>1. \A d \in Commands : mirror[d] # NoMirror => d # c
      BY <1>1 DEF IInv, MirrorsWell, NewAsk
    <3> QED BY <1>2, <3>1 DEF BegunWell, IInv, MirrorsWell, PrepsWell
  <2>2. proc["replay"].at = "restore" =>
            proc["replay"].cmd \in Commands /\ mirror[proc["replay"].cmd] # NoMirror
    BY DEF IInv, ProcsWell, Replays
  <2> QED BY <1>3, <1>6, <2>1, <2>2, ProcsGrow DEF IInv
<1> QED BY <1>1, <1>3, <1>7, <1>8, <1>9, <1>10, <1>11, <1>12, <1>13 DEF IInv

\* What no step on the client disturbs.
Kept0 ==
    /\ AskedWell' /\ ServerWell' /\ AskedOnes' = AskedOnes /\ Committed' = Committed
    /\ faults' \in 0 .. MaxFaults

\* The client leaves the server alone.
LEMMA ClientSide ==
    ASSUME IInv, asked' = asked, UNCHANGED backend, faults' = faults \/ Fault
    PROVE  Kept0
<1>1. faults' \in 0 .. MaxFaults
  BY InteractionsAssumption DEF IInv, Fault
<1> QED BY <1>1, AskedFrame, ServerFrame DEF IInv, Kept0

\* A preparation gets past its reads, in the order of the clicks.
LEMMA PrepMoves ==
    ASSUME PrepsWell, asked' = asked, NEW c \in Commands, NEW at \in PrepStages \ Reads,
           prep' = [prep EXCEPT ![c].at = at],
           \A d \in Commands : d < c => prep[d].at \notin Reads,
           \A d \in Commands \ {c} : journal'[d] = journal[d] /\ (mirror[d] # NoMirror => mirror'[d] # NoMirror),
           at \in Writes => journal'[c] = NoJournal /\ mirror'[c] # NoMirror,
           at \in {"archived", "prepared"} => journal'[c].state # "none"
    PROVE  PrepsWell'
<1>1. prep \in [Commands -> Prep(AskedOnes)] /\ AskedOnes' = AskedOnes
  BY DEF PrepsWell, AskedOnes
<1>2. prep[c] = [at |-> prep[c].at, seen |-> prep[c].seen]
      /\ prep[c].seen \in FullRows(AskedOnes) \cup {NoRow}
  BY <1>1 DEF Prep
<1>3. prep'[c] = [at |-> at, seen |-> prep[c].seen] /\ \A d \in Commands \ {c} : prep'[d] = prep[d]
  BY <1>1, <1>2
<1>4. prep' \in [Commands -> Prep(AskedOnes')]
  BY <1>1, <1>2, <1>3 DEF Prep
<1>5. \A d \in Commands : prep'[d].at \in Reads => \A e \in AskedOnes' : d < e => prep'[e].at \in Reads
  <2> TAKE d \in Commands
  <2>1. prep'[d].at \in Reads => d # c /\ prep[d].at \in Reads /\ ~(d < c)
    BY <1>3
  <2>2. \A e \in AskedOnes : e \in Commands
    BY DEF AskedOnes
  <2> QED BY <1>1, <1>3, <2>1, <2>2 DEF PrepsWell
<1>6. ASSUME NEW d \in Commands
      PROVE  /\ prep'[d].at \in Reads => prep'[d].seen # NoRow
             /\ prep'[d].at = "target" => asked'[d].undoes # 0
             /\ prep'[d].at \in Reads \cup Writes => journal'[d] = NoJournal /\ mirror'[d] # NoMirror
             /\ prep'[d].at \in {"archived", "prepared"} => journal'[d].state # "none"
  <2>1. CASE d = c
    BY <1>3, <2>1 DEF Reads
  <2>2. CASE d # c
    BY <1>3, <2>2 DEF PrepsWell
  <2> QED BY <2>1, <2>2
<1> QED BY <1>4, <1>5, <1>6 DEF PrepsWell

\* Once a click is past its reads, so are the earlier ones.
LEMMA InOrder ==
    ASSUME PrepsWell, NEW c \in AskedOnes, prep[c].at \notin Reads
    PROVE  \A d \in Commands : d < c => prep[d].at \notin Reads
BY DEF PrepsWell

\* Nothing but a mirror or a preparation is written.
LEMMA AsideKeeps ==
    ASSUME IInv, UNCHANGED <<asked, cache, canon, checkpoint, journal, view>>, UNCHANGED backend,
           faults' = faults \/ Fault
    PROVE  /\ Kept0 /\ CacheWell' /\ JournalsWell' /\ Grown
           /\ Journals' = Journals
<1>1. Kept0
  BY ClientSide
<1>2. CacheWell'
  BY <1>1, CacheFrame, RevsTyped DEF IInv, backend, Kept0
<1>3. JournalsWell'
  BY JournalsFrame DEF IInv, backend
<1>4. Grown
  BY Quiet DEF backend
<1> QED BY <1>1, <1>2, <1>3, <1>4 DEF Journals

\* A mirror is rewritten.
MirrorWell(c) ==
    /\ mirror[c] \in Mirror(AskedOnes)
    /\ mirror[c].preds \subseteq 1 .. c - 1
    /\ mirror[c].status = "absent" => mirror[c] = NoMirror
    /\ mirror[c] # NoMirror => c \in AskedOnes /\ Names(c, mirror[c].change)
    /\ c \in AskedOnes /\ mirror[c] = NoMirror => journal[c].state # "none"

\* Each mirror is well formed ...
LEMMA MirrorIs ==
    ASSUME MirrorsWell, NEW c \in Commands
    PROVE  MirrorWell(c)
BY DEF MirrorsWell, MirrorWell

\* ... and stays so when it is left alone.
LEMMA MirrorFrame ==
    ASSUME NEW c \in Commands, MirrorWell(c), asked' = asked, mirror'[c] = mirror[c],
           Journals \subseteq Journals'
    PROVE  MirrorWell(c)'
BY DEF MirrorWell, AskedOnes, Names, Journals

\* One mirror is written, the others stay.
LEMMA OneMirror ==
    ASSUME MirrorsWell, asked' = asked, NEW c \in Commands,
           mirror' = [mirror EXCEPT ![c] = mirror'[c]],
           MirrorWell(c)', Journals \subseteq Journals'
    PROVE  MirrorsWell'
<1>1. mirror \in [Commands -> Mirror(AskedOnes)]
  BY DEF MirrorsWell
<1>2. mirror' = [d \in Commands |-> mirror'[d]] /\ \A d \in Commands \ {c} : mirror'[d] = mirror[d]
  BY <1>1
<1>3. \A d \in Commands \ {c} : MirrorWell(d)'
  BY <1>2, MirrorIs, MirrorFrame
<1>4. \A d \in Commands : MirrorWell(d)'
  BY <1>3
<1> QED BY <1>2, <1>4 DEF MirrorsWell, MirrorWell

\* readPendingCommandInteractions keeps the invariant: the predecessors are earlier clicks.
LEMMA ReadPendingKeeps ==
    ASSUME IInv, NEW c \in Commands, ReadPending(c)
    PROVE  IInv'
<1> DEFINE more == {d \in OpenJournals : journal[d].change # NoChange /\ RowOf(d) = RowOf(c)}
<1>1. /\ prep[c].at = "reading" /\ InTurn(c, Reads)
      /\ mirror' = [mirror EXCEPT ![c].preds = @ \cup more]
      /\ prep' = [prep EXCEPT ![c].at = "persisting"]
      /\ UNCHANGED <<asked, cache, canon, checkpoint, journal, view, queue, proc, faults>>
      /\ UNCHANGED backend
  BY DEF ReadPending, SetPrep
<1>2. journal[c] = NoJournal /\ mirror[c] # NoMirror /\ \A d \in AskedOnes : c < d => journal[d] = NoJournal
  BY <1>1 DEF IInv, PrepsWell, Reads, AskedOnes
<1>3. more \subseteq 1 .. c - 1
  <2> SUFFICES ASSUME NEW d \in OpenJournals PROVE d \in 1 .. c - 1
    OBVIOUS
  <2>1. d \in Commands /\ journal[d].state # "none"
    BY DEF OpenJournals, Open
  <2>2. d \in AskedOnes /\ journal[d] # NoJournal
    BY <2>1 DEF IInv, JournalsWell, NoJournal
  <2>3. d # c /\ ~(c < d)
    BY <1>2, <2>2
  <2> QED BY <2>1, <2>3, InteractionsAssumption DEF Commands
<1> HIDE DEF more
<1>4. Kept0 /\ CacheWell' /\ JournalsWell' /\ Grown
      /\ Journals' = Journals
  BY <1>1, AsideKeeps
<1>5. MirrorWell(c) /\ mirror \in [Commands -> Mirror(AskedOnes)]
  BY MirrorIs DEF IInv, MirrorsWell
<1>6. mirror'[c] = [mirror[c] EXCEPT !.preds = @ \cup more] /\ mirror' = [mirror EXCEPT ![c] = mirror'[c]]
  BY <1>1, <1>5
<1>7. mirror'[c] = [status |-> mirror[c].status, change |-> mirror[c].change, base |-> mirror[c].base,
                    preds |-> mirror[c].preds \cup more, root |-> mirror[c].root]
  BY <1>5, <1>6 DEF Mirror, MirrorWell
<1>8. MirrorsWell' /\ mirror'[c] # NoMirror
  <2>1. mirror[c].status # "absent"
    BY <1>2, <1>5 DEF MirrorWell
  <2>2. mirror'[c] # NoMirror
    BY <1>7, <2>1 DEF NoMirror
  <2>3. mirror'[c] \in Mirror(AskedOnes')
    <3>1. /\ mirror[c].status \in MirrorStatuses /\ mirror[c].change \in Changes(AskedOnes)
          /\ mirror[c].base \in Nat /\ mirror[c].root \in 0 .. MaxCommands
          /\ mirror[c].preds \in SUBSET Commands
      BY <1>5 DEF Mirror, MirrorWell
    <3>2. mirror[c].preds \cup more \in SUBSET Commands
      BY <1>3, <3>1, BelowCommands
    <3>3. mirror'[c] \in Mirror(AskedOnes)
      BY <1>7, <3>1, <3>2 DEF Mirror
    <3> QED BY <1>4, <3>3 DEF Kept0
  <2>4. MirrorWell(c)'
    BY <1>1, <1>2, <1>3, <1>4, <1>5, <1>7, <2>1, <2>2, <2>3 DEF MirrorWell, Kept0, Names
  <2> QED BY <1>1, <1>4, <1>6, <2>2, <2>4, OneMirror DEF IInv
<1>9. \A d \in Commands \ {c} : mirror'[d] = mirror[d]
  BY <1>5, <1>6
<1>10. PrepsWell'
  <2>1. \A d \in Commands : d < c => prep[d].at \notin Reads
    BY <1>1, InteractionsAssumption DEF InTurn, Commands
  <2>2. "persisting" \in PrepStages \ Reads
    BY DEF PrepStages, Reads
  <2> QED BY <1>1, <1>2, <1>8, <1>9, <2>1, <2>2, PrepMoves DEF IInv
<1>11. QueueWell'
  BY <1>1, <1>4, QueueFrame DEF IInv
<1>12. ProcsWell'
  <2>1. prep \in [Commands -> Prep(AskedOnes)]
    BY DEF IInv, PrepsWell
  <2>2. proc["replay"].at = "restore" =>
            /\ proc["replay"].cmd \in Commands \ {c} /\ prep'[proc["replay"].cmd] = prep[proc["replay"].cmd]
    BY <1>1, <2>1 DEF IInv, ProcsWell, Replays
  <2> QED BY <1>1, <1>4, <1>9, <2>2, ProcsGrow DEF IInv
<1> QED BY <1>4, <1>8, <1>10, <1>11, <1>12 DEF IInv, Kept0

\* The fields of a mirror.
LEMMA MirrorShape ==
    ASSUME NEW c \in Commands, MirrorWell(c)
    PROVE  /\ mirror[c] = [status |-> mirror[c].status, change |-> mirror[c].change,
                           base |-> mirror[c].base, preds |-> mirror[c].preds, root |-> mirror[c].root]
           /\ mirror[c].status \in MirrorStatuses /\ mirror[c].change \in Changes(AskedOnes)
           /\ mirror[c].base \in Nat /\ mirror[c].root \in 0 .. MaxCommands
           /\ mirror[c].preds \in SUBSET Commands
BY DEF MirrorWell, Mirror

\* Status and root of a mirror are rewritten, and nothing else of it.
Restated(c) ==
    \E s \in MirrorStatuses \ {"absent"}, r \in 0 .. MaxCommands :
        mirror'[c] = [mirror[c] EXCEPT !.status = s, !.root = r]

\* A mirror with another status is well formed.
LEMMA RestatedWell ==
    ASSUME NEW c \in Commands, MirrorWell(c), mirror[c] # NoMirror, Restated(c), asked' = asked
    PROVE  MirrorWell(c)' /\ mirror'[c] # NoMirror
<1>1. PICK s \in MirrorStatuses \ {"absent"}, r \in 0 .. MaxCommands :
            mirror'[c] = [mirror[c] EXCEPT !.status = s, !.root = r]
  BY DEF Restated
<1>2. mirror'[c] = [status |-> s, change |-> mirror[c].change, base |-> mirror[c].base,
                    preds |-> mirror[c].preds, root |-> r]
  BY <1>1, MirrorShape
<1>3. mirror'[c] \in Mirror(AskedOnes')
  <2>1. AskedOnes' = AskedOnes
    BY DEF AskedOnes
  <2>2. mirror[c].change \in Changes(AskedOnes) /\ mirror[c].base \in Nat
        /\ mirror[c].preds \in SUBSET Commands
    BY MirrorShape
  <2>3. mirror'[c] \in Mirror(AskedOnes)
    BY <1>2, <2>2 DEF Mirror
  <2> QED BY <2>1, <2>3
<1>4. mirror'[c] # NoMirror /\ mirror'[c].status # "absent" /\ mirror'[c].preds = mirror[c].preds
      /\ mirror'[c].change = mirror[c].change
  BY <1>2 DEF NoMirror
<1> QED BY <1>3, <1>4 DEF MirrorWell, AskedOnes, Names

\* A click undoes what it finds in its target.
LEMMA CompensationTyped ==
    ASSUME IInv, NEW c \in AskedOnes, asked[c].undoes # 0,
           NEW row \in FullRows(AskedOnes), Undoable(asked[c].undoes, row)
    PROVE  Compensation(c, row) \in Changes(AskedOnes)
<1> USE InteractionsAssumption
<1> DEFINE t == asked[c].undoes
           f == asked[t].field
           v == journal[t].change.before[f]
           back == [row EXCEPT ![f] = v, !["updatedAt"] = LocalStamp(c)]
<1>1. t \in AskedOnes /\ t \in Commands /\ asked[t].undoes = 0 /\ asked[t].field # "updatedAt"
  BY DEF IInv, AskedWell, AskedOnes
<1>2. f \in Fields \ {"updatedAt"}
  BY <1>1 DEF IInv, AskedWell, Asks
<1>3. journal[t].change \in Changes(AskedOnes) /\ f \in DOMAIN journal[t].change.before
  <2>1. journal[t].state \in {"active", "confirmed"}
    BY DEF Undoable
  <2>2. journal[t].state # "none"
    BY <2>1
  <2> QED BY <1>1, <2>2 DEF IInv, JournalsWell, Journal, Names
<1>4. v \in Held(AskedOnes, f)
  BY <1>3, ChangeElim, PartElim
<1>5. LocalStamp(c) \in Values
  <2>1. LocalStamp(c) \in 0 .. 2 * MaxCommands + 1 + MaxForeign
    BY DEF LocalStamp, Commands, AskedOnes
  <2> QED BY <2>1
<1>6. AskedOnes \in SUBSET Commands
  BY DEF AskedOnes
<1>7. Compensation(c, row) = Compact(row, back)
  BY DEF Compensation
<1> HIDE DEF t, f, v
<1>8. back \in FullRows(AskedOnes)
  BY <1>2, <1>4, <1>5, <1>6, Stamped
<1> HIDE DEF back
<1> QED BY <1>6, <1>7, <1>8, CompactTyped

\* The reading of an undo's target keeps the invariant.
LEMMA ReadTargetKeeps ==
    ASSUME IInv, NEW c \in Commands, ReadTarget(c)
    PROVE  IInv'
<1>1. /\ prep[c].at = "target" /\ InTurn(c, Reads)
      /\ UNCHANGED <<asked, cache, canon, checkpoint, journal, view, queue, proc, faults>>
      /\ UNCHANGED backend
  BY DEF ReadTarget
<1>2. /\ journal[c] = NoJournal /\ mirror[c] # NoMirror
      /\ asked[c].undoes # 0 /\ prep[c].seen # NoRow /\ prep[c] \in Prep(AskedOnes)
  BY <1>1 DEF IInv, PrepsWell, Reads
<1>3. c \in AskedOnes /\ MirrorWell(c) /\ mirror \in [Commands -> Mirror(AskedOnes)]
  BY <1>2, MirrorIs DEF IInv, MirrorsWell
<1>4. Kept0 /\ CacheWell' /\ JournalsWell' /\ Grown
      /\ Journals' = Journals
  BY <1>1, AsideKeeps
<1>5. MirrorsWell' /\ mirror'[c] # NoMirror /\ \A d \in Commands \ {c} : mirror'[d] = mirror[d]
  <2>1. CASE Undoable(asked[c].undoes, prep[c].seen)
    <3>1. mirror' = [mirror EXCEPT ![c].change = Compensation(c, prep[c].seen)]
      BY <2>1 DEF ReadTarget
    <3>2. Compensation(c, prep[c].seen) \in Changes(AskedOnes)
      <4>1. prep[c].seen \in FullRows(AskedOnes)
        BY <1>2 DEF Prep
      <4> QED BY <1>2, <1>3, <2>1, <4>1, CompensationTyped
    <3>3. PICK x : x = Compensation(c, prep[c].seen)
      OBVIOUS
    <3>4. mirror'[c] = [status |-> mirror[c].status, change |-> x, base |-> mirror[c].base,
                        preds |-> mirror[c].preds, root |-> mirror[c].root]
      BY <1>3, <3>1, <3>3, MirrorShape
    <3>5. mirror'[c] \in Mirror(AskedOnes)
      BY <1>3, <3>2, <3>3, <3>4, MirrorShape DEF Mirror
    <3>6. mirror[c].status # "absent" /\ mirror[c].preds \subseteq 1 .. c - 1
      BY <1>2, <1>3 DEF MirrorWell
    <3>7. mirror'[c] # NoMirror /\ mirror'[c].preds = mirror[c].preds /\ mirror'[c].status # "absent"
      BY <3>4, <3>6 DEF NoMirror
    <3>8. MirrorWell(c)'
      BY <1>1, <1>2, <1>3, <1>4, <3>5, <3>6, <3>7 DEF MirrorWell, Kept0, Names
    <3>9. mirror' = [mirror EXCEPT ![c] = mirror'[c]]
      BY <1>3, <3>1
    <3> QED BY <1>1, <1>3, <1>4, <3>7, <3>8, <3>9, OneMirror DEF IInv
  <2>2. CASE ~Undoable(asked[c].undoes, prep[c].seen)
    <3>1. mirror' = mirror
      BY <2>2 DEF ReadTarget
    <3> QED BY <1>1, <1>2, <1>4, <3>1, MirrorsFrame DEF IInv
  <2> QED BY <2>1, <2>2
<1>6. PrepsWell' /\ \A d \in Commands \ {c} : prep'[d] = prep[d]
  <2>1. \A d \in Commands : d < c => prep[d].at \notin Reads
    BY <1>1, InteractionsAssumption DEF InTurn, Commands
  <2>2. PICK at \in {"persisting", "archiving"} : prep' = [prep EXCEPT ![c].at = at]
    BY DEF ReadTarget, SetPrep
  <2>3. at \in PrepStages \ Reads /\ at \notin {"archived", "prepared"}
    BY DEF PrepStages, Reads
  <2>4. PrepsWell'
    BY <1>1, <1>2, <1>5, <2>1, <2>2, <2>3, PrepMoves DEF IInv
  <2>5. prep \in [Commands -> Prep(AskedOnes)]
    BY DEF IInv, PrepsWell
  <2> QED BY <2>2, <2>4, <2>5
<1>7. QueueWell'
  BY <1>1, <1>4, QueueFrame DEF IInv
<1>8. ProcsWell'
  <2>1. proc["replay"].at = "restore" => proc["replay"].cmd \in Commands \ {c}
    BY <1>1 DEF IInv, ProcsWell, Replays
  <2> QED BY <1>1, <1>4, <1>5, <1>6, <2>1, ProcsGrow DEF IInv
<1> QED BY <1>4, <1>5, <1>6, <1>7, <1>8 DEF IInv, Kept0

\* What is journaled for a mirror is well formed.
LEMMA JournalOfTyped ==
    ASSUME IInv, NEW c \in AskedOnes, mirror[c] # NoMirror, NEW x \in Changes(AskedOnes)
    PROVE  /\ JournalOf(c, x) \in Journal(AskedOnes) /\ JournalOf(c, x).state = "active"
           /\ JournalOf(c, x).preds \subseteq 1 .. c - 1 /\ JournalOf(c, x).change = x
<1>1. c \in Commands /\ MirrorWell(c)
  BY MirrorIs DEF IInv, AskedOnes
<1>2. mirror[c].base \in Int /\ mirror[c].preds \in SUBSET Commands
      /\ mirror[c].preds \subseteq 1 .. c - 1
  <2>1. mirror[c].base \in Nat /\ mirror[c].preds \in SUBSET Commands
    BY <1>1, MirrorShape
  <2> QED BY <1>1, <2>1 DEF MirrorWell
<1>3. JournalOf(c, x) = [state |-> "active", change |-> x, base |-> mirror[c].base,
                         preds |-> mirror[c].preds, rev |-> 0]
  BY DEF JournalOf
<1>4. "active" \in JournalStates
  BY DEF JournalStates, Open
<1>5. JournalOf(c, x) \in Journal(AskedOnes)
  BY <1>2, <1>3, <1>4 DEF Journal
<1> QED BY <1>2, <1>3, <1>5

\* One journal is written anew, where there was none.
JournalAdded(c, j) ==
    /\ JournalsWell' /\ Journals \subseteq Journals'
    /\ Unsettled \subseteq Unsettled' /\ journal'[c] = j
    /\ \A d \in Commands \ {c} : journal'[d] = journal[d]
    /\ \A d \in Commands : journal[d].state = "confirmed" => journal'[d] = journal[d]

\* A journal where there was none.
LEMMA NewJournal ==
    ASSUME IInv, NEW c \in AskedOnes, journal[c] = NoJournal, NEW j \in Journal(AskedOnes),
           journal' = [journal EXCEPT ![c] = j], asked' = asked, UNCHANGED backend,
           j.state \notin {"none", "confirmed"}, j.preds \subseteq 1 .. c - 1, Names(c, j.change)
    PROVE  JournalAdded(c, j)
<1>1. c \in Commands /\ journal \in [Commands -> Journal(AskedOnes)]
  BY DEF AskedOnes, IInv, JournalsWell
<1>2. journal'[c] = j /\ \A d \in Commands \ {c} : journal'[d] = journal[d]
  BY <1>1
<1>3. AskedOnes' = AskedOnes /\ Committed' = Committed /\ receipts' = receipts
  BY DEF AskedOnes, Committed, backend
<1>4. journal' \in [Commands -> Journal(AskedOnes')]
  BY <1>1, <1>3
<1>5. ASSUME NEW d \in Commands
      PROVE  /\ journal'[d].preds \subseteq 1 .. d - 1
             /\ journal'[d].state = "none" => journal'[d] = NoJournal
             /\ journal'[d].state = "confirmed" => journal'[d].rev = receipts'[d].rev /\ d \in Committed'
             /\ journal'[d].state # "none" => d \in AskedOnes' /\ Names(d, journal[d].change)'
  <2>1. CASE d = c
    BY <1>2, <1>3, <2>1 DEF Names
  <2>2. CASE d # c
    BY <1>2, <1>3, <2>2 DEF IInv, JournalsWell, Names
  <2> QED BY <2>1, <2>2
<1>6. JournalsWell'
  BY <1>4, <1>5 DEF JournalsWell
<1>7. \A d \in Commands : journal[d].state # "none" => d # c
  BY DEF NoJournal
<1>8. Journals \subseteq Journals' /\ Unsettled \subseteq Unsettled'
  BY <1>2, <1>7 DEF Journals, Unsettled
<1> QED BY <1>2, <1>6, <1>7, <1>8 DEF JournalAdded

\* persistInteractionProjection keeps the invariant.
LEMMA PersistKeeps ==
    ASSUME IInv, NEW c \in Commands, Persist(c)
    PROVE  IInv'
<1> DEFINE row == cache[RowOf(c)]
           change == mirror[c].change
<1>1. /\ prep[c].at = "persisting" /\ InTurn(c, Reads \cup Writes)
      /\ UNCHANGED <<asked, canon, checkpoint, mirror, queue, proc>> /\ UNCHANGED backend
      /\ faults' = faults \/ Fault
  BY DEF Persist
<1>2. journal[c] = NoJournal /\ mirror[c] # NoMirror
  BY <1>1 DEF IInv, PrepsWell, Writes
<1>3. c \in AskedOnes /\ MirrorWell(c) /\ change \in Changes(AskedOnes) /\ Names(c, change)
  <2>1. c \in AskedOnes /\ MirrorWell(c)
    BY <1>2, MirrorIs DEF IInv, MirrorsWell
  <2> QED BY <1>2, <2>1, MirrorShape DEF MirrorWell
<1>4. Kept0
  BY <1>1, ClientSide
<1>5. prep \in [Commands -> Prep(AskedOnes)] /\ \A d \in Commands : d < c => prep[d].at \notin Reads
  BY <1>1, InteractionsAssumption DEF InTurn, Commands, IInv, PrepsWell
<1>6. proc["replay"].at = "restore" => proc["replay"].cmd \in Commands \ {c}
  BY <1>1 DEF IInv, ProcsWell, Replays
<1>7. AskedOnes \in SUBSET Commands /\ RowOf(c) \in Keys
  BY DEF AskedOnes, RowOf, IInv, AskedWell, Asks
<1>8. CASE /\ cache' = [cache EXCEPT ![RowOf(c)] = PatchRow(row, change)]
           /\ view' = cache'
           /\ journal' = [journal EXCEPT ![c] = JournalOf(c, change)]
           /\ prep' = [prep EXCEPT ![c].at = "prepared"]
  <2>1. CacheWell'
    <3>1. cache \in RowsOf(AskedOnes)
      BY DEF IInv, CacheWell
    <3>2. PatchRow(row, change) \in FullRows(AskedOnes)
      <4>1. row \in FullRows(AskedOnes)
        BY <1>7, <3>1 DEF RowsOf
      <4> HIDE DEF row, change
      <4> QED BY <1>3, <1>7, <4>1, PatchFull
    <3>3. cache' \in RowsOf(AskedOnes)
      BY <1>8, <3>1, <3>2 DEF RowsOf
    <3>4. server' = server
      BY <1>1 DEF backend
    <3> QED BY <1>1, <1>4, <1>8, <3>3, <3>4 DEF IInv, CacheWell, Kept0
  <2> PICK j : j = JournalOf(c, change)
    OBVIOUS
  <2>2. j \in Journal(AskedOnes) /\ j.state = "active" /\ j.preds \subseteq 1 .. c - 1 /\ j.change = change
    BY <1>2, <1>3, JournalOfTyped
  <2>3. journal' = [journal EXCEPT ![c] = j]
    BY <1>8
  <2>10. Names(c, j.change) /\ j.state \notin {"none", "confirmed"}
    BY <1>3, <2>2
  <2> HIDE DEF change, row
  <2>4. JournalAdded(c, j)
    BY <1>1, <1>2, <1>3, <2>2, <2>3, <2>10, NewJournal
  <2>5. MirrorsWell'
    BY <1>1, <2>4, MirrorsFrame DEF IInv, JournalAdded
  <2>6. PrepsWell' /\ \A d \in Commands \ {c} : prep'[d] = prep[d]
    <3>1. "prepared" \in PrepStages \ Reads /\ "prepared" \notin Writes
      BY DEF PrepStages, Reads, Writes
    <3>2. PrepsWell'
      BY <1>1, <1>5, <1>8, <2>2, <2>4, <3>1, PrepMoves DEF IInv, JournalAdded
    <3> QED BY <1>5, <1>8, <3>2
  <2>7. Grown
    <3>1. server.rev \in Nat /\ canon.rev \in Nat /\ server' = server
      BY <1>1, RevsTyped DEF IInv, backend
    <3> QED BY <1>1, <1>4, <2>4, <3>1 DEF Grown, Kept0, JournalAdded, AskedOnes
  <2>8. QueueWell' /\ ProcsWell'
    BY <1>1, <1>6, <2>4, <2>6, <2>7, QueueFrame, ProcsGrow DEF IInv, JournalAdded
  <2> QED BY <1>4, <2>1, <2>4, <2>5, <2>6, <2>8 DEF IInv, Kept0, JournalAdded
<1>9. CASE UNCHANGED <<cache, view, journal>> /\ prep' = [prep EXCEPT ![c].at = "archiving"]
  <2>1. Kept0 /\ CacheWell' /\ JournalsWell' /\ Grown
        /\ Journals' = Journals
    BY <1>1, <1>9, AsideKeeps
  <2>2. MirrorsWell'
    BY <1>1, <2>1, MirrorsFrame DEF IInv
  <2>3. PrepsWell' /\ \A d \in Commands \ {c} : prep'[d] = prep[d]
    <3>1. "archiving" \in PrepStages \ Reads /\ "archiving" # "archived" /\ "archiving" # "prepared"
      BY DEF PrepStages, Reads
    <3>2. PrepsWell'
      BY <1>1, <1>2, <1>5, <1>9, <3>1, PrepMoves DEF IInv
    <3> QED BY <1>5, <1>9, <3>2
  <2>4. QueueWell' /\ ProcsWell'
    BY <1>1, <1>6, <1>9, <2>1, <2>3, QueueFrame, ProcsGrow DEF IInv
  <2> QED BY <2>1, <2>2, <2>3, <2>4 DEF IInv, Kept0
<1> QED BY <1>8, <1>9 DEF Persist, SetPrep

\* archiveFailedPreparation keeps the invariant, whether it could write or not.
LEMMA ArchiveKeeps ==
    ASSUME IInv, NEW c \in Commands, Archive(c)
    PROVE  IInv'
<1> DEFINE x == mirror[c].change
<1>1. /\ prep[c].at = "archiving"
      /\ UNCHANGED <<asked, cache, canon, checkpoint, view, queue, proc>> /\ UNCHANGED backend
      /\ faults' = faults \/ Fault
  BY DEF Archive
<1>2. journal[c] = NoJournal /\ mirror[c] # NoMirror
  BY <1>1 DEF IInv, PrepsWell, Writes
<1>3. c \in AskedOnes /\ MirrorWell(c) /\ x \in Changes(AskedOnes) /\ Names(c, x)
  <2>1. c \in AskedOnes /\ MirrorWell(c)
    BY <1>2, MirrorIs DEF IInv, MirrorsWell
  <2> QED BY <1>2, <2>1, MirrorShape DEF MirrorWell
<1>4. Kept0
  BY <1>1, ClientSide
<1>5. prep \in [Commands -> Prep(AskedOnes)] /\ \A d \in Commands : d < c => prep[d].at \notin Reads
  <2>1. prep[c].at \notin Reads
    BY <1>1 DEF Reads
  <2> QED BY <1>3, <2>1, InOrder DEF IInv, PrepsWell
<1>6. proc["replay"].at = "restore" => proc["replay"].cmd \in Commands \ {c}
  BY <1>1 DEF IInv, ProcsWell, Replays
<1>7. CASE /\ journal' = [journal EXCEPT ![c] = [JournalOf(c, x) EXCEPT !.state = "rejected"]]
           /\ prep' = [prep EXCEPT ![c].at = "archived"]
           /\ UNCHANGED mirror
  <2> PICK j : j = [JournalOf(c, x) EXCEPT !.state = "rejected"]
    OBVIOUS
  <2>1. j \in Journal(AskedOnes) /\ j.state = "rejected" /\ j.preds \subseteq 1 .. c - 1 /\ j.change = x
    <3>1. JournalOf(c, x) \in Journal(AskedOnes) /\ JournalOf(c, x).preds \subseteq 1 .. c - 1
          /\ JournalOf(c, x).change = x
      BY <1>2, <1>3, JournalOfTyped
    <3>2. "rejected" \in JournalStates
      BY DEF JournalStates, Terminal
    <3> QED BY <3>1, <3>2 DEF Journal
  <2>2. Names(c, j.change) /\ j.state \notin {"none", "confirmed"}
    BY <1>3, <2>1
  <2>3. journal' = [journal EXCEPT ![c] = j]
    BY <1>7
  <2> HIDE DEF x
  <2>4. JournalAdded(c, j)
    BY <1>1, <1>2, <1>3, <2>1, <2>2, <2>3, NewJournal
  <2>5. MirrorsWell'
    BY <1>1, <1>7, <2>4, MirrorsFrame DEF IInv, JournalAdded
  <2>6. PrepsWell' /\ \A d \in Commands \ {c} : prep'[d] = prep[d]
    <3>1. "archived" \in PrepStages \ Reads /\ "archived" \notin Writes 
      BY DEF PrepStages, Reads, Writes
    <3>2. PrepsWell'
      BY <1>1, <1>5, <1>7, <2>1, <2>4, <3>1, PrepMoves DEF IInv, JournalAdded
    <3> QED BY <1>5, <1>7, <3>2
  <2>7. server.rev \in Nat /\ canon.rev \in Nat /\ server' = server
    BY <1>1, RevsTyped DEF IInv, backend
  <2>8. Grown
    BY <1>1, <1>4, <2>4, <2>7 DEF Grown, Kept0, JournalAdded, AskedOnes
  <2>9. QueueWell' /\ ProcsWell'
    BY <1>1, <1>6, <1>7, <2>4, <2>6, <2>8, QueueFrame, ProcsGrow DEF IInv, JournalAdded
  <2>10. CacheWell'
    BY <1>1, <1>4, <2>7, CacheFrame DEF IInv, Kept0
  <2> QED BY <1>4, <2>4, <2>5, <2>6, <2>9, <2>10 DEF IInv, Kept0, JournalAdded
<1>8. CASE /\ mirror' = [mirror EXCEPT ![c].status = "conflict", ![c].root = 0]
           /\ prep' = [prep EXCEPT ![c].at = "none"]
           /\ UNCHANGED journal
  <2>1. Kept0 /\ CacheWell' /\ JournalsWell' /\ Grown
        /\ Journals' = Journals
    BY <1>1, <1>8, AsideKeeps
  <2>2. mirror \in [Commands -> Mirror(AskedOnes)]
    BY DEF IInv, MirrorsWell
  <2>3. mirror'[c] = [mirror[c] EXCEPT !.status = "conflict", !.root = 0]
        /\ \A d \in Commands \ {c} : mirror'[d] = mirror[d]
    BY <1>8, <2>2
  <2>4. mirror' = [mirror EXCEPT ![c] = mirror'[c]]
    BY <1>8, <2>2, <2>3
  <2>5. Restated(c)
    <3>1. "conflict" \in MirrorStatuses \ {"absent"} /\ 0 \in 0 .. MaxCommands
      BY InteractionsAssumption DEF MirrorStatuses, Closed
    <3> QED BY <2>3, <3>1 DEF Restated
  <2>6. MirrorWell(c)' /\ mirror'[c] # NoMirror
    BY <1>1, <1>2, <1>3, <2>5, RestatedWell
  <2>7. MirrorsWell'
    BY <1>1, <2>1, <2>4, <2>6, OneMirror DEF IInv
  <2>8. PrepsWell' /\ \A d \in Commands \ {c} : prep'[d] = prep[d]
    <3>1. "none" \in PrepStages \ Reads /\ "none" \notin Writes /\ "none" \notin {"archived", "prepared"}
      BY DEF PrepStages, Reads, Writes
    <3>2. PrepsWell'
      BY <1>1, <1>5, <1>8, <2>3, <3>1, PrepMoves DEF IInv
    <3> QED BY <1>5, <1>8, <3>2
  <2>9. QueueWell' /\ ProcsWell'
    BY <1>1, <1>6, <1>8, <2>1, <2>3, <2>8, QueueFrame, ProcsGrow DEF IInv
  <2> QED BY <2>1, <2>7, <2>8, <2>9 DEF IInv, Kept0
<1> QED BY <1>7, <1>8 DEF Archive, SetPrep

\* The retirement of an archived mirror keeps the invariant: its journal tells how it ended.
LEMMA ArchivedKeeps ==
    ASSUME IInv, NEW c \in Commands, Archived(c)
    PROVE  IInv'
<1>1. /\ prep[c].at = "archived"
      /\ mirror' = [mirror EXCEPT ![c] = NoMirror]
      /\ prep' = [prep EXCEPT ![c].at = "none"]
      /\ UNCHANGED <<asked, cache, canon, checkpoint, journal, view, queue, proc, faults>>
      /\ UNCHANGED backend
  BY DEF Archived, SetPrep
<1>2. journal[c].state # "none" /\ c \in AskedOnes
  BY <1>1 DEF IInv, PrepsWell, JournalsWell
<1>3. Kept0 /\ CacheWell' /\ JournalsWell' /\ Grown
      /\ Journals' = Journals
  BY <1>1, AsideKeeps
<1>4. mirror \in [Commands -> Mirror(AskedOnes)] /\ prep \in [Commands -> Prep(AskedOnes)]
  BY DEF IInv, MirrorsWell, PrepsWell
<1>5. mirror'[c] = NoMirror /\ \A d \in Commands \ {c} : mirror'[d] = mirror[d] /\ prep'[d] = prep[d]
  BY <1>1, <1>4
<1>6. MirrorsWell'
  <2>1. NoMirror \in Mirror(AskedOnes')
    <3>1. AskedOnes' \in SUBSET Commands
      BY DEF AskedOnes
    <3>2. NoChange \in Changes(AskedOnes')
      BY <3>1, Nothing
    <3>3. 0 \in 0 .. MaxCommands
      BY InteractionsAssumption
    <3> QED BY <3>2, <3>3 DEF NoMirror, Mirror, MirrorStatuses
  <2>2. NoMirror.preds = {}
    BY DEF NoMirror
  <2>3. MirrorWell(c)'
    BY <1>1, <1>2, <1>5, <2>1, <2>2 DEF MirrorWell
  <2> QED BY <1>1, <1>3, <1>5, <2>3, OneMirror DEF IInv
<1>7. PrepsWell'
  <2>1. "none" \in PrepStages \ Reads /\ "none" \notin Writes /\ "none" \notin {"archived", "prepared"}
        /\ "archived" \notin Reads
    BY DEF PrepStages, Reads, Writes
  <2>2. \A d \in Commands : d < c => prep[d].at \notin Reads
    BY <1>1, <1>2, <2>1, InOrder DEF IInv
  <2> QED BY <1>1, <1>5, <2>1, <2>2, PrepMoves DEF IInv
<1>8. proc["replay"].at = "restore" => proc["replay"].cmd \in Commands \ {c}
  BY <1>1 DEF IInv, ProcsWell, Replays
<1>9. QueueWell' /\ ProcsWell'
  BY <1>1, <1>3, <1>5, <1>8, QueueFrame, ProcsGrow DEF IInv
<1> QED BY <1>3, <1>6, <1>7, <1>9 DEF IInv, Kept0

\* What is queued is journaled.
LEMMA EnqueueKeeps ==
    ASSUME QueueWell, NEW c \in Commands, NEW r \in BOOLEAN, Enqueue(c, r),
           journal'[c].state # "none", Journals \subseteq Journals'
    PROVE  QueueWell' /\ queue' # <<>>
<1> DEFINE T == [cmd : Commands, recovery : BOOLEAN]
           e == [cmd |-> c, recovery |-> r]
<1>1. queue \in Seq(T) /\ queue' = Append(queue, e) /\ e \in T
  BY DEF QueueWell, Enqueue
<1>2. \A i \in 1 .. Len(queue) : queue[i].cmd \in Commands /\ journal'[queue[i].cmd].state # "none"
  <2>1. \A i \in 1 .. Len(queue) : queue[i] \in T
    <3> HIDE DEF T
    <3> QED BY <1>1
  <2> QED BY <2>1 DEF QueueWell, Journals
<1>3. e.cmd = c
  OBVIOUS
<1>4. queue' \in Seq(T) /\ queue' # <<>> /\ \A i \in 1 .. Len(queue') : queue'[i].cmd \in {c} \cup {queue[k].cmd : k \in 1 .. Len(queue)}
  <2> HIDE DEF T, e
  <2> QED BY <1>1, <1>3
<1> QED BY <1>2, <1>4 DEF QueueWell

\* schedulePreparedDispatch keeps the invariant.
LEMMA DispatchKeeps ==
    ASSUME IInv, NEW c \in Commands, Dispatch(c)
    PROVE  IInv'
<1>1. /\ prep[c].at = "prepared"
      /\ prep' = [prep EXCEPT ![c].at = "none"]
      /\ Enqueue(c, FALSE)
      /\ UNCHANGED <<asked, cache, canon, checkpoint, journal, mirror, view, proc, faults>>
      /\ UNCHANGED backend
  BY DEF Dispatch, SetPrep, stored
<1>2. journal[c].state # "none" /\ c \in AskedOnes
  BY <1>1 DEF IInv, PrepsWell, JournalsWell
<1>3. Kept0 /\ CacheWell' /\ JournalsWell' /\ Grown
      /\ Journals' = Journals
  BY <1>1, AsideKeeps
<1>4. prep \in [Commands -> Prep(AskedOnes)]
  BY DEF IInv, PrepsWell
<1>5. MirrorsWell'
  BY <1>1, <1>3, MirrorsFrame DEF IInv
<1>6. PrepsWell'
  <2>1. "none" \in PrepStages \ Reads /\ "none" \notin Writes /\ "none" \notin {"archived", "prepared"}
        /\ "prepared" \notin Reads
    BY DEF PrepStages, Reads, Writes
  <2>2. \A d \in Commands : d < c => prep[d].at \notin Reads
    BY <1>1, <1>2, <2>1, InOrder DEF IInv
  <2> QED BY <1>1, <2>1, <2>2, PrepMoves DEF IInv
<1>7. proc["replay"].at = "restore" => proc["replay"].cmd \in Commands \ {c}
  BY <1>1 DEF IInv, ProcsWell, Replays
<1>8. QueueWell' /\ queue' # <<>>
  BY <1>1, <1>2, <1>3, EnqueueKeeps DEF IInv
<1>9. ProcsWell'
  BY <1>1, <1>3, <1>4, <1>7, <1>8, ProcsGrow DEF IInv
<1> QED BY <1>3, <1>5, <1>6, <1>8, <1>9 DEF IInv, Kept0

-----------------------------------------------------------------------------
(* The server *)

\* The server went on, and its ledger lost nothing.
Served ==
    /\ ServerWell' /\ Committed \subseteq Committed'
    /\ server.rev \in Nat /\ server'.rev \in Nat /\ server.rev <= server'.rev
    /\ \A d \in Committed : receipts'[d] = receipts[d]

\* The row a command leaves on the server.
ExecutedRow(c) ==
    LET row == server.rows[RowOf(c)]
        t == asked[c].undoes
    IN  IF IsUndo(c)
        THEN [row EXCEPT ![asked[t].field] = receipts[t].change.before[asked[t].field],
                         !["updatedAt"] = ServerStamp(c)]
        ELSE [row EXCEPT ![asked[c].field] = c, !["updatedAt"] = ServerStamp(c)]

\* A command that the server applies makes a whole row, which differs in the field it sets.
LEMMA ExecutedRowTyped ==
    ASSUME IInv, NEW c \in AskedOnes, NEW base, Verdict(c, base) = "applied"
    PROVE  /\ receipts[c].rev = 0 /\ RowOf(c) \in Keys
           /\ ExecutedRow(c) \in FullRows(Committed \cup {c})
           /\ server.rows[RowOf(c)] \in FullRows(Committed \cup {c})
           /\ ~IsUndo(c) => /\ asked[c].field \in Fields
                            /\ ExecutedRow(c)[asked[c].field] # server.rows[RowOf(c)][asked[c].field]
<1> USE InteractionsAssumption
<1> DEFINE A == Committed
           B == A \cup {c}
           row == server.rows[RowOf(c)]
<1>1. c \in Commands /\ A \in SUBSET Commands /\ B \in SUBSET Commands /\ A \subseteq B
  BY DEF AskedOnes, Committed
<1>2. asked[c] \in Asks /\ asked[c].field # "updatedAt" /\ RowOf(c) \in Keys
      /\ asked[c].field \in Fields \ {"updatedAt"}
  BY <1>1 DEF IInv, AskedWell, Asks, RowOf
<1>3. receipts[c].rev = 0
  BY DEF Verdict
<1>4. row \in FullRows(A) /\ row \in FullRows(B)
  <2>1. row \in FullRows(A)
    BY <1>2, RevsTyped DEF IInv, RowsOf
  <2> HIDE DEF A, B, row
  <2> QED BY <1>1, <2>1, Grows
<1>5. ServerStamp(c) \in Values
  <2>1. ServerStamp(c) \in 0 .. 2 * MaxCommands + 1 + MaxForeign
    BY <1>1 DEF ServerStamp, Commands
  <2> QED BY <2>1
<1>6. CASE IsUndo(c)
  <2> DEFINE t == asked[c].undoes
             f == asked[t].field
             v == receipts[t].change.before[f]
  <2>1. t \in AskedOnes /\ t \in Commands /\ asked[t].undoes = 0 /\ f \in Fields \ {"updatedAt"}
    BY <1>6 DEF IInv, AskedWell, Asks, AskedOnes, IsUndo
  <2>2. receipts[t].rev # 0
    BY <1>3, <1>6 DEF Verdict
  <2>3. receipts[t].change \in Changes(A) /\ f \in DOMAIN receipts[t].change.before
    BY <2>1, <2>2 DEF IInv, ServerWell, Receipt, Committed, Names
  <2>4. v \in Held(A, f)
    BY <2>3, ChangeElim, PartElim
  <2>5. v \in Held(B, f)
    BY <2>4 DEF Held
  <2>6. ExecutedRow(c) = [row EXCEPT ![f] = v, !["updatedAt"] = ServerStamp(c)]
    BY <1>6 DEF ExecutedRow
  <2> HIDE DEF t, f, v, A, B, row
  <2>7. [row EXCEPT ![f] = v, !["updatedAt"] = ServerStamp(c)] \in FullRows(B)
    BY <1>1, <1>4, <1>5, <2>1, <2>5, Stamped
  <2>8. ExecutedRow(c) \in FullRows(B)
    BY <2>6, <2>7
  <2> QED BY <1>2, <1>3, <1>4, <1>6, <2>8 DEF B, A, row
<1>7. CASE ~IsUndo(c)
  <2> DEFINE f == asked[c].field
  <2>1. ExecutedRow(c) = [row EXCEPT ![f] = c, !["updatedAt"] = ServerStamp(c)]
    BY <1>7 DEF ExecutedRow
  <2>2. c \in Held(B, f)
    BY <1>2 DEF Held
  <2>3. row[f] # c /\ row \in [Fields -> Values]
    <3>1. row[f] \in {0, ForeignValue} \cup A /\ row \in [Fields -> Values]
      BY <1>2, <1>4 DEF FullRows, Held
    <3>2. c \notin A
      BY <1>3 DEF Committed
    <3> QED BY <1>1, <3>1, <3>2 DEF ForeignValue, Commands
  <2>4. f \in Fields \ {"updatedAt"}
    BY <1>2
  <2> HIDE DEF f, A, B, row
  <2>5. [row EXCEPT ![f] = c, !["updatedAt"] = ServerStamp(c)] \in FullRows(B)
    BY <1>1, <1>4, <1>5, <2>2, <2>4, Stamped
  <2>6. ExecutedRow(c) \in FullRows(B) /\ ExecutedRow(c)[f] = c
    BY <2>1, <2>3, <2>4, <2>5
  <2> QED BY <1>2, <1>3, <1>4, <2>3, <2>4, <2>6 DEF A, B, f, row
<1> QED BY <1>6, <1>7

\* The server's execution of a command keeps the ledger well formed.
LEMMA ExecuteServes ==
    ASSUME IInv, NEW c \in AskedOnes, NEW base, Verdict(c, base) = "applied", Execute(c),
           UNCHANGED <<asked, foreign>>, late' \subseteq late
    PROVE  Served /\ c \in Committed'
<1> DEFINE A == Committed
           B == A \cup {c}
           row == server.rows[RowOf(c)]
           next == ExecutedRow(c)
           x == Compact(row, next)
           r == [rev |-> server.rev + 1, change |-> x]
<1>1. c \in Commands /\ A \in SUBSET Commands /\ B \in SUBSET Commands /\ A \subseteq B
  BY DEF AskedOnes, Committed
<1>2. /\ receipts[c].rev = 0 /\ RowOf(c) \in Keys
      /\ next \in FullRows(B) /\ row \in FullRows(B)
      /\ ~IsUndo(c) => asked[c].field \in Fields /\ next[asked[c].field] # row[asked[c].field]
  BY ExecutedRowTyped
<1>3. /\ server' = [rev |-> server.rev + 1, rows |-> [server.rows EXCEPT ![RowOf(c)] = next]]
      /\ receipts' = [receipts EXCEPT ![c] = r]
  BY DEF Execute, ExecutedRow
<1>4. x \in Changes(B) /\ Names(c, x)
  <2>1. x \in Changes(B) /\ \A f \in Fields : row[f] # next[f] => f \in DOMAIN x.before
    <3> HIDE DEF row, next, A, B
    <3> QED BY <1>1, <1>2, CompactTyped
  <2>2. asked[c].undoes = 0 => asked[c].field \in DOMAIN x.before
    <3> HIDE DEF x, row, next
    <3> QED BY <1>2, <2>1 DEF IsUndo
  <2> HIDE DEF x
  <2> QED BY <2>1, <2>2 DEF Names
<1>5. server.rev \in Nat /\ server.rows \in RowsOf(A) /\ receipts \in [Commands -> Receipt(A)]
  BY RevsTyped DEF IInv, ServerWell
<1> HIDE DEF x, row, next, A
<1>6. r \in Receipt(B) /\ r.rev = server.rev + 1 /\ r.change = x /\ r.rev # 0
  BY <1>4, <1>5 DEF Receipt
<1> HIDE DEF r
<1>7. receipts'[c] = r /\ \A d \in Commands \ {c} : receipts'[d] = receipts[d]
  BY <1>1, <1>3, <1>5
<1>8. Committed' = B
  <2>1. Committed' = Committed \cup {c}
    BY <1>1, <1>6, <1>7 DEF Committed
  <2> QED BY <2>1 DEF A
<1>9. Changes(A) \subseteq Changes(B) /\ RowsOf(A) \subseteq RowsOf(B)
  BY <1>1, Grows, SnapshotGrows
<1>10. receipts' \in [Commands -> Receipt(B)]
  <2>1. Receipt(A) \subseteq Receipt(B)
    BY <1>9 DEF Receipt
  <2> QED BY <1>3, <1>5, <1>6, <2>1
<1>11. server' \in Snapshot(B) /\ server'.rev = server.rev + 1
  <2>1. server.rows \in [Keys -> FullRows(B)]
    BY <1>5, <1>9 DEF RowsOf
  <2>2. [server.rows EXCEPT ![RowOf(c)] = next] \in RowsOf(B)
    BY <1>2, <2>1 DEF RowsOf
  <2> QED BY <1>3, <1>5, <2>2 DEF Snapshot
<1>12. \A d \in Commands : receipts'[d].rev <= server'.rev
  <2> TAKE d \in Commands
  <2>1. CASE d = c
    BY <1>5, <1>6, <1>7, <1>11, <2>1
  <2>2. CASE d # c
    <3>1. receipts[d].rev <= server.rev /\ receipts[d].rev \in Nat
      BY <1>5 DEF IInv, ServerWell, Receipt
    <3> QED BY <1>5, <1>7, <1>11, <2>2, <3>1
  <2> QED BY <2>1, <2>2
<1>13. \A d \in Committed' : d \in AskedOnes' /\ Names(d, receipts[d].change)'
  <2> TAKE d \in Committed'
  <2>1. CASE d = c
    BY <1>4, <1>6, <1>7, <2>1 DEF Names, AskedOnes
  <2>2. CASE d # c
    <3>1. d \in Committed /\ d \in Commands
      BY <1>8, <2>2 DEF A, Committed
    <3> QED BY <1>7, <2>2, <3>1 DEF IInv, ServerWell, Names, AskedOnes
  <2> QED BY <2>1, <2>2
<1>14. \A d \in Committed : receipts'[d] = receipts[d]
  BY <1>2, <1>7 DEF Committed
<1>15. ServerWell'
  BY <1>8, <1>10, <1>11, <1>12, <1>13 DEF ServerWell, IInv, AskedOnes
<1> QED BY <1>5, <1>8, <1>11, <1>14, <1>15 DEF Served, A

\* A step of the server leaves the client as it is.
ClientSteady ==
    /\ AskedWell' /\ CacheWell' /\ JournalsWell' /\ MirrorsWell' /\ PrepsWell'
    /\ Grown /\ AskedOnes' = AskedOnes /\ Journals' = Journals
    /\ Unsettled' = Unsettled

\* The client does nothing while the server moves on.
LEMMA ServedKeeps ==
    ASSUME IInv, Served, UNCHANGED <<cache, canon, checkpoint, journal, mirror, view, asked, prep>>
    PROVE  ClientSteady
<1>1. AskedOnes' = AskedOnes /\ Journals' = Journals
      /\ Unsettled' = Unsettled
  BY DEF AskedOnes, Journals, Unsettled
<1>2. AskedWell'
  BY AskedFrame DEF IInv
<1>3. CacheWell'
  <2>1. canon.rev \in Nat /\ checkpoint \in Nat
    BY RevsTyped DEF IInv, CacheWell
  <2> QED BY <1>1, <2>1 DEF IInv, CacheWell, Served
<1>4. JournalsWell'
  BY JournalsFrame DEF IInv, Served
<1>5. MirrorsWell'
  BY <1>1, MirrorsFrame DEF IInv
<1>6. PrepsWell'
  BY <1>1, PrepsFrame DEF IInv
<1>7. Grown
  BY <1>1, RevsTyped DEF IInv, Grown, Served
<1> QED BY <1>1, <1>2, <1>3, <1>4, <1>5, <1>6, <1>7 DEF ClientSteady

\* A step of the server alone keeps the invariant.
LEMMA ServerStepKeeps ==
    ASSUME IInv, Served, UNCHANGED <<stored, realm, faults>>
    PROVE  IInv'
<1>1. UNCHANGED <<cache, canon, checkpoint, journal, mirror, view, asked, prep, queue, proc, faults>>
  BY DEF stored, realm
<1>2. ClientSteady
  BY <1>1, ServedKeeps
<1>3. QueueWell' /\ ProcsWell'
  BY <1>1, <1>2, QueueFrame, ProcsGrow DEF IInv, ClientSteady
<1> QED BY <1>1, <1>2, <1>3 DEF IInv, ClientSteady, Served

\* The server does nothing, or loses a copy.
LEMMA SameServed ==
    ASSUME IInv, UNCHANGED <<asked, server, receipts, foreign>>, late' \subseteq late
    PROVE  Served
<1>1. Committed' = Committed /\ AskedOnes' = AskedOnes
  BY DEF Committed, AskedOnes
<1>2. ServerWell'
  BY <1>1 DEF IInv, ServerWell, Names
<1> QED BY <1>1, <1>2, RevsTyped DEF IInv, Served

\* A late copy of a request keeps the invariant.
LEMMA LateCopyKeeps ==
    ASSUME IInv, NEW x \in late, LateCopy(x)
    PROVE  IInv'
<1>1. late' \subseteq late /\ UNCHANGED <<foreign, stored, realm, faults>> /\ asked' = asked
  BY DEF LateCopy, realm
<1>2. CASE Verdict(x.cmd, x.base) = "applied"
  <2>1. x.cmd \in AskedOnes
    BY DEF IInv, ServerWell
  <2>2. Execute(x.cmd)
    BY <1>2 DEF LateCopy
  <2>3. Served
    BY <1>1, <1>2, <2>1, <2>2, ExecuteServes
  <2> QED BY <1>1, <2>3, ServerStepKeeps
<1>3. CASE Verdict(x.cmd, x.base) # "applied"
  <2>1. UNCHANGED <<server, receipts>>
    BY <1>3 DEF LateCopy
  <2>2. Served
    BY <1>1, <2>1, SameServed
  <2> QED BY <1>1, <2>2, ServerStepKeeps
<1> QED BY <1>2, <1>3

\* The commit of another client keeps the invariant.
LEMMA OtherCommitKeeps ==
    ASSUME IInv, NEW k \in Keys, NEW f \in Fields \ {"updatedAt"}, OtherCommit(k, f)
    PROVE  IInv'
<1> USE InteractionsAssumption
<1> DEFINE row == server.rows[k]
           next == [row EXCEPT ![f] = ForeignValue, !["updatedAt"] = ForeignStamp]
           x == [rev |-> server.rev + 1, row |-> k, field |-> f]
<1>1. /\ Cardinality(foreign) < MaxForeign
      /\ server' = [rev |-> server.rev + 1, rows |-> [server.rows EXCEPT ![k] = next]]
      /\ foreign' = foreign \cup {x}
      /\ UNCHANGED <<receipts, late, stored, realm, faults>> /\ asked' = asked
  BY DEF OtherCommit, realm
<1>2. Committed' = Committed /\ AskedOnes' = AskedOnes /\ Committed \in SUBSET Commands
  BY <1>1 DEF Committed, AskedOnes
<1>3. server.rev \in Nat /\ server.rows \in [Keys -> FullRows(Committed)]
  BY RevsTyped DEF IInv, RowsOf
<1>4. IsFiniteSet(foreign') /\ Cardinality(foreign') <= MaxForeign /\ Cardinality(foreign) \in Nat
  <2>1. IsFiniteSet(foreign)
    BY DEF IInv, ServerWell
  <2>2. Cardinality(foreign) \in Nat
    BY <2>1, FS_CardinalityType
  <2> HIDE DEF x
  <2>3. IsFiniteSet(foreign \cup {x})
        /\ Cardinality(foreign \cup {x}) \in {Cardinality(foreign), Cardinality(foreign) + 1}
    <3>1. CASE x \in foreign
      <4>1. foreign \cup {x} = foreign
        BY <3>1
      <4> QED BY <2>1, <4>1
    <3>2. CASE x \notin foreign
      BY <2>1, <3>2, FS_AddElement
    <3> QED BY <3>1, <3>2
  <2> QED BY <1>1, <2>2, <2>3
<1>5. next \in FullRows(Committed)
  <2>1. ForeignStamp \in 0 .. 2 * MaxCommands + 1 + MaxForeign
    BY <1>1, <1>4 DEF ForeignStamp
  <2>2. ForeignStamp \in Values
    BY <2>1
  <2>3. ForeignValue \in Held(Committed, f) /\ row \in FullRows(Committed)
    BY <1>3 DEF Held
  <2> HIDE DEF row
  <2> QED BY <1>2, <2>2, <2>3, Stamped
<1> HIDE DEF next
<1>6. server' \in Snapshot(Committed') /\ server'.rev = server.rev + 1
  <2>1. [server.rows EXCEPT ![k] = next] \in RowsOf(Committed)
    BY <1>3, <1>5 DEF RowsOf
  <2>2. server' \in Snapshot(Committed) /\ server'.rev = server.rev + 1
    BY <1>1, <1>3, <2>1 DEF Snapshot
  <2> QED BY <1>2, <2>2
<1>7. \A d \in Commands : receipts'[d].rev <= server'.rev
  <2> TAKE d \in Commands
  <2>1. receipts[d].rev <= server.rev /\ receipts[d].rev \in Nat
    BY DEF IInv, ServerWell, Receipt
  <2> QED BY <1>1, <1>3, <1>6, <2>1
<1>8. ServerWell'
  BY <1>1, <1>2, <1>4, <1>6, <1>7 DEF IInv, ServerWell, Names
<1>9. Served
  BY <1>1, <1>2, <1>3, <1>6, <1>8 DEF Served
<1> QED BY <1>1, <1>9, ServerStepKeeps

-----------------------------------------------------------------------------
(* Sends, rejections and recoveries *)

\* What the invariant says of one journal.
JournalWell(c) ==
    /\ journal[c] \in Journal(AskedOnes)
    /\ journal[c].preds \subseteq 1 .. c - 1
    /\ journal[c].state = "none" => journal[c] = NoJournal
    /\ journal[c].state = "confirmed" => journal[c].rev = receipts[c].rev /\ c \in Committed
    /\ journal[c].state # "none" => c \in AskedOnes /\ Names(c, journal[c].change)

\* What a send, a rejection or a recovery may do to a journal ...
JournalMove(c) ==
    /\ JournalWell(c)'
    /\ journal[c].state = "none" => journal'[c] = journal[c]
    /\ journal[c].state # "none" => journal'[c].state # "none"
    /\ NothingUndercut /\ journal[c].state = "confirmed" => journal'[c] = journal[c]

\* ... and to a mirror.
MirrorMove(c) ==
    \/ mirror'[c] = mirror[c]
    \/ mirror[c] # NoMirror /\ Restated(c)
    \/ mirror'[c] = NoMirror /\ journal'[c].state # "none"

\* A preparation goes on, and the recovery of a mirror without a journal.
Undisturbed ==
    \A c \in Commands : journal[c] = NoJournal /\ mirror[c] # NoMirror =>
        journal'[c] = journal[c] /\ mirror'[c] # NoMirror

\* What a step that moves journals and mirrors so keeps.
Moved ==
    /\ AskedWell' /\ asked' = asked /\ AskedOnes' = AskedOnes /\ ServerWell' /\ JournalsWell' /\ MirrorsWell' /\ PrepsWell'
    /\ Committed \subseteq Committed' /\ Journals \subseteq Journals'
    /\ Undisturbed /\ faults' \in 0 .. MaxFaults

\* Each journal is well formed ...
LEMMA JournalIs ==
    ASSUME JournalsWell, NEW c \in Commands
    PROVE  JournalWell(c)
BY DEF JournalsWell, JournalWell

\* ... and stays so when it is left alone.
LEMMA SameJournal ==
    ASSUME JournalsWell, NEW c \in Commands, UNCHANGED <<asked>>, journal'[c] = journal[c], Served
    PROVE  JournalMove(c)
<1>1. JournalWell(c)
  BY JournalIs
<1>2. c \in Committed => receipts'[c] = receipts[c] /\ c \in Committed'
  BY DEF Served
<1>3. JournalWell(c)'
  BY <1>1, <1>2 DEF JournalWell, AskedOnes, Names
<1> QED BY <1>3 DEF JournalMove

\* Moves of journals and mirrors keep what the invariant says of both, and of preparations.
LEMMA MovesKeep ==
    ASSUME IInv, UNCHANGED <<asked, prep>>, faults' = faults \/ Fault, Served,
           journal' = [c \in Commands |-> journal'[c]], mirror' = [c \in Commands |-> mirror'[c]],
           \A c \in Commands : JournalMove(c) /\ MirrorMove(c)
    PROVE  Moved
<1>1. AskedWell' /\ AskedOnes' = AskedOnes
  BY AskedFrame DEF IInv
<1>2. faults' \in 0 .. MaxFaults
  BY InteractionsAssumption DEF IInv, Fault
<1>3. JournalsWell'
  BY DEF JournalMove, JournalsWell, JournalWell
<1>4. Journals \subseteq Journals'
  BY DEF JournalMove, Journals
<1>5. ASSUME NEW c \in Commands
      PROVE  MirrorWell(c)' /\ (mirror[c] # NoMirror /\ mirror'[c] = NoMirror => journal'[c].state # "none")
  <2>1. MirrorWell(c)
    BY MirrorIs DEF IInv
  <2>2. CASE mirror'[c] = mirror[c]
    BY <1>4, <2>1, <2>2, MirrorFrame
  <2>3. CASE mirror[c] # NoMirror /\ Restated(c)
    BY <2>1, <2>3, RestatedWell
  <2>4. CASE mirror'[c] = NoMirror /\ journal'[c].state # "none"
    <3>1. AskedOnes' \in SUBSET Commands
      BY DEF AskedOnes
    <3>2. NoChange \in Changes(AskedOnes')
      BY <3>1, Nothing
    <3>3. 0 \in 0 .. MaxCommands
      BY InteractionsAssumption
    <3>4. NoMirror \in Mirror(AskedOnes') /\ NoMirror.preds = {}
      BY <3>2, <3>3 DEF NoMirror, Mirror, MirrorStatuses
    <3> QED BY <2>4, <3>4 DEF MirrorWell
  <2> QED BY <2>2, <2>3, <2>4 DEF MirrorMove
<1>6. MirrorsWell'
  BY <1>5 DEF MirrorsWell, MirrorWell
<1>7. Undisturbed
  <2>1. NoJournal.state = "none"
    BY DEF NoJournal
  <2> QED BY <1>5, <2>1 DEF Undisturbed, JournalMove
<1>8. PrepsWell'
  <2>1. \A c \in Commands : prep[c].at \in Reads \cup Writes =>
            journal'[c] = journal[c] /\ (mirror[c] # NoMirror => mirror'[c] # NoMirror)
    BY <1>7 DEF Undisturbed, IInv, PrepsWell
  <2> QED BY <1>4, <2>1, PrepsFrame DEF IInv
<1> QED BY <1>1, <1>2, <1>3, <1>4, <1>6, <1>7, <1>8 DEF Moved, Served

\* Nothing but mirrors, the queue and the processes changes.
LEMMA MirrorsMove ==
    ASSUME IInv, UNCHANGED <<asked, prep, journal>>, faults' = faults \/ Fault, Served,
           mirror' = [c \in Commands |-> mirror'[c]], \A c \in Commands : MirrorMove(c)
    PROVE  Moved
<1>1. \A c \in Commands : JournalMove(c)
  BY SameJournal DEF IInv
<1>2. journal' = [c \in Commands |-> journal'[c]]
  BY DEF IInv, JournalsWell
<1> QED BY <1>1, <1>2, MovesKeep

\* Nothing but the queue and the processes changes.
LEMMA ProcsMove ==
    ASSUME IInv, UNCHANGED <<asked, prep, journal, mirror>>, faults' = faults \/ Fault, Served
    PROVE  Moved
<1>1. mirror' = [c \in Commands |-> mirror'[c]] /\ \A c \in Commands : MirrorMove(c)
  BY DEF IInv, MirrorsWell, MirrorMove
<1> QED BY <1>1, MirrorsMove

\* The cache stays as it is.
LEMMA CacheStays ==
    ASSUME IInv, Moved, Served, UNCHANGED <<cache, canon, checkpoint>>, view' = view \/ view' = cache
    PROVE  CacheWell'
<1>1. canon.rev \in Nat /\ checkpoint \in Nat
  BY RevsTyped DEF IInv, CacheWell
<1> QED BY <1>1 DEF IInv, CacheWell, Moved, Served

\* Moves of journals take nothing from what is confirmed, nor from below the checkpoint.
LEMMA BackedStays ==
    ASSUME IInv, UNCHANGED <<canon, checkpoint>>, \A c \in Commands : JournalMove(c)
    PROVE  Steady /\ Backs
<1>1. Steady
  BY DEF JournalMove, Steady
<1>2. canon.rev \in Nat /\ checkpoint \in Nat
  BY RevsTyped DEF IInv, CacheWell
<1> QED BY <1>1, <1>2, BackedFrame DEF Steady, Backs

\* A step that writes neither rows nor journals.
LEMMA QuietKeeps ==
    ASSUME IInv, Moved, Served, UNCHANGED <<cache, canon, checkpoint, journal, asked>>,
           view' = view \/ view' = cache, QueueWell', ProcsWell'
    PROVE  Keeps
<1>1. CacheWell'
  BY CacheStays
<1>2. Steady /\ Backs
  BY SameJournal, BackedStays DEF IInv
<1> QED BY <1>1, <1>2 DEF Moved, IInv, Keeps

\* A step of the client alone.
LEMMA ClientServed ==
    ASSUME IInv, asked' = asked, UNCHANGED backend
    PROVE  Served
BY SameServed DEF backend

\* The head of the queue is taken off.
LEMMA TailKeeps ==
    ASSUME QueueWell, queue # <<>>, queue' = Tail(queue), Journals \subseteq Journals'
    PROVE  QueueWell'
<1> DEFINE T == [cmd : Commands, recovery : BOOLEAN]
<1>1. queue \in Seq(T)
  BY DEF QueueWell
<1>2. \A i \in 1 .. Len(queue) : queue[i].cmd \in Commands /\ journal'[queue[i].cmd].state # "none"
  <2>1. \A i \in 1 .. Len(queue) : queue[i] \in T
    <3> HIDE DEF T
    <3> QED BY <1>1
  <2> QED BY <2>1 DEF QueueWell, Journals
<1>3. queue' \in Seq(T) /\ \A i \in 1 .. Len(queue') : i + 1 \in 1 .. Len(queue) /\ queue'[i] = queue[i + 1]
  <2> HIDE DEF T
  <2> QED BY <1>1
<1> QED BY <1>2, <1>3 DEF QueueWell

\* What is appended to the rest of the queue.
LEMMA TailThenEnqueue ==
    ASSUME QueueWell, queue # <<>>, NEW c \in Commands,
           queue' = Append(Tail(queue), [cmd |-> c, recovery |-> TRUE]),
           Journals \subseteq Journals', c \in Journals
    PROVE  QueueWell'
<1> DEFINE T == [cmd : Commands, recovery : BOOLEAN]
           e == [cmd |-> c, recovery |-> TRUE]
<1>1. queue \in Seq(T) /\ e \in T /\ queue' = Append(Tail(queue), e)
  BY DEF QueueWell
<1>2. \A i \in 1 .. Len(queue) : queue[i].cmd \in Commands /\ journal'[queue[i].cmd].state # "none"
  <2>1. \A i \in 1 .. Len(queue) : queue[i] \in T
    <3> HIDE DEF T
    <3> QED BY <1>1
  <2> QED BY <2>1 DEF QueueWell, Journals
<1>3. e.cmd = c /\ journal'[c].state # "none"
  BY DEF Journals
<1>4. queue' \in Seq(T) /\ \A i \in 1 .. Len(queue') :
            queue'[i] = e \/ (i + 1 \in 1 .. Len(queue) /\ queue'[i] = queue[i + 1])
  <2> HIDE DEF T, e
  <2> QED BY <1>1
<1> QED BY <1>2, <1>3, <1>4 DEF QueueWell

-----------------------------------------------------------------------------
(* The process that sends *)

\* The flight is in a new state; its command and how it was taken up stay.
FlightIs(at, kind, work) ==
    proc' = [proc EXCEPT !["flight"] =
                [at |-> at, cmd |-> proc["flight"].cmd, recovery |-> proc["flight"].recovery,
                 was |-> proc["flight"].was, kind |-> kind, work |-> work]]

\* A process is a record.
LEMMA ProcIs ==
    ASSUME ProcWell, NEW p \in Procs
    PROVE  proc[p] = [at |-> proc[p].at, cmd |-> proc[p].cmd, recovery |-> proc[p].recovery,
                      was |-> proc[p].was, kind |-> proc[p].kind, work |-> proc[p].work]
           /\ p \in DOMAIN proc
BY DEF ProcWell

\* The flight goes to another stage ...
LEMMA FlightAt ==
    ASSUME ProcWell, NEW at,
           proc' = [proc EXCEPT !["flight"].at = at]
    PROVE  FlightIs(at, proc["flight"].kind, proc["flight"].work)
<1> PICK r : r = proc["flight"]
  OBVIOUS
<1> PICK q : q = [r EXCEPT !.at = at]
  OBVIOUS
<1>1. r = [at |-> r.at, cmd |-> r.cmd, recovery |-> r.recovery, was |-> r.was,
           kind |-> r.kind, work |-> r.work] /\ "flight" \in DOMAIN proc
  BY ProcIs DEF Procs
<1>2. proc' = [proc EXCEPT !["flight"] = q]
  BY <1>1
<1>3. q = [at |-> at, cmd |-> r.cmd, recovery |-> r.recovery, was |-> r.was,
           kind |-> r.kind, work |-> r.work]
  BY <1>1
<1> QED BY <1>2, <1>3 DEF FlightIs

\* ... with a kind ...
LEMMA FlightAtKind ==
    ASSUME ProcWell, NEW at, NEW kind,
           proc' = [proc EXCEPT !["flight"].at = at, !["flight"].kind = kind]
    PROVE  FlightIs(at, kind, proc["flight"].work)
<1> PICK r : r = proc["flight"]
  OBVIOUS
<1> PICK q : q = [r EXCEPT !.at = at, !.kind = kind]
  OBVIOUS
<1>1. r = [at |-> r.at, cmd |-> r.cmd, recovery |-> r.recovery, was |-> r.was,
           kind |-> r.kind, work |-> r.work] /\ "flight" \in DOMAIN proc
  BY ProcIs DEF Procs
<1>2. proc' = [proc EXCEPT !["flight"] = q]
  BY <1>1
<1>3. q = [at |-> at, cmd |-> r.cmd, recovery |-> r.recovery, was |-> r.was,
           kind |-> kind, work |-> r.work]
  BY <1>1
<1> QED BY <1>2, <1>3 DEF FlightIs

\* ... or with work.
LEMMA FlightAtWork ==
    ASSUME ProcWell, NEW at, NEW work,
           proc' = [proc EXCEPT !["flight"].at = at, !["flight"].work = work]
    PROVE  FlightIs(at, proc["flight"].kind, work)
<1> PICK r : r = proc["flight"]
  OBVIOUS
<1> PICK q : q = [r EXCEPT !.at = at, !.work = work]
  OBVIOUS
<1>1. r = [at |-> r.at, cmd |-> r.cmd, recovery |-> r.recovery, was |-> r.was,
           kind |-> r.kind, work |-> r.work] /\ "flight" \in DOMAIN proc
  BY ProcIs DEF Procs
<1>2. proc' = [proc EXCEPT !["flight"] = q]
  BY <1>1
<1>3. q = [at |-> at, cmd |-> r.cmd, recovery |-> r.recovery, was |-> r.was,
           kind |-> r.kind, work |-> work]
  BY <1>1
<1> QED BY <1>2, <1>3 DEF FlightIs

\* The recovery stays as it is.
LEMMA ReplayStays ==
    ASSUME ProcsWell, Moved, prep' = prep, proc'["replay"] = proc["replay"]
    PROVE  Rejection(proc["replay"])' /\ Replays(proc["replay"])'
<1>1. Rejection(proc["replay"])'
  BY RejectionGrows DEF ProcsWell, Procs, Moved
<1>2. Replays(proc["replay"])'
  BY DEF ProcsWell, Replays, RejectStages, Moved, Undisturbed
<1> QED BY <1>1, <1>2

\* The flight moves, whatever the recovery does.
LEMMA FlightMoves ==
    ASSUME ProcsWell, Moved, prep' = prep,
           NEW x, x = [at |-> x.at, cmd |-> x.cmd, recovery |-> x.recovery, was |-> x.was,
                       kind |-> x.kind, work |-> x.work],
           proc' = [proc EXCEPT !["flight"] = x],
           Rejection(proc["flight"])', Sends(proc["flight"])', Recovers(proc["flight"])'
    PROVE  ProcsWell'
<1>1. proc'["replay"] = proc["replay"] /\ proc'["flight"] = x
  BY DEF ProcsWell, ProcWell, Procs
<1>2. ProcWell'
  BY <1>1 DEF ProcsWell, ProcWell, Procs
<1>3. Rejection(proc["replay"])' /\ Replays(proc["replay"])'
  BY <1>1, ReplayStays
<1> QED BY <1>2, <1>3 DEF ProcsWell

\* The flight is idle again.
LEMMA FlightIdles ==
    ASSUME ProcsWell, Moved, prep' = prep,
           proc' = [proc EXCEPT !["flight"] = Idle]
    PROVE  ProcsWell'
<1>1. proc'["flight"] = Idle /\ Idle.at = "idle"
  BY DEF ProcsWell, ProcWell, Procs, Idle
<1>2. Idle = [at |-> Idle.at, cmd |-> Idle.cmd, recovery |-> Idle.recovery, was |-> Idle.was,
              kind |-> Idle.kind, work |-> Idle.work]
  BY DEF Idle
<1>3. Rejection(proc["flight"])' /\ Sends(proc["flight"])' /\ Recovers(proc["flight"])'
  BY <1>1 DEF Rejection, Sends, Recovers, RejectStages, FlightStages
<1> QED BY <1>2, <1>3, FlightMoves

\* The new state of the flight.
LEMMA FlightReads ==
    ASSUME ProcWell, NEW at, NEW kind, NEW work, FlightIs(at, kind, work)
    PROVE  /\ proc'["flight"].at = at /\ proc'["flight"].cmd = proc["flight"].cmd
           /\ proc'["flight"].kind = kind /\ proc'["flight"].work = work
BY DEF ProcWell, FlightIs, Procs

\* The flight is in a new state that is well formed.
LEMMA FlightGoes ==
    ASSUME ProcsWell, Moved, prep' = prep,
           NEW at, NEW kind, NEW work, FlightIs(at, kind, work),
           Rejection(proc["flight"])', Sends(proc["flight"])', Recovers(proc["flight"])'
    PROVE  ProcsWell'
<1> PICK x : x = [at |-> at, cmd |-> proc["flight"].cmd, recovery |-> proc["flight"].recovery,
                  was |-> proc["flight"].was, kind |-> kind, work |-> work]
  OBVIOUS
<1>1. proc' = [proc EXCEPT !["flight"] = x]
  BY DEF FlightIs
<1>2. x = [at |-> x.at, cmd |-> x.cmd, recovery |-> x.recovery, was |-> x.was,
           kind |-> x.kind, work |-> x.work]
  OBVIOUS
<1> QED BY <1>1, <1>2, FlightMoves

\* A send at work: its command is not settled.
LEMMA InFlight ==
    ASSUME IInv, proc["flight"].at \notin {"idle", "settled", "installed", "retire"}
    PROVE  /\ proc["flight"].cmd \in Unsettled /\ proc["flight"].cmd \in Commands
           /\ proc["flight"].cmd \in AskedOnes /\ proc["flight"].cmd \in Journals
           /\ queue # <<>> /\ ProcWell /\ ProcsWell
<1>1. proc["flight"].cmd \in Unsettled /\ queue # <<>> /\ proc["flight"].cmd \in Commands
  BY DEF IInv, ProcsWell, Sends, Unsettled
<1>2. journal[proc["flight"].cmd].state # "none"
  BY <1>1 DEF Unsettled
<1>3. proc["flight"].cmd \in AskedOnes
  BY <1>1, <1>2 DEF IInv, JournalsWell
<1> QED BY <1>1, <1>2, <1>3 DEF IInv, ProcsWell, Journals

\* The send is over, one way or another.
LEMMA FinishKeeps ==
    ASSUME IInv, Moved, prep' = prep, Finish("flight"), queue # <<>>
    PROVE  QueueWell' /\ ProcsWell'
<1>1. proc' = [proc EXCEPT !["flight"] = Idle] /\ queue' = Tail(queue)
  BY DEF Finish
<1>2. QueueWell'
  BY <1>1, TailKeeps DEF IInv, Moved
<1> QED BY <1>1, <1>2, FlightIdles DEF IInv, Moved

\* Only the processes move.
StepsAside ==
    /\ UNCHANGED <<asked, prep, cache, canon, checkpoint, journal, mirror, view, faults>>
    /\ UNCHANGED backend

\* Nothing else has changed then.
LEMMA AsideMoves ==
    ASSUME IInv, StepsAside
    PROVE  /\ Moved /\ Served /\ Undisturbed /\ prep' = prep
           /\ Unsettled' = Unsettled /\ Journals' = Journals
           /\ AskedOnes' = AskedOnes /\ Committed' = Committed
<1>1. Served
  BY ClientServed DEF StepsAside
<1>2. Moved
  BY <1>1, ProcsMove DEF StepsAside
<1> QED BY <1>1, <1>2 DEF Moved, StepsAside, Unsettled, Journals, AskedOnes, Committed, backend

\* The invariant is kept when the queue and the processes are.
LEMMA AsideKeepsAll ==
    ASSUME IInv, StepsAside, QueueWell', ProcsWell'
    PROVE  Keeps
BY AsideMoves, QuietKeeps DEF StepsAside

\* The queue stays as it is.
LEMMA QueueSame ==
    ASSUME IInv, Moved, queue' = queue
    PROVE  QueueWell'
BY QueueFrame DEF IInv, Moved

\* The flight moves on to a stage that asks for nothing but an unsettled command.
LEMMA FlightStep ==
    ASSUME IInv, Moved, prep' = prep, queue' = queue, NEW at, NEW kind,
           proc["flight"].at \notin {"idle", "settled", "installed", "retire"},
           FlightIs(at, kind, proc["flight"].work),
           \/ at \in {"lookup", "predecessors", "request", "keep", "kept", "again"}
           \/ at = "answered" /\ proc["flight"].cmd \in Committed'
           \/ at = "reject" /\ kind \in {"rejected", "conflict"},
           proc["flight"].cmd \in Unsettled'
    PROVE  QueueWell' /\ ProcsWell'
<1>1. /\ proc["flight"].cmd \in Commands /\ queue # <<>> /\ ProcWell /\ ProcsWell
  BY InFlight
<1>2. /\ proc'["flight"].at = at /\ proc'["flight"].cmd = proc["flight"].cmd
      /\ proc'["flight"].kind = kind
  BY <1>1, FlightReads
<1>3. Rejection(proc["flight"])'
  BY <1>1, <1>2 DEF Rejection, RejectStages, Unsettled, Journals
<1>4. Sends(proc["flight"])'
  BY <1>1, <1>2 DEF Sends, FlightStages, RejectStages, Unsettled, Journals
<1>5. Recovers(proc["flight"])'
  BY <1>2 DEF Recovers
<1> QED BY <1>1, <1>3, <1>4, <1>5, FlightGoes, QueueSame DEF Moved

\* The head of send keeps the invariant: what it takes up is not settled.
LEMMA SendStartsKeeps ==
    ASSUME IInv, SendStarts
    PROVE  Keeps
<1> DEFINE c == Head(queue).cmd
           known == Head(queue).recovery \/ mirror[c].status = "unknown"
           T == [cmd : Commands, recovery : BOOLEAN]
<1>1. /\ queue # <<>> /\ proc["flight"].at = "idle" /\ StepsAside
  BY DEF SendStarts, StepsAside, stored
<1>2. /\ Moved /\ Served /\ Undisturbed /\ prep' = prep
      /\ Unsettled' = Unsettled /\ Journals' = Journals
      /\ AskedOnes' = AskedOnes /\ Committed' = Committed
  BY <1>1, AsideMoves
<1>3. CASE Finish("flight")
  BY <1>1, <1>2, <1>3, FinishKeeps, AsideKeepsAll
<1>4. CASE /\ proc' = [proc EXCEPT !["flight"] =
                        [Idle EXCEPT !.at = IF known THEN "lookup" ELSE "predecessors",
                                     !.cmd = c, !.recovery = known, !.was = journal[c].state]]
           /\ queue' = queue /\ journal[c].state \notin Terminal \cup {"rollback_pending"}
  <2> PICK x : x = [Idle EXCEPT !.at = IF known THEN "lookup" ELSE "predecessors",
                                !.cmd = c, !.recovery = known, !.was = journal[c].state]
    OBVIOUS
  <2>1. x = [at |-> x.at, cmd |-> x.cmd, recovery |-> x.recovery, was |-> x.was,
             kind |-> x.kind, work |-> x.work]
        /\ x.at \in {"lookup", "predecessors"} /\ x.cmd = c
    <3> HIDE DEF c, known
    <3> QED BY DEF Idle
  <2>2. c \in Commands /\ journal[c].state # "none"
    <3>1. queue \in Seq(T) /\ \A i \in 1 .. Len(queue) : journal[queue[i].cmd].state # "none"
      BY DEF IInv, QueueWell
    <3>2. queue[1] \in T /\ 1 \in 1 .. Len(queue) /\ Head(queue) = queue[1]
      <4> HIDE DEF T
      <4> QED BY <1>1, <3>1
    <3> QED BY <3>1, <3>2
  <2>3. c \in Unsettled /\ c \in Journals
    BY <1>4, <2>2 DEF Terminal, Unsettled, Journals
  <2>4. proc' = [proc EXCEPT !["flight"] = x]
    BY <1>4
  <2>5. proc'["flight"] = x
    BY <2>4 DEF IInv, ProcsWell, ProcWell, Procs
  <2> HIDE DEF c
  <2>6. Rejection(proc["flight"])' /\ Recovers(proc["flight"])'
    BY <2>1, <2>5 DEF Rejection, Recovers, RejectStages
  <2>7. Sends(proc["flight"])'
    BY <1>1, <1>2, <1>4, <2>1, <2>2, <2>3, <2>5 DEF Sends, FlightStages
  <2>8. ProcsWell'
    BY <1>1, <1>2, <2>1, <2>4, <2>6, <2>7, FlightMoves DEF IInv
  <2>9. QueueWell'
    BY <1>2, <1>4, QueueSame
  <2> QED BY <1>1, <2>8, <2>9, AsideKeepsAll
<1> QED BY <1>3, <1>4 DEF SendStarts

\* The lookup of a receipt keeps the invariant.
LEMMA LookupKeeps ==
    ASSUME IInv, Lookup
    PROVE  Keeps
<1>1. proc["flight"].at = "lookup" /\ StepsAside /\ queue' = queue
  BY DEF Lookup, StepsAside, stored, SetProc
<1>2. /\ Moved /\ prep' = prep /\ Unsettled' = Unsettled /\ Journals' = Journals /\ Committed' = Committed
  BY <1>1, AsideMoves
<1>3. proc["flight"].cmd \in Unsettled /\ proc["flight"].cmd \in Commands /\ ProcWell
  BY <1>1, InFlight
<1>4. PICK at : /\ proc' = [proc EXCEPT !["flight"].at = at]
                /\ \/ at = "predecessors"
                   \/ at = "answered" /\ proc["flight"].cmd \in Committed
  BY <1>3 DEF Lookup, SetProc, Current, Committed
<1>5. FlightIs(at, proc["flight"].kind, proc["flight"].work)
  BY <1>3, <1>4, FlightAt
<1>6. QueueWell' /\ ProcsWell'
  BY <1>1, <1>2, <1>3, <1>4, <1>5, FlightStep
<1> QED BY <1>1, <1>6, AsideKeepsAll

\* The check of the predecessors keeps the invariant.
LEMMA CheckPredecessorsKeeps ==
    ASSUME IInv, CheckPredecessors
    PROVE  Keeps
<1>1. proc["flight"].at = "predecessors" /\ StepsAside
  BY DEF CheckPredecessors, StepsAside, stored
<1>2. /\ Moved /\ prep' = prep /\ Unsettled' = Unsettled /\ Journals' = Journals /\ Committed' = Committed
  BY <1>1, AsideMoves
<1>3. /\ proc["flight"].cmd \in Unsettled /\ proc["flight"].cmd \in Commands /\ ProcWell
      /\ queue # <<>>
  BY <1>1, InFlight
<1>4. CASE /\ proc' = [proc EXCEPT !["flight"].at = "reject", !["flight"].kind = "rejected"]
           /\ queue' = queue
  <2>1. FlightIs("reject", "rejected", proc["flight"].work)
    BY <1>3, <1>4, FlightAtKind
  <2>2. QueueWell' /\ ProcsWell'
    BY <1>1, <1>2, <1>3, <1>4, <2>1, FlightStep
  <2> QED BY <1>1, <2>2, AsideKeepsAll
<1>5. CASE Finish("flight")
  <2>1. QueueWell' /\ ProcsWell'
    BY <1>2, <1>3, <1>5, FinishKeeps
  <2> QED BY <1>1, <2>1, AsideKeepsAll
<1>6. CASE SetProc("flight", "request")
  <2>1. proc' = [proc EXCEPT !["flight"].at = "request"] /\ queue' = queue
    BY <1>6 DEF SetProc
  <2>2. FlightIs("request", proc["flight"].kind, proc["flight"].work)
    BY <1>3, <2>1, FlightAt
  <2>3. QueueWell' /\ ProcsWell'
    BY <1>1, <1>2, <1>3, <2>1, <2>2, FlightStep
  <2> QED BY <1>1, <2>3, AsideKeepsAll
<1> QED BY <1>4, <1>5, <1>6 DEF CheckPredecessors

\* A request and its answer keep the invariant.
LEMMA RequestKeeps ==
    ASSUME IInv, Request
    PROVE  Keeps
<1> DEFINE c == proc["flight"].cmd
           verdict == Verdict(c, RequestBase(c))
<1>1. /\ proc["flight"].at = "request" /\ queue' = queue
      /\ UNCHANGED <<asked, prep, cache, canon, checkpoint, journal, mirror, view, faults, foreign, late>>
  BY DEF Request, stored, SetProc
<1>2. c \in Unsettled /\ c \in Commands /\ c \in AskedOnes /\ ProcWell
  BY <1>1, InFlight
<1>3. Unsettled' = Unsettled /\ Journals' = Journals
  BY <1>1 DEF Unsettled, Journals
<1>4. CASE verdict = "applied" /\ Execute(c) /\ SetProc("flight", "answered")
  <2>1. Served /\ c \in Committed'
    BY <1>1, <1>2, <1>4, ExecuteServes
  <2>2. Moved
    BY <1>1, <2>1, ProcsMove
  <2>3. FlightIs("answered", proc["flight"].kind, proc["flight"].work)
    BY <1>2, <1>4, FlightAt DEF SetProc
  <2>4. QueueWell' /\ ProcsWell'
    BY <1>1, <1>2, <1>3, <2>1, <2>2, <2>3, FlightStep
  <2> QED BY <1>1, <2>1, <2>2, <2>4, QuietKeeps
<1>5. CASE verdict = "known" /\ SetProc("flight", "answered") /\ UNCHANGED <<server, receipts>>
  <2>1. StepsAside
    BY <1>1, <1>5 DEF StepsAside, backend
  <2>2. Moved /\ Committed' = Committed
    BY <2>1, AsideMoves
  <2>3. FlightIs("answered", proc["flight"].kind, proc["flight"].work)
    BY <1>2, <1>5, FlightAt DEF SetProc
  <2>4. c \in Committed
    <3>1. receipts[c].rev # 0
      <4>1. CASE receipts[c].rev = 0 /\ IsUndo(c)
        BY <1>5, <4>1 DEF Verdict
      <4>2. CASE receipts[c].rev = 0 /\ ~IsUndo(c)
        BY <1>5, <4>2 DEF Verdict
      <4> QED BY <4>1, <4>2
    <3> QED BY <1>2, <3>1 DEF Committed
  <2>5. QueueWell' /\ ProcsWell'
    BY <1>1, <1>2, <1>3, <2>2, <2>3, <2>4, FlightStep
  <2> QED BY <2>1, <2>5, AsideKeepsAll
<1>6. CASE /\ proc' = [proc EXCEPT !["flight"].at = "reject",
                    !["flight"].kind = IF verdict = "conflict" THEN "conflict" ELSE "rejected"]
           /\ UNCHANGED <<server, receipts>>
  <2>1. StepsAside
    BY <1>1, <1>6 DEF StepsAside, backend
  <2>2. Moved
    BY <2>1, AsideMoves
  <2>3. PICK k : k = IF verdict = "conflict" THEN "conflict" ELSE "rejected"
    OBVIOUS
  <2>4. proc' = [proc EXCEPT !["flight"].at = "reject", !["flight"].kind = k] /\ k \in {"rejected", "conflict"}
    BY <1>6, <2>3
  <2>5. FlightIs("reject", k, proc["flight"].work)
    BY <1>2, <2>4, FlightAtKind
  <2>6. QueueWell' /\ ProcsWell'
    BY <1>1, <1>2, <1>3, <2>2, <2>4, <2>5, FlightStep
  <2> QED BY <2>1, <2>6, AsideKeepsAll
<1> QED BY <1>4, <1>5, <1>6 DEF Request, Current

\* One mirror is restated, if it is still there.
RestatesOne(c, status) ==
    mirror' = [mirror EXCEPT ![c] =
                IF @ = NoMirror THEN @ ELSE [@ EXCEPT !.status = status, !.root = 0]]

\* One mirror gets another status.
LEMMA RestatesOneMoves ==
    ASSUME MirrorsWell, NEW c \in Commands, NEW status \in MirrorStatuses \ {"absent"},
           RestatesOne(c, status)
    PROVE  mirror' = [d \in Commands |-> mirror'[d]] /\ \A d \in Commands : MirrorMove(d)
<1>1. mirror \in [Commands -> Mirror(AskedOnes)]
  BY DEF MirrorsWell
<1>2. mirror' = [d \in Commands |-> mirror'[d]] /\ \A d \in Commands \ {c} : mirror'[d] = mirror[d]
  BY <1>1 DEF RestatesOne
<1>3. 0 \in 0 .. MaxCommands
  BY InteractionsAssumption
<1>4. mirror'[c] = IF mirror[c] = NoMirror THEN mirror[c]
                   ELSE [mirror[c] EXCEPT !.status = status, !.root = 0]
  BY <1>1 DEF RestatesOne
<1>5. MirrorMove(c)
  <2>1. CASE mirror[c] = NoMirror
    BY <1>4, <2>1 DEF MirrorMove
  <2>2. CASE mirror[c] # NoMirror
    BY <1>3, <1>4, <2>2 DEF MirrorMove, Restated
  <2> QED BY <2>1, <2>2
<1> QED BY <1>2, <1>5 DEF MirrorMove

\* A lost answer keeps the invariant.
LEMMA SendFailsKeeps ==
    ASSUME IInv, SendFails
    PROVE  Keeps
<1> DEFINE f == proc["flight"]
           c == proc["flight"].cmd
           status == IF f.was = "projection_pending" THEN "projection_pending" ELSE "unknown"
           copy == [cmd |-> c, base |-> RequestBase(c)]
<1>1. /\ f.at \in {"lookup", "request", "again"}
      /\ faults' = faults \/ Fault
      /\ late' = late \cup {copy} \/ late' = late
      /\ RestatesOne(c, status)
      /\ proc' = [proc EXCEPT !["flight"] = Idle]
      /\ queue' = Tail(queue) \/ queue' = Append(Tail(queue), [cmd |-> c, recovery |-> TRUE])
      /\ UNCHANGED <<server, receipts, foreign, cache, canon, checkpoint, journal, view, asked, prep>>
  BY DEF SendFails, RestatesOne
<1>2. /\ c \in Commands /\ c \in AskedOnes /\ queue # <<>> /\ c \in Journals
  BY <1>1, InFlight
<1>3. ServerWell'
  <2>1. \A x \in late' : x.cmd \in AskedOnes
    <3>1. copy.cmd = c
      OBVIOUS
    <3> HIDE DEF copy
    <3> QED BY <1>1, <1>2, <3>1 DEF IInv, ServerWell
  <2> QED BY <1>1, <2>1 DEF IInv, ServerWell, AskedOnes, Committed, Names
<1>4. Served
  BY <1>1, <1>3, RevsTyped DEF IInv, Served, Committed
<1>5. mirror' = [d \in Commands |-> mirror'[d]] /\ \A d \in Commands : MirrorMove(d)
  <2>1. status \in MirrorStatuses \ {"absent"}
    BY DEF MirrorStatuses
  <2> HIDE DEF status
  <2> QED BY <1>1, <1>2, <2>1, RestatesOneMoves DEF IInv
<1>6. Moved
  BY <1>1, <1>4, <1>5, MirrorsMove
<1>7. QueueWell'
  BY <1>1, <1>2, <1>6, TailKeeps, TailThenEnqueue DEF IInv, Moved
<1>8. ProcsWell'
  BY <1>1, <1>2, <1>6, FlightIdles DEF IInv, Moved
<1> QED BY <1>1, <1>4, <1>6, <1>7, <1>8, QuietKeeps

\* A request that is not allowed keeps the invariant.
LEMMA DeniedKeeps ==
    ASSUME IInv, Denied
    PROVE  Keeps
<1> DEFINE c == proc["flight"].cmd
<1>1. /\ proc["flight"].at = "request"
      /\ faults' = faults \/ Fault
      /\ RestatesOne(c, "pending") /\ Finish("flight")
      /\ UNCHANGED <<cache, canon, checkpoint, journal, view, asked, prep>> /\ UNCHANGED backend
  BY DEF Denied, RestatesOne, Current
<1>2. c \in Commands /\ queue # <<>>
  BY <1>1, InFlight
<1>3. Served
  BY <1>1, ClientServed
<1>4. mirror' = [d \in Commands |-> mirror'[d]] /\ \A d \in Commands : MirrorMove(d)
  <2>1. "pending" \in MirrorStatuses \ {"absent"}
    BY DEF MirrorStatuses
  <2> QED BY <1>1, <1>2, <2>1, RestatesOneMoves DEF IInv
<1>5. Moved
  BY <1>1, <1>3, <1>4, MirrorsMove
<1>6. QueueWell' /\ ProcsWell'
  BY <1>1, <1>2, <1>5, FinishKeeps
<1> QED BY <1>1, <1>3, <1>5, <1>6, QuietKeeps

\* Journals and receipts are within their types.
LEMMA ChangesKnown ==
    ASSUME IInv
    PROVE  /\ AskedOnes \in SUBSET Commands /\ Committed \subseteq AskedOnes
           /\ Journaled(AskedOnes) /\ Receipted(AskedOnes) /\ PredsBelow
<1>1. AskedOnes \in SUBSET Commands /\ Committed \subseteq AskedOnes
  BY DEF AskedOnes, IInv, ServerWell
<1>2. Changes(Committed) \subseteq Changes(AskedOnes)
  BY <1>1, Grows
<1>3. Journaled(AskedOnes)
  BY DEF IInv, JournalsWell, Journal, Journaled
<1>4. Receipted(AskedOnes)
  BY <1>2 DEF IInv, ServerWell, Receipt, Receipted
<1> QED BY <1>1, <1>3, <1>4 DEF IInv, JournalsWell, PredsBelow

\* The computation of a settlement keeps the invariant.
LEMMA ReadLaterKeeps ==
    ASSUME IInv, ReadLater
    PROVE  Keeps
<1> DEFINE c == proc["flight"].cmd
<1>1. /\ proc["flight"].at = "answered" /\ StepsAside /\ queue' = queue
      /\ proc' = [proc EXCEPT !["flight"].at = "settle", !["flight"].work = Settlement(c)]
  BY DEF ReadLater, StepsAside, stored, Current
<1>2. /\ c \in Commands /\ c \in Unsettled /\ c \in Journals /\ queue # <<>>
      /\ ProcWell /\ ProcsWell
  BY <1>1, InFlight
<1>3. c \in Committed
  BY <1>1 DEF IInv, ProcsWell, Sends
<1>4. /\ Moved /\ Undisturbed /\ prep' = prep /\ Unsettled' = Unsettled /\ Journals' = Journals
      /\ Committed' = Committed /\ AskedOnes' = AskedOnes
  BY <1>1, AsideMoves
<1>5. PICK w : w = Settlement(c)
  OBVIOUS
<1>6. w \in Changes(AskedOnes)
  BY <1>2, <1>5, ChangesKnown, SettlementTyped
<1>7. FlightIs("settle", proc["flight"].kind, w)
  BY <1>1, <1>2, <1>5, FlightAtWork
<1>8. proc'["flight"].at = "settle" /\ proc'["flight"].cmd = c /\ proc'["flight"].work = w
  BY <1>2, <1>7, FlightReads
<1>9. Rejection(proc["flight"])' /\ Recovers(proc["flight"])'
  BY <1>8 DEF Rejection, Recovers, RejectStages
<1>10. Sends(proc["flight"])'
  BY <1>1, <1>2, <1>3, <1>4, <1>6, <1>8 DEF Sends, FlightStages
<1>11. ProcsWell'
  BY <1>2, <1>4, <1>7, <1>9, <1>10, FlightGoes
<1>12. QueueWell'
  BY <1>1, <1>4, QueueSame
<1> QED BY <1>1, <1>11, <1>12, AsideKeepsAll

\* A journal that the server confirmed.
ConfirmedJournal(c) ==
    [journal[c] EXCEPT !.state = "confirmed", !.change = receipts[c].change,
                       !.base = receipts[c].rev - 1, !.rev = receipts[c].rev]

\* An unsettled journal is confirmed, at the revision of its receipt.
LEMMA ConfirmMoves ==
    ASSUME IInv, NEW c \in Unsettled, c \in Committed, UNCHANGED <<asked, receipts>>,
           journal'[c] = ConfirmedJournal(c)
    PROVE  JournalMove(c) /\ journal'[c].state = "confirmed"
<1>1. c \in Commands /\ journal[c].state \notin {"none", "confirmed"}
  BY DEF Unsettled
<1>2. JournalWell(c) /\ c \in AskedOnes
  BY <1>1, JournalIs DEF IInv, JournalWell
<1>3. journal[c] = [state |-> journal[c].state, change |-> journal[c].change, base |-> journal[c].base,
                    preds |-> journal[c].preds, rev |-> journal[c].rev]
      /\ journal[c].preds \in SUBSET Commands
  BY <1>2 DEF JournalWell, Journal
<1>4. journal'[c] = [state |-> "confirmed", change |-> receipts[c].change, base |-> receipts[c].rev - 1,
                     preds |-> journal[c].preds, rev |-> receipts[c].rev]
  BY <1>3 DEF ConfirmedJournal
<1>5. receipts[c].change \in Changes(AskedOnes) /\ receipts[c].rev \in Nat /\ Names(c, receipts[c].change)
  BY <1>1, ChangesKnown DEF Receipted, IInv, ServerWell, Receipt
<1>6. receipts[c].rev - 1 \in Int /\ "confirmed" \in JournalStates
  BY <1>5 DEF JournalStates, Terminal
<1>7. journal'[c] \in Journal(AskedOnes)
  BY <1>3, <1>4, <1>5, <1>6 DEF Journal
<1>8. AskedOnes' = AskedOnes /\ Committed' = Committed
  BY DEF AskedOnes, Committed
<1>9. journal'[c].state = "confirmed" /\ journal'[c].preds = journal[c].preds
      /\ journal'[c].change = receipts[c].change /\ journal'[c].rev = receipts[c].rev
  BY <1>4
<1>10. JournalWell(c)'
  BY <1>2, <1>5, <1>7, <1>8, <1>9 DEF JournalWell, Names
<1> QED BY <1>1, <1>6, <1>9, <1>10 DEF JournalMove

\* The record of a journaled interaction is well formed.
LEMMA RecordIs ==
    ASSUME IInv, NEW c \in Journals
    PROVE  RecordWell(c, journal[c])
BY DEF IInv, JournalsWell, Journals, RecordWell

\* No send has confirmed it, unless a rejection was undercut.
Uncontested(c) == NothingUndercut => journal[c].state # "confirmed"

\* A record, as it is saved with another state.
Saved(r, s) == [r EXCEPT !.state = s]

\* A record that was read is written back, with another state.
LEMMA StateMoves ==
    ASSUME IInv, NEW c \in Journals, UNCHANGED <<asked, receipts>>, NEW r, RecordWell(c, r),
           Uncontested(c), NEW s \in JournalStates \ {"none", "confirmed"},
           journal'[c] = Saved(r, s)
    PROVE  JournalMove(c) /\ journal'[c].state = s
<1>1. c \in Commands /\ journal[c].state # "none"
  BY DEF Journals
<1>2. r \in Journal(AskedOnes) /\ c \in AskedOnes /\ r.preds \subseteq 1 .. c - 1 /\ Names(c, r.change)
  BY DEF RecordWell
<1>3. journal'[c] \in Journal(AskedOnes)
  BY <1>2 DEF Journal, Saved
<1>4. journal'[c].state = s /\ journal'[c].preds = r.preds /\ journal'[c].change = r.change
  BY <1>2 DEF Journal, Saved
<1>5. AskedOnes' = AskedOnes
  BY DEF AskedOnes
<1>6. JournalWell(c)'
  BY <1>2, <1>3, <1>4, <1>5 DEF JournalWell, Names
<1> QED BY <1>1, <1>4, <1>6 DEF JournalMove, Uncontested

\* The journal of a confirmation without a projection keeps the invariant.
LEMMA KeepConfirmedKeeps ==
    ASSUME IInv, KeepConfirmed
    PROVE  Keeps
<1> DEFINE c == proc["flight"].cmd
<1>1. /\ proc["flight"].at = "keep" /\ queue' = queue
      /\ journal' = [journal EXCEPT ![c].state = "projection_pending"]
      /\ proc' = [proc EXCEPT !["flight"].at = "kept"]
      /\ UNCHANGED <<asked, prep, cache, canon, checkpoint, mirror, view, faults>> /\ UNCHANGED backend
      /\ receipts' = receipts
  BY DEF KeepConfirmed, Current, SetProc, backend
<1>2. c \in Commands /\ c \in Unsettled /\ ProcWell
  BY <1>1, InFlight
<1>3. journal \in [Commands -> Journal(AskedOnes)]
  BY DEF IInv, JournalsWell
<1>4. /\ journal' = [d \in Commands |-> journal'[d]]
      /\ journal'[c] = Saved(journal[c], "projection_pending")
      /\ \A d \in Commands \ {c} : journal'[d] = journal[d]
  BY <1>1, <1>2, <1>3 DEF Saved
<1>5. Served
  BY <1>1, ClientServed
<1>6. JournalMove(c) /\ journal'[c].state = "projection_pending"
  <2>1. "projection_pending" \in JournalStates \ {"none", "confirmed"}
    BY DEF JournalStates, Open
  <2>2. c \in Journals /\ RecordWell(c, journal[c]) /\ Uncontested(c)
    BY <1>2, RecordIs DEF Unsettled, Journals, Uncontested
  <2> QED BY <1>1, <1>4, <2>1, <2>2, StateMoves
<1>7. \A d \in Commands : JournalMove(d)
  BY <1>1, <1>4, <1>5, <1>6, SameJournal DEF IInv
<1>8. mirror' = [d \in Commands |-> mirror'[d]] /\ \A d \in Commands : MirrorMove(d)
  BY <1>1 DEF IInv, MirrorsWell, MirrorMove
<1>9. Moved
  BY <1>1, <1>4, <1>5, <1>7, <1>8, MovesKeep
<1>10. c \in Unsettled'
  BY <1>2, <1>6 DEF Unsettled
<1>11. FlightIs("kept", proc["flight"].kind, proc["flight"].work)
  BY <1>1, <1>2, FlightAt
<1>12. QueueWell' /\ ProcsWell'
  BY <1>1, <1>9, <1>10, <1>11, FlightStep
<1>13. CacheWell' /\ Steady /\ Backs
  BY <1>1, <1>5, <1>7, <1>9, CacheStays, BackedStays
<1> QED BY <1>9, <1>12, <1>13 DEF Moved, IInv, Keeps

\* The mirror of a confirmation without a projection keeps the invariant.
LEMMA KeptKeeps ==
    ASSUME IInv, Kept
    PROVE  Keeps
<1> DEFINE c == proc["flight"].cmd
<1>1. /\ proc["flight"].at = "kept" /\ RestatesOne(c, "projection_pending")
      /\ UNCHANGED <<cache, canon, checkpoint, journal, view, asked, prep, faults>> /\ UNCHANGED backend
      /\ \/ /\ proc' = [proc EXCEPT !["flight"].at = "again", !["flight"].kind = "snapshot"]
            /\ queue' = queue
         \/ Finish("flight")
  BY DEF Kept, RestatesOne, Current
<1>2. /\ c \in Commands /\ c \in Unsettled /\ c \in Journals /\ queue # <<>>
      /\ ProcWell /\ ProcsWell
  BY <1>1, InFlight
<1>3. Served
  BY <1>1, ClientServed
<1>4. mirror' = [d \in Commands |-> mirror'[d]] /\ \A d \in Commands : MirrorMove(d)
  <2>1. "projection_pending" \in MirrorStatuses \ {"absent"}
    BY DEF MirrorStatuses
  <2> QED BY <1>1, <1>2, <2>1, RestatesOneMoves DEF IInv
<1>5. Moved
  BY <1>1, <1>3, <1>4, MirrorsMove
<1>6. QueueWell' /\ ProcsWell'
  <2>1. CASE Finish("flight")
    BY <1>1, <1>2, <1>5, <2>1, FinishKeeps
  <2>2. CASE /\ proc' = [proc EXCEPT !["flight"].at = "again", !["flight"].kind = "snapshot"]
             /\ queue' = queue
    <3>1. FlightIs("again", "snapshot", proc["flight"].work)
      BY <1>2, <2>2, FlightAtKind
    <3>2. c \in Unsettled'
      BY <1>1, <1>2 DEF Unsettled
    <3> QED BY <1>1, <1>5, <2>2, <3>1, <3>2, FlightStep
  <2> QED BY <1>1, <2>1, <2>2
<1> QED BY <1>1, <1>3, <1>5, <1>6, QuietKeeps

\* One row of the cache is patched.
LEMMA CachePatched ==
    ASSUME IInv, NEW k \in Keys, NEW x \in Changes(AskedOnes),
           cache' = [cache EXCEPT ![k] = PatchRow(cache[k], x)]
    PROVE  cache' \in RowsOf(AskedOnes)
<1>1. cache \in [Keys -> FullRows(AskedOnes)]
  BY DEF IInv, CacheWell, RowsOf
<1>2. AskedOnes \in SUBSET Commands
  BY DEF AskedOnes
<1>3. PatchRow(cache[k], x) \in FullRows(AskedOnes)
  BY <1>1, <1>2, PatchFull
<1> QED BY <1>1, <1>3 DEF RowsOf

\* The cache gets whole rows.
LEMMA CacheWritten ==
    ASSUME IInv, Moved, Served, cache' \in RowsOf(AskedOnes), UNCHANGED <<canon, checkpoint>>,
           view' = view \/ view' = cache'
    PROVE  CacheWell'
<1>1. canon.rev \in Nat /\ checkpoint \in Nat
  BY RevsTyped DEF IInv, CacheWell
<1> QED BY <1>1 DEF IInv, CacheWell, Moved, Served

\* The mirrors stay as they are.
LEMMA MirrorsStay ==
    ASSUME IInv, mirror' = mirror
    PROVE  mirror' = [d \in Commands |-> mirror'[d]] /\ \A d \in Commands : MirrorMove(d)
BY DEF IInv, MirrorsWell, MirrorMove

\* The settlement keeps the invariant, whether its transaction succeeds or not.
LEMMA SettleKeeps ==
    ASSUME IInv, Settle
    PROVE  Keeps
<1> DEFINE c == proc["flight"].cmd
           work == proc["flight"].work
           row == cache[RowOf(c)]
<1>1. /\ proc["flight"].at = "settle" /\ queue' = queue
      /\ faults' = faults \/ Fault
      /\ UNCHANGED <<asked, prep, canon, checkpoint, mirror, view>> /\ UNCHANGED backend
      /\ receipts' = receipts
  BY DEF Settle, SetProc, backend
<1>2. /\ c \in Commands /\ c \in Unsettled /\ c \in AskedOnes /\ queue # <<>>
      /\ ProcWell /\ ProcsWell
  BY <1>1, InFlight
<1>3. c \in Committed /\ work \in Changes(AskedOnes)
  BY <1>1 DEF IInv, ProcsWell, Sends
<1>4. Served
  BY <1>1, ClientServed
<1>5. mirror' = [d \in Commands |-> mirror'[d]] /\ \A d \in Commands : MirrorMove(d)
  BY <1>1, MirrorsStay
<1>6. CASE /\ cache' = [cache EXCEPT ![RowOf(c)] = PatchRow(row, work)]
           /\ journal' = [journal EXCEPT ![c].state = "confirmed",
                    ![c].change = receipts[c].change, ![c].base = receipts[c].rev - 1,
                    ![c].rev = receipts[c].rev]
           /\ SetProc("flight", "settled")
  <2>1. journal \in [Commands -> Journal(AskedOnes)]
    BY DEF IInv, JournalsWell
  <2>2. /\ journal' = [d \in Commands |-> journal'[d]]
        /\ journal'[c] = ConfirmedJournal(c)
        /\ \A d \in Commands \ {c} : journal'[d] = journal[d]
    BY <1>2, <1>6, <2>1 DEF ConfirmedJournal
  <2>3. JournalMove(c) /\ journal'[c].state = "confirmed"
    BY <1>1, <1>2, <1>3, <2>2, ConfirmMoves
  <2>4. \A d \in Commands : JournalMove(d)
    BY <1>1, <1>4, <2>2, <2>3, SameJournal DEF IInv
  <2>5. Moved
    BY <1>1, <1>4, <1>5, <2>2, <2>4, MovesKeep
  <2>6. RowOf(c) \in Keys
    BY <1>2 DEF RowOf, IInv, AskedWell, Asks
  <2>7. cache' \in RowsOf(AskedOnes)
    BY <1>3, <1>6, <2>6, CachePatched
  <2>8. CacheWell' /\ Steady /\ Backs
    BY <1>1, <1>4, <2>4, <2>5, <2>7, CacheWritten, BackedStays
  <2>9. FlightIs("settled", proc["flight"].kind, work)
    BY <1>2, <1>6, FlightAt DEF SetProc
  <2>10. proc'["flight"].at = "settled" /\ proc'["flight"].cmd = c
    BY <1>2, <2>9, FlightReads
  <2>11. Rejection(proc["flight"])' /\ Recovers(proc["flight"])' /\ Sends(proc["flight"])'
    BY <1>1, <1>2, <2>3, <2>10 DEF Rejection, Recovers, Sends, RejectStages, FlightStages, Journals
  <2>12. ProcsWell' /\ QueueWell'
    BY <1>1, <1>2, <2>5, <2>9, <2>11, FlightGoes, QueueSame DEF Moved
  <2> QED BY <2>5, <2>8, <2>12 DEF Moved, IInv, Keeps
<1>7. CASE SetProc("flight", "keep") /\ UNCHANGED <<cache, journal>>
  <2>1. Moved
    BY <1>1, <1>4, <1>7, ProcsMove
  <2>2. FlightIs("keep", proc["flight"].kind, work)
    BY <1>2, <1>7, FlightAt DEF SetProc
  <2>3. c \in Unsettled'
    BY <1>2, <1>7 DEF Unsettled
  <2>4. QueueWell' /\ ProcsWell'
    BY <1>1, <2>1, <2>2, <2>3, FlightStep
  <2> QED BY <1>1, <1>4, <1>7, <2>1, <2>4, QuietKeeps
<1> QED BY <1>6, <1>7 DEF Settle, Current

\* The mirror of what is journaled goes.
LEMMA RetiresOne ==
    ASSUME IInv, NEW c \in Commands, mirror' = [mirror EXCEPT ![c] = NoMirror],
           journal'[c].state # "none"
    PROVE  mirror' = [d \in Commands |-> mirror'[d]] /\ \A d \in Commands : MirrorMove(d)
<1>1. mirror \in [Commands -> Mirror(AskedOnes)]
  BY DEF IInv, MirrorsWell
<1> QED BY <1>1 DEF MirrorMove

\* The checkpoint goes to the revision next to it, which the journal confirms.
LEMMA AdvanceBacked ==
    ASSUME IInv, NEW c \in Commands, canon' = canon, journal' = journal, checkpoint' = Advanced(c)
    PROVE  Steady /\ Backs /\ checkpoint' \in Nat /\ checkpoint' <= server.rev
<1>1. checkpoint \in Nat /\ checkpoint <= server.rev /\ server.rev \in Nat
  BY RevsTyped DEF IInv, CacheWell
<1>2. CASE journal[c].state = "confirmed" /\ journal[c].base = checkpoint
           /\ journal[c].rev = journal[c].base + 1
  <2>1. checkpoint' = journal[c].rev /\ journal[c].rev = checkpoint + 1
    BY <1>2 DEF Advanced
  <2>2. journal[c].rev <= server.rev
    BY <1>2 DEF IInv, JournalsWell, ServerWell
  <2>3. \A r \in 1 .. checkpoint' : r \in 1 .. checkpoint \/ r = journal[c].rev
    BY <1>1, <2>1
  <2>4. CheckpointIsBacked => CheckpointIsBacked'
    BY <1>2, <2>3 DEF CheckpointIsBacked
  <2> QED BY <1>1, <2>1, <2>2, <2>4 DEF Steady, Backs
<1>3. CASE checkpoint' = checkpoint
  BY <1>1, <1>3, Calm
<1> QED BY <1>2, <1>3 DEF Advanced

\* The retirement of a settled interaction keeps the invariant.
LEMMA SettledKeeps ==
    ASSUME IInv, Settled
    PROVE  Keeps
<1> DEFINE c == proc["flight"].cmd
<1>1. /\ proc["flight"].at = "settled" /\ view' = cache /\ checkpoint' = Advanced(c)
      /\ mirror' = [mirror EXCEPT ![c] = NoMirror] /\ Finish("flight")
      /\ UNCHANGED <<cache, canon, journal, asked, prep, faults>> /\ UNCHANGED backend
  BY DEF Settled, Current
<1>2. c \in Commands /\ journal[c].state # "none" /\ queue # <<>>
  BY <1>1 DEF IInv, ProcsWell, Sends, Journals
<1>3. Served
  BY <1>1, ClientServed
<1>4. mirror' = [d \in Commands |-> mirror'[d]] /\ \A d \in Commands : MirrorMove(d)
  BY <1>1, <1>2, RetiresOne
<1>5. Moved
  BY <1>1, <1>3, <1>4, MirrorsMove
<1>6. Steady /\ Backs /\ checkpoint' \in Nat /\ checkpoint' <= server.rev
  BY <1>1, <1>2, AdvanceBacked
<1>7. CacheWell'
  <2>1. canon.rev \in Nat /\ server' = server
    BY <1>1, RevsTyped DEF IInv, backend
  <2> QED BY <1>1, <1>5, <1>6, <2>1 DEF IInv, CacheWell, Moved
<1>8. QueueWell' /\ ProcsWell'
  BY <1>1, <1>2, <1>5, FinishKeeps
<1> QED BY <1>5, <1>6, <1>7, <1>8 DEF Moved, IInv, Keeps

\* The reads of a recovery of the projection keep the invariant: the journals ...
LEMMA SampleKeeps ==
    ASSUME IInv, Sample
    PROVE  Keeps
<1> DEFINE c == proc["flight"].cmd
<1> PICK w : w = [local |-> cache, reserved |-> Mirrored, records |-> OpenJournals \cup {c}]
  OBVIOUS
<1>1. /\ proc["flight"].at = "again" /\ StepsAside /\ queue' = queue
      /\ proc' = [proc EXCEPT !["flight"].at = "receipts", !["flight"].work = w]
  BY DEF Sample, StepsAside, stored, Current
<1>2. /\ c \in Commands /\ c \in Unsettled /\ c \in Journals /\ queue # <<>>
      /\ ProcWell /\ ProcsWell
  BY <1>1, InFlight
<1>3. /\ Moved /\ Undisturbed /\ prep' = prep /\ Unsettled' = Unsettled /\ Journals' = Journals
  BY <1>1, AsideMoves
<1>4. FlightIs("receipts", proc["flight"].kind, w)
  BY <1>1, <1>2, FlightAtWork
<1>5. proc'["flight"].at = "receipts" /\ proc'["flight"].cmd = c /\ proc'["flight"].work = w
  BY <1>2, <1>4, FlightReads
<1>6. w.records \subseteq Unsettled
  BY <1>2 DEF OpenJournals, Open, Unsettled
<1>7. Rejection(proc["flight"])' /\ Recovers(proc["flight"])' /\ Sends(proc["flight"])'
  <2>1. Rejection(proc["flight"])'
    BY <1>5 DEF Rejection, RejectStages
  <2>2. Recovers(proc["flight"])'
    BY <1>3, <1>5, <1>6 DEF Recovers
  <2>3. Sends(proc["flight"])'
    BY <1>1, <1>2, <1>3, <1>5 DEF Sends, FlightStages
  <2> QED BY <2>1, <2>2, <2>3
<1>8. ProcsWell' /\ QueueWell'
  BY <1>1, <1>2, <1>3, <1>4, <1>7, FlightGoes, QueueSame
<1> QED BY <1>1, <1>8, AsideKeepsAll

\* ... the receipts ...
LEMMA ReadReceiptsKeeps ==
    ASSUME IInv, ReadReceipts
    PROVE  Keeps
<1> DEFINE c == proc["flight"].cmd
           work == proc["flight"].work
<1> PICK w : w = [local |-> work.local, reserved |-> work.reserved, records |-> work.records,
                  found |-> {d \in work.records : receipts[d].rev # 0}]
  OBVIOUS
<1>1. /\ proc["flight"].at = "receipts" /\ StepsAside /\ queue' = queue
      /\ proc' = [proc EXCEPT !["flight"].at = "remote", !["flight"].work = w]
  BY DEF ReadReceipts, StepsAside, stored
<1>2. /\ c \in Commands /\ c \in Unsettled /\ c \in Journals /\ queue # <<>>
      /\ ProcWell /\ ProcsWell
  BY <1>1, InFlight
<1>3. /\ Moved /\ Undisturbed /\ prep' = prep /\ Unsettled' = Unsettled /\ Journals' = Journals /\ Committed' = Committed
  BY <1>1, AsideMoves
<1>4. FlightIs("remote", proc["flight"].kind, w)
  BY <1>1, <1>2, FlightAtWork
<1>5. proc'["flight"].at = "remote" /\ proc'["flight"].cmd = c /\ proc'["flight"].work = w
  BY <1>2, <1>4, FlightReads
<1>6. work.records \subseteq Unsettled /\ Unsettled \subseteq Commands
  BY <1>1 DEF IInv, ProcsWell, Recovers, Unsettled
<1>7. w.records \subseteq Unsettled /\ w.found \subseteq w.records \cap Committed
  BY <1>6 DEF Committed
<1>10. w.records \subseteq Unsettled' /\ w.found \subseteq w.records \cap Committed'
  BY <1>3, <1>7
<1>11. Recovers(proc["flight"])'
  <2> HIDE DEF work
  <2> QED BY <1>5, <1>10 DEF Recovers
<1>12. Rejection(proc["flight"])'
  BY <1>5 DEF Rejection, RejectStages
<1>13. Sends(proc["flight"])'
  BY <1>1, <1>2, <1>3, <1>5 DEF Sends, FlightStages
<1>9. ProcsWell' /\ QueueWell'
  BY <1>1, <1>2, <1>3, <1>4, <1>11, <1>12, <1>13, FlightGoes, QueueSame
<1> QED BY <1>1, <1>9, AsideKeepsAll

\* ... and the snapshot.
LEMMA ReadRemoteKeeps ==
    ASSUME IInv, ReadRemote
    PROVE  Keeps
<1> DEFINE c == proc["flight"].cmd
           work == proc["flight"].work
<1> PICK w : w = [local |-> work.local, reserved |-> work.reserved, records |-> work.records,
                  found |-> work.found, remote |-> server]
  OBVIOUS
<1>1. /\ proc["flight"].at = "remote" /\ StepsAside /\ queue' = queue
      /\ proc' = [proc EXCEPT !["flight"].at = "install", !["flight"].work = w]
  BY DEF ReadRemote, StepsAside, stored
<1>2. /\ c \in Commands /\ c \in Unsettled /\ c \in Journals /\ queue # <<>>
      /\ ProcWell /\ ProcsWell
  BY <1>1, InFlight
<1>3. /\ Moved /\ Undisturbed /\ prep' = prep /\ Unsettled' = Unsettled /\ Journals' = Journals /\ Committed' = Committed
      /\ AskedOnes' = AskedOnes /\ server' = server
  BY <1>1, AsideMoves DEF StepsAside, backend
<1>4. FlightIs("install", proc["flight"].kind, w)
  BY <1>1, <1>2, FlightAtWork
<1>5. proc'["flight"].at = "install" /\ proc'["flight"].cmd = c /\ proc'["flight"].work = w
  BY <1>2, <1>4, FlightReads
<1>6. work.records \subseteq Unsettled /\ work.found \subseteq work.records \cap Committed
  BY <1>1 DEF IInv, ProcsWell, Recovers
<1>7. w.records = work.records /\ w.found = work.found /\ w.remote = server
  OBVIOUS
<1>8. server \in Snapshot(AskedOnes) /\ server.rev <= server.rev
  <2>1. server \in Snapshot(Committed) /\ server.rev \in Nat
    BY RevsTyped DEF IInv, ServerWell
  <2>2. Committed \subseteq AskedOnes
    BY ChangesKnown
  <2>3. Snapshot(Committed) \subseteq Snapshot(AskedOnes)
    BY <2>2, SnapshotGrows
  <2> QED BY <2>1, <2>3
<1>9. Rejection(proc["flight"])'
  BY <1>5 DEF Rejection, RejectStages
<1>10. Recovers(proc["flight"])'
  BY <1>3, <1>5, <1>6, <1>7, <1>8 DEF Recovers
<1>11. Sends(proc["flight"])'
  BY <1>1, <1>2, <1>3, <1>5 DEF Sends, FlightStages
<1>12. ProcsWell' /\ QueueWell'
  BY <1>1, <1>2, <1>3, <1>4, <1>9, <1>10, <1>11, FlightGoes, QueueSame
<1> QED BY <1>1, <1>12, AsideKeepsAll

\* An unsettled journal gets another change, which names the same fields.
LEMMA ChangeMoves ==
    ASSUME IInv, NEW c \in Unsettled, UNCHANGED <<asked, receipts>>, NEW x \in Changes(AskedOnes),
           DOMAIN x.before = DOMAIN journal[c].change.before,
           journal'[c] = [journal[c] EXCEPT !.change = x]
    PROVE  JournalMove(c) /\ journal'[c].state = journal[c].state
<1>1. c \in Commands /\ journal[c].state \notin {"none", "confirmed"}
  BY DEF Unsettled
<1>2. JournalWell(c) /\ c \in AskedOnes
  BY <1>1, JournalIs DEF IInv, JournalWell
<1>3. journal[c] \in Journal(AskedOnes)
  BY <1>2 DEF JournalWell
<1>4. journal'[c] \in Journal(AskedOnes)
  BY <1>3 DEF Journal
<1>5. journal'[c].state = journal[c].state /\ journal'[c].preds = journal[c].preds
      /\ journal'[c].change = x
  BY <1>3 DEF Journal
<1>6. AskedOnes' = AskedOnes
  BY DEF AskedOnes
<1>7. JournalWell(c)'
  BY <1>1, <1>2, <1>4, <1>5, <1>6 DEF JournalWell, Names
<1> QED BY <1>1, <1>5, <1>7 DEF JournalMove

\* The rows of a snapshot, with changes laid over them.
LEMMA OverlaidTyped ==
    ASSUME NEW A \in SUBSET Commands, NEW rows \in RowsOf(A), NEW changes, ChangesOf(A, changes),
           \A k \in Keys : Overlaid(rows, changes)[k] # NoRow
    PROVE  Overlaid(rows, changes) \in RowsOf(A)
<1> DEFINE on(k) == [c \in {d \in DOMAIN changes : RowOf(d) = k} |-> changes[c]]
<1>1. Overlaid(rows, changes) = [k \in Keys |-> PatchUp(rows[k], on(k))]
  BY DEF Overlaid
<1>2. ASSUME NEW k \in Keys
      PROVE  PatchUp(rows[k], on(k)) \in FullRows(A) \cup {NoRow}
  <2>1. rows[k] \in FullRows(A)
    BY DEF RowsOf
  <2>2. ChangesOf(A, on(k))
    BY DEF ChangesOf
  <2> HIDE DEF on
  <2> QED BY <2>1, <2>2, PatchUpTyped
<1> HIDE DEF on
<1> QED BY <1>1, <1>2 DEF RowsOf

\* What a recovery of the projection makes of the journals.
InstalledJournal(work, c) ==
    IF c \in work.found THEN ConfirmedJournal(c)
    ELSE IF c \in Unwound(work) THEN [journal[c] EXCEPT !.state = "rejected"]
    ELSE IF c \in DOMAIN Rebased(work) THEN [journal[c] EXCEPT !.change = Rebased(work)[c]]
    ELSE journal[c]

\* replaceLocalSnapshotFromCloud closes what has a receipt or was quarantined without one.
LEMMA InstallMoves ==
    ASSUME IInv, NEW work, work.records \subseteq Unsettled, work.found \subseteq work.records \cap Committed,
           UNCHANGED <<asked, receipts>>, Served, RebasedTypes(AskedOnes, work),
           journal' = [c \in Commands |-> InstalledJournal(work, c)]
    PROVE  \A c \in Commands : JournalMove(c)
<1> SUFFICES ASSUME NEW c \in Commands PROVE JournalMove(c)
  OBVIOUS
<1>1. journal'[c] = InstalledJournal(work, c)
  OBVIOUS
<1>2. CASE c \in work.found
  <2>1. journal'[c] = ConfirmedJournal(c) /\ c \in Unsettled /\ c \in Committed
    BY <1>1, <1>2 DEF InstalledJournal
  <2> QED BY <2>1, ConfirmMoves
<1>3. CASE c \notin work.found /\ c \in Unwound(work)
  <2>1. journal'[c] = Saved(journal[c], "rejected")
    BY <1>1, <1>3 DEF InstalledJournal, Saved
  <2>2. c \in Journals /\ Uncontested(c) /\ RecordWell(c, journal[c])
    <3>1. c \in Unsettled
      BY <1>3 DEF Unwound
    <3> QED BY <3>1, RecordIs DEF Unsettled, Journals, Uncontested
  <2>3. "rejected" \in JournalStates \ {"none", "confirmed"}
    BY DEF JournalStates, Terminal
  <2> QED BY <2>1, <2>2, <2>3, StateMoves
<1>4. CASE c \notin work.found /\ c \notin Unwound(work) /\ c \in DOMAIN Rebased(work)
  <2>1. PICK x : x = Rebased(work)[c]
    OBVIOUS
  <2>2. journal'[c] = [journal[c] EXCEPT !.change = x]
    BY <1>1, <1>4, <2>1 DEF InstalledJournal
  <2>3. c \in Unsettled /\ x \in Changes(AskedOnes) /\ DOMAIN x.before = DOMAIN journal[c].change.before
    BY <1>4, <2>1 DEF RebasedTypes, ChangesOf
  <2> QED BY <2>2, <2>3, ChangeMoves
<1>5. CASE c \notin work.found /\ c \notin Unwound(work) /\ c \notin DOMAIN Rebased(work)
  <2>1. journal'[c] = journal[c]
    BY <1>1, <1>5 DEF InstalledJournal
  <2> QED BY <2>1, SameJournal DEF IInv
<1> QED BY <1>2, <1>3, <1>4, <1>5

\* The installation of a snapshot keeps the invariant, whether it fits or not.
LEMMA InstallKeeps ==
    ASSUME IInv, Install
    PROVE  Keeps
<1> DEFINE c == proc["flight"].cmd
           work == proc["flight"].work
           rows == Overlaid(work.remote.rows, Rebased(work))
<1>1. /\ proc["flight"].at = "install" /\ queue' = queue
      /\ faults' = faults \/ Fault
      /\ UNCHANGED <<asked, prep, checkpoint, mirror, view>> /\ UNCHANGED backend
      /\ receipts' = receipts /\ server' = server
  BY DEF Install, SetProc, backend
<1>2. /\ c \in Commands /\ c \in Unsettled /\ c \in Journals /\ queue # <<>>
      /\ ProcWell /\ ProcsWell
  BY <1>1, InFlight
<1>3. /\ work.records \subseteq Unsettled /\ work.found \subseteq work.records \cap Committed
      /\ work.remote \in Snapshot(AskedOnes) /\ work.remote.rev <= server.rev
  BY <1>1 DEF IInv, ProcsWell, Recovers
<1>4. Served
  BY <1>1, ClientServed
<1>5. mirror' = [d \in Commands |-> mirror'[d]] /\ \A d \in Commands : MirrorMove(d)
  BY <1>1, MirrorsStay
<1>6. CASE /\ checkpoint <= work.remote.rev
           /\ \A k \in Keys : rows[k] # NoRow
           /\ cache' = rows
           /\ canon' = work.remote
           /\ journal' = [d \in Commands |-> InstalledJournal(work, d)]
           /\ SetProc("flight", "installed")
  <2>1. RebasedTypes(AskedOnes, work)
    <3>1. work.records \in SUBSET Commands
      BY <1>3 DEF Unsettled
    <3> QED BY <3>1, ChangesKnown, RebasedTyped
  <2>2. \A d \in Commands : JournalMove(d)
    BY <1>1, <1>3, <1>4, <1>6, <2>1, InstallMoves
  <2>3. journal' = [d \in Commands |-> journal'[d]]
    BY <1>6
  <2>4. Moved
    BY <1>1, <1>4, <1>5, <2>2, <2>3, MovesKeep
  <2>5. work.remote.rows \in RowsOf(AskedOnes) /\ work.remote.rev \in Nat
    BY <1>3 DEF Snapshot
  <2>6. cache' \in RowsOf(AskedOnes)
    BY <1>6, <2>1, <2>5, ChangesKnown, OverlaidTyped DEF RebasedTypes
  <2>7. CacheWell'
    BY <1>1, <1>3, <1>6, <2>4, <2>6 DEF IInv, CacheWell, Moved
  <2>8. Steady /\ Backs
    <3>1. checkpoint \in Nat /\ \A r \in 1 .. checkpoint : r <= work.remote.rev
      BY <1>6, <2>5 DEF IInv, CacheWell
    <3>2. CheckpointIsBacked'
      BY <1>1, <1>6, <3>1 DEF CheckpointIsBacked
    <3> QED BY <2>2, <3>2 DEF Steady, Backs, JournalMove
  <2>9. FlightIs("installed", proc["flight"].kind, work)
    BY <1>2, <1>6, FlightAt DEF SetProc
  <2>10. proc'["flight"].at = "installed" /\ proc'["flight"].cmd = c /\ proc'["flight"].work = work
    BY <1>2, <2>9, FlightReads
  <2>11. Rejection(proc["flight"])'
    BY <2>10 DEF Rejection, RejectStages
  <2>12. Sends(proc["flight"])'
    BY <1>1, <1>2, <2>4, <2>10 DEF Sends, FlightStages, Moved
  <2>13. Recovers(proc["flight"])'
    <3>1. work.remote \in Snapshot(AskedOnes') /\ work.remote.rev <= server'.rev
          /\ work.remote.rev <= canon'.rev /\ work.records \subseteq Commands
      BY <1>1, <1>3, <1>6, <2>4, <2>5 DEF Moved, Unsettled
    <3> HIDE DEF work
    <3> QED BY <2>10, <3>1 DEF Recovers
  <2>14. ProcsWell' /\ QueueWell'
    <3> HIDE DEF work
    <3> QED BY <1>1, <1>2, <2>4, <2>9, <2>11, <2>12, <2>13, FlightGoes, QueueSame DEF Moved
  <2> QED BY <2>4, <2>7, <2>8, <2>14 DEF Moved, IInv, Keeps
<1>7. CASE SetProc("flight", "keep") /\ UNCHANGED <<cache, canon, journal>>
  <2>1. Moved
    BY <1>1, <1>4, <1>7, ProcsMove
  <2>2. FlightIs("keep", proc["flight"].kind, work)
    BY <1>2, <1>7, FlightAt DEF SetProc
  <2>3. c \in Unsettled'
    BY <1>2, <1>7 DEF Unsettled
  <2>4. QueueWell' /\ ProcsWell'
    BY <1>1, <2>1, <2>2, <2>3, FlightStep
  <2> QED BY <1>1, <1>4, <1>7, <2>1, <2>4, QuietKeeps
<1> QED BY <1>6, <1>7 DEF Install, InstalledJournal, ConfirmedJournal, AssertCurrent

\* What a quarantine may name as its root.
LEMMA Roots == 0 \in 0 .. MaxCommands /\ Commands \subseteq 0 .. MaxCommands
BY InteractionsAssumption DEF Commands

\* Mirrors of the commands in over go, what was closed with a root is released.
LEMMA ReleasedMoves ==
    ASSUME IInv, NEW m, NEW roots, NEW over, mirror' = Released(m, roots, over),
           \A c \in Commands \ over : m[c] = mirror[c],
           \A c \in Commands \cap over :
                \/ m[c] = mirror[c]
                \/ m[c] = NoMirror /\ c \in Journals'
                \/ mirror[c] # NoMirror /\ m[c] = [mirror[c] EXCEPT !.status = "conflict", !.root = 0]
    PROVE  mirror' = [c \in Commands |-> mirror'[c]] /\ \A c \in Commands : MirrorMove(c)
<1>1. mirror' = [c \in Commands |-> mirror'[c]]
  BY DEF Released
<1>2. ASSUME NEW c \in Commands PROVE MirrorMove(c)
  <2>1. mirror'[c] = IF m[c].status # "absent" /\ m[c].root \in roots /\ c \notin over
                     THEN [m[c] EXCEPT !.status = "unknown", !.root = 0] ELSE m[c]
    BY DEF Released
  <2>0. 0 \in 0 .. MaxCommands
    BY Roots
  <2>2. "unknown" \in MirrorStatuses \ {"absent"} /\ "conflict" \in MirrorStatuses \ {"absent"}
    BY DEF MirrorStatuses, Closed
  <2>3. CASE c \in over
    <3>1. mirror'[c] = m[c]
      BY <2>1, <2>3
    <3> QED BY <2>0, <2>2, <2>3, <3>1 DEF MirrorMove, Restated, Journals
  <2>4. CASE c \notin over
    <3>1. m[c] = mirror[c]
      BY <2>4
    <3>2. CASE mirror[c].status # "absent" /\ mirror[c].root \in roots
      <4>1. mirror'[c] = [m[c] EXCEPT !.status = "unknown", !.root = 0]
        BY <2>1, <2>4, <3>1, <3>2
      <4>2. mirror'[c] = [mirror[c] EXCEPT !.status = "unknown", !.root = 0]
        BY <3>1, <4>1
      <4>3. NoMirror.status = "absent"
        BY DEF NoMirror
      <4>4. mirror[c] # NoMirror
        BY <3>2, <4>3
      <4> QED BY <2>0, <2>2, <4>2, <4>4 DEF MirrorMove, Restated
    <3>3. CASE ~(mirror[c].status # "absent" /\ mirror[c].root \in roots)
      BY <2>1, <3>1, <3>3 DEF MirrorMove
    <3> QED BY <3>2, <3>3
  <2> QED BY <2>3, <2>4
<1> QED BY <1>1, <1>2

\* The metadata of an installed snapshot keep the invariant.
LEMMA InstalledKeeps ==
    ASSUME IInv, Installed
    PROVE  Keeps
<1> DEFINE work == proc["flight"].work
           over == {d \in work.records : journal[d].state \in Terminal}
           retired == [d \in Commands |-> IF d \in over THEN NoMirror ELSE mirror[d]]
           roots == {d \in over : journal[d].state = "rejected"}
<1>1. /\ proc["flight"].at = "installed" /\ view' = cache /\ Finish("flight")
      /\ UNCHANGED <<cache, canon, journal, asked, prep, faults>> /\ UNCHANGED backend
      /\ server' = server
      /\ \/ checkpoint' = work.remote.rev /\ mirror' = Released(retired, roots, over)
         \/ UNCHANGED <<checkpoint, mirror>>
  BY DEF Installed, backend
<1>2. queue # <<>>
  BY <1>1 DEF IInv, ProcsWell, Sends
<1>3. /\ work.records \subseteq Commands /\ work.remote.rev \in Nat
      /\ work.remote.rev <= server.rev /\ work.remote.rev <= canon.rev
  BY <1>1 DEF IInv, ProcsWell, Recovers, Snapshot
<1>4. Served
  BY <1>1, ClientServed
<1>5. mirror' = [d \in Commands |-> mirror'[d]] /\ \A d \in Commands : MirrorMove(d)
  <2>1. CASE mirror' = mirror
    BY <2>1, MirrorsStay
  <2>2. CASE mirror' = Released(retired, roots, over)
    <3>1. \A d \in Commands \ over : retired[d] = mirror[d]
      OBVIOUS
    <3>2. \A d \in Commands \cap over : retired[d] = NoMirror /\ d \in Journals'
      BY <1>1 DEF Terminal, Journals
    <3>3. \A d \in Commands \cap over :
                \/ retired[d] = mirror[d]
                \/ retired[d] = NoMirror /\ d \in Journals'
                \/ mirror[d] # NoMirror /\ retired[d] = [mirror[d] EXCEPT !.status = "conflict", !.root = 0]
      BY <3>2
    <3> HIDE DEF retired, over, roots
    <3> QED BY <2>2, <3>1, <3>3, ReleasedMoves
  <2> QED BY <1>1, <2>1, <2>2
<1>6. Moved
  BY <1>1, <1>4, <1>5, MirrorsMove
<1>7. /\ checkpoint' \in Nat /\ checkpoint' <= server.rev /\ Steady /\ Backs
      /\ canon.rev \in Nat
  <2>1. canon.rev \in Nat
    BY RevsTyped DEF IInv
  <2>2. CASE checkpoint' = work.remote.rev
    <3>1. \A r \in 1 .. work.remote.rev : r <= canon.rev
      BY <1>3, <2>1
    <3> HIDE DEF work
    <3> QED BY <1>1, <1>3, <2>1, <2>2, <3>1 DEF CheckpointIsBacked, Steady, Backs
  <2>3. CASE checkpoint' = checkpoint
    BY <1>1, <2>1, <2>3, Calm DEF IInv, CacheWell
  <2> QED BY <1>1, <2>2, <2>3
<1>8. CacheWell'
  BY <1>1, <1>6, <1>7 DEF IInv, CacheWell, Moved
<1>9. QueueWell' /\ ProcsWell'
  BY <1>1, <1>2, <1>6, FinishKeeps
<1> QED BY <1>6, <1>7, <1>8, <1>9 DEF Moved, IInv, Keeps

-----------------------------------------------------------------------------
(* Rejections *)

\* A process that rejects is in a new stage, with its work.
RejectIs(p, at, work) ==
    proc' = [proc EXCEPT ![p] =
                [at |-> at, cmd |-> proc[p].cmd, recovery |-> proc[p].recovery,
                 was |-> proc[p].was, kind |-> proc[p].kind, work |-> work]]

\* A rejection goes to another stage ...
LEMMA RejectAt ==
    ASSUME ProcWell, NEW p \in Procs, NEW at,
           proc' = [proc EXCEPT ![p].at = at]
    PROVE  RejectIs(p, at, proc[p].work)
<1> PICK r : r = proc[p]
  OBVIOUS
<1> PICK q : q = [r EXCEPT !.at = at]
  OBVIOUS
<1>1. r = [at |-> r.at, cmd |-> r.cmd, recovery |-> r.recovery, was |-> r.was,
           kind |-> r.kind, work |-> r.work] /\ p \in DOMAIN proc
  BY ProcIs
<1>2. proc' = [proc EXCEPT ![p] = q]
  BY <1>1
<1>3. q = [at |-> at, cmd |-> r.cmd, recovery |-> r.recovery, was |-> r.was,
           kind |-> r.kind, work |-> r.work]
  BY <1>1
<1> QED BY <1>2, <1>3 DEF RejectIs

\* ... or gets its work.
LEMMA RejectAtWork ==
    ASSUME ProcWell, NEW p \in Procs, NEW at, NEW work,
           proc' = [proc EXCEPT ![p].at = at, ![p].work = work]
    PROVE  RejectIs(p, at, work)
<1> PICK r : r = proc[p]
  OBVIOUS
<1> PICK q : q = [r EXCEPT !.at = at, !.work = work]
  OBVIOUS
<1>1. r = [at |-> r.at, cmd |-> r.cmd, recovery |-> r.recovery, was |-> r.was,
           kind |-> r.kind, work |-> r.work] /\ p \in DOMAIN proc
  BY ProcIs
<1>2. proc' = [proc EXCEPT ![p] = q]
  BY <1>1
<1>3. q = [at |-> at, cmd |-> r.cmd, recovery |-> r.recovery, was |-> r.was,
           kind |-> r.kind, work |-> work]
  BY <1>1
<1> QED BY <1>2, <1>3 DEF RejectIs

\* The new state of a rejection.
LEMMA RejectIsRead ==
    ASSUME ProcWell, NEW p \in Procs, NEW at, NEW work, RejectIs(p, at, work)
    PROVE  /\ proc'[p].at = at /\ proc'[p].cmd = proc[p].cmd
           /\ proc'[p].kind = proc[p].kind /\ proc'[p].work = work
           /\ \A q \in Procs \ {p} : proc'[q] = proc[q]
BY DEF ProcWell, RejectIs

\* A process that rejects.
LEMMA InRejection ==
    ASSUME IInv, NEW p \in Procs, proc[p].at \in RejectStages
    PROVE  /\ ProcWell /\ ProcsWell /\ Rejection(proc[p])
           /\ proc[p].cmd \in Commands /\ proc[p].cmd \in Journals
           /\ proc[p].kind \in {"rejected", "conflict"}
           /\ p = "flight" => queue # <<>>
<1>1. ProcsWell /\ ProcWell /\ Rejection(proc[p])
  BY DEF IInv, ProcsWell, Procs
<1>2. p = "flight" => queue # <<>>
  BY <1>1 DEF ProcsWell, Sends, RejectStages
<1> QED BY <1>1, <1>2 DEF Rejection, Journals

\* What a rejection is about to save is not confirmed, unless a send undercut it.
LEMMA InRollback ==
    ASSUME IInv, NEW p \in Procs, proc[p].at \in {"rollback", "quarantine"}
    PROVE  /\ WorkWell(proc[p].work) /\ proc[p].cmd \in DOMAIN proc[p].work
           /\ \A d \in DOMAIN proc[p].work : Uncontested(d)
           /\ p = "flight" => DOMAIN proc[p].work \subseteq Unsettled
<1>1. Rejection(proc[p])
  BY DEF IInv, ProcsWell, Procs
<1>2. WorkWell(proc[p].work) /\ proc[p].cmd \in DOMAIN proc[p].work
  BY <1>1 DEF Rejection, RejectStages
<1>3. CASE p = "flight"
  <2>1. DOMAIN proc[p].work \subseteq Unsettled
    BY <1>3 DEF IInv, ProcsWell, Sends
  <2> QED BY <1>2, <2>1 DEF Unsettled, Uncontested
<1>4. CASE p = "replay"
  BY <1>2, <1>4 DEF NothingUndercut, Closes, Uncontested
<1> QED BY <1>3, <1>4 DEF Procs

\* The recovery moves on, whatever the send does.
LEMMA ReplayGoes ==
    ASSUME ProcsWell, Grown, queue # <<>> => queue' # <<>>,
           NEW x, x = [at |-> x.at, cmd |-> x.cmd, recovery |-> x.recovery, was |-> x.was,
                       kind |-> x.kind, work |-> x.work],
           proc' = [proc EXCEPT !["replay"] = x],
           Rejection(proc["replay"])', Replays(proc["replay"])'
    PROVE  ProcsWell'
<1>1. proc'["flight"] = proc["flight"] /\ proc'["replay"] = x
  BY DEF ProcsWell, ProcWell, Procs
<1>2. ProcWell'
  BY <1>1 DEF ProcsWell, ProcWell, Procs
<1>3. Rejection(proc["flight"])'
  BY <1>1, RejectionGrows DEF ProcsWell, Procs, Grown
<1>4. Sends(proc["flight"])' /\ Recovers(proc["flight"])'
  BY <1>1, SendsGrows, RecoversGrows DEF ProcsWell
<1> QED BY <1>2, <1>3, <1>4 DEF ProcsWell

\* The recovery is idle again.
LEMMA ReplayIdles ==
    ASSUME ProcsWell, Grown, queue # <<>> => queue' # <<>>,
           proc' = [proc EXCEPT !["replay"] = Idle]
    PROVE  ProcsWell'
<1>1. proc'["replay"] = Idle /\ Idle.at = "idle"
  BY DEF ProcsWell, ProcWell, Procs, Idle
<1>2. Idle = [at |-> Idle.at, cmd |-> Idle.cmd, recovery |-> Idle.recovery, was |-> Idle.was,
              kind |-> Idle.kind, work |-> Idle.work]
  BY DEF Idle
<1>3. Rejection(proc["replay"])' /\ Replays(proc["replay"])'
  BY <1>1 DEF Rejection, Replays, RejectStages
<1> QED BY <1>2, <1>3, ReplayGoes

\* What is unsettled stays so: the world went on.
LEMMA MovedGrows ==
    ASSUME IInv, Moved, Served, canon' = canon, Unsettled \subseteq Unsettled'
    PROVE  Grown
<1>1. canon.rev \in Nat
  BY RevsTyped DEF IInv
<1> QED BY <1>1 DEF Grown, Moved, Served

\* A rejection goes on.
LEMMA RejectStep ==
    ASSUME IInv, Moved, Grown, prep' = prep, queue' = queue, NEW p \in Procs,
           proc[p].at \in RejectStages, NEW at, NEW work, RejectIs(p, at, work),
           \/ /\ at \in {"rollback", "quarantine"}
              /\ proc[p].cmd \in DOMAIN work /\ WorkWell(work)'
              /\ p = "flight" => DOMAIN work \subseteq Unsettled'
           \/ at = "retire" /\ DOMAIN work \subseteq Journals'
    PROVE  QueueWell' /\ ProcsWell'
<1>1. /\ ProcWell /\ ProcsWell /\ proc[p].cmd \in Journals /\ proc[p].kind \in {"rejected", "conflict"}
      /\ p = "flight" => queue # <<>>
  BY InRejection
<1>2. /\ proc'[p].at = at /\ proc'[p].cmd = proc[p].cmd
      /\ proc'[p].kind = proc[p].kind /\ proc'[p].work = work
      /\ \A q \in Procs \ {p} : proc'[q] = proc[q]
  BY <1>1, RejectIsRead
<1>3. /\ at \in {"rollback", "quarantine", "retire"} /\ at \in RejectStages
      /\ proc[p].cmd \in Journals'
  BY <1>1 DEF RejectStages, Moved
<1>4. Rejection(proc[p])'
  <2>1. WorkWell(work)' => WorkWell(proc[p].work)'
    BY <1>2 DEF WorkWell, RecordWell, Names
  <2> QED BY <1>1, <1>2, <1>3, <2>1 DEF Rejection
<1> PICK x : x = [at |-> at, cmd |-> proc[p].cmd, recovery |-> proc[p].recovery,
                  was |-> proc[p].was, kind |-> proc[p].kind, work |-> work]
  OBVIOUS
<1>5. x = [at |-> x.at, cmd |-> x.cmd, recovery |-> x.recovery, was |-> x.was,
           kind |-> x.kind, work |-> x.work]
  OBVIOUS
<1>6. proc' = [proc EXCEPT ![p] = x]
  BY DEF RejectIs
<1>7. CASE p = "flight"
  <2>1. Sends(proc["flight"])' /\ Recovers(proc["flight"])'
    BY <1>1, <1>2, <1>3, <1>7 DEF Sends, Recovers
  <2>2. ProcsWell'
    BY <1>1, <1>4, <1>5, <1>6, <1>7, <2>1, FlightMoves DEF Moved
  <2> QED BY <2>2, QueueSame
<1>8. CASE p = "replay"
  <2>1. Replays(proc["replay"])'
    BY <1>2, <1>3, <1>8 DEF Replays, RejectStages
  <2>2. ProcsWell'
    BY <1>1, <1>4, <1>5, <1>6, <1>8, <2>1, ReplayGoes
  <2> QED BY <2>2, QueueSame
<1> QED BY <1>7, <1>8 DEF Procs

\* A rejection ends.
LEMMA RejectEnds ==
    ASSUME IInv, Moved, Grown, prep' = prep, NEW p \in Procs, proc[p].at \in RejectStages, Finish(p)
    PROVE  QueueWell' /\ ProcsWell'
<1>1. /\ ProcWell /\ ProcsWell
      /\ p = "flight" => queue # <<>>
  BY InRejection
<1>2. CASE p = "flight"
  BY <1>1, <1>2, FinishKeeps
<1>3. CASE p = "replay"
  <2>1. proc' = [proc EXCEPT !["replay"] = Idle] /\ queue' = queue
    BY <1>3 DEF Finish
  <2> QED BY <1>1, <2>1, ReplayIdles, QueueSame
<1> QED BY <1>2, <1>3 DEF Procs

\* The reads of a rejection keep the invariant: what it reads is journaled.
LEMMA RejectReadsKeeps ==
    ASSUME IInv, NEW p \in Procs, RejectReads(p)
    PROVE  Keeps
<1> DEFINE c == proc[p].cmd
<1> PICK w : w = [d \in Dependents(c) \cup {c} |-> [record |-> journal[d], inverse |-> Rollback(d)]]
  OBVIOUS
<1>1. /\ proc[p].at = "reject" /\ StepsAside /\ queue' = queue
      /\ proc' = [proc EXCEPT ![p].at = "rollback", ![p].work = w]
  BY DEF RejectReads, StepsAside, stored, Current
<1>2. proc[p].at \in RejectStages
  BY <1>1 DEF RejectStages
<1>3. c \in Commands /\ ProcWell /\ c \in Journals
  BY <1>2, InRejection
<1>4. /\ Moved /\ prep' = prep /\ Unsettled' = Unsettled /\ Journals' = Journals
      /\ AskedOnes' = AskedOnes
  BY <1>1, AsideMoves
<1>5. Dependents(c) \subseteq Unsettled /\ Unsettled \subseteq Journals /\ Journals \subseteq Commands
  BY DEF Dependents, OpenJournals, Open, Unsettled, Journals
<1>6. DOMAIN w = Dependents(c) \cup {c} /\ c \in DOMAIN w /\ DOMAIN w \subseteq Journals
  BY <1>3, <1>5
<1>7. ASSUME NEW d \in DOMAIN w
      PROVE  RecordWell(d, w[d].record) /\ w[d].inverse \in Changes(AskedOnes)
  <2>1. w[d].record = journal[d] /\ w[d].inverse = Rollback(d) /\ d \in Journals /\ d \in Commands
    BY <1>5, <1>6
  <2> HIDE DEF c
  <2> QED BY <2>1, RecordIs, ChangesKnown, RollbackTyped
<1>8. WorkWell(w)'
  BY <1>1, <1>4, <1>6, <1>7 DEF WorkWell, RecordWell, Names, StepsAside
<1>9. p = "flight" => DOMAIN w \subseteq Unsettled'
  <2>1. p = "flight" => c \in Unsettled
    BY <1>1, InFlight
  <2> QED BY <1>4, <1>5, <1>6, <2>1
<1>10. RejectIs(p, "rollback", w)
  BY <1>1, <1>3, RejectAtWork
<1>11. Grown
  BY <1>1, Quiet DEF StepsAside, backend
<1>12. QueueWell' /\ ProcsWell'
  BY <1>1, <1>2, <1>4, <1>6, <1>8, <1>9, <1>10, <1>11, RejectStep
<1> QED BY <1>1, <1>12, AsideKeepsAll

\* Records are saved with other states.
LEMMA StatesMove ==
    ASSUME IInv, UNCHANGED <<asked, receipts>>, Served, NEW work, WorkWell(work),
           \A d \in DOMAIN work : Uncontested(d),
           NEW s, \A d \in DOMAIN work : s[d] \in JournalStates \ {"none", "confirmed"},
           journal' = [d \in Commands |-> IF d \in DOMAIN work
                                          THEN Saved(work[d].record, s[d]) ELSE journal[d]]
    PROVE  /\ \A d \in Commands : JournalMove(d)
           /\ journal' = [d \in Commands |-> journal'[d]]
           /\ Unsettled \subseteq Unsettled' /\ DOMAIN work \subseteq Unsettled'
<1>1. journal' = [d \in Commands |-> journal'[d]]
  OBVIOUS
<1>2. ASSUME NEW d \in DOMAIN work PROVE JournalMove(d) /\ journal'[d].state = s[d] /\ d \in Commands
  <2>1. d \in Journals /\ d \in Commands /\ RecordWell(d, work[d].record)
    BY DEF WorkWell, Journals
  <2>2. PICK t, r : t = s[d] /\ r = work[d].record
    OBVIOUS
  <2>3. journal'[d] = Saved(work[d].record, s[d])
    BY <2>1
  <2>4. journal'[d] = Saved(r, t)
    BY <2>2, <2>3
  <2>5. t \in JournalStates \ {"none", "confirmed"} /\ RecordWell(d, r)
    BY <2>1, <2>2
  <2>6. Uncontested(d)
    OBVIOUS
  <2>7. JournalMove(d) /\ journal'[d].state = t
    BY <2>1, <2>4, <2>5, <2>6, StateMoves
  <2> QED BY <2>1, <2>2, <2>7
<1>3. ASSUME NEW d \in Commands \ DOMAIN work PROVE JournalMove(d) /\ journal'[d] = journal[d]
  <2>1. journal'[d] = journal[d]
    OBVIOUS
  <2> QED BY <2>1, SameJournal DEF IInv
<1>4. Unsettled \subseteq Unsettled' /\ DOMAIN work \subseteq Unsettled'
  BY <1>2, <1>3 DEF Unsettled
<1> QED BY <1>1, <1>2, <1>3, <1>4

\* The rollback keeps the invariant.
LEMMA RollsBackKeeps ==
    ASSUME IInv, NEW p \in Procs, RollsBack(p)
    PROVE  Keeps
<1> DEFINE c == proc[p].cmd
           s == [d \in Commands |-> IF d = c THEN proc[p].kind ELSE "rejected"]
<1> PICK work : work = proc[p].work
  OBVIOUS
<1> DEFINE inverses == [d \in DOMAIN work |-> work[d].inverse]
           row == PatchDown(cache[RowOf(c)], inverses)
<1>1. /\ proc[p].at = "rollback" /\ row # NoRow /\ queue' = queue
      /\ cache' = [cache EXCEPT ![RowOf(c)] = row]
      /\ journal' = [d \in Commands |->
                IF d \in DOMAIN work
                THEN [work[d].record EXCEPT !.state = IF d = c THEN proc[p].kind ELSE "rejected"]
                ELSE journal[d]]
      /\ proc' = [proc EXCEPT ![p].at = "retire"]
      /\ UNCHANGED <<asked, prep, canon, checkpoint, mirror, view, faults>> /\ UNCHANGED backend
      /\ receipts' = receipts
  BY DEF RollsBack, UnwoundRow, Closes, SetProc, Current, backend
<1>2. proc[p].at \in RejectStages
  BY <1>1 DEF RejectStages
<1>3. /\ c \in Commands /\ c \in Journals /\ proc[p].kind \in {"rejected", "conflict"} /\ ProcWell
      /\ WorkWell(work) /\ \A d \in DOMAIN work : Uncontested(d)
  BY <1>1, <1>2, InRejection, InRollback
<1>4. Served
  BY <1>1, ClientServed
<1>5. mirror' = [d \in Commands |-> mirror'[d]] /\ \A d \in Commands : MirrorMove(d)
  BY <1>1, MirrorsStay
<1>6. /\ \A d \in DOMAIN work : s[d] \in JournalStates \ {"none", "confirmed"}
      /\ DOMAIN work \subseteq Commands
  <2>1. DOMAIN work \subseteq Commands
    BY <1>3 DEF WorkWell, Journals
  <2>2. {"rejected", "conflict"} \subseteq JournalStates \ {"none", "confirmed"}
    BY DEF JournalStates, Terminal
  <2>3. \A d \in DOMAIN work : s[d] \in {"rejected", "conflict"}
    BY <1>3, <2>1
  <2> QED BY <2>1, <2>2, <2>3
<1>7. journal' = [d \in Commands |-> IF d \in DOMAIN work
                                     THEN Saved(work[d].record, s[d]) ELSE journal[d]]
  BY <1>1 DEF Saved
<1>8. /\ \A d \in Commands : JournalMove(d)
      /\ journal' = [d \in Commands |-> journal'[d]]
      /\ Unsettled \subseteq Unsettled' /\ DOMAIN work \subseteq Unsettled'
  <2>1. UNCHANGED <<asked, receipts>>
    BY <1>1
  <2> HIDE DEF s
  <2> QED BY <1>3, <1>4, <1>6, <1>7, <2>1, StatesMove
<1>9. Moved
  BY <1>1, <1>4, <1>5, <1>8, MovesKeep
<1>10. c \in AskedOnes /\ RowOf(c) \in Keys
  <2>1. c \in AskedOnes
    BY <1>3 DEF IInv, JournalsWell, Journals
  <2> QED BY <1>3, <2>1 DEF RowOf, IInv, AskedWell, Asks
<1>11. cache' \in RowsOf(AskedOnes)
  <2>1. cache \in [Keys -> FullRows(AskedOnes)]
    BY DEF IInv, CacheWell, RowsOf
  <2>2. cache[RowOf(c)] \in FullRows(AskedOnes)
    BY <1>10, <2>1
  <2>3. ChangesOf(AskedOnes, inverses)
    BY <1>3, <1>6 DEF ChangesOf, WorkWell
  <2>4. row \in FullRows(AskedOnes) \cup {NoRow}
    <3> HIDE DEF inverses
    <3> QED BY <2>2, <2>3, ChangesKnown, PatchDownTyped
  <2>5. row \in FullRows(AskedOnes)
    BY <1>1, <2>4
  <2> HIDE DEF row
  <2> QED BY <1>1, <2>1, <2>5 DEF RowsOf
<1>12. CacheWell' /\ Steady /\ Backs
  BY <1>1, <1>4, <1>8, <1>9, <1>11, CacheWritten, BackedStays
<1>13. DOMAIN work \subseteq Journals'
  BY <1>8 DEF Journals, Unsettled
<1>14. RejectIs(p, "retire", work)
  BY <1>1, <1>3, RejectAt
<1>15. QueueWell' /\ ProcsWell'
  BY <1>1, <1>2, <1>4, <1>8, <1>9, <1>13, <1>14, MovedGrows, RejectStep
<1> QED BY <1>9, <1>12, <1>15 DEF Moved, IInv, Keeps

\* The retirement of what was rolled back keeps the invariant.
LEMMA RetireKeeps ==
    ASSUME IInv, NEW p \in Procs, Retire(p)
    PROVE  Keeps
<1> DEFINE c == proc[p].cmd
           over == DOMAIN proc[p].work
           retired == [d \in Commands |->
                IF d \notin over \/ mirror[d] = NoMirror THEN mirror[d]
                ELSE IF journal[d].state = "conflict"
                THEN [mirror[d] EXCEPT !.status = "conflict", !.root = 0] ELSE NoMirror]
<1>1. /\ proc[p].at = "retire" /\ view' = cache /\ mirror' = Released(retired, {c}, over)
      /\ Finish(p)
      /\ UNCHANGED <<cache, canon, checkpoint, journal, asked, prep, faults>> /\ UNCHANGED backend
  BY DEF Retire, Current
<1>2. proc[p].at \in RejectStages
  BY <1>1 DEF RejectStages
<1>3. over \subseteq Journals
  BY <1>1, <1>2, InRejection DEF Rejection
<1>4. Served
  BY <1>1, ClientServed
<1>5. mirror' = [d \in Commands |-> mirror'[d]] /\ \A d \in Commands : MirrorMove(d)
  <2>1. \A d \in Commands \ over : retired[d] = mirror[d]
    BY DEF retired
  <2>2. \A d \in Commands \cap over :
                \/ retired[d] = mirror[d]
                \/ retired[d] = NoMirror /\ d \in Journals'
                \/ mirror[d] # NoMirror /\ retired[d] = [mirror[d] EXCEPT !.status = "conflict", !.root = 0]
    BY <1>1, <1>3 DEF Journals
  <2> HIDE DEF retired, over
  <2> QED BY <1>1, <2>1, <2>2, ReleasedMoves
<1>6. Moved
  BY <1>1, <1>4, <1>5, MirrorsMove
<1>7. QueueWell' /\ ProcsWell'
  <2>1. Grown
    BY <1>1, Quiet DEF backend
  <2> QED BY <1>1, <1>2, <1>6, <2>1, RejectEnds
<1> QED BY <1>1, <1>4, <1>6, <1>7, QuietKeeps

\* Mirrors are closed with a root.
LEMMA ClosesMoves ==
    ASSUME IInv, NEW S, NEW c \in Commands,
           mirror' = [d \in Commands |->
            IF d \in S /\ mirror[d] # NoMirror
            THEN [mirror[d] EXCEPT !.status = "rollback_pending", !.root = c]
            ELSE mirror[d]]
    PROVE  mirror' = [d \in Commands |-> mirror'[d]] /\ \A d \in Commands : MirrorMove(d)
<1>1. "rollback_pending" \in MirrorStatuses \ {"absent"}
  BY DEF MirrorStatuses, Closed
<1>2. c \in 0 .. MaxCommands
  BY Roots
<1>3. ASSUME NEW d \in Commands PROVE MirrorMove(d)
  <2>1. CASE d \in S /\ mirror[d] # NoMirror
    <3>1. mirror'[d] = [mirror[d] EXCEPT !.status = "rollback_pending", !.root = c]
      BY <2>1
    <3> QED BY <1>1, <1>2, <2>1, <3>1 DEF MirrorMove, Restated
  <2>2. CASE ~(d \in S /\ mirror[d] # NoMirror)
    BY <2>2 DEF MirrorMove
  <2> QED BY <2>1, <2>2
<1>4. mirror' = [d \in Commands |-> mirror'[d]]
  OBVIOUS
<1> QED BY <1>3, <1>4

\* The quarantine of mirrors keeps the invariant.
LEMMA QuarantinesKeeps ==
    ASSUME IInv, NEW p \in Procs, Quarantines(p)
    PROVE  Keeps
<1> DEFINE c == proc[p].cmd
<1> PICK work : work = proc[p].work
  OBVIOUS
<1>1. /\ proc[p].at = "rollback" /\ queue' = queue
      /\ faults' = faults \/ Fault
      /\ mirror' = [d \in Commands |->
            IF d \in DOMAIN work /\ mirror[d] # NoMirror
            THEN [mirror[d] EXCEPT !.status = "rollback_pending", !.root = c]
            ELSE mirror[d]]
      /\ proc' = [proc EXCEPT ![p].at = "quarantine"]
      /\ UNCHANGED <<cache, canon, checkpoint, journal, view, asked, prep>> /\ UNCHANGED backend
  BY DEF Quarantines, Closes, SetProc, Current
<1>2. proc[p].at \in RejectStages
  BY <1>1 DEF RejectStages
<1>3. /\ c \in Commands /\ ProcWell /\ c \in DOMAIN work /\ WorkWell(work)
      /\ p = "flight" => DOMAIN work \subseteq Unsettled
  BY <1>1, <1>2, InRejection, InRollback
<1>4. Served
  BY <1>1, ClientServed
<1>5. mirror' = [d \in Commands |-> mirror'[d]] /\ \A d \in Commands : MirrorMove(d)
  <2> HIDE DEF c
  <2> QED BY <1>1, <1>3, ClosesMoves
<1>6. Moved
  BY <1>1, <1>4, <1>5, MirrorsMove
<1>7. RejectIs(p, "quarantine", work)
  BY <1>1, <1>3, RejectAt
<1>8. WorkWell(work)' /\ Unsettled' = Unsettled /\ Grown
  <2>1. Grown
    BY <1>1, Quiet DEF backend
  <2> QED BY <1>1, <1>3, <2>1 DEF WorkWell, RecordWell, Names, Unsettled, Journals, AskedOnes
<1>9. QueueWell' /\ ProcsWell'
  BY <1>1, <1>2, <1>3, <1>6, <1>7, <1>8, RejectStep
<1> QED BY <1>1, <1>4, <1>6, <1>9, QuietKeeps

\* The quarantine of everything mirrored keeps the invariant.
LEMMA QuarantinesBlindlyKeeps ==
    ASSUME IInv, NEW p \in Procs, QuarantinesBlindly(p)
    PROVE  Keeps
<1> DEFINE c == proc[p].cmd
<1> PICK work : work = [d \in {c} |-> [record |-> journal[c], inverse |-> NoChange]]
  OBVIOUS
<1>1. /\ proc[p].at = "reject" /\ queue' = queue /\ Fault
      /\ mirror' = [d \in Commands |->
            IF d \in Commands /\ mirror[d] # NoMirror
            THEN [mirror[d] EXCEPT !.status = "rollback_pending", !.root = c]
            ELSE mirror[d]]
      /\ proc' = [proc EXCEPT ![p].at = "quarantine", ![p].work = work]
      /\ UNCHANGED <<cache, canon, checkpoint, journal, view, asked, prep>> /\ UNCHANGED backend
  BY DEF QuarantinesBlindly, Current
<1>2. proc[p].at \in RejectStages
  BY <1>1 DEF RejectStages
<1>3. c \in Commands /\ ProcWell /\ c \in Journals
  BY <1>2, InRejection
<1>4. Served
  BY <1>1, ClientServed
<1>5. mirror' = [d \in Commands |-> mirror'[d]] /\ \A d \in Commands : MirrorMove(d)
  <2> HIDE DEF c
  <2> QED BY <1>1, <1>3, ClosesMoves
<1>6. Moved
  BY <1>1, <1>4, <1>5, MirrorsMove
<1>7. /\ DOMAIN work = {c} /\ work[c].record = journal[c] /\ work[c].inverse \in Changes(AskedOnes)
      /\ RecordWell(c, journal[c])
  BY <1>3, ChangesKnown, Nothing, RecordIs
<1>8. WorkWell(work)' /\ Grown /\ (p = "flight" => DOMAIN work \subseteq Unsettled')
  <2>1. Grown
    BY <1>1, Quiet DEF backend
  <2>2. p = "flight" => c \in Unsettled
    BY <1>1, InFlight
  <2>3. AskedOnes' = AskedOnes /\ Journals' = Journals /\ Unsettled' = Unsettled
    BY <1>1 DEF AskedOnes, Journals, Unsettled
  <2>4. WorkWell(work)
    BY <1>3, <1>7 DEF WorkWell
  <2>5. WorkWell(work)'
    BY <1>1, <2>3, <2>4 DEF WorkWell, RecordWell, Names
  <2> QED BY <1>7, <2>1, <2>2, <2>3, <2>5
<1>9. RejectIs(p, "quarantine", work)
  BY <1>1, <1>3, RejectAtWork
<1>10. QueueWell' /\ ProcsWell'
  BY <1>1, <1>2, <1>6, <1>7, <1>8, <1>9, RejectStep
<1> QED BY <1>1, <1>4, <1>6, <1>10, QuietKeeps

\* The quarantine of journals keeps the invariant.
LEMMA QuarantinesJournalsKeeps ==
    ASSUME IInv, NEW p \in Procs, QuarantinesJournals(p)
    PROVE  Keeps
<1> DEFINE s == [d \in Commands |-> "rollback_pending"]
<1> PICK work : work = proc[p].work
  OBVIOUS
<1>1. /\ proc[p].at = "quarantine" /\ Finish(p)
      /\ journal' = [d \in Commands |->
            IF d \in DOMAIN work THEN [work[d].record EXCEPT !.state = "rollback_pending"]
            ELSE journal[d]]
      /\ UNCHANGED <<asked, prep, cache, canon, checkpoint, mirror, view, faults>> /\ UNCHANGED backend
      /\ receipts' = receipts
  BY DEF QuarantinesJournals, Closes, backend
<1>2. proc[p].at \in RejectStages
  BY <1>1 DEF RejectStages
<1>3. WorkWell(work) /\ \A d \in DOMAIN work : Uncontested(d)
  BY <1>1, InRollback
<1>4. Served
  BY <1>1, ClientServed
<1>5. mirror' = [d \in Commands |-> mirror'[d]] /\ \A d \in Commands : MirrorMove(d)
  BY <1>1, MirrorsStay
<1>6. /\ \A d \in DOMAIN work : s[d] \in JournalStates \ {"none", "confirmed"}
      /\ \A d \in DOMAIN work : s[d] = "rollback_pending"
  <2>1. DOMAIN work \subseteq Commands
    BY <1>3 DEF WorkWell, Journals
  <2>2. "rollback_pending" \in JournalStates \ {"none", "confirmed"}
    BY DEF JournalStates, Open
  <2> QED BY <2>1, <2>2
<1>7. journal' = [d \in Commands |-> IF d \in DOMAIN work
                                     THEN Saved(work[d].record, s[d]) ELSE journal[d]]
  BY <1>1 DEF Saved
<1>8. /\ \A d \in Commands : JournalMove(d)
      /\ journal' = [d \in Commands |-> journal'[d]]
      /\ Unsettled \subseteq Unsettled'
  <2>1. UNCHANGED <<asked, receipts>> /\ \A d \in DOMAIN work : s[d] \in JournalStates \ {"none", "confirmed"}
    BY <1>1, <1>6
  <2> HIDE DEF s
  <2> QED BY <1>3, <1>4, <1>7, <2>1, StatesMove
<1>9. Moved
  BY <1>1, <1>4, <1>5, <1>8, MovesKeep
<1>10. QueueWell' /\ ProcsWell'
  BY <1>1, <1>2, <1>4, <1>8, <1>9, MovedGrows, RejectEnds
<1>11. CacheWell' /\ Steady /\ Backs
  BY <1>1, <1>4, <1>8, <1>9, CacheStays, BackedStays
<1> QED BY <1>9, <1>10, <1>11 DEF Moved, IInv, Keeps

-----------------------------------------------------------------------------
(* Recoveries *)

\* Every mirror may be retired with what its journal says, or be left alone.
LEMMA RetiredMoves ==
    ASSUME IInv, mirror' = [c \in Commands |-> mirror'[c]],
           \A c \in Commands :
                \/ mirror'[c] = mirror[c]
                \/ mirror'[c] = NoMirror /\ c \in Journals'
                \/ mirror[c] # NoMirror /\ mirror'[c] = [mirror[c] EXCEPT !.status = "conflict", !.root = 0]
    PROVE  \A c \in Commands : MirrorMove(c)
<1> SUFFICES ASSUME NEW c \in Commands PROVE MirrorMove(c)
  OBVIOUS
<1>1. "conflict" \in MirrorStatuses \ {"absent"}
  BY DEF MirrorStatuses, Closed
<1> QED BY <1>1, Roots DEF MirrorMove, Restated, Journals

\* How mirrors are retired and released.
RetirePlan(m, roots, over) ==
    /\ m = [c \in Commands |-> m[c]]
    /\ mirror' = m \/ mirror' = Released(m, roots, over)
    /\ \A c \in Commands \ over : m[c] = mirror[c]
    /\ \A c \in Commands \cap over :
                \/ m[c] = mirror[c]
                \/ m[c] = NoMirror /\ c \in Journals'
                \/ mirror[c] # NoMirror /\ m[c] = [mirror[c] EXCEPT !.status = "conflict", !.root = 0]

\* Mirrors are retired; some are released.
LEMMA PlanMoves ==
    ASSUME IInv, NEW m, NEW roots, NEW over, RetirePlan(m, roots, over)
    PROVE  mirror' = [c \in Commands |-> mirror'[c]] /\ \A c \in Commands : MirrorMove(c)
<1>1. CASE mirror' = m
  BY <1>1, RetiredMoves DEF RetirePlan
<1>2. CASE mirror' = Released(m, roots, over)
  BY <1>2, ReleasedMoves DEF RetirePlan
<1> QED BY <1>1, <1>2 DEF RetirePlan

\* reconcileTerminalJournal retires only what is over.
LEMMA ReconciledMoves ==
    ASSUME IInv, NEW root \in Commands, journal' = journal, mirror' = Reconciled(root)
    PROVE  mirror' = [c \in Commands |-> mirror'[c]] /\ \A c \in Commands : MirrorMove(c)
<1> DEFINE related == {d \in Commands : mirror[d] # NoMirror /\ mirror[d].root = root}
           over == {d \in {root} \cup (IF journal[root].state = "confirmed" THEN {} ELSE related) :
                        journal[d].state \in Terminal}
           retired == [d \in Commands |->
                IF d \notin over \/ mirror[d] = NoMirror THEN mirror[d]
                ELSE IF journal[d].state = "conflict"
                THEN [mirror[d] EXCEPT !.status = "conflict", !.root = 0] ELSE NoMirror]
<1>1. mirror' = retired \/ mirror' = Released(retired, {root}, over)
  BY DEF Reconciled
<1>2. \A d \in Commands : d \in over => d \in Journals'
  BY DEF Terminal, Journals
<1>3. \A d \in Commands \ over : retired[d] = mirror[d]
  <2> HIDE DEF over
  <2> QED OBVIOUS
<1>4. \A d \in Commands \cap over :
                \/ retired[d] = mirror[d]
                \/ retired[d] = NoMirror /\ d \in Journals'
                \/ mirror[d] # NoMirror /\ retired[d] = [mirror[d] EXCEPT !.status = "conflict", !.root = 0]
  <2> HIDE DEF over
  <2> QED BY <1>2
<1>5. retired = [d \in Commands |-> retired[d]]
  <2> HIDE DEF over
  <2> QED OBVIOUS
<1> HIDE DEF related, over, retired
<1>6. RetirePlan(retired, {root}, over)
  BY <1>1, <1>3, <1>4, <1>5 DEF RetirePlan
<1> QED BY <1>6, PlanMoves

\* No process moves.
LEMMA ProcsStay ==
    ASSUME IInv, Moved, UNCHANGED <<asked, receipts, journal, prep, proc, queue>>,
           server' = server, canon' = canon
    PROVE  QueueWell' /\ ProcsWell'
<1>1. Grown
  BY Quiet
<1>2. proc["replay"].at = "restore" =>
        /\ proc["replay"].cmd \in Commands /\ journal[proc["replay"].cmd] = NoJournal
        /\ mirror[proc["replay"].cmd] # NoMirror
  BY DEF IInv, ProcsWell, Replays
<1>3. ProcsWell'
  BY <1>1, <1>2, ProcsGrow DEF IInv, Moved, Undisturbed
<1> QED BY <1>3, QueueSame

\* The recovery of what is over keeps the invariant.
LEMMA RecoverTerminalKeeps ==
    ASSUME IInv, NEW c \in Commands, RecoverTerminal(c)
    PROVE  Keeps
<1>1. /\ checkpoint' = Advanced(c) /\ mirror' = Reconciled(c)
      /\ UNCHANGED <<cache, canon, journal, view, asked, prep, queue, proc, faults, receipts>>
      /\ UNCHANGED backend /\ server' = server
  BY DEF RecoverTerminal, realm, backend
<1>2. Served
  BY <1>1, ClientServed
<1>3. mirror' = [d \in Commands |-> mirror'[d]] /\ \A d \in Commands : MirrorMove(d)
  BY <1>1, ReconciledMoves
<1>4. Moved
  BY <1>1, <1>2, <1>3, MirrorsMove
<1>5. Steady /\ Backs /\ checkpoint' \in Nat /\ checkpoint' <= server.rev
  BY <1>1, AdvanceBacked
<1>6. CacheWell'
  <2>1. canon.rev \in Nat
    BY RevsTyped DEF IInv
  <2> QED BY <1>1, <1>4, <1>5, <2>1 DEF IInv, CacheWell, Moved
<1>7. QueueWell' /\ ProcsWell'
  BY <1>1, <1>4, ProcsStay
<1> QED BY <1>4, <1>5, <1>6, <1>7 DEF Moved, IInv, Keeps

\* The recovery of a quarantine keeps the invariant: it rolls back only what is open.
LEMMA RecoverQuarantinedKeeps ==
    ASSUME IInv, NEW c \in Commands, RecoverQuarantined(c)
    PROVE  Keeps
<1> DEFINE root == IF mirror[c].root = 0 THEN c ELSE mirror[c].root
<1>1. /\ mirror[c].status = "rollback_pending" /\ mirror[c] # NoMirror
      /\ UNCHANGED <<cache, canon, checkpoint, journal, view, asked, prep, queue, faults, receipts>>
      /\ UNCHANGED backend /\ server' = server
  BY DEF RecoverQuarantined, NoMirror, backend
<1>2. MirrorWell(c)
  BY MirrorIs DEF IInv
<1>3. root \in Commands
  <2>1. mirror[c].root \in 0 .. MaxCommands
    BY <1>2, MirrorShape
  <2> QED BY <2>1, InteractionsAssumption DEF Commands
<1>4. CASE /\ journal[root].state \in Open
           /\ proc' = [proc EXCEPT !["replay"] =
                        [Idle EXCEPT !.at = "reject", !.cmd = root, !.kind = "rejected"]]
           /\ mirror' = mirror
  <2>1. StepsAside
    BY <1>1, <1>4 DEF StepsAside
  <2>2. Moved /\ Journals' = Journals
    BY <2>1, AsideMoves
  <2>3. ProcsWell /\ Grown
    BY <1>1, <1>4, Quiet DEF IInv
  <2> HIDE DEF root
  <2> PICK x : x = [Idle EXCEPT !.at = "reject", !.cmd = root, !.kind = "rejected"]
    OBVIOUS
  <2>4. /\ x = [at |-> x.at, cmd |-> x.cmd, recovery |-> x.recovery, was |-> x.was,
                kind |-> x.kind, work |-> x.work]
        /\ x.at = "reject" /\ x.cmd = root /\ x.kind = "rejected"
    BY DEF Idle
  <2>5. proc' = [proc EXCEPT !["replay"] = x]
    BY <1>4
  <2>6. proc'["replay"] = x
    BY <2>3, <2>5 DEF ProcsWell, ProcWell, Procs
  <2>7. root \in Journals
    BY <1>3, <1>4 DEF Journals, Open
  <2>8. Rejection(proc["replay"])' /\ Replays(proc["replay"])'
    BY <1>3, <2>2, <2>4, <2>6, <2>7 DEF Rejection, Replays, RejectStages
  <2>9. ProcsWell'
    BY <1>1, <2>3, <2>4, <2>5, <2>8, ReplayGoes
  <2>10. QueueWell'
    BY <1>1, <2>2, QueueSame
  <2> QED BY <2>1, <2>9, <2>10, AsideKeepsAll
<1>5. CASE /\ \/ mirror' = [mirror EXCEPT ![c].status = "conflict", ![c].root = 0]
              \/ mirror' = Reconciled(root)
           /\ proc' = proc
  <2>1. mirror' = [d \in Commands |-> mirror'[d]] /\ \A d \in Commands : MirrorMove(d)
    <3>1. CASE mirror' = [mirror EXCEPT ![c].status = "conflict", ![c].root = 0]
      <4>1. mirror \in [Commands -> Mirror(AskedOnes)]
        BY DEF IInv, MirrorsWell
      <4>2. /\ mirror'[c] = [mirror[c] EXCEPT !.status = "conflict", !.root = 0]
            /\ \A d \in Commands \ {c} : mirror'[d] = mirror[d]
        BY <3>1, <4>1
      <4>3. mirror' = [d \in Commands |-> mirror'[d]]
        BY <3>1, <4>1
      <4> QED BY <1>1, <4>2, <4>3, RetiredMoves
    <3>2. CASE mirror' = Reconciled(root)
      <4> HIDE DEF root
      <4> QED BY <1>1, <1>3, <3>2, ReconciledMoves
    <3> QED BY <1>5, <3>1, <3>2
  <2>2. Served
    BY <1>1, ClientServed
  <2>3. Moved
    BY <1>1, <2>1, <2>2, MirrorsMove
  <2>4. QueueWell' /\ ProcsWell'
    BY <1>1, <1>5, <2>3, ProcsStay
  <2> QED BY <1>1, <2>2, <2>3, <2>4, QuietKeeps
<1> QED BY <1>4, <1>5 DEF RecoverQuarantined

\* What is sent again keeps the invariant.
LEMMA RedispatchKeeps ==
    ASSUME IInv, NEW c \in Commands, Redispatch(c)
    PROVE  Keeps
<1>1. /\ journal[c].state # "none" /\ Enqueue(c, TRUE) /\ proc["replay"].at = "idle"
      /\ UNCHANGED <<cache, canon, checkpoint, journal, mirror, view, asked, prep, proc, faults, receipts>>
      /\ UNCHANGED backend /\ server' = server
  BY DEF Redispatch, Recoverable, stored, backend
<1>2. Served
  BY <1>1, ClientServed
<1>3. Moved
  BY <1>1, <1>2, ProcsMove
<1>4. QueueWell' /\ queue' # <<>>
  BY <1>1, <1>3, EnqueueKeeps DEF IInv, Moved
<1>5. Grown
  BY <1>1, Quiet
<1>6. ProcsWell'
  BY <1>1, <1>4, <1>5, ProcsGrow DEF IInv
<1> QED BY <1>1, <1>2, <1>3, <1>4, <1>6, QuietKeeps

\* The lookup of a mirror without a journal keeps the invariant.
LEMMA LookUpOrphanKeeps ==
    ASSUME IInv, NEW c \in Commands, LookUpOrphan(c)
    PROVE  Keeps
<1>1. /\ StepsAside /\ queue' = queue
      /\ proc' = [proc EXCEPT !["replay"] = [Idle EXCEPT !.at = "restore", !.cmd = c]]
      /\ journal[c] = NoJournal /\ mirror[c] # NoMirror /\ prep[c].at = "none"
  BY DEF LookUpOrphan, Recoverable, StepsAside, stored, NoMirror
<1>2. Moved
  BY <1>1, AsideMoves
<1>3. Grown
  BY <1>1, Quiet DEF StepsAside, backend
<1> PICK x : x = [Idle EXCEPT !.at = "restore", !.cmd = c]
  OBVIOUS
<1>4. /\ x = [at |-> x.at, cmd |-> x.cmd, recovery |-> x.recovery, was |-> x.was,
              kind |-> x.kind, work |-> x.work]
      /\ x.at = "restore" /\ x.cmd = c
  BY DEF Idle
<1>5. proc' = [proc EXCEPT !["replay"] = x]
  BY <1>1
<1>6. proc'["replay"] = x
  BY <1>5 DEF IInv, ProcsWell, ProcWell, Procs
<1>7. Rejection(proc["replay"])' /\ Replays(proc["replay"])'
  BY <1>1, <1>4, <1>6 DEF Rejection, Replays, RejectStages, StepsAside
<1>8. ProcsWell'
  BY <1>1, <1>3, <1>4, <1>5, <1>7, ReplayGoes DEF IInv
<1>9. QueueWell'
  BY <1>1, <1>2, QueueSame
<1> QED BY <1>1, <1>8, <1>9, AsideKeepsAll

\* What a mirror without a journal is restored to.
LEMMA RestoredTyped ==
    ASSUME IInv, NEW c \in Commands, mirror[c] # NoMirror, ~RestsOnRefused(c), Restorable(c)
    PROVE  Restored(c) \in Changes(AskedOnes) /\ Names(c, Restored(c)) /\ c \in AskedOnes
<1> DEFINE S == {d \in mirror[c].preds : journal[d].state = "confirmed"}
           x == IF mirror[c].change # NoChange THEN mirror[c].change
                ELSE Compensation(c, cache[RowOf(c)])
<1>1. MirrorWell(c) /\ c \in AskedOnes /\ Names(c, mirror[c].change)
  BY MirrorIs DEF IInv, MirrorWell
<1>2. mirror[c].change \in Changes(AskedOnes) /\ mirror[c].preds \in SUBSET Commands
  BY <1>1, MirrorShape
<1>3. /\ AskedOnes \in SUBSET Commands /\ Journaled(AskedOnes)
  BY ChangesKnown
<1>4. x \in Changes(AskedOnes) /\ Names(c, x)
  <2>1. CASE mirror[c].change # NoChange
    BY <1>1, <1>2, <2>1
  <2>2. CASE mirror[c].change = NoChange
    <3>1. Undoable(asked[c].undoes, cache[RowOf(c)])
      BY <2>2 DEF Restorable
    <3>2. asked[c].undoes # 0
      BY <1>1, <1>3, <2>2, Nothing DEF Names
    <3>3. cache[RowOf(c)] \in FullRows(AskedOnes)
      BY <1>1, <1>3 DEF RowOf, IInv, AskedWell, Asks, CacheWell, RowsOf
    <3>4. Compensation(c, cache[RowOf(c)]) \in Changes(AskedOnes)
      BY <1>1, <3>1, <3>2, <3>3, CompensationTyped
    <3> QED BY <2>2, <3>2, <3>4 DEF Names
  <2> QED BY <2>1, <2>2
<1>5. Restored(c) = Rebase(x, Accepted(S))
  BY DEF Restored
<1>6. ChangesOf(AskedOnes, Accepted(S))
  <2>1. S \in SUBSET Commands
    BY <1>2
  <2> HIDE DEF S
  <2> QED BY <1>3, <2>1, AcceptedTyped
<1> HIDE DEF S, x
<1>7. Restored(c) \in Changes(AskedOnes) /\ DOMAIN Restored(c).before = DOMAIN x.before
  BY <1>3, <1>4, <1>5, <1>6, RebaseTyped
<1> QED BY <1>1, <1>4, <1>7 DEF Names

\* The restoration of a mirror without a journal keeps the invariant.
LEMMA RestoreKeeps ==
    ASSUME IInv, Restore
    PROVE  Keeps
<1> DEFINE c == proc["replay"].cmd
           row == cache[RowOf(c)]
<1>1. /\ proc["replay"].at = "restore"
      /\ proc' = [proc EXCEPT !["replay"] = Idle]
      /\ UNCHANGED <<asked, canon, checkpoint, mirror, faults>> /\ UNCHANGED backend
      /\ receipts' = receipts /\ server' = server
  BY DEF Restore, backend
<1>2. c \in Commands /\ journal[c] = NoJournal /\ mirror[c] # NoMirror /\ prep[c].at = "none"
  BY <1>1 DEF IInv, ProcsWell, Replays
<1>3. c \in AskedOnes /\ MirrorWell(c)
  BY <1>2, MirrorIs DEF IInv, MirrorWell
<1>4. Kept0
  BY <1>1, ClientSide
<1>5. prep \in [Commands -> Prep(AskedOnes)] /\ \A d \in Commands : d < c => prep[d].at \notin Reads
  <2>1. prep[c].at \notin Reads
    BY <1>2 DEF Reads
  <2> QED BY <1>3, <2>1, InOrder DEF IInv, PrepsWell
<1>6. CASE UNCHANGED <<cache, view, journal, queue>> /\ (prep' = prep \/ prep' = [prep EXCEPT ![c].at = "archiving"])
  <2>1. Kept0 /\ CacheWell' /\ JournalsWell' /\ Steady /\ Backs /\ Grown
        /\ Journals' = Journals
    BY <1>1, <1>6, AsideKeeps, Calm
  <2>2. MirrorsWell'
    BY <1>1, <2>1, MirrorsFrame DEF IInv
  <2>3. PrepsWell'
    <3>1. CASE prep' = prep
      BY <1>1, <1>6, <2>1, <3>1, PrepsFrame DEF IInv
    <3>2. CASE prep' = [prep EXCEPT ![c].at = "archiving"]
      <4>1. "archiving" \in PrepStages \ Reads /\ "archiving" # "archived" /\ "archiving" # "prepared"
        BY DEF PrepStages, Reads
      <4> HIDE DEF c
      <4> QED BY <1>1, <1>2, <1>5, <1>6, <3>2, <4>1, PrepMoves DEF IInv
    <3> QED BY <1>6, <3>1, <3>2
  <2>4. QueueWell' /\ ProcsWell'
    BY <1>1, <1>6, <2>1, QueueFrame, ReplayIdles DEF IInv
  <2> QED BY <2>1, <2>2, <2>3, <2>4 DEF IInv, Kept0, Keeps
<1>7. CASE /\ ~RestsOnRefused(c) /\ Restorable(c)
           /\ cache' = [cache EXCEPT ![RowOf(c)] = PatchRow(row, Restored(c))]
           /\ view' = cache'
           /\ journal' = [journal EXCEPT ![c] = JournalOf(c, Restored(c))]
           /\ Enqueue(c, TRUE)
           /\ prep' = prep
  <2> PICK x : x = Restored(c)
    OBVIOUS
  <2>1. x \in Changes(AskedOnes) /\ Names(c, x)
    BY <1>2, <1>7, RestoredTyped
  <2>2. CacheWell'
    <3>1. RowOf(c) \in Keys
      BY <1>2 DEF RowOf, IInv, AskedWell, Asks
    <3>2. cache' = [cache EXCEPT ![RowOf(c)] = PatchRow(cache[RowOf(c)], x)]
      BY <1>7
    <3> HIDE DEF c
    <3>3. cache' \in RowsOf(AskedOnes)
      BY <2>1, <3>1, <3>2, CachePatched
    <3> QED BY <1>1, <1>4, <1>7, <3>3 DEF IInv, CacheWell, Kept0
  <2> PICK j : j = JournalOf(c, x)
    OBVIOUS
  <2>3. j \in Journal(AskedOnes) /\ j.state = "active" /\ j.preds \subseteq 1 .. c - 1 /\ j.change = x
    BY <1>2, <1>3, <2>1, JournalOfTyped
  <2>4. journal' = [journal EXCEPT ![c] = j]
    BY <1>7
  <2>5. Names(c, j.change) /\ j.state \notin {"none", "confirmed"}
    BY <2>1, <2>3
  <2> HIDE DEF c, row
  <2>6. JournalAdded(c, j)
    BY <1>1, <1>2, <1>3, <2>3, <2>4, <2>5, NewJournal
  <2>7. MirrorsWell'
    BY <1>1, <2>6, MirrorsFrame DEF IInv, JournalAdded
  <2>8. PrepsWell'
    <3>1. prep[c].at \notin Reads \cup Writes
      BY <1>2 DEF Reads, Writes
    <3>2. \A d \in Commands : prep[d].at \in Reads \cup Writes => journal'[d] = journal[d]
      BY <2>6, <3>1 DEF JournalAdded
    <3> QED BY <1>1, <1>7, <2>6, <3>2, PrepsFrame DEF IInv, JournalAdded
  <2>9. Grown
    <3>1. server.rev \in Nat /\ canon.rev \in Nat
      BY RevsTyped DEF IInv
    <3> QED BY <1>1, <1>4, <2>6, <3>1 DEF Grown, Kept0, JournalAdded
  <2>10. Steady /\ Backs
    <3>1. NoJournal.state = "none"
      BY DEF NoJournal
    <3>2. \A d \in Commands : journal[d].state = "confirmed" => journal'[d] = journal[d]
      BY <1>2, <2>6, <3>1 DEF JournalAdded
    <3> QED BY <1>1, <3>2, Calm
  <2>11. QueueWell' /\ queue' # <<>>
    <3>1. journal'[c].state # "none"
      BY <2>3, <2>6 DEF JournalAdded
    <3> QED BY <1>2, <1>7, <2>6, <3>1, EnqueueKeeps DEF IInv, JournalAdded
  <2>12. ProcsWell'
    BY <1>1, <2>9, <2>11, ReplayIdles DEF IInv
  <2> QED BY <1>4, <2>2, <2>6, <2>7, <2>8, <2>10, <2>11, <2>12 DEF IInv, Kept0, JournalAdded, Keeps
<1> QED BY <1>6, <1>7 DEF Restore, SetPrep, Current

\* refreshConnectedAuthoritativeCache keeps the invariant.
LEMMA RefreshKeeps ==
    ASSUME IInv, Refresh
    PROVE  Keeps
<1>1. /\ cache' = server.rows /\ canon' = server /\ checkpoint' = server.rev /\ view' = cache'
      /\ UNCHANGED <<journal, mirror, asked, prep, queue, proc, faults>> /\ UNCHANGED backend
      /\ server' = server
  BY DEF Refresh, backend
<1>2. Served
  BY <1>1, ClientServed
<1>3. Moved
  BY <1>1, <1>2, ProcsMove
<1>4. /\ server.rev \in Nat /\ canon.rev \in Nat /\ canon.rev <= server.rev
  BY RevsTyped DEF IInv, CacheWell
<1>5. server \in Snapshot(AskedOnes) /\ server.rows \in RowsOf(AskedOnes)
  <2>1. Committed \subseteq AskedOnes
    BY ChangesKnown
  <2>2. server \in Snapshot(Committed) /\ server.rows \in RowsOf(Committed)
    BY RevsTyped DEF IInv, ServerWell
  <2> QED BY <2>1, <2>2, SnapshotGrows
<1>6. CacheWell' /\ Steady /\ Backs
  BY <1>1, <1>3, <1>4, <1>5 DEF CacheWell, CheckpointIsBacked, Moved, Steady, Backs
<1>7. Grown
  BY <1>1, <1>3, <1>4 DEF Grown, Moved, Unsettled
<1>8. proc["replay"].at = "restore" => proc["replay"].cmd \in Commands
  BY DEF IInv, ProcsWell, Replays
<1>9. QueueWell' /\ ProcsWell'
  BY <1>1, <1>3, <1>7, <1>8, QueueSame, ProcsGrow DEF IInv
<1> QED BY <1>3, <1>6, <1>9 DEF Moved, IInv, Keeps

\* A reload keeps the invariant.
LEMMA ReloadKeeps ==
    ASSUME IInv, Reload
    PROVE  Keeps
<1>1. /\ prep' = [c \in Commands |-> Ready] /\ queue' = <<>>
      /\ proc' = [p \in Procs |-> Idle] /\ view' = cache /\ Fault
      /\ UNCHANGED <<asked, cache, canon, checkpoint, journal, mirror>> /\ UNCHANGED backend
      /\ server' = server
  BY DEF Reload, stored, backend, Procs
<1>2. /\ AskedWell' /\ ServerWell' /\ AskedOnes' = AskedOnes /\ Committed' = Committed
      /\ faults' \in 0 .. MaxFaults
  BY <1>1, ClientSide DEF Kept0
<1>3. JournalsWell' /\ MirrorsWell' /\ Journals' = Journals
  <2>1. Journals' = Journals
    BY <1>1 DEF Journals
  <2>2. UNCHANGED receipts
    BY <1>1 DEF backend
  <2> QED BY <1>1, <2>1, <2>2, JournalsFrame, MirrorsFrame DEF IInv
<1>4. PrepsWell'
  <2>1. /\ Ready = [at |-> "none", seen |-> NoRow] /\ Ready.at = "none" /\ "none" \in PrepStages
        /\ "none" \notin Reads \cup Writes \cup {"target", "archived", "prepared"}
    BY DEF Ready, PrepStages, Reads, Writes
  <2>2. Ready \in Prep(AskedOnes')
    BY <2>1 DEF Prep
  <2> QED BY <1>1, <2>1, <2>2 DEF PrepsWell
<1>5. CacheWell' /\ Steady /\ Backs
  BY <1>1, <1>2, Calm DEF IInv, CacheWell
<1>6. QueueWell'
  BY <1>1 DEF QueueWell
<1>7. ProcsWell'
  <2>1. /\ Idle.at = "idle"
        /\ Idle = [at |-> Idle.at, cmd |-> Idle.cmd, recovery |-> Idle.recovery, was |-> Idle.was,
                   kind |-> Idle.kind, work |-> Idle.work]
    BY DEF Idle
  <2>2. proc'["flight"] = Idle /\ proc'["replay"] = Idle
    BY <1>1 DEF Procs
  <2>3. ProcWell'
    BY <1>1, <2>1 DEF ProcWell
  <2>4. Rejection(proc["flight"])' /\ Rejection(proc["replay"])' /\ Replays(proc["replay"])'
    BY <2>1, <2>2 DEF Rejection, Replays, RejectStages
  <2>5. Sends(proc["flight"])' /\ Recovers(proc["flight"])'
    BY <2>1, <2>2 DEF Sends, Recovers, FlightStages
  <2> QED BY <2>3, <2>4, <2>5 DEF ProcsWell
<1> QED BY <1>2, <1>3, <1>4, <1>5, <1>6, <1>7 DEF IInv, Keeps

-----------------------------------------------------------------------------
(* The theorems *)

\* A click and its preparation.
LEMMA PrepareKeeps ==
    ASSUME IInv, NEW c \in Commands, Begin(c) \/ Prepare(c)
    PROVE  Keeps
<1>1. IInv'
  BY BeginKeeps, ReadPendingKeeps, ReadTargetKeeps, PersistKeeps, ArchiveKeeps, ArchivedKeeps,
     DispatchKeeps DEF Prepare
<1>2. UNCHANGED <<canon, checkpoint>>
  BY DEF Begin, Prepare, ReadPending, ReadTarget, Persist, Archive, Archived, Dispatch, stored
<1>3. CASE journal' = journal
  BY <1>1, <1>2, <1>3, Calm DEF Keeps
<1>4. CASE Persist(c) \/ Archive(c)
  <2>1. prep[c].at \in Writes
    BY <1>4 DEF Persist, Archive, Writes
  <2>2. journal[c] = NoJournal /\ NoJournal.state = "none"
    BY <2>1 DEF IInv, PrepsWell, NoJournal
  <2>3. \E j : journal' = journal \/ journal' = [journal EXCEPT ![c] = j]
    BY <1>4 DEF Persist, Archive
  <2>4. journal \in [Commands -> Journal(AskedOnes)]
    BY DEF IInv, JournalsWell
  <2>5. \A d \in Commands : journal[d].state = "confirmed" => journal'[d] = journal[d]
    BY <2>2, <2>3, <2>4
  <2> QED BY <1>1, <1>2, <2>5, Calm DEF Keeps
<1>5. (Begin(c) \/ Prepare(c)) => (journal' = journal \/ Persist(c) \/ Archive(c))
  BY DEF Begin, Prepare, ReadPending, ReadTarget, Archived, Dispatch, stored
<1> QED BY <1>3, <1>4, <1>5

\* A send.
LEMMA SendKeeps ==
    ASSUME IInv, Send
    PROVE  Keeps
BY SendStartsKeeps, LookupKeeps, CheckPredecessorsKeeps, RequestKeeps, ReadLaterKeeps,
   SettleKeeps, SettledKeeps, KeepConfirmedKeeps, KeptKeeps, SampleKeeps, ReadReceiptsKeeps,
   ReadRemoteKeeps, InstallKeeps, InstalledKeeps DEF Send

\* A rejection, by the send or by the recovery.
LEMMA RejectKeeps ==
    ASSUME IInv, NEW p \in Procs, Reject(p)
    PROVE  Keeps
BY RejectReadsKeeps, RollsBackKeeps, RetireKeeps, QuarantinesKeeps, QuarantinesBlindlyKeeps,
   QuarantinesJournalsKeeps DEF Reject

\* A recovery.
LEMMA RecoverKeeps ==
    ASSUME IInv, NEW c \in Commands, Recover(c)
    PROVE  Keeps
BY RecoverTerminalKeeps, RecoverQuarantinedKeeps, RedispatchKeeps, LookUpOrphanKeeps DEF Recover

\* The server and the other clients.
LEMMA BackendKeeps ==
    ASSUME IInv, \/ \E x \in late : LateCopy(x)
                 \/ \E k \in Keys, f \in Fields \ {"updatedAt"} : OtherCommit(k, f)
    PROVE  Keeps
<1>1. IInv'
  BY LateCopyKeeps, OtherCommitKeeps
<1>2. UNCHANGED <<journal, canon, checkpoint>>
  BY DEF LateCopy, OtherCommit, stored
<1> QED BY <1>1, <1>2, Calm DEF Keeps

\* Nothing at all.
LEMMA StutterKeeps ==
    ASSUME IInv, UNCHANGED vars
    PROVE  Keeps
<1>1. UNCHANGED backend /\ UNCHANGED stored /\ UNCHANGED realm /\ UNCHANGED <<faults, asked, journal, canon, checkpoint>>
  BY DEF vars, backend, stored, realm
<1>2. Served
  BY <1>1, ClientServed
<1>3. IInv'
  BY <1>1, <1>2, ServerStepKeeps
<1> QED BY <1>1, <1>3, Calm DEF Keeps

\* Every step.
LEMMA StepKeeps ==
    ASSUME IInv, [Next]_vars
    PROVE  Keeps
<1>1. CASE \E c \in Commands : Begin(c) \/ Prepare(c) \/ Recover(c)
  BY <1>1, PrepareKeeps, RecoverKeeps
<1>2. CASE Send
  BY <1>2, SendKeeps
<1>3. CASE SendFails \/ Denied
  BY <1>3, SendFailsKeeps, DeniedKeeps
<1>4. CASE \E p \in {"flight", "replay"} : Reject(p)
  BY <1>4, RejectKeeps DEF Procs
<1>5. CASE Restore \/ Refresh \/ Reload
  BY <1>5, RestoreKeeps, RefreshKeeps, ReloadKeeps
<1>6. CASE \/ \E x \in late : LateCopy(x)
           \/ \E k \in Keys, f \in Fields \ {"updatedAt"} : OtherCommit(k, f)
  BY <1>6, BackendKeeps
<1>7. CASE UNCHANGED vars
  BY <1>7, StutterKeeps
<1> QED BY <1>1, <1>2, <1>3, <1>4, <1>5, <1>6, <1>7 DEF Next

\* The invariant implies the type invariant.
LEMMA InvTypes ==
    ASSUME IInv
    PROVE  TypeOK
<1>1. /\ server.rev \in Nat /\ canon.rev \in 0 .. server.rev /\ checkpoint \in 0 .. server.rev
  BY RevsTyped DEF IInv, CacheWell
<1>2. ASSUME NEW k \in Keys
      PROVE  {cache[k], canon.rows[k], server.rows[k]} \subseteq [Fields -> Values]
  <2>1. cache[k] \in FullRows(AskedOnes) /\ canon.rows[k] \in FullRows(AskedOnes)
        /\ server.rows[k] \in FullRows(Committed)
    BY RevsTyped DEF IInv, CacheWell, RowsOf
  <2> QED BY <2>1 DEF FullRows
<1>3. ASSUME NEW c \in Commands
      PROVE  /\ journal[c].state \in {"none"} \cup Open \cup Terminal
             /\ mirror[c].status \in {"absent", "pending", "unknown", "projection_pending"} \cup Closed
             /\ mirror[c].preds \subseteq 1 .. c - 1
             /\ journal[c].state = "confirmed" => journal[c].rev \in 1 .. server.rev
             /\ asked[c] # NotAsked /\ mirror[c] = NoMirror => journal[c] # NoJournal
  <2>1. journal[c].state \in JournalStates
    BY DEF IInv, JournalsWell, Journal
  <2>2. MirrorWell(c)
    BY MirrorIs DEF IInv
  <2>3. mirror[c].status \in MirrorStatuses
    BY <2>2, MirrorShape
  <2>4. journal[c].state = "confirmed" => journal[c].rev \in 1 .. server.rev
    <3>1. receipts[c].rev \in Nat /\ receipts[c].rev <= server.rev
      BY DEF IInv, ServerWell, Receipt
    <3>2. journal[c].state = "confirmed" => journal[c].rev = receipts[c].rev /\ receipts[c].rev # 0
      BY DEF IInv, JournalsWell, Committed
    <3> QED BY <1>1, <3>1, <3>2
  <2> QED BY <2>1, <2>2, <2>3, <2>4 DEF JournalStates, MirrorStatuses, MirrorWell, AskedOnes, NoJournal
<1> QED BY <1>1, <1>2, <1>3 DEF TypeOK, IInv, QueueWell

\* The inductive invariant holds in every state, for any number of clicks, fields,
\* commits of others and faults, and however the sends and the recoveries of the
\* tab run beside each other.
THEOREM Invariant == Spec => []IInv
<1>1. IInv /\ [Next]_vars => IInv'
  BY StepKeeps DEF Keeps
<1> QED BY <1>1, InitHolds, PTL DEF Spec

\* Every variable of the optimistic interactions keeps its shape, whatever answers
\* are lost, transactions fail and rejections overlap with sends: no journal,
\* snapshot or checkpoint runs ahead of the server's revision, and the mirror of a
\* click in localStorage goes only when IndexedDB has its journal
\* (instantCommandClient.ts).
THEOREM TypeCorrect == Spec => []TypeOK
<1>1. IInv => TypeOK
  BY InvTypes
<1> QED BY <1>1, Invariant, PTL

\* lastSyncedVersion claims no revision whose change the cache does not hold: each
\* one is in the installed snapshot or is that of a confirmed interaction
\* (advanceConfirmedCheckpoint, recoverAuthoritativeProjection), as long as no
\* rejection of the recovery has read what a send confirms before it saves it
\* (instantCommandClient.ts:249).
THEOREM CheckpointBacked == Spec /\ []NothingUndercut => []CheckpointIsBacked
<1>1. Init => CheckpointIsBacked
  BY DEF Init, CheckpointIsBacked
<1>2. IInv /\ [Next]_vars /\ NothingUndercut /\ CheckpointIsBacked => CheckpointIsBacked'
  BY StepKeeps DEF Keeps, Backs
<1> QED BY <1>1, <1>2, Invariant, PTL DEF Spec

\* What is confirmed stays confirmed, at its revision: no settlement, quarantine,
\* restoration, installed snapshot or rejection by a send reopens it, across
\* reloads and lost answers; a rejection of the recovery would, and only where it
\* has read what a send confirms before it saves it (instantCommandClient.ts:249).
THEOREM ConfirmedStaysSo == Spec /\ []NothingUndercut => ConfirmedStays
<1>1. IInv /\ [Next]_vars /\ NothingUndercut =>
        [\A c \in Commands : journal[c].state = "confirmed" =>
            journal'[c].state = "confirmed" /\ journal'[c].rev = journal[c].rev]_vars
  BY StepKeeps DEF Keeps, Steady
<1> QED BY <1>1, Invariant, PTL DEF Spec, ConfirmedStays
=============================================================================

--------------------------- MODULE OvershootProofs ---------------------------
(***************************************************************************)
(* Proof that the lists of a unit overshoot their limits by a bounded      *)
(* number of names.                                                        *)
(*                                                                         *)
(* An edit checks the limit against a list that others, checked before it, *)
(* are about to change, and then they change it.  The invariant orders the *)
(* requests by the time of their checks: what an edit will store, together *)
(* with everything that edits checked earlier may still add, fits the      *)
(* bound.  An edit that commits then moves its names from the second part  *)
(* to the first for later ones, and was counted with the names of earlier  *)
(* ones in its own turn.                                                   *)
(***************************************************************************)
EXTENDS CanvasProofs, FiniteSetTheorems

Editing(c) == req[c].at \in {"edit", "locked"}

\* The edits of one list that are checked and not committed.
Pending(u, list) == {c \in Clients : Editing(c) /\ req[c].unit = u /\ req[c].list = list}

Bound(list) == Limit(list) + (Cardinality(Clients) - 1) * MaxEdit

\* An order of the clients in which edits passed their checks.
Order(before) ==
    /\ \A c \in Clients : c \notin before[c]
    /\ \A c \in Clients : \A d \in before[c] : before[d] \subseteq before[c]
    /\ \A c, d \in Clients :
          (c # d /\ Editing(c) /\ Editing(d)) => (c \in before[d] \/ d \in before[c])

\* The names that edits of the same list, checked earlier, may still add.
Earlier(before, c) ==
    UNION {req[d].add : d \in before[c] \cap Pending(req[c].unit, req[c].list)}

\* What an edit stores if it commits next.
Result(c) == applyAddRemove(units[req[c].unit][req[c].list], req[c].add, req[c].remove)

EditsFit(before) ==
    \A c \in Clients : (Editing(c) /\ Exists(req[c].unit)) =>
        Cardinality(Result(c) \cup Earlier(before, c)) <= Bound(req[c].list)

\* What a request in progress carries keeps to the limits.
RequestFits(r) ==
    /\ r.at \in {"read", "edit", "locked"} => Cardinality(r.add) <= MaxEdit
    /\ r.at = "table" => Cardinality(r.columns) <= maxSelectedColumns
    /\ r.at \in {"get", "put"} =>
          /\ Cardinality(r.body.columns) <= maxSelectedColumns
          /\ Cardinality(r.body.rules) <= maxRuleIDs

RequestsFit == \A c \in Clients : RequestFits(req[c])

\* The inductive invariant.
OvershootInv ==
    /\ Inv
    /\ OvershootBounded
    /\ RequestsFit
    /\ \E before \in [Clients -> SUBSET Clients] : Order(before) /\ EditsFit(before)

-----------------------------------------------------------------------------
\* Induction on a finite set: a collection that has {}, and has T with one
\* more element of S when it has T, has S.
LEMMA SetInduction ==
  ASSUME NEW S, IsFiniteSet(S), NEW X, {} \in X,
         \A T \in SUBSET S : \A x \in S \ T : T \in X => T \cup {x} \in X
  PROVE  S \in X
  <1> DEFINE Missing == {T \in SUBSET S : T \notin X}
  <1>1. SUFFICES ASSUME Missing # {} PROVE FALSE
    OBVIOUS
  <1>2. IsWellFoundedOn(StrictSubsetOrdering(S), SUBSET S)
    BY FS_StrictSubsetOrderingWellFounded, FS_FiniteSubsetsOfFinite
  <1>3. PICK T \in Missing : \A U \in Missing : <<U, T>> \notin StrictSubsetOrdering(S)
    <2> HIDE DEF Missing
    <2>1. Missing \subseteq SUBSET S
      BY DEF Missing
    <2> QED BY <1>1, <1>2, <2>1, WFMin
  <1>4. PICK x \in T : TRUE
    OBVIOUS
  <1>5. T \ {x} \in X
    <2>1. <<T \ {x}, T>> \in StrictSubsetOrdering(S)
      BY DEF StrictSubsetOrdering
    <2> QED BY <1>3, <2>1
  <1>6. (T \ {x}) \cup {x} = T
    OBVIOUS
  <1> QED BY <1>5, <1>6

\* Two finite sets together have at most the elements of each.
LEMMA UnionAtMost ==
  ASSUME NEW S, IsFiniteSet(S), NEW T, IsFiniteSet(T)
  PROVE  IsFiniteSet(S \cup T) /\ Cardinality(S \cup T) <= Cardinality(S) + Cardinality(T)
  <1>1. /\ IsFiniteSet(S \cup T)
        /\ Cardinality(S \cup T) = Cardinality(S) + Cardinality(T) - Cardinality(S \cap T)
    BY FS_Union
  <1>2. IsFiniteSet(S \cap T)
    <2>1. S \cap T \in SUBSET S
      OBVIOUS
    <2> QED BY <2>1, FS_Subset
  <1>3. Cardinality(S) \in Nat /\ Cardinality(T) \in Nat /\ Cardinality(S \cap T) \in Nat
    BY <1>2, FS_CardinalityType
  <1> QED BY <1>1, <1>3

\* A set within one that fits.
LEMMA SmallerFits ==
  ASSUME NEW S, IsFiniteSet(S), NEW T \in SUBSET S, NEW n \in Int, Cardinality(S) <= n
  PROVE  IsFiniteSet(T) /\ Cardinality(T) <= n
  <1>1. IsFiniteSet(T) /\ Cardinality(T) <= Cardinality(S)
    BY FS_Subset
  <1>2. Cardinality(S) \in Nat /\ Cardinality(T) \in Nat
    BY <1>1, FS_CardinalityType
  <1> QED BY <1>1, <1>2

\* The union of the sets of Q, none larger than M.
LEMMA UnionSize ==
  ASSUME NEW Q, IsFiniteSet(Q), NEW M \in Nat, NEW f,
         \A q \in Q : IsFiniteSet(f[q]) /\ Cardinality(f[q]) <= M
  PROVE  /\ IsFiniteSet(UNION {f[q] : q \in Q})
         /\ Cardinality(UNION {f[q] : q \in Q}) <= Cardinality(Q) * M
  <1> DEFINE All(T) == UNION {f[q] : q \in T}
             X == {T \in SUBSET Q : /\ IsFiniteSet(All(T))
                                    /\ Cardinality(All(T)) <= Cardinality(T) * M}
  <1>1. {} \in X
    <2>1. All({}) = {}
      OBVIOUS
    <2> QED BY <2>1, FS_EmptySet
  <1>2. ASSUME NEW T \in SUBSET Q, NEW x \in Q \ T, T \in X
        PROVE  T \cup {x} \in X
    <2> DEFINE A == All(T)
               k == Cardinality(T)
    <2>1. All(T \cup {x}) = A \cup f[x]
      OBVIOUS
    <2>2. IsFiniteSet(A) /\ Cardinality(A) <= k * M
      BY <1>2
    <2>3. IsFiniteSet(f[x]) /\ Cardinality(f[x]) <= M
      OBVIOUS
    <2>4. k \in Nat /\ Cardinality(T \cup {x}) = k + 1
      BY FS_Subset, FS_AddElement, FS_CardinalityType
    <2> HIDE DEF A, k
    <2>5. IsFiniteSet(A \cup f[x]) /\ Cardinality(A \cup f[x]) <= Cardinality(A) + Cardinality(f[x])
      BY <2>2, <2>3, UnionAtMost
    <2>6. Cardinality(A) \in Nat /\ Cardinality(f[x]) \in Nat /\ Cardinality(A \cup f[x]) \in Nat
      BY <2>2, <2>3, <2>5, FS_CardinalityType
    <2>7. (k + 1) * M = k * M + M
      BY <2>4
    <2>8. k * M \in Nat
      BY <2>4
    <2>9. Cardinality(A \cup f[x]) <= (k + 1) * M
      BY <2>2, <2>3, <2>5, <2>6, <2>7, <2>8
    <2> QED BY <2>1, <2>4, <2>5, <2>9
  <1>3. Q \in X
    <2> HIDE DEF X
    <2> QED BY <1>1, <1>2, SetInduction
  <1> QED BY <1>3

\* The limits and the bounds are numbers, and a bound is at least its limit.
LEMMA BoundType ==
  ASSUME NEW list \in Lists
  PROVE  Bound(list) \in Int /\ Limit(list) \in Nat /\ Limit(list) <= Bound(list)
  <1> DEFINE m == Cardinality(Clients) - 1
  <1>1. IsFiniteSet(Clients) /\ Clients # {} /\ MaxEdit \in Nat /\ Limit(list) \in Nat
    BY CanvasAssumption DEF Limit
  <1>2. m \in Nat
    <2>1. Cardinality(Clients) \in Nat /\ Cardinality(Clients) # 0
      BY <1>1, FS_CardinalityType, FS_EmptySet
    <2> QED BY <2>1
  <1> HIDE DEF m
  <1>3. m * MaxEdit \in Nat
    BY <1>1, <1>2
  <1>4. Bound(list) = Limit(list) + m * MaxEdit
    BY DEF Bound, m
  <1> QED BY <1>1, <1>3, <1>4

\* A list within its limit, with what all clients but one may add to it.
LEMMA Room ==
  ASSUME NEW list \in Lists, NEW c \in Clients, NEW Q \in SUBSET (Clients \ {c}), NEW f,
         \A q \in Q : IsFiniteSet(f[q]) /\ Cardinality(f[q]) <= MaxEdit,
         NEW S, IsFiniteSet(S), Cardinality(S) <= Limit(list),
         NEW T, \A x \in T : x \in S \/ \E q \in Q : x \in f[q]
  PROVE  Cardinality(T) <= Bound(list)
  <1> DEFINE A == UNION {f[q] : q \in Q}
             n == Cardinality(Clients)
             k == Cardinality(Q)
  <1>1. IsFiniteSet(Clients) /\ n \in Nat /\ MaxEdit \in Nat /\ Limit(list) \in Nat
    BY CanvasAssumption, FS_CardinalityType DEF Limit
  <1>2. IsFiniteSet(Q) /\ k \in Nat /\ k <= n - 1
    <2>1. IsFiniteSet(Clients \ {c}) /\ Cardinality(Clients \ {c}) = n - 1
      BY <1>1, FS_RemoveElement
    <2>2. IsFiniteSet(Q) /\ k <= Cardinality(Clients \ {c})
      BY <2>1, FS_Subset
    <2>3. k \in Nat
      BY <2>2, FS_CardinalityType
    <2> QED BY <2>1, <2>2, <2>3
  <1>3. IsFiniteSet(A) /\ Cardinality(A) <= k * MaxEdit
    BY <1>1, <1>2, UnionSize
  <1> HIDE DEF A, k, n
  <1>4. k * MaxEdit <= (n - 1) * MaxEdit
    <2> DEFINE m == n - 1 - k
    <2>1. m \in Nat /\ (n - 1) * MaxEdit = k * MaxEdit + m * MaxEdit
      BY <1>1, <1>2
    <2>2. m * MaxEdit \in Nat /\ k * MaxEdit \in Nat
      BY <1>1, <1>2, <2>1
    <2> QED BY <2>1, <2>2
  <1>5. IsFiniteSet(S \cup A) /\ Cardinality(S \cup A) <= Cardinality(S) + Cardinality(A)
    BY <1>3, UnionAtMost
  <1>6. T \in SUBSET (S \cup A)
    BY DEF A
  <1>7. IsFiniteSet(T) /\ Cardinality(T) <= Cardinality(S \cup A)
    BY <1>5, <1>6, FS_Subset
  <1>8. /\ Cardinality(T) \in Nat /\ Cardinality(S \cup A) \in Nat
        /\ Cardinality(S) \in Nat /\ Cardinality(A) \in Nat
        /\ k * MaxEdit \in Nat /\ (n - 1) * MaxEdit \in Int
    BY <1>1, <1>2, <1>3, <1>5, <1>7, FS_CardinalityType
  <1>9. Cardinality(T) <= Limit(list) + (n - 1) * MaxEdit
    BY <1>1, <1>3, <1>4, <1>5, <1>7, <1>8
  <1> QED BY <1>9 DEF Bound, n

-----------------------------------------------------------------------------
\* What is stored, what edits add and so what they will store are names of
\* the list, and finitely many.
LEMMA ListsFinite ==
  ASSUME Inv
  PROVE  /\ \A u \in Units, list \in Lists : Exists(u) =>
               units[u][list] \subseteq Items(list) /\ IsFiniteSet(units[u][list])
         /\ \A c \in Clients : Editing(c) =>
               /\ req[c].list \in Lists /\ req[c].unit \in Units
               /\ req[c].add \subseteq Items(req[c].list) /\ IsFiniteSet(req[c].add)
         /\ \A before : \A c \in Clients : (Editing(c) /\ Exists(req[c].unit)) =>
               IsFiniteSet(Result(c) \cup Earlier(before, c))
  <1>1. \A list \in Lists : IsFiniteSet(Items(list))
    BY CanvasAssumption DEF Lists, Items
  <1>2. ASSUME NEW u \in Units, NEW list \in Lists, Exists(u)
        PROVE  units[u][list] \subseteq Items(list) /\ IsFiniteSet(units[u][list])
    <2>1. units[u] \in UnitRow
      BY <1>2 DEF Inv, TypeOK, Exists
    <2>2. units[u][list] \in SUBSET Items(list)
      BY <2>1 DEF UnitRow, Lists, Items
    <2> QED BY <1>1, <2>2, FS_Subset
  <1>3. ASSUME NEW c \in Clients, Editing(c)
        PROVE  /\ req[c].list \in Lists /\ req[c].unit \in Units
               /\ req[c].add \in SUBSET Items(req[c].list) /\ IsFiniteSet(req[c].add)
    <2>1. req[c] \in Requests
      BY DEF Inv, TypeOK
    <2>2. req[c].list \in Lists /\ req[c].unit \in Units
      BY <1>3, <2>1, Shapes DEF Editing
    <2>3. req[c].add \in SUBSET Items(req[c].list)
      BY <1>3 DEF Inv, UnitInv, Editing
    <2> QED BY <1>1, <2>2, <2>3, FS_Subset
  <1>4. ASSUME NEW before, NEW c \in Clients, Editing(c), Exists(req[c].unit)
        PROVE  IsFiniteSet(Result(c) \cup Earlier(before, c))
    <2>1. Result(c) \subseteq Items(req[c].list)
      BY <1>2, <1>3, <1>4 DEF Result, applyAddRemove
    <2>2. Earlier(before, c) \subseteq Items(req[c].list)
      BY <1>3 DEF Earlier, Pending
    <2>3. Result(c) \cup Earlier(before, c) \in SUBSET Items(req[c].list)
      BY <2>1, <2>2
    <2> QED BY <1>1, <1>3, <1>4, <2>3, FS_Subset
  <1> QED BY <1>2, <1>3, <1>4

\* A step that changes no list and begins no edit.
LEMMA QuietFits ==
  ASSUME OvershootInv, Inv', RequestsFit',
         \A c \in Clients : req'[c].at \in {"edit", "locked"} =>
             /\ Editing(c)
             /\ req'[c].unit = req[c].unit /\ req'[c].list = req[c].list
             /\ req'[c].add = req[c].add /\ req'[c].remove = req[c].remove,
         \A u \in Units : units'[u] # NoUnit =>
             Exists(u) /\ \A list \in Lists : units'[u][list] = units[u][list]
  PROVE  OvershootInv'
  <1>1. OvershootBounded'
    BY DEF OvershootInv, OvershootBounded, Exists
  <1>2. PICK before \in [Clients -> SUBSET Clients] : Order(before) /\ EditsFit(before)
    BY DEF OvershootInv
  <1>3. Order(before)'
    BY <1>2 DEF Order, Editing
  <1>4. ASSUME NEW c \in Clients, Editing(c)', Exists(req[c].unit)'
        PROVE  Cardinality(Result(c) \cup Earlier(before, c))' <= Bound(req'[c].list)
    <2>1. /\ Editing(c) /\ req'[c].unit = req[c].unit /\ req'[c].list = req[c].list
          /\ req'[c].add = req[c].add /\ req'[c].remove = req[c].remove
      BY <1>4 DEF Editing
    <2>2. req[c].unit \in Units /\ req[c].list \in Lists
      BY <2>1, ListsFinite DEF OvershootInv
    <2>3. Exists(req[c].unit) /\ Result(c)' = Result(c)
      BY <1>4, <2>1, <2>2 DEF Exists, Result
    <2>4. Earlier(before, c)' \subseteq Earlier(before, c)
      BY <2>1 DEF Earlier, Pending, Editing
    <2>5. (Result(c) \cup Earlier(before, c))' \in SUBSET (Result(c) \cup Earlier(before, c))
      BY <2>3, <2>4
    <2>6. IsFiniteSet(Result(c) \cup Earlier(before, c))
      BY <2>1, <2>3, ListsFinite DEF OvershootInv
    <2>7. Cardinality(Result(c) \cup Earlier(before, c)) <= Bound(req[c].list)
      BY <1>2, <2>1, <2>3 DEF EditsFit
    <2>8. Bound(req[c].list) \in Int
      BY <2>2, BoundType
    <2> QED BY <2>1, <2>5, <2>6, <2>7, <2>8, SmallerFits
  <1>5. EditsFit(before)'
    BY <1>4 DEF EditsFit
  <1> QED BY <1>1, <1>3, <1>5 DEF OvershootInv

\* A request passes the check and is the last to have passed it.
LEMMA BeginFits ==
  ASSUME OvershootInv, Inv', RequestsFit', NEW c \in Clients, NEW r, Continue(c, r),
         r.at = "edit", ~Editing(c), UNCHANGED units,
         r.unit \in Units, r.list \in Lists, r.add \subseteq Items(r.list), Exists(r.unit),
         Cardinality(applyAddRemove(units[r.unit][r.list], r.add, r.remove)) <= Limit(r.list)
  PROVE  OvershootInv'
  <1>1. /\ req'[c] = r
        /\ \A d \in Clients : d # c => req'[d] = req[d]
    BY DEF OvershootInv, Inv, TypeOK, Continue
  <1>2. OvershootBounded'
    BY DEF OvershootInv, OvershootBounded, Exists
  <1>3. PICK before \in [Clients -> SUBSET Clients] : Order(before) /\ EditsFit(before)
    BY DEF OvershootInv
  <1> DEFINE after == [d \in Clients |-> IF d = c THEN Clients \ {c} ELSE before[d] \ {c}]
  <1>4. after \in [Clients -> SUBSET Clients]
    BY <1>3
  <1>5. /\ after[c] = Clients \ {c}
        /\ \A d \in Clients : d # c => after[d] = before[d] \ {c}
    OBVIOUS
  <1> HIDE DEF after
  <1>6. Order(after)'
    <2>1. \A d \in Clients : d \notin after[d]
      BY <1>3, <1>5 DEF Order
    <2>2. ASSUME NEW d \in Clients, NEW e \in after[d]
          PROVE  after[e] \subseteq after[d]
      <3>1. e \in Clients /\ e # c
        BY <1>3, <1>5
      <3> QED BY <1>3, <1>5, <3>1 DEF Order
    <2>3. ASSUME NEW d \in Clients, NEW e \in Clients, d # e, Editing(d)', Editing(e)'
          PROVE  d \in after[e] \/ e \in after[d]
      <3>1. CASE d = c \/ e = c
        BY <1>5, <2>3, <3>1
      <3>2. CASE d # c /\ e # c
        BY <1>1, <1>3, <1>5, <2>3, <3>2 DEF Order, Editing
      <3> QED BY <3>1, <3>2
    <2> QED BY <2>1, <2>2, <2>3 DEF Order
  <1>7. ASSUME NEW d \in Clients, Editing(d)', Exists(req[d].unit)'
        PROVE  Cardinality(Result(d) \cup Earlier(after, d))' <= Bound(req'[d].list)
    <2>1. CASE d = c
      <3> DEFINE S == applyAddRemove(units[r.unit][r.list], r.add, r.remove)
                 Q == {e \in after[c] : Editing(e)}
                 f == [e \in Clients |-> req[e].add]
      <3>1. Q \in SUBSET (Clients \ {c})
        BY <1>5
      <3>2. \A e \in Q : IsFiniteSet(f[e]) /\ Cardinality(f[e]) <= MaxEdit
        BY <3>1, ListsFinite DEF OvershootInv, RequestsFit, RequestFits, Editing
      <3>3. IsFiniteSet(S)
        <4>1. units[r.unit][r.list] \subseteq Items(r.list) /\ IsFiniteSet(Items(r.list))
          BY ListsFinite, CanvasAssumption DEF OvershootInv, Items
        <4>2. S \in SUBSET Items(r.list)
          BY <4>1 DEF applyAddRemove
        <4> QED BY <4>1, <4>2, FS_Subset
      <3>4. Result(c)' = S
        BY <1>1 DEF Result
      <3>5. Earlier(after, c)' \subseteq UNION {f[e] : e \in Q}
        BY <1>1, <1>5 DEF Earlier, Pending, Editing
      <3> HIDE DEF S, Q, f
      <3>6. \A x \in (Result(c) \cup Earlier(after, c))' : x \in S \/ \E e \in Q : x \in f[e]
        BY <3>4, <3>5
      <3>7. Cardinality(S) <= Limit(r.list)
        BY DEF S
      <3>8. \A T : (\A x \in T : x \in S \/ \E e \in Q : x \in f[e]) => Cardinality(T) <= Bound(r.list)
        BY <3>1, <3>2, <3>3, <3>7, Room
      <3> QED BY <1>1, <2>1, <3>6, <3>8
    <2>2. CASE d # c
      <3>1. Editing(d) /\ req'[d] = req[d]
        BY <1>1, <1>7, <2>2 DEF Editing
      <3>2. req[d].unit \in Units /\ req[d].list \in Lists
        BY <3>1, ListsFinite DEF OvershootInv
      <3>3. Exists(req[d].unit) /\ Result(d)' = Result(d)
        BY <1>7, <3>1, <3>2 DEF Exists, Result
      <3>4. Earlier(after, d)' \subseteq Earlier(before, d)
        BY <1>1, <1>5, <2>2, <3>1 DEF Earlier, Pending, Editing
      <3>5. (Result(d) \cup Earlier(after, d))' \in SUBSET (Result(d) \cup Earlier(before, d))
        BY <3>3, <3>4
      <3>6. IsFiniteSet(Result(d) \cup Earlier(before, d))
        BY <3>1, <3>3, ListsFinite DEF OvershootInv
      <3>7. Cardinality(Result(d) \cup Earlier(before, d)) <= Bound(req[d].list)
        BY <1>3, <3>1, <3>3 DEF EditsFit
      <3>8. Bound(req[d].list) \in Int
        BY <3>2, BoundType
      <3> QED BY <3>1, <3>5, <3>6, <3>7, <3>8, SmallerFits
    <2> QED BY <2>1, <2>2
  <1>8. EditsFit(after)'
    BY <1>7 DEF EditsFit
  <1> QED BY <1>2, <1>4, <1>6, <1>8 DEF OvershootInv

\* A request that is no edit stores lists within the limits.
LEMMA WriteFits ==
  ASSUME OvershootInv, Inv', RequestsFit', NEW c \in Clients, ~Editing(c),
         req'[c].at \notin {"edit", "locked"},
         \A d \in Clients : d # c => req'[d] = req[d],
         \A u \in Units : units'[u] # NoUnit =>
             /\ Exists(u)
             /\ \A list \in Lists : \/ units'[u][list] = units[u][list]
                                    \/ /\ units'[u][list] \subseteq Items(list)
                                       /\ Cardinality(units'[u][list]) <= Limit(list)
  PROVE  OvershootInv'
  <1>1. \A list \in Lists : IsFiniteSet(Items(list))
    BY CanvasAssumption DEF Lists, Items
  <1>2. OvershootBounded'
    <2>1. ASSUME NEW u \in Units, NEW list \in Lists, units'[u] # NoUnit
          PROVE  Cardinality(units'[u][list]) <= Bound(list)
      <3>1. CASE units'[u][list] = units[u][list]
        BY <2>1, <3>1 DEF OvershootInv, OvershootBounded, Bound
      <3>2. CASE /\ units'[u][list] \in SUBSET Items(list)
                 /\ Cardinality(units'[u][list]) <= Limit(list)
        <4>1. IsFiniteSet(units'[u][list])
          BY <1>1, <3>2, FS_Subset
        <4>2. Cardinality(units'[u][list]) \in Nat
          BY <4>1, FS_CardinalityType
        <4> QED BY <3>2, <4>2, BoundType
      <3> QED BY <2>1, <3>1, <3>2
    <2> QED BY <2>1 DEF OvershootBounded, Exists, Bound
  <1>3. PICK before \in [Clients -> SUBSET Clients] : Order(before) /\ EditsFit(before)
    BY DEF OvershootInv
  <1>4. Order(before)'
    BY <1>3 DEF Order, Editing
  <1>5. ASSUME NEW d \in Clients, Editing(d)', Exists(req[d].unit)'
        PROVE  Cardinality(Result(d) \cup Earlier(before, d))' <= Bound(req'[d].list)
    <2> DEFINE u == req[d].unit
               list == req[d].list
    <2>1. d # c /\ Editing(d) /\ req'[d] = req[d]
      BY <1>5 DEF Editing
    <2>2. u \in Units /\ list \in Lists /\ units'[u] # NoUnit /\ Exists(u)
      BY <1>5, <2>1, ListsFinite DEF OvershootInv, Exists
    <2>3. Earlier(before, d)' \subseteq Earlier(before, d)
      BY <2>1 DEF Earlier, Pending, Editing
    <2>4. CASE units'[u][list] = units[u][list]
      <3>1. Result(d)' = Result(d)
        BY <2>1, <2>4 DEF Result
      <3>2. (Result(d) \cup Earlier(before, d))' \in SUBSET (Result(d) \cup Earlier(before, d))
        BY <2>3, <3>1
      <3>3. IsFiniteSet(Result(d) \cup Earlier(before, d))
        BY <2>1, <2>2, ListsFinite DEF OvershootInv
      <3>4. Cardinality(Result(d) \cup Earlier(before, d)) <= Bound(list)
        BY <1>3, <2>1, <2>2 DEF EditsFit
      <3>5. Bound(list) \in Int
        BY <2>2, BoundType
      <3> QED BY <2>1, <3>2, <3>3, <3>4, <3>5, SmallerFits
    <2>5. CASE /\ units'[u][list] \in SUBSET Items(list)
               /\ Cardinality(units'[u][list]) <= Limit(list)
      <3> DEFINE S == units'[u][list]
                 Q == {e \in before[d] \cup {d} : Editing(e)}
                 f == [e \in Clients |-> req[e].add]
      <3>1. Q \in SUBSET (Clients \ {c})
        BY <1>3
      <3>2. \A e \in Q : IsFiniteSet(f[e]) /\ Cardinality(f[e]) <= MaxEdit
        BY <3>1, ListsFinite DEF OvershootInv, RequestsFit, RequestFits, Editing
      <3>3. IsFiniteSet(S)
        BY <1>1, <2>2, <2>5, FS_Subset
      <3>4. req[d].add \subseteq UNION {f[e] : e \in Q}
        BY <2>1
      <3>5. Result(d)' \subseteq S \cup req[d].add
        BY <2>1 DEF Result, applyAddRemove
      <3>6. Earlier(before, d) \subseteq UNION {f[e] : e \in Q}
        BY <1>3 DEF Earlier, Pending
      <3>7. Cardinality(S) <= Limit(list)
        BY <2>5
      <3> HIDE DEF S, Q, f
      <3>8. \A x \in (Result(d) \cup Earlier(before, d))' : x \in S \/ \E e \in Q : x \in f[e]
        BY <2>3, <3>4, <3>5, <3>6
      <3>9. \A T : (\A x \in T : x \in S \/ \E e \in Q : x \in f[e]) => Cardinality(T) <= Bound(list)
        BY <2>2, <3>1, <3>2, <3>3, <3>7, Room
      <3> QED BY <2>1, <3>8, <3>9
    <2> QED BY <2>2, <2>4, <2>5
  <1>6. EditsFit(before)'
    BY <1>5 DEF EditsFit
  <1> QED BY <1>2, <1>4, <1>6 DEF OvershootInv

\* An edit commits the list that it locked, with its names.
LEMMA CommitFits ==
  ASSUME OvershootInv, Inv', RequestsFit', NEW c \in Clients, CommitList(c)
  PROVE  OvershootInv'
  <1> DEFINE u == req[c].unit
             list == req[c].list
  <1>1. /\ Editing(c) /\ u \in Units /\ list \in Lists /\ Exists(u)
        /\ req[c].at = "locked" /\ req[c].current = units[u][list]
    BY ListsFinite DEF CommitList, Editing, OvershootInv, Inv, UnitInv, LockedListIsCurrent
  <1>2. /\ req'[c] = Idle
        /\ \A d \in Clients : d # c => req'[d] = req[d]
    BY DEF OvershootInv, Inv, TypeOK, CommitList, Answer, Continue
  <1>3. /\ units'[u][list] = Result(c)
        /\ \A other \in Lists : other # list => units'[u][other] = units[u][other]
        /\ \A v \in Units : v # u => units'[v] = units[v]
    <2>1. units' = [units EXCEPT ![u] = [@ EXCEPT ![list] = Result(c)]]
      BY <1>1 DEF CommitList, Result
    <2>2. units \in [Units -> UnitRow \cup {NoUnit}] /\ units[u] \in UnitRow
      BY <1>1 DEF OvershootInv, Inv, TypeOK, Exists
    <2>3. units'[u] = [units[u] EXCEPT ![list] = Result(c)]
      BY <1>1, <2>1, <2>2
    <2>4. CASE list = "columns"
      BY <1>1, <2>1, <2>2, <2>3, <2>4 DEF UnitRow, Lists
    <2>5. CASE list = "rules"
      BY <1>1, <2>1, <2>2, <2>3, <2>5 DEF UnitRow, Lists
    <2> QED BY <1>1, <2>4, <2>5 DEF Lists
  <1>4. PICK before \in [Clients -> SUBSET Clients] : Order(before) /\ EditsFit(before)
    BY DEF OvershootInv
  <1> DEFINE All(d) == Result(d) \cup Earlier(before, d)
  <1>5. \A d \in Clients : (Editing(d) /\ Exists(req[d].unit)) =>
            /\ IsFiniteSet(All(d)) /\ Cardinality(All(d)) <= Bound(req[d].list)
            /\ Bound(req[d].list) \in Int
    BY <1>4, ListsFinite, BoundType DEF EditsFit, OvershootInv
  <1>6. OvershootBounded'
    <2>1. Result(c) \in SUBSET All(c)
      OBVIOUS
    <2> HIDE DEF All
    <2>2. Cardinality(units'[u][list]) <= Bound(list)
      BY <1>1, <1>3, <1>5, <2>1, SmallerFits
    <2>3. ASSUME NEW v \in Units, NEW other \in Lists, units'[v] # NoUnit
          PROVE  Cardinality(units'[v][other]) <= Bound(other)
      <3>1. CASE v = u /\ other = list
        BY <2>2, <3>1
      <3>2. CASE v # u \/ other # list
        BY <1>1, <1>3, <2>3, <3>2 DEF OvershootInv, OvershootBounded, Exists, Bound
      <3> QED BY <3>1, <3>2
    <2> QED BY <2>3 DEF OvershootBounded, Exists, Bound
  <1>7. Order(before)'
    <2>1. \A d \in Clients : Editing(d)' => Editing(d)
      BY <1>2 DEF Editing, Idle
    <2> QED BY <1>4, <2>1 DEF Order
  <1>8. ASSUME NEW d \in Clients, Editing(d)', Exists(req[d].unit)'
        PROVE  Cardinality(All(d)')  <= Bound(req'[d].list)
    <2>1. d # c /\ Editing(d) /\ req'[d] = req[d]
      BY <1>2, <1>8, IdleTyped DEF Editing, Idle
    <2>2. req[d].unit \in Units /\ req[d].list \in Lists /\ Exists(req[d].unit)
      BY <1>1, <1>3, <1>8, <2>1, ListsFinite DEF OvershootInv, Exists
    <2>3. Earlier(before, d)' \subseteq Earlier(before, d)
      <3>1. \A e \in Clients : Editing(e)' => req'[e] = req[e] /\ Editing(e)
        BY <1>2 DEF Editing, Idle
      <3> QED BY <2>1, <3>1 DEF Earlier, Pending
    <2>4. CASE req[d].unit # u \/ req[d].list # list
      <3>1. Result(d)' = Result(d)
        BY <1>3, <2>1, <2>2, <2>4 DEF Result
      <3>2. All(d)' \in SUBSET All(d)
        BY <2>3, <3>1
      <3> HIDE DEF All
      <3> QED BY <1>5, <2>1, <2>2, <3>2, SmallerFits
    <2>5. CASE req[d].unit = u /\ req[d].list = list
      <3>1. Result(d)' = (Result(c) \cup req[d].add) \ req[d].remove
        BY <1>3, <2>1, <2>5 DEF Result, applyAddRemove
      <3>2. CASE c \in before[d]
        <4>1. req[c].add \subseteq Earlier(before, d)
          BY <1>1, <2>5, <3>2 DEF Earlier, Pending
        <4>2. Result(d)' \subseteq Result(d) \cup req[c].add
          BY <2>5, <3>1 DEF Result, applyAddRemove
        <4>3. All(d)' \in SUBSET All(d)
          BY <2>3, <4>1, <4>2
        <4> HIDE DEF All
        <4> QED BY <1>5, <2>1, <2>2, <4>3, SmallerFits
      <3>3. CASE d \in before[c]
        <4>1. req[d].add \subseteq Earlier(before, c)
          BY <2>1, <2>5, <3>3 DEF Earlier, Pending
        <4>2. Earlier(before, d) \subseteq Earlier(before, c)
          BY <1>4, <2>5, <3>3 DEF Order, Earlier, Pending
        <4>3. All(d)' \in SUBSET All(c)
          BY <2>3, <3>1, <4>1, <4>2
        <4> HIDE DEF All
        <4> QED BY <1>1, <1>5, <2>1, <2>5, <4>3, SmallerFits
      <3> QED BY <1>1, <1>4, <2>1, <3>2, <3>3 DEF Order
    <2> QED BY <2>4, <2>5
  <1>9. EditsFit(before)'
    BY <1>8 DEF EditsFit
  <1> QED BY <1>6, <1>7, <1>9 DEF OvershootInv

-----------------------------------------------------------------------------
\* A request ends, or goes on with what it had.
LEMMA ContinueFits ==
  ASSUME OvershootInv, Inv', NEW c \in Clients, NEW r, Continue(c, r), RequestFits(r),
         r.at \in {"edit", "locked"} =>
             /\ Editing(c)
             /\ r.unit = req[c].unit /\ r.list = req[c].list
             /\ r.add = req[c].add /\ r.remove = req[c].remove,
         \A u \in Units : units'[u] # NoUnit =>
             Exists(u) /\ \A list \in Lists : units'[u][list] = units[u][list]
  PROVE  OvershootInv'
  <1>1. /\ req'[c] = r
        /\ \A d \in Clients : d # c => req'[d] = req[d]
    BY DEF OvershootInv, Inv, TypeOK, Continue
  <1>2. RequestsFit'
    BY <1>1 DEF OvershootInv, RequestsFit, RequestFits
  <1> QED BY <1>1, <1>2, QuietFits DEF Editing

LEMMA IdleFits == RequestFits(Idle) /\ Idle.at \notin {"edit", "locked"}
  BY DEF RequestFits, Idle

LEMMA AnswerFits ==
  ASSUME OvershootInv, Inv', NEW c \in Clients, Answer(c),
         \A u \in Units : units'[u] # NoUnit =>
             Exists(u) /\ \A list \in Lists : units'[u][list] = units[u][list]
  PROVE  OvershootInv'
  BY IdleFits, ContinueFits DEF Answer

\* The requests stay as they are, or are those of open saves.
LEMMA OthersFit ==
  ASSUME OvershootInv, Inv',
         \A c \in Clients : req'[c] = req[c] \/ req'[c].at \in Savers \cup {"idle"},
         \A u \in Units : units'[u] # NoUnit =>
             Exists(u) /\ \A list \in Lists : units'[u][list] = units[u][list]
  PROVE  OvershootInv'
  <1>1. RequestsFit'
    BY DEF OvershootInv, RequestsFit, RequestFits, Savers
  <1> QED BY <1>1, QuietFits DEF Editing, Savers

LEMMA UnitsSame ==
  ASSUME UNCHANGED units
  PROVE  \A u \in Units : units'[u] # NoUnit =>
             Exists(u) /\ \A list \in Lists : units'[u][list] = units[u][list]
  BY DEF Exists

\* The limit check ends a request or begins an edit that fits.
LEMMA CheckFits ==
  ASSUME OvershootInv, Inv', NEW c \in Clients, ~Editing(c), NEW u \in Units,
         NEW list \in Lists, NEW add \in SUBSET Items(list), NEW remove,
         CheckLimit(c, list, u, add, remove), Cardinality(add) <= MaxEdit, UNCHANGED units
  PROVE  OvershootInv'
  <1> DEFINE r == [at |-> "edit", list |-> list, unit |-> u, add |-> add, remove |-> remove]
  <1>1. CASE Answer(c)
    BY <1>1, AnswerFits, UnitsSame
  <1>2. CASE Exists(u) /\ WithinLimit(list, units[u][list], add, remove) /\ Continue(c, r)
    <2>1. /\ r.at = "edit" /\ r.list = list /\ r.unit = u /\ r.add = add /\ r.remove = remove
          /\ Continue(c, r)
      BY <1>2
    <2> HIDE DEF r
    <2>2. /\ req'[c] = r
          /\ \A d \in Clients : d # c => req'[d] = req[d]
      BY <2>1 DEF OvershootInv, Inv, TypeOK, Continue
    <2>3. RequestsFit'
      BY <2>1, <2>2 DEF OvershootInv, RequestsFit, RequestFits
    <2>4. Cardinality(applyAddRemove(units[r.unit][r.list], r.add, r.remove)) <= Limit(r.list)
      BY <1>2, <2>1 DEF WithinLimit
    <2> QED BY <1>2, <2>1, <2>3, <2>4, BeginFits
  <1> QED BY <1>1, <1>2 DEF CheckLimit

\* Requests that edit the list of a unit, up to the transaction.
LEMMA EditFits ==
  ASSUME OvershootInv, Inv', NEW c \in Clients, NEW u \in Units,
         \/ \E add, remove \in Small(Columns) : EditColumns(c, u, add, remove)
         \/ \E add, remove \in Small(RuleIds) : EditRules(c, u, add, remove)
         \/ \E columns \in Small(Columns) : ReplaceColumns(c, u, columns)
         \/ ReadUnit(c)
  PROVE  OvershootInv'
  <1>1. ASSUME NEW add \in Small(Columns), NEW remove \in Small(Columns),
               EditColumns(c, u, add, remove)
        PROVE  OvershootInv'
    <2>1. add \in SUBSET Items("columns") /\ Cardinality(add) <= MaxEdit
      BY DEF Small, Items
    <2>2. /\ CheckLimit(c, "columns", u, add, remove) /\ UNCHANGED units
          /\ ~Editing(c)
      BY <1>1 DEF EditColumns, tables, Issue, Idle, Editing
    <2> QED BY <2>1, <2>2, CheckFits DEF Lists
  <1>2. ASSUME NEW add \in Small(RuleIds), NEW remove \in Small(RuleIds),
               EditRules(c, u, add, remove)
        PROVE  OvershootInv'
    <2> DEFINE r == [at |-> "read", unit |-> u, add |-> add, remove |-> remove]
    <2>1. (Continue(c, r) \/ Answer(c)) /\ UNCHANGED units
      BY <1>2 DEF EditRules, tables
    <2>2. RequestFits(r) /\ r.at \notin {"edit", "locked"}
      BY DEF RequestFits, Small
    <2> HIDE DEF r
    <2> QED BY <2>1, <2>2, ContinueFits, AnswerFits, UnitsSame
  <1>3. ASSUME NEW columns \in Small(Columns), ReplaceColumns(c, u, columns)
        PROVE  OvershootInv'
    <2> DEFINE r == [at |-> "edit", list |-> "columns", unit |-> u,
                     add |-> columns, remove |-> units[u].columns]
    <2>1. /\ \/ Answer(c)
             \/ Exists(u) /\ Cardinality(columns) <= maxSelectedColumns /\ Continue(c, r)
          /\ UNCHANGED units /\ ~Editing(c)
      BY <1>3 DEF ReplaceColumns, tables, Issue, Idle, Editing
    <2>2. CASE Answer(c)
      BY <2>1, <2>2, AnswerFits, UnitsSame
    <2>3. CASE Exists(u) /\ Cardinality(columns) <= maxSelectedColumns /\ Continue(c, r)
      <3>1. /\ r.at = "edit" /\ r.list = "columns" /\ r.unit = u /\ r.add = columns
            /\ r.remove = units[u]["columns"] /\ Continue(c, r)
        BY <2>3
      <3> HIDE DEF r
      <3>2. /\ req'[c] = r
            /\ \A d \in Clients : d # c => req'[d] = req[d]
        BY <3>1 DEF OvershootInv, Inv, TypeOK, Continue
      <3>3. RequestsFit'
        BY <3>1, <3>2 DEF OvershootInv, RequestsFit, RequestFits, Small
      <3>4. columns \in SUBSET Columns /\ IsFiniteSet(columns)
        BY CanvasAssumption, FS_Subset DEF Small
      <3>5. applyAddRemove(units[r.unit][r.list], r.add, r.remove) \in SUBSET columns
        BY <3>1 DEF applyAddRemove
      <3>6. Cardinality(applyAddRemove(units[r.unit][r.list], r.add, r.remove)) <= Limit(r.list)
        <4>1. maxSelectedColumns \in Int /\ Limit(r.list) = maxSelectedColumns
          BY <3>1, CanvasAssumption DEF Limit
        <4> QED BY <2>3, <3>4, <3>5, <4>1, SmallerFits
      <3> QED BY <2>1, <2>3, <3>1, <3>3, <3>4, <3>6, BeginFits DEF Lists, Items
    <2> QED BY <2>1, <2>2, <2>3
  <1>4. CASE ReadUnit(c)
    <2>1. req[c] \in Requests /\ req[c].at = "read"
      BY <1>4 DEF ReadUnit, OvershootInv, Inv, TypeOK
    <2>2. /\ req[c].unit \in Units /\ req[c].add \in SUBSET Items("rules")
          /\ Cardinality(req[c].add) <= MaxEdit /\ ~Editing(c)
      BY <2>1, Shapes DEF Items, Editing, OvershootInv, RequestsFit, RequestFits
    <2>3. CheckLimit(c, "rules", req[c].unit, req[c].add, req[c].remove) /\ UNCHANGED units
      BY <1>4 DEF ReadUnit, tables
    <2> QED BY <2>2, <2>3, CheckFits DEF Lists
  <1> QED BY <1>1, <1>2, <1>3, <1>4

\* A request gets the lock of its unit.
LEMMA LockFits ==
  ASSUME OvershootInv, Inv', NEW c \in Clients, NEW u \in Units,
         \/ LockList(c)
         \/ \E t \in Tables, next \in {"given", "keep", "clear"}, columns \in Small(Columns) :
                ChangeTable(c, u, t, next, columns)
  PROVE  OvershootInv'
  <1>1. CASE LockList(c)
    <2> DEFINE q == req[c]
               r == [at |-> "locked", list |-> q.list, unit |-> q.unit,
                     add |-> q.add, remove |-> q.remove, current |-> units[q.unit][q.list]]
    <2>1. (Answer(c) \/ Continue(c, r)) /\ UNCHANGED units /\ Editing(c)
      BY <1>1 DEF LockList, tables, Editing
    <2>2. RequestFits(r)
      BY <2>1 DEF OvershootInv, RequestsFit, RequestFits, Editing
    <2>3. r.unit = req[c].unit /\ r.list = req[c].list /\ r.add = req[c].add /\ r.remove = req[c].remove
      OBVIOUS
    <2> HIDE DEF r
    <2> QED BY <2>1, <2>2, <2>3, ContinueFits, AnswerFits, UnitsSame
  <1>2. ASSUME NEW t \in Tables, NEW next \in {"given", "keep", "clear"},
               NEW columns \in Small(Columns), ChangeTable(c, u, t, next, columns)
        PROVE  OvershootInv'
    <2> DEFINE r == [at |-> "table", unit |-> u, table |-> t, next |-> next,
                     columns |-> columns, current |-> units[u].columns]
    <2>1. (Answer(c) \/ Continue(c, r)) /\ UNCHANGED units
      BY <1>2 DEF ChangeTable, tables
    <2>2. RequestFits(r) /\ r.at = "table"
      BY <1>2 DEF RequestFits, ChangeTable
    <2> HIDE DEF r
    <2> QED BY <2>1, <2>2, ContinueFits, AnswerFits, UnitsSame
  <1> QED BY <1>1, <1>2

\* Requests that write a whole unit, up to the statement, and the requests
\* for statistics.
LEMMA BodyFits ==
  ASSUME OvershootInv, Inv', NEW c \in Clients, NEW u \in Units,
         \/ \E body \in Bodies : PutUnit(c, u, body) \/ PostUnit(c, u, body)
         \/ \E batch \in SUBSET Params : PostStats(c, u, batch)
         \/ FetchUnit(c) \/ UpsertStat(c)
  PROVE  OvershootInv'
  <1>1. ASSUME NEW body \in Bodies, PutUnit(c, u, body) \/ PostUnit(c, u, body)
        PROVE  OvershootInv'
    <2>1. /\ UNCHANGED units
          /\ \/ Answer(c)
             \/ ValidBody(body) /\ \E at \in {"get", "put"} :
                    Continue(c, [at |-> at, unit |-> u, body |-> body])
      BY <1>1 DEF PutUnit, PostUnit, tables
    <2>2. CASE Answer(c)
      BY <2>1, <2>2, AnswerFits, UnitsSame
    <2>3. ASSUME ValidBody(body), NEW at \in {"get", "put"},
                 Continue(c, [at |-> at, unit |-> u, body |-> body])
          PROVE  OvershootInv'
      <3> DEFINE r == [at |-> at, unit |-> u, body |-> body]
      <3>1. RequestFits(r) /\ r.at \in {"get", "put"} /\ Continue(c, r)
        BY <2>3 DEF RequestFits, ValidBody
      <3> HIDE DEF r
      <3> QED BY <2>1, <3>1, ContinueFits, UnitsSame
    <2> QED BY <2>1, <2>2, <2>3
  <1>2. ASSUME NEW batch \in SUBSET Params, PostStats(c, u, batch)
        PROVE  OvershootInv'
    <2> DEFINE r == [at |-> "stats", unit |-> u, todo |-> batch]
    <2>1. (Answer(c) \/ Continue(c, r)) /\ UNCHANGED units
      BY <1>2 DEF PostStats, tables
    <2>2. RequestFits(r) /\ r.at = "stats"
      BY DEF RequestFits
    <2> HIDE DEF r
    <2> QED BY <2>1, <2>2, ContinueFits, AnswerFits, UnitsSame
  <1>3. CASE FetchUnit(c)
    <2> DEFINE r == [req[c] EXCEPT !.at = "put"]
    <2>1. req[c] \in Requests /\ req[c].at = "get" /\ UNCHANGED units
      BY <1>3 DEF FetchUnit, OvershootInv, Inv, TypeOK, tables
    <2>2. r.at = "put" /\ r.body = req[c].body
      BY <2>1 DEF Requests, Idle
    <2>3. Answer(c) \/ Continue(c, r)
      BY <1>3 DEF FetchUnit
    <2> HIDE DEF r
    <2>4. RequestFits(r)
      BY <2>1, <2>2 DEF OvershootInv, RequestsFit, RequestFits
    <2> QED BY <2>1, <2>2, <2>3, <2>4, ContinueFits, AnswerFits, UnitsSame
  <1>4. CASE UpsertStat(c)
    <2>1. req[c] \in Requests /\ req[c].at = "stats" /\ UNCHANGED units
      BY <1>4 DEF UpsertStat, OvershootInv, Inv, TypeOK
    <2>2. \A p : [req[c] EXCEPT !.todo = Rest(req[c].todo, p)].at = "stats"
      BY <2>1 DEF Requests, Idle
    <2>3. Answer(c) \/ \E r : Continue(c, r) /\ r.at = "stats"
      BY <1>4, <2>2 DEF UpsertStat
    <2>4. \A r : r.at = "stats" => RequestFits(r)
      BY DEF RequestFits
    <2> QED BY <2>1, <2>3, <2>4, ContinueFits, AnswerFits, UnitsSame
  <1> QED BY <1>1, <1>2, <1>3, <1>4

\* A statement that is no edit writes one unit.
LEMMA RowFits ==
  ASSUME OvershootInv, Inv', NEW c \in Clients, ~Editing(c),
         Answer(c) \/ (UNCHANGED req /\ req[c] = Idle), NEW u \in Units, NEW row,
         units' = [units EXCEPT ![u] = row],
         row # NoUnit =>
             /\ Exists(u)
             /\ \A list \in Lists : \/ row[list] = units[u][list]
                                    \/ /\ row[list] \subseteq Items(list)
                                       /\ Cardinality(row[list]) <= Limit(list)
  PROVE  OvershootInv'
  <1>1. /\ req'[c] = Idle
        /\ \A d \in Clients : d # c => req'[d] = req[d]
    BY DEF OvershootInv, Inv, TypeOK, Answer, Continue
  <1>2. RequestsFit'
    BY <1>1, IdleFits DEF OvershootInv, RequestsFit, RequestFits
  <1>3. units'[u] = row /\ \A v \in Units : v # u => units'[v] = units[v]
    BY DEF OvershootInv, Inv, TypeOK
  <1>4. \A v \in Units : units'[v] # NoUnit =>
             /\ Exists(v)
             /\ \A list \in Lists : \/ units'[v][list] = units[v][list]
                                    \/ /\ units'[v][list] \subseteq Items(list)
                                       /\ Cardinality(units'[v][list]) <= Limit(list)
    BY <1>3 DEF Exists
  <1> QED BY <1>1, <1>2, <1>4, IdleFits, WriteFits

\* The statements that write or delete a whole unit, or its table.
LEMMA UnitFits ==
  ASSUME OvershootInv, Inv', NEW c \in Clients,
         \/ WriteUnit(c) \/ CommitTable(c)
         \/ \E u \in Units, conn \in {0, 1} : SetField(c, u, conn)
         \/ \E u \in Units : DeleteUnit(c, u)
  PROVE  OvershootInv'
  <1>0. NoUnit \notin UnitRow /\ units \in [Units -> UnitRow \cup {NoUnit}]
    BY CanvasAssumption DEF OvershootInv, Inv, TypeOK
  <1>1. ASSUME NEW u \in Units, NEW conn \in {0, 1}, SetField(c, u, conn)
        PROVE  OvershootInv'
    <2> DEFINE row == [units[u] EXCEPT !.conn = conn]
    <2>1. UNCHANGED req /\ req[c] = Idle /\ ~Editing(c)
      BY <1>1, IdleFits DEF SetField, Issue, Editing
    <2>2. CASE Exists(u)
      <3>1. units' = [units EXCEPT ![u] = row]
        BY <1>1, <2>2 DEF SetField
      <3>2. \A list \in Lists : row[list] = units[u][list]
        BY <1>0, <2>2 DEF Exists, UnitRow, Lists
      <3> HIDE DEF row
      <3> QED BY <2>1, <2>2, <3>1, <3>2, RowFits
    <2>3. CASE ~Exists(u)
      BY <1>1, <2>1, <2>3, UnitsSame, OthersFit DEF SetField
    <2> QED BY <2>2, <2>3
  <1>2. ASSUME NEW u \in Units, DeleteUnit(c, u)
        PROVE  OvershootInv'
    <2>1. /\ UNCHANGED req /\ req[c] = Idle /\ ~Editing(c)
          /\ units' = [units EXCEPT ![u] = NoUnit]
      BY <1>2, IdleFits DEF DeleteUnit, Issue, Editing
    <2> QED BY <2>1, RowFits
  <1>3. CASE WriteUnit(c)
    <2> DEFINE r == req[c]
               u == r.unit
               row == [r.body EXCEPT !.line = units[u].line]
    <2>1. r \in Requests /\ r.at = "put" /\ Answer(c) /\ ~Editing(c)
      BY <1>3 DEF WriteUnit, OvershootInv, Inv, TypeOK, Editing
    <2>2. u \in Units /\ r.body \in UnitRow
      BY <2>1, Shapes
    <2>3. /\ Cardinality(r.body.columns) <= maxSelectedColumns
          /\ Cardinality(r.body.rules) <= maxRuleIDs
      BY <2>1 DEF OvershootInv, RequestsFit, RequestFits
    <2>4. CASE Exists(u)
      <3>1. units' = [units EXCEPT ![u] = row]
        BY <1>3, <2>4 DEF WriteUnit
      <3>2. row["columns"] = r.body.columns /\ row["rules"] = r.body.rules
        BY <2>2 DEF UnitRow
      <3>3. r.body.columns \subseteq Items("columns") /\ r.body.rules \subseteq Items("rules")
        BY <2>2 DEF UnitRow, Items
      <3>4. Limit("columns") = maxSelectedColumns /\ Limit("rules") = maxRuleIDs
        BY DEF Limit
      <3> HIDE DEF row
      <3>5. \A list \in Lists : row[list] \subseteq Items(list) /\ Cardinality(row[list]) <= Limit(list)
        BY <2>3, <3>2, <3>3, <3>4 DEF Lists
      <3> HIDE DEF u
      <3> QED BY <2>1, <2>2, <2>4, <3>1, <3>5, RowFits
    <2>5. CASE ~Exists(u)
      BY <1>3, <2>1, <2>5, UnitsSame, AnswerFits DEF WriteUnit
    <2> QED BY <2>4, <2>5
  <1>4. CASE CommitTable(c)
    <2> DEFINE r == req[c]
               u == r.unit
               new == CASE r.next = "given" -> r.columns
                        [] r.next = "keep" -> r.current
                        [] r.next = "clear" -> {}
               row == [units[u] EXCEPT !.table = r.table, !.stamped = FALSE, !.columns = new]
    <2>1. r \in Requests /\ r.at = "table" /\ Answer(c) /\ ~Editing(c)
      BY <1>4 DEF CommitTable, OvershootInv, Inv, TypeOK, Editing
    <2>2. /\ u \in Units /\ r.next \in {"given", "keep", "clear"} /\ r.columns \subseteq Columns
          /\ Exists(u) /\ r.current = units[u]["columns"]
          /\ Cardinality(r.columns) <= maxSelectedColumns
      BY <2>1, Shapes
      DEF OvershootInv, Inv, UnitInv, LockedListIsCurrent, RequestsFit, RequestFits
    <2>3. \/ new = units[u]["columns"]
          \/ new \subseteq Items("columns") /\ Cardinality(new) <= Limit("columns")
      <3>1. r.next = "given" => new = r.columns
        OBVIOUS
      <3>2. r.next = "keep" => new = r.current
        OBVIOUS
      <3>3. r.next = "clear" => new = {}
        OBVIOUS
      <3>4. Cardinality({}) <= maxSelectedColumns
        BY FS_EmptySet, CanvasAssumption
      <3> HIDE DEF new
      <3> QED BY <2>2, <3>1, <3>2, <3>3, <3>4 DEF Items, Limit
    <2>4. units' = [units EXCEPT ![u] = row]
      <3>1. units' = [units EXCEPT ![u].table = r.table, ![u].stamped = FALSE,
                                   ![u].columns = new]
        BY <1>4 DEF CommitTable
      <3> HIDE DEF new, u
      <3> QED BY <1>0, <2>2, <3>1
    <2> HIDE DEF new
    <2>5. row["columns"] = new /\ row["rules"] = units[u]["rules"]
      BY <1>0, <2>2 DEF Exists, UnitRow
    <2> HIDE DEF row
    <2>6. \A list \in Lists : \/ row[list] = units[u][list]
                              \/ /\ row[list] \subseteq Items(list)
                                 /\ Cardinality(row[list]) <= Limit(list)
      BY <2>3, <2>5 DEF Lists
    <2> HIDE DEF u
    <2> QED BY <2>1, <2>2, <2>4, <2>6, RowFits
  <1> QED BY <1>1, <1>2, <1>3, <1>4

\* Saves of wires, lines, rules and a restart touch no list of a unit they
\* leave.
LEMMA SaveFits ==
  ASSUME OvershootInv, Inv',
         \/ \E c \in Clients :
               \/ DeleteWires(c) \/ InsertWires(c) \/ CommitWires(c)
               \/ \E r \in RuleIds : DeleteRule(c, r)
               \/ \E l \in Lines :
                     \/ CreateLine(c, l) \/ DeleteLine(c, l)
                     \/ \E ids \in SUBSET Wires : SaveWires(c, l, ids)
         \/ Restart
  PROVE  OvershootInv'
  <1>0. \A c \in Clients : req[c] \in Requests
    BY DEF OvershootInv, Inv, TypeOK
  <1>1. ASSUME NEW c \in Clients, DeleteWires(c) \/ InsertWires(c)
        PROVE  OvershootInv'
    <2>1. [req[c] EXCEPT !.at = "deleted"].at = "deleted"
      BY <1>0 DEF Requests, Idle
    <2>2. [req[c] EXCEPT !.at = "inserted"].at = "inserted"
      BY <1>0 DEF Requests, Idle
    <2>3. (Answer(c) \/ \E r : Continue(c, r) /\ r.at \in {"deleted", "inserted"}) /\ UNCHANGED units
      BY <1>1, <2>1, <2>2 DEF DeleteWires, InsertWires, tables
    <2>4. \A r : r.at \in {"deleted", "inserted"} => RequestFits(r)
      BY DEF RequestFits
    <2> QED BY <2>3, <2>4, ContinueFits, AnswerFits, UnitsSame
  <1>2. ASSUME NEW c \in Clients, NEW r \in RuleIds, DeleteRule(c, r)
        PROVE  OvershootInv'
    BY <1>2, OthersFit, UnitsSame DEF DeleteRule
  <1>3. ASSUME NEW c \in Clients, NEW l \in Lines, CreateLine(c, l)
        PROVE  OvershootInv'
    BY <1>3, OthersFit, UnitsSame DEF CreateLine
  <1>4. CASE Restart
    <2>1. \A c \in Clients : req'[c].at = "idle"
      BY <1>4 DEF Restart, Idle
    <2> QED BY <1>4, <2>1, OthersFit, UnitsSame DEF Restart
  <1>5. ASSUME NEW c \in Clients, NEW l \in Lines, NEW ids \in SUBSET Wires, SaveWires(c, l, ids)
        PROVE  OvershootInv'
    <2>1. ASSUME NEW d \in Clients
          PROVE  req'[d] = req[d] \/ req'[d].at \in Savers
      <3>1. CASE d = c
        BY <1>5, <3>1 DEF SaveWires, Savers
      <3>2. CASE d # c /\ Saving(d, l)
        <4>1. req'[d] = [req[d] EXCEPT !.alone = FALSE]
          BY <1>5, <3>2 DEF SaveWires
        <4> QED BY <1>0, <3>2, <4>1 DEF Requests, Idle, Saving, Savers
      <3>3. CASE d # c /\ ~Saving(d, l)
        BY <1>5, <3>3 DEF SaveWires
      <3> QED BY <3>1, <3>2, <3>3
    <2> QED BY <1>5, <2>1, OthersFit, UnitsSame DEF SaveWires, tables
  <1>6. ASSUME NEW c \in Clients, CommitWires(c)
        PROVE  OvershootInv'
    <2>1. ASSUME NEW d \in Clients
          PROVE  req'[d] = req[d] \/ req'[d].at \in Savers \cup {"idle"}
      <3>1. CASE d = c
        BY <1>6, <3>1 DEF CommitWires, Idle
      <3>2. CASE d # c /\ Saving(d, req[c].line)
        <4>1. req'[d] = [req[d] EXCEPT !.old = @ \ req[c].old]
          BY <1>6, <3>2 DEF CommitWires
        <4> QED BY <1>0, <3>2, <4>1 DEF Requests, Idle, Saving, Savers
      <3>3. CASE d # c /\ ~Saving(d, req[c].line)
        BY <1>6, <3>3 DEF CommitWires
      <3> QED BY <3>1, <3>2, <3>3
    <2> QED BY <1>6, <2>1, OthersFit, UnitsSame DEF CommitWires
  <1>7. ASSUME NEW c \in Clients, NEW l \in Lines, DeleteLine(c, l)
        PROVE  OvershootInv'
    <2>1. ASSUME NEW d \in Clients
          PROVE  req'[d] = req[d] \/ req'[d].at \in Savers
      <3>1. CASE Saving(d, l)
        <4>1. req'[d] = [req[d] EXCEPT !.old = {}]
          BY <1>7, <3>1 DEF DeleteLine
        <4> QED BY <1>0, <3>1, <4>1 DEF Requests, Idle, Saving, Savers
      <3>2. CASE ~Saving(d, l)
        BY <1>7, <3>2 DEF DeleteLine
      <3> QED BY <3>1, <3>2
    <2>2. \A u \in Units : units'[u] # NoUnit =>
             Exists(u) /\ \A list \in Lists : units'[u][list] = units[u][list]
      BY <1>7 DEF DeleteLine, UnitsWithout, Exists
    <2> QED BY <2>1, <2>2, OthersFit
  <1> QED BY <1>1, <1>2, <1>3, <1>4, <1>5, <1>6, <1>7

-----------------------------------------------------------------------------
LEMMA NextFits ==
  ASSUME OvershootInv, [Next]_vars
  PROVE  OvershootInv'
  <1>0. Inv'
    BY NextKeeps DEF OvershootInv
  <1>1. ASSUME NEW c \in Clients, CreateUnit(c) \/ Fail(c) PROVE OvershootInv'
    BY <1>0, <1>1, AnswerFits, UnitsSame DEF CreateUnit, Fail, tables
  <1>2. ASSUME NEW c \in Clients, Request(c) PROVE OvershootInv'
    <2>1. ASSUME NEW u \in Units,
                 \/ \E add, remove \in Small(Columns) : EditColumns(c, u, add, remove)
                 \/ \E add, remove \in Small(RuleIds) : EditRules(c, u, add, remove)
                 \/ \E columns \in Small(Columns) : ReplaceColumns(c, u, columns)
                 \/ \E t \in Tables, next \in {"given", "keep", "clear"},
                       columns \in Small(Columns) : ChangeTable(c, u, t, next, columns)
                 \/ \E body \in Bodies : PutUnit(c, u, body) \/ PostUnit(c, u, body)
                 \/ \E conn \in {0, 1} : SetField(c, u, conn)
                 \/ DeleteUnit(c, u)
                 \/ \E batch \in SUBSET Params : PostStats(c, u, batch)
          PROVE  OvershootInv'
      BY <1>0, <2>1, EditFits, LockFits, BodyFits, UnitFits
    <2> QED BY <1>0, <1>1, <1>2, <2>1, SaveFits DEF Request
  <1>3. ASSUME NEW c \in Clients, Step(c) PROVE OvershootInv'
    <2>0. req[c] \in Requests
      BY DEF OvershootInv, Inv, TypeOK
    <2>1. CASE ReadUnit(c) \/ LockList(c) \/ FetchUnit(c) \/ UpsertStat(c)
      <3>1. req[c].unit \in Units
        BY <2>0, <2>1, Shapes DEF ReadUnit, LockList, FetchUnit, UpsertStat
      <3> QED BY <1>0, <2>1, <3>1, EditFits, LockFits, BodyFits
    <2>2. CASE CommitList(c)
      <3>1. \A d \in Clients : req'[d] = req[d] \/ req'[d] = Idle
        BY <2>2 DEF OvershootInv, Inv, TypeOK, CommitList, Answer, Continue
      <3>2. RequestsFit'
        BY <3>1, IdleFits DEF OvershootInv, RequestsFit, RequestFits
      <3> QED BY <1>0, <2>2, <3>2, CommitFits
    <2> QED BY <1>0, <1>3, <2>1, <2>2, UnitFits, SaveFits DEF Step
  <1>4. CASE UNCHANGED vars
    BY <1>0, <1>4, OthersFit, UnitsSame DEF vars
  <1> QED BY <1>0, <1>1, <1>2, <1>3, <1>4, SaveFits DEF Next

LEMMA InitFits == Init => OvershootInv
  <1> SUFFICES ASSUME Init PROVE OvershootInv
    OBVIOUS
  <1>1. \A c \in Clients : RequestFits(req[c]) /\ ~Editing(c)
    BY IdleFits DEF Init, Editing
  <1>2. OvershootBounded
    <2>1. ASSUME NEW u \in Units, NEW list \in Lists
          PROVE  Cardinality(units[u][list]) <= Bound(list)
      <3>1. units[u][list] = {}
        BY DEF Init, Lists
      <3> QED BY <3>1, FS_EmptySet, BoundType
    <2> QED BY <2>1 DEF OvershootBounded, Bound
  <1>3. Order([c \in Clients |-> {}]) /\ EditsFit([c \in Clients |-> {}])
    <2> DEFINE none == [c \in Clients |-> {}]
    <2>1. \A c \in Clients : none[c] = {}
      OBVIOUS
    <2>2. Order(none)
      BY <1>1, <2>1 DEF Order
    <2>3. EditsFit(none)
      BY <1>1 DEF EditsFit
    <2> QED BY <2>2, <2>3
  <1>4. [c \in Clients |-> {}] \in [Clients -> SUBSET Clients]
    OBVIOUS
  <1> QED BY <1>1, <1>2, <1>3, <1>4, InitInv DEF OvershootInv, RequestsFit

\* A list of a unit never exceeds its limit by more than what the other
\* clients may add, however their checks and their writes interleave, and
\* whatever whole-unit writes, table changes, deletions and restarts come in
\* between (handleMachineUnitRules, handleMachineUnitColumns,
\* updateMachineUnitJSONArrays).
THEOREM OvershootIsBounded == Spec => []OvershootBounded
  <1>1. OvershootInv => OvershootBounded
    BY DEF OvershootInv
  <1> QED BY <1>1, InitFits, NextFits, PTL DEF Spec

=============================================================================

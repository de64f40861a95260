---------------------------- MODULE CanvasProofs ----------------------------
(***************************************************************************)
(* Proofs about Canvas.                                                    *)
(*                                                                         *)
(* A request matters to the others while its transaction is open: it has   *)
(* locked the row of a unit, or it has deleted and inserted wires.  The    *)
(* invariant says what such requests exclude.  No two hold the row of one  *)
(* unit or the row of one wire, and what each has read is still in the     *)
(* tables: the list of its unit, and the wires that it deletes.            *)
(***************************************************************************)
EXTENDS Canvas, TLAPS

Holders == {"locked", "table"}
Savers == {"snapshot", "deleted", "inserted"}

\* The row lock of a unit: one request has it, and has read what is stored.
\* The names an edit adds are names of its list.
UnitInv ==
    /\ LockedListIsCurrent
    /\ \A c, d \in Clients :
          (/\ req[c].at \in Holders /\ req[d].at \in Holders
           /\ req[c].unit = req[d].unit) => c = d
    /\ \A c \in Clients : req[c].at \in {"edit", "locked"} => req[c].add \subseteq Items(req[c].list)

\* The foreign keys of units and statistics.
UnitsKept == \A u \in Units : IF Exists(u) THEN units[u].line \in lines ELSE stats[u] = {}

\* The foreign key and the key of wires: what an open save will have inserted
\* is on an existing line and free once the save's deletions count.
WiresKept ==
    /\ WireIdsUnique
    /\ \A l \in Lines \ lines : wires[l] = {}
    /\ \A c \in Clients : req[c].at = "inserted" =>
          /\ req[c].ids = {} \/ req[c].line \in lines
          /\ \A l \in Lines : req[c].ids \cap wires[l] \subseteq req[c].old

\* Open saves delete rows that are there, no two the same row.
SavesApart ==
    /\ \A c \in Clients : req[c].at \in Savers => req[c].old \subseteq wires[req[c].line]
    /\ \A c, d \in Clients : c # d => Held(c) \cap Held(d) = {}

\* A save that overlaps no other deletes all wires of its line.
SavesAlone ==
    /\ WiresAreLastSave
    /\ \A c \in Clients : (req[c].at \in Savers /\ req[c].alone) =>
          /\ req[c].old = wires[req[c].line]
          /\ \A d \in Clients \ {c} : ~Saving(d, req[c].line)

WireInv == WiresKept /\ SavesApart /\ SavesAlone

\* The inductive invariant.
Inv == TypeOK /\ UnitInv /\ UnitsKept /\ WireInv

-----------------------------------------------------------------------------
\* What a request carries at each of its stages.
LEMMA Shapes ==
  ASSUME NEW r \in Requests
  PROVE  /\ r.at \in {"edit", "locked"} =>
               /\ r.list \in Lists /\ r.unit \in Units
               /\ r.add \subseteq Names /\ r.remove \subseteq Names
         /\ r.at = "locked" => r.current \subseteq Names
         /\ r.at = "read" =>
               r.unit \in Units /\ r.add \subseteq RuleIds /\ r.remove \subseteq RuleIds
         /\ r.at = "table" =>
               /\ r.unit \in Units /\ r.table \in Tables /\ r.next \in {"given", "keep", "clear"}
               /\ r.columns \subseteq Columns /\ r.current \subseteq Columns
         /\ r.at \in {"get", "put"} => r.unit \in Units /\ r.body \in UnitRow
         /\ r.at = "stats" => r.unit \in Units /\ r.todo \subseteq Params
         /\ r.at \in Savers =>
               /\ r.line \in Lines /\ r.ids \subseteq Wires /\ r.old \subseteq Wires
               /\ r.alone \in BOOLEAN
               /\ r = [at |-> r.at, line |-> r.line, ids |-> r.ids, old |-> r.old,
                       alone |-> r.alone]
  BY DEF Requests, Idle, Savers

\* What a save holds, by its stage.
LEMMA Holds ==
  ASSUME NEW c \in Clients
  PROVE  /\ req[c].at = "deleted" => Held(c) = req[c].old
         /\ req[c].at = "inserted" => Held(c) = req[c].old \cup req[c].ids
         /\ req[c].at \notin {"deleted", "inserted"} => Held(c) = {}
  BY DEF Held

\* A request ends or goes on without a lock; the others stay as they are.
LEMMA UnitInvDrop ==
  ASSUME UnitInv, UNCHANGED units,
         \A c \in Clients : \/ req'[c] = req[c]
                            \/ /\ req'[c].at \notin Holders
                               /\ req'[c].at = "edit" => req'[c].add \subseteq Items(req'[c].list)
  PROVE  UnitInv'
  <1>1. LockedListIsCurrent'
    BY DEF UnitInv, LockedListIsCurrent, Holders, Exists
  <1>2. ASSUME NEW c \in Clients, NEW d \in Clients,
               req'[c].at \in Holders, req'[d].at \in Holders, req'[c].unit = req'[d].unit
        PROVE  c = d
    BY <1>2 DEF UnitInv
  <1>3. ASSUME NEW c \in Clients, req'[c].at \in {"edit", "locked"}
        PROVE  req'[c].add \subseteq Items(req'[c].list)
    BY <1>3 DEF UnitInv, Holders
  <1> QED BY <1>1, <1>2, <1>3 DEF UnitInv

\* A request ends or goes on without a save; no line is deleted.
LEMMA WireInvDrop ==
  ASSUME WireInv, UNCHANGED <<wires, saved, merged>>, lines \subseteq lines',
         \A c \in Clients : req'[c] = req[c] \/ req'[c].at \notin Savers
  PROVE  WireInv'
  <1>1. WiresKept'
    BY DEF WireInv, WiresKept, WireIdsUnique, Savers
  <1>2. \A c \in Clients : Held(c)' = Held(c) \/ Held(c)' = {}
    BY DEF Held, Savers
  <1>3. SavesApart'
    BY <1>2 DEF WireInv, SavesApart
  <1>4. SavesAlone'
    BY DEF WireInv, SavesAlone, WiresAreLastSave, Saving, Savers
  <1> QED BY <1>1, <1>3, <1>4 DEF WireInv

\* A step of one request that holds nothing before it and nothing after it.
LEMMA ContinueKeeps ==
  ASSUME Inv, NEW c \in Clients, NEW r \in Requests, Continue(c, r),
         r.at \notin Holders \cup Savers,
         r.at = "edit" => r.add \subseteq Items(r.list),
         UNCHANGED <<tables, history>>, issued' \in 0..MaxRequests
  PROVE  Inv'
  <1>1. /\ req' \in [Clients -> Requests] /\ req'[c] = r
        /\ \A d \in Clients : d # c => req'[d] = req[d]
    BY DEF Inv, TypeOK, Continue
  <1>2. TypeOK'
    BY <1>1 DEF Inv, TypeOK, tables, history
  <1>3. UnitInv'
    BY <1>1, UnitInvDrop DEF Inv, tables
  <1>4. WireInv'
    BY <1>1, WireInvDrop DEF Inv, tables, history
  <1>5. UnitsKept'
    BY DEF Inv, UnitsKept, tables, Exists
  <1> QED BY <1>2, <1>3, <1>4, <1>5 DEF Inv

LEMMA IdleTyped == Idle \in Requests /\ Idle.at \notin Holders \cup Savers \cup {"edit"}
  BY DEF Requests, Idle, Holders, Savers

LEMMA AnswerKeeps ==
  ASSUME Inv, NEW c \in Clients, Answer(c),
         UNCHANGED <<tables, history>>, issued' \in 0..MaxRequests
  PROVE  Inv'
  BY IdleTyped, ContinueKeeps DEF Answer

LEMMA Counted ==
  ASSUME Inv
  PROVE  /\ \A c \in Clients : \A op : Issue(c, op) => issued' \in 0..MaxRequests
         /\ UNCHANGED issued => issued' \in 0..MaxRequests
  BY CanvasAssumption DEF Inv, TypeOK, Issue

\* The limit check ends a request or begins an edit of names of the list.
LEMMA CheckKeeps ==
  ASSUME Inv, NEW c \in Clients, NEW list \in Lists, NEW u \in Units,
         NEW add \in SUBSET Items(list), NEW remove \in SUBSET Items(list),
         CheckLimit(c, list, u, add, remove),
         UNCHANGED <<tables, history>>, issued' \in 0..MaxRequests
  PROVE  Inv'
  <1> DEFINE r == [at |-> "edit", list |-> list, unit |-> u, add |-> add, remove |-> remove]
  <1>1. CASE Answer(c)
    BY <1>1, AnswerKeeps
  <1>2. CASE Continue(c, r)
    <2>1. Items(list) \subseteq Names
      BY DEF Items, Names
    <2>2. r \in Requests
      BY <2>1 DEF Requests
    <2>3. r.at = "edit" /\ r.add = add /\ r.list = list
      OBVIOUS
    <2> HIDE DEF r
    <2> QED BY <1>2, <2>2, <2>3, ContinueKeeps DEF Holders, Savers
  <1> QED BY <1>1, <1>2 DEF CheckLimit

-----------------------------------------------------------------------------
\* Requests that edit the list of a unit, up to the transaction.
LEMMA EditKeeps ==
  ASSUME Inv, NEW c \in Clients, NEW u \in Units,
         \/ \E add, remove \in Small(Columns) : EditColumns(c, u, add, remove)
         \/ \E add, remove \in Small(RuleIds) : EditRules(c, u, add, remove)
         \/ \E columns \in Small(Columns) : ReplaceColumns(c, u, columns)
         \/ ReadUnit(c)
  PROVE  Inv'
  <1>1. ASSUME NEW add \in Small(Columns), NEW remove \in Small(Columns),
               EditColumns(c, u, add, remove)
        PROVE  Inv'
    <2>1. add \in SUBSET Items("columns") /\ remove \in SUBSET Items("columns")
      BY DEF Small, Items
    <2>2. CheckLimit(c, "columns", u, add, remove) /\ UNCHANGED <<tables, history>>
      BY <1>1 DEF EditColumns
    <2>3. issued' \in 0..MaxRequests
      BY <1>1, Counted DEF EditColumns
    <2> QED BY <2>1, <2>2, <2>3, CheckKeeps DEF Lists
  <1>2. ASSUME NEW add \in Small(RuleIds), NEW remove \in Small(RuleIds),
               EditRules(c, u, add, remove)
        PROVE  Inv'
    <2> DEFINE r == [at |-> "read", unit |-> u, add |-> add, remove |-> remove]
    <2>1. (Continue(c, r) \/ Answer(c)) /\ UNCHANGED <<tables, history>>
      BY <1>2 DEF EditRules
    <2>2. issued' \in 0..MaxRequests
      BY <1>2, Counted DEF EditRules
    <2>3. r \in Requests /\ r.at = "read"
      BY DEF Requests, Small
    <2> HIDE DEF r
    <2> QED BY <2>1, <2>2, <2>3, ContinueKeeps, AnswerKeeps DEF Holders, Savers
  <1>3. ASSUME NEW columns \in Small(Columns), ReplaceColumns(c, u, columns)
        PROVE  Inv'
    <2> DEFINE r == [at |-> "edit", list |-> "columns", unit |-> u,
                     add |-> columns, remove |-> units[u].columns]
    <2>1. (Answer(c) \/ (Exists(u) /\ Continue(c, r))) /\ UNCHANGED <<tables, history>>
      BY <1>3 DEF ReplaceColumns
    <2>2. issued' \in 0..MaxRequests
      BY <1>3, Counted DEF ReplaceColumns
    <2>3. Exists(u) => r \in Requests
      BY DEF Inv, TypeOK, Exists, UnitRow, Requests, Small, Names, Lists
    <2>4. r.at = "edit" /\ r.add \subseteq Items(r.list)
      BY DEF Small, Items
    <2> HIDE DEF r
    <2> QED BY <2>1, <2>2, <2>3, <2>4, ContinueKeeps, AnswerKeeps DEF Holders, Savers
  <1>4. CASE ReadUnit(c)
    <2>1. req[c] \in Requests /\ req[c].at = "read"
      BY <1>4 DEF ReadUnit, Inv, TypeOK
    <2>2. /\ req[c].unit \in Units /\ req[c].add \in SUBSET Items("rules")
          /\ req[c].remove \in SUBSET Items("rules")
      BY <2>1, Shapes DEF Items
    <2>3. /\ CheckLimit(c, "rules", req[c].unit, req[c].add, req[c].remove)
          /\ UNCHANGED <<tables, history>> /\ issued' \in 0..MaxRequests
      BY <1>4, Counted DEF ReadUnit
    <2> QED BY <2>2, <2>3, CheckKeeps DEF Lists
  <1> QED BY <1>1, <1>2, <1>3, <1>4

\* Requests that write a whole unit or statistics, up to the statement.
LEMMA BodyKeeps ==
  ASSUME Inv, NEW c \in Clients, NEW u \in Units,
         \/ \E body \in Bodies : PutUnit(c, u, body) \/ PostUnit(c, u, body)
         \/ \E batch \in SUBSET Params : PostStats(c, u, batch)
         \/ CreateUnit(c) \/ FetchUnit(c) \/ Fail(c)
  PROVE  Inv'
  <1>1. ASSUME NEW body \in Bodies, PutUnit(c, u, body) \/ PostUnit(c, u, body)
        PROVE  Inv'
    <2>1. body \in UnitRow
      BY CanvasAssumption DEF Bodies, UnitRow, Small
    <2>2. PICK at \in {"get", "put"} :
             Answer(c) \/ Continue(c, [at |-> at, unit |-> u, body |-> body])
      BY <1>1 DEF PutUnit, PostUnit
    <2> DEFINE r == [at |-> at, unit |-> u, body |-> body]
    <2>3. r \in Requests /\ r.at \in {"get", "put"}
      BY <2>1 DEF Requests
    <2>4. Answer(c) \/ Continue(c, r)
      BY <2>2
    <2> HIDE DEF r
    <2>5. UNCHANGED <<tables, history>> /\ issued' \in 0..MaxRequests
      BY <1>1, Counted DEF PutUnit, PostUnit
    <2> QED BY <2>3, <2>4, <2>5, ContinueKeeps, AnswerKeeps DEF Holders, Savers
  <1>2. ASSUME NEW batch \in SUBSET Params, PostStats(c, u, batch)
        PROVE  Inv'
    <2> DEFINE r == [at |-> "stats", unit |-> u, todo |-> batch]
    <2>1. r \in Requests /\ r.at = "stats"
      BY DEF Requests
    <2>2. Answer(c) \/ Continue(c, r)
      BY <1>2 DEF PostStats
    <2> HIDE DEF r
    <2>3. UNCHANGED <<tables, history>> /\ issued' \in 0..MaxRequests
      BY <1>2, Counted DEF PostStats
    <2> QED BY <2>1, <2>2, <2>3, ContinueKeeps, AnswerKeeps DEF Holders, Savers
  <1>3. CASE CreateUnit(c) \/ Fail(c)
    <2>1. Answer(c) /\ UNCHANGED <<tables, history>>
      BY <1>3 DEF CreateUnit, Fail
    <2>2. issued' \in 0..MaxRequests
      BY <1>3, Counted DEF CreateUnit, Fail
    <2> QED BY <2>1, <2>2, AnswerKeeps
  <1>4. CASE FetchUnit(c)
    <2> DEFINE r == [req[c] EXCEPT !.at = "put"]
    <2>1. req[c] \in Requests /\ req[c].at = "get"
      BY <1>4 DEF FetchUnit, Inv, TypeOK
    <2>2. r \in Requests /\ r.at = "put"
      BY <2>1 DEF Requests, Idle
    <2>3. Answer(c) \/ Continue(c, r)
      BY <1>4 DEF FetchUnit
    <2> HIDE DEF r
    <2>4. UNCHANGED <<tables, history>> /\ issued' \in 0..MaxRequests
      BY <1>4, Counted DEF FetchUnit
    <2> QED BY <2>2, <2>3, <2>4, ContinueKeeps, AnswerKeeps DEF Holders, Savers
  <1> QED BY <1>1, <1>2, <1>3, <1>4

\* A request gets the row lock of a unit, and has read what is stored.
LEMMA HoldKeeps ==
  ASSUME Inv, NEW c \in Clients, NEW r \in Requests, Continue(c, r),
         r.at \in Holders, ~Locked(r.unit), Exists(r.unit),
         r.current = units[r.unit][IF r.at = "table" THEN "columns" ELSE r.list],
         r.at = "locked" => r.add \subseteq Items(r.list),
         UNCHANGED <<tables, history>>, issued' \in 0..MaxRequests
  PROVE  Inv'
  <1>1. /\ req' \in [Clients -> Requests] /\ req'[c] = r
        /\ \A d \in Clients : d # c => req'[d] = req[d]
    BY DEF Inv, TypeOK, Continue
  <1>2. TypeOK'
    BY <1>1 DEF Inv, TypeOK, tables, history
  <1>3. WireInv'
    BY <1>1, WireInvDrop DEF Inv, tables, history, Holders, Savers
  <1>4. UnitsKept'
    BY DEF Inv, UnitsKept, tables, Exists
  <1>5. UnitInv'
    <2>1. \A d \in Clients : req[d].at \in Holders => req[d].unit # r.unit
      BY DEF Locked, Holders
    <2>2. LockedListIsCurrent'
      <3>1. ASSUME NEW d \in Clients, req'[d].at \in Holders
            PROVE  /\ units'[req'[d].unit] # NoUnit
                   /\ req'[d].current =
                        units'[req'[d].unit][IF req'[d].at = "table" THEN "columns" ELSE req'[d].list]
        <4>1. CASE d = c
          BY <1>1, <4>1 DEF tables, Exists
        <4>2. CASE d # c
          BY <1>1, <3>1, <4>2 DEF Inv, UnitInv, LockedListIsCurrent, Exists, tables, Holders
        <4> QED BY <4>1, <4>2
      <3> QED BY <3>1 DEF LockedListIsCurrent, Exists, Holders
    <2>3. ASSUME NEW d \in Clients, NEW e \in Clients,
                 req'[d].at \in Holders, req'[e].at \in Holders, req'[d].unit = req'[e].unit
          PROVE  d = e
      BY <1>1, <2>1, <2>3 DEF Inv, UnitInv
    <2>4. ASSUME NEW d \in Clients, req'[d].at \in {"edit", "locked"}
          PROVE  req'[d].add \subseteq Items(req'[d].list)
      BY <1>1, <2>4 DEF Inv, UnitInv, Holders
    <2> QED BY <2>2, <2>3, <2>4 DEF UnitInv
  <1> QED BY <1>2, <1>3, <1>4, <1>5 DEF Inv

LEMMA LockKeeps ==
  ASSUME Inv, NEW c \in Clients, LockList(c)
  PROVE  Inv'
  <1> DEFINE q == req[c]
             r == [at |-> "locked", list |-> q.list, unit |-> q.unit,
                   add |-> q.add, remove |-> q.remove, current |-> units[q.unit][q.list]]
  <1>1. /\ q \in Requests /\ q.at = "edit" /\ ~Locked(q.unit)
        /\ UNCHANGED <<tables, history>> /\ issued' \in 0..MaxRequests
    BY Counted DEF LockList, Inv, TypeOK
  <1>2. /\ q.list \in Lists /\ q.unit \in Units /\ q.add \subseteq Names
        /\ q.remove \subseteq Names /\ q.add \subseteq Items(q.list)
    BY <1>1, Shapes DEF Inv, UnitInv
  <1>3. CASE Answer(c)
    BY <1>1, <1>3, AnswerKeeps
  <1>4. CASE Exists(q.unit) /\ Continue(c, r)
    <2>1. units[q.unit] \in UnitRow
      BY <1>2, <1>4 DEF Inv, TypeOK, Exists
    <2>2. units[q.unit][q.list] \subseteq Names
      BY <1>2, <2>1 DEF UnitRow, Lists, Names
    <2>3. r \in Requests
      BY <1>2, <2>2 DEF Requests
    <2>4. /\ r.at = "locked" /\ r.unit = q.unit /\ r.add = q.add /\ r.list = q.list
          /\ r.current = units[q.unit][q.list]
      OBVIOUS
    <2>5. Continue(c, r)
      BY <1>4
    <2> HIDE DEF r
    <2> QED BY <1>1, <1>2, <1>4, <2>3, <2>4, <2>5, HoldKeeps DEF Holders
  <1> QED BY <1>1, <1>3, <1>4 DEF LockList

LEMMA TableKeeps ==
  ASSUME Inv, NEW c \in Clients, NEW u \in Units, NEW t \in Tables,
         NEW next \in {"given", "keep", "clear"}, NEW columns \in Small(Columns),
         ChangeTable(c, u, t, next, columns)
  PROVE  Inv'
  <1> DEFINE r == [at |-> "table", unit |-> u, table |-> t, next |-> next,
                   columns |-> columns, current |-> units[u].columns]
  <1>1. /\ ~Locked(u) /\ UNCHANGED <<tables, history>> /\ issued' \in 0..MaxRequests
    BY Counted DEF ChangeTable
  <1>2. CASE Answer(c)
    BY <1>1, <1>2, AnswerKeeps
  <1>3. CASE Exists(u) /\ Continue(c, r)
    <2>1. units[u].columns \subseteq Columns
      BY <1>3 DEF Inv, TypeOK, Exists, UnitRow
    <2>2. r \in Requests
      BY <2>1 DEF Requests, Small
    <2>3. r.at = "table" /\ r.unit = u /\ r.current = units[u]["columns"]
      OBVIOUS
    <2>4. Continue(c, r)
      BY <1>3
    <2> HIDE DEF r
    <2> QED BY <1>1, <1>3, <2>2, <2>3, <2>4, HoldKeeps DEF Holders
  <1> QED BY <1>2, <1>3 DEF ChangeTable

\* A unit is written, by the request that has its lock or while none has, and
\* stays on its line or is deleted with its statistics.
LEMMA WriteKeeps ==
  ASSUME Inv, NEW c \in Clients, NEW u \in Units, NEW row \in UnitRow \cup {NoUnit},
         units' = [units EXCEPT ![u] = row],
         stats' = IF row = NoUnit THEN [stats EXCEPT ![u] = {}] ELSE stats,
         row # NoUnit => Exists(u) /\ row.line = units[u].line,
         \A d \in Clients \ {c} : req[d].at \in Holders => req[d].unit # u,
         Answer(c) \/ (UNCHANGED req /\ req[c] = Idle),
         UNCHANGED <<lines, wires, history>>, ruleRows' \subseteq RuleIds,
         issued' \in 0..MaxRequests
  PROVE  Inv'
  <1>1. /\ req' \in [Clients -> Requests] /\ req'[c] = Idle
        /\ \A d \in Clients : d # c => req'[d] = req[d]
    BY IdleTyped DEF Inv, TypeOK, Answer, Continue
  <1>2. /\ units'[u] = row
        /\ \A v \in Units : v # u => units'[v] = units[v] /\ stats'[v] = stats[v]
        /\ row = NoUnit => stats'[u] = {}
    BY DEF Inv, TypeOK
  <1>3. TypeOK'
    <2>1. units' \in [Units -> UnitRow \cup {NoUnit}] /\ stats' \in [Units -> SUBSET Params]
      BY DEF Inv, TypeOK
    <2> QED BY <1>1, <2>1 DEF Inv, TypeOK, history
  <1>4. WireInv'
    BY <1>1, IdleTyped, WireInvDrop DEF Inv, history
  <1>5. UnitsKept'
    BY <1>2 DEF Inv, UnitsKept, Exists
  <1>6. UnitInv'
    <2>1. LockedListIsCurrent'
      <3>1. ASSUME NEW d \in Clients, req'[d].at \in Holders
            PROVE  /\ units'[req'[d].unit] # NoUnit
                   /\ req'[d].current =
                        units'[req'[d].unit][IF req'[d].at = "table" THEN "columns" ELSE req'[d].list]
        <4>1. d # c
          BY <1>1, <3>1, IdleTyped
        <4>2. req'[d] = req[d] /\ req[d].unit \in Units /\ req[d].unit # u
          BY <1>1, <3>1, <4>1, Shapes DEF Inv, TypeOK, Holders
        <4>3. units'[req[d].unit] = units[req[d].unit]
          BY <1>2, <4>2
        <4> QED BY <3>1, <4>2, <4>3 DEF Inv, UnitInv, LockedListIsCurrent, Exists, Holders
      <3> QED BY <3>1 DEF LockedListIsCurrent, Exists, Holders
    <2>2. ASSUME NEW d \in Clients, NEW e \in Clients,
                 req'[d].at \in Holders, req'[e].at \in Holders, req'[d].unit = req'[e].unit
          PROVE  d = e
      BY <1>1, <2>2, IdleTyped DEF Inv, UnitInv
    <2>3. ASSUME NEW d \in Clients, req'[d].at \in {"edit", "locked"}
          PROVE  req'[d].add \subseteq Items(req'[d].list)
      BY <1>1, <2>3, IdleTyped DEF Inv, UnitInv, Holders
    <2> QED BY <2>1, <2>2, <2>3 DEF UnitInv
  <1> QED BY <1>3, <1>4, <1>5, <1>6 DEF Inv

\* The request that has the lock commits.
LEMMA CommitKeeps ==
  ASSUME Inv, NEW c \in Clients, CommitList(c) \/ CommitTable(c)
  PROVE  Inv'
  <1> DEFINE r == req[c]
             u == r.unit
  <1>0. /\ r \in Requests /\ r.at \in Holders /\ Answer(c)
        /\ UNCHANGED <<ruleRows, stats, lines, wires, history>>
        /\ issued' \in 0..MaxRequests /\ ruleRows \subseteq RuleIds
    BY Counted DEF CommitList, CommitTable, Holders, Inv, TypeOK
  <1>1. u \in Units /\ Exists(u)
    BY <1>0, Shapes DEF Holders, Inv, UnitInv, LockedListIsCurrent
  <1>2. units[u] \in UnitRow /\ NoUnit \notin UnitRow
    BY <1>1, CanvasAssumption DEF Inv, TypeOK, Exists
  <1>3. \A d \in Clients \ {c} : req[d].at \in Holders => req[d].unit # u
    BY <1>0 DEF Inv, UnitInv
  <1>4. ASSUME NEW row \in UnitRow, row.line = units[u].line,
               units' = [units EXCEPT ![u] = row]
        PROVE  Inv'
    BY <1>0, <1>1, <1>2, <1>3, <1>4, WriteKeeps
  <1>5. CASE CommitList(c)
    <2> DEFINE new == applyAddRemove(r.current, r.add, r.remove)
               row == [units[u] EXCEPT ![r.list] = new]
    <2>1. r.at = "locked" /\ r.list \in Lists
      BY <1>0, <1>5, Shapes DEF CommitList
    <2>2. r.current = units[u][r.list] /\ r.add \subseteq Items(r.list)
      BY <2>1 DEF Inv, UnitInv, LockedListIsCurrent
    <2>3. new \subseteq Items(r.list)
      BY <1>2, <2>1, <2>2 DEF applyAddRemove, UnitRow, Lists, Items
    <2>4. units' = [units EXCEPT ![u] = row]
      BY <1>5 DEF CommitList
    <2> HIDE DEF new
    <2>5. row \in UnitRow /\ row.line = units[u].line
      <3>1. CASE r.list = "columns"
        BY <1>2, <2>3, <3>1 DEF UnitRow, Items
      <3>2. CASE r.list = "rules"
        BY <1>2, <2>3, <3>2 DEF UnitRow, Items
      <3> QED BY <2>1, <3>1, <3>2 DEF Lists
    <2> HIDE DEF row
    <2> QED BY <1>4, <2>4, <2>5
  <1>6. CASE CommitTable(c)
    <2> DEFINE new == CASE r.next = "given" -> r.columns
                        [] r.next = "keep" -> r.current
                        [] r.next = "clear" -> {}
               row == [units[u] EXCEPT !.table = r.table, !.stamped = FALSE, !.columns = new]
    <2>1. /\ r.at = "table" /\ r.table \in Tables /\ r.next \in {"given", "keep", "clear"}
          /\ r.columns \subseteq Columns /\ r.current \subseteq Columns
      BY <1>0, <1>6, Shapes DEF CommitTable
    <2>2. new \subseteq Columns
      BY <2>1
    <2>3. units' = [units EXCEPT ![u] = row]
      <3>1. units' = [units EXCEPT ![u].table = r.table, ![u].stamped = FALSE,
                                   ![u].columns = new]
        BY <1>6 DEF CommitTable
      <3>2. DOMAIN units = Units
        BY DEF Inv, TypeOK
      <3> HIDE DEF new, u
      <3> QED BY <1>1, <3>1, <3>2
    <2> HIDE DEF new
    <2>4. row \in UnitRow /\ row.line = units[u].line
      BY <1>2, <2>1, <2>2 DEF UnitRow
    <2> HIDE DEF row
    <2> QED BY <1>4, <2>3, <2>4
  <1> QED BY <1>5, <1>6

\* The other statements that write or delete a unit wait for its lock.
LEMMA UnitKeeps ==
  ASSUME Inv, NEW c \in Clients,
         \/ WriteUnit(c)
         \/ \E u \in Units, conn \in {0, 1} : SetField(c, u, conn)
         \/ \E u \in Units : DeleteUnit(c, u)
  PROVE  Inv'
  <1>0. NoUnit \notin UnitRow /\ ruleRows \subseteq RuleIds
    BY CanvasAssumption DEF Inv, TypeOK
  <1>1. ASSUME NEW u \in Units, ~Locked(u)
        PROVE  \A d \in Clients \ {c} : req[d].at \in Holders => req[d].unit # u
    BY <1>1 DEF Locked, Holders
  <1>2. ASSUME NEW u \in Units, NEW conn \in {0, 1}, SetField(c, u, conn)
        PROVE  Inv'
    <2> DEFINE row == IF Exists(u) THEN [units[u] EXCEPT !.conn = conn] ELSE NoUnit
    <2>1. /\ ~Locked(u) /\ req[c] = Idle /\ UNCHANGED req
          /\ UNCHANGED <<ruleRows, stats, lines, wires, history>> /\ issued' \in 0..MaxRequests
      BY <1>2, Counted DEF SetField, Issue
    <2>2. row \in UnitRow \cup {NoUnit} /\ (row # NoUnit => Exists(u) /\ row.line = units[u].line)
      BY DEF Inv, TypeOK, Exists, UnitRow
    <2>3. units' = [units EXCEPT ![u] = row]
      BY <1>2 DEF SetField, Exists, Inv, TypeOK
    <2>4. row = NoUnit => stats = [stats EXCEPT ![u] = {}]
      <3>1. row = NoUnit => ~Exists(u)
        BY <1>0 DEF Inv, TypeOK, Exists, UnitRow
      <3> QED BY <3>1 DEF Inv, TypeOK, UnitsKept
    <2> HIDE DEF row
    <2> QED BY <1>0, <1>1, <2>1, <2>2, <2>3, <2>4, WriteKeeps
  <1>3. ASSUME NEW u \in Units, DeleteUnit(c, u)
        PROVE  Inv'
    <2>1. /\ ~Locked(u) /\ req[c] = Idle /\ UNCHANGED req
          /\ units' = [units EXCEPT ![u] = NoUnit] /\ stats' = [stats EXCEPT ![u] = {}]
          /\ UNCHANGED <<ruleRows, lines, wires, history>> /\ issued' \in 0..MaxRequests
      BY <1>3, Counted DEF DeleteUnit, Issue
    <2> QED BY <1>0, <1>1, <2>1, WriteKeeps
  <1>4. CASE WriteUnit(c)
    <2> DEFINE u == req[c].unit
               row == [req[c].body EXCEPT !.line = units[u].line]
    <2>1. /\ req[c] \in Requests /\ req[c].at = "put" /\ ~Locked(u) /\ Answer(c)
          /\ UNCHANGED <<ruleRows, stats, lines, wires, history>> /\ issued' \in 0..MaxRequests
      BY <1>4, Counted DEF WriteUnit, Inv, TypeOK
    <2>2. u \in Units /\ req[c].body \in UnitRow
      BY <2>1, Shapes
    <2>3. CASE Exists(u)
      <3>1. row \in UnitRow /\ row.line = units[u].line
        BY <2>2, <2>3 DEF Inv, TypeOK, Exists, UnitRow
      <3>2. units' = [units EXCEPT ![u] = row]
        BY <1>4, <2>3 DEF WriteUnit
      <3> HIDE DEF row
      <3> QED BY <1>0, <1>1, <2>1, <2>2, <2>3, <3>1, <3>2, WriteKeeps
    <2>4. CASE ~Exists(u)
      <3>1. UNCHANGED units
        BY <1>4, <2>4 DEF WriteUnit
      <3> QED BY <2>1, <3>1, AnswerKeeps DEF tables
    <2> QED BY <2>3, <2>4
  <1> QED BY <1>2, <1>3, <1>4

\* Statistics are only added to a unit that exists.
LEMMA StatKeeps ==
  ASSUME Inv, NEW c \in Clients, UpsertStat(c)
  PROVE  Inv'
  <1> DEFINE r == req[c]
  <1>0. /\ r \in Requests /\ r.at = "stats"
        /\ UNCHANGED <<units, ruleRows, lines, wires, history>> /\ issued' \in 0..MaxRequests
    BY Counted DEF UpsertStat, Inv, TypeOK
  <1>1. r.unit \in Units /\ r.todo \subseteq Params
    BY <1>0, Shapes
  <1>2. CASE ~HasUnit(r.unit)
    BY <1>0, <1>2, AnswerKeeps DEF UpsertStat, tables
  <1>3. CASE HasUnit(r.unit)
    <2>1. PICK p \in r.todo :
             /\ stats' = [stats EXCEPT ![r.unit] = @ \cup {p}]
             /\ Answer(c) \/ Continue(c, [r EXCEPT !.todo = Rest(r.todo, p)])
      BY <1>3 DEF UpsertStat
    <2> DEFINE new == [r EXCEPT !.todo = Rest(r.todo, p)]
    <2>2. new \in Requests /\ new.at = "stats"
      BY <1>0 DEF Requests, Idle, Rest
    <2>3. PICK q \in Requests : q.at \in {"idle", "stats"} /\ Continue(c, q)
      BY <2>1, <2>2, IdleTyped DEF Answer, Idle
    <2>4. /\ req' \in [Clients -> Requests] /\ req'[c] = q
          /\ \A d \in Clients : d # c => req'[d] = req[d]
      BY <2>3 DEF Inv, TypeOK, Continue
    <2>5. stats' \in [Units -> SUBSET Params]
      BY <1>1, <2>1 DEF Inv, TypeOK
    <2>6. TypeOK'
      BY <1>0, <2>4, <2>5 DEF Inv, TypeOK, history
    <2>7. UnitInv' /\ WireInv'
      BY <1>0, <2>3, <2>4, UnitInvDrop, WireInvDrop DEF Inv, history, Holders, Savers
    <2>8. UnitsKept'
      BY <1>0, <1>3, <2>1 DEF Inv, UnitsKept, TypeOK, Exists, HasUnit
    <2> QED BY <2>6, <2>7, <2>8 DEF Inv
  <1> QED BY <1>2, <1>3

-----------------------------------------------------------------------------
\* A save begins: it holds nothing, and it and the others on its line are no
\* longer alone.
LEMMA SaveKeeps ==
  ASSUME Inv, NEW c \in Clients, NEW l \in Lines, NEW ids \in SUBSET Wires, SaveWires(c, l, ids)
  PROVE  Inv'
  <1> DEFINE others == {d \in Clients \ {c} : Saving(d, l)}
             r == [at |-> "snapshot", line |-> l, ids |-> ids, old |-> wires[l],
                   alone |-> others = {}]
  <1>0. /\ req[c] = Idle /\ UNCHANGED <<tables, history>> /\ issued' \in 0..MaxRequests
        /\ req' = [d \in Clients |->
                     CASE d = c -> r
                       [] d \in others -> [req[d] EXCEPT !.alone = FALSE]
                       [] OTHER -> req[d]]
    BY Counted DEF SaveWires, Issue
  <1>1. /\ r \in Requests /\ r.at = "snapshot" /\ r.line = l /\ r.old = wires[l]
        /\ r.alone = (others = {})
    BY DEF Requests, Inv, TypeOK
  <1> HIDE DEF r
  <1>2. req'[c] = r
    BY <1>0
  <1>3. ASSUME NEW d \in Clients, d # c
        PROVE  /\ req'[d] \in Requests /\ req'[d].at = req[d].at
               /\ ~Saving(d, l) => req'[d] = req[d]
               /\ Saving(d, l) => ~req'[d].alone
               /\ req[d].at \in Savers =>
                     /\ req'[d].line = req[d].line /\ req'[d].ids = req[d].ids
                     /\ req'[d].old = req[d].old
    <2>1. req[d] \in Requests
      BY DEF Inv, TypeOK
    <2>2. CASE ~Saving(d, l)
      <3>1. req'[d] = req[d]
        BY <1>0, <1>3, <2>2
      <3> QED BY <2>1, <2>2, <3>1
    <2>3. CASE Saving(d, l)
      <3>1. req'[d] = [req[d] EXCEPT !.alone = FALSE]
        BY <1>0, <1>3, <2>3
      <3>2. /\ req[d].line \in Lines /\ req[d].ids \subseteq Wires /\ req[d].old \subseteq Wires
            /\ req[d] = [at |-> req[d].at, line |-> req[d].line, ids |-> req[d].ids,
                         old |-> req[d].old, alone |-> req[d].alone]
            /\ req[d].at \in Savers
        BY <2>1, <2>3, Shapes DEF Saving, Savers
      <3>3. req'[d] = [at |-> req[d].at, line |-> req[d].line, ids |-> req[d].ids,
                       old |-> req[d].old, alone |-> FALSE]
        BY <3>1, <3>2
      <3>4. req'[d] \in Requests
        BY <3>2, <3>3 DEF Requests, Savers
      <3> QED BY <2>3, <3>3, <3>4
    <2> QED BY <2>2, <2>3
  <1>4. TypeOK'
    <2>1. req' \in [Clients -> Requests]
      <3>1. \A d \in Clients : req'[d] \in Requests
        BY <1>1, <1>2, <1>3
      <3>2. \E f : req' = [d \in Clients |-> f[d]]
        BY <1>0
      <3> QED BY <1>0, <3>1
    <2> QED BY <1>0, <2>1 DEF Inv, TypeOK, tables, history
  <1>5. UnitInv'
    <2>1. \A d \in Clients : req'[d] = req[d] \/ req'[d].at \in Savers
      BY <1>1, <1>2, <1>3 DEF Saving, Savers
    <2> QED BY <1>0, <2>1, UnitInvDrop DEF Inv, tables, Holders, Savers
  <1>6. WiresKept'
    BY <1>0, <1>1, <1>2, <1>3 DEF Inv, WireInv, WiresKept, WireIdsUnique, tables, Savers
  <1>7. Held(c)' = {} /\ \A d \in Clients : d # c => Held(d)' = Held(d)
    BY <1>1, <1>2, <1>3 DEF Held, Savers
  <1>8. SavesApart'
    BY <1>0, <1>1, <1>2, <1>3, <1>7 DEF Inv, WireInv, SavesApart, tables
  <1>9. SavesAlone'
    <2> DEFINE On(d, x) == req'[d].at \in Savers /\ req'[d].line = x
    <2>1. \A d \in Clients : d # c => \A x \in Lines : On(d, x) <=> Saving(d, x)
      BY <1>3 DEF Saving, Savers
    <2>2. ASSUME NEW d \in Clients, req'[d].at \in Savers, req'[d].alone
          PROVE  /\ req'[d].old = wires'[req'[d].line]
                 /\ \A e \in Clients \ {d} : ~On(e, req'[d].line)
      <3>1. CASE d = c
        BY <1>0, <1>1, <1>2, <2>1, <2>2, <3>1 DEF tables
      <3>2. CASE d # c
        <4>1. req'[d] = req[d] /\ ~Saving(d, l)
          BY <1>3, <2>2, <3>2
        <4>2. req[d].line # l
          BY <2>2, <4>1 DEF Saving, Savers
        <4>3. ~On(c, req[d].line)
          BY <1>1, <1>2, <4>2
        <4>4. req[d].line \in Lines
          BY <1>3, <2>2, <3>2, Shapes DEF Inv, TypeOK, Savers
        <4>5. \A e \in Clients \ {d} : ~Saving(e, req[d].line)
          BY <2>2, <4>1 DEF Inv, WireInv, SavesAlone
        <4>6. req'[d].old = wires'[req'[d].line]
          BY <1>0, <2>2, <4>1 DEF Inv, WireInv, SavesAlone, tables
        <4> QED BY <2>1, <4>1, <4>3, <4>4, <4>5, <4>6
      <3> QED BY <3>1, <3>2
    <2>3. WiresAreLastSave'
      BY <1>0 DEF Inv, WireInv, SavesAlone, WiresAreLastSave, tables, history
    <2> QED BY <2>2, <2>3 DEF SavesAlone, Saving, Savers
  <1>10. UnitsKept'
    BY <1>0 DEF Inv, UnitsKept, tables, Exists
  <1> QED BY <1>4, <1>5, <1>6, <1>8, <1>9, <1>10 DEF Inv, WireInv

\* A save goes on: only what it holds has changed.
LEMMA GoesOnKeeps ==
  ASSUME Inv, NEW c \in Clients, req[c].at \in Savers, NEW at \in {"deleted", "inserted"},
         Continue(c, [req[c] EXCEPT !.at = at]),
         UNCHANGED <<tables, history, issued>>,
         \A d \in Clients \ {c} :
            (IF at = "deleted" THEN req[c].old ELSE req[c].old \cup req[c].ids) \cap Held(d) = {},
         at = "inserted" =>
            /\ req[c].ids = {} \/ req[c].line \in lines
            /\ \A l \in Lines : req[c].ids \cap wires[l] \subseteq req[c].old
  PROVE  Inv'
  <1> DEFINE q == req[c]
             r == [q EXCEPT !.at = at]
  <1>0. q \in Requests /\ issued' \in 0..MaxRequests
    BY Counted DEF Inv, TypeOK
  <1>1. /\ q.line \in Lines /\ q.ids \subseteq Wires /\ q.old \subseteq Wires /\ q.alone \in BOOLEAN
        /\ q = [at |-> q.at, line |-> q.line, ids |-> q.ids, old |-> q.old, alone |-> q.alone]
    BY <1>0, Shapes
  <1>2. r = [at |-> at, line |-> q.line, ids |-> q.ids, old |-> q.old, alone |-> q.alone]
    BY <1>1
  <1>3. /\ r \in Requests /\ r.at = at /\ r.line = q.line /\ r.ids = q.ids /\ r.old = q.old
        /\ r.alone = q.alone
    BY <1>1, <1>2 DEF Requests
  <1>4. Continue(c, r)
    OBVIOUS
  <1> HIDE DEF r
  <1>5. /\ req' \in [Clients -> Requests] /\ req'[c] = r
        /\ \A d \in Clients : d # c => req'[d] = req[d]
    BY <1>3, <1>4 DEF Inv, TypeOK, Continue
  <1>6. TypeOK'
    BY <1>0, <1>5 DEF Inv, TypeOK, tables, history
  <1>7. UnitInv'
    BY <1>3, <1>5, UnitInvDrop DEF Inv, tables, Holders
  <1>8. WiresKept'
    BY <1>3, <1>5 DEF Inv, WireInv, WiresKept, WireIdsUnique, tables
  <1>9. /\ Held(c)' = IF at = "deleted" THEN q.old ELSE q.old \cup q.ids
        /\ \A d \in Clients : d # c => Held(d)' = Held(d)
    BY <1>3, <1>5 DEF Held
  <1>10. SavesApart'
    BY <1>3, <1>5, <1>9 DEF Inv, WireInv, SavesApart, tables
  <1>11. SavesAlone'
    BY <1>3, <1>5 DEF Inv, WireInv, SavesAlone, WiresAreLastSave, Saving, Savers, tables, history
  <1>12. UnitsKept'
    BY DEF Inv, UnitsKept, tables, Exists
  <1> QED BY <1>6, <1>7, <1>8, <1>10, <1>11, <1>12 DEF Inv, WireInv

LEMMA DeleteKeeps ==
  ASSUME Inv, NEW c \in Clients, DeleteWires(c)
  PROVE  Inv'
  <1>1. \A d \in Clients \ {c} : req[c].old \cap Held(d) = {}
    BY DEF DeleteWires, HeldByOthers
  <1> QED BY <1>1, GoesOnKeeps DEF DeleteWires, Savers

LEMMA InsertKeeps ==
  ASSUME Inv, NEW c \in Clients, InsertWires(c)
  PROVE  Inv'
  <1> DEFINE r == req[c]
  <1>0. /\ r.at = "deleted" /\ UNCHANGED <<tables, issued, history>>
        /\ r.ids \cap HeldByOthers(c) = {} /\ issued' \in 0..MaxRequests
    BY Counted DEF InsertWires
  <1>1. CASE Answer(c)
    BY <1>0, <1>1, AnswerKeeps
  <1>2. CASE /\ Continue(c, [r EXCEPT !.at = "inserted"])
             /\ r.ids \cap (Taken(r.line) \ r.old) = {}
             /\ r.ids = {} \/ r.line \in lines
    <2>1. Held(c) = r.old
      BY <1>0, Holds
    <2>2. \A d \in Clients \ {c} : (r.old \cup r.ids) \cap Held(d) = {}
      BY <1>0, <2>1 DEF HeldByOthers, Inv, WireInv, SavesApart
    <2>3. \A l \in Lines : r.ids \cap wires[l] \subseteq r.old
      BY <1>2 DEF Taken
    <2> QED BY <1>0, <1>2, <2>2, <2>3, GoesOnKeeps DEF Savers
  <1> QED BY <1>0, <1>1, <1>2 DEF InsertWires

\* A save commits.  What it deletes is gone for the other saves of its line,
\* and what it inserts none of them has.
LEMMA CommitWiresKeeps ==
  ASSUME Inv, NEW c \in Clients, CommitWires(c)
  PROVE  Inv'
  <1> DEFINE r == req[c]
             l == r.line
             new == (wires[l] \ r.old) \cup r.ids
  <1>0. /\ r \in Requests /\ r.at = "inserted" /\ issued' \in 0..MaxRequests
        /\ wires' = [wires EXCEPT ![l] = new]
        /\ req' = [d \in Clients |->
                     CASE d = c -> Idle
                       [] Saving(d, l) /\ d # c -> [req[d] EXCEPT !.old = @ \ r.old]
                       [] OTHER -> req[d]]
        /\ saved' = [saved EXCEPT ![l] = r.ids]
        /\ merged' = IF r.alone THEN merged \ {l} ELSE merged \cup {l}
        /\ UNCHANGED <<units, ruleRows, stats, lines, issued>>
    BY Counted DEF CommitWires, Replaced, Inv, TypeOK
  <1>1. l \in Lines /\ r.ids \subseteq Wires /\ r.old \subseteq Wires
    BY <1>0, Shapes DEF Savers
  <1>2. /\ wires'[l] = new /\ saved'[l] = r.ids
        /\ \A m \in Lines : m # l => wires'[m] = wires[m] /\ saved'[m] = saved[m]
    BY <1>0, <1>1 DEF Inv, TypeOK
  <1>3. req'[c] = Idle /\ Idle.at \notin Savers /\ Idle \in Requests
    BY <1>0, IdleTyped
  <1>4. ASSUME NEW d \in Clients, d # c
        PROVE  /\ req'[d] \in Requests /\ req'[d].at = req[d].at
               /\ ~Saving(d, l) => req'[d] = req[d]
               /\ Saving(d, l) => req'[d].old = req[d].old \ r.old
               /\ req[d].at \in Savers =>
                     /\ req'[d].line = req[d].line /\ req'[d].ids = req[d].ids
                     /\ req'[d].alone = req[d].alone
    <2>1. req[d] \in Requests
      BY DEF Inv, TypeOK
    <2>2. CASE ~Saving(d, l)
      <3>1. req'[d] = req[d]
        BY <1>0, <1>4, <2>2
      <3> QED BY <2>1, <2>2, <3>1
    <2>3. CASE Saving(d, l)
      <3> DEFINE rest == req[d].old \ r.old
      <3>1. req'[d] = [req[d] EXCEPT !.old = rest]
        BY <1>0, <1>4, <2>3
      <3>2. /\ req[d].line \in Lines /\ req[d].ids \subseteq Wires /\ rest \subseteq Wires
            /\ req[d].alone \in BOOLEAN
            /\ req[d] = [at |-> req[d].at, line |-> req[d].line, ids |-> req[d].ids,
                         old |-> req[d].old, alone |-> req[d].alone]
            /\ req[d].at \in Savers
        BY <2>1, <2>3, Shapes DEF Saving, Savers
      <3> HIDE DEF rest
      <3>3. req'[d] = [at |-> req[d].at, line |-> req[d].line, ids |-> req[d].ids,
                       old |-> rest, alone |-> req[d].alone]
        BY <3>1, <3>2
      <3>4. req'[d] \in Requests
        BY <3>2, <3>3 DEF Requests, Savers
      <3> QED BY <2>3, <3>3, <3>4 DEF rest
    <2> QED BY <2>2, <2>3
  <1> HIDE DEF new
  <1>5. TypeOK'
    <2>1. req' \in [Clients -> Requests]
      <3>1. \A d \in Clients : req'[d] \in Requests
        BY <1>3, <1>4
      <3>2. \E f : req' = [d \in Clients |-> f[d]]
        BY <1>0
      <3> QED BY <3>1, <3>2
    <2>2. new \subseteq Wires
      BY <1>1 DEF new, Inv, TypeOK
    <2> QED BY <1>0, <1>1, <2>1, <2>2 DEF Inv, TypeOK
  <1>6. UnitInv'
    <2>1. \A d \in Clients : req'[d] = req[d] \/ req'[d].at \in Savers \cup {"idle"}
      BY <1>3, <1>4 DEF Saving, Savers, Idle
    <2> QED BY <1>0, <2>1, UnitInvDrop DEF Inv, Holders, Savers
  \* What the save holds, no other holds.
  <1>7. \A d \in Clients : d # c => Held(d) \cap r.old = {} /\ Held(d) \cap r.ids = {}
    BY <1>0, Holds DEF Inv, WireInv, SavesApart
  <1>8. \A d \in Clients : req[d].at \in Savers => req[d].old \subseteq wires[req[d].line]
    BY DEF Inv, WireInv, SavesApart
  <1>9. WiresKept'
    <2>1. WireIdsUnique'
      <3>1. \A m \in Lines : m # l => new \cap wires[m] = {}
        <4> SUFFICES ASSUME NEW m \in Lines, m # l PROVE new \cap wires[m] = {}
          OBVIOUS
        <4>1. wires[l] \cap wires[m] = {}
          BY <1>1 DEF Inv, WireInv, WiresKept, WireIdsUnique
        <4>2. r.ids \cap wires[m] \subseteq r.old /\ r.old \subseteq wires[l]
          BY <1>0, <1>8 DEF Inv, WireInv, WiresKept, Savers
        <4> QED BY <4>1, <4>2 DEF new
      <3>2. \A m, n \in Lines : m # n => wires[m] \cap wires[n] = {}
        BY DEF Inv, WireInv, WiresKept, WireIdsUnique
      <3> QED BY <1>1, <1>2, <3>1, <3>2 DEF WireIdsUnique
    <2>2. ASSUME NEW m \in Lines \ lines' PROVE wires'[m] = {}
      <3>1. CASE m = l
        BY <1>0, <1>2, <2>2, <3>1 DEF new, Inv, WireInv, WiresKept
      <3>2. CASE m # l
        BY <1>0, <1>2, <2>2, <3>2 DEF Inv, WireInv, WiresKept
      <3> QED BY <3>1, <3>2
    <2>3. ASSUME NEW d \in Clients, req'[d].at = "inserted"
          PROVE  /\ req'[d].ids = {} \/ req'[d].line \in lines'
                 /\ \A m \in Lines : req'[d].ids \cap wires'[m] \subseteq req'[d].old
      <3>1. d # c
        BY <1>3, <2>3 DEF Idle
      <3>2. /\ req[d].at = "inserted" /\ req'[d].line = req[d].line /\ req'[d].ids = req[d].ids
        BY <1>4, <2>3, <3>1 DEF Savers
      <3>3. Held(d) = req[d].old \cup req[d].ids
        BY <3>2, Holds
      <3>4. req'[d].old = req[d].old
        BY <1>4, <1>7, <3>1, <3>3
      <3>5. \A m \in Lines : req[d].ids \cap wires[m] \subseteq req[d].old
        BY <3>2 DEF Inv, WireInv, WiresKept
      <3>6. req[d].ids = {} \/ req[d].line \in lines
        BY <3>2 DEF Inv, WireInv, WiresKept
      <3>7. \A m \in Lines : req[d].ids \cap wires'[m] \subseteq req[d].old
        BY <1>1, <1>2, <1>7, <3>1, <3>3, <3>5 DEF new
      <3> QED BY <1>0, <3>2, <3>4, <3>6, <3>7
    <2> QED BY <2>1, <2>2, <2>3 DEF WiresKept
  <1>10. SavesApart'
    <2>1. ASSUME NEW d \in Clients, req'[d].at \in Savers
          PROVE  req'[d].old \subseteq wires'[req'[d].line]
      <3>1. d # c
        BY <1>3, <2>1
      <3>2. /\ req[d].at \in Savers /\ req'[d].line = req[d].line /\ req[d].line \in Lines
        BY <1>4, <2>1, <3>1, Shapes DEF Inv, TypeOK
      <3>3. CASE req[d].line = l
        <4>1. req'[d].old = req[d].old \ r.old
          BY <1>4, <3>1, <3>2, <3>3 DEF Saving, Savers
        <4> QED BY <1>2, <1>8, <3>2, <3>3, <4>1 DEF new
      <3>4. CASE req[d].line # l
        <4>1. req'[d].old = req[d].old
          BY <1>4, <3>1, <3>4 DEF Saving
        <4> QED BY <1>2, <1>8, <3>2, <3>4, <4>1
      <3> QED BY <3>3, <3>4
    <2>2. Held(c)' = {}
      BY <1>3 DEF Held, Savers
    <2>3. \A d \in Clients : d # c => Held(d)' \subseteq Held(d)
      <3> SUFFICES ASSUME NEW d \in Clients, d # c PROVE Held(d)' \subseteq Held(d)
        OBVIOUS
      <3>1. CASE req[d].at \in {"deleted", "inserted"}
        <4>1. req'[d].old \subseteq req[d].old /\ req'[d].ids = req[d].ids
              /\ req'[d].at = req[d].at
          BY <1>4, <3>1 DEF Savers
        <4> QED BY <3>1, <4>1 DEF Held
      <3>2. CASE req[d].at \notin {"deleted", "inserted"}
        <4>1. req'[d].at = req[d].at
          BY <1>4
        <4> QED BY <3>2, <4>1 DEF Held
      <3> QED BY <3>1, <3>2
    <2>4. ASSUME NEW d \in Clients, NEW e \in Clients, d # e
          PROVE  Held(d)' \cap Held(e)' = {}
      <3>1. Held(d) \cap Held(e) = {}
        BY <2>4 DEF Inv, WireInv, SavesApart
      <3> QED BY <2>2, <2>3, <2>4, <3>1
    <2> QED BY <2>1, <2>4 DEF SavesApart
  <1>11. SavesAlone'
    <2> DEFINE On(d, x) == req'[d].at \in Savers /\ req'[d].line = x
    <2>1. \A d \in Clients : \A x \in Lines : On(d, x) => d # c /\ Saving(d, x)
      BY <1>3, <1>4 DEF Saving, Savers
    <2>2. ASSUME NEW d \in Clients, req'[d].at \in Savers, req'[d].alone
          PROVE  /\ req'[d].old = wires'[req'[d].line]
                 /\ \A e \in Clients \ {d} : ~On(e, req'[d].line)
      <3>1. d # c
        BY <1>3, <2>2
      <3>2. /\ req[d].at \in Savers /\ req[d].alone /\ req'[d].line = req[d].line
            /\ req[d].line \in Lines
        BY <1>4, <2>2, <3>1, Shapes DEF Inv, TypeOK
      <3>3. /\ req[d].old = wires[req[d].line]
            /\ \A e \in Clients \ {d} : ~Saving(e, req[d].line)
        BY <3>2 DEF Inv, WireInv, SavesAlone
      <3>4. req[d].line # l
        BY <1>0, <3>1, <3>3 DEF Saving
      <3>5. req'[d].old = req[d].old
        BY <1>4, <3>1, <3>4 DEF Saving
      <3> QED BY <1>2, <2>1, <3>2, <3>3, <3>4, <3>5
    <2>3. WiresAreLastSave'
      <3> SUFFICES ASSUME NEW m \in Lines \ merged' PROVE wires'[m] = saved'[m]
        BY DEF WiresAreLastSave
      <3>1. CASE m = l
        <4>1. r.alone
          BY <1>0, <3>1
        <4>2. r.old = wires[l]
          BY <1>0, <4>1 DEF Inv, WireInv, SavesAlone, Savers
        <4> QED BY <1>2, <3>1, <4>2 DEF new
      <3>2. CASE m # l
        <4>1. m \notin merged
          BY <1>0, <3>2
        <4> QED BY <1>2, <3>2, <4>1 DEF Inv, WireInv, SavesAlone, WiresAreLastSave
      <3> QED BY <3>1, <3>2
    <2> QED BY <2>2, <2>3 DEF SavesAlone, Saving, Savers
  <1>12. UnitsKept'
    BY <1>0 DEF Inv, UnitsKept, Exists
  <1> QED BY <1>5, <1>6, <1>9, <1>10, <1>11, <1>12 DEF Inv, WireInv

-----------------------------------------------------------------------------
\* Lines, rules and the service.
LEMMA LineKeeps ==
  ASSUME Inv, NEW c \in Clients, NEW l \in Lines, CreateLine(c, l)
  PROVE  Inv'
  <1>0. /\ lines' = lines \cup {l} /\ UNCHANGED <<units, ruleRows, stats, wires, req, history>>
        /\ issued' \in 0..MaxRequests
    BY Counted DEF CreateLine
  <1>1. TypeOK'
    BY <1>0 DEF Inv, TypeOK, history
  <1>2. UnitInv' /\ WireInv'
    BY <1>0, UnitInvDrop, WireInvDrop DEF Inv, history
  <1>3. UnitsKept'
    BY <1>0 DEF Inv, UnitsKept, Exists
  <1> QED BY <1>1, <1>2, <1>3 DEF Inv

\* A line is deleted with its units, their statistics and its wires; saves of
\* the line that have begun find no row any more.
LEMMA UnlineKeeps ==
  ASSUME Inv, NEW c \in Clients, NEW l \in Lines, DeleteLine(c, l)
  PROVE  Inv'
  <1>0. /\ \A u \in OnLine(l) : ~Locked(u)
        /\ \A d \in Clients : Saving(d, l) => Held(d) = {}
        /\ lines' = lines \ {l}
        /\ units' = UnitsWithout(l)
        /\ stats' = [u \in Units |-> IF u \in OnLine(l) THEN {} ELSE stats[u]]
        /\ wires' = [wires EXCEPT ![l] = {}]
        /\ req' = [d \in Clients |-> IF Saving(d, l) THEN [req[d] EXCEPT !.old = {}]
                                                     ELSE req[d]]
        /\ saved' = [saved EXCEPT ![l] = {}]
        /\ merged' = merged \ {l}
        /\ UNCHANGED ruleRows
        /\ issued' \in 0..MaxRequests
    BY Counted DEF DeleteLine
  <1>1. /\ wires'[l] = {} /\ saved'[l] = {}
        /\ \A m \in Lines : m # l => wires'[m] = wires[m] /\ saved'[m] = saved[m]
    BY <1>0 DEF Inv, TypeOK
  <1>2. \A u \in Units : /\ u \in OnLine(l) => units'[u] = NoUnit /\ stats'[u] = {}
                         /\ u \notin OnLine(l) => units'[u] = units[u] /\ stats'[u] = stats[u]
    BY <1>0 DEF UnitsWithout
  <1>3. ASSUME NEW d \in Clients
        PROVE  /\ req'[d] \in Requests /\ req'[d].at = req[d].at
               /\ ~Saving(d, l) => req'[d] = req[d]
               /\ Saving(d, l) => req'[d].old = {}
               /\ req[d].at \in Savers =>
                     /\ req'[d].line = req[d].line /\ req'[d].ids = req[d].ids
                     /\ req'[d].alone = req[d].alone
    <2>1. req[d] \in Requests
      BY DEF Inv, TypeOK
    <2>2. CASE ~Saving(d, l)
      <3>1. req'[d] = req[d]
        BY <1>0, <2>2
      <3> QED BY <2>1, <2>2, <3>1
    <2>3. CASE Saving(d, l)
      <3>1. req'[d] = [req[d] EXCEPT !.old = {}]
        BY <1>0, <2>3
      <3>2. /\ req[d].line \in Lines /\ req[d].ids \subseteq Wires /\ req[d].alone \in BOOLEAN
            /\ req[d] = [at |-> req[d].at, line |-> req[d].line, ids |-> req[d].ids,
                         old |-> req[d].old, alone |-> req[d].alone]
            /\ req[d].at \in Savers
        BY <2>1, <2>3, Shapes DEF Saving, Savers
      <3>3. req'[d] = [at |-> req[d].at, line |-> req[d].line, ids |-> req[d].ids,
                       old |-> {}, alone |-> req[d].alone]
        BY <3>1, <3>2
      <3>4. req'[d] \in Requests
        BY <3>2, <3>3 DEF Requests, Savers
      <3> QED BY <2>3, <3>3, <3>4
    <2> QED BY <2>2, <2>3
  <1>4. TypeOK'
    <2>1. req' \in [Clients -> Requests]
      BY <1>0, <1>3
    <2>2. units' \in [Units -> UnitRow \cup {NoUnit}] /\ stats' \in [Units -> SUBSET Params]
      BY <1>0 DEF UnitsWithout, Inv, TypeOK
    <2> QED BY <1>0, <2>1, <2>2 DEF Inv, TypeOK
  <1>5. UnitInv'
    <2>1. LockedListIsCurrent'
      <3>1. ASSUME NEW d \in Clients, req'[d].at \in Holders
            PROVE  /\ units'[req'[d].unit] # NoUnit
                   /\ req'[d].current =
                        units'[req'[d].unit][IF req'[d].at = "table" THEN "columns" ELSE req'[d].list]
        <4>1. req'[d] = req[d] /\ req[d].unit \in Units /\ Locked(req[d].unit)
          BY <1>3, <3>1, Shapes DEF Inv, TypeOK, Holders, Saving, Locked
        <4>2. units'[req[d].unit] = units[req[d].unit]
          BY <1>0, <1>2, <4>1
        <4> QED BY <3>1, <4>1, <4>2 DEF Inv, UnitInv, LockedListIsCurrent, Exists, Holders
      <3> QED BY <3>1 DEF LockedListIsCurrent, Exists, Holders
    <2>2. \A d \in Clients : req'[d].at \in Holders \cup {"edit"} => req'[d] = req[d]
      BY <1>3 DEF Saving, Holders
    <2>3. ASSUME NEW d \in Clients, NEW e \in Clients,
                 req'[d].at \in Holders, req'[e].at \in Holders, req'[d].unit = req'[e].unit
          PROVE  d = e
      BY <2>2, <2>3 DEF Inv, UnitInv
    <2>4. ASSUME NEW d \in Clients, req'[d].at \in {"edit", "locked"}
          PROVE  req'[d].add \subseteq Items(req'[d].list)
      BY <2>2, <2>4 DEF Inv, UnitInv, Holders
    <2> QED BY <2>1, <2>3, <2>4 DEF UnitInv
  <1>6. UnitsKept'
    BY <1>0, <1>2 DEF Inv, UnitsKept, Exists, OnLine
  <1>7. WiresKept'
    <2>1. WireIdsUnique'
      BY <1>1 DEF Inv, WireInv, WiresKept, WireIdsUnique
    <2>2. \A m \in Lines \ lines' : wires'[m] = {}
      BY <1>0, <1>1 DEF Inv, WireInv, WiresKept
    <2>3. ASSUME NEW d \in Clients, req'[d].at = "inserted"
          PROVE  /\ req'[d].ids = {} \/ req'[d].line \in lines'
                 /\ \A m \in Lines : req'[d].ids \cap wires'[m] \subseteq req'[d].old
      <3>1. req[d].at = "inserted" /\ req'[d].ids = req[d].ids /\ req'[d].line = req[d].line
        BY <1>3, <2>3 DEF Savers
      <3>2. CASE Saving(d, l)
        <4>1. req[d].ids = {}
          BY <1>0, <3>1, <3>2, Holds
        <4> QED BY <3>1, <4>1
      <3>3. CASE ~Saving(d, l)
        <4>1. req'[d] = req[d] /\ req[d].line # l
          BY <1>3, <3>1, <3>3 DEF Saving
        <4>2. /\ req[d].ids = {} \/ req[d].line \in lines
              /\ \A m \in Lines : req[d].ids \cap wires[m] \subseteq req[d].old
          BY <3>1 DEF Inv, WireInv, WiresKept
        <4>3. \A m \in Lines : wires'[m] \subseteq wires[m]
          BY <1>1
        <4>4. \A m \in Lines : req[d].ids \cap wires'[m] \subseteq req[d].old
          BY <4>2, <4>3
        <4>5. req[d].line \in lines => req[d].line \in lines'
          BY <1>0, <4>1
        <4> QED BY <4>1, <4>2, <4>4, <4>5
      <3> QED BY <3>2, <3>3
    <2> QED BY <2>1, <2>2, <2>3 DEF WiresKept
  <1>8. SavesApart'
    <2>1. ASSUME NEW d \in Clients, req'[d].at \in Savers
          PROVE  req'[d].old \subseteq wires'[req'[d].line]
      <3>1. CASE Saving(d, l)
        BY <1>3, <3>1
      <3>2. CASE ~Saving(d, l)
        <4>1. req'[d] = req[d] /\ req[d].line # l /\ req[d].line \in Lines
          BY <1>3, <2>1, <3>2, Shapes DEF Saving, Savers, Inv, TypeOK
        <4> QED BY <1>1, <2>1, <4>1 DEF Inv, WireInv, SavesApart
      <3> QED BY <3>1, <3>2
    <2>2. \A d \in Clients : Held(d)' \subseteq Held(d)
      <3> SUFFICES ASSUME NEW d \in Clients PROVE Held(d)' \subseteq Held(d)
        OBVIOUS
      <3>1. CASE req[d].at \in {"deleted", "inserted"}
        <4>1. req'[d].old \subseteq req[d].old /\ req'[d].ids = req[d].ids
              /\ req'[d].at = req[d].at
          BY <1>3, <3>1 DEF Savers
        <4> QED BY <3>1, <4>1 DEF Held
      <3>2. CASE req[d].at \notin {"deleted", "inserted"}
        <4>1. req'[d].at = req[d].at
          BY <1>3
        <4> QED BY <3>2, <4>1 DEF Held
      <3> QED BY <3>1, <3>2
    <2>3. ASSUME NEW d \in Clients, NEW e \in Clients, d # e
          PROVE  Held(d)' \cap Held(e)' = {}
      <3>1. Held(d) \cap Held(e) = {}
        BY <2>3 DEF Inv, WireInv, SavesApart
      <3> QED BY <2>2, <3>1
    <2> QED BY <2>1, <2>3 DEF SavesApart
  <1>9. SavesAlone'
    <2> DEFINE On(d, x) == req'[d].at \in Savers /\ req'[d].line = x
    <2>1. \A d \in Clients : \A x \in Lines : On(d, x) => Saving(d, x)
      BY <1>3 DEF Saving, Savers
    <2>2. ASSUME NEW d \in Clients, req'[d].at \in Savers, req'[d].alone
          PROVE  /\ req'[d].old = wires'[req'[d].line]
                 /\ \A e \in Clients \ {d} : ~On(e, req'[d].line)
      <3>1. /\ req[d].at \in Savers /\ req[d].alone /\ req'[d].line = req[d].line
            /\ req[d].line \in Lines
        BY <1>3, <2>2, Shapes DEF Inv, TypeOK
      <3>2. /\ req[d].old = wires[req[d].line]
            /\ \A e \in Clients \ {d} : ~Saving(e, req[d].line)
        BY <3>1 DEF Inv, WireInv, SavesAlone
      <3>3. req'[d].old = wires'[req[d].line]
        BY <1>1, <1>3, <3>1, <3>2 DEF Saving, Savers
      <3> QED BY <2>1, <3>1, <3>2, <3>3
    <2>3. WiresAreLastSave'
      BY <1>0, <1>1 DEF Inv, WireInv, SavesAlone, WiresAreLastSave
    <2> QED BY <2>2, <2>3 DEF SavesAlone, Saving, Savers
  <1> QED BY <1>4, <1>5, <1>6, <1>7, <1>8, <1>9 DEF Inv, WireInv

LEMMA RestartKeeps ==
  ASSUME Inv, Restart
  PROVE  Inv'
  <1>0. /\ req' = [c \in Clients |-> Idle] /\ lines' = lines \cup {DefaultLine}
        /\ UNCHANGED <<units, ruleRows, stats, wires, issued, history>>
    BY DEF Restart
  <1>1. TypeOK'
    BY <1>0, IdleTyped, CanvasAssumption DEF Inv, TypeOK, history
  <1>2. UnitInv' /\ WireInv'
    BY <1>0, IdleTyped, UnitInvDrop, WireInvDrop DEF Inv, history
  <1>3. UnitsKept'
    BY <1>0 DEF Inv, UnitsKept, Exists
  <1> QED BY <1>1, <1>2, <1>3 DEF Inv

LEMMA UnruleKeeps ==
  ASSUME Inv, NEW c \in Clients, NEW r \in RuleIds, DeleteRule(c, r)
  PROVE  Inv'
  <1>0. /\ ruleRows' \subseteq ruleRows /\ UNCHANGED <<units, stats, lines, wires, req, history>>
        /\ issued' \in 0..MaxRequests
    BY Counted DEF DeleteRule
  <1>1. TypeOK'
    BY <1>0 DEF Inv, TypeOK, history
  <1>2. UnitInv' /\ WireInv'
    BY <1>0, UnitInvDrop, WireInvDrop DEF Inv, history
  <1>3. UnitsKept'
    BY <1>0 DEF Inv, UnitsKept, Exists
  <1> QED BY <1>1, <1>2, <1>3 DEF Inv

-----------------------------------------------------------------------------
LEMMA NextKeeps ==
  ASSUME Inv, [Next]_vars
  PROVE  Inv'
  <1>1. ASSUME NEW c \in Clients, Request(c) PROVE Inv'
    <2>1. ASSUME NEW u \in Units,
                 \/ \E add, remove \in Small(Columns) : EditColumns(c, u, add, remove)
                 \/ \E add, remove \in Small(RuleIds) : EditRules(c, u, add, remove)
                 \/ \E columns \in Small(Columns) : ReplaceColumns(c, u, columns)
                 \/ \E t \in Tables, next \in {"given", "keep", "clear"},
                       columns \in Small(Columns) : ChangeTable(c, u, t, next, columns)
                 \/ \E body \in Bodies : PutUnit(c, u, body) \/ PostUnit(c, u, body)
                 \/ \E conn \in {0, 1} : SetField(c, u, conn)
                 \/ DeleteUnit(c, u)
                 \/ \E batch \in SUBSET Params : PostStats(c, u, batch)
          PROVE  Inv'
      BY <2>1, EditKeeps, TableKeeps, BodyKeeps, UnitKeeps
    <2>2. CASE CreateUnit(c)
      BY <2>2, Counted, AnswerKeeps DEF CreateUnit
    <2>3. ASSUME NEW r \in RuleIds, DeleteRule(c, r) PROVE Inv'
      BY <2>3, UnruleKeeps
    <2>4. ASSUME NEW l \in Lines,
                 \/ CreateLine(c, l) \/ DeleteLine(c, l)
                 \/ \E ids \in SUBSET Wires : SaveWires(c, l, ids)
          PROVE  Inv'
      BY <2>4, LineKeeps, UnlineKeeps, SaveKeeps
    <2> QED BY <1>1, <2>1, <2>2, <2>3, <2>4 DEF Request
  <1>2. ASSUME NEW c \in Clients, Step(c) PROVE Inv'
    <2>1. CASE ReadUnit(c)
      <3>1. req[c].unit \in Units
        BY <2>1, Shapes DEF ReadUnit, Inv, TypeOK
      <3> QED BY <2>1, <3>1, EditKeeps
    <2>2. CASE FetchUnit(c)
      <3>1. req[c].unit \in Units
        BY <2>2, Shapes DEF FetchUnit, Inv, TypeOK
      <3> QED BY <2>2, <3>1, BodyKeeps
    <2> QED BY <1>2, <2>1, <2>2, LockKeeps, CommitKeeps, UnitKeeps, StatKeeps, DeleteKeeps,
               InsertKeeps, CommitWiresKeeps DEF Step
  <1>3. ASSUME NEW c \in Clients, Fail(c) PROVE Inv'
    BY <1>3, Counted, AnswerKeeps DEF Fail
  <1>4. CASE UNCHANGED vars
    <2>1. UNCHANGED <<tables, history, req, issued>>
      BY <1>4 DEF vars, tables, history
    <2>2. TypeOK'
      BY <2>1 DEF Inv, TypeOK, tables, history
    <2>3. UnitInv' /\ WireInv'
      BY <2>1, UnitInvDrop, WireInvDrop DEF Inv, tables, history
    <2>4. UnitsKept'
      BY <2>1 DEF Inv, UnitsKept, Exists, tables
    <2> QED BY <2>2, <2>3, <2>4 DEF Inv
  <1> QED BY <1>1, <1>2, <1>3, <1>4, RestartKeeps DEF Next

LEMMA InitInv == Init => Inv
  <1> SUFFICES ASSUME Init PROVE Inv
    OBVIOUS
  <1>0. NoUnit \notin UnitRow /\ DefaultLine \in Lines /\ MaxRequests \in Nat
    BY CanvasAssumption
  <1>1. \A u \in Units : units[u] \in UnitRow /\ units[u].line = DefaultLine
    BY <1>0 DEF Init, UnitRow
  <1>2. TypeOK
    BY <1>0, <1>1, IdleTyped DEF Init, TypeOK
  <1>3. \A c \in Clients : req[c] = Idle
    BY DEF Init
  <1>4. UnitInv
    BY <1>3, IdleTyped DEF UnitInv, LockedListIsCurrent, Holders
  <1>5. UnitsKept
    BY <1>1 DEF Init, UnitsKept
  <1>6. WireInv
    <2>1. \A c \in Clients : Held(c) = {} /\ req[c].at \notin Savers
      BY <1>3, IdleTyped DEF Held, Savers
    <2> QED BY <2>1 DEF Init, WireInv, WiresKept, WireIdsUnique, SavesApart, SavesAlone,
                        WiresAreLastSave, Savers
  <1> QED BY <1>2, <1>4, <1>5, <1>6 DEF Inv

\* The inductive invariant holds in every reachable state.
LEMMA Invariance == Spec => []Inv
  BY InitInv, NextKeeps, PTL DEF Spec

-----------------------------------------------------------------------------
\* The tables and requests keep their types, whatever requests overlap.
THEOREM CanvasTyped == Spec => []TypeOK
  <1>1. Inv => TypeOK
    BY DEF Inv
  <1> QED BY <1>1, Invariance, PTL

\* For any number of requests, units and names: the list that
\* updateMachineUnitJSONArrays and UpdateTable have read under the row lock is
\* still the stored one when they write, so no edit of a unit is lost.
THEOREM NoLostEdit == Spec => []LockedListIsCurrent
  <1>1. Inv => LockedListIsCurrent
    BY DEF Inv, UnitInv
  <1> QED BY <1>1, Invariance, PTL

\* However deletions of units and lines overlap with edits, batches of
\* statistics, saves, failures and restarts, units are on existing lines,
\* statistics belong to existing units and wires to existing lines
\* (DeleteMachineUnit, DeleteProductionLine, migrations 012 to 015).
THEOREM DeletionsLeaveNothing == Spec => []NoOrphans
  <1>1. Inv => NoOrphans
    BY DEF Inv, UnitsKept, WireInv, WiresKept, NoOrphans
  <1> QED BY <1>1, Invariance, PTL

\* No two lines ever have a wire of the same id, however saves of any lines
\* overlap (ReplaceWiresForLine, key of canvas_wires).
THEOREM WireIdsStayUnique == Spec => []WireIdsUnique
  <1>1. Inv => WireIdsUnique
    BY DEF Inv, WireInv, WiresKept
  <1> QED BY <1>1, Invariance, PTL

\* The wires of a line are those of its last successful save, unless that save
\* overlapped another one: a save that fails on any statement, is cancelled or
\* dies with the service changes nothing (ReplaceWiresForLine).
THEOREM SavesAreAtomic == Spec => []WiresAreLastSave
  <1>1. Inv => WiresAreLastSave
    BY DEF Inv, WireInv, SavesAlone
  <1> QED BY <1>1, Invariance, PTL
=============================================================================

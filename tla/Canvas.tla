------------------------------- MODULE Canvas -------------------------------
(***************************************************************************)
(* The canvas of the rule service: production lines, the machine units on  *)
(* them, the wires drawn between units and the parameter statistics of a   *)
(* unit, with the HTTP handlers that edit them.                            *)
(*                                                                         *)
(* Requests run concurrently, one goroutine each.  A handler that issues   *)
(* several SQL statements is one action per statement; a row that an open  *)
(* transaction has locked, deleted or inserted makes the other writers of  *)
(* that row wait.  Transactions run at READ COMMITTED, PostgreSQL's        *)
(* default, which the code does not change: each statement sees the rows   *)
(* committed when it starts.                                               *)
(*                                                                         *)
(* Lists are sets: every writer deduplicates them, and neither the checks  *)
(* nor the stored rows depend on the order beyond their display.           *)
(***************************************************************************)
EXTENDS Naturals, FiniteSets

CONSTANTS
    Clients,        \* requests that may be in progress at once
    Units,          \* machine unit identifiers
    Columns,        \* column names
    RuleIds,        \* rule identifiers clients send
    Tables,         \* table names
    Params,         \* parameters a unit has statistics of
    Lines,          \* production line identifiers
    DefaultLine,    \* the line migration 011 seeds
    Wires,          \* wire identifiers
    maxSelectedColumns,
    maxRuleIDs,
    MaxRequests,    \* bound: requests in a behaviour
    MaxEdit,        \* bound: names in one list of a request body
    Ops,            \* the operations clients call
    NoUnit          \* absence of a machine_units row

AllOps == {"edit", "replace", "table", "put", "post", "field", "drop", "stats",
           "line", "unline", "save", "unrule"}

UnitRow == [line : Lines, table : Tables, stamped : BOOLEAN, conn : {0, 1},
            columns : SUBSET Columns, rules : SUBSET RuleIds]

ASSUME CanvasAssumption ==
    /\ Clients # {} /\ IsFiniteSet(Clients)
    /\ IsFiniteSet(Columns) /\ IsFiniteSet(RuleIds)
    /\ DefaultLine \in Lines
    /\ maxSelectedColumns \in Nat /\ maxRuleIDs \in Nat
    /\ MaxRequests \in Nat /\ MaxEdit \in Nat
    /\ Ops \subseteq AllOps
    /\ NoUnit \notin UnitRow

Lists == {"columns", "rules"}
Items(list) == IF list = "columns" THEN Columns ELSE RuleIds
Limit(list) == IF list = "columns" THEN maxSelectedColumns ELSE maxRuleIDs
Names == Columns \cup RuleIds

VARIABLES
    units,          \* table machine_units
    ruleRows,       \* the ids in table rules
    stats,          \* table parameter_stats: the parameters of each unit
    lines,          \* table production_lines
    wires,          \* table canvas_wires: the wire ids of each line
    req,            \* the request each client has in progress
    issued,         \* requests issued so far
    saved,          \* history: the wires of each line's last successful save
    merged          \* history: lines whose last save overlapped another one

tables == <<units, ruleRows, stats, lines, wires>>
history == <<saved, merged>>
vars == <<units, ruleRows, stats, lines, wires, req, issued, saved, merged>>

-----------------------------------------------------------------------------
\* What a request has done so far and carries to its next statement.
Idle == [at |-> "idle"]

Requests ==
    {Idle}
    \cup [at : {"read"}, unit : Units, add : SUBSET RuleIds, remove : SUBSET RuleIds]
    \cup [at : {"edit"}, list : Lists, unit : Units,
          add : SUBSET Names, remove : SUBSET Names]
    \cup [at : {"locked"}, list : Lists, unit : Units,
          add : SUBSET Names, remove : SUBSET Names, current : SUBSET Names]
    \cup [at : {"table"}, unit : Units, table : Tables,
          next : {"given", "keep", "clear"}, columns : SUBSET Columns,
          current : SUBSET Columns]
    \cup [at : {"get", "put"}, unit : Units, body : UnitRow]
    \cup [at : {"stats"}, unit : Units, todo : SUBSET Params]
    \cup [at : {"snapshot", "deleted", "inserted"}, line : Lines,
          ids : SUBSET Wires, old : SUBSET Wires, alone : BOOLEAN]

TypeOK ==
    /\ units \in [Units -> UnitRow \cup {NoUnit}]
    /\ ruleRows \subseteq RuleIds
    /\ stats \in [Units -> SUBSET Params]
    /\ lines \subseteq Lines
    /\ wires \in [Lines -> SUBSET Wires]
    /\ req \in [Clients -> Requests]
    /\ issued \in 0..MaxRequests
    /\ saved \in [Lines -> SUBSET Wires]
    /\ merged \subseteq Lines

\* The database as a starting service finds it: the migrations have put every
\* unit on the default line.
Init ==
    /\ units \in [Units -> [line : {DefaultLine}, table : Tables,
                            stamped : {TRUE}, conn : {0},
                            columns : {{}}, rules : {{}}]]
    /\ ruleRows = RuleIds
    /\ stats = [u \in Units |-> {}]
    /\ lines = {DefaultLine}
    /\ wires = [l \in Lines |-> {}]
    /\ req = [c \in Clients |-> Idle]
    /\ issued = 0
    /\ saved = [l \in Lines |-> {}]
    /\ merged = {}

-----------------------------------------------------------------------------
\* Client c sends a request of kind op.
Issue(c, op) ==
    /\ op \in Ops
    /\ req[c] = Idle
    /\ issued < MaxRequests
    /\ issued' = issued + 1

Continue(c, r) == req' = [req EXCEPT ![c] = r]

\* The handler answers, with success or an error, and is done.
Answer(c) == Continue(c, Idle)

\* A list of names as a request body carries it.
Small(S) == {T \in SUBSET S : Cardinality(T) <= MaxEdit}

Exists(u) == units[u] # NoUnit

\* Mutant: the list is read without FOR UPDATE.
LockedNever(u) == FALSE

\* A transaction holds the row lock of unit u.
Locked(u) == \E c \in Clients : req[c].at \in {"locked", "table"} /\ req[c].unit = u

applyAddRemove(current, add, remove) == (current \cup add) \ remove

findMissingRuleIDs(ids) == ids \ ruleRows

\* Mutant: only the names to add are counted.
AddWithinLimit(list, current, add, remove) == Cardinality(add) <= Limit(list)

WithinLimit(list, current, add, remove) ==
    Cardinality(applyAddRemove(current, add, remove)) <= Limit(list)

\* GetMachineUnit and the limit check that follow validation: the edit goes on
\* to its transaction, or is answered with 404 or LIMIT_EXCEEDED.
CheckLimit(c, list, u, add, remove) ==
    IF Exists(u) /\ WithinLimit(list, units[u][list], add, remove)
    THEN Continue(c, [at |-> "edit", list |-> list, unit |-> u,
                      add |-> add, remove |-> remove])
    ELSE Answer(c)

\* POST /machine-units/{unitId}/columns, up to the limit check.
EditColumns(c, u, add, remove) ==
    /\ Issue(c, "edit")
    /\ CheckLimit(c, "columns", u, add, remove)
    /\ UNCHANGED <<tables, history>>

\* POST /machine-units/{unitId}/rules: the rules to add must exist.
EditRules(c, u, add, remove) ==
    /\ Issue(c, "edit")
    /\ IF findMissingRuleIDs(add) = {}
       THEN Continue(c, [at |-> "read", unit |-> u, add |-> add, remove |-> remove])
       ELSE Answer(c)
    /\ UNCHANGED <<tables, history>>

\* Its second read, up to the limit check.
ReadUnit(c) ==
    /\ req[c].at = "read"
    /\ CheckLimit(c, "rules", req[c].unit, req[c].add, req[c].remove)
    /\ UNCHANGED <<tables, issued, history>>

\* PUT /machine-units/{unitId}/columns: an edit that adds the given columns
\* and removes the ones just read.
ReplaceColumns(c, u, columns) ==
    /\ Issue(c, "replace")
    /\ IF Exists(u) /\ Cardinality(columns) <= maxSelectedColumns
       THEN Continue(c, [at |-> "edit", list |-> "columns", unit |-> u,
                         add |-> columns, remove |-> units[u].columns])
       ELSE Answer(c)
    /\ UNCHANGED <<tables, history>>

\* updateMachineUnitJSONArrays: SELECT ... FOR UPDATE reads the list under the
\* row lock, or finds no row.
LockList(c) ==
    LET r == req[c] IN
    /\ r.at = "edit"
    /\ ~Locked(r.unit)
    /\ IF Exists(r.unit)
       THEN Continue(c, [at |-> "locked", list |-> r.list, unit |-> r.unit,
                         add |-> r.add, remove |-> r.remove,
                         current |-> units[r.unit][r.list]])
       ELSE Answer(c)
    /\ UNCHANGED <<tables, issued, history>>

\* Its UPDATE and COMMIT, which write the list computed from what was read.
CommitList(c) ==
    LET r == req[c] IN
    /\ r.at = "locked"
    /\ units' = [units EXCEPT ![r.unit][r.list] =
                     applyAddRemove(r.current, r.add, r.remove)]
    /\ Answer(c)
    /\ UNCHANGED <<ruleRows, stats, lines, wires, issued, history>>

\* PUT /machine-units/{unitId}/table: the transaction's SELECT ... FOR UPDATE.
ChangeTable(c, u, table, next, columns) ==
    /\ Issue(c, "table")
    /\ next = "given" <=> columns # {}
    /\ Cardinality(columns) <= maxSelectedColumns
    /\ ~Locked(u)
    /\ IF Exists(u)
       THEN Continue(c, [at |-> "table", unit |-> u, table |-> table, next |-> next,
                         columns |-> columns, current |-> units[u].columns])
       ELSE Answer(c)
    /\ UNCHANGED <<tables, history>>

\* UpdateTable's UPDATE and COMMIT: the timestamp column is cleared, and the
\* columns too unless the request gives or keeps them.
CommitTable(c) ==
    LET r == req[c]
        nextColumns == CASE r.next = "given" -> r.columns
                         [] r.next = "keep" -> r.current
                         [] r.next = "clear" -> {}
    IN
    /\ r.at = "table"
    /\ units' = [units EXCEPT ![r.unit].table = r.table,
                              ![r.unit].stamped = FALSE,
                              ![r.unit].columns = nextColumns]
    /\ Answer(c)
    /\ UNCHANGED <<ruleRows, stats, lines, wires, issued, history>>

-----------------------------------------------------------------------------
\* validateMachineUnitRequest, for a body that names existing rules and keeps
\* to the limits; any other body is answered with VALIDATION_ERROR at once.
ValidBody(body) ==
    /\ Cardinality(body.columns) <= maxSelectedColumns
    /\ Cardinality(body.rules) <= maxRuleIDs
    /\ findMissingRuleIDs(body.rules) = {}

\* PUT /machine-units/{unitId}, validated and about to be written.
PutUnit(c, u, body) ==
    /\ Issue(c, "put")
    /\ IF ValidBody(body)
       THEN Continue(c, [at |-> "put", unit |-> u, body |-> body])
       ELSE Answer(c)
    /\ UNCHANGED <<tables, history>>

\* POST /machine-units with a unitId: the unit is fetched before it is written.
PostUnit(c, u, body) ==
    /\ Issue(c, "post")
    /\ IF ValidBody(body)
       THEN Continue(c, [at |-> "get", unit |-> u, body |-> body])
       ELSE Answer(c)
    /\ UNCHANGED <<tables, history>>

FetchUnit(c) ==
    LET r == req[c] IN
    /\ r.at = "get"
    /\ IF Exists(r.unit) THEN Continue(c, [r EXCEPT !.at = "put"]) ELSE Answer(c)
    /\ UNCHANGED <<tables, issued, history>>

\* UpdateMachineUnit: one UPDATE of every field but the line.
WriteUnit(c) ==
    LET r == req[c] IN
    /\ r.at = "put"
    /\ ~Locked(r.unit)
    /\ units' = IF Exists(r.unit)
                THEN [units EXCEPT ![r.unit] = [r.body EXCEPT !.line = units[r.unit].line]]
                ELSE units
    /\ Answer(c)
    /\ UNCHANGED <<ruleRows, stats, lines, wires, issued, history>>

\* POST /machine-units without a unitId: CreateMachineUnit's INSERT names 13
\* columns and gives 12 expressions, so the statement fails and the handler
\* answers 500.
CreateUnit(c) ==
    /\ Issue(c, "post")
    /\ Answer(c)
    /\ UNCHANGED <<tables, history>>

\* PUT .../connection and PATCH .../position: one UPDATE of one field.  The
\* position, which nothing else reads, is not kept.
SetField(c, u, conn) ==
    /\ Issue(c, "field")
    /\ ~Locked(u)
    /\ units' = IF Exists(u) THEN [units EXCEPT ![u].conn = conn] ELSE units
    /\ UNCHANGED <<ruleRows, stats, lines, wires, req, history>>

\* DELETE /machine-units/{unitId}.  The statistics go with the unit, the wires
\* drawn to it stay.
DeleteUnit(c, u) ==
    /\ Issue(c, "drop")
    /\ ~Locked(u)
    /\ units' = [units EXCEPT ![u] = NoUnit]
    /\ stats' = [stats EXCEPT ![u] = {}]
    /\ UNCHANGED <<ruleRows, lines, wires, req, history>>

\* POST .../parameter-stats: the batch is upserted one row at a time, outside
\* any transaction.
PostStats(c, u, batch) ==
    /\ Issue(c, "stats")
    /\ IF batch = {}
       THEN Answer(c)
       ELSE Continue(c, [at |-> "stats", unit |-> u, todo |-> batch])
    /\ UNCHANGED <<tables, history>>

\* Mutant: parameter_stats does not reference machine_units.
AnyUnit(u) == TRUE

\* The foreign key of parameter_stats (migration 015).
HasUnit(u) == Exists(u)

\* Mutant: the loop over the batch does not advance.
RestIsAll(todo, p) == todo

Rest(todo, p) == todo \ {p}

\* One upsert, which waits for the unit's row lock to check the foreign key.
\* Without the unit it is rejected, and the rest of the batch is not tried.
UpsertStat(c) ==
    LET r == req[c] IN
    /\ r.at = "stats"
    /\ ~Locked(r.unit)
    /\ IF HasUnit(r.unit)
       THEN \E p \in r.todo :
                /\ stats' = [stats EXCEPT ![r.unit] = @ \cup {p}]
                /\ IF Rest(r.todo, p) = {}
                   THEN Answer(c)
                   ELSE Continue(c, [r EXCEPT !.todo = Rest(r.todo, p)])
       ELSE /\ Answer(c)
            /\ UNCHANGED stats
    /\ UNCHANGED <<units, ruleRows, lines, wires, issued, history>>

\* A rule is deleted elsewhere; the units that list it are not touched.
DeleteRule(c, r) ==
    /\ Issue(c, "unrule")
    /\ ruleRows' = ruleRows \ {r}
    /\ UNCHANGED <<units, stats, lines, wires, req, history>>

-----------------------------------------------------------------------------
\* Client c is in a transaction that replaces the wires of line l.
Saving(c, l) == req[c].at \in {"snapshot", "deleted", "inserted"} /\ req[c].line = l

\* The rows of canvas_wires that it has deleted or inserted and not committed.
Held(c) ==
    CASE req[c].at = "deleted" -> req[c].old
      [] req[c].at = "inserted" -> req[c].old \cup req[c].ids
      [] OTHER -> {}

HeldByOthers(c) == UNION {Held(d) : d \in Clients \ {c}}

\* POST /production-lines, under a fresh id, which no request names yet.
CreateLine(c, l) ==
    /\ Issue(c, "line")
    /\ l \notin lines \cup {DefaultLine}
    /\ \A d \in Clients : ~Saving(d, l)
    /\ lines' = lines \cup {l}
    /\ UNCHANGED <<units, ruleRows, stats, wires, req, history>>

OnLine(l) == {u \in Units : Exists(u) /\ units[u].line = l}

\* Mutant: ON DELETE SET NULL, as before migration 014.
UnitsWithoutLine(l) ==
    [u \in Units |-> IF u \in OnLine(l) THEN [units[u] EXCEPT !.line = NoUnit] ELSE units[u]]

\* ON DELETE CASCADE (migration 014).
UnitsWithout(l) == [u \in Units |-> IF u \in OnLine(l) THEN NoUnit ELSE units[u]]

\* DELETE /production-lines/{lineId}.  Migration 014 makes it take the units of
\* the line along, and through them their statistics; migration 013 its wires.
DeleteLine(c, l) ==
    /\ Issue(c, "unline")
    /\ \A u \in OnLine(l) : ~Locked(u)
    /\ \A d \in Clients : Saving(d, l) => Held(d) = {}
    /\ lines' = lines \ {l}
    /\ units' = UnitsWithout(l)
    /\ stats' = [u \in Units |-> IF u \in OnLine(l) THEN {} ELSE stats[u]]
    /\ wires' = [wires EXCEPT ![l] = {}]
    /\ req' = [d \in Clients |-> IF Saving(d, l) THEN [req[d] EXCEPT !.old = {}]
                                                 ELSE req[d]]
    /\ saved' = [saved EXCEPT ![l] = {}]
    /\ merged' = merged \ {l}
    /\ UNCHANGED ruleRows

\* PUT /production-lines/{lineId}/wires: ReplaceWiresForLine begins, and its
\* DELETE takes the snapshot of the line's rows that it will visit.
SaveWires(c, l, ids) ==
    LET others == {d \in Clients \ {c} : Saving(d, l)} IN
    /\ Issue(c, "save")
    /\ req' = [d \in Clients |->
                 CASE d = c -> [at |-> "snapshot", line |-> l, ids |-> ids,
                                old |-> wires[l], alone |-> others = {}]
                   [] d \in others -> [req[d] EXCEPT !.alone = FALSE]
                   [] OTHER -> req[d]]
    /\ UNCHANGED <<tables, history>>

\* The DELETE ends once no other transaction holds a row it visits.  Rows that
\* another save deleted meanwhile are gone, and rows it inserted are not in
\* the snapshot.
DeleteWires(c) ==
    /\ req[c].at = "snapshot"
    /\ req[c].old \cap HeldByOthers(c) = {}
    /\ Continue(c, [req[c] EXCEPT !.at = "deleted"])
    /\ UNCHANGED <<tables, issued, history>>

\* Mutant: ids are unique on their line only.
TakenOnLine(l) == wires[l]

\* The ids no new wire of line l may have: the key of the table is the id alone.
Taken(l) == UNION {wires[m] : m \in Lines}

\* The INSERTs, which wait for the rows of other open transactions.  The line
\* must exist and the id, the table's key, must be free; otherwise the error
\* rolls the transaction back and the handler answers 500.
InsertWires(c) ==
    LET r == req[c]
        visible == Taken(r.line) \ r.old
    IN
    /\ r.at = "deleted"
    /\ r.ids \cap HeldByOthers(c) = {}
    /\ IF r.ids \cap visible = {} /\ (r.ids = {} \/ r.line \in lines)
       THEN Continue(c, [r EXCEPT !.at = "inserted"])
       ELSE Answer(c)
    /\ UNCHANGED <<tables, issued, history>>

\* Mutant: the wires are added without deleting the old ones.
Appended(current, old, ids) == current \cup ids

Replaced(current, old, ids) == (current \ old) \cup ids

CommitWires(c) ==
    LET r == req[c] IN
    /\ r.at = "inserted"
    /\ wires' = [wires EXCEPT ![r.line] = Replaced(@, r.old, r.ids)]
    /\ req' = [d \in Clients |->
                 CASE d = c -> Idle
                   [] Saving(d, r.line) /\ d # c -> [req[d] EXCEPT !.old = @ \ r.old]
                   [] OTHER -> req[d]]
    /\ saved' = [saved EXCEPT ![r.line] = r.ids]
    /\ merged' = IF r.alone THEN merged \ {r.line} ELSE merged \cup {r.line}
    /\ UNCHANGED <<units, ruleRows, stats, lines, issued>>

-----------------------------------------------------------------------------
\* A statement fails, the client goes away, or the transaction's context times
\* out (5 s for units, 10 s for wires): what is open is rolled back.
Fail(c) ==
    /\ req[c] # Idle
    /\ Answer(c)
    /\ UNCHANGED <<tables, issued, history>>

\* The service stops and starts: open transactions roll back, and the
\* migrations, which it reruns, seed the default line again if it is gone.
Restart ==
    /\ req' = [c \in Clients |-> Idle]
    /\ lines' = lines \cup {DefaultLine}
    /\ UNCHANGED <<units, ruleRows, stats, wires, issued, history>>

\* The bodies of PUT and POST requests; the line they name is not used.
Bodies == [line : {DefaultLine}, table : Tables, stamped : {TRUE}, conn : {1},
           columns : Small(Columns), rules : Small(RuleIds)]

Request(c) ==
    \/ \E u \in Units :
        \/ \E add, remove \in Small(Columns) : EditColumns(c, u, add, remove)
        \/ \E add, remove \in Small(RuleIds) : EditRules(c, u, add, remove)
        \/ \E columns \in Small(Columns) : ReplaceColumns(c, u, columns)
        \/ \E t \in Tables, next \in {"given", "keep", "clear"},
              columns \in Small(Columns) : ChangeTable(c, u, t, next, columns)
        \/ \E body \in Bodies : PutUnit(c, u, body) \/ PostUnit(c, u, body)
        \/ \E conn \in {0, 1} : SetField(c, u, conn)
        \/ DeleteUnit(c, u)
        \/ \E batch \in SUBSET Params : PostStats(c, u, batch)
    \/ CreateUnit(c)
    \/ \E r \in RuleIds : DeleteRule(c, r)
    \/ \E l \in Lines :
        \/ CreateLine(c, l)
        \/ DeleteLine(c, l)
        \/ \E ids \in SUBSET Wires : SaveWires(c, l, ids)

Step(c) ==
    \/ ReadUnit(c) \/ LockList(c) \/ CommitList(c) \/ CommitTable(c)
    \/ FetchUnit(c) \/ WriteUnit(c) \/ UpsertStat(c)
    \/ DeleteWires(c) \/ InsertWires(c) \/ CommitWires(c)

Next ==
    \/ \E c \in Clients : Request(c) \/ Step(c) \/ Fail(c)
    \/ Restart

Spec == Init /\ [][Next]_vars

\* The transactions run under a context with a timeout.
TimesOut(c) ==
    /\ req[c].at \in {"edit", "locked", "table", "snapshot", "deleted", "inserted"}
    /\ Fail(c)

FairSpec ==
    /\ Spec
    /\ \A c \in Clients : WF_vars(Step(c)) /\ WF_vars(TimesOut(c))

-----------------------------------------------------------------------------
\* The list that updateMachineUnitJSONArrays and UpdateTable read under the row
\* lock is still the stored list when they write what they computed from it, so
\* that concurrent edits of one unit never undo each other (UpdateRules,
\* UpdateColumns, UpdateTable).
LockedListIsCurrent ==
    \A c \in Clients : req[c].at \in {"locked", "table"} =>
        /\ Exists(req[c].unit)
        /\ req[c].current =
               units[req[c].unit][IF req[c].at = "table" THEN "columns" ELSE req[c].list]

\* The limits are checked on a list read before the transaction, so requests
\* in progress together can exceed them, but never by more than what the other
\* requests in progress add (handleMachineUnitRules, handleMachineUnitColumns).
OvershootBounded ==
    \A u \in Units, list \in Lists : Exists(u) =>
        Cardinality(units[u][list]) <= Limit(list) + (Cardinality(Clients) - 1) * MaxEdit

\* Whatever races with a deletion, nothing is left of what it takes along: a
\* unit's line exists, statistics belong to a unit and wires to a line
\* (DeleteMachineUnit, DeleteProductionLine and the foreign keys of migrations
\* 012 to 015).
NoOrphans ==
    /\ \A u \in Units : IF Exists(u) THEN units[u].line \in lines ELSE stats[u] = {}
    /\ \A l \in Lines \ lines : wires[l] = {}

\* Two saves in progress never both store one wire id, on the same line or on
\* two lines (ReplaceWiresForLine, key of canvas_wires).
WireIdsUnique ==
    \A l, m \in Lines : l # m => wires[l] \cap wires[m] = {}

\* Unless saves of one line overlapped, the line's wires are exactly those of
\* the last save that succeeded: a save that fails on any of its statements
\* changes nothing (ReplaceWiresForLine).
WiresAreLastSave ==
    \A l \in Lines \ merged : wires[l] = saved[l]

\* What the comment on ReplaceWiresForLine says, that it "atomically replaces
\* all wires for a production line", however saves overlap.
SaveReplacesAllWires ==
    \A l \in Lines : wires[l] = saved[l]

\* Every request is eventually answered: waiting for the row locks of other
\* requests ends (the contexts of updateMachineUnitJSONArrays, UpdateTable and
\* ReplaceWiresForLine), and the loop of handleUpsertParameterStats too.
RequestsAnswered ==
    \A c \in Clients : []<>(req[c] = Idle)

=============================================================================

---------------------------- MODULE Connections -----------------------------
(***************************************************************************)
(* Connections to the databases of the plant: how they are stored, and how *)
(* the connection service and the MCP servers serve calls through them.    *)
(*                                                                         *)
(* The rule service stores a connection with its password encrypted.  A    *)
(* call of the connection service names a stored connection or brings its  *)
(* own settings; the service looks it up, opens a handle (a pool of the    *)
(* database), pings, runs the statements of the operation and answers.  A  *)
(* call of the scheduler is routed by the type of the connection to an MCP *)
(* server, which opens a handle on the store for the look-up and one on    *)
(* the target for the query.  Either database may be down or not answer,   *)
(* a call may run out of time, a program may start anew with another key.  *)
(*                                                                         *)
(* There is one target database, with one table; settings that are right   *)
(* reach it.  Names of tables and columns in calls are taken to be valid.  *)
(***************************************************************************)
EXTENDS Integers, Sequences, SequencesExt

CONSTANTS
    Calls,          \* the calls that are made
    Requests,       \* what each call may ask for
    Refs,           \* ids of stored connections
    Settings,       \* the settings clients store
    Key, Keys,      \* the encryption key at first, and all keys
    Adapters,       \* the types mcp.yaml has an adapter for
    Columns,        \* columns the table may have
    Samples,        \* samples of a column: the kind of value of each row
    MaxFaults,      \* bound: outages, restarts and changes of the table
    None

\* An operation of one of the programs; only some name a table, and some may
\* bring their own settings instead of a reference.
serviceOps == {"test", "tables", "describe", "sample", "profile", "write"}
mcpOps == {"list_tables", "list_columns", "latest", "aggregate", "recent"}

\* What a call is answered: by the service, the scheduler or the MCP server, or
\* by nobody when its program ends.
Answers == {"ok", "notOk", "refused", "notFound", "internal", "failed", "unroutable",
            "aborted", "lost"}

ASSUME ConnectionsAssumption ==
    /\ \A c \in Calls : \A r \in Requests[c] :
          /\ \/ r.via = "service" /\ r.op \in serviceOps
             \/ r.via = "mcp" /\ r.op \in mcpOps
          /\ r.ref \in Refs \cup {None}
    /\ \A s \in Settings :
          /\ s = [type |-> s.type, right |-> s.right, password |-> s.password]
          /\ s.password # None
    /\ MaxFaults \in Nat
    /\ Key \in Keys
    /\ None \notin Refs /\ None \notin Keys /\ None \notin Answers
    /\ \A some \in SUBSET Columns : some # None
    /\ Adapters \subseteq {"mysql", "postgres", "postgresql"}   \* those of buildAdapter
    /\ None \notin {"notConfigured", "type", "mysql", "postgres", "mssql"}

VARIABLES
    store,          \* table db_connections
    key,            \* ENCRYPTION_KEY of each program, None if it has none
    state,          \* of the store and of the target: up, down or hung
    columns,        \* the columns of the table
    call,           \* the calls
    inflight,       \* calls whose INSERT is on its way to the target
    written,        \* rows each call has written
    faults          \* outages, restarts and changes so far

vars == <<store, key, state, columns, call, inflight, written, faults>>

Programs == {"rules", "service", "mcp"}

IdleCall ==
    [pc |-> "idle", req |-> None, known |-> FALSE, settings |-> None, handles |-> {},
     todo |-> <<>>, described |-> None, sampled |-> None, whole |-> TRUE,
     expired |-> FALSE, answer |-> None]

\* All programs are given the same key; the connection service, unlike the
\* others, does without one.
Init ==
    /\ store = [r \in Refs |-> None]
    /\ key = [p \in Programs |-> Key] \/ key = [p \in Programs |-> IF p = "service" THEN None ELSE Key]
    /\ state = [d \in {"store", "target"} |-> "up"]
    /\ columns = Columns
    /\ call = [c \in Calls |-> IdleCall]
    /\ inflight = {}
    /\ written = [c \in Calls |-> 0]
    /\ faults = 0

-----------------------------------------------------------------------------
(***************************************************************************)
(* The store                                                               *)
(***************************************************************************)
Encrypt(password, k) == [plain |-> password, key |-> k]

\* Mutant: another key gives another password.
DecryptUnauthenticated(cipher, k) == IF cipher.key = k THEN cipher.plain ELSE "garbled"

\* Authenticated encryption: with another key there is no plain text.
Decrypt(cipher, k) == IF cipher.key = k THEN cipher.plain ELSE None

\* handleConnections; the type and the settings are not checked.
CreateConnection(ref, s) ==
    /\ store[ref] = None
    /\ state["store"] = "up"
    /\ store' = [store EXCEPT ![ref] =
                    [type |-> s.type, right |-> s.right,
                     password_enc |-> Encrypt(s.password, key["rules"])]]
    /\ UNCHANGED <<key, state, columns, call, inflight, written, faults>>

Error(err) == [err |-> err, settings |-> None]

\* The settings of a row, or the error of looking them up.
GetConnection(row, k) ==
    CASE row = None -> Error("notFound")
      [] row # None /\ Decrypt(row.password_enc, k) = None -> Error("internal")
      [] OTHER -> [err |-> None,
                   settings |-> [type |-> row.type, right |-> row.right,
                                 password |-> Decrypt(row.password_enc, k)]]

-----------------------------------------------------------------------------
(***************************************************************************)
(* Connectors                                                              *)
(***************************************************************************)
ToLower(type) == IF type = "Postgres" THEN "postgres" ELSE type

\* NewConnector; None for a type it does not know.
NewConnector(type) ==
    CASE ToLower(type) = "mysql" -> "mysql"
      [] ToLower(type) \in {"postgres", "postgresql"} -> "postgres"
      [] ToLower(type) \in {"mssql", "sqlserver"} -> "mssql"
      [] OTHER -> None

\* openTargetDB
openTargetDB(type) == IF NewConnector(type) = "mssql" THEN None ELSE NewConnector(type)

Query(op) == op \in {"latest", "aggregate", "recent"}

\* The engine whose handle a call opens.
Engine(req, type) == IF Query(req.op) THEN openTargetDB(type) ELSE NewConnector(type)

\* What each data source name carries of a password: words with values, a URL
\* with escapes of a query, a URL without any, and a text that is read from
\* its end.  Passwords are plain, or have a space or a slash.
newPostgresConnector == {"plain", "slash"}
newMSSQLConnector == {"plain", "slash"}
postgresURL == {"plain"}
newMySQLConnector == {"plain", "slash", "space"}

passwordKept(req, engine) ==
    CASE engine = "postgres" -> IF Query(req.op) THEN postgresURL ELSE newPostgresConnector
      [] engine = "mssql" -> newMSSQLConnector
      [] OTHER -> newMySQLConnector

\* The target accepts the handle.
Accepted(req, s) == s.right /\ s.password \in passwordKept(req, Engine(req, s.type))

\* The connectors: the statements of each operation, in order.
MySQLConnector ==
    [ListTables |-> <<"tables">>, DescribeTable |-> <<"columns", "indexes">>,
     SampleRows |-> <<"sample">>, WriteRow |-> <<"insert">>,
     ProfileTable |-> <<"columns", "indexes", "count", "sample">>]
PostgresConnector ==
    [ListTables |-> <<"tables">>, DescribeTable |-> <<"columns", "keys", "indexes">>,
     SampleRows |-> <<"sample">>, WriteRow |-> <<"insert">>,
     ProfileTable |-> <<"columns", "keys", "indexes", "count", "sample">>]
MSSQLConnector ==
    [ListTables |-> <<"tables">>, DescribeTable |-> <<"columns", "keys", "indexes">>,
     SampleRows |-> <<"sample">>, WriteRow |-> <<"insert">>,
     ProfileTable |-> <<"columns", "keys", "indexes", "count", "sample">>]

\* The statements of a call: those of a connector, or a query of the MCP server.
statements(req, engine) ==
    LET conn == CASE engine = "mysql" -> MySQLConnector
                  [] engine = "postgres" -> PostgresConnector
                  [] OTHER -> MSSQLConnector
    IN  CASE req.op = "test" -> <<>>
          [] req.op \in {"tables", "list_tables"} -> conn.ListTables
          [] req.op \in {"describe", "list_columns"} -> conn.DescribeTable
          [] req.op = "sample" -> conn.SampleRows
          [] req.op = "profile" -> conn.ProfileTable
          [] req.op = "write" -> conn.WriteRow
          [] Query(req.op) -> <<req.op>>

\* The kind of the least value so far, after a value of the given kind.  A time
\* is not compared with a number: the type assertion panics.
updateMinMax(current, kind) ==
    CASE current = "panic" -> "panic"
      [] current # "panic" /\ kind \in {"null", "text"} -> current
      [] OTHER -> IF current \in {None, kind} THEN kind ELSE "panic"

\* profileFromSample panics on some column of the sample.
profileFromSample(sample) ==
    \E col \in DOMAIN sample : FoldLeft(updateMinMax, None, sample[col]) = "panic"

-----------------------------------------------------------------------------
(***************************************************************************)
(* Calls                                                                   *)
(***************************************************************************)
\* Mutant: without the call's context.
AsksForEver(c, d) == state[d] # "hung"

\* A step of a call that asks database d: it answers, or the call's context
\* ends.
Asks(c, d) == state[d] # "hung" \/ call[c].expired
Fails(c, d) == state[d] # "up" \/ call[c].expired

Set(c, new) == call' = [call EXCEPT ![c] = new]
Answer(c, code) == Set(c, [call[c] EXCEPT !.pc = "return", !.answer = code])
Others == <<store, key, state, columns, inflight, written, faults>>

\* The service's answers to a connection that cannot be looked up: those of
\* writeConnectionError, and of HandleSimulateWrite.
lookupAnswer(req, error) ==
    CASE req.via = "mcp" \/ error = "notConfigured" -> "refused"
      [] OTHER -> IF req.op = "write" THEN "notFound" ELSE error

\* A handle that cannot be opened, and a ping or statement that fails.
openAnswer(req) ==
    CASE req.via = "mcp" -> "failed"
      [] OTHER -> IF req.op = "test" THEN "notOk" ELSE "refused"
failAnswer(req) == IF req.op = "test" THEN "notOk" ELSE "failed"

\* What a request needs: a reference, or settings instead of one where these
\* are allowed.
Valid(req) ==
    CASE req.via = "service" /\ req.op \in {"tables", "describe"} ->
            req.ref # None /\ req.inline = None
      [] req.op \in {"test", "sample", "profile"} -> TRUE
      [] OTHER -> req.ref # None

\* A call comes in, at the service or at the scheduler.  known, whether its
\* connection is stored by then, is history.
Begin(c, req) ==
    LET new == [IdleCall EXCEPT !.req = req,
                                !.known = req.ref # None /\ store[req.ref] # None]
    IN
    /\ call[c].pc = "idle"
    /\ CASE ~Valid(req) -> Set(c, [new EXCEPT !.pc = "return", !.answer = "refused"])
         [] Valid(req) /\ req.via = "mcp" -> Set(c, [new EXCEPT !.pc = "route"])
         [] OTHER -> IF req.ref # None
                     THEN Set(c, [new EXCEPT !.pc = "resolve"])
                     ELSE Set(c, [new EXCEPT !.pc = "open", !.settings = req.inline])
    /\ UNCHANGED Others

\* Mutant: a second name of a type has the adapter of the first.
AdapterForAlias(type) ==
    LET t == IF type = "postgresql" THEN "postgres" ELSE ToLower(type)
    IN  IF t \in Adapters THEN t ELSE None

\* AdapterFor: the type of the MCP server, None if there is no adapter.
AdapterFor(type) == IF ToLower(type) \in Adapters THEN ToLower(type) ELSE None

\* adapterForConnection, of the scheduler.
Route(c) ==
    LET row == store[call[c].req.ref] IN
    /\ call[c].pc = "route"
    /\ Asks(c, "store")
    /\ IF Fails(c, "store") \/ row = None \/ AdapterFor(row.type) = None
       THEN Answer(c, "unroutable")
       ELSE Set(c, [call[c] EXCEPT !.pc = "openStore"])
    /\ UNCHANGED Others

\* Mutant: the handle stays open when the ping fails.
OpenPostgresLeaks(c) ==
    /\ call[c].pc = "openStore"
    /\ Asks(c, "store")
    /\ Set(c, IF Fails(c, "store")
              THEN [call[c] EXCEPT !.pc = "done", !.answer = "refused", !.handles = {"store"}]
              ELSE [call[c] EXCEPT !.pc = "resolve", !.handles = {"store"}])
    /\ UNCHANGED Others

\* openPostgres, of the MCP server: a handle that is pinged, and closed if the
\* ping fails.
OpenPostgres(c) ==
    /\ call[c].pc = "openStore"
    /\ Asks(c, "store")
    /\ IF Fails(c, "store") THEN Answer(c, "refused")
       ELSE Set(c, [call[c] EXCEPT !.pc = "resolve", !.handles = {"store"}])
    /\ UNCHANGED Others

\* What the look-up finds: ResolveByRef of the service, and getConnection of
\* the MCP server, which serves one type only.
Lookup(c) ==
    LET req == call[c].req
        row == store[req.ref]
    IN  CASE req.via = "service" /\ key["service"] = None -> Error("notConfigured")
          [] req.via = "service" /\ key["service"] # None ->
                IF Fails(c, "store") THEN Error("internal") ELSE GetConnection(row, key["service"])
          [] req.via = "mcp" ->
                CASE Fails(c, "store") \/ row = None -> Error("notFound")
                  [] OTHER -> IF ToLower(row.type) # AdapterFor(row.type) THEN Error("type")
                              ELSE GetConnection(row, key["mcp"])

\* The look-up; the handle on the store is closed whatever it finds.
Resolve(c) ==
    LET found == Lookup(c)
        closed == [call[c] EXCEPT !.handles = {}]
    IN
    /\ call[c].pc = "resolve"
    /\ Asks(c, "store") \/ found.err = "notConfigured"
    /\ Set(c, IF found.err # None
              THEN [closed EXCEPT !.pc = "return", !.answer = lookupAnswer(closed.req, found.err)]
              ELSE [closed EXCEPT !.pc = "open", !.settings = found.settings])
    /\ UNCHANGED Others

\* The handle on the target; opening it does not ask the target.  The service
\* pings it next.
Open(c) ==
    LET req == call[c].req
        engine == Engine(req, call[c].settings.type)
        new == [call[c] EXCEPT !.handles = {"target"}, !.todo = statements(req, engine)]
    IN
    /\ call[c].pc = "open"
    /\ IF engine = None THEN Answer(c, openAnswer(req))
       ELSE Set(c, [new EXCEPT !.pc = IF req.via = "mcp" THEN "operate" ELSE "ping"])
    /\ UNCHANGED Others

\* The target refuses the call, or cannot be asked.
TargetFails(c) == Fails(c, "target") \/ ~Accepted(call[c].req, call[c].settings)

TestConnection(c) ==
    /\ call[c].pc = "ping"
    /\ Asks(c, "target")
    /\ IF TargetFails(c) THEN Answer(c, failAnswer(call[c].req))
       ELSE Set(c, [call[c] EXCEPT !.pc = "operate"])
    /\ UNCHANGED Others

\* Mutant: the sample is of all columns there are.
selectAll(c) == columns

\* The columns a sample asks for: those described, or all.
selectClause(c) == IF call[c].described \in {None, {}} THEN columns ELSE call[c].described

\* The statement gives what it asks for.
Succeed(c, s, complete) ==
    Set(c, [call[c] EXCEPT
               !.todo = Tail(@),
               !.described = IF s = "columns" THEN columns ELSE @,
               !.sampled = IF s = "sample" THEN selectClause(c) ELSE @,
               !.whole = @ /\ complete])

\* A statement of the operation other than INSERT.  A sample names columns,
\* which the table may have lost by then.
Statement(c) ==
    LET s == Head(call[c].todo)
        lost == s = "sample" /\ ~(selectClause(c) \subseteq columns)
    IN
    /\ call[c].pc = "operate"
    /\ call[c].todo # <<>> /\ s # "insert"
    /\ Asks(c, "target")
    /\ IF TargetFails(c) \/ lost THEN Answer(c, failAnswer(call[c].req))
                                 ELSE Succeed(c, s, TRUE)
    /\ UNCHANGED Others

\* WriteRow sends its INSERT.
SendInsert(c) ==
    /\ call[c].pc = "operate"
    /\ call[c].todo # <<>> /\ Head(call[c].todo) = "insert"
    /\ Asks(c, "target")
    /\ IF TargetFails(c)
       THEN Answer(c, failAnswer(call[c].req)) /\ UNCHANGED inflight
       ELSE /\ Set(c, [call[c] EXCEPT !.pc = "insert"])
            /\ inflight' = inflight \cup {c}
    /\ UNCHANGED <<store, key, state, columns, written, faults>>

\* Mutant: an INSERT that fails is sent again.
EndInsertRetries(c) ==
    /\ call[c].pc = "insert"
    /\ \/ /\ written[c] > 0 /\ ~Fails(c, "target")
          /\ Set(c, [call[c] EXCEPT !.pc = "operate", !.todo = Tail(@)])
       \/ /\ Asks(c, "target") /\ Fails(c, "target")
          /\ IF call[c].expired THEN Answer(c, "failed")
             ELSE Set(c, [call[c] EXCEPT !.pc = "operate"])
    /\ UNCHANGED Others

\* It hears that the row is there, or that it is lost, or gives up.
EndInsert(c) ==
    /\ call[c].pc = "insert"
    /\ \/ /\ written[c] > 0 /\ ~Fails(c, "target")
          /\ Set(c, [call[c] EXCEPT !.pc = "operate", !.todo = Tail(@)])
       \/ /\ Asks(c, "target")
          /\ Fails(c, "target") \/ (c \notin inflight /\ written[c] = 0)
          /\ Answer(c, "failed")
    /\ UNCHANGED Others

\* A result that breaks off is an error, but fetchRecentRows does not look.
rowsErr(s) == s # "recent"

\* The connection breaks while a statement is executed or its result is read.
Break(c) ==
    LET s == Head(call[c].todo) IN
    /\ call[c].pc = "insert" \/ (call[c].pc = "operate" /\ call[c].todo # <<>>)
    /\ ~TargetFails(c)
    /\ faults < MaxFaults
    /\ faults' = faults + 1
    /\ IF rowsErr(s) THEN Answer(c, failAnswer(call[c].req)) ELSE Succeed(c, s, FALSE)
    /\ UNCHANGED <<store, key, state, columns, inflight, written>>

\* The statements are done.  A profile is computed at the end, of whichever
\* rows the sample has.
Finish(c) ==
    LET profiled == IF call[c].req.op = "profile" THEN call[c].described ELSE {} IN
    /\ call[c].pc = "operate" /\ call[c].todo = <<>>
    /\ \E sample \in [profiled -> Samples] :
          Answer(c, IF profileFromSample(sample) THEN "aborted" ELSE "ok")
    /\ UNCHANGED Others

\* What is left of a call.
Over(c, code) ==
    [IdleCall EXCEPT !.pc = "done", !.req = call[c].req, !.known = call[c].known,
                     !.expired = call[c].expired, !.answer = code]

\* The handler returns, by a panic too, and its handle is closed.
Return(c) ==
    /\ call[c].pc = "return"
    /\ Set(c, Over(c, call[c].answer))
    /\ UNCHANGED Others

Step(c) ==
    \/ Route(c) \/ OpenPostgres(c) \/ Resolve(c) \/ Open(c) \/ TestConnection(c)
    \/ Statement(c) \/ SendInsert(c) \/ EndInsert(c) \/ Finish(c) \/ Return(c)

InProgress(c) == call[c].pc \notin {"idle", "done"}

\* Calls with a deadline of their own: those of an MCP server, and
\* a write once its handle is open.
HasDeadline(c) ==
    /\ InProgress(c)
    /\ \/ call[c].req.via = "mcp" /\ call[c].pc # "route"
       \/ call[c].req.op = "write" /\ call[c].pc \in {"ping", "operate", "insert"}

\* The deadline passes, or the client goes away.
Deadline(c) ==
    /\ HasDeadline(c) /\ ~call[c].expired
    /\ Set(c, [call[c] EXCEPT !.expired = TRUE])
    /\ UNCHANGED Others

Leave(c) ==
    /\ InProgress(c) /\ ~call[c].expired
    /\ faults < MaxFaults
    /\ faults' = faults + 1
    /\ Set(c, [call[c] EXCEPT !.expired = TRUE])
    /\ UNCHANGED <<store, key, state, columns, inflight, written>>

-----------------------------------------------------------------------------
(***************************************************************************)
(* The databases and the programs                                          *)
(***************************************************************************)

\* An INSERT arrives and is executed, or is lost with its connection.
Insert(c) ==
    /\ c \in inflight
    /\ inflight' = inflight \ {c}
    /\ \/ state["target"] = "up" /\ written' = [written EXCEPT ![c] = @ + 1]
       \/ /\ state["target"] # "up" \/ call[c].pc # "insert" \/ call[c].expired
          /\ UNCHANGED written
    /\ UNCHANGED <<store, key, state, columns, call, faults>>

Change(d, new) ==
    /\ state[d] # new
    /\ new # "up" => faults < MaxFaults
    /\ faults' = IF new = "up" THEN faults ELSE faults + 1
    /\ state' = [state EXCEPT ![d] = new]
    /\ UNCHANGED <<store, key, columns, call, inflight, written>>

\* A column of the table is dropped.
AlterTable(col) ==
    /\ col \in columns
    /\ faults < MaxFaults
    /\ faults' = faults + 1
    /\ columns' = columns \ {col}
    /\ UNCHANGED <<store, key, state, call, inflight, written>>

\* A program ends, with its calls and their handles, and starts with a key.
Restart(p, k) ==
    /\ faults < MaxFaults
    /\ faults' = faults + 1
    /\ key' = [key EXCEPT ![p] = k]
    /\ call' = [c \in Calls |->
                  IF InProgress(c) /\ call[c].req.via = p
                  THEN Over(c, "lost")
                  ELSE call[c]]
    /\ UNCHANGED <<store, state, columns, inflight, written>>

Next ==
    \/ \E ref \in Refs, s \in Settings : CreateConnection(ref, s)
    \/ \E c \in Calls :
          \/ \E req \in Requests[c] : Begin(c, req)
          \/ Step(c)
          \/ Deadline(c)
          \/ Leave(c)
          \/ Break(c)
          \/ Insert(c)
    \/ \E d \in {"store", "target"}, new \in {"up", "down", "hung"} : Change(d, new)
    \/ \E col \in Columns : AlterTable(col)
    \/ \E p \in Programs, k \in Keys : Restart(p, k)

Spec == Init /\ [][Next]_vars

\* A handler goes on as soon as what it waits for is there, deadlines pass,
\* and an INSERT does not stay on its way for ever.
Fairness == \A c \in Calls : WF_vars(Step(c)) /\ WF_vars(Deadline(c)) /\ WF_vars(Insert(c))

FairSpec == Spec /\ Fairness

-----------------------------------------------------------------------------
\* Calls have an answer exactly when they are over, and no settings that the
\* store or the request does not have: a password is decrypted to what was
\* encrypted or not at all.
TypeOK ==
    /\ \A c \in Calls :
          /\ call[c].answer \in Answers \cup {None}
          /\ call[c].answer # None <=> call[c].pc \in {"return", "done"}
          /\ call[c].handles \subseteq {"store", "target"}
          /\ call[c].settings # None =>
                call[c].settings \in Settings \cup {call[c].req.inline}
    /\ inflight \subseteq Calls
    /\ \A c \in inflight : call[c].req.op = "write"
    /\ faults \in 0..MaxFaults

\* No handle outlives its call, whichever way it ends, and no call holds one on
\* the store while it works on the target (the deferred Close of the handlers,
\* and that of openPostgres and getConnection).
HandlesReturned ==
    \A c \in Calls :
        /\ call[c].handles # {} => InProgress(c)
        /\ "store" \in call[c].handles => call[c].pc = "resolve"
        /\ "target" \in call[c].handles =>
              call[c].pc \in {"ping", "operate", "insert", "return"}

\* A write answered with success has written one row, one that was refused
\* none, now or later, and one that failed at most one: a client that tries
\* again after a failure may write twice, the service never does
\* (HandleSimulateWrite, WriteRow).
WriteOnce ==
    \A c \in Calls :
        /\ written[c] + (IF c \in inflight THEN 1 ELSE 0) <= 1
        /\ (call[c].answer = "ok" /\ call[c].req.op = "write") => written[c] = 1
        /\ call[c].answer \in {"refused", "notFound"} => written[c] = 0 /\ c \notin inflight

\* What a call answers with success is all that was asked for, except for the
\* recent rows of an MCP server (the checks of rows.Err; fetchRecentRows has
\* none).  And a profile counts no column as missing in every row that the
\* sample did not ask for, though the table may change between the statements
\* (ProfileTable, sampleRows).
AnswersAreWhole ==
    \A c \in Calls : call[c].answer = "ok" =>
        /\ call[c].req.op # "recent" => call[c].whole
        /\ (call[c].req.op = "profile" /\ call[c].pc = "return") =>
              call[c].described \subseteq call[c].sampled

\* A connection that was tested can be queried by the scheduler as long as
\* nothing fails, if there is an adapter for its type and the password has
\* nothing that a URL does not carry: three programs look at the type, two
\* decrypt the password and each has a way to pass it on.
TestedMeansPollable ==
    \A t, c \in Calls :
        (/\ faults = 0
         /\ call[t].answer = "ok" /\ call[t].req.op = "test" /\ call[t].req.ref # None
         /\ call[c].answer # None /\ call[c].req.via = "mcp"
         /\ call[c].req.ref = call[t].req.ref /\ call[c].known
         /\ key["mcp"] = key["service"]
         /\ ~call[c].expired)
        => \/ call[c].answer = "ok"
           \/ AdapterFor(store[call[c].req.ref].type) = None
           \/ Query(call[c].req.op) /\ store[call[c].req.ref].password_enc.plain # "plain"

\* A call that has a deadline, or whose client has left, ends, even if a
\* database never answers (the contexts that the handlers pass on).
CallsEnd ==
    \A c \in Calls :
        (HasDeadline(c) \/ (InProgress(c) /\ call[c].expired)) ~> ~InProgress(c)
=============================================================================

------------------------- MODULE ConnectionsProofs --------------------------
(***************************************************************************)
(* Proofs about Connections.                                               *)
(*                                                                         *)
(* What a call may do depends on its own record, on the rows it has        *)
(* written and on whether its INSERT is on its way, and no step changes    *)
(* these for two calls, except the end of a program.  So the invariant is  *)
(* one statement about these three, CallInv, for every call.               *)
(***************************************************************************)
EXTENDS Connections, TLAPS

PCs == {"idle", "route", "openStore", "resolve", "open", "ping", "operate", "insert",
        "return", "done"}
Statements == {"tables", "columns", "keys", "indexes", "count", "sample", "insert",
               "latest", "aggregate", "recent"}

AllRequests == UNION {Requests[c] : c \in Calls}
AllSettings == Settings \cup {r.inline : r \in AllRequests} \cup {None}

CallRecord ==
    [pc : PCs, req : AllRequests \cup {None}, known : BOOLEAN, settings : AllSettings,
     handles : SUBSET {"store", "target"}, todo : Seq(Statements),
     described : {None} \cup (SUBSET Columns), sampled : {None} \cup (SUBSET Columns),
     whole : BOOLEAN, expired : BOOLEAN, answer : Answers \cup {None}]

Rows == {[type |-> s.type, right |-> s.right, password_enc |-> Encrypt(s.password, k)] :
            s \in Settings, k \in Keys}

Typed ==
    /\ store \in [Refs -> Rows \cup {None}]
    /\ key \in [Programs -> Keys \cup {None}] /\ key["rules"] \in Keys
    /\ columns \subseteq Columns
    /\ call \in [Calls -> CallRecord]
    /\ inflight \subseteq Calls
    /\ written \in [Calls -> Nat]
    /\ faults \in 0..MaxFaults

\* Before the handle on the target.
Before == {"idle", "route", "openStore", "resolve", "open"}

\* How far a call is, and what it has by then.
StageInv(c, r) ==
    /\ r.pc # "idle" => r.req \in Requests[c]
    /\ r.pc \in {"route", "openStore", "resolve"} => r.req.ref # None
    /\ r.answer # None <=> r.pc \in {"return", "done"}
    /\ r.settings # None => r.settings \in Settings \cup {r.req.inline}
    /\ "store" \in r.handles => r.pc = "resolve"
    /\ "target" \in r.handles => r.pc \in {"ping", "operate", "insert", "return"}

\* Only a write has an INSERT to do, only "recent" a result that may break off
\* unnoticed, and a write nothing else.
Belongs(s, req) ==
    /\ s = "insert" => req.op = "write"
    /\ s = "recent" => req.op = "recent"
    /\ s = "sample" => req.via = "service"

TodoInv(r) ==
    /\ r.pc \in Before => r.todo = <<>>
    /\ \A i \in 1..Len(r.todo) : Belongs(r.todo[i], r.req)
    /\ r.pc = "insert" => r.req.op = "write" /\ r.todo = <<"insert">>
    /\ r.pc = "ping" /\ r.req.op = "write" => r.todo = <<"insert">>
    /\ r.pc = "operate" /\ r.req.op = "write" => r.todo \in {<<>>, <<"insert">>}

\* w rows are written, and f says whether the INSERT is on its way: neither
\* before it is sent, and one row once the call has heard of it.
WriteInv(r, w, f) ==
    /\ w + (IF f THEN 1 ELSE 0) <= 1
    /\ (\/ r.pc \in Before \cup {"ping"}
        \/ r.pc = "operate" /\ r.todo # <<>>
        \/ r.req.op # "write") => w = 0 /\ ~f
    /\ (r.pc = "operate" /\ r.todo = <<>> /\ r.req.op = "write") => w = 1
    /\ (r.answer = "ok" /\ r.req.op = "write") => w = 1
    /\ r.answer \in {"refused", "notFound"} => w = 0 /\ ~f

\* A profile describes the columns first, once, and samples later.
ProfileInv(r) ==
    /\ \A i \in 2..Len(r.todo) : r.todo[i] # "columns"
    /\ IF r.todo # <<>> /\ r.todo[1] = "columns"
       THEN \E i \in 2..Len(r.todo) : r.todo[i] = "sample"
       ELSE r.described \in SUBSET Columns
    /\ (\A i \in 1..Len(r.todo) : r.todo[i] # "sample") => r.described \subseteq r.sampled

WholeInv(r) ==
    /\ r.whole \/ r.req.op = "recent"
    /\ (r.pc \in {"ping", "operate"} /\ r.req.op = "profile") => ProfileInv(r)
    /\ (r.pc = "return" /\ r.answer = "ok" /\ r.req.op = "profile")
          => r.described \subseteq r.sampled

CallInv(c, r, w, f) == StageInv(c, r) /\ TodoInv(r) /\ WriteInv(r, w, f) /\ WholeInv(r)

\* The inductive invariant.
Inv == Typed /\ \A c \in Calls : CallInv(c, call[c], written[c], c \in inflight)

-----------------------------------------------------------------------------
\* The statements of a call are those its request asks for.
LEMMA StatementsBelong ==
  ASSUME NEW req \in AllRequests, NEW engine
  PROVE  /\ statements(req, engine) \in Seq(Statements)
         /\ \A i \in 1..Len(statements(req, engine)) : Belongs(statements(req, engine)[i], req)
         /\ req.op = "write" => statements(req, engine) = <<"insert">>
         /\ req.op = "profile" =>
               /\ Len(statements(req, engine)) >= 4
               /\ statements(req, engine)[1] = "columns"
               /\ \A i \in 2..Len(statements(req, engine)) :
                     statements(req, engine)[i] # "columns"
               /\ \E i \in 2..Len(statements(req, engine)) :
                     statements(req, engine)[i] = "sample"
  <1>1. \/ req.via = "service" /\ req.op \in serviceOps
        \/ req.via = "mcp" /\ req.op \in mcpOps
    BY ConnectionsAssumption DEF AllRequests
  <1>2. CASE req.op = "test"
    <2>1. statements(req, engine) = <<>>
      BY <1>2 DEF statements, Query
    <2> QED BY <1>2, <2>1 DEF Belongs, Statements
  <1>3. CASE req.op \in {"tables", "list_tables"}
    <2>1. statements(req, engine) = <<"tables">>
      BY <1>3 DEF statements, Query, MySQLConnector, PostgresConnector, MSSQLConnector
    <2> QED BY <1>3, <2>1 DEF Belongs, Statements
  <1>4. CASE req.op \in {"describe", "list_columns"}
    <2>1. statements(req, engine) \in {<<"columns", "indexes">>, <<"columns", "keys", "indexes">>}
      BY <1>4 DEF statements, Query, MySQLConnector, PostgresConnector, MSSQLConnector
    <2>2. CASE statements(req, engine) = <<"columns", "indexes">>
      BY <1>4, <2>2 DEF Belongs, Statements
    <2>3. CASE statements(req, engine) = <<"columns", "keys", "indexes">>
      BY <1>4, <2>3 DEF Belongs, Statements
    <2> QED BY <2>1, <2>2, <2>3
  <1>5. CASE req.op = "sample"
    <2>1. statements(req, engine) = <<"sample">>
      BY <1>5 DEF statements, Query, MySQLConnector, PostgresConnector, MSSQLConnector
    <2> QED BY <1>1, <1>5, <2>1 DEF Belongs, Statements, mcpOps
  <1>6. CASE req.op = "profile"
    <2>1. statements(req, engine) \in 
            {<<"columns", "indexes", "count", "sample">>,
             <<"columns", "keys", "indexes", "count", "sample">>}
      BY <1>6 DEF statements, Query, MySQLConnector, PostgresConnector, MSSQLConnector
    <2>2. req.via = "service"
      BY <1>1, <1>6 DEF mcpOps
    <2>3. CASE statements(req, engine) = <<"columns", "indexes", "count", "sample">>
      BY <1>6, <2>2, <2>3 DEF Belongs, Statements
    <2>4. CASE statements(req, engine) = <<"columns", "keys", "indexes", "count", "sample">>
      BY <1>6, <2>2, <2>4 DEF Belongs, Statements
    <2> QED BY <2>1, <2>3, <2>4
  <1>7. CASE req.op = "write"
    <2>1. statements(req, engine) = <<"insert">>
      BY <1>7 DEF statements, Query, MySQLConnector, PostgresConnector, MSSQLConnector
    <2> QED BY <1>7, <2>1 DEF Belongs, Statements
  <1>8. CASE Query(req.op)
    <2>1. statements(req, engine) = <<req.op>>
      BY <1>8 DEF statements, Query
    <2> QED BY <1>8, <2>1 DEF Belongs, Statements, Query
  <1> QED BY <1>1, <1>2, <1>3, <1>4, <1>5, <1>6, <1>7, <1>8
          DEF serviceOps, mcpOps, Query

\* A step that changes the record of one call only keeps all others.
LEMMA SetKeeps ==
  ASSUME Inv, NEW c \in Calls, NEW new \in CallRecord, Set(c, new),
         CallInv(c, new, written[c], c \in inflight),
         UNCHANGED <<store, key, columns, inflight, written>>, faults' \in 0..MaxFaults
  PROVE  Inv'
  <1>1. call' \in [Calls -> CallRecord] /\ call'[c] = new
        /\ \A d \in Calls : d # c => call'[d] = call[d]
    BY DEF Inv, Typed, Set
  <1>2. Typed'
    BY <1>1 DEF Inv, Typed
  <1>3. ASSUME NEW d \in Calls
        PROVE  CallInv(d, call'[d], written'[d], d \in inflight')
    <2>1. CASE d = c
      BY <1>1, <2>1
    <2>2. CASE d # c
      BY <1>1, <2>2 DEF Inv
    <2> QED BY <2>1, <2>2
  <1> QED BY <1>2, <1>3 DEF Inv

LEMMA IdleTyped == IdleCall \in CallRecord
  BY DEF IdleCall, CallRecord, PCs, AllSettings

\* A call that is answered with anything but success.  A refusal means that
\* nothing was sent.
LEMMA AnswerKeeps ==
  ASSUME Inv, NEW c \in Calls, NEW code \in Answers, code # "ok", Answer(c, code),
         call[c].pc \notin {"idle", "resolve", "return", "done"},
         code \in {"refused", "notFound"} => call[c].pc \in Before,
         UNCHANGED <<store, key, columns, inflight, written>>, faults' \in 0..MaxFaults
  PROVE  Inv'
  <1> DEFINE r == call[c]
             new == [r EXCEPT !.pc = "return", !.answer = code]
  <1>1. r \in CallRecord /\ CallInv(c, r, written[c], c \in inflight)
    BY DEF Inv, Typed
  <1>2. /\ new \in CallRecord /\ new.pc = "return" /\ new.answer = code
        /\ new.req = r.req /\ new.settings = r.settings /\ new.handles = r.handles
        /\ new.todo = r.todo /\ new.whole = r.whole
        /\ new.described = r.described /\ new.sampled = r.sampled
    BY <1>1 DEF CallRecord, PCs
  <1>3. Set(c, new)
    BY DEF Answer
  <1>4. code # None
    BY ConnectionsAssumption
  <1> HIDE DEF new
  <1>5. StageInv(c, new)
    BY <1>1, <1>2, <1>4 DEF CallInv, StageInv, CallRecord
  <1>6. TodoInv(new)
    BY <1>1, <1>2 DEF CallInv, TodoInv, Before
  <1>7. WriteInv(new, written[c], c \in inflight)
    BY <1>1, <1>2 DEF CallInv, WriteInv, Before
  <1>8. WholeInv(new)
    BY <1>1, <1>2 DEF CallInv, WholeInv
  <1>9. CallInv(c, new, written[c], c \in inflight)
    BY <1>5, <1>6, <1>7, <1>8 DEF CallInv
  <1> QED BY <1>2, <1>3, <1>9, SetKeeps

\* A call that goes on, before its handle on the target is open.
LEMMA EarlyKeeps ==
  ASSUME Inv, NEW c \in Calls, NEW new \in CallRecord, Set(c, new),
         call[c].pc \in Before, new.pc \in Before \ {"idle"},
         new.req \in Requests[c], new.pc # "open" => new.req.ref # None, new.answer = None, new.todo = <<>>,
         new.whole \/ new.req.op = "recent",
         new.settings # None => new.settings \in Settings \cup {new.req.inline},
         new.handles = {} \/ (new.pc = "resolve" /\ new.handles = {"store"}),
         UNCHANGED <<store, key, columns, inflight, written, faults>>
  PROVE  Inv'
  <1>1. CallInv(c, call[c], written[c], c \in inflight)
    BY DEF Inv
  <1>2. StageInv(c, new)
    BY DEF StageInv, Before
  <1>3. TodoInv(new)
    BY DEF TodoInv, Before
  <1>4. WriteInv(new, written[c], c \in inflight)
    <2>1. written[c] = 0 /\ c \notin inflight
      BY <1>1 DEF CallInv, WriteInv
    <2>2. new.answer \notin {"ok", "refused", "notFound"}
      BY ConnectionsAssumption DEF Answers
    <2> QED BY <2>1, <2>2 DEF WriteInv, Before
  <1>5. WholeInv(new)
    BY DEF WholeInv, Before
  <1>6. CallInv(c, new, written[c], c \in inflight)
    BY <1>2, <1>3, <1>4, <1>5 DEF CallInv
  <1>7. faults' \in 0..MaxFaults
    BY DEF Inv, Typed
  <1> QED BY <1>6, <1>7, SetKeeps

\* A handle cannot be opened, or a look-up fails: the codes.
LEMMA LookupAnswers ==
  ASSUME NEW req, NEW err \in {"notFound", "internal", "notConfigured", "type"},
         err = "type" => req.via = "mcp"
  PROVE  lookupAnswer(req, err) \in {"refused", "notFound", "internal"}
  BY DEF lookupAnswer

LEMMA OpenAnswers == \A req : /\ openAnswer(req) \in {"failed", "notOk", "refused"}
                              /\ failAnswer(req) \in {"failed", "notOk"}
  BY DEF openAnswer, failAnswer

\* What is found for a row is what was stored, or an error.
LEMMA GetConnectionFinds ==
  ASSUME NEW row \in Rows \cup {None}, NEW k
  PROVE  \/ GetConnection(row, k).err \in {"notFound", "internal"}
         \/ /\ GetConnection(row, k).err = None
            /\ GetConnection(row, k).settings \in Settings
  <1>1. CASE row = None
    BY <1>1 DEF GetConnection, Error
  <1>2. CASE row # None /\ Decrypt(row.password_enc, k) = None
    BY <1>2 DEF GetConnection, Error
  <1>3. CASE row # None /\ Decrypt(row.password_enc, k) # None
    <2>1. PICK s \in Settings, kk \in Keys :
             row = [type |-> s.type, right |-> s.right, password_enc |-> Encrypt(s.password, kk)]
      BY <1>3 DEF Rows
    <2>2. Decrypt(row.password_enc, k) = s.password
      BY <1>3, <2>1 DEF Decrypt, Encrypt
    <2>3. GetConnection(row, k) = [err |-> None,
             settings |-> [type |-> row.type, right |-> row.right,
                           password |-> Decrypt(row.password_enc, k)]]
      BY <1>3 DEF GetConnection
    <2>4. s = [type |-> s.type, right |-> s.right, password |-> s.password]
      BY ConnectionsAssumption
    <2> QED BY <2>1, <2>2, <2>3, <2>4
  <1> QED BY <1>1, <1>2, <1>3

LEMMA LookupFinds ==
  ASSUME Inv, NEW c \in Calls, call[c].pc = "resolve", call[c].req.ref \in Refs
  PROVE  \/ /\ Lookup(c).err \in {"notFound", "internal", "notConfigured", "type"}
            /\ Lookup(c).err = "type" => call[c].req.via = "mcp"
         \/ Lookup(c).err = None /\ Lookup(c).settings \in Settings
  <1>1. store[call[c].req.ref] \in Rows \cup {None}
    BY DEF Inv, Typed
  <1>2. call[c].req.via \in {"service", "mcp"}
    <2>1. call[c].req \in Requests[c]
      BY DEF Inv, CallInv, StageInv
    <2> QED BY <2>1, ConnectionsAssumption
  <1>3. CASE call[c].req.via = "service"
    BY <1>1, <1>3, GetConnectionFinds DEF Lookup, Error
  <1>4. CASE call[c].req.via = "mcp"
    BY <1>1, <1>4, GetConnectionFinds DEF Lookup, Error
  <1> QED BY <1>2, <1>3, <1>4

-----------------------------------------------------------------------------
\* The steps of a call, in their order.
LEMMA BeginKeeps ==
  ASSUME Inv, NEW c \in Calls, NEW req \in Requests[c], Begin(c, req)
  PROVE  Inv'
  <1> DEFINE known == req.ref # None /\ store[req.ref] # None
             start == [IdleCall EXCEPT !.req = req, !.known = known]
  <1>0. call[c].pc = "idle" /\ UNCHANGED <<store, key, columns, inflight, written, faults>>
    BY DEF Begin, Others
  <1>1. req \in AllRequests
    BY DEF AllRequests
  <1>2. /\ start \in CallRecord /\ start.req = req /\ start.todo = <<>> /\ start.whole
        /\ start.answer = None /\ start.handles = {} /\ start.settings = None
        /\ start.described = None /\ start.sampled = None
    BY <1>1, IdleTyped DEF CallRecord, IdleCall
  <1>3. CASE ~Valid(req)
    <2> DEFINE new == [start EXCEPT !.pc = "return", !.answer = "refused"]
    <2>1. Set(c, new)
      BY <1>3 DEF Begin
    <2> HIDE DEF start
    <2>2. /\ new \in CallRecord /\ new.pc = "return" /\ new.answer = "refused"
          /\ new.req = req /\ new.todo = <<>> /\ new.whole /\ new.handles = {}
          /\ new.settings = None
      BY <1>2 DEF CallRecord, PCs, Answers
    <2> HIDE DEF new
    <2>3. written[c] = 0 /\ c \notin inflight
      BY <1>0 DEF Inv, CallInv, WriteInv, Before
    <2>4. StageInv(c, new) /\ TodoInv(new) /\ WholeInv(new)
      BY <2>2, ConnectionsAssumption DEF StageInv, TodoInv, WholeInv, Before, Answers
    <2>5. WriteInv(new, written[c], c \in inflight)
      BY <2>2, <2>3 DEF WriteInv
    <2>6. CallInv(c, new, written[c], c \in inflight) /\ faults' \in 0..MaxFaults
      BY <1>0, <2>4, <2>5 DEF CallInv, Inv, Typed
    <2> QED BY <1>0, <2>1, <2>2, <2>6, SetKeeps
  <1>4. ASSUME NEW pc \in {"route", "resolve"}, req.ref # None,
               Set(c, [start EXCEPT !.pc = pc])
        PROVE  Inv'
    <2> DEFINE new == [start EXCEPT !.pc = pc]
    <2> HIDE DEF start
    <2>1. /\ new \in CallRecord /\ new.pc = pc /\ new.answer = None
          /\ new.req = req /\ new.todo = <<>> /\ new.whole /\ new.handles = {}
          /\ new.settings = None
      BY <1>2 DEF CallRecord, PCs
    <2>2. Set(c, new)
      BY <1>4
    <2> HIDE DEF new
    <2> QED BY <1>0, <1>4, <2>1, <2>2, EarlyKeeps DEF Before
  <1>5. CASE Set(c, [start EXCEPT !.pc = "open", !.settings = req.inline])
    <2> DEFINE new == [start EXCEPT !.pc = "open", !.settings = req.inline]
    <2>1. Set(c, new)
      BY <1>5
    <2> HIDE DEF start
    <2>2. req.inline \in AllSettings
      BY <1>1 DEF AllSettings
    <2>3. /\ new \in CallRecord /\ new.pc = "open" /\ new.answer = None
          /\ new.req = req /\ new.todo = <<>> /\ new.whole /\ new.handles = {}
          /\ new.settings = req.inline
      BY <1>2, <2>2 DEF CallRecord, PCs
    <2> HIDE DEF new
    <2> QED BY <1>0, <2>1, <2>3, EarlyKeeps DEF Before
  <1>6. CASE Valid(req) /\ req.via = "mcp"
    <2>1. req.ref # None /\ Set(c, [start EXCEPT !.pc = "route"])
      BY <1>6, ConnectionsAssumption DEF Begin, Valid, mcpOps
    <2> QED BY <1>4, <2>1
  <1>7. CASE Valid(req) /\ req.via # "mcp"
    <2>1. CASE req.ref # None
      <3>1. Set(c, [start EXCEPT !.pc = "resolve"])
        BY <1>7, <2>1 DEF Begin
      <3> QED BY <1>4, <2>1, <3>1
    <2>2. CASE req.ref = None
      <3>1. Set(c, [start EXCEPT !.pc = "open", !.settings = req.inline])
        BY <1>7, <2>2 DEF Begin
      <3> QED BY <1>5, <3>1
    <2> QED BY <2>1, <2>2
  <1> QED BY <1>3, <1>6, <1>7

\* What a call in progress is known to have.
LEMMA InProgressHas ==
  ASSUME Inv, NEW c \in Calls, call[c].pc # "idle"
  PROVE  /\ call[c] \in CallRecord /\ call[c].req \in Requests[c]
         /\ call[c].req \in AllRequests
         /\ call[c].pc \notin {"return", "done"} => call[c].answer = None
         /\ CallInv(c, call[c], written[c], c \in inflight)
         /\ call[c].pc \in Before =>
               /\ call[c].todo = <<>> /\ written[c] = 0 /\ c \notin inflight
         /\ faults \in 0..MaxFaults
  <1>1. call[c] \in CallRecord /\ CallInv(c, call[c], written[c], c \in inflight)
        /\ faults \in 0..MaxFaults
    BY DEF Inv, Typed
  <1>2. call[c].req \in Requests[c]
    BY <1>1 DEF CallInv, StageInv
  <1> QED BY <1>1, <1>2 DEF CallInv, StageInv, TodoInv, WriteInv, AllRequests, Before

LEMMA RouteKeeps ==
  ASSUME Inv, NEW c \in Calls, Route(c) \/ OpenPostgres(c)
  PROVE  Inv'
  <1> DEFINE r == call[c]
  <1>0. /\ r.pc \in {"route", "openStore"}
        /\ UNCHANGED <<store, key, columns, inflight, written, faults>>
    BY DEF Route, OpenPostgres, Others
  <1>1. /\ r \in CallRecord /\ r.req \in Requests[c] /\ r.answer = None /\ r.todo = <<>>
        /\ CallInv(c, r, written[c], c \in inflight) /\ faults \in 0..MaxFaults
    BY <1>0, InProgressHas DEF Before
  <1>2. CASE \E code \in {"unroutable", "refused"} : Answer(c, code)
    BY <1>0, <1>1, <1>2, AnswerKeeps DEF Before, Answers
  <1>3. CASE \E pc \in {"openStore", "resolve"}, handles \in SUBSET {"store"} :
               /\ Set(c, [r EXCEPT !.pc = pc, !.handles = handles])
               /\ handles = {"store"} => pc = "resolve"
    <2>1. PICK pc \in {"openStore", "resolve"}, handles \in SUBSET {"store"} :
               /\ Set(c, [r EXCEPT !.pc = pc, !.handles = handles])
               /\ handles = {"store"} => pc = "resolve"
      BY <1>3
    <2> DEFINE new == [r EXCEPT !.pc = pc, !.handles = handles]
    <2>2. /\ new \in CallRecord /\ new.pc = pc /\ new.answer = None
          /\ new.req = r.req /\ new.todo = <<>> /\ new.whole = r.whole
          /\ new.handles = handles /\ new.settings = r.settings
      BY <1>1 DEF CallRecord, PCs
    <2>3. /\ r.req.ref # None
          /\ r.settings # None => r.settings \in Settings \cup {r.req.inline}
      BY <1>0, <1>1 DEF CallInv, StageInv
    <2>4. Set(c, new)
      BY <2>1
    <2>5. new.whole \/ new.req.op = "recent"
      BY <1>1, <2>2 DEF CallInv, WholeInv
    <2> HIDE DEF new
    <2> QED BY <1>0, <1>1, <2>1, <2>2, <2>3, <2>4, <2>5, EarlyKeeps DEF Before
  <1>4. CASE Route(c)
    <2>1. r.handles = {}
      BY <1>1, <1>4 DEF CallInv, StageInv, Route, CallRecord
    <2>2. [r EXCEPT !.pc = "openStore"] = [r EXCEPT !.pc = "openStore", !.handles = {}]
      BY <1>1, <2>1 DEF CallRecord
    <2>3. Answer(c, "unroutable") \/ Set(c, [r EXCEPT !.pc = "openStore", !.handles = {}])
      BY <1>4, <2>2 DEF Route
    <2> QED BY <1>2, <1>3, <2>3
  <1>5. CASE OpenPostgres(c)
    BY <1>2, <1>3, <1>5 DEF OpenPostgres
  <1> QED BY <1>4, <1>5

LEMMA ResolveKeeps ==
  ASSUME Inv, NEW c \in Calls, Resolve(c)
  PROVE  Inv'
  <1> DEFINE r == call[c]
             found == Lookup(c)
             closed == [r EXCEPT !.handles = {}]
  <1>0. r.pc = "resolve" /\ UNCHANGED <<store, key, columns, inflight, written, faults>>
    BY DEF Resolve, Others
  <1>1. /\ r \in CallRecord /\ r.req \in Requests[c] /\ r.answer = None /\ r.todo = <<>>
        /\ CallInv(c, r, written[c], c \in inflight) /\ faults \in 0..MaxFaults
        /\ written[c] = 0 /\ c \notin inflight
    BY <1>0, InProgressHas DEF Before
  <1>2. /\ closed \in CallRecord /\ closed.handles = {} /\ closed.req = r.req
        /\ closed.todo = <<>> /\ closed.whole = r.whole /\ closed.answer = None
        /\ closed.settings = r.settings
    BY <1>1 DEF CallRecord
  <1>3. /\ r.req.ref \in Refs /\ (r.whole \/ r.req.op = "recent")
        /\ r.settings # None => r.settings \in Settings \cup {r.req.inline}
    BY <1>0, <1>1, ConnectionsAssumption DEF CallInv, StageInv, WholeInv
  <1>4. CASE found.err # None
    <2> DEFINE code == lookupAnswer(closed.req, found.err)
               new == [closed EXCEPT !.pc = "return", !.answer = code]
    <2>1. code \in {"refused", "notFound", "internal"}
      BY <1>0, <1>2, <1>3, <1>4, LookupFinds, LookupAnswers
    <2>2. Set(c, new)
      BY <1>4 DEF Resolve
    <2> HIDE DEF code, closed
    <2>3. /\ new \in CallRecord /\ new.pc = "return" /\ new.answer = code /\ new.req = r.req
          /\ new.handles = {} /\ new.todo = <<>> /\ new.whole = r.whole
          /\ new.settings = r.settings
      BY <1>2, <2>1 DEF CallRecord, PCs, Answers
    <2> HIDE DEF new
    <2>4. code # None
      BY <2>1, ConnectionsAssumption DEF Answers
    <2>5. StageInv(c, new) /\ TodoInv(new) /\ WholeInv(new)
      BY <1>1, <1>3, <2>1, <2>3, <2>4 DEF StageInv, TodoInv, WholeInv, Before
    <2>6. WriteInv(new, written[c], c \in inflight)
      BY <1>1, <2>1, <2>3 DEF WriteInv
    <2>7. CallInv(c, new, written[c], c \in inflight)
      BY <2>5, <2>6 DEF CallInv
    <2> QED BY <1>0, <1>1, <2>2, <2>3, <2>7, SetKeeps
  <1>5. CASE found.err = None
    <2> DEFINE new == [closed EXCEPT !.pc = "open", !.settings = found.settings]
    <2>1. Set(c, new)
      BY <1>5 DEF Resolve
    <2>2. found.settings \in Settings
      BY <1>0, <1>3, <1>5, LookupFinds, ConnectionsAssumption DEF Answers
    <2> HIDE DEF found, closed
    <2>3. found.settings \in AllSettings
      BY <2>2 DEF AllSettings
    <2>4. /\ new \in CallRecord /\ new.pc = "open" /\ new.answer = None /\ new.req = r.req
          /\ new.handles = {} /\ new.todo = <<>> /\ new.whole = r.whole
          /\ new.settings = found.settings
      BY <1>2, <2>3 DEF CallRecord, PCs
    <2> HIDE DEF new
    <2> QED BY <1>0, <1>1, <1>3, <2>1, <2>2, <2>4, EarlyKeeps DEF Before
  <1> QED BY <1>4, <1>5

LEMMA OpenKeeps ==
  ASSUME Inv, NEW c \in Calls, Open(c)
  PROVE  Inv'
  <1> DEFINE r == call[c]
             engine == Engine(r.req, r.settings.type)
             pc == IF r.req.via = "mcp" THEN "operate" ELSE "ping"
             todo == statements(r.req, engine)
             opened == [r EXCEPT !.handles = {"target"}, !.todo = todo]
             new == [opened EXCEPT !.pc = pc]
  <1>0. r.pc = "open" /\ UNCHANGED <<store, key, columns, inflight, written, faults>>
    BY DEF Open, Others
  <1>1. /\ r \in CallRecord /\ r.req \in AllRequests /\ r.req \in Requests[c]
        /\ r.answer = None /\ faults \in 0..MaxFaults
        /\ CallInv(c, r, written[c], c \in inflight) /\ written[c] = 0 /\ c \notin inflight
    BY <1>0, InProgressHas DEF Before
  <1>2. CASE engine = None
    <2>1. Answer(c, openAnswer(r.req))
      BY <1>2 DEF Open
    <2>2. openAnswer(r.req) \in {"failed", "notOk", "refused"}
      BY OpenAnswers
    <2> QED BY <1>0, <1>1, <2>1, <2>2, AnswerKeeps DEF Before, Answers
  <1>3. CASE engine # None
    <2>1. Set(c, new)
      BY <1>3 DEF Open
    <2>2. /\ todo \in Seq(Statements)
          /\ \A i \in 1..Len(todo) : Belongs(todo[i], r.req)
          /\ r.req.op = "write" => todo = <<"insert">>
          /\ r.req.op = "profile" =>
                /\ Len(todo) >= 4 /\ todo[1] = "columns"
                /\ \A i \in 2..Len(todo) : todo[i] # "columns"
                /\ \E i \in 2..Len(todo) : todo[i] = "sample"
      BY <1>1, StatementsBelong
    <2> HIDE DEF todo, engine
    <2>3. pc \in {"operate", "ping"} /\ (pc = "operate" => r.req.via = "mcp")
      OBVIOUS
    <2> HIDE DEF pc
    <2>4. /\ opened \in CallRecord /\ opened.req = r.req /\ opened.todo = todo
          /\ opened.handles = {"target"} /\ opened.whole = r.whole
          /\ opened.answer = None /\ opened.settings = r.settings
      BY <1>1, <2>2 DEF CallRecord
    <2> HIDE DEF opened
    <2>5. /\ new \in CallRecord /\ new.pc = pc /\ new.req = r.req /\ new.todo = todo
          /\ new.handles = {"target"} /\ new.whole = r.whole
          /\ new.answer = None /\ new.settings = r.settings
      BY <2>3, <2>4 DEF CallRecord, PCs
    <2> HIDE DEF new
    <2>6. StageInv(c, new)
      BY <1>1, <2>3, <2>5 DEF CallInv, StageInv
    <2>7. TodoInv(new)
      BY <2>2, <2>3, <2>5 DEF TodoInv, Before
    <2>8. WriteInv(new, written[c], c \in inflight)
      <3>1. ~(new.pc = "operate" /\ new.req.op = "write")
        BY <1>1, <2>3, <2>5, ConnectionsAssumption DEF mcpOps
      <3>2. None \notin {"ok", "refused", "notFound"}
        BY ConnectionsAssumption DEF Answers
      <3> QED BY <1>1, <2>5, <3>1, <3>2 DEF WriteInv
    <2>9. WholeInv(new)
      <3>1. new.req.op = "profile" => ProfileInv(new)
        BY <2>2, <2>5 DEF ProfileInv
      <3> QED BY <1>1, <2>3, <2>5, <3>1 DEF CallInv, WholeInv
    <2>10. CallInv(c, new, written[c], c \in inflight)
      BY <2>6, <2>7, <2>8, <2>9 DEF CallInv
    <2> QED BY <1>0, <1>1, <2>1, <2>5, <2>10, SetKeeps
  <1> QED BY <1>2, <1>3

LEMMA PingKeeps ==
  ASSUME Inv, NEW c \in Calls, TestConnection(c)
  PROVE  Inv'
  <1> DEFINE r == call[c]
             new == [r EXCEPT !.pc = "operate"]
  <1>0. r.pc = "ping" /\ UNCHANGED <<store, key, columns, inflight, written, faults>>
    BY DEF TestConnection, Others
  <1>1. /\ r \in CallRecord /\ r.answer = None /\ faults \in 0..MaxFaults
        /\ CallInv(c, r, written[c], c \in inflight)
    BY <1>0, InProgressHas
  <1>2. CASE Answer(c, failAnswer(r.req))
    BY <1>0, <1>1, <1>2, AnswerKeeps, OpenAnswers DEF Answers
  <1>3. CASE Set(c, new)
    <2>1. /\ new \in CallRecord /\ new.pc = "operate" /\ new.req = r.req
          /\ new.todo = r.todo /\ new.handles = r.handles /\ new.whole = r.whole
          /\ new.answer = None /\ new.settings = r.settings
          /\ new.described = r.described /\ new.sampled = r.sampled
      BY <1>1 DEF CallRecord, PCs
    <2>2. Set(c, new)
      BY <1>3
    <2> HIDE DEF new
    <2>3. StageInv(c, new) /\ TodoInv(new)
      BY <1>0, <1>1, <2>1 DEF CallInv, StageInv, TodoInv, Before
    <2>4. WriteInv(new, written[c], c \in inflight)
      <3>1. None \notin {"ok", "refused", "notFound"}
        BY ConnectionsAssumption DEF Answers
      <3>2. written[c] = 0 /\ c \notin inflight
            /\ (r.req.op = "write" => r.todo = <<"insert">>)
        BY <1>0, <1>1 DEF CallInv, WriteInv, TodoInv
      <3>3. ASSUME new.todo = <<>>, new.req.op = "write" PROVE FALSE
        <4>1. <<"insert">> = <<>>
          BY <2>1, <3>2, <3>3
        <4>2. Len(<<"insert">>) = 1 /\ Len(<<>>) = 0
          OBVIOUS
        <4> QED BY <4>1, <4>2
      <3> QED BY <2>1, <3>1, <3>2, <3>3 DEF WriteInv
    <2>5. WholeInv(new)
      <3>1. r.req.op = "profile" => ProfileInv(new)
        BY <1>0, <1>1, <2>1 DEF CallInv, WholeInv, ProfileInv
      <3> QED BY <1>1, <2>1, <3>1 DEF CallInv, WholeInv
    <2>6. CallInv(c, new, written[c], c \in inflight)
      BY <2>3, <2>4, <2>5 DEF CallInv
    <2> QED BY <1>0, <1>1, <2>1, <2>2, <2>6, SetKeeps
  <1> QED BY <1>2, <1>3 DEF TestConnection

\* A statement that succeeds, other than an INSERT; only the recent rows may
\* be incomplete.
LEMMA SucceedKeeps ==
  ASSUME Inv, NEW c \in Calls, NEW complete \in BOOLEAN,
         call[c].pc = "operate", call[c].todo # <<>>,
         Head(call[c].todo) # "insert", complete \/ Head(call[c].todo) = "recent",
         Succeed(c, Head(call[c].todo), complete),
         UNCHANGED <<store, key, columns, inflight, written>>, faults' \in 0..MaxFaults
  PROVE  Inv'
  <1> DEFINE r == call[c]
             s == Head(r.todo)
             described == IF s = "columns" THEN columns ELSE r.described
             sampled == IF s = "sample" THEN selectClause(c) ELSE r.sampled
             whole == r.whole /\ complete
             new == [r EXCEPT !.todo = Tail(r.todo), !.described = described,
                              !.sampled = sampled, !.whole = whole]
  <1>1. /\ r \in CallRecord /\ r.answer = None /\ r.req \in Requests[c]
        /\ CallInv(c, r, written[c], c \in inflight)
    BY InProgressHas
  <1>2. /\ r.todo \in Seq(Statements) /\ s = r.todo[1] /\ 1 \in 1..Len(r.todo)
        /\ Tail(r.todo) \in Seq(Statements) /\ Len(Tail(r.todo)) = Len(r.todo) - 1
        /\ \A i \in 1..Len(Tail(r.todo)) : Tail(r.todo)[i] = r.todo[i + 1]
        /\ Len(r.todo) \in Nat
    BY <1>1 DEF CallRecord
  <1>3. columns \subseteq Columns /\ selectClause(c) \in SUBSET Columns
    BY <1>1 DEF Inv, Typed, selectClause, CallRecord
  <1>4. described \in {None} \cup (SUBSET Columns) /\ sampled \in {None} \cup (SUBSET Columns)
    BY <1>1, <1>3 DEF CallRecord
  <1>5. Set(c, new)
    BY DEF Succeed
  <1>6. \A i \in 1..Len(r.todo) : Belongs(r.todo[i], r.req)
    BY <1>1 DEF CallInv, TodoInv
  <1>7. r.req.op # "write"
    BY <1>1, <1>2 DEF CallInv, TodoInv
  <1>8. written[c] = 0 /\ c \notin inflight
    BY <1>1, <1>7 DEF CallInv, WriteInv
  <1>9. r.req.op = "profile" =>
           /\ \A i \in 1..Len(Tail(r.todo)) : Tail(r.todo)[i] # "columns"
           /\ described \in SUBSET Columns
           /\ (\A i \in 1..Len(Tail(r.todo)) : Tail(r.todo)[i] # "sample")
                 => described \subseteq sampled
    <2> SUFFICES ASSUME r.req.op = "profile"
                 PROVE  /\ \A i \in 1..Len(Tail(r.todo)) : Tail(r.todo)[i] # "columns"
                        /\ described \in SUBSET Columns
                        /\ (\A i \in 1..Len(Tail(r.todo)) : Tail(r.todo)[i] # "sample")
                              => described \subseteq sampled
      OBVIOUS
    <2>1. ProfileInv(r)
      BY <1>1 DEF CallInv, WholeInv
    <2>2. \A i \in 1..Len(Tail(r.todo)) : Tail(r.todo)[i] # "columns"
      BY <1>2, <2>1 DEF ProfileInv
    <2>3. described \in SUBSET Columns
      BY <1>2, <1>3, <2>1 DEF ProfileInv
    <2>4. ASSUME \A i \in 1..Len(Tail(r.todo)) : Tail(r.todo)[i] # "sample"
          PROVE  described \subseteq sampled
      <3>1. \A i \in 2..Len(r.todo) : r.todo[i] # "sample"
        <4> SUFFICES ASSUME NEW i \in 2..Len(r.todo) PROVE r.todo[i] # "sample"
          OBVIOUS
        <4>1. i - 1 \in 1..Len(Tail(r.todo)) /\ (i - 1) + 1 = i
          BY <1>2
        <4> QED BY <1>2, <2>4, <4>1
      <3>2. s # "columns"
        BY <1>2, <2>1, <3>1 DEF ProfileInv
      <3>3. r.described \in SUBSET Columns
        BY <1>2, <2>1, <3>2 DEF ProfileInv
      <3>4. CASE s = "sample"
        BY <3>2, <3>3, <3>4, ConnectionsAssumption DEF selectClause
      <3>5. CASE s # "sample"
        <4>1. \A i \in 1..Len(r.todo) : r.todo[i] # "sample"
          BY <1>2, <3>1, <3>5
        <4> QED BY <2>1, <3>2, <3>5, <4>1 DEF ProfileInv
      <3> QED BY <3>4, <3>5
    <2> QED BY <2>2, <2>3, <2>4
  <1>a. whole \in BOOLEAN /\ (whole \/ r.req.op = "recent")
    BY <1>1, <1>2, <1>6 DEF CallInv, WholeInv, Belongs, CallRecord
  <1> HIDE DEF described, sampled, whole
  <1>10. /\ new \in CallRecord /\ new.pc = "operate" /\ new.req = r.req
         /\ new.todo = Tail(r.todo) /\ new.handles = r.handles
         /\ new.whole = whole
         /\ new.answer = None /\ new.settings = r.settings
         /\ new.described = described /\ new.sampled = sampled
    BY <1>1, <1>2, <1>4, <1>a DEF CallRecord, PCs
  <1> HIDE DEF new
  <1>11. StageInv(c, new)
    BY <1>1, <1>10 DEF CallInv, StageInv
  <1>12. TodoInv(new)
    BY <1>2, <1>6, <1>7, <1>10 DEF TodoInv, Before
  <1>13. WriteInv(new, written[c], c \in inflight)
    <2>1. None \notin {"ok", "refused", "notFound"}
      BY ConnectionsAssumption DEF Answers
    <2> QED BY <1>7, <1>8, <1>10, <2>1 DEF WriteInv
  <1>14. WholeInv(new)
    <2>1. r.req.op = "profile" => ProfileInv(new)
      <3>1. Tail(r.todo) # <<>> => 1 \in 1..Len(Tail(r.todo))
        BY <1>2
      <3>2. \A i \in 2..Len(Tail(r.todo)) : i \in 1..Len(Tail(r.todo))
        BY <1>2
      <3> QED BY <1>9, <1>10, <3>1, <3>2 DEF ProfileInv
    <2>2. new.whole \/ new.req.op = "recent"
      BY <1>10, <1>a
    <2> QED BY <1>10, <2>1, <2>2 DEF WholeInv
  <1>15. CallInv(c, new, written[c], c \in inflight)
    BY <1>11, <1>12, <1>13, <1>14 DEF CallInv
  <1> QED BY <1>5, <1>10, <1>15, SetKeeps

LEMMA StatementKeeps ==
  ASSUME Inv, NEW c \in Calls, Statement(c)
  PROVE  Inv'
  <1>0. /\ call[c].pc = "operate" /\ call[c].todo # <<>> /\ Head(call[c].todo) # "insert"
        /\ UNCHANGED <<store, key, columns, inflight, written, faults>>
        /\ faults' \in 0..MaxFaults
    BY DEF Statement, Others, Inv, Typed
  <1>1. CASE Answer(c, failAnswer(call[c].req))
    BY <1>0, <1>1, AnswerKeeps, OpenAnswers DEF Answers
  <1>2. CASE Succeed(c, Head(call[c].todo), TRUE)
    BY <1>0, <1>2, SucceedKeeps
  <1> QED BY <1>1, <1>2 DEF Statement

\* The INSERT is sent, or the call fails before it is.
LEMMA SendInsertKeeps ==
  ASSUME Inv, NEW c \in Calls, SendInsert(c)
  PROVE  Inv'
  <1> DEFINE r == call[c]
             new == [r EXCEPT !.pc = "insert"]
  <1>0. /\ r.pc = "operate" /\ r.todo # <<>> /\ Head(r.todo) = "insert"
        /\ UNCHANGED <<store, key, columns, written, faults>>
        /\ faults' \in 0..MaxFaults
    BY DEF SendInsert, Inv, Typed
  <1>1. /\ r \in CallRecord /\ r.answer = None
        /\ CallInv(c, r, written[c], c \in inflight)
    BY <1>0, InProgressHas
  <1>2. CASE Answer(c, failAnswer(r.req)) /\ UNCHANGED inflight
    BY <1>0, <1>2, AnswerKeeps, OpenAnswers DEF Answers
  <1>3. CASE Set(c, new) /\ inflight' = inflight \cup {c}
    <2>1. /\ new \in CallRecord /\ new.pc = "insert" /\ new.req = r.req
          /\ new.todo = r.todo /\ new.handles = r.handles /\ new.whole = r.whole
          /\ new.answer = None /\ new.settings = r.settings
      BY <1>1 DEF CallRecord, PCs
    <2>2. /\ call' \in [Calls -> CallRecord] /\ call'[c] = new
          /\ \A d \in Calls : d # c => call'[d] = call[d]
      BY <1>3, <2>1 DEF Inv, Typed, Set
    <2> HIDE DEF new
    <2>3. r.req.op = "write" /\ r.todo = <<"insert">>
      <3>1. r.todo \in Seq(Statements) /\ 1 \in 1..Len(r.todo) /\ r.todo[1] = "insert"
        BY <1>0, <1>1 DEF CallRecord
      <3>2. r.req.op = "write"
        BY <1>1, <3>1 DEF CallInv, TodoInv, Belongs
      <3> QED BY <1>0, <1>1, <3>2 DEF CallInv, TodoInv
    <2>4. written[c] = 0
      BY <1>0, <1>1 DEF CallInv, WriteInv
    <2>5. StageInv(c, new) /\ TodoInv(new)
      BY <1>0, <1>1, <2>1, <2>3 DEF CallInv, StageInv, TodoInv, Before
    <2>6. WriteInv(new, written[c], TRUE)
      <3>1. None \notin {"ok", "refused", "notFound"}
        BY ConnectionsAssumption DEF Answers
      <3> QED BY <2>1, <2>3, <2>4, <3>1 DEF WriteInv, Before
    <2>7. WholeInv(new)
      BY <1>1, <2>1, <2>3 DEF CallInv, WholeInv
    <2>8. CallInv(c, new, written[c], TRUE)
      BY <2>5, <2>6, <2>7 DEF CallInv
    <2>9. ASSUME NEW d \in Calls
          PROVE  CallInv(d, call'[d], written'[d], d \in inflight')
      <3>1. CASE d = c
        <4>1. (d \in inflight') = TRUE
          BY <1>3, <3>1
        <4> QED BY <1>0, <2>2, <2>8, <3>1, <4>1
      <3>2. CASE d # c
        <4>1. (d \in inflight') = (d \in inflight)
          BY <1>3, <3>2
        <4> QED BY <1>0, <2>2, <3>2, <4>1 DEF Inv
      <3> QED BY <3>1, <3>2
    <2>10. Typed'
      BY <1>0, <1>3, <2>2 DEF Inv, Typed
    <2> QED BY <2>9, <2>10 DEF Inv
  <1> QED BY <1>2, <1>3 DEF SendInsert

\* A write goes on only once its row is there.
LEMMA EndInsertKeeps ==
  ASSUME Inv, NEW c \in Calls, EndInsert(c)
  PROVE  Inv'
  <1> DEFINE r == call[c]
             todo == Tail(r.todo)
             new == [r EXCEPT !.pc = "operate", !.todo = todo]
  <1>0. /\ r.pc = "insert"
        /\ UNCHANGED <<store, key, columns, inflight, written, faults>>
        /\ faults' \in 0..MaxFaults
    BY DEF EndInsert, Others, Inv, Typed
  <1>1. /\ r \in CallRecord /\ r.answer = None
        /\ CallInv(c, r, written[c], c \in inflight)
    BY <1>0, InProgressHas
  <1>2. CASE Answer(c, "failed")
    BY <1>0, <1>2, AnswerKeeps DEF Answers
  <1>3. CASE written[c] > 0 /\ Set(c, new)
    <2>1. r.req.op = "write" /\ r.todo = <<"insert">>
      BY <1>0, <1>1 DEF CallInv, TodoInv
    <2>2. todo = <<>> /\ todo \in Seq(Statements)
      BY <2>1
    <2> HIDE DEF todo
    <2>3. /\ new \in CallRecord /\ new.pc = "operate" /\ new.req = r.req
          /\ new.todo = <<>> /\ new.handles = r.handles /\ new.whole = r.whole
          /\ new.answer = None /\ new.settings = r.settings
      BY <1>1, <2>2 DEF CallRecord, PCs
    <2>4. Set(c, new)
      BY <1>3
    <2> HIDE DEF new
    <2>5. written[c] = 1 /\ c \notin inflight
      <3>1. written[c] \in Nat
        BY DEF Inv, Typed
      <3> QED BY <1>1, <1>3, <3>1 DEF CallInv, WriteInv
    <2>6. StageInv(c, new) /\ TodoInv(new)
      BY <1>0, <1>1, <2>1, <2>3 DEF CallInv, StageInv, TodoInv, Before
    <2>7. WriteInv(new, written[c], c \in inflight)
      <3>1. None \notin {"ok", "refused", "notFound"}
        BY ConnectionsAssumption DEF Answers
      <3> QED BY <2>1, <2>3, <2>5, <3>1 DEF WriteInv, Before
    <2>8. WholeInv(new)
      BY <1>1, <2>1, <2>3 DEF CallInv, WholeInv
    <2>9. CallInv(c, new, written[c], c \in inflight)
      BY <2>6, <2>7, <2>8 DEF CallInv
    <2> QED BY <1>0, <2>3, <2>4, <2>9, SetKeeps
  <1> QED BY <1>2, <1>3 DEF EndInsert

\* The connection breaks: an error, but for the recent rows.
LEMMA BreakKeeps ==
  ASSUME Inv, NEW c \in Calls, Break(c)
  PROVE  Inv'
  <1>0. /\ call[c].pc = "insert" \/ (call[c].pc = "operate" /\ call[c].todo # <<>>)
        /\ UNCHANGED <<store, key, columns, inflight, written>>
        /\ faults' \in 0..MaxFaults
    BY ConnectionsAssumption DEF Break, Inv, Typed
  <1>1. CASE Answer(c, failAnswer(call[c].req))
    BY <1>0, <1>1, AnswerKeeps, OpenAnswers DEF Answers
  <1>2. CASE Head(call[c].todo) = "recent" /\ Succeed(c, Head(call[c].todo), FALSE)
    <2>1. call[c].pc = "operate"
      <3>1. ASSUME call[c].pc = "insert" PROVE FALSE
        <4>1. call[c].todo = <<"insert">>
          BY <3>1 DEF Inv, CallInv, TodoInv
        <4>2. Head(call[c].todo) = "insert"
          BY <4>1
        <4> QED BY <1>2, <4>2
      <3> QED BY <1>0, <3>1
    <2> QED BY <1>0, <1>2, <2>1, SucceedKeeps
  <1> QED BY <1>1, <1>2 DEF Break, rowsErr

\* Only what a run of the statements has found is reported as a success.
LEMMA FinishKeeps ==
  ASSUME Inv, NEW c \in Calls, Finish(c)
  PROVE  Inv'
  <1> DEFINE r == call[c]
             new == [r EXCEPT !.pc = "return", !.answer = "ok"]
  <1>0. /\ r.pc = "operate" /\ r.todo = <<>>
        /\ UNCHANGED <<store, key, columns, inflight, written, faults>>
        /\ faults' \in 0..MaxFaults
    BY DEF Finish, Others, Inv, Typed
  <1>1. /\ r \in CallRecord /\ r.answer = None
        /\ CallInv(c, r, written[c], c \in inflight)
    BY <1>0, InProgressHas
  <1>2. CASE Answer(c, "aborted")
    BY <1>0, <1>2, AnswerKeeps DEF Answers
  <1>3. CASE Answer(c, "ok")
    <2>1. /\ new \in CallRecord /\ new.pc = "return" /\ new.req = r.req
          /\ new.todo = <<>> /\ new.handles = r.handles /\ new.whole = r.whole
          /\ new.answer = "ok" /\ new.settings = r.settings
          /\ new.described = r.described /\ new.sampled = r.sampled
      BY <1>0, <1>1 DEF CallRecord, PCs, Answers
    <2>2. Set(c, new)
      BY <1>3 DEF Answer
    <2> HIDE DEF new
    <2>3. "ok" # None
      BY ConnectionsAssumption DEF Answers
    <2>4. StageInv(c, new) /\ TodoInv(new)
      BY <1>0, <1>1, <2>1, <2>3 DEF CallInv, StageInv, TodoInv, Before
    <2>5. WriteInv(new, written[c], c \in inflight)
      BY <1>0, <1>1, <2>1 DEF CallInv, WriteInv, Before
    <2>6. WholeInv(new)
      <3>1. r.req.op = "profile" => r.described \subseteq r.sampled
        BY <1>0, <1>1 DEF CallInv, WholeInv, ProfileInv
      <3> QED BY <1>1, <2>1, <3>1 DEF CallInv, WholeInv
    <2>7. CallInv(c, new, written[c], c \in inflight)
      BY <2>4, <2>5, <2>6 DEF CallInv
    <2> QED BY <1>0, <2>1, <2>2, <2>7, SetKeeps
  <1> QED BY <1>2, <1>3 DEF Finish

\* What is left of a call that ends, with its answer or with its program.
LEMMA OverKeeps ==
  ASSUME Inv, NEW c \in Calls, NEW code \in Answers, call[c].pc # "idle",
         \/ call[c].pc = "return" /\ code = call[c].answer
         \/ code = "lost"
  PROVE  /\ Over(c, code) \in CallRecord
         /\ CallInv(c, Over(c, code), written[c], c \in inflight)
  <1> DEFINE r == call[c]
             new == Over(c, code)
  <1>1. /\ r \in CallRecord /\ r.req \in Requests[c] /\ r.req \in AllRequests
        /\ CallInv(c, r, written[c], c \in inflight)
    BY InProgressHas
  <1>2. /\ new \in CallRecord /\ new.pc = "done" /\ new.req = r.req /\ new.todo = <<>>
        /\ new.handles = {} /\ new.whole /\ new.answer = code /\ new.settings = None
    BY <1>1, IdleTyped DEF Over, IdleCall, CallRecord, PCs
  <1> HIDE DEF new
  <1>3. code # None
    BY ConnectionsAssumption
  <1>4. StageInv(c, new) /\ TodoInv(new) /\ WholeInv(new)
    BY <1>1, <1>2, <1>3 DEF StageInv, TodoInv, WholeInv, Before
  <1>5. WriteInv(new, written[c], c \in inflight)
    BY <1>1, <1>2 DEF CallInv, WriteInv, Before
  <1>6. CallInv(c, new, written[c], c \in inflight)
    BY <1>4, <1>5 DEF CallInv
  <1> QED BY <1>2, <1>6 DEF new

LEMMA ReturnKeeps ==
  ASSUME Inv, NEW c \in Calls, Return(c)
  PROVE  Inv'
  <1>0. /\ call[c].pc = "return" /\ Set(c, Over(c, call[c].answer))
        /\ UNCHANGED <<store, key, columns, inflight, written, faults>>
        /\ faults' \in 0..MaxFaults
    BY DEF Return, Others, Inv, Typed
  <1>1. call[c].answer \in Answers
    BY <1>0, InProgressHas DEF CallInv, StageInv, CallRecord
  <1> HIDE DEF Set, Over
  <1>2. /\ Over(c, call[c].answer) \in CallRecord
        /\ CallInv(c, Over(c, call[c].answer), written[c], c \in inflight)
    BY <1>0, <1>1, OverKeeps
  <1> QED BY <1>0, <1>2, SetKeeps

\* Time passes for a call; what it does next is not changed.
LEMMA ExpireKeeps ==
  ASSUME Inv, NEW c \in Calls, InProgress(c),
         Set(c, [call[c] EXCEPT !.expired = TRUE]),
         UNCHANGED <<store, key, columns, inflight, written>>, faults' \in 0..MaxFaults
  PROVE  Inv'
  <1> DEFINE r == call[c]
             new == [r EXCEPT !.expired = TRUE]
  <1>1. r \in CallRecord /\ CallInv(c, r, written[c], c \in inflight)
    BY DEF Inv, Typed
  <1>2. /\ new \in CallRecord /\ new.pc = r.pc /\ new.req = r.req /\ new.todo = r.todo
        /\ new.handles = r.handles /\ new.whole = r.whole /\ new.answer = r.answer
        /\ new.settings = r.settings /\ new.described = r.described
        /\ new.sampled = r.sampled
    BY <1>1 DEF CallRecord
  <1>3. Set(c, new)
    OBVIOUS
  <1> HIDE DEF new
  <1>4. StageInv(c, new) /\ TodoInv(new)
    BY <1>1, <1>2 DEF CallInv, StageInv, TodoInv
  <1>5. WriteInv(new, written[c], c \in inflight)
    BY <1>1, <1>2 DEF CallInv, WriteInv
  <1>6. WholeInv(new)
    BY <1>1, <1>2 DEF CallInv, WholeInv, ProfileInv
  <1>7. CallInv(c, new, written[c], c \in inflight)
    BY <1>4, <1>5, <1>6 DEF CallInv
  <1> QED BY <1>2, <1>3, <1>7, SetKeeps

\* The INSERT arrives or is lost, whether its call still waits for it or not.
LEMMA InsertKeeps ==
  ASSUME Inv, NEW c \in Calls, Insert(c)
  PROVE  Inv'
  <1> DEFINE r == call[c]
  <1>0. /\ c \in inflight /\ inflight' = inflight \ {c}
        /\ UNCHANGED <<store, key, columns, call, faults>>
        /\ \/ written' = [written EXCEPT ![c] = @ + 1]
           \/ UNCHANGED written
    BY DEF Insert
  <1>1. /\ CallInv(c, r, written[c], TRUE) /\ written[c] \in Nat
    <2>1. (c \in inflight) = TRUE
      BY <1>0
    <2> QED BY <2>1 DEF Inv, Typed
  <1>2. written[c] = 0
    BY <1>1 DEF CallInv, WriteInv
  <1>3. written' \in [Calls -> Nat] /\ written'[c] \in {0, 1}
        /\ \A d \in Calls : d # c => written'[d] = written[d]
    BY <1>0, <1>2 DEF Inv, Typed
  <1>4. CallInv(c, r, written'[c], FALSE)
    <2>1. WriteInv(r, written'[c], FALSE)
      BY <1>1, <1>2, <1>3 DEF CallInv, WriteInv
    <2> QED BY <1>1, <2>1 DEF CallInv
  <1>5. ASSUME NEW d \in Calls
        PROVE  CallInv(d, call'[d], written'[d], d \in inflight')
    <2>1. CASE d = c
      <3>1. (d \in inflight') = FALSE
        BY <1>0, <2>1
      <3> QED BY <1>0, <1>4, <2>1, <3>1
    <2>2. CASE d # c
      <3>1. (d \in inflight') = (d \in inflight)
        BY <1>0, <2>2
      <3> QED BY <1>0, <1>3, <2>2, <3>1 DEF Inv
    <2> QED BY <2>1, <2>2
  <1>6. Typed'
    BY <1>0, <1>3 DEF Inv, Typed
  <1> QED BY <1>5, <1>6 DEF Inv

\* The end of a program ends all its calls at once.
LEMMA RestartKeeps ==
  ASSUME Inv, NEW p \in Programs, NEW k \in Keys, Restart(p, k)
  PROVE  Inv'
  <1> DEFINE Ended(c) == InProgress(c) /\ call[c].req.via = p
  <1>0. /\ key' = [key EXCEPT ![p] = k]
        /\ call' = [c \in Calls |-> IF Ended(c) THEN Over(c, "lost") ELSE call[c]]
        /\ UNCHANGED <<store, columns, inflight, written>>
        /\ faults' \in 0..MaxFaults
    BY ConnectionsAssumption DEF Restart, Inv, Typed
  <1>1. "lost" \in Answers
    BY DEF Answers
  <1>2. ASSUME NEW c \in Calls
        PROVE  /\ call'[c] \in CallRecord
               /\ CallInv(c, call'[c], written[c], c \in inflight)
    <2> HIDE DEF Ended
    <2>1. CASE Ended(c)
      <3>1. call[c].pc # "idle"
        BY <2>1 DEF Ended, InProgress
      <3>2. call'[c] = Over(c, "lost")
        BY <1>0, <2>1
      <3> QED BY <1>1, <3>1, <3>2, OverKeeps
    <2>2. CASE ~Ended(c)
      <3>1. call'[c] = call[c]
        BY <1>0, <2>2
      <3> QED BY <3>1 DEF Inv, Typed
    <2> QED BY <2>1, <2>2
  <1>3. call' \in [Calls -> CallRecord]
    BY <1>0, <1>2
  <1>4. key' \in [Programs -> Keys \cup {None}] /\ key'["rules"] \in Keys
    BY <1>0 DEF Inv, Typed, Programs
  <1>5. Typed'
    BY <1>0, <1>3, <1>4 DEF Inv, Typed
  <1> QED BY <1>0, <1>2, <1>5 DEF Inv

\* A row is stored, a database changes, a column goes: no call is touched.
LEMMA EnvironmentKeeps ==
  ASSUME Inv,
         \/ \E ref \in Refs, s \in Settings : CreateConnection(ref, s)
         \/ \E d \in {"store", "target"}, new \in {"up", "down", "hung"} : Change(d, new)
         \/ \E col \in Columns : AlterTable(col)
  PROVE  Inv'
  <1>1. UNCHANGED <<key, call, inflight, written>>
    BY DEF CreateConnection, Change, AlterTable
  <1>2. store' \in [Refs -> Rows \cup {None}]
    <2>1. CASE \E ref \in Refs, s \in Settings : CreateConnection(ref, s)
      <3>1. PICK ref \in Refs, s \in Settings : CreateConnection(ref, s)
        BY <2>1
      <3> DEFINE row == [type |-> s.type, right |-> s.right,
                         password_enc |-> Encrypt(s.password, key["rules"])]
      <3>2. row \in Rows
        BY DEF Rows, Inv, Typed
      <3>3. store' = [store EXCEPT ![ref] = row]
        BY <3>1 DEF CreateConnection
      <3> HIDE DEF row
      <3> QED BY <3>2, <3>3 DEF Inv, Typed
    <2>2. CASE UNCHANGED store
      BY <2>2 DEF Inv, Typed
    <2> QED BY <2>1, <2>2 DEF Change, AlterTable
  <1>3. columns' \subseteq Columns
    BY DEF Inv, Typed, CreateConnection, Change, AlterTable
  <1>4. faults' \in 0..MaxFaults
    <2>1. faults' = faults \/ (faults < MaxFaults /\ faults' = faults + 1)
      BY DEF CreateConnection, Change, AlterTable
    <2> QED BY <2>1, ConnectionsAssumption DEF Inv, Typed
  <1> QED BY <1>1, <1>2, <1>3, <1>4 DEF Inv, Typed

LEMMA StepKeeps ==
  ASSUME Inv, NEW c \in Calls, Step(c)
  PROVE  Inv'
  BY RouteKeeps, ResolveKeeps, OpenKeeps, PingKeeps, StatementKeeps, SendInsertKeeps,
     EndInsertKeeps, FinishKeeps, ReturnKeeps DEF Step

LEMMA NextKeeps ==
  ASSUME Inv, [Next]_vars
  PROVE  Inv'
  <1>1. CASE \/ \E ref \in Refs, s \in Settings : CreateConnection(ref, s)
             \/ \E d \in {"store", "target"}, new \in {"up", "down", "hung"} : Change(d, new)
             \/ \E col \in Columns : AlterTable(col)
    BY <1>1, EnvironmentKeeps
  <1>2. ASSUME NEW c \in Calls, NEW req \in Requests[c], Begin(c, req) PROVE Inv'
    BY <1>2, BeginKeeps
  <1>3. ASSUME NEW c \in Calls, Step(c) PROVE Inv'
    BY <1>3, StepKeeps
  <1>4. ASSUME NEW c \in Calls, Deadline(c) \/ Leave(c) PROVE Inv'
    <2>1. /\ InProgress(c) /\ Set(c, [call[c] EXCEPT !.expired = TRUE])
          /\ UNCHANGED <<store, key, columns, inflight, written>>
      BY <1>4 DEF Deadline, Leave, HasDeadline, Others
    <2>2. faults' \in 0..MaxFaults
      BY <1>4, ConnectionsAssumption DEF Deadline, Leave, Others, Inv, Typed
    <2> QED BY <2>1, <2>2, ExpireKeeps
  <1>5. ASSUME NEW c \in Calls, Break(c) \/ Insert(c) PROVE Inv'
    BY <1>5, BreakKeeps, InsertKeeps
  <1>6. ASSUME NEW p \in Programs, NEW k \in Keys, Restart(p, k) PROVE Inv'
    BY <1>6, RestartKeeps
  <1>7. CASE UNCHANGED vars
    BY <1>7 DEF vars, Inv, Typed
  <1> QED BY <1>1, <1>2, <1>3, <1>4, <1>5, <1>6, <1>7 DEF Next

LEMMA InitInv == Init => Inv
  <1> SUFFICES ASSUME Init PROVE Inv
    OBVIOUS
  <1>1. Typed
    BY IdleTyped, ConnectionsAssumption DEF Init, Typed, Programs
  <1>2. ASSUME NEW c \in Calls
        PROVE  CallInv(c, call[c], written[c], c \in inflight)
    <2>1. call[c] = IdleCall /\ written[c] = 0 /\ c \notin inflight
      BY DEF Init
    <2>2. StageInv(c, IdleCall) /\ TodoInv(IdleCall) /\ WholeInv(IdleCall)
      BY DEF StageInv, TodoInv, WholeInv, IdleCall, Before
    <2>3. None \notin {"ok", "refused", "notFound"}
      BY ConnectionsAssumption DEF Answers
    <2>4. WriteInv(IdleCall, 0, FALSE)
      BY <2>3 DEF WriteInv, IdleCall, Before
    <2>5. (c \in inflight) = FALSE
      BY <2>1
    <2> QED BY <2>1, <2>2, <2>4, <2>5 DEF CallInv
  <1> QED BY <1>1, <1>2 DEF Inv

LEMMA Invariance == Spec => []Inv
  BY InitInv, NextKeeps, PTL DEF Spec

-----------------------------------------------------------------------------
\* Calls have an answer exactly when they are over, settings that the store or
\* the request has, and an INSERT on its way only for a write, for any calls,
\* keys, settings and bound on faults.
THEOREM Typing == Spec => []TypeOK
  <1>1. Inv => TypeOK
    BY DEF Inv, Typed, CallInv, StageInv, WriteInv, TypeOK, CallRecord
  <1> QED BY <1>1, Invariance, PTL

\* No handle outlives its call, and none on the store is held during the work
\* on the target (the deferred Close of the handlers and of openPostgres), for
\* any calls and any failures.
THEOREM HandlesAreReturned == Spec => []HandlesReturned
  <1>1. Inv => HandlesReturned
    BY DEF Inv, Typed, CallInv, StageInv, HandlesReturned, InProgress, CallRecord
  <1> QED BY <1>1, Invariance, PTL

\* A write that is answered with success has written its row once, one that is
\* refused has not and will not, and one that fails at most once
\* (HandleSimulateWrite, WriteRow), for any calls and any failures.
THEOREM WritesOnce == Spec => []WriteOnce
  <1>1. Inv => WriteOnce
    BY DEF Inv, CallInv, WriteInv, WriteOnce
  <1> QED BY <1>1, Invariance, PTL

\* What is answered with success is all that was asked for, but for recent
\* rows, and a profile has sampled every column it describes, for any table
\* and any change of it (ProfileTable, sampleRows, the checks of rows.Err).
THEOREM WholeAnswers == Spec => []AnswersAreWhole
  <1>1. Inv => AnswersAreWhole
    BY DEF Inv, CallInv, WholeInv, AnswersAreWhole
  <1> QED BY <1>1, Invariance, PTL

-----------------------------------------------------------------------------
(***************************************************************************)
(* A connection that was tested can be polled.                             *)
(*                                                                         *)
(* As long as nothing fails, all programs have the key they started with,  *)
(* so a call that works on a stored connection has the settings that were  *)
(* stored.  A call of the scheduler then fails for one of three reasons    *)
(* only, Unpollable, and a successful test rules the third one out except  *)
(* for passwords that a URL does not carry.                                *)
(***************************************************************************)
\* The settings that a row was stored with.
SettingsOf(row) == [type |-> row.type, right |-> row.right, password |-> row.password_enc.plain]

\* There is no adapter for the type, the server does not open it, or the
\* target does not accept the call.
Unpollable(req, row) ==
    \/ AdapterFor(row.type) = None
    \/ Engine(req, row.type) = None
    \/ ~Accepted(req, SettingsOf(row))

\* At work on the target.
Working == {"open", "ping", "operate", "insert"}

\* What the record r of a call has to do with the rows st.
PollInv(r, st) ==
    /\ r.known => r.req.ref \in Refs /\ st[r.req.ref] # None
    /\ (r.pc \in Working /\ r.req.ref # None) =>
          st[r.req.ref] # None /\ r.settings = SettingsOf(st[r.req.ref])
    /\ (r.known /\ r.req.via = "mcp" /\ ~r.expired /\ r.answer \notin {None, "ok"}) =>
          Unpollable(r.req, st[r.req.ref])
    /\ (r.req.op = "test" /\ r.req.ref # None /\ (r.pc = "operate" \/ r.answer = "ok")) =>
          st[r.req.ref] # None /\ Accepted(r.req, SettingsOf(st[r.req.ref]))

\* Nothing has failed yet.
Calm ==
    /\ state["store"] = "up" /\ state["target"] = "up"
    /\ key["rules"] = Key /\ key["mcp"] = Key /\ key["service"] \in {Key, None}
    /\ \A ref \in Refs : store[ref] # None => store[ref].password_enc.key = Key
    /\ \A c \in Calls : PollInv(call[c], store)

CalmInv == faults = 0 => Calm

-----------------------------------------------------------------------------
\* A step that changes the record of one call.
LEMMA CalmSet ==
  ASSUME Inv, Calm, NEW c \in Calls, NEW new, Set(c, new), PollInv(new, store),
         UNCHANGED <<store, key, state>>
  PROVE  Calm'
  <1>1. call'[c] = new /\ \A d \in Calls : d # c => call'[d] = call[d]
    BY DEF Inv, Typed, Set
  <1>2. ASSUME NEW d \in Calls PROVE PollInv(call'[d], store')
    <2>1. CASE d = c
      BY <1>1, <2>1
    <2>2. CASE d # c
      BY <1>1, <2>2 DEF Calm
    <2> QED BY <2>1, <2>2
  <1> QED BY <1>2 DEF Calm

\* The fields that PollInv reads are not changed.
LEMMA CalmKeeps ==
  ASSUME Inv, Calm, NEW c \in Calls, NEW new, Set(c, new),
         new.req = call[c].req, new.known = call[c].known,
         new.settings = call[c].settings, new.answer = call[c].answer,
         ~new.expired => ~call[c].expired,
         new.pc \in Working => call[c].pc \in Working,
         (new.pc = "operate" /\ new.req.op = "test") => call[c].pc = "operate",
         UNCHANGED <<store, key, state>>
  PROVE  Calm'
  <1>1. PollInv(call[c], store)
    BY DEF Calm
  <1>2. PollInv(new, store)
    BY <1>1 DEF PollInv
  <1> QED BY <1>2, CalmSet

LEMMA CalmAnswer ==
  ASSUME Inv, Calm, NEW c \in Calls, NEW code \in Answers, Answer(c, code),
         (/\ call[c].known /\ call[c].req.via = "mcp" /\ ~call[c].expired
          /\ code # "ok") => Unpollable(call[c].req, store[call[c].req.ref]),
         code = "ok" => call[c].pc = "operate",
         UNCHANGED <<store, key, state>>
  PROVE  Calm'
  <1> DEFINE r == call[c]
             new == [r EXCEPT !.pc = "return", !.answer = code]
  <1>1. r \in CallRecord /\ PollInv(r, store)
    BY DEF Inv, Typed, Calm
  <1>2. /\ new.pc = "return" /\ new.answer = code /\ new.req = r.req
        /\ new.known = r.known /\ new.expired = r.expired /\ new.settings = r.settings
    BY <1>1 DEF CallRecord
  <1>3. Set(c, new)
    BY DEF Answer
  <1> HIDE DEF new
  <1>4. PollInv(new, store)
    BY <1>1, <1>2 DEF PollInv, Working
  <1> QED BY <1>3, <1>4, CalmSet

\* What is found for a row is what it was stored with.
LEMMA CalmLookup ==
  ASSUME NEW row \in Rows, row # None, row.password_enc.key = Key
  PROVE  GetConnection(row, Key) = [err |-> None, settings |-> SettingsOf(row)]
  <1>1. PICK s \in Settings, k \in Keys :
           row = [type |-> s.type, right |-> s.right, password_enc |-> Encrypt(s.password, k)]
    BY DEF Rows
  <1>2. row.password_enc.plain = s.password /\ s.password # None
    BY <1>1, ConnectionsAssumption DEF Encrypt
  <1>3. Decrypt(row.password_enc, Key) = row.password_enc.plain
    BY DEF Decrypt
  <1> QED BY <1>2, <1>3 DEF GetConnection, SettingsOf

LEMMA CalmBegin ==
  ASSUME Inv, Calm, NEW c \in Calls, NEW req \in Requests[c], Begin(c, req)
  PROVE  Calm'
  <1> DEFINE known == req.ref # None /\ store[req.ref] # None
             start == [IdleCall EXCEPT !.req = req, !.known = known]
  <1>1. UNCHANGED <<store, key, state>>
    BY DEF Begin, Others
  <1>0. known \in BOOLEAN
    OBVIOUS
  <1> HIDE DEF known
  <1>2. /\ start \in CallRecord /\ start.req = req /\ start.known = known
        /\ start.answer = None
    <2>1. req \in AllRequests
      BY DEF AllRequests
    <2> QED BY <1>0, <2>1, IdleTyped DEF CallRecord, IdleCall
  <1>3. req.ref \in Refs \cup {None}
    BY ConnectionsAssumption
  <1>4. ASSUME NEW new, Set(c, new), new.req = req, new.known = known,
               new.answer = None \/ (new.answer = "refused" /\ ~Valid(req)),
               new.pc \in {"return", "route", "resolve"} \/ (new.pc = "open" /\ req.ref = None)
        PROVE  Calm'
    <2>1. "ok" # None
      BY ConnectionsAssumption DEF Answers
    <2>2. (req.via = "mcp" /\ ~Valid(req)) => req.ref = None
      BY ConnectionsAssumption DEF Valid, mcpOps
    <2>3. PollInv(new, store)
      BY <1>3, <1>4, <2>1, <2>2 DEF PollInv, Working, known
    <2> QED BY <1>1, <1>4, <2>3, CalmSet
  <1>5. CASE ~Valid(req)
    <2> DEFINE new == [start EXCEPT !.pc = "return", !.answer = "refused"]
    <2>1. Set(c, new)
      BY <1>5 DEF Begin, known
    <2> HIDE DEF start
    <2>2. /\ new.pc = "return" /\ new.answer = "refused" /\ new.req = req
          /\ new.known = known
      BY <1>2 DEF CallRecord
    <2> HIDE DEF new
    <2> QED BY <1>4, <1>5, <2>1, <2>2
  <1>6. ASSUME NEW pc \in {"route", "resolve"}, Set(c, [start EXCEPT !.pc = pc])
        PROVE  Calm'
    <2> DEFINE new == [start EXCEPT !.pc = pc]
    <2>1. Set(c, new)
      BY <1>6
    <2> HIDE DEF start
    <2>2. new.pc = pc /\ new.answer = None /\ new.req = req /\ new.known = known
      BY <1>2 DEF CallRecord
    <2> HIDE DEF new
    <2> QED BY <1>4, <1>6, <2>1, <2>2
  <1>7. ASSUME req.ref = None, Set(c, [start EXCEPT !.pc = "open", !.settings = req.inline])
        PROVE  Calm'
    <2> DEFINE new == [start EXCEPT !.pc = "open", !.settings = req.inline]
    <2>1. Set(c, new)
      BY <1>7
    <2> HIDE DEF start
    <2>2. new.pc = "open" /\ new.answer = None /\ new.req = req /\ new.known = known
      BY <1>2 DEF CallRecord
    <2> HIDE DEF new
    <2> QED BY <1>4, <1>7, <2>1, <2>2
  <1>8. CASE Valid(req) /\ req.via = "mcp"
    <2>1. Set(c, [start EXCEPT !.pc = "route"])
      BY <1>8 DEF Begin, known
    <2> QED BY <1>6, <2>1
  <1>9. CASE Valid(req) /\ req.via # "mcp"
    <2>1. CASE req.ref # None
      <3>1. Set(c, [start EXCEPT !.pc = "resolve"])
        BY <1>9, <2>1 DEF Begin, known
      <3> QED BY <1>6, <3>1
    <2>2. CASE req.ref = None
      <3>1. Set(c, [start EXCEPT !.pc = "open", !.settings = req.inline])
        BY <1>9, <2>2 DEF Begin, known
      <3> QED BY <1>7, <2>2, <3>1
    <2> QED BY <2>1, <2>2
  <1> QED BY <1>5, <1>8, <1>9

LEMMA CalmRoute ==
  ASSUME Inv, Calm, NEW c \in Calls, Route(c) \/ OpenPostgres(c)
  PROVE  Calm'
  <1> DEFINE r == call[c]
  <1>0. /\ UNCHANGED <<store, key, state>> /\ r.pc \in {"route", "openStore"}
    BY DEF Route, OpenPostgres, Others
  <1>1. /\ r \in CallRecord /\ PollInv(r, store) /\ state["store"] = "up"
    BY DEF Inv, Typed, Calm
  <1>2. CASE /\ Answer(c, "unroutable")
             /\ \/ r.expired \/ store[r.req.ref] = None
                \/ AdapterFor(store[r.req.ref].type) = None
    <2>1. (r.known /\ ~r.expired) => Unpollable(r.req, store[r.req.ref])
      BY <1>1, <1>2 DEF PollInv, Unpollable
    <2> QED BY <1>0, <1>2, <2>1, CalmAnswer DEF Answers
  <1>3. CASE Answer(c, "refused") /\ r.expired
    BY <1>0, <1>3, CalmAnswer DEF Answers
  <1>4. ASSUME NEW new, Set(c, new), new.pc \in {"openStore", "resolve"},
               new.req = r.req, new.known = r.known, new.settings = r.settings,
               new.answer = r.answer, new.expired = r.expired
        PROVE  Calm'
    BY <1>0, <1>4, CalmKeeps DEF Working
  <1>5. CASE Route(c)
    <2>1. CASE Set(c, [r EXCEPT !.pc = "openStore"])
      BY <1>1, <1>4, <2>1 DEF CallRecord
    <2> QED BY <1>1, <1>2, <1>5, <2>1 DEF Route, Fails
  <1>6. CASE OpenPostgres(c)
    <2>1. CASE Set(c, [r EXCEPT !.pc = "resolve", !.handles = {"store"}])
      BY <1>1, <1>4, <2>1 DEF CallRecord
    <2> QED BY <1>1, <1>3, <1>6, <2>1 DEF OpenPostgres, Fails
  <1> QED BY <1>5, <1>6

LEMMA CalmResolve ==
  ASSUME Inv, Calm, NEW c \in Calls, Resolve(c)
  PROVE  Calm'
  <1> DEFINE r == call[c]
             row == store[r.req.ref]
             found == Lookup(c)
             closed == [r EXCEPT !.handles = {}]
  <1>0. r.pc = "resolve" /\ UNCHANGED <<store, key, state>>
    BY DEF Resolve, Others
  <1>1. /\ r \in CallRecord /\ PollInv(r, store) /\ r.req \in Requests[c]
        /\ state["store"] = "up" /\ key["mcp"] = Key /\ key["service"] \in {Key, None}
    BY <1>0, InProgressHas DEF Calm
  <1>2. r.req.ref \in Refs /\ r.req.via \in {"service", "mcp"}
    BY <1>0, <1>1, InProgressHas, ConnectionsAssumption DEF CallInv, StageInv
  <1>3. row # None => GetConnection(row, Key) = [err |-> None, settings |-> SettingsOf(row)]
    <2>1. row \in Rows \cup {None}
      BY <1>2 DEF Inv, Typed
    <2>2. row # None => row.password_enc.key = Key
      BY <1>2 DEF Calm
    <2> QED BY <2>1, <2>2, CalmLookup
  <1>4. row = None => GetConnection(row, Key).err = "notFound"
    BY DEF GetConnection, Error
  <1>5. found.err = None => row # None /\ found.settings = SettingsOf(row)
    <2> SUFFICES ASSUME found.err = None
                 PROVE  row # None /\ found.settings = SettingsOf(row)
      OBVIOUS
    <2>1. None \notin {"notFound", "internal", "notConfigured", "type"}
      BY ConnectionsAssumption DEF Answers
    <2>2. CASE r.req.via = "service"
      <3>1. CASE key["service"] = None
        BY <2>1, <2>2, <3>1 DEF Lookup, Error
      <3>2. CASE key["service"] # None
        <4>1. key["service"] = Key
          BY <1>1, <3>2
        <4>2. CASE Fails(c, "store")
          BY <2>1, <2>2, <3>2, <4>2 DEF Lookup, Error
        <4>3. CASE ~Fails(c, "store")
          <5>1. found = GetConnection(row, Key)
            BY <2>2, <3>2, <4>1, <4>3 DEF Lookup
          <5> QED BY <1>3, <1>4, <2>1, <5>1
        <4> QED BY <4>2, <4>3
      <3> QED BY <3>1, <3>2
    <2>3. CASE r.req.via = "mcp"
      <3>1. CASE Fails(c, "store") \/ row = None
        BY <2>1, <2>3, <3>1 DEF Lookup, Error
      <3>2. CASE ~Fails(c, "store") /\ row # None
        <4>1. CASE ToLower(row.type) # AdapterFor(row.type)
          BY <2>1, <2>3, <3>2, <4>1 DEF Lookup, Error
        <4>2. CASE ToLower(row.type) = AdapterFor(row.type)
          <5>1. found = GetConnection(row, Key)
            BY <1>1, <2>3, <3>2, <4>2 DEF Lookup
          <5> QED BY <1>3, <3>2, <5>1
        <4> QED BY <4>1, <4>2
      <3> QED BY <3>1, <3>2
    <2> QED BY <1>2, <2>2, <2>3
  <1>6. (found.err # None /\ r.known /\ r.req.via = "mcp" /\ ~r.expired)
           => Unpollable(r.req, row)
    <2> SUFFICES ASSUME found.err # None, r.known, r.req.via = "mcp", ~r.expired
                 PROVE  AdapterFor(row.type) = None
      BY DEF Unpollable
    <2>1. row # None /\ ~Fails(c, "store")
      BY <1>1 DEF PollInv, Fails
    <2>2. ASSUME ToLower(row.type) = AdapterFor(row.type) PROVE FALSE
      <3>1. found = GetConnection(row, Key)
        BY <1>1, <2>1, <2>2 DEF Lookup
      <3> QED BY <1>3, <2>1, <3>1
    <2> QED BY <2>2 DEF AdapterFor
  <1>7. /\ closed \in CallRecord /\ closed.req = r.req /\ closed.known = r.known
        /\ closed.expired = r.expired /\ closed.settings = r.settings
        /\ closed.answer = r.answer
    BY <1>1 DEF CallRecord
  <1>8. r.answer = None /\ "ok" # None
    BY <1>0, InProgressHas, ConnectionsAssumption DEF Answers
  <1>9. CASE found.err # None
    <2> DEFINE code == lookupAnswer(closed.req, found.err)
               new == [closed EXCEPT !.pc = "return", !.answer = code]
    <2>1. code # "ok"
      BY <1>0, <1>2, <1>7, <1>9, LookupFinds, LookupAnswers
    <2>2. Set(c, new)
      BY <1>9 DEF Resolve
    <2> HIDE DEF code, closed
    <2>3. /\ new.pc = "return" /\ new.answer = code /\ new.req = r.req
          /\ new.known = r.known /\ new.expired = r.expired
      BY <1>7 DEF CallRecord
    <2> HIDE DEF new, found
    <2>4. PollInv(new, store)
      BY <1>1, <1>6, <1>9, <2>1, <2>3 DEF PollInv, Working
    <2> QED BY <1>0, <2>2, <2>4, CalmSet
  <1>10. CASE found.err = None
    <2> DEFINE new == [closed EXCEPT !.pc = "open", !.settings = found.settings]
    <2>1. Set(c, new)
      BY <1>10 DEF Resolve
    <2> HIDE DEF closed, found
    <2>2. /\ new.pc = "open" /\ new.answer = None /\ new.req = r.req
          /\ new.known = r.known /\ new.settings = found.settings
      BY <1>7, <1>8 DEF CallRecord
    <2> HIDE DEF new
    <2>3. PollInv(new, store)
      BY <1>1, <1>5, <1>8, <1>10, <2>2 DEF PollInv, Working
    <2> QED BY <1>0, <2>1, <2>3, CalmSet
  <1> QED BY <1>9, <1>10

LEMMA CalmOpen ==
  ASSUME Inv, Calm, NEW c \in Calls, Open(c)
  PROVE  Calm'
  <1> DEFINE r == call[c]
             engine == Engine(r.req, r.settings.type)
             pc == IF r.req.via = "mcp" THEN "operate" ELSE "ping"
             todo == statements(r.req, engine)
             opened == [r EXCEPT !.handles = {"target"}, !.todo = todo]
             new == [opened EXCEPT !.pc = pc]
  <1>0. r.pc = "open" /\ UNCHANGED <<store, key, state>>
    BY DEF Open, Others
  <1>1. r \in CallRecord /\ PollInv(r, store) /\ r.req \in Requests[c]
    BY <1>0, InProgressHas DEF Calm
  <1>2. CASE engine = None
    <2>1. Answer(c, openAnswer(r.req))
      BY <1>2 DEF Open
    <2>2. openAnswer(r.req) \in Answers \ {"ok"}
      BY OpenAnswers DEF Answers
    <2>3. r.known => Unpollable(r.req, store[r.req.ref])
      BY <1>0, <1>1, <1>2, ConnectionsAssumption DEF PollInv, Unpollable, Working, SettingsOf
    <2> QED BY <1>0, <2>1, <2>2, <2>3, CalmAnswer
  <1>3. CASE engine # None
    <2>1. Set(c, new)
      BY <1>3 DEF Open
    <2>2. pc \in {"operate", "ping"} /\ (pc = "operate" => r.req.via = "mcp")
      OBVIOUS
    <2>3. r.req.via = "mcp" => r.req.op # "test"
      BY <1>1, ConnectionsAssumption DEF mcpOps
    <2> HIDE DEF todo, pc, engine
    <2>4. /\ opened.req = r.req /\ opened.known = r.known /\ opened.settings = r.settings
          /\ opened.answer = r.answer /\ opened.expired = r.expired
          /\ DOMAIN opened = DOMAIN r
      BY <1>1 DEF CallRecord
    <2>5. new.pc = pc
      BY <1>1 DEF CallRecord
    <2> HIDE DEF opened
    <2>6. /\ new.req = r.req /\ new.known = r.known /\ new.settings = r.settings
          /\ new.answer = r.answer /\ new.expired = r.expired
      BY <2>4 DEF CallRecord
    <2> HIDE DEF new
    <2> QED BY <1>0, <2>1, <2>2, <2>3, <2>5, <2>6, CalmKeeps DEF Working
  <1> QED BY <1>2, <1>3

\* The target refuses a call, or the call is out of time.
LEMMA CalmFails ==
  ASSUME Inv, Calm, NEW c \in Calls, call[c].pc \in Working, TargetFails(c),
         Answer(c, failAnswer(call[c].req)), UNCHANGED <<store, key, state>>
  PROVE  Calm'
  <1>1. PollInv(call[c], store) /\ state["target"] = "up"
    BY DEF Calm
  <1>2. (call[c].known /\ ~call[c].expired) => Unpollable(call[c].req, store[call[c].req.ref])
    BY <1>1, ConnectionsAssumption DEF PollInv, Unpollable, TargetFails, Fails
  <1>3. failAnswer(call[c].req) \in Answers \ {"ok"}
    BY OpenAnswers DEF Answers
  <1> QED BY <1>2, <1>3, CalmAnswer

LEMMA CalmPing ==
  ASSUME Inv, Calm, NEW c \in Calls, TestConnection(c)
  PROVE  Calm'
  <1> DEFINE r == call[c]
             new == [r EXCEPT !.pc = "operate"]
  <1>0. r.pc = "ping" /\ UNCHANGED <<store, key, state>>
    BY DEF TestConnection, Others
  <1>1. CASE TargetFails(c)
    BY <1>0, <1>1, CalmFails DEF TestConnection, Working
  <1>2. CASE ~TargetFails(c)
    <2>1. r \in CallRecord /\ PollInv(r, store)
      BY <1>0, InProgressHas DEF Calm
    <2>2. Set(c, new)
      BY <1>2 DEF TestConnection
    <2>3. /\ new.pc = "operate" /\ new.req = r.req /\ new.known = r.known
          /\ new.settings = r.settings /\ new.answer = r.answer /\ new.expired = r.expired
      BY <2>1 DEF CallRecord
    <2>4. Accepted(r.req, r.settings)
      BY <1>2 DEF TargetFails
    <2> HIDE DEF new
    <2>5. PollInv(new, store)
      BY <1>0, <2>1, <2>3, <2>4 DEF PollInv, Working
    <2> QED BY <1>0, <2>2, <2>5, CalmSet
  <1> QED BY <1>1, <1>2

LEMMA CalmStatement ==
  ASSUME Inv, Calm, NEW c \in Calls, Statement(c)
  PROVE  Calm'
  <1> DEFINE r == call[c]
             s == Head(r.todo)
             lost == s = "sample" /\ ~(selectClause(c) \subseteq columns)
  <1>0. r.pc = "operate" /\ r.todo # <<>> /\ UNCHANGED <<store, key, state>>
    BY DEF Statement, Others
  <1>1. r \in CallRecord /\ CallInv(c, r, written[c], c \in inflight)
    BY <1>0, InProgressHas
  <1>2. CASE TargetFails(c)
    BY <1>0, <1>2, CalmFails DEF Statement, Working
  <1>3. CASE lost /\ ~TargetFails(c)
    <2>1. Answer(c, failAnswer(r.req))
      BY <1>3 DEF Statement
    <2>2. 1 \in 1..Len(r.todo) /\ r.todo[1] = "sample"
      BY <1>0, <1>1, <1>3 DEF CallRecord
    <2>3. r.req.via = "service"
      BY <1>1, <2>2 DEF CallInv, TodoInv, Belongs
    <2>4. failAnswer(r.req) \in Answers \ {"ok"}
      BY OpenAnswers DEF Answers
    <2> QED BY <1>0, <2>1, <2>3, <2>4, CalmAnswer
  <1>4. CASE ~lost /\ ~TargetFails(c)
    <2> DEFINE new == [r EXCEPT !.todo = Tail(@),
                                !.described = IF s = "columns" THEN columns ELSE @,
                                !.sampled = IF s = "sample" THEN selectClause(c) ELSE @,
                                !.whole = @ /\ TRUE]
    <2>1. Set(c, new)
      BY <1>4 DEF Statement, Succeed
    <2>2. /\ new.pc = r.pc /\ new.req = r.req /\ new.known = r.known
          /\ new.settings = r.settings /\ new.answer = r.answer /\ new.expired = r.expired
      BY <1>1 DEF CallRecord
    <2> HIDE DEF new
    <2> QED BY <1>0, <2>1, <2>2, CalmKeeps
  <1> QED BY <1>2, <1>3, <1>4

LEMMA CalmInsert ==
  ASSUME Inv, Calm, NEW c \in Calls, SendInsert(c) \/ EndInsert(c)
  PROVE  Calm'
  <1> DEFINE r == call[c]
  <1>0. /\ r.pc \in {"operate", "insert"} /\ UNCHANGED <<store, key, state>>
    BY DEF SendInsert, EndInsert, Others
  <1>1. r \in CallRecord /\ CallInv(c, r, written[c], c \in inflight) /\ r.req \in Requests[c]
    BY <1>0, InProgressHas
  <1>2. CASE SendInsert(c)
    <2>1. CASE TargetFails(c)
      BY <1>0, <1>2, <2>1, CalmFails DEF SendInsert, Working
    <2>2. CASE ~TargetFails(c)
      <3> DEFINE new == [r EXCEPT !.pc = "insert"]
      <3>1. Set(c, new)
        BY <1>2, <2>2 DEF SendInsert
      <3>2. /\ new.pc = "insert" /\ new.req = r.req /\ new.known = r.known
            /\ new.settings = r.settings /\ new.answer = r.answer /\ new.expired = r.expired
        BY <1>1 DEF CallRecord
      <3> HIDE DEF new
      <3> QED BY <1>0, <3>1, <3>2, CalmKeeps DEF Working
    <2> QED BY <2>1, <2>2
  <1>3. CASE EndInsert(c)
    <2>1. r.pc = "insert" /\ r.req.op = "write"
      BY <1>1, <1>3 DEF EndInsert, CallInv, TodoInv
    <2>2. r.req.via = "service"
      BY <1>1, <2>1, ConnectionsAssumption DEF mcpOps
    <2>3. CASE Answer(c, "failed")
      BY <1>0, <2>2, <2>3, CalmAnswer DEF Answers
    <2>4. CASE Set(c, [r EXCEPT !.pc = "operate", !.todo = Tail(@)])
      <3> DEFINE new == [r EXCEPT !.pc = "operate", !.todo = Tail(@)]
      <3>1. Set(c, new)
        BY <2>4
      <3>2. /\ new.pc = "operate" /\ new.req = r.req /\ new.known = r.known
            /\ new.settings = r.settings /\ new.answer = r.answer /\ new.expired = r.expired
        BY <1>1 DEF CallRecord
      <3> HIDE DEF new
      <3> QED BY <1>0, <2>1, <3>1, <3>2, CalmKeeps DEF Working
    <2> QED BY <1>3, <2>3, <2>4 DEF EndInsert
  <1> QED BY <1>2, <1>3

LEMMA CalmFinish ==
  ASSUME Inv, Calm, NEW c \in Calls, Finish(c)
  PROVE  Calm'
  <1> DEFINE r == call[c]
             profiled == IF r.req.op = "profile" THEN r.described ELSE {}
  <1>0. r.pc = "operate" /\ UNCHANGED <<store, key, state>>
    BY DEF Finish, Others
  <1>1. r.req \in Requests[c]
    BY <1>0, InProgressHas
  <1>2. PICK sample \in [profiled -> Samples] :
           Answer(c, IF profileFromSample(sample) THEN "aborted" ELSE "ok")
    BY DEF Finish
  <1>3. CASE profileFromSample(sample)
    <2>1. r.req.op = "profile"
      BY <1>3 DEF profileFromSample
    <2>2. r.req.via = "service"
      BY <1>1, <2>1, ConnectionsAssumption DEF mcpOps
    <2>3. Answer(c, "aborted")
      BY <1>2, <1>3
    <2> QED BY <1>0, <2>2, <2>3, CalmAnswer DEF Answers
  <1>4. CASE ~profileFromSample(sample)
    <2>1. Answer(c, "ok")
      BY <1>2, <1>4
    <2> QED BY <1>0, <2>1, CalmAnswer DEF Answers
  <1> QED BY <1>3, <1>4

LEMMA CalmReturn ==
  ASSUME Inv, Calm, NEW c \in Calls, Return(c)
  PROVE  Calm'
  <1> DEFINE r == call[c]
             new == Over(c, r.answer)
  <1>0. r.pc = "return" /\ Set(c, new) /\ UNCHANGED <<store, key, state>>
    BY DEF Return, Others
  <1>1. PollInv(r, store)
    BY DEF Calm
  <1>2. /\ new.pc = "done" /\ new.req = r.req /\ new.known = r.known
        /\ new.answer = r.answer /\ new.expired = r.expired
    BY DEF Over, IdleCall
  <1> HIDE DEF new
  <1>3. PollInv(new, store)
    BY <1>0, <1>1, <1>2 DEF PollInv, Working
  <1> QED BY <1>0, <1>3, CalmSet

LEMMA CalmDeadline ==
  ASSUME Inv, Calm, NEW c \in Calls, Deadline(c)
  PROVE  Calm'
  <1> DEFINE r == call[c]
             new == [r EXCEPT !.expired = TRUE]
  <1>0. Set(c, new) /\ UNCHANGED <<store, key, state>>
    BY DEF Deadline, Others
  <1>1. r \in CallRecord
    BY DEF Inv, Typed
  <1>2. /\ new.pc = r.pc /\ new.req = r.req /\ new.known = r.known
        /\ new.settings = r.settings /\ new.answer = r.answer /\ new.expired = TRUE
    BY <1>1 DEF CallRecord
  <1> HIDE DEF new
  <1> QED BY <1>0, <1>2, CalmKeeps

\* A row is stored under an id that no row had.
LEMMA CalmCreate ==
  ASSUME Inv, Calm, NEW ref \in Refs, NEW s \in Settings, CreateConnection(ref, s)
  PROVE  Calm'
  <1> DEFINE row == [type |-> s.type, right |-> s.right,
                     password_enc |-> Encrypt(s.password, key["rules"])]
  <1>1. /\ store[ref] = None /\ store' = [store EXCEPT ![ref] = row]
        /\ UNCHANGED <<key, state, call>>
    BY DEF CreateConnection
  <1>2. row.password_enc.key = Key
    BY DEF Encrypt, Calm
  <1> HIDE DEF row
  <1>3. /\ \A x \in Refs : store[x] # None => store'[x] = store[x]
        /\ \A x \in Refs : store'[x] # None => store'[x].password_enc.key = Key
    BY <1>1, <1>2 DEF Calm, Inv, Typed
  <1>4. ASSUME NEW c \in Calls PROVE PollInv(call[c], store')
    <2>1. PollInv(call[c], store)
      BY DEF Calm
    <2>2. CASE call[c].pc = "idle"
      <3>1. call[c].answer = None /\ "ok" # None
        BY <2>2, ConnectionsAssumption DEF Inv, CallInv, StageInv, Answers
      <3> QED BY <1>3, <2>1, <2>2, <3>1 DEF PollInv, Working
    <2>3. CASE call[c].pc # "idle"
      <3>1. call[c].req.ref \in Refs \cup {None}
        BY <2>3, InProgressHas, ConnectionsAssumption
      <3> QED BY <1>3, <2>1, <3>1 DEF PollInv
    <2> QED BY <2>2, <2>3
  <1> QED BY <1>1, <1>3, <1>4 DEF Calm

\* Whatever fails is counted, so without a fault the steps are those above.
LEMMA CalmNext ==
  ASSUME Inv, CalmInv, [Next]_vars
  PROVE  CalmInv'
  <1> SUFFICES ASSUME faults' = 0 PROVE Calm'
    BY DEF CalmInv
  <1>0. faults \in Nat
    BY DEF Inv, Typed
  <1>1. faults = 0 => Calm
    BY DEF CalmInv
  <1>2. ASSUME NEW ref \in Refs, NEW s \in Settings, CreateConnection(ref, s) PROVE Calm'
    BY <1>1, <1>2, CalmCreate DEF CreateConnection
  <1>3. ASSUME NEW c \in Calls, NEW req \in Requests[c], Begin(c, req) PROVE Calm'
    <2>1. UNCHANGED faults
      BY <1>3 DEF Begin, Others
    <2> QED BY <1>1, <1>3, <2>1, CalmBegin
  <1>4. ASSUME NEW c \in Calls, Step(c) PROVE Calm'
    <2>1. UNCHANGED faults
      BY <1>4 DEF Step, Route, OpenPostgres, Resolve, Open, TestConnection, Statement,
                  SendInsert, EndInsert, Finish, Return, Others
    <2> QED BY <1>1, <1>4, <2>1, CalmRoute, CalmResolve, CalmOpen, CalmPing, CalmStatement,
               CalmInsert, CalmFinish, CalmReturn DEF Step
  <1>5. ASSUME NEW c \in Calls, Deadline(c) PROVE Calm'
    BY <1>1, <1>5, CalmDeadline DEF Deadline, Others
  <1>6. ASSUME NEW c \in Calls, Leave(c) \/ Break(c) PROVE FALSE
    <2>1. faults' = faults + 1
      BY <1>6 DEF Leave, Break
    <2> QED BY <1>0, <2>1
  <1>7. ASSUME NEW c \in Calls, Insert(c) PROVE Calm'
    <2>1. UNCHANGED <<store, key, state, call, faults>>
      BY <1>7 DEF Insert
    <2> QED BY <1>1, <2>1 DEF Calm
  <1>8. ASSUME NEW d \in {"store", "target"}, NEW new \in {"up", "down", "hung"},
               Change(d, new)
        PROVE  FALSE
    <2>1. new = "up" /\ faults = 0
      BY <1>0, <1>8 DEF Change
    <2> QED BY <1>1, <1>8, <2>1 DEF Change, Calm
  <1>9. ASSUME NEW col \in Columns, AlterTable(col) PROVE FALSE
    BY <1>0, <1>9 DEF AlterTable
  <1>10. ASSUME NEW p \in Programs, NEW k \in Keys, Restart(p, k) PROVE FALSE
    BY <1>0, <1>10 DEF Restart
  <1>11. CASE UNCHANGED vars
    BY <1>1, <1>11 DEF vars, Calm
  <1> QED BY <1>2, <1>3, <1>4, <1>5, <1>6, <1>7, <1>8, <1>9, <1>10, <1>11 DEF Next

LEMMA CalmInit == Init => CalmInv
  <1> SUFFICES ASSUME Init PROVE Calm
    BY DEF CalmInv
  <1>1. ASSUME NEW c \in Calls PROVE PollInv(call[c], store)
    <2>1. call[c] = IdleCall
      BY DEF Init
    <2>2. "ok" # None
      BY ConnectionsAssumption DEF Answers
    <2> QED BY <2>1, <2>2 DEF PollInv, IdleCall, Working
  <1> QED BY <1>1 DEF Init, Calm, Programs

\* The types that have an adapter are types that the MCP server opens.
LEMMA AdaptersOpen ==
  ASSUME NEW type, AdapterFor(type) # None, NEW req
  PROVE  Engine(req, type) # None
  <1>1. ToLower(type) \in {"mysql", "postgres", "postgresql"}
    BY ConnectionsAssumption DEF AdapterFor
  <1>2. NewConnector(type) \in {"mysql", "postgres"}
    BY <1>1 DEF NewConnector
  <1>3. openTargetDB(type) \in {"mysql", "postgres"}
    BY <1>2 DEF openTargetDB
  <1> QED BY <1>2, <1>3, ConnectionsAssumption DEF Engine

\* A target that accepts a test accepts any call with the same settings, if the
\* password is one that a URL carries or the call is not a query.
LEMMA TestedAccepts ==
  ASSUME NEW test, NEW req, NEW s, test.op = "test", Accepted(test, s),
         s.password = "plain" \/ ~Query(req.op)
  PROVE  Accepted(req, s)
  <1>1. s.right /\ ~Query(test.op)
    BY DEF Accepted, Query
  <1>2. CASE ~Query(req.op)
    BY <1>1, <1>2 DEF Accepted, Engine, passwordKept
  <1>3. CASE s.password = "plain"
    BY <1>1, <1>3 DEF Accepted, passwordKept, newMySQLConnector, newPostgresConnector,
                      newMSSQLConnector, postgresURL
  <1> QED BY <1>2, <1>3

LEMMA CalmPollable ==
  ASSUME Inv, CalmInv
  PROVE  TestedMeansPollable
  <1> SUFFICES ASSUME NEW t \in Calls, NEW c \in Calls, faults = 0,
                      call[t].answer = "ok", call[t].req.op = "test", call[t].req.ref # None,
                      call[c].answer # None, call[c].req.via = "mcp",
                      call[c].req.ref = call[t].req.ref, call[c].known, ~call[c].expired,
                      call[c].answer # "ok",
                      AdapterFor(store[call[c].req.ref].type) # None
               PROVE  /\ Query(call[c].req.op)
                      /\ store[call[c].req.ref].password_enc.plain # "plain"
    BY DEF TestedMeansPollable
  <1> DEFINE row == store[call[c].req.ref]
  <1>1. Unpollable(call[c].req, row) /\ Accepted(call[t].req, SettingsOf(row))
    BY DEF CalmInv, Calm, PollInv
  <1>2. Engine(call[c].req, row.type) # None
    BY AdaptersOpen
  <1>3. ~Accepted(call[c].req, SettingsOf(row))
    BY <1>1, <1>2 DEF Unpollable
  <1>4. SettingsOf(row).password = row.password_enc.plain
    BY DEF SettingsOf
  <1> HIDE DEF row
  <1>5. ~(SettingsOf(row).password = "plain" \/ ~Query(call[c].req.op))
    BY <1>1, <1>3, TestedAccepts
  <1>6. Query(call[c].req.op) /\ row.password_enc.plain # "plain"
    BY <1>4, <1>5 DEF Query
  <1> QED BY <1>6 DEF row

-----------------------------------------------------------------------------
\* A connection that was tested can be queried by the scheduler as long as
\* nothing fails, if its type has an adapter and its password is one that a
\* URL carries, for any number of calls, connections, settings and keys: the
\* three programs that read the type, the two that decrypt the password and
\* the four ways to pass it on agree (adapterForConnection, getConnection,
\* ResolveByRef, NewConnector, openTargetDB).
THEOREM TestedIsPollable == Spec => []TestedMeansPollable
  <1>1. Spec => [](Inv /\ CalmInv)
    <2>1. Inv /\ CalmInv /\ [Next]_vars => CalmInv'
      BY CalmNext
    <2> QED BY <2>1, CalmInit, Invariance, PTL DEF Spec
  <1>2. Inv /\ CalmInv => TestedMeansPollable
    BY CalmPollable
  <1> QED BY <1>1, <1>2, PTL
=============================================================================

----------------------------- MODULE RunWindow ------------------------------
(***************************************************************************)
(* The evaluation windows of one rule: what execute does, run after run.  *)
(*                                                                         *)
(* A run takes the time, reads the time of the last run from its job, and *)
(* for each parameter fetches the rows of the source table from there on; *)
(* each row out of its limits raises an alert unless the parameter is     *)
(* cooling down.  The run then stores its own start as the time of the    *)
(* last run, in the job and in the database.  Several workers may run the *)
(* same job at once; the rule may be scheduled again, which makes a new   *)
(* job that starts from the time in the database; the process may restart. *)
(*                                                                         *)
(* Time is counted in ticks, TicksPerSecond to the second.  A query's     *)
(* lower bound is formatted with whole seconds.                            *)
(***************************************************************************)
EXTENDS Integers, FiniteSets

CONSTANTS
    RowIds,         \* rows of the source table
    Params,         \* the rule's parameters
    RowKinds,       \* sets of parameters a row may be out of its limits for
    Workers,        \* worker goroutines
    Jobs,           \* bound: the jobs of the rule, 1 .. N in creation order
    TicksPerSecond, \* clock ticks in a second
    Interval,       \* the poll interval, in ticks
    Cooldown,       \* the cooldown, in ticks; 0 when there is none
    Limit,          \* MaxSampleRows
    MaxDelay,       \* how late a row may show up in the source table
    MaxTime,        \* bound: the last tick
    Faults,         \* the faults that may happen
    None            \* no time, no row

AllFaults == {"query", "cut", "cooldown", "alert", "persist", "load", "crash"}

ASSUME WindowAssumption ==
    /\ TicksPerSecond \in Nat \ {0}
    /\ Interval \in Nat /\ Cooldown \in Nat /\ Limit \in Nat
    /\ MaxDelay \in Nat /\ MaxTime \in Nat
    /\ Jobs \subseteq Nat /\ 1 \in Jobs
    /\ RowKinds \subseteq SUBSET Params
    /\ Faults \subseteq AllFaults
    /\ None \notin Int /\ None \notin RowIds
    /\ None \notin [ts : Int, bad : SUBSET Params]

VARIABLES
    now,            \* the clock
    table,          \* the source table
    job,            \* the rule's job in the registry
    live,           \* the jobs that runs may still be queued for
    mem,            \* lastRunAt of each job
    db,             \* last_run_at of the rule's row
    worker,         \* runs in progress
    alerts,         \* table alerts; history: the worker that wrote each
    seen,           \* history: rows fetched, with the parameter
    start,          \* history: start of the latest window of a first run
    overtaken       \* history: runs that a later one overtook

vars == <<now, table, job, live, mem, db, worker, alerts, seen, start,
          overtaken>>

Row == [ts : Int, bad : SUBSET Params]

Run == [pc : {"idle", "read", "params", "query", "hits", "create", "persist"},
        job : Jobs, runAt : Int, last : Int \cup {None}, left : SUBSET Params,
        param : Params \cup {None}, since : Int, hits : SUBSET RowIds,
        row : RowIds \cup {None}]

\* The locals a run uses at its pc have values.
LocalsSet(run) ==
    /\ run.pc \in {"query", "hits", "create"} => run.param \in Params
    /\ run.pc = "create" => run.row \in RowIds

TypeOK ==
    /\ now \in Nat
    /\ table \in [RowIds -> Row \cup {None}]
    /\ job \in Jobs
    /\ live \subseteq Jobs
    /\ mem \in [Jobs -> Int \cup {None}]
    /\ db \in Int \cup {None}
    /\ worker \in [Workers -> Run]
    /\ \A w \in Workers : LocalsSet(worker[w])
    /\ alerts \subseteq [row : RowIds, param : Params, ts : Int, by : Workers]
    /\ seen \subseteq RowIds \X Params
    /\ start \in Int
    /\ overtaken \subseteq Workers

IdleRun == [pc |-> "idle", job |-> 1, runAt |-> 0, last |-> None, left |-> {},
            param |-> None, since |-> 0, hits |-> {}, row |-> None]

Init ==
    /\ now = 0
    /\ table = [i \in RowIds |-> None]
    /\ job = 1
    /\ live = {1}
    /\ mem = [j \in Jobs |-> None]
    /\ db = None
    /\ worker = [w \in Workers |-> IdleRun]
    /\ alerts = {}
    /\ seen = {}
    /\ start = -Interval
    /\ overtaken = {}

-----------------------------------------------------------------------------
(***************************************************************************)
(* The source database (external) and the clock.                          *)
(***************************************************************************)
Clock ==
    /\ now < MaxTime
    /\ now' = now + 1
    /\ UNCHANGED <<table, job, live, mem, db, worker, alerts, seen, start,
                   overtaken>>

\* A machine's row shows up, at most MaxDelay after its time stamp.
InsertRow(i, delay, bad) ==
    /\ table[i] = None
    /\ table' = [table EXCEPT ![i] = [ts |-> now - delay, bad |-> bad]]
    /\ UNCHANGED <<now, job, live, mem, db, worker, alerts, seen, start,
                   overtaken>>

\* time.RFC3339 has no fraction of a second.
Truncated(t) == t - (t % TicksPerSecond)

\* ts >= since
Window(since) == {i \in RowIds : table[i] # None /\ table[i].ts >= Truncated(since)}

\* ORDER BY ts DESC LIMIT n; rows with equal times come in any order.
Newest(rows, n) ==
    IF Cardinality(rows) <= n THEN {rows}
    ELSE {s \in SUBSET rows :
            /\ Cardinality(s) = n
            /\ \A i \in s, k \in rows \ s : table[k].ts <= table[i].ts}

\* fetchRecentRows of the MCP server.  It does not ask whether the rows ended
\* or broke off: then the first of them, the newest, are its whole answer.
FetchRecentRows(since) ==
    Newest(Window(since), Limit)
        \cup (IF "cut" \in Faults
              THEN UNION {Newest(Window(since), n) : n \in 0 .. Limit} ELSE {})

-----------------------------------------------------------------------------
(***************************************************************************)
(* Jobs                                                                    *)
(***************************************************************************)

\* Schedule's new job starts from the time in the database, or from nothing
\* when it cannot be read.
LoadLastRun(j) ==
    \/ mem' = [mem EXCEPT ![j] = db]
    \/ "load" \in Faults /\ mem' = [mem EXCEPT ![j] = None]

\* The rule is scheduled again.  Runs of the old job may still be queued.
Schedule ==
    /\ job + 1 \in Jobs
    /\ job' = job + 1
    /\ live' = live \cup {job + 1}
    /\ LoadLastRun(job + 1)
    /\ UNCHANGED <<now, table, db, worker, alerts, seen, start,
                   overtaken>>

\* The process ends and starts again: its runs, jobs and queue are gone.
Restart ==
    /\ "crash" \in Faults
    /\ job + 1 \in Jobs
    /\ job' = job + 1
    /\ live' = {job + 1}
    /\ LoadLastRun(job + 1)
    /\ worker' = [w \in Workers |-> IdleRun]
    /\ overtaken' = {}
    /\ UNCHANGED <<now, table, db, alerts, seen, start>>

-----------------------------------------------------------------------------
(***************************************************************************)
(* execute                                                                 *)
(***************************************************************************)

\* A worker takes a run and takes the time.
Begin(w, j) ==
    /\ worker[w].pc = "idle"
    /\ j \in live
    /\ worker' = [worker EXCEPT ![w] =
                    [IdleRun EXCEPT !.pc = "read", !.job = j, !.runAt = now]]
    /\ UNCHANGED <<now, table, job, live, mem, db, alerts, seen, start,
                   overtaken>>

\* getLastRunAt, under the job's mutex.
GetLastRunAt(w) ==
    /\ worker[w].pc = "read"
    /\ worker' = [worker EXCEPT ![w].pc = "params", ![w].left = Params,
                                ![w].last = mem[worker[w].job]]
    /\ UNCHANGED <<now, table, job, live, mem, db, alerts, seen, start,
                   overtaken>>

\* windowSince: from the last run, or one poll interval back.
WindowSince(last) == IF last = None THEN now - Interval ELSE last

\* The next parameter of the rule.
NextParam(w, p) ==
    LET last == worker[w].last IN
    /\ worker[w].pc = "params"
    /\ p \in worker[w].left
    /\ worker' = [worker EXCEPT ![w].pc = "query", ![w].left = @ \ {p},
                                ![w].param = p, ![w].since = WindowSince(last)]
    /\ start' = IF last = None THEN WindowSince(last) ELSE start
    /\ UNCHANGED <<now, table, job, live, mem, db, alerts, seen, overtaken>>

\* Where a run goes on when hits are left to handle, and when none are: the
\* locals of evaluateParameterSince are gone by then.
Handle(w, hits) ==
    worker' = [worker EXCEPT ![w].hits = hits, ![w].row = None, ![w].since = 0,
                             ![w].param = IF hits = {} THEN None ELSE @,
                             ![w].pc = IF hits = {} THEN "params" ELSE "hits"]

\* Mutant: a strict lower bound.
FetchSamplesAfter(w) ==
    LET p == worker[w].param IN
    /\ worker[w].pc = "query"
    /\ \E rows \in Newest({i \in RowIds : table[i] # None
                               /\ table[i].ts > worker[w].since}, Limit) :
          /\ seen' = seen \cup (rows \X {p})
          /\ Handle(w, {i \in rows : p \in table[i].bad})
    /\ UNCHANGED <<now, table, job, live, mem, db, alerts, start, overtaken>>

\* fetchSamples and the check of each row against the limits.  On an error
\* the parameter is skipped.
FetchSamples(w) ==
    LET p == worker[w].param IN
    /\ worker[w].pc = "query"
    /\ \/ \E rows \in FetchRecentRows(worker[w].since) :
             /\ seen' = seen \cup (rows \X {p})
             /\ Handle(w, {i \in rows : p \in table[i].bad})
       \/ /\ "query" \in Faults
          /\ Handle(w, {})
          /\ UNCHANGED seen
    /\ UNCHANGED <<now, table, job, live, mem, db, alerts, start, overtaken>>

\* Mutant: the cooldown is counted from the oldest alert.
WithinCooldownOfFirst(p) ==
    \E a \in alerts :
        /\ a.param = p
        /\ \A b \in alerts : b.param = p => a.ts <= b.ts
        /\ now - a.ts < Cooldown

\* GetLastAlertForKey and WithinCooldown: the latest alert of the parameter is
\* too recent, that is, some alert is.
WithinCooldown(p) == \E a \in alerts : a.param = p /\ now - a.ts < Cooldown

\* The next hit, oldest row first: is the parameter cooling down?  An error
\* of the lookup counts as no.
CheckCooldown(w, i) ==
    LET run == worker[w] IN
    /\ run.pc = "hits"
    /\ i \in run.hits
    /\ \A k \in run.hits : table[i].ts <= table[k].ts
    /\ \/ /\ WithinCooldown(run.param)
          /\ Handle(w, run.hits \ {i})
       \/ /\ \/ ~WithinCooldown(run.param)
             \/ "cooldown" \in Faults
          /\ worker' = [worker EXCEPT ![w].pc = "create", ![w].row = i]
    /\ UNCHANGED <<now, table, job, live, mem, db, alerts, seen, start,
                   overtaken>>

Alert(w, row, p) == [row |-> row, param |-> p, ts |-> now, by |-> w]

\* Mutant: the alert is written after the row is forgotten.
CreateAlertNoRow(w) ==
    LET run == worker[w] IN
    /\ run.pc = "create"
    /\ alerts' = alerts \cup {Alert(w, None, run.param)}
    /\ Handle(w, run.hits \ {run.row})
    /\ UNCHANGED <<now, table, job, live, mem, db, seen, start,
                   overtaken>>

\* CreateAlert, whose error is ignored.
CreateAlert(w) ==
    LET run == worker[w] IN
    /\ run.pc = "create"
    /\ \/ alerts' = alerts \cup {Alert(w, run.row, run.param)}
       \/ "alert" \in Faults /\ UNCHANGED alerts
    /\ Handle(w, run.hits \ {run.row})
    /\ UNCHANGED <<now, table, job, live, mem, db, seen, start,
                   overtaken>>

\* The run of w stores its start: the runs that started earlier and have not
\* ended are overtaken.
Overtake(w) ==
    overtaken' = overtaken \cup
        {v \in Workers : worker[v].pc # "idle" /\ worker[v].runAt < worker[w].runAt}

\* Mutant: the window advances to the end of the run.
SetLastRunAtNow(w) ==
    /\ worker[w].pc = "params" /\ worker[w].left = {}
    /\ mem' = [mem EXCEPT ![worker[w].job] = now]
    /\ worker' = [worker EXCEPT ![w].pc = "persist", ![w].last = None,
                                ![w].runAt = now]
    /\ Overtake(w)
    /\ UNCHANGED <<now, table, job, live, db, alerts, seen, start>>

\* Mutant: the time the run started from is stored again.
SetLastRunAtOld(w) ==
    LET t == IF worker[w].last = None THEN worker[w].runAt ELSE worker[w].last IN
    /\ worker[w].pc = "params" /\ worker[w].left = {}
    /\ mem' = [mem EXCEPT ![worker[w].job] = t]
    /\ worker' = [worker EXCEPT ![w].pc = "persist", ![w].last = None,
                                ![w].runAt = t]
    /\ Overtake(w)
    /\ UNCHANGED <<now, table, job, live, db, alerts, seen, start>>

\* setLastRunAt: first the job, then the database.
SetLastRunAt(w) ==
    /\ worker[w].pc = "params" /\ worker[w].left = {}
    /\ mem' = [mem EXCEPT ![worker[w].job] = worker[w].runAt]
    /\ worker' = [worker EXCEPT ![w].pc = "persist", ![w].last = None]
    /\ Overtake(w)
    /\ UNCHANGED <<now, table, job, live, db, alerts, seen, start>>

UpdateLastRunAt(w) ==
    /\ worker[w].pc = "persist"
    /\ \/ db' = worker[w].runAt
       \/ "persist" \in Faults /\ UNCHANGED db
    /\ worker' = [worker EXCEPT ![w] = IdleRun]
    /\ overtaken' = overtaken \ {w}
    /\ UNCHANGED <<now, table, job, live, mem, alerts, seen, start>>

Execute(w) ==
    \/ GetLastRunAt(w)
    \/ \E p \in Params : NextParam(w, p)
    \/ FetchSamples(w)
    \/ \E i \in RowIds : CheckCooldown(w, i)
    \/ CreateAlert(w)
    \/ SetLastRunAt(w)
    \/ UpdateLastRunAt(w)

Next ==
    \/ Clock
    \/ \E i \in RowIds, delay \in 0 .. MaxDelay, bad \in RowKinds :
          InsertRow(i, delay, bad)
    \/ Schedule
    \/ Restart
    \/ \E w \in Workers : \/ \E j \in Jobs : Begin(w, j)
                          \/ Execute(w)

Spec == Init /\ [][Next]_vars

\* The ticker of the rule's job keeps queueing runs and some worker takes and
\* finishes them (Registry shows this); every call of a run has a deadline.
Fairness ==
    /\ \A w \in Workers : WF_vars(Execute(w))
    /\ WF_vars(\E w \in Workers : Begin(w, job))

FairSpec == Spec /\ Fairness

-----------------------------------------------------------------------------
\* A query full of rows as new as row i: Limit of them were fetched for p.
CutOff(rows, fetched, i, p) ==
    \E s \in SUBSET RowIds :
        /\ Cardinality(s) = Limit
        /\ \A k \in s : /\ <<k, p>> \in fetched
                        /\ rows[k] # None /\ rows[k].ts >= rows[i].ts

\* Among rows, those with a time stamp in from .. t - 1 were fetched for p,
\* or cut off by newer ones.
Fetched(rows, fetched, from, p, t) ==
    \A i \in RowIds :
        rows[i] # None /\ from <= rows[i].ts /\ rows[i].ts < t
            => <<i, p>> \in fetched \/ CutOff(rows, fetched, i, p)

FetchedUpTo(p, t) == Fetched(table, seen, start, p, t)

\* No row falls between two windows: whatever the workers, reschedulings and
\* restarts do, a row older than the time the next run starts from, in the
\* job or in the database, was fetched for every parameter, or MaxSampleRows
\* rows that are not older were: the limit drops the oldest rows and no
\* others.  (Rows are on time and no query fails.)
NoRowSkipped ==
    \A p \in Params :
        /\ \A j \in Jobs : mem[j] # None => FetchedUpTo(p, mem[j])
        /\ db # None => FetchedUpTo(p, db)

\* The alerts of a's parameter in the cooldown that a starts.
InCooldownOf(a) ==
    {b \in alerts : b.param = a.param /\ a.ts <= b.ts /\ b.ts - a.ts < Cooldown}

\* The last alert is looked up before the new one is written, so workers that
\* look at the same time each write theirs; no worker writes a second one: a
\* parameter never has more alerts in one cooldown than there are workers,
\* over reschedulings, restarts, failed alerts and failed queries.
CooldownOvershootBounded ==
    \A a \in alerts : Cardinality(InCooldownOf(a)) <= Cardinality(Workers)

TimesAdvance ==
    /\ db # None => db' # None /\ db' >= db
    /\ \A j \in Jobs : mem[j] # None => mem'[j] # None /\ mem'[j] >= mem[j]

\* The times of the last run, in the database and in each job, go back only
\* where two runs overlap: in a step of a run that was still in progress when
\* a run that started later stored its time.  Runs of a replaced job that come
\* after those of its successor, restarts and failed writes move none back.
WindowAdvances ==
    [][TimesAdvance \/ \E w \in overtaken : worker'[w] # worker[w]]_vars

\* Every row is fetched for every parameter in the end, if its time stamp is
\* not before the first window and newer rows do not fill the query: a row
\* that shows up while a run is under way waits for the next one and is not
\* forgotten.
RowsAreFetched ==
    \A i \in RowIds, p \in Params :
        (table[i] # None /\ table[i].ts >= start)
            ~> \/ <<i, p>> \in seen
               \/ /\ table[i] # None
                  /\ table[i].ts < start \/ CutOff(table, seen, i, p)

-----------------------------------------------------------------------------
(***************************************************************************)
(* The inductive invariant behind NoRowSkipped.                           *)
(***************************************************************************)
\* No time is ahead of the clock.
TimesInv ==
    /\ start <= now - Interval
    /\ \A i \in RowIds : table[i] # None => table[i].ts <= now
    /\ \A j \in Jobs : mem[j] # None => mem[j] <= now
    /\ db # None => db <= now

\* A run starts where everything before was fetched, and what it has dealt
\* with was fetched up to its own start.
RunInv(run) ==
    /\ run.runAt <= now
    /\ run.last # None => /\ run.last <= now
                          /\ \A p \in Params : FetchedUpTo(p, run.last)
    /\ run.pc = "query" => /\ run.since <= now
                           /\ FetchedUpTo(run.param, run.since)
    /\ run.pc \in {"params", "query", "hits", "create"} =>
          \A p \in Params \ run.left :
              FetchedUpTo(p, run.runAt) \/ (run.pc = "query" /\ p = run.param)
    /\ run.pc = "persist" => \A p \in Params : FetchedUpTo(p, run.runAt)

Inv ==
    /\ TypeOK
    /\ TimesInv
    /\ NoRowSkipped
    /\ \A w \in Workers : RunInv(worker[w])

\* Under these assumptions no row is skipped.
Reliable == MaxDelay = 0 /\ Faults \cap {"query", "cut"} = {}

\* Under this assumption the cooldown's overshoot is bounded: a lookup that
\* fails lets the alert through.
LookupsWork == "cooldown" \notin Faults /\ IsFiniteSet(Workers)

\* The inductive invariant behind CooldownOvershootBounded: a worker's alerts
\* of one parameter are a cooldown apart.  Between its lookup and its insert
\* time passes and others may write alerts, but not this worker.
CooldownInv ==
    /\ TypeOK
    /\ \A a, b \in alerts :
          a # b /\ a.param = b.param /\ a.by = b.by /\ a.ts <= b.ts
              => b.ts - a.ts >= Cooldown
    /\ \A a \in alerts : a.ts <= now
    /\ \A w \in Workers : worker[w].pc = "create" =>
          \A a \in alerts :
              a.param = worker[w].param /\ a.by = w => now - a.ts >= Cooldown

\* The inductive invariant behind WindowAdvances: jobs to come have no time
\* yet, and no time, stored or about to be, is later than the start of a run
\* that is not overtaken.
AdvanceInv ==
    /\ TypeOK
    /\ 1 <= job
    /\ \A j \in live : j <= job
    /\ \A j \in Jobs : j > job => mem[j] = None
    /\ \A j \in Jobs : mem[j] # None => mem[j] <= now
    /\ db # None => db <= now
    /\ \A w \in Workers : worker[w].job <= job /\ worker[w].runAt <= now
    /\ \A w \in Workers \ overtaken : worker[w].pc # "idle" =>
          /\ db # None => db <= worker[w].runAt
          /\ \A j \in Jobs : mem[j] # None => mem[j] <= worker[w].runAt
          /\ \A v \in Workers : worker[v].pc = "persist" =>
                                   worker[v].runAt <= worker[w].runAt

-----------------------------------------------------------------------------
(***************************************************************************)
(* What comments and tests of the repository say and the code does not do. *)
(***************************************************************************)

\* "evaluates a parameter for all new rows in the current poll window": the
\* rows up to the last run were fetched, although a query may have failed or
\* its result broken off.
AllNewRowsEvaluated ==
    mem[job] # None => \A p \in Params : FetchedUpTo(p, mem[job])

\* "expected within cooldown": an alert that comes sooner after another is
\* held back, although two workers may look for the last one together.
CooldownRespected ==
    \A a, b \in alerts :
        a # b /\ a.param = b.param /\ a.ts <= b.ts => b.ts - a.ts >= Cooldown

\* "Advance the window: next run will only see rows newer than this run
\* started": the times of the last run only go forward.
WindowOnlyAdvances == [][TimesAdvance]_vars

=============================================================================

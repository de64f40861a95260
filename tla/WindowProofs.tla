---------------------------- MODULE WindowProofs ----------------------------
(***************************************************************************)
(* No row falls between two windows, for every number of rows, parameters, *)
(* workers and jobs.  The argument: a run is covered up to the time it     *)
(* starts from (RunInv), its queries cover the rest up to its own start,   *)
(* and rows that show up later carry a later time, so whatever was fetched *)
(* up to a past moment stays fetched up to that moment (FetchedKept).      *)
(*                                                                         *)
(* Two workers may run one job at once.  What remains of the cooldown is   *)
(* that each worker keeps to it (CooldownKept), and of the window that it  *)
(* goes back only by a run that a later one overtook (AdvanceKept).        *)
(***************************************************************************)
EXTENDS RunWindow, FiniteSetTheorems, TLAPS

\* Truncating a time to the second never moves it forward.
LEMMA TruncatedBefore == ASSUME NEW t \in Int
                         PROVE Truncated(t) \in Int /\ Truncated(t) <= t
  BY WindowAssumption DEF Truncated

\* A run changes only its own record.
LEMMA RunTyped ==
  ASSUME TypeOK, NEW w \in Workers, NEW new \in Run, LocalsSet(new),
         worker' = [worker EXCEPT ![w] = new]
  PROVE  /\ worker' \in [Workers -> Run]
         /\ \A v \in Workers : worker'[v] = IF v = w THEN new ELSE worker[v]
         /\ \A v \in Workers : LocalsSet(worker'[v])
  BY DEF TypeOK

LEMMA IdleTyped == IdleRun \in Run /\ LocalsSet(IdleRun)
  BY WindowAssumption DEF IdleRun, Run, LocalsSet

\* The initial state is well typed.
LEMMA InitTyped == Init => TypeOK
  BY IdleTyped, WindowAssumption DEF Init, TypeOK

\* Where a run goes on, as one record.
HandleRun(run, hits) ==
    [run EXCEPT !.hits = hits, !.row = None, !.since = 0,
                !.param = IF hits = {} THEN None ELSE @,
                !.pc = IF hits = {} THEN "params" ELSE "hits"]

LEMMA HandleTyped ==
  ASSUME TypeOK, NEW w \in Workers, NEW hits \in SUBSET RowIds,
         worker[w].param \in Params, Handle(w, hits)
  PROVE  /\ HandleRun(worker[w], hits) \in Run
         /\ LocalsSet(HandleRun(worker[w], hits))
         /\ worker' = [worker EXCEPT ![w] = HandleRun(worker[w], hits)]
  <1>1. worker[w] \in Run
    BY DEF TypeOK
  <1>2. HandleRun(worker[w], hits) \in Run /\ LocalsSet(HandleRun(worker[w], hits))
    <2> DEFINE param == IF hits = {} THEN None ELSE worker[w].param
               pc == IF hits = {} THEN "params" ELSE "hits"
               zero == 0
               new == [worker[w] EXCEPT !.hits = hits, !.row = None, !.since = zero,
                                        !.param = param, !.pc = pc]
    <2>1. /\ zero \in Int
          /\ param \in Params \cup {None} /\ pc \in {"params", "hits"}
          /\ pc = "hits" => param \in Params
      OBVIOUS
    <2>2. new = HandleRun(worker[w], hits)
      BY DEF HandleRun
    <2> HIDE DEF param, pc, zero
    <2>3. new \in Run /\ new.pc = pc /\ new.param = param
      BY <1>1, <2>1 DEF Run
    <2> HIDE DEF new
    <2>4. LocalsSet(new)
      BY <2>1, <2>3 DEF LocalsSet
    <2> QED BY <2>2, <2>3, <2>4
  <1>3. worker' = [worker EXCEPT ![w] = HandleRun(worker[w], hits)]
    BY DEF Handle, HandleRun, TypeOK
  <1> QED BY <1>2, <1>3

\* What a step of execute makes of its run.
StepOf(w, new) ==
    /\ new \in Run /\ LocalsSet(new)
    /\ worker' = [worker EXCEPT ![w] = new]

LEMMA BeginStep ==
  ASSUME TypeOK, NEW w \in Workers, NEW j \in Jobs, Begin(w, j)
  PROVE  StepOf(w, [IdleRun EXCEPT !.pc = "read", !.job = j, !.runAt = now])
  <1> DEFINE new == [IdleRun EXCEPT !.pc = "read", !.job = j, !.runAt = now]
  <1>0. now \in Int
    BY DEF TypeOK
  <1>1. new \in Run /\ LocalsSet(new)
    BY <1>0, IdleTyped DEF Run, LocalsSet
  <1>2. worker' = [worker EXCEPT ![w] = new]
    BY DEF Begin
  <1> QED BY <1>1, <1>2 DEF StepOf

LEMMA GetLastRunAtStep ==
  ASSUME TypeOK, NEW w \in Workers, GetLastRunAt(w)
  PROVE  StepOf(w, [worker[w] EXCEPT !.pc = "params", !.left = Params,
                                     !.last = mem[worker[w].job]])
  <1> DEFINE new == [worker[w] EXCEPT !.pc = "params", !.left = Params,
                                      !.last = mem[worker[w].job]]
  <1>1. worker[w] \in Run /\ mem[worker[w].job] \in Int \cup {None}
    BY DEF TypeOK, Run
  <1>2. new \in Run /\ LocalsSet(new)
    BY <1>1 DEF Run, LocalsSet
  <1>3. worker' = [worker EXCEPT ![w] = new]
    BY DEF GetLastRunAt, TypeOK
  <1> QED BY <1>2, <1>3 DEF StepOf

LEMMA WindowSinceTyped ==
  ASSUME TypeOK, NEW last \in Int \cup {None}
  PROVE  WindowSince(last) \in Int
  BY WindowAssumption DEF WindowSince, TypeOK

LEMMA NextParamStep ==
  ASSUME TypeOK, NEW w \in Workers, NEW p \in Params, NextParam(w, p)
  PROVE  StepOf(w, [worker[w] EXCEPT !.pc = "query", !.left = @ \ {p},
                       !.param = p, !.since = WindowSince(worker[w].last)])
  <1> DEFINE new == [worker[w] EXCEPT !.pc = "query", !.left = @ \ {p},
                       !.param = p, !.since = WindowSince(worker[w].last)]
  <1>1. worker[w] \in Run /\ WindowSince(worker[w].last) \in Int
    BY WindowSinceTyped DEF TypeOK, Run
  <1>2. new \in Run /\ LocalsSet(new)
    BY <1>1 DEF Run, LocalsSet
  <1>3. worker' = [worker EXCEPT ![w] = new]
    BY DEF NextParam, TypeOK
  <1> QED BY <1>2, <1>3 DEF StepOf

LEMMA CreateStep ==
  ASSUME TypeOK, NEW w \in Workers, NEW i \in RowIds, worker[w].pc = "hits",
         worker' = [worker EXCEPT ![w].pc = "create", ![w].row = i]
  PROVE  StepOf(w, [worker[w] EXCEPT !.pc = "create", !.row = i])
  <1> DEFINE new == [worker[w] EXCEPT !.pc = "create", !.row = i]
  <1>1. worker[w] \in Run /\ worker[w].param \in Params
    BY DEF TypeOK, LocalsSet
  <1>2. new \in Run /\ LocalsSet(new)
    BY <1>1 DEF Run, LocalsSet
  <1>3. worker' = [worker EXCEPT ![w] = new]
    BY DEF TypeOK
  <1> QED BY <1>2, <1>3 DEF StepOf

LEMMA SetLastRunAtStep ==
  ASSUME TypeOK, NEW w \in Workers, SetLastRunAt(w)
  PROVE  StepOf(w, [worker[w] EXCEPT !.pc = "persist", !.last = None])
  <1> DEFINE new == [worker[w] EXCEPT !.pc = "persist", !.last = None]
  <1>1. worker[w] \in Run
    BY DEF TypeOK
  <1>2. new \in Run /\ LocalsSet(new)
    BY <1>1 DEF Run, LocalsSet
  <1>3. worker' = [worker EXCEPT ![w] = new]
    BY DEF SetLastRunAt, TypeOK
  <1> QED BY <1>2, <1>3 DEF StepOf

\* Every step keeps the types.
LEMMA NextTyped == ASSUME TypeOK, [Next]_vars PROVE TypeOK'
  <1>1. CASE Clock
    BY <1>1 DEF Clock, TypeOK
  <1>2. ASSUME NEW i \in RowIds, NEW delay \in 0 .. MaxDelay, NEW bad \in RowKinds,
               InsertRow(i, delay, bad)
        PROVE  TypeOK'
    <2>1. [ts |-> now - delay, bad |-> bad] \in Row
      BY WindowAssumption DEF Row, TypeOK
    <2> QED BY <1>2, <2>1 DEF InsertRow, TypeOK
  <1>3. CASE Schedule
    BY <1>3 DEF Schedule, LoadLastRun, TypeOK
  <1>4. CASE Restart
    BY <1>4, IdleTyped DEF Restart, LoadLastRun, TypeOK
  <1>5. ASSUME NEW w \in Workers, NEW j \in Jobs, Begin(w, j) PROVE TypeOK'
    <2> DEFINE new == [IdleRun EXCEPT !.pc = "read", !.job = j, !.runAt = now]
    <2>1. StepOf(w, new)
      BY <1>5, BeginStep
    <2> HIDE DEF new
    <2> QED BY <1>5, <2>1, RunTyped DEF StepOf, Begin, TypeOK
  <1>6. ASSUME NEW w \in Workers, Execute(w) PROVE TypeOK'
    <2>0. worker[w] \in Run /\ LocalsSet(worker[w])
      BY DEF TypeOK
    <2>1. CASE GetLastRunAt(w)
      BY <2>1, GetLastRunAtStep, RunTyped DEF StepOf, GetLastRunAt, TypeOK
    <2>2. CASE \E p \in Params : NextParam(w, p)
      <3>1. PICK p \in Params : NextParam(w, p)
        BY <2>2
      <3>2. start' \in Int
        BY <2>0, <3>1, WindowSinceTyped DEF NextParam, TypeOK, Run
      <3> QED BY <3>1, <3>2, NextParamStep, RunTyped DEF StepOf, NextParam, TypeOK
    <2>3. CASE FetchSamples(w)
      <3>0. worker[w].param \in Params
        BY <2>0, <2>3 DEF FetchSamples, LocalsSet
      <3>1. ASSUME NEW rows \in FetchRecentRows(worker[w].since)
            PROVE  rows \subseteq RowIds
        BY DEF FetchRecentRows, Newest, Window
      <3>2. seen' \subseteq RowIds \X Params
        BY <2>3, <3>0, <3>1 DEF FetchSamples, TypeOK
      <3>3. PICK hits \in SUBSET RowIds : Handle(w, hits)
        BY <2>3, <3>1 DEF FetchSamples
      <3>4. StepOf(w, HandleRun(worker[w], hits))
        BY <3>0, <3>3, HandleTyped DEF StepOf
      <3> QED BY <2>3, <3>2, <3>4, RunTyped DEF StepOf, FetchSamples, TypeOK
    <2>4. CASE \E i \in RowIds : CheckCooldown(w, i)
      <3>1. PICK i \in RowIds : CheckCooldown(w, i)
        BY <2>4
      <3>2. CASE Handle(w, worker[w].hits \ {i})
        <4>1. StepOf(w, HandleRun(worker[w], worker[w].hits \ {i}))
          BY <2>0, <3>1, <3>2, HandleTyped DEF StepOf, CheckCooldown, LocalsSet, Run
        <4> QED BY <3>1, <4>1, RunTyped DEF StepOf, CheckCooldown, TypeOK
      <3>3. CASE worker' = [worker EXCEPT ![w].pc = "create", ![w].row = i]
        BY <3>1, <3>3, CreateStep, RunTyped DEF StepOf, CheckCooldown, TypeOK
      <3> QED BY <3>1, <3>2, <3>3 DEF CheckCooldown
    <2>5. CASE CreateAlert(w)
      <3>0. worker[w].param \in Params /\ worker[w].row \in RowIds
        BY <2>0, <2>5 DEF CreateAlert, LocalsSet
      <3>1. StepOf(w, HandleRun(worker[w], worker[w].hits \ {worker[w].row}))
        BY <2>0, <2>5, <3>0, HandleTyped DEF StepOf, CreateAlert, Run
      <3>2. alerts' \subseteq [row : RowIds, param : Params, ts : Int, by : Workers]
        BY <2>5, <3>0 DEF CreateAlert, Alert, TypeOK
      <3> QED BY <2>5, <3>1, <3>2, RunTyped DEF StepOf, CreateAlert, TypeOK
    <2>6. CASE SetLastRunAt(w)
      <3>1. mem' \in [Jobs -> Int \cup {None}]
        BY <2>0, <2>6 DEF SetLastRunAt, TypeOK, Run
      <3> QED BY <2>6, <3>1, SetLastRunAtStep, RunTyped
             DEF StepOf, SetLastRunAt, Overtake, TypeOK
    <2>7. CASE UpdateLastRunAt(w)
      <3>1. db' \in Int \cup {None}
        BY <2>0, <2>7 DEF UpdateLastRunAt, TypeOK, Run
      <3> QED BY <2>7, <3>1, IdleTyped, RunTyped DEF UpdateLastRunAt, TypeOK
    <2> QED BY <1>6, <2>1, <2>2, <2>3, <2>4, <2>5, <2>6, <2>7 DEF Execute
  <1>7. CASE UNCHANGED vars
    BY <1>7 DEF vars, TypeOK
  <1> QED BY <1>1, <1>2, <1>3, <1>4, <1>5, <1>6, <1>7 DEF Next

\* Type correctness of the runs: the locals a run reads were set before, and
\* every alert is about a row and a parameter, whatever faults happen.
THEOREM WindowTypeCorrect == Spec => []TypeOK
  BY InitTyped, NextTyped, PTL DEF Spec

-----------------------------------------------------------------------------
\* What only grows: the clock, what was fetched and the start of the first
\* window; rows are added with the current time or later, and kept.
Grows ==
    /\ now <= now' /\ start <= start' /\ seen \subseteq seen'
    /\ \A i \in RowIds :
          /\ table'[i] # None => table'[i] = table[i] \/ table'[i].ts >= now
          /\ table[i] # None => table'[i] = table[i]

LEMMA NextGrows ==
  ASSUME Reliable, TypeOK, TimesInv, Next
  PROVE  Grows
  <1>1. now \in Int /\ start \in Int
    BY DEF TypeOK
  <1>2. ASSUME NEW i \in RowIds, NEW delay \in 0 .. MaxDelay, NEW bad \in RowKinds,
               InsertRow(i, delay, bad)
        PROVE  Grows
    BY <1>1, <1>2 DEF InsertRow, Reliable, Grows, TypeOK
  <1>3. ASSUME NEW w \in Workers, NEW p \in Params, NextParam(w, p) PROVE Grows
    BY <1>1, <1>3 DEF NextParam, WindowSince, TimesInv, Grows
  <1>4. ASSUME NEW w \in Workers, FetchSamples(w) PROVE Grows
    <2>1. UNCHANGED <<now, table, start>> /\ seen \subseteq seen'
      BY <1>4 DEF FetchSamples
    <2> QED BY <1>1, <2>1 DEF Grows
  <1>5. CASE Clock \/ Schedule \/ Restart
    BY <1>1, <1>5 DEF Clock, Schedule, Restart, Grows
  <1>6. ASSUME NEW w \in Workers,
               \/ \E j \in Jobs : Begin(w, j)
               \/ GetLastRunAt(w) \/ \E i \in RowIds : CheckCooldown(w, i)
               \/ CreateAlert(w) \/ SetLastRunAt(w) \/ UpdateLastRunAt(w)
        PROVE  Grows
    <2>1. UNCHANGED <<now, table, start, seen>>
      BY <1>6 DEF Begin, GetLastRunAt, CheckCooldown, CreateAlert, SetLastRunAt,
            UpdateLastRunAt
    <2> QED BY <1>1, <2>1 DEF Grows
  <1> QED BY <1>2, <1>3, <1>4, <1>5, <1>6 DEF Next, Execute

\* What was fetched up to a past moment stays fetched up to that moment.
LEMMA FetchedKept ==
  ASSUME TypeOK, TypeOK', Grows, NEW p \in Params, NEW t \in Int, t <= now,
         Fetched(table, seen, start, p, t)
  PROVE  Fetched(table', seen', start', p, t)
  <1> SUFFICES ASSUME NEW i \in RowIds, table'[i] # None,
                      start' <= table'[i].ts, table'[i].ts < t
               PROVE  <<i, p>> \in seen' \/ CutOff(table', seen', i, p)
    BY DEF Fetched
  <1>1. now \in Int /\ start \in Int /\ start' \in Int /\ table'[i].ts \in Int
    BY DEF TypeOK, Row
  <1>2. table'[i] = table[i]
    BY <1>1 DEF Grows
  <1>3. <<i, p>> \in seen \/ CutOff(table, seen, i, p)
    BY <1>1, <1>2 DEF Fetched, Grows
  <1>4. CASE <<i, p>> \in seen
    BY <1>4 DEF Grows
  <1>5. CASE CutOff(table, seen, i, p)
    <2>1. PICK s \in SUBSET RowIds :
             /\ Cardinality(s) = Limit
             /\ \A k \in s : /\ <<k, p>> \in seen
                             /\ table[k] # None /\ table[k].ts >= table[i].ts
      BY <1>5 DEF CutOff
    <2>2. \A k \in s : /\ <<k, p>> \in seen'
                      /\ table'[k] # None /\ table'[k].ts >= table'[i].ts
      BY <1>2, <2>1 DEF Grows
    <2> QED BY <2>1, <2>2 DEF CutOff
  <1> QED BY <1>3, <1>4, <1>5

\* The invariant of a run that does not move is kept.
LEMMA RunKept ==
  ASSUME TypeOK, TypeOK', Grows, NEW w \in Workers, RunInv(worker[w]),
         worker'[w] = worker[w]
  PROVE  RunInv(worker[w])'
  <1> DEFINE run == worker[w]
  <1>1. run \in Run /\ LocalsSet(run) /\ now \in Int /\ now' \in Int /\ now <= now'
    BY DEF TypeOK, Grows
  <1>2. run.runAt \in Int /\ run.runAt <= now /\ run.runAt <= now'
    BY <1>1 DEF RunInv, Run
  <1>3. \A p \in Params : Fetched(table, seen, start, p, run.runAt)
                            => Fetched(table', seen', start', p, run.runAt)
    BY <1>2, FetchedKept
  <1>4. run.last # None => /\ run.last <= now'
                           /\ \A p \in Params : Fetched(table', seen', start', p, run.last)
    BY <1>1, FetchedKept DEF RunInv, Run, FetchedUpTo
  <1>5. run.pc = "query" => /\ run.since <= now'
                            /\ Fetched(table', seen', start', run.param, run.since)
    BY <1>1, FetchedKept DEF RunInv, Run, FetchedUpTo, LocalsSet
  <1> QED BY <1>2, <1>3, <1>4, <1>5 DEF RunInv, FetchedUpTo

\* A run that moved to new, and the others as they were.
LEMMA RunMoved ==
  ASSUME TypeOK, TypeOK', Grows, \A v \in Workers : RunInv(worker[v]),
         NEW w \in Workers, RunInv(worker[w])',
         \A v \in Workers \ {w} : worker'[v] = worker[v]
  PROVE  \A v \in Workers : RunInv(worker[v])'
  <1> SUFFICES ASSUME NEW v \in Workers, v # w PROVE RunInv(worker[v])'
    OBVIOUS
  <1> QED BY RunKept

\* What was an interval ago stays one.
LEMMA StillEarlier ==
  ASSUME NEW t \in Int, NEW n \in Int, NEW m \in Int, NEW d \in Int,
         t <= n - d, n <= m
  PROVE  t <= m - d
  OBVIOUS

\* The times stay behind the clock.
LEMMA TimesKept ==
  ASSUME Inv, Reliable, TypeOK', Next
  PROVE  TimesInv'
  <1>0. TypeOK /\ TimesInv /\ \A w \in Workers : RunInv(worker[w])
    BY DEF Inv
  <1>1. now \in Int /\ now' \in Int /\ now <= now' /\ start \in Int /\ Interval \in Int
    BY <1>0, NextGrows, WindowAssumption DEF Grows, TypeOK
  <1>2. start' <= now' - Interval
    <2>0. start <= now - Interval
      BY <1>0 DEF TimesInv
    <2>1. CASE start' = start
      <3> QED BY <1>1, <2>0, <2>1, StillEarlier
    <2>2. CASE start' # start
      <3>0. PICK w \in Workers : Execute(w)
        BY <2>2 DEF Next, Clock, InsertRow, Schedule, Restart, Begin
      <3>1. PICK p \in Params : NextParam(w, p)
        BY <2>2, <3>0 DEF Execute, GetLastRunAt, FetchSamples, CheckCooldown,
              CreateAlert, SetLastRunAt, UpdateLastRunAt
      <3>2. start' = now - Interval /\ now' = now
        BY <2>2, <3>1 DEF NextParam, WindowSince
      <3> QED BY <1>1, <3>2
    <2> QED BY <2>1, <2>2
  <1>3. \A i \in RowIds : table'[i] # None => table'[i].ts <= now'
    <2>1. CASE table' = table
      BY <1>0, <1>1, <2>1 DEF TimesInv, TypeOK, Row
    <2>2. CASE table' # table
      <3>1. PICK i \in RowIds, delay \in 0 .. MaxDelay, bad \in RowKinds :
               InsertRow(i, delay, bad)
        BY <2>2 DEF Next, Clock, Schedule, Restart, Begin, Execute,
              GetLastRunAt, NextParam, FetchSamples, CheckCooldown, CreateAlert,
              SetLastRunAt, UpdateLastRunAt
      <3>2. delay = 0 /\ now' = now
        BY <3>1 DEF Reliable, InsertRow
      <3>3. \A k \in RowIds : table'[k] = IF k = i THEN [ts |-> now - delay, bad |-> bad]
                                           ELSE table[k]
        BY <1>0, <3>1 DEF InsertRow, TypeOK
      <3> QED BY <1>0, <1>1, <3>2, <3>3 DEF TimesInv
    <2> QED BY <2>1, <2>2
  <1>4. \A j \in Jobs : mem'[j] # None => mem'[j] <= now'
    <2>1. CASE mem' = mem
      BY <1>0, <1>1, <2>1 DEF TimesInv, TypeOK
    <2>2. CASE Schedule \/ Restart
      BY <1>0, <1>1, <2>2 DEF Schedule, Restart, LoadLastRun, TimesInv, TypeOK
    <2>3. CASE \E w \in Workers : SetLastRunAt(w)
      BY <1>0, <1>1, <2>3 DEF SetLastRunAt, TimesInv, TypeOK, RunInv
    <2> QED BY <2>1, <2>2, <2>3 DEF Next, Clock, InsertRow, Begin, Execute,
          GetLastRunAt, NextParam, FetchSamples, CheckCooldown, CreateAlert,
          UpdateLastRunAt
  <1>5. db' # None => db' <= now'
    <2>1. CASE db' = db
      BY <1>0, <1>1, <2>1 DEF TimesInv, TypeOK
    <2>2. CASE \E w \in Workers : UpdateLastRunAt(w)
      BY <1>0, <1>1, <2>2 DEF UpdateLastRunAt, TimesInv, TypeOK, RunInv, Run
    <2> QED BY <2>1, <2>2 DEF Next, Clock, InsertRow, Schedule, Restart, Begin,
          Execute, GetLastRunAt, NextParam, FetchSamples, CheckCooldown,
          CreateAlert, SetLastRunAt
  <1> QED BY <1>2, <1>3, <1>4, <1>5 DEF TimesInv

\* The rows before the times in the jobs and in the database stay fetched.
LEMMA SkippedKept ==
  ASSUME Inv, Reliable, TypeOK', Next
  PROVE  NoRowSkipped'
  <1>0. TypeOK /\ TimesInv /\ NoRowSkipped /\ Grows /\ \A w \in Workers : RunInv(worker[w])
    BY NextGrows DEF Inv
  <1> SUFFICES ASSUME NEW p \in Params
               PROVE  /\ \A j \in Jobs : mem'[j] # None
                              => Fetched(table', seen', start', p, mem'[j])
                      /\ db' # None => Fetched(table', seen', start', p, db')
    BY DEF NoRowSkipped, FetchedUpTo
  <1>1. \A j \in Jobs : mem[j] # None => Fetched(table', seen', start', p, mem[j])
    BY <1>0, FetchedKept DEF NoRowSkipped, FetchedUpTo, TimesInv, TypeOK
  <1>2. db # None => Fetched(table', seen', start', p, db)
    BY <1>0, FetchedKept DEF NoRowSkipped, FetchedUpTo, TimesInv, TypeOK
  <1>3. \A w \in Workers : Fetched(table, seen, start, p, worker[w].runAt)
                => Fetched(table', seen', start', p, worker[w].runAt)
    BY <1>0, FetchedKept DEF RunInv, TypeOK, Run
  <1>4. \A j \in Jobs : mem'[j] # None => Fetched(table', seen', start', p, mem'[j])
    <2>1. CASE mem' = mem
      BY <1>1, <2>1
    <2>2. CASE Schedule \/ Restart
      BY <1>0, <1>1, <1>2, <2>2 DEF Schedule, Restart, LoadLastRun, TypeOK
    <2>3. ASSUME NEW w \in Workers, SetLastRunAt(w)
          PROVE  \A j \in Jobs : mem'[j] # None => Fetched(table', seen', start', p, mem'[j])
      <3>1. Fetched(table, seen, start, p, worker[w].runAt)
        BY <1>0, <2>3 DEF SetLastRunAt, RunInv, FetchedUpTo
      <3>2. \A j \in Jobs : mem'[j] = IF j = worker[w].job THEN worker[w].runAt ELSE mem[j]
        BY <1>0, <2>3 DEF SetLastRunAt, TypeOK
      <3> QED BY <1>1, <1>3, <3>1, <3>2
    <2> QED BY <2>1, <2>2, <2>3 DEF Next, Clock, InsertRow, Begin, Execute,
          GetLastRunAt, NextParam, FetchSamples, CheckCooldown, CreateAlert,
          UpdateLastRunAt
  <1>5. db' # None => Fetched(table', seen', start', p, db')
    <2>1. CASE db' = db
      BY <1>2, <2>1
    <2>2. ASSUME NEW w \in Workers, UpdateLastRunAt(w)
          PROVE  db' # None => Fetched(table', seen', start', p, db')
      <3>1. Fetched(table, seen, start, p, worker[w].runAt)
        BY <1>0, <2>2 DEF UpdateLastRunAt, RunInv, FetchedUpTo
      <3> QED BY <1>2, <1>3, <2>2, <3>1 DEF UpdateLastRunAt
    <2> QED BY <2>1, <2>2 DEF Next, Clock, InsertRow, Schedule, Restart, Begin,
          Execute, GetLastRunAt, NextParam, FetchSamples, CheckCooldown,
          CreateAlert, SetLastRunAt
  <1> QED BY <1>4, <1>5

\* A run that has handled its query keeps its start and what is left.
LEMMA HandleFields ==
  ASSUME NEW run \in Run, NEW hits
  PROVE  /\ HandleRun(run, hits).pc \in {"params", "hits"}
         /\ HandleRun(run, hits).runAt = run.runAt
         /\ HandleRun(run, hits).last = run.last
         /\ HandleRun(run, hits).left = run.left
  <1> DEFINE param == IF hits = {} THEN None ELSE run.param
             pc == IF hits = {} THEN "params" ELSE "hits"
  <1>1. pc \in {"params", "hits"}
    OBVIOUS
  <1>2. HandleRun(run, hits) = [run EXCEPT !.hits = hits, !.row = None, !.since = 0,
                                           !.param = param, !.pc = pc]
    BY DEF HandleRun
  <1> HIDE DEF param, pc
  <1> QED BY <1>1, <1>2 DEF Run

\* A query fetches every row of its window, or as many as its limit, all as
\* new as those it leaves.
LEMMA QueryFetchesNewest ==
  ASSUME NEW since, NEW rows \in Newest(Window(since), Limit),
         NEW i \in Window(since)
  PROVE  /\ rows \subseteq Window(since)
         /\ \/ i \in rows
            \/ /\ Cardinality(rows) = Limit
               /\ \A k \in rows : table[i].ts <= table[k].ts
  BY DEF Newest

\* Every step of a run keeps its invariant, and that of the other runs.
LEMMA RunsKept ==
  ASSUME Inv, Reliable, TypeOK', Next
  PROVE  \A w \in Workers : RunInv(worker[w])'
  <1>0. TypeOK /\ TimesInv /\ NoRowSkipped /\ Grows /\ \A w \in Workers : RunInv(worker[w])
    BY NextGrows DEF Inv
  <1>a. /\ now \in Int /\ now' \in Int /\ now <= now' /\ start \in Int /\ 0 <= now'
        /\ \A w \in Workers : worker[w] \in Run /\ LocalsSet(worker[w])
    BY <1>0 DEF TypeOK, Grows
  <1>1. CASE UNCHANGED worker
    BY <1>0, <1>1, RunKept
  <1>2. CASE Restart
    <2> SUFFICES ASSUME NEW w \in Workers PROVE RunInv(worker[w])'
      OBVIOUS
    <2>1. worker'[w] = IdleRun
      BY <1>2 DEF Restart
    <2> QED BY <1>a, <2>1 DEF RunInv, IdleRun
  <1>3. ASSUME NEW w \in Workers, NEW new, StepOf(w, new),
               RunInv(worker[w])'
        PROVE  \A v \in Workers : RunInv(worker[v])'
    BY <1>0, <1>3, RunMoved, RunTyped DEF StepOf
  <1>4. ASSUME NEW w \in Workers, NEW new, StepOf(w, new) PROVE worker'[w] = new
    BY <1>0, <1>4, RunTyped DEF StepOf
  <1>5. ASSUME NEW w \in Workers, NEW j \in Jobs, Begin(w, j)
        PROVE  \A v \in Workers : RunInv(worker[v])'
    <2> DEFINE new == [IdleRun EXCEPT !.pc = "read", !.job = j, !.runAt = now]
    <2>1. StepOf(w, new)
      BY <1>0, <1>5, BeginStep
    <2>2. new.pc = "read" /\ new.runAt = now /\ new.last = None
      BY <1>a DEF IdleRun
    <2> HIDE DEF new
    <2>3. RunInv(worker[w])'
      BY <1>4, <1>a, <2>1, <2>2 DEF RunInv
    <2> QED BY <1>3, <2>1, <2>3
  <1>6. ASSUME NEW w \in Workers, GetLastRunAt(w)
        PROVE  \A v \in Workers : RunInv(worker[v])'
    <2> DEFINE run == worker[w]
               new == [run EXCEPT !.pc = "params", !.left = Params, !.last = mem[run.job]]
    <2>1. StepOf(w, new)
      BY <1>0, <1>6, GetLastRunAtStep
    <2>2. /\ new.pc = "params" /\ new.runAt = run.runAt /\ new.last = mem[run.job]
          /\ new.left = Params
      BY <1>a DEF Run
    <2>3. run.job \in Jobs /\ run.runAt <= now /\ run.runAt \in Int
      BY <1>0, <1>a DEF Run, RunInv
    <2>4. UNCHANGED <<table, seen, start, now>>
      BY <1>6 DEF GetLastRunAt
    <2>5. new.last # None => /\ new.last <= now
                             /\ \A p \in Params : Fetched(table, seen, start, p, new.last)
      BY <1>0, <2>2, <2>3 DEF NoRowSkipped, TimesInv, FetchedUpTo
    <2> HIDE DEF new
    <2>6. RunInv(worker[w])'
      BY <1>4, <1>a, <2>1, <2>2, <2>3, <2>4, <2>5 DEF RunInv, FetchedUpTo
    <2> QED BY <1>3, <2>1, <2>6
  <1>7. ASSUME NEW w \in Workers, NEW p \in Params, NextParam(w, p)
        PROVE  \A v \in Workers : RunInv(worker[v])'
    <2> DEFINE run == worker[w]
               new == [run EXCEPT !.pc = "query", !.left = @ \ {p}, !.param = p,
                                  !.since = WindowSince(run.last)]
    <2>1. StepOf(w, new)
      BY <1>0, <1>7, NextParamStep
    <2>2. /\ new.pc = "query" /\ new.runAt = run.runAt /\ new.last = run.last
          /\ new.left = run.left \ {p} /\ new.param = p
          /\ new.since = WindowSince(run.last)
      BY <1>a DEF Run
    <2>3. UNCHANGED <<table, seen, now>> /\ run.pc = "params"
      BY <1>7 DEF NextParam
    <2>4. run.runAt \in Int /\ run.runAt <= now' /\ run.last \in Int \cup {None}
      BY <1>0, <1>a, <2>3 DEF Run, RunInv
    <2>5. \A q \in Params : Fetched(table, seen, start, q, run.runAt)
                               => Fetched(table', seen', start', q, run.runAt)
      BY <1>0, <2>3, <2>4, FetchedKept
    <2>6. run.last # None => /\ run.last <= now'
                             /\ \A q \in Params : Fetched(table', seen', start', q, run.last)
      BY <1>0, <2>3, <2>4, FetchedKept DEF RunInv, FetchedUpTo
    <2>7. new.since <= now' /\ Fetched(table', seen', start', p, new.since)
      <3>1. CASE run.last # None
        BY <2>2, <2>6, <3>1 DEF WindowSince
      <3>2. CASE run.last = None
        <4>1. start' = now - Interval /\ new.since = now - Interval
          BY <1>7, <2>2, <3>2 DEF NextParam, WindowSince
        <4>2. \A i \in RowIds : table'[i] # None => table'[i].ts \in Int
          BY DEF TypeOK, Row
        <4> QED BY <1>a, <2>3, <4>1, <4>2, WindowAssumption DEF Fetched
      <3> QED BY <3>1, <3>2
    <2>8. \A q \in Params \ new.left :
             Fetched(table', seen', start', q, new.runAt) \/ q = p
      BY <1>0, <2>2, <2>3, <2>5 DEF RunInv, FetchedUpTo
    <2> HIDE DEF new
    <2>9. RunInv(worker[w])'
      BY <1>4, <2>1, <2>2, <2>4, <2>6, <2>7, <2>8 DEF RunInv, FetchedUpTo
    <2> QED BY <1>3, <2>1, <2>9
  <1>8. ASSUME NEW w \in Workers, NEW new, StepOf(w, new), UNCHANGED <<table, seen, start, now>>,
               new.pc \in {"params", "hits", "create"},
               worker[w].pc \in {"hits", "create"},
               new.runAt = worker[w].runAt, new.last = worker[w].last,
               new.left = worker[w].left
        PROVE  \A v \in Workers : RunInv(worker[v])'
    <2>1. RunInv(worker[w])'
      BY <1>0, <1>4, <1>8 DEF RunInv, FetchedUpTo
    <2> QED BY <1>3, <1>8, <2>1
  <1>9. ASSUME NEW w \in Workers, FetchSamples(w)
        PROVE  \A v \in Workers : RunInv(worker[v])'
    <2> DEFINE run == worker[w]
    <2>0. PICK rows \in Newest(Window(run.since), Limit) :
             /\ seen' = seen \cup (rows \X {run.param})
             /\ Handle(w, {i \in rows : run.param \in table[i].bad})
      BY <1>9 DEF FetchSamples, FetchRecentRows, Reliable
    <2> DEFINE hits == {i \in rows : run.param \in table[i].bad}
               new == HandleRun(run, hits)
    <2>1. /\ seen' = seen \cup (rows \X {run.param}) /\ Handle(w, hits)
          /\ UNCHANGED <<table, start, now>> /\ run.pc = "query"
      BY <1>9, <2>0 DEF FetchSamples
    <2>b. rows \subseteq Window(run.since) /\ rows \in SUBSET RowIds
      BY DEF FetchRecentRows, Newest, Window
    <2>2. run \in Run /\ run.param \in Params /\ run.since \in Int /\ run.runAt \in Int
      BY <1>a, <2>1 DEF LocalsSet, Run
    <2>3. StepOf(w, new)
      <3>1. hits \in SUBSET RowIds
        BY <2>b
      <3> QED BY <1>0, <2>1, <2>2, <3>1, HandleTyped DEF StepOf
    <2>4. /\ new.pc \in {"params", "hits"} /\ new.runAt = run.runAt
          /\ new.last = run.last /\ new.left = run.left
      BY <2>2, HandleFields
    <2>5. \A q \in Params : Fetched(table, seen, start, q, run.runAt)
                               => Fetched(table', seen', start', q, run.runAt)
      BY <1>0, <2>2, FetchedKept DEF RunInv
    <2>6. run.last # None => /\ run.last <= now'
                             /\ \A q \in Params : Fetched(table', seen', start', q, run.last)
      BY <1>0, <2>1, <2>2, FetchedKept DEF RunInv, FetchedUpTo, Run
    <2>7. Fetched(table', seen', start', run.param, run.runAt)
      <3> SUFFICES ASSUME NEW i \in RowIds, table[i] # None, start <= table[i].ts
                   PROVE  <<i, run.param>> \in seen' \/ CutOff(table, seen', i, run.param)
        BY <2>1 DEF Fetched
      <3>1. table[i].ts \in Int /\ Truncated(run.since) \in Int
                /\ Truncated(run.since) <= run.since
        BY <1>0, <2>2, TruncatedBefore DEF TypeOK, Row
      <3>2. CASE table[i].ts < run.since
        <4>1. <<i, run.param>> \in seen \/ CutOff(table, seen, i, run.param)
          BY <1>0, <2>1, <3>2 DEF RunInv, FetchedUpTo, Fetched
        <4> QED BY <2>1, <4>1 DEF CutOff
      <3>3. CASE table[i].ts >= run.since
        <4>1. table[i].ts >= Truncated(run.since)
          BY <2>2, <3>1, <3>3
        <4>2. i \in Window(run.since)
          BY <4>1 DEF Window
        <4>3. CASE i \in rows
          BY <2>1, <4>3
        <4>4. CASE /\ Cardinality(rows) = Limit
                   /\ \A k \in rows : table[i].ts <= table[k].ts
          <5>1. \A k \in rows : /\ <<k, run.param>> \in seen'
                               /\ table[k] # None /\ table[k].ts \in Int
            BY <1>0, <2>1, <2>b DEF Window, TypeOK, Row
          <5>2. \A k \in rows : table[k].ts >= table[i].ts
            BY <3>1, <4>4, <5>1
          <5> QED BY <2>b, <4>4, <5>1, <5>2 DEF CutOff
        <4> QED BY <4>2, <4>3, <4>4, QueryFetchesNewest
      <3> QED BY <2>2, <3>1, <3>2, <3>3
    <2>8. \A q \in Params \ run.left : Fetched(table', seen', start', q, run.runAt)
      BY <1>0, <2>1, <2>5, <2>7 DEF RunInv, FetchedUpTo
    <2>9. run.runAt <= now'
      BY <1>0, <2>1 DEF RunInv
    <2> HIDE DEF new
    <2>10. RunInv(worker[w])'
      BY <1>4, <2>3, <2>4, <2>6, <2>8, <2>9 DEF RunInv, FetchedUpTo
    <2> QED BY <1>3, <2>3, <2>10
  <1>10. ASSUME NEW w \in Workers, NEW i \in RowIds, CheckCooldown(w, i)
         PROVE  \A v \in Workers : RunInv(worker[v])'
    <2>1. /\ UNCHANGED <<table, seen, start, now>> /\ worker[w].pc = "hits"
          /\ worker[w] \in Run /\ worker[w].param \in Params
      BY <1>10, <1>a DEF CheckCooldown, LocalsSet
    <2>2. CASE Handle(w, worker[w].hits \ {i})
      <3>1. worker[w].hits \ {i} \in SUBSET RowIds
        BY <2>1 DEF Run
      <3>2. StepOf(w, HandleRun(worker[w], worker[w].hits \ {i}))
        BY <1>0, <2>1, <2>2, <3>1, HandleTyped DEF StepOf
      <3> QED BY <1>8, <2>1, <3>2, HandleFields
    <2>3. CASE worker' = [worker EXCEPT ![w].pc = "create", ![w].row = i]
      <3> DEFINE new == [worker[w] EXCEPT !.pc = "create", !.row = i]
      <3>1. StepOf(w, new)
        BY <1>0, <2>1, <2>3, CreateStep
      <3>2. /\ new.pc = "create" /\ new.runAt = worker[w].runAt
            /\ new.last = worker[w].last /\ new.left = worker[w].left
        BY <2>1 DEF Run
      <3> HIDE DEF new
      <3> QED BY <1>8, <2>1, <3>1, <3>2
    <2> QED BY <1>10, <2>2, <2>3 DEF CheckCooldown
  <1>11. ASSUME NEW w \in Workers, CreateAlert(w)
         PROVE  \A v \in Workers : RunInv(worker[v])'
    <2> DEFINE hits == worker[w].hits \ {worker[w].row}
    <2>1. /\ UNCHANGED <<table, seen, start, now>> /\ worker[w].pc = "create"
          /\ worker[w] \in Run /\ worker[w].param \in Params /\ Handle(w, hits)
      BY <1>11, <1>a DEF CreateAlert, LocalsSet
    <2>2. hits \in SUBSET RowIds
      BY <2>1 DEF Run
    <2>3. StepOf(w, HandleRun(worker[w], hits))
      BY <1>0, <2>1, <2>2, HandleTyped DEF StepOf
    <2> QED BY <1>8, <2>1, <2>3, HandleFields
  <1>12. ASSUME NEW w \in Workers, SetLastRunAt(w)
         PROVE  \A v \in Workers : RunInv(worker[v])'
    <2> DEFINE run == worker[w]
               new == [run EXCEPT !.pc = "persist", !.last = None]
    <2>1. StepOf(w, new)
      BY <1>0, <1>12, SetLastRunAtStep
    <2>2. new.pc = "persist" /\ new.runAt = run.runAt /\ new.last = None
      BY <1>a DEF Run
    <2>3. UNCHANGED <<table, seen, start, now>> /\ run.pc = "params" /\ run.left = {}
      BY <1>12 DEF SetLastRunAt
    <2> HIDE DEF new
    <2>4. RunInv(worker[w])'
      BY <1>0, <1>4, <2>1, <2>2, <2>3 DEF RunInv, FetchedUpTo
    <2> QED BY <1>3, <2>1, <2>4
  <1>13. ASSUME NEW w \in Workers, UpdateLastRunAt(w)
         PROVE  \A v \in Workers : RunInv(worker[v])'
    <2>1. StepOf(w, IdleRun)
      BY <1>13, IdleTyped DEF UpdateLastRunAt, StepOf
    <2>2. RunInv(worker[w])'
      BY <1>4, <1>a, <2>1 DEF RunInv, IdleRun
    <2> QED BY <1>3, <2>1, <2>2
  <1>14. CASE Clock \/ Schedule \/ \E i \in RowIds, delay \in 0 .. MaxDelay, bad \in RowKinds :
                                        InsertRow(i, delay, bad)
    BY <1>1, <1>14 DEF Clock, Schedule, InsertRow
  <1> QED BY <1>2, <1>5, <1>6, <1>7, <1>9, <1>10, <1>11, <1>12, <1>13, <1>14
          DEF Next, Execute

LEMMA InitInv == Init => Inv
  <1> SUFFICES ASSUME Init PROVE Inv
    OBVIOUS
  <1>1. TypeOK
    BY InitTyped
  <1>2. TimesInv /\ NoRowSkipped
    BY WindowAssumption DEF Init, TimesInv, NoRowSkipped
  <1>3. \A w \in Workers : RunInv(worker[w])
    BY DEF Init, RunInv, IdleRun
  <1> QED BY <1>1, <1>2, <1>3 DEF Inv

\* The inductive invariant of the windows, when rows are on time and queries
\* succeed.
THEOREM WindowInvariant == Reliable => (Spec => []Inv)
  <1> SUFFICES ASSUME Reliable PROVE Spec => []Inv
    OBVIOUS
  <1>1. Init => Inv
    BY InitInv
  <1>2. Inv /\ [Next]_vars => Inv'
    <2> SUFFICES ASSUME Inv, [Next]_vars PROVE Inv'
      OBVIOUS
    <2>1. TypeOK'
      BY NextTyped DEF Inv
    <2>2. CASE Next
      BY <2>1, <2>2, TimesKept, SkippedKept, RunsKept DEF Inv
    <2>3. CASE UNCHANGED vars
      BY <2>1, <2>3 DEF vars, Inv, TimesInv, NoRowSkipped, RunInv, FetchedUpTo
    <2> QED BY <2>2, <2>3
  <1> QED BY <1>1, <1>2, PTL DEF Spec

\* No row falls between two windows, and the limit of a query drops the oldest
\* rows only, whatever the workers, reschedulings, restarts and failed writes
\* do.
THEOREM WindowNoRowSkipped == Reliable => (Spec => []NoRowSkipped)
  <1>1. Inv => NoRowSkipped
    BY DEF Inv
  <1> QED BY <1>1, WindowInvariant, PTL

-----------------------------------------------------------------------------
\* Every step keeps the alerts of each worker a cooldown apart.
LEMMA CooldownKept ==
  ASSUME LookupsWork, CooldownInv, TypeOK', Next
  PROVE  CooldownInv'
  <1> DEFINE Own(w, p) == {a \in alerts : a.param = p /\ a.by = w}
             Apart(w) == worker'[w].pc = "create" =>
                            \A a \in Own(w, worker'[w].param) : now' - a.ts >= Cooldown
  <1>0. /\ TypeOK /\ \A a \in alerts : a.ts <= now /\ a.ts \in Int
        /\ now \in Int /\ now' \in Int /\ Cooldown \in Int
        /\ \A w \in Workers : worker[w] \in Run
    BY WindowAssumption DEF CooldownInv, TypeOK
  <1>1. now <= now'
    <2>1. CASE Clock
      BY <1>0, <2>1 DEF Clock
    <2>2. CASE now' = now
      BY <1>0, <2>2
    <2> QED BY <2>1, <2>2 DEF Next, InsertRow, Schedule, Restart, Begin, Execute,
          GetLastRunAt, NextParam, FetchSamples, CheckCooldown, CreateAlert,
          SetLastRunAt, UpdateLastRunAt
  \* the workers that do not move, and the one that does
  <1>2. ASSUME NEW v \in Workers, worker'[v] = worker[v] PROVE Apart(v)
    <2>1. worker[v].pc = "create" =>
             \A a \in Own(v, worker[v].param) : now - a.ts >= Cooldown
      BY DEF CooldownInv
    <2> QED BY <1>0, <1>1, <1>2, <2>1
  <1>3. ASSUME UNCHANGED alerts, \A w \in Workers : Apart(w)
        PROVE  CooldownInv'
    <2>1. \A a \in alerts' : a.ts <= now'
      BY <1>0, <1>1, <1>3
    <2>2. \A a, b \in alerts' :
             a # b /\ a.param = b.param /\ a.by = b.by /\ a.ts <= b.ts
                 => b.ts - a.ts >= Cooldown
      BY <1>3 DEF CooldownInv
    <2>3. \A w \in Workers : worker'[w].pc = "create" =>
             \A a \in alerts' :
                 a.param = worker'[w].param /\ a.by = w => now' - a.ts >= Cooldown
      BY <1>3
    <2> QED BY <2>1, <2>2, <2>3 DEF CooldownInv
  <1>4. ASSUME NEW w \in Workers, CreateAlert(w) PROVE CooldownInv'
    <2> DEFINE run == worker[w]
               alert == [row |-> run.row, param |-> run.param, ts |-> now, by |-> w]
    <2>1. /\ run.pc = "create" /\ now' = now
          /\ alerts' = alerts \cup {alert} \/ alerts' = alerts
      BY <1>4 DEF CreateAlert, Alert
    <2>2. \A a \in alerts : a.param = run.param /\ a.by = w => now - a.ts >= Cooldown
      BY <2>1 DEF CooldownInv
    <2>3. alert.param = run.param /\ alert.ts = now /\ alert.by = w
      OBVIOUS
    <2> HIDE DEF alert
    <2>4. \A a \in alerts' : a.ts <= now'
      BY <1>0, <2>1, <2>3
    <2>5. ASSUME NEW a \in alerts', NEW b \in alerts', a # b, a.param = b.param,
                 a.by = b.by, a.ts <= b.ts
          PROVE  b.ts - a.ts >= Cooldown
      <3>1. CASE a \in alerts /\ b \in alerts
        BY <2>5, <3>1 DEF CooldownInv
      <3>2. CASE a \in alerts /\ b = alert
        BY <2>2, <2>3, <2>5, <3>2
      <3>3. CASE a = alert /\ b \in alerts
        \* b is no later than now, so the two would be at the same time
        <4>1. b.ts <= now /\ b.ts \in Int /\ now - b.ts >= Cooldown /\ a.ts = now
          BY <1>0, <2>2, <2>3, <2>5, <3>3
        <4>2. b.ts = now
          BY <1>0, <2>5, <4>1
        <4> QED BY <1>0, <4>1, <4>2
      <3> QED BY <2>1, <2>5, <3>1, <3>2, <3>3
    <2>6. worker'[w].pc # "create" /\ \A v \in Workers \ {w} : worker'[v] = worker[v]
      <3>1. Handle(w, run.hits \ {run.row}) /\ run.param \in Params
        BY <1>0, <1>4 DEF CreateAlert, TypeOK, LocalsSet
      <3>2. run.hits \ {run.row} \in SUBSET RowIds
        BY <1>0 DEF Run
      <3>3. worker' = [worker EXCEPT ![w] = HandleRun(run, run.hits \ {run.row})]
        BY <1>0, <3>1, <3>2, HandleTyped
      <3>4. worker'[w] = HandleRun(run, run.hits \ {run.row})
        BY <1>0, <3>3 DEF TypeOK
      <3>5. worker'[w].pc \in {"params", "hits"}
        BY <1>0, <3>4, HandleFields
      <3> QED BY <1>0, <3>3, <3>5 DEF TypeOK
    <2>7. ASSUME NEW v \in Workers, worker'[v].pc = "create", NEW a \in alerts',
                 a.param = worker'[v].param, a.by = v
          PROVE  now' - a.ts >= Cooldown
      <3>1. v # w
        BY <2>6, <2>7
      <3>2. a \in alerts /\ Apart(v)
        BY <1>2, <2>1, <2>3, <2>6, <2>7, <3>1
      <3> QED BY <2>7, <3>2
    <2> QED BY <2>4, <2>5, <2>7 DEF CooldownInv
  <1>5. ASSUME NEW w \in Workers, NEW new \in Run, UNCHANGED alerts,
               worker' = [worker EXCEPT ![w] = new],
               new.pc = "create" =>
                  \A a \in Own(w, new.param) : now' - a.ts >= Cooldown
        PROVE  CooldownInv'
    <2>1. worker'[w] = new /\ \A v \in Workers \ {w} : worker'[v] = worker[v]
      BY <1>0, <1>5 DEF TypeOK
    <2>2. \A v \in Workers : Apart(v)
      BY <1>2, <1>5, <2>1
    <2> QED BY <1>3, <1>5, <2>2
  <1>6. ASSUME NEW w \in Workers, NEW new \in Run, new.pc # "create", UNCHANGED alerts,
               worker' = [worker EXCEPT ![w] = new]
        PROVE  CooldownInv'
    BY <1>5, <1>6
  <1>7. ASSUME NEW w \in Workers, NEW i \in RowIds, CheckCooldown(w, i) PROVE CooldownInv'
    <2>1. UNCHANGED <<alerts, now>> /\ worker[w].pc = "hits" /\ worker[w].param \in Params
      BY <1>0, <1>7 DEF CheckCooldown, TypeOK, LocalsSet
    <2>2. CASE Handle(w, worker[w].hits \ {i})
      <3>1. worker[w].hits \ {i} \in SUBSET RowIds
        BY <1>0 DEF Run
      <3>2. StepOf(w, HandleRun(worker[w], worker[w].hits \ {i}))
        BY <1>0, <2>1, <2>2, <3>1, HandleTyped DEF StepOf
      <3>3. HandleRun(worker[w], worker[w].hits \ {i}).pc # "create"
        BY <1>0, HandleFields
      <3> QED BY <1>6, <2>1, <3>2, <3>3 DEF StepOf
    <2>3. CASE /\ worker' = [worker EXCEPT ![w].pc = "create", ![w].row = i]
               /\ ~WithinCooldown(worker[w].param)
      <3> DEFINE new == [worker[w] EXCEPT !.pc = "create", !.row = i]
      <3>1. \A a \in alerts : a.param = worker[w].param => now - a.ts >= Cooldown
        BY <1>0, <2>3 DEF WithinCooldown
      <3>2. StepOf(w, new) /\ new.param = worker[w].param
        BY <1>0, <2>1, <2>3, CreateStep DEF Run
      <3> HIDE DEF new
      <3>3. \A a \in Own(w, new.param) : now' - a.ts >= Cooldown
        BY <2>1, <3>1, <3>2
      <3> QED BY <1>5, <2>1, <3>2, <3>3 DEF StepOf
    <2> QED BY <1>7, <2>2, <2>3 DEF CheckCooldown, LookupsWork
  <1>8. ASSUME NEW w \in Workers, NEW j \in Jobs, Begin(w, j) PROVE CooldownInv'
    <2> DEFINE new == [IdleRun EXCEPT !.pc = "read", !.job = j, !.runAt = now]
    <2>1. StepOf(w, new) /\ UNCHANGED alerts
      BY <1>0, <1>8, BeginStep DEF Begin
    <2>2. new.pc = "read"
      BY DEF IdleRun
    <2> HIDE DEF new
    <2> QED BY <1>6, <2>1, <2>2 DEF StepOf
  <1>9. ASSUME NEW w \in Workers,
               \/ GetLastRunAt(w) \/ \E p \in Params : NextParam(w, p)
               \/ FetchSamples(w) \/ SetLastRunAt(w) \/ UpdateLastRunAt(w)
        PROVE  CooldownInv'
    <2>1. UNCHANGED alerts
      BY <1>9 DEF GetLastRunAt, NextParam, FetchSamples, SetLastRunAt, UpdateLastRunAt
    <2>2. CASE GetLastRunAt(w)
      <3> DEFINE new == [worker[w] EXCEPT !.pc = "params", !.left = Params,
                                          !.last = mem[worker[w].job]]
      <3>1. StepOf(w, new) /\ new.pc = "params"
        BY <1>0, <2>2, GetLastRunAtStep DEF Run
      <3> HIDE DEF new
      <3> QED BY <1>6, <2>1, <3>1 DEF StepOf
    <2>3. ASSUME NEW p \in Params, NextParam(w, p) PROVE CooldownInv'
      <3> DEFINE new == [worker[w] EXCEPT !.pc = "query", !.left = @ \ {p},
                            !.param = p, !.since = WindowSince(worker[w].last)]
      <3>1. StepOf(w, new) /\ new.pc = "query"
        BY <1>0, <2>3, NextParamStep DEF Run
      <3> HIDE DEF new
      <3> QED BY <1>6, <2>1, <3>1 DEF StepOf
    <2>4. CASE FetchSamples(w)
      <3>0. worker[w].param \in Params
        BY <1>0, <2>4 DEF FetchSamples, TypeOK, LocalsSet
      <3>1. ASSUME NEW rows \in FetchRecentRows(worker[w].since)
            PROVE  rows \subseteq RowIds
        BY DEF FetchRecentRows, Newest, Window
      <3>2. PICK hits \in SUBSET RowIds : Handle(w, hits)
        BY <2>4, <3>1 DEF FetchSamples
      <3>3. StepOf(w, HandleRun(worker[w], hits))
        BY <1>0, <3>0, <3>2, HandleTyped DEF StepOf
      <3>4. HandleRun(worker[w], hits).pc # "create"
        BY <1>0, HandleFields
      <3> QED BY <1>6, <2>1, <3>3, <3>4 DEF StepOf
    <2>5. CASE SetLastRunAt(w)
      <3> DEFINE new == [worker[w] EXCEPT !.pc = "persist", !.last = None]
      <3>1. StepOf(w, new) /\ new.pc = "persist"
        BY <1>0, <2>5, SetLastRunAtStep DEF Run
      <3> HIDE DEF new
      <3> QED BY <1>6, <2>1, <3>1 DEF StepOf
    <2>6. CASE UpdateLastRunAt(w)
      <3>1. IdleRun \in Run /\ IdleRun.pc # "create"
        BY IdleTyped DEF IdleRun
      <3> QED BY <1>6, <2>1, <2>6, <3>1 DEF UpdateLastRunAt
    <2> QED BY <1>9, <2>2, <2>3, <2>4, <2>5, <2>6
  <1>10. CASE Restart
    <2>1. \A w \in Workers : worker'[w].pc = "idle"
      BY <1>10 DEF Restart, IdleRun
    <2> QED BY <1>3, <1>10, <2>1 DEF Restart
  <1>11. CASE Clock \/ Schedule \/ \E i \in RowIds, delay \in 0 .. MaxDelay, bad \in RowKinds :
                                        InsertRow(i, delay, bad)
    <2>1. UNCHANGED <<alerts, worker>>
      BY <1>11 DEF Clock, Schedule, InsertRow
    <2> QED BY <1>2, <1>3, <2>1
  <1> QED BY <1>4, <1>7, <1>8, <1>9, <1>10, <1>11 DEF Next, Execute

\* Alerts in one cooldown are by different workers.
LEMMA OvershootFromInv ==
  ASSUME LookupsWork, CooldownInv PROVE CooldownOvershootBounded
  <1> SUFFICES ASSUME NEW a \in alerts
               PROVE  Cardinality(InCooldownOf(a)) <= Cardinality(Workers)
    BY DEF CooldownOvershootBounded
  <1> DEFINE S == InCooldownOf(a)
             writer == [b \in S |-> b.by]
  <1>0. /\ S \subseteq alerts /\ Cooldown \in Int
        /\ \A b \in alerts : b.ts \in Int /\ b.by \in Workers
    BY WindowAssumption DEF CooldownInv, TypeOK, InCooldownOf
  <1>1. ASSUME NEW b \in S, NEW c \in S, b.by = c.by PROVE b = c
    <2>1. /\ b.param = a.param /\ c.param = a.param
          /\ a.ts <= b.ts /\ b.ts - a.ts < Cooldown
          /\ a.ts <= c.ts /\ c.ts - a.ts < Cooldown
          /\ b \in alerts /\ c \in alerts
      BY DEF InCooldownOf
    <2>2. /\ b # c /\ b.ts <= c.ts => c.ts - b.ts >= Cooldown
          /\ c # b /\ c.ts <= b.ts => b.ts - c.ts >= Cooldown
      BY <1>1, <2>1 DEF CooldownInv
    <2> QED BY <1>0, <2>1, <2>2
  <1>2. writer \in Injection(S, Workers)
    BY <1>0, <1>1 DEF Injection, IsInjective
  <1> HIDE DEF writer
  <1>3. IsFiniteSet(Workers)
    BY DEF LookupsWork
  <1> HIDE DEF S
  <1>4. Cardinality(S) <= Cardinality(Workers)
    BY <1>2, <1>3, FS_Injection
  <1> QED BY <1>4 DEF S

\* The alerts a parameter has in one cooldown are at most as many as there are
\* workers, over reschedulings, restarts and every fault but a failed lookup
\* of the last alert, for any number of workers.
THEOREM WindowCooldown == LookupsWork => (Spec => []CooldownOvershootBounded)
  <1> SUFFICES ASSUME LookupsWork PROVE Spec => []CooldownOvershootBounded
    OBVIOUS
  <1>1. Init => CooldownInv
    <2> SUFFICES ASSUME Init PROVE CooldownInv
      OBVIOUS
    <2>1. TypeOK
      BY InitTyped
    <2> QED BY <2>1 DEF Init, CooldownInv, IdleRun
  <1>2. CooldownInv /\ [Next]_vars => CooldownInv'
    <2> SUFFICES ASSUME CooldownInv, [Next]_vars PROVE CooldownInv'
      OBVIOUS
    <2>1. TypeOK'
      BY NextTyped DEF CooldownInv
    <2>2. CASE UNCHANGED vars
      BY <2>1, <2>2 DEF vars, CooldownInv
    <2> QED BY <2>1, <2>2, CooldownKept
  <1>3. CooldownInv => CooldownOvershootBounded
    BY OvershootFromInv
  <1> QED BY <1>1, <1>2, <1>3, PTL DEF Spec

-----------------------------------------------------------------------------
\* Times that stay do not go back.
LEMMA SameTimes == ASSUME AdvanceInv, UNCHANGED <<mem, db>> PROVE TimesAdvance
  <1>1. db \in Int \cup {None} /\ \A j \in Jobs : mem[j] \in Int \cup {None}
    BY DEF AdvanceInv, TypeOK
  <1>2. \A t \in Int : t >= t
    OBVIOUS
  <1> QED BY <1>1, <1>2 DEF TimesAdvance

\* No step but one of an overtaken run moves a time back, and the runs that
\* are not overtaken start after every time stored.
LEMMA AdvanceKept ==
  ASSUME AdvanceInv, TypeOK', Next
  PROVE  AdvanceInv' /\ (TimesAdvance \/ \E w \in overtaken : worker'[w] # worker[w])
  <1> DEFINE Goal == AdvanceInv' /\ (TimesAdvance \/ \E w \in overtaken : worker'[w] # worker[w])
             Ahead(r) == /\ db' # None => db' <= r.runAt
                         /\ \A j \in Jobs : mem'[j] # None => mem'[j] <= r.runAt
                         /\ \A v \in Workers : worker'[v].pc = "persist" =>
                                                  worker'[v].runAt <= r.runAt
  <1>0. /\ TypeOK /\ now \in Int /\ now' \in Int /\ 0 <= now /\ job \in Int /\ Jobs \subseteq Int
        /\ db \in Int \cup {None} /\ \A j \in Jobs : mem[j] \in Int \cup {None}
        /\ \A w \in Workers : worker[w] \in Run /\ worker[w].runAt \in Int
                              /\ worker[w].job \in Jobs /\ worker[w].job \in Int
        /\ \A w \in Workers : worker'[w] \in Run
        /\ None \notin Int
    <2>1. TypeOK
      BY DEF AdvanceInv
    <2>2. \A w \in Workers : worker[w] \in Run /\ worker'[w] \in Run
      BY <2>1 DEF TypeOK
    <2>3. \A w \in Workers : worker[w].runAt \in Int /\ worker[w].job \in Jobs
      BY <2>2 DEF Run
    <2>4. Jobs \subseteq Int /\ None \notin Int
      BY WindowAssumption
    <2>5. /\ now \in Int /\ now' \in Int /\ 0 <= now /\ job \in Int /\ db \in Int \cup {None}
          /\ \A j \in Jobs : mem[j] \in Int \cup {None}
      BY <2>1, <2>4 DEF TypeOK
    <2> QED BY <2>1, <2>2, <2>3, <2>4, <2>5
  <1>1. CASE Clock
    <2>1. now' = now + 1 /\ UNCHANGED <<job, live, mem, db, worker, overtaken>>
      BY <1>1 DEF Clock
    <2>2. TimesAdvance
      BY <2>1, SameTimes
    <2>3. AdvanceInv'
      BY <1>0, <2>1 DEF AdvanceInv
    <2> QED BY <2>2, <2>3
  <1>2. ASSUME NEW i \in RowIds, NEW delay \in 0 .. MaxDelay, NEW bad \in RowKinds,
               InsertRow(i, delay, bad)
        PROVE  Goal
    <2>1. UNCHANGED <<now, job, live, mem, db, worker, overtaken>>
      BY <1>2 DEF InsertRow
    <2>2. TimesAdvance
      BY <2>1, SameTimes
    <2>3. AdvanceInv'
      BY <2>1 DEF AdvanceInv
    <2> QED BY <2>2, <2>3
  <1>3. CASE Schedule \/ Restart
    <2>1. /\ job' = job + 1 /\ job + 1 \in Jobs /\ UNCHANGED <<now, db>>
          /\ \A j \in live' : j <= job' /\ j \in Jobs
      BY <1>0, <1>3 DEF Schedule, Restart, AdvanceInv, TypeOK
    <2>2. \A j \in Jobs : \/ j = job + 1 /\ (mem'[j] = db \/ mem'[j] = None)
                          \/ j # job + 1 /\ mem'[j] = mem[j]
      BY <1>0, <1>3, <2>1 DEF Schedule, Restart, LoadLastRun, TypeOK
    <2>3. mem[job + 1] = None
      BY <1>0, <2>1 DEF AdvanceInv
    <2>4. \/ UNCHANGED <<worker, overtaken>>
          \/ \A w \in Workers : worker'[w] = IdleRun
      BY <1>3 DEF Schedule, Restart
    <2>5. IdleRun.job = 1 /\ IdleRun.pc = "idle" /\ IdleRun.runAt = 0
      BY DEF IdleRun
    <2>6. TimesAdvance
      <3>1. db # None => db' # None /\ db' >= db
        BY <1>0, <2>1
      <3>2. \A j \in Jobs : mem[j] # None => mem'[j] = mem[j] /\ mem[j] \in Int
        BY <1>0, <2>2, <2>3
      <3>3. \A j \in Jobs : mem[j] # None => mem'[j] # None /\ mem'[j] >= mem[j]
        BY <3>2
      <3> QED BY <3>1, <3>3 DEF TimesAdvance
    <2>7. \A j \in Jobs : /\ j > job' => mem'[j] = None
                          /\ mem'[j] # None => mem'[j] <= now'
      <3> SUFFICES ASSUME NEW j \in Jobs
                   PROVE  /\ j > job' => mem'[j] = None
                          /\ mem'[j] # None => mem'[j] <= now'
        OBVIOUS
      <3>1. CASE j = job + 1 /\ (mem'[j] = db \/ mem'[j] = None)
        BY <1>0, <2>1, <3>1 DEF AdvanceInv
      <3>2. CASE j # job + 1 /\ mem'[j] = mem[j]
        BY <1>0, <2>1, <3>2 DEF AdvanceInv
      <3> QED BY <2>2, <3>1, <3>2
    <2>8. \A w \in Workers : worker'[w].job <= job' /\ worker'[w].runAt <= now'
      BY <1>0, <2>1, <2>4, <2>5 DEF AdvanceInv
    <2>9. ASSUME NEW w \in Workers \ overtaken', worker'[w].pc # "idle"
          PROVE  Ahead(worker'[w])
      <3>1. UNCHANGED <<worker, overtaken>>
        BY <2>4, <2>5, <2>9
      <3>2. /\ db # None => db <= worker[w].runAt
            /\ \A j \in Jobs : mem[j] # None => mem[j] <= worker[w].runAt
            /\ \A v \in Workers : worker[v].pc = "persist" =>
                                     worker[v].runAt <= worker[w].runAt
        BY <2>9, <3>1 DEF AdvanceInv
      <3>3. \A j \in Jobs : mem'[j] # None => mem'[j] <= worker[w].runAt
        BY <2>2, <3>2
      <3> QED BY <2>1, <3>1, <3>2, <3>3
    <2>10. 1 <= job' /\ (db' # None => db' <= now')
      BY <1>0, <2>1 DEF AdvanceInv
    <2>11. AdvanceInv'
      BY <2>1, <2>7, <2>8, <2>9, <2>10 DEF AdvanceInv
    <2> QED BY <2>6, <2>11
  \* a step of the run of w, which stores nothing
  <1>4. ASSUME NEW w \in Workers, NEW new \in Run, StepOf(w, new),
               UNCHANGED <<now, job, live, mem, db, overtaken>>,
               new.pc # "persist", new.job <= job, new.runAt <= now,
               \/ worker[w].pc # "idle" /\ new.runAt = worker[w].runAt
               \/ new.runAt = now
        PROVE  Goal
    <2>1. worker'[w] = new /\ \A v \in Workers \ {w} : worker'[v] = worker[v]
      BY <1>0, <1>4 DEF StepOf, TypeOK
    <2>2. TimesAdvance
      BY <1>4, SameTimes
    <2>3. \A v \in Workers : worker'[v].job <= job' /\ worker'[v].runAt <= now'
      BY <1>4, <2>1 DEF AdvanceInv
    <2>4. \A v \in Workers : worker'[v].pc = "persist" => worker'[v] = worker[v]
      BY <1>4, <2>1
    <2>5. ASSUME NEW u \in Workers \ overtaken', worker'[u].pc # "idle"
          PROVE  Ahead(worker'[u])
      <3>1. CASE worker[u].pc # "idle" /\ worker'[u].runAt = worker[u].runAt
        BY <1>4, <2>4, <2>5, <3>1 DEF AdvanceInv
      <3>2. CASE worker'[u].runAt = now
        BY <1>4, <2>4, <3>2 DEF AdvanceInv
      <3> QED BY <1>4, <2>1, <2>5, <3>1, <3>2
    <2>6. AdvanceInv'
      BY <1>4, <2>3, <2>5 DEF AdvanceInv
    <2> QED BY <2>2, <2>6
  <1>5. ASSUME NEW w \in Workers, NEW j \in Jobs, Begin(w, j) PROVE Goal
    <2> DEFINE new == [IdleRun EXCEPT !.pc = "read", !.job = j, !.runAt = now]
    <2>1. UNCHANGED <<now, job, live, mem, db, overtaken>> /\ j \in live /\ StepOf(w, new)
      BY <1>0, <1>5, BeginStep DEF Begin
    <2>2. new.job = j /\ new.runAt = now /\ new.pc = "read"
      BY DEF IdleRun
    <2> HIDE DEF new
    <2>3. j <= job
      BY <2>1 DEF AdvanceInv
    <2>4. new \in Run /\ new.pc # "persist" /\ new.runAt <= now
      BY <1>0, <2>1, <2>2 DEF StepOf
    <2> QED BY <1>4, <2>1, <2>2, <2>3, <2>4
  <1>6. ASSUME NEW w \in Workers, NEW new \in Run, StepOf(w, new), worker[w].pc # "idle",
               UNCHANGED <<now, job, live, mem, db, overtaken>>,
               new.pc # "persist", new.job = worker[w].job, new.runAt = worker[w].runAt
        PROVE  Goal
    <2>1. worker[w].job <= job /\ worker[w].runAt <= now
      BY DEF AdvanceInv
    <2> QED BY <1>4, <1>6, <2>1
  <1>7. ASSUME NEW w \in Workers, GetLastRunAt(w) PROVE Goal
    <2> DEFINE new == [worker[w] EXCEPT !.pc = "params", !.left = Params,
                                        !.last = mem[worker[w].job]]
    <2>1. /\ StepOf(w, new) /\ new.pc = "params"
          /\ new.job = worker[w].job /\ new.runAt = worker[w].runAt
      BY <1>0, <1>7, GetLastRunAtStep DEF Run
    <2>2. UNCHANGED <<now, job, live, mem, db, overtaken>> /\ worker[w].pc # "idle"
      BY <1>7 DEF GetLastRunAt
    <2> HIDE DEF new
    <2> QED BY <1>6, <2>1, <2>2 DEF StepOf
  <1>8. ASSUME NEW w \in Workers, NEW p \in Params, NextParam(w, p) PROVE Goal
    <2> DEFINE new == [worker[w] EXCEPT !.pc = "query", !.left = @ \ {p},
                          !.param = p, !.since = WindowSince(worker[w].last)]
    <2>1. /\ StepOf(w, new) /\ new.pc = "query"
          /\ new.job = worker[w].job /\ new.runAt = worker[w].runAt
      BY <1>0, <1>8, NextParamStep DEF Run
    <2>2. UNCHANGED <<now, job, live, mem, db, overtaken>> /\ worker[w].pc # "idle"
      BY <1>8 DEF NextParam
    <2> HIDE DEF new
    <2> QED BY <1>6, <2>1, <2>2 DEF StepOf
  <1>9. ASSUME NEW w \in Workers, NEW hits \in SUBSET RowIds, Handle(w, hits),
               UNCHANGED <<now, job, live, mem, db, overtaken>>,
               worker[w].pc # "idle", worker[w].param \in Params
        PROVE  Goal
    <2>1. StepOf(w, HandleRun(worker[w], hits))
      BY <1>0, <1>9, HandleTyped DEF StepOf
    <2>2. HandleRun(worker[w], hits).job = worker[w].job
      BY <1>0 DEF Run, HandleRun
    <2>3. /\ HandleRun(worker[w], hits).pc # "persist"
          /\ HandleRun(worker[w], hits).runAt = worker[w].runAt
      BY <1>0, HandleFields
    <2> QED BY <1>6, <1>9, <2>1, <2>2, <2>3 DEF StepOf
  <1>10. ASSUME NEW w \in Workers, FetchSamples(w) PROVE Goal
    <2>1. ASSUME NEW rows \in FetchRecentRows(worker[w].since)
          PROVE  rows \subseteq RowIds
      BY DEF FetchRecentRows, Newest, Window
    <2>2. PICK hits \in SUBSET RowIds : Handle(w, hits)
      BY <1>10, <2>1 DEF FetchSamples
    <2>3. /\ UNCHANGED <<now, job, live, mem, db, overtaken>> /\ worker[w].pc # "idle"
          /\ worker[w].param \in Params
      BY <1>0, <1>10 DEF FetchSamples, TypeOK, LocalsSet
    <2> QED BY <1>9, <2>2, <2>3
  <1>11. ASSUME NEW w \in Workers, NEW i \in RowIds, CheckCooldown(w, i) PROVE Goal
    <2>1. /\ UNCHANGED <<now, job, live, mem, db, overtaken>> /\ worker[w].pc = "hits"
          /\ worker[w].param \in Params /\ worker[w].hits \ {i} \in SUBSET RowIds
      BY <1>0, <1>11 DEF CheckCooldown, TypeOK, LocalsSet, Run
    <2>2. CASE Handle(w, worker[w].hits \ {i})
      BY <1>9, <2>1, <2>2
    <2>3. CASE worker' = [worker EXCEPT ![w].pc = "create", ![w].row = i]
      <3> DEFINE new == [worker[w] EXCEPT !.pc = "create", !.row = i]
      <3>1. /\ StepOf(w, new) /\ new.pc = "create"
            /\ new.job = worker[w].job /\ new.runAt = worker[w].runAt
        BY <1>0, <2>1, <2>3, CreateStep DEF Run
      <3> HIDE DEF new
      <3> QED BY <1>6, <2>1, <3>1 DEF StepOf
    <2> QED BY <1>11, <2>2, <2>3 DEF CheckCooldown
  <1>12. ASSUME NEW w \in Workers, CreateAlert(w) PROVE Goal
    <2>1. /\ UNCHANGED <<now, job, live, mem, db, overtaken>> /\ worker[w].pc # "idle"
          /\ worker[w].param \in Params /\ Handle(w, worker[w].hits \ {worker[w].row})
          /\ worker[w].hits \ {worker[w].row} \in SUBSET RowIds
      BY <1>0, <1>12 DEF CreateAlert, TypeOK, LocalsSet, Run
    <2> QED BY <1>9, <2>1
  <1>13. ASSUME NEW w \in Workers, SetLastRunAt(w) PROVE Goal
    <2> DEFINE new == [worker[w] EXCEPT !.pc = "persist", !.last = None]
    <2>1. /\ StepOf(w, new) /\ new.pc = "persist"
          /\ new.job = worker[w].job /\ new.runAt = worker[w].runAt
      BY <1>0, <1>13, SetLastRunAtStep DEF Run
    <2> HIDE DEF new
    <2>2. /\ UNCHANGED <<now, job, live, db>> /\ worker[w].pc = "params"
          /\ mem' = [mem EXCEPT ![worker[w].job] = worker[w].runAt] /\ Overtake(w)
      BY <1>13 DEF SetLastRunAt
    <2>3. worker'[w] = new /\ \A v \in Workers \ {w} : worker'[v] = worker[v]
      BY <1>0, <2>1 DEF StepOf, TypeOK
    <2>4. \A j \in Jobs : \/ mem'[j] = mem[j]
                          \/ j = worker[w].job /\ mem'[j] = worker[w].runAt
      BY <1>0, <2>2 DEF TypeOK
    <2>5. worker[w].job <= job /\ worker[w].runAt <= now
      BY DEF AdvanceInv
    <2>6. \A j \in Jobs : /\ j > job' => mem'[j] = None
                          /\ mem'[j] # None => mem'[j] <= now'
      <3> SUFFICES ASSUME NEW j \in Jobs
                   PROVE  /\ j > job' => mem'[j] = None
                          /\ mem'[j] # None => mem'[j] <= now'
        OBVIOUS
      <3>1. CASE mem'[j] = mem[j]
        BY <2>2, <3>1 DEF AdvanceInv
      <3>2. CASE j = worker[w].job /\ mem'[j] = worker[w].runAt
        BY <1>0, <2>2, <2>5, <3>2
      <3> QED BY <2>4, <3>1, <3>2
    <2>7. \A v \in Workers : worker'[v].job <= job' /\ worker'[v].runAt <= now'
      BY <2>1, <2>2, <2>3, <2>5 DEF AdvanceInv
    <2>8. ASSUME NEW u \in Workers \ overtaken', worker'[u].pc # "idle"
          PROVE  Ahead(worker'[u])
      <3>1. /\ u \notin overtaken /\ worker[u].pc # "idle"
            /\ worker'[u].runAt = worker[u].runAt
        BY <2>1, <2>2, <2>3, <2>8 DEF Overtake
      <3>2. worker[w].runAt <= worker[u].runAt
        BY <1>0, <2>2, <2>8, <3>1 DEF Overtake
      <3>3. /\ db # None => db <= worker[u].runAt
            /\ \A j \in Jobs : mem[j] # None => mem[j] <= worker[u].runAt
            /\ \A v \in Workers : worker[v].pc = "persist" =>
                                     worker[v].runAt <= worker[u].runAt
        BY <3>1 DEF AdvanceInv
      <3>4. \A j \in Jobs : mem'[j] # None => mem'[j] <= worker[u].runAt
        BY <2>4, <3>2, <3>3
      <3>5. \A v \in Workers : worker'[v].pc = "persist" =>
                                  worker'[v].runAt <= worker[u].runAt
        BY <2>1, <2>3, <3>2, <3>3
      <3> QED BY <2>2, <3>1, <3>3, <3>4, <3>5
    <2>9. ASSUME w \notin overtaken PROVE TimesAdvance
      <3>1. \A j \in Jobs : mem[j] # None => mem[j] <= worker[w].runAt
        BY <2>2, <2>9 DEF AdvanceInv
      <3>2. ASSUME NEW j \in Jobs, mem[j] # None
            PROVE  mem'[j] # None /\ mem'[j] >= mem[j]
        BY <1>0, <2>4, <3>1, <3>2
      <3>3. db # None => db' # None /\ db' >= db
        BY <1>0, <2>2
      <3> QED BY <3>2, <3>3 DEF TimesAdvance
    <2>10. worker'[w] # worker[w]
      BY <2>1, <2>2, <2>3
    <2>11. AdvanceInv'
      BY <2>2, <2>6, <2>7, <2>8 DEF AdvanceInv
    <2> QED BY <2>9, <2>10, <2>11
  <1>14. ASSUME NEW w \in Workers, UpdateLastRunAt(w) PROVE Goal
    <2>1. /\ UNCHANGED <<now, job, live, mem>> /\ worker[w].pc = "persist"
          /\ db' = worker[w].runAt \/ db' = db
          /\ worker' = [worker EXCEPT ![w] = IdleRun] /\ overtaken' = overtaken \ {w}
      BY <1>14 DEF UpdateLastRunAt
    <2>2. /\ worker'[w] = IdleRun /\ \A v \in Workers \ {w} : worker'[v] = worker[v]
      BY <1>0, <2>1 DEF TypeOK
    <2>3. IdleRun.pc = "idle" /\ IdleRun.job = 1 /\ IdleRun.runAt = 0
      BY DEF IdleRun
    <2>4. \A v \in Workers : worker'[v].job <= job' /\ worker'[v].runAt <= now'
      BY <1>0, <2>1, <2>2, <2>3 DEF AdvanceInv
    <2>5. ASSUME NEW u \in Workers \ overtaken', worker'[u].pc # "idle"
          PROVE  Ahead(worker'[u])
      <3>1. u # w /\ u \notin overtaken /\ worker'[u] = worker[u]
        BY <2>1, <2>2, <2>3, <2>5
      <3>2. /\ db # None => db <= worker[u].runAt
            /\ \A j \in Jobs : mem[j] # None => mem[j] <= worker[u].runAt
            /\ \A v \in Workers : worker[v].pc = "persist" =>
                                     worker[v].runAt <= worker[u].runAt
        BY <2>5, <3>1 DEF AdvanceInv
      <3>3. \A v \in Workers : worker'[v].pc = "persist" =>
                                  worker'[v].runAt <= worker[u].runAt
        BY <2>2, <2>3, <3>2
      <3> QED BY <2>1, <3>1, <3>2, <3>3
    <2>6. db' # None => db' <= now'
      BY <2>1 DEF AdvanceInv
    <2>7. ASSUME w \notin overtaken PROVE TimesAdvance
      <3>1. db # None => db <= worker[w].runAt
        BY <2>1, <2>7 DEF AdvanceInv
      <3>2. db # None => db' # None /\ db' >= db
        BY <1>0, <2>1, <3>1
      <3> QED BY <1>0, <2>1, <3>2 DEF TimesAdvance
    <2>8. worker'[w] # worker[w]
      BY <2>1, <2>2, <2>3
    <2>9. AdvanceInv'
      BY <2>1, <2>4, <2>5, <2>6 DEF AdvanceInv
    <2> QED BY <2>7, <2>8, <2>9
  <1> QED BY <1>1, <1>2, <1>3, <1>5, <1>7, <1>8, <1>10, <1>11, <1>12, <1>13, <1>14
        DEF Next, Execute

\* A time of the last run, in the database or in a job, goes back only in a
\* step of a run that was in progress when a run that started later stored its
\* time: for any number of workers, reschedulings, restarts and faults.
THEOREM WindowTimesAdvance == Spec => WindowAdvances
  <1>1. Init => AdvanceInv
    <2> SUFFICES ASSUME Init PROVE AdvanceInv
      OBVIOUS
    <2>1. TypeOK
      BY InitTyped
    <2> QED BY <2>1 DEF Init, AdvanceInv, IdleRun
  <1>2. AdvanceInv /\ [Next]_vars =>
            AdvanceInv' /\ [TimesAdvance \/ \E w \in overtaken : worker'[w] # worker[w]]_vars
    <2> SUFFICES ASSUME AdvanceInv, [Next]_vars
                 PROVE  /\ AdvanceInv'
                        /\ \/ TimesAdvance \/ \E w \in overtaken : worker'[w] # worker[w]
                           \/ UNCHANGED vars
      OBVIOUS
    <2>1. TypeOK'
      BY NextTyped DEF AdvanceInv
    <2>2. CASE UNCHANGED vars
      BY <2>1, <2>2 DEF vars, AdvanceInv
    <2> QED BY <2>1, <2>2, AdvanceKept
  <1> QED BY <1>1, <1>2, PTL DEF Spec, WindowAdvances

=============================================================================

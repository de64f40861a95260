------------------------------ MODULE Registry ------------------------------
(***************************************************************************)
(* The job registry of the scheduler service                              *)
(* (services/scheduler-service/internal/scheduler/scheduler.go).           *)
(*                                                                         *)
(* A Registry keeps one Job per rule.  Every Job has a goroutine           *)
(* (runTicker) that turns timer ticks into JobRuns on a bounded channel,   *)
(* and a pool of worker goroutines takes JobRuns off that channel.         *)
(* Schedule, Unschedule and Stop are called by other goroutines (event     *)
(* subscriptions, the admin server, main) and exclude each other with      *)
(* Registry.mu; tickers and workers never take that mutex.                 *)
(*                                                                         *)
(* What a worker does with a run (execute) is the subject of RunWindow;    *)
(* here a run is an interval between Take and Finish.                      *)
(***************************************************************************)
EXTENDS Naturals, Sequences, FiniteSets

CONSTANTS
    Rules,      \* rule identifiers
    Specs,      \* rule specifications, opaque here
    JobIds,     \* addresses of Job objects
    Workers,    \* worker goroutines, WORKER_COUNT of them
    QueueCap,   \* capacity of the queue channel (128 in NewRegistry)
    NoJob,      \* absence of a map entry
    Free,       \* nobody holds Registry.mu
    Idle,       \* worker waiting in its select
    Exited      \* worker goroutine that has returned

ASSUME RegistryAssumption ==
    /\ QueueCap \in Nat \ {0}
    /\ Rules # {} /\ Specs # {}
    /\ NoJob \notin JobIds
    /\ Free \notin Rules \X Specs /\ Free \notin Specs
    /\ Idle \notin Rules \X Specs
    /\ Idle \notin JobIds /\ Exited \notin JobIds /\ Idle # Exited

VARIABLES
    jobs,       \* Registry.jobs
    jobRule,    \* Job.ruleID, by address
    jobSpec,    \* Job.spec, by address
    stop,       \* Job.stop: "none" before the object exists, then a channel
    ticker,     \* where the runTicker goroutine of a Job is
    queue,      \* Registry.queue: the jobs of the buffered JobRuns
    worker,     \* what each worker goroutine executes
    holder,     \* the Schedule call inside Registry.mu between two steps
    main,       \* progress of Registry.Stop
    panicked    \* a closed stop channel was closed again

vars == <<jobs, jobRule, jobSpec, stop, ticker, queue, worker, holder, main,
          panicked>>

-----------------------------------------------------------------------------
TypeOK ==
    /\ jobs \in [Rules -> JobIds \cup {NoJob}]
    /\ jobRule \in [JobIds -> Rules]
    /\ jobSpec \in [JobIds -> Specs]
    /\ stop \in [JobIds -> {"none", "open", "closed"}]
    /\ ticker \in [JobIds -> {"none", "select", "send", "done"}]
    /\ queue \in Seq(JobIds)
    /\ Len(queue) <= QueueCap
    /\ worker \in [Workers -> JobIds \cup {Idle, Exited}]
    /\ holder \in (Rules \X Specs) \cup {Free}
    /\ main \in {"up", "cancelled", "stopped"}
    /\ panicked \in BOOLEAN

\* The fields of an object that does not exist; no definition reads them.
AnyRule == CHOOSE r \in Rules : TRUE
AnySpec == CHOOSE s \in Specs : TRUE

\* NewRegistry: an empty map, an empty channel, every worker in its select.
Init ==
    /\ jobs = [r \in Rules |-> NoJob]
    /\ jobRule = [j \in JobIds |-> AnyRule]
    /\ jobSpec = [j \in JobIds |-> AnySpec]
    /\ stop = [j \in JobIds |-> "none"]
    /\ ticker = [j \in JobIds |-> "none"]
    /\ queue = <<>>
    /\ worker = [w \in Workers |-> Idle]
    /\ holder = Free
    /\ main = "up"
    /\ panicked = FALSE

-----------------------------------------------------------------------------
\* The jobs whose map entry belongs to one of the rules rs.
Registered(rs) == {jobs[r] : r \in rs} \ {NoJob}

\* close(job.stop) for every job in js.  Closing a closed channel panics.
CloseStop(js) ==
    /\ stop' = [j \in JobIds |-> IF j \in js THEN "closed" ELSE stop[j]]
    /\ panicked' = (panicked \/ \E j \in js : stop[j] = "closed")

\* Mutant: Schedule forgets to stop the job it replaces.
ScheduleLockKeepsOld(r, s) ==
    /\ holder = Free
    /\ \E j \in JobIds : stop[j] = "none"
    /\ holder' = <<r, s>>
    /\ UNCHANGED <<jobs, jobRule, jobSpec, stop, ticker, queue, worker, main,
                   panicked>>

\* Schedule up to its database read: the mutex is taken and the job that the
\* new one replaces is told to stop.  The map still holds the old job.
ScheduleLock(r, s) ==
    /\ holder = Free
    /\ \E j \in JobIds : stop[j] = "none"
    /\ holder' = <<r, s>>
    /\ CloseStop(Registered({r}))
    /\ UNCHANGED <<jobs, jobRule, jobSpec, ticker, queue, worker, main>>

\* Mutant: the new Job is built with a rule identifier other than the caller's.
ScheduleInstallWrongRule(j) ==
    /\ holder # Free
    /\ stop[j] = "none"
    /\ jobs' = [jobs EXCEPT ![holder[1]] = j]
    /\ jobRule' = [jobRule EXCEPT ![j] = AnyRule]
    /\ jobSpec' = [jobSpec EXCEPT ![j] = holder[2]]
    /\ stop' = [stop EXCEPT ![j] = "open"]
    /\ ticker' = [ticker EXCEPT ![j] = "select"]
    /\ holder' = Free
    /\ UNCHANGED <<queue, worker, main, panicked>>

\* The rest of Schedule, once GetRule has returned: the new Job is stored, its
\* ticker goroutine started and the mutex released.
ScheduleInstall(j) ==
    /\ holder # Free
    /\ stop[j] = "none"
    /\ jobs' = [jobs EXCEPT ![holder[1]] = j]
    /\ jobRule' = [jobRule EXCEPT ![j] = holder[1]]
    /\ jobSpec' = [jobSpec EXCEPT ![j] = holder[2]]
    /\ stop' = [stop EXCEPT ![j] = "open"]
    /\ ticker' = [ticker EXCEPT ![j] = "select"]
    /\ holder' = Free
    /\ UNCHANGED <<queue, worker, main, panicked>>

\* Mutant: Unschedule closes the channel and leaves the map entry.
UnscheduleKeepsEntry(r) ==
    /\ holder = Free
    /\ jobs[r] # NoJob
    /\ CloseStop(Registered({r}))
    /\ UNCHANGED <<jobs, jobRule, jobSpec, ticker, queue, worker, holder, main>>

Unschedule(r) ==
    /\ holder = Free
    /\ jobs[r] # NoJob
    /\ CloseStop(Registered({r}))
    /\ jobs' = [jobs EXCEPT ![r] = NoJob]
    /\ UNCHANGED <<jobRule, jobSpec, ticker, queue, worker, holder, main>>

\* Stop cancels the context before it asks for the mutex.
StopCancel ==
    /\ main = "up"
    /\ main' = "cancelled"
    /\ UNCHANGED <<jobs, jobRule, jobSpec, stop, ticker, queue, worker, holder,
                   panicked>>

\* Mutant: Stop closes the channels and does not reset the map.
StopJobsKeepsMap ==
    /\ main = "cancelled"
    /\ holder = Free
    /\ CloseStop(Registered(Rules))
    /\ main' = "stopped"
    /\ UNCHANGED <<jobs, jobRule, jobSpec, ticker, queue, worker, holder>>

StopJobs ==
    /\ main = "cancelled"
    /\ holder = Free
    /\ CloseStop(Registered(Rules))
    /\ jobs' = [r \in Rules |-> NoJob]
    /\ main' = "stopped"
    /\ UNCHANGED <<jobRule, jobSpec, ticker, queue, worker, holder>>

-----------------------------------------------------------------------------
\* ticker.C fires.  Nothing prefers the stop channel: when both are ready the
\* select may take either.
Tick(j) ==
    /\ ticker[j] = "select"
    /\ ticker' = [ticker EXCEPT ![j] = "send"]
    /\ UNCHANGED <<jobs, jobRule, jobSpec, stop, queue, worker, holder, main,
                   panicked>>

\* Mutant: the queue channel has no capacity limit.
SendUnbounded(j) ==
    /\ ticker[j] = "send"
    /\ queue' = Append(queue, j)
    /\ ticker' = [ticker EXCEPT ![j] = "select"]
    /\ UNCHANGED <<jobs, jobRule, jobSpec, stop, worker, holder, main,
                   panicked>>

\* Mutant: a tick that finds the queue full is dropped instead of waiting.
SendOrDrop(j) ==
    /\ ticker[j] = "send"
    /\ queue' = IF Len(queue) < QueueCap THEN Append(queue, j) ELSE queue
    /\ ticker' = [ticker EXCEPT ![j] = "select"]
    /\ UNCHANGED <<jobs, jobRule, jobSpec, stop, worker, holder, main,
                   panicked>>

\* The send on the queue channel blocks while the buffer is full and does not
\* watch the stop channel or the context.
Send(j) ==
    /\ ticker[j] = "send"
    /\ Len(queue) < QueueCap
    /\ queue' = Append(queue, j)
    /\ ticker' = [ticker EXCEPT ![j] = "select"]
    /\ UNCHANGED <<jobs, jobRule, jobSpec, stop, worker, holder, main,
                   panicked>>

\* Mutant: runTicker watches the context and not the stop channel.
TickerExitOnContextOnly(j) ==
    /\ ticker[j] = "select"
    /\ main # "up"
    /\ ticker' = [ticker EXCEPT ![j] = "done"]
    /\ UNCHANGED <<jobs, jobRule, jobSpec, stop, queue, worker, holder, main,
                   panicked>>

TickerExit(j) ==
    /\ ticker[j] = "select"
    /\ stop[j] = "closed" \/ main # "up"
    /\ ticker' = [ticker EXCEPT ![j] = "done"]
    /\ UNCHANGED <<jobs, jobRule, jobSpec, stop, queue, worker, holder, main,
                   panicked>>

Take(w) ==
    /\ worker[w] = Idle
    /\ queue # <<>>
    /\ worker' = [worker EXCEPT ![w] = Head(queue)]
    /\ queue' = Tail(queue)
    /\ UNCHANGED <<jobs, jobRule, jobSpec, stop, ticker, holder, main,
                   panicked>>

\* execute returns; jobTimeout bounds every call it makes.
Finish(w) ==
    /\ worker[w] \in JobIds
    /\ worker' = [worker EXCEPT ![w] = Idle]
    /\ UNCHANGED <<jobs, jobRule, jobSpec, stop, ticker, queue, holder, main,
                   panicked>>

WorkerExit(w) ==
    /\ worker[w] = Idle
    /\ main # "up"
    /\ worker' = [worker EXCEPT ![w] = Exited]
    /\ UNCHANGED <<jobs, jobRule, jobSpec, stop, ticker, queue, holder, main,
                   panicked>>

\* The garbage collector takes back a Job nothing refers to.
Collect(j) ==
    /\ stop[j] # "none"
    /\ ticker[j] = "done"
    /\ \A r \in Rules : jobs[r] # j
    /\ \A i \in DOMAIN queue : queue[i] # j
    /\ \A w \in Workers : worker[w] # j
    /\ stop' = [stop EXCEPT ![j] = "none"]
    /\ ticker' = [ticker EXCEPT ![j] = "none"]
    /\ jobRule' = [jobRule EXCEPT ![j] = AnyRule]
    /\ jobSpec' = [jobSpec EXCEPT ![j] = AnySpec]
    /\ UNCHANGED <<jobs, queue, worker, holder, main,
                   panicked>>

-----------------------------------------------------------------------------
Next ==
    \/ \E r \in Rules, s \in Specs : ScheduleLock(r, s)
    \/ \E j \in JobIds : ScheduleInstall(j)
    \/ \E r \in Rules : Unschedule(r)
    \/ StopCancel
    \/ StopJobs
    \/ \E j \in JobIds : Tick(j)
    \/ \E j \in JobIds : Send(j)
    \/ \E j \in JobIds : TickerExit(j)
    \/ \E w \in Workers : Take(w)
    \/ \E w \in Workers : Finish(w)
    \/ \E w \in Workers : WorkerExit(w)
    \/ \E j \in JobIds : Collect(j)

Spec == Init /\ [][Next]_vars

(***************************************************************************)
(* Fairness.  Goroutines that can run do run, a timer keeps firing, and an *)
(* execution ends because jobTimeout bounds it.  A goroutine blocked on a  *)
(* channel send is served in arrival order and a select picks at random    *)
(* among ready cases, so those two are strongly fair.  Schedule,           *)
(* Unschedule and Stop are calls from outside: no fairness.                *)
(***************************************************************************)
Fairness ==
    /\ \A j \in JobIds : /\ WF_vars(Tick(j))
                         /\ SF_vars(Send(j))
                         /\ SF_vars(TickerExit(j))
    /\ \A w \in Workers : /\ WF_vars(Take(w))
                          /\ WF_vars(Finish(w))
                          /\ SF_vars(WorkerExit(w))

FairSpec == Spec /\ Fairness

-----------------------------------------------------------------------------
\* No goroutine ever closes a stop channel twice: Schedule closes the stop
\* channel of the job it replaces while that job is still in the map, and
\* Unschedule and Stop close every job they drop, so each relies on the other
\* callers' having left the map without closed jobs.
NoDoubleClose == ~panicked

\* A job whose stop channel is still open is the one the map holds for its
\* rule, so a ticker that nobody could stop any more never exists, and a rule
\* never has two tickers that both go on.
NoOrphanTicker ==
    \A j \in JobIds : stop[j] = "open" => jobs[jobRule[j]] = j

\* Schedule is between its two steps for rule r.
Replacing(r) == holder # Free /\ holder[1] = r

\* The map entry of a rule is a job of that rule that has not been told to
\* stop, except inside the Schedule call that is about to replace it, and
\* that call has told it to stop.
MapHoldsLiveJobs ==
    \A r \in Rules :
        jobs[r] # NoJob =>
            /\ jobRule[jobs[r]] = r
            /\ stop[jobs[r]] = IF Replacing(r) THEN "closed" ELSE "open"

\* A run in the queue or in a worker belongs to a Job object that exists.
RunsReferToJobs ==
    /\ \A i \in DOMAIN queue : stop[queue[i]] # "none"
    /\ \A w \in Workers : worker[w] \in JobIds => stop[worker[w]] # "none"

\* A ticker goroutine runs exactly for the Job objects that exist, and it has
\* returned only after it was told to.
TickersMatchJobs ==
    \A j \in JobIds :
        /\ ticker[j] = "none" <=> stop[j] = "none"
        /\ ticker[j] = "done" => stop[j] = "closed" \/ main # "up"

\* The inductive invariant behind the five above.
Inv ==
    /\ TypeOK
    /\ NoDoubleClose
    /\ NoOrphanTicker
    /\ MapHoldsLiveJobs
    /\ RunsReferToJobs
    /\ TickersMatchJobs

-----------------------------------------------------------------------------
\* As long as a job stays in the map and the service is not stopping, some
\* worker eventually starts to execute it, however the other tickers and the
\* bounded queue interleave.  The exception is a job that a Schedule call has
\* already closed: that call reads the database without a deadline, and while
\* it hangs the rule has no ticker at all.
RegisteredJobRuns ==
    \A r \in Rules, j \in JobIds :
        jobs[r] = j ~> \/ \E w \in Workers : worker[w] = j
                       \/ jobs[r] # j
                       \/ holder # Free /\ holder[1] = r
                       \/ main # "up"

\* The ticker goroutine of a job that was told to stop returns, even when it
\* was blocked on the full queue at that moment (unless the service stops:
\* then the workers may leave it blocked there).
StoppedTickerReturns ==
    \A j \in JobIds :
        stop[j] = "closed" ~> \/ ticker[j] \in {"done", "none"}
                              \/ main # "up"

\* After Stop every worker returns, although a worker whose select finds both
\* a run and the cancelled context may still take the run.
WorkersReturnAfterStop ==
    main # "up" ~> \A w \in Workers : worker[w] = Exited

\* No goroutine outlives what it is for: neither the ticker of a job that is
\* replaced or removed, nor a worker after Stop (runTicker, worker).
GoroutinesReturn == StoppedTickerReturns /\ WorkersReturnAfterStop

-----------------------------------------------------------------------------
(***************************************************************************)
(* Refinement.  Callers see the registry as a JobMap: the pair a Job       *)
(* object stands for is live while the object exists.                      *)
(***************************************************************************)
Pair(j) == <<jobRule[j], jobSpec[j]>>

AbsSched == [r \in Rules |-> IF jobs[r] = NoJob THEN Free ELSE jobSpec[jobs[r]]]
AbsLive == {Pair(j) : j \in {k \in JobIds : stop[k] # "none"}}
AbsRunning == [w \in Workers |-> IF worker[w] \in JobIds THEN Pair(worker[w])
                                                          ELSE Idle]

Abs == INSTANCE JobMap WITH sched <- AbsSched, live <- AbsLive,
                            running <- AbsRunning, NoSpec <- Free, NoRun <- Idle

\* The goroutines, the queue and the two-step Schedule implement the JobMap:
\* every caller sees Schedule, Unschedule and Stop take effect at once, and a
\* worker only ever executes a rule with a specification that was scheduled
\* for that rule.
ImplementsJobMap == Abs!Spec

=============================================================================

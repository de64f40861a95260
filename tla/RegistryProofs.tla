--------------------------- MODULE RegistryProofs ---------------------------
(***************************************************************************)
(* Proofs about Registry for every number of rules, specifications, jobs   *)
(* and workers and every queue capacity.                                   *)
(***************************************************************************)
EXTENDS Registry, TLAPS

\* The placeholder fields of an object that does not exist are well typed.
LEMMA AnyTyped == AnyRule \in Rules /\ AnySpec \in Specs
  BY RegistryAssumption DEF AnyRule, AnySpec

\* The registry NewRegistry builds satisfies the invariant.
LEMMA InitInv == Init => Inv
  <1> SUFFICES ASSUME Init PROVE Inv
    OBVIOUS
  <1> USE RegistryAssumption, AnyTyped DEF Init
  <1>1. TypeOK
    <2>1. queue \in Seq(JobIds) /\ Len(queue) = 0
      OBVIOUS
    <2>2. Len(queue) <= QueueCap
      BY <2>1
    <2>3. panicked \in BOOLEAN
      OBVIOUS
    <2> QED BY <2>1, <2>2, <2>3 DEF TypeOK
  <1>2. NoDoubleClose
    BY DEF NoDoubleClose
  <1>3. NoOrphanTicker /\ TickersMatchJobs
    BY DEF NoOrphanTicker, TickersMatchJobs
  <1>4. MapHoldsLiveJobs
    BY DEF MapHoldsLiveJobs, Replacing
  <1>5. RunsReferToJobs
    BY DEF RunsReferToJobs
  <1> QED BY <1>1, <1>2, <1>3, <1>4, <1>5 DEF Inv

\* Schedule's first half: the job it closes is the only one of its rule that
\* was open, and the mutex records that the map entry is now a closed job.
LEMMA ScheduleLockInv ==
  ASSUME Inv, NEW r \in Rules, NEW s \in Specs, ScheduleLock(r, s)
  PROVE  Inv'
  <1> USE RegistryAssumption DEF Inv, ScheduleLock, CloseStop, Registered, Replacing
  <1>1. TypeOK'
    BY DEF TypeOK
  <1>2. NoDoubleClose'
    BY DEF TypeOK, NoDoubleClose, MapHoldsLiveJobs
  <1>3. NoOrphanTicker'
    BY DEF TypeOK, NoOrphanTicker
  <1>4. MapHoldsLiveJobs'
    BY DEF TypeOK, MapHoldsLiveJobs
  <1>5. RunsReferToJobs'
    BY DEF TypeOK, RunsReferToJobs
  <1>6. TickersMatchJobs'
    BY DEF TypeOK, TickersMatchJobs, MapHoldsLiveJobs
  <1> QED BY <1>1, <1>2, <1>3, <1>4, <1>5, <1>6 DEF Inv

\* Schedule's second half: the new job takes over the map entry of its rule,
\* whose former job is closed.
LEMMA ScheduleInstallInv ==
  ASSUME Inv, NEW j \in JobIds, ScheduleInstall(j)
  PROVE  Inv'
  <1> USE RegistryAssumption DEF Inv, ScheduleInstall, Replacing
  <1>0. holder[1] \in Rules /\ holder[2] \in Specs
    BY DEF TypeOK
  <1>1. TypeOK'
    BY <1>0 DEF TypeOK
  <1>2. NoDoubleClose'
    BY DEF NoDoubleClose
  <1>3. NoOrphanTicker'
    <2> SUFFICES ASSUME NEW k \in JobIds, stop'[k] = "open"
                 PROVE  jobs'[jobRule'[k]] = k
      BY DEF NoOrphanTicker
    <2>1. CASE k = j
      BY <1>0, <2>1 DEF TypeOK
    <2>2. CASE k # j
      <3>1. stop[k] = "open" /\ jobRule'[k] = jobRule[k]
        BY <2>2 DEF TypeOK
      <3>2. jobs[jobRule[k]] = k /\ jobRule[k] \in Rules
        BY <3>1 DEF TypeOK, NoOrphanTicker
      <3>3. jobRule[k] # holder[1]
        BY <3>1, <3>2, <1>0 DEF TypeOK, MapHoldsLiveJobs
      <3> QED BY <3>1, <3>2, <3>3 DEF TypeOK
    <2> QED BY <2>1, <2>2
  <1>4. MapHoldsLiveJobs'
    BY <1>0 DEF TypeOK, MapHoldsLiveJobs
  <1>5. RunsReferToJobs'
    BY DEF TypeOK, RunsReferToJobs
  <1>6. TickersMatchJobs'
    BY DEF TypeOK, TickersMatchJobs
  <1> QED BY <1>1, <1>2, <1>3, <1>4, <1>5, <1>6 DEF Inv

LEMMA UnscheduleInv ==
  ASSUME Inv, NEW r \in Rules, Unschedule(r)
  PROVE  Inv'
  <1> USE RegistryAssumption DEF Inv, Unschedule, CloseStop, Registered, Replacing
  <1>1. TypeOK'
    BY DEF TypeOK
  <1>2. NoDoubleClose'
    BY DEF TypeOK, NoDoubleClose, MapHoldsLiveJobs
  <1>3. NoOrphanTicker'
    BY DEF TypeOK, NoOrphanTicker, MapHoldsLiveJobs
  <1>4. MapHoldsLiveJobs'
    BY DEF TypeOK, MapHoldsLiveJobs
  <1>5. RunsReferToJobs'
    BY DEF TypeOK, RunsReferToJobs
  <1>6. TickersMatchJobs'
    BY DEF TypeOK, TickersMatchJobs, MapHoldsLiveJobs
  <1> QED BY <1>1, <1>2, <1>3, <1>4, <1>5, <1>6 DEF Inv

LEMMA StopJobsInv ==
  ASSUME Inv, StopJobs
  PROVE  Inv'
  <1> USE RegistryAssumption DEF Inv, StopJobs, CloseStop, Registered, Replacing
  <1>1. TypeOK'
    BY DEF TypeOK
  <1>2. NoDoubleClose'
    BY DEF TypeOK, NoDoubleClose, MapHoldsLiveJobs
  <1>3. NoOrphanTicker'
    BY DEF TypeOK, NoOrphanTicker, MapHoldsLiveJobs
  <1>4. MapHoldsLiveJobs'
    BY DEF TypeOK, MapHoldsLiveJobs
  <1>5. RunsReferToJobs'
    BY DEF TypeOK, RunsReferToJobs
  <1>6. TickersMatchJobs'
    BY DEF TypeOK, TickersMatchJobs, MapHoldsLiveJobs
  <1> QED BY <1>1, <1>2, <1>3, <1>4, <1>5, <1>6 DEF Inv

\* The steps of the goroutines leave the map, the stop channels and the mutex
\* alone; only the queue, the workers and the tickers move.
LEMMA GoroutineStepInv ==
  ASSUME Inv,
         \/ StopCancel
         \/ \E j \in JobIds : Tick(j) \/ TickerExit(j)
         \/ \E w \in Workers : Finish(w) \/ WorkerExit(w)
  PROVE  Inv'
  <1> USE RegistryAssumption DEF Inv, StopCancel, Tick, TickerExit, Finish,
                                 WorkerExit
  <1>1. TypeOK'
    BY DEF TypeOK
  <1>2. NoDoubleClose' /\ NoOrphanTicker' /\ MapHoldsLiveJobs'
    BY DEF NoDoubleClose, NoOrphanTicker, MapHoldsLiveJobs, Replacing
  <1>3. RunsReferToJobs'
    BY DEF TypeOK, RunsReferToJobs
  <1>4. TickersMatchJobs'
    BY DEF TypeOK, TickersMatchJobs
  <1> QED BY <1>1, <1>2, <1>3, <1>4 DEF Inv

\* A send appends a run of an existing job and stays within the capacity.
LEMMA SendInv ==
  ASSUME Inv, NEW j \in JobIds, Send(j)
  PROVE  Inv'
  <1> USE RegistryAssumption DEF Inv, Send
  <1>0. /\ queue' \in Seq(JobIds)
        /\ Len(queue') = Len(queue) + 1
        /\ \A i \in DOMAIN queue' : queue'[i] = j \/ \E k \in DOMAIN queue : queue'[i] = queue[k]
    BY DEF TypeOK
  <1>1. TypeOK'
    BY <1>0 DEF TypeOK
  <1>2. NoDoubleClose' /\ NoOrphanTicker' /\ MapHoldsLiveJobs'
    BY DEF NoDoubleClose, NoOrphanTicker, MapHoldsLiveJobs, Replacing
  <1>3. RunsReferToJobs'
    BY <1>0 DEF TypeOK, RunsReferToJobs, TickersMatchJobs
  <1>4. TickersMatchJobs'
    BY DEF TypeOK, TickersMatchJobs
  <1> QED BY <1>1, <1>2, <1>3, <1>4 DEF Inv

\* A worker takes the oldest run.
LEMMA TakeInv ==
  ASSUME Inv, NEW w \in Workers, Take(w)
  PROVE  Inv'
  <1> USE RegistryAssumption DEF Inv, Take
  <1>0. /\ queue' \in Seq(JobIds)
        /\ Len(queue') <= Len(queue)
        /\ Head(queue) = queue[1] /\ 1 \in DOMAIN queue /\ queue[1] \in JobIds
        /\ \A i \in DOMAIN queue' : i + 1 \in DOMAIN queue /\ queue'[i] = queue[i + 1]
    BY DEF TypeOK
  <1>1. TypeOK'
    BY <1>0 DEF TypeOK
  <1>2. NoDoubleClose' /\ NoOrphanTicker' /\ MapHoldsLiveJobs'
    BY DEF NoDoubleClose, NoOrphanTicker, MapHoldsLiveJobs, Replacing
  <1>3. RunsReferToJobs'
    BY <1>0 DEF TypeOK, RunsReferToJobs
  <1>4. TickersMatchJobs'
    BY DEF TypeOK, TickersMatchJobs
  <1> QED BY <1>1, <1>2, <1>3, <1>4 DEF Inv

\* Only an object nothing refers to is collected.
LEMMA CollectInv ==
  ASSUME Inv, NEW j \in JobIds, Collect(j)
  PROVE  Inv'
  <1> USE RegistryAssumption DEF Inv, Collect, Replacing
  <1>1. TypeOK'
    BY AnyTyped DEF TypeOK
  <1>2. NoDoubleClose'
    BY DEF NoDoubleClose
  <1>3. NoOrphanTicker'
    BY DEF TypeOK, NoOrphanTicker
  <1>4. MapHoldsLiveJobs'
    BY DEF TypeOK, MapHoldsLiveJobs
  <1>5. RunsReferToJobs'
    BY DEF TypeOK, RunsReferToJobs
  <1>6. TickersMatchJobs'
    BY DEF TypeOK, TickersMatchJobs
  <1> QED BY <1>1, <1>2, <1>3, <1>4, <1>5, <1>6 DEF Inv

\* Every step of the registry and its goroutines keeps the invariant.
LEMMA NextInv == Inv /\ [Next]_vars => Inv'
  <1> SUFFICES ASSUME Inv, [Next]_vars PROVE Inv'
    OBVIOUS
  <1>1. CASE UNCHANGED vars
    BY <1>1 DEF vars, Inv, TypeOK, NoDoubleClose, NoOrphanTicker,
                MapHoldsLiveJobs, RunsReferToJobs, TickersMatchJobs, Replacing
  <1>2. CASE \E r \in Rules, s \in Specs : ScheduleLock(r, s)
    BY <1>2, ScheduleLockInv
  <1>3. CASE \E j \in JobIds : ScheduleInstall(j)
    BY <1>3, ScheduleInstallInv
  <1>4. CASE \E r \in Rules : Unschedule(r)
    BY <1>4, UnscheduleInv
  <1>5. CASE StopJobs
    BY <1>5, StopJobsInv
  <1>6. CASE StopCancel \/ \E j \in JobIds : Tick(j) \/ TickerExit(j)
    BY <1>6, GoroutineStepInv
  <1>7. CASE \E w \in Workers : Finish(w) \/ WorkerExit(w)
    BY <1>7, GoroutineStepInv
  <1>8. CASE \E j \in JobIds : Send(j)
    BY <1>8, SendInv
  <1>9. CASE \E w \in Workers : Take(w)
    BY <1>9, TakeInv
  <1>10. CASE \E j \in JobIds : Collect(j)
    BY <1>10, CollectInv
  <1> QED BY <1>1, <1>2, <1>3, <1>4, <1>5, <1>6, <1>7, <1>8, <1>9, <1>10 DEF Next

\* The inductive invariant holds in every reachable state.
THEOREM RegistryInvariant == Spec => []Inv
  <1>1. Init => Inv
    BY InitInv
  <1>2. Inv /\ [Next]_vars => Inv'
    BY NextInv
  <1> QED BY <1>1, <1>2, PTL DEF Spec

\* Every variable keeps its type and the queue its capacity.
THEOREM RegistryTypeCorrect == Spec => []TypeOK
  <1>1. Inv => TypeOK
    BY DEF Inv
  <1> QED BY <1>1, RegistryInvariant, PTL

\* No interleaving of Schedule, Unschedule and Stop closes a stop channel
\* twice, so none of them panics.
THEOREM RegistryNeverPanics == Spec => []NoDoubleClose
  <1>1. Inv => NoDoubleClose
    BY DEF Inv
  <1> QED BY <1>1, RegistryInvariant, PTL

\* A job that is not in the map has been told to stop.
THEOREM RegistryNoOrphans == Spec => []NoOrphanTicker
  <1>1. Inv => NoOrphanTicker
    BY DEF Inv
  <1> QED BY <1>1, RegistryInvariant, PTL

\* The map never keeps a stopped job outside a Schedule call.
THEOREM RegistryMapLive == Spec => []MapHoldsLiveJobs
  <1>1. Inv => MapHoldsLiveJobs
    BY DEF Inv
  <1> QED BY <1>1, RegistryInvariant, PTL

-----------------------------------------------------------------------------
(***************************************************************************)
(* Refinement: every step of the registry is a step of JobMap or leaves    *)
(* what JobMap sees alone.                                                 *)
(***************************************************************************)

\* An empty registry is an empty map.
LEMMA InitRefines == Init => Abs!Init
  BY RegistryAssumption
  DEF Init, Abs!Init, AbsSched, AbsLive, AbsRunning

\* Callers see nothing of the first half of Schedule.
LEMMA ScheduleLockRefines ==
  ASSUME Inv, NEW r \in Rules, NEW s \in Specs, ScheduleLock(r, s)
  PROVE  UNCHANGED Abs!vars
  <1> USE RegistryAssumption DEF ScheduleLock
  <1>1. \A k \in JobIds : stop'[k] = "none" <=> stop[k] = "none"
    BY DEF Inv, TypeOK, CloseStop, Registered, MapHoldsLiveJobs, Replacing
  <1>2. AbsLive' = AbsLive
    BY <1>1 DEF AbsLive, Pair
  <1> QED BY <1>2 DEF Abs!vars, AbsSched, AbsRunning, Pair

\* The second half of Schedule is where it takes effect.
LEMMA ScheduleInstallRefines ==
  ASSUME Inv, NEW j \in JobIds, ScheduleInstall(j)
  PROVE  Abs!Schedule(holder[1], holder[2])
  <1> USE RegistryAssumption DEF ScheduleInstall
  <1>0. holder[1] \in Rules /\ holder[2] \in Specs
    BY DEF Inv, TypeOK
  <1>1. \A r \in Rules : jobs[r] # j
    BY DEF Inv, TypeOK, MapHoldsLiveJobs, Replacing
  <1>2. \A w \in Workers : worker[w] # j
    BY DEF Inv, TypeOK, RunsReferToJobs
  <1>3. AbsSched' = [AbsSched EXCEPT ![holder[1]] = holder[2]]
    BY <1>0, <1>1 DEF Inv, TypeOK, AbsSched
  <1>4. AbsLive' = AbsLive \cup {<<holder[1], holder[2]>>}
    BY <1>0 DEF Inv, TypeOK, AbsLive, Pair
  <1>5. AbsRunning' = AbsRunning
    BY <1>2 DEF Inv, TypeOK, AbsRunning, Pair
  <1> QED BY <1>3, <1>4, <1>5 DEF Abs!Schedule

LEMMA UnscheduleRefines ==
  ASSUME Inv, NEW r \in Rules, Unschedule(r)
  PROVE  Abs!Unschedule(r)
  <1> USE RegistryAssumption DEF Unschedule
  <1>1. \A k \in JobIds : stop'[k] = "none" <=> stop[k] = "none"
    BY DEF Inv, TypeOK, CloseStop, Registered, MapHoldsLiveJobs, Replacing
  <1>2. AbsLive' = AbsLive
    BY <1>1 DEF AbsLive, Pair
  <1>3. AbsSched[r] # Free
    BY DEF Inv, TypeOK, AbsSched
  <1>4. AbsSched' = [AbsSched EXCEPT ![r] = Free]
    BY DEF Inv, TypeOK, AbsSched
  <1> QED BY <1>2, <1>3, <1>4 DEF Abs!Unschedule, AbsRunning, Pair

LEMMA StopJobsRefines ==
  ASSUME Inv, StopJobs
  PROVE  Abs!Stop
  <1> USE RegistryAssumption DEF StopJobs
  <1>1. \A k \in JobIds : stop'[k] = "none" <=> stop[k] = "none"
    BY DEF Inv, TypeOK, CloseStop, Registered, MapHoldsLiveJobs, Replacing
  <1>2. AbsLive' = AbsLive
    BY <1>1 DEF AbsLive, Pair
  <1> QED BY <1>2 DEF Abs!Stop, AbsSched, AbsRunning, Pair

\* A worker takes a run of an object that exists, so of a live pair.
LEMMA TakeRefines ==
  ASSUME Inv, NEW w \in Workers, Take(w)
  PROVE  Abs!Start(w, Pair(Head(queue))) /\ Pair(Head(queue)) \in Rules \X Specs
  <1> USE RegistryAssumption DEF Take
  <1>1. Head(queue) \in JobIds /\ stop[Head(queue)] # "none"
    BY DEF Inv, TypeOK, RunsReferToJobs
  <1>2. AbsRunning[w] = Idle
    BY DEF Inv, TypeOK, AbsRunning
  <1>3. AbsRunning' = [AbsRunning EXCEPT ![w] = Pair(Head(queue))]
    BY <1>1 DEF Inv, TypeOK, AbsRunning, Pair
  <1>4. Pair(Head(queue)) \in AbsLive
    BY <1>1 DEF AbsLive
  <1>5. AbsSched' = AbsSched /\ AbsLive' = AbsLive
    BY DEF AbsSched, AbsLive, Pair
  <1>6. Pair(Head(queue)) \in Rules \X Specs
    BY <1>1 DEF Inv, TypeOK, Pair
  <1> QED BY <1>2, <1>3, <1>4, <1>5, <1>6 DEF Abs!Start

LEMMA FinishRefines ==
  ASSUME Inv, NEW w \in Workers, Finish(w)
  PROVE  Abs!End(w)
  <1> USE RegistryAssumption DEF Finish
  <1>1. AbsRunning[w] # Idle
    BY DEF Inv, TypeOK, AbsRunning, Pair
  <1>2. AbsRunning' = [AbsRunning EXCEPT ![w] = Idle]
    BY DEF Inv, TypeOK, AbsRunning, Pair
  <1>3. AbsSched' = AbsSched /\ AbsLive' = AbsLive
    BY DEF AbsSched, AbsLive, Pair
  <1> QED BY <1>1, <1>2, <1>3 DEF Abs!End

\* Collecting the last object of a pair ends the pair.
LEMMA CollectRefines ==
  ASSUME Inv, NEW j \in JobIds, Collect(j)
  PROVE  UNCHANGED Abs!vars \/ \E p \in Rules \X Specs : Abs!Drain(p)
  <1> USE RegistryAssumption DEF Collect
  <1> DEFINE p == Pair(j)
  <1>0. p \in Rules \X Specs /\ p \in AbsLive
    BY DEF Inv, TypeOK, Pair, AbsLive
  <1>1. \A k \in JobIds : k # j => Pair(k)' = Pair(k) /\ stop'[k] = stop[k]
    BY DEF Inv, TypeOK, Pair
  <1>2. AbsSched' = AbsSched
    BY DEF Inv, TypeOK, AbsSched
  <1>3. AbsRunning' = AbsRunning
    BY <1>1 DEF Inv, TypeOK, AbsRunning
  <1>4. CASE \E k \in JobIds : k # j /\ stop[k] # "none" /\ Pair(k) = p
    <2>1. AbsLive' = AbsLive
      BY <1>1, <1>4 DEF Inv, TypeOK, AbsLive
    <2> QED BY <1>2, <1>3, <2>1 DEF Abs!vars
  <1>5. CASE \A k \in JobIds : k # j /\ stop[k] # "none" => Pair(k) # p
    <2>1. AbsLive' = AbsLive \ {p}
      BY <1>1, <1>5 DEF Inv, TypeOK, AbsLive
    <2>2. AbsSched[p[1]] # p[2]
      BY <1>0, <1>5 DEF Inv, TypeOK, AbsSched, Pair, MapHoldsLiveJobs, Replacing
    <2>3. \A w \in Workers : AbsRunning[w] # p
      BY <1>0, <1>5 DEF Inv, TypeOK, AbsRunning, RunsReferToJobs
    <2> QED BY <1>0, <1>2, <1>3, <2>1, <2>2, <2>3 DEF Abs!Drain
  <1> QED BY <1>4, <1>5

\* The remaining goroutine steps are internal.
LEMMA InternalRefines ==
  ASSUME Inv,
         \/ UNCHANGED vars
         \/ StopCancel
         \/ \E j \in JobIds : Tick(j) \/ Send(j) \/ TickerExit(j)
         \/ \E w \in Workers : WorkerExit(w)
  PROVE  UNCHANGED Abs!vars
  <1>1. AbsSched' = AbsSched /\ AbsLive' = AbsLive
    BY DEF vars, StopCancel, Tick, Send, TickerExit, WorkerExit, AbsSched,
           AbsLive, Pair
  <1>2. AbsRunning' = AbsRunning
    BY RegistryAssumption
    DEF vars, StopCancel, Tick, Send, TickerExit, WorkerExit, AbsRunning, Pair,
        Inv, TypeOK
  <1> QED BY <1>1, <1>2 DEF Abs!vars

LEMMA NextRefines == Inv /\ [Next]_vars => [Abs!Next]_(Abs!vars)
  <1> SUFFICES ASSUME Inv, [Next]_vars PROVE [Abs!Next]_(Abs!vars)
    OBVIOUS
  <1>1. CASE \E r \in Rules, s \in Specs : ScheduleLock(r, s)
    BY <1>1, ScheduleLockRefines
  <1>2. CASE \E j \in JobIds : ScheduleInstall(j)
    <2>1. holder[1] \in Rules /\ holder[2] \in Specs
      BY <1>2 DEF Inv, TypeOK, ScheduleInstall
    <2> QED BY <1>2, <2>1, ScheduleInstallRefines DEF Abs!Next
  <1>3. CASE \E r \in Rules : Unschedule(r)
    BY <1>3, UnscheduleRefines DEF Abs!Next
  <1>4. CASE StopJobs
    BY <1>4, StopJobsRefines DEF Abs!Next
  <1>5. CASE \E w \in Workers : Take(w)
    BY <1>5, TakeRefines DEF Abs!Next
  <1>6. CASE \E w \in Workers : Finish(w)
    BY <1>6, FinishRefines DEF Abs!Next
  <1>7. CASE \E j \in JobIds : Collect(j)
    BY <1>7, CollectRefines DEF Abs!Next
  <1>8. CASE \/ UNCHANGED vars \/ StopCancel
             \/ \E j \in JobIds : Tick(j) \/ Send(j) \/ TickerExit(j)
             \/ \E w \in Workers : WorkerExit(w)
    BY <1>8, InternalRefines
  <1> QED BY <1>1, <1>2, <1>3, <1>4, <1>5, <1>6, <1>7, <1>8 DEF Next

\* The registry implements the abstract job map, so what its callers see is a
\* map updated atomically, and a worker only executes a (rule, specification)
\* pair that was scheduled.
THEOREM RegistryImplementsJobMap == Spec => ImplementsJobMap
  <1>1. Init => Abs!Init
    BY InitRefines
  <1>2. Inv /\ [Next]_vars => [Abs!Next]_(Abs!vars)
    BY NextRefines
  <1> QED BY <1>1, <1>2, RegistryInvariant, PTL DEF Spec, ImplementsJobMap, Abs!Spec

=============================================================================

-------------------------- MODULE LifecycleProofs ---------------------------
(***************************************************************************)
(* Proofs about RuleLifecycle for every set of rules, specifications and   *)
(* concurrent requests, every set of operations and faults and every bound *)
(* on them, overlapping or not.                                            *)
(***************************************************************************)
EXTENDS RuleLifecycle, TLAPS

\* The part of the invariant that relates tables, calls and jobs.
Checked == ScheduledWasEnabledAndValid /\ RowsInHistory /\ CarriedWasChecked

LEMMA AnyTyped == AnyRule \in Rules /\ AnySpec \in Specs
  BY LifecycleAssumption DEF AnyRule, AnySpec

LEMMA IdleTyped ==
  /\ IdleRequest \in Request
  /\ IdleRequest.rec \in UiRow
  /\ \A todo \in SUBSET Rules : [IdleProc EXCEPT !.todo = todo] \in Proc
  /\ \A todo \in SUBSET Rules : [IdleProc EXCEPT !.todo = todo].pc = "idle"
  /\ IdleProc \in Proc /\ IdleProc.pc = "idle"
  BY AnyTyped DEF IdleRequest, IdleProc, Request, Proc, UiRow, Subjects

\* The empty tables satisfy the invariant.
LEMMA InitInv == Init => LifecycleInv
  <1> SUFFICES ASSUME Init PROVE LifecycleInv
    OBVIOUS
  <1>1. TypeOK
    BY IdleTyped DEF Init, TypeOK
  <1>2. ScheduledWasEnabledAndValid
    BY DEF Init, ScheduledWasEnabledAndValid
  <1>3. RowsInHistory
    BY DEF Init, RowsInHistory
  <1>4. CarriedWasChecked
    BY DEF Init, CarriedWasChecked, IdleProc
  <1> QED BY <1>1, <1>2, <1>3, <1>4 DEF LifecycleInv

\* A write to table rules adds what it enables to the history, and the history
\* never forgets what a call carries or a job runs.  A crossing is recorded as
\* such.
LEMMA WriteRowChecked ==
  ASSUME TypeOK, Checked, NEW r \in Rules, NEW row \in Row \cup {NoRow},
         WriteRow(r, row), UNCHANGED <<jobs, proc>>
  PROVE  /\ rules' \in [Rules -> Row \cup {NoRow}]
         /\ everEnabled' \subseteq Rules \X Specs
         /\ faults' \subseteq AllFaults \cup Crossings
         /\ Checked'
  <1>0. faults' \subseteq AllFaults \cup Crossings
    BY DEF WriteRow, TypeOK, Crossings
  <1>1. everEnabled \subseteq everEnabled'
    BY DEF WriteRow
  <1>2. row # NoRow => row.spec \in Specs
    BY DEF Row
  <1>3. rules' = [rules EXCEPT ![r] = row] /\ rules' \in [Rules -> Row \cup {NoRow}]
    BY DEF WriteRow, TypeOK
  <1>4. everEnabled' \subseteq Rules \X Specs
    BY <1>2 DEF WriteRow, TypeOK
  <1>5. ScheduledWasEnabledAndValid'
    BY <1>1 DEF Checked, ScheduledWasEnabledAndValid
  <1>6. CarriedWasChecked'
    BY <1>1 DEF Checked, CarriedWasChecked
  <1>7. RowsInHistory'
    BY <1>1, <1>3 DEF Checked, RowsInHistory, WriteRow, TypeOK
  <1> QED BY <1>0, <1>3, <1>4, <1>5, <1>6, <1>7 DEF Checked

\* A step that leaves the table, the calls and the jobs alone.
LEMMA NoWriteChecked ==
  ASSUME Checked, UNCHANGED <<rules, everEnabled, jobs, proc>>
  PROVE  Checked'
  BY DEF Checked, ScheduledWasEnabledAndValid, RowsInHistory, CarriedWasChecked

\* A row written by a handler is a row.
LEMMA DraftTyped == ASSUME NEW rec \in UiRow PROVE Draft(rec) \in Row
  BY DEF Draft, UiRow, Row

\* What a handler that goes on stores in its request is well typed.
LEMMA ProceedTyped ==
  ASSUME TypeOK, NEW q \in Requests, NEW r \in Rules, NEW rec \in UiRow,
         NEW pc \in {"get", "build", "unlink", "write", "publish"},
         NEW subject \in Subjects, Proceed(q, pc, r, rec, subject)
  PROVE  req' \in [Requests -> Request]
  BY DEF Proceed, TypeOK, Request

\* The first step of each handler.
LEMMA BeginInv ==
  ASSUME LifecycleInv, NEW q \in Requests, NEW r \in Rules, NEW rec \in UiRow,
         NEW on \in BOOLEAN,
         \/ StepperCreate(q, r, rec) \/ StepperUpdate(q, r, rec)
         \/ StepperToggle(q, r, on) \/ StepperDelete(q, r)
         \/ RuleCreate(q, r, rec) \/ RuleUpdate(q, r, rec)
         \/ RuleToggle(q, r, on)
  PROVE  LifecycleInv'
  <1>0. TypeOK /\ Checked
    BY DEF LifecycleInv, Checked
  <1>1. /\ UNCHANGED <<alerts, unitOk, bus, phase, proc, jobs>>
        /\ requests' \in Nat
    BY <1>0 DEF StepperCreate, StepperUpdate, StepperToggle, StepperDelete,
           RuleCreate, RuleUpdate, RuleToggle, Begin, TypeOK
  <1>2. req' \in [Requests -> Request]
    BY <1>0, ProceedTyped, IdleTyped
    DEF StepperCreate, StepperUpdate, StepperToggle, StepperDelete,
        RuleCreate, RuleUpdate, RuleToggle, Subjects
  <1>3. ui' \in [Rules -> UiRow \cup {NoRow}] /\ born' \subseteq Rules
    <2>1. born' \subseteq Rules
      BY <1>0 DEF StepperCreate, StepperUpdate, StepperToggle, StepperDelete,
          RuleCreate, RuleUpdate, RuleToggle, TypeOK
    <2>2. CASE StepperToggle(q, r, on) /\ ui[r] # NoRow
      <3>1. [ui[r] EXCEPT !.enabled = on] \in UiRow
        BY <1>0, <2>2 DEF TypeOK, UiRow
      <3>2. ui' = [ui EXCEPT ![r] = [ui[r] EXCEPT !.enabled = on]]
        BY <1>0, <2>2 DEF StepperToggle, TypeOK
      <3> QED BY <1>0, <2>1, <3>1, <3>2 DEF TypeOK
    <2>3. CASE ~(StepperToggle(q, r, on) /\ ui[r] # NoRow)
      <3>1. \/ ui' = ui \/ ui' = [ui EXCEPT ![r] = rec] \/ ui' = [ui EXCEPT ![r] = NoRow]
        BY <2>3 DEF StepperCreate, StepperUpdate, StepperToggle, StepperDelete,
            RuleCreate, RuleUpdate, RuleToggle
      <3> QED BY <1>0, <2>1, <3>1 DEF TypeOK
    <2> QED BY <2>2, <2>3
  <1>4. /\ rules' \in [Rules -> Row \cup {NoRow}]
        /\ everEnabled' \subseteq Rules \X Specs
        /\ faults' \subseteq AllFaults \cup Crossings
        /\ Checked'
    <2>1. CASE UNCHANGED <<rules, everEnabled, faults>>
      BY <1>0, <1>1, <2>1, NoWriteChecked DEF TypeOK
    <2>2. CASE RuleCreate(q, r, rec)
      BY <1>0, <1>1, <2>2, WriteRowChecked, DraftTyped DEF RuleCreate
    <2>3. CASE RuleToggle(q, r, on) /\ rules[r] # NoRow
      <3> DEFINE row == [rules[r] EXCEPT !.enabled = on,
                            !.status = IF on THEN "DRAFT" ELSE "DISABLED"]
      <3>1. row \in Row
        BY <1>0, <2>3 DEF TypeOK, Row
      <3>2. WriteRow(r, row)
        BY <2>3 DEF RuleToggle
      <3> QED BY <1>0, <1>1, <3>1, <3>2, WriteRowChecked
    <2> QED BY <2>1, <2>2, <2>3 DEF StepperCreate, StepperUpdate,
          StepperToggle, StepperDelete, RuleUpdate, RuleToggle
  <1> QED BY <1>0, <1>1, <1>2, <1>3, <1>4 DEF LifecycleInv, Checked, TypeOK

\* A fault only counts.
LEMMA FaultTyped ==
  ASSUME TypeOK, NEW k, Fault(k)
  PROVE  faults' \subseteq AllFaults \cup Crossings
  BY LifecycleAssumption DEF TypeOK, Fault

\* A handler's later steps, and a request that dies.
LEMMA ServeInv ==
  ASSUME LifecycleInv, NEW q \in Requests,
         ServeRequest(q) \/ RequestDies(q)
  PROVE  LifecycleInv'
  <1>0. TypeOK /\ Checked
    BY DEF LifecycleInv, Checked
  <1> DEFINE r == req[q].rule
             rec == req[q].rec
  <1>a. r \in Rules /\ rec \in UiRow /\ req[q].subject \in Subjects /\ req[q] \in Request
    BY <1>0 DEF TypeOK, Request
  <1>1. UNCHANGED <<alerts, unitOk, phase, proc, jobs, born, requests, ui>>
    BY DEF ServeRequest, StepperGet, UnlinkRule, SyncBuild, SyncUpsert,
           RuleWrite, Publish, RequestDies
  <1>2. req' \in [Requests -> Request]
    <2>1. CASE StepperGet(q) /\ ui[r] # NoRow
      <3>1. [req[q] EXCEPT !.pc = "build", !.rec = ui[r]] \in Request
        BY <1>0, <1>a, <2>1 DEF TypeOK, Request
      <3>2. req' = [req EXCEPT ![q] = [req[q] EXCEPT !.pc = "build", !.rec = ui[r]]]
        BY <1>0, <2>1 DEF StepperGet, TypeOK
      <3> QED BY <1>0, <3>1, <3>2 DEF TypeOK
    <2>2. CASE UNCHANGED req \/ req' = [req EXCEPT ![q] = IdleRequest]
      BY <1>0, <2>2, IdleTyped DEF TypeOK
    <2>3. CASE \E pc \in {"upsert", "publish"} : req' = [req EXCEPT ![q].pc = pc]
      <3>1. PICK pc \in {"upsert", "publish"} : req' = [req EXCEPT ![q].pc = pc]
        BY <2>3
      <3>2. [req[q] EXCEPT !.pc = pc] \in Request
        BY <1>a DEF Request
      <3>3. req' = [req EXCEPT ![q] = [req[q] EXCEPT !.pc = pc]]
        BY <1>0, <3>1 DEF TypeOK
      <3> QED BY <1>0, <3>2, <3>3 DEF TypeOK
    <2> QED BY <2>1, <2>2, <2>3 DEF ServeRequest, StepperGet, UnlinkRule,
          SyncBuild, SyncUpsert, RuleWrite, Publish, RequestDies
  <1>3. faults' \subseteq AllFaults \cup Crossings
    <2>1. \/ UNCHANGED faults \/ (\E k : Fault(k)) \/ faults' = faults \cup {"gap"}
          \/ WriteRow(r, NoRow) \/ WriteRow(r, Draft(rec))
      BY DEF ServeRequest, StepperGet, UnlinkRule, SyncBuild, SyncUpsert,
             RuleWrite, Publish, RequestDies
    <2> QED BY <1>0, <2>1, FaultTyped DEF TypeOK, WriteRow, Crossings
  <1>4. bus' \in [Subjects -> Seq(Rules)]
    <2>1. Append(bus[req[q].subject], r) \in Seq(Rules)
      BY <1>0, <1>a DEF TypeOK
    <2>2. \/ bus' = bus
          \/ bus' = [bus EXCEPT ![req[q].subject] = Append(bus[req[q].subject], r)]
      BY <1>0, <1>a DEF ServeRequest, StepperGet, UnlinkRule, SyncBuild,
          SyncUpsert, RuleWrite, Publish, RequestDies, TypeOK
    <2> QED BY <1>0, <1>a, <2>1, <2>2 DEF TypeOK
  <1>5. /\ rules' \in [Rules -> Row \cup {NoRow}]
        /\ everEnabled' \subseteq Rules \X Specs
        /\ Checked'
    <2>1. CASE UNCHANGED <<rules, everEnabled>>
      BY <1>0, <1>1, <2>1, NoWriteChecked DEF TypeOK
    <2>2. CASE WriteRow(r, NoRow)
      BY <1>0, <1>1, <1>a, <2>2, WriteRowChecked
    <2>3. CASE WriteRow(r, Draft(rec))
      BY <1>0, <1>1, <1>a, <2>3, WriteRowChecked, DraftTyped
    <2> QED BY <2>1, <2>2, <2>3 DEF ServeRequest, StepperGet, UnlinkRule,
          SyncBuild, SyncUpsert, RuleWrite, Publish, RequestDies
  <1> QED BY <1>0, <1>1, <1>2, <1>3, <1>4, <1>5 DEF LifecycleInv, Checked, TypeOK

\* GetRule hands a call an enabled row only with its specification.
LEMMA GetRuleInv ==
  ASSUME TypeOK, Checked, NEW p \in Procs, NEW r \in Rules,
         NEW todo \in SUBSET Rules, GetRule(p, r, todo),
         UNCHANGED <<rules, everEnabled, jobs>>
  PROVE  /\ proc' \in [Procs -> Proc] /\ Checked'
         /\ faults' \subseteq AllFaults \cup Crossings
  <1>1. rules[r] # NoRow => rules[r].spec \in Specs /\ rules[r] \in Row
    BY DEF TypeOK, Row
  <1>a. PICK call \in Proc :
           /\ proc' = [proc EXCEPT ![p] = call]
           /\ \/ call.pc \in {"idle", "unschedule"}
              \/ /\ call.pc = "check" /\ call.rule = r /\ call.spec = rules[r].spec
                 /\ rules[r] # NoRow /\ rules[r].enabled
    <2>1. CASE proc' = [proc EXCEPT ![p] = [IdleProc EXCEPT !.todo = todo]]
      BY <2>1, IdleTyped
    <2>2. CASE /\ rules[r] # NoRow
               /\ proc' = [proc EXCEPT ![p] =
                     [pc |-> IF rules[r].enabled THEN "check" ELSE "unschedule",
                      rule |-> r, spec |-> rules[r].spec, todo |-> todo]]
      <3> DEFINE call == [pc |-> IF rules[r].enabled THEN "check" ELSE "unschedule",
                          rule |-> r, spec |-> rules[r].spec, todo |-> todo]
      <3>1. call \in Proc
        BY <1>1, <2>2 DEF Proc
      <3> QED BY <2>2, <3>1
    <2> QED BY <2>1, <2>2 DEF GetRule
  <1>2. proc' \in [Procs -> Proc]
    BY <1>a DEF TypeOK
  <1>3. CarriedWasChecked'
    BY <1>a DEF TypeOK, Checked, CarriedWasChecked, RowsInHistory
  <1>4. ScheduledWasEnabledAndValid' /\ RowsInHistory'
    BY DEF Checked, ScheduledWasEnabledAndValid, RowsInHistory
  <1>5. faults' \subseteq AllFaults \cup Crossings
    BY FaultTyped DEF GetRule, TypeOK
  <1> QED BY <1>2, <1>3, <1>4, <1>5 DEF Checked

\* A status write keeps the flag and the specification of a row.
LEMMA StatusInv ==
  ASSUME TypeOK, Checked, NEW r \in Rules, NEW status \in {"ACTIVE", "INVALID"},
         UpdateStatus(r, status), UNCHANGED everEnabled
  PROVE  /\ rules' \in [Rules -> Row \cup {NoRow}]
         /\ RowsInHistory' /\ faults' \subseteq AllFaults \cup Crossings
  <1>1. faults' \subseteq AllFaults \cup Crossings
    BY FaultTyped DEF UpdateStatus, TypeOK
  <1>2. CASE UNCHANGED rules
    BY <1>1, <1>2 DEF Checked, RowsInHistory, TypeOK
  <1>3. CASE rules[r] # NoRow /\ rules' = [rules EXCEPT ![r].status = status]
    <2>1. rules[r] \in Row
      BY <1>3 DEF TypeOK
    <2>2. [rules[r] EXCEPT !.status = status] \in Row
      BY <2>1 DEF Row
    <2>3. rules' \in [Rules -> Row \cup {NoRow}]
      BY <1>3, <2>2 DEF TypeOK
    <2>4. \A x \in Rules : rules'[x] # NoRow
              => /\ rules[x] # NoRow
                 /\ rules'[x].enabled = rules[x].enabled
                 /\ rules'[x].spec = rules[x].spec
      BY <1>3, <2>1 DEF TypeOK, Row
    <2> QED BY <1>1, <2>3, <2>4 DEF Checked, RowsInHistory
  <1> QED BY <1>2, <1>3 DEF UpdateStatus

\* A call of processRule that moves on keeps what it carries.
LEMMA AdvanceTyped ==
  ASSUME TypeOK, NEW p \in Procs,
         NEW pc \in {"active", "invalid", "unschedule", "schedule"},
         proc' = [proc EXCEPT ![p].pc = pc]
  PROVE  /\ proc' \in [Procs -> Proc]
         /\ \A x \in Procs :
               /\ proc'[x].rule = proc[x].rule /\ proc'[x].spec = proc[x].spec
               /\ proc'[x].pc = IF x = p THEN pc ELSE proc[x].pc
  <1> DEFINE new == [proc[p] EXCEPT !.pc = pc]
  <1>1. proc[p] \in Proc /\ \A x \in Procs : proc[x] \in Proc
    BY DEF TypeOK
  <1>2. new \in Proc /\ new.rule = proc[p].rule /\ new.spec = proc[p].spec /\ new.pc = pc
    BY <1>1 DEF Proc
  <1>3. proc' = [proc EXCEPT ![p] = new]
    BY DEF TypeOK
  <1>4. \A x \in Procs : proc'[x] = IF x = p THEN new ELSE proc[x]
    BY <1>3 DEF TypeOK
  <1>5. proc' \in [Procs -> Proc]
    BY <1>1, <1>2, <1>3 DEF TypeOK
  <1> HIDE DEF new
  <1> QED BY <1>2, <1>4, <1>5

\* Every step of processRule.
LEMMA ProcessInv ==
  ASSUME LifecycleInv, NEW p \in Procs, ProcessRule(p)
  PROVE  LifecycleInv'
  <1>0. TypeOK /\ Checked
    BY DEF LifecycleInv, Checked
  <1>a. proc[p] \in Proc /\ proc[p].rule \in Rules /\ proc[p].spec \in Specs
            /\ proc[p].todo \in SUBSET Rules
    BY <1>0 DEF TypeOK, Proc
  <1>1. CASE HandleEvent(p)
    <2>1. Head(bus[p]) \in Rules /\ bus' \in [Subjects -> Seq(Rules)]
      BY <1>0, <1>1 DEF HandleEvent, TypeOK
    <2>2. proc' \in [Procs -> Proc] /\ Checked' /\ faults' \subseteq AllFaults \cup Crossings
      BY <1>0, <1>1, <2>1, GetRuleInv DEF HandleEvent
    <2> QED BY <1>0, <1>1, <2>1, <2>2 DEF HandleEvent, LifecycleInv, Checked, TypeOK
  <1>2. CASE \E r \in Rules : ReconcileNext(p, r)
    <2>1. PICK r \in Rules : ReconcileNext(p, r)
      BY <1>2
    <2>2. proc[p].todo \ {r} \in SUBSET Rules
      BY <1>a
    <2>3. proc' \in [Procs -> Proc] /\ Checked' /\ faults' \subseteq AllFaults \cup Crossings
      BY <1>0, <2>1, <2>2, GetRuleInv DEF ReconcileNext
    <2> QED BY <1>0, <2>1, <2>3 DEF ReconcileNext, LifecycleInv, Checked, TypeOK
  <1>3. CASE Check(p)
    <2>0. faults' \subseteq AllFaults \cup Crossings
      BY <1>0, <1>3, FaultTyped DEF Check, TypeOK
    <2>1. proc' \in [Procs -> Proc]
      BY <1>0, <1>3, AdvanceTyped DEF Check
    <2>2. CarriedWasChecked'
      <3>1. proc \in [Procs -> Proc]
        BY <1>0 DEF TypeOK
      <3>2. PICK pc \in {"active", "invalid"} :
               /\ proc' = [proc EXCEPT ![p].pc = pc]
               /\ pc = "active" => proc[p].spec \in ValidSpecs
        BY <1>3 DEF Check
      <3> QED BY <1>0, <1>a, <1>3, <3>1, <3>2
              DEF Check, Proc, Checked, CarriedWasChecked
    <2>3. ScheduledWasEnabledAndValid' /\ RowsInHistory'
      BY <1>0, <1>3 DEF Check, Checked, ScheduledWasEnabledAndValid, RowsInHistory
    <2>4. TypeOK'
      BY <1>0, <1>3, <2>0, <2>1 DEF Check, TypeOK
    <2> QED BY <2>2, <2>3, <2>4 DEF LifecycleInv
  <1>4. CASE MarkInvalid(p) \/ MarkActive(p)
    <2>1. rules' \in [Rules -> Row \cup {NoRow}] /\ RowsInHistory'
          /\ faults' \subseteq AllFaults \cup Crossings
      BY <1>0, <1>a, <1>4, StatusInv DEF MarkInvalid, MarkActive
    <2>2. proc' \in [Procs -> Proc]
      BY <1>0, <1>4, AdvanceTyped DEF MarkInvalid, MarkActive
    <2>3. CarriedWasChecked'
      <3>1. \A x \in Procs :
                /\ proc'[x].rule = proc[x].rule /\ proc'[x].spec = proc[x].spec
                /\ \/ proc'[x].pc = proc[x].pc
                   \/ proc'[x].pc = "unschedule"
                   \/ proc'[x].pc = "schedule" /\ proc[x].pc = "active"
        BY <1>0, <1>4, AdvanceTyped DEF MarkInvalid, MarkActive
      <3>2. UNCHANGED everEnabled
        BY <1>4 DEF MarkInvalid, MarkActive
      <3> QED BY <1>0, <3>1, <3>2 DEF Checked, CarriedWasChecked
    <2>4. ScheduledWasEnabledAndValid'
      BY <1>0, <1>4 DEF MarkInvalid, MarkActive, Checked, ScheduledWasEnabledAndValid
    <2> QED BY <1>0, <1>4, <2>1, <2>2, <2>3, <2>4
            DEF MarkInvalid, MarkActive, LifecycleInv, TypeOK
  <1>5. CASE Unschedule(p) \/ Schedule(p)
    <2>1. proc' = [proc EXCEPT ![p] = [IdleProc EXCEPT !.todo = proc[p].todo]]
      BY <1>5 DEF Unschedule, Schedule
    <2>2. proc' \in [Procs -> Proc]
      BY <1>0, <1>a, <2>1, IdleTyped DEF TypeOK
    <2>3. CarriedWasChecked'
      BY <1>0, <1>a, <1>5, <2>1, IdleTyped
      DEF Unschedule, Schedule, TypeOK, Checked, CarriedWasChecked
    <2>4. jobs' \in [Rules -> Specs \cup {NoSpec}] /\ ScheduledWasEnabledAndValid'
      BY <1>0, <1>a, <1>5
      DEF Unschedule, Schedule, TypeOK, Checked, ScheduledWasEnabledAndValid, CarriedWasChecked
    <2>5. RowsInHistory'
      BY <1>0, <1>5 DEF Unschedule, Schedule, Checked, RowsInHistory
    <2> QED BY <1>0, <1>5, <2>2, <2>3, <2>4, <2>5
            DEF Unschedule, Schedule, LifecycleInv, TypeOK
  <1> QED BY <1>1, <1>2, <1>3, <1>4, <1>5 DEF ProcessRule

\* Startup, reload, alerts and the end of the scheduler process.
LEMMA ServiceInv ==
  ASSUME LifecycleInv,
         Startup \/ Reload \/ Crash \/ \E r \in Rules : CreateAlert(r)
  PROVE  LifecycleInv'
  <1>0. TypeOK /\ Checked
    BY DEF LifecycleInv, Checked
  <1>1. CASE StartAdmin \/ SubscribeEvents \/ \E r \in Rules : CreateAlert(r)
    <2>1. Checked'
      BY <1>0, <1>1, NoWriteChecked DEF StartAdmin, SubscribeEvents, CreateAlert
    <2> QED BY <1>0, <1>1, <2>1
            DEF StartAdmin, SubscribeEvents, CreateAlert, TypeOK, LifecycleInv, Checked
  <1>2. CASE Start \/ Reload
    <2>1. /\ EnabledRules \in SUBSET Rules
          /\ faults' \subseteq AllFaults \cup Crossings
      BY <1>0, <1>2, FaultTyped DEF EnabledRules, Start, Reload, List, TypeOK
    <2>2. proc' \in [Procs -> Proc] /\ \A p \in Procs :
             /\ proc'[p].pc = proc[p].pc
             /\ proc'[p].rule = proc[p].rule
             /\ proc'[p].spec = proc[p].spec
      <3>1. proc \in [Procs -> Proc]
        BY <1>0 DEF TypeOK
      <3>2. PICK x \in {"startup", "reload"}, listed \in SUBSET EnabledRules :
               proc' = [proc EXCEPT ![x].todo = listed]
        BY <1>2 DEF Start, Reload, List
      <3> QED BY <2>1, <3>1, <3>2 DEF Proc, Procs
    <2>3. CarriedWasChecked'
      BY <1>0, <1>2, <2>2 DEF Start, Reload, Checked, CarriedWasChecked
    <2>4. ScheduledWasEnabledAndValid' /\ RowsInHistory'
      BY <1>0, <1>2 DEF Start, Reload, Checked, ScheduledWasEnabledAndValid, RowsInHistory
    <2>5. TypeOK'
      BY <1>0, <1>2, <2>1, <2>2 DEF Start, Reload, TypeOK
    <2> QED BY <2>3, <2>4, <2>5 DEF LifecycleInv
  <1>3. CASE Crash
    <2>1. TypeOK'
      BY <1>0, <1>3, IdleTyped, FaultTyped DEF Crash, TypeOK
    <2>2. Checked'
      BY <1>0, <1>3, IdleTyped
      DEF Crash, Checked, ScheduledWasEnabledAndValid, RowsInHistory, CarriedWasChecked
    <2> QED BY <2>1, <2>2 DEF LifecycleInv, Checked
  <1> QED BY <1>1, <1>2, <1>3 DEF Startup

LEMMA NextInv == LifecycleInv /\ [Next]_vars => LifecycleInv'
  <1> SUFFICES ASSUME LifecycleInv, [Next]_vars PROVE LifecycleInv'
    OBVIOUS
  <1>1. CASE UNCHANGED vars
    BY <1>1 DEF vars, LifecycleInv, TypeOK, ScheduledWasEnabledAndValid,
                RowsInHistory, CarriedWasChecked
  <1>2. CASE \E q \in Requests, r \in Rules, rec \in UiRow :
                StepperCreate(q, r, rec) \/ StepperUpdate(q, r, rec)
                   \/ RuleCreate(q, r, rec) \/ RuleUpdate(q, r, rec)
    BY <1>2, BeginInv
  <1>3. CASE \E q \in Requests, r \in Rules, on \in BOOLEAN :
                StepperToggle(q, r, on) \/ RuleToggle(q, r, on)
    BY <1>3, BeginInv, IdleTyped
  <1>4. CASE \E q \in Requests, r \in Rules : StepperDelete(q, r)
    BY <1>4, BeginInv, IdleTyped
  <1>5. CASE \E q \in Requests : ServeRequest(q) \/ RequestDies(q)
    BY <1>5, ServeInv
  <1>6. CASE UnitChanges
    <2>1. Checked'
      BY <1>6, NoWriteChecked DEF UnitChanges, LifecycleInv, Checked
    <2> QED BY <1>6, <2>1, FaultTyped DEF UnitChanges, LifecycleInv, Checked, TypeOK
  <1>7. CASE \E p \in Procs : ProcessRule(p)
    BY <1>7, ProcessInv
  <1>8. CASE Startup \/ Reload \/ Crash \/ \E r \in Rules : CreateAlert(r)
    BY <1>8, ServiceInv
  <1> QED BY <1>1, <1>2, <1>3, <1>4, <1>5, <1>6, <1>7, <1>8 DEF Next

\* The inductive invariant holds in every reachable state.
THEOREM LifecycleInvariant == Spec => []LifecycleInv
  <1>1. Init => LifecycleInv
    BY InitInv
  <1>2. LifecycleInv /\ [Next]_vars => LifecycleInv'
    BY NextInv
  <1> QED BY <1>1, <1>2, PTL DEF Spec

\* However requests, events, reloads, crashes and faults interleave, the
\* scheduler only ever runs a rule with a specification that was enabled and
\* passed validation.
THEOREM LifecycleOnlyChecked == Spec => []ScheduledWasEnabledAndValid
  <1>1. LifecycleInv => ScheduledWasEnabledAndValid
    BY DEF LifecycleInv
  <1> QED BY <1>1, LifecycleInvariant, PTL

\* The tables, calls and events keep their types.
THEOREM LifecycleTypeCorrect == Spec => []TypeOK
  <1>1. LifecycleInv => TypeOK
    BY DEF LifecycleInv
  <1> QED BY <1>1, LifecycleInvariant, PTL

-----------------------------------------------------------------------------
(***************************************************************************)
(* When requests do not overlap.                                           *)
(*                                                                         *)
(* Then one thing happens at a time, a request, the event it published or  *)
(* one call of processRule, except that a request may run beside the       *)
(* reconciliation of a scheduler that starts.  So the row that a call read *)
(* is still the row when it writes the status and calls the registry,      *)
(* unless such a request has written it, which is then about to publish.   *)
(* And a rule whose job and row disagree is always about to be looked at   *)
(* again: a call has it in hand, an event about it is on the bus or about  *)
(* to be published, or the scheduler is down and reads every row when it   *)
(* starts.                                                                 *)
(***************************************************************************)

Active(p) == proc[p].pc # "idle" \/ proc[p].todo # {}

\* One request, one event or one call of processRule at a time, but for the
\* startup's calls beside a request, and which of them each phase of main
\* allows.
OneAtATime ==
    /\ \A q \in Requests : req[q].pc # "idle" =>
          /\ NoEvent
          /\ \A p \in Procs \ {"startup"} : ~Active(p)
          /\ \A other \in Requests : req[other].pc # "idle" => other = q
    /\ \A s \in Subjects : bus[s] # <<>> =>
          /\ NoProcess /\ phase = "serving" /\ Len(bus[s]) = 1
          /\ \A other \in Subjects : bus[other] # <<>> => other = s
    /\ \A p \in Procs : Active(p) =>
          /\ phase # "down" /\ (p = "startup" <=> phase = "startup")
          /\ p \in Subjects => phase = "serving"
          /\ \A other \in Procs : Active(other) => other = p

\* A request has changed what it wants to and is about to publish the event.
Publishing(r) == \E q \in Requests : req[q].pc = "publish" /\ req[q].rule = r

\* What a call of processRule found in the row is still there.
Current(p) ==
    LET row == rules[proc[p].rule] IN
    /\ row # NoRow
    /\ proc[p].pc # "unschedule" => row.enabled /\ row.spec = proc[p].spec
    /\ (proc[p].pc = "unschedule" /\ "status" \notin faults) =>
          ~row.enabled \/ row.status = "INVALID"
    /\ (proc[p].pc = "schedule" /\ "status" \notin faults) => row.status = "ACTIVE"

\* Otherwise a request has written the row and has still to publish, or did
\* so in vain.
CallsAreCurrent ==
    \A p \in Procs : proc[p].pc # "idle" =>
        \/ Current(p)
        \/ /\ "race" \in faults
           /\ Publishing(proc[p].rule) \/ faults \cap {"lost", "gap", "die"} # {}

\* A call of processRule has the rule, or comes to it later.
InCall(r) == \E p \in Procs : proc[p].pc # "idle" /\ proc[p].rule = r
InHand(r) == InCall(r) \/ \E p \in Procs : r \in proc[p].todo

\* An event about the rule is on the bus, or about to be.
Announced(r) ==
    Publishing(r) \/ \E s \in Subjects : bus[s] # <<>> /\ Head(bus[s]) = r

Matches(r) ==
    rules[r] # NoRow =>
        jobs[r] = IF rules[r].enabled /\ rules[r].status = "ACTIVE"
                  THEN rules[r].spec ELSE NoSpec

\* The faults that leave a job and its row apart.
Missed ==
    \/ faults \cap {"lost", "gap", "die", "status", "get"} # {}
    \/ {"crash", "list"} \subseteq faults

JobsFollow ==
    ~Missed =>
        \A r \in Rules : Matches(r) \/ phase = "down" \/ InHand(r) \/ Announced(r)

\* A rule with status ACTIVE that has no such job is in hand, or a crash took
\* its job and the restart comes to it or has failed to read it.
ActiveFollows ==
    faults \cap {"status", "race"} = {} =>
        \A r \in Rules : (rules[r] # NoRow /\ rules[r].status = "ACTIVE") =>
            /\ rules[r].enabled
            /\ \/ jobs[r] = rules[r].spec \/ InCall(r)
               \/ /\ "crash" \in faults
                  /\ \/ phase = "down" \/ r \in proc["startup"].todo
                     \/ faults \cap {"list", "get"} # {}

\* While the scheduler is down there are no jobs, and before it has ever run
\* no row is ACTIVE.
DownIsEmpty ==
    phase = "down" =>
        \A r \in Rules :
            /\ jobs[r] = NoSpec
            /\ "crash" \notin faults /\ rules[r] # NoRow => rules[r].status # "ACTIVE"

\* The inductive invariant.
SerialInv ==
    /\ TypeOK
    /\ OneAtATime
    /\ CallsAreCurrent
    /\ JobsFollow
    /\ ActiveFollows
    /\ DownIsEmpty

-----------------------------------------------------------------------------
\* Nothing but the startup is in progress while a request is.
LEMMA OnlyRequest ==
  ASSUME OneAtATime, NEW q \in Requests, req[q].pc # "idle"
  PROVE  /\ NoEvent
         /\ \A p \in Procs : Active(p) => p = "startup" /\ phase = "startup"
         /\ \A other \in Requests : other # q => req[other].pc = "idle"
         /\ \A r : Announced(r) <=> req[q].pc = "publish" /\ req[q].rule = r
  <1>1. /\ NoEvent
        /\ \A p \in Procs : Active(p) => p = "startup" /\ phase = "startup"
        /\ \A other \in Requests : other # q => req[other].pc = "idle"
    BY DEF OneAtATime
  <1>2. \A r : Announced(r) <=> req[q].pc = "publish" /\ req[q].rule = r
    BY <1>1 DEF NoEvent, Announced, Publishing
  <1> QED BY <1>1, <1>2

\* Nothing else is in progress while a call of processRule is, but a request
\* beside the startup.
LEMMA OnlyCall ==
  ASSUME OneAtATime, NEW p \in Procs, Active(p)
  PROVE  /\ NoEvent /\ phase # "down"
         /\ p # "startup" => NoRequest
         /\ p = "startup" <=> phase = "startup"
         /\ p \in Subjects => phase = "serving"
         /\ \A other \in Procs : other # p => ~Active(other)
         /\ \A r : Announced(r) <=> Publishing(r)
         /\ \A r : InCall(r) <=> (proc[p].pc # "idle" /\ proc[p].rule = r)
         /\ \A r : InHand(r) <=> (proc[p].pc # "idle" /\ proc[p].rule = r) \/ r \in proc[p].todo
  <1>1. ~NoProcess
    BY DEF Active, NoProcess, Idle
  <1>2. NoEvent /\ phase # "down" /\ (p # "startup" => NoRequest)
    BY <1>1 DEF OneAtATime, NoRequest, NoEvent
  <1>3. /\ (p = "startup" <=> phase = "startup") /\ (p \in Subjects => phase = "serving")
        /\ \A other \in Procs : other # p => ~Active(other)
    BY DEF OneAtATime
  <1>4. /\ \A r : InCall(r) <=> (proc[p].pc # "idle" /\ proc[p].rule = r)
        /\ \A r : InHand(r) <=> (proc[p].pc # "idle" /\ proc[p].rule = r) \/ r \in proc[p].todo
    BY <1>3 DEF InCall, InHand, Active
  <1>5. \A r : Announced(r) <=> Publishing(r)
    BY <1>2 DEF Announced, NoEvent
  <1> QED BY <1>2, <1>3, <1>4, <1>5

LEMMA OnlyEvent ==
  ASSUME OneAtATime, NEW s \in Subjects, bus[s] # <<>>
  PROVE  /\ NoRequest /\ NoProcess /\ phase = "serving" /\ Len(bus[s]) = 1
         /\ \A other \in Subjects : other # s => bus[other] = <<>>
         /\ \A r : ~InHand(r)
         /\ \A r : Announced(r) <=> Head(bus[s]) = r
  <1>1. /\ NoRequest /\ NoProcess /\ phase = "serving" /\ Len(bus[s]) = 1
        /\ \A other \in Subjects : other # s => bus[other] = <<>>
    BY DEF OneAtATime, NoRequest, NoEvent
  <1>2. \A r : ~InHand(r)
    BY <1>1 DEF NoProcess, Idle, InHand, InCall
  <1>3. \A r : Announced(r) <=> Head(bus[s]) = r
    BY <1>1 DEF NoRequest, Announced, Publishing
  <1> QED BY <1>1, <1>2, <1>3

\* A step that leaves the rows, the jobs and what is in progress alone.
LEMMA SameKeeps ==
  ASSUME SerialInv, TypeOK', UNCHANGED <<rules, req, bus, phase, proc, jobs>>, faults \subseteq faults'
  PROVE  SerialInv'
  <1>1. OneAtATime'
    BY DEF SerialInv, OneAtATime, NoProcess, Idle, NoEvent, Active
  <1>2. CallsAreCurrent'
    BY DEF SerialInv, CallsAreCurrent, Current, Publishing
  <1>3. JobsFollow'
    BY DEF SerialInv, JobsFollow, Missed, Matches, InHand, InCall, Announced, Publishing
  <1>4. ActiveFollows'
    BY DEF SerialInv, ActiveFollows, InCall
  <1>5. DownIsEmpty'
    BY DEF SerialInv, DownIsEmpty
  <1> QED BY <1>1, <1>2, <1>3, <1>4, <1>5 DEF SerialInv

\* A step of a request: the row it writes is announced and not ACTIVE, and if
\* the startup has it in hand, that is on record.
LEMMA RequestKeeps ==
  ASSUME SerialInv, TypeOK', NEW q \in Requests, NEW r \in Rules,
         NoEvent,
         \A p \in Procs : Active(p) => p = "startup" /\ phase = "startup",
         \A other \in Requests : other # q => req[other].pc = "idle",
         \A x \in Rules : ~Announced(x),
         UNCHANGED <<bus, phase, proc, jobs>>, faults \subseteq faults',
         \A other \in Requests : other # q => req'[other] = req[other],
         \/ UNCHANGED rules
         \/ /\ req'[q].pc = "publish" /\ req'[q].rule = r
            /\ InCall(r) => "race" \in faults',
         \A x \in Rules : rules'[x] # rules[x] =>
             x = r /\ (rules'[x] # NoRow => rules'[x].status # "ACTIVE")
  PROVE  SerialInv'
  <1>1. OneAtATime'
    BY DEF SerialInv, OneAtATime, NoProcess, Idle, NoEvent, Active
  <1>2. CallsAreCurrent'
    <2>1. SUFFICES ASSUME NEW p \in Procs, proc[p].pc # "idle"
                   PROVE  \/ Current(p)'
                          \/ /\ "race" \in faults'
                             /\ \/ Publishing(proc[p].rule)'
                                \/ faults' \cap {"lost", "gap", "die"} # {}
      BY DEF CallsAreCurrent
    <2>2. \/ Current(p)
          \/ "race" \in faults /\ faults \cap {"lost", "gap", "die"} # {}
      <3>1. proc[p].rule \in Rules
        BY DEF SerialInv, TypeOK, Proc
      <3> QED BY <2>1, <3>1 DEF SerialInv, CallsAreCurrent, Announced
    <2>3. CASE rules'[proc[p].rule] = rules[proc[p].rule]
      BY <2>2, <2>3 DEF Current
    <2>4. CASE rules'[proc[p].rule] # rules[proc[p].rule]
      <3>1. proc[p].rule \in Rules
        BY DEF SerialInv, TypeOK, Proc
      <3>2. proc[p].rule = r /\ InCall(r)
        BY <2>1, <2>4, <3>1 DEF InCall
      <3> QED BY <2>4, <3>2 DEF Publishing
    <2> QED BY <2>3, <2>4
  <1>3. \A x \in Rules : (InHand(x) => InHand(x)') /\ (InCall(x) => InCall(x)')
    BY DEF InHand, InCall
  <1>4. JobsFollow'
    <2>1. SUFFICES ASSUME ~Missed', NEW x \in Rules, phase # "down"
                   PROVE  Matches(x)' \/ InHand(x)' \/ Announced(x)'
      BY DEF JobsFollow
    <2>2. Matches(x) \/ InHand(x)
      BY <2>1 DEF SerialInv, JobsFollow, Missed
    <2>3. CASE rules'[x] = rules[x]
      BY <1>3, <2>2, <2>3 DEF Matches
    <2>4. CASE rules'[x] # rules[x]
      BY <2>4 DEF Announced, Publishing
    <2> QED BY <2>3, <2>4
  <1>5. ActiveFollows'
    <2>1. SUFFICES ASSUME faults' \cap {"status", "race"} = {}, NEW x \in Rules,
                          rules'[x] # NoRow, rules'[x].status = "ACTIVE"
                   PROVE  /\ rules'[x].enabled
                          /\ \/ jobs[x] = rules'[x].spec \/ InCall(x)'
                             \/ /\ "crash" \in faults'
                                /\ \/ phase = "down" \/ x \in proc["startup"].todo
                                   \/ faults' \cap {"list", "get"} # {}
      BY DEF ActiveFollows
    <2>2. rules'[x] = rules[x]
      BY <2>1
    <2> QED BY <1>3, <2>1, <2>2 DEF SerialInv, ActiveFollows
  <1>6. DownIsEmpty'
    BY DEF SerialInv, DownIsEmpty
  <1> QED BY <1>1, <1>2, <1>4, <1>5, <1>6 DEF SerialInv

\* A write to a row that a call has in hand is recorded, and forgets nothing.
LEMMA WriteRecorded ==
  ASSUME NEW r, NEW row, WriteRow(r, row)
  PROVE  faults \subseteq faults' /\ (InCall(r) => "race" \in faults')
  BY DEF WriteRow, InCall

\* The fields of a row that WriteRow or a status write leaves in the table.
LEMMA DraftStatus == \A rec : Draft(rec).status = "DRAFT"
  BY DEF Draft

\* The first step of each handler: it finds nothing in progress but perhaps
\* the startup.
LEMMA BeginKeeps ==
  ASSUME ~Overlap, SerialInv, TypeOK', NEW q \in Requests, NEW r \in Rules, NEW rec \in UiRow,
         NEW on \in BOOLEAN,
         \/ StepperCreate(q, r, rec) \/ StepperUpdate(q, r, rec)
         \/ StepperToggle(q, r, on) \/ StepperDelete(q, r)
         \/ RuleCreate(q, r, rec) \/ RuleUpdate(q, r, rec)
         \/ RuleToggle(q, r, on)
  PROVE  SerialInv'
  <1>1. PICK op : Begin(q, op)
    BY DEF StepperCreate, StepperUpdate, StepperToggle, StepperDelete,
           RuleCreate, RuleUpdate, RuleToggle
  <1>2. /\ NoRequest /\ NoEvent
        /\ UNCHANGED <<bus, phase, proc, jobs>>
        /\ \A p \in Procs : Active(p) => p = "startup"
    BY <1>1 DEF Begin, MayBegin, Idle, Active
  <1>3. \A p \in Procs : Active(p) => p = "startup" /\ phase = "startup"
    BY <1>2 DEF SerialInv, OneAtATime
  <1>4. \A x : ~Announced(x)
    BY <1>2 DEF NoRequest, NoEvent, Announced, Publishing
  <1>5. req \in [Requests -> Request] /\ rules \in [Rules -> Row \cup {NoRow}]
    BY DEF SerialInv, TypeOK
  <1>6. \A other \in Requests : other # q => req'[other] = req[other]
    BY <1>5 DEF StepperCreate, StepperUpdate, StepperToggle, StepperDelete,
           RuleCreate, RuleUpdate, RuleToggle, Proceed
  <1>7. CASE UNCHANGED <<rules, faults>>
    <2>1. \A x \in Rules : rules'[x] = rules[x]
      BY <1>7
    <2> QED BY <1>2, <1>3, <1>4, <1>6, <1>7, <2>1, RequestKeeps DEF NoRequest
  <1>8. CASE RuleCreate(q, r, rec)
    <2>0. WriteRow(r, Draft(rec))
      BY <1>8 DEF RuleCreate
    <2>1. rules' = [rules EXCEPT ![r] = Draft(rec)]
      BY <2>0 DEF WriteRow
    <2>2. \A x \in Rules : rules'[x] # rules[x] => x = r /\ rules'[x].status # "ACTIVE"
      BY <1>5, <2>1, DraftStatus
    <2>3. req'[q].pc = "publish" /\ req'[q].rule = r
      BY <1>5, <1>8 DEF RuleCreate, Proceed
    <2>4. faults \subseteq faults' /\ (InCall(r) => "race" \in faults')
      BY <2>0, WriteRecorded
    <2> QED BY <1>2, <1>3, <1>4, <1>6, <2>2, <2>3, <2>4, RequestKeeps DEF NoRequest
  <1>9. CASE RuleToggle(q, r, on) /\ rules[r] # NoRow
    <2> DEFINE row == [rules[r] EXCEPT !.enabled = on,
                          !.status = IF on THEN "DRAFT" ELSE "DISABLED"]
    <2>0. WriteRow(r, row)
      BY <1>9 DEF RuleToggle
    <2>2. row.status # "ACTIVE"
      BY <1>5, <1>9 DEF Row
    <2> HIDE DEF row
    <2>1. rules' = [rules EXCEPT ![r] = row]
      BY <2>0 DEF WriteRow
    <2>3. \A x \in Rules : rules'[x] # rules[x] => x = r /\ rules'[x].status # "ACTIVE"
      BY <1>5, <2>1, <2>2
    <2>4. req'[q].pc = "publish" /\ req'[q].rule = r
      BY <1>5, <1>9 DEF RuleToggle, Proceed
    <2>5. faults \subseteq faults' /\ (InCall(r) => "race" \in faults')
      BY <2>0, WriteRecorded
    <2> QED BY <1>2, <1>3, <1>4, <1>6, <2>3, <2>4, <2>5, RequestKeeps DEF NoRequest
  <1> QED BY <1>7, <1>8, <1>9 DEF StepperCreate, StepperUpdate, StepperToggle,
        StepperDelete, RuleCreate, RuleUpdate, RuleToggle

\* A request ends, with its event or without; what was announced is on the
\* bus, or the faults say why not.
LEMMA EndKeeps ==
  ASSUME SerialInv, TypeOK', NEW q \in Requests, req[q].pc # "idle",
         UNCHANGED <<rules, phase, proc, jobs>>, faults \subseteq faults',
         \A other \in Requests : req'[other].pc = "idle",
         \/ /\ UNCHANGED bus
            /\ \/ phase = "down"
               \/ faults' \cap {"lost", "gap", "die"} # {}
         \/ /\ phase = "serving" /\ req[q].pc = "publish"
            /\ req[q].subject \in Subjects /\ req[q].rule \in Rules
            /\ bus' = [bus EXCEPT ![req[q].subject] = Append(@, req[q].rule)]
  PROVE  SerialInv'
  <1>0. PICK s, r : s = req[q].subject /\ r = req[q].rule
    OBVIOUS
  <1>1. /\ NoEvent
        /\ \A p \in Procs : Active(p) => p = "startup" /\ phase = "startup"
        /\ \A x : Announced(x) <=> req[q].pc = "publish" /\ r = x
    BY <1>0, OnlyRequest DEF SerialInv
  <1>2. bus \in [Subjects -> Seq(Rules)]
    BY DEF SerialInv, TypeOK
  <1>3. /\ \A x \in Rules : InHand(x)' <=> InHand(x)
        /\ \A x \in Rules : InCall(x)' <=> InCall(x)
    BY DEF InHand, InCall
  <1>4. ActiveFollows' /\ DownIsEmpty'
    BY <1>3 DEF SerialInv, ActiveFollows, DownIsEmpty
  <1>5. CASE UNCHANGED bus /\ (phase = "down" \/ faults' \cap {"lost", "gap", "die"} # {})
    <2>1. OneAtATime'
      BY <1>1, <1>5 DEF SerialInv, OneAtATime, NoEvent, Active
    <2>2. JobsFollow'
      BY <1>5 DEF JobsFollow, Missed
    <2>3. CallsAreCurrent'
      BY <1>1, <1>5 DEF SerialInv, OneAtATime, Active, CallsAreCurrent, Current
    <2> QED BY <1>4, <2>1, <2>2, <2>3 DEF SerialInv
  <1>6. CASE /\ phase = "serving" /\ req[q].pc = "publish" /\ s \in Subjects /\ r \in Rules
             /\ bus' = [bus EXCEPT ![s] = Append(@, r)]
    <2>1. /\ bus'[s] = Append(<<>>, r)
          /\ \A other \in Subjects : other # s => bus'[other] = <<>>
      BY <1>1, <1>2, <1>6 DEF NoEvent
    <2>2. Append(<<>>, r) # <<>> /\ Len(Append(<<>>, r)) = 1 /\ Head(Append(<<>>, r)) = r
      <3>1. <<>> \in Seq(Rules)
        OBVIOUS
      <3> QED BY <1>6, <3>1
    <2>3. \A p \in Procs : ~Active(p)
      BY <1>1, <1>6
    <2>4. OneAtATime'
      BY <1>6, <2>1, <2>2, <2>3 DEF OneAtATime, NoProcess, Idle, Active
    <2>5. Announced(r)'
      BY <1>6, <2>1, <2>2 DEF Announced
    <2>6. JobsFollow'
      <3>1. ASSUME ~Missed', NEW x \in Rules, x # r
            PROVE  Matches(x)' \/ InHand(x)'
        BY <1>1, <1>3, <1>6, <3>1 DEF SerialInv, JobsFollow, Missed, Matches
      <3> QED BY <2>5, <3>1 DEF JobsFollow
    <2>7. CallsAreCurrent'
      BY <2>3 DEF CallsAreCurrent, Active
    <2> QED BY <1>4, <2>4, <2>6, <2>7 DEF SerialInv
  <1> QED BY <1>0, <1>5, <1>6

\* A handler publishes: the rule's event is on the bus, or lost, or nobody has
\* subscribed yet, or the scheduler is down.
LEMMA PublishKeeps ==
  ASSUME SerialInv, TypeOK', NEW q \in Requests, Publish(q)
  PROVE  SerialInv'
  <1>0. req[q].pc = "publish" /\ req \in [Requests -> Request] /\ req[q] \in Request
    BY DEF Publish, SerialInv, TypeOK
  <1>1. req[q].rule \in Rules /\ req[q].subject \in Subjects
    BY <1>0 DEF Request
  <1>2. \A other \in Requests : other # q => req[other].pc = "idle"
    BY <1>0, OnlyRequest DEF SerialInv
  <1>3. /\ \A other \in Requests : req'[other].pc = "idle"
        /\ UNCHANGED <<rules, phase, proc, jobs>> /\ faults \subseteq faults'
    BY <1>0, <1>2 DEF Publish, Fault, IdleRequest
  <1>4. phase \in {"down", "startup", "window", "serving"}
    BY DEF SerialInv, TypeOK
  <1>5. \/ UNCHANGED bus /\ (phase = "down" \/ faults' \cap {"lost", "gap", "die"} # {})
        \/ phase = "serving" /\ bus' = [bus EXCEPT ![req[q].subject] = Append(@, req[q].rule)]
    BY <1>4 DEF Publish, Fault
  <1> QED BY <1>0, <1>1, <1>3, <1>5, EndKeeps

\* The other steps of a handler, and its end.
LEMMA ServeKeeps ==
  ASSUME SerialInv, TypeOK', NEW q \in Requests, ServeRequest(q) \/ RequestDies(q)
  PROVE  SerialInv'
  <1> DEFINE r == req[q].rule
  <1>0. /\ req[q].pc # "idle" /\ req \in [Requests -> Request] /\ r \in Rules
        /\ rules \in [Rules -> Row \cup {NoRow}]
    BY DEF ServeRequest, StepperGet, UnlinkRule, SyncBuild, SyncUpsert, RuleWrite, Publish,
           RequestDies, SerialInv, TypeOK, Request
  <1>1. /\ NoEvent
        /\ \A p \in Procs : Active(p) => p = "startup" /\ phase = "startup"
        /\ \A other \in Requests : other # q => req[other].pc = "idle"
        /\ \A x : Announced(x) <=> req[q].pc = "publish" /\ x = r
    BY <1>0, OnlyRequest DEF SerialInv
  <1>2. CASE StepperGet(q) \/ SyncBuild(q)
    <2>1. UNCHANGED <<rules, bus, phase, proc, jobs, faults>> /\ \A x : ~Announced(x)
      BY <1>1, <1>2 DEF StepperGet, SyncBuild
    <2>2. \A other \in Requests : other # q => req'[other] = req[other]
      BY <1>0, <1>2 DEF StepperGet, SyncBuild
    <2>3. \A x \in Rules : rules'[x] = rules[x]
      BY <2>1
    <2> HIDE DEF r
    <2> QED BY <1>0, <1>1, <2>1, <2>2, <2>3, RequestKeeps
  <1>3. CASE UnlinkRule(q) \/ SyncUpsert(q) \/ RuleWrite(q)
    <2>1. /\ UNCHANGED <<bus, phase, proc, jobs>>
          /\ UNCHANGED rules \/ \E row : WriteRow(r, row)
          /\ faults \subseteq faults'
      BY <1>3, WriteRecorded DEF UnlinkRule, SyncUpsert, RuleWrite, Fault
    <2>2. /\ req'[q].pc = "publish" /\ req'[q].rule = r
          /\ \A other \in Requests : other # q => req'[other] = req[other]
      BY <1>0, <1>3 DEF UnlinkRule, SyncUpsert, RuleWrite, Request
    <2>3. \A x \in Rules : rules'[x] # rules[x] =>
               x = r /\ (rules'[x] # NoRow => rules'[x].status # "ACTIVE")
      BY <1>0, <1>3, DraftStatus DEF UnlinkRule, SyncUpsert, RuleWrite, WriteRow
    <2>4. \A x : ~Announced(x)
      BY <1>1, <1>3 DEF UnlinkRule, SyncUpsert, RuleWrite
    <2>5. UNCHANGED rules \/ (InCall(r) => "race" \in faults')
      BY <2>1, WriteRecorded
    <2> HIDE DEF r
    <2> QED BY <1>0, <1>1, <2>1, <2>2, <2>3, <2>4, <2>5, RequestKeeps
  <1>4. CASE Publish(q)
    BY <1>4, PublishKeeps
  <1>5. CASE RequestDies(q)
    <2>1. /\ UNCHANGED <<rules, bus, phase, proc, jobs>>
          /\ faults \subseteq faults' /\ "die" \in faults'
      BY <1>5 DEF RequestDies, Fault
    <2>2. \A other \in Requests : req'[other].pc = "idle"
      BY <1>0, <1>1, <1>5 DEF RequestDies, IdleRequest
    <2> QED BY <1>0, <2>1, <2>2, EndKeeps
  <1> QED BY <1>2, <1>3, <1>4, <1>5 DEF ServeRequest

-----------------------------------------------------------------------------
\* A step of call p, the only one in progress, beside which only a request may
\* run, and that only at the startup.
LEMMA AloneKeeps ==
  ASSUME SerialInv, NEW p \in Procs, phase # "down", p # "startup" => NoRequest,
         p = "startup" <=> phase = "startup", p \in Subjects => phase = "serving",
         \A other \in Procs : other # p => ~Active(other),
         UNCHANGED <<req, phase>>, \A s \in Subjects : bus'[s] = <<>>,
         \A other \in Procs : other # p => proc'[other] = proc[other]
  PROVE  /\ OneAtATime' /\ DownIsEmpty'
         /\ \A r : InCall(r)' <=> proc'[p].pc # "idle" /\ proc'[p].rule = r
         /\ \A r : InHand(r)' <=> \/ proc'[p].pc # "idle" /\ proc'[p].rule = r
                                  \/ r \in proc'[p].todo
         /\ \A other \in Procs : other # p => proc'[other].pc = "idle"
         /\ \A r : Publishing(r)' <=> Publishing(r)
  <1>1. \A other \in Procs : other # p => proc'[other].pc = "idle" /\ proc'[other].todo = {}
    BY DEF Active
  <1>2. OneAtATime'
    <2>1. \A q \in Requests : req[q].pc # "idle" =>
             /\ p = "startup"
             /\ \A other \in Requests : req[other].pc # "idle" => other = q
      BY DEF NoRequest, SerialInv, OneAtATime
    <2> QED BY <1>1, <2>1 DEF OneAtATime, NoEvent, Active
  <1>3. DownIsEmpty'
    BY DEF DownIsEmpty
  <1>4. /\ \A r : InCall(r)' <=> proc'[p].pc # "idle" /\ proc'[p].rule = r
        /\ \A r : InHand(r)' <=> \/ proc'[p].pc # "idle" /\ proc'[p].rule = r
                                 \/ r \in proc'[p].todo
    BY <1>1 DEF InHand, InCall
  <1>5. \A r : Publishing(r)' <=> Publishing(r)
    BY DEF Publishing
  <1> QED BY <1>1, <1>2, <1>3, <1>4, <1>5

\* What GetRule leaves behind: the call has the row in hand as it is, or there
\* is no row, or a fault is on record.
LEMMA GetRuleFinds ==
  ASSUME SerialInv, NEW p \in Procs, NEW r \in Rules, NEW todo \in SUBSET Rules,
         GetRule(p, r, todo)
  PROVE  /\ \A other \in Procs : other # p => proc'[other] = proc[other]
         /\ proc'[p].todo = todo /\ faults \subseteq faults'
         /\ \/ /\ rules[r] # NoRow
               /\ proc'[p].pc = IF rules[r].enabled THEN "check" ELSE "unschedule"
               /\ proc'[p].rule = r /\ proc'[p].spec = rules[r].spec
            \/ proc'[p].pc = "idle" /\ (rules[r] = NoRow \/ "get" \in faults')
  <1>1. proc \in [Procs -> Proc]
    BY DEF SerialInv, TypeOK
  <1>2. CASE /\ rules[r] # NoRow /\ UNCHANGED faults
             /\ proc' = [proc EXCEPT ![p] =
                   [pc |-> IF rules[r].enabled THEN "check" ELSE "unschedule",
                    rule |-> r, spec |-> rules[r].spec, todo |-> todo]]
    BY <1>1, <1>2
  <1>3. CASE /\ \/ rules[r] = NoRow /\ UNCHANGED faults
                \/ Fault("get")
             /\ proc' = [proc EXCEPT ![p] = [IdleProc EXCEPT !.todo = todo]]
    <2>1. proc'[p] = [IdleProc EXCEPT !.todo = todo]
      BY <1>1, <1>3
    <2>2. proc'[p].pc = "idle" /\ proc'[p].todo = todo
      BY <2>1 DEF IdleProc
    <2> QED BY <1>1, <1>3, <2>2 DEF Fault
  <1> QED BY <1>2, <1>3 DEF GetRule

\* A call looks at the next rule, from an event or from a list.
LEMMA GetKeeps ==
  ASSUME SerialInv, TypeOK', NEW p \in Procs, NEW r \in Rules, NEW todo \in SUBSET Rules,
         GetRule(p, r, todo), phase # "down", p # "startup" => NoRequest,
         p = "startup" <=> phase = "startup", p \in Subjects => phase = "serving",
         \A other \in Procs : other # p => ~Active(other),
         proc[p].pc = "idle", proc[p].todo \ {r} \subseteq todo,
         UNCHANGED <<rules, req, phase, jobs>>, \A s \in Subjects : bus'[s] = <<>>,
         \A x \in Rules : InHand(x) \/ Announced(x) => x = r \/ x \in todo \/ Publishing(x)
  PROVE  SerialInv'
  <1>1. /\ \A other \in Procs : other # p => proc'[other] = proc[other]
        /\ proc'[p].todo = todo /\ faults \subseteq faults'
        /\ \/ /\ rules[r] # NoRow
              /\ proc'[p].pc = IF rules[r].enabled THEN "check" ELSE "unschedule"
              /\ proc'[p].rule = r /\ proc'[p].spec = rules[r].spec
           \/ proc'[p].pc = "idle" /\ (rules[r] = NoRow \/ "get" \in faults')
    BY GetRuleFinds
  <1>2. /\ OneAtATime' /\ DownIsEmpty'
        /\ \A x : InCall(x)' <=> proc'[p].pc # "idle" /\ proc'[p].rule = x
        /\ \A x : InHand(x)' <=> \/ proc'[p].pc # "idle" /\ proc'[p].rule = x
                                 \/ x \in proc'[p].todo
        /\ \A other \in Procs : other # p => proc'[other].pc = "idle"
        /\ \A x : Publishing(x)' <=> Publishing(x)
    BY <1>1, AloneKeeps
  <1>3. CallsAreCurrent'
    BY <1>1, <1>2 DEF CallsAreCurrent, Current
  <1>4. \A x \in Rules : (InHand(x) \/ Announced(x)) =>
           InHand(x)' \/ Announced(x)' \/ rules[x] = NoRow \/ "get" \in faults'
    BY <1>1, <1>2 DEF Announced
  <1>5. JobsFollow'
    BY <1>1, <1>4 DEF SerialInv, JobsFollow, Missed, Matches
  <1>6. ActiveFollows'
    <2>1. SUFFICES ASSUME faults' \cap {"status", "race"} = {}, NEW x \in Rules,
                          rules[x] # NoRow, rules[x].status = "ACTIVE"
                   PROVE  /\ rules[x].enabled
                          /\ \/ jobs[x] = rules[x].spec \/ InCall(x)'
                             \/ /\ "crash" \in faults'
                                /\ \/ x \in proc'["startup"].todo
                                   \/ faults' \cap {"list", "get"} # {}
      BY DEF ActiveFollows
    <2>2. ~InCall(x)
      BY DEF InCall, Active
    <2>3. /\ rules[x].enabled
          /\ \/ jobs[x] = rules[x].spec
             \/ /\ "crash" \in faults
                /\ x \in proc["startup"].todo \/ faults \cap {"list", "get"} # {}
      BY <1>1, <2>1, <2>2 DEF SerialInv, ActiveFollows
    <2>4. CASE x = r
      BY <1>1, <1>2, <2>1, <2>3, <2>4
    <2>5. CASE x # r
      <3>1. x \in proc["startup"].todo => x \in proc'["startup"].todo
        <4>1. "startup" \in Procs
          BY DEF Procs
        <4> QED BY <1>1, <2>5, <4>1
      <3> QED BY <1>1, <2>3, <3>1
    <2> QED BY <2>4, <2>5
  <1> QED BY <1>2, <1>3, <1>5, <1>6 DEF SerialInv

\* A call moves on to the next statement about its rule, having written at
\* most its status.
LEMMA AdvanceKeeps ==
  ASSUME SerialInv, TypeOK', NEW p \in Procs, proc[p].pc \in {"check", "invalid", "active"},
         Check(p) \/ MarkInvalid(p) \/ MarkActive(p)
  PROVE  SerialInv'
  <1>0. /\ proc \in [Procs -> Proc] /\ rules \in [Rules -> Row \cup {NoRow}]
        /\ proc[p].rule \in Rules /\ Active(p) /\ faults \subseteq faults'
        /\ UNCHANGED <<req, bus, phase, jobs>>
    BY DEF SerialInv, TypeOK, Proc, Active, Check, MarkInvalid, MarkActive, UpdateStatus, Fault
  <1>1. PICK r \in Rules : r = proc[p].rule
    BY <1>0
  <1>2. PICK pc \in {"active", "invalid", "unschedule", "schedule"} :
           /\ proc' = [proc EXCEPT ![p].pc = pc]
           /\ Check(p) => pc \in {"active", "invalid"} /\ UNCHANGED rules
           /\ MarkInvalid(p) => pc = "unschedule"
           /\ MarkActive(p) => pc = "schedule"
    BY DEF Check, MarkInvalid, MarkActive
  <1>3. /\ proc'[p].pc = pc /\ proc'[p].rule = r /\ proc'[p].spec = proc[p].spec
        /\ proc'[p].todo = proc[p].todo
        /\ \A other \in Procs : other # p => proc'[other] = proc[other]
        /\ \A x \in Procs : proc'[x].todo = proc[x].todo
    BY <1>0, <1>1, <1>2 DEF Proc
  <1>4. /\ NoEvent /\ phase # "down" /\ (p # "startup" => NoRequest)
        /\ (p = "startup" <=> phase = "startup") /\ (p \in Subjects => phase = "serving")
        /\ \A other \in Procs : other # p => ~Active(other)
        /\ \A x : Announced(x) <=> Publishing(x)
        /\ \A x : InCall(x) <=> (proc[p].pc # "idle" /\ r = x)
        /\ \A x : InHand(x) <=> (proc[p].pc # "idle" /\ r = x) \/ x \in proc[p].todo
    BY <1>0, <1>1, OnlyCall DEF SerialInv
  <1>5. /\ OneAtATime' /\ DownIsEmpty'
        /\ \A x : InCall(x)' <=> proc'[p].pc # "idle" /\ proc'[p].rule = x
        /\ \A x : InHand(x)' <=> \/ proc'[p].pc # "idle" /\ proc'[p].rule = x
                                 \/ x \in proc'[p].todo
        /\ \A other \in Procs : other # p => proc'[other].pc = "idle"
        /\ \A x : Publishing(x)' <=> Publishing(x)
    BY <1>0, <1>3, <1>4, AloneKeeps DEF NoEvent
  <1>6. /\ \A x \in Rules : InHand(x) => InHand(x)'
        /\ InHand(r)' /\ InCall(r)'
    BY <1>3, <1>4, <1>5
  \* What the step does to the row.
  <1> DEFINE Written ==
         /\ rules'[r] # NoRow /\ rules'[r].enabled /\ rules'[r].spec = rules[r].spec
         /\ (pc = "unschedule" /\ "status" \notin faults') => rules'[r].status = "INVALID"
         /\ (pc = "schedule" /\ "status" \notin faults') => rules'[r].status = "ACTIVE"
  <1>7. \A x \in Rules : x # r => rules'[x] = rules[x]
    BY <1>0, <1>1 DEF Check, MarkInvalid, MarkActive, UpdateStatus
  <1>8. ASSUME Current(p) PROVE Written
    <2>0. rules[r] # NoRow /\ rules[r].enabled /\ rules[r].spec = proc[p].spec
      BY <1>1, <1>8 DEF Current
    <2>1. CASE UNCHANGED rules /\ (pc \in {"active", "invalid"} \/ "status" \in faults')
      BY <2>0, <2>1
    <2>2. ASSUME NEW status \in {"INVALID", "ACTIVE"}, rules' = [rules EXCEPT ![r].status = status],
                 pc = IF status = "INVALID" THEN "unschedule" ELSE "schedule"
          PROVE  Written
      <3> DEFINE row == [rules[r] EXCEPT !.status = status]
      <3>1. rules' = [rules EXCEPT ![r] = row]
        BY <2>2
      <3>2. /\ row.enabled = rules[r].enabled /\ row.spec = rules[r].spec
            /\ row.status = status /\ row \in Row
        BY <1>0, <2>0 DEF Row
      <3>3. row # NoRow
        BY <3>2, LifecycleAssumption DEF Row
      <3> HIDE DEF row
      <3> QED BY <1>0, <2>0, <2>2, <3>1, <3>2, <3>3
    <2> QED BY <1>1, <1>2, <2>0, <2>1, <2>2 DEF Check, MarkInvalid, MarkActive, UpdateStatus, Fault
  <1>9. \/ Current(p)
        \/ /\ "race" \in faults
           /\ Publishing(r) \/ faults \cap {"lost", "gap", "die"} # {}
    BY <1>1 DEF SerialInv, CallsAreCurrent
  <1>10. CallsAreCurrent'
    <2>1. Current(p) => Current(p)'
      <3>1. ASSUME Current(p) PROVE Current(p)'
        <4>1. Written /\ rules[r].spec = proc[p].spec
          BY <1>1, <1>8, <3>1 DEF Current
        <4> QED BY <1>3, <4>1 DEF Current
      <3> QED BY <3>1
    <2>2. \A x \in Procs : proc'[x].pc # "idle" => x = p
      BY <1>5
    <2> HIDE DEF Written
    <2> QED BY <1>0, <1>3, <1>5, <1>9, <2>1, <2>2 DEF CallsAreCurrent
  <1> HIDE DEF Written
  <1>11. JobsFollow'
    <2>1. SUFFICES ASSUME ~Missed', NEW x \in Rules
                   PROVE  Matches(x)' \/ InHand(x)' \/ Announced(x)'
      BY DEF JobsFollow
    <2>2. CASE x = r
      BY <1>6, <2>2
    <2>3. CASE x # r
      <3>1. Matches(x) \/ InHand(x) \/ Announced(x)
        BY <1>0, <1>4, <2>1 DEF SerialInv, JobsFollow, Missed
      <3>2. Announced(x) => Announced(x)'
        BY <1>4, <1>5 DEF Announced
      <3> QED BY <1>0, <1>6, <1>7, <2>3, <3>1, <3>2 DEF Matches
    <2> QED BY <2>2, <2>3
  <1>12. ActiveFollows'
    <2>1. SUFFICES ASSUME faults' \cap {"status", "race"} = {}, NEW x \in Rules,
                          rules'[x] # NoRow, rules'[x].status = "ACTIVE"
                   PROVE  /\ rules'[x].enabled
                          /\ \/ jobs[x] = rules'[x].spec \/ InCall(x)'
                             \/ /\ "crash" \in faults'
                                /\ \/ x \in proc["startup"].todo
                                   \/ faults' \cap {"list", "get"} # {}
      BY <1>0, <1>3 DEF ActiveFollows, Procs
    <2>2. CASE x = r
      <3>1. Written
        BY <1>0, <1>8, <1>9, <2>1
      <3> QED BY <1>6, <2>2, <3>1 DEF Written
    <2>3. CASE x # r
      BY <1>0, <1>4, <1>7, <2>1, <2>3 DEF SerialInv, ActiveFollows
    <2> QED BY <2>2, <2>3
  <1> QED BY <1>5, <1>10, <1>11, <1>12 DEF SerialInv

\* A call reaches the registry and is done with its rule.
LEMMA FinishKeeps ==
  ASSUME SerialInv, TypeOK', NEW p \in Procs, Unschedule(p) \/ Schedule(p)
  PROVE  SerialInv'
  <1>0. /\ proc \in [Procs -> Proc] /\ jobs \in [Rules -> Specs \cup {NoSpec}]
        /\ proc[p].rule \in Rules /\ Active(p) /\ proc[p].pc \in {"unschedule", "schedule"}
        /\ proc[p].todo \in SUBSET Rules
        /\ UNCHANGED <<rules, req, bus, phase, faults>>
    BY DEF SerialInv, TypeOK, Proc, Active, Unschedule, Schedule
  <1>1. PICK r \in Rules : proc[p].rule = r
    BY <1>0
  <1>2. PICK job : /\ jobs' = [jobs EXCEPT ![r] = job]
                   /\ proc[p].pc = "unschedule" => job = NoSpec
                   /\ proc[p].pc = "schedule" => job = proc[p].spec
    BY <1>1 DEF Unschedule, Schedule
  <1>3. /\ proc'[p].pc = "idle" /\ proc'[p].todo = proc[p].todo
        /\ \A other \in Procs : other # p => proc'[other] = proc[other]
    BY <1>0 DEF Unschedule, Schedule, IdleProc
  <1>4. /\ NoEvent /\ phase # "down" /\ (p # "startup" => NoRequest)
        /\ (p = "startup" <=> phase = "startup") /\ (p \in Subjects => phase = "serving")
        /\ \A other \in Procs : other # p => ~Active(other)
        /\ \A x : Announced(x) <=> Publishing(x)
        /\ \A x : InCall(x) <=> (proc[p].pc # "idle" /\ r = x)
        /\ \A x : InHand(x) <=> (proc[p].pc # "idle" /\ r = x) \/ x \in proc[p].todo
    BY <1>0, <1>1, OnlyCall DEF SerialInv
  <1>5. /\ OneAtATime' /\ DownIsEmpty'
        /\ \A x : InCall(x)' <=> proc'[p].pc # "idle" /\ proc'[p].rule = x
        /\ \A x : InHand(x)' <=> \/ proc'[p].pc # "idle" /\ proc'[p].rule = x
                                 \/ x \in proc'[p].todo
        /\ \A other \in Procs : other # p => proc'[other].pc = "idle"
        /\ \A x : Publishing(x)' <=> Publishing(x)
    BY <1>0, <1>3, <1>4, AloneKeeps DEF NoEvent
  <1>6. CallsAreCurrent'
    BY <1>3, <1>5 DEF CallsAreCurrent
  <1>7. \A x \in Rules : x # r => jobs'[x] = jobs[x] /\ (InHand(x) => InHand(x)')
    BY <1>0, <1>2, <1>3, <1>4, <1>5
  <1>8. /\ jobs'[r] = job
        /\ \A x : Announced(x) => Announced(x)'
        /\ \A x \in Procs : proc'[x].todo = proc[x].todo
    BY <1>0, <1>1, <1>2, <1>3, <1>4, <1>5 DEF Announced
  <1>9. \/ Current(p)
        \/ /\ "race" \in faults
           /\ Publishing(r) \/ faults \cap {"lost", "gap", "die"} # {}
    BY <1>0, <1>1 DEF SerialInv, CallsAreCurrent
  <1>10. ASSUME Current(p), "status" \notin faults
         PROVE  /\ rules[r] # NoRow
                /\ proc[p].pc = "unschedule" => (rules[r].enabled => rules[r].status = "INVALID")
                /\ proc[p].pc = "schedule" =>
                      /\ rules[r].enabled /\ rules[r].status = "ACTIVE"
                      /\ job = rules[r].spec
    BY <1>1, <1>2, <1>10 DEF Current
  <1>11. JobsFollow'
    <2>1. SUFFICES ASSUME ~Missed, NEW x \in Rules
                   PROVE  Matches(x)' \/ InHand(x)' \/ Announced(x)'
      BY <1>0 DEF JobsFollow, Missed
    <2>2. CASE x = r
      <3>1. CASE Current(p)
        BY <1>0, <1>2, <1>8, <1>10, <2>1, <2>2, <3>1 DEF Matches, Missed
      <3>2. CASE ~Current(p)
        BY <1>4, <1>8, <1>9, <2>1, <2>2, <3>2 DEF Missed
      <3> QED BY <3>1, <3>2
    <2>3. CASE x # r
      BY <1>0, <1>4, <1>7, <1>8, <2>1, <2>3 DEF SerialInv, JobsFollow, Matches
    <2> QED BY <2>2, <2>3
  <1>12. ActiveFollows'
    <2>1. SUFFICES ASSUME faults \cap {"status", "race"} = {}, NEW x \in Rules, rules[x] # NoRow,
                          rules[x].status = "ACTIVE"
                   PROVE  /\ rules[x].enabled
                          /\ \/ jobs'[x] = rules[x].spec
                             \/ /\ "crash" \in faults
                                /\ \/ x \in proc["startup"].todo
                                   \/ faults \cap {"list", "get"} # {}
      BY <1>0, <1>8 DEF ActiveFollows, Procs
    <2>2. CASE x = r
      <3>1. rules[x].enabled
        BY <2>1 DEF SerialInv, ActiveFollows
      <3> QED BY <1>0, <1>8, <1>9, <1>10, <2>1, <2>2, <3>1
    <2>3. CASE x # r
      BY <1>4, <1>7, <2>1, <2>3 DEF SerialInv, ActiveFollows
    <2> QED BY <2>2, <2>3
  <1> QED BY <1>5, <1>6, <1>11, <1>12 DEF SerialInv

\* Every step of processRule.
LEMMA CallKeeps ==
  ASSUME SerialInv, TypeOK', NEW p \in Procs, ProcessRule(p)
  PROVE  SerialInv'
  <1>1. CASE HandleEvent(p)
    <2>1. /\ p \in Subjects /\ bus[p] # <<>> /\ bus \in [Subjects -> Seq(Rules)]
          /\ phase = "serving" /\ p # "startup"
      BY <1>1 DEF HandleEvent, SerialInv, TypeOK, Subjects
    <2>2. /\ NoRequest /\ NoProcess /\ Len(bus[p]) = 1
          /\ \A other \in Subjects : other # p => bus[other] = <<>>
          /\ \A x : ~InHand(x)
          /\ \A x : Announced(x) <=> Head(bus[p]) = x
      BY <2>1, OnlyEvent DEF SerialInv
    <2>3. Head(bus[p]) \in Rules /\ Tail(bus[p]) = <<>>
      <3>1. \A e \in Seq(Rules) : Len(e) = 1 => Head(e) \in Rules /\ Tail(e) \in Seq(Rules) /\ Len(Tail(e)) = 0
        OBVIOUS
      <3>2. \A e \in Seq(Rules) : Len(e) = 0 => e = <<>>
        OBVIOUS
      <3>3. bus[p] \in Seq(Rules)
        BY <2>1
      <3> QED BY <2>2, <3>1, <3>2, <3>3
    <2>4. \A s \in Subjects : bus'[s] = <<>>
      BY <1>1, <2>1, <2>2, <2>3 DEF HandleEvent
    <2>5. \A other \in Procs : ~Active(other)
      BY <2>2 DEF NoProcess, Idle, Active
    <2>6. GetRule(p, Head(bus[p]), {}) /\ UNCHANGED <<rules, req, phase, jobs>>
      BY <1>1 DEF HandleEvent
    <2>7. proc[p].pc = "idle" /\ proc[p].todo = {}
      BY <2>5 DEF Active
    <2> QED BY <2>1, <2>2, <2>3, <2>4, <2>5, <2>6, <2>7, GetKeeps
  <1>2. ASSUME NEW r \in Rules, ReconcileNext(p, r)
        PROVE  SerialInv'
    <2>1. proc[p].pc = "idle" /\ r \in proc[p].todo /\ Active(p) /\ proc[p].todo \ {r} \in SUBSET Rules
      BY <1>2 DEF ReconcileNext, Active, SerialInv, TypeOK, Proc
    <2>2. /\ NoEvent /\ phase # "down" /\ (p # "startup" => NoRequest)
          /\ (p = "startup" <=> phase = "startup") /\ (p \in Subjects => phase = "serving")
          /\ \A other \in Procs : other # p => ~Active(other)
          /\ \A x : Announced(x) <=> Publishing(x)
          /\ \A x : InHand(x) <=> x \in proc[p].todo
      BY <2>1, OnlyCall DEF SerialInv
    <2>3. /\ GetRule(p, r, proc[p].todo \ {r})
          /\ UNCHANGED <<rules, req, bus, phase, jobs>>
      BY <1>2 DEF ReconcileNext
    <2>4. \A s \in Subjects : bus'[s] = <<>>
      BY <2>2, <2>3 DEF NoEvent
    <2>5. \A x \in Rules : (InHand(x) \/ Announced(x)) =>
             (x = r \/ x \in proc[p].todo \ {r} \/ Publishing(x))
      BY <2>2
    <2> QED BY <2>1, <2>2, <2>3, <2>4, <2>5, GetKeeps
  <1>3. CASE Check(p) \/ MarkInvalid(p) \/ MarkActive(p)
    <2>1. proc[p].pc \in {"check", "invalid", "active"}
      BY <1>3 DEF Check, MarkInvalid, MarkActive
    <2> QED BY <1>3, <2>1, AdvanceKeeps
  <1> QED BY <1>1, <1>2, <1>3, FinishKeeps DEF ProcessRule

-----------------------------------------------------------------------------
\* The list of reconcile is all enabled rules, or the fault is on record.
LEMMA ListFinds ==
  ASSUME SerialInv, NEW p \in Procs, List(p)
  PROVE  /\ faults \subseteq faults'
         /\ \A x \in Procs : proc'[x].pc = proc[x].pc
         /\ \A x \in Procs : x # p => proc'[x] = proc[x]
         /\ proc'[p].todo = EnabledRules \/ "list" \in faults'
  <1>1. proc \in [Procs -> Proc]
    BY DEF SerialInv, TypeOK
  <1>2. PICK listed : /\ proc' = [proc EXCEPT ![p].todo = listed]
                      /\ listed = EnabledRules \/ "list" \in faults'
                      /\ faults \subseteq faults'
    BY DEF List, Fault
  <1> QED BY <1>1, <1>2 DEF Proc

\* The scheduler starts, perhaps beside a request: it will look at every
\* enabled rule, and no other has a job.
LEMMA StartKeeps ==
  ASSUME ~Overlap, SerialInv, TypeOK', Start
  PROVE  SerialInv'
  <1>1. /\ phase = "down" /\ phase' = "startup" /\ List("startup")
        /\ UNCHANGED <<rules, req, bus, jobs>>
    BY DEF Start
  <1>2. "startup" \in Procs /\ "startup" \notin Subjects
    BY DEF Procs, Subjects
  <1>3. /\ \A s \in Subjects : bus[s] = <<>>
        /\ \A p \in Procs : proc[p].pc = "idle" /\ proc[p].todo = {}
    BY <1>1 DEF SerialInv, OneAtATime, Active
  <1>4. /\ faults \subseteq faults'
        /\ \A p \in Procs : proc'[p].pc = "idle"
        /\ \A p \in Procs : p # "startup" => proc'[p].todo = {}
        /\ proc'["startup"].todo = EnabledRules \/ "list" \in faults'
    BY <1>1, <1>2, <1>3, ListFinds
  <1>5. OneAtATime'
    BY <1>1, <1>2, <1>3, <1>4 DEF SerialInv, OneAtATime, NoEvent, Active
  <1>6. CallsAreCurrent'
    BY <1>4 DEF CallsAreCurrent
  <1>7. \A r \in Rules : rules[r] # NoRow /\ rules[r].enabled
            => r \in proc'["startup"].todo \/ "list" \in faults'
    BY <1>4 DEF EnabledRules
  <1>8. \A r \in Rules : r \in proc'["startup"].todo => InHand(r)'
    BY <1>2 DEF InHand
  <1>9. "crash" \in faults \/ \A r \in Rules : rules[r] # NoRow => rules[r].status # "ACTIVE"
    BY <1>1 DEF SerialInv, DownIsEmpty
  <1>10. JobsFollow'
    <2>1. SUFFICES ASSUME ~Missed', NEW r \in Rules
                   PROVE  Matches(r)' \/ InHand(r)'
      BY DEF JobsFollow
    <2>2. CASE "crash" \in faults
      BY <1>1, <1>4, <1>7, <1>8, <2>1, <2>2 DEF SerialInv, DownIsEmpty, Matches, Missed
    <2>3. CASE "crash" \notin faults
      BY <1>1, <1>9, <2>3 DEF SerialInv, DownIsEmpty, Matches
    <2> QED BY <2>2, <2>3
  <1>11. ActiveFollows'
    <2>1. SUFFICES ASSUME faults' \cap {"status", "race"} = {}, NEW r \in Rules,
                          rules[r] # NoRow, rules[r].status = "ACTIVE"
                   PROVE  /\ rules[r].enabled /\ "crash" \in faults'
                          /\ r \in proc'["startup"].todo \/ faults' \cap {"list", "get"} # {}
      BY <1>1 DEF ActiveFollows
    <2>2. rules[r].enabled
      BY <1>4, <2>1 DEF SerialInv, ActiveFollows
    <2> QED BY <1>4, <1>7, <1>9, <2>1, <2>2
  <1>12. DownIsEmpty'
    BY <1>1 DEF DownIsEmpty
  <1> QED BY <1>5, <1>6, <1>10, <1>11, <1>12 DEF SerialInv

\* main goes on, from the end of its reconciliation to the subscriptions.
LEMMA ListenKeeps ==
  ASSUME SerialInv, TypeOK', StartAdmin \/ SubscribeEvents
  PROVE  SerialInv'
  <1>1. /\ UNCHANGED <<rules, req, bus, proc, jobs, faults>>
        /\ \/ phase = "startup" /\ phase' = "window" /\ ~Active("startup")
           \/ phase = "window" /\ phase' = "serving"
    BY DEF StartAdmin, SubscribeEvents, Active
  <1>2. OneAtATime'
    BY <1>1 DEF SerialInv, OneAtATime, NoProcess, Idle, NoEvent, Active
  <1>3. CallsAreCurrent' /\ DownIsEmpty'
    BY <1>1 DEF SerialInv, CallsAreCurrent, Current, Publishing, DownIsEmpty
  <1>4. JobsFollow'
    BY <1>1 DEF SerialInv, JobsFollow, Missed, Matches, InHand, InCall, Announced, Publishing
  <1>5. ActiveFollows'
    BY <1>1 DEF SerialInv, ActiveFollows, InCall
  <1> QED BY <1>2, <1>3, <1>4, <1>5 DEF SerialInv

\* A reload lists the enabled rules again while nothing else goes on.
LEMMA ReloadKeeps ==
  ASSUME ~Overlap, SerialInv, TypeOK', Reload
  PROVE  SerialInv'
  <1>1. /\ phase \in {"window", "serving"} /\ NoRequest /\ NoProcess /\ NoEvent
        /\ List("reload")
        /\ UNCHANGED <<rules, req, bus, phase, jobs>>
    BY DEF Reload
  <1>2. "reload" \in Procs /\ "startup" \in Procs /\ "reload" \notin Subjects \cup {"startup"}
    BY DEF Procs, Subjects
  <1>3. /\ faults \subseteq faults'
        /\ \A p \in Procs : proc'[p].pc = "idle"
        /\ \A p \in Procs : p # "reload" => proc'[p] = proc[p]
    BY <1>1, <1>2, ListFinds DEF NoProcess, Idle
  <1>4. \A other \in Procs : ~Active(other)
    BY <1>1 DEF NoProcess, Idle, Active
  <1>5. OneAtATime' /\ DownIsEmpty'
    BY <1>1, <1>2, <1>3, <1>4, AloneKeeps DEF NoEvent
  <1>6. CallsAreCurrent'
    BY <1>3 DEF CallsAreCurrent
  <1>7. \A r : ~InHand(r) /\ ~InCall(r) /\ ~Announced(r)
    BY <1>1 DEF NoRequest, NoProcess, Idle, NoEvent, InHand, InCall, Announced, Publishing
  <1>8. JobsFollow'
    BY <1>1, <1>3, <1>7 DEF SerialInv, JobsFollow, Missed, Matches
  <1>9. ActiveFollows'
    BY <1>1, <1>2, <1>3, <1>7 DEF SerialInv, ActiveFollows
  <1> QED BY <1>5, <1>6, <1>8, <1>9 DEF SerialInv

\* The scheduler process ends, perhaps in the middle of a request.
LEMMA CrashKeeps ==
  ASSUME SerialInv, TypeOK', Crash
  PROVE  SerialInv'
  <1>1. /\ phase' = "down" /\ faults \subseteq faults' /\ "crash" \in faults'
        /\ UNCHANGED <<rules, req>>
        /\ \A p \in Procs : proc'[p] = IdleProc
        /\ \A s \in Subjects : bus'[s] = <<>>
        /\ \A r \in Rules : jobs'[r] = NoSpec
    BY DEF Crash, Fault
  <1>2. IdleProc.pc = "idle" /\ IdleProc.todo = {}
    BY DEF IdleProc
  <1>3. OneAtATime'
    BY <1>1, <1>2 DEF SerialInv, OneAtATime, NoEvent, Active
  <1>4. CallsAreCurrent' /\ DownIsEmpty' /\ JobsFollow'
    BY <1>1, <1>2 DEF CallsAreCurrent, DownIsEmpty, JobsFollow
  <1>5. ActiveFollows'
    BY <1>1 DEF SerialInv, ActiveFollows
  <1> QED BY <1>3, <1>4, <1>5 DEF SerialInv

LEMMA InitSerial == Init => SerialInv
  <1> SUFFICES ASSUME Init PROVE SerialInv
    OBVIOUS
  <1>1. TypeOK
    BY InitInv DEF LifecycleInv
  <1>2. \A q \in Requests : req[q].pc = "idle"
    BY DEF Init, IdleRequest
  <1>3. \A p \in Procs : proc[p].pc = "idle" /\ proc[p].todo = {}
    BY DEF Init, IdleProc
  <1>4. OneAtATime /\ CallsAreCurrent
    BY <1>2, <1>3 DEF Init, OneAtATime, CallsAreCurrent, Active
  <1>5. JobsFollow /\ ActiveFollows /\ DownIsEmpty
    BY DEF Init, JobsFollow, ActiveFollows, DownIsEmpty
  <1> QED BY <1>1, <1>4, <1>5 DEF SerialInv

LEMMA NextSerial ==
  ASSUME ~Overlap
  PROVE  SerialInv /\ TypeOK' /\ [Next]_vars => SerialInv'
  <1> SUFFICES ASSUME SerialInv, TypeOK', [Next]_vars PROVE SerialInv'
    OBVIOUS
  <1>1. CASE UNCHANGED vars
    BY <1>1, SameKeeps DEF vars
  <1>2. CASE \E q \in Requests, r \in Rules, rec \in UiRow :
                StepperCreate(q, r, rec) \/ StepperUpdate(q, r, rec)
                   \/ RuleCreate(q, r, rec) \/ RuleUpdate(q, r, rec)
    BY <1>2, BeginKeeps
  <1>3. CASE \E q \in Requests, r \in Rules, on \in BOOLEAN :
                StepperToggle(q, r, on) \/ RuleToggle(q, r, on)
    BY <1>3, BeginKeeps, IdleTyped
  <1>4. CASE \E q \in Requests, r \in Rules : StepperDelete(q, r)
    BY <1>4, BeginKeeps, IdleTyped
  <1>5. CASE \E q \in Requests : ServeRequest(q) \/ RequestDies(q)
    BY <1>5, ServeKeeps
  <1>6. CASE UnitChanges \/ \E r \in Rules : CreateAlert(r)
    BY <1>6, SameKeeps DEF UnitChanges, CreateAlert, Fault
  <1>7. CASE \E p \in Procs : ProcessRule(p)
    BY <1>7, CallKeeps
  <1>8. CASE Startup \/ Reload \/ Crash
    BY <1>8, StartKeeps, ListenKeeps, ReloadKeeps, CrashKeeps DEF Startup
  <1> QED BY <1>1, <1>2, <1>3, <1>4, <1>5, <1>6, <1>7, <1>8 DEF Next

\* The inductive invariant holds in every reachable state.
LEMMA SerialInvariance == ASSUME ~Overlap PROVE Spec => []SerialInv
  BY InitSerial, NextSerial, LifecycleTypeCorrect, PTL DEF Spec

\* When nothing is in progress no call has a rule in hand and no event about
\* one is under way.
LEMMA SettledIsIdle ==
  ASSUME Settled
  PROVE  /\ \A r : ~InHand(r) /\ ~InCall(r) /\ ~Announced(r)
         /\ \A r : r \notin proc["startup"].todo
         /\ phase # "down"
  BY DEF Settled, NoRequest, NoProcess, Idle, NoEvent, InHand, InCall, Announced,
         Publishing, Procs

\* When requests do not overlap, the scheduler's jobs are those the rows call
\* for whenever the system has settled: through crashes and restarts of the
\* scheduler in the middle of a request, reloads, failed upserts and deletes,
\* failed checks and rows written while the startup has them in hand; unless an
\* event is lost or comes before the subscriptions, a request dies half way, a
\* status cannot be written, a row cannot be read, or the list of rules after a
\* crash is short (processRule, reconcile, the rule and stepper handlers).
THEOREM SettledJobsMatchRules == ASSUME ~Overlap PROVE Spec => []JobsMatchRules
  <1>1. SerialInv => JobsMatchRules
    BY SettledIsIdle DEF SerialInv, JobsFollow, JobsMatchRules, Matches, Missed
  <1> QED BY <1>1, SerialInvariance, PTL

\* When requests do not overlap, a row with status ACTIVE is enabled and its
\* rule has a job with the row's specification, even when events are lost or
\* come too early and requests die half way; unless a status cannot be written,
\* a row is written while the startup has it in hand, or a restart after a
\* crash fails to read it (UpdateRuleStatus, Schedule, ListEnabledRules).
THEOREM ActiveRulesAreScheduled == ASSUME ~Overlap PROVE Spec => []ActiveMeansScheduled
  <1>1. SerialInv => ActiveMeansScheduled
    BY SettledIsIdle DEF SerialInv, ActiveFollows, ActiveMeansScheduled
  <1> QED BY <1>1, SerialInvariance, PTL

=============================================================================

--------------------------- MODULE RuleLifecycle ----------------------------
(***************************************************************************)
(* The life of a rule across the two services.                            *)
(*                                                                         *)
(* The rule service keeps two tables: ui_rules (what the stepper UI shows) *)
(* and rules (what the scheduler reads).  Its HTTP handlers write one or   *)
(* both, one statement at a time and outside any transaction, and then     *)
(* publish an event on one of five NATS subjects.  The scheduler has one   *)
(* subscription goroutine per subject; each event, each entry of a reload  *)
(* and each rule found at startup goes through processRule, which reads    *)
(* the row, validates it, writes its status and calls the job registry.    *)
(* Core NATS delivers an event at most once, to whoever is subscribed at   *)
(* that moment.                                                            *)
(*                                                                         *)
(* The registry appears as the map of JobMap, which Registry implements.   *)
(***************************************************************************)
EXTENDS Naturals, Sequences, FiniteSets

CONSTANTS
    Rules,          \* rule identifiers
    Specs,          \* rule specifications
    ValidSpecs,     \* those the runtime validation accepts
    Requests,       \* HTTP requests that may be in progress at once
    Ops,            \* the operations clients call
    Faults,         \* the faults that may happen
    MaxRequests,    \* bound: requests in a behaviour
    MaxFaults,      \* bound: kinds of faults in a behaviour
    Overlap,        \* whether a request may start before what the last one
                    \* led to is done
    NoRow,          \* absence of a table row
    NoSpec          \* absence of a job

Subjects == {"created", "updated", "enabled", "disabled", "deleted"}

AllOps == {"create", "update", "enable", "disable", "delete",
           "ruleCreate", "ruleUpdate", "ruleEnable", "ruleDisable"}

AllFaults == {"crash", "lost", "upsert", "unlink", "die", "check", "status",
              "unit", "list", "get"}

\* Two things that need no fault, recorded with the faults: an event published
\* while the scheduler is up but not yet subscribed, and a row written while a
\* processRule call has its rule in hand.
Crossings == {"gap", "race"}

\* The goroutines that run processRule: one per subscription, the startup
\* reconciliation and the admin server's reload.
Procs == Subjects \cup {"startup", "reload"}

ASSUME LifecycleAssumption ==
    /\ Rules # {} /\ Specs # {}
    /\ ValidSpecs \subseteq Specs
    /\ Ops \subseteq AllOps /\ Faults \subseteq AllFaults
    /\ MaxRequests \in Nat /\ MaxFaults \in Nat
    /\ Overlap \in BOOLEAN
    /\ NoRow \notin [enabled : BOOLEAN, spec : Specs]
    /\ NoRow \notin [enabled : BOOLEAN, spec : Specs,
                     status : {"DRAFT", "ACTIVE", "INVALID", "DISABLED"}]
    /\ NoSpec \notin Specs

VARIABLES
    ui,             \* table ui_rules
    rules,          \* table rules
    alerts,         \* the rules that rows of table alerts refer to
    unitOk,         \* the machine unit exists and a RuleSpec can be built
    req,            \* HTTP requests in progress in the rule service
    bus,            \* events delivered to each subscription, not yet handled
    phase,          \* progress of the scheduler's main function
    proc,           \* processRule calls in progress
    jobs,           \* the specification each rule is scheduled with
    born,           \* identifiers already used (they are random UUIDs)
    everEnabled,    \* history: pairs once enabled in table rules
    requests,       \* number of requests so far
    faults          \* history: the kinds of faults and crossings so far

vars == <<ui, rules, alerts, unitOk, req, bus, phase, proc, jobs, born,
          everEnabled, requests, faults>>

UiRow == [enabled : BOOLEAN, spec : Specs]
Row == [enabled : BOOLEAN, spec : Specs,
        status : {"DRAFT", "ACTIVE", "INVALID", "DISABLED"}]

Request == [pc : {"idle", "get", "build", "upsert", "unlink", "write",
                  "publish"},
            rule : Rules, rec : UiRow, subject : Subjects]

Proc == [pc : {"idle", "check", "invalid", "active", "unschedule",
               "schedule"},
         rule : Rules, spec : Specs, todo : SUBSET Rules]

TypeOK ==
    /\ ui \in [Rules -> UiRow \cup {NoRow}]
    /\ rules \in [Rules -> Row \cup {NoRow}]
    /\ alerts \subseteq Rules
    /\ unitOk \in BOOLEAN
    /\ req \in [Requests -> Request]
    /\ bus \in [Subjects -> Seq(Rules)]
    /\ phase \in {"down", "startup", "window", "serving"}
    /\ proc \in [Procs -> Proc]
    /\ jobs \in [Rules -> Specs \cup {NoSpec}]
    /\ born \subseteq Rules
    /\ everEnabled \subseteq Rules \X Specs
    /\ requests \in Nat
    /\ faults \subseteq AllFaults \cup Crossings

-----------------------------------------------------------------------------
AnyRule == CHOOSE r \in Rules : TRUE
AnySpec == CHOOSE s \in Specs : TRUE

IdleRequest == [pc |-> "idle", rule |-> AnyRule,
                rec |-> [enabled |-> FALSE, spec |-> AnySpec],
                subject |-> "created"]
IdleProc == [pc |-> "idle", rule |-> AnyRule, spec |-> AnySpec, todo |-> {}]

Init ==
    /\ ui = [r \in Rules |-> NoRow]
    /\ rules = [r \in Rules |-> NoRow]
    /\ alerts = {}
    /\ unitOk = TRUE
    /\ req = [q \in Requests |-> IdleRequest]
    /\ bus = [p \in Subjects |-> <<>>]
    /\ phase = "down"
    /\ proc = [p \in Procs |-> IdleProc]
    /\ jobs = [r \in Rules |-> NoSpec]
    /\ born = {}
    /\ everEnabled = {}
    /\ requests = 0
    /\ faults = {}

-----------------------------------------------------------------------------
(***************************************************************************)
(* When requests may overlap.                                              *)
(***************************************************************************)
NoRequest == \A q \in Requests : req[q].pc = "idle"
Idle(p) == proc[p].pc = "idle" /\ proc[p].todo = {}
NoProcess == \A p \in Procs : Idle(p)
NoEvent == \A p \in Subjects : bus[p] = <<>>

\* Nothing is in progress and the scheduler is listening.
Settled == NoRequest /\ NoProcess /\ NoEvent /\ phase = "serving"

\* The client waits for the last request, its event and the call that follows.
\* A scheduler that is down or starting looks no different to it.
MayBegin ==
    Overlap \/ (NoRequest /\ NoEvent /\ \A p \in Procs \ {"startup"} : Idle(p))

\* A fault of some kind happens, perhaps not for the first time.
Fault(kind) ==
    /\ kind \in Faults
    /\ faults' = faults \cup {kind}
    /\ Cardinality(faults' \cap AllFaults) <= MaxFaults

-----------------------------------------------------------------------------
(***************************************************************************)
(* Rule service                                                            *)
(***************************************************************************)

\* A write to table rules, with the history of what was ever enabled and of
\* writes to a row that a processRule call has read.
WriteRow(r, row) ==
    /\ rules' = [rules EXCEPT ![r] = row]
    /\ everEnabled' = IF row # NoRow /\ row.enabled
                      THEN everEnabled \cup {<<r, row.spec>>}
                      ELSE everEnabled
    /\ faults' = IF \E p \in Procs : proc[p].pc # "idle" /\ proc[p].rule = r
                 THEN faults \cup {"race"} ELSE faults

\* The handler of request q reaches pc, with the values it will write.
Proceed(q, pc, r, rec, subject) ==
    req' = [req EXCEPT ![q] = [pc |-> pc, rule |-> r, rec |-> rec,
                               subject |-> subject]]

Begin(q, op) ==
    /\ op \in Ops
    /\ req[q].pc = "idle"
    /\ requests < MaxRequests
    /\ MayBegin
    /\ requests' = requests + 1
    /\ UNCHANGED <<alerts, unitOk, bus, phase, proc, jobs>>

\* handleStepperRuleCreate up to its insert into ui_rules.  The identifier is
\* a fresh UUID and the unit must exist.
StepperCreate(q, r, rec) ==
    /\ Begin(q, "create")
    /\ r \notin born
    /\ unitOk
    /\ born' = born \cup {r}
    /\ ui' = [ui EXCEPT ![r] = rec]
    /\ Proceed(q, "build", r, rec, "created")
    /\ UNCHANGED <<rules, everEnabled, faults>>

\* handleStepperRuleUpdate up to its update of ui_rules.
StepperUpdate(q, r, rec) ==
    /\ Begin(q, "update")
    /\ ui[r] # NoRow
    /\ unitOk
    /\ ui' = [ui EXCEPT ![r] = rec]
    /\ Proceed(q, "build", r, rec, "updated")
    /\ UNCHANGED <<rules, born, everEnabled, faults>>

\* handleStepperRuleEnable and handleStepperRuleDisable: the flag is written
\* first, and the row read back in a second statement.
StepperToggle(q, r, on) ==
    /\ Begin(q, IF on THEN "enable" ELSE "disable")
    /\ r \in born
    /\ ui' = IF ui[r] = NoRow THEN ui ELSE [ui EXCEPT ![r].enabled = on]
    /\ Proceed(q, "get", r, IdleRequest.rec, IF on THEN "enabled" ELSE "disabled")
    /\ UNCHANGED <<rules, born, everEnabled, faults>>

StepperGet(q) ==
    /\ req[q].pc = "get"
    /\ req' = IF ui[req[q].rule] = NoRow
              THEN [req EXCEPT ![q] = IdleRequest]
              ELSE [req EXCEPT ![q].pc = "build", ![q].rec = ui[req[q].rule]]
    /\ UNCHANGED <<ui, rules, alerts, unitOk, bus, phase, proc, jobs, born,
                   everEnabled, requests, faults>>

\* handleStepperRuleDelete up to its delete from ui_rules, which succeeds
\* whether or not the row is there.
StepperDelete(q, r) ==
    /\ Begin(q, "delete")
    /\ r \in born
    /\ ui' = [ui EXCEPT ![r] = NoRow]
    /\ Proceed(q, "unlink", r, IdleRequest.rec, "deleted")
    /\ UNCHANGED <<rules, born, everEnabled, faults>>

\* The rest of handleStepperRuleDelete before it publishes: DeleteRule, whose
\* error is ignored.  alerts.rule_id refers to rules(id) without a cascade, so
\* the delete fails for a rule that has raised an alert.
UnlinkRule(q) ==
    /\ req[q].pc = "unlink"
    /\ \/ /\ req[q].rule \notin alerts
          /\ WriteRow(req[q].rule, NoRow)
       \/ /\ req[q].rule \in alerts
          /\ UNCHANGED <<rules, everEnabled, faults>>
       \/ /\ Fault("unlink")
          /\ UNCHANGED <<rules, everEnabled>>
    /\ req' = [req EXCEPT ![q].pc = "publish"]
    /\ UNCHANGED <<ui, alerts, unitOk, bus, phase, proc, jobs, born, requests>>

\* syncStepperRule reads the machine unit and builds the RuleSpec; it returns
\* silently when either fails.
SyncBuild(q) ==
    /\ req[q].pc = "build"
    /\ req' = IF unitOk THEN [req EXCEPT ![q].pc = "upsert"]
                        ELSE [req EXCEPT ![q] = IdleRequest]
    /\ UNCHANGED <<ui, rules, alerts, unitOk, bus, phase, proc, jobs, born,
                   everEnabled, requests, faults>>

\* Mutant: a status the scheduler and the UI do not know.
DraftUnknownStatus(rec) ==
    [enabled |-> rec.enabled, spec |-> rec.spec, status |-> "PENDING"]

Draft(rec) == [enabled |-> rec.enabled, spec |-> rec.spec, status |-> "DRAFT"]

\* syncStepperRule then upserts the whole row; an error is ignored.
SyncUpsert(q) ==
    /\ req[q].pc = "upsert"
    /\ \/ WriteRow(req[q].rule, Draft(req[q].rec))
       \/ /\ Fault("upsert")
          /\ UNCHANGED <<rules, everEnabled>>
    /\ req' = [req EXCEPT ![q].pc = "publish"]
    /\ UNCHANGED <<ui, alerts, unitOk, bus, phase, proc, jobs, born, requests>>

\* handleRulesCreate: the row is inserted as a draft.
RuleCreate(q, r, rec) ==
    /\ Begin(q, "ruleCreate")
    /\ r \notin born
    /\ born' = born \cup {r}
    /\ WriteRow(r, Draft(rec))
    /\ Proceed(q, "publish", r, rec, "created")
    /\ UNCHANGED ui

\* handleRuleUpdateByID reads the row, and writes it in a second statement.
RuleUpdate(q, r, rec) ==
    /\ Begin(q, "ruleUpdate")
    /\ rules[r] # NoRow
    /\ Proceed(q, "write", r, rec, "updated")
    /\ UNCHANGED <<ui, rules, born, everEnabled, faults>>

RuleWrite(q) ==
    LET r == req[q].rule IN
    /\ req[q].pc = "write"
    /\ IF rules[r] = NoRow THEN UNCHANGED <<rules, everEnabled, faults>>
                           ELSE WriteRow(r, Draft(req[q].rec))
    /\ req' = [req EXCEPT ![q].pc = "publish"]
    /\ UNCHANGED <<ui, alerts, unitOk, bus, phase, proc, jobs, born, requests>>

\* Mutant: the flag is written and the status left alone.
RuleToggleKeepsStatus(q, r, on) ==
    /\ Begin(q, IF on THEN "ruleEnable" ELSE "ruleDisable")
    /\ r \in born
    /\ IF rules[r] = NoRow
       THEN UNCHANGED <<rules, everEnabled, faults>>
       ELSE WriteRow(r, [rules[r] EXCEPT !.enabled = on])
    /\ Proceed(q, "publish", r, IdleRequest.rec, IF on THEN "enabled" ELSE "disabled")
    /\ UNCHANGED <<ui, born>>

\* handleRuleEnable and handleRuleDisable write the flag and the status of
\* whatever row has the identifier, a stepper rule's too.
RuleToggle(q, r, on) ==
    /\ Begin(q, IF on THEN "ruleEnable" ELSE "ruleDisable")
    /\ r \in born
    /\ IF rules[r] = NoRow
       THEN UNCHANGED <<rules, everEnabled, faults>>
       ELSE WriteRow(r, [rules[r] EXCEPT !.enabled = on,
                            !.status = IF on THEN "DRAFT" ELSE "DISABLED"])
    /\ Proceed(q, "publish", r, IdleRequest.rec, IF on THEN "enabled" ELSE "disabled")
    /\ UNCHANGED <<ui, born>>

\* Publish, whose error is ignored.  Without a subscriber the event is gone.
Publish(q) ==
    LET s == req[q].subject IN
    /\ req[q].pc = "publish"
    /\ \/ /\ bus' = IF phase = "serving"
                    THEN [bus EXCEPT ![s] = Append(@, req[q].rule)]
                    ELSE bus
          /\ faults' = IF phase \in {"startup", "window"}
                       THEN faults \cup {"gap"} ELSE faults
       \/ /\ Fault("lost")
          /\ UNCHANGED bus
    /\ req' = [req EXCEPT ![q] = IdleRequest]
    /\ UNCHANGED <<ui, rules, alerts, unitOk, phase, proc, jobs, born,
                   everEnabled, requests>>

\* The rule service dies, or the request's context ends, between two steps.
RequestDies(q) ==
    /\ req[q].pc # "idle"
    /\ Fault("die")
    /\ req' = [req EXCEPT ![q] = IdleRequest]
    /\ UNCHANGED <<ui, rules, alerts, unitOk, bus, phase, proc, jobs, born,
                   everEnabled, requests>>

\* The machine unit is deleted with its line, or its table is replaced, which
\* clears the timestamp column; later the unit is usable again.
UnitChanges ==
    /\ MayBegin
    /\ Fault("unit")
    /\ unitOk' = ~unitOk
    /\ UNCHANGED <<ui, rules, alerts, req, bus, phase, proc, jobs, born,
                   everEnabled, requests>>

-----------------------------------------------------------------------------
(***************************************************************************)
(* Scheduler service                                                       *)
(***************************************************************************)

\* ListEnabledRules
EnabledRules == {r \in Rules : rules[r] # NoRow /\ rules[r].enabled}

\* reconcile lists the rules it will look at.  The query can fail, which both
\* callers leave at that, and its result can break off, which nobody notices
\* (rows.Err is not asked).
List(p) ==
    \/ /\ proc' = [proc EXCEPT ![p].todo = EnabledRules]
       /\ UNCHANGED faults
    \/ \E listed \in SUBSET EnabledRules :
          /\ listed # EnabledRules
          /\ Fault("list")
          /\ proc' = [proc EXCEPT ![p].todo = listed]

\* Mutant: main does not reconcile before it subscribes.
StartWithoutReconcile ==
    /\ phase = "down"
    /\ phase' = "startup"
    /\ UNCHANGED <<ui, rules, alerts, unitOk, req, bus, proc, jobs, born,
                   everEnabled, requests, faults>>

\* main up to reconcile's query; main goes on when it fails.
Start ==
    /\ phase = "down"
    /\ phase' = "startup"
    /\ List("startup")
    /\ UNCHANGED <<ui, rules, alerts, unitOk, req, bus, jobs, born, everEnabled,
                   requests>>

\* reconcile has returned; the admin server starts before the subscriptions.
StartAdmin ==
    /\ phase = "startup"
    /\ proc["startup"].pc = "idle" /\ proc["startup"].todo = {}
    /\ phase' = "window"
    /\ UNCHANGED <<ui, rules, alerts, unitOk, req, bus, proc, jobs, born,
                   everEnabled, requests, faults>>

SubscribeEvents ==
    /\ phase = "window"
    /\ phase' = "serving"
    /\ UNCHANGED <<ui, rules, alerts, unitOk, req, bus, proc, jobs, born,
                   everEnabled, requests, faults>>

\* POST /jobs/reload runs reconcile; only enabled rules are looked at.
Reload ==
    /\ phase \in {"window", "serving"}
    /\ Overlap \/ (NoRequest /\ NoProcess /\ NoEvent)
    /\ proc["reload"] = IdleProc
    /\ EnabledRules # {}
    /\ List("reload")
    /\ UNCHANGED <<ui, rules, alerts, unitOk, req, bus, phase, jobs, born,
                   everEnabled, requests>>

\* Mutant: processRule does not look at the enabled flag.
GetRuleAnyway(p, r, todo) ==
    /\ proc' = [proc EXCEPT ![p] =
          IF rules[r] = NoRow THEN [IdleProc EXCEPT !.todo = todo]
          ELSE [pc |-> "check", rule |-> r, spec |-> rules[r].spec, todo |-> todo]]
    /\ UNCHANGED faults

\* processRule reads the row: a disabled rule is to be unscheduled, an enabled
\* one checked.  Without a row it returns, and the job, if any, stays; so it
\* does when the query fails, since every error is taken for a missing row.
GetRule(p, r, todo) ==
    \/ /\ rules[r] # NoRow
       /\ proc' = [proc EXCEPT ![p] =
             [pc |-> IF rules[r].enabled THEN "check" ELSE "unschedule",
              rule |-> r, spec |-> rules[r].spec, todo |-> todo]]
       /\ UNCHANGED faults
    \/ /\ \/ rules[r] = NoRow /\ UNCHANGED faults
          \/ Fault("get")
       /\ proc' = [proc EXCEPT ![p] = [IdleProc EXCEPT !.todo = todo]]

\* A subscription goroutine takes its next event.
HandleEvent(p) ==
    /\ p \in Subjects
    /\ phase = "serving"
    /\ proc[p].pc = "idle"
    /\ bus[p] # <<>>
    /\ GetRule(p, Head(bus[p]), {})
    /\ bus' = [bus EXCEPT ![p] = Tail(@)]
    /\ UNCHANGED <<ui, rules, alerts, unitOk, req, phase, jobs, born,
                   everEnabled, requests>>

\* reconcile takes the next rule of its list.
ReconcileNext(p, r) ==
    /\ proc[p].pc = "idle"
    /\ r \in proc[p].todo
    /\ GetRule(p, r, proc[p].todo \ {r})
    /\ UNCHANGED <<ui, rules, alerts, unitOk, req, bus, phase, jobs, born,
                   everEnabled, requests>>

\* Connection lookup, adapter lookup and RuntimeValidateRule.  A valid rule
\* can fail them too, when a database or an MCP server does not answer.
Check(p) ==
    /\ proc[p].pc = "check"
    /\ \/ /\ proc[p].spec \in ValidSpecs
          /\ proc' = [proc EXCEPT ![p].pc = "active"]
          /\ UNCHANGED faults
       \/ /\ proc[p].spec \notin ValidSpecs
          /\ proc' = [proc EXCEPT ![p].pc = "invalid"]
          /\ UNCHANGED faults
       \/ /\ Fault("check")
          /\ proc' = [proc EXCEPT ![p].pc = "invalid"]
    /\ UNCHANGED <<ui, rules, alerts, unitOk, req, bus, phase, jobs, born,
                   everEnabled, requests>>

\* UpdateRuleStatus of the row with the identifier, whatever it holds by now;
\* an error is ignored.
UpdateStatus(r, status) ==
    \/ /\ rules' = IF rules[r] = NoRow THEN rules
                   ELSE [rules EXCEPT ![r].status = status]
       /\ UNCHANGED faults
    \/ /\ Fault("status")
       /\ UNCHANGED rules

MarkInvalid(p) ==
    /\ proc[p].pc = "invalid"
    /\ UpdateStatus(proc[p].rule, "INVALID")
    /\ proc' = [proc EXCEPT ![p].pc = "unschedule"]
    /\ UNCHANGED <<ui, alerts, unitOk, req, bus, phase, jobs, born,
                   everEnabled, requests>>

MarkActive(p) ==
    /\ proc[p].pc = "active"
    /\ UpdateStatus(proc[p].rule, "ACTIVE")
    /\ proc' = [proc EXCEPT ![p].pc = "schedule"]
    /\ UNCHANGED <<ui, alerts, unitOk, req, bus, phase, jobs, born,
                   everEnabled, requests>>

Unschedule(p) ==
    /\ proc[p].pc = "unschedule"
    /\ jobs' = [jobs EXCEPT ![proc[p].rule] = NoSpec]
    /\ proc' = [proc EXCEPT ![p] = [IdleProc EXCEPT !.todo = proc[p].todo]]
    /\ UNCHANGED <<ui, rules, alerts, unitOk, req, bus, phase, born,
                   everEnabled, requests, faults>>

\* Mutant: Schedule leaves a job that is already there as it is.
ScheduleIfAbsent(p) ==
    /\ proc[p].pc = "schedule"
    /\ jobs' = IF jobs[proc[p].rule] = NoSpec
               THEN [jobs EXCEPT ![proc[p].rule] = proc[p].spec] ELSE jobs
    /\ proc' = [proc EXCEPT ![p] = [IdleProc EXCEPT !.todo = proc[p].todo]]
    /\ UNCHANGED <<ui, rules, alerts, unitOk, req, bus, phase, born,
                   everEnabled, requests, faults>>

Schedule(p) ==
    /\ proc[p].pc = "schedule"
    /\ jobs' = [jobs EXCEPT ![proc[p].rule] = proc[p].spec]
    /\ proc' = [proc EXCEPT ![p] = [IdleProc EXCEPT !.todo = proc[p].todo]]
    /\ UNCHANGED <<ui, rules, alerts, unitOk, req, bus, phase, born,
                   everEnabled, requests, faults>>

\* A run of the rule's job inserts an alert, which the foreign key allows only
\* while the row is there.
CreateAlert(r) ==
    /\ jobs[r] # NoSpec
    /\ rules[r] # NoRow
    /\ r \notin alerts
    /\ alerts' = alerts \cup {r}
    /\ UNCHANGED <<ui, rules, unitOk, req, bus, phase, proc, jobs, born,
                   everEnabled, requests, faults>>

\* The scheduler process ends: the job map, the calls in progress and the
\* events already delivered to it are gone.
Crash ==
    /\ phase # "down"
    /\ Fault("crash")
    /\ phase' = "down"
    /\ proc' = [p \in Procs |-> IdleProc]
    /\ bus' = [p \in Subjects |-> <<>>]
    /\ jobs' = [r \in Rules |-> NoSpec]
    /\ UNCHANGED <<ui, rules, alerts, unitOk, req, born, everEnabled, requests>>

-----------------------------------------------------------------------------
ServeRequest(q) ==
    \/ StepperGet(q)
    \/ UnlinkRule(q)
    \/ SyncBuild(q)
    \/ SyncUpsert(q)
    \/ RuleWrite(q)
    \/ Publish(q)

Startup == Start \/ StartAdmin \/ SubscribeEvents

ProcessRule(p) ==
    \/ HandleEvent(p)
    \/ \E r \in Rules : ReconcileNext(p, r)
    \/ Check(p)
    \/ MarkInvalid(p)
    \/ MarkActive(p)
    \/ Unschedule(p)
    \/ Schedule(p)

Next ==
    \/ \E q \in Requests, r \in Rules, rec \in UiRow :
          StepperCreate(q, r, rec) \/ StepperUpdate(q, r, rec)
             \/ RuleCreate(q, r, rec) \/ RuleUpdate(q, r, rec)
    \/ \E q \in Requests, r \in Rules, on \in BOOLEAN :
          StepperToggle(q, r, on) \/ RuleToggle(q, r, on)
    \/ \E q \in Requests, r \in Rules : StepperDelete(q, r)
    \/ \E q \in Requests : ServeRequest(q) \/ RequestDies(q)
    \/ UnitChanges
    \/ Startup
    \/ Reload
    \/ \E p \in Procs : ProcessRule(p)
    \/ \E r \in Rules : CreateAlert(r)
    \/ Crash

Spec == Init /\ [][Next]_vars

\* Requests and processRule calls that are in progress run to their end: the
\* handlers put a deadline on every call they make, the startup reconciliation
\* relies on the database to answer.  A scheduler that has started reaches its
\* subscriptions.  Clients, operators (who start it), faults and alerts are not
\* fair.
Fairness ==
    /\ \A q \in Requests : WF_vars(ServeRequest(q))
    /\ \A p \in Procs : WF_vars(ProcessRule(p))
    /\ WF_vars(StartAdmin \/ SubscribeEvents)

FairSpec == Spec /\ Fairness

-----------------------------------------------------------------------------
\* Whatever overlaps, is lost or fails, a job runs a specification that its
\* rule had while it was enabled and that passed the runtime validation: the
\* checks of processRule hold for the very specification it schedules, not
\* for the one in the table by then.
ScheduledWasEnabledAndValid ==
    \A r \in Rules :
        jobs[r] # NoSpec => /\ <<r, jobs[r]>> \in everEnabled
                            /\ jobs[r] \in ValidSpecs

\* What table rules enables is in the history.
RowsInHistory ==
    \A r \in Rules : rules[r] # NoRow /\ rules[r].enabled
                        => <<r, rules[r].spec>> \in everEnabled

\* What a processRule call carries has passed the checks behind it.
CarriedWasChecked ==
    \A p \in Procs :
        /\ proc[p].pc \in {"check", "active", "schedule"}
              => <<proc[p].rule, proc[p].spec>> \in everEnabled
        /\ proc[p].pc \in {"active", "schedule"} => proc[p].spec \in ValidSpecs

\* The inductive invariant behind ScheduledWasEnabledAndValid.
LifecycleInv ==
    /\ TypeOK
    /\ ScheduledWasEnabledAndValid
    /\ RowsInHistory
    /\ CarriedWasChecked

\* When requests do not overlap, the job map and table rules agree whenever
\* the system has settled, through crashes, restarts, reloads, failed upserts,
\* failed deletes, failed checks and writes to a row the startup has in hand: a
\* row's rule has a job exactly when it is enabled with status ACTIVE, and then
\* with the row's specification.  Not so when an event is lost or is published
\* before the scheduler subscribes, a request dies half way, a status cannot be
\* written, a row cannot be read, or the list of rules after a crash is short.
JobsMatchRules ==
    (/\ Settled
     /\ faults \cap {"lost", "gap", "die", "status", "get"} = {}
     /\ ~({"crash", "list"} \subseteq faults)) =>
        \A r \in Rules :
            rules[r] # NoRow =>
                jobs[r] = IF rules[r].enabled /\ rules[r].status = "ACTIVE"
                          THEN rules[r].spec ELSE NoSpec

\* Status ACTIVE means what the README says, runtime validated and scheduled,
\* even when events are lost and requests die half way: every change of a row
\* resets its status first.  It needs that requests do not overlap, that
\* statuses can be written, that no row changes while the startup has it in
\* hand, and that a restart after a crash reads every row.
ActiveMeansScheduled ==
    (/\ Settled
     /\ faults \cap {"status", "race"} = {}
     /\ ~("crash" \in faults /\ faults \cap {"list", "get"} # {})) =>
        \A r \in Rules :
            rules[r] # NoRow /\ rules[r].status = "ACTIVE"
                => rules[r].enabled /\ jobs[r] = rules[r].spec

\* An enabled rule with a valid specification is eventually scheduled with it,
\* unless the row changes first, the check fails (and the row says so, if it
\* can be written), the scheduler is down, the event about it was lost, never
\* sent or sent before the scheduler subscribed, or the list of rules or the
\* row could not be read; a rule that was enabled while the scheduler was down
\* is found when it starts.
EnabledRuleGetsScheduled ==
    \A r \in Rules, s \in ValidSpecs :
        (rules[r] # NoRow /\ rules[r].enabled /\ rules[r].spec = s)
            ~> \/ jobs[r] = s
               \/ phase = "down"
               \/ faults \cap {"lost", "gap", "die", "list", "get"} # {}
               \/ {"check", "status"} \subseteq faults
               \/ rules[r] = NoRow
               \/ rules[r] # NoRow /\ (\/ ~rules[r].enabled
                                       \/ rules[r].spec # s
                                       \/ rules[r].status = "INVALID")

-----------------------------------------------------------------------------
(***************************************************************************)
(* What comments and documents of the repository say and the code does not *)
(* do.                                                                     *)
(***************************************************************************)

\* "ACTIVE - runtime validated and scheduled": a rule with status ACTIVE has a
\* job with its specification, after a restart too.
ActiveIsScheduled ==
    Settled =>
        \A r \in Rules : rules[r] # NoRow /\ rules[r].status = "ACTIVE"
            => jobs[r] = rules[r].spec

\* "Remove from rules table so the scheduler stops evaluating it": once a
\* deletion has settled the rule has no job.
DeletedRuleStops ==
    Settled => \A r \in Rules : r \in born /\ ui[r] = NoRow => jobs[r] = NoSpec

\* "DISABLED - manually disabled": a disabled rule does not carry the status
\* of a scheduled one and has no job.
DisabledRuleStops ==
    Settled =>
        \A r \in Rules : rules[r] # NoRow /\ ~rules[r].enabled
            => jobs[r] = NoSpec /\ rules[r].status # "ACTIVE"

=============================================================================

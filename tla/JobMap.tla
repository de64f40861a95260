------------------------------- MODULE JobMap -------------------------------
(***************************************************************************)
(* What the scheduler's Registry promises its callers, without goroutines, *)
(* channels or Job objects: a map from rules to the specification they are *)
(* evaluated with, and runs of specifications that were put in that map.   *)
(***************************************************************************)
CONSTANTS Rules, Specs, Workers, NoSpec, NoRun

VARIABLES
    sched,      \* the specification each rule is scheduled with
    live,       \* (rule, specification) pairs runs may still be taken from
    running     \* the pair each worker executes

vars == <<sched, live, running>>

Init ==
    /\ sched = [r \in Rules |-> NoSpec]
    /\ live = {}
    /\ running = [w \in Workers |-> NoRun]

\* Schedule replaces whatever the rule was scheduled with.
Schedule(r, s) ==
    /\ sched' = [sched EXCEPT ![r] = s]
    /\ live' = live \cup {<<r, s>>}
    /\ UNCHANGED running

Unschedule(r) ==
    /\ sched[r] # NoSpec
    /\ sched' = [sched EXCEPT ![r] = NoSpec]
    /\ UNCHANGED <<live, running>>

Stop ==
    /\ sched' = [r \in Rules |-> NoSpec]
    /\ UNCHANGED <<live, running>>

\* A worker starts a run, possibly of a pair that was replaced or removed
\* since, but never of one that was not scheduled.
Start(w, p) ==
    /\ running[w] = NoRun
    /\ p \in live
    /\ running' = [running EXCEPT ![w] = p]
    /\ UNCHANGED <<sched, live>>

End(w) ==
    /\ running[w] # NoRun
    /\ running' = [running EXCEPT ![w] = NoRun]
    /\ UNCHANGED <<sched, live>>

\* Once no run of a pair is left it is never run again.  A pair that the map
\* holds or a worker executes is not given up.
Drain(p) ==
    /\ p \in live
    /\ sched[p[1]] # p[2]
    /\ \A w \in Workers : running[w] # p
    /\ live' = live \ {p}
    /\ UNCHANGED <<sched, running>>

Next ==
    \/ \E r \in Rules, s \in Specs : Schedule(r, s)
    \/ \E r \in Rules : Unschedule(r)
    \/ Stop
    \/ \E w \in Workers, p \in Rules \X Specs : Start(w, p)
    \/ \E w \in Workers : End(w)
    \/ \E p \in Rules \X Specs : Drain(p)

Spec == Init /\ [][Next]_vars

=============================================================================

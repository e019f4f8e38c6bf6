------------------------------ MODULE RunLaunch ------------------------------
(* A run is launched from the protocol files, seeded arm by arm, advanced by  *)
(* the schedule or by hand, and on a local database reset.  How one cycle is  *)
(* committed is CycleCommit's; here a commit is one step.                     *)
EXTENDS ProtocolFiles, Integers

CONSTANTS
    Arm,            \* the arms of the run, in their order
    Creator,        \* processes that may create the run
    Invocation,     \* processes that may advance it
    MaxCycle        \* bound: cycles advanced

ASSUME LaunchAssumption ==
    MaxCycle \in Nat /\ Arm # {} /\ Arm \subseteq Nat /\ IsFiniteSet(Invocation)

VARIABLES
    run,        \* the run's record, if it exists
    seeds,      \* per arm, the starting state stored for it
    cycle,      \* the run's current cycle
    creating,   \* per creator, what it is about to store and for which arms
    armed,      \* whether the deployed function may advance the run
    schedule,   \* whether the schedule fires
    enabling,   \* whether an operator found the function armed and enables the schedule
    advancing,  \* the invocations about to commit a cycle, and whether each is deployed
    registered, \* history: the manifests that were completed over frozen files
    launched,   \* history: the manifest the canonical run was launched against
    crossed,    \* history: a run was reset while it was being created
    grace       \* history: of the invocations under way when the function was disarmed,
                \* how many may still commit

launchVars == <<run, seeds, cycle, creating>>
switchVars == <<armed, schedule, enabling, advancing>>
histVars == <<registered, launched, crossed, grace>>
vars == <<protocolVars, launchVars, switchVars, histVars>>

LOCAL_FIXTURE == "local_fixture"
AWS_STAGING == "aws_staging"
AWS_CANONICAL == "aws_canonical"
Kind == {LOCAL_FIXTURE, AWS_STAGING, AWS_CANONICAL}

\* What the run of a deployment is: staging, unless it is marked canonical.
run_kind == {AWS_STAGING, AWS_CANONICAL}

Init ==
    /\ ProtocolInit
    /\ run = None /\ seeds = [a \in Arm |-> None] /\ cycle = 0
    /\ creating = [p \in Creator |-> None]
    /\ armed = FALSE /\ schedule = FALSE /\ enabling = FALSE
    /\ advancing = [i \in Invocation |-> "no"]
    /\ registered = {} /\ launched = None /\ crossed = FALSE /\ grace = 0

-----------------------------------------------------------------------------
(* Launching.                                                                 *)

\* What a run records of the files, of its models and of the counter it uses.
from_bundle(kind, g) ==
    [kind |-> kind, files |-> digests, simulated |-> (g = "fixture"),
     counter |-> counter_identity(g).counter, source |-> counter_identity(g).source,
     model |-> IF g = "fixture" THEN "fixture" ELSE "nova"]

require_run_kind_consistent(c) ==
    /\ c.kind = AWS_CANONICAL => ~c.simulated /\ c.source \in EXACT_TOKEN_COUNT_SOURCES
    /\ c.kind = LOCAL_FIXTURE => c.simulated

AllButTheCounter(c, m) == {f \in {"source", "model", "files"} : c[f] # m[f]}
canonical_launch_mismatches(c, m) ==
    {f \in {"counter", "source", "model", "files"} : c[f] # m[f]}

require_canonical_launch(c) ==
    c.kind = AWS_CANONICAL =>
        read_canonical_manifest /\ canonical_launch_mismatches(c, canon) = {}

\* The starting state of an arm is made of the seeds as the process loaded them.
initialize_pilot_run == [text |-> text["seeds"], counts |-> counts]

\* A deployed run is configured by its settings and never by fixture models.
deployed_configuration(kind, g) ==
    /\ kind \in run_kind /\ g # "fixture"
    /\ require_runnable(kind = AWS_CANONICAL)

local_configuration(kind, g) ==
    /\ kind = LOCAL_FIXTURE
    /\ require_runnable(FALSE)

\* A run that exists is not created again.
put_run(c) == run = None /\ run' = c

\* The record is stored first, the arms' starting states after it.
create_run(p, kind, g) ==
    LET c == from_bundle(kind, g) IN
    /\ cmd = Idle /\ load_bundle
    /\ creating[p] = None
    /\ local_configuration(kind, g) \/ deployed_configuration(kind, g)
    /\ require_run_kind_consistent(c)
    /\ require_canonical_launch(c)
    /\ put_run(c)
    /\ creating' = [creating EXCEPT ![p] = [todo |-> SetToSortSeq(Arm, LAMBDA a, b : a < b), state |-> initialize_pilot_run]]
    /\ launched' = IF kind = AWS_CANONICAL THEN canon ELSE launched
    /\ UNCHANGED <<protocolVars, seeds, cycle, switchVars, registered, crossed, grace>>

\* Seeds are installed once: an arm that has a state fails the creation, and so
\* does, on the local database, a run that is gone.
seed_arm_state(p) ==
    LET a == Head(creating[p].todo) IN
    /\ creating[p] # None
    /\ IF seeds[a] = None /\ run # None
       THEN /\ seeds' = [seeds EXCEPT ![a] = creating[p].state]
            /\ creating' = [creating EXCEPT ![p] =
                   IF Len(creating[p].todo) = 1 THEN None
                   ELSE [creating[p] EXCEPT !.todo = Tail(creating[p].todo)]]
       ELSE /\ UNCHANGED seeds
            /\ creating' = [creating EXCEPT ![p] = None]
    /\ UNCHANGED <<protocolVars, run, cycle, switchVars, histVars>>

CreatorDies(p) ==
    /\ creating[p] # None
    /\ creating' = [creating EXCEPT ![p] = None]
    /\ UNCHANGED <<protocolVars, run, seeds, cycle, switchVars, histVars>>

\* Only a local fixture run is ever deleted, with everything under it.
Reset ==
    /\ run # None /\ run.kind = LOCAL_FIXTURE
    /\ run' = None
    /\ seeds' = [a \in Arm |-> None]
    /\ cycle' = 0
    /\ crossed' = (crossed \/ \E p \in Creator : creating[p] # None)
    /\ UNCHANGED <<protocolVars, creating, switchVars, registered, launched, grace>>

-----------------------------------------------------------------------------
(* The two switches of a deployment.                                          *)

\* `execution enable` and `disable` rewrite the function's environment.  Bound:
\* only once there is a deployed run, before which the switches decide nothing.
Deployed == run # None /\ run.kind \in run_kind
Execution(wanted_) ==
    /\ Deployed
    /\ armed # wanted_
    /\ armed' = wanted_
    /\ grace' = IF wanted_ THEN 0 ELSE Cardinality({i \in Invocation : advancing[i] = "deployed"})
    /\ UNCHANGED <<protocolVars, launchVars, schedule, enabling, advancing,
                   registered, launched, crossed>>

\* `schedule enable` looks at the function first and then updates the schedule.
FunctionIsArmed ==
    /\ ~enabling /\ ~schedule /\ armed
    /\ enabling' = TRUE
    /\ UNCHANGED <<protocolVars, launchVars, armed, schedule, advancing, histVars>>
ScheduleEnable ==
    /\ enabling
    /\ enabling' = FALSE /\ schedule' = TRUE
    /\ UNCHANGED <<protocolVars, launchVars, armed, advancing, histVars>>
ScheduleDisable ==
    /\ schedule
    /\ schedule' = FALSE
    /\ UNCHANGED <<protocolVars, launchVars, armed, enabling, advancing, histVars>>

-----------------------------------------------------------------------------
(* Advancing the run.                                                         *)

\* A run whose arms are not all stored is refused, whatever the reason.
AnyState == \E a \in Arm : seeds[a] # None
engine_at == \A a \in Arm : seeds[a] # None

MayAdvance == load_bundle /\ run # None /\ cycle < MaxCycle

Unasked == TRUE
require_can_execute == armed

\* The function fires on the schedule, or once by hand; it looks at its switch first.
Fire(i, scheduled) ==
    /\ advancing[i] = "no"
    /\ scheduled => schedule
    /\ require_can_execute
    /\ cmd = Idle /\ MayAdvance /\ Deployed
    /\ engine_at
    /\ advancing' = [advancing EXCEPT ![i] = "deployed"]
    /\ UNCHANGED <<protocolVars, launchVars, armed, schedule, enabling, histVars>>

\* The local scheduler and the local command ask no switch.
LocalTick(i) ==
    /\ advancing[i] = "no"
    /\ cmd = Idle /\ MayAdvance /\ run.kind = LOCAL_FIXTURE
    /\ engine_at
    /\ advancing' = [advancing EXCEPT ![i] = "local"]
    /\ UNCHANGED <<protocolVars, launchVars, armed, schedule, enabling, histVars>>

\* The cycle is committed, or the invocation ends without one: its run was
\* reset, another invocation was faster, its lock was refused, or it died.
Commit(i) ==
    /\ advancing[i] # "no"
    /\ run # None /\ engine_at /\ cycle < MaxCycle
    /\ cycle' = cycle + 1
    /\ advancing' = [advancing EXCEPT ![i] = "no"]
    /\ grace' = IF armed \/ advancing[i] = "local" THEN grace ELSE grace - 1
    /\ UNCHANGED <<protocolVars, run, seeds, creating, armed, schedule, enabling,
                   registered, launched, crossed>>
GiveUp(i) ==
    /\ advancing[i] # "no"
    /\ advancing' = [advancing EXCEPT ![i] = "no"]
    /\ UNCHANGED <<protocolVars, launchVars, armed, schedule, enabling, histVars>>

-----------------------------------------------------------------------------
\* Bound: once a run exists its files are still edited, but no command is started.
ProtocolStep ==
    /\ ProtocolNext
    /\ run = None \/ commands' = commands
    /\ registered' = IF is_frozen' /\ canon' # None /\ canonSum' = canon' /\ canonSum' # canonSum
                     THEN registered \cup {canon'} ELSE registered
    /\ UNCHANGED <<launchVars, switchVars, launched, crossed, grace>>

Next ==
    \/ ProtocolStep
    \/ \E p \in Creator : \/ \E kind \in Kind, g \in Gateway : create_run(p, kind, g)
                          \/ seed_arm_state(p) \/ CreatorDies(p)
    \/ Reset
    \/ \E w \in BOOLEAN : Execution(w)
    \/ FunctionIsArmed \/ ScheduleEnable \/ ScheduleDisable
    \/ \E i \in Invocation : \/ \E s \in BOOLEAN : Fire(i, s)
                             \/ LocalTick(i) \/ Commit(i) \/ GiveUp(i)

-----------------------------------------------------------------------------
\* A canonical run is the experiment that was frozen: the manifest it was launched
\* against was completed, digest file and all, over files that were all frozen,
\* and the run records those files and no fixture model
\* (cli.py read_canonical_manifest, require_canonical_launch).
CanonicalIsRegistered ==
    run # None /\ run.kind = AWS_CANONICAL =>
        /\ launched \in registered
        /\ run.files = launched.files
        /\ \A d \in Doc : run.files[d].status = FROZEN
        /\ ~run.simulated

\* The seeds of a canonical run are counted with the tokeniser the run is counted
\* with, unless a calibration was cut short between its files: no sequence of
\* calibrations by different counters gets past the freeze and the launch
\* (calibrate_local_budget.py leaves the exact source of the budget in place).
CountedAsFrozen ==
    run # None /\ run.kind = AWS_CANONICAL /\ ~torn /\ ~crossed =>
        \A a \in Arm : seeds[a] # None => seeds[a].counts = run.counter

\* The arms start from the same seeds, those of the files the run records, also
\* when the files are edited and a second process creates the run while a first
\* one seeds it; and a run none of whose cycles is missing an arm's start is all
\* that is ever advanced.  Only a reset in the middle of a creation can mix them.
ArmsStartAlike ==
    /\ ~crossed =>
         \A a \in Arm : seeds[a] # None =>
             /\ run # None
             /\ seeds[a].text = run.files["seeds"].text
             /\ seeds[a].counts = run.files["seeds"].holds.memories.provisional_token_count
    /\ cycle > 0 => \A a \in Arm : seeds[a] # None

\* Once the function is disarmed, at most the invocations already under way commit
\* a cycle: neither a schedule left enabled nor a call by hand moves the run
\* (run_cycle.py run_one_cycle, aws_cli.py _command_execution).
DisarmedIsQuiet == ~armed => grace >= 0

Spec == Init /\ [][Next]_vars
=============================================================================

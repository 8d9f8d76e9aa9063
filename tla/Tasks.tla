------------------------------- MODULE Tasks --------------------------------
(***************************************************************************)
(* The background runs of several engine processes that share a database   *)
(* (engine/src/task.rs, task/src/store.rs, task/src/instance.rs): creating *)
(* and launching a run, for a job that is due, by hand, or from a tool     *)
(* call; claiming it, ending it, stopping it; the notification that is     *)
(* written with its last state; heartbeats of the engines, and the pass a  *)
(* starting engine makes over the runs of engines that are gone.           *)
(*                                                                         *)
(* There is one job; its schedule is the set of slots at which it is due.  *)
(* An engine that is started again is another engine, as its instance id   *)
(* is fresh.  A run is a process; what is particular to agents is in       *)
(* AgentMailbox.                                                           *)
(***************************************************************************)
EXTENDS Naturals

CONSTANTS
    Engines, Runs, Slots, None,
    MaxUpsets \* bound: suspensions, crashes, stops and deletions

ASSUME TasksAssumption ==
    /\ None \notin Engines \cup Runs \cup Slots
    /\ MaxUpsets \in Nat

VARIABLES
    state,   \* task.state, "none" before the row exists
    owner,   \* task.owner_instance
    slot,    \* task.scheduled_for; None also for runs without a slot
    ofJob,   \* runs that belong to the job
    notes,   \* history variable: notifications written for each run
    creator, \* history variable: the engine that created it
    runner,  \* the runtime of each run
    asked,   \* runs whose own token is cancelled
    turned,  \* runs whose creating turn was stopped
    engine,  \* new, starting, up, dead
    stale,   \* engines whose last heartbeat is older than STALE_AFTER
    asleep,  \* engines suspended by the machine
    slept,   \* history variable: engines that were suspended before
    gone,    \* instances that were not live at the cutoff of a pass that goes on
    todo,    \* recoverable runs it has still to write
    launch,  \* the launch each engine is busy with
    upsets

rows == <<state, owner, slot, ofJob, notes, creator>>
tokens == <<asked, turned>>
clock == <<engine, stale, asleep, slept>>
boot == <<gone, todo>>
vars == <<rows, runner, tokens, clock, boot, launch, upsets>>

Active == {"queued", "running"}
Terminal == {"ended", "cancelled", "interrupted"}  \* ended: succeeded or failed

NoRunner == [engine |-> None, pc |-> "none", from |-> "queued", how |-> "none"]
Done(r) == [NoRunner EXCEPT !.engine = runner[r].engine, !.pc = "done"]
Idle == [pc |-> "idle", slot |-> None, run |-> None]

TypeOK ==
    /\ state \in [Runs -> {"none", "deleted"} \cup Active \cup Terminal]
    /\ owner \in [Runs -> Engines \cup {None}]
    /\ slot \in [Runs -> Slots \cup {None}]
    /\ ofJob \subseteq Runs
    /\ notes \in [Runs -> Nat]
    /\ creator \in [Runs -> Engines \cup {None}]
    /\ runner \in [Runs -> [engine : Engines \cup {None},
                            pc : {"none", "registered", "running", "ending", "done"},
                            from : Active,
                            how : {"none", "ended", "asked", "turn"}]]
    /\ asked \subseteq Runs
    /\ turned \subseteq Runs
    /\ engine \in [Engines -> {"new", "starting", "up", "dead"}]
    /\ stale \subseteq Engines
    /\ asleep \subseteq Engines
    /\ slept \subseteq Engines
    /\ gone \in [Engines -> SUBSET Engines]
    /\ todo \in [Engines -> SUBSET Runs]
    /\ launch \in [Engines -> [pc : {"idle", "check", "create", "launch"},
                               slot : Slots \cup {None}, run : Runs \cup {None}]]
    /\ upsets \in 0..MaxUpsets
    /\ \A r \in Runs : (state[r] \in {"none", "queued"} => owner[r] = None)
                       /\ (state[r] = "running" => owner[r] # None)

Init ==
    /\ state = [r \in Runs |-> "none"]
    /\ owner = [r \in Runs |-> None]
    /\ slot = [r \in Runs |-> None]
    /\ ofJob = {}
    /\ notes = [r \in Runs |-> 0]
    /\ creator = [r \in Runs |-> None]
    /\ runner = [r \in Runs |-> NoRunner]
    /\ asked = {}
    /\ turned = {}
    /\ engine = [e \in Engines |-> "new"]
    /\ stale = {}
    /\ asleep = {}
    /\ slept = {}
    /\ gone = [e \in Engines |-> {}]
    /\ todo = [e \in Engines |-> {}]
    /\ launch = [e \in Engines |-> Idle]
    /\ upsets = 0

-----------------------------------------------------------------------------
(* The rows                                                                *)

(* Mutant: whoever ends a run overwrites what the row says. *)
InStateAny(r, from) == state[r] # "none"

(* The compare-and-set of transition and claim. *)
InState(r, from) == state[r] = from

(* finish_checked: the last state and the notification of the conversation *)
(* are one transaction.                                                    *)
FinishRow(r, to, notify) ==
    /\ state' = [state EXCEPT ![r] = to]
    /\ notes' = [notes EXCEPT ![r] = IF notify THEN @ + 1 ELSE @]
    /\ UNCHANGED <<owner, slot, ofJob, creator>>

(* A row that somebody else has ended, or deleted, is left alone. *)
FinishRun(r, from, to, notify) ==
    \/ InState(r, from) /\ FinishRow(r, to, notify)
    \/ ~InState(r, from) /\ UNCHANGED rows

-----------------------------------------------------------------------------
(* Engines: start, heartbeat, sleep, crash                                 *)

Awake(e) == engine[e] \in {"starting", "up"} /\ e \notin asleep

(* TaskManager::with_host registers the instance. *)
Start(e) ==
    /\ engine[e] = "new"
    /\ e = CHOOSE x \in Engines : engine[x] = "new"
    /\ engine' = [engine EXCEPT ![e] = "starting"]
    /\ UNCHANGED <<rows, runner, tokens, stale, asleep, slept, boot, launch, upsets>>

(* Mutant: a starting engine judges by the process, not by the owner.      *)
NotLiveButSelf(e) == Engines \ {e}

(* The owners that are not live at live_cutoff(). *)
NotLive(e) == {x \in Engines : engine[x] = "new" \/ x \in stale}

(* reconcile_interrupted: the cutoff and list_recoverable ... *)
ListRecoverable(e) ==
    /\ Awake(e) /\ engine[e] = "starting"
    /\ LET orphans == {r \in Runs : state[r] = "running" /\ owner[r] \in NotLive(e)}
       IN  /\ todo' = [todo EXCEPT ![e] = orphans]
           /\ gone' = [gone EXCEPT ![e] = IF orphans = {} THEN {} ELSE NotLive(e)]
    /\ engine' = [engine EXCEPT ![e] = "up"]
    /\ UNCHANGED <<rows, runner, tokens, stale, asleep, slept, launch, upsets>>

(* ... then interrupt_orphan on each of them, guarded again by its state   *)
(* and by its owner being gone at the same cutoff.                         *)
InterruptOrphan(e) ==
    /\ Awake(e)
    /\ \E r \in todo[e] :
          /\ todo' = [todo EXCEPT ![e] = @ \ {r}]
          /\ gone' = IF todo[e] = {r} THEN [gone EXCEPT ![e] = {}] ELSE gone
          /\ \/ owner[r] \in gone[e] /\ FinishRun(r, "running", "interrupted", TRUE)
             \/ owner[r] \notin gone[e] /\ UNCHANGED rows
    /\ UNCHANGED <<runner, tokens, clock, launch, upsets>>

(* Nothing else is done before the pass is over: bootstrap is one thread. *)
Working(e) == Awake(e) /\ engine[e] = "up" /\ todo[e] = {}

(* Time goes by: an engine that is awake beats long before STALE_AFTER.    *)
TurnsStale(e) ==
    /\ engine[e] = "dead" \/ e \in asleep
    /\ e \notin stale
    /\ stale' = stale \cup {e}
    /\ UNCHANGED <<rows, runner, tokens, engine, asleep, slept, boot, launch, upsets>>

Upset == upsets < MaxUpsets /\ upsets' = upsets + 1

Sleep(e) ==
    /\ Upset
    /\ Awake(e)
    /\ asleep' = asleep \cup {e}
    /\ slept' = slept \cup {e}
    /\ UNCHANGED <<rows, runner, tokens, engine, stale, boot, launch>>

(* The interval of the scheduler fires as soon as the machine is back; a   *)
(* runner may go on before it does.                                        *)
Wake(e) ==
    /\ e \in asleep
    /\ engine[e] # "dead"
    /\ asleep' = asleep \ {e}
    /\ UNCHANGED <<rows, runner, tokens, engine, stale, slept, boot, launch, upsets>>

Crash(e) ==
    /\ Upset
    /\ engine[e] \in {"starting", "up"}
    /\ engine' = [engine EXCEPT ![e] = "dead"]
    /\ todo' = [todo EXCEPT ![e] = {}]
    /\ gone' = [gone EXCEPT ![e] = {}]
    /\ launch' = [launch EXCEPT ![e] = Idle]
    /\ runner' = [r \in Runs |-> IF runner[r].engine = e
                                 THEN Done(r) ELSE runner[r]]
    /\ UNCHANGED <<rows, tokens, stale, asleep, slept>>

-----------------------------------------------------------------------------
(* Launching                                                               *)

Launch(e, l) == launch' = [launch EXCEPT ![e] = l]

(* scheduler_tick: heartbeat, then a due slot that has no run yet. *)
SchedulerTick(e) ==
    /\ Working(e)
    /\ launch[e] = Idle
    /\ stale' = stale \ {e}
    /\ gone' = [x \in Engines |-> gone[x] \ {e}]
    /\ \/ UNCHANGED launch
       \/ \E s \in Slots :
             /\ \A r \in ofJob : slot[r] = s => state[r] = "deleted"
             /\ Launch(e, [pc |-> "check", slot |-> s, run |-> None])
    /\ UNCHANGED <<rows, runner, tokens, engine, asleep, slept, todo, upsets>>

(* run_job, by hand. *)
RunJob(e) ==
    /\ Working(e)
    /\ launch[e] = Idle
    /\ Launch(e, [pc |-> "check", slot |-> None, run |-> None])
    /\ UNCHANGED <<rows, runner, tokens, clock, boot, upsets>>

ActiveOfJob == {r \in ofJob : state[r] \in Active}
Held(e) == {r \in Runs : runner[r].engine = e
                         /\ runner[r].pc \in {"registered", "running", "ending"}}

(* launch_job: list_active_for_job and the policy, which the user may have *)
(* set to anything by now.  Allow goes on, Forbid gives up next to an      *)
(* active run, Replace cancels the active runs it has handles of and gives *)
(* up at the first that it has none of.                                    *)
CheckPolicy(e) ==
    /\ Working(e)
    /\ launch[e].pc = "check"
    /\ \/ /\ Launch(e, [launch[e] EXCEPT !.pc = "create"])
          /\ UNCHANGED asked
       \/ /\ ActiveOfJob # {}
          /\ Launch(e, Idle)
          /\ UNCHANGED asked
       \/ /\ ActiveOfJob # {} /\ ActiveOfJob \subseteq Held(e)
          /\ asked' = asked \cup ActiveOfJob
          /\ Launch(e, [launch[e] EXCEPT !.pc = "create"])
       \/ /\ ~(ActiveOfJob \subseteq Held(e))
          /\ \E some \in SUBSET (ActiveOfJob \cap Held(e)) : asked' = asked \cup some
          /\ Launch(e, Idle)
    /\ UNCHANGED <<rows, runner, turned, clock, boot, upsets>>

(* Ids are fresh; which one is used does not matter. *)
NewRow(e, r, s, job) ==
    /\ state[r] = "none"
    /\ r = CHOOSE x \in Runs : state[x] = "none"
    /\ state' = [state EXCEPT ![r] = "queued"]
    /\ slot' = [slot EXCEPT ![r] = s]
    /\ ofJob' = IF job THEN ofJob \cup {r} ELSE ofJob
    /\ Launch(e, [pc |-> "launch", slot |-> s, run |-> r])
    /\ creator' = [creator EXCEPT ![r] = e]
    /\ UNCHANGED <<owner, notes>>

(* TaskStore::create; the unique index turns away a second run of a slot. *)
CreateRun(e) ==
    /\ Working(e)
    /\ launch[e].pc = "create"
    /\ LET s == launch[e].slot
           taken == s # None /\ \E r \in ofJob : slot[r] = s /\ state[r] # "deleted"
       IN  \/ ~taken /\ \E r \in Runs : NewRow(e, r, s, TRUE)
           \/ taken /\ Launch(e, Idle) /\ UNCHANGED rows
    /\ UNCHANGED <<runner, tokens, clock, boot, upsets>>

(* start_process of a tool call. *)
StartProcess(e) ==
    /\ Working(e)
    /\ launch[e] = Idle
    /\ \E r \in Runs : NewRow(e, r, None, FALSE)
    /\ UNCHANGED <<runner, tokens, clock, boot, upsets>>

(* Mutant: a process that cannot be started leaves its row behind. *)
LaunchFailsSilently(e) ==
    /\ Working(e)
    /\ launch[e].pc = "launch"
    /\ launch[e].run \in ofJob
    /\ Launch(e, Idle)
    /\ UNCHANGED <<rows, runner, tokens, clock, boot, upsets>>

(* The program cannot be started.  A tool call has its process already. *)
LaunchFails(e) ==
    /\ Working(e)
    /\ launch[e].pc = "launch"
    /\ launch[e].run \in ofJob
    /\ FinishRun(launch[e].run, "queued", "ended", TRUE)
    /\ Launch(e, Idle)
    /\ UNCHANGED <<runner, tokens, clock, boot, upsets>>

(* register_process: the runtime waits until its handle is registered. *)
Register(e) ==
    /\ Working(e)
    /\ launch[e].pc = "launch"
    /\ runner' = [runner EXCEPT ![launch[e].run] =
                     [engine |-> e, pc |-> "registered", from |-> "queued", how |-> "none"]]
    /\ Launch(e, Idle)
    /\ UNCHANGED <<rows, tokens, clock, boot, upsets>>

-----------------------------------------------------------------------------
(* The runtime of a run                                                    *)

At(r, pc) == runner[r].pc = pc /\ Awake(runner[r].engine)

(* Which stop it was: the one aimed at the run counts. *)
StopOf(r) == IF r \in asked THEN "asked" ELSE "turn"
Stopped(r) == r \in asked \cup turned

Ends(r, from, how) ==
    /\ runner' = [runner EXCEPT ![r] = [@ EXCEPT !.pc = "ending", !.from = from, !.how = how]]
    /\ UNCHANGED <<rows, tokens, clock, boot, launch, upsets>>

StoppedBeforeStart(r) ==
    /\ At(r, "registered")
    /\ Stopped(r)
    /\ Ends(r, "queued", StopOf(r))

(* Mutant: the owner is left to a later statement. *)
ClaimUnowned(r) ==
    /\ At(r, "registered")
    /\ ~Stopped(r)
    /\ InState(r, "queued")
    /\ state' = [state EXCEPT ![r] = "running"]
    /\ runner' = [runner EXCEPT ![r].pc = "running"]
    /\ UNCHANGED <<owner, slot, ofJob, notes, creator, tokens, clock, boot, launch, upsets>>

(* claim: owner and state in one statement; without the row, no run. *)
Claim(r) ==
    /\ At(r, "registered")
    /\ ~Stopped(r)
    /\ \/ /\ InState(r, "queued")
          /\ state' = [state EXCEPT ![r] = "running"]
          /\ owner' = [owner EXCEPT ![r] = runner[r].engine]
          /\ runner' = [runner EXCEPT ![r].pc = "running"]
          /\ UNCHANGED <<slot, ofJob, notes, creator>>
       \/ /\ ~InState(r, "queued")
          /\ runner' = [runner EXCEPT ![r] = Done(r)]
          /\ UNCHANGED rows
    /\ UNCHANGED <<tokens, clock, boot, launch, upsets>>

(* The process exits, or its output cannot be stored. *)
ProcessEnds(r) ==
    /\ At(r, "running")
    /\ Ends(r, "running", "ended")

StopSeen(r) ==
    /\ At(r, "running")
    /\ Stopped(r)
    /\ Ends(r, "running", StopOf(r))

(* finish and finish_stopped, then release. *)
Finish(r) ==
    /\ At(r, "ending")
    /\ LET how == runner[r].how
           to == IF how = "ended" THEN "ended" ELSE "cancelled"
       IN  FinishRun(r, runner[r].from, to, how # "turn")
    /\ runner' = [runner EXCEPT ![r] = Done(r)]
    /\ asked' = asked \ {r}
    /\ UNCHANGED <<turned, clock, boot, launch, upsets>>

(* stop: only the process that holds the handle can. *)
Stop(r) ==
    /\ Upset
    /\ state[r] \in Active
    /\ \E e \in Engines : Working(e) /\ r \in Held(e)
    /\ r \notin asked
    /\ asked' = asked \cup {r}
    /\ UNCHANGED <<rows, runner, turned, clock, boot, launch>>

(* The turn whose tool call created the run is stopped. *)
StopTurn(r) ==
    /\ Upset
    /\ r \notin ofJob \cup turned
    /\ state[r] \in Active
    /\ turned' = turned \cup {r}
    /\ UNCHANGED <<rows, runner, asked, clock, boot, launch>>

(* delete_task. *)
DeleteTask(r) ==
    /\ Upset
    /\ state[r] \in Terminal
    /\ \E e \in Engines : Working(e)
    /\ state' = [state EXCEPT ![r] = "deleted"]
    /\ UNCHANGED <<owner, slot, ofJob, notes, creator, runner, tokens, clock, boot, launch>>

-----------------------------------------------------------------------------
Launches(e) == CheckPolicy(e) \/ CreateRun(e) \/ LaunchFails(e) \/ Register(e)
Boots(e) == ListRecoverable(e) \/ InterruptOrphan(e) \/ Wake(e)
Proceeds(r) == StoppedBeforeStart(r) \/ Claim(r) \/ StopSeen(r) \/ Finish(r)

Next ==
    \/ \E e \in Engines :
          \/ Start(e) \/ Boots(e) \/ TurnsStale(e) \/ Sleep(e) \/ Crash(e)
          \/ SchedulerTick(e) \/ RunJob(e) \/ StartProcess(e) \/ Launches(e)
    \/ \E r \in Runs : Proceeds(r) \/ ProcessEnds(r) \/ Stop(r) \/ StopTurn(r) \/ DeleteTask(r)

Spec == Init /\ [][Next]_vars

-----------------------------------------------------------------------------
(* A run is only taken from an engine that crashed or was suspended: the   *)
(* start of another engine leaves the runs of an engine that keeps its     *)
(* heartbeat alone (reconcile_interrupted, interrupt_orphan).              *)
TimelyRunsLeftAlone ==
    \A r \in Runs :
        state[r] = "interrupted" => engine[owner[r]] = "dead" \/ owner[r] \in slept

(* The conversation hears of every run that ended, exactly once, whoever   *)
(* ended it and whatever raced with that; only a run stopped together with *)
(* its turn ends in silence, and no run is announced before it ended.      *)
AnnouncedOnce ==
    \A r \in Runs :
        /\ notes[r] <= 1
        /\ state[r] \in Active \cup {"none"} => notes[r] = 0
        /\ state[r] \in Terminal /\ notes[r] = 0 => state[r] = "cancelled" /\ r \in turned

(* Somebody is still going to end every run that is not over: a queued run *)
(* is being launched or its runtime has not claimed it yet, a running one  *)
(* has its runtime, whichever step failed or was stopped.  Only the death  *)
(* of its engine leaves a run without anybody.                             *)
ActiveRunsCarried ==
    \A r \in Runs :
        state[r] \in Active /\ engine[creator[r]] # "dead" =>
            \/ launch[creator[r]].run = r /\ state[r] = "queued"
            \/ runner[r].pc = "registered" /\ state[r] = "queued"
            \/ runner[r].pc = "running" /\ state[r] = "running"
            \/ runner[r].pc = "ending" /\ state[r] = runner[r].from

=============================================================================

---------------------------- MODULE TasksProofs -----------------------------
(***************************************************************************)
(* Proofs about Tasks for any engines, runs and slots.                     *)
(*                                                                         *)
(* A run that a starting engine interrupts belongs to an engine that       *)
(* crashed or was suspended: heartbeats go stale for no other reason       *)
(* (StaleMeansAway), and what the pass has listed keeps its owner          *)
(* (OrphansAreLost).  A run is announced when, and only when, its row      *)
(* leaves the active states, and that happens once.  Who carries an active *)
(* run is the engine that created it, first as its launch, then as its     *)
(* runtime (LaunchesOwn, RunnersOwn).                                      *)
(***************************************************************************)
EXTENDS Tasks, TLAPS

(* The record a runtime is. *)
RunnerType == [engine : Engines \cup {None},
               pc : {"none", "registered", "running", "ending", "done"},
               from : Active,
               how : {"none", "ended", "asked", "turn"}]

(* The engine was away at some time. *)
Away(e) == engine[e] = "dead" \/ e \in slept

StaleMeansAway ==
    /\ \A e \in stale : Away(e)
    /\ asleep \subseteq slept

(* Creators and owners are engines that were started. *)
RowsHaveEngines ==
    \A r \in Runs :
        /\ state[r] # "none" =>
              creator[r] \in Engines /\ engine[creator[r]] # "new"
        /\ owner[r] # None => engine[owner[r]] # "new"

(* What an engine launches is queued, its own, and has no runtime yet. *)
LaunchesOwn ==
    \A e \in Engines :
        IF launch[e].pc = "launch"
        THEN /\ launch[e].run \in Runs
             /\ state[launch[e].run] = "queued"
             /\ creator[launch[e].run] = e
             /\ runner[launch[e].run].pc = "none"
        ELSE launch[e].run = None

(* A runtime belongs to the engine that created the run; one that ends a   *)
(* run in silence was stopped with its turn.                               *)
RunnersOwn ==
    \A r \in Runs :
        IF runner[r].pc = "none"
        THEN runner[r].engine = None
        ELSE /\ state[r] # "none"
             /\ runner[r].engine = creator[r]
             /\ runner[r].pc = "ending" /\ runner[r].how = "turn" => r \in turned

OwnerLost(r) == owner[r] \in Engines /\ Away(owner[r])

OrphansAreLost ==
    \A r \in Runs :
        /\ state[r] = "interrupted" => OwnerLost(r)
        /\ \A e \in Engines :
              r \in todo[e] => OwnerLost(r) /\ state[r] \notin {"none", "queued"}

IInv ==
    /\ TypeOK
    /\ StaleMeansAway
    /\ RowsHaveEngines
    /\ LaunchesOwn
    /\ RunnersOwn
    /\ OrphansAreLost
    /\ AnnouncedOnce
    /\ ActiveRunsCarried

Rest == LaunchesOwn /\ RunnersOwn /\ OrphansAreLost /\ AnnouncedOnce /\ ActiveRunsCarried

-----------------------------------------------------------------------------
LEMMA InitEstablishes == Init => IInv
<1> SUFFICES ASSUME Init PROVE IInv
  OBVIOUS
<1>1. TypeOK
  BY TasksAssumption DEF Init, TypeOK, NoRunner, Idle, Active
<1>2. StaleMeansAway /\ RowsHaveEngines
  BY DEF Init, StaleMeansAway, RowsHaveEngines
<1>3. LaunchesOwn /\ RunnersOwn /\ OrphansAreLost
  BY DEF Init, LaunchesOwn, RunnersOwn, OrphansAreLost, NoRunner, Idle
<1>4. AnnouncedOnce /\ ActiveRunsCarried
  BY DEF Init, AnnouncedOnce, ActiveRunsCarried, Active, Terminal
<1> QED BY <1>1, <1>2, <1>3, <1>4 DEF IInv

-----------------------------------------------------------------------------
(* Types where only the runtimes change.                                   *)
LEMMA RunnersTyped == ASSUME TypeOK PROVE runner \in [Runs -> RunnerType]
BY DEF TypeOK, RunnerType

LEMMA DoneTyped == ASSUME TypeOK, NEW r \in Runs PROVE Done(r) \in RunnerType
<1>1. runner[r].engine \in Engines \cup {None}
  BY DEF TypeOK
<1> QED BY <1>1 DEF Done, NoRunner, Active, RunnerType

LEMMA TypeFromRunners ==
    ASSUME TypeOK, runner' \in [Runs -> RunnerType],
           state' = state, owner' = owner, slot' = slot, ofJob' = ofJob, notes' = notes,
           creator' = creator, asked' = asked, turned' = turned, engine' = engine,
           stale' = stale, asleep' = asleep, slept' = slept, gone' = gone, todo' = todo,
           launch' = launch, upsets' = upsets
    PROVE  TypeOK'
BY DEF TypeOK, RunnerType

-----------------------------------------------------------------------------
(* Time and the engines: the rows, their runtimes and the stops stay as    *)
(* they are, no engine comes back to life, and an engine that is idle is   *)
(* idle or about to check a slot.                                          *)
ClockStep ==
    /\ UNCHANGED <<rows, runner, tokens>>
    /\ \A e \in Engines : /\ Away(e) => Away(e)'
                          /\ engine[e] # "new" => engine'[e] # "new"
                          /\ engine[e] = "dead" => engine'[e] = "dead"
    /\ \A e \in Engines : \/ launch'[e] = launch[e]
                          \/ launch[e] = Idle /\ launch'[e].pc = "check"
                             /\ launch'[e].run = None
    /\ \A e \in Engines : \A r \in todo'[e] :
          r \in todo[e] \/ (OwnerLost(r) /\ state[r] = "running")

LEMMA ClockStepKeeps ==
    ASSUME IInv, ClockStep
    PROVE  RowsHaveEngines' /\ Rest'
<1>1. RowsHaveEngines'
  BY DEF IInv, ClockStep, RowsHaveEngines, TypeOK, rows
<1>2. LaunchesOwn'
  BY DEF IInv, ClockStep, LaunchesOwn, rows, Idle
<1>3. RunnersOwn' /\ AnnouncedOnce'
  BY DEF IInv, ClockStep, RunnersOwn, AnnouncedOnce, rows, tokens
<1>4. OrphansAreLost'
  <2>1. \A r \in Runs : OwnerLost(r) => OwnerLost(r)'
    BY DEF ClockStep, OwnerLost, rows
  <2> QED BY <2>1 DEF IInv, ClockStep, OrphansAreLost, rows
<1>5. ActiveRunsCarried'
  <2> SUFFICES ASSUME NEW r \in Runs, state[r] \in Active, engine'[creator[r]] # "dead"
               PROVE  \/ launch'[creator[r]].run = r /\ state[r] = "queued"
                      \/ runner[r].pc = "registered" /\ state[r] = "queued"
                      \/ runner[r].pc = "running" /\ state[r] = "running"
                      \/ runner[r].pc = "ending" /\ state[r] = runner[r].from
    BY DEF ClockStep, ActiveRunsCarried, rows
  <2>1. creator[r] \in Engines
    BY DEF IInv, RowsHaveEngines, Active
  <2>2. engine[creator[r]] # "dead"
    BY <2>1 DEF ClockStep
  <2>3. launch[creator[r]].run = r => launch'[creator[r]] = launch[creator[r]]
    BY <2>1, TasksAssumption DEF ClockStep, Idle
  <2> QED BY <2>2, <2>3 DEF IInv, ActiveRunsCarried
<1> QED BY <1>1, <1>2, <1>3, <1>4, <1>5 DEF Rest

LEMMA ClockKeeps ==
    ASSUME IInv, NEW e \in Engines,
           \/ Start(e) \/ ListRecoverable(e) \/ Wake(e) \/ TurnsStale(e) \/ Sleep(e)
           \/ SchedulerTick(e) \/ RunJob(e)
    PROVE  IInv'
<1>1. CASE Start(e)
  <2>1. TypeOK' /\ StaleMeansAway' /\ ClockStep
    BY <1>1 DEF Start, IInv, TypeOK, StaleMeansAway, ClockStep, Away, rows, tokens, boot
  <2> QED BY <2>1, ClockStepKeeps DEF IInv, Rest
<1>2. CASE ListRecoverable(e)
  <2>1. \A r \in Runs : state[r] = "running" /\ owner[r] \in NotLive(e) => OwnerLost(r)
    BY DEF IInv, TypeOK, StaleMeansAway, RowsHaveEngines, OwnerLost, NotLive, Away
  <2>2. TypeOK' /\ StaleMeansAway'
    BY <1>2 DEF ListRecoverable, Awake, NotLive, IInv, TypeOK, StaleMeansAway, Away, rows,
                tokens
  <2>3. ClockStep
    BY <1>2, <2>1 DEF ListRecoverable, Awake, IInv, TypeOK, ClockStep, Away
  <2> QED BY <2>2, <2>3, ClockStepKeeps DEF IInv, Rest
<1>3. CASE Wake(e)
  <2>1. TypeOK' /\ StaleMeansAway' /\ ClockStep
    BY <1>3 DEF Wake, IInv, TypeOK, StaleMeansAway, ClockStep, Away, rows, tokens, boot
  <2> QED BY <2>1, ClockStepKeeps DEF IInv, Rest
<1>4. CASE TurnsStale(e)
  <2>1. TypeOK' /\ StaleMeansAway' /\ ClockStep
    BY <1>4 DEF TurnsStale, IInv, TypeOK, StaleMeansAway, ClockStep, Away, rows, tokens, boot
  <2> QED BY <2>1, ClockStepKeeps DEF IInv, Rest
<1>5. CASE Sleep(e)
  <2>1. upsets' \in 0..MaxUpsets
    BY <1>5, TasksAssumption DEF Sleep, Upset, IInv, TypeOK
  <2>2. TypeOK' /\ StaleMeansAway' /\ ClockStep
    BY <1>5, <2>1
    DEF Sleep, IInv, TypeOK, StaleMeansAway, ClockStep, Away, rows, tokens, boot
  <2> QED BY <2>2, ClockStepKeeps DEF IInv, Rest
<1>6. CASE SchedulerTick(e)
  <2>1. /\ launch' \in [Engines -> [pc : {"idle", "check", "create", "launch"},
                                    slot : Slots \cup {None}, run : Runs \cup {None}]]
        /\ \A x \in Engines : \/ launch'[x] = launch[x]
                              \/ launch[x] = Idle /\ launch'[x].pc = "check"
                                 /\ launch'[x].run = None
    BY <1>6 DEF SchedulerTick, Launch, IInv, TypeOK
  <2>2. TypeOK' /\ StaleMeansAway' /\ ClockStep
    BY <1>6, <2>1
    DEF SchedulerTick, IInv, TypeOK, StaleMeansAway, ClockStep, Away, rows, tokens
  <2> QED BY <2>2, ClockStepKeeps DEF IInv, Rest
<1>7. CASE RunJob(e)
  <2>1. /\ launch' \in [Engines -> [pc : {"idle", "check", "create", "launch"},
                                    slot : Slots \cup {None}, run : Runs \cup {None}]]
        /\ \A x \in Engines : \/ launch'[x] = launch[x]
                              \/ launch[x] = Idle /\ launch'[x].pc = "check"
                                 /\ launch'[x].run = None
    BY <1>7 DEF RunJob, Launch, IInv, TypeOK
  <2>2. TypeOK' /\ StaleMeansAway' /\ ClockStep
    BY <1>7, <2>1
    DEF RunJob, IInv, TypeOK, StaleMeansAway, ClockStep, Away, rows, tokens, clock, boot
  <2> QED BY <2>2, ClockStepKeeps DEF IInv, Rest
<1> QED BY <1>1, <1>2, <1>3, <1>4, <1>5, <1>6, <1>7

(* An engine that dies takes its launch and its runtimes with it: its runs *)
(* are nobody's.                                                           *)
LEMMA CrashKeeps ==
    ASSUME IInv, NEW e \in Engines, Crash(e)
    PROVE  IInv'
<1>1. /\ UNCHANGED <<rows, tokens, stale, asleep, slept>>
      /\ \A x \in Engines : engine'[x] = IF x = e THEN "dead" ELSE engine[x]
      /\ \A x \in Engines : launch'[x] = IF x = e THEN Idle ELSE launch[x]
      /\ \A x \in Engines : todo'[x] = IF x = e THEN {} ELSE todo[x]
      /\ \A r \in Runs : runner'[r] = IF runner[r].engine = e THEN Done(r) ELSE runner[r]
  BY DEF Crash, IInv, TypeOK
<1>2. TypeOK'
  <2>1. upsets' \in 0..MaxUpsets
    BY TasksAssumption DEF Crash, Upset, IInv, TypeOK
  <2>2. runner' \in [Runs -> RunnerType]
    BY RunnersTyped, DoneTyped DEF Crash, IInv
  <2> QED BY <1>1, <2>1, <2>2 DEF Crash, IInv, TypeOK, RunnerType, rows, tokens, Idle
<1>3. \A x \in Engines : Away(x) => Away(x)'
  BY <1>1 DEF Away
<1>4. StaleMeansAway' /\ RowsHaveEngines'
  BY <1>1, <1>3 DEF IInv, TypeOK, StaleMeansAway, RowsHaveEngines, rows
<1>5. LaunchesOwn'
  BY <1>1, TasksAssumption DEF IInv, LaunchesOwn, RunnersOwn, Idle, rows
<1>6. RunnersOwn'
  <2>1. \A r \in Runs : Done(r).pc = "done" /\ Done(r).engine = runner[r].engine
    BY DEF Done, NoRunner
  <2>2. ASSUME NEW r \in Runs
        PROVE  /\ state'[r] = state[r] /\ creator'[r] = creator[r]
               /\ r \in turned' <=> r \in turned
               /\ runner'[r].engine = runner[r].engine
               /\ \/ runner'[r] = runner[r]
                  \/ runner[r].engine = e /\ runner'[r].pc = "done"
    BY <1>1, <2>1 DEF rows, tokens
  <2>3. e # None
    BY TasksAssumption
  <2> QED BY <2>2, <2>3 DEF IInv, RunnersOwn
<1>7. OrphansAreLost' /\ AnnouncedOnce'
  BY <1>1, <1>3 DEF IInv, OrphansAreLost, OwnerLost, AnnouncedOnce, rows, tokens
<1>8. ActiveRunsCarried'
  BY <1>1, TasksAssumption
  DEF IInv, ActiveRunsCarried, RunnersOwn, RowsHaveEngines, Active, rows
<1> QED BY <1>2, <1>4, <1>5, <1>6, <1>7, <1>8 DEF IInv

-----------------------------------------------------------------------------
(* The policy of the job: nothing has been created yet.                    *)
LEMMA CheckPolicyKeeps ==
    ASSUME IInv, NEW e \in Engines, CheckPolicy(e)
    PROVE  IInv'
<1>1. UNCHANGED <<rows, runner, turned, clock, boot, upsets>> /\ launch[e].run = None
  BY DEF CheckPolicy, IInv, LaunchesOwn
<1>2. PICK l \in [pc : {"idle", "create"}, slot : Slots \cup {None}, run : {None}] :
         launch' = [launch EXCEPT ![e] = l]
  <2>1. Idle \in [pc : {"idle", "create"}, slot : Slots \cup {None}, run : {None}]
    BY DEF Idle
  <2>2. [launch[e] EXCEPT !.pc = "create"]
           \in [pc : {"idle", "create"}, slot : Slots \cup {None}, run : {None}]
    BY <1>1 DEF IInv, TypeOK
  <2> QED BY <2>1, <2>2 DEF CheckPolicy, Launch
<1>3. asked' \subseteq Runs
  BY DEF CheckPolicy, ActiveOfJob, IInv, TypeOK
<1>4. TypeOK'
  BY <1>1, <1>2, <1>3 DEF IInv, TypeOK, rows, clock, boot
<1>5. StaleMeansAway' /\ RowsHaveEngines' /\ RunnersOwn' /\ OrphansAreLost' /\ AnnouncedOnce'
  BY <1>1 DEF IInv, StaleMeansAway, RowsHaveEngines, RunnersOwn, OrphansAreLost, OwnerLost,
              Away, AnnouncedOnce, rows, clock, boot
<1>6. LaunchesOwn' /\ ActiveRunsCarried'
  BY <1>1, <1>2, TasksAssumption
  DEF IInv, TypeOK, LaunchesOwn, ActiveRunsCarried, RowsHaveEngines, Active, rows, clock
<1> QED BY <1>4, <1>5, <1>6 DEF IInv

(* A new row: its creator launches it, nobody else knows of it.            *)
LEMMA NewRowKeeps ==
    ASSUME IInv, NEW e \in Engines, NEW r \in Runs, NEW s \in Slots \cup {None},
           NEW job \in BOOLEAN, engine[e] # "new", launch[e].pc # "launch",
           NewRow(e, r, s, job), UNCHANGED <<runner, tokens, clock, boot, upsets>>
    PROVE  IInv'
<1>1. /\ state[r] = "none" /\ state' = [state EXCEPT ![r] = "queued"]
      /\ creator' = [creator EXCEPT ![r] = e]
      /\ launch' = [launch EXCEPT ![e] = [pc |-> "launch", slot |-> s, run |-> r]]
      /\ UNCHANGED <<owner, notes>>
  BY DEF NewRow, Launch
<1>2. slot' \in [Runs -> Slots \cup {None}] /\ ofJob' \subseteq Runs
  BY DEF NewRow, IInv, TypeOK
<1>3. runner[r].pc = "none" /\ launch[e].run = None
  BY <1>1 DEF IInv, RunnersOwn, LaunchesOwn
<1>4. TypeOK'
  BY <1>1, <1>2 DEF IInv, TypeOK, tokens, clock, boot, Active
<1>5. StaleMeansAway' /\ RowsHaveEngines'
  BY <1>1 DEF IInv, TypeOK, StaleMeansAway, RowsHaveEngines, Away, clock
<1>6. LaunchesOwn'
  BY <1>1, <1>3 DEF IInv, TypeOK, LaunchesOwn
<1>7. RunnersOwn'
  BY <1>1, <1>3 DEF IInv, TypeOK, RunnersOwn, tokens
<1>8. OrphansAreLost' /\ AnnouncedOnce'
  BY <1>1 DEF IInv, TypeOK, OrphansAreLost, OwnerLost, Away, AnnouncedOnce, Active, Terminal,
              clock, boot, tokens
<1>9. ActiveRunsCarried'
  <2> SUFFICES ASSUME NEW x \in Runs, state'[x] \in Active, engine[creator'[x]] # "dead"
               PROVE  \/ launch'[creator'[x]].run = x /\ state'[x] = "queued"
                      \/ runner[x].pc = "registered" /\ state'[x] = "queued"
                      \/ runner[x].pc = "running" /\ state'[x] = "running"
                      \/ runner[x].pc = "ending" /\ state'[x] = runner[x].from
    BY DEF ActiveRunsCarried, clock
  <2>1. CASE x = r
    BY <1>1, <2>1 DEF IInv, TypeOK
  <2>2. CASE x # r
    <3>1. state'[x] = state[x] /\ creator'[x] = creator[x]
      BY <1>1, <2>2 DEF IInv, TypeOK
    <3>2. creator[x] \in Engines
      BY <3>1 DEF IInv, RowsHaveEngines, Active
    <3>3. launch[creator[x]].run = x => launch'[creator[x]] = launch[creator[x]]
      BY <1>1, <1>3, <3>2, TasksAssumption DEF IInv, TypeOK
    <3> QED BY <3>1, <3>3 DEF IInv, ActiveRunsCarried
  <2> QED BY <2>1, <2>2
<1> QED BY <1>4, <1>5, <1>6, <1>7, <1>8, <1>9 DEF IInv

LEMMA CreateKeeps ==
    ASSUME IInv, NEW e \in Engines, CreateRun(e) \/ StartProcess(e)
    PROVE  IInv'
<1>1. engine[e] # "new" /\ launch[e].pc # "launch"
  <2>1. Working(e) /\ (launch[e].pc = "create" \/ launch[e] = Idle)
    BY Zenon DEF CreateRun, StartProcess
  <2> QED BY <2>1 DEF Working, Idle
<1>2. CASE \E r \in Runs, s \in Slots \cup {None}, job \in BOOLEAN :
             NewRow(e, r, s, job) /\ UNCHANGED <<runner, tokens, clock, boot, upsets>>
  BY <1>1, <1>2, NewRowKeeps
<1>3. CASE Launch(e, Idle) /\ UNCHANGED <<rows, runner, tokens, clock, boot, upsets>>
  <2>1. launch[e].run = None /\ launch' = [launch EXCEPT ![e] = Idle]
    BY <1>1, <1>3 DEF Launch, IInv, LaunchesOwn
  <2>2. TypeOK'
    BY <1>3, <2>1 DEF IInv, TypeOK, Idle, rows, tokens, clock, boot
  <2>3. /\ StaleMeansAway' /\ RowsHaveEngines' /\ RunnersOwn' /\ OrphansAreLost'
        /\ AnnouncedOnce'
    BY <1>3 DEF IInv, StaleMeansAway, RowsHaveEngines, RunnersOwn, OrphansAreLost,
                OwnerLost, Away, AnnouncedOnce, rows, tokens, clock, boot
  <2>4. LaunchesOwn' /\ ActiveRunsCarried'
    BY <1>3, <2>1, TasksAssumption
    DEF IInv, TypeOK, LaunchesOwn, ActiveRunsCarried, RowsHaveEngines, Active, Idle, rows,
        clock
  <2> QED BY <2>2, <2>3, <2>4 DEF IInv
<1>4. CASE CreateRun(e)
  <2>1. launch[e].slot \in Slots \cup {None}
    BY DEF IInv, TypeOK
  <2> QED BY <1>2, <1>3, <1>4, <2>1 DEF CreateRun
<1>5. CASE StartProcess(e)
  BY <1>2, <1>5 DEF StartProcess
<1> QED BY <1>4, <1>5

-----------------------------------------------------------------------------
(* The process of a run is there: its runtime is registered.               *)
LEMMA RegisterKeeps ==
    ASSUME IInv, NEW e \in Engines, Register(e)
    PROVE  IInv'
<1> DEFINE r == launch[e].run
<1>1. /\ r \in Runs /\ state[r] = "queued" /\ creator[r] = e /\ runner[r].pc = "none"
      /\ launch' = [launch EXCEPT ![e] = Idle]
      /\ runner' = [runner EXCEPT ![r] = [engine |-> e, pc |-> "registered",
                                          from |-> "queued", how |-> "none"]]
      /\ UNCHANGED <<rows, tokens, clock, boot, upsets>>
  BY DEF Register, Launch, IInv, LaunchesOwn
<1> HIDE DEF r
<1>2. TypeOK'
  BY <1>1 DEF IInv, TypeOK, Idle, Active, rows, tokens, clock, boot
<1>3. StaleMeansAway' /\ RowsHaveEngines' /\ OrphansAreLost' /\ AnnouncedOnce'
  BY <1>1 DEF IInv, StaleMeansAway, RowsHaveEngines, OrphansAreLost, OwnerLost, Away,
              AnnouncedOnce, rows, tokens, clock, boot
<1>4. \A x \in Engines : x # e /\ launch[x].pc = "launch" => launch[x].run # r
  BY <1>1 DEF IInv, LaunchesOwn
<1>5. LaunchesOwn'
  BY <1>1, <1>4 DEF IInv, TypeOK, LaunchesOwn, Idle, rows
<1>6. RunnersOwn'
  BY <1>1 DEF IInv, TypeOK, RunnersOwn, rows, tokens
<1>7. ActiveRunsCarried'
  <2>1. \A x \in Runs : x # r => runner'[x] = runner[x]
    BY <1>1 DEF IInv, TypeOK
  <2>2. runner'[r].pc = "registered" /\ state'[r] = "queued"
    BY <1>1 DEF IInv, TypeOK, rows
  <2>3. \A x \in Runs : x # r /\ creator[x] \in Engines /\ launch[creator[x]].run = x
                        => launch'[creator[x]] = launch[creator[x]]
    BY <1>1 DEF IInv, TypeOK, r
  <2> QED BY <1>1, <2>1, <2>2, <2>3
      DEF IInv, ActiveRunsCarried, RowsHaveEngines, Active, rows, clock
<1> QED BY <1>2, <1>3, <1>5, <1>6, <1>7 DEF IInv

(* The row of a run leaves an active state for a last one, with its        *)
(* notification; to is what it may become, given who writes it.            *)
RowEnds(r, from, to, notify) ==
    /\ state[r] = from /\ from \in Active /\ to \in Terminal
    /\ FinishRow(r, to, notify)
    /\ to = "interrupted" => OwnerLost(r)
    /\ ~notify => to = "cancelled" /\ r \in turned

LEMMA RowEndsKeeps ==
    ASSUME IInv, NEW r \in Runs, NEW from, NEW to, NEW notify \in BOOLEAN,
           RowEnds(r, from, to, notify)
    PROVE  /\ state' \in [Runs -> {"none", "deleted"} \cup Active \cup Terminal]
           /\ notes' \in [Runs -> Nat]
           /\ state' = [state EXCEPT ![r] = to]
           /\ UNCHANGED <<owner, slot, ofJob, creator>>
           /\ to \notin {"none", "queued", "running"}
           /\ notes[r] = 0 /\ notes'[r] = (IF notify THEN 1 ELSE 0)
           /\ \A x \in Runs : x # r => notes'[x] = notes[x]
BY DEF RowEnds, FinishRow, IInv, TypeOK, AnnouncedOnce, Active, Terminal

LEMMA AnnouncementsKept ==
    ASSUME IInv, NEW r \in Runs, NEW from, NEW to, NEW notify \in BOOLEAN,
           RowEnds(r, from, to, notify), turned' = turned
    PROVE  AnnouncedOnce'
<1>1. \A x \in Runs : x # r => state'[x] = state[x]
  BY RowEndsKeeps DEF IInv, TypeOK
<1>2. state'[r] = to /\ to \notin Active \cup {"none"}
  BY RowEndsKeeps DEF IInv, TypeOK, Active
<1> QED BY <1>1, <1>2, RowEndsKeeps DEF IInv, AnnouncedOnce, RowEnds

(* The program cannot be started: the queued row ends and is announced.    *)
LEMMA LaunchFailsKeeps ==
    ASSUME IInv, NEW e \in Engines, LaunchFails(e)
    PROVE  IInv'
<1> DEFINE r == launch[e].run
<1>1. /\ r \in Runs /\ state[r] = "queued" /\ creator[r] = e /\ runner[r].pc = "none"
      /\ launch' = [launch EXCEPT ![e] = Idle]
      /\ UNCHANGED <<runner, tokens, clock, boot, upsets>>
      /\ RowEnds(r, "queued", "ended", TRUE)
  BY DEF LaunchFails, Launch, IInv, LaunchesOwn, RowEnds, FinishRun, InState, Active, Terminal
<1> HIDE DEF r
<1>2. /\ state' = [state EXCEPT ![r] = "ended"] /\ notes' \in [Runs -> Nat]
      /\ state' \in [Runs -> {"none", "deleted"} \cup Active \cup Terminal]
      /\ UNCHANGED <<owner, slot, ofJob, creator>>
  <2>1. RowEnds(r, "queued", "ended", TRUE) /\ r \in Runs
    BY <1>1
  <2> QED BY <2>1, RowEndsKeeps, Zenon
<1>3. TypeOK'
  BY <1>1, <1>2 DEF IInv, TypeOK, Idle, tokens, clock, boot
<1>4. AnnouncedOnce'
  BY <1>1, AnnouncementsKept DEF tokens
<1>5. StaleMeansAway' /\ RowsHaveEngines' /\ OrphansAreLost'
  BY <1>1, <1>2 DEF IInv, TypeOK, StaleMeansAway, RowsHaveEngines, OrphansAreLost, OwnerLost,
                    Away, clock, boot
<1>6. \A x \in Engines : x # e /\ launch[x].pc = "launch" => launch[x].run # r
  BY <1>1 DEF IInv, LaunchesOwn
<1>7. LaunchesOwn' /\ RunnersOwn'
  BY <1>1, <1>2, <1>6 DEF IInv, TypeOK, LaunchesOwn, RunnersOwn, Idle, tokens
<1>8. ActiveRunsCarried'
  <2>1. \A x \in Runs : x # r => state'[x] = state[x]
    BY <1>2 DEF IInv, TypeOK
  <2>2. state'[r] \notin Active
    BY <1>1, <1>2 DEF IInv, TypeOK, Active
  <2>3. \A x \in Runs : x # r /\ creator[x] \in Engines /\ launch[creator[x]].run = x
                        => launch'[creator[x]] = launch[creator[x]]
    BY <1>1 DEF IInv, TypeOK, r
  <2> QED BY <1>1, <1>2, <2>1, <2>2, <2>3
      DEF IInv, ActiveRunsCarried, RowsHaveEngines, Active, clock
<1> QED BY <1>3, <1>4, <1>5, <1>7, <1>8 DEF IInv

-----------------------------------------------------------------------------
(* A runtime that is about to end its run: what it found is in its hands,  *)
(* the row is as it was.                                                   *)
LEMMA EndsKeeps ==
    ASSUME IInv, NEW r \in Runs, NEW from \in Active, NEW how \in {"ended", "asked", "turn"},
           Ends(r, from, how),
           runner[r].pc = IF from = "queued" THEN "registered" ELSE "running",
           how = "turn" => r \in turned
    PROVE  IInv'
<1>1. /\ UNCHANGED <<rows, tokens, clock, boot, launch, upsets>>
      /\ \A x \in Runs : x # r => runner'[x] = runner[x]
      /\ runner'[r].pc = "ending" /\ runner'[r].from = from /\ runner'[r].how = how
      /\ runner'[r].engine = runner[r].engine
      /\ runner[r].pc # "none"
  BY DEF Ends, IInv, TypeOK
<1>2. TypeOK'
  <2>1. runner' \in [Runs -> RunnerType]
    BY RunnersTyped DEF Ends, IInv, RunnerType
  <2> QED BY <1>1, <2>1, TypeFromRunners DEF IInv, rows, tokens, clock, boot
<1>3. StaleMeansAway' /\ RowsHaveEngines' /\ OrphansAreLost' /\ AnnouncedOnce'
  BY <1>1 DEF IInv, StaleMeansAway, RowsHaveEngines, OrphansAreLost, OwnerLost, Away,
              AnnouncedOnce, rows, tokens, clock, boot
<1>4. LaunchesOwn' /\ RunnersOwn'
  BY <1>1 DEF IInv, LaunchesOwn, RunnersOwn, rows, tokens
<1>5. ActiveRunsCarried'
  <2>1. state[r] \in Active /\ engine[creator[r]] # "dead" => state[r] = from
    <3>1. launch[creator[r]].run # r
      BY <1>1, TasksAssumption DEF IInv, LaunchesOwn, RunnersOwn, RowsHaveEngines
    <3> QED BY <3>1 DEF IInv, ActiveRunsCarried, Active
  <2> QED BY <1>1, <2>1 DEF IInv, ActiveRunsCarried, rows, clock
<1> QED BY <1>2, <1>3, <1>4, <1>5 DEF IInv

LEMMA StopOfTurn ==
    ASSUME NEW r \in Runs, Stopped(r)
    PROVE  StopOf(r) \in {"asked", "turn"} /\ (StopOf(r) = "turn" => r \in turned)
BY DEF Stopped, StopOf

(* Somebody who is at work is an engine. *)
LEMMA RuntimeEngine ==
    ASSUME IInv, NEW r \in Runs, NEW pc \in {"registered", "running", "ending"}, At(r, pc)
    PROVE  /\ runner[r].engine = creator[r] /\ creator[r] \in Engines
           /\ engine[creator[r]] \notin {"new", "dead"}
           /\ runner[r].pc = pc /\ state[r] # "none" /\ launch[creator[r]].run # r
<1>1. /\ runner[r].pc = pc /\ runner[r].engine = creator[r] /\ state[r] # "none"
      /\ engine[creator[r]] \notin {"new", "dead"}
  BY DEF At, Awake, IInv, RunnersOwn
<1>2. creator[r] \in Engines
  BY <1>1 DEF IInv, RowsHaveEngines
<1>3. launch[creator[r]].run # r
  BY <1>1, <1>2, TasksAssumption DEF IInv, LaunchesOwn
<1> QED BY <1>1, <1>2, <1>3

LEMMA StopsKeep ==
    ASSUME IInv, NEW r \in Runs, StoppedBeforeStart(r) \/ StopSeen(r) \/ ProcessEnds(r)
    PROVE  IInv'
<1>1. CASE StoppedBeforeStart(r)
  BY <1>1, StopOfTurn, EndsKeeps DEF StoppedBeforeStart, At, Active
<1>2. CASE StopSeen(r)
  BY <1>2, StopOfTurn, EndsKeeps DEF StopSeen, At, Active
<1>3. CASE ProcessEnds(r)
  BY <1>3, EndsKeeps DEF ProcessEnds, At, Active
<1> QED BY <1>1, <1>2, <1>3

(* The claim: owner and state in one statement.                            *)
LEMMA ClaimKeeps ==
    ASSUME IInv, NEW r \in Runs, Claim(r)
    PROVE  IInv'
<1> DEFINE e == creator[r]
<1>1. /\ runner[r].engine = e /\ e \in Engines /\ engine[e] \notin {"new", "dead"}
      /\ runner[r].pc = "registered" /\ state[r] # "none" /\ launch[e].run # r
      /\ UNCHANGED <<slot, ofJob, notes, creator, tokens, clock, boot, launch, upsets>>
  BY RuntimeEngine DEF Claim, rows
<1> HIDE DEF e
<1>2. \A x \in Engines : launch[x].pc = "launch" => launch[x].run # r
  BY <1>1 DEF IInv, LaunchesOwn
<1>3. CASE /\ state[r] = "queued"
           /\ state' = [state EXCEPT ![r] = "running"]
           /\ owner' = [owner EXCEPT ![r] = e]
           /\ runner' = [runner EXCEPT ![r].pc = "running"]
  <2>1. /\ \A x \in Runs : x # r => runner'[x] = runner[x] /\ state'[x] = state[x]
                                    /\ owner'[x] = owner[x]
        /\ runner'[r].pc = "running" /\ runner'[r].engine = e
        /\ state'[r] = "running" /\ owner'[r] = e
    BY <1>1, <1>3 DEF IInv, TypeOK
  <2>2. TypeOK'
    <3>1. e # None
      BY <1>1, TasksAssumption
    <3>2. /\ owner' \in [Runs -> Engines \cup {None}]
          /\ state' \in [Runs -> {"none", "deleted"} \cup Active \cup Terminal]
      BY <1>1, <1>3 DEF IInv, TypeOK, Active
    <3>3. runner' \in [Runs -> RunnerType]
      BY <1>3, RunnersTyped DEF IInv, RunnerType
    <3>4. \A x \in Runs : (state'[x] \in {"none", "queued"} => owner'[x] = None)
                          /\ (state'[x] = "running" => owner'[x] # None)
      BY <2>1, <3>1 DEF IInv, TypeOK
    <3> QED BY <1>1, <3>2, <3>3, <3>4 DEF IInv, TypeOK, RunnerType, tokens, clock, boot
  <2>3. StaleMeansAway' /\ RowsHaveEngines'
    BY <1>1, <2>1 DEF IInv, StaleMeansAway, RowsHaveEngines, Away, clock, e
  <2>4. LaunchesOwn' /\ RunnersOwn'
    BY <1>1, <1>2, <2>1 DEF IInv, LaunchesOwn, RunnersOwn, tokens, e
  <2>5. OrphansAreLost'
    BY <1>1, <1>3, <2>1 DEF IInv, OrphansAreLost, OwnerLost, Away, clock, boot
  <2>6. AnnouncedOnce'
    BY <1>1, <1>3, <2>1 DEF IInv, AnnouncedOnce, Active, Terminal, tokens
  <2>7. ActiveRunsCarried'
    BY <1>1, <2>1 DEF IInv, ActiveRunsCarried, clock
  <2> QED BY <2>2, <2>3, <2>4, <2>5, <2>6, <2>7 DEF IInv
<1>4. CASE /\ state[r] # "queued"
           /\ runner' = [runner EXCEPT ![r] = Done(r)]
           /\ UNCHANGED rows
  <2>1. /\ \A x \in Runs : x # r => runner'[x] = runner[x]
        /\ runner'[r] = Done(r)
        /\ Done(r) = [NoRunner EXCEPT !.engine = e, !.pc = "done"]
    BY <1>1, <1>4 DEF IInv, TypeOK, Done
  <2>2. TypeOK'
    <3>1. runner' \in [Runs -> RunnerType]
      BY <1>4, RunnersTyped, DoneTyped DEF IInv
    <3> QED BY <1>1, <1>4, <3>1, TypeFromRunners DEF IInv, rows, tokens, clock, boot
  <2>3. StaleMeansAway' /\ RowsHaveEngines' /\ OrphansAreLost' /\ AnnouncedOnce'
    BY <1>1, <1>4 DEF IInv, StaleMeansAway, RowsHaveEngines, OrphansAreLost, OwnerLost,
                      Away, AnnouncedOnce, rows, tokens, clock, boot
  <2>4. LaunchesOwn' /\ RunnersOwn'
    BY <1>1, <1>2, <1>4, <2>1
    DEF IInv, LaunchesOwn, RunnersOwn, NoRunner, rows, tokens, e
  <2>5. ActiveRunsCarried'
    BY <1>1, <1>4, <2>1 DEF IInv, ActiveRunsCarried, Active, rows, clock, e
  <2> QED BY <2>2, <2>3, <2>4, <2>5 DEF IInv
<1> QED BY <1>1, <1>3, <1>4 DEF Claim, InState

(* A run is over, and what its runtime says of it is written unless        *)
(* somebody else has ended it.                                             *)
LEMMA FinishKeeps ==
    ASSUME IInv, NEW r \in Runs, Finish(r)
    PROVE  IInv'
<1> DEFINE e == creator[r]
           from == runner[r].from
           to == IF runner[r].how = "ended" THEN "ended" ELSE "cancelled"
           notify == runner[r].how # "turn"
<1>1. /\ runner[r].engine = e /\ e \in Engines /\ engine[e] \notin {"new", "dead"}
      /\ runner[r].pc = "ending" /\ state[r] # "none" /\ launch[e].run # r
      /\ runner' = [runner EXCEPT ![r] = Done(r)]
      /\ asked' \subseteq Runs
      /\ UNCHANGED <<turned, clock, boot, launch, upsets>>
  BY RuntimeEngine DEF Finish, IInv, TypeOK
<1>2. /\ \A x \in Runs : x # r => runner'[x] = runner[x]
      /\ runner'[r] = Done(r)
      /\ Done(r) = [NoRunner EXCEPT !.engine = e, !.pc = "done"]
  BY <1>1 DEF IInv, TypeOK, Done
<1>3. runner' \in [Runs -> RunnerType]
  BY <1>1, RunnersTyped, DoneTyped DEF IInv
<1>4. /\ notify \in BOOLEAN /\ from \in Active /\ to \in {"ended", "cancelled"}
      /\ ~notify => to = "cancelled" /\ r \in turned
  BY <1>1 DEF IInv, TypeOK, RunnersOwn
<1>5. \/ RowEnds(r, from, to, notify)
      \/ state[r] # from /\ UNCHANGED rows
  BY <1>4 DEF Finish, FinishRun, InState, RowEnds, Terminal
<1>6. \A x \in Engines : launch[x].pc = "launch" => launch[x].run # r
  BY <1>1 DEF IInv, LaunchesOwn
<1> HIDE DEF e, from, to, notify
<1>7. CASE RowEnds(r, from, to, notify)
  <2>1. /\ state' = [state EXCEPT ![r] = to] /\ notes' \in [Runs -> Nat]
        /\ state' \in [Runs -> {"none", "deleted"} \cup Active \cup Terminal]
        /\ UNCHANGED <<owner, slot, ofJob, creator>>
    <3>1. notify \in BOOLEAN /\ RowEnds(r, from, to, notify)
      BY <1>4, <1>7
    <3> QED BY <3>1, RowEndsKeeps, SMTT(20)
  <2>2. /\ \A x \in Runs : x # r => state'[x] = state[x]
        /\ state'[r] = to /\ to \notin Active \cup {"none", "interrupted"}
    BY <1>4, <2>1 DEF IInv, TypeOK, Active
  <2>3. TypeOK'
    BY <1>1, <1>3, <2>1, <2>2 DEF IInv, TypeOK, RunnerType, Active, clock, boot
  <2>4. StaleMeansAway' /\ RowsHaveEngines'
    BY <1>1, <2>1, <2>2 DEF IInv, StaleMeansAway, RowsHaveEngines, Away, clock
  <2>5. LaunchesOwn' /\ RunnersOwn'
    BY <1>1, <1>2, <1>6, <2>1, <2>2 DEF IInv, LaunchesOwn, RunnersOwn, NoRunner, e
  <2>6. OrphansAreLost'
    BY <1>1, <2>1, <2>2, <1>4 DEF IInv, OrphansAreLost, OwnerLost, Away, Active, clock, boot
  <2>7. AnnouncedOnce'
    <3>1. turned' = turned
      BY <1>1
    <3> QED BY <1>4, <1>7, <3>1, AnnouncementsKept, Zenon
  <2>8. ActiveRunsCarried'
    BY <1>1, <1>2, <2>1, <2>2 DEF IInv, ActiveRunsCarried, clock
  <2> QED BY <2>3, <2>4, <2>5, <2>6, <2>7, <2>8 DEF IInv
<1>8. CASE state[r] # from /\ UNCHANGED rows
  <2>1. TypeOK'
    BY <1>1, <1>3, <1>8 DEF IInv, TypeOK, RunnerType, rows, clock, boot
  <2>2. StaleMeansAway' /\ RowsHaveEngines' /\ OrphansAreLost' /\ AnnouncedOnce'
    BY <1>1, <1>8 DEF IInv, StaleMeansAway, RowsHaveEngines, OrphansAreLost, OwnerLost,
                      Away, AnnouncedOnce, rows, clock, boot
  <2>3. LaunchesOwn' /\ RunnersOwn'
    BY <1>1, <1>2, <1>6, <1>8 DEF IInv, LaunchesOwn, RunnersOwn, NoRunner, rows, e
  <2>4. ActiveRunsCarried'
    BY <1>1, <1>2, <1>8 DEF IInv, ActiveRunsCarried, rows, clock, e, from
  <2> QED BY <2>1, <2>2, <2>3, <2>4 DEF IInv
<1> QED BY <1>5, <1>7, <1>8

-----------------------------------------------------------------------------
(* A stop, of the run or of its turn, is a mark the runtime will see.      *)
LEMMA MarksKeep ==
    ASSUME IInv, NEW r \in Runs, Stop(r) \/ StopTurn(r)
    PROVE  IInv'
<1>1. /\ UNCHANGED <<rows, runner, clock, boot, launch>>
      /\ turned \subseteq turned' /\ turned' \subseteq Runs /\ asked' \subseteq Runs
      /\ upsets' \in 0..MaxUpsets
  BY TasksAssumption DEF Stop, StopTurn, Upset, IInv, TypeOK
<1>2. TypeOK'
  BY <1>1 DEF IInv, TypeOK, rows, clock, boot
<1>3. StaleMeansAway' /\ RowsHaveEngines' /\ OrphansAreLost' /\ AnnouncedOnce'
  BY <1>1 DEF IInv, StaleMeansAway, RowsHaveEngines, OrphansAreLost, OwnerLost, Away,
              AnnouncedOnce, rows, clock, boot
<1>4. LaunchesOwn' /\ RunnersOwn' /\ ActiveRunsCarried'
  BY <1>1 DEF IInv, LaunchesOwn, RunnersOwn, ActiveRunsCarried, rows, clock
<1> QED BY <1>2, <1>3, <1>4 DEF IInv

(* Only a run that is over is deleted.                                     *)
LEMMA DeleteKeeps ==
    ASSUME IInv, NEW r \in Runs, DeleteTask(r)
    PROVE  IInv'
<1>1. /\ state' = [state EXCEPT ![r] = "deleted"] /\ state[r] \in Terminal
      /\ UNCHANGED <<owner, slot, ofJob, notes, creator, runner, tokens, clock, boot, launch>>
      /\ upsets' \in 0..MaxUpsets
  BY TasksAssumption DEF DeleteTask, Upset, IInv, TypeOK
<1>2. /\ \A x \in Runs : x # r => state'[x] = state[x]
      /\ state'[r] = "deleted"
  BY <1>1 DEF IInv, TypeOK
<1>3. TypeOK'
  BY <1>1, <1>2 DEF IInv, TypeOK, tokens, clock, boot
<1>4. StaleMeansAway' /\ RowsHaveEngines'
  BY <1>1, <1>2 DEF IInv, StaleMeansAway, RowsHaveEngines, Away, Terminal, clock
<1>5. LaunchesOwn' /\ RunnersOwn'
  BY <1>1, <1>2 DEF IInv, LaunchesOwn, RunnersOwn, Terminal, tokens
<1>6. OrphansAreLost' /\ AnnouncedOnce'
  BY <1>1, <1>2 DEF IInv, OrphansAreLost, OwnerLost, Away, AnnouncedOnce, Active, Terminal,
                    tokens, clock, boot
<1>7. ActiveRunsCarried'
  BY <1>1, <1>2 DEF IInv, ActiveRunsCarried, Active, clock
<1> QED BY <1>3, <1>4, <1>5, <1>6, <1>7 DEF IInv

(* The pass of a starting engine ends a running run of a lost engine, once *)
(* more with its notification, or leaves the row as it is.                 *)
LEMMA InterruptKeeps ==
    ASSUME IInv, NEW e \in Engines, InterruptOrphan(e)
    PROVE  IInv'
<1>1. /\ UNCHANGED <<runner, tokens, clock, launch, upsets>>
      /\ todo' \in [Engines -> SUBSET Runs] /\ gone' \in [Engines -> SUBSET Engines]
      /\ \A x \in Engines : todo'[x] \subseteq todo[x]
  BY DEF InterruptOrphan, IInv, TypeOK
<1>2. PICK r \in Runs : /\ OwnerLost(r)
                        /\ \/ RowEnds(r, "running", "interrupted", TRUE)
                           \/ UNCHANGED rows
  <2>1. PICK r \in todo[e] : FinishRun(r, "running", "interrupted", TRUE) \/ UNCHANGED rows
    BY DEF InterruptOrphan
  <2>2. r \in Runs /\ OwnerLost(r)
    BY <2>1 DEF IInv, TypeOK, OrphansAreLost
  <2> QED BY <2>1, <2>2 DEF FinishRun, InState, RowEnds, Active, Terminal
<1>3. CASE RowEnds(r, "running", "interrupted", TRUE)
  <2>1. /\ state' = [state EXCEPT ![r] = "interrupted"] /\ notes' \in [Runs -> Nat]
        /\ state' \in [Runs -> {"none", "deleted"} \cup Active \cup Terminal]
        /\ UNCHANGED <<owner, slot, ofJob, creator>>
    BY <1>3, RowEndsKeeps, Zenon
  <2>2. /\ \A x \in Runs : x # r => state'[x] = state[x]
        /\ state'[r] = "interrupted" /\ state[r] = "running"
    BY <1>3, <2>1 DEF IInv, TypeOK, RowEnds
  <2>3. TypeOK'
    BY <1>1, <2>1, <2>2 DEF IInv, TypeOK, tokens, clock
  <2>4. StaleMeansAway' /\ RowsHaveEngines'
    BY <1>1, <2>1, <2>2 DEF IInv, StaleMeansAway, RowsHaveEngines, Away, clock
  <2>5. LaunchesOwn' /\ RunnersOwn'
    BY <1>1, <2>1, <2>2 DEF IInv, LaunchesOwn, RunnersOwn, tokens
  <2>6. OrphansAreLost'
    BY <1>1, <1>2, <2>1, <2>2 DEF IInv, OrphansAreLost, OwnerLost, Away, clock
  <2>7. AnnouncedOnce'
    BY <1>1, <1>3, AnnouncementsKept, Zenon DEF tokens
  <2>8. ActiveRunsCarried'
    BY <1>1, <2>1, <2>2 DEF IInv, ActiveRunsCarried, Active, clock
  <2> QED BY <2>3, <2>4, <2>5, <2>6, <2>7, <2>8 DEF IInv
<1>4. CASE UNCHANGED rows
  <2>1. TypeOK'
    BY <1>1, <1>4 DEF IInv, TypeOK, rows, tokens, clock
  <2>2. StaleMeansAway' /\ RowsHaveEngines' /\ OrphansAreLost' /\ AnnouncedOnce'
    BY <1>1, <1>4 DEF IInv, StaleMeansAway, RowsHaveEngines, OrphansAreLost, OwnerLost,
                      Away, AnnouncedOnce, rows, tokens, clock
  <2>3. LaunchesOwn' /\ RunnersOwn' /\ ActiveRunsCarried'
    BY <1>1, <1>4 DEF IInv, LaunchesOwn, RunnersOwn, ActiveRunsCarried, rows, tokens, clock
  <2> QED BY <2>1, <2>2, <2>3 DEF IInv
<1> QED BY <1>2, <1>3, <1>4

LEMMA StutterKeeps == IInv /\ UNCHANGED vars => IInv'
BY DEF vars, rows, tokens, clock, boot, IInv, TypeOK, StaleMeansAway, RowsHaveEngines,
       LaunchesOwn, RunnersOwn, OrphansAreLost, OwnerLost, Away, AnnouncedOnce,
       ActiveRunsCarried

LEMMA StepKeeps == IInv /\ [Next]_vars => IInv'
<1> SUFFICES ASSUME IInv, Next PROVE IInv'
  BY StutterKeeps
<1>1. CASE \E e \in Engines :
             \/ Start(e) \/ Boots(e) \/ TurnsStale(e) \/ Sleep(e) \/ Crash(e)
             \/ SchedulerTick(e) \/ RunJob(e) \/ StartProcess(e) \/ Launches(e)
  BY <1>1, ClockKeeps, CrashKeeps, CheckPolicyKeeps, CreateKeeps, RegisterKeeps,
     LaunchFailsKeeps, InterruptKeeps DEF Boots, Launches
<1>2. CASE \E r \in Runs :
             Proceeds(r) \/ ProcessEnds(r) \/ Stop(r) \/ StopTurn(r) \/ DeleteTask(r)
  BY <1>2, StopsKeep, ClaimKeeps, FinishKeeps, MarksKeep, DeleteKeeps DEF Proceeds
<1> QED BY <1>1, <1>2 DEF Next

-----------------------------------------------------------------------------
(* The invariant holds in every reachable state. *)
THEOREM Invariance == Spec => []IInv
BY InitEstablishes, StepKeeps, PTL DEF Spec

(* Queued runs have no owner and running ones have: claim and the ends of  *)
(* a run keep the rows well formed.                                        *)
THEOREM TypeCorrect == Spec => []TypeOK
<1>1. IInv => TypeOK
  BY DEF IInv
<1> QED BY <1>1, Invariance, PTL

(* finish_checked: whoever ends a run, the conversation hears of it once,  *)
(* and not before it ended.                                                *)
THEOREM EndsAreAnnouncedOnce == Spec => []AnnouncedOnce
<1>1. IInv => AnnouncedOnce
  BY DEF IInv
<1> QED BY <1>1, Invariance, PTL

(* interrupt_orphan: only engines that crashed or were suspended lose      *)
(* their runs to a starting engine.                                        *)
THEOREM OnlyLostEnginesLoseRuns == Spec => []TimelyRunsLeftAlone
<1>1. IInv => TimelyRunsLeftAlone
  BY DEF IInv, OrphansAreLost, OwnerLost, Away, TimelyRunsLeftAlone
<1> QED BY <1>1, Invariance, PTL

(* launch and execute_process: a run that is not over is in the hands of   *)
(* the engine that created it, for as long as that engine lives.           *)
THEOREM SomebodyCarriesEveryRun == Spec => []ActiveRunsCarried
<1>1. IInv => ActiveRunsCarried
  BY DEF IInv
<1> QED BY <1>1, Invariance, PTL

=============================================================================

# zlogic: TLA+ models, model checking and proofs

This directory models the concurrent and crash-prone core of zlogic, a coding
agent made of a terminal UI (`src/apps/cli`) and a set of crates
(`src/crates`): an engine that accepts user input and runs turns, a core that
runs one turn against a language model and its tools, and a SQLite store that
several processes may share. Paths below are relative to `src/crates`.

`tlc -config X.cfg M` runs a model, `tlapm MProofs.tla` checks the proofs;
`PROJECT.json` lists the runs, the mutants that show each property can fail,
the source lines behind each definition, the hazards and the disagreements
found between code and documentation.

## 1. Inventory

| Component | State | Operations | Interacts with | What is hard |
|---|---|---|---|---|
| Session lock (`store/src/lock.rs`, `engine/src/lock.rs`) | one row per session: `holder_id`, `heartbeat_at`; a guard and a heartbeat task per turn | acquire, steal, heartbeat, release, drop | dispatcher claims it, lifecycle removes stale rows, other processes share the table | several SQL statements per claim, stale judgement ages, suspended laptops, failed heartbeats |
| Mailbox and dispatcher (`store/src/mailbox.rs`, `engine/src/dispatch.rs`) | mailbox rows, `DeliveredKeys`, registry of live turns | submit, start_if_idle, cancel / retarget a submission, rewind, cancel turn, manual compaction | claims the lock, spawns the turn task, is called again by it | every store call is its own step; lost wake-ups, double delivery, crash between delete and append |
| Steering (`core/src/steer.rs`) | none of its own | drain at checkpoints 1 and 2 | moves mailbox rows into the history | a row cancelled under the drain |
| Start-up (`engine/src/bootstrap.rs`, `lifecycle.rs`) | none of its own | reconcile locks and prompts, recover the mailbox | lock, mailbox, interactions | restart before the dead lock is stale |
| Turn and rounds (`core/src/lib.rs`, `round.rs`) | round counter, retries, batch of tool futures, grants, approval mutex | stream a response, run a batch, gate, ask, persist, retry, stop | store (append), interactions, steering, context | parallel calls, failures of one of several, a stop at any await, time limits that drop futures |
| Context (`core/src/context.rs`) | none: a function of the stored entries | build_context, repair | round | incomplete groups after crashes |
| User interactions (`engine/src/interaction.rs`, `core/src/entry_data.rs`) | map of waiting senders, request/response entries | ask, answer | gate, tools, UI | answer, stop, time limit and crash race |
| Connection pool (`store/src/lib.rs`) | `idle`, `open`, `opening`, a condition variable | acquire, release | every store call | opens happen outside the mutex; wake-ups |
| Event hub (`engine/src/hub.rs`) | per session a window of events with cursors and the start of the running turn; the parents of sub-agents; the process's epoch | emit, cold attach, return with a cursor, signal a gap, drop a session | turns emit, UI and bridges subscribe | replay and live tail without gap or duplicate, trimming under two caps, receivers that lag |
| Background tasks (`engine/src/task.rs`, `task/`) | job and run rows, engine instances with heartbeats, runtime handles | create, launch, claim, finish, stop, delete, orphan pass, schedule | mailbox (notification), spawner | two engines on one database, suspended engines that come back, exactly one notification |
| Sub-agents (`core/src/spawn.rs`, `tools/src/agent/mod.rs`) | mailbox gate: pending, open, closed | activate, send, close | task row, steering drains, dispatcher of the child session | a message sent while the child starts or ends; a child's turn holds no session lock |
| Checkpoints (`checkpoints/`) | bare repository, retention caps | capture, restore, sweep | tools, UI | restore that fails half-way |
| MCP pool (`mcp/src/pool.rs`) | shared connections, tool catalog | connect, reconnect, call | tools | a reconnect racing calls |
| Compaction (`core/src/compact.rs`) | compaction entries: the turn that wrote one and the range of turns it stands for | compact when due, after an overflow, by hand; rewind | rounds build their requests from it | ranges over turn numbers with holes and numbers used again, retries that must shrink the request, a stop or crash during the summary |
| Budget (`core/src/budget.rs`) | spent amounts | charge, ask | round | asks the user in the middle of a turn |
| Retention, gc (`engine/src/retention.rs`, `gc.rs`) | dedupe rows per job | sweep | objects, sessions | a writer racing a sweep |
| Usage cache (`engine/src/usage_cache.rs`) | one cached report | get, refresh | UI | single flight, stale answers |
| Grants and policy (`engine/src/grants.rs`, `policy/`) | grants of the turn and the project | check, add | gate | pure string analysis apart from the order of checks |
| The rest: model clients, tools, objects, credentials, configuration, extensions, hooks, worktrees, session and memory queries, UI | | | | I/O, parsing and rendering |

What makes each of the modelled parts correct:

- *lock*: two turns never write at once unless a process was suspended; nobody
  frees or regains a row that is not theirs; a turn that was taken over stops.
- *mailbox*: a submission is in one place; none is lost without a fault; no row
  is left behind when everything is idle; every row is eventually taken; every
  turn gives the lock back.
- *turn*: whatever was stored, the next request is one a provider accepts; each
  call group is completed, also by a stop; nothing is injected inside a group;
  no prompt is left open; a stop ends the turn.
- *pool*: a connection has one user, the cap is a cap, no wake-up is lost, every
  call is served.
- *hub*: a subscriber sees the events of a session one by one, or is told that it
  missed some, and catches up; a running turn stays replayable from its start;
  what a sub-agent asks reaches all of its ancestors.
- *tasks*: a run is only taken from an engine that crashed or slept; its end is
  announced once; while its engine lives, somebody is going to end it.
- *compaction*: a request shows every turn once and in order, the protected tail
  word for word; a retry after an overflow is smaller than what was refused.
- *sub-agents*: an accepted message is not left behind by an agent that finishes;
  every sender is answered.

## 2. Modules

| Module | Models | Notes |
|---|---|---|
| `SessionLock` | the lock row, `acquire`/`steal` statement by statement, guard, heartbeat task, release; suspended and dying processes | discrete relative time: `age` of the row, `wait` of each claim |
| `Dispatch` | submit, control commands that touch the mailbox or the history, `start_if_idle`, the turn task's drains, manual compaction, crash, boot | one process, one session; the lock is a row with a holder, its timing reduced to "fresh row of a dead holder" and "stale" |
| `Context` | `build_context` as operators over the sequence of stored entries | no variables |
| `Round` | extends `Context`: streams, retries, tool batch, gate, prompts, stop, store errors, crash and reconcile of prompts | |
| `ConnectionPool` | one lane of `SharedStore` | one action per critical section |
| `EventLog` | what the hub promises: a log per session and readers that move along it | abstract |
| `EventHub` | the turn channels of the hub and their subscribers | implements `EventLog` (`INSTANCE ... WITH`, property `SeesTheLog`) |
| `Tasks` | runs of several engine processes on one database, one job with its slots | an engine started again is another engine |
| `Compaction` | the compactions of one session's conversation, and what requests show of it | one turn at a time |
| `AgentMailbox` | one background agent, its gate, the calls of `send_agent_message`, the second turn in its session | |
| `SessionLockProofs`, `DispatchProofs`, `ConnectionPoolProofs`, `TasksProofs`, `AgentMailboxProofs`, `CompactionProofs`, `EventHubProofs`, `RoundProofs` | theorems about the eight | checked by TLAPS |
| `MC...` | what TLC needs beside a specification: symmetry sets | |

Variables carry the names of the fields they stand for where the code has one
(`idle`, `open`, `opening`, `grants`, `waiting`, `delivered`), and `pc`-like
variables say where a task is between two awaits. An action is what the code
does between two points at which another task may run: one store call in
`Dispatch`, one SQL statement in `SessionLock`, one await in `Round`, one
critical section in `ConnectionPool`, `EventHub` and the gate of `AgentMailbox`,
one transaction in `Tasks`. Definitions whose comment starts with
"Mutant" are no part of the specification: each is a plausible bug of the
definition that follows, and the property named with it in `PROJECT.json` must
fail with it.

How the modules relate: `Dispatch` uses the lock through what `SessionLock`
shows of it (exclusive while its holder is alive, removed by its holder, stale
some time after the holder died), `Round` is the inside of a turn of
`Dispatch` (`pc = "round"`, `"steering"`, `"closing"`), and both take for
granted the store calls that `ConnectionPool` serves. The notification that
`Tasks` writes is a row of `Dispatch`'s mailbox with `mailbox_ready` as its call;
`AgentMailbox` has such a row for each process the agent started, and a
dispatcher turn reduced to what it does to the mailbox. `Compaction` is the history
of `Round` seen from further away: a turn is its number, a manual compaction the
lock holder that `Dispatch` has for it.

`EventHub` implements `EventLog` under this mapping: the log of a session is
everything emitted since its channel exists (`log`, a history variable: the
window keeps a suffix), the place of a reader is the cursor the client would come
back with, void when it belongs to an earlier epoch or to a channel that was
dropped, and `shown` is the last event the client handled, from the replay or
from its receiver alike. Attaching maps to `Join`, handling an event to `Read`, a
gap answer to `Skip`, a drop or a restart to `Restart`. Trimming, lag and leaving
are stutters. That a replay is followed by exactly the receiver's first event, and
that each window that has lost the wanted event is recognised as such, is what the
refinement checks.

### Abstractions

- `SessionLock`: a claim and the `HolderId` it draws are one; workspace locks,
  which use the same code, are not separate; the notification of a cancelled
  turn is the `told` state.
- `Dispatch`: a submission has one entry; its model and attachments are left
  out; titles, hooks and routing appear only as outcomes (reject, fail). A member
  of `Turns` is one invocation of `start_if_idle` together with the turn it
  opens. At boot the host has an async runtime (`bootstrap.rs` keeps the rows for
  later when it has none).
- `Round`: one part of text per attempt stands for all of them; a tool call is its
  position in the group and a key for name and arguments; costs, budget
  questions, automatic compaction, produced files and checkpoints are left
  out. The emitter keeps a tool part open until the response ends, which is why
  a call group and the end of the response are one step.
- `Context`: reasoning parts, compaction boundaries and projected files of tool
  results are left out, and so is the order of the results in their message.
- `EventHub`: payloads are four kinds (start, delta, interaction, end) with a size
  in small units; cursors count per channel as in the code; a client processes
  replay before receiver, comes back after Lagged or Closed with the cursor of the
  last event it handled, and reloads after a gap. The lossy `live` channel, the
  gap, notice and init channels, turn-end listeners and task consoles are left out.
- `Tasks`: one job, whose policy may change at any time; a run is a process; an
  engine has at most one launch at work, so two launches race between engines;
  `ended` stands for succeeded and failed; an awake engine beats in time (the
  15 s loop against 60 s). The two cancellation tokens are sets. Every run has a
  conversation to notify.
- `AgentMailbox`: the mailbox is a set, all rows steer; a round is a choice of
  outcome. A child waits for none of its processes at the end of its turn
  (`wait_for_turn_tasks` returns at once below depth 0).
- `Compaction`: a turn of the conversation is its number, whatever it holds; a size
  is a choice (whether a compaction is due, whether a request overflows, whether
  what remains would fit). A turn that a hook refused before its input was stored
  leaves the same trace as a manual compaction that wrote nothing. Skill state,
  which stays in the request whatever is compacted, is left out.
- `ConnectionPool`: the 20 ms pause after a failed open of a lane that has no
  connection is slept with the mutex held, so it is inside `OpenFails` and not a
  step of its own.

## 3. Runs

| Run | Question | Bounds |
|---|---|---|
| `session_lock` | the five lock properties, safety and liveness | three claims, so that a thief can be robbed; half a heartbeat interval per unit, `StaleAfter` three intervals; `AcquireLimit + (MaxMisses + 1) * Period = StaleAfter`, the tightest values the assumption allows, so an off-by-one shows |
| `dispatch_races` | all dispatch safety | two submissions, one unreadable, the other sent up to twice; two invocations; two rounds; any two of a rewind, a compaction, a resubmission, a fault and a crash (`MaxUpsets`) |
| `dispatch_live` | rows are taken, turns end | two submissions, two invocations, one compaction, no faults |
| `round_history` | shape of history and request | up to two calls per group, parallel, one malformed; two turns, two rounds each, of which two requests are answered and a third is built (`MaxRequests`); one retry, fault, crash |
| `round_prompts` | prompts and stop | three calls in a window of two, so that one starts while others wait; one crash |
| `pool` | the pool | four threads, two calls each, two connections, two failing opens |
| `event_hub` | windows, ancestors, the refinement of `EventLog`, catching up | three sessions in a line, one client, four events, windows of two events or three units, two upsets: with a window smaller than the number of events, trimming, lag and old cursors all happen |
| `agent_mailbox` | the gate and its senders | two messages, one background process, three rounds: a message for each of the drains, and a round after the last of them |
| `tasks` | runs of two engines | two engines, of which the second starts at any time, two runs, one slot, two upsets: an engine that sleeps and crashes, a run stopped twice |
| `compaction` | what requests show, retries | the default tail of one turn, six turn numbers, two rounds, two summary calls, two rewinds: three summaries in a row, and numbers used again after a rewind |
| `dispatch_twice`, `agent_two_turns` | see "Disagreements" | as small as shows it |

Why these bounds are enough: the steps of each protocol involve at most two
parties and one row (lock: robber, robbed, and a third that comes later;
mailbox: a turn, a start and a user), and each bound on a fault lets it strike at
every point once. Deadlock is not checked where a system may simply be idle
(dispatcher, rounds, pool, hub, an agent that ended, runs that are over, a session at rest); the lock model, in which time always passes, is
checked for it.

### Fairness

- Lock: timers fire and started statements finish (`WF` on `Tick`, the heartbeat
  and the statements of a claim); a cancelled turn ends. Nothing makes a claim,
  crash, suspension or resumption happen.
- Dispatcher: a tokio task that can run does, and an abandoned row ages. Users,
  faults, crashes and restarts owe nothing.
- Round: the provider answers or fails, tools return, spawned futures are
  polled. Nobody has to answer a prompt or stop a turn. Tools return because
  each has a time limit or a child process that a stop kills.
- Pool: closures are synchronous and short. The mutex and the condition variable
  are not assumed fair, so `EveryCallServed` holds because callers are finitely
  many, as in the code between two quiet moments.
- Hub: a client that is attached keeps reading and comes back when it is told to
  (`WF` on `Follow`). Nobody has to emit. `CatchesUp` holds although a client may
  lag for ever behind a busy turn because events are finitely many in the model,
  as between two quiet moments of a session.
- Agent: a sender goes on, the steps that start and end the agent and the drains
  only call the store (`WF` each). A round may take for ever, so may a process.
- Tasks, compaction: none; their properties are safety.

## 4. Proofs

`SessionLockProofs` proves, for any number of claims and any timing that
satisfies `TimingAssumption`: `TypeCorrect`, `Exclusion`
(`TimelyTurnsExclusive`), `GuardCorrect` (`GuardIsOwn`), `ReleaseCorrect`
(`ReleaseOnlyOwn`: only its owner removes a row) and `LostStaysLost` (`LostForGood`). Exclusion is not
inductive: it needs that a turn that was never suspended owns the row and that
the row is no older than its failed heartbeats allow (`PunctualOwns`), that
whoever was judged stale is over or was suspended (`JudgedLate`), that a claim
that wrote the row still owns it when it reads it back (`FreshOwns`), that one
that has not written it does not (`NotYetOwner`), and some bookkeeping
(`GuardIsOwn`, `SleepersCounted`, `CleanStart`). The assumption used
is the arithmetic one, `AcquireLimit + (MaxMisses + 1) * Period <= StaleAfter`:
this is what "three intervals" is for, and it is what changing one of the
constants must respect.

`ConnectionPoolProofs` proves, for any threads, cap and kind of lane:
`TypeCorrect`, `NeverShared` (`Exclusive`: a connection has one user), `CapHolds` (`CapRespected`) and
`NobodySleepsInVain` (`NoLostWakeup`). The last is not inductive. Its
strengthening `Wakeups` counts: while anybody sleeps, the room in the lane
(idle connections plus slots) is at most the number of threads that are about to
look. A return adds one room and one looker, a taker removes one of each.

`AgentMailboxProofs` proves, for any messages, background processes and round
limit: `TypeCorrect` and `NothingAcceptedIsLeftBehind` (`AcceptedIsDelivered`).
The invariant (`Invariance`) follows an accepted message: it is in the mailbox,
in the history or in the other turn's memory, and while the final drain holds the
gate every row of the mailbox that came from a sender is one the drain has read.
The proof has a lemma for each part of the next-state relation and one for the
notifications, which change where a sender is but never that it was answered.

`TasksProofs` proves, for any engines, runs and slots: `TypeCorrect`,
`EndsAreAnnouncedOnce` (`AnnouncedOnce`), `OnlyLostEnginesLoseRuns`
(`TimelyRunsLeftAlone`) and `SomebodyCarriesEveryRun` (`ActiveRunsCarried`). The
invariant adds to them that an engine launches, and has runtimes for, only runs it
created (so that an end by one engine leaves the others' bookkeeping true), and
that whoever has been judged an orphan by a starting engine belongs to an engine
that is gone or slept (`OrphansAreLost`): the pass reads the instances once and
interrupts run by run, and this is what stays true in between.

`DispatchProofs` proves every safety property of `Dispatch`, for any submissions,
invocations and bounds: `TypeCorrect`, `TurnsExclude` (`OneLiveTurn`),
`RowsAreInOnePlace` (`OnePlace`), `AcceptedIsAccountedFor`
(`NothingLostWithoutFaults`), `NobodyForgetsMail` (`NoStrandedMail`),
`LocksAreReturned` (`NoOrphanLock`) and the action property `RowsGoSomewhere`
(`RowsLeaveForAPlace`). Its invariant has two halves. About control: a turn is
live exactly while the row is its own (`LockFollowsTurns`), and while a row is
pending a call is due or an invocation is not over, faults apart
(`SomebodyLooks`). About rows: one pending row per request (`OneRowEach`), no row
that was read is younger than the pending row of its request (`BatchIsOld`, so
taking a row read long ago cannot remove a first copy that has not been
delivered), and a request that was never stored is nowhere (`FreshNowhere`). One
lemma per action, or per group of actions that do the same to the rows, shows that
a step keeps the invariant and that what leaves the mailbox is accounted for. That
ids and turn numbers have a greatest one, which `NextId` and `LastTurn` choose, is
derived from the well-foundedness of `<` on the naturals (`GreatestExists`).

`CompactionProofs` proves, for any tail and limits: `TypeCorrect`, `SummariesChain`
(no turn is in two summaries) and `TailIsProtected` (a summary ends `tail_turns`
numbers short of a turn that is still there). The invariant follows a planned range
to the row it becomes: it begins after every summary and ends short of a turn not
after the running one (`WindowPlanned`), and whatever a rewind cuts, a summary and
the turn that bounds it are cut together (`TailRespected`, which names the turn that
wrote the summary).

For the default tail of one turn it proves what requests show: `EveryTurnIsShownOnce`
(`ShownOnce`), `NewestTurnIsKept` (`TailKept`) and `RetriesShrink` (`RetryIsSmaller`).
`TailTurns = 1` is an assumption of these three theorems because they are false
without it (section 5). Half of the argument is about the operators, for any chain of
summaries: sorting returns them in order (`Sorted`), every turn of the prefix that is
not read is in a summary (`PrefixIsCovered`), and what stands for two turns stands in
the order of the turns (`PlacesInOrder`, `InPlaceIs`). The other half is an invariant:
a summary, or the range one is being written for, begins with a turn of the
conversation and is followed by one (`Anchored`), which is why a summary that is shown
nowhere else belongs in front of everything that is listed; and after an overflow
`refused` is what no summary covers, until a summary takes its first turn from it
(`Retrying`).

`EventHubProofs` proves, for any forest of sessions, any clients and any caps:
`TypeCorrect`, `ImplementsTheLog` (`SeesTheLog`, the refinement), `AncestorsAreAsked`
(`InteractionsReachAncestors`) and `RunningTurnReplayable`
(`WindowKeepsActiveTurn`). The invariant of the refinement says where things are in
the log: a window is the end of its log, numbered without a hole (`Windows`), and a
client's replay followed by its receiver is the stretch of the log from its cursor to
the end, unless the receiver overflowed, and then the client has been told
(`ClientsFollow`). Each action then is one step of `EventLog` or a stutter. The other
two need more: that every ancestor of an agent that ever emitted is known to the hub
(`ParentsKnown`), and that `active` is where the running turn starts, with everything
from there still in the window while it fits (`TurnsKept`).

`RoundProofs` proves, for any calls, keys and limits: `TypeCorrect`,
`CallsAreCompleted` (`GroupsComplete`), `ResultsFollowCalls` (`NothingBetween`),
`PromptsAreClosed`, and `EveryPromptAnswered` (`PromptsAnswered`) for
configurations without a tool time limit. The invariant says where the task is and that the
futures of a batch are started in the order of the group (`Phased`, `Prefixed`); that
the calls without a stored result are exactly those that are not done, which is what
a stop in the middle of a batch must not disturb (`Grouped`); that while a call is
open no message has been stored since its group (`ClearNow`); and that every open
prompt has an asker that still waits for it, or one of the exceptions the code allows
(`Prompted`, `OpenAwaited`). The time limit is such an exception: it drops a tool
that waits for the user and leaves its prompt open. `PromptsAreClosed`
(`OnlyTimeoutsLeaveOpen`) says that nothing else does, and `round_prompts` runs
without the limit. What is read off the history (results of a round, groups, open prompts)
is an operator on any sequence of entries with one lemma on what an `Append` does to
it, so that an action has to be opened only once, to see what it appends.

`RequestsAreReplayable` (`ContextReplayable`) is about the request built from all
that is stored, whenever that happens. It has two parts. Whatever a list of groups
is, as long as each has at most one result per call and none for anything else, the
messages assembled from it are what a provider accepts (`AssembledReplayable`, with
repair and filter of malformed calls). And the groups made of the history are always
like that (`GroupsInvariant`): one more entry is one more iteration of the loop
(`GroupingAppended`), and the group of the running round has no calls until the
response ended, then exactly those of the response, and results only of calls that
are done (`GroupsNow`). Without repair the property fails in TLC (mutant
`Unrepaired`): a group may be incomplete whenever a request is built after a crash.

The models use recursive functions (`Select`, `Total`, the loops of `Context` and
`Compaction`) where the code filters and
adds up, and least closed sets where it walks from parent to parent, because the
provers can open these. Induction over them is done with sets: a set that holds 0
and the successor of each of its members holds a whole range (`UpTo`, from the
well-foundedness of `<`), so each statement is about the set of positions at which
it is true.

Model-checked only: all liveness (fairness and `ENABLED` are out of the
prover's reach). Every invariant and every action property of the passing runs is
proved, three of them under `TailTurns = 1` and one without a tool time limit.

## 5. Disagreements between code and documentation

With a run each (`PROJECT.json` quotes the lines):

1. `dispatch_twice`: a row read before the claim and drained meanwhile is
   delivered again; `start_if_idle` ignores whether its DELETE found the row.
2. `agent_two_turns`: a background agent's turn holds no session lock, so the end
   of a process it started opens a second turn in its session.

Without one:

- `start_if_idle` deletes the rows and the turn it spawns writes the entries later,
  in other transactions: a crash in between loses the submission, although
  `store/src/mailbox.rs:6` calls the lost message unrepresentable.
  (`NothingLostWithoutFaults` is the statement that holds.)
- "The most recent `tail_turns` are never covered" (`compact.rs:16`): `plan_range`
  does not count compaction rows as turns, but the tail is a distance of turn
  numbers, and a manual compaction (or a turn a hook refused) takes a number even
  when it writes nothing. With `TailTurns = 2` in `MCCompaction.cfg`, TLC finds
  `TailKept` violated: turn 1, a manual compaction with nothing to do as turn 2, and
  turn 3 summarises turn 1. With the default tail of one turn it holds.
- `round.rs:390` gives up when nothing was summarised, because "retrying would send
  the same thing again". With a tail of two the range may hold no turn but the row
  of an earlier manual compaction; that summary is then summarised into one more,
  and the request grows. `RetryIsSmaller` with `TailTurns = 2` shows it.
- "Any summary not emitted above therefore belongs at the front" (`context.rs:713`):
  so it does when the turns it covers were not read. With a tail of two, a range may
  hold no turn but the row of a manual compaction, as above, and when the first turn
  number went to something else than a turn of the conversation no prefix is left
  out; the summary of that range is then shown before older ones. `ShownOnce` with
  `TailTurns = 2` and `MaxTurns = 7` shows it.
- `steal` compares the holder but not the heartbeat, so a holder that revives
  between judgement and UPDATE loses a fresh row.
- A rewind checks for a live turn without holding the lock.
- The grants are read before the approval mutex, so two equal calls may both prompt.
- An accepted cancellation does not reach a start that already read the row.
- Only `start_if_idle` records a request in `DeliveredKeys`: a steered one that is
  submitted again is queued again (`dispatch.rs:982`; the test
  `resubmitting_the_same_request_id_is_idempotent` covers the other path).
- A restart within `STALE_AFTER` finds the dead turn's lock fresh, gives up, and
  nothing looks at the mailbox again until the next submission
  (`bootstrap.rs:528`: "The row is the recovery point").
- The tool time limit drops a tool that waits for the user, and its request never
  gets a response (`entry_data.rs:378`: "Always written, including on
  cancellation").
- `tools/src/agent/mod.rs` and `core/src/steer.rs:140` say a sender either lands
  before the last drain or gets an error. When the child ends by an error, a stop
  or the round limit there is no last drain, and the gate stays open until the
  spawner closes it: a message accepted meanwhile stays in the mailbox.
  `AcceptedIsDelivered` therefore speaks of agents that finish.
- `task/src/store.rs:449` leaves queued runs alone because "one live scheduler is
  enough to pick it up"; no scheduler picks up a queued row, so a run whose engine
  died before the claim stays queued and blocks a job with the Forbid policy.
  `ActiveRunsCarried` excepts dead engines.
- `engine/src/task.rs:645` says the heartbeat cannot be starved by the work it
  shares its loop with; `launch_job`, which the loop awaits, has no time limit.
- `task/src/instance.rs` calls 60 s three intervals of 15 s.
- `drop_session` does not change the epoch: a cursor of the deleted channel that
  is not ahead of the new one is accepted by it.
- `signal_turn_gap` forgets the running turn's start, so a client that attaches
  later in that turn gets neither a replay nor a gap.
- `apps/cli/src/session/engine.rs:629` goes on after Lagged without coming back,
  unlike the client that `EventHub` assumes.

## 6. Plan

Done: lock, dispatcher, context and round, pool, event hub with its abstract log,
tasks, agent mailbox, compaction; proofs about all of them.

Next, in this order:

1. An abstract lock (an owner, or nobody) that `SessionLock` implements while
   nobody is suspended, and an abstract mailbox (a submission's place) that
   `Dispatch` implements without crashes.
2. Budget inside `Round`, checkpoints' restore, the MCP pool, the
   race of sweep and writer in retention.

Not modelled, and why: parsers, codecs, rendering, cryptography and the contents
of tools are functions of data or effects outside the program, without protocol
state of their own; they are most of the code by size. The components listed as
not modelled in `PROJECT.json` each name their reason.

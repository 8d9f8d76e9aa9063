------------------------------- MODULE Round -------------------------------
(***************************************************************************)
(* One turn after another of one session, from the inside: a round's       *)
(* stream with its mid-stream retries, the tool batch that follows it, the *)
(* permission gate, the questions put to the user, and what a stop, a      *)
(* failing store or a crash leaves in the history.                         *)
(*                                                                         *)
(* The history is the sequence of stored entries.  A tool call is named by *)
(* its round and its position in the group; its key stands for the tool    *)
(* name and the exact arguments.                                           *)
(***************************************************************************)
EXTENDS Context

CONSTANTS
    Sensitive,    \* keys the policy may answer with Ask
    Curious,      \* keys of tools that ask the user something themselves
    MaxTurns,     \* bound: turns of the session
    MaxRounds,    \* limits.max_rounds
    MaxCalls,     \* bound: calls in one group
    MaxParallel,  \* limits.max_parallel_tools
    MaxRetries,   \* MAX_MIDSTREAM_RETRIES
    MaxRequests,  \* bound: requests that are answered; later handshakes fail
    ToolTimeout,  \* limits.tool_timeout_secs > 0
    MaxCrashes,   \* bound: process crashes
    MaxFaults     \* bound: failing appends

ASSUME RoundAssumption ==
    /\ Sensitive \cup Curious \subseteq Keys \ Malformed
    /\ MaxTurns \in Nat \ {0} /\ MaxRounds \in Nat \ {0}
    /\ MaxCalls \in Nat \ {0} /\ MaxParallel \in Nat \ {0}
    /\ MaxRetries \in Nat /\ MaxRequests \in Nat /\ MaxCrashes \in Nat /\ MaxFaults \in Nat
    /\ ToolTimeout \in BOOLEAN

VARIABLES
    hist,      \* session_entry
    phase,     \* where the turn task is
    turn,      \* turns begun
    rounds,    \* round_seq
    rid,       \* response_round_id, drawn from a counter
    retries,   \* midstream_retries
    open,      \* a part has streamed in without its PartEnd
    calls,     \* the calls of the response
    stage,     \* where the future of each call is
    approval,  \* the call that holds the approval mutex, or 0
    waiting,   \* EngineInteractions.waiting
    answers,   \* answers sent to a waiter that has not woken yet
    grants,    \* GrantSet
    cancelled, \* the turn's CancellationToken
    failed,    \* first_err of the batch
    up,        \* the process runs
    skipped,   \* reconcile found the dead turn's lock still fresh
    crashes,
    faults

respVars == <<rid, retries, open, calls>>
toolVars == <<stage, approval, failed>>
askVars  == <<waiting, answers, grants>>
envVars  == <<up, skipped, crashes, faults>>
vars == <<hist, phase, turn, rounds, rid, retries, open, calls, stage, approval,
          waiting, answers, grants, cancelled, failed, up, skipped, crashes, faults>>

Slots == 1..MaxCalls
Phases == {"idle", "ready", "connecting", "streaming", "ended", "batch", "resting",
           "steering", "closing", "booting"}
Stages == {"unstarted", "gating", "ungranted", "queued", "asking", "running",
           "toolasking", "settled", "done"}
Prompt == [round : Nat, call : Slots, by : {"gate", "tool"}]
Decisions == {"once", "session", "deny"}

TypeOK ==
    /\ \A n \in DOMAIN hist : hist[n].kind \in Kinds /\ hist[n].round \in 0..rid
    /\ phase \in Phases
    /\ turn \in 0..MaxTurns
    /\ rounds \in 0..MaxRounds
    /\ rid \in Nat
    /\ retries \in 0..MaxRetries
    /\ open \in BOOLEAN
    /\ Len(calls) <= MaxCalls
    /\ stage \in [Slots -> Stages]
    /\ approval \in {0} \cup Slots
    /\ waiting \subseteq Prompt
    /\ answers \subseteq Prompt \X Decisions
    /\ grants \subseteq Keys
    /\ cancelled \in BOOLEAN /\ failed \in BOOLEAN
    /\ up \in BOOLEAN /\ skipped \in BOOLEAN
    /\ crashes \in 0..MaxCrashes
    /\ faults \in 0..MaxFaults

Init ==
    /\ hist = <<>>
    /\ phase = "idle"
    /\ turn = 0
    /\ rounds = 0
    /\ rid = 0
    /\ retries = 0
    /\ open = FALSE
    /\ calls = <<>>
    /\ stage = [i \in Slots |-> "unstarted"]
    /\ approval = 0
    /\ waiting = {}
    /\ answers = {}
    /\ grants = {}
    /\ cancelled = FALSE
    /\ failed = FALSE
    /\ up = TRUE
    /\ skipped = FALSE
    /\ crashes = 0
    /\ faults = 0

(* Calls whose future was pushed, a prefix of the group, and those of them *)
(* that have not returned.                                                 *)
Started == {i \in DOMAIN calls : stage[i] # "unstarted"}
InFlight == {i \in Started : stage[i] # "done"}
IsNext(i) == i \in DOMAIN calls /\ i = Cardinality(Started) + 1

Move(i, s) == stage' = [stage EXCEPT ![i] = s]

(* The turn task is over: run_with_input returned. *)
EndTurn ==
    /\ phase' = "idle"
    /\ rounds' = 0
    /\ retries' = 0
    /\ open' = FALSE
    /\ calls' = <<>>
    /\ stage' = [i \in Slots |-> "unstarted"]
    /\ approval' = 0
    /\ answers' = {}
    /\ grants' = {}
    /\ cancelled' = FALSE
    /\ failed' = FALSE
    /\ UNCHANGED <<turn, rid>>

ItemsOf(kind) == {hist[n].item : n \in {m \in DOMAIN hist : hist[m].kind = kind}}

(* A store error: one of the bounded number of them. *)
StoreError == faults < MaxFaults /\ faults' = faults + 1

-----------------------------------------------------------------------------
(* The turn and the stream of a round                                      *)

(* run_with_input: the user's message is stored before the first request. *)
StartTurn ==
    /\ up
    /\ phase = "idle"
    /\ turn < MaxTurns
    /\ turn' = turn + 1
    /\ phase' = "ready"
    /\ hist' = Append(hist, Entry("user", 0, 0))
    /\ UNCHANGED <<rounds, respVars, toolVars, askVars, cancelled, envVars>>

(* CancelTurn. *)
CancelTurn ==
    /\ phase \notin {"idle", "booting"}
    /\ ~cancelled
    /\ cancelled' = TRUE
    /\ UNCHANGED <<hist, phase, turn, rounds, respVars, toolVars, askVars, envVars>>

(* A round that is already cancelled leaves no trace. *)
BeginRound ==
    /\ phase = "ready"
    /\ IF cancelled
       THEN EndTurn
       ELSE /\ phase' = "connecting"
            /\ rounds' = rounds + 1
            /\ rid' = rid + 1
            /\ retries' = 0
            /\ calls' = <<>>
            /\ stage' = [i \in Slots |-> "unstarted"]
            /\ UNCHANGED <<turn, open, approval, answers, grants, cancelled, failed>>
    /\ UNCHANGED <<hist, waiting, envVars>>

(* The handshake; if it fails, or a stop comes first, the turn ends. *)
Connect ==
    /\ phase = "connecting"
    /\ \/ /\ rid <= MaxRequests
          /\ phase' = "streaming"
          /\ UNCHANGED <<turn, rounds, respVars, toolVars, answers, grants, cancelled>>
       \/ EndTurn
    /\ UNCHANGED <<hist, waiting, envVars>>

(* A part begins to stream in; one part of text per attempt stands for all *)
(* of them.                                                                *)
PartStart ==
    /\ phase = "streaming"
    /\ ~open
    /\ \A n \in DOMAIN hist : ~(hist[n].kind = "text" /\ hist[n].round = rid)
    /\ open' = TRUE
    /\ UNCHANGED <<hist, phase, turn, rounds, rid, retries, calls, toolVars, askVars,
                   cancelled, envVars>>

PartEnd ==
    /\ phase = "streaming"
    /\ open
    /\ open' = FALSE
    /\ hist' = Append(hist, Entry("text", rid, 0))
    /\ UNCHANGED <<phase, turn, rounds, rid, retries, calls, toolVars, askVars,
                   cancelled, envVars>>

(* The call group is stored when the model asks; its PartEnd and the end   *)
(* of the response arrive together.                                        *)
ToolCalls(group) ==
    /\ phase = "streaming"
    /\ ~open
    /\ phase' = "ended"
    /\ calls' = group
    /\ hist' = Append(hist, Entry("calls", rid, group))
    /\ UNCHANGED <<turn, rounds, rid, retries, open, toolVars, askVars, cancelled, envVars>>

(* A response without calls ends, complete or truncated. *)
ResponseEnd ==
    /\ phase = "streaming"
    /\ ~open
    /\ \/ /\ phase' = "ended"
          /\ UNCHANGED <<turn, rounds, respVars, toolVars, answers, grants, cancelled>>
       \/ EndTurn
    /\ UNCHANGED <<hist, waiting, envVars>>

(* flush_interrupted_parts. *)
Flush == hist' = IF open THEN Append(hist, Entry("text", rid, 0)) ELSE hist

(* Mutant: one retry too many. *)
InterruptedPastLimit ==
    /\ phase = "streaming"
    /\ Flush
    /\ IF retries > MaxRetries \/ cancelled
       THEN EndTurn
       ELSE /\ retries' = retries + 1
            /\ rid' = rid + 1
            /\ open' = FALSE
            /\ phase' = "connecting"
            /\ UNCHANGED <<turn, rounds, calls, toolVars, answers, grants, cancelled>>
    /\ UNCHANGED <<waiting, envVars>>

(* The stream dies: what streamed in is kept and the request is sent again *)
(* under a fresh round id, at most MaxRetries times and not after a stop.  *)
Interrupted ==
    /\ phase = "streaming"
    /\ Flush
    /\ IF retries = MaxRetries \/ cancelled
       THEN EndTurn
       ELSE /\ retries' = retries + 1
            /\ rid' = rid + 1
            /\ open' = FALSE
            /\ phase' = "connecting"
            /\ UNCHANGED <<turn, rounds, calls, toolVars, answers, grants, cancelled>>
    /\ UNCHANGED <<waiting, envVars>>

(* The stop reaches a stream that has nothing ready. *)
StopStream ==
    /\ phase = "streaming"
    /\ cancelled
    /\ Flush
    /\ EndTurn
    /\ UNCHANGED <<waiting, envVars>>

(* Mutant: a stopped round leaves its calls as they are. *)
AfterResponseLeavingCalls ==
    /\ phase = "ended"
    /\ \/ /\ cancelled
          /\ EndTurn
       \/ /\ ~cancelled
          /\ phase' = IF calls # <<>> THEN "batch" ELSE "closing"
          /\ UNCHANGED <<turn, rounds, respVars, toolVars, answers, grants, cancelled>>
    /\ UNCHANGED <<hist, waiting, envVars>>

(* After the response: a stop completes the calls without running them,    *)
(* otherwise the batch runs or checkpoint 2 is reached.                    *)
AfterResponse ==
    /\ phase = "ended"
    /\ phase' = IF cancelled THEN "resting" ELSE IF calls # <<>> THEN "batch" ELSE "closing"
    /\ UNCHANGED <<hist, turn, rounds, respVars, toolVars, askVars, cancelled, envVars>>

-----------------------------------------------------------------------------
(* run_batch, and run_one for each call                                    *)

StartCall(i) ==
    /\ phase = "batch"
    /\ IsNext(i)
    /\ Cardinality(InFlight) < MaxParallel
    /\ ~failed
    /\ ~cancelled
    /\ Move(i, "gating")
    /\ UNCHANGED <<hist, phase, turn, rounds, respVars, approval, failed, askVars,
                   cancelled, envVars>>

(* Hooks, the schema check and the policy.  Malformed arguments never pass *)
(* the check; the policy may allow, refuse, or leave it to the grants and  *)
(* then to the user; a stop may win against the policy.                    *)
Gate(i) ==
    /\ stage[i] = "gating"
    /\ \/ Move(i, "settled")
       \/ calls[i] \notin Malformed /\ Move(i, "running")
       \/ calls[i] \in Sensitive \ grants /\ Move(i, "ungranted")
    /\ UNCHANGED <<hist, phase, turn, rounds, respVars, approval, failed, askVars,
                   cancelled, envVars>>

(* The PermissionRequested hook decides, or the user has to. *)
PermissionHook(i) ==
    /\ stage[i] = "ungranted"
    /\ \E next \in {"settled", "running", "queued"} : Move(i, next)
    /\ UNCHANGED <<hist, phase, turn, rounds, respVars, approval, failed, askVars,
                   cancelled, envVars>>

GatePrompt(i) == [round |-> rid, call |-> i, by |-> "gate"]
ToolPrompt(i) == [round |-> rid, call |-> i, by |-> "tool"]

(* RoundInteractions::ask up to its select: the request is stored, then    *)
(* handed to the engine unless the turn is already stopped, in which case  *)
(* it is closed at once.  A request that cannot be stored is not asked.    *)
Ask(p, i, asking, unasked) ==
    \/ /\ ~cancelled
       /\ hist' = Append(hist, Entry("request", 0, p))
       /\ Move(i, asking)
       /\ waiting' = waiting \cup {p}
       /\ UNCHANGED faults
    \/ /\ cancelled
       /\ hist' = hist \o <<Entry("request", 0, p), Entry("response", 0, p)>>
       /\ Move(i, unasked)
       /\ UNCHANGED <<waiting, faults>>
    \/ /\ StoreError
       /\ hist' \in {hist} \cup (IF cancelled THEN {Append(hist, Entry("request", 0, p))} ELSE {})
       /\ Move(i, unasked)
       /\ UNCHANGED waiting

(* The call has the approval mutex and asks. *)
AskApproval(i) ==
    /\ stage[i] = "queued"
    /\ approval = 0
    /\ Ask(GatePrompt(i), i, "asking", "settled")
    /\ approval' = IF stage'[i] = "asking" THEN i ELSE 0
    /\ UNCHANGED <<phase, turn, rounds, respVars, failed, answers, grants, cancelled,
                   up, skipped, crashes>>

(* A running tool asks the user something itself. *)
ToolAsk(i) ==
    /\ stage[i] = "running"
    /\ calls[i] \in Curious
    /\ ToolPrompt(i) \notin ItemsOf("request")
    /\ Ask(ToolPrompt(i), i, "toolasking", "running")
    /\ UNCHANGED <<phase, turn, rounds, respVars, approval, failed, answers, grants,
                   cancelled, up, skipped, crashes>>

(* Whoever asked p still waits for it. *)
Awaited(p) ==
    /\ p.round = rid
    /\ stage[p.call] = IF p.by = "gate" THEN "asking" ELSE "toolasking"

(* AnswerInteraction: the entry leaves waiting; the answer reaches the     *)
(* asker if there still is one, otherwise the user gets an error.          *)
AnswerInteraction(p, d) ==
    /\ up
    /\ p \in waiting
    /\ waiting' = waiting \ {p}
    /\ answers' = IF Awaited(p) THEN answers \cup {<<p, d>>} ELSE answers
    /\ UNCHANGED <<hist, phase, turn, rounds, respVars, toolVars, grants, cancelled, envVars>>

(* Mutant: the asker does not notice a stop. *)
OutcomesDeaf(p) == {d \in Decisions : <<p, d>> \in answers}

(* What the asker of p wakes up with; the stop is looked at first. *)
Outcomes(p) == IF cancelled THEN {"cancelled"} ELSE {d \in Decisions : <<p, d>> \in answers}

(* Mutant: only the screen learns that the prompt is closed. *)
CloseUnstored(p) == UNCHANGED <<hist, faults>>

(* close: the response is stored; if that fails there is only a warning. *)
Close(p) ==
    \/ hist' = Append(hist, Entry("response", 0, p)) /\ UNCHANGED faults
    \/ StoreError /\ UNCHANGED hist

(* The answer to a permission prompt; the mutex is free again. *)
GateWakes(i) ==
    /\ stage[i] = "asking"
    /\ \E d \in Outcomes(GatePrompt(i)) :
          /\ Move(i, IF d \in {"once", "session"} THEN "running" ELSE "settled")
          /\ grants' = IF d = "session" THEN grants \cup {calls[i]} ELSE grants
    /\ Close(GatePrompt(i))
    /\ answers' = {a \in answers : a[1] # GatePrompt(i)}
    /\ approval' = 0
    /\ UNCHANGED <<phase, turn, rounds, respVars, failed, waiting, cancelled, up, skipped,
                   crashes>>

(* The answer to a tool's own prompt. *)
ToolWakes(i) ==
    /\ stage[i] = "toolasking"
    /\ Outcomes(ToolPrompt(i)) # {}
    /\ Move(i, "running")
    /\ Close(ToolPrompt(i))
    /\ answers' = {a \in answers : a[1] # ToolPrompt(i)}
    /\ UNCHANGED <<phase, turn, rounds, respVars, approval, failed, waiting, grants,
                   cancelled, up, skipped, crashes>>

(* The tool returns, fails or panics: either way there is a result. *)
Finish(i) ==
    /\ stage[i] = "running"
    /\ Move(i, "settled")
    /\ UNCHANGED <<hist, phase, turn, rounds, respVars, approval, failed, askVars,
                   cancelled, envVars>>

(* The time limit drops the tool's future, whatever it is waiting for. *)
Timeout(i) ==
    /\ ToolTimeout
    /\ stage[i] \in {"running", "toolasking"}
    /\ Move(i, "settled")
    /\ answers' = {a \in answers : a[1] # ToolPrompt(i)}
    /\ UNCHANGED <<hist, phase, turn, rounds, respVars, approval, failed, waiting, grants,
                   cancelled, envVars>>

(* persist_result of a call that ran; an error may hit the result itself or *)
(* what is stored after it.                                                 *)
PersistResult(i) ==
    /\ stage[i] = "settled"
    /\ Move(i, "done")
    /\ \/ /\ hist' = Append(hist, Entry("result", rid, i))
          /\ UNCHANGED <<failed, faults>>
       \/ /\ StoreError
          /\ failed' = TRUE
          /\ hist' \in {hist, Append(hist, Entry("result", rid, i))}
    /\ UNCHANGED <<phase, turn, rounds, respVars, approval, askVars, cancelled, up, skipped,
                   crashes>>

(* Mutant: does not wait for the calls in flight. *)
BatchDrainedEarly ==
    /\ phase = "batch"
    /\ Started = DOMAIN calls \/ failed \/ cancelled
    /\ phase' = "resting"
    /\ UNCHANGED <<hist, turn, rounds, respVars, toolVars, askVars, cancelled, envVars>>

(* Nothing is in flight and nothing more will be started. *)
BatchDrained ==
    /\ phase = "batch"
    /\ InFlight = {}
    /\ Started = DOMAIN calls \/ failed \/ cancelled
    /\ phase' = "resting"
    /\ UNCHANGED <<hist, turn, rounds, respVars, toolVars, askVars, cancelled, envVars>>

(* cancel_pending: a call that will not run gets its result too. *)
CancelPending(i) ==
    /\ phase = "resting"
    /\ IsNext(i)
    /\ Move(i, "done")
    /\ hist' = Append(hist, Entry("result", rid, i))
    /\ UNCHANGED <<phase, turn, rounds, respVars, approval, failed, askVars, cancelled, envVars>>

(* Every call has its result: an error or a stop ends the turn, otherwise  *)
(* checkpoint 1 is reached.                                                *)
BatchDone ==
    /\ phase = "resting"
    /\ Started = DOMAIN calls
    /\ IF failed \/ cancelled
       THEN EndTurn
       ELSE /\ phase' = "steering"
            /\ UNCHANGED <<turn, rounds, respVars, toolVars, answers, grants, cancelled>>
    /\ UNCHANGED <<hist, waiting, envVars>>

(* A checkpoint drains the mailbox, or a finish hook gives feedback.       *)
(* Results or a message mean another round, up to the limit; the precheck  *)
(* limit or the budget may end the turn all the same.                      *)
Checkpoint ==
    /\ phase \in {"steering", "closing"}
    /\ \E injected \in BOOLEAN :
          /\ hist' = IF injected THEN Append(hist, Entry("steering", 0, 0)) ELSE hist
          /\ \/ EndTurn
             \/ /\ injected \/ phase = "steering"
                /\ rounds < MaxRounds
                /\ ~cancelled
                /\ phase' = "ready"
                /\ UNCHANGED <<turn, rounds, respVars, toolVars, answers, grants, cancelled>>
    /\ UNCHANGED <<waiting, envVars>>

-----------------------------------------------------------------------------
(* Faults and crashes                                                      *)

(* An append fails outside the batch: the turn ends with what is stored. *)
TurnFails ==
    /\ phase \in {"streaming", "ended", "resting", "steering", "closing"}
    /\ StoreError
    /\ EndTurn
    /\ UNCHANGED <<hist, waiting, up, skipped, crashes>>

Crash ==
    /\ up
    /\ crashes < MaxCrashes
    /\ crashes' = crashes + 1
    /\ up' = FALSE
    /\ EndTurn
    /\ waiting' = {}
    /\ UNCHANGED <<hist, skipped, faults>>

(* The prompts unanswered_interactions reports. *)
Unanswered == ItemsOf("request") \ ItemsOf("response")

(* Lifecycle::reconcile at the next start skips the prompts of a session   *)
(* whose lock is still fresh.                                              *)
Boot ==
    /\ ~up
    /\ up' = TRUE
    /\ skipped' \in BOOLEAN
    /\ phase' = IF skipped' THEN "idle" ELSE "booting"
    /\ UNCHANGED <<hist, turn, rounds, respVars, toolVars, askVars, cancelled, crashes, faults>>

CloseOrphan(p) ==
    /\ phase = "booting"
    /\ p \in Unanswered
    /\ hist' = Append(hist, Entry("response", 0, p))
    /\ UNCHANGED <<phase, turn, rounds, respVars, toolVars, askVars, cancelled, envVars>>

Booted ==
    /\ phase = "booting"
    /\ Unanswered = {}
    /\ phase' = "idle"
    /\ UNCHANGED <<hist, turn, rounds, respVars, toolVars, askVars, cancelled, envVars>>

-----------------------------------------------------------------------------
Groups == UNION {[1..n -> Keys] : n \in Slots}

Stream ==
    \/ BeginRound \/ Connect \/ PartStart \/ PartEnd \/ ResponseEnd
    \/ \E group \in Groups : ToolCalls(group)
    \/ Interrupted \/ StopStream \/ AfterResponse \/ BatchDrained \/ BatchDone \/ Checkpoint

Tool(i) ==
    \/ StartCall(i) \/ Gate(i) \/ PermissionHook(i) \/ AskApproval(i) \/ GateWakes(i)
    \/ ToolWakes(i) \/ Finish(i) \/ PersistResult(i) \/ CancelPending(i)

User ==
    \/ StartTurn \/ CancelTurn
    \/ \E p \in waiting, d \in Decisions : AnswerInteraction(p, d)

Next ==
    \/ User \/ Stream \/ TurnFails \/ Crash \/ Boot \/ Booted
    \/ \E i \in Slots : Tool(i) \/ ToolAsk(i) \/ Timeout(i)
    \/ \E p \in Unanswered : CloseOrphan(p)

Spec == Init /\ [][Next]_vars

(* The task runs, the provider answers or fails, tools return: nobody has  *)
(* to answer a prompt, and nobody has to stop a turn.                      *)
FairSpec == Spec /\ WF_vars(Stream) /\ \A i \in Slots : WF_vars(Tool(i))

-----------------------------------------------------------------------------
(* Whatever was stored when a request is built, and whatever the next      *)
(* process finds after a crash: every call is paired with exactly one      *)
(* result.                                                                 *)
ContextReplayable == phase = "connecting" \/ ~up => Replayable(BuildContext(hist))

(* The calls of a stored group that have no stored result. *)
Open(n) ==
    DOMAIN hist[n].item \
        {hist[m].item : m \in {m \in DOMAIN hist : hist[m].kind = "result"
                                                 /\ hist[m].round = hist[n].round}}

(* Without crashes and store errors no request ever needs a synthetic      *)
(* result: when a round begins or the turn is over, however it was         *)
(* stopped, every group is complete.                                       *)
GroupsComplete ==
    phase \in {"idle", "ready", "connecting"} /\ crashes = 0 /\ faults = 0 =>
        \A n \in DOMAIN hist : hist[n].kind = "calls" => Open(n) = {}

(* Checkpoint 1: a message is never injected between the calls of a round  *)
(* and their results.                                                      *)
NothingBetween ==
    \A k, n \in DOMAIN hist :
        /\ hist[k].kind = "calls"
        /\ hist[n].kind = "result"
        /\ hist[n].round = hist[k].round
        => \A m \in k..n : hist[m].kind \notin {"user", "steering"}

(* A prompt is answered in the history at most once, and when no turn runs *)
(* no prompt is left open: neither a stop nor a crash leaves a dialog      *)
(* nobody waits for, once reconcile has looked.                            *)
PromptsAnswered ==
    /\ \A m, n \in DOMAIN hist :
          /\ hist[m].kind = "response"
          /\ hist[n].kind = "response"
          /\ hist[m].item = hist[n].item
          => m = n
    /\ phase = "idle" /\ up /\ faults = 0 /\ ~skipped => Unanswered = {}

(* A stopped turn ends, even one that waits for the user in several calls. *)
StopStops == cancelled ~> phase \in {"idle", "booting"}

=============================================================================

---------------------------- MODULE AgentMailbox ----------------------------
(***************************************************************************)
(* One background agent and the messages sent to it while it runs: the     *)
(* AgentMailboxGate (tools/src/agent/mod.rs), the life of the task that    *)
(* owns it (register_agent, engine/src/task.rs), the two steering          *)
(* checkpoints of the child's turn (core/src/steer.rs, round.rs, lib.rs)   *)
(* and send_agent_message, which looks at the task, at the map of gates    *)
(* and at the gate in three separate steps.                                *)
(*                                                                         *)
(* The child's turn runs under no session lock, so a process the child     *)
(* started in the background, when it ends, opens a second turn in the     *)
(* child's session: the other turn.  How a dispatcher turn starts is the   *)
(* subject of Dispatch; here it reads the mailbox, deletes the rows it     *)
(* read, appends them and may steer once more.  The mailbox is a set: the  *)
(* order of its rows does not matter to what is stated here.               *)
(***************************************************************************)
EXTENDS Naturals, Sequences

CONSTANTS
    Messages,   \* calls of send_agent_message
    OwnTasks,   \* background processes the child starts; their end is a row
    MaxRounds   \* limits.max_rounds

ASSUME MailboxAssumption ==
    /\ MaxRounds \in Nat \ {0}
    /\ Messages \cap OwnTasks = {}

VARIABLES
    task,     \* state of the agent's task row
    mapped,   \* whether agent_mailboxes holds the gate
    gate,     \* AgentMailboxState
    sender,   \* where each call of send_agent_message is
    mail,     \* rows of the child session's mailbox
    history,  \* rows that have become entries of the child session
    pc,       \* where the child is
    rounds,   \* rounds of the child's turn
    batch,    \* rows its drain has read and not moved yet
    injected, \* whether this drain has moved any
    outcome,  \* how the child's turn ended
    todo,     \* what register_agent still has to do after the run
    own,      \* background processes of the child that have not ended
    wake,     \* a mailbox_ready(child session) that was not handled yet
    other,    \* where the other turn is
    oBatch,   \* rows it has read and not deleted, or not moved, yet
    input     \* rows it has deleted, to be appended as its input

childVars == <<task, mapped, pc, rounds, batch, injected, outcome, todo>>
otherVars == <<own, wake, other, oBatch, input>>
vars == <<childVars, otherVars, gate, sender, mail, history>>

Rows == Messages \cup OwnTasks
Answered == {"sent", "refused", "dropped"}
InTurn == {"round", "steering", "closing", "finishing"}

TypeOK ==
    /\ task \in {"queued", "running", "done"}
    /\ mapped \in BOOLEAN
    /\ gate \in {"pending", "open", "closed"}
    /\ sender \in [Messages -> {"new", "checked", "gated", "looked", "waiting"}
                                   \cup Answered]
    /\ mail \subseteq Rows
    /\ history \subseteq Rows
    /\ pc \in {"queued", "preparing", "ending"} \cup InTurn
    /\ rounds \in 0..MaxRounds
    /\ batch \subseteq Rows
    /\ injected \in BOOLEAN
    /\ outcome \in {"none", "finished", "cut"}
    /\ todo \in Seq({"close", "finish", "remove"})
    /\ own \subseteq OwnTasks
    /\ wake \in BOOLEAN
    /\ other \in {"idle", "taking", "running", "steering"}
    /\ oBatch \subseteq Rows
    /\ input \subseteq Rows

Init ==
    /\ task = "queued"
    /\ mapped = TRUE
    /\ gate = "pending"
    /\ sender = [m \in Messages |-> "new"]
    /\ mail = {}
    /\ history = {}
    /\ pc = "queued"
    /\ rounds = 0
    /\ batch = {}
    /\ injected = FALSE
    /\ outcome = "none"
    /\ todo = <<>>
    /\ own = OwnTasks
    /\ wake = FALSE
    /\ other = "idle"
    /\ oBatch = {}
    /\ input = {}

-----------------------------------------------------------------------------
(* send_agent_message                                                      *)

(* Mutant: the final drain leaves the gate to the senders. *)
GateNotHeld == FALSE

(* The child holds the gate's mutex for the whole of its final drain. *)
GateHeld == pc = "closing" /\ gate = "open"

Moves(m, to) ==
    /\ sender' = [sender EXCEPT ![m] = to]
    /\ UNCHANGED <<childVars, otherVars, gate, history>>

(* The task row is read; an ended task takes no messages. *)
CheckTask(m) ==
    /\ sender[m] = "new"
    /\ Moves(m, IF task = "done" THEN "refused" ELSE "checked")
    /\ UNCHANGED mail

(* The gate is taken out of agent_mailboxes. *)
GetGate(m) ==
    /\ sender[m] = "checked"
    /\ Moves(m, IF mapped THEN "gated" ELSE "refused")
    /\ UNCHANGED mail

(* with_open_session: under the mutex, an open gate stores the row, a      *)
(* closed one refuses, and at a pending one the sender lets go to wait.    *)
Send(m) ==
    /\ sender[m] = "gated"
    /\ ~GateHeld
    /\ \/ /\ gate = "open"
          /\ mail' = mail \cup {m}
          /\ Moves(m, "sent")
       \/ /\ gate = "closed"
          /\ Moves(m, "refused")
          /\ UNCHANGED mail
       \/ /\ gate = "pending"
          /\ Moves(m, "looked")
          /\ UNCHANGED mail

(* changed.await. *)
Await(m) ==
    /\ sender[m] = "looked"
    /\ Moves(m, "waiting")
    /\ UNCHANGED mail

(* The turn of the sending tool call is stopped. *)
Drop(m) ==
    /\ sender[m] \in {"gated", "looked", "waiting"}
    /\ Moves(m, "dropped")
    /\ UNCHANGED mail

Notified(from) ==
    sender' = [m \in Messages |-> IF sender[m] \in from THEN "gated" ELSE sender[m]]

(* Mutant: the waiter is constructed when it is awaited. *)
NotifyAwaiting == Notified({"waiting"})

(* notify_waiters reaches every waiter that was constructed, whether it is *)
(* awaited already or not.                                                 *)
NotifyWaiters == Notified({"looked", "waiting"})

-----------------------------------------------------------------------------
(* register_agent and the spawner                                          *)

Ends(how, rest) ==
    /\ pc' = "ending"
    /\ outcome' = how
    /\ todo' = rest
    /\ batch' = {}

AfterRun == <<"close", "finish", "remove">>

(* Stopped before the first poll, or the claim fails: there the row stays  *)
(* queued.                                                                 *)
NeverStarts ==
    /\ pc = "queued"
    /\ Ends("none", <<"remove", "close">>)
    /\ \/ task' = "done"
       \/ UNCHANGED task
    /\ UNCHANGED <<mapped, rounds, injected, otherVars, gate, sender, mail, history>>

Claim ==
    /\ pc = "queued"
    /\ task' = "running"
    /\ pc' = "preparing"
    /\ UNCHANGED <<mapped, rounds, batch, injected, outcome, todo, otherVars, gate,
                   sender, mail, history>>

(* spawn: no profile, no model, too deep. *)
PrepareFails ==
    /\ pc = "preparing"
    /\ Ends("cut", AfterRun)
    /\ UNCHANGED <<task, mapped, rounds, injected, otherVars, gate, sender, mail,
                   history>>

Activate ==
    /\ pc = "preparing"
    /\ gate' = "open"
    /\ NotifyWaiters
    /\ pc' = "round"
    /\ rounds' = 1
    /\ UNCHANGED <<task, mapped, batch, injected, outcome, todo, otherVars, mail,
                   history>>

(* Whatever was left to do after the run: the spawner and register_agent   *)
(* close the gate, the row is finished, the gate leaves the map.           *)
WindUp(step) ==
    /\ pc = "ending"
    /\ todo # <<>>
    /\ Head(todo) = step
    /\ todo' = Tail(todo)
    /\ UNCHANGED <<pc, rounds, batch, injected, outcome, otherVars, mail, history>>

CloseGate ==
    /\ WindUp("close")
    /\ gate' = "closed"
    /\ IF gate = "closed" THEN UNCHANGED sender ELSE NotifyWaiters
    /\ UNCHANGED <<task, mapped>>

FinishTask ==
    /\ WindUp("finish")
    /\ task' = "done"
    /\ UNCHANGED <<mapped, gate, sender>>

Unmap ==
    /\ WindUp("remove")
    /\ mapped' = FALSE
    /\ UNCHANGED <<task, gate, sender>>

-----------------------------------------------------------------------------
(* The child's turn                                                        *)

(* A round that ends the turn by itself: an error, a stop, a truncated     *)
(* answer, a budget.                                                       *)
Cut ==
    /\ pc \in {"round", "finishing"}
    /\ Ends("cut", AfterRun)
    /\ UNCHANGED <<task, mapped, rounds, injected, otherVars, gate, sender, mail,
                   history>>

(* After tool calls the ungated drain, after an answer the gated one,      *)
(* which is empty at once when the gate is closed already.                 *)
Checkpoint ==
    /\ pc = "round"
    /\ injected' = FALSE
    /\ \/ pc' = "steering" /\ batch' = mail
       \/ gate = "open" /\ pc' = "closing" /\ batch' = mail
       \/ gate = "closed" /\ pc' = "finishing" /\ UNCHANGED batch
    /\ UNCHANGED <<task, mapped, rounds, outcome, todo, otherVars, gate, sender, mail,
                   history>>

(* deliver_all: the row becomes an entry in one transaction; if it is gone *)
(* the round fails and with it the turn.                                   *)
DrainRow ==
    /\ pc \in {"steering", "closing"}
    /\ \E r \in batch :
          \/ /\ r \in mail
             /\ mail' = mail \ {r}
             /\ history' = history \cup {r}
             /\ batch' = batch \ {r}
             /\ injected' = TRUE
             /\ UNCHANGED <<pc, outcome, todo>>
          \/ /\ r \notin mail
             /\ Ends("cut", AfterRun)
             /\ UNCHANGED <<mail, history, injected>>
    /\ UNCHANGED <<task, mapped, rounds, otherVars, gate, sender>>

(* Mutant: the last round is not the last. *)
NextRoundUnbounded ==
    /\ rounds' = rounds + 1
    /\ pc' = "round"
    /\ UNCHANGED <<batch, outcome, todo>>

(* The loop bound is a backstop: the turn ends there. *)
NextRound ==
    \/ /\ rounds < MaxRounds
       /\ rounds' = rounds + 1
       /\ pc' = "round"
       /\ UNCHANGED <<batch, outcome, todo>>
    \/ /\ rounds = MaxRounds
       /\ Ends("cut", AfterRun)
       /\ UNCHANGED rounds

(* The drain is through.  The final one closes the gate if it moved        *)
(* nothing; in every other case the turn goes on.                          *)
DrainDone ==
    /\ pc \in {"steering", "closing"}
    /\ batch = {}
    /\ \/ /\ pc = "closing" /\ ~injected
          /\ gate' = "closed"
          /\ NotifyWaiters
          /\ pc' = "finishing"
          /\ UNCHANGED <<rounds, batch, outcome, todo>>
       \/ /\ pc = "steering" \/ injected
          /\ NextRound
          /\ UNCHANGED <<gate, sender>>
    /\ UNCHANGED <<task, mapped, injected, otherVars, mail, history>>

(* A turn_finish_before hook sends the model back to work, or the answer   *)
(* stands.                                                                 *)
Finish ==
    /\ pc = "finishing"
    /\ \/ NextRound
       \/ Ends("finished", AfterRun) /\ UNCHANGED rounds
    /\ UNCHANGED <<task, mapped, injected, otherVars, gate, sender, mail, history>>

-----------------------------------------------------------------------------
(* The child's background processes and the other turn                     *)

(* finish_checked: the notification row, then the wake-up. *)
OwnTaskEnds ==
    /\ pc \notin {"queued", "preparing"}
    /\ \E t \in own :
          /\ own' = own \ {t}
          /\ mail' = mail \cup {t}
    /\ wake' = TRUE
    /\ UNCHANGED <<childVars, gate, sender, history, other, oBatch, input>>

(* start_if_idle(child session), which nothing but another dispatcher turn *)
(* turns away.                                                             *)
StartIfIdle ==
    /\ wake
    /\ wake' = FALSE
    /\ \/ /\ other = "idle" /\ mail # {}
          /\ other' = "taking"
          /\ oBatch' = mail
       \/ /\ other # "idle" \/ mail = {}
          /\ UNCHANGED <<other, oBatch>>
    /\ UNCHANGED <<childVars, gate, sender, mail, history, own, input>>

(* mailbox().cancel, whose answer is not looked at. *)
TakeRow ==
    /\ other = "taking"
    /\ \E r \in oBatch :
          /\ oBatch' = oBatch \ {r}
          /\ mail' = mail \ {r}
          /\ input' = input \cup {r}
    /\ UNCHANGED <<childVars, gate, sender, history, own, wake, other>>

AppendInput ==
    /\ other = "taking" /\ oBatch = {}
    /\ other' = "running"
    /\ history' = history \cup input
    /\ input' = {}
    /\ UNCHANGED <<childVars, gate, sender, mail, own, wake, oBatch>>

OtherSteers ==
    /\ \/ other = "running" /\ other' = "steering" /\ oBatch' = mail
       \/ other = "steering" /\ oBatch = {} /\ other' = "running" /\ UNCHANGED oBatch
    /\ UNCHANGED <<childVars, gate, sender, mail, history, own, wake, input>>

(* A row of its drain that is gone fails the other turn. *)
OtherDrainsRow ==
    /\ other = "steering"
    /\ \E r \in oBatch :
          \/ /\ r \in mail
             /\ mail' = mail \ {r}
             /\ history' = history \cup {r}
             /\ oBatch' = oBatch \ {r}
             /\ UNCHANGED <<other, wake>>
          \/ /\ r \notin mail
             /\ other' = "idle"
             /\ wake' = TRUE
             /\ oBatch' = {}
             /\ UNCHANGED <<mail, history>>
    /\ UNCHANGED <<childVars, gate, sender, own, input>>

(* The end of a dispatcher turn looks for more work. *)
OtherEnds ==
    /\ other = "running"
    /\ other' = "idle"
    /\ wake' = TRUE
    /\ UNCHANGED <<childVars, gate, sender, mail, history, own, oBatch, input>>

-----------------------------------------------------------------------------
Sends(m) == CheckTask(m) \/ GetGate(m) \/ Send(m) \/ Await(m)
Starts == NeverStarts \/ Claim \/ PrepareFails \/ Activate
Drains == DrainRow \/ DrainDone
Wraps == CloseGate \/ FinishTask \/ Unmap
Other == StartIfIdle \/ TakeRow \/ AppendInput \/ OtherSteers \/ OtherDrainsRow \/ OtherEnds

Next ==
    \/ \E m \in Messages : Sends(m) \/ Drop(m)
    \/ Starts \/ Cut \/ Checkpoint \/ Drains \/ Finish \/ Wraps
    \/ OwnTaskEnds \/ Other

Spec == Init /\ [][Next]_vars

(* A call of send_agent_message goes on; the steps that start and end an   *)
(* agent and the drains only call the store.  A round may take for ever.   *)
FairSpec ==
    /\ Spec
    /\ \A m \in Messages : WF_vars(Sends(m))
    /\ WF_vars(Starts) /\ WF_vars(Drains) /\ WF_vars(Wraps)

-----------------------------------------------------------------------------
Sent == {m \in Messages : sender[m] = "sent"}

(* No message that send_agent_message accepted is left behind by an agent  *)
(* that finished: once the final drain closed the gate, every accepted     *)
(* message is in the child's history or is input of the other turn,        *)
(* whatever raced with the drain, with hooks or with the other turn.       *)
Drained == gate = "closed" /\ (pc \in InTurn \/ outcome = "finished")

AcceptedIsDelivered == Drained => Sent \subseteq history \cup input

(* Every call of send_agent_message comes to an end, however long the      *)
(* agent's rounds take and whenever its gate opens or closes.              *)
EverySenderAnswered ==
    \A m \in Messages : sender[m] # "new" ~> sender[m] \in Answered

(* A session has one turn at a time (store/src/lock.rs:1). *)
OneTurn == pc \in InTurn => other = "idle"

=============================================================================

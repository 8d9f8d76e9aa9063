------------------------------ MODULE Dispatch ------------------------------
(***************************************************************************)
(* How user input reaches a session: the mailbox table, Dispatcher::submit *)
(* and the control commands that touch the mailbox, start_if_idle, the     *)
(* turn task it spawns, and the two steering checkpoints of that turn.     *)
(* One session of one engine process on its durable store.                 *)
(*                                                                         *)
(* The store hands out pooled connections, so every store call is a step   *)
(* of its own and anything may happen between two of them.                 *)
(*                                                                         *)
(* A member of Turns is one invocation of start_if_idle together with the  *)
(* turn it may open (the code draws the TurnId inside the invocation); the *)
(* member is free again when both are over.  A submission is named by its  *)
(* client_request_id.                                                      *)
(***************************************************************************)
EXTENDS Integers, FiniteSets, Functions

CONSTANTS
    Subs,        \* submissions, by client_request_id
    Unreadable,  \* the ones whose stored parts decode to nothing
    Turns,       \* bound: invocations of start_if_idle alive at once
    NoTurn,      \* no lock row
    DeadTurn,    \* a lock row whose holder is gone, heartbeat still fresh
    StaleTurn,   \* the same, past STALE_AFTER
    MaxRounds,   \* limits.max_rounds
    Resent,      \* bound: the ones whose submitter may lose the answer
    MaxRetries,  \* bound: resubmissions per client_request_id
    MaxRewinds,  \* bound: rewind commands
    MaxCompacts, \* bound: manual compactions
    MaxCrashes,  \* bound: process crashes
    MaxFaults,   \* bound: store or routing errors
    MaxUpsets    \* bound: all of these together

ASSUME ConstantsAssumption ==
    /\ Unreadable \cup Resent \subseteq Subs
    /\ {NoTurn, DeadTurn, StaleTurn} \cap Turns = {}
    /\ NoTurn \notin {DeadTurn, StaleTurn}
    /\ MaxRounds \in Nat \ {0}
    /\ {MaxRetries, MaxRewinds, MaxCompacts, MaxCrashes, MaxFaults,
        MaxUpsets} \subseteq Nat

VARIABLES
    mail,      \* the mailbox table
    entries,   \* user entries of the history: [id, sub, turn]
    lock,      \* session_locks row
    pc,        \* where each invocation or turn is
    batch,     \* rows a start or a drain read and has still to handle
    input,     \* input the turn task holds in memory, not yet in the history
    seqno,     \* turn_seq of the turn
    rounds,    \* rounds begun by the turn
    injected,  \* whether the current drain delivered something
    waited,    \* task_wait_used
    calls,     \* calls of start_if_idle that are due
    client,    \* where the submitter of each submission is
    retries,   \* resubmissions so far
    delivered, \* DeliveredKeys
    withdrawn, \* submissions removed by CancelSubmission or Rewind
    rewind,    \* the Rewind command: commands so far, its stage, rows still to delete
    compacts,  \* manual compactions so far
    abandoned, \* a claim was dropped with no turn and no second look since
    up,        \* the process runs
    crashes,
    faults

turnVars == <<pc, batch, input, seqno, rounds, injected, waited>>
userVars == <<client, retries, withdrawn, rewind, compacts>>
envVars  == <<up, crashes, faults>>
vars == <<mail, entries, lock, pc, batch, input, seqno, rounds,
          injected, waited, calls, client, retries, delivered, withdrawn, rewind,
          compacts, abandoned, up, crashes, faults>>

PCs == {"free", "read", "claimed", "taking", "persisting", "round", "steering",
         "closing", "compacting", "finished", "released"}

(* A mailbox row.  Its SubmissionId is drawn per row: <<sub, nth>>, where   *)
(* nth counts the resubmissions of the request; id gives the FIFO order.    *)
Row == [sub : Subs, nth : 0..MaxRetries, id : Nat, delivery : {"steer", "queue"}]

(* The turn owns its LockGuard. *)
Live(t) == pc[t] \notin {"free", "read", "released"}

TypeOK ==
    /\ mail \subseteq Row
    /\ entries \subseteq [id : Nat, sub : Subs, turn : Nat]
    /\ lock \in Turns \cup {NoTurn, DeadTurn, StaleTurn}
    /\ pc \in [Turns -> PCs]
    /\ batch \in [Turns -> SUBSET Row]
    /\ input \in [Turns -> SUBSET Row]
    /\ seqno \in [Turns -> Nat]
    /\ rounds \in [Turns -> 0..MaxRounds]
    /\ injected \in [Turns -> BOOLEAN]
    /\ waited \in [Turns -> BOOLEAN]
    /\ calls \in Nat
    /\ client \in [Subs -> {"new", "checked", "acked", "rejected"}]
    /\ retries \in [Subs -> 0..MaxRetries]
    /\ delivered \subseteq Subs
    /\ withdrawn \subseteq Subs
    /\ rewind \in [done : 0..MaxRewinds, rows : SUBSET Row,
                  stage : {"idle", "checked", "listed"}]
    /\ compacts \in 0..MaxCompacts
    /\ abandoned \in BOOLEAN
    /\ up \in BOOLEAN
    /\ crashes \in 0..MaxCrashes
    /\ faults \in 0..MaxFaults

Init ==
    /\ mail = {}
    /\ entries = {}
    /\ lock = NoTurn
    /\ pc = [t \in Turns |-> "free"]
    /\ batch = [t \in Turns |-> {}]
    /\ input = [t \in Turns |-> {}]
    /\ seqno = [t \in Turns |-> 0]
    /\ rounds = [t \in Turns |-> 0]
    /\ injected = [t \in Turns |-> FALSE]
    /\ waited = [t \in Turns |-> FALSE]
    /\ calls = 0
    /\ client = [s \in Subs |-> "new"]
    /\ retries = [s \in Subs |-> 0]
    /\ delivered = {}
    /\ withdrawn = {}
    /\ rewind = [done |-> 0, rows |-> {}, stage |-> "idle"]
    /\ compacts = 0
    /\ abandoned = FALSE
    /\ up = TRUE
    /\ crashes = 0
    /\ faults = 0

(* The id SQLite gives the next row of a table, and the order of its rows. *)
NextId(table) == 1 + (IF table = {} THEN 0
                      ELSE CHOOSE n \in {r.id : r \in table} : \A r \in table : r.id <= n)
IsFirst(row, rows) == row \in rows /\ \A r \in rows : row.id <= r.id

SubsOf(rows) == {r.sub : r \in rows}
InHistory == {e.sub : e \in entries}
Readable(rows) == {r \in rows : r.sub \notin Unreadable}

(* WHERE submission_id = ... *)
SameSubmission(r, q) == r.sub = q.sub /\ r.nth = q.nth
Delete(row) == mail' = {r \in mail : ~SameSubmission(r, row)}
Present(row) == \E r \in mail : SameSubmission(r, row)

Steers == {r \in mail : r.delivery = "steer"}

(* EntryStore::append of one user message of turn t. *)
Append(row, t) ==
    entries' = entries \cup {[id |-> NextId(entries), sub |-> row.sub, turn |-> seqno[t]]}

Upsets == rewind.done + compacts + crashes + faults + FoldFunction(+, 0, retries)
MoreUpsets == Upsets < MaxUpsets

Goto(t, label) == pc' = [pc EXCEPT ![t] = label]

(* The invocation returns and nothing of it is left. *)
Leave(t) ==
    /\ Goto(t, "free")
    /\ batch' = [batch EXCEPT ![t] = {}]
    /\ input' = [input EXCEPT ![t] = {}]
    /\ seqno' = [seqno EXCEPT ![t] = 0]
    /\ rounds' = [rounds EXCEPT ![t] = 0]
    /\ injected' = [injected EXCEPT ![t] = FALSE]
    /\ waited' = [waited EXCEPT ![t] = FALSE]

(* drop(guard): DELETE the row if it is still this turn's. *)
DropGuard(t) == lock' = IF lock = t THEN NoTurn ELSE lock

-----------------------------------------------------------------------------
(* Dispatcher::submit                                                      *)

(* The duplicate checks, against DeliveredKeys and the pending rows. *)
SubmitCheck(s) ==
    /\ up
    /\ client[s] = "new"
    /\ client' = [client EXCEPT ![s] =
                     IF s \in delivered \cup SubsOf(mail) THEN "acked" ELSE "checked"]
    /\ UNCHANGED <<mail, entries, lock, turnVars, calls, retries, delivered,
                   withdrawn, rewind, compacts, abandoned, envVars>>

(* A hook, an attachment or the router turns it down. *)
SubmitReject(s) ==
    /\ up
    /\ client[s] = "checked"
    /\ client' = [client EXCEPT ![s] = "rejected"]
    /\ UNCHANGED <<mail, entries, lock, turnVars, calls, retries, delivered,
                   withdrawn, rewind, compacts, abandoned, envVars>>

(* MailboxStore::submit_with_model, then start_if_idle. *)
SubmitStore(s) ==
    /\ up
    /\ client[s] = "checked"
    /\ client' = [client EXCEPT ![s] = "acked"]
    /\ calls' = calls + 1
    /\ IF s \in SubsOf(mail)
       THEN UNCHANGED mail
       ELSE \E d \in {"steer", "queue"} :
               mail' = mail \cup {[sub |-> s, nth |-> retries[s],
                                  id |-> NextId(mail), delivery |-> d]}
    /\ UNCHANGED <<entries, lock, turnVars, retries, delivered, withdrawn, rewind,
                   compacts, abandoned, envVars>>

(* The client did not see the answer and submits the same request again. *)
Resubmit(s) ==
    /\ client[s] = "acked"
    /\ s \in Resent
    /\ retries[s] < MaxRetries
    /\ MoreUpsets
    /\ retries' = [retries EXCEPT ![s] = @ + 1]
    /\ client' = [client EXCEPT ![s] = "new"]
    /\ UNCHANGED <<mail, entries, lock, turnVars, calls, delivered, withdrawn,
                   rewind, compacts, abandoned, envVars>>

-----------------------------------------------------------------------------
(* Dispatcher::control, the commands that touch the mailbox or the history *)

CancelSubmission(row) ==
    /\ up
    /\ Delete(row)
    /\ withdrawn' = withdrawn \cup {row.sub}
    /\ UNCHANGED <<entries, lock, turnVars, calls, client, retries,
                   delivered, rewind, compacts, abandoned, envVars>>

RetargetSubmission(row) ==
    /\ up
    /\ \E d \in {"steer", "queue"} :
          mail' = (mail \ {row}) \cup {[row EXCEPT !.delivery = d]}
    /\ UNCHANGED <<entries, lock, turnVars, calls, userVars,
                   delivered, abandoned, envVars>>

(* Rewind asks whether a turn is live, ... *)
RewindCheck ==
    /\ up
    /\ rewind.done < MaxRewinds
    /\ MoreUpsets
    /\ rewind.stage = "idle"
    /\ rewind' = [done |-> rewind.done + 1, rows |-> {},
                  stage |-> IF lock = NoTurn THEN "checked" ELSE "idle"]
    /\ UNCHANGED <<mail, entries, lock, turnVars, calls, client, retries,
                   delivered, withdrawn, compacts, abandoned, envVars>>

(* ... then reads the pending rows, ... *)
RewindList ==
    /\ rewind.stage = "checked"
    /\ rewind' = [rewind EXCEPT !.stage = "listed", !.rows = mail]
    /\ UNCHANGED <<mail, entries, lock, turnVars, calls, client, retries,
                   delivered, withdrawn, compacts, abandoned, envVars>>

(* ... deletes them one by one, ... *)
RewindCancel ==
    /\ rewind.stage = "listed"
    /\ \E row \in rewind.rows :
          /\ IsFirst(row, rewind.rows)
          /\ rewind' = [rewind EXCEPT !.rows = @ \ {row}]
          /\ Delete(row)
          /\ withdrawn' = IF Present(row) THEN withdrawn \cup {row.sub} ELSE withdrawn
    /\ UNCHANGED <<entries, lock, turnVars, calls, client, retries,
                   delivered, compacts, abandoned, envVars>>

(* ... and cuts the history. *)
RewindApply(keep) ==
    /\ rewind.stage = "listed"
    /\ rewind.rows = {}
    /\ rewind' = [rewind EXCEPT !.stage = "idle"]
    /\ entries' = {e \in entries : e.turn <= keep}
    /\ withdrawn' = withdrawn \cup {e.sub : e \in entries \ entries'}
    /\ UNCHANGED <<mail, lock, turnVars, calls, client, retries, delivered, compacts,
                   abandoned, envVars>>

-----------------------------------------------------------------------------
(* Dispatcher::start_if_idle                                               *)

(* The pending rows are read before the lock is held. *)
ReadPending(t) ==
    /\ IF mail = {}
       THEN Leave(t)
       ELSE /\ Goto(t, "read")
            /\ batch' = [batch EXCEPT ![t] = mail]
            /\ input' = [input EXCEPT ![t] = {}]
            /\ seqno' = [seqno EXCEPT ![t] = 0]
            /\ rounds' = [rounds EXCEPT ![t] = 0]
            /\ injected' = [injected EXCEPT ![t] = FALSE]
            /\ waited' = [waited EXCEPT ![t] = FALSE]
    /\ UNCHANGED <<mail, entries, lock, userVars, delivered, envVars>>

(* A call that is due: after a submission or at start-up. *)
Call(t) ==
    /\ up
    /\ calls > 0
    /\ pc[t] = "free"
    /\ calls' = calls - 1
    /\ ReadPending(t)
    /\ UNCHANGED abandoned

(* Mutant: runs although another turn holds the row. *)
ClaimIgnoringBusy(t) ==
    /\ pc[t] = "read"
    /\ lock' = t
    /\ Goto(t, "claimed")
    /\ UNCHANGED <<batch, input, seqno, rounds, injected, waited>>
    /\ UNCHANGED <<mail, entries, calls, userVars, delivered, abandoned, envVars>>

(* SessionLocks::claim; Busy ends the call without an error. *)
Claim(t) ==
    /\ pc[t] = "read"
    /\ IF lock \in {NoTurn, StaleTurn}
       THEN /\ lock' = t
            /\ Goto(t, "claimed")
            /\ UNCHANGED <<batch, input, seqno, rounds, injected, waited>>
       ELSE /\ Leave(t)
            /\ UNCHANGED lock
    /\ UNCHANGED <<mail, entries, calls, userVars, delivered, abandoned, envVars>>

(* Mutant: a readable row is thrown away like an unreadable one. *)
SkipAnyRow(t) ==
    /\ pc[t] = "claimed"
    /\ \E row \in batch[t] :
          /\ IsFirst(row, batch[t])
          /\ batch' = [batch EXCEPT ![t] = @ \ {row}]
          /\ Delete(row)
    /\ UNCHANGED <<entries, lock, pc, input, seqno, rounds, injected, waited,
                   calls, userVars, delivered, abandoned, envVars>>

(* The decode loop: a row that decodes to nothing leaves the mailbox. *)
SkipUnreadable(t) ==
    /\ pc[t] = "claimed"
    /\ \E row \in batch[t] \ Readable(batch[t]) :
          /\ IsFirst(row, batch[t] \ Readable(batch[t]))
          /\ batch' = [batch EXCEPT ![t] = @ \ {row}]
          /\ Delete(row)
    /\ UNCHANGED <<entries, lock, pc, input, seqno, rounds, injected, waited,
                   calls, userVars, delivered, abandoned, envVars>>

(* Every row is decoded.  With nothing to say the claim is dropped, and    *)
(* nobody looks again.                                                     *)
Decoded(t) ==
    /\ pc[t] = "claimed"
    /\ batch[t] = Readable(batch[t])
    /\ IF batch[t] = {}
       THEN /\ DropGuard(t)
            /\ Leave(t)
            /\ abandoned' = TRUE
       ELSE /\ Goto(t, "taking")
            /\ UNCHANGED <<batch, lock, input, seqno, rounds, injected, waited, abandoned>>
    /\ UNCHANGED <<mail, entries, calls, userVars, delivered, envVars>>

(* Delete the rows one by one; whether the row was still there is ignored. *)
TakeRow(t) ==
    /\ pc[t] = "taking"
    /\ \E row \in batch[t] :
          /\ IsFirst(row, batch[t])
          /\ batch' = [batch EXCEPT ![t] = @ \ {row}]
          /\ input' = [input EXCEPT ![t] = @ \cup {row}]
          /\ Delete(row)
          /\ delivered' = delivered \cup {row.sub}
    /\ UNCHANGED <<entries, lock, pc, seqno, rounds, injected, waited,
                   calls, userVars, abandoned, envVars>>

-----------------------------------------------------------------------------
(* The turn task: Core::run_with_input                                     *)

LastTurn == IF entries = {} THEN 0
            ELSE CHOOSE n \in {e.turn : e \in entries} : \A e \in entries : e.turn <= n

(* tokio::spawn: the turn task owns guard and input from here on, and      *)
(* draws its turn number.                                                  *)
BeginTurn(t) ==
    /\ pc[t] = "taking"
    /\ batch[t] = {}
    /\ Goto(t, "persisting")
    /\ seqno' = [seqno EXCEPT ![t] = LastTurn + 1]
    /\ UNCHANGED <<mail, entries, lock, batch, input, rounds, injected, waited, calls,
                   userVars, delivered, abandoned, envVars>>

(* One input entry at a time, in order. *)
PersistInput(t) ==
    /\ pc[t] = "persisting"
    /\ \E row \in input[t] :
          /\ IsFirst(row, input[t])
          /\ input' = [input EXCEPT ![t] = @ \ {row}]
          /\ Append(row, t)
    /\ UNCHANGED <<mail, lock, pc, batch, seqno, rounds, injected, waited, calls,
                   userVars, delivered, abandoned, envVars>>

(* Mutant: skills that do not resolve end the turn with the input unwritten. *)
InputDropped(t) ==
    /\ pc[t] = "persisting"
    /\ input' = [input EXCEPT ![t] = {}]
    /\ \/ input[t] = {} /\ Goto(t, "round")
       \/ Goto(t, "finished")
    /\ UNCHANGED <<mail, entries, lock, batch, seqno, rounds, injected, waited, calls,
                   userVars, delivered, abandoned, envVars>>

(* All of it is in the history.  If the skills did not resolve the turn is *)
(* over, otherwise the rounds begin.                                       *)
InputPersisted(t) ==
    /\ pc[t] = "persisting"
    /\ input[t] = {}
    /\ \E next \in {"round", "finished"} : Goto(t, next)
    /\ UNCHANGED <<mail, entries, lock, batch, input, seqno, rounds, injected, waited,
                   calls, userVars, delivered, abandoned, envVars>>

(* Mutant: rounds are not counted. *)
RoundUncounted(t) ==
    /\ pc[t] = "round"
    /\ batch' = [batch EXCEPT ![t] = Steers]
    /\ injected' = [injected EXCEPT ![t] = FALSE]
    /\ \E next \in {"steering", "closing"} : Goto(t, next)
    /\ UNCHANGED <<mail, entries, lock, input, seqno, rounds, waited, calls, userVars,
                   delivered, abandoned, envVars>>

(* A round whose model call and tools are over reads the steering rows: at *)
(* checkpoint 1 after tool results, at checkpoint 2 after a final answer.  *)
Round(t) ==
    /\ pc[t] = "round"
    /\ rounds' = [rounds EXCEPT ![t] = @ + 1]
    /\ batch' = [batch EXCEPT ![t] = Steers]
    /\ injected' = [injected EXCEPT ![t] = FALSE]
    /\ \E next \in {"steering", "closing"} : Goto(t, next)
    /\ UNCHANGED <<mail, entries, lock, input, seqno, waited, calls, userVars,
                   delivered, abandoned, envVars>>

(* An error, a cancellation or a truncated answer ends the turn instead. *)
RoundStops(t) ==
    /\ pc[t] = "round"
    /\ Goto(t, "finished")
    /\ UNCHANGED <<mail, entries, lock, batch, input, seqno, rounds, injected, waited,
                   calls, userVars, delivered, abandoned, envVars>>

(* Mutant: delivery copies the row instead of moving it. *)
DrainRowCopying(t) ==
    /\ pc[t] \in {"steering", "closing"}
    /\ \E row \in batch[t] :
          /\ IsFirst(row, batch[t])
          /\ Append(row, t)
          /\ batch' = [batch EXCEPT ![t] = @ \ {row}]
          /\ injected' = [injected EXCEPT ![t] = TRUE]
    /\ UNCHANGED <<mail, pc, lock, input, seqno, rounds, waited, calls, userVars,
                   delivered, abandoned, envVars>>

(* drain_steering handles the next row it read.  A row with nothing to say *)
(* is deleted; any other is moved into the history in one transaction.  A  *)
(* row that is gone, or a skill that does not resolve, fails the drain and *)
(* with it the turn.                                                       *)
DrainRow(t) ==
    /\ pc[t] \in {"steering", "closing"}
    /\ \E row \in batch[t] :
          /\ IsFirst(row, batch[t])
          /\ \/ /\ row.sub \in Unreadable
                /\ Delete(row)
                /\ batch' = [batch EXCEPT ![t] = @ \ {row}]
                /\ UNCHANGED <<entries, pc, injected>>
             \/ /\ row.sub \notin Unreadable
                /\ Present(row)
                /\ Delete(row)
                /\ Append(row, t)
                /\ batch' = [batch EXCEPT ![t] = @ \ {row}]
                /\ injected' = [injected EXCEPT ![t] = TRUE]
                /\ UNCHANGED pc
             \/ /\ Goto(t, "finished")
                /\ batch' = [batch EXCEPT ![t] = {}]
                /\ UNCHANGED <<mail, entries, injected>>
    /\ UNCHANGED <<lock, input, seqno, rounds, waited, calls, userVars,
                   delivered, abandoned, envVars>>

(* Mutant: the round limit is off by one. *)
DrainDoneBeyondLimit(t) ==
    /\ pc[t] \in {"steering", "closing"}
    /\ batch[t] = {}
    /\ \/ /\ rounds[t] <= MaxRounds
          /\ Goto(t, "round")
       \/ /\ pc[t] = "closing" /\ ~injected[t]
          /\ Goto(t, "finished")
    /\ UNCHANGED <<mail, entries, lock, batch, input, seqno, rounds, injected, waited, calls,
                   userVars, delivered, abandoned, envVars>>

(* The drain is done.  Tool results or an injected message mean another    *)
(* round, up to the limit; an answer with nothing injected ends the turn   *)
(* unless the finish hook has feedback.                                    *)
DrainDone(t) ==
    /\ pc[t] \in {"steering", "closing"}
    /\ batch[t] = {}
    /\ \/ /\ rounds[t] < MaxRounds
          /\ Goto(t, "round")
       \/ /\ rounds[t] = MaxRounds \/ (pc[t] = "closing" /\ ~injected[t])
          /\ Goto(t, "finished")
    /\ UNCHANGED <<mail, entries, lock, batch, input, seqno, rounds, injected, waited,
                   calls, userVars, delivered, abandoned, envVars>>

(* wait_for_turn_tasks, once per turn and only on a final answer: when the *)
(* wait is over, however it ended, a further drain.                        *)
WaitForTurnTasks(t) ==
    /\ pc[t] = "closing"
    /\ batch[t] = {}
    /\ ~injected[t]
    /\ ~waited[t]
    /\ waited' = [waited EXCEPT ![t] = TRUE]
    /\ batch' = [batch EXCEPT ![t] = Steers]
    /\ UNCHANGED <<mail, entries, lock, pc, input, seqno, rounds, injected,
                   calls, userVars, delivered, abandoned, envVars>>

(* start_manual_compaction claims the same lock and opens a turn that      *)
(* reads no input.                                                         *)
Compact(t) ==
    /\ up
    /\ compacts < MaxCompacts
    /\ MoreUpsets
    /\ compacts' = compacts + 1
    /\ pc[t] = "free"
    /\ lock \in {NoTurn, StaleTurn}
    /\ lock' = t
    /\ Goto(t, "compacting")
    /\ UNCHANGED <<mail, entries, batch, input, seqno, rounds, injected, waited, calls, client,
                   retries, delivered, withdrawn, rewind, abandoned, envVars>>

CompactDone(t) ==
    /\ pc[t] = "compacting"
    /\ Goto(t, "finished")
    /\ UNCHANGED <<mail, entries, lock, batch, input, seqno, rounds, injected, waited,
                   calls, userVars, delivered, abandoned, envVars>>

(* Mutant: the guard is leaked. *)
ReleaseLeakingGuard(t) ==
    /\ pc[t] = "finished"
    /\ Goto(t, "released")
    /\ UNCHANGED <<mail, entries, lock, batch, input, seqno, rounds, injected, waited, calls,
                   userVars, delivered, abandoned, envVars>>

(* The core returned: drop(guard) ... *)
Release(t) ==
    /\ pc[t] = "finished"
    /\ DropGuard(t)
    /\ Goto(t, "released")
    /\ UNCHANGED <<mail, entries, batch, input, seqno, rounds, injected, waited, calls,
                   userVars, delivered, abandoned, envVars>>

(* Mutant: the task ends without looking again. *)
EndWithoutRecheck(t) ==
    /\ pc[t] = "released"
    /\ Leave(t)
    /\ abandoned' = FALSE
    /\ UNCHANGED <<mail, entries, lock, userVars, delivered, envVars, calls>>

(* ... and the same task calls start_if_idle once more. *)
Recheck(t) ==
    /\ pc[t] = "released"
    /\ ReadPending(t)
    /\ abandoned' = FALSE
    /\ UNCHANGED calls

-----------------------------------------------------------------------------
(* Faults and crashes                                                      *)

(* An error inside start_if_idle (store, routing) or before a compaction   *)
(* runs returns at once: the guard is dropped, the input forgotten.        *)
StartFails(t) ==
    /\ pc[t] \in {"read", "claimed", "taking", "compacting"}
    /\ faults < MaxFaults
    /\ MoreUpsets
    /\ faults' = faults + 1
    /\ DropGuard(t)
    /\ Leave(t)
    /\ UNCHANGED <<mail, entries, calls, userVars, delivered, abandoned, up, crashes>>

(* A store error inside the turn ends the turn. *)
TurnFails(t) ==
    /\ pc[t] \in {"persisting", "steering", "closing"}
    /\ faults < MaxFaults
    /\ MoreUpsets
    /\ faults' = faults + 1
    /\ Goto(t, "finished")
    /\ batch' = [batch EXCEPT ![t] = {}]
    /\ input' = [input EXCEPT ![t] = {}]
    /\ UNCHANGED <<mail, entries, lock, seqno, rounds, injected, waited, calls, userVars,
                   delivered, abandoned, up, crashes>>

(* The DELETE of the lock row fails: the row stays until it is stale. *)
ReleaseFails(t) ==
    /\ pc[t] = "finished"
    /\ faults < MaxFaults
    /\ MoreUpsets
    /\ faults' = faults + 1
    /\ lock' = IF lock = t THEN DeadTurn ELSE lock
    /\ Goto(t, "released")
    /\ UNCHANGED <<mail, entries, batch, input, seqno, rounds, injected, waited, calls,
                   userVars, delivered, abandoned, up, crashes>>

(* The process dies: what is in memory is gone, what is stored stays. *)
Crash ==
    /\ up
    /\ crashes < MaxCrashes
    /\ MoreUpsets
    /\ crashes' = crashes + 1
    /\ up' = FALSE
    /\ pc' = [t \in Turns |-> "free"]
    /\ batch' = [t \in Turns |-> {}]
    /\ input' = [t \in Turns |-> {}]
    /\ seqno' = [t \in Turns |-> 0]
    /\ rounds' = [t \in Turns |-> 0]
    /\ injected' = [t \in Turns |-> FALSE]
    /\ waited' = [t \in Turns |-> FALSE]
    /\ calls' = 0
    /\ delivered' = {}
    /\ lock' = IF lock \in Turns THEN DeadTurn ELSE lock
    /\ client' = [s \in Subs |-> IF client[s] = "checked" THEN "new" ELSE client[s]]
    /\ rewind' = [rewind EXCEPT !.stage = "idle", !.rows = {}]
    /\ UNCHANGED <<mail, entries, retries, withdrawn, compacts, abandoned, faults>>

(* Bootstrap: reconcile removes a stale lock row, then there is one        *)
(* start_if_idle for a session with pending rows.                          *)
Boot ==
    /\ ~up
    /\ up' = TRUE
    /\ lock' = IF lock = StaleTurn THEN NoTurn ELSE lock
    /\ calls' = IF mail = {} THEN 0 ELSE 1
    /\ UNCHANGED <<mail, entries, turnVars, userVars, delivered, abandoned,
                   crashes, faults>>

(* Nobody heartbeats the row of a dead holder. *)
Expire ==
    /\ lock = DeadTurn
    /\ lock' = StaleTurn
    /\ UNCHANGED <<mail, entries, turnVars, calls, userVars, delivered, abandoned,
                   envVars>>

-----------------------------------------------------------------------------
Submit(s) == SubmitCheck(s) \/ SubmitReject(s) \/ SubmitStore(s) \/ Resubmit(s)

Control ==
    \/ \E row \in mail : CancelSubmission(row) \/ RetargetSubmission(row)
    \/ RewindCheck \/ RewindList \/ RewindCancel
    \/ \E keep \in 0..LastTurn : RewindApply(keep)
    \/ \E t \in Turns : Compact(t)

(* What the engine does by itself once a call is due or a turn runs. *)
Advance(t) ==
    \/ Call(t) \/ Claim(t) \/ SkipUnreadable(t) \/ Decoded(t) \/ TakeRow(t)
    \/ BeginTurn(t) \/ PersistInput(t) \/ InputPersisted(t)
    \/ Round(t) \/ RoundStops(t) \/ DrainRow(t) \/ DrainDone(t)
    \/ WaitForTurnTasks(t) \/ CompactDone(t) \/ Release(t) \/ Recheck(t)

Fault(t) == StartFails(t) \/ TurnFails(t) \/ ReleaseFails(t)

Next ==
    \/ \E s \in Subs : Submit(s)
    \/ Control
    \/ \E t \in Turns : Advance(t) \/ Fault(t)
    \/ Crash \/ Boot \/ Expire

Spec == Init /\ [][Next]_vars

(* Tasks that can run do run, and a dead holder's row ages.  Users, faults *)
(* and crashes owe nothing; whether the process is started again is the    *)
(* user's business too.                                                    *)
FairSpec == Spec /\ (\A t \in Turns : WF_vars(Advance(t))) /\ WF_vars(Expire)

-----------------------------------------------------------------------------
(* At most one turn of the session is between its claim and its release.   *)
OneLiveTurn == \A t, u \in Turns : Live(t) /\ Live(u) => t = u

(* "One submission is only ever in one place": a pending row has no entry  *)
(* in the history and is in no turn's memory.  A resubmission may bring    *)
(* back a row whose first copy was already delivered.                      *)
OnePlace ==
    \A row \in mail : row.nth = 0 =>
        /\ row.sub \notin InHistory
        /\ \A t \in Turns : row.sub \notin SubsOf(input[t])

(* An accepted submission is in the mailbox, in the memory of the turn     *)
(* that took it, in the history, withdrawn by the user, or was unreadable. *)
Accounted(s) ==
    \/ s \in SubsOf(mail) \cup InHistory \cup withdrawn \cup Unreadable
    \/ \E t \in Turns : s \in SubsOf(input[t])

(* Without a crash or a failing store no accepted submission disappears,   *)
(* however starts, drains, cancellations and rewinds interleave.           *)
NothingLostWithoutFaults ==
    crashes = 0 /\ faults = 0 =>
        \A s \in Subs : client[s] = "acked" => Accounted(s)

(* No lost wake-up: when nothing runs and no call is due, a row can only   *)
(* be left in the mailbox after a fault, behind the lock row of a dead     *)
(* holder, or after a claim that found nothing to say.  This is what the   *)
(* second look after drop(guard) is for.                                   *)
Quiet == up /\ calls = 0 /\ \A t \in Turns : pc[t] = "free"

NoStrandedMail ==
    Quiet /\ mail # {} => abandoned \/ faults > 0 \/ lock \in {DeadTurn, StaleTurn}

(* A row leaves the mailbox only for the memory of a turn, for the         *)
(* history, or because the user withdrew it or it was unreadable: crashes  *)
(* and errors before that point leave it pending.                          *)
RowsLeaveForAPlace ==
    [][\A s \in SubsOf(mail) \ SubsOf(mail') :
          \/ s \in withdrawn' \cup Unreadable \cup {e.sub : e \in entries'}
          \/ \E t \in Turns : s \in SubsOf(input'[t])]_vars

(* A lock row outlives its turn only through a crash or a failed DELETE.   *)
NoOrphanLock ==
    Quiet /\ lock # NoTurn => faults > 0 \/ crashes > 0

(* Every pending row is eventually taken, delivered or withdrawn. *)
MailIsTaken == \A s \in Subs : s \in SubsOf(mail) ~> s \notin SubsOf(mail)

(* A live turn ends and gives the lock back. *)
TurnsEnd == \A t \in Turns : Live(t) ~> ~Live(t)

-----------------------------------------------------------------------------
(* What the code's documentation says of it and the code does not do.      *)

(* store/src/mailbox.rs: the message delivered twice is unrepresentable. *)
DeliveredOnce ==
    \A d, e \in entries : d.sub = e.sub => d.id = e.id

=============================================================================

------------------------- MODULE AgentMailboxProofs -------------------------
(***************************************************************************)
(* Proofs about AgentMailbox for any sets of messages and background       *)
(* processes and any round limit.                                          *)
(*                                                                         *)
(* That nothing accepted is left behind rests on three facts: an accepted  *)
(* message does not disappear (Kept), nobody adds one behind the back of   *)
(* the final drain (DrainSeesAll), and once that drain closed the gate no  *)
(* message is in the mailbox any more (NoneLeft).                          *)
(***************************************************************************)
EXTENDS AgentMailbox, TLAPS

Kept == Sent \subseteq mail \cup history \cup input

DrainSeesAll == GateHeld => Sent \cap mail \subseteq batch

NoneLeft == Drained => Sent \cap mail = {}

(* The gate opens when the child starts its turn; only its final drain can *)
(* have closed it while the turn runs.                                     *)
GateFollowsChild ==
    /\ pc \in {"queued", "preparing"} => gate = "pending"
    /\ pc \in InTurn => gate # "pending" /\ outcome = "none"
    /\ pc = "closing" => gate = "open"
    /\ pc = "finishing" \/ outcome = "finished" => gate = "closed"
    /\ outcome # "none" => pc = "ending"

IInv == TypeOK /\ Kept /\ DrainSeesAll /\ NoneLeft /\ GateFollowsChild

-----------------------------------------------------------------------------
(* The lists of what is left to do. *)
LEMMA TodoTypes ==
    /\ <<>> \in Seq({"close", "finish", "remove"})
    /\ <<"remove", "close">> \in Seq({"close", "finish", "remove"})
    /\ AfterRun \in Seq({"close", "finish", "remove"})
BY DEF AfterRun

LEMMA InitEstablishes == Init => IInv
<1> SUFFICES ASSUME Init PROVE IInv
  OBVIOUS
<1>1. TypeOK
  <2>1. rounds \in 0..MaxRounds /\ todo \in Seq({"close", "finish", "remove"})
    BY MailboxAssumption, TodoTypes DEF Init
  <2>2. sender \in [Messages -> {"new", "checked", "gated", "looked", "waiting"}
                                   \cup Answered]
    BY DEF Init
  <2> QED BY <2>1, <2>2 DEF Init, TypeOK
<1>2. Sent = {}
  BY DEF Init, Sent
<1> QED BY <1>1, <1>2 DEF Init, IInv, Kept, DrainSeesAll, NoneLeft, GateFollowsChild,
                          Drained, GateHeld, InTurn

(* The calls of send_agent_message: only Send accepts, and it does so with *)
(* an open gate that no drain holds.                                       *)
LEMMA SenderKeeps ==
    ASSUME IInv, NEW m \in Messages, Sends(m) \/ Drop(m)
    PROVE  IInv'
<1>1. PICK to \in {"checked", "gated", "looked", "waiting"} \cup Answered :
         Moves(m, to) /\ (to = "sent" => gate = "open" /\ ~GateHeld /\ mail' = mail \cup {m})
                      /\ (to # "sent" => mail' = mail /\ sender[m] # "sent")
  <2>1. CASE CheckTask(m)
    BY <2>1 DEF CheckTask, Answered
  <2>2. CASE GetGate(m)
    BY <2>2 DEF GetGate, Answered
  <2>3. CASE Send(m)
    BY <2>3 DEF Send, Answered
  <2>4. CASE Await(m)
    BY <2>4 DEF Await, Answered
  <2>5. CASE Drop(m)
    BY <2>5 DEF Drop, Answered
  <2> QED BY <2>1, <2>2, <2>3, <2>4, <2>5 DEF Sends
<1>2. UNCHANGED <<childVars, otherVars, gate, history>>
      /\ sender' = [sender EXCEPT ![m] = to]
  BY <1>1 DEF Moves
<1>3. TypeOK'
  BY <1>1, <1>2 DEF IInv, TypeOK, childVars, otherVars, Rows, Answered
<1>4. Sent' = IF to = "sent" THEN Sent \cup {m} ELSE Sent
  BY <1>1, <1>2 DEF IInv, TypeOK, Sent
<1>5. UNCHANGED <<GateHeld, Drained, GateFollowsChild, batch, history, input>>
  BY <1>2 DEF childVars, otherVars, GateHeld, Drained, GateFollowsChild
<1>6. Drained => gate = "closed"
  BY DEF Drained
<1>7. Kept' /\ DrainSeesAll' /\ NoneLeft'
  BY <1>1, <1>4, <1>5, <1>6 DEF IInv, Kept, DrainSeesAll, NoneLeft
<1> QED BY <1>3, <1>5, <1>7 DEF IInv

(* A notification takes waiting senders back to the gate; it accepts none. *)
LEMMA NotifyKeepsSent ==
    ASSUME TypeOK, NotifyWaiters
    PROVE  Sent' = Sent /\ sender' \in [Messages -> {"new", "checked", "gated", "looked",
                                                     "waiting"} \cup Answered]
BY DEF TypeOK, NotifyWaiters, Notified, Sent

(* Starting the run: the gate is still pending, or about to open with      *)
(* nothing drained.                                                        *)
LEMMA StartsKeep ==
    ASSUME IInv, Starts
    PROVE  IInv'
<1>1. CASE NeverStarts \/ Claim \/ PrepareFails
  <2>1. UNCHANGED <<gate, sender, mail, history, input, rounds, injected, mapped, otherVars>>
    BY <1>1 DEF NeverStarts, Claim, PrepareFails, otherVars
  <2>2. \/ /\ pc' = "preparing"
           /\ UNCHANGED <<batch, outcome, todo>>
        \/ /\ pc' = "ending"
           /\ outcome' \in {"none", "cut"}
           /\ batch' = {}
           /\ todo' \in {<<"remove", "close">>, AfterRun}
    <3>1. CASE NeverStarts
      BY <3>1 DEF NeverStarts, Ends
    <3>2. CASE Claim
      BY <3>2 DEF Claim
    <3>3. CASE PrepareFails
      BY <3>3 DEF PrepareFails, Ends
    <3> QED BY <1>1, <3>1, <3>2, <3>3
  <2>3. task' \in {"queued", "running", "done"}
    BY <1>1 DEF NeverStarts, Claim, PrepareFails, IInv, TypeOK
  <2>4. gate = "pending"
    BY <1>1 DEF NeverStarts, Claim, PrepareFails, IInv, GateFollowsChild
  <2>5. TypeOK'
    BY <2>1, <2>2, <2>3, TodoTypes DEF IInv, TypeOK, otherVars
  <2>6. Kept' /\ DrainSeesAll' /\ NoneLeft'
    BY <2>1, <2>2, <2>4 DEF IInv, Kept, DrainSeesAll, NoneLeft, Sent, GateHeld, Drained
  <2>7. GateFollowsChild'
    BY <2>1, <2>2, <2>4, <1>1
    DEF IInv, GateFollowsChild, InTurn, NeverStarts, Claim, PrepareFails
  <2> QED BY <2>5, <2>6, <2>7 DEF IInv
<1>2. CASE Activate
  <2>1. Sent' = Sent
    BY <1>2, NotifyKeepsSent DEF Activate, IInv
  <2>2. TypeOK'
    BY <1>2, NotifyKeepsSent, MailboxAssumption DEF Activate, IInv, TypeOK, otherVars, InTurn
  <2>3. Kept' /\ DrainSeesAll' /\ NoneLeft'
    BY <1>2, <2>1
    DEF Activate, otherVars, IInv, Kept, DrainSeesAll, NoneLeft, GateHeld, Drained
  <2>4. GateFollowsChild'
    BY <1>2 DEF Activate, IInv, GateFollowsChild, InTurn
  <2> QED BY <2>2, <2>3, <2>4 DEF IInv
<1> QED BY <1>1, <1>2 DEF Starts

(* After the run: the child is out of its turn, so nothing is claimed of   *)
(* the mailbox unless the final drain has closed the gate before.          *)
LEMMA WrapsKeep ==
    ASSUME IInv, Wraps
    PROVE  IInv'
<1>1. PICK step \in {"close", "finish", "remove"} : WindUp(step)
  BY DEF Wraps, CloseGate, FinishTask, Unmap
<1>2. /\ UNCHANGED <<pc, rounds, batch, injected, outcome, mail, history, otherVars>>
      /\ pc = "ending"
  BY <1>1 DEF WindUp
<1>3. todo' \in Seq({"close", "finish", "remove"})
  BY <1>1 DEF WindUp, IInv, TypeOK
<1>4. gate' = gate \/ gate' = "closed"
  BY DEF Wraps, CloseGate, FinishTask, Unmap
<1>5. task' \in {"queued", "running", "done"} /\ mapped' \in BOOLEAN
  BY DEF Wraps, CloseGate, FinishTask, Unmap, IInv, TypeOK
<1>6. UNCHANGED sender \/ NotifyWaiters
  BY DEF Wraps, CloseGate, FinishTask, Unmap
<1>7. Sent' = Sent /\ sender' \in [Messages -> {"new", "checked", "gated", "looked",
                                                "waiting"} \cup Answered]
  BY <1>6, NotifyKeepsSent DEF IInv, TypeOK, Sent
<1>8. TypeOK'
  BY <1>2, <1>3, <1>4, <1>5, <1>7 DEF IInv, TypeOK, otherVars
<1>9. pc \notin InTurn /\ ~GateHeld'
  BY <1>2 DEF InTurn, GateHeld
<1>10. Drained' => Drained
  BY <1>2, <1>9 DEF Drained, IInv, GateFollowsChild
<1>11. Kept' /\ DrainSeesAll' /\ NoneLeft'
  BY <1>2, <1>7, <1>9, <1>10 DEF IInv, Kept, DrainSeesAll, NoneLeft, otherVars
<1>12. GateFollowsChild'
  BY <1>2, <1>4, <1>9 DEF IInv, GateFollowsChild
<1> QED BY <1>8, <1>11, <1>12 DEF IInv

-----------------------------------------------------------------------------
(* The next round, or the round limit.                                     *)
LEMMA NextRoundTypes ==
    ASSUME TypeOK, NextRound
    PROVE  /\ rounds' \in 0..MaxRounds
           /\ batch' \subseteq Rows
           /\ todo' \in Seq({"close", "finish", "remove"})
           /\ \/ pc' = "round" /\ outcome' = outcome
              \/ pc' = "ending" /\ outcome' = "cut"
BY MailboxAssumption, TodoTypes DEF TypeOK, NextRound, Ends

(* The child's turn up to its checkpoints: a gate that is closed stays     *)
(* closed, an open one is taken with everything accepted so far.           *)
LEMMA TurnKeeps ==
    ASSUME IInv, Cut \/ Checkpoint \/ Finish
    PROVE  IInv'
<1>1. UNCHANGED <<task, mapped, gate, sender, mail, history, otherVars>>
  BY DEF Cut, Checkpoint, Finish
<1>2. pc \in InTurn /\ Sent' = Sent
  BY <1>1 DEF Cut, Checkpoint, Finish, InTurn, Sent
<1>3. TypeOK'
  <2>1. CASE Cut
    BY <1>1, <2>1, TodoTypes DEF Cut, Ends, IInv, TypeOK, otherVars
  <2>2. CASE Checkpoint
    BY <1>1, <2>2 DEF Checkpoint, IInv, TypeOK, otherVars, InTurn
  <2>3. CASE Finish
    BY <1>1, <2>3, NextRoundTypes, TodoTypes
    DEF Finish, Ends, IInv, TypeOK, otherVars, InTurn
  <2> QED BY <2>1, <2>2, <2>3
<1>4. Drained' => Drained
  BY <1>1, <1>2 DEF Drained
<1>5. GateHeld' => batch' = mail
  BY <1>1, NextRoundTypes DEF Cut, Checkpoint, Finish, Ends, GateHeld, IInv
<1>6. Kept' /\ DrainSeesAll' /\ NoneLeft'
  BY <1>1, <1>2, <1>4, <1>5 DEF IInv, Kept, DrainSeesAll, NoneLeft, otherVars
<1>7. GateFollowsChild'
  BY <1>1, NextRoundTypes
  DEF IInv, GateFollowsChild, InTurn, Cut, Checkpoint, Finish, Ends
<1> QED BY <1>3, <1>6, <1>7 DEF IInv

(* A row moves out of the mailbox and out of the batch together, or the    *)
(* turn is cut.                                                            *)
LEMMA DrainRowKeeps ==
    ASSUME IInv, DrainRow
    PROVE  IInv'
<1>1. /\ UNCHANGED <<task, mapped, rounds, otherVars, gate, sender>>
      /\ pc \in {"steering", "closing"}
  BY DEF DrainRow
<1>2. PICK r \in batch :
         \/ /\ r \in mail
            /\ mail' = mail \ {r}
            /\ history' = history \cup {r}
            /\ batch' = batch \ {r}
            /\ injected' = TRUE
            /\ UNCHANGED <<pc, outcome, todo>>
         \/ /\ Ends("cut", AfterRun)
            /\ UNCHANGED <<mail, history, injected>>
  BY DEF DrainRow
<1>3. TypeOK'
  BY <1>1, <1>2, TodoTypes DEF IInv, TypeOK, Ends, otherVars
<1>4. Sent' = Sent /\ (Drained' => Drained)
  BY <1>1, <1>2 DEF Sent, Drained, InTurn, Ends
<1>5. Kept' /\ DrainSeesAll' /\ NoneLeft'
  BY <1>1, <1>2, <1>4
  DEF IInv, Kept, DrainSeesAll, NoneLeft, GateHeld, Ends, otherVars
<1>6. GateFollowsChild'
  BY <1>1, <1>2 DEF IInv, GateFollowsChild, InTurn, Ends
<1> QED BY <1>3, <1>5, <1>6 DEF IInv

(* The final drain that moved nothing found no message, and none can have  *)
(* come since it began.                                                    *)
LEMMA DrainDoneKeeps ==
    ASSUME IInv, DrainDone
    PROVE  IInv'
<1>1. /\ UNCHANGED <<task, mapped, injected, otherVars, mail, history>>
      /\ pc \in {"steering", "closing"} /\ batch = {}
  BY DEF DrainDone
<1>2. CASE /\ pc = "closing"
           /\ gate' = "closed" /\ NotifyWaiters
           /\ pc' = "finishing"
           /\ UNCHANGED <<rounds, batch, outcome, todo>>
  <2>1. Sent' = Sent
    BY <1>2, NotifyKeepsSent DEF IInv
  <2>2. Sent \cap mail = {}
    BY <1>1, <1>2 DEF IInv, DrainSeesAll, GateHeld, GateFollowsChild
  <2>3. TypeOK'
    BY <1>1, <1>2, NotifyKeepsSent DEF IInv, TypeOK, otherVars, InTurn
  <2>4. Kept' /\ DrainSeesAll' /\ NoneLeft'
    BY <1>1, <1>2, <2>1, <2>2
    DEF IInv, Kept, DrainSeesAll, NoneLeft, GateHeld, otherVars
  <2>5. GateFollowsChild'
    BY <1>1, <1>2 DEF IInv, GateFollowsChild, InTurn
  <2> QED BY <2>3, <2>4, <2>5 DEF IInv
<1>3. CASE NextRound /\ UNCHANGED <<gate, sender>>
  <2>1. Sent' = Sent /\ (Drained' => Drained) /\ ~GateHeld'
    BY <1>1, <1>3, NextRoundTypes DEF Sent, Drained, InTurn, GateHeld, IInv
  <2>2. TypeOK'
    BY <1>1, <1>3, NextRoundTypes DEF IInv, TypeOK, otherVars, InTurn
  <2>3. Kept' /\ DrainSeesAll' /\ NoneLeft'
    BY <1>1, <2>1 DEF IInv, Kept, DrainSeesAll, NoneLeft, otherVars
  <2>4. GateFollowsChild'
    BY <1>1, <1>3, NextRoundTypes DEF IInv, GateFollowsChild, InTurn
  <2> QED BY <2>2, <2>3, <2>4 DEF IInv
<1> QED BY <1>2, <1>3 DEF DrainDone

-----------------------------------------------------------------------------
(* The other turn only takes rows out of the mailbox, into its input or    *)
(* into the history; a notification that is added is no message.           *)
LEMMA OtherKeeps ==
    ASSUME IInv, OwnTaskEnds \/ Other
    PROVE  IInv'
<1>1. UNCHANGED <<childVars, gate, sender>>
  BY DEF OwnTaskEnds, Other, StartIfIdle, TakeRow, AppendInput, OtherSteers,
         OtherDrainsRow, OtherEnds
<1>2. TypeOK'
  <2>1. /\ mail' \subseteq Rows /\ history' \subseteq Rows /\ input' \subseteq Rows
        /\ oBatch' \subseteq Rows /\ own' \subseteq OwnTasks
    BY DEF OwnTaskEnds, Other, StartIfIdle, TakeRow, AppendInput, OtherSteers,
           OtherDrainsRow, OtherEnds, IInv, TypeOK, Rows
  <2>2. wake' \in BOOLEAN /\ other' \in {"idle", "taking", "running", "steering"}
    BY DEF OwnTaskEnds, Other, StartIfIdle, TakeRow, AppendInput, OtherSteers,
           OtherDrainsRow, OtherEnds, IInv, TypeOK
  <2> QED BY <1>1, <2>1, <2>2 DEF IInv, TypeOK, childVars
<1>3. Messages \cap mail' \subseteq mail
  BY MailboxAssumption
  DEF OwnTaskEnds, Other, StartIfIdle, TakeRow, AppendInput, OtherSteers, OtherDrainsRow,
      OtherEnds, IInv, TypeOK
<1>4. mail \cup history \cup input \subseteq mail' \cup history' \cup input'
  BY DEF OwnTaskEnds, Other, StartIfIdle, TakeRow, AppendInput, OtherSteers,
         OtherDrainsRow, OtherEnds
<1>5. Sent' = Sent /\ Sent \subseteq Messages
  BY <1>1 DEF Sent
<1>6. UNCHANGED <<GateHeld, Drained, GateFollowsChild, batch>>
  BY <1>1 DEF childVars, GateHeld, Drained, GateFollowsChild
<1>7. Kept' /\ DrainSeesAll' /\ NoneLeft'
  BY <1>3, <1>4, <1>5, <1>6 DEF IInv, Kept, DrainSeesAll, NoneLeft
<1> QED BY <1>2, <1>6, <1>7 DEF IInv

LEMMA StepKeeps == IInv /\ [Next]_vars => IInv'
<1> SUFFICES ASSUME IInv, [Next]_vars PROVE IInv'
  OBVIOUS
<1>1. CASE UNCHANGED vars
  BY <1>1 DEF vars, childVars, otherVars, IInv, TypeOK, Kept, DrainSeesAll, NoneLeft,
              GateFollowsChild, Sent, Drained, GateHeld
<1>2. CASE Next
  BY <1>2, SenderKeeps, StartsKeep, WrapsKeep, TurnKeeps, DrainRowKeeps, DrainDoneKeeps,
     OtherKeeps DEF Next, Drains
<1> QED BY <1>1, <1>2

-----------------------------------------------------------------------------
(* The invariant holds in every reachable state. *)
THEOREM Invariance == Spec => []IInv
BY InitEstablishes, StepKeeps, PTL DEF Spec

(* The handlers keep the gate, the task and the mailbox well typed. *)
THEOREM TypeCorrect == Spec => []TypeOK
<1>1. IInv => TypeOK
  BY DEF IInv
<1> QED BY <1>1, Invariance, PTL

(* drain_steering_or_close: when an agent finished, every message that     *)
(* send_agent_message accepted has been delivered.                         *)
THEOREM NothingAcceptedIsLeftBehind == Spec => []AcceptedIsDelivered
<1>1. IInv => AcceptedIsDelivered
  BY DEF IInv, Kept, NoneLeft, AcceptedIsDelivered
<1> QED BY <1>1, Invariance, PTL

=============================================================================

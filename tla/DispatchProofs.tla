--------------------------- MODULE DispatchProofs ---------------------------
(***************************************************************************)
(* Proofs about Dispatch for any submissions, any number of concurrent     *)
(* invocations and any bounds.                                             *)
(*                                                                         *)
(* The invariant has a half about control and a half about the rows.  For  *)
(* the first, a turn is live exactly while the lock row is its own         *)
(* (LockFollowsTurns), and a pending row is looked after by a call that is *)
(* due or by an invocation that is not over yet (SomebodyLooks).  For the  *)
(* second, a client_request_id has one pending row at most (OneRowEach),   *)
(* rows that were read are no younger than the pending row of the same     *)
(* request (BatchIsOld), and a request that was never stored is nowhere    *)
(* (FreshNowhere).                                                         *)
(***************************************************************************)
EXTENDS Dispatch, WellFoundedInduction, TLAPS

(* Turn numbers and row ids are taken past the greatest one so far.  That  *)
(* there is one follows from < being well-founded on the naturals: it is   *)
(* the least of their bounds.                                              *)
NatOrder == {p \in Nat \X Nat : p[1] < p[2]}

LEMMA NatOrderWellFounded == IsWellFoundedOn(NatOrder, Nat)
<1>1. OpToRel(<, Nat) = NatOrder
  BY DEF OpToRel, NatOrder
<1> QED BY <1>1, NatLessThanWellFounded, Zenon

LEMMA LeastExists ==
    ASSUME NEW S \in SUBSET Nat, S # {}
    PROVE  \E n \in S : \A m \in S : n <= m
<1>1. PICK n \in S : \A m \in S : <<m, n>> \notin NatOrder
  BY NatOrderWellFounded, WFMin
<1>2. ASSUME NEW m \in S PROVE n <= m
  <2>1. m \in Nat /\ n \in Nat
    OBVIOUS
  <2>2. <<m, n>> \in NatOrder <=> m < n
    BY <2>1 DEF NatOrder
  <2> QED BY <1>1, <2>1, <2>2
<1> QED BY <1>2

LEMMA GreatestExists ==
    ASSUME NEW S \in SUBSET Nat, S # {}, NEW k \in Nat, \A n \in S : n <= k
    PROVE  \E n \in S : \A m \in S : m <= n
<1> DEFINE B == {b \in Nat : \A n \in S : n <= b}
<1>1. B \in SUBSET Nat /\ k \in B
  OBVIOUS
<1>2. PICK b \in B : \A c \in B : b <= c
  BY <1>1, LeastExists, Zenon
<1>3. b \in Nat /\ \A n \in S : n <= b
  BY <1>2
<1>4. ASSUME b \notin S PROVE FALSE
  <2>1. \A n \in S : n \in Nat /\ n <= b - 1
    BY <1>3, <1>4
  <2>2. PICK x \in S : x \in Nat
    OBVIOUS
  <2>3. b - 1 \in B
    BY <1>3, <2>1, <2>2
  <2> QED BY <1>2, <1>3, <2>3
<1> QED BY <1>3, <1>4

(* Ids and turn numbers have a greatest one; it is where NextId goes on.   *)
Bounded ==
    /\ \E k \in Nat : \A r \in mail : r.id <= k
    /\ \E k \in Nat : \A e \in entries : e.id <= k /\ e.turn <= k

RoundsCounted ==
    \A t \in Turns : /\ pc[t] \in {"read", "claimed", "taking", "persisting"} => rounds[t] = 0
                     /\ pc[t] = "round" => rounds[t] < MaxRounds

LockFollowsTurns ==
    /\ \A t \in Turns : Live(t) <=> lock = t
    /\ lock \in {DeadTurn, StaleTurn} => faults > 0 \/ crashes > 0

SomebodyLooks ==
    up /\ mail # {} =>
        \/ calls > 0
        \/ \E t \in Turns : pc[t] # "free"
        \/ abandoned \/ faults > 0 \/ lock \in {DeadTurn, StaleTurn}

InputHeld == \A t \in Turns : input[t] # {} => pc[t] \in {"taking", "persisting"}

ControlInv ==
    TypeOK /\ Bounded /\ RoundsCounted /\ LockFollowsTurns /\ SomebodyLooks /\ InputHeld

OneRowEach == \A q, r \in mail : q.sub = r.sub => q = r

BatchIsOld ==
    /\ \A r \in mail : r.nth <= retries[r.sub]
    /\ \A t \in Turns : \A b \in batch[t] :
          /\ b.nth <= retries[b.sub]
          /\ \A r \in mail : b.sub = r.sub => b.nth <= r.nth

Fresh(s) == client[s] \in {"new", "checked"} /\ retries[s] = 0

FreshNowhere ==
    \A s \in Subs : Fresh(s) =>
        /\ s \notin SubsOf(mail) \cup InHistory
        /\ \A t \in Turns : s \notin SubsOf(batch[t]) \cup SubsOf(input[t])

DeliveredAccounted ==
    crashes = 0 /\ faults = 0 => \A s \in delivered : Accounted(s)

RowsInv ==
    /\ OneRowEach
    /\ BatchIsOld
    /\ FreshNowhere
    /\ OnePlace
    /\ DeliveredAccounted
    /\ NothingLostWithoutFaults

IInv == ControlInv /\ RowsInv

-----------------------------------------------------------------------------
(* The id of the next row is past all of them. *)
LEMMA NextIdFollows ==
    ASSUME NEW table, \A r \in table : r.id \in Nat,
           NEW k \in Nat, \A r \in table : r.id <= k
    PROVE  NextId(table) \in Nat /\ NextId(table) <= k + 1
<1>1. CASE table = {}
  BY <1>1 DEF NextId
<1>2. CASE table # {}
  <2> DEFINE ids == {r.id : r \in table}
  <2>1. ids \in SUBSET Nat /\ ids # {} /\ \A n \in ids : n <= k
    BY <1>2
  <2>2. \E n \in ids : \A m \in ids : m <= n
    BY <2>1, GreatestExists, Zenon
  <2>3. \E n \in ids : \A r \in table : r.id <= n
    BY <2>2
  <2> DEFINE last == CHOOSE n \in ids : \A r \in table : r.id <= n
  <2>4. last \in ids
    BY <2>3
  <2>5. last \in Nat /\ last <= k
    BY <2>1, <2>4
  <2>6. NextId(table) = 1 + last
    BY <1>2 DEF NextId
  <2> HIDE DEF last
  <2> QED BY <2>5, <2>6
<1> QED BY <1>1, <1>2

LEMMA LastTurnBounded ==
    ASSUME \A e \in entries : e.turn \in Nat, NEW k \in Nat, \A e \in entries : e.turn <= k
    PROVE  LastTurn \in Nat
<1>1. CASE entries = {}
  BY <1>1 DEF LastTurn
<1>2. CASE entries # {}
  <2> DEFINE turns == {e.turn : e \in entries}
  <2>1. turns \in SUBSET Nat /\ turns # {} /\ \A n \in turns : n <= k
    BY <1>2
  <2>2. \E n \in turns : \A m \in turns : m <= n
    BY <2>1, GreatestExists, Zenon
  <2>3. \E n \in turns : \A e \in entries : e.turn <= n
    BY <2>2
  <2> DEFINE last == CHOOSE n \in turns : \A e \in entries : e.turn <= n
  <2>4. last \in turns
    BY <2>3
  <2>5. LastTurn = last
    BY <1>2 DEF LastTurn
  <2> HIDE DEF last
  <2> QED BY <2>1, <2>4, <2>5
<1> QED BY <1>1, <1>2

LEMMA InitEstablishes == Init => IInv
<1> SUFFICES ASSUME Init PROVE IInv
  OBVIOUS
<1>1. TypeOK
  <2>1. {0} \subseteq 0..MaxRounds \cap 0..MaxRetries \cap 0..MaxRewinds
                     \cap 0..MaxCompacts \cap 0..MaxCrashes \cap 0..MaxFaults
    BY ConstantsAssumption
  <2> QED BY <2>1 DEF Init, TypeOK, PCs
<1>2. Bounded /\ RoundsCounted /\ SomebodyLooks /\ InputHeld
  BY DEF Init, Bounded, RoundsCounted, SomebodyLooks, InputHeld
<1>3. LockFollowsTurns
  BY ConstantsAssumption DEF Init, LockFollowsTurns, Live
<1>4. RowsInv
  BY DEF Init, RowsInv, OneRowEach, BatchIsOld, FreshNowhere, Fresh, OnePlace,
         DeliveredAccounted, NothingLostWithoutFaults, SubsOf, InHistory
<1> QED BY <1>1, <1>2, <1>3, <1>4 DEF IInv, ControlInv

-----------------------------------------------------------------------------
(* What steps have in common                                               *)

(* A step that neither adds a row nor moves one: batches are read from the *)
(* mailbox, memory is only lost with a crash or a fault, and an answer     *)
(* without a row is one for a request that is delivered or pending.        *)
QuietRows ==
    /\ UNCHANGED <<mail, entries, withdrawn>>
    /\ \A t \in Turns : /\ batch'[t] \subseteq batch[t] \cup mail
                        /\ input'[t] \subseteq input[t]
                        /\ input'[t] = input[t] \/ crashes' > 0 \/ faults' > 0
    /\ delivered' \subseteq delivered
    /\ \A s \in Subs : /\ retries'[s] >= retries[s]
                       /\ Fresh(s)' => Fresh(s)
                       /\ client'[s] = "acked" => \/ client[s] = "acked"
                                                  \/ s \in delivered \cup SubsOf(mail)
    /\ crashes' >= crashes /\ faults' >= faults

(* A row leaves the mailbox for a place.  This is what RowsLeaveForAPlace  *)
(* comes from.                                                             *)
Placed == \A s \in SubsOf(mail) : Accounted(s)'

LEMMA AccountedKept ==
    ASSUME TypeOK, TypeOK', DeliveredAccounted, NothingLostWithoutFaults,
           crashes' >= crashes /\ faults' >= faults,
           crashes' = 0 /\ faults' = 0 =>
               /\ \A s \in Subs : Accounted(s) => Accounted(s)'
               /\ \A s \in delivered' : s \in delivered \/ Accounted(s)'
               /\ \A s \in Subs : client'[s] = "acked" =>
                      client[s] = "acked" \/ s \in delivered \/ Accounted(s)'
    PROVE  DeliveredAccounted' /\ NothingLostWithoutFaults'
<1>1. crashes \in Nat /\ faults \in Nat /\ crashes' \in Nat /\ faults' \in Nat
  BY ConstantsAssumption DEF TypeOK
<1>2. crashes' = 0 /\ faults' = 0 => crashes = 0 /\ faults = 0
  BY <1>1
<1>3. delivered \subseteq Subs /\ delivered' \subseteq Subs
  BY DEF TypeOK
<1> QED BY <1>2, <1>3 DEF DeliveredAccounted, NothingLostWithoutFaults

LEMMA QuietRowsKeep ==
    ASSUME TypeOK, TypeOK', RowsInv, QuietRows
    PROVE  RowsInv' /\ Placed
<1>1. OneRowEach'
  BY DEF RowsInv, OneRowEach, QuietRows
<1>2. \A t \in Turns : \A b \in batch'[t] : b \in Row /\ (b \in batch[t] \/ b \in mail)
  BY DEF QuietRows, TypeOK
<1>3. BatchIsOld'
  <2>1. \A r \in mail : r.sub \in Subs /\ r.nth \in Nat
    BY ConstantsAssumption DEF TypeOK, Row
  <2>2. \A t \in Turns : \A b \in batch'[t] : b.sub \in Subs /\ b.nth \in Nat
    BY <1>2, ConstantsAssumption DEF Row
  <2>3. \A s \in Subs : retries[s] \in Nat /\ retries'[s] \in Nat /\ retries[s] <= retries'[s]
    BY ConstantsAssumption DEF TypeOK, QuietRows
  <2>4. \A r \in mail : r.nth <= retries'[r.sub]
    BY <2>1, <2>3 DEF RowsInv, BatchIsOld
  <2>5. \A t \in Turns : \A b \in batch'[t] : b.nth <= retries'[b.sub]
    BY <1>2, <2>2, <2>3, <2>4 DEF RowsInv, BatchIsOld
  <2>6. \A t \in Turns : \A b \in batch'[t] : \A r \in mail : b.sub = r.sub => b.nth <= r.nth
    BY <1>2, <2>1 DEF RowsInv, BatchIsOld, OneRowEach
  <2> QED BY <2>4, <2>5, <2>6 DEF BatchIsOld, QuietRows
<1>4. FreshNowhere'
  <2>1. \A s \in Subs, t \in Turns : /\ s \in SubsOf(batch'[t]) => s \in SubsOf(batch[t])
                                                                    \cup SubsOf(mail)
                                     /\ s \in SubsOf(input'[t]) => s \in SubsOf(input[t])
    BY <1>2 DEF QuietRows, SubsOf
  <2>2. UNCHANGED <<SubsOf(mail), InHistory>>
    BY DEF QuietRows, SubsOf, InHistory
  <2> QED BY <2>1, <2>2 DEF RowsInv, FreshNowhere, QuietRows
<1>5. OnePlace'
  <2>1. \A t \in Turns : SubsOf(input'[t]) \subseteq SubsOf(input[t])
    BY DEF QuietRows, SubsOf
  <2> QED BY <2>1 DEF RowsInv, OnePlace, QuietRows, InHistory
<1>6. Placed
  BY DEF Placed, Accounted, QuietRows, SubsOf
<1>7. crashes' = 0 /\ faults' = 0 => \A s \in Subs : Accounted(s) => Accounted(s)'
  BY DEF Accounted, QuietRows, SubsOf, InHistory
<1>8. DeliveredAccounted' /\ NothingLostWithoutFaults'
  BY <1>6, <1>7, AccountedKept DEF QuietRows, RowsInv, Placed
<1> QED BY <1>1, <1>3, <1>4, <1>5, <1>6, <1>8 DEF RowsInv

(* A live turn that goes on living keeps the row of the lock.              *)
LEMMA StaysLive ==
    ASSUME ControlInv, NEW t \in Turns, Live(t), Live(t)',
           \A u \in Turns \ {t} : pc'[u] = pc[u],
           UNCHANGED lock, faults > 0 => faults' > 0, crashes' = crashes
    PROVE  LockFollowsTurns' /\ SomebodyLooks'
<1>1. pc'[t] # "free"
  BY DEF Live
<1> QED BY <1>1 DEF ControlInv, LockFollowsTurns, SomebodyLooks, Live

LEMMA NoRowAdded ==
    ASSUME Bounded, mail' \subseteq mail, entries' \subseteq entries
    PROVE  Bounded'
BY DEF Bounded

-----------------------------------------------------------------------------
(* A turn that goes on without moving a row                                *)

TurnGoesOn(t) ==
    \/ BeginTurn(t) \/ InputPersisted(t) \/ Round(t) \/ RoundStops(t) \/ DrainDone(t)
    \/ WaitForTurnTasks(t) \/ CompactDone(t) \/ TurnFails(t)

LEMMA SteersPending == TypeOK => Steers \subseteq mail /\ Steers \subseteq Row
BY DEF TypeOK, Steers

LEMMA TurnGoesOnTypes ==
    ASSUME ControlInv, NEW t \in Turns, TurnGoesOn(t)
    PROVE  TypeOK'
<1> USE DEF ControlInv, TypeOK, userVars, envVars, PCs
<1>1. CASE BeginTurn(t)
  <2>1. LastTurn \in Nat
    BY LastTurnBounded DEF Bounded
  <2> QED BY <1>1, <2>1 DEF BeginTurn, Goto
<1>2. CASE InputPersisted(t)
  BY <1>2 DEF InputPersisted, Goto
<1>3. CASE Round(t)
  <2>1. rounds[t] + 1 \in 0..MaxRounds
    BY <1>3, ConstantsAssumption DEF Round, RoundsCounted
  <2> QED BY <1>3, <2>1, SteersPending DEF Round, Goto
<1>4. CASE RoundStops(t)
  BY <1>4 DEF RoundStops, Goto
<1>5. CASE DrainDone(t)
  BY <1>5 DEF DrainDone, Goto
<1>6. CASE WaitForTurnTasks(t)
  BY <1>6, SteersPending DEF WaitForTurnTasks
<1>7. CASE CompactDone(t)
  BY <1>7 DEF CompactDone, Goto
<1>8. CASE TurnFails(t)
  <2>1. faults + 1 \in 0..MaxFaults
    BY <1>8, ConstantsAssumption DEF TurnFails
  <2> QED BY <1>8, <2>1 DEF TurnFails, Goto
<1> QED BY <1>1, <1>2, <1>3, <1>4, <1>5, <1>6, <1>7, <1>8 DEF TurnGoesOn

LEMMA TurnGoesOnKeeps ==
    ASSUME IInv, NEW t \in Turns, TurnGoesOn(t)
    PROVE  IInv' /\ Placed
<1>1. TypeOK /\ TypeOK'
  BY TurnGoesOnTypes DEF IInv, ControlInv
<1>2. /\ UNCHANGED <<mail, entries, lock, calls, userVars, delivered, abandoned, up, crashes>>
      /\ faults' >= faults
      /\ \A u \in Turns \ {t} : /\ pc'[u] = pc[u] /\ rounds'[u] = rounds[u]
                                /\ input'[u] = input[u] /\ batch'[u] = batch[u]
      /\ Live(t) /\ Live(t)'
  BY <1>1, ConstantsAssumption
  DEF TurnGoesOn, BeginTurn, InputPersisted, Round, RoundStops, DrainDone,
      WaitForTurnTasks, CompactDone, TurnFails, Goto, Live, TypeOK, envVars
<1>3. /\ batch'[t] \subseteq batch[t] \cup mail
      /\ \/ input'[t] = input[t]
         \/ input'[t] = {} /\ faults' > 0
      /\ input[t] # {} /\ input'[t] # {} => pc[t] = "taking" /\ pc'[t] = "persisting"
  BY <1>1, SteersPending, ConstantsAssumption
  DEF TurnGoesOn, BeginTurn, InputPersisted, Round, RoundStops, DrainDone,
      WaitForTurnTasks, CompactDone, TurnFails, Goto, TypeOK, IInv, ControlInv, InputHeld
<1>4. /\ pc'[t] = "persisting" => rounds'[t] = 0
      /\ pc'[t] = "round" => rounds'[t] < MaxRounds
      /\ pc'[t] \notin {"read", "claimed", "taking"}
  BY <1>1, ConstantsAssumption
  DEF TurnGoesOn, BeginTurn, InputPersisted, Round, RoundStops, DrainDone,
      WaitForTurnTasks, CompactDone, TurnFails, Goto, TypeOK, IInv, ControlInv, RoundsCounted
<1>5. RoundsCounted' /\ InputHeld' /\ Bounded'
  BY <1>2, <1>3, <1>4 DEF IInv, ControlInv, RoundsCounted, InputHeld, Bounded
<1>6. LockFollowsTurns' /\ SomebodyLooks'
  <2>1. faults > 0 => faults' > 0
    BY <1>1, <1>2, ConstantsAssumption DEF TypeOK
  <2> QED BY <1>2, <2>1, StaysLive DEF IInv
<1>7. QuietRows
  <2>1. \A s \in Subs : retries'[s] >= retries[s]
    BY <1>1, <1>2, ConstantsAssumption DEF TypeOK, userVars
  <2>2. crashes' >= crashes
    BY <1>1, <1>2, ConstantsAssumption DEF TypeOK
  <2> QED BY <1>2, <1>3, <2>1, <2>2 DEF QuietRows, userVars, Fresh
<1> QED BY <1>1, <1>5, <1>6, <1>7, QuietRowsKeep DEF IInv, ControlInv

-----------------------------------------------------------------------------
(* Starts and ends of invocations                                          *)

TurnUnchanged(u) ==
    /\ pc'[u] = pc[u] /\ rounds'[u] = rounds[u] /\ input'[u] = input[u]
    /\ batch'[u] = batch[u]

TurnTypes ==
    /\ pc \in [Turns -> PCs]
    /\ batch \in [Turns -> SUBSET Row]
    /\ input \in [Turns -> SUBSET Row]
    /\ seqno \in [Turns -> Nat]
    /\ rounds \in [Turns -> 0..MaxRounds]
    /\ injected \in [Turns -> BOOLEAN]
    /\ waited \in [Turns -> BOOLEAN]

(* The invocation is over, or has read what is pending. *)
LEMMA LeaveEffect ==
    ASSUME TypeOK, NEW t \in Turns, Leave(t)
    PROVE  /\ TurnTypes'
           /\ pc'[t] = "free" /\ batch'[t] = {} /\ input'[t] = {}
           /\ \A u \in Turns \ {t} : TurnUnchanged(u)
BY ConstantsAssumption DEF TypeOK, TurnTypes, Leave, Goto, PCs, TurnUnchanged

LEMMA ReadPendingEffect ==
    ASSUME TypeOK, NEW t \in Turns, ReadPending(t)
    PROVE  /\ TurnTypes'
           /\ UNCHANGED <<mail, entries, lock, userVars, delivered, envVars>>
           /\ \A u \in Turns \ {t} : TurnUnchanged(u)
           /\ input'[t] = {} /\ rounds'[t] = 0
           /\ batch'[t] = mail
           /\ pc'[t] = IF mail = {} THEN "free" ELSE "read"
<1>1. CASE mail = {}
  <2>1. Leave(t) /\ rounds'[t] = 0
    BY <1>1 DEF ReadPending, Leave, TypeOK
  <2> QED BY <1>1, <2>1, LeaveEffect DEF ReadPending
<1>2. CASE mail # {}
  <2>1. /\ pc' = [pc EXCEPT ![t] = "read"] /\ batch' = [batch EXCEPT ![t] = mail]
        /\ input' = [input EXCEPT ![t] = {}] /\ rounds' = [rounds EXCEPT ![t] = 0]
        /\ seqno' = [seqno EXCEPT ![t] = 0] /\ injected' = [injected EXCEPT ![t] = FALSE]
        /\ waited' = [waited EXCEPT ![t] = FALSE]
        /\ UNCHANGED <<mail, entries, lock, userVars, delivered, envVars>>
    BY <1>2 DEF ReadPending, Goto
  <2>2. 0 \in 0..MaxRounds /\ mail \in SUBSET Row
    BY ConstantsAssumption DEF TypeOK
  <2>3. TurnTypes'
    BY <2>1, <2>2 DEF TypeOK, TurnTypes, PCs
  <2> QED BY <1>2, <2>1, <2>3 DEF TypeOK, TurnUnchanged
<1> QED BY <1>1, <1>2

LEMMA CallsRead ==
    ASSUME IInv, NEW t \in Turns, Call(t) \/ Recheck(t)
    PROVE  IInv' /\ Placed
<1>1. TypeOK
  BY DEF IInv, ControlInv
<1>2. /\ pc[t] \in {"free", "released"} /\ ReadPending(t)
      /\ calls' \in Nat /\ abandoned' \in BOOLEAN
  <2>1. CASE Call(t)
    BY <1>1, <2>1 DEF Call, TypeOK
  <2>2. CASE Recheck(t)
    BY <1>1, <2>2 DEF Recheck, TypeOK
  <2> QED BY <2>1, <2>2
<1>3. /\ TurnTypes'
      /\ UNCHANGED <<mail, entries, lock, userVars, delivered, envVars>>
      /\ \A u \in Turns \ {t} : TurnUnchanged(u)
      /\ input'[t] = {} /\ rounds'[t] = 0
      /\ batch'[t] = mail
      /\ pc'[t] = IF mail = {} THEN "free" ELSE "read"
  BY <1>1, <1>2, ReadPendingEffect
<1>4. TypeOK'
  BY <1>1, <1>2, <1>3 DEF TypeOK, TurnTypes, userVars, envVars
<1>5. RoundsCounted' /\ InputHeld' /\ Bounded'
  BY <1>3 DEF IInv, ControlInv, RoundsCounted, InputHeld, Bounded, TurnUnchanged
<1>6. LockFollowsTurns'
  BY <1>2, <1>3 DEF IInv, ControlInv, LockFollowsTurns, Live, TurnUnchanged, envVars
<1>7. SomebodyLooks'
  BY <1>3 DEF SomebodyLooks
<1>8. QuietRows
  <2>1. input[t] = {}
    BY <1>2 DEF IInv, ControlInv, InputHeld
  <2>2. (\A s \in Subs : retries'[s] >= retries[s]) /\ crashes' >= crashes /\ faults' >= faults
    BY <1>1, <1>3, ConstantsAssumption DEF TypeOK, userVars, envVars
  <2> QED BY <1>3, <2>1, <2>2 DEF QuietRows, userVars, envVars, Fresh, TurnUnchanged
<1> QED BY <1>1, <1>4, <1>5, <1>6, <1>7, <1>8, QuietRowsKeep DEF IInv, ControlInv

(* The claim: with the lock row, or not at all.  Whoever has it is live    *)
(* and will look again.                                                    *)
LEMMA ClaimKeeps ==
    ASSUME IInv, NEW t \in Turns, Claim(t)
    PROVE  IInv' /\ Placed
<1>1. TypeOK
  BY DEF IInv, ControlInv
<1>2. /\ UNCHANGED <<mail, entries, calls, userVars, delivered, abandoned, envVars>>
      /\ pc[t] = "read" /\ input[t] = {}
  BY DEF Claim, IInv, ControlInv, InputHeld
<1>3. QuietRows /\ TypeOK'
  <2>1. TurnTypes' /\ lock' \in {lock, t} /\ batch'[t] \subseteq batch[t]
        /\ input'[t] = {} /\ \A u \in Turns \ {t} : TurnUnchanged(u)
    BY <1>1, <1>2, LeaveEffect DEF Claim, TypeOK, TurnTypes, Goto, PCs, TurnUnchanged
  <2>2. (\A s \in Subs : retries'[s] >= retries[s]) /\ crashes' >= crashes /\ faults' >= faults
    BY <1>1, <1>2, ConstantsAssumption DEF TypeOK, userVars, envVars
  <2>3. TypeOK'
    BY <1>1, <1>2, <2>1 DEF TypeOK, TurnTypes, userVars, envVars
  <2> QED BY <1>2, <2>1, <2>2, <2>3 DEF QuietRows, userVars, envVars, Fresh, TurnUnchanged
<1>4. Bounded'
  BY <1>2 DEF IInv, ControlInv, Bounded
<1>5. CASE lock \in {NoTurn, StaleTurn}
  <2>1. /\ lock' = t /\ pc' = [pc EXCEPT ![t] = "claimed"]
        /\ UNCHANGED <<input, rounds>>
    BY <1>5 DEF Claim, Goto
  <2>2. \A u \in Turns : ~Live(u)
    BY <1>5, ConstantsAssumption DEF IInv, ControlInv, LockFollowsTurns
  <2>3. LockFollowsTurns'
    BY <1>1, <2>1, <2>2, ConstantsAssumption DEF LockFollowsTurns, Live, TypeOK
  <2>4. SomebodyLooks' /\ RoundsCounted' /\ InputHeld'
    BY <1>1, <1>2, <2>1 DEF SomebodyLooks, RoundsCounted, InputHeld, TypeOK, IInv, ControlInv
  <2> QED BY <1>1, <1>3, <1>4, <2>3, <2>4, QuietRowsKeep DEF IInv, ControlInv
<1>6. CASE lock \notin {NoTurn, StaleTurn}
  <2>1. lock' = lock /\ Leave(t)
    BY <1>6 DEF Claim
  <2>2. /\ pc'[t] = "free" /\ input'[t] = {} /\ \A u \in Turns \ {t} : TurnUnchanged(u)
    BY <1>1, <2>1, LeaveEffect
  <2>3. LockFollowsTurns'
    BY <1>2, <2>1, <2>2
    DEF IInv, ControlInv, LockFollowsTurns, Live, TurnUnchanged, envVars
  <2>4. SomebodyLooks'
    <3>1. CASE lock \in Turns
      <4>1. Live(lock) /\ lock # t
        BY <1>2, <3>1 DEF IInv, ControlInv, LockFollowsTurns, Live
      <4> QED BY <3>1, <4>1, <2>2 DEF SomebodyLooks, Live, TurnUnchanged
    <3>2. CASE lock = DeadTurn
      BY <2>1, <3>2 DEF SomebodyLooks
    <3> QED BY <1>1, <1>6, <3>1, <3>2 DEF TypeOK
  <2>5. RoundsCounted' /\ InputHeld'
    BY <2>2 DEF IInv, ControlInv, RoundsCounted, InputHeld, TurnUnchanged
  <2> QED BY <1>1, <1>3, <1>4, <2>3, <2>4, <2>5, QuietRowsKeep DEF IInv, ControlInv
<1> QED BY <1>5, <1>6

(* Every row is decoded: the turn takes them, or drops its claim.          *)
LEMMA DecodedKeeps ==
    ASSUME IInv, NEW t \in Turns, Decoded(t)
    PROVE  IInv' /\ Placed
<1>1. TypeOK
  BY DEF IInv, ControlInv
<1>2. /\ UNCHANGED <<mail, entries, calls, userVars, delivered, envVars>>
      /\ pc[t] = "claimed" /\ input[t] = {} /\ rounds[t] = 0 /\ lock = t
  BY DEF Decoded, IInv, ControlInv, InputHeld, RoundsCounted, LockFollowsTurns, Live
<1>3. CASE pc' = [pc EXCEPT ![t] = "taking"]
           /\ UNCHANGED <<batch, lock, input, seqno, rounds, injected, waited, abandoned>>
  <2>1. TypeOK'
    BY <1>1, <1>2, <1>3 DEF TypeOK, PCs, userVars, envVars
  <2>2. LockFollowsTurns' /\ SomebodyLooks'
    BY <1>1, <1>2, <1>3, StaysLive DEF IInv, TypeOK, Live, envVars
  <2>3. RoundsCounted' /\ InputHeld' /\ Bounded'
    BY <1>1, <1>2, <1>3 DEF IInv, ControlInv, RoundsCounted, InputHeld, Bounded, TypeOK
  <2>4. QuietRows
    BY <1>1, <1>2, <1>3, ConstantsAssumption
    DEF QuietRows, userVars, envVars, Fresh, TypeOK
  <2> QED BY <1>1, <2>1, <2>2, <2>3, <2>4, QuietRowsKeep DEF IInv, ControlInv
<1>4. CASE DropGuard(t) /\ Leave(t) /\ abandoned' = TRUE
  <2>1. /\ TurnTypes' /\ pc'[t] = "free" /\ batch'[t] = {} /\ input'[t] = {}
        /\ \A u \in Turns \ {t} : TurnUnchanged(u)
        /\ lock' = NoTurn
    BY <1>1, <1>2, <1>4, LeaveEffect DEF DropGuard
  <2>2. TypeOK'
    BY <1>1, <1>2, <1>4, <2>1 DEF TypeOK, TurnTypes, userVars, envVars
  <2>3. LockFollowsTurns'
    BY <1>2, <2>1, ConstantsAssumption
    DEF IInv, ControlInv, LockFollowsTurns, Live, TurnUnchanged
  <2>4. SomebodyLooks' /\ RoundsCounted' /\ InputHeld' /\ Bounded'
    BY <1>2, <1>4, <2>1
    DEF IInv, ControlInv, SomebodyLooks, RoundsCounted, InputHeld, Bounded, TurnUnchanged
  <2>5. QuietRows
    <3>1. /\ \A s \in Subs : retries'[s] >= retries[s]
          /\ crashes' >= crashes /\ faults' >= faults
      BY <1>1, <1>2, ConstantsAssumption DEF TypeOK, userVars, envVars
    <3> QED BY <1>2, <2>1, <3>1 DEF QuietRows, userVars, Fresh, TurnUnchanged
  <2> QED BY <1>1, <2>2, <2>3, <2>4, <2>5, QuietRowsKeep DEF IInv, ControlInv
<1> QED BY <1>3, <1>4 DEF Decoded, Goto

(* An error before the turn runs: the guard is dropped, the input          *)
(* forgotten.                                                              *)
LEMMA StartFailsKeeps ==
    ASSUME IInv, NEW t \in Turns, StartFails(t)
    PROVE  IInv' /\ Placed
<1>1. TypeOK
  BY DEF IInv, ControlInv
<1>2. /\ UNCHANGED <<mail, entries, calls, userVars, delivered, abandoned, up, crashes>>
      /\ faults' > 0 /\ faults' > faults /\ faults' \in 0..MaxFaults
      /\ DropGuard(t) /\ Leave(t)
  BY <1>1, ConstantsAssumption DEF StartFails, TypeOK
<1>3. /\ TurnTypes' /\ pc'[t] = "free" /\ batch'[t] = {} /\ input'[t] = {}
      /\ \A u \in Turns \ {t} : TurnUnchanged(u)
  BY <1>1, <1>2, LeaveEffect
<1>4. TypeOK'
  BY <1>1, <1>2, <1>3 DEF TypeOK, TurnTypes, DropGuard, userVars
<1>5. LockFollowsTurns'
  BY <1>2, <1>3, ConstantsAssumption
  DEF IInv, ControlInv, LockFollowsTurns, Live, TurnUnchanged, DropGuard
<1>6. SomebodyLooks' /\ RoundsCounted' /\ InputHeld' /\ Bounded'
  BY <1>2, <1>3
  DEF IInv, ControlInv, SomebodyLooks, RoundsCounted, InputHeld, Bounded, TurnUnchanged
<1>7. QuietRows
  <2>1. /\ \A s \in Subs : retries'[s] >= retries[s]
        /\ crashes' >= crashes /\ faults' >= faults
    BY <1>1, <1>2, ConstantsAssumption DEF TypeOK, userVars
  <2> QED BY <1>2, <1>3, <2>1 DEF QuietRows, userVars, Fresh, TurnUnchanged
<1> QED BY <1>1, <1>4, <1>5, <1>6, <1>7, QuietRowsKeep DEF IInv, ControlInv

(* Manual compaction claims the row; a turn that finished gives it back.   *)
LEMMA LockMovesKeep ==
    ASSUME IInv, NEW t \in Turns, Compact(t) \/ Release(t) \/ ReleaseFails(t)
    PROVE  IInv' /\ Placed
<1>1. TypeOK
  BY DEF IInv, ControlInv
<1>2. /\ UNCHANGED <<mail, entries, batch, input, seqno, rounds, injected, waited, calls,
                     client, retries, withdrawn, rewind, delivered, abandoned, up, crashes>>
      /\ faults' \in 0..MaxFaults /\ faults' >= faults
      /\ compacts' \in 0..MaxCompacts
  <2>1. CASE Compact(t)
    BY <1>1, <2>1, ConstantsAssumption DEF Compact, TypeOK, envVars
  <2>2. CASE Release(t)
    BY <1>1, <2>2, ConstantsAssumption DEF Release, TypeOK, envVars, userVars
  <2>3. CASE ReleaseFails(t)
    BY <1>1, <2>3, ConstantsAssumption DEF ReleaseFails, TypeOK, userVars
  <2> QED BY <2>1, <2>2, <2>3
<1>3. /\ pc[t] \in {"free", "finished"} /\ input[t] = {}
      /\ pc' = [pc EXCEPT ![t] = IF pc[t] = "free" THEN "compacting" ELSE "released"]
  BY DEF Compact, Release, ReleaseFails, Goto, IInv, ControlInv, InputHeld
<1>4. /\ lock' \in {t, NoTurn, DeadTurn, lock}
      /\ \/ pc[t] = "free" /\ lock \in {NoTurn, StaleTurn} /\ lock' = t
         \/ pc[t] = "finished" /\ lock = t /\ lock' = NoTurn
         \/ pc[t] = "finished" /\ lock = t /\ lock' = DeadTurn /\ faults' > 0
  BY <1>1, ConstantsAssumption
  DEF Compact, Release, ReleaseFails, DropGuard, IInv, ControlInv, LockFollowsTurns, Live,
      TypeOK
<1>5. TypeOK'
  BY <1>1, <1>2, <1>3, <1>4 DEF TypeOK, PCs
<1>6. LockFollowsTurns'
  <2>1. \A u \in Turns \ {t} : pc'[u] = pc[u]
    BY <1>1, <1>3 DEF TypeOK
  <2>2. pc'[t] = IF pc[t] = "free" THEN "compacting" ELSE "released"
    BY <1>1, <1>3 DEF TypeOK
  <2> QED BY <1>1, <1>2, <1>4, <2>1, <2>2, ConstantsAssumption
      DEF IInv, ControlInv, LockFollowsTurns, Live, TypeOK
<1>7. SomebodyLooks' /\ RoundsCounted' /\ InputHeld' /\ Bounded'
  BY <1>1, <1>2, <1>3
  DEF IInv, ControlInv, SomebodyLooks, RoundsCounted, InputHeld, Bounded, TypeOK
<1>8. QuietRows
  BY <1>1, <1>2, ConstantsAssumption DEF QuietRows, Fresh, TypeOK
<1> QED BY <1>1, <1>5, <1>6, <1>7, <1>8, QuietRowsKeep DEF IInv, ControlInv

-----------------------------------------------------------------------------
(* Crash, boot, and the ageing of a dead holder's row                      *)

LEMMA CrashKeeps ==
    ASSUME IInv, Crash
    PROVE  IInv' /\ Placed
<1>1. TypeOK
  BY DEF IInv, ControlInv
<1>2. /\ UNCHANGED <<mail, entries, retries, withdrawn, compacts, abandoned, faults>>
      /\ crashes' \in 0..MaxCrashes /\ crashes' > 0 /\ crashes' >= crashes
      /\ ~up' /\ calls' = 0 /\ delivered' = {}
      /\ lock' = IF lock \in Turns THEN DeadTurn ELSE lock
      /\ \A t \in Turns : pc'[t] = "free" /\ batch'[t] = {} /\ input'[t] = {}
  BY <1>1, ConstantsAssumption DEF Crash, TypeOK
<1>3. TypeOK'
  <2>1. 0 \in 0..MaxRounds
    BY ConstantsAssumption
  <2>2. /\ rewind' \in [done : 0..MaxRewinds, rows : SUBSET Row,
                        stage : {"idle", "checked", "listed"}]
        /\ client' \in [Subs -> {"new", "checked", "acked", "rejected"}]
    BY <1>1 DEF Crash, TypeOK
  <2>3. TurnTypes'
    BY <2>1 DEF Crash, TurnTypes, PCs
  <2>4. lock' \in Turns \cup {NoTurn, DeadTurn, StaleTurn} /\ up' \in BOOLEAN
    BY <1>1, <1>2 DEF Crash, TypeOK
  <2> QED BY <1>1, <1>2, <2>2, <2>3, <2>4 DEF TypeOK, TurnTypes
<1>4. LockFollowsTurns' /\ SomebodyLooks' /\ RoundsCounted' /\ InputHeld' /\ Bounded'
  BY <1>1, <1>2, ConstantsAssumption
  DEF IInv, ControlInv, LockFollowsTurns, Live, SomebodyLooks, RoundsCounted, InputHeld,
      Bounded, TypeOK
<1>5. QuietRows
  <2>1. \A s \in Subs : client'[s] = IF client[s] = "checked" THEN "new" ELSE client[s]
    BY DEF Crash
  <2>2. \A s \in Subs : retries'[s] >= retries[s]
    BY <1>1, <1>2, ConstantsAssumption DEF TypeOK
  <2>3. faults' >= faults
    BY <1>1, <1>2, ConstantsAssumption DEF TypeOK
  <2> QED BY <1>2, <2>1, <2>2, <2>3 DEF QuietRows, Fresh
<1> QED BY <1>1, <1>3, <1>4, <1>5, QuietRowsKeep DEF IInv, ControlInv

LEMMA BootKeeps ==
    ASSUME IInv, Boot \/ Expire
    PROVE  IInv' /\ Placed
<1>1. TypeOK
  BY DEF IInv, ControlInv
<1>2. UNCHANGED <<mail, entries, turnVars, userVars, delivered, abandoned, crashes, faults>>
  BY DEF Boot, Expire, envVars
<1>3. /\ lock \notin Turns => lock' \notin Turns
      /\ lock \in Turns => lock' = lock
      /\ lock' \in {DeadTurn, StaleTurn} => lock \in {DeadTurn, StaleTurn}
      /\ lock' \in {lock, NoTurn, StaleTurn}
  BY ConstantsAssumption DEF Boot, Expire
<1>4. calls' \in Nat /\ up' \in BOOLEAN
  <2>1. CASE Boot
    BY <2>1 DEF Boot
  <2>2. CASE Expire
    BY <1>1, <2>2 DEF Expire, envVars, TypeOK
  <2> QED BY <2>1, <2>2
<1>5. TypeOK'
  BY <1>1, <1>2, <1>3, <1>4 DEF TypeOK, turnVars, userVars
<1>6. LockFollowsTurns'
  BY <1>1, <1>2, <1>3 DEF IInv, ControlInv, LockFollowsTurns, Live, turnVars
<1>7. SomebodyLooks'
  <2>1. CASE Boot
    BY <1>2, <2>1 DEF Boot, SomebodyLooks
  <2>2. CASE Expire
    BY <2>2 DEF Expire, SomebodyLooks, envVars
  <2> QED BY <2>1, <2>2
<1>8. RoundsCounted' /\ InputHeld' /\ Bounded'
  BY <1>2 DEF IInv, ControlInv, RoundsCounted, InputHeld, Bounded, turnVars
<1>9. QuietRows
  BY <1>1, <1>2, ConstantsAssumption DEF QuietRows, Fresh, TypeOK, turnVars, userVars
<1> QED BY <1>1, <1>5, <1>6, <1>7, <1>8, <1>9, QuietRowsKeep DEF IInv, ControlInv

-----------------------------------------------------------------------------
(* Commands and submissions that only look                                 *)

LEMMA LooksKeep ==
    ASSUME IInv,
           \/ \E s \in Subs : SubmitCheck(s) \/ SubmitReject(s) \/ Resubmit(s)
           \/ RewindCheck \/ RewindList
    PROVE  IInv' /\ Placed
<1>1. TypeOK
  BY DEF IInv, ControlInv
<1>2. UNCHANGED <<mail, entries, lock, turnVars, calls, delivered, withdrawn, compacts,
                  abandoned, envVars>>
  BY DEF SubmitCheck, SubmitReject, Resubmit, RewindCheck, RewindList
<1>3. /\ client' \in [Subs -> {"new", "checked", "acked", "rejected"}]
      /\ retries' \in [Subs -> 0..MaxRetries]
      /\ rewind' \in [done : 0..MaxRewinds, rows : SUBSET Row,
                      stage : {"idle", "checked", "listed"}]
  <2>1. CASE \E s \in Subs : SubmitCheck(s) \/ SubmitReject(s)
    BY <1>1, <2>1 DEF SubmitCheck, SubmitReject, TypeOK
  <2>2. ASSUME NEW s \in Subs, Resubmit(s)
        PROVE  /\ client' \in [Subs -> {"new", "checked", "acked", "rejected"}]
               /\ retries' \in [Subs -> 0..MaxRetries]
               /\ rewind' = rewind
    <3>1. retries[s] + 1 \in 0..MaxRetries
      BY <1>1, <2>2, ConstantsAssumption DEF Resubmit, TypeOK
    <3> QED BY <1>1, <2>2, <3>1 DEF Resubmit, TypeOK
  <2>3. CASE RewindCheck
    <3>1. rewind.done + 1 \in 0..MaxRewinds
      BY <1>1, <2>3, ConstantsAssumption DEF RewindCheck, TypeOK
    <3> QED BY <1>1, <2>3, <3>1 DEF RewindCheck, TypeOK
  <2>4. CASE RewindList
    BY <1>1, <2>4 DEF RewindList, TypeOK
  <2> QED BY <1>1, <2>1, <2>2, <2>3, <2>4 DEF TypeOK
<1>4. TypeOK'
  BY <1>1, <1>2, <1>3 DEF TypeOK, turnVars, envVars
<1>5. /\ LockFollowsTurns' /\ SomebodyLooks' /\ RoundsCounted' /\ InputHeld' /\ Bounded'
  BY <1>2 DEF IInv, ControlInv, LockFollowsTurns, Live, SomebodyLooks, RoundsCounted,
              InputHeld, Bounded, turnVars, envVars
<1>6. QuietRows
  <2>1. \A x \in Subs : /\ retries'[x] >= retries[x]
                        /\ Fresh(x)' => Fresh(x)
                        /\ client'[x] = "acked" => \/ client[x] = "acked"
                                                   \/ x \in delivered \cup SubsOf(mail)
    <3>1. CASE \E s \in Subs : SubmitCheck(s)
      BY <1>1, <3>1, ConstantsAssumption DEF SubmitCheck, TypeOK, Fresh
    <3>2. CASE \E s \in Subs : SubmitReject(s)
      BY <1>1, <3>2, ConstantsAssumption DEF SubmitReject, TypeOK, Fresh
    <3>3. CASE \E s \in Subs : Resubmit(s)
      BY <1>1, <3>3, ConstantsAssumption DEF Resubmit, TypeOK, Fresh
    <3>4. CASE RewindCheck \/ RewindList
      BY <1>1, <3>4, ConstantsAssumption DEF RewindCheck, RewindList, TypeOK, Fresh
    <3> QED BY <3>1, <3>2, <3>3, <3>4
  <2>2. crashes' >= crashes /\ faults' >= faults
    BY <1>1, <1>2, ConstantsAssumption DEF TypeOK, envVars
  <2> QED BY <1>2, <2>1, <2>2 DEF QuietRows, turnVars
<1> QED BY <1>1, <1>4, <1>5, <1>6, QuietRowsKeep DEF IInv, ControlInv

-----------------------------------------------------------------------------
(* Steps that remove or move rows                                          *)

(* Rows or entries go: withdrawn by the user, or because there is nothing  *)
(* to read in them.                                                        *)
RowsGo ==
    /\ mail' \subseteq mail /\ entries' \subseteq entries
    /\ withdrawn \subseteq withdrawn'
    /\ \A s \in SubsOf(mail) \cup InHistory :
          s \in SubsOf(mail)' \cup InHistory' \cup withdrawn' \cup Unreadable
    /\ \A t \in Turns : batch'[t] \subseteq batch[t] /\ input'[t] = input[t]
    /\ UNCHANGED <<client, retries, delivered, crashes, faults>>

LEMMA RowsGoKeep ==
    ASSUME TypeOK, TypeOK', RowsInv, RowsGo
    PROVE  RowsInv' /\ Placed
<1>1. SubsOf(mail)' \subseteq SubsOf(mail) /\ InHistory' \subseteq InHistory
      /\ \A t \in Turns : SubsOf(batch'[t]) \subseteq SubsOf(batch[t])
  BY DEF RowsGo, SubsOf, InHistory
<1>2. OneRowEach' /\ BatchIsOld'
  BY DEF RowsInv, RowsGo, OneRowEach, BatchIsOld
<1>3. FreshNowhere'
  BY <1>1 DEF RowsInv, RowsGo, FreshNowhere, Fresh
<1>4. OnePlace'
  BY <1>1 DEF RowsInv, RowsGo, OnePlace
<1>5. Placed
  BY DEF Placed, Accounted, RowsGo
<1>6. \A s \in Subs : Accounted(s) => Accounted(s)'
  BY <1>5 DEF Accounted, RowsGo, Placed
<1>7. crashes' >= crashes /\ faults' >= faults
  BY ConstantsAssumption DEF RowsGo, TypeOK
<1>8. DeliveredAccounted' /\ NothingLostWithoutFaults'
  BY <1>6, <1>7, AccountedKept DEF RowsInv, RowsGo
<1> QED BY <1>2, <1>3, <1>4, <1>5, <1>8 DEF RowsInv

(* A row that was read goes on, into the memory of the turn or into the    *)
(* history; if it is still pending it leaves the mailbox.                  *)
Reached == InHistory \cup UNION {SubsOf(input[t]) : t \in Turns}

RowMoves(row) ==
    /\ row \in Row /\ ~Fresh(row.sub)
    /\ mail' \subseteq mail /\ \A r \in mail \ mail' : r.sub = row.sub
    /\ \A r \in mail' : r.nth = 0 => r.sub # row.sub
    /\ Reached' = Reached \cup {row.sub}
    /\ \A t \in Turns : batch'[t] \subseteq batch[t]
    /\ delivered' \subseteq delivered \cup {row.sub}
    /\ UNCHANGED <<withdrawn, client, retries, crashes, faults>>

LEMMA RowMovesKeep ==
    ASSUME TypeOK, TypeOK', RowsInv, NEW row, RowMoves(row)
    PROVE  RowsInv' /\ Placed
<1>1. \A s \in Subs : s \in Reached' <=> s \in Reached \/ s = row.sub
  BY DEF RowMoves
<1>2. /\ \A s \in Subs : s \in Reached <=> \/ s \in InHistory
                                           \/ \E t \in Turns : s \in SubsOf(input[t])
      /\ \A s \in Subs : s \in Reached' <=> \/ s \in InHistory'
                                            \/ \E t \in Turns : s \in SubsOf(input'[t])
  BY DEF Reached, SubsOf
<1>3. OneRowEach' /\ BatchIsOld'
  BY DEF RowsInv, RowMoves, OneRowEach, BatchIsOld
<1>4. FreshNowhere'
  <2>1. SubsOf(mail') \subseteq SubsOf(mail)
        /\ \A t \in Turns : SubsOf(batch'[t]) \subseteq SubsOf(batch[t])
    BY DEF RowMoves, SubsOf
  <2>2. \A s \in Subs : Fresh(s)' => Fresh(s) /\ s # row.sub
    BY DEF RowMoves, Fresh
  <2>3. UNCHANGED SubsOf(mail) \/ SubsOf(mail)' = SubsOf(mail')
    BY DEF SubsOf
  <2> QED BY <1>1, <1>2, <2>1, <2>2, <2>3 DEF RowsInv, FreshNowhere
<1>5. OnePlace'
  <2>1. \A r \in mail' : r \in mail /\ r.sub \in Subs
    BY DEF RowMoves, TypeOK, Row
  <2> QED BY <1>1, <1>2, <2>1 DEF RowsInv, OnePlace, RowMoves
<1>6. Placed
  <2>1. \A s \in SubsOf(mail) : s \in Subs /\ (s \in SubsOf(mail') \/ s = row.sub)
    BY DEF RowMoves, SubsOf, TypeOK, Row
  <2> QED BY <1>1, <1>2, <2>1 DEF Placed, Accounted
<1>7. \A s \in Subs : Accounted(s) => Accounted(s)'
  BY <1>1, <1>2, <1>6 DEF Accounted, RowMoves, Placed
<1>8. \A s \in delivered' : s \in delivered \/ Accounted(s)'
  <2>1. row.sub \in Subs
    BY DEF RowMoves, Row
  <2> QED BY <1>1, <1>2, <2>1 DEF Accounted, RowMoves
<1>9. crashes' >= crashes /\ faults' >= faults
  BY ConstantsAssumption DEF RowMoves, TypeOK
<1>10. DeliveredAccounted' /\ NothingLostWithoutFaults'
  BY <1>7, <1>8, <1>9, AccountedKept DEF RowsInv, RowMoves
<1> QED BY <1>3, <1>4, <1>5, <1>6, <1>10 DEF RowsInv

(* CancelSubmission and Rewind. *)
LEMMA WithdrawalsKeep ==
    ASSUME IInv,
           \/ \E row \in mail : CancelSubmission(row)
           \/ RewindCancel
           \/ \E keep \in 0..LastTurn : RewindApply(keep)
    PROVE  IInv' /\ Placed
<1>1. TypeOK
  BY DEF IInv, ControlInv
<1>2. /\ UNCHANGED <<lock, turnVars, calls, client, retries, delivered, compacts,
                     abandoned, envVars>>
      /\ mail' \subseteq mail /\ entries' \subseteq entries
  BY DEF CancelSubmission, RewindCancel, RewindApply, Delete
<1>3. withdrawn' \subseteq Subs /\ withdrawn \subseteq withdrawn'
  BY <1>1 DEF CancelSubmission, RewindCancel, RewindApply, TypeOK, Row
<1>4. rewind' \in [done : 0..MaxRewinds, rows : SUBSET Row,
                   stage : {"idle", "checked", "listed"}]
  BY <1>1 DEF CancelSubmission, RewindCancel, RewindApply, TypeOK
<1>5. TypeOK'
  BY <1>1, <1>2, <1>3, <1>4 DEF TypeOK, turnVars, envVars
<1>6. LockFollowsTurns' /\ SomebodyLooks' /\ RoundsCounted' /\ InputHeld'
  BY <1>2 DEF IInv, ControlInv, LockFollowsTurns, Live, SomebodyLooks, RoundsCounted,
              InputHeld, turnVars, envVars
<1>7. Bounded'
  BY <1>2, NoRowAdded DEF IInv, ControlInv
<1>8. \A s \in SubsOf(mail) \cup InHistory :
         s \in SubsOf(mail)' \cup InHistory' \cup withdrawn'
  <2>1. CASE \E row \in mail : CancelSubmission(row)
    BY <2>1 DEF CancelSubmission, Delete, SameSubmission, SubsOf, InHistory
  <2>2. CASE RewindCancel
    BY <2>2 DEF RewindCancel, Delete, Present, SameSubmission, SubsOf, InHistory
  <2>3. CASE \E keep \in 0..LastTurn : RewindApply(keep)
    BY <2>3 DEF RewindApply, SubsOf, InHistory
  <2> QED BY <2>1, <2>2, <2>3
<1>9. RowsGo
  BY <1>2, <1>3, <1>8 DEF RowsGo, turnVars, envVars
<1> QED BY <1>1, <1>5, <1>6, <1>7, <1>9, RowsGoKeep DEF IInv, ControlInv

(* The decode loop of a start. *)
LEMMA SkipUnreadableKeeps ==
    ASSUME IInv, NEW t \in Turns, SkipUnreadable(t)
    PROVE  IInv' /\ Placed
<1>1. TypeOK
  BY DEF IInv, ControlInv
<1>2. PICK row \in batch[t] : /\ row.sub \in Unreadable
                              /\ batch' = [batch EXCEPT ![t] = @ \ {row}]
                              /\ Delete(row)
  BY DEF SkipUnreadable, Readable
<1>3. UNCHANGED <<entries, lock, pc, input, seqno, rounds, injected, waited, calls,
                  userVars, delivered, abandoned, envVars>> /\ pc[t] = "claimed"
  BY DEF SkipUnreadable
<1>4. mail' \subseteq mail /\ \A u \in Turns : batch'[u] \subseteq batch[u]
  BY <1>1, <1>2 DEF Delete, TypeOK
<1>5. TypeOK'
  BY <1>1, <1>2, <1>3, <1>4 DEF TypeOK, userVars, envVars
<1>6. LockFollowsTurns' /\ SomebodyLooks' /\ RoundsCounted' /\ InputHeld' /\ Bounded'
  BY <1>3, <1>4, NoRowAdded
  DEF IInv, ControlInv, LockFollowsTurns, Live, SomebodyLooks, RoundsCounted, InputHeld,
      envVars
<1>7. RowsGo
  <2>1. \A s \in SubsOf(mail) : s \in SubsOf(mail)' \cup Unreadable
    BY <1>2 DEF Delete, SameSubmission, SubsOf
  <2> QED BY <1>3, <1>4, <2>1 DEF RowsGo, InHistory, userVars, envVars
<1> QED BY <1>1, <1>5, <1>6, <1>7, RowsGoKeep DEF IInv, ControlInv

(* What a batch holds of a request that is still pending as it was first   *)
(* sent is that row.                                                       *)
LEMMA DeletesPending ==
    ASSUME TypeOK, RowsInv, NEW t \in Turns, NEW row \in batch[t], Delete(row)
    PROVE  /\ row \in Row /\ ~Fresh(row.sub)
           /\ mail' \subseteq mail /\ \A r \in mail \ mail' : r.sub = row.sub
           /\ \A r \in mail' : r.nth = 0 => r.sub # row.sub
<1>1. row \in Row /\ row.sub \in Subs /\ row.nth \in Nat
  BY ConstantsAssumption DEF TypeOK, Row
<1>2. ~Fresh(row.sub)
  BY <1>1 DEF RowsInv, FreshNowhere, SubsOf
<1>3. mail' \subseteq mail /\ \A r \in mail \ mail' : r.sub = row.sub
  BY DEF Delete, SameSubmission
<1>4. ASSUME NEW r \in mail', r.nth = 0, r.sub = row.sub PROVE FALSE
  <2>1. row.nth <= r.nth
    BY <1>3, <1>4 DEF RowsInv, BatchIsOld
  <2> QED BY <1>1, <1>4, <2>1 DEF Delete, SameSubmission
<1> QED BY <1>1, <1>2, <1>3, <1>4

(* The rows of a start go into the memory of the turn. *)
LEMMA TakeRowKeeps ==
    ASSUME IInv, NEW t \in Turns, TakeRow(t)
    PROVE  IInv' /\ Placed
<1>1. TypeOK
  BY DEF IInv, ControlInv
<1>2. PICK row \in batch[t] : /\ batch' = [batch EXCEPT ![t] = @ \ {row}]
                              /\ input' = [input EXCEPT ![t] = @ \cup {row}]
                              /\ Delete(row)
                              /\ delivered' = delivered \cup {row.sub}
  BY DEF TakeRow
<1>3. UNCHANGED <<entries, lock, pc, seqno, rounds, injected, waited, calls, userVars,
                  abandoned, envVars>> /\ pc[t] = "taking"
  BY DEF TakeRow
<1>4. /\ row \in Row /\ row.sub \in Subs /\ ~Fresh(row.sub)
      /\ mail' \subseteq mail /\ \A r \in mail \ mail' : r.sub = row.sub
      /\ \A r \in mail' : r.nth = 0 => r.sub # row.sub
  BY <1>1, <1>2, DeletesPending DEF IInv, Row
<1>5. /\ \A u \in Turns : batch'[u] \subseteq batch[u]
      /\ \A u \in Turns \ {t} : input'[u] = input[u]
      /\ input'[t] = input[t] \cup {row}
  BY <1>1, <1>2 DEF TypeOK
<1>6. TypeOK'
  BY <1>1, <1>2, <1>3, <1>4 DEF TypeOK, userVars, envVars
<1>7. LockFollowsTurns' /\ SomebodyLooks' /\ RoundsCounted' /\ InputHeld' /\ Bounded'
  BY <1>3, <1>4, <1>5, NoRowAdded
  DEF IInv, ControlInv, LockFollowsTurns, Live, SomebodyLooks, RoundsCounted, InputHeld,
      envVars
<1>8. Reached' = Reached \cup {row.sub}
  <2>1. InHistory' = InHistory
    BY <1>3 DEF InHistory
  <2>2. /\ \A u \in Turns \ {t} : SubsOf(input[u])' = SubsOf(input[u])
        /\ SubsOf(input[t])' = SubsOf(input[t]) \cup {row.sub}
    BY <1>5 DEF SubsOf
  <2> QED BY <2>1, <2>2 DEF Reached
<1>9. RowMoves(row)
  BY <1>2, <1>3, <1>4, <1>5, <1>8 DEF RowMoves, userVars, envVars
<1> QED BY <1>1, <1>6, <1>7, <1>9, RowMovesKeep DEF IInv, ControlInv

(* A new entry of the history. *)
LEMMA AppendEffect ==
    ASSUME TypeOK, Bounded, NEW row \in Row, NEW t \in Turns, Append(row, t),
           mail' \subseteq mail
    PROVE  /\ entries' \subseteq [id : Nat, sub : Subs, turn : Nat]
           /\ Bounded'
           /\ InHistory' = InHistory \cup {row.sub}
<1> DEFINE e == [id |-> NextId(entries), sub |-> row.sub, turn |-> seqno[t]]
<1>1. PICK k \in Nat : \A x \in entries : x.id <= k /\ x.turn <= k
  BY DEF Bounded
<1>2. NextId(entries) \in Nat /\ NextId(entries) <= k + 1
  <2>1. \A x \in entries : x.id \in Nat
    BY DEF TypeOK
  <2> QED BY <1>1, <2>1, NextIdFollows
<1>3. e \in [id : Nat, sub : Subs, turn : Nat] /\ entries' = entries \cup {e}
  BY <1>2 DEF Append, TypeOK, Row
<1>4. seqno[t] \in Nat
  BY DEF TypeOK
<1>5. \A x \in entries' : x.id <= k + 1 + seqno[t] /\ x.turn <= k + 1 + seqno[t]
  <2>1. \A x \in entries : x.id \in Nat /\ x.turn \in Nat
    BY DEF TypeOK
  <2>2. e.id <= k + 1 + seqno[t] /\ e.turn <= k + 1 + seqno[t]
    BY <1>2, <1>4
  <2> QED BY <1>1, <1>3, <1>4, <2>1, <2>2
<1>6. Bounded'
  <2>1. k + 1 + seqno[t] \in Nat
    BY <1>4
  <2>2. \E n \in Nat : \A x \in entries' : x.id <= n /\ x.turn <= n
    BY <1>5, <2>1
  <2>3. \E n \in Nat : \A r \in mail' : r.id <= n
    BY DEF Bounded
  <2> QED BY <2>2, <2>3 DEF Bounded
<1>7. InHistory' = InHistory \cup {row.sub}
  <2>1. e.sub = row.sub
    OBVIOUS
  <2> HIDE DEF e
  <2> QED BY <1>3, <2>1 DEF InHistory
<1> QED BY <1>3, <1>6, <1>7 DEF TypeOK

LEMMA PersistInputKeeps ==
    ASSUME IInv, NEW t \in Turns, PersistInput(t)
    PROVE  IInv' /\ Placed
<1>1. TypeOK
  BY DEF IInv, ControlInv
<1>2. PICK row \in input[t] : input' = [input EXCEPT ![t] = @ \ {row}] /\ Append(row, t)
  BY DEF PersistInput
<1>3. UNCHANGED <<mail, lock, pc, batch, seqno, rounds, injected, waited, calls, userVars,
                  delivered, abandoned, envVars>> /\ pc[t] = "persisting"
  BY DEF PersistInput
<1>4. row \in Row /\ row.sub \in Subs
  BY <1>1 DEF TypeOK, Row
<1>5. /\ entries' \subseteq [id : Nat, sub : Subs, turn : Nat]
      /\ Bounded'
      /\ InHistory' = InHistory \cup {row.sub}
  BY <1>1, <1>2, <1>3, <1>4, AppendEffect DEF IInv, ControlInv
<1>6. TypeOK'
  BY <1>1, <1>2, <1>3, <1>5 DEF TypeOK, userVars, envVars
<1>7. /\ \A u \in Turns \ {t} : input'[u] = input[u]
      /\ input'[t] = input[t] \ {row}
  BY <1>1, <1>2 DEF TypeOK
<1>8. LockFollowsTurns' /\ SomebodyLooks' /\ RoundsCounted' /\ InputHeld'
  BY <1>3, <1>7
  DEF IInv, ControlInv, LockFollowsTurns, Live, SomebodyLooks, RoundsCounted, InputHeld,
      envVars
<1>9. Reached' = Reached \cup {row.sub}
  <2>1. /\ \A u \in Turns \ {t} : SubsOf(input[u])' = SubsOf(input[u])
        /\ SubsOf(input[t])' \cup {row.sub} = SubsOf(input[t])
    BY <1>2, <1>7 DEF SubsOf
  <2> QED BY <1>5, <2>1 DEF Reached
<1>10. RowMoves(row)
  <2>1. row.sub \in SubsOf(input[t])
    BY DEF SubsOf
  <2>2. ~Fresh(row.sub) /\ \A r \in mail : r.nth = 0 => r.sub # row.sub
    BY <1>4, <2>1 DEF IInv, RowsInv, FreshNowhere, OnePlace
  <2> QED BY <1>3, <1>4, <1>9, <2>2 DEF RowMoves, userVars, envVars
<1> QED BY <1>1, <1>5, <1>6, <1>8, <1>10, RowMovesKeep DEF IInv, ControlInv

(* A drain: the row goes as unreadable, moves into the history, or the     *)
(* turn ends.                                                              *)
LEMMA DrainRowKeeps ==
    ASSUME IInv, NEW t \in Turns, DrainRow(t)
    PROVE  IInv' /\ Placed
<1>1. TypeOK
  BY DEF IInv, ControlInv
<1>2. PICK row \in batch[t] :
         \/ /\ row.sub \in Unreadable
            /\ Delete(row)
            /\ batch' = [batch EXCEPT ![t] = @ \ {row}]
            /\ UNCHANGED <<entries, pc, injected>>
         \/ /\ Delete(row)
            /\ Append(row, t)
            /\ batch' = [batch EXCEPT ![t] = @ \ {row}]
            /\ injected' = [injected EXCEPT ![t] = TRUE]
            /\ UNCHANGED pc
         \/ /\ Goto(t, "finished")
            /\ batch' = [batch EXCEPT ![t] = {}]
            /\ UNCHANGED <<mail, entries, injected>>
  BY DEF DrainRow
<1>3. UNCHANGED <<lock, input, seqno, rounds, waited, calls, userVars, delivered,
                  abandoned, envVars>> /\ pc[t] \in {"steering", "closing"}
  BY DEF DrainRow
<1>4. row \in Row /\ row.sub \in Subs
  BY <1>1 DEF TypeOK, Row
<1>5. mail' \subseteq mail /\ \A u \in Turns : batch'[u] \subseteq batch[u]
  BY <1>1, <1>2 DEF Delete, TypeOK
<1>6. Bounded' /\ entries' \subseteq [id : Nat, sub : Subs, turn : Nat]
  BY <1>1, <1>2, <1>4, <1>5, AppendEffect, NoRowAdded DEF IInv, ControlInv, TypeOK
<1>7. /\ batch' \in [Turns -> SUBSET Row]
      /\ injected' \in [Turns -> BOOLEAN]
      /\ pc' \in [Turns -> PCs]
      /\ pc'[t] \in {"steering", "closing", "finished"}
      /\ \A u \in Turns \ {t} : pc'[u] = pc[u]
  <2>1. /\ batch' = [batch EXCEPT ![t] = batch'[t]] /\ batch'[t] \in SUBSET Row
        /\ injected' \in {injected, [injected EXCEPT ![t] = TRUE]}
        /\ pc' \in {pc, [pc EXCEPT ![t] = "finished"]}
    BY <1>1, <1>2 DEF TypeOK, Goto
  <2> QED BY <1>1, <1>3, <2>1 DEF TypeOK, PCs
<1>8. TypeOK'
  BY <1>1, <1>3, <1>5, <1>6, <1>7 DEF TypeOK, userVars, envVars
<1>9. LockFollowsTurns' /\ SomebodyLooks'
  BY <1>3, <1>7, StaysLive DEF IInv, Live, envVars
<1>10. RoundsCounted' /\ InputHeld'
  BY <1>3, <1>7 DEF IInv, ControlInv, RoundsCounted, InputHeld
<1>11. CASE /\ row.sub \in Unreadable
            /\ Delete(row)
            /\ UNCHANGED entries
  <2>1. \A s \in SubsOf(mail) : s \in SubsOf(mail)' \cup Unreadable
    BY <1>11 DEF Delete, SameSubmission, SubsOf
  <2>2. RowsGo
    BY <1>3, <1>5, <1>11, <2>1 DEF RowsGo, InHistory, userVars, envVars
  <2> QED BY <1>1, <1>6, <1>8, <1>9, <1>10, <2>2, RowsGoKeep DEF IInv, ControlInv
<1>12. CASE Delete(row) /\ Append(row, t)
  <2>1. Reached' = Reached \cup {row.sub}
    <3>1. InHistory' = InHistory \cup {row.sub}
      BY <1>1, <1>4, <1>5, <1>12, AppendEffect DEF IInv, ControlInv
    <3> QED BY <1>3, <3>1 DEF Reached, SubsOf
  <2>2. RowMoves(row)
    BY <1>1, <1>3, <1>5, <1>12, <2>1, DeletesPending
    DEF IInv, RowMoves, userVars, envVars
  <2> QED BY <1>1, <1>6, <1>8, <1>9, <1>10, <2>2, RowMovesKeep DEF IInv, ControlInv
<1>13. CASE UNCHANGED <<mail, entries>>
  <2>1. QuietRows
    BY <1>1, <1>3, <1>5, <1>13, ConstantsAssumption
    DEF QuietRows, Fresh, TypeOK, userVars, envVars
  <2> QED BY <1>1, <1>6, <1>8, <1>9, <1>10, <2>1, QuietRowsKeep DEF IInv, ControlInv
<1> QED BY <1>2, <1>11, <1>12, <1>13

-----------------------------------------------------------------------------
(* Steps that store a row or change where it is to be delivered            *)

LEMMA RetargetKeeps ==
    ASSUME IInv, NEW row \in mail, RetargetSubmission(row)
    PROVE  IInv' /\ Placed
<1>1. TypeOK
  BY DEF IInv, ControlInv
<1>2. PICK d \in {"steer", "queue"} :
         mail' = (mail \ {row}) \cup {[row EXCEPT !.delivery = d]}
  BY DEF RetargetSubmission
<1>3. UNCHANGED <<entries, lock, turnVars, calls, userVars, delivered, abandoned, envVars>>
  BY DEF RetargetSubmission
<1> DEFINE new == [row EXCEPT !.delivery = d]
<1>4. /\ row \in Row /\ new \in Row
      /\ new.sub = row.sub /\ new.nth = row.nth /\ new.id = row.id
  BY <1>1 DEF TypeOK, Row
<1> HIDE DEF new
<1>5. mail' = (mail \ {row}) \cup {new}
  BY <1>2 DEF new
<1>6. TypeOK'
  BY <1>1, <1>3, <1>4, <1>5 DEF TypeOK, turnVars, userVars, envVars
<1>7. LockFollowsTurns' /\ SomebodyLooks' /\ RoundsCounted' /\ InputHeld' /\ Bounded'
  BY <1>3, <1>4, <1>5
  DEF IInv, ControlInv, LockFollowsTurns, Live, SomebodyLooks, RoundsCounted, InputHeld,
      Bounded, turnVars, envVars
<1>8. SubsOf(mail)' = SubsOf(mail) /\ InHistory' = InHistory
  BY <1>3, <1>4, <1>5 DEF SubsOf, InHistory
<1>9. OneRowEach' /\ BatchIsOld' /\ OnePlace'
  BY <1>3, <1>4, <1>5, <1>8
  DEF IInv, RowsInv, OneRowEach, BatchIsOld, OnePlace, turnVars, userVars
<1>10. FreshNowhere'
  BY <1>3, <1>8 DEF IInv, RowsInv, FreshNowhere, Fresh, SubsOf, turnVars, userVars
<1>11. Placed
  BY <1>8 DEF Placed, Accounted
<1>12. \A s \in Subs : Accounted(s) => Accounted(s)'
  BY <1>3, <1>8 DEF Accounted, SubsOf, turnVars, userVars
<1>13. crashes' >= crashes /\ faults' >= faults
  BY <1>1, <1>3, ConstantsAssumption DEF TypeOK, envVars
<1>14. DeliveredAccounted' /\ NothingLostWithoutFaults'
  BY <1>1, <1>3, <1>6, <1>12, <1>13, AccountedKept DEF IInv, RowsInv, userVars
<1> QED BY <1>6, <1>7, <1>9, <1>10, <1>11, <1>14 DEF IInv, ControlInv, RowsInv

(* MailboxStore::submit_with_model: at most one pending row per request,   *)
(* and none at all is added for one that is pending.                       *)
LEMMA SubmitStoreKeeps ==
    ASSUME IInv, NEW s \in Subs, SubmitStore(s)
    PROVE  IInv' /\ Placed
<1>1. TypeOK
  BY DEF IInv, ControlInv
<1>2. /\ up /\ client[s] = "checked" /\ client' = [client EXCEPT ![s] = "acked"]
      /\ calls' = calls + 1
      /\ UNCHANGED <<entries, lock, turnVars, retries, delivered, withdrawn, rewind,
                     compacts, abandoned, envVars>>
  BY DEF SubmitStore
<1>3. calls \in Nat /\ calls' \in Nat /\ calls' > 0
      /\ client' \in [Subs -> {"new", "checked", "acked", "rejected"}]
      /\ \A x \in Subs : client'[x] = IF x = s THEN "acked" ELSE client[x]
  BY <1>1, <1>2 DEF TypeOK
<1>4. LockFollowsTurns' /\ SomebodyLooks' /\ RoundsCounted' /\ InputHeld'
  BY <1>2, <1>3
  DEF IInv, ControlInv, LockFollowsTurns, Live, SomebodyLooks, RoundsCounted, InputHeld,
      turnVars, envVars
<1>5. crashes' >= crashes /\ faults' >= faults
  BY <1>1, <1>2, ConstantsAssumption DEF TypeOK, envVars
<1>6. CASE s \in SubsOf(mail) /\ UNCHANGED mail
  <2>1. TypeOK' /\ Bounded'
    BY <1>1, <1>2, <1>3, <1>6 DEF IInv, ControlInv, TypeOK, Bounded, turnVars, envVars
  <2>2. QuietRows
    <3>1. \A x \in Subs : retries'[x] >= retries[x]
      BY <1>1, <1>2, ConstantsAssumption DEF TypeOK
    <3> QED BY <1>2, <1>3, <1>5, <1>6, <3>1 DEF QuietRows, Fresh, turnVars
  <2> QED BY <1>1, <1>4, <2>1, <2>2, QuietRowsKeep DEF IInv, ControlInv
<1>7. CASE s \notin SubsOf(mail) /\ \E d \in {"steer", "queue"} :
               mail' = mail \cup {[sub |-> s, nth |-> retries[s],
                                  id |-> NextId(mail), delivery |-> d]}
  <2>1. PICK k \in Nat : \A r \in mail : r.id <= k
    BY DEF IInv, ControlInv, Bounded
  <2>2. NextId(mail) \in Nat /\ NextId(mail) <= k + 1
    <3>1. \A r \in mail : r.id \in Nat
      BY <1>1 DEF TypeOK, Row
    <3> QED BY <2>1, <3>1, NextIdFollows
  <2>3. PICK new \in Row : /\ mail' = mail \cup {new}
                           /\ new.sub = s /\ new.nth = retries[s] /\ new.id <= k + 1
    <3>1. PICK d \in {"steer", "queue"} :
             mail' = mail \cup {[sub |-> s, nth |-> retries[s],
                                id |-> NextId(mail), delivery |-> d]}
      BY <1>7
    <3> DEFINE row == [sub |-> s, nth |-> retries[s], id |-> NextId(mail), delivery |-> d]
    <3>2. retries[s] \in 0..MaxRetries
      BY <1>1 DEF TypeOK
    <3>3. row \in Row
      BY <2>2, <3>2 DEF Row
    <3> QED BY <2>2, <3>1, <3>3
  <2>4. TypeOK'
    BY <1>1, <1>2, <1>3, <2>3 DEF TypeOK, turnVars, envVars
  <2>5. Bounded'
    <3>1. \A r \in mail' : r.id <= k + 1
      BY <1>1, <2>1, <2>3 DEF TypeOK, Row
    <3> QED BY <1>2, <3>1 DEF IInv, ControlInv, Bounded
  <2>6. SubsOf(mail)' = SubsOf(mail) \cup {s} /\ InHistory' = InHistory
    BY <1>2, <2>3 DEF SubsOf, InHistory
  <2>7. OneRowEach'
    BY <1>7, <2>3 DEF IInv, RowsInv, OneRowEach, SubsOf
  <2>8. BatchIsOld'
    BY <1>1, <1>2, <2>3, ConstantsAssumption
    DEF IInv, RowsInv, BatchIsOld, turnVars, TypeOK, Row
  <2>9. FreshNowhere'
    BY <1>2, <1>3, <2>6 DEF IInv, RowsInv, FreshNowhere, Fresh, SubsOf, turnVars
  <2>10. OnePlace'
    <3>1. retries[s] = 0 => /\ s \notin InHistory
                            /\ \A t \in Turns : s \notin SubsOf(input[t])
      BY <1>2 DEF IInv, RowsInv, FreshNowhere, Fresh
    <3> QED BY <1>2, <2>3, <2>6, <3>1 DEF IInv, RowsInv, OnePlace, turnVars, SubsOf
  <2>11. \A x \in Subs : Accounted(x) => Accounted(x)'
    BY <1>2, <2>6 DEF Accounted, SubsOf, turnVars
  <2>12. Placed
    BY <2>6 DEF Placed, Accounted
  <2>13. Accounted(s)'
    BY <2>6 DEF Accounted
  <2>14. DeliveredAccounted' /\ NothingLostWithoutFaults'
    BY <1>1, <1>2, <1>3, <1>5, <2>4, <2>11, <2>13, AccountedKept DEF IInv, RowsInv
  <2> QED BY <1>4, <2>4, <2>5, <2>7, <2>8, <2>9, <2>10, <2>12, <2>14
      DEF IInv, ControlInv, RowsInv
<1> QED BY <1>6, <1>7 DEF SubmitStore

-----------------------------------------------------------------------------
LEMMA NextKeeps ==
    ASSUME IInv, Next
    PROVE  IInv' /\ Placed
<1>1. CASE \E s \in Subs : Submit(s)
  BY <1>1, LooksKeep, SubmitStoreKeeps DEF Submit
<1>2. CASE Control
  BY <1>2, LooksKeep, WithdrawalsKeep, RetargetKeeps, LockMovesKeep DEF Control
<1>3. CASE \E t \in Turns : Advance(t) \/ Fault(t)
  <2>1. PICK t \in Turns : Advance(t) \/ Fault(t)
    BY <1>3
  <2>2. CASE TurnGoesOn(t)
    BY <2>2, TurnGoesOnKeeps
  <2> QED BY <2>1, <2>2, CallsRead, ClaimKeeps, SkipUnreadableKeeps, DecodedKeeps,
             TakeRowKeeps, PersistInputKeeps, DrainRowKeeps, LockMovesKeep, StartFailsKeeps
          DEF Advance, Fault, TurnGoesOn
<1>4. CASE Crash \/ Boot \/ Expire
  BY <1>4, CrashKeeps, BootKeeps
<1> QED BY <1>1, <1>2, <1>3, <1>4 DEF Next

LEMMA StutterKeeps ==
    ASSUME IInv, UNCHANGED vars
    PROVE  IInv' /\ Placed
<1>1. TypeOK
  BY DEF IInv, ControlInv
<1>2. UNCHANGED <<mail, entries, lock, turnVars, calls, userVars, delivered, abandoned,
                  envVars>>
  BY DEF vars, turnVars, userVars, envVars
<1>3. TypeOK'
  BY <1>1, <1>2 DEF TypeOK, turnVars, userVars, envVars
<1>4. LockFollowsTurns' /\ SomebodyLooks' /\ RoundsCounted' /\ InputHeld' /\ Bounded'
  BY <1>2 DEF IInv, ControlInv, LockFollowsTurns, Live, SomebodyLooks, RoundsCounted,
              InputHeld, Bounded, turnVars, envVars
<1>5. QuietRows
  BY <1>1, <1>2, ConstantsAssumption DEF QuietRows, Fresh, TypeOK, turnVars, userVars, envVars
<1> QED BY <1>1, <1>3, <1>4, <1>5, QuietRowsKeep DEF IInv, ControlInv

LEMMA StepKeeps == IInv /\ [Next]_vars => IInv' /\ Placed
BY NextKeeps, StutterKeeps

-----------------------------------------------------------------------------
(* Every reachable state of mailbox, lock, turns and history satisfies the *)
(* invariant, whatever start_if_idle, the drains, the users, crashes and   *)
(* failing stores do.                                                      *)
THEOREM Invariance == Spec => []IInv
<1>1. IInv /\ [Next]_vars => IInv'
  BY StepKeeps
<1> QED BY InitEstablishes, <1>1, PTL DEF Spec

(* Rows, lock and turns stay well typed, and a turn begins MaxRounds       *)
(* rounds at most (round.rs, limits.max_rounds).                           *)
THEOREM TypeCorrect == Spec => []TypeOK
<1>1. IInv => TypeOK
  BY DEF IInv, ControlInv
<1> QED BY <1>1, Invariance, PTL

(* start_if_idle: however many calls race for the row, one turn lives.     *)
THEOREM TurnsExclude == Spec => []OneLiveTurn
<1>1. IInv => OneLiveTurn
  BY DEF IInv, ControlInv, LockFollowsTurns, OneLiveTurn
<1> QED BY <1>1, Invariance, PTL

(* deliver_and_append: a row that was not resubmitted is pending, in a     *)
(* turn's memory or in the history, in one of the three only.              *)
THEOREM RowsAreInOnePlace == Spec => []OnePlace
<1>1. IInv => OnePlace
  BY DEF IInv, RowsInv
<1> QED BY <1>1, Invariance, PTL

(* submit, start_if_idle and drain_steering together lose no accepted      *)
(* submission while the process lives and the store works.                 *)
THEOREM AcceptedIsAccountedFor == Spec => []NothingLostWithoutFaults
<1>1. IInv => NothingLostWithoutFaults
  BY DEF IInv, RowsInv
<1> QED BY <1>1, Invariance, PTL

(* The second start_if_idle after drop(guard) leaves no row behind.        *)
THEOREM NobodyForgetsMail == Spec => []NoStrandedMail
<1>1. IInv => NoStrandedMail
  BY DEF IInv, ControlInv, SomebodyLooks, NoStrandedMail, Quiet
<1> QED BY <1>1, Invariance, PTL

(* Every way out of start_if_idle and of the turn task drops the guard: a  *)
(* row without a turn is the trace of a crash or of a failed DELETE.       *)
THEOREM LocksAreReturned == Spec => []NoOrphanLock
<1>1. IInv => NoOrphanLock
  BY DEF IInv, ControlInv, TypeOK, LockFollowsTurns, Live, NoOrphanLock, Quiet
<1> QED BY <1>1, Invariance, PTL

(* cancel, deliver_and_append, skip and take: a row that leaves the        *)
(* mailbox goes to a turn or the history, or the user took it back, or     *)
(* there was nothing to read in it.                                        *)
THEOREM RowsGoSomewhere == Spec => RowsLeaveForAPlace
<1> DEFINE Leaves == \A s \in SubsOf(mail) \ SubsOf(mail') :
                        \/ s \in withdrawn' \cup Unreadable \cup {e.sub : e \in entries'}
                        \/ \E t \in Turns : s \in SubsOf(input'[t])
<1>1. IInv /\ [Next]_vars => Leaves
  BY StepKeeps DEF Placed, Accounted, SubsOf, InHistory
<1> HIDE DEF Leaves
<1>2. Spec => [][Leaves]_vars
  BY <1>1, Invariance, PTL DEF Spec
<1> QED BY <1>2 DEF RowsLeaveForAPlace, Leaves

=============================================================================

-------------------------- MODULE SessionLockProofs --------------------------
(***************************************************************************)
(* Proofs about SessionLock for any set of claims and any timing that      *)
(* satisfies TimingAssumption.                                             *)
(*                                                                         *)
(* Mutual exclusion does not follow from the conditional UPDATE alone: it  *)
(* needs the bound on how old the row of a punctual turn can get           *)
(* (PunctualOwns), and that nobody who judged a row stale had judged the   *)
(* row of a punctual turn (JudgedLate).                                    *)
(***************************************************************************)
EXTENDS SessionLock, TLAPS

(* A claim that has not written a row yet owns none. *)
NotYetOwner ==
    \A h \in Claims : pc[h] \in {"idle", "conflict", "judged"} => lock # h

(* A claim that wrote the row and has not read it back yet still owns it:  *)
(* the row is as old as the claim's own clock.                             *)
FreshOwns ==
    \A h \in Claims : pc[h] = "acquired" =>
        lock = h /\ age = wait[h] /\ wait[h] <= AcquireLimit

(* Whoever was judged stale had read its row back, and if it still writes  *)
(* it was suspended.                                                       *)
JudgedLate ==
    \A g \in Claims : pc[g] = "judged" =>
        /\ seen[g] \in Claims
        /\ pc[seen[g]] \in {"running", "told", "done", "dead"}
        /\ Writing(seen[g]) => seen[g] \in slept

(* A turn that was never suspended owns the row, which is at most as old   *)
(* as its failed heartbeats allow.                                         *)
PunctualOwns ==
    \A h \in Claims : Writing(h) /\ h \notin slept =>
        /\ pc[h] = "running"
        /\ lock = h
        /\ wait[h] <= Period
        /\ age <= AcquireLimit + misses[h] * Period + wait[h]

SleepersCounted == asleep \subseteq slept

(* A claim that has no turn has failed no heartbeat and was not suspended. *)
CleanStart ==
    \A h \in Claims : ~Writing(h) => misses[h] = 0 /\ h \notin slept

IInv ==
    /\ TypeOK
    /\ NotYetOwner
    /\ FreshOwns
    /\ JudgedLate
    /\ GuardIsOwn
    /\ PunctualOwns
    /\ SleepersCounted
    /\ CleanStart

-----------------------------------------------------------------------------
LEMMA PeriodType == Period \in Nat /\ AgeCap \in Nat
BY TimingAssumption DEF Period, AgeCap

(* The largest age a punctual turn's row can reach is still fresh. *)
LEMMA PunctualIsFresh ==
    ASSUME NEW m \in 0..MaxMisses, NEW w \in Nat, w <= Period
    PROVE  AcquireLimit + m * Period + w <= StaleAfter
<1>1. Period \in Nat
    BY PeriodType
<1>2. m * Period <= MaxMisses * Period
    BY <1>1, TimingAssumption
<1>3. (MaxMisses + 1) * Period = MaxMisses * Period + Period
    BY <1>1, TimingAssumption
<1>4. m * Period \in Nat /\ MaxMisses * Period \in Nat
    BY <1>1, TimingAssumption
<1> HIDE DEF Period
<1> QED
    BY <1>1, <1>2, <1>3, <1>4, TimingAssumption

(* Initially nobody holds, judges or writes anything. *)
LEMMA InitIInv == Init => IInv
<1> SUFFICES ASSUME Init PROVE IInv
    OBVIOUS
<1>1. TypeOK
    BY TimingAssumption, PeriodType DEF Init, TypeOK, PCs, Acquiring
<1> QED
    BY <1>1, ClaimsAssumption
    DEF Init, IInv, NotYetOwner, FreshOwns, JudgedLate, GuardIsOwn, PunctualOwns,
        SleepersCounted, CleanStart, Writing

(* A claim that ends takes its memory with it and leaves the others alone; *)
(* the row stays, or goes if it was its own.                               *)
LEMMA EndIInv ==
    ASSUME IInv, NEW h \in Claims, NEW how \in {"done", "dead"}, End(h, how),
           pc[h] # "idle", age' = age,
           lock' = lock \/ (lock = h /\ lock' = NoClaim)
    PROVE  IInv'
<1> USE DEF Writing
<1>1. TypeOK'
    BY TimingAssumption, PeriodType DEF IInv, TypeOK, End, PCs
<1>2. NotYetOwner'
    BY ClaimsAssumption DEF IInv, TypeOK, NotYetOwner, End
<1>3. FreshOwns'
    BY DEF IInv, TypeOK, FreshOwns, End
<1>4. JudgedLate'
    BY DEF IInv, TypeOK, JudgedLate, End
<1>5. GuardIsOwn'
    BY DEF IInv, TypeOK, GuardIsOwn, End
<1>6. PunctualOwns'
    BY DEF IInv, TypeOK, PunctualOwns, End
<1>7. SleepersCounted' /\ CleanStart'
    BY DEF IInv, TypeOK, SleepersCounted, CleanStart, End
<1> QED
    BY <1>1, <1>2, <1>3, <1>4, <1>5, <1>6, <1>7 DEF IInv

(* The INSERT: a row is written only where there is none, so no punctual   *)
(* turn and no fresh claim is left without its row.                        *)
LEMMA InsertIInv ==
    ASSUME IInv, NEW h \in Claims, Insert(h)
    PROVE  IInv'
<1> USE DEF Writing
<1>1. TypeOK'
    BY TimingAssumption DEF IInv, TypeOK, Insert, PCs, Acquiring, AgeCap
<1>2. NotYetOwner'
    BY ClaimsAssumption DEF IInv, TypeOK, NotYetOwner, Insert
<1>3. FreshOwns'
    BY ClaimsAssumption, TimingAssumption DEF IInv, TypeOK, FreshOwns, Insert
<1>4. JudgedLate'
    BY DEF IInv, TypeOK, JudgedLate, Insert
<1>5. GuardIsOwn'
    BY DEF IInv, TypeOK, GuardIsOwn, Insert
<1>6. PunctualOwns'
    BY ClaimsAssumption DEF IInv, TypeOK, PunctualOwns, Insert
<1>7. SleepersCounted' /\ CleanStart'
    BY DEF IInv, TypeOK, SleepersCounted, CleanStart, Insert
<1> QED
    BY <1>1, <1>2, <1>3, <1>4, <1>5, <1>6, <1>7 DEF IInv

(* The row of a claim that is still fresh, or of a punctual turn, is never *)
(* judged stale.                                                           *)
LEMMA StaleIsLate ==
    ASSUME IInv, NEW h \in Claims, lock # NoClaim, StaleAt(h)
    PROVE  /\ lock \in Claims
           /\ pc[lock] \in {"running", "told", "done", "dead"}
           /\ Writing(lock) => lock \in slept
<1>1. lock \in Claims /\ age \in Nat /\ age > StaleAfter
    BY TimingAssumption, PeriodType DEF IInv, TypeOK, StaleAt
<1>2. pc[lock] # "acquired"
    BY <1>1, TimingAssumption, PunctualIsFresh, PeriodType DEF IInv, TypeOK, FreshOwns
<1>3. pc[lock] \in {"running", "told", "done", "dead"}
    BY <1>1, <1>2 DEF IInv, TypeOK, NotYetOwner, PCs, Acquiring
<1>4. ASSUME Writing(lock), lock \notin slept PROVE FALSE
    <2>1. /\ wait[lock] \in Nat /\ misses[lock] \in 0..MaxMisses
          /\ wait[lock] <= Period
          /\ age <= AcquireLimit + misses[lock] * Period + wait[lock]
        BY <1>1, <1>4 DEF IInv, TypeOK, PunctualOwns
    <2>2. AcquireLimit + misses[lock] * Period + wait[lock] <= StaleAfter
        BY <2>1, PunctualIsFresh
    <2>3. misses[lock] * Period \in Nat
        BY <2>1, PeriodType, TimingAssumption
    <2> QED
        BY <1>1, <2>1, <2>2, <2>3, TimingAssumption
<1> QED
    BY <1>1, <1>3, <1>4

(* The read that judges. *)
LEMMA ReadRowIInv ==
    ASSUME IInv, NEW h \in Claims, ReadRow(h)
    PROVE  IInv'
<1> USE DEF Writing
<1>1. CASE End(h, "done") /\ UNCHANGED <<lock, age>>
    BY <1>1, EndIInv DEF ReadRow
<1>2. CASE /\ lock # NoClaim /\ StaleAt(h)
           /\ pc' = [pc EXCEPT ![h] = "judged"]
           /\ seen' = [seen EXCEPT ![h] = lock]
           /\ UNCHANGED <<guard, wait, misses, asleep, slept, lock, age>>
    <2>0. pc[h] = "conflict" /\ lock # h
        BY DEF ReadRow, IInv, NotYetOwner
    <2>1. TypeOK'
        BY <1>2 DEF IInv, TypeOK, PCs, Acquiring
    <2>2. NotYetOwner'
        BY <1>2, <2>0 DEF IInv, TypeOK, NotYetOwner
    <2>3. FreshOwns'
        BY <1>2, <2>0 DEF IInv, TypeOK, FreshOwns
    <2>4. JudgedLate'
        BY <1>2, <2>0, StaleIsLate DEF IInv, TypeOK, JudgedLate
    <2>5. GuardIsOwn'
        BY <1>2, <2>0 DEF IInv, TypeOK, GuardIsOwn
    <2>6. PunctualOwns'
        BY <1>2, <2>0 DEF IInv, TypeOK, PunctualOwns
    <2>7. SleepersCounted' /\ CleanStart'
        BY <1>2, <2>0 DEF IInv, TypeOK, SleepersCounted, CleanStart
    <2> QED
        BY <2>1, <2>2, <2>3, <2>4, <2>5, <2>6, <2>7 DEF IInv
<1> QED
    BY <1>1, <1>2 DEF ReadRow

(* The conditional UPDATE: the row it overwrites belongs to nobody fresh   *)
(* and to no punctual turn, because of what the thief saw.                 *)
LEMMA StealIInv ==
    ASSUME IInv, NEW h \in Claims, Steal(h)
    PROVE  IInv'
<1> USE DEF Writing
<1>1. CASE End(h, "done") /\ UNCHANGED <<lock, age>>
    BY <1>1, EndIInv DEF Steal
<1>2. CASE /\ lock = seen[h]
           /\ lock' = h
           /\ age' = 0
           /\ pc' = [pc EXCEPT ![h] = "acquired"]
           /\ seen' = [seen EXCEPT ![h] = NoClaim]
           /\ wait' = [wait EXCEPT ![h] = 0]
           /\ UNCHANGED <<guard, misses, asleep, slept>>
    <2>0. /\ pc[h] = "judged"
          /\ lock \in Claims
          /\ pc[lock] \in {"running", "told", "done", "dead"}
          /\ Writing(lock) => lock \in slept
        BY <1>2 DEF Steal, IInv, JudgedLate
    <2>1. TypeOK'
        BY <1>2, PeriodType DEF IInv, TypeOK, PCs, Acquiring
    <2>2. NotYetOwner'
        BY <1>2, <2>0 DEF IInv, TypeOK, NotYetOwner
    <2>3. FreshOwns'
        BY <1>2, <2>0, TimingAssumption DEF IInv, TypeOK, FreshOwns
    <2>4. JudgedLate'
        BY <1>2, <2>0 DEF IInv, TypeOK, JudgedLate
    <2>5. GuardIsOwn'
        BY <1>2, <2>0 DEF IInv, TypeOK, GuardIsOwn
    <2>6. PunctualOwns'
        BY <1>2, <2>0 DEF IInv, TypeOK, PunctualOwns
    <2>7. SleepersCounted' /\ CleanStart'
        BY <1>2, <2>0 DEF IInv, TypeOK, SleepersCounted, CleanStart
    <2> QED
        BY <2>1, <2>2, <2>3, <2>4, <2>5, <2>6, <2>7 DEF IInv
<1> QED
    BY <1>1, <1>2 DEF Steal

(* The read-back finds the claim's own row. *)
LEMMA ReadBackIInv ==
    ASSUME IInv, NEW h \in Claims, ReadBack(h)
    PROVE  IInv'
<1> USE DEF Writing
<1>0. pc[h] = "acquired" /\ lock = h /\ age = wait[h] /\ wait[h] <= AcquireLimit
    BY DEF ReadBack, IInv, FreshOwns
<1>1. /\ pc' = [pc EXCEPT ![h] = "running"]
      /\ guard' = [guard EXCEPT ![h] = h]
      /\ wait' = [wait EXCEPT ![h] = 0]
      /\ UNCHANGED <<seen, misses, asleep, slept, lock, age>>
    BY <1>0, ClaimsAssumption DEF ReadBack
<1>2. TypeOK'
    BY <1>1, PeriodType DEF IInv, TypeOK, PCs, Acquiring
<1>3. NotYetOwner' /\ FreshOwns'
    BY <1>0, <1>1 DEF IInv, TypeOK, NotYetOwner, FreshOwns
<1>4. JudgedLate'
    BY <1>0, <1>1 DEF IInv, TypeOK, JudgedLate
<1>5. GuardIsOwn'
    BY <1>0, <1>1 DEF IInv, TypeOK, GuardIsOwn
<1>6. PunctualOwns'
    <2>1. misses[h] = 0 /\ misses[h] * Period = 0
        BY <1>0, PeriodType DEF IInv, CleanStart
    <2> QED
        BY <1>0, <1>1, <2>1, PeriodType, TimingAssumption DEF IInv, TypeOK, PunctualOwns
<1>7. SleepersCounted' /\ CleanStart'
    BY <1>0, <1>1 DEF IInv, TypeOK, SleepersCounted, CleanStart
<1> QED
    BY <1>2, <1>3, <1>4, <1>5, <1>6, <1>7 DEF IInv

(* A heartbeat refreshes the turn's own row, or finds that it was lost,    *)
(* which happens to suspended turns only.                                  *)
LEMMA HeartbeatIInv ==
    ASSUME IInv, NEW h \in Claims, Heartbeat(h)
    PROVE  IInv'
<1> USE DEF Writing
<1>0. pc[h] = "running" /\ guard[h] = h
    BY DEF Heartbeat, IInv, GuardIsOwn
<1>1. TypeOK'
    BY PeriodType, TimingAssumption DEF IInv, TypeOK, PCs, Heartbeat
<1>2. NotYetOwner'
    BY <1>0 DEF IInv, TypeOK, NotYetOwner, Heartbeat
<1>3. FreshOwns'
    BY <1>0 DEF IInv, TypeOK, FreshOwns, Heartbeat
<1>4. JudgedLate'
    BY <1>0 DEF IInv, TypeOK, JudgedLate, Heartbeat
<1>5. GuardIsOwn'
    BY <1>0 DEF IInv, TypeOK, GuardIsOwn, Heartbeat
<1>6. PunctualOwns'
    <2>1. CASE lock = h
        <3>1. /\ age' = 0 /\ wait' = [wait EXCEPT ![h] = 0]
              /\ misses' = [misses EXCEPT ![h] = 0]
              /\ UNCHANGED <<lock, pc, slept>>
            BY <1>0, <2>1 DEF Heartbeat
        <3>2. 0 * Period = 0
            BY PeriodType
        <3> QED
            BY <1>0, <2>1, <3>1, <3>2, PeriodType, TimingAssumption
            DEF IInv, TypeOK, PunctualOwns
    <2>2. CASE lock # h
        BY <1>0, <2>2 DEF IInv, TypeOK, PunctualOwns, Heartbeat
    <2> QED
        BY <2>1, <2>2
<1>7. SleepersCounted' /\ CleanStart'
    BY <1>0 DEF IInv, TypeOK, SleepersCounted, CleanStart, Heartbeat
<1> QED
    BY <1>1, <1>2, <1>3, <1>4, <1>5, <1>6, <1>7 DEF IInv

(* A failed heartbeat costs the row one more period. *)
LEMMA HeartbeatFailsIInv ==
    ASSUME IInv, NEW h \in Claims, HeartbeatFails(h)
    PROVE  IInv'
<1> USE DEF Writing
<1>1. TypeOK'
    BY TimingAssumption DEF IInv, TypeOK, HeartbeatFails
<1>2. NotYetOwner' /\ FreshOwns' /\ JudgedLate'
    BY DEF IInv, TypeOK, NotYetOwner, FreshOwns, JudgedLate, HeartbeatFails
<1>3. GuardIsOwn' /\ SleepersCounted' /\ CleanStart'
    BY DEF IInv, TypeOK, GuardIsOwn, SleepersCounted, CleanStart, HeartbeatFails
<1>4. PunctualOwns'
    <2>1. misses[h] \in Nat /\ wait[h] \in Nat /\ age \in Nat
        BY TimingAssumption, PeriodType DEF IInv, TypeOK
    <2>2. /\ (misses[h] + 1) * Period = misses[h] * Period + Period
          /\ misses[h] * Period \in Nat
        BY <2>1, PeriodType
    <2>3. h \notin slept => age <= AcquireLimit + (misses[h] + 1) * Period + 0
        BY <2>1, <2>2, PeriodType, TimingAssumption DEF IInv, PunctualOwns, HeartbeatFails
    <2> QED
        BY <2>1, <2>3, PeriodType DEF IInv, TypeOK, PunctualOwns, HeartbeatFails
<1> QED
    BY <1>1, <1>2, <1>3, <1>4 DEF IInv

(* Only a running turn is suspended, and only a suspended one resumes. *)
LEMMA SuspendIInv ==
    ASSUME IInv, NEW h \in Claims, Suspend(h) \/ Resume(h)
    PROVE  IInv'
<1> USE DEF Writing
<1>1. TypeOK'
    BY TimingAssumption DEF IInv, TypeOK, Suspend, Resume
<1>2. NotYetOwner' /\ GuardIsOwn' /\ SleepersCounted' /\ CleanStart'
    BY DEF IInv, TypeOK, NotYetOwner, GuardIsOwn, SleepersCounted, CleanStart, Suspend, Resume
<1>3. FreshOwns'
    BY DEF IInv, TypeOK, FreshOwns, Suspend, Resume
<1>4. JudgedLate'
    BY DEF IInv, TypeOK, JudgedLate, Suspend, Resume
<1>5. PunctualOwns'
    BY DEF IInv, TypeOK, PunctualOwns, SleepersCounted, Suspend, Resume
<1> QED
    BY <1>1, <1>2, <1>3, <1>4, <1>5 DEF IInv

(* Time passes for the row and for every clock that runs, and stops at the *)
(* deadline of a process that is not suspended.                            *)
LEMMA TickIInv ==
    ASSUME IInv, Tick
    PROVE  IInv'
<1> USE DEF Writing
<1>1. TypeOK'
    <2>1. age' \in 0..AgeCap
        BY PeriodType DEF IInv, TypeOK, Tick
    <2>2. wait' \in [Claims -> Nat]
        BY DEF IInv, TypeOK, Tick
    <2> QED
        BY <2>1, <2>2 DEF IInv, TypeOK, Tick
<1>2. NotYetOwner' /\ GuardIsOwn' /\ SleepersCounted' /\ CleanStart' /\ JudgedLate'
    BY DEF IInv, NotYetOwner, GuardIsOwn, SleepersCounted, CleanStart, JudgedLate, Tick
<1>3. FreshOwns'
    <2> SUFFICES ASSUME NEW h \in Claims, pc[h] = "acquired"
                 PROVE  lock = h /\ age' = wait'[h] /\ wait'[h] <= AcquireLimit
        BY DEF FreshOwns, Tick
    <2>1. /\ lock = h /\ age = wait[h] /\ wait[h] \in Nat
          /\ ~(wait[h] >= AcquireLimit)
        BY DEF IInv, TypeOK, FreshOwns, Tick, Overdue, Acquiring
    <2>2. wait'[h] = wait[h] + 1
        BY DEF Tick, Waiting, Acquiring
    <2>3. age' = age + 1
        BY <2>1, TimingAssumption DEF Tick, AgeCap
    <2> QED
        BY <2>1, <2>2, <2>3, TimingAssumption
<1>4. PunctualOwns'
    <2> SUFFICES ASSUME NEW h \in Claims, Writing(h), h \notin slept
                 PROVE  /\ pc[h] = "running" /\ lock = h
                        /\ wait'[h] <= Period
                        /\ age' <= AcquireLimit + misses[h] * Period + wait'[h]
        BY DEF PunctualOwns, Tick
    <2>1. /\ pc[h] = "running" /\ lock = h /\ Awake(h)
          /\ wait[h] \in Nat /\ age \in Nat /\ misses[h] \in Nat
          /\ age <= AcquireLimit + misses[h] * Period + wait[h]
        BY PeriodType, TimingAssumption
        DEF IInv, TypeOK, PunctualOwns, SleepersCounted, Awake
    <2>2. ~(wait[h] >= Period)
        BY <2>1 DEF Tick, Overdue
    <2>3. wait'[h] = wait[h] + 1
        BY <2>1 DEF Tick, Waiting
    <2>4. age' <= age + 1 /\ age' \in Nat
        BY <2>1 DEF Tick
    <2>5. misses[h] * Period \in Nat
        BY <2>1, PeriodType
    <2> QED
        BY <2>1, <2>2, <2>3, <2>4, <2>5, PeriodType, TimingAssumption
<1> QED
    BY <1>1, <1>2, <1>3, <1>4 DEF IInv

(* Every step keeps the invariant. *)
LEMMA NextIInv == IInv /\ [Next]_vars => IInv'
<1> SUFFICES ASSUME IInv, [Next]_vars PROVE IInv'
    OBVIOUS
<1>1. CASE UNCHANGED vars
    BY <1>1 DEF vars, IInv, TypeOK, NotYetOwner, FreshOwns, JudgedLate, GuardIsOwn,
        PunctualOwns, SleepersCounted, CleanStart, Writing
<1>2. CASE Tick
    BY <1>2, TickIInv
<1>3. ASSUME NEW h \in Claims, Step(h) PROVE IInv'
    <2>1. CASE Insert(h)
        BY <2>1, InsertIInv
    <2>2. CASE ReadRow(h)
        BY <2>2, ReadRowIInv
    <2>3. CASE Steal(h)
        BY <2>3, StealIInv
    <2>4. CASE ReadBack(h)
        BY <2>4, ReadBackIInv
    <2>5. CASE AcquireFails(h)
        BY <2>5, EndIInv DEF AcquireFails, Acquiring
    <2>6. CASE Heartbeat(h)
        BY <2>6, HeartbeatIInv
    <2>7. CASE HeartbeatFails(h)
        BY <2>7, HeartbeatFailsIInv
    <2>8. CASE Release(h)
        <3>1. guard[h] = h /\ pc[h] # "idle"
            BY <2>8 DEF IInv, GuardIsOwn, Release, Writing
        <3> QED
            BY <2>8, <3>1, EndIInv DEF Release
    <2>9. CASE ReleaseFails(h)
        BY <2>9, EndIInv DEF ReleaseFails, Writing
    <2>10. CASE Crash(h)
        BY <2>10, EndIInv DEF Crash, Acquiring
    <2>11. CASE Suspend(h) \/ Resume(h)
        BY <2>11, SuspendIInv
    <2> QED
        BY <1>3, <2>1, <2>2, <2>3, <2>4, <2>5, <2>6, <2>7, <2>8, <2>9, <2>10, <2>11
        DEF Step
<1> QED
    BY <1>1, <1>2, <1>3 DEF Next

(* The inductive invariant holds in every reachable state. *)
THEOREM Invariance == Spec => []IInv
BY InitIInv, NextIInv, PTL DEF Spec

(* Every variable keeps its type: the row names a claim or nothing, ages   *)
(* and failed heartbeats stay within their bounds.                         *)
THEOREM TypeCorrect == Spec => []TypeOK
<1>1. IInv => TypeOK
    BY DEF IInv
<1> QED
    BY <1>1, Invariance, PTL

(* Two turns of a session write at once only if one of them belongs to a   *)
(* process that was suspended, for any number of processes and any timing  *)
(* with AcquireLimit + (MaxMisses + 1) * Period <= STALE_AFTER.            *)
THEOREM Exclusion == Spec => []TimelyTurnsExclusive
<1>1. IInv => TimelyTurnsExclusive
    BY DEF IInv, PunctualOwns, TimelyTurnsExclusive
<1> QED
    BY <1>1, Invariance, PTL

(* The LockGuard that claim() builds from its second read names the row    *)
(* the claim wrote.                                                        *)
THEOREM GuardCorrect == Spec => []GuardIsOwn
<1>1. IInv => GuardIsOwn
    BY DEF IInv
<1> QED
    BY <1>1, Invariance, PTL

(* LockGuard::drop and crashes never remove the row of another turn. *)
THEOREM ReleaseCorrect == Spec => ReleaseOnlyOwn
<1>1. IInv /\ [Next]_vars =>
        [lock # NoClaim /\ lock' = NoClaim =>
            \E h \in Claims : h = lock /\ Writing(h) /\ pc'[h] = "done"]_vars
    <2> SUFFICES ASSUME IInv, Next, lock # NoClaim, lock' = NoClaim
                 PROVE  \E h \in Claims : h = lock /\ Writing(h) /\ pc'[h] = "done"
        OBVIOUS
    <2>1. PICK h \in Claims : Step(h)
        BY DEF Next, Tick
    <2>2. Release(h)
        BY <2>1, ClaimsAssumption
        DEF Step, Insert, ReadRow, Steal, ReadBack, AcquireFails, Heartbeat,
            HeartbeatFails, ReleaseFails, Crash, Suspend, Resume
    <2>3. h = lock /\ Writing(h)
        BY <2>2 DEF Release, IInv, GuardIsOwn
    <2>4. pc'[h] = "done"
        BY <2>2 DEF Release, End, IInv, TypeOK
    <2> QED
        BY <2>3, <2>4
<1> QED
    BY <1>1, Invariance, PTL DEF Spec, ReleaseOnlyOwn

(* A turn that was taken over never owns the row again. *)
THEOREM LostStaysLost == Spec => LostForGood
<1>1. IInv /\ [Next]_vars =>
        [\A h \in Claims : Writing(h) /\ lock # h => lock' # h]_vars
    <2> SUFFICES ASSUME IInv, Next, NEW h \in Claims, Writing(h), lock # h
                 PROVE  lock' # h
        OBVIOUS
    <2>1. CASE Tick
        BY <2>1 DEF Tick
    <2>2. ASSUME NEW g \in Claims, Step(g) PROVE lock' # h
        <3>1. lock' \in {lock, NoClaim, g} /\ (lock' = g /\ lock # g => ~Writing(g))
            BY <2>2, ClaimsAssumption
            DEF Step, Insert, ReadRow, Steal, ReadBack, AcquireFails, Heartbeat,
                HeartbeatFails, Release, ReleaseFails, Crash, Suspend, Resume, Writing
        <3> QED
            BY <3>1, ClaimsAssumption
    <2> QED
        BY <2>1, <2>2 DEF Next
<1> QED
    BY <1>1, Invariance, PTL DEF Spec, LostForGood

=============================================================================

------------------------ MODULE ConnectionPoolProofs ------------------------
(***************************************************************************)
(* The connection pool keeps its invariants for any number of threads and  *)
(* any cap.  Room is what a thread that looks now could have: the idle     *)
(* connections and the slots not yet reserved.  Nobody sleeps while there  *)
(* is more room than threads about to look for it.                         *)
(***************************************************************************)
EXTENDS ConnectionPool, FiniteSetTheorems, TLAPS

Slots == IF OnDisk THEN Cap - open - opening ELSE 0

Wakeups ==
    At("waiting") # {} => Cardinality(idle) + Slots <= Cardinality(At("want"))

IInv == TypeOK /\ Exclusive /\ CapRespected /\ Wakeups
             /\ (\A t \in Using : held[t] \in Conns)

(* Counting threads. *)
LEMMA Finite ==
    ASSUME NEW S \in SUBSET Threads
    PROVE  IsFiniteSet(S) /\ Cardinality(S) \in Nat
BY PoolAssumption, FS_Subset, FS_CardinalityType

LEMMA Grows ==
    ASSUME NEW S \in SUBSET Threads, NEW t \in Threads, t \notin S
    PROVE  Cardinality(S \cup {t}) = Cardinality(S) + 1
BY Finite, FS_AddElement

LEMMA Shrinks ==
    ASSUME NEW S \in SUBSET Threads, NEW t \in S
    PROVE  Cardinality(S \ {t}) = Cardinality(S) - 1
BY Finite, FS_RemoveElement

LEMMA AreThreads ==
    ASSUME NEW pcs, NEW label
    PROVE  Where(pcs, label) \in SUBSET Threads
BY DEF Where

(* notify_one moves a sleeper, if there is one, to those who will look. *)
LEMMA Notified ==
    ASSUME NEW p \in [Threads -> PCs], NEW q \in NotifyOne(p)
    PROVE  /\ q \in [Threads -> PCs]
           /\ Where(q, "using") = Where(p, "using")
           /\ Where(q, "opening") = Where(p, "opening")
           /\ Where(q, "waiting") \subseteq Where(p, "waiting")
           /\ Cardinality(Where(q, "want")) >= Cardinality(Where(p, "want"))
           /\ Where(p, "waiting") # {} =>
                 Cardinality(Where(q, "want")) = Cardinality(Where(p, "want")) + 1
<1>1. CASE Where(p, "waiting") = {}
  <2>1. q = p
    BY <1>1 DEF NotifyOne
  <2>2. Cardinality(Where(p, "want")) \in Nat
    BY AreThreads, Finite
  <2> QED BY <1>1, <2>1, <2>2
<1>2. CASE Where(p, "waiting") # {}
  <2>1. PICK w \in Where(p, "waiting") : q = [p EXCEPT ![w] = "want"]
    BY <1>2 DEF NotifyOne
  <2>2. w \in Threads /\ p[w] = "waiting"
    BY <2>1 DEF Where
  <2>3. q \in [Threads -> PCs]
    BY <2>1, <2>2 DEF PCs
  <2>4. /\ Where(q, "using") = Where(p, "using")
        /\ Where(q, "opening") = Where(p, "opening")
        /\ Where(q, "waiting") \subseteq Where(p, "waiting")
        /\ Where(q, "want") = Where(p, "want") \cup {w}
        /\ w \notin Where(p, "want")
    BY <2>1, <2>2 DEF Where
  <2>5. Cardinality(Where(q, "want")) = Cardinality(Where(p, "want")) + 1
    BY <2>2, <2>4, AreThreads, Grows
  <2>6. Cardinality(Where(p, "want")) \in Nat
    BY AreThreads, Finite
  <2> QED BY <2>3, <2>4, <2>5, <2>6
<1> QED BY <1>1, <1>2

-----------------------------------------------------------------------------
LEMMA InitEstablishes == Init => IInv
<1> SUFFICES ASSUME Init PROVE IInv
  OBVIOUS
<1>1. IsFiniteSet(Initial) /\ Cardinality(Initial) \in Nat
  BY PoolAssumption, FS_Subset, FS_CardinalityType
<1>2. At("waiting") = {} /\ At("opening") = {} /\ Using = {}
  BY DEF Init, At, Where, Using
<1>3. TypeOK
  BY <1>1, PoolAssumption DEF Init, TypeOK, PCs
<1>4. Exclusive /\ CapRespected
  BY <1>1, <1>2, FS_EmptySet, PoolAssumption DEF Init, Exclusive, CapRespected
<1> QED BY <1>2, <1>3, <1>4 DEF IInv, Wakeups

(* The facts about sizes every action needs. *)
LEMMA Sizes ==
    ASSUME IInv
    PROVE  /\ IsFiniteSet(idle)
           /\ Cardinality(idle) \in Nat
           /\ Cap \in Nat /\ open \in Nat /\ opening \in Nat
           /\ Cardinality(At("want")) \in Nat
           /\ Cardinality(At("opening")) \in Nat
           /\ Cardinality(Using) \in Nat
BY PoolAssumption, FS_Subset, FS_CardinalityType, AreThreads, Finite
   DEF IInv, TypeOK, At, Using

LEMMA Places ==
    /\ Using \in SUBSET Threads
    /\ At("want") \in SUBSET Threads
    /\ At("opening") \in SUBSET Threads
BY DEF Using, At, Where

LEMMA CallKeeps ==
    ASSUME IInv, NEW t \in Threads, Call(t)
    PROVE  IInv'
<1>1. /\ Using' = Using
      /\ At("opening")' = At("opening")
      /\ At("waiting")' = At("waiting")
      /\ At("want")' = At("want") \cup {t}
      /\ t \notin At("want")
  BY DEF IInv, Call, TypeOK, Using, At, Where
<1>2. Cardinality(At("want")') = Cardinality(At("want")) + 1
  BY <1>1, Places, Grows
<1>3. TypeOK'
  BY PoolAssumption DEF IInv, TypeOK, Call, PCs
<1>4. Wakeups'
  BY <1>1, <1>2, Sizes DEF IInv, Wakeups, Slots, Call
<1> QED BY <1>1, <1>3, <1>4 DEF IInv, Exclusive, CapRespected, Call

(* A thread that joins those using a connection with one nobody else has. *)
LEMMA Joins ==
    ASSUME IInv, NEW t \in Threads \ Using, NEW c \in Conns \ HeldConns,
           held' = [held EXCEPT ![t] = c], Using' = Using \cup {t},
           c \notin idle', idle' \subseteq idle
    PROVE  /\ \A u, v \in Using' : held'[u] = held'[v] => u = v
           /\ \A u \in Using' : held'[u] \notin idle' /\ held'[u] \in Conns
           /\ Cardinality(Using') = Cardinality(Using) + 1
<1>1. /\ \A u \in Using : held'[u] = held[u] /\ held[u] # c
      /\ held'[t] = c
  BY Places DEF IInv, TypeOK, HeldConns
<1>2. Cardinality(Using') = Cardinality(Using) + 1
  BY Places, Grows
<1> QED BY <1>1, <1>2 DEF IInv, Exclusive

LEMMA TakeIdleKeeps ==
    ASSUME IInv, NEW t \in Threads, TakeIdle(t)
    PROVE  IInv'
<1>1. PICK c \in idle : idle' = idle \ {c} /\ held' = [held EXCEPT ![t] = c]
  BY DEF TakeIdle
<1>2. /\ Using' = Using \cup {t} /\ t \notin Using
      /\ At("opening")' = At("opening")
      /\ At("waiting")' = At("waiting")
      /\ At("want")' = At("want") \ {t} /\ t \in At("want")
  BY DEF IInv, TakeIdle, TypeOK, Using, At, Where
<1>3. Cardinality(At("want")') = Cardinality(At("want")) - 1
  BY <1>2, Places, Shrinks
<1>4. Cardinality(idle') = Cardinality(idle) - 1
  BY <1>1, Sizes, FS_RemoveElement
<1>5. TypeOK'
  BY <1>1 DEF IInv, TypeOK, TakeIdle, PCs
<1>6. c \in Conns \ HeldConns /\ c \notin idle' /\ idle' \subseteq idle
  BY <1>1 DEF IInv, TypeOK, Exclusive, HeldConns
<1>7. /\ \A u, v \in Using' : held'[u] = held'[v] => u = v
      /\ \A u \in Using' : held'[u] \notin idle' /\ held'[u] \in Conns
      /\ Cardinality(Using') = Cardinality(Using) + 1
  BY <1>1, <1>2, <1>6, Joins
<1>8. Exclusive' /\ \A u \in Using' : held'[u] \in Conns
  BY <1>4, <1>7, Sizes DEF IInv, Exclusive, TakeIdle
<1>9. CapRespected' /\ Wakeups'
  BY <1>2, <1>3, <1>4, Sizes DEF IInv, CapRespected, Wakeups, Slots, TakeIdle
<1> QED BY <1>5, <1>8, <1>9 DEF IInv

LEMMA ReserveKeeps ==
    ASSUME IInv, NEW t \in Threads, Reserve(t)
    PROVE  IInv'
<1>1. /\ Using' = Using
      /\ At("waiting")' = At("waiting")
      /\ At("opening")' = At("opening") \cup {t} /\ t \notin At("opening")
      /\ At("want")' = At("want") \ {t} /\ t \in At("want")
  BY DEF IInv, Reserve, TypeOK, Using, At, Where
<1>2. /\ Cardinality(At("opening")') = Cardinality(At("opening")) + 1
      /\ Cardinality(At("want")') = Cardinality(At("want")) - 1
  BY <1>1, Places, Grows, Shrinks
<1>3. TypeOK'
  BY DEF IInv, TypeOK, Reserve, PCs
<1>4. CapRespected' /\ Wakeups'
  BY <1>1, <1>2, Sizes DEF IInv, CapRespected, Wakeups, Slots, Reserve
<1> QED BY <1>1, <1>3, <1>4 DEF IInv, Exclusive, Reserve

LEMMA WaitKeeps ==
    ASSUME IInv, NEW t \in Threads, Wait(t)
    PROVE  IInv'
<1>1. Using' = Using /\ At("opening")' = At("opening")
  BY DEF IInv, Wait, TypeOK, Using, At, Where
<1>2. Cardinality(At("want")') \in Nat
  BY AreThreads, Finite DEF At
<1>3. TypeOK'
  BY DEF IInv, TypeOK, Wait, PCs
<1>4. Cardinality(idle) = 0
  BY FS_EmptySet DEF Wait
<1>5. Wakeups'
  BY <1>1, <1>2, <1>4, Sizes DEF IInv, CapRespected, Wakeups, Slots, Wait
<1> QED BY <1>1, <1>3, <1>5 DEF IInv, Exclusive, CapRespected, Wait

LEMMA WakeSpuriouslyKeeps ==
    ASSUME IInv, NEW t \in Threads, WakeSpuriously(t)
    PROVE  IInv'
<1>1. /\ Using' = Using
      /\ At("opening")' = At("opening")
      /\ At("waiting") # {}
      /\ At("want")' = At("want") \cup {t} /\ t \notin At("want")
  BY DEF IInv, WakeSpuriously, TypeOK, Using, At, Where
<1>2. Cardinality(At("want")') = Cardinality(At("want")) + 1
  BY <1>1, Places, Grows
<1>3. TypeOK'
  BY DEF IInv, TypeOK, WakeSpuriously, PCs
<1>4. Wakeups'
  BY <1>1, <1>2, Sizes DEF IInv, Wakeups, Slots, WakeSpuriously
<1> QED BY <1>1, <1>3, <1>4 DEF IInv, Exclusive, CapRespected, WakeSpuriously

LEMMA OpenedKeeps ==
    ASSUME IInv, NEW t \in Threads, Opened(t)
    PROVE  IInv'
<1>1. PICK c \in Conns \ (idle \cup HeldConns) : held' = [held EXCEPT ![t] = c]
  BY DEF Opened
<1>2. /\ Using' = Using \cup {t} /\ t \notin Using
      /\ At("opening")' = At("opening") \ {t} /\ t \in At("opening")
      /\ At("waiting")' = At("waiting")
      /\ At("want")' = At("want")
  BY DEF IInv, Opened, TypeOK, Using, At, Where
<1>3. Cardinality(At("opening")') = Cardinality(At("opening")) - 1
  BY <1>2, Places, Shrinks
<1>4. Cardinality(At("opening")') \in Nat
  BY AreThreads, Finite DEF At
<1>5. opening - 1 \in Nat
  BY <1>3, <1>4, Sizes DEF IInv, CapRespected
<1>6. TypeOK'
  BY <1>1, <1>5, Sizes DEF IInv, TypeOK, Opened, PCs
<1>7. c \in Conns \ HeldConns /\ c \notin idle' /\ idle' \subseteq idle
  BY <1>1 DEF Opened
<1>8. /\ \A u, v \in Using' : held'[u] = held'[v] => u = v
      /\ \A u \in Using' : held'[u] \notin idle' /\ held'[u] \in Conns
      /\ Cardinality(Using') = Cardinality(Using) + 1
  BY <1>1, <1>2, <1>7, Joins
<1>9. Exclusive' /\ \A u \in Using' : held'[u] \in Conns
  BY <1>8, Sizes DEF IInv, Exclusive, Opened
<1>10. CapRespected' /\ Wakeups'
  BY <1>2, <1>3, Sizes DEF IInv, CapRespected, Wakeups, Slots, Opened
<1> QED BY <1>6, <1>9, <1>10 DEF IInv

LEMMA OpenFailsKeeps ==
    ASSUME IInv, NEW t \in Threads, OpenFails(t)
    PROVE  IInv'
<1>1. ASSUME NEW c \in idle,
             idle' = idle \ {c}, held' = [held EXCEPT ![t] = c],
             opening' = opening - 1, pc' \in NotifyOne([pc EXCEPT ![t] = "using"])
      PROVE  IInv'
  <2> DEFINE p == [pc EXCEPT ![t] = "using"]
  <2>1. /\ p \in [Threads -> PCs]
        /\ Where(p, "using") = Using \cup {t} /\ t \notin Using
        /\ Where(p, "opening") = At("opening") \ {t} /\ t \in At("opening")
        /\ Where(p, "waiting") = At("waiting")
        /\ Where(p, "want") = At("want")
    BY DEF IInv, OpenFails, TypeOK, Using, At, Where, PCs
  <2>2. pc' \in NotifyOne(p)
    BY <1>1
  <2> HIDE DEF p
  <2>3. /\ Using' = Using \cup {t}
        /\ At("opening")' = At("opening") \ {t}
        /\ At("waiting")' \subseteq At("waiting")
        /\ Cardinality(At("want")') >= Cardinality(At("want"))
        /\ pc' \in [Threads -> PCs]
    BY <2>1, <2>2, Notified DEF Using, At
  <2>4. Cardinality(At("opening")') = Cardinality(At("opening")) - 1
    BY <2>1, <2>3, Places, Shrinks
  <2>5. Cardinality(At("opening")') \in Nat /\ Cardinality(At("want")') \in Nat
    BY AreThreads, Finite DEF At
  <2>6. Cardinality(idle') = Cardinality(idle) - 1
    BY <1>1, Sizes, FS_RemoveElement
  <2>7. opening - 1 \in Nat
    BY <2>4, <2>5, Sizes DEF IInv, CapRespected
  <2>8. made' = made /\ open' = open /\ fails' \in 0..MaxFails
    BY PoolAssumption DEF IInv, TypeOK, OpenFails
  <2>9. TypeOK'
    BY <1>1, <2>3, <2>7, <2>8 DEF IInv, TypeOK
  <2>10. c \in Conns \ HeldConns /\ c \notin idle' /\ idle' \subseteq idle
    BY <1>1 DEF IInv, TypeOK, Exclusive, HeldConns
  <2>11. /\ \A u, v \in Using' : held'[u] = held'[v] => u = v
         /\ \A u \in Using' : held'[u] \notin idle' /\ held'[u] \in Conns
         /\ Cardinality(Using') = Cardinality(Using) + 1
    BY <1>1, <2>1, <2>3, <2>10, Joins
  <2>12. Exclusive' /\ \A u \in Using' : held'[u] \in Conns
    BY <2>6, <2>8, <2>11, Sizes DEF IInv, Exclusive
  <2>13. CapRespected' /\ Wakeups'
    BY <1>1, <2>3, <2>4, <2>5, <2>6, <2>8, Sizes
       DEF IInv, CapRespected, Wakeups, Slots
  <2> QED BY <2>9, <2>12, <2>13 DEF IInv
<1>2. CASE idle = {} /\ pc' \in NotifyOne(pc) /\ UNCHANGED <<idle, opening, held>>
  <2>1. pc \in [Threads -> PCs]
    BY DEF IInv, TypeOK
  <2>2. /\ Using' = Using
        /\ At("opening")' = At("opening")
        /\ At("waiting")' \subseteq At("waiting")
        /\ Cardinality(At("want")') >= Cardinality(At("want"))
        /\ pc' \in [Threads -> PCs]
    BY <1>2, <2>1, Notified DEF Using, At
  <2>3. Cardinality(At("want")') \in Nat
    BY AreThreads, Finite DEF At
  <2>4. TypeOK'
    BY PoolAssumption, <1>2, <2>2 DEF IInv, TypeOK, OpenFails
  <2>5. Wakeups'
    BY <1>2, <2>2, <2>3, Sizes DEF IInv, Wakeups, Slots, OpenFails
  <2> QED BY <1>2, <2>2, <2>4, <2>5 DEF IInv, Exclusive, CapRespected, OpenFails
<1> QED BY <1>1, <1>2 DEF OpenFails

LEMMA ReturnKeeps ==
    ASSUME IInv, NEW t \in Threads, Return(t)
    PROVE  IInv'
<1> DEFINE p == [pc EXCEPT ![t] = "out"]
<1>1. /\ p \in [Threads -> PCs]
      /\ Where(p, "using") = Using \ {t} /\ t \in Using
      /\ Where(p, "opening") = At("opening")
      /\ Where(p, "waiting") = At("waiting")
      /\ Where(p, "want") = At("want")
  BY DEF IInv, Return, TypeOK, Using, At, Where, PCs
<1>2. pc' \in NotifyOne(p)
  BY DEF Return
<1> HIDE DEF p
<1>3. /\ Using' = Using \ {t}
      /\ At("opening")' = At("opening")
      /\ At("waiting")' \subseteq At("waiting")
      /\ At("waiting") # {} => Cardinality(At("want")') = Cardinality(At("want")) + 1
      /\ pc' \in [Threads -> PCs]
  BY <1>1, <1>2, Notified DEF Using, At
<1>4. Cardinality(Using') = Cardinality(Using) - 1
  BY <1>1, <1>3, Places, Shrinks
<1>5. held[t] \in Conns /\ held[t] \notin idle
  BY <1>1 DEF IInv, Exclusive
<1>6. Cardinality(idle') = Cardinality(idle) + 1
  BY <1>5, Sizes, FS_AddElement DEF Return
<1>7. TypeOK'
  BY <1>3, <1>5 DEF IInv, TypeOK, Return
<1>8. \A u \in Using' : u \in Using /\ held'[u] = held[u] /\ held[u] # held[t]
  BY <1>1, <1>3, Places DEF IInv, TypeOK, Exclusive, Return
<1>9. Exclusive' /\ \A u \in Using' : held'[u] \in Conns
  BY <1>3, <1>4, <1>6, <1>8, Sizes DEF IInv, Exclusive, Return
<1>10. CapRespected' /\ Wakeups'
  BY <1>3, <1>6, Sizes DEF IInv, CapRespected, Wakeups, Slots, Return
<1> QED BY <1>7, <1>9, <1>10 DEF IInv

LEMMA StepKeeps == IInv /\ [Next]_vars => IInv'
<1> SUFFICES ASSUME IInv, [Next]_vars PROVE IInv'
  OBVIOUS
<1>1. ASSUME NEW t \in Threads,
             Call(t) \/ Step(t) \/ WakeSpuriously(t) \/ OpenFails(t)
      PROVE  IInv'
  BY <1>1, CallKeeps, TakeIdleKeeps, ReserveKeeps, WaitKeeps, OpenedKeeps, ReturnKeeps,
     WakeSpuriouslyKeeps, OpenFailsKeeps DEF Step
<1>2. CASE UNCHANGED vars
  BY <1>2 DEF vars, IInv, TypeOK, Exclusive, CapRespected, Wakeups, Slots, Using, At, Where
<1> QED BY <1>1, <1>2 DEF Next

-----------------------------------------------------------------------------
(* The invariant holds in every reachable state. *)
THEOREM Invariance == Spec => []IInv
BY InitEstablishes, StepKeeps, PTL DEF Spec

(* acquire and release keep PoolInner well typed. *)
THEOREM TypeCorrect == Spec => []TypeOK
<1>1. IInv => TypeOK
  BY DEF IInv
<1> QED BY <1>1, Invariance, PTL

(* DbGuard: no connection is ever shared, and none is lost. *)
THEOREM NeverShared == Spec => []Exclusive
<1>1. IInv => Exclusive
  BY DEF IInv
<1> QED BY <1>1, Invariance, PTL

(* The reservation makes the cap hold although opens run outside the mutex. *)
THEOREM CapHolds == Spec => []CapRespected
<1>1. IInv => CapRespected
  BY DEF IInv
<1> QED BY <1>1, Invariance, PTL

(* notify_one, once per returned connection and once per failed open, is   *)
(* enough: nobody sleeps next to a free connection or slot.                *)
THEOREM NobodySleepsInVain == Spec => []NoLostWakeup
<1>1. IInv => NoLostWakeup
  <2> SUFFICES ASSUME IInv, At("waiting") # {}, At("want") = {}
               PROVE  idle = {} /\ (OnDisk => open + opening = Cap)
    BY DEF NoLostWakeup
  <2>1. Cardinality(idle) + Slots <= 0
    BY FS_EmptySet DEF IInv, Wakeups
  <2>2. Slots >= 0 /\ Slots \in Int
    BY Sizes DEF IInv, CapRespected, Slots
  <2>3. Cardinality(idle) = 0 /\ Slots = 0
    BY <2>1, <2>2, Sizes
  <2> QED BY <2>3, Sizes, FS_EmptySet DEF Slots
<1> QED BY <1>1, Invariance, PTL

=============================================================================

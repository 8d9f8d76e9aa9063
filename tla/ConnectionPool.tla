--------------------------- MODULE ConnectionPool ---------------------------
(***************************************************************************)
(* One lane of SharedStore: threads borrow connections from a pool of at   *)
(* most Cap, which opens them lazily and outside its mutex.  Every action  *)
(* is one critical section of that mutex; between two of them any other    *)
(* thread may take it.                                                     *)
(***************************************************************************)
EXTENDS Integers, FiniteSets

CONSTANTS
    Threads,
    Conns,     \* connections, by name
    Initial,   \* the ones the pool is created with
    Cap,       \* DB_POOL_CAP or DB_REPORT_POOL_CAP
    OnDisk,    \* the database has a path; one in memory never grows
    None,      \* no connection
    MaxCalls,  \* bound: store calls of one thread
    MaxFails   \* bound: failing opens

ASSUME PoolAssumption ==
    /\ IsFiniteSet(Threads)
    /\ IsFiniteSet(Conns)
    /\ Cap \in Nat \ {0}
    /\ Initial \subseteq Conns
    /\ Cardinality(Initial) <= Cap
    /\ OnDisk \in BOOLEAN
    /\ None \notin Conns
    /\ {MaxCalls, MaxFails} \subseteq Nat

VARIABLES
    idle,     \* PoolInner.idle
    open,     \* PoolInner.open
    opening,  \* PoolInner.opening
    pc,       \* where each thread is in with_impl
    held,     \* the connection of its DbGuard
    made,     \* calls so far
    fails

vars == <<idle, open, opening, pc, held, made, fails>>

PCs == {"out", "want", "opening", "waiting", "using"}

TypeOK ==
    /\ idle \subseteq Conns
    /\ open \in Nat
    /\ opening \in Nat
    /\ pc \in [Threads -> PCs]
    /\ held \in [Threads -> Conns \cup {None}]
    /\ made \in [Threads -> 0..MaxCalls]
    /\ fails \in 0..MaxFails

Init ==
    /\ idle = Initial
    /\ open = Cardinality(Initial)
    /\ opening = 0
    /\ pc = [t \in Threads |-> "out"]
    /\ held = [t \in Threads |-> None]
    /\ made = [t \in Threads |-> 0]
    /\ fails = 0

Where(pcs, label) == {t \in Threads : pcs[t] = label}
At(label) == Where(pc, label)
Using == At("using")
HeldConns == {held[t] : t \in Using}

(* notify_one: one waiter, if there is any, will look again. *)
NotifyOne(pcs) ==
    IF Where(pcs, "waiting") = {} THEN {pcs}
    ELSE {[pcs EXCEPT ![t] = "want"] : t \in Where(pcs, "waiting")}

(* A thread calls with. *)
Call(t) ==
    /\ pc[t] = "out"
    /\ made[t] < MaxCalls
    /\ made' = [made EXCEPT ![t] = @ + 1]
    /\ pc' = [pc EXCEPT ![t] = "want"]
    /\ UNCHANGED <<idle, open, opening, held, fails>>

(* Mutant: the slot is not reserved before the mutex is given up. *)
ReserveUncounted(t) ==
    /\ pc[t] = "want"
    /\ idle = {}
    /\ OnDisk
    /\ open < Cap
    /\ opening' = opening + 1
    /\ pc' = [pc EXCEPT ![t] = "opening"]
    /\ UNCHANGED <<idle, open, held, made, fails>>

(* The loop of acquire, on entry or after a wake-up: take an idle          *)
(* connection, ...                                                         *)
TakeIdle(t) ==
    /\ pc[t] = "want"
    /\ \E c \in idle :
          /\ idle' = idle \ {c}
          /\ held' = [held EXCEPT ![t] = c]
    /\ pc' = [pc EXCEPT ![t] = "using"]
    /\ UNCHANGED <<open, opening, made, fails>>

(* ... or reserve a slot and open one outside the mutex, ... *)
Reserve(t) ==
    /\ pc[t] = "want"
    /\ idle = {}
    /\ OnDisk
    /\ open + opening < Cap
    /\ opening' = opening + 1
    /\ pc' = [pc EXCEPT ![t] = "opening"]
    /\ UNCHANGED <<idle, open, held, made, fails>>

(* ... or wait. *)
Wait(t) ==
    /\ pc[t] = "want"
    /\ idle = {}
    /\ OnDisk => open + opening >= Cap
    /\ pc' = [pc EXCEPT ![t] = "waiting"]
    /\ UNCHANGED <<idle, open, opening, held, made, fails>>

(* A condition variable may wake a thread for no reason. *)
WakeSpuriously(t) ==
    /\ pc[t] = "waiting"
    /\ pc' = [pc EXCEPT ![t] = "want"]
    /\ UNCHANGED <<idle, open, opening, held, made, fails>>

Opened(t) ==
    /\ pc[t] = "opening"
    /\ \E c \in Conns \ (idle \cup HeldConns) : held' = [held EXCEPT ![t] = c]
    /\ opening' = opening - 1
    /\ open' = open + 1
    /\ pc' = [pc EXCEPT ![t] = "using"]
    /\ UNCHANGED <<idle, made, fails>>

(* Mutant: the second attempt does not reserve a slot again. *)
OpenFailsUnreserved(t) ==
    /\ pc[t] = "opening"
    /\ fails < MaxFails
    /\ fails' = fails + 1
    /\ opening' = opening - 1
    /\ pc' \in NotifyOne(pc)
    /\ UNCHANGED <<idle, open, held, made>>

(* The open failed: a waiter is woken, and the loop goes on without giving *)
(* up the mutex, so this thread takes a connection that came back in the   *)
(* meantime, or else reserves the slot it had just released once more.     *)
OpenFails(t) ==
    /\ pc[t] = "opening"
    /\ fails < MaxFails
    /\ fails' = fails + 1
    /\ \/ /\ \E c \in idle :
                /\ idle' = idle \ {c}
                /\ held' = [held EXCEPT ![t] = c]
          /\ opening' = opening - 1
          /\ pc' \in NotifyOne([pc EXCEPT ![t] = "using"])
       \/ /\ idle = {}
          /\ pc' \in NotifyOne(pc)
          /\ UNCHANGED <<idle, opening, held>>
    /\ UNCHANGED <<open, made>>

(* Mutant: nobody is told. *)
ReturnSilently(t) ==
    /\ pc[t] = "using"
    /\ idle' = idle \cup {held[t]}
    /\ held' = [held EXCEPT ![t] = None]
    /\ pc' = [pc EXCEPT ![t] = "out"]
    /\ UNCHANGED <<open, opening, made, fails>>

(* The closure returned or panicked: DbGuard::drop, Pool::release. *)
Return(t) ==
    /\ pc[t] = "using"
    /\ idle' = idle \cup {held[t]}
    /\ held' = [held EXCEPT ![t] = None]
    /\ pc' \in NotifyOne([pc EXCEPT ![t] = "out"])
    /\ UNCHANGED <<open, opening, made, fails>>

Step(t) == TakeIdle(t) \/ Reserve(t) \/ Wait(t) \/ Opened(t) \/ Return(t)

Next == \E t \in Threads : Call(t) \/ Step(t) \/ WakeSpuriously(t) \/ OpenFails(t)

Spec == Init /\ [][Next]_vars

(* Closures are short and synchronous and an open ends, so a thread that   *)
(* can go on does; nothing else is assumed of the mutex or the condition   *)
(* variable.                                                               *)
FairSpec == Spec /\ \A t \in Threads : WF_vars(Step(t))

-----------------------------------------------------------------------------
(* A connection is idle or in the hands of one thread, never of two, and   *)
(* open counts exactly those: none leaks, also when an open fails.         *)
Exclusive ==
    /\ \A t, u \in Using : held[t] = held[u] => t = u
    /\ \A t \in Using : held[t] \notin idle
    /\ open = Cardinality(idle) + Cardinality(Using)

(* "opening makes the pool cap a real cap under concurrent acquisition". *)
CapRespected ==
    /\ opening = Cardinality(At("opening"))
    /\ open + opening <= Cap

(* No lost wake-up: if every thread that wants a connection sleeps, there  *)
(* is neither an idle connection nor room to open one.                     *)
NoLostWakeup ==
    At("waiting") # {} /\ At("want") = {} =>
        idle = {} /\ (OnDisk => open + opening = Cap)

(* Whoever asks for a connection gets one, as long as the others do not    *)
(* ask for ever: the mutex and the condition variable are not fair.        *)
EveryCallServed ==
    \A t \in Threads : pc[t] = "want" ~> pc[t] = "using"

=============================================================================

----------------------------- MODULE SessionLock -----------------------------
(***************************************************************************)
(* The session_locks row of one session: the cross-process claim that a    *)
(* turn makes before it runs (store/src/lock.rs) and the guard plus        *)
(* heartbeat task that keep it (engine/src/lock.rs).                       *)
(*                                                                         *)
(* A claim is one call of SessionLocks::claim; every claim draws a fresh   *)
(* HolderId, so a claim and its HolderId are the same thing here and a     *)
(* claim is made at most once.  acquire() is three SQL statements on a     *)
(* pooled connection, not one transaction, so other processes may step     *)
(* between them: INSERT, then SELECT, then (for a stale row) the           *)
(* conditional UPDATE of steal(), and finally the SELECT that the guard is *)
(* built from.                                                             *)
(*                                                                         *)
(* Time is discrete and relative.  age is now - heartbeat_at of the row;   *)
(* wait[h] is the time since claim h took its timestamp (inside acquire)   *)
(* or since its heartbeat task last woke (once the turn runs).             *)
(***************************************************************************)
EXTENDS Integers

CONSTANTS
    Claims,            \* calls of SessionLocks::claim, and the HolderIds they draw
    NoClaim,           \* "there is no row"
    HeartbeatInterval, \* HEARTBEAT_INTERVAL
    StaleAfter,        \* STALE_AFTER
    Slack,             \* how late the runtime may wake a sleeping heartbeat task
    AcquireLimit,      \* bound: how long the statements of one acquire() may take
    MaxMisses          \* bound: consecutive heartbeats the store may fail

(* One wake-up of the heartbeat task, at the latest. *)
Period == HeartbeatInterval + Slack

ASSUME ClaimsAssumption == NoClaim \notin Claims

ASSUME TimingAssumption ==
    /\ HeartbeatInterval \in Nat \ {0}
    /\ StaleAfter \in Nat
    /\ Slack \in Nat
    /\ AcquireLimit \in Nat
    /\ MaxMisses \in Nat
    /\ AcquireLimit + (MaxMisses + 1) * Period <= StaleAfter

VARIABLES
    lock,    \* holder_id of the row, or NoClaim
    age,     \* now - heartbeat_at of the row, up to AgeCap
    pc,      \* where each claim is
    seen,    \* the holder_id a claim read when it judged the row stale
    guard,   \* the holder_id in the claim's LockGuard
    wait,    \* time since the claim's last timestamp or heartbeat attempt
    misses,  \* consecutive failed heartbeats
    asleep,  \* claims whose process is suspended now
    slept    \* live claims whose process has been suspended

vars == <<lock, age, pc, seen, guard, wait, misses, asleep, slept>>

(* Ages beyond this are all equally stale for every claim inside acquire. *)
AgeCap == StaleAfter + AcquireLimit + 1

Acquiring == {"conflict", "judged", "acquired"}
PCs == {"idle", "done", "dead", "running", "told"} \cup Acquiring

(* The turn of claim h may still write to the session. *)
Writing(h) == pc[h] \in {"running", "told"}

TypeOK ==
    /\ lock \in Claims \cup {NoClaim}
    /\ age \in 0..AgeCap
    /\ pc \in [Claims -> PCs]
    /\ seen \in [Claims -> Claims \cup {NoClaim}]
    /\ guard \in [Claims -> Claims \cup {NoClaim}]
    /\ wait \in [Claims -> Nat]
    /\ misses \in [Claims -> 0..MaxMisses]
    /\ asleep \subseteq Claims
    /\ slept \subseteq Claims

Init ==
    /\ lock = NoClaim
    /\ age = 0
    /\ pc = [h \in Claims |-> "idle"]
    /\ seen = [h \in Claims |-> NoClaim]
    /\ guard = [h \in Claims |-> NoClaim]
    /\ wait = [h \in Claims |-> 0]
    /\ misses = [h \in Claims |-> 0]
    /\ asleep = {}
    /\ slept = {}

(* A claim is over; everything it kept in memory goes with it. *)
End(h, how) ==
    /\ pc' = [pc EXCEPT ![h] = how]
    /\ seen' = [seen EXCEPT ![h] = NoClaim]
    /\ guard' = [guard EXCEPT ![h] = NoClaim]
    /\ wait' = [wait EXCEPT ![h] = 0]
    /\ misses' = [misses EXCEPT ![h] = 0]
    /\ asleep' = asleep \ {h}
    /\ slept' = slept \ {h}

-----------------------------------------------------------------------------
(* SessionLockStore::acquire                                               *)

(* INSERT ... ON CONFLICT DO NOTHING, with ts = now(). *)
Insert(h) ==
    /\ pc[h] = "idle"
    /\ wait' = [wait EXCEPT ![h] = 0]
    /\ \/ /\ lock = NoClaim
          /\ lock' = h
          /\ age' = 0
          /\ pc' = [pc EXCEPT ![h] = "acquired"]
       \/ /\ lock # NoClaim
          /\ pc' = [pc EXCEPT ![h] = "conflict"]
          /\ UNCHANGED <<lock, age>>
    /\ UNCHANGED <<seen, guard, misses, asleep, slept>>

(* Mutants: a row of exactly STALE_AFTER counts as stale; any row does. *)
StaleAtBoundary(h) == age - wait[h] >= StaleAfter
StaleAlways(h) == TRUE

(* is_stale_at(ts): the heartbeat, as seen from the claim's own timestamp. *)
StaleAt(h) == age - wait[h] > StaleAfter

(* The read after a lost INSERT: NotFound if the row went away meanwhile,  *)
(* Busy if it is fresh, otherwise the holder to steal from.                *)
ReadRow(h) ==
    /\ pc[h] = "conflict"
    /\ \/ /\ lock # NoClaim /\ StaleAt(h)
          /\ pc' = [pc EXCEPT ![h] = "judged"]
          /\ seen' = [seen EXCEPT ![h] = lock]
          /\ UNCHANGED <<guard, wait, misses, asleep, slept>>
       \/ /\ lock = NoClaim \/ ~StaleAt(h)
          /\ End(h, "done")
    /\ UNCHANGED <<lock, age>>

(* SessionLockStore::steal: UPDATE ... WHERE holder_id = :observed_holder. *)
Steal(h) ==
    /\ pc[h] = "judged"
    /\ \/ /\ lock = seen[h]
          /\ lock' = h
          /\ age' = 0
          /\ pc' = [pc EXCEPT ![h] = "acquired"]
          /\ seen' = [seen EXCEPT ![h] = NoClaim]
          /\ wait' = [wait EXCEPT ![h] = 0]
          /\ UNCHANGED <<guard, misses, asleep, slept>>
       \/ /\ lock # seen[h]
          /\ End(h, "done")
          /\ UNCHANGED <<lock, age>>

(* expect() after the INSERT or the UPDATE: the guard gets whatever holder *)
(* the row names now, and the heartbeat task starts its first sleep.       *)
ReadBack(h) ==
    /\ pc[h] = "acquired"
    /\ \/ /\ lock = NoClaim
          /\ End(h, "done")
       \/ /\ lock # NoClaim
          /\ pc' = [pc EXCEPT ![h] = "running"]
          /\ guard' = [guard EXCEPT ![h] = lock]
          /\ wait' = [wait EXCEPT ![h] = 0]
          /\ UNCHANGED <<seen, misses, asleep, slept>>
    /\ UNCHANGED <<lock, age>>

(* Any of those statements may fail: the claim returns the error, and a    *)
(* row it already wrote stays behind with no guard.                        *)
AcquireFails(h) ==
    /\ pc[h] \in Acquiring
    /\ End(h, "done")
    /\ UNCHANGED <<lock, age>>

-----------------------------------------------------------------------------
(* The guard: spawn_heartbeat and LockGuard::drop                          *)

Awake(h) == h \notin asleep

(* Mutants of the heartbeat statement: it re-inserts its own holder id; it *)
(* updates the row whoever holds it; a lost row is only logged.            *)
HeartbeatUpsert(h) ==
    /\ pc[h] = "running"
    /\ Awake(h)
    /\ wait[h] >= HeartbeatInterval
    /\ lock' = guard[h]
    /\ age' = 0
    /\ wait' = [wait EXCEPT ![h] = 0]
    /\ misses' = [misses EXCEPT ![h] = 0]
    /\ UNCHANGED <<pc, seen, guard, asleep, slept>>

HeartbeatOnlyWarns(h) ==
    /\ pc[h] = "running"
    /\ Awake(h)
    /\ wait[h] >= HeartbeatInterval
    /\ age' = IF lock = guard[h] THEN 0 ELSE age
    /\ wait' = [wait EXCEPT ![h] = 0]
    /\ misses' = [misses EXCEPT ![h] = 0]
    /\ UNCHANGED <<lock, pc, seen, guard, asleep, slept>>

(* UPDATE ... WHERE holder_id = mine.  No row matched: cancel the turn. *)
Heartbeat(h) ==
    /\ pc[h] = "running"
    /\ Awake(h)
    /\ wait[h] >= HeartbeatInterval
    /\ \/ /\ lock = guard[h]
          /\ age' = 0
          /\ wait' = [wait EXCEPT ![h] = 0]
          /\ misses' = [misses EXCEPT ![h] = 0]
          /\ UNCHANGED pc
       \/ /\ lock # guard[h]
          /\ pc' = [pc EXCEPT ![h] = "told"]
          /\ wait' = [wait EXCEPT ![h] = 0]
          /\ UNCHANGED <<age, misses>>
    /\ UNCHANGED <<lock, seen, guard, asleep, slept>>

(* Mutant: the failure does not wait for the next interval. *)
HeartbeatFailsUncounted(h) ==
    /\ pc[h] = "running"
    /\ Awake(h)
    /\ misses' = [misses EXCEPT ![h] = @ + 1]
    /\ UNCHANGED <<lock, age, pc, seen, guard, wait, asleep, slept>>

(* The store call failed: warn and try again an interval later. *)
HeartbeatFails(h) ==
    /\ pc[h] = "running"
    /\ Awake(h)
    /\ wait[h] >= HeartbeatInterval
    /\ misses[h] < MaxMisses
    /\ misses' = [misses EXCEPT ![h] = @ + 1]
    /\ wait' = [wait EXCEPT ![h] = 0]
    /\ UNCHANGED <<lock, age, pc, seen, guard, asleep, slept>>

(* The turn is over: stop the heartbeat, DELETE ... WHERE holder_id = mine. *)
Release(h) ==
    /\ Writing(h)
    /\ Awake(h)
    /\ End(h, "done")
    /\ lock' = IF lock = guard[h] THEN NoClaim ELSE lock
    /\ UNCHANGED age

(* The DELETE failed; it is logged and the row stays. *)
ReleaseFails(h) ==
    /\ Writing(h)
    /\ Awake(h)
    /\ End(h, "done")
    /\ UNCHANGED <<lock, age>>

-----------------------------------------------------------------------------
(* The environment: processes die and are suspended, time passes           *)

Crash(h) ==
    /\ pc[h] \in Acquiring \cup {"running", "told"}
    /\ End(h, "dead")
    /\ UNCHANGED <<lock, age>>

(* A suspended laptop or a stopped process; bound: once per claim. *)
Suspend(h) ==
    /\ pc[h] = "running"
    /\ h \notin slept
    /\ asleep' = asleep \cup {h}
    /\ slept' = slept \cup {h}
    /\ UNCHANGED <<lock, age, pc, seen, guard, wait, misses>>

(* tokio sleeps on a monotonic clock that may or may not have run          *)
(* meanwhile, so the next heartbeat is due at any point of the interval.   *)
Resume(h) ==
    /\ h \in asleep
    /\ pc[h] = "running"
    /\ asleep' = asleep \ {h}
    /\ \E w \in 0..HeartbeatInterval : wait' = [wait EXCEPT ![h] = w]
    /\ UNCHANGED <<lock, age, pc, seen, guard, misses, slept>>

(* Whose clock runs. *)
Waiting(h) == pc[h] \in Acquiring \/ (pc[h] = "running" /\ Awake(h))

(* What a process that is not suspended has done by its deadline. *)
Overdue(h) ==
    \/ pc[h] \in Acquiring /\ wait[h] >= AcquireLimit
    \/ pc[h] = "running" /\ Awake(h) /\ wait[h] >= Period

Tick ==
    /\ \A h \in Claims : ~Overdue(h)
    /\ age' = IF age < AgeCap THEN age + 1 ELSE age
    /\ wait' = [h \in Claims |-> IF Waiting(h) THEN wait[h] + 1 ELSE wait[h]]
    /\ UNCHANGED <<lock, pc, seen, guard, misses, asleep, slept>>

Step(h) ==
    \/ Insert(h) \/ ReadRow(h) \/ Steal(h) \/ ReadBack(h) \/ AcquireFails(h)
    \/ Heartbeat(h) \/ HeartbeatFails(h) \/ Release(h) \/ ReleaseFails(h)
    \/ Crash(h) \/ Suspend(h) \/ Resume(h)

Next == Tick \/ \E h \in Claims : Step(h)

Spec == Init /\ [][Next]_vars

(* Timers fire, started statements finish, and a cancelled turn ends.      *)
(* Nothing makes a claim, a crash, a suspension or a resumption happen.    *)
CancelledTurnEnds(h) == pc[h] = "told" /\ Release(h)

Fairness ==
    /\ WF_vars(Tick)
    /\ \A h \in Claims :
          WF_vars(Heartbeat(h)) /\ WF_vars(CancelledTurnEnds(h))
          /\ WF_vars(ReadRow(h)) /\ WF_vars(Steal(h)) /\ WF_vars(ReadBack(h))

FairSpec == Spec /\ Fairness

-----------------------------------------------------------------------------
(* Two turns write to the session at once only if one of them belongs to a *)
(* process that was suspended: late timers and up to MaxMisses failed      *)
(* heartbeats in a row never cost a live turn its lock (STALE_AFTER is     *)
(* three HEARTBEAT_INTERVALs, and a row exactly that old is still fresh).  *)
TimelyTurnsExclusive ==
    \A g, h \in Claims :
        g # h /\ Writing(g) /\ Writing(h) => g \in slept \/ h \in slept

(* The guard a claim holds names the claim's own row, although the code    *)
(* builds it from a second read of the table.                              *)
GuardIsOwn == \A h \in Claims : Writing(h) => guard[h] = h

(* A row disappears only when the turn that owns it ends: a late release   *)
(* by a turn that was taken over cannot free its successor's row.          *)
ReleaseOnlyOwn ==
    [][lock # NoClaim /\ lock' = NoClaim =>
          \E h \in Claims : h = lock /\ Writing(h) /\ pc'[h] = "done"]_vars

(* A turn that lost the row never gets it back: neither its heartbeat nor  *)
(* its release brings the old holder id into the table again.              *)
LostForGood ==
    [][\A h \in Claims : Writing(h) /\ lock # h => lock' # h]_vars

(* A revived process that was taken over notices and stops writing. *)
TakenOverStops ==
    \A h \in Claims :
        (Writing(h) /\ lock # h /\ Awake(h)) ~> ~Writing(h)

=============================================================================

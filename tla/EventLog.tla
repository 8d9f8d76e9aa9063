------------------------------ MODULE EventLog ------------------------------
(***************************************************************************)
(* What the event hub promises (engine/src/hub.rs): every session has a    *)
(* log, and a reader moves along it one event at a time, from the place    *)
(* where it joined.  It may stop and come back to its place, or be sent    *)
(* to the end of the log; a log may start again, which makes every place   *)
(* in it void.  It never sees an event twice and never skips one unknowingly. *)
(***************************************************************************)
EXTENDS Naturals, Sequences

CONSTANTS Sessions, Readers, Events, Nowhere

VARIABLES
    log,    \* the events of each session, in order
    place,  \* how far each reader has read: [session, at], or Nowhere
    shown   \* the last event each reader was shown, or Nowhere

vars == <<log, place, shown>>

Init ==
    /\ log = [s \in Sessions |-> <<>>]
    /\ place = [r \in Readers |-> Nowhere]
    /\ shown = [r \in Readers |-> Nowhere]

(* One event enters the logs of one or more sessions. *)
Publish ==
    /\ \E e \in Events, to \in (SUBSET Sessions) \ {{}} :
          log' = [s \in Sessions |-> IF s \in to THEN Append(log[s], e) ELSE log[s]]
    /\ UNCHANGED <<place, shown>>

Moved(r, s, n) == place' = [place EXCEPT ![r] = [session |-> s, at |-> n]]

(* A reader joins a session at any place of its log. *)
Join(r) ==
    /\ \E s \in Sessions : \E n \in 0..Len(log[s]) : Moved(r, s, n)
    /\ shown' = [shown EXCEPT ![r] = Nowhere]
    /\ UNCHANGED log

(* It is shown the next event. *)
Read(r) ==
    /\ place[r] # Nowhere
    /\ LET s == place[r].session
           n == place[r].at + 1
       IN  /\ n <= Len(log[s])
           /\ Moved(r, s, n)
           /\ shown' = [shown EXCEPT ![r] = log[s][n]]
    /\ UNCHANGED log

(* It is told of a gap and goes on from the end. *)
Skip(r) ==
    /\ place[r] # Nowhere
    /\ Moved(r, place[r].session, Len(log[place[r].session]))
    /\ shown' = [shown EXCEPT ![r] = Nowhere]
    /\ UNCHANGED log

(* A reader whose place is void is shown what was still on its way. *)
Leftover(r) ==
    /\ place[r] = Nowhere
    /\ \E e \in Events : shown' = [shown EXCEPT ![r] = e]
    /\ UNCHANGED <<log, place>>

(* Logs start again. *)
Restart ==
    /\ \E gone \in SUBSET Sessions :
          /\ log' = [s \in Sessions |-> IF s \in gone THEN <<>> ELSE log[s]]
          /\ place' = [r \in Readers |->
                          IF place[r] # Nowhere /\ place[r].session \in gone
                          THEN Nowhere ELSE place[r]]
    /\ UNCHANGED shown

Next ==
    \/ Publish
    \/ \E r \in Readers : Join(r) \/ Read(r) \/ Skip(r) \/ Leftover(r)
    \/ Restart

Spec == Init /\ [][Next]_vars

=============================================================================

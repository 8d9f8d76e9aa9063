------------------------------ MODULE EventHub ------------------------------
(***************************************************************************)
(* The per-session turn channels of EventHub (engine/src/hub.rs): cursors, *)
(* the replay window and its trimming, interactions of sub-agents that are *)
(* copied to every ancestor, and subscribers that attach to a running      *)
(* turn, fall behind, go away and come back with their cursor.             *)
(*                                                                         *)
(* Each operation holds the mutex over all channels, so it is one step.    *)
(* The subscriber is a client outside the repository: it processes what    *)
(* subscribe_* returned, then its receiver; when it is told that it lagged *)
(* or that the channel closed it comes back with the cursor of the last    *)
(* event it saw, and a gap makes it reload the session and go on from      *)
(* latest_cursor.                                                          *)
(***************************************************************************)
EXTENDS Integers, Sequences

CONSTANTS
    Sessions,
    Parent,      \* the session a sub-agent's session belongs to, or None
    Clients,
    None,
    Capacity,    \* TURN_REPLAY_CAPACITY, of the window and of a receiver
    MaxBytes,    \* TURN_REPLAY_MAX_BYTES
    Sizes,       \* serialized sizes of a delta; other events count 1
    MaxEvents,   \* bound: events emitted
    MaxTurns,    \* bound: turns per session
    MaxUpsets    \* bound: clients leaving, gaps signalled, sessions deleted, restarts

ASSUME HubAssumption ==
    /\ None \notin Sessions
    /\ Parent \in [Sessions -> Sessions \cup {None}]
    /\ None \notin [session : Sessions, at : 0..MaxEvents]
    /\ None \notin [turn : 1..MaxTurns, start : 1..MaxEvents]
    /\ Capacity \in Nat \ {0} /\ MaxBytes \in Nat \ {0}
    /\ Sizes \subseteq Nat \ {0}
    /\ MaxEvents \in Nat /\ MaxTurns \in Nat /\ MaxUpsets \in Nat

(* The ancestors of a session: the least set that holds its parent and is  *)
(* closed under parents.                                                   *)
ClosedIn(U, children) == \A s \in U \cap children : Parent[s] \in U
SubAgents == {s \in Sessions : Parent[s] # None}
Above(s) ==
    IF s \notin SubAgents THEN {}
    ELSE {a \in Sessions : \A U \in SUBSET Sessions :
              Parent[s] \in U /\ ClosedIn(U, SubAgents) => a \in U}

(* A session is created by its parent, so none is its own ancestor.        *)
ASSUME ForestAssumption == \A s \in Sessions : s \notin Above(s)

VARIABLES
    channel, \* turns: the TurnChannel of each session
    known,   \* parents: sub-agents whose parent the hub has learnt
    epoch,   \* stream_epoch of this process
    drops,   \* how often each session's channel was dropped in this epoch
    turn,    \* the turn each session runs, 0 if none, and how many it ran
    gapped,  \* sessions whose running turn had a signalled gap or lost its channel
    log,     \* history variable: all events of each channel
    client,  \* the subscribers
    shown,   \* history variable: the last event each client was shown
    emitted, upsets

vars == <<channel, known, epoch, drops, turn, gapped, log, client, shown,
          emitted, upsets>>

Kinds == {"start", "delta", "ask", "end"}
Event == [from : Sessions, turn : 1..MaxTurns, kind : Kinds, bytes : Sizes \cup {1}]
Item == [cursor : 1..MaxEvents, event : Event]

NewChannel == [history |-> <<>>, next |-> 0, active |-> None]

(* A subscriber: the session it follows, the ReplayCursor it would come    *)
(* back with (epoch and at; drops says which channel of the epoch it is    *)
(* from), the replay it was handed, and its receiver.                      *)
NoClient == [state |-> "new", session |-> None, epoch |-> 0, drops |-> 0, at |-> 0,
             replay |-> <<>>, tail |-> <<>>, lagged |-> FALSE, closed |-> FALSE]

TypeOK ==
    /\ \A s \in Sessions :
          /\ channel[s].history \in Seq(Item)
          /\ channel[s].next \in 0..MaxEvents
          /\ channel[s].active = None
                \/ channel[s].active \in [turn : 1..MaxTurns, start : 1..MaxEvents]
          /\ Len(channel[s].history) <= channel[s].next
    /\ known \subseteq Sessions
    /\ epoch \in 0..MaxUpsets
    /\ drops \in [Sessions -> 0..MaxUpsets]
    /\ turn \in [Sessions -> [now : 0..MaxTurns, ran : 0..MaxTurns]]
    /\ gapped \subseteq Sessions
    /\ log \in [Sessions -> Seq(Event)]
    /\ \A c \in Clients :
          /\ client[c].state \in {"new", "live", "away"}
          /\ client[c].session \in Sessions \cup {None}
          /\ client[c].at \in 0..MaxEvents
          /\ client[c].replay \in Seq(Item)
          /\ client[c].tail \in Seq(Item)
          /\ Len(client[c].tail) <= Capacity
    /\ emitted \in 0..MaxEvents
    /\ upsets \in 0..MaxUpsets

Init ==
    /\ channel = [s \in Sessions |-> NewChannel]
    /\ known = {}
    /\ epoch = 0
    /\ drops = [s \in Sessions |-> 0]
    /\ turn = [s \in Sessions |-> [now |-> 0, ran |-> 0]]
    /\ gapped = {}
    /\ log = [s \in Sessions |-> <<>>]
    /\ client = [c \in Clients |-> NoClient]
    /\ shown = [c \in Clients |-> None]
    /\ emitted = 0
    /\ upsets = 0

-----------------------------------------------------------------------------
(* Recursive functions in place of SelectSeq and a fold, which the provers *)
(* cannot open: the elements of a sequence that are in T, and what the     *)
(* numbers in a sequence add up to.                                        *)
Select(seq, T) ==
    LET F[n \in 0..Len(seq)] ==
            IF n = 0 THEN <<>>
            ELSE IF seq[n] \in T THEN Append(F[n - 1], seq[n]) ELSE F[n - 1]
    IN  F[Len(seq)]

Total(sizes) ==
    LET F[n \in 0..Len(sizes)] == IF n = 0 THEN 0 ELSE F[n - 1] + sizes[n]
    IN  F[Len(sizes)]

-----------------------------------------------------------------------------
(* EventHub::emit: fan_out, push, trim                                     *)

Bytes(history) == Total([i \in DOMAIN history |-> history[i].event.bytes])

(* Mutant: the count cap does not spare the running turn. *)
FitsByCountOnly(history, active) ==
    /\ Bytes(history) <= MaxBytes
    /\ Len(history) <= Capacity

(* Where trim stops: within both caps, or within the byte cap and nothing  *)
(* left in front of the running turn.                                      *)
Fits(history, active) ==
    /\ Bytes(history) <= MaxBytes
    /\ \/ Len(history) <= Capacity
       \/ active # None /\ Head(history).cursor >= active.start

Trimmed(history, active) ==
    LET Kept(n) == SubSeq(history, n + 1, Len(history))
        n == CHOOSE m \in 0..Len(history) :
                 /\ Fits(Kept(m), active)
                 /\ \A k \in 0..(m - 1) : ~Fits(Kept(k), active)
    IN  Kept(n)

(* push of an event into the channel of session s. *)
Pushed(ch, s, e) ==
    LET n == ch.next + 1
        begun == IF e.kind = "start" /\ e.from = s
                 THEN [turn |-> e.turn, start |-> n] ELSE ch.active
        ended == e.kind = "end" /\ e.from = s /\ begun # None /\ begun.turn = e.turn
    IN  [history |-> Trimmed(Append(ch.history, [cursor |-> n, event |-> e]), begun),
         next |-> n,
         active |-> IF ended THEN None ELSE begun]

(* Mutants: a full receiver refuses the item; a receiver is never full. *)
ReceivedOrRefused(c, item) ==
    IF Len(c.tail) = Capacity THEN c ELSE [c EXCEPT !.tail = Append(@, item)]

ReceivedUnbounded(c, item) == [c EXCEPT !.tail = Append(@, item)]

(* replay_live.send: a receiver that is full loses its oldest item and     *)
(* will be told so.                                                        *)
Received(c, item) ==
    LET tail == Append(c.tail, item)
    IN  IF Len(tail) <= Capacity THEN [c EXCEPT !.tail = tail]
        ELSE [c EXCEPT !.tail = Tail(tail), !.lagged = TRUE]

Listening(c, s) == c.state = "live" /\ c.session = s /\ ~c.closed

(* Mutant: a parent is only learnt from the first interaction. *)
LearntFromAsks(e) ==
    IF Parent[e.from] # None /\ e.kind = "ask" THEN known \cup {e.from} ELSE known

(* The hub learns the parent of the session of every event. *)
Learnt(e) == IF Parent[e.from] # None THEN known \cup {e.from} ELSE known

(* The channels an event goes to: its own, and for an interaction of a     *)
(* sub-agent those of the ancestors the hub knows, starting from the       *)
(* parent the event names: the least set that is closed under the parents  *)
(* the hub has learnt.                                                     *)
Reaches(e) ==
    IF e.kind = "ask"
    THEN {s \in Sessions : \A U \in SUBSET Sessions :
              e.from \in U /\ ClosedIn(U, Learnt(e)) => s \in U}
    ELSE {e.from}

Emit(e) ==
    LET to == Reaches(e)
        item(s) == [cursor |-> channel[s].next + 1, event |-> e]
    IN  /\ emitted < MaxEvents
        /\ emitted' = emitted + 1
        /\ known' = Learnt(e)
        /\ channel' = [s \in Sessions |->
                          IF s \in to THEN Pushed(channel[s], s, e) ELSE channel[s]]
        /\ log' = [s \in Sessions |-> IF s \in to THEN Append(log[s], e) ELSE log[s]]
        /\ client' = [c \in Clients |->
                         LET s == client[c].session
                         IN  IF s \in to /\ Listening(client[c], s)
                             THEN Received(client[c], item(s)) ELSE client[c]]
        /\ UNCHANGED <<epoch, drops, shown, upsets>>

(* What the turns of a session emit: a sub-agent is started by a running   *)
(* turn of its parent.                                                     *)
StartTurn(s) ==
    /\ turn[s].now = 0
    /\ turn[s].ran < MaxTurns
    /\ Parent[s] # None => turn[Parent[s]].now # 0
    /\ turn' = [turn EXCEPT ![s] = [now |-> @.ran + 1, ran |-> @.ran + 1]]
    /\ gapped' = gapped \ {s}
    /\ Emit([from |-> s, turn |-> turn[s].ran + 1, kind |-> "start", bytes |-> 1])

Progress(s) ==
    /\ turn[s].now # 0
    /\ \/ \E b \in Sizes :
             Emit([from |-> s, turn |-> turn[s].now, kind |-> "delta", bytes |-> b])
       \/ Emit([from |-> s, turn |-> turn[s].now, kind |-> "ask", bytes |-> 1])
    /\ UNCHANGED <<turn, gapped>>

EndTurn(s) ==
    /\ turn[s].now # 0
    /\ Emit([from |-> s, turn |-> turn[s].now, kind |-> "end", bytes |-> 1])
    /\ turn' = [turn EXCEPT ![s].now = 0]
    /\ UNCHANGED gapped

-----------------------------------------------------------------------------
(* Subscriptions                                                           *)

(* The oldest event available; of an empty window the one that comes next. *)
Oldest(ch) == IF ch.history = <<>> THEN ch.next + 1 ELSE Head(ch.history).cursor
From(ch, n) == Select(ch.history, {item \in Item : item.cursor >= n})

(* Mutant: a window that starts just after the wanted event will do. *)
TooOldOffByOne(ch, at) == at < ch.next /\ at + 1 < Oldest(ch) - 1

(* The cursor is behind what the window still holds. *)
TooOld(ch, at) == at < ch.next /\ at + 1 < Oldest(ch)

(* A subscription: replay, and a receiver on the channel from now on.  It  *)
(* starts after the event numbered at.                                     *)
Subscribed(c, s, at, replay) ==
    client' = [client EXCEPT ![c] =
        [state |-> "live", session |-> s, epoch |-> epoch, drops |-> drops[s], at |-> at,
         replay |-> replay, tail |-> <<>>, lagged |-> FALSE, closed |-> FALSE]]

(* A gap: the client reloads the session, which covers latest_cursor. *)
Reloads(c, s) ==
    /\ Subscribed(c, s, channel[s].next, <<>>)
    /\ shown' = [shown EXCEPT ![c] = None]

(* subscribe_current_turn: the whole running turn, or a gap; between turns *)
(* nothing but the receiver.                                               *)
Attach(c, s) ==
    /\ client[c].state = "new"
    /\ LET ch == channel[s]
       IN  \/ /\ ch.active # None
              /\ ch.active.start >= Oldest(ch)
              /\ Subscribed(c, s, ch.active.start - 1, From(ch, ch.active.start))
              /\ shown' = [shown EXCEPT ![c] = None]
           \/ /\ ch.active # None => ch.active.start < Oldest(ch)
              /\ Reloads(c, s)
    /\ UNCHANGED <<channel, known, epoch, drops, turn, gapped, log, emitted,
                   upsets>>

(* subscribe_turns_after: a cursor of another epoch, ahead of the channel  *)
(* or behind its window is answered with a gap, any other with the events  *)
(* after it.                                                               *)
Return(c) ==
    /\ client[c].state = "away"
    /\ LET s  == client[c].session
           at == client[c].at
           ch == channel[s]
           gap == client[c].epoch # epoch \/ at > ch.next \/ TooOld(ch, at)
       IN  \/ gap /\ Reloads(c, s)
           \/ /\ ~gap
              /\ client' = [client EXCEPT ![c].state = "live",
                                          ![c].replay = From(ch, at + 1)]
              /\ UNCHANGED shown
    /\ UNCHANGED <<channel, known, epoch, drops, turn, gapped, log, emitted,
                   upsets>>

(* The client handles the next event: first the replay, then its receiver. *)
Read(c) ==
    /\ client[c].state = "live"
    /\ \/ /\ client[c].replay # <<>>
          /\ shown' = [shown EXCEPT ![c] = Head(client[c].replay).event]
          /\ client' = [client EXCEPT ![c].replay = Tail(@),
                                      ![c].at = Head(client[c].replay).cursor]
       \/ /\ client[c].replay = <<>>
          /\ ~client[c].lagged
          /\ client[c].tail # <<>>
          /\ shown' = [shown EXCEPT ![c] = Head(client[c].tail).event]
          /\ client' = [client EXCEPT ![c].tail = Tail(@),
                                      ![c].at = Head(client[c].tail).cursor]
    /\ UNCHANGED <<channel, known, epoch, drops, turn, gapped, log, emitted,
                   upsets>>

(* The receiver is gone, with what it still held. *)
Away(c) ==
    client' = [client EXCEPT ![c].state = "away", ![c].replay = <<>>, ![c].tail = <<>>,
                             ![c].lagged = FALSE, ![c].closed = FALSE]

(* recv() answers Lagged, or Closed once the receiver is empty. *)
Notice(c) ==
    /\ client[c].state = "live"
    /\ client[c].replay = <<>>
    /\ client[c].lagged \/ (client[c].closed /\ client[c].tail = <<>>)
    /\ Away(c)
    /\ UNCHANGED <<channel, known, epoch, drops, turn, gapped, log, shown,
                   emitted, upsets>>

Leave(c) ==
    /\ client[c].state = "live"
    /\ upsets < MaxUpsets
    /\ upsets' = upsets + 1
    /\ Away(c)
    /\ UNCHANGED <<channel, known, epoch, drops, turn, gapped, log, shown,
                   emitted>>

-----------------------------------------------------------------------------
(* Gaps, deletion, restart                                                 *)

(* signal_turn_gap. *)
SignalTurnGap(s) ==
    /\ upsets < MaxUpsets
    /\ upsets' = upsets + 1
    /\ channel' = [channel EXCEPT ![s].history = <<>>, ![s].active = None]
    /\ gapped' = gapped \cup {s}
    /\ UNCHANGED <<known, epoch, drops, turn, log, client, shown, emitted>>

Closed(c) == IF c.state = "live" THEN [c EXCEPT !.closed = TRUE] ELSE c

(* drop_session, after the session was deleted: the next event or          *)
(* subscription opens a channel that counts from 1 again.  A turn of the   *)
(* session is not asked and runs on.                                       *)
DropSession(s) ==
    /\ upsets < MaxUpsets
    /\ upsets' = upsets + 1
    /\ drops' = [drops EXCEPT ![s] = @ + 1]
    /\ channel' = [channel EXCEPT ![s] = NewChannel]
    /\ log' = [log EXCEPT ![s] = <<>>]
    /\ gapped' = gapped \cup {s}
    /\ client' = [c \in Clients |-> IF client[c].session = s THEN Closed(client[c])
                                    ELSE client[c]]
    /\ UNCHANGED <<known, epoch, turn, shown, emitted>>

(* The process ends and starts again; clients keep their cursors. *)
Restart ==
    /\ upsets < MaxUpsets
    /\ upsets' = upsets + 1
    /\ epoch' = epoch + 1
    /\ channel' = [s \in Sessions |-> NewChannel]
    /\ known' = {}
    /\ drops' = [s \in Sessions |-> 0]
    /\ turn' = [s \in Sessions |-> [turn[s] EXCEPT !.now = 0]]
    /\ gapped' = {}
    /\ log' = [s \in Sessions |-> <<>>]
    /\ client' = [c \in Clients |-> Closed(client[c])]
    /\ UNCHANGED <<shown, emitted>>

Follow(c) == Return(c) \/ Read(c) \/ Notice(c)

Next ==
    \/ \E s \in Sessions : StartTurn(s) \/ Progress(s) \/ EndTurn(s)
    \/ \E c \in Clients : Follow(c) \/ Leave(c) \/ \E s \in Sessions : Attach(c, s)
    \/ \E s \in Sessions : SignalTurnGap(s) \/ DropSession(s)
    \/ Restart

Spec == Init /\ [][Next]_vars

(* A client that is attached keeps reading and comes back when it has to. *)
FairSpec == Spec /\ \A c \in Clients : WF_vars(Follow(c))

-----------------------------------------------------------------------------
(* The cursor the client holds counts events of the channel as it is now. *)
Valid(c) ==
    /\ client[c].state # "new"
    /\ client[c].epoch = epoch
    /\ client[c].drops = drops[client[c].session]

(* Every client sees the events of its session one by one, none twice and  *)
(* none left out, from the event it joined at, whether they come from the  *)
(* replay or from the receiver; what it cannot be shown any more it is     *)
(* told of.  The log of the abstract specification is everything that was  *)
(* emitted; the window, the receivers and the cursors implement it.        *)
Log == INSTANCE EventLog WITH
    Readers <- Clients, Events <- Event, Nowhere <- None,
    place <- [c \in Clients |->
                 IF Valid(c) THEN [session |-> client[c].session, at |-> client[c].at]
                 ELSE None]

SeesTheLog == Log!Spec

(* A running turn can be replayed from its TurnStart however long it gets: *)
(* only the byte cap, a signalled gap or the deletion of the session cuts  *)
(* it, and then an attaching client is told.                               *)
SinceStart(s) ==
    LET start == CHOOSE n \in DOMAIN log[s] :
                     log[s][n].kind = "start" /\ log[s][n].from = s
                     /\ log[s][n].turn = turn[s].now
    IN  SubSeq(log[s], start, Len(log[s]))

WindowKeepsActiveTurn ==
    \A s \in Sessions :
        turn[s].now # 0 /\ s \notin gapped =>
            LET events == SinceStart(s)
                window == channel[s].history
            IN  Total([i \in DOMAIN events |-> events[i].bytes]) <= MaxBytes =>
                    /\ channel[s].active # None
                    /\ Len(window) >= Len(events)
                    /\ \A i \in DOMAIN events :
                          window[Len(window) - Len(events) + i].event = events[i]

(* What a sub-agent asks is in the channel of each of its ancestors, once  *)
(* and in order, however deep it runs, and nothing else of it is.          *)
AsksOf(s, events) == Select(events, {e \in Event : e.from = s /\ e.kind = "ask"})
OthersOf(s, events) == Select(events, {e \in Event : e.from = s /\ e.kind # "ask"})

InteractionsReachAncestors ==
    \A s \in Sessions : \A a \in Above(s) :
        drops[s] = 0 /\ drops[a] = 0 =>
            /\ AsksOf(s, log[a]) = AsksOf(s, log[s])
            /\ OthersOf(s, log[a]) = <<>>

(* A client that follows a session is up to date again and again, through  *)
(* lag, gaps, deletion of the session and restarts.                        *)
UpToDate(c) ==
    /\ client[c].state = "live"
    /\ client[c].replay = <<>>
    /\ client[c].tail = <<>>
    /\ ~client[c].closed
    /\ client[c].at = channel[client[c].session].next

CatchesUp == \A c \in Clients : client[c].state # "new" ~> UpToDate(c)

=============================================================================

----------------------------- MODULE Compaction -----------------------------
(***************************************************************************)
(* A long conversation of one session (core/src/compact.rs and its callers *)
(* in round.rs and lib.rs): when a request is too large, or is about to    *)
(* be, old turns are replaced by a summary on the way to the model.  The   *)
(* rows of the turns stay; a summary is a row that names a range of turn   *)
(* numbers, and what a request shows is computed from the rows.            *)
(*                                                                         *)
(* One turn runs at a time (the session lock), and a history is rewound    *)
(* only between turns; Dispatch says how far the code keeps to that.       *)
(***************************************************************************)
EXTENDS Integers, FiniteSets, FiniteSetsExt, SequencesExt

CONSTANTS
    TailTurns,        \* context.tail_turns
    OverflowRetries,  \* context.overflow_retries
    MidstreamRetries, \* MAX_MIDSTREAM_RETRIES
    SummaryAttempts,  \* SUMMARY_ATTEMPTS
    MaxRounds,        \* limits.max_rounds
    MaxTurns,         \* bound: turn numbers
    MaxRewinds        \* bound: rewinds

ASSUME CompactionAssumption ==
    /\ TailTurns \in Nat \ {0} /\ SummaryAttempts \in Nat \ {0}
    /\ OverflowRetries \in Nat /\ MidstreamRetries \in Nat /\ MaxRounds \in Nat
    /\ MaxTurns \in Nat /\ MaxRewinds \in Nat

VARIABLES
    conv,      \* turns with conversation entries
    rows,      \* turns with a row of any kind: what MAX(turn_seq) sees
    summaries, \* compaction entries, each with the turn that wrote it
    phase,     \* where the running turn is
    turn,      \* its turn_seq
    rounds,    \* rounds begun
    retries,   \* midstream_retries
    overflows, \* attempts of this handshake that compaction answered
    refused,   \* history variable: turns that were verbatim in the refused request
    reason,    \* why the conversation is being compacted
    window,    \* the range being summarised
    tries,     \* summary calls made for it
    rewinds

stored == <<conv, rows, summaries>>
round  == <<rounds, retries, overflows, refused>>
work   == <<reason, window, tries>>
vars   == <<stored, phase, turn, round, work, rewinds>>

Turns == 1..MaxTurns
Ranges == [from : 0..MaxTurns, to : 0..MaxTurns]
NoRange == [from |-> 0, to |-> 0]
Summary == [turn : Turns, from : Turns, to : Turns]

\* Types of all variables.  A summary is written by a turn after the last one it covers.
TypeOK ==
    /\ conv \subseteq rows /\ rows \subseteq Turns
    /\ summaries \subseteq Summary
    /\ \A s \in summaries : s.from <= s.to /\ s.to < s.turn /\ s.turn \in rows
    /\ phase \in {"idle", "ready", "connecting", "streaming", "planning", "summarising"}
    /\ turn \in 0..MaxTurns
    /\ rounds \in 0..MaxRounds
    /\ retries \in 0..MidstreamRetries
    /\ overflows \in 0..OverflowRetries
    /\ refused \subseteq Turns
    /\ reason \in {"none", "threshold", "overflow", "manual"}
    /\ window \in Ranges
    /\ tries \in 0..SummaryAttempts
    /\ rewinds \in 0..MaxRewinds

Init ==
    /\ conv = {} /\ rows = {} /\ summaries = {}
    /\ phase = "idle" /\ turn = 0
    /\ rounds = 0 /\ retries = 0 /\ overflows = 0 /\ refused = {}
    /\ reason = "none" /\ window = NoRange /\ tries = 0
    /\ rewinds = 0

-----------------------------------------------------------------------------
(* What a request shows                                                    *)

Covers(s, t) == s.from <= t /\ t <= s.to
Swallows(s, o) == s.from <= o.from /\ o.to <= s.to

\* A summary inside another one is superseded.
EffectiveSummaries(written) ==
    {s \in written : \A o \in written :
        Swallows(o, s) => o.from = s.from /\ o.to = s.to}

Earlier(s, o) == s.from < o.from \/ (s.from = o.from /\ s.to < o.to)
Oldest(some) == CHOOSE s \in some : \A o \in some : ~Earlier(o, s)

AddOldest(sorted, written) == Append(sorted, Oldest(written \ Range(sorted)))
OldestFirst(written) ==
    LET sorted[n \in 0..Cardinality(written)] ==
            IF n = 0 THEN <<>> ELSE AddOldest(sorted[n - 1], written)
    IN  sorted[Cardinality(written)]

\* How far the summaries cover the conversation from turn 1 on without a gap.
ExtendPrefix(end, s) == IF s.from > end + 1 \/ s.to <= end THEN end ELSE s.to
CoveredPrefixEnd(effective) ==
    LET sorted == OldestFirst(effective)
        end[n \in 0..Len(sorted)] == IF n = 0 THEN 0 ELSE ExtendPrefix(end[n - 1], sorted[n])
    IN  end[Len(sorted)]

\* list_for_context_after: a covered prefix is not read.
Listed == {t \in conv : t > CoveredPrefixEnd(EffectiveSummaries(summaries))}

\* What stands for turn t: itself, or the oldest summary that covers it.
Itself(t) == [turn |-> t, from |-> t, to |-> t]
Place(t, effective) ==
    LET covering == {s \in effective : Covers(s, t)}
    IN  IF covering = {} THEN Itself(t) ELSE Oldest(covering)

\* A summary comes where the first listed turn it covers was; one that covers
\* none of them goes to the front.
AddTurn(shown, t, turns, effective) ==
    IF t \notin turns \/ Place(t, effective) \in Range(shown) THEN shown
    ELSE Append(shown, Place(t, effective))
InPlace(turns, effective) ==
    LET shown[t \in 0..MaxTurns] ==
            IF t = 0 THEN <<>> ELSE AddTurn(shown[t - 1], t, turns, effective)
    IN  shown[MaxTurns]

Shown(turns, effective) ==
    OldestFirst(effective \ Range(InPlace(turns, effective))) \o InPlace(turns, effective)

BuildContext == Shown(Listed, EffectiveSummaries(summaries))

\* The turns a request shows word for word.
Verbatim(context) == {t \in conv : Itself(t) \in Range(context)}

-----------------------------------------------------------------------------
(* Turns                                                                   *)

NextTurn == IF rows = {} THEN 1 ELSE Max(rows) + 1

Rest ==
    /\ phase' = "idle" /\ turn' = 0
    /\ rounds' = 0 /\ retries' = 0 /\ overflows' = 0 /\ refused' = {}
    /\ reason' = "none" /\ window' = NoRange /\ tries' = 0
    /\ UNCHANGED rewinds

\* However a turn ends, it leaves a row that says so.
EndTurn == Rest /\ rows' = rows \cup {turn} /\ UNCHANGED <<conv, summaries>>

\* A turn takes the next number and stores its input under it.
StartTurn ==
    /\ phase = "idle" /\ NextTurn <= MaxTurns
    /\ phase' = "ready" /\ turn' = NextTurn
    /\ conv' = conv \cup {NextTurn} /\ rows' = rows \cup {NextTurn}
    /\ UNCHANGED <<summaries, round, work, rewinds>>

\* A manual compaction is a turn without conversation.
CompactContext ==
    /\ phase = "idle" /\ NextTurn <= MaxTurns
    /\ phase' = "planning" /\ turn' = NextTurn /\ reason' = "manual"
    /\ UNCHANGED <<stored, round, window, tries, rewinds>>

\* A round looks at the size its predecessor reported before it builds a request.
BeginRound ==
    /\ phase = "ready"
    /\ rounds < MaxRounds /\ rounds' = rounds + 1
    /\ retries' = 0 /\ overflows' = 0 /\ refused' = {}
    /\ \/ phase' = "connecting" /\ UNCHANGED reason
       \/ phase' = "planning" /\ reason' = "threshold"
    /\ UNCHANGED <<stored, turn, window, tries, rewinds>>

\* The turn has nothing left to do, or ran out of rounds.
FinishTurn == phase = "ready" /\ EndTurn

\* A request that is too large is compacted as often as the setting allows.
Overflow ==
    /\ phase = "connecting"
    /\ overflows < OverflowRetries /\ overflows' = overflows + 1
    /\ refused' = Verbatim(BuildContext)
    /\ phase' = "planning" /\ reason' = "overflow"
    /\ UNCHANGED <<stored, turn, rounds, retries, window, tries, rewinds>>

\* It is refused again, or for another reason.
Refused == phase = "connecting" /\ EndTurn

Connect ==
    /\ phase = "connecting" /\ phase' = "streaming"
    /\ UNCHANGED <<stored, turn, round, work, rewinds>>

Complete ==
    /\ phase = "streaming" /\ phase' = "ready"
    /\ UNCHANGED <<stored, turn, round, work, rewinds>>

\* The stream dies: a new attempt, whose overflows count from zero.
Interrupted ==
    /\ phase = "streaming"
    /\ \/ /\ retries < MidstreamRetries /\ retries' = retries + 1
          /\ overflows' = 0 /\ refused' = {}
          /\ phase' = "connecting"
          /\ UNCHANGED <<stored, turn, rounds, work, rewinds>>
       \/ retries = MidstreamRetries /\ EndTurn

\* A stop drops whatever is awaited; half a summary was never stored.
Stop == phase # "idle" /\ EndTurn

Crash == phase # "idle" /\ Rest /\ UNCHANGED stored

\* Between turns the user goes back: everything after a turn is deleted.
Rewind(keep) ==
    /\ phase = "idle" /\ rewinds < MaxRewinds /\ rewinds' = rewinds + 1
    /\ conv' = {t \in conv : t <= keep}
    /\ rows' = {t \in rows : t <= keep}
    /\ summaries' = {s \in summaries : s.turn <= keep}
    /\ UNCHANGED <<phase, turn, round, work>>

-----------------------------------------------------------------------------
(* Compacting                                                              *)

\* next_compaction_bound: is there a turn before the protected tail?
AnythingOld == \E t \in conv : t > TailTurns

\* Mutant (ShownOnce): starts with the last turn of the last summary.
PlanRangeOverlapping ==
    LET ends == {s.to : s \in EffectiveSummaries(summaries)}
    IN  [from |-> IF ends = {} THEN Min(Listed) ELSE Max(ends),
         to   |-> Max(Listed) - TailTurns]

\* Mutant (TailKept): the rows of manual compactions count as turns.
PlanRangeOfAllRows ==
    LET ends == {s.to : s \in EffectiveSummaries(summaries)}
    IN  [from |-> IF ends = {} THEN Min(Listed) ELSE Max(ends) + 1,
         to   |-> Max(Listed \cup {s.turn : s \in summaries}) - TailTurns]

\* From where the last summary stopped up to the protected tail.
PlanRange ==
    LET ends == {s.to : s \in EffectiveSummaries(summaries)}
    IN  [from |-> IF ends = {} THEN Min(Listed) ELSE Max(ends) + 1,
         to   |-> Max(Listed) - TailTurns]

\* There is something to send: turns, or summaries written in the range.
Readable(range) ==
    \E t \in range.from..range.to :
        t \in Listed \/ \E s \in summaries : s.turn = t

\* Mutant (RetryIsSmaller): a request that overflowed is sent again all the same.
NotWrittenAndSent ==
    \/ /\ reason # "manual"
       /\ phase' = "connecting"
       /\ reason' = "none" /\ window' = NoRange /\ tries' = 0
       /\ UNCHANGED <<stored, turn, round, rewinds>>
    \/ reason = "manual" /\ EndTurn

\* compact returns false.  A request that may fit after all is sent.
NotWritten ==
    \/ /\ reason = "threshold"
       /\ phase' = "connecting"
       /\ reason' = "none" /\ window' = NoRange /\ tries' = 0
       /\ UNCHANGED <<stored, turn, round, rewinds>>
    \/ reason # "threshold" /\ EndTurn

CanPlan ==
    /\ AnythingOld /\ Listed # {}
    /\ PlanRange.from <= PlanRange.to /\ Readable(PlanRange)

Plan ==
    /\ phase = "planning" /\ CanPlan
    /\ phase' = "summarising" /\ window' = PlanRange
    /\ UNCHANGED <<stored, turn, round, reason, tries, rewinds>>

NothingToCompact == phase = "planning" /\ ~CanPlan /\ NotWritten

\* A hook forbids it.
Blocked == phase = "planning" /\ NotWritten

\* Mutant (TypeOK): asks for another summary as long as none is usable.
UnusableForEver ==
    /\ phase = "summarising" /\ tries' = tries + 1
    /\ UNCHANGED <<stored, phase, turn, round, reason, window, rewinds>>

\* The answer is cut off, empty or a tool call: once more, then not at all.
Unusable ==
    /\ phase = "summarising"
    /\ \/ /\ tries + 1 < SummaryAttempts /\ tries' = tries + 1
          /\ UNCHANGED <<stored, phase, turn, round, reason, window, rewinds>>
       \/ tries + 1 >= SummaryAttempts /\ NotWritten

\* The call, or storing its result, fails.
CompactFails == phase = "summarising" /\ NotWritten

\* What would remain is larger than the model's window: the turn ends, whatever the reason.
ContextUncompressible == phase = "summarising" /\ EndTurn

Summarise ==
    /\ phase = "summarising"
    /\ summaries' = summaries \cup {[turn |-> turn, from |-> window.from, to |-> window.to]}
    /\ rows' = rows \cup {turn}
    /\ UNCHANGED conv
    /\ \/ /\ reason # "manual"
          /\ phase' = "connecting"
          /\ reason' = "none" /\ window' = NoRange /\ tries' = 0
          /\ UNCHANGED <<turn, round, rewinds>>
       \/ reason = "manual" /\ Rest

-----------------------------------------------------------------------------
Next ==
    \/ StartTurn \/ CompactContext \/ BeginRound \/ FinishTurn
    \/ Overflow \/ Refused \/ Connect \/ Complete \/ Interrupted
    \/ Stop \/ Crash
    \/ \E keep \in 0..MaxTurns : Rewind(keep)
    \/ Plan \/ NothingToCompact \/ Blocked \/ Unusable \/ CompactFails
    \/ ContextUncompressible \/ Summarise

Spec == Init /\ [][Next]_vars

-----------------------------------------------------------------------------
(* Properties                                                              *)

\* "So nothing is lost from the chain": whatever turns, compactions, rewinds and
\* crashes came before, a request shows the conversation in order, and every turn
\* in it once, as itself or inside one summary.  The prefix that is no longer read,
\* the ranges that are planned and the summaries that a rewind leaves must agree.
ShownOnce ==
    LET context == BuildContext
    IN  /\ \A n \in 1..(Len(context) - 1) : context[n].to < context[n + 1].from
        /\ \A t \in conv : \E n \in DOMAIN context : Covers(context[n], t)

\* "The most recent tail_turns are never covered", the turn in flight among them:
\* a turn that is not shown as itself has at least TailTurns turns after it.  Manual
\* compactions, which take turn numbers of their own, must not count as such.
TailKept ==
    \A t \in conv \ Verbatim(BuildContext) :
        Cardinality({u \in conv : u > t}) >= TailTurns

\* A request that was refused as too large is sent again only with fewer turns in it
\* ("retrying would send the same thing again").
RetryIsSmaller ==
    phase = "connecting" /\ overflows > 0 =>
        /\ Verbatim(BuildContext) \subseteq refused
        /\ Verbatim(BuildContext) # refused

=============================================================================

-------------------------- MODULE CompactionProofs --------------------------
(***************************************************************************)
(* Proofs about Compaction for any limits: its types and the shape of the  *)
(* summaries for any protected tail (IInv), and what a request shows with  *)
(* the default tail of one turn (Anchored, Retrying).                      *)
(*                                                                         *)
(* In between are the operators that say what a request shows, for any     *)
(* chain of summaries and any turns: what the loops return (Sorted,        *)
(* PrefixIsCovered, InPlaceIs) and that places are in order.               *)
(***************************************************************************)
EXTENDS Compaction, FiniteSetTheorems, SequenceTheorems, WellFoundedInduction, TLAPS

USE CompactionAssumption

(* Turn numbers are taken past the greatest one so far.  That there is one *)
(* follows from < being well-founded on the naturals: it is the least of   *)
(* their bounds.                                                           *)
NatOrder == {p \in Nat \X Nat : p[1] < p[2]}

LEMMA NatOrderWellFounded == IsWellFoundedOn(NatOrder, Nat)
<1>1. OpToRel(<, Nat) = NatOrder
  BY DEF OpToRel, NatOrder
<1> QED BY <1>1, NatLessThanWellFounded, Zenon

LEMMA LeastExists ==
    ASSUME NEW S \in SUBSET Nat, S # {}
    PROVE  \E n \in S : \A m \in S : n <= m
<1>1. PICK n \in S : \A m \in S : <<m, n>> \notin NatOrder
  BY NatOrderWellFounded, WFMin
<1>2. ASSUME NEW m \in S PROVE n <= m
  <2>1. m \in Nat /\ n \in Nat
    OBVIOUS
  <2>2. <<m, n>> \in NatOrder <=> m < n
    BY <2>1 DEF NatOrder
  <2> QED BY <1>1, <2>1, <2>2
<1> QED BY <1>2

LEMMA GreatestExists ==
    ASSUME NEW S \in SUBSET Nat, S # {}, NEW k \in Nat, \A n \in S : n <= k
    PROVE  \E n \in S : \A m \in S : m <= n
<1> DEFINE B == {b \in Nat : \A n \in S : n <= b}
<1>1. B \in SUBSET Nat /\ k \in B
  OBVIOUS
<1>2. PICK b \in B : \A c \in B : b <= c
  BY <1>1, LeastExists, Zenon
<1>3. b \in Nat /\ \A n \in S : n <= b
  BY <1>2
<1>4. ASSUME b \notin S PROVE FALSE
  <2>1. \A n \in S : n \in Nat /\ n <= b - 1
    BY <1>3, <1>4
  <2>2. PICK x \in S : x \in Nat
    OBVIOUS
  <2>3. b - 1 \in B
    BY <1>3, <2>1, <2>2
  <2> QED BY <1>2, <1>3, <2>3
<1> QED BY <1>3, <1>4

LEMMA MaxOfTurns ==
    ASSUME NEW S \in SUBSET Nat, S # {}, NEW k \in Nat, \A n \in S : n <= k
    PROVE  Max(S) \in S /\ \A n \in S : n <= Max(S)
<1>1. PICK n \in S : \A m \in S : m <= n
  BY GreatestExists
<1>2. \A m \in S : n >= m
  BY <1>1
<1> QED BY <1>1, <1>2 DEF Max

LEMMA MinOfTurns ==
    ASSUME NEW S \in SUBSET Nat, S # {}
    PROVE  Min(S) \in S /\ \A n \in S : Min(S) <= n
<1>1. PICK n \in S : \A m \in S : n <= m
  BY LeastExists
<1> QED BY <1>1 DEF Min

-----------------------------------------------------------------------------
(* The invariant                                                           *)

(* Summaries chain rather than nest.                                       *)
Chained ==
    \A s, o \in summaries : s = o \/ s.to < o.from \/ o.to < s.from

(* A range ends TailTurns before a conversation turn that was there.       *)
EndsBeforeTail(range, last) ==
    \E u \in conv : range.to + TailTurns <= u /\ u <= last

TailRespected == \A s \in summaries : EndsBeforeTail(s, s.turn)

RunningTurnIsLast ==
    phase # "idle" => turn \in Turns /\ \A t \in rows : t <= turn

WindowPlanned ==
    phase = "summarising" =>
        /\ 1 <= window.from /\ window.from <= window.to
        /\ \A s \in summaries : s.to < window.from
        /\ EndsBeforeTail(window, turn)

IInv == TypeOK /\ Chained /\ TailRespected /\ RunningTurnIsLast /\ WindowPlanned

LEMMA InitIsRight == Init => IInv
<1> SUFFICES ASSUME Init PROVE IInv
  OBVIOUS
<1>1. TypeOK
  BY DEF Init, TypeOK, Ranges, NoRange
<1> QED BY <1>1 DEF Init, IInv, Chained, TailRespected, RunningTurnIsLast, WindowPlanned

(* The next turn follows every row.                                        *)
LEMMA NextTurnFollows ==
    ASSUME TypeOK
    PROVE  NextTurn \in Nat \ {0} /\ \A t \in rows : t < NextTurn
<1>1. rows \in SUBSET Nat /\ MaxTurns \in Nat /\ \A t \in rows : t \in Nat /\ t <= MaxTurns
  BY DEF TypeOK, Turns
<1>2. CASE rows = {}
  BY <1>2 DEF NextTurn
<1>3. CASE rows # {}
  <2>1. Max(rows) \in rows /\ \A t \in rows : t <= Max(rows)
    BY <1>1, <1>3, MaxOfTurns
  <2>2. NextTurn = Max(rows) + 1 /\ Max(rows) \in Nat
    BY <1>1, <1>3, <2>1 DEF NextTurn
  <2> QED BY <1>1, <2>1, <2>2
<1> QED BY <1>2, <1>3

(* What is planned begins after every summary and ends before the tail.    *)
LEMMA PlanIsRight ==
    ASSUME IInv, phase = "planning", Listed # {}, PlanRange.from <= PlanRange.to
    PROVE  /\ PlanRange \in Ranges
           /\ 1 <= PlanRange.from
           /\ \A s \in summaries : s.to < PlanRange.from
           /\ EndsBeforeTail(PlanRange, turn)
<1> DEFINE ends == {s.to : s \in EffectiveSummaries(summaries)}
<1> DEFINE from == IF ends = {} THEN Min(Listed) ELSE Max(ends) + 1
<1>1. PlanRange = [from |-> from, to |-> Max(Listed) - TailTurns]
  BY DEF PlanRange
<1>2. Listed \in SUBSET conv /\ Listed \in SUBSET Nat /\ \A t \in conv : t \in Nat /\ 1 <= t /\ t <= MaxTurns
  <2>1. \A t \in conv : t \in Nat /\ 1 <= t /\ t <= MaxTurns
    BY DEF IInv, TypeOK, Turns
  <2>2. Listed \in SUBSET conv
    BY DEF Listed
  <2> QED BY <2>1, <2>2
<1>3. Max(Listed) \in Listed
  BY <1>2, MaxOfTurns
<1>4. \A s \in summaries : s.from \in Nat /\ s.to \in Nat /\ s.turn \in Nat /\ s.from <= s.to /\ s.to <= MaxTurns
  BY DEF IInv, TypeOK, Summary, Turns
<1>5. EffectiveSummaries(summaries) = summaries
  <2>1. ASSUME NEW s \in summaries, NEW o \in summaries, Swallows(o, s)
        PROVE  o = s
    BY <1>4, <2>1 DEF Swallows, IInv, Chained
  <2> QED BY <2>1 DEF EffectiveSummaries
<1>6. /\ from \in Nat /\ 1 <= from
      /\ \A s \in summaries : s.to < from
  <2>1. CASE ends = {}
    <3>1. summaries = {}
      BY <2>1, <1>5
    <3>2. Min(Listed) \in Listed
      BY <1>2, MinOfTurns
    <3> QED BY <2>1, <3>1, <3>2, <1>2
  <2>2. CASE ends # {}
    <3>1. ends \in SUBSET Nat /\ \A e \in ends : e <= MaxTurns
      BY <1>4, <1>5
    <3>2. Max(ends) \in ends /\ \A e \in ends : e <= Max(ends)
      BY <2>2, <3>1, MaxOfTurns
    <3>3. \A s \in summaries : s.to \in ends
      BY <1>5
    <3>4. from = Max(ends) + 1
      BY <2>2
    <3> HIDE DEF ends, from
    <3>5. Max(ends) \in Nat
      BY <3>1, <3>2
    <3> QED BY <3>2, <3>3, <3>4, <3>5, <1>4
  <2> QED BY <2>1, <2>2
<1> HIDE DEF from
<1>7. Max(Listed) \in conv /\ Max(Listed) \in Nat /\ Max(Listed) <= MaxTurns /\ Max(Listed) <= turn
  BY <1>2, <1>3 DEF IInv, TypeOK, RunningTurnIsLast
<1>8. PlanRange.from = from /\ PlanRange.to = Max(Listed) - TailTurns
  BY <1>1
<1>9. PlanRange \in Ranges
  BY <1>1, <1>6, <1>7, <1>8 DEF Ranges
<1>10. EndsBeforeTail(PlanRange, turn)
  BY <1>7, <1>8 DEF EndsBeforeTail
<1> QED BY <1>6, <1>8, <1>9, <1>10

-----------------------------------------------------------------------------
(* Steps                                                                   *)

(* Steps that leave the rows alone and plan nothing.                       *)
LEMMA StoredIsKept ==
    ASSUME IInv, UNCHANGED stored, TypeOK',
           phase' # "idle" => phase # "idle" /\ UNCHANGED turn,
           phase' = "summarising" => phase = "summarising" /\ UNCHANGED window
    PROVE  IInv'
<1>1. UNCHANGED <<conv, rows, summaries>>
  BY DEF stored
<1>2. Chained' /\ TailRespected'
  BY <1>1 DEF IInv, Chained, TailRespected, EndsBeforeTail
<1>3. RunningTurnIsLast'
  BY <1>1 DEF IInv, RunningTurnIsLast
<1>4. WindowPlanned'
  BY <1>1 DEF IInv, WindowPlanned, EndsBeforeTail
<1> QED BY <1>2, <1>3, <1>4 DEF IInv

LEMMA EndKeeps ==
    ASSUME IInv, phase # "idle", EndTurn
    PROVE  IInv'
<1> USE DEF EndTurn, Rest
<1>1. turn \in Turns
  BY DEF IInv, RunningTurnIsLast
<1>2. TypeOK'
  BY <1>1 DEF IInv, TypeOK, Ranges, NoRange
<1>3. Chained' /\ TailRespected'
  BY DEF IInv, Chained, TailRespected, EndsBeforeTail
<1>4. RunningTurnIsLast' /\ WindowPlanned'
  BY DEF RunningTurnIsLast, WindowPlanned
<1> QED BY <1>2, <1>3, <1>4 DEF IInv

LEMMA CrashKeeps ==
    ASSUME IInv, Crash
    PROVE  IInv'
<1>1. TypeOK'
  BY DEF Crash, Rest, stored, IInv, TypeOK, Ranges, NoRange
<1> QED BY <1>1, StoredIsKept DEF Crash, Rest

LEMMA NotWrittenKeeps ==
    ASSUME IInv, phase # "idle", NotWritten
    PROVE  IInv'
<1>1. CASE /\ reason = "threshold" /\ phase' = "connecting"
           /\ reason' = "none" /\ window' = NoRange /\ tries' = 0
           /\ UNCHANGED <<stored, turn, round, rewinds>>
  <2>1. TypeOK'
    BY <1>1 DEF stored, round, IInv, TypeOK, Ranges, NoRange
  <2> QED BY <1>1, <2>1, StoredIsKept
<1> QED BY <1>1, EndKeeps DEF NotWritten

LEMMA StartTurnKeeps ==
    ASSUME IInv, StartTurn
    PROVE  IInv'
<1> USE DEF StartTurn
<1>1. NextTurn \in Turns /\ \A t \in rows : t < NextTurn
  BY NextTurnFollows DEF IInv, Turns
<1>2. TypeOK'
  BY <1>1 DEF IInv, TypeOK, round, work, Turns
<1>3. Chained' /\ TailRespected'
  BY DEF IInv, Chained, TailRespected, EndsBeforeTail
<1>4. RunningTurnIsLast'
  BY <1>1 DEF IInv, TypeOK, RunningTurnIsLast, Turns
<1>5. WindowPlanned'
  BY DEF WindowPlanned
<1> QED BY <1>2, <1>3, <1>4, <1>5 DEF IInv

LEMMA CompactContextKeeps ==
    ASSUME IInv, CompactContext
    PROVE  IInv'
<1> USE DEF CompactContext
<1>1. NextTurn \in Turns /\ \A t \in rows : t < NextTurn
  BY NextTurnFollows DEF IInv, Turns
<1>2. TypeOK'
  BY <1>1 DEF IInv, TypeOK, stored, round, Turns
<1>3. Chained' /\ TailRespected'
  BY DEF IInv, Chained, TailRespected, EndsBeforeTail, stored
<1>4. RunningTurnIsLast'
  BY <1>1 DEF IInv, TypeOK, RunningTurnIsLast, Turns, stored
<1>5. WindowPlanned'
  BY DEF WindowPlanned
<1> QED BY <1>2, <1>3, <1>4, <1>5 DEF IInv

LEMMA BeginRoundKeeps ==
    ASSUME IInv, BeginRound
    PROVE  IInv'
<1>1. TypeOK'
  BY DEF BeginRound, stored, IInv, TypeOK
<1> QED BY <1>1, StoredIsKept DEF BeginRound

LEMMA OverflowKeeps ==
    ASSUME IInv, Overflow
    PROVE  IInv'
<1>1. Verbatim(BuildContext) \subseteq conv
  BY DEF Verbatim
<1>2. TypeOK'
  BY <1>1 DEF Overflow, stored, IInv, TypeOK
<1> QED BY <1>2, StoredIsKept DEF Overflow

LEMMA StreamKeeps ==
    ASSUME IInv, Connect \/ Complete \/ Interrupted
    PROVE  IInv'
<1>1. CASE Connect \/ Complete
  <2>1. TypeOK'
    BY <1>1 DEF Connect, Complete, stored, round, work, IInv, TypeOK
  <2> QED BY <1>1, <2>1, StoredIsKept DEF Connect, Complete
<1>2. CASE /\ phase = "streaming"
           /\ retries < MidstreamRetries /\ retries' = retries + 1
           /\ overflows' = 0 /\ refused' = {}
           /\ phase' = "connecting"
           /\ UNCHANGED <<stored, turn, rounds, work, rewinds>>
  <2>1. TypeOK'
    BY <1>2 DEF stored, work, IInv, TypeOK
  <2> QED BY <1>2, <2>1, StoredIsKept
<1> QED BY <1>1, <1>2, EndKeeps DEF Interrupted

LEMMA RewindKeeps ==
    ASSUME IInv, NEW keep \in 0..MaxTurns, Rewind(keep)
    PROVE  IInv'
<1> USE DEF Rewind
<1>1. TypeOK'
  BY DEF IInv, TypeOK, round, work
<1>2. Chained'
  BY DEF IInv, Chained
<1>3. TailRespected'
  <2> SUFFICES ASSUME NEW s \in summaries, s.turn <= keep
               PROVE  EndsBeforeTail(s, s.turn)'
    BY DEF TailRespected
  <2>1. PICK u \in conv : s.to + TailTurns <= u /\ u <= s.turn
    BY DEF IInv, TailRespected, EndsBeforeTail
  <2>2. u \in Nat /\ s.turn \in Nat
    BY <2>1 DEF IInv, TypeOK, Turns, Summary
  <2>3. u <= keep
    BY <2>1, <2>2
  <2> QED BY <2>1, <2>3 DEF EndsBeforeTail
<1>4. RunningTurnIsLast' /\ WindowPlanned'
  BY DEF RunningTurnIsLast, WindowPlanned
<1> QED BY <1>1, <1>2, <1>3, <1>4 DEF IInv

LEMMA PlanKeeps ==
    ASSUME IInv, Plan
    PROVE  IInv'
<1> USE DEF Plan
<1>1. /\ PlanRange \in Ranges /\ 1 <= PlanRange.from
      /\ \A s \in summaries : s.to < PlanRange.from
      /\ EndsBeforeTail(PlanRange, turn)
  BY PlanIsRight DEF CanPlan
<1>2. TypeOK'
  BY <1>1 DEF IInv, TypeOK, stored, round
<1>3. Chained' /\ TailRespected' /\ RunningTurnIsLast'
  BY DEF IInv, Chained, TailRespected, EndsBeforeTail, RunningTurnIsLast, stored
<1>4. WindowPlanned'
  BY <1>1 DEF WindowPlanned, EndsBeforeTail, CanPlan, stored
<1> QED BY <1>2, <1>3, <1>4 DEF IInv

LEMMA UnusableKeeps ==
    ASSUME IInv, Unusable
    PROVE  IInv'
<1>1. CASE /\ phase = "summarising"
           /\ tries + 1 < SummaryAttempts /\ tries' = tries + 1
           /\ UNCHANGED <<stored, phase, turn, round, reason, window, rewinds>>
  <2>1. TypeOK'
    BY <1>1 DEF stored, round, IInv, TypeOK
  <2> QED BY <1>1, <2>1, StoredIsKept
<1> QED BY <1>1, NotWrittenKeeps DEF Unusable

LEMMA SummariseKeeps ==
    ASSUME IInv, Summarise
    PROVE  IInv'
<1> DEFINE new == [turn |-> turn, from |-> window.from, to |-> window.to]
<1>1. /\ phase = "summarising" /\ summaries' = summaries \cup {new}
      /\ rows' = rows \cup {turn} /\ conv' = conv
  BY DEF Summarise
<1>2. /\ turn \in Turns /\ \A t \in rows : t <= turn
      /\ 1 <= window.from /\ window.from <= window.to
      /\ window.from \in Nat /\ window.to \in Nat
      /\ \A s \in summaries : s.to < window.from
      /\ EndsBeforeTail(window, turn)
  BY <1>1 DEF IInv, RunningTurnIsLast, WindowPlanned, TypeOK, Ranges
<1>3. window.to < turn
  BY <1>2 DEF EndsBeforeTail, IInv, TypeOK, Turns
<1>4. new \in Summary /\ new.turn = turn /\ new.from = window.from /\ new.to = window.to
  BY <1>2, <1>3 DEF Summary, Turns
<1> HIDE DEF new
<1>5. TypeOK'
  <2>1. summaries' \subseteq Summary /\ rows' \subseteq Turns /\ conv' \subseteq rows'
    BY <1>1, <1>2, <1>4 DEF IInv, TypeOK
  <2>2. \A s \in summaries' : s.from <= s.to /\ s.to < s.turn /\ s.turn \in rows'
    BY <1>1, <1>2, <1>3, <1>4 DEF IInv, TypeOK
  <2>3. UNCHANGED <<rewinds>> /\ phase' \in {"connecting", "idle"} /\ reason' = "none"
        /\ window' = NoRange /\ tries' = 0
        /\ (UNCHANGED <<turn, round>> \/ (turn' = 0 /\ rounds' = 0 /\ retries' = 0
                                          /\ overflows' = 0 /\ refused' = {}))
    BY DEF Summarise, Rest
  <2> QED BY <2>1, <2>2, <2>3 DEF IInv, TypeOK, round, Ranges, NoRange
<1>6. Chained'
  BY <1>1, <1>2, <1>4 DEF IInv, Chained
<1>7. TailRespected'
  BY <1>1, <1>2, <1>4 DEF IInv, TailRespected, EndsBeforeTail
<1>8. RunningTurnIsLast' /\ WindowPlanned'
  BY <1>1, <1>2 DEF Summarise, Rest, RunningTurnIsLast, WindowPlanned, Turns
<1> QED BY <1>5, <1>6, <1>7, <1>8 DEF IInv

LEMMA StepKeeps == IInv /\ [Next]_vars => IInv'
<1> SUFFICES ASSUME IInv, [Next]_vars PROVE IInv'
  OBVIOUS
<1>1. CASE UNCHANGED vars
  <2>1. UNCHANGED <<conv, rows, summaries, phase, turn, rounds, retries, overflows,
                    refused, reason, window, tries, rewinds>>
    BY <1>1 DEF vars, stored, round, work
  <2>2. TypeOK'
    BY <2>1 DEF IInv, TypeOK
  <2> QED BY <2>1, <2>2, StoredIsKept DEF stored
<1>2. CASE FinishTurn \/ Refused \/ Stop \/ ContextUncompressible
  BY <1>2, EndKeeps DEF FinishTurn, Refused, Stop, ContextUncompressible
<1>3. CASE NothingToCompact \/ Blocked \/ CompactFails
  BY <1>3, NotWrittenKeeps DEF NothingToCompact, Blocked, CompactFails
<1>4. CASE Connect \/ Complete \/ Interrupted
  BY <1>4, StreamKeeps
<1>5. CASE \E keep \in 0..MaxTurns : Rewind(keep)
  BY <1>5, RewindKeeps
<1> QED BY <1>1, <1>2, <1>3, <1>4, <1>5, StartTurnKeeps, CompactContextKeeps,
           BeginRoundKeeps, OverflowKeeps, CrashKeeps, PlanKeeps, UnusableKeeps,
           SummariseKeeps DEF Next

THEOREM Invariance == Spec => []IInv
<1> QED BY InitIsRight, StepKeeps, PTL DEF Spec

-----------------------------------------------------------------------------
(* Every reachable state is well typed: in particular no range is empty or *)
(* reaches its own turn, and no more summary calls are made than           *)
(* SUMMARY_ATTEMPTS.                                                       *)
THEOREM TypeCorrect == Spec => []TypeOK
<1>1. IInv => TypeOK
  BY DEF IInv
<1> QED BY <1>1, Invariance, PTL

(* plan_range starts where the last summary stopped: no turn is in two     *)
(* summaries, whatever is rewound and whichever numbers are used again.    *)
THEOREM SummariesChain == Spec => []Chained
<1>1. IInv => Chained
  BY DEF IInv
<1> QED BY <1>1, Invariance, PTL

(* plan_range ends tail_turns short of the newest turn: no summary covers  *)
(* that turn or reaches nearer to it, also after a rewind.                 *)
THEOREM TailIsProtected == Spec => []TailRespected
<1>1. IInv => TailRespected
  BY DEF IInv
<1> QED BY <1>1, Invariance, PTL

-----------------------------------------------------------------------------
(* Loops                                                                   *)

Inductive(S, L) == 0 \in S /\ \A n \in 1..L : n - 1 \in S => n \in S

LEMMA UpTo ==
    ASSUME NEW L \in Nat, NEW S, Inductive(S, L)
    PROVE  0..L \subseteq S
<1> USE DEF Inductive
<1> DEFINE Bad == {n \in 0..L : n \notin S}
<1> SUFFICES ASSUME Bad # {} PROVE FALSE
  OBVIOUS
<1>1. PICK n \in Bad : \A m \in Bad : n <= m
  <2>1. Bad \in SUBSET Nat
    OBVIOUS
  <2> HIDE DEF Bad
  <2> QED BY <2>1, LeastExists
<1>2. n \in 1..L /\ n - 1 \in 0..L
  BY <1>1
<1>3. n - 1 \notin Bad
  <2>1. n - 1 < n
    BY <1>2
  <2> HIDE DEF Bad
  <2> QED BY <1>1, <1>2, <2>1
<1> QED BY <1>1, <1>2, <1>3

(* The loops of Compaction: over the summaries that are not sorted yet,    *)
(* over the sorted ones, over the turns; p is what they work on.           *)
Start(loop) == IF loop = "prefix" THEN 0 ELSE <<>>

Iteration(loop, p, result, n) ==
    IF loop = "sort" THEN AddOldest(result, p)
    ELSE IF loop = "prefix" THEN ExtendPrefix(result, p[n])
    ELSE AddTurn(result, n, p.turns, p.effective)

IsLoop(F, loop, p, k) ==
    F = [n \in 0..k |-> IF n = 0 THEN Start(loop) ELSE Iteration(loop, p, F[n - 1], n)]

LEMMA LoopValues ==
    ASSUME NEW k \in Nat, NEW loop, NEW p, NEW F, IsLoop(F, loop, p, k)
    PROVE  /\ F[0] = Start(loop)
           /\ \A n \in 1..k : F[n] = Iteration(loop, p, F[n - 1], n)
<1>1. \A n \in 0..k : F[n] = IF n = 0 THEN Start(loop) ELSE Iteration(loop, p, F[n - 1], n)
  BY Zenon DEF IsLoop
<1>2. 0 \in 0..k /\ \A n \in 1..k : n \in 0..k /\ n # 0
  OBVIOUS
<1> QED BY <1>1, <1>2

LEMMA LoopExists ==
    ASSUME NEW L \in Nat, NEW loop, NEW p
    PROVE  \E F : IsLoop(F, loop, p, L)
<1> DEFINE Good == {k \in 0..L : \E F : IsLoop(F, loop, p, k)}
<1>1. 0 \in Good
  <2> DEFINE F == [n \in 0..0 |-> Start(loop)]
  <2>1. F = [n \in 0..0 |-> IF n = 0 THEN Start(loop) ELSE Iteration(loop, p, F[n - 1], n)]
    OBVIOUS
  <2>2. IsLoop(F, loop, p, 0)
    <3> HIDE DEF F
    <3> QED BY <2>1 DEF IsLoop
  <2>3. 0 \in 0..L
    OBVIOUS
  <2> QED BY <2>2, <2>3
<1>2. ASSUME NEW k \in 1..L, k - 1 \in Good PROVE k \in Good
  <2>1. PICK F : IsLoop(F, loop, p, k - 1)
    BY <1>2
  <2>2. k - 1 \in Nat /\ k \in 0..L
    OBVIOUS
  <2>3. /\ F[0] = Start(loop)
        /\ \A n \in 1..(k - 1) : F[n] = Iteration(loop, p, F[n - 1], n)
    BY <2>1, <2>2, LoopValues
  <2> DEFINE G == [n \in 0..k |-> IF n = k THEN Iteration(loop, p, F[k - 1], k) ELSE F[n]]
  <2>4. /\ G = [n \in 0..k |-> G[n]]
        /\ G[k] = Iteration(loop, p, F[k - 1], k)
        /\ \A n \in 0..(k - 1) : G[n] = F[n]
    OBVIOUS
  <2>5. ASSUME NEW n \in 0..k
        PROVE  G[n] = IF n = 0 THEN Start(loop) ELSE Iteration(loop, p, G[n - 1], n)
    <3> HIDE DEF G
    <3>1. CASE n = 0
      <4>1. 0 \in 0..(k - 1)
        OBVIOUS
      <4> QED BY <2>3, <2>4, <3>1, <4>1
    <3>2. CASE n = k
      <4>1. k - 1 \in 0..(k - 1) /\ k # 0
        OBVIOUS
      <4> QED BY <2>4, <3>2, <4>1
    <3>3. CASE n # 0 /\ n # k
      <4>1. n \in 1..(k - 1) /\ n \in 0..(k - 1) /\ n - 1 \in 0..(k - 1)
        BY <3>3
      <4> QED BY <2>3, <2>4, <3>3, <4>1
    <3> QED BY <3>1, <3>2, <3>3
  <2>6. G = [n \in 0..k |-> IF n = 0 THEN Start(loop) ELSE Iteration(loop, p, G[n - 1], n)]
    <3> HIDE DEF G
    <3> QED BY <2>4, <2>5
  <2>7. IsLoop(G, loop, p, k)
    <3> HIDE DEF G
    <3> QED BY <2>6 DEF IsLoop
  <2> QED BY <2>2, <2>7
<1>3. 0..L \subseteq Good
  <2> HIDE DEF Good
  <2> QED BY <1>1, <1>2, UpTo DEF Inductive
<1>4. L \in 0..L
  OBVIOUS
<1> QED BY <1>3, <1>4

(* What the recursive functions are.                                       *)
LEMMA SortingLoop ==
    ASSUME NEW S, Cardinality(S) \in Nat
    PROVE  \E F : IsLoop(F, "sort", S, Cardinality(S)) /\ OldestFirst(S) = F[Cardinality(S)]
<1> DEFINE Rec(F) == [n \in 0..Cardinality(S) |-> IF n = 0 THEN <<>> ELSE AddOldest(F[n - 1], S)]
           C == CHOOSE F : F = Rec(F)
<1>1. OldestFirst(S) = C[Cardinality(S)]
  BY Zenon DEF OldestFirst
<1>2. ASSUME NEW F PROVE IsLoop(F, "sort", S, Cardinality(S)) <=> F = Rec(F)
  BY DEF IsLoop, Iteration, Start
<1>3. \E F : F = Rec(F)
  <2>1. \E F : IsLoop(F, "sort", S, Cardinality(S))
    BY LoopExists
  <2> HIDE DEF Rec
  <2> QED BY <1>2, <2>1
<1>4. C = Rec(C)
  <2> HIDE DEF Rec
  <2> QED BY <1>3
<1> HIDE DEF C, Rec
<1> QED BY <1>1, <1>2, <1>4

LEMMA PrefixLoop ==
    ASSUME NEW S, Len(OldestFirst(S)) \in Nat
    PROVE  \E F : /\ IsLoop(F, "prefix", OldestFirst(S), Len(OldestFirst(S)))
                  /\ CoveredPrefixEnd(S) = F[Len(OldestFirst(S))]
<1> DEFINE Rec(F) == [n \in 0..Len(OldestFirst(S)) |->
                         IF n = 0 THEN 0 ELSE ExtendPrefix(F[n - 1], OldestFirst(S)[n])]
           C == CHOOSE F : F = Rec(F)
<1>1. CoveredPrefixEnd(S) = C[Len(OldestFirst(S))]
  BY Zenon DEF CoveredPrefixEnd
<1>2. ASSUME NEW F
      PROVE  IsLoop(F, "prefix", OldestFirst(S), Len(OldestFirst(S))) <=> F = Rec(F)
  BY DEF IsLoop, Iteration, Start
<1>3. \E F : F = Rec(F)
  <2>1. \E F : IsLoop(F, "prefix", OldestFirst(S), Len(OldestFirst(S)))
    BY LoopExists
  <2> HIDE DEF Rec
  <2> QED BY <1>2, <2>1
<1>4. C = Rec(C)
  <2> HIDE DEF Rec
  <2> QED BY <1>3
<1> HIDE DEF C, Rec
<1> QED BY <1>1, <1>2, <1>4

Work(T, E) == [turns |-> T, effective |-> E]

LEMMA PlacingLoop ==
    ASSUME NEW T, NEW E
    PROVE  \E F : IsLoop(F, "turns", Work(T, E), MaxTurns) /\ InPlace(T, E) = F[MaxTurns]
<1> DEFINE Rec(F) == [t \in 0..MaxTurns |-> IF t = 0 THEN <<>> ELSE AddTurn(F[t - 1], t, T, E)]
           C == CHOOSE F : F = Rec(F)
<1>1. InPlace(T, E) = C[MaxTurns]
  BY Zenon DEF InPlace
<1>2. ASSUME NEW F PROVE IsLoop(F, "turns", Work(T, E), MaxTurns) <=> F = Rec(F)
  BY DEF IsLoop, Iteration, Start, Work
<1>3. \E F : F = Rec(F)
  <2>1. \E F : IsLoop(F, "turns", Work(T, E), MaxTurns)
    BY LoopExists
  <2> HIDE DEF Rec
  <2> QED BY <1>2, <2>1
<1>4. C = Rec(C)
  <2> HIDE DEF Rec
  <2> QED BY <1>3
<1> HIDE DEF C, Rec
<1> QED BY <1>1, <1>2, <1>4

-----------------------------------------------------------------------------
(* Chains of summaries                                                     *)

(* Summaries of which no two overlap: what the rows always hold.           *)
Chain(S) ==
    /\ S \subseteq Summary
    /\ \A s \in S : s.from <= s.to /\ s.to < s.turn
    /\ \A s, o \in S : s = o \/ s.to < o.from \/ o.to < s.from

(* One after the other.                                                    *)
InOrder(context) == \A n \in 1..(Len(context) - 1) : context[n].to < context[n + 1].from

AllBefore(S, T) == \A s \in S, o \in T : s.to < o.from

LEMMA ChainNumbers ==
    ASSUME NEW S, Chain(S), NEW s \in S
    PROVE  /\ s.from \in Nat /\ s.to \in Nat /\ s.turn \in Nat
           /\ 1 <= s.from /\ s.from <= s.to /\ s.to < s.turn
           /\ s.from <= MaxTurns /\ s.to <= MaxTurns
BY DEF Chain, Summary, Turns

LEMMA PartOfChain ==
    ASSUME NEW S, Chain(S), NEW T, T \subseteq S
    PROVE  Chain(T)
BY DEF Chain

LEMMA ChainsAreFinite ==
    ASSUME NEW S, Chain(S)
    PROVE  IsFiniteSet(S) /\ Cardinality(S) \in Nat
<1> DEFINE f == [s \in S |-> s.from]
<1>1. \A s \in S : s.from \in 1..MaxTurns
  BY ChainNumbers
<1>2. \A s, o \in S : s.from = o.from => s = o
  <2> SUFFICES ASSUME NEW s \in S, NEW o \in S, s.from = o.from, s # o PROVE FALSE
    OBVIOUS
  <2>1. s.to < o.from \/ o.to < s.from
    BY DEF Chain
  <2> QED BY <2>1, ChainNumbers
<1>3. f \in Injection(S, 1..MaxTurns)
  BY <1>1, <1>2 DEF Injection, IsInjective
<1>4. IsFiniteSet(1..MaxTurns)
  BY FS_Interval
<1> HIDE DEF f
<1>5. IsFiniteSet(S)
  BY <1>3, <1>4, FS_Injection
<1> QED BY <1>5, FS_CardinalityType

LEMMA OldestIs ==
    ASSUME NEW S, Chain(S), S # {}
    PROVE  Oldest(S) \in S /\ AllBefore({Oldest(S)}, S \ {Oldest(S)})
<1> DEFINE starts == {s.from : s \in S}
<1>1. starts \in SUBSET Nat /\ starts # {}
  BY ChainNumbers
<1>2. PICK s \in S : \A o \in S : s.from <= o.from
  <2>1. PICK k \in starts : \A m \in starts : k <= m
    <3> HIDE DEF starts
    <3> QED BY <1>1, LeastExists
  <2> QED BY <2>1
<1>3. ASSUME NEW o \in S PROVE ~Earlier(o, s)
  <2>1. s = o \/ s.to < o.from \/ o.to < s.from
    BY DEF Chain
  <2>2. s.from <= o.from
    BY <1>2
  <2> QED BY <2>1, <2>2, ChainNumbers DEF Earlier
<1>4. Oldest(S) \in S /\ \A o \in S : ~Earlier(o, Oldest(S))
  BY <1>3 DEF Oldest
<1>5. ASSUME NEW o \in S, o # Oldest(S) PROVE Oldest(S).to < o.from
  <2>1. Oldest(S).to < o.from \/ o.to < Oldest(S).from
    BY <1>4, <1>5 DEF Chain
  <2>2. ~(o.from < Oldest(S).from)
    BY <1>4 DEF Earlier
  <2> QED BY <1>4, <2>1, <2>2, ChainNumbers
<1> QED BY <1>4, <1>5 DEF AllBefore

LEMMA RangeAppended ==
    ASSUME NEW S, NEW s \in Seq(S), NEW x
    PROVE  /\ Range(Append(s, x)) = Range(s) \cup {x}
           /\ Range(s) \subseteq S
<1>1. Len(s) \in Nat /\ DOMAIN s = 1..Len(s) /\ \A n \in 1..Len(s) : s[n] \in S
  OBVIOUS
<1>2. /\ DOMAIN Append(s, x) = 1..(Len(s) + 1)
      /\ Append(s, x)[Len(s) + 1] = x
      /\ \A n \in 1..Len(s) : Append(s, x)[n] = s[n]
  OBVIOUS
<1>3. Range(Append(s, x)) \subseteq Range(s) \cup {x}
  BY <1>1, <1>2 DEF Range
<1>4. Range(s) \subseteq Range(Append(s, x))
  BY <1>1, <1>2 DEF Range
<1>5. x \in Range(Append(s, x))
  <2>1. Len(s) + 1 \in 1..(Len(s) + 1)
    BY <1>1
  <2> QED BY <1>2, <2>1 DEF Range
<1> QED BY <1>1, <1>3, <1>4, <1>5 DEF Range

(* What comes after everything is appended in order.                       *)
LEMMA OrderAppended ==
    ASSUME NEW S, NEW s \in Seq(S), NEW x, InOrder(s), AllBefore(Range(s), {x})
    PROVE  InOrder(Append(s, x))
<1> DEFINE a == Append(s, x)
<1>1. /\ Len(s) \in Nat /\ DOMAIN s = 1..Len(s) /\ Len(a) = Len(s) + 1
      /\ a[Len(s) + 1] = x
      /\ \A n \in 1..Len(s) : a[n] = s[n]
  OBVIOUS
<1> HIDE DEF a
<1>2. ASSUME NEW n \in 1..Len(s) PROVE a[n].to < a[n + 1].from
  <2>1. CASE n = Len(s)
    <3>1. s[n] \in Range(s)
      BY <1>1 DEF Range
    <3> QED BY <1>1, <2>1, <3>1 DEF AllBefore
  <2>2. CASE n # Len(s)
    <3>1. Len(s) \in Nat /\ n \in Nat /\ 1 <= n /\ n <= Len(s)
      BY <1>1
    <3>2. n \in 1..(Len(s) - 1) /\ n + 1 \in 1..Len(s)
      BY <2>2, <3>1
    <3> QED BY <1>1, <3>2 DEF InOrder
  <2> QED BY <2>1, <2>2
<1>3. Len(a) - 1 = Len(s)
  BY <1>1
<1>4. InOrder(a)
  BY <1>2, <1>3 DEF InOrder
<1> QED BY <1>4 DEF a

(* The sorted part of a chain: in order, and before all the rest.          *)
SortedPart(s, S, n) ==
    /\ s \in Seq(S) /\ InOrder(s)
    /\ Cardinality(Range(s)) = n
    /\ AllBefore(Range(s), S \ Range(s))

LEMMA OneMoreSorted ==
    ASSUME NEW S, Chain(S), NEW n \in Nat, n < Cardinality(S), NEW s, SortedPart(s, S, n)
    PROVE  SortedPart(AddOldest(s, S), S, n + 1)
<1> DEFINE rest == S \ Range(s)
           x == Oldest(rest)
<1>1. s \in Seq(S) /\ InOrder(s) /\ Cardinality(Range(s)) = n /\ AllBefore(Range(s), rest)
  BY DEF SortedPart
<1>2. Range(s) \subseteq S /\ Range(Append(s, x)) = Range(s) \cup {x}
  BY <1>1, RangeAppended
<1>3. Chain(rest) /\ rest # {}
  <2>1. Chain(rest)
    BY PartOfChain
  <2>2. rest # {}
    <3> SUFFICES ASSUME rest = {} PROVE FALSE
      OBVIOUS
    <3>1. Range(s) = S
      BY <1>2
    <3> QED BY <1>1, <3>1, ChainsAreFinite
  <2> QED BY <2>1, <2>2
<1>4. x \in rest /\ AllBefore({x}, rest \ {x})
  <2> HIDE DEF rest
  <2> QED BY <1>3, OldestIs
<1>5. AddOldest(s, S) = Append(s, x)
  BY DEF AddOldest
<1> HIDE DEF x
<1>6. x \in S /\ x \notin Range(s)
  BY <1>4
<1>7. Append(s, x) \in Seq(S)
  BY <1>1, <1>6
<1>8. InOrder(Append(s, x))
  <2>1. AllBefore(Range(s), {x})
    BY <1>1, <1>4 DEF AllBefore
  <2> QED BY <1>1, <2>1, OrderAppended
<1>9. Cardinality(Range(s) \cup {x}) = n + 1
  <2>1. IsFiniteSet(Range(s))
    BY <1>2, PartOfChain, ChainsAreFinite
  <2> QED BY <1>1, <1>6, <2>1, FS_AddElement
<1>10. AllBefore(Range(s) \cup {x}, S \ (Range(s) \cup {x}))
  BY <1>1, <1>4 DEF AllBefore
<1> HIDE DEF rest
<1> QED BY <1>2, <1>5, <1>7, <1>8, <1>9, <1>10 DEF SortedPart

(* OldestFirst sorts a chain.                                              *)
LEMMA Sorted ==
    ASSUME NEW S, Chain(S)
    PROVE  /\ OldestFirst(S) \in Seq(S)
           /\ InOrder(OldestFirst(S))
           /\ Range(OldestFirst(S)) = S
<1> DEFINE L == Cardinality(S)
<1>1. L \in Nat /\ IsFiniteSet(S)
  BY ChainsAreFinite
<1>2. PICK F : IsLoop(F, "sort", S, L) /\ OldestFirst(S) = F[L]
  BY <1>1, SortingLoop
<1>3. F[0] = <<>> /\ \A n \in 1..L : F[n] = AddOldest(F[n - 1], S)
  <2> HIDE DEF L
  <2> QED BY <1>1, <1>2, LoopValues DEF Iteration, Start
<1> DEFINE Good == {n \in 0..L : SortedPart(F[n], S, n)}
<1>4. 0 \in Good
  <2>1. /\ <<>> \in Seq(S) /\ Len(<<>>) = 0 /\ Range(<<>>) = {}
    BY DEF Range
  <2>2. SortedPart(<<>>, S, 0)
    BY <2>1, FS_EmptySet DEF SortedPart, InOrder, AllBefore
  <2>3. 0 \in 0..L
    BY <1>1
  <2> QED BY <1>3, <2>2, <2>3
<1>5. ASSUME NEW n \in 1..L, n - 1 \in Good PROVE n \in Good
  <2>1. n - 1 \in Nat /\ n - 1 < L /\ (n - 1) + 1 = n /\ n \in 0..L
    BY <1>1
  <2>2. SortedPart(F[n - 1], S, n - 1)
    BY <1>5
  <2>3. SortedPart(AddOldest(F[n - 1], S), S, (n - 1) + 1)
    BY <2>1, <2>2, OneMoreSorted
  <2> QED BY <1>3, <2>1, <2>3
<1>6. L \in Good
  <2>1. L \in 0..L
    BY <1>1
  <2> HIDE DEF Good, L
  <2> QED BY <1>1, <1>4, <1>5, <2>1, UpTo DEF Inductive
<1>7. SortedPart(F[L], S, L)
  BY <1>6
<1> HIDE DEF Good
<1>8. F[L] \in Seq(S) /\ InOrder(F[L]) /\ Cardinality(Range(F[L])) = Cardinality(S)
  BY <1>7 DEF SortedPart
<1>9. Range(F[L]) \in SUBSET S
  BY <1>8, RangeAppended
<1>10. Range(F[L]) = S
  BY <1>1, <1>8, <1>9, FS_Subset
<1> QED BY <1>2, <1>8, <1>10

-----------------------------------------------------------------------------
(* What a request shows of a chain                                         *)

Uncovered(T, E) == {t \in T : \A s \in E : ~Covers(s, t)}

ChainIsEffective ==
    \A S : Chain(S) => EffectiveSummaries(S) = S

LEMMA EffectiveIs == ChainIsEffective
<1> SUFFICES ASSUME NEW S, Chain(S) PROVE EffectiveSummaries(S) = S
  BY DEF ChainIsEffective
<1>1. ASSUME NEW s \in S, NEW o \in S, Swallows(o, s) PROVE o = s
  <2>1. s = o \/ s.to < o.from \/ o.to < s.from
    BY DEF Chain
  <2> QED BY <1>1, <2>1, ChainNumbers DEF Swallows
<1> QED BY <1>1 DEF EffectiveSummaries

(* No turn of the covered prefix is missing from the summaries.            *)
LEMMA PrefixIsCovered ==
    ASSUME NEW E, Chain(E)
    PROVE  /\ CoveredPrefixEnd(E) \in Nat
           /\ \A t \in 1..CoveredPrefixEnd(E) : \E s \in E : Covers(s, t)
<1> DEFINE sorted == OldestFirst(E)
           L == Len(sorted)
<1>1. sorted \in Seq(E)
  BY Sorted
<1> HIDE DEF sorted
<1>2. L \in Nat /\ \A n \in 1..L : sorted[n] \in E
  BY <1>1
<1>3. PICK F : IsLoop(F, "prefix", sorted, L) /\ CoveredPrefixEnd(E) = F[L]
  BY <1>2, PrefixLoop DEF sorted
<1>4. F[0] = 0 /\ \A n \in 1..L : F[n] = ExtendPrefix(F[n - 1], sorted[n])
  <2>1. /\ F[0] = Start("prefix")
        /\ \A n \in 1..L : F[n] = Iteration("prefix", sorted, F[n - 1], n)
    <3> HIDE DEF L
    <3> QED BY <1>2, <1>3, LoopValues
  <2>2. Start("prefix") = 0
    BY DEF Start
  <2>3. ASSUME NEW n \in 1..L PROVE F[n] = ExtendPrefix(F[n - 1], sorted[n])
    BY <2>1, Zenon DEF Iteration
  <2> QED BY <2>1, <2>2, <2>3
<1> DEFINE Good == {n \in 0..L : /\ F[n] \in Nat
                                 /\ \A t \in 1..F[n] : \E s \in E : Covers(s, t)}
<1>5. 0 \in Good
  BY <1>2, <1>4
<1>6. ASSUME NEW n \in 1..L, n - 1 \in Good PROVE n \in Good
  <2> DEFINE end == F[n - 1]
             s == sorted[n]
  <2>1. end \in Nat /\ \A t \in 1..end : \E o \in E : Covers(o, t)
    BY <1>6
  <2>2. s \in E /\ F[n] = ExtendPrefix(end, s) /\ n \in 0..L
    BY <1>2, <1>4
  <2> HIDE DEF end, s
  <2>3. s.from \in Nat /\ s.to \in Nat
    BY <2>2, ChainNumbers
  <2>4. CASE s.from > end + 1 \/ s.to <= end
    BY <2>1, <2>2, <2>4 DEF ExtendPrefix
  <2>5. CASE ~(s.from > end + 1 \/ s.to <= end)
    <3>1. F[n] = s.to
      BY <2>2, <2>5 DEF ExtendPrefix
    <3>2. ASSUME NEW t \in 1..s.to PROVE \E o \in E : Covers(o, t)
      <4>1. CASE t <= end
        BY <2>1, <4>1
      <4>2. CASE t > end
        <5>1. s.from <= t /\ t <= s.to
          BY <2>1, <2>3, <2>5, <4>2
        <5> QED BY <2>2, <5>1 DEF Covers
      <4> QED BY <2>1, <4>1, <4>2
    <3> QED BY <2>2, <2>3, <3>1, <3>2
  <2> QED BY <2>4, <2>5
<1>7. L \in Good
  <2>1. L \in 0..L
    BY <1>2
  <2> HIDE DEF Good, L
  <2> QED BY <1>2, <1>5, <1>6, <2>1, UpTo DEF Inductive
<1> QED BY <1>3, <1>7

(* A turn is shown as itself unless a summary covers it.                   *)
LEMMA PlaceIs ==
    ASSUME NEW E, Chain(E), NEW t \in Nat
    PROVE  /\ (\A s \in E : ~Covers(s, t)) => Place(t, E) = Itself(t)
           /\ \A s \in E : Covers(s, t) => Place(t, E) = s
<1> DEFINE covering == {s \in E : Covers(s, t)}
<1>1. Place(t, E) = IF covering = {} THEN Itself(t) ELSE Oldest(covering)
  BY DEF Place
<1>2. ASSUME NEW s \in E, Covers(s, t) PROVE Place(t, E) = s
  <2>1. covering # {} /\ Oldest(covering) \in covering
    <3>1. covering # {} /\ Chain(covering)
      BY <1>2, PartOfChain
    <3> HIDE DEF covering
    <3> QED BY <3>1, OldestIs
  <2>2. PICK o \in E : o = Oldest(covering) /\ Covers(o, t)
    BY <2>1
  <2>3. s = o \/ s.to < o.from \/ o.to < s.from
    BY <2>2 DEF Chain
  <2>4. s = o
    BY <1>2, <2>2, <2>3, ChainNumbers DEF Covers
  <2> QED BY <1>1, <2>1, <2>2, <2>4
<1>3. ASSUME \A s \in E : ~Covers(s, t) PROVE Place(t, E) = Itself(t)
  BY <1>1, <1>3
<1> QED BY <1>2, <1>3

(* What stands for a turn covers it, and is the turn or a summary.         *)
LEMMA PlaceCovers ==
    ASSUME NEW E, Chain(E), NEW t \in Nat
    PROVE  /\ Place(t, E).from \in Nat /\ Place(t, E).to \in Nat
           /\ Covers(Place(t, E), t)
           /\ Place(t, E) \in E \/ Place(t, E) = Itself(t)
<1>1. CASE \E s \in E : Covers(s, t)
  <2>1. PICK s \in E : Covers(s, t)
    BY <1>1
  <2>2. Place(t, E) = s
    BY <2>1, PlaceIs
  <2> QED BY <2>1, <2>2, ChainNumbers
<1>2. CASE \A s \in E : ~Covers(s, t)
  <2>1. Place(t, E) = Itself(t)
    BY <1>2, PlaceIs
  <2>2. Itself(t).from = t /\ Itself(t).to = t
    BY DEF Itself
  <2> QED BY <2>1, <2>2 DEF Covers
<1> QED BY <1>1, <1>2

(* The places of turns are in the order of the turns.                      *)
LEMMA PlacesInOrder ==
    ASSUME NEW E, Chain(E), NEW m \in Nat, NEW n \in Nat, m < n,
           Place(m, E) # Place(n, E)
    PROVE  Place(m, E).to < Place(n, E).from
<1> DEFINE p == Place(m, E)
           q == Place(n, E)
<1>1. /\ p.from \in Nat /\ p.to \in Nat /\ p.from <= m /\ m <= p.to
      /\ q.from \in Nat /\ q.to \in Nat /\ q.from <= n /\ n <= q.to
  BY PlaceCovers DEF Covers
<1>2. p \in E \/ p = Itself(m)
  BY PlaceCovers
<1>3. q \in E \/ q = Itself(n)
  BY PlaceCovers
<1>4. p \in E => p.to < n
  <2> SUFFICES ASSUME p \in E, n <= p.to PROVE FALSE
    BY <1>1
  <2>1. Covers(p, n)
    BY <1>1 DEF Covers
  <2> QED BY <2>1, PlaceIs
<1>5. q \in E => m < q.from
  <2> SUFFICES ASSUME q \in E, q.from <= m PROVE FALSE
    BY <1>1
  <2>1. Covers(q, m)
    BY <1>1 DEF Covers
  <2> QED BY <2>1, PlaceIs
<1>6. p \in E /\ q \in E => p.to < q.from
  <2> SUFFICES ASSUME p \in E, q \in E PROVE p.to < q.from
    OBVIOUS
  <2>1. p.to < q.from \/ q.to < p.from
    BY DEF Chain
  <2> QED BY <1>1, <2>1
<1>7. p = Itself(m) => p.to = m
  BY DEF Itself
<1>8. q = Itself(n) => q.from = n
  BY DEF Itself
<1> HIDE DEF p, q
<1>9. p.to < q.from
  BY <1>1, <1>2, <1>3, <1>4, <1>5, <1>6, <1>7, <1>8
<1> QED BY <1>9 DEF p, q


(* What is in place after the first turns: the places of these turns.      *)
Placed(shown, T, E, t) ==
    /\ shown \in Seq({Place(m, E) : m \in T})
    /\ InOrder(shown)
    /\ Range(shown) = {Place(m, E) : m \in {k \in T : k <= t}}

LEMMA OneMorePlaced ==
    ASSUME NEW E, Chain(E), NEW T, T \subseteq Nat, NEW t \in Nat, t > 0,
           NEW shown, Placed(shown, T, E, t - 1)
    PROVE  Placed(AddTurn(shown, t, T, E), T, E, t)
<1> DEFINE places == {Place(m, E) : m \in T}
           before == {Place(m, E) : m \in {k \in T : k <= t - 1}}
           now == {Place(m, E) : m \in {k \in T : k <= t}}
           x == Place(t, E)
<1>1. shown \in Seq(places) /\ InOrder(shown) /\ Range(shown) = before
  BY DEF Placed
<1>2. \A k \in T : k \in Nat /\ (k <= t <=> k <= t - 1 \/ k = t)
  OBVIOUS
<1>3. before \subseteq now
  BY <1>2
<1>4. CASE t \notin T
  <2>1. AddTurn(shown, t, T, E) = shown
    BY <1>4 DEF AddTurn
  <2>2. now = before
    BY <1>2, <1>4
  <2> QED BY <1>1, <2>1, <2>2 DEF Placed
<1>5. CASE t \in T
  <2>1. now = before \cup {x}
    BY <1>2, <1>5
  <2>2. CASE x \in before
    <3>1. AddTurn(shown, t, T, E) = shown
      BY <1>1, <2>2 DEF AddTurn
    <3>2. now = before
      BY <2>1, <2>2
    <3> QED BY <1>1, <3>1, <3>2 DEF Placed
  <2>3. CASE x \notin before
    <3>1. AddTurn(shown, t, T, E) = Append(shown, x)
      BY <1>1, <1>5, <2>3 DEF AddTurn
    <3>2. Append(shown, x) \in Seq(places)
      <4>1. x \in places
        BY <1>5
      <4> HIDE DEF x, places
      <4> QED BY <1>1, <4>1
    <3>3. AllBefore(before, {x})
      <4> SUFFICES ASSUME NEW k \in T, k <= t - 1 PROVE Place(k, E).to < x.from
        BY DEF AllBefore
      <4>1. Place(k, E) \in before
        OBVIOUS
      <4>2. Place(k, E) # Place(t, E)
        BY <2>3, <4>1
      <4>3. k \in Nat /\ k < t
        BY <1>2
      <4> QED BY <4>2, <4>3, PlacesInOrder
    <3>4. InOrder(Append(shown, x))
      <4> HIDE DEF x, places, before
      <4> QED BY <1>1, <3>3, OrderAppended
    <3>5. Range(Append(shown, x)) = now
      <4>1. Range(Append(shown, x)) = Range(shown) \cup {x}
        <5> HIDE DEF x, places
        <5> QED BY <1>1, RangeAppended
      <4> QED BY <1>1, <2>1, <4>1
    <3> HIDE DEF x, before
    <3> QED BY <3>1, <3>2, <3>4, <3>5 DEF Placed
  <2> QED BY <2>2, <2>3
<1> QED BY <1>4, <1>5

LEMMA InPlaceIs ==
    ASSUME NEW E, Chain(E), NEW T, T \subseteq Turns
    PROVE  /\ InPlace(T, E) \in Seq({Place(m, E) : m \in T})
           /\ InOrder(InPlace(T, E))
           /\ Range(InPlace(T, E)) = {Place(m, E) : m \in T}
<1>1. PICK F : IsLoop(F, "turns", Work(T, E), MaxTurns) /\ InPlace(T, E) = F[MaxTurns]
  BY PlacingLoop
<1>2. F[0] = <<>> /\ \A t \in 1..MaxTurns : F[t] = AddTurn(F[t - 1], t, T, E)
  <2>1. /\ F[0] = Start("turns")
        /\ \A t \in 1..MaxTurns : F[t] = Iteration("turns", Work(T, E), F[t - 1], t)
    BY <1>1, LoopValues
  <2>2. Start("turns") = <<>>
    BY DEF Start
  <2>3. Work(T, E).turns = T /\ Work(T, E).effective = E
    BY DEF Work
  <2> QED BY <2>1, <2>2, <2>3 DEF Iteration
<1> DEFINE Good == {t \in 0..MaxTurns : Placed(F[t], T, E, t)}
<1>3. \A m \in T : m \in Nat /\ 1 <= m /\ m <= MaxTurns
  BY DEF Turns
<1>4. 0 \in Good
  <2>1. {k \in T : k <= 0} = {}
    BY <1>3
  <2>2. /\ <<>> \in Seq({Place(m, E) : m \in T}) /\ Len(<<>>) = 0 /\ Range(<<>>) = {}
    BY DEF Range
  <2>3. Placed(<<>>, T, E, 0)
    BY <2>1, <2>2 DEF Placed, InOrder
  <2> QED BY <1>2, <2>3
<1>5. ASSUME NEW t \in 1..MaxTurns, t - 1 \in Good PROVE t \in Good
  <2>1. t \in Nat /\ t > 0 /\ t \in 0..MaxTurns /\ T \subseteq Nat
    BY <1>3
  <2>2. Placed(F[t - 1], T, E, t - 1)
    BY <1>5
  <2>3. Placed(AddTurn(F[t - 1], t, T, E), T, E, t)
    BY <2>1, <2>2, OneMorePlaced
  <2> QED BY <1>2, <2>1, <2>3
<1>6. MaxTurns \in Good
  <2> HIDE DEF Good
  <2>1. MaxTurns \in 0..MaxTurns
    OBVIOUS
  <2> QED BY <1>4, <1>5, <2>1, UpTo DEF Inductive
<1>7. Placed(F[MaxTurns], T, E, MaxTurns)
  BY <1>6
<1>8. {k \in T : k <= MaxTurns} = T
  BY <1>3
<1> HIDE DEF Good
<1> QED BY <1>1, <1>7, <1>8 DEF Placed

(* Two ordered parts, one before the other.                                *)
LEMMA OrderJoined ==
    ASSUME NEW S, NEW T, NEW f \in Seq(S), NEW g \in Seq(T), InOrder(f), InOrder(g),
           AllBefore(Range(f), Range(g))
    PROVE  /\ InOrder(f \o g)
           /\ Range(f \o g) = Range(f) \cup Range(g)
<1> DEFINE a == f \o g
<1>1. /\ Len(f) \in Nat /\ Len(g) \in Nat /\ Len(a) = Len(f) + Len(g)
      /\ DOMAIN f = 1..Len(f) /\ DOMAIN g = 1..Len(g) /\ DOMAIN a = 1..(Len(f) + Len(g))
      /\ \A n \in 1..Len(f) : a[n] = f[n]
      /\ \A n \in 1..Len(g) : a[Len(f) + n] = g[n]
  OBVIOUS
<1> HIDE DEF a
<1>2. ASSUME NEW n \in 1..(Len(a) - 1) PROVE a[n].to < a[n + 1].from
  <2>1. n \in Nat /\ 1 <= n /\ n <= Len(f) + Len(g) - 1
    BY <1>1
  <2>2. CASE n < Len(f)
    <3>1. n \in 1..(Len(f) - 1) /\ n \in 1..Len(f) /\ n + 1 \in 1..Len(f)
      BY <1>1, <2>1, <2>2
    <3>2. a[n] = f[n] /\ a[n + 1] = f[n + 1]
      BY <1>1, <3>1
    <3> QED BY <3>1, <3>2 DEF InOrder
  <2>3. CASE n = Len(f)
    <3>1. n \in 1..Len(f) /\ 1 \in 1..Len(g)
      BY <1>1, <2>1, <2>3
    <3>2. a[n] = f[n] /\ a[n + 1] = g[1]
      BY <1>1, <2>3, <3>1
    <3>3. f[n] \in Range(f) /\ g[1] \in Range(g)
      BY <1>1, <3>1 DEF Range
    <3> QED BY <3>2, <3>3 DEF AllBefore
  <2>4. CASE n > Len(f)
    <3>1. PICK m \in Nat : n = Len(f) + m
      <4>1. n - Len(f) \in Nat /\ n = Len(f) + (n - Len(f))
        BY <1>1, <2>1, <2>4
      <4> QED BY <4>1
    <3>2. /\ m \in 1..(Len(g) - 1) /\ m \in 1..Len(g) /\ m + 1 \in 1..Len(g)
          /\ n + 1 = Len(f) + (m + 1)
      BY <1>1, <2>1, <2>4, <3>1
    <3>3. a[n] = g[m] /\ a[n + 1] = g[m + 1]
      BY <1>1, <3>1, <3>2
    <3> QED BY <3>2, <3>3 DEF InOrder
  <2>5. n < Len(f) \/ n = Len(f) \/ n > Len(f)
    <3>1. n \in Nat /\ Len(f) \in Nat
      BY <1>1, <2>1
    <3> QED BY <3>1
  <2> QED BY <2>2, <2>3, <2>4, <2>5
<1>3. Range(a) \subseteq Range(f) \cup Range(g)
  <2> SUFFICES ASSUME NEW n \in 1..(Len(f) + Len(g)) PROVE a[n] \in Range(f) \cup Range(g)
    BY <1>1 DEF Range
  <2>1. CASE n <= Len(f)
    <3>1. n \in 1..Len(f)
      BY <1>1, <2>1
    <3> QED BY <1>1, <3>1 DEF Range
  <2>2. CASE n > Len(f)
    <3>1. n - Len(f) \in 1..Len(g) /\ n = Len(f) + (n - Len(f))
      BY <1>1, <2>2
    <3>2. a[n] = g[n - Len(f)]
      BY <1>1, <3>1
    <3> QED BY <1>1, <3>1, <3>2 DEF Range
  <2> QED BY <1>1, <2>1, <2>2
<1>4. Range(f) \subseteq Range(a)
  <2> SUFFICES ASSUME NEW n \in 1..Len(f) PROVE f[n] \in Range(a)
    BY <1>1 DEF Range
  <2>1. n \in 1..(Len(f) + Len(g)) /\ f[n] = a[n]
    BY <1>1
  <2> QED BY <1>1, <2>1 DEF Range
<1>5. Range(g) \subseteq Range(a)
  <2> SUFFICES ASSUME NEW n \in 1..Len(g) PROVE g[n] \in Range(a)
    BY <1>1 DEF Range
  <2>1. Len(f) + n \in 1..(Len(f) + Len(g)) /\ g[n] = a[Len(f) + n]
    BY <1>1
  <2> QED BY <1>1, <2>1 DEF Range
<1>6. InOrder(a)
  BY <1>2 DEF InOrder
<1> QED BY <1>3, <1>4, <1>5, <1>6 DEF a

-----------------------------------------------------------------------------
(* Requests, with a protected tail of one turn                             *)

(* A range begins with a turn and is followed by one.                      *)
RangeFits(range) == range.from \in conv /\ range.to + 1 \in conv

Anchored ==
    /\ \A s \in summaries : RangeFits(s)
    /\ phase = "summarising" => RangeFits(window)

(* An overflow is compacted before the request is sent again.              *)
Retrying ==
    /\ phase = "idle" => overflows = 0
    /\ overflows > 0 /\ phase \in {"planning", "summarising"} =>
        reason = "overflow" /\ refused = Uncovered(conv, summaries)
    /\ overflows > 0 /\ phase = "connecting" =>
        /\ Uncovered(conv, summaries) \subseteq refused
        /\ Uncovered(conv, summaries) # refused

LEMMA SummariesAreAChain ==
    ASSUME IInv
    PROVE  Chain(summaries)
BY DEF IInv, TypeOK, Chained, Chain

(* The messages of a request, as a set and in order.                       *)
LEMMA WhatIsShown ==
    ASSUME IInv, Anchored
    PROVE  /\ InOrder(BuildContext)
           /\ Range(BuildContext) = summaries \cup {Place(t, summaries) : t \in Listed}
           /\ \A t \in conv \ Listed : \E s \in summaries : Covers(s, t)
<1> DEFINE E == summaries
           P == CoveredPrefixEnd(E)
           I == InPlace(Listed, E)
           places == {Place(m, E) : m \in Listed}
           front == E \ Range(I)
           F == OldestFirst(front)
<1>1. Chain(E) /\ EffectiveSummaries(E) = E
  BY SummariesAreAChain, EffectiveIs DEF ChainIsEffective
<1>2. /\ Listed = {t \in conv : t > P}
      /\ BuildContext = F \o I
  BY <1>1 DEF Listed, BuildContext, Shown
<1>3. /\ P \in Nat
      /\ \A t \in 1..P : \E s \in E : Covers(s, t)
  BY <1>1, PrefixIsCovered
<1>4. \A t \in conv : t \in Nat /\ 1 <= t /\ t <= MaxTurns
  BY DEF IInv, TypeOK, Turns
<1>5. Listed \subseteq Turns
  BY <1>2, <1>4 DEF Turns
<1>6. I \in Seq(places) /\ InOrder(I) /\ Range(I) = places
  BY <1>1, <1>5, InPlaceIs
<1>7. F \in Seq(front) /\ InOrder(F) /\ Range(F) = front
  <2>1. Chain(front)
    BY <1>1, PartOfChain
  <2> HIDE DEF front
  <2> QED BY <2>1, Sorted
<1>8. ASSUME NEW s \in front, NEW t \in Listed PROVE s.to < Place(t, E).from
  <2>1. s \in E /\ s.from \in Nat /\ s.to \in Nat /\ s.from <= s.to
    BY <1>1, ChainNumbers
  <2>2. ASSUME NEW m \in Listed PROVE ~Covers(s, m)
    <3> SUFFICES ASSUME Covers(s, m) PROVE FALSE
      OBVIOUS
    <3>1. m \in Nat
      BY <1>2, <1>4
    <3>2. Place(m, E) = s
      BY <1>1, <2>1, <3>1, PlaceIs
    <3>3. s \in places
      BY <3>2
    <3> QED BY <1>6, <3>3
  <2>3. s.from <= P
    <3> SUFFICES ASSUME s.from > P PROVE FALSE
      BY <1>3, <2>1
    <3>1. s.from \in conv
      BY DEF Anchored, RangeFits
    <3>2. s.from \in Listed
      BY <1>2, <3>1
    <3>3. Covers(s, s.from)
      BY <2>1 DEF Covers
    <3> QED BY <2>2, <3>2, <3>3
  <2>4. t \in Nat /\ t > P
    BY <1>2, <1>4
  <2>5. s.to < t
    <3>1. ~Covers(s, t)
      BY <2>2
    <3> QED BY <1>3, <2>1, <2>3, <2>4, <3>1 DEF Covers
  <2> DEFINE p == Place(t, E)
  <2>6. /\ p.from \in Nat /\ p.to \in Nat /\ p.from <= t /\ t <= p.to
        /\ p \in E \/ p = Itself(t)
    BY <1>1, <2>4, PlaceCovers DEF Covers
  <2>7. CASE p = Itself(t)
    <3>1. p.from = t
      BY <2>7 DEF Itself
    <3> QED BY <2>5, <3>1
  <2>8. CASE p \in E
    <3>1. s = p \/ s.to < p.from \/ p.to < s.from
      BY <1>1, <2>1, <2>8 DEF Chain
    <3> HIDE DEF p
    <3>2. s.to < p.from
      BY <1>3, <2>1, <2>3, <2>4, <2>5, <2>6, <3>1
    <3> QED BY <3>2 DEF p
  <2> QED BY <2>6, <2>7, <2>8
<1>9. AllBefore(Range(F), Range(I))
  <2>1. AllBefore(front, places)
    BY <1>8 DEF AllBefore
  <2> QED BY <1>6, <1>7, <2>1
<1>10. front \cup places = E \cup places
  BY <1>6
<1>11. \A t \in conv \ Listed : t \in 1..P
  BY <1>2, <1>3, <1>4
<1>12. \A t \in conv \ Listed : \E s \in E : Covers(s, t)
  BY <1>3, <1>11
<1>13. InOrder(F \o I) /\ Range(F \o I) = front \cup places
  <2> HIDE DEF F, I, front, places
  <2> QED BY <1>6, <1>7, <1>9, OrderJoined
<1> HIDE DEF F, I, front, places, P
<1> QED BY <1>2, <1>10, <1>12, <1>13 DEF places

(* Word for word is what no summary covers.                                *)
LEMMA VerbatimIs ==
    ASSUME IInv, Anchored
    PROVE  Verbatim(BuildContext) = Uncovered(conv, summaries)
<1>1. /\ Range(BuildContext) = summaries \cup {Place(t, summaries) : t \in Listed}
      /\ \A t \in conv \ Listed : \E s \in summaries : Covers(s, t)
  BY WhatIsShown
<1>2. Chain(summaries) /\ Listed \subseteq conv /\ conv \subseteq Nat
  BY SummariesAreAChain DEF Listed, IInv, TypeOK, Turns
<1>3. ASSUME NEW t \in conv, Itself(t) \in Range(BuildContext), NEW s \in summaries
      PROVE  ~Covers(s, t)
  <2> SUFFICES ASSUME Covers(s, t) PROVE FALSE
    OBVIOUS
  <2>1. Itself(t).turn = t /\ Itself(t).to = t
    BY DEF Itself
  <2>2. Itself(t) \notin summaries
    BY <1>2, <2>1 DEF Chain
  <2>3. PICK m \in Listed : Itself(t) = Place(m, summaries)
    BY <1>1, <1>3, <2>2
  <2>4. Place(m, summaries) = Itself(m)
    BY <1>2, <2>2, <2>3, PlaceCovers
  <2>5. t = m
    BY <2>1, <2>3, <2>4 DEF Itself
  <2>6. Place(t, summaries) = s
    BY <1>2, PlaceIs
  <2> QED BY <2>2, <2>3, <2>5, <2>6
<1>4. ASSUME NEW t \in conv, \A s \in summaries : ~Covers(s, t)
      PROVE  Itself(t) \in Range(BuildContext)
  <2>1. t \in Listed
    BY <1>1, <1>4
  <2>2. Place(t, summaries) = Itself(t)
    BY <1>2, <1>4, PlaceIs
  <2> QED BY <1>1, <2>1, <2>2
<1> QED BY <1>3, <1>4 DEF Verbatim, Uncovered

(* Planned ranges begin where the last summary ended, and end before the   *)
(* newest turn.                                                            *)
LEMMA PlanFits ==
    ASSUME TailTurns = 1, IInv, Anchored, Listed # {}
    PROVE  RangeFits(PlanRange)
<1> DEFINE ends == {s.to : s \in summaries}
           from == IF ends = {} THEN Min(Listed) ELSE Max(ends) + 1
<1>1. EffectiveSummaries(summaries) = summaries
  BY SummariesAreAChain, EffectiveIs DEF ChainIsEffective
<1>2. PlanRange.from = from /\ PlanRange.to = Max(Listed) - 1
  BY <1>1 DEF PlanRange
<1>3. Listed \subseteq conv /\ conv \in SUBSET Nat /\ \A t \in conv : t <= MaxTurns
  BY DEF Listed, IInv, TypeOK, Turns
<1>4. Max(Listed) \in conv /\ Max(Listed) \in Nat
  BY <1>3, MaxOfTurns
<1>5. from \in conv
  <2>1. CASE ends = {}
    BY <1>3, <2>1, MinOfTurns
  <2>2. CASE ends # {}
    <3>1. ends \in SUBSET Nat /\ \A e \in ends : e <= MaxTurns
      BY SummariesAreAChain, ChainNumbers
    <3>2. Max(ends) \in ends
      <4> HIDE DEF ends
      <4> QED BY <2>2, <3>1, MaxOfTurns
    <3>3. \A e \in ends : e + 1 \in conv
      BY DEF Anchored, RangeFits
    <3> HIDE DEF ends
    <3> QED BY <2>2, <3>2, <3>3
  <2> QED BY <2>1, <2>2
<1> HIDE DEF from
<1>6. PlanRange.to + 1 = Max(Listed)
  BY <1>2, <1>4
<1> QED BY <1>2, <1>4, <1>5, <1>6 DEF RangeFits

LEMMA AnchoredKept ==
    ASSUME Anchored, UNCHANGED <<conv, summaries>>,
           phase' = "summarising" => phase = "summarising" /\ UNCHANGED window
    PROVE  Anchored'
BY DEF Anchored, RangeFits

LEMMA AnchoredHolds ==
    ASSUME TailTurns = 1, IInv, Anchored, [Next]_vars
    PROVE  Anchored'
<1> USE DEF stored, round, work
<1>1. CASE UNCHANGED vars
  BY <1>1, AnchoredKept DEF vars
<1>2. CASE FinishTurn \/ Refused \/ Stop \/ ContextUncompressible \/ Crash
  BY <1>2, AnchoredKept
     DEF FinishTurn, Refused, Stop, ContextUncompressible, Crash, EndTurn, Rest
<1>3. CASE NothingToCompact \/ Blocked \/ CompactFails \/ Unusable
  BY <1>3, AnchoredKept
     DEF NothingToCompact, Blocked, CompactFails, Unusable, NotWritten, EndTurn, Rest
<1>4. CASE Connect \/ Complete \/ Interrupted \/ BeginRound \/ Overflow \/ CompactContext
  BY <1>4, AnchoredKept
     DEF Connect, Complete, Interrupted, BeginRound, Overflow, CompactContext, EndTurn, Rest
<1>5. CASE StartTurn
  BY <1>5 DEF StartTurn, Anchored, RangeFits
<1>6. ASSUME NEW keep \in 0..MaxTurns, Rewind(keep) PROVE Anchored'
  <2> SUFFICES ASSUME NEW s \in summaries, s.turn <= keep PROVE RangeFits(s)'
    BY <1>6 DEF Rewind, Anchored
  <2>1. /\ s.from \in Nat /\ s.to \in Nat /\ s.turn \in Nat
        /\ s.from <= s.to /\ s.to < s.turn
    BY SummariesAreAChain, ChainNumbers
  <2>2. s.from <= keep /\ s.to + 1 <= keep
    BY <2>1
  <2> QED BY <1>6, <2>2 DEF Rewind, Anchored, RangeFits
<1>7. CASE Plan
  <2>1. RangeFits(PlanRange)
    BY <1>7, PlanFits DEF Plan, CanPlan
  <2> QED BY <1>7, <2>1 DEF Plan, Anchored, RangeFits
<1>8. CASE Summarise
  <2> DEFINE new == [turn |-> turn, from |-> window.from, to |-> window.to]
  <2>1. /\ conv' = conv /\ summaries' = summaries \cup {new} /\ phase' # "summarising"
        /\ RangeFits(window)
    BY <1>8 DEF Summarise, Rest, Anchored
  <2>2. new.from = window.from /\ new.to = window.to
    OBVIOUS
  <2> HIDE DEF new
  <2> QED BY <2>1, <2>2 DEF Anchored, RangeFits
<1> QED BY <1>1, <1>2, <1>3, <1>4, <1>5, <1>6, <1>7, <1>8 DEF Next

(* A summary of a planned range takes at least its first turn from view.   *)
LEMMA SummaryShrinks ==
    ASSUME IInv, Anchored, Summarise
    PROVE  /\ Uncovered(conv, summaries)' \subseteq Uncovered(conv, summaries)
           /\ Uncovered(conv, summaries)' # Uncovered(conv, summaries)
<1> DEFINE new == [turn |-> turn, from |-> window.from, to |-> window.to]
<1>1. conv' = conv /\ summaries' = summaries \cup {new} /\ phase = "summarising"
  BY DEF Summarise
<1>2. new.from = window.from /\ new.to = window.to
  OBVIOUS
<1> HIDE DEF new
<1>3. Uncovered(conv, summaries)' \subseteq Uncovered(conv, summaries)
  BY <1>1 DEF Uncovered
<1>4. /\ window.from \in conv /\ window.from \in Nat /\ window.to \in Nat
      /\ window.from <= window.to
      /\ \A s \in summaries : s.to < window.from
  BY <1>1 DEF IInv, TypeOK, Ranges, WindowPlanned, Anchored, RangeFits
<1>5. window.from \in Uncovered(conv, summaries)
  <2>1. ASSUME NEW s \in summaries PROVE ~Covers(s, window.from)
    BY <1>4, SummariesAreAChain, ChainNumbers DEF Covers
  <2> QED BY <1>4, <2>1 DEF Uncovered
<1>6. window.from \notin Uncovered(conv, summaries)'
  <2>1. Covers(new, window.from)
    BY <1>2, <1>4 DEF Covers
  <2> QED BY <1>1, <2>1 DEF Uncovered
<1> QED BY <1>3, <1>5, <1>6

LEMMA RetryingHolds ==
    ASSUME IInv, Anchored, Retrying, [Next]_vars
    PROVE  Retrying'
<1> USE DEF stored, round, work
<1>1. CASE UNCHANGED vars
  BY <1>1 DEF vars, Retrying, Uncovered
<1>2. CASE EndTurn \/ Rest
  BY <1>2 DEF EndTurn, Rest, Retrying
<1>3. CASE NotWritten /\ phase \in {"planning", "summarising"}
  BY <1>2, <1>3 DEF NotWritten, Retrying, IInv, TypeOK
<1>4. CASE FinishTurn \/ Refused \/ Stop \/ ContextUncompressible \/ Crash
  BY <1>2, <1>4 DEF FinishTurn, Refused, Stop, ContextUncompressible, Crash
<1>5. CASE NothingToCompact \/ Blocked \/ CompactFails
  BY <1>3, <1>5 DEF NothingToCompact, Blocked, CompactFails
<1>6. CASE Unusable
  BY <1>3, <1>6 DEF Unusable, Retrying, Uncovered
<1>7. CASE Connect \/ Complete
  BY <1>7 DEF Connect, Complete, Retrying
<1>8. CASE Interrupted
  BY <1>2, <1>8 DEF Interrupted, Retrying
<1>9. CASE BeginRound \/ StartTurn \/ CompactContext
  BY <1>9 DEF BeginRound, StartTurn, CompactContext, Retrying
<1>10. CASE Overflow
  <2>1. refused' = Uncovered(conv, summaries)
    BY <1>10, VerbatimIs DEF Overflow
  <2>2. Uncovered(conv, summaries)' = Uncovered(conv, summaries)
    BY <1>10 DEF Overflow, Uncovered
  <2>3. phase' = "planning" /\ reason' = "overflow"
    BY <1>10 DEF Overflow
  <2> QED BY <2>1, <2>2, <2>3 DEF Retrying
<1>11. ASSUME NEW keep \in 0..MaxTurns, Rewind(keep) PROVE Retrying'
  BY <1>11 DEF Rewind, Retrying
<1>12. CASE Plan
  BY <1>12 DEF Plan, Retrying, Uncovered
<1>13. CASE Summarise
  <2>1. CASE Rest
    BY <1>2, <2>1
  <2>2. CASE phase' = "connecting" /\ UNCHANGED <<overflows, refused>>
    <3>1. phase = "summarising"
      BY <1>13 DEF Summarise
    <3>2. overflows' > 0 => refused' = Uncovered(conv, summaries)
      BY <2>2, <3>1 DEF Retrying
    <3> HIDE DEF stored, round, work
    <3> QED BY <1>13, <2>2, <3>2, SummaryShrinks DEF Retrying
  <2> QED BY <1>13, <2>1, <2>2 DEF Summarise
<1> QED BY <1>1, <1>4, <1>5, <1>6, <1>7, <1>8, <1>9, <1>10, <1>11, <1>12, <1>13 DEF Next

LEMMA TailOfOne ==
    ASSUME TailTurns = 1 PROVE Spec => [](Anchored /\ Retrying)
<1>1. Init => Anchored /\ Retrying
  BY DEF Init, Anchored, Retrying
<1>2. IInv /\ (Anchored /\ Retrying) /\ [Next]_vars => (Anchored /\ Retrying)'
  BY AnchoredHolds, RetryingHolds
<1> QED BY <1>1, <1>2, Invariance, PTL DEF Spec

(* With the default tail of one turn, every request shows the conversation *)
(* in order and every turn of it once, whatever was compacted and rewound. *)
THEOREM EveryTurnIsShownOnce ==
    ASSUME TailTurns = 1 PROVE Spec => []ShownOnce
<1>1. IInv /\ Anchored => ShownOnce
  <2> SUFFICES ASSUME IInv, Anchored
               PROVE  /\ InOrder(BuildContext)
                      /\ \A t \in conv : \E n \in DOMAIN BuildContext : Covers(BuildContext[n], t)
    BY DEF ShownOnce, InOrder
  <2>1. /\ InOrder(BuildContext)
        /\ Range(BuildContext) = summaries \cup {Place(t, summaries) : t \in Listed}
        /\ \A t \in conv \ Listed : \E s \in summaries : Covers(s, t)
    BY WhatIsShown
  <2>2. ASSUME NEW t \in conv PROVE \E x \in Range(BuildContext) : Covers(x, t)
    <3>1. CASE t \in Listed
      <4>1. t \in Nat
        BY DEF IInv, TypeOK, Turns
      <4>2. Covers(Place(t, summaries), t)
        BY <4>1, SummariesAreAChain, PlaceCovers
      <4> QED BY <2>1, <3>1, <4>2
    <3>2. CASE t \notin Listed
      BY <2>1, <3>2
    <3> QED BY <3>1, <3>2
  <2> QED BY <2>1, <2>2 DEF Range
<1> QED BY <1>1, TailOfOne, Invariance, PTL

(* With that tail, the newest turn of the conversation, which is the one   *)
(* in flight when there is one, is always shown word for word.             *)
THEOREM NewestTurnIsKept ==
    ASSUME TailTurns = 1 PROVE Spec => []TailKept
<1>1. IInv /\ Anchored => TailKept
  <2> SUFFICES ASSUME IInv, Anchored, NEW t \in conv, t \notin Verbatim(BuildContext)
               PROVE  Cardinality({u \in conv : u > t}) >= 1
    BY DEF TailKept
  <2> DEFINE later == {u \in conv : u > t}
  <2>1. PICK s \in summaries : Covers(s, t)
    BY VerbatimIs DEF Uncovered
  <2>2. s.to \in Nat /\ t \in Nat /\ s.to + 1 \in conv
    BY SummariesAreAChain, ChainNumbers DEF Anchored, RangeFits, IInv, TypeOK, Turns
  <2>3. s.to + 1 \in later
    BY <2>1, <2>2 DEF Covers
  <2>4. IsFiniteSet(later)
    <3>1. conv \in SUBSET (1..MaxTurns)
      BY DEF IInv, TypeOK, Turns
    <3>2. later \in SUBSET (1..MaxTurns)
      BY <3>1
    <3>3. IsFiniteSet(1..MaxTurns)
      BY FS_Interval
    <3> HIDE DEF later
    <3> QED BY <3>2, <3>3, FS_Subset
  <2> HIDE DEF later
  <2>5. Cardinality(later) \in Nat /\ Cardinality(later) # 0
    BY <2>3, <2>4, FS_CardinalityType, FS_EmptySet
  <2>6. Cardinality(later) >= 1
    BY <2>5
  <2> QED BY <2>6 DEF later
<1> QED BY <1>1, TailOfOne, Invariance, PTL

(* With that tail, a request that was refused as too large is sent again   *)
(* only after a summary has taken turns out of it.                         *)
THEOREM RetriesShrink ==
    ASSUME TailTurns = 1 PROVE Spec => []RetryIsSmaller
<1>1. IInv /\ Anchored /\ Retrying => RetryIsSmaller
  BY VerbatimIs DEF Retrying, RetryIsSmaller
<1> QED BY <1>1, TailOfOne, Invariance, PTL

=============================================================================

---------------------------- MODULE RoundProofs ----------------------------
(***************************************************************************)
(* Proofs about Round for any keys, limits and bounds.                     *)
(*                                                                         *)
(* The invariant says where the task is (Phased, Prefixed), what the       *)
(* history holds of the running round (Grouped, ClearNow) and which        *)
(* prompts are open (Prompted).  What it says of the history is stated     *)
(* about any sequence of entries, so that a lemma can say once what one    *)
(* more entry does to it.                                                  *)
(*                                                                         *)
(* The second half is about the request built from the history             *)
(* (Context): one more entry is one more iteration of the loop that makes  *)
(* the groups (GroupingAppended), the groups are always as GroupsNow says, *)
(* and whatever the groups are, the messages made of them can be replayed  *)
(* (AssembledReplayable).                                                  *)
(***************************************************************************)
EXTENDS Round, FiniteSetTheorems, SequenceTheorems, WellFoundedInduction, TLAPS

USE RoundAssumption, ContextAssumption

-----------------------------------------------------------------------------
(* Views of a history                                                      *)

Stored ==
    [kind : {"user", "steering", "text"}, round : Nat, item : {0}]
    \cup [kind : {"calls"}, round : Nat, item : Groups]
    \cup [kind : {"result"}, round : Nat, item : Slots]
    \cup [kind : {"request", "response"}, round : Nat, item : Prompt]

ItemsIn(h, kind) == {h[n].item : n \in {m \in DOMAIN h : h[m].kind = kind}}

Results(h, r) ==
    {h[n].item : n \in {m \in DOMAIN h : h[m].kind = "result" /\ h[m].round = r}}

CallGroups(h) ==
    {<<h[n].round, h[n].item>> : n \in {m \in DOMAIN h : h[m].kind = "calls"}}

(* No entry is ahead of round r. *)
Upto(h, r) ==
    \A n \in DOMAIN h :
        /\ h[n].round <= r
        /\ h[n].kind \in {"request", "response"} => h[n].item.round <= r

(* No message follows the calls of round r. *)
Clear(h, r) ==
    \A k, m \in DOMAIN h :
        h[k].kind = "calls" /\ h[k].round = r /\ k <= m =>
            h[m].kind \notin {"user", "steering"}

Between(h) ==
    \A k, n \in DOMAIN h :
        h[k].kind = "calls" /\ h[n].kind = "result" /\ h[n].round = h[k].round =>
            \A m \in k..n : h[m].kind \notin {"user", "steering"}

AnsweredOnce(h) ==
    \A m, n \in DOMAIN h :
        h[m].kind = "response" /\ h[n].kind = "response" /\ h[m].item = h[n].item => m = n

-----------------------------------------------------------------------------
(* The invariant                                                           *)

Typed ==
    /\ hist \in Seq(Stored)
    /\ Upto(hist, rid)
    /\ phase \in Phases
    /\ turn \in 0..MaxTurns
    /\ rounds \in 0..MaxRounds
    /\ rid \in Nat
    /\ retries \in 0..MaxRetries
    /\ open \in BOOLEAN
    /\ calls \in Seq(Keys) /\ Len(calls) <= MaxCalls
    /\ stage \in [Slots -> Stages]
    /\ approval \in {0} \cup Slots
    /\ waiting \subseteq Prompt
    /\ answers \subseteq Prompt \X Decisions
    /\ grants \subseteq Keys
    /\ cancelled \in BOOLEAN /\ failed \in BOOLEAN
    /\ up \in BOOLEAN /\ skipped \in BOOLEAN
    /\ crashes \in 0..MaxCrashes
    /\ faults \in 0..MaxFaults

(* Futures run in a batch only, and nothing is left of them after it. *)
Phased ==
    /\ \A i \in Slots : stage[i] # "unstarted" => i <= Len(calls)
    /\ phase # "batch" => \A i \in Slots : stage[i] \in {"unstarted", "done"}
    /\ phase \in {"idle", "booting", "connecting", "streaming", "ended"} =>
          \A i \in Slots : stage[i] = "unstarted"
    /\ phase \in {"idle", "booting", "connecting", "streaming"} => calls = <<>>
    /\ phase \in {"idle", "booting"} => rounds = 0
    /\ phase = "ready" => rounds < MaxRounds
    /\ ~up => phase = "idle"

(* Futures are started in the order of the group. *)
Prefixed == \E k \in Nat : Started = 1..k

(* The calls of round rid are those of the response, and those that have   *)
(* no result are those that are not done.                                  *)
Grouped ==
    /\ phase \in {"connecting", "streaming"} => \A g \in CallGroups(hist) : g[1] # rid
    /\ phase \in {"ended", "batch", "resting"} =>
          \A g \in CallGroups(hist) : g[1] = rid => g[2] = calls
    /\ crashes = 0 /\ faults = 0 =>
          \A g \in CallGroups(hist) : \A i \in DOMAIN g[2] \ Results(hist, g[1]) :
              /\ phase \in {"ended", "batch", "resting"}
              /\ g[1] = rid
              /\ stage[i] # "done"

ClearNow ==
    phase \in {"connecting", "streaming", "ended", "batch", "resting"} => Clear(hist, rid)

Prompted ==
    /\ ItemsIn(hist, "response") \subseteq ItemsIn(hist, "request")
    /\ phase \in {"connecting", "streaming", "ended", "batch"} =>
          \A i \in Slots : stage[i] \in {"unstarted", "gating", "ungranted", "queued"} =>
              GatePrompt(i) \notin ItemsIn(hist, "request")
    /\ \A i \in Slots : /\ stage[i] = "asking" => GatePrompt(i) \in Unanswered
                        /\ stage[i] = "toolasking" => ToolPrompt(i) \in Unanswered

(* An open prompt has somebody who waits for it, or belongs to a process   *)
(* that is gone, or to a tool that ran out of time.                        *)
Excused(p) == ~up \/ phase = "booting" \/ skipped \/ (ToolTimeout /\ p.by = "tool")

OpenAwaited == faults = 0 => \A p \in Unanswered : Awaited(p) \/ Excused(p)

IInv == /\ Typed /\ Phased /\ Prefixed
        /\ Grouped /\ Between(hist) /\ ClearNow
        /\ AnsweredOnce(hist) /\ Prompted /\ OpenAwaited

-----------------------------------------------------------------------------
(* One more entry                                                          *)

LEMMA StoredFields ==
    ASSUME NEW e \in Stored
    PROVE  /\ e.kind \in Kinds
           /\ e.round \in Nat
           /\ e.kind = "calls" => e.item \in Groups
           /\ e.kind = "result" => e.item \in Slots
           /\ e.kind \in {"request", "response"} => e.item \in Prompt
BY DEF Stored, Kinds

LEMMA Appended ==
    ASSUME NEW h \in Seq(Stored), NEW e \in Stored
    PROVE  /\ Append(h, e) \in Seq(Stored)
           /\ Len(h) \in Nat
           /\ DOMAIN h = 1..Len(h)
           /\ DOMAIN Append(h, e) = 1..(Len(h) + 1)
           /\ Append(h, e)[Len(h) + 1] = e
           /\ \A n \in DOMAIN h : Append(h, e)[n] = h[n] /\ h[n] \in Stored
OBVIOUS

(* What the views show of a history with one more entry. *)
LEMMA ItemsAppended ==
    ASSUME NEW h \in Seq(Stored), NEW e \in Stored, NEW kind
    PROVE  ItemsIn(Append(h, e), kind) =
               ItemsIn(h, kind) \cup (IF e.kind = kind THEN {e.item} ELSE {})
<1> DEFINE g == Append(h, e)
<1>1. DOMAIN g = DOMAIN h \cup {Len(h) + 1} /\ g[Len(h) + 1] = e
  BY Appended
<1>2. \A n \in DOMAIN h : g[n] = h[n]
  BY Appended
<1> HIDE DEF g
<1> QED BY <1>1, <1>2 DEF ItemsIn, g

LEMMA ResultsAppended ==
    ASSUME NEW h \in Seq(Stored), NEW e \in Stored, NEW r
    PROVE  Results(Append(h, e), r) =
               Results(h, r) \cup (IF e.kind = "result" /\ e.round = r THEN {e.item} ELSE {})
<1> DEFINE g == Append(h, e)
<1>1. DOMAIN g = DOMAIN h \cup {Len(h) + 1} /\ g[Len(h) + 1] = e
  BY Appended
<1>2. \A n \in DOMAIN h : g[n] = h[n]
  BY Appended
<1> HIDE DEF g
<1> QED BY <1>1, <1>2 DEF Results, g

LEMMA GroupsAppended ==
    ASSUME NEW h \in Seq(Stored), NEW e \in Stored
    PROVE  CallGroups(Append(h, e)) =
               CallGroups(h) \cup (IF e.kind = "calls" THEN {<<e.round, e.item>>} ELSE {})
<1> DEFINE g == Append(h, e)
<1>1. DOMAIN g = DOMAIN h \cup {Len(h) + 1} /\ g[Len(h) + 1] = e
  BY Appended
<1>2. \A n \in DOMAIN h : g[n] = h[n]
  BY Appended
<1> HIDE DEF g
<1> QED BY <1>1, <1>2 DEF CallGroups, g

(* What an entry may be added to. *)
LEMMA UptoAppended ==
    ASSUME NEW h \in Seq(Stored), NEW e \in Stored, NEW r \in Nat, Upto(h, r),
           e.round <= r, e.kind \in {"request", "response"} => e.item.round <= r
    PROVE  Upto(Append(h, e), r)
<1> DEFINE g == Append(h, e)
<1>1. DOMAIN g = DOMAIN h \cup {Len(h) + 1} /\ g[Len(h) + 1] = e
  BY Appended
<1>2. \A n \in DOMAIN h : g[n] = h[n]
  BY Appended
<1> HIDE DEF g
<1> QED BY <1>1, <1>2 DEF Upto, g

LEMMA UptoNext ==
    ASSUME NEW h \in Seq(Stored), NEW r \in Nat, Upto(h, r)
    PROVE  /\ Upto(h, r + 1)
           /\ \A n \in DOMAIN h : h[n].round # r + 1
           /\ \A p \in ItemsIn(h, "request") : p.round # r + 1
<1>1. ASSUME NEW n \in DOMAIN h
      PROVE  /\ h[n].round <= r + 1 /\ h[n].round # r + 1
             /\ h[n].kind \in {"request", "response"} =>
                   h[n].item.round <= r + 1 /\ h[n].item.round # r + 1
  <2>1. h[n] \in Stored
    OBVIOUS
  <2>2. h[n].round \in Nat /\ (h[n].kind \in {"request", "response"} => h[n].item.round \in Nat)
    BY <2>1, StoredFields DEF Prompt
  <2> QED BY <2>2 DEF Upto
<1> QED BY <1>1 DEF Upto, ItemsIn

LEMMA ClearAppended ==
    ASSUME NEW h \in Seq(Stored), NEW e \in Stored, NEW r \in Nat, Clear(h, r),
           e.kind \notin {"user", "steering"}
    PROVE  Clear(Append(h, e), r)
<1> DEFINE g == Append(h, e)
<1>1. DOMAIN g = DOMAIN h \cup {Len(h) + 1} /\ g[Len(h) + 1] = e
  BY Appended
<1>2. \A n \in DOMAIN h : g[n] = h[n]
  BY Appended
<1>3. Len(h) \in Nat /\ DOMAIN h = 1..Len(h)
  OBVIOUS
<1>4. ASSUME NEW k \in DOMAIN g, NEW m \in DOMAIN g, g[k].kind = "calls", g[k].round = r, k <= m
      PROVE  g[m].kind \notin {"user", "steering"}
  <2> HIDE DEF g
  <2>1. CASE m = Len(h) + 1
    BY <1>1, <2>1
  <2>2. CASE m \in DOMAIN h
    <3>1. k \in DOMAIN h
      BY <1>1, <1>3, <1>4, <2>2
    <3> QED BY <1>2, <1>4, <2>2, <3>1 DEF Clear
  <2> QED BY <1>1, <2>1, <2>2
<1> QED BY <1>4 DEF Clear

LEMMA BetweenAppended ==
    ASSUME NEW h \in Seq(Stored), NEW e \in Stored, Between(h),
           e.kind = "result" => Clear(h, e.round)
    PROVE  Between(Append(h, e))
<1> DEFINE g == Append(h, e)
<1>1. DOMAIN g = DOMAIN h \cup {Len(h) + 1} /\ g[Len(h) + 1] = e
  BY Appended
<1>2. \A n \in DOMAIN h : g[n] = h[n]
  BY Appended
<1>3. Len(h) \in Nat /\ DOMAIN h = 1..Len(h)
  OBVIOUS
<1>4. ASSUME NEW k \in DOMAIN g, NEW n \in DOMAIN g, NEW m \in k..n,
             g[k].kind = "calls", g[n].kind = "result", g[n].round = g[k].round
      PROVE  g[m].kind \notin {"user", "steering"}
  <2> HIDE DEF g
  <2>1. CASE m = Len(h) + 1
    <3>1. n = m
      BY <1>1, <1>3, <2>1
    <3> QED BY <1>4, <3>1
  <2>2. CASE m \in DOMAIN h /\ n \in DOMAIN h
    <3>1. k \in DOMAIN h
      BY <1>1, <1>3, <2>2
    <3> QED BY <1>2, <1>4, <2>2, <3>1 DEF Between
  <2>3. CASE m \in DOMAIN h /\ n = Len(h) + 1
    <3>1. k \in DOMAIN h /\ k <= m
      BY <1>1, <1>3, <2>3
    <3>2. e.kind = "result" /\ h[k].kind = "calls" /\ h[k].round = e.round
      BY <1>1, <1>2, <1>4, <2>3, <3>1
    <3> QED BY <1>2, <2>3, <3>1, <3>2 DEF Clear
  <2>4. m \in DOMAIN g
    BY <1>1, <1>3
  <2> QED BY <1>1, <2>1, <2>2, <2>3, <2>4
<1> QED BY <1>4 DEF Between

LEMMA OnceAppended ==
    ASSUME NEW h \in Seq(Stored), NEW e \in Stored, AnsweredOnce(h),
           e.kind = "response" => e.item \notin ItemsIn(h, "response")
    PROVE  AnsweredOnce(Append(h, e))
<1> DEFINE g == Append(h, e)
<1>1. DOMAIN g = DOMAIN h \cup {Len(h) + 1} /\ g[Len(h) + 1] = e
  BY Appended
<1>2. \A n \in DOMAIN h : g[n] = h[n]
  BY Appended
<1>3. \A n \in DOMAIN h : g[n].kind = "response" /\ e.kind = "response" => g[n].item # e.item
  BY <1>2 DEF ItemsIn
<1> HIDE DEF g
<1> QED BY <1>1, <1>2, <1>3 DEF AnsweredOnce, g

LEMMA EntriesStored ==
    ASSUME NEW r \in Nat
    PROVE  /\ Entry("user", 0, 0) \in Stored
           /\ Entry("steering", 0, 0) \in Stored
           /\ Entry("text", r, 0) \in Stored
           /\ \A group \in Groups : Entry("calls", r, group) \in Stored
           /\ \A i \in Slots : Entry("result", r, i) \in Stored
           /\ \A p \in Prompt : /\ Entry("request", 0, p) \in Stored
                                /\ Entry("response", 0, p) \in Stored
BY DEF Entry, Stored

LEMMA PromptsTyped ==
    ASSUME rid \in Nat, NEW i \in Slots
    PROVE  /\ GatePrompt(i) \in Prompt /\ GatePrompt(i).round = rid
           /\ ToolPrompt(i) \in Prompt /\ ToolPrompt(i).round = rid
BY DEF Prompt, GatePrompt, ToolPrompt

-----------------------------------------------------------------------------
(* The history grows by entries that may follow                            *)

MayFollow(h, e) ==
    /\ e.round <= rid
    /\ e.kind \in {"request", "response"} => e.item.round <= rid
    /\ e.kind = "result" => Clear(h, e.round)
    /\ e.kind = "response" =>
          e.item \in ItemsIn(h, "request") /\ e.item \notin ItemsIn(h, "response")

Grown ==
    \/ hist' = hist
    \/ \E e \in Stored : MayFollow(hist, e) /\ hist' = Append(hist, e)
    \/ \E p \in Prompt : /\ p.round <= rid
                         /\ p \notin ItemsIn(hist, "request")
                         /\ hist' = hist \o <<Entry("request", 0, p), Entry("response", 0, p)>>

LEMMA TwoAppended ==
    ASSUME NEW h \in Seq(Stored), NEW a \in Stored, NEW b \in Stored
    PROVE  h \o <<a, b>> = Append(Append(h, a), b)
OBVIOUS

HistoryFine(h) ==
    /\ h \in Seq(Stored)
    /\ Upto(h, rid)
    /\ Between(h)
    /\ AnsweredOnce(h)
    /\ ItemsIn(h, "response") \subseteq ItemsIn(h, "request")

LEMMA FollowedFine ==
    ASSUME rid \in Nat, NEW h, HistoryFine(h), NEW e \in Stored, MayFollow(h, e)
    PROVE  HistoryFine(Append(h, e))
<1>1. h \in Seq(Stored)
  BY DEF HistoryFine
<1>2. Append(h, e) \in Seq(Stored)
  BY <1>1
<1>3. Upto(Append(h, e), rid)
  BY <1>1, UptoAppended DEF HistoryFine, MayFollow
<1>4. Between(Append(h, e))
  BY <1>1, BetweenAppended DEF HistoryFine, MayFollow
<1>5. AnsweredOnce(Append(h, e))
  BY <1>1, OnceAppended DEF HistoryFine, MayFollow
<1>6. ItemsIn(Append(h, e), "response") \subseteq ItemsIn(Append(h, e), "request")
  <2>1. ItemsIn(Append(h, e), "response") =
            ItemsIn(h, "response") \cup (IF e.kind = "response" THEN {e.item} ELSE {})
    BY <1>1, ItemsAppended
  <2>2. ItemsIn(h, "request") \subseteq ItemsIn(Append(h, e), "request")
    BY <1>1, ItemsAppended
  <2> QED BY <2>1, <2>2 DEF HistoryFine, MayFollow
<1> QED BY <1>2, <1>3, <1>4, <1>5, <1>6 DEF HistoryFine

LEMMA GrownFine ==
    ASSUME rid \in Nat, HistoryFine(hist), Grown
    PROVE  HistoryFine(hist')
<1>1. CASE hist' = hist
  BY <1>1
<1>2. CASE \E e \in Stored : MayFollow(hist, e) /\ hist' = Append(hist, e)
  BY <1>2, FollowedFine
<1>3. ASSUME NEW p \in Prompt, p.round <= rid, p \notin ItemsIn(hist, "request"),
             hist' = hist \o <<Entry("request", 0, p), Entry("response", 0, p)>>
      PROVE  HistoryFine(hist')
  <2> DEFINE a == Entry("request", 0, p)
             b == Entry("response", 0, p)
             h == Append(hist, a)
  <2>1. a \in Stored /\ b \in Stored
    BY EntriesStored
  <2>2. a.kind = "request" /\ a.round = 0 /\ a.item = p
    BY DEF Entry
  <2>3. b.kind = "response" /\ b.round = 0 /\ b.item = p
    BY DEF Entry
  <2>4. hist \in Seq(Stored)
    BY DEF HistoryFine
  <2>5. hist' = Append(h, b)
    BY <1>3, <2>1, <2>4, TwoAppended
  <2> HIDE DEF a, b
  <2>6. MayFollow(hist, a)
    BY <1>3, <2>2 DEF MayFollow
  <2>7. HistoryFine(h)
    BY <2>1, <2>6, FollowedFine
  <2>8. /\ ItemsIn(h, "request") = ItemsIn(hist, "request") \cup {p}
        /\ ItemsIn(h, "response") = ItemsIn(hist, "response")
    <3>1. ItemsIn(h, "request") =
              ItemsIn(hist, "request") \cup (IF a.kind = "request" THEN {a.item} ELSE {})
      BY <2>1, <2>4, ItemsAppended
    <3>2. ItemsIn(h, "response") =
              ItemsIn(hist, "response") \cup (IF a.kind = "response" THEN {a.item} ELSE {})
      BY <2>1, <2>4, ItemsAppended
    <3> QED BY <2>2, <3>1, <3>2
  <2> HIDE DEF h
  <2>9. MayFollow(h, b)
    BY <1>3, <2>3, <2>8 DEF MayFollow, HistoryFine
  <2> QED BY <2>1, <2>5, <2>7, <2>9, FollowedFine
<1> QED BY <1>1, <1>2, <1>3 DEF Grown


(* Tasks of a batch exist in phase batch only, and only for its calls. *)
LEMMA FuturesInBatch ==
    ASSUME Typed, Phased, NEW i \in Slots, stage[i] \notin {"unstarted", "done"}
    PROVE  phase = "batch" /\ i \in DOMAIN calls /\ calls[i] \in Keys
<1>1. phase = "batch"
  BY DEF Phased
<1>2. i <= Len(calls) /\ DOMAIN calls = 1..Len(calls) /\ Len(calls) \in Nat /\ i \in Nat
  BY DEF Phased, Typed, Slots
<1>3. i \in DOMAIN calls
  BY <1>2 DEF Slots
<1> QED BY <1>1, <1>3 DEF Typed

LEMMA NextCall ==
    ASSUME Typed, Prefixed, NEW i \in Slots, IsNext(i)
    PROVE  /\ i \in DOMAIN calls
           /\ stage[i] = "unstarted"
           /\ \E k \in Nat : Started = 1..k /\ i = k + 1
<1>1. PICK k \in Nat : Started = 1..k
  BY DEF Prefixed
<1>2. Cardinality(1..k) = k
  BY FS_Interval
<1>3. i = k + 1 /\ i \in DOMAIN calls
  BY <1>1, <1>2 DEF IsNext
<1>4. i \notin Started
  BY <1>1, <1>3
<1>5. stage[i] = "unstarted"
  BY <1>3, <1>4 DEF Started
<1> QED BY <1>1, <1>3, <1>5

LEMMA AskGrows ==
    ASSUME Typed, HistoryFine(hist), NEW p \in Prompt, p.round = rid,
           p \notin ItemsIn(hist, "request"),
           NEW i, NEW asking, NEW unasked, Ask(p, i, asking, unasked)
    PROVE  Grown
<1> DEFINE e == Entry("request", 0, p)
<1>1. e \in Stored /\ e.kind = "request" /\ e.round = 0 /\ e.item = p
  BY EntriesStored DEF Entry
<1>2. rid \in Nat /\ p.round \in Nat
  BY DEF Typed
<1>3. MayFollow(hist, e)
  <2> HIDE DEF e
  <2> QED BY <1>1, <1>2 DEF MayFollow
<1>4. CASE hist' = hist
  BY <1>4 DEF Grown
<1>5. CASE hist' = Append(hist, e)
  BY <1>1, <1>3, <1>5 DEF Grown
<1>6. CASE hist' = hist \o <<Entry("request", 0, p), Entry("response", 0, p)>>
  <2>1. p.round <= rid
    BY <1>2
  <2> HIDE DEF e
  <2> QED BY <1>6, <2>1 DEF Grown
<1> QED BY <1>4, <1>5, <1>6 DEF Ask

LEMMA ResponseGrows ==
    ASSUME Typed, HistoryFine(hist), NEW p \in Unanswered,
           hist' = Append(hist, Entry("response", 0, p))
    PROVE  Grown
<1> DEFINE e == Entry("response", 0, p)
<1>1. p \in ItemsIn(hist, "request") /\ p \notin ItemsIn(hist, "response")
  BY DEF Unanswered, ItemsOf, ItemsIn
<1>2. PICK n \in DOMAIN hist : hist[n].kind = "request" /\ hist[n].item = p
  BY <1>1 DEF ItemsIn
<1>3. p \in Prompt /\ p.round <= rid
  <2>1. hist[n] \in Stored
    BY DEF Typed
  <2> QED BY <1>2, <2>1, StoredFields DEF Typed, Upto
<1>4. e \in Stored /\ e.kind = "response" /\ e.round = 0 /\ e.item = p
  BY <1>3, EntriesStored DEF Entry
<1>5. rid \in Nat
  BY DEF Typed
<1> HIDE DEF e
<1>6. MayFollow(hist, e)
  BY <1>1, <1>3, <1>4, <1>5 DEF MayFollow
<1> QED BY <1>4, <1>6 DEF Grown, e

LEMMA PlainGrows ==
    ASSUME Typed, NEW e \in Stored, e.round <= rid,
           e.kind \notin {"request", "response", "result"}, hist' = Append(hist, e)
    PROVE  Grown
BY DEF Grown, MayFollow

LEMMA ResultGrows ==
    ASSUME Typed, ClearNow, phase \in {"batch", "resting"}, NEW i \in Slots,
           hist' = Append(hist, Entry("result", rid, i))
    PROVE  Grown
<1> DEFINE e == Entry("result", rid, i)
<1>1. rid \in Nat
  BY DEF Typed
<1>2. e \in Stored /\ e.kind = "result" /\ e.round = rid
  BY <1>1, EntriesStored DEF Entry
<1>3. MayFollow(hist, e)
  <2> HIDE DEF e
  <2> QED BY <1>1, <1>2 DEF MayFollow, ClearNow
<1> QED BY <1>2, <1>3 DEF Grown

(* The history part of every step. *)
LEMMA HistoryGrows ==
    ASSUME Typed, Phased, Prefixed, HistoryFine(hist), ClearNow, Prompted, Next
    PROVE  Grown
<1> USE DEF Grown
<1>1. rid \in Nat
  BY DEF Typed
<1>2. ASSUME NEW r \in {0, rid},
             NEW kind \in {"user", "steering", "text"},
             kind # "text" => r = 0,
             hist' = Append(hist, Entry(kind, r, 0))
      PROVE  Grown
  <2> DEFINE e == Entry(kind, r, 0)
  <2>1. e \in Stored /\ e.kind = kind /\ e.round = r
    BY <1>1, <1>2, EntriesStored DEF Entry, Stored
  <2>2. e.round <= rid
    BY <1>1, <2>1
  <2> HIDE DEF e
  <2> QED BY <1>2, <2>1, <2>2, PlainGrows DEF e
<1>3. Flush => Grown
  BY <1>1, <1>2 DEF Flush
<1>4. CASE User
  BY <1>1, <1>2, <1>4 DEF User, StartTurn, CancelTurn, AnswerInteraction
<1>5. CASE Stream
  <2>1. ASSUME NEW group \in Groups, ToolCalls(group) PROVE Grown
    <3> DEFINE e == Entry("calls", rid, group)
    <3>1. e \in Stored /\ e.kind = "calls" /\ e.round = rid
      BY <1>1, EntriesStored DEF Entry
    <3>2. hist' = Append(hist, e)
      BY <2>1 DEF ToolCalls
    <3>3. e.round <= rid
      BY <1>1, <3>1
    <3> HIDE DEF e
    <3> QED BY <3>1, <3>2, <3>3, PlainGrows
  <2>2. CASE Interrupted \/ StopStream
    BY <1>3, <2>2 DEF Interrupted, StopStream
  <2>3. CASE PartEnd
    BY <1>1, <1>2, <2>3 DEF PartEnd
  <2>4. CASE Checkpoint
    BY <1>1, <1>2, <2>4 DEF Checkpoint
  <2>5. CASE BeginRound \/ Connect \/ PartStart \/ ResponseEnd
    BY <2>5 DEF BeginRound, Connect, PartStart, ResponseEnd
  <2>6. CASE AfterResponse \/ BatchDrained \/ BatchDone
    BY <2>6 DEF AfterResponse, BatchDrained, BatchDone
  <2> QED BY <1>5, <2>1, <2>2, <2>3, <2>4, <2>5, <2>6 DEF Stream
<1>6. CASE TurnFails \/ Crash \/ Boot \/ Booted
  BY <1>6 DEF TurnFails, Crash, Boot, Booted
<1>7. ASSUME NEW i \in Slots, Tool(i) PROVE Grown
  <2>1. CASE StartCall(i) \/ Gate(i) \/ PermissionHook(i) \/ Finish(i)
    BY <2>1 DEF StartCall, Gate, PermissionHook, Finish
  <2>2. CASE AskApproval(i)
    <3>1. stage[i] = "queued" /\ Ask(GatePrompt(i), i, "asking", "settled")
      BY <2>2 DEF AskApproval
    <3>2. phase = "batch"
      BY <3>1, FuturesInBatch
    <3>3. GatePrompt(i) \notin ItemsIn(hist, "request")
      BY <3>1, <3>2 DEF Prompted
    <3> QED BY <1>1, <3>1, <3>3, PromptsTyped, AskGrows
  <2>3. CASE GateWakes(i)
    <3>1. GatePrompt(i) \in Unanswered
      BY <2>3 DEF GateWakes, Prompted
    <3> QED BY <2>3, <3>1, ResponseGrows DEF GateWakes, Close
  <2>4. CASE ToolWakes(i)
    <3>1. ToolPrompt(i) \in Unanswered
      BY <2>4 DEF ToolWakes, Prompted
    <3> QED BY <2>4, <3>1, ResponseGrows DEF ToolWakes, Close
  <2>5. CASE PersistResult(i)
    <3>1. phase = "batch"
      BY <2>5, FuturesInBatch DEF PersistResult
    <3> QED BY <2>5, <3>1, ResultGrows DEF PersistResult
  <2>6. CASE CancelPending(i)
    BY <2>6, ResultGrows DEF CancelPending
  <2> QED BY <1>7, <2>1, <2>2, <2>3, <2>4, <2>5, <2>6 DEF Tool
<1>8. ASSUME NEW i \in Slots, ToolAsk(i) PROVE Grown
  <2>1. ToolPrompt(i) \notin ItemsIn(hist, "request")
    BY <1>8 DEF ToolAsk, ItemsOf, ItemsIn
  <2>2. Ask(ToolPrompt(i), i, "toolasking", "running")
    BY <1>8 DEF ToolAsk
  <2> QED BY <1>1, <2>1, <2>2, PromptsTyped, AskGrows
<1>9. ASSUME NEW i \in Slots, Timeout(i) PROVE Grown
  BY <1>9 DEF Timeout
<1>10. ASSUME NEW p \in Unanswered, CloseOrphan(p) PROVE Grown
  BY <1>10, ResponseGrows DEF CloseOrphan
<1> QED BY <1>4, <1>5, <1>6, <1>7, <1>8, <1>9, <1>10 DEF Next

-----------------------------------------------------------------------------
(* Types and phases                                                        *)

Control == Typed /\ Phased /\ Prefixed

LEMMA EndControl ==
    ASSUME Typed, EndTurn, hist' \in Seq(Stored), Upto(hist', rid), waiting' \subseteq Prompt,
           up' \in BOOLEAN, skipped' \in BOOLEAN,
           crashes' \in 0..MaxCrashes, faults' \in 0..MaxFaults
    PROVE  Control'
<1>1. Typed'
  <2>1. calls' \in Seq(Keys) /\ Len(calls') <= MaxCalls
    BY DEF EndTurn
  <2>2. rounds' \in 0..MaxRounds /\ retries' \in 0..MaxRetries
    BY DEF EndTurn
  <2>3. stage' \in [Slots -> Stages] /\ phase' \in Phases
    BY DEF EndTurn, Stages, Phases
  <2>4. UNCHANGED <<turn, rid>>
    BY DEF EndTurn
  <2>5. /\ open' \in BOOLEAN /\ cancelled' \in BOOLEAN /\ failed' \in BOOLEAN
        /\ approval' \in {0} \cup Slots /\ answers' \subseteq Prompt \X Decisions
        /\ grants' \subseteq Keys
    BY DEF EndTurn
  <2> QED BY <2>1, <2>2, <2>3, <2>4, <2>5 DEF Typed
<1>2. Phased'
  BY DEF Phased, EndTurn
<1>3. Started' = 1..0
  BY DEF Started, EndTurn
<1> QED BY <1>1, <1>2, <1>3 DEF Control, Prefixed

LEMMA MoveControl ==
    ASSUME Typed, Phased, Prefixed, NEW i \in Slots, NEW s \in Stages, s # "unstarted",
           Move(i, s), IsNext(i) \/ stage[i] # "unstarted",
           phase = "batch" \/ (phase = "resting" /\ s = "done"),
           UNCHANGED <<phase, rounds, calls, up>>
    PROVE  Phased' /\ Prefixed' /\ stage' \in [Slots -> Stages]
<1>1. /\ DOMAIN calls = 1..Len(calls) /\ Len(calls) \in Nat
      /\ stage' \in [Slots -> Stages]
      /\ stage' = [stage EXCEPT ![i] = s]
  BY DEF Typed, Move
<1>2. i \in DOMAIN calls /\ i <= Len(calls)
  <2>1. CASE IsNext(i)
    BY <1>1, <2>1, NextCall
  <2>2. CASE stage[i] # "unstarted"
    BY <1>1, <2>2 DEF Phased, Slots
  <2> QED BY <2>1, <2>2
<1>3. Phased'
  <2>1. \A j \in Slots : j # i => stage'[j] = stage[j]
    BY <1>1 DEF Typed
  <2>2. stage'[i] = s
    BY <1>1 DEF Typed
  <2> QED BY <1>2, <2>1, <2>2 DEF Phased
<1>4. Started' = Started \cup {i}
  BY <1>1, <1>2 DEF Started, Typed
<1>5. Prefixed'
  <2>1. CASE IsNext(i)
    <3>1. PICK k \in Nat : Started = 1..k /\ i = k + 1
      BY <2>1, NextCall
    <3>2. Started' = 1..(k + 1) /\ k + 1 \in Nat
      BY <1>4, <3>1
    <3> QED BY <3>2 DEF Prefixed
  <2>2. CASE stage[i] # "unstarted"
    <3>1. Started' = Started
      BY <1>2, <1>4, <2>2 DEF Started
    <3> QED BY <3>1 DEF Prefixed
  <2> QED BY <2>1, <2>2
<1> QED BY <1>1, <1>3, <1>5

(* Steps of the futures of a batch. *)
LEMMA ToolControl ==
    ASSUME Control, NEW i \in Slots, Tool(i) \/ ToolAsk(i) \/ Timeout(i),
           hist' \in Seq(Stored), Upto(hist', rid)
    PROVE  Control'
<1> USE DEF Control
<1>1. UNCHANGED <<turn, rounds, rid, retries, open, calls, cancelled, phase, up, skipped, crashes>>
  BY DEF Tool, ToolAsk, Timeout, StartCall, Gate, PermissionHook, AskApproval, GateWakes,
         ToolWakes, Finish, PersistResult, CancelPending, respVars, envVars
<1>2. rid \in Nat /\ GatePrompt(i) \in Prompt /\ ToolPrompt(i) \in Prompt
  BY PromptsTyped DEF Typed
<1>3. faults' \in 0..MaxFaults
  <2>1. faults' = faults \/ (faults < MaxFaults /\ faults' = faults + 1)
    BY DEF Tool, ToolAsk, Timeout, StartCall, Gate, PermissionHook, AskApproval, GateWakes,
           ToolWakes, Finish, PersistResult, CancelPending, envVars, Ask, Close, StoreError
  <2>2. faults \in 0..MaxFaults /\ MaxFaults \in Nat
    BY RoundAssumption DEF Typed
  <2> QED BY <2>1, <2>2
<1>4. waiting' \subseteq Prompt
  BY <1>2 DEF Typed, Tool, ToolAsk, Timeout, StartCall, Gate, PermissionHook, AskApproval,
         GateWakes, ToolWakes, Finish, PersistResult, CancelPending, askVars, Ask
<1>5. answers' \subseteq Prompt \X Decisions
  BY DEF Typed, Tool, ToolAsk, Timeout, StartCall, Gate, PermissionHook, AskApproval,
         GateWakes, ToolWakes, Finish, PersistResult, CancelPending, askVars
<1>6. approval' \in {0} \cup Slots /\ failed' \in BOOLEAN
  BY DEF Typed, Tool, ToolAsk, Timeout, StartCall, Gate, PermissionHook, AskApproval,
         GateWakes, ToolWakes, Finish, PersistResult, CancelPending
<1>7. grants' \subseteq Keys
  <2>1. CASE GateWakes(i)
    <3>1. calls[i] \in Keys
      BY <2>1, FuturesInBatch DEF GateWakes
    <3> QED BY <2>1, <3>1 DEF GateWakes, Typed
  <2> QED BY <2>1 DEF Typed, Tool, ToolAsk, Timeout, StartCall, Gate, PermissionHook, AskApproval,
         ToolWakes, Finish, PersistResult, CancelPending, askVars
<1>8. \E s \in Stages :
         /\ Move(i, s)
         /\ s # "unstarted"
         /\ \/ IsNext(i) /\ (phase = "batch" \/ (phase = "resting" /\ s = "done"))
            \/ stage[i] \notin {"unstarted", "done"}
  BY DEF Tool, ToolAsk, Timeout, StartCall, Gate, PermissionHook, AskApproval,
         GateWakes, ToolWakes, Finish, PersistResult, CancelPending, Ask, Stages
<1>9. PICK s \in Stages :
         /\ Move(i, s)
         /\ s # "unstarted"
         /\ \/ IsNext(i) /\ (phase = "batch" \/ (phase = "resting" /\ s = "done"))
            \/ stage[i] \notin {"unstarted", "done"}
  BY <1>8
<1>10. IsNext(i) \/ stage[i] # "unstarted"
  BY <1>9
<1>11. phase = "batch" \/ (phase = "resting" /\ s = "done")
  BY <1>9, FuturesInBatch
<1>12. Phased' /\ Prefixed' /\ stage' \in [Slots -> Stages]
  BY <1>1, <1>9, <1>10, <1>11, MoveControl
<1>13. Typed'
  BY <1>1, <1>3, <1>4, <1>5, <1>6, <1>7, <1>12 DEF Typed
<1> QED BY <1>12, <1>13


(* Steps of the task and its surroundings. *)
LEMMA UserControl ==
    ASSUME Control, User, hist' \in Seq(Stored), Upto(hist', rid)
    PROVE  Control'
<1> USE DEF Control
<1>1. CASE StartTurn
  <2>1. UNCHANGED <<rounds, respVars, toolVars, askVars, cancelled, envVars>>
    BY <1>1 DEF StartTurn
  <2>2. turn' \in 0..MaxTurns /\ phase = "idle" /\ phase' = "ready"
    BY <1>1 DEF StartTurn, Typed
  <2>3. Typed'
    BY <2>1, <2>2 DEF Typed, Phases, respVars, toolVars, askVars, envVars
  <2>4. Phased'
    BY <1>1, <2>1, <2>2 DEF StartTurn, Phased, Typed, respVars, toolVars, envVars
  <2>5. Prefixed'
    BY <2>1 DEF Prefixed, Started, respVars, toolVars
  <2> QED BY <2>3, <2>4, <2>5
<1>2. CASE CancelTurn
  BY <1>2 DEF CancelTurn, Typed, Phased, Prefixed, Started, respVars, toolVars, askVars, envVars
<1>3. ASSUME NEW p \in waiting, NEW d \in Decisions, AnswerInteraction(p, d)
      PROVE  Control'
  <2>1. UNCHANGED <<hist, phase, turn, rounds, respVars, toolVars, grants, cancelled, envVars>>
    BY <1>3 DEF AnswerInteraction
  <2>2. waiting' \subseteq Prompt /\ answers' \subseteq Prompt \X Decisions
    BY <1>3 DEF AnswerInteraction, Typed
  <2>3. Typed'
    BY <2>1, <2>2 DEF Typed, respVars, toolVars, envVars
  <2>4. Phased' /\ Prefixed'
    BY <2>1 DEF Phased, Prefixed, Started, respVars, toolVars, envVars
  <2> QED BY <2>3, <2>4
<1> QED BY <1>1, <1>2, <1>3 DEF User

LEMMA BeginControl ==
    ASSUME Control, BeginRound, hist' \in Seq(Stored), Upto(hist', rid)
    PROVE  Control'
<1> USE DEF Control
<1>1. UNCHANGED <<hist, waiting, envVars>> /\ phase = "ready"
  BY DEF BeginRound
<1>2. CASE cancelled
  BY <1>1, <1>2, EndControl DEF BeginRound, Typed, envVars
<1>3. CASE ~cancelled
  <2>1. /\ phase' = "connecting" /\ rounds' = rounds + 1 /\ rid' = rid + 1
        /\ retries' = 0 /\ calls' = <<>> /\ stage' = [i \in Slots |-> "unstarted"]
        /\ UNCHANGED <<turn, open, approval, answers, grants, cancelled, failed>>
    BY <1>3 DEF BeginRound
  <2>2. rounds' \in 0..MaxRounds
    BY <1>1, <2>1 DEF Typed, Phased
  <2>3. Upto(hist', rid') /\ rid' \in Nat
    BY <2>1, UptoNext DEF Typed
  <2>4. stage' \in [Slots -> Stages] /\ phase' \in Phases /\ retries' \in 0..MaxRetries
    BY <2>1 DEF Stages, Phases
  <2>5. calls' \in Seq(Keys) /\ Len(calls') <= MaxCalls
    BY <2>1
  <2>6. Typed'
    BY <1>1, <2>1, <2>2, <2>3, <2>4, <2>5 DEF Typed, envVars
  <2>7. Phased'
    BY <1>1, <2>1 DEF Phased, envVars
  <2>8. Started' = 1..0
    BY <2>1 DEF Started
  <2> QED BY <2>6, <2>7, <2>8 DEF Prefixed
<1> QED BY <1>2, <1>3

LEMMA InterruptedControl ==
    ASSUME Control, Interrupted, hist' \in Seq(Stored), Upto(hist', rid)
    PROVE  Control'
<1> USE DEF Control
<1>1. UNCHANGED <<waiting, envVars>> /\ phase = "streaming"
  BY DEF Interrupted
<1>2. CASE retries = MaxRetries \/ cancelled
  BY <1>1, <1>2, EndControl DEF Interrupted, Typed, envVars
<1>3. CASE ~(retries = MaxRetries \/ cancelled)
  <2>1. /\ retries' = retries + 1 /\ rid' = rid + 1 /\ open' = FALSE /\ phase' = "connecting"
        /\ UNCHANGED <<turn, rounds, calls, toolVars, answers, grants, cancelled>>
    BY <1>3 DEF Interrupted
  <2>2. retries' \in 0..MaxRetries
    BY <1>3, <2>1 DEF Typed
  <2>3. Upto(hist', rid') /\ rid' \in Nat
    BY <2>1, UptoNext DEF Typed
  <2>4. Typed'
    BY <1>1, <2>1, <2>2, <2>3 DEF Typed, envVars, toolVars, Phases
  <2>5. Phased' /\ Prefixed'
    BY <1>1, <2>1 DEF Phased, envVars, toolVars, Prefixed, Started
  <2> QED BY <2>4, <2>5
<1> QED BY <1>2, <1>3

(* The task goes from one phase to the next and changes nothing else that  *)
(* the types and phases speak of.                                          *)
LEMMA PhaseControl ==
    ASSUME Control, hist' \in Seq(Stored), Upto(hist', rid), phase' \in Phases,
           UNCHANGED <<turn, rounds, respVars, toolVars, answers, grants, cancelled>>,
           UNCHANGED <<waiting, envVars>>,
           Phased'
    PROVE  Control'
<1> USE DEF Control
<1>1. Typed'
  BY DEF Typed, respVars, toolVars, envVars
<1>2. Prefixed'
  BY DEF Prefixed, Started, respVars, toolVars
<1> QED BY <1>1, <1>2

LEMMA StreamControl ==
    ASSUME Control, Stream, hist' \in Seq(Stored), Upto(hist', rid)
    PROVE  Control'
<1> USE DEF Control
<1>1. CASE BeginRound
  BY <1>1, BeginControl
<1>2. CASE Interrupted
  BY <1>2, InterruptedControl
<1>3. CASE Connect \/ ResponseEnd \/ BatchDone \/ StopStream \/ Checkpoint
  <2>1. UNCHANGED <<waiting, envVars>> /\ phase \notin {"idle", "booting", "batch"}
    BY <1>3 DEF Connect, ResponseEnd, BatchDone, StopStream, Checkpoint
  <2>2. CASE EndTurn
    BY <2>1, <2>2, EndControl DEF Typed, envVars
  <2>3. CASE ~EndTurn
    <3>1. UNCHANGED <<turn, rounds, respVars, toolVars, answers, grants, cancelled>>
      BY <1>3, <2>3 DEF Connect, ResponseEnd, BatchDone, StopStream, Checkpoint
    <3>2. \/ phase = "connecting" /\ phase' = "streaming"
          \/ phase = "streaming" /\ phase' = "ended"
          \/ phase = "resting" /\ phase' = "steering"
          \/ phase \in {"steering", "closing"} /\ phase' = "ready" /\ rounds < MaxRounds
      BY <1>3, <2>3 DEF Connect, ResponseEnd, BatchDone, StopStream, Checkpoint
    <3>3. Phased'
      BY <2>1, <3>1, <3>2 DEF Phased, respVars, toolVars, envVars
    <3> QED BY <2>1, <3>1, <3>2, <3>3, PhaseControl DEF Phases
  <2> QED BY <2>2, <2>3
<1>4. CASE PartStart \/ PartEnd
  <2>1. /\ UNCHANGED <<phase, turn, rounds, rid, retries, calls, toolVars, askVars,
                       cancelled, envVars>>
        /\ open' \in BOOLEAN
    BY <1>4 DEF PartStart, PartEnd
  <2>2. Typed'
    BY <2>1 DEF Typed, toolVars, askVars, envVars
  <2>3. Phased' /\ Prefixed'
    BY <2>1 DEF Phased, Prefixed, Started, toolVars, envVars
  <2> QED BY <2>2, <2>3
<1>5. ASSUME NEW group \in Groups, ToolCalls(group) PROVE Control'
  <2>1. /\ phase = "streaming" /\ phase' = "ended" /\ calls' = group
        /\ UNCHANGED <<turn, rounds, rid, retries, open, toolVars, askVars, cancelled, envVars>>
    BY <1>5 DEF ToolCalls
  <2>2. PICK n \in Slots : group \in [1..n -> Keys]
    BY DEF Groups
  <2>3. group \in Seq(Keys) /\ Len(group) = n /\ n <= MaxCalls
    BY <2>2 DEF Slots
  <2>4. Typed'
    BY <2>1, <2>3 DEF Typed, Phases, toolVars, askVars, envVars
  <2>5. \A i \in Slots : stage[i] = "unstarted"
    BY <2>1 DEF Phased
  <2>6. Phased'
    BY <2>1, <2>5 DEF Phased, toolVars, envVars
  <2>7. Started' = 1..0
    BY <2>1, <2>2, <2>5 DEF Started, toolVars, Slots
  <2> QED BY <2>4, <2>6, <2>7 DEF Prefixed
<1>6. CASE AfterResponse \/ BatchDrained
  <2>1. UNCHANGED <<turn, rounds, respVars, toolVars, answers, grants, cancelled>>
    BY <1>6 DEF AfterResponse, BatchDrained, askVars
  <2>2. UNCHANGED <<waiting, envVars>>
    BY <1>6 DEF AfterResponse, BatchDrained, askVars
  <2>3. \/ phase = "ended" /\ phase' \in {"resting", "batch", "closing"}
        \/ phase = "batch" /\ phase' = "resting" /\ InFlight = {}
    BY <1>6 DEF AfterResponse, BatchDrained
  <2>4. \A i \in Slots : phase' # "batch" => stage[i] \in {"unstarted", "done"}
    <3>1. ASSUME NEW i \in Slots, stage[i] \notin {"unstarted", "done"} PROVE i \in InFlight
      BY <3>1, FuturesInBatch DEF InFlight, Started
    <3>2. CASE phase = "ended"
      BY <3>2 DEF Phased
    <3> QED BY <2>3, <3>1, <3>2
  <2>5. Phased'
    BY <2>1, <2>2, <2>3, <2>4 DEF Phased, respVars, toolVars, envVars
  <2> QED BY <2>1, <2>2, <2>3, <2>5, PhaseControl DEF Phases
<1> QED BY <1>1, <1>2, <1>3, <1>4, <1>5, <1>6 DEF Stream

LEMMA SystemControl ==
    ASSUME Control, hist' \in Seq(Stored), Upto(hist', rid),
           \/ TurnFails \/ Crash \/ Boot \/ Booted
           \/ \E p \in Unanswered : CloseOrphan(p)
    PROVE  Control'
<1> USE DEF Control
<1>1. CASE TurnFails
  BY <1>1, EndControl DEF TurnFails, Typed, StoreError
<1>2. CASE Crash
  <2>1. EndTurn /\ waiting' = {} /\ UNCHANGED <<hist, skipped, faults>>
    BY <1>2 DEF Crash
  <2>2. crashes' \in 0..MaxCrashes /\ up' \in BOOLEAN
    <3>1. crashes < MaxCrashes /\ crashes' = crashes + 1 /\ up' = FALSE
      BY <1>2 DEF Crash
    <3>2. crashes \in 0..MaxCrashes
      BY DEF Typed
    <3>3. crashes' \in 0..MaxCrashes
      BY <3>1, <3>2
    <3> QED BY <3>1, <3>3
  <2> QED BY <2>1, <2>2, EndControl DEF Typed
<1>3. CASE Boot
  <2>1. /\ UNCHANGED <<hist, turn, rounds, respVars, toolVars, askVars, cancelled, crashes,
                       faults>>
        /\ phase' \in {"idle", "booting"} /\ up' = TRUE /\ skipped' \in BOOLEAN
    BY <1>3 DEF Boot
  <2>2. phase = "idle"
    BY <1>3 DEF Boot, Phased
  <2>3. Typed'
    BY <2>1 DEF Typed, Phases, respVars, toolVars, askVars
  <2>4. Phased' /\ Prefixed'
    BY <2>1, <2>2 DEF Phased, Prefixed, Started, respVars, toolVars
  <2> QED BY <2>3, <2>4
<1>4. CASE Booted \/ \E p \in Unanswered : CloseOrphan(p)
  <2>1. /\ UNCHANGED <<turn, rounds, respVars, toolVars, askVars, cancelled, envVars>>
        /\ phase = "booting" /\ phase' \in {"idle", "booting"}
    BY <1>4 DEF Booted, CloseOrphan
  <2>2. Typed'
    BY <2>1 DEF Typed, Phases, respVars, toolVars, askVars, envVars
  <2>3. up
    BY <2>1 DEF Phased, Typed
  <2>4. Phased' /\ Prefixed'
    BY <2>1, <2>3 DEF Phased, Prefixed, Started, respVars, toolVars, envVars
  <2> QED BY <2>2, <2>4
<1> QED BY <1>1, <1>2, <1>3, <1>4


LEMMA ControlHolds ==
    ASSUME Control, Next, hist' \in Seq(Stored), Upto(hist', rid)
    PROVE  Control'
BY ToolControl, UserControl, StreamControl, SystemControl DEF Next

-----------------------------------------------------------------------------
(* The calls of the round and their results                                *)

(* What one more entry does to what Grouped and ClearNow speak of.         *)
LEMMA QuietGroups ==
    ASSUME NEW h \in Seq(Stored), NEW e \in Stored, e.kind \notin {"calls", "result"}
    PROVE  /\ CallGroups(Append(h, e)) = CallGroups(h)
           /\ \A r : Results(Append(h, e), r) = Results(h, r)
<1>1. CallGroups(Append(h, e)) = CallGroups(h)
  BY GroupsAppended
<1>2. ASSUME NEW r PROVE Results(Append(h, e), r) = Results(h, r)
  <2>1. Results(Append(h, e), r) =
            Results(h, r) \cup (IF e.kind = "result" /\ e.round = r THEN {e.item} ELSE {})
    BY ResultsAppended
  <2> QED BY <2>1
<1> QED BY <1>1, <1>2

Unmoved(h) ==
    /\ CallGroups(h) = CallGroups(hist)
    /\ \A r : Results(h, r) = Results(hist, r)

(* No message and no calls are stored. *)
Silent(h) == Unmoved(h) /\ (Clear(hist, rid) => Clear(h, rid))

LEMMA UnmovedAppended ==
    ASSUME hist \in Seq(Stored), NEW e \in Stored, e.kind \notin {"calls", "result"}
    PROVE  Unmoved(Append(hist, e))
BY QuietGroups DEF Unmoved

LEMMA SilentAppended ==
    ASSUME rid \in Nat, hist \in Seq(Stored), NEW e \in Stored,
           e.kind \notin {"calls", "result", "user", "steering"}
    PROVE  Silent(Append(hist, e))
<1>1. Unmoved(Append(hist, e))
  BY UnmovedAppended
<1> QED BY <1>1, ClearAppended DEF Silent

LEMMA NoGroupIsClear ==
    ASSUME NEW h \in Seq(Stored), NEW r, \A g \in CallGroups(h) : g[1] # r
    PROVE  Clear(h, r)
<1>1. ASSUME NEW k \in DOMAIN h, h[k].kind = "calls", h[k].round = r PROVE FALSE
  <2>1. <<h[k].round, h[k].item>> \in CallGroups(h)
    BY <1>1 DEF CallGroups
  <2> QED BY <1>1, <2>1
<1> QED BY <1>1 DEF Clear


InRound == {"connecting", "streaming", "ended", "batch", "resting"}

Complete(h) == \A g \in CallGroups(h) : DOMAIN g[2] \ Results(h, g[1]) = {}

(* Four kinds of steps: between rounds, into a round, within a round, and  *)
(* the result of a call.                                                   *)
LEMMA BetweenRounds ==
    ASSUME Unmoved(hist'), phase' \notin InRound,
           crashes' = 0 /\ faults' = 0 => Complete(hist)
    PROVE  Grouped' /\ ClearNow'
BY DEF Grouped, ClearNow, Complete, Unmoved, InRound

LEMMA IntoRound ==
    ASSUME Typed, Unmoved(hist'), hist' \in Seq(Stored), Upto(hist', rid),
           phase' = "connecting", rid' = rid + 1,
           crashes' = 0 /\ faults' = 0 => Complete(hist)
    PROVE  Grouped' /\ ClearNow'
<1>1. ASSUME NEW g \in CallGroups(hist') PROVE g[1] # rid'
  <2>1. PICK n \in DOMAIN hist' : g = <<hist'[n].round, hist'[n].item>>
    BY DEF CallGroups
  <2> QED BY <2>1, UptoNext DEF Typed
<1>2. Clear(hist', rid')
  BY <1>1, NoGroupIsClear
<1>3. crashes' = 0 /\ faults' = 0 =>
          \A g \in CallGroups(hist') : DOMAIN g[2] \ Results(hist', g[1]) = {}
  BY DEF Complete, Unmoved
<1> QED BY <1>1, <1>2, <1>3 DEF Grouped, ClearNow

LEMMA CallsAreSlots ==
    ASSUME Typed PROVE DOMAIN calls \subseteq Slots
BY DEF Typed, Slots

LEMMA WithinRound ==
    ASSUME Typed, Grouped, ClearNow, Silent(hist'), UNCHANGED <<rid, calls>>,
           phase \in {"ended", "batch", "resting"} => 
               \A i \in Slots : stage[i] # "done" => stage'[i] # "done",
           \/ phase \in {"connecting", "streaming"} /\ phase' \in {"connecting", "streaming"}
           \/ phase \in {"ended", "batch", "resting"} /\ phase' \in {"ended", "batch", "resting"},
           crashes' = 0 /\ faults' = 0 => crashes = 0 /\ faults = 0
    PROVE  Grouped' /\ ClearNow'
<1>1. ClearNow'
  BY DEF ClearNow, Silent
<1>2. /\ phase' \in {"connecting", "streaming"} => \A g \in CallGroups(hist') : g[1] # rid'
      /\ phase' \in {"ended", "batch", "resting"} =>
            \A g \in CallGroups(hist') : g[1] = rid' => g[2] = calls'
  BY DEF Grouped, Silent, Unmoved
<1>3. ASSUME crashes' = 0, faults' = 0, NEW g \in CallGroups(hist'),
             NEW i \in DOMAIN g[2] \ Results(hist', g[1])
      PROVE  phase' \in {"ended", "batch", "resting"} /\ g[1] = rid' /\ stage'[i] # "done"
  <2>1. g \in CallGroups(hist) /\ i \in DOMAIN g[2] \ Results(hist, g[1])
    BY <1>3 DEF Silent, Unmoved
  <2>2. phase \in {"ended", "batch", "resting"} /\ g[1] = rid /\ stage[i] # "done"
    BY <1>3, <2>1 DEF Grouped
  <2>3. i \in Slots
    BY <2>1, <2>2, CallsAreSlots DEF Grouped
  <2> QED BY <2>2, <2>3
<1> QED BY <1>1, <1>2, <1>3 DEF Grouped

LEMMA ResultStored ==
    ASSUME Typed, Grouped, ClearNow, NEW i \in Slots,
           phase \in {"batch", "resting"}, UNCHANGED <<phase, rid, calls, crashes>>,
           Move(i, "done"),
           \/ hist' = Append(hist, Entry("result", rid, i)) /\ UNCHANGED faults
           \/ /\ faults' # 0
              /\ hist' \in {hist, Append(hist, Entry("result", rid, i))}
    PROVE  Grouped' /\ ClearNow'
<1> DEFINE e == Entry("result", rid, i)
<1>1. e \in Stored /\ e.kind = "result" /\ e.round = rid /\ e.item = i
  BY EntriesStored DEF Entry, Typed
<1>2. hist \in Seq(Stored) /\ rid \in Nat /\ stage \in [Slots -> Stages]
  BY DEF Typed
<1> HIDE DEF e
<1>3. CallGroups(Append(hist, e)) = CallGroups(hist)
  BY <1>1, <1>2, GroupsAppended
<1>4. Clear(hist, rid) => Clear(Append(hist, e), rid)
  BY <1>1, <1>2, ClearAppended
<1>5. hist' \in {hist, Append(hist, e)}
  BY DEF e
<1>6. ClearNow'
  BY <1>4, <1>5 DEF ClearNow
<1>7. CallGroups(hist') = CallGroups(hist)
  BY <1>3, <1>5
<1>8. ASSUME crashes' = 0, faults' = 0, NEW g \in CallGroups(hist'),
             NEW j \in DOMAIN g[2] \ Results(hist', g[1])
      PROVE  phase' \in {"ended", "batch", "resting"} /\ g[1] = rid' /\ stage'[j] # "done"
  <2>1. hist' = Append(hist, e) /\ crashes = 0 /\ faults = 0
    BY <1>8 DEF e
  <2>2. Results(hist', g[1]) = Results(hist, g[1]) \cup (IF g[1] = rid THEN {i} ELSE {})
    <3>1. Results(hist', g[1]) = Results(hist, g[1])
              \cup (IF e.kind = "result" /\ e.round = g[1] THEN {e.item} ELSE {})
      BY <1>1, <1>2, <2>1, ResultsAppended
    <3> QED BY <1>1, <3>1
  <2>3. j \in DOMAIN g[2] \ Results(hist, g[1]) /\ g \in CallGroups(hist)
    BY <1>7, <1>8, <2>2
  <2>4. g[1] = rid /\ stage[j] # "done" /\ j \in Slots
    BY <2>1, <2>3, CallsAreSlots DEF Grouped
  <2>5. j # i
    BY <1>8, <2>2, <2>4
  <2>6. stage'[j] = stage[j]
    BY <1>2, <2>4, <2>5 DEF Move
  <2> QED BY <2>4, <2>6
<1> QED BY <1>6, <1>7, <1>8 DEF Grouped


LEMMA SameHistory ==
    ASSUME hist' = hist
    PROVE  Silent(hist') /\ Unmoved(hist')
BY DEF Silent, Unmoved

(* Outside a round, and in one before its calls are known, nothing is open. *)
LEMMA NothingOpen ==
    ASSUME Grouped, crashes = 0, faults = 0, phase \notin {"ended", "batch", "resting"}
    PROVE  Complete(hist)
BY DEF Grouped, Complete

LEMMA NothingOpenWhenDone ==
    ASSUME Typed, Phased, Grouped, crashes = 0, faults = 0, phase \in {"ended", "resting"},
           \A i \in DOMAIN calls : stage[i] = "done"
    PROVE  Complete(hist)
BY DEF Grouped, Complete

LEMMA StreamGrouped ==
    ASSUME Control, Grouped, ClearNow, Stream, hist' \in Seq(Stored), Upto(hist', rid)
    PROVE  Grouped' /\ ClearNow'
<1> USE DEF Control
<1>1. UNCHANGED <<crashes, faults>> /\ rid \in Nat /\ hist \in Seq(Stored)
  BY DEF Typed, Stream, BeginRound, Connect, PartStart, PartEnd, ToolCalls, ResponseEnd,
         Interrupted, StopStream, AfterResponse, BatchDrained, BatchDone, Checkpoint, envVars
<1>2. Entry("text", rid, 0) \in Stored /\ Entry("text", rid, 0).kind = "text"
  BY <1>1, EntriesStored DEF Entry
<1>3. hist' = Append(hist, Entry("text", rid, 0)) => Silent(hist')
  <2> DEFINE e == Entry("text", rid, 0)
  <2> HIDE DEF e
  <2>1. e \in Stored /\ e.kind \notin {"calls", "result", "user", "steering"}
    BY <1>2 DEF e
  <2>2. hist' = Append(hist, e) => Silent(hist')
    BY <1>1, <2>1, SilentAppended
  <2> QED BY <2>2 DEF e
<1>4. Flush => Silent(hist')
  BY <1>3, SameHistory DEF Flush
<1>5. CASE BeginRound \/ Interrupted \/ StopStream
  <2>1. Silent(hist') /\ phase \in {"ready", "streaming"}
    BY <1>4, <1>5, SameHistory DEF BeginRound, Interrupted, StopStream
  <2>2. Unmoved(hist')
    BY <2>1 DEF Silent
  <2>3. CASE EndTurn
    BY <1>1, <2>1, <2>2, <2>3, BetweenRounds, NothingOpen DEF EndTurn, InRound
  <2>4. CASE ~EndTurn
    <3>1. phase' = "connecting" /\ rid' = rid + 1
      BY <1>5, <2>4 DEF BeginRound, Interrupted, StopStream
    <3> QED BY <1>1, <2>1, <2>2, <3>1, IntoRound, NothingOpen
  <2> QED BY <2>3, <2>4
<1>6. CASE Connect \/ PartStart \/ PartEnd
  <2>1. Silent(hist') /\ phase \in {"connecting", "streaming"}
    BY <1>3, <1>6, SameHistory DEF Connect, PartStart, PartEnd
  <2>2. CASE EndTurn
    BY <1>1, <2>1, <2>2, BetweenRounds, NothingOpen DEF EndTurn, InRound, Silent
  <2>3. CASE ~EndTurn
    <3>1. phase' \in {"connecting", "streaming"} /\ UNCHANGED <<rid, calls>>
      BY <1>6, <2>3 DEF Connect, PartStart, PartEnd, respVars
    <3> QED BY <1>1, <2>1, <3>1, WithinRound
  <2> QED BY <2>2, <2>3
<1>7. CASE ResponseEnd
  <2>1. hist' = hist /\ phase = "streaming"
    BY <1>7 DEF ResponseEnd
  <2>2. CASE EndTurn
    BY <1>1, <2>1, <2>2, SameHistory, BetweenRounds, NothingOpen DEF EndTurn, InRound
  <2>3. CASE ~EndTurn
    <3>1. phase' = "ended" /\ UNCHANGED <<rid, calls>>
      BY <1>7, <2>3 DEF ResponseEnd, respVars
    <3> QED BY <1>1, <2>1, <3>1 DEF Grouped, ClearNow
  <2> QED BY <2>2, <2>3
<1>8. ASSUME NEW group \in Groups, ToolCalls(group) PROVE Grouped' /\ ClearNow'
  <2> DEFINE e == Entry("calls", rid, group)
  <2>1. /\ phase = "streaming" /\ phase' = "ended" /\ calls' = group
        /\ UNCHANGED <<rid, stage>>
    BY <1>8 DEF ToolCalls, toolVars
  <2>2. e \in Stored /\ e.kind = "calls" /\ e.round = rid /\ e.item = group
    BY <1>1, EntriesStored DEF Entry
  <2>3. hist' = Append(hist, e)
    BY <1>8 DEF ToolCalls
  <2> HIDE DEF e
  <2>4. CallGroups(hist') = CallGroups(hist) \cup {<<rid, group>>}
    BY <1>1, <2>2, <2>3, GroupsAppended
  <2>5. ASSUME NEW r PROVE Results(hist', r) = Results(hist, r)
    <3>1. Results(hist', r) =
              Results(hist, r) \cup (IF e.kind = "result" /\ e.round = r THEN {e.item} ELSE {})
      BY <1>1, <2>2, <2>3, ResultsAppended
    <3> QED BY <2>2, <3>1
  <2>6. \A g \in CallGroups(hist) : g[1] # rid
    BY <2>1 DEF Grouped
  <2>7. ClearNow'
    <3>1. Clear(hist, rid)
      BY <1>1, <2>6, NoGroupIsClear
    <3>2. Clear(hist', rid)
      BY <1>1, <2>2, <2>3, <3>1, ClearAppended
    <3> QED BY <2>1, <3>2 DEF ClearNow
  <2>8. \A i \in DOMAIN group : stage'[i] # "done"
    <3>1. DOMAIN group \subseteq Slots
      BY DEF Groups, Slots
    <3> QED BY <2>1, <3>1 DEF Phased
  <2>9. ASSUME crashes' = 0, faults' = 0, NEW g \in CallGroups(hist'),
               NEW i \in DOMAIN g[2] \ Results(hist', g[1])
        PROVE  g[1] = rid /\ stage'[i] # "done"
    <3>1. CASE g \in CallGroups(hist)
      BY <1>1, <2>1, <2>5, <2>9, <3>1 DEF Grouped
    <3>2. CASE g = <<rid, group>>
      BY <2>8, <2>9, <3>2
    <3> QED BY <2>4, <3>1, <3>2
  <2> QED BY <2>1, <2>4, <2>6, <2>7, <2>9 DEF Grouped
<1>9. CASE AfterResponse
  <2>1. /\ phase = "ended" /\ UNCHANGED <<hist, rid, calls, stage>>
        /\ phase' \in {"resting", "batch", "closing"}
        /\ phase' = "closing" => calls = <<>>
    BY <1>9 DEF AfterResponse, respVars, toolVars
  <2>2. CASE phase' = "closing"
    BY <1>1, <2>1, <2>2, SameHistory, BetweenRounds, NothingOpenWhenDone DEF InRound
  <2>3. CASE phase' # "closing"
    BY <1>1, <2>1, <2>3, SameHistory, WithinRound
  <2> QED BY <2>2, <2>3
<1>10. CASE BatchDrained
  <2>1. phase = "batch" /\ phase' = "resting" /\ UNCHANGED <<hist, rid, calls, stage>>
    BY <1>10 DEF BatchDrained, respVars, toolVars
  <2> QED BY <1>1, <2>1, SameHistory, WithinRound
<1>11. CASE BatchDone
  <2>1. /\ phase = "resting" /\ phase' \in {"idle", "steering"} /\ hist' = hist
        /\ Started = DOMAIN calls
    BY <1>11 DEF BatchDone, EndTurn
  <2>2. \A i \in DOMAIN calls : stage[i] = "done"
    <3>1. ASSUME NEW i \in DOMAIN calls PROVE stage[i] = "done"
      <4>1. i \in Slots /\ i \in Started
        BY <2>1, CallsAreSlots
      <4> QED BY <2>1, <4>1 DEF Phased, Started
    <3> QED BY <3>1
  <2> QED BY <1>1, <2>1, <2>2, SameHistory, BetweenRounds, NothingOpenWhenDone DEF InRound
<1>12. CASE Checkpoint
  <2> DEFINE e == Entry("steering", 0, 0)
  <2>1. /\ phase \in {"steering", "closing"} /\ phase' \in {"idle", "ready"}
        /\ hist' \in {hist, Append(hist, e)}
    BY <1>12 DEF Checkpoint, EndTurn
  <2>2. e \in Stored /\ e.kind = "steering"
    BY <1>1, EntriesStored DEF Entry
  <2> HIDE DEF e
  <2>3. Unmoved(hist')
    <3>1. CASE hist' = hist
      BY <3>1, SameHistory
    <3>2. CASE hist' = Append(hist, e)
      BY <1>1, <2>2, <3>2, UnmovedAppended
    <3> QED BY <2>1, <3>1, <3>2
  <2> QED BY <1>1, <2>1, <2>3, BetweenRounds, NothingOpen DEF InRound
<1> QED BY <1>5, <1>6, <1>7, <1>8, <1>9, <1>10, <1>11, <1>12 DEF Stream


LEMMA ToolGrouped ==
    ASSUME Control, Grouped, ClearNow, NEW i \in Slots, Tool(i) \/ ToolAsk(i) \/ Timeout(i)
    PROVE  Grouped' /\ ClearNow'
<1> USE DEF Control
<1>1. /\ UNCHANGED <<rid, calls, phase, crashes>>
      /\ rid \in Nat /\ hist \in Seq(Stored) /\ stage \in [Slots -> Stages]
      /\ faults' \in {faults, faults + 1} /\ faults \in Nat
  <2>1. UNCHANGED <<rid, calls, phase, crashes>>
    BY DEF Tool, ToolAsk, Timeout, StartCall, Gate, PermissionHook, AskApproval,
           GateWakes, ToolWakes, Finish, PersistResult, CancelPending, respVars, envVars
  <2>2. faults' \in {faults, faults + 1}
    BY DEF Tool, ToolAsk, Timeout, StartCall, Gate, PermissionHook, AskApproval, StoreError,
           GateWakes, ToolWakes, Finish, PersistResult, CancelPending, envVars, Ask, Close
  <2>3. faults \in Nat
    BY DEF Typed
  <2> QED BY <2>1, <2>2, <2>3 DEF Typed
<1>2. ASSUME NEW p \in Prompt PROVE
         /\ Silent(Append(hist, Entry("request", 0, p)))
         /\ Silent(Append(hist, Entry("response", 0, p)))
         /\ Silent(hist \o <<Entry("request", 0, p), Entry("response", 0, p)>>)
  <2> DEFINE a == Entry("request", 0, p)
             b == Entry("response", 0, p)
             h == Append(hist, a)
  <2>1. a \in Stored /\ b \in Stored
    BY EntriesStored
  <2>2. a.kind = "request" /\ b.kind = "response"
    BY DEF Entry
  <2>3. hist \o <<a, b>> = Append(h, b)
    BY <1>1, <2>1, TwoAppended
  <2> HIDE DEF a, b
  <2>4. h \in Seq(Stored)
    BY <1>1, <2>1
  <2>5. Silent(h) /\ Silent(Append(hist, b))
    BY <1>1, <2>1, <2>2, SilentAppended
  <2> HIDE DEF h
  <2>6. Unmoved(Append(h, b))
    BY <2>1, <2>2, <2>4, <2>5, QuietGroups DEF Unmoved, Silent
  <2>7. Clear(hist, rid) => Clear(Append(h, b), rid)
    BY <1>1, <2>1, <2>2, <2>4, <2>5, ClearAppended DEF Silent
  <2> QED BY <2>3, <2>5, <2>6, <2>7 DEF Silent, a, b, h
<1>3. CASE ~PersistResult(i) /\ ~CancelPending(i)
  <2>1. Silent(hist')
    BY <1>1, <1>2, <1>3, PromptsTyped, SameHistory
       DEF Tool, ToolAsk, Timeout, StartCall, Gate, PermissionHook, AskApproval,
           GateWakes, ToolWakes, Finish, Ask, Close
  <2>2. phase = "batch"
    BY <1>3, FuturesInBatch DEF Tool, ToolAsk, Timeout, StartCall, Gate, PermissionHook,
           AskApproval, GateWakes, ToolWakes, Finish
  <2>3. \E s \in Stages : s # "done" /\ Move(i, s)
    BY <1>3 DEF Tool, ToolAsk, Timeout, StartCall, Gate, PermissionHook, AskApproval,
           GateWakes, ToolWakes, Finish, Ask, Stages
  <2>4. \A j \in Slots : stage[j] # "done" => stage'[j] # "done"
    BY <1>1, <2>3 DEF Move
  <2>5. crashes' = 0 /\ faults' = 0 => crashes = 0 /\ faults = 0
    BY <1>1
  <2> QED BY <1>1, <2>1, <2>2, <2>4, <2>5, WithinRound
<1>4. CASE PersistResult(i)
  <2>1. stage[i] = "settled" /\ Move(i, "done")
    BY <1>4 DEF PersistResult
  <2>2. phase = "batch"
    BY <2>1, FuturesInBatch
  <2>3. \/ hist' = Append(hist, Entry("result", rid, i)) /\ UNCHANGED faults
        \/ faults' # 0 /\ hist' \in {hist, Append(hist, Entry("result", rid, i))}
    BY <1>1, <1>4 DEF PersistResult, StoreError
  <2> QED BY <1>1, <2>1, <2>2, <2>3, ResultStored
<1>5. CASE CancelPending(i)
  BY <1>1, <1>5, ResultStored DEF CancelPending, envVars
<1> QED BY <1>3, <1>4, <1>5

LEMMA OtherGrouped ==
    ASSUME Control, Grouped, ClearNow,
           \/ User \/ TurnFails \/ Crash \/ Boot \/ Booted
           \/ \E p \in Unanswered : CloseOrphan(p)
    PROVE  Grouped' /\ ClearNow'
<1> USE DEF Control
<1>1. rid \in Nat /\ hist \in Seq(Stored) /\ crashes \in Nat /\ faults \in Nat
  BY DEF Typed
<1>2. CASE StartTurn
  <2> DEFINE e == Entry("user", 0, 0)
  <2>1. phase = "idle" /\ phase' = "ready" /\ hist' = Append(hist, e) /\ UNCHANGED <<crashes, faults>>
    BY <1>2 DEF StartTurn, envVars
  <2>2. e \in Stored /\ e.kind = "user"
    BY <1>1, EntriesStored DEF Entry
  <2> HIDE DEF e
  <2>3. Unmoved(hist')
    BY <1>1, <2>1, <2>2, UnmovedAppended
  <2> QED BY <2>1, <2>3, BetweenRounds, NothingOpen DEF InRound
<1>3. CASE CancelTurn \/ \E p \in waiting, d \in Decisions : AnswerInteraction(p, d)
  BY <1>3 DEF CancelTurn, AnswerInteraction, Grouped, ClearNow, respVars, toolVars, envVars
<1>4. CASE TurnFails \/ Crash
  <2>1. Unmoved(hist') /\ phase' = "idle"
    BY <1>4, SameHistory DEF TurnFails, Crash, EndTurn
  <2>2. ~(crashes' = 0 /\ faults' = 0)
    BY <1>1, <1>4 DEF TurnFails, Crash, StoreError
  <2> QED BY <2>1, <2>2, BetweenRounds DEF InRound
<1>5. CASE Boot \/ Booted
  <2>1. /\ Unmoved(hist') /\ phase' \in {"idle", "booting"} /\ phase \in {"idle", "booting"}
        /\ UNCHANGED <<crashes, faults>>
    BY <1>5, SameHistory DEF Boot, Booted, envVars, Phased
  <2> QED BY <2>1, BetweenRounds, NothingOpen DEF InRound
<1>6. ASSUME NEW p \in Unanswered, CloseOrphan(p) PROVE Grouped' /\ ClearNow'
  <2> DEFINE e == Entry("response", 0, p)
  <2>1. hist' = Append(hist, e) /\ phase = "booting" /\ phase' = "booting" /\ UNCHANGED <<crashes, faults>>
    BY <1>6 DEF CloseOrphan, envVars
  <2>2. p \in Prompt
    <3>1. PICK n \in DOMAIN hist : hist[n].kind = "request" /\ hist[n].item = p
      BY DEF Unanswered, ItemsOf
    <3>2. hist[n] \in Stored
      BY <1>1
    <3> QED BY <3>1, <3>2, StoredFields
  <2>3. e \in Stored /\ e.kind = "response"
    BY <2>2, EntriesStored DEF Entry
  <2> HIDE DEF e
  <2>4. Unmoved(hist')
    BY <1>1, <2>1, <2>3, UnmovedAppended
  <2> QED BY <2>1, <2>4, BetweenRounds, NothingOpen DEF InRound
<1> QED BY <1>2, <1>3, <1>4, <1>5, <1>6 DEF User

LEMMA GroupedHolds ==
    ASSUME Control, Grouped, ClearNow, Next, hist' \in Seq(Stored), Upto(hist', rid)
    PROVE  Grouped' /\ ClearNow'
BY StreamGrouped, ToolGrouped, OtherGrouped DEF Next


-----------------------------------------------------------------------------
(* The prompts                                                             *)

LEMMA UnansweredViews ==
    /\ Unanswered = ItemsIn(hist, "request") \ ItemsIn(hist, "response")
    /\ Unanswered' = ItemsIn(hist', "request") \ ItemsIn(hist', "response")
BY DEF Unanswered, ItemsOf, ItemsIn

SamePrompts ==
    /\ ItemsIn(hist', "request") = ItemsIn(hist, "request")
    /\ ItemsIn(hist', "response") = ItemsIn(hist, "response")

LEMMA RequestsArePrompts ==
    ASSUME NEW h \in Seq(Stored)
    PROVE  ItemsIn(h, "request") \subseteq Prompt /\ ItemsIn(h, "response") \subseteq Prompt
<1>1. ASSUME NEW n \in DOMAIN h, h[n].kind \in {"request", "response"} PROVE h[n].item \in Prompt
  <2>1. h[n] \in Stored
    OBVIOUS
  <2> QED BY <1>1, <2>1, StoredFields
<1> QED BY <1>1 DEF ItemsIn

LEMMA PlainPrompts ==
    ASSUME hist \in Seq(Stored), NEW e \in Stored, e.kind \notin {"request", "response"},
           hist' \in {hist, Append(hist, e)}
    PROVE  SamePrompts
<1>1. CASE hist' = hist
  BY <1>1 DEF SamePrompts
<1>2. CASE hist' = Append(hist, e)
  <2>1. ItemsIn(Append(hist, e), "request") =
            ItemsIn(hist, "request") \cup (IF e.kind = "request" THEN {e.item} ELSE {})
    BY ItemsAppended
  <2>2. ItemsIn(Append(hist, e), "response") =
            ItemsIn(hist, "response") \cup (IF e.kind = "response" THEN {e.item} ELSE {})
    BY ItemsAppended
  <2> QED BY <1>2, <2>1, <2>2 DEF SamePrompts
<1> QED BY <1>1, <1>2

AtRest == \A i \in Slots : stage[i] \in {"unstarted", "done"}

(* Nobody waits outside a batch. *)
LEMMA NobodyAsks ==
    ASSUME AtRest, NEW p \in Prompt
    PROVE  ~Awaited(p)
BY DEF AtRest, Awaited, Prompt

(* The steps of the task outside the batch, and its end. *)
LEMMA TaskPrompts ==
    ASSUME Typed, Prompted, OpenAwaited, SamePrompts, AtRest',
           faults' = 0 => /\ faults = 0
                          /\ \/ ~up'
                             \/ phase # "booting" /\ AtRest /\ UNCHANGED <<up, skipped>>,
           phase' \in {"connecting", "streaming", "ended", "batch"} =>
               \/ /\ phase \in {"connecting", "streaming", "ended"} /\ rid' = rid
                  /\ \A i \in Slots : stage[i] = "unstarted"
               \/ \A p \in ItemsIn(hist, "request") : p.round # rid'
    PROVE  Prompted' /\ OpenAwaited'
<1>1. ItemsIn(hist', "response") \subseteq ItemsIn(hist', "request")
  BY DEF Prompted, SamePrompts
<1>2. ASSUME phase' \in {"connecting", "streaming", "ended", "batch"}, NEW i \in Slots
      PROVE  GatePrompt(i)' \notin ItemsIn(hist', "request")
  <2>1. CASE /\ phase \in {"connecting", "streaming", "ended"} /\ rid' = rid
             /\ \A j \in Slots : stage[j] = "unstarted"
    BY <2>1 DEF Prompted, SamePrompts, GatePrompt
  <2>2. CASE \A p \in ItemsIn(hist, "request") : p.round # rid'
    BY <2>2 DEF SamePrompts, GatePrompt
  <2> QED BY <1>2, <2>1, <2>2
<1>3. Prompted'
  BY <1>1, <1>2 DEF Prompted, AtRest
<1>4. ASSUME faults' = 0, NEW p \in Unanswered' PROVE Excused(p)'
  <2>1. p \in Unanswered /\ p \in Prompt
    BY <1>4, UnansweredViews, RequestsArePrompts DEF SamePrompts, Typed
  <2>2. CASE ~up'
    BY <2>2 DEF Excused
  <2>3. CASE phase # "booting" /\ AtRest /\ UNCHANGED <<up, skipped>>
    <3>1. Excused(p)
      BY <1>4, <2>1, <2>3, NobodyAsks DEF OpenAwaited
    <3> QED BY <2>3, <3>1 DEF Excused
  <2> QED BY <1>4, <2>2, <2>3
<1> QED BY <1>3, <1>4 DEF OpenAwaited

(* The future of call i moves, and nothing happens to the other prompts. *)
LEMMA CallPrompts ==
    ASSUME Typed, Prompted, OpenAwaited, NEW i \in Slots, NEW s \in Stages, Move(i, s),
           phase = "batch", UNCHANGED <<phase, rid, up, skipped>>,
           faults' = 0 => faults = 0,
           NEW p \in Prompt, p.round = rid, p.call = i,
           ItemsIn(hist', "request") \in {ItemsIn(hist, "request"),
                                          ItemsIn(hist, "request") \cup {p}},
           ItemsIn(hist', "response") \in {ItemsIn(hist, "response"),
                                           ItemsIn(hist, "response") \cup {p}},
           ItemsIn(hist', "response") \subseteq ItemsIn(hist', "request"),
           s \in {"unstarted", "gating", "ungranted", "queued"} =>
               GatePrompt(i) \notin ItemsIn(hist', "request"),
           s = "asking" => GatePrompt(i) \in Unanswered',
           s = "toolasking" => ToolPrompt(i) \in Unanswered',
           faults' = 0 =>
               \A q \in {GatePrompt(i), ToolPrompt(i)} \cap Unanswered' : Awaited(q)' \/ Excused(q)
    PROVE  Prompted' /\ OpenAwaited'
<1>1. /\ stage \in [Slots -> Stages]
      /\ stage'[i] = s
      /\ \A j \in Slots : j # i => stage'[j] = stage[j]
  BY DEF Typed, Move
<1>2. ASSUME NEW j \in Slots PROVE GatePrompt(j)' = GatePrompt(j) /\ ToolPrompt(j)' = ToolPrompt(j)
  BY DEF GatePrompt, ToolPrompt
<1>3. ASSUME NEW j \in Slots, j # i PROVE GatePrompt(j) # p /\ ToolPrompt(j) # p
  BY <1>3 DEF GatePrompt, ToolPrompt
<1>4. ASSUME NEW j \in Slots, stage'[j] \in {"unstarted", "gating", "ungranted", "queued"}
      PROVE  GatePrompt(j) \notin ItemsIn(hist', "request")
  BY <1>1, <1>3, <1>4 DEF Prompted
<1>5. ASSUME NEW j \in Slots
      PROVE  /\ stage'[j] = "asking" => GatePrompt(j) \in Unanswered'
             /\ stage'[j] = "toolasking" => ToolPrompt(j) \in Unanswered'
  <2>1. CASE j = i
    BY <1>1, <2>1
  <2>2. CASE j # i
    BY <1>1, <1>3, <2>2, UnansweredViews DEF Prompted
  <2> QED BY <2>1, <2>2
<1>6. Prompted'
  BY <1>2, <1>4, <1>5 DEF Prompted
<1>7. ASSUME faults' = 0, NEW q \in Unanswered' PROVE Awaited(q)' \/ Excused(q)'
  <2>1. Excused(q) => Excused(q)'
    BY DEF Excused
  <2>2. CASE q \in {GatePrompt(i), ToolPrompt(i)}
    BY <1>7, <2>1, <2>2
  <2>3. CASE q \notin {GatePrompt(i), ToolPrompt(i)}
    <3>1. p \in {GatePrompt(i), ToolPrompt(i)}
      BY DEF Prompt, GatePrompt, ToolPrompt
    <3>2. q \in Unanswered /\ q \in Prompt
      BY <2>3, <3>1, UnansweredViews, RequestsArePrompts DEF Typed
    <3>3. Awaited(q) \/ Excused(q)
      BY <1>7, <3>2 DEF OpenAwaited
    <3>4. q.round = rid => q.call # i
      BY <2>3, <3>2 DEF Prompt, GatePrompt, ToolPrompt
    <3>5. Awaited(q) => Awaited(q)'
      BY <1>1, <3>2, <3>4 DEF Awaited, Prompt
    <3> QED BY <2>1, <3>3, <3>5
  <2> QED BY <2>2, <2>3
<1> QED BY <1>6, <1>7 DEF OpenAwaited


LEMMA RestOutside ==
    ASSUME Typed, Phased
    PROVE  /\ phase # "batch" \/ InFlight = {} => AtRest
           /\ phase \in {"connecting", "streaming", "ended"} =>
                 AtRest /\ \A i \in Slots : stage[i] = "unstarted"
<1>1. ASSUME InFlight = {}, NEW i \in Slots, stage[i] \notin {"unstarted", "done"} PROVE FALSE
  BY <1>1, FuturesInBatch DEF InFlight, Started
<1> QED BY <1>1 DEF Phased, AtRest

LEMMA StreamPrompts ==
    ASSUME Control, Prompted, OpenAwaited, Stream, Control', Upto(hist', rid), hist' \in Seq(Stored)
    PROVE  Prompted' /\ OpenAwaited'
<1> USE DEF Control
<1>1. /\ UNCHANGED <<up, skipped, faults>> /\ phase # "booting"
      /\ rid \in Nat /\ hist \in Seq(Stored)
  BY DEF Typed, Stream, BeginRound, Connect, PartStart, PartEnd, ToolCalls, ResponseEnd,
         Interrupted, StopStream, AfterResponse, BatchDrained, BatchDone, Checkpoint, envVars
<1>2. SamePrompts
  <2>1. ASSUME NEW e \in Stored, e.kind \notin {"request", "response"},
               hist' \in {hist, Append(hist, e)}
        PROVE  SamePrompts
    BY <1>1, <2>1, PlainPrompts
  <2>2. /\ Entry("text", rid, 0) \in Stored /\ Entry("text", rid, 0).kind = "text"
        /\ Entry("steering", 0, 0) \in Stored /\ Entry("steering", 0, 0).kind = "steering"
    BY <1>1, EntriesStored DEF Entry
  <2>3. ASSUME NEW group \in Groups
        PROVE  /\ Entry("calls", rid, group) \in Stored
               /\ Entry("calls", rid, group).kind = "calls"
    BY <1>1, EntriesStored DEF Entry
  <2>4. CASE \E group \in Groups : ToolCalls(group)
    BY <2>1, <2>3, <2>4 DEF ToolCalls
  <2>5. CASE ~\E group \in Groups : ToolCalls(group)
    <3>1. hist' \in {hist, Append(hist, Entry("text", rid, 0)), Append(hist, Entry("steering", 0, 0))}
      BY <2>5 DEF Stream, BeginRound, Connect, PartStart, PartEnd, ResponseEnd, Flush,
         Interrupted, StopStream, AfterResponse, BatchDrained, BatchDone, Checkpoint
    <3> QED BY <2>1, <2>2, <3>1
  <2> QED BY <2>4, <2>5
<1>3. AtRest
  <2>1. phase # "batch" \/ InFlight = {}
    BY DEF Stream, BeginRound, Connect, PartStart, PartEnd, ToolCalls, ResponseEnd,
         Interrupted, StopStream, AfterResponse, BatchDrained, BatchDone, Checkpoint
  <2> QED BY <2>1, RestOutside
<1>4. AtRest'
  <2>1. CASE phase' # "batch"
    BY <2>1 DEF AtRest, Phased
  <2>2. CASE phase' = "batch"
    <3>1. UNCHANGED stage
      BY <2>2 DEF Stream, BeginRound, Connect, PartStart, PartEnd, ToolCalls, ResponseEnd, EndTurn,
         Interrupted, StopStream, AfterResponse, BatchDrained, BatchDone, Checkpoint, toolVars
    <3> QED BY <1>3, <3>1 DEF AtRest
  <2> QED BY <2>1, <2>2
<1>5. ASSUME phase' \in {"connecting", "streaming", "ended", "batch"}
      PROVE  \/ /\ phase \in {"connecting", "streaming", "ended"} /\ rid' = rid
                /\ \A i \in Slots : stage[i] = "unstarted"
             \/ \A p \in ItemsIn(hist, "request") : p.round # rid'
  <2>1. CASE BeginRound \/ Interrupted
    <3>1. rid' = rid + 1
      BY <1>5, <2>1 DEF BeginRound, Interrupted, EndTurn
    <3> QED BY <1>1, <3>1, UptoNext DEF Typed
  <2>2. CASE ~(BeginRound \/ Interrupted)
    <3>1. phase \in {"connecting", "streaming", "ended"} /\ rid' = rid
      BY <1>5, <2>2 DEF Stream, Connect, PartStart, PartEnd, ToolCalls, ResponseEnd, EndTurn,
         StopStream, AfterResponse, BatchDrained, BatchDone, Checkpoint, respVars
    <3> QED BY <3>1, RestOutside
  <2> QED BY <2>1, <2>2
<1> QED BY <1>1, <1>2, <1>3, <1>4, <1>5, TaskPrompts

LEMMA OtherPrompts ==
    ASSUME Control, Prompted, OpenAwaited, Control', HistoryFine(hist'),
           \/ User \/ TurnFails \/ Crash \/ Boot \/ Booted
           \/ \E p \in Unanswered : CloseOrphan(p)
    PROVE  Prompted' /\ OpenAwaited'
<1> USE DEF Control
<1>1. rid \in Nat /\ hist \in Seq(Stored) /\ faults \in Nat
  BY DEF Typed
<1>2. hist' = hist => SamePrompts
  BY DEF SamePrompts
<1>3. CASE StartTurn
  <2> DEFINE e == Entry("user", 0, 0)
  <2>1. /\ phase = "idle" /\ phase' = "ready" /\ hist' = Append(hist, e)
        /\ UNCHANGED <<up, skipped, faults>>
    BY <1>3 DEF StartTurn, envVars
  <2>2. e \in Stored /\ e.kind = "user"
    BY <1>1, EntriesStored DEF Entry
  <2> HIDE DEF e
  <2>3. SamePrompts
    BY <1>1, <2>1, <2>2, PlainPrompts
  <2>4. AtRest /\ AtRest'
    BY <2>1 DEF AtRest, Phased
  <2> QED BY <2>1, <2>3, <2>4, TaskPrompts
<1>4. CASE CancelTurn \/ \E p \in waiting, d \in Decisions : AnswerInteraction(p, d)
  <2>1. UNCHANGED <<hist, phase, rid, stage, up, skipped, faults>>
    BY <1>4 DEF CancelTurn, AnswerInteraction, respVars, toolVars, envVars
  <2> QED BY <2>1 DEF Prompted, OpenAwaited, GatePrompt, ToolPrompt, Unanswered, ItemsOf, Awaited,
                      Excused
<1>5. CASE TurnFails \/ Crash
  <2>1. hist' = hist /\ phase' = "idle"
    BY <1>5 DEF TurnFails, Crash, EndTurn
  <2>2. faults' = 0 => faults = 0 /\ ~up'
    BY <1>1, <1>5 DEF TurnFails, Crash, StoreError
  <2>3. AtRest'
    BY <2>1 DEF AtRest, Phased
  <2> QED BY <1>2, <2>1, <2>2, <2>3, TaskPrompts
<1>6. CASE Boot \/ Booted \/ \E p \in Unanswered : CloseOrphan(p)
  <2>1. phase \in {"idle", "booting"} /\ phase' \in {"idle", "booting"}
    BY <1>6 DEF Boot, Booted, CloseOrphan, Phased
  <2>2. AtRest'
    BY <2>1 DEF AtRest, Phased
  <2>3. Prompted'
    BY <2>1, <2>2 DEF Prompted, AtRest, HistoryFine
  <2>4. skipped' \/ phase' = "booting" \/ Unanswered' = {}
    BY <1>6 DEF Boot, Booted, CloseOrphan, Unanswered, ItemsOf
  <2> QED BY <2>3, <2>4 DEF OpenAwaited, Excused
<1> QED BY <1>3, <1>4, <1>5, <1>6 DEF User


LEMMA PromptEntry ==
    ASSUME hist \in Seq(Stored), NEW p \in Prompt
    PROVE  /\ ItemsIn(Append(hist, Entry("request", 0, p)), "request") =
                  ItemsIn(hist, "request") \cup {p}
           /\ ItemsIn(Append(hist, Entry("request", 0, p)), "response") =
                  ItemsIn(hist, "response")
           /\ ItemsIn(Append(hist, Entry("response", 0, p)), "request") =
                  ItemsIn(hist, "request")
           /\ ItemsIn(Append(hist, Entry("response", 0, p)), "response") =
                  ItemsIn(hist, "response") \cup {p}
           /\ LET h == hist \o <<Entry("request", 0, p), Entry("response", 0, p)>>
              IN  /\ ItemsIn(h, "request") = ItemsIn(hist, "request") \cup {p}
                  /\ ItemsIn(h, "response") = ItemsIn(hist, "response") \cup {p}
<1> DEFINE a == Entry("request", 0, p)
           b == Entry("response", 0, p)
           h == Append(hist, a)
<1>1. a \in Stored /\ b \in Stored
  BY EntriesStored
<1>2. a.kind = "request" /\ b.kind = "response" /\ a.item = p /\ b.item = p
  BY DEF Entry
<1>3. hist \o <<a, b>> = Append(h, b)
  BY <1>1, TwoAppended
<1> HIDE DEF a, b
<1>4. h \in Seq(Stored)
  BY <1>1
<1> HIDE DEF h
<1>5. ASSUME NEW g \in Seq(Stored)
      PROVE  /\ ItemsIn(Append(g, a), "request") = ItemsIn(g, "request") \cup {p}
             /\ ItemsIn(Append(g, a), "response") = ItemsIn(g, "response")
  <2>1. ItemsIn(Append(g, a), "request") =
            ItemsIn(g, "request") \cup (IF a.kind = "request" THEN {a.item} ELSE {})
    BY <1>1, ItemsAppended
  <2>2. ItemsIn(Append(g, a), "response") =
            ItemsIn(g, "response") \cup (IF a.kind = "response" THEN {a.item} ELSE {})
    BY <1>1, ItemsAppended
  <2> QED BY <1>2, <2>1, <2>2
<1>6. ASSUME NEW g \in Seq(Stored)
      PROVE  /\ ItemsIn(Append(g, b), "request") = ItemsIn(g, "request")
             /\ ItemsIn(Append(g, b), "response") = ItemsIn(g, "response") \cup {p}
  <2>1. ItemsIn(Append(g, b), "request") =
            ItemsIn(g, "request") \cup (IF b.kind = "request" THEN {b.item} ELSE {})
    BY <1>1, ItemsAppended
  <2>2. ItemsIn(Append(g, b), "response") =
            ItemsIn(g, "response") \cup (IF b.kind = "response" THEN {b.item} ELSE {})
    BY <1>1, ItemsAppended
  <2> QED BY <1>2, <2>1, <2>2
<1>7. /\ ItemsIn(h, "request") = ItemsIn(hist, "request") \cup {p}
      /\ ItemsIn(h, "response") = ItemsIn(hist, "response")
  BY <1>5 DEF h
<1>8. /\ ItemsIn(Append(h, b), "request") = ItemsIn(hist, "request") \cup {p}
      /\ ItemsIn(Append(h, b), "response") = ItemsIn(hist, "response") \cup {p}
  BY <1>4, <1>6, <1>7
<1> QED BY <1>3, <1>6, <1>7, <1>8 DEF a, b, h

(* What is the case after ask, however it ends. *)
LEMMA AskedPrompts ==
    ASSUME Typed, Phased, Prompted, OpenAwaited, HistoryFine(hist'), NEW i \in Slots,
           UNCHANGED <<phase, rid, up, skipped>>,
           NEW p \in {GatePrompt(i), ToolPrompt(i)}, p \notin ItemsIn(hist, "request"),
           NEW asking \in Stages, NEW unasked \in {"settled", "running"},
           stage[i] \in {"queued", "running"},
           asking = IF p = GatePrompt(i) THEN "asking" ELSE "toolasking",
           Ask(p, i, asking, unasked)
    PROVE  Prompted' /\ OpenAwaited'
<1>1. /\ rid \in Nat /\ hist \in Seq(Stored) /\ faults \in Nat /\ stage \in [Slots -> Stages]
      /\ p \in Prompt /\ p.round = rid /\ p.call = i
      /\ GatePrompt(i) \in Prompt /\ ToolPrompt(i) \in Prompt
  BY PromptsTyped DEF Typed, GatePrompt, ToolPrompt
<1>2. GatePrompt(i) # ToolPrompt(i)
  BY DEF GatePrompt, ToolPrompt
<1>3. phase = "batch"
  BY FuturesInBatch
<1>4. ItemsIn(hist', "response") \subseteq ItemsIn(hist', "request")
  BY DEF HistoryFine
<1>5. ASSUME NEW q \in {GatePrompt(i), ToolPrompt(i)}, q \in Unanswered, faults = 0
      PROVE  Excused(q)
  <2>1. ~Awaited(q)
    BY DEF Awaited, GatePrompt, ToolPrompt
  <2> QED BY <1>5, <2>1 DEF OpenAwaited
<1>6. p \notin ItemsIn(hist, "response")
  BY DEF Prompted
<1>7. CASE /\ hist' = Append(hist, Entry("request", 0, p))
           /\ Move(i, asking) /\ UNCHANGED faults
  <2>1. /\ ItemsIn(hist', "request") = ItemsIn(hist, "request") \cup {p}
        /\ ItemsIn(hist', "response") = ItemsIn(hist, "response")
    BY <1>1, <1>7, PromptEntry
  <2>2. p \in Unanswered'
    BY <1>6, <2>1, UnansweredViews
  <2>3. stage'[i] = asking
    BY <1>1, <1>7 DEF Move
  <2>4. p.by = IF p = GatePrompt(i) THEN "gate" ELSE "tool"
    BY <1>2 DEF GatePrompt, ToolPrompt
  <2>5. Awaited(p)'
    BY <1>1, <2>3, <2>4 DEF Awaited
  <2>6. ASSUME faults' = 0, NEW q \in {GatePrompt(i), ToolPrompt(i)} \cap Unanswered'
        PROVE  Awaited(q)' \/ Excused(q)
    <3>1. CASE q = p
      BY <2>5, <3>1
    <3>2. CASE q # p
      <4>1. q \in Unanswered
        BY <2>1, <2>6, <3>2, UnansweredViews
      <4> QED BY <1>5, <1>7, <2>6, <4>1
    <3> QED BY <3>1, <3>2
  <2>7. asking \notin {"unstarted", "gating", "ungranted", "queued"}
    OBVIOUS
  <2> QED BY <1>1, <1>2, <1>3, <1>4, <1>7, <2>1, <2>2, <2>6, <2>7, CallPrompts
<1>8. CASE /\ hist' = hist \o <<Entry("request", 0, p), Entry("response", 0, p)>>
           /\ Move(i, unasked) /\ UNCHANGED faults
  <2>1. /\ ItemsIn(hist', "request") = ItemsIn(hist, "request") \cup {p}
        /\ ItemsIn(hist', "response") = ItemsIn(hist, "response") \cup {p}
    BY <1>1, <1>8, PromptEntry
  <2>2. ASSUME faults' = 0, NEW q \in {GatePrompt(i), ToolPrompt(i)} \cap Unanswered'
        PROVE  Awaited(q)' \/ Excused(q)
    <3>1. q \in Unanswered
      BY <2>1, <2>2, UnansweredViews
    <3> QED BY <1>5, <1>8, <2>2, <3>1
  <2>3. unasked \in Stages
    BY DEF Stages
  <2> QED BY <1>1, <1>3, <1>4, <1>8, <2>1, <2>2, <2>3, CallPrompts
<1>9. CASE /\ hist' \in {hist, Append(hist, Entry("request", 0, p))}
           /\ Move(i, unasked) /\ faults' = faults + 1
  <2>1. /\ ItemsIn(hist', "request") \in {ItemsIn(hist, "request"),
                                          ItemsIn(hist, "request") \cup {p}}
        /\ ItemsIn(hist', "response") = ItemsIn(hist, "response")
    BY <1>1, <1>9, PromptEntry
  <2>2. unasked \in Stages /\ faults' # 0
    BY <1>1, <1>9 DEF Stages
  <2> QED BY <1>1, <1>3, <1>4, <1>9, <2>1, <2>2, CallPrompts
<1> QED BY <1>7, <1>8, <1>9 DEF Ask, StoreError

(* The asker of p wakes up and closes it. *)
LEMMA ClosedPrompts ==
    ASSUME Typed, Phased, Prompted, OpenAwaited, HistoryFine(hist'), NEW i \in Slots,
           UNCHANGED <<phase, rid, up, skipped>>,
           NEW p \in {GatePrompt(i), ToolPrompt(i)}, p \in Unanswered,
           stage[i] = IF p = GatePrompt(i) THEN "asking" ELSE "toolasking",
           NEW s \in {"settled", "running"}, Move(i, s), Close(p)
    PROVE  Prompted' /\ OpenAwaited'
<1>1. /\ rid \in Nat /\ hist \in Seq(Stored) /\ faults \in Nat /\ stage \in [Slots -> Stages]
      /\ p \in Prompt /\ p.round = rid /\ p.call = i
  <2>1. rid \in Nat /\ hist \in Seq(Stored) /\ faults \in Nat /\ stage \in [Slots -> Stages]
    BY DEF Typed
  <2>2. p \in Prompt
    BY <2>1, PromptsTyped
  <2>3. p.round = rid /\ p.call = i
    BY DEF GatePrompt, ToolPrompt
  <2> QED BY <2>1, <2>2, <2>3
<1>2. phase = "batch" /\ s \in Stages
  BY FuturesInBatch DEF Stages
<1>3. ItemsIn(hist', "response") \subseteq ItemsIn(hist', "request")
  BY DEF HistoryFine
<1>4. CASE hist' = Append(hist, Entry("response", 0, p)) /\ UNCHANGED faults
  <2>1. /\ ItemsIn(hist', "request") = ItemsIn(hist, "request")
        /\ ItemsIn(hist', "response") = ItemsIn(hist, "response") \cup {p}
    BY <1>1, <1>4, PromptEntry
  <2>2. ASSUME faults' = 0, NEW q \in {GatePrompt(i), ToolPrompt(i)} \cap Unanswered'
        PROVE  Awaited(q)' \/ Excused(q)
    <3>1. q \in Unanswered /\ q # p
      BY <2>1, <2>2, UnansweredViews
    <3>2. ~Awaited(q)
      BY <3>1 DEF Awaited, GatePrompt, ToolPrompt
    <3> QED BY <1>4, <2>2, <3>1, <3>2 DEF OpenAwaited
  <2> QED BY <1>1, <1>2, <1>3, <1>4, <2>1, <2>2, CallPrompts
<1>5. CASE hist' = hist /\ faults' = faults + 1
  <2>1. /\ ItemsIn(hist', "request") = ItemsIn(hist, "request")
        /\ ItemsIn(hist', "response") = ItemsIn(hist, "response")
    BY <1>5
  <2>2. faults' # 0
    BY <1>1, <1>5
  <2> QED BY <1>1, <1>2, <1>3, <1>5, <2>1, <2>2, CallPrompts
<1> QED BY <1>4, <1>5 DEF Close, StoreError


(* The future of call i moves and no prompt is stored or closed. *)
LEMMA QuietPrompts ==
    ASSUME Typed, Prompted, OpenAwaited, HistoryFine(hist'), SamePrompts, NEW i \in Slots,
           phase = "batch", UNCHANGED <<phase, rid, up, skipped>>,
           faults' = 0 => faults = 0,
           NEW s \in Stages \ {"asking", "toolasking"}, Move(i, s),
           s \in {"unstarted", "gating", "ungranted", "queued"} =>
               stage[i] \in {"unstarted", "gating", "ungranted", "queued"},
           stage[i] # "asking", stage[i] = "toolasking" => ToolTimeout
    PROVE  Prompted' /\ OpenAwaited'
<1> DEFINE p == GatePrompt(i)
<1>1. p \in Prompt /\ p.round = rid /\ p.call = i
  BY PromptsTyped DEF Typed, GatePrompt
<1>2. /\ ItemsIn(hist', "request") = ItemsIn(hist, "request")
      /\ ItemsIn(hist', "response") = ItemsIn(hist, "response")
  BY DEF SamePrompts
<1>3. ItemsIn(hist', "response") \subseteq ItemsIn(hist', "request")
  BY DEF HistoryFine
<1>4. s \in {"unstarted", "gating", "ungranted", "queued"} =>
          GatePrompt(i) \notin ItemsIn(hist', "request")
  BY <1>2 DEF Prompted
<1>5. ASSUME faults' = 0, NEW q \in {GatePrompt(i), ToolPrompt(i)} \cap Unanswered'
      PROVE  Awaited(q)' \/ Excused(q)
  <2>1. q \in Unanswered
    BY <1>2, <1>5, UnansweredViews
  <2>2. Awaited(q) => stage[i] = "toolasking" /\ q.by = "tool"
    BY DEF Awaited, GatePrompt, ToolPrompt
  <2>3. Awaited(q) => Excused(q)
    BY <2>2 DEF Excused
  <2> QED BY <1>5, <2>1, <2>3 DEF OpenAwaited
<1> HIDE DEF p
<1> QED BY <1>1, <1>2, <1>3, <1>4, <1>5, CallPrompts

LEMMA ToolPrompts ==
    ASSUME Control, Prompted, OpenAwaited, Control', HistoryFine(hist'),
           NEW i \in Slots, Tool(i) \/ ToolAsk(i) \/ Timeout(i)
    PROVE  Prompted' /\ OpenAwaited'
<1> USE DEF Control
<1>1. /\ UNCHANGED <<phase, rid, up, skipped>>
      /\ rid \in Nat /\ hist \in Seq(Stored) /\ faults \in Nat
  <2>1. UNCHANGED <<phase, rid, up, skipped>>
    BY DEF Tool, ToolAsk, Timeout, StartCall, Gate, PermissionHook, AskApproval,
           GateWakes, ToolWakes, Finish, PersistResult, CancelPending, respVars, envVars
  <2> QED BY <2>1 DEF Typed
<1>2. hist' = hist => SamePrompts
  BY DEF SamePrompts
<1>3. CASE StartCall(i)
  <2>1. phase = "batch" /\ stage[i] = "unstarted" /\ Move(i, "gating") /\ UNCHANGED <<hist, faults>>
    BY <1>3, NextCall DEF StartCall, envVars
  <2> QED BY <1>1, <1>2, <2>1, QuietPrompts DEF Stages
<1>4. CASE Gate(i) \/ PermissionHook(i) \/ Finish(i)
  <2>1. PICK s \in {"settled", "running", "ungranted", "queued"} :
            /\ Move(i, s)
            /\ s \in {"ungranted", "queued"} => stage[i] \in {"gating", "ungranted"}
    BY <1>4 DEF Gate, PermissionHook, Finish
  <2>2. stage[i] \in {"gating", "ungranted", "running"} /\ UNCHANGED <<hist, faults>>
    BY <1>4 DEF Gate, PermissionHook, Finish, envVars
  <2>3. phase = "batch"
    BY <2>2, FuturesInBatch
  <2>4. s \in Stages \ {"asking", "toolasking"}
    BY DEF Stages
  <2> QED BY <1>1, <1>2, <2>1, <2>2, <2>3, <2>4, QuietPrompts
<1>5. CASE Timeout(i)
  <2>1. /\ stage[i] \in {"running", "toolasking"} /\ ToolTimeout
        /\ Move(i, "settled") /\ UNCHANGED <<hist, faults>>
    BY <1>5 DEF Timeout, envVars
  <2>2. phase = "batch"
    BY <2>1, FuturesInBatch
  <2> QED BY <1>1, <1>2, <2>1, <2>2, QuietPrompts DEF Stages
<1>6. ASSUME hist' \in {hist, Append(hist, Entry("result", rid, i))} PROVE SamePrompts
  <2> DEFINE e == Entry("result", rid, i)
  <2>1. e \in Stored /\ e.kind = "result"
    BY <1>1, EntriesStored DEF Entry
  <2>2. hist' \in {hist, Append(hist, e)}
    BY <1>6
  <2> HIDE DEF e
  <2> QED BY <1>1, <2>1, <2>2, PlainPrompts
<1>7. CASE PersistResult(i)
  <2>1. /\ stage[i] = "settled" /\ Move(i, "done") /\ faults' \in {faults, faults + 1}
        /\ hist' \in {hist, Append(hist, Entry("result", rid, i))}
    BY <1>7 DEF PersistResult, StoreError
  <2>2. phase = "batch"
    BY <2>1, FuturesInBatch
  <2>3. faults' = 0 => faults = 0
    BY <1>1, <2>1
  <2> QED BY <1>1, <1>6, <2>1, <2>2, <2>3, QuietPrompts DEF Stages
<1>8. CASE CancelPending(i)
  <2>1. /\ phase = "resting" /\ UNCHANGED faults
        /\ hist' = Append(hist, Entry("result", rid, i))
    BY <1>8 DEF CancelPending, envVars
  <2>2. AtRest /\ AtRest'
    BY <1>1, <2>1 DEF AtRest, Phased
  <2> QED BY <1>1, <1>6, <2>1, <2>2, TaskPrompts
<1>9. CASE AskApproval(i)
  <2>1. stage[i] = "queued" /\ Ask(GatePrompt(i), i, "asking", "settled")
    BY <1>9 DEF AskApproval
  <2>2. GatePrompt(i) \notin ItemsIn(hist, "request")
    BY <2>1, FuturesInBatch DEF Prompted
  <2>3. "asking" \in Stages
    BY DEF Stages
  <2> QED BY <1>1, <2>1, <2>2, <2>3, AskedPrompts
<1>10. CASE ToolAsk(i)
  <2>1. stage[i] = "running" /\ Ask(ToolPrompt(i), i, "toolasking", "running")
    BY <1>10 DEF ToolAsk
  <2>2. ToolPrompt(i) \notin ItemsIn(hist, "request")
    BY <1>10 DEF ToolAsk, ItemsOf, ItemsIn
  <2>3. "toolasking" \in Stages /\ ToolPrompt(i) # GatePrompt(i)
    BY DEF Stages, GatePrompt, ToolPrompt
  <2> QED BY <1>1, <2>1, <2>2, <2>3, AskedPrompts
<1>11. CASE GateWakes(i)
  <2>1. /\ stage[i] = "asking" /\ Close(GatePrompt(i))
        /\ \E s \in {"settled", "running"} : Move(i, s)
    BY <1>11 DEF GateWakes
  <2>2. GatePrompt(i) \in Unanswered
    BY <2>1 DEF Prompted
  <2> QED BY <1>1, <2>1, <2>2, ClosedPrompts
<1>12. CASE ToolWakes(i)
  <2>1. stage[i] = "toolasking" /\ Close(ToolPrompt(i)) /\ Move(i, "running")
    BY <1>12 DEF ToolWakes
  <2>2. ToolPrompt(i) \in Unanswered /\ ToolPrompt(i) # GatePrompt(i)
    BY <2>1 DEF Prompted, GatePrompt, ToolPrompt
  <2> QED BY <1>1, <2>1, <2>2, ClosedPrompts
<1> QED BY <1>3, <1>4, <1>5, <1>7, <1>8, <1>9, <1>10, <1>11, <1>12 DEF Tool

LEMMA PromptsHold ==
    ASSUME Control, Prompted, OpenAwaited, Control', HistoryFine(hist'), Next
    PROVE  Prompted' /\ OpenAwaited'
<1>1. Stream => Upto(hist', rid) /\ hist' \in Seq(Stored)
  BY DEF HistoryFine
<1> QED BY <1>1, StreamPrompts, ToolPrompts, OtherPrompts DEF Next

-----------------------------------------------------------------------------
(* The theorems                                                            *)

LEMMA InitHolds == Init => IInv
<1> SUFFICES ASSUME Init PROVE IInv
  OBVIOUS
<1> USE DEF Init
<1>1. hist \in Seq(Stored) /\ Upto(hist, rid) /\ DOMAIN hist = {}
  BY DEF Upto
<1>2. Typed
  <2>1. calls \in Seq(Keys) /\ Len(calls) <= MaxCalls
    OBVIOUS
  <2>2. stage \in [Slots -> Stages] /\ phase \in Phases
    BY DEF Stages, Phases
  <2>3. turn \in 0..MaxTurns /\ rounds \in 0..MaxRounds /\ retries \in 0..MaxRetries
    OBVIOUS
  <2>4. crashes \in 0..MaxCrashes /\ faults \in 0..MaxFaults
    OBVIOUS
  <2>5. /\ open \in BOOLEAN /\ cancelled \in BOOLEAN /\ failed \in BOOLEAN
        /\ up \in BOOLEAN /\ skipped \in BOOLEAN
    OBVIOUS
  <2> QED BY <1>1, <2>1, <2>2, <2>3, <2>4, <2>5 DEF Typed
<1>3. Phased
  BY DEF Phased
<1>4. Prefixed
  <2>1. Started = 1..0
    BY DEF Started
  <2> QED BY <2>1 DEF Prefixed
<1>5. CallGroups(hist) = {} /\ \A kind : ItemsIn(hist, kind) = {}
  BY <1>1 DEF CallGroups, ItemsIn
<1>6. Grouped /\ Between(hist) /\ ClearNow /\ AnsweredOnce(hist)
  BY <1>1, <1>5 DEF Grouped, Between, ClearNow, AnsweredOnce
<1>7. Prompted /\ OpenAwaited
  BY <1>5, UnansweredViews DEF Prompted, OpenAwaited
<1> QED BY <1>2, <1>3, <1>4, <1>6, <1>7 DEF IInv

LEMMA StepHolds == IInv /\ [Next]_vars => IInv'
<1> SUFFICES ASSUME IInv, [Next]_vars PROVE IInv'
  OBVIOUS
<1>1. Control /\ HistoryFine(hist) /\ rid \in Nat
  BY DEF IInv, Control, HistoryFine, Typed, Prompted
<1>2. CASE Next
  <2>1. HistoryFine(hist')
    BY <1>1, <1>2, HistoryGrows, GrownFine DEF IInv
  <2>2. hist' \in Seq(Stored) /\ Upto(hist', rid)
    BY <2>1 DEF HistoryFine
  <2>3. Control'
    BY <1>1, <1>2, <2>2, ControlHolds
  <2>4. Grouped' /\ ClearNow'
    BY <1>1, <1>2, <2>2, GroupedHolds DEF IInv
  <2>5. Prompted' /\ OpenAwaited'
    BY <1>1, <1>2, <2>1, <2>3, PromptsHold DEF IInv
  <2>6. Between(hist)' /\ AnsweredOnce(hist)'
    BY <2>1 DEF HistoryFine
  <2> QED BY <2>3, <2>4, <2>5, <2>6 DEF IInv, Control
<1>3. CASE UNCHANGED vars
  <2>1. UNCHANGED <<hist, phase, turn, rounds, rid, retries, open, calls, stage, approval,
                    waiting, answers, grants, cancelled, failed, up, skipped, crashes, faults>>
    BY <1>3 DEF vars
  <2>2. Typed' /\ Phased' /\ Prefixed'
    BY <2>1 DEF IInv, Typed, Phased, Prefixed, Started
  <2>3. Grouped' /\ Between(hist)' /\ ClearNow' /\ AnsweredOnce(hist)'
    BY <2>1 DEF IInv, Grouped, ClearNow
  <2>4. Prompted' /\ OpenAwaited'
    BY <2>1 DEF IInv, Prompted, OpenAwaited, GatePrompt, ToolPrompt, Unanswered, ItemsOf, Awaited,
                Excused
  <2> QED BY <2>2, <2>3, <2>4 DEF IInv
<1> QED BY <1>2, <1>3

(* The history, the batch and the open prompts of every reachable state    *)
(* fit together as described above.                                        *)
THEOREM Invariance == Spec => []IInv
BY InitHolds, StepHolds, PTL DEF Spec

(* Every reachable state has the declared types; in particular no turn     *)
(* begins more than max_rounds rounds or retries a stream more often than  *)
(* MAX_MIDSTREAM_RETRIES.                                                  *)
THEOREM TypeCorrect == Spec => []TypeOK
<1>1. IInv => TypeOK
  <2> SUFFICES ASSUME IInv PROVE TypeOK
    OBVIOUS
  <2>1. Typed
    BY DEF IInv
  <2>2. ASSUME NEW n \in DOMAIN hist PROVE hist[n].kind \in Kinds /\ hist[n].round \in 0..rid
    <3>1. hist[n] \in Stored
      BY <2>1 DEF Typed
    <3>2. hist[n].kind \in Kinds /\ hist[n].round \in Nat
      BY <3>1, StoredFields
    <3> QED BY <2>1, <3>2 DEF Typed, Upto
  <2> QED BY <2>1, <2>2 DEF TypeOK, Typed
<1> QED BY <1>1, Invariance, PTL

(* Without crashes and store errors every stored call has its stored       *)
(* result when a round begins and when the turn is over, however calls     *)
(* overlap and whenever the turn is stopped.                               *)
THEOREM CallsAreCompleted == Spec => []GroupsComplete
<1>1. IInv => GroupsComplete
  <2> SUFFICES ASSUME IInv, phase \in {"idle", "ready", "connecting"}, crashes = 0, faults = 0,
                      NEW n \in DOMAIN hist, hist[n].kind = "calls"
               PROVE  Open(n) = {}
    BY DEF GroupsComplete
  <2> DEFINE g == <<hist[n].round, hist[n].item>>
  <2>1. g \in CallGroups(hist)
    BY DEF CallGroups
  <2>2. DOMAIN g[2] \ Results(hist, g[1]) = {}
    <3> HIDE DEF g
    <3> QED BY <2>1 DEF IInv, Grouped
  <2> QED BY <2>2 DEF Open, Results
<1> QED BY <1>1, Invariance, PTL

(* No message of the user is ever stored between the calls of a round and  *)
(* a result of that round.                                                 *)
THEOREM ResultsFollowCalls == Spec => []NothingBetween
<1>1. IInv => NothingBetween
  BY DEF IInv, Between, NothingBetween
<1> QED BY <1>1, Invariance, PTL

(* When no turn runs, a prompt is left open only by a store error, by a    *)
(* reconcile that found the lock fresh, or by the time limit of the tool   *)
(* that asked; a permission prompt never is.                               *)
OnlyTimeoutsLeaveOpen ==
    phase = "idle" /\ up /\ faults = 0 /\ ~skipped =>
        \A p \in Unanswered : ToolTimeout /\ p.by = "tool"

THEOREM PromptsAreClosed == Spec => []OnlyTimeoutsLeaveOpen
<1>1. IInv => OnlyTimeoutsLeaveOpen
  <2> SUFFICES ASSUME IInv, phase = "idle", up, faults = 0, ~skipped, NEW p \in Unanswered
               PROVE  ToolTimeout /\ p.by = "tool"
    BY DEF OnlyTimeoutsLeaveOpen
  <2>1. p \in Prompt
    BY UnansweredViews, RequestsArePrompts DEF IInv, Typed
  <2>2. AtRest
    BY DEF IInv, Phased, AtRest
  <2>3. ~Awaited(p)
    BY <2>1, <2>2, NobodyAsks
  <2> QED BY <2>3 DEF IInv, OpenAwaited, Excused
<1> QED BY <1>1, Invariance, PTL

(* If tools have no time limit, a prompt is answered once, and when no     *)
(* turn runs none is left open.                                            *)
THEOREM EveryPromptAnswered ==
    ASSUME ~ToolTimeout PROVE Spec => []PromptsAnswered
<1>1. IInv /\ OnlyTimeoutsLeaveOpen => PromptsAnswered
  BY DEF IInv, AnsweredOnce, OnlyTimeoutsLeaveOpen, PromptsAnswered
<1> QED BY <1>1, Invariance, PromptsAreClosed, PTL

-----------------------------------------------------------------------------
(* Induction over a range of numbers, from < being well-founded.           *)
NatOrder == {p \in Nat \X Nat : p[1] < p[2]}

LEMMA NatOrderWellFounded == IsWellFoundedOn(NatOrder, Nat)
<1>1. OpToRel(<, Nat) = NatOrder
  BY DEF OpToRel, NatOrder
<1> QED BY <1>1, NatLessThanWellFounded, Zenon

LEMMA LeastExists ==
    ASSUME NEW S \in SUBSET Nat, S # {}
    PROVE  \E n \in S : \A m \in S : n <= m
<1>1. PICK n \in S : \A m \in S : <<m, n>> \notin NatOrder
  BY NatOrderWellFounded, WFMin
<1>2. ASSUME NEW m \in S PROVE n <= m
  <2>1. m \in Nat /\ n \in Nat
    OBVIOUS
  <2>2. <<m, n>> \in NatOrder <=> m < n
    BY <2>1 DEF NatOrder
  <2> QED BY <1>1, <2>1, <2>2
<1> QED BY <1>2

Inductive(S, L) == 0 \in S /\ \A n \in 1..L : n - 1 \in S => n \in S

LEMMA UpTo ==
    ASSUME NEW L \in Nat, NEW S, Inductive(S, L)
    PROVE  0..L \subseteq S
<1> USE DEF Inductive
<1> DEFINE Bad == {n \in 0..L : n \notin S}
<1> SUFFICES ASSUME Bad # {} PROVE FALSE
  OBVIOUS
<1>1. PICK n \in Bad : \A m \in Bad : n <= m
  <2>1. Bad \in SUBSET Nat
    OBVIOUS
  <2> HIDE DEF Bad
  <2> QED BY <2>1, LeastExists
<1>2. n \in 1..L /\ n - 1 \in 0..L
  BY <1>1
<1>3. n - 1 \notin Bad
  <2>1. n - 1 < n
    BY <1>2
  <2> HIDE DEF Bad
  <2> QED BY <1>1, <1>2, <2>1
<1> QED BY <1>1, <1>2, <1>3

-----------------------------------------------------------------------------
(* The loops of build_context                                              *)

(* One iteration of group_by_round or of the loop over its groups.         *)
Iteration(loop, result, x) ==
    IF loop = "entries" THEN AddEntry(result, x) ELSE AddGroup(result, x)

IsLoop(F, loop, s, k) ==
    F = [n \in 0..k |-> IF n = 0 THEN <<>> ELSE Iteration(loop, F[n - 1], s[n])]

LEMMA LoopValues ==
    ASSUME NEW k \in Nat, NEW loop, NEW s, NEW F, IsLoop(F, loop, s, k)
    PROVE  /\ DOMAIN F = 0..k
           /\ F[0] = <<>>
           /\ \A n \in 1..k : F[n] = Iteration(loop, F[n - 1], s[n])
<1>1. DOMAIN F = 0..k
  BY Zenon DEF IsLoop
<1>2. \A n \in 0..k : F[n] = IF n = 0 THEN <<>> ELSE Iteration(loop, F[n - 1], s[n])
  BY Zenon DEF IsLoop
<1>3. 0 \in 0..k /\ \A n \in 1..k : n \in 0..k /\ n # 0
  OBVIOUS
<1> QED BY <1>1, <1>2, <1>3

LEMMA LoopExists ==
    ASSUME NEW L \in Nat, NEW loop, NEW s
    PROVE  \E F : IsLoop(F, loop, s, L)
<1> DEFINE Good == {k \in 0..L : \E F : IsLoop(F, loop, s, k)}
<1>1. 0 \in Good
  <2> DEFINE F == [n \in 0..0 |-> <<>>]
  <2>1. F = [n \in 0..0 |-> IF n = 0 THEN <<>> ELSE Iteration(loop, F[n - 1], s[n])]
    OBVIOUS
  <2>2. IsLoop(F, loop, s, 0)
    <3> HIDE DEF F
    <3> QED BY <2>1 DEF IsLoop
  <2>3. 0 \in 0..L
    OBVIOUS
  <2> QED BY <2>2, <2>3
<1>2. ASSUME NEW k \in 1..L, k - 1 \in Good PROVE k \in Good
  <2>1. PICK F : IsLoop(F, loop, s, k - 1)
    BY <1>2
  <2>2. k - 1 \in Nat /\ k \in 0..L
    OBVIOUS
  <2>3. /\ F[0] = <<>>
        /\ \A n \in 1..(k - 1) : F[n] = Iteration(loop, F[n - 1], s[n])
    BY <2>1, <2>2, LoopValues
  <2> DEFINE G == [n \in 0..k |-> IF n = k THEN Iteration(loop, F[k - 1], s[k]) ELSE F[n]]
  <2>4. /\ G = [n \in 0..k |-> G[n]]
        /\ G[k] = Iteration(loop, F[k - 1], s[k])
        /\ \A n \in 0..(k - 1) : G[n] = F[n]
    OBVIOUS
  <2>5. ASSUME NEW n \in 0..k
        PROVE  G[n] = IF n = 0 THEN <<>> ELSE Iteration(loop, G[n - 1], s[n])
    <3> HIDE DEF G
    <3>1. CASE n = 0
      <4>1. 0 \in 0..(k - 1)
        OBVIOUS
      <4> QED BY <2>3, <2>4, <3>1, <4>1
    <3>2. CASE n = k
      <4>1. k - 1 \in 0..(k - 1) /\ k # 0
        OBVIOUS
      <4> QED BY <2>4, <3>2, <4>1
    <3>3. CASE n # 0 /\ n # k
      <4>1. n \in 1..(k - 1) /\ n \in 0..(k - 1) /\ n - 1 \in 0..(k - 1)
        BY <3>3
      <4> QED BY <2>3, <2>4, <3>3, <4>1
    <3> QED BY <3>1, <3>2, <3>3
  <2>6. G = [n \in 0..k |-> IF n = 0 THEN <<>> ELSE Iteration(loop, G[n - 1], s[n])]
    <3> HIDE DEF G
    <3> QED BY <2>4, <2>5
  <2>7. IsLoop(G, loop, s, k)
    <3> HIDE DEF G
    <3> QED BY <2>6 DEF IsLoop
  <2> QED BY <2>2, <2>7
<1>3. 0..L \subseteq Good
  <2> HIDE DEF Good
  <2> QED BY <1>1, <1>2, UpTo DEF Inductive
<1>4. L \in 0..L
  OBVIOUS
<1> QED BY <1>3, <1>4

(* The same iterations on the same items have the same results. *)
LEMMA LoopsAgree ==
    ASSUME NEW k \in Nat, NEW l \in Nat, k <= l, NEW loop, NEW s, NEW t,
           \A n \in 1..k : s[n] = t[n],
           NEW F, IsLoop(F, loop, s, k), NEW G, IsLoop(G, loop, t, l)
    PROVE  \A n \in 0..k : F[n] = G[n]
<1> DEFINE Same == {n \in 0..k : F[n] = G[n]}
<1>1. F[0] = <<>> /\ G[0] = <<>>
  BY LoopValues
<1>2. /\ \A n \in 1..k : F[n] = Iteration(loop, F[n - 1], s[n])
      /\ \A n \in 1..l : G[n] = Iteration(loop, G[n - 1], t[n])
  BY LoopValues
<1>3. 0 \in Same
  BY <1>1
<1>4. ASSUME NEW n \in 1..k, n - 1 \in Same PROVE n \in Same
  <2>1. n \in 0..k /\ n \in 1..l /\ F[n - 1] = G[n - 1]
    BY <1>4
  <2> QED BY <1>2, <2>1
<1>5. 0..k \subseteq Same
  <2> HIDE DEF Same
  <2> QED BY <1>3, <1>4, UpTo DEF Inductive
<1> QED BY <1>5

(* What GroupByRound and Assembled compute. *)
LEMMA GroupingLoop ==
    ASSUME NEW h, Len(h) \in Nat
    PROVE  \E F : IsLoop(F, "entries", h, Len(h)) /\ GroupByRound(h) = F[Len(h)]
<1> DEFINE Rec(F) == [n \in 0..Len(h) |-> IF n = 0 THEN <<>> ELSE AddEntry(F[n - 1], h[n])]
           C == CHOOSE F : F = Rec(F)
<1>1. GroupByRound(h) = C[Len(h)]
  BY Zenon DEF GroupByRound
<1>2. ASSUME NEW F PROVE IsLoop(F, "entries", h, Len(h)) <=> F = Rec(F)
  BY Zenon DEF IsLoop, Iteration
<1>3. \E F : F = Rec(F)
  <2>1. \E F : IsLoop(F, "entries", h, Len(h))
    BY LoopExists
  <2> HIDE DEF Rec
  <2> QED BY <1>2, <2>1
<1>4. C = Rec(C)
  <2> HIDE DEF Rec
  <2> QED BY <1>3
<1> HIDE DEF C, Rec
<1> QED BY <1>1, <1>2, <1>4

LEMMA AssemblingLoop ==
    ASSUME NEW groups, Len(groups) \in Nat
    PROVE  \E F : IsLoop(F, "groups", groups, Len(groups)) /\ Assembled(groups) = F[Len(groups)]
<1> DEFINE Rec(F) ==
               [n \in 0..Len(groups) |-> IF n = 0 THEN <<>> ELSE AddGroup(F[n - 1], groups[n])]
           C == CHOOSE F : F = Rec(F)
<1>1. Assembled(groups) = C[Len(groups)]
  BY Zenon DEF Assembled
<1>2. ASSUME NEW F PROVE IsLoop(F, "groups", groups, Len(groups)) <=> F = Rec(F)
  BY DEF IsLoop, Iteration
<1>3. \E F : F = Rec(F)
  <2>1. \E F : IsLoop(F, "groups", groups, Len(groups))
    BY LoopExists
  <2> HIDE DEF Rec
  <2> QED BY <1>2, <2>1
<1>4. C = Rec(C)
  <2> HIDE DEF Rec
  <2> QED BY <1>3
<1> HIDE DEF C, Rec
<1> QED BY <1>1, <1>2, <1>4

(* One more entry is one more iteration. *)
LEMMA GroupingAppended ==
    ASSUME NEW S, NEW h \in Seq(S), NEW e \in S
    PROVE  GroupByRound(Append(h, e)) = AddEntry(GroupByRound(h), e)
<1> DEFINE g == Append(h, e)
           L == Len(h)
<1>1. /\ g \in Seq(S) /\ L \in Nat /\ Len(g) = L + 1 /\ Len(g) \in Nat
      /\ g[L + 1] = e
      /\ \A n \in 1..L : h[n] = g[n]
  OBVIOUS
<1> HIDE DEF g, L
<1>2. PICK F : IsLoop(F, "entries", h, L) /\ GroupByRound(h) = F[L]
  BY <1>1, GroupingLoop DEF L
<1>3. PICK G : IsLoop(G, "entries", g, L + 1) /\ GroupByRound(g) = G[L + 1]
  BY <1>1, GroupingLoop
<1>4. L <= L + 1 /\ L + 1 \in Nat /\ L \in 0..L /\ L + 1 \in 1..(L + 1) /\ (L + 1) - 1 = L
  BY <1>1
<1>5. \A n \in 0..L : F[n] = G[n]
  BY <1>1, <1>2, <1>3, <1>4, LoopsAgree
<1>6. G[L + 1] = Iteration("entries", G[L], g[L + 1])
  BY <1>3, <1>4, LoopValues
<1>7. F[L] = G[L]
  BY <1>4, <1>5
<1> QED BY <1>1, <1>2, <1>3, <1>4, <1>6, <1>7 DEF Iteration, g

LEMMA GroupingEmpty == GroupByRound(<<>>) = <<>>
<1>1. Len(<<>>) = 0
  OBVIOUS
<1>2. PICK F : IsLoop(F, "entries", <<>>, 0) /\ GroupByRound(<<>>) = F[0]
  BY <1>1, GroupingLoop
<1> QED BY <1>2, LoopValues

-----------------------------------------------------------------------------
(* Groups of entries                                                       *)

(* In a group of a round, what has a result is a call of the group, and    *)
(* has one result.                                                         *)
OneEach == {SetToBag(D) : D \in SUBSET Slots}

GroupSet ==
    {g \in [round : Nat, text : BOOLEAN, calls : Groups \cup {<<>>}, results : OneEach] :
        /\ DOMAIN g.results \subseteq DOMAIN g.calls
        /\ g.round = 0 => g = UserGroup}

(* The calls of a round and those that have a result. *)
CallsIn(g) == <<g.calls, DOMAIN g.results>>

CallsOf(groups, r) ==
    {CallsIn(groups[n]) : n \in {m \in DOMAIN groups : groups[m].round = r}}

Shaped(groups, r) ==
    /\ groups \in Seq(GroupSet)
    /\ \A n \in DOMAIN groups : groups[n].round <= r
    /\ \A m, n \in DOMAIN groups :
          groups[m].round = groups[n].round /\ groups[m].round # 0 => m = n

LEMMA OneOfEach ==
    ASSUME NEW D
    PROVE  /\ DOMAIN SetToBag(D) = D
           /\ BagToSet(SetToBag(D)) = D
           /\ \A i : i \notin D => SetToBag(D) (+) SetToBag({i}) = SetToBag(D \cup {i})
           /\ \A C : C \cap D = {} => SetToBag(D) (+) SetToBag(C) = SetToBag(D \cup C)
<1>1. DOMAIN SetToBag(D) = D /\ BagToSet(SetToBag(D)) = D
  BY DEF SetToBag, BagToSet
<1>2. ASSUME NEW C, C \cap D = {} PROVE SetToBag(D) (+) SetToBag(C) = SetToBag(D \cup C)
  BY <1>2 DEF SetToBag, (+)
<1> QED BY <1>1, <1>2

LEMMA EmptyIsBag ==
    /\ EmptyBag = SetToBag({})
    /\ EmptyBag \in OneEach
    /\ DOMAIN EmptyBag = {}
    /\ \A D : SetToBag(D) = EmptyBag => D = {}
<1>1. EmptyBag = SetToBag({})
  BY DEF EmptyBag, SetToBag
<1>2. \A D : DOMAIN SetToBag(D) = D
  BY OneOfEach
<1> QED BY <1>1, <1>2 DEF OneEach

LEMMA IndexOfRoundIs ==
    ASSUME NEW groups \in Seq(GroupSet), NEW r
    PROVE  \/ IndexOfRound(groups, r) = 0 /\ \A n \in DOMAIN groups : groups[n].round # r
           \/ /\ IndexOfRound(groups, r) \in DOMAIN groups
              /\ IndexOfRound(groups, r) # 0
              /\ groups[IndexOfRound(groups, r)].round = r
<1> DEFINE at == {i \in DOMAIN groups : groups[i].round = r}
<1>1. CASE at = {}
  BY <1>1 DEF IndexOfRound
<1>2. CASE at # {}
  <2>1. IndexOfRound(groups, r) = CHOOSE i \in at : TRUE
    BY <1>2 DEF IndexOfRound
  <2>2. IndexOfRound(groups, r) \in at
    BY <1>2, <2>1
  <2>3. 0 \notin DOMAIN groups
    OBVIOUS
  <2> QED BY <2>2, <2>3
<1> QED BY <1>1, <1>2

(* A new group at the end. *)
LEMMA GroupAppended ==
    ASSUME NEW r \in Nat, NEW groups, Shaped(groups, r), NEW g \in GroupSet, g.round <= r,
           g.round # 0 => \A n \in DOMAIN groups : groups[n].round # g.round
    PROVE  /\ Shaped(Append(groups, g), r)
           /\ \A q : CallsOf(Append(groups, g), q) =
                  CallsOf(groups, q)
                      \cup (IF g.round = q THEN {CallsIn(g)} ELSE {})
<1> DEFINE new == Append(groups, g)
<1>1. groups \in Seq(GroupSet) /\ Len(groups) \in Nat
  BY DEF Shaped
<1>2. /\ new \in Seq(GroupSet)
      /\ DOMAIN new = DOMAIN groups \cup {Len(groups) + 1}
      /\ new[Len(groups) + 1] = g
      /\ \A n \in DOMAIN groups : new[n] = groups[n]
      /\ Len(groups) + 1 \notin DOMAIN groups
  BY <1>1
<1> HIDE DEF new
<1>3. \A n \in DOMAIN new : new[n].round <= r
  BY <1>2 DEF Shaped
<1>4. \A m, n \in DOMAIN new : new[m].round = new[n].round /\ new[m].round # 0 => m = n
  BY <1>2 DEF Shaped
<1>5. ASSUME NEW q
      PROVE  CallsOf(new, q) =
                 CallsOf(groups, q)
                     \cup (IF g.round = q THEN {CallsIn(g)} ELSE {})
  BY <1>2 DEF CallsOf
<1>6. Shaped(new, r)
  BY <1>2, <1>3, <1>4 DEF Shaped
<1> QED BY <1>5, <1>6 DEF new

LEMMA OnlyGroup ==
    ASSUME NEW r, NEW groups, Shaped(groups, r), NEW i \in DOMAIN groups, groups[i].round # 0
    PROVE  CallsOf(groups, groups[i].round) = {CallsIn(groups[i])}
<1>1. \A n \in DOMAIN groups : groups[n].round = groups[i].round <=> n = i
  BY DEF Shaped
<1> QED BY <1>1 DEF CallsOf

(* A group changed in place. *)
Holding(groups, r, g) == Shaped(groups, r) /\ CallsOf(groups, g.round) = {CallsIn(g)}

LEMMA GroupChanged ==
    ASSUME NEW r \in Nat, NEW groups, Shaped(groups, r), NEW i \in DOMAIN groups,
           NEW g \in GroupSet, g.round = groups[i].round, g.round # 0
    PROVE  Holding([groups EXCEPT ![i] = g], r, g)
<1> DEFINE new == [groups EXCEPT ![i] = g]
<1>1. groups \in Seq(GroupSet)
  BY DEF Shaped
<1>2. /\ new \in Seq(GroupSet)
      /\ DOMAIN new = DOMAIN groups
      /\ new[i] = g
      /\ \A n \in DOMAIN groups : n # i => new[n] = groups[n]
  BY <1>1
<1> HIDE DEF new
<1>3. \A n \in DOMAIN groups : new[n].round = groups[n].round
  BY <1>2
<1>4. Shaped(new, r)
  BY <1>2, <1>3 DEF Shaped
<1>5. CallsOf(new, new[i].round) = {CallsIn(new[i])}
  BY <1>2, <1>4, OnlyGroup
<1>6. Holding(new, r, g)
  BY <1>2, <1>4, <1>5 DEF Holding
<1> QED BY <1>6 DEF new

(* What an entry does to the groups. *)
LEMMA MessageAdded ==
    ASSUME NEW r \in Nat, NEW groups, Shaped(groups, r), NEW e \in Stored,
           e.kind \in {"user", "steering"}
    PROVE  /\ Shaped(AddEntry(groups, e), r)
           /\ \A q : q # 0 => CallsOf(AddEntry(groups, e), q) = CallsOf(groups, q)
<1>1. UserGroup \in GroupSet /\ UserGroup.round = 0
  BY EmptyIsBag DEF UserGroup, GroupSet
<1>2. AddEntry(groups, e) = groups \/ AddEntry(groups, e) = Append(groups, UserGroup)
  BY DEF AddEntry
<1>3. CASE AddEntry(groups, e) = groups
  BY <1>3
<1>4. CASE AddEntry(groups, e) = Append(groups, UserGroup)
  <2>1. /\ Shaped(Append(groups, UserGroup), r)
        /\ \A q : CallsOf(Append(groups, UserGroup), q) =
               CallsOf(groups, q)
                   \cup (IF UserGroup.round = q
                         THEN {CallsIn(UserGroup)} ELSE {})
    BY <1>1, GroupAppended
  <2> QED BY <1>1, <1>4, <2>1
<1> QED BY <1>2, <1>3, <1>4

LEMMA TextAdded ==
    ASSUME NEW r \in Nat, NEW groups, Shaped(groups, r), NEW e \in Stored,
           e.kind = "text", e.round # 0, e.round <= r
    PROVE  /\ Shaped(AddEntry(groups, e), r)
           /\ CallsOf(AddEntry(groups, e), e.round) \subseteq
                  CallsOf(groups, e.round) \cup {<<<<>>, {}>>}
<1>7. PICK i : i = IndexOfRound(groups, e.round)
  OBVIOUS
<1>0. PICK new : new = [round |-> e.round, text |-> TRUE, calls |-> <<>>, results |-> EmptyBag]
  OBVIOUS
<1>1. groups \in Seq(GroupSet) /\ e.round \in Nat
  BY StoredFields DEF Shaped
<1>2. AddEntry(groups, e) = IF i # 0 THEN [groups EXCEPT ![i].text = TRUE] ELSE Append(groups, new)
  BY <1>0, <1>7 DEF AddEntry
<1>3. CASE i = 0
  <2>1. \A n \in DOMAIN groups : groups[n].round # e.round
    BY <1>1, <1>3, <1>7, IndexOfRoundIs
  <2>2. new \in GroupSet /\ new.round = e.round
    BY <1>0, <1>1, EmptyIsBag DEF GroupSet, CallsIn
  <2>9. CallsIn(new) = <<<<>>, {}>>
    BY <1>0, <1>1, EmptyIsBag DEF GroupSet, CallsIn
  <2>3. /\ Shaped(Append(groups, new), r)
        /\ \A q : CallsOf(Append(groups, new), q) =
               CallsOf(groups, q)
                   \cup (IF new.round = q THEN {CallsIn(new)} ELSE {})
    <3>1. new.round <= r /\ \A n \in DOMAIN groups : groups[n].round # new.round
      BY <2>1, <2>2
    <3> QED BY <2>2, <3>1, GroupAppended
  <2> QED BY <1>2, <1>3, <2>2, <2>3, <2>9
<1>4. CASE i # 0
  <2>1. i \in DOMAIN groups /\ groups[i].round = e.round
    BY <1>1, <1>4, <1>7, IndexOfRoundIs
  <2>0. PICK g : g = [groups[i] EXCEPT !.text = TRUE]
    OBVIOUS
  <2>2. groups[i] \in GroupSet
    BY <1>1, <2>1
  <2>3. g \in GroupSet /\ g.round = e.round
    BY <2>0, <2>1, <2>2 DEF GroupSet
  <2>9. CallsIn(g) = CallsIn(groups[i])
    BY <2>0, <2>1, <2>2 DEF GroupSet, CallsIn
  <2>4. AddEntry(groups, e) = [groups EXCEPT ![i] = g]
    BY <2>0, <1>2, <1>4
  <2>5. Holding([groups EXCEPT ![i] = g], r, g)
    <3>1. /\ i \in DOMAIN groups /\ g \in GroupSet
          /\ g.round = groups[i].round /\ g.round # 0
      BY <2>1, <2>3
    <3> QED BY <3>1, GroupChanged
  <2>6. CallsOf(groups, groups[i].round) = {CallsIn(groups[i])}
    BY <2>1, OnlyGroup
  <2> QED BY <2>1, <2>3, <2>4, <2>5, <2>6, <2>9 DEF Holding
<1> QED BY <1>3, <1>4

LEMMA CallsAdded ==
    ASSUME NEW r \in Nat, NEW groups, Shaped(groups, r), NEW e \in Stored,
           e.kind = "calls", e.round # 0, e.round <= r,
           CallsOf(groups, e.round) \subseteq {<<<<>>, {}>>}
    PROVE  /\ Shaped(AddEntry(groups, e), r)
           /\ CallsOf(AddEntry(groups, e), e.round) = {<<e.item, {}>>}
<1>7. PICK i : i = IndexOfRound(groups, e.round)
  OBVIOUS
<1>0. PICK new : new = [round |-> e.round, text |-> FALSE, calls |-> e.item, results |-> EmptyBag]
  OBVIOUS
<1>1. groups \in Seq(GroupSet) /\ e.round \in Nat /\ e.item \in Groups
  BY StoredFields DEF Shaped
<1>2. AddEntry(groups, e) =
          IF i # 0 THEN [groups EXCEPT ![i].calls = e.item] ELSE Append(groups, new)
  BY <1>0, <1>7 DEF AddEntry
<1>3. CASE i = 0
  <2>1. \A n \in DOMAIN groups : groups[n].round # e.round
    BY <1>1, <1>3, <1>7, IndexOfRoundIs
  <2>2. CallsOf(groups, e.round) = {}
    BY <2>1 DEF CallsOf
  <2>3. new \in GroupSet /\ new.round = e.round
    BY <1>0, <1>1, EmptyIsBag DEF GroupSet, CallsIn
  <2>9. CallsIn(new) = <<e.item, {}>>
    BY <1>0, <1>1, EmptyIsBag DEF GroupSet, CallsIn
  <2>4. /\ Shaped(Append(groups, new), r)
        /\ \A q : CallsOf(Append(groups, new), q) =
               CallsOf(groups, q)
                   \cup (IF new.round = q THEN {CallsIn(new)} ELSE {})
    <3>1. new.round <= r /\ \A n \in DOMAIN groups : groups[n].round # new.round
      BY <2>1, <2>3
    <3> QED BY <2>3, <3>1, GroupAppended
  <2> QED BY <1>2, <1>3, <2>2, <2>3, <2>4, <2>9
<1>4. CASE i # 0
  <2>1. i \in DOMAIN groups /\ groups[i].round = e.round
    BY <1>1, <1>4, <1>7, IndexOfRoundIs
  <2>2. DOMAIN groups[i].results = {}
    <3>1. CallsIn(groups[i]) \in CallsOf(groups, e.round)
      BY <2>1 DEF CallsOf
    <3> QED BY <3>1 DEF CallsIn
  <2>0. PICK g : g = [groups[i] EXCEPT !.calls = e.item]
    OBVIOUS
  <2>3. groups[i] \in GroupSet
    BY <1>1, <2>1
  <2>4. g \in GroupSet /\ g.round = e.round
    BY <2>0, <1>1, <2>1, <2>2, <2>3 DEF GroupSet, CallsIn
  <2>9. CallsIn(g) = <<e.item, {}>>
    BY <2>0, <1>1, <2>1, <2>2, <2>3 DEF GroupSet, CallsIn
  <2>5. AddEntry(groups, e) = [groups EXCEPT ![i] = g]
    BY <2>0, <1>2, <1>4
  <2>6. Holding([groups EXCEPT ![i] = g], r, g)
    <3>1. /\ i \in DOMAIN groups /\ g \in GroupSet
          /\ g.round = groups[i].round /\ g.round # 0
      BY <2>1, <2>4
    <3> QED BY <3>1, GroupChanged
  <2> QED BY <2>4, <2>5, <2>6, <2>9 DEF Holding
<1> QED BY <1>3, <1>4

LEMMA ResultAdded ==
    ASSUME NEW r \in Nat, NEW groups, Shaped(groups, r), NEW e \in Stored,
           e.kind = "result", e.round # 0, e.round <= r,
           \A c \in CallsOf(groups, e.round) : e.item \in DOMAIN c[1] \ c[2]
    PROVE  /\ Shaped(AddEntry(groups, e), r)
           /\ CallsOf(AddEntry(groups, e), e.round) =
                  {<<c[1], c[2] \cup {e.item}>> : c \in CallsOf(groups, e.round)}
<1>7. PICK i : i = IndexOfRound(groups, e.round)
  OBVIOUS
<1>1. groups \in Seq(GroupSet) /\ e.round \in Nat /\ e.item \in Slots
  BY StoredFields DEF Shaped
<1>2. AddEntry(groups, e) =
          IF i # 0 THEN [groups EXCEPT ![i].results = @ (+) SetToBag({e.item})] ELSE groups
  BY <1>7 DEF AddEntry
<1>3. CASE i = 0
  <2>1. \A n \in DOMAIN groups : groups[n].round # e.round
    BY <1>1, <1>3, <1>7, IndexOfRoundIs
  <2>2. CallsOf(groups, e.round) = {}
    BY <2>1 DEF CallsOf
  <2> QED BY <1>2, <1>3, <2>2
<1>4. CASE i # 0
  <2>1. i \in DOMAIN groups /\ groups[i].round = e.round
    BY <1>1, <1>4, <1>7, IndexOfRoundIs
  <2>2. groups[i] \in GroupSet
    BY <1>1, <2>1
  <2>3. PICK D \in SUBSET Slots : groups[i].results = SetToBag(D)
    BY <2>2 DEF GroupSet, OneEach
  <2>4. DOMAIN groups[i].results = D /\ CallsIn(groups[i]) = <<groups[i].calls, D>>
    BY <2>3, OneOfEach DEF CallsIn
  <2>5. e.item \in DOMAIN groups[i].calls /\ e.item \notin D
    <3>1. <<groups[i].calls, D>> \in CallsOf(groups, e.round)
      BY <2>1, <2>4 DEF CallsOf
    <3> QED BY <3>1
  <2>6. groups[i].results (+) SetToBag({e.item}) = SetToBag(D \cup {e.item})
    BY <2>3, <2>5, OneOfEach
  <2>7. /\ SetToBag(D \cup {e.item}) \in OneEach
        /\ DOMAIN SetToBag(D \cup {e.item}) = D \cup {e.item}
    BY <1>1, OneOfEach DEF OneEach
  <2>0. PICK g : g = [groups[i] EXCEPT !.results = SetToBag(D \cup {e.item})]
    OBVIOUS
  <2>8. g \in GroupSet /\ g.round = e.round
    BY <2>0, <2>1, <2>2, <2>4, <2>5, <2>7 DEF GroupSet, CallsIn
  <2>13. CallsIn(g) = <<groups[i].calls, D \cup {e.item}>>
    BY <2>0, <2>1, <2>2, <2>4, <2>5, <2>7 DEF GroupSet, CallsIn
  <2>9. AddEntry(groups, e) = [groups EXCEPT ![i] = g]
    BY <2>0, <1>2, <1>4, <2>6
  <2>10. Holding([groups EXCEPT ![i] = g], r, g)
     <3>1. /\ i \in DOMAIN groups /\ g \in GroupSet
          /\ g.round = groups[i].round /\ g.round # 0
      BY <2>1, <2>8
    <3> QED BY <3>1, GroupChanged
  <2>11. /\ CallsOf(AddEntry(groups, e), e.round) = {<<groups[i].calls, D \cup {e.item}>>}
         /\ CallsOf(groups, e.round) = {<<groups[i].calls, D>>}
    <3>1. CallsOf(groups, groups[i].round) = {CallsIn(groups[i])}
      BY <2>1, OnlyGroup
    <3> QED BY <2>1, <2>4, <2>8, <2>9, <2>10, <2>13, <3>1 DEF Holding
  <2>12. {<<c[1], c[2] \cup {e.item}>> : c \in CallsOf(groups, e.round)} =
             {<<groups[i].calls, D \cup {e.item}>>}
    BY <2>11
  <2> QED BY <2>8, <2>9, <2>10, <2>11, <2>12 DEF Holding
<1> QED BY <1>3, <1>4

LEMMA OtherAdded ==
    ASSUME NEW groups, NEW e, e.kind \in {"request", "response"}
    PROVE  AddEntry(groups, e) = groups
BY DEF AddEntry

-----------------------------------------------------------------------------
(* The messages of a request                                               *)

MessageSet == [role : {"user", "assistant", "tool"}, calls : SUBSET Slots, results : OneEach]

Assistant(K) == Message("assistant", K, EmptyBag)
ToolResults(K) == Message("tool", {}, SetToBag(K))

LEMMA MessagesTyped ==
    ASSUME NEW K \in SUBSET Slots
    PROVE  /\ Assistant(K) \in MessageSet /\ ToolResults(K) \in MessageSet
           /\ UserMessage \in MessageSet
           /\ Assistant(K).role = "assistant" /\ Assistant(K).calls = K
           /\ ToolResults(K).role = "tool" /\ ToolResults(K).calls = {}
           /\ UserMessage.role = "user" /\ UserMessage.calls = {}
           /\ Answers(ToolResults(K), Assistant(K))
BY EmptyIsBag DEF Assistant, ToolResults, UserMessage, Message, MessageSet, OneEach, Answers

LEMMA PairOfMessages ==
    ASSUME NEW x \in MessageSet, NEW y \in MessageSet
    PROVE  <<x>> \o <<y>> = <<x, y>>
<1> DEFINE s == <<x>> \o <<y>>
           t == <<x, y>>
<1>1. /\ s \in Seq(MessageSet) /\ t \in Seq(MessageSet)
      /\ Len(s) = 2 /\ Len(t) = 2
  OBVIOUS
<1>2. s[1] = x /\ s[2] = y
  OBVIOUS
<1>3. t[1] = x /\ t[2] = y
  OBVIOUS
<1>4. \A n \in 1..2 : s[n] = t[n]
  BY <1>2, <1>3
<1> HIDE DEF s, t
<1>5. s = t
  BY <1>1, <1>4, SeqEqual
<1> QED BY <1>5 DEF s, t

LEMMA RepairedGroup ==
    ASSUME NEW g \in GroupSet
    PROVE  /\ Repaired(g).results = SetToBag(DOMAIN g.calls)
           /\ Repaired(g).calls = g.calls
           /\ Repaired(g).text = g.text
<1>1. PICK D \in SUBSET Slots : g.results = SetToBag(D)
  BY DEF GroupSet, OneEach
<1>2. BagToSet(g.results) = D /\ DOMAIN g.results = D
  BY <1>1, OneOfEach
<1>3. D \subseteq DOMAIN g.calls
  BY <1>2 DEF GroupSet
<1>4. SetToBag(D) (+) SetToBag(DOMAIN g.calls \ D) = SetToBag(D \cup (DOMAIN g.calls \ D))
  <2>1. (DOMAIN g.calls \ D) \cap D = {}
    OBVIOUS
  <2> QED BY <2>1, OneOfEach
<1>5. D \cup (DOMAIN g.calls \ D) = DOMAIN g.calls
  BY <1>3
<1>6. g.results (+) SetToBag(MissingCalls(g)) = SetToBag(DOMAIN g.calls)
  BY <1>1, <1>2, <1>4, <1>5 DEF MissingCalls
<1> QED BY <1>6 DEF Repaired, GroupSet

LEMMA KeptGroup ==
    ASSUME NEW g \in GroupSet
    PROVE  \E K \in SUBSET Slots :
               /\ Filtered(Repaired(g)).calls = K
               /\ Filtered(Repaired(g)).results = SetToBag(K)
<1> DEFINE K == Kept(Repaired(g))
           all == DOMAIN g.calls
<1>1. /\ Repaired(g).results = SetToBag(all)
      /\ Repaired(g).calls = g.calls
  BY RepairedGroup
<1>2. all \subseteq Slots
  <2>1. g.calls \in Groups \cup {<<>>}
    BY DEF GroupSet
  <2>2. ASSUME NEW n \in Slots, g.calls \in [1..n -> Keys] PROVE all \subseteq Slots
    BY <2>2 DEF Slots
  <2> QED BY <2>1, <2>2 DEF Groups
<1>3. K \subseteq all
  BY <1>1 DEF Kept
<1>4. /\ Filtered(Repaired(g)).calls = K
      /\ Filtered(Repaired(g)).results =
             IF K = all THEN SetToBag(all)
             ELSE [i \in BagToSet(SetToBag(all)) \cap K |-> SetToBag(all)[i]]
  BY <1>1 DEF Filtered
<1> HIDE DEF K, all
<1>5. BagToSet(SetToBag(all)) \cap K = K
  BY <1>3, OneOfEach
<1>6. [i \in K |-> SetToBag(all)[i]] = SetToBag(K)
  BY <1>3 DEF SetToBag
<1>7. Filtered(Repaired(g)).results = SetToBag(K)
  BY <1>4, <1>5, <1>6
<1>8. K \in SUBSET Slots
  BY <1>2, <1>3
<1> QED BY <1>4, <1>7, <1>8

LEMMA MessagesOfGroup ==
    ASSUME NEW g \in GroupSet
    PROVE  \E K \in SUBSET Slots :
               \/ Messages(g) = <<>>
               \/ Messages(g) = <<Assistant({})>>
               \/ Messages(g) = <<Assistant(K), ToolResults(K)>>
<1> DEFINE f == Filtered(Repaired(g))
<1>1. PICK K \in SUBSET Slots : f.calls = K /\ f.results = SetToBag(K)
  BY KeptGroup
<1>2. Messages(g) = (IF f.text \/ f.calls # {}
                     THEN <<Message("assistant", f.calls, EmptyBag)>> ELSE <<>>)
                    \o (IF f.results # EmptyBag
                        THEN <<Message("tool", {}, f.results)>> ELSE <<>>)
  BY DEF Messages
<1> HIDE DEF f
<1>3. f.results = EmptyBag <=> K = {}
  BY <1>1, EmptyIsBag
<1>4. Messages(g) = (IF f.text \/ K # {} THEN <<Assistant(K)>> ELSE <<>>)
                    \o (IF K # {} THEN <<ToolResults(K)>> ELSE <<>>)
  BY <1>1, <1>2, <1>3 DEF Assistant, ToolResults
<1>5. CASE K # {}
  <2>1. Messages(g) = <<Assistant(K)>> \o <<ToolResults(K)>>
    BY <1>4, <1>5
  <2>2. Assistant(K) \in MessageSet /\ ToolResults(K) \in MessageSet
    BY MessagesTyped
  <2>3. <<Assistant(K)>> \o <<ToolResults(K)>> = <<Assistant(K), ToolResults(K)>>
    BY <2>2, PairOfMessages
  <2> QED BY <2>1, <2>3
<1>6. CASE K = {}
  <2>1. Messages(g) = (IF f.text THEN <<Assistant({})>> ELSE <<>>) \o <<>>
    BY <1>4, <1>6
  <2>2. Messages(g) = <<Assistant({})>> \/ Messages(g) = <<>>
    BY <2>1
  <2> QED BY <2>2
<1> QED BY <1>5, <1>6

(* A message without calls after others. *)
LEMMA OneMore ==
    ASSUME NEW m \in Seq(MessageSet), Replayable(m), NEW x \in MessageSet,
           x.calls = {}, x.role # "tool",
           x.role = "user" => m = <<>> \/ m[Len(m)].role # "user"
    PROVE  Append(m, x) \in Seq(MessageSet) /\ Replayable(Append(m, x))
<1> DEFINE a == Append(m, x)
<1>1. /\ a \in Seq(MessageSet) /\ Len(m) \in Nat /\ Len(a) = Len(m) + 1
      /\ DOMAIN m = 1..Len(m) /\ DOMAIN a = 1..(Len(m) + 1)
      /\ a[Len(m) + 1] = x
      /\ \A n \in 1..Len(m) : a[n] = m[n]
  OBVIOUS
<1>2. m = <<>> <=> Len(m) = 0
  OBVIOUS
<1> HIDE DEF a
<1>3. ASSUME NEW n \in 1..Len(m)
      PROVE  /\ a[n].calls # {} => n < Len(a) /\ Answers(a[n + 1], a[n])
             /\ a[n].role = "tool" => n > 1 /\ Answers(a[n], a[n - 1])
             /\ a[n].role = "user" /\ n < Len(a) => a[n + 1].role # "user"
  <2>1. /\ m[n].calls # {} => n < Len(m) /\ Answers(m[n + 1], m[n])
        /\ m[n].role = "tool" => n > 1 /\ Answers(m[n], m[n - 1])
        /\ m[n].role = "user" /\ n < Len(m) => m[n + 1].role # "user"
    BY <1>1 DEF Replayable
  <2>2. n < Len(m) => n + 1 \in 1..Len(m)
    BY <1>1
  <2>3. n > 1 => n - 1 \in 1..Len(m)
    BY <1>1
  <2>4. a[n].role = "user" /\ n < Len(a) => a[n + 1].role # "user"
    <3>1. CASE n < Len(m)
      BY <1>1, <2>1, <2>2, <3>1
    <3>2. CASE n = Len(m)
      <4>1. a[n + 1] = x /\ a[n] = m[Len(m)] /\ m # <<>>
        BY <1>1, <1>2, <3>2
      <4> QED BY <4>1
    <3>3. n < Len(m) \/ n = Len(m)
      <4>1. n \in Nat /\ Len(m) \in Nat /\ n <= Len(m)
        BY <1>1
      <4> QED BY <4>1, SMT
    <3> QED BY <3>1, <3>2, <3>3
  <2>5. a[n].calls # {} => n < Len(a) /\ Answers(a[n + 1], a[n])
    BY <1>1, <2>1, <2>2
  <2>6. a[n].role = "tool" => n > 1 /\ Answers(a[n], a[n - 1])
    BY <1>1, <2>1, <2>3
  <2> QED BY <2>4, <2>5, <2>6
<1>4. Replayable(a)
  <2>1. ASSUME NEW n \in DOMAIN a
        PROVE  /\ a[n].calls # {} => n < Len(a) /\ Answers(a[n + 1], a[n])
               /\ a[n].role = "tool" => n > 1 /\ Answers(a[n], a[n - 1])
               /\ a[n].role = "user" /\ n < Len(a) => a[n + 1].role # "user"
    <3>1. CASE n \in 1..Len(m)
      BY <1>3, <3>1
    <3>2. CASE n = Len(m) + 1
      BY <1>1, <3>2
    <3> QED BY <1>1, <3>1, <3>2
  <2> QED BY <2>1 DEF Replayable
<1> QED BY <1>1, <1>4 DEF a

(* Calls and their results after other messages. *)
LEMMA TwoMore ==
    ASSUME NEW m \in Seq(MessageSet), Replayable(m), NEW x \in MessageSet, NEW y \in MessageSet,
           Answers(y, x), y.calls = {}
    PROVE  m \o <<x, y>> \in Seq(MessageSet) /\ Replayable(m \o <<x, y>>)
<1> DEFINE a == m \o <<x, y>>
<1>1. /\ a \in Seq(MessageSet) /\ Len(m) \in Nat /\ Len(a) = Len(m) + 2
      /\ DOMAIN m = 1..Len(m) /\ DOMAIN a = 1..(Len(m) + 2)
      /\ a[Len(m) + 1] = x /\ a[Len(m) + 2] = y
      /\ \A n \in 1..Len(m) : a[n] = m[n]
  OBVIOUS
<1> HIDE DEF a
<1>2. x.role = "assistant" /\ y.role = "tool"
  BY DEF Answers
<1>3. ASSUME NEW n \in 1..Len(m)
      PROVE  /\ a[n].calls # {} => n < Len(a) /\ Answers(a[n + 1], a[n])
             /\ a[n].role = "tool" => n > 1 /\ Answers(a[n], a[n - 1])
             /\ a[n].role = "user" /\ n < Len(a) => a[n + 1].role # "user"
  <2>1. /\ m[n].calls # {} => n < Len(m) /\ Answers(m[n + 1], m[n])
        /\ m[n].role = "tool" => n > 1 /\ Answers(m[n], m[n - 1])
        /\ m[n].role = "user" /\ n < Len(m) => m[n + 1].role # "user"
    BY <1>1 DEF Replayable
  <2>2. n < Len(m) => n + 1 \in 1..Len(m)
    BY <1>1
  <2>3. n > 1 => n - 1 \in 1..Len(m)
    BY <1>1
  <2>4. a[n].role = "user" /\ n < Len(a) => a[n + 1].role # "user"
    <3>1. CASE n < Len(m)
      BY <1>1, <2>1, <2>2, <3>1
    <3>2. CASE n = Len(m)
      BY <1>1, <1>2, <3>2
    <3>3. n < Len(m) \/ n = Len(m)
      <4>1. n \in Nat /\ Len(m) \in Nat /\ n <= Len(m)
        BY <1>1
      <4> QED BY <4>1, SMT
    <3> QED BY <3>1, <3>2, <3>3
  <2>5. a[n].calls # {} => n < Len(a) /\ Answers(a[n + 1], a[n])
    BY <1>1, <2>1, <2>2
  <2>6. a[n].role = "tool" => n > 1 /\ Answers(a[n], a[n - 1])
    BY <1>1, <2>1, <2>3
  <2> QED BY <2>4, <2>5, <2>6
<1>4. Replayable(a)
  <2>1. ASSUME NEW n \in DOMAIN a
        PROVE  /\ a[n].calls # {} => n < Len(a) /\ Answers(a[n + 1], a[n])
               /\ a[n].role = "tool" => n > 1 /\ Answers(a[n], a[n - 1])
               /\ a[n].role = "user" /\ n < Len(a) => a[n + 1].role # "user"
    <3>1. CASE n \in 1..Len(m)
      BY <1>3, <3>1
    <3>2. CASE n = Len(m) + 1
      <4>1. a[n] = x /\ a[n + 1] = y /\ n < Len(a)
        BY <1>1, <3>2
      <4> QED BY <1>2, <4>1
    <3>3. CASE n = Len(m) + 2
      <4>1. a[n] = y /\ a[n - 1] = x /\ n > 1
        BY <1>1, <3>3
      <4> QED BY <1>2, <4>1
    <3> QED BY <1>1, <3>1, <3>2, <3>3
  <2> QED BY <2>1 DEF Replayable
<1> QED BY <1>1, <1>4 DEF a

LEMMA GroupAdded ==
    ASSUME NEW m \in Seq(MessageSet), Replayable(m), NEW g \in GroupSet
    PROVE  AddGroup(m, g) \in Seq(MessageSet) /\ Replayable(AddGroup(m, g))
<1>1. CASE g.round = 0
  <2>1. CASE m # <<>> /\ Last(m).role = "user"
    <3>1. AddGroup(m, g) = m
      BY <1>1, <2>1 DEF AddGroup
    <3> QED BY <3>1
  <2>2. CASE ~(m # <<>> /\ Last(m).role = "user")
    <3>1. AddGroup(m, g) = Append(m, UserMessage)
      BY <1>1, <2>2 DEF AddGroup
    <3>2. m = <<>> \/ m[Len(m)].role # "user"
      BY <2>2 DEF Last
    <3>3. /\ UserMessage \in MessageSet
          /\ UserMessage.role = "user" /\ UserMessage.calls = {}
      BY MessagesTyped
    <3> QED BY <3>1, <3>2, <3>3, OneMore
  <2> QED BY <2>1, <2>2
<1>2. CASE g.round # 0
  <2>1. AddGroup(m, g) = m \o Messages(g)
    BY <1>2 DEF AddGroup
  <2>2. PICK K \in SUBSET Slots :
            \/ Messages(g) = <<>>
            \/ Messages(g) = <<Assistant({})>>
            \/ Messages(g) = <<Assistant(K), ToolResults(K)>>
    BY MessagesOfGroup
  <2>3. CASE Messages(g) = <<>>
    BY <2>1, <2>3
  <2>4. CASE Messages(g) = <<Assistant({})>>
    <3>1. /\ Assistant({}) \in MessageSet
          /\ Assistant({}).role = "assistant" /\ Assistant({}).calls = {}
      BY MessagesTyped
    <3>2. AddGroup(m, g) = Append(m, Assistant({}))
      BY <2>1, <2>4, <3>1
    <3> QED BY <3>1, <3>2, OneMore
  <2>5. CASE Messages(g) = <<Assistant(K), ToolResults(K)>>
    <3>1. /\ Assistant(K) \in MessageSet /\ ToolResults(K) \in MessageSet
          /\ Answers(ToolResults(K), Assistant(K)) /\ ToolResults(K).calls = {}
      BY MessagesTyped
    <3> QED BY <2>1, <2>5, <3>1, TwoMore
  <2> QED BY <2>2, <2>3, <2>4, <2>5
<1> QED BY <1>1, <1>2

(* Whatever groups there are, the messages made of them can be sent. *)
LEMMA AssembledReplayable ==
    ASSUME NEW groups \in Seq(GroupSet)
    PROVE  Replayable(Assembled(groups))
<1>1. Len(groups) \in Nat /\ \A n \in 1..Len(groups) : groups[n] \in GroupSet
  OBVIOUS
<1>2. PICK F : IsLoop(F, "groups", groups, Len(groups)) /\ Assembled(groups) = F[Len(groups)]
  BY <1>1, AssemblingLoop
<1>3. /\ F[0] = <<>>
      /\ \A n \in 1..Len(groups) : F[n] = Iteration("groups", F[n - 1], groups[n])
  BY <1>1, <1>2, LoopValues
<1> DEFINE Fine == {n \in 0..Len(groups) : F[n] \in Seq(MessageSet) /\ Replayable(F[n])}
<1>4. 0 \in Fine
  <2>1. <<>> \in Seq(MessageSet) /\ DOMAIN <<>> = {}
    OBVIOUS
  <2>2. Replayable(<<>>)
    BY <2>1 DEF Replayable
  <2>3. F[0] \in Seq(MessageSet) /\ Replayable(F[0])
    BY <1>3, <2>1, <2>2
  <2>4. 0 \in 0..Len(groups)
    BY <1>1
  <2> QED BY <2>3, <2>4
<1>5. ASSUME NEW n \in 1..Len(groups), n - 1 \in Fine PROVE n \in Fine
  <2>1. F[n - 1] \in Seq(MessageSet) /\ Replayable(F[n - 1])
    BY <1>5
  <2>2. F[n] = AddGroup(F[n - 1], groups[n])
    BY <1>3 DEF Iteration
  <2>3. F[n] \in Seq(MessageSet) /\ Replayable(F[n])
    BY <1>1, <2>1, <2>2, GroupAdded
  <2> QED BY <1>1, <2>3
<1>6. 0..Len(groups) \subseteq Fine
  <2> HIDE DEF Fine
  <2> QED BY <1>1, <1>4, <1>5, UpTo DEF Inductive
<1>7. Len(groups) \in 0..Len(groups)
  BY <1>1
<1> QED BY <1>2, <1>6, <1>7


-----------------------------------------------------------------------------
(* The groups of the history                                               *)

(* What build_context makes of the entries of the running round: no calls  *)
(* before the response ended, and then those of the response, of which     *)
(* only calls that are done have a result.                                 *)
GroupsNow ==
    /\ Shaped(GroupByRound(hist), rid)
    /\ phase \in InRound => rid # 0
    /\ phase \in {"connecting", "streaming"} =>
          CallsOf(GroupByRound(hist), rid) \subseteq {<<<<>>, {}>>}
    /\ phase \in {"ended", "batch", "resting"} =>
          \A c \in CallsOf(GroupByRound(hist), rid) :
              c[1] = calls /\ \A i \in c[2] : i \in Slots /\ stage[i] = "done"

(* A history with the groups of this one. *)
GroupsAs(h) ==
    /\ Shaped(GroupByRound(h), rid)
    /\ \A q : q # 0 => CallsOf(GroupByRound(h), q) = CallsOf(GroupByRound(hist), q)

LEMMA GroupsUnchanged == Shaped(GroupByRound(hist), rid) => GroupsAs(hist)
BY DEF GroupsAs

LEMMA QuietEntry ==
    ASSUME rid \in Nat, hist \in Seq(Stored), NEW h \in Seq(Stored), GroupsAs(h), NEW e \in Stored,
           e.kind \in {"user", "steering", "request", "response"}
    PROVE  GroupsAs(Append(h, e))
<1>1. GroupByRound(Append(h, e)) = AddEntry(GroupByRound(h), e)
  BY GroupingAppended
<1>2. Shaped(GroupByRound(h), rid)
  BY DEF GroupsAs
<1>3. CASE e.kind \in {"user", "steering"}
  <2>1. /\ Shaped(AddEntry(GroupByRound(h), e), rid)
        /\ \A q : q # 0 => CallsOf(AddEntry(GroupByRound(h), e), q) = CallsOf(GroupByRound(h), q)
    BY <1>2, <1>3, MessageAdded
  <2> QED BY <1>1, <2>1 DEF GroupsAs
<1>4. CASE e.kind \in {"request", "response"}
  <2>1. AddEntry(GroupByRound(h), e) = GroupByRound(h)
    BY <1>4, OtherAdded
  <2> QED BY <1>1, <2>1 DEF GroupsAs
<1> QED BY <1>3, <1>4

LEMMA TextEntry ==
    ASSUME rid \in Nat, rid # 0, hist \in Seq(Stored), Shaped(GroupByRound(hist), rid),
           hist' = Append(hist, Entry("text", rid, 0))
    PROVE  /\ Shaped(GroupByRound(hist'), rid)
           /\ CallsOf(GroupByRound(hist'), rid) \subseteq
                  CallsOf(GroupByRound(hist), rid) \cup {<<<<>>, {}>>}
<1> DEFINE e == Entry("text", rid, 0)
<1>1. e \in Stored /\ e.kind = "text" /\ e.round = rid
  BY EntriesStored DEF Entry
<1>2. hist' = Append(hist, e)
  OBVIOUS
<1> HIDE DEF e
<1>3. GroupByRound(hist') = AddEntry(GroupByRound(hist), e)
  BY <1>1, <1>2, GroupingAppended
<1>4. e.round # 0 /\ e.round <= rid
  BY <1>1
<1>5. /\ Shaped(AddEntry(GroupByRound(hist), e), rid)
      /\ CallsOf(AddEntry(GroupByRound(hist), e), e.round) \subseteq
             CallsOf(GroupByRound(hist), e.round) \cup {<<<<>>, {}>>}
  BY <1>1, <1>4, TextAdded
<1> QED BY <1>1, <1>3, <1>5

(* The four ways a step leaves GroupsNow true. *)
LEMMA OutsideRounds ==
    ASSUME Shaped(GroupByRound(hist'), rid), rid' = rid, phase' \notin InRound
    PROVE  GroupsNow'
BY DEF GroupsNow, InRound

LEMMA NextRound ==
    ASSUME Shaped(GroupByRound(hist'), rid), rid \in Nat, rid' = rid + 1, phase' = "connecting"
    PROVE  GroupsNow'
<1> DEFINE groups == GroupByRound(hist')
<1>1. /\ groups \in Seq(GroupSet)
      /\ \A n \in DOMAIN groups : groups[n].round <= rid
      /\ \A m, n \in DOMAIN groups :
            groups[m].round = groups[n].round /\ groups[m].round # 0 => m = n
  BY DEF Shaped
<1> HIDE DEF groups
<1>2. ASSUME NEW n \in DOMAIN groups
      PROVE  groups[n].round <= rid + 1 /\ groups[n].round # rid + 1
  <2>1. groups[n].round \in Nat
    BY <1>1 DEF GroupSet
  <2> QED BY <1>1, <2>1
<1>3. Shaped(groups, rid + 1)
  BY <1>1, <1>2 DEF Shaped
<1>4. CallsOf(groups, rid + 1) = {}
  BY <1>2 DEF CallsOf
<1>5. rid + 1 # 0
  OBVIOUS
<1> QED BY <1>3, <1>4, <1>5 DEF GroupsNow, groups

LEMMA WhileStreaming ==
    ASSUME GroupsNow, Shaped(GroupByRound(hist'), rid), rid' = rid,
           phase \in {"connecting", "streaming"}, phase' \in {"connecting", "streaming"},
           CallsOf(GroupByRound(hist'), rid) \subseteq
               CallsOf(GroupByRound(hist), rid) \cup {<<<<>>, {}>>}
    PROVE  GroupsNow'
BY DEF GroupsNow, InRound

LEMMA AfterStreaming ==
    ASSUME GroupsNow, GroupsAs(hist'), UNCHANGED <<rid, calls>>,
           phase \in {"ended", "batch", "resting"}, phase' \in {"ended", "batch", "resting"},
           \A i \in Slots : stage[i] = "done" => stage'[i] = "done"
    PROVE  GroupsNow'
<1>1. rid # 0 /\ CallsOf(GroupByRound(hist'), rid) = CallsOf(GroupByRound(hist), rid)
  BY DEF GroupsAs, GroupsNow, InRound
<1>2. Shaped(GroupByRound(hist'), rid)
  BY DEF GroupsAs
<1> QED BY <1>1, <1>2 DEF GroupsNow

LEMMA ResultEntry ==
    ASSUME Control, GroupsNow, NEW i \in DOMAIN calls, i \in Slots, stage[i] # "done",
           phase \in {"batch", "resting"}, UNCHANGED <<rid, calls, phase>>,
           Move(i, "done"), hist' = Append(hist, Entry("result", rid, i))
    PROVE  GroupsNow'
<1> DEFINE e == Entry("result", rid, i)
           groups == GroupByRound(hist)
<1>1. rid \in Nat /\ rid # 0 /\ hist \in Seq(Stored) /\ stage \in [Slots -> Stages]
  BY DEF Control, Typed, GroupsNow, InRound
<1>2. e \in Stored /\ e.kind = "result" /\ e.round = rid /\ e.item = i
  BY <1>1, EntriesStored DEF Entry
<1>3. hist' = Append(hist, e)
  OBVIOUS
<1> HIDE DEF e
<1>4. GroupByRound(hist') = AddEntry(groups, e)
  BY <1>1, <1>2, <1>3, GroupingAppended
<1> HIDE DEF groups
<1>5. /\ Shaped(groups, rid)
      /\ \A c \in CallsOf(groups, rid) :
            c[1] = calls /\ \A j \in c[2] : j \in Slots /\ stage[j] = "done"
  BY DEF GroupsNow, groups
<1>6. \A c \in CallsOf(groups, e.round) : e.item \in DOMAIN c[1] \ c[2]
  BY <1>2, <1>5
<1>7. e.round # 0 /\ e.round <= rid
  BY <1>1, <1>2
<1>8. /\ Shaped(AddEntry(groups, e), rid)
      /\ CallsOf(AddEntry(groups, e), e.round) =
             {<<c[1], c[2] \cup {e.item}>> : c \in CallsOf(groups, e.round)}
  BY <1>1, <1>2, <1>5, <1>6, <1>7, ResultAdded
<1>9. stage'[i] = "done" /\ \A j \in Slots : stage[j] = "done" => stage'[j] = "done"
  BY <1>1 DEF Move
<1>10. ASSUME NEW c \in CallsOf(AddEntry(groups, e), rid)
       PROVE  c[1] = calls /\ \A j \in c[2] : j \in Slots /\ stage'[j] = "done"
  <2>1. PICK b \in CallsOf(groups, rid) : c = <<b[1], b[2] \cup {i}>>
    BY <1>2, <1>8
  <2> QED BY <1>5, <1>9, <2>1
<1> QED BY <1>1, <1>4, <1>8, <1>10 DEF GroupsNow

LEMMA StreamGroups ==
    ASSUME Control, GroupsNow, Stream
    PROVE  GroupsNow'
<1>1. rid \in Nat /\ hist \in Seq(Stored) /\ Shaped(GroupByRound(hist), rid)
  BY DEF Control, Typed, GroupsNow
<1>2. GroupsAs(hist)
  BY <1>1, GroupsUnchanged
<1>3. ASSUME phase \in InRound, Flush \/ hist' = Append(hist, Entry("text", rid, 0))
      PROVE  /\ Shaped(GroupByRound(hist'), rid)
             /\ CallsOf(GroupByRound(hist'), rid) \subseteq
                    CallsOf(GroupByRound(hist), rid) \cup {<<<<>>, {}>>}
  <2>1. CASE hist' = hist
    BY <1>1, <2>1
  <2>2. CASE hist' = Append(hist, Entry("text", rid, 0))
    <3>1. rid # 0
      BY <1>3 DEF GroupsNow
    <3> QED BY <1>1, <2>2, <3>1, TextEntry
  <2> QED BY <1>3, <2>1, <2>2 DEF Flush
<1>4. CASE BeginRound \/ Interrupted \/ StopStream
  <2>1. Shaped(GroupByRound(hist'), rid)
    BY <1>1, <1>3, <1>4 DEF BeginRound, Interrupted, StopStream, InRound
  <2>2. CASE EndTurn
    BY <2>1, <2>2, OutsideRounds DEF EndTurn, InRound
  <2>3. CASE ~EndTurn
    <3>1. phase' = "connecting" /\ rid' = rid + 1
      BY <1>4, <2>3 DEF BeginRound, Interrupted, StopStream
    <3> QED BY <1>1, <2>1, <3>1, NextRound
  <2> QED BY <2>2, <2>3
<1>5. CASE Connect \/ PartStart \/ PartEnd
  <2>1. /\ Shaped(GroupByRound(hist'), rid) /\ phase \in {"connecting", "streaming"}
        /\ CallsOf(GroupByRound(hist'), rid) \subseteq
               CallsOf(GroupByRound(hist), rid) \cup {<<<<>>, {}>>}
    BY <1>1, <1>3, <1>5 DEF Connect, PartStart, PartEnd, InRound
  <2>2. CASE EndTurn
    BY <2>1, <2>2, OutsideRounds DEF EndTurn, InRound
  <2>3. CASE ~EndTurn
    <3>1. phase' \in {"connecting", "streaming"} /\ rid' = rid
      BY <1>5, <2>3 DEF Connect, PartStart, PartEnd, respVars
    <3> QED BY <2>1, <3>1, WhileStreaming
  <2> QED BY <2>2, <2>3
<1>6. CASE ResponseEnd
  <2>1. hist' = hist /\ phase = "streaming"
    BY <1>6 DEF ResponseEnd
  <2>2. CASE EndTurn
    BY <1>1, <2>1, <2>2, OutsideRounds DEF EndTurn, InRound
  <2>3. CASE ~EndTurn
    <3>1. phase' = "ended" /\ UNCHANGED <<rid, calls>> /\ calls = <<>>
      BY <1>6, <2>1, <2>3 DEF ResponseEnd, respVars, Control, Phased
    <3>2. CallsOf(GroupByRound(hist), rid) \subseteq {<<<<>>, {}>>} /\ rid # 0
      BY <2>1 DEF GroupsNow, InRound
    <3>3. \A c \in CallsOf(GroupByRound(hist), rid) : c[1] = <<>> /\ c[2] = {}
      BY <3>2
    <3> QED BY <1>1, <2>1, <3>1, <3>2, <3>3 DEF GroupsNow
  <2> QED BY <2>2, <2>3
<1>7. ASSUME NEW group \in Groups, ToolCalls(group) PROVE GroupsNow'
  <2> DEFINE e == Entry("calls", rid, group)
             groups == GroupByRound(hist)
  <2>1. phase = "streaming" /\ phase' = "ended" /\ calls' = group /\ rid' = rid
    BY <1>7 DEF ToolCalls
  <2>2. e \in Stored /\ e.kind = "calls" /\ e.round = rid /\ e.item = group
    BY <1>1, EntriesStored DEF Entry
  <2>3. hist' = Append(hist, e)
    BY <1>7 DEF ToolCalls
  <2> HIDE DEF e
  <2>4. GroupByRound(hist') = AddEntry(groups, e)
    BY <1>1, <2>2, <2>3, GroupingAppended
  <2>5. CallsOf(groups, rid) \subseteq {<<<<>>, {}>>} /\ rid # 0 /\ Shaped(groups, rid)
    BY <2>1 DEF GroupsNow, InRound
  <2> HIDE DEF groups
  <2>6. e.round # 0 /\ e.round <= rid /\ CallsOf(groups, e.round) \subseteq {<<<<>>, {}>>}
    BY <1>1, <2>2, <2>5
  <2>7. /\ Shaped(AddEntry(groups, e), rid)
        /\ CallsOf(AddEntry(groups, e), e.round) = {<<e.item, {}>>}
    BY <1>1, <2>2, <2>5, <2>6, CallsAdded
  <2>8. \A c \in CallsOf(GroupByRound(hist'), rid) : c[1] = group /\ c[2] = {}
    BY <2>2, <2>4, <2>7
  <2> QED BY <2>1, <2>4, <2>5, <2>7, <2>8 DEF GroupsNow
<1>8. CASE AfterResponse \/ BatchDrained
  <2>1. /\ phase \in {"ended", "batch"} /\ UNCHANGED <<hist, rid, calls, stage>>
        /\ phase' \in {"resting", "batch", "closing"}
    BY <1>8 DEF AfterResponse, BatchDrained, respVars, toolVars
  <2>2. CASE phase' = "closing"
    BY <1>1, <2>1, <2>2, OutsideRounds DEF InRound
  <2>3. CASE phase' # "closing"
    BY <1>2, <2>1, <2>3, AfterStreaming
  <2> QED BY <2>2, <2>3
<1>9. CASE BatchDone
  BY <1>1, <1>9, OutsideRounds DEF BatchDone, EndTurn, respVars, InRound
<1>10. CASE Checkpoint
  <2> DEFINE e == Entry("steering", 0, 0)
  <2>1. phase' \in {"idle", "ready"} /\ rid' = rid /\ hist' \in {hist, Append(hist, e)}
    BY <1>10 DEF Checkpoint, EndTurn, respVars
  <2>2. e \in Stored /\ e.kind = "steering"
    BY <1>1, EntriesStored DEF Entry
  <2> HIDE DEF e
  <2>3. GroupsAs(Append(hist, e))
    BY <1>1, <1>2, <2>2, QuietEntry
  <2>4. Shaped(GroupByRound(hist'), rid)
    BY <1>1, <2>1, <2>3 DEF GroupsAs
  <2> QED BY <2>1, <2>4, OutsideRounds DEF InRound
<1> QED BY <1>4, <1>5, <1>6, <1>7, <1>8, <1>9, <1>10 DEF Stream

LEMMA ToolGroups ==
    ASSUME Control, GroupsNow, NEW i \in Slots, Tool(i) \/ ToolAsk(i) \/ Timeout(i)
    PROVE  GroupsNow'
<1> USE DEF Control
<1>1. /\ UNCHANGED <<rid, calls, phase>> /\ rid \in Nat /\ hist \in Seq(Stored)
      /\ stage \in [Slots -> Stages] /\ Shaped(GroupByRound(hist), rid)
  <2>1. UNCHANGED <<rid, calls, phase>>
    BY DEF Tool, ToolAsk, Timeout, StartCall, Gate, PermissionHook, AskApproval,
           GateWakes, ToolWakes, Finish, PersistResult, CancelPending, respVars
  <2> QED BY <2>1 DEF Typed, GroupsNow
<1>2. GroupsAs(hist)
  BY <1>1, GroupsUnchanged
<1>3. ASSUME NEW p \in Prompt PROVE
         /\ GroupsAs(Append(hist, Entry("request", 0, p)))
         /\ GroupsAs(Append(hist, Entry("response", 0, p)))
         /\ GroupsAs(hist \o <<Entry("request", 0, p), Entry("response", 0, p)>>)
  <2> DEFINE a == Entry("request", 0, p)
             b == Entry("response", 0, p)
             h == Append(hist, a)
  <2>1. a \in Stored /\ b \in Stored
    BY EntriesStored
  <2>2. a.kind = "request" /\ b.kind = "response"
    BY DEF Entry
  <2>3. hist \o <<a, b>> = Append(h, b)
    BY <1>1, <2>1, TwoAppended
  <2> HIDE DEF a, b
  <2>4. h \in Seq(Stored)
    BY <1>1, <2>1
  <2>5. GroupsAs(h) /\ GroupsAs(Append(hist, b))
    BY <1>1, <1>2, <2>1, <2>2, QuietEntry
  <2> HIDE DEF h
  <2>6. GroupsAs(Append(h, b))
    BY <1>1, <2>1, <2>2, <2>4, <2>5, QuietEntry
  <2> QED BY <2>3, <2>5, <2>6 DEF a, b, h
<1>4. CASE ~PersistResult(i) /\ ~CancelPending(i)
  <2>1. GroupsAs(hist')
    BY <1>1, <1>2, <1>3, <1>4, PromptsTyped
       DEF Tool, ToolAsk, Timeout, StartCall, Gate, PermissionHook, AskApproval,
           GateWakes, ToolWakes, Finish, Ask, Close
  <2>2. phase = "batch"
    BY <1>4, FuturesInBatch DEF Tool, ToolAsk, Timeout, StartCall, Gate, PermissionHook,
           AskApproval, GateWakes, ToolWakes, Finish
  <2>3. stage[i] # "done"
    BY <1>4, NextCall DEF Tool, ToolAsk, Timeout, StartCall, Gate, PermissionHook, AskApproval,
           GateWakes, ToolWakes, Finish
  <2>4. \E s : Move(i, s)
    BY <1>4 DEF Tool, ToolAsk, Timeout, StartCall, Gate, PermissionHook, AskApproval,
           GateWakes, ToolWakes, Finish, Ask
  <2>5. \A j \in Slots : stage[j] = "done" => stage'[j] = "done"
    BY <1>1, <2>3, <2>4 DEF Move
  <2> QED BY <1>1, <2>1, <2>2, <2>5, AfterStreaming
<1>5. CASE PersistResult(i)
  <2>1. stage[i] = "settled" /\ Move(i, "done")
    BY <1>5 DEF PersistResult
  <2>2. phase = "batch" /\ i \in DOMAIN calls
    BY <2>1, FuturesInBatch
  <2>3. CASE hist' = hist
    <3>1. \A j \in Slots : stage[j] = "done" => stage'[j] = "done"
      BY <1>1, <2>1 DEF Move
    <3> QED BY <1>1, <1>2, <2>2, <2>3, <3>1, AfterStreaming
  <2>4. CASE hist' = Append(hist, Entry("result", rid, i))
    BY <1>1, <2>1, <2>2, <2>4, ResultEntry
  <2> QED BY <1>5, <2>3, <2>4 DEF PersistResult
<1>6. CASE CancelPending(i)
  <2>1. /\ phase = "resting" /\ IsNext(i) /\ Move(i, "done")
        /\ hist' = Append(hist, Entry("result", rid, i))
    BY <1>6 DEF CancelPending
  <2>2. i \in DOMAIN calls /\ stage[i] # "done"
    BY <2>1, NextCall
  <2> QED BY <1>1, <2>1, <2>2, ResultEntry
<1> QED BY <1>4, <1>5, <1>6

LEMMA OtherGroups ==
    ASSUME Control, GroupsNow,
           \/ User \/ TurnFails \/ Crash \/ Boot \/ Booted
           \/ \E p \in Unanswered : CloseOrphan(p)
    PROVE  GroupsNow'
<1> USE DEF Control
<1>1. rid \in Nat /\ hist \in Seq(Stored) /\ Shaped(GroupByRound(hist), rid)
  BY DEF Typed, GroupsNow
<1>2. GroupsAs(hist)
  BY <1>1, GroupsUnchanged
<1>3. ASSUME NEW e \in Stored, e.kind \in {"user", "response"}, hist' = Append(hist, e),
             rid' = rid, phase' \notin InRound
      PROVE  GroupsNow'
  <2>1. GroupsAs(Append(hist, e))
    BY <1>1, <1>2, <1>3, QuietEntry
  <2> QED BY <1>3, <2>1, OutsideRounds DEF GroupsAs
<1>4. CASE StartTurn
  <2> DEFINE e == Entry("user", 0, 0)
  <2>1. phase' = "ready" /\ hist' = Append(hist, e) /\ rid' = rid
    BY <1>4 DEF StartTurn, respVars
  <2>2. e \in Stored /\ e.kind = "user"
    BY <1>1, EntriesStored DEF Entry
  <2> HIDE DEF e
  <2> QED BY <1>3, <2>1, <2>2 DEF InRound
<1>5. CASE CancelTurn \/ \E p \in waiting, d \in Decisions : AnswerInteraction(p, d)
  BY <1>5 DEF CancelTurn, AnswerInteraction, GroupsNow, respVars, toolVars
<1>6. CASE TurnFails \/ Crash
  BY <1>1, <1>6, OutsideRounds DEF TurnFails, Crash, EndTurn, InRound
<1>7. CASE Boot \/ Booted
  BY <1>1, <1>7, OutsideRounds DEF Boot, Booted, respVars, InRound
<1>8. ASSUME NEW p \in Unanswered, CloseOrphan(p) PROVE GroupsNow'
  <2> DEFINE e == Entry("response", 0, p)
  <2>1. hist' = Append(hist, e) /\ phase' = "booting" /\ rid' = rid
    BY <1>8 DEF CloseOrphan, respVars
  <2>2. p \in Prompt
    <3>1. PICK n \in DOMAIN hist : hist[n].kind = "request" /\ hist[n].item = p
      BY DEF Unanswered, ItemsOf
    <3>2. hist[n] \in Stored
      BY <1>1
    <3> QED BY <3>1, <3>2, StoredFields
  <2>3. e \in Stored /\ e.kind = "response"
    BY <2>2, EntriesStored DEF Entry
  <2> HIDE DEF e
  <2> QED BY <1>3, <2>1, <2>3 DEF InRound
<1> QED BY <1>4, <1>5, <1>6, <1>7, <1>8 DEF User

LEMMA GroupsHold ==
    ASSUME Control, GroupsNow, Next
    PROVE  GroupsNow'
BY StreamGroups, ToolGroups, OtherGroups DEF Next

(* The groups build_context makes of the history, in every reachable       *)
(* state: those of the running round fit the response.                     *)
LEMMA GroupsInvariant == Spec => []GroupsNow
<1>1. Init => GroupsNow
  <2> SUFFICES ASSUME Init PROVE GroupsNow
    OBVIOUS
  <2>1. hist = <<>> /\ rid = 0 /\ phase = "idle"
    BY DEF Init
  <2>2. Shaped(<<>>, 0)
    BY DEF Shaped
  <2> QED BY <2>1, <2>2, GroupingEmpty DEF GroupsNow, InRound
<1>2. IInv /\ GroupsNow /\ [Next]_vars => GroupsNow'
  <2>1. CASE Next
    BY <2>1, GroupsHold DEF IInv, Control
  <2>2. CASE UNCHANGED vars
    BY <2>2 DEF vars, GroupsNow
  <2> QED BY <2>1, <2>2
<1> QED BY <1>1, <1>2, Invariance, PTL DEF Spec

(* Whenever a request is built, and whatever a crash has left to the next  *)
(* process, the messages build_context makes of the history are such that  *)
(* every call is followed by exactly one result.                           *)
THEOREM RequestsAreReplayable == Spec => []ContextReplayable
<1>1. GroupsNow => ContextReplayable
  <2> SUFFICES ASSUME GroupsNow PROVE Replayable(BuildContext(hist))
    BY DEF ContextReplayable
  <2>1. GroupByRound(hist) \in Seq(GroupSet)
    BY DEF GroupsNow, Shaped
  <2> QED BY <2>1, AssembledReplayable DEF BuildContext
<1> QED BY <1>1, GroupsInvariant, PTL

=============================================================================

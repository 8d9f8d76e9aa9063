--------------------------- MODULE EventHubProofs ---------------------------
(***************************************************************************)
(* Proofs about EventHub for any sessions, clients and capacities.         *)
(***************************************************************************)
EXTENDS EventHub, SequenceTheorems, WellFoundedInduction, TLAPS

(* Induction over a range of numbers, from < being well-founded.           *)
NatOrder == {p \in Nat \X Nat : p[1] < p[2]}

LEMMA NatOrderWellFounded == IsWellFoundedOn(NatOrder, Nat)
<1>1. OpToRel(<, Nat) = NatOrder
  BY DEF OpToRel, NatOrder
<1> QED BY <1>1, NatLessThanWellFounded, Zenon

LEMMA LeastExists ==
    ASSUME NEW S \in SUBSET Nat, S # {}
    PROVE  \E n \in S : \A m \in S : n <= m
<1>1. PICK n \in S : \A m \in S : <<m, n>> \notin NatOrder
  BY NatOrderWellFounded, WFMin
<1>2. ASSUME NEW m \in S PROVE n <= m
  <2>1. m \in Nat /\ n \in Nat
    OBVIOUS
  <2>2. <<m, n>> \in NatOrder <=> m < n
    BY <2>1 DEF NatOrder
  <2> QED BY <1>1, <2>1, <2>2
<1> QED BY <1>2

Inductive(S, L) == 0 \in S /\ \A n \in 1..L : n - 1 \in S => n \in S

LEMMA UpTo ==
    ASSUME NEW L \in Nat, NEW S, Inductive(S, L)
    PROVE  0..L \subseteq S
<1> USE DEF Inductive
<1> DEFINE Bad == {n \in 0..L : n \notin S}
<1> SUFFICES ASSUME Bad # {} PROVE FALSE
  OBVIOUS
<1>1. PICK n \in Bad : \A m \in Bad : n <= m
  <2>1. Bad \in SUBSET Nat
    OBVIOUS
  <2> HIDE DEF Bad
  <2> QED BY <2>1, LeastExists
<1>2. n \in 1..L /\ n - 1 \in 0..L
  BY <1>1
<1>3. n - 1 \notin Bad
  <2>1. n - 1 < n
    BY <1>2
  <2> HIDE DEF Bad
  <2> QED BY <1>1, <1>2, <2>1
<1> QED BY <1>1, <1>2, <1>3

(* What a recursive function over the positions of a sequence is: step     *)
(* says what the next value is.                                            *)
IsStep(step, V, L) == \A n \in 1..L : \A v \in V : step[n][v] \in V

Follows(F, base, step, L) ==
    F[0] = base /\ \A n \in 1..L : F[n] = step[n][F[n - 1]]

LEMMA FollowsOnce ==
    ASSUME NEW L \in Nat, NEW base, NEW step, NEW F, NEW G,
           Follows(F, base, step, L), Follows(G, base, step, L)
    PROVE  \A n \in 0..L : F[n] = G[n]
<1> DEFINE Same == {n \in 0..L : F[n] = G[n]}
<1>1. 0 \in Same
  BY DEF Follows
<1>2. ASSUME NEW n \in 1..L, n - 1 \in Same PROVE n \in Same
  <2>1. n \in 0..L /\ F[n - 1] = G[n - 1]
    BY <1>2
  <2> QED BY <2>1 DEF Follows
<1>3. 0..L \subseteq Same
  <2> HIDE DEF Same
  <2> QED BY <1>1, <1>2, UpTo DEF Inductive
<1> QED BY <1>3

Computed(F, base, step, V, L) == F \in [0..L -> V] /\ Follows(F, base, step, L)

LEMMA RecursionExists ==
    ASSUME NEW V, NEW L \in Nat, NEW base \in V, NEW step, IsStep(step, V, L)
    PROVE  \E F : Computed(F, base, step, V, L)
<1> DEFINE Good == {k \in 0..L : \E F : Computed(F, base, step, V, k)}
<1>1. 0 \in Good
  <2>1. Computed([n \in 0..0 |-> base], base, step, V, 0)
    BY DEF Computed, Follows
  <2>2. 0 \in 0..L
    OBVIOUS
  <2> QED BY <2>1, <2>2
<1>2. ASSUME NEW k \in 1..L, k - 1 \in Good PROVE k \in Good
  <2>1. PICK F : Computed(F, base, step, V, k - 1)
    BY <1>2
  <2> DEFINE G == [n \in 0..k |-> IF n = k THEN step[k][F[k - 1]] ELSE F[n]]
  <2>2. F[k - 1] \in V /\ step[k][F[k - 1]] \in V
    BY <2>1 DEF Computed, IsStep
  <2>3. \A n \in 0..k : n # k => n \in 0..(k - 1)
    OBVIOUS
  <2>4. G \in [0..k -> V]
    BY <2>1, <2>2, <2>3 DEF Computed
  <2>5. /\ G[k] = step[k][F[k - 1]]
        /\ \A n \in 0..(k - 1) : G[n] = F[n]
    OBVIOUS
  <2> HIDE DEF G
  <2>6. ASSUME NEW n \in 1..k PROVE G[n] = step[n][G[n - 1]]
    <3>1. n - 1 \in 0..(k - 1) /\ (n # k => n \in 1..(k - 1) /\ n \in 0..(k - 1))
      OBVIOUS
    <3>2. G[n - 1] = F[n - 1]
      BY <2>5, <3>1
    <3>3. CASE n = k
      BY <2>5, <3>2, <3>3
    <3>4. CASE n # k
      BY <2>1, <2>5, <3>1, <3>2, <3>4 DEF Computed, Follows
    <3> QED BY <3>3, <3>4
  <2>7. Computed(G, base, step, V, k)
    <3>1. G[0] = base
      <4>1. 0 \in 0..(k - 1)
        OBVIOUS
      <4> QED BY <2>1, <2>5, <4>1 DEF Computed, Follows
    <3> QED BY <2>4, <2>6, <3>1 DEF Computed, Follows
  <2>8. k \in 0..L
    OBVIOUS
  <2> QED BY <2>7, <2>8
<1>3. L \in Good
  <2> HIDE DEF Good
  <2> QED BY <1>1, <1>2, UpTo DEF Inductive
<1> QED BY <1>3

-----------------------------------------------------------------------------
(* Total                                                                   *)
TotalStep(s) == [n \in 1..Len(s) |-> [v \in Nat |-> v + s[n]]]

LEMMA TotalIs ==
    ASSUME NEW s \in Seq(Nat)
    PROVE  \E F : /\ Computed(F, 0, TotalStep(s), Nat, Len(s))
                  /\ Total(s) = F[Len(s)]
<1> DEFINE L == Len(s)
           Rec(F) == [n \in 0..L |-> IF n = 0 THEN 0 ELSE F[n - 1] + s[n]]
           C == CHOOSE F : F = Rec(F)
<1>1. L \in Nat /\ 0 \in Nat /\ 0 \in 0..L
  OBVIOUS
<1>2. Total(s) = C[L]
  BY DEF Total
<1>3. /\ IsStep(TotalStep(s), Nat, L)
      /\ \A n \in 1..L : \A v \in Nat : TotalStep(s)[n][v] = v + s[n]
  BY DEF IsStep, TotalStep
<1>4. \A n \in 0..L : n = 0 \/ (n \in 1..L /\ n # 0 /\ n - 1 \in 0..L)
  OBVIOUS
<1>5. \A n \in 1..L : n # 0 /\ n \in 0..L
  OBVIOUS
<1> HIDE DEF L
<1>6. PICK G : Computed(G, 0, TotalStep(s), Nat, L)
  BY <1>1, <1>3, RecursionExists
<1>7. G = Rec(G)
  <2>1. ASSUME NEW n \in 0..L PROVE G[n] = Rec(G)[n]
    <3>1. CASE n = 0
      BY <1>6, <3>1 DEF Computed, Follows
    <3>2. CASE n # 0
      <4>1. n \in 1..L /\ n - 1 \in 0..L
        BY <1>4, <3>2
      <4>2. G[n] = TotalStep(s)[n][G[n - 1]] /\ G[n - 1] \in Nat
        BY <1>6, <4>1 DEF Computed, Follows
      <4> QED BY <1>3, <3>2, <4>1, <4>2
    <3> QED BY <3>1, <3>2
  <2>2. G \in [0..L -> Nat]
    BY <1>6 DEF Computed
  <2> QED BY <2>1, <2>2
<1>8. C = Rec(C)
  <2> HIDE DEF Rec
  <2> QED BY <1>7
<1> HIDE DEF C
<1>9. C = G
  <2>1. ASSUME NEW n \in 1..L, C[n - 1] = G[n - 1] PROVE C[n] = G[n]
    <3>1. C[n] = C[n - 1] + s[n] /\ G[n] = G[n - 1] + s[n]
      BY <1>5, <1>7, <1>8
    <3> QED BY <2>1, <3>1
  <2>2. C[0] = G[0]
    BY <1>1, <1>7, <1>8
  <2> DEFINE Same == {n \in 0..L : C[n] = G[n]}
  <2>3. 0 \in Same /\ \A n \in 1..L : n - 1 \in Same => n \in Same
    BY <1>1, <1>5, <2>1, <2>2
  <2>4. 0..L \subseteq Same
    <3> HIDE DEF Same
    <3> QED BY <1>1, <2>3, UpTo DEF Inductive
  <2> QED BY <1>7, <1>8, <2>4
<1> QED BY <1>2, <1>6, <1>9 DEF L

LEMMA TotalNat == ASSUME NEW s \in Seq(Nat) PROVE Total(s) \in Nat
<1>1. PICK F : Computed(F, 0, TotalStep(s), Nat, Len(s)) /\ Total(s) = F[Len(s)]
  BY TotalIs
<1> QED BY <1>1 DEF Computed

LEMMA TotalEmpty == Total(<<>>) = 0
<1>1. <<>> \in Seq(Nat) /\ Len(<<>>) = 0
  OBVIOUS
<1> QED BY <1>1, TotalIs DEF Computed, Follows

LEMMA TotalAppend ==
    ASSUME NEW s \in Seq(Nat), NEW x \in Nat
    PROVE  Total(Append(s, x)) = Total(s) + x
<1> DEFINE t == Append(s, x)
           L == Len(s)
<1>1. /\ t \in Seq(Nat) /\ Len(t) = L + 1 /\ L \in Nat
      /\ \A v \in Nat : TotalStep(t)[L + 1][v] = v + x
      /\ \A n \in 1..L : TotalStep(t)[n] = TotalStep(s)[n]
  <2>1. t \in Seq(Nat) /\ Len(t) = L + 1 /\ L \in Nat /\ t[L + 1] = x
    OBVIOUS
  <2>2. \A n \in 1..L : t[n] = s[n]
    OBVIOUS
  <2> HIDE DEF t
  <2>3. \A n \in 1..(L + 1) : TotalStep(t)[n] = [v \in Nat |-> v + t[n]]
    BY <2>1 DEF TotalStep
  <2>4. \A n \in 1..L : TotalStep(s)[n] = [v \in Nat |-> v + s[n]]
    BY DEF TotalStep
  <2>5. L + 1 \in 1..(L + 1) /\ \A n \in 1..L : n \in 1..(L + 1)
    BY <2>1
  <2>6. \A v \in Nat : TotalStep(t)[L + 1][v] = v + x
    BY <2>1, <2>3, <2>5
  <2>7. ASSUME NEW n \in 1..L PROVE TotalStep(t)[n] = TotalStep(s)[n]
    BY <2>2, <2>3, <2>4, <2>5
  <2> QED BY <2>1, <2>6, <2>7
<1>2. PICK F : Computed(F, 0, TotalStep(s), Nat, L) /\ Total(s) = F[L]
  BY TotalIs
<1>3. PICK G : Computed(G, 0, TotalStep(t), Nat, L + 1) /\ Total(t) = G[L + 1]
  <2> HIDE DEF t, L
  <2> QED BY <1>1, TotalIs
<1> HIDE DEF t, L
<1>4. \A n \in 1..L : n \in 1..(L + 1)
  BY <1>1
<1>5. L \in 0..L /\ L \in 0..(L + 1) /\ L + 1 \in 1..(L + 1) /\ (L + 1) - 1 = L
  BY <1>1
<1>6. Follows(G, 0, TotalStep(s), L)
  BY <1>1, <1>3, <1>4 DEF Computed, Follows
<1>7. G[L] = F[L] /\ F[L] \in Nat
  <2>1. Follows(F, 0, TotalStep(s), L) /\ F[L] \in Nat
    BY <1>2, <1>5 DEF Computed
  <2>2. \A n \in 0..L : F[n] = G[n]
    BY <1>1, <1>6, <2>1, FollowsOnce
  <2> QED BY <1>5, <2>1, <2>2
<1>8. G[L + 1] = TotalStep(t)[L + 1][G[L]]
  BY <1>3, <1>5 DEF Computed, Follows
<1> QED BY <1>1, <1>2, <1>3, <1>7, <1>8 DEF t

-----------------------------------------------------------------------------
(* Select                                                                  *)
SelectStep(s, T, S) ==
    [n \in 1..Len(s) |->
        [v \in Seq(S) |-> IF s[n] \in T THEN Append(v, s[n]) ELSE v]]

LEMMA SelectSteps ==
    ASSUME NEW S, NEW T, NEW s \in Seq(S)
    PROVE  /\ IsStep(SelectStep(s, T, S), Seq(S), Len(s))
           /\ \A n \in 1..Len(s) : \A v \in Seq(S) :
                 SelectStep(s, T, S)[n][v] = IF s[n] \in T THEN Append(v, s[n]) ELSE v
<1>1. ASSUME NEW n \in 1..Len(s), NEW v \in Seq(S)
      PROVE  /\ SelectStep(s, T, S)[n][v] = IF s[n] \in T THEN Append(v, s[n]) ELSE v
             /\ SelectStep(s, T, S)[n][v] \in Seq(S)
  <2>1. SelectStep(s, T, S)[n][v] = IF s[n] \in T THEN Append(v, s[n]) ELSE v
    BY DEF SelectStep
  <2>2. s[n] \in S
    OBVIOUS
  <2> QED BY <2>1, <2>2
<1> QED BY <1>1 DEF IsStep

LEMMA SelectIs ==
    ASSUME NEW S, NEW T, NEW s \in Seq(S)
    PROVE  \E F : /\ Computed(F, <<>>, SelectStep(s, T, S), Seq(S), Len(s))
                  /\ Select(s, T) = F[Len(s)]
<1> DEFINE L == Len(s)
           Rec(F) == [n \in 0..L |-> IF n = 0 THEN <<>>
                                     ELSE IF s[n] \in T THEN Append(F[n - 1], s[n])
                                     ELSE F[n - 1]]
           C == CHOOSE F : F = Rec(F)
<1>1. L \in Nat /\ 0 \in 0..L /\ <<>> \in Seq(S)
  OBVIOUS
<1>2. Select(s, T) = C[L]
  BY DEF Select
<1>3. \A n \in 0..L : n = 0 \/ (n \in 1..L /\ n # 0 /\ n - 1 \in 0..L)
  OBVIOUS
<1>4. \A n \in 1..L : n # 0 /\ n \in 0..L
  OBVIOUS
<1>5. /\ IsStep(SelectStep(s, T, S), Seq(S), L)
      /\ \A n \in 1..L : \A v \in Seq(S) :
            SelectStep(s, T, S)[n][v] = IF s[n] \in T THEN Append(v, s[n]) ELSE v
  BY SelectSteps
<1> HIDE DEF L
<1>6. PICK G : Computed(G, <<>>, SelectStep(s, T, S), Seq(S), L)
  BY <1>1, <1>5, RecursionExists
<1>7. G = Rec(G)
  <2>1. ASSUME NEW n \in 0..L PROVE G[n] = Rec(G)[n]
    <3>1. CASE n = 0
      BY <1>6, <3>1 DEF Computed, Follows
    <3>2. CASE n # 0
      <4>1. n \in 1..L /\ n - 1 \in 0..L
        BY <1>3, <3>2
      <4>2. G[n] = SelectStep(s, T, S)[n][G[n - 1]] /\ G[n - 1] \in Seq(S)
        BY <1>6, <4>1 DEF Computed, Follows
      <4> QED BY <1>5, <3>2, <4>1, <4>2
    <3> QED BY <3>1, <3>2
  <2>2. G \in [0..L -> Seq(S)]
    BY <1>6 DEF Computed
  <2> QED BY <2>1, <2>2
<1>8. C = Rec(C)
  <2> HIDE DEF Rec
  <2> QED BY <1>7
<1> HIDE DEF C
<1>9. C = G
  <2>1. ASSUME NEW n \in 1..L, C[n - 1] = G[n - 1] PROVE C[n] = G[n]
    <3>1. /\ C[n] = IF s[n] \in T THEN Append(C[n - 1], s[n]) ELSE C[n - 1]
          /\ G[n] = IF s[n] \in T THEN Append(G[n - 1], s[n]) ELSE G[n - 1]
      BY <1>4, <1>7, <1>8
    <3> QED BY <2>1, <3>1
  <2>2. C[0] = G[0]
    BY <1>1, <1>7, <1>8
  <2> DEFINE Same == {n \in 0..L : C[n] = G[n]}
  <2>3. 0 \in Same /\ \A n \in 1..L : n - 1 \in Same => n \in Same
    BY <1>1, <1>4, <2>1, <2>2
  <2>4. 0..L \subseteq Same
    <3> HIDE DEF Same
    <3> QED BY <1>1, <2>3, UpTo DEF Inductive
  <2> QED BY <1>7, <1>8, <2>4
<1> QED BY <1>2, <1>6, <1>9 DEF L

LEMMA SelectSeqOf ==
    ASSUME NEW S, NEW T, NEW s \in Seq(S)
    PROVE  Select(s, T) \in Seq(S)
<1>1. PICK F : /\ Computed(F, <<>>, SelectStep(s, T, S), Seq(S), Len(s))
               /\ Select(s, T) = F[Len(s)]
  BY SelectIs
<1>2. Len(s) \in 0..Len(s)
  OBVIOUS
<1> QED BY <1>1, <1>2 DEF Computed

LEMMA SelectEmpty == ASSUME NEW T PROVE Select(<<>>, T) = <<>>
<1>1. <<>> \in Seq({}) /\ Len(<<>>) = 0
  OBVIOUS
<1>2. PICK F : /\ Computed(F, <<>>, SelectStep(<<>>, T, {}), Seq({}), Len(<<>>))
               /\ Select(<<>>, T) = F[Len(<<>>)]
  BY <1>1, SelectIs
<1> QED BY <1>1, <1>2 DEF Computed, Follows

LEMMA SelectAppend ==
    ASSUME NEW S, NEW T, NEW s \in Seq(S), NEW x \in S
    PROVE  Select(Append(s, x), T) =
               IF x \in T THEN Append(Select(s, T), x) ELSE Select(s, T)
<1> DEFINE t == Append(s, x)
           L == Len(s)
<1>1. t \in Seq(S) /\ Len(t) = L + 1 /\ L \in Nat /\ t[L + 1] = x
  OBVIOUS
<1>2. \A n \in 1..L : t[n] = s[n] /\ n \in 1..(L + 1)
  OBVIOUS
<1>3. PICK F : /\ Computed(F, <<>>, SelectStep(s, T, S), Seq(S), L)
               /\ Select(s, T) = F[L]
  BY SelectIs
<1> HIDE DEF t
<1>4. PICK G : /\ Computed(G, <<>>, SelectStep(t, T, S), Seq(S), L + 1)
               /\ Select(t, T) = G[L + 1]
  <2> HIDE DEF L
  <2> QED BY <1>1, SelectIs
<1>5. /\ \A n \in 1..(L + 1) : \A v \in Seq(S) :
            SelectStep(t, T, S)[n][v] = IF t[n] \in T THEN Append(v, t[n]) ELSE v
      /\ \A n \in 1..L : \A v \in Seq(S) :
            SelectStep(s, T, S)[n][v] = IF s[n] \in T THEN Append(v, s[n]) ELSE v
  <2>1. \A n \in 1..Len(t) : \A v \in Seq(S) :
            SelectStep(t, T, S)[n][v] = IF t[n] \in T THEN Append(v, t[n]) ELSE v
    BY <1>1, SelectSteps
  <2>2. \A n \in 1..Len(s) : \A v \in Seq(S) :
            SelectStep(s, T, S)[n][v] = IF s[n] \in T THEN Append(v, s[n]) ELSE v
    BY SelectSteps
  <2> QED BY <1>1, <2>1, <2>2
<1> HIDE DEF L
<1>6. L \in 0..L /\ L \in 0..(L + 1) /\ L + 1 \in 1..(L + 1) /\ (L + 1) - 1 = L
  BY <1>1
<1>7. Follows(G, <<>>, SelectStep(s, T, S), L)
  <2>1. ASSUME NEW n \in 1..L PROVE G[n] = SelectStep(s, T, S)[n][G[n - 1]]
    <3>1. n \in 1..(L + 1) /\ n - 1 \in 0..(L + 1) /\ t[n] = s[n]
      BY <1>1, <1>2
    <3>2. G[n] = SelectStep(t, T, S)[n][G[n - 1]] /\ G[n - 1] \in Seq(S)
      BY <1>4, <3>1 DEF Computed, Follows
    <3> QED BY <1>5, <3>1, <3>2
  <2> QED BY <1>4, <2>1 DEF Computed, Follows
<1>8. G[L] = F[L] /\ F[L] \in Seq(S)
  <2>1. Follows(F, <<>>, SelectStep(s, T, S), L) /\ F[L] \in Seq(S)
    BY <1>3, <1>6 DEF Computed
  <2>2. \A n \in 0..L : F[n] = G[n]
    BY <1>1, <1>7, <2>1, FollowsOnce
  <2> QED BY <1>6, <2>1, <2>2
<1>9. G[L + 1] = SelectStep(t, T, S)[L + 1][G[L]]
  BY <1>4, <1>6 DEF Computed, Follows
<1> QED BY <1>1, <1>3, <1>4, <1>5, <1>6, <1>8, <1>9 DEF t

(* The events of a window from one cursor on are the end of it.            *)
LEMMA SelectFrom ==
    ASSUME NEW h \in Seq(Item), NEW b \in Nat, \A i \in 1..Len(h) : h[i].cursor = b + i,
           NEW k \in 0..Len(h)
    PROVE  Select(h, {item \in Item : item.cursor >= b + k + 1}) = SubSeq(h, k + 1, Len(h))
<1> DEFINE L == Len(h)
           T == {item \in Item : item.cursor >= b + k + 1}
           G == [n \in 0..L |-> SubSeq(h, k + 1, n)]
<1>1. L \in Nat /\ k \in Nat
  OBVIOUS
<1>2. PICK F : /\ Computed(F, <<>>, SelectStep(h, T, Item), Seq(Item), L)
               /\ Select(h, T) = F[L]
  <2> HIDE DEF T
  <2> QED BY SelectIs
<1>3. \A n \in 1..L : h[n] \in T <=> n > k
  BY <1>1
<1>4. \A n \in 1..L : \A v \in Seq(Item) :
         SelectStep(h, T, Item)[n][v] = IF h[n] \in T THEN Append(v, h[n]) ELSE v
  <2> HIDE DEF T
  <2> QED BY SelectSteps
<1> HIDE DEF T
<1>5. \A n \in 0..L : SubSeq(h, k + 1, n) \in Seq(Item)
  OBVIOUS
<1>6. ASSUME NEW n \in 1..L PROVE G[n] = SelectStep(h, T, Item)[n][G[n - 1]]
  <2>1. n - 1 \in 0..L /\ n \in 0..L
    OBVIOUS
  <2>2. G[n - 1] = SubSeq(h, k + 1, n - 1) /\ G[n] = SubSeq(h, k + 1, n)
    BY <2>1
  <2>3. SubSeq(h, k + 1, n - 1) \in Seq(Item)
    BY <1>5, <2>1
  <2> HIDE DEF G, L
  <2>4. SelectStep(h, T, Item)[n][G[n - 1]] =
            IF n > k THEN Append(G[n - 1], h[n]) ELSE G[n - 1]
    BY <1>3, <1>4, <2>2, <2>3
  <2>5. n \in Nat /\ k \in Nat
    BY <1>1
  <2>6. CASE n <= k
    <3>1. SubSeq(h, k + 1, n - 1) = <<>> /\ SubSeq(h, k + 1, n) = <<>>
      BY <2>5, <2>6, SubSeqEmpty
    <3> QED BY <2>2, <2>4, <2>5, <2>6, <3>1
  <2>7. CASE n > k
    <3>1. SubSeq(h, k + 1, n) = Append(SubSeq(h, k + 1, n - 1), h[n])
      BY <1>1, <2>5, <2>7 DEF L
    <3> QED BY <2>2, <2>4, <2>7, <3>1
  <2> QED BY <2>5, <2>6, <2>7
<1>7. G[0] = <<>>
  BY <1>1
<1>8. Follows(G, <<>>, SelectStep(h, T, Item), L)
  <2> HIDE DEF G, L
  <2> QED BY <1>6, <1>7 DEF Follows
<1>9. F[L] = G[L]
  <2>1. Follows(F, <<>>, SelectStep(h, T, Item), L)
    BY <1>2 DEF Computed
  <2>2. L \in 0..L
    BY <1>1
  <2> HIDE DEF G, L
  <2>3. \A n \in 0..L : F[n] = G[n]
    BY <1>1, <1>8, <2>1, FollowsOnce
  <2> QED BY <2>2, <2>3
<1>10. G[L] = SubSeq(h, k + 1, L)
  BY <1>1
<1> QED BY <1>2, <1>9, <1>10 DEF T

-----------------------------------------------------------------------------
(* The inductive invariant                                                 *)
ActiveType == [turn : 1..MaxTurns, start : 1..MaxEvents]
ChannelType == [history : Seq(Item), next : 0..MaxEvents, active : {None} \cup ActiveType]
ClientType == [state : {"new", "live", "away"}, session : Sessions \cup {None},
               epoch : Nat, drops : Nat, at : 0..MaxEvents,
               replay : Seq(Item), tail : Seq(Item), lagged : BOOLEAN, closed : BOOLEAN]

(* TypeOK and the types of what it leaves open.                            *)
Typed ==
    /\ channel \in [Sessions -> ChannelType]
    /\ known \subseteq SubAgents
    /\ epoch \in 0..MaxUpsets
    /\ drops \in [Sessions -> 0..MaxUpsets]
    /\ turn \in [Sessions -> [now : 0..MaxTurns, ran : 0..MaxTurns]]
    /\ gapped \subseteq Sessions
    /\ log \in [Sessions -> Seq(Event)]
    /\ client \in [Clients -> ClientType]
    /\ shown \in [Clients -> Event \cup {None}]
    /\ emitted \in 0..MaxEvents
    /\ upsets \in 0..MaxUpsets
    /\ \A c \in Clients : Len(client[c].tail) <= Capacity

(* What grows, grows with the bounds.                                      *)
Counted ==
    /\ epoch <= upsets
    /\ \A s \in Sessions : drops[s] <= upsets /\ channel[s].next <= emitted

(* Items are the events of a log after the place at, one by one.           *)
Segment(items, at, l) ==
    \A i \in 1..Len(items) : items[i] = [cursor |-> at + i, event |-> l[at + i]]

(* A window is the end of its log.                                         *)
Base(ch) == ch.next - Len(ch.history)

WindowOf(ch, l) ==
    /\ Len(l) = ch.next
    /\ Len(ch.history) <= ch.next
    /\ Segment(ch.history, Base(ch), l)
    /\ ch.active # None => ch.active.start <= ch.next

Windows == \A s \in Sessions : WindowOf(channel[s], log[s])

(* What a client has still to read continues the log where it is, and      *)
(* reaches to its end unless the client will be told that it lagged.       *)
Followed(k, next, l) ==
    LET r == k.at + Len(k.replay)
    IN  /\ r <= next
        /\ Segment(k.replay, k.at, l)
        /\ k.state = "live" /\ ~k.lagged =>
              r + Len(k.tail) = next /\ Segment(k.tail, r, l)

ClientFollows(c) ==
    /\ client[c].state # "new" =>
          /\ client[c].session \in Sessions
          /\ client[c].epoch <= epoch
          /\ client[c].epoch = epoch => client[c].drops <= drops[client[c].session]
    /\ client[c].state # "live" =>
          /\ client[c].replay = <<>> /\ client[c].tail = <<>>
          /\ ~client[c].lagged /\ ~client[c].closed
    /\ Valid(c) =>
          /\ ~client[c].closed
          /\ Followed(client[c], channel[client[c].session].next, log[client[c].session])

ClientsFollow == \A c \in Clients : ClientFollows(c)

IInv == Typed /\ Counted /\ Windows /\ ClientsFollow

-----------------------------------------------------------------------------
(* Windows                                                                 *)

LEMMA ItemFields ==
    ASSUME NEW item \in Item
    PROVE  /\ item.cursor \in 1..MaxEvents /\ item.event \in Event
           /\ item = [cursor |-> item.cursor, event |-> item.event]
BY DEF Item

LEMMA BytesNat == ASSUME NEW e \in Event PROVE e.bytes \in Nat
<1>1. e.bytes \in Sizes \cup {1}
  BY DEF Event
<1>2. \A b \in Sizes \cup {1} : b \in Nat
  BY HubAssumption
<1> QED BY <1>1, <1>2

LEMMA ByteSizes ==
    ASSUME NEW h \in Seq(Item)
    PROVE  /\ [i \in DOMAIN h |-> h[i].event.bytes] \in Seq(Nat)
           /\ Len([i \in DOMAIN h |-> h[i].event.bytes]) = Len(h)
<1>1. ASSUME NEW i \in 1..Len(h) PROVE h[i].event.bytes \in Nat
  <2>1. h[i] \in Item
    OBVIOUS
  <2> QED BY <2>1, ItemFields, BytesNat
<1> QED BY <1>1

LEMMA EmptyFits == ASSUME NEW a PROVE Fits(<<>>, a)
<1>1. Bytes(<<>>) = 0
  <2>1. [i \in DOMAIN <<>> |-> <<>>[i].event.bytes] = <<>>
    OBVIOUS
  <2> QED BY <2>1, TotalEmpty DEF Bytes
<1> QED BY <1>1, HubAssumption DEF Fits

LEMMA EndOf ==
    ASSUME NEW S, NEW h \in Seq(S), NEW m \in 0..Len(h)
    PROVE  /\ SubSeq(h, m + 1, Len(h)) \in Seq(S)
           /\ Len(SubSeq(h, m + 1, Len(h))) = Len(h) - m
           /\ \A i \in 1..(Len(h) - m) : SubSeq(h, m + 1, Len(h))[i] = h[m + i]
<1>1. Len(h) \in Nat /\ \A i \in (m + 1)..Len(h) : h[i] \in S
  OBVIOUS
<1>2. /\ SubSeq(h, m + 1, Len(h)) \in Seq(S)
      /\ Len(SubSeq(h, m + 1, Len(h))) =
            IF m + 1 <= Len(h) THEN Len(h) - (m + 1) + 1 ELSE 0
      /\ \A i \in 1..(Len(h) - (m + 1) + 1) :
            SubSeq(h, m + 1, Len(h))[i] = h[(m + 1) + i - 1]
  BY <1>1, SubSeqProperties
<1> DEFINE w == SubSeq(h, m + 1, Len(h))
           L == Len(h)
<1> HIDE DEF w, L
<1>3. L \in Nat /\ w \in Seq(S) /\ Len(w) = L - m
  BY <1>1, <1>2 DEF w, L
<1>4. ASSUME NEW i \in 1..(L - m) PROVE w[i] = h[m + i]
  <2>1. i \in 1..(L - (m + 1) + 1) /\ (m + 1) + i - 1 = m + i
    BY <1>3
  <2> QED BY <1>2, <2>1 DEF w, L
<1> QED BY <1>3, <1>4 DEF w, L

(* trim removes the fewest items that make the window fit.                 *)
LEMMA TrimmedIs ==
    ASSUME NEW h \in Seq(Item), NEW a
    PROVE  \E n \in 0..Len(h) :
               /\ Trimmed(h, a) = SubSeq(h, n + 1, Len(h))
               /\ \A k \in 0..(n - 1) : ~Fits(SubSeq(h, k + 1, Len(h)), a)
<1> DEFINE Kept(n) == SubSeq(h, n + 1, Len(h))
           Stops(m) == Fits(Kept(m), a) /\ \A k \in 0..(m - 1) : ~Fits(Kept(k), a)
           n == CHOOSE m \in 0..Len(h) : Stops(m)
           S == {m \in 0..Len(h) : Fits(Kept(m), a)}
<1>1. Trimmed(h, a) = Kept(n)
  BY DEF Trimmed
<1>2. Len(h) \in S
  <2>1. Kept(Len(h)) = <<>>
    OBVIOUS
  <2> HIDE DEF Kept
  <2> QED BY <2>1, EmptyFits
<1>3. \E m \in 0..Len(h) : Stops(m)
  <2>1. S \in SUBSET Nat
    OBVIOUS
  <2>2. PICK m \in S : \A k \in S : m <= k
    <3> HIDE DEF S
    <3> QED BY <1>2, <2>1, LeastExists
  <2>3. ASSUME NEW k \in 0..(m - 1) PROVE ~Fits(Kept(k), a)
    <3>1. k \in 0..Len(h) /\ ~(m <= k)
      OBVIOUS
    <3>2. k \notin S
      <4> HIDE DEF S
      <4> QED BY <2>2, <3>1
    <3> QED BY <3>1, <3>2
  <2> QED BY <2>2, <2>3
<1>4. n \in 0..Len(h) /\ Stops(n)
  <2> HIDE DEF Stops
  <2> QED BY <1>3
<1> HIDE DEF n
<1> QED BY <1>1, <1>4

(* A pushed event is the last of the window and of the log; only the front *)
(* of the window goes.                                                     *)
Begun(ch, s, e) ==
    IF e.kind = "start" /\ e.from = s THEN [turn |-> e.turn, start |-> ch.next + 1]
    ELSE ch.active

LEMMA PushedIs ==
    ASSUME NEW ch \in ChannelType, NEW s, NEW e \in Event, NEW l \in Seq(Event),
           WindowOf(ch, l), ch.next < MaxEvents
    PROVE  /\ Pushed(ch, s, e) \in ChannelType
           /\ Pushed(ch, s, e).next = ch.next + 1
           /\ WindowOf(Pushed(ch, s, e), Append(l, e))
           /\ Pushed(ch, s, e).active \in {None, Begun(ch, s, e)}
           /\ e.kind # "end" \/ e.from # s => Pushed(ch, s, e).active = Begun(ch, s, e)
<1> DEFINE n == ch.next + 1
           item == [cursor |-> n, event |-> e]
           h == Append(ch.history, item)
           p == Pushed(ch, s, e)
           b == Begun(ch, s, e)
<1>1. /\ ch.next \in 0..MaxEvents /\ ch.history \in Seq(Item)
      /\ ch.active \in {None} \cup ActiveType
  BY DEF ChannelType
<1>2. n \in 1..MaxEvents /\ n \in 0..MaxEvents
  BY <1>1, HubAssumption
<1>3. item \in Item
  BY <1>2 DEF Item
<1>4. h \in Seq(Item) /\ Len(h) = Len(ch.history) + 1 /\ Len(ch.history) \in Nat
  BY <1>1, <1>3
<1>5. b \in {None} \cup ActiveType /\ (b # None => b.start <= n)
  <2>1. e.turn \in 1..MaxTurns
    BY DEF Event
  <2>2. CASE e.kind = "start" /\ e.from = s
    BY <1>2, <2>1, <2>2 DEF Begun, ActiveType
  <2>3. CASE ~(e.kind = "start" /\ e.from = s)
    BY <1>1, <2>3 DEF Begun, WindowOf, ActiveType
  <2> QED BY <2>2, <2>3
<1>6. /\ p.history = Trimmed(h, b) /\ p.next = n /\ p.active \in {None, b}
      /\ e.kind # "end" \/ e.from # s => p.active = b
      /\ p = [history |-> p.history, next |-> p.next, active |-> p.active]
  BY DEF Pushed, Begun
<1> HIDE DEF p, b
<1>7. PICK m \in 0..Len(h) : Trimmed(h, b) = SubSeq(h, m + 1, Len(h))
  <2> HIDE DEF h
  <2> QED BY <1>4, TrimmedIs
<1> DEFINE w == SubSeq(h, m + 1, Len(h))
<1>8. w \in Seq(Item) /\ Len(w) = Len(h) - m /\ \A i \in 1..Len(w) : w[i] = h[m + i]
  BY <1>4, EndOf
<1> HIDE DEF h, w
<1>9. p \in ChannelType
  BY <1>2, <1>5, <1>6, <1>7, <1>8 DEF ChannelType, w
<1>10. WindowOf(p, Append(l, e))
  <2>1. Len(l) = ch.next /\ Len(ch.history) <= ch.next
    BY DEF WindowOf
  <2>2. Len(Append(l, e)) = n /\ Append(l, e)[n] = e
        /\ \A i \in 1..ch.next : Append(l, e)[i] = l[i]
    BY <2>1
  <2> DEFINE c == ch.next - Len(ch.history)
  <2>3. \A i \in 1..Len(ch.history) :
           ch.history[i] = [cursor |-> c + i, event |-> l[c + i]]
    BY DEF WindowOf, Segment, Base
  <2>4. ASSUME NEW i \in 1..Len(h)
        PROVE  h[i] = [cursor |-> c + i, event |-> Append(l, e)[c + i]]
    <3>1. CASE i = Len(h)
      <4>1. h[i] = item /\ c + i = n
        BY <1>1, <1>4, <2>1, <3>1 DEF h
      <4> QED BY <2>2, <4>1
    <3>2. CASE i # Len(h)
      <4>1. i \in 1..Len(ch.history) /\ h[i] = ch.history[i] /\ c + i \in 1..ch.next
        BY <1>1, <1>4, <2>1, <3>2 DEF h
      <4> QED BY <2>2, <2>3, <4>1
    <3> QED BY <3>1, <3>2
  <2>5. Base(p) = c + m /\ Len(p.history) <= n /\ c \in Nat
    <3>1. p.next = n /\ Len(p.history) = Len(h) - m
      BY <1>6, <1>7, <1>8 DEF w
    <3>2. /\ ch.next \in Nat /\ Len(ch.history) \in Nat /\ m \in Nat
          /\ Len(h) = Len(ch.history) + 1 /\ m <= Len(h)
      BY <1>1, <1>4, HubAssumption
    <3>3. Base(p) = n - (Len(h) - m)
      BY <3>1 DEF Base
    <3> QED BY <2>1, <3>1, <3>2, <3>3
  <2> HIDE DEF c
  <2>6. Segment(p.history, Base(p), Append(l, e))
    <3>1. ASSUME NEW i \in 1..Len(w)
          PROVE  w[i] = [cursor |-> Base(p) + i, event |-> Append(l, e)[Base(p) + i]]
      <4>1. m + i \in 1..Len(h) /\ c + (m + i) = Base(p) + i
        <5>1. Len(w) = Len(h) - m /\ Len(h) \in Nat /\ m \in 0..Len(h) /\ c \in Nat
          BY <1>4, <1>8, <2>5
        <5> QED BY <2>5, <5>1
      <4> QED BY <1>8, <2>4, <4>1
    <3> QED BY <1>6, <1>7, <3>1 DEF Segment, w
  <2> QED BY <1>5, <1>6, <2>2, <2>5, <2>6 DEF WindowOf
<1> QED BY <1>6, <1>9, <1>10 DEF p, b

LEMMA OldestIs ==
    ASSUME NEW ch \in ChannelType, NEW l, WindowOf(ch, l)
    PROVE  Oldest(ch) = Base(ch) + 1 /\ Base(ch) \in Nat /\ Base(ch) <= ch.next
<1>1. /\ ch.history \in Seq(Item) /\ Len(ch.history) \in Nat /\ ch.next \in Nat
      /\ Len(ch.history) <= ch.next
  BY HubAssumption DEF ChannelType, WindowOf
<1>2. CASE ch.history = <<>>
  BY <1>1, <1>2 DEF Oldest, Base
<1>3. CASE ch.history # <<>>
  <2>1. 1 \in 1..Len(ch.history) /\ Head(ch.history) = ch.history[1]
    BY <1>1, <1>3
  <2>2. ch.history[1] = [cursor |-> Base(ch) + 1, event |-> l[Base(ch) + 1]]
    BY <2>1 DEF WindowOf, Segment
  <2> QED BY <1>1, <1>3, <2>1, <2>2 DEF Oldest, Base
<1> QED BY <1>2, <1>3

(* What a window replays after a place in it.                              *)
LEMMA FromIs ==
    ASSUME NEW ch \in ChannelType, NEW l, WindowOf(ch, l),
           NEW at \in Nat, Base(ch) <= at, at <= ch.next
    PROVE  /\ From(ch, at + 1) \in Seq(Item)
           /\ at + Len(From(ch, at + 1)) = ch.next
           /\ Segment(From(ch, at + 1), at, l)
<1> DEFINE h == ch.history
           b == Base(ch)
           k == at - b
           w == SubSeq(h, k + 1, Len(h))
<1>1. h \in Seq(Item) /\ Len(h) \in Nat /\ ch.next \in Nat /\ b \in Nat
      /\ b = ch.next - Len(h)
  BY OldestIs, HubAssumption DEF ChannelType, Base
<1>2. \A i \in 1..Len(h) : h[i] = [cursor |-> b + i, event |-> l[b + i]]
  BY DEF WindowOf, Segment
<1>3. k \in 0..Len(h) /\ b + k = at /\ k \in Nat /\ at + (Len(h) - k) = ch.next
  <2>1. b <= at /\ at <= ch.next /\ k = at - b
    OBVIOUS
  <2> DEFINE L == Len(h)
             x == ch.next
  <2>2. L \in Nat /\ x \in Nat /\ b \in Nat /\ b = x - L
    BY <1>1
  <2>3. b <= at /\ at <= x /\ k = at - b
    BY <2>1
  <2> HIDE DEF h, b, k, L, x
  <2>4. k \in 0..L /\ b + k = at /\ k \in Nat /\ at + (L - k) = x
    BY <2>2, <2>3
  <2> QED BY <2>4 DEF L, x
<1>4. From(ch, at + 1) = Select(h, {item \in Item : item.cursor >= at + 1})
  BY DEF From
<1> HIDE DEF h, b, k
<1>5. Select(h, {item \in Item : item.cursor >= b + k + 1}) = w
  <2>1. ASSUME NEW i \in 1..Len(h) PROVE h[i].cursor = b + i
    <3>1. h[i] = [cursor |-> b + i, event |-> l[b + i]]
      BY <1>2
    <3> QED BY <3>1
  <2> QED BY <1>1, <1>3, <2>1, SelectFrom
<1>6. From(ch, at + 1) = w
  <2>1. b + k + 1 = at + 1
    BY <1>3
  <2> QED BY <1>4, <1>5, <2>1
<1>7. /\ w \in Seq(Item) /\ Len(w) = Len(h) - k
      /\ \A i \in 1..(Len(h) - k) : w[i] = h[k + i]
  BY <1>1, <1>3, EndOf
<1> HIDE DEF w
<1>8. at + Len(w) = ch.next
  BY <1>1, <1>3, <1>7
<1>9. ASSUME NEW i \in 1..Len(w) PROVE w[i] = [cursor |-> at + i, event |-> l[at + i]]
  <2>1. i \in 1..(Len(h) - k)
    BY <1>7
  <2>4. k + i \in 1..Len(h) /\ b + (k + i) = at + i
    BY <1>1, <1>3, <2>1
  <2>2. w[i] = h[k + i]
    BY <1>7, <2>1
  <2>3. h[k + i] = [cursor |-> b + (k + i), event |-> l[b + (k + i)]]
    BY <1>2, <2>4
  <2> QED BY <2>2, <2>3, <2>4
<1>10. Segment(w, at, l)
  BY <1>9 DEF Segment
<1> QED BY <1>6, <1>7, <1>8, <1>10

-----------------------------------------------------------------------------
(* An event and the clients                                                *)

LEMMA SegmentExtends ==
    ASSUME NEW items \in Seq(Item), NEW at \in Nat, NEW l \in Seq(Event), NEW e,
           Segment(items, at, l), at + Len(items) <= Len(l)
    PROVE  Segment(items, at, Append(l, e))
<1>1. \A i \in 1..Len(items) : at + i \in 1..Len(l)
  OBVIOUS
<1>2. \A n \in 1..Len(l) : Append(l, e)[n] = l[n]
  OBVIOUS
<1> QED BY <1>1, <1>2 DEF Segment

LEMMA SegmentAppends ==
    ASSUME NEW items \in Seq(Item), NEW at \in Nat, NEW l, NEW item,
           Segment(items, at, l),
           item = [cursor |-> at + Len(items) + 1, event |-> l[at + Len(items) + 1]]
    PROVE  Segment(Append(items, item), at, l)
<1>1. ASSUME NEW i \in 1..Len(Append(items, item))
      PROVE  Append(items, item)[i] = [cursor |-> at + i, event |-> l[at + i]]
  <2>1. Len(items) \in Nat /\ Len(Append(items, item)) = Len(items) + 1
    OBVIOUS
  <2>2. CASE i = Len(items) + 1
    BY <2>1, <2>2
  <2>3. CASE i # Len(items) + 1
    <3>1. i \in 1..Len(items) /\ Append(items, item)[i] = items[i]
      BY <2>1, <2>3
    <3> QED BY <3>1 DEF Segment
  <2> QED BY <2>2, <2>3
<1> QED BY <1>1 DEF Segment

LEMMA ReceivedIs ==
    ASSUME NEW k \in ClientType, NEW item \in Item, Len(k.tail) <= Capacity
    PROVE  /\ Received(k, item) \in ClientType
           /\ Len(Received(k, item).tail) <= Capacity
           /\ Received(k, item).state = k.state /\ Received(k, item).session = k.session
           /\ Received(k, item).epoch = k.epoch /\ Received(k, item).drops = k.drops
           /\ Received(k, item).at = k.at /\ Received(k, item).replay = k.replay
           /\ Received(k, item).closed = k.closed
           /\ \/ Received(k, item).lagged
              \/ /\ ~k.lagged
                 /\ Received(k, item).tail = Append(k.tail, item)
<1> DEFINE t == Append(k.tail, item)
<1>1. k.tail \in Seq(Item) /\ k.lagged \in BOOLEAN
  BY DEF ClientType
<1>2. t \in Seq(Item) /\ t # <<>> /\ Len(t) = Len(k.tail) + 1 /\ Len(k.tail) \in Nat
  BY <1>1
<1>3. Capacity \in Nat
  BY HubAssumption
<1>4. CASE Len(t) <= Capacity
  <2>1. Received(k, item) = [k EXCEPT !.tail = t]
    BY <1>4 DEF Received
  <2> HIDE DEF t
  <2> QED BY <1>1, <1>2, <1>4, <2>1 DEF ClientType, t
<1>5. CASE ~(Len(t) <= Capacity)
  <2>1. Received(k, item) = [k EXCEPT !.tail = Tail(t), !.lagged = TRUE]
    BY <1>5 DEF Received
  <2>2. Tail(t) \in Seq(Item) /\ Len(Tail(t)) = Len(k.tail)
    BY <1>2
  <2> HIDE DEF t
  <2> QED BY <2>1, <2>2 DEF ClientType
<1> QED BY <1>4, <1>5

(* A client whose receiver was handed the new event follows the longer log. *)
LEMMA FollowedReceives ==
    ASSUME NEW k \in ClientType, NEW next \in Nat, NEW l \in Seq(Event), NEW e \in Event,
           Len(l) = next, next < MaxEvents, Followed(k, next, l), Len(k.tail) <= Capacity,
           k.state = "live"
    PROVE  Followed(Received(k, [cursor |-> next + 1, event |-> e]), next + 1, Append(l, e))
<1> DEFINE item == [cursor |-> next + 1, event |-> e]
           q == Received(k, item)
           m == Append(l, e)
           r == k.at + Len(k.replay)
<1>1. item \in Item
  <2>1. next + 1 \in 1..MaxEvents
    BY HubAssumption
  <2> QED BY <2>1 DEF Item
<1>2. /\ k.replay \in Seq(Item) /\ k.tail \in Seq(Item) /\ k.at \in Nat
      /\ Len(k.replay) \in Nat /\ Len(k.tail) \in Nat /\ r \in Nat
  BY HubAssumption DEF ClientType
<1>3. m \in Seq(Event) /\ m[next + 1] = e /\ Len(m) = next + 1
  OBVIOUS
<1>4. /\ r <= next /\ Segment(k.replay, k.at, l)
      /\ ~k.lagged => r + Len(k.tail) = next /\ Segment(k.tail, r, l)
  BY DEF Followed
<1> HIDE DEF item
<1>5. /\ q.state = k.state /\ q.at = k.at /\ q.replay = k.replay
      /\ q.lagged \/ (~k.lagged /\ q.tail = Append(k.tail, item))
  BY <1>1, ReceivedIs
<1> HIDE DEF q, m, r
<1>6. Segment(k.replay, k.at, m)
  <2>1. k.at + Len(k.replay) <= Len(l)
    BY <1>4 DEF r
  <2> QED BY <1>2, <1>4, <2>1, SegmentExtends DEF m
<1>7. ASSUME ~k.lagged
      PROVE  r + Len(Append(k.tail, item)) = next + 1 /\ Segment(Append(k.tail, item), r, m)
  <2>1. r + Len(k.tail) = next /\ Segment(k.tail, r, l)
    BY <1>4, <1>7
  <2>2. Segment(k.tail, r, m)
    BY <1>2, <2>1, SegmentExtends DEF m
  <2>3. Len(Append(k.tail, item)) = Len(k.tail) + 1
    BY <1>2
  <2>4. r + Len(k.tail) + 1 = next + 1 /\ r + (Len(k.tail) + 1) = next + 1
    <3> DEFINE T == Len(k.tail)
    <3>1. T \in Nat /\ r \in Nat /\ r + T = next
      BY <1>2, <2>1
    <3> HIDE DEF T
    <3>2. r + T + 1 = next + 1 /\ r + (T + 1) = next + 1
      BY <3>1
    <3> QED BY <3>2 DEF T
  <2>5. item = [cursor |-> r + Len(k.tail) + 1, event |-> m[r + Len(k.tail) + 1]]
    BY <1>3, <2>4 DEF item
  <2>6. Segment(Append(k.tail, item), r, m)
    BY <1>2, <2>2, <2>5, SegmentAppends
  <2> QED BY <2>3, <2>4, <2>6
<1>8. Followed(q, next + 1, m)
  <2>1. q.at + Len(q.replay) = r /\ r <= next + 1
    BY <1>2, <1>4, <1>5 DEF r
  <2> QED BY <1>5, <1>6, <1>7, <2>1 DEF Followed
<1> QED BY <1>8 DEF q, m, item

(* One that is away has nothing to read; its place stays in the log.       *)
LEMMA FollowedAway ==
    ASSUME NEW k, NEW next \in Nat, NEW n \in Nat, NEW l, NEW m, k.at \in Nat,
           Followed(k, next, l), k.state # "live", k.replay = <<>>, next <= n
    PROVE  Followed(k, n, m)
<1>1. Len(k.replay) = 0
  OBVIOUS
<1> QED BY <1>1 DEF Followed, Segment

(* The parts of the invariant for one session and one client.              *)
LEMMA SessionFacts ==
    ASSUME IInv, NEW s \in Sessions
    PROVE  /\ channel[s] \in ChannelType /\ log[s] \in Seq(Event)
           /\ channel[s].history \in Seq(Item)
           /\ channel[s].active \in {None} \cup ActiveType
           /\ channel[s].next \in Nat /\ Len(log[s]) = channel[s].next
           /\ channel[s].next <= emitted /\ emitted \in Nat
           /\ WindowOf(channel[s], log[s])
<1>1. channel[s] \in ChannelType /\ log[s] \in Seq(Event) /\ emitted \in Nat
  BY HubAssumption DEF IInv, Typed
<1>2. WindowOf(channel[s], log[s]) /\ channel[s].next <= emitted
  BY DEF IInv, Windows, Counted
<1> QED BY <1>1, <1>2, HubAssumption DEF ChannelType, WindowOf

LEMMA ClientFacts ==
    ASSUME IInv, NEW c \in Clients
    PROVE  /\ client[c] \in ClientType /\ Len(client[c].tail) <= Capacity
           /\ client[c].at \in Nat /\ client[c].session \in Sessions \cup {None}
           /\ ClientFollows(c)
BY HubAssumption DEF IInv, Typed, ClientsFollow, ClientType

LEMMA ReachesSessions ==
    ASSUME NEW e \in Event
    PROVE  Reaches(e) \subseteq Sessions /\ e.from \in Reaches(e)
BY DEF Reaches, Event

LEMMA LearntSubAgents ==
    ASSUME IInv, NEW e \in Event
    PROVE  Learnt(e) \subseteq SubAgents
BY DEF IInv, Typed, Learnt, SubAgents, Event

LEMMA EmitKeeps ==
    ASSUME IInv, NEW e \in Event, Emit(e),
           turn' \in [Sessions -> [now : 0..MaxTurns, ran : 0..MaxTurns]],
           gapped' \subseteq Sessions
    PROVE  IInv'
<1> DEFINE to == Reaches(e)
           item(s) == [cursor |-> channel[s].next + 1, event |-> e]
<1>1. /\ emitted < MaxEvents /\ emitted' = emitted + 1 /\ known' = Learnt(e)
      /\ channel' = [s \in Sessions |->
                        IF s \in to THEN Pushed(channel[s], s, e) ELSE channel[s]]
      /\ log' = [s \in Sessions |-> IF s \in to THEN Append(log[s], e) ELSE log[s]]
      /\ client' = [c \in Clients |->
                       IF client[c].session \in to /\ Listening(client[c], client[c].session)
                       THEN Received(client[c], item(client[c].session)) ELSE client[c]]
      /\ UNCHANGED <<epoch, drops, shown, upsets>>
  BY DEF Emit
<1> HIDE DEF to
<1>2. to \subseteq Sessions
  BY ReachesSessions DEF to
<1>3. emitted \in Nat /\ emitted' \in 0..MaxEvents
  BY <1>1, HubAssumption DEF IInv, Typed
<1>4. ASSUME NEW s \in Sessions
      PROVE  /\ channel'[s] \in ChannelType /\ log'[s] \in Seq(Event)
             /\ channel'[s].next <= emitted'
             /\ WindowOf(channel'[s], log'[s])
  <2>1. CASE s \in to
    <3>1. /\ channel'[s] = Pushed(channel[s], s, e) /\ log'[s] = Append(log[s], e)
          /\ channel[s].next < MaxEvents
      BY <1>1, <1>3, <2>1, SessionFacts, HubAssumption
    <3>2. /\ Pushed(channel[s], s, e) \in ChannelType
          /\ Pushed(channel[s], s, e).next = channel[s].next + 1
          /\ WindowOf(Pushed(channel[s], s, e), Append(log[s], e))
      BY <3>1, SessionFacts, PushedIs
    <3>3. Append(log[s], e) \in Seq(Event)
      BY SessionFacts
    <3> QED BY <1>1, <1>3, <3>1, <3>2, <3>3, SessionFacts
  <2>2. CASE s \notin to
    BY <1>1, <1>3, <2>2, SessionFacts
  <2> QED BY <2>1, <2>2
<1>5. ASSUME NEW c \in Clients
      PROVE  /\ client'[c] \in ClientType /\ Len(client'[c].tail) <= Capacity
             /\ ClientFollows(c)'
  <2> DEFINE k == client[c]
             s == client[c].session
  <2>1. /\ k \in ClientType /\ Len(k.tail) <= Capacity /\ k.at \in Nat
        /\ ClientFollows(c)
    BY ClientFacts
  <2>2. /\ k.state # "new" => s \in Sessions /\ k.epoch <= epoch
                              /\ (k.epoch = epoch => k.drops <= drops[s])
        /\ k.state # "live" => k.replay = <<>> /\ k.tail = <<>> /\ ~k.lagged /\ ~k.closed
        /\ Valid(c) => ~k.closed /\ Followed(k, channel[s].next, log[s])
    BY <2>1 DEF ClientFollows
  <2>3. CASE s \in to /\ Listening(k, s)
    <3>1. client'[c] = Received(k, item(s)) /\ s \in Sessions
      BY <1>1, <1>2, <2>3
    <3>2. /\ channel[s].next < MaxEvents /\ channel[s].next \in Nat
          /\ Len(log[s]) = channel[s].next /\ log[s] \in Seq(Event)
      BY <1>1, <1>3, <3>1, SessionFacts, HubAssumption
    <3>3. item(s) \in Item
      <4>1. channel[s].next + 1 \in 1..MaxEvents
        BY <3>2, HubAssumption
      <4> QED BY <4>1 DEF Item
    <3>4. k.state = "live" /\ ~k.closed
      BY <2>3 DEF Listening
    <3>5. /\ channel'[s].next = channel[s].next + 1 /\ log'[s] = Append(log[s], e)
      <4>1. channel'[s] = Pushed(channel[s], s, e) /\ log'[s] = Append(log[s], e)
        BY <1>1, <2>3, <3>1
      <4> QED BY <4>1 DEF Pushed
    <3> HIDE DEF k, s
    <3>6. Valid(c) =>
             Followed(Received(k, item(s)), channel[s].next + 1, Append(log[s], e))
      BY <2>1, <2>2, <3>2, <3>4, FollowedReceives
    <3> DEFINE q == Received(k, item(s))
    <3> HIDE DEF item
    <3>7. /\ q \in ClientType /\ Len(q.tail) <= Capacity
          /\ q.state = k.state /\ q.session = k.session /\ q.epoch = k.epoch
          /\ q.drops = k.drops /\ q.closed = k.closed
      BY <2>1, <3>3, ReceivedIs
    <3> HIDE DEF q
    <3>8. q.session = s /\ client'[c] = q /\ client[c] = k /\ client[c].session = s
      BY <3>1, <3>7 DEF q, k, s
    <3>9. Valid(c)' => Valid(c)
      BY <1>1, <3>7, <3>8 DEF Valid
    <3>10. Valid(c)' => Followed(client'[c], channel'[s].next, log'[s])
      BY <3>5, <3>6, <3>8, <3>9 DEF q
    <3>11. ClientFollows(c)'
      BY <1>1, <2>2, <3>4, <3>7, <3>8, <3>10 DEF ClientFollows
    <3> QED BY <3>7, <3>8, <3>11
  <2>4. CASE ~(s \in to /\ Listening(k, s))
    <3>1. client'[c] = k
      BY <1>1, <2>4
    <3>2. Valid(c)' => Valid(c)
      BY <1>1, <3>1 DEF Valid
    <3>3. Valid(c) => Followed(k, channel'[s].next, log'[s])
      <4> SUFFICES ASSUME Valid(c)
                   PROVE  Followed(k, channel'[s].next, log'[s])
        OBVIOUS
      <4>1. s \in Sessions /\ ~k.closed /\ Followed(k, channel[s].next, log[s])
        BY <2>2 DEF Valid
      <4>2. CASE s \notin to
        BY <1>1, <4>1, <4>2
      <4>3. CASE s \in to
        <5>1. k.state # "live"
          BY <2>4, <4>1, <4>3 DEF Listening
        <5>2. channel'[s].next = channel[s].next + 1 /\ channel[s].next \in Nat
          <6>1. channel'[s] = Pushed(channel[s], s, e)
            BY <1>1, <4>1, <4>3
          <6>2. channel[s].next \in Nat
            BY <4>1, SessionFacts
          <6> QED BY <6>1, <6>2 DEF Pushed
        <5> HIDE DEF k, s
        <5>3. channel'[s].next \in Nat /\ channel[s].next <= channel'[s].next
          BY <5>2
        <5> QED BY <2>1, <2>2, <4>1, <5>1, <5>2, <5>3, FollowedAway
      <4> QED BY <4>2, <4>3
    <3> HIDE DEF k, s
    <3>4. client[c] = k /\ client[c].session = s /\ k.session = s
      BY DEF k, s
    <3>5. ClientFollows(c)'
      BY <1>1, <2>2, <3>1, <3>2, <3>3, <3>4 DEF ClientFollows
    <3> QED BY <2>1, <3>1, <3>5
  <2> QED BY <2>3, <2>4
<1>6. Typed'
  <2>1. channel' \in [Sessions -> ChannelType] /\ log' \in [Sessions -> Seq(Event)]
        /\ client' \in [Clients -> ClientType]
    <3>1. /\ channel' = [s \in Sessions |-> channel'[s]] /\ log' = [s \in Sessions |-> log'[s]]
          /\ client' = [c \in Clients |-> client'[c]]
      BY <1>1
    <3> QED BY <1>4, <1>5, <3>1
  <2>2. known' \subseteq SubAgents
    BY <1>1, LearntSubAgents
  <2> QED BY <1>1, <1>3, <1>5, <2>1, <2>2 DEF IInv, Typed
<1>7. Counted'
  BY <1>1, <1>4 DEF IInv, Counted
<1> QED BY <1>4, <1>5, <1>6, <1>7 DEF IInv, Windows, ClientsFollow

-----------------------------------------------------------------------------
(* The steps of one client                                                 *)

LEMMA SegmentTail ==
    ASSUME NEW items \in Seq(Item), NEW at \in Nat, NEW l, Segment(items, at, l),
           items # <<>>
    PROVE  /\ Head(items) \in Item
           /\ Head(items).cursor = at + 1 /\ Head(items).event = l[at + 1]
           /\ Tail(items) \in Seq(Item) /\ Len(items) \in Nat
           /\ Len(items) >= 1 /\ Len(Tail(items)) = Len(items) - 1
           /\ Segment(Tail(items), at + 1, l)
<1>1. /\ Len(items) \in Nat /\ Len(items) >= 1 /\ Head(items) = items[1]
      /\ Tail(items) \in Seq(Item) /\ Len(Tail(items)) = Len(items) - 1
      /\ \A i \in 1..(Len(items) - 1) : Tail(items)[i] = items[i + 1]
  OBVIOUS
<1>2. \A i \in 1..Len(items) : items[i] = [cursor |-> at + i, event |-> l[at + i]]
  BY DEF Segment
<1>3. Head(items) \in Item /\ Head(items).cursor = at + 1 /\ Head(items).event = l[at + 1]
  <2>1. 1 \in 1..Len(items)
    BY <1>1
  <2>2. items[1] = [cursor |-> at + 1, event |-> l[at + 1]]
    BY <1>2, <2>1
  <2> QED BY <1>1, <2>1, <2>2
<1>4. ASSUME NEW i \in 1..Len(Tail(items))
      PROVE  Tail(items)[i] = [cursor |-> (at + 1) + i, event |-> l[(at + 1) + i]]
  <2>1. i \in 1..(Len(items) - 1) /\ i + 1 \in 1..Len(items) /\ at + (i + 1) = (at + 1) + i
    BY <1>1
  <2>2. items[i + 1] = [cursor |-> at + (i + 1), event |-> l[at + (i + 1)]]
    BY <1>2, <2>1
  <2> QED BY <1>1, <2>1, <2>2
<1> QED BY <1>1, <1>3, <1>4 DEF Segment

LEMMA SegmentNone == ASSUME NEW at, NEW l PROVE Segment(<<>>, at, l)
BY DEF Segment

(* A step that changes one client keeps the rest of the invariant.         *)
LEMMA ClientMoves ==
    ASSUME IInv, NEW c \in Clients, NEW k \in ClientType, Len(k.tail) <= Capacity,
           UNCHANGED <<channel, known, epoch, drops, turn, gapped, log, emitted>>,
           client' = [client EXCEPT ![c] = k],
           shown' \in [Clients -> Event \cup {None}],
           upsets' \in 0..MaxUpsets, upsets <= upsets',
           ClientFollows(c)'
    PROVE  IInv'
<1>1. client \in [Clients -> ClientType]
  BY DEF IInv, Typed
<1>2. client'[c] = k /\ \A d \in Clients : d # c => client'[d] = client[d]
  BY <1>1
<1>3. Typed'
  BY <1>1, <1>2 DEF IInv, Typed
<1>4. Counted'
  <2>1. epoch \in Nat /\ upsets \in Nat /\ \A s \in Sessions : drops[s] \in Nat
    BY HubAssumption DEF IInv, Typed
  <2>2. epoch <= upsets /\ \A s \in Sessions : drops[s] <= upsets /\ channel[s].next <= emitted
    BY DEF IInv, Counted
  <2>3. upsets' \in Nat
    BY HubAssumption
  <2> QED BY <2>1, <2>2, <2>3 DEF Counted
<1>5. Windows'
  BY DEF IInv, Windows
<1>6. ASSUME NEW d \in Clients PROVE ClientFollows(d)'
  <2>1. CASE d = c
    BY <2>1
  <2>2. CASE d # c
    <3>1. client'[d] = client[d]
      BY <1>2, <2>2
    <3>2. Valid(d)' <=> Valid(d)
      BY <3>1 DEF Valid
    <3>3. ClientFollows(d)
      BY DEF IInv, ClientsFollow
    <3> QED BY <3>1, <3>2, <3>3 DEF ClientFollows
  <2> QED BY <2>1, <2>2
<1> QED BY <1>3, <1>4, <1>5, <1>6 DEF IInv, ClientsFollow

LEMMA SubscribedKeeps ==
    ASSUME IInv, NEW c \in Clients, NEW s \in Sessions,
           NEW at \in 0..MaxEvents, NEW replay \in Seq(Item),
           at + Len(replay) = channel[s].next, Segment(replay, at, log[s]),
           Subscribed(c, s, at, replay),
           UNCHANGED <<channel, known, epoch, drops, turn, gapped, log, emitted, upsets>>,
           shown' \in [Clients -> Event \cup {None}]
    PROVE  IInv'
<1> DEFINE k == [state |-> "live", session |-> s, epoch |-> epoch, drops |-> drops[s],
                 at |-> at, replay |-> replay, tail |-> <<>>, lagged |-> FALSE,
                 closed |-> FALSE]
<1>1. epoch \in Nat /\ drops[s] \in Nat /\ upsets \in 0..MaxUpsets
  BY HubAssumption DEF IInv, Typed
<1>2. k \in ClientType /\ Len(k.tail) <= Capacity
  <2>1. <<>> \in Seq(Item) /\ Len(<<>>) = 0
    OBVIOUS
  <2>2. Capacity \in Nat
    BY HubAssumption
  <2> QED BY <1>1, <2>1, <2>2 DEF ClientType
<1>3. client' = [client EXCEPT ![c] = k]
  BY DEF Subscribed
<1>4. client'[c] = k
  BY <1>3 DEF IInv, Typed
<1>5. /\ k.state = "live" /\ k.session = s /\ k.epoch = epoch /\ k.drops = drops[s]
      /\ k.at = at /\ k.replay = replay /\ k.tail = <<>> /\ ~k.lagged /\ ~k.closed
  OBVIOUS
<1>6. Followed(k, channel[s].next, log[s])
  <2>1. Len(k.tail) = 0 /\ Segment(k.tail, at + Len(replay), log[s])
    BY <1>5, SegmentNone
  <2>2. channel[s].next \in Nat
    BY SessionFacts
  <2> HIDE DEF k
  <2> QED BY <1>5, <2>1, <2>2 DEF Followed
<1> HIDE DEF k
<1>7. ClientFollows(c)'
  BY <1>1, <1>4, <1>5, <1>6 DEF ClientFollows
<1>8. upsets' \in 0..MaxUpsets /\ upsets <= upsets'
  BY <1>1, HubAssumption
<1>9. UNCHANGED <<channel, known, epoch, drops, turn, gapped, log, emitted>>
  OBVIOUS
<1> QED BY <1>2, <1>3, <1>7, <1>8, <1>9, ClientMoves

LEMMA ReloadsKeeps ==
    ASSUME IInv, NEW c \in Clients, NEW s \in Sessions, Reloads(c, s),
           UNCHANGED <<channel, known, epoch, drops, turn, gapped, log, emitted, upsets>>
    PROVE  IInv'
<1>1. Subscribed(c, s, channel[s].next, <<>>) /\ shown' = [shown EXCEPT ![c] = None]
  BY DEF Reloads
<1>2. channel[s].next \in 0..MaxEvents /\ <<>> \in Seq(Item)
      /\ channel[s].next + Len(<<>>) = channel[s].next
  <2>1. channel[s].next \in 0..MaxEvents
    BY SessionFacts DEF ChannelType
  <2> QED BY <2>1
<1>3. shown' \in [Clients -> Event \cup {None}]
  BY <1>1 DEF IInv, Typed
<1> QED BY <1>1, <1>2, <1>3, SegmentNone, SubscribedKeeps

(* What an attaching client is given of a running turn.                    *)
LEMMA AttachesAt ==
    ASSUME IInv, NEW s \in Sessions, channel[s].active # None,
           channel[s].active.start >= Oldest(channel[s])
    PROVE  LET at == channel[s].active.start - 1
               w  == From(channel[s], channel[s].active.start)
           IN  /\ at \in 0..MaxEvents /\ w \in Seq(Item)
               /\ at + Len(w) = channel[s].next /\ at <= channel[s].next
               /\ Segment(w, at, log[s])
<1> DEFINE ch == channel[s]
           at == ch.active.start - 1
<1>1. ch \in ChannelType /\ WindowOf(ch, log[s]) /\ ch.next \in 0..MaxEvents
  BY SessionFacts DEF ChannelType
<1>2. ch.active.start \in 1..MaxEvents /\ ch.active.start <= ch.next
  BY <1>1, SessionFacts DEF ActiveType, WindowOf
<1>3. Oldest(ch) = Base(ch) + 1 /\ Base(ch) \in Nat
  BY <1>1, OldestIs
<1>4. /\ at \in Nat /\ Base(ch) <= at /\ at <= ch.next /\ at \in 0..MaxEvents
      /\ at + 1 = ch.active.start
  <2> DEFINE x == ch.active.start
             y == ch.next
  <2>1. x \in 1..MaxEvents /\ x <= y /\ y \in 0..MaxEvents /\ x >= Base(ch) + 1
    BY <1>1, <1>2, <1>3
  <2>2. MaxEvents \in Nat
    BY HubAssumption
  <2> HIDE DEF x, y, ch
  <2>3. x - 1 \in Nat /\ Base(ch) <= x - 1 /\ x - 1 <= y /\ x - 1 \in 0..MaxEvents
        /\ (x - 1) + 1 = x
    BY <1>3, <2>1, <2>2
  <2> QED BY <2>3 DEF x, y, ch
<1> HIDE DEF ch, at
<1>5. /\ From(ch, at + 1) \in Seq(Item) /\ at + Len(From(ch, at + 1)) = ch.next
      /\ Segment(From(ch, at + 1), at, log[s])
  BY <1>1, <1>4, FromIs
<1>6. /\ From(ch, ch.active.start) \in Seq(Item) /\ at + Len(From(ch, ch.active.start)) = ch.next
      /\ Segment(From(ch, ch.active.start), at, log[s])
  BY <1>4, <1>5
<1> QED BY <1>4, <1>6 DEF ch, at

LEMMA AttachKeeps ==
    ASSUME IInv, NEW c \in Clients, NEW s \in Sessions, Attach(c, s)
    PROVE  IInv'
<1>1. UNCHANGED <<channel, known, epoch, drops, turn, gapped, log, emitted, upsets>>
  BY DEF Attach
<1>2. CASE /\ channel[s].active # None
           /\ channel[s].active.start >= Oldest(channel[s])
           /\ Subscribed(c, s, channel[s].active.start - 1,
                         From(channel[s], channel[s].active.start))
           /\ shown' = [shown EXCEPT ![c] = None]
  <2>1. shown' \in [Clients -> Event \cup {None}]
    BY <1>2 DEF IInv, Typed
  <2> QED BY <1>1, <1>2, <2>1, AttachesAt, SubscribedKeeps
<1>3. CASE Reloads(c, s)
  BY <1>1, <1>3, ReloadsKeeps
<1> QED BY <1>2, <1>3 DEF Attach


LEMMA ReturnKeeps ==
    ASSUME IInv, NEW c \in Clients, Return(c)
    PROVE  IInv'
<1> DEFINE k == client[c]
           s == k.session
           ch == channel[s]
           w == From(ch, k.at + 1)
           q == [k EXCEPT !.state = "live", !.replay = w]
<1>1. /\ UNCHANGED <<channel, known, epoch, drops, turn, gapped, log, emitted>>
      /\ UNCHANGED upsets /\ k.state = "away"
  BY DEF Return
<1>2. /\ k \in ClientType /\ k.at \in Nat /\ ClientFollows(c) /\ s \in Sessions
  BY <1>1, ClientFacts DEF ClientFollows
<1>3. CASE Reloads(c, s)
  BY <1>1, <1>2, <1>3, ReloadsKeeps
<1>4. CASE /\ k.epoch = epoch /\ ~(k.at > ch.next) /\ ~TooOld(ch, k.at)
           /\ client' = [client EXCEPT ![c].state = "live", ![c].replay = w]
           /\ UNCHANGED shown
  <2>1. /\ ch \in ChannelType /\ WindowOf(ch, log[s]) /\ ch.next \in Nat
    BY <1>2, SessionFacts
  <2>2. Oldest(ch) = Base(ch) + 1 /\ Base(ch) \in Nat /\ Base(ch) <= ch.next
    BY <2>1, OldestIs
  <2>3. Base(ch) <= k.at /\ k.at <= ch.next
    <3>1. ~(k.at < ch.next) \/ ~(k.at + 1 < Oldest(ch))
      BY <1>4 DEF TooOld
    <3> HIDE DEF k, ch
    <3> QED BY <1>2, <1>4, <2>1, <2>2, <3>1
  <2>4. /\ w \in Seq(Item) /\ k.at + Len(w) = ch.next /\ Segment(w, k.at, log[s])
    <3> HIDE DEF k, ch, s
    <3> QED BY <1>2, <2>1, <2>3, FromIs
  <2>5. /\ k.tail = <<>> /\ ~k.lagged /\ ~k.closed
        /\ k.epoch <= epoch /\ (k.epoch = epoch => k.drops <= drops[s])
    BY <1>1, <1>2 DEF ClientFollows
  <2>6. client' = [client EXCEPT ![c] = q]
    BY <1>4 DEF IInv, Typed
  <2> HIDE DEF w
  <2>7. /\ q.state = "live" /\ q.session = k.session /\ q.epoch = k.epoch
        /\ q.drops = k.drops /\ q.at = k.at /\ q.replay = w /\ q.tail = k.tail
        /\ q.lagged = k.lagged /\ q.closed = k.closed /\ q \in ClientType
    BY <1>2, <2>4 DEF ClientType
  <2> HIDE DEF q
  <2>8. client'[c] = q
    BY <2>6 DEF IInv, Typed
  <2>9. Followed(q, ch.next, log[s])
    <3>1. Len(q.tail) = 0 /\ Segment(q.tail, k.at + Len(w), log[s])
      BY <2>5, <2>7, SegmentNone
    <3> HIDE DEF k, s, ch
    <3> QED BY <2>1, <2>4, <2>7, <3>1 DEF Followed
  <2>10. ClientFollows(c)'
    <3>1. q.session = s /\ channel'[s] = ch /\ log'[s] = log[s]
      BY <1>1, <2>7
    <3> HIDE DEF k, s, ch
    <3> QED BY <1>1, <1>2, <2>5, <2>7, <2>8, <2>9, <3>1 DEF ClientFollows
  <2>11. Len(q.tail) <= Capacity
    BY <2>5, <2>7, HubAssumption
  <2>12. /\ shown' \in [Clients -> Event \cup {None}] /\ upsets' \in 0..MaxUpsets
         /\ upsets <= upsets'
    BY <1>1, <1>4, HubAssumption DEF IInv, Typed
  <2> QED BY <1>1, <2>6, <2>7, <2>10, <2>11, <2>12, ClientMoves
<1> QED BY <1>3, <1>4 DEF Return

LEMMA ReadKeeps ==
    ASSUME IInv, NEW c \in Clients, Read(c)
    PROVE  IInv'
<1> DEFINE k == client[c]
           s == k.session
           next == channel[s].next
<1>1. /\ UNCHANGED <<channel, known, epoch, drops, turn, gapped, log, emitted>>
      /\ UNCHANGED upsets /\ k.state = "live"
  BY DEF Read
<1>2. /\ k \in ClientType /\ k.at \in Nat /\ Len(k.tail) <= Capacity
      /\ k.replay \in Seq(Item) /\ k.tail \in Seq(Item)
      /\ s \in Sessions /\ next \in Nat
  BY <1>1, ClientFacts, SessionFacts DEF ClientFollows, ClientType
<1>3. /\ k.epoch <= epoch /\ (k.epoch = epoch => k.drops <= drops[s])
      /\ Valid(c) => ~k.closed /\ Followed(k, next, log[s])
  BY <1>1, ClientFacts DEF ClientFollows
<1>4. upsets' \in 0..MaxUpsets /\ upsets <= upsets' /\ Capacity \in Nat
  BY <1>1, HubAssumption DEF IInv, Typed
<1>5. ASSUME NEW q \in ClientType, NEW e \in Event, client' = [client EXCEPT ![c] = q],
             shown' = [shown EXCEPT ![c] = e], Len(q.tail) <= Capacity,
             q.state = "live", q.session = s, q.epoch = k.epoch, q.drops = k.drops,
             q.closed = k.closed, Valid(c) => Followed(q, next, log[s])
      PROVE  IInv'
  <2>1. shown' \in [Clients -> Event \cup {None}]
    BY <1>5 DEF IInv, Typed
  <2>2. client'[c] = q
    BY <1>5 DEF IInv, Typed
  <2>3. Valid(c)' => Valid(c)
    BY <1>1, <1>5, <2>2 DEF Valid
  <2>4. ClientFollows(c)'
    <3>1. channel'[s].next = next /\ log'[s] = log[s]
      BY <1>1
    <3> HIDE DEF k, s, next
    <3> QED BY <1>1, <1>2, <1>3, <1>5, <2>2, <2>3, <3>1 DEF ClientFollows
  <2> QED BY <1>1, <1>4, <1>5, <2>1, <2>4, ClientMoves
<1>6. CASE /\ k.replay # <<>>
           /\ shown' = [shown EXCEPT ![c] = Head(k.replay).event]
           /\ client' = [client EXCEPT ![c].replay = Tail(@), ![c].at = Head(k.replay).cursor]
  <2> DEFINE q == [k EXCEPT !.replay = Tail(@), !.at = Head(k.replay).cursor]
  <2>1. client' = [client EXCEPT ![c] = q]
    BY <1>6 DEF IInv, Typed
  <2>2. Tail(k.replay) \in Seq(Item) /\ Head(k.replay) \in Item
    BY <1>2, <1>6
  <2>3. /\ q.state = k.state /\ q.session = s /\ q.epoch = k.epoch /\ q.drops = k.drops
        /\ q.at = Head(k.replay).cursor /\ q.replay = Tail(k.replay) /\ q.tail = k.tail
        /\ q.lagged = k.lagged /\ q.closed = k.closed
    BY <1>2 DEF ClientType
  <2>4. q \in ClientType /\ Head(k.replay).event \in Event
    <3>1. Head(k.replay).cursor \in 1..MaxEvents /\ Head(k.replay).event \in Event
      BY <2>2, ItemFields
    <3>2. Head(k.replay).cursor \in 0..MaxEvents
      BY <3>1
    <3> QED BY <1>2, <2>2, <3>1, <3>2 DEF ClientType
  <2> HIDE DEF k, q, s, next
  <2>5. Valid(c) => Followed(q, next, log[s])
    <3> SUFFICES ASSUME Valid(c) PROVE Followed(q, next, log[s])
      OBVIOUS
    <3> DEFINE r == k.at + Len(k.replay)
    <3>1. /\ r <= next /\ Segment(k.replay, k.at, log[s])
          /\ ~k.lagged => r + Len(k.tail) = next /\ Segment(k.tail, r, log[s])
      BY <1>1, <1>3 DEF Followed
    <3>2. /\ Head(k.replay).cursor = k.at + 1 /\ Len(Tail(k.replay)) = Len(k.replay) - 1
          /\ Len(k.replay) \in Nat
          /\ Segment(Tail(k.replay), k.at + 1, log[s])
      BY <1>2, <1>6, <3>1, SegmentTail
    <3>3. q.at + Len(q.replay) = r
      <4>1. q.at = k.at + 1 /\ Len(q.replay) = Len(k.replay) - 1
        BY <2>3, <3>2
      <4> DEFINE n == Len(k.replay)
      <4>2. n \in Nat /\ q.at = k.at + 1 /\ Len(q.replay) = n - 1 /\ r = k.at + n
        BY <3>2, <4>1
      <4> HIDE DEF n, r
      <4> QED BY <1>2, <4>2
    <3> HIDE DEF r
    <3> QED BY <2>3, <3>1, <3>2, <3>3 DEF Followed
  <2> QED BY <1>1, <1>2, <1>5, <1>6, <2>1, <2>3, <2>4, <2>5
<1>7. CASE /\ k.replay = <<>> /\ ~k.lagged /\ k.tail # <<>>
           /\ shown' = [shown EXCEPT ![c] = Head(k.tail).event]
           /\ client' = [client EXCEPT ![c].tail = Tail(@), ![c].at = Head(k.tail).cursor]
  <2> DEFINE q == [k EXCEPT !.tail = Tail(@), !.at = Head(k.tail).cursor]
  <2>1. client' = [client EXCEPT ![c] = q]
    BY <1>7 DEF IInv, Typed
  <2>2. Tail(k.tail) \in Seq(Item) /\ Head(k.tail) \in Item
    BY <1>2, <1>7
  <2>3. /\ q.state = k.state /\ q.session = s /\ q.epoch = k.epoch /\ q.drops = k.drops
        /\ q.at = Head(k.tail).cursor /\ q.replay = <<>> /\ q.tail = Tail(k.tail)
        /\ q.lagged = k.lagged /\ q.closed = k.closed
    BY <1>2, <1>7 DEF ClientType
  <2>4. q \in ClientType /\ Head(k.tail).event \in Event
    <3>1. Head(k.tail).cursor \in 1..MaxEvents /\ Head(k.tail).event \in Event
      BY <2>2, ItemFields
    <3>2. Head(k.tail).cursor \in 0..MaxEvents
      BY <3>1
    <3> QED BY <1>2, <2>2, <3>1, <3>2 DEF ClientType
  <2>5. Len(Tail(k.tail)) = Len(k.tail) - 1 /\ Len(k.tail) \in Nat /\ Len(k.replay) = 0
        /\ Len(k.tail) >= 1
    BY <1>2, <1>7
  <2> HIDE DEF k, q, s, next
  <2>6. Len(q.tail) <= Capacity
    BY <1>2, <1>4, <2>3, <2>5
  <2>7. Valid(c) => Followed(q, next, log[s])
    <3> SUFFICES ASSUME Valid(c) PROVE Followed(q, next, log[s])
      OBVIOUS
    <3>1. k.at + Len(k.tail) = next /\ Segment(k.tail, k.at, log[s])
      <4>1. k.at + Len(k.replay) = k.at
        BY <1>2, <2>5
      <4> QED BY <1>1, <1>3, <1>7, <4>1 DEF Followed
    <3>2. Head(k.tail).cursor = k.at + 1 /\ Segment(Tail(k.tail), k.at + 1, log[s])
      BY <1>2, <1>7, <3>1, SegmentTail
    <3>3. Len(q.replay) = 0 /\ q.at = k.at + 1 /\ q.at + Len(q.replay) = k.at + 1
      <4>1. Len(q.replay) = 0
        BY <2>3
      <4> QED BY <1>2, <2>3, <3>2, <4>1
    <3>4. /\ k.at + 1 <= next
          /\ (k.at + 1) + (Len(k.tail) - 1) = next
      BY <1>2, <2>5, <3>1
    <3>5. Segment(q.replay, q.at, log[s])
      BY <2>3, SegmentNone
    <3> QED BY <2>3, <2>5, <3>2, <3>3, <3>4, <3>5 DEF Followed
  <2> QED BY <1>1, <1>2, <1>5, <1>7, <2>1, <2>3, <2>4, <2>6, <2>7
<1> QED BY <1>6, <1>7 DEF Read

LEMMA AwayKeeps ==
    ASSUME IInv, NEW c \in Clients, Away(c), client[c].state = "live",
           UNCHANGED <<channel, known, epoch, drops, turn, gapped, log, emitted, shown>>,
           upsets' \in 0..MaxUpsets, upsets <= upsets'
    PROVE  IInv'
<1> DEFINE k == client[c]
           s == k.session
           q == [k EXCEPT !.state = "away", !.replay = <<>>, !.tail = <<>>,
                          !.lagged = FALSE, !.closed = FALSE]
<1>1. k \in ClientType /\ k.at \in Nat /\ ClientFollows(c) /\ k.replay \in Seq(Item)
  BY ClientFacts DEF ClientType
<1>2. /\ s \in Sessions /\ k.epoch <= epoch
      /\ (k.epoch = epoch => k.drops <= drops[s])
      /\ Valid(c) => Followed(k, channel[s].next, log[s])
  BY <1>1 DEF ClientFollows
<1>3. client' = [client EXCEPT ![c] = q]
  BY DEF Away, IInv, Typed
<1>4. /\ q.state = "away" /\ q.session = k.session /\ q.epoch = k.epoch
      /\ q.drops = k.drops /\ q.at = k.at /\ q.replay = <<>> /\ q.tail = <<>>
      /\ ~q.lagged /\ ~q.closed /\ q \in ClientType
  <2>1. <<>> \in Seq(Item)
    OBVIOUS
  <2> QED BY <1>1, <2>1 DEF ClientType
<1>5. client'[c] = q
  BY <1>3 DEF IInv, Typed
<1>6. channel[s].next \in Nat
  BY <1>2, SessionFacts
<1> HIDE DEF q
<1>7. Valid(c) => Followed(q, channel[s].next, log[s])
  <2> SUFFICES ASSUME Valid(c) PROVE Followed(q, channel[s].next, log[s])
    OBVIOUS
  <2>1. k.at + Len(k.replay) <= channel[s].next
    BY <1>2 DEF Followed
  <2>2. Len(q.replay) = 0 /\ Segment(q.replay, q.at, log[s])
    BY <1>4, SegmentNone
  <2> HIDE DEF k, s
  <2>3. Len(k.replay) \in Nat
    BY <1>1
  <2>4. q.at + Len(q.replay) <= channel[s].next
    BY <1>1, <1>4, <1>6, <2>1, <2>2, <2>3
  <2> QED BY <1>4, <2>2, <2>4 DEF Followed
<1>8. Valid(c)' => Valid(c)
  BY <1>4, <1>5 DEF Valid
<1>9. ClientFollows(c)'
  <2>1. q.session = s /\ channel'[s] = channel[s] /\ log'[s] = log[s]
    BY <1>4
  <2> HIDE DEF k, s
  <2> QED BY <1>2, <1>4, <1>5, <1>7, <1>8, <2>1 DEF ClientFollows
<1>10. Len(q.tail) <= Capacity /\ shown' \in [Clients -> Event \cup {None}]
  BY <1>4, HubAssumption DEF IInv, Typed
<1> QED BY <1>3, <1>4, <1>9, <1>10, ClientMoves


-----------------------------------------------------------------------------
(* Turns, gaps, deletion and restarts                                      *)

(* The three kinds of step of a turn, and the event each emits.            *)
Starts(s, e) ==
    /\ turn[s].now = 0 /\ turn[s].ran < MaxTurns
    /\ Parent[s] # None => turn[Parent[s]].now # 0
    /\ e.kind = "start" /\ e.turn = turn[s].ran + 1
    /\ turn' = [turn EXCEPT ![s] = [now |-> turn[s].ran + 1, ran |-> turn[s].ran + 1]]
    /\ gapped' = gapped \ {s}

Progresses(s, e) ==
    /\ turn[s].now # 0
    /\ e.kind \in {"delta", "ask"} /\ e.turn = turn[s].now
    /\ UNCHANGED <<turn, gapped>>

Ends(s, e) ==
    /\ turn[s].now # 0
    /\ e.kind = "end" /\ e.turn = turn[s].now
    /\ turn' = [turn EXCEPT ![s].now = 0]
    /\ UNCHANGED gapped

LEMMA TurnsKeep ==
    ASSUME IInv, NEW s \in Sessions, StartTurn(s) \/ Progress(s) \/ EndTurn(s)
    PROVE  /\ turn' \in [Sessions -> [now : 0..MaxTurns, ran : 0..MaxTurns]]
           /\ gapped' \subseteq Sessions
           /\ \E e \in Event : /\ Emit(e) /\ e.from = s
                               /\ Starts(s, e) \/ Progresses(s, e) \/ Ends(s, e)
<1>1. /\ turn \in [Sessions -> [now : 0..MaxTurns, ran : 0..MaxTurns]]
      /\ gapped \subseteq Sessions /\ MaxTurns \in Nat
  BY HubAssumption DEF IInv, Typed
<1>2. turn[s].now \in 0..MaxTurns /\ turn[s].ran \in 0..MaxTurns
  BY <1>1
<1>3. CASE StartTurn(s)
  <2>1. turn[s].ran + 1 \in 1..MaxTurns /\ turn[s].ran + 1 \in 0..MaxTurns
    BY <1>1, <1>2, <1>3 DEF StartTurn
  <2> DEFINE e == [from |-> s, turn |-> turn[s].ran + 1, kind |-> "start", bytes |-> 1]
  <2>2. e \in Event
    BY <2>1 DEF Event, Kinds
  <2>3. /\ Emit(e) /\ gapped' = gapped \ {s}
        /\ turn' = [turn EXCEPT ![s] = [now |-> turn[s].ran + 1, ran |-> turn[s].ran + 1]]
    BY <1>1, <1>3 DEF StartTurn
  <2>4. e.from = s /\ Starts(s, e)
    BY <1>3, <2>3 DEF StartTurn, Starts
  <2> HIDE DEF e
  <2> QED BY <1>1, <2>1, <2>2, <2>3, <2>4
<1>4. CASE Progress(s)
  <2>1. turn[s].now \in 1..MaxTurns
    BY <1>2, <1>4 DEF Progress
  <2>2. ASSUME NEW b \in Sizes \cup {1}, NEW kind \in {"delta", "ask"},
               Emit([from |-> s, turn |-> turn[s].now, kind |-> kind, bytes |-> b])
        PROVE  \E e \in Event : Emit(e) /\ e.from = s /\ Progresses(s, e)
    <3> DEFINE e == [from |-> s, turn |-> turn[s].now, kind |-> kind, bytes |-> b]
    <3>1. e \in Event
      BY <2>1 DEF Event, Kinds
    <3>2. Emit(e) /\ e.from = s /\ Progresses(s, e)
      BY <1>4, <2>2 DEF Progress, Progresses
    <3> HIDE DEF e
    <3> QED BY <3>1, <3>2
  <2>3. \E e \in Event : Emit(e) /\ e.from = s /\ Progresses(s, e)
    BY <1>4, <2>2 DEF Progress
  <2> QED BY <1>1, <1>4, <2>3 DEF Progress
<1>5. CASE EndTurn(s)
  <2>1. turn[s].now \in 1..MaxTurns
    BY <1>2, <1>5 DEF EndTurn
  <2> DEFINE e == [from |-> s, turn |-> turn[s].now, kind |-> "end", bytes |-> 1]
  <2>2. e \in Event
    BY <2>1 DEF Event, Kinds
  <2>3. Emit(e) /\ gapped' = gapped /\ turn' = [turn EXCEPT ![s].now = 0]
    BY <1>5 DEF EndTurn
  <2>4. e.from = s /\ Ends(s, e)
    BY <1>5, <2>3 DEF EndTurn, Ends
  <2> HIDE DEF e
  <2>5. turn' \in [Sessions -> [now : 0..MaxTurns, ran : 0..MaxTurns]]
    BY <1>1, <2>3
  <2> QED BY <1>1, <2>2, <2>3, <2>4, <2>5
<1> QED BY <1>3, <1>4, <1>5

LEMMA SignalKeeps ==
    ASSUME IInv, NEW s \in Sessions, SignalTurnGap(s)
    PROVE  IInv'
<1>1. /\ upsets' = upsets + 1 /\ upsets < MaxUpsets /\ gapped' = gapped \cup {s}
      /\ channel' = [channel EXCEPT ![s].history = <<>>, ![s].active = None]
      /\ UNCHANGED <<known, epoch, drops, turn, log, client, shown, emitted>>
  BY DEF SignalTurnGap
<1>2. upsets \in Nat /\ upsets' \in 0..MaxUpsets /\ upsets <= upsets'
  BY <1>1, HubAssumption DEF IInv, Typed
<1>3. ASSUME NEW t \in Sessions
      PROVE  /\ channel'[t] \in ChannelType /\ channel'[t].next = channel[t].next
             /\ WindowOf(channel'[t], log[t])
  <2>1. channel[t] \in ChannelType /\ WindowOf(channel[t], log[t]) /\ channel[t].next \in Nat
    BY SessionFacts
  <2>2. CASE t = s
    <3> DEFINE q == [channel[s] EXCEPT !.history = <<>>, !.active = None]
    <3>1. channel'[s] = q
      BY <1>1 DEF IInv, Typed
    <3>2. q.next = channel[s].next /\ q.history = <<>> /\ q.active = None /\ q \in ChannelType
      <4>1. <<>> \in Seq(Item)
        OBVIOUS
      <4> QED BY <2>1, <2>2, <4>1 DEF ChannelType
    <3> HIDE DEF q
    <3>3. Len(q.history) = 0 /\ Segment(q.history, Base(q), log[s])
      BY <3>2, SegmentNone
    <3>4. WindowOf(q, log[s])
      BY <2>1, <2>2, <3>2, <3>3 DEF WindowOf
    <3> QED BY <2>2, <3>1, <3>2, <3>4
  <2>3. CASE t # s
    BY <1>1, <2>1, <2>3 DEF IInv, Typed
  <2> QED BY <2>2, <2>3
<1>4. Typed'
  <2>1. channel' \in [Sessions -> ChannelType]
    <3>1. channel' = [t \in Sessions |-> channel'[t]]
      BY <1>1 DEF IInv, Typed
    <3> QED BY <1>3, <3>1
  <2> QED BY <1>1, <1>2, <2>1 DEF IInv, Typed
<1>5. Counted'
  <2>1. epoch \in Nat /\ \A t \in Sessions : drops[t] \in Nat
    BY HubAssumption DEF IInv, Typed
  <2>2. epoch <= upsets /\ \A t \in Sessions : drops[t] <= upsets /\ channel[t].next <= emitted
    BY DEF IInv, Counted
  <2>3. upsets' \in Nat
    BY <1>1, <1>2
  <2>4. epoch' <= upsets'
    BY <1>1, <1>2, <2>1, <2>2
  <2>5. ASSUME NEW t \in Sessions
        PROVE  drops'[t] <= upsets' /\ channel'[t].next <= emitted'
    <3>1. drops[t] \in Nat /\ drops[t] <= upsets /\ channel[t].next <= emitted
      BY <2>1, <2>2
    <3>2. drops'[t] <= upsets'
      BY <1>1, <1>2, <3>1
    <3>3. channel'[t].next <= emitted'
      BY <1>1, <1>3, <3>1
    <3> QED BY <3>2, <3>3
  <2> QED BY <2>4, <2>5 DEF Counted
<1>6. ASSUME NEW c \in Clients PROVE ClientFollows(c)'
  <2>1. ClientFollows(c) /\ (Valid(c)' <=> Valid(c))
    BY <1>1 DEF IInv, ClientsFollow, Valid
  <2>2. client[c].state # "new" => client[c].session \in Sessions
    BY <2>1 DEF ClientFollows
  <2> QED BY <1>1, <1>3, <2>1, <2>2 DEF ClientFollows, Valid
<1> QED BY <1>1, <1>3, <1>4, <1>5, <1>6 DEF IInv, Windows, ClientsFollow

LEMMA ClosedIs ==
    ASSUME NEW k \in ClientType
    PROVE  /\ Closed(k) \in ClientType /\ Closed(k).state = k.state
           /\ Closed(k).session = k.session /\ Closed(k).epoch = k.epoch
           /\ Closed(k).drops = k.drops /\ Closed(k).at = k.at
           /\ Closed(k).replay = k.replay /\ Closed(k).tail = k.tail
           /\ Closed(k).lagged = k.lagged
           /\ k.state # "live" => Closed(k) = k
BY DEF Closed, ClientType

LEMMA NewWindow ==
    /\ NewChannel \in ChannelType /\ NewChannel.next = 0
    /\ WindowOf(NewChannel, <<>>) /\ <<>> \in Seq(Event)
<1>1. <<>> \in Seq(Item) /\ <<>> \in Seq(Event) /\ Len(<<>>) = 0 /\ 0 \in 0..MaxEvents
  BY HubAssumption
<1>2. NewChannel.history = <<>> /\ NewChannel.next = 0 /\ NewChannel.active = None
      /\ NewChannel \in ChannelType
  BY <1>1 DEF NewChannel, ChannelType
<1>3. Segment(NewChannel.history, Base(NewChannel), <<>>)
  BY <1>2, SegmentNone
<1> QED BY <1>1, <1>2, <1>3 DEF WindowOf

(* A client whose receiver closed; the place it has is not valid any more. *)
LEMMA ClosedKeeps ==
    ASSUME IInv, NEW c \in Clients, client'[c] = Closed(client[c]), ~Valid(c)',
           epoch' >= epoch, epoch' \in Nat,
           epoch' = epoch /\ client[c].session \in Sessions =>
               drops'[client[c].session] >= drops[client[c].session],
           drops' \in [Sessions -> Nat]
    PROVE  ClientFollows(c)'
<1> DEFINE k == client[c]
           q == Closed(k)
<1>1. /\ k \in ClientType /\ ClientFollows(c) /\ epoch \in Nat
      /\ \A s \in Sessions : drops[s] \in Nat
  BY ClientFacts, HubAssumption DEF IInv, Typed
<1>2. /\ q.state = k.state /\ q.session = k.session /\ q.epoch = k.epoch
      /\ q.drops = k.drops /\ q.replay = k.replay /\ q.tail = k.tail
      /\ q.lagged = k.lagged /\ (k.state # "live" => q = k)
  BY <1>1, ClosedIs
<1>3. k.epoch \in Nat /\ k.drops \in Nat
  BY <1>1 DEF ClientType
<1>4. /\ k.state # "new" => k.session \in Sessions /\ k.epoch <= epoch
                            /\ (k.epoch = epoch => k.drops <= drops[k.session])
      /\ k.state # "live" => k.replay = <<>> /\ k.tail = <<>> /\ ~k.lagged /\ ~k.closed
  BY <1>1 DEF ClientFollows
<1>5. k.state # "new" => k.epoch <= epoch' /\ (k.epoch = epoch' => k.drops <= drops'[k.session])
  <2> SUFFICES ASSUME k.state # "new"
               PROVE  k.epoch <= epoch' /\ (k.epoch = epoch' => k.drops <= drops'[k.session])
    OBVIOUS
  <2>1. /\ k.session \in Sessions /\ k.epoch <= epoch
        /\ (k.epoch = epoch => k.drops <= drops[k.session])
        /\ drops[k.session] \in Nat /\ drops'[k.session] \in Nat
        /\ (epoch' = epoch => drops'[k.session] >= drops[k.session])
    BY <1>1, <1>4
  <2> HIDE DEF k
  <2> QED BY <1>1, <1>3, <2>1
<1>6. client'[c] = q
  OBVIOUS
<1> HIDE DEF k, q
<1> QED BY <1>2, <1>4, <1>5, <1>6 DEF ClientFollows


LEMMA DropKeeps ==
    ASSUME IInv, NEW s \in Sessions, DropSession(s)
    PROVE  IInv'
<1>1. /\ upsets' = upsets + 1 /\ upsets < MaxUpsets /\ gapped' = gapped \cup {s}
      /\ drops' = [drops EXCEPT ![s] = @ + 1]
      /\ channel' = [channel EXCEPT ![s] = NewChannel]
      /\ log' = [log EXCEPT ![s] = <<>>]
      /\ client' = [c \in Clients |-> IF client[c].session = s THEN Closed(client[c])
                                      ELSE client[c]]
      /\ UNCHANGED <<known, epoch, turn, shown, emitted>>
  BY DEF DropSession
<1>2. upsets \in Nat /\ upsets' \in 0..MaxUpsets /\ upsets <= upsets' /\ upsets' \in Nat
  BY <1>1, HubAssumption DEF IInv, Typed
<1>3. ASSUME NEW t \in Sessions
      PROVE  /\ channel'[t] \in ChannelType /\ channel'[t].next <= emitted
             /\ WindowOf(channel'[t], log'[t]) /\ log'[t] \in Seq(Event)
             /\ drops'[t] \in 0..MaxUpsets /\ drops'[t] <= upsets' /\ drops'[t] >= drops[t]
             /\ (t = s => drops'[t] # drops[t] /\ drops'[t] > drops[t])
             /\ (t # s => /\ drops'[t] = drops[t] /\ channel'[t] = channel[t]
                          /\ log'[t] = log[t])
  <2>1. drops[t] \in Nat /\ drops[t] <= upsets /\ drops[s] \in Nat /\ drops[s] <= upsets
    BY HubAssumption DEF IInv, Typed, Counted
  <2>2. CASE t = s
    <3>1. drops'[t] = drops[t] + 1 /\ channel'[t] = NewChannel /\ log'[t] = <<>>
      BY <1>1, <2>2 DEF IInv, Typed
    <3>2. NewChannel.next <= emitted
      BY NewWindow, SessionFacts
    <3>3. drops[t] + 1 \in 0..MaxUpsets /\ drops[t] + 1 <= upsets' /\ drops[t] + 1 > drops[t]
      <4> DEFINE x == drops[t]
                 y == upsets
      <4>1. x \in Nat /\ x <= y /\ y \in Nat /\ y < MaxUpsets /\ upsets' = y + 1
            /\ MaxUpsets \in Nat
        BY <1>1, <1>2, <2>1, HubAssumption
      <4> HIDE DEF x, y
      <4>2. x + 1 \in 0..MaxUpsets /\ x + 1 <= y + 1 /\ x + 1 > x
        BY <4>1
      <4> QED BY <4>1, <4>2 DEF x
    <3> QED BY <2>1, <2>2, <3>1, <3>2, <3>3, NewWindow
  <2>3. CASE t # s
    <3>1. drops'[t] = drops[t] /\ channel'[t] = channel[t] /\ log'[t] = log[t]
      BY <1>1, <2>3 DEF IInv, Typed
    <3>2. drops[t] \in 0..MaxUpsets /\ drops[t] <= upsets'
      BY <1>1, <1>2, <2>1 DEF IInv, Typed
    <3> QED BY <2>1, <2>3, <3>1, <3>2, SessionFacts
  <2> QED BY <2>2, <2>3
<1>4. ASSUME NEW c \in Clients
      PROVE  client'[c] \in ClientType /\ Len(client'[c].tail) <= Capacity /\ ClientFollows(c)'
  <2>1. client[c] \in ClientType /\ Len(client[c].tail) <= Capacity /\ ClientFollows(c)
    BY ClientFacts
  <2>2. epoch' >= epoch /\ epoch' \in Nat /\ drops' \in [Sessions -> Nat]
    <3>1. drops' = [t \in Sessions |-> drops'[t]]
      BY <1>1 DEF IInv, Typed
    <3>2. \A t \in Sessions : drops'[t] \in Nat
      BY <1>3, HubAssumption
    <3>3. drops' \in [Sessions -> Nat]
      BY <3>1, <3>2
    <3>4. epoch \in Nat /\ epoch' = epoch
      BY <1>1, HubAssumption DEF IInv, Typed
    <3> QED BY <3>3, <3>4
  <2>3. CASE client[c].session = s
    <3>1. client'[c] = Closed(client[c])
      BY <1>1, <2>3
    <3>2. ~Valid(c)'
      <4> SUFFICES ASSUME Valid(c)' PROVE FALSE
        OBVIOUS
      <4>1. /\ client[c].state # "new" /\ client[c].epoch = epoch
            /\ client[c].drops = drops'[s]
        BY <1>1, <2>1, <2>3, <3>1, ClosedIs DEF Valid
      <4>2. client[c].drops <= drops[s] /\ drops[s] \in Nat /\ drops'[s] > drops[s]
            /\ drops'[s] \in Nat
        BY <1>3, <2>1, <2>3, <4>1, HubAssumption DEF ClientFollows, IInv, Typed
      <4> QED BY <4>1, <4>2
    <3>3. ClientFollows(c)'
      BY <1>3, <2>2, <2>3, <3>1, <3>2, ClosedKeeps
    <3> QED BY <2>1, <3>1, <3>3, ClosedIs
  <2>4. CASE client[c].session # s
    <3>1. client'[c] = client[c]
      BY <1>1, <2>4
    <3>2. client[c].state # "new" => client[c].session \in Sessions
      BY <2>1 DEF ClientFollows
    <3>3. Valid(c)' => Valid(c)
      BY <1>1, <1>3, <2>4, <3>1, <3>2 DEF Valid
    <3>4. ClientFollows(c)'
      BY <1>1, <1>3, <2>1, <2>4, <3>1, <3>2, <3>3 DEF ClientFollows, Valid
    <3> QED BY <2>1, <3>1, <3>4
  <2> QED BY <2>3, <2>4
<1>5. Typed'
  <2>1. /\ channel' = [t \in Sessions |-> channel'[t]] /\ log' = [t \in Sessions |-> log'[t]]
        /\ drops' = [t \in Sessions |-> drops'[t]] /\ client' = [c \in Clients |-> client'[c]]
    BY <1>1 DEF IInv, Typed
  <2>2. /\ channel' \in [Sessions -> ChannelType] /\ log' \in [Sessions -> Seq(Event)]
        /\ drops' \in [Sessions -> 0..MaxUpsets] /\ client' \in [Clients -> ClientType]
    BY <1>3, <1>4, <2>1
  <2> QED BY <1>1, <1>2, <1>4, <2>2 DEF IInv, Typed
<1>6. Counted'
  <2>1. epoch \in Nat /\ epoch <= upsets
    BY HubAssumption DEF IInv, Typed, Counted
  <2>2. epoch' <= upsets'
    BY <1>1, <1>2, <2>1
  <2> QED BY <1>1, <1>3, <2>2 DEF Counted
<1> QED BY <1>3, <1>4, <1>5, <1>6 DEF IInv, Windows, ClientsFollow

LEMMA RestartKeeps ==
    ASSUME IInv, Restart
    PROVE  IInv'
<1>1. /\ upsets' = upsets + 1 /\ upsets < MaxUpsets /\ epoch' = epoch + 1
      /\ channel' = [s \in Sessions |-> NewChannel] /\ known' = {} /\ gapped' = {}
      /\ drops' = [s \in Sessions |-> 0] /\ log' = [s \in Sessions |-> <<>>]
      /\ turn' = [s \in Sessions |-> [turn[s] EXCEPT !.now = 0]]
      /\ client' = [c \in Clients |-> Closed(client[c])]
      /\ UNCHANGED <<shown, emitted>>
  BY DEF Restart
<1>2. /\ upsets \in Nat /\ upsets' \in 0..MaxUpsets /\ epoch \in Nat /\ epoch <= upsets
      /\ epoch' \in 0..MaxUpsets /\ epoch' <= upsets' /\ epoch' \in Nat /\ upsets' \in Nat
  BY <1>1, HubAssumption DEF IInv, Typed, Counted
<1>3. ASSUME NEW s \in Sessions
      PROVE  /\ channel'[s] = NewChannel /\ log'[s] = <<>> /\ drops'[s] = 0
             /\ channel'[s].next <= emitted'
             /\ turn'[s] \in [now : 0..MaxTurns, ran : 0..MaxTurns]
  <2>1. channel'[s] = NewChannel /\ log'[s] = <<>> /\ drops'[s] = 0
        /\ turn'[s] = [turn[s] EXCEPT !.now = 0]
    BY <1>1
  <2>2. turn[s] \in [now : 0..MaxTurns, ran : 0..MaxTurns]
    BY DEF IInv, Typed
  <2>3. 0 \in 0..MaxTurns /\ emitted \in Nat
    BY HubAssumption DEF IInv, Typed
  <2> QED BY <1>1, <2>1, <2>2, <2>3, NewWindow
<1>4. ASSUME NEW c \in Clients
      PROVE  client'[c] \in ClientType /\ Len(client'[c].tail) <= Capacity /\ ClientFollows(c)'
  <2>1. /\ client[c] \in ClientType /\ Len(client[c].tail) <= Capacity /\ ClientFollows(c)
        /\ client'[c] = Closed(client[c])
    BY <1>1, ClientFacts
  <2>2. ~Valid(c)'
    <3> SUFFICES ASSUME Valid(c)' PROVE FALSE
      OBVIOUS
    <3>1. client[c].state # "new" /\ client[c].epoch = epoch'
      BY <2>1, ClosedIs DEF Valid
    <3>2. client[c].epoch <= epoch
      BY <2>1, <3>1 DEF ClientFollows
    <3> QED BY <1>1, <1>2, <3>1, <3>2
  <2>3. /\ epoch' >= epoch /\ epoch' # epoch /\ drops' \in [Sessions -> Nat]
    BY <1>1, <1>2
  <2>4. ClientFollows(c)'
    BY <1>2, <2>1, <2>2, <2>3, ClosedKeeps
  <2> QED BY <2>1, <2>4, ClosedIs
<1>5. Typed'
  <2>1. /\ channel' \in [Sessions -> ChannelType] /\ log' \in [Sessions -> Seq(Event)]
        /\ drops' \in [Sessions -> 0..MaxUpsets] /\ client' \in [Clients -> ClientType]
        /\ turn' \in [Sessions -> [now : 0..MaxTurns, ran : 0..MaxTurns]]
    <3>1. 0 \in 0..MaxUpsets /\ turn' = [s \in Sessions |-> turn'[s]]
          /\ client' = [c \in Clients |-> client'[c]]
      BY <1>1, HubAssumption
    <3> QED BY <1>1, <1>3, <1>4, <3>1, NewWindow
  <2>2. known' \subseteq SubAgents /\ gapped' \subseteq Sessions
    BY <1>1
  <2> QED BY <1>1, <1>2, <1>4, <2>1, <2>2 DEF IInv, Typed
<1>6. Counted'
  BY <1>2, <1>3 DEF Counted
<1> QED BY <1>3, <1>4, <1>5, <1>6, NewWindow DEF IInv, Windows, ClientsFollow

-----------------------------------------------------------------------------
(* The invariant holds in every state.                                     *)

LEMMA InitHolds == Init => IInv
<1> SUFFICES ASSUME Init PROVE IInv
  OBVIOUS
<1>1. <<>> \in Seq(Item) /\ Len(<<>>) = 0 /\ Capacity \in Nat
      /\ 0 \in 0..MaxUpsets /\ 0 \in 0..MaxEvents /\ 0 \in 0..MaxTurns
  BY HubAssumption
<1>2. NoClient \in ClientType /\ Len(NoClient.tail) <= Capacity
  BY <1>1 DEF NoClient, ClientType
<1>3. Typed
  BY <1>1, <1>2, NewWindow DEF Init, Typed
<1>4. Counted
  BY <1>1, NewWindow DEF Init, Counted
<1>5. Windows
  BY NewWindow DEF Init, Windows
<1>6. ClientsFollow
  BY DEF Init, ClientsFollow, ClientFollows, Valid, NoClient
<1> QED BY <1>3, <1>4, <1>5, <1>6 DEF IInv

LEMMA StepHolds == IInv /\ [Next]_vars => IInv'
<1> SUFFICES ASSUME IInv, [Next]_vars PROVE IInv'
  OBVIOUS
<1>1. ASSUME NEW s \in Sessions, StartTurn(s) \/ Progress(s) \/ EndTurn(s) PROVE IInv'
  BY <1>1, TurnsKeep, EmitKeeps
<1>2. ASSUME NEW c \in Clients, Return(c) PROVE IInv'
  BY <1>2, ReturnKeeps
<1>3. ASSUME NEW c \in Clients, Read(c) PROVE IInv'
  BY <1>3, ReadKeeps
<1>4. ASSUME NEW c \in Clients, Notice(c) PROVE IInv'
  <2>1. upsets' \in 0..MaxUpsets /\ upsets <= upsets'
    BY <1>4, HubAssumption DEF Notice, IInv, Typed
  <2> QED BY <1>4, <2>1, AwayKeeps DEF Notice
<1>5. ASSUME NEW c \in Clients, Leave(c) PROVE IInv'
  <2>1. upsets' \in 0..MaxUpsets /\ upsets <= upsets'
    BY <1>5, HubAssumption DEF Leave, IInv, Typed
  <2> QED BY <1>5, <2>1, AwayKeeps DEF Leave
<1>6. ASSUME NEW c \in Clients, NEW s \in Sessions, Attach(c, s) PROVE IInv'
  BY <1>6, AttachKeeps
<1>7. ASSUME NEW s \in Sessions, SignalTurnGap(s) PROVE IInv'
  BY <1>7, SignalKeeps
<1>8. ASSUME NEW s \in Sessions, DropSession(s) PROVE IInv'
  BY <1>8, DropKeeps
<1>9. CASE Restart
  BY <1>9, RestartKeeps
<1>10. CASE UNCHANGED vars
  BY <1>10 DEF vars, IInv, Typed, Counted, Windows, ClientsFollow, ClientFollows, Valid
<1> QED BY <1>1, <1>2, <1>3, <1>4, <1>5, <1>6, <1>7, <1>8, <1>9, <1>10 DEF Next, Follow

(* Windows are the ends of their logs, and what a client is about to read  *)
(* is what comes next in the log of its session.                           *)
THEOREM Invariance == Spec => []IInv
BY InitHolds, StepHolds, PTL DEF Spec

(* Every reachable state has the declared types, and no receiver holds     *)
(* more than its capacity.                                                 *)
THEOREM TypeCorrect == Spec => []TypeOK
<1>1. IInv => TypeOK
  <2> SUFFICES ASSUME IInv PROVE TypeOK
    OBVIOUS
  <2>1. ASSUME NEW s \in Sessions
        PROVE  /\ channel[s].history \in Seq(Item) /\ channel[s].next \in 0..MaxEvents
               /\ channel[s].active = None
                    \/ channel[s].active \in [turn : 1..MaxTurns, start : 1..MaxEvents]
               /\ Len(channel[s].history) <= channel[s].next
    BY SessionFacts DEF ChannelType, ActiveType, WindowOf
  <2>2. ASSUME NEW c \in Clients
        PROVE  /\ client[c].state \in {"new", "live", "away"}
               /\ client[c].session \in Sessions \cup {None} /\ client[c].at \in 0..MaxEvents
               /\ client[c].replay \in Seq(Item) /\ client[c].tail \in Seq(Item)
               /\ Len(client[c].tail) <= Capacity
    BY ClientFacts DEF ClientType
  <2> QED BY <2>1, <2>2 DEF IInv, Typed, TypeOK, SubAgents
<1> QED BY <1>1, Invariance, PTL


-----------------------------------------------------------------------------
(* The hub implements EventLog: what a subscriber is shown is the log of   *)
(* its session, event by event.                                            *)

Place(c) == IF Valid(c) THEN [session |-> client[c].session, at |-> client[c].at] ELSE None
Places == [c \in Clients |-> Place(c)]

LEMMA PlaceFacts ==
    ASSUME IInv, NEW c \in Clients
    PROVE  /\ Valid(c) => /\ client[c].session \in Sessions /\ Place(c) # None
                          /\ Place(c).session = client[c].session
                          /\ Place(c).at = client[c].at
           /\ Place(c) # None => Valid(c)
<1>1. client[c] \in ClientType /\ ClientFollows(c)
  BY ClientFacts
<1>2. CASE Valid(c)
  <2>1. client[c].session \in Sessions /\ client[c].at \in 0..MaxEvents
    BY <1>1, <1>2 DEF Valid, ClientFollows, ClientType
  <2>2. Place(c) = [session |-> client[c].session, at |-> client[c].at]
    BY <1>2 DEF Place
  <2>3. Place(c) \in [session : Sessions, at : 0..MaxEvents]
    BY <2>1, <2>2
  <2>4. None \notin [session : Sessions, at : 0..MaxEvents]
    BY HubAssumption
  <2>5. Place(c) # None
    BY <2>3, <2>4
  <2> QED BY <1>2, <2>1, <2>2, <2>5
<1>3. CASE ~Valid(c)
  BY <1>3 DEF Place
<1> QED BY <1>2, <1>3

LEMMA SamePlace ==
    ASSUME NEW c \in Clients, UNCHANGED epoch,
           client'[c].session = client[c].session, client'[c].epoch = client[c].epoch,
           client'[c].drops = client[c].drops, client'[c].at = client[c].at,
           client'[c].state = "new" <=> client[c].state = "new",
           Valid(c) \/ Valid(c)' => UNCHANGED drops[client[c].session]
    PROVE  Place(c)' = Place(c)
<1>1. Valid(c)' <=> Valid(c)
  BY DEF Valid
<1> QED BY <1>1 DEF Place

LEMMA Publishes ==
    ASSUME NEW e \in Event, NEW to \in SUBSET Sessions, to # {},
           log' = [s \in Sessions |-> IF s \in to THEN Append(log[s], e) ELSE log[s]],
           Places' = Places, shown' = shown
    PROVE  Log!Next
<1>1. Log!Publish
  BY DEF Log!Publish, Places, Place
<1> QED BY <1>1 DEF Log!Next

LEMMA Joins ==
    ASSUME NEW c \in Clients, NEW s \in Sessions, NEW n \in 0..Len(log[s]),
           Places' = [Places EXCEPT ![c] = [session |-> s, at |-> n]],
           shown' = [shown EXCEPT ![c] = None], log' = log
    PROVE  Log!Next
<1>1. Log!Join(c)
  BY DEF Log!Join, Log!Moved, Places, Place
<1> QED BY <1>1 DEF Log!Next

LEMMA Reads ==
    ASSUME IInv, NEW c \in Clients, Valid(c),
           client[c].at + 1 <= Len(log[client[c].session]),
           Places' = [Places EXCEPT ![c] = [session |-> client[c].session,
                                            at |-> client[c].at + 1]],
           shown' = [shown EXCEPT ![c] = log[client[c].session][client[c].at + 1]],
           log' = log
    PROVE  Log!Next
<1>1. Places[c] # None /\ Places[c].session = client[c].session
      /\ Places[c].at = client[c].at
  BY PlaceFacts DEF Places
<1>2. Log!Read(c)
  BY <1>1 DEF Log!Read, Log!Moved, Places, Place
<1> QED BY <1>2 DEF Log!Next

LEMMA ShowsLeftover ==
    ASSUME NEW c \in Clients, ~Valid(c), NEW e \in Event,
           Places' = Places, shown' = [shown EXCEPT ![c] = e], log' = log
    PROVE  Log!Next
<1>1. Log!Leftover(c)
  BY DEF Log!Leftover, Places, Place
<1> QED BY <1>1 DEF Log!Next

LEMMA StartsAgain ==
    ASSUME NEW gone \in SUBSET Sessions,
           log' = [s \in Sessions |-> IF s \in gone THEN <<>> ELSE log[s]],
           Places' = [c \in Clients |-> IF Places[c] # None /\ Places[c].session \in gone
                                        THEN None ELSE Places[c]],
           shown' = shown
    PROVE  Log!Next
<1>1. Log!Restart
  BY DEF Log!Restart, Places, Place
<1> QED BY <1>1 DEF Log!Next

LEMMA Rests ==
    ASSUME Places' = Places, log' = log, shown' = shown
    PROVE  UNCHANGED Log!vars
BY DEF Log!vars, Places, Place


LEMMA EmitRefines ==
    ASSUME IInv, NEW e \in Event, Emit(e)
    PROVE  Log!Next
<1> DEFINE to == Reaches(e)
           item(s) == [cursor |-> channel[s].next + 1, event |-> e]
<1>1. /\ emitted < MaxEvents
      /\ log' = [s \in Sessions |-> IF s \in to THEN Append(log[s], e) ELSE log[s]]
      /\ client' = [c \in Clients |->
                       IF client[c].session \in to /\ Listening(client[c], client[c].session)
                       THEN Received(client[c], item(client[c].session)) ELSE client[c]]
      /\ UNCHANGED <<epoch, drops, shown>>
  BY DEF Emit
<1>2. to \in SUBSET Sessions /\ to # {}
  BY ReachesSessions
<1> HIDE DEF to
<1>3. ASSUME NEW c \in Clients PROVE Place(c)' = Place(c)
  <2> DEFINE s == client[c].session
  <2>1. client[c] \in ClientType /\ Len(client[c].tail) <= Capacity
    BY ClientFacts
  <2>2. CASE s \in to /\ Listening(client[c], s)
    <3>1. client'[c] = Received(client[c], item(s)) /\ s \in Sessions
      BY <1>1, <1>2, <2>2
    <3>2. item(s) \in Item
      <4>1. channel[s].next \in Nat /\ channel[s].next <= emitted /\ emitted \in Nat
        BY <3>1, SessionFacts
      <4>2. channel[s].next + 1 \in 1..MaxEvents
        BY <1>1, <4>1, HubAssumption
      <4> QED BY <4>2 DEF Item
    <3> HIDE DEF item
    <3>3. /\ client'[c].session = client[c].session /\ client'[c].epoch = client[c].epoch
          /\ client'[c].drops = client[c].drops /\ client'[c].at = client[c].at
          /\ client'[c].state = client[c].state
      BY <2>1, <3>1, <3>2, ReceivedIs
    <3> QED BY <1>1, <3>3, SamePlace
  <2>3. CASE ~(s \in to /\ Listening(client[c], s))
    <3>1. client'[c] = client[c]
      BY <1>1, <2>3
    <3> QED BY <1>1, <3>1, SamePlace
  <2> QED BY <2>2, <2>3
<1>4. Places' = Places
  BY <1>3 DEF Places
<1> QED BY <1>1, <1>2, <1>4, Publishes

(* A step that moves one client, and moves its place or not.               *)
LEMMA OthersStay ==
    ASSUME IInv, NEW c \in Clients, NEW k, client' = [client EXCEPT ![c] = k],
           UNCHANGED <<epoch, drops>>
    PROVE  /\ client'[c] = k
           /\ Places' = [Places EXCEPT ![c] = Place(c)']
<1>1. client'[c] = k /\ \A d \in Clients : d # c => client'[d] = client[d]
  BY DEF IInv, Typed
<1>2. ASSUME NEW d \in Clients, d # c PROVE Place(d)' = Place(d)
  BY <1>1, <1>2, SamePlace
<1>3. Places' = [Places EXCEPT ![c] = Place(c)']
  BY <1>2 DEF Places
<1> QED BY <1>1, <1>3

LEMMA SubscribedRefines ==
    ASSUME IInv, NEW c \in Clients, NEW s \in Sessions, NEW at \in Nat, NEW replay,
           at <= channel[s].next,
           Subscribed(c, s, at, replay), shown' = [shown EXCEPT ![c] = None],
           UNCHANGED <<log, epoch, drops>>
    PROVE  Log!Next
<1> DEFINE k == [state |-> "live", session |-> s, epoch |-> epoch, drops |-> drops[s],
                 at |-> at, replay |-> replay, tail |-> <<>>, lagged |-> FALSE,
                 closed |-> FALSE]
<1>1. client' = [client EXCEPT ![c] = k]
  BY DEF Subscribed
<1>2. /\ k.state = "live" /\ k.session = s /\ k.epoch = epoch /\ k.drops = drops[s]
      /\ k.at = at
  OBVIOUS
<1> HIDE DEF k
<1>3. client'[c] = k /\ Places' = [Places EXCEPT ![c] = Place(c)']
  BY <1>1, OthersStay
<1>4. Valid(c)'
  BY <1>2, <1>3 DEF Valid
<1>5. Place(c)' = [session |-> s, at |-> at]
  BY <1>2, <1>3, <1>4 DEF Place
<1>6. at \in 0..Len(log[s])
  BY SessionFacts
<1>7. Places' = [Places EXCEPT ![c] = [session |-> s, at |-> at]]
  BY <1>3, <1>5
<1> QED BY <1>6, <1>7, Joins

LEMMA AttachRefines ==
    ASSUME IInv, NEW c \in Clients, NEW s \in Sessions, Attach(c, s)
    PROVE  Log!Next
<1>1. UNCHANGED <<log, epoch, drops>>
  BY DEF Attach
<1>2. CASE /\ channel[s].active # None
           /\ channel[s].active.start >= Oldest(channel[s])
           /\ Subscribed(c, s, channel[s].active.start - 1,
                         From(channel[s], channel[s].active.start))
           /\ shown' = [shown EXCEPT ![c] = None]
  <2>1. channel[s].active.start - 1 \in Nat
        /\ channel[s].active.start - 1 <= channel[s].next
    <3>1. \A n \in 0..MaxEvents : n \in Nat
      BY HubAssumption
    <3> QED BY <1>2, <3>1, AttachesAt
  <2> QED BY <1>1, <1>2, <2>1, SubscribedRefines
<1>3. CASE Reloads(c, s)
  <2>1. channel[s].next \in Nat /\ channel[s].next <= channel[s].next
    BY SessionFacts
  <2> QED BY <1>1, <1>3, <2>1, SubscribedRefines DEF Reloads
<1> QED BY <1>2, <1>3 DEF Attach

LEMMA ReturnRefines ==
    ASSUME IInv, NEW c \in Clients, Return(c)
    PROVE  Log!Next \/ UNCHANGED Log!vars
<1> DEFINE k == client[c]
           s == k.session
           w == From(channel[s], k.at + 1)
           q == [k EXCEPT !.state = "live", !.replay = w]
<1>1. /\ UNCHANGED <<log, epoch, drops>> /\ k.state = "away"
  BY DEF Return
<1>2. k \in ClientType /\ s \in Sessions
  BY <1>1, ClientFacts DEF ClientFollows
<1>3. CASE Reloads(c, s)
  <2>1. channel[s].next \in Nat /\ channel[s].next <= channel[s].next
    BY <1>2, SessionFacts
  <2> QED BY <1>1, <1>2, <1>3, <2>1, SubscribedRefines DEF Reloads
<1>4. CASE /\ client' = [client EXCEPT ![c].state = "live", ![c].replay = w]
           /\ UNCHANGED shown
  <2>1. client' = [client EXCEPT ![c] = q]
    BY <1>4 DEF IInv, Typed
  <2> HIDE DEF w
  <2>2. /\ q.state = "live" /\ q.session = k.session /\ q.epoch = k.epoch
        /\ q.drops = k.drops /\ q.at = k.at
    BY <1>2 DEF ClientType
  <2> HIDE DEF q
  <2>3. client'[c] = q /\ Places' = [Places EXCEPT ![c] = Place(c)']
    BY <1>1, <2>1, OthersStay
  <2>4. Place(c)' = Place(c)
    BY <1>1, <2>2, <2>3, SamePlace
  <2>5. Places' = Places
    BY <2>3, <2>4 DEF Places
  <2> QED BY <1>1, <1>4, <2>5, Rests
<1> QED BY <1>3, <1>4 DEF Return

LEMMA ReadRefines ==
    ASSUME IInv, NEW c \in Clients, Read(c)
    PROVE  Log!Next
<1> DEFINE k == client[c]
           s == k.session
           next == channel[s].next
<1>1. UNCHANGED <<log, epoch, drops>> /\ k.state = "live"
  BY DEF Read
<1>2. /\ k \in ClientType /\ k.at \in Nat /\ k.replay \in Seq(Item) /\ k.tail \in Seq(Item)
      /\ s \in Sessions /\ next \in Nat /\ Len(log[s]) = next
      /\ Valid(c) => Followed(k, next, log[s])
  BY <1>1, ClientFacts, SessionFacts DEF ClientFollows, ClientType
(* Whatever it reads, an item moves its cursor by one.                     *)
<1>3. ASSUME NEW items \in Seq(Item), NEW q, items # <<>>,
             client' = [client EXCEPT ![c] = q],
             q.state = "live", q.session = s, q.epoch = k.epoch, q.drops = k.drops,
             q.at = Head(items).cursor,
             shown' = [shown EXCEPT ![c] = Head(items).event],
             Valid(c) => Segment(items, k.at, log[s]) /\ k.at + Len(items) <= next
      PROVE  Log!Next
  <2>1. client'[c] = q /\ Places' = [Places EXCEPT ![c] = Place(c)']
    BY <1>1, <1>3, OthersStay
  <2>2. Valid(c)' <=> Valid(c)
    BY <1>1, <1>3, <2>1 DEF Valid
  <2>3. CASE Valid(c)
    <3> HIDE DEF k, s, next
    <3>1. /\ Head(items).cursor = k.at + 1 /\ Head(items).event = log[s][k.at + 1]
          /\ Len(items) \in Nat /\ Len(items) >= 1
      BY <1>2, <1>3, <2>3, SegmentTail
    <3>2. k.at + 1 <= Len(log[s])
      BY <1>2, <1>3, <2>3, <3>1
    <3>3. Place(c)' = [session |-> s, at |-> k.at + 1]
      BY <1>3, <2>1, <2>2, <2>3, <3>1 DEF Place
    <3>4. /\ Places' = [Places EXCEPT ![c] = [session |-> s, at |-> k.at + 1]]
          /\ shown' = [shown EXCEPT ![c] = log[s][k.at + 1]]
      BY <1>3, <2>1, <3>1, <3>3
    <3> QED BY <1>1, <2>3, <3>2, <3>4, Reads DEF k, s
  <2>4. CASE ~Valid(c)
    <3>1. Place(c)' = Place(c)
      BY <2>2, <2>4 DEF Place
    <3>2. Places' = Places
      BY <2>1, <3>1 DEF Places
    <3>3. Head(items).event \in Event
      <4>1. Head(items) \in Item
        BY <1>3
      <4> QED BY <4>1, ItemFields
    <3> QED BY <1>1, <1>3, <2>4, <3>2, <3>3, ShowsLeftover
  <2> QED BY <2>3, <2>4
<1>4. CASE /\ k.replay # <<>>
           /\ shown' = [shown EXCEPT ![c] = Head(k.replay).event]
           /\ client' = [client EXCEPT ![c].replay = Tail(@), ![c].at = Head(k.replay).cursor]
  <2> DEFINE q == [k EXCEPT !.replay = Tail(@), !.at = Head(k.replay).cursor]
  <2>1. client' = [client EXCEPT ![c] = q]
    BY <1>4 DEF IInv, Typed
  <2>2. /\ q.state = "live" /\ q.session = s /\ q.epoch = k.epoch /\ q.drops = k.drops
        /\ q.at = Head(k.replay).cursor
    BY <1>1, <1>2 DEF ClientType
  <2>3. Valid(c) => Segment(k.replay, k.at, log[s]) /\ k.at + Len(k.replay) <= next
    BY <1>2 DEF Followed
  <2> HIDE DEF q
  <2> QED BY <1>2, <1>3, <1>4, <2>1, <2>2, <2>3
<1>5. CASE /\ k.replay = <<>> /\ ~k.lagged /\ k.tail # <<>>
           /\ shown' = [shown EXCEPT ![c] = Head(k.tail).event]
           /\ client' = [client EXCEPT ![c].tail = Tail(@), ![c].at = Head(k.tail).cursor]
  <2> DEFINE q == [k EXCEPT !.tail = Tail(@), !.at = Head(k.tail).cursor]
  <2>1. client' = [client EXCEPT ![c] = q]
    BY <1>5 DEF IInv, Typed
  <2>2. /\ q.state = "live" /\ q.session = s /\ q.epoch = k.epoch /\ q.drops = k.drops
        /\ q.at = Head(k.tail).cursor
    BY <1>1, <1>2 DEF ClientType
  <2>3. Valid(c) => Segment(k.tail, k.at, log[s]) /\ k.at + Len(k.tail) <= next
    <3>1. Len(k.replay) = 0
      BY <1>5
    <3>2. k.at + Len(k.replay) = k.at
      BY <1>2, <3>1
    <3>3. Valid(c) => k.at + Len(k.tail) = next /\ Segment(k.tail, k.at, log[s])
      BY <1>1, <1>2, <1>5, <3>2 DEF Followed
    <3> HIDE DEF k, s, next
    <3> QED BY <1>2, <3>3
  <2> HIDE DEF q
  <2> QED BY <1>2, <1>3, <1>5, <2>1, <2>2, <2>3
<1> QED BY <1>4, <1>5 DEF Read

LEMMA AwayRefines ==
    ASSUME IInv, NEW c \in Clients, Away(c), client[c].state = "live",
           UNCHANGED <<log, epoch, drops, shown>>
    PROVE  UNCHANGED Log!vars
<1> DEFINE k == client[c]
           q == [k EXCEPT !.state = "away", !.replay = <<>>, !.tail = <<>>,
                          !.lagged = FALSE, !.closed = FALSE]
<1>1. client' = [client EXCEPT ![c] = q] /\ k \in ClientType
  BY ClientFacts DEF Away, IInv, Typed
<1>2. /\ q.state = "away" /\ q.session = k.session /\ q.epoch = k.epoch
      /\ q.drops = k.drops /\ q.at = k.at
  BY <1>1 DEF ClientType
<1> HIDE DEF q
<1>3. client'[c] = q /\ Places' = [Places EXCEPT ![c] = Place(c)']
  BY <1>1, OthersStay
<1>4. Place(c)' = Place(c)
  BY <1>2, <1>3, SamePlace
<1>5. Places' = Places
  BY <1>3, <1>4 DEF Places
<1> QED BY <1>5, Rests


LEMMA DropRefines ==
    ASSUME IInv, NEW s \in Sessions, DropSession(s)
    PROVE  Log!Next
<1>1. /\ drops' = [drops EXCEPT ![s] = @ + 1]
      /\ log' = [log EXCEPT ![s] = <<>>]
      /\ client' = [c \in Clients |-> IF client[c].session = s THEN Closed(client[c])
                                      ELSE client[c]]
      /\ UNCHANGED <<epoch, shown>>
  BY DEF DropSession
<1>2. log' = [t \in Sessions |-> IF t \in {s} THEN <<>> ELSE log[t]]
  BY <1>1 DEF IInv, Typed
<1>3. ASSUME NEW c \in Clients
      PROVE  Place(c)' = IF Place(c) # None /\ Place(c).session \in {s} THEN None ELSE Place(c)
  <2>1. client[c] \in ClientType /\ ClientFollows(c)
    BY ClientFacts
  <2>2. CASE client[c].session = s
    <3>1. client'[c] = Closed(client[c])
      BY <1>1, <2>2
    <3>2. ~Valid(c)'
      <4> SUFFICES ASSUME Valid(c)' PROVE FALSE
        OBVIOUS
      <4>1. /\ client[c].state # "new" /\ client[c].epoch = epoch
            /\ client[c].drops = drops'[s]
        BY <1>1, <2>1, <2>2, <3>1, ClosedIs DEF Valid
      <4>2. client[c].drops <= drops[s]
        BY <2>1, <2>2, <4>1 DEF ClientFollows
      <4>3. drops[s] \in Nat /\ drops'[s] = drops[s] + 1
        BY <1>1, HubAssumption DEF IInv, Typed
      <4> QED BY <4>1, <4>2, <4>3
    <3>3. Place(c)' = None
      BY <3>2 DEF Place
    <3> QED BY <2>2, <3>3, PlaceFacts
  <2>3. CASE client[c].session # s
    <3>1. client'[c] = client[c]
      BY <1>1, <2>3
    <3>2. client[c].state # "new" => client[c].session \in Sessions
      BY <2>1 DEF ClientFollows
    <3>3. Valid(c) \/ Valid(c)' => drops'[client[c].session] = drops[client[c].session]
      BY <1>1, <2>3, <3>1, <3>2 DEF Valid, IInv, Typed
    <3>4. Place(c)' = Place(c)
      BY <1>1, <3>1, <3>3, SamePlace
    <3> QED BY <2>3, <3>4, PlaceFacts
  <2> QED BY <2>2, <2>3
<1>4. Places' = [c \in Clients |-> IF Places[c] # None /\ Places[c].session \in {s}
                                   THEN None ELSE Places[c]]
  BY <1>3 DEF Places
<1> QED BY <1>1, <1>2, <1>4, StartsAgain

LEMMA RestartRefines ==
    ASSUME IInv, Restart
    PROVE  Log!Next
<1>1. /\ epoch' = epoch + 1 /\ log' = [s \in Sessions |-> <<>>]
      /\ client' = [c \in Clients |-> Closed(client[c])] /\ UNCHANGED shown
  BY DEF Restart
<1>2. log' = [s \in Sessions |-> IF s \in Sessions THEN <<>> ELSE log[s]]
  BY <1>1
<1>3. ASSUME NEW c \in Clients
      PROVE  Place(c)' = IF Place(c) # None /\ Place(c).session \in Sessions
                         THEN None ELSE Place(c)
  <2>1. client[c] \in ClientType /\ ClientFollows(c) /\ client'[c] = Closed(client[c])
    BY <1>1, ClientFacts
  <2>2. ~Valid(c)'
    <3> SUFFICES ASSUME Valid(c)' PROVE FALSE
      OBVIOUS
    <3>1. client[c].state # "new" /\ client[c].epoch = epoch'
      BY <2>1, ClosedIs DEF Valid
    <3>2. client[c].epoch <= epoch
      BY <2>1, <3>1 DEF ClientFollows
    <3>3. epoch \in Nat
      BY HubAssumption DEF IInv, Typed
    <3> QED BY <1>1, <3>1, <3>2, <3>3
  <2>3. Place(c)' = None
    BY <2>2 DEF Place
  <2> QED BY <2>3, PlaceFacts
<1>4. Places' = [c \in Clients |-> IF Places[c] # None /\ Places[c].session \in Sessions
                                   THEN None ELSE Places[c]]
  BY <1>3 DEF Places
<1> QED BY <1>1, <1>2, <1>4, StartsAgain

LEMMA InitRefines == Init => Log!Init
BY DEF Init, Log!Init, Valid, NoClient

LEMMA StepRefines == IInv /\ [Next]_vars => [Log!Next]_Log!vars
<1> SUFFICES ASSUME IInv, [Next]_vars PROVE Log!Next \/ UNCHANGED Log!vars
  OBVIOUS
<1>1. ASSUME NEW s \in Sessions, StartTurn(s) \/ Progress(s) \/ EndTurn(s) PROVE Log!Next
  BY <1>1, TurnsKeep, EmitRefines
<1>2. ASSUME NEW c \in Clients, Return(c) PROVE Log!Next \/ UNCHANGED Log!vars
  BY <1>2, ReturnRefines
<1>3. ASSUME NEW c \in Clients, Read(c) PROVE Log!Next
  BY <1>3, ReadRefines
<1>4. ASSUME NEW c \in Clients, Notice(c) \/ Leave(c) PROVE UNCHANGED Log!vars
  <2>1. Away(c) /\ client[c].state = "live" /\ UNCHANGED <<log, epoch, drops, shown>>
    BY <1>4 DEF Notice, Leave
  <2> QED BY <2>1, AwayRefines
<1>5. ASSUME NEW c \in Clients, NEW s \in Sessions, Attach(c, s) PROVE Log!Next
  BY <1>5, AttachRefines
<1>6. ASSUME NEW s \in Sessions, SignalTurnGap(s) PROVE UNCHANGED Log!vars
  <2>1. UNCHANGED <<epoch, drops, client, log, shown>>
    BY <1>6 DEF SignalTurnGap
  <2>2. Places' = Places
    BY <2>1, SamePlace DEF Places
  <2> QED BY <2>1, <2>2, Rests
<1>7. ASSUME NEW s \in Sessions, DropSession(s) PROVE Log!Next
  BY <1>7, DropRefines
<1>8. CASE Restart
  BY <1>8, RestartRefines
<1>9. CASE UNCHANGED vars
  <2>1. UNCHANGED <<epoch, drops, client, log, shown>>
    BY <1>9 DEF vars
  <2>2. Places' = Places
    BY <2>1, SamePlace DEF Places
  <2> QED BY <2>1, <2>2, Rests
<1> QED BY <1>1, <1>2, <1>3, <1>4, <1>5, <1>6, <1>7, <1>8, <1>9 DEF Next, Follow

(* Every subscriber sees the log of its session, one event at a time and   *)
(* none twice, whether the event comes from the replay or its receiver; a  *)
(* window that no longer holds the next event, a receiver that overflowed, *)
(* a deleted session and a restart end in a place it is sent to, never in  *)
(* an event left out.                                                      *)
THEOREM ImplementsTheLog == Spec => SeesTheLog
<1>1. Spec => []IInv
  BY Invariance
<1> QED BY <1>1, InitRefines, StepRefines, PTL DEF Spec, SeesTheLog, Log!Spec


-----------------------------------------------------------------------------
(* What sub-agents ask                                                     *)

(* The hub knows the parent of a running sub-agent, and with a sub-agent   *)
(* it knows all sub-agents above it.                                       *)
ParentsKnown ==
    /\ \A s \in SubAgents : turn[s].now # 0 => s \in known
    /\ \A s \in known : Parent[s] \in SubAgents => Parent[s] \in known

LEMMA ParentIs == \A s \in SubAgents : s \in Sessions /\ Parent[s] \in Sessions
BY HubAssumption DEF SubAgents

LEMMA ParentsStayKnown == IInv /\ ParentsKnown /\ [Next]_vars => ParentsKnown'
<1> SUFFICES ASSUME IInv, ParentsKnown, [Next]_vars PROVE ParentsKnown'
  OBVIOUS
<1>1. turn \in [Sessions -> [now : 0..MaxTurns, ran : 0..MaxTurns]] /\ known \subseteq SubAgents
  BY DEF IInv, Typed
<1>2. ASSUME NEW s \in Sessions, StartTurn(s) \/ Progress(s) \/ EndTurn(s)
      PROVE  ParentsKnown'
  <2>1. PICK e \in Event : /\ Emit(e) /\ e.from = s
                           /\ Starts(s, e) \/ Progresses(s, e) \/ Ends(s, e)
    BY <1>2, TurnsKeep
  <2>2. known' = IF s \in SubAgents THEN known \cup {s} ELSE known
    BY <2>1 DEF Emit, Learnt, SubAgents
  <2>3. \A t \in Sessions : t # s => turn'[t] = turn[t]
    BY <1>1, <2>1 DEF Starts, Progresses, Ends
  <2>4. ASSUME NEW t \in SubAgents, turn'[t].now # 0 PROVE t \in known'
    <3>1. t \in Sessions
      BY ParentIs
    <3> QED BY <2>2, <2>3, <2>4, <3>1 DEF ParentsKnown
  <2>5. s \in SubAgents /\ Parent[s] \in SubAgents => Parent[s] \in known
    <3>1. s \in SubAgents => turn[Parent[s]].now # 0 \/ s \in known
      BY <2>1 DEF Starts, Progresses, Ends, ParentsKnown, SubAgents
    <3> QED BY <3>1 DEF ParentsKnown
  <2>6. \A t \in known' : Parent[t] \in SubAgents => Parent[t] \in known'
    BY <2>2, <2>5 DEF ParentsKnown
  <2> QED BY <2>4, <2>6 DEF ParentsKnown
<1>3. CASE UNCHANGED <<known, turn>>
  BY <1>3 DEF ParentsKnown
<1>4. CASE Restart
  <2>1. known' = {} /\ turn' = [s \in Sessions |-> [turn[s] EXCEPT !.now = 0]]
    BY <1>4 DEF Restart
  <2>2. \A s \in Sessions : turn'[s].now = 0
    BY <1>1, <2>1
  <2> QED BY <2>1, <2>2, ParentIs DEF ParentsKnown
<1>5. ASSUME NEW c \in Clients, Follow(c) \/ Leave(c) \/ \E s \in Sessions : Attach(c, s)
      PROVE  UNCHANGED <<known, turn>>
  BY <1>5 DEF Follow, Return, Read, Notice, Leave, Attach
<1>6. ASSUME NEW s \in Sessions, SignalTurnGap(s) \/ DropSession(s)
      PROVE  UNCHANGED <<known, turn>>
  BY <1>6 DEF SignalTurnGap, DropSession
<1>7. CASE UNCHANGED vars
  BY <1>3, <1>7 DEF vars
<1> QED BY <1>2, <1>3, <1>4, <1>5, <1>6, <1>7 DEF Next

(* An interaction goes to every ancestor of the session that asks.         *)
LEMMA AncestorsReached ==
    ASSUME NEW e \in Event, e.kind = "ask", e.from \in Learnt(e),
           Learnt(e) \subseteq SubAgents,
           \A s \in Learnt(e) : Parent[s] \in SubAgents => Parent[s] \in Learnt(e)
    PROVE  Above(e.from) \subseteq Reaches(e)
<1> SUFFICES ASSUME NEW a \in Above(e.from), NEW U \in SUBSET Sessions,
                    e.from \in U, ClosedIn(U, Learnt(e))
             PROVE  a \in U
  BY DEF Reaches, Above
<1> DEFINE W == {x \in U : x \in Learnt(e) \/ x \notin SubAgents}
<1>1. \A x \in U \cap Learnt(e) : Parent[x] \in W
  BY DEF ClosedIn
<1>2. Parent[e.from] \in W
  BY <1>1
<1>3. ClosedIn(W, SubAgents)
  BY <1>1 DEF ClosedIn
<1>4. W \in SUBSET Sessions
  OBVIOUS
<1> HIDE DEF W
<1>5. a \in W
  BY <1>2, <1>3, <1>4 DEF Above
<1> QED BY <1>5 DEF W

Asks(s) == {e \in Event : e.from = s /\ e.kind = "ask"}
Others(s) == {e \in Event : e.from = s /\ e.kind # "ask"}

(* InteractionsReachAncestors, one session and ancestor at a time.         *)
Reached(s, a) ==
    drops[s] = 0 /\ drops[a] = 0 =>
        /\ Select(log[a], Asks(s)) = Select(log[s], Asks(s))
        /\ Select(log[a], Others(s)) = <<>>

LEMMA ReachedIs ==
    InteractionsReachAncestors <=> \A s \in Sessions : \A a \in Above(s) : Reached(s, a)
BY DEF InteractionsReachAncestors, AsksOf, OthersOf, Reached, Asks, Others

LEMMA EmitReaches ==
    ASSUME IInv, ParentsKnown, ParentsKnown', NEW e \in Event, Emit(e),
           turn'[e.from].now # 0 \/ turn[e.from].now # 0,
           NEW s \in Sessions, NEW a \in Above(s), Reached(s, a)
    PROVE  Reached(s, a)'
<1>1. a \in Sessions /\ s \in SubAgents /\ a # s
  BY ForestAssumption DEF Above
<1>2. /\ drops' = drops /\ known' = Learnt(e)
      /\ log'[s] = (IF s \in Reaches(e) THEN Append(log[s], e) ELSE log[s])
      /\ log'[a] = (IF a \in Reaches(e) THEN Append(log[a], e) ELSE log[a])
  BY <1>1 DEF Emit
<1>3. log[s] \in Seq(Event) /\ log[a] \in Seq(Event)
  BY <1>1, SessionFacts
<1>4. ASSUME NEW T, NEW t \in {s, a}
      PROVE  Select(Append(log[t], e), T) =
                 IF e \in T THEN Append(Select(log[t], T), e) ELSE Select(log[t], T)
  <2> DEFINE l == log[t]
  <2>1. l \in Seq(Event) /\ e \in Event
    BY <1>3
  <2> HIDE DEF l
  <2>2. Select(Append(l, e), T) = IF e \in T THEN Append(Select(l, T), e) ELSE Select(l, T)
    BY <2>1, SelectAppend
  <2> QED BY <2>2 DEF l
<1>5. CASE e.from # s
  <2>1. e \notin Asks(s) /\ e \notin Others(s)
    BY <1>5 DEF Asks, Others
  <2>2. \A t \in {s, a} : /\ Select(log'[t], Asks(s)) = Select(log[t], Asks(s))
                          /\ Select(log'[t], Others(s)) = Select(log[t], Others(s))
    BY <1>2, <1>4, <2>1
  <2> QED BY <1>2, <2>2 DEF Reached
<1>6. CASE e.from = s /\ e.kind # "ask"
  <2>1. Reaches(e) = {s} /\ e \notin Asks(s)
    BY <1>6 DEF Reaches, Asks
  <2>2. log'[s] = Append(log[s], e) /\ log'[a] = log[a]
    BY <1>1, <1>2, <2>1
  <2>3. Select(log'[s], Asks(s)) = Select(log[s], Asks(s))
    BY <1>4, <2>1, <2>2
  <2> QED BY <1>2, <2>2, <2>3 DEF Reached
<1>7. CASE e.from = s /\ e.kind = "ask"
  <2>1. e \in Asks(s) /\ e \notin Others(s)
    BY <1>7 DEF Asks, Others
  <2>2. s \in known'
    <3>1. s \in known \/ s \in known'
      BY <1>1, <1>7 DEF ParentsKnown
    <3> QED BY <1>2, <3>1 DEF Learnt
  <2>3. a \in Reaches(e) /\ s \in Reaches(e)
    <3>1. Learnt(e) \subseteq SubAgents
      BY LearntSubAgents
    <3>2. s \in Learnt(e)
          /\ \A t \in Learnt(e) : Parent[t] \in SubAgents => Parent[t] \in Learnt(e)
      BY <1>2, <2>2 DEF ParentsKnown
    <3> QED BY <1>7, <3>1, <3>2, AncestorsReached, ReachesSessions
  <2>4. /\ Select(log'[a], Asks(s)) = Append(Select(log[a], Asks(s)), e)
        /\ Select(log'[s], Asks(s)) = Append(Select(log[s], Asks(s)), e)
        /\ Select(log'[a], Others(s)) = Select(log[a], Others(s))
    BY <1>2, <1>4, <2>1, <2>3
  <2> QED BY <1>2, <2>4 DEF Reached
<1> QED BY <1>5, <1>6, <1>7

LEMMA ReachedStays ==
    IInv /\ ParentsKnown /\ ParentsKnown' /\ InteractionsReachAncestors /\ [Next]_vars
        => InteractionsReachAncestors'
<1> SUFFICES ASSUME IInv, ParentsKnown, ParentsKnown', InteractionsReachAncestors, [Next]_vars,
                    NEW s \in Sessions, NEW a \in Above(s)
             PROVE  Reached(s, a)'
  BY DEF InteractionsReachAncestors, AsksOf, OthersOf, Reached, Asks, Others
<1>1. Reached(s, a) /\ a \in Sessions
  BY ReachedIs DEF Above
<1>2. ASSUME NEW t \in Sessions, StartTurn(t) \/ Progress(t) \/ EndTurn(t)
      PROVE  Reached(s, a)'
  <2>1. PICK e \in Event : /\ Emit(e) /\ e.from = t
                           /\ Starts(t, e) \/ Progresses(t, e) \/ Ends(t, e)
    BY <1>2, TurnsKeep
  <2>2. turn'[t].now # 0 \/ turn[t].now # 0
    <3>1. CASE Starts(t, e)
      <4>1. turn'[t].now = turn[t].ran + 1 /\ turn[t].ran \in Nat
        BY <3>1, HubAssumption DEF Starts, IInv, Typed
      <4> QED BY <4>1
    <3> QED BY <2>1, <3>1 DEF Progresses, Ends
  <2> QED BY <1>1, <2>1, <2>2, EmitReaches
<1>3. CASE UNCHANGED <<drops, log>>
  BY <1>1, <1>3 DEF Reached
<1>4. ASSUME NEW t \in Sessions, DropSession(t) PROVE Reached(s, a)'
  <2>1. drops' = [drops EXCEPT ![t] = @ + 1] /\ log' = [log EXCEPT ![t] = <<>>]
        /\ drops[t] \in Nat
    BY <1>4, HubAssumption DEF DropSession, IInv, Typed
  <2>2. drops'[t] # 0 /\ \A u \in Sessions : u # t => drops'[u] = drops[u] /\ log'[u] = log[u]
    BY <2>1 DEF IInv, Typed
  <2> QED BY <1>1, <2>2 DEF Reached
<1>5. CASE Restart
  <2>1. log'[s] = <<>> /\ log'[a] = <<>>
    BY <1>1, <1>5 DEF Restart
  <2> QED BY <2>1, SelectEmpty DEF Reached
<1>6. ASSUME NEW c \in Clients, Follow(c) \/ Leave(c) \/ \E t \in Sessions : Attach(c, t)
      PROVE  UNCHANGED <<drops, log>>
  BY <1>6 DEF Follow, Return, Read, Notice, Leave, Attach
<1>7. ASSUME NEW t \in Sessions, SignalTurnGap(t) PROVE UNCHANGED <<drops, log>>
  BY <1>7 DEF SignalTurnGap
<1>8. CASE UNCHANGED vars
  BY <1>3, <1>8 DEF vars
<1> QED BY <1>2, <1>3, <1>4, <1>5, <1>6, <1>7, <1>8 DEF Next

(* Each of its ancestors is shown what a sub-agent asks, once and in the   *)
(* order it was asked, and nothing else the sub-agent emits.               *)
THEOREM AncestorsAreAsked == Spec => []InteractionsReachAncestors
<1>1. Init => ParentsKnown /\ InteractionsReachAncestors
  <2> SUFFICES ASSUME Init PROVE ParentsKnown /\ InteractionsReachAncestors
    OBVIOUS
  <2>1. ParentsKnown
    BY ParentIs DEF Init, ParentsKnown
  <2>2. ASSUME NEW s \in Sessions, NEW a \in Above(s) PROVE Reached(s, a)
    <3>1. log[s] = <<>> /\ log[a] = <<>>
      BY DEF Init, Above
    <3> QED BY <3>1, SelectEmpty DEF Reached
  <2> QED BY <2>1, <2>2, ReachedIs
<1>2. IInv /\ ParentsKnown /\ InteractionsReachAncestors /\ [Next]_vars
        => ParentsKnown' /\ InteractionsReachAncestors'
  BY ParentsStayKnown, ReachedStays
<1> QED BY <1>1, <1>2, Invariance, PTL DEF Spec


-----------------------------------------------------------------------------
(* The running turn stays in the window                                    *)

SizesSince(l, k) ==
    [i \in DOMAIN SubSeq(l, k, Len(l)) |-> SubSeq(l, k, Len(l))[i].bytes]
BytesSince(l, k) == Total(SizesSince(l, k))

LEMMA SizesSinceIs ==
    ASSUME NEW l \in Seq(Event), NEW k \in 1..(Len(l) + 1)
    PROVE  /\ SizesSince(l, k) \in Seq(Nat)
           /\ Len(SizesSince(l, k)) = Len(l) - (k - 1)
           /\ \A i \in 1..(Len(l) - (k - 1)) : SizesSince(l, k)[i] = l[(k - 1) + i].bytes
<1> DEFINE m == k - 1
           w == SubSeq(l, k, Len(l))
<1>1. m \in 0..Len(l) /\ m + 1 = k /\ Len(l) \in Nat
  OBVIOUS
<1>2. /\ w \in Seq(Event) /\ Len(w) = Len(l) - m
      /\ \A i \in 1..(Len(l) - m) : w[i] = l[m + i]
  <2>1. w = SubSeq(l, m + 1, Len(l))
    BY <1>1
  <2> HIDE DEF w, m
  <2> QED BY <1>1, <2>1, EndOf
<1>3. SizesSince(l, k) = [i \in DOMAIN w |-> w[i].bytes]
  BY DEF SizesSince
<1> HIDE DEF w, m
<1>4. ASSUME NEW i \in 1..Len(w) PROVE w[i].bytes \in Nat
  <2>1. w[i] \in Event
    BY <1>2
  <2> QED BY <2>1, BytesNat
<1>5. SizesSince(l, k) \in Seq(Nat) /\ Len(SizesSince(l, k)) = Len(w)
  <2> DEFINE z == SizesSince(l, k)
  <2>1. z = [i \in 1..Len(w) |-> w[i].bytes] /\ Len(w) \in Nat
    BY <1>2, <1>3
  <2>2. z \in [1..Len(w) -> Nat]
    BY <1>4, <2>1
  <2> HIDE DEF z
  <2>3. z \in Seq(Nat) /\ Len(z) = Len(w)
    BY <2>1, <2>2
  <2> QED BY <2>3 DEF z
<1>6. ASSUME NEW i \in 1..(Len(l) - m) PROVE SizesSince(l, k)[i] = l[m + i].bytes
  <2>1. i \in DOMAIN w
    BY <1>2
  <2> QED BY <1>2, <1>3, <2>1
<1> QED BY <1>2, <1>5, <1>6 DEF m

LEMMA BytesSinceGrows ==
    ASSUME NEW l \in Seq(Event), NEW e \in Event, NEW k \in 1..Len(l)
    PROVE  /\ BytesSince(l, k) \in Nat
           /\ BytesSince(Append(l, e), k) = BytesSince(l, k) + e.bytes
<1> DEFINE t == Append(l, e)
           L == Len(l)
           a == SizesSince(l, k)
           b == SizesSince(t, k)
<1>1. /\ t \in Seq(Event) /\ Len(t) = L + 1 /\ t[L + 1] = e /\ L \in Nat
      /\ \A i \in 1..L : t[i] = l[i]
  OBVIOUS
<1>2. /\ a \in Seq(Nat) /\ Len(a) = L - (k - 1)
      /\ \A i \in 1..(L - (k - 1)) : a[i] = l[(k - 1) + i].bytes
  <2>1. k \in 1..(Len(l) + 1)
    OBVIOUS
  <2> QED BY <2>1, SizesSinceIs
<1> HIDE DEF t, a
<1>3. /\ b \in Seq(Nat) /\ Len(b) = (L + 1) - (k - 1)
      /\ \A i \in 1..((L + 1) - (k - 1)) : b[i] = t[(k - 1) + i].bytes
  <2>1. k \in 1..(Len(t) + 1)
    BY <1>1
  <2> HIDE DEF L
  <2> QED BY <1>1, <2>1, SizesSinceIs
<1> HIDE DEF b
<1>4. e.bytes \in Nat
  BY BytesNat
<1>5. b = Append(a, e.bytes)
  <2> DEFINE d == Append(a, e.bytes)
             n == L - (k - 1)
  <2>1. n \in Nat /\ k - 1 \in Nat /\ (L + 1) - (k - 1) = n + 1 /\ (k - 1) + (n + 1) = L + 1
        /\ k - 1 <= L /\ (k - 1) + n = L
    OBVIOUS
  <2>2. d \in Seq(Nat) /\ Len(d) = Len(a) + 1 /\ d[Len(a) + 1] = e.bytes
        /\ \A i \in 1..Len(a) : d[i] = a[i]
    <3> DEFINE x == e.bytes
    <3>1. a \in Seq(Nat) /\ x \in Nat /\ d = Append(a, x)
      BY <1>2, <1>4
    <3> HIDE DEF x, d
    <3>2. d \in Seq(Nat) /\ Len(d) = Len(a) + 1 /\ d[Len(a) + 1] = x
          /\ \A i \in 1..Len(a) : d[i] = a[i]
      BY <3>1
    <3> QED BY <3>2 DEF x
  <2> HIDE DEF d, n, L
  <2>3. Len(a) = n /\ Len(b) = n + 1 /\ Len(d) = n + 1
    BY <1>2, <1>3, <2>1, <2>2 DEF n
  <2>4. ASSUME NEW i \in 1..(n + 1) PROVE b[i] = d[i]
    <3>1. b[i] = t[(k - 1) + i].bytes
      BY <1>3, <2>1
    <3>2. CASE i = n + 1
      <4>1. (k - 1) + i = L + 1
        BY <2>1, <3>2
      <4>2. t[(k - 1) + i] = e
        BY <1>1, <4>1
      <4>3. d[i] = e.bytes
        BY <2>2, <2>3, <3>2
      <4> QED BY <3>1, <4>2, <4>3
    <3>3. CASE i # n + 1
      <4>1. i \in 1..n /\ (k - 1) + i \in 1..L
        BY <1>1, <2>1, <3>3
      <4>2. a[i] = l[(k - 1) + i].bytes
        BY <1>2, <4>1 DEF n
      <4>3. d[i] = a[i]
        BY <2>2, <2>3, <4>1
      <4> QED BY <1>1, <3>1, <4>1, <4>2, <4>3
    <3> QED BY <3>2, <3>3
  <2> QED BY <1>3, <2>2, <2>3, <2>4
<1>6. Total(b) = Total(a) + e.bytes
  BY <1>2, <1>4, <1>5, TotalAppend
<1>7. Total(a) \in Nat
  BY <1>2, TotalNat
<1> QED BY <1>6, <1>7 DEF BytesSince, a, b, t

(* As long as the running turn keeps to the byte cap, trim does not reach  *)
(* its first event.                                                        *)
LEMMA PushKeepsTurn ==
    ASSUME NEW ch \in ChannelType, NEW s, NEW e \in Event, NEW l \in Seq(Event),
           WindowOf(ch, l), ch.next < MaxEvents,
           NEW k \in 1..(ch.next + 1),
           k = ch.next + 1 \/ Len(ch.history) >= Len(l) - k + 1,
           Begun(ch, s, e) # None, Begun(ch, s, e).start = k,
           BytesSince(Append(l, e), k) <= MaxBytes
    PROVE  Len(Pushed(ch, s, e).history) >= ch.next + 1 - k + 1
<1> DEFINE n == ch.next
           N == Len(ch.history)
           item == [cursor |-> n + 1, event |-> e]
           h == Append(ch.history, item)
           t == Append(l, e)
           b == n - N
           m == k - b - 1
           a == Begun(ch, s, e)
           w == SubSeq(h, m + 1, Len(h))
<1>1. /\ n \in 0..MaxEvents /\ ch.history \in Seq(Item) /\ N \in Nat /\ n \in Nat
      /\ Len(l) = n /\ N <= n /\ Segment(ch.history, b, l)
  BY HubAssumption DEF ChannelType, WindowOf, Base
<1>2. item \in Item
  <2>1. n + 1 \in 1..MaxEvents
    BY <1>1, HubAssumption
  <2> QED BY <2>1 DEF Item
<1>3. /\ h \in Seq(Item) /\ Len(h) = N + 1 /\ t \in Seq(Event) /\ Len(t) = n + 1
      /\ t[n + 1] = e
  BY <1>1, <1>2
<1>4. Pushed(ch, s, e).history = Trimmed(h, a)
  BY DEF Pushed, Begun
<1>5. /\ b \in Nat /\ b + N = n /\ m \in 0..N /\ b + m + 1 = k /\ m + 1 \in 1..(N + 1)
      /\ m \in 0..(N + 1) /\ (N + 1) - m = n + 1 - k + 1 /\ (n + 1) - (k - 1) = (N + 1) - m
      /\ k \in 1..(n + 1 + 1)
  <2>1. k \in 1..(n + 1) /\ (k = n + 1 \/ N >= n - k + 1)
    BY <1>1
  <2> HIDE DEF n, N
  <2> QED BY <1>1, <2>1
<1> HIDE DEF n, N, a, m, b
<1>6. Segment(h, b, t)
  <2>1. b + Len(ch.history) <= Len(l)
    BY <1>1, <1>5 DEF N
  <2>2. Segment(ch.history, b, t)
    BY <1>1, <1>5, <2>1, SegmentExtends
  <2>3. b + Len(ch.history) + 1 = n + 1
    BY <1>1, <1>5 DEF N
  <2>4. item = [cursor |-> b + Len(ch.history) + 1, event |-> t[b + Len(ch.history) + 1]]
    BY <1>3, <2>3
  <2> HIDE DEF item, t
  <2> QED BY <1>1, <1>5, <2>2, <2>4, SegmentAppends
<1> HIDE DEF h, t
<1>7. /\ w \in Seq(Item) /\ Len(w) = Len(h) - m
      /\ \A i \in 1..(Len(h) - m) : w[i] = h[m + i]
  <2>1. m \in 0..Len(h)
    BY <1>3, <1>5
  <2> QED BY <1>3, <2>1, EndOf
<1>8. ASSUME NEW i \in 1..((N + 1) - m)
      PROVE  w[i] = [cursor |-> b + (m + i), event |-> t[b + (m + i)]]
             /\ b + (m + i) = (k - 1) + i
  <2>1. m + i \in 1..(N + 1) /\ b + (m + i) = (k - 1) + i
    BY <1>1, <1>5
  <2>2. w[i] = h[m + i]
    BY <1>3, <1>7
  <2> QED BY <1>3, <1>6, <2>1, <2>2 DEF Segment
<1> HIDE DEF w
<1>9. Bytes(w) = BytesSince(t, k)
  <2> DEFINE x == [i \in DOMAIN w |-> w[i].event.bytes]
             y == SizesSince(t, k)
  <2>1. x \in Seq(Nat) /\ Len(x) = (N + 1) - m /\ DOMAIN w = 1..((N + 1) - m)
    <3>1. x \in Seq(Nat) /\ Len(x) = Len(w)
      BY <1>7, ByteSizes
    <3>2. Len(w) = (N + 1) - m
      BY <1>3, <1>7
    <3>3. DOMAIN w = 1..Len(w)
      BY <1>7
    <3> QED BY <3>1, <3>2, <3>3
  <2>2. /\ y \in Seq(Nat) /\ Len(y) = (N + 1) - m
        /\ \A i \in 1..((N + 1) - m) : y[i] = t[(k - 1) + i].bytes
    <3>1. k \in 1..(Len(t) + 1) /\ Len(t) - (k - 1) = (N + 1) - m
      BY <1>3, <1>5
    <3>2. /\ y \in Seq(Nat) /\ Len(y) = Len(t) - (k - 1)
          /\ \A i \in 1..(Len(t) - (k - 1)) : y[i] = t[(k - 1) + i].bytes
      BY <1>3, <3>1, SizesSinceIs
    <3> HIDE DEF y
    <3> QED BY <3>1, <3>2
  <2>3. ASSUME NEW i \in 1..((N + 1) - m) PROVE x[i] = y[i]
    <3>1. w[i].event = t[(k - 1) + i]
      <4>1. /\ w[i] = [cursor |-> b + (m + i), event |-> t[b + (m + i)]]
            /\ b + (m + i) = (k - 1) + i
        BY <1>8
      <4>2. w[i].event = t[b + (m + i)]
        BY <4>1
      <4> QED BY <4>1, <4>2
    <3>2. x[i] = w[i].event.bytes
      BY <2>1
    <3> HIDE DEF x, y
    <3> QED BY <2>2, <3>1, <3>2
  <2>4. Bytes(w) = Total(x) /\ BytesSince(t, k) = Total(y)
    BY DEF Bytes, BytesSince
  <2> HIDE DEF x, y
  <2>5. x = y
    <3> DEFINE z == (N + 1) - m
    <3>1. /\ x \in Seq(Nat) /\ y \in Seq(Nat) /\ Len(x) = z /\ Len(y) = z
          /\ \A i \in 1..z : x[i] = y[i]
      BY <2>1, <2>2, <2>3
    <3> HIDE DEF z
    <3> QED BY <3>1
  <2> QED BY <2>4, <2>5
<1>10. Fits(w, a)
  <2>1. a # None /\ a.start = k /\ Bytes(w) <= MaxBytes
    BY <1>9 DEF a, t
  <2>2. 1 \in 1..((N + 1) - m) /\ Head(w) = w[1]
    <3>1. 1 \in 1..((N + 1) - m)
      BY <1>1, <1>5
    <3>2. Len(w) = (N + 1) - m
      BY <1>3, <1>7
    <3> QED BY <1>7, <3>1, <3>2
  <2>3. Head(w).cursor = (k - 1) + 1
    <3>1. w[1] = [cursor |-> b + (m + 1), event |-> t[b + (m + 1)]]
      BY <1>8, <2>2
    <3>2. w[1].cursor = b + (m + 1)
      BY <3>1
    <3>3. b + (m + 1) = (k - 1) + 1
      BY <1>1, <1>5
    <3> QED BY <2>2, <3>2, <3>3
  <2>4. Head(w).cursor >= a.start
    BY <1>5, <2>1, <2>3
  <2> QED BY <2>1, <2>4 DEF Fits
<1>11. PICK c \in 0..Len(h) :
          /\ Trimmed(h, a) = SubSeq(h, c + 1, Len(h))
          /\ \A i \in 0..(c - 1) : ~Fits(SubSeq(h, i + 1, Len(h)), a)
  BY <1>3, TrimmedIs
<1>12. c <= m
  <2> SUFFICES ASSUME ~(c <= m) PROVE FALSE
    OBVIOUS
  <2>1. m \in 0..(c - 1)
    BY <1>1, <1>3, <1>5
  <2> QED BY <1>10, <1>11, <2>1 DEF w
<1>13. Len(Trimmed(h, a)) = (N + 1) - c
  BY <1>3, <1>11, EndOf
<1>14. c \in Nat /\ (N + 1) - c >= (N + 1) - m
  BY <1>1, <1>3, <1>5, <1>11, <1>12
<1> QED BY <1>4, <1>5, <1>13, <1>14 DEF n, a


IsStart(e, s, n) == e.kind = "start" /\ e.from = s /\ e.turn = n

(* The channel knows where the running turn began, and as long as the turn *)
(* keeps to the byte cap its first event is in the window.                 *)
TurnKept(ch, l, s, n) ==
    /\ ch.active # None /\ ch.active.turn = n
    /\ ch.active.start \in 1..Len(l)
    /\ IsStart(l[ch.active.start], s, n)
    /\ \A i \in 1..Len(l) : IsStart(l[i], s, n) => i = ch.active.start
    /\ BytesSince(l, ch.active.start) <= MaxBytes =>
          Len(ch.history) >= Len(l) - ch.active.start + 1

TurnsKept ==
    \A s \in Sessions :
        /\ turn[s].now <= turn[s].ran
        /\ \A i \in 1..Len(log[s]) : log[s][i].from = s => log[s][i].turn <= turn[s].ran
        /\ turn[s].now # 0 /\ s \notin gapped => TurnKept(channel[s], log[s], s, turn[s].now)

(* The first event of a turn.                                              *)
LEMMA TurnBegins ==
    ASSUME NEW ch \in ChannelType, NEW s, NEW e \in Event, NEW l \in Seq(Event),
           WindowOf(ch, l), ch.next < MaxEvents, NEW n, IsStart(e, s, n),
           \A i \in 1..Len(l) : ~IsStart(l[i], s, n)
    PROVE  TurnKept(Pushed(ch, s, e), Append(l, e), s, n)
<1> DEFINE p == Pushed(ch, s, e)
           t == Append(l, e)
           k == ch.next + 1
<1>1. ch.next \in Nat /\ Len(l) = ch.next /\ k \in 1..(ch.next + 1)
  BY HubAssumption DEF ChannelType, WindowOf
<1>2. Len(t) = k /\ t[k] = e /\ \A i \in 1..Len(t) : i # k => i \in 1..Len(l) /\ t[i] = l[i]
  BY <1>1
<1>3. /\ p.active = Begun(ch, s, e) /\ p \in ChannelType
  BY PushedIs DEF IsStart
<1>4. /\ Begun(ch, s, e) = [turn |-> n, start |-> k]
  BY DEF Begun, IsStart
<1>5. Begun(ch, s, e) # None
  <2>1. e.turn \in 1..MaxTurns /\ k \in 1..MaxEvents
    BY <1>1, HubAssumption DEF Event
  <2>2. Begun(ch, s, e) \in [turn : 1..MaxTurns, start : 1..MaxEvents]
    BY <1>4, <2>1 DEF IsStart
  <2>3. None \notin [turn : 1..MaxTurns, start : 1..MaxEvents]
    BY HubAssumption
  <2> QED BY <2>2, <2>3
<1>6. Begun(ch, s, e).start = k /\ Begun(ch, s, e).turn = n
  BY <1>4
<1>7. BytesSince(t, k) <= MaxBytes => Len(p.history) >= ch.next + 1 - k + 1
  BY <1>1, <1>5, <1>6, PushKeepsTurn
<1> HIDE DEF p, t
<1>8. /\ p.active # None /\ p.active.turn = n /\ p.active.start = k
  BY <1>3, <1>5, <1>6
<1>9. k \in 1..Len(t) /\ IsStart(t[k], s, n) /\ \A i \in 1..Len(t) : IsStart(t[i], s, n) => i = k
  BY <1>1, <1>2
<1>10. BytesSince(t, k) <= MaxBytes => Len(p.history) >= Len(t) - k + 1
  BY <1>1, <1>2, <1>7
<1> HIDE DEF k
<1> QED BY <1>8, <1>9, <1>10 DEF TurnKept, p, t

(* Any later event, of the turn or of a sub-agent, until the turn ends.    *)
LEMMA TurnContinues ==
    ASSUME NEW ch \in ChannelType, NEW s, NEW e \in Event, NEW l \in Seq(Event),
           WindowOf(ch, l), ch.next < MaxEvents, NEW n, TurnKept(ch, l, s, n),
           e.from = s => e.kind \notin {"start", "end"}
    PROVE  TurnKept(Pushed(ch, s, e), Append(l, e), s, n)
<1> DEFINE p == Pushed(ch, s, e)
           t == Append(l, e)
           k == ch.active.start
           N == Len(ch.history)
<1>1. ch.next \in Nat /\ Len(l) = ch.next /\ ch.history \in Seq(Item) /\ N \in Nat
  BY HubAssumption DEF ChannelType, WindowOf
<1>2. /\ ch.active # None /\ ch.active.turn = n /\ k \in 1..Len(l)
      /\ IsStart(l[k], s, n) /\ \A i \in 1..Len(l) : IsStart(l[i], s, n) => i = k
      /\ BytesSince(l, k) <= MaxBytes => N >= Len(l) - k + 1
  BY DEF TurnKept
<1>3. p.active = Begun(ch, s, e) /\ Begun(ch, s, e) = ch.active
  BY PushedIs DEF Begun
<1>4. k \in 1..(ch.next + 1)
  BY <1>1, <1>2
<1>5. /\ Len(t) = ch.next + 1 /\ t[ch.next + 1] = e
      /\ \A i \in 1..Len(t) : i # ch.next + 1 => i \in 1..Len(l) /\ t[i] = l[i]
      /\ \A i \in 1..Len(l) : t[i] = l[i]
  BY <1>1
<1>6. BytesSince(t, k) <= MaxBytes => Len(p.history) >= ch.next + 1 - k + 1
  <2> SUFFICES ASSUME BytesSince(t, k) <= MaxBytes
               PROVE  Len(p.history) >= ch.next + 1 - k + 1
    OBVIOUS
  <2>1. BytesSince(l, k) <= MaxBytes
    <3>1. /\ BytesSince(l, k) \in Nat
          /\ BytesSince(Append(l, e), k) = BytesSince(l, k) + e.bytes
      <4> HIDE DEF k
      <4> QED BY <1>2, BytesSinceGrows
    <3>2. e.bytes \in Nat /\ MaxBytes \in Nat
      BY BytesNat, HubAssumption
    <3> DEFINE x == BytesSince(l, k)
               y == e.bytes
    <3>3. x \in Nat /\ y \in Nat /\ x + y <= MaxBytes
      BY <3>1, <3>2
    <3> HIDE DEF x, y
    <3>4. x <= MaxBytes
      BY <3>2, <3>3
    <3> QED BY <3>4 DEF x
  <2>2. N >= Len(l) - k + 1
    BY <1>2, <2>1
  <2> HIDE DEF k
  <2>3. Begun(ch, s, e) # None /\ Begun(ch, s, e).start = k
    BY <1>2, <1>3 DEF k
  <2> QED BY <1>4, <2>2, <2>3, PushKeepsTurn
<1>7. ~IsStart(e, s, n)
  BY DEF IsStart
<1> HIDE DEF p, t, N
<1>8. p.active # None /\ p.active.turn = n /\ p.active.start = k
  BY <1>2, <1>3
<1> HIDE DEF k
<1>9. /\ k \in 1..Len(t) /\ IsStart(t[k], s, n)
      /\ \A i \in 1..Len(t) : IsStart(t[i], s, n) => i = k
  BY <1>1, <1>2, <1>4, <1>5, <1>7
<1>10. BytesSince(t, k) <= MaxBytes => Len(p.history) >= Len(t) - k + 1
  <2>1. Len(t) = ch.next + 1
    BY <1>5
  <2> QED BY <1>1, <1>4, <1>6, <2>1
<1> QED BY <1>8, <1>9, <1>10 DEF TurnKept, p, t

LEMMA EmitKeepsTurns ==
    ASSUME IInv, TurnsKept, NEW f \in Sessions, NEW e \in Event, Emit(e), e.from = f,
           Starts(f, e) \/ Progresses(f, e) \/ Ends(f, e)
    PROVE  TurnsKept'
<1>1. /\ turn \in [Sessions -> [now : 0..MaxTurns, ran : 0..MaxTurns]]
      /\ gapped \subseteq Sessions /\ MaxTurns \in Nat
  BY HubAssumption DEF IInv, Typed
<1> SUFFICES ASSUME NEW s \in Sessions
             PROVE  /\ turn'[s].now <= turn'[s].ran
                    /\ \A i \in 1..Len(log'[s]) :
                          log'[s][i].from = s => log'[s][i].turn <= turn'[s].ran
                    /\ turn'[s].now # 0 /\ s \notin gapped' =>
                          TurnKept(channel'[s], log'[s], s, turn'[s].now)
  BY DEF TurnsKept
<1> DEFINE l == log[s]
           ch == channel[s]
<1>2. /\ ch \in ChannelType /\ l \in Seq(Event) /\ Len(l) = ch.next /\ ch.next \in Nat
      /\ WindowOf(ch, l) /\ ch.next < MaxEvents
  <2>1. emitted < MaxEvents /\ emitted \in Nat /\ ch.next <= emitted /\ ch.next \in Nat
    BY SessionFacts DEF Emit
  <2> HIDE DEF ch, l
  <2>2. ch.next < MaxEvents
    BY <2>1, HubAssumption
  <2> QED BY <2>2, SessionFacts DEF ch, l
<1>3. /\ turn[s].now <= turn[s].ran
      /\ \A i \in 1..Len(l) : l[i].from = s => l[i].turn <= turn[s].ran
      /\ turn[s].now # 0 /\ s \notin gapped => TurnKept(ch, l, s, turn[s].now)
  BY DEF TurnsKept
<1>4. turn[s].now \in Nat /\ turn[s].ran \in Nat
  BY <1>1
<1>5. /\ s \in Reaches(e) => channel'[s] = Pushed(ch, s, e) /\ log'[s] = Append(l, e)
      /\ s \notin Reaches(e) => channel'[s] = ch /\ log'[s] = l
  BY DEF Emit
<1>6. \A i \in 1..Len(Append(l, e)) : (i = Len(l) + 1 /\ Append(l, e)[i] = e)
                                       \/ (i \in 1..Len(l) /\ Append(l, e)[i] = l[i])
  BY <1>2
<1>7. CASE s # f
  <2>1. turn'[s] = turn[s] /\ (s \in gapped' <=> s \in gapped)
    BY <1>1, <1>7 DEF Starts, Progresses, Ends
  <2>2. CASE s \in Reaches(e)
    <3>1. TurnKept(ch, l, s, turn[s].now) =>
             TurnKept(Pushed(ch, s, e), Append(l, e), s, turn[s].now)
      <4> HIDE DEF ch, l
      <4> QED BY <1>2, <1>7, TurnContinues
    <3> HIDE DEF ch, l
    <3> QED BY <1>3, <1>5, <1>6, <1>7, <2>1, <2>2, <3>1
  <2>3. CASE s \notin Reaches(e)
    <3> HIDE DEF ch, l
    <3> QED BY <1>3, <1>5, <2>1, <2>3
  <2> QED BY <2>2, <2>3
<1>8. CASE s = f
  <2>1. s \in Reaches(e) /\ channel'[s] = Pushed(ch, s, e) /\ log'[s] = Append(l, e)
    BY <1>5, <1>8, ReachesSessions
  <2> HIDE DEF ch, l
  <2>2. CASE Starts(f, e)
    <3>1. /\ turn'[s].now = turn[s].ran + 1 /\ turn'[s].ran = turn[s].ran + 1
          /\ e.turn = turn[s].ran + 1 /\ e.kind = "start"
      BY <1>1, <1>8, <2>2 DEF Starts
    <3>2. ASSUME NEW i \in 1..Len(l), IsStart(l[i], s, turn[s].ran + 1) PROVE FALSE
      <4>1. l[i].turn = turn[s].ran + 1 /\ l[i].turn <= turn[s].ran
        BY <1>3, <3>2 DEF IsStart
      <4> QED BY <1>4, <4>1
    <3>3. IsStart(e, s, turn[s].ran + 1)
      BY <1>8, <3>1 DEF IsStart
    <3>4. TurnKept(Pushed(ch, s, e), Append(l, e), s, turn[s].ran + 1)
      BY <1>2, <3>2, <3>3, TurnBegins
    <3>5. \A i \in 1..Len(Append(l, e)) :
             Append(l, e)[i].from = s => Append(l, e)[i].turn <= turn[s].ran + 1
      <4>1. ASSUME NEW i \in 1..Len(l), l[i].from = s PROVE l[i].turn <= turn[s].ran + 1
        <5>1. l[i].turn <= turn[s].ran
          BY <1>3, <4>1
        <5>2. l[i].turn \in Nat
          <6>1. l[i] \in Event
            BY <1>2
          <6> QED BY <6>1 DEF Event
        <5> QED BY <1>4, <5>1, <5>2
      <4>2. e.turn <= turn[s].ran + 1
        BY <1>4, <3>1
      <4> QED BY <1>6, <4>1, <4>2
    <3>6. turn[s].ran + 1 <= turn[s].ran + 1
      BY <1>4
    <3> QED BY <2>1, <3>1, <3>4, <3>5, <3>6
  <2>3. \A i \in 1..Len(Append(l, e)) :
           e.turn = turn[s].now /\ Append(l, e)[i].from = s =>
               Append(l, e)[i].turn <= turn[s].ran
    BY <1>3, <1>6
  <2>4. CASE Progresses(f, e)
    <3>1. turn' = turn /\ gapped' = gapped /\ e.turn = turn[s].now
          /\ e.kind \notin {"start", "end"}
      BY <1>8, <2>4 DEF Progresses
    <3>2. TurnKept(ch, l, s, turn[s].now) =>
             TurnKept(Pushed(ch, s, e), Append(l, e), s, turn[s].now)
      BY <1>2, <3>1, TurnContinues
    <3> QED BY <1>3, <2>1, <2>3, <3>1, <3>2
  <2>5. CASE Ends(f, e)
    <3>1. turn'[s].now = 0 /\ turn'[s].ran = turn[s].ran /\ e.turn = turn[s].now
      BY <1>1, <1>8, <2>5 DEF Ends
    <3> QED BY <1>4, <2>1, <2>3, <3>1
  <2> QED BY <2>2, <2>4, <2>5
<1> QED BY <1>7, <1>8

LEMMA TurnsStayKept == IInv /\ TurnsKept /\ [Next]_vars => TurnsKept'
<1> SUFFICES ASSUME IInv, TurnsKept, [Next]_vars PROVE TurnsKept'
  OBVIOUS
<1>1. turn \in [Sessions -> [now : 0..MaxTurns, ran : 0..MaxTurns]]
  BY DEF IInv, Typed
<1>2. ASSUME NEW s \in Sessions, StartTurn(s) \/ Progress(s) \/ EndTurn(s) PROVE TurnsKept'
  BY <1>2, TurnsKeep, EmitKeepsTurns
<1>3. CASE UNCHANGED <<turn, log, gapped, channel>>
  BY <1>3 DEF TurnsKept
(* The gap or the deletion of a session excuses its running turn.          *)
<1>4. ASSUME NEW t \in Sessions, SignalTurnGap(t) \/ DropSession(t) PROVE TurnsKept'
  <2>1. /\ gapped' = gapped \cup {t} /\ UNCHANGED turn
        /\ log' \in {log, [log EXCEPT ![t] = <<>>]}
        /\ \A s \in Sessions : s # t => channel'[s] = channel[s] /\ log'[s] = log[s]
    BY <1>4 DEF SignalTurnGap, DropSession, IInv, Typed
  <2>2. ASSUME NEW i \in 1..Len(log'[t]), log'[t][i].from = t
        PROVE  log'[t][i].turn <= turn[t].ran
    <3>1. log'[t] = log[t] \/ log'[t] = <<>>
      BY <2>1 DEF IInv, Typed
    <3>2. CASE log'[t] = <<>>
      <4>1. Len(log'[t]) = 0
        BY <3>2
      <4> QED BY <4>1
    <3> QED BY <2>2, <3>1, <3>2 DEF TurnsKept
  <2> QED BY <2>1, <2>2 DEF TurnsKept
<1>5. CASE Restart
  <2>1. /\ turn' = [s \in Sessions |-> [turn[s] EXCEPT !.now = 0]]
        /\ log' = [s \in Sessions |-> <<>>]
    BY <1>5 DEF Restart
  <2>2. ASSUME NEW s \in Sessions
        PROVE  turn'[s].now = 0 /\ turn'[s].ran \in Nat /\ Len(log'[s]) = 0
    BY <1>1, <2>1
  <2>3. \A s \in Sessions : turn'[s].now <= turn'[s].ran
    BY <2>2
  <2> QED BY <2>2, <2>3 DEF TurnsKept
<1>6. ASSUME NEW c \in Clients, Follow(c) \/ Leave(c) \/ \E s \in Sessions : Attach(c, s)
      PROVE  UNCHANGED <<turn, log, gapped, channel>>
  BY <1>6 DEF Follow, Return, Read, Notice, Leave, Attach
<1>7. CASE UNCHANGED vars
  BY <1>3, <1>7 DEF vars
<1> QED BY <1>2, <1>3, <1>4, <1>5, <1>6, <1>7 DEF Next

(* A running turn can be replayed from its first event for as long as it   *)
(* keeps to the byte cap, however many events it has, unless a gap was     *)
(* signalled or the session deleted.                                       *)
THEOREM RunningTurnReplayable == Spec => []WindowKeepsActiveTurn
<1>1. Init => TurnsKept
  <2> SUFFICES ASSUME Init PROVE TurnsKept
    OBVIOUS
  <2>1. ASSUME NEW s \in Sessions
        PROVE  /\ turn[s].now = 0 /\ turn[s].now <= turn[s].ran
               /\ \A i \in 1..Len(log[s]) : log[s][i].from = s => log[s][i].turn <= turn[s].ran
    <3>1. turn[s] = [now |-> 0, ran |-> 0] /\ Len(log[s]) = 0
      BY DEF Init
    <3>2. 1..Len(log[s]) = {}
      BY <3>1
    <3> QED BY <3>1, <3>2
  <2> QED BY <2>1 DEF TurnsKept
<1>2. IInv /\ TurnsKept => WindowKeepsActiveTurn
  <2> SUFFICES ASSUME IInv, TurnsKept, NEW s \in Sessions, turn[s].now # 0, s \notin gapped,
                      Total([i \in DOMAIN SinceStart(s) |-> SinceStart(s)[i].bytes]) <= MaxBytes
               PROVE  LET events == SinceStart(s)
                          window == channel[s].history
                      IN  /\ channel[s].active # None
                          /\ Len(window) >= Len(events)
                          /\ \A i \in DOMAIN events :
                                window[Len(window) - Len(events) + i].event = events[i]
    BY DEF WindowKeepsActiveTurn
  <2> DEFINE l == log[s]
             ch == channel[s]
             k == ch.active.start
             h == ch.history
             w == SubSeq(l, k, Len(l))
  <2>1. TurnKept(ch, l, s, turn[s].now)
    BY DEF TurnsKept
  <2>2. /\ l \in Seq(Event) /\ h \in Seq(Item) /\ Len(h) \in Nat /\ Len(l) = ch.next
        /\ ch.next \in Nat /\ WindowOf(ch, l) /\ Len(h) <= ch.next
    BY SessionFacts DEF WindowOf
  <2>3. /\ k \in 1..Len(l) /\ IsStart(l[k], s, turn[s].now) /\ ch.active # None
        /\ \A i \in 1..Len(l) : IsStart(l[i], s, turn[s].now) => i = k
    BY <2>1 DEF TurnKept
  <2>4. SinceStart(s) = w
    <3> DEFINE start == CHOOSE n \in DOMAIN l : IsStart(l[n], s, turn[s].now)
    <3>1. SinceStart(s) = SubSeq(l, start, Len(l))
      BY DEF SinceStart, IsStart
    <3>2. start = k
      <4>1. DOMAIN l = 1..Len(l)
        BY <2>2
      <4> HIDE DEF l, k
      <4> QED BY <2>3, <4>1
    <3> QED BY <3>1, <3>2
  <2>5. /\ w \in Seq(Event) /\ Len(w) = Len(l) - (k - 1)
        /\ \A i \in 1..(Len(l) - (k - 1)) : w[i] = l[(k - 1) + i]
    <3>1. k - 1 \in 0..Len(l) /\ (k - 1) + 1 = k
      BY <2>2, <2>3
    <3> DEFINE m == k - 1
    <3>2. w = SubSeq(l, m + 1, Len(l))
      BY <3>1
    <3> HIDE DEF l, k, w, m
    <3>3. l \in Seq(Event) /\ m \in 0..Len(l)
      BY <2>2, <3>1 DEF m
    <3>4. /\ w \in Seq(Event) /\ Len(w) = Len(l) - m
          /\ \A i \in 1..(Len(l) - m) : w[i] = l[m + i]
      BY <3>2, <3>3, EndOf
    <3> QED BY <3>4 DEF m
  <2>6. Len(h) >= Len(l) - k + 1
    <3>1. BytesSince(l, k) <= MaxBytes
      BY <2>4 DEF BytesSince, SizesSince
    <3> QED BY <2>1, <3>1 DEF TurnKept
  <2> HIDE DEF l, ch, k, h, w
  <2>7. Len(h) >= Len(w) /\ Len(w) \in Nat
    BY <2>2, <2>3, <2>5, <2>6
  <2>8. ASSUME NEW i \in 1..Len(w) PROVE h[Len(h) - Len(w) + i].event = w[i]
    <3> DEFINE j == Len(h) - Len(w) + i
    <3>1. j \in 1..Len(h) /\ (ch.next - Len(h)) + j = (k - 1) + i
      <4> DEFINE x == Len(h)
                 y == Len(w)
                 z == Len(l)
                 next == ch.next
      <4>1. /\ x \in Nat /\ y \in Nat /\ z \in Nat /\ next = z /\ k \in 1..z /\ i \in 1..y
            /\ y = z - (k - 1) /\ x <= next /\ x >= y
        BY <2>2, <2>3, <2>5, <2>7
      <4> HIDE DEF x, y, z, next
      <4>2. (x - y) + i \in 1..x /\ (next - x) + ((x - y) + i) = (k - 1) + i
        BY <4>1
      <4> QED BY <4>2 DEF x, y, next
    <3> HIDE DEF j
    <3>2. h[j] = [cursor |-> Base(ch) + j, event |-> l[Base(ch) + j]]
      BY <2>2, <3>1 DEF WindowOf, Segment, h
    <3>3. Base(ch) + j = (k - 1) + i
      BY <3>1 DEF Base, h
    <3>4. h[j].event = l[(k - 1) + i]
      BY <3>2, <3>3
    <3> QED BY <2>5, <3>4 DEF j
  <2>9. DOMAIN w = 1..Len(w)
    BY <2>5
  <2> QED BY <2>3, <2>4, <2>7, <2>8, <2>9 DEF ch, h
<1> QED BY <1>1, <1>2, TurnsStayKept, Invariance, PTL DEF Spec

=============================================================================

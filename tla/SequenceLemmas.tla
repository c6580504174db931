--------------------------- MODULE SequenceLemmas ---------------------------
(***************************************************************************)
(* Facts about sequences that the proofs share: what a sequence holds      *)
(* after an element came or went, and what `selected' selects.  The latter *)
(* is a recursive function; the inductions are arguments about a least     *)
(* counterexample.                                                         *)
(***************************************************************************)
EXTENDS SelectedSeq, Integers, SequencesExt, SequenceTheorems, WellFoundedInduction, TLAPS

\* A function over the first numbers is a sequence.
LEMMA FunctionIsSeq ==
    ASSUME NEW S, NEW n \in Nat, NEW f \in [1 .. n -> S]
    PROVE  f \in Seq(S) /\ Len(f) = n
<1>1. f \in Seq(S) BY SeqDef
<1>2. DOMAIN f = 1 .. Len(f) /\ Len(f) \in Nat BY <1>1, LenProperties
<1> QED BY <1>1, <1>2

\* To append to the second of two sequences is to append to the two.
LEMMA ConcatThenOne ==
    ASSUME NEW S, NEW s \in Seq(S), NEW t \in Seq(S), NEW e \in S
    PROVE  s \o Append(t, e) = (s \o t) \o <<e>>
<1>1. <<e>> \in Seq(S) OBVIOUS
<1>2. Append(t, e) = t \o <<e>> BY AppendIsConcat
<1> QED BY <1>1, <1>2, ConcatAssociative

\* What a sequence holds, after an element is appended to it.
LEMMA AppendHolds ==
    ASSUME NEW S, NEW s \in Seq(S), NEW e \in S
    PROVE  /\ ToSet(Append(s, e)) = ToSet(s) \cup {e}
           /\ IsInjective(s) /\ e \notin ToSet(s) => IsInjective(Append(s, e))
<1>1. /\ Append(s, e) \in Seq(S)
      /\ DOMAIN Append(s, e) = 1 .. Len(s) + 1 /\ DOMAIN s = 1 .. Len(s) /\ Len(s) \in Nat
      /\ \A i \in 1 .. Len(s) : Append(s, e)[i] = s[i]
      /\ Append(s, e)[Len(s) + 1] = e
    BY AppendProperties, LenProperties
<1>2. ToSet(Append(s, e)) = ToSet(s) \cup {e}
    BY <1>1 DEF ToSet
<1>3. ASSUME IsInjective(s), e \notin ToSet(s),
             NEW i \in DOMAIN Append(s, e), NEW j \in DOMAIN Append(s, e),
             Append(s, e)[i] = Append(s, e)[j]
      PROVE  i = j
    <2>1. \A k \in 1 .. Len(s) : s[k] # e BY <1>1, <1>3 DEF ToSet
    <2> QED BY <1>1, <1>3, <2>1 DEF IsInjective
<1> QED BY <1>2, <1>3 DEF IsInjective

\* What a sequence holds, after its head is taken.
LEMMA TailHolds ==
    ASSUME NEW S, NEW s \in Seq(S), s # <<>>
    PROVE  /\ Head(s) \in ToSet(s) /\ Head(s) \in S
           /\ ToSet(s) = ToSet(Tail(s)) \cup {Head(s)}
           /\ IsInjective(s) => IsInjective(Tail(s)) /\ Head(s) \notin ToSet(Tail(s))
<1>1. /\ Tail(s) \in Seq(S) /\ Len(Tail(s)) = Len(s) - 1 /\ Len(s) \in Nat \ {0}
      /\ DOMAIN Tail(s) = 1 .. Len(s) - 1 /\ DOMAIN s = 1 .. Len(s)
      /\ \A i \in 1 .. Len(s) - 1 : Tail(s)[i] = s[i + 1]
      /\ Head(s) = s[1] /\ Head(s) \in S
    BY HeadTailProperties, LenProperties, EmptySeq
<1>2. ToSet(s) = ToSet(Tail(s)) \cup {Head(s)}
    <2>1. ASSUME NEW i \in 2 .. Len(s) PROVE s[i] \in ToSet(Tail(s))
        <3>1. i - 1 \in 1 .. Len(s) - 1 /\ Tail(s)[i - 1] = s[i] BY <1>1, <2>1
        <3> QED BY <1>1, <3>1 DEF ToSet
    <2>2. ASSUME NEW i \in 1 .. Len(s) - 1 PROVE Tail(s)[i] \in ToSet(s)
        <3>1. i + 1 \in 1 .. Len(s) /\ Tail(s)[i] = s[i + 1] BY <1>1, <2>2
        <3> QED BY <1>1, <3>1 DEF ToSet
    <2>3. \A i \in 1 .. Len(s) : i = 1 \/ i \in 2 .. Len(s) BY <1>1
    <2> QED BY <1>1, <2>1, <2>2, <2>3 DEF ToSet
<1>3. IsInjective(s) => IsInjective(Tail(s)) /\ Head(s) \notin ToSet(Tail(s))
    BY <1>1 DEF IsInjective, ToSet
<1> QED BY <1>1, <1>2, <1>3 DEF ToSet

(***************************************************************************)
(* selected                                                                *)
(***************************************************************************)
\* Every set of numbers has a least one: the form in which the proofs use induction.
LEMMA LeastNat ==
    ASSUME NEW N, N \subseteq Nat, N # {}
    PROVE  \E m \in N : \A n \in N : m <= n
<1>1. IsWellFoundedOn(OpToRel(<, Nat), Nat) BY NatLessThanWellFounded
<1>2. PICK m \in N : \A n \in N : <<n, m>> \notin OpToRel(<, Nat) BY <1>1, WFMin
<1>3. \A n \in N : ~(n < m) BY <1>2 DEF OpToRel
<1> QED BY <1>3

\* The equation that selected's upTo is the solution of.
solves(f, s, T, len) ==
    f = [n \in 0 .. len |-> IF n = 0 THEN <<>>
                            ELSE IF s[n] \in T THEN Append(f[n - 1], s[n])
                            ELSE f[n - 1]]

\* It has one.
LEMMA UpToExists ==
    ASSUME NEW s, NEW T, NEW len \in Nat
    PROVE  \E f : solves(f, s, T, len)
<1>. DEFINE step(f, n) == IF n = 0 THEN <<>>
                          ELSE IF s[n] \in T THEN Append(f[n - 1], s[n])
                          ELSE f[n - 1]
            failing == {m \in Nat : ~ \E f : solves(f, s, T, m)}
<1>1. ASSUME failing # {} PROVE FALSE
    <2>1. PICK m \in failing : \A n \in failing : m <= n
        <3> HIDE DEF failing
        <3>1. failing \subseteq Nat BY DEF failing
        <3> QED BY <1>1, <3>1, LeastNat
    <2>2. CASE m = 0
        <3>1. solves([n \in 0 .. 0 |-> <<>>], s, T, 0) BY DEF solves
        <3> QED BY <2>2, <3>1
    <2>3. CASE m # 0
        <3>0. m \in Nat /\ m - 1 \in Nat BY <2>3
        <3>1. m - 1 \in Nat /\ m - 1 \notin failing
            <4> HIDE DEF failing
            <4> QED BY <2>1, <3>0
        <3>2. PICK f : solves(f, s, T, m - 1) BY <3>1
        <3>3. DEFINE g == [n \in 0 .. m |-> IF n = m THEN step(f, m) ELSE f[n]]
        <3>4. ASSUME NEW n \in 0 .. m PROVE g[n] = step(g, n)
            <4>1. CASE n = 0 BY <2>1, <2>3, <3>1, <3>2, <4>1 DEF solves
            <4>2. CASE n # 0 /\ n < m
                <5>1. n \in 0 .. m - 1 /\ n - 1 \in 0 .. m /\ n - 1 # m BY <2>1, <4>2
                <5>2. g[n] = f[n] /\ g[n - 1] = f[n - 1] BY <4>2, <5>1
                <5>3. f[n] = step(f, n) BY <3>2, <5>1 DEF solves
                <5> QED BY <4>2, <5>2, <5>3
            <4>3. CASE n = m
                <5>1. m - 1 \in 0 .. m /\ m - 1 # m BY <2>1, <3>1
                <5>2. g[m - 1] = f[m - 1] BY <5>1
                <5>3. g[m] = step(f, m) BY <4>3
                <5> QED BY <2>3, <4>3, <5>2, <5>3
            <4> QED BY <4>1, <4>2, <4>3
        <3>5. g = [n \in 0 .. m |-> step(g, n)]
            <4>1. g = [n \in 0 .. m |-> g[n]] OBVIOUS
            <4> HIDE DEF g, step
            <4> QED BY <3>4, <4>1
        <3>6. solves(g, s, T, m) BY <3>5 DEF solves
        <3> QED BY <2>1, <3>6
    <2> QED BY <2>2, <2>3
<1>2. PICK f : solves(f, s, T, len) BY <1>1
<1> QED BY <1>2

\* t is s up to n without the elements outside T: g gives each one's place in s.
Picks(g, t, s, n, T) ==
    /\ g \in [1 .. Len(t) -> 1 .. n]
    /\ \A j, k \in 1 .. Len(t) : j < k => g[j] < g[k]
    /\ \A k \in 1 .. Len(t) : t[k] = s[g[k]]
    /\ \A i \in 1 .. n : s[i] \in T <=> \E k \in 1 .. Len(t) : g[k] = i

\* One more element, in T or not.
LEMMA PicksNext ==
    ASSUME NEW S, NEW s \in Seq(S), NEW T, NEW n \in Nat, n + 1 <= Len(s),
           NEW t \in Seq(S), NEW g, Picks(g, t, s, n, T)
    PROVE  LET u == IF s[n + 1] \in T THEN Append(t, s[n + 1]) ELSE t
           IN  u \in Seq(S) /\ \E h : Picks(h, u, s, n + 1, T)
<1>. USE DEF Picks
<1>0. Len(t) \in Nat /\ n + 1 \in 1 .. Len(s) /\ s[n + 1] \in S
    BY LenProperties, ElementOfSeq
<1>1. CASE s[n + 1] \in T
    <2>. DEFINE u == Append(t, s[n + 1])
                h == [k \in 1 .. Len(t) + 1 |-> IF k = Len(t) + 1 THEN n + 1 ELSE g[k]]
    <2>1. /\ u \in Seq(S) /\ Len(u) = Len(t) + 1
          /\ \A k \in 1 .. Len(t) : u[k] = t[k]
          /\ u[Len(t) + 1] = s[n + 1]
        BY <1>0, AppendProperties
    <2> HIDE DEF u
    <2>2. \A k \in 1 .. Len(t) + 1 : k = Len(t) + 1 \/ k \in 1 .. Len(t) BY <1>0
    <2>3. /\ \A k \in 1 .. Len(t) : h[k] = g[k] /\ g[k] \in 1 .. n
          /\ h[Len(t) + 1] = n + 1
        BY <1>0
    <2>4. h \in [1 .. Len(t) + 1 -> 1 .. n + 1]
        <3>1. ASSUME NEW k \in 1 .. Len(t) + 1 PROVE h[k] \in 1 .. n + 1
            BY <1>0, <2>2, <2>3, <3>1
        <3> QED BY <3>1
    <2>5. ASSUME NEW j \in 1 .. Len(t) + 1, NEW k \in 1 .. Len(t) + 1, j < k PROVE h[j] < h[k]
        <3>1. j \in 1 .. Len(t) BY <1>0, <2>5
        <3>2. CASE k = Len(t) + 1 BY <1>0, <2>3, <3>1, <3>2
        <3>3. CASE k \in 1 .. Len(t) BY <2>3, <2>5, <3>1, <3>3
        <3> QED BY <2>2, <3>2, <3>3
    <2>6. ASSUME NEW k \in 1 .. Len(t) + 1 PROVE u[k] = s[h[k]]
        BY <2>1, <2>2, <2>3, <2>6
    <2>7. ASSUME NEW i \in 1 .. n + 1 PROVE s[i] \in T <=> \E k \in 1 .. Len(t) + 1 : h[k] = i
        <3>1. CASE i = n + 1
            <4>1. Len(t) + 1 \in 1 .. Len(t) + 1 BY <1>0
            <4> QED BY <1>1, <2>3, <3>1, <4>1
        <3>2. CASE i # n + 1
            <4>1. i \in 1 .. n BY <3>2
            <4>2. s[i] \in T <=> \E k \in 1 .. Len(t) : g[k] = i BY <4>1
            <4>3. \A k \in 1 .. Len(t) : k \in 1 .. Len(t) + 1 BY <1>0
            <4> QED BY <2>2, <2>3, <3>2, <4>2, <4>3
        <3> QED BY <3>1, <3>2
    <2> HIDE DEF h
    <2>8. Picks(h, u, s, n + 1, T) BY <2>1, <2>4, <2>5, <2>6, <2>7
    <2>9. \E k : Picks(k, u, s, n + 1, T) BY <2>8, Zenon
    <2>10. u = IF s[n + 1] \in T THEN Append(t, s[n + 1]) ELSE t BY <1>1 DEF u
    <2> HIDE DEF u, Picks
    <2> QED BY <2>1, <2>9, <2>10
<1>2. CASE s[n + 1] \notin T
    <2>1. g \in [1 .. Len(t) -> 1 .. n + 1] BY <1>0
    <2>2. ASSUME NEW i \in 1 .. n + 1 PROVE s[i] \in T <=> \E k \in 1 .. Len(t) : g[k] = i
        <3>1. CASE i = n + 1 BY <1>2, <3>1
        <3>2. CASE i # n + 1
            <4>1. i \in 1 .. n BY <3>2
            <4> QED BY <4>1
        <3> QED BY <3>1, <3>2
    <2>3. Picks(g, t, s, n + 1, T) BY <2>1, <2>2
    <2> HIDE DEF Picks
    <2>4. \E h : Picks(h, t, s, n + 1, T) BY <2>3, Zenon
    <2> QED BY <1>2, <2>4
<1> QED BY <1>1, <1>2

\* selected takes just the elements of T, each once and in the order of s.
LEMMA SelectedPicks ==
    ASSUME NEW S, NEW s \in Seq(S), NEW T
    PROVE  /\ selected(s, T) \in Seq(S)
           /\ \E g : Picks(g, selected(s, T), s, Len(s), T)
<1>. DEFINE upTo == CHOOSE f : solves(f, s, T, Len(s))
            holds(n) == upTo[n] \in Seq(S) /\ \E g : Picks(g, upTo[n], s, n, T)
            failing == {n \in 0 .. Len(s) : ~holds(n)}
<1>1. Len(s) \in Nat BY LenProperties
<1>2. upTo = [n \in 0 .. Len(s) |-> IF n = 0 THEN <<>>
                                   ELSE IF s[n] \in T THEN Append(upTo[n - 1], s[n])
                                   ELSE upTo[n - 1]]
    <2>1. solves(upTo, s, T, Len(s)) BY <1>1, UpToExists
    <2> HIDE DEF upTo
    <2> QED BY <2>1 DEF solves
<1>3. selected(s, T) = upTo[Len(s)] BY DEF selected, solves
<1> HIDE DEF upTo
<1>4. holds(0)
    <2>1. upTo[0] = <<>> BY <1>1, <1>2
    <2>2. Len(<<>>) = 0 /\ <<>> \in Seq(S) BY EmptySeq
    <2>3. Picks(<<>>, <<>>, s, 0, T) BY <2>2 DEF Picks
    <2> QED BY <2>1, <2>2, <2>3
<1>5. ASSUME NEW n \in Nat, n + 1 <= Len(s), holds(n) PROVE holds(n + 1)
    <2>1. upTo[n + 1] = IF s[n + 1] \in T THEN Append(upTo[n], s[n + 1]) ELSE upTo[n]
        <3>1. n + 1 \in 0 .. Len(s) /\ n + 1 # 0 /\ (n + 1) - 1 = n BY <1>1, <1>5
        <3> QED BY <1>2, <3>1
    <2> QED BY <1>5, <2>1, PicksNext
<1> HIDE DEF holds
<1>6. ASSUME failing # {} PROVE FALSE
    <2>1. PICK m \in failing : \A n \in failing : m <= n
        <3>1. failing \subseteq Nat BY <1>1
        <3> HIDE DEF failing
        <3> QED BY <1>6, <3>1, LeastNat
    <2>2. m \in 0 .. Len(s) /\ ~holds(m) /\ m # 0 BY <1>4
    <2>3. m - 1 \in Nat /\ (m - 1) + 1 = m /\ m <= Len(s) /\ m - 1 \in 0 .. Len(s) BY <1>1, <2>2
    <2>4. m - 1 \notin failing
        <3> HIDE DEF failing
        <3> QED BY <2>1, <2>3
    <2>5. holds(m - 1) BY <2>3, <2>4
    <2> QED BY <1>5, <2>2, <2>3, <2>5
<1>7. holds(Len(s)) BY <1>1, <1>6
<1> QED BY <1>3, <1>7 DEF holds

\* What selected takes, as a set, and that it repeats nothing.
LEMMA SelectedHolds ==
    ASSUME NEW S, NEW s \in Seq(S), NEW T
    PROVE  /\ selected(s, T) \in Seq(S)
           /\ ToSet(selected(s, T)) = ToSet(s) \cap T
           /\ IsInjective(s) => IsInjective(selected(s, T))
<1>. DEFINE t == selected(s, T)
<1>1. t \in Seq(S) BY SelectedPicks
<1>2. PICK g : Picks(g, t, s, Len(s), T) BY SelectedPicks
<1> HIDE DEF t
<1>3. DOMAIN t = 1 .. Len(t) /\ DOMAIN s = 1 .. Len(s) /\ Len(t) \in Nat /\ Len(s) \in Nat
    BY <1>1, LenProperties
<1>4. ToSet(t) = ToSet(s) \cap T
    <2>1. ASSUME NEW k \in 1 .. Len(t) PROVE t[k] \in ToSet(s) \cap T
        BY <1>2, <1>3 DEF Picks, ToSet
    <2>2. ASSUME NEW i \in 1 .. Len(s), s[i] \in T PROVE s[i] \in ToSet(t)
        BY <1>2, <1>3, <2>2 DEF Picks, ToSet
    <2> QED BY <1>3, <2>1, <2>2 DEF ToSet
<1>5. ASSUME IsInjective(s), NEW j \in 1 .. Len(t), NEW k \in 1 .. Len(t), t[j] = t[k]
      PROVE  j = k
    <2>1. g[j] = g[k] /\ g[j] \in 1 .. Len(s) /\ g[k] \in 1 .. Len(s)
        BY <1>2, <1>3, <1>5 DEF Picks, IsInjective
    <2>2. ~(j < k) /\ ~(k < j) BY <1>2, <2>1 DEF Picks
    <2> QED BY <1>3, <2>2
<1> QED BY <1>1, <1>3, <1>4, <1>5 DEF t, IsInjective

\* Only the first element selected can be the first of all.
LEMMA SelectedLater ==
    ASSUME NEW S, NEW s \in Seq(S), NEW T, NEW k \in 2 .. Len(selected(s, T))
    PROVE  \E i \in 2 .. Len(s) : selected(s, T)[k] = s[i]
<1>. DEFINE t == selected(s, T)
<1>1. t \in Seq(S) /\ Len(t) \in Nat /\ Len(s) \in Nat BY SelectedPicks, LenProperties
<1>2. PICK g : Picks(g, t, s, Len(s), T) BY SelectedPicks
<1> HIDE DEF t
<1>3. k \in 1 .. Len(t) /\ 1 \in 1 .. Len(t) /\ 1 < k BY <1>1 DEF t
<1>4. g[1] < g[k] /\ g[1] \in 1 .. Len(s) /\ g[k] \in 1 .. Len(s) /\ t[k] = s[g[k]]
    BY <1>2, <1>3 DEF Picks
<1>5. g[k] \in 2 .. Len(s) BY <1>1, <1>4
<1> QED BY <1>4, <1>5 DEF t

\* Two picks of the same elements agree as far as the first goes.
LEMMA PicksAgree ==
    ASSUME NEW s, NEW T, NEW n \in Nat, NEW t, NEW u, NEW g, NEW h,
           Len(t) \in Nat, Len(u) \in Nat,
           Picks(g, t, s, n, T), Picks(h, u, s, n, T)
    PROVE  \A k \in 1 .. Len(t) : k \in 1 .. Len(u) /\ g[k] = h[k]
<1>. DEFINE differing == {k \in 1 .. Len(t) : ~(k \in 1 .. Len(u) /\ g[k] = h[k])}
<1>1. ASSUME differing # {} PROVE FALSE
    <2>1. PICK k \in differing : \A j \in differing : k <= j
        <3>1. differing \subseteq Nat OBVIOUS
        <3> HIDE DEF differing
        <3> QED BY <1>1, <3>1, LeastNat
    <2>2. k \in 1 .. Len(t) /\ ~(k \in 1 .. Len(u) /\ g[k] = h[k]) OBVIOUS
    <2>3. \A j \in 1 .. Len(t) : j < k => j \in 1 .. Len(u) /\ g[j] = h[j] BY <2>1
    <2> HIDE DEF differing
    <2>4. g[k] \in 1 .. n /\ s[g[k]] \in T BY <2>2 DEF Picks
    <2>5. PICK j \in 1 .. Len(u) : h[j] = g[k] BY <2>4 DEF Picks
    <2>6. ~(j < k)
        <3>1. ASSUME j < k PROVE FALSE
            <4>1. j \in 1 .. Len(t) BY <2>2, <3>1
            <4>2. g[j] = g[k] /\ g[j] < g[k] BY <2>2, <2>3, <2>5, <3>1, <4>1 DEF Picks
            <4> QED BY <2>4, <4>2
        <3> QED BY <3>1
    <2>7. k < j /\ k \in 1 .. Len(u) BY <2>2, <2>5, <2>6
    <2>8. h[k] < g[k] /\ h[k] \in 1 .. n /\ s[h[k]] \in T BY <2>5, <2>7 DEF Picks
    <2>9. PICK i \in 1 .. Len(t) : g[i] = h[k] BY <2>8 DEF Picks
    <2>10. i < k
        <3>1. CASE k < i BY <2>2, <2>4, <2>8, <2>9, <3>1 DEF Picks
        <3>2. CASE i = k BY <2>4, <2>8, <2>9, <3>2
        <3> QED BY <2>2, <3>1, <3>2
    <2>11. i \in 1 .. Len(u) /\ h[i] = h[k] /\ h[i] < h[k]
        BY <2>3, <2>7, <2>9, <2>10 DEF Picks
    <2> QED BY <2>8, <2>11
<1> QED BY <1>1

\* So that what is selected is known once some pick of the elements is.
LEMMA SelectedUnique ==
    ASSUME NEW S, NEW s \in Seq(S), NEW T, NEW u \in Seq(S), NEW h,
           Picks(h, u, s, Len(s), T)
    PROVE  selected(s, T) = u
<1>. DEFINE t == selected(s, T)
<1>1. t \in Seq(S) BY SelectedPicks
<1>2. PICK g : Picks(g, t, s, Len(s), T) BY SelectedPicks
<1> HIDE DEF t
<1>3. Len(t) \in Nat /\ Len(u) \in Nat /\ Len(s) \in Nat BY <1>1, LenProperties
<1>4. \A k \in 1 .. Len(t) : k \in 1 .. Len(u) /\ g[k] = h[k] BY <1>2, <1>3, PicksAgree
<1>5. \A k \in 1 .. Len(u) : k \in 1 .. Len(t) /\ h[k] = g[k] BY <1>2, <1>3, PicksAgree
<1>6. Len(t) = Len(u)
    <2>1. Len(t) <= Len(u)
        <3>1. CASE Len(t) = 0 BY <1>3, <3>1
        <3>2. CASE Len(t) # 0
            <4>1. Len(t) \in 1 .. Len(t) BY <1>3, <3>2
            <4> QED BY <1>4, <4>1
        <3> QED BY <3>1, <3>2
    <2>2. Len(u) <= Len(t)
        <3>1. CASE Len(u) = 0 BY <1>3, <3>1
        <3>2. CASE Len(u) # 0
            <4>1. Len(u) \in 1 .. Len(u) BY <1>3, <3>2
            <4> QED BY <1>5, <4>1
        <3> QED BY <3>1, <3>2
    <2> QED BY <1>3, <2>1, <2>2
<1>7. \A k \in 1 .. Len(t) : t[k] = u[k] BY <1>2, <1>4 DEF Picks
<1>8. t = u BY <1>1, <1>6, <1>7, SeqEqual
<1> QED BY <1>8 DEF t

\* Without one element, the others are there as before.
LEMMA WithoutHolds ==
    ASSUME NEW S, NEW s \in Seq(S), NEW e
    PROVE  /\ without(s, e) \in Seq(S)
           /\ ToSet(without(s, e)) = ToSet(s) \ {e}
           /\ IsInjective(s) => IsInjective(without(s, e))
<1>1. ToSet(s) \cap (ToSet(s) \ {e}) = ToSet(s) \ {e} OBVIOUS
<1> QED BY <1>1, SelectedHolds DEF without

\* In a sequence that repeats nothing they close up.
LEMMA WithoutMiddle ==
    ASSUME NEW S, NEW a \in Seq(S), NEW b \in Seq(S), NEW e \in S, NEW s,
           s = (a \o <<e>>) \o b, IsInjective(s)
    PROVE  without(s, e) = a \o b
<1>. DEFINE T == ToSet(s) \ {e}
            u == a \o b
            A == Len(a)
            B == Len(b)
            h == [k \in 1 .. A + B |-> IF k <= A THEN k ELSE k + 1]
<1>1. A \in Nat /\ B \in Nat BY LenProperties
<1>2. /\ s \in Seq(S) /\ Len(s) = A + 1 + B /\ DOMAIN s = 1 .. A + 1 + B
      /\ \A i \in 1 .. A + 1 + B : s[i] = IF i <= A THEN a[i]
                                         ELSE IF i = A + 1 THEN e ELSE b[i - (A + 1)]
    <2>1. <<e>> \in Seq(S) /\ Len(<<e>>) = 1 /\ <<e>>[1] = e OBVIOUS
    <2>2. /\ a \o <<e>> \in Seq(S) /\ Len(a \o <<e>>) = A + 1
          /\ \A i \in 1 .. A + 1 : (a \o <<e>>)[i] = IF i <= A THEN a[i] ELSE <<e>>[i - A]
        BY <2>1, ConcatProperties
    <2>3. /\ s \in Seq(S) /\ Len(s) = A + 1 + B
          /\ \A i \in 1 .. A + 1 + B : s[i] = IF i <= A + 1 THEN (a \o <<e>>)[i]
                                             ELSE b[i - (A + 1)]
        BY <2>2, ConcatProperties
    <2>4. DOMAIN s = 1 .. A + 1 + B BY <2>3, LenProperties
    <2> HIDE DEF A, B
    <2>5. ASSUME NEW i \in 1 .. A + 1 + B
          PROVE  s[i] = IF i <= A THEN a[i] ELSE IF i = A + 1 THEN e ELSE b[i - (A + 1)]
        <3>1. CASE i <= A BY <1>1, <2>2, <2>3, <3>1
        <3>2. CASE i = A + 1
            <4>1. i - A = 1 /\ i \in 1 .. A + 1 /\ ~(i <= A) BY <1>1, <3>2
            <4> QED BY <1>1, <2>1, <2>2, <2>3, <3>2, <4>1
        <3>3. CASE i > A + 1 BY <1>1, <2>3, <3>3
        <3>4. i <= A \/ i = A + 1 \/ i > A + 1 BY <1>1
        <3> QED BY <3>1, <3>2, <3>3, <3>4
    <2> QED BY <2>3, <2>4, <2>5
<1>3. /\ u \in Seq(S) /\ Len(u) = A + B
      /\ \A k \in 1 .. A + B : u[k] = IF k <= A THEN a[k] ELSE b[k - A]
    BY ConcatProperties
<1> HIDE DEF u, A, B
<1>4. h \in [1 .. A + B -> 1 .. A + 1 + B]
    <2>1. \A k \in 1 .. A + B : (IF k <= A THEN k ELSE k + 1) \in 1 .. A + 1 + B BY <1>1
    <2> QED BY <2>1
<1>5. \A j, k \in 1 .. A + B : j < k => h[j] < h[k] BY <1>1
<1>6. ASSUME NEW k \in 1 .. A + B PROVE u[k] = s[h[k]]
    <2>1. CASE k <= A
        <3>1. h[k] = k /\ k \in 1 .. A + 1 + B BY <1>1, <2>1
        <3> HIDE DEF h
        <3> QED BY <1>2, <1>3, <2>1, <3>1
    <2>2. CASE ~(k <= A)
        <3>1. /\ h[k] = k + 1 /\ k + 1 \in 1 .. A + 1 + B /\ ~(k + 1 <= A) /\ k + 1 # A + 1
              /\ (k + 1) - (A + 1) = k - A
            BY <1>1, <2>2
        <3> HIDE DEF h
        <3>2. s[k + 1] = b[(k + 1) - (A + 1)] BY <1>2, <3>1
        <3> QED BY <1>3, <2>2, <3>1, <3>2
    <2> QED BY <2>1, <2>2
<1>7. ASSUME NEW i \in 1 .. A + 1 + B
      PROVE  s[i] \in T <=> \E k \in 1 .. A + B : h[k] = i
    <2>1. s[A + 1] = e /\ A + 1 \in 1 .. A + 1 + B
        <3>1. A + 1 \in 1 .. A + 1 + B /\ ~(A + 1 <= A) BY <1>1
        <3> QED BY <1>2, <3>1
    <2>2. s[i] \in T <=> i # A + 1
        <3>1. s[i] \in ToSet(s) BY <1>2 DEF ToSet
        <3>2. s[i] = e => i = A + 1 BY <1>2, <2>1 DEF IsInjective
        <3> QED BY <2>1, <3>1, <3>2
    <2>3. i # A + 1 <=> \E k \in 1 .. A + B : h[k] = i
        <3>1. CASE i <= A
            <4>1. i \in 1 .. A + B /\ h[i] = i /\ i # A + 1 BY <1>1, <3>1
            <4> QED BY <4>1
        <3>2. CASE i = A + 1
            <4>1. \A k \in 1 .. A + B : h[k] # A + 1 BY <1>1
            <4> QED BY <3>2, <4>1
        <3>3. CASE i > A + 1
            <4>1. i - 1 \in 1 .. A + B /\ h[i - 1] = i /\ i # A + 1 BY <1>1, <3>3
            <4> QED BY <4>1
        <3> QED BY <1>1, <3>1, <3>2, <3>3
    <2> QED BY <2>2, <2>3
<1> HIDE DEF h, T
<1>8. Picks(h, u, s, Len(s), T) BY <1>2, <1>3, <1>4, <1>5, <1>6, <1>7 DEF Picks
<1>9. selected(s, T) = u BY <1>2, <1>3, <1>8, SelectedUnique
<1> QED BY <1>9 DEF T, u, without

(***************************************************************************)
(* Loops.                                                                  *)
(***************************************************************************)
\* What holds at first and is kept by each round holds after every round.
LEMMA EveryRound ==
    ASSUME NEW P, NEW len \in Nat, 0 \in P,
           \A n \in 0 .. len : n \in P /\ n # len => n + 1 \in P
    PROVE  \A n \in 0 .. len : n \in P
<1>. DEFINE failing == {n \in 0 .. len : n \notin P}
<1>1. ASSUME failing # {} PROVE FALSE
    <2>1. failing \subseteq Nat OBVIOUS
    <2>2. PICK m \in failing : \A n \in failing : m <= n
        <3> HIDE DEF failing
        <3> QED BY <1>1, <2>1, LeastNat
    <2>3. m \in 0 .. len /\ m \notin P /\ m # 0 OBVIOUS
    <2>4. m - 1 \in 0 .. len /\ m - 1 # len /\ (m - 1) + 1 = m BY <2>3
    <2>5. m - 1 \notin P BY <2>3, <2>4
    <2>6. m - 1 \in failing BY <2>4, <2>5
    <2> HIDE DEF failing
    <2> QED BY <2>2, <2>4, <2>6
<1> QED BY <1>1

\* The values of a loop variable that starts with base and is set by step in round n.
Rounds(f, base, step, len) ==
    /\ DOMAIN f = 0 .. len
    /\ f[0] = base
    /\ \A n \in 1 .. len : f[n] = step[<<f[n - 1], n>>]

\* A loop whose body is defined for every value in D has such values.
LEMMA RoundsExist ==
    ASSUME NEW D, NEW base \in D, NEW len \in Nat, NEW step \in [D \X (1 .. len) -> D]
    PROVE  \E f \in [0 .. len -> D] : Rounds(f, base, step, len)
<1>. DEFINE P == {m \in 0 .. len : \E f \in [0 .. m -> D] :
                    f[0] = base /\ \A n \in 1 .. m : f[n] = step[<<f[n - 1], n>>]}
<1>1. 0 \in P
    <2>1. [n \in 0 .. 0 |-> base] \in [0 .. 0 -> D] OBVIOUS
    <2>2. \A n \in 1 .. 0 : FALSE OBVIOUS
    <2>3. 0 \in 0 .. 0 /\ 0 \in 0 .. len OBVIOUS
    <2>4. [n \in 0 .. 0 |-> base][0] = base BY <2>3
    <2> QED BY <2>1, <2>2, <2>3, <2>4
<1>2. ASSUME NEW m \in 0 .. len, m \in P, m # len PROVE m + 1 \in P
    <2>1. PICK f \in [0 .. m -> D] : f[0] = base /\ \A n \in 1 .. m : f[n] = step[<<f[n - 1], n>>]
        BY <1>2
    <2>. DEFINE g == [n \in 0 .. m + 1 |-> IF n = m + 1 THEN step[<<f[m], m + 1>>] ELSE f[n]]
    <2>2. m \in Nat /\ m + 1 \in 1 .. len /\ m + 1 \in 0 .. len BY <1>2
    <2>3. f[m] \in D BY <2>1, <2>2
    <2>4. step[<<f[m], m + 1>>] \in D BY <2>2, <2>3
    <2>5. m \in 0 .. m + 1 /\ 0 \in 0 .. m BY <2>2
    <2>6. \A n \in 0 .. m : n \in 0 .. m + 1 /\ n # m + 1 BY <2>2
    <2>7. m + 1 \in 0 .. m + 1 BY <2>2
    <2>8. \A n \in 0 .. m + 1 : n # m + 1 => n \in 0 .. m BY <2>2
    <2>9. g \in [0 .. m + 1 -> D]
        <3>1. ASSUME NEW n \in 0 .. m + 1
              PROVE  (IF n = m + 1 THEN step[<<f[m], m + 1>>] ELSE f[n]) \in D
            BY <2>4, <2>8
        <3> QED BY <3>1
    <2>10. g[m + 1] = step[<<f[m], m + 1>>] BY <2>7
    <2>11. \A n \in 0 .. m : g[n] = f[n] BY <2>6
    <2> HIDE DEF g, P
    <2>12. g[0] = base BY <2>1, <2>5, <2>11
    <2>13. ASSUME NEW n \in 1 .. m + 1 PROVE g[n] = step[<<g[n - 1], n>>]
        <3>1. CASE n = m + 1
            <4>1. n - 1 = m /\ m \in 0 .. m BY <2>2, <3>1
            <4>2. g[n - 1] = f[m] BY <2>11, <4>1
            <4> QED BY <2>10, <3>1, <4>2
        <3>2. CASE n # m + 1
            <4>1. n \in 1 .. m /\ n \in 0 .. m /\ n - 1 \in 0 .. m BY <2>2, <3>2
            <4>2. f[n] = step[<<f[n - 1], n>>] BY <2>1, <4>1
            <4>3. g[n] = f[n] /\ g[n - 1] = f[n - 1] BY <2>11, <4>1
            <4> QED BY <4>2, <4>3
        <3> QED BY <3>1, <3>2
    <2>14. \E h \in [0 .. m + 1 -> D] :
              h[0] = base /\ \A n \in 1 .. m + 1 : h[n] = step[<<h[n - 1], n>>]
        BY <2>9, <2>12, <2>13
    <2> QED BY <2>2, <2>14 DEF P
<1>3. len \in P
    <2> HIDE DEF P
    <2>1. \A n \in 0 .. len : n \in P /\ n # len => n + 1 \in P BY <1>2
    <2>2. \A n \in 0 .. len : n \in P BY <1>1, <2>1, EveryRound
    <2> QED BY <2>2
<1>4. PICK f \in [0 .. len -> D] :
          f[0] = base /\ \A n \in 1 .. len : f[n] = step[<<f[n - 1], n>>]
    BY <1>3
<1>5. DOMAIN f = 0 .. len OBVIOUS
<1> QED BY <1>4, <1>5 DEF Rounds

(***************************************************************************)
(* FlattenSeq.                                                             *)
(***************************************************************************)
\* The joins of the first sequences of ss, and the equation that FlattenSeq solves.
Joins(f, ss, S) ==
    /\ f \in [0 .. Len(ss) -> Seq(S)]
    /\ f[0] = <<>>
    /\ \A n \in 1 .. Len(ss) : f[n] = f[n - 1] \o ss[n]

flattens(g, ss) ==
    g = [i \in 1 .. Len(ss) |-> IF i = 1 THEN ss[i] ELSE g[i - 1] \o ss[i]]

\* There are such joins.
LEMMA JoinsExist ==
    ASSUME NEW S, NEW ss \in Seq(Seq(S))
    PROVE  \E f : Joins(f, ss, S)
<1>. DEFINE step == [p \in Seq(S) \X (1 .. Len(ss)) |-> p[1] \o ss[p[2]]]
<1>1. Len(ss) \in Nat /\ \A n \in 1 .. Len(ss) : ss[n] \in Seq(S)
    BY LenProperties, ElementOfSeq
<1>2. step \in [Seq(S) \X (1 .. Len(ss)) -> Seq(S)]
    <2>1. ASSUME NEW p \in Seq(S) \X (1 .. Len(ss)) PROVE p[1] \o ss[p[2]] \in Seq(S)
        <3>1. p[1] \in Seq(S) /\ ss[p[2]] \in Seq(S) BY <1>1
        <3> QED BY <3>1, ConcatProperties
    <2> QED BY <2>1
<1>3. \A t \in Seq(S), n \in 1 .. Len(ss) : step[<<t, n>>] = t \o ss[n] OBVIOUS
<1> HIDE DEF step
<1>4. <<>> \in Seq(S) BY EmptySeq
<1>5. PICK f \in [0 .. Len(ss) -> Seq(S)] : Rounds(f, <<>>, step, Len(ss))
    BY <1>1, <1>2, <1>4, RoundsExist
<1>6. ASSUME NEW n \in 1 .. Len(ss) PROVE f[n] = f[n - 1] \o ss[n]
    <2>1. n - 1 \in 0 .. Len(ss) BY <1>1
    <2>2. f[n - 1] \in Seq(S) BY <2>1
    <2> QED BY <1>3, <1>5, <2>2 DEF Rounds
<1> QED BY <1>5, <1>6 DEF Joins, Rounds

\* The last of the joins is the flattened sequence.
LEMMA FlattenIsLastJoin ==
    ASSUME NEW S, NEW ss \in Seq(Seq(S)), NEW f, Joins(f, ss, S)
    PROVE  FlattenSeq(ss) = f[Len(ss)]
<1>1. Len(ss) \in Nat /\ \A n \in 1 .. Len(ss) : ss[n] \in Seq(S)
    BY LenProperties, ElementOfSeq
<1>2. CASE Len(ss) = 0
    <2>1. ss = <<>> BY <1>2, EmptySeq
    <2> QED BY <1>2, <2>1 DEF Joins, FlattenSeq
<1>3. CASE Len(ss) # 0
    <2>. DEFINE h == [i \in 1 .. Len(ss) |-> f[i]]
                g == CHOOSE g : flattens(g, ss)
    <2>1. flattens(h, ss)
        <3>1. ASSUME NEW i \in 1 .. Len(ss)
              PROVE  f[i] = IF i = 1 THEN ss[i] ELSE h[i - 1] \o ss[i]
            <4>1. f[i] = f[i - 1] \o ss[i] BY DEF Joins
            <4>2. CASE i = 1
                <5>1. f[i - 1] = <<>> BY <4>2 DEF Joins
                <5>2. <<>> \o ss[i] = ss[i] BY <1>1, ConcatEmptySeq
                <5> QED BY <4>1, <4>2, <5>1, <5>2
            <4>3. CASE i # 1
                <5>1. i - 1 \in 1 .. Len(ss) BY <1>1, <4>3
                <5> QED BY <4>1, <4>3, <5>1
            <4> QED BY <4>2, <4>3
        <3>2. h = [i \in 1 .. Len(ss) |-> IF i = 1 THEN ss[i] ELSE h[i - 1] \o ss[i]]
            BY <3>1
        <3> HIDE DEF h
        <3> QED BY <3>2 DEF flattens
    <2>2. flattens(g, ss) BY <2>1
    <2>3. FlattenSeq(ss) = g[Len(ss)] BY <1>3 DEF FlattenSeq, flattens
    <2> HIDE DEF g, h
    <2>4. \A i \in 1 .. Len(ss) : g[i] = IF i = 1 THEN ss[i] ELSE g[i - 1] \o ss[i]
        BY <2>2 DEF flattens
    <2>. DEFINE P == {i \in 0 .. Len(ss) : i = 0 \/ g[i] = f[i]}
    <2>5. ASSUME NEW n \in 0 .. Len(ss), n \in P, n # Len(ss) PROVE n + 1 \in P
        <3>1. n + 1 \in 1 .. Len(ss) /\ (n + 1) - 1 = n BY <1>1, <2>5
        <3>2. f[n + 1] = f[n] \o ss[n + 1] BY <3>1 DEF Joins
        <3>3. CASE n = 0
            <4>1. f[n] = <<>> /\ g[n + 1] = ss[n + 1] BY <2>4, <3>1, <3>3 DEF Joins
            <4>2. <<>> \o ss[n + 1] = ss[n + 1] BY <1>1, <3>1, ConcatEmptySeq
            <4>3. g[n + 1] = f[n + 1] BY <3>2, <4>1, <4>2
            <4> QED BY <3>1, <4>3
        <3>4. CASE n # 0
            <4>1. g[n] = f[n] BY <2>5, <3>4
            <4>2. g[n + 1] = g[n] \o ss[n + 1]
                <5>1. n + 1 # 1 BY <3>4
                <5> QED BY <2>4, <3>1, <5>1
            <4>3. g[n + 1] = f[n + 1] BY <3>2, <4>1, <4>2
            <4> QED BY <3>1, <4>3
        <3> QED BY <3>3, <3>4
    <2>6. 0 \in P BY <1>1
    <2>7. Len(ss) \in P
        <3> HIDE DEF P
        <3>1. \A n \in 0 .. Len(ss) : n \in P BY <1>1, <2>5, <2>6, EveryRound
        <3> QED BY <1>1, <3>1
    <2> QED BY <1>3, <2>3, <2>7
<1> QED BY <1>2, <1>3

\* What FlattenSeq makes of no sequence and of one more.
LEMMA FlattenGrows ==
    ASSUME NEW S, NEW ss \in Seq(Seq(S)), NEW x \in Seq(S)
    PROVE  /\ FlattenSeq(ss) \in Seq(S)
           /\ FlattenSeq(Append(ss, x)) = FlattenSeq(ss) \o x
<1>. DEFINE tt == Append(ss, x)
<1>1. /\ tt \in Seq(Seq(S)) /\ Len(tt) = Len(ss) + 1 /\ Len(ss) \in Nat
      /\ \A i \in 1 .. Len(ss) : tt[i] = ss[i]
      /\ tt[Len(ss) + 1] = x
    BY AppendProperties, LenProperties
<1> HIDE DEF tt
<1>2. PICK f : Joins(f, ss, S) BY JoinsExist
<1>. DEFINE g == [n \in 0 .. Len(tt) |-> IF n = Len(tt) THEN f[Len(ss)] \o x ELSE f[n]]
<1>3. f[Len(ss)] \in Seq(S)
    <2>1. Len(ss) \in 0 .. Len(ss) BY <1>1
    <2>2. f \in [0 .. Len(ss) -> Seq(S)] BY <1>2 DEF Joins
    <2> HIDE DEF Joins, g
    <2> QED BY <2>1, <2>2
<1>4. f[Len(ss)] \o x \in Seq(S) BY <1>3, ConcatProperties
<1>5. Joins(g, tt, S)
    <2>1. g \in [0 .. Len(tt) -> Seq(S)] BY <1>1, <1>2, <1>4 DEF Joins
    <2>2. g[0] = <<>> BY <1>1, <1>2 DEF Joins
    <2>3. ASSUME NEW n \in 1 .. Len(tt) PROVE g[n] = g[n - 1] \o tt[n]
        <3>1. n \in 0 .. Len(tt) /\ n - 1 \in 0 .. Len(tt) /\ n - 1 # Len(tt) BY <1>1
        <3>2. g[n - 1] = f[n - 1] BY <3>1
        <3>3. CASE n = Len(tt)
            <4>1. n - 1 = Len(ss) /\ tt[n] = x BY <1>1, <3>3
            <4>2. g[n] = f[Len(ss)] \o x BY <3>1, <3>3
            <4> QED BY <3>2, <4>1, <4>2
        <3>4. CASE n # Len(tt)
            <4>1. n \in 1 .. Len(ss) BY <1>1, <3>4
            <4>2. f[n] = f[n - 1] \o tt[n] BY <1>1, <1>2, <4>1 DEF Joins
            <4>3. g[n] = f[n] BY <3>1, <3>4
            <4> QED BY <3>2, <4>2, <4>3
        <3> QED BY <3>3, <3>4
    <2> HIDE DEF g
    <2> QED BY <2>1, <2>2, <2>3 DEF Joins
<1>6. g[Len(tt)] = f[Len(ss)] \o x BY <1>1
<1> HIDE DEF g
<1>7. FlattenSeq(ss) = f[Len(ss)] /\ FlattenSeq(tt) = g[Len(tt)]
    BY <1>1, <1>2, <1>5, FlattenIsLastJoin
<1> QED BY <1>3, <1>6, <1>7 DEF tt

\* FlattenSeq of no sequence.
LEMMA FlattenEmpty == FlattenSeq(<<>>) = <<>>
BY EmptySeq DEF FlattenSeq
=============================================================================

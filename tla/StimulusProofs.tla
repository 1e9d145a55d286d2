-------------------------- MODULE StimulusProofs --------------------------
(* That the controllers of a page follow its document, for every document, *)
(* every set of controllers and any number of changes between deliveries.  *)
EXTENDS Stimulus, WellFoundedInduction, TLAPS

----------------------------------------------------------------------------
(* Induction over 0..n, for sets, and the functions defined by it.         *)

\* A set with 0 that is closed under successor holds all of 0..n.
LEMMA Reached ==
    ASSUME NEW n \in Nat, NEW S, 0 \in S,
           \A k \in 0..(n - 1) : k \in S => k + 1 \in S
    PROVE  \A k \in 0..n : k \in S
<1> DEFINE Missing == {k \in 0..n : k \notin S}
<1>1. SUFFICES ASSUME Missing # {} PROVE FALSE
  OBVIOUS
<1>2. Missing \subseteq Nat
  OBVIOUS
<1>3. PICK x \in Missing : \A y \in Missing : ~ (<<y, x>> \in OpToRel(<, Nat))
  BY <1>1, <1>2, WFMin, NatLessThanWellFounded
<1>4. \A y \in Missing : ~ (y < x)
  BY <1>2, <1>3 DEF OpToRel
<1>5. x # 0 /\ x \in 0..n
  OBVIOUS
<1>6. x - 1 \in 0..(n - 1) /\ x - 1 \in 0..n /\ x - 1 < x
  BY <1>5
<1>7. x - 1 \in S
  BY <1>4, <1>6
<1>8. x \in S
  BY <1>5, <1>6, <1>7
<1>9. QED
  BY <1>8

\* The least number with a property, when n has it.
LEMMA Least ==
    ASSUME NEW n \in Nat, NEW S, n \in S
    PROVE  \E k \in 0..n : k \in S /\ \A j \in 0..(k - 1) : j \notin S
<1> DEFINE None0 == {k \in 0..n : \A j \in 0..k : j \notin S}
<1>1. SUFFICES ASSUME \A k \in 0..n : k \in S => \E j \in 0..(k - 1) : j \in S
               PROVE  FALSE
  OBVIOUS
<1>2. 0 \in None0
  BY <1>1
<1>3. ASSUME NEW k \in 0..(n - 1), k \in None0 PROVE k + 1 \in None0
  <2>1. k + 1 \in 0..n /\ \A j \in 0..k : j \notin S
    BY <1>3
  <2>2. k + 1 \notin S
    BY <1>1, <2>1
  <2>3. QED
    BY <2>1, <2>2
<1>4. \A k \in 0..n : k \in None0
  <2> HIDE DEF None0
  <2> QED
    BY <1>2, <1>3, Reached
<1>5. QED
  BY <1>4

\* The function over 0..n that starts with base and goes on by Step.
Steps(n, S, Step) == Step \in [S \X (1..n) -> S]

Follows(g, n, S, base, Step) ==
    /\ g \in [0..n -> S]
    /\ g[0] = base
    /\ \A k \in 1..n : g[k] = Step[<<g[k - 1], k>>]

\* A function that steps through a set stays in it, and is what its definition says.
LEMMA Defined ==
    ASSUME NEW n \in Nat, NEW S, NEW base \in S, NEW Step, Steps(n, S, Step)
    PROVE  \E g : Follows(g, n, S, base, Step)
<1> DEFINE P(m, g) == Follows(g, m, S, base, Step)
           Good == {m \in 0..n : \E g : P(m, g)}
<1>1. 0 \in Good
  <2>1. P(0, [k \in 0..0 |-> base])
    BY DEF Follows
  <2>2. QED
    <3> HIDE DEF P
    <3> QED
      BY <2>1
<1>2. ASSUME NEW m \in 0..(n - 1), m \in Good PROVE m + 1 \in Good
  <2>1. PICK g : P(m, g)
    BY <1>2
  <2> DEFINE h == [k \in 0..(m + 1) |-> IF k = m + 1 THEN Step[<<g[m], m + 1>>] ELSE g[k]]
  <2>2. g[m] \in S /\ m + 1 \in 1..n
    BY <2>1 DEF Follows
  <2>3. Step[<<g[m], m + 1>>] \in S
    BY <2>2 DEF Steps
  <2>4. h \in [0..(m + 1) -> S]
    BY <2>1, <2>3 DEF Follows
  <2>5. h[0] = base
    BY <2>1 DEF Follows
  <2>6. ASSUME NEW k \in 1..(m + 1) PROVE h[k] = Step[<<h[k - 1], k>>]
    <3>1. CASE k = m + 1
      <4>1. h[k - 1] = g[m] /\ h[k] = Step[<<g[m], m + 1>>]
        BY <3>1
      <4>2. QED
        BY SMTT(60), <3>1, <4>1
    <3>2. CASE k # m + 1
      <4>1. k \in 1..m /\ h[k - 1] = g[k - 1] /\ h[k] = g[k]
        BY <3>2
      <4>2. QED
        BY <2>1, <4>1 DEF Follows
    <3>3. QED
      BY <3>1, <3>2
  <2>7. P(m + 1, h)
    <3> HIDE DEF h
    <3> QED
      BY <2>4, <2>5, <2>6 DEF Follows
  <2>8. m + 1 \in 0..n
    OBVIOUS
  <2>9. QED
    <3> HIDE DEF P, h
    <3> QED
      BY <2>7, <2>8
<1>3. \A k \in 0..n : k \in Good
  <2> HIDE DEF Good
  <2> QED
    BY SMTT(60), <1>1, <1>2, Reached
<1>4. QED
  BY <1>3

----------------------------------------------------------------------------
(* The tokens of an element, before and after.                             *)

\* FirstDifferingIndex: before it, the lists are the same.
LEMMA FirstDiffers ==
    ASSUME NEW old \in Tokens, NEW new \in Tokens
    PROVE  LET k == FirstDifferingIndex(old, new)
           IN  /\ k \in 1..(Len(old) + 1) /\ k <= Len(new) + 1
               /\ SubSeq(old, 1, k - 1) = SubSeq(new, 1, k - 1)
               /\ k <= Len(old) /\ k <= Len(new) => old[k] # new[k]
<1> DEFINE L == Len(old)
           S == {k \in 0..L : k = L \/ k >= Len(new) \/ old[k + 1] # new[k + 1]}
<1>1. L \in Nat /\ Len(new) \in Nat /\ L \in S
  BY DEF Tokens
<1>2. PICK k \in 0..L : k \in S /\ \A j \in 0..(k - 1) : j \notin S
  <2> HIDE DEF S, L
  <2> QED
    BY <1>1, Least
<1>3. \A j \in 0..(k - 1) : j < Len(new) /\ old[j + 1] = new[j + 1]
  <2> SUFFICES ASSUME NEW j \in 0..(k - 1)
               PROVE  j < Len(new) /\ old[j + 1] = new[j + 1]
    OBVIOUS
  <2>1. j \notin S
    BY <1>2
  <2>2. j \in 0..L /\ j \in Nat
    BY <1>1
  <2>3. ~ (j = L \/ j >= Len(new) \/ old[j + 1] # new[j + 1])
    BY <2>1, <2>2
  <2>4. QED
    BY <1>1, <2>2, <2>3
<1>4. k <= Len(new)
  <2>1. CASE k = 0
    BY <1>1, <2>1
  <2>2. CASE k # 0
    <3>1. k - 1 \in 0..(k - 1)
      BY <1>2, <2>2
    <3>2. QED
      BY <1>1, <1>2, <1>3, <3>1
  <2>3. QED
    BY <2>1, <2>2
<1>5. ASSUME NEW i \in 1..k PROVE old[i] = new[i]
  <2>1. i - 1 \in 0..(k - 1) /\ (i - 1) + 1 = i
    BY <1>1
  <2>2. old[(i - 1) + 1] = new[(i - 1) + 1]
    BY <1>3, <2>1
  <2>3. QED
    BY <2>1, <2>2
<1>6. SubSeq(old, 1, k) = SubSeq(new, 1, k)
  BY SMTT(30), <1>1, <1>4, <1>5 DEF Tokens
<1>7. k + 1 <= Len(old) /\ k + 1 <= Len(new) => old[k + 1] # new[k + 1]
  <2>1. k = L \/ k >= Len(new) \/ old[k + 1] # new[k + 1]
    BY <1>2
  <2>2. QED
    BY <1>1, <2>1
<1> DEFINE Differs(i) ==
        /\ i <= Len(new) + 1
        /\ SubSeq(old, 1, i - 1) = SubSeq(new, 1, i - 1)
        /\ i <= Len(old) /\ i <= Len(new) => old[i] # new[i]
<1>8. k + 1 \in 1..(Len(old) + 1) /\ Differs(k + 1)
  <2>1. (k + 1) - 1 = k /\ k \in Nat
    BY <1>1
  <2>2. k + 1 \in 1..(Len(old) + 1) /\ k + 1 <= Len(new) + 1
    BY <1>1, <1>4
  <2>3. SubSeq(old, 1, (k + 1) - 1) = SubSeq(new, 1, (k + 1) - 1)
    BY <1>6, <2>1
  <2>4. QED
    BY <1>7, <2>2, <2>3
<1>9. FirstDifferingIndex(old, new) = CHOOSE i \in 1..(Len(old) + 1) : Differs(i)
  BY DEF FirstDifferingIndex
<1>10. \E i \in 1..(Len(old) + 1) : Differs(i)
  BY SMTT(60), <1>8
<1> DEFINE c == CHOOSE i \in 1..(Len(old) + 1) : Differs(i)
<1>11. c \in 1..(Len(old) + 1) /\ Differs(c)
  <2> HIDE DEF Differs
  <2> QED
    BY <1>10
<1>12. QED
  BY <1>9, <1>11

\* A list is what comes before an index and what comes from there on.
LEMMA Split ==
    ASSUME NEW s \in Tokens, NEW k \in 1..(Len(s) + 1)
    PROVE  ToSet(s) = ToSet(SubSeq(s, 1, k - 1)) \union ToSet(SubSeq(s, k, Len(s)))
<1>1. Len(s) \in Nat /\ DOMAIN s = 1..Len(s)
  BY DEF Tokens
<1> DEFINE a == SubSeq(s, 1, k - 1)
           b == SubSeq(s, k, Len(s))
<1>2. DOMAIN a = 1..(k - 1) /\ \A i \in 1..(k - 1) : a[i] = s[i]
  BY <1>1 DEF Tokens
<1>3. /\ DOMAIN b = 1..(Len(s) - k + 1)
      /\ \A i \in 1..(Len(s) - k + 1) : b[i] = s[k + i - 1]
  BY <1>1 DEF Tokens
<1>4. ASSUME NEW i \in 1..Len(s) PROVE s[i] \in ToSet(a) \union ToSet(b)
  <2>1. CASE i < k
    <3>1. i \in 1..(k - 1)
      BY <1>1, <2>1
    <3>2. QED
      BY <1>2, <3>1 DEF ToSet
  <2>2. CASE i >= k
    <3>1. i - k + 1 \in 1..(Len(s) - k + 1) /\ k + (i - k + 1) - 1 = i
      BY <1>1, <2>2
    <3>2. b[i - k + 1] = s[i]
      BY <1>3, <3>1
    <3>3. QED
      BY <1>3, <3>1, <3>2 DEF ToSet
  <2>3. QED
    BY <1>1, <2>1, <2>2
<1>5. ToSet(s) \subseteq ToSet(a) \union ToSet(b)
  BY <1>1, <1>4 DEF ToSet
<1>6. ToSet(a) \subseteq ToSet(s)
  BY <1>1, <1>2 DEF ToSet
<1>7. ToSet(b) \subseteq ToSet(s)
  <2>1. \A i \in 1..(Len(s) - k + 1) : k + i - 1 \in 1..Len(s)
    BY <1>1
  <2>2. QED
    BY <1>1, <1>3, <2>1 DEF ToSet
<1>8. QED
  BY <1>5, <1>6, <1>7

\* It does not matter from which side one looks for it.
LEMMA FirstDiffersSame ==
    ASSUME NEW old \in Tokens, NEW new \in Tokens
    PROVE  FirstDifferingIndex(old, new) = FirstDifferingIndex(new, old)
<1>1. ASSUME NEW a \in Tokens, NEW b \in Tokens, NEW i \in Nat, NEW k \in Nat,
             i < k, 1 <= i, k <= Len(a) + 1, k <= Len(b) + 1,
             SubSeq(a, 1, k - 1) = SubSeq(b, 1, k - 1)
      PROVE  i <= Len(a) /\ i <= Len(b) /\ a[i] = b[i]
  <2>1. Len(a) \in Nat /\ Len(b) \in Nat
    BY DEF Tokens
  <2>2. i <= Len(a) /\ i <= Len(b) /\ i \in 1..(k - 1)
    BY <1>1, <2>1
  <2>3. SubSeq(a, 1, k - 1)[i] = a[i] /\ SubSeq(b, 1, k - 1)[i] = b[i]
    BY <1>1, <2>1, <2>2 DEF Tokens
  <2>4. QED
    BY <1>1, <2>2, <2>3
<1> DEFINE i == FirstDifferingIndex(old, new)
           k == FirstDifferingIndex(new, old)
<1>2. /\ i \in 1..(Len(old) + 1) /\ i <= Len(new) + 1
      /\ SubSeq(old, 1, i - 1) = SubSeq(new, 1, i - 1)
      /\ i <= Len(old) /\ i <= Len(new) => old[i] # new[i]
  BY FirstDiffers
<1>3. /\ k \in 1..(Len(new) + 1) /\ k <= Len(old) + 1
      /\ SubSeq(new, 1, k - 1) = SubSeq(old, 1, k - 1)
      /\ k <= Len(new) /\ k <= Len(old) => new[k] # old[k]
  BY FirstDiffers
<1>4. Len(old) \in Nat /\ Len(new) \in Nat
  BY DEF Tokens
<1> HIDE DEF i, k
<1>5. i \in Nat /\ k \in Nat /\ 1 <= i /\ 1 <= k /\ i <= Len(old) + 1 /\ k <= Len(new) + 1
  BY <1>2, <1>3, <1>4
<1>6. ~ (i < k)
  BY <1>1, <1>2, <1>3, <1>5
<1>7. ~ (k < i)
  BY <1>1, <1>2, <1>3, <1>5
<1>8. i = k
  BY <1>5, <1>6, <1>7
<1>9. QED
  BY <1>8 DEF i, k

----------------------------------------------------------------------------
(* What an observer knows, and the scopes that follow from it.             *)

\* An element is known with one list of tokens.
IsMap(map) ==
    /\ map \subseteq Element \X Tokens
    /\ \A a, b \in map : a[1] = b[1] => a = b

\* The contexts the router has for what it knows.
Scopes(map) ==
    {c \in Context : c[2] \in loaded /\ c[2] \in ToSet(TokensOf(map, c[1]))}

\* The tokens an element is known by.
LEMMA TokensOfMap ==
    ASSUME NEW map, IsMap(map)
    PROVE  /\ \A a \in map : TokensOf(map, a[1]) = a[2] /\ a[2] \in Tokens
           /\ \A e : ~Knows(map, e) => TokensOf(map, e) = <<>>
           /\ \A e : TokensOf(map, e) \in Tokens
<1>1. ASSUME NEW a \in map PROVE TokensOf(map, a[1]) = a[2] /\ a[2] \in Tokens
  <2> DEFINE q == CHOOSE p \in map : p[1] = a[1]
  <2>1. q \in map /\ q[1] = a[1]
    OBVIOUS
  <2>2. q = a
    BY <2>1 DEF IsMap
  <2>3. Knows(map, a[1])
    BY DEF Knows
  <2>4. TokensOf(map, a[1]) = q[2]
    BY <2>3 DEF TokensOf
  <2>5. a[2] \in Tokens
    BY DEF IsMap
  <2>6. QED
    BY <2>2, <2>4, <2>5
<1>2. ASSUME NEW e, ~Knows(map, e) PROVE TokensOf(map, e) = <<>>
  BY <1>2 DEF TokensOf
<1>3. <<>> \in Tokens
  BY DEF Tokens
<1>4. ASSUME NEW e PROVE TokensOf(map, e) \in Tokens
  <2>1. CASE Knows(map, e)
    BY <1>1, <2>1 DEF Knows
  <2>2. CASE ~Knows(map, e)
    BY <1>2, <1>3, <2>2
  <2>3. QED
    BY <2>1, <2>2
<1>5. QED
  BY <1>1, <1>2, <1>4

\* The scopes that are lost are the tokens of the old list from the first index
\* that differs, those before it left out.
LEMMA LostIs ==
    ASSUME NEW map, NEW next, IsMap(map), IsMap(next)
    PROVE  Lost(map, next) =
             {c \in Context :
                 c[2] \in TokensFrom(TokensOf(map, c[1]),
                              FirstDifferingIndex(TokensOf(map, c[1]),
                                                  TokensOf(next, c[1])))}
<1> DEFINE From(e) == TokensFrom(TokensOf(map, e),
                          FirstDifferingIndex(TokensOf(map, e), TokensOf(next, e)))
<1>1. Lost(map, next) = UNION {{e} \X From(e) : e \in {p[1] : p \in map}}
  BY DEF Lost
<1>2. ASSUME NEW e
      PROVE  From(e) \subseteq Identifier /\ (~Knows(map, e) => From(e) = {})
  <2> DEFINE t == TokensOf(map, e)
             k == FirstDifferingIndex(t, TokensOf(next, e))
  <2>1. t \in Tokens /\ TokensOf(next, e) \in Tokens
    BY TokensOfMap
  <2>2. k \in 1..(Len(t) + 1)
    BY <2>1, FirstDiffers
  <2>3. ToSet(SubSeq(t, k, Len(t))) \subseteq ToSet(t)
    <3> HIDE DEF t, k
    <3> QED
      BY <2>1, <2>2, Split
  <2>4. ToSet(t) \subseteq Identifier
    BY <2>1 DEF ToSet, Tokens
  <2>5. ~Knows(map, e) => ToSet(t) = {}
    BY TokensOfMap DEF ToSet
  <2>6. From(e) \subseteq ToSet(SubSeq(t, k, Len(t)))
    BY DEF TokensFrom
  <2>7. QED
    BY <2>3, <2>4, <2>5, <2>6
<1> HIDE DEF From
<1>3. \A a \in map : a \in Element \X Tokens
  BY DEF IsMap
<1>4. ASSUME NEW c PROVE c \in Lost(map, next) <=> c \in Context /\ c[2] \in From(c[1])
  <2>1. ASSUME c \in Lost(map, next) PROVE c \in Context /\ c[2] \in From(c[1])
    <3>1. PICK a \in map : c \in {a[1]} \X From(a[1])
      BY <1>1, <2>1
    <3>2. c = <<a[1], c[2]>> /\ c[2] \in From(a[1]) /\ a[1] \in Element
      BY <1>3, <3>1
    <3>3. c[2] \in Identifier
      BY <1>2, <3>2
    <3>4. QED
      BY <3>2, <3>3 DEF Context
  <2>2. ASSUME c \in Context, c[2] \in From(c[1]) PROVE c \in Lost(map, next)
    <3>1. Knows(map, c[1])
      BY <1>2, <2>2
    <3>2. PICK a \in map : a[1] = c[1]
      BY <3>1 DEF Knows
    <3>3. c = <<c[1], c[2]>>
      BY <2>2 DEF Context
    <3>4. c \in {a[1]} \X From(a[1])
      BY <2>2, <3>2, <3>3
    <3>5. QED
      BY <1>1, <3>4
  <2>3. QED
    BY <2>1, <2>2
<1>5. QED
  BY <1>4 DEF From

\* Every scope is one of an element that is known.
LEMMA ScopesKnown ==
    ASSUME NEW map, IsMap(map), NEW c \in Scopes(map)
    PROVE  Knows(map, c[1])
<1>1. SUFFICES ASSUME ~Knows(map, c[1]) PROVE FALSE
  OBVIOUS
<1>2. TokensOf(map, c[1]) = <<>>
  BY <1>1, TokensOfMap
<1>3. QED
  BY <1>2 DEF Scopes, ToSet

\* What the router does to the contexts when it learns of another map: those
\* that are lost go, those that are gained were not there, and what is left are
\* the scopes of the new map.
LEMMA Rerouted ==
    ASSUME NEW map, NEW next, IsMap(map), IsMap(next)
    PROVE  LET lost   == OfLoaded(Lost(map, next))
               gained == OfLoaded(Lost(next, map))
           IN  /\ lost \subseteq Scopes(map)
               /\ gained \subseteq Scopes(next)
               /\ Scopes(next) = (Scopes(map) \ lost) \union gained
               /\ (Scopes(map) \ lost) \intersect gained = {}
               /\ \A c \in Scopes(map) : ~Knows(next, c[1]) => c \in lost
<1> DEFINE lost   == OfLoaded(Lost(map, next))
           gained == OfLoaded(Lost(next, map))
<1>1. ASSUME NEW c \in Context, c[2] \in loaded
      PROVE  /\ c \in lost => c \in Scopes(map)
             /\ c \in gained => c \in Scopes(next)
             /\ c \in Scopes(next) <=> (c \in Scopes(map) /\ c \notin lost) \/ c \in gained
             /\ ~ (c \in Scopes(map) /\ c \notin lost /\ c \in gained)
             /\ c \in Scopes(map) /\ ~Knows(next, c[1]) => c \in lost
  <2> DEFINE old == TokensOf(map, c[1])
             new == TokensOf(next, c[1])
             k == FirstDifferingIndex(old, new)
             P == ToSet(SubSeq(old, 1, k - 1))
             A == ToSet(SubSeq(old, k, Len(old)))
             B == ToSet(SubSeq(new, k, Len(new)))
  <2>1. old \in Tokens /\ new \in Tokens
    BY TokensOfMap
  <2>2. /\ k \in 1..(Len(old) + 1) /\ k \in 1..(Len(new) + 1)
        /\ SubSeq(old, 1, k - 1) = SubSeq(new, 1, k - 1)
        /\ k = FirstDifferingIndex(new, old)
    <3> HIDE DEF old, new
    <3>1. Len(old) \in Nat /\ Len(new) \in Nat
      BY <2>1 DEF Tokens
    <3> QED
      BY SMTT(60), <2>1, <3>1, FirstDiffers, FirstDiffersSame
  <2>3. ToSet(old) = P \union A
    <3> HIDE DEF old, k
    <3> QED
      BY <2>1, <2>2, Split
  <2>4. ToSet(new) = P \union B
    <3> HIDE DEF old, new, k
    <3>1. ToSet(new) = ToSet(SubSeq(new, 1, k - 1)) \union B
      BY <2>1, <2>2, Split
    <3> QED
      BY <2>2, <3>1
  <2>5. c \in lost <=> c[2] \in A \ P
    BY <1>1, LostIs DEF OfLoaded, TokensFrom
  <2>6. c \in gained <=> c[2] \in B \ P
    <3>1. c \in gained <=> c[2] \in TokensFrom(new, k)
      BY <1>1, <2>2, LostIs DEF OfLoaded
    <3>2. TokensFrom(new, k) = B \ P
      BY <2>2 DEF TokensFrom
    <3> QED
      BY <3>1, <3>2
  <2>7. c \in Scopes(map) <=> c[2] \in ToSet(old)
    BY <1>1 DEF Scopes
  <2>8. c \in Scopes(next) <=> c[2] \in ToSet(new)
    BY <1>1 DEF Scopes
  <2>9. ~Knows(next, c[1]) => ToSet(new) = {}
    BY TokensOfMap DEF ToSet
  <2> HIDE DEF P, A, B, lost, gained
  <2>10. QED
    BY <2>3, <2>4, <2>5, <2>6, <2>7, <2>8, <2>9
<1>2. lost \subseteq Context /\ gained \subseteq Context
  BY LostIs DEF OfLoaded
<1>3. \A c \in lost \union gained \union Scopes(map) \union Scopes(next) :
         c \in Context /\ c[2] \in loaded
  BY <1>2 DEF OfLoaded, Scopes
<1> HIDE DEF lost, gained
<1>4. /\ lost \subseteq Scopes(map)
      /\ gained \subseteq Scopes(next)
      /\ Scopes(next) = (Scopes(map) \ lost) \union gained
      /\ (Scopes(map) \ lost) \intersect gained = {}
      /\ \A c \in Scopes(map) : ~Knows(next, c[1]) => c \in lost
  BY <1>1, <1>3
<1>5. QED
  BY <1>4 DEF lost, gained

RouterStates == [seen : SUBSET (Element \X Tokens), connected : SUBSET Context,
                 bound : SUBSET (Context \X (Element \X Tokens)),
                 created : SUBSET (Context \X Nat), touched : SUBSET Context]

\* What an observer finds when it starts.
LEMMA Refreshed ==
    ASSUME NEW root, NEW attribute \in [Element -> Tokens \union {None}]
    PROVE  /\ IsMap(Refresh(root, attribute))
           /\ Refresh(root, attribute) =
                {a \in Element \X Tokens : root \in path[a[1]] /\ a[2] = attribute[a[1]]}
           /\ \A e \in Element : Knows(Refresh(root, attribute), e)
                <=> root \in path[e] /\ attribute[e] # None
<1> DEFINE F == Refresh(root, attribute)
           G == {a \in Element \X Tokens : root \in path[a[1]] /\ a[2] = attribute[a[1]]}
<1>1. None \notin Tokens
  BY StimulusAssumption
<1>2. ASSUME NEW a \in F PROVE a \in G
  <2>1. PICK e \in Element : root \in path[e] /\ attribute[e] # None /\ a = <<e, attribute[e]>>
    BY <1>2 DEF Refresh, Match, Subtree
  <2>2. attribute[e] \in Tokens
    BY <2>1
  <2>3. QED
    BY <2>1, <2>2
<1>3. ASSUME NEW a \in G PROVE a \in F
  <2>1. a[1] \in Subtree(root) /\ attribute[a[1]] # None /\ a = <<a[1], attribute[a[1]]>>
    BY <1>1 DEF Subtree
  <2>2. QED
    BY <2>1 DEF Refresh, Match
<1>4. F = G
  BY <1>2, <1>3
<1>5. IsMap(G)
  BY DEF IsMap
<1>6. ASSUME NEW e \in Element, root \in path[e], attribute[e] # None
      PROVE  Knows(G, e)
  <2>1. <<e, attribute[e]>> \in G
    BY <1>6
  <2>2. QED
    BY <2>1 DEF Knows
<1>7. ASSUME NEW e \in Element, Knows(G, e)
      PROVE  root \in path[e] /\ attribute[e] # None
  BY <1>1, <1>7 DEF Knows
<1> HIDE DEF F, G
<1>8. QED
  BY <1>4, <1>5, <1>6, <1>7 DEF F, G

\* The bindings of contexts that connect: all the actions below each of them.
LEMMA BindAllIs ==
    ASSUME action \in [Element -> Tokens \union {None}], NEW cs \in SUBSET Context
    PROVE  /\ BindAll(cs) \in SUBSET (Context \X (Element \X Tokens))
           /\ \A b : b \in BindAll(cs) <=>
                 /\ b \in cs \X (Element \X Tokens)
                 /\ b[2] \in Refresh(b[1][1], action)
<1>1. \A c \in cs : Refresh(c[1], action) \subseteq Element \X Tokens
  BY Refreshed DEF IsMap
<1>2. QED
  BY <1>1 DEF BindAll

\* Contexts are only created for scopes that had none, and once.
LEMMA FetchedContexts ==
    ASSUME NEW known \in SUBSET (Context \X Nat), NEW cs \in SUBSET Context,
           \A k \in known : k[2] = 1
    PROVE  LET fetched == FetchContexts(known, cs)
           IN  /\ fetched \in SUBSET (Context \X Nat)
               /\ known \subseteq fetched
               /\ \A k \in fetched : k[2] = 1
               /\ \A c \in cs : <<c, 1>> \in fetched
<1> DEFINE new == {<<c, 1>> : c \in {x \in cs : \A k \in known : k[1] # x}}
<1>1. FetchContexts(known, cs) = known \union new
  BY DEF FetchContexts
<1>2. \A k \in new : k \in Context \X Nat /\ k[2] = 1
  OBVIOUS
<1>3. ASSUME NEW c \in cs PROVE <<c, 1>> \in known \union new
  <2>1. CASE \E k \in known : k[1] = c
    <3>1. PICK k \in known : k[1] = c
      BY <2>1
    <3>2. k = <<c, 1>>
      BY <3>1
    <3>3. QED
      BY <3>2
  <2>2. CASE \A k \in known : k[1] # c
    BY <2>2
  <2>3. QED
    BY <2>1, <2>2
<1> HIDE DEF new
<1>4. QED
  BY <1>1, <1>2, <1>3

\* One step of the router, for each field of its state.
LEMMA Routed ==
    ASSUME action \in [Element -> Tokens \union {None}],
           NEW s \in RouterStates, NEW map, IsMap(s.seen), IsMap(map)
    PROVE  LET lost   == OfLoaded(Lost(s.seen, map))
               gained == OfLoaded(Lost(map, s.seen))
               t      == Route(s, map)
           IN  /\ lost \in SUBSET Context /\ gained \in SUBSET Context
               /\ t.seen = map
               /\ t.connected = (s.connected \ lost) \union gained
               /\ t.bound = {b \in s.bound : b[1] \notin lost} \union BindAll(gained)
               /\ t.created = FetchContexts(s.created, gained)
               /\ t.touched = s.touched \union lost \union gained
               /\ (\A k \in s.created : k[2] = 1) => t \in RouterStates
<1> DEFINE lost   == OfLoaded(Lost(s.seen, map))
           gained == OfLoaded(Lost(map, s.seen))
           t      == Route(s, map)
           a      == [s EXCEPT !.seen = map]
           d      == DisconnectAll(a, lost)
<1>1. lost \in SUBSET Context /\ gained \in SUBSET Context
  BY LostIs DEF OfLoaded
<1>2. t = ConnectAll(d, gained)
  BY DEF Route
<1> HIDE DEF lost, gained, t
<1>3. a = [seen |-> map, connected |-> s.connected, bound |-> s.bound,
           created |-> s.created, touched |-> s.touched]
  BY DEF RouterStates
<1>4. d = [seen |-> map, connected |-> s.connected \ lost,
           bound |-> {b \in s.bound : b[1] \notin lost},
           created |-> s.created, touched |-> s.touched \union lost]
  <2>1. d = [a EXCEPT !.connected = @ \ lost,
                      !.bound = {b \in @ : b[1] \notin lost},
                      !.touched = @ \union lost]
    BY DEF DisconnectAll
  <2> HIDE DEF a, d
  <2>2. QED
    BY <1>3, <2>1
<1> HIDE DEF d
<1>5. t = [seen |-> map, connected |-> (s.connected \ lost) \union gained,
           bound |-> {b \in s.bound : b[1] \notin lost} \union BindAll(gained),
           created |-> FetchContexts(s.created, gained),
           touched |-> s.touched \union lost \union gained]
  <2>1. t = [d EXCEPT !.connected = @ \union gained,
                      !.bound = @ \union BindAll(gained),
                      !.created = FetchContexts(@, gained),
                      !.touched = @ \union gained]
    BY <1>2 DEF ConnectAll
  <2>2. QED
    BY <1>4, <2>1
<1>6. ASSUME \A k \in s.created : k[2] = 1 PROVE t \in RouterStates
  <2>1. /\ s.connected \in SUBSET Context /\ s.touched \in SUBSET Context
        /\ s.bound \in SUBSET (Context \X (Element \X Tokens))
        /\ s.created \in SUBSET (Context \X Nat)
    BY DEF RouterStates
  <2>2. BindAll(gained) \in SUBSET (Context \X (Element \X Tokens))
    BY <1>1, BindAllIs
  <2>3. FetchContexts(s.created, gained) \in SUBSET (Context \X Nat)
    BY <1>1, <1>6, <2>1, FetchedContexts
  <2>4. map \in SUBSET (Element \X Tokens)
    BY DEF IsMap
  <2>5. QED
    BY <1>1, <1>5, <2>1, <2>2, <2>3, <2>4 DEF RouterStates
<1>7. QED
  <2>1. /\ t.seen = map
        /\ t.connected = (s.connected \ lost) \union gained
        /\ t.bound = {b \in s.bound : b[1] \notin lost} \union BindAll(gained)
        /\ t.created = FetchContexts(s.created, gained)
        /\ t.touched = s.touched \union lost \union gained
    BY <1>5
  <2>2. QED
    BY <1>1, <1>6, <2>1 DEF lost, gained, t

----------------------------------------------------------------------------
(* What an observer knows is the document it watches, but for what the     *)
(* records say that it has still to process: those after the k-th.         *)

Told(o, rs, k) == {j \in (k + 1)..Len(rs) : o \in rs[j].to}

\* The records due to o of a removal of e, or of an element around it.
Removes(o, e, p, rs, k) ==
    {j \in Told(o, rs, k) : rs[j].type = "remove" /\ rs[j].node \in p[e]}

\* Those of a change of the attribute of e that o is for.
Changes(o, name, e, rs, k) ==
    {j \in Told(o, rs, k) : rs[j].type = name /\ rs[j].node = e}

\* Those after which o knows e, if e is below its root and has the attribute.
Finds(o, name, e, p, rs, k) ==
    Changes(o, name, e, rs, k) \union
    {j \in Told(o, rs, k) : /\ rs[j].type = "add" /\ rs[j].node \in p[e]
                            /\ o[1] \in p[rs[j].node]}

\* An element that is known and has left will be removed; one that is known by
\* other tokens than it has, has changed; one that is not known and should be
\* will be found, and found again after it is removed.
Owed(o, map, attribute, name, p, rs, k) ==
    \A e \in Element :
      /\ Knows(map, e) /\ attribute[e] # None /\ o[1] \notin p[e]
         => Removes(o, e, p, rs, k) # {}
      /\ \A a \in map : a[1] = e /\ a[2] # attribute[e]
         => Changes(o, name, e, rs, k) # {}
      /\ attribute[e] # None /\ o[1] \in p[e] =>
           /\ ~Knows(map, e) => Finds(o, name, e, p, rs, k) # {}
           /\ \A j \in Removes(o, e, p, rs, k) : rs[j].node \notin p[o[1]]
              => \E i \in Finds(o, name, e, p, rs, k) : i > j

Types == {"data-controller", "data-action", "remove", "add"}

\* What processing one record does to an element.
LEMMA Effect ==
    ASSUME IsTree(path), NEW attribute \in [Element -> Tokens \union {None}],
           NEW root, NEW name, name \notin {"remove", "add"},
           NEW map, IsMap(map), NEW r, r.node \in Element, r.type \in Types
    PROVE  LET next == ProcessMutation(map, root, attribute, name, r)
           IN  /\ IsMap(next)
               /\ \A a \in next : \/ a \in map
                                  \/ /\ a[2] = attribute[a[1]]
                                     /\ root \in path[a[1]] \/ Knows(map, a[1])
               /\ \A a \in map : ~Knows(next, a[1]) =>
                     \/ r.type = "remove" /\ r.node \in path[a[1]]
                     \/ attribute[a[1]] = None
               /\ r.type = name =>
                     /\ \A a \in next : a[1] = r.node => a[2] = attribute[r.node]
                     /\ root \in path[r.node] /\ attribute[r.node] # None
                        => Knows(next, r.node)
               /\ r.type = "add" /\ root \in path[r.node] =>
                     \A e \in Element : r.node \in path[e] /\ attribute[e] # None
                        => Knows(next, e)
               /\ r.type = "remove" =>
                     \A e \in Element : r.node \in path[e] /\ attribute[e] # None
                        => ~Knows(next, e)
<1> DEFINE next == ProcessMutation(map, root, attribute, name, r)
           n == r.node
<1>1. /\ None \notin Tokens
      /\ \A a \in map : a = <<a[1], a[2]>> /\ a[1] \in Element /\ a[2] \in Tokens
      /\ \A e \in Element : attribute[e] # None => attribute[e] \in Tokens
  BY StimulusAssumption DEF IsMap
<1>2. \A E \in SUBSET Element : \A a :
         a \in Match(E, attribute) <=>
            /\ a \in Element \X Tokens
            /\ a[1] \in E /\ a[2] = attribute[a[1]]
  BY <1>1 DEF Match
<1>3. CASE r.type = "remove"
  <2>1. next = NodeRemoved(map, attribute, n)
    BY <1>3 DEF ProcessMutation
  <2>2. \A a : a \in next <=> a \in map /\ ~ (n \in path[a[1]] /\ attribute[a[1]] # None)
    BY <1>1, <2>1 DEF NodeRemoved, Without, Subtree
  <2>3. IsMap(next)
    BY <2>2 DEF IsMap
  <2>4. \A a \in map : ~Knows(next, a[1]) => n \in path[a[1]]
    BY <2>2 DEF Knows
  <2>5. \A e \in Element : n \in path[e] /\ attribute[e] # None => ~Knows(next, e)
    BY <2>2 DEF Knows
  <2> HIDE DEF next
  <2>6. QED
    BY <1>3, <2>2, <2>3, <2>4, <2>5 DEF next
<1>4. CASE r.type = "add"
  <2>1. next = NodeAdded(map, root, attribute, n)
    BY <1>4 DEF ProcessMutation
  <2>2. CASE root \notin path[n]
    <3>1. next = map
      BY <2>1, <2>2 DEF NodeAdded, Active
    <3> HIDE DEF next
    <3>2. \A a \in map : Knows(next, a[1])
      BY <3>1 DEF Knows
    <3>3. QED
      BY <1>4, <2>2, <3>1, <3>2 DEF next
  <2>3. CASE root \in path[n]
    <3> DEFINE E == {e \in Subtree(n) : ~Knows(map, e)}
    <3>1. next = map \union Match(E, attribute)
      BY <2>1, <2>3 DEF NodeAdded, Active
    <3>2. E \in SUBSET Element /\ \A e \in E : n \in path[e]
      BY DEF Subtree
    <3>3. \A a : a \in next <=> a \in map \/ /\ a \in Element \X Tokens
                                             /\ a[1] \in E /\ a[2] = attribute[a[1]]
      <4> HIDE DEF E
      <4> QED
        BY <1>2, <3>1, <3>2
    <3>4. \A e \in Element : n \in path[e] => root \in path[e]
      BY <2>3 DEF IsTree
    <3>5. IsMap(next)
      <4>1. next \subseteq Element \X Tokens
        BY <1>1, <3>3
      <4>2. ASSUME NEW a \in next, NEW b \in next, a[1] = b[1] PROVE a = b
        <5>1. CASE Knows(map, a[1])
          BY <3>3, <4>2, <5>1 DEF Knows, IsMap
        <5>2. CASE ~Knows(map, a[1])
          <6>1. a \notin map /\ b \notin map
            BY <4>2, <5>2 DEF Knows
          <6>2. a = <<a[1], attribute[a[1]]>> /\ b = <<b[1], attribute[b[1]]>>
            BY <3>3, <6>1
          <6>3. QED
            BY <4>2, <6>2
        <5>3. QED
          BY <5>1, <5>2
      <4>3. QED
        BY <4>1, <4>2 DEF IsMap
    <3>6. \A a \in map : Knows(next, a[1])
      BY <3>3 DEF Knows
    <3>7. ASSUME NEW e \in Element, n \in path[e], attribute[e] # None
          PROVE  Knows(next, e)
      <4>1. CASE Knows(map, e)
        BY <3>3, <4>1 DEF Knows
      <4>2. CASE ~Knows(map, e)
        <5>1. e \in E
          BY <3>7, <4>2 DEF Subtree
        <5>2. <<e, attribute[e]>> \in next
          BY <1>1, <3>3, <3>7, <5>1
        <5>3. QED
          BY <5>2 DEF Knows
      <4>3. QED
        BY <4>1, <4>2
    <3>8. \A a \in next : a \in map \/ (a[2] = attribute[a[1]] /\ root \in path[a[1]])
      BY <3>2, <3>3, <3>4
    <3> HIDE DEF next
    <3>9. QED
      BY <1>4, <3>5, <3>6, <3>7, <3>8 DEF next
  <2>4. QED
    BY <2>2, <2>3
<1>5. CASE r.type \notin {"remove", "add"}
  <2>1. next = AttributeChanged(map, root, attribute, r.type = name, n)
    BY <1>5 DEF ProcessMutation
  <2>2. CASE Knows(map, n) /\ attribute[n] # None /\ r.type # name
    <3>1. next = map
      BY <2>1, <2>2 DEF AttributeChanged
    <3> HIDE DEF next
    <3>2. \A a \in map : Knows(next, a[1])
      BY <3>1 DEF Knows
    <3>3. QED
      BY <1>5, <2>2, <3>1, <3>2 DEF next
  <2>3. CASE ~ (Knows(map, n) /\ attribute[n] # None /\ r.type # name)
    <3> DEFINE E == IF Knows(map, n) \/ root \in path[n] THEN {n} ELSE {}
    <3>1. Match({}, attribute) = {}
      BY DEF Match
    <3>2. next = Without(map, {n}) \union Match(E, attribute)
      BY <2>1, <2>3, <3>1 DEF AttributeChanged, Active
    <3>3. \A a : a \in next <=>
            \/ a \in map /\ a[1] # n
            \/ /\ a \in Element \X Tokens /\ a[1] = n /\ a[2] = attribute[n]
               /\ Knows(map, n) \/ root \in path[n]
      <4>1. E \in SUBSET Element /\ \A e : e \in E <=> e = n /\ (Knows(map, n) \/ root \in path[n])
        OBVIOUS
      <4> HIDE DEF E
      <4> QED
        BY <1>2, <3>2, <4>1 DEF Without
    <3>4. IsMap(next)
      <4>1. next \subseteq Element \X Tokens
        BY <1>1, <3>3
      <4>2. ASSUME NEW a \in next, NEW b \in next, a[1] = b[1] PROVE a = b
        <5>1. CASE a[1] # n
          BY <3>3, <4>2, <5>1 DEF IsMap
        <5>2. CASE a[1] = n
          <6> HIDE DEF next
          <6>1. /\ a \in Element \X Tokens /\ a[1] = n /\ a[2] = attribute[n]
                /\ b \in Element \X Tokens /\ b[1] = n /\ b[2] = attribute[n]
            BY <3>3, <4>2, <5>2
          <6>2. QED
            BY <6>1
        <5>3. QED
          BY <5>1, <5>2
      <4>3. QED
        BY <4>1, <4>2 DEF IsMap
    <3>5. attribute[n] # None /\ (Knows(map, n) \/ root \in path[n]) => Knows(next, n)
      <4>1. SUFFICES ASSUME attribute[n] # None, Knows(map, n) \/ root \in path[n]
                     PROVE  Knows(next, n)
        OBVIOUS
      <4>2. <<n, attribute[n]>> \in next
        BY <1>1, <3>3, <4>1
      <4>3. QED
        BY <4>2 DEF Knows
    <3>6. ASSUME NEW a \in map, ~Knows(next, a[1]) PROVE attribute[a[1]] = None
      <4>1. a \notin next
        BY <3>6 DEF Knows
      <4>2. a[1] = n
        BY <3>3, <4>1
      <4>3. QED
        BY <3>5, <3>6, <4>2 DEF Knows
    <3>7. \A a \in next : \/ a \in map
                          \/ /\ a[2] = attribute[a[1]]
                             /\ root \in path[a[1]] \/ Knows(map, a[1])
      BY <3>3
    <3>8. \A a \in next : a[1] = n => a[2] = attribute[n]
      BY <3>3
    <3> HIDE DEF next
    <3>9. QED
      BY <1>5, <3>4, <3>5, <3>6, <3>7, <3>8 DEF next
  <2>4. QED
    BY <2>2, <2>3
<1>6. QED
  BY <1>3, <1>4, <1>5

\* Processing the next record pays what it owes.
LEMMA OwedProcessed ==
    ASSUME IsTree(path), NEW attribute \in [Element -> Tokens \union {None}],
           NEW o, NEW name, name \notin {"remove", "add"},
           NEW map, IsMap(map), NEW k \in 0..(Len(records) - 1), Len(records) \in Nat,
           o \in records[k + 1].to,
           records[k + 1].node \in Element, records[k + 1].type \in Types,
           records[k + 1].type = "remove" => records[k + 1].node \notin path[o[1]],
           Owed(o, map, attribute, name, path, records, k)
    PROVE  LET next == ProcessMutation(map, o[1], attribute, name, records[k + 1])
           IN  IsMap(next) /\ Owed(o, next, attribute, name, path, records, k + 1)
<1> DEFINE r == records[k + 1]
           next == ProcessMutation(map, o[1], attribute, name, r)
           Rm(e, i) == Removes(o, e, path, records, i)
           Ch(e, i) == Changes(o, name, e, records, i)
           Fd(e, i) == Finds(o, name, e, path, records, i)
<1>1. /\ IsMap(next)
      /\ \A a \in next : \/ a \in map
                         \/ /\ a[2] = attribute[a[1]]
                            /\ o[1] \in path[a[1]] \/ Knows(map, a[1])
      /\ \A a \in map : ~Knows(next, a[1]) =>
            \/ r.type = "remove" /\ r.node \in path[a[1]]
            \/ attribute[a[1]] = None
      /\ r.type = name =>
            /\ \A a \in next : a[1] = r.node => a[2] = attribute[r.node]
            /\ o[1] \in path[r.node] /\ attribute[r.node] # None
               => Knows(next, r.node)
      /\ r.type = "add" /\ o[1] \in path[r.node] =>
            \A e \in Element : r.node \in path[e] /\ attribute[e] # None
               => Knows(next, e)
      /\ r.type = "remove" =>
            \A e \in Element : r.node \in path[e] /\ attribute[e] # None
               => ~Knows(next, e)
  BY ZenonT(60), Effect
<1> HIDE DEF next
<1>2. /\ k \in Nat /\ k + 1 \in Told(o, records, k)
      /\ \A j : j \in Told(o, records, k) <=> j = k + 1 \/ j \in Told(o, records, k + 1)
      /\ \A j \in Told(o, records, k + 1) : j \in Nat /\ j > k + 1
  BY DEF Told
<1>3. \A e, j : /\ j \in Rm(e, k) /\ j # k + 1 => j \in Rm(e, k + 1)
                /\ j \in Rm(e, k + 1) => j \in Rm(e, k)
                /\ k + 1 \in Rm(e, k) <=> r.type = "remove" /\ r.node \in path[e]
  BY <1>2 DEF Removes
<1>4. \A e, j : /\ j \in Ch(e, k) /\ j # k + 1 => j \in Ch(e, k + 1)
                /\ k + 1 \in Ch(e, k) <=> r.type = name /\ r.node = e
  BY <1>2 DEF Changes
<1>5. \A e, j : /\ j \in Fd(e, k) /\ j # k + 1 => j \in Fd(e, k + 1)
                /\ k + 1 \in Fd(e, k) =>
                     \/ r.type = name /\ r.node = e
                     \/ r.type = "add" /\ r.node \in path[e] /\ o[1] \in path[r.node]
  BY <1>2 DEF Finds, Changes
<1>6. \A e : /\ \A j \in Rm(e, k) \union Fd(e, k) : j \in Nat
             /\ \A j \in Rm(e, k + 1) : j \in Nat /\ j > k + 1
  BY <1>2 DEF Removes, Finds, Changes
<1>7. ASSUME NEW e \in Element
      PROVE  /\ Knows(map, e) /\ attribute[e] # None /\ o[1] \notin path[e] => Rm(e, k) # {}
             /\ \A a \in map : a[1] = e /\ a[2] # attribute[e] => Ch(e, k) # {}
             /\ attribute[e] # None /\ o[1] \in path[e] =>
                  /\ ~Knows(map, e) => Fd(e, k) # {}
                  /\ \A j \in Rm(e, k) : records[j].node \notin path[o[1]]
                     => \E i \in Fd(e, k) : i > j
  BY DEF Owed
<1>8. ASSUME NEW e \in Element
      PROVE  /\ Knows(next, e) /\ attribute[e] # None /\ o[1] \notin path[e]
                => Rm(e, k + 1) # {}
             /\ \A a \in next : a[1] = e /\ a[2] # attribute[e] => Ch(e, k + 1) # {}
             /\ attribute[e] # None /\ o[1] \in path[e] =>
                  /\ ~Knows(next, e) => Fd(e, k + 1) # {}
                  /\ \A j \in Rm(e, k + 1) : records[j].node \notin path[o[1]]
                     => \E i \in Fd(e, k + 1) : i > j
  <2> HIDE DEF Rm, Ch, Fd, r
  <2>1. ASSUME Knows(next, e), attribute[e] # None, o[1] \notin path[e]
        PROVE  Rm(e, k + 1) # {}
    <3>1. Knows(map, e)
      BY <1>1, <2>1 DEF Knows
    <3>2. PICK j : j \in Rm(e, k)
      BY <1>7, <2>1, <3>1
    <3>3. j # k + 1
      BY <1>1, <1>3, <2>1, <3>2
    <3>4. QED
      BY <1>3, <3>2, <3>3
  <2>2. ASSUME NEW a \in next, a[1] = e, a[2] # attribute[e] PROVE Ch(e, k + 1) # {}
    <3>1. a \in map
      BY <1>1, <2>2
    <3>2. PICK j : j \in Ch(e, k)
      BY <1>7, <2>2, <3>1
    <3>3. j # k + 1
      BY <1>1, <1>4, <2>2, <3>2
    <3>4. QED
      BY <1>4, <3>2, <3>3
  <2>3. ASSUME attribute[e] # None, o[1] \in path[e], ~Knows(next, e)
        PROVE  Fd(e, k + 1) # {}
    <3>1. k + 1 \notin Fd(e, k)
      BY <1>1, <1>5, <2>3
    <3>2. CASE ~Knows(map, e)
      <4>1. PICK j : j \in Fd(e, k)
        BY <1>7, <2>3, <3>2
      <4>2. QED
        BY <1>5, <3>1, <4>1
    <3>3. CASE Knows(map, e)
      <4>1. r.type = "remove" /\ r.node \in path[e]
        BY <1>1, <2>3, <3>3 DEF Knows
      <4>2. k + 1 \in Rm(e, k) /\ records[k + 1].node \notin path[o[1]]
        BY <1>3, <4>1 DEF r
      <4>3. PICK i \in Fd(e, k) : i > k + 1
        BY <1>7, <2>3, <4>2
      <4>4. QED
        BY <1>5, <3>1, <4>3
    <3>4. QED
      BY <3>2, <3>3
  <2>4. ASSUME attribute[e] # None, o[1] \in path[e],
               NEW j \in Rm(e, k + 1), records[j].node \notin path[o[1]]
        PROVE  \E i \in Fd(e, k + 1) : i > j
    <3>1. PICK i \in Fd(e, k) : i > j
      BY <1>3, <1>7, <2>4
    <3>2. i # k + 1
      BY <1>2, <1>6, <3>1
    <3>3. QED
      BY <1>5, <3>1, <3>2
  <2>5. QED
    BY <2>1, <2>2, <2>3, <2>4
<1>9. Owed(o, next, attribute, name, path, records, k + 1)
  BY <1>8 DEF Owed
<1>10. QED
  BY <1>1, <1>9 DEF next

\* A record for others changes nothing.
LEMMA OwedSkipped ==
    ASSUME NEW attribute, NEW o, NEW name, NEW map,
           NEW k \in 0..(Len(records) - 1), Len(records) \in Nat,
           o \notin records[k + 1].to,
           Owed(o, map, attribute, name, path, records, k)
    PROVE  Owed(o, map, attribute, name, path, records, k + 1)
<1>1. Told(o, records, k) = Told(o, records, k + 1)
  BY DEF Told
<1>2. QED
  BY <1>1 DEF Owed, Removes, Changes, Finds

\* When no record is left, what is known is the document.
LEMMA NothingOwed ==
    ASSUME NEW attribute \in [Element -> Tokens \union {None}], NEW o, NEW name,
           NEW rs, NEW k, Told(o, rs, k) = {}, NEW map, IsMap(map)
    PROVE  Owed(o, map, attribute, name, path, rs, k)
             <=> map = Refresh(o[1], attribute)
<1> DEFINE F == Refresh(o[1], attribute)
<1>1. /\ IsMap(F)
      /\ F = {a \in Element \X Tokens : o[1] \in path[a[1]] /\ a[2] = attribute[a[1]]}
      /\ \A e \in Element : Knows(F, e) <=> o[1] \in path[e] /\ attribute[e] # None
  BY Refreshed
<1> HIDE DEF F
<1>2. Owed(o, map, attribute, name, path, rs, k) <=>
        \A e \in Element :
           /\ ~ (Knows(map, e) /\ attribute[e] # None /\ o[1] \notin path[e])
           /\ \A a \in map : ~ (a[1] = e /\ a[2] # attribute[e])
           /\ attribute[e] # None /\ o[1] \in path[e] => Knows(map, e)
  BY DEF Owed, Removes, Changes, Finds
<1>3. ASSUME map = F PROVE Owed(o, map, attribute, name, path, rs, k)
  BY <1>1, <1>2, <1>3
<1>4. ASSUME Owed(o, map, attribute, name, path, rs, k) PROVE map = F
  <2>1. \A a \in map : a[1] \in Element /\ a[2] \in Tokens /\ Knows(map, a[1])
    BY DEF IsMap, Knows
  <2>2. \A a \in map : a[2] = attribute[a[1]] /\ attribute[a[1]] # None
    BY <1>2, <1>4, <2>1, StimulusAssumption
  <2>3. ASSUME NEW a \in map PROVE a \in F
    BY <1>1, <1>2, <1>4, <2>1, <2>2 DEF IsMap
  <2>4. ASSUME NEW a \in F PROVE a \in map
    <3>1. a[1] \in Element /\ Knows(F, a[1]) /\ a = <<a[1], attribute[a[1]]>>
      BY <1>1 DEF Knows
    <3>2. Knows(map, a[1])
      BY <1>1, <1>2, <1>4, <3>1
    <3>3. PICK b \in map : b[1] = a[1]
      BY <3>2 DEF Knows
    <3>4. b = <<a[1], attribute[a[1]]>>
      BY <2>2, <3>3 DEF IsMap
    <3>5. QED
      BY <3>1, <3>4
  <2>5. QED
    BY <2>3, <2>4
<1>5. QED
  BY <1>3, <1>4 DEF F

----------------------------------------------------------------------------
(* The delivery of the records.                                            *)

\* A context is created once, and the contexts that are connected were.
CreatedOnce(s) ==
    /\ \A k \in s.created : k[2] = 1
    /\ \A c \in s.connected : <<c, 1>> \in s.created

\* The router has the contexts of the scopes it knows, and those it touched
\* observe their elements from now on.
RouterSound(s) ==
    /\ s \in RouterStates
    /\ IsMap(s.seen)
    /\ s.connected = Scopes(s.seen)
    /\ \A b \in s.bound : b[1] \in s.connected
    /\ \A c \in s.connected \intersect s.touched : BoundOf(s, c) = Refresh(c[1], action)
    /\ CreatedOnce(s)

\* The contexts it has not touched are as they were.
LeftAlone(s) ==
    \A c \in Context \ s.touched :
        /\ c \in s.connected <=> c \in connected
        /\ BoundOf(s, c) = BoundOf(RouterState, c)

\* A step of the router leaves it sound, and touches every context it stops or
\* starts: the others are as they were.
LEMMA RouteSound ==
    ASSUME action \in [Element -> Tokens \union {None}],
           NEW s, RouterSound(s), LeftAlone(s), NEW map, IsMap(map)
    PROVE  /\ RouterSound(Route(s, map)) /\ LeftAlone(Route(s, map))
           /\ Route(s, map).seen = map
           /\ s.touched \subseteq Route(s, map).touched
           /\ \A c \in s.connected : ~Knows(map, c[1]) => c \in Route(s, map).touched
<1> DEFINE lost   == OfLoaded(Lost(s.seen, map))
           gained == OfLoaded(Lost(map, s.seen))
           t      == Route(s, map)
<1>1. s \in RouterStates /\ IsMap(s.seen) /\ s.connected = Scopes(s.seen)
  BY DEF RouterSound
<1>2. /\ lost \in SUBSET Context /\ gained \in SUBSET Context
      /\ t.seen = map
      /\ t.connected = (s.connected \ lost) \union gained
      /\ t.bound = {b \in s.bound : b[1] \notin lost} \union BindAll(gained)
      /\ t.created = FetchContexts(s.created, gained)
      /\ t.touched = s.touched \union lost \union gained
      /\ (\A k \in s.created : k[2] = 1) => t \in RouterStates
  BY <1>1, Routed
<1>3. /\ lost \subseteq s.connected
      /\ Scopes(map) = (s.connected \ lost) \union gained
      /\ (s.connected \ lost) \intersect gained = {}
      /\ \A c \in s.connected : ~Knows(map, c[1]) => c \in lost
  BY <1>1, Rerouted
<1> HIDE DEF lost, gained, t
<1>4. \A b : b \in BindAll(gained) <=>
               b \in gained \X (Element \X Tokens) /\ b[2] \in Refresh(b[1][1], action)
  BY <1>2, BindAllIs
<1>5. /\ s.bound \in SUBSET (Context \X (Element \X Tokens))
      /\ s.created \in SUBSET (Context \X Nat)
  BY <1>1 DEF RouterStates
<1>6. \A b \in s.bound : b[1] \in s.connected
  BY DEF RouterSound
<1>7. \A b \in t.bound : b[1] \in t.connected
  BY <1>2, <1>4, <1>6
<1>8. ASSUME NEW c \in Context, c \notin gained, c \notin lost
      PROVE  /\ BoundOf(t, c) = BoundOf(s, c)
             /\ c \in t.connected <=> c \in s.connected
  <2>1. \A b : b \in t.bound /\ b[1] = c <=> b \in s.bound /\ b[1] = c
    BY <1>2, <1>4, <1>8
  <2>2. QED
    BY <1>2, <1>8, <2>1 DEF BoundOf
<1>9. ASSUME NEW c \in gained PROVE BoundOf(t, c) = Refresh(c[1], action)
  <2>1. \A b : b \in t.bound /\ b[1] = c <=>
                 b \in {c} \X (Element \X Tokens) /\ b[2] \in Refresh(c[1], action)
    BY <1>2, <1>3, <1>4, <1>6
  <2>2. Refresh(c[1], action) \subseteq Element \X Tokens
    BY Refreshed DEF IsMap
  <2>3. ASSUME NEW a \in Refresh(c[1], action) PROVE a \in BoundOf(t, c)
    <3>1. <<c, a>> \in t.bound
      BY <2>1, <2>2
    <3>2. QED
      BY <3>1 DEF BoundOf
  <2>4. ASSUME NEW a \in BoundOf(t, c) PROVE a \in Refresh(c[1], action)
    BY <2>1 DEF BoundOf
  <2>5. QED
    BY <2>3, <2>4
<1>10. ASSUME NEW c \in t.connected \intersect t.touched
       PROVE  BoundOf(t, c) = Refresh(c[1], action)
  <2>1. CASE c \in gained
    BY <1>9, <2>1
  <2>2. CASE c \notin gained
    <3>1. c \in s.connected /\ c \notin lost /\ c \in s.touched
      BY <1>2, <2>2
    <3>2. c \in Context
      BY <1>1, <3>1 DEF Scopes
    <3>3. BoundOf(s, c) = Refresh(c[1], action)
      BY <3>1 DEF RouterSound
    <3>4. QED
      BY <1>8, <2>2, <3>1, <3>2, <3>3
  <2>3. QED
    BY <2>1, <2>2
<1>11. CreatedOnce(t)
  <2>1. /\ \A k \in s.created : k[2] = 1
        /\ \A c \in s.connected : <<c, 1>> \in s.created
    BY DEF RouterSound, CreatedOnce
  <2>2. /\ s.created \subseteq t.created
        /\ \A k \in t.created : k[2] = 1
        /\ \A c \in gained : <<c, 1>> \in t.created
    BY <1>2, <1>5, <2>1, FetchedContexts
  <2>3. QED
    BY <1>2, <2>1, <2>2 DEF CreatedOnce
<1>12. t \in RouterStates
  BY <1>2 DEF RouterSound, CreatedOnce
<1>13. RouterSound(t)
  BY <1>2, <1>3, <1>7, <1>10, <1>11, <1>12 DEF RouterSound
<1>14. LeftAlone(t)
  BY <1>2, <1>8 DEF LeftAlone
<1>15. /\ s.touched \subseteq t.touched
       /\ \A c \in s.connected : ~Knows(map, c[1]) => c \in t.touched
  BY <1>2, <1>3
<1>16. QED
  BY <1>2, <1>13, <1>14, <1>15 DEF t

RecordType == [type : Types, node : Element, to : SUBSET Observers]

\* A context that is left alone knows its element again after its records.
LEMMA ContextCaughtUp ==
    ASSUME IsTree(path), action \in [Element -> Tokens \union {None}],
           records \in Seq(RecordType), NEW c, IsMap(BoundOf(RouterState, c)),
           Owed(c, BoundOf(RouterState, c), action, "data-action", path, records, 0),
           \A j \in Told(c, records, 0) :
               records[j].type = "remove" => records[j].node \notin path[c[1]]
    PROVE  ContextAfter(c) = Refresh(c[1], action)
<1> DEFINE n == Len(records)
           base == BoundOf(RouterState, c)
           next(m, r) == ProcessMutation(m, c[1], action, "data-action", r)
           Maps == {m \in SUBSET (Element \X Tokens) : IsMap(m)}
           Step == [x \in Maps \X (1..n) |->
                      IF c \in records[x[2]].to THEN next(x[1], records[x[2]]) ELSE x[1]]
           f == CHOOSE h : h = [k \in 0..n |->
                      IF k = 0 THEN base
                      ELSE IF c \in records[k].to THEN next(h[k - 1], records[k])
                      ELSE h[k - 1]]
<1>1. n \in Nat /\ \A j \in 1..n : records[j] \in RecordType
  OBVIOUS
<1>2. \A j \in 1..n : /\ records[j].node \in Element /\ records[j].type \in Types
  BY <1>1 DEF RecordType
<1>3. ASSUME NEW m \in Maps, NEW j \in 1..n PROVE next(m, records[j]) \in Maps
  <2>1. IsMap(next(m, records[j]))
    BY ZenonT(60), <1>2, Effect
  <2>2. QED
    BY <2>1 DEF IsMap
<1>4. /\ Step \in [Maps \X (1..n) -> Maps]
      /\ \A m \in Maps, j \in 1..n :
           Step[<<m, j>>] = IF c \in records[j].to THEN next(m, records[j]) ELSE m
  <2> HIDE DEF next, Maps, n
  <2> QED
    BY <1>3
<1>5. base \in Maps
  BY DEF IsMap
<1>6. \E g : g = [k \in 0..n |-> IF k = 0 THEN base
                   ELSE IF c \in records[k].to THEN next(g[k - 1], records[k])
                   ELSE g[k - 1]]
  <2>1. PICK g : Follows(g, n, Maps, base, Step)
    <3> HIDE DEF Maps, Step, base, n
    <3>1. n \in Nat /\ Steps(n, Maps, Step)
      BY <1>1, <1>4 DEF Steps
    <3> QED
      BY <1>5, <3>1, Defined
  <2>2. ASSUME NEW k \in 1..n
        PROVE  g[k] = IF c \in records[k].to THEN next(g[k - 1], records[k]) ELSE g[k - 1]
    <3>1. k - 1 \in 0..n
      BY <1>1
    <3>2. g[k - 1] \in Maps
      BY <2>1, <3>1 DEF Follows
    <3>3. QED
      <4> HIDE DEF Maps, next, n, Step
      <4> QED
        BY <1>4, <2>1, <3>2 DEF Follows
  <2>3. g = [k \in 0..n |-> IF k = 0 THEN base
               ELSE IF c \in records[k].to THEN next(g[k - 1], records[k]) ELSE g[k - 1]]
    <3> HIDE DEF Maps, next, n, base, Step
    <3> QED
      BY SMTT(60), <1>1, <2>1, <2>2 DEF Follows
  <2>4. QED
    BY <2>3
<1>7. f = [k \in 0..n |-> IF k = 0 THEN base
             ELSE IF c \in records[k].to THEN next(f[k - 1], records[k]) ELSE f[k - 1]]
  <2> HIDE DEF next, n, base
  <2> QED
    BY <1>6
<1>8. ContextAfter(c) = f[n]
  BY DEF ContextAfter
<1> DEFINE Good == {k \in 0..n : /\ IsMap(f[k])
                                 /\ Owed(c, f[k], action, "data-action", path, records, k)}
<1> HIDE DEF f
<1>9. f[0] = base
  BY <1>1, <1>7
<1>10. 0 \in Good
  BY <1>1, <1>9
<1>11. ASSUME NEW k \in 0..(n - 1), k \in Good PROVE k + 1 \in Good
  <2>1. k + 1 \in 0..n /\ k + 1 \in 1..n /\ k + 1 # 0 /\ (k + 1) - 1 = k
    BY <1>1
  <2>2. f[k + 1] = IF c \in records[k + 1].to THEN next(f[k], records[k + 1]) ELSE f[k]
    <3> HIDE DEF next, n, base
    <3> QED
      BY <1>7, <2>1
  <2>3. IsMap(f[k]) /\ Owed(c, f[k], action, "data-action", path, records, k)
    BY <1>11
  <2>4. CASE c \in records[k + 1].to
    <3>1. k + 1 \in Told(c, records, 0)
      BY <2>1, <2>4 DEF Told
    <3>2. /\ records[k + 1].node \in Element /\ records[k + 1].type \in Types
          /\ records[k + 1].type = "remove" => records[k + 1].node \notin path[c[1]]
          /\ k \in 0..(Len(records) - 1) /\ Len(records) \in Nat
          /\ "data-action" \notin {"remove", "add"}
      BY <1>1, <1>2, <2>1, <3>1
    <3>3. /\ IsMap(next(f[k], records[k + 1]))
          /\ Owed(c, next(f[k], records[k + 1]), action, "data-action", path, records, k + 1)
      BY <2>3, <2>4, <3>2, OwedProcessed
    <3>4. QED
      BY <2>1, <2>2, <2>4, <3>3
  <2>5. CASE c \notin records[k + 1].to
    <3>1. Owed(c, f[k + 1], action, "data-action", path, records, k + 1)
      BY <1>1, <2>2, <2>3, <2>5, OwedSkipped
    <3>2. QED
      BY <2>1, <2>2, <2>3, <2>5, <3>1
  <2>6. QED
    BY <2>4, <2>5
<1>12. n \in Good
  <2> HIDE DEF Good, n
  <2>1. n \in Nat /\ n \in 0..n
    BY <1>1
  <2>2. \A k \in 0..n : k \in Good
    BY SMTT(60), <1>10, <1>11, <2>1, Reached
  <2>3. QED
    BY <2>1, <2>2
<1>13. Told(c, records, n) = {}
  BY <1>1 DEF Told
<1>14. f[n] = Refresh(c[1], action)
  BY <1>12, <1>13, NothingOwed
<1>15. QED
  BY <1>8, <1>14

\* The router knows the document again after its records, and has stopped or
\* started afresh the contexts of the elements that were removed meanwhile.
LEMMA RouterCaughtUp ==
    ASSUME IsTree(path), action \in [Element -> Tokens \union {None}],
           controller \in [Element -> Tokens \union {None}],
           records \in Seq(RecordType), RouterSound(RouterState),
           Owed(RouterObserver, seen, controller, "data-controller", path, records, 0),
           \A j \in DOMAIN records : records[j].type = "remove" => records[j].node # Root
    PROVE  /\ RouterSound(RouterAfter) /\ LeftAlone(RouterAfter)
           /\ RouterAfter.seen = Refresh(Root, controller)
           /\ \A c \in connected \intersect RouterAfter.connected :
                 Removes(RouterObserver, c[1], path, records, 0) # {}
                 => c \in RouterAfter.touched
<1> DEFINE n == Len(records)
           o == RouterObserver
           next(s, r) == RouterProcess(s, r)
           States == {s \in RouterStates : RouterSound(s) /\ LeftAlone(s)}
           Step == [x \in States \X (1..n) |->
                      IF o \in records[x[2]].to THEN next(x[1], records[x[2]]) ELSE x[1]]
           f == CHOOSE h : h = [k \in 0..n |->
                      IF k = 0 THEN RouterState
                      ELSE IF o \in records[k].to THEN next(h[k - 1], records[k])
                      ELSE h[k - 1]]
           Map(s, r) == ProcessMutation(s.seen, Root, controller, "data-controller", r)
<1>1. n \in Nat /\ \A j \in 1..n : records[j] \in RecordType
  OBVIOUS
<1>2. /\ \A j \in 1..n : /\ records[j].node \in Element /\ records[j].type \in Types
                         /\ records[j].type = "remove" => records[j].node # Root
      /\ "data-controller" \notin {"remove", "add"}
      /\ o[1] = Root /\ path[Root] = {Root}
  BY <1>1 DEF RecordType, RouterObserver, IsTree
<1>3. ASSUME NEW s \in States, NEW j \in 1..n
      PROVE  /\ next(s, records[j]) \in States
             /\ next(s, records[j]).seen = Map(s, records[j])
             /\ s.touched \subseteq next(s, records[j]).touched
             /\ \A c \in s.connected :
                   /\ records[j].type = "remove" /\ records[j].node \in path[c[1]]
                   /\ controller[c[1]] # None
                   => c \in next(s, records[j]).touched
  <2> DEFINE r == records[j]
             m == Map(s, r)
  <2>1. RouterSound(s) /\ LeftAlone(s) /\ IsMap(s.seen)
    BY DEF RouterSound
  <2>2. /\ IsMap(m)
        /\ r.type = "remove" =>
              \A e \in Element : r.node \in path[e] /\ controller[e] # None
                 => ~Knows(m, e)
    <3>1. r.node \in Element /\ r.type \in Types /\ "data-controller" \notin {"remove", "add"}
      BY <1>2
    <3> HIDE DEF r
    <3>2. QED
      BY ZenonT(60), <2>1, <3>1, Effect
  <2>3. next(s, r) = Route(s, m)
    BY DEF RouterProcess
  <2> HIDE DEF m, r, next
  <2>4. /\ RouterSound(next(s, r)) /\ LeftAlone(next(s, r))
        /\ next(s, r).seen = m
        /\ s.touched \subseteq next(s, r).touched
        /\ \A c \in s.connected : ~Knows(m, c[1]) => c \in next(s, r).touched
    BY <2>1, <2>2, <2>3, RouteSound
  <2>5. \A c \in s.connected : c[1] \in Element
    BY <2>1 DEF RouterSound, Scopes, Context
  <2>6. next(s, r) \in States
    BY <2>4 DEF RouterSound
  <2>7. QED
    BY <2>2, <2>4, <2>5, <2>6 DEF m, r
<1>4. /\ Step \in [States \X (1..n) -> States]
      /\ \A s \in States, j \in 1..n :
           Step[<<s, j>>] = IF o \in records[j].to THEN next(s, records[j]) ELSE s
  <2> HIDE DEF next, States, n, o, Map
  <2> QED
    BY <1>3
<1>5. RouterState \in States
  BY DEF RouterSound, LeftAlone, RouterState
<1>6. \E g : g = [k \in 0..n |-> IF k = 0 THEN RouterState
                   ELSE IF o \in records[k].to THEN next(g[k - 1], records[k])
                   ELSE g[k - 1]]
  <2>1. PICK g : Follows(g, n, States, RouterState, Step)
    <3> HIDE DEF States, Step, n
    <3>1. n \in Nat /\ Steps(n, States, Step)
      BY <1>1, <1>4 DEF Steps
    <3> QED
      BY <1>5, <3>1, Defined
  <2>2. ASSUME NEW k \in 1..n
        PROVE  g[k] = IF o \in records[k].to THEN next(g[k - 1], records[k]) ELSE g[k - 1]
    <3>1. k - 1 \in 0..n
      BY <1>1
    <3>2. g[k - 1] \in States
      BY <2>1, <3>1 DEF Follows
    <3>3. QED
      <4> HIDE DEF States, next, n, Step, o
      <4> QED
        BY <1>4, <2>1, <3>2 DEF Follows
  <2>3. g = [k \in 0..n |-> IF k = 0 THEN RouterState
               ELSE IF o \in records[k].to THEN next(g[k - 1], records[k]) ELSE g[k - 1]]
    <3> HIDE DEF States, next, n, Step, o
    <3> QED
      BY <1>1, <2>1, <2>2 DEF Follows
  <2>4. QED
    BY SMTT(60), <2>3
<1>7. f = [k \in 0..n |-> IF k = 0 THEN RouterState
             ELSE IF o \in records[k].to THEN next(f[k - 1], records[k]) ELSE f[k - 1]]
  <2> HIDE DEF next, n, o
  <2> QED
    BY <1>6
<1>8. RouterAfter = f[n]
  BY DEF RouterAfter
<1> DEFINE Rm(e, k) == Removes(o, e, path, records, k)
           Good == {k \in 0..n :
                      /\ f[k] \in States
                      /\ Owed(o, f[k].seen, controller, "data-controller", path, records, k)
                      /\ \A c \in connected :
                           controller[c[1]] # None /\ Rm(c[1], 0) # {}
                           => c \in f[k].touched \/ Rm(c[1], k) # {}}
<1> HIDE DEF f
<1>9. f[0] = RouterState
  BY <1>1, <1>7
<1>10. 0 \in Good
  <2>1. RouterState.seen = seen
    BY DEF RouterState
  <2>2. QED
    <3> HIDE DEF States, Rm
    <3> QED
      BY <1>1, <1>5, <1>9, <2>1
<1>11. ASSUME NEW k \in 0..(n - 1), k \in Good PROVE k + 1 \in Good
  <2> DEFINE r == records[k + 1]
  <2>1. k + 1 \in 0..n /\ k + 1 \in 1..n /\ k + 1 # 0 /\ (k + 1) - 1 = k
    BY <1>1
  <2>2. f[k + 1] = IF o \in r.to THEN next(f[k], r) ELSE f[k]
    <3> HIDE DEF next, n, o
    <3> QED
      BY <1>7, <2>1
  <2>3. /\ f[k] \in States
        /\ Owed(o, f[k].seen, controller, "data-controller", path, records, k)
        /\ \A c \in connected : controller[c[1]] # None /\ Rm(c[1], 0) # {}
              => c \in f[k].touched \/ Rm(c[1], k) # {}
    BY <1>11
  <2>4. RouterSound(f[k]) /\ LeftAlone(f[k]) /\ IsMap(f[k].seen)
    BY <2>3 DEF RouterSound
  <2>5. connected \subseteq Context
    BY DEF RouterSound, RouterState, Scopes
  <2>6. \A e : \A j \in Rm(e, k) :
           \/ j \in Rm(e, k + 1)
           \/ j = k + 1 /\ o \in r.to /\ r.type = "remove" /\ r.node \in path[e]
    BY <1>1 DEF Removes, Told
  <2>7. CASE o \in r.to
    <3>1. k \in 0..(Len(records) - 1) /\ Len(records) \in Nat
      BY <1>1
    <3>2. /\ r.node \in Element /\ r.type \in Types
          /\ r.type = "remove" => r.node \notin path[o[1]]
      BY <1>2, <2>1
    <3>3. Owed(o, Map(f[k], r), controller, "data-controller", path, records, k + 1)
      <4>1. o \in records[k + 1].to
        BY <2>7
      <4>2. LET m == ProcessMutation(f[k].seen, o[1], controller, "data-controller",
                                     records[k + 1])
            IN  Owed(o, m, controller, "data-controller", path, records, k + 1)
        <5> HIDE DEF o
        <5> QED
          BY <1>2, <2>3, <2>4, <3>1, <3>2, <4>1, OwedProcessed
      <4>3. QED
        BY <1>2, <4>2
    <3> HIDE DEF next, Map, States, o, r
    <3>4. /\ f[k + 1] \in States
          /\ f[k + 1].seen = Map(f[k], r)
          /\ f[k].touched \subseteq f[k + 1].touched
          /\ \A c \in f[k].connected :
                r.type = "remove" /\ r.node \in path[c[1]] /\ controller[c[1]] # None
                => c \in f[k + 1].touched
      BY <1>3, <2>1, <2>2, <2>3, <2>7 DEF r
    <3>5. ASSUME NEW c \in connected, controller[c[1]] # None, Rm(c[1], 0) # {},
                 c \notin f[k + 1].touched
          PROVE  Rm(c[1], k + 1) # {}
      <4>1. c \notin f[k].touched
        BY <3>4, <3>5
      <4>2. c \in f[k].connected
        BY <2>4, <2>5, <4>1 DEF LeftAlone
      <4>3. Rm(c[1], k) # {}
        BY <2>3, <3>5, <4>1
      <4> HIDE DEF Rm
      <4>4. QED
        BY <2>6, <3>4, <3>5, <4>2, <4>3
    <3>6. QED
      <4> HIDE DEF Rm
      <4> QED
        BY <2>1, <3>3, <3>4, <3>5
  <2>8. CASE o \notin r.to
    <3>1. Owed(o, f[k].seen, controller, "data-controller", path, records, k + 1)
      <4> HIDE DEF o
      <4> QED
        BY <1>1, <2>3, <2>8, OwedSkipped
    <3>2. \A e : Rm(e, k) # {} => Rm(e, k + 1) # {}
      <4> HIDE DEF Rm, o
      <4> QED
        BY <2>6, <2>8
    <3>3. QED
      <4> HIDE DEF Rm, o, States, next, r
      <4> QED
        BY <2>1, <2>2, <2>3, <2>8, <3>1, <3>2
  <2>9. QED
    BY <2>7, <2>8
<1>12. n \in Good
  <2> HIDE DEF Good, n
  <2>1. n \in Nat /\ n \in 0..n
    BY <1>1
  <2>2. \A k \in 0..n : k \in Good
    BY SMTT(60), <1>10, <1>11, <2>1, Reached
  <2>3. QED
    BY <2>1, <2>2
<1>13. Told(o, records, n) = {}
  BY <1>1 DEF Told
<1>14. RouterSound(f[n]) /\ LeftAlone(f[n])
  BY <1>12
<1>15. f[n].seen = Refresh(Root, controller)
  <2>1. IsMap(f[n].seen)
    BY <1>14 DEF RouterSound
  <2>2. Owed(o, f[n].seen, controller, "data-controller", path, records, n)
    BY <1>12
  <2>3. QED
    <3> HIDE DEF o, n
    <3>1. f[n].seen = Refresh(o[1], controller)
      BY <1>13, <2>1, <2>2, NothingOwed
    <3>2. QED
      BY <1>2, <3>1
<1>16. ASSUME NEW c \in connected, c \in f[n].connected, Rm(c[1], 0) # {}
       PROVE  c \in f[n].touched
  <2>1. c \in Context
    BY <1>14, <1>16 DEF RouterSound, Scopes
  <2>2. Knows(f[n].seen, c[1])
    BY <1>14, <1>16, ScopesKnown DEF RouterSound
  <2>3. c[1] \in Element
    BY <2>1 DEF Context
  <2>4. controller[c[1]] # None
    BY <1>15, <2>2, <2>3, Refreshed
  <2>5. Rm(c[1], n) = {}
    BY <1>13 DEF Removes
  <2>6. QED
    <3> HIDE DEF Rm
    <3> QED
      BY <1>12, <1>16, <2>4, <2>5
<1>17. QED
  BY <1>8, <1>14, <1>15, <1>16

----------------------------------------------------------------------------
(* Changes of the document: what is owed is recorded.                      *)

\* An observer follows the nodes whose removal it has yet to process, and the
\* elements it knows that have left are below one of these.
Pursued(o, map, p, rs, tr) ==
    /\ \A j \in Told(o, rs, 0) : rs[j].type = "remove" => <<o, rs[j].node>> \in tr
    /\ \A a \in map : o[1] \notin p[a[1]] => Removes(o, a[1], p, rs, 0) # {}

\* The tree when e and what is below it moves from where it is to below others.
Reparented(p, e, above) ==
    [x \in Element |-> IF e \in p[x] THEN {y \in p[x] : e \in p[y]} \union above ELSE p[x]]

\* The records of a move: o is told of the removal if it watches the node there,
\* and then of the addition if it watches the place it goes to.
Moved(o, e, above, p, rs, after, tr, trAfter) ==
    LET new == (Len(rs) + 1)..Len(after)
    IN  /\ Len(rs) \in Nat /\ Len(after) \in Nat /\ Len(after) >= Len(rs)
        /\ \A j \in 1..Len(rs) : after[j] = rs[j]
        /\ \A j \in new : /\ after[j].node = e /\ after[j].type \in {"remove", "add"}
                          /\ after[j].type = "remove" /\ o \in after[j].to
                             => <<o, e>> \in trAfter
        /\ tr \subseteq trAfter
        /\ \A x \in p[e] : x # e /\ (x = o[1] \/ <<o, x>> \in tr)
              => \E j \in new : after[j].type = "remove" /\ o \in after[j].to
        /\ o[1] \in above
              => \E j \in new : /\ after[j].type = "add" /\ o \in after[j].to
                                /\ \A i \in new : after[i].type = "remove" => i < j

\* The places a node can move to: out of the tree, or below a node that is not
\* below it.
Place(p, e, above) ==
    above = {} \/ \E x \in Element : above = p[x] /\ e \notin p[x]

\* The paths afterwards, and the document is a tree again.
LEMMA ReparentedPath ==
    ASSUME NEW p, IsTree(p), NEW e \in Element, NEW above, Place(p, e, above)
    PROVE  LET q == Reparented(p, e, above)
           IN  /\ above \subseteq Element /\ e \notin above
               /\ \A x \in above : e \notin p[x] /\ p[x] \subseteq above
               /\ \A x, y \in Element :
                    /\ e \notin p[x] => q[x] = p[x]
                    /\ e \in p[x] => (y \in q[x] <=> (y \in p[x] /\ e \in p[y]) \/ y \in above)
                    /\ e \in p[x] /\ y \in p[x] /\ e \notin p[y] => y \in p[e] /\ y # e
                    /\ e \in q[x] <=> e \in p[x]
<1> DEFINE q == Reparented(p, e, above)
<1>1. /\ p \in [Element -> SUBSET Element] /\ e \in p[e]
      /\ \A x \in Element : \A m \in p[x] : m \in Element /\ p[m] \subseteq p[x]
      /\ \A x \in Element : \A m, n \in p[x] : m \in p[n] \/ n \in p[m]
  BY DEF IsTree
<1>2. /\ above \subseteq Element /\ e \notin above
      /\ \A x \in above : e \notin p[x] /\ p[x] \subseteq above
  BY <1>1 DEF Place
<1>3. ASSUME NEW x \in Element, NEW y \in Element
      PROVE  /\ e \notin p[x] => q[x] = p[x]
             /\ e \in p[x] => (y \in q[x] <=> (y \in p[x] /\ e \in p[y]) \/ y \in above)
  BY DEF Reparented
<1>4. ASSUME NEW x \in Element, NEW y \in Element
      PROVE  e \in p[x] /\ y \in p[x] /\ e \notin p[y] => y \in p[e] /\ y # e
  BY <1>1
<1>5. ASSUME NEW x \in Element PROVE e \in q[x] <=> e \in p[x]
  BY <1>1, <1>2, <1>3
<1>6. QED
  BY <1>2, <1>3, <1>4, <1>5

\* A moved subtree hangs together as before: the document is a tree again.
LEMMA ReparentedTree ==
    ASSUME NEW p, IsTree(p), NEW e \in Element, e # Root,
           NEW above, Place(p, e, above)
    PROVE  IsTree(Reparented(p, e, above))
<1> DEFINE q == Reparented(p, e, above)
<1>1. /\ p \in [Element -> SUBSET Element] /\ p[Root] = {Root}
      /\ \A x \in Element :
           /\ x \in p[x]
           /\ \A m \in p[x] : m \in Element /\ p[m] \subseteq p[x] /\ (x \in p[m] => m = x)
           /\ \A m, n \in p[x] : m \in p[n] \/ n \in p[m]
  BY DEF IsTree
<1>2. /\ above \subseteq Element /\ e \notin above
      /\ \A x \in above : e \notin p[x] /\ p[x] \subseteq above
      /\ \A x, y \in Element :
           /\ e \notin p[x] => q[x] = p[x]
           /\ e \in p[x] => (y \in q[x] <=> (y \in p[x] /\ e \in p[y]) \/ y \in above)
           /\ e \in p[x] /\ y \in p[x] /\ e \notin p[y] => y \in p[e] /\ y # e
           /\ e \in q[x] <=> e \in p[x]
  BY ReparentedPath
<1>3. q \in [Element -> SUBSET Element]
  BY <1>1, <1>2 DEF Reparented
<1>4. Root \in Element
  BY StimulusAssumption
<1>5. \A m, n \in above : m \in p[n] \/ n \in p[m]
  BY <1>1 DEF Place
<1> HIDE DEF q
<1>6. q[Root] = {Root}
  BY <1>1, <1>2, <1>4
<1>7. ASSUME NEW x \in Element
      PROVE  /\ x \in q[x]
             /\ \A m \in q[x] : q[m] \subseteq q[x] /\ (x \in q[m] => m = x)
             /\ \A m, n \in q[x] : m \in q[n] \/ n \in q[m]
  <2>1. CASE e \notin p[x]
    <3>1. q[x] = p[x] /\ \A m \in p[x] : q[m] = p[m]
      BY <1>1, <1>2, <2>1
    <3>2. QED
      BY <1>1, <3>1
  <2>2. CASE e \in p[x]
    <3>1. \A y \in q[x] : y \in Element /\ ((y \in p[x] /\ e \in p[y]) \/ y \in above)
      BY <1>2, <1>3, <2>2
    <3>2. \A y \in above : q[y] = p[y] /\ y \in q[x]
      BY <1>2, <2>2
    <3>3. x \in q[x]
      BY <1>1, <1>2, <2>2
    <3>4. ASSUME NEW m \in q[x] PROVE q[m] \subseteq q[x] /\ (x \in q[m] => m = x)
      <4>1. CASE m \in above
        BY <1>2, <2>2, <3>2, <4>1
      <4>2. CASE m \in p[x] /\ e \in p[m]
        <5>1. \A y \in q[m] : y \in Element /\ ((y \in p[m] /\ e \in p[y]) \/ y \in above)
          BY <1>2, <1>3, <3>1, <4>2
        <5>2. q[m] \subseteq q[x]
          BY <1>1, <1>2, <2>2, <4>2, <5>1
        <5>3. x \in q[m] => x \in p[m]
          BY <1>2, <2>2, <5>1
        <5>4. QED
          BY <1>1, <4>2, <5>2, <5>3
      <4>3. QED
        BY <3>1, <4>1, <4>2
    <3>5. ASSUME NEW m \in q[x], NEW n \in q[x] PROVE m \in q[n] \/ n \in q[m]
      <4>1. CASE m \in above /\ n \in above
        BY <1>5, <3>2, <4>1
      <4>2. CASE m \in above /\ n \in p[x] /\ e \in p[n]
        BY <1>2, <3>1, <4>2
      <4>3. CASE n \in above /\ m \in p[x] /\ e \in p[m]
        BY <1>2, <3>1, <4>3
      <4>4. CASE m \in p[x] /\ e \in p[m] /\ n \in p[x] /\ e \in p[n]
        BY <1>1, <1>2, <3>1, <4>4
      <4>5. QED
        BY <3>1, <4>1, <4>2, <4>3, <4>4
    <3>6. QED
      BY <3>3, <3>4, <3>5
  <2>3. QED
    BY <2>1, <2>2
<1>8. IsTree(q)
  BY <1>3, <1>6, <1>7 DEF IsTree
<1>9. QED
  BY <1>8 DEF q

\* What is recorded stays recorded.
LEMMA ToldMoved ==
    ASSUME NEW o, NEW e, NEW above, NEW p, NEW rs, NEW after, NEW tr, NEW trAfter,
           Moved(o, e, above, p, rs, after, tr, trAfter)
    PROVE  /\ \A j \in Told(o, rs, 0) :
                /\ j \in Told(o, after, 0) /\ after[j] = rs[j]
                /\ j \in Nat /\ j <= Len(rs)
           /\ \A j \in Told(o, after, 0) : \/ j \in Told(o, rs, 0)
                                           \/ j \in (Len(rs) + 1)..Len(after)
           /\ \A j \in (Len(rs) + 1)..Len(after) :
                /\ o \in after[j].to => j \in Told(o, after, 0)
                /\ j \in Nat /\ j > Len(rs)
BY DEF Moved, Told

\* An element that will be removed will be, wherever it or its ancestors move.
LEMMA RemovesMoved ==
    ASSUME NEW p, IsTree(p), NEW e \in Element, NEW above, Place(p, e, above),
           NEW o, NEW rs, NEW after, NEW tr, NEW trAfter,
           Moved(o, e, above, p, rs, after, tr, trAfter),
           \A j \in Told(o, rs, 0) : rs[j].type = "remove" => <<o, rs[j].node>> \in tr,
           NEW x \in Element, Removes(o, x, p, rs, 0) # {}
    PROVE  Removes(o, x, Reparented(p, e, above), after, 0) # {}
<1> DEFINE q == Reparented(p, e, above)
<1>1. PICK j \in Told(o, rs, 0) : rs[j].type = "remove" /\ rs[j].node \in p[x]
  BY DEF Removes
<1>2. j \in Told(o, after, 0) /\ after[j] = rs[j] /\ rs[j].node \in Element
  BY <1>1, ToldMoved DEF IsTree
<1>3. CASE rs[j].node \in q[x]
  <2>1. j \in Removes(o, x, q, after, 0)
    BY <1>1, <1>2, <1>3 DEF Removes
  <2>2. QED
    BY <2>1
<1>4. CASE rs[j].node \notin q[x]
  <2> DEFINE m == rs[j].node
  <2>1. e \in p[x] /\ m \in p[e] /\ m # e /\ e \in q[x]
    BY <1>1, <1>2, <1>4, ReparentedPath
  <2>2. <<o, m>> \in tr
    BY <1>1
  <2>3. PICK i \in (Len(rs) + 1)..Len(after) : after[i].type = "remove" /\ o \in after[i].to
    BY <2>1, <2>2 DEF Moved
  <2>4. i \in Told(o, after, 0) /\ after[i].node = e
    BY ZenonT(60), <2>3, ToldMoved DEF Moved
  <2>5. i \in Removes(o, x, q, after, 0)
    BY <2>1, <2>3, <2>4 DEF Removes
  <2>6. QED
    BY <2>5
<1>5. QED
  BY <1>3, <1>4

\* A move keeps the account of an observer true.
LEMMA AccountMoved ==
    ASSUME NEW p, IsTree(p), NEW e \in Element, NEW above, Place(p, e, above),
           NEW o, o[1] \in Element, NEW rs, NEW after, NEW tr, NEW trAfter,
           Moved(o, e, above, p, rs, after, tr, trAfter),
           NEW map, IsMap(map), NEW attribute, NEW name, name \notin {"remove", "add"},
           Owed(o, map, attribute, name, p, rs, 0), Pursued(o, map, p, rs, tr)
    PROVE  /\ Owed(o, map, attribute, name, Reparented(p, e, above), after, 0)
           /\ Pursued(o, map, Reparented(p, e, above), after, trAfter)
<1> DEFINE q == Reparented(p, e, above)
           root == o[1]
           new == (Len(rs) + 1)..Len(after)
           F(x) == Finds(o, name, x, p, rs, 0)
           G(x) == Finds(o, name, x, q, after, 0)
<1>1. /\ p \in [Element -> SUBSET Element] /\ e \in p[e]
      /\ \A x \in Element : \A m \in p[x] : m \in Element /\ p[m] \subseteq p[x]
  BY DEF IsTree
<1>2. /\ above \subseteq Element /\ e \notin above
      /\ \A x \in above : e \notin p[x] /\ p[x] \subseteq above
      /\ \A x, y \in Element :
           /\ e \notin p[x] => q[x] = p[x]
           /\ e \in p[x] => (y \in q[x] <=> (y \in p[x] /\ e \in p[y]) \/ y \in above)
           /\ e \in p[x] /\ y \in p[x] /\ e \notin p[y] => y \in p[e] /\ y # e
           /\ e \in q[x] <=> e \in p[x]
  BY ReparentedPath
<1> HIDE DEF q, new
<1>3. /\ \A j \in Told(o, rs, 0) :
            /\ j \in Told(o, after, 0) /\ after[j] = rs[j]
            /\ j \in Nat /\ j <= Len(rs)
      /\ \A j \in Told(o, after, 0) : j \in Told(o, rs, 0) \/ j \in new
      /\ \A j \in new : /\ o \in after[j].to => j \in Told(o, after, 0)
                        /\ j \in Nat /\ j > Len(rs)
  BY ToldMoved DEF new
<1>4. /\ \A j \in new : /\ after[j].node = e /\ after[j].type \in {"remove", "add"}
                        /\ after[j].type = "remove" /\ o \in after[j].to
                           => <<o, e>> \in trAfter
      /\ tr \subseteq trAfter
      /\ root \in p[e] /\ root # e
            => \E j \in new : after[j].type = "remove" /\ o \in after[j].to
      /\ root \in above
            => \E j \in new : /\ after[j].type = "add" /\ o \in after[j].to
                              /\ \A i \in new : after[i].type = "remove" => i < j
      /\ Len(rs) \in Nat
  BY DEF Moved, new
<1>5. \A x \in Element : Removes(o, x, p, rs, 0) # {} => Removes(o, x, q, after, 0) # {}
  BY RemovesMoved DEF Pursued, q
<1>6. ASSUME NEW x \in Element, Knows(map, x), root \notin q[x]
      PROVE  Removes(o, x, q, after, 0) # {}
  <2>1. CASE root \notin p[x]
    <3>1. Removes(o, x, p, rs, 0) # {}
      BY <1>6, <2>1 DEF Pursued, Knows
    <3>2. QED
      BY <1>5, <3>1
  <2>2. CASE root \in p[x]
    <3>1. e \in p[x] /\ root \in p[e] /\ root # e /\ e \in q[x]
      BY <1>2, <1>6, <2>2
    <3>2. PICK i \in new : after[i].type = "remove" /\ o \in after[i].to
      BY <1>4, <3>1
    <3>3. i \in Removes(o, x, q, after, 0)
      BY <1>3, <1>4, <3>1, <3>2 DEF Removes
    <3>4. QED
      BY <3>3
  <2>3. QED
    BY <2>1, <2>2
<1>7. Pursued(o, map, q, after, trAfter)
  <2>1. ASSUME NEW j \in Told(o, after, 0), after[j].type = "remove"
        PROVE  <<o, after[j].node>> \in trAfter
    <3>1. CASE j \in Told(o, rs, 0)
      BY <1>3, <1>4, <2>1, <3>1 DEF Pursued
    <3>2. CASE j \in new
      BY <1>4, <2>1, <3>2 DEF Told
    <3>3. QED
      BY <1>3, <3>1, <3>2
  <2>2. \A a \in map : a[1] \in Element /\ Knows(map, a[1])
    BY DEF IsMap, Knows
  <2>3. QED
    BY <1>6, <2>1, <2>2 DEF Pursued
<1>8. ASSUME NEW x \in Element, Changes(o, name, x, rs, 0) # {}
      PROVE  Changes(o, name, x, after, 0) # {}
  BY <1>3, <1>8 DEF Changes
\* The element is found again: by the record of the move, or as it was before.
<1>9. ASSUME NEW x \in Element, root \in q[x], e \in p[x], e \notin p[root]
      PROVE  \E i \in G(x) : /\ i \in new
                             /\ \A j \in new : after[j].type = "remove" => j < i
  <2>1. root \in above
    BY <1>2, <1>9
  <2>2. PICK i \in new : /\ after[i].type = "add" /\ o \in after[i].to
                         /\ \A j \in new : after[j].type = "remove" => j < i
    BY <1>4, <2>1
  <2>3. e \in q[x] /\ root \in q[e]
    BY <1>1, <1>2, <1>9, <2>1
  <2>4. i \in G(x)
    BY <1>3, <1>4, <2>2, <2>3 DEF Finds
  <2>5. QED
    BY <2>2, <2>4
<1>10. ASSUME NEW x \in Element, root \in q[x], ~ (e \in p[x] /\ e \notin p[root])
       PROVE  root \in p[x] /\ F(x) \subseteq G(x)
  <2>1. root \in p[x]
    BY <1>1, <1>2, <1>10
  <2>2. ASSUME NEW j \in F(x), j \notin Changes(o, name, x, rs, 0) PROVE j \in G(x)
    <3>1. /\ j \in Told(o, rs, 0) /\ rs[j].type = "add" /\ rs[j].node \in p[x]
          /\ root \in p[rs[j].node]
      BY <2>2 DEF Finds
    <3>2. rs[j].node \in q[x] /\ root \in q[rs[j].node]
      <4> DEFINE m == rs[j].node
      <4>1. m \in Element /\ p[m] \subseteq p[x]
        BY <1>1, <3>1
      <4> HIDE DEF m
      <4>2. m \in p[x] /\ root \in p[m]
        BY <3>1 DEF m
      <4>3. p[root] \subseteq p[m]
        BY <1>1, <4>1, <4>2
      <4>4. m \in q[x] /\ root \in q[m]
        BY <1>1, <1>2, <1>10, <4>1, <4>2, <4>3
      <4>5. QED
        BY <4>4 DEF m
    <3>3. QED
      BY <1>3, <3>1, <3>2 DEF Finds
  <2>3. ASSUME NEW j \in Changes(o, name, x, rs, 0) PROVE j \in G(x)
    BY <1>3, <2>3 DEF Changes, Finds
  <2>4. QED
    BY <2>1, <2>2, <2>3
<1>11. ASSUME NEW x \in Element
       PROVE  /\ Knows(map, x) /\ attribute[x] # None /\ root \notin q[x]
                 => Removes(o, x, q, after, 0) # {}
              /\ \A a \in map : a[1] = x /\ a[2] # attribute[x]
                    => Changes(o, name, x, after, 0) # {}
              /\ attribute[x] # None /\ root \in q[x] =>
                   /\ ~Knows(map, x) => G(x) # {}
                   /\ \A j \in Removes(o, x, q, after, 0) : after[j].node \notin q[root]
                      => \E i \in G(x) : i > j
  <2> HIDE DEF F, G
  <2>1. \A a \in map : a[1] = x /\ a[2] # attribute[x]
           => Changes(o, name, x, after, 0) # {}
    BY <1>8 DEF Owed
  <2>2. ASSUME attribute[x] # None, root \in q[x], ~Knows(map, x) PROVE G(x) # {}
    <3>1. CASE e \in p[x] /\ e \notin p[root]
      BY <1>9, <2>2, <3>1
    <3>2. CASE ~ (e \in p[x] /\ e \notin p[root])
      <4>1. root \in p[x] /\ F(x) \subseteq G(x)
        BY <1>10, <2>2, <3>2
      <4>2. F(x) # {}
        BY <2>2, <4>1 DEF Owed, F
      <4>3. QED
        BY <4>1, <4>2
    <3>3. QED
      BY <3>1, <3>2
  <2>3. ASSUME attribute[x] # None, root \in q[x], NEW j \in Removes(o, x, q, after, 0),
               after[j].node \notin q[root]
        PROVE  \E i \in G(x) : i > j
    <3>1. /\ j \in Told(o, after, 0) /\ after[j].type = "remove"
          /\ after[j].node \in q[x]
      BY DEF Removes
    <3>2. CASE e \in p[x] /\ e \notin p[root]
      <4>1. PICK i \in G(x) : /\ i \in new
                              /\ \A k \in new : after[k].type = "remove" => k < i
        BY <1>9, <2>3, <3>2
      <4>2. j < i
        BY <1>3, <1>4, <3>1, <4>1
      <4>3. j \in Nat /\ i \in Nat
        BY <1>3, <3>1, <4>1
      <4>4. QED
        BY <4>1, <4>2, <4>3
    <3>3. CASE ~ (e \in p[x] /\ e \notin p[root])
      <4>1. root \in p[x] /\ F(x) \subseteq G(x)
        BY <1>10, <2>3, <3>3
      <4>2. j \notin new
        <5>1. SUFFICES ASSUME j \in new PROVE FALSE
          OBVIOUS
        <5>2. e \in q[x] /\ e \notin q[root]
          BY <1>4, <2>3, <3>1, <5>1
        <5>3. e \in p[x] /\ e \notin p[root]
          BY <1>2, <5>2
        <5>4. QED
          BY <3>3, <5>3
      <4>3. j \in Told(o, rs, 0) /\ after[j] = rs[j]
        BY <1>3, <3>1, <4>2
      <4> DEFINE m == rs[j].node
      <4>4. m \in q[x] /\ m \notin q[root]
        BY <2>3, <3>1, <4>3
      <4>5. m \in Element
        <5>1. IsTree(p) /\ q \in [Element -> SUBSET Element]
          BY <1>1, <1>2 DEF q, Reparented
        <5>2. QED
          BY <4>4, <5>1
      <4> HIDE DEF m
      <4>6. m \in p[x] /\ m \notin p[root]
        BY <1>1, <1>2, <3>3, <4>1, <4>4, <4>5
      <4>7. j \in Removes(o, x, p, rs, 0)
        BY <3>1, <4>3, <4>6 DEF m, Removes
      <4>8. \E i \in F(x) : i > j
        BY <2>3, <4>1, <4>6, <4>7 DEF m, F, Owed
      <4>9. QED
        BY <4>1, <4>8
    <3>4. QED
      BY <3>2, <3>3
  <2>4. QED
    BY <1>6, <2>1, <2>2, <2>3
<1>12. Owed(o, map, attribute, name, q, after, 0)
  BY <1>11 DEF Owed
<1>13. QED
  BY <1>7, <1>12 DEF q

\* The record of a change of an attribute of e.
Noted(o, e, type, p, rs, after, tr) ==
    LET new == (Len(rs) + 1)..Len(after)
    IN  /\ Len(rs) \in Nat /\ Len(after) \in Nat /\ Len(after) >= Len(rs)
        /\ \A j \in 1..Len(rs) : after[j] = rs[j]
        /\ \A j \in new : after[j].node = e /\ after[j].type = type
        /\ \A x \in p[e] : x = o[1] \/ <<o, x>> \in tr
              => \E j \in new : o \in after[j].to

\* A change of an attribute, the observer's own or another one, keeps its account
\* true.
LEMMA AccountNoted ==
    ASSUME NEW p, IsTree(p), NEW e \in Element, NEW type, type \notin {"remove", "add"},
           NEW o, NEW rs, NEW after, NEW tr, Noted(o, e, type, p, rs, after, tr),
           NEW map, IsMap(map), NEW attribute, NEW name, NEW changed,
           \A x \in Element : x # e \/ type # name => changed[x] = attribute[x],
           name \notin {"remove", "add"},
           Owed(o, map, attribute, name, p, rs, 0), Pursued(o, map, p, rs, tr)
    PROVE  /\ Owed(o, map, changed, name, p, after, 0)
           /\ Pursued(o, map, p, after, tr)
<1> DEFINE root == o[1]
           new == (Len(rs) + 1)..Len(after)
<1>1. /\ \A j \in Told(o, rs, 0) :
            /\ j \in Told(o, after, 0) /\ after[j] = rs[j]
            /\ j \in Nat /\ j <= Len(rs)
      /\ \A j \in Told(o, after, 0) : j \in Told(o, rs, 0) \/ j \in new
      /\ \A j \in new : /\ o \in after[j].to => j \in Told(o, after, 0)
                        /\ j \in Nat /\ j > Len(rs)
  BY DEF Noted, Told
<1>2. \A j \in new : after[j].node = e /\ after[j].type = type
  BY DEF Noted
<1> HIDE DEF new
<1>3. \A x : Removes(o, x, p, after, 0) = Removes(o, x, p, rs, 0)
  <2>1. ASSUME NEW x, NEW j \in Removes(o, x, p, after, 0)
        PROVE  j \in Removes(o, x, p, rs, 0)
    BY <1>1, <1>2 DEF Removes
  <2>2. ASSUME NEW x, NEW j \in Removes(o, x, p, rs, 0)
        PROVE  j \in Removes(o, x, p, after, 0)
    BY <1>1 DEF Removes
  <2>3. QED
    BY <2>1, <2>2
<1>4. \A x : /\ Changes(o, name, x, rs, 0) \subseteq Changes(o, name, x, after, 0)
             /\ Finds(o, name, x, p, rs, 0) \subseteq Finds(o, name, x, p, after, 0)
  BY <1>1 DEF Changes, Finds
<1>5. Pursued(o, map, p, after, tr)
  <2>1. ASSUME NEW j \in Told(o, after, 0), after[j].type = "remove"
        PROVE  <<o, after[j].node>> \in tr
    BY <1>1, <1>2, <2>1 DEF Pursued
  <2>2. QED
    BY <1>3, <2>1 DEF Pursued
\* Whoever knows e, or has it below its root, is told of the change.
<1>6. ASSUME Knows(map, e) \/ root \in p[e]
      PROVE  \E j \in new : o \in after[j].to /\ j \in Told(o, after, 0)
  <2>1. CASE root \in p[e]
    <3>1. \E j \in new : o \in after[j].to
      BY <2>1 DEF Noted, new
    <3>2. QED
      BY <1>1, <3>1
  <2>2. CASE Knows(map, e) /\ root \notin p[e]
    <3>1. Removes(o, e, p, rs, 0) # {}
      BY <2>2 DEF Pursued, Knows
    <3>2. PICK j \in Told(o, rs, 0) : rs[j].type = "remove" /\ rs[j].node \in p[e]
      BY <3>1 DEF Removes
    <3>3. <<o, rs[j].node>> \in tr
      BY <3>2 DEF Pursued
    <3>4. \E i \in new : o \in after[i].to
      BY <3>2, <3>3 DEF Noted, new
    <3>5. QED
      BY <1>1, <3>4
  <2>3. QED
    BY <1>6, <2>1, <2>2
<1>7. ASSUME NEW x \in Element
      PROVE  /\ Knows(map, x) /\ changed[x] # None /\ root \notin p[x]
                => Removes(o, x, p, after, 0) # {}
             /\ \A a \in map : a[1] = x /\ a[2] # changed[x]
                   => Changes(o, name, x, after, 0) # {}
             /\ changed[x] # None /\ root \in p[x] =>
                  /\ ~Knows(map, x) => Finds(o, name, x, p, after, 0) # {}
                  /\ \A j \in Removes(o, x, p, after, 0) : after[j].node \notin p[root]
                     => \E i \in Finds(o, name, x, p, after, 0) : i > j
  <2>1. Knows(map, x) /\ root \notin p[x] => Removes(o, x, p, after, 0) # {}
    BY <1>5 DEF Pursued, Knows
  <2>2. CASE x # e \/ type # name
    <3>1. changed[x] = attribute[x]
      BY <2>2
    <3>2. \A a \in map : a[1] = x /\ a[2] # changed[x]
             => Changes(o, name, x, after, 0) # {}
      BY <1>4, <3>1 DEF Owed
    <3>3. changed[x] # None /\ root \in p[x] /\ ~Knows(map, x)
             => Finds(o, name, x, p, after, 0) # {}
      BY <1>4, <3>1 DEF Owed
    <3>4. ASSUME changed[x] # None, root \in p[x], NEW j \in Removes(o, x, p, after, 0),
                 after[j].node \notin p[root]
          PROVE  \E i \in Finds(o, name, x, p, after, 0) : i > j
      <4>1. j \in Removes(o, x, p, rs, 0) /\ rs[j].node \notin p[root]
        BY <1>1, <1>3, <3>4 DEF Removes
      <4>2. \E i \in Finds(o, name, x, p, rs, 0) : i > j
        BY <3>1, <3>4, <4>1 DEF Owed
      <4>3. QED
        BY <1>4, <4>2
    <3>5. QED
      BY <2>1, <3>2, <3>3, <3>4
  <2>3. CASE x = e /\ type = name
    <3>1. ASSUME Knows(map, x) \/ root \in p[x]
          PROVE  \E i \in Changes(o, name, x, after, 0) : i \in new
      BY <1>2, <1>6, <2>3, <3>1 DEF Changes
    <3>2. \A a \in map : a[1] = x => Changes(o, name, x, after, 0) # {}
      BY <3>1 DEF Knows
    <3>3. ASSUME root \in p[x], NEW j \in Removes(o, x, p, after, 0)
          PROVE  \E i \in Finds(o, name, x, p, after, 0) : i > j
      <4>1. PICK i \in Changes(o, name, x, after, 0) : i \in new
        BY <3>1, <3>3
      <4>2. j \in Told(o, rs, 0)
        BY <1>3 DEF Removes
      <4>3. /\ j \in Nat /\ i \in Nat /\ j <= Len(rs) /\ i > Len(rs)
            /\ Len(rs) \in Nat
        BY <1>1, <4>1, <4>2 DEF Noted
      <4>4. QED
        BY <4>1, <4>3 DEF Finds
    <3>4. root \in p[x] => Finds(o, name, x, p, after, 0) # {}
      BY <3>1 DEF Finds
    <3>5. QED
      BY <2>1, <3>2, <3>3, <3>4
  <2>4. QED
    BY <2>2, <2>3
<1>8. Owed(o, map, changed, name, p, after, 0)
  BY <1>7 DEF Owed
<1>9. QED
  BY <1>5, <1>8

\* An observer that has just started owes nothing.
LEMMA AccountFresh ==
    ASSUME NEW attribute \in [Element -> Tokens \union {None}], NEW o, NEW name,
           NEW tr, NEW map, map = Refresh(o[1], attribute)
    PROVE  /\ IsMap(map)
           /\ Owed(o, map, attribute, name, path, <<>>, 0)
           /\ Pursued(o, map, path, <<>>, tr)
<1>1. Told(o, <<>>, 0) = {}
  BY DEF Told
<1>2. /\ IsMap(map)
      /\ \A a \in map : o[1] \in path[a[1]]
  BY Refreshed
<1>3. Owed(o, map, attribute, name, path, <<>>, 0)
  BY <1>1, <1>2, NothingOwed
<1>4. Pursued(o, map, path, <<>>, tr)
  BY <1>1, <1>2 DEF Pursued
<1>5. QED
  BY <1>2, <1>3, <1>4

\* One record is added at the end for the observers to tell, if there are any.
Logged(rs, after, type, node, to) ==
    /\ after \in Seq(RecordType)
    /\ Len(rs) \in Nat /\ Len(after) \in Nat /\ Len(after) >= Len(rs)
    /\ \A j \in 1..Len(rs) : after[j] = rs[j]
    /\ \A j \in (Len(rs) + 1)..Len(after) :
         /\ j = Len(rs) + 1
         /\ after[j].type = type /\ after[j].node = node /\ after[j].to = to
    /\ to # {} => Len(rs) + 1 \in (Len(rs) + 1)..Len(after)
    /\ to = {} => after = rs

\* What Record adds at the end.
LEMMA Recorded ==
    ASSUME NEW rs \in Seq(RecordType), NEW type \in Types, NEW node \in Element,
           NEW ancestors
    PROVE  Logged(rs, rs \o Record(type, node, ancestors), type, node,
                  Interested(ancestors))
<1> DEFINE I == Interested(ancestors)
           r == [type |-> type, node |-> node, to |-> I]
<1>1. I \subseteq Observers
  BY DEF Interested
<1>2. r \in RecordType
  BY <1>1 DEF RecordType
<1>3. CASE I = {}
  <2>1. rs \o Record(type, node, ancestors) = rs
    BY <1>3 DEF Record
  <2>2. Len(rs) \in Nat
    OBVIOUS
  <2>3. Logged(rs, rs, type, node, I)
    BY <1>3, <2>2 DEF Logged
  <2>4. QED
    BY <2>1, <2>3
<1>4. CASE I # {}
  <2> DEFINE after == rs \o Record(type, node, ancestors)
  <2>1. after = rs \o <<r>>
    BY <1>4 DEF Record
  <2> HIDE DEF after, r
  <2>2. /\ after \in Seq(RecordType)
        /\ Len(rs) \in Nat /\ Len(after) = Len(rs) + 1
        /\ \A j \in 1..Len(rs) : after[j] = rs[j]
        /\ after[Len(rs) + 1] = r
    BY <1>2, <2>1
  <2>3. r.type = type /\ r.node = node /\ r.to = I
    BY DEF r
  <2>4. \A j \in (Len(rs) + 1)..Len(after) : j = Len(rs) + 1
    BY <2>2
  <2>5. Logged(rs, after, type, node, I)
    BY <1>4, <2>2, <2>3, <2>4 DEF Logged
  <2>6. QED
    BY <2>5 DEF after, I
<1>5. QED
  BY <1>3, <1>4

----------------------------------------------------------------------------
(* The inductive invariant.                                                *)

\* Nothing is known and nothing is due before the application has started.
Idle == ~started => seen = {} /\ records = <<>>

Routing == IsMap(seen) /\ connected = Scopes(seen)

Account(o, map, attribute, name) ==
    /\ IsMap(map)
    /\ Owed(o, map, attribute, name, path, records, 0)
    /\ Pursued(o, map, path, records, transient)

\* Every observer has a true account: what it knows and what it is still to be
\* told of make the document.
Accounts ==
    /\ started => Account(RouterObserver, seen, controller, "data-controller")
    /\ \A c \in connected :
          Account(c, BoundOf(RouterState, c), action, "data-action")

\* A context is told of the removal of its own element, or of one around it, only
\* if the router is told of one as well: it will be stopped or start afresh.
Restarts ==
    /\ \A j \in DOMAIN records : records[j].type = "remove" => records[j].node # Root
    /\ \A c \in connected : \A j \in Told(c, records, 0) :
          records[j].type = "remove" /\ records[j].node \in path[c[1]]
          => Removes(RouterObserver, c[1], path, records, 0) # {}

Inv == /\ TypeOK
       /\ IsTree(path)
       /\ Idle
       /\ Routing
       /\ Accounts
       /\ Restarts
       /\ InitializedOnce

\* The types, for the lemmas that need them one by one.
LEMMA Typed ==
    ASSUME TypeOK
    PROVE  /\ controller \in [Element -> Tokens \union {None}]
           /\ action \in [Element -> Tokens \union {None}]
           /\ records \in Seq(RecordType)
           /\ \A c \in connected : c[1] \in Element /\ c \in Context /\ c \in Observers
           /\ \A c : BoundOf(RouterState, c) = {b[2] : b \in {x \in bound : x[1] = c}}
<1>1. records \in Seq(RecordType)
  BY DEF TypeOK, RecordType, Types
<1>2. \A c \in connected : c[1] \in Element /\ c \in Context /\ c \in Observers
  BY DEF TypeOK, Context, Observers
<1>3. QED
  BY <1>1, <1>2 DEF TypeOK, BoundOf, RouterState

\* The records of a move, for an observer.
LEMMA MoveRecorded ==
    ASSUME NEW e \in Element, NEW above, NEW rs, NEW mid, NEW after,
           Logged(rs, mid, "remove", e, Interested(Above(e))),
           Logged(mid, after, "add", e, Interested(above)),
           NEW o \in Observers
    PROVE  /\ Moved(o, e, above, path, rs, after, transient, Followed(e))
           /\ \A j \in 1..Len(after) :
                 \/ j \in 1..Len(rs) /\ after[j] = rs[j]
                 \/ j \in (Len(rs) + 1)..Len(after) /\ after[j].node = e
<1> DEFINE L == Len(rs)
           M == Len(mid)
           N == Len(after)
<1>1. /\ L \in Nat /\ M \in Nat /\ M >= L
      /\ \A j \in 1..L : mid[j] = rs[j]
      /\ \A j \in (L + 1)..M : /\ j = L + 1
                               /\ mid[j].type = "remove" /\ mid[j].node = e
                               /\ mid[j].to = Interested(Above(e))
      /\ Interested(Above(e)) # {} => L + 1 \in (L + 1)..M
  BY DEF Logged
<1>2. /\ N \in Nat /\ N >= M
      /\ \A j \in 1..M : after[j] = mid[j]
      /\ \A j \in (M + 1)..N : /\ j = M + 1
                               /\ after[j].type = "add" /\ after[j].node = e
                               /\ after[j].to = Interested(above)
      /\ Interested(above) # {} => M + 1 \in (M + 1)..N
  BY DEF Logged
<1> HIDE DEF L, M, N
<1>3. \A j \in 1..L : after[j] = rs[j]
  BY <1>1, <1>2
<1>4. ASSUME NEW j \in (L + 1)..N
      PROVE  \/ /\ j \in (L + 1)..M
                /\ after[j].type = "remove" /\ after[j].node = e
                /\ after[j].to = Interested(Above(e))
             \/ /\ j \in (M + 1)..N
                /\ after[j].type = "add" /\ after[j].node = e
                /\ after[j].to = Interested(above)
  BY <1>1, <1>2
<1>5. \A j \in (L + 1)..N : /\ after[j].node = e /\ after[j].type \in {"remove", "add"}
                            /\ after[j].type = "remove" /\ o \in after[j].to
                               => <<o, e>> \in Followed(e)
  BY <1>4 DEF Followed
<1>6. ASSUME NEW x \in path[e], x # e, x = o[1] \/ <<o, x>> \in transient
      PROVE  \E j \in (L + 1)..N : after[j].type = "remove" /\ o \in after[j].to
  <2>1. o \in Interested(Above(e))
    BY <1>6 DEF Interested, Above
  <2>2. L + 1 \in (L + 1)..M /\ L + 1 \in (L + 1)..N /\ L + 1 \in 1..M
    BY <1>1, <1>2, <2>1
  <2>3. QED
    BY <1>1, <1>2, <2>1, <2>2
<1>7. ASSUME o[1] \in above
      PROVE  \E j \in (L + 1)..N :
                /\ after[j].type = "add" /\ o \in after[j].to
                /\ \A i \in (L + 1)..N : after[i].type = "remove" => i < j
  <2>1. o \in Interested(above)
    BY <1>7 DEF Interested
  <2>2. M + 1 \in (M + 1)..N /\ M + 1 \in (L + 1)..N
    BY <1>1, <1>2, <2>1
  <2>3. \A i \in (L + 1)..N : after[i].type = "remove" => i < M + 1
    BY <1>1, <1>4
  <2>4. QED
    BY <1>2, <2>1, <2>2, <2>3
<1>8. transient \subseteq Followed(e)
  BY DEF Followed
<1>9. N >= L
  BY <1>1, <1>2
<1>10. Moved(o, e, above, path, rs, after, transient, Followed(e))
  BY SMTT(60), <1>1, <1>2, <1>3, <1>5, <1>6, <1>7, <1>8, <1>9 DEF Moved, L, N
<1>11. \A j \in 1..N : \/ j \in 1..L /\ after[j] = rs[j]
                       \/ j \in (L + 1)..N /\ after[j].node = e
  <2>1. ASSUME NEW j \in 1..N, j \notin 1..L PROVE j \in (L + 1)..N
    BY <1>1, <1>2, <2>1
  <2>2. QED
    BY <1>3, <1>5, <2>1
<1>12. QED
  BY <1>10, <1>11 DEF L, N

\* Any move of a node keeps the invariant.
LEMMA MoveKeeps ==
    ASSUME Inv, NEW e \in Element, e # Root, NEW above, Place(path, e, above),
           path' = Reparented(path, e, above),
           NEW mid, Logged(records, mid, "remove", e, Interested(Above(e))),
           Logged(mid, records', "add", e, Interested(above)),
           transient' = Followed(e), changes < MaxChanges, changes' = changes + 1,
           UNCHANGED <<controller, action, loaded, started, seen, connected, bound, created>>
    PROVE  Inv'
<1>1. TypeOK /\ IsTree(path)
  BY DEF Inv
<1>2. Observers' = Observers
  BY DEF Observers
<1>3. /\ records' \in Seq(RecordType)
      /\ \A o \in Observers :
           /\ Moved(o, e, above, path, records, records', transient, transient')
           /\ \A j \in 1..Len(records') :
                 \/ j \in 1..Len(records) /\ records'[j] = records[j]
                 \/ j \in (Len(records) + 1)..Len(records') /\ records'[j].node = e
  <2>1. records' \in Seq(RecordType)
    BY DEF Logged
  <2>2. QED
    BY <2>1, MoveRecorded
<1>4. /\ started => RouterObserver \in Observers
      /\ \A c \in connected : c \in Observers /\ c[1] \in Element
      /\ RouterObserver[1] = Root /\ Root \in Element
  BY <1>1, Typed, StimulusAssumption DEF Observers, RouterObserver
<1>5. ASSUME NEW o \in Observers, o[1] \in Element, NEW map, NEW attribute,
             NEW name, name \notin {"remove", "add"},
             IsMap(map), Owed(o, map, attribute, name, path, records, 0),
             Pursued(o, map, path, records, transient)
      PROVE  /\ Owed(o, map, attribute, name, path', records', 0)
             /\ Pursued(o, map, path', records', transient')
  <2>1. Moved(o, e, above, path, records, records', transient, transient')
    BY <1>3
  <2>2. QED
    BY <1>1, <1>5, <2>1, AccountMoved
<1>6. (IsTree(path))'
  BY <1>1, ReparentedTree
<1>7. Accounts'
  <2>1. started => Account(RouterObserver, seen, controller, "data-controller")'
    <3>1. SUFFICES ASSUME started
                   PROVE  Account(RouterObserver, seen, controller, "data-controller")'
      OBVIOUS
    <3>2. /\ IsMap(seen)
          /\ Owed(RouterObserver, seen, controller, "data-controller", path, records, 0)
          /\ Pursued(RouterObserver, seen, path, records, transient)
      BY <3>1 DEF Inv, Accounts, Account
    <3>3. /\ Owed(RouterObserver, seen, controller, "data-controller", path', records', 0)
          /\ Pursued(RouterObserver, seen, path', records', transient')
      BY <1>4, <1>5, <3>1, <3>2
    <3>4. RouterObserver' = RouterObserver
      BY DEF RouterObserver
    <3>5. QED
      BY <3>2, <3>3, <3>4 DEF Account
  <2>2. ASSUME NEW c \in connected
        PROVE  Account(c, BoundOf(RouterState, c), action, "data-action")'
    <3> DEFINE m == BoundOf(RouterState, c)
    <3>1. m' = m
      BY DEF BoundOf, RouterState
    <3>2. IsMap(m) /\ Owed(c, m, action, "data-action", path, records, 0)
          /\ Pursued(c, m, path, records, transient)
      BY DEF Inv, Accounts, Account
    <3> HIDE DEF m
    <3>3. /\ Owed(c, m, action, "data-action", path', records', 0)
          /\ Pursued(c, m, path', records', transient')
      BY <1>4, <1>5, <3>2
    <3>4. Account(c, m, action, "data-action")'
      BY <3>1, <3>2, <3>3 DEF Account
    <3>5. QED
      BY <3>4 DEF m
  <2>3. QED
    BY <2>1, <2>2 DEF Accounts
<1>8. \A j \in DOMAIN records' : records'[j].type = "remove" => records'[j].node # Root
  <2>1. \A j \in 1..Len(records) : records[j].type = "remove" => records[j].node # Root
    BY <1>1, Typed DEF Inv, Restarts
  <2>2. ASSUME NEW j \in DOMAIN records', records'[j].type = "remove"
        PROVE  records'[j].node # Root
    <3>1. j \in 1..Len(records')
      BY <1>3
    <3>2. \/ j \in 1..Len(records) /\ records'[j] = records[j]
          \/ records'[j].node = e
      BY SMTT(60), <1>3, <3>1 DEF Logged
    <3>3. QED
      BY <2>1, <2>2, <3>2
  <2>3. QED
    BY <2>2
<1>9. ASSUME NEW c \in connected, NEW j \in Told(c, records', 0),
             records'[j].type = "remove", records'[j].node \in path'[c[1]]
      PROVE  Removes(RouterObserver, c[1], path', records', 0) # {}
  <2> DEFINE x == c[1]
             Rm == Removes(RouterObserver, x, path, records, 0)
             RmNext == Removes(RouterObserver, x, path', records', 0)
  <2>1. x \in Element /\ Knows(seen, x) /\ c \in Observers
    BY <1>4, ScopesKnown DEF Inv, Routing
  <2>2. started
    BY <2>1 DEF Inv, Idle, Knows
  <2>3. /\ RouterObserver \in Observers
        /\ Moved(RouterObserver, e, above, path, records, records', transient, Followed(e))
        /\ Pursued(RouterObserver, seen, path, records, transient)
    BY <1>3, <1>4, <2>2 DEF Inv, Accounts, Account
  <2> HIDE DEF x
  <2>4. Rm # {} => RmNext # {}
    BY <1>1, <2>1, <2>3, RemovesMoved DEF Pursued
  <2>5. CASE Root \notin path[x]
    <3>1. Rm # {}
      BY <1>4, <2>1, <2>3, <2>5 DEF Pursued, Knows
    <3>2. QED
      BY <2>4, <3>1 DEF x
  <2>6. CASE Root \in path[x] /\ e \in path[x]
    <3>1. path[Root] = {Root}
      BY <1>1 DEF IsTree
    <3>2. Root \in path[e] /\ e \in path'[x]
      BY <1>1, <1>4, <2>1, <2>6, <3>1, ReparentedPath DEF IsTree
    <3>3. PICK i \in (Len(records) + 1)..Len(records') :
             records'[i].type = "remove" /\ RouterObserver \in records'[i].to
      BY <1>4, <2>3, <3>2 DEF Moved
    <3>4. i \in Told(RouterObserver, records', 0) /\ records'[i].node = e
      BY ZenonT(60), <2>3, <3>3, ToldMoved DEF Moved
    <3>5. i \in RmNext
      BY <3>2, <3>3, <3>4 DEF Removes
    <3>6. QED
      BY <3>5 DEF x
  <2>7. CASE Root \in path[x] /\ e \notin path[x]
    <3>1. path'[x] = path[x]
      BY <1>1, <2>1, <2>7, ReparentedPath
    <3>2. Moved(c, e, above, path, records, records', transient, Followed(e))
      BY <1>3, <2>1
    <3>3. j \in Told(c, records, 0) \/ j \in (Len(records) + 1)..Len(records')
      BY <1>9, <3>2, ToldMoved
    <3>4. j \notin (Len(records) + 1)..Len(records')
      BY <1>9, <2>7, <3>1, <3>2 DEF Moved, x
    <3>5. j \in Told(c, records, 0) /\ records'[j] = records[j]
      BY <3>2, <3>3, <3>4, ToldMoved
    <3>6. Rm # {}
      BY <1>9, <3>1, <3>5 DEF Inv, Restarts, x
    <3>7. QED
      BY <2>4, <3>6 DEF x
  <2>8. QED
    BY <2>5, <2>6, <2>7
<1>10. Restarts'
  <2>1. RouterObserver' = RouterObserver
    BY DEF RouterObserver
  <2>2. QED
    BY <1>8, <1>9, <2>1 DEF Restarts
<1>11. TypeOK'
  <2>1. path' \in [Element -> SUBSET Element]
    BY <1>6 DEF IsTree
  <2>2. records' \in Seq([type : Types, node : Element, to : SUBSET Observers'])
    BY <1>2, <1>3 DEF RecordType
  <2>3. transient' \subseteq Observers' \X Element
    BY <1>1, <1>2 DEF TypeOK, Followed, Interested
  <2>4. changes' \in 0..MaxChanges
    BY <1>1, StimulusAssumption DEF TypeOK
  <2>5. QED
    BY <1>1, <2>1, <2>2, <2>3, <2>4 DEF TypeOK, Types
<1>12. Routing' /\ InitializedOnce'
  BY DEF Inv, Routing, InitializedOnce, Scopes
<1>13. Idle'
  <2>1. SUFFICES ASSUME ~started PROVE seen = {} /\ records' = <<>>
    BY DEF Idle
  <2>2. seen = {} /\ records = <<>> /\ connected = {}
    BY <1>4, <2>1, ScopesKnown DEF Inv, Idle, Routing, Knows
  <2>3. Observers = {}
    BY <2>1, <2>2 DEF Observers
  <2>4. Interested(Above(e)) = {} /\ Interested(above) = {}
    BY <2>3 DEF Interested
  <2>5. QED
    BY <2>2, <2>4 DEF Logged
<1>14. QED
  BY <1>6, <1>7, <1>10, <1>11, <1>12, <1>13 DEF Inv

\* So does any change of an attribute.
LEMMA NoteKeeps ==
    ASSUME Inv, NEW e \in Element, NEW type \in {"data-controller", "data-action"},
           Logged(records, records', type, e, Interested(path[e])),
           NEW t \in Lists,
           controller' = IF type = "data-controller" THEN [controller EXCEPT ![e] = t]
                         ELSE controller,
           action' = IF type = "data-action" THEN [action EXCEPT ![e] = t] ELSE action,
           changes < MaxChanges, changes' = changes + 1,
           UNCHANGED <<path, transient, loaded, started, seen, connected, bound, created>>
    PROVE  Inv'
<1> DEFINE L == Len(records)
           N == Len(records')
<1>1. TypeOK /\ IsTree(path)
  BY DEF Inv
<1>2. Observers' = Observers /\ RouterObserver' = RouterObserver
  BY DEF Observers, RouterObserver
<1>3. /\ records' \in Seq(RecordType)
      /\ L \in Nat /\ N \in Nat /\ N >= L
      /\ \A j \in 1..L : records'[j] = records[j]
      /\ \A j \in (L + 1)..N : /\ records'[j].node = e /\ records'[j].type = type
                               /\ records'[j].to = Interested(path[e])
      /\ Interested(path[e]) # {} => L + 1 \in (L + 1)..N
      /\ Interested(path[e]) = {} => records' = records
  BY DEF Logged
<1> HIDE DEF L, N
<1>4. type \notin {"remove", "add"}
  OBVIOUS
<1>5. /\ started => RouterObserver \in Observers
      /\ \A c \in connected : c \in Observers /\ c[1] \in Element
      /\ RouterObserver[1] = Root
  BY <1>1, Typed DEF Observers, RouterObserver
<1>6. ASSUME NEW o \in Observers
      PROVE  Noted(o, e, type, path, records, records', transient)
  <2>1. ASSUME NEW x \in path[e], x = o[1] \/ <<o, x>> \in transient
        PROVE  \E j \in (L + 1)..N : o \in records'[j].to
    <3>1. o \in Interested(path[e])
      BY <2>1 DEF Interested
    <3>2. QED
      BY SMTT(60), <1>3, <3>1
  <2>2. QED
    BY <1>3, <2>1 DEF Noted, L, N
<1>7. /\ \A x \in Element : x # e \/ type # "data-controller" => controller'[x] = controller[x]
      /\ \A x \in Element : x # e \/ type # "data-action" => action'[x] = action[x]
  BY <1>1 DEF TypeOK
<1>8. ASSUME NEW o \in Observers, NEW map, NEW attribute, NEW changed, NEW name,
              name \notin {"remove", "add"}, IsMap(map),
              \A x \in Element : x # e \/ type # name => changed[x] = attribute[x],
              Owed(o, map, attribute, name, path, records, 0),
              Pursued(o, map, path, records, transient)
       PROVE  /\ Owed(o, map, changed, name, path, records', 0)
              /\ Pursued(o, map, path, records', transient)
  <2>1. Noted(o, e, type, path, records, records', transient)
    BY <1>6
  <2>2. QED
    BY <1>1, <1>4, <1>8, <2>1, AccountNoted
<1>9. Accounts'
  <2>1. ASSUME started
        PROVE  Account(RouterObserver, seen, controller, "data-controller")'
    <3>1. /\ IsMap(seen)
          /\ Owed(RouterObserver, seen, controller, "data-controller", path, records, 0)
          /\ Pursued(RouterObserver, seen, path, records, transient)
      BY <2>1 DEF Inv, Accounts, Account
    <3>2. PICK changed : changed = controller'
      OBVIOUS
    <3>3. PICK o : o = RouterObserver
      OBVIOUS
    <3>4. /\ o \in Observers
          /\ Owed(o, seen, controller, "data-controller", path, records, 0)
          /\ Pursued(o, seen, path, records, transient)
          /\ \A x \in Element : x # e \/ type # "data-controller" => changed[x] = controller[x]
      BY <1>5, <1>7, <2>1, <3>1, <3>2, <3>3
    <3>5. /\ Owed(o, seen, changed, "data-controller", path, records', 0)
          /\ Pursued(o, seen, path, records', transient)
      BY <1>8, <3>1, <3>4
    <3>6. /\ Owed(RouterObserver, seen, controller', "data-controller", path, records', 0)
          /\ Pursued(RouterObserver, seen, path, records', transient)
      BY <3>2, <3>3, <3>5
    <3>7. QED
      BY <1>2, <3>1, <3>6 DEF Account
  <2>2. ASSUME NEW c \in connected
        PROVE  Account(c, BoundOf(RouterState, c), action, "data-action")'
    <3> DEFINE m == BoundOf(RouterState, c)
    <3>1. m' = m
      BY DEF BoundOf, RouterState
    <3>2. IsMap(m) /\ Owed(c, m, action, "data-action", path, records, 0)
          /\ Pursued(c, m, path, records, transient)
      BY DEF Inv, Accounts, Account
    <3> HIDE DEF m
    <3>4. /\ Owed(c, m, action', "data-action", path, records', 0)
          /\ Pursued(c, m, path, records', transient)
      BY ZenonT(60), <1>5, <1>7, <1>8, <3>2
    <3>5. Account(c, m, action, "data-action")'
      BY <3>1, <3>2, <3>4 DEF Account
    <3>6. QED
      BY <3>5 DEF m
  <2>3. QED
    BY <2>1, <2>2 DEF Accounts
<1>10. \A j \in 1..N : j \in 1..L \/ j \in (L + 1)..N
  BY <1>3
<1>11. Restarts'
  <2>1. ASSUME NEW j \in DOMAIN records', records'[j].type = "remove"
        PROVE  j \in DOMAIN records /\ records'[j] = records[j]
    <3>1. j \in 1..N /\ DOMAIN records = 1..L
      BY <1>1, <1>3, Typed DEF L, N
    <3>2. QED
      BY <1>3, <1>4, <1>10, <2>1, <3>1
  <2>2. \A o : \A j \in Told(o, records', 0) : records'[j].type = "remove"
           => j \in Told(o, records, 0) /\ records'[j] = records[j]
    <3>1. DOMAIN records' = 1..N /\ DOMAIN records = 1..L
      BY <1>1, <1>3, Typed DEF L, N
    <3>2. QED
      BY <2>1, <3>1 DEF Told, L, N
  <2>3. \A o, x : Removes(o, x, path, records, 0) \subseteq Removes(o, x, path, records', 0)
    <3>1. \A j \in 1..L : j \in 1..N
      BY <1>3
    <3>2. QED
      BY <1>3, <3>1 DEF Removes, Told, L, N
  <2>4. QED
    BY <1>2, <2>1, <2>2, <2>3 DEF Inv, Restarts
<1>12. TypeOK'
  <2>1. records' \in Seq([type : Types, node : Element, to : SUBSET Observers'])
    BY <1>2, <1>3 DEF RecordType
  <2>2. t \in Tokens \union {None}
    BY StimulusAssumption
  <2>3. {controller', action'} \subseteq [Element -> Tokens \union {None}]
    BY <1>1, <2>2, Typed
  <2>4. changes' \in 0..MaxChanges
    BY <1>1, StimulusAssumption DEF TypeOK
  <2>5. QED
    BY <1>1, <1>2, <2>1, <2>3, <2>4 DEF TypeOK, Types
<1>13. Routing' /\ InitializedOnce' /\ (IsTree(path))'
  BY DEF Inv, Routing, InitializedOnce, Scopes
<1>14. Idle'
  <2>1. SUFFICES ASSUME ~started PROVE seen = {} /\ records' = <<>>
    BY DEF Idle
  <2>2. seen = {} /\ records = <<>> /\ connected = {}
    BY <2>1, ScopesKnown DEF Inv, Idle, Routing, Knows
  <2>3. Interested(path[e]) = {}
    BY <2>1, <2>2 DEF Observers, Interested
  <2>4. QED
    BY <1>3, <2>2, <2>3
<1>15. QED
  BY <1>9, <1>11, <1>12, <1>13, <1>14 DEF Inv
----------------------------------------------------------------------------
(* The application's own steps: afterwards nothing is due.                 *)

\* The router that starts or refreshes has the contexts the document asks for.
LEMMA RefreshedScopes ==
    ASSUME controller \in [Element -> Tokens \union {None}], NEW c \in Context
    PROVE  c[2] \in ToSet(TokensOf(Refresh(Root, controller), c[1]))
             <=> IsConnected(c[1]) /\ Has(c[1], c[2])
<1> DEFINE F == Refresh(Root, controller)
           e == c[1]
<1>1. e \in Element
  BY DEF Context
<1>2. /\ IsMap(F)
      /\ F = {a \in Element \X Tokens : Root \in path[a[1]] /\ a[2] = controller[a[1]]}
      /\ Knows(F, e) <=> Root \in path[e] /\ controller[e] # None
  BY <1>1, Refreshed
<1> HIDE DEF F, e
<1>3. ToSet(<<>>) = {}
  BY DEF ToSet
<1>4. CASE Knows(F, e)
  <2>1. PICK a \in F : a[1] = e
    BY <1>4 DEF Knows
  <2>2. TokensOf(F, e) = controller[e]
    BY <1>2, <2>1, TokensOfMap
  <2>3. Read(controller, e) = controller[e] /\ IsConnected(e)
    BY <1>2, <1>4 DEF Read, IsConnected
  <2>4. QED
    BY <2>2, <2>3 DEF F, e, Has
<1>5. CASE ~Knows(F, e)
  <2>1. TokensOf(F, e) = <<>>
    BY <1>2, <1>5, TokensOfMap
  <2>2. ~ IsConnected(e) \/ Read(controller, e) = <<>>
    BY <1>2, <1>5 DEF Read, IsConnected
  <2>3. QED
    BY <1>3, <2>1, <2>2 DEF F, e, Has
<1>6. QED
  BY <1>4, <1>5

\* Contexts that connect together have, each of them, the actions below it.
LEMMA BoundTogether ==
    ASSUME action \in [Element -> Tokens \union {None}],
           NEW cs \in SUBSET Context, NEW c \in cs
    PROVE  {b[2] : b \in {x \in BindAll(cs) : x[1] = c}} = Refresh(c[1], action)
<1> DEFINE F == Refresh(c[1], action)
           B == BindAll(cs)
<1>1. F \subseteq Element \X Tokens
  BY Refreshed DEF IsMap
<1>2. \A b : b \in B <=> b \in cs \X (Element \X Tokens) /\ b[2] \in Refresh(b[1][1], action)
  BY BindAllIs
<1> HIDE DEF B
<1>3. ASSUME NEW b \in B, b[1] = c PROVE b[2] \in F
  BY <1>2, <1>3
<1>4. ASSUME NEW a \in F PROVE \E b \in B : b[1] = c /\ b[2] = a
  <2>1. <<c, a>> \in cs \X (Element \X Tokens) /\ <<c, a>>[1] = c /\ <<c, a>>[2] = a
    BY <1>1, <1>4
  <2>2. <<c, a>> \in B
    BY <1>2, <1>4, <2>1
  <2>3. QED
    BY <2>1, <2>2
<1>5. QED
  BY <1>3, <1>4 DEF B

\* When no record is due, what the observers know is the document, and the
\* router is as it would be if it had just started.
LEMMA NothingDue ==
    ASSUME Inv, records = <<>>
    PROVE  /\ started => seen = Refresh(Root, controller)
           /\ \A c \in connected : BoundOf(RouterState, c) = Refresh(c[1], action)
<1>1. /\ controller \in [Element -> Tokens \union {None}]
      /\ action \in [Element -> Tokens \union {None}]
  BY Typed DEF Inv
<1>2. \A o : Told(o, records, 0) = {}
  BY DEF Told
<1>3. started => seen = Refresh(Root, controller)
  <2>1. RouterObserver[1] = Root
    BY DEF RouterObserver
  <2>2. started => /\ IsMap(seen)
                   /\ Owed(RouterObserver, seen, controller, "data-controller", path, records, 0)
    BY DEF Inv, Accounts, Account
  <2>3. QED
    BY <1>1, <1>2, <2>1, <2>2, NothingOwed
<1>4. ASSUME NEW c \in connected
      PROVE  BoundOf(RouterState, c) = Refresh(c[1], action)
  <2> DEFINE m == BoundOf(RouterState, c)
  <2>1. IsMap(m) /\ Owed(c, m, action, "data-action", path, records, 0)
    BY DEF Inv, Accounts, Account
  <2> HIDE DEF m
  <2>2. m = Refresh(c[1], action)
    BY <1>1, <1>2, <2>1, NothingOwed
  <2>3. QED
    BY <2>2 DEF m
<1>5. QED
  BY <1>3, <1>4

\* The router between two steps: it is sound, and has touched no context.
LEMMA RouterRests ==
    ASSUME Inv
    PROVE  RouterSound(RouterState) /\ LeftAlone(RouterState)
<1>1. /\ RouterState.seen = seen /\ RouterState.connected = connected
      /\ RouterState.bound = bound /\ RouterState.created = created
      /\ RouterState.touched = {}
  BY DEF RouterState
<1>2. RouterState \in RouterStates
  <2>1. bound \subseteq Context \X (Element \X Tokens)
    BY DEF Inv, TypeOK
  <2>2. QED
    BY <2>1 DEF Inv, TypeOK, RouterStates, RouterState
<1>3. \A b \in bound : b[1] \in connected
  BY DEF Inv, TypeOK
<1>4. LeftAlone(RouterState)
  BY <1>1 DEF LeftAlone
<1>5. CreatedOnce(RouterState)
  BY <1>1 DEF Inv, InitializedOnce, CreatedOnce
<1>6. QED
  BY <1>1, <1>2, <1>3, <1>4, <1>5 DEF Inv, Routing, RouterSound

\* A step that leaves nothing due, and the observers with the document, keeps the
\* invariant and brings the contexts in line with the document.
LEMMA Settled ==
    ASSUME Inv, UNCHANGED <<dom, changes>>, records' = <<>>,
           loaded' \subseteq Identifier, started' \in BOOLEAN,
           transient' \subseteq Observers' \X Element,
           seen' = IF started' THEN Refresh(Root, controller) ELSE {},
           connected' = Scopes(seen)',
           bound' \subseteq connected' \X (Element \X Tokens),
           \A c \in connected' : BoundOf(RouterState, c)' = Refresh(c[1], action),
           created' \subseteq Context \X Nat, CreatedOnce(RouterState)'
    PROVE  Inv' /\ connected' = Wanted'
<1>1. /\ controller \in [Element -> Tokens \union {None}]
      /\ action \in [Element -> Tokens \union {None}]
      /\ path' = path /\ controller' = controller /\ action' = action
  BY Typed DEF Inv, dom
<1>2. IsMap(seen')
  <2>1. IsMap({})
    BY DEF IsMap
  <2>2. QED
    BY <1>1, <2>1, Refreshed
<1>3. /\ RouterState'.connected = connected' /\ RouterState'.created = created'
  BY DEF RouterState
<1>4. TypeOK'
  <2>1. seen' \subseteq Element \X Tokens /\ connected' \subseteq Context
    BY <1>2 DEF IsMap, Scopes
  <2>2. records' \in Seq([type : Types, node : Element, to : SUBSET Observers'])
    OBVIOUS
  <2>3. QED
    BY <1>1, <2>1, <2>2 DEF Inv, TypeOK, Types, dom
<1>5. Accounts'
  <2>1. ASSUME started'
        PROVE  Account(RouterObserver, seen, controller, "data-controller")'
    <3>1. RouterObserver[1] = Root /\ RouterObserver' = RouterObserver
      BY DEF RouterObserver
    <3>2. seen' = Refresh(RouterObserver[1], controller)
      BY <2>1, <3>1
    <3>3. /\ IsMap(seen')
          /\ Owed(RouterObserver, seen', controller, "data-controller", path, <<>>, 0)
          /\ Pursued(RouterObserver, seen', path, <<>>, transient')
      BY <1>1, <3>2, AccountFresh
    <3>4. QED
      BY <1>1, <3>1, <3>3 DEF Account
  <2>2. ASSUME NEW c \in connected'
        PROVE  Account(c, BoundOf(RouterState, c), action, "data-action")'
    <3> DEFINE m == Refresh(c[1], action)
    <3>1. /\ IsMap(m)
          /\ Owed(c, m, action, "data-action", path, <<>>, 0)
          /\ Pursued(c, m, path, <<>>, transient')
      BY <1>1, AccountFresh
    <3>2. BoundOf(RouterState, c)' = m
      OBVIOUS
    <3> HIDE DEF m
    <3>3. QED
      BY <1>1, <3>1, <3>2 DEF Account
  <2>3. QED
    BY <2>1, <2>2 DEF Accounts
<1>6. Restarts'
  <2>1. \A o : Told(o, records', 0) = {}
    BY DEF Told
  <2>2. QED
    BY <2>1 DEF Restarts
<1>7. Routing' /\ Idle' /\ InitializedOnce' /\ IsTree(path)'
  BY <1>1, <1>2, <1>3 DEF Inv, Routing, Idle, InitializedOnce, CreatedOnce
<1>8. connected' = Wanted'
  <2>1. ASSUME started', NEW c \in Context
        PROVE  c[2] \in ToSet(TokensOf(seen', c[1])) <=> (IsConnected(c[1]) /\ Has(c[1], c[2]))'
    BY <1>1, <2>1, RefreshedScopes DEF IsConnected, Has, Read
  <2>2. CASE started'
    BY <2>1, <2>2 DEF Scopes, Wanted
  <2>3. CASE ~started'
    <3>1. \A c : ~Knows(seen', c[1])
      BY <2>3 DEF Knows
    <3>2. \A c \in Context : ToSet(TokensOf(seen', c[1])) = {}
      BY <3>1 DEF TokensOf, ToSet
    <3>3. QED
      BY SMTT(60), <2>3, <3>2 DEF Scopes, Wanted
  <2>4. QED
    BY <2>2, <2>3
<1>9. QED
  BY <1>4, <1>5, <1>6, <1>7, <1>8 DEF Inv

\* A controller that registers gets the contexts of the elements that were found
\* before; the others are as they were.
LEMMA RegisterKeeps ==
    ASSUME Inv, NEW i \in Identifier, Register(i)
    PROVE  Inv' /\ connected' = Wanted'
<1> DEFINE X == {c \in Context : c[2] = i /\ i \in ToSet(TokensOf(seen, c[1]))}
<1>1. /\ action \in [Element -> Tokens \union {None}]
      /\ connected \subseteq Context /\ X \in SUBSET Context
      /\ bound \subseteq connected \X (Element \X Tokens)
      /\ created \in SUBSET (Context \X Nat)
      /\ IsMap(seen) /\ connected = Scopes(seen)
  BY Typed DEF Inv, TypeOK, Routing
<1>2. /\ i \notin loaded /\ loaded' = loaded \union {i}
      /\ records = <<>> /\ records' = <<>>
      /\ UNCHANGED <<dom, changes>> /\ transient' = transient /\ started' = started
  BY DEF Register
<1>3. /\ seen' = seen
      /\ connected' = connected \union X
      /\ bound' = bound \union BindAll(X)
      /\ created' = FetchContexts(created, X)
  BY DEF Register, Update, ConnectAll, RouterState
<1>4. X \intersect connected = {}
  BY <1>1, <1>2 DEF Scopes
<1>5. connected' = Scopes(seen)'
  BY <1>1, <1>2, <1>3 DEF Scopes
<1> HIDE DEF X
<1>6. \A b : b \in BindAll(X) <=> b \in X \X (Element \X Tokens) /\ b[2] \in Refresh(b[1][1], action)
  BY <1>1, BindAllIs
<1>7. bound' \subseteq connected' \X (Element \X Tokens)
  BY <1>1, <1>3, <1>6
<1>8. ASSUME NEW c \in connected'
      PROVE  BoundOf(RouterState, c)' = Refresh(c[1], action)
  <2>1. BoundOf(RouterState, c)' = {b[2] : b \in {x \in bound' : x[1] = c}}
    BY DEF BoundOf, RouterState
  <2>2. CASE c \in X
    <3>1. {x \in bound' : x[1] = c} = {x \in BindAll(X) : x[1] = c}
      BY <1>1, <1>3, <1>4, <2>2
    <3>2. {b[2] : b \in {x \in BindAll(X) : x[1] = c}} = Refresh(c[1], action)
      BY <1>1, <2>2, BoundTogether
    <3>3. QED
      BY <2>1, <3>1, <3>2
  <2>3. CASE c \notin X
    <3>1. c \in connected
      BY <1>3, <2>3
    <3>2. {x \in bound' : x[1] = c} = {x \in bound : x[1] = c}
      BY <1>3, <1>6, <2>3
    <3>3. {b[2] : b \in {x \in bound : x[1] = c}} = Refresh(c[1], action)
      BY <1>2, <3>1, NothingDue DEF BoundOf, RouterState
    <3>4. QED
      BY <2>1, <3>2, <3>3
  <2>4. QED
    BY <2>2, <2>3
<1>9. created' \subseteq Context \X Nat /\ CreatedOnce(RouterState)'
  <2>1. \A k \in created : k[2] = 1
    BY DEF Inv, InitializedOnce
  <2>2. /\ created' \in SUBSET (Context \X Nat)
        /\ created \subseteq created'
        /\ \A k \in created' : k[2] = 1
        /\ \A c \in X : <<c, 1>> \in created'
    BY <1>1, <1>3, <2>1, FetchedContexts
  <2>3. \A c \in connected' : <<c, 1>> \in created'
    BY <1>3, <2>2 DEF Inv, InitializedOnce
  <2>4. QED
    BY <2>2, <2>3 DEF CreatedOnce, RouterState
<1>10. /\ seen' = IF started' THEN Refresh(Root, controller) ELSE {}
       /\ started' \in BOOLEAN /\ loaded' \subseteq Identifier
  BY <1>2, <1>3, NothingDue DEF Inv, Idle, TypeOK
<1>11. transient' \subseteq Observers' \X Element
  <2>1. Observers \subseteq Observers'
    BY <1>2, <1>3 DEF Observers, RouterObserver
  <2>2. QED
    BY <1>2, <2>1 DEF Inv, TypeOK
<1>12. QED
  BY <1>2, <1>5, <1>7, <1>8, <1>9, <1>10, <1>11, Settled

\* The application that starts finds every element with controllers.
LEMMA StartKeeps ==
    ASSUME Inv, Start
    PROVE  Inv' /\ connected' = Wanted'
<1> DEFINE F == Refresh(Root, controller)
           t == Route(RouterState, F)
<1>1. /\ action \in [Element -> Tokens \union {None}]
      /\ controller \in [Element -> Tokens \union {None}]
  BY Typed DEF Inv
<1>2. /\ started' = TRUE /\ loaded' = loaded /\ seen = {} /\ records' = <<>>
      /\ UNCHANGED <<dom, changes>> /\ transient' = transient
  BY DEF Start, Inv, Idle
<1>3. IsMap(F)
  BY <1>1, Refreshed
<1>4. RouterSound(RouterState) /\ LeftAlone(RouterState)
  BY RouterRests
<1> HIDE DEF F
<1>5. RouterSound(t) /\ LeftAlone(t) /\ t.seen = F
  BY <1>1, <1>3, <1>4, RouteSound
<1>6. /\ seen' = t.seen /\ connected' = t.connected
      /\ bound' = t.bound /\ created' = t.created
  BY DEF Start, Update, F
<1> HIDE DEF t
<1>7. /\ t \in RouterStates /\ t.connected = Scopes(t.seen)
      /\ \A b \in t.bound : b[1] \in t.connected
      /\ \A c \in t.connected \intersect t.touched : BoundOf(t, c) = Refresh(c[1], action)
      /\ CreatedOnce(t)
  BY <1>5 DEF RouterSound
<1>8. connected = {}
  BY <1>2, ScopesKnown DEF Inv, Routing, Knows
<1>9. ASSUME NEW c \in t.connected PROVE c \in t.touched /\ BoundOf(t, c) = Refresh(c[1], action)
  <2>1. c \in Context
    BY <1>7 DEF Scopes
  <2>2. c \in t.touched
    BY <1>5, <1>8, <1>9, <2>1 DEF LeftAlone
  <2>3. QED
    BY <1>7, <2>2
<1>10. \A c : BoundOf(RouterState, c)' = BoundOf(t, c)
  BY <1>6 DEF BoundOf, RouterState
<1>11. /\ bound' \subseteq connected' \X (Element \X Tokens)
       /\ created' \subseteq Context \X Nat
  BY <1>6, <1>7 DEF RouterStates
<1>12. CreatedOnce(RouterState)'
  BY <1>6, <1>7 DEF CreatedOnce, RouterState
<1>13. connected' = Scopes(seen)'
  BY <1>2, <1>6, <1>7 DEF Scopes
<1>14. transient' \subseteq Observers' \X Element
  <2>1. Observers \subseteq Observers'
    BY <1>2, <1>8 DEF Observers, RouterObserver
  <2>2. QED
    BY <1>2, <2>1 DEF Inv, TypeOK
<1>15. seen' = Refresh(Root, controller) /\ loaded' \subseteq Identifier
  BY <1>2, <1>5, <1>6 DEF F, Inv, TypeOK
<1>16. \A c \in connected' : BoundOf(RouterState, c)' = Refresh(c[1], action)
  BY <1>6, <1>9, <1>10
<1>17. QED
  BY <1>2, <1>11, <1>12, <1>13, <1>14, <1>15, <1>16, Settled

\* The delivery: the contexts the router touched observe afresh, and the others
\* catch up by their own records.
LEMMA NotifyKeeps ==
    ASSUME Inv, Notify
    PROVE  Inv' /\ connected' = Wanted'
<1> DEFINE R == RouterAfter
           P(c) == IF c \in R.touched THEN BoundOf(R, c) ELSE ContextAfter(c)
<1>1. /\ IsTree(path) /\ records \in Seq(RecordType)
      /\ action \in [Element -> Tokens \union {None}]
      /\ controller \in [Element -> Tokens \union {None}]
  BY Typed DEF Inv
<1>2. /\ started /\ started' = started /\ loaded' = loaded /\ records' = <<>>
      /\ UNCHANGED <<dom, changes>> /\ transient' = {}
  BY DEF Notify, Inv, Idle
<1>3. Owed(RouterObserver, seen, controller, "data-controller", path, records, 0)
  BY <1>2 DEF Inv, Accounts, Account
<1>4. RouterSound(RouterState)
  BY RouterRests
<1>5. /\ RouterSound(R) /\ LeftAlone(R) /\ R.seen = Refresh(Root, controller)
      /\ \A c \in connected \intersect R.connected :
            Removes(RouterObserver, c[1], path, records, 0) # {} => c \in R.touched
  BY <1>1, <1>3, <1>4, RouterCaughtUp DEF Inv, Restarts
<1>6. /\ seen' = [R EXCEPT !.bound = UNION {{c} \X P(c) : c \in R.connected}].seen
      /\ connected' = [R EXCEPT !.bound = UNION {{c} \X P(c) : c \in R.connected}].connected
      /\ bound' = [R EXCEPT !.bound = UNION {{c} \X P(c) : c \in R.connected}].bound
      /\ created' = [R EXCEPT !.bound = UNION {{c} \X P(c) : c \in R.connected}].created
  BY DEF Notify, Update, ContextProcess
<1> HIDE DEF R
<1>7. /\ R \in RouterStates /\ R.connected = Scopes(R.seen)
      /\ \A c \in R.connected \intersect R.touched : BoundOf(R, c) = Refresh(c[1], action)
      /\ CreatedOnce(R)
  BY <1>5 DEF RouterSound
<1>8. ASSUME NEW c \in R.connected
      PROVE  P(c) = Refresh(c[1], action) /\ Refresh(c[1], action) \subseteq Element \X Tokens
  <2>1. c \in Context
    BY <1>7 DEF Scopes
  <2>2. ASSUME c \notin R.touched PROVE ContextAfter(c) = Refresh(c[1], action)
    <3>1. c \in connected
      BY <1>5, <1>8, <2>1, <2>2 DEF LeftAlone
    <3>2. /\ IsMap(BoundOf(RouterState, c))
          /\ Owed(c, BoundOf(RouterState, c), action, "data-action", path, records, 0)
      BY <3>1 DEF Inv, Accounts, Account
    <3>3. \A j \in Told(c, records, 0) :
             records[j].type = "remove" => records[j].node \notin path[c[1]]
      BY <1>5, <1>8, <2>2, <3>1 DEF Inv, Restarts
    <3>4. QED
      BY <1>1, <3>2, <3>3, ContextCaughtUp
  <2>3. Refresh(c[1], action) \subseteq Element \X Tokens
    BY <1>1, Refreshed DEF IsMap
  <2>4. QED
    BY <1>7, <2>2, <2>3
<1> HIDE DEF P
<1>9. /\ seen' = R.seen /\ connected' = R.connected /\ created' = R.created
      /\ bound' = UNION {{c} \X P(c) : c \in R.connected}
  BY <1>6, <1>7 DEF RouterStates
<1>10. ASSUME NEW c \in connected'
       PROVE  BoundOf(RouterState, c)' = Refresh(c[1], action)
  <2>1. BoundOf(RouterState, c)' = {b[2] : b \in {x \in bound' : x[1] = c}}
    BY DEF BoundOf, RouterState
  <2>2. {x \in bound' : x[1] = c} = {c} \X P(c)
    BY <1>9
  <2>3. {b[2] : b \in {c} \X P(c)} = P(c)
    <3>1. ASSUME NEW a \in P(c) PROVE <<c, a>> \in {c} \X P(c) /\ <<c, a>>[2] = a
      BY <3>1
    <3>2. QED
      BY <3>1
  <2>4. QED
    BY <1>8, <1>9, <2>1, <2>2, <2>3
<1>11. bound' \subseteq connected' \X (Element \X Tokens)
  BY <1>8, <1>9
<1>12. created' \subseteq Context \X Nat /\ CreatedOnce(RouterState)'
  BY <1>7, <1>9 DEF RouterStates, CreatedOnce, RouterState
<1>13. connected' = Scopes(seen)'
  BY <1>2, <1>7, <1>9 DEF Scopes
<1>14. /\ seen' = Refresh(Root, controller) /\ loaded' \subseteq Identifier
       /\ transient' \subseteq Observers' \X Element /\ started' \in BOOLEAN
  BY <1>2, <1>5, <1>9 DEF Inv, TypeOK
<1>15. QED
  BY <1>2, <1>10, <1>11, <1>12, <1>13, <1>14, Settled

----------------------------------------------------------------------------
(* The steps of the scripts.                                               *)

\* Taking a node out, with what is below it.
LEMMA DetachKeeps ==
    ASSUME Inv, NEW e \in Element, Detach(e)
    PROVE  Inv'
<1> DEFINE mid == records \o Record("remove", e, Above(e))
<1>1. /\ IsTree(path) /\ records \in Seq(RecordType) /\ "remove" \in Types
  BY Typed DEF Inv, Types
<1>2. Logged(records, mid, "remove", e, Interested(Above(e)))
  BY <1>1, Recorded
<1>3. records' = mid
  BY DEF Detach
<1> HIDE DEF mid
<1>4. Interested({}) = {}
  BY DEF Interested
<1>5. Logged(mid, records', "add", e, Interested({}))
  BY <1>2, <1>3, <1>4 DEF Logged
<1>6. e # Root
  BY <1>1 DEF Detach, Above, IsTree
<1>7. Place(path, e, {})
  BY DEF Place
<1>8. path' = Reparented(path, e, {})
  <2>1. \A x \in Element : Below(e, x) = {y \in path[x] : e \in path[y]} \union {}
    BY <1>1 DEF Below, Subtree, IsTree
  <2>2. QED
    BY <2>1 DEF Detach, Reparented
<1>9. /\ transient' = Followed(e) /\ changes < MaxChanges /\ changes' = changes + 1
      /\ UNCHANGED <<controller, action, loaded, started, seen, connected, bound, created>>
  BY DEF Detach, Change
<1>10. QED
  BY <1>2, <1>3, <1>5, <1>6, <1>7, <1>8, <1>9, MoveKeeps

\* Putting a node in a place, from another one or from outside.
LEMMA InsertKeeps ==
    ASSUME Inv, NEW e \in Element, NEW p \in Element, Insert(e, p)
    PROVE  Inv'
<1> DEFINE mid == records \o Record("remove", e, Above(e))
           above == path[p]
<1>1. /\ IsTree(path) /\ records \in Seq(RecordType) /\ {"remove", "add"} \subseteq Types
  BY Typed DEF Inv, Types
<1>2. Logged(records, mid, "remove", e, Interested(Above(e)))
  BY <1>1, Recorded
<1>3. records' = mid \o Record("add", e, above)
  BY DEF Insert
<1>4. Place(path, e, above)
  BY DEF Insert, Place, Subtree
<1>5. path' = Reparented(path, e, above)
  <2>1. \A x \in Element : Below(e, x) = {y \in path[x] : e \in path[y]}
    BY <1>1 DEF Below, Subtree, IsTree
  <2>2. QED
    BY <2>1 DEF Insert, Reparented
<1>6. /\ transient' = Followed(e) /\ changes < MaxChanges /\ changes' = changes + 1
      /\ UNCHANGED <<controller, action, loaded, started, seen, connected, bound, created>>
      /\ e # Root
  BY DEF Insert, Change
<1> HIDE DEF mid, above
<1>7. Logged(mid, records', "add", e, Interested(above))
  <2>1. mid \in Seq(RecordType)
    BY <1>2 DEF Logged
  <2>2. QED
    BY <1>1, <1>3, <2>1, Recorded
<1>8. QED
  BY <1>2, <1>4, <1>5, <1>6, <1>7, MoveKeeps

\* Setting or removing an attribute.
LEMMA SetKeeps ==
    ASSUME Inv, NEW e \in Element, NEW t \in Lists, SetController(e, t) \/ SetAction(e, t)
    PROVE  Inv'
<1>1. /\ records \in Seq(RecordType)
      /\ {"data-controller", "data-action"} \subseteq Types
  BY Typed DEF Inv, Types
<1>2. CASE SetController(e, t)
  <2>1. Logged(records, records', "data-controller", e, Interested(path[e]))
    BY <1>1, <1>2, Recorded DEF SetController
  <2>2. /\ controller' = [controller EXCEPT ![e] = t] /\ action' = action
        /\ changes < MaxChanges /\ changes' = changes + 1
        /\ UNCHANGED <<path, transient, loaded, started, seen, connected, bound, created>>
    BY <1>2 DEF SetController, Change
  <2>3. QED
    BY <2>1, <2>2, NoteKeeps
<1>3. CASE SetAction(e, t)
  <2>1. Logged(records, records', "data-action", e, Interested(path[e]))
    BY <1>1, <1>3, Recorded DEF SetAction
  <2>2. /\ action' = [action EXCEPT ![e] = t] /\ controller' = controller
        /\ changes < MaxChanges /\ changes' = changes + 1
        /\ UNCHANGED <<path, transient, loaded, started, seen, connected, bound, created>>
    BY <1>3 DEF SetAction, Change
  <2>3. QED
    BY <2>1, <2>2, NoteKeeps
<1>4. QED
  BY <1>2, <1>3

----------------------------------------------------------------------------
(* The theorems.                                                           *)

\* Any document the pages start from will do.
LEMMA InitInv ==
    ASSUME Init
    PROVE  Inv
<1>1. PICK d \in Documents : path = d.path /\ controller = d.controller /\ action = d.action
  BY DEF Init
<1>2. /\ IsTree(path) /\ path \in [Element -> SUBSET Element]
      /\ {controller, action} \subseteq [Element -> Tokens \union {None}]
  BY <1>1, StimulusAssumption DEF IsTree
<1>3. MaxChanges \in Nat
  BY StimulusAssumption
<1>4. /\ loaded = {} /\ started = FALSE /\ seen = {} /\ connected = {} /\ bound = {}
      /\ created = {} /\ records = <<>> /\ transient = {} /\ changes = 0
  BY DEF Init
<1>5. TypeOK
  <2>1. records \in Seq([type : Types, node : Element, to : SUBSET Observers])
    BY <1>4
  <2>2. changes \in 0..MaxChanges
    BY <1>3, <1>4
  <2>3. QED
    BY <1>2, <1>4, <2>1, <2>2 DEF TypeOK, Types
<1>6. Routing
  <2>1. IsMap(seen)
    BY <1>4 DEF IsMap
  <2>2. Scopes(seen) = {}
    BY <1>4 DEF Scopes
  <2>3. QED
    BY <1>4, <2>1, <2>2 DEF Routing
<1>7. Idle /\ Accounts /\ Restarts /\ InitializedOnce
  BY <1>4 DEF Idle, Accounts, Restarts, InitializedOnce
<1>8. QED
  BY <1>2, <1>5, <1>6, <1>7 DEF Inv

\* Every step keeps the invariant, and changes the contexts that are connected
\* only by bringing them in line with the document.
LEMMA NextInv ==
    ASSUME Inv, [Next]_vars
    PROVE  /\ Inv'
           /\ connected' = Wanted' \/ connected' = connected
<1>1. CASE \E i \in Identifier : Register(i)
  BY <1>1, RegisterKeeps
<1>2. CASE Start
  BY <1>2, StartKeeps
<1>3. CASE Notify
  BY <1>3, NotifyKeeps
<1>4. CASE \E e \in Element, t \in Lists : SetController(e, t) \/ SetAction(e, t)
  <2>1. PICK e \in Element, t \in Lists : SetController(e, t) \/ SetAction(e, t)
    BY <1>4
  <2>2. connected' = connected
    BY <2>1 DEF SetController, SetAction, Change
  <2>3. QED
    BY <2>1, <2>2, SetKeeps
<1>5. CASE \E e \in Element : Detach(e)
  <2>1. PICK e \in Element : Detach(e)
    BY <1>5
  <2>2. connected' = connected
    BY <2>1 DEF Detach, Change
  <2>3. QED
    BY <2>1, <2>2, DetachKeeps
<1>6. CASE \E e, p \in Element : Insert(e, p)
  <2>1. PICK e \in Element, p \in Element : Insert(e, p)
    BY <1>6
  <2>2. connected' = connected
    BY <2>1 DEF Insert, Change
  <2>3. QED
    BY <2>1, <2>2, InsertKeeps
<1>7. CASE UNCHANGED vars
  <2>1. /\ path' = path /\ controller' = controller /\ action' = action
        /\ loaded' = loaded /\ started' = started /\ seen' = seen
        /\ connected' = connected /\ bound' = bound /\ created' = created
        /\ records' = records /\ transient' = transient /\ changes' = changes
    BY <1>7 DEF vars, dom
  <2>2. Observers' = Observers /\ RouterObserver' = RouterObserver
    BY <2>1 DEF Observers, RouterObserver
  <2>3. TypeOK' /\ (IsTree(path))' /\ Idle' /\ InitializedOnce'
    BY <2>1, <2>2 DEF Inv, TypeOK, Idle, InitializedOnce
  <2>4. Routing' /\ Restarts'
    BY <2>1, <2>2 DEF Inv, Routing, Scopes, Restarts
  <2>5. \A c : BoundOf(RouterState, c)' = BoundOf(RouterState, c)
    BY <2>1 DEF BoundOf, RouterState
  <2>6. Accounts'
    BY <2>1, <2>2, <2>5 DEF Inv, Accounts, Account
  <2>7. QED
    BY <2>1, <2>3, <2>4, <2>6 DEF Inv
<1>8. QED
  BY <1>1, <1>2, <1>3, <1>4, <1>5, <1>6, <1>7 DEF Next

\* The inductive invariant holds: whatever the order of registrations, changes
\* and deliveries, each observer has a true account of the document, and the
\* router has the contexts of the scopes it knows.
THEOREM AccountsAlways == Spec => []Inv
<1>1. Init => Inv
  BY InitInv
<1>2. Inv /\ [Next]_vars => Inv'
  BY NextInv
<1>3. QED
  BY <1>1, <1>2, PTL DEF Spec

\* The variables have their types: a binding belongs to a context that is
\* connected, and only observers are told of changes and follow nodes.
THEOREM TypesAlways == Spec => []TypeOK
<1>1. Inv => TypeOK
  BY DEF Inv
<1>2. QED
  BY <1>1, AccountsAlways, PTL

\* A controller is created and initialized once for its element.
THEOREM InitializedOnceAlways == Spec => []InitializedOnce
<1>1. Inv => InitializedOnce
  BY DEF Inv
<1>2. QED
  BY <1>1, AccountsAlways, PTL

\* Nothing due: the router knows the document, hence has its scopes.
LEMMA QuietScopes ==
    ASSUME Inv
    PROVE  ScopesConnected
<1>1. SUFFICES ASSUME Quiet PROVE connected = Wanted
  BY DEF ScopesConnected
<1>2. started /\ records = <<>>
  BY <1>1 DEF Quiet
<1>3. /\ seen = Refresh(Root, controller) /\ connected = Scopes(seen)
      /\ controller \in [Element -> Tokens \union {None}]
  BY <1>2, NothingDue, Typed DEF Inv, Routing
<1>4. \A c \in Context : c[2] \in ToSet(TokensOf(seen, c[1]))
         <=> IsConnected(c[1]) /\ Has(c[1], c[2])
  BY <1>3, RefreshedScopes
<1>5. QED
  BY <1>2, <1>3, <1>4 DEF Scopes, Wanted

\* Once the records are delivered, the controllers that are connected are those
\* the document asks for, whatever was moved, removed or renamed before.
THEOREM ScopesConnectedAlways == Spec => []ScopesConnected
<1>1. Inv => ScopesConnected
  BY QuietScopes
<1>2. QED
  BY <1>1, AccountsAlways, PTL

\* Nothing due: a context knows the actions below its element.
LEMMA QuietBindings ==
    ASSUME Inv
    PROVE  BindingsTracked
<1>1. SUFFICES ASSUME Quiet, NEW c \in connected
               PROVE  Bindings(c) = {b \in {<<c, e>> : e \in Subtree(c[1])} :
                                       c[2] \in ToSet(Read(action, b[2]))}
  BY DEF BindingsTracked
<1> DEFINE F == Refresh(c[1], action)
           Wants(e) == c[2] \in ToSet(Read(action, e))
<1>2. /\ action \in [Element -> Tokens \union {None}]
      /\ {b[2] : b \in {x \in bound : x[1] = c}} = F
  <2>1. action \in [Element -> Tokens \union {None}]
    BY Typed DEF Inv
  <2>2. BoundOf(RouterState, c) = F
    BY <1>1, NothingDue DEF Quiet
  <2>3. BoundOf(RouterState, c) = {b[2] : b \in {x \in bound : x[1] = c}}
    BY DEF BoundOf, RouterState
  <2>4. QED
    BY <2>1, <2>2, <2>3
<1>3. F = {a \in Element \X Tokens : c[1] \in path[a[1]] /\ a[2] = action[a[1]]}
  BY <1>2, Refreshed
<1> HIDE DEF F
<1>4. ASSUME NEW b \in bound, b[1] = c
      PROVE  b[2][1] \in Subtree(c[1]) /\ (c[2] \in ToSet(b[2][2]) <=> Wants(b[2][1]))
  <2>1. b[2] \in F
    BY <1>2, <1>4
  <2>2. b[2][2] = Read(action, b[2][1])
    BY <1>3, <2>1, StimulusAssumption DEF Read
  <2>3. QED
    BY <1>3, <2>1, <2>2 DEF Subtree
<1>5. ASSUME NEW e \in Subtree(c[1]), Wants(e)
      PROVE  \E b \in bound : b[1] = c /\ c[2] \in ToSet(b[2][2]) /\ b[2][1] = e
  <2>1. ToSet(<<>>) = {}
    BY DEF ToSet
  <2>2. e \in Element /\ c[1] \in path[e] /\ action[e] # None
    BY <1>5, <2>1 DEF Subtree, Read
  <2>3. <<e, action[e]>> \in F
    BY <1>2, <1>3, <2>2
  <2>4. PICK b \in bound : b[1] = c /\ b[2] = <<e, action[e]>>
    BY <1>2, <2>3
  <2>5. b[2][1] = e /\ b[2][2] = Read(action, e)
    BY <2>2, <2>4 DEF Read
  <2>6. QED
    BY <1>5, <2>4, <2>5
<1>6. QED
  BY <1>4, <1>5 DEF Bindings

\* Once the records are delivered, each context has a binding for exactly the
\* actions with its name on and below its element.
THEOREM BindingsTrackedAlways == Spec => []BindingsTracked
<1>1. Inv => BindingsTracked
  BY QuietBindings
<1>2. QED
  BY <1>1, AccountsAlways, PTL

LEMMA QuietHandles ==
    ASSUME Inv
    PROVE  ClosestHandles
<1> DEFINE Handled(x) ==
        {b \in Wanted \X path[x] :
            /\ b[1][2] \in ToSet(Read(action, b[2]))
            /\ b[1][1] \in path[b[2]]
            /\ \A e \in path[x] : Has(e, b[1][2]) => e \in path[b[1][1]]}
<1>1. SUFFICES ASSUME Quiet, NEW x \in Subtree(Root) PROVE HandleEvent(x) = Handled(x)
  BY DEF ClosestHandles
<1>2. /\ connected = Wanted /\ started
      /\ \A c \in Wanted :
            Bindings(c) = {b \in {<<c, e>> : e \in Subtree(c[1])} :
                              c[2] \in ToSet(Read(action, b[2]))}
  BY <1>1, QuietScopes, QuietBindings DEF ScopesConnected, BindingsTracked, Quiet
<1>3. /\ x \in Element
      /\ \A e \in path[x] : e \in Element /\ path[e] \subseteq path[x]
  BY <1>1 DEF Inv, IsTree, Subtree
<1>4. \A c \in Wanted : Has(c[1], c[2])
  BY <1>2 DEF Wanted
<1>5. ASSUME NEW b \in HandleEvent(x) PROVE b \in Handled(x)
  <2>1. PICK c \in Wanted : b \in Bindings(c)
    BY <1>2, <1>5 DEF HandleEvent
  <2>2. PICK e \in Subtree(c[1]) : b = <<c, e>> /\ c[2] \in ToSet(Read(action, e))
    BY <1>2, <2>1
  <2>3. e \in path[x] /\ WillBeInvoked(b, x)
    BY <1>5, <2>2 DEF HandleEvent
  <2>4. c[1] \in path[e] /\ c[1] \in path[x]
    BY <1>3, <2>2, <2>3 DEF Subtree
  <2>5. c[1] = x \/ ContainsElement(c, x)
    BY <2>2, <2>3, <2>4 DEF WillBeInvoked
  <2>6. \A d \in path[x] : Has(d, c[2]) => d \in path[c[1]]
    BY <2>5 DEF ContainsElement
  <2>7. QED
    BY <2>2, <2>3, <2>4, <2>6
<1>6. ASSUME NEW b \in Handled(x) PROVE b \in HandleEvent(x)
  <2>1. PICK c \in Wanted, e \in path[x] : b = <<c, e>>
    OBVIOUS
  <2>2. /\ c[2] \in ToSet(Read(action, e)) /\ c[1] \in path[e]
        /\ \A d \in path[x] : Has(d, c[2]) => d \in path[c[1]]
    BY <1>6, <2>1
  <2>3. e \in Subtree(c[1]) /\ c[1] \in path[x]
    BY <1>3, <2>1, <2>2 DEF Subtree
  <2>4. b \in Bindings(c)
    BY <1>2, <2>1, <2>2, <2>3
  <2>5. ContainsElement(c, x)
    BY <1>4, <2>2, <2>3 DEF ContainsElement
  <2>6. WillBeInvoked(b, x)
    BY <2>1, <2>3, <2>5 DEF WillBeInvoked
  <2>7. QED
    BY <1>2, <2>1, <2>4, <2>6 DEF HandleEvent
<1>7. QED
  BY <1>5, <1>6

\* Once the records are delivered, an action is run by the closest controller of
\* its name around the element clicked, and by no other one around it.
THEOREM ClosestHandlesAlways == Spec => []ClosestHandles
<1>1. Inv => ClosestHandles
  BY QuietHandles
<1>2. QED
  BY <1>1, AccountsAlways, PTL

\* A step of the runtime is one of ControllerLife, or none.
LEMMA LifeStep ==
    ASSUME Inv, [Next]_vars
    PROVE  [Life!Next]_(Life!life)
<1>1. connected' = Wanted' \/ connected' = connected
  BY NextInv
<1>2. QED
  BY <1>1 DEF Life!Next, Life!life

\* The safety of ControllerLife: no step connects some of the controllers that
\* the document asks for and leaves out others, or disconnects only some of those
\* it no longer asks for. (That the document is caught up with again and again
\* rests on the fairness of Spec.)
THEOREM ConnectedInLine ==
    Spec => Life!Init /\ [][Life!Next]_(Life!life)
<1>1. Init => Life!Init
  BY DEF Init, Life!Init
<1>2. Inv /\ [Next]_vars => [Life!Next]_(Life!life)
  BY LifeStep
<1>3. QED
  BY <1>1, <1>2, AccountsAlways, PTL DEF Spec

\* The whole of what ControllerLife promises, when the records do get
\* delivered again and again (which is what the fairness of Spec is for): the
\* controllers that are connected change only by being brought in line with
\* the document, and are in line with it again and again.
THEOREM LifeFromDelivery == Spec /\ []<>Quiet => ImplementsControllerLife
<1>1. ScopesConnected /\ Quiet => Life!Synced
  BY DEF ScopesConnected, Life!Synced
<1>2. QED
  BY <1>1, ScopesConnectedAlways, ConnectedInLine,
     PTL DEF ImplementsControllerLife, Life!Spec

===========================================================================

-------------------------- MODULE CodeActionsProofs --------------------------
(***************************************************************************)
(* Proofs about the code actions for scripts, hunks and findings of every  *)
(* size: the parser finds the hunks that the diff was made of, the patch   *)
(* turns the old text into the new one, and a quick fix reaches its line.  *)
(***************************************************************************)
EXTENDS CodeActions, SequenceTheorems, WellFoundedInduction, TLAPS

-----------------------------------------------------------------------------
(* FlattenSeq, for sequences of every length.  The induction theorems of   *)
(* the library take a predicate, which the provers cannot instantiate; the *)
(* same principles about sets they can use.                                *)

\* Induction over the naturals, as a fact about sets.
LEMMA NatSet ==
  ASSUME NEW S, 0 \in S, \A n \in Nat : n \in S => n + 1 \in S
  PROVE  Nat \subseteq S
<1> DEFINE T == Nat \ S
<1> SUFFICES ASSUME T # {} PROVE FALSE
  OBVIOUS
<1>1. T \subseteq Nat
  OBVIOUS
<1>2. PICK x \in T : \A y \in T : ~(<<y, x>> \in OpToRel(<, Nat))
  <2> HIDE DEF T
  <2> QED BY <1>1, NatLessThanWellFounded, WFMin
<1>3. x # 0 /\ x - 1 \in Nat /\ x = (x - 1) + 1
  OBVIOUS
<1>4. x - 1 \notin T
  <2> SUFFICES ASSUME x - 1 \in T PROVE FALSE
    OBVIOUS
  <2>1. <<x - 1, x>> \in OpToRel(<, Nat)
    BY <1>1, <1>3 DEF OpToRel
  <2> QED BY <1>2, <2>1
<1> QED BY <1>3, <1>4

\* f holds the concatenations of the prefixes of s, as FlattenSeq computes them.
Rec(f, s, n) ==
    \A i \in 1 .. n : f[i] = IF i = 1 THEN s[i] ELSE f[i - 1] \o s[i]

\* The function FlattenSeq defines by recursion has them,
LEMMA RecFixed ==
  ASSUME NEW f, NEW s, NEW n,
         f = [i \in 1 .. n |-> IF i = 1 THEN s[i] ELSE f[i - 1] \o s[i]]
  PROVE  Rec(f, s, n)
<1> SUFFICES ASSUME NEW i \in 1 .. n
             PROVE  f[i] = IF i = 1 THEN s[i] ELSE f[i - 1] \o s[i]
  BY DEF Rec
<1> DEFINE h == [j \in 1 .. n |-> IF j = 1 THEN s[j] ELSE f[j - 1] \o s[j]]
<1>1. f = h
  OBVIOUS
<1>2. h[i] = IF i = 1 THEN s[i] ELSE f[i - 1] \o s[i]
  OBVIOUS
<1> HIDE DEF h
<1> QED BY <1>1, <1>2, Zenon

\* a function that has them is a fixed point of that recursion,
LEMMA FixedRec ==
  ASSUME NEW f, NEW s, NEW n, f = [i \in 1 .. n |-> f[i]], Rec(f, s, n)
  PROVE  f = [i \in 1 .. n |-> IF i = 1 THEN s[i] ELSE f[i - 1] \o s[i]]
<1> DEFINE h == [j \in 1 .. n |-> IF j = 1 THEN s[j] ELSE f[j - 1] \o s[j]]
<1>1. \A i \in 1 .. n : f[i] = h[i]
  BY DEF Rec
<1>2. h = [i \in 1 .. n |-> h[i]]
  OBVIOUS
<1>3. [i \in 1 .. n |-> h[i]] = [i \in 1 .. n |-> f[i]]
  <2> HIDE DEF h
  <2> QED BY <1>1
<1>4. f = h
  <2> HIDE DEF h
  <2> QED BY <1>2, <1>3, Zenon
<1> QED BY <1>4, Zenon

\* and there is one.
LEMMA RecExists ==
  ASSUME NEW s, NEW n \in Nat
  PROVE  \E f : Rec(f, s, n) /\ f = [i \in 1 .. n |-> f[i]]
<1> DEFINE S == {m \in Nat : \E f : Rec(f, s, m) /\ f = [i \in 1 .. m |-> f[i]]}
<1>1. 0 \in S
  <2>1. Rec(<<>>, s, 0) /\ <<>> = [i \in 1 .. 0 |-> <<>>[i]]
    BY DEF Rec
  <2> QED BY <2>1
<1>2. ASSUME NEW m \in Nat, m \in S PROVE m + 1 \in S
  <2>1. PICK f : Rec(f, s, m)
    BY <1>2
  <2> DEFINE last == IF m = 0 THEN s[1] ELSE f[m] \o s[m + 1]
             g == [i \in 1 .. m + 1 |-> IF i = m + 1 THEN last ELSE f[i]]
  <2>2. ASSUME NEW i \in 1 .. m + 1
        PROVE  g[i] = IF i = 1 THEN s[i] ELSE g[i - 1] \o s[i]
    <3>1. CASE i = m + 1
      BY <3>1
    <3>2. CASE i # m + 1
      <4>1. i \in 1 .. m /\ g[i] = f[i]
        BY <3>2
      <4>2. f[i] = IF i = 1 THEN s[i] ELSE f[i - 1] \o s[i]
        BY <2>1, <4>1 DEF Rec
      <4>3. i # 1 => g[i - 1] = f[i - 1]
        BY <4>1
      <4> QED BY <4>1, <4>2, <4>3
    <3> QED BY <3>1, <3>2
  <2>3. Rec(g, s, m + 1) /\ g = [i \in 1 .. m + 1 |-> g[i]]
    <3>1. g = [i \in 1 .. m + 1 |-> g[i]]
      OBVIOUS
    <3> HIDE DEF g
    <3> QED BY <2>2, <3>1 DEF Rec
  <2> HIDE DEF g
  <2> QED BY <2>3
<1>3. Nat \subseteq S
  <2> HIDE DEF S
  <2> QED BY <1>1, <1>2, NatSet
<1> QED BY <1>3

\* Sequences that agree have recursive functions that agree.
LEMMA RecAgree ==
  ASSUME NEW f, NEW g, NEW s, NEW t, NEW n \in Nat, Rec(f, s, n), Rec(g, t, n),
         \A i \in 1 .. n : s[i] = t[i]
  PROVE  \A i \in 1 .. n : f[i] = g[i]
<1> DEFINE S == {j \in Nat : j \in 1 .. n => f[j] = g[j]}
<1>1. 0 \in S
  OBVIOUS
<1>2. ASSUME NEW j \in Nat, j \in S PROVE j + 1 \in S
  <2> SUFFICES ASSUME j + 1 \in 1 .. n PROVE f[j + 1] = g[j + 1]
    OBVIOUS
  <2>1. f[j + 1] = IF j + 1 = 1 THEN s[j + 1] ELSE f[j + 1 - 1] \o s[j + 1]
    BY DEF Rec
  <2>2. g[j + 1] = IF j + 1 = 1 THEN t[j + 1] ELSE g[j + 1 - 1] \o t[j + 1]
    BY DEF Rec
  <2>3. j + 1 - 1 = j /\ s[j + 1] = t[j + 1]
    OBVIOUS
  <2>4. CASE j = 0
    BY <2>1, <2>2, <2>3, <2>4
  <2>5. CASE j # 0
    <3>1. f[j] = g[j]
      BY <1>2, <2>5
    <3> QED BY <2>1, <2>2, <2>3, <2>5, <3>1
  <2> QED BY <2>4, <2>5
<1>3. Nat \subseteq S
  <2> HIDE DEF S
  <2> QED BY <1>1, <1>2, NatSet
<1> QED BY <1>3

\* FlattenSeq is the last value of such a function.
LEMMA FlattenIsRec ==
  ASSUME NEW s, Len(s) \in Nat \ {0}
  PROVE  \E f : Rec(f, s, Len(s)) /\ FlattenSeq(s) = f[Len(s)]
<1> DEFINE fl == CHOOSE f : f = [i \in 1 .. Len(s) |-> IF i = 1 THEN s[i] ELSE f[i - 1] \o s[i]]
<1>1. \E f : f = [i \in 1 .. Len(s) |-> IF i = 1 THEN s[i] ELSE f[i - 1] \o s[i]]
  <2>1. PICK f : Rec(f, s, Len(s)) /\ f = [i \in 1 .. Len(s) |-> f[i]]
    BY RecExists
  <2>2. f = [i \in 1 .. Len(s) |-> IF i = 1 THEN s[i] ELSE f[i - 1] \o s[i]]
    BY <2>1, FixedRec, Zenon
  <2> QED BY <2>2, Zenon
<1>2. fl = [i \in 1 .. Len(s) |-> IF i = 1 THEN s[i] ELSE fl[i - 1] \o s[i]]
  BY <1>1, Zenon
<1>3. FlattenSeq(s) = fl[Len(s)]
  BY DEF FlattenSeq
<1>4. Rec(fl, s, Len(s))
  BY <1>2, RecFixed
<1> HIDE DEF fl
<1> QED BY <1>3, <1>4

\* FlattenSeq of nothing.
LEMMA FlattenEmpty == FlattenSeq(<<>>) = <<>>
BY DEF FlattenSeq

\* FlattenSeq of one sequence more,
LEMMA FlattenAppend ==
  ASSUME NEW X, NEW s \in Seq(Seq(X)), NEW e \in Seq(X)
  PROVE  FlattenSeq(Append(s, e)) = IF s = <<>> THEN e ELSE FlattenSeq(s) \o e
<1> DEFINE t == Append(s, e)
           n == Len(s)
<1>1. n \in Nat /\ Len(t) = n + 1 /\ t[n + 1] = e /\ \A i \in 1 .. n : t[i] = s[i]
  OBVIOUS
<1>2. n = 0 <=> s = <<>>
  OBVIOUS
<1> HIDE DEF t, n
<1>3. PICK f : Rec(f, t, Len(t)) /\ FlattenSeq(t) = f[Len(t)]
  BY <1>1, FlattenIsRec
<1>4. f[n + 1] = IF n + 1 = 1 THEN t[n + 1] ELSE f[n + 1 - 1] \o t[n + 1]
  BY <1>1, <1>3 DEF Rec
<1>5. CASE n = 0
  BY <1>1, <1>2, <1>3, <1>4, <1>5 DEF t
<1>6. CASE n # 0
  <2>1. PICK g : Rec(g, s, n) /\ FlattenSeq(s) = g[n]
    BY <1>1, <1>6, FlattenIsRec DEF n
  <2>2. f[n] = g[n]
    <3>1. Rec(f, t, n)
      BY <1>1, <1>3 DEF Rec
    <3>2. \A i \in 1 .. n : f[i] = g[i]
      BY <1>1, <2>1, <3>1, RecAgree
    <3>3. n \in 1 .. n
      BY <1>1, <1>6
    <3> QED BY <3>2, <3>3
  <2>3. f[n + 1] = f[n] \o e
    BY <1>1, <1>4, <1>6
  <2> QED BY <1>1, <1>2, <1>3, <1>6, <2>1, <2>2, <2>3 DEF t
<1> QED BY <1>1, <1>5, <1>6

\* Induction over sequences, as a fact about sets.
LEMMA SeqSet ==
  ASSUME NEW X, NEW S, <<>> \in S,
         \A s \in Seq(X), e \in X : s \in S => Append(s, e) \in S
  PROVE  Seq(X) \subseteq S
<1> DEFINE T == {n \in Nat : \A s \in Seq(X) : Len(s) = n => s \in S}
<1>1. 0 \in T
  BY EmptySeq
<1>2. ASSUME NEW n \in Nat, n \in T PROVE n + 1 \in T
  <2> SUFFICES ASSUME NEW s \in Seq(X), Len(s) = n + 1 PROVE s \in S
    OBVIOUS
  <2>1. s # <<>>
    OBVIOUS
  <2>2. PICK t \in Seq(X), e \in X : s = Append(t, e)
    BY <2>1, SequenceEmptyOrAppend
  <2>3. Len(t) = n
    BY <2>2
  <2> QED BY <1>2, <2>2, <2>3
<1>3. Nat \subseteq T
  <2> HIDE DEF T
  <2> QED BY <1>1, <1>2, NatSet
<1> QED BY <1>3

\* what it is made of,
LEMMA FlattenType ==
  ASSUME NEW X, NEW s \in Seq(Seq(X))
  PROVE  FlattenSeq(s) \in Seq(X)
<1> DEFINE P(t) == FlattenSeq(t) \in Seq(X)
           S == {t \in Seq(Seq(X)) : P(t)}
<1>1. P(<<>>)
  BY FlattenEmpty, EmptySeq
<1>2. ASSUME NEW t \in Seq(Seq(X)), NEW e \in Seq(X), P(t)
      PROVE  P(Append(t, e))
  <2>1. FlattenSeq(t) \o e \in Seq(X)
    BY <1>2
  <2> QED BY <2>1, FlattenAppend
<1> HIDE DEF P
<1>3. /\ <<>> \in S
      /\ \A t \in Seq(Seq(X)), e \in Seq(X) : t \in S => Append(t, e) \in S
  <2>1. <<>> \in Seq(Seq(X)) /\ \A t \in Seq(Seq(X)), e \in Seq(X) : Append(t, e) \in Seq(Seq(X))
    OBVIOUS
  <2> QED BY <1>1, <1>2, <2>1, Zenon
<1>4. Seq(Seq(X)) \subseteq S
  <2> HIDE DEF S
  <2> QED BY <1>3, SeqSet
<1>5. P(s)
  BY <1>4
<1> QED BY <1>5 DEF P

\* and the recursion that its other properties rest on.
LEMMA FlattenSnoc ==
  ASSUME NEW X, NEW s \in Seq(Seq(X)), NEW e \in Seq(X)
  PROVE  FlattenSeq(Append(s, e)) = FlattenSeq(s) \o e
<1>1. FlattenSeq(s) \in Seq(X)
  BY FlattenType
<1>2. CASE s = <<>>
  <2>1. <<>> \o e = e
    OBVIOUS
  <2> QED BY <1>2, <2>1, FlattenAppend, FlattenEmpty
<1>3. CASE s # <<>>
  BY <1>3, FlattenAppend
<1> QED BY <1>2, <1>3

\* The same for the prefixes of a sequence, where an induction walks along it.
LEMMA FlattenPrefix ==
  ASSUME NEW X, NEW s \in Seq(Seq(X)), NEW k \in Nat, k < Len(s)
  PROVE  /\ FlattenSeq(SubSeq(s, 1, k + 1)) = FlattenSeq(SubSeq(s, 1, k)) \o s[k + 1]
         /\ FlattenSeq(SubSeq(s, 1, k)) \in Seq(X)
         /\ s[k + 1] \in Seq(X)
<1>1. /\ SubSeq(s, 1, k + 1) = Append(SubSeq(s, 1, k), s[k + 1])
      /\ SubSeq(s, 1, k) \in Seq(Seq(X)) /\ s[k + 1] \in Seq(X)
  OBVIOUS
<1> QED BY <1>1, FlattenSnoc, FlattenType

\* The first and the last prefix.
LEMMA PrefixFull ==
  ASSUME NEW X, NEW s \in Seq(X)
  PROVE  Len(s) \in Nat /\ SubSeq(s, 1, Len(s)) = s /\ SubSeq(s, 1, 0) = <<>>
OBVIOUS

\* FlattenSeq distributes over concatenation.
LEMMA FlattenConcat ==
  ASSUME NEW X, NEW s \in Seq(Seq(X)), NEW t \in Seq(Seq(X))
  PROVE  FlattenSeq(s \o t) = FlattenSeq(s) \o FlattenSeq(t)
<1> DEFINE P(u) == FlattenSeq(s \o u) = FlattenSeq(s) \o FlattenSeq(u)
           S == {u \in Seq(Seq(X)) : P(u)}
<1>0. FlattenSeq(s) \in Seq(X)
  BY FlattenType
<1>1. P(<<>>)
  <2>1. s \o <<>> = s
    OBVIOUS
  <2>2. FlattenSeq(s) \o <<>> = FlattenSeq(s)
    BY <1>0
  <2> QED BY <2>1, <2>2, FlattenEmpty, Zenon
<1>2. ASSUME NEW u \in Seq(Seq(X)), NEW e \in Seq(X), P(u)
      PROVE  P(Append(u, e))
  <2>1. s \o Append(u, e) = Append(s \o u, e) /\ s \o u \in Seq(Seq(X))
    OBVIOUS
  <2>2. FlattenSeq(u) \in Seq(X)
    BY FlattenType
  <2>3. FlattenSeq(Append(s \o u, e)) = FlattenSeq(s \o u) \o e
    BY <2>1, FlattenSnoc
  <2>4. FlattenSeq(Append(u, e)) = FlattenSeq(u) \o e
    BY FlattenSnoc
  <2>5. (FlattenSeq(s) \o FlattenSeq(u)) \o e = FlattenSeq(s) \o (FlattenSeq(u) \o e)
    BY <1>0, <2>2
  <2> QED BY <1>2, <2>1, <2>3, <2>4, <2>5, Zenon
<1> HIDE DEF P
<1>3. /\ <<>> \in S
      /\ \A u \in Seq(Seq(X)), e \in Seq(X) : u \in S => Append(u, e) \in S
  <2>1. <<>> \in Seq(Seq(X)) /\ \A u \in Seq(Seq(X)), e \in Seq(X) : Append(u, e) \in Seq(Seq(X))
    OBVIOUS
  <2> QED BY <1>1, <1>2, <2>1, Zenon
<1>4. Seq(Seq(X)) \subseteq S
  <2> HIDE DEF S
  <2> QED BY <1>3, SeqSet
<1>5. P(t)
  BY <1>4
<1> QED BY <1>5 DEF P

\* FlattenSeq of a single sequence.
LEMMA FlattenOne ==
  ASSUME NEW X, NEW e \in Seq(X)
  PROVE  FlattenSeq(<<e>>) = e
<1>1. <<e>> = Append(<<>>, e) /\ <<>> \in Seq(Seq(X)) /\ <<>> \o e = e
  OBVIOUS
<1> QED BY <1>1, FlattenSnoc, FlattenEmpty

\* Empty sequences leave nothing.
LEMMA FlattenNone ==
  ASSUME NEW X, NEW s \in Seq(Seq(X)), \A i \in 1 .. Len(s) : s[i] = <<>>
  PROVE  FlattenSeq(s) = <<>>
<1> DEFINE P(n) == n <= Len(s) => FlattenSeq(SubSeq(s, 1, n)) = <<>>
           S == {n \in Nat : P(n)}
<1>0. Len(s) \in Nat /\ SubSeq(s, 1, Len(s)) = s /\ SubSeq(s, 1, 0) = <<>>
  BY PrefixFull
<1>1. P(0)
  BY <1>0, FlattenEmpty, Zenon
<1>2. ASSUME NEW n \in Nat, P(n) PROVE P(n + 1)
  <2> SUFFICES ASSUME n + 1 <= Len(s) PROVE FlattenSeq(SubSeq(s, 1, n + 1)) = <<>>
    OBVIOUS
  <2>1. n < Len(s) /\ n <= Len(s) /\ n + 1 \in 1 .. Len(s)
    BY <1>0
  <2>2. FlattenSeq(SubSeq(s, 1, n + 1)) = FlattenSeq(SubSeq(s, 1, n)) \o s[n + 1]
    BY <2>1, FlattenPrefix
  <2>3. FlattenSeq(SubSeq(s, 1, n)) = <<>> /\ s[n + 1] = <<>>
    BY <1>2, <2>1
  <2>4. <<>> \o <<>> = <<>>
    OBVIOUS
  <2> QED BY <2>2, <2>3, <2>4, Zenon
<1> HIDE DEF P
<1>3. Nat \subseteq S
  <2>1. 0 \in S /\ \A n \in Nat : n \in S => n + 1 \in S
    BY <1>1, <1>2
  <2> HIDE DEF S
  <2> QED BY <2>1, NatSet
<1>4. P(Len(s))
  BY <1>0, <1>3
<1>5. Len(s) <= Len(s)
  BY <1>0
<1> QED BY <1>0, <1>4, <1>5, Zenon DEF P

\* FlattenSeq around one of the sequences.
LEMMA FlattenSplit ==
  ASSUME NEW X, NEW s \in Seq(Seq(X)), NEW k \in 1 .. Len(s)
  PROVE  /\ FlattenSeq(s) = FlattenSeq(SubSeq(s, 1, k - 1)) \o s[k]
                                \o FlattenSeq(SubSeq(s, k + 1, Len(s)))
         /\ SubSeq(s, 1, k - 1) \in Seq(Seq(X))
         /\ SubSeq(s, k + 1, Len(s)) \in Seq(Seq(X))
         /\ s[k] \in Seq(X)
<1> DEFINE a == SubSeq(s, 1, k - 1)
           b == SubSeq(s, k + 1, Len(s))
<1>1. a \in Seq(Seq(X)) /\ b \in Seq(Seq(X)) /\ s[k] \in Seq(X)
  OBVIOUS
<1>2. s = Append(a, s[k]) \o b
  <2>1. Append(a, s[k]) = SubSeq(s, 1, k)
    OBVIOUS
  <2>2. SubSeq(s, 1, k) \o b = s
    OBVIOUS
  <2> QED BY <2>1, <2>2, Zenon
<1>3. Append(a, s[k]) \in Seq(Seq(X))
  <2> HIDE DEF a
  <2> QED BY <1>1
<1> HIDE DEF a, b
<1>4. FlattenSeq(Append(a, s[k]) \o b) = FlattenSeq(Append(a, s[k])) \o FlattenSeq(b)
  BY <1>1, <1>3, FlattenConcat
<1>5. FlattenSeq(Append(a, s[k])) = FlattenSeq(a) \o s[k]
  BY <1>1, FlattenSnoc
<1> QED BY <1>1, <1>2, <1>4, <1>5, Zenon DEF a, b

\* Where all others are empty, the one that is not is what is left.
LEMMA FlattenOnly ==
  ASSUME NEW X, NEW s \in Seq(Seq(X)), NEW k \in 1 .. Len(s),
         \A i \in 1 .. Len(s) : i # k => s[i] = <<>>
  PROVE  FlattenSeq(s) = s[k]
<1> DEFINE a == SubSeq(s, 1, k - 1)
           b == SubSeq(s, k + 1, Len(s))
<1>1. \A i \in 1 .. Len(a) : a[i] = <<>>
  OBVIOUS
<1>2. \A i \in 1 .. Len(b) : b[i] = <<>>
  OBVIOUS
<1>3. a \in Seq(Seq(X)) /\ b \in Seq(Seq(X)) /\ s[k] \in Seq(X)
  BY FlattenSplit
<1>4. FlattenSeq(s) = FlattenSeq(a) \o s[k] \o FlattenSeq(b)
  BY FlattenSplit
<1> HIDE DEF a, b
<1>5. FlattenSeq(a) = <<>> /\ FlattenSeq(b) = <<>>
  BY <1>1, <1>2, <1>3, FlattenNone
<1>6. <<>> \o s[k] \o <<>> = s[k]
  BY <1>3
<1> QED BY <1>4, <1>5, <1>6, Zenon

\* Where an element of one of the sequences comes to stand,
LEMMA FlattenAt ==
  ASSUME NEW X, NEW s \in Seq(Seq(X)), NEW k \in 1 .. Len(s),
         NEW j \in 1 .. Len(s[k])
  PROVE  LET p == Len(FlattenSeq(SubSeq(s, 1, k - 1))) + j
         IN  p \in 1 .. Len(FlattenSeq(s)) /\ FlattenSeq(s)[p] = s[k][j]
<1> DEFINE a == FlattenSeq(SubSeq(s, 1, k - 1))
           b == FlattenSeq(SubSeq(s, k + 1, Len(s)))
           e == s[k]
<1>1. a \in Seq(X) /\ b \in Seq(X) /\ e \in Seq(X)
  BY FlattenSplit, FlattenType
<1>2. FlattenSeq(s) = a \o e \o b
  BY FlattenSplit
<1>3. j \in 1 .. Len(e)
  OBVIOUS
<1> HIDE DEF a, b, e
<1>4. Len(a) + j \in 1 .. Len(a \o e \o b) /\ (a \o e \o b)[Len(a) + j] = e[j]
  BY <1>1, <1>3
<1> QED BY <1>2, <1>4 DEF a, e

\* and where an element of the whole comes from.
LEMMA FlattenFrom ==
  ASSUME NEW X, NEW s \in Seq(Seq(X)), NEW p \in 1 .. Len(FlattenSeq(s))
  PROVE  \E k \in 1 .. Len(s) : \E j \in 1 .. Len(s[k]) : FlattenSeq(s)[p] = s[k][j]
<1> DEFINE Pre(n) == FlattenSeq(SubSeq(s, 1, n))
           Found(x, n) == \E k \in 1 .. n : \E j \in 1 .. Len(s[k]) : x = s[k][j]
           P(n) == n <= Len(s) => \A q \in 1 .. Len(Pre(n)) : Found(Pre(n)[q], n)
           S == {n \in Nat : P(n)}
<1>0. Len(s) \in Nat /\ SubSeq(s, 1, Len(s)) = s /\ SubSeq(s, 1, 0) = <<>>
  BY PrefixFull
<1>1. P(0)
  <2>1. Pre(0) = <<>>
    BY <1>0, FlattenEmpty, Zenon
  <2> HIDE DEF Pre
  <2> QED BY <2>1
<1>2. ASSUME NEW n \in Nat, P(n) PROVE P(n + 1)
  <2> SUFFICES ASSUME n + 1 <= Len(s), NEW q \in 1 .. Len(Pre(n + 1))
               PROVE  Found(Pre(n + 1)[q], n + 1)
    BY Zenon
  <2> DEFINE a == Pre(n)
             e == s[n + 1]
  <2>1. n < Len(s) /\ n <= Len(s)
    BY <1>0
  <2>2. Pre(n + 1) = a \o e /\ a \in Seq(X) /\ e \in Seq(X)
    BY <2>1, FlattenPrefix
  <2>3. \A r \in 1 .. Len(a) : Found(a[r], n)
    BY <1>2, <2>1, Zenon
  <2> HIDE DEF Pre, a
  <2>4. CASE q <= Len(a)
    <3>1. (a \o e)[q] = a[q] /\ q \in 1 .. Len(a)
      <4> HIDE DEF e
      <4> QED BY <2>2, <2>4
    <3>2. PICK k \in 1 .. n : \E j \in 1 .. Len(s[k]) : a[q] = s[k][j]
      BY <2>3, <3>1
    <3>3. k \in 1 .. n + 1
      OBVIOUS
    <3> QED BY <2>2, <3>1, <3>2, <3>3, Zenon
  <2>5. CASE ~(q <= Len(a))
    <3>1. q - Len(a) \in 1 .. Len(e) /\ (a \o e)[q] = e[q - Len(a)]
      <4> HIDE DEF e
      <4> QED BY <2>2, <2>5
    <3>2. n + 1 \in 1 .. n + 1
      OBVIOUS
    <3> QED BY <2>2, <3>1, <3>2, Zenon
  <2> QED BY <2>4, <2>5
<1> HIDE DEF P
<1>3. Nat \subseteq S
  <2>1. 0 \in S /\ \A n \in Nat : n \in S => n + 1 \in S
    BY <1>1, <1>2
  <2> HIDE DEF S
  <2> QED BY <2>1, NatSet
<1>4. P(Len(s))
  BY <1>0, <1>3
<1>5. Len(s) <= Len(s)
  BY <1>0
<1> QED BY <1>0, <1>4, <1>5, Zenon DEF P

\* The elements of a concatenation.
LEMMA ConcatAt ==
  ASSUME NEW X, NEW a \in Seq(X), NEW e \in Seq(X)
  PROVE  /\ Len(a) \in Nat /\ Len(a \o e) = Len(a) + Len(e)
         /\ \A i \in 1 .. Len(a) : (a \o e)[i] = a[i]
         /\ \A i \in 1 .. Len(e) : (a \o e)[Len(a) + i] = e[i]
OBVIOUS

\* The same when the second sequence is a single element.
LEMMA ConcatOne ==
  ASSUME NEW X, NEW a \in Seq(X), NEW e \in Seq(X)
  PROVE  Len(e) = 1 => /\ Len(a \o e) = Len(a) + 1 /\ (a \o e)[Len(a) + 1] = e[1]
                       /\ \A r \in 1 .. Len(a) : (a \o e)[r] = a[r]
<1>1. /\ Len(a \o e) = Len(a) + Len(e)
      /\ \A i \in 1 .. Len(a) : (a \o e)[i] = a[i]
      /\ \A i \in 1 .. Len(e) : (a \o e)[Len(a) + i] = e[i]
  OBVIOUS
<1>2. 1 \in 1 .. 1
  OBVIOUS
<1> QED BY <1>1, <1>2, Zenon

\* Sequences of one element each: the whole has their elements in order.
LEMMA FlattenSingles ==
  ASSUME NEW X, NEW s \in Seq(Seq(X)), \A i \in 1 .. Len(s) : Len(s[i]) = 1
  PROVE  Len(FlattenSeq(s)) = Len(s) /\ \A i \in 1 .. Len(s) : FlattenSeq(s)[i] = s[i][1]
<1> DEFINE Pre(n) == FlattenSeq(SubSeq(s, 1, n))
           P(n) == n <= Len(s) =>
                     Len(Pre(n)) = n /\ \A i \in 1 .. n : Pre(n)[i] = s[i][1]
           S == {n \in Nat : P(n)}
<1>0. Len(s) \in Nat /\ SubSeq(s, 1, Len(s)) = s /\ SubSeq(s, 1, 0) = <<>>
  BY PrefixFull
<1>1. P(0)
  <2>1. Pre(0) = <<>>
    BY <1>0, FlattenEmpty, Zenon
  <2> HIDE DEF Pre
  <2> QED BY <2>1
<1>2. ASSUME NEW n \in Nat, P(n) PROVE P(n + 1)
  <2> SUFFICES ASSUME n + 1 <= Len(s)
               PROVE  /\ Len(Pre(n + 1)) = n + 1
                      /\ \A i \in 1 .. n + 1 : Pre(n + 1)[i] = s[i][1]
    BY Zenon
  <2> DEFINE a == Pre(n)
             e == s[n + 1]
  <2>1. n < Len(s) /\ n <= Len(s) /\ n + 1 \in 1 .. Len(s)
    BY <1>0
  <2>2. Pre(n + 1) = a \o e /\ a \in Seq(X) /\ e \in Seq(X)
    BY <2>1, FlattenPrefix
  <2>3. Len(a) = n /\ \A r \in 1 .. n : a[r] = s[r][1]
    BY <1>2, <2>1, Zenon
  <2>4. Len(e) = 1
    BY <2>1
  <2> HIDE DEF Pre, a
  <2>5. Len(a \o e) = n + 1 /\ (a \o e)[n + 1] = e[1] /\ \A r \in 1 .. n : (a \o e)[r] = a[r]
    <3> HIDE DEF e
    <3>1. Len(a) = n
      BY <2>3
    <3>2. /\ Len(a \o e) = Len(a) + 1 /\ (a \o e)[Len(a) + 1] = e[1]
          /\ \A r \in 1 .. Len(a) : (a \o e)[r] = a[r]
      BY <2>2, <2>4, ConcatOne
    <3> QED BY <3>1, <3>2, Zenon
  <2>6. ASSUME NEW i \in 1 .. n + 1 PROVE Pre(n + 1)[i] = s[i][1]
    <3>1. CASE i = n + 1
      BY <2>2, <2>5, <3>1
    <3>2. CASE i # n + 1
      <4>1. i \in 1 .. n
        BY <3>2
      <4> QED BY <2>2, <2>3, <2>5, <4>1
    <3> QED BY <3>1, <3>2
  <2> QED BY <2>2, <2>5, <2>6, Zenon
<1> HIDE DEF P
<1>3. Nat \subseteq S
  <2>1. 0 \in S /\ \A n \in Nat : n \in S => n + 1 \in S
    BY <1>1, <1>2
  <2> HIDE DEF S
  <2> QED BY <2>1, NatSet
<1>4. P(Len(s))
  BY <1>0, <1>3
<1>5. Len(s) <= Len(s)
  BY <1>0
<1> QED BY <1>0, <1>4, <1>5, Zenon DEF P

-----------------------------------------------------------------------------
(* The lines of a script.                                                  *)

\* A line of a script gives one line of text or none.
LEMMA LineAtType ==
  ASSUME NEW s, NEW p \in Int, NEW signs
  PROVE  /\ LineAt(s, p, signs) \in Seq(Seq(Int))
         /\ s[p] \in signs => LineAt(s, p, signs) = <<<<p>>>>
         /\ s[p] \notin signs => LineAt(s, p, signs) = <<>>
<1>1. <<<<p>>>> \in Seq(Seq(Int)) /\ <<>> \in Seq(Seq(Int))
  OBVIOUS
<1> QED BY <1>1 DEF LineAt

\* An interval that ends before it starts.
LEMMA LinesEmpty ==
  ASSUME NEW s, NEW a \in Int, NEW signs
  PROVE  Lines(s, a, a - 1, signs) = <<>>
<1> DEFINE f == [k \in 1 .. (a - 1) - a + 1 |-> LineAt(s, a + k - 1, signs)]
<1>1. f = <<>>
  OBVIOUS
<1>2. Lines(s, a, a - 1, signs) = FlattenSeq(f)
  BY Zenon DEF Lines
<1> QED BY <1>1, <1>2, FlattenEmpty, Zenon

\* The lines as pieces, one for each line of the script.
Pieces(s, a, b, signs) == [k \in 1 .. b - a + 1 |-> LineAt(s, a + k - 1, signs)]

LEMMA LinesPieces ==
  ASSUME NEW s, NEW a \in Int, NEW b \in Int, NEW signs, a <= b + 1
  PROVE  /\ Pieces(s, a, b, signs) \in Seq(Seq(Seq(Int)))
         /\ Len(Pieces(s, a, b, signs)) = b - a + 1
         /\ \A k \in 1 .. b - a + 1 : Pieces(s, a, b, signs)[k] = LineAt(s, a + k - 1, signs)
         /\ Lines(s, a, b, signs) = FlattenSeq(Pieces(s, a, b, signs))
         /\ Lines(s, a, b, signs) \in Seq(Seq(Int))
<1> DEFINE f == Pieces(s, a, b, signs)
<1>1. b - a + 1 \in Nat /\ \A k \in 1 .. b - a + 1 : a + k - 1 \in Int
  OBVIOUS
<1>2. \A k \in 1 .. b - a + 1 : LineAt(s, a + k - 1, signs) \in Seq(Seq(Int))
  BY <1>1, LineAtType
<1>3. /\ f \in Seq(Seq(Seq(Int))) /\ Len(f) = b - a + 1
      /\ \A k \in 1 .. b - a + 1 : f[k] = LineAt(s, a + k - 1, signs)
  <2> DEFINE T == Seq(Seq(Int))
             L(k) == LineAt(s, a + k - 1, signs)
             g == [k \in 1 .. b - a + 1 |-> L(k)]
  <2>1. \A k \in 1 .. b - a + 1 : L(k) \in T
    BY <1>2
  <2>2. f = g
    BY Zenon DEF Pieces
  <2>3. g \in Seq(T) /\ Len(g) = b - a + 1 /\ \A k \in 1 .. b - a + 1 : g[k] = L(k)
    <3> HIDE DEF T, L
    <3> QED BY <1>1, <2>1
  <2> QED BY <2>2, <2>3, Zenon
<1>4. Lines(s, a, b, signs) = FlattenSeq(f)
  BY Zenon DEF Lines, Pieces
<1>5. FlattenSeq(f) \in Seq(Seq(Int))
  BY <1>3, FlattenType
<1> QED BY <1>3, <1>4, <1>5, Zenon

\* w is u followed by v; a name for the equation, which the provers match better.
Joins(u, v, w) == w = u \o v

\* Concatenation is associative,
LEMMA JoinAssoc ==
  ASSUME NEW X, NEW u \in Seq(X), NEW v \in Seq(X), NEW e \in Seq(X),
         NEW uv, NEW ve, NEW w, Joins(u, v, uv), Joins(v, e, ve), Joins(uv, e, w)
  PROVE  Joins(u, ve, w)
<1>1. (u \o v) \o e = u \o (v \o e)
  OBVIOUS
<1> QED BY <1>1, Zenon DEF Joins

\* and lengths add up.
LEMMA JoinLen ==
  ASSUME NEW X, NEW u \in Seq(X), NEW v \in Seq(X), NEW w, Joins(u, v, w)
  PROVE  /\ Len(w) = Len(u) + Len(v) /\ Len(u) \in Nat /\ Len(v) \in Nat
         /\ w \in Seq(X)
<1>1. /\ Len(u \o v) = Len(u) + Len(v) /\ Len(u) \in Nat /\ Len(v) \in Nat
      /\ u \o v \in Seq(X)
  OBVIOUS
<1> QED BY <1>1, Zenon DEF Joins

\* Nothing joined to a sequence leaves it.
LEMMA JoinNone ==
  ASSUME NEW X, NEW u \in Seq(X)
  PROVE  Joins(u, <<>>, u) /\ Joins(<<>>, u, u)
<1>1. u \o <<>> = u /\ <<>> \o u = u
  OBVIOUS
<1> QED BY <1>1, Zenon DEF Joins

\* One line of the script more.
LEMMA LinesNext ==
  ASSUME NEW s, NEW a \in Int, NEW b \in Int, NEW c \in Int, NEW signs, c = b + 1, a <= c
  PROVE  Joins(Lines(s, a, b, signs), LineAt(s, c, signs), Lines(s, a, c, signs))
<1> DEFINE f == Pieces(s, a, b, signs)
           g == Pieces(s, a, c, signs)
           e == LineAt(s, c, signs)
<1>1. a <= b + 1 /\ a <= c + 1 /\ b - a + 1 \in Nat /\ c - a + 1 = (b - a + 1) + 1
  OBVIOUS
<1>2. f \in Seq(Seq(Seq(Int))) /\ Lines(s, a, b, signs) = FlattenSeq(f)
  BY <1>1, LinesPieces
<1>3. Lines(s, a, c, signs) = FlattenSeq(g)
  BY <1>1, LinesPieces
<1>4. e \in Seq(Seq(Int))
  BY LineAtType
<1>5. g = Append(f, e)
  <2> DEFINE L(k) == LineAt(s, a + k - 1, signs)
             n == b - a + 1
             h == [k \in 1 .. n |-> L(k)]
  <2>1. f = h /\ g = [k \in 1 .. n + 1 |-> L(k)]
    BY <1>1, Zenon DEF Pieces
  <2>2. L(n + 1) = e
    <3>1. a + (n + 1) - 1 = c
      OBVIOUS
    <3> QED BY <3>1, Zenon
  <2>3. [k \in 1 .. n + 1 |-> L(k)] = Append(h, L(n + 1))
    <3> HIDE DEF L, n
    <3> QED BY <1>1 DEF n
  <2> QED BY <2>1, <2>2, <2>3, Zenon
<1> HIDE DEF f, g, e
<1>6. FlattenSeq(Append(f, e)) = FlattenSeq(f) \o e
  BY <1>2, <1>4, FlattenSnoc
<1> QED BY <1>2, <1>3, <1>5, <1>6, Zenon DEF e, Joins

\* An interval in two parts.
LEMMA LinesSplit ==
  ASSUME NEW s, NEW a \in Int, NEW b \in Int, NEW c \in Int, NEW signs,
         a <= b + 1, b <= c
  PROVE  /\ Joins(Lines(s, a, b, signs), Lines(s, b + 1, c, signs), Lines(s, a, c, signs))
         /\ Lines(s, a, b, signs) \in Seq(Seq(Int))
         /\ Lines(s, b + 1, c, signs) \in Seq(Seq(Int))
<1> DEFINE L(x, y) == Lines(s, x, y, signs)
           P(n) == Joins(L(a, b), L(b + 1, b + n), L(a, b + n))
           S == {n \in Nat : P(n)}
<1>0. L(a, b) \in Seq(Seq(Int))
  BY LinesPieces
<1>1. P(0)
  <2>1. L(b + 1, b + 0) = <<>>
    <3>1. b + 1 \in Int /\ (b + 1) - 1 = b + 0
      OBVIOUS
    <3>2. L(b + 1, (b + 1) - 1) = <<>>
      BY <3>1, LinesEmpty
    <3> QED BY <3>1, <3>2, Zenon
  <2>2. Joins(L(a, b), <<>>, L(a, b))
    BY <1>0, JoinNone
  <2>3. b + 0 = b
    OBVIOUS
  <2> QED BY <2>1, <2>2, <2>3, Zenon
<1>2. ASSUME NEW n \in Nat, P(n) PROVE P(n + 1)
  <2> DEFINE m == b + n
             d == b + 1
             x == m + 1
             e == LineAt(s, x, signs)
  <2>1. /\ m \in Int /\ d \in Int /\ x \in Int /\ x = m + 1 /\ a <= x /\ d <= x
        /\ b + (n + 1) = x /\ d <= m + 1
    OBVIOUS
  <2> HIDE DEF m, d, x
  <2>2. Joins(L(a, m), e, L(a, x)) /\ Joins(L(d, m), e, L(d, x))
    BY <2>1, LinesNext
  <2>3. L(d, m) \in Seq(Seq(Int)) /\ e \in Seq(Seq(Int))
    BY <2>1, LinesPieces, LineAtType
  <2>4. Joins(L(a, b), L(d, m), L(a, m))
    BY <1>2 DEF m, d
  <2> HIDE DEF L, e
  <2>5. Joins(L(a, b), L(d, x), L(a, x))
    BY <1>0, <2>2, <2>3, <2>4, JoinAssoc
  <2> QED BY <2>1, <2>5, Zenon DEF d
<1> HIDE DEF P
<1>3. Nat \subseteq S
  <2>1. 0 \in S /\ \A n \in Nat : n \in S => n + 1 \in S
    BY <1>1, <1>2
  <2> HIDE DEF S
  <2> QED BY <2>1, NatSet
<1>4. c - b \in Nat /\ b + (c - b) = c /\ b + 1 \in Int /\ b + 1 <= c + 1
  OBVIOUS
<1>5. P(c - b)
  BY <1>3, <1>4
<1>6. L(b + 1, c) \in Seq(Seq(Int))
  BY <1>4, LinesPieces
<1> QED BY <1>0, <1>4, <1>5, <1>6, Zenon DEF P

\* The lengths of the parts add up.
LEMMA LinesLen ==
  ASSUME NEW s, NEW a \in Int, NEW b \in Int, NEW c \in Int, NEW signs,
         a <= b + 1, b <= c
  PROVE  /\ Len(Lines(s, a, b, signs)) \in Nat /\ Len(Lines(s, b + 1, c, signs)) \in Nat
         /\ Len(Lines(s, a, c, signs)) = Len(Lines(s, a, b, signs)) + Len(Lines(s, b + 1, c, signs))
BY LinesSplit, JoinLen

\* A line with one of the signs is among the lines.
LEMMA LinesSome ==
  ASSUME NEW s, NEW a \in Int, NEW b \in Int, NEW signs,
         NEW p \in a .. b, s[p] \in signs
  PROVE  Len(Lines(s, a, b, signs)) \in Nat /\ Len(Lines(s, a, b, signs)) >= 1
<1> DEFINE u == Lines(s, a, p - 1, signs)
           v == <<<<p>>>>
<1>1. /\ p - 1 \in Int /\ (p - 1) + 1 = p /\ a <= (p - 1) + 1 /\ a <= p + 1
      /\ p \in Int /\ p <= b
  OBVIOUS
<1>2. Joins(u, v, Lines(s, a, p, signs))
  <2>1. Joins(u, LineAt(s, p, signs), Lines(s, a, p, signs))
    BY <1>1, LinesNext
  <2>2. LineAt(s, p, signs) = v
    BY LineAtType
  <2> QED BY <2>1, <2>2, Zenon
<1>3. u \in Seq(Seq(Int)) /\ v \in Seq(Seq(Int))
  BY <1>1, LinesPieces
<1>4. /\ Len(Lines(s, a, p, signs)) \in Nat /\ Len(Lines(s, p + 1, b, signs)) \in Nat
      /\ Len(Lines(s, a, b, signs)) = Len(Lines(s, a, p, signs)) + Len(Lines(s, p + 1, b, signs))
  BY <1>1, LinesLen
<1>6. Len(v) = 1
  OBVIOUS
<1> HIDE DEF u, v
<1>5. Len(Lines(s, a, p, signs)) = Len(u) + Len(v) /\ Len(u) \in Nat
  BY <1>2, <1>3, JoinLen
<1> QED BY <1>4, <1>5, <1>6

\* Each of the lines is a line of the script.
LEMMA LinesFrom ==
  ASSUME NEW s, NEW a \in Int, NEW b \in Int, NEW signs, a <= b + 1,
         NEW p \in 1 .. Len(Lines(s, a, b, signs))
  PROVE  \E q \in a .. b : Lines(s, a, b, signs)[p] = <<q>>
<1> DEFINE f == Pieces(s, a, b, signs)
<1>1. /\ f \in Seq(Seq(Seq(Int))) /\ Len(f) = b - a + 1
      /\ \A k \in 1 .. b - a + 1 : f[k] = LineAt(s, a + k - 1, signs)
      /\ Lines(s, a, b, signs) = FlattenSeq(f)
  BY LinesPieces
<1> HIDE DEF f
<1> p \in 1 .. Len(FlattenSeq(f))
  BY <1>1, Zenon
<1>2. PICK k \in 1 .. Len(f) : \E j \in 1 .. Len(f[k]) : FlattenSeq(f)[p] = f[k][j]
  BY <1>1, FlattenFrom
<1> PICK j \in 1 .. Len(f[k]) : FlattenSeq(f)[p] = f[k][j]
  BY <1>2
<1> DEFINE q == a + k - 1
<1>3. q \in a .. b /\ q \in Int /\ f[k] = LineAt(s, q, signs)
  BY <1>1
<1> HIDE DEF q
<1>4. CASE s[q] \in signs
  <2>1. f[k] = <<<<q>>>>
    BY <1>3, <1>4, LineAtType
  <2>2. Len(<<<<q>>>>) = 1 /\ <<<<q>>>>[1] = <<q>> /\ 1 .. 1 = {1}
    OBVIOUS
  <2>3. f[k][j] = <<q>>
    <3>1. j \in 1 .. 1
      BY <2>1, <2>2, Zenon
    <3>2. j = 1
      BY <3>1
    <3> QED BY <2>1, <2>2, <3>2, Zenon
  <2> QED BY <1>1, <1>2, <1>3, <2>3, Zenon
<1>5. CASE s[q] \notin signs
  <2>1. f[k] = <<>>
    BY <1>3, <1>5, LineAtType
  <2>2. 1 .. Len(<<>>) = {}
    OBVIOUS
  <2> QED BY <2>1, <2>2, Zenon
<1> QED BY <1>4, <1>5

-----------------------------------------------------------------------------
(* The inductive invariant.                                                *)

\* The lines of the diff by hunks, and how many lines come before hunk k.
HunkPieces == [k \in DOMAIN cut |-> HunkLines(script, cut[k])]
DiffStart(k) == 2 + Len(FlattenSeq(SubSeq(HunkPieces, 1, k - 1)))
Size(h) == h[2] - h[1] + 1

\* What the parser has made of a hunk after its header and j lines.
ParsedHunk(h, j) ==
    [start_line |-> HunkStart(script, h) - 1,
     end_line |-> HunkStart(script, h) - 1 + OldLen(script, h),
     new_lines |-> Lines(script, h[1], h[1] + j - 1, NewSigns)]
FirstHunks(n) == [k \in 1 .. n |-> ParsedHunk(cut[k], Size(cut[k]))]

\* The change and the finding are what Init chose.
InputInv ==
    /\ script \in Scripts /\ cut \in Cuts(script)
    /\ \E f \in Findings : findings = <<f>>

\* Where the parser is: before the first hunk, in a hunk, behind git's remark.
ParseInv ==
    pc = "parse" =>
        \/ place \in 0 .. 2 /\ current_hunk = NoHunk /\ hunks = <<>>
        \/ \E k \in DOMAIN cut : \E j \in 0 .. Size(cut[k]) :
              /\ place = DiffStart(k) + 1 + j
              /\ hunks = FirstHunks(k - 1)
              /\ current_hunk = ParsedHunk(cut[k], j)
        \/ /\ place = Len(unified_diff)
           /\ hunks = FirstHunks(Len(cut) - 1)
           /\ current_hunk = ParsedHunk(cut[Len(cut)], Size(cut[Len(cut)]))

\* The parser has found the hunks that the diff was made of.
HunksInv == pc # "parse" => hunks = FirstHunks(Len(cut))

\* The line of the finding, as publish_quick_fix numbers it.
FindingLine == IF findings[1].line = 0 THEN 1 ELSE findings[1].line

\* The published actions: for the line of the finding, and the patch.
Published ==
    {[kind |-> "quickfix", line_number |-> FindingLine],
     [kind |-> "quickfix.suppress", line_number |-> FindingLine],
     [kind |-> "quickfix.patch", edits |-> hunks]}
PublishedInv ==
    pc \in {"published", "answered", "applied"} => code_actions \in Seq(Published)

\* The answer's items come from those, offered for the range asked about.
AnsweredInv ==
    pc \in {"answered", "applied"} =>
        \A k \in DOMAIN actions :
            \E ca \in Published : Offered(ca, asked) /\ actions[k] = ActionItem(ca)

\* The text is the old one until one of those is applied to it.
TextInv ==
    /\ pc # "applied" => text = OldText(script)
    /\ pc = "applied" =>
          \E k \in DOMAIN actions : /\ applied = <<actions[k]>>
                                    /\ text = Edited(OldText(script), actions[k].edit)

ActionsInv ==
    InputInv /\ ParseInv /\ HunksInv /\ PublishedInv /\ AnsweredInv /\ TextInv

-----------------------------------------------------------------------------
(* The editor.                                                             *)

\* A script is a sequence of signs, and its texts are sequences of lines.
LEMMA ScriptType ==
  ASSUME NEW s \in Scripts
  PROVE  /\ Len(s) \in Nat /\ Len(s) >= 1 /\ \A p \in 1 .. Len(s) : s[p] \in Signs
         /\ OldText(s) \in Seq(Seq(Int)) /\ NewText(s) \in Seq(Seq(Int))
<1>1. PICK n \in 1 .. MaxScript : s \in [1 .. n -> Signs]
  BY DEF Scripts
<1>2. n \in Nat /\ n >= 1 /\ Len(s) = n
  BY <1>1, CodeActionsAssumption
<1>3. 1 \in Int /\ Len(s) \in Int /\ 1 <= Len(s) + 1
  BY <1>2
<1>4. OldText(s) \in Seq(Seq(Int)) /\ NewText(s) \in Seq(Seq(Int))
  BY <1>3, LinesPieces DEF OldText, NewText
<1> QED BY <1>1, <1>2, <1>4

\* The edited text by the lines of the text before.
EditedPieces(t, edits) == [p \in 1 .. Len(t) + 1 |-> EditedLine(t, edits, p)]

LEMMA EditedType ==
  ASSUME NEW t \in Seq(Seq(Int)), NEW edits,
         \A p \in 1 .. Len(t) + 1 : EditedLine(t, edits, p) \in Seq(Seq(Int))
  PROVE  /\ Edited(t, edits) = FlattenSeq(EditedPieces(t, edits))
         /\ EditedPieces(t, edits) \in Seq(Seq(Seq(Int)))
         /\ Len(EditedPieces(t, edits)) = Len(t) + 1
         /\ \A p \in 1 .. Len(t) + 1 : EditedPieces(t, edits)[p] = EditedLine(t, edits, p)
<1> DEFINE T == Seq(Seq(Int))
           L(p) == EditedLine(t, edits, p)
           n == Len(t) + 1
           g == [p \in 1 .. n |-> L(p)]
<1>1. n \in Nat /\ \A p \in 1 .. n : L(p) \in T
  OBVIOUS
<1>2. EditedPieces(t, edits) = g /\ Edited(t, edits) = FlattenSeq(g)
  BY Zenon DEF EditedPieces, Edited
<1>3. g \in Seq(T) /\ Len(g) = n /\ \A p \in 1 .. n : g[p] = L(p)
  <2> HIDE DEF T, L, n
  <2> QED BY <1>1
<1> QED BY <1>2, <1>3, Zenon

\* Each line becomes one line, and nothing is added at the end.
InPlace(t, edits, new) ==
    /\ \A p \in 1 .. Len(t) : EditedLine(t, edits, p) = <<new[p]>> /\ new[p] \in Seq(Int)
    /\ EditedLine(t, edits, Len(t) + 1) = <<>>

\* Lines then keep their places.
LEMMA EditedInPlace ==
  ASSUME NEW t \in Seq(Seq(Int)), NEW edits, NEW new, InPlace(t, edits, new)
  PROVE  /\ Len(Edited(t, edits)) = Len(t)
         /\ \A p \in 1 .. Len(t) : Edited(t, edits)[p] = new[p]
<1> DEFINE n == Len(t)
           f == EditedPieces(t, edits)
           u == SubSeq(f, 1, n)
<1>1. n \in Nat
  OBVIOUS
<1>2. \A p \in 1 .. n + 1 : EditedLine(t, edits, p) \in Seq(Seq(Int))
  <2>1. ASSUME NEW p \in 1 .. n PROVE EditedLine(t, edits, p) \in Seq(Seq(Int))
    <3>1. EditedLine(t, edits, p) = <<new[p]>> /\ new[p] \in Seq(Int)
      BY Zenon DEF InPlace
    <3>2. <<new[p]>> \in Seq(Seq(Int))
      BY <3>1
    <3> QED BY <3>1, <3>2, Zenon
  <2>2. EditedLine(t, edits, n + 1) \in Seq(Seq(Int))
    <3>1. <<>> \in Seq(Seq(Int))
      OBVIOUS
    <3> QED BY <3>1, Zenon DEF InPlace
  <2>3. \A p \in 1 .. n + 1 : p \in 1 .. n \/ p = n + 1
    BY <1>1
  <2> QED BY <2>1, <2>2, <2>3, Zenon
<1>3. /\ Edited(t, edits) = FlattenSeq(f) /\ f \in Seq(Seq(Seq(Int))) /\ Len(f) = n + 1
      /\ \A p \in 1 .. n + 1 : f[p] = EditedLine(t, edits, p)
  BY <1>2, EditedType
<1> HIDE DEF n, f
<1>4. u \in Seq(Seq(Seq(Int))) /\ Len(u) = n /\ \A p \in 1 .. n : u[p] = f[p]
  BY <1>1, <1>3
<1>5. FlattenSeq(f) = FlattenSeq(u)
  <2>1. SubSeq(f, 1, n + 1) = f
    BY <1>3, PrefixFull, Zenon
  <2>2. n < Len(f) /\ n + 1 \in 1 .. n + 1
    BY <1>1, <1>3
  <2>3. FlattenSeq(SubSeq(f, 1, n + 1)) = FlattenSeq(u) \o f[n + 1] /\ FlattenSeq(u) \in Seq(Seq(Int))
    BY <1>1, <1>3, <2>2, FlattenPrefix
  <2>4. f[n + 1] = <<>>
    BY <1>3, <2>2, Zenon DEF n, InPlace
  <2>5. FlattenSeq(u) \o <<>> = FlattenSeq(u)
    <3> HIDE DEF u
    <3> QED BY <2>3
  <2> QED BY <2>1, <2>3, <2>4, <2>5, Zenon
<1>6. \A p \in 1 .. n : u[p] = <<new[p]>>
  <2>1. \A p \in 1 .. n : p \in 1 .. n + 1 /\ EditedLine(t, edits, p) = <<new[p]>>
    BY <1>1 DEF n, InPlace
  <2> QED BY <1>3, <1>4, <2>1, Zenon
<1> HIDE DEF u
<1>7. \A p \in 1 .. Len(u) : Len(u[p]) = 1 /\ u[p][1] = new[p]
  <2>1. ASSUME NEW p \in 1 .. n PROVE Len(u[p]) = 1 /\ u[p][1] = new[p]
    <3>1. Len(<<new[p]>>) = 1 /\ <<new[p]>>[1] = new[p]
      OBVIOUS
    <3> QED BY <1>6, <3>1, Zenon
  <2> QED BY <1>4, <2>1, Zenon
<1>8. Len(FlattenSeq(u)) = Len(u) /\ \A p \in 1 .. Len(u) : FlattenSeq(u)[p] = u[p][1]
  BY <1>4, <1>7, FlattenSingles
<1> QED BY <1>3, <1>4, <1>5, <1>7, <1>8, Zenon DEF n

\* A single edit: its lines come where it starts.
LEMMA EditsAtOne ==
  ASSUME NEW e, NEW p, NEW how, e.lines \in Seq(Seq(Int))
  PROVE  EditsAt(<<e>>, p, how) = IF e.how = how /\ e.start = p - 1 THEN e.lines ELSE <<>>
<1> DEFINE x == IF e.how = how /\ e.start = p - 1 THEN e.lines ELSE <<>>
           edits == <<e>>
           f == [k \in DOMAIN edits |-> IF edits[k].how = how /\ edits[k].start = p - 1
                                        THEN edits[k].lines ELSE <<>>]
<1>1. x \in Seq(Seq(Int))
  OBVIOUS
<1>2. f = [k \in 1 .. 1 |-> x]
  <2>1. DOMAIN edits = 1 .. 1 /\ \A k \in 1 .. 1 : edits[k] = e
    OBVIOUS
  <2> HIDE DEF edits
  <2> QED BY <2>1
<1>3. EditsAt(<<e>>, p, how) = FlattenSeq(f)
  BY Zenon DEF EditsAt
<1> HIDE DEF x
<1>4. [k \in 1 .. 1 |-> x] = <<x>>
  OBVIOUS
<1>5. FlattenSeq(<<x>>) = x
  BY <1>1, FlattenOne
<1> HIDE DEF f
<1> QED BY <1>2, <1>3, <1>4, <1>5, Zenon DEF x

\* Text u differs from text t in one line.
ChangesOnly(t, u, line) ==
    Len(u) = Len(t) /\ \A p \in 1 .. Len(t) : u[p] # t[p] <=> p = line

\* What LineEdit makes of a text: the line of the action, counted from 1, is
\* replaced or gets a piece more, and every other line stays.
LEMMA LineEdited ==
  ASSUME NEW t \in Seq(Seq(Int)), NEW ca, NEW line \in Nat, line >= 1, line <= Len(t),
         ca.kind \in {"quickfix", "quickfix.suppress"}, ca.line_number = line,
         t[line] # <<Fix>>
  PROVE  ChangesOnly(t, Edited(t, LineEdit(ca)), line)
<1> DEFINE suppress == ca.kind = "quickfix.suppress"
           e == IF suppress THEN AppendTo(line - 1, Noqa)
                ELSE Replace(line - 1, line - 1 + 1, <<<<Fix>>>>)
           new == [p \in 1 .. Len(t) |->
                     IF p # line THEN t[p]
                     ELSE IF suppress THEN t[p] \o <<Noqa>> ELSE <<Fix>>]
<1>1. LineEdit(ca) = <<e>>
  BY DEF LineEdit, ActionLine
<1>2. /\ e.start = line - 1
      /\ e.lines = IF suppress THEN <<<<Noqa>>>> ELSE <<<<Fix>>>>
      /\ e.how = IF suppress THEN "append" ELSE "replace"
      /\ ~suppress => e.end = line
  BY DEF AppendTo, Replace
<1>3. e.lines \in Seq(Seq(Int)) /\ FlattenSeq(<<<<Noqa>>>>) = <<Noqa>> /\ FlattenSeq(<<>>) = <<>>
  <2>1. <<<<Noqa>>>> \in Seq(Seq(Int)) /\ <<<<Fix>>>> \in Seq(Seq(Int)) /\ <<Noqa>> \in Seq(Int)
    BY DEF Noqa, Fix
  <2>2. e.lines \in Seq(Seq(Int))
    BY <1>2, <2>1, Zenon
  <2>3. FlattenSeq(<<<<Noqa>>>>) = <<Noqa>>
    BY <2>1, FlattenOne
  <2> QED BY <2>2, <2>3, FlattenEmpty
<1> HIDE DEF e
<1>4. Len(t) \in Nat /\ \A p \in 1 .. Len(t) : t[p] \in Seq(Int)
  OBVIOUS
<1>5. ASSUME NEW p \in Nat
      PROVE  /\ EditsAt(<<e>>, p, "replace") = IF ~suppress /\ p = line THEN <<<<Fix>>>> ELSE <<>>
             /\ EditsAt(<<e>>, p, "append") = IF suppress /\ p = line THEN <<<<Noqa>>>> ELSE <<>>
             /\ Gone(<<e>>, p) <=> ~suppress /\ p = line
  <2>1. e.start = p - 1 <=> p = line
    BY <1>2
  <2>2. EditsAt(<<e>>, p, "replace") = IF ~suppress /\ p = line THEN <<<<Fix>>>> ELSE <<>>
    BY <1>2, <1>3, <2>1, EditsAtOne
  <2>3. EditsAt(<<e>>, p, "append") = IF suppress /\ p = line THEN <<<<Noqa>>>> ELSE <<>>
    BY <1>2, <1>3, <2>1, EditsAtOne
  <2>4. Gone(<<e>>, p) <=> (e.how = "replace" /\ e.start < p /\ p <= e.end)
    BY DEF Gone
  <2>5. Gone(<<e>>, p) <=> ~suppress /\ p = line
    BY <1>2, <2>4
  <2> QED BY <2>2, <2>3, <2>5
<1>6. ASSUME NEW p \in 1 .. Len(t)
      PROVE  EditedLine(t, <<e>>, p) = <<new[p]>> /\ new[p] \in Seq(Int)
  <2>1. /\ p \in Nat /\ ~(p > Len(t))
        /\ new[p] = IF p # line THEN t[p] ELSE IF suppress THEN t[p] \o <<Noqa>> ELSE <<Fix>>
    BY <1>4
  <2>2. EditedLine(t, <<e>>, p) =
          EditsAt(<<e>>, p, "replace")
          \o (IF Gone(<<e>>, p) THEN <<>> ELSE <<t[p] \o FlattenSeq(EditsAt(<<e>>, p, "append"))>>)
    BY <2>1, Zenon DEF EditedLine
  <2> HIDE DEF new
  <2>3. CASE p # line
    <3>1. EditedLine(t, <<e>>, p) = <<>> \o <<t[p] \o <<>>>>
      BY <1>3, <1>5, <2>1, <2>2, <2>3, Zenon
    <3>2. <<>> \o <<t[p] \o <<>>>> = <<t[p]>>
      BY <1>4
    <3> QED BY <1>4, <2>1, <2>3, <3>1, <3>2, Zenon
  <2>4. CASE p = line /\ suppress
    <3>1. EditedLine(t, <<e>>, p) = <<>> \o <<t[p] \o <<Noqa>>>>
      BY <1>3, <1>5, <2>1, <2>2, <2>4, Zenon
    <3>2. <<>> \o <<t[p] \o <<Noqa>>>> = <<t[p] \o <<Noqa>>>> /\ t[p] \o <<Noqa>> \in Seq(Int)
      BY <1>4 DEF Noqa
    <3> QED BY <2>1, <2>4, <3>1, <3>2, Zenon
  <2>5. CASE p = line /\ ~suppress
    <3>1. EditedLine(t, <<e>>, p) = <<<<Fix>>>> \o <<>>
      BY <1>5, <2>1, <2>2, <2>5, Zenon
    <3>2. <<<<Fix>>>> \o <<>> = <<<<Fix>>>> /\ <<Fix>> \in Seq(Int)
      BY DEF Fix
    <3> QED BY <2>1, <2>5, <3>1, <3>2, Zenon
  <2> QED BY <2>3, <2>4, <2>5
<1>7. EditedLine(t, <<e>>, Len(t) + 1) = <<>>
  <2>1. Len(t) + 1 \in Nat /\ Len(t) + 1 # line /\ Len(t) + 1 > Len(t)
    BY <1>4
  <2>2. EditedLine(t, <<e>>, Len(t) + 1) = <<>> \o <<>>
    BY <1>5, <2>1, Zenon DEF EditedLine
  <2>3. <<>> \o <<>> = <<>>
    OBVIOUS
  <2> QED BY <2>2, <2>3, Zenon
<1>8. \A p \in 1 .. Len(t) : new[p] # t[p] <=> p = line
  <2>1. ASSUME NEW p \in 1 .. Len(t), p = line PROVE new[p] # t[p]
    <3>1. new[p] = IF suppress THEN t[p] \o <<Noqa>> ELSE <<Fix>>
      BY <2>1
    <3>2. t[p] \o <<Noqa>> # t[p]
      <4> DEFINE u == t[p]
      <4>1. u \in Seq(Int)
        BY <1>4
      <4> HIDE DEF u
      <4>2. Len(u \o <<Noqa>>) = Len(u) + 1 /\ Len(u) \in Nat
        BY <4>1 DEF Noqa
      <4>3. u \o <<Noqa>> # u
        <5> SUFFICES ASSUME u \o <<Noqa>> = u PROVE FALSE
          OBVIOUS
        <5>1. Len(u) = Len(u) + 1
          BY <4>2, Zenon
        <5> QED BY <4>2, <5>1
      <4> QED BY <4>3 DEF u
    <3> HIDE DEF new
    <3> QED BY <2>1, <3>1, <3>2, Zenon
  <2>2. ASSUME NEW p \in 1 .. Len(t), p # line PROVE new[p] = t[p]
    BY <2>2
  <2> QED BY <2>1, <2>2
<1> HIDE DEF new
<1>9. /\ Len(Edited(t, <<e>>)) = Len(t)
      /\ \A p \in 1 .. Len(t) : Edited(t, <<e>>)[p] = new[p]
  <2> DEFINE w == <<e>>
  <2>1. InPlace(t, w, new)
    BY <1>6, <1>7 DEF InPlace
  <2> HIDE DEF w
  <2>2. Len(Edited(t, w)) = Len(t) /\ \A p \in 1 .. Len(t) : Edited(t, w)[p] = new[p]
    BY <2>1, EditedInPlace
  <2> QED BY <2>2, Zenon DEF w
<1> QED BY <1>1, <1>8, <1>9, Zenon DEF ChangesOnly

\* A quick fix or a suppression that was applied touched its line.
LEMMA FixImplied == ActionsInv => FixTouchesItsLine
<1> SUFFICES ASSUME ActionsInv, Picked("quickfix") \/ Picked("quickfix.suppress")
             PROVE  LET line == FindingLine
                        old == OldText(script)
                    IN  /\ 1 \in DOMAIN findings
                        /\ line - 1 \in asked[1] .. asked[2]
                        /\ line <= Len(old) =>
                             /\ Len(text) = Len(old)
                             /\ \A p \in DOMAIN old : text[p] # old[p] <=> p = line
  BY DEF FixTouchesItsLine, FindingLine
<1> DEFINE old == OldText(script)
           line == FindingLine
<1>1. PICK f \in Findings : findings = <<f>>
  BY DEF ActionsInv, InputInv
<1>2. line \in Nat /\ line >= 1 /\ 1 \in DOMAIN findings
  BY <1>1, CodeActionsAssumption DEF FindingLine, Findings
<1>3. pc = "applied" /\ applied[1].kind \in {"quickfix", "quickfix.suppress"}
  BY DEF Picked
<1>4. PICK k \in DOMAIN actions : /\ applied = <<actions[k]>>
                                  /\ text = Edited(old, actions[k].edit)
  BY <1>3 DEF ActionsInv, TextInv
<1>5. PICK ca \in Published : Offered(ca, asked) /\ actions[k] = ActionItem(ca)
  BY <1>3 DEF ActionsInv, AnsweredInv
<1>6. /\ ca.kind \in {"quickfix", "quickfix.suppress"} /\ ca.line_number = line
      /\ actions[k].edit = LineEdit(ca)
  <2>1. actions[k].kind \in {"quickfix", "quickfix.suppress"}
    BY <1>3, <1>4
  <2>2. ca.kind \in {"quickfix", "quickfix.suppress"}
    BY <1>5, <2>1 DEF ActionItem
  <2>3. actions[k].edit = LineEdit(ca)
    BY <1>5, <2>2 DEF ActionItem
  <2> QED BY <2>2, <2>3 DEF Published
<1>7. line - 1 \in asked[1] .. asked[2]
  BY <1>5, <1>6 DEF Offered, ActionLine
<1>8. script \in Scripts
  BY DEF ActionsInv, InputInv
<1>9. old \in Seq(Seq(Int)) /\ Len(script) \in Nat
  BY <1>8, ScriptType
<1>10. ASSUME line <= Len(old)
       PROVE  /\ Len(text) = Len(old)
              /\ \A p \in DOMAIN old : text[p] # old[p] <=> p = line
  <2>1. old[line] # <<Fix>>
    <3>1. /\ line \in 1 .. Len(Lines(script, 1, Len(script), OldSigns))
          /\ 1 \in Int /\ Len(script) \in Int /\ 1 <= Len(script) + 1
      BY <1>2, <1>9, <1>10 DEF OldText
    <3>2. PICK q \in 1 .. Len(script) : Lines(script, 1, Len(script), OldSigns)[line] = <<q>>
      BY <3>1, LinesFrom
    <3>3. <<q>>[1] = q /\ <<Fix>>[1] = 0 /\ q # 0
      BY <1>9 DEF Fix
    <3> QED BY <3>2, <3>3, Zenon DEF OldText
  <2> DEFINE t == old
             d == line
  <2>2. /\ t \in Seq(Seq(Int)) /\ d \in Nat /\ d >= 1 /\ d <= Len(t) /\ t[d] # <<Fix>>
        /\ ca.kind \in {"quickfix", "quickfix.suppress"} /\ ca.line_number = d
    BY <1>2, <1>6, <1>9, <1>10, <2>1, Zenon
  <2> HIDE DEF t, d
  <2>3. ChangesOnly(t, Edited(t, LineEdit(ca)), d)
    BY <2>2, LineEdited
  <2>4. DOMAIN t = 1 .. Len(t)
    BY <2>2
  <2> QED BY <1>4, <1>6, <2>3, <2>4, Zenon DEF t, d, ChangesOnly
<1> QED BY <1>2, <1>7, <1>10

-----------------------------------------------------------------------------
(* The diff.                                                               *)

\* An interval of lines of the script.
Interval(h) ==
    h[1] \in Int /\ h[2] \in Int /\ 1 <= h[1] /\ h[1] <= h[2] /\ h[2] <= Len(script)

\* A cut is a sequence of intervals in order.
LEMMA CutType ==
  ASSUME InputInv
  PROVE  /\ Len(cut) \in Nat /\ Len(cut) >= 1 /\ DOMAIN cut = 1 .. Len(cut)
         /\ \A k \in DOMAIN cut : Interval(cut[k])
         /\ \A k \in DOMAIN cut : k > 1 => cut[k - 1][2] + 1 < cut[k][1]
         /\ \A p \in 1 .. Len(script) :
               script[p] # " " => \E k \in DOMAIN cut : p \in cut[k][1] .. cut[k][2]
<1>1. Len(script) \in Nat /\ script \in Scripts /\ cut \in Cuts(script)
  BY ScriptType DEF InputInv
<1>2. PICK n \in 1 .. MaxHunks : cut \in [1 .. n -> (1 .. Len(script)) \X (1 .. Len(script))]
  BY <1>1 DEF Cuts
<1>3. n \in Nat /\ n >= 1 /\ Len(cut) = n /\ DOMAIN cut = 1 .. n
  BY <1>2, CodeActionsAssumption
<1>4. /\ \A k \in DOMAIN cut : cut[k][1] <= cut[k][2]
      /\ \A k \in DOMAIN cut : k > 1 => cut[k - 1][2] + 1 < cut[k][1]
      /\ \A p \in 1 .. Len(script) :
            script[p] # " " => \E k \in DOMAIN cut : p \in cut[k][1] .. cut[k][2]
  BY <1>1 DEF Cuts
<1>5. ASSUME NEW k \in DOMAIN cut PROVE Interval(cut[k])
  <2>1. cut[k] \in (1 .. Len(script)) \X (1 .. Len(script))
    BY <1>2, <1>3
  <2>2. cut[k][1] \in 1 .. Len(script) /\ cut[k][2] \in 1 .. Len(script)
    BY <2>1
  <2>3. cut[k][1] <= cut[k][2]
    BY <1>4
  <2> QED BY <1>1, <2>2, <2>3 DEF Interval
<1> QED BY <1>3, <1>4, <1>5

\* The lines of a diff.
DiffLine ==
    {HeaderLine(start, len) : start \in Int, len \in Int}
    \cup {BodyLine(sign, line) : sign \in Signs, line \in Seq(Int)}

\* The numbers of a hunk.
LEMMA HunkNumbers ==
  ASSUME NEW h, Interval(h)
  PROVE  /\ Before(script, h) \in Nat /\ OldLen(script, h) \in Nat
         /\ HunkStart(script, h) \in Int /\ Size(h) \in Nat /\ Size(h) >= 1
<1>1. /\ h[1] \in Int /\ h[2] \in Int /\ h[1] - 1 \in Int /\ 1 <= (h[1] - 1) + 1
      /\ h[1] <= h[2] + 1 /\ 1 \in Int /\ Size(h) \in Nat /\ Size(h) >= 1
  BY DEF Interval, Size
<1>2. /\ Lines(script, 1, h[1] - 1, OldSigns) \in Seq(Seq(Int))
      /\ Lines(script, h[1], h[2], OldSigns) \in Seq(Seq(Int))
  BY <1>1, LinesPieces
<1>3. Before(script, h) \in Nat /\ OldLen(script, h) \in Nat
  BY <1>2 DEF Before, OldLen
<1> QED BY <1>1, <1>3 DEF HunkStart

\* The lines of a hunk: its header and the lines of the interval.
LEMMA HunkLinesType ==
  ASSUME InputInv, NEW h, Interval(h)
  PROVE  /\ HunkLines(script, h) \in Seq(DiffLine)
         /\ Len(HunkLines(script, h)) = Size(h) + 1
         /\ HunkLines(script, h)[1] =
               HeaderLine(HunkStart(script, h),
                          IF OldLen(script, h) = 1 THEN -1 ELSE OldLen(script, h))
         /\ \A j \in 1 .. Size(h) :
               HunkLines(script, h)[1 + j] = BodyLine(script[h[1] + j - 1], <<h[1] + j - 1>>)
<1> DEFINE x == HeaderLine(HunkStart(script, h),
                           IF OldLen(script, h) = 1 THEN -1 ELSE OldLen(script, h))
           B(k) == BodyLine(script[h[1] + k - 1], <<h[1] + k - 1>>)
           n == Size(h)
           u == [k \in 1 .. n |-> B(k)]
           v == <<x>>
<1>1. HunkLines(script, h) = v \o u
  BY DEF HunkLines, Size
<1>2. n \in Nat /\ x \in DiffLine
  BY HunkNumbers DEF DiffLine
<1>3. \A k \in 1 .. n : B(k) \in DiffLine
  <2> SUFFICES ASSUME NEW k \in 1 .. n PROVE B(k) \in DiffLine
    OBVIOUS
  <2>1. h[1] + k - 1 \in 1 .. Len(script) /\ h[1] + k - 1 \in Int
    BY DEF Interval, Size
  <2>2. script[h[1] + k - 1] \in Signs
    BY <2>1, ScriptType DEF InputInv
  <2>3. <<h[1] + k - 1>> \in Seq(Int)
    BY <2>1
  <2> HIDE DEF B
  <2>4. \E sign \in Signs, line \in Seq(Int) : B(k) = BodyLine(sign, line)
    BY <2>2, <2>3, Zenon DEF B
  <2> QED BY <2>4 DEF DiffLine
<1> HIDE DEF x, B, n
<1>4. u \in Seq(DiffLine) /\ Len(u) = n /\ \A k \in 1 .. n : u[k] = B(k)
  BY <1>2, <1>3
<1>5. v \in Seq(DiffLine) /\ Len(v) = 1 /\ v[1] = x
  BY <1>2
<1> HIDE DEF u, v
<1>6. Joins(v, u, HunkLines(script, h)) /\ v \in Seq(DiffLine)
  BY <1>1, <1>5, Zenon DEF Joins
<1>7. HunkLines(script, h) \in Seq(DiffLine)
      /\ Len(HunkLines(script, h)) = Len(v) + Len(u)
  BY <1>4, <1>6, JoinLen
<1>8. \A i \in 1 .. Len(v) : (v \o u)[i] = v[i]
  BY <1>4, <1>6, ConcatAt
<1>9. \A i \in 1 .. Len(u) : (v \o u)[Len(v) + i] = u[i]
  BY <1>4, <1>6, ConcatAt
<1>10. 1 \in 1 .. 1 /\ 1 + n = n + 1
  BY <1>2
<1> QED BY <1>1, <1>4, <1>5, <1>7, <1>8, <1>9, <1>10, Zenon DEF x, B, n

\* The hunks of the diff are sequences of lines.
LEMMA HunkPiecesType ==
  ASSUME InputInv
  PROVE  /\ HunkPieces \in Seq(Seq(DiffLine)) /\ Len(HunkPieces) = Len(cut)
         /\ \A k \in DOMAIN cut : HunkPieces[k] = HunkLines(script, cut[k])
         /\ FlattenSeq(HunkPieces) \in Seq(DiffLine)
<1>1. /\ Len(cut) \in Nat /\ DOMAIN cut = 1 .. Len(cut)
      /\ \A k \in DOMAIN cut : Interval(cut[k])
  BY CutType
<1> DEFINE T == Seq(DiffLine)
           H(k) == HunkLines(script, cut[k])
           n == Len(cut)
<1>2. \A k \in 1 .. n : H(k) \in T
  BY <1>1, HunkLinesType
<1>3. HunkPieces = [k \in 1 .. n |-> H(k)]
  BY <1>1 DEF HunkPieces
<1>4. HunkPieces \in Seq(T) /\ Len(HunkPieces) = n /\ \A k \in 1 .. n : HunkPieces[k] = H(k)
  <2> HIDE DEF T, H, n
  <2>1. n \in Nat
    BY <1>1 DEF n
  <2> QED BY <1>2, <1>3, <2>1
<1>5. FlattenSeq(HunkPieces) \in T
  BY <1>4, FlattenType
<1> QED BY <1>1, <1>4, <1>5, Zenon

\* Each hunk starts where the one before it ends, after the two file names and
\* before the remark.
LEMMA DiffStarts ==
  ASSUME InputInv
  PROVE  /\ DiffStart(1) = 2
         /\ DiffStart(Len(cut) + 1) = 2 + Len(FlattenSeq(HunkPieces))
         /\ \A k \in DOMAIN cut : /\ DiffStart(k) \in Nat
                                  /\ DiffStart(k + 1) = DiffStart(k) + 1 + Size(cut[k])
<1> DEFINE H == HunkPieces
<1>1. /\ H \in Seq(Seq(DiffLine)) /\ Len(H) = Len(cut) /\ Len(cut) \in Nat
      /\ DOMAIN cut = 1 .. Len(cut) /\ \A k \in DOMAIN cut : Interval(cut[k])
  BY HunkPiecesType, CutType
<1>2. \A k \in DOMAIN cut : H[k] = HunkLines(script, cut[k])
  BY HunkPiecesType
<1>3. SubSeq(H, 1, Len(H)) = H /\ SubSeq(H, 1, 0) = <<>>
  BY <1>1, PrefixFull
<1>4. DiffStart(1) = 2
  <2>1. Len(<<>>) = 0 /\ 1 - 1 = 0 /\ 2 + 0 = 2
    OBVIOUS
  <2> QED BY <1>3, <2>1, FlattenEmpty, Zenon DEF DiffStart
<1>5. DiffStart(Len(cut) + 1) = 2 + Len(FlattenSeq(H))
  <2>1. (Len(cut) + 1) - 1 = Len(cut)
    BY <1>1
  <2> QED BY <1>1, <1>3, <2>1, Zenon DEF DiffStart
<1>6. ASSUME NEW k \in DOMAIN cut
      PROVE  DiffStart(k) \in Nat /\ DiffStart(k + 1) = DiffStart(k) + 1 + Size(cut[k])
  <2> DEFINE a == FlattenSeq(SubSeq(H, 1, k - 1))
             e == HunkLines(script, cut[k])
             w == FlattenSeq(SubSeq(H, 1, k))
             m == k - 1
  <2>1. /\ m \in Nat /\ m < Len(H) /\ m + 1 = k /\ (k + 1) - 1 = k
    BY <1>1
  <2>2. Joins(a, e, w) /\ a \in Seq(DiffLine) /\ e \in Seq(DiffLine)
    <3> HIDE DEF m
    <3>1. /\ FlattenSeq(SubSeq(H, 1, m + 1)) = FlattenSeq(SubSeq(H, 1, m)) \o H[m + 1]
          /\ FlattenSeq(SubSeq(H, 1, m)) \in Seq(DiffLine) /\ H[m + 1] \in Seq(DiffLine)
      BY <1>1, <2>1, FlattenPrefix
    <3> QED BY <1>2, <2>1, <3>1, Zenon DEF Joins, m
  <2>3. Len(e) = Size(cut[k]) + 1 /\ Size(cut[k]) \in Nat
    BY <1>1, HunkLinesType, HunkNumbers
  <2>4. DiffStart(k) = 2 + Len(a) /\ DiffStart(k + 1) = 2 + Len(w)
    BY <2>1, Zenon DEF DiffStart
  <2> HIDE DEF a, e, w
  <2>5. Len(w) = Len(a) + Len(e) /\ Len(a) \in Nat
    BY <2>2, JoinLen
  <2> QED BY <2>3, <2>4, <2>5
<1> QED BY <1>4, <1>5, <1>6

\* The diff: two lines, the hunks, and the remark.
LEMMA DiffParts ==
  ASSUME InputInv
  PROVE  LET F == FlattenSeq(HunkPieces)
         IN  /\ Len(F) \in Nat /\ Len(unified_diff) = Len(F) + 3
             /\ unified_diff[1] = BodyLine("-", <<>>)
             /\ unified_diff[2] = BodyLine("+", <<>>)
             /\ unified_diff[Len(F) + 3] = BodyLine("\\", <<>>)
             /\ \A p \in 1 .. Len(F) : unified_diff[2 + p] = F[p]
<1> DEFINE F == FlattenSeq(HunkPieces)
           x == BodyLine("-", <<>>)
           y == BodyLine("+", <<>>)
           z == BodyLine("\\", <<>>)
           X == DiffLine \cup {x, y, z}
<1>1. F \in Seq(X)
  <2>1. F \in Seq(DiffLine) /\ DiffLine \subseteq X
    BY HunkPiecesType
  <2> HIDE DEF F, X
  <2> QED BY <2>1
<1>2. unified_diff = <<x, y>> \o F \o <<z>>
  BY DEF unified_diff, DiffLines, HunkPieces
<1>3. x \in X /\ y \in X /\ z \in X
  OBVIOUS
<1> HIDE DEF F, x, y, z, X
<1>4. <<x, y>> \in Seq(X) /\ <<z>> \in Seq(X)
  BY <1>3
<1>5. /\ Len(F) \in Nat /\ Len(<<x, y>> \o F) = Len(F) + 2 /\ <<x, y>> \o F \in Seq(X)
      /\ (<<x, y>> \o F)[1] = x /\ (<<x, y>> \o F)[2] = y
      /\ \A p \in 1 .. Len(F) : (<<x, y>> \o F)[2 + p] = F[p]
  BY <1>1, <1>3
<1> DEFINE G == <<x, y>> \o F
<1> HIDE DEF G
<1>6. /\ Len(G \o <<z>>) = Len(G) + 1 /\ (G \o <<z>>)[Len(G) + 1] = z
      /\ \A p \in 1 .. Len(G) : (G \o <<z>>)[p] = G[p]
  <2>1. G \in Seq(X)
    BY <1>5 DEF G
  <2> QED BY <1>3, <2>1
<1>7. /\ 1 \in 1 .. Len(G) /\ 2 \in 1 .. Len(G) /\ Len(G) + 1 = Len(F) + 3
      /\ \A p \in 1 .. Len(F) : 2 + p \in 1 .. Len(G)
  <2>1. Len(F) \in Nat /\ Len(G) = Len(F) + 2
    BY <1>5 DEF G
  <2> QED BY <2>1
<1>8. unified_diff = G \o <<z>> /\ G[1] = x /\ G[2] = y /\ \A p \in 1 .. Len(F) : G[2 + p] = F[p]
  BY <1>2, <1>5 DEF G
<1> QED BY <1>5, <1>6, <1>7, <1>8, Zenon DEF F, x, y, z

\* Line j of hunk k in the diff.
LEMMA DiffAtHunk ==
  ASSUME InputInv, NEW k \in DOMAIN cut, NEW j \in 1 .. Size(cut[k]) + 1
  PROVE  /\ DiffStart(k) + j < Len(unified_diff)
         /\ unified_diff[DiffStart(k) + j] = HunkLines(script, cut[k])[j]
<1> DEFINE H == HunkPieces
           F == FlattenSeq(H)
           a == Len(FlattenSeq(SubSeq(H, 1, k - 1)))
<1>1. /\ H \in Seq(Seq(DiffLine)) /\ k \in 1 .. Len(H) /\ H[k] = HunkLines(script, cut[k])
      /\ j \in 1 .. Len(H[k])
  BY HunkPiecesType, CutType, HunkLinesType
<1>2. a + j \in 1 .. Len(F) /\ F[a + j] = H[k][j]
  BY <1>1, FlattenAt
<1>3. /\ Len(F) \in Nat /\ Len(unified_diff) = Len(F) + 3
      /\ \A p \in 1 .. Len(F) : unified_diff[2 + p] = F[p]
  BY DiffParts
<1>4. DiffStart(k) = 2 + a /\ DiffStart(k) \in Nat
  BY DiffStarts DEF DiffStart
<1>7. a \in Nat /\ j \in Nat
  <2> DEFINE v == FlattenSeq(SubSeq(H, 1, k - 1))
  <2>1. v \in Seq(DiffLine)
    BY <1>1, FlattenSplit, FlattenType
  <2>2. Len(v) \in Nat
    <3> HIDE DEF v
    <3> QED BY <2>1
  <2>3. Size(cut[k]) \in Nat
    BY CutType, HunkNumbers
  <2>4. j \in Nat
    BY <2>3
  <2> QED BY <2>2, <2>4
<1> HIDE DEF F, H, a
<1>5. DiffStart(k) + j = 2 + (a + j)
  BY <1>4, <1>7
<1>6. DiffStart(k) + j < Len(unified_diff)
  BY <1>2, <1>3, <1>5
<1> QED BY <1>1, <1>2, <1>3, <1>5, <1>6, Zenon

\* The hunk that is being parsed is not the empty one.
LEMMA ParsedIsHunk ==
  ASSUME NEW h, NEW j
  PROVE  ParsedHunk(h, j) # NoHunk
<1>1. "start_line" \in DOMAIN ParsedHunk(h, j)
  BY DEF ParsedHunk
<1>2. DOMAIN NoHunk = {}
  BY DEF NoHunk
<1> QED BY <1>1, <1>2, Zenon

\* A parsed hunk joins the ones before it.
LEMMA FirstHunksNext ==
  ASSUME NEW n \in Nat
  PROVE  /\ FirstHunks(0) = <<>>
         /\ FirstHunks(n + 1) = Append(FirstHunks(n), ParsedHunk(cut[n + 1], Size(cut[n + 1])))
<1> DEFINE P(k) == ParsedHunk(cut[k], Size(cut[k]))
<1>1. \A m : FirstHunks(m) = [k \in 1 .. m |-> P(k)]
  BY DEF FirstHunks
<1> HIDE DEF P
<1>2. [k \in 1 .. 0 |-> P(k)] = <<>>
  OBVIOUS
<1>3. [k \in 1 .. n + 1 |-> P(k)] = Append([k \in 1 .. n |-> P(k)], P(n + 1))
  OBVIOUS
<1> QED BY <1>1, <1>2, <1>3, Zenon DEF P

\* The header of a hunk starts it.
LEMMA HeaderStarts ==
  ASSUME InputInv, NEW h, Interval(h), NEW line, line = HunkLines(script, h)[1]
  PROVE  /\ line.sign = "@"
         /\ HunkRange(line.start, IF line.len = -1 THEN 1 ELSE line.len) = ParsedHunk(h, 0)
<1>1. /\ line = HeaderLine(HunkStart(script, h),
                           IF OldLen(script, h) = 1 THEN -1 ELSE OldLen(script, h))
      /\ OldLen(script, h) \in Nat /\ HunkStart(script, h) \in Int
  BY HunkLinesType, HunkNumbers
<1>2. /\ line.sign = "@" /\ line.start = HunkStart(script, h)
      /\ (IF line.len = -1 THEN 1 ELSE line.len) = OldLen(script, h)
  BY <1>1 DEF HeaderLine
<1>3. Lines(script, h[1], h[1] + 0 - 1, NewSigns) = <<>>
  <2>1. h[1] + 0 - 1 = h[1] - 1 /\ h[1] \in Int
    BY DEF Interval
  <2> QED BY <2>1, LinesEmpty
<1> QED BY <1>2, <1>3, Zenon DEF HunkRange, ParsedHunk

\* A line of a hunk adds what it has of the new text.
LEMMA BodyAdds ==
  ASSUME InputInv, NEW h, Interval(h), NEW j \in 0 .. Size(h) - 1,
         NEW line, line = HunkLines(script, h)[1 + (j + 1)]
  PROVE  /\ line.sign # "@"
         /\ (IF line.sign \in {"+", " "}
             THEN [ParsedHunk(h, j) EXCEPT !.new_lines = Append(@, line.text)]
             ELSE ParsedHunk(h, j)) = ParsedHunk(h, j + 1)
<1> DEFINE p == h[1] + j
           u == Lines(script, h[1], h[1] + j - 1, NewSigns)
           w == Lines(script, h[1], p, NewSigns)
<1>1. /\ j + 1 \in 1 .. Size(h) /\ p \in 1 .. Len(script) /\ p \in Int /\ h[1] \in Int
      /\ h[1] + (j + 1) - 1 = p /\ h[1] + j - 1 \in Int /\ p = (h[1] + j - 1) + 1
      /\ h[1] <= p /\ h[1] <= (h[1] + j - 1) + 1
  <2>1. Len(script) \in Nat
    BY ScriptType DEF InputInv
  <2>2. h[1] \in Int /\ h[2] \in Int /\ 1 <= h[1] /\ h[1] <= h[2] /\ h[2] <= Len(script)
    BY DEF Interval
  <2>3. j \in Int /\ 0 <= j /\ j <= h[2] - h[1] /\ j + 1 <= Size(h) /\ Size(h) \in Int
    BY <2>2 DEF Size
  <2>4. j + 1 \in 1 .. Size(h)
    BY <2>3
  <2>5. p \in Int /\ 1 <= p /\ p <= Len(script) /\ h[1] <= p
    BY <2>1, <2>2, <2>3
  <2>6. p \in 1 .. Len(script)
    BY <2>1, <2>5
  <2>7. h[1] + (j + 1) - 1 = p /\ h[1] + j - 1 \in Int /\ p = (h[1] + j - 1) + 1
    BY <2>2, <2>3
  <2> HIDE DEF p
  <2> QED BY <2>2, <2>4, <2>5, <2>6, <2>7
<1>2. line = BodyLine(script[p], <<p>>) /\ script[p] \in Signs
  BY <1>1, HunkLinesType, ScriptType DEF InputInv
<1>3. line.sign = script[p] /\ line.text = <<p>> /\ line.sign \in Signs
  BY <1>2 DEF BodyLine
<1>4. Joins(u, LineAt(script, p, NewSigns), w) /\ u \in Seq(Seq(Int))
  BY <1>1, LinesNext, LinesPieces
<1>5. ParsedHunk(h, j + 1) = [ParsedHunk(h, j) EXCEPT !.new_lines = w]
  <2>1. Lines(script, h[1], h[1] + (j + 1) - 1, NewSigns) = w
    BY <1>1, Zenon
  <2> HIDE DEF w
  <2> QED BY <2>1 DEF ParsedHunk
<1>6. ParsedHunk(h, j).new_lines = u
  BY DEF ParsedHunk
<1> HIDE DEF u, w, p
<1>7. CASE script[p] \in NewSigns
  <2>1. Joins(u, <<<<p>>>>, w)
    BY <1>1, <1>4, <1>7, LineAtType
  <2>2. w = Append(u, <<p>>)
    <3>1. u \o <<<<p>>>> = Append(u, <<p>>)
      BY <1>1, <1>4
    <3> QED BY <2>1, <3>1, Zenon DEF Joins
  <2>3. line.sign \in {"+", " "}
    BY <1>3, <1>7 DEF NewSigns
  <2>4. [ParsedHunk(h, j) EXCEPT !.new_lines = Append(@, line.text)] =
           [ParsedHunk(h, j) EXCEPT !.new_lines = w]
    BY <1>3, <1>6, <2>2, Zenon
  <2> QED BY <1>3, <1>5, <2>3, <2>4 DEF Signs
<1>8. CASE script[p] \notin NewSigns
  <2>1. w = u
    <3>1. Joins(u, <<>>, w) /\ Joins(u, <<>>, u)
      BY <1>1, <1>4, <1>8, LineAtType, JoinNone
    <3> QED BY <3>1, Zenon DEF Joins
  <2>2. line.sign \notin {"+", " "}
    BY <1>3, <1>8 DEF NewSigns
  <2>3. [ParsedHunk(h, j) EXCEPT !.new_lines = u] = ParsedHunk(h, j)
    BY <1>6 DEF ParsedHunk
  <2> QED BY <1>3, <1>5, <2>1, <2>2, <2>3 DEF Signs
<1> QED BY <1>7, <1>8

-----------------------------------------------------------------------------
(* The steps keep the invariant.                                           *)

\* The diff and what is to be found in it do not change.
LEMMA SameDiff ==
  ASSUME UNCHANGED <<script, cut>>
  PROVE  /\ \A k : DiffStart(k)' = DiffStart(k)
         /\ \A n : FirstHunks(n)' = FirstHunks(n)
         /\ \A h, j : ParsedHunk(h, j)' = ParsedHunk(h, j)
         /\ Len(unified_diff)' = Len(unified_diff)
BY DEF DiffStart, HunkPieces, FirstHunks, ParsedHunk, unified_diff

\* What ParseInv says of the three stages, of any values of the parser.
ParseStage(at, hunk, found) ==
    \/ at \in 0 .. 2 /\ hunk = NoHunk /\ found = <<>>
    \/ \E k \in DOMAIN cut : \E j \in 0 .. Size(cut[k]) :
          at = DiffStart(k) + 1 + j /\ found = FirstHunks(k - 1) /\ hunk = ParsedHunk(cut[k], j)
    \/ /\ at = Len(unified_diff) /\ found = FirstHunks(Len(cut) - 1)
       /\ hunk = ParsedHunk(cut[Len(cut)], Size(cut[Len(cut)]))

LEMMA ParseStages ==
  /\ ParseInv <=> (pc = "parse" => ParseStage(place, current_hunk, hunks))
  /\ UNCHANGED <<script, cut>> =>
       (ParseInv' <=> (pc' = "parse" => ParseStage(place', current_hunk', hunks')))
<1>1. ParseInv <=> (pc = "parse" => ParseStage(place, current_hunk, hunks))
  BY DEF ParseInv, ParseStage
<1>2. ASSUME UNCHANGED <<script, cut>>
      PROVE  ParseInv' <=> (pc' = "parse" => ParseStage(place', current_hunk', hunks'))
  <2>1. ParseInv' <=> (pc' = "parse" =>
          \/ place' \in 0 .. 2 /\ current_hunk' = NoHunk /\ hunks' = <<>>
          \/ \E k \in DOMAIN cut : \E j \in 0 .. Size(cut[k]) :
                /\ place' = DiffStart(k)' + 1 + j
                /\ hunks' = FirstHunks(k - 1)'
                /\ current_hunk' = ParsedHunk(cut[k], j)'
          \/ /\ place' = Len(unified_diff)'
             /\ hunks' = FirstHunks(Len(cut) - 1)'
             /\ current_hunk' = ParsedHunk(cut[Len(cut)], Size(cut[Len(cut)]))')
    BY <1>2, Zenon DEF ParseInv, Size, NoHunk
  <2> QED BY <1>2, <2>1, SameDiff DEF ParseStage
<1> QED BY <1>1, <1>2

\* What is untouched while the diff is parsed.
LEMMA ParseFrame ==
  ASSUME ActionsInv, UNCHANGED <<script, cut, findings, pc, text>>, pc = "parse", ParseInv'
  PROVE  ActionsInv'
<1>1. InputInv'
  BY DEF ActionsInv, InputInv
<1>2. HunksInv' /\ PublishedInv' /\ AnsweredInv'
  BY DEF HunksInv, PublishedInv, AnsweredInv
<1>3. TextInv'
  BY DEF ActionsInv, TextInv
<1> QED BY <1>1, <1>2, <1>3 DEF ActionsInv

\* ParseHeader: the next hunk starts and the one before is complete.
LEMMA ParseHeaderInv ==
  ASSUME ActionsInv, ParseHeader
  PROVE  ActionsInv'
<1>1. /\ UNCHANGED <<script, cut, findings, pc, text>> /\ pc = "parse" /\ InputInv
      /\ ParseStage(place, current_hunk, hunks)
  BY ParseStages DEF ParseHeader, ActionsInv
<1> SUFFICES ParseStage(place', current_hunk', hunks')
  BY <1>1, ParseStages, ParseFrame
<1>2. /\ raw_line = unified_diff[place + 1] /\ raw_line.sign = "@" /\ place < Len(unified_diff)
      /\ place' = place + 1 /\ hunks' = EndHunk
      /\ current_hunk' = HunkRange(raw_line.start, IF raw_line.len = -1 THEN 1 ELSE raw_line.len)
  BY DEF ParseHeader, raw_line
<1>3. /\ Len(cut) \in Nat /\ Len(cut) >= 1 /\ DOMAIN cut = 1 .. Len(cut)
      /\ \A k \in DOMAIN cut : Interval(cut[k])
  BY <1>1, CutType
<1>4. \A k \in DOMAIN cut : /\ DiffStart(k) \in Nat /\ Size(cut[k]) \in Nat
                            /\ DiffStart(k + 1) = DiffStart(k) + 1 + Size(cut[k])
  BY <1>1, <1>3, DiffStarts, HunkNumbers
<1>5. ASSUME NEW k \in DOMAIN cut, place = DiffStart(k), EndHunk = FirstHunks(k - 1)
      PROVE  ParseStage(place', current_hunk', hunks')
  <2>1. 1 \in 1 .. Size(cut[k]) + 1 /\ 0 \in 0 .. Size(cut[k])
    BY <1>4
  <2>2. unified_diff[DiffStart(k) + 1] = HunkLines(script, cut[k])[1]
    BY <1>1, <2>1, DiffAtHunk
  <2>3. raw_line = HunkLines(script, cut[k])[1]
    BY <1>2, <1>5, <2>2, Zenon
  <2>4. current_hunk' = ParsedHunk(cut[k], 0)
    BY <1>1, <1>2, <1>3, <2>3, HeaderStarts
  <2>5. place' = DiffStart(k) + 1 + 0
    BY <1>2, <1>4, <1>5
  <2>6. hunks' = FirstHunks(k - 1)
    BY <1>2, <1>5, Zenon
  <2> QED BY <2>1, <2>4, <2>5, <2>6, Zenon DEF ParseStage
<1>6. CASE place \in 0 .. 2 /\ current_hunk = NoHunk /\ hunks = <<>>
  <2>1. unified_diff[1] = BodyLine("-", <<>>) /\ unified_diff[2] = BodyLine("+", <<>>)
    BY <1>1, DiffParts
  <2>2. unified_diff[1].sign # "@" /\ unified_diff[2].sign # "@"
    BY <2>1 DEF BodyLine
  <2>3. place = 2
    BY <1>2, <1>6, <2>2
  <2>4. 1 \in DOMAIN cut /\ DiffStart(1) = 2 /\ 1 - 1 = 0 /\ 0 \in Nat
    BY <1>1, <1>3, DiffStarts
  <2>5. EndHunk = FirstHunks(1 - 1)
    BY <1>6, <2>4, FirstHunksNext, Zenon DEF EndHunk
  <2> QED BY <1>5, <2>3, <2>4, <2>5, Zenon
<1>7. ASSUME NEW k \in DOMAIN cut, NEW j \in 0 .. Size(cut[k]),
             place = DiffStart(k) + 1 + j, hunks = FirstHunks(k - 1),
             current_hunk = ParsedHunk(cut[k], j)
      PROVE  ParseStage(place', current_hunk', hunks')
  <2>1. j = Size(cut[k])
    <3> SUFFICES ASSUME j # Size(cut[k]) PROVE FALSE
      OBVIOUS
    <3>1. /\ j \in 0 .. Size(cut[k]) - 1 /\ 1 + (j + 1) \in 1 .. Size(cut[k]) + 1
          /\ place + 1 = DiffStart(k) + (1 + (j + 1))
      BY <1>4, <1>7
    <3>2. unified_diff[DiffStart(k) + (1 + (j + 1))] = HunkLines(script, cut[k])[1 + (j + 1)]
      BY <1>1, <3>1, DiffAtHunk
    <3>3. raw_line = HunkLines(script, cut[k])[1 + (j + 1)]
      BY <1>2, <3>1, <3>2, Zenon
    <3>4. raw_line.sign # "@"
      BY <1>1, <1>3, <3>1, <3>3, BodyAdds
    <3> QED BY <1>2, <3>4
  <2>2. EndHunk = FirstHunks(k)
    <3>1. k - 1 \in Nat /\ (k - 1) + 1 = k
      BY <1>3
    <3>2. FirstHunks(k) = Append(FirstHunks(k - 1), ParsedHunk(cut[k], Size(cut[k])))
      BY <3>1, FirstHunksNext
    <3>3. current_hunk # NoHunk
      BY <1>7, ParsedIsHunk
    <3> QED BY <1>7, <2>1, <3>2, <3>3, Zenon DEF EndHunk
  <2>3. place = DiffStart(k + 1)
    BY <1>4, <1>7, <2>1
  <2>4. k # Len(cut)
    <3> SUFFICES ASSUME k = Len(cut) PROVE FALSE
      OBVIOUS
    <3> DEFINE n == Len(FlattenSeq(HunkPieces))
    <3>1. place = 2 + n
      BY <1>1, <2>3, DiffStarts
    <3>2. n \in Nat /\ unified_diff[n + 3] = BodyLine("\\", <<>>)
      BY <1>1, DiffParts
    <3> HIDE DEF n
    <3>3. raw_line = BodyLine("\\", <<>>)
      BY <1>2, <3>1, <3>2
    <3> QED BY <1>2, <3>3 DEF BodyLine
  <2>5. k + 1 \in DOMAIN cut /\ (k + 1) - 1 = k
    BY <1>3, <2>4
  <2> QED BY <1>5, <2>2, <2>3, <2>5
<1>8. CASE place = Len(unified_diff)
  <2>1. Len(unified_diff) \in Nat
    BY <1>1, DiffParts
  <2>2. ~(place < Len(unified_diff))
    BY <1>8, <2>1
  <2> QED BY <1>2, <2>2, Zenon
<1>9. CASE \E k \in DOMAIN cut : \E j \in 0 .. Size(cut[k]) :
             /\ place = DiffStart(k) + 1 + j /\ hunks = FirstHunks(k - 1)
             /\ current_hunk = ParsedHunk(cut[k], j)
  BY <1>7, <1>9, Zenon
<1> QED BY <1>1, <1>6, <1>8, <1>9, Zenon DEF ParseStage

\* ParseBody: a line before the first hunk, a line of a hunk, or the remark.
LEMMA ParseBodyInv ==
  ASSUME ActionsInv, ParseBody
  PROVE  ActionsInv'
<1>1. /\ UNCHANGED <<script, cut, findings, pc, text>> /\ pc = "parse" /\ InputInv
      /\ ParseStage(place, current_hunk, hunks)
  BY ParseStages DEF ParseBody, ActionsInv
<1> SUFFICES ParseStage(place', current_hunk', hunks')
  BY <1>1, ParseStages, ParseFrame
<1>2. /\ raw_line = unified_diff[place + 1] /\ raw_line.sign # "@" /\ place < Len(unified_diff)
      /\ place' = place + 1 /\ hunks' = hunks
      /\ current_hunk' = IF current_hunk # NoHunk /\ raw_line.sign \in {"+", " "}
                         THEN [current_hunk EXCEPT !.new_lines = Append(@, raw_line.text)]
                         ELSE current_hunk
  BY DEF ParseBody, raw_line
<1>3. /\ Len(cut) \in Nat /\ Len(cut) >= 1 /\ DOMAIN cut = 1 .. Len(cut)
      /\ \A k \in DOMAIN cut : Interval(cut[k])
  BY <1>1, CutType
<1>4. \A k \in DOMAIN cut : /\ DiffStart(k) \in Nat /\ Size(cut[k]) \in Nat
                            /\ DiffStart(k + 1) = DiffStart(k) + 1 + Size(cut[k])
  BY <1>1, <1>3, DiffStarts, HunkNumbers
\* A header is not read as a body line.
<1>5. ASSUME NEW k \in DOMAIN cut, place = DiffStart(k) PROVE FALSE
  <2>1. 1 \in 1 .. Size(cut[k]) + 1
    BY <1>4
  <2>2. unified_diff[DiffStart(k) + 1] = HunkLines(script, cut[k])[1]
    BY <1>1, <2>1, DiffAtHunk
  <2>3. raw_line = HunkLines(script, cut[k])[1]
    BY <1>2, <1>5, <2>2, Zenon
  <2>4. raw_line.sign = "@"
    BY <1>1, <1>3, <2>3, HeaderStarts
  <2> QED BY <1>2, <2>4
<1>6. CASE place \in 0 .. 2 /\ current_hunk = NoHunk /\ hunks = <<>>
  <2>1. place # 2
    BY <1>1, <1>3, <1>5, DiffStarts
  <2>2. place' \in 0 .. 2
    BY <1>2, <1>6, <2>1
  <2> QED BY <1>2, <1>6, <2>2 DEF ParseStage
<1>7. ASSUME NEW k \in DOMAIN cut, NEW j \in 0 .. Size(cut[k]),
             place = DiffStart(k) + 1 + j, hunks = FirstHunks(k - 1),
             current_hunk = ParsedHunk(cut[k], j)
      PROVE  ParseStage(place', current_hunk', hunks')
  <2>0. current_hunk # NoHunk
    BY <1>7, ParsedIsHunk
  <2>1. CASE j # Size(cut[k])
    <3>1. /\ j \in 0 .. Size(cut[k]) - 1 /\ 1 + (j + 1) \in 1 .. Size(cut[k]) + 1
          /\ place + 1 = DiffStart(k) + (1 + (j + 1)) /\ place + 1 = DiffStart(k) + 1 + (j + 1)
          /\ j + 1 \in 0 .. Size(cut[k])
      BY <1>4, <1>7, <2>1
    <3>2. unified_diff[DiffStart(k) + (1 + (j + 1))] = HunkLines(script, cut[k])[1 + (j + 1)]
      BY <1>1, <3>1, DiffAtHunk
    <3>3. raw_line = HunkLines(script, cut[k])[1 + (j + 1)]
      BY <1>2, <3>1, <3>2, Zenon
    <3>4. (IF raw_line.sign \in {"+", " "}
           THEN [ParsedHunk(cut[k], j) EXCEPT !.new_lines = Append(@, raw_line.text)]
           ELSE ParsedHunk(cut[k], j)) = ParsedHunk(cut[k], j + 1)
      BY <1>1, <1>3, <3>1, <3>3, BodyAdds
    <3>5. current_hunk' = ParsedHunk(cut[k], j + 1)
      BY <1>2, <1>7, <2>0, <3>4, Zenon
    <3>6. place' = DiffStart(k) + 1 + (j + 1) /\ hunks' = FirstHunks(k - 1)
      BY <1>2, <1>7, <3>1, Zenon
    <3> QED BY <3>1, <3>5, <3>6, Zenon DEF ParseStage
  <2>2. CASE j = Size(cut[k])
    <3>1. place = DiffStart(k + 1)
      BY <1>4, <1>7, <2>2
    <3>2. k = Len(cut)
      <4> SUFFICES ASSUME k # Len(cut) PROVE FALSE
        OBVIOUS
      <4>1. k + 1 \in DOMAIN cut
        BY <1>3
      <4> QED BY <1>5, <3>1, <4>1
    <3> DEFINE n == Len(FlattenSeq(HunkPieces))
    <3>3. place = 2 + n
      BY <1>1, <3>1, <3>2, DiffStarts
    <3>4. n \in Nat /\ unified_diff[n + 3] = BodyLine("\\", <<>>) /\ Len(unified_diff) = n + 3
      BY <1>1, DiffParts
    <3> HIDE DEF n
    <3>5. raw_line = BodyLine("\\", <<>>) /\ place' = Len(unified_diff)
      <4>1. place + 1 = n + 3
        BY <3>3, <3>4
      <4> QED BY <1>2, <3>4, <4>1, Zenon
    <3>6. current_hunk' = current_hunk
      BY <1>2, <3>5 DEF BodyLine
    <3> QED BY <1>2, <1>7, <2>2, <3>2, <3>5, <3>6, Zenon DEF ParseStage
  <2> QED BY <2>1, <2>2
<1>8. CASE place = Len(unified_diff)
  <2>1. Len(unified_diff) \in Nat
    BY <1>1, DiffParts
  <2>2. ~(place < Len(unified_diff))
    BY <1>8, <2>1
  <2> QED BY <1>2, <2>2, Zenon
<1>9. CASE \E k \in DOMAIN cut : \E j \in 0 .. Size(cut[k]) :
             /\ place = DiffStart(k) + 1 + j /\ hunks = FirstHunks(k - 1)
             /\ current_hunk = ParsedHunk(cut[k], j)
  BY <1>7, <1>9, Zenon
<1> QED BY <1>1, <1>6, <1>8, <1>9, Zenon DEF ParseStage

\* ParseEnd: the last hunk is complete, and there is no other.
LEMMA ParseEndInv ==
  ASSUME ActionsInv, ParseEnd
  PROVE  ActionsInv'
<1>1. /\ UNCHANGED <<script, cut, findings, text>> /\ pc = "parse" /\ InputInv
      /\ ParseStage(place, current_hunk, hunks) /\ place = Len(unified_diff)
      /\ hunks' = EndHunk /\ pc' = "publish"
  BY ParseStages DEF ParseEnd, ActionsInv
<1>2. /\ Len(cut) \in Nat /\ Len(cut) >= 1 /\ DOMAIN cut = 1 .. Len(cut)
      /\ \A k \in DOMAIN cut : Interval(cut[k])
  BY <1>1, CutType
<1>3. /\ hunks = FirstHunks(Len(cut) - 1)
      /\ current_hunk = ParsedHunk(cut[Len(cut)], Size(cut[Len(cut)]))
  <2> DEFINE n == Len(FlattenSeq(HunkPieces))
  <2>1. n \in Nat /\ Len(unified_diff) = n + 3
    BY <1>1, DiffParts
  <2>2. ~(place \in 0 .. 2)
    <3> HIDE DEF n
    <3> QED BY <1>1, <2>1
  <2>3. ASSUME NEW k \in DOMAIN cut, NEW j \in 0 .. Size(cut[k])
        PROVE  place # DiffStart(k) + 1 + j
    <3>1. Size(cut[k]) \in Nat /\ DiffStart(k) \in Nat
      BY <1>1, <1>2, DiffStarts, HunkNumbers
    <3>2. 1 + j \in 1 .. Size(cut[k]) + 1 /\ DiffStart(k) + 1 + j = DiffStart(k) + (1 + j)
      BY <3>1
    <3>3. DiffStart(k) + (1 + j) < Len(unified_diff)
      BY <1>1, <3>2, DiffAtHunk
    <3> HIDE DEF n
    <3> QED BY <1>1, <2>1, <3>1, <3>2, <3>3
  <2> QED BY <1>1, <2>2, <2>3, Zenon DEF ParseStage
<1>4. hunks' = FirstHunks(Len(cut))
  <2>1. Len(cut) - 1 \in Nat /\ (Len(cut) - 1) + 1 = Len(cut)
    BY <1>2
  <2>2. FirstHunks(Len(cut)) =
          Append(FirstHunks(Len(cut) - 1), ParsedHunk(cut[Len(cut)], Size(cut[Len(cut)])))
    BY <2>1, FirstHunksNext
  <2>3. current_hunk # NoHunk
    BY <1>3, ParsedIsHunk
  <2> QED BY <1>1, <1>3, <2>2, <2>3, Zenon DEF EndHunk
<1>5. HunksInv'
  <2>1. FirstHunks(Len(cut))' = FirstHunks(Len(cut))
    BY <1>1, SameDiff
  <2> QED BY <1>1, <1>4, <2>1, Zenon DEF HunksInv
<1>6. InputInv' /\ ParseInv' /\ PublishedInv' /\ AnsweredInv'
  BY <1>1 DEF InputInv, ParseInv, PublishedInv, AnsweredInv
<1>7. TextInv'
  BY <1>1 DEF ActionsInv, TextInv
<1> QED BY <1>5, <1>6, <1>7 DEF ActionsInv

\* PublishQuickFix: the actions of the finding, then the patch.
LEMMA PublishInv ==
  ASSUME ActionsInv, PublishQuickFix
  PROVE  ActionsInv'
<1>1. /\ UNCHANGED <<script, cut, findings, hunks, text>>
      /\ pc = "publish" /\ pc' = "published" /\ InputInv
  BY DEF PublishQuickFix, ActionsInv
<1> DEFINE x == [kind |-> "quickfix", line_number |-> FindingLine]
           y == [kind |-> "quickfix.suppress", line_number |-> FindingLine]
           z == [kind |-> "quickfix.patch", edits |-> hunks]
<1>2. PICK f \in Findings : findings = <<f>>
  BY <1>1 DEF InputInv
<1>3. FindingActions(f) \in Seq(Published)
  <2>1. f.fix \in BOOLEAN /\ f.code \in BOOLEAN /\ findings[1] = f
    BY <1>2 DEF Findings
  <2>2. FindingActions(f) = (IF f.fix THEN <<x>> ELSE <<>>) \o (IF f.code THEN <<y>> ELSE <<>>)
    BY <2>1 DEF FindingActions, FindingLine
  <2>3. x \in Published /\ y \in Published
    BY DEF Published
  <2> HIDE DEF x, y
  <2> QED BY <2>2, <2>3
<1>4. FlattenSeq([k \in DOMAIN findings |-> FindingActions(findings[k])]) = FindingActions(f)
  <2>1. DOMAIN findings = 1 .. 1 /\ \A k \in 1 .. 1 : findings[k] = f
    BY <1>2
  <2> DEFINE a == FindingActions(f)
  <2>2. [k \in DOMAIN findings |-> FindingActions(findings[k])] = [k \in 1 .. 1 |-> a]
    BY <2>1
  <2> HIDE DEF a
  <2>3. [k \in 1 .. 1 |-> a] = <<a>>
    OBVIOUS
  <2>4. FlattenSeq(<<a>>) = a
    BY <1>3, FlattenOne DEF a
  <2> QED BY <2>2, <2>3, <2>4, Zenon DEF a
<1>5. code_actions' = FindingActions(f) \o <<z>> /\ z \in Published
  BY <1>4 DEF PublishQuickFix, Published
<1>6. code_actions' \in Seq(Published)
  <2> HIDE DEF z
  <2> QED BY <1>3, <1>5
<1>7. Published' = Published
  BY <1>1 DEF Published, FindingLine
<1>8. PublishedInv'
  BY <1>6, <1>7, Zenon DEF PublishedInv
<1>9. HunksInv'
  <2>1. FirstHunks(Len(cut))' = FirstHunks(Len(cut))
    BY <1>1, SameDiff
  <2> QED BY <1>1, <2>1 DEF ActionsInv, HunksInv
<1>10. InputInv' /\ ParseInv' /\ AnsweredInv'
  BY <1>1 DEF InputInv, ParseInv, AnsweredInv
<1>11. TextInv'
  BY <1>1 DEF ActionsInv, TextInv
<1> QED BY <1>8, <1>9, <1>10, <1>11 DEF ActionsInv

\* CodeAction: each item of the answer is made of an action that is offered.
LEMMA CodeActionInv ==
  ASSUME ActionsInv, NEW range, CodeAction(range)
  PROVE  ActionsInv'
<1>1. /\ UNCHANGED <<script, cut, findings, hunks, code_actions, text>>
      /\ pc = "published" /\ pc' = "answered" /\ asked' = range /\ InputInv
      /\ code_actions \in Seq(Published)
  BY DEF CodeAction, ActionsInv, PublishedInv
<1> DEFINE I(ca) == IF Offered(ca, range) THEN <<ActionItem(ca)>> ELSE <<>>
           X == {ActionItem(ca) : ca \in Published}
           s == [k \in DOMAIN code_actions |-> I(code_actions[k])]
<1>2. /\ actions' = FlattenSeq(s)
  BY DEF CodeAction
<1>3. \A ca \in Published : I(ca) \in Seq(X)
  <2> SUFFICES ASSUME NEW ca \in Published PROVE I(ca) \in Seq(X)
    OBVIOUS
  <2>1. ActionItem(ca) \in X
    OBVIOUS
  <2> HIDE DEF X
  <2> QED BY <2>1
<1>4. s \in Seq(Seq(X)) /\ Len(s) = Len(code_actions)
      /\ \A k \in 1 .. Len(s) : s[k] = I(code_actions[k]) /\ code_actions[k] \in Published
  <2> HIDE DEF X, I
  <2> QED BY <1>1, <1>3
<1> HIDE DEF X, s
<1>5. FlattenSeq(s) \in Seq(X)
  BY <1>4, FlattenType
<1>6. ASSUME NEW k \in DOMAIN actions'
      PROVE  \E ca \in Published : Offered(ca, range) /\ actions'[k] = ActionItem(ca)
  <2> DEFINE w == FlattenSeq(s)
  <2>1. k \in 1 .. Len(w)
    <3>1. w \in Seq(X) /\ k \in DOMAIN w
      BY <1>2, <1>5, <1>6, Zenon
    <3> HIDE DEF w
    <3> QED BY <3>1
  <2>2. PICK n \in 1 .. Len(s) : \E j \in 1 .. Len(s[n]) : w[k] = s[n][j]
    BY <1>4, <2>1, FlattenFrom
  <2>3. PICK j \in 1 .. Len(s[n]) : w[k] = s[n][j]
    BY <2>2
  <2> DEFINE ca == code_actions[n]
  <2>4. s[n] = I(ca) /\ ca \in Published
    BY <1>4
  <2> HIDE DEF w, ca
  <2>5. Offered(ca, range)
    <3> SUFFICES ASSUME ~Offered(ca, range) PROVE FALSE
      OBVIOUS
    <3>1. s[n] = <<>>
      BY <2>4, Zenon
    <3>2. 1 .. Len(<<>>) = {}
      OBVIOUS
    <3> QED BY <3>1, <3>2, Zenon
  <2>6. w[k] = ActionItem(ca)
    <3> DEFINE item == ActionItem(ca)
    <3>1. s[n] = <<item>>
      BY <2>4, <2>5, Zenon
    <3> HIDE DEF item
    <3>2. Len(<<item>>) = 1 /\ \A i \in 1 .. 1 : <<item>>[i] = item
      OBVIOUS
    <3>3. j \in 1 .. 1 /\ w[k] = <<item>>[j]
      BY <2>3, <3>1, <3>2, Zenon
    <3> QED BY <3>2, <3>3, Zenon DEF item
  <2> QED BY <1>2, <2>4, <2>5, <2>6, Zenon DEF w
<1>7. Published' = Published
  BY <1>1 DEF Published, FindingLine
<1>8. PublishedInv'
  BY <1>1, <1>7, Zenon DEF PublishedInv
<1>9. AnsweredInv'
  <2>1. \A k \in DOMAIN actions' :
           \E ca \in Published' : Offered(ca, asked') /\ actions'[k] = ActionItem(ca)
    BY <1>1, <1>6, <1>7, Zenon
  <2> QED BY <2>1 DEF AnsweredInv, Offered, ActionItem, ActionLine, PatchEdits, LineEdit,
             Replace, AppendTo, JoinLines
<1>10. HunksInv'
  <2>1. FirstHunks(Len(cut))' = FirstHunks(Len(cut))
    BY <1>1, SameDiff
  <2> QED BY <1>1, <2>1 DEF ActionsInv, HunksInv
<1>11. InputInv' /\ ParseInv' /\ TextInv'
  BY <1>1 DEF ActionsInv, InputInv, ParseInv, TextInv
<1> QED BY <1>8, <1>9, <1>10, <1>11 DEF ActionsInv

\* ApplyAction: the text is what the edits of the item make of the old text.
LEMMA ApplyInv ==
  ASSUME ActionsInv, NEW n \in DOMAIN actions, ApplyAction(n)
  PROVE  ActionsInv'
<1>1. /\ UNCHANGED <<script, cut, findings, hunks, code_actions, asked, actions>>
      /\ pc = "answered" /\ pc' = "applied"
      /\ applied' = <<actions[n]>> /\ text' = Edited(text, actions[n].edit)
      /\ text = OldText(script)
  BY DEF ApplyAction, ActionsInv, TextInv
<1>2. TextInv'
  BY <1>1 DEF TextInv
<1>3. HunksInv'
  <2>1. FirstHunks(Len(cut))' = FirstHunks(Len(cut))
    BY <1>1, SameDiff
  <2> QED BY <1>1, <2>1 DEF ActionsInv, HunksInv
<1>4. InputInv' /\ ParseInv'
  BY <1>1 DEF ActionsInv, InputInv, ParseInv
<1>5. PublishedInv' /\ AnsweredInv'
  BY <1>1 DEF ActionsInv, PublishedInv, AnsweredInv, Published, FindingLine
<1> QED BY <1>2, <1>3, <1>4, <1>5 DEF ActionsInv

\* The first state.
LEMMA ActionsInit == Init => ActionsInv
<1> SUFFICES ASSUME Init PROVE ActionsInv
  OBVIOUS
<1>1. InputInv
  BY DEF Init, InputInv
<1>2. ParseInv
  BY DEF Init, ParseInv
<1> QED BY <1>1, <1>2 DEF Init, ActionsInv, HunksInv, PublishedInv, AnsweredInv, TextInv

\* A step that changes nothing.
LEMMA ActionsStutter ==
  ASSUME ActionsInv, UNCHANGED vars
  PROVE  ActionsInv'
<1>1. /\ UNCHANGED <<script, cut, findings, pc, place, current_hunk, hunks>>
      /\ UNCHANGED <<code_actions, asked, actions, applied, text>>
  BY DEF vars
<1>2. ParseInv'
  BY <1>1, ParseStages DEF ActionsInv
<1>3. HunksInv'
  <2>1. FirstHunks(Len(cut))' = FirstHunks(Len(cut))
    BY <1>1, SameDiff
  <2> QED BY <1>1, <2>1 DEF ActionsInv, HunksInv
<1>4. InputInv' /\ TextInv'
  BY <1>1 DEF ActionsInv, InputInv, TextInv
<1>5. PublishedInv' /\ AnsweredInv'
  BY <1>1 DEF ActionsInv, PublishedInv, AnsweredInv, Published, FindingLine
<1> QED BY <1>2, <1>3, <1>4, <1>5 DEF ActionsInv

\* Every step.
LEMMA ActionsNext == ActionsInv /\ [Next]_vars => ActionsInv'
BY ParseHeaderInv, ParseBodyInv, ParseEndInv, PublishInv, CodeActionInv, ApplyInv,
   ActionsStutter DEF Next

\* The parser finds the hunks the diff was made of, and what is published,
\* answered and applied comes from them and from the finding.
THEOREM ActionsHold == Spec => []ActionsInv
BY ActionsInit, ActionsNext, PTL DEF Spec

\* A quick fix or a suppression changes one line, that of its finding, and is
\* offered only to a developer who asks about that line.
THEOREM FixReachesItsLine == Spec => []FixTouchesItsLine
BY ActionsHold, FixImplied, PTL

-----------------------------------------------------------------------------
(* The patch.                                                              *)

\* The old and the new text up to a line of the script.
Old(q) == Lines(script, 1, q, OldSigns)
New(q) == Lines(script, 1, q, NewSigns)

\* They are sequences of lines and grow with the script.
LEMMA TextGrows ==
  ASSUME InputInv, NEW a \in 0 .. Len(script), NEW b \in 0 .. Len(script), a <= b
  PROVE  /\ Old(a) \in Seq(Seq(Int)) /\ New(a) \in Seq(Seq(Int))
         /\ Len(Old(a)) \in Nat /\ Len(Old(b)) \in Nat /\ Len(Old(a)) <= Len(Old(b))
         /\ Len(Old(b)) = Len(Old(a)) + Len(Lines(script, a + 1, b, OldSigns))
<1>1. Len(script) \in Nat
  BY ScriptType DEF InputInv
<1>2. 1 \in Int /\ a \in Int /\ b \in Int /\ 1 <= a + 1
  BY <1>1
<1>3. Old(a) \in Seq(Seq(Int)) /\ New(a) \in Seq(Seq(Int))
  BY <1>2, LinesPieces DEF Old, New
<1>4. /\ Len(Old(a)) \in Nat /\ Len(Lines(script, a + 1, b, OldSigns)) \in Nat
      /\ Len(Old(b)) = Len(Old(a)) + Len(Lines(script, a + 1, b, OldSigns))
  BY <1>2, LinesLen DEF Old
<1> QED BY <1>3, <1>4

\* One line of the script more: the old text,
LEMMA OldNext ==
  ASSUME InputInv, NEW q \in 0 .. Len(script) - 1
  PROVE  /\ script[q + 1] \in OldSigns =>
              Joins(Old(q), <<<<q + 1>>>>, Old(q + 1)) /\ Len(Old(q + 1)) = Len(Old(q)) + 1
         /\ script[q + 1] \notin OldSigns => Old(q + 1) = Old(q)
         /\ Len(Old(q)) \in Nat
<1>1. Len(script) \in Nat
  BY ScriptType DEF InputInv
<1>2. /\ 1 \in Int /\ q \in Int /\ q + 1 \in Int /\ 1 <= q + 1 /\ q \in 0 .. Len(script)
      /\ q <= q
  BY <1>1
<1> DEFINE d == q + 1
           v == <<<<d>>>>
<1>3. Joins(Old(q), LineAt(script, d, OldSigns), Old(d)) /\ Old(q) \in Seq(Seq(Int))
  BY <1>2, LinesNext, TextGrows DEF Old
<1>4. v \in Seq(Seq(Int)) /\ d \in Int
  BY <1>2
<1>5. Len(v) = 1
  OBVIOUS
<1> HIDE DEF d, v
<1>6. Len(Old(q)) \in Nat
  BY <1>3
<1>7. CASE script[d] \in OldSigns
  <2>1. LineAt(script, d, OldSigns) = v
    BY <1>4, <1>7, LineAtType DEF v
  <2>2. Joins(Old(q), v, Old(d))
    BY <1>3, <2>1, Zenon
  <2>3. Len(Old(d)) = Len(Old(q)) + Len(v)
    BY <1>3, <1>4, <2>2, JoinLen
  <2> QED BY <1>5, <1>6, <1>7, <2>2, <2>3 DEF d, v
<1>8. CASE script[d] \notin OldSigns
  <2>1. LineAt(script, d, OldSigns) = <<>>
    BY <1>4, <1>8, LineAtType
  <2>2. Joins(Old(q), <<>>, Old(d)) /\ Joins(Old(q), <<>>, Old(q))
    BY <1>3, <2>1, JoinNone
  <2>3. Old(d) = Old(q)
    BY <2>2, Zenon DEF Joins
  <2> QED BY <1>6, <1>8, <2>3 DEF d
<1> QED BY <1>7, <1>8

\* and where the line stands in it.
LEMMA OldAt ==
  ASSUME InputInv, NEW q \in 0 .. Len(script) - 1, script[q + 1] \in OldSigns
  PROVE  /\ Len(Old(q)) + 1 \in 1 .. Len(OldText(script))
         /\ OldText(script)[Len(Old(q)) + 1] = <<q + 1>>
<1>1. Len(script) \in Nat
  BY ScriptType DEF InputInv
<1> DEFINE d == q + 1
           v == <<<<d>>>>
           a == Old(q)
           b == Old(d)
           w == Lines(script, d + 1, Len(script), OldSigns)
           t == OldText(script)
<1>2. /\ d \in Int /\ 1 \in Int /\ Len(script) \in Int /\ 1 <= d + 1 /\ d <= Len(script)
      /\ q \in 0 .. Len(script) /\ q <= q
  BY <1>1
<1>3. Joins(a, v, b) /\ Len(b) = Len(a) + 1 /\ Len(a) \in Nat
  BY OldNext
<1>4. Joins(b, w, t) /\ b \in Seq(Seq(Int)) /\ w \in Seq(Seq(Int))
  BY <1>2, LinesSplit DEF Old, OldText
<1>5. a \in Seq(Seq(Int)) /\ v \in Seq(Seq(Int))
  BY <1>2, TextGrows
<1>6. v[1] = <<d>> /\ 1 \in 1 .. Len(v)
  OBVIOUS
<1> HIDE DEF a, b, w, t, v, d
<1>7. (a \o v)[Len(a) + 1] = v[1]
  <2>1. \A i \in 1 .. Len(v) : (a \o v)[Len(a) + i] = v[i]
    BY <1>5, ConcatAt
  <2> QED BY <1>6, <2>1, Zenon
<1>8. /\ \A i \in 1 .. Len(b) : (b \o w)[i] = b[i]
      /\ Len(t) = Len(b) + Len(w) /\ Len(w) \in Nat
  BY <1>4, ConcatAt, JoinLen
<1>9. Len(a) + 1 \in 1 .. Len(b) /\ Len(a) + 1 \in 1 .. Len(t)
  BY <1>3, <1>8
<1>10. t[Len(a) + 1] = <<d>>
  BY <1>3, <1>4, <1>6, <1>7, <1>8, <1>9, Zenon DEF Joins
<1> QED BY <1>9, <1>10 DEF a, t, d

\* Line q of the script belongs to hunk k.
InHunk(k, q) == q \in cut[k][1] .. cut[k][2]

\* Hunks come in order, with a line between them.
LEMMA HunksApart ==
  ASSUME InputInv, NEW k \in DOMAIN cut, NEW i \in DOMAIN cut, k < i
  PROVE  cut[k][2] + 1 < cut[i][1]
<1>1. /\ Len(cut) \in Nat /\ DOMAIN cut = 1 .. Len(cut)
      /\ \A n \in DOMAIN cut : Interval(cut[n])
      /\ \A n \in DOMAIN cut : n > 1 => cut[n - 1][2] + 1 < cut[n][1]
  BY CutType
<1>2. \A n \in DOMAIN cut : cut[n][1] \in Int /\ cut[n][2] \in Int /\ cut[n][1] <= cut[n][2]
  BY <1>1 DEF Interval
<1> DEFINE P(n) == k + 1 + n \in DOMAIN cut => cut[k][2] + 1 < cut[k + 1 + n][1]
           S == {n \in Nat : P(n)}
<1>3. P(0)
  <2>1. k + 1 + 0 = k + 1 /\ (k + 1) - 1 = k /\ k + 1 > 1
    BY <1>1
  <2> QED BY <1>1, <2>1
<1>4. ASSUME NEW n \in Nat, P(n) PROVE P(n + 1)
  <2> SUFFICES ASSUME k + 1 + (n + 1) \in DOMAIN cut
               PROVE  cut[k][2] + 1 < cut[k + 1 + (n + 1)][1]
    OBVIOUS
  <2> DEFINE x == k + 1 + n
             y == k + 1 + (n + 1)
  <2>1. x \in DOMAIN cut /\ y \in DOMAIN cut /\ y > 1 /\ y - 1 = x
    BY <1>1
  <2>2. cut[k][2] + 1 < cut[x][1]
    BY <1>4, <2>1
  <2>3. cut[x][2] + 1 < cut[y][1]
    <3> HIDE DEF x, y
    <3> QED BY <1>1, <2>1
  <2> HIDE DEF x, y
  <2>4. cut[k][2] + 1 < cut[y][1]
    BY <1>2, <2>1, <2>2, <2>3
  <2> QED BY <2>4 DEF y
<1> HIDE DEF P
<1>5. Nat \subseteq S
  <2>1. 0 \in S /\ \A n \in Nat : n \in S => n + 1 \in S
    BY <1>3, <1>4
  <2> HIDE DEF S
  <2> QED BY <2>1, NatSet
<1>6. i - k - 1 \in Nat /\ k + 1 + (i - k - 1) = i
  BY <1>1
<1>7. P(i - k - 1)
  BY <1>5, <1>6
<1> QED BY <1>6, <1>7, Zenon DEF P

\* So a line, and the line after it, belong to one hunk at most.
LEMMA OneHunk ==
  ASSUME InputInv, NEW k \in DOMAIN cut, NEW i \in DOMAIN cut, NEW q \in Int,
         InHunk(k, q)
  PROVE  /\ InHunk(i, q) => i = k
         /\ InHunk(i, q + 1) => i = k
         /\ InHunk(i, q - 1) => i = k
<1>1. /\ k \in Int /\ i \in Int /\ cut[k][1] \in Int /\ cut[k][2] \in Int
      /\ cut[i][1] \in Int /\ cut[i][2] \in Int
  <2>1. DOMAIN cut = 1 .. Len(cut) /\ Interval(cut[k]) /\ Interval(cut[i])
    BY CutType
  <2> QED BY <2>1 DEF Interval
<1>2. k < i => cut[k][2] + 1 < cut[i][1]
  BY HunksApart
<1>3. i < k => cut[i][2] + 1 < cut[k][1]
  BY HunksApart
<1>4. cut[k][1] <= q /\ q <= cut[k][2]
  BY <1>1 DEF InHunk
<1>5. \A p \in {q, q + 1, q - 1} : InHunk(i, p) => cut[i][1] <= p /\ p <= cut[i][2]
  BY <1>1 DEF InHunk
<1> QED BY <1>1, <1>2, <1>3, <1>4, <1>5

\* Where the old lines of a hunk are.
LEMMA HunkOld ==
  ASSUME InputInv, NEW k \in DOMAIN cut
  PROVE  LET h == cut[k]
         IN  /\ h[1] - 1 \in 0 .. Len(script) /\ h[2] \in 0 .. Len(script)
             /\ h[1] \in Int /\ h[2] \in Int /\ h[1] <= h[2]
             /\ Before(script, h) = Len(Old(h[1] - 1)) /\ Before(script, h) \in Nat
             /\ Before(script, h) + OldLen(script, h) = Len(Old(h[2]))
             /\ OldLen(script, h) \in Nat
<1> DEFINE h == cut[k]
           a == h[1] - 1
           b == h[2]
<1>1. Interval(h) /\ Len(script) \in Nat
  BY CutType, ScriptType DEF InputInv
<1>2. /\ a \in 0 .. Len(script) /\ b \in 0 .. Len(script) /\ a <= b /\ a + 1 = h[1]
      /\ h[1] \in Int /\ h[2] \in Int /\ h[1] <= h[2]
  BY <1>1 DEF Interval
<1>3. Before(script, h) \in Nat /\ OldLen(script, h) \in Nat
  BY <1>1, HunkNumbers
<1>4. Before(script, h) = Len(Old(a))
  BY Zenon DEF Before, Old
<1>5. OldLen(script, h) = Len(Lines(script, a + 1, b, OldSigns))
  BY <1>2, Zenon DEF OldLen
<1> HIDE DEF a, b
<1>6. Len(Old(b)) = Len(Old(a)) + Len(Lines(script, a + 1, b, OldSigns))
  BY <1>2, TextGrows
<1> QED BY <1>2, <1>3, <1>4, <1>5, <1>6 DEF a, b

\* An old line stands in the range of a hunk exactly when it belongs to it.
LEMMA RangeIsHunk ==
  ASSUME InputInv, NEW k \in DOMAIN cut, NEW q \in 0 .. Len(script) - 1,
         script[q + 1] \in OldSigns
  PROVE  (/\ Before(script, cut[k]) < Len(Old(q)) + 1
          /\ Len(Old(q)) + 1 <= Before(script, cut[k]) + OldLen(script, cut[k]))
         <=> InHunk(k, q + 1)
<1> DEFINE h == cut[k]
           a == h[1] - 1
           b == h[2]
           d == q + 1
<1>1. /\ a \in 0 .. Len(script) /\ b \in 0 .. Len(script)
      /\ h[1] \in Int /\ h[2] \in Int /\ h[1] <= h[2]
      /\ Before(script, h) = Len(Old(a)) /\ Before(script, h) + OldLen(script, h) = Len(Old(b))
  BY HunkOld
<1>2. Len(script) \in Nat
  BY ScriptType DEF InputInv
<1>3. q \in 0 .. Len(script) /\ d \in 0 .. Len(script) /\ q \in Int /\ d = q + 1 /\ q <= q
  BY <1>2
<1>4. Len(Old(d)) = Len(Old(q)) + 1 /\ Len(Old(q)) \in Nat
  BY OldNext
<1>5. InHunk(k, d) <=> a < d /\ d <= b
  <2>1. InHunk(k, d) <=> h[1] <= d /\ d <= h[2]
    BY <1>1, <1>3 DEF InHunk
  <2> QED BY <1>1, <1>3, <2>1
<1>6. Len(Old(a)) \in Nat /\ Len(Old(b)) \in Nat
  BY <1>1, <1>2, TextGrows
<1>7. a \in Int /\ b \in Int
  BY <1>1
<1> HIDE DEF a, b, d
<1>8. a <= q => Len(Old(a)) <= Len(Old(q))
  BY <1>1, <1>3, TextGrows
<1>9. d <= a => Len(Old(d)) <= Len(Old(a))
  BY <1>1, <1>3, TextGrows
<1>10. d <= b => Len(Old(d)) <= Len(Old(b))
  BY <1>1, <1>3, TextGrows
<1>11. b <= q => Len(Old(b)) <= Len(Old(q))
  BY <1>1, <1>3, TextGrows
<1>12. (Len(Old(a)) < Len(Old(q)) + 1 /\ Len(Old(q)) + 1 <= Len(Old(b))) <=> a < d /\ d <= b
  BY <1>3, <1>4, <1>6, <1>7, <1>8, <1>9, <1>10, <1>11
<1> QED BY <1>1, <1>5, <1>12, Zenon DEF d

\* The edits of the patch, as the server makes them of the parsed hunks.
Patch == PatchEdits([kind |-> "quickfix.patch", edits |-> FirstHunks(Len(cut))])
NewLines(k) == Lines(script, cut[k][1], cut[k][2], NewSigns)
AllOrdinary == \A k \in DOMAIN cut : Ordinary(cut[k])

\* Each edit replaces the old lines of its hunk by the new ones.
LEMMA PatchIs ==
  ASSUME InputInv, AllOrdinary
  PROVE  /\ DOMAIN Patch = DOMAIN cut
         /\ \A k \in DOMAIN cut :
               /\ Patch[k] = Replace(Before(script, cut[k]),
                                     Before(script, cut[k]) + OldLen(script, cut[k]), NewLines(k))
               /\ NewLines(k) \in Seq(Seq(Int)) /\ OldLen(script, cut[k]) >= 1
<1>1. Len(cut) \in Nat /\ DOMAIN cut = 1 .. Len(cut)
  BY CutType
<1> DEFINE n == Len(cut)
           P(k) == ParsedHunk(cut[k], Size(cut[k]))
           F == FirstHunks(n)
           E(k) == Replace(F[k].start_line, F[k].end_line, JoinLines(F[k].new_lines))
<1>2. F = [k \in 1 .. n |-> P(k)]
  BY DEF FirstHunks
<1>3. DOMAIN F = 1 .. n /\ \A k \in 1 .. n : F[k] = P(k)
  <2> HIDE DEF P, F, n
  <2> QED BY <1>2
<1>4. Patch = [k \in DOMAIN F |-> E(k)]
  BY DEF Patch, PatchEdits
<1>5. DOMAIN Patch = 1 .. n /\ \A k \in 1 .. n : Patch[k] = E(k)
  <2> HIDE DEF E, F, n
  <2> QED BY <1>3, <1>4
<1>6. ASSUME NEW k \in DOMAIN cut
      PROVE  /\ Patch[k] = Replace(Before(script, cut[k]),
                                   Before(script, cut[k]) + OldLen(script, cut[k]), NewLines(k))
             /\ NewLines(k) \in Seq(Seq(Int)) /\ OldLen(script, cut[k]) >= 1
  <2> DEFINE h == cut[k]
             s == Before(script, h)
             m == OldLen(script, h)
             l == NewLines(k)
  <2>1. /\ h[1] \in Int /\ h[2] \in Int /\ h[1] <= h[2] /\ h[1] <= h[2] + 1
        /\ s \in Nat /\ m \in Nat
    BY HunkOld
  <2>2. PICK p \in h[1] .. h[2] : script[p] \in OldSigns
    BY DEF AllOrdinary, Ordinary
  <2>3. PICK r \in h[1] .. h[2] : script[r] \in NewSigns
    BY DEF AllOrdinary, Ordinary
  <2>4. m >= 1
    BY <2>1, <2>2, LinesSome DEF OldLen
  <2>5. l \in Seq(Seq(Int)) /\ Len(l) >= 1
    BY <2>1, <2>3, LinesSome, LinesPieces DEF NewLines
  <2>6. JoinLines(l) = l
    <3>1. l # <<>>
      <4> HIDE DEF l
      <4> QED BY <2>5
    <3> QED BY <3>1 DEF JoinLines
  <2>7. h[1] + Size(h) - 1 = h[2]
    BY <2>1 DEF Size
  <2>8. P(k).new_lines = l
    BY <2>7 DEF ParsedHunk, NewLines
  <2>9. HunkStart(script, h) - 1 = s /\ HunkStart(script, h) - 1 + m = s + m
    BY <2>1, <2>4 DEF HunkStart
  <2>10. P(k).start_line = s /\ P(k).end_line = s + m
    <3>1. P(k).start_line = HunkStart(script, h) - 1 /\ P(k).end_line = HunkStart(script, h) - 1 + m
      BY DEF ParsedHunk
    <3> HIDE DEF P
    <3> QED BY <2>9, <3>1, Zenon
  <2>11. Patch[k] = Replace(s, s + m, l)
    <3>1. Patch[k] = E(k) /\ F[k] = P(k)
      BY <1>1, <1>3, <1>5
    <3> HIDE DEF P, F, s, m, l
    <3> QED BY <2>6, <2>8, <2>10, <3>1, Zenon
  <2> QED BY <2>4, <2>5, <2>11
<1> QED BY <1>1, <1>5, <1>6

\* What comes where a line of the old text begins, of the edits of the patch.
LEMMA PatchAt ==
  ASSUME InputInv, AllOrdinary, NEW p \in Int
  PROVE  /\ EditsAt(Patch, p, "append") = <<>>
         /\ (\A k \in DOMAIN cut : Before(script, cut[k]) # p - 1)
               => EditsAt(Patch, p, "replace") = <<>>
         /\ \A k \in DOMAIN cut :
               (/\ Before(script, cut[k]) = p - 1
                /\ \A i \in DOMAIN cut : Before(script, cut[i]) = p - 1 => i = k)
               => EditsAt(Patch, p, "replace") = NewLines(k)
         /\ EditsAt(Patch, p, "replace") \in Seq(Seq(Int))
<1> DEFINE n == Len(cut)
           L(how, k) == IF how = "replace" /\ Before(script, cut[k]) = p - 1
                        THEN NewLines(k) ELSE <<>>
           f(how) == [k \in 1 .. n |-> L(how, k)]
<1>1. n \in Nat /\ DOMAIN cut = 1 .. n
  BY CutType
<1>2. \A k \in 1 .. n : /\ Patch[k].how = "replace" /\ Patch[k].start = Before(script, cut[k])
                        /\ Patch[k].lines = NewLines(k) /\ NewLines(k) \in Seq(Seq(Int))
  BY <1>1, PatchIs DEF Replace
<1>3. ASSUME NEW how PROVE EditsAt(Patch, p, how) = FlattenSeq(f(how))
  <2> DEFINE M(k) == IF Patch[k].how = how /\ Patch[k].start = p - 1 THEN Patch[k].lines ELSE <<>>
  <2>1. DOMAIN Patch = 1 .. n
    BY <1>1, PatchIs
  <2>2. EditsAt(Patch, p, how) = FlattenSeq([k \in DOMAIN Patch |-> M(k)])
    BY DEF EditsAt
  <2>3. \A k \in 1 .. n : M(k) = L(how, k)
    BY <1>2
  <2>4. [k \in DOMAIN Patch |-> M(k)] = f(how)
    <3> HIDE DEF M, L, n
    <3> QED BY <2>1, <2>3
  <2> QED BY <2>2, <2>4, Zenon
<1>4. \A how : \A k \in 1 .. n : L(how, k) \in Seq(Seq(Int))
  <2>1. <<>> \in Seq(Seq(Int))
    OBVIOUS
  <2> QED BY <1>2, <2>1, Zenon
<1>5. ASSUME NEW how
      PROVE  /\ f(how) \in Seq(Seq(Seq(Int))) /\ Len(f(how)) = n
             /\ \A k \in 1 .. n : f(how)[k] = L(how, k)
  <2> DEFINE T == Seq(Seq(Int))
  <2>1. \A k \in 1 .. n : L(how, k) \in T
    BY <1>4
  <2> HIDE DEF T, L, n
  <2>2. n \in Nat
    BY <1>1 DEF n
  <2>3. f(how) \in Seq(T) /\ Len(f(how)) = n /\ \A k \in 1 .. n : f(how)[k] = L(how, k)
    BY <2>1, <2>2
  <2> QED BY <2>3, Zenon DEF T
<1>6. EditsAt(Patch, p, "append") = <<>>
  <2> DEFINE g == f("append")
  <2>1. \A k \in 1 .. n : L("append", k) = <<>>
    OBVIOUS
  <2>2. g \in Seq(Seq(Seq(Int))) /\ \A k \in 1 .. Len(g) : g[k] = <<>>
    <3> HIDE DEF f, L, n
    <3> QED BY <1>5, <2>1
  <2> HIDE DEF g
  <2>3. FlattenSeq(g) = <<>>
    BY <2>2, FlattenNone
  <2> QED BY <1>3, <2>3, Zenon DEF g
<1> DEFINE r == f("replace")
<1>7. /\ r \in Seq(Seq(Seq(Int))) /\ Len(r) = n
      /\ \A k \in 1 .. n : r[k] = IF Before(script, cut[k]) = p - 1 THEN NewLines(k) ELSE <<>>
  <2>1. \A k \in 1 .. n : L("replace", k) = IF Before(script, cut[k]) = p - 1 THEN NewLines(k) ELSE <<>>
    OBVIOUS
  <2> HIDE DEF f, L, n
  <2> QED BY <1>5, <2>1, Zenon
<1>8. EditsAt(Patch, p, "replace") = FlattenSeq(r)
  BY <1>3
<1> HIDE DEF r, f, L
<1>9. ASSUME \A k \in DOMAIN cut : Before(script, cut[k]) # p - 1
      PROVE  FlattenSeq(r) = <<>>
  <2>1. \A k \in 1 .. Len(r) : r[k] = <<>>
    BY <1>1, <1>7, <1>9, Zenon
  <2> QED BY <1>7, <2>1, FlattenNone
<1>10. ASSUME NEW k \in DOMAIN cut, Before(script, cut[k]) = p - 1,
              \A i \in DOMAIN cut : Before(script, cut[i]) = p - 1 => i = k
       PROVE  FlattenSeq(r) = NewLines(k)
  <2>1. k \in 1 .. Len(r) /\ r[k] = NewLines(k)
    BY <1>1, <1>7, <1>10, Zenon
  <2>2. \A i \in 1 .. Len(r) : i # k => r[i] = <<>>
    BY <1>1, <1>7, <1>10, Zenon
  <2>3. FlattenSeq(r) = r[k]
    BY <1>7, <2>1, <2>2, FlattenOnly
  <2> QED BY <2>1, <2>3, Zenon
<1>11. FlattenSeq(r) \in Seq(Seq(Int))
  BY <1>7, FlattenType
<1> QED BY <1>6, <1>8, <1>9, <1>10, <1>11, Zenon

\* What a line of the old text becomes when the patch is applied.
PatchedLine(p) == EditedLine(OldText(script), Patch, p)

\* The lines of a range are gone.
LEMMA PatchGone ==
  ASSUME InputInv, AllOrdinary, NEW p
  PROVE  Gone(Patch, p) <=> \E k \in DOMAIN cut :
             /\ Before(script, cut[k]) < p
             /\ p <= Before(script, cut[k]) + OldLen(script, cut[k])
<1>1. /\ DOMAIN Patch = DOMAIN cut
      /\ \A k \in DOMAIN cut :
            /\ Patch[k].how = "replace" /\ Patch[k].start = Before(script, cut[k])
            /\ Patch[k].end = Before(script, cut[k]) + OldLen(script, cut[k])
  BY PatchIs DEF Replace
<1> QED BY <1>1, Zenon DEF Gone

\* A place is where a hunk begins only if it is in the range of the hunk.
LEMMA StartInRange ==
  ASSUME InputInv, AllOrdinary, NEW k \in DOMAIN cut, NEW p \in Int,
         Before(script, cut[k]) = p - 1
  PROVE  /\ Before(script, cut[k]) < p
         /\ p <= Before(script, cut[k]) + OldLen(script, cut[k])
<1>1. Before(script, cut[k]) \in Nat /\ OldLen(script, cut[k]) \in Nat
  BY HunkOld
<1>2. OldLen(script, cut[k]) >= 1
  BY PatchIs
<1> QED BY <1>1, <1>2

\* A line that no hunk has stays.
LEMMA LineOutside ==
  ASSUME InputInv, AllOrdinary, NEW q \in 0 .. Len(script) - 1,
         script[q + 1] \in OldSigns, \A k \in DOMAIN cut : ~InHunk(k, q + 1)
  PROVE  PatchedLine(Len(Old(q)) + 1) = <<<<q + 1>>>>
<1> DEFINE p == Len(Old(q)) + 1
           t == OldText(script)
<1>1. p \in 1 .. Len(t) /\ t[p] = <<q + 1>>
  BY OldAt
<1>2. Len(Old(q)) \in Nat /\ Len(t) \in Nat /\ q + 1 \in Int
  BY OldNext, ScriptType DEF InputInv
<1>3. p \in Int /\ ~(p > Len(t))
  BY <1>1, <1>2
<1>4. \A k \in DOMAIN cut : ~(/\ Before(script, cut[k]) < p
                              /\ p <= Before(script, cut[k]) + OldLen(script, cut[k]))
  BY RangeIsHunk
<1> HIDE DEF p
<1>5. ~Gone(Patch, p)
  BY <1>4, PatchGone
<1>6. \A k \in DOMAIN cut : Before(script, cut[k]) # p - 1
  BY <1>3, <1>4, StartInRange
<1>7. EditsAt(Patch, p, "replace") = <<>> /\ EditsAt(Patch, p, "append") = <<>>
  BY <1>3, <1>6, PatchAt
<1>8. PatchedLine(p) = <<>> \o <<<<q + 1>> \o <<>>>>
  BY <1>1, <1>3, <1>5, <1>7, FlattenEmpty, Zenon DEF PatchedLine, EditedLine
<1>9. <<>> \o <<<<q + 1>> \o <<>>>> = <<<<q + 1>>>>
  <2> DEFINE d == q + 1
  <2>1. d \in Int
    BY <1>2
  <2> HIDE DEF d
  <2>2. <<>> \o <<<<d>> \o <<>>>> = <<<<d>>>>
    BY <2>1
  <2> QED BY <2>2 DEF d
<1> QED BY <1>8, <1>9, Zenon DEF p

\* The first old line of a hunk becomes its new lines, the others are gone.
LEMMA LineInside ==
  ASSUME InputInv, AllOrdinary, NEW q \in 0 .. Len(script) - 1,
         script[q + 1] \in OldSigns, NEW k \in DOMAIN cut, InHunk(k, q + 1)
  PROVE  PatchedLine(Len(Old(q)) + 1) =
            IF Len(Old(q)) = Before(script, cut[k]) THEN NewLines(k) ELSE <<>>
<1> DEFINE p == Len(Old(q)) + 1
<1>1. Len(Old(q)) \in Nat /\ q + 1 \in Int
  BY OldNext
<1>2. p \in Int /\ p - 1 = Len(Old(q))
  BY <1>1
<1>3. \A i \in DOMAIN cut : (/\ Before(script, cut[i]) < p
                             /\ p <= Before(script, cut[i]) + OldLen(script, cut[i]))
                            <=> InHunk(i, q + 1)
  BY RangeIsHunk
<1> HIDE DEF p
<1>4. Gone(Patch, p)
  BY <1>3, PatchGone
<1>5. \A i \in DOMAIN cut : Before(script, cut[i]) = p - 1 => i = k
  BY <1>1, <1>2, <1>3, StartInRange, OneHunk
<1> DEFINE x == EditsAt(Patch, p, "replace")
<1>6. PatchedLine(p) = x \o <<>> /\ x \in Seq(Seq(Int))
  <2>1. x \in Seq(Seq(Int))
    BY <1>2, PatchAt
  <2> QED BY <1>4, <2>1, Zenon DEF PatchedLine, EditedLine
<1>7. x \o <<>> = x
  <2> HIDE DEF x
  <2> QED BY <1>6
<1>8. CASE Len(Old(q)) = Before(script, cut[k])
  <2>1. x = NewLines(k)
    BY <1>2, <1>5, <1>8, PatchAt
  <2> QED BY <1>6, <1>7, <1>8, <2>1, Zenon DEF p
<1>9. CASE Len(Old(q)) # Before(script, cut[k])
  <2>1. \A i \in DOMAIN cut : Before(script, cut[i]) # p - 1
    BY <1>2, <1>5, <1>9
  <2>2. x = <<>>
    BY <1>2, <2>1, PatchAt
  <2> QED BY <1>6, <1>7, <1>9, <2>2, Zenon DEF p
<1> QED BY <1>8, <1>9

\* Nothing comes at the end of the text.
LEMMA LineAfter ==
  ASSUME InputInv, AllOrdinary
  PROVE  PatchedLine(Len(OldText(script)) + 1) = <<>>
<1> DEFINE t == OldText(script)
           p == Len(t) + 1
<1>1. Len(t) \in Nat /\ Len(script) \in Nat /\ t = Old(Len(script))
  BY ScriptType DEF InputInv, OldText, Old
<1>2. p \in Int /\ p > Len(t) /\ p - 1 = Len(t)
  BY <1>1
<1>3. ASSUME NEW k \in DOMAIN cut PROVE Before(script, cut[k]) # p - 1
  <2> DEFINE b == cut[k][2]
             n == Len(script)
  <2>1. /\ b \in 0 .. n /\ n \in 0 .. n /\ b <= n
        /\ Before(script, cut[k]) + OldLen(script, cut[k]) = Len(Old(b))
        /\ Before(script, cut[k]) \in Nat
    BY <1>1, HunkOld
  <2>2. Len(Old(b)) <= Len(Old(n)) /\ Len(Old(b)) \in Nat
    <3> HIDE DEF b
    <3> QED BY <2>1, TextGrows
  <2>3. OldLen(script, cut[k]) >= 1 /\ OldLen(script, cut[k]) \in Nat
    BY PatchIs, HunkOld
  <2> HIDE DEF t
  <2> QED BY <1>1, <1>2, <2>1, <2>2, <2>3
<1>4. EditsAt(Patch, p, "replace") = <<>>
  BY <1>2, <1>3, PatchAt
<1>5. <<>> \o <<>> = <<>>
  OBVIOUS
<1> QED BY <1>2, <1>4, <1>5, Zenon DEF PatchedLine, EditedLine

\* What the lines of the old text up to a place become.
Patched(n) == FlattenSeq(SubSeq(EditedPieces(OldText(script), Patch), 1, n))

\* Every line becomes a sequence of lines.
LEMMA PatchedType ==
  ASSUME InputInv, AllOrdinary, NEW p \in 1 .. Len(OldText(script)) + 1
  PROVE  PatchedLine(p) \in Seq(Seq(Int))
<1> DEFINE t == OldText(script)
           x == EditsAt(Patch, p, "replace")
           y == IF p > Len(t) \/ Gone(Patch, p) THEN <<>> ELSE <<t[p] \o <<>>>>
<1>1. t \in Seq(Seq(Int)) /\ Len(t) \in Nat
  BY ScriptType DEF InputInv
<1>2. p \in Int /\ (p <= Len(t) => p \in 1 .. Len(t))
  BY <1>1
<1>3. x \in Seq(Seq(Int)) /\ EditsAt(Patch, p, "append") = <<>>
  BY <1>2, PatchAt
<1>4. PatchedLine(p) = x \o y
  BY <1>3, FlattenEmpty, Zenon DEF PatchedLine, EditedLine
<1> HIDE DEF t, x
<1>5. y \in Seq(Seq(Int))
  <2>1. CASE p > Len(t) \/ Gone(Patch, p)
    <3>1. y = <<>>
      BY <2>1
    <3> QED BY <3>1
  <2>2. CASE ~(p > Len(t) \/ Gone(Patch, p))
    <3>1. t[p] \in Seq(Int)
      BY <1>1, <1>2, <2>2
    <3>2. <<t[p] \o <<>>>> \in Seq(Seq(Int))
      BY <3>1
    <3> QED BY <2>2, <3>2, Zenon
  <2> QED BY <2>1, <2>2
<1> HIDE DEF y
<1>6. x \o y \in Seq(Seq(Int))
  BY <1>3, <1>5
<1> QED BY <1>4, <1>6, Zenon

\* One line of the old text more.
LEMMA PatchedNext ==
  ASSUME InputInv, AllOrdinary
  PROVE  /\ Patched(0) = <<>>
         /\ Patched(Len(OldText(script)) + 1) = Edited(OldText(script), Patch)
         /\ \A n \in 0 .. Len(OldText(script)) :
               /\ Patched(n) \in Seq(Seq(Int)) /\ PatchedLine(n + 1) \in Seq(Seq(Int))
               /\ Joins(Patched(n), PatchedLine(n + 1), Patched(n + 1))
<1> DEFINE t == OldText(script)
           f == EditedPieces(t, Patch)
<1>1. t \in Seq(Seq(Int)) /\ Len(t) \in Nat
  BY ScriptType DEF InputInv
<1>2. \A p \in 1 .. Len(t) + 1 : EditedLine(t, Patch, p) \in Seq(Seq(Int))
  BY PatchedType DEF PatchedLine
<1>3. /\ Edited(t, Patch) = FlattenSeq(f) /\ f \in Seq(Seq(Seq(Int))) /\ Len(f) = Len(t) + 1
      /\ \A p \in 1 .. Len(t) + 1 : f[p] = PatchedLine(p)
  <2> HIDE DEF t
  <2>1. /\ Edited(t, Patch) = FlattenSeq(f) /\ f \in Seq(Seq(Seq(Int))) /\ Len(f) = Len(t) + 1
        /\ \A p \in 1 .. Len(t) + 1 : f[p] = EditedLine(t, Patch, p)
    BY <1>1, <1>2, EditedType
  <2> QED BY <2>1, Zenon DEF PatchedLine, t
<1>4. \A n : Patched(n) = FlattenSeq(SubSeq(f, 1, n))
  BY DEF Patched
<1> HIDE DEF f, t
<1>5. SubSeq(f, 1, Len(f)) = f /\ SubSeq(f, 1, 0) = <<>>
  BY <1>3, PrefixFull
<1>6. Patched(0) = <<>> /\ Patched(Len(t) + 1) = Edited(t, Patch)
  BY <1>3, <1>4, <1>5, FlattenEmpty, Zenon
<1>7. ASSUME NEW n \in 0 .. Len(t)
      PROVE  /\ Patched(n) \in Seq(Seq(Int)) /\ PatchedLine(n + 1) \in Seq(Seq(Int))
             /\ Joins(Patched(n), PatchedLine(n + 1), Patched(n + 1))
  <2>1. n \in Nat /\ n < Len(f) /\ n + 1 \in 1 .. Len(t) + 1
    BY <1>1, <1>3
  <2>2. /\ FlattenSeq(SubSeq(f, 1, n + 1)) = FlattenSeq(SubSeq(f, 1, n)) \o f[n + 1]
        /\ FlattenSeq(SubSeq(f, 1, n)) \in Seq(Seq(Int))
        /\ f[n + 1] \in Seq(Seq(Int))
    BY <1>3, <2>1, FlattenPrefix
  <2>3. f[n + 1] = PatchedLine(n + 1)
    BY <1>3, <2>1, Zenon
  <2> QED BY <1>4, <2>2, <2>3, Zenon DEF Joins
<1> QED BY <1>6, <1>7 DEF t

\* One line of the script more: the new text.
LEMMA NewNext ==
  ASSUME InputInv, NEW q \in 0 .. Len(script) - 1, script[q + 1] \in NewSigns
  PROVE  Joins(New(q), <<<<q + 1>>>>, New(q + 1))
<1> DEFINE d == q + 1
<1>1. 1 \in Int /\ q \in Int /\ d \in Int /\ 1 <= d /\ d = q + 1
  BY ScriptType DEF InputInv
<1> HIDE DEF d
<1>2. Joins(New(q), LineAt(script, d, NewSigns), New(d))
  BY <1>1, LinesNext DEF New
<1>3. LineAt(script, d, NewSigns) = <<<<d>>>>
  BY <1>1, LineAtType DEF d
<1> QED BY <1>2, <1>3, Zenon DEF d

\* The new text at the end of a hunk is the one before it and its new lines.
LEMMA HunkNew ==
  ASSUME InputInv, NEW k \in DOMAIN cut
  PROVE  Joins(New(cut[k][1] - 1), NewLines(k), New(cut[k][2]))
<1> DEFINE a == cut[k][1] - 1
           b == cut[k][2]
<1>1. a \in Int /\ b \in Int /\ 1 \in Int /\ 1 <= a + 1 /\ a <= b /\ a + 1 = cut[k][1]
  BY HunkOld, ScriptType DEF InputInv
<1> HIDE DEF a, b
<1>2. Joins(Lines(script, 1, a, NewSigns), Lines(script, a + 1, b, NewSigns),
            Lines(script, 1, b, NewSigns))
  BY <1>1, LinesSplit
<1> QED BY <1>1, <1>2, Zenon DEF New, NewLines, a, b

\* Line q of the script: what the old lines up to it have become.  A hunk's new
\* lines come all at once, with its first old line.
Arrived(k, q) ==
    Patched(Len(Old(q))) = IF Len(Old(q)) = Before(script, cut[k])
                           THEN New(cut[k][1] - 1) ELSE New(cut[k][2])
Follows(q) ==
    /\ \A k \in DOMAIN cut : InHunk(k, q) => Arrived(k, q)
    /\ (\A k \in DOMAIN cut : ~InHunk(k, q)) => Patched(Len(Old(q))) = New(q)

\* The end of a hunk,
LEMMA ArrivedAtEnd ==
  ASSUME InputInv, AllOrdinary, NEW k \in DOMAIN cut, Arrived(k, cut[k][2])
  PROVE  Patched(Len(Old(cut[k][2]))) = New(cut[k][2])
<1>1. /\ Before(script, cut[k]) + OldLen(script, cut[k]) = Len(Old(cut[k][2]))
      /\ Before(script, cut[k]) \in Nat /\ OldLen(script, cut[k]) \in Nat
  BY HunkOld
<1>2. OldLen(script, cut[k]) >= 1
  BY PatchIs
<1>3. Len(Old(cut[k][2])) # Before(script, cut[k])
  BY <1>1, <1>2
<1> QED BY <1>3, Zenon DEF Arrived

\* a line outside of the hunks,
LEMMA FollowsOutside ==
  ASSUME InputInv, AllOrdinary, NEW q \in 0 .. Len(script) - 1, Follows(q),
         \A k \in DOMAIN cut : ~InHunk(k, q + 1)
  PROVE  Follows(q + 1)
<1> DEFINE d == q + 1
           n == Len(Old(q))
<1>1. Len(script) \in Nat /\ q \in Int /\ d \in 1 .. Len(script)
  BY ScriptType DEF InputInv
<1>2. script[d] = " "
  BY <1>1, CutType DEF InHunk
<1>3. script[d] \in OldSigns /\ script[d] \in NewSigns
  BY <1>2 DEF OldSigns, NewSigns
<1>4. Patched(n) = New(q)
  <2>1. CASE \A k \in DOMAIN cut : ~InHunk(k, q)
    BY <2>1 DEF Follows
  <2>2. CASE \E k \in DOMAIN cut : InHunk(k, q)
    <3>1. PICK k \in DOMAIN cut : InHunk(k, q)
      BY <2>2
    <3>2. cut[k][1] \in Int /\ cut[k][2] \in Int
      BY HunkOld
    <3>3. ~InHunk(k, d)
      OBVIOUS
    <3>4. q = cut[k][2]
      BY <1>1, <3>1, <3>2, <3>3 DEF InHunk
    <3>5. Arrived(k, q)
      BY <3>1 DEF Follows
    <3> QED BY <3>4, <3>5, ArrivedAtEnd, Zenon
  <2> QED BY <2>1, <2>2
<1>5. Len(Old(d)) = n + 1 /\ n \in Nat /\ n + 1 \in 1 .. Len(OldText(script))
  BY <1>3, OldNext, OldAt
<1>6. PatchedLine(n + 1) = <<<<d>>>>
  BY <1>3, LineOutside
<1>7. n \in 0 .. Len(OldText(script))
  <2> HIDE DEF n
  <2> QED BY <1>5
<1>8. Joins(Patched(n), PatchedLine(n + 1), Patched(n + 1))
  BY <1>7, PatchedNext
<1>9. Joins(New(q), <<<<d>>>>, New(d))
  BY <1>3, NewNext
<1> HIDE DEF n, d
<1>10. Patched(Len(Old(d))) = New(d)
  BY <1>4, <1>5, <1>6, <1>8, <1>9, Zenon DEF Joins
<1> QED BY <1>10, Zenon DEF Follows, d

\* and a line of a hunk.
LEMMA FollowsInside ==
  ASSUME InputInv, AllOrdinary, NEW q \in 0 .. Len(script) - 1, Follows(q),
         NEW k \in DOMAIN cut, InHunk(k, q + 1)
  PROVE  Follows(q + 1)
<1> DEFINE d == q + 1
           n == Len(Old(q))
           a == cut[k][1] - 1
           b == cut[k][2]
           s == Before(script, cut[k])
<1>1. Len(script) \in Nat /\ q \in Int /\ d \in Int /\ d - 1 = q /\ q \in 0 .. Len(script)
  BY ScriptType DEF InputInv
<1>2. /\ a \in 0 .. Len(script) /\ s = Len(Old(a)) /\ s \in Nat
      /\ cut[k][1] \in Int /\ cut[k][2] \in Int
  BY HunkOld
<1>3. a <= q /\ (~InHunk(k, q) => q = a)
  BY <1>1, <1>2 DEF InHunk
<1>4. n \in Nat /\ s <= n
  <2> HIDE DEF a
  <2> QED BY <1>1, <1>2, <1>3, TextGrows
<1>5. Arrived(k, q)
  <2>1. CASE InHunk(k, q)
    BY <2>1 DEF Follows
  <2>2. CASE ~InHunk(k, q)
    <3>1. \A i \in DOMAIN cut : InHunk(i, d - 1) => i = k
      <4> HIDE DEF d
      <4>1. InHunk(k, d)
        BY DEF d
      <4> QED BY <1>1, <4>1, OneHunk
    <3>2. \A i \in DOMAIN cut : ~InHunk(i, q)
      <4> HIDE DEF d
      <4> QED BY <1>1, <2>2, <3>1, Zenon
    <3>3. Patched(n) = New(q) /\ q = a
      BY <1>3, <2>2, <3>2 DEF Follows
    <3> QED BY <1>2, <3>3, Zenon DEF Arrived
  <2> QED BY <2>1, <2>2
<1>6. Arrived(k, d)
  <2>1. CASE script[d] \notin OldSigns
    <3>1. Old(d) = Old(q)
      BY <2>1, OldNext
    <3> QED BY <1>5, <3>1, Zenon DEF Arrived
  <2>2. CASE script[d] \in OldSigns
    <3>1. Len(Old(d)) = n + 1 /\ n + 1 \in 1 .. Len(OldText(script))
      BY <2>2, OldNext, OldAt
    <3>2. PatchedLine(n + 1) = IF n = s THEN NewLines(k) ELSE <<>>
      BY <2>2, LineInside
    <3>3. n \in 0 .. Len(OldText(script)) /\ n + 1 # s
      <4> HIDE DEF n, s
      <4> QED BY <1>2, <1>4, <3>1
    <3>4. Joins(Patched(n), PatchedLine(n + 1), Patched(n + 1)) /\ Patched(n) \in Seq(Seq(Int))
      BY <3>3, PatchedNext
    <3>5. Patched(n + 1) = New(b)
      <4>1. CASE n = s
        <5>1. Patched(n) = New(a) /\ PatchedLine(n + 1) = NewLines(k)
          BY <1>5, <3>2, <4>1, Zenon DEF Arrived
        <5>2. Joins(New(a), NewLines(k), New(b))
          BY HunkNew
        <5> QED BY <3>4, <5>1, <5>2, Zenon DEF Joins
      <4>2. CASE n # s
        <5>1. Patched(n) = New(b) /\ PatchedLine(n + 1) = <<>>
          BY <1>5, <3>2, <4>2, Zenon DEF Arrived
        <5>2. Joins(Patched(n), <<>>, Patched(n))
          BY <3>4, JoinNone
        <5> QED BY <3>4, <5>1, <5>2, Zenon DEF Joins
      <4> QED BY <4>1, <4>2
    <3> QED BY <3>1, <3>3, <3>5, Zenon DEF Arrived
  <2> QED BY <2>1, <2>2
<1>7. \A i \in DOMAIN cut : InHunk(i, d) => i = k
  <2>1. InHunk(k, d)
    OBVIOUS
  <2> HIDE DEF d
  <2> QED BY <1>1, <2>1, OneHunk
<1>8. InHunk(k, d)
  OBVIOUS
<1> HIDE DEF d
<1>9. Follows(d)
  BY <1>6, <1>7, <1>8, Zenon DEF Follows
<1> QED BY <1>9 DEF d

\* It holds up to the end of the script: the patch makes the new text.
LEMMA FollowsScript ==
  ASSUME InputInv, AllOrdinary
  PROVE  \A q \in 0 .. Len(script) : Follows(q)
<1> DEFINE P(q) == q <= Len(script) => Follows(q)
           S == {q \in Nat : P(q)}
<1>1. Len(script) \in Nat
  BY ScriptType DEF InputInv
<1>2. P(0)
  <2>1. \A k \in DOMAIN cut : ~InHunk(k, 0)
    <3>1. \A k \in DOMAIN cut : Interval(cut[k])
      BY CutType
    <3> QED BY <3>1 DEF InHunk, Interval
  <2>2. 1 - 1 = 0 /\ 0 + 1 = 1 /\ 1 \in Int
    OBVIOUS
  <2>3. Old(0) = <<>> /\ New(0) = <<>>
    <3>1. \A signs : Lines(script, 1, 1 - 1, signs) = <<>>
      BY <2>2, LinesEmpty
    <3> QED BY <2>2, <3>1 DEF Old, New
  <2>4. Len(<<>>) = 0
    OBVIOUS
  <2>5. Patched(0) = <<>>
    BY PatchedNext
  <2>6. Patched(Len(Old(0))) = New(0)
    BY <2>3, <2>4, <2>5, Zenon
  <2>7. Follows(0)
    BY <2>1, <2>6, Zenon DEF Follows
  <2> QED BY <2>7
<1>3. ASSUME NEW q \in Nat, P(q) PROVE P(q + 1)
  <2> SUFFICES ASSUME q + 1 <= Len(script) PROVE Follows(q + 1)
    OBVIOUS
  <2>1. q \in 0 .. Len(script) - 1 /\ Follows(q)
    BY <1>1, <1>3
  <2> HIDE DEF P
  <2> QED BY <2>1, FollowsOutside, FollowsInside
<1> HIDE DEF P
<1>4. 0 \in S /\ \A q \in Nat : q \in S => q + 1 \in S
  BY <1>2, <1>3
<1>5. Nat \subseteq S
  <2> HIDE DEF S
  <2> QED BY <1>4, NatSet
<1>6. \A q \in Nat : P(q)
  BY <1>5
<1> QED BY <1>1, <1>6 DEF P

LEMMA PatchMakes ==
  ASSUME InputInv, AllOrdinary
  PROVE  Edited(OldText(script), Patch) = NewText(script)
<1> DEFINE m == Len(script)
           t == OldText(script)
           n == Len(t)
<1>1. m \in Nat /\ m \in 0 .. m /\ t = Old(m) /\ NewText(script) = New(m)
  BY ScriptType DEF InputInv, OldText, NewText, Old, New
<1>2. Follows(m)
  BY <1>1, FollowsScript
<1>3. Patched(n) = New(m)
  <2>1. CASE \A k \in DOMAIN cut : ~InHunk(k, m)
    <3> HIDE DEF t
    <3> QED BY <1>1, <1>2, <2>1, Zenon DEF Follows
  <2>2. CASE \E k \in DOMAIN cut : InHunk(k, m)
    <3>1. PICK k \in DOMAIN cut : InHunk(k, m)
      BY <2>2
    <3>2. cut[k][1] \in Int /\ cut[k][2] \in Int /\ cut[k][2] <= m
      BY HunkOld
    <3>3. m = cut[k][2]
      BY <1>1, <3>1, <3>2 DEF InHunk
    <3>4. Arrived(k, m)
      BY <1>2, <3>1 DEF Follows
    <3>5. Patched(Len(Old(m))) = New(m)
      BY <3>3, <3>4, ArrivedAtEnd, Zenon
    <3> HIDE DEF t
    <3> QED BY <1>1, <3>5, Zenon
  <2> QED BY <2>1, <2>2
<1>4. n \in Nat
  BY ScriptType DEF InputInv
<1>5. n \in 0 .. n
  <2> HIDE DEF n
  <2> QED BY <1>4
<1>6. /\ Patched(n + 1) = Edited(t, Patch) /\ Patched(n) \in Seq(Seq(Int))
      /\ Joins(Patched(n), PatchedLine(n + 1), Patched(n + 1))
  BY <1>5, PatchedNext
<1>7. PatchedLine(n + 1) = <<>>
  BY LineAfter
<1>8. Joins(Patched(n), <<>>, Patched(n))
  BY <1>6, JoinNone
<1> HIDE DEF t, n, m
<1>9. Edited(t, Patch) = New(m)
  BY <1>3, <1>6, <1>7, <1>8, Zenon DEF Joins
<1> QED BY <1>1, <1>9, Zenon DEF t

LEMMA PatchImplied == ActionsInv => PatchMakesNewText
<1> SUFFICES ASSUME ActionsInv, Picked("quickfix.patch"), AllOrdinary
             PROVE  text = NewText(script)
  BY DEF PatchMakesNewText, AllOrdinary
<1>1. pc = "applied" /\ applied[1].kind = "quickfix.patch" /\ InputInv
  BY DEF Picked, ActionsInv
<1>2. PICK k \in DOMAIN actions : /\ applied = <<actions[k]>>
                                  /\ text = Edited(OldText(script), actions[k].edit)
  BY <1>1 DEF ActionsInv, TextInv
<1>3. PICK ca \in Published : actions[k] = ActionItem(ca)
  BY <1>1 DEF ActionsInv, AnsweredInv
<1>4. applied[1] = actions[k]
  BY <1>2
<1>5. ca.kind = "quickfix.patch"
  <2>1. ActionItem(ca).kind = ca.kind
    BY DEF ActionItem
  <2> QED BY <1>1, <1>3, <1>4, <2>1, Zenon
<1>6. ca = [kind |-> "quickfix.patch", edits |-> hunks]
  BY <1>5 DEF Published
<1>7. hunks = FirstHunks(Len(cut))
  BY <1>1 DEF ActionsInv, HunksInv
<1>8. ActionItem(ca).edit = PatchEdits(ca)
  BY <1>5 DEF ActionItem
<1>9. actions[k].edit = Patch
  BY <1>3, <1>6, <1>7, <1>8, Zenon DEF Patch
<1> QED BY <1>1, <1>2, <1>9, PatchMakes, Zenon

\* "Apply verified patch" turns the text the patch was made for into the text it
\* is a patch to, for every script of changes and every cut of it into hunks
\* that each hold a line of the old and a line of the new text.
THEOREM PatchGivesNewText == Spec => []PatchMakesNewText
BY ActionsHold, PatchImplied, PTL

-----------------------------------------------------------------------------
(* Types.                                                                  *)

\* Edits of lines make lines.
LEMMA EditedTyped ==
  ASSUME NEW t \in Seq(Seq(Int)), NEW edits, NEW n \in Nat, DOMAIN edits = 1 .. n,
         \A k \in 1 .. n : edits[k].lines \in Seq(Seq(Int))
  PROVE  Edited(t, edits) \in Seq(Seq(Int))
<1>1. ASSUME NEW p, NEW how PROVE EditsAt(edits, p, how) \in Seq(Seq(Int))
  <2> DEFINE T == Seq(Seq(Int))
             L(k) == IF edits[k].how = how /\ edits[k].start = p - 1 THEN edits[k].lines ELSE <<>>
             f == [k \in 1 .. n |-> L(k)]
  <2>1. EditsAt(edits, p, how) = FlattenSeq(f)
    BY Zenon DEF EditsAt
  <2>2. <<>> \in T
    OBVIOUS
  <2>3. \A k \in 1 .. n : L(k) \in T
    BY <2>2, Zenon
  <2>4. f \in Seq(T)
    <3> HIDE DEF T, L
    <3> QED BY <2>3
  <2> HIDE DEF f
  <2>5. FlattenSeq(f) \in Seq(Seq(Int))
    BY <2>4, FlattenType
  <2> QED BY <2>1, <2>5, Zenon
<1>2. ASSUME NEW p \in 1 .. Len(t) + 1 PROVE EditedLine(t, edits, p) \in Seq(Seq(Int))
  <2> DEFINE x == EditsAt(edits, p, "replace")
             a == FlattenSeq(EditsAt(edits, p, "append"))
             y == IF p > Len(t) \/ Gone(edits, p) THEN <<>> ELSE <<t[p] \o a>>
  <2>1. x \in Seq(Seq(Int))
    BY <1>1
  <2>2. a \in Seq(Int)
    BY <1>1, FlattenType
  <2>3. EditedLine(t, edits, p) = x \o y
    BY Zenon DEF EditedLine
  <2> HIDE DEF x, a
  <2>4. y \in Seq(Seq(Int))
    <3>1. CASE p > Len(t) \/ Gone(edits, p)
      <4>1. y = <<>>
        BY <3>1
      <4> QED BY <4>1
    <3>2. CASE ~(p > Len(t) \/ Gone(edits, p))
      <4>1. t[p] \in Seq(Int)
        BY <3>2
      <4>2. <<t[p] \o a>> \in Seq(Seq(Int))
        BY <2>2, <4>1
      <4> QED BY <3>2, <4>2, Zenon
    <3> QED BY <3>1, <3>2
  <2> HIDE DEF y
  <2>5. x \o y \in Seq(Seq(Int))
    BY <2>1, <2>4
  <2> QED BY <2>3, <2>5, Zenon
<1>3. /\ Edited(t, edits) = FlattenSeq(EditedPieces(t, edits))
      /\ EditedPieces(t, edits) \in Seq(Seq(Seq(Int)))
  BY <1>2, EditedType
<1> DEFINE f == EditedPieces(t, edits)
<1> HIDE DEF f
<1>4. FlattenSeq(f) \in Seq(Seq(Int))
  BY <1>3, FlattenType DEF f
<1> QED BY <1>3, <1>4, Zenon DEF f

\* What the parser makes of the diff.
LEMMA HunkTypes ==
  ASSUME InputInv
  PROVE  /\ \A k \in DOMAIN cut : \A j \in 0 .. Size(cut[k]) : ParsedHunk(cut[k], j) \in Hunk
         /\ \A n \in 0 .. Len(cut) : FirstHunks(n) \in Seq(Hunk)
<1>1. /\ Len(cut) \in Nat /\ DOMAIN cut = 1 .. Len(cut)
      /\ \A k \in DOMAIN cut : Interval(cut[k])
  BY CutType
<1>2. ASSUME NEW k \in DOMAIN cut, NEW j \in 0 .. Size(cut[k])
      PROVE  ParsedHunk(cut[k], j) \in Hunk
  <2> DEFINE h == cut[k]
             c == h[1] + j - 1
             l == Lines(script, h[1], c, NewSigns)
  <2>1. /\ OldLen(script, h) \in Nat /\ HunkStart(script, h) \in Int /\ Size(h) \in Nat
        /\ Interval(h)
    BY <1>1, HunkNumbers
  <2>2. h[1] \in Int /\ c \in Int /\ h[1] <= c + 1
    BY <2>1 DEF Interval
  <2>3. l \in Seq(Seq(Int))
    <3> HIDE DEF c
    <3> QED BY <2>2, LinesPieces
  <2>4. ParsedHunk(h, j) = [start_line |-> HunkStart(script, h) - 1,
                            end_line |-> HunkStart(script, h) - 1 + OldLen(script, h),
                            new_lines |-> l]
    BY DEF ParsedHunk
  <2> HIDE DEF l, h
  <2>5. ParsedHunk(h, j) \in Hunk
    BY <2>1, <2>3, <2>4 DEF Hunk
  <2> QED BY <2>5 DEF h
<1>3. ASSUME NEW n \in 0 .. Len(cut) PROVE FirstHunks(n) \in Seq(Hunk)
  <2> DEFINE P(k) == ParsedHunk(cut[k], Size(cut[k]))
  <2>1. \A k \in 1 .. n : P(k) \in Hunk
    <3>1. \A k \in DOMAIN cut : Size(cut[k]) \in 0 .. Size(cut[k])
      <4>1. \A k \in DOMAIN cut : Size(cut[k]) \in Nat
        BY <1>1, HunkNumbers
      <4> QED BY <4>1
    <3>2. \A k \in DOMAIN cut : P(k) \in Hunk
      BY <1>2, <3>1
    <3> QED BY <1>1, <3>2
  <2>2. FirstHunks(n) = [k \in 1 .. n |-> P(k)]
    BY DEF FirstHunks
  <2> HIDE DEF P
  <2> QED BY <2>1, <2>2
<1> QED BY <1>2, <1>3

LEMMA ParserTypes ==
  ASSUME ActionsInv
  PROVE  /\ pc = "parse" => current_hunk \in {NoHunk} \cup Hunk
         /\ hunks \in Seq(Hunk)
<1>1. InputInv /\ ParseInv /\ HunksInv
  BY DEF ActionsInv
<1>2. Len(cut) \in Nat /\ Len(cut) >= 1 /\ DOMAIN cut = 1 .. Len(cut)
  BY <1>1, CutType
<1>3. /\ \A k \in DOMAIN cut : \A j \in 0 .. Size(cut[k]) : ParsedHunk(cut[k], j) \in Hunk
      /\ \A n \in 0 .. Len(cut) : FirstHunks(n) \in Seq(Hunk)
  BY <1>1, HunkTypes
<1>4. CASE pc # "parse"
  <2>1. Len(cut) \in 0 .. Len(cut)
    BY <1>2
  <2> QED BY <1>1, <1>3, <1>4, <2>1 DEF HunksInv
<1>5. CASE pc = "parse"
  <2>1. ParseStage(place, current_hunk, hunks)
    BY <1>1, <1>5, ParseStages
  <2>2. CASE place \in 0 .. 2 /\ current_hunk = NoHunk /\ hunks = <<>>
    BY <2>2
  <2>3. ASSUME NEW k \in DOMAIN cut, NEW j \in 0 .. Size(cut[k]),
               hunks = FirstHunks(k - 1), current_hunk = ParsedHunk(cut[k], j)
        PROVE  current_hunk \in Hunk /\ hunks \in Seq(Hunk)
    <3>1. k - 1 \in 0 .. Len(cut)
      BY <1>2
    <3> QED BY <1>3, <2>3, <3>1, Zenon
  <2>4. CASE /\ hunks = FirstHunks(Len(cut) - 1)
             /\ current_hunk = ParsedHunk(cut[Len(cut)], Size(cut[Len(cut)]))
    <3>1. Len(cut) \in DOMAIN cut
      BY <1>2
    <3>2. Size(cut[Len(cut)]) \in Nat
      BY <1>1, <3>1, CutType, HunkNumbers
    <3>3. Size(cut[Len(cut)]) \in 0 .. Size(cut[Len(cut)])
      BY <3>2
    <3> QED BY <2>3, <2>4, <3>1, <3>3
  <2> QED BY <2>1, <2>2, <2>3, <2>4 DEF ParseStage
<1> QED BY <1>4, <1>5

\* The document, before and after an action is applied to it.
LEMMA TextTypes ==
  ASSUME ActionsInv
  PROVE  text \in Seq(Seq(Int))
<1>1. InputInv /\ TextInv /\ AnsweredInv
  BY DEF ActionsInv
<1> DEFINE t == OldText(script)
<1>2. t \in Seq(Seq(Int))
  BY <1>1, ScriptType DEF InputInv
<1>3. CASE pc # "applied"
  BY <1>1, <1>2, <1>3 DEF TextInv
<1>4. CASE pc = "applied"
  <2>1. PICK k \in DOMAIN actions : text = Edited(t, actions[k].edit)
    BY <1>1, <1>4 DEF TextInv
  <2>2. PICK ca \in Published : actions[k] = ActionItem(ca)
    BY <1>1, <1>4 DEF AnsweredInv
  <2> DEFINE e == actions[k].edit
  <2>3. CASE ca.kind = "quickfix.patch"
    <3>1. e = PatchEdits(ca) /\ ca.edits = hunks
      <4>1. ca = [kind |-> "quickfix.patch", edits |-> hunks]
        BY <2>3 DEF Published
      <4>2. ca.edits = hunks
        BY <4>1
      <4> QED BY <2>2, <2>3, <4>2 DEF ActionItem
    <3>2. hunks \in Seq(Hunk)
      BY ParserTypes
    <3> DEFINE n == Len(hunks)
               R(i) == Replace(hunks[i].start_line, hunks[i].end_line, JoinLines(hunks[i].new_lines))
    <3>3. n \in Nat /\ DOMAIN hunks = 1 .. n /\ \A i \in 1 .. n : hunks[i].new_lines \in Seq(Seq(Int))
      <4> DEFINE T == Seq(Seq(Int))
      <4>1. \A x \in Hunk : x.new_lines \in T
        <5> HIDE DEF T
        <5> QED BY DEF Hunk, T
      <4>2. n \in Nat /\ DOMAIN hunks = 1 .. n /\ \A i \in 1 .. n : hunks[i] \in Hunk
        BY <3>2
      <4> QED BY <4>1, <4>2, Zenon
    <3>4. e = [i \in 1 .. n |-> R(i)]
      BY <3>1, <3>3, Zenon DEF PatchEdits
    <3>5. <<<<>>>> \in Seq(Seq(Int))
      OBVIOUS
    <3>6. \A i \in 1 .. n : R(i).lines \in Seq(Seq(Int))
      <4>1. \A i \in 1 .. n : JoinLines(hunks[i].new_lines) \in Seq(Seq(Int))
        BY <3>3, <3>5, Zenon DEF JoinLines
      <4>2. \A i : R(i).lines = JoinLines(hunks[i].new_lines)
        BY DEF Replace
      <4> HIDE DEF R
      <4> QED BY <4>1, <4>2, Zenon
    <3>7. DOMAIN e = 1 .. n /\ \A i \in 1 .. n : e[i].lines \in Seq(Seq(Int))
      <4> HIDE DEF R, e, n
      <4> QED BY <3>4, <3>6
    <3> HIDE DEF e, t, n
    <3>8. Edited(t, e) \in Seq(Seq(Int))
      BY <1>2, <3>3, <3>7, EditedTyped
    <3> QED BY <2>1, <3>8 DEF e
  <2>4. CASE ca.kind # "quickfix.patch"
    <3>1. e = LineEdit(ca)
      BY <2>2, <2>4 DEF ActionItem
    <3>2. <<<<Fix>>>> \in Seq(Seq(Int)) /\ <<<<Noqa>>>> \in Seq(Seq(Int))
      BY DEF Fix, Noqa
    <3>3. \E x : e = <<x>> /\ x.lines \in Seq(Seq(Int))
      <4> DEFINE a == AppendTo(ActionLine(ca), Noqa)
                 r == Replace(ActionLine(ca), ActionLine(ca) + 1, <<<<Fix>>>>)
      <4>1. a.lines = <<<<Noqa>>>> /\ r.lines = <<<<Fix>>>>
        BY DEF Replace, AppendTo
      <4>2. e = <<a>> \/ e = <<r>>
        BY <3>1 DEF LineEdit
      <4> HIDE DEF a, r, e
      <4>3. a.lines \in Seq(Seq(Int)) /\ r.lines \in Seq(Seq(Int))
        BY <3>2, <4>1, Zenon
      <4> QED BY <4>2, <4>3, Zenon
    <3>4. 1 \in Nat /\ DOMAIN e = 1 .. 1 /\ \A i \in 1 .. 1 : e[i].lines \in Seq(Seq(Int))
      <4> HIDE DEF e
      <4> QED BY <3>3
    <3> HIDE DEF e, t
    <3>5. Edited(t, e) \in Seq(Seq(Int))
      BY <1>2, <3>4, EditedTyped
    <3> QED BY <2>1, <3>5 DEF e
  <2> QED BY <2>3, <2>4
<1> QED BY <1>3, <1>4

\* The rest of the type invariant, step by step.
Places ==
    /\ pc \in {"parse", "publish", "published", "answered", "applied"}
    /\ place \in 0 .. Len(unified_diff)
    /\ current_hunk \in {NoHunk} \cup Hunk

HunkTyped == pc = "parse" => current_hunk \in {NoHunk} \cup Hunk

LEMMA PlacesNext == ActionsInv /\ HunkTyped' /\ Places /\ [Next]_vars => Places'
<1> SUFFICES ASSUME ActionsInv, HunkTyped', Places, [Next]_vars PROVE Places'
  OBVIOUS
<1>1. UNCHANGED <<script, cut>>
  BY DEF Next, ParseHeader, ParseBody, ParseEnd, PublishQuickFix, CodeAction, ApplyAction, vars
<1>2. Len(unified_diff)' = Len(unified_diff)
  BY <1>1, SameDiff
<1>3. Len(unified_diff) \in Nat
  BY DiffParts DEF ActionsInv
<1>4. pc' = "parse" => current_hunk' \in {NoHunk} \cup Hunk
  BY DEF HunkTyped
<1>5. pc' # "parse" => current_hunk' = current_hunk
  BY DEF Next, ParseHeader, ParseBody, ParseEnd, PublishQuickFix, CodeAction, ApplyAction, vars
<1>6. pc' \in {"parse", "publish", "published", "answered", "applied"}
  BY DEF Places, Next, ParseHeader, ParseBody, ParseEnd, PublishQuickFix, CodeAction,
         ApplyAction, vars
<1>7. place' = place \/ (place < Len(unified_diff) /\ place' = place + 1)
  BY DEF Next, ParseHeader, ParseBody, ParseEnd, PublishQuickFix, CodeAction, ApplyAction, vars
<1>8. place' \in 0 .. Len(unified_diff)
  BY <1>3, <1>7 DEF Places
<1> QED BY <1>2, <1>4, <1>5, <1>6, <1>8 DEF Places

\* Parser, published review, answer and document stay in their types.
THEOREM CodeActionsTypes == Spec => []TypeOK
<1>1. Init => Places
  <2> SUFFICES ASSUME Init PROVE Places
    OBVIOUS
  <2>1. Len(unified_diff) \in Nat
    BY ActionsInit, DiffParts DEF ActionsInv
  <2> QED BY <2>1 DEF Init, Places
<1>2. ActionsInv /\ Places => TypeOK
  BY ParserTypes, TextTypes DEF TypeOK, Places
<1>3. ActionsInv => HunkTyped
  BY ParserTypes DEF HunkTyped
<1> QED BY <1>1, <1>2, <1>3, ActionsHold, PlacesNext, PTL DEF Spec
=============================================================================

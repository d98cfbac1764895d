----------------------------- MODULE ListsProofs -----------------------------
(***************************************************************************)
(* What the loops of Lists compute, proved by induction: the laws of Among *)
(* and Total that the proofs about the map of the repository, the rounds   *)
(* of Ralph and the tools beside the engine cite, and the first greatest   *)
(* element a max(...) over a list takes.                                   *)
(*                                                                         *)
(* Induction is stated for sets (a set with 0 and every successor has all  *)
(* numbers), and applied to the set of the numbers, or of the sequences,   *)
(* the property holds of.                                                  *)
(***************************************************************************)
EXTENDS Lists, SequenceTheorems, WellFoundedInduction, TLAPS

-----------------------------------------------------------------------------
(* Induction over numbers and over sequences. *)

\* A set of numbers has a least one.
LEMMA Least ==
  ASSUME NEW T, T \subseteq Nat, T # {}
  PROVE  \E x \in T : \A y \in T : x <= y
<1>1. PICK x \in T : \A y \in T : ~(<<y, x>> \in OpToRel(<, Nat))
  BY NatLessThanWellFounded, WFMin
<1>2. \A y \in T : ~(y < x)
  BY <1>1 DEF OpToRel
<1>3. \A y \in T : y \in Nat /\ x \in Nat
  OBVIOUS
<1> QED BY <1>2, <1>3

\* A set that has 0, and with a number the next one, has every number.
LEMMA Induction ==
  ASSUME NEW S, 0 \in S, \A n \in Nat : n \in S => n + 1 \in S
  PROVE  Nat \subseteq S
<1> SUFFICES ASSUME Nat \ S # {} PROVE FALSE
  OBVIOUS
<1>1. PICK x \in Nat \ S : \A y \in Nat \ S : x <= y
  BY Least
<1>2. x # 0 /\ x - 1 \in Nat
  BY <1>1
<1>3. x - 1 \in S
  BY <1>1, <1>2
<1> QED BY <1>1, <1>2, <1>3

\* What holds of the empty sequence and of a sequence with another element at its
\* end, if of the sequence, holds of every sequence.
LEMMA SeqInduction ==
  ASSUME NEW S, NEW P, <<>> \in P, \A s \in Seq(S), e \in S : s \in P => Append(s, e) \in P
  PROVE  Seq(S) \subseteq P
<1> DEFINE N == {n \in Nat : \A s \in Seq(S) : Len(s) = n => s \in P}
<1>1. 0 \in N
  BY EmptySeq
<1>2. ASSUME NEW n \in Nat, n \in N PROVE n + 1 \in N
  <2> SUFFICES ASSUME NEW s \in Seq(S), Len(s) = n + 1 PROVE s \in P
    OBVIOUS
  <2>1. s # <<>>
    BY EmptySeq
  <2>2. PICK t \in Seq(S), e \in S : s = Append(t, e)
    BY <2>1, SequenceEmptyOrAppend
  <2>3. Len(t) = n
    BY <2>2
  <2> QED BY <1>2, <2>2, <2>3
<1> HIDE DEF N
<1>3. Nat \subseteq N
  BY <1>1, <1>2, Induction
<1>4. \A s \in Seq(S) : Len(s) \in N
  BY <1>3, LenProperties
<1> QED BY <1>4 DEF N

\* f is what the loop of these steps comes to at each place.
IsLoop(f, n, D, start, step) ==
  f \in [0 .. n -> D] /\ f[0] = start /\ \A i \in 1 .. n : f[i] = step[i][f[i - 1]]

\* A loop over 1..n has a value at each place it comes to.
LEMMA Recursion ==
  ASSUME NEW n \in Nat, NEW D, NEW start \in D, NEW step \in [1 .. n -> [D -> D]]
  PROVE  \E f : IsLoop(f, n, D, start, step)
<1> DEFINE Fits(f, k) == f[0] = start /\ \A i \in 1 .. k : f[i] = step[i][f[i - 1]]
           K == {k \in Nat : k <= n => \E f \in [0 .. k -> D] : Fits(f, k)}
<1>1. 0 \in K
  <2>1. [i \in 0 .. 0 |-> start] \in [0 .. 0 -> D] /\ Fits([i \in 0 .. 0 |-> start], 0)
    OBVIOUS
  <2> QED BY <2>1
<1>2. ASSUME NEW k \in Nat, k \in K PROVE k + 1 \in K
  <2> SUFFICES ASSUME k + 1 <= n PROVE \E g \in [0 .. k + 1 -> D] : Fits(g, k + 1)
    OBVIOUS
  <2>1. PICK f \in [0 .. k -> D] : Fits(f, k)
    BY <1>2
  <2>2. f[k] \in D /\ k + 1 \in 1 .. n
    OBVIOUS
  <2>3. step[k + 1][f[k]] \in D
    BY <2>2
  <2> DEFINE g == [i \in 0 .. k + 1 |-> IF i = k + 1 THEN step[k + 1][f[k]] ELSE f[i]]
  <2>4. g \in [0 .. k + 1 -> D]
    BY <2>3
  <2>5. g[0] = start
    BY <2>1
  <2>6. ASSUME NEW i \in 1 .. k + 1 PROVE g[i] = step[i][g[i - 1]]
    <3>1. g[i - 1] = f[i - 1]
      OBVIOUS
    <3>2. CASE i = k + 1
      BY <3>1, <3>2
    <3>3. CASE i \in 1 .. k
      <4>1. g[i] = f[i] /\ f[i] = step[i][f[i - 1]]
        BY <2>1, <3>3
      <4> QED BY <3>1, <4>1
    <3> QED BY <3>2, <3>3
  <2> QED BY <2>4, <2>5, <2>6
<1> HIDE DEF K
<1>3. n \in K
  BY <1>1, <1>2, Induction
<1> QED BY <1>3 DEF K, IsLoop

-----------------------------------------------------------------------------
(* Among. *)

\* The loop behind Among.
Keeps(s, T, kept) ==
  /\ kept[0] = <<>>
  /\ \A n \in 1 .. Len(s) :
       kept[n] = IF s[n] \in T THEN Append(kept[n - 1], s[n]) ELSE kept[n - 1]

\* Among is what its loop comes to in the end.
LEMMA AmongLoop ==
  ASSUME NEW S, NEW s \in Seq(S), NEW T
  PROVE  \E kept \in [0 .. Len(s) -> Seq(S)] : Keeps(s, T, kept) /\ Among(s, T) = kept[Len(s)]
<1> DEFINE step == [i \in 1 .. Len(s) |-> [t \in Seq(S) |->
                      IF s[i] \in T THEN Append(t, s[i]) ELSE t]]
           loop == CHOOSE kept :
                     kept = [n \in 0 .. Len(s) |->
                               IF n = 0 THEN <<>>
                               ELSE IF s[n] \in T THEN Append(kept[n - 1], s[n]) ELSE kept[n - 1]]
<1>1. step \in [1 .. Len(s) -> [Seq(S) -> Seq(S)]] /\ Len(s) \in Nat /\ <<>> \in Seq(S)
  OBVIOUS
<1>2. PICK f \in [0 .. Len(s) -> Seq(S)] :
        f[0] = <<>> /\ \A i \in 1 .. Len(s) : f[i] = step[i][f[i - 1]]
  <2> HIDE DEF step, loop
  <2>1. \E f : IsLoop(f, Len(s), Seq(S), <<>>, step)
    BY <1>1, Recursion
  <2> QED BY <2>1 DEF IsLoop
<1>3. \A i \in 1 .. Len(s) :
        f[i] = IF s[i] \in T THEN Append(f[i - 1], s[i]) ELSE f[i - 1]
  <2> TAKE i \in 1 .. Len(s)
  <2>1. f[i - 1] \in Seq(S)
    OBVIOUS
  <2> QED BY <1>2, <2>1
<1>4. f = [n \in 0 .. Len(s) |->
             IF n = 0 THEN <<>> ELSE IF s[n] \in T THEN Append(f[n - 1], s[n]) ELSE f[n - 1]]
  <2> HIDE DEF step, loop
  <2>1. \A n \in 0 .. Len(s) : f[n] =
             IF n = 0 THEN <<>> ELSE IF s[n] \in T THEN Append(f[n - 1], s[n]) ELSE f[n - 1]
    <3> TAKE n \in 0 .. Len(s)
    <3>1. CASE n = 0
      BY <1>2, <3>1
    <3>2. CASE n \in 1 .. Len(s)
      <4>1. n # 0
        BY <3>2
      <4> QED BY <1>3, <3>2, <4>1, Zenon
    <3> QED BY <3>1, <3>2
  <2> QED BY <2>1
<1>5. loop = [n \in 0 .. Len(s) |->
               IF n = 0 THEN <<>>
               ELSE IF s[n] \in T THEN Append(loop[n - 1], s[n]) ELSE loop[n - 1]]
  BY <1>4, Zenon
<1>6. Among(s, T) = loop[Len(s)]
  BY Zenon DEF Among
<1>7. loop[0] = <<>>
  <2> HIDE DEF loop
  <2> QED BY <1>5
<1>8. \A n \in 1 .. Len(s) : loop[n] = IF s[n] \in T THEN Append(loop[n - 1], s[n]) ELSE loop[n - 1]
  <2> HIDE DEF loop
  <2>1. \A n \in 0 .. Len(s) : loop[n] =
          IF n = 0 THEN <<>> ELSE IF s[n] \in T THEN Append(loop[n - 1], s[n]) ELSE loop[n - 1]
    BY <1>5, Zenon
  <2> QED BY <2>1
<1>9. loop \in [0 .. Len(s) -> Seq(S)]
  <2> HIDE DEF loop
  <2> DEFINE N == {n \in Nat : n <= Len(s) => loop[n] \in Seq(S)}
  <2>1. 0 \in N
    BY <1>7, EmptySeq
  <2>2. ASSUME NEW n \in Nat, n \in N PROVE n + 1 \in N
    <3> SUFFICES ASSUME n + 1 <= Len(s) PROVE loop[n + 1] \in Seq(S)
      OBVIOUS
    <3>1. loop[n] \in Seq(S) /\ s[n + 1] \in S
      BY <2>2, ElementOfSeq
    <3>2. loop[n + 1] = IF s[n + 1] \in T THEN Append(loop[n], s[n + 1]) ELSE loop[n]
      BY <1>8
    <3> QED BY <3>1, <3>2
  <2> HIDE DEF N
  <2>3. Nat \subseteq N
    BY <2>1, <2>2, Induction
  <2>4. \A n \in 0 .. Len(s) : loop[n] \in Seq(S)
    BY <2>3 DEF N
  <2> QED BY <1>5, <2>4
<1> HIDE DEF loop
<1> QED BY <1>6, <1>7, <1>8, <1>9 DEF Keeps

\* Of nothing, nothing is selected.
LEMMA AmongEmpty ==
  ASSUME NEW T
  PROVE  Among(<<>>, T) = <<>>
<1>1. <<>> \in Seq({}) /\ Len(<<>>) = 0
  BY EmptySeq
<1>2. PICK kept : Keeps(<<>>, T, kept) /\ Among(<<>>, T) = kept[0]
  BY <1>1, AmongLoop
<1> QED BY <1>1, <1>2 DEF Keeps

\* An element more is selected, or left out, at the end.
LEMMA AmongAppend ==
  ASSUME NEW S, NEW s \in Seq(S), NEW e \in S, NEW T
  PROVE  Among(Append(s, e), T) = IF e \in T THEN Append(Among(s, T), e) ELSE Among(s, T)
<1> DEFINE l == Append(s, e)
<1>1. l \in Seq(S) /\ Len(l) = Len(s) + 1 /\ l[Len(s) + 1] = e /\ Len(s) \in Nat
      /\ \A n \in 1 .. Len(s) : l[n] = s[n]
  BY AppendProperties
<1>2. PICK f : Keeps(s, T, f) /\ Among(s, T) = f[Len(s)]
  BY AmongLoop
<1>3. PICK g : Keeps(l, T, g) /\ Among(l, T) = g[Len(l)]
  <2> HIDE DEF l
  <2> QED BY <1>1, AmongLoop
<1> HIDE DEF l
<1>4. f[0] = <<>> /\ \A n \in 1 .. Len(s) : f[n] = IF s[n] \in T THEN Append(f[n - 1], s[n]) ELSE f[n - 1]
  BY <1>2 DEF Keeps
<1>5. g[0] = <<>> /\ \A n \in 1 .. Len(s) + 1 : g[n] = IF l[n] \in T THEN Append(g[n - 1], l[n]) ELSE g[n - 1]
  BY <1>1, <1>3 DEF Keeps
<1>6. f[Len(s)] = g[Len(s)]
  <2> DEFINE N == {n \in Nat : n <= Len(s) => f[n] = g[n]}
  <2>1. 0 \in N
    BY <1>4, <1>5
  <2>2. ASSUME NEW n \in Nat, n \in N PROVE n + 1 \in N
    <3> SUFFICES ASSUME n + 1 <= Len(s) PROVE f[n + 1] = g[n + 1]
      OBVIOUS
    <3>1. f[n] = g[n] /\ l[n + 1] = s[n + 1] /\ n + 1 \in 1 .. Len(s) /\ (n + 1) - 1 = n
      BY <1>1, <2>2
    <3>2. f[n + 1] = IF s[n + 1] \in T THEN Append(f[n], s[n + 1]) ELSE f[n]
      BY <1>4, <3>1
    <3>3. g[n + 1] = IF l[n + 1] \in T THEN Append(g[n], l[n + 1]) ELSE g[n]
      BY <1>1, <1>5, <3>1
    <3> QED BY <3>1, <3>2, <3>3
  <2> HIDE DEF N
  <2>3. Len(s) \in N
    BY <1>1, <2>1, <2>2, Induction
  <2> QED BY <1>1, <2>3 DEF N
<1>7. g[Len(s) + 1] = IF e \in T THEN Append(g[Len(s)], e) ELSE g[Len(s)]
  <2>1. Len(s) + 1 \in 1 .. Len(s) + 1 /\ (Len(s) + 1) - 1 = Len(s)
    BY <1>1
  <2> QED BY <1>1, <1>5, <2>1
<1>8. Among(l, T) = IF e \in T THEN Append(Among(s, T), e) ELSE Among(s, T)
  BY <1>1, <1>2, <1>3, <1>6, <1>7
<1> QED BY <1>8 DEF l

\* What is selected is of the list, and in T.
LEMMA AmongType ==
  ASSUME NEW S, NEW s \in Seq(S), NEW T
  PROVE  Among(s, T) \in Seq(S \cap T) /\ Among(s, T) \in Seq(S)
<1> DEFINE P == {t \in Seq(S) : Among(t, T) \in Seq(S \cap T)}
<1>1. <<>> \in P
  BY AmongEmpty, EmptySeq
<1>2. ASSUME NEW t \in Seq(S), NEW e \in S, t \in P PROVE Append(t, e) \in P
  <2>1. Append(t, e) \in Seq(S)
    OBVIOUS
  <2>2. Among(t, T) \in Seq(S \cap T)
    BY <1>2
  <2>3. Among(Append(t, e), T) = IF e \in T THEN Append(Among(t, T), e) ELSE Among(t, T)
    BY AmongAppend
  <2>4. Among(Append(t, e), T) \in Seq(S \cap T)
    BY <2>2, <2>3
  <2> QED BY <2>1, <2>4
<1> HIDE DEF P
<1>3. s \in P
  BY <1>1, <1>2, SeqInduction
<1>4. Among(s, T) \in Seq(S)
  <2>1. Len(s) \in 0 .. Len(s)
    OBVIOUS
  <2> QED BY <2>1, AmongLoop
<1> QED BY <1>3, <1>4 DEF P

\* Selecting from two lists one after the other.
LEMMA AmongConcat ==
  ASSUME NEW S, NEW s \in Seq(S), NEW t \in Seq(S), NEW T
  PROVE  Among(s \o t, T) = Among(s, T) \o Among(t, T)
<1> DEFINE P == {u \in Seq(S) : Among(s \o u, T) = Among(s, T) \o Among(u, T)}
<1>0. \A u \in Seq(S) : Among(u, T) \in Seq(S)
  BY AmongType
<1>1. <<>> \in P
  BY <1>0, AmongEmpty
<1>2. ASSUME NEW u \in Seq(S), NEW e \in S, u \in P PROVE Append(u, e) \in P
  <2>1. s \o Append(u, e) = Append(s \o u, e) /\ s \o u \in Seq(S) /\ Append(u, e) \in Seq(S)
    OBVIOUS
  <2>2. Among(s \o Append(u, e), T) = IF e \in T THEN Append(Among(s \o u, T), e) ELSE Among(s \o u, T)
    BY <2>1, AmongAppend
  <2>3. Among(Append(u, e), T) = IF e \in T THEN Append(Among(u, T), e) ELSE Among(u, T)
    BY AmongAppend
  <2>4. Among(s \o u, T) = Among(s, T) \o Among(u, T)
    BY <1>2
  <2>5. Append(Among(s, T) \o Among(u, T), e) = Among(s, T) \o Append(Among(u, T), e)
    <3> DEFINE a == Among(s, T)
               b == Among(u, T)
    <3>1. a \in Seq(S) /\ b \in Seq(S) /\ e \in S
      BY <1>0
    <3> HIDE DEF a, b
    <3>2. Append(a \o b, e) = (a \o b) \o <<e>> /\ Append(b, e) = b \o <<e>>
      BY <3>1, AppendIsConcat, ConcatProperties
    <3>3. <<e>> \in Seq(S)
      BY <3>1
    <3>4. (a \o b) \o <<e>> = a \o (b \o <<e>>)
      BY <3>1, <3>3, ConcatAssociative
    <3>5. Append(a \o b, e) = a \o Append(b, e)
      BY <3>2, <3>4
    <3> QED BY <3>5 DEF a, b
  <2>6. Among(s \o Append(u, e), T) = Among(s, T) \o Among(Append(u, e), T)
    BY <2>2, <2>3, <2>4, <2>5
  <2> QED BY <2>1, <2>6
<1> HIDE DEF P
<1>3. t \in P
  BY <1>1, <1>2, SeqInduction
<1> QED BY <1>3 DEF P

\* What is selected of a selection.
LEMMA AmongAmong ==
  ASSUME NEW S, NEW s \in Seq(S), NEW T, NEW U
  PROVE  Among(Among(s, T), U) = Among(s, T \cap U)
<1> DEFINE P == {u \in Seq(S) : Among(Among(u, T), U) = Among(u, T \cap U)}
<1>1. <<>> \in P
  BY AmongEmpty, EmptySeq
<1>2. ASSUME NEW u \in Seq(S), NEW e \in S, u \in P PROVE Append(u, e) \in P
  <2>0. Append(u, e) \in Seq(S)
    OBVIOUS
  <2>1. Among(u, T) \in Seq(S)
    BY AmongType
  <2>2. Among(Append(u, e), T) = IF e \in T THEN Append(Among(u, T), e) ELSE Among(u, T)
    BY AmongAppend
  <2>3. Among(Append(u, e), T \cap U) =
          IF e \in T \cap U THEN Append(Among(u, T \cap U), e) ELSE Among(u, T \cap U)
    BY AmongAppend
  <2>4. Among(Append(Among(u, T), e), U) =
          IF e \in U THEN Append(Among(Among(u, T), U), e) ELSE Among(Among(u, T), U)
    BY <2>1, AmongAppend
  <2>5. Among(Among(u, T), U) = Among(u, T \cap U)
    BY <1>2
  <2>6. Among(Among(Append(u, e), T), U) = Among(Append(u, e), T \cap U)
    <3>1. CASE e \in T /\ e \in U
      BY <2>2, <2>3, <2>4, <2>5, <3>1
    <3>2. CASE e \in T /\ e \notin U
      BY <2>2, <2>3, <2>4, <2>5, <3>2
    <3>3. CASE e \notin T
      BY <2>2, <2>3, <2>5, <3>3
    <3> QED BY <3>1, <3>2, <3>3
  <2> QED BY <2>0, <2>6
<1> HIDE DEF P
<1>3. s \in P
  BY <1>1, <1>2, SeqInduction
<1> QED BY <1>3 DEF P

\* A list of elements of T is selected as it stands.
LEMMA AmongAll ==
  ASSUME NEW S, NEW T, S \subseteq T, NEW s \in Seq(S)
  PROVE  Among(s, T) = s
<1> DEFINE P == {u \in Seq(S) : Among(u, T) = u}
<1>1. <<>> \in P
  BY AmongEmpty, EmptySeq
<1>2. ASSUME NEW u \in Seq(S), NEW e \in S, u \in P PROVE Append(u, e) \in P
  <2>1. Among(Append(u, e), T) = IF e \in T THEN Append(Among(u, T), e) ELSE Among(u, T)
    BY AmongAppend
  <2> QED BY <1>2, <2>1
<1> HIDE DEF P
<1>3. s \in P
  BY <1>1, <1>2, SeqInduction
<1> QED BY <1>3 DEF P

\* Of a list with no element of T, nothing is selected.
LEMMA AmongNone ==
  ASSUME NEW S, NEW T, S \cap T = {}, NEW s \in Seq(S)
  PROVE  Among(s, T) = <<>>
<1>1. Among(s, T) \in Seq({})
  BY AmongType
<1> QED BY <1>1, EmptySeq

\* Only the elements of s decide.
LEMMA AmongSame ==
  ASSUME NEW S, NEW s \in Seq(S), NEW T, NEW U, S \cap T = S \cap U
  PROVE  Among(s, T) = Among(s, U)
<1>1. Among(s, S) = s
  BY AmongAll
<1>2. Among(s, S \cap T) = Among(s, T) /\ Among(s, S \cap U) = Among(s, U)
  BY <1>1, AmongAmong
<1> QED BY <1>2

\* The elements of a list.
Elements(s) == {s[i] : i \in DOMAIN s}

\* An element more.
LEMMA ElementsAppend ==
  ASSUME NEW S, NEW s \in Seq(S), NEW e \in S
  PROVE  Elements(Append(s, e)) = Elements(s) \cup {e}
<1> DEFINE l == Append(s, e)
<1>1. /\ DOMAIN s = 1 .. Len(s) /\ DOMAIN l = 1 .. Len(s) + 1 /\ Len(s) \in Nat
      /\ \A i \in 1 .. Len(s) : l[i] = s[i]
      /\ l[Len(s) + 1] = e
  BY AppendProperties
<1> HIDE DEF l
<1>2. Elements(l) = Elements(s) \cup {e}
  BY <1>1 DEF Elements
<1> QED BY <1>2 DEF l

\* The elements selected are those in T.
LEMMA AmongElements ==
  ASSUME NEW S, NEW s \in Seq(S), NEW T
  PROVE  Elements(Among(s, T)) = Elements(s) \cap T
<1> DEFINE P == {u \in Seq(S) : Elements(Among(u, T)) = Elements(u) \cap T}
<1>1. <<>> \in P
  BY AmongEmpty, EmptySeq DEF Elements
<1>2. ASSUME NEW u \in Seq(S), NEW e \in S, u \in P PROVE Append(u, e) \in P
  <2>1. Among(Append(u, e), T) = IF e \in T THEN Append(Among(u, T), e) ELSE Among(u, T)
    BY AmongAppend
  <2>2. Among(u, T) \in Seq(S)
    BY AmongType
  <2>3. Elements(Append(u, e)) = Elements(u) \cup {e}
    BY ElementsAppend
  <2>4. Elements(Append(Among(u, T), e)) = Elements(Among(u, T)) \cup {e}
    BY <2>2, ElementsAppend
  <2>5. Elements(Among(u, T)) = Elements(u) \cap T
    BY <1>2
  <2>6. Elements(Among(Append(u, e), T)) = Elements(Append(u, e)) \cap T
    BY <2>1, <2>3, <2>4, <2>5
  <2>7. Append(u, e) \in Seq(S)
    OBVIOUS
  <2> QED BY <2>6, <2>7
<1> HIDE DEF P
<1>3. s \in P
  BY <1>1, <1>2, SeqInduction
<1> QED BY <1>3 DEF P

\* No element twice.
Distinct(s) == \A i, j \in DOMAIN s : s[i] = s[j] => i = j

\* A list without repetitions, and an element more.
LEMMA DistinctAppend ==
  ASSUME NEW S, NEW s \in Seq(S), NEW e \in S
  PROVE  Distinct(Append(s, e)) <=> Distinct(s) /\ e \notin Elements(s)
<1> DEFINE l == Append(s, e)
<1>1. /\ DOMAIN s = 1 .. Len(s) /\ DOMAIN l = 1 .. Len(s) + 1 /\ Len(s) \in Nat
      /\ \A i \in 1 .. Len(s) : l[i] = s[i]
      /\ l[Len(s) + 1] = e
  BY AppendProperties
<1> HIDE DEF l
<1>2. Distinct(l) => Distinct(s) /\ e \notin Elements(s)
  <2> SUFFICES ASSUME Distinct(l) PROVE Distinct(s) /\ e \notin Elements(s)
    OBVIOUS
  <2>1. \A i, j \in 1 .. Len(s) + 1 : l[i] = l[j] => i = j
    BY <1>1 DEF Distinct
  <2>2. Distinct(s)
    BY <1>1, <2>1 DEF Distinct
  <2>3. \A i \in 1 .. Len(s) : s[i] # e
    BY <1>1, <2>1
  <2> QED BY <1>1, <2>2, <2>3 DEF Elements
<1>3. Distinct(s) /\ e \notin Elements(s) => Distinct(l)
  <2> SUFFICES ASSUME Distinct(s), e \notin Elements(s) PROVE Distinct(l)
    OBVIOUS
  <2>1. \A i \in 1 .. Len(s) : s[i] # e
    BY <1>1 DEF Elements
  <2>2. \A i, j \in 1 .. Len(s) : s[i] = s[j] => i = j
    BY <1>1 DEF Distinct
  <2> QED BY <1>1, <2>1, <2>2 DEF Distinct
<1> QED BY <1>2, <1>3 DEF l

\* Selecting repeats nothing.
LEMMA AmongDistinct ==
  ASSUME NEW S, NEW s \in Seq(S), Distinct(s), NEW T
  PROVE  Distinct(Among(s, T))
<1> DEFINE P == {u \in Seq(S) : Distinct(u) => Distinct(Among(u, T))}
<1>1. <<>> \in P
  BY AmongEmpty, EmptySeq DEF Distinct
<1>2. ASSUME NEW u \in Seq(S), NEW e \in S, u \in P PROVE Append(u, e) \in P
  <2>1. Among(Append(u, e), T) = IF e \in T THEN Append(Among(u, T), e) ELSE Among(u, T)
    BY AmongAppend
  <2>2. Among(u, T) \in Seq(S) /\ Elements(Among(u, T)) = Elements(u) \cap T
    BY AmongType, AmongElements
  <2>3. Distinct(Append(u, e)) => Distinct(u) /\ e \notin Elements(u)
    BY DistinctAppend
  <2>4. Distinct(Among(u, T)) /\ e \notin Elements(Among(u, T)) => Distinct(Append(Among(u, T), e))
    BY <2>2, DistinctAppend
  <2>5. Distinct(u) => Distinct(Among(u, T))
    BY <1>2
  <2>6. Distinct(Append(u, e)) => Distinct(Among(Append(u, e), T))
    BY <2>1, <2>2, <2>3, <2>4, <2>5
  <2>7. Append(u, e) \in Seq(S)
    OBVIOUS
  <2> QED BY <2>6, <2>7
<1> HIDE DEF P
<1>3. s \in P
  BY <1>1, <1>2, SeqInduction
<1> QED BY <1>3 DEF P
\* A list over S is one over more.
LEMMA InMore == ASSUME NEW S, NEW T, S \subseteq T, NEW s \in Seq(S) PROVE s \in Seq(T)
OBVIOUS

\* A list is its head and the rest.
LEMMA RestOf ==
  ASSUME NEW S, NEW s \in Seq(S), s # <<>>
  PROVE  /\ Head(s) \in S /\ Tail(s) \in Seq(S)
         /\ Elements(s) = {Head(s)} \cup Elements(Tail(s))
         /\ Distinct(s) => Distinct(Tail(s)) /\ Head(s) \notin Elements(Tail(s))
<1> DEFINE t == Tail(s)
<1>1. /\ Len(s) \in Nat \ {0} /\ DOMAIN s = 1 .. Len(s) /\ Head(s) = s[1]
      /\ t \in Seq(S) /\ Len(t) = Len(s) - 1 /\ DOMAIN t = 1 .. Len(s) - 1
      /\ \A i \in 1 .. Len(s) - 1 : t[i] = s[i + 1]
      /\ Head(s) \in S
  BY HeadTailProperties, EmptySeq, LenProperties
<1> HIDE DEF t
<1>2. Elements(s) = {Head(s)} \cup Elements(t)
  <2>1. \A i \in 2 .. Len(s) : i - 1 \in 1 .. Len(s) - 1 /\ s[i] = t[i - 1]
    <3> TAKE i \in 2 .. Len(s)
    <3>1. i - 1 \in 1 .. Len(s) - 1 /\ (i - 1) + 1 = i
      BY <1>1
    <3> QED BY <1>1, <3>1
  <2>2. \A i \in 1 .. Len(s) - 1 : i + 1 \in 1 .. Len(s)
    BY <1>1
  <2>3. \A i \in 1 .. Len(s) : i = 1 \/ i \in 2 .. Len(s)
    BY <1>1
  <2>4. 1 \in 1 .. Len(s)
    BY <1>1
  <2>5. \A x \in Elements(s) : x = Head(s) \/ x \in Elements(t)
    <3> TAKE x \in Elements(s)
    <3>1. PICK i \in 1 .. Len(s) : x = s[i]
      BY <1>1 DEF Elements
    <3>2. CASE i = 1
      BY <1>1, <3>1, <3>2
    <3>3. CASE i \in 2 .. Len(s)
      BY <1>1, <2>1, <3>1, <3>3 DEF Elements
    <3> QED BY <2>3, <3>2, <3>3
  <2>6. \A x \in Elements(t) : x \in Elements(s)
    BY <1>1, <2>2 DEF Elements
  <2>7. Head(s) \in Elements(s)
    BY <1>1, <2>4 DEF Elements
  <2> QED BY <2>5, <2>6, <2>7
<1>3. ASSUME Distinct(s) PROVE Distinct(t) /\ Head(s) \notin Elements(t)
  <2>1. \A i, j \in 1 .. Len(s) : s[i] = s[j] => i = j
    BY <1>1, <1>3 DEF Distinct
  <2>2. \A i, j \in 1 .. Len(s) - 1 : t[i] = t[j] => i = j
    <3> TAKE i, j \in 1 .. Len(s) - 1
    <3>1. i + 1 \in 1 .. Len(s) /\ j + 1 \in 1 .. Len(s) /\ (i + 1 = j + 1 => i = j)
      BY <1>1
    <3> QED BY <1>1, <2>1, <3>1
  <2>3. \A i \in 1 .. Len(s) - 1 : t[i] # s[1]
    <3> TAKE i \in 1 .. Len(s) - 1
    <3>1. i + 1 \in 1 .. Len(s) /\ 1 \in 1 .. Len(s) /\ i + 1 # 1
      BY <1>1
    <3> QED BY <1>1, <2>1, <3>1
  <2> QED BY <1>1, <2>2, <2>3 DEF Distinct, Elements
<1> QED BY <1>1, <1>2, <1>3 DEF t

\* What is selected last of a list whose last elements are all selected.
LEMMA LastAreKept ==
  ASSUME NEW S, NEW s \in Seq(S), NEW T, NEW k \in 0 .. Len(s),
         \A i \in Len(s) - k + 1 .. Len(s) : s[i] \in T
  PROVE  /\ k <= Len(Among(s, T))
         /\ \A j \in 0 .. k - 1 : Among(s, T)[Len(Among(s, T)) - j] = s[Len(s) - j]
<1> DEFINE Last(t, m) ==
             (\A i \in Len(t) - m + 1 .. Len(t) : t[i] \in T) =>
               /\ m <= Len(Among(t, T))
               /\ \A j \in 0 .. m - 1 : Among(t, T)[Len(Among(t, T)) - j] = t[Len(t) - j]
           P == {t \in Seq(S) : \A m \in 0 .. Len(t) : Last(t, m)}
<1>0. \A t \in Seq(S) : Among(t, T) \in Seq(S) /\ Len(Among(t, T)) \in Nat
  BY AmongType, LenProperties
<1>1. <<>> \in P
  <2>1. <<>> \in Seq(S) /\ Len(<<>>) = 0
    BY EmptySeq
  <2> QED BY <1>0, <2>1
<1>2. ASSUME NEW t \in Seq(S), NEW e \in S, t \in P PROVE Append(t, e) \in P
  <2> DEFINE u == Append(t, e)
             a == Among(t, T)
             b == Among(u, T)
  <2>1. /\ u \in Seq(S) /\ Len(u) = Len(t) + 1 /\ u[Len(t) + 1] = e /\ Len(t) \in Nat
        /\ \A i \in 1 .. Len(t) : u[i] = t[i]
    BY AppendProperties
  <2>2. b = IF e \in T THEN Append(a, e) ELSE a
    BY AmongAppend
  <2>3. a \in Seq(S) /\ Len(a) \in Nat /\ b \in Seq(S) /\ Len(b) \in Nat
    BY <1>0, <2>1
  <2>4. \A m \in 0 .. Len(t) : (\A i \in Len(t) - m + 1 .. Len(t) : t[i] \in T) =>
               m <= Len(a) /\ \A j \in 0 .. m - 1 : a[Len(a) - j] = t[Len(t) - j]
    BY <1>2
  <2> HIDE DEF u, a, b
  <2> SUFFICES ASSUME NEW m \in 0 .. Len(u), \A i \in Len(u) - m + 1 .. Len(u) : u[i] \in T
               PROVE  m <= Len(b) /\ \A j \in 0 .. m - 1 : b[Len(b) - j] = u[Len(u) - j]
    BY <2>1 DEF u, b
  <2>5. CASE m = 0
    BY <2>1, <2>3, <2>5
  <2>6. CASE m # 0
    <3>1. m - 1 \in 0 .. Len(t)
      BY <2>1, <2>6
    <3>2. e \in T
      <4>1. Len(t) + 1 \in Len(u) - m + 1 .. Len(u)
        BY <2>1, <2>6
      <4> QED BY <2>1, <4>1
    <3>3. \A i \in Len(t) - (m - 1) + 1 .. Len(t) : t[i] \in T
      <4> TAKE i \in Len(t) - (m - 1) + 1 .. Len(t)
      <4>1. i \in Len(u) - m + 1 .. Len(u) /\ i \in 1 .. Len(t)
        BY <2>1, <2>6
      <4> QED BY <2>1, <4>1
    <3>4. m - 1 <= Len(a) /\ \A j \in 0 .. (m - 1) - 1 : a[Len(a) - j] = t[Len(t) - j]
      BY <2>4, <3>1, <3>3
    <3>5. Len(b) = Len(a) + 1 /\ b[Len(a) + 1] = e /\ \A i \in 1 .. Len(a) : b[i] = a[i]
      BY <2>2, <2>3, <3>2, AppendProperties
    <3>6. ASSUME NEW j \in 0 .. m - 1 PROVE b[Len(b) - j] = u[Len(u) - j]
      <4>1. CASE j = 0
        BY <2>1, <2>3, <3>5, <4>1
      <4>2. CASE j \in 1 .. m - 1
        <5>1. j - 1 \in 0 .. (m - 1) - 1 /\ Len(b) - j = Len(a) - (j - 1) /\ Len(u) - j = Len(t) - (j - 1)
              /\ Len(a) - (j - 1) \in 1 .. Len(a) /\ Len(t) - (j - 1) \in 1 .. Len(t)
          BY <2>1, <2>3, <3>1, <3>4, <3>5, <4>2
        <5>2. a[Len(a) - (j - 1)] = t[Len(t) - (j - 1)]
          BY <3>4, <5>1
        <5> QED BY <2>1, <3>5, <5>1, <5>2
      <4> QED BY <4>1, <4>2
    <3> QED BY <2>3, <3>4, <3>5, <3>6
  <2> QED BY <2>5, <2>6
<1> HIDE DEF P
<1>3. s \in P
  BY <1>1, <1>2, SeqInduction
<1> QED BY <1>3 DEF P

-----------------------------------------------------------------------------
(* Total. *)

\* The loop behind Total.
Sums(s, sum) == sum[0] = 0 /\ \A n \in 1 .. Len(s) : sum[n] = sum[n - 1] + s[n]

\* Total is what its loop comes to in the end.
LEMMA TotalLoop ==
  ASSUME NEW s \in Seq(Int)
  PROVE  \E sum \in [0 .. Len(s) -> Int] : Sums(s, sum) /\ Total(s) = sum[Len(s)]
<1> DEFINE step == [i \in 1 .. Len(s) |-> [t \in Int |-> t + s[i]]]
           loop == CHOOSE sum : sum = [n \in 0 .. Len(s) |-> IF n = 0 THEN 0 ELSE sum[n - 1] + s[n]]
<1>1. step \in [1 .. Len(s) -> [Int -> Int]] /\ Len(s) \in Nat /\ 0 \in Int
  OBVIOUS
<1>2. PICK f \in [0 .. Len(s) -> Int] : f[0] = 0 /\ \A i \in 1 .. Len(s) : f[i] = step[i][f[i - 1]]
  <2> HIDE DEF step, loop
  <2>1. \E f : IsLoop(f, Len(s), Int, 0, step)
    BY <1>1, Recursion
  <2> QED BY <2>1 DEF IsLoop
<1>3. \A i \in 1 .. Len(s) : f[i] = f[i - 1] + s[i]
  <2> TAKE i \in 1 .. Len(s)
  <2>1. f[i - 1] \in Int
    OBVIOUS
  <2> QED BY <1>2, <2>1
<1>4. f = [n \in 0 .. Len(s) |-> IF n = 0 THEN 0 ELSE f[n - 1] + s[n]]
  <2> HIDE DEF step, loop
  <2>1. \A n \in 0 .. Len(s) : f[n] = IF n = 0 THEN 0 ELSE f[n - 1] + s[n]
    <3> TAKE n \in 0 .. Len(s)
    <3>1. CASE n = 0
      BY <1>2, <3>1
    <3>2. CASE n \in 1 .. Len(s)
      <4>1. n # 0
        BY <3>2
      <4> QED BY <1>3, <3>2, <4>1, Zenon
    <3> QED BY <3>1, <3>2
  <2> QED BY <2>1
<1>5. loop = [n \in 0 .. Len(s) |-> IF n = 0 THEN 0 ELSE loop[n - 1] + s[n]]
  BY <1>4, Zenon
<1>6. Total(s) = loop[Len(s)]
  BY Zenon DEF Total
<1>7. loop[0] = 0
  <2> HIDE DEF loop
  <2> QED BY <1>5
<1>8. \A n \in 1 .. Len(s) : loop[n] = loop[n - 1] + s[n]
  <2> HIDE DEF loop
  <2>1. \A n \in 0 .. Len(s) : loop[n] = IF n = 0 THEN 0 ELSE loop[n - 1] + s[n]
    BY <1>5, Zenon
  <2> QED BY <2>1
<1>9. loop \in [0 .. Len(s) -> Int]
  <2> HIDE DEF loop
  <2> DEFINE N == {n \in Nat : n <= Len(s) => loop[n] \in Int}
  <2>1. 0 \in N
    BY <1>7
  <2>2. ASSUME NEW n \in Nat, n \in N PROVE n + 1 \in N
    <3> SUFFICES ASSUME n + 1 <= Len(s) PROVE loop[n + 1] \in Int
      OBVIOUS
    <3>1. loop[n] \in Int /\ s[n + 1] \in Int
      BY <2>2, ElementOfSeq
    <3>2. loop[n + 1] = loop[n] + s[n + 1]
      BY <1>8
    <3> QED BY <3>1, <3>2
  <2> HIDE DEF N
  <2>3. Nat \subseteq N
    BY <2>1, <2>2, Induction
  <2>4. \A n \in 0 .. Len(s) : loop[n] \in Int
    BY <2>3 DEF N
  <2> QED BY <1>5, <2>4
<1> HIDE DEF loop
<1> QED BY <1>6, <1>7, <1>8, <1>9 DEF Sums

\* The total of nothing.
LEMMA TotalEmpty == Total(<<>>) = 0
<1>1. <<>> \in Seq(Int) /\ Len(<<>>) = 0
  OBVIOUS
<1> QED BY <1>1, TotalLoop DEF Sums

\* The total of natural numbers is one.
LEMMA TotalNat ==
  ASSUME NEW s \in Seq(Nat)
  PROVE  Total(s) \in Nat
<1>1. s \in Seq(Int)
  OBVIOUS
<1>2. PICK f \in [0 .. Len(s) -> Int] : Sums(s, f) /\ Total(s) = f[Len(s)]
  BY <1>1, TotalLoop
<1> DEFINE N == {n \in Nat : n <= Len(s) => f[n] \in Nat}
<1>3. 0 \in N
  BY <1>2 DEF Sums
<1>4. ASSUME NEW n \in Nat, n \in N PROVE n + 1 \in N
  <2> SUFFICES ASSUME n + 1 <= Len(s) PROVE f[n + 1] \in Nat
    OBVIOUS
  <2>1. f[n] \in Nat /\ s[n + 1] \in Nat /\ n + 1 \in 1 .. Len(s) /\ (n + 1) - 1 = n
    BY <1>4, ElementOfSeq
  <2>2. f[n + 1] = f[n] + s[n + 1]
    BY <1>2, <2>1 DEF Sums
  <2> QED BY <2>1, <2>2
<1> HIDE DEF N
<1>5. Len(s) \in N
  BY <1>3, <1>4, Induction
<1> QED BY <1>2, <1>5 DEF N

-----------------------------------------------------------------------------
(* A list that is not empty has a first greatest element. *)

\* best is the place of the first greatest of f[1..n].
FirstGreatest(f, n, best) ==
  best \in 1 .. n /\ \A i \in 1 .. n : f[i] < f[best] \/ (f[i] = f[best] /\ best <= i)

\* There is one among the values of f at 1..n, n > 0.
LEMMA FirstGreatestExists ==
  ASSUME NEW n \in Nat \ {0}, NEW f, \A i \in 1 .. n : f[i] \in Int
  PROVE  \E best \in 1 .. n : FirstGreatest(f, n, best)
<1> DEFINE K == {k \in Nat : 1 <= k /\ k <= n => \E best \in 1 .. k : FirstGreatest(f, k, best)}
<1>1. 0 \in K
  OBVIOUS
<1>2. ASSUME NEW k \in Nat, k \in K PROVE k + 1 \in K
  <2> SUFFICES ASSUME k + 1 <= n PROVE \E best \in 1 .. k + 1 : FirstGreatest(f, k + 1, best)
    OBVIOUS
  <2>1. CASE k = 0
    BY <2>1 DEF FirstGreatest
  <2>2. CASE k # 0
    <3>1. PICK b \in 1 .. k : FirstGreatest(f, k, b)
      BY <1>2, <2>2
    <3>2. f[b] \in Int /\ f[k + 1] \in Int
      OBVIOUS
    <3>3. CASE f[k + 1] > f[b]
      <4>1. FirstGreatest(f, k + 1, k + 1)
        BY <3>1, <3>2, <3>3 DEF FirstGreatest
      <4> QED BY <4>1
    <3>4. CASE f[k + 1] <= f[b]
      <4>1. FirstGreatest(f, k + 1, b)
        BY <3>1, <3>2, <3>4 DEF FirstGreatest
      <4> QED BY <4>1
    <3> QED BY <3>2, <3>3, <3>4
  <2> QED BY <2>1, <2>2
<1> HIDE DEF K
<1>3. n \in K
  BY <1>1, <1>2, Induction
<1> QED BY <1>3 DEF K

-----------------------------------------------------------------------------
(* The numbers after a up to b. *)

Span(a, b) == [i \in 1 .. b - a |-> a + i]

\* They are the numbers they should be.
LEMMA SpanType ==
  ASSUME NEW a \in Nat, NEW b \in Nat, a <= b
  PROVE  /\ Span(a, b) \in Seq(a + 1 .. b) /\ Span(a, b) \in Seq(Nat)
         /\ Len(Span(a, b)) = b - a
         /\ \A i \in 1 .. b - a : Span(a, b)[i] = a + i
<1>1. b - a \in Nat /\ Span(a, b) \in [1 .. b - a -> a + 1 .. b]
  BY DEF Span
<1>2. Span(a, b) \in Seq(a + 1 .. b)
  BY <1>1, SeqDef
<1>3. Len(Span(a, b)) = b - a
  BY <1>1, <1>2, LenProperties DEF Span
<1>4. a + 1 .. b \subseteq Nat
  OBVIOUS
<1>5. Span(a, b) \in Seq(Nat)
  BY <1>2, <1>4, InMore
<1> QED BY <1>2, <1>3, <1>5 DEF Span

\* Those up to b and one more; none, if there are none.
LEMMA SpanAppend ==
  ASSUME NEW a \in Nat, NEW b \in Nat, a <= b
  PROVE  Span(a, b + 1) = Append(Span(a, b), b + 1) /\ Span(a, a) = <<>>
<1>1. Span(a, b) \in Seq(Nat) /\ Len(Span(a, b)) = b - a /\ \A i \in 1 .. b - a : Span(a, b)[i] = a + i
  BY SpanType
<1> DEFINE l == Append(Span(a, b), b + 1)
<1>2. /\ l \in Seq(Nat) /\ Len(l) = (b - a) + 1 /\ l[(b - a) + 1] = b + 1
      /\ \A i \in 1 .. b - a : l[i] = Span(a, b)[i]
  BY <1>1, AppendProperties
<1>3. DOMAIN l = 1 .. (b - a) + 1
  BY <1>2, LenProperties
<1> HIDE DEF l
<1>4. \A i \in 1 .. (b - a) + 1 : l[i] = a + i
  <2> TAKE i \in 1 .. (b - a) + 1
  <2>1. CASE i \in 1 .. b - a
    BY <1>1, <1>2, <2>1
  <2>2. CASE i = (b - a) + 1
    BY <1>2, <2>2
  <2> QED BY <2>1, <2>2
<1>5. l = [i \in 1 .. (b + 1) - a |-> a + i]
  <2>1. 1 .. (b + 1) - a = 1 .. (b - a) + 1
    OBVIOUS
  <2>2. l = [i \in 1 .. (b - a) + 1 |-> l[i]]
    BY <1>2, <1>3
  <2> QED BY <1>4, <2>1, <2>2
<1>6. Span(a, a) = <<>>
  <2>1. Span(a, a) \in Seq(Nat) /\ Len(Span(a, a)) = 0
    BY SpanType
  <2> QED BY <2>1, EmptySeq
<1> QED BY <1>5, <1>6 DEF l, Span

\* Those up to b, and those from there on.
LEMMA SpanConcat ==
  ASSUME NEW a \in Nat, NEW b \in Nat, a <= b, NEW c \in Nat, b <= c
  PROVE  Span(a, b) \o Span(b, c) = Span(a, c)
<1> DEFINE N == {d \in Nat : Span(a, b) \o Span(b, b + d) = Span(a, b + d)}
<1>0. Span(a, b) \in Seq(Nat)
  BY SpanType
<1>1. 0 \in N
  <2>1. Span(b, b) = <<>> /\ b + 0 = b
    BY SpanAppend
  <2>2. Span(a, b) \o <<>> = Span(a, b)
    BY <1>0, ConcatEmptySeq
  <2> QED BY <2>1, <2>2
<1>2. ASSUME NEW d \in Nat, d \in N PROVE d + 1 \in N
  <2>1. /\ Span(b, (b + d) + 1) = Append(Span(b, b + d), (b + d) + 1)
        /\ Span(a, (b + d) + 1) = Append(Span(a, b + d), (b + d) + 1)
    <3>1. b + d \in Nat /\ b <= b + d /\ a <= b + d
      OBVIOUS
    <3> QED BY <3>1, SpanAppend
  <2>2. Span(b, b + d) \in Seq(Nat) /\ (b + d) + 1 \in Nat
    <3>1. b + d \in Nat /\ b <= b + d
      OBVIOUS
    <3> QED BY <3>1, SpanType
  <2>3. Span(a, b) \o Append(Span(b, b + d), (b + d) + 1)
          = Append(Span(a, b) \o Span(b, b + d), (b + d) + 1)
    <3> DEFINE s == Span(a, b)
               t == Span(b, b + d)
               e == (b + d) + 1
    <3>1. s \in Seq(Nat) /\ t \in Seq(Nat) /\ e \in Nat
      BY <1>0, <2>2
    <3> HIDE DEF s, t, e
    <3>2. s \o Append(t, e) = Append(s \o t, e)
      BY <3>1
    <3> QED BY <3>2 DEF s, t, e
  <2>4. (b + d) + 1 = b + (d + 1)
    OBVIOUS
  <2>5. Span(a, b) \o Span(b, b + (d + 1)) = Append(Span(a, b) \o Span(b, b + d), (b + d) + 1)
    BY <2>1, <2>3, <2>4, Zenon
  <2>6. Span(a, b) \o Span(b, b + d) = Span(a, b + d)
    BY <1>2
  <2>7. Span(a, b) \o Span(b, b + (d + 1)) = Span(a, b + (d + 1))
    BY <2>1, <2>4, <2>5, <2>6, Zenon
  <2> QED BY <2>7
<1> HIDE DEF N
<1>3. c - b \in N
  BY <1>1, <1>2, Induction
<1> QED BY <1>3 DEF N

\* What is selected of the numbers up to b ends with the last that is: it is what
\* is selected up to there.
LEMMA AmongSpan ==
  ASSUME NEW a \in Nat, NEW b \in Nat, a <= b, NEW T
  PROVE  LET ns == Among(Span(a, b), T) IN
         /\ ns \in Seq(Nat)
         /\ ns # <<>> => ns[Len(ns)] \in a + 1 .. b /\ ns = Among(Span(a, ns[Len(ns)]), T)
<1> DEFINE S(d) == Among(Span(a, a + d), T)
           N == {d \in Nat : S(d) # <<>> => S(d)[Len(S(d))] \in a + 1 .. a + d
                                            /\ S(d) = Among(Span(a, S(d)[Len(S(d))]), T)}
<1>0. \A d \in Nat : S(d) \in Seq(Nat)
  <2> TAKE d \in Nat
  <2>1. a + d \in Nat /\ a <= a + d
    OBVIOUS
  <2>2. Span(a, a + d) \in Seq(Nat)
    BY <2>1, SpanType
  <2> QED BY <2>2, AmongType
<1>1. 0 \in N
  BY SpanAppend, AmongEmpty
<1>2. ASSUME NEW d \in Nat, d \in N PROVE d + 1 \in N
  <2>1. Span(a, a + d) \in Seq(Nat) /\ Span(a, (a + d) + 1) = Append(Span(a, a + d), (a + d) + 1)
    <3>1. a + d \in Nat /\ a <= a + d
      OBVIOUS
    <3> QED BY <3>1, SpanType, SpanAppend
  <2>2. S(d + 1) = IF (a + d) + 1 \in T THEN Append(S(d), (a + d) + 1) ELSE S(d)
    <3>1. (a + d) + 1 = a + (d + 1) /\ (a + d) + 1 \in Nat
      OBVIOUS
    <3>2. Among(Append(Span(a, a + d), (a + d) + 1), T) =
            IF (a + d) + 1 \in T THEN Append(S(d), (a + d) + 1) ELSE S(d)
      <4> DEFINE t == Span(a, a + d)
                 e == (a + d) + 1
      <4>1. t \in Seq(Nat) /\ e \in Nat
        BY <2>1, <3>1
      <4> HIDE DEF t, e
      <4>2. Among(Append(t, e), T) = IF e \in T THEN Append(Among(t, T), e) ELSE Among(t, T)
        BY <4>1, AmongAppend
      <4> QED BY <4>2 DEF t, e
    <3> QED BY <2>1, <3>1, <3>2, Zenon
  <2>3. S(d) \in Seq(Nat)
    BY <1>0
  <2>4. CASE (a + d) + 1 \in T
    <3>1. S(d + 1) = Append(S(d), (a + d) + 1)
      BY <2>2, <2>4
    <3> HIDE DEF S
    <3>2. S(d + 1)[Len(S(d + 1))] = (a + d) + 1
      BY <2>3, <3>1, AppendProperties
    <3>3. S(d + 1) = Among(Span(a, a + (d + 1)), T) /\ (a + d) + 1 = a + (d + 1)
      BY DEF S
    <3> QED BY <3>2, <3>3
  <2>5. CASE (a + d) + 1 \notin T
    <3>1. S(d + 1) = S(d)
      BY <2>2, <2>5
    <3> HIDE DEF S
    <3> QED BY <1>2, <3>1
  <2> QED BY <2>4, <2>5
<1>3. Nat \subseteq N
  <2> HIDE DEF N, S
  <2> QED BY <1>1, <1>2, Induction
<1>4. b - a \in Nat /\ a + (b - a) = b
  OBVIOUS
<1>5. b - a \in N /\ S(b - a) \in Seq(Nat)
  BY <1>0, <1>3, <1>4
<1> QED BY <1>4, <1>5
=============================================================================

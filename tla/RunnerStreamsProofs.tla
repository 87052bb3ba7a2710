-------------------------- MODULE RunnerStreamsProofs --------------------------
(***************************************************************************)
(* Proofs about RunnerStreams, for all lines, limits, capacities and any   *)
(* number of background processes.                                         *)
(***************************************************************************)
EXTENDS RunnerStreams, SequenceTheorems, FiniteSetTheorems, WellFoundedInduction, TLAPS

-----------------------------------------------------------------------------
(* Induction, stated over sets: the prefixes and sums the copies are made of *)
(* are defined by recursion on the number of characters or of lines.         *)

\* The order of the naturals, as a relation.
Below == {pair \in Nat \X Nat : pair[1] < pair[2]}

\* A set of naturals has a least element.
LEMMA MinExists ==
    ASSUME NEW T, T \subseteq Nat, T # {}
    PROVE  \E m \in T : \A n \in T : m <= n
<1>1. IsWellFoundedOn(Below, Nat)
  <2>1. Below = OpToRel(<, Nat)
    BY DEF Below, OpToRel
  <2>2. QED
    BY <2>1, NatLessThanWellFounded
<1>2. PICK m \in T : \A n \in T : ~ (<<n, m>> \in Below)
    BY <1>1, WFMin
<1>3. ASSUME NEW n \in T
      PROVE  m <= n
  <2>1. m \in Nat /\ n \in Nat
    OBVIOUS
  <2>2. n < m => <<n, m>> \in Below
    BY <2>1 DEF Below
  <2>3. QED
    BY <1>2, <2>1, <2>2
<1>4. QED
    BY <1>3

\* A bounded set of naturals has a greatest element.
LEMMA MaxExists ==
    ASSUME NEW k \in Nat, NEW T, T \subseteq 0 .. k, T # {}
    PROVE  Max(T) \in T /\ \A n \in T : n <= Max(T)
<1> DEFINE U == {m \in 0 .. k : k - m \in T}
<1>1. U \subseteq Nat
    OBVIOUS
<1>2. \A n \in T : k - n \in U
  <2>1. ASSUME NEW n \in T
        PROVE  k - n \in U
    <3>1. n \in 0 .. k /\ k - n \in 0 .. k /\ k - (k - n) = n
      OBVIOUS
    <3>2. QED
      BY <3>1
  <2>2. QED
    BY <2>1
<1>3. U # {}
    BY <1>2
<1>4. PICK u \in U : \A v \in U : u <= v
    BY <1>1, <1>3, MinExists
<1>5. k - u \in T /\ u \in 0 .. k
    OBVIOUS
<1>6. ASSUME NEW n \in T
      PROVE  k - u >= n
  <2>1. u <= k - n /\ n \in 0 .. k
    BY <1>2, <1>4
  <2>2. QED
    BY <1>5, <2>1
<1>7. \E x \in T : \A y \in T : x >= y
    BY <1>5, <1>6
<1>8. Max(T) \in T /\ \A y \in T : Max(T) >= y
    BY <1>7 DEF Max
<1>9. QED
  <2>1. ASSUME NEW n \in T
        PROVE  n <= Max(T)
    <3>1. n \in 0 .. k /\ Max(T) \in 0 .. k /\ Max(T) >= n
      BY <1>8
    <3>2. QED
      BY <3>1
  <2>2. QED
    BY <1>8, <2>1

\* A set that has 0, and the successor of what it has, has all.
LEMMA Induct ==
    ASSUME NEW k \in Nat, NEW T, 0 \in T, \A n \in 1 .. k : n - 1 \in T => n \in T
    PROVE  \A n \in 0 .. k : n \in T
<1> DEFINE U == (0 .. k) \ T
<1>1. SUFFICES ASSUME U # {}
               PROVE  FALSE
    OBVIOUS
<1>2. U \subseteq Nat
    OBVIOUS
<1>3. PICK m \in U : \A n \in U : m <= n
    BY <1>1, <1>2, MinExists
<1>4. m \in 1 .. k /\ m - 1 \in 0 .. k /\ m \notin T
    OBVIOUS
<1>5. m - 1 \in T
    BY <1>3, <1>4
<1>6. QED
    BY <1>4, <1>5

\* What a recursive definition on the numbers up to k goes by, from one value to the
\* next, and the function it defines.
Steps(S, k) == [S \X (1 .. k) -> S]

Built(S, base, step, k, f) ==
    /\ f \in [0 .. k -> S]
    /\ f[0] = base
    /\ \A n \in 1 .. k : f[n] = step[<<f[n - 1], n>>]

\* A function can be defined by recursion on the numbers up to k.
LEMMA Recursion ==
    ASSUME NEW S, NEW base \in S, NEW k \in Nat, NEW step \in Steps(S, k)
    PROVE  \E f : Built(S, base, step, k, f)
<1> DEFINE T == {m \in 0 .. k : \E f : Built(S, base, step, m, f)}
<1>1. 0 \in T
  <2>1. Built(S, base, step, 0, [n \in 0 .. 0 |-> base])
    BY DEF Built
  <2>2. QED
    BY <2>1
<1>2. ASSUME NEW m \in 1 .. k, m - 1 \in T
      PROVE  m \in T
  <2>1. PICK f : Built(S, base, step, m - 1, f)
    BY <1>2
  <2> DEFINE g == [n \in 0 .. m |-> IF n = m THEN step[<<f[m - 1], m>>] ELSE f[n]]
  <2>2. f[m - 1] \in S /\ <<f[m - 1], m>> \in S \X (1 .. k)
    BY <2>1 DEF Built
  <2>3. step[<<f[m - 1], m>>] \in S
    BY <2>2 DEF Steps
  <2>4. \A n \in 0 .. m - 1 : n \in 0 .. m /\ n # m /\ g[n] = f[n] /\ f[n] \in S
    BY <2>1 DEF Built
  <2>5. \A n \in 0 .. m : n = m \/ n \in 0 .. m - 1
    OBVIOUS
  <2>6. g = [n \in 0 .. m |-> g[n]] /\ g[m] = step[<<f[m - 1], m>>]
    OBVIOUS
  <2> HIDE DEF g
  <2>7. \A n \in 0 .. m : g[n] \in S
    BY <2>3, <2>4, <2>5, <2>6
  <2>8. g \in [0 .. m -> S]
    BY <2>6, <2>7
  <2>9. g[0] = base
    BY <2>1, <2>4 DEF Built
  <2>10. ASSUME NEW n \in 1 .. m
        PROVE  g[n] = step[<<g[n - 1], n>>]
    <3>1. n - 1 \in 0 .. m - 1
      OBVIOUS
    <3>2. g[n - 1] = f[n - 1]
      BY <2>4, <3>1
    <3>3. CASE n = m
      BY <2>6, <3>2, <3>3
    <3>4. CASE n # m
      <4>1. n \in 1 .. m - 1 /\ n \in 0 .. m - 1
        BY <3>4
      <4>2. f[n] = step[<<f[n - 1], n>>]
        BY <2>1, <4>1 DEF Built
      <4>3. QED
        BY <2>4, <3>2, <4>1, <4>2
    <3>5. QED
      BY <3>3, <3>4
  <2>11. Built(S, base, step, m, g)
    BY <2>8, <2>9, <2>10 DEF Built
  <2>12. QED
    BY <2>11
<1> HIDE DEF T
<1>3. \A n \in 0 .. k : n \in T
    BY <1>1, <1>2, Induct
<1>4. QED
    BY <1>3 DEF T

-----------------------------------------------------------------------------
(* Bytes and characters. *)

Widths == 1 .. 4

\* A widths' sequence is a sequence of numbers.
LEMMA WidthsFacts ==
    ASSUME NEW c \in Seq(Widths)
    PROVE  /\ Len(c) \in Nat
           /\ \A n \in 1 .. Len(c) : c[n] \in Nat \ {0}
    BY LenProperties, ElementOfSeq DEF Widths

\* The bytes of the first characters are what their recursion says.
LEMMA BytesSum ==
    ASSUME NEW c \in Seq(Widths)
    PROVE  /\ Bytes(c) \in [0 .. Len(c) -> Nat]
           /\ Bytes(c)[0] = 0
           /\ \A n \in 1 .. Len(c) : Bytes(c)[n] = Bytes(c)[n - 1] + c[n]
<1> DEFINE step == [pair \in Nat \X (1 .. Len(c)) |-> pair[1] + c[pair[2]]]
           Sums(f) == f = [n \in 0 .. Len(c) |-> IF n = 0 THEN 0 ELSE f[n - 1] + c[n]]
<1>1. /\ Len(c) \in Nat
      /\ \A n \in 1 .. Len(c) : c[n] \in Nat \ {0}
    BY WidthsFacts
<1> DEFINE S == Nat
           k == Len(c)
           zero == 0
<1>2. step \in Steps(S, k) /\ zero \in S /\ k \in Nat
    BY <1>1 DEF Steps
<1>3. \A m \in Nat, n \in 1 .. Len(c) : step[<<m, n>>] = m + c[n]
    OBVIOUS
<1> HIDE DEF step, S, k, zero
<1>4. \E f : Built(S, zero, step, k, f)
    BY <1>2, Recursion
<1>5. PICK f \in [0 .. Len(c) -> Nat] :
            /\ f[0] = 0
            /\ \A n \in 1 .. Len(c) : f[n] = step[<<f[n - 1], n>>]
    BY <1>4 DEF Built, S, k, zero
<1>6. Sums(f)
  <2>1. ASSUME NEW n \in 0 .. Len(c)
        PROVE  f[n] = IF n = 0 THEN 0 ELSE f[n - 1] + c[n]
    <3>1. CASE n = 0
      BY <1>5, <3>1
    <3>2. CASE n # 0
      <4>1. n \in 1 .. Len(c) /\ n - 1 \in 0 .. Len(c)
        BY <1>1, <3>2
      <4>2. f[n - 1] \in Nat
        BY <4>1
      <4>3. QED
        BY <1>3, <1>5, <3>2, <4>1, <4>2
    <3>3. QED
      BY <3>1, <3>2
  <2>2. QED
    BY <2>1
<1>7. Bytes(c) = CHOOSE g : Sums(g)
    BY DEF Bytes
<1> HIDE DEF Sums
<1>8. Sums(Bytes(c))
    BY <1>6, <1>7
<1> DEFINE b == Bytes(c)
           T == {n \in 0 .. Len(c) : b[n] = f[n]}
<1>9. b = [n \in 0 .. Len(c) |-> IF n = 0 THEN 0 ELSE b[n - 1] + c[n]]
    BY <1>8 DEF Sums
<1> HIDE DEF b
<1>10. 0 \in T
    BY <1>1, <1>5, <1>9
<1>11. ASSUME NEW n \in 1 .. Len(c), n - 1 \in T
       PROVE  n \in T
  <2>1. n \in 0 .. Len(c) /\ n # 0 /\ b[n - 1] = f[n - 1] /\ f[n - 1] \in Nat
    BY <1>11
  <2>2. b[n] = b[n - 1] + c[n]
    BY <1>9, <2>1
  <2>3. f[n] = f[n - 1] + c[n]
    BY <1>3, <1>5, <2>1
  <2>4. QED
    BY <2>1, <2>2, <2>3
<1> HIDE DEF T
<1>12. \A n \in 0 .. Len(c) : n \in T
    BY <1>1, <1>10, <1>11, Induct
<1>13. b = f
    BY <1>9, <1>12 DEF T
<1>14. \A n \in 1 .. Len(c) : f[n] = f[n - 1] + c[n]
  <2>1. \A n \in 1 .. Len(c) : n - 1 \in 0 .. Len(c)
    BY <1>1
  <2>2. QED
    BY <1>3, <1>5, <2>1
<1>15. QED
    BY <1>5, <1>13, <1>14 DEF b

\* More characters have more bytes.
LEMMA BytesGrow ==
    ASSUME NEW c \in Seq(Widths), NEW m \in 0 .. Len(c), NEW n \in 0 .. Len(c), m < n
    PROVE  Bytes(c)[m] < Bytes(c)[n]
<1> DEFINE b == Bytes(c)
           T == {k \in 0 .. Len(c) : m < k => b[m] < b[k]}
<1>1. /\ Len(c) \in Nat
      /\ \A k \in 1 .. Len(c) : c[k] \in Nat \ {0}
    BY WidthsFacts
<1>2. /\ b \in [0 .. Len(c) -> Nat]
      /\ \A k \in 1 .. Len(c) : b[k] = b[k - 1] + c[k]
    BY BytesSum
<1> HIDE DEF b
<1>3. 0 \in T
    BY <1>1
<1>4. ASSUME NEW k \in 1 .. Len(c), k - 1 \in T
      PROVE  k \in T
  <2>1. k \in 0 .. Len(c) /\ k - 1 \in 0 .. Len(c) /\ (m < k - 1 => b[m] < b[k - 1])
    BY <1>4
  <2>2. b[k] \in Nat /\ b[k - 1] \in Nat /\ b[m] \in Nat /\ c[k] \in Nat \ {0}
    BY <1>1, <1>2, <2>1
  <2>3. b[k - 1] < b[k]
    BY <1>2, <2>2
  <2>4. m < k => m = k - 1 \/ m < k - 1
    BY <2>1
  <2>5. m < k => b[m] < b[k]
    BY <2>1, <2>2, <2>3, <2>4
  <2>6. QED
    BY <2>1, <2>5
<1> HIDE DEF T
<1>5. \A k \in 0 .. Len(c) : k \in T
    BY <1>1, <1>3, <1>4, Induct
<1>6. QED
    BY <1>5 DEF T, b

\* The bytes of one text after another.
LEMMA BytesConcat ==
    ASSUME NEW c \in Seq(Widths), NEW d \in Seq(Widths)
    PROVE  /\ \A n \in 0 .. Len(c) : Bytes(c \o d)[n] = Bytes(c)[n]
           /\ \A n \in 0 .. Len(d) : Bytes(c \o d)[Len(c) + n] = Total(c) + Bytes(d)[n]
<1> DEFINE e == c \o d
           b == Bytes(c)
           bd == Bytes(d)
           be == Bytes(e)
<1>1. Len(c) \in Nat /\ Len(d) \in Nat
    BY WidthsFacts
<1>2. /\ e \in Seq(Widths) /\ Len(e) = Len(c) + Len(d)
      /\ \A i \in 1 .. Len(c) + Len(d) : e[i] = IF i <= Len(c) THEN c[i] ELSE d[i - Len(c)]
    BY ConcatProperties
<1>3. /\ b \in [0 .. Len(c) -> Nat] /\ b[0] = 0
      /\ \A n \in 1 .. Len(c) : b[n] = b[n - 1] + c[n]
    BY BytesSum
<1>4. /\ bd \in [0 .. Len(d) -> Nat] /\ bd[0] = 0
      /\ \A n \in 1 .. Len(d) : bd[n] = bd[n - 1] + d[n]
    BY BytesSum
<1> HIDE DEF e
<1>5. /\ be \in [0 .. Len(e) -> Nat] /\ be[0] = 0
      /\ \A n \in 1 .. Len(e) : be[n] = be[n - 1] + e[n]
    BY <1>2, BytesSum
<1> HIDE DEF b, bd, be
<1> DEFINE T == {n \in 0 .. Len(c) : be[n] = b[n]}
           U == {n \in 0 .. Len(d) : be[Len(c) + n] = b[Len(c)] + bd[n]}
<1>6. 0 \in T
    BY <1>1, <1>3, <1>5
<1>7. ASSUME NEW n \in 1 .. Len(c), n - 1 \in T
      PROVE  n \in T
  <2>1. n \in 1 .. Len(e) /\ n <= Len(c) /\ n \in 1 .. Len(c) + Len(d)
    BY <1>1, <1>2
  <2>2. be[n] = be[n - 1] + e[n] /\ e[n] = c[n]
    BY <1>2, <1>5, <2>1
  <2>3. QED
    BY <1>3, <1>7, <2>2
<1> HIDE DEF T
<1>8. \A n \in 0 .. Len(c) : n \in T
    BY <1>1, <1>6, <1>7, Induct
<1>9. be[Len(c)] = b[Len(c)] /\ b[Len(c)] \in Nat
    BY <1>1, <1>3, <1>8 DEF T
<1>10. 0 \in U
    BY <1>1, <1>4, <1>9
<1>11. ASSUME NEW n \in 1 .. Len(d), n - 1 \in U
       PROVE  n \in U
  <2>1. /\ Len(c) + n \in 1 .. Len(e) /\ ~(Len(c) + n <= Len(c))
        /\ Len(c) + n \in 1 .. Len(c) + Len(d) /\ Len(c) + n - Len(c) = n
        /\ Len(c) + n - 1 = Len(c) + (n - 1)
    BY <1>1, <1>2
  <2>2. e[Len(c) + n] = d[n]
    BY <1>2, <2>1
  <2>3. be[Len(c) + n] = be[Len(c) + (n - 1)] + d[n]
    BY <1>5, <2>1, <2>2
  <2>4. be[Len(c) + (n - 1)] = b[Len(c)] + bd[n - 1]
    BY <1>11
  <2>5. bd[n - 1] \in Nat /\ d[n] \in Nat /\ bd[n] = bd[n - 1] + d[n]
    <3>1. n - 1 \in 0 .. Len(d)
      BY <1>1
    <3>2. d[n] \in Nat
      BY WidthsFacts
    <3>3. QED
      BY <1>4, <3>1, <3>2
  <2>6. be[Len(c) + n] = b[Len(c)] + bd[n]
    BY <1>9, <2>3, <2>4, <2>5
  <2>7. QED
    BY <2>6
<1> HIDE DEF U
<1>12. \A n \in 0 .. Len(d) : n \in U
    BY <1>1, <1>10, <1>11, Induct
<1>13. QED
    BY <1>8, <1>12 DEF T, U, e, b, bd, be, Total

\* How many characters fit: no more than there are, and no one more would.
LEMMA FittingIs ==
    ASSUME NEW c \in Seq(Widths), NEW room \in Nat
    PROVE  /\ Fitting(c, room) \in 0 .. Len(c)
           /\ Bytes(c)[Fitting(c, room)] <= room
           /\ \A n \in 0 .. Len(c) : Bytes(c)[n] <= room => n <= Fitting(c, room)
<1> DEFINE T == {n \in 0 .. Len(c) : Bytes(c)[n] <= room}
<1>1. Len(c) \in Nat /\ Bytes(c)[0] = 0
    BY WidthsFacts, BytesSum
<1>2. T \subseteq 0 .. Len(c) /\ 0 \in T
    BY <1>1
<1>3. Max(T) \in T /\ \A n \in T : n <= Max(T)
    BY <1>1, <1>2, MaxExists
<1>4. Fitting(c, room) = Max(T)
    BY DEF Fitting
<1>5. QED
    BY <1>3, <1>4

\* The number is told by its own bytes and by those of one character more.
LEMMA FittingUnique ==
    ASSUME NEW c \in Seq(Widths), NEW room \in Nat, NEW n \in 0 .. Len(c),
           Bytes(c)[n] <= room, n < Len(c) => Bytes(c)[n + 1] > room
    PROVE  Fitting(c, room) = n
<1> DEFINE m == Fitting(c, room)
<1>1. Len(c) \in Nat
    BY WidthsFacts
<1>2. m \in 0 .. Len(c) /\ Bytes(c)[m] <= room /\ n <= m
    BY FittingIs
<1> HIDE DEF m
<1>3. CASE n < m
  <2>1. n + 1 \in 0 .. Len(c) /\ n < Len(c) /\ Bytes(c) \in [0 .. Len(c) -> Nat]
    BY <1>1, <1>2, <1>3, BytesSum
  <2>2. n + 1 < m => Bytes(c)[n + 1] < Bytes(c)[m]
    BY <1>2, <2>1, BytesGrow
  <2>3. n + 1 = m \/ n + 1 < m
    BY <1>2, <1>3
  <2>4. Bytes(c)[n + 1] \in Nat /\ Bytes(c)[m] \in Nat /\ Bytes(c)[n + 1] > room
    BY <1>2, <2>1
  <2>5. QED
    BY <1>2, <2>2, <2>3, <2>4
<1>4. QED
    BY <1>2, <1>3 DEF m

\* A text fits as a whole if and only if its total does.
LEMMA FittingWhole ==
    ASSUME NEW c \in Seq(Widths), NEW room \in Nat
    PROVE  /\ Fitting(c, room) = Len(c) <=> Total(c) <= room
           /\ Total(c) \in Nat
<1>1. Len(c) \in Nat /\ Len(c) \in 0 .. Len(c) /\ Bytes(c) \in [0 .. Len(c) -> Nat]
    BY WidthsFacts, BytesSum
<1>2. Total(c) = Bytes(c)[Len(c)] /\ Total(c) \in Nat
    BY <1>1 DEF Total
<1>3. Total(c) <= room => Fitting(c, room) = Len(c)
    BY <1>1, <1>2, FittingUnique
<1>4. Fitting(c, room) = Len(c) => Total(c) <= room
    BY <1>2, FittingIs
<1>5. QED
    BY <1>2, <1>3, <1>4

\* A text that comes after another one, and the room the first one leaves.
LEMMA FittingConcat ==
    ASSUME NEW c \in Seq(Widths), NEW d \in Seq(Widths), NEW room \in Nat
    PROVE  /\ Total(c) <= room =>
                Fitting(c \o d, room) = Len(c) + Fitting(d, room - Total(c))
           /\ ~(Total(c) <= room) => Fitting(c \o d, room) = Fitting(c, room)
           /\ Total(c \o d) = Total(c) + Total(d)
<1> DEFINE e == c \o d
<1>1. /\ Len(c) \in Nat /\ Len(d) \in Nat
      /\ Bytes(c) \in [0 .. Len(c) -> Nat] /\ Bytes(d) \in [0 .. Len(d) -> Nat]
      /\ Bytes(d)[0] = 0 /\ Total(c) = Bytes(c)[Len(c)] /\ Total(c) \in Nat
      /\ Total(d) = Bytes(d)[Len(d)] /\ Total(d) \in Nat
    BY WidthsFacts, BytesSum, FittingWhole DEF Total
<1>2. e \in Seq(Widths) /\ Len(e) = Len(c) + Len(d)
    BY ConcatProperties
<1>3. /\ \A n \in 0 .. Len(c) : Bytes(e)[n] = Bytes(c)[n]
      /\ \A n \in 0 .. Len(d) : Bytes(e)[Len(c) + n] = Total(c) + Bytes(d)[n]
    BY BytesConcat
<1>4. Total(e) = Total(c) + Total(d)
    BY <1>1, <1>2, <1>3 DEF Total
<1> HIDE DEF e
<1>5. ASSUME Total(c) <= room
      PROVE  Fitting(e, room) = Len(c) + Fitting(d, room - Total(c))
  <2> DEFINE n == Fitting(d, room - Total(c))
  <2>1. room - Total(c) \in Nat
    BY <1>1, <1>5
  <2>2. /\ n \in 0 .. Len(d)
        /\ Bytes(d)[n] <= room - Total(c)
        /\ \A m \in 0 .. Len(d) : Bytes(d)[m] <= room - Total(c) => m <= n
    BY <2>1, FittingIs
  <2> HIDE DEF n
  <2>3. Len(c) + n \in 0 .. Len(e) /\ Bytes(d)[n] \in Nat
    <3>1. Len(c) + n \in 0 .. Len(e)
      BY <1>1, <1>2, <2>2
    <3>2. Bytes(d)[n] \in Nat
      BY <1>1, <2>2
    <3>3. QED
      BY <3>1, <3>2
  <2>4. Bytes(e)[Len(c) + n] <= room
    BY <1>1, <1>3, <2>2, <2>3
  <2>5. ASSUME Len(c) + n < Len(e)
        PROVE  Bytes(e)[Len(c) + n + 1] > room
    <3>1. n + 1 \in 0 .. Len(d) /\ ~(n + 1 <= n) /\ Len(c) + n + 1 = Len(c) + (n + 1)
      BY <1>1, <1>2, <2>2, <2>5
    <3>2. ~(Bytes(d)[n + 1] <= room - Total(c)) /\ Bytes(d)[n + 1] \in Nat
      BY <1>1, <2>2, <3>1
    <3>3. Bytes(e)[Len(c) + (n + 1)] = Total(c) + Bytes(d)[n + 1]
      BY <1>3, <3>1
    <3>4. QED
      BY <1>1, <3>1, <3>2, <3>3
  <2>6. Fitting(e, room) = Len(c) + n
    BY <1>2, <2>3, <2>4, <2>5, FittingUnique
  <2>7. QED
    BY <2>6 DEF n
<1>6. ASSUME ~(Total(c) <= room)
      PROVE  Fitting(e, room) = Fitting(c, room)
  <2> DEFINE n == Fitting(c, room)
  <2>1. /\ n \in 0 .. Len(c)
        /\ Bytes(c)[n] <= room
        /\ \A m \in 0 .. Len(c) : Bytes(c)[m] <= room => m <= n
    BY FittingIs
  <2> HIDE DEF n
  <2>2. n # Len(c)
    BY <1>1, <1>6, <2>1
  <2>3. n \in 0 .. Len(e) /\ n + 1 \in 0 .. Len(c) /\ ~(n + 1 <= n)
    BY <1>1, <1>2, <2>1, <2>2
  <2>4. Bytes(e)[n] <= room /\ Bytes(e)[n + 1] > room
    <3>1. Bytes(e)[n] = Bytes(c)[n] /\ Bytes(e)[n + 1] = Bytes(c)[n + 1]
      BY <1>3, <2>1, <2>3
    <3>2. Bytes(c)[n + 1] \in Nat /\ ~(Bytes(c)[n + 1] <= room)
      BY <1>1, <2>1, <2>3
    <3>3. QED
      BY <2>1, <3>1, <3>2
  <2>5. Fitting(e, room) = n
    BY <1>2, <2>3, <2>4, FittingUnique
  <2>6. QED
    BY <2>5 DEF n
<1>7. QED
    BY <1>4, <1>5, <1>6 DEF e

-----------------------------------------------------------------------------
(* Texts made of lines. *)

\* f joins the first of the sequences, for every number of them.
Joins(ss, f) ==
    f = [i \in 1 .. Len(ss) |-> IF i = 1 THEN ss[i] ELSE f[i - 1] \o ss[i]]

\* The sequences can be joined.
LEMMA JoinsExists ==
    ASSUME NEW T, NEW ss \in Seq(Seq(T))
    PROVE  \E f \in [1 .. Len(ss) -> Seq(T)] : Joins(ss, f)
<1> DEFINE S == Seq(T)
           k == Len(ss)
           nil == <<>>
           step == [pair \in S \X (1 .. k) |-> pair[1] \o ss[pair[2]]]
<1>1. k \in Nat /\ nil \in S /\ \A i \in 1 .. k : ss[i] \in S
    BY LenProperties, ElementOfSeq, EmptySeq
<1>2. \A s \in S, i \in 1 .. k : s \o ss[i] \in S
    BY <1>1, ConcatProperties
<1>3. step \in Steps(S, k)
    BY <1>2 DEF Steps
<1>4. \A s \in S, i \in 1 .. k : step[<<s, i>>] = s \o ss[i]
    OBVIOUS
<1> HIDE DEF step, S, k, nil
<1>5. PICK g : Built(S, nil, step, k, g)
    BY <1>1, <1>3, Recursion
<1>6. /\ g \in [0 .. k -> S] /\ g[0] = nil
      /\ \A i \in 1 .. k : g[i] = step[<<g[i - 1], i>>]
    BY <1>5 DEF Built
<1> DEFINE f == [i \in 1 .. k |-> g[i]]
<1>7. f \in [1 .. k -> S]
  <2>1. \A i \in 1 .. k : i \in 0 .. k
    BY <1>1
  <2>2. QED
    BY <1>6, <2>1
<1>8. ASSUME NEW i \in 1 .. k
      PROVE  f[i] = IF i = 1 THEN ss[i] ELSE f[i - 1] \o ss[i]
  <2>1. i - 1 \in 0 .. k /\ (i # 1 => i - 1 \in 1 .. k)
    BY <1>1
  <2>2. g[i - 1] \in S
    BY <1>6, <2>1
  <2>3. g[i] = g[i - 1] \o ss[i]
    BY <1>4, <1>6, <2>2
  <2>4. CASE i = 1
    <3>1. ss[i] \in Seq(T) /\ g[i - 1] = <<>>
      BY <1>1, <1>6, <2>4 DEF S, nil
    <3>2. <<>> \o ss[i] = ss[i]
      BY <3>1, ConcatEmptySeq
    <3>3. QED
      BY <2>3, <2>4, <3>1, <3>2
  <2>5. CASE i # 1
    BY <2>1, <2>3, <2>5
  <2>6. QED
    BY <2>4, <2>5
<1>9. f = [i \in 1 .. k |-> f[i]]
    OBVIOUS
<1> HIDE DEF f
<1>10. Joins(ss, f)
    BY <1>8, <1>9 DEF Joins, k
<1>11. QED
    BY <1>7, <1>10 DEF k, S

\* The first k elements of f and g are the same.
SameUpTo(k, f, g) == \A i \in 1 .. k : f[i] = g[i]

\* What the first sequences are joined to depends on them only.
LEMMA JoinsUnique ==
    ASSUME NEW ss, NEW tt, NEW k \in Nat, NEW f, NEW g,
           Len(ss) \in Nat, Len(tt) \in Nat, k <= Len(ss), k <= Len(tt),
           SameUpTo(k, ss, tt), Joins(ss, f), Joins(tt, g)
    PROVE  SameUpTo(k, f, g)
<1> DEFINE T == {n \in 0 .. k : n # 0 => f[n] = g[n]}
<1>1. 0 \in T
    OBVIOUS
<1>2. ASSUME NEW n \in 1 .. k, n - 1 \in T
      PROVE  n \in T
  <2>1. n \in 1 .. Len(ss) /\ n \in 1 .. Len(tt) /\ n \in 0 .. k /\ ss[n] = tt[n]
    BY DEF SameUpTo
  <2>2. f[n] = IF n = 1 THEN ss[n] ELSE f[n - 1] \o ss[n]
    BY <2>1 DEF Joins
  <2>3. g[n] = IF n = 1 THEN tt[n] ELSE g[n - 1] \o tt[n]
    BY <2>1 DEF Joins
  <2>4. n # 1 => f[n - 1] = g[n - 1]
    BY <1>2
  <2>5. f[n] = g[n]
    BY <2>1, <2>2, <2>3, <2>4
  <2>6. QED
    BY <2>1, <2>5
<1> HIDE DEF T
<1>3. \A n \in 0 .. k : n \in T
    BY <1>1, <1>2, Induct
<1>4. QED
    BY <1>3 DEF T, SameUpTo

\* What is joined last is the whole.
LEMMA FlattenIs ==
    ASSUME NEW T, NEW ss \in Seq(Seq(T)), Len(ss) > 0
    PROVE  \E f \in [1 .. Len(ss) -> Seq(T)] : Joins(ss, f) /\ FlattenSeq(ss) = f[Len(ss)]
<1>1. Len(ss) \in Nat
    BY LenProperties
<1>2. PICK f \in [1 .. Len(ss) -> Seq(T)] : Joins(ss, f)
    BY JoinsExists
<1> DEFINE g == CHOOSE h : Joins(ss, h)
<1>3. Joins(ss, g)
    BY <1>2
<1>4. FlattenSeq(ss) = g[Len(ss)]
    BY <1>1 DEF FlattenSeq, Joins
<1> HIDE DEF g
<1>5. SameUpTo(Len(ss), f, g)
  <2>1. SameUpTo(Len(ss), ss, ss) /\ Len(ss) <= Len(ss)
    BY <1>1 DEF SameUpTo
  <2>2. QED
    BY <1>1, <1>2, <1>3, <2>1, JoinsUnique
<1>6. Len(ss) \in 1 .. Len(ss)
    BY <1>1
<1>7. FlattenSeq(ss) = f[Len(ss)]
    BY <1>4, <1>5, <1>6 DEF SameUpTo
<1>8. QED
    BY <1>2, <1>7

\* One sequence more is joined at the end.
LEMMA FlattenAppend ==
    ASSUME NEW T, NEW ss \in Seq(Seq(T)), NEW x \in Seq(T)
    PROVE  FlattenSeq(ss) \in Seq(T) /\ FlattenSeq(Append(ss, x)) = FlattenSeq(ss) \o x
<1> DEFINE k == Len(ss)
           tt == Append(ss, x)
<1>1. k \in Nat
    BY LenProperties
<1>2. /\ tt \in Seq(Seq(T)) /\ Len(tt) = k + 1
      /\ \A i \in 1 .. k : tt[i] = ss[i]
      /\ tt[k + 1] = x
    BY AppendProperties
<1> HIDE DEF tt
<1>3. PICK g \in [1 .. Len(tt) -> Seq(T)] : Joins(tt, g) /\ FlattenSeq(tt) = g[Len(tt)]
    BY <1>1, <1>2, FlattenIs
<1>4. k + 1 \in 1 .. Len(tt) /\ k + 1 - 1 = k /\ Len(tt) \in Nat /\ k <= Len(tt) /\ k <= k
    BY <1>1, <1>2
<1>5. g[k + 1] = IF k + 1 = 1 THEN x ELSE g[k] \o x
  <2>1. g = [i \in 1 .. Len(tt) |-> IF i = 1 THEN tt[i] ELSE g[i - 1] \o tt[i]]
    BY <1>3 DEF Joins
  <2>2. \A n \in 1 .. Len(tt) : g[n] = IF n = 1 THEN tt[n] ELSE g[n - 1] \o tt[n]
    BY <2>1
  <2>3. PICK n \in 1 .. Len(tt) : n = k + 1
    BY <1>4
  <2>4. n - 1 = k /\ tt[n] = x
    BY <1>1, <1>2, <2>3
  <2>5. QED
    BY <2>2, <2>3, <2>4
<1>6. CASE k = 0
  <2>1. FlattenSeq(ss) = <<>> /\ ss = <<>>
    BY <1>6, EmptySeq DEF FlattenSeq
  <2>2. <<>> \in Seq(T) /\ <<>> \o x = x
    BY EmptySeq, ConcatEmptySeq
  <2>3. FlattenSeq(tt) = x
    BY <1>2, <1>3, <1>5, <1>6
  <2>4. QED
    BY <2>1, <2>2, <2>3 DEF tt
<1>7. CASE k # 0
  <2>0. Len(ss) > 0
    BY <1>1, <1>7
  <2>1. PICK f \in [1 .. k -> Seq(T)] : Joins(ss, f) /\ FlattenSeq(ss) = f[k]
    BY <2>0, FlattenIs
  <2>2. SameUpTo(k, f, g)
    <3>1. SameUpTo(k, ss, tt)
      BY <1>2 DEF SameUpTo
    <3>2. Len(ss) \in Nat /\ k <= Len(ss)
      BY <1>1
    <3>3. QED
      BY <1>1, <1>3, <1>4, <2>1, <3>1, <3>2, JoinsUnique
  <2>3. k \in 1 .. k
    BY <1>1, <1>7
  <2>4. FlattenSeq(ss) = g[k] /\ f[k] \in Seq(T)
    BY <2>1, <2>2, <2>3 DEF SameUpTo
  <2>5. FlattenSeq(tt) = g[k] \o x
    BY <1>1, <1>2, <1>3, <1>5, <1>7
  <2>6. QED
    BY <2>1, <2>4, <2>5 DEF tt
<1>8. QED
    BY <1>6, <1>7

\* Lines as they may be printed: none is empty.
Proper(lines) ==
    /\ Len(lines) \in Nat
    /\ \A i \in 1 .. Len(lines) : lines[i].chars \in Seq(Widths) \ {<<>>}

\* The widths of the characters of the first k lines, and the characters.
Text(lines, k) == FlattenSeq([i \in 1 .. k |-> lines[i].chars])

Places(lines, k) == FlattenSeq([i \in 1 .. k |-> Chars(i, Len(lines[i].chars))])

\* A character is named by its line and its place in it.
Spots == (Nat \ {0}) \X (Nat \ {0})

\* The characters of a line.
LEMMA CharsFacts ==
    ASSUME NEW i \in Nat \ {0}, NEW n \in Nat
    PROVE  /\ Chars(i, n) \in Seq(Spots)
           /\ Len(Chars(i, n)) = n
           /\ \A place \in 1 .. n : Chars(i, n)[place] = <<i, place>>
<1>1. \A place \in 1 .. n : <<i, place>> \in Spots
    BY DEF Spots
<1>2. Chars(i, n) \in [1 .. n -> Spots]
    BY <1>1 DEF Chars
<1>3. Chars(i, n) \in Seq(Spots)
    BY <1>2
<1>4. Len(Chars(i, n)) = n
    BY <1>2
<1>5. QED
    BY <1>3, <1>4 DEF Chars

\* The lines, one by one.
LEMMA LineFacts ==
    ASSUME NEW lines, Proper(lines), NEW i \in 1 .. Len(lines)
    PROVE  /\ lines[i].chars \in Seq(Widths)
           /\ Len(lines[i].chars) \in Nat \ {0}
           /\ Chars(i, Len(lines[i].chars)) \in Seq(Spots)
<1>1. lines[i].chars \in Seq(Widths) /\ lines[i].chars # <<>> /\ i \in Nat \ {0}
    BY DEF Proper
<1>2. Len(lines[i].chars) \in Nat \ {0}
    BY <1>1, EmptySeq
<1>3. QED
    BY <1>1, <1>2, CharsFacts

\* The text of one line more.
LEMMA TextAppend ==
    ASSUME NEW lines, Proper(lines), NEW k \in 0 .. Len(lines)
    PROVE  /\ Text(lines, k) \in Seq(Widths)
           /\ Places(lines, k) \in Seq(Spots)
           /\ k < Len(lines) =>
                /\ Text(lines, k + 1) = Text(lines, k) \o lines[k + 1].chars
                /\ Places(lines, k + 1) =
                        Places(lines, k) \o Chars(k + 1, Len(lines[k + 1].chars))
<1> DEFINE texts(n) == [i \in 1 .. n |-> lines[i].chars]
           spots(n) == [i \in 1 .. n |-> Chars(i, Len(lines[i].chars))]
<1>1. Len(lines) \in Nat /\ k \in Nat
    BY DEF Proper
<1>2. ASSUME NEW n \in 0 .. Len(lines)
      PROVE  /\ texts(n) \in Seq(Seq(Widths)) /\ Len(texts(n)) = n
             /\ spots(n) \in Seq(Seq(Spots)) /\ Len(spots(n)) = n
  <2>1. n \in Nat /\ \A i \in 1 .. n : i \in 1 .. Len(lines)
    BY <1>1
  <2>2. texts(n) \in [1 .. n -> Seq(Widths)] /\ spots(n) \in [1 .. n -> Seq(Spots)]
    BY <2>1, LineFacts
  <2>3. QED
    BY <2>1, <2>2
<1>3. Text(lines, k) = FlattenSeq(texts(k)) /\ Places(lines, k) = FlattenSeq(spots(k))
    BY DEF Text, Places
<1>4. Text(lines, k) \in Seq(Widths) /\ Places(lines, k) \in Seq(Spots)
  <2>1. texts(k) \in Seq(Seq(Widths)) /\ spots(k) \in Seq(Seq(Spots))
    BY <1>2
  <2>2. <<>> \in Seq(Widths) /\ <<>> \in Seq(Spots)
    BY EmptySeq
  <2> HIDE DEF texts, spots
  <2>3. FlattenSeq(texts(k)) \in Seq(Widths)
    BY <2>1, <2>2, FlattenAppend
  <2>4. FlattenSeq(spots(k)) \in Seq(Spots)
    BY <2>1, <2>2, FlattenAppend
  <2>5. QED
    BY <1>3, <2>3, <2>4
<1>5. ASSUME k < Len(lines)
      PROVE  /\ Text(lines, k + 1) = Text(lines, k) \o lines[k + 1].chars
             /\ Places(lines, k + 1) =
                        Places(lines, k) \o Chars(k + 1, Len(lines[k + 1].chars))
  <2> DEFINE c == lines[k + 1].chars
             d == Chars(k + 1, Len(lines[k + 1].chars))
  <2>1. k + 1 \in 1 .. Len(lines) /\ k + 1 \in 0 .. Len(lines)
    BY <1>1, <1>5
  <2>2. c \in Seq(Widths) /\ d \in Seq(Spots)
    BY <2>1, LineFacts
  <2>3. /\ texts(k) \in Seq(Seq(Widths)) /\ Len(texts(k)) = k
        /\ spots(k) \in Seq(Seq(Spots)) /\ Len(spots(k)) = k
        /\ texts(k + 1) \in Seq(Seq(Widths)) /\ Len(texts(k + 1)) = k + 1
        /\ spots(k + 1) \in Seq(Seq(Spots)) /\ Len(spots(k + 1)) = k + 1
    BY <1>2, <2>1
  <2>4. /\ \A i \in 1 .. k : texts(k)[i] = texts(k + 1)[i] /\ spots(k)[i] = spots(k + 1)[i]
        /\ texts(k + 1)[k + 1] = c /\ spots(k + 1)[k + 1] = d
    BY <1>1
  <2> HIDE DEF c, d, texts, spots
  <2>5. texts(k + 1) = Append(texts(k), c)
    <3>1. /\ Append(texts(k), c) \in Seq(Seq(Widths)) /\ Len(Append(texts(k), c)) = k + 1
          /\ \A i \in 1 .. k : Append(texts(k), c)[i] = texts(k)[i]
          /\ Append(texts(k), c)[k + 1] = c
      BY <2>2, <2>3, AppendProperties
    <3>2. \A i \in 1 .. k + 1 : i \in 1 .. k \/ i = k + 1
      BY <1>1
    <3>3. \A i \in 1 .. k + 1 : texts(k + 1)[i] = Append(texts(k), c)[i]
      BY <2>4, <3>1, <3>2
    <3>4. QED
      BY <2>3, <3>1, <3>3, SeqEqual
  <2>6. spots(k + 1) = Append(spots(k), d)
    <3>1. /\ Append(spots(k), d) \in Seq(Seq(Spots)) /\ Len(Append(spots(k), d)) = k + 1
          /\ \A i \in 1 .. k : Append(spots(k), d)[i] = spots(k)[i]
          /\ Append(spots(k), d)[k + 1] = d
      BY <2>2, <2>3, AppendProperties
    <3>2. \A i \in 1 .. k + 1 : i \in 1 .. k \/ i = k + 1
      BY <1>1
    <3>3. \A i \in 1 .. k + 1 : spots(k + 1)[i] = Append(spots(k), d)[i]
      BY <2>4, <3>1, <3>2
    <3>4. QED
      BY <2>3, <3>1, <3>3, SeqEqual
  <2>7. FlattenSeq(texts(k + 1)) = FlattenSeq(texts(k)) \o c
    BY <2>2, <2>3, <2>5, FlattenAppend
  <2>8. FlattenSeq(spots(k + 1)) = FlattenSeq(spots(k)) \o d
    BY <2>2, <2>3, <2>6, FlattenAppend
  <2>9. Text(lines, k + 1) = FlattenSeq(texts(k + 1))
        /\ Places(lines, k + 1) = FlattenSeq(spots(k + 1))
    BY DEF Text, Places, texts, spots
  <2>10. QED
    BY <1>3, <2>7, <2>8, <2>9 DEF c, d
<1>6. QED
    BY <1>4, <1>5

\* No lines, no text.
LEMMA TextStart ==
    ASSUME NEW lines
    PROVE  Text(lines, 0) = <<>> /\ Places(lines, 0) = <<>>
<1>1. /\ [i \in 1 .. 0 |-> lines[i].chars] = <<>>
      /\ [i \in 1 .. 0 |-> Chars(i, Len(lines[i].chars))] = <<>>
    OBVIOUS
<1>2. FlattenSeq(<<>>) = <<>>
    BY DEF FlattenSeq
<1>3. QED
    BY <1>1, <1>2 DEF Text, Places

\* A text, the places of its characters and the same with one line more ...
Grown(lines, k) ==
    LET t == Text(lines, k - 1)
        p == Places(lines, k - 1)
        c == lines[k].chars
    IN  /\ k - 1 \in 0 .. Len(lines)
        /\ t \in Seq(Widths) /\ c \in Seq(Widths) /\ p \in Seq(Spots)
        /\ Text(lines, k) = t \o c /\ Text(lines, k) \in Seq(Widths)
        /\ Places(lines, k) = p \o Chars(k, Len(c)) /\ Places(lines, k) \in Seq(Spots)

\* ... character by character.
Longer(lines, k) ==
    LET t == Text(lines, k - 1)
        p == Places(lines, k - 1)
        c == lines[k].chars
        tt == Text(lines, k)
        pp == Places(lines, k)
    IN  /\ Len(t) \in Nat /\ Len(p) \in Nat /\ Len(c) \in Nat
        /\ Len(tt) = Len(t) + Len(c) /\ Len(pp) = Len(p) + Len(c)
        /\ \A j \in 1 .. Len(t) : tt[j] = t[j]
        /\ \A j \in 1 .. Len(c) : tt[Len(t) + j] = c[j]
        /\ \A j \in 1 .. Len(p) : pp[j] = p[j]
        /\ \A j \in 1 .. Len(c) : pp[Len(p) + j] = <<k, j>>

\* What TextAppend says, with the lengths.
LEMMA TextNext ==
    ASSUME NEW lines, Proper(lines), NEW k \in 1 .. Len(lines)
    PROVE  Grown(lines, k) /\ Longer(lines, k)
<1> DEFINE t == Text(lines, k - 1)
           p == Places(lines, k - 1)
           c == lines[k].chars
           d == Chars(k, Len(c))
           tt == Text(lines, k)
           pp == Places(lines, k)
<1>1. Len(lines) \in Nat /\ k - 1 \in 0 .. Len(lines) /\ k - 1 < Len(lines) /\ k - 1 + 1 = k
      /\ k \in 0 .. Len(lines) /\ k \in Nat \ {0}
    BY DEF Proper
<1>2. /\ t \in Seq(Widths) /\ p \in Seq(Spots)
      /\ tt = t \o c /\ pp = p \o d
      /\ tt \in Seq(Widths) /\ pp \in Seq(Spots)
    BY <1>1, TextAppend
<1>3. c \in Seq(Widths) /\ Len(c) \in Nat /\ d \in Seq(Spots)
    BY LineFacts
<1>4. Len(d) = Len(c) /\ \A j \in 1 .. Len(c) : d[j] = <<k, j>>
    BY <1>1, <1>3, CharsFacts
<1> HIDE DEF t, p, c, d, tt, pp
<1>5. Len(t) \in Nat /\ Len(p) \in Nat
    BY <1>2, LenProperties
<1>6. /\ Len(tt) = Len(t) + Len(c)
      /\ \A j \in 1 .. Len(t) + Len(c) : tt[j] = IF j <= Len(t) THEN t[j] ELSE c[j - Len(t)]
    BY <1>2, <1>3, ConcatProperties
<1>7. /\ Len(pp) = Len(p) + Len(c)
      /\ \A j \in 1 .. Len(p) + Len(c) : pp[j] = IF j <= Len(p) THEN p[j] ELSE d[j - Len(p)]
  <2>1. /\ Len(pp) = Len(p) + Len(d)
        /\ \A j \in 1 .. Len(p) + Len(d) : pp[j] = IF j <= Len(p) THEN p[j] ELSE d[j - Len(p)]
    BY <1>2, <1>3, ConcatProperties
  <2>2. Len(d) = Len(c)
    BY <1>4
  <2>3. QED
    BY <2>1, <2>2
<1>8. \A j \in 1 .. Len(t) : tt[j] = t[j]
    BY <1>3, <1>5, <1>6
<1>9. ASSUME NEW j \in 1 .. Len(c)
      PROVE  tt[Len(t) + j] = c[j]
  <2>1. Len(t) + j \in 1 .. Len(t) + Len(c) /\ ~(Len(t) + j <= Len(t)) /\ Len(t) + j - Len(t) = j
    BY <1>3, <1>5
  <2>2. QED
    BY <1>6, <2>1
<1>10. \A j \in 1 .. Len(p) : pp[j] = p[j]
    BY <1>3, <1>5, <1>7
<1>11. ASSUME NEW j \in 1 .. Len(c)
       PROVE  pp[Len(p) + j] = <<k, j>>
  <2>1. Len(p) + j \in 1 .. Len(p) + Len(c) /\ ~(Len(p) + j <= Len(p)) /\ Len(p) + j - Len(p) = j
    BY <1>3, <1>5
  <2>2. QED
    BY <1>4, <1>7, <2>1
<1>12. Grown(lines, k)
    BY <1>1, <1>2, <1>3 DEF Grown, t, p, c, d, tt, pp
<1>13. Longer(lines, k)
    BY <1>3, <1>5, <1>6, <1>7, <1>8, <1>9, <1>10, <1>11 DEF Longer, t, p, c, tt, pp
<1>14. QED
    BY <1>12, <1>13

\* Every character of the text is the one its place names.
Matches(lines, k) ==
    /\ Len(Places(lines, k)) = Len(Text(lines, k))
    /\ \A j \in 1 .. Len(Text(lines, k)) :
        LET spot == Places(lines, k)[j]
        IN  spot[1] \in 1 .. k /\ lines[spot[1]].chars[spot[2]] = Text(lines, k)[j]

\* The text and the places of its characters go together.
LEMMA PlacesMatch ==
    ASSUME NEW lines, Proper(lines), NEW k \in 0 .. Len(lines)
    PROVE  Matches(lines, k)
<1> DEFINE T == {n \in 0 .. Len(lines) : Matches(lines, n)}
<1>1. Len(lines) \in Nat
    BY DEF Proper
<1>2. 0 \in T
  <2>1. Len(<<>>) = 0
    BY EmptySeq
  <2>2. Matches(lines, 0)
    BY <2>1, TextStart DEF Matches
  <2>3. QED
    BY <1>1, <2>2
<1>3. ASSUME NEW n \in 1 .. Len(lines), n - 1 \in T
      PROVE  n \in T
  <2> DEFINE t == Text(lines, n - 1)
             p == Places(lines, n - 1)
             c == lines[n].chars
             tt == Text(lines, n)
             pp == Places(lines, n)
  <2>1. /\ Len(tt) = Len(t) + Len(c)
        /\ Len(pp) = Len(p) + Len(c)
        /\ Len(t) \in Nat /\ Len(p) \in Nat /\ Len(c) \in Nat
        /\ \A j \in 1 .. Len(t) : tt[j] = t[j]
        /\ \A j \in 1 .. Len(c) : tt[Len(t) + j] = c[j]
        /\ \A j \in 1 .. Len(p) : pp[j] = p[j]
        /\ \A j \in 1 .. Len(c) : pp[Len(p) + j] = <<n, j>>
    <3>1. Longer(lines, n)
      BY TextNext
    <3>2. QED
      BY <3>1 DEF Longer
  <2>2. /\ Len(p) = Len(t)
        /\ \A j \in 1 .. Len(t) :
                p[j][1] \in 1 .. n - 1 /\ lines[p[j][1]].chars[p[j][2]] = t[j]
    BY <1>3 DEF Matches
  <2> HIDE DEF t, p, tt, pp
  <2>3. ASSUME NEW j \in 1 .. Len(tt)
        PROVE  pp[j][1] \in 1 .. n /\ lines[pp[j][1]].chars[pp[j][2]] = tt[j]
    <3>1. CASE j \in 1 .. Len(t)
      <4>1. pp[j] = p[j] /\ tt[j] = t[j]
        BY <2>1, <2>2, <3>1
      <4>2. p[j][1] \in 1 .. n - 1 /\ lines[p[j][1]].chars[p[j][2]] = t[j]
        BY <2>2, <3>1
      <4>3. QED
        BY <4>1, <4>2
    <3>2. CASE j \notin 1 .. Len(t)
      <4>1. PICK m \in 1 .. Len(c) : j = Len(t) + m
        <5>1. j - Len(t) \in 1 .. Len(c) /\ j = Len(t) + (j - Len(t))
          BY <2>1, <3>2
        <5>2. QED
          BY <5>1
      <4>2. pp[j] = <<n, m>> /\ tt[j] = c[m]
        BY <2>1, <2>2, <4>1
      <4>3. QED
        BY <4>2
    <3>3. QED
      BY <3>1, <3>2
  <2>4. Len(pp) = Len(tt)
    BY <2>1, <2>2
  <2>5. Matches(lines, n)
    BY <2>3, <2>4 DEF Matches, tt, pp
  <2>6. QED
    BY <1>1, <2>5
<1> HIDE DEF T
<1>4. \A n \in 0 .. Len(lines) : n \in T
    BY <1>1, <1>2, <1>3, Induct
<1>5. QED
    BY <1>4 DEF T

\* The text of some lines starts that of more of them.
Starts(lines, i, k) ==
    LET n == Len(Text(lines, i))
    IN  /\ n <= Len(Text(lines, k))
        /\ \A m \in 0 .. n : Bytes(Text(lines, k))[m] = Bytes(Text(lines, i))[m]
        /\ \A m \in 1 .. n : Places(lines, k)[m] = Places(lines, i)[m]

\* The same, for any numbers of lines.
LEMMA TextStarts ==
    ASSUME NEW lines, Proper(lines), NEW i \in 0 .. Len(lines), NEW k \in i .. Len(lines)
    PROVE  Starts(lines, i, k)
<1> DEFINE T == {n \in 0 .. Len(lines) : i <= n => Starts(lines, i, n)}
<1>1. Len(lines) \in Nat /\ Text(lines, i) \in Seq(Widths)
    BY TextAppend DEF Proper
<1>2. Starts(lines, i, i)
    BY <1>1, LenProperties DEF Starts
<1>3. 0 \in T
    BY <1>1, <1>2
<1>4. ASSUME NEW n \in 1 .. Len(lines), n - 1 \in T
      PROVE  n \in T
  <2>1. CASE i <= n - 1
    <3> DEFINE s == Text(lines, i)
               t == Text(lines, n - 1)
               p == Places(lines, n - 1)
               c == lines[n].chars
               tt == Text(lines, n)
               pp == Places(lines, n)
    <3>1. /\ n - 1 \in 0 .. Len(lines)
          /\ t \in Seq(Widths) /\ c \in Seq(Widths) /\ tt = t \o c
          /\ Len(tt) = Len(t) + Len(c)
          /\ Len(t) \in Nat /\ Len(p) \in Nat /\ Len(c) \in Nat
          /\ \A j \in 1 .. Len(p) : pp[j] = p[j]
      BY TextNext DEF Grown, Longer
    <3>2. Len(p) = Len(t) /\ Len(s) \in Nat
      BY <1>1, <3>1, PlacesMatch, LenProperties DEF Matches
    <3>3. /\ Len(s) <= Len(t)
          /\ \A m \in 0 .. Len(s) : Bytes(t)[m] = Bytes(s)[m]
          /\ \A m \in 1 .. Len(s) : p[m] = Places(lines, i)[m]
      BY <1>4, <2>1 DEF Starts
    <3> HIDE DEF s, t, p, c, tt, pp
    <3>4. \A m \in 0 .. Len(t) : Bytes(tt)[m] = Bytes(t)[m]
      BY <3>1, BytesConcat
    <3>5. \A m \in 0 .. Len(s) : Bytes(tt)[m] = Bytes(s)[m]
      BY <3>1, <3>2, <3>3, <3>4
    <3>6. \A m \in 1 .. Len(s) : pp[m] = Places(lines, i)[m]
      BY <3>1, <3>2, <3>3
    <3>7. Len(s) <= Len(tt)
      BY <3>1, <3>2, <3>3
    <3>8. Starts(lines, i, n)
      BY <3>5, <3>6, <3>7 DEF Starts, s, tt, pp
    <3>9. QED
      BY <3>8
  <2>2. CASE ~(i <= n - 1)
    <3>1. i <= n => i = n
      BY <1>1, <2>2
    <3>2. QED
      BY <1>2, <3>1
  <2>3. QED
    BY <2>1, <2>2
<1> HIDE DEF T
<1>5. \A n \in 0 .. Len(lines) : n \in T
    BY <1>1, <1>3, <1>4, Induct
<1>6. k \in 0 .. Len(lines) /\ i <= k
    BY <1>1
<1>7. QED
    BY <1>5, <1>6 DEF T

\* Every character of a line has its place in the text.
LEMMA LineFound ==
    ASSUME NEW lines, Proper(lines), NEW i \in 1 .. Len(lines), NEW k \in i .. Len(lines),
           NEW place \in 1 .. Len(lines[i].chars)
    PROVE  \E j \in 1 .. Len(Text(lines, i)) : Places(lines, k)[j] = <<i, place>>
<1> DEFINE j == Len(Text(lines, i - 1)) + place
<1>1. /\ i - 1 \in 0 .. Len(lines)
      /\ Len(Text(lines, i)) = Len(Text(lines, i - 1)) + Len(lines[i].chars)
      /\ Len(Text(lines, i - 1)) \in Nat /\ Len(lines[i].chars) \in Nat
      /\ Places(lines, i)[Len(Places(lines, i - 1)) + place] = <<i, place>>
    BY TextNext DEF Grown, Longer
<1>2. Len(Places(lines, i - 1)) = Len(Text(lines, i - 1))
    BY <1>1, PlacesMatch DEF Matches
<1>3. j \in 1 .. Len(Text(lines, i)) /\ Places(lines, i)[j] = <<i, place>>
    BY <1>1, <1>2
<1>4. i \in 0 .. Len(lines)
    BY DEF Proper
<1>5. Starts(lines, i, k)
    BY <1>4, TextStarts
<1>6. Places(lines, k)[j] = Places(lines, i)[j]
    BY <1>3, <1>5 DEF Starts
<1>7. QED
    BY <1>3, <1>6

\* The text of some lines is about these lines only.
LEMMA TextSame ==
    ASSUME NEW a, NEW b, NEW k \in Nat, SameUpTo(k, a, b)
    PROVE  Text(a, k) = Text(b, k) /\ Places(a, k) = Places(b, k)
<1>1. \A i \in 1 .. k : a[i] = b[i]
    BY DEF SameUpTo
<1>2. /\ [i \in 1 .. k |-> a[i].chars] = [i \in 1 .. k |-> b[i].chars]
      /\ [i \in 1 .. k |-> Chars(i, Len(a[i].chars))] = [i \in 1 .. k |-> Chars(i, Len(b[i].chars))]
    BY <1>1
<1>3. QED
    BY <1>2 DEF Text, Places

-----------------------------------------------------------------------------
(* What has been copied of the first k lines, and counted, under a limit. *)

Complete(lines, k, lim) == lim = 0 \/ Total(Text(lines, k)) <= lim

Kept(lines, k, lim) ==
    IF lim = 0 THEN Len(Text(lines, k)) ELSE Fitting(Text(lines, k), lim)

Copied(lines, k, lim, f, w) ==
    LET t == Text(lines, k)
        n == Kept(lines, k, lim)
    IN  /\ f = SubSeq(Places(lines, k), 1, n) \o (IF n < Len(t) THEN <<Mark>> ELSE <<>>)
        /\ w = IF Complete(lines, k, lim) THEN Total(t) ELSE lim

\* Everything has been copied, or so much that the next character has no room and the mark.
LEMMA CopiedIs ==
    ASSUME NEW lines, Proper(lines), NEW k \in 0 .. Len(lines), NEW lim \in Nat, NEW f, NEW w
    PROVE  /\ Len(Places(lines, k)) = Len(Text(lines, k))
           /\ Kept(lines, k, lim) \in 0 .. Len(Text(lines, k))
           /\ Kept(lines, k, lim) = Len(Text(lines, k)) <=> Complete(lines, k, lim)
           /\ Complete(lines, k, lim) =>
                (Copied(lines, k, lim, f, w) <=>
                    f = Places(lines, k) /\ w = Total(Text(lines, k)))
           /\ ~Complete(lines, k, lim) =>
                (Copied(lines, k, lim, f, w) <=>
                    /\ f = SubSeq(Places(lines, k), 1, Kept(lines, k, lim)) \o <<Mark>>
                    /\ w = lim)
<1> DEFINE t == Text(lines, k)
           p == Places(lines, k)
           n == Kept(lines, k, lim)
<1>1. t \in Seq(Widths) /\ p \in Seq(Spots)
    BY TextAppend
<1>2. Len(p) = Len(t)
    BY PlacesMatch DEF Matches
<1>3. Len(t) \in Nat
    BY <1>1, LenProperties
<1>4. n \in 0 .. Len(t)
  <2>1. Fitting(t, lim) \in 0 .. Len(t)
    BY <1>1, FittingIs
  <2>2. n = Len(t) \/ n = Fitting(t, lim)
    BY DEF Kept
  <2>3. QED
    BY <1>3, <2>1, <2>2
<1>5. n = Len(t) <=> Complete(lines, k, lim)
    BY <1>1, <1>3, FittingWhole DEF Kept, Complete
<1>6. SubSeq(p, 1, Len(t)) = p /\ p \o <<>> = p
    BY <1>1, <1>2, SubSeqFull, ConcatEmptySeq
<1> HIDE DEF t, p, n
<1> DEFINE g == SubSeq(p, 1, n) \o (IF n < Len(t) THEN <<Mark>> ELSE <<>>)
<1>7. Copied(lines, k, lim, f, w) <=>
        /\ f = g
        /\ w = IF Complete(lines, k, lim) THEN Total(t) ELSE lim
    BY DEF Copied, t, p, n
<1>8. ASSUME Complete(lines, k, lim)
      PROVE  Copied(lines, k, lim, f, w) <=> f = p /\ w = Total(t)
  <2>1. n = Len(t) /\ ~(n < Len(t))
    BY <1>3, <1>5, <1>8
  <2>2. g = p
    BY <1>6, <2>1
  <2> HIDE DEF g
  <2>3. QED
    BY <1>7, <1>8, <2>2
<1>9. ASSUME ~Complete(lines, k, lim)
      PROVE  Copied(lines, k, lim, f, w) <=> f = SubSeq(p, 1, n) \o <<Mark>> /\ w = lim
  <2>1. n < Len(t)
    BY <1>3, <1>4, <1>5, <1>9
  <2>2. g = SubSeq(p, 1, n) \o <<Mark>>
    BY <2>1
  <2> HIDE DEF g
  <2>3. QED
    BY <1>7, <1>9, <2>2
<1>10. QED
    BY <1>2, <1>4, <1>5, <1>8, <1>9 DEF t, p, n

\* A text is no longer kept when more comes, once it was too long.
LEMMA StaysIncomplete ==
    ASSUME NEW lines, Proper(lines), NEW k \in 1 .. Len(lines), NEW lim \in Nat
    PROVE  /\ Complete(lines, k, lim) => Complete(lines, k - 1, lim)
           /\ Total(Text(lines, k)) = Total(Text(lines, k - 1)) + Total(lines[k].chars)
           /\ Total(Text(lines, k - 1)) \in Nat
           /\ Total(lines[k].chars) \in Nat
           /\ Total(Text(lines, k)) \in Nat
<1> DEFINE t == Text(lines, k - 1)
           c == lines[k].chars
           tt == Text(lines, k)
<1>1. t \in Seq(Widths) /\ c \in Seq(Widths) /\ tt = t \o c /\ tt \in Seq(Widths)
    BY TextNext DEF Grown
<1> HIDE DEF t, c, tt
<1>2. Total(tt) = Total(t) + Total(c)
    BY <1>1, FittingConcat
<1>3. Total(t) \in Nat /\ Total(c) \in Nat /\ Total(tt) \in Nat
    BY <1>1, FittingWhole
<1>4. Total(tt) <= lim => Total(t) <= lim
    BY <1>2, <1>3
<1>5. QED
    BY <1>2, <1>3, <1>4 DEF Complete, t, c, tt

\* The mark is no character.
LEMMA MarkIsNoSpot ==
    ASSUME NEW p \in Seq(Spots)
    PROVE  ~Contains(p, Mark)
<1>1. \A i \in 1 .. Len(p) : p[i] \in Spots
    BY ElementOfSeq
<1>2. Mark \notin Spots
    BY DEF Mark, Spots
<1>3. QED
    BY <1>1, <1>2 DEF Contains

\* The start of a longer sequence of characters.
LEMMA StartOfLonger ==
    ASSUME NEW p \in Seq(Spots), NEW q \in Seq(Spots), NEW n \in 0 .. Len(p), Len(p) <= Len(q),
           \A j \in 1 .. Len(p) : q[j] = p[j]
    PROVE  SubSeq(q, 1, n) = SubSeq(p, 1, n)
<1>1. Len(p) \in Nat /\ Len(q) \in Nat /\ n \in Int /\ 1 \in Int /\ n - 1 + 1 = n
    BY LenProperties
<1>2. \A j \in 1 .. n : p[j] \in Spots /\ q[j] \in Spots /\ q[j] = p[j]
  <2>1. \A j \in 1 .. Len(p) : p[j] \in Spots
    BY ElementOfSeq
  <2>2. \A j \in 1 .. n : j \in 1 .. Len(p)
    BY <1>1
  <2>3. QED
    BY <2>1, <2>2
<1>3. /\ SubSeq(p, 1, n) \in Seq(Spots)
      /\ Len(SubSeq(p, 1, n)) = IF 1 <= n THEN n - 1 + 1 ELSE 0
      /\ \A i \in 1 .. n - 1 + 1 : SubSeq(p, 1, n)[i] = p[1 + i - 1]
    BY <1>1, <1>2, SubSeqProperties
<1>4. /\ SubSeq(q, 1, n) \in Seq(Spots)
      /\ Len(SubSeq(q, 1, n)) = IF 1 <= n THEN n - 1 + 1 ELSE 0
      /\ \A i \in 1 .. n - 1 + 1 : SubSeq(q, 1, n)[i] = q[1 + i - 1]
    BY <1>1, <1>2, SubSeqProperties
<1>5. Len(SubSeq(p, 1, n)) = n /\ Len(SubSeq(q, 1, n)) = n
    BY <1>1, <1>3, <1>4
<1>6. \A i \in 1 .. n : SubSeq(q, 1, n)[i] = SubSeq(p, 1, n)[i]
  <2>1. \A i \in 1 .. n : 1 + i - 1 = i
    BY <1>1
  <2>2. QED
    BY <1>1, <1>2, <1>3, <1>4, <2>1
<1>7. QED
    BY <1>3, <1>4, <1>5, <1>6, SeqEqual

\* The places of some whole lines and of the first characters of the next.
LEMMA PlacesUpTo ==
    ASSUME NEW lines, Proper(lines), NEW k \in 1 .. Len(lines),
           NEW n \in 0 .. Len(lines[k].chars)
    PROVE  SubSeq(Places(lines, k), 1, Len(Places(lines, k - 1)) + n)
                = Places(lines, k - 1) \o Chars(k, n)
<1> DEFINE p == Places(lines, k - 1)
           c == lines[k].chars
           d == Chars(k, n)
           pp == Places(lines, k)
           m == Len(p) + n
<1>1. p \in Seq(Spots) /\ pp \in Seq(Spots)
    BY TextNext DEF Grown
<1>2. /\ Len(p) \in Nat /\ Len(c) \in Nat /\ Len(pp) = Len(p) + Len(c)
      /\ \A j \in 1 .. Len(p) : pp[j] = p[j]
      /\ \A j \in 1 .. Len(c) : pp[Len(p) + j] = <<k, j>>
  <2>1. Longer(lines, k)
    BY TextNext
  <2>2. QED
    BY <2>1 DEF Longer
<1>3. /\ d \in Seq(Spots) /\ Len(d) = n /\ n \in Nat
      /\ \A j \in 1 .. n : d[j] = <<k, j>>
  <2>1. k \in Nat \ {0} /\ n \in Nat
    BY <1>2 DEF Proper
  <2>2. QED
    BY <2>1, CharsFacts
<1> HIDE DEF p, c, d, pp
<1>4. /\ p \o d \in Seq(Spots) /\ Len(p \o d) = m
      /\ \A j \in 1 .. m : (p \o d)[j] = IF j <= Len(p) THEN p[j] ELSE d[j - Len(p)]
  <2>1. /\ p \o d \in Seq(Spots) /\ Len(p \o d) = Len(p) + Len(d)
        /\ \A j \in 1 .. Len(p) + Len(d) :
                (p \o d)[j] = IF j <= Len(p) THEN p[j] ELSE d[j - Len(p)]
    BY <1>1, <1>3, ConcatProperties
  <2>2. Len(p) + Len(d) = m
    BY <1>3
  <2>3. QED
    BY <2>1, <2>2
<1>5. n <= Len(c)
  <2>1. n \in 0 .. Len(c)
    BY DEF c
  <2>2. QED
    BY <1>2, <2>1
<1>6. m \in Nat /\ m <= Len(pp) /\ m \in Int /\ 1 \in Int /\ m - 1 + 1 = m
    BY <1>2, <1>3, <1>5
<1>7. \A j \in 1 .. m : pp[j] \in Spots
  <2>1. \A j \in 1 .. Len(pp) : pp[j] \in Spots
    BY <1>1, ElementOfSeq
  <2>2. \A j \in 1 .. m : j \in 1 .. Len(pp)
    BY <1>2, <1>6
  <2>3. QED
    BY <2>1, <2>2
<1> DEFINE q == SubSeq(pp, 1, m)
<1>8. /\ q \in Seq(Spots)
      /\ Len(q) = IF 1 <= m THEN m - 1 + 1 ELSE 0
      /\ \A i \in 1 .. m - 1 + 1 : q[i] = pp[1 + i - 1]
    BY <1>6, <1>7, SubSeqProperties
<1>9. ASSUME NEW j \in 1 .. m
      PROVE  q[j] = (p \o d)[j]
  <2>1. j \in 1 .. m - 1 + 1 /\ 1 + j - 1 = j
    BY <1>6
  <2>2. q[j] = pp[j]
    BY <1>8, <2>1
  <2>3. CASE j <= Len(p)
    <3>1. j \in 1 .. Len(p)
      BY <1>2, <2>3
    <3>2. QED
      BY <1>2, <1>4, <2>2, <2>3, <3>1
  <2>4. CASE ~(j <= Len(p))
    <3>1. j - Len(p) \in 1 .. n /\ j - Len(p) \in 1 .. Len(c) /\ Len(p) + (j - Len(p)) = j
      BY <1>2, <1>3, <1>5, <2>4
    <3>2. pp[j] = <<k, j - Len(p)>> /\ d[j - Len(p)] = <<k, j - Len(p)>>
      BY <1>2, <1>3, <3>1
    <3>3. QED
      BY <1>4, <2>2, <2>4, <3>2
  <2>5. QED
    BY <2>3, <2>4
<1>10. Len(q) = m
    BY <1>6, <1>8
<1> HIDE DEF q
<1>11. q = p \o d
    BY <1>4, <1>8, <1>9, <1>10, SeqEqual
<1>12. QED
    BY <1>11 DEF q, p, d, pp

\* One more character has no room where there is none.
LEMMA NoRoom ==
    ASSUME NEW c \in Seq(Widths), c # <<>>
    PROVE  Fitting(c, 0) = 0 /\ Len(c) \in Nat \ {0}
<1>1. Len(c) \in Nat \ {0}
    BY EmptySeq
<1>2. Bytes(c)[0] = 0 /\ Bytes(c)[1] = Bytes(c)[1 - 1] + c[1] /\ c[1] \in Nat \ {0}
  <2>1. 1 \in 1 .. Len(c)
    BY <1>1
  <2>2. QED
    BY <2>1, BytesSum, WidthsFacts
<1>3. Bytes(c)[0 + 1] > 0
    BY <1>2
<1>4. 0 \in 0 .. Len(c) /\ 0 \in Nat /\ Bytes(c)[0] <= 0
    BY <1>1, <1>2
<1>5. QED
    BY <1>1, <1>3, <1>4, FittingUnique

\* What a thread writes of a line, and what it counts (Copy).
Room(c, lim, w) == IF lim = 0 THEN Total(c) ELSE lim - w

FileAfter(f, k, c, n) ==
    f \o Chars(k, n) \o (IF n = Len(c) \/ Contains(f, Mark) THEN <<>> ELSE <<Mark>>)

CountAfter(w, c, n, lim) == IF n = Len(c) THEN w + Total(c) ELSE lim

\* With one line more, what has been copied is the longest prefix again.
LEMMA CopyLine ==
    ASSUME NEW lines, Proper(lines), NEW k \in 1 .. Len(lines), NEW lim \in Nat,
           NEW f, NEW w, Copied(lines, k - 1, lim, f, w),
           NEW n, n = Fitting(lines[k].chars, Room(lines[k].chars, lim, w))
    PROVE  Copied(lines, k, lim, FileAfter(f, k, lines[k].chars, n),
                  CountAfter(w, lines[k].chars, n, lim))
<1> DEFINE t == Text(lines, k - 1)
           p == Places(lines, k - 1)
           c == lines[k].chars
           tt == Text(lines, k)
           pp == Places(lines, k)
           ff == FileAfter(f, k, c, n)
           ww == CountAfter(w, c, n, lim)
<1> SUFFICES Copied(lines, k, lim, ff, ww)
    OBVIOUS
<1>1. /\ k - 1 \in 0 .. Len(lines) /\ k \in 0 .. Len(lines) /\ k \in Nat \ {0}
      /\ t \in Seq(Widths) /\ c \in Seq(Widths) /\ tt \in Seq(Widths)
      /\ p \in Seq(Spots) /\ pp \in Seq(Spots)
      /\ tt = t \o c /\ pp = p \o Chars(k, Len(c))
  <2>1. k - 1 \in 0 .. Len(lines) /\ k \in 0 .. Len(lines) /\ k \in Nat \ {0}
    BY DEF Proper
  <2>2. QED
    BY <2>1, TextNext DEF Grown
<1>2. /\ Len(t) \in Nat /\ Len(p) \in Nat /\ Len(c) \in Nat
      /\ Len(tt) = Len(t) + Len(c) /\ Len(pp) = Len(p) + Len(c)
      /\ \A j \in 1 .. Len(p) : pp[j] = p[j]
  <2>1. Longer(lines, k)
    BY TextNext
  <2>2. QED
    BY <2>1 DEF Longer
<1>3. c # <<>> /\ Len(c) # 0
  <2>1. c # <<>>
    BY DEF Proper
  <2>2. QED
    BY <1>1, <2>1, NoRoom
<1>4. /\ Total(t) \in Nat /\ Total(c) \in Nat /\ Total(tt) \in Nat
      /\ Total(tt) = Total(t) + Total(c)
      /\ Complete(lines, k, lim) => Complete(lines, k - 1, lim)
    BY StaysIncomplete
<1>5. Len(p) = Len(t)
    BY <1>1, CopiedIs
<1>6. CASE Complete(lines, k - 1, lim)
  <2>1. f = p /\ w = Total(t)
    BY <1>1, <1>6, CopiedIs
  <2>2. ~Contains(f, Mark)
    BY <1>1, <2>1, MarkIsNoSpot
  <2>3. Room(c, lim, w) \in Nat
    BY <1>4, <1>6, <2>1 DEF Room, Complete
  <2>4. /\ n \in 0 .. Len(c)
        /\ n = Len(c) <=> Total(c) <= Room(c, lim, w)
    BY <1>1, <2>3, FittingIs, FittingWhole
  <2>5. n = Len(c) <=> Complete(lines, k, lim)
    BY <1>4, <1>6, <2>1, <2>3, <2>4 DEF Room, Complete
  <2>6. CASE n = Len(c)
    <3>1. Complete(lines, k, lim)
      BY <2>5, <2>6
    <3>2. pp \o <<>> = pp
      BY <1>1, ConcatEmptySeq
    <3>3. ff = pp
      BY <1>1, <2>1, <2>6, <3>2 DEF FileAfter
    <3>4. ww = Total(tt)
      BY <1>4, <2>1, <2>6 DEF CountAfter
    <3> HIDE DEF t, p, c, ff, ww
    <3>5. QED
      BY <1>1, <3>1, <3>3, <3>4, CopiedIs
  <2>7. CASE n # Len(c)
    <3>1. ~Complete(lines, k, lim) /\ lim # 0
      BY <2>5, <2>7 DEF Complete
    <3>2. Room(c, lim, w) = lim - Total(t) /\ Total(t) <= lim
      BY <1>6, <2>1, <3>1 DEF Room, Complete
    <3>3. Kept(lines, k, lim) = Len(p) + n
      <4>1. Fitting(t \o c, lim) = Len(t) + Fitting(c, lim - Total(t))
        BY <1>1, <3>2, FittingConcat
      <4>2. QED
        BY <1>1, <1>5, <3>1, <3>2, <4>1 DEF Kept
    <3>4. SubSeq(pp, 1, Len(p) + n) = p \o Chars(k, n)
      BY <2>4, PlacesUpTo
    <3>5. ff = p \o Chars(k, n) \o <<Mark>>
      BY <2>1, <2>2, <2>7 DEF FileAfter
    <3>6. ff = SubSeq(pp, 1, Kept(lines, k, lim)) \o <<Mark>>
      BY <3>3, <3>4, <3>5
    <3>7. ww = lim
      BY <2>7 DEF CountAfter
    <3> HIDE DEF t, p, c, ff, ww
    <3>8. Copied(lines, k, lim, ff, ww) <=>
            ff = SubSeq(pp, 1, Kept(lines, k, lim)) \o <<Mark>> /\ ww = lim
      BY <1>1, <3>1, CopiedIs
    <3>9. QED
      BY <3>6, <3>7, <3>8
  <2>8. QED
    BY <2>6, <2>7
<1>7. CASE ~Complete(lines, k - 1, lim)
  <2> DEFINE m == Kept(lines, k - 1, lim)
  <2>1. f = SubSeq(p, 1, m) \o <<Mark>> /\ w = lim
    BY <1>1, <1>7, CopiedIs
  <2>2. ~Complete(lines, k, lim) /\ lim # 0 /\ ~(Total(t) <= lim)
    BY <1>4, <1>7 DEF Complete
  <2>3. Room(c, lim, w) = 0
    BY <2>1, <2>2 DEF Room
  <2>4. n = 0 /\ n # Len(c)
    BY <1>1, <1>3, <2>3, NoRoom
  <2>5. m \in 0 .. Len(p)
    BY <1>1, <1>5, CopiedIs
  <2>6. Kept(lines, k, lim) = m
    BY <1>1, <2>2, FittingConcat DEF Kept
  <2>7. SubSeq(pp, 1, m) = SubSeq(p, 1, m)
    BY <1>1, <1>2, <2>5, StartOfLonger
  <2> HIDE DEF m
  <2> DEFINE S == Spots \cup {Mark}
             h == SubSeq(p, 1, m)
  <2>8. h \in Seq(S) /\ f \in Seq(S) /\ Len(h) \in Nat
    <3>1. \A j \in 1 .. m : p[j] \in S
      <4>1. \A j \in 1 .. Len(p) : p[j] \in Spots
        BY <1>1, ElementOfSeq
      <4>2. \A j \in 1 .. m : j \in 1 .. Len(p)
        BY <1>2, <2>5
      <4>3. QED
        BY <4>1, <4>2
    <3>2. 1 \in Int /\ m \in Int
      BY <2>5
    <3> HIDE DEF S
    <3>3. h \in Seq(S)
      BY <3>1, <3>2, SubSeqProperties
    <3>4. <<Mark>> \in Seq(S)
      BY DEF S
    <3> HIDE DEF h
    <3>5. h \o <<Mark>> \in Seq(S)
      BY <3>3, <3>4, ConcatProperties
    <3>6. QED
      BY <2>1, <3>3, <3>5, LenProperties DEF h
  <2>9. Contains(f, Mark)
    <3> HIDE DEF h
    <3>1. f = h \o <<Mark>>
      BY <2>1 DEF h
    <3>2. <<Mark>> \in Seq(S) /\ Len(<<Mark>>) = 1
      OBVIOUS
    <3> HIDE DEF S
    <3>3. /\ Len(f) = Len(h) + Len(<<Mark>>)
          /\ \A i \in 1 .. Len(h) + Len(<<Mark>>) :
                f[i] = IF i <= Len(h) THEN h[i] ELSE <<Mark>>[i - Len(h)]
      BY <2>8, <3>1, <3>2, ConcatProperties
    <3>4. /\ Len(h) + 1 \in 1 .. Len(f) /\ ~(Len(h) + 1 <= Len(h))
          /\ Len(h) + 1 - Len(h) = 1 /\ Len(h) + 1 \in 1 .. Len(h) + Len(<<Mark>>)
      BY <2>8, <3>2, <3>3
    <3>5. f[Len(h) + 1] = <<Mark>>[1]
      BY <3>3, <3>4
    <3>6. f[Len(h) + 1] = Mark
      BY <3>5
    <3>7. QED
      BY <3>4, <3>6 DEF Contains
  <2>10. ff = f
    <3>1. Chars(k, 0) = <<>>
      BY DEF Chars
    <3>2. f \o <<>> = f
      BY <2>8, ConcatEmptySeq
    <3>3. ff = f \o <<>> \o <<>>
      BY <2>4, <2>9, <3>1 DEF FileAfter
    <3>4. QED
      BY <3>2, <3>3
  <2>11. ww = lim
    BY <2>4 DEF CountAfter
  <2>12. ff = SubSeq(pp, 1, Kept(lines, k, lim)) \o <<Mark>>
    BY <2>1, <2>6, <2>7, <2>10
  <2> HIDE DEF t, p, c, ff, ww
  <2>13. Copied(lines, k, lim, ff, ww) <=>
            ff = SubSeq(pp, 1, Kept(lines, k, lim)) \o <<Mark>> /\ ww = lim
    BY <1>1, <2>2, CopiedIs
  <2>14. QED
    BY <2>11, <2>12, <2>13
<1>8. QED
    BY <1>6, <1>7

-----------------------------------------------------------------------------
(* The inductive invariant. *)

Line == UNION {Lines[s] : s \in Stream}

Prints == {print \in [stream : Stream, line : Line] : print.line \in Lines[print.stream]}

Point == {"wait", "join_stdout", "join_stderr", "extract", "returned", "raised"}

\* Only who is alive prints; what is in a pipe was printed to it.
TypeInv ==
    /\ limit \in Limits
    /\ alive \subseteq Process
    /\ printing \in [Process -> Prints \cup {Idle}]
    /\ \A p \in Process \ alive : printing[p] = Idle
    /\ printed \in [Stream -> Seq(Line)]
    /\ read \in [Stream -> Nat]
    /\ file = [s \in Stream |-> file[s]]
    /\ written = [s \in Stream |-> written[s]]
    /\ ended \subseteq Stream
    /\ run \in [pc : Point, thread : Nat]

Inside(s) == {q \in Process : printing[q].stream = s}

\* A pipe is no fuller than it may be, the prints it waits for included.
PipeInv(s) ==
    /\ printed[s] \in Seq(Lines[s])
    /\ read[s] <= Len(printed[s])
    /\ Len(printed[s]) - read[s] <= Capacity
    /\ Len(printed[s]) + Cardinality(Inside(s)) <= MaxLines

\* The file and the count are those of the lines that were read.
CopyInv(s) == Copied(printed[s], read[s], limit, file[s], written[s])

\* A thread ends with the pipe or dies of a line before it.
EndInv == \A s \in ended : Undecodable(s) \/ (alive = {} /\ read[s] = Len(printed[s]))

\* The lines of the given kinds, among the first k, that a file has.
FoundIn(lines, k, f, kinds) ==
    {i \in 1 .. k :
        /\ lines[i].kind \in kinds
        /\ \A place \in 1 .. Len(lines[i].chars) - 1 : Contains(f, <<i, place>>)}

\* What Extract answers.
Answer(lines, k, f) ==
    LET stops == FoundIn(lines, k, f, {"thread", "scalar"})
    IN  IF stops = {} THEN [pc |-> "returned", thread |-> 0]
        ELSE IF lines[Min(stops)].kind = "scalar" THEN [pc |-> "raised", thread |-> 0]
        ELSE [pc |-> "returned", thread |-> Min(stops)]

\* run() is beyond a thread's join only when the thread has ended, and what it
\* answered is what the file still says.
RunInv ==
    /\ run.pc \in {"join_stderr", "extract", "returned", "raised"} => "stdout" \in ended
    /\ run.pc \in {"extract", "returned", "raised"} => "stderr" \in ended
    /\ IF run.pc \in {"returned", "raised"}
       THEN run = Answer(printed["stdout"], read["stdout"], file["stdout"])
       ELSE run.thread = 0

IInv ==
    /\ TypeInv
    /\ \A s \in Stream : PipeInv(s) /\ CopyInv(s)
    /\ EndInv
    /\ RunInv

-----------------------------------------------------------------------------
(* Facts about states that satisfy it. *)

\* There are finitely many processes.
LEMMA ProcessFinite == IsFiniteSet(Process)
<1>1. Process = Background \cup {"agent"}
    BY DEF Process
<1>2. QED
    BY <1>1, BackgroundAssumption, FS_AddElement

\* A line has a kind, and characters.
LEMMA LineShape ==
    ASSUME NEW s \in Stream, NEW line \in Lines[s]
    PROVE  line.kind \in Kind /\ line.chars \in Seq(Widths) \ {<<>>} /\ line \in Line
    BY LineAssumption DEF Widths, Line

\* What is in a pipe are lines.
LEMMA PrintedProper ==
    ASSUME TypeInv, NEW s \in Stream
    PROVE  /\ Proper(printed[s]) /\ printed[s] \in Seq(Line) /\ Len(printed[s]) \in Nat
           /\ \A i \in 1 .. Len(printed[s]) : printed[s][i] \in Line
<1>1. printed[s] \in Seq(Line)
    BY DEF TypeInv
<1>2. Len(printed[s]) \in Nat /\ \A i \in 1 .. Len(printed[s]) : printed[s][i] \in Line
    BY <1>1, LenProperties, ElementOfSeq
<1>3. \A line \in Line : line.chars \in Seq(Widths) \ {<<>>}
    BY LineShape DEF Line
<1>4. QED
    BY <1>1, <1>2, <1>3 DEF Proper

\* A print has a stream and one of its lines; nobody idle has.
LEMMA PrintShape ==
    ASSUME TypeInv, NEW p \in Process
    PROVE  /\ printing[p] # Idle => /\ printing[p].stream \in Stream
                                    /\ printing[p].line \in Lines[printing[p].stream]
                                    /\ p \in alive
           /\ printing[p] = Idle => printing[p].stream \notin Stream
    BY DEF TypeInv, Prints, Idle, Stream

\* A step that only moves run() on.
LEMMA Moves ==
    ASSUME NEW from, NEW to, Proceed(from, to), TypeInv
    PROVE  /\ run.pc = from /\ run' = [pc |-> to, thread |-> run.thread]
           /\ UNCHANGED <<limit, alive, printing, printed, read, file, written, ended>>
    BY DEF Proceed, TypeInv

\* What Copy does to one stream, and that it leaves the other one alone.
LEMMA CopyIs ==
    ASSUME TypeInv, NEW s \in Stream, Copy(s), read[s] <= Len(printed[s])
    PROVE  LET lines == printed[s]
               k == read[s] + 1
               c == lines[k].chars
               n == Fitting(c, Room(c, limit, written[s]))
           IN  /\ s \notin ended /\ k \in 1 .. Len(lines) /\ lines[k].kind # "bytes"
               /\ read' = [read EXCEPT ![s] = k]
               /\ file' = [file EXCEPT ![s] = FileAfter(file[s], k, c, n)]
               /\ written' = [written EXCEPT ![s] = CountAfter(written[s], c, n, limit)]
               /\ UNCHANGED <<limit, alive, printing, printed, ended, run>>
<1> DEFINE k == read[s] + 1
           c == printed[s][k].chars
           n == Fitting(c, Room(c, limit, written[s]))
<1>1. k \in Nat \ {0} /\ Len(printed[s]) \in Nat
    BY PrintedProper DEF TypeInv
<1>2. k \in 1 .. Len(printed[s])
    BY <1>1 DEF Copy
<1>3. Room(c, limit, written[s]) = IF limit = 0 THEN Total(c) ELSE limit - written[s]
    BY DEF Room
<1>4. /\ s \notin ended /\ printed[s][k].kind # "bytes"
      /\ read' = [read EXCEPT ![s] = k]
      /\ UNCHANGED <<limit, alive, printing, printed, ended, run>>
    BY DEF Copy
<1>5. file' = [file EXCEPT ![s] = FileAfter(file[s], k, c, n)]
    BY <1>3 DEF Copy, FileAfter, Marked
<1>6. written' = [written EXCEPT ![s] = CountAfter(written[s], c, n, limit)]
    BY <1>3 DEF Copy, CountAfter, CountCut
<1>7. QED
    BY <1>2, <1>4, <1>5, <1>6

\* What is printed extends what was; nothing else changes but who prints.
LEMMA EndPrintIs ==
    ASSUME TypeInv, NEW p \in Process, EndPrint(p)
    PROVE  \E s \in Stream : \E line \in Lines[s] :
            /\ printing[p] = [stream |-> s, line |-> line] /\ p \in alive
            /\ Len(printed[s]) - read[s] < Capacity
            /\ printed' = [printed EXCEPT ![s] = Append(printed[s], line)]
            /\ printing' = [printing EXCEPT ![p] = Idle]
            /\ UNCHANGED <<limit, alive, read, file, written, ended, run>>
<1>1. printing[p] \in Prints
    BY DEF EndPrint, TypeInv
<1>2. PICK s \in Stream : \E line \in Lines[s] : printing[p] = [stream |-> s, line |-> line]
    BY <1>1 DEF Prints
<1>3. PICK line \in Lines[s] : printing[p] = [stream |-> s, line |-> line]
    BY <1>2
<1>4. printing[p].stream = s /\ printing[p].line = line
    BY <1>3
<1>5. p \in alive
    BY PrintShape DEF EndPrint
<1>6. /\ Len(printed[s]) - read[s] < Capacity
      /\ printed' = [printed EXCEPT ![s] = Append(printed[s], line)]
      /\ printing' = [printing EXCEPT ![p] = Idle]
      /\ UNCHANGED <<limit, alive, read, file, written, ended, run>>
    BY <1>4 DEF EndPrint
<1>7. QED
    BY <1>3, <1>5, <1>6

\* A pipe's lines stay where they are when one is added.
LEMMA AppendKeeps ==
    ASSUME NEW T, NEW lines \in Seq(T), NEW line \in T
    PROVE  /\ Append(lines, line) \in Seq(T)
           /\ Len(lines) \in Nat
           /\ Len(Append(lines, line)) = Len(lines) + 1
           /\ Append(lines, line)[Len(lines) + 1] = line
           /\ SameUpTo(Len(lines), lines, Append(lines, line))
    BY AppendProperties, LenProperties DEF SameUpTo

\* The least line found.
LEMMA MinIs ==
    ASSUME NEW T, T \subseteq Nat, T # {}
    PROVE  Min(T) \in T /\ \A n \in T : Min(T) <= n
    BY MinExists DEF Min

\* The session that is answered is that of a line that was read.
LEMMA AnswerIs ==
    ASSUME NEW lines, NEW k \in Nat, NEW f
    PROVE  Answer(lines, k, f) \in [pc : {"returned", "raised"}, thread : 0 .. k]
<1> DEFINE stops == FoundIn(lines, k, f, {"thread", "scalar"})
<1>1. stops \subseteq 1 .. k /\ stops \subseteq Nat
    BY DEF FoundIn
<1> HIDE DEF stops
<1>2. stops # {} => Min(stops) \in 1 .. k
    BY <1>1, MinIs
<1>3. CASE stops = {}
    BY <1>3 DEF Answer, stops
<1>4. CASE stops # {}
  <2>1. Answer(lines, k, f) = IF lines[Min(stops)].kind = "scalar"
                              THEN [pc |-> "raised", thread |-> 0]
                              ELSE [pc |-> "returned", thread |-> Min(stops)]
    BY <1>4 DEF Answer, stops
  <2>2. QED
    BY <1>2, <1>4, <2>1
<1>5. QED
    BY <1>3, <1>4

\* What is answered is about the lines that were read only.
LEMMA AnswerSame ==
    ASSUME NEW a, NEW b, NEW k \in Nat, NEW f, SameUpTo(k, a, b)
    PROVE  Answer(a, k, f) = Answer(b, k, f)
<1> DEFINE kinds == {"thread", "scalar"}
<1>1. \A i \in 1 .. k : a[i] = b[i]
    BY DEF SameUpTo
<1>2. FoundIn(a, k, f, kinds) = FoundIn(b, k, f, kinds)
    BY <1>1 DEF FoundIn
<1> DEFINE stops == FoundIn(a, k, f, kinds)
<1>3. stops \subseteq 1 .. k /\ stops \subseteq Nat
    BY DEF FoundIn
<1> HIDE DEF stops
<1>4. stops # {} => a[Min(stops)] = b[Min(stops)]
    BY <1>1, <1>3, MinIs
<1>5. QED
    BY <1>2, <1>4 DEF Answer, stops

\* Extract answers from what has been read and copied of stdout.
LEMMA ExtractIs ==
    ASSUME Extract
    PROVE  /\ run.pc = "extract"
           /\ run' = Answer(printed["stdout"], read["stdout"], file["stdout"])
           /\ UNCHANGED <<limit, alive, printing, printed, read, file, written, ended>>
<1>1. Found({"thread", "scalar"})
        = FoundIn(printed["stdout"], read["stdout"], file["stdout"], {"thread", "scalar"})
    BY DEF Found, FoundIn, Readable
<1>2. QED
    BY <1>1 DEF Extract, Answer

\* run() goes on without an answer.
Advance == Wait \/ JoinStdout \/ JoinStderr

\* The steps, one by one.
LEMMA NextIs ==
    ASSUME [Next]_vars
    PROVE  \/ UNCHANGED vars
           \/ \E p \in Process : StartBackground(p)
           \/ \E p \in Process : \E s \in Stream : \E line \in Lines[s] : BeginPrint(p, s, line)
           \/ \E p \in Process : EndPrint(p)
           \/ \E p \in Process : Exit(p)
           \/ \E s \in Stream : Copy(s)
           \/ \E s \in Stream : EndCopy(s)
           \/ Advance
           \/ Extract
<1>1. CASE UNCHANGED vars
    BY <1>1
<1>2. ASSUME NEW p \in Process,
             \/ StartBackground(p)
             \/ \E s \in Stream : \E line \in Lines[s] : BeginPrint(p, s, line)
             \/ EndPrint(p)
             \/ Exit(p)
      PROVE  \/ StartBackground(p)
             \/ \E s \in Stream : \E line \in Lines[s] : BeginPrint(p, s, line)
             \/ EndPrint(p)
             \/ Exit(p)
    BY <1>2
<1>3. ASSUME NEW s \in Stream, ThreadStep(s)
      PROVE  Copy(s) \/ EndCopy(s)
    BY <1>3 DEF ThreadStep
<1>4. CASE RunStep
    BY <1>4 DEF RunStep, Advance
<1>5. CASE Next
    BY <1>2, <1>3, <1>4, <1>5 DEF Next
<1>6. QED
    BY <1>1, <1>5

\* Every step keeps the shapes.
LEMMA TypeInvStep ==
    ASSUME IInv, [Next]_vars
    PROVE  TypeInv'
<1>1. TypeInv /\ \A s \in Stream : read[s] <= Len(printed[s])
    BY DEF IInv, PipeInv
<1>2. CASE UNCHANGED vars
    BY <1>1, <1>2 DEF TypeInv, vars
<1>3. ASSUME NEW p \in Process, StartBackground(p)
      PROVE  TypeInv'
    BY <1>1, <1>3 DEF TypeInv, StartBackground
<1>4. ASSUME NEW p \in Process, NEW s \in Stream, NEW line \in Lines[s], BeginPrint(p, s, line)
      PROVE  TypeInv'
  <2> DEFINE print == [stream |-> s, line |-> line]
  <2>1. print \in Prints
    BY LineShape DEF Prints
  <2>2. printing' = [printing EXCEPT ![p] = print] /\ p \in alive
        /\ UNCHANGED <<limit, alive, printed, read, file, written, ended, run>>
    BY <1>4 DEF BeginPrint
  <2> HIDE DEF print
  <2>3. QED
    BY <1>1, <2>1, <2>2 DEF TypeInv
<1>5. ASSUME NEW p \in Process, EndPrint(p)
      PROVE  TypeInv'
  <2>1. PICK s \in Stream : \E line \in Lines[s] :
            /\ printed' = [printed EXCEPT ![s] = Append(printed[s], line)]
            /\ printing' = [printing EXCEPT ![p] = Idle]
            /\ UNCHANGED <<limit, alive, read, file, written, ended, run>>
    BY <1>1, <1>5, EndPrintIs
  <2>2. PICK line \in Lines[s] :
            /\ printed' = [printed EXCEPT ![s] = Append(printed[s], line)]
            /\ printing' = [printing EXCEPT ![p] = Idle]
            /\ UNCHANGED <<limit, alive, read, file, written, ended, run>>
    BY <2>1
  <2>3. Append(printed[s], line) \in Seq(Line)
    BY <1>1, LineShape, PrintedProper, AppendProperties
  <2>4. printed' \in [Stream -> Seq(Line)]
    BY <1>1, <2>2, <2>3 DEF TypeInv
  <2>5. /\ printing' \in [Process -> Prints \cup {Idle}]
        /\ \A q \in Process \ alive' : printing'[q] = Idle
    BY <1>1, <2>2 DEF TypeInv
  <2>6. QED
    BY <1>1, <2>2, <2>4, <2>5 DEF TypeInv
<1>6. ASSUME NEW p \in Process, Exit(p)
      PROVE  TypeInv'
    BY <1>1, <1>6 DEF TypeInv, Exit
<1>7. ASSUME NEW s \in Stream, Copy(s)
      PROVE  TypeInv'
  <2> DEFINE k == read[s] + 1
             c == printed[s][k].chars
             n == Fitting(c, Room(c, limit, written[s]))
             f == FileAfter(file[s], k, c, n)
             w == CountAfter(written[s], c, n, limit)
  <2>1. /\ read' = [read EXCEPT ![s] = k]
        /\ file' = [file EXCEPT ![s] = f]
        /\ written' = [written EXCEPT ![s] = w]
        /\ UNCHANGED <<limit, alive, printing, printed, ended, run>>
    BY <1>1, <1>7, CopyIs
  <2>2. k \in Nat
    BY <1>1 DEF TypeInv
  <2> HIDE DEF k, f, w
  <2>3. read' \in [Stream -> Nat]
    BY <1>1, <2>1, <2>2 DEF TypeInv
  <2>4. file' = [t \in Stream |-> file'[t]] /\ written' = [t \in Stream |-> written'[t]]
    BY <1>1, <2>1 DEF TypeInv
  <2>5. QED
    BY <1>1, <2>1, <2>3, <2>4 DEF TypeInv
<1>8. ASSUME NEW s \in Stream, EndCopy(s)
      PROVE  TypeInv'
    BY <1>1, <1>8 DEF TypeInv, EndCopy
<1>9. ASSUME NEW from, NEW to \in Point, Proceed(from, to)
      PROVE  TypeInv'
  <2>1. /\ run' = [pc |-> to, thread |-> run.thread]
        /\ UNCHANGED <<limit, alive, printing, printed, read, file, written, ended>>
    BY <1>1, <1>9, Moves
  <2>2. run.thread \in Nat
    BY <1>1 DEF TypeInv
  <2>3. run' \in [pc : Point, thread : Nat]
    BY <2>1, <2>2
  <2>4. QED
    BY <1>1, <2>1, <2>3 DEF TypeInv
<1>10. CASE Extract
  <2>1. read["stdout"] \in Nat
    BY <1>1 DEF TypeInv, Stream
  <2>2. run' \in [pc : {"returned", "raised"}, thread : 0 .. read["stdout"]]
    BY <1>10, <2>1, ExtractIs, AnswerIs
  <2>3. run' \in [pc : Point, thread : Nat]
    BY <2>1, <2>2 DEF Point
  <2>4. UNCHANGED <<limit, alive, printing, printed, read, file, written, ended>>
    BY <1>10, ExtractIs
  <2>5. QED
    BY <1>1, <2>3, <2>4 DEF TypeInv
<1>11. CASE Advance
  <2>1. \E from \in Point : \E to \in Point : Proceed(from, to)
    BY <1>11 DEF Advance, Wait, JoinStdout, JoinStderr, Point
  <2>2. QED
    BY <1>9, <2>1
<1>12. QED
    BY <1>2, <1>3, <1>4, <1>5, <1>6, <1>7, <1>8, <1>10, <1>11, NextIs

\* Beginning a print takes a place in the pipe, ending it gives it to the line.
LEMMA InsideChanges ==
    ASSUME TypeInv, NEW p \in Process, NEW t \in Stream
    PROVE  /\ Cardinality(Inside(t)) \in Nat
           /\ \A s \in Stream : \A line \in Lines[s] :
                BeginPrint(p, s, line) =>
                    Cardinality(Inside(t))' = IF t = s THEN Cardinality(Inside(t)) + 1
                                              ELSE Cardinality(Inside(t))
           /\ \A s \in Stream :
                /\ printing[p].stream = s
                /\ printing' = [printing EXCEPT ![p] = Idle]
                => Cardinality(Inside(t))' = IF t = s THEN Cardinality(Inside(t)) - 1
                                             ELSE Cardinality(Inside(t))
<1>1. IsFiniteSet(Inside(t)) /\ Cardinality(Inside(t)) \in Nat
  <2>1. Inside(t) \subseteq Process
    BY DEF Inside
  <2>2. QED
    BY <2>1, ProcessFinite, FS_Subset, FS_CardinalityType
<1>2. printing = [q \in Process |-> printing[q]]
    BY DEF TypeInv
<1>3. ASSUME NEW s \in Stream, NEW line \in Lines[s], BeginPrint(p, s, line)
      PROVE  Cardinality(Inside(t))' = IF t = s THEN Cardinality(Inside(t)) + 1
                                       ELSE Cardinality(Inside(t))
  <2>1. /\ printing[p] = Idle /\ printing[p].stream \notin Stream
        /\ printing'[p].stream = s
        /\ \A q \in Process \ {p} : printing'[q] = printing[q]
    BY <1>2, <1>3, PrintShape DEF BeginPrint
  <2>2. CASE t = s
    <3>1. Inside(t)' = Inside(t) \cup {p} /\ p \notin Inside(t)
      BY <2>1, <2>2 DEF Inside
    <3>2. QED
      BY <1>1, <2>2, <3>1, FS_AddElement
  <2>3. CASE t # s
    <3>1. Inside(t)' = Inside(t)
      BY <2>1, <2>3 DEF Inside
    <3>2. QED
      BY <2>3, <3>1
  <2>4. QED
    BY <2>2, <2>3
<1>4. ASSUME NEW s \in Stream, printing[p].stream = s,
             printing' = [printing EXCEPT ![p] = Idle]
      PROVE  Cardinality(Inside(t))' = IF t = s THEN Cardinality(Inside(t)) - 1
                                       ELSE Cardinality(Inside(t))
  <2>1. /\ printing'[p].stream \notin Stream
        /\ \A q \in Process \ {p} : printing'[q] = printing[q]
    BY <1>2, <1>4 DEF Idle, Stream
  <2>2. CASE t = s
    <3>1. Inside(t)' = Inside(t) \ {p} /\ p \in Inside(t)
      BY <1>4, <2>1, <2>2 DEF Inside
    <3>2. QED
      BY <1>1, <2>2, <3>1, FS_RemoveElement
  <2>3. CASE t # s
    <3>1. Inside(t)' = Inside(t)
      BY <1>4, <2>1, <2>3 DEF Inside
    <3>2. QED
      BY <2>3, <3>1
  <2>4. QED
    BY <2>2, <2>3
<1>5. QED
    BY <1>1, <1>3, <1>4

\* Every step keeps the pipes.
LEMMA PipeInvStep ==
    ASSUME IInv, [Next]_vars, NEW t \in Stream
    PROVE  PipeInv(t)'
<1>1. TypeInv /\ PipeInv(t) /\ \A s \in Stream : read[s] <= Len(printed[s])
    BY DEF IInv, PipeInv
<1>2. /\ read[t] \in Nat /\ Len(printed[t]) \in Nat /\ Cardinality(Inside(t)) \in Nat
      /\ Capacity \in Nat /\ MaxLines \in Nat
  <2>1. read[t] \in Nat
    BY <1>1 DEF TypeInv
  <2>2. Cardinality(Inside(t)) \in Nat
    BY <1>1, InsideChanges DEF Process
  <2>3. QED
    BY <1>1, <2>1, <2>2, PrintedProper, StreamBounds
<1>3. ASSUME UNCHANGED <<printing, printed, read>>
      PROVE  PipeInv(t)'
    BY <1>1, <1>3 DEF PipeInv, Inside
<1>4. ASSUME NEW p \in Process, NEW s \in Stream, NEW line \in Lines[s], BeginPrint(p, s, line)
      PROVE  PipeInv(t)'
  <2>1. /\ UNCHANGED <<printed, read>>
        /\ Len(printed[s]) + Cardinality(Inside(s)) < MaxLines
    BY <1>4 DEF BeginPrint, Inside
  <2>2. Cardinality(Inside(t))' = IF t = s THEN Cardinality(Inside(t)) + 1
                                  ELSE Cardinality(Inside(t))
    BY <1>1, <1>4, InsideChanges
  <2>3. Len(printed[t]) + Cardinality(Inside(t))' <= MaxLines
    BY <1>1, <1>2, <2>1, <2>2 DEF PipeInv
  <2>4. QED
    BY <1>1, <2>1, <2>3 DEF PipeInv
<1>5. ASSUME NEW p \in Process, EndPrint(p)
      PROVE  PipeInv(t)'
  <2>1. PICK s \in Stream : \E line \in Lines[s] :
            /\ printing[p] = [stream |-> s, line |-> line]
            /\ Len(printed[s]) - read[s] < Capacity
            /\ printed' = [printed EXCEPT ![s] = Append(printed[s], line)]
            /\ printing' = [printing EXCEPT ![p] = Idle]
            /\ read' = read
    BY <1>1, <1>5, EndPrintIs
  <2>2. PICK line \in Lines[s] :
            /\ printing[p] = [stream |-> s, line |-> line]
            /\ Len(printed[s]) - read[s] < Capacity
            /\ printed' = [printed EXCEPT ![s] = Append(printed[s], line)]
            /\ printing' = [printing EXCEPT ![p] = Idle]
            /\ read' = read
    BY <2>1
  <2>3. printing[p].stream = s
    BY <2>2
  <2>4. Cardinality(Inside(t))' = IF t = s THEN Cardinality(Inside(t)) - 1
                                  ELSE Cardinality(Inside(t))
    BY <1>1, <2>2, <2>3, InsideChanges
  <2>5. printed'[t] = IF t = s THEN Append(printed[t], line) ELSE printed[t]
    BY <1>1, <2>2 DEF TypeInv
  <2>6. CASE t = s
    <3>1. /\ Append(printed[t], line) \in Seq(Lines[t])
          /\ Len(Append(printed[t], line)) = Len(printed[t]) + 1
      BY <1>1, <2>6, AppendKeeps DEF PipeInv
    <3>2. printed'[t] = Append(printed[t], line)
      BY <2>5, <2>6
    <3>3. printed'[t] \in Seq(Lines[t]) /\ Len(printed'[t]) = Len(printed[t]) + 1
      BY <3>1, <3>2
    <3>4. /\ read'[t] <= Len(printed'[t])
          /\ Len(printed'[t]) - read'[t] <= Capacity
      BY <1>1, <1>2, <2>2, <2>6, <3>3 DEF PipeInv
    <3>5. Len(printed'[t]) + Cardinality(Inside(t))' <= MaxLines
      BY <1>1, <1>2, <2>4, <2>6, <3>3 DEF PipeInv
    <3>6. QED
      BY <3>3, <3>4, <3>5 DEF PipeInv
  <2>7. CASE t # s
    BY <1>1, <2>2, <2>4, <2>5, <2>7 DEF PipeInv
  <2>8. QED
    BY <2>6, <2>7
<1>6. ASSUME NEW s \in Stream, Copy(s)
      PROVE  PipeInv(t)'
  <2>1. /\ read[s] + 1 \in 1 .. Len(printed[s])
        /\ read' = [read EXCEPT ![s] = read[s] + 1]
        /\ UNCHANGED <<printing, printed>>
    BY <1>1, <1>6, CopyIs
  <2>2. read'[t] = IF t = s THEN read[t] + 1 ELSE read[t]
    BY <1>1, <2>1 DEF TypeInv
  <2>3. Inside(t)' = Inside(t)
    BY <2>1 DEF Inside
  <2>4. read'[t] <= Len(printed[t]) /\ Len(printed[t]) - read'[t] <= Capacity
    BY <1>1, <1>2, <2>1, <2>2 DEF PipeInv
  <2>5. QED
    BY <1>1, <2>1, <2>3, <2>4 DEF PipeInv
<1>7. CASE UNCHANGED vars
    BY <1>3, <1>7 DEF vars
<1>8. ASSUME NEW p \in Process, StartBackground(p) \/ Exit(p)
      PROVE  PipeInv(t)'
    BY <1>3, <1>8 DEF StartBackground, Exit
<1>9. ASSUME NEW s \in Stream, EndCopy(s)
      PROVE  PipeInv(t)'
    BY <1>3, <1>9 DEF EndCopy
<1>10. CASE Advance \/ Extract
    BY <1>3, <1>10 DEF Advance, Wait, JoinStdout, JoinStderr, Proceed, Extract
<1>11. QED
    BY <1>4, <1>5, <1>6, <1>7, <1>8, <1>9, <1>10, NextIs

\* What has been copied is about the lines that were read only.
LEMMA CopiedSame ==
    ASSUME NEW a, NEW b, NEW k \in Nat, SameUpTo(k, a, b), NEW lim, NEW f, NEW w,
           Copied(a, k, lim, f, w)
    PROVE  Copied(b, k, lim, f, w)
<1>1. Text(a, k) = Text(b, k) /\ Places(a, k) = Places(b, k)
    BY TextSame
<1>2. Complete(a, k, lim) <=> Complete(b, k, lim)
    BY <1>1 DEF Complete
<1>3. Kept(a, k, lim) = Kept(b, k, lim)
    BY <1>1 DEF Kept
<1>4. QED
    BY <1>1, <1>2, <1>3 DEF Copied

\* What is printed is added behind what was read.
LEMMA PrintedBehind ==
    ASSUME TypeInv, \A s \in Stream : read[s] <= Len(printed[s]),
           NEW p \in Process, EndPrint(p), NEW t \in Stream
    PROVE  /\ SameUpTo(Len(printed[t]), printed[t], printed'[t])
           /\ SameUpTo(read[t], printed[t], printed'[t])
           /\ read[t] \in Nat /\ Len(printed[t]) \in Nat /\ Len(printed'[t]) \in Nat
           /\ Len(printed[t]) <= Len(printed'[t])
<1>1. PICK s \in Stream : \E line \in Lines[s] :
            printed' = [printed EXCEPT ![s] = Append(printed[s], line)]
    BY EndPrintIs
<1>2. PICK line \in Lines[s] : printed' = [printed EXCEPT ![s] = Append(printed[s], line)]
    BY <1>1
<1>3. /\ line \in Line /\ printed[t] \in Seq(Line) /\ Len(printed[t]) \in Nat
      /\ read[t] \in Nat /\ read[t] <= Len(printed[t])
    BY LineShape, PrintedProper DEF TypeInv
<1>4. printed'[t] = printed[t] \/ printed'[t] = Append(printed[t], line)
    BY <1>2 DEF TypeInv
<1>5. /\ SameUpTo(Len(printed[t]), printed[t], printed'[t])
      /\ Len(printed'[t]) \in Nat /\ Len(printed[t]) <= Len(printed'[t])
  <2>1. CASE printed'[t] = printed[t]
    BY <1>3, <2>1 DEF SameUpTo
  <2>2. CASE printed'[t] = Append(printed[t], line)
    <3>1. /\ Len(Append(printed[t], line)) = Len(printed[t]) + 1
          /\ SameUpTo(Len(printed[t]), printed[t], Append(printed[t], line))
      BY <1>3, AppendKeeps
    <3>2. QED
      BY <1>3, <2>2, <3>1
  <2>3. QED
    BY <1>4, <2>1, <2>2
<1>6. SameUpTo(read[t], printed[t], printed'[t])
    BY <1>3, <1>5 DEF SameUpTo
<1>7. QED
    BY <1>3, <1>5, <1>6

\* Every step keeps the files.
LEMMA CopyInvStep ==
    ASSUME IInv, [Next]_vars, NEW t \in Stream
    PROVE  CopyInv(t)'
<1>1. /\ TypeInv /\ CopyInv(t) /\ \A s \in Stream : read[s] <= Len(printed[s])
      /\ limit \in Nat
    BY StreamBounds DEF IInv, PipeInv, TypeInv
<1>2. ASSUME UNCHANGED <<limit, printed, read, file, written>>
      PROVE  CopyInv(t)'
    BY <1>1, <1>2 DEF CopyInv
<1>3. ASSUME NEW p \in Process, EndPrint(p)
      PROVE  CopyInv(t)'
  <2>1. UNCHANGED <<limit, read, file, written>>
    BY <1>3 DEF EndPrint
  <2>2. read[t] \in Nat /\ SameUpTo(read[t], printed[t], printed'[t])
    BY <1>1, <1>3, PrintedBehind
  <2>3. Copied(printed[t], read[t], limit, file[t], written[t])
    BY <1>1 DEF CopyInv
  <2>4. Copied(printed'[t], read[t], limit, file[t], written[t])
    BY <2>2, <2>3, CopiedSame
  <2>5. QED
    BY <2>1, <2>4 DEF CopyInv
<1>4. ASSUME NEW s \in Stream, Copy(s)
      PROVE  CopyInv(t)'
  <2> DEFINE lines == printed[s]
             k == read[s] + 1
             c == lines[k].chars
             n == Fitting(c, Room(c, limit, written[s]))
             f == FileAfter(file[s], k, c, n)
             w == CountAfter(written[s], c, n, limit)
  <2>1. /\ k \in 1 .. Len(lines)
        /\ read' = [read EXCEPT ![s] = k]
        /\ file' = [file EXCEPT ![s] = f]
        /\ written' = [written EXCEPT ![s] = w]
        /\ UNCHANGED <<limit, printed>>
    BY <1>1, <1>4, CopyIs
  <2>2. CASE t = s
    <3>1. Copied(lines, k - 1, limit, file[s], written[s])
      <4>1. k - 1 = read[s]
        BY <1>1 DEF TypeInv
      <4>2. QED
        BY <1>1, <2>2, <4>1 DEF CopyInv
    <3>2. Proper(lines)
      BY <1>1, PrintedProper
    <3>3. Copied(lines, k, limit, f, w)
      BY <1>1, <2>1, <3>1, <3>2, CopyLine
    <3> HIDE DEF k, f, w
    <3>4. read'[t] = k /\ file'[t] = f /\ written'[t] = w
      BY <1>1, <2>1, <2>2 DEF TypeInv
    <3>5. QED
      BY <2>1, <2>2, <3>3, <3>4 DEF CopyInv
  <2>3. CASE t # s
    <3> HIDE DEF k, f, w
    <3>1. read'[t] = read[t] /\ file'[t] = file[t] /\ written'[t] = written[t]
      BY <1>1, <2>1, <2>3 DEF TypeInv
    <3>2. QED
      BY <1>1, <2>1, <3>1 DEF CopyInv
  <2>4. QED
    BY <2>2, <2>3
<1>5. CASE UNCHANGED vars
    BY <1>2, <1>5 DEF vars
<1>6. ASSUME NEW p \in Process, StartBackground(p) \/ Exit(p)
      PROVE  CopyInv(t)'
    BY <1>2, <1>6 DEF StartBackground, Exit
<1>7. ASSUME NEW p \in Process, NEW s \in Stream, NEW line \in Lines[s], BeginPrint(p, s, line)
      PROVE  CopyInv(t)'
    BY <1>2, <1>7 DEF BeginPrint
<1>8. ASSUME NEW s \in Stream, EndCopy(s)
      PROVE  CopyInv(t)'
    BY <1>2, <1>8 DEF EndCopy
<1>9. CASE Advance \/ Extract
    BY <1>2, <1>9 DEF Advance, Wait, JoinStdout, JoinStderr, Proceed, Extract
<1>10. QED
    BY <1>3, <1>4, <1>5, <1>6, <1>7, <1>8, <1>9, NextIs

\* Every step keeps what is known of the threads that have ended.
LEMMA EndInvStep ==
    ASSUME IInv, [Next]_vars
    PROVE  EndInv'
<1>1. /\ TypeInv /\ EndInv /\ \A s \in Stream : read[s] <= Len(printed[s])
      /\ \A s \in ended : s \in Stream
    BY DEF IInv, PipeInv, TypeInv
<1>2. ASSUME UNCHANGED <<printed, read, ended>>, alive = {} => alive' = {}
      PROVE  EndInv'
    BY <1>1, <1>2 DEF EndInv, Undecodable
<1>3. ASSUME NEW p \in Process, EndPrint(p)
      PROVE  EndInv'
  <2>1. p \in alive /\ UNCHANGED <<read, ended>>
    BY <1>1, <1>3, PrintShape DEF EndPrint
  <2>2. ASSUME NEW s \in ended
        PROVE  Undecodable(s)'
    <3>1. PICK i \in read[s] + 1 .. Len(printed[s]) : printed[s][i].kind = "bytes"
      BY <1>1, <2>1 DEF EndInv, Undecodable
    <3>2. /\ SameUpTo(Len(printed[s]), printed[s], printed'[s])
          /\ read[s] \in Nat /\ Len(printed[s]) \in Nat /\ Len(printed'[s]) \in Nat
          /\ Len(printed[s]) <= Len(printed'[s])
      BY <1>1, <1>3, PrintedBehind
    <3>3. i \in 1 .. Len(printed[s]) /\ i \in read'[s] + 1 .. Len(printed'[s])
      BY <2>1, <3>1, <3>2
    <3>4. printed'[s][i] = printed[s][i]
      BY <3>2, <3>3 DEF SameUpTo
    <3>5. QED
      BY <3>1, <3>3, <3>4 DEF Undecodable
  <2>3. QED
    BY <2>1, <2>2 DEF EndInv
<1>4. ASSUME NEW s \in Stream, Copy(s)
      PROVE  EndInv'
  <2>1. /\ s \notin ended /\ read' = [read EXCEPT ![s] = read[s] + 1]
        /\ UNCHANGED <<alive, printed, ended>>
    BY <1>1, <1>4, CopyIs
  <2>2. \A t \in ended : read'[t] = read[t]
    BY <1>1, <2>1 DEF TypeInv
  <2>3. QED
    BY <1>1, <2>1, <2>2 DEF EndInv, Undecodable
<1>5. ASSUME NEW s \in Stream, EndCopy(s)
      PROVE  EndInv'
  <2>1. /\ ended' = ended \cup {s} /\ UNCHANGED <<alive, printed, read>>
        /\ Undecodable(s) \/ (alive = {} /\ read[s] = Len(printed[s]))
    BY <1>5 DEF EndCopy, Holders
  <2>2. QED
    BY <1>1, <2>1 DEF EndInv, Undecodable
<1>6. CASE UNCHANGED vars
    BY <1>2, <1>6 DEF vars
<1>7. ASSUME NEW p \in Process, StartBackground(p) \/ Exit(p)
      PROVE  EndInv'
  <2>1. UNCHANGED <<printed, read, ended>> /\ (alive = {} => alive' = {})
    BY <1>7 DEF StartBackground, Exit
  <2>2. QED
    BY <1>2, <2>1
<1>8. ASSUME NEW p \in Process, NEW s \in Stream, NEW line \in Lines[s], BeginPrint(p, s, line)
      PROVE  EndInv'
    BY <1>2, <1>8 DEF BeginPrint
<1>9. CASE Advance \/ Extract
  <2>1. UNCHANGED <<alive, printed, read, ended>>
    BY <1>9 DEF Advance, Wait, JoinStdout, JoinStderr, Proceed, Extract
  <2>2. QED
    BY <1>2, <2>1
<1>10. QED
    BY <1>3, <1>4, <1>5, <1>6, <1>7, <1>8, <1>9, NextIs

\* Every step keeps what is known of run().
LEMMA RunInvStep ==
    ASSUME IInv, [Next]_vars
    PROVE  RunInv'
<1> DEFINE out == "stdout"
           answer == Answer(printed[out], read[out], file[out])
<1>1. /\ TypeInv /\ RunInv /\ \A s \in Stream : read[s] <= Len(printed[s])
      /\ out \in Stream /\ run \in [pc : Point, thread : Nat]
    BY DEF IInv, PipeInv, TypeInv, Stream
<1>2. ASSUME run' = run, ended \subseteq ended',
             run.pc \in {"returned", "raised"} => answer' = answer
      PROVE  RunInv'
    BY <1>1, <1>2 DEF RunInv
<1>3. ASSUME UNCHANGED <<printed, read, file, run>>, ended \subseteq ended'
      PROVE  RunInv'
    BY <1>2, <1>3
<1>4. ASSUME NEW p \in Process, EndPrint(p)
      PROVE  RunInv'
  <2>1. UNCHANGED <<read, file, ended, run>>
    BY <1>4 DEF EndPrint
  <2>2. read[out] \in Nat /\ SameUpTo(read[out], printed[out], printed'[out])
    BY <1>1, <1>4, PrintedBehind
  <2>3. Answer(printed[out], read[out], file[out]) = Answer(printed'[out], read[out], file[out])
    BY <2>2, AnswerSame
  <2>4. answer' = answer
    BY <2>1, <2>3
  <2>5. QED
    BY <1>2, <2>1, <2>4
<1>5. ASSUME NEW s \in Stream, Copy(s)
      PROVE  RunInv'
  <2> DEFINE k == read[s] + 1
             c == printed[s][k].chars
             n == Fitting(c, Room(c, limit, written[s]))
             f == FileAfter(file[s], k, c, n)
  <2>1. /\ s \notin ended
        /\ read' = [read EXCEPT ![s] = k]
        /\ file' = [file EXCEPT ![s] = f]
        /\ UNCHANGED <<printed, ended, run>>
    BY <1>1, <1>5, CopyIs
  <2> HIDE DEF k, f
  <2>2. ASSUME run.pc \in {"returned", "raised"}
        PROVE  answer' = answer
    <3>1. s # out
      BY <1>1, <2>1, <2>2 DEF RunInv
    <3>2. read'[out] = read[out] /\ file'[out] = file[out]
      BY <1>1, <2>1, <3>1 DEF TypeInv
    <3>3. QED
      BY <2>1, <3>2
  <2>3. QED
    BY <1>2, <2>1, <2>2
<1>6. ASSUME NEW s \in Stream, EndCopy(s)
      PROVE  RunInv'
    BY <1>3, <1>6 DEF EndCopy
<1>7. ASSUME NEW from \in Point, NEW to \in Point, Proceed(from, to),
             from \in {"wait", "join_stdout", "join_stderr"},
             to \in {"join_stdout", "join_stderr", "extract"},
             to \in {"join_stderr", "extract"} => "stdout" \in ended,
             to = "extract" => "stderr" \in ended
      PROVE  RunInv'
  <2>1. run.pc = from /\ run' = [pc |-> to, thread |-> run.thread] /\ ended' = ended
    BY <1>1, <1>7, Moves
  <2>2. run.thread = 0
    BY <1>1, <1>7, <2>1 DEF RunInv
  <2>3. run'.pc = to /\ run'.thread = 0
    BY <2>1, <2>2
  <2>4. run'.pc \notin {"returned", "raised"}
    BY <1>7, <2>3
  <2>5. QED
    BY <1>7, <2>1, <2>3, <2>4 DEF RunInv
<1>8. CASE Advance
  <2>1. CASE Wait
    BY <1>7, <2>1 DEF Wait, Point
  <2>2. CASE JoinStdout
    BY <1>7, <2>2 DEF JoinStdout, Point
  <2>3. CASE JoinStderr
    <3>1. run.pc = "join_stderr"
      BY <2>3 DEF JoinStderr, Proceed
    <3>2. "stdout" \in ended
      BY <1>1, <3>1 DEF RunInv
    <3>3. QED
      BY <1>7, <2>3, <3>2 DEF JoinStderr, Point
  <2>4. QED
    BY <1>8, <2>1, <2>2, <2>3 DEF Advance
<1>9. CASE Extract
  <2>1. /\ run.pc = "extract" /\ run' = answer
        /\ UNCHANGED <<printed, read, file, ended>>
    BY <1>9, ExtractIs
  <2>2. "stdout" \in ended /\ "stderr" \in ended
    BY <1>1, <2>1 DEF RunInv
  <2>3. answer \in [pc : {"returned", "raised"}, thread : 0 .. read[out]]
    <3>1. read[out] \in Nat
      BY <1>1 DEF TypeInv
    <3>2. QED
      BY <3>1, AnswerIs
  <2>4. answer' = answer
    BY <2>1
  <2> HIDE DEF answer
  <2>5. run'.pc \in {"returned", "raised"} /\ run' = answer'
    BY <2>1, <2>3, <2>4
  <2>6. QED
    BY <2>1, <2>2, <2>5 DEF RunInv, answer
<1>10. CASE UNCHANGED vars
    BY <1>3, <1>10 DEF vars
<1>11. ASSUME NEW p \in Process, StartBackground(p) \/ Exit(p)
      PROVE  RunInv'
    BY <1>3, <1>11 DEF StartBackground, Exit
<1>12. ASSUME NEW p \in Process, NEW s \in Stream, NEW line \in Lines[s], BeginPrint(p, s, line)
      PROVE  RunInv'
    BY <1>3, <1>12 DEF BeginPrint
<1>13. QED
    BY <1>4, <1>5, <1>6, <1>8, <1>9, <1>10, <1>11, <1>12, NextIs

\* It holds when the process has been started.
LEMMA InitHolds ==
    ASSUME Init
    PROVE  IInv
<1>1. \A s \in Stream : /\ printed[s] = <<>> /\ read[s] = 0 /\ file[s] = <<>>
                        /\ written[s] = 0
    BY DEF Init
<1>2. TypeInv
  <2>1. <<>> \in Seq(Line)
    BY EmptySeq
  <2>2. run \in [pc : Point, thread : Nat]
    BY DEF Init, Point
  <2>3. alive \subseteq Process
    BY DEF Init, Process
  <2>4. QED
    BY <2>1, <2>2, <2>3 DEF Init, TypeInv
<1>3. ASSUME NEW s \in Stream
      PROVE  PipeInv(s)
  <2>1. Inside(s) = {}
    BY DEF Init, Inside, Idle, Stream
  <2>2. Cardinality(Inside(s)) = 0
    BY <2>1, FS_EmptySet
  <2>3. <<>> \in Seq(Lines[s]) /\ Len(<<>>) = 0
    BY EmptySeq
  <2>4. printed[s] \in Seq(Lines[s]) /\ Len(printed[s]) = 0 /\ read[s] = 0
    BY <1>1, <2>3
  <2>5. Capacity \in Nat /\ MaxLines \in Nat
    BY StreamBounds
  <2>6. QED
    BY <2>2, <2>4, <2>5 DEF PipeInv
<1>4. ASSUME NEW s \in Stream
      PROVE  CopyInv(s)
  <2>1. Text(<<>>, 0) = <<>> /\ Places(<<>>, 0) = <<>> /\ Len(<<>>) = 0
    BY TextStart, EmptySeq
  <2>2. Total(<<>>) = 0
    BY <2>1, EmptySeq, BytesSum DEF Total
  <2>3. limit \in Nat
    BY StreamBounds DEF Init
  <2>4. Complete(<<>>, 0, limit)
    BY <2>1, <2>2, <2>3 DEF Complete
  <2>5. Proper(<<>>)
    BY <2>1 DEF Proper
  <2>6. Copied(<<>>, 0, limit, <<>>, 0)
    BY <2>1, <2>2, <2>3, <2>4, <2>5, CopiedIs
  <2>7. QED
    BY <1>1, <2>6 DEF CopyInv
<1>5. EndInv /\ RunInv
    BY DEF Init, EndInv, RunInv
<1>6. QED
    BY <1>2, <1>3, <1>4, <1>5 DEF IInv

\* The invariant is inductive.
LEMMA IInvHolds == Spec => []IInv
<1>1. Init => IInv
    BY InitHolds
<1>2. IInv /\ [Next]_vars => IInv'
  <2>1. SUFFICES ASSUME IInv, [Next]_vars
                 PROVE  IInv'
    OBVIOUS
  <2>2. TypeInv' /\ EndInv' /\ RunInv'
    BY <2>1, TypeInvStep, EndInvStep, RunInvStep
  <2>3. ASSUME NEW s \in Stream
        PROVE  PipeInv(s)' /\ CopyInv(s)'
    BY <2>1, PipeInvStep, CopyInvStep
  <2>4. QED
    BY <2>2, <2>3 DEF IInv
<1>3. QED
    BY <1>1, <1>2, PTL DEF Spec

-----------------------------------------------------------------------------
(* The theorems. *)

\* A file has the places of characters that were read, and perhaps the mark.
LEMMA FileIs ==
    ASSUME IInv, NEW s \in Stream
    PROVE  LET n == Kept(printed[s], read[s], limit)
               p == Places(printed[s], read[s])
           IN  /\ n \in 0 .. Len(p)
               /\ Len(p) = Len(Text(printed[s], read[s]))
               /\ file[s] \in Seq((0 .. MaxLines) \X Nat)
               /\ n <= Len(file[s]) /\ Len(file[s]) \in Nat
               /\ \A j \in 1 .. n : file[s][j] = p[j]
<1> DEFINE lines == printed[s]
           k == read[s]
           t == Text(lines, k)
           p == Places(lines, k)
           n == Kept(lines, k, limit)
           mark == IF n < Len(t) THEN <<Mark>> ELSE <<>>
           T == (0 .. MaxLines) \X Nat
<1>1. /\ TypeInv /\ PipeInv(s) /\ CopyInv(s) /\ limit \in Nat /\ MaxLines \in Nat
    BY StreamBounds DEF IInv, TypeInv
<1>2. /\ Proper(lines) /\ Len(lines) \in Nat /\ k \in 0 .. Len(lines) /\ Len(lines) <= MaxLines
  <2>1. Len(lines) \in Nat /\ k \in Nat /\ Proper(lines)
    BY <1>1, PrintedProper DEF TypeInv
  <2>2. Cardinality(Inside(s)) \in Nat
    BY <1>1, InsideChanges DEF Process
  <2>3. QED
    BY <1>1, <2>1, <2>2 DEF PipeInv
<1>3. /\ Len(p) = Len(t) /\ n \in 0 .. Len(t)
    BY <1>1, <1>2, CopiedIs
<1>4. p \in Seq(Spots) /\ Len(p) \in Nat
    BY <1>2, TextAppend, LenProperties
<1>5. ASSUME NEW j \in 1 .. Len(p)
      PROVE  p[j] \in T
  <2>1. p[j] \in Spots
    BY <1>4, ElementOfSeq
  <2>2. p[j][1] \in 1 .. k
    BY <1>2, <1>3, PlacesMatch DEF Matches
  <2>3. p[j] = <<p[j][1], p[j][2]>> /\ p[j][2] \in Nat
    BY <2>1 DEF Spots
  <2>4. p[j][1] \in 0 .. MaxLines
    BY <1>1, <1>2, <2>2
  <2>5. QED
    BY <2>3, <2>4
<1>6. file[s] = SubSeq(p, 1, n) \o mark
    BY <1>1 DEF CopyInv, Copied
<1>7. Mark \in T
    BY <1>1 DEF Mark
<1> HIDE DEF lines, k, t, p, n, T
<1>8. mark \in Seq(T) /\ Len(mark) \in Nat
  <2>1. mark \in Seq(T)
    BY <1>7
  <2> HIDE DEF mark
  <2>2. QED
    BY <2>1, LenProperties
<1> HIDE DEF mark
<1> DEFINE h == SubSeq(p, 1, n)
<1>9. /\ n \in Nat /\ n \in Int /\ 1 \in Int /\ n - 1 + 1 = n
      /\ \A j \in 1 .. n : j \in 1 .. Len(p)
    BY <1>3, <1>4
<1>10. /\ h \in Seq(T)
       /\ Len(h) = IF 1 <= n THEN n - 1 + 1 ELSE 0
       /\ \A i \in 1 .. n - 1 + 1 : h[i] = p[1 + i - 1]
  <2>1. \A j \in 1 .. n : p[j] \in T
    BY <1>5, <1>9
  <2>2. QED
    BY <1>9, <2>1, SubSeqProperties
<1>11. Len(h) = n /\ \A j \in 1 .. n : h[j] = p[j]
  <2>1. Len(h) = n
    BY <1>9, <1>10
  <2>2. \A j \in 1 .. n : j \in 1 .. n - 1 + 1 /\ 1 + j - 1 = j
    BY <1>9
  <2>3. QED
    BY <1>10, <2>1, <2>2
<1> HIDE DEF h
<1>12. /\ h \o mark \in Seq(T) /\ Len(h \o mark) = Len(h) + Len(mark)
       /\ \A i \in 1 .. Len(h) + Len(mark) :
            (h \o mark)[i] = IF i <= Len(h) THEN h[i] ELSE mark[i - Len(h)]
    BY <1>8, <1>10, ConcatProperties
<1>13. file[s] \in Seq(T) /\ Len(file[s]) = n + Len(mark)
    BY <1>6, <1>11, <1>12 DEF h
<1>14. \A j \in 1 .. n : file[s][j] = p[j]
  <2>1. \A j \in 1 .. n : j \in 1 .. Len(h) + Len(mark) /\ j <= Len(h)
    BY <1>8, <1>9, <1>11
  <2>2. \A j \in 1 .. n : (h \o mark)[j] = p[j]
    BY <1>11, <1>12, <2>1
  <2>3. QED
    BY <1>6, <2>2 DEF h
<1>15. n <= Len(file[s]) /\ Len(file[s]) \in Nat
    BY <1>8, <1>9, <1>13
<1>16. QED
    BY <1>3, <1>13, <1>14, <1>15 DEF T, n, p, t, k, lines

\* A pipe never holds more than it can, no file more than the limit, and only who
\* is there prints (codex.py:81-125).
THEOREM TypeCorrect == Spec => []TypeOK
<1>1. IInv => TypeOK
  <2> SUFFICES ASSUME IInv
               PROVE  TypeOK
    OBVIOUS
  <2>1. TypeInv /\ RunInv /\ \A s \in Stream : PipeInv(s) /\ CopyInv(s)
    BY DEF IInv
  <2>2. /\ limit \in Limits /\ alive \subseteq Process /\ ended \subseteq Stream
        /\ run \in [pc : Point, thread : Nat]
    BY <2>1 DEF TypeInv
  <2>3. \A p \in Process : printing[p] # Idle => printing[p].line \in Lines[printing[p].stream]
    BY <2>1, PrintShape
  <2>4. ASSUME NEW s \in Stream
        PROVE  /\ printed[s] \in Seq(Lines[s])
               /\ read[s] \in 0 .. Len(printed[s])
               /\ Len(printed[s]) - read[s] <= Capacity
               /\ Len(printed[s]) <= MaxLines
    <3>1. read[s] \in Nat /\ Len(printed[s]) \in Nat /\ Cardinality(Inside(s)) \in Nat
      BY <2>1, PrintedProper, InsideChanges DEF TypeInv, Process
    <3>2. QED
      BY <2>1, <3>1, StreamBounds DEF PipeInv
  <2>5. ASSUME NEW s \in Stream, limit # 0
        PROVE  written[s] <= limit
    <3>1. limit \in Nat
      BY <2>2, StreamBounds
    <3>2. written[s] = IF Complete(printed[s], read[s], limit)
                       THEN Total(Text(printed[s], read[s])) ELSE limit
      BY <2>1 DEF CopyInv, Copied
    <3>3. QED
      BY <2>5, <3>1, <3>2 DEF Complete
  <2>6. \A s \in Stream : file[s] \in Seq((0 .. MaxLines) \X Nat)
    BY FileIs
  <2>7. run.thread \in 0 .. MaxLines
    <3>1. read["stdout"] \in Nat /\ read["stdout"] <= MaxLines
      <4>1. "stdout" \in Stream
        BY DEF Stream
      <4>2. /\ read["stdout"] \in 0 .. Len(printed["stdout"])
            /\ Len(printed["stdout"]) <= MaxLines /\ Len(printed["stdout"]) \in Nat
        BY <2>1, <2>4, <4>1, PrintedProper
      <4>3. QED
        BY <4>2, StreamBounds
    <3>2. CASE run.pc \in {"returned", "raised"}
      <4>1. run = Answer(printed["stdout"], read["stdout"], file["stdout"])
        BY <2>1, <3>2 DEF RunInv
      <4>2. run \in [pc : {"returned", "raised"}, thread : 0 .. read["stdout"]]
        BY <3>1, <4>1, AnswerIs
      <4>3. QED
        BY <3>1, <4>2, StreamBounds
    <3>3. CASE run.pc \notin {"returned", "raised"}
      BY <2>1, <3>3, StreamBounds DEF RunInv
    <3>4. QED
      BY <3>2, <3>3
  <2>8. run \in [pc : Point, thread : 0 .. MaxLines]
    BY <2>2, <2>7
  <2>9. QED
    BY <2>2, <2>3, <2>4, <2>5, <2>6, <2>8 DEF TypeOK, Point
<1>2. QED
    BY <1>1, IInvHolds, PTL

\* Nothing is missing of the output run() looks at, unless a thread died of bytes
\* that are no text (codex.py:91-98).
THEOREM OutputComplete == Spec => []OutputIsComplete
<1>1. IInv => OutputIsComplete
    BY DEF IInv, RunInv, EndInv, OutputIsComplete, Stream
<1>2. QED
    BY <1>1, IInvHolds, PTL

\* An artifact file is the longest prefix, in whole characters, of what was printed
\* that fits max_output_bytes, with one mark if and only if something was left out
\* (codex.py:108-125).
THEOREM KeptPrefix == Spec => []KeptIsLongestPrefix
<1>1. ASSUME IInv, NEW s \in Stream
      PROVE  LET seen == Seen(s)
                 widths == [j \in 1 .. Len(seen) |-> Width(s, seen[j])]
                 n == IF limit = 0 THEN Len(seen) ELSE Fitting(widths, limit)
             IN  file[s] = SubSeq(seen, 1, n) \o (IF n < Len(seen) THEN <<Mark>> ELSE <<>>)
  <2> DEFINE seen == Seen(s)
             widths == [j \in 1 .. Len(seen) |-> Width(s, seen[j])]
             t == Text(printed[s], read[s])
  <2>1. TypeInv /\ PipeInv(s) /\ CopyInv(s)
    BY <1>1 DEF IInv
  <2>2. Proper(printed[s]) /\ read[s] \in 0 .. Len(printed[s])
    BY <2>1, PrintedProper DEF TypeInv, PipeInv
  <2>3. seen = Places(printed[s], read[s])
    BY DEF Seen, Places
  <2>4. /\ Len(seen) = Len(t)
        /\ \A j \in 1 .. Len(t) : Width(s, seen[j]) = t[j]
    BY <2>2, <2>3, PlacesMatch DEF Matches, Width
  <2>5. t \in [1 .. Len(t) -> Widths] /\ Len(t) \in Nat
    BY <2>2, TextAppend, LenProperties
  <2>6. widths = t
    BY <2>4, <2>5
  <2>7. file[s] = SubSeq(seen, 1, Kept(printed[s], read[s], limit))
                    \o (IF Kept(printed[s], read[s], limit) < Len(t) THEN <<Mark>> ELSE <<>>)
    BY <2>1, <2>3 DEF CopyInv, Copied
  <2>8. Kept(printed[s], read[s], limit) = IF limit = 0 THEN Len(t) ELSE Fitting(t, limit)
    BY DEF Kept
  <2> HIDE DEF seen, widths, t
  <2>9. file[s] = SubSeq(seen, 1, IF limit = 0 THEN Len(seen) ELSE Fitting(widths, limit))
                    \o (IF (IF limit = 0 THEN Len(seen) ELSE Fitting(widths, limit)) < Len(seen)
                        THEN <<Mark>> ELSE <<>>)
    BY <2>4, <2>6, <2>7, <2>8
  <2>10. QED
    BY <2>9 DEF seen, widths
<1>2. IInv => KeptIsLongestPrefix
    BY <1>1 DEF KeptIsLongestPrefix
<1>3. QED
    BY <1>2, IInvHolds, PTL

\* A line whose text fits can be read back from the file.
LEMMA LineReadable ==
    ASSUME IInv, NEW s \in Stream, NEW i \in 1 .. read[s], Complete(printed[s], i, limit),
           NEW place \in 1 .. Len(printed[s][i].chars)
    PROVE  Contains(file[s], <<i, place>>)
<1> DEFINE lines == printed[s]
           k == read[s]
           t == Text(lines, k)
           u == Text(lines, i)
           n == Kept(lines, k, limit)
<1>1. TypeInv /\ PipeInv(s) /\ limit \in Nat /\ k \in Nat
    BY StreamBounds DEF IInv, TypeInv
<1>2. /\ Proper(lines) /\ Len(lines) \in Nat
      /\ k \in 0 .. Len(lines) /\ i \in 1 .. Len(lines) /\ i \in 0 .. Len(lines)
      /\ k \in i .. Len(lines)
    BY <1>1, PrintedProper DEF PipeInv
<1>3. t \in Seq(Widths) /\ u \in Seq(Widths) /\ Len(t) \in Nat /\ Len(u) \in Nat
    BY <1>2, TextAppend, LenProperties
<1>4. PICK j \in 1 .. Len(u) : Places(lines, k)[j] = <<i, place>>
    BY <1>2, LineFound
<1>5. Len(u) <= Len(t) /\ \A m \in 0 .. Len(u) : Bytes(t)[m] = Bytes(u)[m]
    BY <1>2, TextStarts DEF Starts
<1>6. Len(u) <= n
  <2>1. CASE limit = 0
    BY <1>5, <2>1 DEF Kept
  <2>2. CASE limit # 0
    <3>1. Total(u) <= limit /\ n = Fitting(t, limit)
      BY <2>2 DEF Complete, Kept
    <3>2. Bytes(t)[Len(u)] = Total(u) /\ Len(u) \in 0 .. Len(t)
      BY <1>3, <1>5 DEF Total
    <3>3. QED
      BY <1>1, <1>3, <3>1, <3>2, FittingIs
  <2>3. QED
    BY <2>1, <2>2
<1>7. /\ n \in 0 .. Len(Places(lines, k)) /\ n <= Len(file[s]) /\ Len(file[s]) \in Nat
      /\ \A m \in 1 .. n : file[s][m] = Places(lines, k)[m]
    BY FileIs
<1>8. n \in Nat
  <2>1. n \in 0 .. Len(t)
    BY <1>1, <1>2, CopiedIs
  <2> HIDE DEF n, t
  <2>2. QED
    BY <1>3, <2>1
<1> HIDE DEF n, t, u
<1>9. j \in 1 .. n /\ j \in 1 .. Len(file[s])
    BY <1>3, <1>6, <1>7, <1>8
<1>10. QED
    BY <1>4, <1>7, <1>9 DEF Contains

\* A session that is announced within the limit is found, unless JSON that is no
\* object came before it (codex.py:98, 176-189).
THEOREM SessionFound == Spec => []SessionIsFound
<1> DEFINE lines == printed["stdout"]
           k == read["stdout"]
           stops == FoundIn(lines, k, file["stdout"], {"thread", "scalar"})
           upTo(i) == SubSeq(lines, 1, i)
<1>1. ASSUME IInv, NEW i \in DOMAIN lines,
             run.pc \in {"returned", "raised"},
             upTo(i)[i].kind = "thread",
             limit = 0 \/ Total(FlattenSeq([j \in 1 .. i |-> upTo(i)[j].chars])) <= limit,
             \A j \in 1 .. i : upTo(i)[j].kind \notin {"scalar", "bytes"},
             ~Undecodable("stdout")
      PROVE  run.pc = "returned" /\ run.thread \in 1 .. i
  <2>1. /\ "stdout" \in Stream /\ TypeInv /\ PipeInv("stdout") /\ EndInv /\ RunInv
    BY <1>1 DEF IInv, Stream
  <2>2. /\ Proper(lines) /\ lines \in Seq(Line) /\ Len(lines) \in Nat
        /\ DOMAIN lines = 1 .. Len(lines)
        /\ \A j \in 1 .. Len(lines) : lines[j] \in Line
    BY <2>1, PrintedProper, LenProperties
  <2>3. i \in 1 .. Len(lines) /\ i \in Nat
    BY <1>1, <2>2
  <2>4. k = Len(lines)
    BY <1>1, <2>1 DEF EndInv, RunInv
  <2>5. \A j \in 1 .. i : upTo(i)[j] = lines[j]
    <3>1. \A j \in 1 .. i : lines[j] \in Line
      BY <2>2, <2>3
    <3>2. \A j \in 1 .. i - 1 + 1 : upTo(i)[j] = lines[1 + j - 1]
      BY <2>3, <3>1, SubSeqProperties
    <3>3. \A j \in 1 .. i : j \in 1 .. i - 1 + 1 /\ 1 + j - 1 = j
      BY <2>3
    <3>4. QED
      BY <3>2, <3>3
  <2>6. Complete(lines, i, limit)
    <3>1. [j \in 1 .. i |-> upTo(i)[j].chars] = [j \in 1 .. i |-> lines[j].chars]
      BY <2>5
    <3>2. QED
      BY <1>1, <3>1 DEF Complete, Text
  <2>7. lines[i].kind = "thread" /\ \A j \in 1 .. i : lines[j].kind # "scalar"
    <3>1. i \in 1 .. i
      BY <2>3
    <3>2. QED
      BY <1>1, <2>5, <3>1
  <2>8. i \in stops
    <3>1. \A place \in 1 .. Len(lines[i].chars) : Contains(file["stdout"], <<i, place>>)
      BY <1>1, <2>1, <2>3, <2>4, <2>6, LineReadable
    <3>2. Len(lines[i].chars) \in Nat
      BY <2>2, <2>3, LineFacts
    <3>3. \A place \in 1 .. Len(lines[i].chars) - 1 : place \in 1 .. Len(lines[i].chars)
      BY <3>2
    <3>4. i \in 1 .. k
      BY <2>3, <2>4
    <3>5. QED
      BY <2>7, <3>1, <3>3, <3>4 DEF FoundIn
  <2>9. stops \subseteq 1 .. k /\ stops \subseteq Nat
      /\ \A j \in stops : lines[j].kind \in {"thread", "scalar"}
    BY DEF FoundIn
  <2> HIDE DEF stops
  <2>10. Min(stops) \in stops /\ Min(stops) <= i
    BY <2>8, <2>9, MinIs
  <2>11. Min(stops) \in 1 .. i
    <3>1. Min(stops) \in 1 .. k
      BY <2>9, <2>10
    <3> DEFINE first == Min(stops)
    <3> HIDE DEF first
    <3>2. first \in 1 .. k /\ first <= i
      BY <2>10, <3>1 DEF first
    <3>3. first \in 1 .. i
      BY <2>2, <2>3, <2>4, <3>2
    <3>4. QED
      BY <3>3 DEF first
  <2>12. lines[Min(stops)].kind # "scalar"
    BY <2>7, <2>11
  <2>13. run = Answer(lines, k, file["stdout"])
    BY <1>1, <2>1 DEF RunInv
  <2>14. run = [pc |-> "returned", thread |-> Min(stops)]
    BY <2>8, <2>12, <2>13 DEF Answer, stops
  <2>15. QED
    BY <2>11, <2>14
<1>2. IInv => SessionIsFound
    BY <1>1 DEF SessionIsFound
<1>3. QED
    BY <1>2, IInvHolds, PTL
=============================================================================

------------------------ MODULE AddressParser_proofs ------------------------
(***************************************************************************)
(* The parser accepts exactly the documented grammar, and what it accepts  *)
(* it prints back: for every width of the unsigned type, every alphabet    *)
(* and every length, where the run checks one of each.                     *)
(*                                                                         *)
(* The recursive functions of the parser are CHOOSEn by TLA+, so that they *)
(* satisfy their equations only where some function does. That is the      *)
(* first part: least elements, induction as a statement about sets, and    *)
(* the existence of functions defined by recursion. Then the digits and    *)
(* read_number(), the trimming of spaces, the layout of a spelled address, *)
(* and last the two directions: a spelled address is parsed, and a parsed  *)
(* one is spelled.                                                         *)
(***************************************************************************)
EXTENDS AddressParser, SequenceTheorems, WellFoundedInduction, TLAPS

-----------------------------------------------------------------------------
(* Least elements, induction and recursion on the naturals. *)

\* A nonempty set of naturals has a least element, and Min is it.
LEMMA LeastElement ==
    ASSUME NEW T \in SUBSET Nat, T # {}
    PROVE  Min(T) \in T /\ \A y \in T : Min(T) <= y
<1> DEFINE R == OpToRel(<, Nat)
<1>1. IsWellFoundedOn(R, Nat)
  BY NatLessThanWellFounded
<1>2. \A x, y \in T : <<y, x>> \in R <=> y < x
  BY DEF OpToRel
<1>3. \E x \in T : \A y \in T : ~ (<<y, x>> \in R)
  <2> HIDE DEF R
  <2> QED
    BY <1>1, WFMin
<1> HIDE DEF R
<1>4. PICK x \in T : \A y \in T : ~ (y < x)
  BY <1>2, <1>3
<1>5. \A y \in T : x <= y
  BY <1>4
<1> QED
  BY <1>5 DEF Min

\* A nonempty bounded set of naturals has a greatest element, and Max is it.
LEMMA GreatestElement ==
    ASSUME NEW T \in SUBSET Nat, T # {}, NEW n \in Nat, \A x \in T : x <= n
    PROVE  Max(T) \in T /\ \A y \in T : y <= Max(T)
<1> DEFINE U == {n - x : x \in T}
<1>1. U \in SUBSET Nat /\ U # {}
  <2>1. \A x \in T : n - x \in Nat
    OBVIOUS
  <2> QED
    BY <2>1
<1>2. PICK u \in U : \A v \in U : u <= v
  BY <1>1, LeastElement
<1>3. PICK x \in T : u = n - x
  OBVIOUS
<1>4. \A y \in T : x >= y
  BY <1>2, <1>3
<1>5. Max(T) \in T /\ \A y \in T : Max(T) >= y
  BY <1>4 DEF Max
<1> QED
  BY <1>5

\* Course-of-values induction
LEMMA NoLeastNoOne ==
    ASSUME NEW D \in SUBSET Nat, NEW S,
           \A n \in D : (\A k \in D : k < n => k \in S) => n \in S
    PROVE  D \subseteq S
<1> SUFFICES ASSUME D \ S # {} PROVE FALSE
  OBVIOUS
<1>1. PICK x \in D \ S : \A y \in D \ S : x <= y
  BY LeastElement
<1>2. \A k \in D : k < x => k \in S
  BY <1>1
<1> QED
  BY <1>1, <1>2

\* f takes the values base on stop, and elsewhere steps from its value at pred.
Solves(f, D, stop, base, pred, step) ==
    \A n \in D : f[n] = IF n \in stop THEN base[n] ELSE step[<<n, f[pred[n]]>>]

\* The elements of D up to n.
Below(D, n) == {k \in D : k <= n}

\* Recursion: a function that takes its value at n from its value at a smaller
\* pred[n], and stops on the set stop, exists.
LEMMA Recursion ==
    ASSUME NEW D \in SUBSET Nat, NEW X, NEW stop \in SUBSET D, NEW base \in [stop -> X],
           NEW pred \in [D \ stop -> D], \A n \in D \ stop : pred[n] < n,
           NEW step \in [D \X X -> X]
    PROVE  \E f \in [D -> X] : Solves(f, D, stop, base, pred, step)
<1> DEFINE Rule(f, n) == IF n \in stop THEN base[n] ELSE step[<<n, f[pred[n]]>>]
           Partial(f, n) == /\ f \in [Below(D, n) -> X]
                            /\ \A k \in Below(D, n) : f[k] = Rule(f, k)
           S == {n \in D : \E f : Partial(f, n)}
<1>a. \A n \in D : \A k \in Below(D, n) : k \in D /\ k \in Nat /\ k <= n
  BY DEF Below
<1>b. \A n \in D, k \in D : k <= n => k \in Below(D, n)
  BY DEF Below
<1>c. \A k \in D : k \notin stop =>
            /\ pred[k] \in D /\ pred[k] \in Nat /\ pred[k] < k /\ pred[k] <= k
            /\ pred[k] \in Below(D, k)
  <2> SUFFICES ASSUME NEW k \in D, k \notin stop
               PROVE  /\ pred[k] \in D /\ pred[k] \in Nat /\ pred[k] < k /\ pred[k] <= k
                      /\ pred[k] \in Below(D, k)
    OBVIOUS
  <2>1. k \in D \ stop /\ k \in Nat
    OBVIOUS
  <2>2. pred[k] \in D /\ pred[k] \in Nat /\ pred[k] < k
    BY <2>1
  <2>3. pred[k] <= k
    BY <2>1, <2>2
  <2> QED
    BY <1>b, <2>2, <2>3
<1>d. \A n \in D : \A k \in Below(D, n) : k \notin stop => pred[k] \in Below(D, n) /\ pred[k] < k
  <2> SUFFICES ASSUME NEW n \in D, NEW k \in Below(D, n), k \notin stop
               PROVE  pred[k] \in Below(D, n) /\ pred[k] < k
    OBVIOUS
  <2>1. k \in D /\ k <= n
    BY <1>a
  <2>2. pred[k] \in D /\ pred[k] < k
    BY <1>c, <2>1
  <2>3. pred[k] \in Nat /\ k \in Nat /\ n \in Nat
    BY <2>1, <2>2
  <2>4. pred[k] <= n
    BY <2>1, <2>2, <2>3
  <2> QED
    BY <1>b, <2>2, <2>4
<1>1. ASSUME NEW n \in D, NEW m \in D, NEW f, NEW g, Partial(f, n), Partial(g, m), n <= m
      PROVE  \A k \in Below(D, n) : f[k] = g[k]
  <2> DEFINE E == {k \in Below(D, n) : f[k] = g[k]}
  <2>1. Below(D, n) \in SUBSET Nat
    BY DEF Below
  <2>2. ASSUME NEW k \in Below(D, n), \A j \in Below(D, n) : j < k => j \in E
        PROVE  k \in E
    <3>1. k \in Below(D, m)
      BY <1>1 DEF Below
    <3>2. k \notin stop => pred[k] \in Below(D, n) /\ pred[k] < k
      BY <1>d
    <3>3. k \notin stop => f[pred[k]] = g[pred[k]]
      BY <2>2, <3>2
    <3> QED
      BY <1>1, <3>1, <3>3
  <2>3. Below(D, n) \subseteq E
    <3> HIDE DEF E
    <3> QED
      BY <2>1, <2>2, NoLeastNoOne
  <2> QED
    BY <2>3
<1>2. PICK A : \A n \in S : Partial(A[n], n)
  <2> DEFINE B == [n \in S |-> CHOOSE f : Partial(f, n)]
  <2>1. ASSUME NEW n \in S PROVE Partial(B[n], n)
    <3>1. PICK f : Partial(f, n)
      OBVIOUS
    <3> HIDE DEF Partial
    <3>2. B[n] = CHOOSE g : Partial(g, n)
      OBVIOUS
    <3> QED
      BY <3>1, <3>2, Zenon
  <2> HIDE DEF Partial, B, S
  <2> QED
    BY <2>1
<1>3. ASSUME NEW n \in S
      PROVE  /\ n \in D /\ A[n][n] \in X /\ A[n][n] = Rule(A[n], n)
             /\ \A k \in Below(D, n) : k \in S => A[n][k] = A[k][k]
  <2>0. n \in D
    OBVIOUS
  <2>1. n \in Below(D, n)
    BY <2>0 DEF Below
  <2>2. ASSUME NEW k \in Below(D, n), k \in S
        PROVE  A[n][k] = A[k][k]
    <3>0. k \in D /\ k <= n
      BY <1>a, <2>0
    <3>1. k \in Below(D, k)
      BY <3>0 DEF Below
    <3>2. Partial(A[k], k) /\ Partial(A[n], n)
      <4> HIDE DEF Partial
      <4> QED
        BY <1>2, <2>2
    <3>3. \A j \in Below(D, k) : A[k][j] = A[n][j]
      <4> HIDE DEF Partial
      <4> QED
        BY <1>1, <3>2, <2>0, <3>0
    <3> QED
      BY <3>1, <3>3
  <2>3. Partial(A[n], n)
    <3> HIDE DEF Partial
    <3> QED
      BY <1>2
  <2> QED
    BY <2>0, <2>1, <2>2, <2>3
<1>4. ASSUME NEW n \in D, \A k \in D : k < n => k \in S
      PROVE  n \in S
  <2> DEFINE f == [k \in Below(D, n) |->
                      IF k < n THEN A[k][k]
                      ELSE IF n \in stop THEN base[n] ELSE step[<<n, A[pred[n]][pred[n]]>>]]
  <2>1. ASSUME NEW k \in Below(D, n)
        PROVE  f[k] \in X /\ f[k] = Rule(f, k)
    <3>0. k \in D /\ k \in Nat /\ n \in Nat /\ k <= n
      BY <1>a
    <3>1. k \notin stop => pred[k] \in Below(D, n) /\ pred[k] < k /\ pred[k] < n /\ pred[k] \in D
      BY <1>c, <1>d, <3>0
    <3>2. k \notin stop => /\ f[pred[k]] = A[pred[k]][pred[k]]
                           /\ A[pred[k]][pred[k]] \in X /\ pred[k] \in S
      <4> SUFFICES ASSUME k \notin stop
                   PROVE  /\ f[pred[k]] = A[pred[k]][pred[k]]
                          /\ A[pred[k]][pred[k]] \in X /\ pred[k] \in S
        OBVIOUS
      <4>1. pred[k] \in S
        <5> HIDE DEF S
        <5> QED
          BY <1>4, <3>1
      <4>2. A[pred[k]][pred[k]] \in X
        <5> HIDE DEF S
        <5> QED
          BY <1>3, <4>1
      <4> QED
        BY <3>1, <4>1, <4>2
    <3>3. CASE k = n
      <4>1. f[k] = IF n \in stop THEN base[n] ELSE step[<<n, A[pred[n]][pred[n]]>>]
        BY <3>3, <3>0
      <4> HIDE DEF f, S
      <4> QED
        BY <3>2, <3>3, <4>1
    <3>4. CASE k # n
      <4>1. k \in S /\ k < n
        BY <1>4, <3>4, <3>0
      <4>2. f[k] = A[k][k] /\ A[k][k] \in X /\ A[k][k] = Rule(A[k], k)
        <5>1. f[k] = A[k][k]
          BY <4>1
        <5> HIDE DEF f, S
        <5> QED
          BY <1>3, <4>1, <5>1
      <4>3. k \notin stop => A[k][pred[k]] = A[pred[k]][pred[k]]
        <5>1. k \notin stop => pred[k] \in Below(D, k)
          BY <1>c, <3>0
        <5> HIDE DEF f, S
        <5> QED
          BY <1>3, <3>2, <4>1, <5>1
      <4> HIDE DEF f, S
      <4> QED
        BY <3>2, <4>2, <4>3
    <3> QED
      BY <3>3, <3>4
  <2>2. f \in [Below(D, n) -> X]
    <3>1. \A k \in Below(D, n) : f[k] \in X
      BY <2>1
    <3> QED
      BY <3>1
  <2>3. Partial(f, n)
    <3> HIDE DEF f
    <3> QED
      BY <2>1, <2>2
  <2> HIDE DEF f
  <2> QED
    BY <2>3
<1>5. D \subseteq S
  <2> HIDE DEF S
  <2> QED
    BY <1>4, NoLeastNoOne
<1> DEFINE f == [n \in D |-> A[n][n]]
<1>6. ASSUME NEW n \in D
      PROVE  f[n] \in X /\ f[n] = Rule(f, n)
  <2>1. n \notin stop => pred[n] \in D /\ pred[n] \in Below(D, n)
    BY <1>c
  <2> HIDE DEF S
  <2>2. n \in S /\ (n \notin stop => pred[n] \in S)
    BY <1>5, <2>1
  <2>3. A[n][n] \in X /\ A[n][n] = Rule(A[n], n)
    BY <1>3, <2>2
  <2>4. n \notin stop => A[n][pred[n]] = A[pred[n]][pred[n]]
    BY <1>3, <2>1, <2>2
  <2>5. f[n] = A[n][n] /\ (n \notin stop => f[pred[n]] = A[pred[n]][pred[n]])
    BY <2>1
  <2> HIDE DEF f
  <2> QED
    BY <2>3, <2>4, <2>5
<1>7. f \in [D -> X]
  BY <1>6
<1>8. Solves(f, D, stop, base, pred, step)
  <2> HIDE DEF f
  <2> QED
    BY <1>6 DEF Solves
<1> QED
  <2> HIDE DEF f
  <2> QED
    BY <1>7, <1>8

-----------------------------------------------------------------------------
(* Characters. *)

\* The digits, and the number each stands for.
LEMMA DigitsAre ==
    /\ DOMAIN Digit = {"0", "1", "2", "3", "4", "5", "6", "7", "8", "9"}
    /\ \A d \in 0 .. 9 : Numerals[d + 1] \in DOMAIN Digit /\ Digit[Numerals[d + 1]] = d
    /\ \A c \in DOMAIN Digit : Digit[c] \in 0 .. 9
<1>1. ToSet(Numerals) = {"0", "1", "2", "3", "4", "5", "6", "7", "8", "9"}
  BY DEF ToSet, Numerals
<1>2. DOMAIN Digit = ToSet(Numerals)
  BY DEF Digit
<1>3. \A d, e \in 0 .. 9 : Numerals[d + 1] = Numerals[e + 1] => d = e
  BY DEF Numerals
<1>4. \A d \in 0 .. 9 : Numerals[d + 1] \in ToSet(Numerals)
  BY DEF Numerals, ToSet
<1>5. \A c \in ToSet(Numerals) : \E n \in 0 .. 9 : Numerals[n + 1] = c
  <2>1. /\ Numerals[1] = "0" /\ Numerals[2] = "1" /\ Numerals[3] = "2" /\ Numerals[4] = "3"
        /\ Numerals[5] = "4" /\ Numerals[6] = "5" /\ Numerals[7] = "6" /\ Numerals[8] = "7"
        /\ Numerals[9] = "8" /\ Numerals[10] = "9"
    BY DEF Numerals
  <2> QED
    BY <1>1, <2>1
<1>6. \A c \in ToSet(Numerals) : Digit[c] \in 0 .. 9 /\ Numerals[Digit[c] + 1] = c
  BY <1>5 DEF Digit
<1>7. \A d \in 0 .. 9 : Digit[Numerals[d + 1]] = d
  <2> SUFFICES ASSUME NEW d \in 0 .. 9 PROVE Digit[Numerals[d + 1]] = d
    OBVIOUS
  <2> DEFINE c == Numerals[d + 1]
  <2>1. Digit[c] \in 0 .. 9 /\ Numerals[Digit[c] + 1] = Numerals[d + 1]
    BY <1>4, <1>6
  <2> QED
    BY <1>3, <2>1
<1> QED
  BY <1>1, <1>2, <1>4, <1>6, <1>7

\* Which characters Upper() maps to an area, to X, or to themselves.
LEMMA UpperOf ==
    /\ DOMAIN AreaOf = {"I", "E", "Q", "A", "M"}
    /\ Upper("%") = "%" /\ Upper("end") = "end"
    /\ \A c \in DOMAIN Digit : Upper(c) = c
    /\ \A c : Upper(c) \in DOMAIN AreaOf =>
              c \in {"I", "E", "Q", "A", "M", "i", "e", "q", "a", "m"}
    /\ \A c : Upper(c) = "X" <=> c \in {"x", "X"}
    /\ \A a \in {"I", "Q", "M"} : Upper(a) = a
<1>1. DOMAIN AreaOf = {"I", "E", "Q", "A", "M"}
  BY DEF AreaOf
<1>2. DOMAIN Lower = {"i", "e", "q", "a", "m", "x", "b", "w", "d"}
  BY DEF Lower
<1>3. /\ Lower["i"] = "I" /\ Lower["e"] = "E" /\ Lower["q"] = "Q" /\ Lower["a"] = "A"
      /\ Lower["m"] = "M" /\ Lower["x"] = "X" /\ Lower["b"] = "B" /\ Lower["w"] = "W"
      /\ Lower["d"] = "D"
  BY DEF Lower
<1>4. \A c \in DOMAIN Digit : c \notin DOMAIN Lower
  BY <1>2, DigitsAre
<1> QED
  BY <1>1, <1>2, <1>3, <1>4 DEF Upper

-----------------------------------------------------------------------------
(* read_number(). *)

\* read_number(): "value > (kMax - digit) / 10" refuses a digit exactly when the
\* product and sum would not fit, so no digit is refused too early.
THEOREM GuardIsExact ==
    ASSUME NEW value \in Nat, NEW digit \in 0 .. 9
    PROVE  Fits(value, digit) <=> value * 10 + digit <= UintMax
<1>1. UintMax \in Nat /\ UintMax - digit \in Nat
  BY ParserAssumption
<1>2. PICK q \in Nat, r \in 0 .. 9 : UintMax - digit = q * 10 + r
  <2>1. UintMax - digit = ((UintMax - digit) \div 10) * 10 + ((UintMax - digit) % 10)
    BY <1>1
  <2> QED
    BY <1>1, <2>1
<1>3. (UintMax - digit) \div 10 = q
  BY <1>1, <1>2
<1> QED
  BY <1>1, <1>2, <1>3 DEF Fits

\* A digit that is taken never wraps the accumulated value.
THEOREM TakenDigitsDoNotWrap ==
    ASSUME NEW value \in Nat, NEW digit \in 0 .. 9, Fits(value, digit)
    PROVE  (value * 10 + digit) % (UintMax + 1) = value * 10 + digit
<1>1. value * 10 + digit <= UintMax
  BY GuardIsExact
<1> QED
  BY <1>1, ParserAssumption

\* The characters read_number() takes.
Digits == DOMAIN Digit

\* A digit stands for a number below ten.
LEMMA DigitOf ==
    ASSUME NEW c \in Digits
    PROVE  Digit[c] \in 0 .. 9 /\ Digit[c] \in Nat
<1>1. Digit[c] \in 0 .. 9
  BY DigitsAre DEF Digits
<1> QED
  BY <1>1

\* The value of a numeral is computed digit by digit, and is a natural number.
LEMMA ValueIsRecursive ==
    ASSUME NEW w \in Seq(Digits)
    PROVE  \E first \in [0 .. Len(w) -> Nat] :
              /\ first[0] = 0
              /\ \A n \in 1 .. Len(w) : first[n] = first[n - 1] * 10 + Digit[w[n]]
              /\ Value(w) = first[Len(w)]
<1> DEFINE D == 0 .. Len(w)
           base == [n \in {0} |-> 0]
           pred == [n \in D \ {0} |-> n - 1]
           step == [p \in D \X Nat |-> IF p[1] = 0 THEN 0 ELSE p[2] * 10 + Digit[w[p[1]]]]
           F(f) == f = [n \in 0 .. Len(w) |->
                           IF n = 0 THEN 0 ELSE f[n - 1] * 10 + Digit[w[n]]]
<1>1. D \in SUBSET Nat /\ {0} \in SUBSET D
  OBVIOUS
<1>2. base \in [{0} -> Nat] /\ pred \in [D \ {0} -> D] /\ \A n \in D \ {0} : pred[n] < n
  OBVIOUS
<1>3. step \in [D \X Nat -> Nat]
  <2> SUFFICES ASSUME NEW n \in D, NEW v \in Nat, n # 0
               PROVE  v * 10 + Digit[w[n]] \in Nat
    OBVIOUS
  <2>1. w[n] \in Digits
    OBVIOUS
  <2>2. Digit[w[n]] \in Nat
    BY <2>1, DigitOf
  <2> QED
    BY <2>2
<1>4. PICK f \in [D -> Nat] : Solves(f, D, {0}, base, pred, step)
  <2> HIDE DEF D, base, pred, step
  <2> QED
    BY <1>1, <1>2, <1>3, Recursion
<1>5. \A n \in D : f[n] = IF n = 0 THEN 0 ELSE f[n - 1] * 10 + Digit[w[n]]
  <2> SUFFICES ASSUME NEW n \in D
               PROVE  f[n] = IF n = 0 THEN 0 ELSE f[n - 1] * 10 + Digit[w[n]]
    OBVIOUS
  <2>1. CASE n = 0
    BY <1>4, <2>1 DEF Solves
  <2>2. CASE n # 0
    <3>1. pred[n] = n - 1 /\ n - 1 \in D
      BY <2>2
    <3>2. f[n] = step[<<n, f[n - 1]>>]
      BY <1>4, <2>2, <3>1 DEF Solves
    <3> QED
      BY <2>2, <3>1, <3>2
  <2> QED
    BY <2>1, <2>2
<1>6. F(f)
  BY <1>5
<1> DEFINE g == CHOOSE h : F(h)
<1>7. F(g)
  <2> HIDE DEF F
  <2> QED
    BY <1>6
<1>8. Value(w) = g[Len(w)]
  BY DEF Value
<1>9. \A n \in D : g[n] = f[n]
  <2> DEFINE E == {n \in D : g[n] = f[n]}
  <2>1. ASSUME NEW n \in D, \A k \in D : k < n => k \in E
        PROVE  n \in E
    <3>0. g[n] = IF n = 0 THEN 0 ELSE g[n - 1] * 10 + Digit[w[n]]
      <4> HIDE DEF g
      <4> QED
        BY <1>7
    <3>1. CASE n = 0
      BY <3>0, <1>5, <3>1
    <3>2. CASE n # 0
      <4>1. n - 1 \in D /\ n - 1 < n
        BY <3>2
      <4>2. n - 1 \in E
        BY <2>1, <4>1
      <4> QED
        BY <3>0, <1>5, <3>2, <4>2
    <3> QED
      BY <3>1, <3>2
  <2>2. D \subseteq E
    <3> HIDE DEF E, D
    <3> QED
      BY <1>1, <2>1, NoLeastNoOne
  <2> QED
    BY <2>2
<1>10. Value(w) = f[Len(w)]
  BY <1>8, <1>9
<1>11. f[0] = 0 /\ \A n \in 1 .. Len(w) : f[n] = f[n - 1] * 10 + Digit[w[n]]
  BY <1>5
<1> QED
  BY <1>10, <1>11

\* What read_number() returns.
Results == [ok : BOOLEAN, value : 0 .. UintMax, pos : Nat]

\* A round of the loop of read_number() yields a result of its type.
LEMMA TakeType ==
    ASSUME NEW acc \in Results, NEW c \in Digits
    PROVE  Take(acc, c) \in Results
<1>1. Digit[c] \in Nat
  BY DigitOf
<1>2. acc.value * 10 + Digit[c] \in Nat /\ UintMax + 1 \in Nat \ {0}
  BY <1>1, ParserAssumption DEF Results
<1>3. (acc.value * 10 + Digit[c]) % (UintMax + 1) \in 0 .. UintMax
  <2> DEFINE v == acc.value * 10 + Digit[c]
  <2> HIDE DEF v
  <2>1. v \in Nat /\ UintMax \in Nat
    BY <1>2, ParserAssumption DEF v
  <2>2. v % (UintMax + 1) \in 0 .. UintMax
    BY <2>1
  <2> QED
    BY <2>2 DEF v
<1>4. [acc EXCEPT !.ok = FALSE] \in Results
  BY DEF Results
<1>5. acc.pos + 1 \in Nat
  BY DEF Results
<1> QED
  BY <1>3, <1>4, <1>5 DEF Take, Results

\* The loop of read_number() stops at the first character that is no digit.
LEMMA DigitsEndIs ==
    ASSUME NEW C, NEW s \in Seq(C), NEW pos \in 1 .. Len(s) + 1
    PROVE  /\ DigitsEnd(s, pos) \in pos .. Len(s) + 1
           /\ ~IsDigit(At(s, DigitsEnd(s, pos)))
           /\ \A i \in pos .. DigitsEnd(s, pos) - 1 : i \in 1 .. Len(s) /\ IsDigit(s[i])
<1> DEFINE T == {i \in pos .. Len(s) + 1 : ~IsDigit(At(s, i))}
<1>1. ~IsDigit(At(s, Len(s) + 1))
  BY DigitsAre DEF At, IsDigit
<1>2. Len(s) + 1 \in T /\ T \in SUBSET Nat
  BY <1>1
<1>3. Min(T) \in T /\ \A y \in T : Min(T) <= y
  <2> HIDE DEF T
  <2> QED
    BY <1>2, LeastElement
<1>4. DigitsEnd(s, pos) = Min(T)
  BY DEF DigitsEnd
<1>5. ASSUME NEW i \in pos .. Min(T) - 1
      PROVE  i \in 1 .. Len(s) /\ IsDigit(s[i])
  <2>1. Min(T) \in pos .. Len(s) + 1 /\ i < Min(T)
    BY <1>3
  <2>2. i \in 1 .. Len(s)
    BY <2>1
  <2>3. i \notin T
    <3> HIDE DEF T
    <3> QED
      BY <1>3, <2>1, <2>2
  <2>4. IsDigit(At(s, i))
    BY <2>2, <2>3
  <2> QED
    BY <2>2, <2>4 DEF At
<1> QED
  BY <1>3, <1>4, <1>5

\* read_number() is its loop: one round for each digit from pos on.
LEMMA ReadNumberIsRecursive ==
    ASSUME NEW C, NEW s \in Seq(C), NEW pos \in 1 .. Len(s) + 1
    PROVE  \E read \in [pos .. DigitsEnd(s, pos) -> Results] :
              /\ read[pos] = [ok |-> IsDigit(At(s, pos)), value |-> 0, pos |-> pos]
              /\ \A i \in pos + 1 .. DigitsEnd(s, pos) : read[i] = Take(read[i - 1], s[i - 1])
              /\ ReadNumber(s, pos) = read[DigitsEnd(s, pos)]
<1> DEFINE end == DigitsEnd(s, pos)
           D == pos .. end
           first == [ok |-> IsDigit(At(s, pos)), value |-> 0, pos |-> pos]
           base == [n \in {pos} |-> first]
           pred == [n \in D \ {pos} |-> n - 1]
           step == [p \in D \X Results |-> IF p[1] = pos THEN p[2] ELSE Take(p[2], s[p[1] - 1])]
           F(f) == f = [i \in pos .. end |-> IF i = pos THEN first ELSE Take(f[i - 1], s[i - 1])]
<1>0. /\ end \in pos .. Len(s) + 1
      /\ \A i \in pos .. end - 1 : i \in 1 .. Len(s) /\ s[i] \in Digits
  BY DigitsEndIs DEF IsDigit, Digits
<1> HIDE DEF end
<1>1. D \in SUBSET Nat /\ {pos} \in SUBSET D
  BY <1>0
<1>2. first \in Results
  BY ParserAssumption DEF Results, IsDigit
<1>3. base \in [{pos} -> Results] /\ pred \in [D \ {pos} -> D]
      /\ \A n \in D \ {pos} : pred[n] < n
  <2> HIDE DEF first
  <2> QED
    BY <1>0, <1>2
<1>4. step \in [D \X Results -> Results]
  <2>1. ASSUME NEW n \in D, NEW v \in Results, n # pos
        PROVE  Take(v, s[n - 1]) \in Results
    <3>1. s[n - 1] \in Digits
      BY <1>0, <2>1
    <3> QED
      BY <3>1, TakeType
  <2> QED
    BY <2>1
<1>5. PICK f \in [D -> Results] : Solves(f, D, {pos}, base, pred, step)
  <2> HIDE DEF D, base, pred, step
  <2> QED
    BY <1>1, <1>3, <1>4, Recursion
<1> HIDE DEF first
<1>6. \A n \in D : f[n] = IF n = pos THEN first ELSE Take(f[n - 1], s[n - 1])
  <2> SUFFICES ASSUME NEW n \in D
               PROVE  f[n] = IF n = pos THEN first ELSE Take(f[n - 1], s[n - 1])
    OBVIOUS
  <2>1. CASE n = pos
    BY <1>5, <2>1 DEF Solves
  <2>2. CASE n # pos
    <3>1. pred[n] = n - 1 /\ n - 1 \in D
      BY <1>0, <2>2
    <3>2. f[n] = step[<<n, f[n - 1]>>]
      BY <1>5, <2>2, <3>1 DEF Solves
    <3> QED
      BY <2>2, <3>1, <3>2
  <2> QED
    BY <2>1, <2>2
<1>7. F(f)
  BY <1>6
<1> DEFINE g == CHOOSE h : F(h)
<1>8. F(g)
  <2> HIDE DEF F
  <2> QED
    BY <1>7
<1>9. ReadNumber(s, pos) = g[end]
  BY DEF ReadNumber, end, first
<1>10. \A n \in D : g[n] = f[n]
  <2> DEFINE E == {n \in D : g[n] = f[n]}
  <2>1. ASSUME NEW n \in D, \A k \in D : k < n => k \in E
        PROVE  n \in E
    <3>0. g[n] = IF n = pos THEN first ELSE Take(g[n - 1], s[n - 1])
      <4> HIDE DEF g
      <4> QED
        BY <1>8
    <3>1. CASE n = pos
      BY <3>0, <1>6, <3>1
    <3>2. CASE n # pos
      <4>1. n - 1 \in D /\ n - 1 < n
        BY <1>0, <3>2
      <4>2. n - 1 \in E
        BY <2>1, <4>1
      <4> QED
        BY <3>0, <1>6, <3>2, <4>2
    <3> QED
      BY <3>1, <3>2
  <2>2. D \subseteq E
    <3> HIDE DEF E, D
    <3> QED
      BY <1>1, <2>1, NoLeastNoOne
  <2> QED
    BY <2>2
<1>11. end \in D
  BY <1>0
<1>12. ReadNumber(s, pos) = f[end]
  BY <1>9, <1>10, <1>11
<1>13. /\ f[pos] = first
       /\ \A i \in pos + 1 .. end : f[i] = Take(f[i - 1], s[i - 1])
  BY <1>0, <1>6
<1> QED
  BY <1>12, <1>13 DEF end, first

\* A digit is taken exactly when it fits, and then without wrapping.
LEMMA TakeFields ==
    ASSUME NEW acc \in Results, NEW c \in Digits
    PROVE  /\ Take(acc, c).ok \in BOOLEAN
           /\ Take(acc, c).ok <=> acc.ok /\ Fits(acc.value, Digit[c])
           /\ Take(acc, c).ok =>
                 /\ Take(acc, c).value = acc.value * 10 + Digit[c]
                 /\ Take(acc, c).pos = acc.pos + 1
<1>1. Take(acc, c) \in Results
  BY TakeType
<1>2. acc.ok \in BOOLEAN /\ acc.value \in Nat /\ Digit[c] \in 0 .. 9
  BY DigitOf, ParserAssumption DEF Results
<1>3. CASE acc.ok /\ Fits(acc.value, Digit[c])
  <2>1. (acc.value * 10 + Digit[c]) % (UintMax + 1) = acc.value * 10 + Digit[c]
    BY <1>2, <1>3, TakenDigitsDoNotWrap
  <2>2. Take(acc, c) = [ok |-> TRUE, value |-> (acc.value * 10 + Digit[c]) % (UintMax + 1),
                        pos |-> acc.pos + 1]
    BY <1>3 DEF Take
  <2> QED
    BY <1>1, <1>3, <2>1, <2>2
<1>4. CASE ~(acc.ok /\ Fits(acc.value, Digit[c]))
  <2>1. Take(acc, c) = [acc EXCEPT !.ok = FALSE]
    BY <1>4 DEF Take
  <2>2. Take(acc, c).ok = FALSE
    BY <2>1 DEF Results
  <2> QED
    BY <1>4, <2>2
<1> QED
  BY <1>3, <1>4

\* What a subsequence holds.
LEMMA Part ==
    ASSUME NEW C, NEW s \in Seq(C), NEW m \in 1 .. Len(s) + 1, NEW n \in m - 1 .. Len(s)
    PROVE  /\ SubSeq(s, m, n) \in Seq(C) /\ Len(SubSeq(s, m, n)) = n - m + 1
           /\ \A i \in 1 .. n - m + 1 : SubSeq(s, m, n)[i] = s[m + i - 1]
<1>1. m \in Int /\ n \in Int /\ \A i \in m .. n : s[i] \in C
  OBVIOUS
<1>2. /\ SubSeq(s, m, n) \in Seq(C)
      /\ Len(SubSeq(s, m, n)) = IF m <= n THEN n - m + 1 ELSE 0
      /\ \A i \in 1 .. n - m + 1 : SubSeq(s, m, n)[i] = s[m + i - 1]
  BY <1>1, SubSeqProperties
<1> QED
  BY <1>2

\* A sequence of elements of D.
LEMMA SequenceOver ==
    ASSUME NEW C, NEW D, NEW s \in Seq(C), \A i \in 1 .. Len(s) : s[i] \in D
    PROVE  s \in Seq(D)
OBVIOUS

\* read_number() succeeds exactly when there is a numeral at pos whose number fits,
\* and then yields that number and the position behind it.
LEMMA ReadsNumeral ==
    ASSUME NEW C, NEW s \in Seq(C), NEW pos \in 1 .. Len(s) + 1,
           NEW w, w = SubSeq(s, pos, DigitsEnd(s, pos) - 1)
    PROVE  /\ w \in Seq(Digits) /\ Len(w) = DigitsEnd(s, pos) - pos /\ Value(w) \in Nat
           /\ ReadNumber(s, pos).ok \in BOOLEAN
           /\ ReadNumber(s, pos).ok <=> w # <<>> /\ Value(w) <= UintMax
           /\ ReadNumber(s, pos).ok =>
                 ReadNumber(s, pos) = [ok |-> TRUE, value |-> Value(w), pos |-> DigitsEnd(s, pos)]
<1> DEFINE end == DigitsEnd(s, pos)
           N == end - pos
<1>1. /\ end \in pos .. Len(s) + 1 /\ ~IsDigit(At(s, end))
      /\ \A i \in pos .. end - 1 : i \in 1 .. Len(s) /\ s[i] \in Digits
  BY DigitsEndIs DEF IsDigit, Digits
<1>2. PICK read \in [pos .. end -> Results] :
         /\ read[pos] = [ok |-> IsDigit(At(s, pos)), value |-> 0, pos |-> pos]
         /\ \A i \in pos + 1 .. end : read[i] = Take(read[i - 1], s[i - 1])
         /\ ReadNumber(s, pos) = read[end]
  BY ReadNumberIsRecursive
<1> HIDE DEF end
<1>3. N \in Nat /\ pos \in Nat /\ end = pos + N
  BY <1>1
<1>4. /\ w \in Seq(Digits) /\ Len(w) = N
      /\ \A n \in 1 .. N : w[n] = s[pos + n - 1]
  <2>1. /\ w \in Seq(C) /\ Len(w) = N
        /\ \A n \in 1 .. N : w[n] = s[pos + n - 1]
    <3>1. end - 1 \in pos - 1 .. Len(s) /\ (end - 1) - pos + 1 = N
      BY <1>1
    <3> HIDE DEF N
    <3>2. w = SubSeq(s, pos, end - 1)
      BY DEF end
    <3>3. /\ SubSeq(s, pos, end - 1) \in Seq(C)
          /\ Len(SubSeq(s, pos, end - 1)) = (end - 1) - pos + 1
          /\ \A n \in 1 .. (end - 1) - pos + 1 : SubSeq(s, pos, end - 1)[n] = s[pos + n - 1]
      BY <3>1, Part
    <3> QED
      BY <3>1, <3>2, <3>3, Zenon
  <2>2. \A n \in 1 .. N : pos + n - 1 \in pos .. end - 1
    BY <1>3
  <2>3. \A n \in 1 .. N : w[n] \in Digits
    <3> HIDE DEF N
    <3> QED
      BY <1>1, <2>1, <2>2
  <2>4. w \in Seq(Digits)
    <3>1. w \in Seq(C) /\ \A n \in 1 .. Len(w) : w[n] \in Digits
      BY <2>1, <2>3
    <3> QED
      BY <3>1, SequenceOver
  <2> QED
    BY <2>1, <2>4
<1>5. PICK first \in [0 .. N -> Nat] :
         /\ first[0] = 0
         /\ \A n \in 1 .. N : first[n] = first[n - 1] * 10 + Digit[w[n]]
         /\ Value(w) = first[N]
  BY <1>4, ValueIsRecursive
<1> DEFINE R == [n \in 0 .. N |-> read[pos + n]]
<1>a. /\ R \in [0 .. N -> Results] /\ ReadNumber(s, pos) = R[N]
      /\ R[0] = [ok |-> N > 0, value |-> 0, pos |-> pos]
      /\ \A n \in 1 .. N : R[n] = Take(R[n - 1], w[n])
  <2>1. \A n \in 0 .. N : pos + n \in pos .. end
    BY <1>3
  <2>2. R \in [0 .. N -> Results]
    BY <1>2, <2>1
  <2>3. R[N] = read[end] /\ R[0] = read[pos]
    BY <1>3
  <2>4. IsDigit(At(s, pos)) <=> N > 0
    <3>1. CASE N = 0
      BY <1>1, <1>3, <3>1
    <3>2. CASE N > 0
      <4>1. pos \in pos .. end - 1
        BY <1>1, <1>3, <3>2
      <4> QED
        BY <1>1, <3>2, <4>1 DEF At, IsDigit, Digits
    <3> QED
      BY <1>3, <3>1, <3>2
  <2>5. ASSUME NEW n \in 1 .. N
        PROVE  R[n] = Take(R[n - 1], w[n])
    <3>1. pos + n \in pos + 1 .. end /\ (pos + n) - 1 = pos + (n - 1)
      BY <1>3
    <3>2. read[pos + n] = Take(read[pos + (n - 1)], s[pos + n - 1])
      BY <1>2, <3>1
    <3>3. w[n] = s[pos + n - 1]
      BY <1>4
    <3>4. R[n] = read[pos + n] /\ R[n - 1] = read[pos + (n - 1)]
      BY <1>3
    <3> QED
      BY <3>2, <3>3, <3>4
  <2>6. (IsDigit(At(s, pos))) = (N > 0)
    BY <2>4 DEF IsDigit
  <2> HIDE DEF R
  <2> QED
    BY <1>2, <2>2, <2>3, <2>5, <2>6
<1> HIDE DEF N, R
<1> DEFINE Good(n) == /\ R[n].ok <=> N > 0 /\ first[n] <= UintMax
                      /\ R[n].ok => R[n].value = first[n] /\ R[n].pos = pos + n
           E == {n \in 0 .. N : Good(n)}
<1>6. ASSUME NEW n \in 0 .. N, \A k \in 0 .. N : k < n => k \in E
      PROVE  n \in E
  <2>0. UintMax \in Nat
    BY ParserAssumption
  <2>1. CASE n = 0
    <3>1. R[n].ok = (N > 0) /\ R[n].value = 0 /\ R[n].pos = pos
      BY <1>a, <2>1
    <3>2. first[n] = 0 /\ first[n] <= UintMax /\ pos + n = pos
      BY <1>3, <1>5, <2>0, <2>1
    <3>3. Good(n)
      <4> HIDE DEF E
      <4> QED
        BY <3>1, <3>2
    <3> QED
      BY <3>3
  <2>2. CASE n # 0
    <3>1. n \in 1 .. N /\ n - 1 \in 0 .. N /\ N > 0 /\ n - 1 < n
      BY <1>3, <2>2
    <3>2. n - 1 \in E
      BY <1>6, <3>1
    <3>3. w[n] \in Digits /\ Digit[w[n]] \in 0 .. 9
      <4>1. w[n] \in Digits
        <5>1. w \in Seq(Digits) /\ n \in 1 .. Len(w)
          BY <1>4, <3>1
        <5> QED
          BY <5>1
      <4> QED
        BY <4>1, DigitOf
    <3>4. R[n] = Take(R[n - 1], w[n]) /\ R[n - 1] \in Results
      BY <1>a, <3>1
    <3>5. first[n] = first[n - 1] * 10 + Digit[w[n]] /\ first[n - 1] \in Nat /\ first[n] \in Nat
      BY <1>5, <3>1
    <3>6. (pos + (n - 1)) + 1 = pos + n
      BY <1>3
    <3>7. /\ R[n].ok <=> R[n - 1].ok /\ Fits(R[n - 1].value, Digit[w[n]])
          /\ R[n].ok => /\ R[n].value = R[n - 1].value * 10 + Digit[w[n]]
                        /\ R[n].pos = R[n - 1].pos + 1
      BY <3>3, <3>4, TakeFields
    <3>8. /\ R[n - 1].ok <=> first[n - 1] <= UintMax
          /\ R[n - 1].ok => R[n - 1].value = first[n - 1] /\ R[n - 1].pos = pos + (n - 1)
      BY <3>1, <3>2
    <3>9. Fits(first[n - 1], Digit[w[n]]) <=> first[n] <= UintMax
      BY <3>3, <3>5, GuardIsExact
    <3>10. first[n] <= UintMax => first[n - 1] <= UintMax
      <4> DEFINE a == first[n - 1]
                 d == Digit[w[n]]
      <4>1. first[n] = a * 10 + d /\ a \in Nat /\ d \in 0 .. 9
        BY <3>3, <3>5
      <4> HIDE DEF a, d
      <4>2. a * 10 + d <= UintMax => a <= UintMax
        BY <2>0, <4>1
      <4> QED
        BY <4>1, <4>2 DEF a
    <3>11. R[n].ok <=> first[n] <= UintMax
      BY <3>7, <3>8, <3>9, <3>10
    <3>12. R[n].ok => R[n].value = first[n] /\ R[n].pos = pos + n
      BY <3>5, <3>6, <3>7, <3>8
    <3> QED
      BY <3>1, <3>11, <3>12
  <2> QED
    BY <2>1, <2>2
<1>7. N \in E
  <2>1. 0 .. N \in SUBSET Nat /\ N \in 0 .. N
    BY <1>3
  <2> HIDE DEF E
  <2>2. 0 .. N \subseteq E
    BY <1>6, <2>1, NoLeastNoOne
  <2> QED
    BY <2>1, <2>2
<1>8. Good(N)
  <2> HIDE DEF Good
  <2> QED
    BY <1>7
<1>9. first[N] = Value(w) /\ Value(w) \in Nat
  BY <1>3, <1>5
<1>10. w # <<>> <=> N > 0
  <2>1. Len(w) \in Nat /\ (w # <<>> => Len(w) \in Nat \ {0}) /\ Len(<<>>) = 0
    BY <1>4, EmptySeq
  <2>2. Len(w) = N
    BY <1>4
  <2>3. w = <<>> => Len(w) = 0
    BY <2>1, Zenon
  <2>4. CASE w = <<>>
    <3>1. N = 0
      BY <2>2, <2>3, <2>4
    <3> QED
      BY <2>4, <3>1
  <2>5. CASE w # <<>>
    <3>1. N \in Nat \ {0}
      BY <2>1, <2>2, <2>5
    <3> QED
      BY <2>5, <3>1
  <2> QED
    BY <2>4, <2>5
<1>11. ReadNumber(s, pos).ok \in BOOLEAN
  BY <1>a, <1>3 DEF Results
<1>12. /\ ReadNumber(s, pos).ok <=> w # <<>> /\ Value(w) <= UintMax
       /\ ReadNumber(s, pos).ok =>
             ReadNumber(s, pos) = [ok |-> TRUE, value |-> Value(w), pos |-> end]
  <2>1. R[N] \in Results
    BY <1>a, <1>3
  <2>2. R[N].ok => R[N] = [ok |-> TRUE, value |-> Value(w), pos |-> end]
    BY <1>3, <1>8, <1>9, <2>1 DEF Results
  <2> QED
    BY <1>a, <1>8, <1>9, <1>10, <2>2
<1>13. Len(w) = end - pos
  BY <1>4 DEF N
<1> QED
  BY <1>4, <1>9, <1>10, <1>11, <1>12, <1>13 DEF end

\* Where a numeral w stands at pos, and no digit follows it, w is what is read.
LEMMA NumeralAt ==
    ASSUME NEW C, NEW s \in Seq(C), NEW pos \in 1 .. Len(s) + 1, NEW w \in Seq(Digits),
           pos + Len(w) <= Len(s) + 1,
           \A i \in 1 .. Len(w) : s[pos + i - 1] = w[i],
           ~IsDigit(At(s, pos + Len(w)))
    PROVE  /\ DigitsEnd(s, pos) = pos + Len(w)
           /\ SubSeq(s, pos, DigitsEnd(s, pos) - 1) = w
<1> DEFINE end == DigitsEnd(s, pos)
<1>0. Len(w) \in Nat /\ Len(s) \in Nat /\ pos \in Nat
  OBVIOUS
<1>1. /\ end \in pos .. Len(s) + 1 /\ ~IsDigit(At(s, end))
      /\ \A i \in pos .. end - 1 : i \in 1 .. Len(s) /\ IsDigit(s[i])
  BY DigitsEndIs
<1> HIDE DEF end
<1>2. end = pos + Len(w)
  <2>1. ~ (end < pos + Len(w))
    <3> SUFFICES ASSUME end < pos + Len(w) PROVE FALSE
      OBVIOUS
    <3> DEFINE i == end - pos + 1
    <3>1. i \in 1 .. Len(w) /\ pos + i - 1 = end /\ end \in 1 .. Len(s)
      BY <1>0, <1>1
    <3>2. s[end] \in Digits
      <4>1. w[i] \in Digits
        BY <3>1
      <4>2. s[end] = w[i]
        BY <3>1
      <4> QED
        BY <4>1, <4>2
    <3> QED
      BY <1>1, <3>1, <3>2 DEF At, IsDigit, Digits
  <2>2. ~ (pos + Len(w) < end)
    <3> SUFFICES ASSUME pos + Len(w) < end PROVE FALSE
      OBVIOUS
    <3>1. pos + Len(w) \in pos .. end - 1
      BY <1>0, <1>1
    <3>2. pos + Len(w) \in 1 .. Len(s) /\ IsDigit(s[pos + Len(w)])
      BY <1>1, <3>1
    <3> QED
      BY <3>2 DEF At
  <2> QED
    <3>1. end \in Int /\ pos + Len(w) \in Int
      BY <1>0, <1>1
    <3> QED
      BY <2>1, <2>2, <3>1
<1>3. SubSeq(s, pos, end - 1) = w
  <2> DEFINE v == SubSeq(s, pos, end - 1)
  <2>1. v \in Seq(C) /\ Len(v) = Len(w) /\ \A i \in 1 .. Len(w) : v[i] = s[pos + i - 1]
    <3>1. end - 1 \in pos - 1 .. Len(s) /\ (end - 1) - pos + 1 = Len(w)
      BY <1>0, <1>1, <1>2
    <3> QED
      BY <3>1, Part
  <2>2. \A i \in 1 .. Len(w) : v[i] = w[i]
    BY <2>1
  <2> HIDE DEF v
  <2>3. v = w
    <3>1. v \in Seq(Digits)
      <4>1. \A i \in 1 .. Len(v) : v[i] \in Digits
        BY <2>1, <2>2
      <4> QED
        BY <2>1, <4>1
    <3> QED
      BY <2>1, <2>2, <3>1, SeqEqual
  <2> QED
    BY <2>3 DEF v
<1> QED
  BY <1>2, <1>3 DEF end

-----------------------------------------------------------------------------
(* Trimming, and the layout of a spelled address. *)

\* Trimming cuts a text to its first and last character that is no space.
LEMMA TrimIs ==
    ASSUME NEW C, NEW s \in Seq(C)
    PROVE  \/ /\ Trim(s) = <<>>
              /\ \A i \in 1 .. Len(s) : IsSpace(s[i])
           \/ \E b \in 1 .. Len(s), e \in 1 .. Len(s) :
                 /\ b <= e /\ Trim(s) = SubSeq(s, b, e)
                 /\ ~IsSpace(s[b]) /\ ~IsSpace(s[e])
                 /\ \A i \in 1 .. Len(s) : IsSpace(s[i]) \/ i \in b .. e
<1> DEFINE black == {i \in 1 .. Len(s) : ~IsSpace(s[i])}
<1>1. Trim(s) = IF black = {} THEN <<>> ELSE SubSeq(s, Min(black), Max(black))
  BY DEF Trim
<1>2. \A i \in black : i \in 1 .. Len(s) /\ ~IsSpace(s[i])
  OBVIOUS
<1>3. \A i \in 1 .. Len(s) : IsSpace(s[i]) \/ i \in black
  OBVIOUS
<1>4. black \in SUBSET Nat /\ Len(s) \in Nat /\ \A i \in black : i <= Len(s)
  OBVIOUS
<1> HIDE DEF black
<1>5. CASE black = {}
  BY <1>1, <1>3, <1>5
<1>6. CASE black # {}
  <2>1. Min(black) \in black /\ \A y \in black : Min(black) <= y
    BY <1>4, <1>6, LeastElement
  <2>2. Max(black) \in black /\ \A y \in black : y <= Max(black)
    BY <1>4, <1>6, GreatestElement
  <2> DEFINE b == Min(black)
             e == Max(black)
  <2>3. \A i \in black : i \in b .. e
    BY <1>4, <2>1, <2>2
  <2>4. Trim(s) = SubSeq(s, b, e)
    BY <1>1, <1>6
  <2>5. b \in 1 .. Len(s) /\ e \in 1 .. Len(s) /\ b <= e /\ ~IsSpace(s[b]) /\ ~IsSpace(s[e])
    BY <1>2, <2>1, <2>2
  <2>6. \A i \in 1 .. Len(s) : IsSpace(s[i]) \/ i \in b .. e
    BY <1>3, <2>3
  <2> HIDE DEF b, e
  <2> QED
    BY <2>4, <2>5, <2>6
<1> QED
  BY <1>5, <1>6

\* The characters trim() removes.
Spaces == {" ", "tab"}

\* Trimming takes away what surrounds a text that begins and ends with no space.
LEMMA TrimOf ==
    ASSUME NEW C, NEW l \in Seq(Spaces), NEW m \in Seq(C), NEW t \in Seq(Spaces),
           m # <<>>, ~IsSpace(m[1]), ~IsSpace(m[Len(m)])
    PROVE  Trim(l \o m \o t) = m
<1> DEFINE U == C \cup Spaces
           s == (l \o m) \o t
<1>1. l \in Seq(U) /\ m \in Seq(U) /\ t \in Seq(U)
  <2>1. C \subseteq U /\ Spaces \subseteq U
    OBVIOUS
  <2> HIDE DEF U
  <2> QED
    BY <2>1
<1> HIDE DEF U
<1>2. Len(l) \in Nat /\ Len(m) \in Nat \ {0} /\ Len(t) \in Nat
  BY EmptySeq
<1>3. /\ l \o m \in Seq(U) /\ Len(l \o m) = Len(l) + Len(m)
      /\ \A i \in 1 .. Len(l) + Len(m) : (l \o m)[i] = IF i <= Len(l) THEN l[i] ELSE m[i - Len(l)]
  BY <1>1, ConcatProperties
<1>4. /\ s \in Seq(U) /\ Len(s) = Len(l) + Len(m) + Len(t)
      /\ \A i \in 1 .. Len(l) + Len(m) + Len(t) :
            s[i] = IF i <= Len(l) + Len(m) THEN (l \o m)[i] ELSE t[i - (Len(l) + Len(m))]
  <2> DEFINE lm == l \o m
  <2>0. lm \in Seq(U)
    BY <1>3
  <2>1. Len(lm) = Len(l) + Len(m)
    BY <1>3
  <2> HIDE DEF lm, s
  <2>2. /\ lm \o t \in Seq(U) /\ Len(lm \o t) = Len(lm) + Len(t)
        /\ \A i \in 1 .. Len(lm) + Len(t) :
              (lm \o t)[i] = IF i <= Len(lm) THEN lm[i] ELSE t[i - Len(lm)]
    BY <1>1, <2>0, ConcatProperties
  <2> QED
    BY <1>2, <2>1, <2>2 DEF lm, s
<1> DEFINE p == Len(l)
           n == Len(m)
           q == Len(t)
<1>5. \A i \in 1 .. p : s[i] = l[i] /\ IsSpace(s[i])
  <2> SUFFICES ASSUME NEW i \in 1 .. p PROVE s[i] = l[i] /\ IsSpace(s[i])
    OBVIOUS
  <2>1. s[i] = l[i]
    BY <1>2, <1>3, <1>4
  <2>2. l[i] \in Spaces
    OBVIOUS
  <2> QED
    BY <2>1, <2>2 DEF IsSpace, Spaces
<1>6. \A i \in 1 .. n : s[p + i] = m[i]
  <2> SUFFICES ASSUME NEW i \in 1 .. n PROVE s[p + i] = m[i]
    OBVIOUS
  <2>1. p + i \in 1 .. p + n /\ p + i \in 1 .. p + n + q /\ ~(p + i <= p) /\ (p + i) - p = i
        /\ p + i <= p + n
    BY <1>2
  <2> HIDE DEF s
  <2>2. (l \o m)[p + i] = m[(p + i) - p]
    BY <1>3, <2>1
  <2> QED
    BY <1>4, <2>1, <2>2
<1>7. \A i \in p + n + 1 .. p + n + q : IsSpace(s[i])
  <2> SUFFICES ASSUME NEW i \in p + n + 1 .. p + n + q PROVE IsSpace(s[i])
    OBVIOUS
  <2>1. i \in 1 .. p + n + q /\ ~(i <= p + n) /\ i - (p + n) \in 1 .. q
    BY <1>2
  <2>2. s[i] = t[i - (p + n)]
    <3> HIDE DEF s
    <3> QED
      BY <1>4, <2>1
  <2>3. t[i - (p + n)] \in Spaces
    BY <2>1
  <2> QED
    BY <2>2, <2>3 DEF IsSpace, Spaces
<1>8. /\ p + 1 \in 1 .. Len(s) /\ p + n \in 1 .. Len(s)
      /\ ~IsSpace(s[p + 1]) /\ ~IsSpace(s[p + n])
  <2>1. 1 \in 1 .. n /\ n \in 1 .. n
    BY <1>2
  <2>2. s[p + 1] = m[1] /\ s[p + n] = m[n]
    BY <1>6, <2>1
  <2>3. p + 1 \in 1 .. Len(s) /\ p + n \in 1 .. Len(s)
    BY <1>2, <1>4
  <2> QED
    BY <2>2, <2>3
<1> HIDE DEF s
<1>9. PICK b \in 1 .. Len(s), e \in 1 .. Len(s) :
         /\ b <= e /\ Trim(s) = SubSeq(s, b, e)
         /\ ~IsSpace(s[b]) /\ ~IsSpace(s[e])
         /\ \A i \in 1 .. Len(s) : IsSpace(s[i]) \/ i \in b .. e
  BY <1>4, <1>8, TrimIs
<1>10. b = p + 1 /\ e = p + n
  <2>1. p + 1 \in b .. e /\ p + n \in b .. e
    BY <1>8, <1>9
  <2>2. ~(b <= p) /\ ~(e > p + n)
    <3>1. b <= p => b \in 1 .. p
      BY <1>2
    <3>2. e > p + n => e \in p + n + 1 .. p + n + q
      BY <1>2, <1>4
    <3> QED
      BY <1>5, <1>7, <1>9, <3>1, <3>2
  <2> QED
    BY <1>2, <2>1, <2>2
<1>11. SubSeq(s, p + 1, p + n) = m
  <2> DEFINE v == SubSeq(s, p + 1, p + n)
  <2>1. v \in Seq(U) /\ Len(v) = n /\ \A i \in 1 .. n : v[i] = s[p + i]
    <3>1. /\ p + 1 \in 1 .. Len(s) + 1 /\ p + n \in (p + 1) - 1 .. Len(s)
          /\ (p + n) - (p + 1) + 1 = n
      BY <1>2, <1>4
    <3>2. v \in Seq(U) /\ Len(v) = n /\ \A i \in 1 .. n : v[i] = s[(p + 1) + i - 1]
      BY <1>4, <3>1, Part
    <3>3. \A i \in 1 .. n : (p + 1) + i - 1 = p + i
      BY <1>2
    <3> QED
      BY <3>2, <3>3
  <2> HIDE DEF v
  <2>2. v = m
    BY <1>1, <1>6, <2>1, SeqEqual
  <2> QED
    BY <2>2 DEF v
<1> QED
  BY <1>9, <1>10, <1>11 DEF s

\* What a concatenation holds.
LEMMA Joined ==
    ASSUME NEW C, NEW u \in Seq(C), NEW v \in Seq(C)
    PROVE  /\ u \o v \in Seq(C) /\ Len(u \o v) = Len(u) + Len(v)
           /\ Len(u) \in Nat /\ Len(v) \in Nat
           /\ \A i \in 1 .. Len(u) : (u \o v)[i] = u[i]
           /\ \A i \in 1 .. Len(v) : (u \o v)[Len(u) + i] = v[i]
<1>1. /\ u \o v \in Seq(C) /\ Len(u \o v) = Len(u) + Len(v)
      /\ \A i \in 1 .. Len(u) + Len(v) :
            (u \o v)[i] = IF i <= Len(u) THEN u[i] ELSE v[i - Len(u)]
  BY ConcatProperties
<1>2. Len(u) \in Nat /\ Len(v) \in Nat
  OBVIOUS
<1>3. \A i \in 1 .. Len(v) : (u \o v)[Len(u) + i] = v[i]
  <2> SUFFICES ASSUME NEW i \in 1 .. Len(v) PROVE (u \o v)[Len(u) + i] = v[i]
    OBVIOUS
  <2>1. /\ Len(u) + i \in 1 .. Len(u) + Len(v) /\ ~(Len(u) + i <= Len(u))
        /\ (Len(u) + i) - Len(u) = i
    BY <1>2
  <2> DEFINE k == Len(u) + i
  <2> HIDE DEF k
  <2>2. k \in 1 .. Len(u) + Len(v) /\ ~(k <= Len(u)) /\ k - Len(u) = i
    BY <2>1 DEF k
  <2>3. (u \o v)[k] = v[k - Len(u)]
    BY <1>1, <2>2
  <2> QED
    BY <2>2, <2>3 DEF k
<1> QED
  BY <1>1, <1>2, <1>3

\* A documented spelling, of any length and with numerals of any size.
WellSpelled(g) ==
    /\ g.lead \in Seq(Spaces) /\ g.trail \in Seq(Spaces)
    /\ g.mark \in {<<>>, <<"%">>}
    /\ Upper(g.area) \in DOMAIN AreaOf
    /\ g.x \in {<<>>, <<"x">>, <<"X">>}
    /\ g.byte \in Seq(Digits) /\ g.byte # <<>>
    /\ g.bit \in Seq(Digits) /\ g.bit # <<>>

\* The characters of a well-spelled address.
Chars == Digits \cup {"%", ".", "x", "X"} \cup {"I", "E", "Q", "A", "M", "i", "e", "q", "a", "m"}

\* Where the area letter, the byte offset and the dot stand in it.
AreaPos(g) == Len(g.mark) + 1
BytePos(g) == AreaPos(g) + Len(g.x) + 1
DotPos(g) == BytePos(g) + Len(g.byte)

\* Which character stands where in a well-spelled address.
LEMMA BodyShape ==
    ASSUME NEW g, WellSpelled(g)
    PROVE  /\ Body(g) \in Seq(Chars)
           /\ AreaPos(g) \in 1 .. 2 /\ BytePos(g) \in AreaPos(g) + 1 .. AreaPos(g) + 2
           /\ DotPos(g) \in Nat /\ DotPos(g) > BytePos(g)
           /\ Len(g.bit) \in Nat \ {0} /\ Len(Body(g)) = DotPos(g) + Len(g.bit)
           /\ AreaPos(g) = 2 => Body(g)[1] = "%"
           /\ Body(g)[AreaPos(g)] = g.area
           /\ BytePos(g) = AreaPos(g) + 2 => 
                 Body(g)[AreaPos(g) + 1] = g.x[1] /\ g.x[1] \in {"x", "X"}
           /\ \A i \in 1 .. Len(g.byte) : Body(g)[BytePos(g) + i - 1] = g.byte[i]
           /\ Body(g)[DotPos(g)] = "."
           /\ \A i \in 1 .. Len(g.bit) : Body(g)[DotPos(g) + i] = g.bit[i]
<1> DEFINE b1 == g.mark \o <<g.area>>
           b2 == b1 \o g.x
           b3 == b2 \o g.byte
           b4 == b3 \o <<".">>
           b5 == b4 \o g.bit
           a == AreaPos(g)
           n == BytePos(g)
           d == DotPos(g)
<1>1. b5 = Body(g)
  BY DEF Body
<1>2. /\ g.mark \in Seq(Chars) /\ <<g.area>> \in Seq(Chars) /\ g.x \in Seq(Chars)
      /\ g.byte \in Seq(Chars) /\ <<".">> \in Seq(Chars) /\ g.bit \in Seq(Chars)
      /\ Len(<<g.area>>) = 1 /\ <<g.area>>[1] = g.area /\ Len(<<".">>) = 1 /\ <<".">>[1] = "."
  <2>1. g.area \in Chars
    BY UpperOf DEF WellSpelled, Chars
  <2>2. Digits \subseteq Chars /\ "%" \in Chars /\ "x" \in Chars /\ "X" \in Chars /\ "." \in Chars
    BY DEF Chars
  <2>3. g.mark \in Seq(Chars)
    <3>1. <<>> \in Seq(Chars) /\ <<"%">> \in Seq(Chars)
      BY <2>2
    <3> QED
      BY <3>1 DEF WellSpelled
  <2>4. g.x \in Seq(Chars)
    <3>1. <<>> \in Seq(Chars) /\ <<"x">> \in Seq(Chars) /\ <<"X">> \in Seq(Chars)
      BY <2>2
    <3> QED
      BY <3>1 DEF WellSpelled
  <2>5. g.byte \in Seq(Chars) /\ g.bit \in Seq(Chars)
    <3> HIDE DEF Digits, Chars
    <3> QED
      BY <2>2 DEF WellSpelled
  <2> QED
    BY <2>1, <2>2, <2>3, <2>4, <2>5
<1>3. /\ Len(g.mark) \in 0 .. 1 /\ (Len(g.mark) = 1 => g.mark[1] = "%")
      /\ Len(g.x) \in 0 .. 1 /\ (Len(g.x) = 1 => g.x[1] \in {"x", "X"})
      /\ Len(g.byte) \in Nat \ {0} /\ Len(g.bit) \in Nat \ {0}
  <2>1. Len(g.mark) \in 0 .. 1 /\ (Len(g.mark) = 1 => g.mark[1] = "%")
    <3>1. CASE g.mark = <<>>
      BY <3>1
    <3>2. CASE g.mark = <<"%">>
      BY <3>2
    <3> QED
      BY <3>1, <3>2 DEF WellSpelled
  <2>2. Len(g.x) \in 0 .. 1 /\ (Len(g.x) = 1 => g.x[1] \in {"x", "X"})
    <3>1. CASE g.x = <<>>
      BY <3>1
    <3>2. CASE g.x = <<"x">>
      BY <3>2
    <3>3. CASE g.x = <<"X">>
      BY <3>3
    <3> QED
      BY <3>1, <3>2, <3>3 DEF WellSpelled
  <2>3. Len(g.byte) \in Nat \ {0} /\ Len(g.bit) \in Nat \ {0}
    BY EmptySeq DEF WellSpelled
  <2> QED
    BY <2>1, <2>2, <2>3
<1>0. a = Len(g.mark) + 1 /\ n = a + Len(g.x) + 1 /\ d = n + Len(g.byte)
  BY DEF AreaPos, BytePos, DotPos
<1> HIDE DEF a, n, d
<1>9. /\ a \in 1 .. 2 /\ n \in a + 1 .. a + 2 /\ d \in Nat /\ d > n /\ d = n + Len(g.byte)
      /\ n = a + 2 => Len(g.x) = 1
  <2> DEFINE p == Len(g.mark)
             k == Len(g.x)
             m == Len(g.byte)
  <2>1. p \in 0 .. 1 /\ k \in 0 .. 1 /\ m \in Nat \ {0}
    BY <1>3
  <2>2. a = p + 1 /\ n = a + k + 1 /\ d = n + m
    BY <1>0
  <2> HIDE DEF p, k, m
  <2>3. /\ a \in 1 .. 2 /\ n \in a + 1 .. a + 2 /\ d \in Nat /\ d > n
        /\ n = a + 2 => k = 1
    BY <2>1, <2>2
  <2> QED
    BY <2>2, <2>3 DEF k, m
<1> HIDE DEF b1, b2, b3, b4, b5
<1>4. /\ b1 \in Seq(Chars) /\ Len(b1) = a
      /\ a = 2 => b1[1] = "%"
      /\ b1[a] = g.area
  <2>1. /\ b1 \in Seq(Chars) /\ Len(b1) = Len(g.mark) + 1
        /\ \A i \in 1 .. Len(g.mark) : b1[i] = g.mark[i]
        /\ \A i \in 1 .. 1 : b1[Len(g.mark) + i] = <<g.area>>[i]
    BY <1>2, Joined DEF b1
  <2>2. b1[Len(g.mark) + 1] = <<g.area>>[1]
    BY <2>1
  <2> QED
    BY <1>0, <1>2, <1>3, <2>1, <2>2
<1>5. /\ b2 \in Seq(Chars) /\ Len(b2) + 1 = n
      /\ \A i \in 1 .. a : b2[i] = b1[i]
      /\ n = a + 2 => b2[a + 1] = g.x[1] /\ g.x[1] \in {"x", "X"}
  <2>1. /\ b2 \in Seq(Chars) /\ Len(b2) = Len(b1) + Len(g.x)
        /\ \A i \in 1 .. Len(b1) : b2[i] = b1[i]
        /\ \A i \in 1 .. Len(g.x) : b2[Len(b1) + i] = g.x[i]
    <3>1. b1 \in Seq(Chars)
      BY <1>4
    <3> QED
      BY <1>2, <3>1, Joined DEF b2
  <2>2. Len(g.x) = 1 => b2[a + 1] = g.x[1]
    BY <1>4, <2>1
  <2>3. Len(b2) + 1 = n
    BY <1>0, <1>3, <1>4, <2>1
  <2>4. n = a + 2 => Len(g.x) = 1
    BY <1>9
  <2> QED
    BY <1>3, <1>4, <2>1, <2>2, <2>3, <2>4
<1>6. /\ b3 \in Seq(Chars) /\ Len(b3) + 1 = d
      /\ \A i \in 1 .. n - 1 : b3[i] = b2[i]
      /\ \A i \in 1 .. Len(g.byte) : b3[n - 1 + i] = g.byte[i]
  <2>1. /\ b3 \in Seq(Chars) /\ Len(b3) = Len(b2) + Len(g.byte)
        /\ \A i \in 1 .. Len(b2) : b3[i] = b2[i]
        /\ \A i \in 1 .. Len(g.byte) : b3[Len(b2) + i] = g.byte[i]
    <3>1. b2 \in Seq(Chars)
      BY <1>5
    <3> QED
      BY <1>2, <3>1, Joined DEF b3
  <2>2. Len(b2) = n - 1
    BY <1>5
  <2> QED
    <3>1. Len(b3) + 1 = d
      <4> DEFINE m == Len(g.byte)
      <4>1. Len(b3) = Len(b2) + m /\ d = n + m /\ m \in Nat
        BY <1>3, <1>9, <2>1
      <4> HIDE DEF m
      <4> QED
        BY <1>9, <2>2, <4>1
    <3> QED
      BY <2>1, <2>2, <3>1
<1>7. /\ b4 \in Seq(Chars) /\ Len(b4) = d
      /\ \A i \in 1 .. d - 1 : b4[i] = b3[i]
      /\ b4[d] = "."
  <2>1. /\ b4 \in Seq(Chars) /\ Len(b4) = Len(b3) + 1
        /\ \A i \in 1 .. Len(b3) : b4[i] = b3[i]
        /\ \A i \in 1 .. 1 : b4[Len(b3) + i] = <<".">>[i]
    <3>1. b3 \in Seq(Chars)
      BY <1>6
    <3> QED
      BY <1>2, <3>1, Joined DEF b4
  <2>2. b4[Len(b3) + 1] = "."
    BY <1>2, <2>1
  <2>3. Len(b3) = d - 1
    BY <1>6
  <2> QED
    BY <1>6, <2>1, <2>2, <2>3
<1>8. /\ b5 \in Seq(Chars) /\ Len(b5) = d + Len(g.bit)
      /\ \A i \in 1 .. d : b5[i] = b4[i]
      /\ \A i \in 1 .. Len(g.bit) : b5[d + i] = g.bit[i]
  <2>1. /\ b5 \in Seq(Chars) /\ Len(b5) = Len(b4) + Len(g.bit)
        /\ \A i \in 1 .. Len(b4) : b5[i] = b4[i]
        /\ \A i \in 1 .. Len(g.bit) : b5[Len(b4) + i] = g.bit[i]
    <3>1. b4 \in Seq(Chars)
      BY <1>7
    <3> QED
      BY <1>2, <3>1, Joined DEF b5
  <2> QED
    BY <1>7, <2>1
<1>10. \A i \in 1 .. n - 1 : b5[i] = b2[i]
  <2> SUFFICES ASSUME NEW i \in 1 .. n - 1 PROVE b5[i] = b2[i]
    OBVIOUS
  <2>1. i \in 1 .. d /\ i \in 1 .. d - 1
    BY <1>9
  <2> QED
    BY <1>6, <1>7, <1>8, <2>1
<1>11. \A i \in 1 .. a : b5[i] = b1[i]
  <2> SUFFICES ASSUME NEW i \in 1 .. a PROVE b5[i] = b1[i]
    OBVIOUS
  <2>1. i \in 1 .. n - 1
    BY <1>9
  <2> QED
    BY <1>5, <1>10, <2>1
<1>12. \A i \in 1 .. Len(g.byte) : b5[n + i - 1] = g.byte[i]
  <2> SUFFICES ASSUME NEW i \in 1 .. Len(g.byte) PROVE b5[n + i - 1] = g.byte[i]
    OBVIOUS
  <2> DEFINE k == n + i - 1
  <2>1. k \in 1 .. d /\ k \in 1 .. d - 1 /\ k = n - 1 + i
    <3> DEFINE m == Len(g.byte)
    <3>1. m \in Nat /\ i \in 1 .. m /\ d = n + m
      BY <1>3, <1>9
    <3> HIDE DEF m
    <3> QED
      BY <1>9, <3>1
  <2>2. b3[k] = g.byte[i]
    BY <1>6, <2>1
  <2> HIDE DEF k
  <2>3. b5[k] = g.byte[i]
    BY <1>7, <1>8, <2>1, <2>2
  <2> QED
    BY <2>3 DEF k
<1>13. b5[d] = "."
  <2>1. d \in 1 .. d
    BY <1>9
  <2> QED
    BY <1>7, <1>8, <2>1
<1>14. a = 2 => b5[1] = "%"
  BY <1>4, <1>9, <1>11
<1>15. b5[a] = g.area
  BY <1>4, <1>9, <1>11
<1>16. n = a + 2 => b5[a + 1] = g.x[1] /\ g.x[1] \in {"x", "X"}
  <2>1. n = a + 2 => a + 1 \in 1 .. n - 1
    BY <1>9
  <2> QED
    BY <1>5, <1>10, <2>1
<1>17. Len(g.bit) \in Nat \ {0}
  BY <1>3
<1> QED
  BY <1>1, <1>8, <1>9, <1>12, <1>13, <1>14, <1>15, <1>16, <1>17 DEF a, n, d

-----------------------------------------------------------------------------
(* A spelled address is parsed. *)

\* Where parse_bit_address() looks for the area letter and the byte offset.
AreaAt(s) == IF At(s, 1) = "%" THEN 2 ELSE 1

NumberAt(s) == IF Upper(At(s, AreaAt(s) + 1)) = "X" THEN AreaAt(s) + 2 ELSE AreaAt(s) + 1

\* What parse_bit_address() makes of the parts it has found.
Verdict(s, a, byte, bit) ==
    IF s = <<>> THEN Rejected("empty")
    ELSE IF Upper(At(s, 1)) = "D" /\ Upper(At(s, 2)) = "B" THEN Rejected("data_block")
    ELSE IF a > Len(s) THEN Rejected("no_area")
    ELSE IF Upper(s[a]) \notin DOMAIN AreaOf THEN Rejected("unknown_area")
    ELSE IF Upper(At(s, a + 1)) \in {"B", "W", "D"} THEN Rejected("wide_access")
    ELSE IF ~byte.ok
         THEN Rejected(IF byte.pos <= Len(s) THEN "byte_expected" ELSE "byte_missing")
    ELSE IF byte.pos > Len(s) THEN Rejected("bit_missing")
    ELSE IF s[byte.pos] # "." THEN Rejected("dot_expected")
    ELSE IF ~bit.ok THEN Rejected("bit_expected")
    ELSE IF bit.pos # Len(s) + 1 THEN Rejected("trailing")
    ELSE IF bit.value > 7 THEN Rejected("bit_range")
    ELSE Accepted(AreaOf[Upper(s[a])], byte.value, bit.value)

\* parse_bit_address() trims, finds the parts and judges them.
LEMMA ParseIsVerdict ==
    ASSUME NEW address, NEW s, s = Trim(address)
    PROVE  ParseBitAddress(address) =
              Verdict(s, AreaAt(s), ReadNumber(s, NumberAt(s)),
                      ReadNumber(s, ReadNumber(s, NumberAt(s)).pos + 1))
BY DEF ParseBitAddress, Verdict, AreaAt, NumberAt

\* No digit and no area letter is mistaken for a size or data-block prefix.
LEMMA UpperIsNot ==
    /\ \A c \in Digits : Upper(c) \notin {"X", "B", "W", "D"}
    /\ \A c \in {"x", "X"} : Upper(c) = "X"
    /\ \A c : Upper(c) \in DOMAIN AreaOf => Upper(c) # "D" /\ c \notin Digits /\ c # "%"
    /\ Upper("%") # "D"
<1>1. \A c \in Digits : Upper(c) \notin {"X", "B", "W", "D"}
  <2> SUFFICES ASSUME NEW c \in Digits PROVE Upper(c) \notin {"X", "B", "W", "D"}
    OBVIOUS
  <2>1. Upper(c) = c
    BY UpperOf DEF Digits
  <2>2. c \notin {"X", "B", "W", "D"}
    BY DigitsAre DEF Digits
  <2> QED
    BY <2>1, <2>2
<1>2. \A c : Upper(c) \in DOMAIN AreaOf => Upper(c) # "D" /\ c \notin Digits /\ c # "%"
  <2> SUFFICES ASSUME NEW c, Upper(c) \in DOMAIN AreaOf
               PROVE  Upper(c) # "D" /\ c \notin Digits /\ c # "%"
    OBVIOUS
  <2>1. Upper(c) \in {"I", "E", "Q", "A", "M"}
    BY UpperOf
  <2>2. c \in {"I", "E", "Q", "A", "M", "i", "e", "q", "a", "m"}
    BY UpperOf
  <2> QED
    BY <2>1, <2>2, DigitsAre DEF Digits
<1> QED
  BY <1>1, <1>2, UpperOf

\* A numeral that fits, with no digit behind it, is read.
LEMMA ReadAt ==
    ASSUME NEW C, NEW s \in Seq(C), NEW pos \in 1 .. Len(s) + 1, NEW w \in Seq(Digits),
           w # <<>>, pos + Len(w) <= Len(s) + 1,
           \A i \in 1 .. Len(w) : s[pos + i - 1] = w[i],
           ~IsDigit(At(s, pos + Len(w))), Value(w) <= UintMax
    PROVE  ReadNumber(s, pos) = [ok |-> TRUE, value |-> Value(w), pos |-> pos + Len(w)]
<1>1. DigitsEnd(s, pos) = pos + Len(w) /\ w = SubSeq(s, pos, DigitsEnd(s, pos) - 1)
  BY NumeralAt
<1>2. /\ ReadNumber(s, pos).ok <=> w # <<>> /\ Value(w) <= UintMax
      /\ ReadNumber(s, pos).ok =>
            ReadNumber(s, pos) = [ok |-> TRUE, value |-> Value(w), pos |-> DigitsEnd(s, pos)]
  BY <1>1, ReadsNumeral
<1> QED
  BY <1>1, <1>2

\* What parse_bit_address() says of a text that trims to a well-spelled address.
LEMMA ParseOfBody ==
    ASSUME NEW address, NEW g, WellSpelled(g), Trim(address) = Body(g),
           Value(g.byte) <= UintMax, Value(g.bit) <= UintMax
    PROVE  ParseBitAddress(address) =
              IF Value(g.bit) > 7 THEN Rejected("bit_range")
              ELSE Accepted(AreaOf[Upper(g.area)], Value(g.byte), Value(g.bit))
<1> DEFINE s == Body(g)
           a == AreaPos(g)
           n == BytePos(g)
           d == DotPos(g)
           l == Len(s)
           k == Len(g.byte)
           m == Len(g.bit)
<1>1. /\ s \in Seq(Chars)
      /\ a \in 1 .. 2 /\ n \in a + 1 .. a + 2 /\ d \in Nat /\ d > n
      /\ m \in Nat \ {0} /\ l = d + m
      /\ a = 2 => s[1] = "%"
      /\ s[a] = g.area
      /\ n = a + 2 => s[a + 1] \in {"x", "X"}
      /\ \A i \in 1 .. k : s[n + i - 1] = g.byte[i]
      /\ s[d] = "."
      /\ \A i \in 1 .. m : s[d + i] = g.bit[i]
  BY BodyShape
<1>2. /\ g.byte \in Seq(Digits) /\ k \in Nat \ {0} /\ d = n + k
      /\ g.bit \in Seq(Digits) /\ g.byte # <<>> /\ g.bit # <<>>
      /\ Upper(g.area) \in DOMAIN AreaOf
  BY EmptySeq DEF WellSpelled, DotPos
<1>a. /\ \A i \in 1 .. l : At(s, i) = s[i]
      /\ At(s, l + 1) = "end"
  <2>1. \A i \in 1 .. l : At(s, i) = s[i]
    BY DEF At
  <2>2. l \in Nat
    BY <1>1
  <2>3. ~(l + 1 <= l)
    <3> HIDE DEF l
    <3> QED
      BY <2>2
  <2>4. At(s, l + 1) = "end"
    BY <2>3 DEF At
  <2> QED
    BY <2>1, <2>4
<1>b. s \in Seq(Chars) /\ Len(s) = l /\ Len(g.byte) = k /\ Len(g.bit) = m
  BY <1>1
<1> HIDE DEF s, a, n, d, l, k, m
<1>c. /\ 1 \in 1 .. l /\ a \in 1 .. l /\ a + 1 \in 1 .. l /\ d \in 1 .. l
      /\ n \in 1 .. l + 1 /\ n + k = d /\ d <= l + 1
      /\ d + 1 \in 1 .. l + 1 /\ (d + 1) + m = l + 1
      /\ 1 \in 1 .. k
  BY <1>1, <1>2
<1>3. AreaAt(s) = a
  <2>1. At(s, 1) = s[1]
    BY <1>a, <1>c
  <2>2. a = 1 => s[1] # "%"
    BY <1>1, <1>2, UpperIsNot
  <2> QED
    BY <1>1, <2>1, <2>2 DEF AreaAt
<1>4. At(s, a + 1) = s[a + 1] /\ (n = a + 1 => s[a + 1] \in Digits)
  <2>1. s[n + 1 - 1] = g.byte[1]
    BY <1>1, <1>c
  <2>2. n = a + 1 => s[a + 1] = g.byte[1]
    BY <1>1, <2>1
  <2>3. g.byte[1] \in Digits
    <3>1. g.byte \in Seq(Digits) /\ 1 \in 1 .. Len(g.byte)
      BY <1>2, <1>b, <1>c
    <3> QED
      BY <3>1
  <2> QED
    BY <1>a, <1>c, <2>2, <2>3
<1>5. /\ Upper(At(s, a + 1)) = "X" <=> n = a + 2
      /\ Upper(At(s, a + 1)) \notin {"B", "W", "D"}
  <2>1. CASE n = a + 1
    <3>1. n # a + 2
      BY <1>1, <2>1
    <3>2. Upper(s[a + 1]) \notin {"X", "B", "W", "D"}
      BY <1>4, <2>1, UpperIsNot
    <3> QED
      BY <1>4, <3>1, <3>2
  <2>2. CASE n = a + 2
    <3>1. Upper(s[a + 1]) = "X"
      BY <1>1, <2>2, UpperIsNot
    <3> QED
      BY <1>4, <2>2, <3>1
  <2> QED
    BY <1>1, <2>1, <2>2
<1>7. NumberAt(s) = n
  BY <1>1, <1>3, <1>5 DEF NumberAt
<1>8. ReadNumber(s, n) = [ok |-> TRUE, value |-> Value(g.byte), pos |-> d]
  <2>1. ~IsDigit(At(s, n + k))
    BY <1>1, <1>a, <1>c, DigitsAre DEF IsDigit
  <2>2. n \in 1 .. Len(s) + 1 /\ n + Len(g.byte) <= Len(s) + 1
    BY <1>b, <1>c
  <2>3. /\ \A i \in 1 .. Len(g.byte) : s[n + i - 1] = g.byte[i]
        /\ ~IsDigit(At(s, n + Len(g.byte)))
    BY <1>1, <1>b, <2>1
  <2>4. ReadNumber(s, n) = [ok |-> TRUE, value |-> Value(g.byte), pos |-> n + Len(g.byte)]
    BY <1>2, <1>b, <2>2, <2>3, ReadAt
  <2> QED
    BY <1>b, <1>c, <2>4
<1>9. ReadNumber(s, d + 1) = [ok |-> TRUE, value |-> Value(g.bit), pos |-> l + 1]
  <2> DEFINE e == d + 1
  <2>1. e \in 1 .. l + 1 /\ e + m = l + 1 /\ e + m <= l + 1
    BY <1>1, <1>c
  <2>2. \A i \in 1 .. m : s[e + i - 1] = g.bit[i]
    <3>1. \A i \in 1 .. m : e + i - 1 = d + i
      BY <1>1
    <3> QED
      BY <1>1, <3>1
  <2>3. ~IsDigit(At(s, e + m))
    BY <1>a, <2>1, DigitsAre DEF IsDigit
  <2> HIDE DEF e
  <2>4. e \in 1 .. Len(s) + 1 /\ e + Len(g.bit) <= Len(s) + 1
    BY <1>b, <2>1
  <2>5. /\ \A i \in 1 .. Len(g.bit) : s[e + i - 1] = g.bit[i]
        /\ ~IsDigit(At(s, e + Len(g.bit)))
    BY <1>b, <2>2, <2>3
  <2>6. ReadNumber(s, e) = [ok |-> TRUE, value |-> Value(g.bit), pos |-> e + Len(g.bit)]
    BY <1>2, <1>b, <2>4, <2>5, ReadAt
  <2> QED
    BY <1>b, <2>1, <2>6 DEF e
<1>10. Upper(At(s, 1)) # "D"
  <2>1. At(s, 1) = s[1]
    BY <1>a, <1>c
  <2>2. s[1] = "%" \/ s[1] = g.area
    BY <1>1
  <2> QED
    BY <1>2, <2>1, <2>2, UpperIsNot
<1>11. s # <<>>
  <2>1. Len(s) # 0
    BY <1>b, <1>c
  <2>2. s = <<>> => Len(s) = 0
    BY EmptySeq, Zenon
  <2> QED
    BY <2>1, <2>2
<1>12. ParseBitAddress(address) =
          Verdict(s, a, [ok |-> TRUE, value |-> Value(g.byte), pos |-> d],
                  [ok |-> TRUE, value |-> Value(g.bit), pos |-> l + 1])
  <2>1. s = Trim(address)
    BY DEF s
  <2>2. ParseBitAddress(address) =
              Verdict(s, AreaAt(s), ReadNumber(s, NumberAt(s)),
                      ReadNumber(s, ReadNumber(s, NumberAt(s)).pos + 1))
    BY <2>1, ParseIsVerdict
  <2>3. ReadNumber(s, n).pos = d
    BY <1>8
  <2> QED
    BY <1>3, <1>7, <1>8, <1>9, <2>2, <2>3
<1>14. ~(a > Len(s)) /\ ~(d > Len(s)) /\ l + 1 = Len(s) + 1
  BY <1>1, <1>b
<1> QED
  BY <1>1, <1>2, <1>5, <1>10, <1>11, <1>12, <1>14 DEF Verdict

\* Every spelling the README documents, in any combination of %, X, case and
\* surrounding space and of any length, is accepted with its value, and rejected
\* only for a bit index above 7: parse_bit_address() refuses nothing it should take.
THEOREM SpelledIsParsed ==
    ASSUME NEW g, WellSpelled(g), Value(g.byte) <= UintMax, Value(g.bit) <= UintMax
    PROVE  ParseBitAddress(Text(g)) =
              IF Value(g.bit) > 7 THEN Rejected("bit_range")
              ELSE Accepted(AreaOf[Upper(g.area)], Value(g.byte), Value(g.bit))
<1> DEFINE s == Body(g)
<1>1. /\ s \in Seq(Chars) /\ Len(s) \in Nat \ {0}
      /\ s[1] \in {"%", g.area} /\ s[Len(s)] \in Digits
  <2>1. /\ s \in Seq(Chars) /\ AreaPos(g) \in 1 .. 2 /\ DotPos(g) \in Nat
        /\ Len(g.bit) \in Nat \ {0} /\ Len(s) = DotPos(g) + Len(g.bit)
        /\ AreaPos(g) = 2 => s[1] = "%"
        /\ s[AreaPos(g)] = g.area
        /\ \A i \in 1 .. Len(g.bit) : s[DotPos(g) + i] = g.bit[i]
    BY BodyShape
  <2>2. s[Len(s)] = g.bit[Len(g.bit)]
    <3> DEFINE m == Len(g.bit)
    <3>1. m \in 1 .. m /\ Len(s) = DotPos(g) + m /\ \A i \in 1 .. m : s[DotPos(g) + i] = g.bit[i]
      BY <2>1
    <3> HIDE DEF m, s
    <3>2. s[Len(s)] = g.bit[m]
      BY <3>1
    <3> QED
      BY <3>2 DEF m
  <2>3. g.bit[Len(g.bit)] \in Digits
    BY <2>1 DEF WellSpelled
  <2> HIDE DEF s
  <2> QED
    BY <2>1, <2>2, <2>3
<1> HIDE DEF s
<1>2. ~IsSpace(s[1])
  BY <1>1, UpperOf DEF IsSpace, WellSpelled
<1>3. ~IsSpace(s[Len(s)])
  BY <1>1, DigitsAre DEF IsSpace, Digits
<1>4. s # <<>>
  BY <1>1
<1>5. Trim(g.lead \o s \o g.trail) = s
  BY <1>1, <1>2, <1>3, <1>4, TrimOf DEF WellSpelled
<1>6. Trim(Text(g)) = Body(g)
  BY <1>5 DEF Text, s
<1> QED
  BY <1>6, ParseOfBody

-----------------------------------------------------------------------------
(* A parsed address is spelled. *)

\* Adjacent subsequences join.
LEMMA Adjacent ==
    ASSUME NEW C, NEW s \in Seq(C), NEW i \in 0 .. Len(s), NEW j \in i .. Len(s), NEW k, k = i + 1
    PROVE  SubSeq(s, 1, i) \o SubSeq(s, k, j) = SubSeq(s, 1, j)
<1>1. 1 \in 1 .. Len(s) + 1 /\ i \in 1 - 1 .. Len(s)
  OBVIOUS
<1>2. SubSeq(s, 1, i) \o SubSeq(s, i + 1, j) = SubSeq(s, 1, j)
  BY <1>1, ConcatAdjacentSubSeq
<1> QED
  BY <1>2

\* A subsequence of one character.
LEMMA Single ==
    ASSUME NEW C, NEW s \in Seq(C), NEW i \in 1 .. Len(s)
    PROVE  SubSeq(s, i, i) = <<s[i]>>
<1> DEFINE v == SubSeq(s, i, i)
<1>1. v \in Seq(C) /\ Len(v) = i - i + 1 /\ \A k \in 1 .. i - i + 1 : v[k] = s[i + k - 1]
  <2>1. i \in 1 .. Len(s) + 1 /\ i \in i - 1 .. Len(s)
    OBVIOUS
  <2> QED
    BY <2>1, Part
<1>2. i - i + 1 = 1 /\ i + 1 - 1 = i
  OBVIOUS
<1> HIDE DEF v
<1>3. Len(v) = 1 /\ v[1] = s[i]
  BY <1>1, <1>2
<1>4. <<s[i]>> \in Seq(C) /\ Len(<<s[i]>>) = 1 /\ <<s[i]>>[1] = s[i]
  OBVIOUS
<1>5. v = <<s[i]>>
  <2> DEFINE u == <<s[i]>>
  <2> HIDE DEF u
  <2>1. u \in Seq(C) /\ Len(u) = 1 /\ u[1] = s[i]
    BY <1>4 DEF u
  <2>2. v = u
    BY <1>1, <1>3, <2>1, SeqEqual
  <2> QED
    BY <2>2 DEF u
<1> QED
  BY <1>5 DEF v

\* A text of any length that parse_bit_address() accepts is a documented spelling, and
\* the address it yields is the one spelled: no junk and no overflow gets through.
THEOREM AcceptedIsSpelled ==
    ASSUME NEW C, NEW address \in Seq(C), ParseBitAddress(address).ok
    PROVE  \E g : /\ WellSpelled(g) /\ Text(g) = address
                  /\ g = [lead |-> g.lead, mark |-> g.mark, area |-> g.area, x |-> g.x,
                          byte |-> g.byte, bit |-> g.bit, trail |-> g.trail]
                  /\ Value(g.byte) <= UintMax /\ Value(g.bit) <= 7
                  /\ ParseBitAddress(address) =
                        Accepted(AreaOf[Upper(g.area)], Value(g.byte), Value(g.bit))
<1> DEFINE s == Trim(address)
           a == AreaAt(s)
           n == NumberAt(s)
           byte == ReadNumber(s, n)
           bit == ReadNumber(s, byte.pos + 1)
           r == ParseBitAddress(address)
<1>1. r = Verdict(s, a, byte, bit)
  BY ParseIsVerdict
<1> HIDE DEF s, a, n, byte, bit, r
<1>2. \A reason : ~Rejected(reason).ok
  BY DEF Rejected
<1>3. r.ok
  BY DEF r
<1>4. /\ s # <<>> /\ ~(a > Len(s)) /\ Upper(s[a]) \in DOMAIN AreaOf
      /\ byte.ok /\ ~(byte.pos > Len(s)) /\ s[byte.pos] = "."
      /\ bit.ok /\ bit.pos = Len(s) + 1 /\ ~(bit.value > 7)
      /\ r = Accepted(AreaOf[Upper(s[a])], byte.value, bit.value)
  BY <1>1, <1>2, <1>3 DEF Verdict
<1>5. PICK b \in 1 .. Len(address), e \in 1 .. Len(address) :
         /\ b <= e /\ s = SubSeq(address, b, e)
         /\ \A i \in 1 .. Len(address) : IsSpace(address[i]) \/ i \in b .. e
  BY <1>4, TrimIs DEF s
<1>6. Len(address) \in Nat
  OBVIOUS
<1>7. s \in Seq(C) /\ Len(s) = e - b + 1
  <2>1. b \in 1 .. Len(address) + 1 /\ e \in b - 1 .. Len(address)
    BY <1>5, <1>6
  <2> QED
    BY <1>5, <2>1, Part
<1> DEFINE l == Len(s)
<1>8. l \in Nat \ {0} /\ s \in Seq(C)
  BY <1>5, <1>6, <1>7
<1>9. /\ a \in 1 .. 2 /\ a <= l /\ n \in a + 1 .. a + 2 /\ n <= l + 1
      /\ a = 2 => s[1] = "%"
      /\ n = a + 2 => a + 1 <= l /\ s[a + 1] \in {"x", "X"}
  <2>1. a \in 1 .. 2 /\ (a = 2 => s[1] = "%")
    BY <1>8 DEF a, AreaAt, At
  <2>2. a <= l
    BY <1>4, <1>8, <2>1
  <2>3. n = IF Upper(At(s, a + 1)) = "X" THEN a + 2 ELSE a + 1
    BY DEF n, NumberAt, a
  <2>4. Upper(At(s, a + 1)) = "X" => At(s, a + 1) \in {"x", "X"} /\ At(s, a + 1) # "end"
    BY UpperOf
  <2>5. At(s, a + 1) # "end" => a + 1 <= l /\ At(s, a + 1) = s[a + 1]
    BY DEF At
  <2> HIDE DEF l
  <2>6. n = a + 2 => a + 1 <= l /\ s[a + 1] \in {"x", "X"}
    BY <2>1, <2>3, <2>4, <2>5
  <2>7. n \in a + 1 .. a + 2
    BY <2>1, <2>3
  <2> QED
    BY <1>8, <2>1, <2>2, <2>6, <2>7
<1> DEFINE d == DigitsEnd(s, n)
           w == SubSeq(s, n, d - 1)
<1>10. /\ n \in 1 .. l + 1 /\ d \in n .. l + 1
       /\ w \in Seq(Digits) /\ w # <<>> /\ Value(w) <= UintMax
       /\ byte = [ok |-> TRUE, value |-> Value(w), pos |-> d] /\ Len(w) = d - n
  <2>1. n \in 1 .. Len(s) + 1
    BY <1>8, <1>9
  <2>2. /\ w \in Seq(Digits) /\ Len(w) = d - n
        /\ byte.ok <=> w # <<>> /\ Value(w) <= UintMax
        /\ byte.ok => byte = [ok |-> TRUE, value |-> Value(w), pos |-> d]
    BY <1>8, <2>1, ReadsNumeral DEF byte
  <2>3. d \in n .. Len(s) + 1
    BY <1>8, <2>1, DigitsEndIs
  <2> HIDE DEF w, d
  <2> QED
    BY <1>4, <2>1, <2>2, <2>3
<1> HIDE DEF d, w
<1>11. d = byte.pos /\ d <= l /\ s[d] = "." /\ d \in Nat
  BY <1>4, <1>8, <1>10
<1> DEFINE f == DigitsEnd(s, d + 1)
           v == SubSeq(s, d + 1, f - 1)
<1>12. /\ f = l + 1 /\ v \in Seq(Digits) /\ v # <<>> /\ Value(v) <= UintMax
       /\ bit = [ok |-> TRUE, value |-> Value(v), pos |-> f] /\ Len(v) = l - d
  <2> DEFINE k == d + 1
  <2>1. k \in 1 .. Len(s) + 1 /\ f = DigitsEnd(s, k) /\ v = SubSeq(s, k, f - 1)
    BY <1>8, <1>11
  <2> HIDE DEF k
  <2>2. /\ v \in Seq(Digits) /\ Len(v) = f - k
        /\ ReadNumber(s, k).ok <=> v # <<>> /\ Value(v) <= UintMax
        /\ ReadNumber(s, k).ok =>
              ReadNumber(s, k) = [ok |-> TRUE, value |-> Value(v), pos |-> f]
    <3>1. s \in Seq(C) /\ v = SubSeq(s, k, DigitsEnd(s, k) - 1)
      BY <1>8, <2>1
    <3> HIDE DEF v, f
    <3>2. /\ v \in Seq(Digits) /\ Len(v) = DigitsEnd(s, k) - k
          /\ ReadNumber(s, k).ok <=> v # <<>> /\ Value(v) <= UintMax
          /\ ReadNumber(s, k).ok =>
                ReadNumber(s, k) = [ok |-> TRUE, value |-> Value(v), pos |-> DigitsEnd(s, k)]
      BY <2>1, <3>1, ReadsNumeral
    <3> QED
      BY <2>1, <3>2
  <2>3. bit = ReadNumber(s, k)
    BY <1>11 DEF bit, k
  <2> HIDE DEF v, f
  <2>4. f = l + 1
    BY <1>4, <2>2, <2>3
  <2>5. Len(v) = l - d
    <3>1. Len(v) = f - k /\ k = d + 1 /\ l \in Nat /\ d \in Nat
      BY <1>8, <1>11, <2>2 DEF k
    <3> HIDE DEF l
    <3> QED
      BY <2>4, <3>1
  <2> QED
    BY <1>4, <2>2, <2>3, <2>4, <2>5
<1>13. w = SubSeq(s, n, d - 1) /\ v = SubSeq(s, d + 1, l)
  <2>1. f - 1 = l
    <3>1. f = l + 1 /\ l \in Nat
      BY <1>8, <1>12
    <3> HIDE DEF f, l
    <3> QED
      BY <3>1
  <2> QED
    BY <2>1 DEF w
<1> HIDE DEF v, f
<1> DEFINE mark == SubSeq(s, 1, a - 1)
           x == SubSeq(s, a + 1, n - 1)
           lead == SubSeq(address, 1, b - 1)
           trail == SubSeq(address, e + 1, Len(address))
           g == [lead |-> lead, mark |-> mark, area |-> s[a], x |-> x, byte |-> w, bit |-> v,
                 trail |-> trail]
<1>14. mark \in {<<>>, <<"%">>}
  <2>1. CASE a = 1
    <3>1. 1 \in Int /\ a - 1 \in Int /\ a - 1 < 1
      BY <2>1
    <3>2. mark = <<>>
      BY <3>1, SubSeqEmpty
    <3> QED
      BY <3>2
  <2>2. CASE a = 2
    <3>1. mark = SubSeq(s, 1, 1) /\ 1 \in 1 .. Len(s)
      BY <1>8, <2>2
    <3>2. mark = <<s[1]>>
      BY <1>8, <3>1, Single
    <3> QED
      BY <1>9, <2>2, <3>2
  <2> QED
    BY <1>9, <2>1, <2>2
<1>15. x \in {<<>>, <<"x">>, <<"X">>}
  <2>1. CASE n = a + 1
    <3>1. a + 1 \in Int /\ n - 1 \in Int /\ n - 1 < a + 1
      BY <1>9, <2>1
    <3> QED
      BY <3>1, SubSeqEmpty
  <2>2. CASE n = a + 2
    <3>1. n - 1 = a + 1 /\ a + 1 \in 1 .. Len(s)
      BY <1>8, <1>9, <2>2
    <3>2. x = <<s[a + 1]>>
      BY <1>8, <3>1, Single
    <3> QED
      BY <1>9, <2>2, <3>2
  <2> QED
    BY <1>9, <2>1, <2>2
<1>16. lead \in Seq(Spaces) /\ trail \in Seq(Spaces)
  <2>1. lead \in Seq(Spaces)
    <3>1. 1 \in Int /\ b - 1 \in Int
      BY <1>5, <1>6
    <3>2. \A i \in 1 .. b - 1 : address[i] \in Spaces
      <4> SUFFICES ASSUME NEW i \in 1 .. b - 1 PROVE address[i] \in Spaces
        OBVIOUS
      <4>1. i \in 1 .. Len(address) /\ i \notin b .. e
        BY <1>5, <1>6
      <4> QED
        BY <1>5, <4>1 DEF IsSpace, Spaces
    <3> QED
      BY <3>1, <3>2, SubSeqProperties
  <2>2. trail \in Seq(Spaces)
    <3>1. e + 1 \in Int /\ Len(address) \in Int
      BY <1>5, <1>6
    <3>2. \A i \in e + 1 .. Len(address) : address[i] \in Spaces
      <4> SUFFICES ASSUME NEW i \in e + 1 .. Len(address) PROVE address[i] \in Spaces
        OBVIOUS
      <4>1. i \in 1 .. Len(address) /\ i \notin b .. e
        BY <1>5, <1>6
      <4> QED
        BY <1>5, <4>1 DEF IsSpace, Spaces
    <3> QED
      BY <3>1, <3>2, SubSeqProperties
  <2> QED
    BY <2>1, <2>2
<1>17. Body(g) = s
  <2>1. <<s[a]>> = SubSeq(s, a, a) /\ <<".">> = SubSeq(s, d, d)
    <3>1. a \in 1 .. Len(s) /\ d \in 1 .. Len(s)
      BY <1>8, <1>9, <1>10, <1>11
    <3>2. SubSeq(s, a, a) = <<s[a]>> /\ SubSeq(s, d, d) = <<s[d]>>
      BY <1>8, <3>1, Single
    <3> QED
      BY <1>11, <3>2
  <2>2. mark \o <<s[a]>> = SubSeq(s, 1, a)
    <3>1. a - 1 \in 0 .. Len(s) /\ a \in a - 1 .. Len(s) /\ a = (a - 1) + 1
      BY <1>8, <1>9
    <3> QED
      BY <1>8, <2>1, <3>1, Adjacent
  <2>3. SubSeq(s, 1, a) \o x = SubSeq(s, 1, n - 1)
    <3>1. a \in 0 .. Len(s) /\ n - 1 \in a .. Len(s)
      BY <1>8, <1>9
    <3> QED
      BY <1>8, <3>1, Adjacent
  <2>4. SubSeq(s, 1, n - 1) \o w = SubSeq(s, 1, d - 1)
    <3>1. n - 1 \in 0 .. Len(s) /\ d - 1 \in n - 1 .. Len(s) /\ n = (n - 1) + 1
      BY <1>8, <1>9, <1>10, <1>11
    <3> QED
      BY <1>8, <1>13, <3>1, Adjacent
  <2>5. SubSeq(s, 1, d - 1) \o <<".">> = SubSeq(s, 1, d)
    <3>1. d - 1 \in 0 .. Len(s) /\ d \in d - 1 .. Len(s) /\ d = (d - 1) + 1
      BY <1>8, <1>9, <1>10, <1>11
    <3> QED
      BY <1>8, <2>1, <3>1, Adjacent
  <2>6. SubSeq(s, 1, d) \o v = SubSeq(s, 1, Len(s))
    <3>1. d \in 0 .. Len(s) /\ Len(s) \in d .. Len(s)
      BY <1>8, <1>11
    <3> QED
      BY <1>8, <1>13, <3>1, Adjacent
  <2>7. SubSeq(s, 1, Len(s)) = s
    BY <1>8, SubSeqFull
  <2>8. Body(g) = ((((mark \o <<s[a]>>) \o x) \o w) \o <<".">>) \o v
    BY DEF Body
  <2> QED
    BY <2>2, <2>3, <2>4, <2>5, <2>6, <2>7, <2>8
<1>18. Text(g) = address
  <2>1. lead \o s = SubSeq(address, 1, e)
    <3>1. b - 1 \in 0 .. Len(address) /\ e \in b - 1 .. Len(address) /\ b = (b - 1) + 1
      BY <1>5, <1>6
    <3> QED
      BY <1>5, <3>1, Adjacent
  <2>2. SubSeq(address, 1, e) \o trail = SubSeq(address, 1, Len(address))
    <3>1. e \in 0 .. Len(address) /\ Len(address) \in e .. Len(address)
      BY <1>5, <1>6
    <3> QED
      BY <3>1, Adjacent
  <2>3. SubSeq(address, 1, Len(address)) = address
    BY SubSeqFull
  <2>4. Text(g) = (lead \o Body(g)) \o trail
    BY DEF Text
  <2> QED
    BY <1>17, <2>1, <2>2, <2>3, <2>4
<1>19. /\ g.lead = lead /\ g.mark = mark /\ g.area = s[a] /\ g.x = x /\ g.byte = w /\ g.bit = v
       /\ g.trail = trail
       /\ g = [lead |-> g.lead, mark |-> g.mark, area |-> g.area, x |-> g.x, byte |-> g.byte,
               bit |-> g.bit, trail |-> g.trail]
  OBVIOUS
<1> HIDE DEF g, lead, mark, x, trail
<1>20. WellSpelled(g)
  BY <1>4, <1>10, <1>12, <1>14, <1>15, <1>16, <1>19 DEF WellSpelled
<1>21. Value(g.byte) <= UintMax /\ Value(g.bit) <= 7
  <2>1. Value(v) \in Nat
    BY <1>12, ValueIsRecursive
  <2>2. bit.value = Value(v)
    BY <1>12
  <2> QED
    BY <1>4, <1>10, <1>19, <2>1, <2>2
<1>22. r = Accepted(AreaOf[Upper(g.area)], Value(g.byte), Value(g.bit))
  BY <1>4, <1>10, <1>12, <1>19
<1> QED
  BY <1>18, <1>19, <1>20, <1>21, <1>22 DEF r

-----------------------------------------------------------------------------
(* The spellings of the checked length and alphabet. *)

\* The words of an alphabet are its sequences of the given lengths.
LEMMA WordsAre ==
    ASSUME NEW S, NEW low \in Nat, NEW high \in Int
    PROVE  /\ \A w \in Words(S, low, high) :
                 w \in Seq(S \cap Alphabet) /\ w \in Seq(S) /\ Len(w) \in low .. high
           /\ \A w \in Seq(S) : (\A i \in 1 .. Len(w) : w[i] \in Alphabet) /\ Len(w) \in low .. high
                                => w \in Words(S, low, high)
<1>1. ASSUME NEW w \in Words(S, low, high)
      PROVE  w \in Seq(S \cap Alphabet) /\ w \in Seq(S) /\ Len(w) \in low .. high
  <2>1. PICK n \in low .. high : w \in [1 .. n -> S \cap Alphabet]
    BY DEF Words
  <2>2. n \in Nat
    BY <2>1
  <2>3. w \in Seq(S \cap Alphabet) /\ Len(w) = n
    BY <2>1, <2>2
  <2>4. w \in Seq(S)
    BY <2>3
  <2> QED
    BY <2>3, <2>4
<1>2. ASSUME NEW w \in Seq(S), \A i \in 1 .. Len(w) : w[i] \in Alphabet, Len(w) \in low .. high
      PROVE  w \in Words(S, low, high)
  <2>1. w \in [1 .. Len(w) -> S \cap Alphabet]
    BY <1>2
  <2> QED
    BY <1>2, <2>1 DEF Words
<1> QED
  BY <1>1, <1>2

\* The characters of a text are those of its parts.
LEMMA TextShape ==
    ASSUME NEW g, WellSpelled(g), NEW C, Text(g) \in Seq(C)
    PROVE  /\ Len(Text(g)) = Len(g.lead) + Len(Body(g)) + Len(g.trail)
           /\ Len(g.lead) \in Nat /\ Len(Body(g)) \in Nat /\ Len(g.trail) \in Nat
           /\ \A i \in 1 .. Len(g.lead) : g.lead[i] \in C
           /\ \A i \in 1 .. Len(Body(g)) : Body(g)[i] \in C
           /\ \A i \in 1 .. Len(g.trail) : g.trail[i] \in C
<1> DEFINE U == Chars \cup Spaces
           l == g.lead
           b == Body(g)
           t == g.trail
           lb == l \o b
           s == lb \o t
<1>1. l \in Seq(U) /\ b \in Seq(U) /\ t \in Seq(U)
  <2>1. l \in Seq(Spaces) /\ t \in Seq(Spaces) /\ b \in Seq(Chars)
    BY BodyShape DEF WellSpelled
  <2>2. Spaces \subseteq U /\ Chars \subseteq U
    OBVIOUS
  <2> HIDE DEF l, b, t, U
  <2> QED
    BY <2>1, <2>2
<1>2. s = Text(g)
  BY DEF Text
<1> HIDE DEF U, l, b, t
<1>3. /\ lb \in Seq(U) /\ Len(lb) = Len(l) + Len(b)
      /\ Len(l) \in Nat /\ Len(b) \in Nat
      /\ \A i \in 1 .. Len(l) : lb[i] = l[i]
      /\ \A i \in 1 .. Len(b) : lb[Len(l) + i] = b[i]
  BY <1>1, Joined
<1> HIDE DEF lb
<1>4. /\ Len(s) = Len(lb) + Len(t) /\ Len(lb) \in Nat /\ Len(t) \in Nat
      /\ \A i \in 1 .. Len(lb) : s[i] = lb[i]
      /\ \A i \in 1 .. Len(t) : s[Len(lb) + i] = t[i]
  <2>1. lb \in Seq(U)
    BY <1>3
  <2> QED
    BY <1>1, <2>1, Joined
<1> HIDE DEF s
<1> DEFINE p == Len(l)
           n == Len(b)
           q == Len(t)
<1>5. /\ p \in Nat /\ n \in Nat /\ q \in Nat /\ Len(s) = p + n + q /\ Len(lb) = p + n
      /\ \A i \in 1 .. p : lb[i] = l[i]
      /\ \A i \in 1 .. n : lb[p + i] = b[i]
      /\ \A i \in 1 .. p + n : s[i] = lb[i]
      /\ \A i \in 1 .. q : s[(p + n) + i] = t[i]
  BY <1>3, <1>4
<1>6. \A i \in 1 .. Len(s) : s[i] \in C
  BY <1>2
<1> HIDE DEF p, n, q
<1>7. \A i \in 1 .. p : l[i] \in C
  <2> SUFFICES ASSUME NEW i \in 1 .. p PROVE l[i] \in C
    OBVIOUS
  <2>1. i \in 1 .. p + n /\ i \in 1 .. Len(s)
    BY <1>5
  <2> QED
    BY <1>5, <1>6, <2>1
<1>8. \A i \in 1 .. n : b[i] \in C
  <2> SUFFICES ASSUME NEW i \in 1 .. n PROVE b[i] \in C
    OBVIOUS
  <2>1. p + i \in 1 .. p + n /\ p + i \in 1 .. Len(s)
    BY <1>5
  <2> QED
    BY <1>5, <1>6, <2>1
<1>9. \A i \in 1 .. q : t[i] \in C
  <2> SUFFICES ASSUME NEW i \in 1 .. q PROVE t[i] \in C
    OBVIOUS
  <2>1. (p + n) + i \in 1 .. Len(s)
    BY <1>5
  <2> QED
    BY <1>5, <1>6, <2>1
<1> QED
  BY <1>2, <1>5, <1>7, <1>8, <1>9 DEF p, n, q, l, b, t

\* The parts of a short text are short.
LEMMA LengthsFit ==
    ASSUME NEW p \in Nat, NEW o \in Nat, NEW k \in Nat, NEW u \in Nat, NEW v \in Nat, NEW q \in Nat,
           NEW max \in Nat, u >= 1, v >= 1, p + (o + k + u + 2 + v) + q <= max
    PROVE  /\ p \in 0 .. max - 4 /\ q \in 0 .. max - 4
           /\ u \in 1 .. max - 3 /\ v \in 1 .. max - 3
           /\ p + o + k + u + v + q + 2 <= max
<1>1. p <= max - 4
  OBVIOUS
<1>2. q <= max - 4
  OBVIOUS
<1>3. u <= max - 3 /\ v <= max - 3
  OBVIOUS
<1>4. p + o + k + u + v + q + 2 <= max
  OBVIOUS
<1> QED
  BY <1>1, <1>2, <1>3, <1>4

\* A numeral is a nonempty sequence of digits whose number is within the limit.
LEMMA NumeralIs ==
    ASSUME NEW limit, NEW w \in Numeral(limit)
    PROVE  w \in Seq(Digits) /\ w # <<>> /\ Value(w) <= limit
<1>1. w \in Words(Digits, 1, MaxLen - 3) /\ Value(w) <= limit
  BY DEF Numeral, Digits
<1>2. MaxLen - 3 \in Int
  BY ParserAssumption
<1>3. w \in Seq(Digits) /\ Len(w) \in 1 .. MaxLen - 3
  BY <1>1, <1>2, WordsAre
<1>4. w # <<>>
  BY <1>3
<1> QED
  BY <1>1, <1>3, <1>4

\* Every spelling is well spelled, with numbers that fit.
LEMMA SpellingIsWellSpelled ==
    ASSUME NEW g \in Spelling
    PROVE  WellSpelled(g) /\ Value(g.byte) <= UintMax /\ Value(g.bit) <= 7
<1>1. /\ g.lead \in Words({" ", "tab"}, 0, MaxLen - 4) /\ g.mark \in {<<>>, <<"%">>}
      /\ Upper(g.area) \in DOMAIN AreaOf
      /\ g.x \in {<<>>} \cup {<<c>> : c \in {d \in Alphabet : Upper(d) = "X"}}
      /\ g.byte \in Numeral(UintMax) /\ g.bit \in Numeral(7)
      /\ g.trail \in Words({" ", "tab"}, 0, MaxLen - 4)
  BY DEF Spelling
<1>2. MaxLen - 4 \in Int /\ MaxLen - 3 \in Int
  BY ParserAssumption
<1>3. g.lead \in Seq(Spaces) /\ g.trail \in Seq(Spaces)
  BY <1>1, <1>2, WordsAre DEF Spaces
<1>4. g.x \in {<<>>, <<"x">>, <<"X">>}
  <2>1. \A c : Upper(c) = "X" => c \in {"x", "X"}
    BY UpperOf
  <2>2. g.x = <<>> \/ \E c : g.x = <<c>> /\ Upper(c) = "X"
    BY <1>1
  <2> QED
    BY <2>1, <2>2
<1> QED
  BY <1>1, <1>3, <1>4, NumeralIs DEF WellSpelled

\* A text of the checked length and alphabet that is well spelled is a spelling.
LEMMA WellSpelledIsSpelling ==
    ASSUME NEW g, WellSpelled(g),
           g = [lead |-> g.lead, mark |-> g.mark, area |-> g.area, x |-> g.x,
                byte |-> g.byte, bit |-> g.bit, trail |-> g.trail],
           Text(g) \in Seq(Alphabet), Len(Text(g)) <= MaxLen,
           Value(g.byte) <= UintMax, Value(g.bit) <= 7
    PROVE  g \in Spelling
<1> DEFINE s == Body(g)
           a == AreaPos(g)
           n == BytePos(g)
           d == DotPos(g)
           p == Len(g.lead)
           q == Len(g.trail)
           o == Len(g.mark)
           k == Len(g.x)
           u == Len(g.byte)
           v == Len(g.bit)
<1>1. /\ s \in Seq(Chars)
      /\ a \in 1 .. 2 /\ n \in a + 1 .. a + 2 /\ d \in Nat /\ d > n
      /\ v \in Nat \ {0} /\ Len(s) = d + v
      /\ s[a] = g.area
      /\ n = a + 2 => s[a + 1] = g.x[1]
      /\ \A i \in 1 .. u : s[n + i - 1] = g.byte[i]
      /\ \A i \in 1 .. v : s[d + i] = g.bit[i]
  BY BodyShape
<1>2. /\ Len(Text(g)) = p + Len(s) + q /\ p \in Nat /\ q \in Nat
      /\ \A i \in 1 .. p : g.lead[i] \in Alphabet
      /\ \A i \in 1 .. Len(s) : s[i] \in Alphabet
      /\ \A i \in 1 .. q : g.trail[i] \in Alphabet
  BY TextShape
<1>3. /\ g.lead \in Seq(Spaces) /\ g.trail \in Seq(Spaces)
      /\ g.mark \in {<<>>, <<"%">>} /\ Upper(g.area) \in DOMAIN AreaOf
      /\ g.x \in {<<>>, <<"x">>, <<"X">>}
      /\ g.byte \in Seq(Digits) /\ g.byte # <<>>
      /\ g.bit \in Seq(Digits) /\ g.bit # <<>>
  BY DEF WellSpelled
<1>4. a = o + 1 /\ n = a + k + 1 /\ d = n + u /\ u \in Nat \ {0} /\ o \in 0 .. 1 /\ k \in 0 .. 1
  <2>1. u \in Nat \ {0}
    BY <1>3, EmptySeq
  <2>2. a = o + 1 /\ n = a + k + 1 /\ d = n + u
    BY DEF AreaPos, BytePos, DotPos
  <2>3. Len(<<>>) = 0 /\ Len(<<"%">>) = 1 /\ Len(<<"x">>) = 1 /\ Len(<<"X">>) = 1
    OBVIOUS
  <2>4. o \in 0 .. 1
    BY <1>3, <2>3
  <2>5. k \in 0 .. 1
    BY <1>3, <2>3
  <2> QED
    BY <2>1, <2>2, <2>4, <2>5
<1>5. p + (d + v) + q <= MaxLen /\ MaxLen \in Nat
  BY <1>1, <1>2, ParserAssumption
<1>6. /\ Len(g.lead) = p /\ Len(g.trail) = q /\ Len(g.mark) = o /\ Len(g.x) = k
      /\ Len(g.byte) = u /\ Len(g.bit) = v
  OBVIOUS
<1> HIDE DEF s, a, n, d, p, q, o, k, u, v
<1>7. /\ p \in 0 .. MaxLen - 4 /\ q \in 0 .. MaxLen - 4
      /\ u \in 1 .. MaxLen - 3 /\ v \in 1 .. MaxLen - 3
      /\ p + o + k + u + v + q + 2 <= MaxLen
      /\ d = o + k + u + 2
  <2>1. /\ p \in Nat /\ q \in Nat /\ u \in Nat /\ v \in Nat /\ o \in Nat /\ k \in Nat
        /\ u >= 1 /\ v >= 1 /\ MaxLen \in Nat
    <3>1. p \in Nat /\ q \in Nat
      BY <1>2
    <3>2. v \in Nat /\ v >= 1
      BY <1>1
    <3>3. u \in Nat /\ u >= 1
      BY <1>4
    <3>4. o \in Nat /\ k \in Nat
      BY <1>4
    <3> QED
      BY <1>5, <3>1, <3>2, <3>3, <3>4
  <2>2. d = o + k + u + 2
    <3>1. a = o + 1 /\ n = a + k + 1 /\ d = n + u
      BY <1>4
    <3> QED
      BY <2>1, <3>1
  <2>3. p + (o + k + u + 2 + v) + q <= MaxLen
    BY <1>5, <2>2
  <2>4. /\ p \in 0 .. MaxLen - 4 /\ q \in 0 .. MaxLen - 4
        /\ u \in 1 .. MaxLen - 3 /\ v \in 1 .. MaxLen - 3
        /\ p + o + k + u + v + q + 2 <= MaxLen
    BY <2>1, <2>3, LengthsFit, Zenon
  <2> QED
    BY <2>2, <2>4
<1>8. g.lead \in Words({" ", "tab"}, 0, MaxLen - 4) /\ g.trail \in Words({" ", "tab"}, 0, MaxLen - 4)
  <2>1. MaxLen - 4 \in Int
    BY <1>5
  <2> QED
    BY <1>2, <1>3, <1>6, <1>7, <2>1, WordsAre DEF Spaces
<1>9. g.area \in Alphabet
  <2>1. a \in 1 .. Len(s)
    BY <1>1
  <2> QED
    BY <1>1, <1>2, <2>1
<1>10. g.x \in {<<>>} \cup {<<c>> : c \in {e \in Alphabet : Upper(e) = "X"}}
  <2>1. CASE g.x = <<>>
    BY <2>1
  <2>2. CASE g.x # <<>>
    <3>1. PICK c \in {"x", "X"} : g.x = <<c>>
      BY <1>3, <2>2
    <3>2. <<c>>[1] = c /\ Len(<<c>>) = 1
      OBVIOUS
    <3>3. k = 1
      BY <1>6, <3>1, <3>2
    <3>4. n = a + 2 /\ a + 1 \in 1 .. Len(s)
      BY <1>1, <1>4, <3>3
    <3>5. s[a + 1] = c /\ c \in Alphabet
      BY <1>1, <1>2, <3>1, <3>2, <3>4
    <3> QED
      BY <3>1, <3>5, UpperIsNot
  <2> QED
    BY <2>1, <2>2
<1>11. g.byte \in Numeral(UintMax)
  <2>1. \A i \in 1 .. u : g.byte[i] \in Alphabet
    <3> SUFFICES ASSUME NEW i \in 1 .. u PROVE g.byte[i] \in Alphabet
      OBVIOUS
    <3>1. n \in Nat /\ n >= 1 /\ u \in Nat /\ v \in Nat /\ Len(s) = n + u + v
      <4>1. n \in Nat /\ n >= 1
        BY <1>1
      <4>2. v \in Nat /\ Len(s) = d + v
        BY <1>1
      <4>3. u \in Nat /\ d = n + u
        BY <1>4
      <4> QED
        BY <4>1, <4>2, <4>3
    <3>2. n + i - 1 \in 1 .. Len(s)
      BY <3>1
    <3> QED
      BY <1>1, <1>2, <3>2
  <2>2. MaxLen - 3 \in Int
    BY <1>5
  <2>3. g.byte \in Words(Digits, 1, MaxLen - 3)
    BY <1>3, <1>6, <1>7, <2>1, <2>2, WordsAre
  <2> QED
    BY <2>3 DEF Numeral, Digits
<1>12. g.bit \in Numeral(7)
  <2>1. \A i \in 1 .. v : g.bit[i] \in Alphabet
    <3> SUFFICES ASSUME NEW i \in 1 .. v PROVE g.bit[i] \in Alphabet
      OBVIOUS
    <3>1. d + i \in 1 .. Len(s)
      BY <1>1
    <3> QED
      BY <1>1, <1>2, <3>1
  <2>2. MaxLen - 3 \in Int
    BY <1>5
  <2>3. g.bit \in Words(Digits, 1, MaxLen - 3)
    BY <1>3, <1>6, <1>7, <2>1, <2>2, WordsAre
  <2> QED
    BY <2>3 DEF Numeral, Digits
<1>13. Len(g.lead) + Len(g.mark) + Len(g.x) + Len(g.byte) + Len(g.bit) + Len(g.trail) + 2 <= MaxLen
  BY <1>1, <1>2, <1>4, <1>6, <1>7
<1> QED
  BY <1>3, <1>8, <1>9, <1>10, <1>11, <1>12, <1>13 DEF Spelling

-----------------------------------------------------------------------------
(* to_string(). *)

\* A digit appended to a numeral.
LEMMA ValueOfAppend ==
    ASSUME NEW w \in Seq(Digits), NEW c \in Digits
    PROVE  /\ Append(w, c) \in Seq(Digits) /\ Append(w, c) # <<>>
           /\ Value(Append(w, c)) = Value(w) * 10 + Digit[c]
<1> DEFINE x == Append(w, c)
           l == Len(w)
<1>1. /\ x \in Seq(Digits) /\ Len(x) = l + 1 /\ l \in Nat
      /\ \A i \in 1 .. l : x[i] = w[i]
      /\ x[l + 1] = c
  BY AppendProperties
<1> HIDE DEF x
<1>2. PICK f \in [0 .. l -> Nat] :
         /\ f[0] = 0
         /\ \A n \in 1 .. l : f[n] = f[n - 1] * 10 + Digit[w[n]]
         /\ Value(w) = f[l]
  BY ValueIsRecursive
<1>3. PICK g \in [0 .. Len(x) -> Nat] :
         /\ g[0] = 0
         /\ \A n \in 1 .. Len(x) : g[n] = g[n - 1] * 10 + Digit[x[n]]
         /\ Value(x) = g[Len(x)]
  BY <1>1, ValueIsRecursive
<1> HIDE DEF l
<1> DEFINE E == {n \in 0 .. l : f[n] = g[n]}
<1>4. ASSUME NEW n \in 0 .. l, \A k \in 0 .. l : k < n => k \in E
      PROVE  n \in E
  <2>1. CASE n = 0
    BY <1>2, <1>3, <2>1
  <2>2. CASE n # 0
    <3>1. n \in 1 .. l /\ n - 1 \in 0 .. l /\ n - 1 < n /\ n \in 1 .. Len(x)
      BY <1>1, <2>2
    <3>2. f[n - 1] = g[n - 1] /\ x[n] = w[n]
      BY <1>1, <1>4, <3>1
    <3>3. f[n] = g[n]
      BY <1>2, <1>3, <3>1, <3>2
    <3> QED
      BY <3>3
  <2> QED
    BY <2>1, <2>2
<1>5. f[l] = g[l]
  <2>1. 0 .. l \in SUBSET Nat /\ l \in 0 .. l
    BY <1>1
  <2> HIDE DEF E
  <2>2. 0 .. l \subseteq E
    BY <1>4, <2>1, NoLeastNoOne
  <2> QED
    BY <2>1, <2>2 DEF E
<1>6. Value(x) = Value(w) * 10 + Digit[c]
  <2>1. l + 1 \in 1 .. Len(x) /\ (l + 1) - 1 = l /\ Len(x) = l + 1
    BY <1>1
  <2>2. g[l + 1] = g[l] * 10 + Digit[x[l + 1]]
    BY <1>3, <2>1
  <2> QED
    BY <1>1, <1>2, <1>3, <1>5, <2>1, <2>2
<1>7. x # <<>>
  <2>1. Len(x) # 0
    BY <1>1
  <2>2. x = <<>> => Len(x) = 0
    BY EmptySeq, Zenon
  <2> QED
    BY <2>1, <2>2
<1> QED
  BY <1>1, <1>6, <1>7 DEF x

\* A numeral of one digit.
LEMMA ValueOfDigit ==
    ASSUME NEW c \in Digits
    PROVE  <<c>> \in Seq(Digits) /\ <<c>> # <<>> /\ Value(<<c>>) = Digit[c]
<1>1. <<>> \in Seq(Digits) /\ Append(<<>>, c) = <<c>> /\ Len(<<>>) = 0
  OBVIOUS
<1>2. Value(<<>>) = 0
  <2>1. PICK f \in [0 .. Len(<<>>) -> Nat] : f[0] = 0 /\ Value(<<>>) = f[Len(<<>>)]
    BY <1>1, ValueIsRecursive
  <2> QED
    BY <1>1, <2>1
<1>3. /\ Append(<<>>, c) \in Seq(Digits) /\ Append(<<>>, c) # <<>>
      /\ Value(Append(<<>>, c)) = Value(<<>>) * 10 + Digit[c]
  BY <1>1, ValueOfAppend
<1>4. Digit[c] \in 0 .. 9
  BY DigitsAre DEF Digits
<1> QED
  BY <1>1, <1>2, <1>3, <1>4

\* std::to_string() puts the last digit behind what it prints of the rest.
LEMMA DecimalIsRecursive ==
    ASSUME NEW n \in Nat
    PROVE  Decimal[n] = IF n < 10 THEN <<Numerals[n + 1]>>
                        ELSE Append(Decimal[n \div 10], Numerals[(n % 10) + 1])
<1> DEFINE stop == 0 .. 9
           X == Seq(Digits)
           base == [k \in stop |-> <<Numerals[k + 1]>>]
           pred == [k \in Nat \ stop |-> k \div 10]
           step == [p \in Nat \X X |-> Append(p[2], Numerals[(p[1] % 10) + 1])]
           F(f) == f = [k \in Nat |-> IF k < 10 THEN <<Numerals[k + 1]>>
                                      ELSE Append(f[k \div 10], Numerals[(k % 10) + 1])]
<1>1. \A k \in 0 .. 9 : Numerals[k + 1] \in Digits
  BY DigitsAre DEF Digits
<1>2. base \in [stop -> X]
  BY <1>1
<1>3. pred \in [Nat \ stop -> Nat] /\ \A k \in Nat \ stop : pred[k] < k
  <2>1. \A k \in Nat \ stop : k \div 10 \in Nat /\ k \div 10 < k
    OBVIOUS
  <2> QED
    BY <2>1
<1>4. step \in [Nat \X X -> X]
  <2>1. ASSUME NEW k \in Nat, NEW w \in X
        PROVE  Append(w, Numerals[(k % 10) + 1]) \in X
    <3>1. Numerals[(k % 10) + 1] \in Digits
      <4>1. k % 10 \in 0 .. 9
        OBVIOUS
      <4> QED
        BY <1>1, <4>1
    <3> QED
      BY <3>1, AppendProperties
  <2> QED
    BY <2>1
<1>5. PICK f \in [Nat -> X] : Solves(f, Nat, stop, base, pred, step)
  <2>1. Nat \in SUBSET Nat /\ stop \in SUBSET Nat
    OBVIOUS
  <2> HIDE DEF stop, X, base, pred, step
  <2> QED
    BY <1>2, <1>3, <1>4, <2>1, Recursion
<1>6. \A k \in Nat : f[k] = IF k < 10 THEN <<Numerals[k + 1]>>
                            ELSE Append(f[k \div 10], Numerals[(k % 10) + 1])
  <2> SUFFICES ASSUME NEW k \in Nat
               PROVE  f[k] = IF k < 10 THEN <<Numerals[k + 1]>>
                             ELSE Append(f[k \div 10], Numerals[(k % 10) + 1])
    OBVIOUS
  <2>1. CASE k < 10
    <3>1. k \in stop
      BY <2>1
    <3>2. f[k] = base[k]
      BY <1>5, <3>1 DEF Solves
    <3> QED
      BY <2>1, <3>1, <3>2
  <2>2. CASE ~(k < 10)
    <3>1. k \notin stop /\ pred[k] = k \div 10 /\ k \div 10 \in Nat
      BY <2>2
    <3>2. f[k] = step[<<k, f[k \div 10]>>]
      BY <1>5, <3>1 DEF Solves
    <3>3. <<k, f[k \div 10]>> \in Nat \X X
      BY <3>1
    <3> QED
      BY <2>2, <3>2, <3>3
  <2> QED
    BY <2>1, <2>2
<1>7. F(f)
  BY <1>6
<1>8. F(Decimal)
  <2>1. Decimal = CHOOSE g : F(g)
    BY DEF Decimal
  <2> HIDE DEF F
  <2> QED
    BY <1>7, <2>1
<1> QED
  BY <1>8

\* std::to_string() prints a numeral that stands for its argument.
LEMMA DecimalIs ==
    ASSUME NEW n \in Nat
    PROVE  Decimal[n] \in Seq(Digits) /\ Decimal[n] # <<>> /\ Value(Decimal[n]) = n
<1> DEFINE Good(k) == Decimal[k] \in Seq(Digits) /\ Decimal[k] # <<>> /\ Value(Decimal[k]) = k
           E == {k \in Nat : Good(k)}
<1>1. ASSUME NEW k \in Nat, \A j \in Nat : j < k => j \in E
      PROVE  k \in E
  <2>1. CASE k < 10
    <3>1. k \in 0 .. 9 /\ Decimal[k] = <<Numerals[k + 1]>>
      <4>1. k \in 0 .. 9
        BY <2>1
      <4>2. Decimal[k] = IF k < 10 THEN <<Numerals[k + 1]>>
                         ELSE Append(Decimal[k \div 10], Numerals[(k % 10) + 1])
        BY DecimalIsRecursive
      <4> QED
        BY <2>1, <4>1, <4>2
    <3>2. Numerals[k + 1] \in Digits /\ Digit[Numerals[k + 1]] = k
      BY <3>1, DigitsAre DEF Digits
    <3> QED
      BY <3>1, <3>2, ValueOfDigit
  <2>2. CASE ~(k < 10)
    <3> DEFINE j == k \div 10
               c == k % 10
    <3>1. j \in Nat /\ j < k /\ c \in 0 .. 9 /\ k = j * 10 + c
      BY <2>2
    <3>2. Decimal[k] = Append(Decimal[j], Numerals[c + 1])
      BY <2>2, DecimalIsRecursive
    <3> HIDE DEF j, c
    <3>3. Decimal[j] \in Seq(Digits) /\ Value(Decimal[j]) = j
      BY <1>1, <3>1
    <3>4. Numerals[c + 1] \in Digits /\ Digit[Numerals[c + 1]] = c
      BY <3>1, DigitsAre DEF Digits
    <3>5. Value(Decimal[k]) = j * 10 + c /\ Decimal[k] \in Seq(Digits) /\ Decimal[k] # <<>>
      BY <3>2, <3>3, <3>4, ValueOfAppend
    <3> QED
      BY <3>1, <3>5
  <2> QED
    BY <2>1, <2>2
<1>2. Nat \subseteq E
  <2>1. Nat \in SUBSET Nat
    OBVIOUS
  <2> HIDE DEF E
  <2> QED
    BY <1>1, <2>1, NoLeastNoOne
<1> QED
  BY <1>2

\* A numeral stands for a natural number.
LEMMA ValueIsNat ==
    ASSUME NEW w \in Seq(Digits)
    PROVE  Value(w) \in Nat
<1>1. PICK f \in [0 .. Len(w) -> Nat] : Value(w) = f[Len(w)]
  BY ValueIsRecursive
<1>2. Len(w) \in 0 .. Len(w)
  OBVIOUS
<1> QED
  BY <1>1, <1>2

\* A trimmed text is a text.
LEMMA TrimmedIsSeq ==
    ASSUME NEW C, NEW s \in Seq(C)
    PROVE  Trim(s) \in Seq(C)
<1>1. CASE Trim(s) = <<>>
  BY <1>1
<1>2. ASSUME NEW b \in 1 .. Len(s), NEW e \in 1 .. Len(s), b <= e, Trim(s) = SubSeq(s, b, e)
      PROVE  Trim(s) \in Seq(C)
  <2>1. b \in 1 .. Len(s) + 1 /\ e \in b - 1 .. Len(s)
    BY <1>2
  <2> QED
    BY <1>2, <2>1, Part
<1> QED
  BY <1>1, <1>2, TrimIs

\* Every bit address there is, whether parsed or built by the caller, is printed by
\* BitAddress::to_string() as a text that parses to it.
THEOREM AddressesRoundTrip ==
    ASSUME NEW area \in {"Input", "Output", "Marker"}, NEW byte \in 0 .. UintMax, NEW bit \in 0 .. 7,
           NEW r, r = Accepted(area, byte, bit)
    PROVE  ParseBitAddress(AddressToString(r)) = r
<1> DEFINE w == Decimal[byte]
           v == Decimal[bit]
           c == Letter[area]
           g == [lead |-> <<>>, mark |-> <<"%">>, area |-> c, x |-> <<>>, byte |-> w, bit |-> v,
                 trail |-> <<>>]
<1>1. UintMax \in Nat /\ UintMax >= 9 /\ byte \in Nat /\ bit \in Nat /\ byte <= UintMax /\ bit <= 7
  BY ParserAssumption
<1>2. /\ w \in Seq(Digits) /\ w # <<>> /\ Value(w) = byte
      /\ v \in Seq(Digits) /\ v # <<>> /\ Value(v) = bit
  BY <1>1, DecimalIs
<1>3. Upper(c) \in DOMAIN AreaOf /\ AreaOf[Upper(c)] = area /\ c \in {"I", "Q", "M"}
  <2>1. CASE area = "Input"
    <3>1. c = "I" /\ AreaOf["I"] = "Input"
      BY <2>1 DEF Letter, AreaOf
    <3> QED
      BY <2>1, <3>1, UpperOf
  <2>2. CASE area = "Output"
    <3>1. c = "Q" /\ AreaOf["Q"] = "Output"
      BY <2>2 DEF Letter, AreaOf
    <3> QED
      BY <2>2, <3>1, UpperOf
  <2>3. CASE area = "Marker"
    <3>1. c = "M" /\ AreaOf["M"] = "Marker"
      BY <2>3 DEF Letter, AreaOf
    <3> QED
      BY <2>3, <3>1, UpperOf
  <2> QED
    BY <2>1, <2>2, <2>3
<1> HIDE DEF w, v, c
<1>4. /\ g.lead = <<>> /\ g.trail = <<>> /\ g.mark = <<"%">> /\ g.area = c /\ g.x = <<>>
      /\ g.byte = w /\ g.bit = v
  OBVIOUS
<1> HIDE DEF g
<1>5. <<>> \in Seq(Spaces)
  OBVIOUS
<1>6. WellSpelled(g)
  BY <1>2, <1>3, <1>4, <1>5 DEF WellSpelled
<1>7. Text(g) = AddressToString(r)
  <2>1. r.area = area /\ r.byte = byte /\ r.bit = bit
    BY DEF Accepted
  <2>2. AddressToString(r) = ((<<"%", c>> \o w) \o <<".">>) \o v
    BY <2>1 DEF AddressToString, w, v, c
  <2>3. (<<"%">> \o <<c>>) \o <<>> = <<"%", c>>
    <3>1. <<"%">> \o <<c>> = <<"%", c>>
      <4> DEFINE u == <<"%">> \o <<c>>
                 t == <<"%", c>>
                 C == {"%", c}
      <4>1. <<"%">> \in Seq(C) /\ <<c>> \in Seq(C) /\ Len(<<"%">>) = 1 /\ Len(<<c>>) = 1
        OBVIOUS
      <4>2. t \in Seq(C) /\ Len(t) = 2 /\ t[1] = "%" /\ t[2] = c
        OBVIOUS
      <4> HIDE DEF C
      <4>3. /\ u \in Seq(C) /\ Len(u) = 1 + 1
            /\ \A i \in 1 .. 1 : u[i] = <<"%">>[i]
            /\ \A i \in 1 .. 1 : u[1 + i] = <<c>>[i]
        BY <4>1, Joined
      <4> HIDE DEF u, t
      <4>4. u[1] = "%" /\ u[2] = c /\ Len(u) = 2
        BY <4>3
      <4>5. u = t
        BY <4>2, <4>3, <4>4, SeqEqual
      <4> QED
        BY <4>5 DEF u, t
    <3>2. <<"%", c>> \in Seq({"%", c})
      OBVIOUS
    <3> QED
      BY <3>1, <3>2, ConcatEmptySeq
  <2>4. Body(g) = ((<<"%", c>> \o w) \o <<".">>) \o v
    BY <1>4, <2>3 DEF Body
  <2>5. Body(g) \in Seq(Chars)
    BY <1>6, BodyShape
  <2>6. Text(g) = Body(g)
    BY <1>4, <2>5, ConcatEmptySeq DEF Text
  <2> QED
    BY <2>2, <2>4, <2>6
<1>8. Value(g.byte) <= UintMax /\ Value(g.bit) <= UintMax /\ ~(Value(g.bit) > 7)
  BY <1>1, <1>2, <1>4
<1> QED
  BY <1>2, <1>3, <1>4, <1>6, <1>7, <1>8, SpelledIsParsed


-----------------------------------------------------------------------------
(* The invariants of the specification. *)

\* The type of the variable.
Inputs == input \in Seq(Alphabet) /\ Len(input) <= MaxLen

\* The inputs checked are texts over the alphabet, of at most the checked length.
THEOREM TypeCorrect == Spec => []Inputs
<1>1. Init => Inputs
  BY ParserAssumption DEF Init, Inputs
<1>2. Inputs /\ [Next]_input => Inputs'
  <2> SUFFICES ASSUME Inputs, [Next]_input PROVE Inputs'
    OBVIOUS
  <2>1. CASE Next
    <3>1. PICK c \in Alphabet : input' = Append(input, c) /\ Len(input) < MaxLen
      BY <2>1 DEF Next
    <3>2. Append(input, c) \in Seq(Alphabet) /\ Len(Append(input, c)) = Len(input) + 1
      BY AppendProperties DEF Inputs
    <3> QED
      BY <3>1, <3>2, ParserAssumption DEF Inputs
  <2>2. CASE UNCHANGED input
    BY <2>2 DEF Inputs
  <2> QED
    BY <2>1, <2>2
<1> QED
  BY <1>1, <1>2, PTL DEF Spec

\* ParserMeetsGrammar, of any input.
LEMMA MeetsGrammar ==
    ASSUME Inputs
    PROVE  ParserMeetsGrammar
<1> DEFINE r == ParseBitAddress(input)
<1>1. CASE r.ok
  <2>1. PICK g : /\ WellSpelled(g) /\ Text(g) = input
                 /\ g = [lead |-> g.lead, mark |-> g.mark, area |-> g.area, x |-> g.x,
                         byte |-> g.byte, bit |-> g.bit, trail |-> g.trail]
                 /\ Value(g.byte) <= UintMax /\ Value(g.bit) <= 7
                 /\ r = Accepted(AreaOf[Upper(g.area)], Value(g.byte), Value(g.bit))
    BY <1>1, AcceptedIsSpelled DEF Inputs
  <2>2. g \in Spelling
    BY <2>1, WellSpelledIsSpelling DEF Inputs
  <2>3. <<input, r>> \in Grammar
    BY <2>1, <2>2 DEF Grammar
  <2> QED
    BY <1>1, <2>3 DEF ParserMeetsGrammar
<1>2. CASE ~r.ok
  <2>1. input \notin Spelled
    <3> SUFFICES ASSUME input \in Spelled PROVE FALSE
      OBVIOUS
    <3>1. PICK g \in Spelling : Text(g) = input
      BY DEF Spelled, Grammar
    <3>2. WellSpelled(g) /\ Value(g.byte) <= UintMax /\ Value(g.bit) <= 7
      BY SpellingIsWellSpelled
    <3>3. Value(g.bit) \in Nat
      BY <3>2, ValueIsNat DEF WellSpelled
    <3>4. Value(g.bit) <= UintMax /\ ~(Value(g.bit) > 7)
      BY <3>2, <3>3, ParserAssumption
    <3>5. r = Accepted(AreaOf[Upper(g.area)], Value(g.byte), Value(g.bit))
      BY <3>1, <3>2, <3>4, SpelledIsParsed
    <3> HIDE DEF r
    <3> QED
      BY <1>2, <3>5 DEF Accepted
  <2> QED
    BY <1>2, <2>1 DEF ParserMeetsGrammar
<1> QED
  BY <1>1, <1>2

\* RoundTrip, of any input.
LEMMA RoundTrips ==
    ASSUME Inputs
    PROVE  RoundTrip
<1> DEFINE r == ParseBitAddress(input)
<1>1. ASSUME r.ok
      PROVE  ParseBitAddress(AddressToString(r)) = r
  <2>1. PICK g : /\ WellSpelled(g)
                 /\ Value(g.byte) <= UintMax /\ Value(g.bit) <= 7
                 /\ r = Accepted(AreaOf[Upper(g.area)], Value(g.byte), Value(g.bit))
    BY <1>1, AcceptedIsSpelled DEF Inputs
  <2>2. Value(g.byte) \in Nat /\ Value(g.bit) \in Nat
    BY <2>1, ValueIsNat DEF WellSpelled
  <2>3. Value(g.byte) \in 0 .. UintMax /\ Value(g.bit) \in 0 .. 7
    BY <2>1, <2>2, ParserAssumption
  <2>4. AreaOf[Upper(g.area)] \in {"Input", "Output", "Marker"}
    <3>1. Upper(g.area) \in {"I", "E", "Q", "A", "M"}
      BY <2>1, UpperOf DEF WellSpelled
    <3> QED
      BY <3>1 DEF AreaOf
  <2> HIDE DEF r
  <2> QED
    BY <2>1, <2>3, <2>4, AddressesRoundTrip
<1> QED
  BY <1>1 DEF RoundTrip

\* ExplainsUnsupported, of any input.
LEMMA Explains ==
    ASSUME Inputs
    PROVE  ExplainsUnsupported
<1> DEFINE r == ParseBitAddress(input)
           s == Trim(input)
           a == AreaAt(s)
<1>1. ASSUME input \in HighBit
      PROVE  ~r.ok /\ r.reason = "bit_range"
  <2>1. PICK h \in Spelling, b \in Numeral(UintMax) \ Numeral(7) :
           input = Text([h EXCEPT !.bit = b])
    BY <1>1 DEF HighBit
  <2> DEFINE g == [h EXCEPT !.bit = b]
  <2>2. WellSpelled(h) /\ Value(h.byte) <= UintMax
    BY SpellingIsWellSpelled
  <2>3. b \in Seq(Digits) /\ b # <<>> /\ Value(b) <= UintMax
    BY NumeralIs
  <2>4. Value(b) > 7
    <3>1. Value(b) \in Nat
      BY <2>3, ValueIsNat
    <3>2. ~(Value(b) <= 7)
      BY DEF Numeral
    <3> QED
      BY <3>1, <3>2
  <2>5. /\ g.lead = h.lead /\ g.mark = h.mark /\ g.area = h.area /\ g.x = h.x
        /\ g.byte = h.byte /\ g.bit = b /\ g.trail = h.trail
    BY DEF Spelling
  <2> HIDE DEF g
  <2>6. WellSpelled(g) /\ Value(g.byte) <= UintMax /\ Value(g.bit) <= UintMax /\ Value(g.bit) > 7
    BY <2>2, <2>3, <2>4, <2>5 DEF WellSpelled
  <2>7. ParseBitAddress(Text(g)) = Rejected("bit_range")
    BY <2>6, SpelledIsParsed
  <2>8. r = Rejected("bit_range")
    BY <2>1, <2>7 DEF g
  <2> HIDE DEF r
  <2> QED
    BY <2>8 DEF Rejected
<1>2. ASSUME Upper(At(s, a)) \in DOMAIN AreaOf, Upper(At(s, a + 1)) \in {"B", "W", "D"}
      PROVE  ~r.ok /\ r.reason = "wide_access"
  <2>1. r = Verdict(s, a, ReadNumber(s, NumberAt(s)),
                    ReadNumber(s, ReadNumber(s, NumberAt(s)).pos + 1))
    BY ParseIsVerdict
  <2>2. At(s, a) # "end"
    BY <1>2, UpperOf
  <2>3. a <= Len(s) /\ At(s, a) = s[a]
    BY <2>2 DEF At
  <2>4. Upper(At(s, 1)) # "D"
    <3>1. At(s, 1) = "%" \/ At(s, 1) = At(s, a)
      BY DEF AreaAt
    <3> QED
      BY <1>2, <3>1, UpperIsNot
  <2>5. s # <<>> /\ ~(a > Len(s))
    <3>1. s \in Seq(Alphabet) /\ a \in 1 .. 2
      BY TrimmedIsSeq DEF Inputs, AreaAt
    <3> HIDE DEF s, a
    <3>2. Len(s) \in Nat /\ Len(s) # 0 /\ ~(a > Len(s))
      BY <2>3, <3>1
    <3>3. s = <<>> => Len(s) = 0
      BY EmptySeq, Zenon
    <3> QED
      BY <3>2, <3>3
  <2> HIDE DEF r, s, a
  <2>6. r = Rejected("wide_access")
    BY <1>2, <2>1, <2>3, <2>4, <2>5 DEF Verdict
  <2> QED
    BY <2>6 DEF Rejected
<1> QED
  BY <1>1, <1>2 DEF ExplainsUnsupported, AreaAt

\* parse_bit_address() accepts exactly the spellings of the grammar, each with its
\* value (ParserMeetsGrammar), whatever the width of the number type, the alphabet
\* and the bound on the length.
THEOREM ParserAcceptsTheGrammar == Spec => []ParserMeetsGrammar
BY TypeCorrect, MeetsGrammar, PTL

\* What an accepted address is printed as parses to the same address (RoundTrip).
THEOREM AcceptedAddressesRoundTrip == Spec => []RoundTrip
BY TypeCorrect, RoundTrips, PTL

\* A bit index above 7 and a byte, word or double-word access are rejected with
\* their own message, in every spelling (ExplainsUnsupported).
THEOREM UnsupportedIsExplained == Spec => []ExplainsUnsupported
BY TypeCorrect, Explains, PTL

=============================================================================

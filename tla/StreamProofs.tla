---------------------------- MODULE StreamProofs ----------------------------
(* What the recursive functions of Inotify compute, for streams of any       *)
(* length: decode_events gives back the whole events of a packed stream that *)
(* is cut anywhere.                                                          *)
(*                                                                           *)
(* Induction is by least counterexample: the library's WFMin speaks of sets, *)
(* where its induction rules take an operator.                               *)
EXTENDS Inotify, SequenceTheorems, WellFoundedInduction, TLAPS

-----------------------------------------------------------------------------
(* Induction and recursion over the naturals, stated with sets.             *)

Less == {p \in Nat \X Nat : p[1] < p[2]}

LEMMA LessIsWellFounded == IsWellFoundedOn(Less, Nat)
<1>1. IsWellFoundedOn(OpToRel(<, Nat), Nat)
  BY NatLessThanWellFounded, Zenon
<1>2. OpToRel(<, Nat) = Less
  BY Zenon DEF OpToRel, Less
<1> QED
  BY <1>1, <1>2, Zenon

\* A set of naturals that is not empty has a least element.
LEMMA Least ==
  ASSUME NEW S \in SUBSET Nat, S # {}
  PROVE  \E n \in S : \A m \in S : n <= m
<1>1. PICK x \in S : \A y \in S : <<y, x>> \notin Less
  BY LessIsWellFounded, WFMin, Zenon
<1>2. ASSUME NEW y \in S PROVE x <= y
  <2>1. x \in Nat /\ y \in Nat /\ (y < x => <<y, x>> \in Less)
    BY DEF Less
  <2> QED
    BY <2>1, <1>1
<1> QED
  BY <1>2

LEMMA Induction ==
  ASSUME NEW S, 0 \in S, \A n \in Nat : n \in S => n + 1 \in S
  PROVE  Nat \subseteq S
<1> SUFFICES ASSUME Nat \ S # {} PROVE FALSE
  OBVIOUS
<1>1. PICK n \in Nat \ S : \A m \in Nat \ S : n <= m
  BY Least
<1>2. n - 1 \in Nat \ S
  BY <1>1
<1> QED
  BY <1>1, <1>2

\* A bounded set of naturals that is not empty has a greatest element, which is Max.
LEMMA MaxIsGreatest ==
  ASSUME NEW S \in SUBSET Nat, S # {}, NEW b \in Nat, \A x \in S : x <= b
  PROVE  Max(S) \in S /\ \A x \in S : x <= Max(S)
<1> DEFINE D == {b - x : x \in S}
<1>1. D \in SUBSET Nat /\ D # {}
  <2>1. \A x \in S : x \in Nat /\ x <= b /\ b - x \in Nat
    OBVIOUS
  <2> QED
    BY <2>1, Zenon
<1>2. PICK d \in D : \A e \in D : d <= e
  <2> HIDE DEF D
  <2> QED
    BY <1>1, Least
<1>3. PICK x \in S : d = b - x
  BY <1>2
<1>4. \A y \in S : x >= y
  BY <1>2, <1>3
<1>5. Max(S) \in S /\ \A y \in S : Max(S) >= y
  BY <1>4, Zenon DEF Max
<1> QED
  BY <1>5

\* Two functions that start alike and go on alike are equal.
LEMMA SameRecursion ==
  ASSUME NEW n \in Nat, NEW f, NEW g, f[0] = g[0],
         \A i \in 1..n : f[i - 1] = g[i - 1] => f[i] = g[i]
  PROVE  \A i \in 0..n : f[i] = g[i]
<1> DEFINE S == {i \in Nat : i <= n => f[i] = g[i]}
<1>1. 0 \in S
  OBVIOUS
<1>2. ASSUME NEW i \in Nat, i \in S PROVE i + 1 \in S
  <2>1. CASE i + 1 <= n
    <3>1. i + 1 \in 1..n /\ (i + 1) - 1 = i /\ f[i] = g[i]
      BY <1>2, <2>1
    <3>2. f[i + 1] = g[i + 1]
      BY <3>1
    <3> QED
      BY <3>2
  <2> QED
    BY <2>1
<1>3. Nat \subseteq S
  <2> HIDE DEF S
  <2> QED
    BY <1>1, <1>2, Induction
<1> QED
  BY <1>3

\* The functions that start at v and go on by step.
Solutions(n, V, v, step) ==
  {f \in [0..n -> V] : f[0] = v /\ \A i \in 1..n : f[i] = step[i][f[i - 1]]}

\* A recursion whose step is a function of the values of a set has a solution.
LEMMA Recursion ==
  ASSUME NEW n \in Nat, NEW V, NEW v \in V, NEW step \in [1..n -> [V -> V]]
  PROVE  Solutions(n, V, v, step) # {}
<1> DEFINE Solves(m, f) ==
             f \in [0..m -> V] /\ f[0] = v /\ \A i \in 1..m : f[i] = step[i][f[i - 1]]
           S == {m \in Nat : m <= n => \E f : Solves(m, f)}
<1>1. 0 \in S
  <2>1. Solves(0, [i \in 0..0 |-> v])
    OBVIOUS
  <2> QED
    BY <2>1
<1>2. ASSUME NEW m \in Nat, m \in S PROVE m + 1 \in S
  <2> SUFFICES ASSUME m + 1 <= n PROVE \E f : Solves(m + 1, f)
    OBVIOUS
  <2>1. PICK f : Solves(m, f)
    BY <1>2
  <2>2. m + 1 \in 1..n /\ m \in 0..m
    OBVIOUS
  <2>3. step[m + 1][f[m]] \in V
    BY <2>1, <2>2
  <2> DEFINE g == [i \in 0..(m + 1) |-> IF i = m + 1 THEN step[m + 1][f[m]] ELSE f[i]]
  <2>4. g \in [0..(m + 1) -> V]
    BY <2>1, <2>3
  <2>5. g[0] = v
    BY <2>1
  <2>6. ASSUME NEW i \in 1..(m + 1) PROVE g[i] = step[i][g[i - 1]]
    <3>1. i - 1 \in 0..(m + 1) /\ i - 1 # m + 1 /\ g[i - 1] = f[i - 1]
      OBVIOUS
    <3>2. CASE i = m + 1
      BY <3>1, <3>2
    <3>3. CASE i # m + 1
      BY <3>1, <3>3, <2>1
    <3> QED
      BY <3>2, <3>3
  <2>7. Solves(m + 1, g)
    <3> HIDE DEF g
    <3> QED
      BY <2>4, <2>5, <2>6
  <2> QED
    BY <2>7
<1>3. Nat \subseteq S
  <2> HIDE DEF S
  <2> QED
    BY <1>1, <1>2, Induction
<1>4. \E f : Solves(n, f)
  BY <1>3
<1> QED
  BY <1>4, Zenon DEF Solutions

-----------------------------------------------------------------------------
(* Cells: where the events of a queue start.                                *)

\* The recursion of Cells up to k.
Upto(q, k, f) ==
  f = [j \in 0..k |-> IF j = 0 THEN 0 ELSE f[j - 1] + Base + Padded(q[j].name)]

LEMMA CellsIsUpto ==
  ASSUME NEW q, NEW k
  PROVE  Cells(q, k) = (CHOOSE f : Upto(q, k, f))[k]
  BY Zenon DEF Cells, Upto

LEMMA CellsAlong ==
  ASSUME NEW q, NEW n \in Nat, NEW k \in 0..n, NEW g, Upto(q, n, g)
  PROVE  Cells(q, k) = g[k]
<1> DEFINE h == [j \in 0..k |-> g[j]]
<1>1. Upto(q, k, h)
  <2>1. ASSUME NEW j \in 0..k, j # 0
        PROVE  h[j] = h[j - 1] + Base + Padded(q[j].name)
    BY <2>1 DEF Upto
  <2>2. h[0] = 0
    BY DEF Upto
  <2> QED
    BY <2>1, <2>2 DEF Upto
<1> DEFINE c == CHOOSE f : Upto(q, k, f)
<1>2. Upto(q, k, c)
  <2> HIDE DEF h
  <2> QED
    BY <1>1
<1>3. c[0] = h[0]
  <2> HIDE DEF c, h
  <2> QED
    BY <1>1, <1>2 DEF Upto
<1>4. \A j \in 1..k : c[j - 1] = h[j - 1] => c[j] = h[j]
  <2> HIDE DEF c, h
  <2> QED
    BY <1>1, <1>2 DEF Upto
<1>5. \A j \in 0..k : c[j] = h[j]
  <2> HIDE DEF c, h
  <2> QED
    BY <1>3, <1>4, SameRecursion
<1>6. c[k] = g[k]
  <2>1. k \in 0..k /\ h[k] = g[k]
    OBVIOUS
  <2> HIDE DEF c, h
  <2> QED
    BY <1>5, <2>1
<1> QED
  BY <1>6, CellsIsUpto

LEMMA CellsRecursion ==
  ASSUME NEW q, NEW n \in Nat, \A j \in 1..n : Padded(q[j].name) \in Nat
  PROVE  /\ Cells(q, 0) = 0
         /\ \A k \in 0..n : Cells(q, k) \in Nat
         /\ \A k \in 1..n : Cells(q, k) = Cells(q, k - 1) + Base + Padded(q[k].name)
<1> DEFINE step == [j \in 1..n |-> [c \in Nat |-> c + Base + Padded(q[j].name)]]
<1>1. step \in [1..n -> [Nat -> Nat]]
  BY SizesAssumption
<1>2. PICK f : f \in Solutions(n, Nat, 0, step)
  <2> HIDE DEF step
  <2>1. 0 \in Nat
    OBVIOUS
  <2>2. Solutions(n, Nat, 0, step) # {}
    BY <1>1, <2>1, Recursion
  <2> QED
    BY <2>2, Zenon
<1>3. f \in [0..n -> Nat] /\ f[0] = 0 /\ \A j \in 1..n : f[j] = step[j][f[j - 1]]
  <2> HIDE DEF step
  <2> QED
    BY <1>2 DEF Solutions
<1>4. ASSUME NEW j \in 1..n PROVE f[j] = f[j - 1] + Base + Padded(q[j].name)
  <2>1. f[j - 1] \in Nat
    BY <1>3
  <2>2. step[j][f[j - 1]] = f[j - 1] + Base + Padded(q[j].name)
    BY <2>1
  <2> QED
    BY <1>3, <2>2
<1>5. Upto(q, n, f)
  BY <1>3, <1>4 DEF Upto
<1>6. \A k \in 0..n : Cells(q, k) = f[k]
  BY <1>5, CellsAlong
<1> QED
  BY <1>3, <1>4, <1>6

-----------------------------------------------------------------------------
(* One packed event.                                                        *)

\* What a buffer is made of: the fields of a header, and bytes.
Headers == [id : Nat, mask : Masks, len : Nat]
Cell == Nat \cup Headers

LEMMA EventFields ==
  ASSUME NEW e \in Events
  PROVE  /\ e.id \in Nat /\ e.mask \in Masks /\ e.name \in Seq(Nat \ {0})
         /\ e = [id |-> e.id, mask |-> e.mask, name |-> e.name]
<1>1. <<>> \in Seq(Nat \ {0})
  OBVIOUS
<1> QED
  BY <1>1, NamesAssumption DEF Events

LEMMA Padding ==
  ASSUME NEW n \in Seq(Nat \ {0})
  PROVE  /\ Padded(n) \in Nat
         /\ n = <<>> => Padded(n) = 0
         /\ n # <<>> => Padded(n) > Len(n)
         /\ Padded(n) >= Len(n)
<1>1. Len(n) \in Nat /\ (n = <<>> => Len(n) = 0)
  OBVIOUS
<1>2. Base \in Nat /\ Base > 0
  BY SizesAssumption
<1>3. ASSUME NEW a \in Nat, NEW b \in Nat, b > 0
      PROVE  (a \div b) * b \in Nat /\ (a \div b) * b > a - b
  BY <1>3
<1>4. Len(n) + Base \in Nat
  BY <1>1, <1>2
<1>5. ((Len(n) + Base) \div Base) * Base \in Nat
  BY <1>2, <1>3, <1>4
<1>6. ((Len(n) + Base) \div Base) * Base > (Len(n) + Base) - Base
  BY <1>2, <1>3, <1>4
<1>7. (Len(n) + Base) - Base = Len(n)
  BY <1>1, <1>2
<1> QED
  BY <1>1, <1>5, <1>6, <1>7 DEF Padded

\* The header comes first, then the name, then zeros.
LEMMA EncodedCells ==
  ASSUME NEW e \in Events
  PROVE  /\ Encoded(e) \in Seq(Cell)
         /\ Len(Encoded(e)) = Base + Padded(e.name)
         /\ Encoded(e)[1] = [id |-> e.id, mask |-> e.mask, len |-> Padded(e.name)]
         /\ \A i \in 1..Padded(e.name) :
              Encoded(e)[Base + i] = IF i <= Len(e.name) THEN e.name[i] ELSE 0
<1> DEFINE h == [id |-> e.id, mask |-> e.mask, len |-> Padded(e.name)]
           pad == Padded(e.name) - Len(e.name)
<1>1. e.name \in Seq(Nat \ {0}) /\ e.id \in Nat /\ e.mask \in Masks
  BY EventFields
<1>2. Padded(e.name) \in Nat /\ Len(e.name) \in Nat /\ pad \in Nat /\ Base \in Nat \ {0}
  BY <1>1, Padding, SizesAssumption
<1>3. h \in Headers
  BY <1>1, <1>2 DEF Headers
<1>4. <<h>> \in Seq(Cell) /\ Len(<<h>>) = 1 /\ <<h>>[1] = h
  BY <1>3 DEF Cell
<1>5. ASSUME NEW n \in Nat
      PROVE  /\ Zeros(n) \in Seq(Cell) /\ Len(Zeros(n)) = n
             /\ \A i \in 1..n : Zeros(n)[i] = 0
  BY DEF Zeros, Cell
<1>6. e.name \in Seq(Cell)
  <2>1. Nat \ {0} \subseteq Cell
    BY DEF Cell
  <2> QED
    BY <1>1, <2>1, SeqMonotonic
<1>7. /\ Header(e) \in Seq(Cell) /\ Len(Header(e)) = Base
      /\ Header(e)[1] = h
  <2>1. Base - 1 \in Nat
    BY <1>2
  <2>2. Zeros(Base - 1) \in Seq(Cell) /\ Len(Zeros(Base - 1)) = Base - 1
    BY <1>5, <2>1
  <2>3. Header(e) = <<h>> \o Zeros(Base - 1)
    BY DEF Header
  <2> HIDE DEF h
  <2>4. <<h>> \o Zeros(Base - 1) \in Seq(Cell)
    BY <1>4, <2>2, ConcatProperties
  <2>5. Len(<<h>> \o Zeros(Base - 1)) = 1 + (Base - 1)
    BY <1>4, <2>2, ConcatProperties
  <2>6. (<<h>> \o Zeros(Base - 1))[1] = <<h>>[1]
    <3>1. 1 \in 1..(Len(<<h>>) + Len(Zeros(Base - 1))) /\ 1 <= Len(<<h>>)
      BY <1>4, <2>1, <2>2
    <3> QED
      BY <1>4, <2>2, <3>1, ConcatProperties
  <2> QED
    BY <1>2, <1>4, <2>3, <2>4, <2>5, <2>6
<1>8. Zeros(pad) \in Seq(Cell) /\ Len(Zeros(pad)) = pad /\ \A i \in 1..pad : Zeros(pad)[i] = 0
  <2> HIDE DEF pad
  <2> QED
    BY <1>2, <1>5
<1> DEFINE hn == Header(e) \o e.name
<1>9. /\ hn \in Seq(Cell) /\ Len(hn) = Base + Len(e.name)
      /\ \A i \in 1..(Base + Len(e.name)) :
           hn[i] = IF i <= Base THEN Header(e)[i] ELSE e.name[i - Base]
  BY <1>6, <1>7, ConcatProperties
<1>10. Encoded(e) = hn \o Zeros(pad)
  BY DEF Encoded
<1> HIDE DEF hn, pad, h
<1>11. /\ Encoded(e) \in Seq(Cell)
       /\ Len(Encoded(e)) = Base + Len(e.name) + pad
       /\ \A i \in 1..(Base + Len(e.name) + pad) :
            Encoded(e)[i] = IF i <= Base + Len(e.name) THEN hn[i]
                            ELSE Zeros(pad)[i - (Base + Len(e.name))]
  BY <1>8, <1>9, <1>10, ConcatProperties
<1>12. pad = Padded(e.name) - Len(e.name)
  BY DEF pad
<1>13. Len(Encoded(e)) = Base + Padded(e.name)
  BY <1>2, <1>11, <1>12
<1>14. Encoded(e)[1] = h
  <2> SUFFICES ASSUME NEW i \in Nat, i = 1 PROVE Encoded(e)[i] = Header(e)[i]
    BY <1>7
  <2>1. /\ i \in 1..(Base + Len(e.name) + pad) /\ i <= Base + Len(e.name)
        /\ i \in 1..(Base + Len(e.name)) /\ i <= Base
    BY <1>2
  <2>2. Encoded(e)[i] = hn[i]
    BY <1>11, <2>1
  <2>3. hn[i] = Header(e)[i]
    BY <1>9, <2>1
  <2> QED
    BY <2>2, <2>3
<1>15. ASSUME NEW i \in 1..Padded(e.name)
       PROVE  Encoded(e)[Base + i] = IF i <= Len(e.name) THEN e.name[i] ELSE 0
  <2>1. Base + i \in 1..(Base + Len(e.name) + pad)
    BY <1>2, <1>12
  <2>2. CASE i <= Len(e.name)
    <3>1. Base + i \in 1..(Base + Len(e.name)) /\ ~(Base + i <= Base) /\ (Base + i) - Base = i
      BY <1>2, <2>2
    <3>2. hn[Base + i] = e.name[i]
      BY <1>9, <3>1
    <3> QED
      BY <1>11, <2>1, <2>2, <3>1, <3>2
  <2>3. CASE i > Len(e.name)
    <3>1. ~(Base + i <= Base + Len(e.name)) /\ (Base + i) - (Base + Len(e.name)) \in 1..pad
      BY <1>2, <1>12, <2>3
    <3>2. Encoded(e)[Base + i] = Zeros(pad)[(Base + i) - (Base + Len(e.name))]
      BY <1>11, <2>1, <3>1
    <3> QED
      BY <1>2, <1>8, <2>3, <3>1, <3>2
  <2> QED
    BY <1>2, <2>2, <2>3
<1> QED
  BY <1>11, <1>13, <1>14, <1>15 DEF h
-----------------------------------------------------------------------------
(* The packed stream of a queue.                                            *)

\* The recursion of FlattenSeq up to n.
Flat(s, n, f) == f = [i \in 1..n |-> IF i = 1 THEN s[i] ELSE f[i - 1] \o s[i]]

LEMMA FlattenIsFlat ==
  ASSUME NEW s, Len(s) # 0
  PROVE  FlattenSeq(s) = (CHOOSE f : Flat(s, Len(s), f))[Len(s)]
  BY Zenon DEF FlattenSeq, Flat

LEMMA FlattenAlong ==
  ASSUME NEW t, NEW n \in Nat, NEW g, Flat(t, n, g),
         NEW s, Len(s) \in 1..n, \A i \in 1..Len(s) : s[i] = t[i]
  PROVE  FlattenSeq(s) = g[Len(s)]
<1> DEFINE k == Len(s)
           h == [i \in 1..k |-> g[i]]
<1>0. k \in 1..n /\ \A i \in 1..k : s[i] = t[i]
  OBVIOUS
<1> HIDE DEF k
<1>1. Flat(s, k, h)
  <2>1. ASSUME NEW i \in 1..k
        PROVE  h[i] = IF i = 1 THEN s[i] ELSE h[i - 1] \o s[i]
    <3>1. i \in 1..n /\ h[i] = g[i] /\ (i # 1 => i - 1 \in 1..k /\ h[i - 1] = g[i - 1])
      BY <1>0
    <3>2. g[i] = IF i = 1 THEN t[i] ELSE g[i - 1] \o t[i]
      BY <3>1 DEF Flat
    <3> QED
      BY <1>0, <3>1, <3>2
  <2> QED
    BY <2>1 DEF Flat
<1> DEFINE c == CHOOSE f : Flat(s, k, f)
<1>2. Flat(s, k, c)
  <2> HIDE DEF h
  <2> QED
    BY <1>1
<1> HIDE DEF c, h
<1> DEFINE S == {i \in Nat : i + 1 \in 1..k => c[i + 1] = h[i + 1]}
<1>3. 0 \in S
  BY <1>0, <1>1, <1>2 DEF Flat
<1>4. ASSUME NEW i \in Nat, i \in S PROVE i + 1 \in S
  <2> SUFFICES ASSUME (i + 1) + 1 \in 1..k PROVE c[(i + 1) + 1] = h[(i + 1) + 1]
    OBVIOUS
  <2>1. i + 1 \in 1..k /\ (i + 1) + 1 # 1 /\ ((i + 1) + 1) - 1 = i + 1
    BY <1>0
  <2>2. c[i + 1] = h[i + 1]
    BY <1>4, <2>1
  <2>3. c[(i + 1) + 1] = c[i + 1] \o s[(i + 1) + 1]
    BY <1>2, <2>1 DEF Flat
  <2>4. h[(i + 1) + 1] = h[i + 1] \o s[(i + 1) + 1]
    BY <1>1, <2>1 DEF Flat
  <2> QED
    BY <2>2, <2>3, <2>4
<1>5. Nat \subseteq S
  <2> HIDE DEF S
  <2> QED
    BY <1>3, <1>4, Induction
<1>6. c[k] = h[k]
  <2>1. k - 1 \in Nat /\ (k - 1) + 1 = k /\ k \in 1..k
    BY <1>0
  <2>2. k - 1 \in S
    BY <1>5, <2>1
  <2> QED
    BY <2>1, <2>2
<1>7. h[k] = g[k]
  BY <1>0 DEF h
<1>8. FlattenSeq(s) = c[k]
  BY <1>0, FlattenIsFlat DEF c, k
<1> QED
  BY <1>6, <1>7, <1>8 DEF k

LEMMA FlatExists ==
  ASSUME NEW S, NEW n \in Nat, NEW t \in [1..n -> Seq(S)]
  PROVE  \E f : Flat(t, n, f) /\ f \in [1..n -> Seq(S)]
<1> DEFINE step == [i \in 1..n |-> [a \in Seq(S) |-> a \o t[i]]]
<1>1. step \in [1..n -> [Seq(S) -> Seq(S)]]
  <2>1. \A i \in 1..n : \A a \in Seq(S) : a \o t[i] \in Seq(S)
    BY ConcatProperties
  <2> QED
    BY <2>1
<1>2. PICK f : f \in Solutions(n, Seq(S), <<>>, step)
  <2> HIDE DEF step
  <2>1. <<>> \in Seq(S)
    OBVIOUS
  <2>2. Solutions(n, Seq(S), <<>>, step) # {}
    BY <1>1, <2>1, Recursion
  <2> QED
    BY <2>2, Zenon
<1>3. f \in [0..n -> Seq(S)] /\ f[0] = <<>> /\ \A i \in 1..n : f[i] = step[i][f[i - 1]]
  <2> HIDE DEF step
  <2> QED
    BY <1>2 DEF Solutions
<1>4. ASSUME NEW i \in 1..n PROVE f[i - 1] \in Seq(S) /\ f[i] = f[i - 1] \o t[i]
  <2>1. f[i - 1] \in Seq(S)
    BY <1>3
  <2>2. step[i][f[i - 1]] = f[i - 1] \o t[i]
    BY <2>1
  <2> QED
    BY <1>3, <2>1, <2>2
<1> DEFINE g == [i \in 1..n |-> f[i]]
<1>5. ASSUME NEW i \in 1..n PROVE g[i] = IF i = 1 THEN t[i] ELSE g[i - 1] \o t[i]
  <2>1. CASE i = 1
    <3> HIDE DEF step
    <3>1. f[i - 1] = <<>>
      BY <1>3, <2>1
    <3>2. f[i] = <<>> \o t[i] /\ t[i] \in Seq(S)
      BY <1>4, <3>1
    <3>3. <<>> \o t[i] = t[i]
      BY <3>2, ConcatEmptySeq
    <3> QED
      BY <2>1, <3>2, <3>3
  <2>2. CASE i # 1
    <3>1. i - 1 \in 1..n
      BY <2>2
    <3> QED
      BY <1>4, <2>2, <3>1
  <2> QED
    BY <2>1, <2>2
<1>6. Flat(t, n, g)
  BY <1>5 DEF Flat
<1>7. g \in [1..n -> Seq(S)]
  BY <1>3
<1> QED
  BY <1>6, <1>7
\* Encoding one event more appends its cells.
LEMMA EncodeRecursion ==
  ASSUME NEW q \in Seq(Events)
  PROVE  /\ Encode(SubSeq(q, 1, 0)) = <<>>
         /\ \A k \in 0..Len(q) : Encode(SubSeq(q, 1, k)) \in Seq(Cell)
         /\ \A k \in 1..Len(q) :
              Encode(SubSeq(q, 1, k)) = Encode(SubSeq(q, 1, k - 1)) \o Encoded(q[k])
<1> DEFINE n == Len(q)
           t == [i \in 1..n |-> Encoded(q[i])]
           s(k) == [i \in DOMAIN SubSeq(q, 1, k) |-> Encoded(SubSeq(q, 1, k)[i])]
<1>1. n \in Nat /\ \A i \in 1..n : q[i] \in Events
  OBVIOUS
<1>2. t \in [1..n -> Seq(Cell)]
  BY <1>1, EncodedCells
<1>3. PICK f : Flat(t, n, f) /\ f \in [1..n -> Seq(Cell)]
  <2> HIDE DEF t
  <2> QED
    BY <1>1, <1>2, FlatExists
<1>4. ASSUME NEW k \in 0..n
      PROVE  /\ s(k) = [i \in 1..k |-> Encoded(q[i])]
             /\ Len(s(k)) = k /\ (k # 0 => \A i \in 1..Len(s(k)) : s(k)[i] = t[i])
  <2>1. \A i \in 1..k : q[i] \in Events
    BY <1>1
  <2>2. /\ SubSeq(q, 1, k) \in Seq(Events) /\ Len(SubSeq(q, 1, k)) = k
        /\ \A i \in 1..k : SubSeq(q, 1, k)[i] = q[i]
    BY <1>1, <2>1, SubSeqProperties
  <2>3. DOMAIN SubSeq(q, 1, k) = 1..k
    BY <2>2
  <2>4. s(k) = [i \in 1..k |-> Encoded(q[i])]
    BY <2>2, <2>3
  <2>5. Len(s(k)) = k
    BY <2>4
  <2> QED
    BY <1>1, <2>4, <2>5
<1>5. Encode(SubSeq(q, 1, 0)) = <<>>
  <2>1. s(0) = <<>>
    BY <1>1, <1>4
  <2> QED
    BY <2>1 DEF Encode, FlattenSeq
<1>6. ASSUME NEW k \in 1..n PROVE Encode(SubSeq(q, 1, k)) = f[k]
  <2>1. Encode(SubSeq(q, 1, k)) = FlattenSeq(s(k))
    BY Zenon DEF Encode
  <2>2. Len(s(k)) = k /\ \A i \in 1..Len(s(k)) : s(k)[i] = t[i]
    BY <1>4
  <2>3. Len(s(k)) \in 1..n
    BY <2>2
  <2> HIDE DEF s, t, n
  <2>4. PICK u : u = s(k)
    OBVIOUS
  <2>5. n \in Nat /\ Flat(t, n, f) /\ Len(u) \in 1..n /\ \A i \in 1..Len(u) : u[i] = t[i]
    BY <1>1, <1>3, <2>2, <2>3, <2>4
  <2>6. FlattenSeq(u) = f[Len(u)]
    BY <2>5, FlattenAlong
  <2> QED
    BY <2>1, <2>2, <2>4, <2>6
<1>7. ASSUME NEW k \in 1..n
      PROVE  Encode(SubSeq(q, 1, k)) = Encode(SubSeq(q, 1, k - 1)) \o Encoded(q[k])
  <2>1. t[k] = Encoded(q[k]) /\ t[k] \in Seq(Cell)
    BY <1>2
  <2> HIDE DEF t
  <2>2. CASE k = 1
    <3>1. SubSeq(q, 1, k - 1) = SubSeq(q, 1, 0)
      BY <2>2
    <3>2. f[k] = t[k]
      BY <1>3, <2>2 DEF Flat
    <3>3. <<>> \o t[k] = t[k]
      BY <2>1, ConcatEmptySeq
    <3> QED
      BY <1>5, <1>6, <2>1, <3>1, <3>2, <3>3
  <2>3. CASE k # 1
    <3>1. k - 1 \in 1..n
      BY <1>1, <2>3
    <3>2. f[k] = f[k - 1] \o t[k]
      BY <1>3, <2>3 DEF Flat
    <3> QED
      BY <1>6, <2>1, <3>1, <3>2
  <2> QED
    BY <2>2, <2>3
<1>8. ASSUME NEW k \in 0..n PROVE Encode(SubSeq(q, 1, k)) \in Seq(Cell)
  <2>1. CASE k = 0
    <3>1. Encode(SubSeq(q, 1, k)) = <<>>
      BY <1>5, <2>1, Zenon
    <3>2. <<>> \in Seq(Cell)
      OBVIOUS
    <3> QED
      BY <3>1, <3>2, Zenon
  <2>2. CASE k \in 1..n
    BY <1>3, <1>6, <2>2
  <2> QED
    BY <1>1, <2>1, <2>2
<1> QED
  BY <1>5, <1>7, <1>8
\* The starts of the events of a queue.
LEMMA Starts ==
  ASSUME NEW q \in Seq(Events)
  PROVE  /\ Cells(q, 0) = 0
         /\ \A k \in 0..Len(q) : Cells(q, k) \in Nat
         /\ \A k \in 1..Len(q) :
              /\ Padded(q[k].name) \in Nat
              /\ Cells(q, k) = Cells(q, k - 1) + Base + Padded(q[k].name)
<1>1. ASSUME NEW k \in 1..Len(q) PROVE Padded(q[k].name) \in Nat
  <2>1. q[k] \in Events
    OBVIOUS
  <2>2. q[k].name \in Seq(Nat \ {0})
    BY <2>1, EventFields
  <2> QED
    BY <2>2, Padding
<1>2. Len(q) \in Nat
  OBVIOUS
<1> QED
  BY <1>1, <1>2, CellsRecursion

LEMMA StartsGrow ==
  ASSUME NEW q \in Seq(Events), NEW k \in 0..Len(q)
  PROVE  /\ k * Base <= Cells(q, k)
         /\ \A j \in 0..k : Cells(q, j) <= Cells(q, k)
         /\ \A j \in 0..(k - 1) : Cells(q, j) + Base <= Cells(q, k)
<1>0. Base \in Nat /\ Base > 0 /\ Len(q) \in Nat
  BY SizesAssumption
<1> DEFINE Grows(m) == /\ m * Base <= Cells(q, m)
                       /\ \A j \in 0..m : Cells(q, j) <= Cells(q, m)
                       /\ \A j \in 0..(m - 1) : Cells(q, j) + Base <= Cells(q, m)
           S == {m \in Nat : m <= Len(q) => Grows(m)}
<1>1. 0 \in S
  BY <1>0, Starts
<1>2. ASSUME NEW m \in Nat, m \in S PROVE m + 1 \in S
  <2> SUFFICES ASSUME m + 1 <= Len(q) PROVE Grows(m + 1)
    OBVIOUS
  <2>1. Grows(m)
    BY <1>0, <1>2
  <2>2. m + 1 \in 1..Len(q) /\ (m + 1) - 1 = m /\ m \in 0..Len(q) /\ m + 1 \in 0..Len(q)
    BY <1>0
  <2>3. /\ Cells(q, m) \in Nat /\ Cells(q, m + 1) \in Nat
        /\ Cells(q, m) + Base <= Cells(q, m + 1)
    <3>1. Padded(q[m + 1].name) \in Nat
      BY <2>2, Starts
    <3>2. Cells(q, m + 1) = Cells(q, m) + Base + Padded(q[m + 1].name)
      BY <2>2, Starts
    <3>3. Cells(q, m) \in Nat /\ Cells(q, m + 1) \in Nat
      BY <2>2, Starts
    <3> QED
      BY <1>0, <3>1, <3>2, <3>3
  <2>4. (m + 1) * Base <= Cells(q, m + 1)
    <3>1. (m + 1) * Base = m * Base + Base /\ m * Base \in Nat
      BY <1>0
    <3> QED
      BY <1>0, <2>1, <2>3, <3>1
  <2>5. ASSUME NEW j \in 0..m PROVE Cells(q, j) + Base <= Cells(q, m + 1)
    <3>1. Cells(q, j) \in Nat /\ Cells(q, j) <= Cells(q, m)
      BY <2>1, <2>2, Starts
    <3> QED
      BY <1>0, <2>3, <3>1
  <2>6. ASSUME NEW j \in 0..(m + 1) PROVE Cells(q, j) <= Cells(q, m + 1)
    <3>1. CASE j = m + 1
      BY <2>3, <3>1
    <3>2. CASE j \in 0..m
      <4>1. Cells(q, j) \in Nat
        BY <2>2, <3>2, Starts
      <4> QED
        BY <1>0, <2>3, <2>5, <3>2, <4>1
    <3> QED
      BY <3>1, <3>2
  <2>7. 0..((m + 1) - 1) = 0..m
    OBVIOUS
  <2> QED
    BY <2>4, <2>5, <2>6, <2>7
<1>3. Nat \subseteq S
  <2> HIDE DEF S
  <2> QED
    BY <1>1, <1>2, Induction
<1>4. k \in Nat /\ k <= Len(q)
  BY <1>0
<1> QED
  BY <1>3, <1>4

\* Each event's cells follow those of the events before it.
LEMMA EncodeContents ==
  ASSUME NEW q \in Seq(Events)
  PROVE  /\ Encode(q) \in Seq(Cell)
         /\ Len(Encode(q)) = Cells(q, Len(q))
         /\ \A j \in 1..Len(q) : \A i \in 1..(Base + Padded(q[j].name)) :
              Encode(q)[Cells(q, j - 1) + i] = Encoded(q[j])[i]
<1>0. Base \in Nat /\ Base > 0 /\ Len(q) \in Nat
  BY SizesAssumption
<1> DEFINE E(k) == Encode(SubSeq(q, 1, k))
           Holds(k) ==
             /\ Len(E(k)) = Cells(q, k)
             /\ \A j \in 1..k : \A i \in 1..(Base + Padded(q[j].name)) :
                  E(k)[Cells(q, j - 1) + i] = Encoded(q[j])[i]
           S == {k \in Nat : k <= Len(q) => Holds(k)}
<1>1. E(0) = <<>>
  BY EncodeRecursion
<1>2. \A k \in 0..Len(q) : E(k) \in Seq(Cell)
  BY EncodeRecursion
<1>3. \A k \in 1..Len(q) : E(k) = E(k - 1) \o Encoded(q[k])
  BY EncodeRecursion
<1> HIDE DEF E
<1>4. 0 \in S
  <2>1. Len(E(0)) = 0
    BY <1>1
  <2> QED
    BY <2>1, Starts
<1>5. ASSUME NEW k \in Nat, k \in S PROVE k + 1 \in S
  <2> SUFFICES ASSUME k + 1 <= Len(q) PROVE Holds(k + 1)
    OBVIOUS
  <2>1. Holds(k)
    BY <1>0, <1>5
  <2>2. k + 1 \in 1..Len(q) /\ (k + 1) - 1 = k /\ k \in 0..Len(q)
    BY <1>0
  <2> DEFINE e == q[k + 1]
             p == Padded(e.name)
  <2>3. /\ Encoded(e) \in Seq(Cell) /\ Len(Encoded(e)) = Base + p /\ p \in Nat
        /\ Cells(q, k + 1) = Cells(q, k) + Base + p
        /\ Cells(q, k) \in Nat
    <3>1. e \in Events
      BY <2>2
    <3> QED
      BY <2>2, <3>1, EncodedCells, Starts
  <2>4. E(k + 1) = E(k) \o Encoded(e) /\ E(k) \in Seq(Cell)
    BY <1>2, <1>3, <2>2
  <2> HIDE DEF e, p
  <2>5. Len(E(k + 1)) = Len(E(k)) + (Base + p)
    BY <2>3, <2>4, ConcatProperties
  <2>6. \A i \in 1..(Cells(q, k) + (Base + p)) :
          E(k + 1)[i] = IF i <= Cells(q, k) THEN E(k)[i] ELSE Encoded(e)[i - Cells(q, k)]
    BY <2>1, <2>3, <2>4, ConcatProperties
  <2>7. ASSUME NEW j \in 1..k, NEW i \in 1..(Base + Padded(q[j].name))
        PROVE  E(k + 1)[Cells(q, j - 1) + i] = Encoded(q[j])[i]
    <3>1. j \in 1..Len(q) /\ j - 1 \in 0..Len(q) /\ j \in 0..k
      BY <1>0, <2>2
    <3>2. /\ Padded(q[j].name) \in Nat /\ Cells(q, j - 1) \in Nat
          /\ Cells(q, j) = Cells(q, j - 1) + Base + Padded(q[j].name)
      BY <3>1, Starts
    <3>3. Cells(q, j) <= Cells(q, k)
      BY <2>2, <3>1, StartsGrow
    <3>4. i \in Nat /\ 1 <= i /\ i <= Base + Padded(q[j].name)
      BY <1>0, <3>2
    <3>5. Cells(q, j - 1) + i \in Nat /\ Cells(q, j - 1) + i <= Cells(q, j)
      BY <1>0, <3>2, <3>4
    <3>6. Cells(q, j) \in Nat
      BY <1>0, <3>2
    <3>7. Cells(q, k) \in Nat /\ Base + p \in Nat
      BY <1>0, <2>3
    <3>8. Cells(q, j - 1) + i <= Cells(q, k)
      BY <3>3, <3>5, <3>6, <3>7
    <3>9. Cells(q, j - 1) + i >= 1
      BY <3>2, <3>4
    <3>10. Cells(q, j - 1) + i \in 1..(Cells(q, k) + (Base + p))
      BY <3>5, <3>7, <3>8, <3>9
    <3> QED
      BY <2>1, <2>6, <3>8, <3>10
  <2>8. ASSUME NEW i \in 1..(Base + p)
        PROVE  E(k + 1)[Cells(q, k) + i] = Encoded(e)[i]
    <3>1. /\ Cells(q, k) + i \in 1..(Cells(q, k) + (Base + p))
          /\ ~(Cells(q, k) + i <= Cells(q, k)) /\ (Cells(q, k) + i) - Cells(q, k) = i
      BY <1>0, <2>3
    <3> QED
      BY <2>6, <3>1
  <2>9. Len(E(k + 1)) = Cells(q, k + 1)
    BY <1>0, <2>1, <2>3, <2>5
  <2>10. ASSUME NEW j \in 1..(k + 1), NEW i \in 1..(Base + Padded(q[j].name))
         PROVE  E(k + 1)[Cells(q, j - 1) + i] = Encoded(q[j])[i]
    <3>1. CASE j = k + 1
      BY <2>2, <2>8, <3>1 DEF e, p
    <3>2. CASE j \in 1..k
      BY <2>7, <3>2
    <3> QED
      BY <3>1, <3>2
  <2> QED
    BY <2>9, <2>10
<1>6. Nat \subseteq S
  <2> HIDE DEF S
  <2> QED
    BY <1>4, <1>5, Induction
<1>7. Holds(Len(q))
  BY <1>0, <1>6
<1>8. E(Len(q)) = Encode(q)
  BY SubSeqFull DEF E
<1>9. E(Len(q)) \in Seq(Cell)
  BY <1>0, <1>2
<1> QED
  BY <1>7, <1>8, <1>9
-----------------------------------------------------------------------------
(* decode_events.                                                           *)

LEMMA Division ==
  ASSUME NEW a \in Nat, NEW b \in Nat, b > 0
  PROVE  a \div b \in Nat /\ \A m \in Nat : m * b <= a => m <= a \div b
<1>1. a \div b \in Nat /\ a < (a \div b) * b + b
  OBVIOUS
<1>2. ASSUME NEW m \in Nat, NEW d \in Nat, m * b <= a, a < d * b + b, d < m PROVE FALSE
  <2>1. m * b >= (d + 1) * b /\ (d + 1) * b = d * b + b
    BY <1>2
  <2>2. m * b \in Nat /\ d * b \in Nat
    OBVIOUS
  <2> QED
    BY <1>2, <2>1, <2>2
<1> QED
  BY <1>1, <1>2

LEMMA MinIsLeast ==
  ASSUME NEW S \in SUBSET Nat, NEW x \in S, \A y \in S : x <= y
  PROVE  Min(S) = x
<1>1. Min(S) \in S /\ \A y \in S : Min(S) <= y
  BY Zenon DEF Min
<1>2. Min(S) <= x /\ x <= Min(S) /\ x \in Nat /\ Min(S) \in Nat
  BY <1>1
<1> QED
  BY <1>2

\* The zeros after a name are no part of it.
LEMMA UnpaddedName ==
  ASSUME NEW n \in Seq(Nat \ {0}), NEW s, DOMAIN s = 1..Padded(n), Len(s) = Padded(n),
         \A i \in 1..Padded(n) : s[i] = IF i <= Len(n) THEN n[i] ELSE 0
  PROVE  Unpadded(s) = n
<1> DEFINE M == {i - 1 : i \in {j \in DOMAIN s : s[j] = 0}} \cup {Len(s)}
<1>1. /\ Padded(n) \in Nat /\ Len(n) \in Nat /\ Padded(n) >= Len(n)
      /\ n = <<>> => Padded(n) = 0
      /\ n # <<>> => Padded(n) > Len(n)
  BY Padding
<1>2. ASSUME NEW j \in DOMAIN s, s[j] = 0 PROVE j \in Nat /\ j - 1 \in Nat /\ Len(n) <= j - 1
  <2>1. j \in 1..Padded(n)
    OBVIOUS
  <2>2. ~(j <= Len(n))
    <3> SUFFICES ASSUME j <= Len(n) PROVE FALSE
      OBVIOUS
    <3>1. n[j] \in Nat \ {0} /\ s[j] = n[j]
      BY <1>1, <2>1
    <3> QED
      BY <1>2, <3>1
  <2> QED
    BY <1>1, <2>1, <2>2
<1>3. M \in SUBSET Nat /\ \A y \in M : Len(n) <= y
  BY <1>1, <1>2
<1>4. Len(n) \in M
  <2>1. CASE n = <<>>
    <3>1. Len(n) = 0 /\ Len(s) = 0
      BY <1>1, <2>1
    <3> QED
      BY <3>1
  <2>2. CASE n # <<>>
    <3>1. Len(n) + 1 \in DOMAIN s /\ s[Len(n) + 1] = 0 /\ (Len(n) + 1) - 1 = Len(n)
      BY <1>1, <2>2
    <3> QED
      BY <3>1
  <2> QED
    BY <2>1, <2>2
<1>5. Min(M) = Len(n)
  <2> HIDE DEF M
  <2> QED
    BY <1>3, <1>4, MinIsLeast
<1>6. Unpadded(s) = SubSeq(s, 1, Len(n))
  BY <1>5, Zenon DEF Unpadded
<1>7. \A i \in 1..Len(n) : s[i] = n[i] /\ s[i] \in Nat \ {0}
  BY <1>1
<1>8. /\ SubSeq(s, 1, Len(n)) \in Seq(Nat \ {0})
      /\ Len(SubSeq(s, 1, Len(n))) = Len(n)
      /\ \A i \in 1..Len(n) : SubSeq(s, 1, Len(n))[i] = s[i]
  BY <1>1, <1>7, SubSeqProperties
<1>9. SubSeq(s, 1, Len(n)) = n
  BY <1>7, <1>8, SeqEqual
<1> QED
  BY <1>6, <1>9

\* The recursion of Decode up to n.
Turns(buf, n, f) ==
  f = [i \in 0..n |-> IF i = 0 THEN [offset |-> 0, events |-> <<>>]
                       ELSE DecodeStep(buf, f[i - 1])]

LEMMA DecodeIsTurns ==
  ASSUME NEW buf
  PROVE  Decode(buf) = (CHOOSE f : Turns(buf, Len(buf) \div Base, f))[Len(buf) \div Base].events
  BY Zenon DEF Decode, Turns

LEMMA TurnsAgree ==
  ASSUME NEW buf, NEW n \in Nat, NEW f, NEW g, Turns(buf, n, f), Turns(buf, n, g)
  PROVE  f[n] = g[n]
<1>1. f[0] = g[0]
  BY DEF Turns
<1>2. \A i \in 1..n : f[i - 1] = g[i - 1] => f[i] = g[i]
  BY DEF Turns
<1>3. \A i \in 0..n : f[i] = g[i]
  BY <1>1, <1>2, SameRecursion
<1> QED
  BY <1>3

LEMMA DecodeAlong ==
  ASSUME NEW buf, NEW n \in Nat, Len(buf) \div Base = n, NEW g, Turns(buf, n, g)
  PROVE  Decode(buf) = g[n].events
<1> DEFINE c == CHOOSE f : Turns(buf, n, f)
<1>1. Turns(buf, n, c)
  OBVIOUS
<1>2. Decode(buf) = c[n].events
  BY DecodeIsTurns
<1> HIDE DEF c
<1> QED
  BY <1>1, <1>2, TurnsAgree

-----------------------------------------------------------------------------
(* What the caller is told: an event each, whatever from_utf8_lossy does.   *)

LEMMA ToldFields ==
  ASSUME NEW e \in Events
  PROVE  Told(e) \in ToldEvents /\ Told(e).id = e.id
BY DEF Events, Told, ToldEvents

LEMMA AllToldProperties ==
  ASSUME NEW q \in Seq(Events)
  PROVE  /\ AllTold(q) \in Seq(ToldEvents) /\ Len(AllTold(q)) = Len(q)
         /\ DOMAIN AllTold(q) = 1..Len(q)
         /\ \A i \in 1..Len(q) : AllTold(q)[i] = Told(q[i])
<1>1. /\ Len(q) \in Nat /\ DOMAIN q = 1..Len(q)
      /\ \A i \in 1..Len(q) : Told(q[i]) \in ToldEvents
  BY ToldFields
<1> QED
  BY <1>1 DEF AllTold

LEMMA AllToldConcat ==
  ASSUME NEW a \in Seq(Events), NEW b \in Seq(Events)
  PROVE  AllTold(a \o b) = AllTold(a) \o AllTold(b)
<1>1. /\ a \o b \in Seq(Events) /\ Len(a \o b) = Len(a) + Len(b)
      /\ Len(a) \in Nat /\ Len(b) \in Nat
      /\ \A i \in 1..(Len(a) + Len(b)) :
           (a \o b)[i] = IF i <= Len(a) THEN a[i] ELSE b[i - Len(a)]
  BY ConcatProperties
<1> DEFINE c == a \o b
           t == AllTold(a) \o AllTold(b)
<1>2. /\ AllTold(c) \in Seq(ToldEvents) /\ Len(AllTold(c)) = Len(a) + Len(b)
      /\ \A i \in 1..(Len(a) + Len(b)) : AllTold(c)[i] = Told(c[i])
  <2> HIDE DEF c
  <2>1. c \in Seq(Events) /\ Len(c) = Len(a) + Len(b)
    BY <1>1 DEF c
  <2> QED
    BY <2>1, AllToldProperties
<1>3. /\ AllTold(a) \in Seq(ToldEvents) /\ Len(AllTold(a)) = Len(a)
      /\ AllTold(b) \in Seq(ToldEvents) /\ Len(AllTold(b)) = Len(b)
      /\ \A i \in 1..Len(a) : AllTold(a)[i] = Told(a[i])
      /\ \A i \in 1..Len(b) : AllTold(b)[i] = Told(b[i])
  BY AllToldProperties
<1>4. /\ t \in Seq(ToldEvents) /\ Len(t) = Len(a) + Len(b)
      /\ \A i \in 1..(Len(a) + Len(b)) :
           t[i] = IF i <= Len(a) THEN AllTold(a)[i] ELSE AllTold(b)[i - Len(a)]
  <2>1. PICK u \in Seq(ToldEvents) : u = AllTold(a)
    BY <1>3
  <2>2. PICK v \in Seq(ToldEvents) : v = AllTold(b)
    BY <1>3
  <2>3. /\ u \o v \in Seq(ToldEvents) /\ Len(u \o v) = Len(u) + Len(v)
        /\ \A i \in 1..(Len(u) + Len(v)) :
             (u \o v)[i] = IF i <= Len(u) THEN u[i] ELSE v[i - Len(u)]
    BY ConcatProperties
  <2> QED
    BY <1>3, <2>1, <2>2, <2>3
<1>5. ASSUME NEW i \in 1..(Len(a) + Len(b)) PROVE AllTold(c)[i] = t[i]
  <2>1. CASE i <= Len(a)
    <3>1. i \in 1..Len(a) /\ c[i] = a[i]
      BY <1>1, <2>1
    <3> HIDE DEF c, t
    <3> QED
      BY <1>2, <1>3, <1>4, <2>1, <3>1
  <2>2. CASE i > Len(a)
    <3>1. PICK j \in 1..Len(b) : j = i - Len(a)
      BY <1>1, <2>2
    <3>2. ~(i <= Len(a)) /\ c[i] = b[j]
      BY <1>1, <2>2, <3>1
    <3>3. t[i] = AllTold(b)[j]
      <4> HIDE DEF t
      <4> QED
        BY <1>4, <3>1, <3>2
    <3>4. AllTold(c)[i] = Told(c[i])
      BY <1>2
    <3>5. AllTold(b)[j] = Told(b[j])
      BY <1>3
    <3> QED
      BY <3>2, <3>3, <3>4, <3>5, Zenon
  <2>3. i <= Len(a) \/ i > Len(a)
    BY <1>1
  <2> QED
    BY <2>1, <2>2, <2>3, Zenon
<1> HIDE DEF c, t
<1>6. AllTold(c) = t
  <2>1. PICK u \in Seq(ToldEvents) : u = AllTold(c)
    BY <1>2
  <2>2. Len(u) = Len(t) /\ \A i \in 1..Len(u) : u[i] = t[i]
    BY <1>2, <1>4, <1>5, <2>1
  <2> QED
    BY <1>4, <2>1, <2>2, SeqEqual
<1> QED
  BY <1>6 DEF c, t

LEMMA AllToldAppend ==
  ASSUME NEW q \in Seq(Events), NEW e \in Events
  PROVE  AllTold(Append(q, e)) = Append(AllTold(q), Told(e))
<1>1. <<e>> \in Seq(Events) /\ Append(q, e) = q \o <<e>>
  BY AppendIsConcat
<1>2. AllTold(<<e>>) = <<Told(e)>>
  BY DEF AllTold
<1>3. Append(AllTold(q), Told(e)) = AllTold(q) \o <<Told(e)>>
  BY AllToldProperties, ToldFields, AppendIsConcat
<1> QED
  BY <1>1, <1>2, <1>3, AllToldConcat

\* The loop's variables when k events are decoded.
Decoded(q, k) == [offset |-> Cells(q, k), events |-> AllTold(SubSeq(q, 1, k))]

LEMMA Slice ==
  ASSUME NEW S, NEW s, NEW a \in Int, NEW b \in Int, NEW p \in Nat, b - a + 1 = p,
         \A i \in a..b : s[i] \in S
  PROVE  /\ DOMAIN SubSeq(s, a, b) = 1..p /\ Len(SubSeq(s, a, b)) = p
         /\ \A i \in 1..p : SubSeq(s, a, b)[i] = s[a + i - 1]
<1>1. /\ SubSeq(s, a, b) \in Seq(S)
      /\ Len(SubSeq(s, a, b)) = IF a <= b THEN b - a + 1 ELSE 0
      /\ \A i \in 1..(b - a + 1) : SubSeq(s, a, b)[i] = s[a + i - 1]
  BY SubSeqProperties
<1>2. Len(SubSeq(s, a, b)) = p
  BY <1>1
<1>3. DOMAIN SubSeq(s, a, b) = 1..p
  BY <1>1, <1>2, LenProperties
<1> QED
  BY <1>1, <1>2, <1>3

\* What a cut stream holds of its k-th event.
LEMMA CutStream ==
  ASSUME NEW q \in Seq(Events), NEW l \in 0..Len(Encode(q)), NEW buf,
         Len(buf) = l, \A i \in 1..l : buf[i] = Encode(q)[i], NEW k \in 1..Len(q)
  PROVE  /\ Cells(q, k - 1) + Base <= l =>
              buf[Cells(q, k - 1) + 1] = [id |-> q[k].id, mask |-> q[k].mask,
                                          len |-> Padded(q[k].name)]
         /\ Cells(q, k) <= l =>
              Unpadded(SubSeq(buf, Cells(q, k - 1) + Base + 1, Cells(q, k))) = q[k].name
<1>0. Base \in Nat /\ Base > 0 /\ Len(q) \in Nat /\ q[k] \in Events
  BY SizesAssumption
<1>1. Encode(q) \in Seq(Cell) /\ Len(Encode(q)) \in Nat
  BY EncodeContents
<1>2. \A i \in 1..l : buf[i] = Encode(q)[i] /\ buf[i] \in Cell
  BY <1>1
<1> DEFINE c == Cells(q, k - 1)
           name == q[k].name
           p == Padded(name)
           h == [id |-> q[k].id, mask |-> q[k].mask, len |-> p]
<1>3. c \in Nat /\ p \in Nat /\ Cells(q, k) = c + Base + p
  <2>1. k \in 1..Len(q) /\ k - 1 \in 0..Len(q)
    BY <1>0
  <2> QED
    BY <2>1, Starts
<1>4. name \in Seq(Nat \ {0})
  BY <1>0, EventFields
<1>5. /\ Encoded(q[k])[1] = h
      /\ \A i \in 1..p : Encoded(q[k])[Base + i] = IF i <= Len(name) THEN name[i] ELSE 0
  BY <1>0, EncodedCells
<1>6. \A i \in 1..(Base + p) : Encode(q)[c + i] = Encoded(q[k])[i]
  BY EncodeContents
<1> HIDE DEF c, name, p, h
<1>7. ASSUME c + Base <= l PROVE buf[c + 1] = h
  <2>1. 1 \in 1..(Base + p) /\ c + 1 \in 1..l
    BY <1>0, <1>3, <1>7
  <2>2. Encode(q)[c + 1] = Encoded(q[k])[1]
    BY <1>6, <2>1
  <2> QED
    BY <1>2, <1>5, <2>1, <2>2
<1>8. ASSUME Cells(q, k) <= l
      PROVE  Unpadded(SubSeq(buf, c + Base + 1, Cells(q, k))) = name
  <2> DEFINE s == SubSeq(buf, c + Base + 1, Cells(q, k))
  <2>0. /\ c + Base + 1 \in Int /\ Cells(q, k) \in Int
        /\ Cells(q, k) - (c + Base + 1) + 1 = p
        /\ IF c + Base + 1 <= Cells(q, k) THEN p > 0 ELSE p = 0
    BY <1>0, <1>3
  <2>1. \A i \in (c + Base + 1)..Cells(q, k) : buf[i] \in Cell
    BY <1>0, <1>2, <1>3, <1>8
  <2>2. /\ DOMAIN s = 1..p /\ Len(s) = p
        /\ \A i \in 1..p : s[i] = buf[(c + Base + 1) + i - 1]
    BY <1>3, <2>0, <2>1, Slice
  <2>4. ASSUME NEW i \in 1..p
        PROVE  s[i] = IF i <= Len(name) THEN name[i] ELSE 0
    <3>1. s[i] = buf[(c + Base + 1) + i - 1]
      BY <2>2
    <3>2. /\ (c + Base + 1) + i - 1 = c + (Base + i) /\ c + (Base + i) \in 1..l
          /\ Base + i \in 1..(Base + p)
      BY <1>0, <1>3, <1>8
    <3>3. buf[c + (Base + i)] = Encoded(q[k])[Base + i]
      BY <1>2, <1>6, <3>2
    <3> QED
      BY <1>5, <3>1, <3>2, <3>3
  <2> HIDE DEF s
  <2>5. Unpadded(s) = name
    BY <1>4, <2>2, <2>4, UnpaddedName DEF p
  <2> QED
    BY <2>5 DEF s
<1> QED
  BY <1>2, <1>7, <1>8 DEF c, name, p, h

\* One turn decodes the next event if it is whole, and stops otherwise.
LEMMA TurnDecodes ==
  ASSUME NEW q \in Seq(Events), NEW l \in 0..Len(Encode(q)), NEW buf,
         Len(buf) = l, \A i \in 1..l : buf[i] = Encode(q)[i], NEW k \in 1..Len(q)
  PROVE  DecodeStep(buf, Decoded(q, k - 1)) =
           IF Cells(q, k) <= l THEN Decoded(q, k) ELSE Decoded(q, k - 1)
<1> DEFINE c == Cells(q, k - 1)
           s == Decoded(q, k - 1)
           h == [id |-> q[k].id, mask |-> q[k].mask, len |-> Padded(q[k].name)]
<1>0. Base \in Nat /\ Base > 0 /\ Len(q) \in Nat /\ q[k] \in Events /\ l \in Nat
  <2>1. Len(Encode(q)) \in Nat
    BY EncodeContents
  <2> QED
    BY <2>1, SizesAssumption
<1>1. c \in Nat /\ Padded(q[k].name) \in Nat /\ Cells(q, k) = c + Base + Padded(q[k].name)
  <2>1. k \in 1..Len(q) /\ k - 1 \in 0..Len(q)
    BY <1>0
  <2> QED
    BY <2>1, Starts
<1>2. s.offset = c /\ s.events = AllTold(SubSeq(q, 1, k - 1))
  BY DEF Decoded
<1>3. /\ Len(buf) = l
      /\ c + Base <= l => buf[c + 1] = h
      /\ Cells(q, k) <= l =>
           Unpadded(SubSeq(buf, c + Base + 1, Cells(q, k))) = q[k].name
  BY CutStream
<1> HIDE DEF c, s
<1>4. CASE c + Base > l
  <2>1. DecodeStep(buf, s) = s
    BY <1>2, <1>3, <1>4 DEF DecodeStep
  <2>2. ~(Cells(q, k) <= l)
    BY <1>0, <1>1, <1>4
  <2> QED
    BY <2>1, <2>2 DEF s
<1>5. CASE c + Base <= l
  <2>1. ~(s.offset + Base > Len(buf)) /\ buf[s.offset + 1] = h
    BY <1>0, <1>1, <1>2, <1>3, <1>5
  <2>2. s.offset + Base + h.len = Cells(q, k)
    BY <1>1, <1>2
  <2>3. DecodeStep(buf, s) =
          IF Cells(q, k) > l THEN s
          ELSE [offset |-> Cells(q, k),
                events |-> Append(s.events,
                             Event(h, SubSeq(buf, s.offset + Base + 1, Cells(q, k))))]
    <3> HIDE DEF h
    <3> QED
      BY <1>3, <2>1, <2>2, Zenon DEF DecodeStep
  <2>4. CASE Cells(q, k) > l
    BY <1>0, <1>1, <2>3, <2>4 DEF s
  <2>5. CASE Cells(q, k) <= l
    <3>1. Event(h, SubSeq(buf, s.offset + Base + 1, Cells(q, k))) = Told(q[k])
      <4>1. Unpadded(SubSeq(buf, s.offset + Base + 1, Cells(q, k))) = q[k].name
        BY <1>2, <1>3, <2>5
      <4>2. Padded(q[k].name) > 0 <=> q[k].name # <<>>
        <5>1. q[k].name \in Seq(Nat \ {0}) /\ Len(q[k].name) \in Nat
          BY <1>0, EventFields
        <5> QED
          BY <1>1, <5>1, Padding
      <4> QED
        BY <4>1, <4>2 DEF Event, Told
    <3>2. Append(s.events, Told(q[k])) = AllTold(SubSeq(q, 1, k))
      <4>1. 1 \in 1..Len(q) /\ k \in 1..Len(q)
        BY <1>0
      <4>2. SubSeq(q, 1, k) = SubSeq(q, 1, k - 1) \o <<q[k]>>
        BY <4>1, SubSeqRecursiveSecond
      <4>3. SubSeq(q, 1, k - 1) \in Seq(Events)
        <5>1. \A i \in 1..(k - 1) : q[i] \in Events
          BY <1>0
        <5> QED
          BY <1>0, <5>1, SubSeqProperties
      <4>4. Append(SubSeq(q, 1, k - 1), q[k]) = SubSeq(q, 1, k - 1) \o <<q[k]>>
        BY <1>0, <4>3, AppendIsConcat
      <4>5. AllTold(Append(SubSeq(q, 1, k - 1), q[k])) =
              Append(AllTold(SubSeq(q, 1, k - 1)), Told(q[k]))
        BY <1>0, <4>3, AllToldAppend
      <4> QED
        BY <1>2, <4>2, <4>4, <4>5
    <3>3. ~(Cells(q, k) > l)
      BY <1>0, <1>1, <2>5
    <3>4. DecodeStep(buf, s) = Decoded(q, k)
      BY <2>3, <3>1, <3>2, <3>3 DEF Decoded
    <3> QED
      BY <2>5, <3>4 DEF s
  <2> QED
    BY <1>0, <1>1, <2>4, <2>5
<1> QED
  BY <1>0, <1>1, <1>4, <1>5
\* The events of a queue that l cells hold whole are its first ones.
LEMMA FittingIs ==
  ASSUME NEW q \in Seq(Events), NEW l \in Nat
  PROVE  \E m \in 0..Len(q) :
           /\ Fitting(q, l) = SubSeq(q, 1, m)
           /\ Cells(q, m) <= l
           /\ \A k \in 0..Len(q) : Cells(q, k) <= l => k <= m
<1> DEFINE K == {k \in 0..Len(q) : Cells(q, k) <= l}
<1>1. Len(q) \in Nat
  OBVIOUS
<1>2. 0 \in K
  <2>1. Cells(q, 0) = 0 /\ 0 \in 0..Len(q)
    BY <1>1, Starts
  <2> QED
    BY <2>1
<1>3. K \in SUBSET Nat /\ \A k \in K : k <= Len(q)
  BY <1>1
<1>4. Max(K) \in K /\ \A k \in K : k <= Max(K)
  <2> HIDE DEF K
  <2> QED
    BY <1>1, <1>2, <1>3, MaxIsGreatest
<1>5. Fitting(q, l) = SubSeq(q, 1, Max(K))
  BY Zenon DEF Fitting
<1> QED
  BY <1>4, <1>5

\* decode_events returns the whole events of a packed stream that is cut at l, in
\* their order, and nothing of the one that is cut.  Each has the String that
\* from_utf8_lossy makes of its own name without the padding, whatever String that is.
THEOREM DecodeCut ==
  ASSUME NEW q \in Seq(Events), NEW l \in 0..Len(Encode(q))
  PROVE  Decode(SubSeq(Encode(q), 1, l)) = AllTold(Fitting(q, l))
<1>0. Base \in Nat /\ Base > 0 /\ Len(q) \in Nat /\ l \in Nat /\ l <= Cells(q, Len(q))
  <2>1. Len(Encode(q)) \in Nat /\ Len(Encode(q)) = Cells(q, Len(q))
    BY EncodeContents
  <2> QED
    BY <2>1, SizesAssumption
<1>1. PICK m \in 0..Len(q) :
        /\ Fitting(q, l) = SubSeq(q, 1, m)
        /\ Cells(q, m) <= l
        /\ \A k \in 0..Len(q) : Cells(q, k) <= l => k <= m
  BY <1>0, FittingIs
<1>2. PICK buf : buf = SubSeq(Encode(q), 1, l)
  OBVIOUS
<1>3. Len(buf) = l /\ \A i \in 1..l : buf[i] = Encode(q)[i]
  <2>1. Encode(q) \in Seq(Cell) /\ Len(Encode(q)) \in Nat
    BY EncodeContents
  <2>2. \A i \in 1..l : Encode(q)[i] \in Cell
    BY <2>1
  <2> QED
    BY <1>0, <1>2, <2>2, SubSeqProperties
<1>4. ASSUME NEW k \in 1..Len(q)
      PROVE  DecodeStep(buf, Decoded(q, k - 1)) =
               IF Cells(q, k) <= l THEN Decoded(q, k) ELSE Decoded(q, k - 1)
  BY <1>3, TurnDecodes
<1>5. PICK n \in Nat : n = l \div Base /\ m <= n
  <2>1. m * Base <= Cells(q, m) /\ Cells(q, m) \in Nat
    BY StartsGrow, Starts
  <2>2. m * Base <= l /\ m \in Nat /\ m * Base \in Nat
    BY <1>0, <1>1, <2>1
  <2> QED
    BY <1>0, <2>2, Division
<1> DEFINE upto(i) == IF i <= m THEN i ELSE m
           g == [i \in 0..n |-> Decoded(q, upto(i))]
<1>6. g[0] = [offset |-> 0, events |-> <<>>]
  <2>1. g[0] = Decoded(q, 0)
    OBVIOUS
  <2>2. Cells(q, 0) = 0 /\ SubSeq(q, 1, 0) = <<>>
    BY Starts, SubSeqEmpty
  <2>3. AllTold(<<>>) = <<>>
    BY DEF AllTold
  <2> QED
    BY <2>1, <2>2, <2>3 DEF Decoded
<1>7. ASSUME NEW i \in 1..n PROVE g[i] = DecodeStep(buf, g[i - 1])
  <2>0. i - 1 \in 0..n /\ g[i - 1] = Decoded(q, upto(i - 1)) /\ g[i] = Decoded(q, upto(i))
    OBVIOUS
  <2>1. CASE i <= m
    <3>1. i \in 1..Len(q) /\ i \in 0..m /\ upto(i) = i /\ upto(i - 1) = i - 1
      BY <1>0, <2>1
    <3>2. Cells(q, i) <= l
      <4>1. Cells(q, i) <= Cells(q, m) /\ Cells(q, i) \in Nat /\ Cells(q, m) \in Nat
        BY <1>0, <3>1, StartsGrow, Starts
      <4> QED
        BY <1>0, <1>1, <4>1
    <3>3. DecodeStep(buf, Decoded(q, i - 1)) = Decoded(q, i)
      BY <1>4, <3>1, <3>2
    <3> HIDE DEF g, upto
    <3> QED
      BY <2>0, <3>1, <3>3
  <2>2. CASE i > m /\ m < Len(q)
    <3>1. m + 1 \in 1..Len(q) /\ (m + 1) - 1 = m /\ upto(i) = m /\ upto(i - 1) = m
      BY <1>0, <2>2
    <3>2. ~(Cells(q, m + 1) <= l)
      BY <1>0, <1>1, <3>1
    <3>3. DecodeStep(buf, Decoded(q, m)) = Decoded(q, m)
      BY <1>4, <3>1, <3>2
    <3> HIDE DEF g, upto
    <3> QED
      BY <2>0, <3>1, <3>3
  <2>3. CASE i > m /\ m = Len(q)
    <3>1. upto(i) = m /\ upto(i - 1) = m
      BY <1>0, <2>3
    <3>2. Cells(q, m) \in Nat /\ Cells(q, m) = l
      BY <1>0, <1>1, <2>3, Starts
    <3>3. DecodeStep(buf, Decoded(q, m)) = Decoded(q, m)
      BY <1>0, <1>3, <3>2 DEF DecodeStep, Decoded
    <3> HIDE DEF g, upto
    <3> QED
      BY <2>0, <3>1, <3>3
  <2> QED
    BY <1>0, <2>1, <2>2, <2>3
<1>8. Turns(buf, n, g)
  <2>1. g = [i \in 0..n |-> g[i]]
    OBVIOUS
  <2> HIDE DEF g
  <2>2. \A i \in 0..n : g[i] = IF i = 0 THEN [offset |-> 0, events |-> <<>>]
                                 ELSE DecodeStep(buf, g[i - 1])
    BY <1>6, <1>7
  <2> QED
    BY <2>1, <2>2, Zenon DEF Turns
<1>9. Decode(buf) = g[n].events
  <2> HIDE DEF g
  <2> QED
    BY <1>3, <1>5, <1>8, DecodeAlong
<1>10. g[n] = Decoded(q, m)
  BY <1>5
<1> QED
  BY <1>1, <1>2, <1>9, <1>10 DEF Decoded

\* What one read(2) returns comes out of decode_events as it was queued.
LEMMA FittingDecodes ==
  ASSUME NEW q \in Seq(Events), NEW l \in Nat
  PROVE  /\ Fitting(q, l) \in Seq(Events)
         /\ Len(Fitting(q, l)) \in 0..Len(q)
         /\ Fitting(q, l) = SubSeq(q, 1, Len(Fitting(q, l)))
         /\ Decode(Encode(Fitting(q, l))) = AllTold(Fitting(q, l))
<1>1. PICK m \in 0..Len(q) : Fitting(q, l) = SubSeq(q, 1, m)
  BY FittingIs
<1> DEFINE f == SubSeq(q, 1, m)
<1>2. f \in Seq(Events) /\ Len(f) = m
  <2>1. \A i \in 1..m : q[i] \in Events
    OBVIOUS
  <2> QED
    BY <2>1, SubSeqProperties
<1> HIDE DEF f
<1>3. Encode(f) \in Seq(Cell) /\ Len(Encode(f)) \in Nat /\ Len(Encode(f)) = Cells(f, Len(f))
  BY <1>2, EncodeContents
<1>4. SubSeq(Encode(f), 1, Len(Encode(f))) = Encode(f)
  BY <1>3, SubSeqFull
<1>5. Decode(Encode(f)) = AllTold(Fitting(f, Len(Encode(f))))
  <2>1. Len(Encode(f)) \in 0..Len(Encode(f))
    BY <1>3
  <2>2. Decode(SubSeq(Encode(f), 1, Len(Encode(f)))) = AllTold(Fitting(f, Len(Encode(f))))
    BY <1>2, <2>1, DecodeCut
  <2> QED
    BY <1>4, <2>2
<1>6. Fitting(f, Len(Encode(f))) = f
  <2>1. PICK n \in 0..Len(f) :
          /\ Fitting(f, Len(Encode(f))) = SubSeq(f, 1, n)
          /\ \A k \in 0..Len(f) : Cells(f, k) <= Len(Encode(f)) => k <= n
    BY <1>2, <1>3, FittingIs
  <2>2. n = Len(f)
    BY <1>2, <1>3, <2>1
  <2> QED
    BY <1>2, <2>1, <2>2, SubSeqFull
<1> QED
  BY <1>1, <1>2, <1>5, <1>6 DEF f

\* The same for Prefixes, as TruncationIgnored has it.
LEMMA PrefixesDecode ==
  ASSUME NEW q \in Seq(Events)
  PROVE  \A buf \in Prefixes(Encode(q)) : Decode(buf) = AllTold(Fitting(q, Len(buf)))
<1>1. Encode(q) \in Seq(Cell) /\ Len(Encode(q)) \in Nat
  BY EncodeContents
<1>2. ASSUME NEW l \in 0..Len(Encode(q))
      PROVE  Decode(SubSeq(Encode(q), 1, l)) =
               AllTold(Fitting(q, Len(SubSeq(Encode(q), 1, l))))
  <2>1. Decode(SubSeq(Encode(q), 1, l)) = AllTold(Fitting(q, l))
    BY DecodeCut
  <2>2. \A i \in 1..l : Encode(q)[i] \in Cell
    BY <1>1
  <2>3. Len(SubSeq(Encode(q), 1, l)) = l
    BY <1>1, <2>2, SubSeqProperties
  <2> QED
    BY <2>1, <2>3
<1> QED
  BY <1>2 DEF Prefixes
=============================================================================

--------------------------- MODULE SequenceLemmas ---------------------------
(***************************************************************************)
(* What the theorems about the data paths need of sequences: induction on  *)
(* the natural numbers, stated for a set of them instead of a predicate,   *)
(* and the concatenation of a sequence of sequences.                       *)
(***************************************************************************)
EXTENDS Integers, SequencesExt, SequenceTheorems, WellFoundedInduction, TLAPS

-----------------------------------------------------------------------------
(* The order of the natural numbers, as a relation.                        *)
Less == {ss \in Nat \X Nat : ss[1] < ss[2]}

(* A set of natural numbers that has any has a least one.                  *)
LEMMA Least ==
  ASSUME NEW T \in SUBSET Nat, T # {}
  PROVE  \E n \in T : \A m \in T : n <= m
<1>1. IsWellFoundedOn(Less, Nat)
  BY NatLessThanWellFounded DEF OpToRel, Less
<1>2. PICK n \in T : \A m \in T : ~(<<m, n>> \in Less)
  BY <1>1, WFMin
<1>3. \A m \in T : m \in Nat
  OBVIOUS
<1>4. \A m \in T : ~(m < n)
  BY <1>2, <1>3 DEF Less
<1>5. \A m \in T : n <= m
  BY <1>3, <1>4
<1> QED
  BY <1>5

(* Induction: a set that holds 0 and with each number the next one.        *)
LEMMA Induction ==
  ASSUME NEW T \in SUBSET Nat, 0 \in T, \A n \in T : n + 1 \in T
  PROVE  T = Nat
<1> SUFFICES ASSUME T # Nat PROVE FALSE
  OBVIOUS
<1> DEFINE Rest == Nat \ T
<1>1. PICK n \in Rest : \A m \in Rest : n <= m
  BY Least
<1>2. n # 0 /\ n \in Nat
  BY <1>1
<1>3. n - 1 \in Nat /\ n - 1 \notin Rest
  BY <1>1, <1>2
<1> QED
  BY <1>1, <1>2, <1>3

-----------------------------------------------------------------------------
(* The place of the next number in its division.                           *)
LEMMA Division ==
  ASSUME NEW n \in Nat, NEW d \in Nat \ {0}
  PROVE  /\ n % d \in 0 .. d - 1 /\ n \div d \in Nat /\ n % d <= n
         /\ n = d * (n \div d) + (n % d)
  OBVIOUS

LEMMA DivisionNext ==
  ASSUME NEW n \in Nat, NEW d \in Nat \ {0}
  PROVE  IF (n % d) + 1 = d
           THEN (n + 1) % d = 0 /\ (n + 1) \div d = (n \div d) + 1
           ELSE (n + 1) % d = (n % d) + 1 /\ (n + 1) \div d = n \div d
  OBVIOUS

-----------------------------------------------------------------------------
(* A function on 1 .. n is a sequence of n elements.                       *)
LEMMA FunctionIsSeq ==
  ASSUME NEW S, NEW n \in Nat, NEW f \in [1 .. n -> S]
  PROVE  f \in Seq(S) /\ Len(f) = n
  OBVIOUS

(* The elements of a sequence with one more.                               *)
LEMMA AppendElements ==
  ASSUME NEW S, NEW s \in Seq(S), NEW e \in S
  PROVE  /\ Append(s, e) \in Seq(S) /\ Len(Append(s, e)) = Len(s) + 1
         /\ Append(s, e)[Len(s) + 1] = e /\ Len(s) \in Nat
         /\ \A i \in 1 .. Len(s) : Append(s, e)[i] = s[i]
  OBVIOUS

(* The elements of a concatenation.                                        *)
LEMMA ConcatElements ==
  ASSUME NEW S, NEW s \in Seq(S), NEW t \in Seq(S)
  PROVE  /\ s \o t \in Seq(S) /\ Len(s \o t) = Len(s) + Len(t)
         /\ DOMAIN (s \o t) = 1 .. Len(s) + Len(t)
         /\ \A i \in 1 .. Len(s) : (s \o t)[i] = s[i]
         /\ \A i \in 1 .. Len(t) : (s \o t)[Len(s) + i] = t[i]
         /\ \A i \in 1 .. Len(s) + Len(t) :
              (s \o t)[i] = IF i <= Len(s) THEN s[i] ELSE t[i - Len(s)]
  OBVIOUS

LEMMA ConcatIs ==
  ASSUME NEW S, NEW r \in Seq(S), NEW s \in Seq(S), NEW t \in Seq(S),
         Len(r) = Len(s) + Len(t),
         \A i \in 1 .. Len(s) : r[i] = s[i],
         \A i \in 1 .. Len(t) : r[Len(s) + i] = t[i]
  PROVE  r = s \o t
<1>1. /\ s \o t \in Seq(S) /\ Len(s \o t) = Len(s) + Len(t)
      /\ \A i \in 1 .. Len(s) : (s \o t)[i] = s[i]
      /\ \A i \in 1 .. Len(t) : (s \o t)[Len(s) + i] = t[i]
      /\ Len(s) \in Nat /\ Len(t) \in Nat
  BY ConcatElements
<1>2. ASSUME NEW i \in 1 .. Len(r) PROVE r[i] = (s \o t)[i]
  <2>1. CASE i <= Len(s)
    BY <1>1, <2>1
  <2>2. CASE ~(i <= Len(s))
    <3>1. i - Len(s) \in 1 .. Len(t) /\ Len(s) + (i - Len(s)) = i
      BY <1>1, <2>2
    <3> QED
      BY <1>1, <3>1
  <2> QED
    BY <2>1, <2>2
<1> QED
  BY <1>1, <1>2, SeqEqual

-----------------------------------------------------------------------------
(* Function f is the concatenation of the first i sequences of ss, for     *)
(* each i up to n.                                                         *)
Flattens(ss, n, f) ==
  /\ f = [i \in 1 .. n |-> f[i]]
  /\ \A i \in 1 .. n : f[i] = IF i = 1 THEN ss[i] ELSE f[i - 1] \o ss[i]

LEMMA FlattensExists ==
  ASSUME NEW ss
  PROVE  \A n \in Nat : \E f : Flattens(ss, n, f)
<1> DEFINE T == {n \in Nat : \E f : Flattens(ss, n, f)}
<1>1. 0 \in T
  <2> DEFINE f == [i \in 1 .. 0 |-> ss[i]]
  <2>1. Flattens(ss, 0, f)
    BY DEF Flattens
  <2> QED
    BY <2>1
<1>2. ASSUME NEW n \in T PROVE n + 1 \in T
  <2>1. PICK f : Flattens(ss, n, f)
    OBVIOUS
  <2>2. n \in Nat
    OBVIOUS
  <2> DEFINE g == [i \in 1 .. n + 1 |->
                     IF i = 1 THEN ss[i] ELSE f[i - 1] \o ss[i]]
  <2>3. \A i \in 1 .. n : f[i] = g[i]
    <3> TAKE i \in 1 .. n
    <3>1. i \in 1 .. n + 1
      BY <2>2
    <3>2. g[i] = IF i = 1 THEN ss[i] ELSE f[i - 1] \o ss[i]
      BY <3>1
    <3> QED
      BY <2>1, <3>2 DEF Flattens
  <2>4. \A i \in 1 .. n + 1 : i # 1 => g[i] = g[i - 1] \o ss[i]
    <3> TAKE i \in 1 .. n + 1
    <3> HAVE i # 1
    <3>1. i - 1 \in 1 .. n
      BY <2>2
    <3> QED
      BY <2>3, <3>1
  <2>5. \A i \in 1 .. n + 1 : i = 1 => g[i] = ss[i]
    OBVIOUS
  <2>6. g = [i \in 1 .. n + 1 |-> g[i]]
    OBVIOUS
  <2> HIDE DEF g
  <2>7. Flattens(ss, n + 1, g)
    BY <2>4, <2>5, <2>6 DEF Flattens
  <2> QED
    BY <2>2, <2>7
<1> HIDE DEF T
<1>3. T = Nat
  <2>1. T \in SUBSET Nat
    BY DEF T
  <2> QED
    BY <1>1, <1>2, <2>1, Induction
<1> QED
  BY <1>3 DEF T

(* It is what FlattenSeq is defined by.                                    *)
LEMMA FlattenDef ==
  ASSUME NEW ss, NEW n \in Nat \ {0}, Len(ss) = n
  PROVE  \E f : Flattens(ss, n, f) /\ FlattenSeq(ss) = f[n]
<1> DEFINE Body(f) == [i \in 1 .. n |-> IF i = 1 THEN ss[i] ELSE f[i - 1] \o ss[i]]
           Recursive(f) == f = Body(f)
           g == CHOOSE f : Recursive(f)
<1>1. FlattenSeq(ss) = g[n]
  BY DEF FlattenSeq
<1>2. \E f : Recursive(f)
  <2>1. PICK f : Flattens(ss, n, f)
    BY FlattensExists
  <2>2. \A i \in 1 .. n : f[i] = Body(f)[i]
    BY <2>1 DEF Flattens
  <2>3. f = [i \in 1 .. n |-> f[i]]
    BY <2>1 DEF Flattens
  <2>4. [i \in 1 .. n |-> f[i]] = Body(f)
    BY <2>2
  <2> QED
    BY <2>3, <2>4
<1>3. Recursive(g)
  BY <1>2
<1>4. \A i \in 1 .. n : Body(g)[i] = IF i = 1 THEN ss[i] ELSE g[i - 1] \o ss[i]
  OBVIOUS
<1>5. Body(g) = [i \in 1 .. n |-> Body(g)[i]]
  OBVIOUS
<1> HIDE DEF Body, g
<1>6. g = Body(g)
  BY <1>3
<1>7. Flattens(ss, n, g)
  BY <1>4, <1>5, <1>6 DEF Flattens
<1> QED
  BY <1>1, <1>7

(* Where two sequences of sequences agree, so do the concatenations.       *)
LEMMA FlattensAgree ==
  ASSUME NEW ss, NEW tt, NEW k \in Nat, NEW n \in Nat,
         k <= n, \A i \in 1 .. k : ss[i] = tt[i],
         NEW f, Flattens(ss, k, f), NEW g, Flattens(tt, n, g)
  PROVE  \A i \in 1 .. k : f[i] = g[i]
<1> DEFINE T == {i \in Nat : i \in 1 .. k => f[i] = g[i]}
<1>1. 0 \in T
  OBVIOUS
<1>2. ASSUME NEW i \in T PROVE i + 1 \in T
  <2>1. i \in Nat
    OBVIOUS
  <2> SUFFICES ASSUME i + 1 \in 1 .. k PROVE f[i + 1] = g[i + 1]
    BY <2>1
  <2>2. /\ i + 1 \in 1 .. n /\ ss[i + 1] = tt[i + 1]
    BY <2>1
  <2>3. f[i + 1] = IF i + 1 = 1 THEN ss[i + 1] ELSE f[i] \o ss[i + 1]
    <3>1. (i + 1) - 1 = i
      BY <2>1
    <3> QED
      BY <2>2, <3>1 DEF Flattens
  <2>4. g[i + 1] = IF i + 1 = 1 THEN tt[i + 1] ELSE g[i] \o tt[i + 1]
    <3>1. (i + 1) - 1 = i
      BY <2>1
    <3> QED
      BY <2>2, <3>1 DEF Flattens
  <2>5. CASE i = 0
    BY <2>2, <2>3, <2>4, <2>5
  <2>6. CASE i # 0
    <3>1. f[i] = g[i]
      BY <2>1, <2>6
    <3> QED
      BY <2>1, <2>2, <2>3, <2>4, <2>6, <3>1
  <2> QED
    BY <2>5, <2>6
<1> HIDE DEF T
<1>3. T = Nat
  <2>1. T \in SUBSET Nat
    BY DEF T
  <2> QED
    BY <1>1, <1>2, <2>1, Induction
<1> QED
  BY <1>3 DEF T

LEMMA FlattensLast ==
  ASSUME NEW ss, NEW tt, NEW n \in Nat \ {0}, \A i \in 1 .. n : ss[i] = tt[i],
         NEW f, Flattens(ss, n, f), NEW g, Flattens(tt, n + 1, g)
  PROVE  f[n] = g[n]
<1>1. n + 1 \in Nat /\ n <= n + 1 /\ n \in 1 .. n
  OBVIOUS
<1> QED
  BY <1>1, FlattensAgree

(* The concatenation has the elements of the sequences.                    *)
LEMMA FlattensTyped ==
  ASSUME NEW S, NEW ss \in Seq(Seq(S)), NEW f, Flattens(ss, Len(ss), f)
  PROVE  \A i \in 1 .. Len(ss) : f[i] \in Seq(S)
<1> DEFINE T == {i \in Nat : i \in 1 .. Len(ss) => f[i] \in Seq(S)}
<1>1. 0 \in T
  OBVIOUS
<1>2. ASSUME NEW i \in T PROVE i + 1 \in T
  <2>1. i \in Nat
    OBVIOUS
  <2> SUFFICES ASSUME i + 1 \in 1 .. Len(ss) PROVE f[i + 1] \in Seq(S)
    BY <2>1
  <2>2. ss[i + 1] \in Seq(S)
    OBVIOUS
  <2>3. f[i + 1] = IF i + 1 = 1 THEN ss[i + 1] ELSE f[i] \o ss[i + 1]
    <3>1. (i + 1) - 1 = i
      BY <2>1
    <3> QED
      BY <3>1 DEF Flattens
  <2>4. i # 0 => f[i] \in Seq(S)
    BY <2>1
  <2> QED
    BY <2>1, <2>2, <2>3, <2>4, ConcatProperties
<1> HIDE DEF T
<1>3. T = Nat
  <2>1. T \in SUBSET Nat
    BY DEF T
  <2> QED
    BY <1>1, <1>2, <2>1, Induction
<1> QED
  BY <1>3 DEF T

(* What FlattenSeq promises.                                               *)
LEMMA FlattenEmpty == FlattenSeq(<<>>) = <<>>
  BY DEF FlattenSeq

LEMMA FlattenOne ==
  ASSUME NEW ss, Len(ss) = 1
  PROVE  FlattenSeq(ss) = ss[1]
<1>1. 1 \in Nat \ {0}
  OBVIOUS
<1>2. PICK f : Flattens(ss, 1, f) /\ FlattenSeq(ss) = f[1]
  BY <1>1, FlattenDef
<1>3. f[1] = ss[1]
  BY <1>2 DEF Flattens
<1> QED
  BY <1>2, <1>3

LEMMA FlattenMore ==
  ASSUME NEW ss, NEW tt, NEW n \in Nat \ {0}, Len(ss) = n, Len(tt) = n + 1,
         \A i \in 1 .. n : ss[i] = tt[i]
  PROVE  FlattenSeq(tt) = FlattenSeq(ss) \o tt[n + 1]
<1>1. PICK f : Flattens(ss, n, f) /\ FlattenSeq(ss) = f[n]
  BY FlattenDef
<1>2. PICK g : Flattens(tt, n + 1, g) /\ FlattenSeq(tt) = g[n + 1]
  BY FlattenDef
<1>3. f[n] = g[n]
  BY <1>1, <1>2, FlattensLast
<1>4. (n + 1) - 1 = n /\ n + 1 \in 1 .. n + 1 /\ n + 1 # 1
  OBVIOUS
<1>5. g[n + 1] = g[(n + 1) - 1] \o tt[n + 1]
  BY <1>2, <1>4 DEF Flattens
<1> QED
  BY <1>1, <1>2, <1>3, <1>4, <1>5

LEMMA FlattenTyped ==
  ASSUME NEW S, NEW ss \in Seq(Seq(S))
  PROVE  FlattenSeq(ss) \in Seq(S)
<1>1. CASE ss = <<>>
  <2>1. <<>> \in Seq(S)
    OBVIOUS
  <2> QED
    BY <1>1, <2>1, FlattenEmpty
<1>2. CASE ss # <<>>
  <2>1. Len(ss) \in Nat \ {0}
    BY <1>2
  <2>2. PICK f : Flattens(ss, Len(ss), f) /\ FlattenSeq(ss) = f[Len(ss)]
    BY <2>1, FlattenDef
  <2> QED
    BY <2>1, <2>2, FlattensTyped
<1> QED
  BY <1>1, <1>2

LEMMA FlattenAppend ==
  ASSUME NEW S, NEW ss \in Seq(Seq(S)), NEW s \in Seq(S)
  PROVE  FlattenSeq(Append(ss, s)) = FlattenSeq(ss) \o s
<1>1. CASE ss = <<>>
  <2>1. Len(Append(ss, s)) = 1 /\ Append(ss, s)[1] = s
    BY <1>1
  <2>2. <<>> \o s = s
    BY ConcatEmptySeq
  <2> QED
    BY <1>1, <2>1, <2>2, FlattenOne, FlattenEmpty
<1>2. CASE ss # <<>>
  <2>1. /\ Len(ss) \in Nat \ {0} /\ Len(Append(ss, s)) = Len(ss) + 1
        /\ \A i \in 1 .. Len(ss) : ss[i] = Append(ss, s)[i]
        /\ Append(ss, s)[Len(ss) + 1] = s
    BY <1>2, AppendProperties
  <2> QED
    BY <2>1, FlattenMore
<1> QED
  BY <1>1, <1>2

(* The concatenation of two sequences, the second extended.                *)
LEMMA AppendConcat ==
  ASSUME NEW S, NEW s \in Seq(S), NEW t \in Seq(S), NEW e \in S
  PROVE  s \o Append(t, e) = Append(s \o t, e)
<1>1. Append(t, e) = t \o <<e>> /\ <<e>> \in Seq(S)
  BY AppendIsConcat
<1>2. s \o t \in Seq(S)
  BY ConcatProperties
<1>3. Append(s \o t, e) = (s \o t) \o <<e>>
  BY <1>2, AppendIsConcat
<1> QED
  BY <1>1, <1>3, ConcatAssociative

LEMMA FlattenConcat ==
  ASSUME NEW S, NEW ss \in Seq(Seq(S)), NEW tt \in Seq(Seq(S))
  PROVE  FlattenSeq(ss \o tt) = FlattenSeq(ss) \o FlattenSeq(tt)
<1> DEFINE Holds(uu) == FlattenSeq(ss \o uu) = FlattenSeq(ss) \o FlattenSeq(uu)
           T == {n \in Nat : \A uu \in Seq(Seq(S)) : Len(uu) = n => Holds(uu)}
<1>1. Holds(<<>>)
  <2>1. FlattenSeq(ss) \in Seq(S) /\ ss \o <<>> = ss
    BY FlattenTyped, ConcatEmptySeq
  <2> QED
    BY <2>1, FlattenEmpty, ConcatEmptySeq
<1>2. ASSUME NEW vv \in Seq(Seq(S)), NEW v \in Seq(S), Holds(vv)
      PROVE  Holds(Append(vv, v))
  <2>1. /\ ss \o Append(vv, v) = Append(ss \o vv, v)
        /\ ss \o vv \in Seq(Seq(S))
    BY AppendConcat, ConcatProperties
  <2>2. FlattenSeq(Append(ss \o vv, v)) = FlattenSeq(ss \o vv) \o v
    BY <2>1, FlattenAppend
  <2>3. FlattenSeq(Append(vv, v)) = FlattenSeq(vv) \o v
    BY FlattenAppend
  <2>4. FlattenSeq(ss) \in Seq(S) /\ FlattenSeq(vv) \in Seq(S)
    BY FlattenTyped
  <2>5. (FlattenSeq(ss) \o FlattenSeq(vv)) \o v
          = FlattenSeq(ss) \o (FlattenSeq(vv) \o v)
    BY <2>4, ConcatAssociative
  <2> QED
    BY <1>2, <2>1, <2>2, <2>3, <2>5
<1> HIDE DEF Holds
<1>3. 0 \in T
  <2>1. \A uu \in Seq(Seq(S)) : Len(uu) = 0 => uu = <<>>
    OBVIOUS
  <2> QED
    BY <1>1, <2>1
<1>4. ASSUME NEW n \in T PROVE n + 1 \in T
  <2>1. n \in Nat
    OBVIOUS
  <2> SUFFICES ASSUME NEW uu \in Seq(Seq(S)), Len(uu) = n + 1 PROVE Holds(uu)
    BY <2>1
  <2>2. uu # <<>>
    BY <2>1
  <2>3. PICK vv \in Seq(Seq(S)), v \in Seq(S) : uu = Append(vv, v)
    BY <2>2, SequenceEmptyOrAppend
  <2>4. Len(vv) = n
    BY <2>1, <2>3
  <2> QED
    BY <1>2, <2>3, <2>4
<1>5. T = Nat
  <2>1. T \in SUBSET Nat
    OBVIOUS
  <2> HIDE DEF T
  <2> QED
    BY <1>3, <1>4, <2>1, Induction
<1>6. Len(tt) \in Nat
  OBVIOUS
<1>7. Holds(tt)
  BY <1>5, <1>6
<1> QED
  BY <1>7 DEF Holds

(* Sequences behind the first one that are all empty add nothing.          *)
LEMMA FlattenFirst ==
  ASSUME NEW S, NEW s \in Seq(S), NEW n \in Nat \ {0}, NEW ss \in Seq(Seq(S)),
         Len(ss) = n, \A i \in 1 .. n : ss[i] = IF i = 1 THEN s ELSE <<>>
  PROVE  FlattenSeq(ss) = s
<1>1. PICK f : Flattens(ss, n, f) /\ FlattenSeq(ss) = f[n]
  BY FlattenDef
<1> DEFINE T == {i \in Nat : i \in 1 .. n => f[i] = s}
<1>2. 0 \in T
  OBVIOUS
<1>3. ASSUME NEW i \in T PROVE i + 1 \in T
  <2>1. i \in Nat /\ (i \in 1 .. n => f[i] = s)
    OBVIOUS
  <2> SUFFICES ASSUME i + 1 \in 1 .. n PROVE f[i + 1] = s
    BY <2>1
  <2>2. f[i + 1] = IF i + 1 = 1 THEN ss[i + 1] ELSE f[i] \o ss[i + 1]
    <3>1. (i + 1) - 1 = i
      BY <2>1
    <3> QED
      BY <1>1, <3>1 DEF Flattens
  <2>3. s \o <<>> = s
    BY ConcatEmptySeq
  <2>4. CASE i = 0
    BY <2>2, <2>4
  <2>5. CASE i # 0
    <3>1. f[i] = s /\ ss[i + 1] = <<>>
      BY <2>1, <2>5
    <3> QED
      BY <2>1, <2>2, <2>3, <2>5, <3>1
  <2> QED
    BY <2>4, <2>5
<1> HIDE DEF T
<1>4. T = Nat
  <2>1. T \in SUBSET Nat
    BY DEF T
  <2> QED
    BY <1>2, <1>3, <2>1, Induction
<1>5. n \in 1 .. n /\ n \in Nat
  OBVIOUS
<1> QED
  BY <1>1, <1>4, <1>5 DEF T

-----------------------------------------------------------------------------
(* Induction over sequences, for a set of them.                            *)
LEMMA SequenceInduction ==
  ASSUME NEW A, NEW T \in SUBSET Seq(A), <<>> \in T,
         \A s \in T, a \in A : Append(s, a) \in T
  PROVE  T = Seq(A)
<1> DEFINE U == {n \in Nat : \A s \in Seq(A) : Len(s) = n => s \in T}
<1>1. 0 \in U
  <2>1. \A s \in Seq(A) : Len(s) = 0 => s = <<>>
    OBVIOUS
  <2> QED
    BY <2>1
<1>2. ASSUME NEW n \in U PROVE n + 1 \in U
  <2>1. n \in Nat /\ \A s \in Seq(A) : Len(s) = n => s \in T
    OBVIOUS
  <2> SUFFICES ASSUME NEW s \in Seq(A), Len(s) = n + 1 PROVE s \in T
    BY <2>1
  <2>2. s # <<>>
    BY <2>1
  <2>3. PICK r \in Seq(A), a \in A : s = Append(r, a)
    BY <2>2, SequenceEmptyOrAppend
  <2>4. Len(r) = n
    BY <2>1, <2>3
  <2> QED
    BY <2>1, <2>3, <2>4
<1> HIDE DEF U
<1>3. U = Nat
  <2>1. U \in SUBSET Nat
    BY DEF U
  <2> QED
    BY <1>1, <1>2, <2>1, Induction
<1>4. \A s \in Seq(A) : Len(s) \in Nat
  OBVIOUS
<1> QED
  BY <1>3, <1>4 DEF U

(* Each element of s replaced by the sequence g gives for it.              *)
Pieces(A, B) == [A -> Seq(B)]
Images(s, g) == [i \in DOMAIN s |-> g[s[i]]]
Mapped(s, g) == FlattenSeq(Images(s, g))

LEMMA ImagesElement ==
  ASSUME NEW s, NEW g, NEW i \in DOMAIN s
  PROVE  Images(s, g)[i] = g[s[i]]
  BY DEF Images

LEMMA ImagesTyped ==
  ASSUME NEW A, NEW B, NEW s \in Seq(A), NEW g \in Pieces(A, B)
  PROVE  Images(s, g) \in Seq(Seq(B)) /\ Len(Images(s, g)) = Len(s)
<1>1. DOMAIN s = 1 .. Len(s) /\ Len(s) \in Nat
  OBVIOUS
<1>2. \A i \in 1 .. Len(s) : g[s[i]] \in Seq(B)
  <2> TAKE i \in 1 .. Len(s)
  <2>1. s[i] \in A
    OBVIOUS
  <2> QED
    BY <2>1 DEF Pieces
<1>3. Images(s, g) \in [1 .. Len(s) -> Seq(B)]
  BY <1>1, <1>2 DEF Images
<1> QED
  BY <1>1, <1>3, FunctionIsSeq

LEMMA ConcatNested ==
  ASSUME NEW B, NEW x \in Seq(Seq(B)), NEW y \in Seq(Seq(B)), NEW z \in Seq(Seq(B)),
         Len(z) = Len(x) + Len(y),
         \A i \in 1 .. Len(x) : z[i] = x[i],
         \A i \in 1 .. Len(y) : z[Len(x) + i] = y[i]
  PROVE  z = x \o y
  BY ConcatIs, Zenon

LEMMA ImagesConcat ==
  ASSUME NEW A, NEW B, NEW s \in Seq(A), NEW t \in Seq(A), NEW g \in Pieces(A, B)
  PROVE  Images(s \o t, g) = Images(s, g) \o Images(t, g)
<1>1. /\ s \o t \in Seq(A) /\ Len(s \o t) = Len(s) + Len(t)
      /\ DOMAIN (s \o t) = 1 .. Len(s) + Len(t)
      /\ Len(s) \in Nat /\ Len(t) \in Nat
      /\ \A i \in 1 .. Len(s) : (s \o t)[i] = s[i]
      /\ \A i \in 1 .. Len(t) : (s \o t)[Len(s) + i] = t[i]
  BY ConcatElements
<1>2. DOMAIN s = 1 .. Len(s) /\ DOMAIN t = 1 .. Len(t)
  OBVIOUS
<1>3. Images(s, g) \in Seq(Seq(B)) /\ Len(Images(s, g)) = Len(s)
  BY ImagesTyped
<1>4. Images(t, g) \in Seq(Seq(B)) /\ Len(Images(t, g)) = Len(t)
  BY ImagesTyped
<1>5. /\ Images(s \o t, g) \in Seq(Seq(B))
      /\ Len(Images(s \o t, g)) = Len(Images(s, g)) + Len(Images(t, g))
  <2>1. s \o t \in Seq(A)
    BY <1>1
  <2>2. /\ Images(s \o t, g) \in Seq(Seq(B))
        /\ Len(Images(s \o t, g)) = Len(s \o t)
    BY <2>1, ImagesTyped
  <2> QED
    BY <1>1, <1>3, <1>4, <2>2
<1>6. ASSUME NEW i \in 1 .. Len(s) PROVE Images(s \o t, g)[i] = Images(s, g)[i]
  <2>1. i \in DOMAIN s /\ i \in DOMAIN (s \o t)
    BY <1>1, <1>2
  <2>2. Images(s \o t, g)[i] = g[(s \o t)[i]] /\ Images(s, g)[i] = g[s[i]]
    BY <2>1, ImagesElement
  <2> QED
    BY <1>1, <2>2
<1>7. ASSUME NEW i \in 1 .. Len(t)
      PROVE  Images(s \o t, g)[Len(s) + i] = Images(t, g)[i]
  <2>1. i \in DOMAIN t /\ Len(s) + i \in DOMAIN (s \o t)
    BY <1>1, <1>2
  <2>2. /\ Images(s \o t, g)[Len(s) + i] = g[(s \o t)[Len(s) + i]]
        /\ Images(t, g)[i] = g[t[i]]
    BY <2>1, ImagesElement
  <2> QED
    BY <1>1, <2>2
<1>8. \A i \in 1 .. Len(Images(s, g)) : Images(s \o t, g)[i] = Images(s, g)[i]
  BY <1>3, <1>6
<1>9. \A i \in 1 .. Len(Images(t, g)) :
        Images(s \o t, g)[Len(Images(s, g)) + i] = Images(t, g)[i]
  BY <1>3, <1>4, <1>7
<1>10. \A x \in Seq(Seq(B)), y \in Seq(Seq(B)), z \in Seq(Seq(B)) :
         (/\ Len(z) = Len(x) + Len(y)
          /\ \A i \in 1 .. Len(x) : z[i] = x[i]
          /\ \A i \in 1 .. Len(y) : z[Len(x) + i] = y[i]) => z = x \o y
  BY ConcatNested, Zenon
<1>11. Images(s, g) \in Seq(Seq(B)) /\ Images(t, g) \in Seq(Seq(B))
  BY <1>3, <1>4
<1> QED
  BY <1>5, <1>8, <1>9, <1>10, <1>11, Zenon

LEMMA MappedTyped ==
  ASSUME NEW A, NEW B, NEW s \in Seq(A), NEW g \in Pieces(A, B)
  PROVE  Mapped(s, g) \in Seq(B)
<1>1. Images(s, g) \in Seq(Seq(B))
  BY ImagesTyped
<1> QED
  BY <1>1, FlattenTyped DEF Mapped

LEMMA MappedEmpty == \A g : Mapped(<<>>, g) = <<>>
<1> TAKE g
<1>1. Images(<<>>, g) = <<>>
  BY DEF Images
<1> QED
  BY <1>1, FlattenEmpty DEF Mapped

LEMMA MappedOne ==
  ASSUME NEW A, NEW B, NEW a \in A, NEW g \in Pieces(A, B)
  PROVE  Mapped(<<a>>, g) = g[a]
<1>1. <<a>> \in Seq(A) /\ Len(<<a>>) = 1 /\ 1 \in DOMAIN <<a>> /\ <<a>>[1] = a
  OBVIOUS
<1>2. Len(Images(<<a>>, g)) = 1
  BY <1>1, ImagesTyped
<1>3. Images(<<a>>, g)[1] = g[a]
  BY <1>1, ImagesElement
<1> QED
  BY <1>2, <1>3, FlattenOne DEF Mapped

LEMMA MappedConcat ==
  ASSUME NEW A, NEW B, NEW s \in Seq(A), NEW t \in Seq(A), NEW g \in Pieces(A, B)
  PROVE  Mapped(s \o t, g) = Mapped(s, g) \o Mapped(t, g)
<1>1. Images(s, g) \in Seq(Seq(B)) /\ Images(t, g) \in Seq(Seq(B))
  BY ImagesTyped
<1>2. FlattenSeq(Images(s, g) \o Images(t, g))
        = FlattenSeq(Images(s, g)) \o FlattenSeq(Images(t, g))
  BY <1>1, FlattenConcat
<1>3. Images(s \o t, g) = Images(s, g) \o Images(t, g)
  BY ImagesConcat
<1> QED
  BY <1>2, <1>3 DEF Mapped

LEMMA MappedAppend ==
  ASSUME NEW A, NEW B, NEW s \in Seq(A), NEW a \in A, NEW g \in Pieces(A, B)
  PROVE  Mapped(Append(s, a), g) = Mapped(s, g) \o g[a]
<1>1. Append(s, a) = s \o <<a>> /\ <<a>> \in Seq(A)
  BY AppendIsConcat
<1>2. Mapped(s \o <<a>>, g) = Mapped(s, g) \o Mapped(<<a>>, g)
  <2>1. <<a>> \in Seq(A)
    BY <1>1
  <2>2. \A r \in Seq(A) : Mapped(s \o r, g) = Mapped(s, g) \o Mapped(r, g)
    BY MappedConcat
  <2> QED
    BY <2>1, <2>2, Zenon
<1>3. Mapped(<<a>>, g) = g[a]
  BY MappedOne
<1> QED
  BY <1>1, <1>2, <1>3

(* The elements of a set, when g keeps just those.                         *)
LEMMA MappedKeeps ==
  ASSUME NEW A, NEW s \in Seq(A), NEW g \in Pieces(A, A),
         \A i \in 1 .. Len(s) : g[s[i]] = <<s[i]>>
  PROVE  Mapped(s, g) = s
<1> DEFINE Kept(r) == (\A i \in 1 .. Len(r) : g[r[i]] = <<r[i]>>) => Mapped(r, g) = r
           T == {r \in Seq(A) : Kept(r)}
<1>1. <<>> \in T
  BY MappedEmpty
<1>2. ASSUME NEW r \in T, NEW a \in A PROVE Append(r, a) \in T
  <2>1. r \in Seq(A) /\ Kept(r) /\ Append(r, a) \in Seq(A)
    OBVIOUS
  <2> SUFFICES ASSUME \A i \in 1 .. Len(Append(r, a)) :
                        g[Append(r, a)[i]] = <<Append(r, a)[i]>>
               PROVE  Mapped(Append(r, a), g) = Append(r, a)
    BY <2>1
  <2>2. /\ Len(Append(r, a)) = Len(r) + 1 /\ Append(r, a)[Len(r) + 1] = a
        /\ \A i \in 1 .. Len(r) : Append(r, a)[i] = r[i]
        /\ Len(r) \in Nat
    BY <2>1, AppendElements
  <2>3. ASSUME NEW i \in 1 .. Len(r) PROVE g[r[i]] = <<r[i]>>
    <3>1. i \in 1 .. Len(Append(r, a)) /\ Append(r, a)[i] = r[i]
      BY <2>2
    <3> QED
      BY <3>1
  <2>4. g[a] = <<a>>
    <3>1. Len(r) + 1 \in 1 .. Len(Append(r, a))
      BY <2>2
    <3> QED
      BY <2>2, <3>1
  <2>5. Mapped(r, g) = r
    BY <2>1, <2>3
  <2>6. Mapped(Append(r, a), g) = Mapped(r, g) \o g[a]
    BY <2>1, MappedAppend
  <2> QED
    BY <2>1, <2>4, <2>5, <2>6, AppendIsConcat
<1>3. T = Seq(A)
  <2>1. T \in SUBSET Seq(A)
    OBVIOUS
  <2> HIDE DEF T
  <2> QED
    BY <1>1, <1>2, <2>1, SequenceInduction
<1> QED
  BY <1>3

LEMMA MappedDrops ==
  ASSUME NEW A, NEW B, NEW s \in Seq(A), NEW g \in Pieces(A, B),
         \A i \in 1 .. Len(s) : g[s[i]] = <<>>
  PROVE  Mapped(s, g) = <<>>
<1> DEFINE None(r) == (\A i \in 1 .. Len(r) : g[r[i]] = <<>>) => Mapped(r, g) = <<>>
           T == {r \in Seq(A) : None(r)}
<1>1. <<>> \in T
  BY MappedEmpty
<1>2. ASSUME NEW r \in T, NEW a \in A PROVE Append(r, a) \in T
  <2>1. r \in Seq(A) /\ None(r) /\ Append(r, a) \in Seq(A)
    OBVIOUS
  <2> SUFFICES ASSUME \A i \in 1 .. Len(Append(r, a)) : g[Append(r, a)[i]] = <<>>
               PROVE  Mapped(Append(r, a), g) = <<>>
    BY <2>1
  <2>2. /\ Len(Append(r, a)) = Len(r) + 1 /\ Append(r, a)[Len(r) + 1] = a
        /\ \A i \in 1 .. Len(r) : Append(r, a)[i] = r[i]
        /\ Len(r) \in Nat
    BY <2>1, AppendElements
  <2>3. \A i \in 1 .. Len(r) : g[r[i]] = <<>>
    BY <2>2
  <2>4. g[a] = <<>>
    BY <2>2
  <2>5. Mapped(r, g) = <<>>
    BY <2>1, <2>3
  <2>6. Mapped(Append(r, a), g) = Mapped(r, g) \o g[a]
    BY <2>1, MappedAppend
  <2>7. <<>> \o <<>> = <<>>
    OBVIOUS
  <2> QED
    BY <2>4, <2>5, <2>6, <2>7
<1>3. T = Seq(A)
  <2>1. T \in SUBSET Seq(A)
    OBVIOUS
  <2> HIDE DEF T
  <2> QED
    BY <1>1, <1>2, <2>1, SequenceInduction
<1> QED
  BY <1>3

-----------------------------------------------------------------------------
(* The head of a sequence of sequences.                                    *)
LEMMA HeadAndTail ==
  ASSUME NEW A, NEW s \in Seq(A), s # <<>>
  PROVE  /\ Head(s) \in A /\ Tail(s) \in Seq(A) /\ s = <<Head(s)>> \o Tail(s)
         /\ <<Head(s)>> \in Seq(A)
<1>1. Head(s) \in A /\ Tail(s) \in Seq(A) /\ Len(Tail(s)) = Len(s) - 1
      /\ Head(s) = s[1] /\ Len(s) \in Nat \ {0}
      /\ \A i \in 1 .. Len(s) - 1 : Tail(s)[i] = s[i + 1]
  OBVIOUS
<1>2. <<Head(s)>> \in Seq(A) /\ Len(<<Head(s)>>) = 1 /\ <<Head(s)>>[1] = Head(s)
  BY <1>1
<1> DEFINE t == <<Head(s)>> \o Tail(s)
<1>3. /\ t \in Seq(A) /\ Len(t) = Len(s)
      /\ \A i \in 1 .. Len(s) :
           t[i] = IF i <= 1 THEN <<Head(s)>>[i] ELSE Tail(s)[i - 1]
  BY <1>1, <1>2, ConcatElements
<1> HIDE DEF t
<1>4. ASSUME NEW i \in 1 .. Len(s) PROVE t[i] = s[i]
  <2>1. CASE i = 1
    BY <1>1, <1>2, <1>3, <2>1
  <2>2. CASE i # 1
    <3>1. i - 1 \in 1 .. Len(s) - 1 /\ ~(i <= 1) /\ (i - 1) + 1 = i
      BY <1>1, <2>2
    <3> QED
      BY <1>1, <1>3, <3>1
  <2> QED
    BY <2>1, <2>2
<1>5. t = s
  BY <1>3, <1>4, SeqEqual
<1> QED
  BY <1>1, <1>2, <1>5 DEF t

LEMMA FlattenHead ==
  ASSUME NEW S, NEW ss \in Seq(Seq(S)), ss # <<>>
  PROVE  FlattenSeq(ss) = Head(ss) \o FlattenSeq(Tail(ss))
<1>1. /\ Tail(ss) \in Seq(Seq(S)) /\ ss = <<Head(ss)>> \o Tail(ss)
      /\ <<Head(ss)>> \in Seq(Seq(S))
  BY HeadAndTail
<1>2. FlattenSeq(ss) = FlattenSeq(<<Head(ss)>>) \o FlattenSeq(Tail(ss))
  BY <1>1, FlattenConcat
<1>3. Len(<<Head(ss)>>) = 1 /\ <<Head(ss)>>[1] = Head(ss)
  OBVIOUS
<1>4. FlattenSeq(<<Head(ss)>>) = Head(ss)
  BY <1>3, FlattenOne
<1> QED
  BY <1>2, <1>4
=============================================================================

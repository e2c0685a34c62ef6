-------------------------- MODULE AdmissionProofs --------------------------
(***************************************************************************)
(* Theorems about Admission and RequestFingerprint, for any requests, any  *)
(* amounts and metadata in them and any limits: what the checks let        *)
(* through, the table can hold, and a fingerprint tells two bodies apart   *)
(* exactly when they say different things.                                 *)
(***************************************************************************)
EXTENDS Admission, SequenceTheorems, FiniteSetTheorems, WellFoundedInduction, TLAPS

Decimals == [u : Nat, s : Nat \ {0}]

-----------------------------------------------------------------------------
(* Arithmetic *)

LEMMA DivisionExact ==
    ASSUME NEW n \in Nat, NEW s \in Nat \ {0}, n % s = 0
    PROVE  n \div s \in Nat /\ (n \div s) * s = n
OBVIOUS

LEMMA Division ==
    ASSUME NEW n \in Nat, NEW s \in Nat \ {0}
    PROVE  n \div s \in Nat /\ (s <= n => n \div s >= 1)
OBVIOUS

LEMMA FactorBounded ==
    ASSUME NEW q \in Nat, NEW s \in Nat \ {0}, NEW n \in Nat, q * s <= n * s
    PROVE  q <= n
<1> SUFFICES ASSUME q > n PROVE FALSE
  OBVIOUS
<1>1. PICK k \in Nat : q = n + 1 + k
  <2>1. q - n - 1 \in Nat /\ q = n + 1 + (q - n - 1)
    OBVIOUS
  <2> QED
    BY <2>1
<1>2. q * s = n * s + s + k * s /\ k * s \in Nat
  BY <1>1
<1> QED
  BY <1>2

LEMMA FactorCancelled ==
    ASSUME NEW q \in Nat, NEW n \in Nat, NEW s \in Nat \ {0}, q * s = n * s
    PROVE  q = n
BY FactorBounded

LEMMA ProductPositive ==
    ASSUME NEW a \in Nat \ {0}, NEW b \in Nat \ {0}
    PROVE  a * b \in Nat \ {0}
OBVIOUS

-----------------------------------------------------------------------------
(* Amounts *)

\* An amount of whole cents is normalized without loss.
LEMMA CentsAreExact ==
    ASSUME NEW d \in Decimals, WholeCents(d)
    PROVE  /\ NormalizeAmount(d).u \in Nat
           /\ NormalizeAmount(d).u * d.s = d.u * 100
           /\ NormalizeAmount(d).s = 100
           /\ SameNumber(NormalizeAmount(d), d)
<1>1. d.u * 100 \in Nat /\ d.s \in Nat \ {0}
  BY DEF Decimals
<1>2. /\ (d.u * 100) \div d.s \in Nat
      /\ ((d.u * 100) \div d.s) * d.s = d.u * 100
  BY <1>1, DivisionExact DEF WholeCents
<1> QED
  BY <1>2 DEF NormalizeAmount, SameNumber

\* An amount within the limit has at least one cent and at most MaxAmount.
LEMMA CentsAreBounded ==
    ASSUME NEW d \in Decimals, WithinLimit(d), WholeCents(d)
    PROVE  NormalizeAmount(d).u \in 1..MaxAmount
<1> DEFINE cents == NormalizeAmount(d).u
<1>1. cents \in Nat /\ cents * d.s = d.u * 100
  BY CentsAreExact
<1> HIDE DEF cents
<1>2. /\ d.u \in Nat \ {0} /\ d.s \in Nat \ {0} /\ MaxAmount \in Nat
      /\ d.u * 100 <= MaxAmount * d.s
  BY LimitsAssumption DEF Decimals, WithinLimit, MaxAmount
<1>3. cents <= MaxAmount
  BY <1>1, <1>2, FactorBounded
<1>4. cents # 0
  BY <1>1, <1>2
<1>5. cents \in 1..MaxAmount
  BY <1>1, <1>2, <1>3, <1>4
<1> QED
  BY <1>5 DEF cents

\* Two spellings of a number agree with a third if they agree with each other.
LEMMA SameIsTransitive ==
    ASSUME NEW d, NEW e, NEW f, d.u \in Nat, e.u \in Nat, f.u \in Nat,
           d.s \in Nat \ {0}, e.s \in Nat \ {0}, f.s \in Nat \ {0},
           SameNumber(d, e), SameNumber(e, f)
    PROVE  SameNumber(d, f)
<1> DEFINE left == d.u * f.s
           right == f.u * d.s
<1>1. d.u * e.s = e.u * d.s /\ e.u * f.s = f.u * e.s
  BY DEF SameNumber
<1>2. left * e.s = (d.u * e.s) * f.s
  OBVIOUS
<1>3. (e.u * d.s) * f.s = (e.u * f.s) * d.s
  OBVIOUS
<1>4. (f.u * e.s) * d.s = right * e.s
  OBVIOUS
<1>5. left * e.s = right * e.s
  BY <1>1, <1>2, <1>3, <1>4
<1>6. left \in Nat /\ right \in Nat
  OBVIOUS
<1> HIDE DEF left, right
<1>7. left = right
  BY <1>5, <1>6, FactorCancelled
<1> QED
  BY <1>7 DEF left, right, SameNumber

\* The cents are the same if and only if the numbers are.
LEMMA CentsAreCanonical ==
    ASSUME NEW d \in Decimals, NEW e \in Decimals, WholeCents(d), WholeCents(e)
    PROVE  NormalizeAmount(d) = NormalizeAmount(e) <=> SameNumber(d, e)
<1> DEFINE m == NormalizeAmount(d).u
           n == NormalizeAmount(e).u
<1>1. m \in Nat /\ m * d.s = d.u * 100 /\ n \in Nat /\ n * e.s = e.u * 100
  BY CentsAreExact
<1>2. NormalizeAmount(d) = NormalizeAmount(e) <=> m = n
  BY DEF NormalizeAmount
<1> HIDE DEF m, n
<1>3. d.u \in Nat /\ e.u \in Nat /\ d.s \in Nat \ {0} /\ e.s \in Nat \ {0}
  BY DEF Decimals
<1>4. /\ d.u * e.s \in Nat /\ e.u * d.s \in Nat /\ d.s * e.s \in Nat \ {0}
      /\ (d.u * e.s) * 100 = m * (d.s * e.s)
      /\ (e.u * d.s) * 100 = n * (d.s * e.s)
  <2>1. (d.u * e.s) * 100 = (d.u * 100) * e.s /\ (e.u * d.s) * 100 = (e.u * 100) * d.s
    BY <1>3
  <2>2. (m * d.s) * e.s = m * (d.s * e.s) /\ (n * e.s) * d.s = n * (d.s * e.s)
    BY <1>1, <1>3
  <2>3. d.u * e.s \in Nat /\ e.u * d.s \in Nat /\ d.s * e.s \in Nat \ {0}
    BY <1>3, ProductPositive
  <2> QED
    BY <1>1, <2>1, <2>2, <2>3
<1>5. d.u * e.s = e.u * d.s => m = n
  BY <1>1, <1>4, FactorCancelled
<1>6. m = n => d.u * e.s = e.u * d.s
  BY <1>4
<1> QED
  BY <1>2, <1>5, <1>6 DEF SameNumber

\* Reading an amount gives a decimal, whatever a float makes of it.
LEMMA AmountRead ==
    ASSUME NEW request \in Requests
    PROVE  ReadAmount(request.body.amount) \in Decimals
<1> DEFINE amount == request.body.amount
           d == [u |-> amount.u, s |-> amount.s]
           excess == CHOOSE e \in Powers : FitsFloat(amount.u, e)
           rounded == (amount.u + excess \div 2) \div excess
<1>1. amount.u \in Nat /\ amount.s \in Nat \ {0}
  BY RequestsAssumption, LimitsAssumption, PowersAssumption
<1>2. excess \in Nat \ {0}
  BY RequestsAssumption, LimitsAssumption, PowersAssumption
<1> HIDE DEF amount, excess
<1>3. rounded \in Nat
  <2>1. excess \div 2 \in Nat
    BY <1>2, Division
  <2>2. amount.u + excess \div 2 \in Nat
    BY <1>1, <2>1
  <2> QED
    BY <1>2, <2>2, Division
<1> HIDE DEF rounded
<1>4. CASE amount.quoted \/ amount.s = 1
  BY <1>1, <1>4 DEF amount, ReadAmount, Decimals
<1>5. CASE ~(amount.quoted \/ amount.s = 1) /\ excess <= amount.s
  <2>1. ReadAmount(amount) = [u |-> rounded, s |-> amount.s \div excess]
    BY <1>5 DEF ReadAmount, ThroughFloat, rounded, excess
  <2>2. amount.s \div excess \in Nat \ {0}
    BY <1>1, <1>2, <1>5, Division
  <2> QED
    BY <1>3, <2>1, <2>2 DEF Decimals, amount
<1>6. CASE ~(amount.quoted \/ amount.s = 1) /\ ~(excess <= amount.s)
  <2>1. ReadAmount(amount) = [u |-> rounded * (excess \div amount.s), s |-> 1]
    BY <1>6 DEF ReadAmount, ThroughFloat, rounded, excess
  <2>2. excess \div amount.s \in Nat
    BY <1>1, <1>2, Division
  <2>3. rounded * (excess \div amount.s) \in Nat
    BY <1>3, <2>2
  <2> QED
    BY <2>1, <2>3 DEF Decimals, amount
<1> QED
  BY <1>4, <1>5, <1>6

\* A number of no more digits than a float keeps comes through it unchanged.
LEMMA ShortAmountRead ==
    ASSUME NEW request \in Requests, request.body.amount.u < FloatLimit
    PROVE  SameNumber(ReadAmount(request.body.amount), request.body.amount)
<1> DEFINE amount == request.body.amount
           excess == CHOOSE e \in Powers : FitsFloat(amount.u, e)
<1>1. amount.u \in Nat /\ amount.s \in Nat \ {0} /\ FloatLimit \in Nat \ {0}
  BY RequestsAssumption, LimitsAssumption, PowersAssumption
<1>2. excess \in Powers /\ FitsFloat(amount.u, excess)
  BY RequestsAssumption
<1>3. excess \in Nat \ {0} /\ (excess = 1 \/ excess % 10 = 0)
  BY <1>2, LimitsAssumption, PowersAssumption
<1> HIDE DEF excess
<1>4. excess = 1
  <2> SUFFICES ASSUME excess # 1 PROVE FALSE
    OBVIOUS
  <2>1. excess >= 10
    BY <1>3
  <2>2. PICK k \in Nat : excess = 10 + k
    <3>1. excess - 10 \in Nat /\ excess = 10 + (excess - 10)
      BY <1>3, <2>1
    <3> QED
      BY <3>1
  <2>3. FloatLimit * excess = FloatLimit * 10 + FloatLimit * k /\ FloatLimit * k \in Nat
    BY <1>1, <2>2
  <2>4. FloatLimit * excess <= 10 * amount.u
    BY <1>2 DEF FitsFloat
  <2> QED
    BY <1>1, <2>3, <2>4
<1>5. CASE amount.quoted \/ amount.s = 1
  BY <1>1, <1>5 DEF ReadAmount, SameNumber
<1>6. CASE ~(amount.quoted \/ amount.s = 1)
  <2>1. /\ (amount.u + excess \div 2) \div excess = amount.u
        /\ amount.s \div excess = amount.s
        /\ excess <= amount.s
    BY <1>1, <1>4
  <2>2. ReadAmount(amount) = [u |-> amount.u, s |-> amount.s]
    BY <1>6, <2>1 DEF ReadAmount, ThroughFloat, excess
  <2> QED
    BY <2>2 DEF SameNumber
<1> QED
  BY <1>5, <1>6

-----------------------------------------------------------------------------
(* Induction.  What holds of a number is given as the set of these numbers. *)

LEMMA InductionOnSets ==
    ASSUME NEW S, 0 \in S, \A n \in Nat : n \in S => n + 1 \in S
    PROVE  \A n \in Nat : n \in S
<1> SUFFICES ASSUME Nat \ S # {} PROVE FALSE
  OBVIOUS
<1> DEFINE R == OpToRel(<, Nat)
<1>1. \A x, y \in Nat : x < y => <<x, y>> \in R
  BY DEF OpToRel
<1>2. IsWellFoundedOn(R, Nat)
  BY NatLessThanWellFounded
<1> HIDE DEF R
<1>3. PICK n \in Nat \ S : \A m \in Nat \ S : <<m, n>> \notin R
  BY <1>2, WFMin
<1>4. n # 0 /\ n - 1 \in Nat /\ n - 1 < n
  OBVIOUS
<1>5. n - 1 \in S
  BY <1>1, <1>3, <1>4
<1> QED
  BY <1>4, <1>5

\* The values nested less deep than n.
Below(n) == {json \in Values : Depth[json] < n}

LEMMA BelowFacts ==
    /\ Below(0) = {}
    /\ Below(MaxDepth + 1) = Values
    /\ \A n \in Nat : \A json \in Below(n + 1) : Parts(json) \subseteq Below(n)
BY ValuesAssumption DEF Below

-----------------------------------------------------------------------------
(* Sequences of tokens *)

LEMMA OneToken ==
    ASSUME NEW T, NEW e \in T
    PROVE  <<e>> \in Seq(T)
OBVIOUS

LEMMA SameLast ==
    ASSUME NEW T, NEW s \in Seq(T), NEW t \in Seq(T), NEW e \in T, NEW f \in T,
           s \o <<e>> = t \o <<f>>
    PROVE  s = t /\ e = f
BY AppendIsConcat, AppendInjective, SMTT(30)

LEMMA SameFirst ==
    ASSUME NEW T, NEW s \in Seq(T), NEW t \in Seq(T), NEW e \in T, NEW f \in T,
           <<e>> \o s = <<f>> \o t
    PROVE  s = t /\ e = f
<1>1. <<e>> \in Seq(T) /\ <<f>> \in Seq(T) /\ Len(<<e>>) = 1 /\ Len(<<f>>) = 1
  OBVIOUS
<1>2. /\ Len(<<e>> \o s) = 1 + Len(s) /\ Len(<<f>> \o t) = 1 + Len(t)
      /\ \A i \in 1..1 + Len(s) : (<<e>> \o s)[i] = IF i <= 1 THEN <<e>>[i] ELSE s[i - 1]
      /\ \A i \in 1..1 + Len(t) : (<<f>> \o t)[i] = IF i <= 1 THEN <<f>>[i] ELSE t[i - 1]
  BY <1>1, ConcatProperties
<1>3. Len(s) = Len(t) /\ Len(s) \in Nat
  BY <1>2
<1>4. e = f
  BY <1>2, <1>3
<1>5. ASSUME NEW i \in 1..Len(s) PROVE s[i] = t[i]
  <2>1. i + 1 \in 1..1 + Len(s) /\ ~(i + 1 <= 1) /\ (i + 1) - 1 = i
    BY <1>3
  <2> QED
    BY <1>2, <1>3, <2>1
<1> QED
  BY <1>3, <1>4, <1>5, SeqEqual

\* What the texts have been put together to, one after another.
LEMMA Flattened ==
    ASSUME NEW T, NEW u \in Seq(Seq(T))
    PROVE  \E J \in [0..Len(u) -> Seq(T)] :
              /\ J[0] = <<>>
              /\ \A i \in 1..Len(u) : J[i] = J[i - 1] \o u[i]
              /\ FlattenSeq(u) = J[Len(u)]
<1> DEFINE len == Len(u)
           Texts == Seq(T)
           Cat(s, t) == s \o t
           Node(f, n) == IF n = 0 THEN <<>> ELSE Cat(f[n - 1], u[n])
           Good == {n \in Nat : n <= len =>
                       \E f \in [0..n -> Texts] : \A m \in 0..n : f[m] = Node(f, m)}
<1>1. /\ len \in Nat /\ <<>> \in Texts
      /\ \A i \in 1..len : u[i] \in Texts
      /\ \A s, t \in Texts : Cat(s, t) \in Texts
      /\ \A s \in Texts : Cat(<<>>, s) = s
  <2>1. \A s \in Seq(T) : <<>> \o s = s
    BY ConcatEmptySeq
  <2>2. \A s, t \in Seq(T) : s \o t \in Seq(T)
    BY ConcatProperties
  <2> QED
    BY <2>1, <2>2
<1>2. len = 0 => FlattenSeq(u) = <<>>
  <2> SUFFICES ASSUME len = 0 PROVE FlattenSeq(u) = <<>>
    OBVIOUS
  <2>1. u = <<>>
    OBVIOUS
  <2> QED
    BY <2>1, Zenon DEF FlattenSeq
<1> DEFINE Step(f, i) == IF i = 1 THEN u[i] ELSE Cat(f[i - 1], u[i])
           flatten == CHOOSE f : f = [i \in 1..len |-> Step(f, i)]
<1>3. len # 0 => FlattenSeq(u) = flatten[len]
  BY Zenon DEF FlattenSeq
<1> HIDE DEF len, Texts, Cat, Step
<1>4. 0 \in Good
  <2> DEFINE f == [m \in 0..0 |-> <<>>]
  <2>1. f \in [0..0 -> Texts]
    BY <1>1
  <2>2. \A m \in 0..0 : f[m] = Node(f, m)
    OBVIOUS
  <2> HIDE DEF f, Node
  <2> QED
    BY <2>1, <2>2
<1>5. ASSUME NEW n \in Nat, n \in Good PROVE n + 1 \in Good
  <2>1. CASE ~(n + 1 <= len)
    BY <2>1
  <2>2. CASE n + 1 <= len
    <3>1. PICK f \in [0..n -> Texts] : \A m \in 0..n : f[m] = Node(f, m)
      <4>1. n <= len
        BY <1>1, <2>2
      <4> HIDE DEF Node
      <4> QED
        BY <1>5, <4>1
    <3> DEFINE g == [m \in 0..(n + 1) |-> IF m = n + 1 THEN Cat(f[n], u[n + 1]) ELSE f[m]]
    <3>2. Cat(f[n], u[n + 1]) \in Texts
      <4>1. f[n] \in Texts /\ u[n + 1] \in Texts
        BY <1>1, <2>2
      <4> QED
        BY <1>1, <4>1
    <3>3. g \in [0..(n + 1) -> Texts]
      BY <3>2
    <3>4. ASSUME NEW m \in 0..(n + 1) PROVE g[m] = Node(g, m)
      <4>1. CASE m = n + 1
        BY <4>1
      <4>2. CASE m = 0
        BY <3>1, <4>2
      <4>3. CASE m \in 1..n
        <5>1. f[m] = Cat(f[m - 1], u[m])
          BY <3>1, <4>3
        <5>2. g[m] = f[m] /\ g[m - 1] = f[m - 1] /\ m # 0
          BY <4>3
        <5> QED
          BY <5>1, <5>2
      <4> QED
        BY <4>1, <4>2, <4>3
    <3> HIDE DEF g, Node
    <3> QED
      BY <3>3, <3>4
  <2> QED
    BY <2>1, <2>2
<1>6. PICK J \in [0..len -> Texts] : \A m \in 0..len : J[m] = Node(J, m)
  <2> HIDE DEF Good
  <2>1. len \in Good
    BY <1>1, <1>4, <1>5, InductionOnSets
  <2> HIDE DEF Node
  <2> QED
    BY <1>1, <2>1 DEF Good
<1>7. J[0] = <<>> /\ \A i \in 1..len : J[i] = Cat(J[i - 1], u[i])
  BY <1>1, <1>6
<1>8. ASSUME len # 0 PROVE flatten[len] = J[len]
  <2>1. flatten = [i \in 1..len |-> Step(flatten, i)]
    <3> DEFINE f == [i \in 1..len |-> J[i]]
    <3>1. ASSUME NEW i \in 1..len PROVE J[i] = Step(f, i)
      <4>1. CASE i = 1
        BY <1>1, <1>7, <4>1 DEF Step
      <4>2. CASE i # 1
        <5>1. i - 1 \in 1..len
          BY <1>1, <4>2
        <5> QED
          BY <1>7, <4>2, <5>1 DEF Step
      <4> QED
        BY <4>1, <4>2
    <3>2. f = [i \in 1..len |-> Step(f, i)]
      BY <3>1
    <3> HIDE DEF f
    <3> QED
      BY <3>2, Zenon
  <2> HIDE DEF flatten
  <2>2. \A i \in 1..len : flatten[i] = Step(flatten, i)
    BY <2>1
  <2> DEFINE Same == {n \in Nat : n + 1 <= len => flatten[n + 1] = J[n + 1]}
  <2>3. 0 \in Same
    BY <1>1, <1>7, <2>2 DEF Step
  <2>4. ASSUME NEW n \in Nat, n \in Same PROVE n + 1 \in Same
    <3>1. CASE ~((n + 1) + 1 <= len)
      BY <3>1
    <3>2. CASE (n + 1) + 1 <= len
      <4>1. (n + 1) + 1 \in 1..len /\ (n + 1) + 1 # 1 /\ ((n + 1) + 1) - 1 = n + 1 /\ n + 1 <= len
        BY <1>1, <3>2
      <4>2. flatten[(n + 1) + 1] = Cat(flatten[n + 1], u[(n + 1) + 1])
        BY <2>2, <4>1 DEF Step
      <4>3. J[(n + 1) + 1] = Cat(J[n + 1], u[(n + 1) + 1])
        BY <1>7, <4>1
      <4> QED
        BY <2>4, <4>1, <4>2, <4>3
    <3> QED
      BY <3>1, <3>2
  <2>5. len - 1 \in Same
    <3> HIDE DEF Same
    <3>1. len - 1 \in Nat
      BY <1>1, <1>8
    <3> QED
      BY <2>3, <2>4, <3>1, InductionOnSets
  <2> QED
    BY <1>1, <1>8, <2>5
<1>9. FlattenSeq(u) = J[len]
  <2> HIDE DEF flatten
  <2> QED
    BY <1>2, <1>3, <1>7, <1>8
<1> QED
  BY <1>6, <1>7, <1>9 DEF len, Texts, Cat

LEMMA Concatenation ==
    ASSUME NEW T
    PROVE  /\ \A s, t \in Seq(T) : s \o t \in Seq(T)
           /\ \A r, s, t \in Seq(T) : (r \o s) \o t = r \o (s \o t)
           /\ \A s \in Seq(T) : s \o <<>> = s
           /\ \A e \in T : \A s, t \in Seq(T) : s \o <<e>> = t \o <<e>> => s = t
<1>1. ASSUME NEW s \in Seq(T), NEW t \in Seq(T) PROVE s \o t \in Seq(T)
  BY ConcatProperties
<1>2. ASSUME NEW r \in Seq(T), NEW s \in Seq(T), NEW t \in Seq(T)
      PROVE  (r \o s) \o t = r \o (s \o t)
  BY ConcatAssociative
<1>3. ASSUME NEW s \in Seq(T) PROVE s \o <<>> = s
  BY ConcatEmptySeq
<1>4. ASSUME NEW e \in T, NEW s \in Seq(T), NEW t \in Seq(T), s \o <<e>> = t \o <<e>>
      PROVE  s = t
  BY <1>4, SameLast
<1> QED
  BY <1>1, <1>2, <1>3, <1>4, Zenon

\* Whatever stands before the texts: they can be told apart, they are never alike.
Apart(T, s, t) == \A p, q \in Seq(T) : p \o s = q \o t => p = q /\ s = t
Unlike(T, s, t) == \A p, q \in Seq(T) : p \o s # q \o t
EndsWith(T, text, e) == \E s \in Seq(T) : text = s \o <<e>>

LEMMA EndsUnlike ==
    ASSUME NEW T, NEW a, NEW b, NEW e \in T, NEW f \in T, e # f,
           EndsWith(T, a, e), EndsWith(T, b, f)
    PROVE  Unlike(T, a, b)
<1>1. PICK s \in Seq(T) : a = s \o <<e>>
  BY DEF EndsWith
<1>2. PICK t \in Seq(T) : b = t \o <<f>>
  BY DEF EndsWith
<1>3. ASSUME NEW p \in Seq(T), NEW q \in Seq(T) PROVE p \o (s \o <<e>>) # q \o (t \o <<f>>)
  <2>1. <<e>> \in Seq(T) /\ <<f>> \in Seq(T)
    BY OneToken
  <2>2. (p \o s) \o <<e>> = p \o (s \o <<e>>)
    BY <2>1, ConcatAssociative, SMTT(30)
  <2>3. (q \o t) \o <<f>> = q \o (t \o <<f>>)
    BY <2>1, ConcatAssociative, SMTT(30)
  <2>4. p \o s \in Seq(T) /\ q \o t \in Seq(T)
    BY Concatenation, Zenon
  <2>5. (p \o s) \o <<e>> # (q \o t) \o <<f>>
    BY <2>4, SameLast
  <2> QED
    BY <2>2, <2>3, <2>5, Zenon
<1> QED
  BY <1>1, <1>2, <1>3, Zenon DEF Unlike

LEMMA OneTokenEnds ==
    ASSUME NEW T, NEW e \in T
    PROVE  EndsWith(T, <<e>>, e)
<1>1. <<>> \in Seq(T) /\ <<>> \o <<e>> = <<e>>
  BY OneToken, ConcatEmptySeq
<1> QED
  BY <1>1, Zenon DEF EndsWith

LEMMA PrefixedApart ==
    ASSUME NEW T, NEW e \in T, NEW f \in T, NEW s \in Seq(T), NEW t \in Seq(T), Apart(T, s, t)
    PROVE  Apart(T, <<e>> \o s, <<f>> \o t)
<1>1. ASSUME NEW p \in Seq(T), NEW q \in Seq(T), p \o (<<e>> \o s) = q \o (<<f>> \o t)
      PROVE  p = q /\ <<e>> \o s = <<f>> \o t
  <2>1. <<e>> \in Seq(T) /\ <<f>> \in Seq(T)
    BY OneToken
  <2>2. (p \o <<e>>) \o s = p \o (<<e>> \o s)
    BY <2>1, ConcatAssociative
  <2>3. (q \o <<f>>) \o t = q \o (<<f>> \o t)
    BY <2>1, ConcatAssociative
  <2>4. p \o <<e>> \in Seq(T) /\ q \o <<f>> \in Seq(T)
    BY <2>1, Concatenation, Zenon
  <2>5. (p \o <<e>>) \o s = (q \o <<f>>) \o t
    BY <1>1, <2>2, <2>3, Zenon
  <2>6. p \o <<e>> = q \o <<f>> /\ s = t
    BY <2>4, <2>5, Zenon DEF Apart
  <2>7. p = q /\ e = f
    BY <2>6, SameLast, SMTT(30)
  <2> QED
    BY <2>6, <2>7, Zenon
<1> QED
  BY <1>1, Zenon DEF Apart

LEMMA PrefixedUnlike ==
    ASSUME NEW T, NEW e \in T, NEW s \in Seq(T), NEW t, Unlike(T, s, t)
    PROVE  Unlike(T, <<e>> \o s, t)
<1>1. ASSUME NEW p \in Seq(T) PROVE p \o (<<e>> \o s) = (p \o <<e>>) \o s /\ p \o <<e>> \in Seq(T)
  <2>1. <<e>> \in Seq(T)
    BY OneToken
  <2>2. (p \o <<e>>) \o s = p \o (<<e>> \o s)
    BY <2>1, ConcatAssociative
  <2>3. p \o <<e>> \in Seq(T)
    BY <2>1, Concatenation, Zenon
  <2> QED
    BY <2>2, <2>3, Zenon
<1> QED
  BY <1>1, Zenon DEF Unlike

\* Two sequences of texts, which are put together behind the token o.
Separable(T, u, v, o) ==
    /\ u \in Seq(Seq(T)) /\ v \in Seq(Seq(T)) /\ o \in T
    /\ \A i \in 1..Len(u), j \in 1..Len(v) : Apart(T, u[i], v[j])
    /\ \A i \in 1..Len(u) : Unlike(T, u[i], <<o>>)
    /\ \A j \in 1..Len(v) : Unlike(T, v[j], <<o>>)

LEMMA Unflattened ==
    ASSUME NEW T, NEW u, NEW v, NEW o, Separable(T, u, v, o)
    PROVE  \A p, q \in Seq(T) :
              (p \o <<o>>) \o FlattenSeq(u) = (q \o <<o>>) \o FlattenSeq(v) => p = q /\ u = v
<1> DEFINE m == Len(u)
           n == Len(v)
           Texts == Seq(T)
           Cat(s, t) == s \o t
           one == <<o>>
           fu == FlattenSeq(u)
           fv == FlattenSeq(v)
<1>1. /\ m \in Nat /\ n \in Nat /\ one \in Texts
      /\ \A i \in 1..m : u[i] \in Texts
      /\ \A j \in 1..n : v[j] \in Texts
  <2>1. u \in Seq(Seq(T)) /\ v \in Seq(Seq(T)) /\ o \in T
    BY DEF Separable
  <2> QED
    BY <2>1
<1>2. /\ \A s, t \in Texts : Cat(s, t) \in Texts
      /\ \A s \in Texts : Cat(s, <<>>) = s
      /\ \A s, t \in Texts : Cat(s, one) = Cat(t, one) => s = t
  <2>1. o \in T
    BY DEF Separable
  <2> QED
    BY <2>1, Concatenation, Zenon
<1>3. \A r, s, t \in Texts : Cat(Cat(r, s), t) = Cat(r, Cat(s, t))
  BY Concatenation, Zenon
<1>4. /\ \A i \in 1..m, j \in 1..n : \A r, s \in Texts :
            Cat(r, u[i]) = Cat(s, v[j]) => r = s /\ u[i] = v[j]
      /\ \A i \in 1..m : \A r, s \in Texts : Cat(r, u[i]) # Cat(s, one)
      /\ \A j \in 1..n : \A r, s \in Texts : Cat(r, v[j]) # Cat(s, one)
  BY Zenon DEF Separable, Apart, Unlike
<1>5. \E J \in [0..m -> Texts] :
         J[0] = <<>> /\ (\A i \in 1..m : J[i] = Cat(J[i - 1], u[i])) /\ fu = J[m]
  BY Flattened, Zenon DEF Separable
<1>6. \E K \in [0..n -> Texts] :
         K[0] = <<>> /\ (\A j \in 1..n : K[j] = Cat(K[j - 1], v[j])) /\ fv = K[n]
  BY Flattened, Zenon DEF Separable
<1>7. (\A i \in 1..m : u[i] = v[i]) /\ m = n => u = v
  BY SeqEqual DEF Separable
<1>8. SUFFICES \A p, q \in Texts : Cat(Cat(p, one), fu) = Cat(Cat(q, one), fv) => p = q /\ u = v
  BY <1>8, Zenon
<1> HIDE DEF m, n, Texts, Cat, one, fu, fv
<1> SUFFICES ASSUME NEW p \in Texts, NEW q \in Texts,
                    Cat(Cat(p, one), fu) = Cat(Cat(q, one), fv)
             PROVE  p = q /\ u = v
  BY Zenon
<1>9. PICK J \in [0..m -> Texts] :
         J[0] = <<>> /\ (\A i \in 1..m : J[i] = Cat(J[i - 1], u[i])) /\ fu = J[m]
  BY <1>5
<1>10. PICK K \in [0..n -> Texts] :
         K[0] = <<>> /\ (\A j \in 1..n : K[j] = Cat(K[j - 1], v[j])) /\ fv = K[n]
  BY <1>6
<1> DEFINE P == Cat(p, one)
           Q == Cat(q, one)
           Good == {k \in Nat : k <= m =>
                       \A l \in 0..n : Cat(P, J[k]) = Cat(Q, K[l]) =>
                           p = q /\ k = l /\ \A i \in 1..k : u[i] = v[i]}
<1>11. P \in Texts /\ Q \in Texts
  BY <1>1, <1>2
<1>12. ASSUME NEW l \in 1..n
       PROVE  Cat(Q, K[l]) = Cat(Cat(Q, K[l - 1]), v[l]) /\ Cat(Q, K[l - 1]) \in Texts
  <2>1. l - 1 \in 0..n /\ K[l - 1] \in Texts /\ v[l] \in Texts /\ K[l] = Cat(K[l - 1], v[l])
    BY <1>1, <1>10
  <2> HIDE DEF Q
  <2>2. Cat(Q, K[l - 1]) \in Texts
    BY <1>2, <1>11, <2>1, Zenon
  <2>3. Cat(Cat(Q, K[l - 1]), v[l]) = Cat(Q, Cat(K[l - 1], v[l]))
    <3>1. Q \in Texts /\ K[l - 1] \in Texts /\ v[l] \in Texts
      BY <1>11, <2>1
    <3> QED
      BY <1>3, <3>1
  <2> QED
    BY <2>1, <2>2, <2>3, Zenon
<1>13. ASSUME NEW k \in 1..m
       PROVE  Cat(P, J[k]) = Cat(Cat(P, J[k - 1]), u[k]) /\ Cat(P, J[k - 1]) \in Texts
  <2>1. k - 1 \in 0..m /\ J[k - 1] \in Texts /\ u[k] \in Texts /\ J[k] = Cat(J[k - 1], u[k])
    BY <1>1, <1>9
  <2> HIDE DEF P
  <2>2. Cat(P, J[k - 1]) \in Texts
    BY <1>2, <1>11, <2>1, Zenon
  <2>3. Cat(Cat(P, J[k - 1]), u[k]) = Cat(P, Cat(J[k - 1], u[k]))
    <3>1. P \in Texts /\ J[k - 1] \in Texts /\ u[k] \in Texts
      BY <1>11, <2>1
    <3> QED
      BY <1>3, <3>1
  <2> QED
    BY <2>1, <2>2, <2>3, Zenon
<1>14. 0 \in Good
  <2> SUFFICES ASSUME NEW l \in 0..n, Cat(P, J[0]) = Cat(Q, K[l])
               PROVE  p = q /\ 0 = l /\ \A i \in 1..0 : u[i] = v[i]
    OBVIOUS
  <2>1. Cat(P, J[0]) = P
    BY <1>2, <1>9, <1>11
  <2>2. l = 0
    <3> SUFFICES ASSUME l \in 1..n PROVE FALSE
      BY <1>1
    <3>1. Cat(Cat(Q, K[l - 1]), v[l]) = Cat(p, one)
      BY <1>12, <2>1
    <3> QED
      BY <1>4, <1>12, <3>1
  <2>3. Cat(Q, K[0]) = Q
    BY <1>2, <1>10, <1>11
  <2>4. p = q
    BY <1>2, <2>1, <2>2, <2>3, Zenon
  <2> QED
    BY <2>2, <2>4
<1>15. ASSUME NEW k \in Nat, k \in Good PROVE k + 1 \in Good
  <2> SUFFICES ASSUME k + 1 <= m, NEW l \in 0..n, Cat(P, J[k + 1]) = Cat(Q, K[l])
               PROVE  p = q /\ k + 1 = l /\ \A i \in 1..(k + 1) : u[i] = v[i]
    OBVIOUS
  <2>1. k + 1 \in 1..m /\ (k + 1) - 1 = k /\ k <= m
    BY <1>1
  <2>2. Cat(P, J[k + 1]) = Cat(Cat(P, J[k]), u[k + 1]) /\ Cat(P, J[k]) \in Texts
    BY <1>13, <2>1
  <2>3. CASE l = 0
    <3>1. Cat(Q, K[0]) = Cat(q, one)
      BY <1>2, <1>10, <1>11
    <3> HIDE DEF P, Q
    <3>2. Cat(Cat(P, J[k]), u[k + 1]) = Cat(q, one)
      BY <2>2, <2>3, <3>1, Zenon
    <3> QED
      BY <1>4, <2>1, <2>2, <3>2
  <2>4. CASE l \in 1..n
    <3>1. Cat(Q, K[l]) = Cat(Cat(Q, K[l - 1]), v[l]) /\ Cat(Q, K[l - 1]) \in Texts
      BY <1>12, <2>4
    <3>2. Cat(P, J[k]) = Cat(Q, K[l - 1]) /\ u[k + 1] = v[l]
      <4> HIDE DEF P, Q
      <4>1. Cat(Cat(P, J[k]), u[k + 1]) = Cat(Cat(Q, K[l - 1]), v[l])
        BY <2>2, <3>1, Zenon
      <4> QED
        BY <1>4, <2>1, <2>2, <2>4, <3>1, <4>1
    <3>3. l - 1 \in 0..n
      BY <1>1, <2>4
    <3>4. p = q /\ k = l - 1 /\ \A i \in 1..k : u[i] = v[i]
      BY <1>15, <2>1, <3>2, <3>3
    <3>5. k + 1 = l
      BY <1>1, <2>4, <3>4
    <3> QED
      BY <3>2, <3>4, <3>5
  <2> QED
    BY <1>1, <2>3, <2>4
<1>16. m \in Good
  <2> HIDE DEF Good
  <2> QED
    BY <1>1, <1>14, <1>15, InductionOnSets
<1>17. n \in 0..n /\ Cat(P, J[m]) = Cat(Q, K[n])
  BY <1>1, <1>9, <1>10
<1>18. p = q /\ m = n /\ \A i \in 1..m : u[i] = v[i]
  <2> HIDE DEF P, Q
  <2> QED
    BY <1>1, <1>16, <1>17
<1> QED
  BY <1>7, <1>18

\* An object or a list.
Enclosed(o, u, c) == <<o>> \o FlattenSeq(u) \o <<c>>

LEMMA FlattenedIsText ==
    ASSUME NEW T, NEW u \in Seq(Seq(T))
    PROVE  FlattenSeq(u) \in Seq(T)
<1>1. PICK J \in [0..Len(u) -> Seq(T)] : FlattenSeq(u) = J[Len(u)]
  BY Flattened, Zenon
<1>2. Len(u) \in 0..Len(u)
  OBVIOUS
<1> QED
  BY <1>1, <1>2, Zenon

LEMMA EnclosedIsText ==
    ASSUME NEW T, NEW u \in Seq(Seq(T)), NEW o \in T, NEW c \in T
    PROVE  Enclosed(o, u, c) \in Seq(T) /\ EndsWith(T, Enclosed(o, u, c), c)
<1>1. <<o>> \in Seq(T) /\ <<c>> \in Seq(T)
  BY OneToken
<1>2. FlattenSeq(u) \in Seq(T)
  BY FlattenedIsText
<1>3. <<o>> \o FlattenSeq(u) \in Seq(T)
  BY <1>1, <1>2, Concatenation, Zenon
<1>4. Enclosed(o, u, c) \in Seq(T)
  BY <1>1, <1>3, Concatenation, Zenon DEF Enclosed
<1> QED
  BY <1>3, <1>4, Zenon DEF Enclosed, EndsWith

LEMMA EnclosedApart ==
    ASSUME NEW T, NEW u, NEW v, NEW o, NEW c \in T, Separable(T, u, v, o)
    PROVE  /\ Apart(T, Enclosed(o, u, c), Enclosed(o, v, c))
           /\ Enclosed(o, u, c) = Enclosed(o, v, c) => u = v
<1> DEFINE fu == FlattenSeq(u)
           fv == FlattenSeq(v)
<1>1. u \in Seq(Seq(T)) /\ v \in Seq(Seq(T)) /\ o \in T
  BY Zenon DEF Separable
<1>2. fu \in Seq(T) /\ fv \in Seq(T)
  BY <1>1, FlattenedIsText
<1>3. \A p, q \in Seq(T) : (p \o <<o>>) \o fu = (q \o <<o>>) \o fv => p = q /\ u = v
  BY Unflattened, Zenon
<1> HIDE DEF fu, fv
<1>4. ASSUME NEW p \in Seq(T), NEW q \in Seq(T),
             p \o (<<o>> \o fu \o <<c>>) = q \o (<<o>> \o fv \o <<c>>)
      PROVE  p = q /\ u = v
  <2> DEFINE x == <<o>> \o fu
             y == <<o>> \o fv
             last == <<c>>
  <2>1. <<o>> \in Seq(T) /\ last \in Seq(T)
    BY <1>1, OneToken
  <2>2. x \in Seq(T) /\ y \in Seq(T)
    BY <1>2, <2>1, Concatenation, Zenon
  <2>3. p \o (x \o last) = q \o (y \o last)
    BY <1>4, Zenon
  <2>4. p \o x = q \o y
    <3> HIDE DEF x, y, last
    <3>1. (p \o x) \o last = p \o (x \o last)
      BY <2>1, <2>2, ConcatAssociative, SMTT(30)
    <3>2. (q \o y) \o last = q \o (y \o last)
      BY <2>1, <2>2, ConcatAssociative, SMTT(30)
    <3>3. (p \o x) \o last = (q \o y) \o last
      BY <2>3, <3>1, <3>2, Zenon
    <3> DEFINE r == p \o x
               s == q \o y
    <3>4. r \in Seq(T) /\ s \in Seq(T) /\ r \o <<c>> = s \o <<c>>
      BY <2>2, <3>3, Concatenation, Zenon DEF last
    <3> HIDE DEF r, s
    <3>5. r = s
      BY <3>4, SameLast
    <3> QED
      BY <3>5, Zenon DEF r, s
  <2>5. (p \o <<o>>) \o fu = p \o x
    BY <1>2, <2>1, ConcatAssociative
  <2>6. (q \o <<o>>) \o fv = q \o y
    BY <1>2, <2>1, ConcatAssociative
  <2>7. (p \o <<o>>) \o fu = (q \o <<o>>) \o fv
    BY <2>4, <2>5, <2>6, Zenon
  <2> QED
    BY <1>3, <2>7, Zenon
<1>5. Apart(T, Enclosed(o, u, c), Enclosed(o, v, c))
  BY <1>4, Zenon DEF Apart, Enclosed, fu, fv
<1>6. ASSUME Enclosed(o, u, c) = Enclosed(o, v, c) PROVE u = v
  <2>1. <<>> \in Seq(T)
    OBVIOUS
  <2>2. <<>> \o Enclosed(o, u, c) = <<>> \o Enclosed(o, v, c)
    BY <1>6, Zenon
  <2> QED
    BY <1>4, <2>1, <2>2, Zenon DEF Enclosed, fu, fv
<1> QED
  BY <1>5, <1>6

-----------------------------------------------------------------------------
(* Objects: their keys, and the value each key has. *)

\* The pairs of an object, as far as the lemmas look at them.
IsPairs(pairs) == Len(pairs) \in Nat /\ DOMAIN pairs = 1..Len(pairs)

LEMMA LastExists ==
    ASSUME NEW pairs, IsPairs(pairs), NEW key \in KeysIn(pairs)
    PROVE  LET i == LastOf(pairs, key)
           IN  /\ i \in DOMAIN pairs
               /\ pairs[i][1] = key
               /\ \A j \in DOMAIN pairs : pairs[j][1] = key => j <= i
<1> DEFINE Where == {i \in DOMAIN pairs : pairs[i][1] = key}
<1>1. \E i \in Where : \A j \in Where : j <= i
  <2> DEFINE Good == {n \in Nat : (\E i \in Where : i <= n)
                                  => \E i \in Where : i <= n /\ \A j \in Where : j <= n => j <= i}
  <2>1. 0 \in Good
    BY DEF IsPairs
  <2>2. ASSUME NEW n \in Nat, n \in Good PROVE n + 1 \in Good
    <3>1. CASE n + 1 \in Where
      BY <3>1 DEF IsPairs
    <3>2. CASE n + 1 \notin Where
      <4>1. \A j \in Where : j <= n + 1 => j <= n
        BY <3>2 DEF IsPairs
      <4> QED
        BY <2>2, <4>1 DEF IsPairs
    <3> QED
      BY <3>1, <3>2
  <2> HIDE DEF Good
  <2>3. Len(pairs) \in Good
    BY <2>1, <2>2, InductionOnSets DEF IsPairs
  <2> QED
    BY <2>3 DEF Good, IsPairs, KeysIn
<1> QED
  BY <1>1 DEF LastOf

\* What the first n pairs have put into a dict: each key once, with its last value.
IsDict(d, pairs, n) ==
    /\ d \in Seq({pairs[i] : i \in DOMAIN pairs})
    /\ \A i, j \in DOMAIN d : d[i][1] = d[j][1] => i = j
    /\ \A i \in DOMAIN d : \E l \in 1..n :
          d[i] = pairs[l] /\ \A k \in 1..n : pairs[k][1] = pairs[l][1] => k <= l
    /\ \A l \in 1..n : \E i \in DOMAIN d : d[i][1] = pairs[l][1]

LEMMA PutKeepsDict ==
    ASSUME NEW pairs, IsPairs(pairs), NEW n \in 1..Len(pairs), NEW d, IsDict(d, pairs, n - 1)
    PROVE  IsDict(Put(d, pairs[n]), pairs, n)
<1> DEFINE S == {pairs[i] : i \in DOMAIN pairs}
           e == Put(d, pairs[n])
<1>1. pairs[n] \in S /\ d \in Seq(S) /\ n \in Nat /\ 1..n = 1..(n - 1) \cup {n}
  BY DEF IsPairs, IsDict
<1>2. CASE \E i \in DOMAIN d : d[i][1] = pairs[n][1]
  <2>1. e = [i \in DOMAIN d |-> IF d[i][1] = pairs[n][1] THEN pairs[n] ELSE d[i]]
    BY <1>2 DEF Put
  <2>2. e \in Seq(S) /\ DOMAIN e = DOMAIN d
    <3> HIDE DEF S
    <3>1. DOMAIN d = 1..Len(d) /\ Len(d) \in Nat /\ \A i \in DOMAIN d : d[i] \in S
      BY <1>1
    <3>2. e \in [1..Len(d) -> S]
      BY <1>1, <2>1, <3>1
    <3> QED
      BY <2>1, <3>1, <3>2
  <2> HIDE DEF e
  <2>3. \A i \in DOMAIN d : e[i][1] = d[i][1]
    BY <2>1
  <2>4. \A i, j \in DOMAIN e : e[i][1] = e[j][1] => i = j
    BY <2>2, <2>3 DEF IsDict
  <2>5. ASSUME NEW i \in DOMAIN e
        PROVE  \E l \in 1..n :
                  e[i] = pairs[l] /\ \A k \in 1..n : pairs[k][1] = pairs[l][1] => k <= l
    <3>1. CASE d[i][1] = pairs[n][1]
      BY <1>1, <2>1, <2>2, <3>1
    <3>2. CASE d[i][1] # pairs[n][1]
      <4>1. PICK l \in 1..(n - 1) :
               d[i] = pairs[l] /\ \A k \in 1..(n - 1) : pairs[k][1] = pairs[l][1] => k <= l
        BY <2>2 DEF IsDict
      <4>2. e[i] = pairs[l] /\ l \in 1..n
        BY <1>1, <2>1, <2>2, <3>2, <4>1
      <4>3. \A k \in 1..n : pairs[k][1] = pairs[l][1] => k <= l
        BY <1>1, <3>2, <4>1
      <4> QED
        BY <4>2, <4>3
    <3> QED
      BY <3>1, <3>2
  <2>6. ASSUME NEW l \in 1..n PROVE \E i \in DOMAIN e : e[i][1] = pairs[l][1]
    <3>1. CASE l = n
      BY <1>2, <2>2, <2>3, <3>1
    <3>2. CASE l \in 1..(n - 1)
      <4>1. PICK i \in DOMAIN d : d[i][1] = pairs[l][1]
        BY <3>2 DEF IsDict
      <4> QED
        BY <2>2, <2>3, <4>1
    <3> QED
      BY <1>1, <3>1, <3>2
  <2> QED
    BY <2>2, <2>4, <2>5, <2>6 DEF IsDict, e
<1>3. CASE ~ \E i \in DOMAIN d : d[i][1] = pairs[n][1]
  <2>1. e = Append(d, pairs[n])
    BY <1>3, Zenon DEF Put
  <2> DEFINE m == Len(d)
  <2>2. /\ e \in Seq(S) /\ m \in Nat /\ DOMAIN d = 1..m /\ DOMAIN e = 1..(m + 1)
        /\ e[m + 1] = pairs[n] /\ \A i \in 1..m : e[i] = d[i]
    <3> HIDE DEF S, e
    <3> QED
      BY <1>1, <2>1
  <2> HIDE DEF e, m
  <2>3. ASSUME NEW i \in DOMAIN e, NEW j \in DOMAIN e, e[i][1] = e[j][1] PROVE i = j
    <3>1. \A k \in 1..m : e[k] = d[k] /\ e[k][1] # pairs[n][1]
      BY <1>3, <2>2
    <3>2. CASE i \in 1..m /\ j \in 1..m
      <4>1. \A k, l \in DOMAIN d : d[k][1] = d[l][1] => k = l
        BY DEF IsDict
      <4>2. d[i][1] = d[j][1]
        BY <2>3, <3>1, <3>2
      <4> QED
        BY <2>2, <3>2, <4>1, <4>2
    <3>3. CASE i = m + 1 \/ j = m + 1
      <4>1. (i \in 1..m \/ i = m + 1) /\ (j \in 1..m \/ j = m + 1)
        BY <2>2
      <4>2. e[m + 1][1] = pairs[n][1]
        BY <2>2
      <4> QED
        BY <2>3, <3>1, <3>3, <4>1, <4>2
    <3> QED
      BY <2>2, <3>2, <3>3
  <2>4. ASSUME NEW i \in DOMAIN e
        PROVE  \E l \in 1..n :
                  e[i] = pairs[l] /\ \A k \in 1..n : pairs[k][1] = pairs[l][1] => k <= l
    <3>1. CASE i = m + 1
      BY <1>1, <2>2, <3>1
    <3>2. CASE i \in 1..m
      <4>1. PICK l \in 1..(n - 1) :
               d[i] = pairs[l] /\ \A k \in 1..(n - 1) : pairs[k][1] = pairs[l][1] => k <= l
        BY <2>2, <3>2 DEF IsDict
      <4>2. e[i] = pairs[l] /\ l \in 1..n
        BY <1>1, <2>2, <3>2, <4>1
      <4>3. \A k \in 1..n : pairs[k][1] = pairs[l][1] => k <= l
        BY <1>1, <1>3, <2>2, <3>2, <4>1
      <4> QED
        BY <4>2, <4>3
    <3> QED
      BY <2>2, <3>1, <3>2
  <2>5. ASSUME NEW l \in 1..n PROVE \E i \in DOMAIN e : e[i][1] = pairs[l][1]
    <3>1. CASE l = n
      BY <2>2, <3>1
    <3>2. CASE l \in 1..(n - 1)
      <4>1. PICK i \in DOMAIN d : d[i][1] = pairs[l][1]
        BY <3>2 DEF IsDict
      <4>2. i \in DOMAIN e /\ e[i] = d[i]
        BY <2>2, <4>1
      <4> QED
        BY <4>1, <4>2
    <3> QED
      BY <1>1, <3>1, <3>2
  <2> QED
    BY <2>2, <2>3, <2>4, <2>5 DEF IsDict, e
<1> QED
  BY <1>2, <1>3

LEMMA DictIsDict ==
    ASSUME NEW pairs, IsPairs(pairs)
    PROVE  IsDict(Dict(pairs), pairs, Len(pairs))
<1> DEFINE Node(f, n) == IF n = 0 THEN <<>> ELSE Put(f[n - 1], pairs[n])
           Good == {n \in Nat : \E f : f = [m \in 0..n |-> Node(f, m)]}
<1>1. 0 \in Good
  <2> DEFINE f == [m \in 0..0 |-> <<>>]
  <2>1. f = [m \in 0..0 |-> Node(f, m)]
    OBVIOUS
  <2> HIDE DEF f
  <2> QED
    BY <2>1
<1>2. ASSUME NEW n \in Nat, n \in Good PROVE n + 1 \in Good
  <2>1. PICK f : f = [m \in 0..n |-> Node(f, m)]
    BY <1>2
  <2> DEFINE g == [m \in 0..(n + 1) |-> Node(f, m)]
  <2>2. ASSUME NEW m \in 0..(n + 1) PROVE Node(f, m) = Node(g, m)
    <3>1. CASE m = 0
      BY <3>1
    <3>2. CASE m # 0
      <4>1. m - 1 \in 0..n /\ m - 1 \in 0..(n + 1)
        BY <3>2
      <4>2. f[m - 1] = g[m - 1]
        <5> HIDE DEF Node
        <5> QED
          BY <2>1, <4>1
      <4> QED
        BY <3>2, <4>2
    <3> QED
      BY <3>1, <3>2
  <2>3. g = [m \in 0..(n + 1) |-> Node(g, m)]
    BY <2>2
  <2> HIDE DEF g, Node
  <2> QED
    BY <2>3
<1>3. Len(pairs) \in Good
  <2> HIDE DEF Good
  <2> QED
    BY <1>1, <1>2, InductionOnSets DEF IsPairs
<1> DEFINE put == CHOOSE f : f = [m \in 0..Len(pairs) |-> Node(f, m)]
<1>4. Dict(pairs) = put[Len(pairs)]
  BY Zenon DEF Dict
<1>5. put = [m \in 0..Len(pairs) |-> Node(put, m)]
  <2>1. \E f : f = [m \in 0..Len(pairs) |-> Node(f, m)]
    BY <1>3
  <2> HIDE DEF Node
  <2> QED
    BY <2>1, Zenon
<1> HIDE DEF put
<1>6. put[0] = <<>> /\ \A n \in 1..Len(pairs) : put[n] = Put(put[n - 1], pairs[n])
  <2>1. \A n \in 0..Len(pairs) : put[n] = Node(put, n)
    <3> HIDE DEF Node
    <3> QED
      BY <1>5
  <2> QED
    BY <2>1 DEF IsPairs
<1> DEFINE Done == {n \in Nat : n <= Len(pairs) => IsDict(put[n], pairs, n)}
<1>7. 0 \in Done
  <2>1. <<>> \in Seq({pairs[i] : i \in DOMAIN pairs}) /\ DOMAIN <<>> = {}
    <3> DEFINE S == {pairs[i] : i \in DOMAIN pairs}
    <3> HIDE DEF S
    <3>1. <<>> \in Seq(S) /\ DOMAIN <<>> = {}
      OBVIOUS
    <3> QED
      BY <3>1 DEF S
  <2>2. 1..0 = {}
    OBVIOUS
  <2> QED
    BY <1>6, <2>1, <2>2 DEF IsDict
<1>8. ASSUME NEW n \in Nat, n \in Done PROVE n + 1 \in Done
  <2>1. CASE n + 1 <= Len(pairs)
    <3>1. IsDict(put[n], pairs, n) /\ n + 1 \in 1..Len(pairs) /\ (n + 1) - 1 = n
      BY <1>8, <2>1 DEF IsPairs
    <3>2. put[n + 1] = Put(put[n], pairs[n + 1])
      BY <1>6, <3>1
    <3>3. IsDict(put[n + 1], pairs, n + 1)
      BY <3>1, <3>2, PutKeepsDict
    <3> QED
      BY <3>3
  <2>2. CASE ~ n + 1 <= Len(pairs)
    BY <2>2
  <2> QED
    BY <2>1, <2>2
<1>9. Len(pairs) \in Done
  <2> HIDE DEF Done
  <2> QED
    BY <1>7, <1>8, InductionOnSets DEF IsPairs
<1> QED
  BY <1>4, <1>9 DEF IsPairs

\* A dict has the keys of the pairs, each once, and the last value of each.
LEMMA DictFacts ==
    ASSUME NEW pairs, IsPairs(pairs)
    PROVE  LET d == Dict(pairs)
           IN  /\ IsPairs(d)
               /\ KeysIn(d) = KeysIn(pairs)
               /\ \A i, j \in DOMAIN d : d[i][1] = d[j][1] => i = j
               /\ \A i \in DOMAIN d : d[i] = pairs[LastOf(pairs, d[i][1])]
<1> DEFINE d == Dict(pairs)
<1>1. IsDict(d, pairs, Len(pairs))
  BY DictIsDict
<1> HIDE DEF d
<1>2. IsPairs(d)
  BY <1>1 DEF IsDict, IsPairs
<1>3. ASSUME NEW i \in DOMAIN d
      PROVE  d[i] = pairs[LastOf(pairs, d[i][1])] /\ d[i][1] \in KeysIn(pairs)
  <2>1. PICK l \in DOMAIN pairs :
           d[i] = pairs[l] /\ \A k \in DOMAIN pairs : pairs[k][1] = pairs[l][1] => k <= l
    BY <1>1 DEF IsDict, IsPairs
  <2>2. d[i][1] \in KeysIn(pairs)
    BY <2>1 DEF KeysIn
  <2>3. LastOf(pairs, d[i][1]) = l
    BY <2>1, <2>2, LastExists DEF IsPairs
  <2> QED
    BY <2>1, <2>2, <2>3
<1>4. KeysIn(pairs) \subseteq KeysIn(d)
  <2> SUFFICES ASSUME NEW l \in DOMAIN pairs PROVE pairs[l][1] \in KeysIn(d)
    BY DEF KeysIn
  <2>1. PICK i \in DOMAIN d : d[i][1] = pairs[l][1]
    BY <1>1 DEF IsDict, IsPairs
  <2> QED
    BY <2>1 DEF KeysIn
<1>5. KeysIn(d) \subseteq KeysIn(pairs)
  BY <1>3 DEF KeysIn
<1> QED
  BY <1>1, <1>2, <1>3, <1>4, <1>5 DEF IsDict, d

\* A node depends on what is computed for its parts, and on nothing else.
LEMMA LoadLocal ==
    ASSUME NEW json \in Values, NEW f, NEW g, \A part \in Parts(json) : f[part] = g[part]
    PROVE  LoadNode(f, json) = LoadNode(g, json)
<1>1. CASE json[1] = "obj"
  <2>1. [i \in DOMAIN json[2] |-> <<json[2][i][1], f[json[2][i][2]]>>]
        = [i \in DOMAIN json[2] |-> <<json[2][i][1], g[json[2][i][2]]>>]
    BY <1>1 DEF Parts
  <2> QED
    BY <1>1, <2>1, Zenon DEF LoadNode
<1>2. CASE json[1] = "list"
  <2>1. [i \in DOMAIN json[2] |-> f[json[2][i]]] = [i \in DOMAIN json[2] |-> g[json[2][i]]]
    BY <1>2 DEF Parts
  <2> QED
    BY <1>2, <2>1 DEF LoadNode
<1> QED
  BY <1>1, <1>2 DEF LoadNode

LEMMA LoadDefined == LoadJson = [json \in Values |-> LoadNode(LoadJson, json)]
<1> DEFINE Good == {n \in Nat : \E f : f = [json \in Below(n) |-> LoadNode(f, json)]}
<1>1. 0 \in Good
  <2> DEFINE f == [json \in {} |-> 0]
  <2>1. f = [json \in Below(0) |-> LoadNode(f, json)]
    BY BelowFacts
  <2> QED
    BY <2>1
<1>2. ASSUME NEW n \in Nat, n \in Good PROVE n + 1 \in Good
  <2>1. PICK f : f = [json \in Below(n) |-> LoadNode(f, json)]
    BY <1>2
  <2> DEFINE g == [json \in Below(n + 1) |-> LoadNode(f, json)]
  <2>2. Below(n) \subseteq Below(n + 1) /\ Below(n + 1) \subseteq Values
    BY ValuesAssumption DEF Below
  <2>3. ASSUME NEW json \in Below(n + 1) PROVE LoadNode(f, json) = LoadNode(g, json)
    <3>1. ASSUME NEW part \in Parts(json) PROVE f[part] = g[part]
      <4>1. part \in Below(n)
        BY BelowFacts
      <4> QED
        BY <2>1, <2>2, <4>1
    <3> HIDE DEF g
    <3> QED
      BY <2>2, <3>1, LoadLocal
  <2>4. g = [json \in Below(n + 1) |-> LoadNode(g, json)]
    BY <2>3
  <2> HIDE DEF g
  <2> QED
    BY <2>4
<1>3. MaxDepth + 1 \in Good
  <2> HIDE DEF Good
  <2>1. \A n \in Nat : n \in Good
    BY <1>1, <1>2, InductionOnSets
  <2> QED
    BY <2>1, ValuesAssumption
<1>4. \E f : f = [json \in Values |-> LoadNode(f, json)]
  BY <1>3, BelowFacts
<1> QED
  BY <1>4, Zenon DEF LoadJson
LEMMA MeaningLocal ==
    ASSUME NEW json \in Values, NEW f, NEW g, \A part \in Parts(json) : f[part] = g[part]
    PROVE  MeaningNode(f, json) = MeaningNode(g, json)
<1>1. CASE json[1] = "obj"
  <2>1. \A k \in KeysIn(json[2]) : json[2][LastOf(json[2], k)][2] \in Parts(json)
    <3> SUFFICES ASSUME NEW k \in KeysIn(json[2])
                 PROVE  json[2][LastOf(json[2], k)][2] \in Parts(json)
      OBVIOUS
    <3>1. LastOf(json[2], k) \in DOMAIN json[2]
      BY <1>1, LastExists, ValuesAssumption DEF IsPairs
    <3> QED
      BY <1>1, <3>1 DEF Parts
  <2>2. [k \in KeysIn(json[2]) |-> f[json[2][LastOf(json[2], k)][2]]]
        = [k \in KeysIn(json[2]) |-> g[json[2][LastOf(json[2], k)][2]]]
    BY <2>1
  <2> QED
    BY <1>1, <2>2, Zenon DEF MeaningNode
<1>2. CASE json[1] = "list"
  <2>1. [i \in DOMAIN json[2] |-> f[json[2][i]]] = [i \in DOMAIN json[2] |-> g[json[2][i]]]
    BY <1>2 DEF Parts
  <2> QED
    BY <1>2, <2>1 DEF MeaningNode
<1> QED
  BY <1>1, <1>2 DEF MeaningNode

LEMMA MeaningDefined == Meaning = [json \in Values |-> MeaningNode(Meaning, json)]
<1> DEFINE Good == {n \in Nat : \E f : f = [json \in Below(n) |-> MeaningNode(f, json)]}
<1>1. 0 \in Good
  <2> DEFINE f == [json \in {} |-> 0]
  <2>1. f = [json \in Below(0) |-> MeaningNode(f, json)]
    BY BelowFacts
  <2> QED
    BY <2>1
<1>2. ASSUME NEW n \in Nat, n \in Good PROVE n + 1 \in Good
  <2>1. PICK f : f = [json \in Below(n) |-> MeaningNode(f, json)]
    BY <1>2
  <2> DEFINE g == [json \in Below(n + 1) |-> MeaningNode(f, json)]
  <2>2. Below(n) \subseteq Below(n + 1) /\ Below(n + 1) \subseteq Values
    BY ValuesAssumption DEF Below
  <2>3. ASSUME NEW json \in Below(n + 1) PROVE MeaningNode(f, json) = MeaningNode(g, json)
    <3>1. ASSUME NEW part \in Parts(json) PROVE f[part] = g[part]
      <4>1. part \in Below(n)
        BY BelowFacts
      <4> QED
        BY <2>1, <2>2, <4>1
    <3> HIDE DEF g
    <3> QED
      BY <2>2, <3>1, MeaningLocal
  <2>4. g = [json \in Below(n + 1) |-> MeaningNode(g, json)]
    BY <2>3
  <2> HIDE DEF g
  <2> QED
    BY <2>4
<1>3. MaxDepth + 1 \in Good
  <2> HIDE DEF Good
  <2>1. \A n \in Nat : n \in Good
    BY <1>1, <1>2, InductionOnSets
  <2> QED
    BY <2>1, ValuesAssumption
<1>4. \E f : f = [json \in Values |-> MeaningNode(f, json)]
  BY <1>3, BelowFacts
<1> QED
  BY <1>4, Zenon DEF Meaning

-----------------------------------------------------------------------------
(* The keys of an object, in the order of the canonical form *)

LEMMA KeysFinite ==
    ASSUME NEW pairs, IsPairs(pairs)
    PROVE  IsFiniteSet(KeysIn(pairs))
<1> DEFINE key == [i \in 1..Len(pairs) |-> pairs[i][1]]
<1>1. key \in Surjection(1..Len(pairs), KeysIn(pairs))
  BY DEF Surjection, KeysIn, IsPairs
<1>2. IsFiniteSet(1..Len(pairs))
  BY FS_Interval DEF IsPairs
<1> HIDE DEF key
<1> QED
  BY <1>1, <1>2, FS_Surjection

LEMMA OrderFacts ==
    ASSUME NEW S, IsFiniteSet(S)
    PROVE  /\ Cardinality(S) \in Nat
           /\ SetToSeq(S) \in [1..Cardinality(S) -> S]
           /\ \A x \in S : \E i \in 1..Cardinality(S) : SetToSeq(S)[i] = x
<1> DEFINE n == Cardinality(S)
           order == SetToSeq(S)
<1>1. n \in Nat /\ ExistsBijection(1..n, S)
  BY FS_CardinalityType
<1>2. \E f \in [1..n -> S] : IsInjective(f)
  BY <1>1 DEF ExistsBijection, Bijection, Injection
<1>3. order \in [1..n -> S] /\ IsInjective(order)
  BY <1>2, Zenon DEF SetToSeq
<1>4. Cardinality(1..n) = n
  BY <1>1, FS_Interval
<1> HIDE DEF n, order
<1>5. order \in Surjection(1..n, S)
  <2>1. order \in Injection(1..n, S)
    BY <1>3 DEF Injection
  <2> QED
    BY <2>1, <1>4, FS_Injection DEF n
<1> QED
  BY <1>1, <1>3, <1>5 DEF Surjection, n, order

LEMMA SortedFacts ==
    ASSUME NEW dict, IsPairs(dict)
    PROVE  LET keys == SetToSeq(KeysIn(dict))
               pairs == Sorted(dict)
           IN  /\ DOMAIN pairs = 1..Cardinality(KeysIn(dict))
               /\ \A k \in DOMAIN pairs : /\ keys[k] \in KeysIn(dict)
                                          /\ pairs[k][1] = keys[k]
                                          /\ \E i \in DOMAIN dict : pairs[k] = dict[i]
<1> DEFINE keys == SetToSeq(KeysIn(dict))
           pairs == Sorted(dict)
           where(k) == CHOOSE i \in DOMAIN dict : dict[i][1] = keys[k]
<1>1. keys \in [1..Cardinality(KeysIn(dict)) -> KeysIn(dict)]
  BY KeysFinite, OrderFacts
<1>2. pairs = [k \in DOMAIN keys |-> dict[where(k)]]
  BY Zenon DEF Sorted
<1> HIDE DEF keys
<1>3. ASSUME NEW k \in DOMAIN keys
      PROVE  keys[k] \in KeysIn(dict) /\ where(k) \in DOMAIN dict /\ dict[where(k)][1] = keys[k]
  <2>1. keys[k] \in KeysIn(dict)
    BY <1>1
  <2>2. \E i \in DOMAIN dict : dict[i][1] = keys[k]
    BY <2>1, Zenon DEF KeysIn
  <2> QED
    BY <2>1, <2>2, Zenon
<1> HIDE DEF pairs, where
<1> QED
  BY <1>1, <1>2, <1>3 DEF keys, pairs

LEMMA DumpsLocal ==
    ASSUME NEW value \in Values, NEW f, NEW g, \A part \in Parts(value) : f[part] = g[part]
    PROVE  DumpsNode(f, value) = DumpsNode(g, value)
<1>1. CASE value[1] = "obj"
  <2> DEFINE pairs == Sorted(value[2])
             texts(h) == [i \in DOMAIN pairs |-> <<<<"key", pairs[i][1]>>>> \o h[pairs[i][2]]]
  <2>1. \A i \in DOMAIN pairs : pairs[i][2] \in Parts(value)
    <3>1. IsPairs(value[2])
      BY <1>1, ValuesAssumption DEF IsPairs
    <3>2. \A i \in DOMAIN pairs : \E k \in DOMAIN value[2] : pairs[i] = value[2][k]
      BY <3>1, SortedFacts
    <3> HIDE DEF pairs
    <3> QED
      BY <1>1, <3>2 DEF Parts
  <2>2. texts(f) = texts(g)
    <3> DEFINE text(h, i) == <<<<"key", pairs[i][1]>>>> \o h[pairs[i][2]]
    <3>1. \A i \in DOMAIN pairs : text(f, i) = text(g, i)
      <4> HIDE DEF pairs
      <4> QED
        BY <2>1, Zenon
    <3> HIDE DEF pairs, text
    <3>2. [i \in DOMAIN pairs |-> text(f, i)] = [i \in DOMAIN pairs |-> text(g, i)]
      BY <3>1
    <3> QED
      BY <3>2 DEF text
  <2> QED
    BY <1>1, <2>2, Zenon DEF DumpsNode
<1>2. CASE value[1] = "list"
  <2>1. [i \in DOMAIN value[2] |-> f[value[2][i]]] = [i \in DOMAIN value[2] |-> g[value[2][i]]]
    BY <1>2 DEF Parts
  <2> QED
    BY <1>2, <2>1, Zenon DEF DumpsNode
<1>3. CASE value[1] # "obj" /\ value[1] # "list"
  BY <1>3, Zenon DEF DumpsNode
<1> QED
  BY <1>1, <1>2, <1>3

LEMMA DumpsDefined == Dumps = [value \in Values |-> DumpsNode(Dumps, value)]
<1> DEFINE Good == {n \in Nat : \E f : f = [value \in Below(n) |-> DumpsNode(f, value)]}
<1>1. 0 \in Good
  <2> DEFINE f == [value \in {} |-> 0]
  <2>1. f = [value \in Below(0) |-> DumpsNode(f, value)]
    BY BelowFacts
  <2> QED
    BY <2>1
<1>2. ASSUME NEW n \in Nat, n \in Good PROVE n + 1 \in Good
  <2>1. PICK f : f = [value \in Below(n) |-> DumpsNode(f, value)]
    BY <1>2
  <2> DEFINE g == [value \in Below(n + 1) |-> DumpsNode(f, value)]
  <2>2. Below(n) \subseteq Below(n + 1) /\ Below(n + 1) \subseteq Values
    BY ValuesAssumption DEF Below
  <2>3. ASSUME NEW value \in Below(n + 1) PROVE DumpsNode(f, value) = DumpsNode(g, value)
    <3>1. ASSUME NEW part \in Parts(value) PROVE f[part] = g[part]
      <4>1. part \in Below(n)
        BY BelowFacts
      <4> QED
        BY <2>1, <2>2, <4>1
    <3> HIDE DEF g
    <3> QED
      BY <2>2, <3>1, DumpsLocal
  <2>4. g = [value \in Below(n + 1) |-> DumpsNode(g, value)]
    BY <2>3
  <2> HIDE DEF g
  <2> QED
    BY <2>4
<1>3. MaxDepth + 1 \in Good
  <2> HIDE DEF Good
  <2>1. \A n \in Nat : n \in Good
    BY <1>1, <1>2, InductionOnSets
  <2> QED
    BY <2>1, ValuesAssumption
<1>4. \E f : f = [value \in Values |-> DumpsNode(f, value)]
  BY <1>3, BelowFacts
<1> QED
  BY <1>4, Zenon DEF Dumps

-----------------------------------------------------------------------------
(* What is computed for a value, in terms of its parts *)

\* The value a dict has for a key, which is that of the last pair.
ValueOf(pairs, key) == pairs[LastOf(pairs, key)][2]

\* The text of a value as it was written.
Text(json) == Dumps[LoadJson[json]]

\* The texts an object and a list are put together of.
PairTexts(json) ==
    [k \in 1..Cardinality(KeysIn(json[2])) |->
        <<<<"key", SetToSeq(KeysIn(json[2]))[k]>>>> \o
            Text(ValueOf(json[2], SetToSeq(KeysIn(json[2]))[k]))]

ItemTexts(json) == [i \in DOMAIN json[2] |-> Text(json[2][i])]

LEMMA ValueOfPart ==
    ASSUME NEW json \in Values, json[1] = "obj", NEW key \in KeysIn(json[2])
    PROVE  ValueOf(json[2], key) \in Parts(json)
<1>1. IsPairs(json[2])
  BY ValuesAssumption DEF IsPairs
<1>2. LastOf(json[2], key) \in DOMAIN json[2]
  BY <1>1, LastExists
<1> QED
  BY <1>2 DEF Parts, ValueOf

LEMMA Nodes ==
    ASSUME NEW json \in Values
    PROVE  /\ LoadJson[json] = LoadNode(LoadJson, json)
           /\ Dumps[json] = DumpsNode(Dumps, json)
           /\ Meaning[json] = MeaningNode(Meaning, json)
<1> DEFINE load(j) == LoadNode(LoadJson, j)
           dumps(j) == DumpsNode(Dumps, j)
           meaning(j) == MeaningNode(Meaning, j)
<1>1. /\ LoadJson = [j \in Values |-> load(j)]
      /\ Dumps = [j \in Values |-> dumps(j)]
      /\ Meaning = [j \in Values |-> meaning(j)]
  BY LoadDefined, DumpsDefined, MeaningDefined
<1> HIDE DEF load, dumps, meaning
<1>2. /\ LoadJson[json] = load(json)
      /\ Dumps[json] = dumps(json)
      /\ Meaning[json] = meaning(json)
  BY <1>1
<1> QED
  BY <1>2 DEF load, dumps, meaning

LEMMA MeaningOfObject ==
    ASSUME NEW json \in Values, json[1] = "obj"
    PROVE  Meaning[json] = <<"obj", [k \in KeysIn(json[2]) |-> Meaning[ValueOf(json[2], k)]]>>
<1>1. Meaning[json] = MeaningNode(Meaning, json)
  BY Nodes
<1> QED
  BY <1>1, Zenon DEF MeaningNode, ValueOf

LEMMA OtherText ==
    ASSUME NEW json \in Values, json[1] \notin {"obj", "list"}
    PROVE  /\ Text(json) = <<Meaning[json]>>
           /\ \E content : Meaning[json] = <<json[1], content>>
<1>1. /\ LoadJson[json] = LoadNode(LoadJson, json)
      /\ Meaning[json] = MeaningNode(Meaning, json)
      /\ Dumps[LoadJson[json]] = DumpsNode(Dumps, LoadJson[json])
  BY Nodes, LoadAssumption
<1>2. json = <<json[1], json[2]>>
  BY ValuesAssumption
<1>3. CASE json[1] = "float"
  <2>1. LoadNode(LoadJson, json) = <<"float", Reduced(json[2])>>
    BY <1>3, Zenon DEF LoadNode
  <2>2. MeaningNode(Meaning, json) = <<"float", Reduced(json[2])>>
    BY <1>3, Zenon DEF MeaningNode
  <2>3. LoadJson[json][1] = "float"
    BY <1>1, <2>1
  <2>4. DumpsNode(Dumps, LoadJson[json]) = <<LoadJson[json]>>
    BY <2>3, Zenon DEF DumpsNode
  <2> QED
    BY <1>1, <1>3, <2>1, <2>2, <2>4 DEF Text
<1>4. CASE json[1] # "float"
  <2>1. LoadNode(LoadJson, json) = json
    BY <1>4, Zenon DEF LoadNode
  <2>2. MeaningNode(Meaning, json) = json
    BY <1>4, Zenon DEF MeaningNode
  <2>3. DumpsNode(Dumps, json) = <<json>>
    BY Zenon DEF DumpsNode
  <2> QED
    BY <1>1, <1>2, <2>1, <2>2, <2>3, Zenon DEF Text
<1> QED
  BY <1>3, <1>4

LEMMA ListText ==
    ASSUME NEW json \in Values, json[1] = "list"
    PROVE  /\ Text(json) = <<<<"[">>>> \o FlattenSeq(ItemTexts(json)) \o <<<<"]">>>>
           /\ Meaning[json] = <<"list", [i \in DOMAIN json[2] |-> Meaning[json[2][i]]]>>
<1> DEFINE loaded == [i \in DOMAIN json[2] |-> LoadJson[json[2][i]]]
           texts(items) == [i \in DOMAIN items |-> Dumps[items[i]]]
<1>1. /\ LoadJson[json] = LoadNode(LoadJson, json)
      /\ Meaning[json] = MeaningNode(Meaning, json)
      /\ Dumps[LoadJson[json]] = DumpsNode(Dumps, LoadJson[json])
  BY Nodes, LoadAssumption
<1>2. LoadJson[json] = <<"list", loaded>>
  BY <1>1, Zenon DEF LoadNode
<1>3. DumpsNode(Dumps, LoadJson[json])
      = <<<<"[">>>> \o FlattenSeq(texts(LoadJson[json][2])) \o <<<<"]">>>>
  <2>1. LoadJson[json][1] = "list"
    BY <1>2
  <2> QED
    BY <2>1, Zenon DEF DumpsNode
<1>4. LoadJson[json][2] = loaded
  BY <1>2
<1>5. texts(loaded) = ItemTexts(json)
  BY DEF ItemTexts, Text
<1>6. Text(json) = <<<<"[">>>> \o FlattenSeq(ItemTexts(json)) \o <<<<"]">>>>
  <2> HIDE DEF loaded, texts
  <2> QED
    BY <1>1, <1>3, <1>4, <1>5, Zenon DEF Text
<1>7. MeaningNode(Meaning, json) = <<"list", [i \in DOMAIN json[2] |-> Meaning[json[2][i]]]>>
  BY Zenon DEF MeaningNode
<1> QED
  BY <1>1, <1>6, <1>7, Zenon

\* Loading leaves each key its last value.
LEMMA ObjectLoaded ==
    ASSUME NEW json \in Values, json[1] = "obj"
    PROVE  LET dict == LoadJson[json][2]
           IN  /\ LoadJson[json] = <<"obj", dict>>
               /\ IsPairs(dict)
               /\ KeysIn(dict) = KeysIn(json[2])
               /\ \A i \in DOMAIN dict : dict[i][2] = LoadJson[ValueOf(json[2], dict[i][1])]
<1> DEFINE pairs == json[2]
           loaded == [i \in DOMAIN json[2] |-> <<json[2][i][1], LoadJson[json[2][i][2]]>>]
           dict == Dict(loaded)
<1>1. LoadJson[json] = <<"obj", dict>>
  <2>1. LoadNode(LoadJson, json) = <<"obj", dict>>
    BY Zenon DEF LoadNode
  <2> QED
    BY <2>1, Nodes
<1>2. IsPairs(pairs)
  BY ValuesAssumption DEF IsPairs
<1>3. IsPairs(loaded) /\ DOMAIN loaded = DOMAIN pairs
  <2> DEFINE S == {loaded[i] : i \in DOMAIN pairs}
  <2>1. loaded \in [1..Len(pairs) -> S]
    BY <1>2 DEF IsPairs
  <2>2. Len(pairs) \in Nat
    BY <1>2 DEF IsPairs
  <2> HIDE DEF loaded, S, pairs
  <2>3. Len(loaded) = Len(pairs) /\ DOMAIN loaded = 1..Len(pairs)
    BY <2>1, <2>2
  <2> QED
    BY <1>2, <2>2, <2>3 DEF IsPairs
<1>4. \A i \in DOMAIN pairs : loaded[i][1] = pairs[i][1] /\ loaded[i][2] = LoadJson[pairs[i][2]]
  OBVIOUS
<1> HIDE DEF loaded, pairs
<1>5. KeysIn(loaded) = KeysIn(pairs)
  BY <1>3, <1>4 DEF KeysIn
<1>6. ASSUME NEW key \in KeysIn(pairs)
      PROVE  loaded[LastOf(loaded, key)][2] = LoadJson[ValueOf(pairs, key)]
  <2> DEFINE i == LastOf(loaded, key)
             j == LastOf(pairs, key)
  <2>1. /\ i \in DOMAIN loaded /\ loaded[i][1] = key
        /\ \A k \in DOMAIN loaded : loaded[k][1] = key => k <= i
    BY <1>3, <1>5, LastExists
  <2>2. /\ j \in DOMAIN pairs /\ pairs[j][1] = key
        /\ \A k \in DOMAIN pairs : pairs[k][1] = key => k <= j
    BY <1>2, LastExists
  <2>3. i \in Int /\ j \in Int
    BY <1>2, <1>3, <2>1, <2>2 DEF IsPairs
  <2> HIDE DEF i, j
  <2>4. i <= j /\ j <= i
    BY <1>3, <1>4, <2>1, <2>2
  <2>5. i = j
    BY <2>3, <2>4
  <2> QED
    BY <1>4, <2>2, <2>5 DEF ValueOf, i, j
<1>7. /\ IsPairs(dict) /\ KeysIn(dict) = KeysIn(pairs)
      /\ \A i \in DOMAIN dict : dict[i] = loaded[LastOf(loaded, dict[i][1])]
  BY <1>3, <1>5, DictFacts
<1> HIDE DEF dict
<1>8. \A i \in DOMAIN dict : dict[i][2] = LoadJson[ValueOf(pairs, dict[i][1])]
  <2>1. \A i \in DOMAIN dict : dict[i][1] \in KeysIn(pairs)
    BY <1>7 DEF KeysIn
  <2> QED
    BY <1>6, <1>7, <2>1
<1>9. LoadJson[json][2] = dict
  BY <1>1
<1> QED
  BY <1>1, <1>7, <1>8, <1>9 DEF pairs

LEMMA ObjectText ==
    ASSUME NEW json \in Values, json[1] = "obj"
    PROVE  Text(json) = <<<<"{">>>> \o FlattenSeq(PairTexts(json)) \o <<<<"}">>>>
<1> DEFINE value == LoadJson[json]
           keys == SetToSeq(KeysIn(json[2]))
           n == Cardinality(KeysIn(json[2]))
           pairs == Sorted(value[2])
           texts == [k \in DOMAIN pairs |-> <<<<"key", pairs[k][1]>>>> \o Dumps[pairs[k][2]]]
<1>1. /\ value[1] = "obj" /\ IsPairs(value[2]) /\ KeysIn(value[2]) = KeysIn(json[2])
      /\ \A i \in DOMAIN value[2] : value[2][i][2] = LoadJson[ValueOf(json[2], value[2][i][1])]
  <2>1. value = <<"obj", value[2]>>
    BY ObjectLoaded
  <2>2. value[1] = "obj"
    BY <2>1
  <2> QED
    BY <2>2, ObjectLoaded
<1>2. Text(json) = <<<<"{">>>> \o FlattenSeq(texts) \o <<<<"}">>>>
  <2>1. Text(json) = DumpsNode(Dumps, value)
    BY Nodes, LoadAssumption DEF Text
  <2>2. DumpsNode(Dumps, value) = <<<<"{">>>> \o FlattenSeq(texts) \o <<<<"}">>>>
    <3> HIDE DEF value
    <3> QED
      BY <1>1, Zenon DEF DumpsNode
  <2> QED
    BY <2>1, <2>2, Zenon
<1> HIDE DEF value
<1>3. /\ DOMAIN pairs = 1..n
      /\ \A k \in DOMAIN pairs : /\ pairs[k][1] = keys[k]
                                 /\ \E i \in DOMAIN value[2] : pairs[k] = value[2][i]
  BY <1>1, SortedFacts
<1> HIDE DEF pairs, n, keys
<1>4. \A k \in DOMAIN pairs : pairs[k][2] = LoadJson[ValueOf(json[2], keys[k])]
  BY <1>1, <1>3
<1> DEFINE text(key, t) == <<<<"key", key>>>> \o t
<1>5. \A k \in 1..n : text(pairs[k][1], Dumps[pairs[k][2]])
                      = text(keys[k], Text(ValueOf(json[2], keys[k])))
  <2> HIDE DEF text
  <2> QED
    BY <1>3, <1>4 DEF Text
<1>6. texts = PairTexts(json)
  <2> HIDE DEF text
  <2>1. [k \in DOMAIN pairs |-> text(pairs[k][1], Dumps[pairs[k][2]])]
        = [k \in 1..n |-> text(keys[k], Text(ValueOf(json[2], keys[k])))]
    BY <1>3, <1>5
  <2> QED
    BY <2>1, Zenon DEF text, PairTexts, n, keys
<1> HIDE DEF texts
<1> QED
  BY <1>2, <1>6, Zenon

-----------------------------------------------------------------------------
(* The text can be read back: from its end, what was written is found      *)
(* token by token, and so is the place where it began.                     *)

\* What texts are made of.

Tokens ==
    {<<"{">>, <<"}">>, <<"[">>, <<"]">>}
    \cup {<<"key", key>> : key \in UNION {KeysIn(json[2]) : json \in {j \in Values : j[1] = "obj"}}}
    \cup {Meaning[json] : json \in Values}

LEMMA KeyIsToken ==
    ASSUME NEW json \in Values, json[1] = "obj", NEW key \in KeysIn(json[2])
    PROVE  <<"key", key>> \in Tokens
BY DEF Tokens

\* The texts of the parts, if they are texts.
LEMMA PairTextsAreTexts ==
    ASSUME NEW json \in Values, json[1] = "obj",
           \A part \in Parts(json) : Text(part) \in Seq(Tokens)
    PROVE  /\ PairTexts(json) \in Seq(Seq(Tokens))
           /\ Len(PairTexts(json)) = Cardinality(KeysIn(json[2]))
           /\ \A k \in 1..Len(PairTexts(json)) :
                 \E key \in KeysIn(json[2]) :
                    /\ key = SetToSeq(KeysIn(json[2]))[k]
                    /\ PairTexts(json)[k] = <<<<"key", key>>>> \o Text(ValueOf(json[2], key))
<1> DEFINE keys == SetToSeq(KeysIn(json[2]))
           n == Cardinality(KeysIn(json[2]))
           Texts == Seq(Tokens)
           text(key) == <<<<"key", key>>>> \o Text(ValueOf(json[2], key))
<1>1. n \in Nat /\ keys \in [1..n -> KeysIn(json[2])]
  <2>1. IsPairs(json[2])
    BY ValuesAssumption DEF IsPairs
  <2> QED
    BY <2>1, KeysFinite, OrderFacts
<1>2. ASSUME NEW key \in KeysIn(json[2]) PROVE text(key) \in Texts
  <2>1. <<<<"key", key>>>> \in Seq(Tokens)
    BY KeyIsToken, OneToken
  <2>2. Text(ValueOf(json[2], key)) \in Seq(Tokens)
    BY ValueOfPart
  <2> QED
    BY <2>1, <2>2, Concatenation, Zenon
<1>3. PairTexts(json) = [k \in 1..n |-> text(keys[k])]
  BY Zenon DEF PairTexts
<1> HIDE DEF keys, n, Texts, text
<1>4. PairTexts(json) \in [1..n -> Texts]
  BY <1>1, <1>2, <1>3
<1>5. PairTexts(json) \in Seq(Texts) /\ Len(PairTexts(json)) = n
  BY <1>1, <1>4
<1>6. \A k \in 1..n : keys[k] \in KeysIn(json[2]) /\ PairTexts(json)[k] = text(keys[k])
  BY <1>1, <1>3
<1> QED
  BY <1>5, <1>6, Zenon DEF keys, n, Texts, text

LEMMA ItemTextsAreTexts ==
    ASSUME NEW json \in Values, json[1] = "list",
           \A part \in Parts(json) : Text(part) \in Seq(Tokens)
    PROVE  /\ ItemTexts(json) \in Seq(Seq(Tokens))
           /\ Len(ItemTexts(json)) = Len(json[2]) /\ DOMAIN json[2] = 1..Len(json[2])
           /\ \A i \in 1..Len(ItemTexts(json)) :
                 json[2][i] \in Parts(json) /\ ItemTexts(json)[i] = Text(json[2][i])
<1> DEFINE Texts == Seq(Tokens)
           n == Len(json[2])
<1>1. n \in Nat /\ DOMAIN json[2] = 1..n
  BY ValuesAssumption
<1>2. \A i \in 1..n : json[2][i] \in Parts(json)
  BY <1>1 DEF Parts
<1>3. \A i \in 1..n : Text(json[2][i]) \in Texts
  BY <1>2
<1>4. ItemTexts(json) = [i \in 1..n |-> Text(json[2][i])]
  BY <1>1 DEF ItemTexts
<1> HIDE DEF Texts, n
<1>5. ItemTexts(json) \in [1..n -> Texts]
  BY <1>3, <1>4
<1>6. ItemTexts(json) \in Seq(Texts) /\ Len(ItemTexts(json)) = n
  BY <1>1, <1>5
<1>7. \A i \in 1..n : ItemTexts(json)[i] = Text(json[2][i])
  BY <1>4
<1> QED
  BY <1>1, <1>2, <1>6, <1>7 DEF Texts, n

\* The last token of a text.
End(json) ==
    IF json[1] = "obj" THEN <<"}">> ELSE IF json[1] = "list" THEN <<"]">> ELSE Meaning[json]

LEMMA EndsDiffer ==
    ASSUME NEW a \in Values, NEW b \in Values
    PROVE  /\ End(a) \in Tokens
           /\ End(a) # <<"{">> /\ End(a) # <<"[">>
           /\ End(a) = End(b) /\ a[1] \in {"obj", "list"} => a[1] = b[1]
<1>1. ASSUME NEW json \in Values
      PROVE  /\ End(json) \in Tokens
             /\ json[1] = "obj" => End(json) = <<"}">>
             /\ json[1] = "list" => End(json) = <<"]">>
             /\ json[1] \notin {"obj", "list"} => \E tag, content : End(json) = <<tag, content>>
  <2>1. json[1] \notin {"obj", "list"} => \E content : Meaning[json] = <<json[1], content>>
    BY OtherText
  <2> QED
    BY <2>1 DEF End, Tokens
<1>2. \A tag, content, x : <<tag, content>> # <<x>>
  OBVIOUS
<1>3. /\ <<"}">> # <<"]">>
      /\ <<"}">> # <<"{">> /\ <<"}">> # <<"[">>
      /\ <<"]">> # <<"{">> /\ <<"]">> # <<"[">>
  OBVIOUS
<1>4. End(a) # <<"{">> /\ End(a) # <<"[">>
  BY <1>1, <1>2, <1>3
<1>5. ASSUME End(a) = End(b), a[1] \in {"obj", "list"} PROVE a[1] = b[1]
  <2>1. b[1] \in {"obj", "list"}
    <3>1. End(a) = <<"}">> \/ End(a) = <<"]">>
      BY <1>1, <1>5
    <3> QED
      BY <1>1, <1>2, <1>5, <3>1
  <2>2. CASE a[1] = "obj"
    BY <1>1, <1>3, <1>5, <2>1, <2>2
  <2>3. CASE a[1] = "list"
    BY <1>1, <1>3, <1>5, <2>1, <2>3
  <2> QED
    BY <1>5, <2>2, <2>3
<1> QED
  BY <1>1, <1>4, <1>5

LEMMA TextIsText == \A json \in Values : Text(json) \in Seq(Tokens)
<1> DEFINE Good == {n \in Nat : \A json \in Below(n) : Text(json) \in Seq(Tokens)}
<1>1. 0 \in Good
  BY BelowFacts
<1>2. ASSUME NEW n \in Nat, n \in Good PROVE n + 1 \in Good
  <2> SUFFICES ASSUME NEW json \in Below(n + 1) PROVE Text(json) \in Seq(Tokens)
    OBVIOUS
  <2>1. json \in Values
    BY DEF Below
  <2>2. \A part \in Parts(json) : Text(part) \in Seq(Tokens)
    BY <1>2, BelowFacts
  <2>3. {<<"{">>, <<"}">>, <<"[">>, <<"]">>} \subseteq Tokens
    BY DEF Tokens
  <2>4. CASE json[1] = "obj"
    <3>1. PairTexts(json) \in Seq(Seq(Tokens))
      BY <2>1, <2>2, <2>4, PairTextsAreTexts
    <3> QED
      BY <2>1, <2>3, <2>4, <3>1, EnclosedIsText, ObjectText DEF Enclosed
  <2>5. CASE json[1] = "list"
    <3>1. ItemTexts(json) \in Seq(Seq(Tokens))
      BY <2>1, <2>2, <2>5, ItemTextsAreTexts
    <3> QED
      BY <2>1, <2>3, <2>5, <3>1, EnclosedIsText, ListText DEF Enclosed
  <2>6. CASE json[1] \notin {"obj", "list"}
    <3>1. Meaning[json] \in Tokens
      BY <2>1 DEF Tokens
    <3> QED
      BY <2>1, <2>6, <3>1, OneToken, OtherText
  <2> QED
    BY <2>4, <2>5, <2>6
<1>3. MaxDepth + 1 \in Good
  <2> HIDE DEF Good
  <2> QED
    BY <1>1, <1>2, InductionOnSets, ValuesAssumption
<1> QED
  BY <1>3, BelowFacts

LEMMA Brackets == {<<"{">>, <<"}">>, <<"[">>, <<"]">>} \subseteq Tokens
BY DEF Tokens

\* What the texts of an object and of a list are enclosed in.
LEMMA ObjectEnclosed ==
    ASSUME NEW json \in Values, json[1] = "obj"
    PROVE  /\ PairTexts(json) \in Seq(Seq(Tokens))
           /\ Text(json) = Enclosed(<<"{">>, PairTexts(json), <<"}">>)
<1>1. PairTexts(json) \in Seq(Seq(Tokens))
  BY TextIsText, ValuesAssumption, PairTextsAreTexts
<1> QED
  BY <1>1, ObjectText, Zenon DEF Enclosed

LEMMA ListEnclosed ==
    ASSUME NEW json \in Values, json[1] = "list"
    PROVE  /\ ItemTexts(json) \in Seq(Seq(Tokens))
           /\ Text(json) = Enclosed(<<"[">>, ItemTexts(json), <<"]">>)
<1>1. ItemTexts(json) \in Seq(Seq(Tokens))
  BY TextIsText, ValuesAssumption, ItemTextsAreTexts
<1> QED
  BY <1>1, ListText, Zenon DEF Enclosed

LEMMA TextEnds ==
    ASSUME NEW json \in Values
    PROVE  EndsWith(Tokens, Text(json), End(json))
<1>1. CASE json[1] = "obj"
  <2>1. End(json) = <<"}">>
    BY <1>1 DEF End
  <2> QED
    BY <1>1, <2>1, Brackets, ObjectEnclosed, EnclosedIsText
<1>2. CASE json[1] = "list"
  <2>1. End(json) = <<"]">>
    BY <1>2 DEF End
  <2> QED
    BY <1>2, <2>1, Brackets, ListEnclosed, EnclosedIsText
<1>3. CASE json[1] \notin {"obj", "list"}
  <2>1. Text(json) = <<End(json)>> /\ End(json) \in Tokens
    BY <1>3, OtherText, EndsDiffer DEF End
  <2> QED
    BY <2>1, OneTokenEnds
<1> QED
  BY <1>1, <1>2, <1>3

\* Texts that end differently are not alike, and none ends as one begins.
LEMMA TextsUnlike ==
    ASSUME NEW a \in Values, NEW b \in Values, End(a) # End(b)
    PROVE  Unlike(Tokens, Text(a), Text(b))
BY EndsDiffer, TextEnds, EndsUnlike

LEMMA TextOpens ==
    ASSUME NEW json \in Values, NEW o \in {<<"{">>, <<"[">>}
    PROVE  Unlike(Tokens, Text(json), <<o>>)
<1>1. o \in Tokens /\ End(json) \in Tokens /\ End(json) # o
  BY EndsDiffer, Brackets
<1>2. EndsWith(Tokens, <<o>>, o) /\ EndsWith(Tokens, Text(json), End(json))
  BY <1>1, OneTokenEnds, TextEnds
<1> QED
  BY <1>1, <1>2, EndsUnlike

LEMMA TokensApart ==
    ASSUME NEW T, NEW e \in T, NEW f \in T
    PROVE  Apart(T, <<e>>, <<f>>)
<1>1. ASSUME NEW p \in Seq(T), NEW q \in Seq(T), p \o <<e>> = q \o <<f>>
      PROVE  p = q /\ e = f
  BY <1>1, SameLast
<1> QED
  BY <1>1, Zenon DEF Apart

LEMMA ObjectsSeparable ==
    ASSUME NEW a \in Values, NEW b \in Values, a[1] = "obj", b[1] = "obj",
           \A s \in Parts(a), t \in Parts(b) : Apart(Tokens, Text(s), Text(t))
    PROVE  Separable(Tokens, PairTexts(a), PairTexts(b), <<"{">>)
<1> DEFINE Pair(key, t) == <<<<"key", key>>>> \o t
<1>1. ASSUME NEW json \in Values, json[1] = "obj"
      PROVE  /\ PairTexts(json) \in Seq(Seq(Tokens))
             /\ \A k \in 1..Len(PairTexts(json)) :
                   \E key \in KeysIn(json[2]) :
                      /\ <<"key", key>> \in Tokens
                      /\ ValueOf(json[2], key) \in Parts(json)
                      /\ ValueOf(json[2], key) \in Values
                      /\ Text(ValueOf(json[2], key)) \in Seq(Tokens)
                      /\ PairTexts(json)[k] = Pair(key, Text(ValueOf(json[2], key)))
  <2>1. \A part \in Parts(json) : Text(part) \in Seq(Tokens) /\ part \in Values
    BY TextIsText, ValuesAssumption
  <2>2. /\ PairTexts(json) \in Seq(Seq(Tokens))
        /\ \A k \in 1..Len(PairTexts(json)) :
              \E key \in KeysIn(json[2]) : PairTexts(json)[k] = Pair(key, Text(ValueOf(json[2], key)))
    BY <1>1, <2>1, PairTextsAreTexts
  <2> HIDE DEF Pair
  <2>3. \A key \in KeysIn(json[2]) :
           <<"key", key>> \in Tokens /\ ValueOf(json[2], key) \in Parts(json)
    BY <1>1, KeyIsToken, ValueOfPart
  <2> QED
    BY <2>1, <2>2, <2>3
<1>2. ASSUME NEW i \in 1..Len(PairTexts(a)), NEW j \in 1..Len(PairTexts(b))
      PROVE  Apart(Tokens, PairTexts(a)[i], PairTexts(b)[j])
  <2> HIDE DEF Pair
  <2>1. PICK k \in KeysIn(a[2]) :
           /\ <<"key", k>> \in Tokens
           /\ ValueOf(a[2], k) \in Parts(a)
           /\ Text(ValueOf(a[2], k)) \in Seq(Tokens)
           /\ PairTexts(a)[i] = Pair(k, Text(ValueOf(a[2], k)))
    BY <1>1
  <2>2. PICK l \in KeysIn(b[2]) :
           /\ <<"key", l>> \in Tokens
           /\ ValueOf(b[2], l) \in Parts(b)
           /\ Text(ValueOf(b[2], l)) \in Seq(Tokens)
           /\ PairTexts(b)[j] = Pair(l, Text(ValueOf(b[2], l)))
    BY <1>1
  <2>3. Apart(Tokens, Pair(k, Text(ValueOf(a[2], k))), Pair(l, Text(ValueOf(b[2], l))))
    BY <2>1, <2>2, PrefixedApart DEF Pair
  <2> QED
    BY <2>1, <2>2, <2>3, Zenon
<1>3. ASSUME NEW json \in Values, json[1] = "obj", NEW i \in 1..Len(PairTexts(json))
      PROVE  Unlike(Tokens, PairTexts(json)[i], <<<<"{">>>>)
  <2> HIDE DEF Pair
  <2>1. PICK k \in KeysIn(json[2]) :
           /\ <<"key", k>> \in Tokens
           /\ ValueOf(json[2], k) \in Values
           /\ Text(ValueOf(json[2], k)) \in Seq(Tokens)
           /\ PairTexts(json)[i] = Pair(k, Text(ValueOf(json[2], k)))
    BY <1>1, <1>3
  <2>2. Unlike(Tokens, Text(ValueOf(json[2], k)), <<<<"{">>>>)
    BY <2>1, TextOpens
  <2>3. <<<<"{">>>> \in Seq(Tokens)
    BY Brackets, OneToken
  <2>4. Unlike(Tokens, Pair(k, Text(ValueOf(json[2], k))), <<<<"{">>>>)
    BY <2>1, <2>2, <2>3, PrefixedUnlike DEF Pair
  <2> QED
    BY <2>1, <2>4, Zenon
<1> HIDE DEF Pair
<1>4. PairTexts(a) \in Seq(Seq(Tokens)) /\ PairTexts(b) \in Seq(Seq(Tokens)) /\ <<"{">> \in Tokens
  BY <1>1, Brackets
<1>5. /\ \A i \in 1..Len(PairTexts(a)), j \in 1..Len(PairTexts(b)) :
            Apart(Tokens, PairTexts(a)[i], PairTexts(b)[j])
      /\ \A i \in 1..Len(PairTexts(a)) : Unlike(Tokens, PairTexts(a)[i], <<<<"{">>>>)
      /\ \A j \in 1..Len(PairTexts(b)) : Unlike(Tokens, PairTexts(b)[j], <<<<"{">>>>)
  BY <1>2, <1>3
<1> QED
  BY <1>4, <1>5, Zenon DEF Separable

LEMMA ListsSeparable ==
    ASSUME NEW a \in Values, NEW b \in Values, a[1] = "list", b[1] = "list",
           \A s \in Parts(a), t \in Parts(b) : Apart(Tokens, Text(s), Text(t))
    PROVE  Separable(Tokens, ItemTexts(a), ItemTexts(b), <<"[">>)
<1>1. ASSUME NEW json \in Values, json[1] = "list"
      PROVE  /\ ItemTexts(json) \in Seq(Seq(Tokens))
             /\ \A i \in 1..Len(ItemTexts(json)) :
                   /\ json[2][i] \in Parts(json)
                   /\ ItemTexts(json)[i] = Text(json[2][i])
                   /\ Unlike(Tokens, ItemTexts(json)[i], <<<<"[">>>>)
  <2>1. \A part \in Parts(json) : Text(part) \in Seq(Tokens) /\ part \in Values
    BY TextIsText, ValuesAssumption
  <2>2. /\ ItemTexts(json) \in Seq(Seq(Tokens))
        /\ \A i \in 1..Len(ItemTexts(json)) :
              json[2][i] \in Parts(json) /\ ItemTexts(json)[i] = Text(json[2][i])
    BY <1>1, <2>1, ItemTextsAreTexts
  <2> QED
    BY <2>1, <2>2, TextOpens
<1>2. <<"[">> \in Tokens
  BY Brackets
<1> QED
  BY <1>1, <1>2 DEF Separable

\* fingerprint.py:26-45, json.dumps: whatever two texts stand behind, where they
\* end it can be told where they began and whether they are the same.
THEOREM TextsApart ==
    \A a, b \in Values : Apart(Tokens, Text(a), Text(b))
<1> DEFINE Good == {n \in Nat : \A a, b \in Below(n) : Apart(Tokens, Text(a), Text(b))}
<1>1. 0 \in Good
  BY BelowFacts
<1>2. ASSUME NEW n \in Nat, n \in Good PROVE n + 1 \in Good
  <2> SUFFICES ASSUME NEW a \in Below(n + 1), NEW b \in Below(n + 1)
               PROVE  Apart(Tokens, Text(a), Text(b))
    OBVIOUS
  <2>1. a \in Values /\ b \in Values
    BY DEF Below
  <2>2. \A s \in Parts(a), t \in Parts(b) : Apart(Tokens, Text(s), Text(t))
    BY <1>2, BelowFacts
  <2>3. CASE a[1] = "obj" /\ b[1] = "obj"
    <3>1. Separable(Tokens, PairTexts(a), PairTexts(b), <<"{">>)
      BY <2>1, <2>2, <2>3, ObjectsSeparable
    <3>2. Text(a) = Enclosed(<<"{">>, PairTexts(a), <<"}">>)
      BY <2>1, <2>3, ObjectEnclosed
    <3>3. Text(b) = Enclosed(<<"{">>, PairTexts(b), <<"}">>)
      BY <2>1, <2>3, ObjectEnclosed
    <3>4. <<"}">> \in Tokens
      BY Brackets
    <3>5. Apart(Tokens, Enclosed(<<"{">>, PairTexts(a), <<"}">>),
                        Enclosed(<<"{">>, PairTexts(b), <<"}">>))
      BY <3>1, <3>4, EnclosedApart
    <3> QED
      BY <3>2, <3>3, <3>5, Zenon
  <2>4. CASE a[1] = "list" /\ b[1] = "list"
    <3>1. Separable(Tokens, ItemTexts(a), ItemTexts(b), <<"[">>)
      BY <2>1, <2>2, <2>4, ListsSeparable
    <3>2. Text(a) = Enclosed(<<"[">>, ItemTexts(a), <<"]">>)
      BY <2>1, <2>4, ListEnclosed
    <3>3. Text(b) = Enclosed(<<"[">>, ItemTexts(b), <<"]">>)
      BY <2>1, <2>4, ListEnclosed
    <3>4. <<"]">> \in Tokens
      BY Brackets
    <3>5. Apart(Tokens, Enclosed(<<"[">>, ItemTexts(a), <<"]">>),
                        Enclosed(<<"[">>, ItemTexts(b), <<"]">>))
      BY <3>1, <3>4, EnclosedApart
    <3> QED
      BY <3>2, <3>3, <3>5, Zenon
  <2>5. CASE a[1] \notin {"obj", "list"} /\ b[1] \notin {"obj", "list"}
    <3>1. Text(a) = <<Meaning[a]>> /\ Text(b) = <<Meaning[b]>>
      BY <2>1, <2>5, OtherText
    <3>2. Meaning[a] \in Tokens /\ Meaning[b] \in Tokens
      BY <2>1 DEF Tokens
    <3> QED
      BY <3>1, <3>2, TokensApart
  <2>6. CASE End(a) # End(b)
    <3>1. Unlike(Tokens, Text(a), Text(b))
      BY <2>1, <2>6, TextsUnlike
    <3> QED
      BY <3>1, Zenon DEF Apart, Unlike
  <2>7. CASE End(a) = End(b) /\ (a[1] \in {"obj", "list"} \/ b[1] \in {"obj", "list"})
    <3>1. a[1] = b[1]
      BY <2>1, <2>7, EndsDiffer
    <3> QED
      BY <2>3, <2>4, <2>7, <3>1
  <2> QED
    BY <2>5, <2>6, <2>7
<1>3. MaxDepth + 1 \in Good
  <2> HIDE DEF Good
  <2> QED
    BY <1>1, <1>2, InductionOnSets, ValuesAssumption
<1> QED
  BY <1>3, BelowFacts

LEMMA MeaningTagged ==
    ASSUME NEW json \in Values
    PROVE  \E content : Meaning[json] = <<json[1], content>>
<1>1. CASE json[1] = "obj"
  BY <1>1, MeaningOfObject
<1>2. CASE json[1] = "list"
  BY <1>2, ListText
<1>3. CASE json[1] \notin {"obj", "list"}
  BY <1>3, OtherText
<1> QED
  BY <1>1, <1>2, <1>3

\* Values of different kinds.
LEMMA TagsTold ==
    ASSUME NEW a \in Values, NEW b \in Values, a[1] # b[1]
    PROVE  Text(a) # Text(b) /\ Meaning[a] # Meaning[b]
<1>1. Meaning[a] # Meaning[b]
  BY MeaningTagged
<1>2. CASE End(a) = End(b)
  <2>1. a[1] \notin {"obj", "list"} /\ b[1] \notin {"obj", "list"}
    BY <1>2, EndsDiffer
  <2>2. Text(a) = <<Meaning[a]>> /\ Text(b) = <<Meaning[b]>>
    BY <2>1, OtherText
  <2> QED
    BY <1>1, <2>2
<1>3. CASE End(a) # End(b)
  <2>1. Unlike(Tokens, Text(a), Text(b)) /\ <<>> \in Seq(Tokens)
    BY <1>3, TextsUnlike
  <2> QED
    BY <1>1, <2>1, Zenon DEF Unlike
<1> QED
  BY <1>2, <1>3

\* What is enclosed can be read back.
LEMMA ObjectsReadBack ==
    ASSUME NEW a \in Values, NEW b \in Values, a[1] = "obj", b[1] = "obj"
    PROVE  PairTexts(a) = PairTexts(b) <=> Text(a) = Text(b)
<1> DEFINE o == <<"{">>
           c == <<"}">>
           u == PairTexts(a)
           v == PairTexts(b)
<1>1. Separable(Tokens, u, v, o)
  <2>1. \A x \in Parts(a), y \in Parts(b) : Apart(Tokens, Text(x), Text(y))
    BY TextsApart, ValuesAssumption
  <2> QED
    BY <2>1, ObjectsSeparable
<1>2. c \in Tokens
  BY Brackets
<1>3. Text(a) = Enclosed(o, u, c) /\ Text(b) = Enclosed(o, v, c)
  BY ObjectEnclosed
<1> HIDE DEF o, c, u, v
<1>4. Enclosed(o, u, c) = Enclosed(o, v, c) => u = v
  BY <1>1, <1>2, EnclosedApart
<1>5. u = v <=> Text(a) = Text(b)
  BY <1>3, <1>4, Zenon
<1> QED
  BY <1>5, Zenon DEF u, v

LEMMA ListsReadBack ==
    ASSUME NEW a \in Values, NEW b \in Values, a[1] = "list", b[1] = "list"
    PROVE  ItemTexts(a) = ItemTexts(b) <=> Text(a) = Text(b)
<1> DEFINE o == <<"[">>
           c == <<"]">>
           u == ItemTexts(a)
           v == ItemTexts(b)
<1>1. Separable(Tokens, u, v, o)
  <2>1. \A x \in Parts(a), y \in Parts(b) : Apart(Tokens, Text(x), Text(y))
    BY TextsApart, ValuesAssumption
  <2> QED
    BY <2>1, ListsSeparable
<1>2. c \in Tokens
  BY Brackets
<1>3. Text(a) = Enclosed(o, u, c) /\ Text(b) = Enclosed(o, v, c)
  BY ListEnclosed
<1> HIDE DEF o, c, u, v
<1>4. Enclosed(o, u, c) = Enclosed(o, v, c) => u = v
  BY <1>1, <1>2, EnclosedApart
<1>5. u = v <=> Text(a) = Text(b)
  BY <1>3, <1>4, Zenon
<1> QED
  BY <1>5, Zenon DEF u, v

\* Two objects, if it holds of their parts.
LEMMA SameObject ==
    ASSUME NEW a \in Values, NEW b \in Values, a[1] = "obj", b[1] = "obj",
           \A x \in Parts(a), y \in Parts(b) :
               Text(x) = Text(y) <=> Meaning[x] = Meaning[y]
    PROVE  Text(a) = Text(b) <=> Meaning[a] = Meaning[b]
<1> DEFINE at(j, k) == ValueOf(j[2], k)
           keys(j) == SetToSeq(KeysIn(j[2]))
           text(j) == [k \in 1..Cardinality(KeysIn(j[2])) |->
                          <<<<"key", keys(j)[k]>>>> \o Text(at(j, keys(j)[k]))]
           said(j) == [k \in KeysIn(j[2]) |-> Meaning[at(j, k)]]
<1>1. Text(a) = Text(b) <=> text(a) = text(b)
  <2>1. PairTexts(a) = PairTexts(b) <=> Text(a) = Text(b)
    BY ObjectsReadBack
  <2>2. text(a) = PairTexts(a) /\ text(b) = PairTexts(b)
    BY Zenon DEF PairTexts
  <2> HIDE DEF text
  <2> QED
    BY <2>1, <2>2, Zenon
<1>2. Meaning[a] = <<"obj", said(a)>> /\ Meaning[b] = <<"obj", said(b)>>
  BY MeaningOfObject
<1>3. ASSUME NEW k \in KeysIn(a[2]), k \in KeysIn(b[2])
      PROVE  Text(at(a, k)) = Text(at(b, k))
             <=> Meaning[at(a, k)] = Meaning[at(b, k)]
  BY <1>3, ValueOfPart
<1>4. IsFiniteSet(KeysIn(a[2])) /\ IsFiniteSet(KeysIn(b[2]))
  BY KeysFinite, ValuesAssumption DEF IsPairs
<1> HIDE DEF at
<1>5. ASSUME text(a) = text(b) PROVE said(a) = said(b)
  <2> DEFINE m == Cardinality(KeysIn(a[2]))
             n == Cardinality(KeysIn(b[2]))
  <2>1. /\ m \in Nat /\ keys(a) \in [1..m -> KeysIn(a[2])]
        /\ \A k \in KeysIn(a[2]) : \E i \in 1..m : keys(a)[i] = k
    BY <1>4, OrderFacts
  <2>2. /\ n \in Nat /\ keys(b) \in [1..n -> KeysIn(b[2])]
        /\ \A k \in KeysIn(b[2]) : \E i \in 1..n : keys(b)[i] = k
    BY <1>4, OrderFacts
  <2>3. 1..m = 1..n
    BY <1>5, Zenon
  <2>4. ASSUME NEW i \in 1..m
        PROVE  /\ keys(a)[i] = keys(b)[i]
               /\ Text(at(a, keys(a)[i])) = Text(at(b, keys(b)[i]))
    <3> DEFINE pair(key, t) == <<<<"key", key>>>> \o t
    <3>1. pair(keys(a)[i], Text(at(a, keys(a)[i])))
          = pair(keys(b)[i], Text(at(b, keys(b)[i])))
      <4> HIDE DEF keys, pair
      <4>1. text(a)[i] = pair(keys(a)[i], Text(at(a, keys(a)[i])))
        BY Zenon DEF pair
      <4>2. i \in 1..n /\ text(b)[i] = pair(keys(b)[i], Text(at(b, keys(b)[i])))
        BY <2>3, Zenon DEF pair
      <4> HIDE DEF text
      <4> QED
        BY <1>5, <4>1, <4>2, Zenon
    <3>2. /\ keys(a)[i] \in KeysIn(a[2]) /\ keys(b)[i] \in KeysIn(b[2])
      BY <2>1, <2>2, <2>3
    <3> HIDE DEF text, keys
    <3>3. /\ <<"key", keys(a)[i]>> \in Tokens /\ Text(at(a, keys(a)[i])) \in Seq(Tokens)
          /\ <<"key", keys(b)[i]>> \in Tokens /\ Text(at(b, keys(b)[i])) \in Seq(Tokens)
      BY <3>2, KeyIsToken, ValueOfPart, TextIsText, ValuesAssumption DEF at
    <3>4. /\ <<"key", keys(a)[i]>> = <<"key", keys(b)[i]>>
          /\ Text(at(a, keys(a)[i])) = Text(at(b, keys(b)[i]))
      <4> DEFINE e == <<"key", keys(a)[i]>>
                 f == <<"key", keys(b)[i]>>
                 s == Text(at(a, keys(a)[i]))
                 t == Text(at(b, keys(b)[i]))
      <4>1. e \in Tokens /\ f \in Tokens /\ s \in Seq(Tokens) /\ t \in Seq(Tokens)
        BY <3>3
      <4>2. <<e>> \o s = <<f>> \o t
        BY <3>1, Zenon
      <4> HIDE DEF e, f, s, t
      <4>3. s = t /\ e = f
        BY <4>1, <4>2, SameFirst
      <4> QED
        BY <4>3, Zenon DEF e, f, s, t
    <3> QED
      BY <3>4
  <2> HIDE DEF m, n, keys, text
  <2>5. KeysIn(a[2]) = KeysIn(b[2])
    <3>1. ASSUME NEW k \in KeysIn(a[2]) PROVE k \in KeysIn(b[2])
      <4>1. PICK i \in 1..m : keys(a)[i] = k
        BY <2>1
      <4>2. keys(b)[i] \in KeysIn(b[2])
        BY <2>2, <2>3
      <4> QED
        BY <2>4, <4>1, <4>2
    <3>2. ASSUME NEW k \in KeysIn(b[2]) PROVE k \in KeysIn(a[2])
      <4>1. PICK i \in 1..m : keys(b)[i] = k
        BY <2>2, <2>3
      <4>2. keys(a)[i] \in KeysIn(a[2])
        BY <2>1
      <4> QED
        BY <2>4, <4>1, <4>2
    <3> QED
      BY <3>1, <3>2
  <2>6. ASSUME NEW k \in KeysIn(a[2]) PROVE Meaning[at(a, k)] = Meaning[at(b, k)]
    <3>1. PICK i \in 1..m : keys(a)[i] = k
      BY <2>1
    <3>2. Text(at(a, k)) = Text(at(b, k))
      BY <2>4, <3>1
    <3> QED
      BY <1>3, <2>5, <3>2
  <2> QED
    BY <2>5, <2>6
<1>6. ASSUME said(a) = said(b) PROVE text(a) = text(b)
  <2>1. KeysIn(a[2]) = KeysIn(b[2])
    BY <1>6, Zenon
  <2>2. ASSUME NEW k \in KeysIn(a[2]) PROVE Text(at(a, k)) = Text(at(b, k))
    <3>1. said(a)[k] = Meaning[at(a, k)] /\ said(b)[k] = Meaning[at(b, k)]
      BY <2>1
    <3> QED
      BY <1>3, <1>6, <2>1, <3>1
  <2>3. SetToSeq(KeysIn(a[2])) \in [1..Cardinality(KeysIn(a[2])) -> KeysIn(a[2])]
    BY <1>4, OrderFacts
  <2>4. \A i \in 1..Cardinality(KeysIn(a[2])) : Text(at(a, keys(a)[i])) = Text(at(b, keys(a)[i]))
    BY <2>2, <2>3
  <2> DEFINE pair(key, t) == <<<<"key", key>>>> \o t
  <2>5. [i \in 1..Cardinality(KeysIn(a[2])) |-> pair(keys(a)[i], Text(at(a, keys(a)[i])))]
        = [i \in 1..Cardinality(KeysIn(a[2])) |-> pair(keys(a)[i], Text(at(b, keys(a)[i])))]
    <3> HIDE DEF pair, keys
    <3> QED
      BY <2>4
  <2> QED
    BY <2>1, <2>5, Zenon
<1> HIDE DEF text, said
<1> QED
  BY <1>1, <1>2, <1>5, <1>6

\* Two lists.
LEMMA SameList ==
    ASSUME NEW a \in Values, NEW b \in Values, a[1] = "list", b[1] = "list",
           \A x \in Parts(a), y \in Parts(b) :
               Text(x) = Text(y) <=> Meaning[x] = Meaning[y]
    PROVE  Text(a) = Text(b) <=> Meaning[a] = Meaning[b]
<1> DEFINE text(j) == [i \in DOMAIN j[2] |-> Text(j[2][i])]
           said(j) == [i \in DOMAIN j[2] |-> Meaning[j[2][i]]]
<1>1. Text(a) = Text(b) <=> text(a) = text(b)
  <2>1. ItemTexts(a) = ItemTexts(b) <=> Text(a) = Text(b)
    BY ListsReadBack
  <2>2. text(a) = ItemTexts(a) /\ text(b) = ItemTexts(b)
    BY Zenon DEF ItemTexts
  <2> HIDE DEF text
  <2> QED
    BY <2>1, <2>2, Zenon
<1>2. Meaning[a] = <<"list", said(a)>> /\ Meaning[b] = <<"list", said(b)>>
  BY ListText
<1>3. \A i \in DOMAIN a[2] : i \in DOMAIN b[2] =>
         (Text(a[2][i]) = Text(b[2][i]) <=> Meaning[a[2][i]] = Meaning[b[2][i]])
  <2>1. /\ \A i \in DOMAIN a[2] : a[2][i] \in Parts(a)
        /\ \A i \in DOMAIN b[2] : b[2][i] \in Parts(b)
    BY DEF Parts
  <2> QED
    BY <2>1
<1>4. ASSUME text(a) = text(b) PROVE said(a) = said(b)
  <2>1. DOMAIN a[2] = DOMAIN b[2]
    BY <1>4, Zenon
  <2>2. \A i \in DOMAIN a[2] : /\ text(a)[i] = Text(a[2][i])
                               /\ text(b)[i] = Text(b[2][i])
    BY <2>1
  <2>3. \A i \in DOMAIN a[2] : Meaning[a[2][i]] = Meaning[b[2][i]]
    BY <1>3, <1>4, <2>1, <2>2
  <2> QED
    BY <2>1, <2>3
<1>5. ASSUME said(a) = said(b) PROVE text(a) = text(b)
  <2>1. DOMAIN a[2] = DOMAIN b[2]
    BY <1>5, Zenon
  <2>2. \A i \in DOMAIN a[2] : said(a)[i] = Meaning[a[2][i]] /\ said(b)[i] = Meaning[b[2][i]]
    BY <2>1
  <2>3. \A i \in DOMAIN a[2] : Text(a[2][i]) = Text(b[2][i])
    BY <1>3, <1>5, <2>1, <2>2
  <2> QED
    BY <2>1, <2>3
<1> HIDE DEF text, said
<1> QED
  BY <1>1, <1>2, <1>4, <1>5

\* fingerprint.py:26-45: two values are written as the same text if and only if
\* they say the same.
THEOREM TextIsExact ==
    \A a, b \in Values : Text(a) = Text(b) <=> Meaning[a] = Meaning[b]
<1> DEFINE Agree(a, b) == Text(a) = Text(b) <=> Meaning[a] = Meaning[b]
           Good == {n \in Nat : \A a \in Below(n), b \in Values : Agree(a, b)}
<1>1. 0 \in Good
  BY BelowFacts
<1>2. ASSUME NEW n \in Nat, n \in Good PROVE n + 1 \in Good
  <2> SUFFICES ASSUME NEW a \in Below(n + 1), NEW b \in Values PROVE Agree(a, b)
    OBVIOUS
  <2>1. a \in Values
    BY DEF Below
  <2>2. \A x \in Parts(a), y \in Parts(b) : Agree(x, y)
    <3>1. Parts(a) \subseteq Below(n) /\ Parts(b) \subseteq Values
      BY BelowFacts, ValuesAssumption
    <3> HIDE DEF Agree
    <3> QED
      BY <1>2, <3>1
  <2>3. CASE a[1] = b[1] /\ a[1] = "obj"
    BY <2>1, <2>2, <2>3, SameObject, ZenonT(30)
  <2>4. CASE a[1] = b[1] /\ a[1] = "list"
    BY <2>1, <2>2, <2>4, SameList, ZenonT(30)
  <2>5. CASE a[1] = b[1] /\ a[1] \notin {"obj", "list"}
    <3>1. Text(a) = <<Meaning[a]>> /\ Text(b) = <<Meaning[b]>>
      BY <2>1, <2>5, OtherText
    <3> QED
      BY <3>1
  <2>6. CASE a[1] # b[1]
    BY <2>1, <2>6, TagsTold
  <2> QED
    BY <2>3, <2>4, <2>5, <2>6
<1>3. MaxDepth + 1 \in Good
  <2> HIDE DEF Good
  <2> QED
    BY <1>1, <1>2, InductionOnSets, ValuesAssumption
<1> QED
  BY <1>3, BelowFacts

-----------------------------------------------------------------------------
(* The requests that are accepted *)

\* What the checks have established of a request that is accepted.
LEMMA Checked ==
    ASSUME NEW request, Refusal(request) = Admitted
    PROVE  /\ Len(Strip(request.key)) \in 1..MaxKeyLength
           /\ ValidBody(request.body)
BY DEF Refusal, Admitted

LEMMA FromRequests == Spec => [](arrived \subseteq Requests)
<1>1. Init => arrived \subseteq Requests
  BY DEF Init
<1>2. arrived \subseteq Requests /\ [Next]_arrived => (arrived \subseteq Requests)'
  BY DEF Next, Arrive
<1> QED
  BY <1>1, <1>2, PTL DEF Spec

LEMMA AcceptedFits ==
    ASSUME NEW request \in Requests, Refusal(request) = Admitted
    PROVE  FitsTable(Command(request))
<1> DEFINE read == ReadAmount(request.body.amount)
<1>1. Len(Strip(request.key)) \in 1..MaxKeyLength /\ ValidBody(request.body)
  BY Checked
<1>2. read \in Decimals
  BY AmountRead
<1>3. WithinLimit(read) /\ WholeCents(read) /\ request.body.description \in 1..MaxDescription
  BY <1>1 DEF ValidBody
<1> HIDE DEF read
<1>4. NormalizeAmount(read).u \in 1..MaxAmount /\ SameNumber(NormalizeAmount(read), read)
  BY <1>2, <1>3, CentsAreExact, CentsAreBounded
<1>5. request.body.description <= MaxDescription
  BY <1>3, LimitsAssumption
<1> QED
  BY <1>1, <1>4, <1>5 DEF FitsTable, Command, MaxAmount, read

\* schemas.py:17-48 against models.py:51-61 and 93: what the API lets through, the
\* columns can hold, to the cent, and the CHECK of the table accepts.
THEOREM NoLateRefusal == Spec => []AdmittedFits
<1>1. arrived \subseteq Requests => AdmittedFits
  BY AcceptedFits DEF AdmittedFits, Accepted
<1> QED
  BY <1>1, FromRequests, PTL

\* schemas.py:36: no cents are dropped of an amount that is written as a JSON
\* string or integer, or with no more digits than a float keeps.
THEOREM AmountIsKept == Spec => []AmountKept
<1>1. arrived \subseteq Requests => AmountKept
  <2> SUFFICES ASSUME arrived \subseteq Requests, NEW request \in Accepted,
                      \/ request.body.amount.quoted
                      \/ request.body.amount.s = 1
                      \/ request.body.amount.u < FloatLimit
               PROVE  SameNumber(NormalizeAmount(Command(request).amount), request.body.amount)
    BY DEF AmountKept
  <2> DEFINE amount == request.body.amount
             read == ReadAmount(amount)
             cents == NormalizeAmount(read)
  <2>1. request \in Requests /\ Refusal(request) = Admitted
    BY DEF Accepted
  <2>2. amount.u \in Nat /\ amount.s \in Nat \ {0}
    BY <2>1, RequestsAssumption, LimitsAssumption, PowersAssumption
  <2>3. read \in Decimals /\ WholeCents(read)
    BY <2>1, Checked, AmountRead DEF ValidBody
  <2>4. SameNumber(read, amount)
    <3>1. CASE amount.quoted \/ amount.s = 1
      BY <2>2, <3>1 DEF ReadAmount, SameNumber
    <3>2. CASE amount.u < FloatLimit
      BY <2>1, <3>2, ShortAmountRead
    <3> QED
      BY <3>1, <3>2
  <2>5. Command(request).amount = read
    BY DEF Command
  <2> HIDE DEF amount, read
  <2>6. cents.s = 100 /\ cents.u \in Nat /\ SameNumber(cents, read)
    BY <2>3, CentsAreExact
  <2>7. SameNumber(cents, amount)
    BY <2>2, <2>3, <2>4, <2>6, SameIsTransitive DEF Decimals
  <2> QED
    BY <2>5, <2>7 DEF amount
<1> QED
  BY <1>1, FromRequests, PTL

\* What two bodies say of the amount, and what their fingerprints say of it.
AmountsDistinguished ==
    \A r, q \in Accepted :
        NormalizeAmount(Command(r).amount) = NormalizeAmount(Command(q).amount)
        <=> SameNumber(ReadAmount(r.body.amount), ReadAmount(q.body.amount))

\* fingerprint.py:18-23: 100.5 and 100.50 have one fingerprint, two numbers never.
THEOREM AmountIsCanonical == Spec => []AmountsDistinguished
<1>1. arrived \subseteq Requests => AmountsDistinguished
  <2> SUFFICES ASSUME arrived \subseteq Requests, NEW r \in Accepted, NEW q \in Accepted
               PROVE  NormalizeAmount(ReadAmount(r.body.amount))
                         = NormalizeAmount(ReadAmount(q.body.amount))
                      <=> SameNumber(ReadAmount(r.body.amount), ReadAmount(q.body.amount))
    BY DEF AmountsDistinguished, Command
  <2>1. ASSUME NEW x \in Accepted
        PROVE  ReadAmount(x.body.amount) \in Decimals /\ WholeCents(ReadAmount(x.body.amount))
    BY Checked, AmountRead DEF ValidBody, Accepted
  <2> QED
    BY <2>1, CentsAreCanonical
<1> QED
  BY <1>1, FromRequests, PTL

LEMMA AcceptedDiffer ==
    ASSUME NEW r \in Requests, NEW q \in Requests, Refusal(r) = Admitted, Refusal(q) = Admitted
    PROVE  Fingerprint(Command(r)) = Fingerprint(Command(q)) <=> SameBody(r.body, q.body)
<1> DEFINE b == r.body
           c == q.body
           m == ReadAmount(b.amount)
           n == ReadAmount(c.amount)
<1>1. ASSUME NEW x \in Requests, Refusal(x) = Admitted
      PROVE  /\ ReadAmount(x.body.amount) \in Decimals /\ WholeCents(ReadAmount(x.body.amount))
             /\ x.body.metadata \in Values
  BY <1>1, Checked, AmountRead, RequestsAssumption DEF ValidBody
<1>2. NormalizeAmount(m) = NormalizeAmount(n) <=> SameNumber(m, n)
  BY <1>1, CentsAreCanonical
<1>3. Text(b.metadata) = Text(c.metadata)
      <=> Meaning[b.metadata] = Meaning[c.metadata]
  BY <1>1, TextIsExact
<1>4. ASSUME NEW x
      PROVE  Fingerprint(Command(x)) =
                [amount |-> NormalizeAmount(ReadAmount(x.body.amount)),
                 currency |-> x.body.currency,
                 description |-> x.body.description,
                 metadata |-> Text(x.body.metadata),
                 webhook_url |-> UrlText(x.body.webhook_url)]
  BY DEF Fingerprint, Command, Text
<1>5. Fingerprint(Command(r)) = Fingerprint(Command(q)) <=>
         /\ NormalizeAmount(m) = NormalizeAmount(n)
         /\ b.currency = c.currency
         /\ b.description = c.description
         /\ Text(b.metadata) = Text(c.metadata)
         /\ UrlText(b.webhook_url) = UrlText(c.webhook_url)
  <2> DEFINE F(x) == [amount |-> NormalizeAmount(ReadAmount(x.body.amount)),
                      currency |-> x.body.currency,
                      description |-> x.body.description,
                      metadata |-> Text(x.body.metadata),
                      webhook_url |-> UrlText(x.body.webhook_url)]
  <2>1. Fingerprint(Command(r)) = F(r) /\ Fingerprint(Command(q)) = F(q)
    BY <1>4
  <2>2. F(r) = F(q) <=> /\ F(r).amount = F(q).amount
                        /\ F(r).currency = F(q).currency
                        /\ F(r).description = F(q).description
                        /\ F(r).metadata = F(q).metadata
                        /\ F(r).webhook_url = F(q).webhook_url
    OBVIOUS
  <2> QED
    BY <2>1, <2>2
<1> QED
  BY <1>2, <1>3, <1>5 DEF SameBody

\* fingerprint.py:3-8: two bodies that were accepted have one fingerprint if and
\* only if they say the same: the order of keys, a key written twice and the
\* spelling of numbers do not matter, and everything else does.
THEOREM FingerprintIsExact == Spec => []FingerprintExact
<1>1. arrived \subseteq Requests => FingerprintExact
  BY AcceptedDiffer DEF FingerprintExact, Accepted
<1> QED
  BY <1>1, FromRequests, PTL

=============================================================================

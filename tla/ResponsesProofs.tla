--------------------------- MODULE ResponsesProofs ---------------------------
(***************************************************************************)
(* Proofs about Responses: every text is one JSON value (WellFormedHolds), *)
(* shows what was read (DataIsReadHolds) in the precision that was asked   *)
(* for (PrecisionAsAskedHolds). First what recursive functions make of     *)
(* texts, by induction; then what a reader expects before and after each   *)
(* text; then what each text shows, from single values to the answer for   *)
(* a group; last the precisions and the two invariants.                    *)
(***************************************************************************)
EXTENDS Responses, WellFoundedInduction, FiniteSetTheorems, SequenceTheorems, TLAPS

-------------------------------------------------------------------------------
(* Induction, stated of sets of numbers: the provers do not instantiate a   *)
(* theorem about an operator.                                               *)

\* A set of numbers has a least one.
LEMMA LeastNat ==
    ASSUME NEW T \in SUBSET Nat, T # {}
    PROVE  \E m \in T : \A k \in T : m <= k
<1> DEFINE R == OpToRel(<, Nat)
<1>1. IsWellFoundedOn(R, Nat)
  BY NatLessThanWellFounded
<1>2. \A x, y \in Nat : <<x, y>> \in R <=> x < y
  BY DEF OpToRel
<1> HIDE DEF R
<1>3. PICK x \in T : \A y \in T : ~ (<<y, x>> \in R)
  BY <1>1, WFMin
<1>4. ASSUME NEW y \in T PROVE x <= y
  <2>1. x \in Nat /\ y \in Nat
    OBVIOUS
  <2>2. ~ (y < x)
    BY <1>2, <1>3, <2>1
  <2> QED
    BY <2>1, <2>2
<1> QED
  BY <1>4

\* A set that holds zero, and with each number the next, holds all.
LEMMA Induction ==
    ASSUME NEW P, 0 \in P, \A n \in Nat : n \in P => n + 1 \in P
    PROVE  Nat \subseteq P
<1> DEFINE Bad == Nat \ P
<1>1. SUFFICES ASSUME Bad # {} PROVE FALSE
  OBVIOUS
<1>2. PICK m \in Bad : \A k \in Bad : m <= k
  BY <1>1, LeastNat
<1>3. m \in Nat /\ m # 0 /\ m - 1 \in Nat
  BY <1>2
<1>4. m - 1 \in P
  BY <1>2, <1>3
<1> QED
  BY <1>3, <1>4

-------------------------------------------------------------------------------
(* FlattenSeq *)

\* Texts are sequences of whatever tokens.
IsText(t) == \E T : t \in Seq(T)

LEMMA TextLen == ASSUME NEW t, IsText(t) PROVE Len(t) \in Nat /\ DOMAIN t = 1..Len(t)
BY DEF IsText

LEMMA TextCat == ASSUME NEW s, NEW t, IsText(s), IsText(t)
                 PROVE  /\ IsText(s \o t)
                        /\ Len(s \o t) = Len(s) + Len(t)
                        /\ \A i \in 1..Len(s) + Len(t) :
                              (s \o t)[i] = IF i <= Len(s) THEN s[i] ELSE t[i - Len(s)]
<1>1. PICK S, T : s \in Seq(S) /\ t \in Seq(T)
  BY DEF IsText
<1>2. s \in Seq(S \cup T) /\ t \in Seq(S \cup T)
  BY <1>1, SeqMonotonic
<1>3. s \o t \in Seq(S \cup T)
  BY <1>2, ConcatProperties
<1>4. IsText(s \o t)
  BY <1>3 DEF IsText
<1> QED
  BY <1>2, <1>4, ConcatProperties

LEMMA TextEmpty == IsText(<<>>)
<1>1. <<>> \in Seq({})
  OBVIOUS
<1> QED
  BY <1>1 DEF IsText

LEMMA TextOne == ASSUME NEW x PROVE IsText(<<x>>)
<1>1. <<x>> \in Seq({x})
  OBVIOUS
<1> QED
  BY <1>1 DEF IsText

\* The recursion of FlattenSeq has a solution.
LEMMA FlattenFunction ==
    ASSUME NEW s
    PROVE  \A n \in Nat : \E f : f = [i \in 1..n |-> IF i = 1 THEN s[i] ELSE f[i - 1] \o s[i]]
<1> DEFINE Solves(f, n) == f = [i \in 1..n |-> IF i = 1 THEN s[i] ELSE f[i - 1] \o s[i]]
           P == {n \in Nat : \E f : Solves(f, n)}
<1>1. 0 \in P
  <2>1. <<>> = [i \in 1..0 |-> IF i = 1 THEN s[i] ELSE <<>>[i - 1] \o s[i]]
    OBVIOUS
  <2> QED
    BY <2>1
<1>2. ASSUME NEW n \in Nat, n \in P PROVE n + 1 \in P
  <2>1. PICK f : Solves(f, n)
    BY <1>2
  <2> DEFINE g == [i \in 1..n + 1 |->
                     IF i <= n THEN f[i] ELSE IF i = 1 THEN s[i] ELSE f[i - 1] \o s[i]]
  <2>2. ASSUME NEW i \in 1..n + 1 PROVE g[i] = IF i = 1 THEN s[i] ELSE g[i - 1] \o s[i]
    <3>1. CASE i = n + 1
      BY <3>1
    <3>2. CASE i \in 1..n
      <4>1. f[i] = IF i = 1 THEN s[i] ELSE f[i - 1] \o s[i]
        BY <2>1, <3>2
      <4>2. g[i] = f[i] /\ (i # 1 => g[i - 1] = f[i - 1])
        BY <3>2
      <4> QED
        BY <4>1, <4>2
    <3> QED
      BY <3>1, <3>2
  <2>3. Solves(g, n + 1)
    BY <2>2
  <2> HIDE DEF Solves, g
  <2> QED
    BY <2>3
<1> HIDE DEF P
<1>3. Nat \subseteq P
  BY <1>1, <1>2, Induction
<1> QED
  BY <1>3 DEF P

\* f[i] is the first i of the texts s, one behind the other.
IsFlattening(f, s) ==
    /\ FlattenSeq(s) = f[Len(s)]
    /\ f[1] = s[1]
    /\ \A i \in 2..Len(s) : f[i] = f[i - 1] \o s[i]

LEMMA FlattenSteps ==
    ASSUME NEW s, Len(s) \in Nat \ {0}
    PROVE  \E f : IsFlattening(f, s)
<1> DEFINE f == CHOOSE f : f = [i \in 1..Len(s) |-> IF i = 1 THEN s[i] ELSE f[i - 1] \o s[i]]
<1>1. f = [i \in 1..Len(s) |-> IF i = 1 THEN s[i] ELSE f[i - 1] \o s[i]]
  BY FlattenFunction
<1>2. FlattenSeq(s) = f[Len(s)]
  BY DEF FlattenSeq
<1> HIDE DEF f
<1>3. f[1] = s[1]
  BY <1>1
<1>4. ASSUME NEW i \in 2..Len(s) PROVE f[i] = f[i - 1] \o s[i]
  <2>1. i \in 1..Len(s) /\ i # 1
    OBVIOUS
  <2>2. \A j \in 1..Len(s) : f[j] = IF j = 1 THEN s[j] ELSE f[j - 1] \o s[j]
    BY <1>1, ZenonT(40)
  <2> QED
    BY <2>1, <2>2
<1>5. IsFlattening(f, s)
  BY <1>2, <1>3, <1>4 DEF IsFlattening
<1> QED
  BY <1>5

\* A function on 1..n is a sequence of n.
LEMMA Sized ==
    ASSUME NEW n \in Nat, NEW s, s = [i \in 1..n |-> s[i]]
    PROVE  IsText(s) /\ Len(s) = n /\ DOMAIN s = 1..n
<1> DEFINE T == {s[i] : i \in 1..n}
<1>1. s \in [1..n -> T]
  OBVIOUS
<1>2. s \in Seq(T)
  BY <1>1
<1>3. Len(s) = n
  BY <1>1, <1>2
<1> QED
  BY <1>2, <1>3 DEF IsText

LEMMA FlattenNothing == FlattenSeq(<<>>) = <<>>
BY DEF FlattenSeq

-------------------------------------------------------------------------------
(* FoldLeft of Read: what a reader expects after a text. *)

Reads(expected, t) == FoldLeft(Read, expected, t)

LEMMA MaxUpTo ==
    ASSUME NEW n \in Nat, NEW s \in SUBSET (1..n + 1), n + 1 \in s
    PROVE  Max(s) = n + 1
<1>1. \A y \in s : y <= n + 1
  OBVIOUS
<1>2. \A x \in s : (\A y \in s : y <= x) => x = n + 1
  OBVIOUS
<1> QED
  BY <1>1, <1>2 DEF Max

\* The recursion of MapThenFoldSet has a solution.
IsTable(f, e, t, n) ==
    f = [s \in SUBSET (1..n) |-> IF s = {} THEN e ELSE Read(f[s \ {Max(s)}], t[Max(s)])]

LEMMA TableExists ==
    ASSUME NEW e, NEW t
    PROVE  \A n \in Nat : \E f : IsTable(f, e, t, n)
<1> DEFINE P == {n \in Nat : \E f : IsTable(f, e, t, n)}
<1>1. 0 \in P
  <2> DEFINE f == [s \in SUBSET (1..0) |-> e]
  <2>1. IsTable(f, e, t, 0)
    BY 1..0 = {} DEF IsTable
  <2> HIDE DEF f
  <2> QED
    BY <2>1
<1>2. ASSUME NEW n \in Nat, n \in P PROVE n + 1 \in P
  <2>1. PICK f : IsTable(f, e, t, n)
    BY <1>2
  <2> DEFINE g == [s \in SUBSET (1..n + 1) |->
                     IF s \subseteq 1..n THEN f[s] ELSE Read(f[s \ {n + 1}], t[n + 1])]
  <2>2. ASSUME NEW s \in SUBSET (1..n + 1)
        PROVE  g[s] = IF s = {} THEN e ELSE Read(g[s \ {Max(s)}], t[Max(s)])
    <3>1. CASE s \subseteq 1..n
      <4>1. f[s] = IF s = {} THEN e ELSE Read(f[s \ {Max(s)}], t[Max(s)])
        BY <2>1, <3>1, ZenonT(40) DEF IsTable
      <4>2. g[s] = f[s]
        BY <3>1
      <4>3. s \ {Max(s)} \in SUBSET (1..n + 1) /\ s \ {Max(s)} \subseteq 1..n
        BY <3>1
      <4>4. g[s \ {Max(s)}] = f[s \ {Max(s)}]
        BY <4>3
      <4> QED
        BY <4>1, <4>2, <4>4
    <3>2. CASE n + 1 \in s
      <4>1. Max(s) = n + 1
        BY <3>2, MaxUpTo
      <4>2. ~(s \subseteq 1..n) /\ s # {}
        BY <3>2
      <4>3. s \ {n + 1} \in SUBSET (1..n + 1) /\ s \ {n + 1} \subseteq 1..n
        OBVIOUS
      <4>4. g[s \ {n + 1}] = f[s \ {n + 1}]
        BY <4>3
      <4>5. g[s] = Read(f[s \ {n + 1}], t[n + 1])
        BY <4>2
      <4> QED
        BY <4>1, <4>2, <4>4, <4>5
    <3> QED
      BY <3>1, <3>2
  <2>3. IsTable(g, e, t, n + 1)
    BY <2>2 DEF IsTable
  <2> HIDE DEF g
  <2> QED
    BY <2>3
<1>3. Nat \subseteq P
  <2> HIDE DEF P
  <2> QED
    BY <1>1, <1>2, Induction
<1> QED
  BY <1>3

\* g[i] is what is expected after i tokens.
IsReading(g, e, t) ==
    /\ Reads(e, t) = g[Len(t)]
    /\ g[0] = e
    /\ \A i \in 1..Len(t) : g[i] = Read(g[i - 1], t[i])

LEMMA ReadsSteps ==
    ASSUME NEW e, NEW t, Len(t) \in Nat, DOMAIN t = 1..Len(t)
    PROVE  \E g : IsReading(g, e, t)
<1> DEFINE n == Len(t)
           F == CHOOSE f : IsTable(f, e, t, n)
           g == [i \in 0..n |-> F[1..i]]
<1>1. IsTable(F, e, t, n)
  BY TableExists, ZenonT(40)
<1>2. Reads(e, t) = F[1..n]
  BY DEF Reads, FoldLeft, MapThenFoldSet, IsTable
<1> HIDE DEF F
<1>3. ASSUME NEW s \in SUBSET (1..n)
      PROVE  F[s] = IF s = {} THEN e ELSE Read(F[s \ {Max(s)}], t[Max(s)])
  BY <1>1, ZenonT(40) DEF IsTable
<1>4. g[0] = e
  <2>1. 1..0 = {} /\ g[0] = F[1..0]
    OBVIOUS
  <2>2. F[{}] = e
    BY <1>3
  <2> QED
    BY <2>1, <2>2
<1>5. ASSUME NEW i \in 1..n PROVE g[i] = Read(g[i - 1], t[i])
  <2> DEFINE k == i - 1
  <2>1. k \in Nat /\ k + 1 = i /\ i \in 1..i /\ 1..i \in SUBSET (1..n)
    OBVIOUS
  <2>2. Max(1..i) = i
    <3> HIDE DEF k
    <3>1. 1..i \in SUBSET (1..k + 1) /\ k + 1 \in 1..i
      BY <2>1
    <3> QED
      BY <2>1, <3>1, MaxUpTo
  <2>3. 1..i \ {i} = 1..i - 1
    OBVIOUS
  <2> QED
    BY <1>3, <2>1, <2>2, <2>3
<1>6. g[n] = F[1..n]
  OBVIOUS
<1> HIDE DEF g
<1> QED
  BY <1>2, <1>4, <1>5, <1>6 DEF IsReading

LEMMA ReadsEmpty == ASSUME NEW e PROVE Reads(e, <<>>) = e
<1>1. Len(<<>>) = 0 /\ DOMAIN <<>> = 1..0
  OBVIOUS
<1> QED
  BY <1>1, ReadsSteps DEF IsReading

LEMMA ReadsOne == ASSUME NEW e, NEW x PROVE Reads(e, <<x>>) = Read(e, x)
<1> DEFINE t == <<x>>
<1>1. Len(t) = 1 /\ DOMAIN t = 1..1 /\ t[1] = x
  OBVIOUS
<1> HIDE DEF t
<1>2. PICK g : IsReading(g, e, t)
  BY <1>1, ReadsSteps
<1>3. g[1] = Read(g[0], t[1]) /\ Reads(e, t) = g[1] /\ g[0] = e
  BY <1>1, <1>2 DEF IsReading
<1> QED
  BY <1>1, <1>2, <1>3 DEF t

LEMMA ReadsBoth ==
    ASSUME NEW e, NEW s, NEW t, NEW u, IsText(s), IsText(t), IsText(u),
           Len(u) = Len(s) + Len(t),
           \A i \in 1..Len(s) + Len(t) : u[i] = IF i <= Len(s) THEN s[i] ELSE t[i - Len(s)]
    PROVE  Reads(e, u) = Reads(Reads(e, s), t)
<1>1. /\ Len(s) \in Nat /\ DOMAIN s = 1..Len(s)
      /\ Len(t) \in Nat /\ DOMAIN t = 1..Len(t)
  BY TextLen
<1>2. Len(u) \in Nat /\ DOMAIN u = 1..Len(u)
  BY TextLen
<1>3. PICK g : IsReading(g, e, u)
  BY <1>2, ReadsSteps
<1>4. PICK h : IsReading(h, e, s)
  BY <1>1, ReadsSteps
<1>5. PICK k : IsReading(k, Reads(e, s), t)
  BY <1>1, ReadsSteps
<1>6. g[Len(s)] = h[Len(s)]
  <2> DEFINE P == {i \in Nat : i <= Len(s) => g[i] = h[i]}
  <2>1. 0 \in P
    BY <1>3, <1>4 DEF IsReading
  <2>2. ASSUME NEW i \in Nat, i \in P PROVE i + 1 \in P
    <3> SUFFICES ASSUME i + 1 <= Len(s) PROVE g[i + 1] = h[i + 1]
      OBVIOUS
    <3>1. g[i] = h[i] /\ i + 1 \in 1..Len(s) /\ i + 1 \in 1..Len(u) /\ (i + 1) - 1 = i
      BY <1>1, <1>2, <2>2
    <3>2. u[i + 1] = s[i + 1]
      BY <1>1, <1>2, <3>1
    <3>3. g[i + 1] = Read(g[i], u[i + 1]) /\ h[i + 1] = Read(h[i], s[i + 1])
      BY <1>3, <1>4, <3>1 DEF IsReading
    <3> QED
      BY <3>1, <3>2, <3>3
  <2> HIDE DEF P
  <2>3. Len(s) \in P
    BY <1>1, <2>1, <2>2, Induction
  <2> QED
    BY <1>1, <2>3 DEF P
<1>7. g[Len(s) + Len(t)] = k[Len(t)]
  <2> DEFINE P == {i \in Nat : i <= Len(t) => g[Len(s) + i] = k[i]}
  <2>1. 0 \in P
    BY <1>1, <1>4, <1>5, <1>6 DEF IsReading
  <2>2. ASSUME NEW i \in Nat, i \in P PROVE i + 1 \in P
    <3> SUFFICES ASSUME i + 1 <= Len(t) PROVE g[Len(s) + (i + 1)] = k[i + 1]
      OBVIOUS
    <3>1. /\ g[Len(s) + i] = k[i] /\ i + 1 \in 1..Len(t)
          /\ Len(s) + (i + 1) \in 1..Len(u) /\ (Len(s) + (i + 1)) - 1 = Len(s) + i
          /\ (i + 1) - 1 = i /\ ~(Len(s) + (i + 1) <= Len(s)) /\ (Len(s) + (i + 1)) - Len(s) = i + 1
      BY <1>1, <1>2, <2>2
    <3>2. u[Len(s) + (i + 1)] = t[i + 1]
      BY <1>1, <1>2, <3>1
    <3>3. g[Len(s) + (i + 1)] = Read(g[Len(s) + i], u[Len(s) + (i + 1)])
      BY <1>3, <3>1 DEF IsReading
    <3>4. k[i + 1] = Read(k[i], t[i + 1])
      BY <1>5, <3>1 DEF IsReading
    <3> QED
      BY <3>1, <3>2, <3>3, <3>4
  <2> HIDE DEF P
  <2>3. Len(t) \in P
    BY <1>1, <2>1, <2>2, Induction
  <2> QED
    BY <1>1, <2>3 DEF P
<1> QED
  BY <1>2, <1>3, <1>5, <1>7 DEF IsReading

LEMMA ReadsCat ==
    ASSUME NEW e, NEW s, NEW t, IsText(s), IsText(t)
    PROVE  Reads(e, s \o t) = Reads(Reads(e, s), t)
<1>1. PICK u : u = s \o t
  OBVIOUS
<1>2. /\ IsText(u)
      /\ Len(u) = Len(s) + Len(t)
      /\ \A i \in 1..Len(s) + Len(t) : u[i] = IF i <= Len(s) THEN s[i] ELSE t[i - Len(s)]
  BY <1>1, TextCat
<1>3. Reads(e, u) = Reads(Reads(e, s), t)
  BY <1>2, ReadsBoth
<1> QED
  BY <1>1, <1>3

-------------------------------------------------------------------------------
(* What a text does to what a reader expects: it takes a to b if it meets   *)
(* the expectations a and leaves b, whatever is expected behind a.          *)

Symbol == {"value", "first key", "key", "member", "first element", "element"}
Expected == Seq(Symbol)

Takes(t, a, b) ==
    /\ IsText(t) /\ a \in Expected /\ b \in Expected
    /\ \A e \in Expected : Reads(a \o e, t) = b \o e

AValue == <<"value">>
FirstKey == <<"first key">>
NextKey == <<"key">>
Member == <<"member">>
ItsValue == <<"value", "member">>
FirstElement == <<"first element">>
AnElement == <<"element">>
NextElement == <<"value", "element">>

IsValue(t) == Takes(t, AValue, <<>>)

LEMMA ExpectedTypes ==
    /\ <<>> \in Expected /\ AValue \in Expected /\ FirstKey \in Expected /\ NextKey \in Expected
    /\ Member \in Expected /\ ItsValue \in Expected /\ FirstElement \in Expected
    /\ AnElement \in Expected /\ NextElement \in Expected
BY DEF Expected, Symbol, AValue, FirstKey, NextKey, Member, ItsValue, FirstElement, AnElement,
       NextElement

LEMMA ExpectedCat ==
    /\ \A a, b \in Expected : a \o b \in Expected
    /\ \A a, b, c \in Expected : (a \o b) \o c = a \o (b \o c)
    /\ \A a \in Expected : a \o <<>> = a /\ <<>> \o a = a
BY ConcatProperties, ConcatAssociative, ConcatEmptySeq DEF Expected

\* One text behind the other.
LEMMA TakesCat ==
    ASSUME NEW s, NEW t, NEW a, NEW b, NEW c, Takes(s, a, b), Takes(t, b, c)
    PROVE  Takes(s \o t, a, c)
<1>1. IsText(s) /\ IsText(t) /\ a \in Expected /\ c \in Expected
  BY DEF Takes
<1>2. IsText(s \o t)
  BY <1>1, TextCat
<1>3. ASSUME NEW e \in Expected PROVE Reads(a \o e, s \o t) = c \o e
  <2>1. Reads(a \o e, s) = b \o e /\ Reads(b \o e, t) = c \o e
    BY DEF Takes
  <2>2. Reads(a \o e, s \o t) = Reads(Reads(a \o e, s), t)
    BY <1>1, ReadsCat
  <2> QED
    BY <2>1, <2>2
<1> QED
  BY <1>1, <1>2, <1>3 DEF Takes

LEMMA TakesNothing == ASSUME NEW a \in Expected PROVE Takes(<<>>, a, a)
BY TextEmpty, ReadsEmpty DEF Takes

\* More may be expected behind.
LEMMA TakesMore ==
    ASSUME NEW t, NEW a, NEW b, NEW c \in Expected, Takes(t, a, b)
    PROVE  Takes(t, a \o c, b \o c)
<1>1. IsText(t) /\ a \in Expected /\ b \in Expected
  BY DEF Takes
<1>2. a \o c \in Expected /\ b \o c \in Expected
  BY <1>1, ExpectedCat
<1>3. ASSUME NEW e \in Expected PROVE Reads((a \o c) \o e, t) = (b \o c) \o e
  <2>1. c \o e \in Expected
    BY ExpectedCat
  <2>2. (a \o c) \o e = a \o (c \o e) /\ (b \o c) \o e = b \o (c \o e)
    BY <1>1, ExpectedCat
  <2>3. Reads(a \o (c \o e), t) = b \o (c \o e)
    BY <2>1 DEF Takes
  <2> QED
    BY <2>2, <2>3
<1> QED
  BY <1>1, <1>2, <1>3 DEF Takes

LEMMA TakesOne ==
    ASSUME NEW x, NEW a \in Expected, NEW b \in Expected,
           \A e \in Expected : Read(a \o e, x) = b \o e
    PROVE  Takes(<<x>>, a, b)
BY TextOne, ReadsOne DEF Takes

\* What a symbol in front does.
LEMMA NotStuck == ASSUME NEW e \in Expected PROVE e # Stuck
<1> SUFFICES ASSUME e = Stuck PROVE FALSE
  OBVIOUS
<1>1. Len(e) = 1 /\ e[1] = "stuck"
  BY DEF Stuck
<1>2. e[1] \in Symbol
  BY <1>1, ElementOfSeq DEF Expected
<1> QED
  BY <1>1, <1>2 DEF Symbol

LEMMA InFront ==
    ASSUME NEW x \in Symbol, NEW e \in Expected, NEW s, s = <<x>> \o e
    PROVE  s \in Expected /\ s[1] = x /\ Tail(s) = e /\ s # <<>> /\ s # Stuck
<1>1. <<x>> \in Seq(Symbol) /\ e \in Seq(Symbol) /\ Len(<<x>>) = 1 /\ <<x>>[1] = x
  BY DEF Expected
<1>2. /\ s \in Seq(Symbol) /\ Len(s) = 1 + Len(e)
      /\ \A i \in 1..1 + Len(e) : s[i] = IF i <= 1 THEN x ELSE e[i - 1]
  BY <1>1, ConcatProperties
<1>3. Len(e) \in Nat
  BY <1>1
<1>4. s[1] = x
  BY <1>2, <1>3
<1>5. s # <<>>
  BY <1>2, <1>3
<1>6. Tail(s) = e
  <2>1. Tail(s) \in Seq(Symbol) /\ Len(Tail(s)) = Len(e)
    BY <1>2, <1>3, <1>5, HeadTailProperties
  <2>2. ASSUME NEW i \in 1..Len(e) PROVE Tail(s)[i] = e[i]
    BY <1>2, <1>3, <1>5
  <2> QED
    BY <1>1, <2>1, <2>2, SeqEqual
<1>7. s \in Expected
  BY <1>2 DEF Expected
<1> QED
  BY <1>4, <1>5, <1>6, <1>7, NotStuck

\* A reader that is stuck stays so.
LEMMA StuckStays == ASSUME NEW t, IsText(t) PROVE Reads(Stuck, t) = Stuck
<1>1. Len(t) \in Nat /\ DOMAIN t = 1..Len(t)
  BY TextLen
<1>2. PICK g : IsReading(g, Stuck, t)
  BY <1>1, ReadsSteps
<1> DEFINE P == {i \in Nat : i <= Len(t) => g[i] = Stuck}
<1>3. 0 \in P
  BY <1>2 DEF IsReading
<1>4. ASSUME NEW i \in Nat, i \in P PROVE i + 1 \in P
  <2> SUFFICES ASSUME i + 1 <= Len(t) PROVE g[i + 1] = Stuck
    OBVIOUS
  <2>1. g[i] = Stuck /\ i + 1 \in 1..Len(t) /\ (i + 1) - 1 = i
    BY <1>1, <1>4
  <2>2. g[i + 1] = Read(g[i], t[i + 1])
    BY <1>2, <2>1 DEF IsReading
  <2> QED
    BY <2>1, <2>2 DEF Read
<1> HIDE DEF P
<1>5. Len(t) \in P
  BY <1>1, <1>3, <1>4, Induction
<1> QED
  BY <1>1, <1>2, <1>5 DEF P, IsReading

\* A text that begins a value at a place for one does the same at a place for an element.
LEMMA StartsAlike ==
    ASSUME NEW x, NEW e \in Expected
    PROVE  LET f == AnElement \o e
           IN  \/ Read(AValue \o f, x) = Read(FirstElement \o e, x)
               \/ Read(AValue \o f, x) = Stuck
<1>1. PICK f : f = AnElement \o e
  OBVIOUS
<1>2. f \in Expected /\ f # Stuck
  BY <1>1, InFront DEF AnElement, Symbol
<1>3. PICK v : v = AValue \o f
  OBVIOUS
<1>4. PICK w : w = FirstElement \o e
  OBVIOUS
<1>5. v[1] = "value" /\ Tail(v) = f /\ v # <<>> /\ v # Stuck
  BY <1>2, <1>3, InFront DEF AValue, Symbol
<1>6. w[1] = "first element" /\ Tail(w) = e /\ w # <<>> /\ w # Stuck
  BY <1>4, InFront DEF FirstElement, Symbol
<1>7. Started(v) = f /\ Started(w) = f
  BY <1>1, <1>5, <1>6 DEF Started, AnElement
<1>8. Read(v, x) = Read(w, x) \/ Read(v, x) = Stuck
  <2>1. CASE x[1] \in {"value", "{", "["}
    BY <1>5, <1>6, <1>7, <2>1 DEF Read, Opened
  <2>2. CASE x[1] \notin {"value", "{", "["}
    BY <1>5, <2>2 DEF Read, Closed
  <2> QED
    BY <2>1, <2>2
<1> QED
  BY <1>1, <1>3, <1>4, <1>8

LEMMA ValueIsElement ==
    ASSUME NEW t, IsValue(t)
    PROVE  Takes(t, FirstElement, AnElement)
<1>1. IsText(t) /\ \A e \in Expected : Reads(AValue \o e, t) = <<>> \o e
  BY DEF IsValue, Takes
<1>2. t # <<>>
  <2> SUFFICES ASSUME t = <<>> PROVE FALSE
    OBVIOUS
  <2>1. Reads(AValue \o <<>>, <<>>) = AValue \o <<>>
    BY ReadsEmpty
  <2>2. AValue \o <<>> = AValue /\ <<>> \o <<>> = <<>>
    BY ExpectedTypes, ExpectedCat
  <2>3. Reads(AValue \o <<>>, <<>>) = <<>> \o <<>>
    BY <1>1, ExpectedTypes
  <2>4. AValue # <<>>
    BY DEF AValue
  <2> QED
    BY <2>1, <2>2, <2>3, <2>4
<1>3. PICK T : t \in Seq(T)
  BY <1>1 DEF IsText
<1>4. PICK x, r : t = <<x>> \o r /\ r \in Seq(T)
  <2>1. Head(t) \in T /\ Tail(t) \in Seq(T)
    BY <1>2, <1>3, HeadTailProperties
  <2>2. t = <<Head(t)>> \o Tail(t)
    BY <1>2, <1>3
  <2> QED
    BY <2>1, <2>2
<1>5. IsText(<<x>>) /\ IsText(r)
  BY <1>4, TextOne DEF IsText
<1>6. \A e : Reads(e, t) = Reads(Read(e, x), r)
  BY <1>4, <1>5, ReadsCat, ReadsOne
<1>7. ASSUME NEW e \in Expected PROVE Reads(FirstElement \o e, t) = AnElement \o e
  <2>1. PICK f : f = AnElement \o e
    OBVIOUS
  <2>2. f \in Expected /\ <<>> \o f = f /\ f # Stuck
    BY <2>1, ExpectedTypes, ExpectedCat, NotStuck
  <2>3. Reads(AValue \o f, t) = f
    BY <1>1, <2>2
  <2>4. Read(AValue \o f, x) # Stuck
    BY <1>5, <1>6, <2>2, <2>3, StuckStays
  <2>5. Read(AValue \o f, x) = Read(FirstElement \o e, x)
    BY <2>1, <2>4, StartsAlike
  <2> QED
    BY <1>6, <2>1, <2>3, <2>5
<1> QED
  BY <1>1, <1>7, ExpectedTypes DEF Takes

-------------------------------------------------------------------------------
(* The pieces texts are made of. *)

LEMMA LBraceTakes == Takes(LBrace, AValue, FirstKey)
<1>1. ASSUME NEW e \in Expected PROVE Read(AValue \o e, <<"{">>) = FirstKey \o e
  <2>1. PICK v : v = AValue \o e
    OBVIOUS
  <2>2. v[1] = "value" /\ Tail(v) = e /\ v # <<>> /\ v # Stuck
    BY <2>1, InFront DEF AValue, Symbol
  <2>3. Started(v) = e /\ e # Stuck
    BY <2>2, NotStuck DEF Started
  <2>4. Read(v, <<"{">>) = <<"first key">> \o e
    BY <2>2, <2>3 DEF Read, Opened
  <2> QED
    BY <2>1, <2>4 DEF FirstKey
<1> QED
  BY <1>1, TakesOne, ExpectedTypes DEF LBrace

LEMMA LBracketTakes == Takes(LBracket, AValue, FirstElement)
<1>1. ASSUME NEW e \in Expected PROVE Read(AValue \o e, <<"[">>) = FirstElement \o e
  <2>1. PICK v : v = AValue \o e
    OBVIOUS
  <2>2. v[1] = "value" /\ Tail(v) = e /\ v # <<>> /\ v # Stuck
    BY <2>1, InFront DEF AValue, Symbol
  <2>3. Started(v) = e /\ e # Stuck
    BY <2>2, NotStuck DEF Started
  <2>4. Read(v, <<"[">>) = <<"first element">> \o e
    BY <2>2, <2>3 DEF Read, Opened
  <2> QED
    BY <2>1, <2>4 DEF FirstElement
<1> QED
  BY <1>1, TakesOne, ExpectedTypes DEF LBracket

\* A closing brace or bracket, where it may stand.
LEMMA Closes ==
    ASSUME NEW x \in Symbol, NEW e \in Expected
    PROVE  /\ x \in {"first key", "member"} => Read(<<x>> \o e, <<"}">>) = e
           /\ x \in {"first element", "element"} => Read(<<x>> \o e, <<"]">>) = e
<1>1. PICK v : v = <<x>> \o e
  OBVIOUS
<1>2. v[1] = x /\ Tail(v) = e /\ v # <<>> /\ v # Stuck
  BY <1>1, InFront
<1> QED
  BY <1>1, <1>2 DEF Read, Closed

LEMMA RBraceTakes == Takes(RBrace, FirstKey, <<>>) /\ Takes(RBrace, Member, <<>>)
<1>1. ASSUME NEW e \in Expected
      PROVE  Read(FirstKey \o e, <<"}">>) = <<>> \o e /\ Read(Member \o e, <<"}">>) = <<>> \o e
  BY Closes, ExpectedCat DEF FirstKey, Member, Symbol
<1> QED
  BY <1>1, TakesOne, ExpectedTypes DEF RBrace

LEMMA RBracketTakes == Takes(RBracket, FirstElement, <<>>) /\ Takes(RBracket, AnElement, <<>>)
<1>1. ASSUME NEW e \in Expected
      PROVE  /\ Read(FirstElement \o e, <<"]">>) = <<>> \o e
             /\ Read(AnElement \o e, <<"]">>) = <<>> \o e
  BY Closes, ExpectedCat DEF FirstElement, AnElement, Symbol
<1> QED
  BY <1>1, TakesOne, ExpectedTypes DEF RBracket

LEMMA KeyTakes == ASSUME NEW k PROVE Takes(Key(k), FirstKey, ItsValue) /\ Takes(Key(k), NextKey, ItsValue)
<1>1. ASSUME NEW x \in {"first key", "key"}, NEW e \in Expected
      PROVE  Read(<<x>> \o e, <<"key", k>>) = ItsValue \o e
  <2>1. PICK v : v = <<x>> \o e
    OBVIOUS
  <2>2. v[1] = x /\ Tail(v) = e /\ v # <<>> /\ v # Stuck
    BY <2>1, InFront DEF Symbol
  <2>3. Read(v, <<"key", k>>) = <<"value", "member">> \o e
    BY <2>2 DEF Read
  <2> QED
    BY <2>1, <2>3 DEF ItsValue
<1> QED
  BY <1>1, TakesOne, ExpectedTypes DEF Key, FirstKey, NextKey

LEMMA LiteralCats == AValue \o AnElement = NextElement /\ AValue \o Member = ItsValue
<1>1. ASSUME NEW x \in Symbol, NEW y \in Symbol PROVE <<x>> \o <<y>> = <<x, y>>
  <2>1. <<x>> \in Seq(Symbol) /\ <<y>> \in Seq(Symbol) /\ <<x, y>> \in Seq(Symbol)
    OBVIOUS
  <2>2. Len(<<x>>) = 1 /\ Len(<<y>>) = 1 /\ Len(<<x, y>>) = 2 /\ <<x>>[1] = x /\ <<y>>[1] = y
        /\ <<x, y>>[1] = x /\ <<x, y>>[2] = y
    OBVIOUS
  <2>3. PICK u : u = <<x>> \o <<y>>
    OBVIOUS
  <2>4. u \in Seq(Symbol) /\ Len(u) = 2 /\ u[1] = x /\ u[2] = y
    BY <2>1, <2>2, <2>3, ConcatProperties
  <2>5. u = <<x, y>>
    BY <2>1, <2>2, <2>4, SeqEqual
  <2> QED
    BY <2>3, <2>5
<1> QED
  BY <1>1 DEF AValue, AnElement, NextElement, Member, ItsValue, Symbol

LEMMA CommaTakes == Takes(Comma, Member, NextKey) /\ Takes(Comma, AnElement, NextElement)
<1>1. ASSUME NEW e \in Expected PROVE Read(Member \o e, <<",">>) = NextKey \o e
  <2>1. PICK v : v = Member \o e
    OBVIOUS
  <2>2. v[1] = "member" /\ Tail(v) = e /\ v # <<>> /\ v # Stuck
    BY <2>1, InFront DEF Member, Symbol
  <2>3. Read(v, <<",">>) = <<"key">> \o e
    BY <2>2 DEF Read
  <2> QED
    BY <2>1, <2>3 DEF NextKey
<1>2. ASSUME NEW e \in Expected PROVE Read(AnElement \o e, <<",">>) = NextElement \o e
  <2>1. PICK v : v = AnElement \o e
    OBVIOUS
  <2>2. v[1] = "element" /\ v # <<>> /\ v # Stuck
    BY <2>1, InFront DEF AnElement, Symbol
  <2>3. Read(v, <<",">>) = AValue \o v
    BY <2>2 DEF Read, AValue
  <2>4. AValue \o v = AValue \o (AnElement \o e)
    BY <2>1
  <2>5. AValue \o (AnElement \o e) = (AValue \o AnElement) \o e
    BY ExpectedTypes, ExpectedCat, ZenonT(40)
  <2> QED
    BY <2>1, <2>3, <2>4, <2>5, LiteralCats
<1> QED
  BY <1>1, <1>2, TakesOne, ExpectedTypes DEF Comma

LEMMA ValueTakes == ASSUME NEW of, NEW as PROVE IsValue(Value(of, as))
<1>1. ASSUME NEW e \in Expected PROVE Read(AValue \o e, <<"value", of, as>>) = <<>> \o e
  <2>1. PICK v : v = AValue \o e
    OBVIOUS
  <2>2. v[1] = "value" /\ Tail(v) = e /\ v # <<>> /\ v # Stuck
    BY <2>1, InFront DEF AValue, Symbol
  <2>3. Read(v, <<"value", of, as>>) = e
    BY <2>2 DEF Read, Started
  <2> QED
    BY <2>1, <2>3, ExpectedCat
<1> QED
  BY <1>1, TakesOne, ExpectedTypes DEF Value, IsValue

\* A key with a value behind it.
LEMMA MemberTakes ==
    ASSUME NEW k, NEW v, IsValue(v)
    PROVE  Takes(Key(k) \o v, FirstKey, Member) /\ Takes(Key(k) \o v, NextKey, Member)
<1>1. Takes(v, AValue \o Member, <<>> \o Member)
  BY TakesMore, ExpectedTypes DEF IsValue
<1>2. AValue \o Member = ItsValue /\ <<>> \o Member = Member
  BY LiteralCats, ExpectedCat, ExpectedTypes
<1>3. Takes(v, ItsValue, Member)
  BY <1>1, <1>2
<1> QED
  BY <1>3, KeyTakes, TakesCat

LEMMA PlainIsValue == IsValue(Plain)
BY ValueTakes DEF Plain

LEMMA FieldTakes == ASSUME NEW k PROVE Takes(Field(k), FirstKey, Member) /\ Takes(Field(k), NextKey, Member)
BY PlainIsValue, MemberTakes DEF Field

-------------------------------------------------------------------------------
(* Texts one behind the other: lists of values and of members. *)

\* c[i]: what is expected behind the first i texts.
LEMMA FlattenTakes ==
    ASSUME NEW n \in Nat, NEW s, s = [i \in 1..n |-> s[i]], NEW c, c[0] \in Expected,
           \A i \in 1..n : Takes(s[i], c[i - 1], c[i])
    PROVE  Takes(FlattenSeq(s), c[0], c[n])
<1>1. Len(s) = n
  BY Sized
<1>2. CASE n = 0
  <2>1. FlattenSeq(s) = <<>>
    <3>1. s = <<>>
      BY <1>2
    <3> QED
      BY <3>1, FlattenNothing
  <2> QED
    BY <1>2, <2>1, TakesNothing
<1>3. CASE n # 0
  <2>1. PICK f : IsFlattening(f, s)
    BY <1>1, <1>3, FlattenSteps
  <2>2. /\ FlattenSeq(s) = f[n] /\ f[1] = s[1]
        /\ \A i \in 2..n : f[i] = f[i - 1] \o s[i]
    BY <1>1, <2>1 DEF IsFlattening
  <2> DEFINE P == {i \in Nat : i + 1 <= n => Takes(f[i + 1], c[0], c[i + 1])}
  <2>3. 0 \in P
    <3>1. 1 \in 1..n /\ 1 - 1 = 0 /\ 0 + 1 = 1
      BY <1>3
    <3>2. Takes(s[1], c[0], c[1])
      BY <3>1
    <3> QED
      BY <2>2, <3>1, <3>2
  <2>4. ASSUME NEW i \in Nat, i \in P PROVE i + 1 \in P
    <3> SUFFICES ASSUME (i + 1) + 1 <= n PROVE Takes(f[(i + 1) + 1], c[0], c[(i + 1) + 1])
      OBVIOUS
    <3>1. PICK j \in 2..n : j = (i + 1) + 1
      OBVIOUS
    <3>2. j - 1 = i + 1 /\ j \in 1..n
      BY <3>1
    <3>3. Takes(f[j - 1], c[0], c[j - 1])
      BY <2>4, <3>1, <3>2
    <3>4. Takes(s[j], c[j - 1], c[j])
      BY <3>2
    <3>5. Takes(f[j - 1] \o s[j], c[0], c[j])
      BY <3>3, <3>4, TakesCat
    <3> QED
      BY <2>2, <3>1, <3>5
  <2> HIDE DEF P
  <2>5. n - 1 \in P
    BY <1>3, <2>3, <2>4, Induction
  <2> QED
    BY <1>3, <2>2, <2>5 DEF P
<1> QED
  BY <1>2, <1>3

LEMMA ListedTakes ==
    ASSUME NEW parts, IsText(parts), NEW a \in Expected, NEW b \in Expected, NEW c \in Expected,
           Takes(Comma, b, c),
           \A i \in 1..Len(parts) : Takes(parts[i], IF i = 1 THEN a ELSE c, b)
    PROVE  Takes(Listed(parts), a, IF Len(parts) = 0 THEN a ELSE b)
<1>1. PICK n \in Nat : n = Len(parts) /\ DOMAIN parts = 1..n
  BY TextLen
<1> DEFINE s == [i \in 1..n |-> Optional(i > 1, Comma) \o parts[i]]
           e == [i \in 0..n |-> IF i = 0 THEN a ELSE b]
<1>2. ASSUME NEW i \in 1..n PROVE Takes(s[i], e[i - 1], e[i])
  <2>1. CASE i = 1
    <3>1. s[i] = <<>> \o parts[i] /\ e[i - 1] = a /\ e[i] = b
      BY <2>1 DEF Optional
    <3>2. Takes(<<>>, a, a) /\ Takes(parts[i], a, b)
      BY <1>1, <2>1, TakesNothing
    <3> QED
      BY <3>1, <3>2, TakesCat
  <2>2. CASE i # 1
    <3>1. s[i] = Comma \o parts[i] /\ e[i - 1] = b /\ e[i] = b
      BY <2>2 DEF Optional
    <3>2. Takes(parts[i], c, b)
      BY <1>1, <2>2
    <3> QED
      BY <3>1, <3>2, TakesCat
  <2> QED
    BY <2>1, <2>2
<1>3. s = [i \in 1..n |-> s[i]]
  OBVIOUS
<1>6. e[0] = a /\ e[n] = (IF n = 0 THEN a ELSE b)
  OBVIOUS
<1>4. Listed(parts) = FlattenSeq(s)
  BY <1>1 DEF Listed
<1> HIDE DEF s, e
<1>5. Takes(FlattenSeq(s), e[0], e[n])
  BY <1>2, <1>3, <1>6, FlattenTakes
<1> QED
  BY <1>1, <1>4, <1>5, <1>6

LEMMA ArrayIsValue ==
    ASSUME NEW parts, IsText(parts), \A i \in 1..Len(parts) : IsValue(parts[i])
    PROVE  IsValue(LBracket \o Listed(parts) \o RBracket)
<1>1. ASSUME NEW i \in 1..Len(parts)
      PROVE  Takes(parts[i], FirstElement, AnElement) /\ Takes(parts[i], NextElement, AnElement)
  <2>1. Takes(parts[i], FirstElement, AnElement)
    BY ValueIsElement
  <2>2. Takes(parts[i], AValue \o AnElement, <<>> \o AnElement)
    BY TakesMore, ExpectedTypes DEF IsValue
  <2>3. AValue \o AnElement = NextElement /\ <<>> \o AnElement = AnElement
    BY LiteralCats, ExpectedCat, ExpectedTypes
  <2> QED
    BY <2>1, <2>2, <2>3
<1>2. Takes(Listed(parts), FirstElement, IF Len(parts) = 0 THEN FirstElement ELSE AnElement)
  BY <1>1, ListedTakes, ExpectedTypes, CommaTakes
<1>3. \/ Takes(Listed(parts), FirstElement, FirstElement)
      \/ Takes(Listed(parts), FirstElement, AnElement)
  BY <1>2
<1> QED
  BY <1>3, LBracketTakes, RBracketTakes, TakesCat DEF IsValue

\* A key and its value, wherever a key may stand.
IsMember(t) == Takes(t, FirstKey, Member) /\ Takes(t, NextKey, Member)

LEMMA ObjectIsValue ==
    ASSUME NEW parts, IsText(parts), \A i \in 1..Len(parts) : IsMember(parts[i])
    PROVE  IsValue(LBrace \o Listed(parts) \o RBrace)
<1>1. ASSUME NEW i \in 1..Len(parts)
      PROVE  Takes(parts[i], FirstKey, Member) /\ Takes(parts[i], NextKey, Member)
  BY DEF IsMember
<1>2. Takes(Listed(parts), FirstKey, IF Len(parts) = 0 THEN FirstKey ELSE Member)
  BY <1>1, ListedTakes, ExpectedTypes, CommaTakes
<1>3. \/ Takes(Listed(parts), FirstKey, FirstKey)
      \/ Takes(Listed(parts), FirstKey, Member)
  BY <1>2
<1> QED
  BY <1>3, LBraceTakes, RBraceTakes, TakesCat DEF IsValue

-------------------------------------------------------------------------------
(* An object is written from left to right. *)


LEMMA AddKey ==
    ASSUME NEW t, NEW a, NEW k, Takes(t, a, FirstKey) \/ Takes(t, a, NextKey)
    PROVE  Takes(t \o Key(k), a, ItsValue)
BY KeyTakes, TakesCat

LEMMA AddMember ==
    ASSUME NEW t, NEW a, NEW m, IsMember(m), Takes(t, a, FirstKey) \/ Takes(t, a, NextKey)
    PROVE  Takes(t \o m, a, Member)
BY TakesCat DEF IsMember

LEMMA AddField ==
    ASSUME NEW t, NEW a, NEW k, Takes(t, a, FirstKey) \/ Takes(t, a, NextKey)
    PROVE  Takes(t \o Field(k), a, Member)
BY FieldTakes, TakesCat

LEMMA AddComma ==
    ASSUME NEW t, NEW a, Takes(t, a, Member)
    PROVE  Takes(t \o Comma, a, NextKey)
BY CommaTakes, TakesCat

LEMMA AddValue ==
    ASSUME NEW t, NEW a, NEW v, IsValue(v), Takes(t, a, ItsValue)
    PROVE  Takes(t \o v, a, Member)
<1>1. Takes(v, AValue \o Member, <<>> \o Member)
  BY TakesMore, ExpectedTypes DEF IsValue
<1>2. Takes(v, ItsValue, Member)
  BY <1>1, LiteralCats, ExpectedCat, ExpectedTypes
<1> QED
  BY <1>2, TakesCat

LEMMA AddRBrace ==
    ASSUME NEW t, NEW a, Takes(t, a, Member)
    PROVE  Takes(t \o RBrace, a, <<>>)
BY RBraceTakes, TakesCat

\* A run is any number of members, each with its comma; a tail is members, each behind a comma.
IsRun(t) == Takes(t, NextKey, NextKey)
IsTail(t) == Takes(t, Member, Member)

LEMMA AddRun ==
    ASSUME NEW t, NEW a, NEW r, IsRun(r), Takes(t, a, NextKey)
    PROVE  Takes(t \o r, a, NextKey)
BY TakesCat DEF IsRun

LEMMA AddTail ==
    ASSUME NEW t, NEW a, NEW r, IsTail(r), Takes(t, a, Member)
    PROVE  Takes(t \o r, a, Member)
BY TakesCat DEF IsTail

LEMMA RunOfOne == ASSUME NEW k PROVE IsRun(Field(k) \o Comma)
BY FieldTakes, CommaTakes, TakesCat DEF IsRun

LEMMA OptionalRun == ASSUME NEW c, NEW r, c => IsRun(r) PROVE IsRun(Optional(c, r))
BY TakesNothing, ExpectedTypes DEF IsRun, Optional

LEMMA TailOfOne == ASSUME NEW k PROVE IsTail(Comma \o Field(k))
BY FieldTakes, CommaTakes, TakesCat DEF IsTail

LEMMA TailOfMember == ASSUME NEW k, NEW v, IsValue(v) PROVE IsTail(Comma \o Key(k) \o v)
BY CommaTakes, AddKey, AddValue DEF IsTail

LEMMA OptionalTail == ASSUME NEW c, NEW r, c => IsTail(r) PROVE IsTail(Optional(c, r))
BY TakesNothing, ExpectedTypes DEF IsTail, Optional

LEMMA MemberOfKey == ASSUME NEW k, NEW v, IsValue(v) PROVE IsMember(Key(k) \o v)
BY MemberTakes DEF IsMember

-------------------------------------------------------------------------------
(* StringProc *)

LEMMA QuotedIsValue == ASSUME NEW of PROVE IsValue(Quoted("plain", of))
BY ValueTakes DEF Quoted

LEMMA QuotedListIsValue ==
    ASSUME NEW contents, IsText(contents), \A i \in 1..Len(contents) : contents[i] = "plain"
    PROVE  IsValue(QuotedList(contents))
<1>1. PICK n \in Nat : n = Len(contents) /\ DOMAIN contents = 1..n
  BY TextLen
<1> DEFINE parts == [i \in 1..n |-> Quoted(contents[i], Own)]
<1>2. parts = [i \in 1..n |-> parts[i]] /\ \A i \in 1..n : IsValue(parts[i])
  BY <1>1, QuotedIsValue
<1>3. QuotedList(contents) = LBracket \o Listed(parts) \o RBracket
  BY <1>1 DEF QuotedList
<1> HIDE DEF parts
<1>4. IsText(parts) /\ Len(parts) = n
  BY <1>2, Sized
<1> QED
  BY <1>2, <1>3, <1>4, ArrayIsValue

LEMMA ErrorMessIsTail ==
    ASSUME NEW err, IsText(err.errorMessages),
           IF err.errorMessage \in Content THEN err.errorMessage = "plain"
           ELSE \A i \in 1..Len(err.errorMessages) : err.errorMessages[i] = "plain"
    PROVE  IsTail(GenerateErrorMess(err))
<1>1. CASE err.errorMessage \in Content
  <2>1. GenerateErrorMess(err) = Comma \o Key("err_mess") \o Quoted("plain", Own)
    BY <1>1 DEF GenerateErrorMess
  <2> QED
    BY <2>1, QuotedIsValue, TailOfMember
<1>2. CASE err.errorMessage \notin Content
  <2>1. IsTail(Comma \o Key("err_mess") \o QuotedList(err.errorMessages))
    BY <1>2, QuotedListIsValue, TailOfMember
  <2> QED
    BY <1>2, <2>1, OptionalTail DEF GenerateErrorMess
<1> QED
  BY <1>1, <1>2

LEMMA EventResponseIsValue == ASSUME NEW hasAttribute PROVE IsValue(EventResponse(hasAttribute))
<1> DEFINE head == LBrace \o Field("device")
           attribute == Optional(hasAttribute, Comma \o Field("attribute"))
<1>1. Takes(head, AValue, Member)
  BY LBraceTakes, AddField
<1>2. IsTail(attribute)
  BY TailOfOne, OptionalTail
<1>3. EventResponse(hasAttribute) = (head \o attribute) \o Comma \o Field("event_type") \o Comma
                                       \o Field("event_sub_id") \o RBrace
  BY DEF EventResponse
<1> HIDE DEF head, attribute
<1>4. Takes((head \o attribute) \o Comma \o Field("event_type") \o Comma, AValue, NextKey)
  BY <1>1, <1>2, AddTail, AddComma, AddField
<1> QED
  BY <1>3, <1>4, AddField, AddRBrace DEF IsValue

LEMMA EventResponsesAreValue ==
    ASSUME NEW responses, IsText(responses)
    PROVE  IsValue(GenerateSuccessStringOutForEvent(responses))
<1>1. PICK n \in Nat : n = Len(responses) /\ DOMAIN responses = 1..n
  BY TextLen
<1> DEFINE parts == [i \in 1..n |-> EventResponse(responses[i])]
<1>2. parts = [i \in 1..n |-> parts[i]] /\ \A i \in 1..n : IsValue(parts[i])
  BY EventResponseIsValue
<1>3. GenerateSuccessStringOutForEvent(responses) = LBracket \o Listed(parts) \o RBracket
  BY <1>1 DEF GenerateSuccessStringOutForEvent
<1> HIDE DEF parts
<1>4. IsText(parts) /\ Len(parts) = n
  BY <1>2, Sized
<1> QED
  BY <1>2, <1>3, <1>4, ArrayIsValue

\* FlattenSeq of tails is a tail, and of runs a run.
LEMMA FlattenTail ==
    ASSUME NEW n \in Nat, NEW s, s = [i \in 1..n |-> s[i]], NEW a \in Expected,
           \A i \in 1..n : Takes(s[i], a, a)
    PROVE  Takes(FlattenSeq(s), a, a)
<1> DEFINE c == [i \in 0..n |-> a]
<1>1. c[0] = a /\ c[n] = a /\ \A i \in 1..n : c[i - 1] = a /\ c[i] = a
  OBVIOUS
<1> HIDE DEF c
<1>2. Takes(FlattenSeq(s), c[0], c[n])
  BY <1>1, FlattenTakes
<1> QED
  BY <1>1, <1>2

LEMMA ExceptionIsValue ==
    ASSUME NEW err, IsText(err.errorMessages), IsText(err.errorResponses),
           IF err.errorMessage \in Content THEN err.errorMessage = "plain"
           ELSE \A i \in 1..Len(err.errorMessages) : err.errorMessages[i] = "plain"
    PROVE  IsValue(ExceptionStringOut(err))
<1> DEFINE keys == [i \in DOMAIN ErrorKeys |->
                       Optional(ErrorKeys[i] \in err.given, Comma \o Field(ErrorKeys[i]))]
           responses == Optional(err.errorResponses # <<>>,
                           Comma \o Key("errors") \o GenerateSuccessStringOutForEvent(err.errorResponses))
<1>1. keys = [i \in 1..6 |-> keys[i]] /\ \A i \in 1..6 : Takes(keys[i], Member, Member)
  <2>1. DOMAIN ErrorKeys = 1..6
    BY DEF ErrorKeys
  <2>2. ASSUME NEW i \in 1..6 PROVE Takes(keys[i], Member, Member)
    BY <2>1, TailOfOne, OptionalTail DEF IsTail
  <2> QED
    BY <2>1, <2>2
<1>2. IsTail(responses)
  BY EventResponsesAreValue, TailOfMember, OptionalTail
<1>3. ExceptionStringOut(err) =
        LBrace \o Field("event") \o FlattenSeq(keys) \o responses \o GenerateErrorMess(err) \o RBrace
  BY DEF ExceptionStringOut
<1> HIDE DEF keys, responses
<1>4. IsTail(FlattenSeq(keys))
  BY <1>1, FlattenTail, ExpectedTypes DEF IsTail
<1>5. Takes(LBrace \o Field("event") \o FlattenSeq(keys) \o responses, AValue, Member)
  BY <1>2, <1>4, LBraceTakes, AddField, AddTail
<1> QED
  BY <1>3, <1>5, ErrorMessIsTail, AddTail, AddRBrace DEF IsValue

LEMMA RespHeadTakes == ASSUME NEW hasId PROVE Takes(RespHead(hasId), AValue, NextKey)
<1>1. IsRun(Optional(hasId, Field("id_req") \o Comma))
  BY RunOfOne, OptionalRun
<1> QED
  BY <1>1, LBraceTakes, AddField, AddComma, AddRun DEF RespHead

LEMMA RespMessIsValue ==
    ASSUME NEW hasId, NEW message, IsValue(message)
    PROVE  IsValue(GenerateRespMess(hasId, message))
BY RespHeadTakes, AddKey, AddValue, AddRBrace DEF GenerateRespMess, IsValue

LEMMA SuccessIsValue == ASSUME NEW hasId PROVE IsValue(SuccessRespOut(hasId))
BY RespHeadTakes, AddField, AddRBrace DEF SuccessRespOut, IsValue

-------------------------------------------------------------------------------
(* The data of attributes. *)

\* A value JSON can hold the way it is written.
FitValue(type, content, isJsonString) ==
    /\ type = "float" => content # "quotes"
    /\ type = "string" => content = (IF isJsonString THEN "json" ELSE "plain")

LEMMA DataValueIsValue ==
    ASSUME NEW type, NEW content, NEW of, NEW opt, NEW isJsonString,
           FitValue(type, content, isJsonString)
    PROVE  IsValue(DataValueToStr(type, content, of, opt, isJsonString))
BY ValueTakes DEF FitValue, DataValueToStr, FloatToStr, Bare, Quoted

LEMMA DataArrayIsValue ==
    ASSUME NEW type, NEW content, NEW ofs, NEW opt, NEW isJsonString, IsText(ofs),
           FitValue(type, content, isJsonString)
    PROVE  IsValue(DataArrayToStr(type, content, ofs, opt, isJsonString))
<1>1. PICK n \in Nat : n = Len(ofs) /\ DOMAIN ofs = 1..n
  BY TextLen
<1> DEFINE parts == [i \in 1..n |-> DataValueToStr(type, content, ofs[i], opt, isJsonString)]
<1>2. parts = [i \in 1..n |-> parts[i]] /\ \A i \in 1..n : IsValue(parts[i])
  BY DataValueIsValue
<1>3. DataArrayToStr(type, content, ofs, opt, isJsonString) = LBracket \o Listed(parts) \o RBracket
  BY <1>1 DEF DataArrayToStr
<1> HIDE DEF parts
<1>4. IsText(parts) /\ Len(parts) = n
  BY <1>2, Sized
<1> QED
  BY <1>2, <1>3, <1>4, ArrayIsValue

LEMMA ValuesAreText ==
    ASSUME NEW n, NEW part, NEW count \in Int
    PROVE  /\ IsText(Values(n, part, count))
           /\ Len(Values(n, part, count)) = IF count < 0 THEN 0 ELSE count
<1> DEFINE size == IF count < 0 THEN 0 ELSE count
<1>1. size \in Nat /\ Values(n, part, count) = [i \in 1..size |-> Values(n, part, count)[i]]
  BY DEF Values
<1> HIDE DEF size
<1>2. IsText(Values(n, part, count)) /\ Len(Values(n, part, count)) = size
  BY <1>1, Sized
<1> QED
  BY <1>2 DEF size

LEMMA SubSeqIsText ==
    ASSUME NEW t, IsText(t), NEW n \in Nat, n < Len(t)
    PROVE  IsText(SubSeq(t, 1, n))
<1>1. PICK T : t \in Seq(T)
  BY DEF IsText
<1>2. SubSeq(t, 1, n) \in Seq(T)
  BY <1>1
<1> QED
  BY <1>2 DEF IsText

\* A product of ints that is one is what the code computes.
LEMMA AsIntIs == ASSUME NEW i \in Int PROVE AsInt(i) \in Int /\ (IsInt(i) => AsInt(i) = i)
<1>1. PICK m, j : m = 2 * IntMax + 2 /\ m \in Nat \ {0} /\ j = i + IntMax + 1 /\ j \in Int
  BY IntAssumption
<1>2. j % m \in Int
  BY <1>1
<1>3. 0 <= j /\ j < m => j % m = j
  BY <1>1
<1>4. AsInt(i) = (j % m) - IntMax - 1
  BY <1>1 DEF AsInt
<1> QED
  BY <1>1, <1>2, <1>3, <1>4, IntAssumption DEF IsInt

LEMMA SizesAreIntegers ==
    ASSUME NEW d \in DatumRecord
    PROVE  Product(d) \in Int /\ ReadCount(d) \in Int /\ AsInt(Product(d)) \in Int
<1>1. d.dimX \in Nat /\ d.dimY \in Int
  BY DEF DatumRecord
<1>2. d.dimX * d.dimY \in Int /\ d.dimX * 1 \in Int
  BY <1>1
<1>3. Product(d) \in Int
  BY <1>2 DEF Product
<1> QED
  BY <1>1, <1>3, AsIntIs DEF ReadCount

LEMMA KeptIsText ==
    ASSUME NEW n, NEW d \in DatumRecord
    PROVE  IsText(Kept(n, d)) /\ IsText(Extracted(n, d))
<1>1. d.set \in Nat
  BY DEF DatumRecord
<1>3. ReadCount(d) \in Int
  BY SizesAreIntegers
<1>4. IsText(Extracted(n, d))
  BY <1>1, <1>3, ValuesAreText, TextCat DEF Extracted
<1> DEFINE size == AsInt(Product(d))
<1>5. size \in Int
  BY SizesAreIntegers
<1>6. \/ Kept(n, d) = <<>> \/ Kept(n, d) = Extracted(n, d)
      \/ size \in Nat /\ size < Len(Extracted(n, d)) /\ Kept(n, d) = SubSeq(Extracted(n, d), 1, size)
  BY <1>5 DEF Kept
<1> HIDE DEF size
<1> QED
  BY <1>4, <1>6, TextEmpty, SubSeqIsText

LEMMA DimensionsAreRun == ASSUME NEW d PROVE \/ Dimensions(d) = <<>> \o <<>>
                                             \/ Takes(Dimensions(d), FirstKey, NextKey) /\ IsRun(Dimensions(d))
<1> DEFINE x == Field("dimX") \o Comma
           y == Optional(d.format = "IMAGE", Field("dimY") \o Comma)
<1>1. Takes(x, FirstKey, NextKey) /\ IsRun(x) /\ IsRun(y)
  BY FieldTakes, CommaTakes, TakesCat, RunOfOne, OptionalRun
<1>2. d.format \in {"SPECTRUM", "IMAGE"} => Dimensions(d) = x \o y
  BY DEF Dimensions, Optional
<1>3. d.format \notin {"SPECTRUM", "IMAGE"} => Dimensions(d) = <<>> \o <<>>
  BY DEF Dimensions, Optional
<1> HIDE DEF x, y
<1>4. Takes(x \o y, FirstKey, NextKey) /\ IsRun(x \o y)
  BY <1>1, TakesCat DEF IsRun
<1> QED
  BY <1>2, <1>3, <1>4

LEMMA SetPartIsTail ==
    ASSUME NEW n, NEW d \in DatumRecord, NEW opt, NEW isJsonString,
           FitValue(d.type, d.content, isJsonString)
    PROVE  IsTail(SetPart(n, d, opt, isJsonString))
<1>1. IsTail(<<>>)
  BY TakesNothing, ExpectedTypes DEF IsTail
<1> DEFINE one == DataValueToStr(d.type, d.content, <<n, "set", 1>>, opt, isJsonString)
           list == DataArrayToStr(d.type, d.content, Values(n, "set", d.set), opt, isJsonString)
<1>2. IsValue(one)
  BY DataValueIsValue
<1>3. IsValue(list)
  BY ValuesAreText, DataArrayIsValue DEF DatumRecord
<1>4. \/ SetPart(n, d, opt, isJsonString) = <<>>
      \/ SetPart(n, d, opt, isJsonString) = Comma \o Key("set") \o one
      \/ SetPart(n, d, opt, isJsonString) = Comma \o Key("set") \o list
  BY DEF SetPart, Optional
<1> HIDE DEF one, list
<1> QED
  BY <1>1, <1>2, <1>3, <1>4, TailOfMember

LEMMA DeviceAttributeIsMember ==
    ASSUME NEW n, NEW d \in DatumRecord, NEW opt, FitDatum(d)
    PROVE  IsMember(DeviceAttributeToStr(n, d, opt, FALSE))
<1>1. CASE d.type = "encoded" \/ d.quality = "INVALID"
  <2>1. DeviceAttributeToStr(n, d, opt, FALSE) = Field("data")
    BY <1>1 DEF DeviceAttributeToStr
  <2> QED
    BY <2>1, FieldTakes DEF IsMember
<1>2. CASE ~(d.type = "encoded" \/ d.quality = "INVALID")
  <2>1. FitValue(d.type, d.content, FALSE) /\ d.format \in {"SCALAR", "SPECTRUM", "IMAGE"}
    BY <1>2 DEF FitDatum, FitValue, DatumRecord, Format
  <2> DEFINE one == DataValueToStr(d.type, d.content, <<n, "read", 1>>, opt, FALSE)
             list == DataArrayToStr(d.type, d.content, Kept(n, d), opt, FALSE)
  <2>2. IsValue(one) /\ IsValue(list) /\ IsTail(SetPart(n, d, opt, FALSE))
    BY <2>1, DataValueIsValue, DataArrayIsValue, KeptIsText, SetPartIsTail
  <2>3. \/ DeviceAttributeToStr(n, d, opt, FALSE)
             = (Dimensions(d) \o Key("data")) \o (one \o SetPart(n, d, opt, FALSE))
        \/ DeviceAttributeToStr(n, d, opt, FALSE)
             = (Dimensions(d) \o Key("data")) \o (list \o SetPart(n, d, opt, FALSE))
    BY <1>2, <2>1 DEF DeviceAttributeToStr
  <2> HIDE DEF one, list
  <2>4. Takes(Dimensions(d) \o Key("data"), FirstKey, ItsValue)
        /\ Takes(Dimensions(d) \o Key("data"), NextKey, ItsValue)
    <3>1. CASE Dimensions(d) = <<>> \o <<>>
      <4>1. Takes(<<>> \o <<>>, FirstKey, FirstKey) /\ Takes(<<>> \o <<>>, NextKey, NextKey)
        BY TakesNothing, TakesCat, ExpectedTypes
      <4> QED
        BY <3>1, <4>1, AddKey
    <3>2. CASE Takes(Dimensions(d), FirstKey, NextKey) /\ IsRun(Dimensions(d))
      BY <3>2, AddKey DEF IsRun
    <3> QED
      BY <3>1, <3>2, DimensionsAreRun
  <2>5. ASSUME NEW v, IsValue(v)
        PROVE  Takes(v \o SetPart(n, d, opt, FALSE), ItsValue, Member)
    <3>1. Takes(v, AValue \o Member, <<>> \o Member)
      BY <2>5, TakesMore, ExpectedTypes DEF IsValue
    <3>2. Takes(v, ItsValue, Member)
      BY <3>1, LiteralCats, ExpectedCat, ExpectedTypes
    <3> QED
      BY <2>2, <3>2, TakesCat DEF IsTail
  <2>6. Takes(one \o SetPart(n, d, opt, FALSE), ItsValue, Member)
        /\ Takes(list \o SetPart(n, d, opt, FALSE), ItsValue, Member)
    BY <2>2, <2>5
  <2> QED
    BY <2>3, <2>4, <2>6, TakesCat DEF IsMember
<1> QED
  BY <1>1, <1>2


LEMMA GenerateAttributeIsMember ==
    ASSUME NEW n, NEW d \in DatumRecord, NEW opt, FitDatum(d)
    PROVE  IsMember(GenerateJsonForAttribute(n, d, opt))
<1> DEFINE qual == Optional(d.quality # "VALID", Field("qual") \o Comma)
           data == DeviceAttributeToStr(n, d, opt, FALSE)
<1>1. Takes(LBrace, ItsValue, FirstKey \o Member)
  BY LBraceTakes, TakesMore, LiteralCats, ExpectedTypes
<1>2. /\ Takes(RBrace, Member \o Member, <<>> \o Member)
      /\ <<>> \o Member = Member
  BY RBraceTakes, TakesMore, ExpectedTypes, ExpectedCat
<1>3. \/ Takes(qual, FirstKey \o Member, FirstKey \o Member)
      \/ Takes(qual, FirstKey \o Member, NextKey \o Member)
  <2>1. Takes(qual, FirstKey, FirstKey) \/ Takes(qual, FirstKey, NextKey)
    BY FieldTakes, CommaTakes, TakesCat, TakesNothing, ExpectedTypes DEF Optional
  <2> QED
    BY <2>1, TakesMore, ExpectedTypes
<1>4. IsMember(data)
  BY DeviceAttributeIsMember
<1>5. GenerateJsonForAttribute(n, d, opt) = Key(n) \o LBrace \o qual \o data \o RBrace
  BY DEF GenerateJsonForAttribute
<1> HIDE DEF qual, data
<1>6. Takes(data, FirstKey \o Member, Member \o Member) /\ Takes(data, NextKey \o Member, Member \o Member)
  BY <1>4, TakesMore, ExpectedTypes DEF IsMember
<1>7. ASSUME NEW a \in {FirstKey, NextKey}
      PROVE  Takes(Key(n) \o LBrace \o qual \o data \o RBrace, a, Member)
  <2>1. Takes(Key(n), a, ItsValue)
    BY KeyTakes
  <2>2. Takes(Key(n) \o LBrace, a, FirstKey \o Member)
    BY <1>1, <2>1, TakesCat
  <2>3. Takes(Key(n) \o LBrace \o qual \o data, a, Member \o Member)
    BY <1>3, <1>6, <2>2, TakesCat
  <2> QED
    BY <1>2, <2>3, TakesCat
<1> QED
  BY <1>5, <1>7 DEF IsMember

LEMMA AttrListIsValue ==
    ASSUME NEW names, IsText(names), NEW data, NEW opts,
           \A i \in 1..Len(names) : data[i] \in DatumRecord /\ FitDatum(data[i])
    PROVE  IsValue(GenerateJsonForAttrList(names, data, opts))
<1>1. PICK n \in Nat : n = Len(names) /\ DOMAIN names = 1..n
  BY TextLen
<1> DEFINE parts == [i \in 1..n |->
                        GenerateJsonForAttribute(names[i], data[i], Precision(opts, names[i]))]
<1>2. parts = [i \in 1..n |-> parts[i]] /\ \A i \in 1..n : IsMember(parts[i])
  BY <1>1, GenerateAttributeIsMember
<1>3. GenerateJsonForAttrList(names, data, opts) = LBrace \o Listed(parts) \o RBrace
  BY <1>1 DEF GenerateJsonForAttrList
<1> HIDE DEF parts
<1>4. IsText(parts) /\ Len(parts) = n
  BY <1>2, Sized
<1> QED
  BY <1>2, <1>3, <1>4, ObjectIsValue

-------------------------------------------------------------------------------
(* Pipes *)

NothingExtracted == SoFar(LBrace, 0, FALSE)

\* f[i] is what _generateJsonForPipe has after i elements.
IsExtraction(f, pipe, opts, n) ==
    f = [i \in 0..n |-> IF i = 0 THEN NothingExtracted ELSE ExtractFromPipe(f[i - 1], pipe, i, opts)]

LEMMA ExtractionExists ==
    ASSUME NEW pipe, NEW opts
    PROVE  \A n \in Nat : \E f : IsExtraction(f, pipe, opts, n)
<1> DEFINE P == {n \in Nat : \E f : IsExtraction(f, pipe, opts, n)}
<1>1. 0 \in P
  <2> DEFINE f == [i \in 0..0 |-> NothingExtracted]
  <2>1. f = [i \in 0..0 |-> IF i = 0 THEN NothingExtracted ELSE ExtractFromPipe(f[i - 1], pipe, i, opts)]
    OBVIOUS
  <2> HIDE DEF f
  <2>2. IsExtraction(f, pipe, opts, 0)
    BY <2>1 DEF IsExtraction
  <2> QED
    BY <2>2
<1>2. ASSUME NEW n \in Nat, n \in P PROVE n + 1 \in P
  <2>1. PICK f : IsExtraction(f, pipe, opts, n)
    BY <1>2
  <2>2. \A i \in 0..n : f[i] = IF i = 0 THEN NothingExtracted
                               ELSE ExtractFromPipe(f[i - 1], pipe, i, opts)
    BY <2>1, ZenonT(40) DEF IsExtraction
  <2> DEFINE g == [i \in 0..n + 1 |-> IF i <= n THEN f[i]
                                      ELSE ExtractFromPipe(f[n], pipe, n + 1, opts)]
  <2>3. ASSUME NEW i \in 0..n + 1
        PROVE  g[i] = IF i = 0 THEN NothingExtracted ELSE ExtractFromPipe(g[i - 1], pipe, i, opts)
    <3>1. CASE i = n + 1
      <4>1. g[i] = ExtractFromPipe(f[n], pipe, n + 1, opts) /\ g[i - 1] = f[n] /\ i # 0
        BY <3>1
      <4> QED
        BY <3>1, <4>1
    <3>2. CASE i \in 0..n
      <4>1. g[i] = f[i] /\ (i # 0 => g[i - 1] = f[i - 1])
        BY <3>2
      <4> QED
        BY <2>2, <3>2, <4>1
    <3> QED
      BY <3>1, <3>2
  <2>4. g = [i \in 0..n + 1 |-> g[i]]
    OBVIOUS
  <2> HIDE DEF g
  <2>5. IsExtraction(g, pipe, opts, n + 1)
    BY <2>3, <2>4 DEF IsExtraction
  <2> QED
    BY <2>5
<1> HIDE DEF P
<1>3. Nat \subseteq P
  BY <1>1, <1>2, Induction
<1> QED
  BY <1>3 DEF P

IsGeneration(f, pipe, opts) ==
    /\ LET all == f[Len(pipe)]
       IN  GenerateJsonForPipe(pipe, opts)
             = SoFar(all.text \o Optional(~all.raised, RBrace), all.extracted, all.raised)
    /\ f[0] = NothingExtracted
    /\ \A i \in 1..Len(pipe) : f[i] = ExtractFromPipe(f[i - 1], pipe, i, opts)

LEMMA ExtractionSteps ==
    ASSUME NEW pipe, IsText(pipe), NEW opts
    PROVE  \E f : IsGeneration(f, pipe, opts)
<1>1. PICK n \in Nat : n = Len(pipe)
  BY TextLen
<1> DEFINE f == CHOOSE f : IsExtraction(f, pipe, opts, n)
<1>2. IsExtraction(f, pipe, opts, n)
  BY ExtractionExists, ZenonT(40)
<1>3. GenerateJsonForPipe(pipe, opts)
        = SoFar(f[n].text \o Optional(~f[n].raised, RBrace), f[n].extracted, f[n].raised)
  BY <1>1 DEF GenerateJsonForPipe, IsExtraction, NothingExtracted
<1> HIDE DEF f
<1>4. \A i \in 0..n : f[i] = IF i = 0 THEN NothingExtracted
                             ELSE ExtractFromPipe(f[i - 1], pipe, i, opts)
  BY <1>2, ZenonT(40) DEF IsExtraction
<1>5. f[0] = NothingExtracted /\ \A i \in 1..n : f[i] = ExtractFromPipe(f[i - 1], pipe, i, opts)
  BY <1>4
<1>6. IsGeneration(f, pipe, opts)
  BY <1>1, <1>3, <1>5 DEF IsGeneration
<1> QED
  BY <1>6

Unsupported == {"void", "unsupported"}

\* The first i elements are all supported.
Supported(pipe, i) == \A j \in 1..i : pipe[j].kind \notin Unsupported

AfterElements(i) == IF i = 0 THEN FirstKey ELSE Member

\* The first i elements, extracted and written.
ExtractedUpTo(acc, pipe, i) ==
    /\ acc = SoFar(acc.text, acc.extracted, FALSE)
    /\ acc.extracted \in 0..i
    /\ Supported(pipe, i) => acc.extracted = i
    /\ Takes(acc.text, AValue, AfterElements(i))

FitElements(pipe) == FitPipe(Piped(pipe))

LEMMA ElementIsValue ==
    ASSUME NEW el \in Element, NEW opt,
           el.kind \in {"float", "floats"} => el.content # "quotes",
           el.kind = "string" => el.content = "plain"
    PROVE  IsValue(ShownElement(el, opt))
<1> DEFINE ofs == << <<el.name, "pipe", 1>> >>
<1>1. IsText(ofs)
  BY TextOne
<1> HIDE DEF ofs
<1>2. CASE el.kind = "floats"
  <2>1. FitValue("float", el.content, FALSE)
    BY <1>2 DEF FitValue
  <2>2. IsValue(DataArrayToStr("float", el.content, ofs, opt, FALSE))
    BY <1>1, <2>1, DataArrayIsValue
  <2>3. ShownElement(el, opt) = DataArrayToStr("float", el.content, ofs, opt, FALSE)
    BY <1>2 DEF ShownElement, ofs
  <2> QED
    BY <2>2, <2>3
<1>3. CASE el.kind = "state"
  BY <1>3, ValueTakes DEF ShownElement
<1>4. CASE el.kind \notin {"floats", "state"}
  <2>1. FitValue(el.kind, el.content, FALSE)
    BY <1>4 DEF FitValue
  <2>2. ShownElement(el, opt) = DataValueToStr(el.kind, el.content, <<el.name, "pipe", 1>>, opt, FALSE)
    BY <1>4 DEF ShownElement
  <2> QED
    BY <2>1, <2>2, DataValueIsValue
<1> QED
  BY <1>2, <1>3, <1>4

LEMMA Known ==
    ASSUME NEW t, NEW x, NEW pipe, NEW i \in Nat, x \in 0..i,
           Supported(pipe, i) => x = i,
           Takes(t, AValue, AfterElements(i))
    PROVE  ExtractedUpTo(SoFar(t, x, FALSE), pipe, i)
BY DEF ExtractedUpTo, SoFar

LEMMA ExtractionGoesOn ==
    ASSUME NEW pipe \in Seq(Element), FitElements(pipe), NEW opts, NEW i \in 1..Len(pipe), NEW acc,
           ExtractedUpTo(acc, pipe, i - 1)
    PROVE  ExtractedUpTo(ExtractFromPipe(acc, pipe, i, opts), pipe, i)
<1> DEFINE el == pipe[i]
           k == acc.extracted + 1
           next == pipe[k]
           comma == Optional(i > 1, Comma)
           key == acc.text \o comma \o Key(el.name)
<1>1. /\ acc = SoFar(acc.text, acc.extracted, FALSE)
      /\ acc.extracted \in 0..i - 1 /\ ~acc.raised
      /\ Supported(pipe, i - 1) => acc.extracted = i - 1
      /\ Takes(acc.text, AValue, IF i = 1 THEN FirstKey ELSE Member)
  <2>1. acc = SoFar(acc.text, acc.extracted, FALSE)
    BY DEF ExtractedUpTo
  <2>2. acc.raised = FALSE
    BY <2>1 DEF SoFar
  <2>3. acc.extracted \in 0..i - 1
    BY DEF ExtractedUpTo
  <2>4. Takes(acc.text, AValue, IF i - 1 = 0 THEN FirstKey ELSE Member)
    BY DEF ExtractedUpTo, AfterElements
  <2>5. (i = 1) <=> (i - 1 = 0)
    OBVIOUS
  <2>6. Supported(pipe, i - 1) => acc.extracted = i - 1
    BY DEF ExtractedUpTo
  <2> QED
    BY <2>1, <2>2, <2>3, <2>4, <2>5, <2>6
<1>2. k \in 1..i /\ k \in 1..Len(pipe) /\ el \in Element /\ next \in Element
  <2>1. k \in 1..i
    BY <1>1
  <2>2. k \in 1..Len(pipe)
    BY <2>1
  <2> QED
    BY <2>1, <2>2
<1>3. Takes(key, AValue, ItsValue)
  <2>1. CASE i = 1
    <3>1. comma = <<>>
      BY <2>1 DEF Optional
    <3>2. Takes(acc.text \o comma, AValue, FirstKey)
      BY <1>1, <2>1, <3>1, TakesNothing, TakesCat, ExpectedTypes
    <3> QED
      BY <3>2, AddKey
  <2>2. CASE i # 1
    <3>1. comma = Comma
      BY <2>2 DEF Optional
    <3>2. Takes(acc.text \o comma, AValue, NextKey)
      BY <1>1, <2>2, <3>1, AddComma
    <3> QED
      BY <3>2, AddKey
  <2> QED
    BY <2>1, <2>2
<1>4. /\ next.kind \in {"float", "floats"} => next.content # "quotes"
      /\ next.kind = "string" => next.content = "plain"
      /\ el.kind = "state" => Supported(pipe, i)
  BY <1>2 DEF FitElements, FitPipe, Piped, Unsupported, Supported
<1>5. IsValue(ShownElement(next, Precision(opts, el.name))) /\ IsValue(Plain)
  BY <1>2, <1>4, ElementIsValue, PlainIsValue
<1>6. i \in Nat /\ i - 1 + 1 = i /\ AfterElements(i) = Member
  BY DEF AfterElements
<1> DEFINE shown == key \o ShownElement(next, Precision(opts, el.name))
           plain == key \o Plain
<1>7. Takes(shown, AValue, Member) /\ Takes(plain, AValue, Member)
  BY <1>3, <1>5, AddValue
<1>8. CASE el.kind \notin Unsupported /\ el.kind = next.kind
  <2>1. ExtractFromPipe(acc, pipe, i, opts) = SoFar(shown, k, FALSE)
    BY <1>1, <1>8 DEF ExtractFromPipe, Unsupported
  <2>3. Supported(pipe, i) => k = i
    BY <1>1, <1>6 DEF Supported
  <2> HIDE DEF shown, k
  <2> QED
    BY <1>2, <1>6, <1>7, <2>1, <2>3 DEF ExtractedUpTo, SoFar
<1>9. CASE ~(el.kind \notin Unsupported /\ el.kind = next.kind)
  <2>1. ~Supported(pipe, i)
    <3> SUFFICES ASSUME Supported(pipe, i) PROVE FALSE
      OBVIOUS
    <3>1. k = i
      BY <1>1, <1>6 DEF Supported
    <3> QED
      BY <1>9, <3>1 DEF Supported
  <2>2. el.kind # "state"
    BY <1>4, <2>1
  <2>3. ExtractFromPipe(acc, pipe, i, opts) = SoFar(plain, acc.extracted, FALSE)
    BY <1>1, <1>9, <2>2 DEF ExtractFromPipe, Unsupported
  <2>4. acc.extracted \in 0..i
    BY <1>1
  <2> HIDE DEF plain
  <2> QED
    BY <1>6, <1>7, <2>1, <2>3, <2>4, Known
<1> QED
  BY <1>8, <1>9

LEMMA PipeIsValue ==
    ASSUME NEW pipe \in Seq(Element), FitElements(pipe), NEW opts
    PROVE  /\ IsValue(GenerateJsonForPipe(pipe, opts).text)
           /\ ~GenerateJsonForPipe(pipe, opts).raised
<1>1. PICK n \in Nat : n = Len(pipe)
  OBVIOUS
<1>2. PICK f : IsGeneration(f, pipe, opts)
  BY ExtractionSteps DEF IsText
<1> DEFINE P == {i \in Nat : i <= n => ExtractedUpTo(f[i], pipe, i)}
<1>3. 0 \in P
  <2>1. f[0] = NothingExtracted
    BY <1>2 DEF IsGeneration
  <2>2. ExtractedUpTo(NothingExtracted, pipe, 0)
    <3>1. 0 \in Nat /\ 0 \in 0..0 /\ Takes(LBrace, AValue, AfterElements(0))
      BY LBraceTakes DEF AfterElements
    <3> QED
      BY <3>1, Known DEF NothingExtracted
  <2> QED
    BY <2>1, <2>2
<1>4. ASSUME NEW i \in Nat, i \in P PROVE i + 1 \in P
  <2> SUFFICES ASSUME i + 1 <= n PROVE ExtractedUpTo(f[i + 1], pipe, i + 1)
    OBVIOUS
  <2>1. PICK j \in 1..n : j = i + 1 /\ i = j - 1
    OBVIOUS
  <2>2. ExtractedUpTo(f[j - 1], pipe, j - 1)
    BY <1>4, <2>1
  <2>3. f[j] = ExtractFromPipe(f[j - 1], pipe, j, opts)
    BY <1>1, <1>2 DEF IsGeneration
  <2> QED
    BY <1>1, <2>1, <2>2, <2>3, ExtractionGoesOn
<1> HIDE DEF P
<1>5. n \in P
  BY <1>3, <1>4, Induction
<1>6. ExtractedUpTo(f[n], pipe, n)
  BY <1>5 DEF P
<1>7. GenerateJsonForPipe(pipe, opts)
        = SoFar(f[n].text \o Optional(~f[n].raised, RBrace), f[n].extracted, f[n].raised)
  BY <1>1, <1>2 DEF IsGeneration
<1>8. f[n] = SoFar(f[n].text, f[n].extracted, FALSE)
  BY <1>6 DEF ExtractedUpTo
<1>9. GenerateJsonForPipe(pipe, opts).text = f[n].text \o RBrace /\ ~GenerateJsonForPipe(pipe, opts).raised
  <2>1. f[n].raised = FALSE
    BY <1>8 DEF SoFar
  <2>2. GenerateJsonForPipe(pipe, opts) = SoFar(f[n].text \o RBrace, f[n].extracted, FALSE)
    BY <1>7, <2>1 DEF Optional
  <2> QED
    BY <2>2 DEF SoFar
<1>10. Takes(f[n].text, AValue, FirstKey) \/ Takes(f[n].text, AValue, Member)
  BY <1>6 DEF ExtractedUpTo, AfterElements
<1> QED
  BY <1>9, <1>10, RBraceTakes, TakesCat DEF IsValue

IsPipe(p) == \/ \E q \in Seq(Element) : p = Piped(q)
             \/ \E e : IsText(e) /\ p = PipeFailed(e)

LEMMA PipeOrErrorsIsValue ==
    ASSUME NEW p, IsPipe(p), FitPipe(p), NEW opts
    PROVE  IsValue(PipeOrErrors(p, opts))
<1>1. CASE \E q \in Seq(Element) : p = Piped(q)
  <2>1. PICK q \in Seq(Element) : p = Piped(q)
    BY <1>1
  <2>2. p.read = TRUE /\ p.elements = q
    BY <2>1 DEF Piped
  <2> DEFINE shown == GenerateJsonForPipe(q, opts)
  <2>3. IsValue(shown.text) /\ ~shown.raised
    BY <2>1, PipeIsValue DEF FitElements
  <2>4. PipeOrErrors(p, opts) = shown.text \o Optional(shown.raised, QuotedList(<<"plain">>))
    BY <2>2 DEF PipeOrErrors
  <2> HIDE DEF shown
  <2>5. Optional(shown.raised, QuotedList(<<"plain">>)) = <<>>
    BY <2>3 DEF Optional
  <2> QED
    BY <2>3, <2>4, <2>5, TakesNothing, TakesCat, ExpectedTypes DEF IsValue
<1>2. CASE \E e : IsText(e) /\ p = PipeFailed(e)
  <2>1. PICK e : IsText(e) /\ p = PipeFailed(e)
    BY <1>2
  <2>2. p.read = FALSE /\ p.errors = e
    BY <2>1 DEF PipeFailed
  <2>3. \A i \in 1..Len(e) : e[i] = "plain"
    BY <2>1, <2>2, TextLen DEF FitPipe, FitErrors
  <2>4. IsValue(QuotedList(e))
    BY <2>1, <2>3, QuotedListIsValue
  <2> QED
    BY <2>2, <2>4 DEF PipeOrErrors
<1> QED
  BY <1>1, <1>2 DEF IsPipe

-------------------------------------------------------------------------------
(* Commands and heads of answers. *)

LEMMA ResultIsValue ==
    ASSUME NEW r \in CommandData, NEW opt, NEW isJsonString, FitResult(r, isJsonString)
    PROVE  IsValue(GenerateJsonFromDeviceData(r, opt, isJsonString))
<1>1. r.type \in CommandType /\ r.count \in Nat
  BY CommandAssumption
<1>2. CASE r.type \in {"void", "state", "unsupported"}
  BY <1>2, PlainIsValue DEF GenerateJsonFromDeviceData
<1>3. CASE r.type \in {"numbers", "floats", "strings"}
  <2> DEFINE ofs == Values("argout", "result", r.count)
  <2>1. IsText(ofs)
    BY <1>1, ValuesAreText
  <2>2. FitValue(ElementType(r.type), r.content, isJsonString)
    BY <1>3 DEF FitValue, ElementType, FitResult
  <2>3. GenerateJsonFromDeviceData(r, opt, isJsonString)
          = DataArrayToStr(ElementType(r.type), r.content, ofs, opt, isJsonString)
    BY <1>3 DEF GenerateJsonFromDeviceData
  <2> HIDE DEF ofs
  <2> QED
    BY <2>1, <2>2, <2>3, DataArrayIsValue
<1>4. CASE r.type \notin {"void", "state", "unsupported", "numbers", "floats", "strings"}
  <2>1. FitValue(r.type, r.content, isJsonString)
    BY DEF FitValue, FitResult
  <2>2. GenerateJsonFromDeviceData(r, opt, isJsonString)
          = DataValueToStr(r.type, r.content, <<"argout", "result", 1>>, opt, isJsonString)
    BY <1>4 DEF GenerateJsonFromDeviceData
  <2> QED
    BY <2>1, <2>2, DataValueIsValue
<1> QED
  BY <1>2, <1>3, <1>4

LEMMA HeadOfUpdateTakes == Takes(HeadOfUpdate, AValue, ItsValue)
BY LBraceTakes, AddField, AddComma, AddKey DEF HeadOfUpdate

LEMMA HeadOfPipeTakes ==
    ASSUME NEW hasDevice, NEW hasId
    PROVE  Takes(HeadOfPipe(hasDevice, hasId), AValue, ItsValue)
<1> DEFINE dev == Optional(hasDevice, Field("device_name") \o Comma)
           id == Optional(hasId, Field("id_req") \o Comma)
           head == LBrace \o Field("event") \o Comma \o Field("type_req") \o Comma
<1>1. IsRun(dev) /\ IsRun(id)
  BY RunOfOne, OptionalRun
<1>2. Takes(head, AValue, NextKey)
  BY LBraceTakes, AddField, AddComma
<1>3. HeadOfPipe(hasDevice, hasId) = head \o dev \o id \o Key("data")
  BY DEF HeadOfPipe
<1> HIDE DEF dev, id, head
<1>4. Takes(head \o dev \o id, AValue, NextKey)
  BY <1>1, <1>2, AddRun
<1> QED
  BY <1>3, <1>4, AddKey

\* The same inside of something else.
LEMMA AddValueIn ==
    ASSUME NEW t, NEW a, NEW x \in Expected, Takes(t, a, ItsValue \o x), NEW v, IsValue(v)
    PROVE  Takes(t \o v, a, Member \o x)
<1>1. Takes(v, AValue \o Member, <<>> \o Member)
  BY TakesMore, ExpectedTypes DEF IsValue
<1>2. Takes(v, ItsValue, Member)
  BY <1>1, LiteralCats, ExpectedCat, ExpectedTypes
<1>3. Takes(v, ItsValue \o x, Member \o x)
  BY <1>2, TakesMore
<1> QED
  BY <1>3, TakesCat

LEMMA AddRBraceIn ==
    ASSUME NEW t, NEW a, NEW x \in Expected, Takes(t, a, Member \o x)
    PROVE  Takes(t \o RBrace, a, x)
<1>1. Takes(RBrace, Member \o x, <<>> \o x) /\ <<>> \o x = x
  BY RBraceTakes, TakesMore, ExpectedCat
<1> QED
  BY <1>1, TakesCat

\* What is open in front of the value: nothing, one object or two.
LEMMA OldPartTakes ==
    ASSUME NEW t
    PROVE  /\ t.kind = "read_attr" \/ (t.kind = "command" /\ t.sog # "GROUP")
                => Takes(OldPart(t), AValue, ItsValue)
           /\ t.kind = "command" /\ t.sog = "GROUP" => Takes(OldPart(t), AValue, ItsValue \o Member)
<1>1. CASE t.kind = "read_attr"
  <2>1. OldPart(t) = LBrace \o Key("device_name")
    BY <1>1 DEF OldPart
  <2> QED
    BY <1>1, <2>1, LBraceTakes, AddKey
<1>2. CASE t.kind = "command"
  <2> DEFINE head == LBrace \o Field("command_name") \o Comma
             dev == Optional(t.sog # "GROUP", Field("device_name") \o Comma)
             inner == LBrace \o Key("device_name")
  <2>1. OldPart(t) = head \o dev \o Key("argout") \o Optional(t.sog = "GROUP", inner)
    BY <1>2 DEF OldPart
  <2>2. Takes(head, AValue, NextKey) /\ IsRun(dev)
    BY LBraceTakes, AddField, AddComma, RunOfOne, OptionalRun
  <2>3. Takes(inner, AValue, ItsValue)
    BY LBraceTakes, AddKey
  <2> HIDE DEF head, dev, inner
  <2>4. Takes(head \o dev \o Key("argout"), AValue, ItsValue)
    BY <2>2, AddRun, AddKey
  <2>5. CASE t.sog # "GROUP"
    BY <1>2, <2>1, <2>4, <2>5, TakesNothing, TakesCat, ExpectedTypes DEF Optional
  <2>6. CASE t.sog = "GROUP"
    <3>1. Takes(inner, AValue \o Member, ItsValue \o Member)
      BY <2>3, TakesMore, ExpectedTypes
    <3> QED
      BY <1>2, <2>1, <2>4, <2>6, <3>1, LiteralCats, TakesCat DEF Optional
  <2> QED
    BY <2>5, <2>6
<1> QED
  BY <1>1, <1>2

LEMMA HeadOfTaskTakes ==
    ASSUME NEW t, NEW useOldVersion \in BOOLEAN
    PROVE  /\ ~useOldVersion => Takes(HeadOfTask(t, useOldVersion), AValue, ItsValue)
           /\ useOldVersion /\ (t.kind = "read_attr" \/ (t.kind = "command" /\ t.sog # "GROUP"))
                => Takes(HeadOfTask(t, useOldVersion), AValue, ItsValue \o Member)
           /\ useOldVersion /\ t.kind = "command" /\ t.sog = "GROUP"
                => Takes(HeadOfTask(t, useOldVersion), AValue, (ItsValue \o Member) \o Member)
<1> DEFINE start == LBrace \o Field("event") \o Comma \o Field("type_req") \o Comma
           command == Optional(t.kind = "command", Field("command_name") \o Comma)
           dev == Optional(~useOldVersion, Field("device_name") \o Comma \o command)
           attr == Optional(t.kind = "write_attr", Field("attr_name") \o Comma)
           id == Optional(t.hasId, Field("id_req") \o Comma)
           key == Key(IF t.kind = "write_attr" THEN "resp" ELSE "data")
           head == start \o dev \o attr \o id \o key
<1>1. Takes(start, AValue, NextKey)
  BY LBraceTakes, AddField, AddComma
<1>2. IsRun(command) /\ IsRun(attr) /\ IsRun(id)
  BY RunOfOne, OptionalRun
<1>3. HeadOfTask(t, useOldVersion) = head \o Optional(useOldVersion, OldPart(t))
  BY DEF HeadOfTask
<1>4. IsRun(dev)
  <2>1. IsRun(Field("device_name") \o Comma \o command)
    BY <1>2, RunOfOne, TakesCat DEF IsRun
  <2> HIDE DEF command
  <2> QED
    BY <2>1, OptionalRun
<1> HIDE DEF start, command, dev, attr, id
<1>5. Takes(head, AValue, ItsValue)
  BY <1>1, <1>2, <1>4, AddRun, AddKey
<1> HIDE DEF head
<1>6. CASE ~useOldVersion
  BY <1>3, <1>5, <1>6, TakesNothing, TakesCat, ExpectedTypes DEF Optional
<1>7. CASE useOldVersion
  <2>1. HeadOfTask(t, useOldVersion) = head \o OldPart(t)
    BY <1>3, <1>7 DEF Optional
  <2>2. ASSUME NEW b, Takes(OldPart(t), AValue, b) PROVE Takes(head \o OldPart(t), AValue, b \o Member)
    <3>1. Takes(OldPart(t), AValue \o Member, b \o Member)
      BY <2>2, TakesMore, ExpectedTypes
    <3> QED
      BY <1>5, <3>1, LiteralCats, TakesCat
  <2> QED
    BY <1>7, <2>1, <2>2, OldPartTakes
<1> QED
  BY <1>6, <1>7

-------------------------------------------------------------------------------
(* initAttr *)

IsNaming(f, read, n) ==
    f = [i \in 0..n |-> IF i = 0 THEN <<>>
                        ELSE IF Contains(f[i - 1], read[i].name) THEN f[i - 1]
                        ELSE Append(f[i - 1], read[i].name)]

LEMMA NamingExists ==
    ASSUME NEW read
    PROVE  \A n \in Nat : \E f : IsNaming(f, read, n)
<1> DEFINE P == {n \in Nat : \E f : IsNaming(f, read, n)}
           More(names, i) == IF Contains(names, read[i].name) THEN names ELSE Append(names, read[i].name)
<1>1. 0 \in P
  <2> DEFINE f == [i \in 0..0 |-> <<>>]
  <2>1. f = [i \in 0..0 |-> IF i = 0 THEN <<>> ELSE More(f[i - 1], i)]
    OBVIOUS
  <2> HIDE DEF f
  <2>2. IsNaming(f, read, 0)
    BY <2>1 DEF IsNaming
  <2> QED
    BY <2>2
<1>2. ASSUME NEW n \in Nat, n \in P PROVE n + 1 \in P
  <2>1. PICK f : IsNaming(f, read, n)
    BY <1>2
  <2>2. f = [i \in 0..n |-> IF i = 0 THEN <<>> ELSE More(f[i - 1], i)]
    BY <2>1 DEF IsNaming
  <2> HIDE DEF More
  <2>3. \A i \in 0..n : f[i] = IF i = 0 THEN <<>> ELSE More(f[i - 1], i)
    BY <2>2, ZenonT(40)
  <2> DEFINE g == [i \in 0..n + 1 |-> IF i <= n THEN f[i] ELSE More(f[n], n + 1)]
  <2>4. ASSUME NEW i \in 0..n + 1 PROVE g[i] = IF i = 0 THEN <<>> ELSE More(g[i - 1], i)
    <3>1. CASE i = n + 1
      <4>1. g[i] = More(f[n], n + 1) /\ g[i - 1] = f[n] /\ i # 0
        BY <3>1
      <4> QED
        BY <3>1, <4>1
    <3>2. CASE i \in 0..n
      <4>1. g[i] = f[i] /\ (i # 0 => g[i - 1] = f[i - 1])
        BY <3>2
      <4> QED
        BY <2>3, <3>2, <4>1
    <3> QED
      BY <3>1, <3>2
  <2>5. g = [i \in 0..n + 1 |-> g[i]]
    OBVIOUS
  <2> HIDE DEF g
  <2>6. g = [i \in 0..n + 1 |-> IF i = 0 THEN <<>> ELSE More(g[i - 1], i)]
    BY <2>4, <2>5
  <2>7. IsNaming(g, read, n + 1)
    BY <2>6 DEF IsNaming, More
  <2> QED
    BY <2>7
<1> HIDE DEF P
<1>3. Nat \subseteq P
  BY <1>1, <1>2, Induction
<1> QED
  BY <1>3 DEF P

LEMMA NamesToRead ==
    ASSUME NEW list \in Seq(Name(Attr \cup {AllAttrs}))
    PROVE  ListToRead(list) \in Seq(Name(Attr))
<1>1. CASE HasAllAttrs(list)
  BY <1>1 DEF ListToRead, ListOfAllAttributes
<1>2. CASE ~HasAllAttrs(list)
  <2>1. ASSUME NEW i \in 1..Len(list) PROVE list[i] \in Name(Attr)
    <3>1. list[i] \in Name(Attr \cup {AllAttrs}) /\ list[i].name # AllAttrs
      BY <1>2 DEF HasAllAttrs
    <3> QED
      BY <3>1 DEF Name
  <2>2. list \in Seq(Name(Attr))
    BY <2>1
  <2> QED
    BY <1>2, <2>2 DEF ListToRead
<1> QED
  BY <1>1, <1>2

LEMMA NamesOfAttrs ==
    ASSUME NEW list \in Seq(Name(Attr \cup {AllAttrs}))
    PROVE  InitAttr(list).names \in Seq(Attr)
<1> DEFINE read == ListToRead(list)
<1>1. PICK n \in Nat : n = Len(read) /\ \A i \in 1..n : read[i].name \in Attr
  <2>1. PICK r \in Seq(Name(Attr)) : r = read
    BY NamesToRead
  <2>2. Len(r) \in Nat /\ \A i \in 1..Len(r) : r[i] \in Name(Attr)
    OBVIOUS
  <2>3. \A i \in 1..Len(r) : r[i].name \in Attr
    BY <2>2 DEF Name
  <2> QED
    BY <2>1, <2>2, <2>3
<1> DEFINE f == CHOOSE f : IsNaming(f, read, n)
<1>2. IsNaming(f, read, n)
  BY NamingExists, ZenonT(40)
<1>3. InitAttr(list).names = f[n]
  BY <1>1 DEF InitAttr, IsNaming
<1> HIDE DEF f, read
<1>4. \A i \in 0..n : f[i] = IF i = 0 THEN <<>>
                             ELSE IF Contains(f[i - 1], read[i].name) THEN f[i - 1]
                             ELSE Append(f[i - 1], read[i].name)
  BY <1>2, ZenonT(40) DEF IsNaming
<1> DEFINE P == {i \in Nat : i <= n => f[i] \in Seq(Attr)}
<1>5. 0 \in P
  <2>1. 0 \in 0..n
    OBVIOUS
  <2>2. f[0] = <<>>
    BY <1>4, <2>1
  <2>3. <<>> \in Seq(Attr)
    OBVIOUS
  <2> QED
    BY <2>2, <2>3
<1>6. ASSUME NEW i \in Nat, i \in P PROVE i + 1 \in P
  <2> SUFFICES ASSUME i + 1 <= n PROVE f[i + 1] \in Seq(Attr)
    OBVIOUS
  <2>1. i + 1 \in 0..n /\ (i + 1) - 1 = i /\ i + 1 # 0 /\ i + 1 \in 1..n
    OBVIOUS
  <2>2. f[i + 1] = f[i] \/ f[i + 1] = Append(f[i], read[i + 1].name)
    BY <1>4, <2>1
  <2>3. f[i] \in Seq(Attr) /\ read[i + 1].name \in Attr
    BY <1>1, <1>6, <2>1
  <2>4. Append(f[i], read[i + 1].name) \in Seq(Attr)
    BY <2>3, AppendProperties
  <2> QED
    BY <2>2, <2>3, <2>4
<1> HIDE DEF P
<1>7. n \in P
  BY <1>5, <1>6, Induction
<1> QED
  BY <1>3, <1>7 DEF P

-------------------------------------------------------------------------------
(* Every text that is sent is one JSON value. *)

LEMMA ValueIsJson == ASSUME NEW t, IsValue(t) PROVE IsJson(t)
<1>1. Reads(AValue \o <<>>, t) = <<>> \o <<>>
  BY ExpectedTypes DEF IsValue, Takes
<1>2. AValue \o <<>> = AValue /\ <<>> \o <<>> = <<>>
  BY ExpectedTypes, ExpectedCat
<1> QED
  BY <1>1, <1>2 DEF IsJson, Reads, AValue

LEMMA DevicesInOrder ==
    /\ Len(Devs) \in Nat /\ DOMAIN Devs = 1..Len(Devs) /\ IsText(Devs)
    /\ \A i \in 1..Len(Devs) : Devs[i] \in Dev
<1>1. PICK n \in Nat : n = Cardinality(Dev)
  BY DevAssumption, FS_CardinalityType
<1>2. PICK f : f \in Bijection(1..n, Dev)
  BY <1>1, DevAssumption, FS_CardinalityType DEF ExistsBijection
<1>3. f \in [1..n -> Dev] /\ IsInjective(f)
  BY <1>2 DEF Bijection, Injection, IsInjective
<1>4. Devs \in [1..n -> Dev]
  BY <1>1, <1>3 DEF Devs, SetToSeq
<1>5. Len(Devs) = n /\ Devs \in Seq(Dev)
  BY <1>4
<1> QED
  BY <1>4, <1>5 DEF IsText

\* What a step says is one JSON value if JSON can hold it.
LEMMA Said ==
    ASSUME NEW t, NEW a, Say(t, a), a.fit => IsValue(t)
    PROVE  WellFormed'
<1>1. text' = t /\ about' = a
  BY DEF Say
<1>2. a.fit => IsJson(t)
  BY ValueIsJson
<1> QED
  BY <1>1, <1>2 DEF WellFormed

LEMMA DataRecords ==
    ASSUME NEW names, IsText(names), NEW data \in DataFor(names)
    PROVE  /\ DOMAIN names = 1..Len(names) /\ Len(names) \in Nat
           /\ \A i \in 1..Len(names) : data[i] \in DatumRecord
           /\ FitData(data) => \A i \in 1..Len(names) : FitDatum(data[i])
<1>1. DOMAIN names = 1..Len(names) /\ Len(names) \in Nat
  BY TextLen
<1>2. \/ data \in [1..Len(names) -> FewData] \/ data \in [1..Len(names) -> Datum]
  BY <1>1 DEF DataFor
<1>3. \A i \in 1..Len(names) : data[i] \in DatumRecord
  BY <1>2, DatumAssumption
<1>4. DOMAIN data = 1..Len(names)
  BY <1>2
<1> QED
  BY <1>1, <1>3, <1>4 DEF FitData

LEMMA FewPipesArePipes ==
    /\ \A q \in FewPipes : IsPipe(Piped(q))
    /\ IsPipe(PipeFailed(<<>>)) /\ IsPipe(PipeFailed(<<"plain">>)) /\ IsPipe(PipeFailed(<<"plain", "plain">>))
<1>1. IsText(<<>>) /\ IsText(<<"plain">>)
  BY TextEmpty, TextOne
<1>2. IsText(<<"plain", "plain">>)
  <2>1. <<"plain", "plain">> \in Seq({"plain"})
    OBVIOUS
  <2> QED
    BY <2>1 DEF IsText
<1> QED
  BY <1>1, <1>2, PipeAssumption DEF IsPipe

LEMMA PipePartIsTail ==
    ASSUME NEW p, IsPipe(p), hasPipe => FitPipe(p)
    PROVE  IsTail(PipePart(p))
<1>1. hasPipe => IsTail(Comma \o Key("pipe") \o PipeOrErrors(p, pipePrecisions))
  BY PipeOrErrorsIsValue, TailOfMember
<1> QED
  BY <1>1, OptionalTail DEF PipePart

LEMMA UpdateDeviceSays == ASSUME IsText(attributes), UpdateDevice PROVE WellFormed'
<1>1. PICK data \in DataFor(attributes), p \in {Piped(q) : q \in FewPipes} \cup {PipeFailed(<<"plain">>)} :
        Say(HeadOfUpdate \o GenerateJsonForAttrList(attributes, data, precisions) \o PipePart(p) \o RBrace,
            About(Attrs(attributes, data), IF hasPipe THEN <<p>> ELSE <<>>, wanted,
                  FitData(data) /\ (hasPipe => FitPipe(p))))
  BY DEF UpdateDevice
<1> DEFINE t == HeadOfUpdate \o GenerateJsonForAttrList(attributes, data, precisions)
                  \o PipePart(p) \o RBrace
           a == About(Attrs(attributes, data), IF hasPipe THEN <<p>> ELSE <<>>, wanted,
                      FitData(data) /\ (hasPipe => FitPipe(p)))
<1>2. ASSUME a.fit PROVE IsValue(t)
  <2>1. FitData(data) /\ (hasPipe => FitPipe(p))
    BY <1>2 DEF About
  <2>2. IsValue(GenerateJsonForAttrList(attributes, data, precisions))
    BY <2>1, DataRecords, AttrListIsValue
  <2>3. IsTail(PipePart(p))
    BY <2>1, FewPipesArePipes, PipePartIsTail
  <2>4. Takes(HeadOfUpdate \o GenerateJsonForAttrList(attributes, data, precisions) \o PipePart(p),
              AValue, Member)
    BY <2>2, <2>3, HeadOfUpdateTakes, AddValue, AddTail
  <2> QED
    BY <2>4, AddRBrace DEF IsValue
<1> HIDE DEF t, a
<1> QED
  BY <1>1, <1>2, Said DEF t, a

LEMMA UpdateFailsSays == ASSUME UpdateFails PROVE WellFormed'
<1>1. PICK message \in Content :
        Say(ExceptionStringOut(Error({"type_req", "device_name"}, message, <<>>)),
            About(<<>>, <<>>, NoWish, message = "plain"))
  BY DEF UpdateFails
<1> DEFINE err == Error({"type_req", "device_name"}, message, <<>>)
<1>2. err.errorMessage = message /\ err.errorMessages = <<>> /\ err.errorResponses = <<>>
  BY DEF Error
<1> HIDE DEF err
<1>3. message = "plain" => IsValue(ExceptionStringOut(err))
  BY <1>2, TextEmpty, ExceptionIsValue
<1>4. About(<<>>, <<>>, NoWish, message = "plain").fit => message = "plain"
  BY DEF About
<1> QED
  BY <1>1, <1>3, <1>4, Said DEF err

LEMMA AttrWriteSays == ASSUME AttrWriteResponse PROVE WellFormed'
<1>1. PICK hasId \in BOOLEAN :
        Say(HeadOfTask(Task("write_attr", "SINGLE", hasId), FALSE) \o Plain \o RBrace, NoAnswer)
  BY DEF AttrWriteResponse
<1>2. Takes(HeadOfTask(Task("write_attr", "SINGLE", hasId), FALSE), AValue, ItsValue)
  BY HeadOfTaskTakes
<1>3. IsValue(HeadOfTask(Task("write_attr", "SINGLE", hasId), FALSE) \o Plain \o RBrace)
  BY <1>2, PlainIsValue, AddValue, AddRBrace DEF IsValue
<1> QED
  BY <1>1, <1>3, Said

LEMMA UserStatusSays == ASSUME UserStatus PROVE WellFormed'
<1>1. PICK login \in Content :
        Say(LBrace \o Field("event") \o Comma \o Field("type_req") \o Comma \o Key("data") \o LBrace
              \o Field("status") \o Comma \o Key("username") \o Quoted(login, Own)
              \o RBrace \o RBrace,
            About(<<>>, <<>>, NoWish, login = "plain"))
  BY DEF UserStatus
<1> DEFINE start == LBrace \o Field("event") \o Comma \o Field("type_req") \o Comma \o Key("data")
           quoted == Quoted(login, Own)
<1>2. Takes(start, AValue, ItsValue)
  BY LBraceTakes, AddField, AddComma, AddKey
<1>3. Takes(LBrace, ItsValue, FirstKey \o Member)
  BY LBraceTakes, TakesMore, LiteralCats, ExpectedTypes
<1>4. ASSUME NEW t, Takes(t, AValue, FirstKey \o Member)
      PROVE  Takes(t \o Field("status") \o Comma \o Key("username"), AValue, ItsValue \o Member)
  <2>1. /\ Takes(Field("status"), FirstKey \o Member, Member \o Member)
        /\ Takes(Comma, Member \o Member, NextKey \o Member)
        /\ Takes(Key("username"), NextKey \o Member, ItsValue \o Member)
    BY FieldTakes, CommaTakes, KeyTakes, TakesMore, ExpectedTypes
  <2> QED
    BY <1>4, <2>1, TakesCat
<1>5. login = "plain" => IsValue(quoted)
  BY QuotedIsValue
<1>6. Say(start \o LBrace \o Field("status") \o Comma \o Key("username") \o quoted \o RBrace \o RBrace,
          About(<<>>, <<>>, NoWish, login = "plain"))
  BY <1>1
<1> HIDE DEF start, quoted
<1>7. Takes(start \o LBrace, AValue, FirstKey \o Member)
  BY <1>2, <1>3, TakesCat
<1>8. Takes(start \o LBrace \o Field("status") \o Comma \o Key("username"), AValue, ItsValue \o Member)
  BY <1>4, <1>7
<1>9. login = "plain" =>
        IsValue(start \o LBrace \o Field("status") \o Comma \o Key("username") \o quoted \o RBrace \o RBrace)
  BY <1>5, <1>8, AddValueIn, AddRBraceIn, AddRBrace, ExpectedTypes DEF IsValue
<1>10. About(<<>>, <<>>, NoWish, login = "plain").fit => login = "plain"
  BY DEF About
<1> QED
  BY <1>6, <1>9, <1>10, Said

LEMMA TextTwo == ASSUME NEW x, NEW y PROVE IsText(<<x, y>>)
<1>1. <<x, y>> \in Seq({x, y})
  OBVIOUS
<1> QED
  BY <1>1 DEF IsText

\* One brace closes what is inside a member, and the next one what is around it.
LEMMA InnerBrace ==
    /\ Member \o Member \in Expected
    /\ (ItsValue \o Member) \o Member = ItsValue \o (Member \o Member)
    /\ Takes(RBrace, Member \o Member, Member)
    /\ Takes(RBrace, Member \o (Member \o Member), Member \o Member)
<1>1. Member \o Member \in Expected
  BY ExpectedTypes, ExpectedCat, ZenonT(40)
<1>2. (ItsValue \o Member) \o Member = ItsValue \o (Member \o Member)
  <2>1. \A a, b, c \in Expected : (a \o b) \o c = a \o (b \o c)
    BY ExpectedCat
  <2>2. ItsValue \in Expected /\ Member \in Expected
    BY ExpectedTypes
  <2> QED
    BY <2>1, <2>2, ZenonT(40)
<1>3. ASSUME NEW x \in Expected PROVE Takes(RBrace, Member \o x, x)
  <2>1. Takes(RBrace, Member \o x, <<>> \o x)
    BY RBraceTakes, TakesMore
  <2>2. <<>> \o x = x
    BY ExpectedCat
  <2> QED
    BY <2>1, <2>2
<1> QED
  BY <1>1, <1>2, <1>3, ExpectedTypes

LEMMA RefusalSays == ASSUME Refusal PROVE WellFormed'
<1>1. PICK given \in SUBSET {"type_req", "id_req", "device_name"}, message \in Content \cup {"none"},
           messages \in {<<>>, <<"plain">>, <<"plain", "quotes">>},
           responses \in {<<>>, <<TRUE>>, <<FALSE, TRUE>>} :
        Say(ExceptionStringOut([Error(given, message, messages) EXCEPT !.errorResponses = responses]),
            About(<<>>, <<>>, NoWish,
                  IF message = "none" THEN FitErrors(messages) ELSE message = "plain"))
  BY DEF Refusal
<1> DEFINE err == [Error(given, message, messages) EXCEPT !.errorResponses = responses]
           fit == IF message = "none" THEN FitErrors(messages) ELSE message = "plain"
<1>2. err.errorMessage = message /\ err.errorMessages = messages /\ err.errorResponses = responses
  BY DEF Error
<1>3. IsText(messages) /\ IsText(responses)
  BY TextEmpty, TextOne, TextTwo
<1> HIDE DEF err
<1>4. fit => IsValue(ExceptionStringOut(err))
  <2> SUFFICES ASSUME fit PROVE IsValue(ExceptionStringOut(err))
    OBVIOUS
  <2>1. message = "none" => \A i \in 1..Len(messages) : messages[i] = "plain"
    BY <1>3, TextLen DEF FitErrors
  <2>2. message \in Content => message = "plain"
    BY DEF Content
  <2>3. message \notin Content => message = "none"
    OBVIOUS
  <2> QED
    BY <1>2, <1>3, <2>1, <2>2, <2>3, ExceptionIsValue
<1> HIDE DEF fit
<1>5. About(<<>>, <<>>, NoWish, fit).fit => fit
  BY DEF About
<1>6. Say(ExceptionStringOut(err), About(<<>>, <<>>, NoWish, fit))
  BY <1>1 DEF err, fit
<1> QED
  BY <1>4, <1>5, <1>6, Said

LEMMA AcknowledgementSays == ASSUME Acknowledgement PROVE WellFormed'
<1>1. PICK hasId \in BOOLEAN, responses \in {<<TRUE>>, <<FALSE, TRUE>>}, login \in Content :
        \/ Say(SuccessRespOut(hasId), NoAnswer)
        \/ Say(ResponseStringOutForEventSub(hasId, responses), NoAnswer)
        \/ Say(ResponseStringOut(hasId, login), About(<<>>, <<>>, NoWish, login = "plain"))
  BY DEF Acknowledgement
<1>2. IsText(responses)
  BY TextOne, TextTwo
<1>3. IsValue(SuccessRespOut(hasId)) /\ IsValue(ResponseStringOutForEventSub(hasId, responses))
  BY <1>2, SuccessIsValue, EventResponsesAreValue, RespMessIsValue DEF ResponseStringOutForEventSub
<1>4. login = "plain" => IsValue(ResponseStringOut(hasId, login))
  BY QuotedIsValue, RespMessIsValue DEF ResponseStringOut
<1>5. About(<<>>, <<>>, NoWish, login = "plain").fit => login = "plain"
  BY DEF About
<1> QED
  BY <1>1, <1>3, <1>4, <1>5, Said

LEMMA CommandSays == ASSUME old \in BOOLEAN, CommandResponse PROVE WellFormed'
<1>1. PICK names \in Asked, key \in Precisions, sog \in Sog, r \in CommandData, jsonout \in BOOLEAN :
        Say(HeadOfTask(Task("command", sog, TRUE), old)
              \o GenerateJsonFromDeviceData(r, CommandPrecision(names[1], key), jsonout)
              \o Optional(old, RBrace \o Optional(sog = "GROUP", RBrace)) \o RBrace,
            About(<<>>, <<>>, NoWish, FitResult(r, jsonout)))
  BY DEF CommandResponse
<1> DEFINE head == HeadOfTask(Task("command", sog, TRUE), old)
           value == GenerateJsonFromDeviceData(r, CommandPrecision(names[1], key), jsonout)
           close == Optional(old, RBrace \o Optional(sog = "GROUP", RBrace))
<1>2. Task("command", sog, TRUE).kind = "command" /\ Task("command", sog, TRUE).sog = sog
  BY DEF Task
<1>3. /\ ~old => Takes(head, AValue, ItsValue)
      /\ old /\ sog # "GROUP" => Takes(head, AValue, ItsValue \o Member)
      /\ old /\ sog = "GROUP" => Takes(head, AValue, (ItsValue \o Member) \o Member)
  BY <1>2, HeadOfTaskTakes
<1>4. FitResult(r, jsonout) => IsValue(value)
  BY ResultIsValue
<1>5. Say(head \o value \o close \o RBrace, About(<<>>, <<>>, NoWish, FitResult(r, jsonout)))
  BY <1>1
<1> HIDE DEF head, value
<1>6. ASSUME IsValue(value) PROVE Takes(head \o value \o close, AValue, Member)
  <2>1. CASE ~old
    <3>1. Takes(head \o value, AValue, Member)
      BY <1>3, <1>6, <2>1, AddValue
    <3>2. close = <<>>
      BY <2>1 DEF Optional
    <3> QED
      BY <3>1, <3>2, TakesNothing, TakesCat, ExpectedTypes
  <2>2. CASE old /\ sog # "GROUP"
    <3>1. Takes(head \o value, AValue, Member \o Member)
      BY <1>3, <1>6, <2>2, AddValueIn, ExpectedTypes
    <3>2. close = RBrace \o <<>>
      BY <2>2 DEF Optional
    <3>3. Takes(RBrace, Member \o Member, Member) /\ Takes(<<>>, Member, Member)
      BY InnerBrace, TakesNothing, ExpectedTypes
    <3>4. Takes(close, Member \o Member, Member)
      BY <3>2, <3>3, TakesCat
    <3> HIDE DEF close
    <3> QED
      BY <3>1, <3>4, TakesCat
  <2>3. CASE old /\ sog = "GROUP"
    <3>1. Takes(head \o value, AValue, Member \o (Member \o Member))
      BY <1>3, <1>6, <2>3, InnerBrace, AddValueIn
    <3>2. close = RBrace \o RBrace
      BY <2>3 DEF Optional
    <3>3. Takes(RBrace, Member \o (Member \o Member), Member \o Member)
          /\ Takes(RBrace, Member \o Member, Member)
      BY InnerBrace
    <3>4. Takes(RBrace \o RBrace, Member \o (Member \o Member), Member)
      BY <3>3, TakesCat
    <3> QED
      BY <3>1, <3>2, <3>4, TakesCat
  <2> QED
    BY <2>1, <2>2, <2>3
<1> HIDE DEF close
<1>7. FitResult(r, jsonout) => IsValue(head \o value \o close \o RBrace)
  BY <1>4, <1>6, AddRBrace DEF IsValue
<1>8. About(<<>>, <<>>, NoWish, FitResult(r, jsonout)).fit => FitResult(r, jsonout)
  BY DEF About
<1> QED
  BY <1>5, <1>7, <1>8, Said

LEMMA PipeSays == ASSUME PipeResponse PROVE WellFormed'
<1>1. PICK p \in Pipe, key \in Precisions, hasDevice \in BOOLEAN, hasId \in BOOLEAN :
        LET shown == GenerateJsonForPipe(p, ObjectPrecisions(key))
        IN  IF shown.raised
            THEN Say(ExceptionStringOut(Error({"type_req"}, "none", <<"plain">>)), NoAnswer)
            ELSE Say(HeadOfPipe(hasDevice, hasId) \o shown.text \o RBrace,
                     About(<<>>, <<Piped(p)>>, [attrs |-> <<>>, pipe |-> Exactly(ObjectPrecisions(key))],
                           FitPipe(Piped(p))))
  BY DEF PipeResponse
<1> DEFINE shown == GenerateJsonForPipe(p, ObjectPrecisions(key))
           err == Error({"type_req"}, "none", <<"plain">>)
           a == About(<<>>, <<Piped(p)>>, [attrs |-> <<>>, pipe |-> Exactly(ObjectPrecisions(key))],
                      FitPipe(Piped(p)))
<1>2. IsValue(ExceptionStringOut(err))
  <2>1. err.errorMessage = "none" /\ err.errorMessages = <<"plain">> /\ err.errorResponses = <<>>
    BY DEF Error
  <2>2. IsText(<<"plain">>) /\ IsText(<<>>) /\ "none" \notin Content
    BY TextOne, TextEmpty DEF Content
  <2>3. \A i \in 1..Len(<<"plain">>) : <<"plain">>[i] = "plain"
    OBVIOUS
  <2> HIDE DEF err
  <2> QED
    BY <2>1, <2>2, <2>3, ExceptionIsValue
<1>3. a.fit => IsValue(shown.text)
  BY PipeAssumption, PipeIsValue DEF FitElements, About
<1>4. IF shown.raised THEN Say(ExceptionStringOut(err), NoAnswer)
      ELSE Say(HeadOfPipe(hasDevice, hasId) \o shown.text \o RBrace, a)
  BY <1>1
<1> HIDE DEF shown, err, a
<1>5. a.fit => IsValue(HeadOfPipe(hasDevice, hasId) \o shown.text \o RBrace)
  BY <1>3, HeadOfPipeTakes, AddValue, AddRBrace DEF IsValue
<1> QED
  BY <1>2, <1>4, <1>5, Said

LEMMA AttrReadSays == ASSUME old \in BOOLEAN, AttrReadResponse PROVE WellFormed'
<1>1. PICK names \in Asked, key \in Precisions :
        \E data \in DataFor(names) :
          LET cut == CutNames(names, key)
              shown == [i \in DOMAIN cut |-> cut[i].name]
              got == Answered(cut, data)
          IN  Say(HeadOfTask(Task("read_attr", "SINGLE", TRUE), old)
                    \o GenerateJsonForAttrList(shown, got, ListPrecisions(names, key))
                    \o Optional(old, RBrace) \o RBrace,
                  About(Attrs(shown, got), <<>>, [attrs |-> WishFor(names, key), pipe |-> <<>>],
                        FitData(got)))
  BY DEF AttrReadResponse
<1>2. PICK data \in DataFor(names) :
        LET cut == CutNames(names, key)
            shown == [i \in DOMAIN cut |-> cut[i].name]
            got == Answered(cut, data)
        IN  Say(HeadOfTask(Task("read_attr", "SINGLE", TRUE), old)
                  \o GenerateJsonForAttrList(shown, got, ListPrecisions(names, key))
                  \o Optional(old, RBrace) \o RBrace,
                About(Attrs(shown, got), <<>>, [attrs |-> WishFor(names, key), pipe |-> <<>>],
                      FitData(got)))
  BY <1>1
<1> DEFINE cut == CutNames(names, key)
           shown == [i \in DOMAIN cut |-> cut[i].name]
           got == Answered(cut, data)
           head == HeadOfTask(Task("read_attr", "SINGLE", TRUE), old)
           list == GenerateJsonForAttrList(shown, got, ListPrecisions(names, key))
           close == Optional(old, RBrace)
           a == About(Attrs(shown, got), <<>>, [attrs |-> WishFor(names, key), pipe |-> <<>>], FitData(got))
<1>3. IsText(names)
  BY AskedAssumption DEF IsText
<1>4. PICK n \in Nat : n = Len(names) /\ DOMAIN names = 1..n
  BY <1>3, TextLen
<1>5. DOMAIN cut = 1..n
  BY <1>4 DEF CutNames
<1>6. shown = [i \in 1..n |-> shown[i]]
  BY <1>5
<1>7. IsText(shown) /\ Len(shown) = n
  <2> HIDE DEF shown
  <2> QED
    BY <1>6, Sized
<1>8. DOMAIN got = 1..n /\ \A i \in 1..n : got[i] \in DatumRecord
  <2>1. \A i \in 1..n : data[i] \in DatumRecord
    BY <1>3, <1>4, DataRecords
  <2>2. UnknownName \in DatumRecord
    <3>1. \E d \in Datum : d.quality = "INVALID"
      BY DatumAssumption
    <3>2. UnknownName \in Datum
      BY <3>1 DEF UnknownName
    <3> QED
      BY <3>2, DatumAssumption
  <2>3. DOMAIN got = 1..n /\ \A i \in 1..n : got[i] = data[i] \/ got[i] = UnknownName
    BY <1>5 DEF Answered
  <2> HIDE DEF got
  <2> QED
    BY <2>1, <2>2, <2>3
<1>9. Say(head \o list \o close \o RBrace, a)
  BY <1>2
<1>10. a.fit => FitData(got)
  BY DEF About
<1> HIDE DEF got, shown, cut, a
<1>11. a.fit => IsValue(list)
  <2> SUFFICES ASSUME a.fit PROVE IsValue(list)
    OBVIOUS
  <2>1. \A i \in 1..n : FitDatum(got[i])
    BY <1>8, <1>10 DEF FitData
  <2> QED
    BY <1>7, <1>8, <2>1, AttrListIsValue
<1>12. Task("read_attr", "SINGLE", TRUE).kind = "read_attr"
  BY DEF Task
<1>13. /\ ~old => Takes(head, AValue, ItsValue)
       /\ old => Takes(head, AValue, ItsValue \o Member)
  BY <1>12, HeadOfTaskTakes
<1> HIDE DEF list, head
<1>14. ASSUME IsValue(list) PROVE Takes(head \o list \o close, AValue, Member)
  <2>1. CASE ~old
    <3>1. Takes(head \o list, AValue, Member)
      BY <1>13, <1>14, <2>1, AddValue
    <3>2. close = <<>>
      BY <2>1 DEF Optional
    <3> QED
      BY <3>1, <3>2, TakesNothing, TakesCat, ExpectedTypes
  <2>2. CASE old
    <3>1. Takes(head \o list, AValue, Member \o Member)
      BY <1>13, <1>14, <2>2, AddValueIn, ExpectedTypes
    <3>2. close = RBrace
      BY <2>2 DEF Optional
    <3> QED
      BY <3>1, <3>2, InnerBrace, TakesCat
  <2> QED
    BY <2>1, <2>2
<1> HIDE DEF close
<1>15. a.fit => IsValue(head \o list \o close \o RBrace)
  BY <1>11, <1>14, AddRBrace DEF IsValue
<1> QED
  BY <1>9, <1>15, Said

\* An object with one value for each device of the group.
LEMMA DevicesAreObject ==
    ASSUME NEW v, \A i \in 1..Len(Devs) : IsValue(v[i])
    PROVE  IsValue(LBrace \o Listed([i \in DOMAIN Devs |-> Key(Devs[i]) \o v[i]]) \o RBrace)
<1>1. PICK n \in Nat : n = Len(Devs) /\ DOMAIN Devs = 1..n
  BY DevicesInOrder
<1> DEFINE parts == [i \in 1..n |-> Key(Devs[i]) \o v[i]]
<1>2. parts = [i \in 1..n |-> parts[i]] /\ \A i \in 1..n : IsMember(parts[i])
  BY <1>1, MemberOfKey
<1>3. [i \in DOMAIN Devs |-> Key(Devs[i]) \o v[i]] = parts
  BY <1>1
<1> HIDE DEF parts
<1>4. IsText(parts) /\ Len(parts) = n
  BY <1>2, Sized
<1> QED
  BY <1>2, <1>3, <1>4, ObjectIsValue

LEMMA UpdateGroupSays == ASSUME IsText(attributes), UpdateGroup PROVE WellFormed'
<1>1. PICK outcomes \in [Dev -> DeviceOutcome] :
        Say(HeadOfUpdate \o GroupData(outcomes)
              \o Optional(hasPipe, Comma \o Key("pipe") \o GroupPipes(outcomes)) \o RBrace,
            About(FlattenSeq([i \in DOMAIN Devs |-> AttrsShown(outcomes[Devs[i]])]),
                  IF hasPipe THEN [i \in DOMAIN Devs |-> outcomes[Devs[i]].pipe] ELSE <<>>,
                  wanted, FitGroup(outcomes)))
  BY DEF UpdateGroup
<1> DEFINE tail == Optional(hasPipe, Comma \o Key("pipe") \o GroupPipes(outcomes))
           a == About(FlattenSeq([i \in DOMAIN Devs |-> AttrsShown(outcomes[Devs[i]])]),
                      IF hasPipe THEN [i \in DOMAIN Devs |-> outcomes[Devs[i]].pipe] ELSE <<>>,
                      wanted, FitGroup(outcomes))
<1>2. Say(HeadOfUpdate \o GroupData(outcomes) \o tail \o RBrace, a)
  BY <1>1
<1>3. a.fit => FitGroup(outcomes)
  BY DEF About
<1>4. ASSUME NEW i \in 1..Len(Devs), FitGroup(outcomes)
      PROVE  /\ IsValue(DeviceAttrs(outcomes[Devs[i]]))
             /\ hasPipe => IsValue(PipeOrErrors(outcomes[Devs[i]].pipe, pipePrecisions))
  <2>1. PICK x \in DeviceOutcome : x = outcomes[Devs[i]]
    BY DevicesInOrder
  <2>2. FitData(x.data) /\ (hasPipe => FitPipe(x.pipe))
    BY <1>4, <2>1, DevicesInOrder DEF FitGroup, FitOutcome
  <2>3. IsPipe(x.pipe) /\ (x.read => x.data \in [DOMAIN attributes -> FewData])
    <3>1. CASE x = Unavailable
      <4>1. x.pipe = PipeFailed(<<"plain", "plain">>) /\ x.read = FALSE
        BY <3>1 DEF Unavailable
      <4> QED
        BY <4>1, FewPipesArePipes
    <3>2. CASE x \in [read : {TRUE}, data : [DOMAIN attributes -> FewData],
                      pipe : {Piped(q) : q \in FewPipes} \cup {PipeFailed(<<"plain">>)}]
      BY <3>2, FewPipesArePipes
    <3>3. CASE x \in [read : {FALSE}, data : {<<>>},
                      pipe : {Piped(q) : q \in FewPipes} \cup {PipeFailed(<<"plain">>)}]
      BY <3>3, FewPipesArePipes
    <3> QED
      BY <3>1, <3>2, <3>3 DEF DeviceOutcome
  <2>4. x.read => \A j \in 1..Len(attributes) : x.data[j] \in DatumRecord /\ FitDatum(x.data[j])
    BY <2>2, <2>3, DatumAssumption, TextLen DEF FitData
  <2>5. IsValue(DeviceAttrs(x))
    BY <2>4, AttrListIsValue, PlainIsValue DEF DeviceAttrs
  <2>6. hasPipe => IsValue(PipeOrErrors(x.pipe, pipePrecisions))
    BY <2>2, <2>3, PipeOrErrorsIsValue
  <2> QED
    BY <2>1, <2>5, <2>6
<1>5. ASSUME FitGroup(outcomes) PROVE IsValue(GroupData(outcomes))
  <2> DEFINE v == [i \in 1..Len(Devs) |-> DeviceAttrs(outcomes[Devs[i]])]
  <2>1. IsValue(LBrace \o Listed([i \in DOMAIN Devs |-> Key(Devs[i]) \o v[i]]) \o RBrace)
    <3>1. \A i \in 1..Len(Devs) : IsValue(v[i])
      BY <1>4, <1>5
    <3> HIDE DEF v
    <3> QED
      BY <3>1, DevicesAreObject
  <2>2. [i \in DOMAIN Devs |-> Key(Devs[i]) \o v[i]]
          = [i \in DOMAIN Devs |-> Key(Devs[i]) \o DeviceAttrs(outcomes[Devs[i]])]
    BY DevicesInOrder
  <2> QED
    BY <2>1, <2>2 DEF GroupData
<1>6. ASSUME FitGroup(outcomes), hasPipe PROVE IsValue(GroupPipes(outcomes))
  <2> DEFINE v == [i \in 1..Len(Devs) |-> PipeOrErrors(outcomes[Devs[i]].pipe, pipePrecisions)]
  <2>1. IsValue(LBrace \o Listed([i \in DOMAIN Devs |-> Key(Devs[i]) \o v[i]]) \o RBrace)
    <3>1. \A i \in 1..Len(Devs) : IsValue(v[i])
      BY <1>4, <1>6
    <3> HIDE DEF v
    <3> QED
      BY <3>1, DevicesAreObject
  <2>2. [i \in DOMAIN Devs |-> Key(Devs[i]) \o v[i]]
          = [i \in DOMAIN Devs |-> Key(Devs[i]) \o PipeOrErrors(outcomes[Devs[i]].pipe, pipePrecisions)]
    BY DevicesInOrder
  <2> QED
    BY <2>1, <2>2 DEF GroupPipes
<1>7. FitGroup(outcomes) => IsTail(tail)
  BY <1>6, TailOfMember, OptionalTail
<1> HIDE DEF tail, a
<1>8. FitGroup(outcomes) => IsValue(HeadOfUpdate \o GroupData(outcomes) \o tail \o RBrace)
  BY <1>5, <1>7, HeadOfUpdateTakes, AddValue, AddTail, AddRBrace DEF IsValue
<1> QED
  BY <1>2, <1>3, <1>8, Said

LEMMA GroupPipeSays == ASSUME GroupPipeResponse PROVE WellFormed'
<1>1. PICK outcomes \in [Dev -> PipeOutcome], key \in Precisions, hasId \in BOOLEAN :
        IF \E i \in DOMAIN Devs : PipeShown(outcomes[Devs[i]])
        THEN Say(HeadOfPipe(FALSE, hasId) \o GroupPipeParts(outcomes, ObjectPrecisions(key)) \o RBrace,
                 About(<<>>, [i \in DOMAIN Devs |-> outcomes[Devs[i]].pipe],
                       [attrs |-> <<>>, pipe |-> Exactly(ObjectPrecisions(key))], FitPipes(outcomes)))
        ELSE Say(ExceptionStringOut(Error({"type_req"}, "plain", <<>>)), NoAnswer)
  BY DEF GroupPipeResponse
<1> DEFINE opts == ObjectPrecisions(key)
           err == Error({"type_req"}, "plain", <<>>)
           a == About(<<>>, [i \in DOMAIN Devs |-> outcomes[Devs[i]].pipe],
                      [attrs |-> <<>>, pipe |-> Exactly(opts)], FitPipes(outcomes))
<1>2. \/ Say(HeadOfPipe(FALSE, hasId) \o GroupPipeParts(outcomes, opts) \o RBrace, a)
      \/ Say(ExceptionStringOut(err), NoAnswer)
  BY <1>1
<1>3. a.fit => FitPipes(outcomes)
  BY DEF About
<1>4. IsValue(ExceptionStringOut(err))
  <2>1. err.errorMessage = "plain" /\ err.errorMessages = <<>> /\ err.errorResponses = <<>>
    BY DEF Error
  <2> HIDE DEF err
  <2> QED
    BY <2>1, TextEmpty, ExceptionIsValue DEF Content
<1>5. ASSUME FitPipes(outcomes) PROVE IsValue(GroupPipeParts(outcomes, opts))
  <2> DEFINE v == [i \in 1..Len(Devs) |-> PipePartOf(outcomes[Devs[i]], opts)]
  <2>1. ASSUME NEW i \in 1..Len(Devs) PROVE IsValue(PipePartOf(outcomes[Devs[i]], opts))
    <3>1. PICK x \in PipeOutcome : x = outcomes[Devs[i]]
      BY DevicesInOrder
    <3>2. FitPipe(x.pipe)
      BY <1>5, <3>1, DevicesInOrder DEF FitPipes
    <3>3. IsPipe(x.pipe)
      BY FewPipesArePipes DEF PipeOutcome
    <3> QED
      BY <3>1, <3>2, <3>3, PipeOrErrorsIsValue, PlainIsValue DEF PipePartOf
  <2>2. IsValue(LBrace \o Listed([i \in DOMAIN Devs |-> Key(Devs[i]) \o v[i]]) \o RBrace)
    <3>1. \A i \in 1..Len(Devs) : IsValue(v[i])
      BY <2>1
    <3> HIDE DEF v
    <3> QED
      BY <3>1, DevicesAreObject
  <2>3. [i \in DOMAIN Devs |-> Key(Devs[i]) \o v[i]]
          = [i \in DOMAIN Devs |-> Key(Devs[i]) \o PipePartOf(outcomes[Devs[i]], opts)]
    BY DevicesInOrder
  <2> QED
    BY <2>2, <2>3 DEF GroupPipeParts
<1> HIDE DEF a, err, opts
<1>6. a.fit => IsValue(HeadOfPipe(FALSE, hasId) \o GroupPipeParts(outcomes, opts) \o RBrace)
  BY <1>3, <1>5, HeadOfPipeTakes, AddValue, AddRBrace DEF IsValue
<1> QED
  BY <1>2, <1>4, <1>6, Said

LEMMA EventSays == ASSUME Event PROVE WellFormed'
<1>1. PICK n \in Attr, d \in Datum, opt \in Option \cup {Default}, jsonName \in BOOLEAN :
        Say(LBrace \o FlattenSeq([i \in DOMAIN EventKeys |-> Field(EventKeys[i]) \o Comma])
              \o (IF jsonName THEN JsonData(d) ELSE DeviceAttributeToStr(n, d, opt, FALSE))
              \o RBrace,
            About(IF jsonName THEN <<>> ELSE <<[name |-> n, datum |-> d]>>, <<>>,
                  [attrs |-> [m \in {n} |-> {opt}], pipe |-> <<>>],
                  IF jsonName
                  THEN d.type = "string" /\ d.format = "SCALAR" /\ d.quality # "INVALID" /\ d.content = "json"
                  ELSE FitDatum(d)))
  BY DEF Event
<1> DEFINE keys == [i \in DOMAIN EventKeys |-> Field(EventKeys[i]) \o Comma]
           data == IF jsonName THEN JsonData(d) ELSE DeviceAttributeToStr(n, d, opt, FALSE)
           fit == IF jsonName
                  THEN d.type = "string" /\ d.format = "SCALAR" /\ d.quality # "INVALID" /\ d.content = "json"
                  ELSE FitDatum(d)
           a == About(IF jsonName THEN <<>> ELSE <<[name |-> n, datum |-> d]>>, <<>>,
                      [attrs |-> [m \in {n} |-> {opt}], pipe |-> <<>>], fit)
<1>2. Say(LBrace \o FlattenSeq(keys) \o data \o RBrace, a)
  BY <1>1
<1>3. a.fit => fit
  BY DEF About
<1>4. Takes(FlattenSeq(keys), FirstKey, NextKey)
  <2>1. DOMAIN EventKeys = 1..7
    BY DEF EventKeys
  <2> DEFINE c == [i \in 0..7 |-> IF i = 0 THEN FirstKey ELSE NextKey]
  <2>2. keys = [i \in 1..7 |-> keys[i]]
    BY <2>1
  <2>3. ASSUME NEW i \in 1..7 PROVE Takes(keys[i], c[i - 1], c[i])
    <3>1. Takes(keys[i], FirstKey, NextKey) /\ Takes(keys[i], NextKey, NextKey)
      BY <2>1, FieldTakes, CommaTakes, TakesCat
    <3>2. c[i] = NextKey /\ (c[i - 1] = FirstKey \/ c[i - 1] = NextKey)
      OBVIOUS
    <3> QED
      BY <3>1, <3>2
  <2>4. c[0] = FirstKey /\ c[7] = NextKey
    OBVIOUS
  <2> HIDE DEF keys, c
  <2>5. Takes(FlattenSeq(keys), c[0], c[7])
    BY <2>2, <2>3, <2>4, FlattenTakes, ExpectedTypes
  <2> QED
    BY <2>4, <2>5
<1>5. ASSUME fit PROVE IsMember(data)
  <2>1. CASE jsonName
    <3>1. JsonData(d) = Key("data") \o Bare("json", <<"json", "raw", 1>>)
      BY <1>5, <2>1 DEF JsonData, Optional
    <3>2. IsValue(Bare("json", <<"json", "raw", 1>>))
      BY ValueTakes DEF Bare
    <3> QED
      BY <2>1, <3>1, <3>2, MemberOfKey
  <2>2. CASE ~jsonName
    BY <1>5, <2>2, DatumAssumption, DeviceAttributeIsMember
  <2> QED
    BY <2>1, <2>2
<1> HIDE DEF keys, data, fit, a
<1>6. Takes(LBrace \o FlattenSeq(keys), AValue, NextKey)
  BY <1>4, LBraceTakes, TakesCat
<1>7. a.fit => IsValue(LBrace \o FlattenSeq(keys) \o data \o RBrace)
  BY <1>3, <1>5, <1>6, AddMember, AddRBrace DEF IsValue
<1> QED
  BY <1>2, <1>7, Said

\* What a gateway was made with is of its type, and stays what it is.
ConfOK == old \in BOOLEAN /\ attributes \in Seq(Attr)

LEMMA InitConf == Init => ConfOK /\ WellFormed
<1> SUFFICES ASSUME Init PROVE ConfOK /\ WellFormed
  OBVIOUS
<1>1. PICK c \in Configs : old = c.old /\ attributes = InitAttr(c.attributes).names
  BY DEF Init
<1>2. c.old \in BOOLEAN /\ c.attributes \in Seq(Name(Attr \cup {AllAttrs}))
  BY ConfigAssumption
<1>3. ConfOK
  BY <1>1, <1>2, NamesOfAttrs DEF ConfOK
<1>4. text = <<>>
  BY DEF Init
<1> QED
  BY <1>3, <1>4 DEF WellFormed

LEMMA ConfKept == ASSUME ConfOK, [Next]_vars PROVE ConfOK'
<1>1. UNCHANGED conf
  BY DEF Next, vars, Say, UpdateDevice, UpdateFails, UpdateGroup, UpdateGroupCrashes,
     AttrReadResponse, AttrWriteResponse, CommandResponse, Refusal, Acknowledgement, UserStatus,
     PipeResponse, GroupPipeResponse, Event, Sent
<1> QED
  BY <1>1 DEF ConfOK, conf

\* Every text a client is sent is one JSON value, whatever mixture of devices, failed reads,
\* formats, options and versions of answers goes into it, for any group of devices, any lists of
\* names and any data: the braces, brackets, keys and commas the functions of TangoProcessor and
\* StringProc write one by one always fit together.
THEOREM WellFormedHolds == Spec => []WellFormed
<1>1. Init => ConfOK /\ WellFormed
  BY InitConf
<1>2. ConfOK /\ WellFormed /\ [Next]_vars => ConfOK' /\ WellFormed'
  <2> SUFFICES ASSUME ConfOK, WellFormed, [Next]_vars PROVE WellFormed'
    BY ConfKept
  <2>1. IsText(attributes) /\ old \in BOOLEAN
    BY DEF ConfOK, IsText
  <2>2. CASE UpdateGroupCrashes
    BY <2>2 DEF UpdateGroupCrashes, WellFormed
  <2>3. CASE Sent
    BY <2>3 DEF Sent, WellFormed
  <2>4. CASE UNCHANGED vars
    BY <2>4 DEF vars, WellFormed
  <2> QED
    BY <2>1, <2>2, <2>3, <2>4, UpdateDeviceSays, UpdateFailsSays, UpdateGroupSays, AttrReadSays,
       AttrWriteSays, CommandSays, RefusalSays, AcknowledgementSays, UserStatusSays, PipeSays,
       GroupPipeSays, EventSays DEF Next
<1> QED
  BY <1>1, <1>2, PTL DEF Spec

-------------------------------------------------------------------------------
(* Sequences of texts: FlattenSeq and \o. *)

LEMMA CatOfTexts ==
    ASSUME NEW a, NEW b, NEW c, IsText(a), IsText(b), IsText(c)
    PROVE  (a \o b) \o c = a \o (b \o c)
<1>1. PICK A, B, C : a \in Seq(A) /\ b \in Seq(B) /\ c \in Seq(C)
  BY DEF IsText
<1> DEFINE D == A \cup B \cup C
<1>2. a \in Seq(D) /\ b \in Seq(D) /\ c \in Seq(D)
  BY <1>1, SeqMonotonic
<1> QED
  BY <1>2, ConcatAssociative

LEMMA EmptyCat == ASSUME NEW t, IsText(t) PROVE <<>> \o t = t /\ t \o <<>> = t
<1>1. PICK T : t \in Seq(T)
  BY DEF IsText
<1> QED
  BY <1>1, ConcatEmptySeq

LEMMA EmptyText == ASSUME NEW t, IsText(t), Len(t) = 0 PROVE t = <<>>
BY DEF IsText

\* s is n texts.
AreTexts(s, n) == n \in Nat /\ s = [i \in 1..n |-> s[i]] /\ \A i \in 1..n : IsText(s[i])

\* f[i] is the first i of the n texts s behind one another.
IsRunOf(f, s, n) ==
    /\ f[0] = <<>> /\ f[n] = FlattenSeq(s)
    /\ \A i \in 1..n : f[i] = f[i - 1] \o s[i]
    /\ \A i \in 0..n : IsText(f[i])

LEMMA FlattenRun ==
    ASSUME NEW n, NEW s, AreTexts(s, n)
    PROVE  \E f : IsRunOf(f, s, n)
<1>1. n \in Nat /\ IsText(s) /\ Len(s) = n /\ \A i \in 1..n : IsText(s[i])
  BY Sized DEF AreTexts
<1>2. CASE n = 0
  <2> DEFINE f == [i \in 0..0 |-> <<>>]
  <2>1. f[0] = <<>> /\ s = <<>>
    BY <1>1, <1>2, EmptyText
  <2>2. IsRunOf(f, s, n)
    BY <1>2, <2>1, FlattenNothing, TextEmpty DEF IsRunOf
  <2> HIDE DEF f
  <2> QED
    BY <2>2
<1>3. CASE n # 0
  <2>1. PICK h : IsFlattening(h, s)
    BY <1>1, <1>3, FlattenSteps
  <2>2. FlattenSeq(s) = h[n] /\ h[1] = s[1] /\ \A i \in 2..n : h[i] = h[i - 1] \o s[i]
    BY <1>1, <2>1 DEF IsFlattening
  <2> DEFINE f == [i \in 0..n |-> IF i = 0 THEN <<>> ELSE h[i]]
  <2>3. f[0] = <<>> /\ \A i \in 1..n : f[i] = h[i]
    BY <1>1
  <2> HIDE DEF f
  <2>4. ASSUME NEW i \in 1..n PROVE f[i] = f[i - 1] \o s[i]
    <3>1. CASE i = 1
      <4>1. 1 \in 1..n /\ i - 1 = 0
        BY <3>1
      <4>2. <<>> \o s[1] = s[1]
        BY <1>1, <4>1, EmptyCat
      <4> QED
        BY <2>2, <2>3, <3>1, <4>1, <4>2
    <3>2. CASE i # 1
      <4>1. i \in 2..n /\ i - 1 \in 1..n
        BY <1>1, <3>2
      <4> QED
        BY <2>2, <2>3, <4>1
    <3> QED
      BY <3>1, <3>2
  <2> DEFINE P == {i \in Nat : i <= n => IsText(f[i])}
  <2>5. 0 \in P
    BY <2>3, TextEmpty
  <2>6. ASSUME NEW i \in Nat, i \in P PROVE i + 1 \in P
    <3> SUFFICES ASSUME i + 1 <= n PROVE IsText(f[i + 1])
      OBVIOUS
    <3>1. PICK j \in 1..n : j = i + 1 /\ j - 1 = i
      OBVIOUS
    <3>2. IsText(f[j - 1]) /\ IsText(s[j])
      BY <1>1, <2>6, <3>1
    <3>3. IsText(f[j - 1] \o s[j])
      BY <3>2, TextCat
    <3> QED
      BY <2>4, <3>1, <3>3
  <2> HIDE DEF P
  <2>7. Nat \subseteq P
    BY <2>5, <2>6, Induction
  <2>8. \A i \in 0..n : IsText(f[i])
    BY <1>1, <2>7 DEF P
  <2>9. f[n] = FlattenSeq(s)
    <3>1. n \in 1..n
      BY <1>1, <1>3
    <3> QED
      BY <2>2, <2>3, <3>1
  <2>10. IsRunOf(f, s, n)
    BY <2>3, <2>4, <2>8, <2>9 DEF IsRunOf
  <2> QED
    BY <2>10
<1> QED
  BY <1>2, <1>3

\* The steps of a run decide where it ends.
LEMMA FlattenIs ==
    ASSUME NEW n, NEW s, AreTexts(s, n), NEW g, g[0] = <<>>,
           \A i \in 1..n : g[i] = g[i - 1] \o s[i]
    PROVE  FlattenSeq(s) = g[n]
<1>1. n \in Nat
  BY DEF AreTexts
<1>2. PICK f : IsRunOf(f, s, n)
  BY FlattenRun
<1>3. f[0] = <<>> /\ f[n] = FlattenSeq(s) /\ \A i \in 1..n : f[i] = f[i - 1] \o s[i]
  BY <1>2 DEF IsRunOf
<1> DEFINE P == {i \in Nat : i <= n => f[i] = g[i]}
<1>4. 0 \in P
  BY <1>3
<1>5. ASSUME NEW i \in Nat, i \in P PROVE i + 1 \in P
  <2> SUFFICES ASSUME i + 1 <= n PROVE f[i + 1] = g[i + 1]
    OBVIOUS
  <2>1. PICK j \in 1..n : j = i + 1 /\ j - 1 = i
    BY <1>1
  <2>2. f[j - 1] = g[j - 1]
    BY <1>1, <1>5, <2>1
  <2> QED
    BY <1>3, <2>1, <2>2
<1> HIDE DEF P
<1>6. n \in P
  BY <1>1, <1>4, <1>5, Induction
<1> QED
  BY <1>1, <1>3, <1>6 DEF P

LEMMA FlattenIsText == ASSUME NEW n, NEW s, AreTexts(s, n) PROVE IsText(FlattenSeq(s))
<1>1. PICK f : IsRunOf(f, s, n)
  BY FlattenRun
<1>2. n \in 0..n
  BY DEF AreTexts
<1> QED
  BY <1>1, <1>2 DEF IsRunOf

LEMMA CatAreTexts ==
    ASSUME NEW m \in Nat, NEW a, AreTexts(a, m), NEW n \in Nat, NEW b, AreTexts(b, n)
    PROVE  AreTexts(a \o b, m + n)
<1>1. /\ m \in Nat /\ IsText(a) /\ Len(a) = m /\ DOMAIN a = 1..m
      /\ n \in Nat /\ IsText(b) /\ Len(b) = n /\ DOMAIN b = 1..n
      /\ \A i \in 1..m : IsText(a[i])
      /\ \A i \in 1..n : IsText(b[i])
  BY Sized DEF AreTexts
<1>2. PICK u : u = a \o b
  OBVIOUS
<1>3. /\ IsText(u) /\ Len(u) = m + n
      /\ \A i \in 1..m + n : u[i] = IF i <= m THEN a[i] ELSE b[i - m]
  BY <1>1, <1>2, TextCat
<1>4. AreTexts(u, m + n)
  <2>1. u = [i \in 1..m + n |-> u[i]]
    BY <1>1, <1>3 DEF IsText
  <2>2. ASSUME NEW i \in 1..m + n PROVE IsText(u[i])
    <3>1. CASE i <= m
      BY <1>1, <1>3, <3>1
    <3>2. CASE ~(i <= m)
      <4>1. i - m \in 1..n
        BY <1>1, <3>2
      <4> QED
        BY <1>1, <1>3, <3>2, <4>1
    <3> QED
      BY <3>1, <3>2
  <2> QED
    BY <1>1, <2>1, <2>2 DEF AreTexts
<1> QED
  BY <1>2, <1>4

LEMMA FlattenCat ==
    ASSUME NEW m \in Nat, NEW a, AreTexts(a, m), NEW n \in Nat, NEW b, AreTexts(b, n)
    PROVE  FlattenSeq(a \o b) = FlattenSeq(a) \o FlattenSeq(b)
<1>1. /\ m \in Nat /\ IsText(a) /\ Len(a) = m /\ DOMAIN a = 1..m
      /\ n \in Nat /\ IsText(b) /\ Len(b) = n /\ DOMAIN b = 1..n
      /\ \A i \in 1..m : IsText(a[i])
      /\ \A i \in 1..n : IsText(b[i])
  BY Sized DEF AreTexts
<1>2. PICK u : u = a \o b
  OBVIOUS
<1>3. /\ IsText(u) /\ Len(u) = m + n
      /\ \A i \in 1..m + n : u[i] = IF i <= m THEN a[i] ELSE b[i - m]
  BY <1>1, <1>2, TextCat
<1>4. AreTexts(u, m + n)
  BY <1>2, CatAreTexts
<1>5. PICK f : IsRunOf(f, a, m)
  BY FlattenRun
<1>6. PICK h : IsRunOf(h, b, n)
  BY FlattenRun
<1>7. /\ f[0] = <<>> /\ f[m] = FlattenSeq(a) /\ \A i \in 1..m : f[i] = f[i - 1] \o a[i]
      /\ h[0] = <<>> /\ h[n] = FlattenSeq(b) /\ \A i \in 1..n : h[i] = h[i - 1] \o b[i]
      /\ IsText(f[m]) /\ \A i \in 0..n : IsText(h[i])
  BY <1>1, <1>5, <1>6 DEF IsRunOf
<1> DEFINE g == [i \in 0..m + n |-> IF i <= m THEN f[i] ELSE f[m] \o h[i - m]]
<1>8. /\ \A i \in 0..m : g[i] = f[i]
      /\ \A k \in 1..n : g[m + k] = f[m] \o h[k]
  <2>1. ASSUME NEW k \in 1..n PROVE g[m + k] = f[m] \o h[k]
    <3>1. PICK i \in 0..m + n : i = m + k /\ ~(i <= m) /\ i - m = k
      BY <1>1
    <3>2. g[i] = f[m] \o h[i - m]
      BY <3>1
    <3> HIDE DEF g
    <3> QED
      BY <3>1, <3>2
  <2>2. ASSUME NEW i \in 0..m PROVE g[i] = f[i]
    BY <1>1
  <2> QED
    BY <2>1, <2>2
<1> HIDE DEF g
<1>9. /\ g[0] = <<>>
      /\ \A k \in 0..n : g[m + k] = f[m] \o h[k]
  <2>1. g[m + 0] = f[m] \o h[0] /\ g[0] = <<>>
    <3>1. m + 0 = m /\ m \in 0..m /\ 0 \in 0..m
      BY <1>1
    <3>2. f[m] \o <<>> = f[m]
      BY <1>7, EmptyCat
    <3> QED
      BY <1>7, <1>8, <3>1, <3>2
  <2>2. ASSUME NEW k \in 0..n PROVE g[m + k] = f[m] \o h[k]
    <3>1. k = 0 \/ k \in 1..n
      BY <1>1
    <3> QED
      BY <1>8, <2>1, <3>1
  <2> QED
    BY <2>1, <2>2
<1>11. ASSUME NEW i \in 1..m + n PROVE g[i] = g[i - 1] \o u[i]
  <2>1. CASE i <= m
    <3>1. i \in 1..m /\ i - 1 \in 0..m /\ i \in 0..m
      BY <1>1, <2>1
    <3>2. u[i] = a[i]
      BY <1>3, <2>1
    <3> QED
      BY <1>7, <1>8, <3>1, <3>2
  <2>2. CASE i > m
    <3>1. PICK k \in 1..n : i = m + k
      <4>1. i - m \in 1..n /\ i = m + (i - m)
        BY <1>1, <2>2
      <4> QED
        BY <4>1
    <3>2. i - 1 = m + (k - 1) /\ k - 1 \in 0..n /\ i - m = k /\ k \in 0..n
      BY <1>1, <3>1
    <3>3. u[i] = b[k]
      BY <1>1, <1>3, <2>2, <3>2
    <3>4. (f[m] \o h[k - 1]) \o b[k] = f[m] \o (h[k - 1] \o b[k])
      <4>1. IsText(f[m]) /\ IsText(h[k - 1]) /\ IsText(b[k])
        BY <1>1, <1>7, <3>2
      <4>2. PICK x, y, z : x = f[m] /\ y = h[k - 1] /\ z = b[k]
        OBVIOUS
      <4>3. IsText(x) /\ IsText(y) /\ IsText(z)
        BY <4>1, <4>2
      <4>4. (x \o y) \o z = x \o (y \o z)
        BY <4>3, CatOfTexts
      <4> QED
        BY <4>2, <4>4
    <3>5. h[k] = h[k - 1] \o b[k]
      BY <1>7
    <3>6. g[i] = f[m] \o h[k] /\ g[i - 1] = f[m] \o h[k - 1]
      BY <1>9, <3>1, <3>2
    <3> QED
      BY <3>3, <3>4, <3>5, <3>6
  <2>3. i <= m \/ i > m
    BY <1>1
  <2> QED
    BY <2>1, <2>2, <2>3
<1>10. FlattenSeq(u) = g[m + n]
  <2>1. PICK p : p = m + n
    OBVIOUS
  <2>2. FlattenSeq(u) = g[p]
    BY <1>4, <1>9, <1>11, <2>1, FlattenIs
  <2> QED
    BY <2>1, <2>2
<1>12. g[m + n] = f[m] \o h[n]
  <2>1. n \in 0..n
    BY <1>1
  <2> QED
    BY <1>9, <2>1
<1> QED
  BY <1>2, <1>7, <1>10, <1>12

-------------------------------------------------------------------------------
(* Each token of a text replaced by another one or by a text. *)

Image(F, t) == [i \in DOMAIN t |-> F[t[i]]]

LEMMA TokensAreText == ASSUME NEW T, NEW t \in Seq(T) PROVE IsText(t)
BY DEF IsText

LEMMA CommonTokens ==
    ASSUME NEW s, NEW t, IsText(s), IsText(t)
    PROVE  \E T : s \in Seq(T) /\ t \in Seq(T)
<1>1. PICK S, T : s \in Seq(S) /\ t \in Seq(T)
  BY DEF IsText
<1>2. s \in Seq(S \cup T) /\ t \in Seq(S \cup T)
  BY <1>1, SeqMonotonic
<1> QED
  BY <1>2

LEMMA ImageIs ==
    ASSUME NEW F, NEW t, IsText(t)
    PROVE  IsText(Image(F, t)) /\ Len(Image(F, t)) = Len(t) /\ \A i \in 1..Len(t) : Image(F, t)[i] = F[t[i]]
<1>1. PICK n \in Nat : n = Len(t) /\ DOMAIN t = 1..n
  BY TextLen
<1>2. PICK a : a = Image(F, t)
  OBVIOUS
<1>3. a = [i \in 1..n |-> F[t[i]]]
  BY <1>1, <1>2 DEF Image
<1>4. a = [i \in 1..n |-> a[i]] /\ \A i \in 1..n : a[i] = F[t[i]]
  BY <1>3
<1> QED
  BY <1>1, <1>2, <1>4, Sized

LEMMA ImageCat ==
    ASSUME NEW F, NEW s, NEW t, IsText(s), IsText(t)
    PROVE  Image(F, s \o t) = Image(F, s) \o Image(F, t)
<1>1. PICK m, n : m = Len(s) /\ m \in Nat /\ n = Len(t) /\ n \in Nat
  BY TextLen
<1>2. PICK u : u = s \o t
  OBVIOUS
<1>3. IsText(u) /\ Len(u) = m + n /\ \A i \in 1..m + n : u[i] = IF i <= m THEN s[i] ELSE t[i - m]
  BY <1>1, <1>2, TextCat
<1>4. PICK a, b, c : a = Image(F, s) /\ b = Image(F, t) /\ c = Image(F, u)
  OBVIOUS
<1>5. /\ IsText(a) /\ Len(a) = m /\ \A i \in 1..m : a[i] = F[s[i]]
      /\ IsText(b) /\ Len(b) = n /\ \A i \in 1..n : b[i] = F[t[i]]
      /\ IsText(c) /\ Len(c) = m + n /\ \A i \in 1..m + n : c[i] = F[u[i]]
  BY <1>1, <1>3, <1>4, ImageIs
<1>6. PICK w : w = a \o b
  OBVIOUS
<1>7. IsText(w) /\ Len(w) = m + n /\ \A i \in 1..m + n : w[i] = IF i <= m THEN a[i] ELSE b[i - m]
  <2>1. IsText(a \o b) /\ Len(a \o b) = Len(a) + Len(b)
        /\ \A i \in 1..Len(a) + Len(b) : (a \o b)[i] = IF i <= Len(a) THEN a[i] ELSE b[i - Len(a)]
    BY <1>5, TextCat
  <2> QED
    BY <1>5, <1>6, <2>1
<1>8. ASSUME NEW i \in 1..m + n PROVE w[i] = c[i]
  <2>1. CASE i <= m
    <3>1. i \in 1..m
      BY <1>1, <2>1
    <3> QED
      BY <1>3, <1>5, <1>7, <2>1, <3>1
  <2>2. CASE ~(i <= m)
    <3>1. i - m \in 1..n
      BY <1>1, <2>2
    <3> QED
      BY <1>3, <1>5, <1>7, <2>2, <3>1
  <2> QED
    BY <2>1, <2>2
<1>9. w = [i \in 1..m + n |-> w[i]] /\ c = [i \in 1..m + n |-> c[i]]
  <2>1. w = [i \in 1..m + n |-> w[i]]
    <3>1. IsText(w) /\ Len(w) = m + n
      BY <1>7
    <3> QED
      BY <3>1 DEF IsText
  <2>2. c = [i \in 1..m + n |-> c[i]]
    <3>1. IsText(c) /\ Len(c) = m + n
      BY <1>5
    <3> QED
      BY <3>1 DEF IsText
  <2> QED
    BY <2>1, <2>2
<1>10. w = c
  BY <1>8, <1>9
<1> QED
  BY <1>2, <1>4, <1>6, <1>10

LEMMA ImagesAreTexts ==
    ASSUME NEW T, NEW F, \A x \in T : IsText(F[x]), NEW t \in Seq(T)
    PROVE  AreTexts(Image(F, t), Len(t))
<1>1. IsText(t) /\ Len(t) \in Nat /\ DOMAIN t = 1..Len(t) /\ \A i \in 1..Len(t) : t[i] \in T
  BY TokensAreText
<1>2. PICK a : a = Image(F, t)
  OBVIOUS
<1>3. IsText(a) /\ Len(a) = Len(t) /\ \A i \in 1..Len(t) : a[i] = F[t[i]]
  BY <1>1, <1>2, ImageIs
<1>4. a = [i \in 1..Len(t) |-> a[i]]
  BY <1>3 DEF IsText
<1> QED
  BY <1>1, <1>2, <1>3, <1>4 DEF AreTexts

LEMMA ImageFlattens ==
    ASSUME NEW T, NEW F, \A x \in T : IsText(F[x]), NEW s \in Seq(T), NEW t \in Seq(T)
    PROVE  FlattenSeq(Image(F, s \o t)) = FlattenSeq(Image(F, s)) \o FlattenSeq(Image(F, t))
<1>1. IsText(s) /\ IsText(t)
  BY TokensAreText
<1>2. PICK m, n : m = Len(s) /\ m \in Nat /\ n = Len(t) /\ n \in Nat
  BY <1>1, TextLen
<1>3. PICK a, b : a = Image(F, s) /\ b = Image(F, t)
  OBVIOUS
<1>4. AreTexts(a, m) /\ AreTexts(b, n)
  BY <1>2, <1>3, ImagesAreTexts
<1>5. FlattenSeq(a \o b) = FlattenSeq(a) \o FlattenSeq(b)
  BY <1>2, <1>4, FlattenCat
<1>6. Image(F, s \o t) = a \o b
  BY <1>1, <1>3, ImageCat
<1> QED
  BY <1>3, <1>5, <1>6

-------------------------------------------------------------------------------
(* DataShown and \o. *)

\* What each token shows.
ShownOf(t) == [i \in DOMAIN t |-> Optional(DatumShown(t[i]), <<t[i][2]>>)]

LEMMA ShownTexts ==
    ASSUME NEW t, IsText(t)
    PROVE  AreTexts(ShownOf(t), Len(t)) /\ DataShown(t) = FlattenSeq(ShownOf(t))
<1>1. PICK n : n = Len(t) /\ n \in Nat /\ DOMAIN t = 1..n
  BY TextLen
<1>2. ASSUME NEW i \in 1..n PROVE IsText(ShownOf(t)[i])
  <2>1. PICK x : x = t[i][2]
    OBVIOUS
  <2>2. ShownOf(t)[i] = <<x>> \/ ShownOf(t)[i] = <<>>
    BY <1>1, <2>1 DEF ShownOf, Optional
  <2>3. IsText(<<x>>) /\ IsText(<<>>)
    BY TextOne, TextEmpty
  <2> QED
    BY <2>2, <2>3
<1>3. ShownOf(t) = [i \in 1..n |-> ShownOf(t)[i]]
  BY <1>1 DEF ShownOf
<1>4. AreTexts(ShownOf(t), n)
  BY <1>1, <1>2, <1>3 DEF AreTexts
<1> QED
  BY <1>1, <1>4 DEF DataShown, ShownOf

LEMMA DataIsText == ASSUME NEW t, IsText(t) PROVE IsText(DataShown(t))
<1>1. PICK n : AreTexts(ShownOf(t), n)
  BY ShownTexts
<1> QED
  BY <1>1, ShownTexts, FlattenIsText

LEMMA DataOfNothing == DataShown(<<>>) = <<>>
<1>1. IsText(<<>>) /\ Len(<<>>) = 0
  BY TextEmpty
<1>2. IsText(ShownOf(<<>>)) /\ Len(ShownOf(<<>>)) = 0
  BY <1>1, ShownTexts, Sized DEF AreTexts
<1>3. ShownOf(<<>>) = <<>>
  BY <1>2, EmptyText
<1> QED
  BY <1>1, <1>3, ShownTexts, FlattenNothing

LEMMA DataCat ==
    ASSUME NEW s, NEW t, IsText(s), IsText(t)
    PROVE  DataShown(s \o t) = DataShown(s) \o DataShown(t)
<1>1. PICK T : s \in Seq(T) /\ t \in Seq(T)
  BY CommonTokens
<1>2. PICK F : F = [x \in T |-> Optional(DatumShown(x), <<x[2]>>)]
  OBVIOUS
<1>3. ASSUME NEW v \in Seq(T) PROVE DataShown(v) = FlattenSeq(Image(F, v))
  <2>1. DOMAIN v = 1..Len(v) /\ \A i \in 1..Len(v) : v[i] \in T
    OBVIOUS
  <2>2. \A i \in DOMAIN v : F[v[i]] = Optional(DatumShown(v[i]), <<v[i][2]>>)
    BY <1>2, <2>1
  <2>3. ShownOf(v) = Image(F, v)
    BY <2>2 DEF ShownOf, Image
  <2> QED
    BY <2>3, TokensAreText, ShownTexts
<1>4. ASSUME NEW x \in T PROVE IsText(F[x])
  <2>1. PICK y : y = x[2]
    OBVIOUS
  <2>2. F[x] = <<y>> \/ F[x] = <<>>
    BY <1>2, <2>1 DEF Optional
  <2> QED
    BY <2>2, TextOne, TextEmpty
<1>5. FlattenSeq(Image(F, s \o t)) = FlattenSeq(Image(F, s)) \o FlattenSeq(Image(F, t))
  BY <1>1, <1>4, ImageFlattens
<1>6. s \o t \in Seq(T)
  BY <1>1, ConcatProperties
<1> QED
  BY <1>1, <1>3, <1>5, <1>6

\* What texts behind one another show.
LEMMA DataOfAll ==
    ASSUME NEW n, NEW s, AreTexts(s, n), NEW d, d = [i \in 1..n |-> DataShown(s[i])]
    PROVE  AreTexts(d, n) /\ DataShown(FlattenSeq(s)) = FlattenSeq(d)
<1>1. n \in Nat /\ \A i \in 1..n : IsText(s[i])
  BY DEF AreTexts
<1>2. AreTexts(d, n)
  <2>1. \A i \in 1..n : IsText(d[i])
    BY <1>1, DataIsText
  <2>2. d = [i \in 1..n |-> d[i]]
    OBVIOUS
  <2> QED
    BY <1>1, <2>1, <2>2 DEF AreTexts
<1>3. PICK f : IsRunOf(f, s, n)
  BY FlattenRun
<1>4. /\ f[0] = <<>> /\ f[n] = FlattenSeq(s)
      /\ \A i \in 1..n : f[i] = f[i - 1] \o s[i]
      /\ \A i \in 0..n : IsText(f[i])
  BY <1>3 DEF IsRunOf
<1> DEFINE g == [i \in 0..n |-> DataShown(f[i])]
<1>5. g[0] = <<>> /\ g[n] = DataShown(f[n])
  BY <1>1, <1>4, DataOfNothing
<1>6. ASSUME NEW i \in 1..n PROVE g[i] = g[i - 1] \o d[i]
  <2>1. PICK x, y : x = f[i - 1] /\ y = s[i]
    OBVIOUS
  <2>2. i - 1 \in 0..n /\ i \in 0..n
    BY <1>1
  <2>3. IsText(x) /\ IsText(y)
    BY <1>1, <1>4, <2>1, <2>2
  <2>4. DataShown(x \o y) = DataShown(x) \o DataShown(y)
    BY <2>3, DataCat
  <2>5. g[i] = DataShown(f[i]) /\ g[i - 1] = DataShown(x) /\ d[i] = DataShown(y) /\ f[i] = x \o y
    BY <1>4, <2>1, <2>2
  <2> HIDE DEF g
  <2> QED
    BY <2>4, <2>5
<1> HIDE DEF g
<1>7. FlattenSeq(d) = g[n]
  BY <1>2, <1>5, <1>6, FlattenIs
<1> QED
  BY <1>2, <1>4, <1>5, <1>7

-------------------------------------------------------------------------------
(* What a text may show, and what it shows. *)

\* If t shows data at all, it does so in a precision that was asked for.
Allowed(t, data, want) ==
    IsText(t) /\ \A i \in 1..Len(t) : DatumShown(t[i]) => data /\ AsWished(t[i], want)

Silent(t) == Allowed(t, FALSE, NoWish)

LEMMA AllowedNothing == ASSUME NEW data, NEW want PROVE Allowed(<<>>, data, want)
<1>1. IsText(<<>>) /\ Len(<<>>) = 0
  BY TextEmpty
<1> QED
  BY <1>1 DEF Allowed

LEMMA AllowedOne ==
    ASSUME NEW x, NEW data, NEW want, DatumShown(x) => data /\ AsWished(x, want)
    PROVE  Allowed(<<x>>, data, want)
<1>1. IsText(<<x>>) /\ Len(<<x>>) = 1
  BY TextOne
<1>2. ASSUME NEW i \in 1..1 PROVE <<x>>[i] = x
  OBVIOUS
<1> QED
  BY <1>1, <1>2 DEF Allowed

LEMMA AllowedCat ==
    ASSUME NEW s, NEW t, NEW data, NEW want, Allowed(s, data, want), Allowed(t, data, want)
    PROVE  Allowed(s \o t, data, want)
<1>1. IsText(s) /\ IsText(t)
  BY DEF Allowed
<1>2. PICK m, n : m = Len(s) /\ m \in Nat /\ n = Len(t) /\ n \in Nat
  BY <1>1, TextLen
<1>3. PICK u : u = s \o t
  OBVIOUS
<1>4. IsText(u) /\ Len(u) = m + n /\ \A i \in 1..m + n : u[i] = IF i <= m THEN s[i] ELSE t[i - m]
  BY <1>1, <1>2, <1>3, TextCat
<1>5. ASSUME NEW i \in 1..m + n, DatumShown(u[i]) PROVE data /\ AsWished(u[i], want)
  <2>1. CASE i <= m
    <3>1. i \in 1..m /\ u[i] = s[i]
      BY <1>2, <1>4, <2>1
    <3> QED
      BY <1>2, <1>5, <3>1 DEF Allowed
  <2>2. CASE ~(i <= m)
    <3>1. i - m \in 1..n
      BY <1>2, <2>2
    <3>2. u[i] = t[i - m]
      BY <1>4, <2>2
    <3> QED
      BY <1>2, <1>5, <3>1, <3>2 DEF Allowed
  <2> QED
    BY <2>1, <2>2
<1>6. Allowed(u, data, want)
  BY <1>4, <1>5 DEF Allowed
<1> QED
  BY <1>3, <1>6

LEMMA AllowedAll ==
    ASSUME NEW n \in Nat, NEW s, s = [i \in 1..n |-> s[i]], NEW data, NEW want,
           \A i \in 1..n : Allowed(s[i], data, want)
    PROVE  Allowed(FlattenSeq(s), data, want)
<1>1. AreTexts(s, n)
  BY DEF AreTexts, Allowed
<1>2. PICK f : IsRunOf(f, s, n)
  BY <1>1, FlattenRun
<1>3. f[0] = <<>> /\ f[n] = FlattenSeq(s) /\ \A i \in 1..n : f[i] = f[i - 1] \o s[i]
  BY <1>2 DEF IsRunOf
<1> DEFINE P == {i \in Nat : i <= n => Allowed(f[i], data, want)}
<1>4. 0 \in P
  BY <1>3, AllowedNothing
<1>5. ASSUME NEW i \in Nat, i \in P PROVE i + 1 \in P
  <2> SUFFICES ASSUME i + 1 <= n PROVE Allowed(f[i + 1], data, want)
    OBVIOUS
  <2>1. PICK j \in 1..n : j = i + 1 /\ j - 1 = i
    OBVIOUS
  <2>2. Allowed(f[j - 1], data, want)
    BY <1>5, <2>1
  <2>3. Allowed(f[j - 1] \o s[j], data, want)
    BY <2>2, AllowedCat
  <2> QED
    BY <1>3, <2>1, <2>3
<1> HIDE DEF P
<1>6. n \in P
  BY <1>4, <1>5, Induction
<1> QED
  BY <1>3, <1>6 DEF P

LEMMA SilentIsAllowed == ASSUME NEW t, NEW data, NEW want, Silent(t) PROVE Allowed(t, data, want)
BY DEF Silent, Allowed

LEMMA SilentShowsNothing == ASSUME NEW t, Silent(t) PROVE DataShown(t) = <<>>
<1>1. IsText(t) /\ \A i \in 1..Len(t) : ~DatumShown(t[i])
  BY DEF Silent, Allowed
<1>2. PICK n : n = Len(t) /\ n \in Nat /\ DOMAIN t = 1..n
  BY <1>1, TextLen
<1>3. PICK s : s = ShownOf(t)
  OBVIOUS
<1>4. AreTexts(s, n) /\ DataShown(t) = FlattenSeq(s)
  BY <1>1, <1>2, <1>3, ShownTexts
<1>5. \A i \in 1..n : s[i] = <<>>
  BY <1>1, <1>2, <1>3 DEF ShownOf, Optional
<1> DEFINE g == [i \in 0..n |-> <<>>]
<1>6. g[0] = <<>> /\ g[n] = <<>> /\ \A i \in 1..n : g[i] = <<>> /\ g[i - 1] = <<>>
  BY <1>2
<1>7. <<>> \o <<>> = <<>>
  BY TextEmpty, EmptyCat
<1> HIDE DEF g
<1>8. \A i \in 1..n : g[i] = g[i - 1] \o s[i]
  BY <1>5, <1>6, <1>7
<1>9. FlattenSeq(s) = g[n]
  BY <1>4, <1>6, <1>8, FlattenIs
<1> QED
  BY <1>4, <1>6, <1>9

\* t shows data, provided that it fits, and in a precision that was asked for in any case.
Shows(t, fit, data, want) == Allowed(t, TRUE, want) /\ (fit => DataShown(t) = data)

LEMMA ShowsNothing == ASSUME NEW t, NEW fit, NEW want, Silent(t) PROVE Shows(t, fit, <<>>, want)
BY SilentIsAllowed, SilentShowsNothing DEF Shows

LEMMA ShowsCat ==
    ASSUME NEW s, NEW t, NEW fit, NEW d, NEW e, NEW want, Shows(s, fit, d, want), Shows(t, fit, e, want)
    PROVE  Shows(s \o t, fit, d \o e, want)
<1>1. Allowed(s, TRUE, want) /\ Allowed(t, TRUE, want)
  BY DEF Shows
<1>2. Allowed(s \o t, TRUE, want)
  BY <1>1, AllowedCat
<1>3. IsText(s) /\ IsText(t)
  BY <1>1 DEF Allowed
<1>4. DataShown(s \o t) = DataShown(s) \o DataShown(t)
  BY <1>3, DataCat
<1>5. fit => DataShown(s) = d /\ DataShown(t) = e
  BY DEF Shows
<1> QED
  BY <1>2, <1>4, <1>5 DEF Shows

LEMMA ShowsBehind ==
    ASSUME NEW s, NEW t, NEW fit, NEW d, NEW want, Silent(s), Shows(t, fit, d, want)
    PROVE  Shows(s \o t, fit, d, want)
<1>1. Allowed(s, TRUE, want) /\ Allowed(t, TRUE, want) /\ DataShown(s) = <<>>
  BY SilentIsAllowed, SilentShowsNothing DEF Shows
<1>2. Allowed(s \o t, TRUE, want)
  BY <1>1, AllowedCat
<1>3. IsText(s) /\ IsText(t)
  BY <1>1 DEF Allowed
<1>4. DataShown(s \o t) = <<>> \o DataShown(t)
  BY <1>1, <1>3, DataCat
<1>5. <<>> \o DataShown(t) = DataShown(t)
  BY <1>3, DataIsText, EmptyCat
<1> QED
  BY <1>2, <1>4, <1>5 DEF Shows

LEMMA ShowsBefore ==
    ASSUME NEW s, NEW t, NEW fit, NEW d, NEW want, Silent(t), Shows(s, fit, d, want)
    PROVE  Shows(s \o t, fit, d, want)
<1>1. Allowed(s, TRUE, want) /\ Allowed(t, TRUE, want) /\ DataShown(t) = <<>>
  BY SilentIsAllowed, SilentShowsNothing DEF Shows
<1>2. Allowed(s \o t, TRUE, want)
  BY <1>1, AllowedCat
<1>3. IsText(s) /\ IsText(t)
  BY <1>1 DEF Allowed
<1>4. DataShown(s \o t) = DataShown(s) \o <<>>
  BY <1>1, <1>3, DataCat
<1>5. DataShown(s) \o <<>> = DataShown(s)
  BY <1>3, DataIsText, EmptyCat
<1> QED
  BY <1>2, <1>4, <1>5 DEF Shows

LEMMA SilentCat == ASSUME NEW s, NEW t, Silent(s), Silent(t) PROVE Silent(s \o t)
BY AllowedCat DEF Silent

LEMMA SilentOptional == ASSUME NEW c, NEW t, c => Silent(t) PROVE Silent(Optional(c, t))
BY AllowedNothing DEF Silent, Optional

\* Each part may have data of its own, that fits or not.
LEMMA ShowsAll ==
    ASSUME NEW n \in Nat, NEW s, s = [i \in 1..n |-> s[i]], NEW fit, NEW d, d = [i \in 1..n |-> d[i]],
           NEW want, \A i \in 1..n : Shows(s[i], fit, d[i], want)
    PROVE  Shows(FlattenSeq(s), fit, FlattenSeq(d), want)
<1>1. Allowed(FlattenSeq(s), TRUE, want)
  BY AllowedAll DEF Shows
<1>2. ASSUME fit PROVE DataShown(FlattenSeq(s)) = FlattenSeq(d)
  <2>1. AreTexts(s, n)
    BY DEF AreTexts, Allowed, Shows
  <2>2. PICK e : e = [i \in 1..n |-> DataShown(s[i])]
    OBVIOUS
  <2>3. \A i \in 1..n : e[i] = d[i]
    BY <1>2, <2>2 DEF Shows
  <2>4. d = e
    BY <2>2, <2>3
  <2> QED
    BY <2>1, <2>2, <2>4, DataOfAll
<1> QED
  BY <1>1, <1>2 DEF Shows

LEMMA ListParts ==
    ASSUME NEW parts, IsText(parts)
    PROVE  \E n \in Nat : \E s : /\ n = Len(parts) /\ DOMAIN parts = 1..n
                                 /\ s = [i \in 1..n |-> Optional(i > 1, Comma) \o parts[i]]
                                 /\ Listed(parts) = FlattenSeq(s)
<1>1. PICK n \in Nat : n = Len(parts) /\ DOMAIN parts = 1..n
  BY TextLen
<1>2. PICK s : s = [i \in 1..n |-> Optional(i > 1, Comma) \o parts[i]]
  OBVIOUS
<1>3. Listed(parts) = FlattenSeq(s)
  BY <1>1, <1>2 DEF Listed
<1> QED
  BY <1>1, <1>2, <1>3

LEMMA SilentToken ==
    ASSUME NEW x, ~DatumShown(x)
    PROVE  Silent(<<x>>)
BY AllowedOne DEF Silent

LEMMA SilentMarks ==
    /\ Silent(LBrace) /\ Silent(RBrace) /\ Silent(LBracket) /\ Silent(RBracket)
    /\ Silent(Comma) /\ Silent(Broken)
BY SilentToken DEF LBrace, RBrace, LBracket, RBracket, Comma, Broken, DatumShown

LEMMA SilentKey == ASSUME NEW k PROVE Silent(Key(k))
BY SilentToken DEF Key, DatumShown

LEMMA SilentValue ==
    ASSUME NEW of, NEW as, of[2] \notin {"read", "set", "pipe"}
    PROVE  Silent(Value(of, as))
BY SilentToken DEF Value, DatumShown

LEMMA SilentPlain == Silent(Plain)
BY SilentValue DEF Plain, Own

LEMMA SilentField == ASSUME NEW k PROVE Silent(Field(k))
BY SilentKey, SilentPlain, SilentCat DEF Field

LEMMA SilentQuoted == ASSUME NEW content PROVE Silent(Quoted(content, Own))
BY SilentPlain, SilentMarks DEF Quoted, Plain

LEMMA AllowedListed ==
    ASSUME NEW parts, IsText(parts), NEW data, NEW want,
           \A i \in 1..Len(parts) : Allowed(parts[i], data, want)
    PROVE  Allowed(Listed(parts), data, want)
<1>0. PICK n \in Nat : \E s : /\ n = Len(parts)
                              /\ s = [i \in 1..n |-> Optional(i > 1, Comma) \o parts[i]]
                              /\ Listed(parts) = FlattenSeq(s)
  BY ListParts
<1>1. PICK s : /\ n = Len(parts)
               /\ s = [i \in 1..n |-> Optional(i > 1, Comma) \o parts[i]]
               /\ Listed(parts) = FlattenSeq(s)
  BY <1>0
<1>2. ASSUME NEW i \in 1..n PROVE Allowed(s[i], data, want)
  <2>1. Silent(Optional(i > 1, Comma))
    BY SilentMarks, SilentOptional
  <2>2. Allowed(Optional(i > 1, Comma), data, want)
    BY <2>1, SilentIsAllowed
  <2>3. Allowed(Optional(i > 1, Comma) \o parts[i], data, want)
    BY <1>1, <2>2, AllowedCat
  <2> QED
    BY <1>1, <2>3
<1>3. s = [i \in 1..n |-> s[i]]
  BY <1>1
<1>4. Allowed(FlattenSeq(s), data, want)
  BY <1>2, <1>3, AllowedAll
<1> QED
  BY <1>1, <1>4

LEMMA SilentListed ==
    ASSUME NEW parts, IsText(parts), \A i \in 1..Len(parts) : Silent(parts[i])
    PROVE  Silent(Listed(parts))
BY AllowedListed DEF Silent

LEMMA ShowsListed ==
    ASSUME NEW parts, IsText(parts), NEW fit, NEW d, d = [i \in 1..Len(parts) |-> d[i]], NEW want,
           \A i \in 1..Len(parts) : Shows(parts[i], fit, d[i], want)
    PROVE  Shows(Listed(parts), fit, FlattenSeq(d), want)
<1>0. PICK n \in Nat : \E s : /\ n = Len(parts)
                              /\ s = [i \in 1..n |-> Optional(i > 1, Comma) \o parts[i]]
                              /\ Listed(parts) = FlattenSeq(s)
  BY ListParts
<1>1. PICK s : /\ n = Len(parts)
               /\ s = [i \in 1..n |-> Optional(i > 1, Comma) \o parts[i]]
               /\ Listed(parts) = FlattenSeq(s)
  BY <1>0
<1>2. ASSUME NEW i \in 1..n PROVE Shows(s[i], fit, d[i], want)
  <2>1. Silent(Optional(i > 1, Comma))
    BY SilentMarks, SilentOptional
  <2>2. Shows(parts[i], fit, d[i], want)
    BY <1>1
  <2>3. Shows(Optional(i > 1, Comma) \o parts[i], fit, d[i], want)
    BY <2>1, <2>2, ShowsBehind
  <2> QED
    BY <1>1, <2>3
<1>3. s = [i \in 1..n |-> s[i]] /\ d = [i \in 1..n |-> d[i]]
  BY <1>1
<1>4. Shows(FlattenSeq(s), fit, FlattenSeq(d), want)
  BY <1>2, <1>3, ShowsAll
<1> QED
  BY <1>1, <1>4

LEMMA FirstAndNext ==
    ASSUME NEW m \in Nat, NEW s
    PROVE  [j \in 1..m |-> s[j]] \o <<s[m + 1]>> = [j \in 1..m + 1 |-> s[j]]
<1>1. PICK x : x = [j \in 1..m |-> s[j]]
  OBVIOUS
<1>2. PICK y : y = [j \in 1..m + 1 |-> s[j]]
  OBVIOUS
<1>3. PICK z : z = <<s[m + 1]>>
  OBVIOUS
<1>5. IsText(x) /\ Len(x) = m
  BY <1>1, Sized
<1>6. IsText(y) /\ Len(y) = m + 1 /\ DOMAIN y = 1..m + 1
  BY <1>2, Sized
<1>7. IsText(z) /\ Len(z) = 1 /\ z[1] = s[m + 1]
  BY <1>3, TextOne
<1>8. IsText(x \o z) /\ Len(x \o z) = m + 1
      /\ \A k \in 1..m + 1 : (x \o z)[k] = IF k <= m THEN x[k] ELSE z[k - m]
  <2>1. IsText(x \o z) /\ Len(x \o z) = Len(x) + Len(z)
        /\ \A k \in 1..Len(x) + Len(z) : (x \o z)[k] = IF k <= Len(x) THEN x[k] ELSE z[k - Len(x)]
    BY <1>5, <1>7, TextCat
  <2> QED
    BY <1>5, <1>7, <2>1
<1>9. PICK w : w = x \o z
  OBVIOUS
<1>10. ASSUME NEW k \in 1..m + 1 PROVE w[k] = y[k]
  <2>1. y[k] = s[k]
    BY <1>2
  <2>2. CASE k <= m
    <3>1. x[k] = s[k]
      BY <1>1, <2>2
    <3> QED
      BY <1>8, <1>9, <2>1, <2>2, <3>1
  <2>3. CASE ~(k <= m)
    <3>1. k = m + 1 /\ k - m = 1
      BY <2>3
    <3> QED
      BY <1>7, <1>8, <1>9, <2>1, <2>3, <3>1
  <2> QED
    BY <2>2, <2>3
<1>11. w = [k \in 1..m + 1 |-> w[k]]
  <2>1. IsText(w) /\ Len(w) = m + 1
    BY <1>8, <1>9
  <2> QED
    BY <2>1 DEF IsText
<1>12. y = [k \in 1..m + 1 |-> y[k]]
  BY <1>2
<1>13. w = y
  BY <1>10, <1>11, <1>12
<1> QED
  BY <1>1, <1>2, <1>3, <1>9, <1>13

LEMMA FlattenSingles ==
    ASSUME NEW n \in Nat, NEW s, NEW t, AreTexts(t, n), \A i \in 1..n : t[i] = <<s[i]>>
    PROVE  FlattenSeq(t) = [j \in 1..n |-> s[j]]
<1> DEFINE g == [i \in 0..n |-> [j \in 1..i |-> s[j]]]
<1>1. g[0] = <<>>
  OBVIOUS
<1>2. g[n] = [j \in 1..n |-> s[j]]
  OBVIOUS
<1>3. ASSUME NEW i \in 1..n PROVE g[i] = g[i - 1] \o t[i]
  <2>1. PICK m \in Nat : m = i - 1 /\ i = m + 1 /\ m \in 0..n
    OBVIOUS
  <2>2. g[m] = [j \in 1..m |-> s[j]] /\ g[m + 1] = [j \in 1..m + 1 |-> s[j]]
    BY <2>1
  <2> HIDE DEF g
  <2>3. t[m + 1] = <<s[m + 1]>>
    BY <2>1
  <2> QED
    BY <2>1, <2>2, <2>3, FirstAndNext
<1>4. \A i \in 1..n : g[i] = g[i - 1] \o t[i]
  BY <1>3
<1> HIDE DEF g
<1>5. FlattenSeq(t) = g[n]
  BY <1>1, <1>4, FlattenIs
<1> QED
  BY <1>2, <1>5

-------------------------------------------------------------------------------
(* The values of attributes and pipes. *)

\* A value of an attribute or a pipe, with a precision that was asked for its name.
Due(of, opt, want) == of[2] \in {"read", "set", "pipe"} /\ AsWished(<<"value", of, opt>>, want)

LEMMA DueAnyway == ASSUME NEW of, NEW opt, NEW want, Due(of, opt, want) PROVE Due(of, "", want)
BY DEF Due, AsWished

LEMMA DataOfOne == ASSUME NEW x, DatumShown(x) PROVE DataShown(<<x>>) = <<x[2]>>
<1>1. PICK t : t = <<x>>
  OBVIOUS
<1>2. IsText(t) /\ Len(t) = 1 /\ t[1] = x /\ DOMAIN t = 1..1
  BY <1>1, TextOne, TextLen
<1>3. PICK f : f = ShownOf(t)
  OBVIOUS
<1>4. AreTexts(f, 1) /\ DataShown(t) = FlattenSeq(f)
  BY <1>2, <1>3, ShownTexts
<1>5. PICK s : s = <<x[2]>>
  OBVIOUS
<1>6. s[1] = x[2]
  BY <1>5
<1>7. PICK n \in Nat : n = 1
  OBVIOUS
<1>10. AreTexts(f, n) /\ \A i \in 1..n : f[i] = <<s[i]>>
  BY <1>2, <1>3, <1>4, <1>6, <1>7 DEF ShownOf, Optional
<1>11. FlattenSeq(f) = [j \in 1..n |-> s[j]]
  BY <1>7, <1>10, FlattenSingles
<1>8. FlattenSeq(f) = [j \in 1..1 |-> s[j]]
  BY <1>7, <1>11
<1>9. s = [j \in 1..1 |-> s[j]]
  BY <1>5
<1> QED
  BY <1>1, <1>4, <1>5, <1>8, <1>9

LEMMA ShowsUnfit ==
    ASSUME NEW t, NEW fit, NEW d, NEW want, Silent(t), ~fit
    PROVE  Shows(t, fit, d, want)
BY SilentIsAllowed DEF Shows

LEMMA ShowsLess ==
    ASSUME NEW t, NEW fit, NEW less, NEW d, NEW want, Shows(t, fit, d, want), less => fit
    PROVE  Shows(t, less, d, want)
BY DEF Shows

LEMMA OneValueShown ==
    ASSUME NEW of, NEW as, NEW want, NEW fit, Due(of, as, want)
    PROVE  Shows(Value(of, as), fit, <<of>>, want)
<1>1. PICK x : x = <<"value", of, as>>
  OBVIOUS
<1>2. DatumShown(x) /\ AsWished(x, want) /\ x[2] = of
  BY <1>1 DEF Due, DatumShown
<1>3. Allowed(<<x>>, TRUE, want) /\ DataShown(<<x>>) = <<of>>
  BY <1>2, AllowedOne, DataOfOne
<1> QED
  BY <1>1, <1>3 DEF Value, Shows

LEMMA DataValueShown ==
    ASSUME NEW type, NEW content, NEW of, NEW opt, NEW want, Due(of, opt, want)
    PROVE  Shows(DataValueToStr(type, content, of, opt, FALSE), FitValue(type, content, FALSE), <<of>>, want)
<1> DEFINE t == DataValueToStr(type, content, of, opt, FALSE)
<1>1. \/ t = Value(of, opt) \/ t = Value(of, "")
      \/ t = Broken /\ ~FitValue(type, content, FALSE)
  BY DEF DataValueToStr, FloatToStr, Quoted, FitValue
<1>2. ASSUME NEW fit PROVE Shows(Value(of, opt), fit, <<of>>, want) /\ Shows(Value(of, ""), fit, <<of>>, want)
  BY OneValueShown, DueAnyway
<1> HIDE DEF t
<1>3. Allowed(t, TRUE, want)
  BY <1>1, <1>2, SilentMarks, SilentIsAllowed DEF Shows
<1>4. ASSUME FitValue(type, content, FALSE) PROVE DataShown(t) = <<of>>
  BY <1>1, <1>2, <1>4 DEF Shows
<1> QED
  BY <1>3, <1>4 DEF Shows, t

LEMMA DataArrayShown ==
    ASSUME NEW type, NEW content, NEW ofs, NEW opt, NEW want, IsText(ofs),
           \A i \in 1..Len(ofs) : Due(ofs[i], opt, want)
    PROVE  Shows(DataArrayToStr(type, content, ofs, opt, FALSE), FitValue(type, content, FALSE), ofs, want)
<1>1. PICK n \in Nat : n = Len(ofs) /\ DOMAIN ofs = 1..n
  BY TextLen
<1>2. PICK parts : parts = [i \in 1..n |-> DataValueToStr(type, content, ofs[i], opt, FALSE)]
  OBVIOUS
<1>3. DataArrayToStr(type, content, ofs, opt, FALSE) = LBracket \o Listed(parts) \o RBracket
  BY <1>1, <1>2 DEF DataArrayToStr
<1>4. PICK fit : fit = FitValue(type, content, FALSE)
  OBVIOUS
<1>5. PICK d : d = [i \in 1..n |-> <<ofs[i]>>]
  OBVIOUS
<1>6. \A i \in 1..n : Shows(parts[i], fit, d[i], want)
  BY <1>1, <1>2, <1>4, <1>5, DataValueShown
<1>7. IsText(parts) /\ Len(parts) = n
  BY <1>2, Sized
<1>8. d = [i \in 1..n |-> d[i]] /\ \A i \in 1..n : d[i] = <<ofs[i]>>
  BY <1>5
<1>9. Shows(Listed(parts), fit, FlattenSeq(d), want)
  BY <1>6, <1>7, <1>8, ShowsListed
<1>10. AreTexts(d, n)
  <2>1. \A i \in 1..n : IsText(d[i])
    BY <1>8, TextOne
  <2> QED
    BY <1>8, <2>1 DEF AreTexts
<1>11. FlattenSeq(d) = [j \in 1..n |-> ofs[j]]
  BY <1>8, <1>10, FlattenSingles
<1>12. ofs = [j \in 1..n |-> ofs[j]]
  BY <1>1 DEF IsText
<1>13. Shows(Listed(parts), fit, ofs, want)
  BY <1>9, <1>11, <1>12
<1>14. Shows(LBracket \o Listed(parts) \o RBracket, fit, ofs, want)
  BY <1>13, ShowsBehind, ShowsBefore, SilentMarks
<1> QED
  BY <1>3, <1>4, <1>14

LEMMA ValuesAre ==
    ASSUME NEW n, NEW part, NEW count \in Nat
    PROVE  /\ IsText(Values(n, part, count)) /\ Len(Values(n, part, count)) = count
           /\ \A i \in 1..count : Values(n, part, count)[i] = <<n, part, i>>
<1>1. IsText(Values(n, part, count)) /\ Len(Values(n, part, count)) = count
  BY ValuesAreText
<1>2. \A i \in 1..count : Values(n, part, count)[i] = <<n, part, i>>
  BY DEF Values
<1> QED
  BY <1>1, <1>2

LEMMA NoValues == ASSUME NEW n, NEW part PROVE Values(n, part, 0) = <<>>
BY DEF Values

LEMMA SingleValue == ASSUME NEW n, NEW part PROVE Values(n, part, 1) = << <<n, part, 1>> >>
<1>1. Values(n, part, 1) = [i \in 1..1 |-> <<n, part, 1>>]
  BY DEF Values
<1> QED
  BY <1>1

\* A precision that was asked for the attribute, or none.
Asks(n, opt, want) == opt # "" => opt \in Wished(want.attrs, n)

LEMMA AttributeDue ==
    ASSUME NEW n, NEW part \in {"read", "set"}, NEW i, NEW opt, NEW want, Asks(n, opt, want)
    PROVE  Due(<<n, part, i>>, opt, want)
BY DEF Asks, Due, AsWished

LEMMA ValuesShown ==
    ASSUME NEW d, NEW n, NEW part \in {"read", "set"}, NEW count \in Nat, NEW opt, NEW want,
           Asks(n, opt, want)
    PROVE  Shows(DataArrayToStr(d.type, d.content, Values(n, part, count), opt, FALSE),
                 FitValue(d.type, d.content, FALSE), Values(n, part, count), want)
<1>1. PICK ofs : ofs = Values(n, part, count)
  OBVIOUS
<1>2. IsText(ofs) /\ Len(ofs) = count /\ \A i \in 1..count : ofs[i] = <<n, part, i>>
  BY <1>1, ValuesAre
<1>3. \A i \in 1..Len(ofs) : Due(ofs[i], opt, want)
  BY <1>2, AttributeDue
<1> QED
  BY <1>1, <1>2, <1>3, DataArrayShown

SetToShow(n, d) ==
    IF d.type = "uchar" \/ (d.type = "state" /\ d.format = "SCALAR") THEN <<>> ELSE Values(n, "set", d.set)

LEMMA SetPartShown ==
    ASSUME NEW n, NEW d \in DatumRecord, d.format = "SCALAR" => d.set <= 1, NEW opt, NEW want,
           Asks(n, opt, want)
    PROVE  Shows(SetPart(n, d, opt, FALSE), FitValue(d.type, d.content, FALSE), SetToShow(n, d), want)
<1> DEFINE one == DataValueToStr(d.type, d.content, <<n, "set", 1>>, opt, FALSE)
           list == DataArrayToStr(d.type, d.content, Values(n, "set", d.set), opt, FALSE)
<1>1. PICK fit : fit = FitValue(d.type, d.content, FALSE)
  OBVIOUS
<1>2. d.set \in Nat
  BY DEF DatumRecord
<1>3. Shows(one, fit, << <<n, "set", 1>> >>, want)
  BY <1>1, AttributeDue, DataValueShown
<1>4. Shows(list, fit, Values(n, "set", d.set), want)
  BY <1>1, <1>2, ValuesShown
<1>5. Silent(Comma \o Key("set"))
  BY SilentMarks, SilentKey, SilentCat
<1>6. Shows(<<>>, fit, <<>>, want)
  BY AllowedNothing, ShowsNothing DEF Silent
<1>7. \/ SetPart(n, d, opt, FALSE) = <<>> /\ SetToShow(n, d) = <<>>
      \/ SetPart(n, d, opt, FALSE) = Comma \o Key("set") \o one /\ SetToShow(n, d) = Values(n, "set", 1)
      \/ SetPart(n, d, opt, FALSE) = Comma \o Key("set") \o list /\ SetToShow(n, d) = Values(n, "set", d.set)
  <2>1. CASE d.type = "uchar" \/ (d.type = "state" /\ d.format = "SCALAR")
    BY <2>1 DEF SetPart, SetToShow
  <2>2. CASE ~(d.type = "uchar" \/ (d.type = "state" /\ d.format = "SCALAR"))
    <3>1. SetToShow(n, d) = Values(n, "set", d.set)
      BY <2>2 DEF SetToShow
    <3>2. CASE d.format = "SCALAR"
      <4>1. d.set = 0 \/ d.set = 1
        BY <1>2, <3>2
      <4>2. SetPart(n, d, opt, FALSE) = IF d.set = 1 THEN Comma \o Key("set") \o one ELSE <<>>
        BY <2>2, <3>2 DEF SetPart, Optional
      <4> HIDE DEF one, list
      <4> QED
        BY <3>1, <4>1, <4>2, NoValues
    <3>3. CASE d.format # "SCALAR"
      <4>1. d.set = 0 \/ d.set > 0
        BY <1>2
      <4>2. SetPart(n, d, opt, FALSE) = IF d.set > 0 THEN Comma \o Key("set") \o list ELSE <<>>
        BY <2>2, <3>3 DEF SetPart, Optional
      <4> HIDE DEF one, list
      <4> QED
        BY <3>1, <4>1, <4>2, NoValues
    <3> QED
      BY <3>2, <3>3
  <2> QED
    BY <2>1, <2>2
<1> HIDE DEF one, list
<1>8. Shows(Comma \o Key("set") \o one, fit, Values(n, "set", 1), want)
      /\ Shows(Comma \o Key("set") \o list, fit, Values(n, "set", d.set), want)
  BY <1>3, <1>4, <1>5, ShowsBehind, SingleValue
<1>9. Shows(SetPart(n, d, opt, FALSE), fit, SetToShow(n, d), want)
  BY <1>6, <1>7, <1>8
<1> QED
  BY <1>1, <1>9

LEMMA SubSeqIs ==
    ASSUME NEW t, IsText(t), NEW n \in Nat, n <= Len(t)
    PROVE  /\ IsText(SubSeq(t, 1, n)) /\ Len(SubSeq(t, 1, n)) = n
           /\ \A i \in 1..n : SubSeq(t, 1, n)[i] = t[i]
<1>1. PICK T : t \in Seq(T)
  BY DEF IsText
<1>2. SubSeq(t, 1, n) \in Seq(T) /\ Len(SubSeq(t, 1, n)) = n
      /\ \A i \in 1..n : SubSeq(t, 1, n)[i] = t[i]
  BY <1>1
<1> QED
  BY <1>2 DEF IsText

\* Where a value comes from, cut off or not.
LEMMA KeptDue ==
    ASSUME NEW n, NEW d \in DatumRecord, NEW opt, NEW want, Asks(n, opt, want)
    PROVE  IsText(Kept(n, d)) /\ \A i \in 1..Len(Kept(n, d)) : Due(Kept(n, d)[i], opt, want)
<1>1. d.set \in Nat
  BY DEF DatumRecord
<1>3. ReadCount(d) \in Int
  BY SizesAreIntegers
<1>4. PICK r, s : r = Values(n, "read", ReadCount(d)) /\ s = Values(n, "set", d.set)
  OBVIOUS
<1>5. PICK a : a = Extracted(n, d) /\ a = r \o s
  BY <1>4 DEF Extracted
<1>6. IsText(r) /\ IsText(s)
  BY <1>1, <1>3, <1>4, ValuesAreText
<1>7. PICK k, m : k = Len(r) /\ k \in Nat /\ m = Len(s) /\ m \in Nat
  BY <1>6, TextLen
<1>8. (\A i \in 1..k : r[i] = <<n, "read", i>>) /\ (\A i \in 1..m : s[i] = <<n, "set", i>>)
  <2>1. DOMAIN r = 1..k /\ DOMAIN s = 1..m
    BY <1>6, <1>7, TextLen
  <2> QED
    BY <1>4, <2>1 DEF Values
<1>9. IsText(a) /\ Len(a) = k + m /\ \A i \in 1..k + m : a[i] = IF i <= k THEN r[i] ELSE s[i - k]
  BY <1>5, <1>6, <1>7, TextCat
<1>10. ASSUME NEW i \in 1..k + m PROVE Due(a[i], opt, want)
  <2>1. CASE i <= k
    <3>1. i \in 1..k /\ a[i] = r[i]
      BY <1>7, <1>9, <2>1
    <3> QED
      BY <1>8, <3>1, AttributeDue
  <2>2. CASE ~(i <= k)
    <3>1. i - k \in 1..m /\ a[i] = s[i - k]
      BY <1>7, <1>9, <2>2
    <3> QED
      BY <1>8, <3>1, AttributeDue
  <2> QED
    BY <2>1, <2>2
<1> DEFINE size == AsInt(Product(d))
<1>11. size \in Int
  BY SizesAreIntegers
<1>12. \/ Kept(n, d) = <<>> \/ Kept(n, d) = a
       \/ size \in Nat /\ size < Len(a) /\ Kept(n, d) = SubSeq(a, 1, size)
  BY <1>5, <1>11 DEF Kept
<1> HIDE DEF size
<1>13. CASE Kept(n, d) = <<>>
  BY <1>13, TextEmpty
<1>14. CASE Kept(n, d) = a
  BY <1>9, <1>10, <1>14
<1>15. CASE size \in Nat /\ size < Len(a) /\ Kept(n, d) = SubSeq(a, 1, size)
  <2>1. IsText(SubSeq(a, 1, size)) /\ Len(SubSeq(a, 1, size)) = size
        /\ \A i \in 1..size : SubSeq(a, 1, size)[i] = a[i]
    BY <1>9, <1>15, SubSeqIs
  <2>2. \A i \in 1..size : i \in 1..k + m
    BY <1>7, <1>9, <1>15
  <2> QED
    BY <1>10, <1>15, <2>1, <2>2
<1> QED
  BY <1>12, <1>13, <1>14, <1>15

LEMMA AtLeast ==
    ASSUME NEW x \in Nat, NEW y \in Int, y # 0, 0 <= x * y
    PROVE  x <= x * y
<1>1. CASE y >= 1
  <2>1. x * y = x * (y - 1) + x /\ x * (y - 1) >= 0
    BY <1>1
  <2> QED
    BY <2>1
<1>2. CASE y <= -1
  <2>1. x = 0 \/ x >= 1
    OBVIOUS
  <2>2. CASE x >= 1
    <3>1. x * y = (x - 1) * y + y /\ (x - 1) * y <= 0
      BY <1>2, <2>2
    <3> QED
      BY <1>2, <3>1
  <2>3. CASE x = 0
    BY <2>3
  <2> QED
    BY <2>1, <2>2, <2>3
<1> QED
  BY <1>1, <1>2

LEMMA CatPrefix ==
    ASSUME NEW r, NEW s, IsText(r), IsText(s)
    PROVE  SubSeq(r \o s, 1, Len(r)) = r
<1>1. PICK k, m : k = Len(r) /\ k \in Nat /\ m = Len(s) /\ m \in Nat
  BY TextLen
<1>2. PICK a : a = r \o s
  OBVIOUS
<1>3. IsText(a) /\ Len(a) = k + m /\ \A i \in 1..k + m : a[i] = IF i <= k THEN r[i] ELSE s[i - k]
  BY <1>1, <1>2, TextCat
<1>4. PICK b : b = SubSeq(a, 1, k)
  OBVIOUS
<1>5. IsText(b) /\ Len(b) = k /\ \A i \in 1..k : b[i] = a[i]
  BY <1>1, <1>3, <1>4, SubSeqIs
<1>6. ASSUME NEW i \in 1..k PROVE b[i] = r[i]
  <2>1. i \in 1..k + m /\ i <= k
    BY <1>1
  <2> QED
    BY <1>3, <1>5, <2>1
<1>7. b = [i \in 1..k |-> b[i]] /\ r = [i \in 1..k |-> r[i]]
  BY <1>1, <1>5 DEF IsText
<1>8. b = r
  BY <1>6, <1>7
<1> QED
  BY <1>1, <1>2, <1>4, <1>8

\* What the model assumes of a datum.
DatumOK(d) ==
    /\ d \in DatumRecord
    /\ d.format = "IMAGE" => d.dimY \in Nat /\ IsInt(Product(d))
    /\ d.format = "SCALAR" => d.set <= 1

LEMMA ReadCountIs ==
    ASSUME NEW d, DatumOK(d), d.format \in {"SCALAR", "SPECTRUM", "IMAGE"}
    PROVE  ReadCount(d) \in Nat
<1>1. d.dimX \in Nat /\ (d.format = "IMAGE" => d.dimY \in Nat)
  BY DEF DatumOK, DatumRecord
<1>2. d.format = "IMAGE" => d.dimX * d.dimY \in Nat /\ d.dimX * 1 \in Nat
  BY <1>1
<1> QED
  BY <1>1, <1>2 DEF ReadCount, Product

\* All that was read is kept and nothing else, unless the list is doubtful.
LEMMA KeptIsRead ==
    ASSUME NEW n, NEW d, DatumOK(d), d.format \in {"SPECTRUM", "IMAGE"}, ~Doubtful(d)
    PROVE  Kept(n, d) = Values(n, "read", ReadCount(d))
<1>1. d.dimX \in Nat /\ d.dimY \in Int /\ d.set \in Nat /\ ReadCount(d) \in Nat
  BY ReadCountIs DEF DatumOK, DatumRecord
<1>2. PICK r, s : r = Values(n, "read", ReadCount(d)) /\ s = Values(n, "set", d.set)
  OBVIOUS
<1>3. PICK a : a = r \o s
  OBVIOUS
<1>4. IsText(r) /\ Len(r) = ReadCount(d) /\ IsText(s) /\ Len(s) = d.set
  BY <1>1, <1>2, ValuesAre
<1>5. Len(a) = ReadCount(d) + d.set
  BY <1>1, <1>3, <1>4, TextCat
<1>6. PICK size : size = Product(d)
  OBVIOUS
<1>7. size \in Int /\ AsInt(size) = size
  <2>1. IsInt(size)
    BY <1>6 DEF Doubtful, DatumOK
  <2> QED
    BY <1>6, <2>1, SizesAreIntegers, AsIntIs DEF DatumOK
<1>8. Kept(n, d) = IF size < 0 THEN (IF d.type = "uchar" THEN <<>> ELSE a)
                   ELSE IF size < Len(a) THEN SubSeq(a, 1, size) ELSE a
  BY <1>2, <1>3, <1>6, <1>7 DEF Kept, Extracted
<1>9. d.set = 0 => a = r
  <2>1. ASSUME d.set = 0 PROVE s = <<>>
    BY <1>2, <2>1, NoValues
  <2>2. r \o <<>> = r
    BY <1>4, EmptyCat
  <2> QED
    BY <1>3, <2>1, <2>2
<1>10. CASE d.format = "SPECTRUM"
  <2>1. d.set = 0 /\ d.type # "uchar"
    BY <1>1, <1>10 DEF Doubtful
  <2>2. ReadCount(d) = d.dimX
    BY <1>10 DEF ReadCount
  <2>3. size >= 0 => size >= d.dimX
    <3>1. CASE d.dimY = 0
      BY <1>1, <1>6, <3>1 DEF Product
    <3>2. CASE d.dimY # 0
      <4>1. size = d.dimX * d.dimY
        BY <1>6, <3>2 DEF Product
      <4> QED
        BY <1>1, <3>2, <4>1, AtLeast
    <3> QED
      BY <3>1, <3>2
  <2>4. ~(size >= 0 /\ size < Len(a))
    BY <1>1, <1>5, <1>7, <2>1, <2>2, <2>3
  <2>5. Kept(n, d) = a
    BY <1>7, <1>8, <2>1, <2>4
  <2> QED
    BY <1>2, <1>9, <2>1, <2>5
<1>11. CASE d.format = "IMAGE"
  <2>1. size = ReadCount(d)
    BY <1>6, <1>11 DEF ReadCount
  <2>2. CASE d.set = 0
    <3>1. Kept(n, d) = a
      BY <1>1, <1>5, <1>8, <2>1, <2>2
    <3> QED
      BY <1>2, <1>9, <2>2, <3>1
  <2>3. CASE d.set # 0
    <3>1. Kept(n, d) = SubSeq(a, 1, size)
      BY <1>1, <1>5, <1>8, <2>1, <2>3
    <3>2. SubSeq(r \o s, 1, Len(r)) = r
      BY <1>4, CatPrefix
    <3> QED
      BY <1>2, <1>3, <1>4, <2>1, <3>1, <3>2
  <2> QED
    BY <2>2, <2>3
<1> QED
  BY <1>10, <1>11

LEMMA DimensionsSilent == ASSUME NEW d PROVE Silent(Dimensions(d) \o Key("data"))
<1>1. Silent(Field("dimX") \o Comma) /\ Silent(Field("dimY") \o Comma)
  BY SilentField, SilentMarks, SilentCat
<1>2. /\ Silent(Optional(d.format \in {"SPECTRUM", "IMAGE"}, Field("dimX") \o Comma))
      /\ Silent(Optional(d.format = "IMAGE", Field("dimY") \o Comma))
  BY <1>1, SilentOptional
<1>3. Silent(Dimensions(d))
  BY <1>2, SilentCat DEF Dimensions
<1> QED
  BY <1>3, SilentKey, SilentCat

LEMMA DeviceAttributeShown ==
    ASSUME NEW n, NEW d, DatumOK(d), NEW opt, NEW want, Asks(n, opt, want)
    PROVE  Shows(DeviceAttributeToStr(n, d, opt, FALSE), FitDatum(d) /\ ~Doubtful(d), ToShow(n, d), want)
<1>1. PICK fit : fit = (FitDatum(d) /\ ~Doubtful(d)) /\ fit \in BOOLEAN
  OBVIOUS
<1>2. d \in DatumRecord /\ (d.format = "SCALAR" => d.set <= 1)
  BY DEF DatumOK
<1>3. CASE d.type = "encoded" \/ d.quality = "INVALID"
  <2>1. DeviceAttributeToStr(n, d, opt, FALSE) = Field("data") /\ ToShow(n, d) = <<>>
    BY <1>3 DEF DeviceAttributeToStr, ToShow
  <2> QED
    BY <2>1, SilentField, ShowsNothing
<1>4. CASE ~(d.type = "encoded" \/ d.quality = "INVALID")
  <2> DEFINE one == DataValueToStr(d.type, d.content, <<n, "read", 1>>, opt, FALSE)
             list == DataArrayToStr(d.type, d.content, Kept(n, d), opt, FALSE)
  <2>1. fit => FitValue(d.type, d.content, FALSE) /\ d.format # "UNKNOWN" /\ ~Doubtful(d)
    BY <1>1, <1>4 DEF FitDatum, FitValue
  <2>2. ToShow(n, d) = Values(n, "read", ReadCount(d)) \o SetToShow(n, d)
    BY <1>4 DEF ToShow, SetToShow
  <2>3. Silent(Dimensions(d) \o Key("data"))
    BY DimensionsSilent
  <2>4. Shows(SetPart(n, d, opt, FALSE), fit, SetToShow(n, d), want)
    <3>1. Shows(SetPart(n, d, opt, FALSE), FitValue(d.type, d.content, FALSE), SetToShow(n, d), want)
      BY <1>2, SetPartShown
    <3> QED
      BY <2>1, <3>1 DEF Shows
  <2>5. CASE d.format = "SCALAR"
    <3>1. DeviceAttributeToStr(n, d, opt, FALSE)
            = (Dimensions(d) \o Key("data")) \o (one \o SetPart(n, d, opt, FALSE))
      BY <1>4, <2>5 DEF DeviceAttributeToStr
    <3>2. Values(n, "read", ReadCount(d)) = << <<n, "read", 1>> >>
      BY <2>5, SingleValue DEF ReadCount
    <3>3. Shows(one, FitValue(d.type, d.content, FALSE), << <<n, "read", 1>> >>, want)
      BY AttributeDue, DataValueShown
    <3> HIDE DEF one
    <3>4. Shows(one, fit, << <<n, "read", 1>> >>, want)
      BY <2>1, <3>3 DEF Shows
    <3>5. Shows(one \o SetPart(n, d, opt, FALSE), fit, << <<n, "read", 1>> >> \o SetToShow(n, d), want)
      BY <2>4, <3>4, ShowsCat
    <3>6. Shows((Dimensions(d) \o Key("data")) \o (one \o SetPart(n, d, opt, FALSE)), fit,
                << <<n, "read", 1>> >> \o SetToShow(n, d), want)
      BY <2>3, <3>5, ShowsBehind
    <3> QED
      BY <1>1, <2>2, <3>1, <3>2, <3>6
  <2>6. CASE d.format \in {"SPECTRUM", "IMAGE"}
    <3>1. DeviceAttributeToStr(n, d, opt, FALSE)
            = (Dimensions(d) \o Key("data")) \o (list \o SetPart(n, d, opt, FALSE))
      BY <1>4, <2>6 DEF DeviceAttributeToStr
    <3>2. fit => Kept(n, d) = Values(n, "read", ReadCount(d))
      BY <2>1, <2>6, KeptIsRead
    <3>3. Shows(list, FitValue(d.type, d.content, FALSE), Kept(n, d), want)
      BY <1>2, KeptDue, DataArrayShown
    <3> HIDE DEF list
    <3>4. Shows(list, fit, Values(n, "read", ReadCount(d)), want)
      BY <2>1, <3>2, <3>3 DEF Shows
    <3>5. Shows(list \o SetPart(n, d, opt, FALSE), fit, ToShow(n, d), want)
      BY <2>2, <2>4, <3>4, ShowsCat
    <3>6. Shows((Dimensions(d) \o Key("data")) \o (list \o SetPart(n, d, opt, FALSE)), fit, ToShow(n, d), want)
      BY <2>3, <3>5, ShowsBehind
    <3> QED
      BY <1>1, <3>1, <3>6
  <2>7. CASE d.format \notin {"SCALAR", "SPECTRUM", "IMAGE"}
    <3>1. DeviceAttributeToStr(n, d, opt, FALSE) = (Dimensions(d) \o Key("data")) \o <<>>
      BY <1>4, <2>7 DEF DeviceAttributeToStr
    <3>2. d.format = "UNKNOWN"
      BY <1>2, <2>7 DEF DatumRecord, Format
    <3>3. Silent(<<>>)
      BY AllowedNothing DEF Silent
    <3>4. Silent((Dimensions(d) \o Key("data")) \o <<>>)
      BY <2>3, <3>3, SilentCat
    <3>5. Shows((Dimensions(d) \o Key("data")) \o <<>>, fit, ToShow(n, d), want)
      BY <2>1, <3>2, <3>4, ShowsUnfit
    <3> QED
      BY <1>1, <3>1, <3>5
  <2> QED
    BY <2>5, <2>6, <2>7
<1> QED
  BY <1>3, <1>4

LEMMA GenerateAttributeShown ==
    ASSUME NEW n, NEW d, DatumOK(d), NEW opt, NEW want, Asks(n, opt, want)
    PROVE  Shows(GenerateJsonForAttribute(n, d, opt), FitDatum(d) /\ ~Doubtful(d), ToShow(n, d), want)
<1>1. PICK fit : fit = (FitDatum(d) /\ ~Doubtful(d)) /\ fit \in BOOLEAN
  OBVIOUS
<1>2. PICK data : data = DeviceAttributeToStr(n, d, opt, FALSE)
  OBVIOUS
<1>3. PICK head : head = Key(n) \o LBrace \o Optional(d.quality # "VALID", Field("qual") \o Comma)
  OBVIOUS
<1>4. Silent(head)
  <2>1. Silent(Field("qual") \o Comma)
    BY SilentField, SilentMarks, SilentCat
  <2>2. Silent(Optional(d.quality # "VALID", Field("qual") \o Comma))
    BY <2>1, SilentOptional
  <2> QED
    BY <1>3, <2>2, SilentKey, SilentMarks, SilentCat
<1>5. Shows(data, fit, ToShow(n, d), want)
  BY <1>1, <1>2, DeviceAttributeShown
<1>6. Shows(head \o data \o RBrace, fit, ToShow(n, d), want)
  BY <1>4, <1>5, SilentMarks, ShowsBehind, ShowsBefore
<1>7. GenerateJsonForAttribute(n, d, opt) = head \o data \o RBrace
  BY <1>2, <1>3 DEF GenerateJsonForAttribute
<1> QED
  BY <1>1, <1>6, <1>7

\* No list of attributes is doubtful.
Clear(names, data) == \A i \in DOMAIN names : ~Doubtful(data[i])

LEMMA AttrListShown ==
    ASSUME NEW names, IsText(names), NEW data, DOMAIN data = DOMAIN names, NEW opts, NEW want,
           \A i \in 1..Len(names) : DatumOK(data[i]) /\ Asks(names[i], Precision(opts, names[i]), want)
    PROVE  Shows(GenerateJsonForAttrList(names, data, opts), FitData(data) /\ Clear(names, data),
                 ReadAndSet(Attrs(names, data)), want)
<1>1. PICK n \in Nat : n = Len(names) /\ DOMAIN names = 1..n
  BY TextLen
<1>2. PICK fit : fit = (FitData(data) /\ Clear(names, data)) /\ fit \in BOOLEAN
  OBVIOUS
<1>3. PICK parts : parts = [i \in 1..n |->
                        GenerateJsonForAttribute(names[i], data[i], Precision(opts, names[i]))]
  OBVIOUS
<1>4. PICK d : d = [i \in 1..n |-> ToShow(names[i], data[i])]
  OBVIOUS
<1>5. GenerateJsonForAttrList(names, data, opts) = LBrace \o Listed(parts) \o RBrace
  BY <1>1, <1>3 DEF GenerateJsonForAttrList
<1>6. ASSUME NEW i \in 1..n PROVE Shows(parts[i], fit, d[i], want)
  <2>1. fit => FitDatum(data[i]) /\ ~Doubtful(data[i])
    BY <1>1, <1>2 DEF FitData, Clear
  <2>2. Shows(GenerateJsonForAttribute(names[i], data[i], Precision(opts, names[i])),
              FitDatum(data[i]) /\ ~Doubtful(data[i]), ToShow(names[i], data[i]), want)
    BY <1>1, GenerateAttributeShown
  <2>3. parts[i] = GenerateJsonForAttribute(names[i], data[i], Precision(opts, names[i]))
        /\ d[i] = ToShow(names[i], data[i])
    BY <1>3, <1>4
  <2> QED
    BY <2>1, <2>2, <2>3 DEF Shows
<1>7. IsText(parts) /\ Len(parts) = n /\ d = [i \in 1..n |-> d[i]]
  BY <1>3, <1>4, Sized
<1>8. Shows(Listed(parts), fit, FlattenSeq(d), want)
  BY <1>6, <1>7, ShowsListed
<1>9. Shows(LBrace \o Listed(parts) \o RBrace, fit, FlattenSeq(d), want)
  BY <1>8, SilentMarks, ShowsBehind, ShowsBefore
<1>10. ReadAndSet(Attrs(names, data)) = FlattenSeq(d)
  BY <1>1, <1>4 DEF ReadAndSet, Attrs
<1> QED
  BY <1>2, <1>5, <1>9, <1>10

-------------------------------------------------------------------------------
(* Pipes *)

AsksPipe(n, opt, want) == opt # "" => opt \in Wished(want.pipe, n)

\* The precisions of the elements are the ones that were asked for.
PipeAsked(opts, want) == \A n : AsksPipe(n, Precision(opts, n), want)

ElementFits(el) == /\ el.kind \in {"float", "floats"} => el.content # "quotes"
                   /\ el.kind = "string" => el.content = "plain"

NameInPipe(el) == <<el.name, "pipe", 1>>

LEMMA ElementShown ==
    ASSUME NEW el \in Element, NEW opt, NEW want, AsksPipe(el.name, opt, want)
    PROVE  Shows(ShownElement(el, opt), ElementFits(el), <<NameInPipe(el)>>, want)
<1>1. PICK fit : fit = ElementFits(el) /\ fit \in BOOLEAN
  BY DEF ElementFits
<1>2. PICK of : of = NameInPipe(el) /\ of = <<el.name, "pipe", 1>>
  BY DEF NameInPipe
<1>3. Due(of, opt, want)
  <2>1. of[1] = el.name /\ of[2] = "pipe"
    BY <1>2
  <2> QED
    BY <2>1 DEF Due, AsWished, AsksPipe
<1>4. CASE el.kind = "floats"
  <2>1. fit => FitValue("float", el.content, FALSE)
    BY <1>1, <1>4 DEF ElementFits, FitValue
  <2>2. PICK ofs : ofs = <<of>>
    OBVIOUS
  <2>3. IsText(ofs) /\ Len(ofs) = 1 /\ ofs[1] = of
    BY <2>2, TextOne
  <2>4. \A i \in 1..Len(ofs) : Due(ofs[i], opt, want)
    BY <1>3, <2>3
  <2>5. Shows(DataArrayToStr("float", el.content, ofs, opt, FALSE), FitValue("float", el.content, FALSE), ofs, want)
    BY <2>3, <2>4, DataArrayShown
  <2>6. ShownElement(el, opt) = DataArrayToStr("float", el.content, ofs, opt, FALSE)
    BY <1>2, <1>4, <2>2 DEF ShownElement
  <2>7. Shows(ShownElement(el, opt), fit, ofs, want)
    BY <2>1, <2>5, <2>6 DEF Shows
  <2> QED
    BY <1>1, <1>2, <2>2, <2>7
<1>5. CASE el.kind = "state"
  <2>1. ShownElement(el, opt) = Value(of, "")
    BY <1>2, <1>5 DEF ShownElement
  <2>2. Shows(Value(of, ""), fit, <<of>>, want)
    BY <1>3, DueAnyway, OneValueShown
  <2> QED
    BY <1>1, <1>2, <2>1, <2>2
<1>6. CASE el.kind \notin {"floats", "state"}
  <2>1. fit => FitValue(el.kind, el.content, FALSE)
    BY <1>1, <1>6 DEF ElementFits, FitValue
  <2>2. ShownElement(el, opt) = DataValueToStr(el.kind, el.content, of, opt, FALSE)
    BY <1>2, <1>6 DEF ShownElement
  <2>3. Shows(DataValueToStr(el.kind, el.content, of, opt, FALSE), FitValue(el.kind, el.content, FALSE), <<of>>, want)
    BY <1>3, DataValueShown
  <2>4. Shows(ShownElement(el, opt), fit, <<of>>, want)
    BY <2>1, <2>2, <2>3 DEF Shows
  <2> QED
    BY <1>1, <1>2, <2>4
<1> QED
  BY <1>4, <1>5, <1>6

NamesInPipe(p, i) == [j \in 1..i |-> NameInPipe(p[j])]

\* u elements are shown: all, or the ones before the first that is not supported.
ShownUntil(p, u) ==
    /\ u \in 0..Len(p) /\ Supported(p, u) /\ (u < Len(p) => p[u + 1].kind \in Unsupported)
    /\ PipeToShow(p) = NamesInPipe(p, u)

LEMMA UntilExists == ASSUME NEW p, IsText(p) PROVE \E u : ShownUntil(p, u)
<1>1. PICK n \in Nat : n = Len(p) /\ DOMAIN p = 1..n
  BY TextLen
<1>2. PICK stops : stops = {i \in 1..n : p[i].kind \in Unsupported}
  OBVIOUS
<1>3. PICK u : u = IF stops = {} THEN n ELSE Min(stops) - 1
  OBVIOUS
<1>4. PipeToShow(p) = NamesInPipe(p, u)
  BY <1>1, <1>2, <1>3 DEF PipeToShow, NamesInPipe, NameInPipe, Unsupported
<1>5. CASE stops = {}
  <2>1. u = n /\ \A i \in 1..n : p[i].kind \notin Unsupported
    BY <1>2, <1>3, <1>5
  <2>2. ShownUntil(p, u)
    BY <1>1, <1>4, <2>1 DEF ShownUntil, Supported
  <2> QED
    BY <2>2
<1>6. CASE stops # {}
  <2>1. stops \subseteq Nat /\ stops \subseteq 1..n
    BY <1>2
  <2>2. PICK m \in stops : \A k \in stops : m <= k
    BY <1>6, <2>1, LeastNat
  <2>3. Min(stops) \in stops /\ \A k \in stops : Min(stops) <= k
    BY <2>2 DEF Min
  <2>4. PICK l \in 1..n : l = Min(stops) /\ p[l].kind \in Unsupported
    BY <1>2, <2>3
  <2>5. u = l - 1 /\ u + 1 = l
    BY <1>3, <1>6, <2>4
  <2>6. ASSUME NEW j \in 1..u PROVE p[j].kind \notin Unsupported
    <3> SUFFICES ASSUME p[j].kind \in Unsupported PROVE FALSE
      OBVIOUS
    <3>1. j \in 1..n /\ j < l
      BY <2>4, <2>5
    <3>2. j \in stops
      BY <1>2, <3>1
    <3> QED
      BY <2>3, <2>4, <3>1, <3>2
  <2>7. u \in 0..n
    BY <2>4, <2>5
  <2>8. ShownUntil(p, u)
    BY <1>1, <1>4, <2>4, <2>5, <2>6, <2>7 DEF ShownUntil, Supported
  <2> QED
    BY <2>8
<1> QED
  BY <1>5, <1>6

Smaller(i, u) == IF i <= u THEN i ELSE u

\* What is written and extracted behind the first i elements, u of which are shown.
WrittenUpTo(acc, pipe, i, u, want) ==
    /\ acc.extracted = Smaller(i, u)
    /\ acc.raised \in BOOLEAN /\ (acc.raised => i > u)
    /\ Shows(acc.text, FitElements(pipe), NamesInPipe(pipe, Smaller(i, u)), want)

LEMMA WrittenTo ==
    ASSUME NEW t, NEW x, NEW r \in BOOLEAN, NEW pipe, NEW i, NEW u, NEW want,
           x = Smaller(i, u), r => i > u,
           Shows(t, FitElements(pipe), NamesInPipe(pipe, Smaller(i, u)), want)
    PROVE  WrittenUpTo(SoFar(t, x, r), pipe, i, u, want)
<1>1. /\ SoFar(t, x, r).text = t
      /\ SoFar(t, x, r).extracted = x
      /\ SoFar(t, x, r).raised = r
  BY DEF SoFar
<1> QED
  BY <1>1 DEF WrittenUpTo

LEMMA WritingGoesOn ==
    ASSUME NEW pipe \in Seq(Element), NEW opts, NEW want, PipeAsked(opts, want),
           NEW u, ShownUntil(pipe, u), NEW i \in 1..Len(pipe), NEW acc,
           WrittenUpTo(acc, pipe, i - 1, u, want)
    PROVE  WrittenUpTo(ExtractFromPipe(acc, pipe, i, opts), pipe, i, u, want)
<1>1. PICK n \in Nat : n = Len(pipe) /\ DOMAIN pipe = 1..n /\ i \in 1..n /\ i \in Nat
  OBVIOUS
<1>2. u \in 0..n /\ Supported(pipe, u) /\ (u < n => pipe[u + 1].kind \in Unsupported)
  BY <1>1 DEF ShownUntil
<1>3. /\ acc.extracted = Smaller(i - 1, u)
      /\ acc.raised \in BOOLEAN /\ (acc.raised => i - 1 > u)
      /\ Shows(acc.text, FitElements(pipe), NamesInPipe(pipe, Smaller(i - 1, u)), want)
  BY DEF WrittenUpTo
<1>4. PICK fit : fit = FitElements(pipe) /\ fit \in BOOLEAN
  BY DEF FitElements, FitPipe
<1>5. PICK el, key : el = pipe[i] /\ key = acc.text \o Optional(i > 1, Comma) \o Key(el.name)
  OBVIOUS
<1>6. el \in Element
  BY <1>1, <1>5
<1>7. Shows(key, fit, NamesInPipe(pipe, Smaller(i - 1, u)), want)
  <2>1. Silent(Optional(i > 1, Comma)) /\ Silent(Key(el.name))
    BY SilentMarks, SilentOptional, SilentKey
  <2>2. Shows(acc.text, fit, NamesInPipe(pipe, Smaller(i - 1, u)), want)
    BY <1>3, <1>4
  <2> QED
    BY <1>5, <2>1, <2>2, ShowsBefore
<1>8. CASE i <= u
  <2>1. Smaller(i - 1, u) = i - 1 /\ Smaller(i, u) = i /\ acc.extracted + 1 = i /\ ~acc.raised
    BY <1>1, <1>2, <1>3, <1>8 DEF Smaller
  <2>2. el.kind \notin Unsupported
    BY <1>1, <1>2, <1>5, <1>8 DEF Supported
  <2>3. PICK shown : shown = ShownElement(el, Precision(opts, el.name))
    OBVIOUS
  <2>4. pipe[acc.extracted + 1] = el
    BY <1>5, <2>1
  <2>5. ExtractFromPipe(acc, pipe, i, opts) = SoFar(key \o shown, i, FALSE)
    BY <1>5, <2>1, <2>2, <2>3, <2>4 DEF ExtractFromPipe, Unsupported
  <2>6. Shows(shown, ElementFits(el), <<NameInPipe(el)>>, want)
    BY <1>6, <2>3, ElementShown DEF PipeAsked
  <2>7. fit => ElementFits(el)
    BY <1>1, <1>4, <1>5 DEF FitElements, FitPipe, Piped, ElementFits
  <2>8. Shows(shown, fit, <<NameInPipe(el)>>, want)
    BY <2>6, <2>7 DEF Shows
  <2>9. Shows(key \o shown, fit, NamesInPipe(pipe, i - 1) \o <<NameInPipe(el)>>, want)
    BY <1>7, <2>1, <2>8, ShowsCat
  <2>10. NamesInPipe(pipe, i - 1) \o <<NameInPipe(el)>> = NamesInPipe(pipe, i)
    <3>1. PICK m \in Nat : m = i - 1 /\ i = m + 1
      BY <1>1
    <3>2. PICK s : s = [j \in 1..n |-> NameInPipe(pipe[j])]
      OBVIOUS
    <3>3. NamesInPipe(pipe, m) = [j \in 1..m |-> s[j]] /\ NamesInPipe(pipe, m + 1) = [j \in 1..m + 1 |-> s[j]]
      <4>1. 1..m \subseteq 1..n /\ 1..m + 1 \subseteq 1..n
        BY <1>1, <3>1
      <4> QED
        BY <3>2, <4>1 DEF NamesInPipe
    <3>4. NameInPipe(el) = s[m + 1]
      BY <1>1, <1>5, <3>1, <3>2
    <3>5. [j \in 1..m |-> s[j]] \o <<s[m + 1]>> = [j \in 1..m + 1 |-> s[j]]
      BY FirstAndNext
    <3> QED
      BY <3>1, <3>3, <3>4, <3>5
  <2>11. Shows(key \o shown, FitElements(pipe), NamesInPipe(pipe, Smaller(i, u)), want)
    BY <1>4, <2>1, <2>9, <2>10
  <2>12. WrittenUpTo(SoFar(key \o shown, i, FALSE), pipe, i, u, want)
    BY <2>1, <2>11, WrittenTo
  <2> QED
    BY <2>5, <2>12
<1>9. CASE i > u
  <2>1. Smaller(i - 1, u) = u /\ Smaller(i, u) = u
    BY <1>1, <1>2, <1>9 DEF Smaller
  <2>2. CASE acc.raised
    <3>1. ExtractFromPipe(acc, pipe, i, opts) = acc
      BY <2>2 DEF ExtractFromPipe
    <3> QED
      BY <1>3, <1>9, <2>1, <3>1 DEF WrittenUpTo
  <2>3. CASE ~acc.raised
    <3>1. u < n /\ acc.extracted = u
      BY <1>1, <1>2, <1>3, <1>9, <2>1
    <3>2. pipe[acc.extracted + 1].kind \in Unsupported
      BY <1>2, <3>1
    <3>3. ~(el.kind \notin Unsupported /\ el.kind = pipe[acc.extracted + 1].kind)
      BY <3>2
    <3>4. \/ ExtractFromPipe(acc, pipe, i, opts) = SoFar(key, u, TRUE)
          \/ ExtractFromPipe(acc, pipe, i, opts) = SoFar(key \o Plain, u, FALSE)
      BY <1>5, <2>3, <3>1, <3>3 DEF ExtractFromPipe, Unsupported
    <3>5. Shows(key \o Plain, fit, NamesInPipe(pipe, u), want) /\ Shows(key, fit, NamesInPipe(pipe, u), want)
      BY <1>7, <2>1, SilentPlain, ShowsBefore
    <3>6. WrittenUpTo(SoFar(key, u, TRUE), pipe, i, u, want)
      BY <1>4, <1>9, <2>1, <3>5, WrittenTo
    <3>7. WrittenUpTo(SoFar(key \o Plain, u, FALSE), pipe, i, u, want)
      BY <1>4, <1>9, <2>1, <3>5, WrittenTo
    <3> QED
      BY <3>4, <3>6, <3>7
  <2> QED
    BY <1>3, <2>2, <2>3
<1> QED
  BY <1>1, <1>2, <1>8, <1>9

LEMMA PipeIsShown ==
    ASSUME NEW pipe \in Seq(Element), NEW opts, NEW want, PipeAsked(opts, want)
    PROVE  Shows(GenerateJsonForPipe(pipe, opts).text, FitElements(pipe), PipeToShow(pipe), want)
<1>1. PICK n \in Nat : n = Len(pipe)
  OBVIOUS
<1>2. PICK f : IsGeneration(f, pipe, opts)
  BY ExtractionSteps DEF IsText
<1>3. PICK u : ShownUntil(pipe, u)
  BY UntilExists DEF IsText
<1>4. u \in 0..n /\ PipeToShow(pipe) = NamesInPipe(pipe, u)
  BY <1>1, <1>3 DEF ShownUntil
<1> DEFINE P == {i \in Nat : i <= n => WrittenUpTo(f[i], pipe, i, u, want)}
<1>5. 0 \in P
  <2>1. f[0] = NothingExtracted
    BY <1>2 DEF IsGeneration
  <2>2. Smaller(0, u) = 0 /\ NamesInPipe(pipe, 0) = <<>>
    BY <1>4 DEF Smaller, NamesInPipe
  <2>3. Shows(LBrace, FitElements(pipe), <<>>, want)
    BY SilentMarks, ShowsNothing
  <2>4. WrittenUpTo(NothingExtracted, pipe, 0, u, want)
    BY <2>2, <2>3 DEF WrittenUpTo, NothingExtracted, SoFar
  <2> QED
    BY <2>1, <2>4
<1>6. ASSUME NEW i \in Nat, i \in P PROVE i + 1 \in P
  <2> SUFFICES ASSUME i + 1 <= n PROVE WrittenUpTo(f[i + 1], pipe, i + 1, u, want)
    OBVIOUS
  <2>1. PICK j \in 1..n : j = i + 1 /\ i = j - 1
    OBVIOUS
  <2>2. WrittenUpTo(f[j - 1], pipe, j - 1, u, want)
    BY <1>6, <2>1
  <2>3. f[j] = ExtractFromPipe(f[j - 1], pipe, j, opts)
    BY <1>1, <1>2 DEF IsGeneration
  <2> QED
    BY <1>1, <1>3, <2>1, <2>2, <2>3, WritingGoesOn
<1> HIDE DEF P
<1>7. n \in P
  BY <1>5, <1>6, Induction
<1>8. WrittenUpTo(f[n], pipe, n, u, want)
  BY <1>7 DEF P
<1>9. GenerateJsonForPipe(pipe, opts)
        = SoFar(f[n].text \o Optional(~f[n].raised, RBrace), f[n].extracted, f[n].raised)
  BY <1>1, <1>2 DEF IsGeneration
<1>10. GenerateJsonForPipe(pipe, opts).text = f[n].text \o Optional(~f[n].raised, RBrace)
  <2>1. PICK t, x, r : t = f[n].text \o Optional(~f[n].raised, RBrace) /\ x = f[n].extracted /\ r = f[n].raised
    OBVIOUS
  <2>2. SoFar(t, x, r).text = t
    BY DEF SoFar
  <2>3. GenerateJsonForPipe(pipe, opts) = SoFar(t, x, r)
    BY <1>9, <2>1
  <2> QED
    BY <2>1, <2>2, <2>3
<1>11. Smaller(n, u) = u
  BY <1>4 DEF Smaller
<1>12. Shows(f[n].text, FitElements(pipe), PipeToShow(pipe), want)
  BY <1>4, <1>8, <1>11 DEF WrittenUpTo
<1>13. Silent(Optional(~f[n].raised, RBrace))
  BY SilentMarks, SilentOptional
<1> QED
  BY <1>10, <1>12, <1>13, ShowsBefore

LEMMA QuotedListSilent == ASSUME NEW e, IsText(e) PROVE Silent(QuotedList(e))
<1>1. PICK n \in Nat : n = Len(e) /\ DOMAIN e = 1..n
  BY TextLen
<1>2. PICK parts : parts = [i \in 1..n |-> Quoted(e[i], Own)]
  OBVIOUS
<1>3. QuotedList(e) = LBracket \o Listed(parts) \o RBracket
  BY <1>1, <1>2 DEF QuotedList
<1>4. IsText(parts) /\ Len(parts) = n /\ \A i \in 1..n : Silent(parts[i])
  BY <1>2, Sized, SilentQuoted
<1>5. Silent(Listed(parts))
  BY <1>4, SilentListed
<1> QED
  BY <1>3, <1>5, SilentMarks, SilentCat

LEMMA NoPipeToShow == PipeToShow(<<>>) = <<>>
<1>1. PICK u : ShownUntil(<<>>, u)
  BY UntilExists, TextEmpty
<1>2. u = 0 /\ PipeToShow(<<>>) = NamesInPipe(<<>>, u)
  BY <1>1, TextEmpty DEF ShownUntil
<1> QED
  BY <1>2 DEF NamesInPipe

LEMMA PipeOrErrorsShown ==
    ASSUME NEW p, IsPipe(p), NEW opts, NEW want, PipeAsked(opts, want)
    PROVE  Shows(PipeOrErrors(p, opts), FitPipe(p), PipeToShow(p.elements), want)
<1>1. CASE \E q \in Seq(Element) : p = Piped(q)
  <2>1. PICK q \in Seq(Element) : p = Piped(q)
    BY <1>1
  <2>2. p.read = TRUE /\ p.elements = q
    BY <2>1 DEF Piped
  <2>3. PICK shown : shown = GenerateJsonForPipe(q, opts)
    OBVIOUS
  <2>4. PipeOrErrors(p, opts) = shown.text \o Optional(shown.raised, QuotedList(<<"plain">>))
    BY <2>2, <2>3 DEF PipeOrErrors
  <2>5. Shows(shown.text, FitPipe(p), PipeToShow(q), want)
    BY <2>1, <2>3, PipeIsShown DEF FitElements
  <2>6. Silent(Optional(shown.raised, QuotedList(<<"plain">>)))
    BY TextOne, QuotedListSilent, SilentOptional
  <2> QED
    BY <2>2, <2>4, <2>5, <2>6, ShowsBefore
<1>2. CASE \E e : IsText(e) /\ p = PipeFailed(e)
  <2>1. PICK e : IsText(e) /\ p = PipeFailed(e)
    BY <1>2
  <2>2. p.read = FALSE /\ p.errors = e /\ p.elements = <<>>
    BY <2>1 DEF PipeFailed
  <2>3. PipeOrErrors(p, opts) = QuotedList(e)
    BY <2>2 DEF PipeOrErrors
  <2>4. Shows(QuotedList(e), FitPipe(p), <<>>, want)
    BY <2>1, QuotedListSilent, ShowsNothing
  <2> QED
    BY <2>2, <2>3, <2>4, NoPipeToShow
<1> QED
  BY <1>1, <1>2 DEF IsPipe

-------------------------------------------------------------------------------
(* What is to be shown of several devices. *)

\* What about.attrs lists.
Entry == [name : Attr, datum : DatumRecord]

LEMMA ToShowIsText == ASSUME NEW n, NEW d \in DatumRecord PROVE IsText(ToShow(n, d))
<1>1. d.set \in Nat
  BY DEF DatumRecord
<1>3. ReadCount(d) \in Int
  BY SizesAreIntegers
<1>4. PICK r, s : r = Values(n, "read", ReadCount(d)) /\ s = Values(n, "set", d.set)
  OBVIOUS
<1>5. IsText(r) /\ IsText(s) /\ IsText(<<>>)
  BY <1>1, <1>3, <1>4, ValuesAreText, TextEmpty
<1>6. IsText(r \o s) /\ IsText(r \o <<>>)
  BY <1>5, TextCat
<1> QED
  BY <1>4, <1>5, <1>6 DEF ToShow

LEMMA ReadAndSetCat ==
    ASSUME NEW s \in Seq(Entry), NEW t \in Seq(Entry)
    PROVE  /\ s \o t \in Seq(Entry)
           /\ ReadAndSet(s \o t) = ReadAndSet(s) \o ReadAndSet(t)
<1>1. PICK F : F = [x \in Entry |-> ToShow(x.name, x.datum)]
  OBVIOUS
<1>2. ASSUME NEW v \in Seq(Entry) PROVE ReadAndSet(v) = FlattenSeq(Image(F, v))
  <2>1. \A i \in DOMAIN v : v[i] \in Entry
    OBVIOUS
  <2>2. \A i \in DOMAIN v : F[v[i]] = ToShow(v[i].name, v[i].datum)
    BY <1>1, <2>1
  <2> QED
    BY <2>2 DEF ReadAndSet, Image
<1>3. ASSUME NEW x \in Entry PROVE IsText(F[x])
  <2>1. x.datum \in DatumRecord
    BY DEF Entry
  <2> QED
    BY <1>1, <2>1, ToShowIsText
<1>4. FlattenSeq(Image(F, s \o t)) = FlattenSeq(Image(F, s)) \o FlattenSeq(Image(F, t))
  BY <1>3, ImageFlattens
<1>5. s \o t \in Seq(Entry)
  BY ConcatProperties
<1> QED
  BY <1>2, <1>4, <1>5

LEMMA ReadAndSetIsText == ASSUME NEW s \in Seq(Entry) PROVE IsText(ReadAndSet(s))
<1>1. PICK n \in Nat : n = Len(s) /\ DOMAIN s = 1..n
  OBVIOUS
<1>2. PICK a : a = [i \in 1..n |-> ToShow(s[i].name, s[i].datum)]
  OBVIOUS
<1>3. \A i \in 1..n : s[i].datum \in DatumRecord
  <2>1. \A i \in 1..n : s[i] \in Entry
    BY <1>1
  <2> QED
    BY <2>1 DEF Entry
<1>4. \A i \in 1..n : a[i] = ToShow(s[i].name, s[i].datum)
  BY <1>2
<1>5. \A i \in 1..n : IsText(a[i])
  BY <1>3, <1>4, ToShowIsText
<1>6. a = [i \in 1..n |-> a[i]]
  BY <1>2
<1>7. AreTexts(a, n)
  BY <1>5, <1>6 DEF AreTexts
<1> QED
  BY <1>1, <1>2, <1>7, FlattenIsText DEF ReadAndSet

NoneDoubtful(attrs) == \A i \in DOMAIN attrs : ~Doubtful(attrs[i].datum)

LEMMA NoneDoubtfulCat ==
    ASSUME NEW s, NEW t, IsText(s), IsText(t), NoneDoubtful(s \o t)
    PROVE  NoneDoubtful(s) /\ NoneDoubtful(t)
<1>1. PICK m, n : m = Len(s) /\ m \in Nat /\ n = Len(t) /\ n \in Nat
  BY TextLen
<1>2. PICK u : u = s \o t
  OBVIOUS
<1>3. IsText(u) /\ Len(u) = m + n /\ \A i \in 1..m + n : u[i] = IF i <= m THEN s[i] ELSE t[i - m]
  BY <1>1, <1>2, TextCat
<1>4. DOMAIN s = 1..m /\ DOMAIN t = 1..n /\ DOMAIN u = 1..m + n
  BY <1>1, <1>3, TextLen
<1>5. ASSUME NEW i \in 1..m PROVE s[i] = u[i] /\ i \in DOMAIN u
  <2>1. i \in 1..m + n /\ i <= m
    BY <1>1
  <2> QED
    BY <1>3, <1>4, <2>1
<1>6. ASSUME NEW i \in 1..n PROVE t[i] = u[m + i] /\ m + i \in DOMAIN u
  <2>1. m + i \in 1..m + n /\ ~(m + i <= m) /\ (m + i) - m = i
    BY <1>1
  <2> QED
    BY <1>3, <1>4, <2>1
<1>7. \A i \in DOMAIN u : ~Doubtful(u[i].datum)
  BY <1>2 DEF NoneDoubtful
<1> QED
  BY <1>4, <1>5, <1>6, <1>7 DEF NoneDoubtful

\* The attributes of n devices, and what is to be shown of each.
OfDevices(s, d, n) ==
    /\ s = [i \in 1..n |-> s[i]] /\ \A i \in 1..n : s[i] \in Seq(Entry)
    /\ d = [i \in 1..n |-> d[i]] /\ \A i \in 1..n : d[i] = ReadAndSet(s[i])

\* The first i of them, in a run f.
SoManyDevices(f, s, i) ==
    f[i] \in Seq(Entry) /\ (NoneDoubtful(f[i]) => \A j \in 1..i : NoneDoubtful(s[j]))

LEMMA AttrsOfAll ==
    ASSUME NEW n \in Nat, NEW s, NEW d, OfDevices(s, d, n)
    PROVE  /\ ReadAndSet(FlattenSeq(s)) = FlattenSeq(d)
           /\ NoneDoubtful(FlattenSeq(s)) => \A i \in 1..n : NoneDoubtful(s[i])
<1>1. AreTexts(s, n) /\ \A i \in 1..n : IsText(s[i])
  BY TokensAreText DEF AreTexts, OfDevices
<1>2. AreTexts(d, n)
  BY ReadAndSetIsText DEF AreTexts, OfDevices
<1>15. \A i \in 1..n : s[i] \in Seq(Entry) /\ d[i] = ReadAndSet(s[i])
  BY DEF OfDevices
<1>3. PICK f : IsRunOf(f, s, n)
  BY <1>1, FlattenRun
<1>4. /\ f[0] = <<>> /\ f[n] = FlattenSeq(s)
      /\ \A i \in 1..n : f[i] = f[i - 1] \o s[i]
      /\ \A i \in 0..n : IsText(f[i])
  BY <1>3 DEF IsRunOf
<1> DEFINE P == {i \in Nat : i <= n => SoManyDevices(f, s, i)}
<1>5. 0 \in P
  <2>1. <<>> \in Seq(Entry) /\ \A j \in 1..0 : NoneDoubtful(s[j])
    OBVIOUS
  <2> QED
    BY <1>4, <2>1 DEF SoManyDevices
<1>6. ASSUME NEW i \in Nat, i \in P PROVE i + 1 \in P
  <2> SUFFICES ASSUME i + 1 <= n PROVE SoManyDevices(f, s, i + 1)
    OBVIOUS
  <2>6. i <= n /\ SoManyDevices(f, s, i)
    BY <1>6
  <2>7. f[i] \in Seq(Entry) /\ (NoneDoubtful(f[i]) => \A k \in 1..i : NoneDoubtful(s[k]))
    BY <2>6 DEF SoManyDevices
  <2>1. PICK j \in 1..n : j = i + 1 /\ j - 1 = i
    OBVIOUS
  <2>2. f[i] \in Seq(Entry) /\ s[j] \in Seq(Entry) /\ IsText(f[i]) /\ IsText(s[j])
    <3>1. i <= n /\ i \in 0..n
      BY <2>1
    <3> QED
      BY <1>1, <1>4, <1>15, <2>7, <3>1
  <2>3. f[j] = f[i] \o s[j]
    BY <1>4, <2>1
  <2>4. f[i] \o s[j] \in Seq(Entry)
    BY <2>2, ConcatProperties
  <2>5. ASSUME NoneDoubtful(f[j]), NEW k \in 1..j PROVE NoneDoubtful(s[k])
    <3>1. NoneDoubtful(f[i]) /\ NoneDoubtful(s[j])
      BY <2>2, <2>3, <2>5, NoneDoubtfulCat
    <3>2. k = j \/ k \in 1..i
      BY <2>1
    <3> QED
      BY <2>7, <3>1, <3>2
  <2>8. SoManyDevices(f, s, j)
    BY <2>3, <2>4, <2>5 DEF SoManyDevices
  <2> QED
    BY <2>1, <2>8
<1> HIDE DEF P
<1>7. Nat \subseteq P
  BY <1>5, <1>6, Induction
<1>8. \A i \in 0..n : f[i] \in Seq(Entry)
  BY <1>7 DEF P, SoManyDevices
<1>9. NoneDoubtful(f[n]) => \A j \in 1..n : NoneDoubtful(s[j])
  <2>1. n \in P
    BY <1>7
  <2> QED
    BY <2>1 DEF P, SoManyDevices
<1> DEFINE g == [i \in 0..n |-> ReadAndSet(f[i])]
<1>10. g[0] = <<>> /\ g[n] = ReadAndSet(f[n])
  <2>1. ReadAndSet(<<>>) = <<>>
    <3>1. PICK e : e = [i \in DOMAIN <<>> |-> ToShow(<<>>[i].name, <<>>[i].datum)]
      OBVIOUS
    <3>2. e = <<>>
      BY <3>1
    <3> QED
      BY <3>1, <3>2, FlattenNothing DEF ReadAndSet
  <2> QED
    BY <1>4, <2>1
<1>11. ASSUME NEW i \in 1..n PROVE g[i] = g[i - 1] \o d[i]
  <2>1. PICK x, y : x = f[i - 1] /\ y = s[i]
    OBVIOUS
  <2>2. i - 1 \in 0..n /\ i \in 0..n
    OBVIOUS
  <2>3. x \in Seq(Entry) /\ y \in Seq(Entry)
    BY <1>8, <1>15, <2>1, <2>2
  <2>4. ReadAndSet(x \o y) = ReadAndSet(x) \o ReadAndSet(y)
    BY <2>3, ReadAndSetCat
  <2>5. g[i] = ReadAndSet(f[i]) /\ g[i - 1] = ReadAndSet(x) /\ f[i] = x \o y
    BY <1>4, <2>1, <2>2
  <2>6. d[i] = ReadAndSet(y)
    BY <1>15, <2>1
  <2> HIDE DEF g
  <2> QED
    BY <2>4, <2>5, <2>6
<1> HIDE DEF g
<1>12. \A i \in 1..n : g[i] = g[i - 1] \o d[i]
  BY <1>11
<1>14. g[0] = <<>>
  BY <1>10
<1>13. FlattenSeq(d) = g[n]
  BY <1>2, <1>12, <1>14, FlattenIs
<1> QED
  BY <1>4, <1>9, <1>10, <1>13

-------------------------------------------------------------------------------
(* The first precision option of several. *)

LEMMA FirstOption ==
    ASSUME NEW t, IsText(t), NEW k \in 1..Len(t), t[k] \in Option, \A j \in 1..k - 1 : t[j] \notin Option
    PROVE  PrecisionOf(t) = t[k]
<1>1. PICK n \in Nat : n = Len(t) /\ DOMAIN t = 1..n
  BY TextLen
<1>2. PICK found : found = {i \in 1..n : t[i] \in Option}
  OBVIOUS
<1>3. PrecisionOf(t) = IF found = {} THEN Default ELSE t[Min(found)]
  BY <1>1, <1>2 DEF PrecisionOf
<1>4. k \in found
  BY <1>1, <1>2
<1>5. \A y \in found : k <= y
  <2>1. ASSUME NEW y \in found PROVE k <= y
    <3>1. y \in 1..n /\ t[y] \in Option /\ k \in 1..n
      BY <1>1, <1>2
    <3>2. ~(y \in 1..k - 1)
      BY <3>1
    <3> QED
      BY <3>1, <3>2
  <2> QED
    BY <2>1
<1>6. Min(found) \in found /\ \A y \in found : Min(found) <= y
  BY <1>4, <1>5 DEF Min
<1>7. Min(found) = k
  <2>1. PICK m \in 1..n : m = Min(found)
    BY <1>2, <1>6
  <2>2. m <= k /\ k <= m /\ k \in 1..n
    BY <1>1, <1>4, <1>5, <1>6, <2>1
  <2> QED
    BY <2>1, <2>2
<1> QED
  BY <1>3, <1>4, <1>7

LEMMA NoOption ==
    ASSUME NEW t, IsText(t), \A j \in 1..Len(t) : t[j] \notin Option
    PROVE  PrecisionOf(t) = Default
<1>1. DOMAIN t = 1..Len(t)
  BY TextLen
<1> QED
  BY <1>1 DEF PrecisionOf

LEMMA OptionPlace ==
    ASSUME NEW t, IsText(t)
    PROVE  \/ \A j \in 1..Len(t) : t[j] \notin Option
           \/ \E k \in 1..Len(t) : t[k] \in Option /\ \A j \in 1..k - 1 : t[j] \notin Option
<1>1. PICK n \in Nat : n = Len(t)
  BY TextLen
<1>2. PICK found : found = {i \in 1..n : t[i] \in Option}
  OBVIOUS
<1>3. CASE found = {}
  BY <1>1, <1>2, <1>3
<1>4. CASE found # {}
  <2>1. found \subseteq Nat
    BY <1>2
  <2>2. PICK k \in found : \A y \in found : k <= y
    BY <1>4, <2>1, LeastNat
  <2>3. k \in 1..n /\ t[k] \in Option
    BY <1>2
  <2>4. ASSUME NEW j \in 1..k - 1 PROVE t[j] \notin Option
    <3>1. j \in 1..n /\ ~(k <= j)
      BY <2>3
    <3> QED
      BY <1>2, <2>2, <3>1
  <2> QED
    BY <1>1, <2>3, <2>4
<1> QED
  BY <1>3, <1>4

\* What is none at all is none of the options.
LEMMA OptionsAreNone == ASSUME NEW x \in Option PROVE x # Default
BY OptionAssumption

LEMMA PrecisionCat ==
    ASSUME NEW a, NEW b, IsText(a), IsText(b)
    PROVE  PrecisionOf(a \o b) = IF PrecisionOf(a) # Default THEN PrecisionOf(a) ELSE PrecisionOf(b)
<1>1. PICK m, n : m = Len(a) /\ m \in Nat /\ n = Len(b) /\ n \in Nat
  BY TextLen
<1>2. PICK u : u = a \o b
  OBVIOUS
<1>3. IsText(u) /\ Len(u) = m + n /\ \A i \in 1..m + n : u[i] = IF i <= m THEN a[i] ELSE b[i - m]
  BY <1>1, <1>2, TextCat
<1>4. /\ \A i \in 1..m : i \in 1..m + n /\ u[i] = a[i]
      /\ \A i \in 1..n : m + i \in 1..m + n /\ u[m + i] = b[i]
  <2>1. ASSUME NEW i \in 1..m PROVE i \in 1..m + n /\ u[i] = a[i]
    <3>1. i \in 1..m + n /\ i <= m
      BY <1>1
    <3> QED
      BY <1>3, <3>1
  <2>2. ASSUME NEW i \in 1..n PROVE m + i \in 1..m + n /\ u[m + i] = b[i]
    <3>1. m + i \in 1..m + n /\ ~(m + i <= m) /\ (m + i) - m = i
      BY <1>1
    <3> QED
      BY <1>3, <3>1
  <2> QED
    BY <2>1, <2>2
<1>5. CASE \E k \in 1..m : a[k] \in Option /\ \A j \in 1..k - 1 : a[j] \notin Option
  <2>1. PICK k \in 1..m : a[k] \in Option /\ \A j \in 1..k - 1 : a[j] \notin Option
    BY <1>5
  <2>2. \A j \in 1..k - 1 : j \in 1..m
    BY <1>1
  <2>3. PrecisionOf(a) = a[k] /\ PrecisionOf(u) = u[k]
    BY <1>1, <1>3, <1>4, <2>1, <2>2, FirstOption
  <2> QED
    BY <1>2, <1>4, <2>1, <2>3, OptionsAreNone
<1>6. CASE \A j \in 1..m : a[j] \notin Option
  <2>1. PrecisionOf(a) = Default
    BY <1>1, <1>6, NoOption
  <2>2. CASE \E k \in 1..n : b[k] \in Option /\ \A j \in 1..k - 1 : b[j] \notin Option
    <3>1. PICK k \in 1..n : b[k] \in Option /\ \A j \in 1..k - 1 : b[j] \notin Option
      BY <2>2
    <3>2. PICK l \in 1..m + n : l = m + k /\ u[l] = b[k]
      BY <1>4
    <3>3. ASSUME NEW j \in 1..l - 1 PROVE u[j] \notin Option
      <4>1. CASE j \in 1..m
        BY <1>4, <1>6, <4>1
      <4>2. CASE j \notin 1..m
        <5>1. PICK i \in 1..k - 1 : j = m + i
          <6>1. j - m \in 1..k - 1 /\ j = m + (j - m)
            BY <1>1, <3>2, <4>2
          <6> QED
            BY <6>1
        <5>2. i \in 1..n
          BY <1>1
        <5> QED
          BY <1>4, <3>1, <5>1, <5>2
      <4> QED
        BY <4>1, <4>2
    <3>4. PrecisionOf(u) = u[l]
      BY <1>3, <3>1, <3>2, <3>3, FirstOption
    <3>5. PrecisionOf(b) = b[k]
      BY <1>1, <3>1, FirstOption
    <3> QED
      BY <1>2, <2>1, <3>2, <3>4, <3>5
  <2>3. CASE \A j \in 1..n : b[j] \notin Option
    <3>1. ASSUME NEW j \in 1..m + n PROVE u[j] \notin Option
      <4>1. CASE j <= m
        <5>1. j \in 1..m
          BY <1>1, <4>1
        <5> QED
          BY <1>4, <1>6, <5>1
      <4>2. CASE ~(j <= m)
        <5>1. j - m \in 1..n /\ u[j] = b[j - m]
          BY <1>1, <1>3, <4>2
        <5> QED
          BY <2>3, <5>1
      <4> QED
        BY <4>1, <4>2
    <3>2. PrecisionOf(u) = Default /\ PrecisionOf(b) = Default
      BY <1>1, <1>3, <2>3, <3>1, NoOption
    <3> QED
      BY <1>2, <2>1, <3>2
  <2> QED
    BY <1>1, <2>2, <2>3, OptionPlace
<1> QED
  BY <1>1, <1>5, <1>6, OptionPlace

\* precisions has the first of the options for name n, and nothing for it if there is none.
Remembers(known, options, n) ==
    IF PrecisionOf(options) = Default THEN n \notin DOMAIN known
    ELSE n \in DOMAIN known /\ known[n] = PrecisionOf(options)

LEMMA RemembersMore ==
    ASSUME NEW known, NEW options, IsText(options), NEW n, Remembers(known, options, n),
           NEW asked, IsText(asked.options)
    PROVE  Remembers(WithOption(known, asked),
                     options \o (IF asked.name = n THEN asked.options ELSE <<>>), n)
<1>1. PICK more : more = WithOption(known, asked)
  OBVIOUS
<1>2. CASE asked.name # n
  <2>1. options \o <<>> = options
    BY EmptyCat
  <2>2. (n \in DOMAIN more <=> n \in DOMAIN known) /\ (n \in DOMAIN known => more[n] = known[n])
    <3>1. CASE more = known
      BY <3>1
    <3>2. CASE more = [m \in DOMAIN known \cup {asked.name} |->
                         IF m = asked.name THEN PrecisionOf(asked.options) ELSE known[m]]
      BY <1>2, <3>2
    <3> QED
      BY <1>1, <3>1, <3>2 DEF WithOption
  <2>3. Remembers(more, options, n)
    BY <2>2 DEF Remembers
  <2> QED
    BY <1>1, <1>2, <2>1, <2>3
<1>3. CASE asked.name = n
  <2>1. PICK new, all : new = asked.options /\ all = options \o new
    OBVIOUS
  <2>2. PrecisionOf(all) = IF PrecisionOf(options) # Default THEN PrecisionOf(options) ELSE PrecisionOf(new)
    BY <2>1, PrecisionCat
  <2>3. more = IF n \in DOMAIN known \/ PrecisionOf(new) = Default THEN known
               ELSE [m \in DOMAIN known \cup {n} |-> IF m = n THEN PrecisionOf(new) ELSE known[m]]
    BY <1>1, <1>3, <2>1 DEF WithOption
  <2>4. CASE PrecisionOf(options) # Default
    <3>1. n \in DOMAIN known /\ known[n] = PrecisionOf(options)
      BY <2>4 DEF Remembers
    <3>2. more = known
      BY <2>3, <3>1
    <3>3. Remembers(more, all, n)
      BY <2>2, <2>4, <3>1, <3>2 DEF Remembers
    <3> QED
      BY <1>1, <1>3, <2>1, <3>3
  <2>5. CASE PrecisionOf(options) = Default
    <3>1. n \notin DOMAIN known
      BY <2>5 DEF Remembers
    <3>2. CASE PrecisionOf(new) = Default
      <4>1. Remembers(more, all, n)
        BY <2>2, <2>3, <2>5, <3>1, <3>2 DEF Remembers
      <4> QED
        BY <1>1, <1>3, <2>1, <4>1
    <3>3. CASE PrecisionOf(new) # Default
      <4>1. n \in DOMAIN more /\ more[n] = PrecisionOf(new)
        BY <2>3, <3>1, <3>3
      <4>2. Remembers(more, all, n)
        BY <2>2, <2>5, <3>3, <4>1 DEF Remembers
      <4> QED
        BY <1>1, <1>3, <2>1, <4>2
    <3> QED
      BY <3>2, <3>3
  <2> QED
    BY <2>4, <2>5
<1> QED
  BY <1>2, <1>3

-------------------------------------------------------------------------------
(* Texts that show no Tango data. *)

LEMMA SilentEmpty == Silent(<<>>)
BY AllowedNothing DEF Silent

LEMMA EventResponseSilent == ASSUME NEW h PROVE Silent(EventResponse(h))
<1>1. /\ Silent(LBrace \o Field("device"))
      /\ Silent(Comma \o Field("attribute"))
  BY SilentMarks, SilentField, SilentCat
<1>2. Silent(LBrace \o Field("device") \o Optional(h, Comma \o Field("attribute")))
  BY <1>1, SilentOptional, SilentCat
<1>3. Silent(LBrace \o Field("device") \o Optional(h, Comma \o Field("attribute")) \o Comma
               \o Field("event_type") \o Comma \o Field("event_sub_id") \o RBrace)
  BY <1>2, SilentMarks, SilentField, SilentCat
<1> QED
  BY <1>3 DEF EventResponse

LEMMA EventResponsesSilent ==
    ASSUME NEW r, IsText(r)
    PROVE  Silent(GenerateSuccessStringOutForEvent(r))
<1>1. PICK n \in Nat : n = Len(r) /\ DOMAIN r = 1..n
  BY TextLen
<1> DEFINE parts == [i \in 1..n |-> EventResponse(r[i])]
<1>2. parts = [i \in 1..n |-> parts[i]] /\ \A i \in 1..n : Silent(parts[i])
  BY EventResponseSilent
<1>3. GenerateSuccessStringOutForEvent(r) = LBracket \o Listed(parts) \o RBracket
  BY <1>1 DEF GenerateSuccessStringOutForEvent
<1> HIDE DEF parts
<1>4. IsText(parts) /\ Len(parts) = n
  BY <1>2, Sized
<1>5. Silent(Listed(parts))
  BY <1>2, <1>4, SilentListed
<1> QED
  BY <1>3, <1>5, SilentMarks, SilentCat

LEMMA ErrorMessSilent ==
    ASSUME NEW err, IsText(err.errorMessages)
    PROVE  Silent(GenerateErrorMess(err))
<1>1. Silent(Comma \o Key("err_mess") \o Quoted(err.errorMessage, Own))
  BY SilentMarks, SilentKey, SilentQuoted, SilentCat
<1>2. Silent(Comma \o Key("err_mess") \o QuotedList(err.errorMessages))
  BY SilentMarks, SilentKey, QuotedListSilent, SilentCat
<1>3. Silent(Optional(err.errorMessages # <<>>, Comma \o Key("err_mess") \o QuotedList(err.errorMessages)))
  BY <1>2, SilentOptional
<1> QED
  BY <1>1, <1>3 DEF GenerateErrorMess

\* Parts that show nothing, one behind the other.
LEMMA SilentAll ==
    ASSUME NEW n \in Nat, NEW s, s = [i \in 1..n |-> s[i]], \A i \in 1..n : Silent(s[i])
    PROVE  Silent(FlattenSeq(s))
BY AllowedAll DEF Silent

LEMMA ExceptionSilent ==
    ASSUME NEW err, IsText(err.errorMessages), IsText(err.errorResponses)
    PROVE  Silent(ExceptionStringOut(err))
<1> DEFINE fields == [i \in DOMAIN ErrorKeys |-> Optional(ErrorKeys[i] \in err.given, Comma \o Field(ErrorKeys[i]))]
           errors == Optional(err.errorResponses # <<>>,
                              Comma \o Key("errors") \o GenerateSuccessStringOutForEvent(err.errorResponses))
           mess == GenerateErrorMess(err)
<1>1. DOMAIN ErrorKeys = 1..6
  BY DEF ErrorKeys
<1>2. ASSUME NEW i \in 1..6 PROVE Silent(fields[i])
  <2>1. Silent(Comma \o Field(ErrorKeys[i]))
    BY SilentMarks, SilentField, SilentCat
  <2> QED
    BY <1>1, <2>1, SilentOptional
<1>3. fields = [i \in 1..6 |-> fields[i]]
  BY <1>1
<1> HIDE DEF fields
<1>4. Silent(FlattenSeq(fields))
  <2>1. PICK n \in Nat : n = 6
    OBVIOUS
  <2> QED
    BY <1>2, <1>3, <2>1, SilentAll
<1>5. Silent(errors)
  BY EventResponsesSilent, SilentMarks, SilentKey, SilentCat, SilentOptional
<1>6. Silent(mess)
  BY ErrorMessSilent
<1>7. ExceptionStringOut(err) = LBrace \o Field("event") \o FlattenSeq(fields) \o errors \o mess \o RBrace
  BY DEF ExceptionStringOut, fields
<1> HIDE DEF errors, mess
<1> QED
  BY <1>4, <1>5, <1>6, <1>7, SilentMarks, SilentField, SilentCat

LEMMA RespHeadSilent == ASSUME NEW hasId PROVE Silent(RespHead(hasId))
<1>1. Silent(LBrace \o Field("event") \o Comma \o Field("type_req") \o Comma)
  BY SilentMarks, SilentField, SilentCat
<1>2. Silent(Optional(hasId, Field("id_req") \o Comma))
  BY SilentMarks, SilentField, SilentCat, SilentOptional
<1> QED
  BY <1>1, <1>2, SilentCat DEF RespHead

LEMMA SuccessSilent == ASSUME NEW hasId PROVE Silent(SuccessRespOut(hasId))
BY RespHeadSilent, SilentField, SilentMarks, SilentCat DEF SuccessRespOut

LEMMA RespMessSilent ==
    ASSUME NEW hasId, NEW message, Silent(message)
    PROVE  Silent(GenerateRespMess(hasId, message))
BY RespHeadSilent, SilentKey, SilentMarks, SilentCat DEF GenerateRespMess

LEMMA HeadOfUpdateSilent == Silent(HeadOfUpdate)
BY SilentMarks, SilentField, SilentKey, SilentCat DEF HeadOfUpdate

LEMMA HeadOfPipeSilent == ASSUME NEW hasDevice, NEW hasId PROVE Silent(HeadOfPipe(hasDevice, hasId))
<1>1. Silent(LBrace \o Field("event") \o Comma \o Field("type_req") \o Comma)
  BY SilentMarks, SilentField, SilentCat
<1>2. /\ Silent(Optional(hasDevice, Field("device_name") \o Comma))
      /\ Silent(Optional(hasId, Field("id_req") \o Comma))
  BY SilentMarks, SilentField, SilentCat, SilentOptional
<1> QED
  BY <1>1, <1>2, SilentKey, SilentCat DEF HeadOfPipe

LEMMA OldPartSilent == ASSUME NEW t PROVE Silent(OldPart(t))
<1>1. Silent(LBrace \o Field("command_name") \o Comma) /\ Silent(LBrace \o Key("device_name"))
  BY SilentMarks, SilentField, SilentKey, SilentCat
<1>2. /\ Silent(Optional(t.sog # "GROUP", Field("device_name") \o Comma))
      /\ Silent(Optional(t.sog = "GROUP", LBrace \o Key("device_name")))
  BY <1>1, SilentMarks, SilentField, SilentCat, SilentOptional
<1>3. Silent(LBrace \o Field("command_name") \o Comma
               \o Optional(t.sog # "GROUP", Field("device_name") \o Comma) \o Key("argout")
               \o Optional(t.sog = "GROUP", LBrace \o Key("device_name")))
  BY <1>1, <1>2, SilentKey, SilentCat
<1> QED
  BY <1>1, <1>3, SilentEmpty DEF OldPart

LEMMA HeadOfTaskSilent == ASSUME NEW t, NEW useOldVersion PROVE Silent(HeadOfTask(t, useOldVersion))
<1> DEFINE start == LBrace \o Field("event") \o Comma \o Field("type_req") \o Comma
           command == Optional(t.kind = "command", Field("command_name") \o Comma)
           dev == Optional(~useOldVersion, Field("device_name") \o Comma \o command)
           attr == Optional(t.kind = "write_attr", Field("attr_name") \o Comma)
           id == Optional(t.hasId, Field("id_req") \o Comma)
           key == Key(IF t.kind = "write_attr" THEN "resp" ELSE "data")
<1>1. Silent(start)
  BY SilentMarks, SilentField, SilentCat
<1>2. Silent(command) /\ Silent(attr) /\ Silent(id) /\ Silent(key)
  BY SilentMarks, SilentField, SilentKey, SilentCat, SilentOptional
<1>3. Silent(dev)
  <2>1. Silent(Field("device_name") \o Comma \o command)
    BY <1>2, SilentMarks, SilentField, SilentCat
  <2> HIDE DEF command
  <2> QED
    BY <2>1, SilentOptional
<1>4. Silent(Optional(useOldVersion, OldPart(t)))
  BY OldPartSilent, SilentOptional
<1>5. HeadOfTask(t, useOldVersion)
        = start \o dev \o attr \o id \o key \o Optional(useOldVersion, OldPart(t))
  BY DEF HeadOfTask
<1> HIDE DEF start, command, dev, attr, id, key
<1> QED
  BY <1>1, <1>2, <1>3, <1>4, <1>5, SilentCat

\* The values of commands are no attributes and no elements of pipes.
LEMMA DataValueSilent ==
    ASSUME NEW type, NEW content, NEW of, of[2] \notin {"read", "set", "pipe"}, NEW opt, NEW isJsonString
    PROVE  Silent(DataValueToStr(type, content, of, opt, isJsonString))
BY SilentValue, SilentMarks DEF DataValueToStr, FloatToStr, Bare, Quoted

LEMMA ResultSilent ==
    ASSUME NEW r \in CommandData, NEW opt, NEW isJsonString
    PROVE  Silent(GenerateJsonFromDeviceData(r, opt, isJsonString))
<1>1. r.count \in Nat
  BY CommandAssumption
<1>2. CASE r.type \in {"void", "state", "unsupported"}
  BY <1>2, SilentPlain DEF GenerateJsonFromDeviceData
<1>3. CASE r.type \in {"numbers", "floats", "strings"}
  <2>9. PICK n \in Nat : n = r.count
    BY <1>1
  <2>1. PICK type, ofs : type = ElementType(r.type) /\ ofs = Values("argout", "result", n)
    OBVIOUS
  <2>2. DOMAIN ofs = 1..n /\ \A i \in 1..n : ofs[i] = <<"argout", "result", i>>
    BY <2>1, ValuesAre, TextLen
  <2> DEFINE parts == [i \in 1..n |-> DataValueToStr(type, r.content, ofs[i], opt, isJsonString)]
  <2>3. parts = [i \in 1..n |-> parts[i]]
    OBVIOUS
  <2>4. ASSUME NEW i \in 1..n PROVE Silent(parts[i])
    <3>1. ofs[i][2] \notin {"read", "set", "pipe"}
      BY <2>2
    <3> QED
      BY <3>1, DataValueSilent
  <2>5. GenerateJsonFromDeviceData(r, opt, isJsonString) = LBracket \o Listed(parts) \o RBracket
    BY <1>3, <2>1, <2>2, <2>9 DEF GenerateJsonFromDeviceData, DataArrayToStr
  <2> HIDE DEF parts
  <2>6. IsText(parts) /\ Len(parts) = n
    BY <2>3, Sized
  <2>7. Silent(Listed(parts))
    BY <2>4, <2>6, SilentListed
  <2> QED
    BY <2>5, <2>7, SilentMarks, SilentCat
<1>4. CASE r.type \notin {"void", "state", "unsupported", "numbers", "floats", "strings"}
  <2>1. PICK of : of = <<"argout", "result", 1>>
    OBVIOUS
  <2>2. of[2] \notin {"read", "set", "pipe"}
    BY <2>1
  <2>3. GenerateJsonFromDeviceData(r, opt, isJsonString) = DataValueToStr(r.type, r.content, of, opt, isJsonString)
    BY <1>4, <2>1 DEF GenerateJsonFromDeviceData
  <2> QED
    BY <2>2, <2>3, DataValueSilent
<1> QED
  BY <1>2, <1>3, <1>4

LEMMA JsonDataSilent == ASSUME NEW d PROVE Silent(JsonData(d))
<1>1. PICK of : of = <<"json", "raw", 1>>
  OBVIOUS
<1>2. of[2] \notin {"read", "set", "pipe"}
  BY <1>1
<1>3. Silent(Bare(d.content, of))
  BY <1>2, SilentValue, SilentMarks DEF Bare
<1>4. JsonData(d) = Key("data") \o Optional(d.type = "string" /\ d.format = "SCALAR" /\ d.quality # "INVALID",
                                            Bare(d.content, of))
  BY <1>1 DEF JsonData
<1> QED
  BY <1>3, <1>4, SilentKey, SilentOptional, SilentCat

LEMMA EventHeadSilent ==
    Silent(LBrace \o FlattenSeq([i \in DOMAIN EventKeys |-> Field(EventKeys[i]) \o Comma]))
<1> DEFINE fields == [i \in DOMAIN EventKeys |-> Field(EventKeys[i]) \o Comma]
<1>1. DOMAIN EventKeys = 1..7
  BY DEF EventKeys
<1>2. \A i \in 1..7 : Silent(fields[i])
  BY <1>1, SilentMarks, SilentField, SilentCat
<1>3. fields = [i \in 1..7 |-> fields[i]]
  BY <1>1
<1> HIDE DEF fields
<1>4. PICK n \in Nat : n = 7
  OBVIOUS
<1>5. Silent(FlattenSeq(fields))
  BY <1>2, <1>3, <1>4, SilentAll
<1>6. Silent(LBrace \o FlattenSeq(fields))
  BY <1>5, SilentMarks, SilentCat
<1> QED
  BY <1>6 DEF fields

-------------------------------------------------------------------------------
(* Each text shows what it is about. *)

PipesToShow(pipes) == FlattenSeq([i \in DOMAIN pipes |-> PipeToShow(pipes[i].elements)])

TextIsRight(t, a) ==
    Shows(t, a.fit /\ NoneDoubtful(a.attrs), ReadAndSet(a.attrs) \o PipesToShow(a.pipes), a.want)

LEMMA SaidRight ==
    ASSUME NEW t, NEW a, Say(t, a), TextIsRight(t, a)
    PROVE  DataIsRead' /\ PrecisionAsAsked'
<1>1. text' = t /\ about' = a
  BY DEF Say
<1>2. Allowed(t, TRUE, a.want)
      /\ (a.fit /\ NoneDoubtful(a.attrs) => DataShown(t) = ReadAndSet(a.attrs) \o PipesToShow(a.pipes))
  BY DEF TextIsRight, Shows
<1>3. IsText(t) /\ \A i \in 1..Len(t) : DatumShown(t[i]) => AsWished(t[i], a.want)
  BY <1>2 DEF Allowed
<1>4. DOMAIN t = 1..Len(t)
  BY <1>3, TextLen
<1>5. PrecisionAsAsked'
  BY <1>1, <1>3, <1>4 DEF PrecisionAsAsked
<1>6. DataIsRead'
  BY <1>1, <1>2 DEF DataIsRead, NoneDoubtful, PipesToShow
<1> QED
  BY <1>5, <1>6

LEMMA NoDataToShow == ReadAndSet(<<>>) = <<>> /\ PipesToShow(<<>>) = <<>>
<1>1. ReadAndSet(<<>>) = <<>>
  <2>1. [i \in DOMAIN <<>> |-> ToShow(<<>>[i].name, <<>>[i].datum)] = <<>>
    OBVIOUS
  <2> QED
    BY <2>1, FlattenNothing DEF ReadAndSet
<1>2. PipesToShow(<<>>) = <<>>
  <2>1. [i \in DOMAIN <<>> |-> PipeToShow(<<>>[i].elements)] = <<>>
    OBVIOUS
  <2> QED
    BY <2>1, FlattenNothing DEF PipesToShow
<1> QED
  BY <1>1, <1>2

LEMMA RightWithoutData ==
    ASSUME NEW t, Silent(t), NEW want, NEW fit
    PROVE  TextIsRight(t, About(<<>>, <<>>, want, fit))
<1>1. PICK a : a = About(<<>>, <<>>, want, fit)
  OBVIOUS
<1>2. a.attrs = <<>> /\ a.pipes = <<>>
  BY <1>1 DEF About
<1>3. ReadAndSet(a.attrs) \o PipesToShow(a.pipes) = <<>>
  BY <1>2, NoDataToShow, EmptyCat, TextEmpty
<1>4. TextIsRight(t, a)
  BY <1>3, ShowsNothing DEF TextIsRight
<1> QED
  BY <1>1, <1>4

\* What was neither read nor told leaves the properties as they are.
LEMMA NothingSaid ==
    ASSUME text' = <<>>, about' = NoAnswer
    PROVE  DataIsRead' /\ PrecisionAsAsked'
<1>1. PICK a : a = NoAnswer
  OBVIOUS
<1>2. a.attrs = <<>> /\ a.pipes = <<>>
  BY <1>1 DEF NoAnswer, About
<1>3. DataShown(text') = ReadAndSet(a.attrs) \o PipesToShow(a.pipes)
  BY <1>2, NoDataToShow, DataOfNothing, EmptyCat, TextEmpty
<1>4. DataIsRead'
  BY <1>1, <1>3 DEF DataIsRead, PipesToShow
<1>5. PrecisionAsAsked'
  BY TextEmpty, TextLen DEF PrecisionAsAsked
<1> QED
  BY <1>4, <1>5

LEMMA UpdateFailsRight == ASSUME UpdateFails PROVE DataIsRead' /\ PrecisionAsAsked'
<1>1. PICK message \in Content :
        Say(ExceptionStringOut(Error({"type_req", "device_name"}, message, <<>>)),
            About(<<>>, <<>>, NoWish, message = "plain"))
  BY DEF UpdateFails
<1> DEFINE err == Error({"type_req", "device_name"}, message, <<>>)
<1>2. err.errorMessages = <<>> /\ err.errorResponses = <<>>
  BY DEF Error
<1> HIDE DEF err
<1>3. Silent(ExceptionStringOut(err))
  BY <1>2, TextEmpty, ExceptionSilent
<1> QED
  BY <1>1, <1>3, RightWithoutData, SaidRight DEF err

LEMMA AttrWriteRight == ASSUME AttrWriteResponse PROVE DataIsRead' /\ PrecisionAsAsked'
<1>1. PICK hasId \in BOOLEAN :
        Say(HeadOfTask(Task("write_attr", "SINGLE", hasId), FALSE) \o Plain \o RBrace, NoAnswer)
  BY DEF AttrWriteResponse
<1>2. Silent(HeadOfTask(Task("write_attr", "SINGLE", hasId), FALSE) \o Plain \o RBrace)
  BY HeadOfTaskSilent, SilentPlain, SilentMarks, SilentCat
<1> QED
  BY <1>1, <1>2, RightWithoutData, SaidRight DEF NoAnswer

LEMMA UserStatusRight == ASSUME UserStatus PROVE DataIsRead' /\ PrecisionAsAsked'
<1>1. PICK login \in Content :
        Say(LBrace \o Field("event") \o Comma \o Field("type_req") \o Comma \o Key("data") \o LBrace
              \o Field("status") \o Comma \o Key("username") \o Quoted(login, Own)
              \o RBrace \o RBrace,
            About(<<>>, <<>>, NoWish, login = "plain"))
  BY DEF UserStatus
<1>2. Silent(LBrace \o Field("event") \o Comma \o Field("type_req") \o Comma \o Key("data") \o LBrace
               \o Field("status") \o Comma \o Key("username"))
  BY SilentMarks, SilentField, SilentKey, SilentCat
<1>3. Silent(LBrace \o Field("event") \o Comma \o Field("type_req") \o Comma \o Key("data") \o LBrace
               \o Field("status") \o Comma \o Key("username") \o Quoted(login, Own)
               \o RBrace \o RBrace)
  BY <1>2, SilentMarks, SilentQuoted, SilentCat
<1> QED
  BY <1>1, <1>3, RightWithoutData, SaidRight

LEMMA RefusalRight == ASSUME Refusal PROVE DataIsRead' /\ PrecisionAsAsked'
<1>1. PICK given \in SUBSET {"type_req", "id_req", "device_name"}, message \in Content \cup {"none"},
           messages \in {<<>>, <<"plain">>, <<"plain", "quotes">>},
           responses \in {<<>>, <<TRUE>>, <<FALSE, TRUE>>} :
        Say(ExceptionStringOut([Error(given, message, messages) EXCEPT !.errorResponses = responses]),
            About(<<>>, <<>>, NoWish,
                  IF message = "none" THEN FitErrors(messages) ELSE message = "plain"))
  BY DEF Refusal
<1> DEFINE err == [Error(given, message, messages) EXCEPT !.errorResponses = responses]
<1>2. err.errorMessages = messages /\ err.errorResponses = responses
  BY DEF Error
<1>3. IsText(messages) /\ IsText(responses)
  BY TextEmpty, TextOne, TextTwo
<1> HIDE DEF err
<1>4. Silent(ExceptionStringOut(err))
  BY <1>2, <1>3, ExceptionSilent
<1> QED
  BY <1>1, <1>4, RightWithoutData, SaidRight DEF err

LEMMA AcknowledgementRight == ASSUME Acknowledgement PROVE DataIsRead' /\ PrecisionAsAsked'
<1>1. PICK hasId \in BOOLEAN, responses \in {<<TRUE>>, <<FALSE, TRUE>>}, login \in Content :
        \/ Say(SuccessRespOut(hasId), NoAnswer)
        \/ Say(ResponseStringOutForEventSub(hasId, responses), NoAnswer)
        \/ Say(ResponseStringOut(hasId, login), About(<<>>, <<>>, NoWish, login = "plain"))
  BY DEF Acknowledgement
<1>2. IsText(responses)
  BY TextOne, TextTwo
<1>3. Silent(SuccessRespOut(hasId)) /\ Silent(ResponseStringOutForEventSub(hasId, responses))
  BY <1>2, SuccessSilent, EventResponsesSilent, RespMessSilent DEF ResponseStringOutForEventSub
<1>4. Silent(ResponseStringOut(hasId, login))
  BY SilentQuoted, RespMessSilent DEF ResponseStringOut
<1> QED
  BY <1>1, <1>3, <1>4, RightWithoutData, SaidRight DEF NoAnswer

LEMMA CommandRight == ASSUME CommandResponse PROVE DataIsRead' /\ PrecisionAsAsked'
<1>1. PICK names \in Asked, key \in Precisions, sog \in Sog, r \in CommandData, jsonout \in BOOLEAN :
        Say(HeadOfTask(Task("command", sog, TRUE), old)
              \o GenerateJsonFromDeviceData(r, CommandPrecision(names[1], key), jsonout)
              \o Optional(old, RBrace \o Optional(sog = "GROUP", RBrace)) \o RBrace,
            About(<<>>, <<>>, NoWish, FitResult(r, jsonout)))
  BY DEF CommandResponse
<1> DEFINE head == HeadOfTask(Task("command", sog, TRUE), old)
           value == GenerateJsonFromDeviceData(r, CommandPrecision(names[1], key), jsonout)
           close == Optional(old, RBrace \o Optional(sog = "GROUP", RBrace))
<1>2. Silent(head) /\ Silent(value)
  BY HeadOfTaskSilent, ResultSilent
<1>3. Silent(close)
  BY SilentMarks, SilentOptional, SilentCat
<1> HIDE DEF head, value, close
<1>4. Silent(head \o value \o close \o RBrace)
  BY <1>2, <1>3, SilentMarks, SilentCat
<1> QED
  BY <1>1, <1>4, RightWithoutData, SaidRight DEF head, value, close

-------------------------------------------------------------------------------
(* The precisions the properties of the device server ask for. *)

IsRemembering(f, list, n) ==
    f = [i \in 0..n |-> IF i = 0 THEN <<>> ELSE WithOption(f[i - 1], list[i])]

LEMMA RememberingExists ==
    ASSUME NEW list
    PROVE  \A n \in Nat : \E f : IsRemembering(f, list, n)
<1> DEFINE P == {n \in Nat : \E f : IsRemembering(f, list, n)}
           More(known, i) == WithOption(known, list[i])
<1>1. 0 \in P
  <2> DEFINE f == [i \in 0..0 |-> <<>>]
  <2>1. f = [i \in 0..0 |-> IF i = 0 THEN <<>> ELSE More(f[i - 1], i)]
    OBVIOUS
  <2> HIDE DEF f
  <2>2. IsRemembering(f, list, 0)
    BY <2>1 DEF IsRemembering
  <2> QED
    BY <2>2
<1>2. ASSUME NEW n \in Nat, n \in P PROVE n + 1 \in P
  <2>1. PICK f : IsRemembering(f, list, n)
    BY <1>2
  <2>2. f = [i \in 0..n |-> IF i = 0 THEN <<>> ELSE More(f[i - 1], i)]
    BY <2>1 DEF IsRemembering
  <2> HIDE DEF More
  <2>3. \A i \in 0..n : f[i] = IF i = 0 THEN <<>> ELSE More(f[i - 1], i)
    BY <2>2, ZenonT(40)
  <2> DEFINE g == [i \in 0..n + 1 |-> IF i <= n THEN f[i] ELSE More(f[n], n + 1)]
  <2>4. ASSUME NEW i \in 0..n + 1 PROVE g[i] = IF i = 0 THEN <<>> ELSE More(g[i - 1], i)
    <3>1. CASE i = n + 1
      <4>1. g[i] = More(f[n], n + 1) /\ g[i - 1] = f[n] /\ i # 0
        BY <3>1
      <4> QED
        BY <3>1, <4>1
    <3>2. CASE i \in 0..n
      <4>1. g[i] = f[i] /\ (i # 0 => g[i - 1] = f[i - 1])
        BY <3>2
      <4> QED
        BY <2>3, <3>2, <4>1
    <3> QED
      BY <3>1, <3>2
  <2>5. g = [i \in 0..n + 1 |-> g[i]]
    OBVIOUS
  <2> HIDE DEF g
  <2>6. g = [i \in 0..n + 1 |-> IF i = 0 THEN <<>> ELSE More(g[i - 1], i)]
    BY <2>4, <2>5
  <2>7. IsRemembering(g, list, n + 1)
    BY <2>6 DEF IsRemembering, More
  <2> QED
    BY <2>7
<1> HIDE DEF P
<1>3. Nat \subseteq P
  BY <1>1, <1>2, Induction
<1> QED
  BY <1>3 DEF P

LEMMA RememberingSteps ==
    ASSUME NEW list, Len(list) \in Nat
    PROVE  \E f : /\ f[0] = <<>> /\ OptionsOf(list) = f[Len(list)]
                  /\ \A i \in 1..Len(list) : f[i] = WithOption(f[i - 1], list[i])
<1>1. PICK n \in Nat : n = Len(list)
  OBVIOUS
<1> DEFINE f == CHOOSE f : IsRemembering(f, list, n)
<1>2. IsRemembering(f, list, n)
  BY RememberingExists, ZenonT(40)
<1>3. OptionsOf(list) = f[n]
  BY <1>1 DEF OptionsOf, IsRemembering
<1> HIDE DEF f
<1>4. \A i \in 0..n : f[i] = IF i = 0 THEN <<>> ELSE WithOption(f[i - 1], list[i])
  BY <1>2, ZenonT(40) DEF IsRemembering
<1>5. f[0] = <<>>
  <2>1. 0 \in 0..n
    OBVIOUS
  <2> QED
    BY <1>4, <2>1
<1>6. ASSUME NEW i \in 1..n PROVE f[i] = WithOption(f[i - 1], list[i])
  <2>1. i \in 0..n /\ i # 0
    OBVIOUS
  <2> QED
    BY <1>4, <2>1
<1> QED
  BY <1>1, <1>3, <1>5, <1>6

\* Names with their options, of whatever kind the names are.
AreNamed(list) == IsText(list) /\ \A i \in 1..Len(list) : IsText(list[i].options)

\* The map of the options of a list has the first option any entry of a name has.
LEMMA OptionsRemembered ==
    ASSUME NEW list, AreNamed(list), NEW name
    PROVE  Remembers(OptionsOf(list), OptionsFor(name, list), name)
<1>1. PICK n \in Nat : n = Len(list) /\ DOMAIN list = 1..n
  BY TextLen DEF AreNamed
<1>2. \A i \in 1..n : IsText(list[i].options)
  BY <1>1 DEF AreNamed
<1>3. PICK f : /\ f[0] = <<>> /\ OptionsOf(list) = f[n]
               /\ \A i \in 1..n : f[i] = WithOption(f[i - 1], list[i])
  BY <1>1, RememberingSteps
<1> DEFINE own == [i \in 1..n |-> IF list[i].name = name THEN list[i].options ELSE <<>>]
<1>4. OptionsFor(name, list) = FlattenSeq(own)
  BY <1>1 DEF OptionsFor
<1>5. own = [i \in 1..n |-> own[i]]
      /\ \A i \in 1..n : own[i] = IF list[i].name = name THEN list[i].options ELSE <<>>
  OBVIOUS
<1> HIDE DEF own
<1>6. AreTexts(own, n)
  BY <1>2, <1>5, TextEmpty DEF AreTexts
<1>7. PICK g : IsRunOf(g, own, n)
  BY <1>6, FlattenRun
<1>8. /\ g[0] = <<>> /\ g[n] = FlattenSeq(own)
      /\ \A i \in 1..n : g[i] = g[i - 1] \o own[i]
      /\ \A i \in 0..n : IsText(g[i])
  BY <1>7 DEF IsRunOf
<1> DEFINE P == {i \in Nat : i <= n => Remembers(f[i], g[i], name)}
<1>9. 0 \in P
  <2>1. PrecisionOf(<<>>) = Default
    BY NoOption, TextEmpty
  <2>2. DOMAIN <<>> = {}
    OBVIOUS
  <2>3. Remembers(<<>>, <<>>, name)
    BY <2>1, <2>2 DEF Remembers
  <2> QED
    BY <1>3, <1>8, <2>3
<1>10. ASSUME NEW i \in Nat, i \in P PROVE i + 1 \in P
  <2> SUFFICES ASSUME i + 1 <= n PROVE Remembers(f[i + 1], g[i + 1], name)
    OBVIOUS
  <2>1. i <= n /\ Remembers(f[i], g[i], name)
    BY <1>10
  <2>2. PICK j \in 1..n : j = i + 1 /\ j - 1 = i
    OBVIOUS
  <2>3. PICK known, options, asked : known = f[i] /\ options = g[i] /\ asked = list[j]
    OBVIOUS
  <2>4. IsText(options) /\ IsText(asked.options)
    BY <1>2, <1>8, <2>1, <2>3
  <2>5. Remembers(WithOption(known, asked), options \o (IF asked.name = name THEN asked.options ELSE <<>>), name)
    BY <2>1, <2>3, <2>4, RemembersMore
  <2>6. f[j] = WithOption(known, asked)
    BY <1>3, <2>2, <2>3
  <2>7. g[j] = options \o (IF asked.name = name THEN asked.options ELSE <<>>)
    BY <1>5, <1>8, <2>2, <2>3
  <2> QED
    BY <2>2, <2>5, <2>6, <2>7
<1> HIDE DEF P
<1>11. n \in P
  BY <1>9, <1>10, Induction
<1> QED
  BY <1>3, <1>4, <1>8, <1>11 DEF P

LEMMA NoOptionsFor ==
    ASSUME NEW list, AreNamed(list), NEW name, \A i \in 1..Len(list) : list[i].name # name
    PROVE  PrecisionOf(OptionsFor(name, list)) = Default
<1>1. PICK n \in Nat : n = Len(list) /\ DOMAIN list = 1..n
  BY TextLen DEF AreNamed
<1> DEFINE own == [i \in 1..n |-> IF list[i].name = name THEN list[i].options ELSE <<>>]
<1>2. OptionsFor(name, list) = FlattenSeq(own)
  BY <1>1 DEF OptionsFor
<1>3. own = [i \in 1..n |-> own[i]] /\ \A i \in 1..n : own[i] = <<>>
  BY <1>1
<1> HIDE DEF own
<1>4. AreTexts(own, n)
  BY <1>3, TextEmpty DEF AreTexts
<1> DEFINE g == [i \in 0..n |-> <<>>]
<1>5. g[0] = <<>> /\ g[n] = <<>> /\ \A i \in 1..n : g[i] = <<>> /\ g[i - 1] = <<>>
  OBVIOUS
<1>6. \A i \in 1..n : g[i] = g[i - 1] \o own[i]
  <2>1. <<>> \o <<>> = <<>>
    OBVIOUS
  <2> QED
    BY <1>3, <1>5, <2>1
<1> HIDE DEF g
<1>8. g[0] = <<>>
  BY <1>5
<1>9. FlattenSeq(own) = g[n]
  BY <1>4, <1>6, <1>8, FlattenIs
<1>7. FlattenSeq(own) = <<>>
  BY <1>5, <1>9
<1> QED
  BY <1>2, <1>7, NoOption, TextEmpty

LEMMA PropertyAsked ==
    ASSUME NEW list, AreNamed(list), NEW name
    PROVE  Precision(OptionsOf(list), name) \in Wished(Wanted(list), name)
<1>1. PICK n \in Nat : n = Len(list) /\ DOMAIN list = 1..n
  BY TextLen DEF AreNamed
<1>2. PICK known, options : known = OptionsOf(list) /\ options = OptionsFor(name, list)
  OBVIOUS
<1>3. Remembers(known, options, name)
  BY <1>2, OptionsRemembered
<1>4. Precision(known, name) = PrecisionOf(options)
  BY <1>3 DEF Remembers, Precision
<1>5. CASE name \in {list[i].name : i \in DOMAIN list}
  <2>1. name \in DOMAIN Wanted(list) /\ Wanted(list)[name] = {PrecisionOf(options)}
    BY <1>2, <1>5 DEF Wanted
  <2> QED
    BY <1>2, <1>4, <2>1 DEF Wished
<1>6. CASE name \notin {list[i].name : i \in DOMAIN list}
  <2>1. PrecisionOf(options) = Default
    BY <1>1, <1>2, <1>6, NoOptionsFor
  <2>2. name \notin DOMAIN Wanted(list)
    BY <1>6 DEF Wanted
  <2> QED
    BY <1>2, <1>4, <2>1, <2>2 DEF Wished
<1> QED
  BY <1>5, <1>6

LEMMA NamedAre ==
    ASSUME NEW names, NEW list \in Seq(Name(names))
    PROVE  AreNamed(list)
<1>1. IsText(list)
  BY TokensAreText
<1>2. ASSUME NEW i \in 1..Len(list) PROVE IsText(list[i].options)
  <2>1. PICK entry : entry = list[i] /\ entry \in Name(names)
    OBVIOUS
  <2>2. entry.options \in Seq(Option \cup {Niter})
    BY <2>1 DEF Name
  <2> QED
    BY <2>1, <2>2, TokensAreText
<1> QED
  BY <1>1, <1>2 DEF AreNamed

\* The precisions a gateway was made with are the ones its properties ask for.
AsConfigured(names, opts, pipeOpts, want) ==
    /\ \A i \in 1..Len(names) : Asks(names[i], Precision(opts, names[i]), want)
    /\ PipeAsked(pipeOpts, want)

LEMMA AttributesAsked ==
    ASSUME NEW list \in Seq(Name(Attr \cup {AllAttrs})), NEW want, want.attrs = Wanted(list)
    PROVE  \A i \in 1..Len(InitAttr(list).names) :
              Asks(InitAttr(list).names[i], Precision(InitAttr(list).opts, InitAttr(list).names[i]), want)
<1>1. PICK names, opts : names = InitAttr(list).names /\ opts = InitAttr(list).opts
  OBVIOUS
<1>2. opts = OptionsOf(ListToRead(list))
  BY <1>1 DEF InitAttr
<1>3. CASE HasAllAttrs(list)
  <2>1. PICK read : read = ListToRead(list) /\ read = <<>>
    BY <1>3 DEF ListToRead, ListOfAllAttributes
  <2>2. PICK n \in Nat : n = Len(read) /\ n = 0
    BY <2>1
  <2> DEFINE f == CHOOSE f : IsNaming(f, read, n)
  <2>3. IsNaming(f, read, n)
    BY NamingExists, ZenonT(40)
  <2>4. InitAttr(list).names = f[n]
    BY <2>1, <2>2 DEF InitAttr, IsNaming
  <2> HIDE DEF f
  <2>5. \A i \in 0..n : f[i] = IF i = 0 THEN <<>>
                               ELSE IF Contains(f[i - 1], read[i].name) THEN f[i - 1]
                               ELSE Append(f[i - 1], read[i].name)
    BY <2>3, ZenonT(40) DEF IsNaming
  <2>6. n \in 0..n /\ n = 0
    BY <2>2
  <2>7. f[n] = <<>>
    BY <2>5, <2>6
  <2>8. Len(names) = 0
    BY <1>1, <2>4, <2>7
  <2> QED
    BY <1>1, <2>8
<1>4. CASE ~HasAllAttrs(list)
  <2>1. opts = OptionsOf(list)
    BY <1>2, <1>4 DEF ListToRead
  <2>2. AreNamed(list)
    BY NamedAre
  <2>3. ASSUME NEW name PROVE Asks(name, Precision(opts, name), want)
    BY <2>1, <2>2, PropertyAsked DEF Asks
  <2> QED
    BY <1>1, <2>3
<1> QED
  BY <1>3, <1>4

LEMMA PipePropertyAsked ==
    ASSUME NEW pipe \in Seq(Name(Attr)), NEW want,
           want.pipe = IF pipe = <<>> THEN <<>> ELSE Wanted(Tail(pipe))
    PROVE  PipeAsked(InitPipe(pipe), want)
<1>1. CASE pipe = <<>>
  <2>1. InitPipe(pipe) = <<>> /\ want.pipe = <<>> /\ DOMAIN <<>> = {}
    BY <1>1 DEF InitPipe
  <2>2. ASSUME NEW name PROVE Precision(InitPipe(pipe), name) \in Wished(want.pipe, name)
    BY <2>1 DEF Precision, Wished
  <2> QED
    BY <2>2 DEF PipeAsked, AsksPipe
<1>2. CASE pipe # <<>>
  <2>1. PICK rest : rest = Tail(pipe) /\ rest \in Seq(Name(Attr))
    BY <1>2, HeadTailProperties
  <2>2. AreNamed(rest)
    BY <2>1, NamedAre
  <2>3. InitPipe(pipe) = OptionsOf(rest) /\ want.pipe = Wanted(rest)
    BY <1>2, <2>1 DEF InitPipe
  <2>4. ASSUME NEW name PROVE Precision(InitPipe(pipe), name) \in Wished(want.pipe, name)
    BY <2>2, <2>3, PropertyAsked
  <2> QED
    BY <2>4 DEF PipeAsked, AsksPipe
<1> QED
  BY <1>1, <1>2

Configured == AsConfigured(attributes, precisions, pipePrecisions, wanted)

LEMMA InitConfigured == Init => Configured
<1> SUFFICES ASSUME Init PROVE Configured
  OBVIOUS
<1>1. PICK c \in Configs :
        /\ attributes = InitAttr(c.attributes).names /\ precisions = InitAttr(c.attributes).opts
        /\ pipePrecisions = InitPipe(c.pipe)
        /\ wanted = [attrs |-> Wanted(c.attributes),
                     pipe |-> IF c.pipe = <<>> THEN <<>> ELSE Wanted(Tail(c.pipe))]
  BY DEF Init
<1>2. c.attributes \in Seq(Name(Attr \cup {AllAttrs})) /\ c.pipe \in Seq(Name(Attr))
  BY ConfigAssumption
<1>3. /\ wanted.attrs = Wanted(c.attributes)
      /\ wanted.pipe = IF c.pipe = <<>> THEN <<>> ELSE Wanted(Tail(c.pipe))
  BY <1>1
<1>4. \A i \in 1..Len(attributes) : Asks(attributes[i], Precision(precisions, attributes[i]), wanted)
  BY <1>1, <1>2, <1>3, AttributesAsked
<1>5. PipeAsked(pipePrecisions, wanted)
  BY <1>1, <1>2, <1>3, PipePropertyAsked
<1> QED
  BY <1>4, <1>5 DEF Configured, AsConfigured

-------------------------------------------------------------------------------
(* The precisions a request asks for. *)

LEMMA MaxIn ==
    ASSUME NEW n \in Nat, NEW S \in SUBSET (1..n), S # {}
    PROVE  Max(S) \in S
<1> DEFINE T == {n - i : i \in S}
<1>6. \A i \in S : n - i \in Nat
  OBVIOUS
<1>7. \A k \in T : k \in Nat
  BY <1>6
<1>1. T \in SUBSET Nat /\ T # {}
  BY <1>7
<1>2. PICK m \in T : \A k \in T : m <= k
  BY <1>1, LeastNat
<1>3. PICK x \in S : m = n - x
  BY <1>2
<1>4. ASSUME NEW y \in S PROVE x >= y
  <2>1. n - y \in T
    OBVIOUS
  <2>2. n - x <= n - y
    BY <1>2, <1>3, <2>1
  <2>3. x \in 1..n /\ y \in 1..n
    OBVIOUS
  <2> QED
    BY <2>2, <2>3
<1>5. \E z \in S : \A y \in S : z >= y
  BY <1>4
<1> HIDE DEF T
<1> QED
  BY <1>5 DEF Max

\* name is one of n names.
OneOf(name, names, n) == n \in Nat /\ DOMAIN names = 1..n /\ \E k \in 1..n : names[k].name = name

\* x is what option has for one of the entries of the name.
FromEntry(x, option, name, names, n) == \E i \in 1..n : names[i].name = name /\ x = option[i]

\* What the map has for a name is the option of one of the entries of that name.
LEMMA MappedIs ==
    ASSUME NEW n, NEW names, NEW name, OneOf(name, names, n), NEW option
    PROVE  FromEntry(Precision(Mapped(names, option), name), option, name, names, n)
<1>6. n \in Nat /\ DOMAIN names = 1..n
  BY DEF OneOf
<1>7. PICK k \in 1..n : names[k].name = name
  BY DEF OneOf
<1>1. PICK known : known = Mapped(names, option)
  OBVIOUS
<1> DEFINE given == {i \in 1..n : names[i].name = name /\ option[i] # Default}
           domain == {names[i].name : i \in {j \in 1..n : option[j] # Default}}
<1>2. known = [m \in domain |-> option[Max({i \in 1..n : names[i].name = m /\ option[i] # Default})]]
  BY <1>1, <1>6 DEF Mapped
<1>3. DOMAIN known = domain /\ (name \in domain => known[name] = option[Max(given)])
  BY <1>2
<1>4. CASE given = {}
  <2>1. option[k] = Default
    BY <1>4, <1>7
  <2>2. name \notin domain
    BY <1>4
  <2>3. Precision(known, name) = Default
    BY <1>3, <2>2 DEF Precision
  <2> QED
    BY <1>1, <1>7, <2>1, <2>3 DEF FromEntry
<1>5. CASE given # {}
  <2>1. given \in SUBSET (1..n)
    OBVIOUS
  <2>2. Max(given) \in given
    BY <1>5, <1>6, <2>1, MaxIn
  <2>3. PICK i \in 1..n : i = Max(given) /\ names[i].name = name /\ option[i] # Default
    BY <2>2
  <2>4. name \in domain
    BY <2>3
  <2>5. Precision(known, name) = option[i]
    BY <1>3, <2>3, <2>4 DEF Precision
  <2> QED
    BY <1>1, <2>3, <2>5 DEF FromEntry
<1> QED
  BY <1>4, <1>5

LEMMA ListAsPromised ==
    ASSUME NEW n, NEW names, NEW name, OneOf(name, names, n), NEW key
    PROVE  \E i \in 1..n : /\ names[i].name = name
                           /\ Precision(ListPrecisions(names, key), name) = Promised(names, key, i)
<1>5. ASSUME NEW option
      PROVE  \E i \in 1..n : names[i].name = name /\ Precision(Mapped(names, option), name) = option[i]
  BY MappedIs DEF FromEntry
<1>6. DOMAIN names = 1..n /\ \E i \in 1..n : names[i].name = name
  BY DEF OneOf
<1>1. CASE key.form = "VALUE"
  <2>1. PICK option : option = [i \in DOMAIN names |-> key.list[1]]
    OBVIOUS
  <2>2. PICK i \in 1..n : names[i].name = name /\ Precision(Mapped(names, option), name) = option[i]
    BY <1>5
  <2>3. ListPrecisions(names, key) = Mapped(names, option) /\ option[i] = Promised(names, key, i)
    BY <1>1, <1>6, <2>1 DEF ListPrecisions, Promised
  <2> QED
    BY <2>2, <2>3
<1>2. CASE key.form = "ARRAY"
  <2>1. PICK option : option = [i \in DOMAIN names |->
                                  IF i <= Len(key.list) THEN key.list[i] ELSE Default]
    OBVIOUS
  <2>2. PICK i \in 1..n : names[i].name = name /\ Precision(Mapped(names, option), name) = option[i]
    BY <1>5
  <2>3. ListPrecisions(names, key) = Mapped(names, option) /\ option[i] = Promised(names, key, i)
    BY <1>2, <1>6, <2>1 DEF ListPrecisions, Promised
  <2> QED
    BY <2>2, <2>3
<1>3. CASE key.form = "OBJECT"
  BY <1>3, <1>6 DEF ListPrecisions, ObjectPrecisions, Promised
<1>4. CASE key.form \notin {"VALUE", "ARRAY", "OBJECT"}
  <2>1. PICK option : option = [i \in DOMAIN names |-> PrecisionOf(names[i].options)]
    OBVIOUS
  <2>2. PICK i \in 1..n : names[i].name = name /\ Precision(Mapped(names, option), name) = option[i]
    BY <1>5
  <2>3. ListPrecisions(names, key) = Mapped(names, option) /\ option[i] = Promised(names, key, i)
    BY <1>4, <1>6, <2>1 DEF ListPrecisions, Promised
  <2> QED
    BY <2>2, <2>3
<1> QED
  BY <1>1, <1>2, <1>3, <1>4

LEMMA RequestAsked ==
    ASSUME NEW n \in Nat, NEW names, DOMAIN names = 1..n, NEW key, NEW k \in 1..n,
           NEW want, want.attrs = WishFor(names, key)
    PROVE  Asks(names[k].name, Precision(ListPrecisions(names, key), names[k].name), want)
<1>1. PICK name, opt : name = names[k].name /\ opt = Precision(ListPrecisions(names, key), name)
  OBVIOUS
<1>6. OneOf(name, names, n)
  BY <1>1 DEF OneOf
<1>2. PICK i \in 1..n : names[i].name = name /\ opt = Promised(names, key, i)
  BY <1>1, <1>6, ListAsPromised
<1>3. name \in {names[j].name : j \in DOMAIN names}
  BY <1>1
<1>4. WishFor(names, key)[name] = {Promised(names, key, j) : j \in {h \in DOMAIN names : names[h].name = name}}
      /\ name \in DOMAIN WishFor(names, key)
  BY <1>3 DEF WishFor
<1>5. opt \in WishFor(names, key)[name]
  BY <1>2, <1>4
<1> QED
  BY <1>1, <1>4, <1>5 DEF Asks, Wished

LEMMA ObjectAsked ==
    ASSUME NEW opts, NEW want, want.pipe = Exactly(opts)
    PROVE  PipeAsked(opts, want)
<1>1. ASSUME NEW n PROVE Precision(opts, n) \in Wished(want.pipe, n)
  BY DEF Precision, Wished, Exactly
<1> QED
  BY <1>1 DEF PipeAsked, AsksPipe

LEMMA FlattenOne == ASSUME NEW x, IsText(x) PROVE FlattenSeq(<<x>>) = x
<1>1. PICK n, s : n = 1 /\ s = <<x>>
  OBVIOUS
<1>2. s = [i \in 1..n |-> s[i]] /\ \A i \in 1..n : s[i] = x
  BY <1>1
<1>3. AreTexts(s, n)
  BY <1>1, <1>2 DEF AreTexts
<1> DEFINE g == [i \in 0..1 |-> IF i = 0 THEN <<>> ELSE x]
<1>4. g[0] = <<>> /\ g[n] = x
  BY <1>1
<1>5. ASSUME NEW i \in 1..n PROVE g[i] = g[i - 1] \o s[i]
  <2>1. g[i] = x /\ g[i - 1] = <<>> /\ s[i] = x
    BY <1>1, <1>2
  <2>2. <<>> \o x = x
    BY EmptyCat
  <2> QED
    BY <2>1, <2>2
<1> HIDE DEF g
<1>6. g[0] = <<>>
  BY <1>4
<1>7. FlattenSeq(s) = g[n]
  BY <1>3, <1>5, <1>6, FlattenIs
<1> QED
  BY <1>1, <1>4, <1>7

LEMMA PipeToShowIsText == ASSUME NEW p, IsText(p) PROVE IsText(PipeToShow(p))
<1>1. PICK u : ShownUntil(p, u)
  BY UntilExists
<1>2. u \in Nat /\ PipeToShow(p) = NamesInPipe(p, u)
  BY <1>1, TextLen DEF ShownUntil
<1>3. PICK names : names = NamesInPipe(p, u)
  OBVIOUS
<1>4. names = [j \in 1..u |-> names[j]]
  BY <1>3 DEF NamesInPipe
<1>5. IsText(names)
  BY <1>2, <1>4, Sized
<1> QED
  BY <1>2, <1>3, <1>5

LEMMA ElementsAreText == ASSUME NEW p, IsPipe(p) PROVE IsText(p.elements)
<1>1. CASE \E q \in Seq(Element) : p = Piped(q)
  <2>1. PICK q \in Seq(Element) : p = Piped(q)
    BY <1>1
  <2>2. p.elements = q
    BY <2>1 DEF Piped
  <2> QED
    BY <2>2, TokensAreText
<1>2. CASE \E e : IsText(e) /\ p = PipeFailed(e)
  <2>1. p.elements = <<>>
    BY <1>2 DEF PipeFailed
  <2> QED
    BY <2>1, TextEmpty
<1> QED
  BY <1>1, <1>2 DEF IsPipe

LEMMA OnePipeToShow == ASSUME NEW p, IsPipe(p) PROVE PipesToShow(<<p>>) = PipeToShow(p.elements)
<1>1. IsText(PipeToShow(p.elements))
  BY ElementsAreText, PipeToShowIsText
<1>2. [i \in DOMAIN <<p>> |-> PipeToShow(<<p>>[i].elements)] = <<PipeToShow(p.elements)>>
  OBVIOUS
<1> QED
  BY <1>1, <1>2, FlattenOne DEF PipesToShow

LEMMA ClearAttrs ==
    ASSUME NEW names, NEW data
    PROVE  NoneDoubtful(Attrs(names, data)) <=> Clear(names, data)
<1>1. DOMAIN Attrs(names, data) = DOMAIN names /\ \A i \in DOMAIN names : Attrs(names, data)[i].datum = data[i]
  BY DEF Attrs
<1> QED
  BY <1>1 DEF NoneDoubtful, Clear

LEMMA DataAreOK ==
    ASSUME NEW d \in Datum \cup FewData
    PROVE  DatumOK(d)
<1>1. d \in DatumRecord
  BY DatumAssumption
<1>2. /\ d.format = "IMAGE" => d.dimY \in Nat /\ IsInt(Product(d))
      /\ d.format = "SCALAR" => d.set <= 1
  BY DatumAssumption
<1> QED
  BY <1>1, <1>2 DEF DatumOK

LEMMA DataForAreOK ==
    ASSUME NEW names, IsText(names), NEW data \in DataFor(names)
    PROVE  DOMAIN data = DOMAIN names /\ \A i \in 1..Len(names) : DatumOK(data[i])
<1>1. DOMAIN names = 1..Len(names)
  BY TextLen
<1>2. \/ data \in [1..Len(names) -> FewData] \/ data \in [1..Len(names) -> Datum]
  BY <1>1 DEF DataFor
<1>3. \A i \in 1..Len(names) : data[i] \in Datum \cup FewData
  BY <1>2
<1>4. DOMAIN data = 1..Len(names)
  BY <1>2
<1> QED
  BY <1>1, <1>3, <1>4, DataAreOK

LEMMA PipePartShown ==
    ASSUME NEW p, IsPipe(p), NEW want, PipeAsked(pipePrecisions, want),
           NEW fit, fit => (hasPipe => FitPipe(p))
    PROVE  Shows(PipePart(p), fit, PipesToShow(IF hasPipe THEN <<p>> ELSE <<>>), want)
<1> DEFINE t == PipeOrErrors(p, pipePrecisions)
<1>1. CASE hasPipe
  <2>1. Shows(t, FitPipe(p), PipeToShow(p.elements), want)
    BY PipeOrErrorsShown
  <2>2. Shows(t, fit, PipeToShow(p.elements), want)
    BY <1>1, <2>1, ShowsLess
  <2>3. Silent(Comma \o Key("pipe"))
    BY SilentMarks, SilentKey, SilentCat
  <2> HIDE DEF t
  <2>4. Shows(Comma \o Key("pipe") \o t, fit, PipeToShow(p.elements), want)
    BY <2>2, <2>3, ShowsBehind
  <2>5. PipePart(p) = Comma \o Key("pipe") \o t
    BY <1>1 DEF PipePart, Optional, t
  <2> QED
    BY <1>1, <2>4, <2>5, OnePipeToShow
<1>2. CASE ~hasPipe
  <2>1. PipePart(p) = <<>>
    BY <1>2 DEF PipePart, Optional
  <2> QED
    BY <1>2, <2>1, NoDataToShow, SilentEmpty, ShowsNothing
<1> QED
  BY <1>1, <1>2

LEMMA UpdateDeviceRight ==
    ASSUME IsText(attributes), Configured, UpdateDevice
    PROVE  DataIsRead' /\ PrecisionAsAsked'
<1>1. PICK data \in DataFor(attributes), p \in {Piped(q) : q \in FewPipes} \cup {PipeFailed(<<"plain">>)} :
        Say(HeadOfUpdate \o GenerateJsonForAttrList(attributes, data, precisions) \o PipePart(p) \o RBrace,
            About(Attrs(attributes, data), IF hasPipe THEN <<p>> ELSE <<>>, wanted,
                  FitData(data) /\ (hasPipe => FitPipe(p))))
  BY DEF UpdateDevice
<1>2. PICK a : a = About(Attrs(attributes, data), IF hasPipe THEN <<p>> ELSE <<>>, wanted,
                         FitData(data) /\ (hasPipe => FitPipe(p)))
  OBVIOUS
<1>3. /\ a.attrs = Attrs(attributes, data) /\ a.pipes = IF hasPipe THEN <<p>> ELSE <<>>
      /\ a.want = wanted /\ (a.fit => FitData(data) /\ (hasPipe => FitPipe(p)))
  BY <1>2 DEF About
<1> DEFINE fit == a.fit /\ NoneDoubtful(a.attrs)
           list == GenerateJsonForAttrList(attributes, data, precisions)
<1>4. IsPipe(p)
  BY FewPipesArePipes
<1>5. Shows(list, fit, ReadAndSet(a.attrs), a.want)
  <2>1. DOMAIN data = DOMAIN attributes /\ \A i \in 1..Len(attributes) : DatumOK(data[i])
    BY DataForAreOK
  <2>2. \A i \in 1..Len(attributes) : Asks(attributes[i], Precision(precisions, attributes[i]), a.want)
    BY <1>3 DEF Configured, AsConfigured
  <2>3. Shows(list, FitData(data) /\ Clear(attributes, data), ReadAndSet(Attrs(attributes, data)), a.want)
    BY <2>1, <2>2, AttrListShown
  <2>4. fit => FitData(data) /\ Clear(attributes, data)
    BY <1>3, ClearAttrs
  <2> HIDE DEF fit, list
  <2> QED
    BY <1>3, <2>3, <2>4, ShowsLess
<1>6. Shows(PipePart(p), fit, PipesToShow(a.pipes), a.want)
  <2>1. PipeAsked(pipePrecisions, a.want)
    BY <1>3 DEF Configured, AsConfigured
  <2>2. fit => (hasPipe => FitPipe(p))
    BY <1>3
  <2> HIDE DEF fit
  <2> QED
    BY <1>3, <1>4, <2>1, <2>2, PipePartShown
<1> HIDE DEF list, fit
<1>7. Shows(HeadOfUpdate \o list, fit, ReadAndSet(a.attrs), a.want)
  BY <1>5, HeadOfUpdateSilent, ShowsBehind
<1>8. Shows(HeadOfUpdate \o list \o PipePart(p), fit, ReadAndSet(a.attrs) \o PipesToShow(a.pipes), a.want)
  BY <1>6, <1>7, ShowsCat
<1>9. TextIsRight(HeadOfUpdate \o list \o PipePart(p) \o RBrace, a)
  BY <1>8, SilentMarks, ShowsBefore DEF TextIsRight, fit
<1>10. Say(HeadOfUpdate \o list \o PipePart(p) \o RBrace, a)
  BY <1>1, <1>2 DEF list
<1> QED
  BY <1>9, <1>10, SaidRight

LEMMA PipeRight == ASSUME PipeResponse PROVE DataIsRead' /\ PrecisionAsAsked'
<1>1. PICK p \in Pipe, key \in Precisions, hasDevice \in BOOLEAN, hasId \in BOOLEAN :
        LET shown == GenerateJsonForPipe(p, ObjectPrecisions(key))
        IN  IF shown.raised
            THEN Say(ExceptionStringOut(Error({"type_req"}, "none", <<"plain">>)), NoAnswer)
            ELSE Say(HeadOfPipe(hasDevice, hasId) \o shown.text \o RBrace,
                     About(<<>>, <<Piped(p)>>, [attrs |-> <<>>, pipe |-> Exactly(ObjectPrecisions(key))],
                           FitPipe(Piped(p))))
  BY DEF PipeResponse
<1>2. PICK a : a = About(<<>>, <<Piped(p)>>, [attrs |-> <<>>, pipe |-> Exactly(ObjectPrecisions(key))],
                         FitPipe(Piped(p)))
  OBVIOUS
<1>3. /\ a.attrs = <<>> /\ a.pipes = <<Piped(p)>>
      /\ a.want.pipe = Exactly(ObjectPrecisions(key)) /\ (a.fit => FitPipe(Piped(p)))
  BY <1>2 DEF About
<1> DEFINE shown == GenerateJsonForPipe(p, ObjectPrecisions(key))
           err == Error({"type_req"}, "none", <<"plain">>)
           fit == a.fit /\ NoneDoubtful(a.attrs)
<1>4. IF shown.raised THEN Say(ExceptionStringOut(err), NoAnswer)
      ELSE Say(HeadOfPipe(hasDevice, hasId) \o shown.text \o RBrace, a)
  BY <1>1, <1>2
<1>5. Silent(ExceptionStringOut(err))
  <2>1. err.errorMessages = <<"plain">> /\ err.errorResponses = <<>>
    BY DEF Error
  <2> HIDE DEF err
  <2> QED
    BY <2>1, TextOne, TextEmpty, ExceptionSilent
<1>6. p \in Seq(Element)
  BY PipeAssumption
<1>7. Shows(shown.text, fit, PipesToShow(a.pipes), a.want)
  <2>1. PipeAsked(ObjectPrecisions(key), a.want)
    BY <1>3, ObjectAsked
  <2>2. Shows(shown.text, FitElements(p), PipeToShow(p), a.want)
    BY <1>6, <2>1, PipeIsShown
  <2>3. a.fit => FitElements(p)
    BY <1>3 DEF FitElements
  <2>4. IsPipe(Piped(p)) /\ Piped(p).elements = p
    BY <1>6 DEF IsPipe, Piped
  <2>5. PipesToShow(a.pipes) = PipeToShow(p)
    BY <1>3, <2>4, OnePipeToShow
  <2> HIDE DEF shown
  <2> QED
    BY <2>2, <2>3, <2>5, ShowsLess
<1> HIDE DEF shown, err, fit
<1>8. Shows(HeadOfPipe(hasDevice, hasId), fit, ReadAndSet(a.attrs), a.want)
  BY <1>3, NoDataToShow, HeadOfPipeSilent, ShowsNothing
<1>9. Shows(HeadOfPipe(hasDevice, hasId) \o shown.text, fit,
            ReadAndSet(a.attrs) \o PipesToShow(a.pipes), a.want)
  BY <1>7, <1>8, ShowsCat
<1>10. TextIsRight(HeadOfPipe(hasDevice, hasId) \o shown.text \o RBrace, a)
  BY <1>9, SilentMarks, ShowsBefore DEF TextIsRight, fit
<1> QED
  BY <1>4, <1>5, <1>10, RightWithoutData, SaidRight DEF NoAnswer

LEMMA EventRight == ASSUME Event PROVE DataIsRead' /\ PrecisionAsAsked'
<1>1. PICK n \in Attr, d \in Datum, opt \in Option \cup {Default}, jsonName \in BOOLEAN :
        Say(LBrace \o FlattenSeq([i \in DOMAIN EventKeys |-> Field(EventKeys[i]) \o Comma])
              \o (IF jsonName THEN JsonData(d) ELSE DeviceAttributeToStr(n, d, opt, FALSE))
              \o RBrace,
            About(IF jsonName THEN <<>> ELSE <<[name |-> n, datum |-> d]>>, <<>>,
                  [attrs |-> [m \in {n} |-> {opt}], pipe |-> <<>>],
                  IF jsonName
                  THEN d.type = "string" /\ d.format = "SCALAR" /\ d.quality # "INVALID" /\ d.content = "json"
                  ELSE FitDatum(d)))
  BY DEF Event
<1> DEFINE head == LBrace \o FlattenSeq([i \in DOMAIN EventKeys |-> Field(EventKeys[i]) \o Comma])
           want == [attrs |-> [m \in {n} |-> {opt}], pipe |-> <<>>]
           json == d.type = "string" /\ d.format = "SCALAR" /\ d.quality # "INVALID" /\ d.content = "json"
           shown == DeviceAttributeToStr(n, d, opt, FALSE)
<1>2. \/ Say(head \o JsonData(d) \o RBrace, About(<<>>, <<>>, want, json))
      \/ Say(head \o shown \o RBrace, About(<<[name |-> n, datum |-> d]>>, <<>>, want, FitDatum(d)))
  BY <1>1
<1>3. Silent(head)
  BY EventHeadSilent
<1>4. Asks(n, opt, want)
  BY DEF Asks, Wished
<1>5. PICK a : a = About(<<[name |-> n, datum |-> d]>>, <<>>, want, FitDatum(d))
  OBVIOUS
<1> HIDE DEF head, want, json, shown
<1>6. /\ a.attrs = <<[name |-> n, datum |-> d]>> /\ a.pipes = <<>>
      /\ a.want = want /\ (a.fit => FitDatum(d))
  BY <1>5 DEF About
<1>7. Silent(head \o JsonData(d) \o RBrace)
  BY <1>3, JsonDataSilent, SilentMarks, SilentCat
<1> DEFINE fit == a.fit /\ NoneDoubtful(a.attrs)
<1>8. DatumOK(d)
  BY DataAreOK
<1>9. Shows(shown, FitDatum(d) /\ ~Doubtful(d), ToShow(n, d), want)
  BY <1>4, <1>8, DeviceAttributeShown DEF shown
<1>10. fit => FitDatum(d) /\ ~Doubtful(d)
  <2>1. DOMAIN a.attrs = {1} /\ a.attrs[1].datum = d
    BY <1>6
  <2> QED
    BY <1>6, <2>1 DEF NoneDoubtful
<1>11. ReadAndSet(a.attrs) = ToShow(n, d)
  <2>1. IsText(ToShow(n, d))
    BY <1>8, ToShowIsText DEF DatumOK
  <2>2. [i \in DOMAIN a.attrs |-> ToShow(a.attrs[i].name, a.attrs[i].datum)] = <<ToShow(n, d)>>
    BY <1>6
  <2> QED
    BY <2>1, <2>2, FlattenOne DEF ReadAndSet
<1> HIDE DEF fit
<1>12. Shows(shown, fit, ReadAndSet(a.attrs), a.want)
  BY <1>6, <1>9, <1>10, <1>11, ShowsLess
<1>13. Shows(head \o shown, fit, ReadAndSet(a.attrs), a.want)
  BY <1>3, <1>12, ShowsBehind
<1>14. Shows(RBrace, fit, PipesToShow(a.pipes), a.want)
  BY <1>6, NoDataToShow, SilentMarks, ShowsNothing
<1>15. TextIsRight(head \o shown \o RBrace, a)
  BY <1>13, <1>14, ShowsCat DEF TextIsRight, fit
<1> QED
  BY <1>2, <1>5, <1>7, <1>15, RightWithoutData, SaidRight

LEMMA AttrReadRight == ASSUME AttrReadResponse PROVE DataIsRead' /\ PrecisionAsAsked'
<1>1. PICK names \in Asked, key \in Precisions :
        \E data \in DataFor(names) :
          LET cut == CutNames(names, key)
              shown == [i \in DOMAIN cut |-> cut[i].name]
              got == Answered(cut, data)
          IN  Say(HeadOfTask(Task("read_attr", "SINGLE", TRUE), old)
                    \o GenerateJsonForAttrList(shown, got, ListPrecisions(names, key))
                    \o Optional(old, RBrace) \o RBrace,
                  About(Attrs(shown, got), <<>>, [attrs |-> WishFor(names, key), pipe |-> <<>>],
                        FitData(got)))
  BY DEF AttrReadResponse
<1>2. PICK data \in DataFor(names) :
        LET cut == CutNames(names, key)
            shown == [i \in DOMAIN cut |-> cut[i].name]
            got == Answered(cut, data)
        IN  Say(HeadOfTask(Task("read_attr", "SINGLE", TRUE), old)
                  \o GenerateJsonForAttrList(shown, got, ListPrecisions(names, key))
                  \o Optional(old, RBrace) \o RBrace,
                About(Attrs(shown, got), <<>>, [attrs |-> WishFor(names, key), pipe |-> <<>>],
                      FitData(got)))
  BY <1>1
<1> DEFINE cut == CutNames(names, key)
           shown == [i \in DOMAIN cut |-> cut[i].name]
           got == Answered(cut, data)
           head == HeadOfTask(Task("read_attr", "SINGLE", TRUE), old)
           list == GenerateJsonForAttrList(shown, got, ListPrecisions(names, key))
           close == Optional(old, RBrace)
<1>3. PICK a : a = About(Attrs(shown, got), <<>>, [attrs |-> WishFor(names, key), pipe |-> <<>>], FitData(got))
  OBVIOUS
<1>4. Say(head \o list \o close \o RBrace, a)
  BY <1>2, <1>3
<1>5. PICK n \in Nat : n = Len(names) /\ DOMAIN names = 1..n /\ IsText(names)
  BY AskedAssumption, TextLen DEF IsText
<1>6. DOMAIN cut = 1..n
  BY <1>5 DEF CutNames
<1>7. \A i \in 1..n : cut[i].name = names[i].name
  BY <1>5 DEF CutNames, Cut, Named
<1>8. shown = [i \in 1..n |-> shown[i]] /\ \A i \in 1..n : shown[i] = names[i].name
  BY <1>6, <1>7
<1>9. DOMAIN got = 1..n /\ \A i \in 1..n : DatumOK(got[i])
  <2>1. \A i \in 1..n : DatumOK(data[i])
    BY <1>5, DataForAreOK
  <2>2. UnknownName \in Datum
    <3>1. \E d \in Datum : d.quality = "INVALID"
      BY DatumAssumption
    <3> QED
      BY <3>1 DEF UnknownName
  <2>3. DatumOK(UnknownName)
    BY <2>2, DataAreOK
  <2>4. DOMAIN got = 1..n /\ \A i \in 1..n : got[i] = data[i] \/ got[i] = UnknownName
    BY <1>6 DEF Answered
  <2> HIDE DEF got
  <2> QED
    BY <2>1, <2>3, <2>4
<1>10. /\ a.attrs = Attrs(shown, got) /\ a.pipes = <<>>
       /\ a.want.attrs = WishFor(names, key) /\ (a.fit => FitData(got))
  BY <1>3 DEF About
<1>11. Silent(head)
  BY HeadOfTaskSilent
<1>12. Silent(close)
  BY SilentMarks, SilentOptional
<1> HIDE DEF got, shown, cut, head, close
<1>13. IsText(shown) /\ Len(shown) = n /\ DOMAIN shown = 1..n
  BY <1>8, Sized
<1> DEFINE fit == a.fit /\ NoneDoubtful(a.attrs)
<1>14. Shows(list, fit, ReadAndSet(a.attrs), a.want)
  <2>1. PICK opts, want : opts = ListPrecisions(names, key) /\ want = a.want
    OBVIOUS
  <2>2. ASSUME NEW i \in 1..n PROVE Asks(shown[i], Precision(opts, shown[i]), want)
    <3>1. Asks(names[i].name, Precision(ListPrecisions(names, key), names[i].name), want)
      BY <1>5, <1>10, <2>1, RequestAsked
    <3> QED
      BY <1>8, <2>1, <3>1
  <2>3. DOMAIN got = DOMAIN shown
    BY <1>9, <1>13
  <2>4. \A i \in 1..Len(shown) : DatumOK(got[i]) /\ Asks(shown[i], Precision(opts, shown[i]), want)
    BY <1>9, <1>13, <2>2
  <2>5. Shows(GenerateJsonForAttrList(shown, got, opts), FitData(got) /\ Clear(shown, got),
              ReadAndSet(Attrs(shown, got)), want)
    BY <1>13, <2>3, <2>4, AttrListShown
  <2>6. fit => FitData(got) /\ Clear(shown, got)
    BY <1>10, ClearAttrs
  <2> HIDE DEF fit
  <2> QED
    BY <1>10, <2>1, <2>5, <2>6, ShowsLess
<1> HIDE DEF fit, list
<1>15. Shows(head \o list, fit, ReadAndSet(a.attrs), a.want)
  BY <1>11, <1>14, ShowsBehind
<1>16. Shows(head \o list \o close, fit, ReadAndSet(a.attrs), a.want)
  BY <1>12, <1>15, ShowsBefore
<1>17. Shows(RBrace, fit, PipesToShow(a.pipes), a.want)
  BY <1>10, NoDataToShow, SilentMarks, ShowsNothing
<1>18. TextIsRight(head \o list \o close \o RBrace, a)
  BY <1>16, <1>17, ShowsCat DEF TextIsRight, fit
<1> QED
  BY <1>4, <1>18, SaidRight

-------------------------------------------------------------------------------
(* Groups of devices. *)

\* An object with something of each device shows what there is of each, device after device.
LEMMA DevicesShown ==
    ASSUME NEW v, NEW fit, NEW want, NEW d, d = [i \in 1..Len(Devs) |-> d[i]],
           \A i \in 1..Len(Devs) : Shows(v[i], fit, d[i], want)
    PROVE  Shows(LBrace \o Listed([i \in DOMAIN Devs |-> Key(Devs[i]) \o v[i]]) \o RBrace,
                 fit, FlattenSeq(d), want)
<1>1. PICK n \in Nat : n = Len(Devs) /\ DOMAIN Devs = 1..n
  BY DevicesInOrder
<1> DEFINE parts == [i \in 1..n |-> Key(Devs[i]) \o v[i]]
<1>2. parts = [i \in 1..n |-> parts[i]]
  OBVIOUS
<1>3. ASSUME NEW i \in 1..n PROVE Shows(parts[i], fit, d[i], want)
  <2>1. Shows(Key(Devs[i]) \o v[i], fit, d[i], want)
    BY <1>1, SilentKey, ShowsBehind
  <2> QED
    BY <2>1
<1>4. [i \in DOMAIN Devs |-> Key(Devs[i]) \o v[i]] = parts
  BY <1>1
<1> HIDE DEF parts
<1>5. IsText(parts) /\ Len(parts) = n
  BY <1>2, Sized
<1>6. d = [i \in 1..Len(parts) |-> d[i]]
  BY <1>1, <1>5
<1>7. Shows(Listed(parts), fit, FlattenSeq(d), want)
  BY <1>3, <1>5, <1>6, ShowsListed
<1>8. Shows(LBrace \o Listed(parts) \o RBrace, fit, FlattenSeq(d), want)
  BY <1>7, SilentMarks, ShowsBehind, ShowsBefore
<1> QED
  BY <1>4, <1>8

LEMMA EntriesOf ==
    ASSUME NEW names \in Seq(Attr), NEW data, \A i \in 1..Len(names) : data[i] \in DatumRecord
    PROVE  Attrs(names, data) \in Seq(Entry)
<1>1. PICK n \in Nat : n = Len(names) /\ DOMAIN names = 1..n /\ \A i \in 1..n : names[i] \in Attr
  OBVIOUS
<1> DEFINE s == [i \in 1..n |-> [name |-> names[i], datum |-> data[i]]]
<1>2. Attrs(names, data) = s
  BY <1>1 DEF Attrs
<1>3. s \in [1..n -> Entry]
  BY <1>1 DEF Entry
<1> HIDE DEF s
<1>4. s \in Seq(Entry)
  BY <1>3
<1> QED
  BY <1>2, <1>4

LEMMA OutcomeIs ==
    ASSUME IsText(attributes), NEW o \in DeviceOutcome
    PROVE  /\ IsPipe(o.pipe)
           /\ o.read => /\ DOMAIN o.data = DOMAIN attributes
                        /\ \A i \in 1..Len(attributes) : DatumOK(o.data[i])
<1>1. CASE o = Unavailable
  <2>1. o.pipe = PipeFailed(<<"plain", "plain">>) /\ o.read = FALSE
    BY <1>1 DEF Unavailable
  <2> QED
    BY <2>1, FewPipesArePipes
<1>2. CASE o \in [read : {TRUE}, data : [DOMAIN attributes -> FewData],
                  pipe : {Piped(q) : q \in FewPipes} \cup {PipeFailed(<<"plain">>)}]
  <2>1. o.data \in [DOMAIN attributes -> FewData]
    BY <1>2
  <2>2. DOMAIN o.data = DOMAIN attributes /\ \A i \in 1..Len(attributes) : o.data[i] \in FewData
    BY <2>1, TextLen
  <2>3. \A i \in 1..Len(attributes) : DatumOK(o.data[i])
    BY <2>2, DataAreOK
  <2>4. IsPipe(o.pipe)
    BY <1>2, FewPipesArePipes
  <2> QED
    BY <2>2, <2>3, <2>4
<1>3. CASE o \in [read : {FALSE}, data : {<<>>},
                  pipe : {Piped(q) : q \in FewPipes} \cup {PipeFailed(<<"plain">>)}]
  BY <1>3, FewPipesArePipes
<1> QED
  BY <1>1, <1>2, <1>3 DEF DeviceOutcome

LEMMA DeviceAttrsShown ==
    ASSUME attributes \in Seq(Attr), Configured, NEW o \in DeviceOutcome,
           NEW fit, fit => FitOutcome(o) /\ NoneDoubtful(AttrsShown(o))
    PROVE  /\ AttrsShown(o) \in Seq(Entry)
           /\ Shows(DeviceAttrs(o), fit, ReadAndSet(AttrsShown(o)), wanted)
<1>1. IsText(attributes)
  BY TokensAreText
<1>2. CASE o.read
  <2>1. DOMAIN o.data = DOMAIN attributes /\ \A i \in 1..Len(attributes) : DatumOK(o.data[i])
    BY <1>1, <1>2, OutcomeIs
  <2>2. AttrsShown(o) = Attrs(attributes, o.data)
        /\ DeviceAttrs(o) = GenerateJsonForAttrList(attributes, o.data, precisions)
    BY <1>2 DEF AttrsShown, DeviceAttrs
  <2>3. \A i \in 1..Len(attributes) : Asks(attributes[i], Precision(precisions, attributes[i]), wanted)
    BY DEF Configured, AsConfigured
  <2>4. PICK data : data = o.data
    OBVIOUS
  <2>5. Shows(GenerateJsonForAttrList(attributes, data, precisions), FitData(data) /\ Clear(attributes, data),
              ReadAndSet(Attrs(attributes, data)), wanted)
    BY <1>1, <2>1, <2>3, <2>4, AttrListShown
  <2>6. fit => FitData(data) /\ Clear(attributes, data)
    BY <2>2, <2>4, ClearAttrs DEF FitOutcome
  <2>7. Shows(DeviceAttrs(o), fit, ReadAndSet(AttrsShown(o)), wanted)
    BY <2>2, <2>4, <2>5, <2>6, ShowsLess
  <2>8. \A i \in 1..Len(attributes) : data[i] \in DatumRecord
    BY <2>1, <2>4 DEF DatumOK
  <2>9. AttrsShown(o) \in Seq(Entry)
    BY <2>2, <2>4, <2>8, EntriesOf
  <2> QED
    BY <2>7, <2>9
<1>3. CASE ~o.read
  <2>1. AttrsShown(o) = <<>> /\ DeviceAttrs(o) = Plain
    BY <1>3 DEF AttrsShown, DeviceAttrs
  <2>2. <<>> \in Seq(Entry)
    OBVIOUS
  <2> QED
    BY <2>1, <2>2, NoDataToShow, SilentPlain, ShowsNothing
<1> QED
  BY <1>2, <1>3

LEMMA PipesOfDevices ==
    ASSUME NEW pipes, pipes = [i \in 1..Len(Devs) |-> pipes[i]], NEW d,
           d = [i \in 1..Len(Devs) |-> PipeToShow(pipes[i].elements)]
    PROVE  PipesToShow(pipes) = FlattenSeq(d)
<1>1. DOMAIN pipes = 1..Len(Devs)
  OBVIOUS
<1>2. [i \in DOMAIN pipes |-> PipeToShow(pipes[i].elements)] = d
  BY <1>1
<1> QED
  BY <1>2 DEF PipesToShow

LEMMA GroupDataShown ==
    ASSUME attributes \in Seq(Attr), Configured, NEW outcomes \in [Dev -> DeviceOutcome],
           NEW attrs, attrs = FlattenSeq([i \in DOMAIN Devs |-> AttrsShown(outcomes[Devs[i]])]),
           NEW fit, fit => FitGroup(outcomes) /\ NoneDoubtful(attrs)
    PROVE  Shows(GroupData(outcomes), fit, ReadAndSet(attrs), wanted)
<1>1. PICK n \in Nat : n = Len(Devs) /\ DOMAIN Devs = 1..n
  BY DevicesInOrder
<1> DEFINE s == [i \in 1..n |-> AttrsShown(outcomes[Devs[i]])]
           d == [i \in 1..n |-> ReadAndSet(AttrsShown(outcomes[Devs[i]]))]
           v == [i \in 1..n |-> DeviceAttrs(outcomes[Devs[i]])]
<1>2. \A i \in 1..n : outcomes[Devs[i]] \in DeviceOutcome
  BY <1>1, DevicesInOrder
<1>3. attrs = FlattenSeq(s)
  BY <1>1
<1>4. ASSUME NEW i \in 1..n PROVE s[i] \in Seq(Entry)
  <2>1. AttrsShown(outcomes[Devs[i]]) \in Seq(Entry)
    BY <1>2, DeviceAttrsShown
  <2> QED
    BY <2>1
<1>5. /\ s = [i \in 1..n |-> s[i]] /\ d = [i \in 1..n |-> d[i]]
      /\ \A i \in 1..n : d[i] = ReadAndSet(s[i])
  OBVIOUS
<1>6. \A i \in 1..n : s[i] = AttrsShown(outcomes[Devs[i]]) /\ v[i] = DeviceAttrs(outcomes[Devs[i]])
  OBVIOUS
<1>7. GroupData(outcomes) = LBrace \o Listed([i \in DOMAIN Devs |-> Key(Devs[i]) \o v[i]]) \o RBrace
  <2>1. [i \in DOMAIN Devs |-> Key(Devs[i]) \o v[i]]
          = [i \in DOMAIN Devs |-> Key(Devs[i]) \o DeviceAttrs(outcomes[Devs[i]])]
    BY <1>1
  <2> QED
    BY <2>1 DEF GroupData
<1> HIDE DEF s, d, v
<1>8. OfDevices(s, d, n)
  BY <1>4, <1>5 DEF OfDevices
<1>9. ReadAndSet(attrs) = FlattenSeq(d) /\ (NoneDoubtful(attrs) => \A i \in 1..n : NoneDoubtful(s[i]))
  BY <1>3, <1>8, AttrsOfAll
<1>10. ASSUME NEW i \in 1..n PROVE Shows(v[i], fit, d[i], wanted)
  <2>1. PICK o \in DeviceOutcome : o = outcomes[Devs[i]]
    BY <1>2
  <2>2. fit => FitOutcome(o)
    BY <1>1, <2>1 DEF FitGroup
  <2>3. fit => NoneDoubtful(AttrsShown(o))
    BY <1>6, <1>9, <2>1
  <2>4. Shows(DeviceAttrs(o), fit, ReadAndSet(AttrsShown(o)), wanted)
    BY <2>2, <2>3, DeviceAttrsShown
  <2> QED
    BY <1>5, <1>6, <2>1, <2>4
<1>11. d = [i \in 1..Len(Devs) |-> d[i]] /\ \A i \in 1..Len(Devs) : Shows(v[i], fit, d[i], wanted)
  BY <1>1, <1>5, <1>10
<1>12. Shows(GroupData(outcomes), fit, FlattenSeq(d), wanted)
  BY <1>7, <1>11, DevicesShown
<1> QED
  BY <1>9, <1>12

\* What a device of a group says about its pipe: v of them, each with the pipe it shows.
LEMMA GroupPipesShown ==
    ASSUME NEW v, NEW pipes, pipes = [i \in 1..Len(Devs) |-> pipes[i]], NEW fit, NEW want,
           \A i \in 1..Len(Devs) : Shows(v[i], fit, PipeToShow(pipes[i].elements), want)
    PROVE  Shows(LBrace \o Listed([i \in DOMAIN Devs |-> Key(Devs[i]) \o v[i]]) \o RBrace,
                 fit, PipesToShow(pipes), want)
<1> DEFINE d == [i \in 1..Len(Devs) |-> PipeToShow(pipes[i].elements)]
<1>1. d = [i \in 1..Len(Devs) |-> d[i]] /\ \A i \in 1..Len(Devs) : d[i] = PipeToShow(pipes[i].elements)
  OBVIOUS
<1>2. PipesToShow(pipes) = FlattenSeq(d)
  BY PipesOfDevices
<1> HIDE DEF d
<1>3. \A i \in 1..Len(Devs) : Shows(v[i], fit, d[i], want)
  BY <1>1
<1> QED
  BY <1>1, <1>2, <1>3, DevicesShown

LEMMA UpdateGroupRight ==
    ASSUME attributes \in Seq(Attr), Configured, UpdateGroup
    PROVE  DataIsRead' /\ PrecisionAsAsked'
<1>1. PICK outcomes \in [Dev -> DeviceOutcome] :
        Say(HeadOfUpdate \o GroupData(outcomes)
              \o Optional(hasPipe, Comma \o Key("pipe") \o GroupPipes(outcomes)) \o RBrace,
            About(FlattenSeq([i \in DOMAIN Devs |-> AttrsShown(outcomes[Devs[i]])]),
                  IF hasPipe THEN [i \in DOMAIN Devs |-> outcomes[Devs[i]].pipe] ELSE <<>>,
                  wanted, FitGroup(outcomes)))
  BY DEF UpdateGroup
<1>2. PICK a : a = About(FlattenSeq([i \in DOMAIN Devs |-> AttrsShown(outcomes[Devs[i]])]),
                         IF hasPipe THEN [i \in DOMAIN Devs |-> outcomes[Devs[i]].pipe] ELSE <<>>,
                         wanted, FitGroup(outcomes))
  OBVIOUS
<1>3. /\ a.attrs = FlattenSeq([i \in DOMAIN Devs |-> AttrsShown(outcomes[Devs[i]])])
      /\ a.pipes = IF hasPipe THEN [i \in DOMAIN Devs |-> outcomes[Devs[i]].pipe] ELSE <<>>
      /\ a.want = wanted /\ (a.fit => FitGroup(outcomes))
  BY <1>2 DEF About
<1> DEFINE fit == a.fit /\ NoneDoubtful(a.attrs)
           group == Comma \o Key("pipe") \o GroupPipes(outcomes)
           tail == Optional(hasPipe, group)
<1>4. fit => FitGroup(outcomes) /\ NoneDoubtful(a.attrs)
  BY <1>3
<1>5. Say(HeadOfUpdate \o GroupData(outcomes) \o tail \o RBrace, a)
  BY <1>1, <1>2
<1> HIDE DEF fit
<1>6. Shows(GroupData(outcomes), fit, ReadAndSet(a.attrs), a.want)
  BY <1>3, <1>4, GroupDataShown
<1>7. ASSUME hasPipe PROVE Shows(GroupPipes(outcomes), fit, PipesToShow(a.pipes), a.want)
  <2> DEFINE v == [i \in 1..Len(Devs) |-> PipeOrErrors(outcomes[Devs[i]].pipe, pipePrecisions)]
             pipes == [i \in 1..Len(Devs) |-> outcomes[Devs[i]].pipe]
  <2>1. pipes = [i \in 1..Len(Devs) |-> pipes[i]]
    OBVIOUS
  <2>2. a.pipes = pipes
    BY <1>3, <1>7, DevicesInOrder
  <2>3. ASSUME NEW i \in 1..Len(Devs) PROVE Shows(v[i], fit, PipeToShow(pipes[i].elements), a.want)
    <3>1. PICK o \in DeviceOutcome : o = outcomes[Devs[i]]
      BY DevicesInOrder
    <3>2. IsPipe(o.pipe)
      BY <3>1, OutcomeIs, TokensAreText
    <3>3. PipeAsked(pipePrecisions, a.want)
      BY <1>3 DEF Configured, AsConfigured
    <3>4. Shows(PipeOrErrors(o.pipe, pipePrecisions), FitPipe(o.pipe), PipeToShow(o.pipe.elements), a.want)
      BY <3>2, <3>3, PipeOrErrorsShown
    <3>5. fit => FitPipe(o.pipe)
      BY <1>4, <1>7, <3>1, DevicesInOrder DEF FitGroup, FitOutcome
    <3>6. Shows(PipeOrErrors(o.pipe, pipePrecisions), fit, PipeToShow(o.pipe.elements), a.want)
      BY <3>4, <3>5, ShowsLess
    <3> QED
      BY <3>1, <3>6
  <2>4. GroupPipes(outcomes) = LBrace \o Listed([i \in DOMAIN Devs |-> Key(Devs[i]) \o v[i]]) \o RBrace
    <3>1. [i \in DOMAIN Devs |-> Key(Devs[i]) \o v[i]]
            = [i \in DOMAIN Devs |-> Key(Devs[i]) \o PipeOrErrors(outcomes[Devs[i]].pipe, pipePrecisions)]
      BY DevicesInOrder
    <3> QED
      BY <3>1 DEF GroupPipes
  <2> HIDE DEF v, pipes
  <2>5. Shows(GroupPipes(outcomes), fit, PipesToShow(pipes), a.want)
    BY <2>1, <2>3, <2>4, GroupPipesShown
  <2> QED
    BY <2>2, <2>5
<1>8. Shows(tail, fit, PipesToShow(a.pipes), a.want)
  <2>1. CASE hasPipe
    <3>1. Silent(Comma \o Key("pipe"))
      BY SilentMarks, SilentKey, SilentCat
    <3>2. Shows(group, fit, PipesToShow(a.pipes), a.want)
      BY <1>7, <2>1, <3>1, ShowsBehind
    <3> HIDE DEF group
    <3> QED
      BY <2>1, <3>2 DEF Optional
  <2>2. CASE ~hasPipe
    <3>1. a.pipes = <<>> /\ tail = <<>>
      BY <1>3, <2>2 DEF Optional
    <3> QED
      BY <3>1, NoDataToShow, SilentEmpty, ShowsNothing
  <2> QED
    BY <2>1, <2>2
<1> HIDE DEF tail
<1>9. Shows(HeadOfUpdate \o GroupData(outcomes), fit, ReadAndSet(a.attrs), a.want)
  BY <1>6, HeadOfUpdateSilent, ShowsBehind
<1>10. Shows(HeadOfUpdate \o GroupData(outcomes) \o tail, fit,
             ReadAndSet(a.attrs) \o PipesToShow(a.pipes), a.want)
  BY <1>8, <1>9, ShowsCat
<1>11. TextIsRight(HeadOfUpdate \o GroupData(outcomes) \o tail \o RBrace, a)
  BY <1>10, SilentMarks, ShowsBefore DEF TextIsRight, fit
<1> QED
  BY <1>5, <1>11, SaidRight

LEMMA GroupPipeRight == ASSUME GroupPipeResponse PROVE DataIsRead' /\ PrecisionAsAsked'
<1>1. PICK outcomes \in [Dev -> PipeOutcome], key \in Precisions, hasId \in BOOLEAN :
        IF \E i \in DOMAIN Devs : PipeShown(outcomes[Devs[i]])
        THEN Say(HeadOfPipe(FALSE, hasId) \o GroupPipeParts(outcomes, ObjectPrecisions(key)) \o RBrace,
                 About(<<>>, [i \in DOMAIN Devs |-> outcomes[Devs[i]].pipe],
                       [attrs |-> <<>>, pipe |-> Exactly(ObjectPrecisions(key))], FitPipes(outcomes)))
        ELSE Say(ExceptionStringOut(Error({"type_req"}, "plain", <<>>)), NoAnswer)
  BY DEF GroupPipeResponse
<1>2. PICK a : a = About(<<>>, [i \in DOMAIN Devs |-> outcomes[Devs[i]].pipe],
                         [attrs |-> <<>>, pipe |-> Exactly(ObjectPrecisions(key))], FitPipes(outcomes))
  OBVIOUS
<1>3. /\ a.attrs = <<>> /\ a.pipes = [i \in DOMAIN Devs |-> outcomes[Devs[i]].pipe]
      /\ a.want.pipe = Exactly(ObjectPrecisions(key)) /\ (a.fit => FitPipes(outcomes))
  BY <1>2 DEF About
<1>4. PICK opts : opts = ObjectPrecisions(key)
  OBVIOUS
<1> DEFINE err == Error({"type_req"}, "plain", <<>>)
           fit == a.fit /\ NoneDoubtful(a.attrs)
           head == HeadOfPipe(FALSE, hasId)
<1>5. \/ Say(head \o GroupPipeParts(outcomes, opts) \o RBrace, a)
      \/ Say(ExceptionStringOut(err), NoAnswer)
  BY <1>1, <1>2, <1>4
<1>6. Silent(ExceptionStringOut(err))
  <2>1. err.errorMessages = <<>> /\ err.errorResponses = <<>>
    BY DEF Error
  <2> HIDE DEF err
  <2> QED
    BY <2>1, TextEmpty, ExceptionSilent
<1>7. PipeAsked(opts, a.want)
  BY <1>3, <1>4, ObjectAsked
<1>8. fit => FitPipes(outcomes)
  BY <1>3
<1> HIDE DEF err, fit
<1>9. Shows(GroupPipeParts(outcomes, opts), fit, PipesToShow(a.pipes), a.want)
  <2> DEFINE v == [i \in 1..Len(Devs) |-> PipePartOf(outcomes[Devs[i]], opts)]
             pipes == [i \in 1..Len(Devs) |-> outcomes[Devs[i]].pipe]
  <2>1. pipes = [i \in 1..Len(Devs) |-> pipes[i]]
    OBVIOUS
  <2>2. a.pipes = pipes
    BY <1>3, DevicesInOrder
  <2>3. ASSUME NEW i \in 1..Len(Devs) PROVE Shows(v[i], fit, PipeToShow(pipes[i].elements), a.want)
    <3>1. PICK o \in PipeOutcome : o = outcomes[Devs[i]]
      BY DevicesInOrder
    <3>2. CASE o.available
      <4>1. IsPipe(o.pipe)
        BY FewPipesArePipes DEF PipeOutcome
      <4>2. Shows(PipeOrErrors(o.pipe, opts), FitPipe(o.pipe), PipeToShow(o.pipe.elements), a.want)
        BY <1>7, <4>1, PipeOrErrorsShown
      <4>3. fit => FitPipe(o.pipe)
        BY <1>8, <3>1, DevicesInOrder DEF FitPipes
      <4>4. Shows(PipeOrErrors(o.pipe, opts), fit, PipeToShow(o.pipe.elements), a.want)
        BY <4>2, <4>3, ShowsLess
      <4>5. PipePartOf(o, opts) = PipeOrErrors(o.pipe, opts)
        BY <3>2 DEF PipePartOf
      <4> QED
        BY <3>1, <4>4, <4>5
    <3>3. CASE ~o.available
      <4>1. o.pipe = PipeFailed(<<>>)
        BY <3>3 DEF PipeOutcome
      <4>2. o.pipe.elements = <<>>
        BY <4>1 DEF PipeFailed
      <4>3. PipePartOf(o, opts) = Plain
        BY <3>3 DEF PipePartOf
      <4>4. Shows(PipePartOf(o, opts), fit, PipeToShow(o.pipe.elements), a.want)
        BY <4>2, <4>3, NoPipeToShow, SilentPlain, ShowsNothing
      <4> QED
        BY <3>1, <4>4
    <3> QED
      BY <3>2, <3>3
  <2>4. GroupPipeParts(outcomes, opts) = LBrace \o Listed([i \in DOMAIN Devs |-> Key(Devs[i]) \o v[i]]) \o RBrace
    <3>1. [i \in DOMAIN Devs |-> Key(Devs[i]) \o v[i]]
            = [i \in DOMAIN Devs |-> Key(Devs[i]) \o PipePartOf(outcomes[Devs[i]], opts)]
      BY DevicesInOrder
    <3> QED
      BY <3>1 DEF GroupPipeParts
  <2> HIDE DEF v, pipes
  <2>5. Shows(GroupPipeParts(outcomes, opts), fit, PipesToShow(pipes), a.want)
    BY <2>1, <2>3, <2>4, GroupPipesShown
  <2> QED
    BY <2>2, <2>5
<1>10. Shows(head, fit, ReadAndSet(a.attrs), a.want)
  BY <1>3, NoDataToShow, HeadOfPipeSilent, ShowsNothing
<1> HIDE DEF head
<1>11. Shows(head \o GroupPipeParts(outcomes, opts), fit, ReadAndSet(a.attrs) \o PipesToShow(a.pipes), a.want)
  BY <1>9, <1>10, ShowsCat
<1>12. TextIsRight(head \o GroupPipeParts(outcomes, opts) \o RBrace, a)
  BY <1>11, SilentMarks, ShowsBefore DEF TextIsRight, fit
<1> QED
  BY <1>5, <1>6, <1>12, RightWithoutData, SaidRight DEF NoAnswer

\* What the two theorems need of the variables, which only Say, Sent and a crash change.
RInv == ConfOK /\ Configured /\ DataIsRead /\ PrecisionAsAsked

LEMMA RInvInit == Init => RInv
<1> SUFFICES ASSUME Init PROVE RInv
  OBVIOUS
<1>1. ConfOK /\ Configured
  BY InitConf, InitConfigured
<1>2. PICK a : a = NoAnswer
  OBVIOUS
<1>3. a.attrs = <<>> /\ a.pipes = <<>>
  BY <1>2 DEF NoAnswer, About
<1>4. text = <<>> /\ about = a
  BY <1>2 DEF Init
<1>5. DataShown(text) = ReadAndSet(a.attrs) \o PipesToShow(a.pipes)
  BY <1>3, <1>4, NoDataToShow, DataOfNothing, EmptyCat, TextEmpty
<1>6. DataIsRead
  BY <1>4, <1>5 DEF DataIsRead, PipesToShow
<1>7. PrecisionAsAsked
  BY <1>4, TextEmpty, TextLen DEF PrecisionAsAsked
<1> QED
  BY <1>1, <1>6, <1>7 DEF RInv

LEMMA ConfiguredKept == ASSUME Configured, [Next]_vars PROVE Configured'
<1>1. UNCHANGED conf
  BY DEF Next, vars, Say, UpdateDevice, UpdateFails, UpdateGroup, UpdateGroupCrashes,
     AttrReadResponse, AttrWriteResponse, CommandResponse, Refusal, Acknowledgement, UserStatus,
     PipeResponse, GroupPipeResponse, Event, Sent
<1>2. /\ attributes' = attributes /\ precisions' = precisions
      /\ pipePrecisions' = pipePrecisions /\ wanted' = wanted
  BY <1>1 DEF conf
<1> QED
  BY <1>2 DEF Configured

LEMMA RInvStep == RInv /\ [Next]_vars => RInv'
<1> SUFFICES ASSUME ConfOK, Configured, DataIsRead, PrecisionAsAsked, [Next]_vars
             PROVE  DataIsRead' /\ PrecisionAsAsked'
  BY ConfKept, ConfiguredKept DEF RInv
<1>1. attributes \in Seq(Attr) /\ IsText(attributes)
  BY DEF ConfOK, IsText
<1>2. ASSUME UNCHANGED <<text, about>> PROVE DataIsRead' /\ PrecisionAsAsked'
  BY <1>2 DEF DataIsRead, PrecisionAsAsked
<1>3. CASE UpdateGroupCrashes
  BY <1>2, <1>3 DEF UpdateGroupCrashes
<1>4. CASE UNCHANGED vars
  BY <1>2, <1>4 DEF vars
<1>5. CASE Sent
  BY <1>5, NothingSaid DEF Sent
<1> QED
  BY <1>1, <1>3, <1>4, <1>5, UpdateDeviceRight, UpdateFailsRight, UpdateGroupRight, AttrReadRight,
     AttrWriteRight, CommandRight, RefusalRight, AcknowledgementRight, UserStatusRight, PipeRight,
     GroupPipeRight, EventRight DEF Next

\* A text shows every value that was read, under the name it was read for, once and in order, and
\* the set values apart from them, and elements of a pipe never swap places: for every group,
\* every list of attributes and whatever the devices return. The indices the functions of
\* TangoProcessor walk by, the cut of a list to its dimensions, the extraction of a pipe that
\* meets the same element again, the commas and the order of the devices never lose, repeat or
\* move a value.
THEOREM DataIsReadHolds == Spec => []DataIsRead
<1>1. RInv => DataIsRead
  BY DEF RInv
<1> QED
  BY <1>1, RInvInit, RInvStep, PTL DEF Spec

\* Every floating number a text shows of an attribute or an element of a pipe is written in the
\* precision that was asked for its name, in whatever way checkPrecisionOptions was told it: one
\* value, a list, an object, options behind the names, or properties read when the gateway was
\* made, where an entry may come again with other options.
THEOREM PrecisionAsAskedHolds == Spec => []PrecisionAsAsked
<1>1. RInv => PrecisionAsAsked
  BY DEF RInv
<1> QED
  BY <1>1, RInvInit, RInvStep, PTL DEF Spec

===============================================================================

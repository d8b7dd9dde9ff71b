------------------------- MODULE DocumentControlsProofs -------------------------
(***************************************************************************)
(* Proofs about the controls of documents of any size: a control shows     *)
(* exactly the text that was put into it (NativeText); what comes of a     *)
(* template, whatever is made of it in the editor or by the server, still  *)
(* has its fields; and what is read of a control is what it shows.         *)
(* DocumentsProofs uses them for the documents that are saved.             *)
(***************************************************************************)
EXTENDS Documents, FiniteSetTheorems, WellFoundedInduction, TLAPS

---------------------------------------------------------------------------
(* Numbers *)

\* A set of numbers has a least element.
LEMMA Least ==
  ASSUME NEW N \in SUBSET Nat, N # {}
  PROVE  \E n \in N : \A m \in N : n <= m
<1>1. PICK x \in N : \A y \in N : ~(<<y, x>> \in OpToRel(<, Nat))
  BY WFMin, NatLessThanWellFounded
<1>2. ASSUME NEW y \in N, y < x PROVE FALSE
  <2>1. x \in Nat /\ y \in Nat
    OBVIOUS
  <2>2. <<y, x>> \in OpToRel(<, Nat)
    BY <1>2, <2>1 DEF OpToRel
  <2> QED BY <1>1, <2>2
<1>3. \A y \in N : x <= y
  <2> SUFFICES ASSUME NEW y \in N PROVE x <= y
    OBVIOUS
  <2>1. x \in Nat /\ y \in Nat
    OBVIOUS
  <2>2. ~(y < x)
    BY <1>2
  <2> QED BY <2>1, <2>2
<1> QED BY <1>3

\* A set that is empty or has a first element beyond all induction steps is empty.
LEMMA Induction ==
  ASSUME NEW Bad \in SUBSET Nat, 0 \notin Bad, \A n \in Nat : n \notin Bad => n + 1 \notin Bad
  PROVE  Bad = {}
<1> SUFFICES ASSUME Bad # {} PROVE FALSE
  OBVIOUS
<1>1. PICK n \in Bad : \A m \in Bad : n <= m
  BY Least
<1>2. n \in Nat /\ n # 0
  BY <1>1
<1> DEFINE m == n - 1
<1>3. m \in Nat /\ m + 1 = n /\ ~(n <= m)
  BY <1>2
<1>4. m \notin Bad
  BY <1>1, <1>3
<1> HIDE DEF m
<1> QED BY <1>1, <1>3, <1>4

\* A set of numbers holds its least one.
LEMMA MinIn ==
  ASSUME NEW N \in SUBSET Nat, N # {}
  PROVE  Min(N) \in N /\ \A m \in N : Min(N) <= m
<1>1. PICK n \in N : \A m \in N : n <= m
  BY Least
<1> QED BY <1>1, Zenon DEF Min

\* A bounded set of numbers holds its greatest one.
LEMMA MaxIn ==
  ASSUME NEW k \in Nat, NEW N \in SUBSET (0..k), N # {}
  PROVE  Max(N) \in N /\ \A m \in N : Max(N) >= m
<1> DEFINE M == {n \in Nat : \A m \in N : m <= n}
<1>1. M \in SUBSET Nat /\ k \in M
  OBVIOUS
<1>2. PICK n \in M : \A m \in M : n <= m
  BY <1>1, Least
<1>3. n \in Nat /\ \A m \in N : m <= n
  BY <1>2
<1>4. n \in N
  <2> SUFFICES ASSUME n \notin N PROVE FALSE
    OBVIOUS
  <2>1. \A m \in N : m \in Nat /\ m < n
    BY <1>3
  <2>2. n # 0
    <3>1. PICK m : m \in N
      OBVIOUS
    <3>2. m \in Nat /\ m < n
      BY <2>1, <3>1
    <3> QED BY <1>3, <3>2
  <2>3. n - 1 \in M
    BY <1>3, <2>1, <2>2
  <2> QED BY <1>2, <1>3, <2>3
<1>5. \A m \in N : n >= m
  BY <1>3
<1> QED BY <1>4, <1>5, Zenon DEF Max

---------------------------------------------------------------------------
(* Sequences *)

\* A sequence with one more element.
LEMMA AppendElements ==
  ASSUME NEW S, NEW s \in Seq(S), NEW e \in S
  PROVE  Append(s, e) \in Seq(S) /\ ToSet(Append(s, e)) = ToSet(s) \cup {e}
<1>1. /\ DOMAIN Append(s, e) = 1..(Len(s) + 1) /\ Append(s, e)[Len(s) + 1] = e
      /\ \A i \in 1..Len(s) : Append(s, e)[i] = s[i]
      /\ DOMAIN s = 1..Len(s) /\ Len(s) \in Nat /\ Append(s, e) \in Seq(S)
  OBVIOUS
<1>2. ASSUME NEW x \in ToSet(Append(s, e)) PROVE x \in ToSet(s) \cup {e}
  <2>1. PICK i \in 1..(Len(s) + 1) : x = Append(s, e)[i]
    BY <1>1 DEF ToSet
  <2>2. i \in 1..Len(s) \/ i = Len(s) + 1
    BY <1>1
  <2> QED BY <1>1, <2>1, <2>2 DEF ToSet
<1>3. ASSUME NEW x \in ToSet(s) \cup {e} PROVE x \in ToSet(Append(s, e))
  <2>1. CASE x = e
    <3>1. Len(s) + 1 \in DOMAIN Append(s, e)
      BY <1>1
    <3> QED BY <1>1, <2>1, <3>1 DEF ToSet
  <2>2. CASE x \in ToSet(s)
    <3>1. PICK i \in 1..Len(s) : x = s[i]
      BY <1>1, <2>2 DEF ToSet
    <3>2. i \in DOMAIN Append(s, e)
      BY <1>1
    <3> QED BY <1>1, <3>1, <3>2 DEF ToSet
  <2> QED BY <2>1, <2>2
<1> QED BY <1>1, <1>2, <1>3

\* Concatenation.
LEMMA JoinElements ==
  ASSUME NEW S, NEW s \in Seq(S), NEW t \in Seq(S)
  PROVE  s \o t \in Seq(S) /\ ToSet(s \o t) = ToSet(s) \cup ToSet(t)
<1>1. /\ DOMAIN (s \o t) = 1..(Len(s) + Len(t)) /\ s \o t \in Seq(S)
      /\ \A i \in 1..Len(s) : (s \o t)[i] = s[i]
      /\ \A i \in 1..Len(t) : (s \o t)[i + Len(s)] = t[i]
      /\ \A i \in 1..(Len(s) + Len(t)) : i \notin 1..Len(s) => i - Len(s) \in 1..Len(t) /\ (s \o t)[i] = t[i - Len(s)]
      /\ DOMAIN s = 1..Len(s) /\ DOMAIN t = 1..Len(t) /\ Len(s) \in Nat /\ Len(t) \in Nat
  OBVIOUS
<1>2. ASSUME NEW e \in ToSet(s \o t) PROVE e \in ToSet(s) \cup ToSet(t)
  BY <1>1 DEF ToSet
<1>3. ASSUME NEW e \in ToSet(s) PROVE e \in ToSet(s \o t)
  <2>1. PICK i \in 1..Len(s) : e = s[i]
    BY <1>1 DEF ToSet
  <2>2. i \in DOMAIN (s \o t)
    BY <1>1
  <2> QED BY <1>1, <2>1, <2>2 DEF ToSet
<1>4. ASSUME NEW e \in ToSet(t) PROVE e \in ToSet(s \o t)
  <2>1. PICK i \in 1..Len(t) : e = t[i]
    BY <1>1 DEF ToSet
  <2>2. i + Len(s) \in DOMAIN (s \o t)
    BY <1>1
  <2> QED BY <1>1, <2>1, <2>2 DEF ToSet
<1> QED BY <1>1, <1>2, <1>3, <1>4

\* The function by which a sequence of sequences is flattened exists.
LEMMA FlattenFunction ==
  ASSUME NEW seqs, NEW n \in Nat
  PROVE  \E f : f = [i \in 1..n |-> IF i = 1 THEN seqs[i] ELSE f[i-1] \o seqs[i]]
<1> DEFINE Is(f, m) == f = [i \in 1..m |-> IF i = 1 THEN seqs[i] ELSE f[i-1] \o seqs[i]]
           Bad == {m \in Nat : ~\E f : Is(f, m)}
<1>1. \E f : Is(f, 0)
  <2> DEFINE f == [i \in 1..0 |-> seqs[i]]
  <2>1. Is(f, 0)
    BY SMT
  <2> QED BY <2>1
<1>2. ASSUME NEW m \in Nat, NEW f, Is(f, m) PROVE \E g : Is(g, m+1)
  <2> DEFINE g == [i \in 1..m+1 |-> IF i = 1 THEN seqs[i] ELSE f[i-1] \o seqs[i]]
  <2>1. ASSUME NEW i \in 1..m PROVE g[i] = f[i]
    <3>1. i \in 1..m+1
      OBVIOUS
    <3>2. f[i] = IF i = 1 THEN seqs[i] ELSE f[i-1] \o seqs[i]
      BY <1>2, Zenon
    <3> QED BY <3>1, <3>2
  <2>2. ASSUME NEW i \in 1..m+1 PROVE g[i] = IF i = 1 THEN seqs[i] ELSE g[i-1] \o seqs[i]
    <3>1. CASE i = 1
      BY <3>1
    <3>2. CASE i # 1
      <4>1. i - 1 \in 1..m
        BY <3>2
      <4>2. g[i-1] = f[i-1]
        BY <4>1, <2>1
      <4>3. g[i] = f[i-1] \o seqs[i]
        BY <3>2
      <4> HIDE DEF g
      <4> QED BY <3>2, <4>2, <4>3
    <3> QED BY <3>1, <3>2
  <2>3. g = [i \in 1..m+1 |-> IF i = 1 THEN seqs[i] ELSE g[i-1] \o seqs[i]]
    <3>1. g = [i \in 1..m+1 |-> g[i]]
      OBVIOUS
    <3> HIDE DEF g
    <3> QED BY <3>1, <2>2, Zenon
  <2> QED BY <2>3
<1>3. Bad = {}
  <2>1. 0 \notin Bad
    BY <1>1
  <2>2. \A m \in Nat : m \notin Bad => m + 1 \notin Bad
    BY <1>2
  <2> HIDE DEF Bad
  <2>3. Bad \in SUBSET Nat
    BY DEF Bad
  <2> QED BY <2>1, <2>2, <2>3, Induction
<1> QED BY <1>3

\* A flattened sequence has the elements of the sequences it is made of.
LEMMA FlattenElements ==
  ASSUME NEW S, NEW seqs \in Seq(Seq(S))
  PROVE  /\ FlattenSeq(seqs) \in Seq(S)
         /\ \A k \in DOMAIN seqs : ToSet(seqs[k]) \subseteq ToSet(FlattenSeq(seqs))
         /\ \A e \in ToSet(FlattenSeq(seqs)) : \E k \in DOMAIN seqs : e \in ToSet(seqs[k])
<1> DEFINE n == Len(seqs)
           f == CHOOSE g : g = [i \in 1..Len(seqs) |-> IF i = 1 THEN seqs[i] ELSE g[i-1] \o seqs[i]]
<1>1. n \in Nat /\ DOMAIN seqs = 1..n
  OBVIOUS
<1>2. f = [i \in 1..n |-> IF i = 1 THEN seqs[i] ELSE f[i-1] \o seqs[i]]
  BY <1>1, FlattenFunction, Zenon
<1>3. FlattenSeq(seqs) = IF n = 0 THEN seqs ELSE f[n]
  BY Zenon DEF FlattenSeq
<1> HIDE DEF f, n
<1>4. ASSUME NEW i \in 1..n PROVE f[i] = IF i = 1 THEN seqs[i] ELSE f[i-1] \o seqs[i]
  BY <1>2, Zenon
<1> DEFINE Good(m) == /\ f[m] \in Seq(S)
                      /\ \A k \in 1..m : ToSet(seqs[k]) \subseteq ToSet(f[m])
                      /\ \A e \in ToSet(f[m]) : \E k \in 1..m : e \in ToSet(seqs[k])
           Bad == {m \in Nat : m \in 1..n /\ ~Good(m)}
<1>5. ASSUME NEW m \in Nat, m \notin Bad, m + 1 \in 1..n PROVE Good(m + 1)
  <2>1. CASE m = 0
    <3>1. f[1] = seqs[1] /\ seqs[1] \in Seq(S)
      BY <1>1, <1>4, <1>5, <2>1
    <3>2. Good(1)
      BY <3>1
    <3> QED BY <2>1, <3>2
  <2>2. CASE m # 0
    <3>1. m \in 1..n /\ m + 1 # 1 /\ (m + 1) - 1 = m
      BY <1>1, <1>5, <2>2
    <3>2. f[m + 1] = f[m] \o seqs[m + 1]
      BY <1>4, <1>5, <3>1
    <3>3. Good(m)
      BY <1>5, <3>1
    <3>4. f[m] \in Seq(S) /\ seqs[m + 1] \in Seq(S)
      BY <1>1, <1>5, <3>3
    <3>5. f[m + 1] \in Seq(S) /\ ToSet(f[m + 1]) = ToSet(f[m]) \cup ToSet(seqs[m + 1])
      BY <3>2, <3>4, JoinElements
    <3>8. \A k \in 1..(m + 1) : k \in 1..m \/ k = m + 1
      OBVIOUS
    <3>9. \A k \in 1..(m + 1) : ToSet(seqs[k]) \subseteq ToSet(f[m + 1])
      BY <3>3, <3>5, <3>8
    <3>10. \A e \in ToSet(f[m + 1]) : \E k \in 1..(m + 1) : e \in ToSet(seqs[k])
      <4> SUFFICES ASSUME NEW e \in ToSet(f[m + 1]) PROVE \E k \in 1..(m + 1) : e \in ToSet(seqs[k])
        OBVIOUS
      <4>1. CASE e \in ToSet(f[m])
        <5>1. PICK k \in 1..m : e \in ToSet(seqs[k])
          BY <3>3, <4>1
        <5> QED BY <5>1
      <4>2. CASE e \in ToSet(seqs[m + 1])
        BY <4>2
      <4> QED BY <3>5, <4>1, <4>2
    <3> QED BY <3>5, <3>9, <3>10
  <2> QED BY <2>1, <2>2
<1>6. Bad = {}
  <2>1. 0 \notin Bad
    OBVIOUS
  <2>2. \A m \in Nat : m \notin Bad => m + 1 \notin Bad
    BY <1>5
  <2>3. Bad \in SUBSET Nat
    OBVIOUS
  <2> HIDE DEF Bad
  <2> QED BY <2>1, <2>2, <2>3, Induction
<1>7. CASE n = 0
  <2>1. FlattenSeq(seqs) = seqs /\ seqs = <<>> /\ DOMAIN seqs = {}
    BY <1>1, <1>3, <1>7 DEF n
  <2> QED BY <2>1 DEF ToSet
<1>8. CASE n # 0
  <2>1. n \in 1..n /\ FlattenSeq(seqs) = f[n]
    BY <1>1, <1>3, <1>8
  <2>2. Good(n)
    BY <1>1, <1>6, <2>1
  <2> QED BY <1>1, <2>1, <2>2
<1> QED BY <1>7, <1>8

---------------------------------------------------------------------------
(* Texts *)

\* Something that is no white space is in a text, or a reader of content sees it.
Ink(text) == ~(ToSet(text) \subseteq Blank)

\* Trimming a text leaves nothing exactly when there was only white space in it.
LEMMA TrimInk ==
  ASSUME NEW S, NEW text \in Seq(S)
  PROVE  /\ Trim(text) \in Seq(S)
         /\ Trim(text) # <<>> <=> Ink(text)
<1> DEFINE I == {i \in DOMAIN text : text[i] \notin Blank}
<1>1. DOMAIN text = 1..Len(text) /\ Len(text) \in Nat
  OBVIOUS
<1>2. Trim(text) = IF I = {} THEN <<>> ELSE SubSeq(text, Min(I), Max(I))
  BY DEF Trim
<1>3. I \in SUBSET Nat /\ I \in SUBSET (0..Len(text)) /\ I \subseteq 1..Len(text)
  BY <1>1
<1>4. Ink(text) <=> I # {}
  BY DEF Ink, ToSet
<1>5. CASE I = {}
  BY <1>2, <1>4, <1>5
<1>6. CASE I # {}
  <2> HIDE DEF I
  <2>1. /\ Min(I) \in I /\ \A m \in I : Min(I) <= m
        /\ Max(I) \in I /\ \A m \in I : Max(I) >= m
    BY <1>1, <1>3, <1>6, MinIn, MaxIn
  <2> DEFINE a == Min(I)
             b == Max(I)
  <2>2. a \in 1..Len(text) /\ b \in 1..Len(text) /\ a <= b
    BY <1>3, <2>1
  <2> HIDE DEF a, b
  <2>3. SubSeq(text, a, b) \in Seq(S) /\ Len(SubSeq(text, a, b)) = b - a + 1
    BY <1>1, <2>2
  <2>4. SubSeq(text, a, b) # <<>>
    BY <1>1, <2>2, <2>3
  <2> QED BY <1>2, <1>4, <1>6, <2>3, <2>4 DEF a, b
<1> QED BY <1>5, <1>6

\* The function by which a text is split exists.
Splits(f, text, at, n) == f = [i \in 0..n |-> IF i = 0 THEN << <<>> >> ELSE Extended(f[i - 1], text[i], at)]

\* It is defined by recursion on the length of the text.
LEMMA SplitFunction ==
  ASSUME NEW text, NEW at, NEW n \in Nat
  PROVE  \E f : Splits(f, text, at, n)
<1> DEFINE first == << <<>> >>
           Is(f, m) == f = [i \in 0..m |-> IF i = 0 THEN first ELSE Extended(f[i - 1], text[i], at)]
<1> HIDE DEF first
<1> DEFINE Bad == {m \in Nat : ~\E f : Is(f, m)}
<1>1. \E f : Is(f, 0)
  <2> DEFINE f == [i \in 0..0 |-> first]
  <2>1. Is(f, 0)
    BY SMT
  <2> QED BY <2>1
<1>2. ASSUME NEW m \in Nat, NEW f, Is(f, m) PROVE \E g : Is(g, m+1)
  <2> DEFINE g == [i \in 0..m+1 |-> IF i = 0 THEN first ELSE Extended(f[i - 1], text[i], at)]
  <2>1. ASSUME NEW i \in 0..m PROVE g[i] = f[i]
    <3>1. i \in 0..m+1
      OBVIOUS
    <3>2. f[i] = IF i = 0 THEN first ELSE Extended(f[i - 1], text[i], at)
      BY <1>2, Zenon
    <3> QED BY <3>1, <3>2
  <2>2. ASSUME NEW i \in 0..m+1 PROVE g[i] = IF i = 0 THEN first ELSE Extended(g[i - 1], text[i], at)
    <3>1. CASE i = 0
      BY <3>1
    <3>2. CASE i # 0
      <4>1. i - 1 \in 0..m
        BY <3>2
      <4>2. g[i-1] = f[i-1]
        BY <4>1, <2>1
      <4>3. g[i] = Extended(f[i - 1], text[i], at)
        BY <3>2
      <4> HIDE DEF g
      <4> QED BY <3>2, <4>2, <4>3
    <3> QED BY <3>1, <3>2
  <2>3. g = [i \in 0..m+1 |-> IF i = 0 THEN first ELSE Extended(g[i - 1], text[i], at)]
    <3>1. g = [i \in 0..m+1 |-> g[i]]
      OBVIOUS
    <3> HIDE DEF g
    <3> QED BY <3>1, <2>2, Zenon
  <2> QED BY <2>3
<1>3. Bad = {}
  <2>1. 0 \notin Bad
    BY <1>1
  <2>2. \A m \in Nat : m \notin Bad => m + 1 \notin Bad
    BY <1>2
  <2> HIDE DEF Bad
  <2>3. Bad \in SUBSET Nat
    BY DEF Bad
  <2> QED BY <2>1, <2>2, <2>3, Induction
<1>4. PICK f : Is(f, n)
  BY <1>3
<1>5. Splits(f, text, at, n)
  BY <1>4, Zenon DEF Splits, first
<1> QED BY <1>5

\* A part longer by one character, or a new part.
LEMMA ExtendedParts ==
  ASSUME NEW S, NEW parts \in Seq(Seq(S)), parts # <<>>, NEW c \in S, NEW at
  PROVE  LET more == Extended(parts, c, at) IN
         /\ more \in Seq(Seq(S)) /\ more # <<>>
         /\ \A k \in DOMAIN parts : k \in DOMAIN more /\ ToSet(parts[k]) \subseteq ToSet(more[k])
         /\ c # at => \E k \in DOMAIN more : c \in ToSet(more[k])
<1> DEFINE more == Extended(parts, c, at)
<1>1. CASE c = at
  <2>1. more = Append(parts, <<>>) /\ <<>> \in Seq(S)
    BY <1>1 DEF Extended
  <2>2. more \in Seq(Seq(S)) /\ more # <<>> /\ \A k \in DOMAIN parts : k \in DOMAIN more /\ more[k] = parts[k]
    BY <2>1
  <2> QED BY <1>1, <2>2
<1>2. CASE c # at
  <2> DEFINE n == Len(parts)
             s == Append(parts[n], c)
  <2>1. n \in DOMAIN parts /\ parts[n] \in Seq(S)
    OBVIOUS
  <2>2. s \in Seq(S) /\ ToSet(s) = ToSet(parts[n]) \cup {c}
    BY <2>1, AppendElements
  <2>3. more = [parts EXCEPT ![n] = s]
    BY <1>2 DEF Extended
  <2> HIDE DEF s, more
  <2>4. more \in Seq(Seq(S)) /\ DOMAIN more = DOMAIN parts /\ more # <<>>
    BY <2>1, <2>2, <2>3
  <2>5. \A k \in DOMAIN parts : more[k] = IF k = n THEN s ELSE parts[k]
    BY <2>1, <2>3
  <2> HIDE DEF n
  <2>6. \A k \in DOMAIN parts : ToSet(parts[k]) \subseteq ToSet(more[k])
    BY <2>2, <2>5
  <2>7. c \in ToSet(more[n])
    BY <2>1, <2>2, <2>5
  <2> QED BY <2>1, <2>4, <2>6, <2>7 DEF more
<1> QED BY <1>1, <1>2

\* The parts of a text hold its characters, save those it is split at.
LEMMA SplitElements ==
  ASSUME NEW S, NEW text \in Seq(S), NEW at
  PROVE  /\ Split(text, at) \in Seq(Seq(S)) /\ Split(text, at) # <<>>
         /\ \A c \in ToSet(text) : c # at => \E k \in DOMAIN Split(text, at) : c \in ToSet(Split(text, at)[k])
<1> DEFINE n == Len(text)
           f == CHOOSE g : g = [i \in 0..Len(text) |-> IF i = 0 THEN << <<>> >> ELSE Extended(g[i - 1], text[i], at)]
<1>1. n \in Nat /\ DOMAIN text = 1..n /\ \A i \in 1..n : text[i] \in S
  OBVIOUS
<1>2. f = [i \in 0..Len(text) |-> IF i = 0 THEN << <<>> >> ELSE Extended(f[i - 1], text[i], at)]
  <2>1. PICK g : Splits(g, text, at, Len(text))
    BY <1>1, SplitFunction
  <2> QED BY <2>1, Zenon DEF Splits
<1>3. Split(text, at) = f[n]
  BY Zenon DEF Split
<1> HIDE DEF f, n
<1>4. ASSUME NEW i \in 0..n PROVE f[i] = IF i = 0 THEN << <<>> >> ELSE Extended(f[i - 1], text[i], at)
  BY <1>2, Zenon DEF n
<1> DEFINE Good(m) == /\ f[m] \in Seq(Seq(S)) /\ f[m] # <<>>
                      /\ \A i \in 1..m : text[i] # at => \E k \in DOMAIN f[m] : text[i] \in ToSet(f[m][k])
           Bad == {m \in Nat : m \in 0..n /\ ~Good(m)}
<1>5. Good(0)
  <2>1. f[0] = << <<>> >>
    BY <1>1, <1>4
  <2> QED BY <2>1
<1>6. ASSUME NEW m \in Nat, m \notin Bad, m + 1 \in 0..n PROVE Good(m + 1)
  <2>1. m \in 0..n /\ m + 1 # 0 /\ (m + 1) - 1 = m /\ m + 1 \in 1..n
    BY <1>1, <1>6
  <2>2. f[m + 1] = Extended(f[m], text[m + 1], at)
    BY <1>4, <1>6, <2>1
  <2>3. Good(m)
    BY <1>6, <2>1
  <2>4. text[m + 1] \in S
    BY <1>1, <2>1
  <2> DEFINE parts == f[m]
             c == text[m + 1]
             more == f[m + 1]
  <2>5. /\ more \in Seq(Seq(S)) /\ more # <<>>
        /\ \A k \in DOMAIN parts : k \in DOMAIN more /\ ToSet(parts[k]) \subseteq ToSet(more[k])
        /\ c # at => \E k \in DOMAIN more : c \in ToSet(more[k])
    BY <2>2, <2>3, <2>4, ExtendedParts
  <2>6. ASSUME NEW i \in 1..(m + 1), text[i] # at PROVE \E k \in DOMAIN more : text[i] \in ToSet(more[k])
    <3>1. CASE i = m + 1
      BY <2>5, <2>6, <3>1
    <3>2. CASE i # m + 1
      <4>1. i \in 1..m
        BY <3>2
      <4>2. PICK k \in DOMAIN parts : text[i] \in ToSet(parts[k])
        BY <2>3, <2>6, <4>1
      <4> QED BY <2>5, <4>2
    <3> QED BY <3>1, <3>2
  <2> QED BY <2>5, <2>6
<1>7. Bad = {}
  <2>1. 0 \notin Bad
    BY <1>5
  <2>2. \A m \in Nat : m \notin Bad => m + 1 \notin Bad
    BY <1>6
  <2>3. Bad \in SUBSET Nat
    OBVIOUS
  <2> HIDE DEF Bad
  <2> QED BY <2>1, <2>2, <2>3, Induction
<1>8. Good(n)
  BY <1>1, <1>7
<1> QED BY <1>1, <1>3, <1>8 DEF ToSet

\* Characters, and what the editor and the server write for a part of a date.
AllDates == [year : Nat, month : Nat, day : Nat]
Literals == {" ", NewLine, Tab, "a", "b", "c", "?", "[ ]", "[x]", "Red", "r", "none", "#null", "#true", "#false"}
Letters == Literals \cup {DateToken(date, token) : date \in AllDates, token \in DateTokens \cup Separators}
Texts == Seq(Letters)
Nodes == [kind : {"p", "br", "tab", "t"}, text : Texts]

\* What is written in the runs of content.
Written(nodes) == {e \in Letters : \E node \in ToSet(nodes) : node.kind = "t" /\ e \in ToSet(node.text)}

\* The characters, texts and nodes that content is made of.
LEMMA Basics ==
  /\ NewLine \in Letters /\ Tab \in Letters /\ <<>> \in Texts
  /\ P \in Nodes /\ Br \in Nodes /\ TabNode \in Nodes
  /\ \A text \in Texts : T(text) \in Nodes /\ T(text).kind = "t" /\ T(text).text = text
  /\ <<NewLine>> \in Texts /\ <<Tab>> \in Texts
<1>1. NewLine \in Letters /\ Tab \in Letters
  BY DEF Literals, Letters
<1>2. <<>> \in Texts /\ <<NewLine>> \in Texts /\ <<Tab>> \in Texts
  BY <1>1 DEF Texts
<1>3. P \in Nodes /\ Br \in Nodes /\ TabNode \in Nodes
  BY <1>2 DEF P, Br, TabNode, Nodes
<1>4. ASSUME NEW text \in Texts PROVE T(text) \in Nodes /\ T(text).kind = "t" /\ T(text).text = text
  BY DEF T, Nodes
<1> QED BY <1>1, <1>2, <1>3, <1>4

\* A reader sees what is written.
LEMMA VisibleWritten ==
  ASSUME NEW nodes \in Seq(Nodes)
  PROVE  VisibleText(nodes) \in Texts /\ Written(nodes) \subseteq ToSet(VisibleText(nodes))
<1> DEFINE seen(i) == CASE nodes[i].kind = "t"   -> nodes[i].text
                        [] nodes[i].kind = "tab" -> <<Tab>>
                        [] nodes[i].kind = "br"  -> <<NewLine>>
                        [] nodes[i].kind = "p"   -> IF ParagraphOf(nodes, i) = 0 THEN <<>> ELSE <<NewLine>>
           parts == [i \in DOMAIN nodes |-> seen(i)]
<1>1. \A i \in DOMAIN nodes : nodes[i] \in Nodes
  OBVIOUS
<1>2. ASSUME NEW i \in DOMAIN nodes PROVE seen(i) \in Texts /\ (nodes[i].kind = "t" => seen(i) = nodes[i].text)
  <2>1. nodes[i].kind \in {"p", "br", "tab", "t"} /\ nodes[i].text \in Texts
    BY <1>1 DEF Nodes
  <2>2. CASE nodes[i].kind = "t"
    BY <2>1, <2>2
  <2>3. CASE nodes[i].kind = "tab"
    BY <2>3, Basics
  <2>4. CASE nodes[i].kind = "br"
    BY <2>4, Basics
  <2>5. CASE nodes[i].kind = "p"
    BY <2>5, Basics
  <2> QED BY <2>1, <2>2, <2>3, <2>4, <2>5
<1>0. DOMAIN nodes = 1..Len(nodes) /\ Len(nodes) \in Nat
  OBVIOUS
<1>4. VisibleText(nodes) = FlattenSeq(parts)
  BY DEF VisibleText
<1> HIDE DEF seen
<1>3. DOMAIN parts = DOMAIN nodes /\ \A i \in DOMAIN nodes : parts[i] = seen(i)
  OBVIOUS
<1>5. parts \in Seq(Texts)
  BY <1>0, <1>2, <1>3
<1> HIDE DEF parts
<1>6. /\ FlattenSeq(parts) \in Texts
      /\ \A k \in DOMAIN parts : ToSet(parts[k]) \subseteq ToSet(FlattenSeq(parts))
  BY <1>5, FlattenElements DEF Texts
<1>7. ASSUME NEW e \in Written(nodes) PROVE e \in ToSet(FlattenSeq(parts))
  <2>1. PICK i \in DOMAIN nodes : nodes[i].kind = "t" /\ e \in ToSet(nodes[i].text)
    BY DEF Written, ToSet
  <2> QED BY <1>0, <1>2, <1>3, <1>6, <2>1
<1> QED BY <1>4, <1>6, <1>7

\* Content that is made of parts holds what is written in them.
LEMMA FlattenWritten ==
  ASSUME NEW parts \in Seq(Seq(Nodes))
  PROVE  /\ FlattenSeq(parts) \in Seq(Nodes)
         /\ \A k \in DOMAIN parts : Written(parts[k]) \subseteq Written(FlattenSeq(parts))
  BY FlattenElements DEF Written

\* What is written in two pieces of content is written in their concatenation, and nothing else.
LEMMA JoinWritten ==
  ASSUME NEW s \in Seq(Nodes), NEW t \in Seq(Nodes)
  PROVE  s \o t \in Seq(Nodes) /\ Written(s \o t) = Written(s) \cup Written(t)
<1>1. s \o t \in Seq(Nodes) /\ ToSet(s \o t) = ToSet(s) \cup ToSet(t)
  BY JoinElements
<1> QED BY <1>1 DEF Written

\* One run.
LEMMA RunWritten ==
  ASSUME NEW text \in Texts, NEW node \in Nodes
  PROVE  /\ <<T(text)>> \in Seq(Nodes) /\ <<node, T(text)>> \in Seq(Nodes) /\ <<node>> \in Seq(Nodes)
         /\ ToSet(text) \subseteq Written(<<T(text)>>)
         /\ ToSet(text) \subseteq Written(<<node, T(text)>>)
<1>1. T(text) \in Nodes /\ T(text).kind = "t" /\ T(text).text = text
  BY Basics
<1> DEFINE run == T(text)
<1> HIDE DEF run
<1>2. run \in Nodes /\ run.kind = "t" /\ run.text = text
  BY <1>1 DEF run
<1>3. <<run>> \in Seq(Nodes) /\ <<node, run>> \in Seq(Nodes) /\ <<node>> \in Seq(Nodes)
  BY <1>2
<1>4. run \in ToSet(<<run>>) /\ run \in ToSet(<<node, run>>)
  <2>1. 1 \in DOMAIN <<run>> /\ <<run>>[1] = run /\ 2 \in DOMAIN <<node, run>> /\ <<node, run>>[2] = run
    OBVIOUS
  <2> QED BY <2>1 DEF ToSet
<1>5. ToSet(text) \subseteq Letters
  BY DEF ToSet, Texts
<1> QED BY <1>2, <1>3, <1>4, <1>5 DEF Written, run

\* The text in place of a run, with tabs as elements, or lines.
LEMMA TextNodesWritten ==
  ASSUME NEW text \in Texts
  PROVE  TextNodes(text) \in Seq(Nodes) /\ ToSet(text) \ {Tab} \subseteq Written(TextNodes(text))
<1> DEFINE parts == Split(text, Tab)
           nodes == [k \in DOMAIN parts |-> IF k = 1 THEN <<T(parts[k])>> ELSE <<TabNode, T(parts[k])>>]
<1>1. /\ parts \in Seq(Texts)
      /\ \A c \in ToSet(text) : c # Tab => \E k \in DOMAIN parts : c \in ToSet(parts[k])
  BY SplitElements DEF Texts
<1>2. TextNodes(text) = FlattenSeq(nodes)
  BY DEF TextNodes
<1> HIDE DEF parts
<1>3. ASSUME NEW k \in DOMAIN parts PROVE nodes[k] \in Seq(Nodes) /\ ToSet(parts[k]) \subseteq Written(nodes[k])
  <2>1. parts[k] \in Texts
    BY <1>1
  <2> QED BY <2>1, RunWritten, Basics
<1>4. DOMAIN nodes = 1..Len(parts) /\ Len(parts) \in Nat /\ DOMAIN parts = 1..Len(parts)
  BY <1>1
<1>5. nodes \in Seq(Seq(Nodes))
  <2>1. nodes = [k \in 1..Len(parts) |-> nodes[k]]
    BY <1>4
  <2> HIDE DEF nodes
  <2> QED BY <1>3, <1>4, <2>1
<1> HIDE DEF nodes
<1> QED BY <1>1, <1>2, <1>3, <1>4, <1>5, FlattenWritten

\* Fresh content holds what is in the text, line breaks aside.
LEMMA FreshWritten ==
  ASSUME NEW text \in Texts, NEW block \in BOOLEAN
  PROVE  Fresh(text, block) \in Seq(Nodes) /\ ToSet(text) \ {NewLine} \subseteq Written(Fresh(text, block))
<1> DEFINE parts == Lines(text)
           nodes == [k \in DOMAIN parts |-> IF k = 1 THEN <<T(parts[k])>> ELSE <<Br, T(parts[k])>>]
           start == IF block THEN <<P>> ELSE <<>>
<1>1. /\ parts \in Seq(Texts)
      /\ \A c \in ToSet(text) : c # NewLine => \E k \in DOMAIN parts : c \in ToSet(parts[k])
  BY SplitElements DEF Texts, Lines
<1>2. Fresh(text, block) = start \o FlattenSeq(nodes)
  BY DEF Fresh
<1> HIDE DEF parts
<1>3. ASSUME NEW k \in DOMAIN parts PROVE nodes[k] \in Seq(Nodes) /\ ToSet(parts[k]) \subseteq Written(nodes[k])
  <2>1. parts[k] \in Texts
    BY <1>1
  <2> QED BY <2>1, RunWritten, Basics
<1>4. DOMAIN nodes = 1..Len(parts) /\ Len(parts) \in Nat /\ DOMAIN parts = 1..Len(parts)
  BY <1>1
<1>5. nodes \in Seq(Seq(Nodes))
  <2>1. nodes = [k \in 1..Len(parts) |-> nodes[k]]
    BY <1>4
  <2> HIDE DEF nodes
  <2> QED BY <1>3, <1>4, <2>1
<1>6. start \in Seq(Nodes)
  BY Basics
<1> HIDE DEF nodes, start
<1>7. FlattenSeq(nodes) \in Seq(Nodes) /\ \A k \in DOMAIN nodes : Written(nodes[k]) \subseteq Written(FlattenSeq(nodes))
  BY <1>5, FlattenWritten
<1>8. start \o FlattenSeq(nodes) \in Seq(Nodes) /\ Written(FlattenSeq(nodes)) \subseteq Written(start \o FlattenSeq(nodes))
  BY <1>6, <1>7, JoinWritten
<1> QED BY <1>1, <1>2, <1>3, <1>4, <1>7, <1>8

---------------------------------------------------------------------------
(* Lines *)

\* Elements of a kind are counted.
LEMMA CountType ==
  ASSUME NEW nodes, NEW upto \in Int, NEW kind
  PROVE  Count(nodes, upto, kind) \in Nat
<1>1. IsFiniteSet(1..upto)
  BY FS_Interval
<1>2. IsFiniteSet({i \in 1..upto : nodes[i].kind = kind})
  BY <1>1, FS_Subset
<1> QED BY <1>2, FS_CardinalityType DEF Count

\* Elements are on numbered lines, and content has at least one.
LEMMA LineTypes ==
  ASSUME NEW nodes, NEW i \in Nat
  PROVE  LineOf(nodes, i) \in Nat
<1>1. Count(nodes, i - 1, "br") \in Nat /\ Count(nodes, i, "p") \in Nat
  BY CountType
<1> DEFINE p == ParagraphOf(nodes, i)
<1>2. p \in Int
  BY <1>1 DEF ParagraphOf
<1> HIDE DEF p
<1>3. Max({0, p}) \in Nat
  <2>1. CASE p <= 0
    <3>1. 0 \in {0, p} /\ \A y \in {0, p} : 0 >= y
      BY <1>2, <2>1
    <3>2. Max({0, p}) \in {0, p} /\ \A y \in {0, p} : Max({0, p}) >= y
      BY <3>1, Zenon DEF Max
    <3> QED BY <1>2, <3>2
  <2>2. CASE ~(p <= 0)
    <3>1. p \in {0, p} /\ \A y \in {0, p} : p >= y
      BY <1>2, <2>2
    <3>2. Max({0, p}) \in {0, p} /\ \A y \in {0, p} : Max({0, p}) >= y
      BY <3>1, Zenon DEF Max
    <3> QED BY <1>2, <3>2
  <2> QED BY <2>1, <2>2
<1> QED BY <1>1, <1>3 DEF LineOf, p

\* Content has at least one line.
LEMMA LineCountType ==
  ASSUME NEW nodes \in Seq(Nodes)
  PROVE  LineCount(nodes) \in Nat \ {0}
<1>1. Len(nodes) + 1 \in Nat
  OBVIOUS
<1>2. LineOf(Append(nodes, T(<<>>)), Len(nodes) + 1) \in Nat
  BY <1>1, LineTypes
<1> QED BY <1>2 DEF LineCount

\* The lesser of two numbers.
LEMMA Lesser ==
  ASSUME NEW a \in Nat, NEW b \in Nat
  PROVE  Min({a, b}) = IF a <= b THEN a ELSE b
<1>1. {a, b} \in SUBSET Nat /\ {a, b} # {}
  OBVIOUS
<1>2. Min({a, b}) \in {a, b} /\ \A m \in {a, b} : Min({a, b}) <= m
  BY <1>1, MinIn
<1> QED BY <1>2

---------------------------------------------------------------------------
(* Shares of a line *)

\* The function that adds up the widths of elements exists.
Adds(f, more, n) == f = [i \in 0..n |-> IF i = 0 THEN 0 ELSE f[i - 1] + more[i]]

\* Sums exist for every length.
LEMMA AddsFunction ==
  ASSUME NEW more, NEW n \in Nat
  PROVE  \E f : Adds(f, more, n)
<1> DEFINE Bad == {m \in Nat : ~\E f : Adds(f, more, m)}
<1>1. \E f : Adds(f, more, 0)
  <2> DEFINE f == [i \in 0..0 |-> 0]
  <2>1. Adds(f, more, 0)
    BY SMT DEF Adds
  <2> QED BY <2>1
<1>2. ASSUME NEW m \in Nat, NEW f, Adds(f, more, m) PROVE \E g : Adds(g, more, m+1)
  <2> DEFINE g == [i \in 0..m+1 |-> IF i = 0 THEN 0 ELSE f[i - 1] + more[i]]
  <2>1. ASSUME NEW i \in 0..m PROVE g[i] = f[i]
    <3>1. i \in 0..m+1
      OBVIOUS
    <3>2. f[i] = IF i = 0 THEN 0 ELSE f[i - 1] + more[i]
      BY <1>2, Zenon DEF Adds
    <3> QED BY <3>1, <3>2
  <2>2. ASSUME NEW i \in 0..m+1 PROVE g[i] = IF i = 0 THEN 0 ELSE g[i - 1] + more[i]
    <3>1. CASE i = 0
      BY <3>1
    <3>2. CASE i # 0
      <4>1. i - 1 \in 0..m
        BY <3>2
      <4>2. g[i-1] = f[i-1]
        BY <4>1, <2>1
      <4>3. g[i] = f[i - 1] + more[i]
        BY <3>2
      <4> HIDE DEF g
      <4> QED BY <3>2, <4>2, <4>3
    <3> QED BY <3>1, <3>2
  <2>3. g = [i \in 0..m+1 |-> IF i = 0 THEN 0 ELSE g[i - 1] + more[i]]
    <3>1. g = [i \in 0..m+1 |-> g[i]]
      OBVIOUS
    <3> HIDE DEF g
    <3> QED BY <3>1, <2>2, Zenon
  <2> QED BY <2>3 DEF Adds
<1>3. Bad = {}
  <2>1. 0 \notin Bad
    BY <1>1
  <2>2. \A m \in Nat : m \notin Bad => m + 1 \notin Bad
    BY <1>2
  <2> HIDE DEF Bad
  <2>3. Bad \in SUBSET Nat
    BY DEF Bad
  <2> QED BY <2>1, <2>2, <2>3, Induction
<1> QED BY <1>3

\* Only segments have a width.
LEMMA WidthsStep ==
  ASSUME NEW nodes \in Seq(Nodes), NEW segments
  PROVE  LET width == Widths(nodes, segments) IN
         /\ width[0] = 0
         /\ \A n \in 1..Len(nodes) : width[n - 1] \in Nat =>
              width[n] \in Nat /\ width[n - 1] <= width[n] /\ (n \notin segments => width[n] = width[n - 1])
<1> DEFINE one(n) == IF n \notin segments THEN 0 ELSE IF nodes[n].kind = "tab" THEN 1 ELSE Len(nodes[n].text)
           more == [n \in 1..Len(nodes) |-> one(n)]
           Is(f) == f = [n \in 0..Len(nodes) |-> IF n = 0 THEN 0 ELSE f[n - 1] +
                           (IF n \notin segments THEN 0 ELSE IF nodes[n].kind = "tab" THEN 1 ELSE Len(nodes[n].text))]
           width == CHOOSE f : Is(f)
<1>1. Len(nodes) \in Nat
  OBVIOUS
<1>2. PICK g : Adds(g, more, Len(nodes))
  <2> HIDE DEF more
  <2> QED BY <1>1, AddsFunction
<1>3. Is(g)
  <2>1. g = [i \in 0..Len(nodes) |-> IF i = 0 THEN 0 ELSE g[i - 1] + more[i]]
    BY <1>2, Zenon DEF Adds
  <2>2. \A i \in 0..Len(nodes) : i # 0 => i \in 1..Len(nodes)
    BY <1>1
  <2>3. \A i \in 1..Len(nodes) : more[i] = one(i)
    BY Zenon
  <2> HIDE DEF more, one
  <2>4. \A i \in 0..Len(nodes) : (IF i = 0 THEN 0 ELSE g[i - 1] + more[i]) = (IF i = 0 THEN 0 ELSE g[i - 1] + one(i))
    BY <2>2, <2>3, Zenon
  <2>5. [i \in 0..Len(nodes) |-> IF i = 0 THEN 0 ELSE g[i - 1] + more[i]]
        = [i \in 0..Len(nodes) |-> IF i = 0 THEN 0 ELSE g[i - 1] + one(i)]
    BY <2>4, Zenon
  <2>6. g = [i \in 0..Len(nodes) |-> IF i = 0 THEN 0 ELSE g[i - 1] + one(i)]
    BY <2>1, <2>5, Zenon
  <2> QED BY <2>6, Zenon DEF one
<1>4. Is(width)
  BY <1>3, Zenon
<1>5. Widths(nodes, segments) = width
  BY Zenon DEF Widths
<1>6. \A n \in 0..Len(nodes) : width[n] = IF n = 0 THEN 0 ELSE width[n - 1] + one(n)
  BY <1>4, Zenon
<1>7. \A n \in 1..Len(nodes) : one(n) \in Nat /\ (n \notin segments => one(n) = 0)
  BY DEF Nodes, Texts
<1> HIDE DEF width, one
<1>8. width[0] = 0
  BY <1>1, <1>6
<1>9. \A n \in 1..Len(nodes) : width[n] = width[n - 1] + one(n)
  BY <1>1, <1>6
<1>10. ASSUME NEW n \in 1..Len(nodes), width[n - 1] \in Nat
       PROVE  width[n] \in Nat /\ width[n - 1] <= width[n] /\ (n \notin segments => width[n] = width[n - 1])
  BY <1>7, <1>9, <1>10
<1> QED BY <1>5, <1>8, <1>10

\* Widths are numbers, and below a number as long as those of the segments are.
LEMMA WidthsBelow ==
  ASSUME NEW nodes \in Seq(Nodes), NEW segments
  PROVE  LET width == Widths(nodes, segments) IN
         /\ \A n \in 0..Len(nodes) : width[n] \in Nat
         /\ \A p \in Nat \ {0} : \A n \in 0..Len(nodes) :
              (\A j \in segments : j \in 1..n => width[j] < p) => width[n] < p
<1> DEFINE width == Widths(nodes, segments)
<1>1. /\ width[0] = 0
      /\ \A n \in 1..Len(nodes) : width[n - 1] \in Nat =>
              width[n] \in Nat /\ (n \notin segments => width[n] = width[n - 1])
  BY WidthsStep
<1>2. Len(nodes) \in Nat
  OBVIOUS
<1> HIDE DEF width
<1>3. \A n \in 0..Len(nodes) : width[n] \in Nat
  <2> DEFINE Bad == {n \in Nat : n \in 0..Len(nodes) /\ width[n] \notin Nat}
  <2>1. 0 \notin Bad
    BY <1>1
  <2>2. ASSUME NEW n \in Nat, n \notin Bad, n + 1 \in 0..Len(nodes) PROVE width[n + 1] \in Nat
    <3>1. n \in 0..Len(nodes) /\ n + 1 \in 1..Len(nodes) /\ (n + 1) - 1 = n
      BY <1>2, <2>2
    <3>2. width[n] \in Nat
      BY <2>2, <3>1
    <3> QED BY <1>1, <3>1, <3>2
  <2>3. Bad \in SUBSET Nat
    OBVIOUS
  <2>4. \A n \in Nat : n \notin Bad => n + 1 \notin Bad
    BY <2>2
  <2> HIDE DEF Bad
  <2>5. Bad = {}
    BY <2>1, <2>3, <2>4, Induction
  <2> QED BY <1>2, <2>5 DEF Bad
<1>4. ASSUME NEW p \in Nat \ {0}
      PROVE  \A n \in 0..Len(nodes) : (\A j \in segments : j \in 1..n => width[j] < p) => width[n] < p
  <2> DEFINE Below(n) == \A j \in segments : j \in 1..n => width[j] < p
             Bad == {n \in Nat : n \in 0..Len(nodes) /\ Below(n) /\ ~(width[n] < p)}
  <2>1. 0 \notin Bad
    BY <1>1
  <2>2. ASSUME NEW n \in Nat, n \notin Bad, n + 1 \in 0..Len(nodes), Below(n + 1) PROVE width[n + 1] < p
    <3>1. n \in 0..Len(nodes) /\ n + 1 \in 1..Len(nodes) /\ (n + 1) - 1 = n /\ 1..n \subseteq 1..(n + 1)
      BY <1>2, <2>2
    <3>2. CASE n + 1 \in segments
      <4>1. n + 1 \in 1..(n + 1)
        OBVIOUS
      <4> QED BY <2>2, <3>2, <4>1
    <3>3. CASE n + 1 \notin segments
      <4>1. Below(n)
        BY <2>2, <3>1
      <4>2. width[n] < p
        BY <2>2, <3>1, <4>1
      <4>3. width[n + 1] = width[n]
        BY <1>1, <1>3, <3>1, <3>3
      <4> QED BY <4>2, <4>3
    <3> QED BY <3>2, <3>3
  <2>3. Bad \in SUBSET Nat
    OBVIOUS
  <2>4. \A n \in Nat : n \notin Bad => n + 1 \notin Bad
    BY <2>2
  <2> HIDE DEF Bad
  <2>5. Bad = {}
    BY <2>1, <2>3, <2>4, Induction
  <2> QED BY <1>2, <2>5 DEF Bad
<1> QED BY <1>3, <1>4 DEF width

\* Part of a sequence.
LEMMA PartElements ==
  ASSUME NEW S, NEW s \in Seq(S), NEW a \in Nat \ {0}, NEW b \in Nat, b <= Len(s)
  PROVE  /\ SubSeq(s, a, b) \in Seq(S)
         /\ \A p \in a..b : s[p] \in ToSet(SubSeq(s, a, b))
<1> DEFINE t == SubSeq(s, a, b)
<1>1. Len(s) \in Nat /\ DOMAIN s = 1..Len(s) /\ \A i \in 1..Len(s) : s[i] \in S
  OBVIOUS
<1>2. t = [i \in 1..(b - a + 1) |-> s[i + a - 1]]
  BY <1>1
<1>3. CASE a <= b
  <2>1. b - a + 1 \in Nat /\ \A i \in 1..(b - a + 1) : i + a - 1 \in 1..Len(s)
    BY <1>1, <1>3
  <2> HIDE DEF t
  <2>2. t \in Seq(S) /\ DOMAIN t = 1..(b - a + 1)
    BY <1>1, <1>2, <2>1
  <2>3. ASSUME NEW p \in a..b PROVE s[p] \in ToSet(t)
    <3>1. p - a + 1 \in 1..(b - a + 1) /\ (p - a + 1) + a - 1 = p
      OBVIOUS
    <3>2. t[p - a + 1] = s[(p - a + 1) + a - 1]
      BY <1>2, <3>1
    <3> QED BY <2>2, <3>1, <3>2 DEF ToSet
  <2> QED BY <2>2, <2>3 DEF t
<1>4. CASE ~(a <= b)
  <2>1. t = <<>>
    BY <1>1, <1>4
  <2> QED BY <1>4, <2>1
<1> QED BY <1>3, <1>4

\* A line is shared out among segments: each of its characters comes to one of them.
LEMMA ShareTexts ==
  ASSUME NEW nodes \in Seq(Nodes), NEW segments \in SUBSET (DOMAIN nodes), segments # {},
         NEW i \in segments, NEW line \in Texts
  PROVE  Share(nodes, segments, i, line) \in Texts
<1> DEFINE width == Widths(nodes, segments)
           Cut(n) == Min({Len(line), width[n]})
<1>1. Len(line) \in Nat /\ Len(nodes) \in Nat /\ i - 1 \in 0..Len(nodes) /\ i \in 0..Len(nodes)
  BY DEF Texts
<1>2. \A n \in 0..Len(nodes) : width[n] \in Nat
  BY WidthsBelow
<1>3. Share(nodes, segments, i, line) =
        IF width[Len(nodes)] = 0
        THEN IF i = Min(segments) THEN line ELSE <<>>
        ELSE SubSeq(line, Cut(i - 1) + 1, IF i = Max(segments) THEN Len(line) ELSE Cut(i))
  BY Zenon DEF Share
<1> HIDE DEF width
<1>4. \A n \in 0..Len(nodes) : Cut(n) \in Nat /\ Cut(n) <= Len(line)
  <2>1. \A n \in 0..Len(nodes) : Cut(n) = IF Len(line) <= width[n] THEN Len(line) ELSE width[n]
    BY <1>1, <1>2, Lesser
  <2> HIDE DEF Cut
  <2> QED BY <1>1, <1>2, <2>1
<1> DEFINE a == Cut(i - 1) + 1
           b == IF i = Max(segments) THEN Len(line) ELSE Cut(i)
<1>5. a \in Nat \ {0} /\ b \in Nat /\ b <= Len(line)
  BY <1>1, <1>4
<1> HIDE DEF a, b, Cut
<1>6. SubSeq(line, a, b) \in Texts
  BY <1>5, PartElements DEF Texts
<1>7. <<>> \in Texts
  BY Basics
<1> QED BY <1>3, <1>6, <1>7 DEF a, b

\* Each character of a line goes to one of the nodes that it is shared among.
LEMMA ShareCovers ==
  ASSUME NEW nodes \in Seq(Nodes), NEW segments \in SUBSET (DOMAIN nodes), segments # {},
         NEW line \in Texts, NEW c \in ToSet(line)
  PROVE  \E i \in segments : c \in ToSet(Share(nodes, segments, i, line))
<1> DEFINE width == Widths(nodes, segments)
           Cut(n) == Min({Len(line), width[n]})
<1>1. Len(line) \in Nat /\ Len(nodes) \in Nat /\ segments \in SUBSET (0..Len(nodes)) /\ segments \in SUBSET Nat
  BY DEF Texts
<1>2. /\ \A n \in 0..Len(nodes) : width[n] \in Nat
      /\ \A p \in Nat \ {0} : \A n \in 0..Len(nodes) :
           (\A j \in segments : j \in 1..n => width[j] < p) => width[n] < p
  BY WidthsBelow
<1>3. \A i : Share(nodes, segments, i, line) =
        IF width[Len(nodes)] = 0
        THEN IF i = Min(segments) THEN line ELSE <<>>
        ELSE SubSeq(line, Cut(i - 1) + 1, IF i = Max(segments) THEN Len(line) ELSE Cut(i))
  BY Zenon DEF Share
<1> HIDE DEF width
<1>4. \A n \in 0..Len(nodes) : Cut(n) = IF Len(line) <= width[n] THEN Len(line) ELSE width[n]
  BY <1>1, <1>2, Lesser
<1>9. \A n \in 0..Len(nodes) : Cut(n) \in Nat /\ Cut(n) <= Len(line) /\ Cut(n) <= width[n]
                                /\ \A p \in Nat : p <= Len(line) /\ p <= width[n] => p <= Cut(n)
  <2> HIDE DEF Cut
  <2> QED BY <1>1, <1>2, <1>4
<1>5. Min(segments) \in segments
  BY <1>1, MinIn
<1>6. Max(segments) \in segments
  BY <1>1, MaxIn
<1>7. CASE width[Len(nodes)] = 0
  BY <1>3, <1>5, <1>7
<1>8. CASE width[Len(nodes)] # 0
  <2>1. PICK p \in 1..Len(line) : line[p] = c
    BY DEF ToSet, Texts
  <2> DEFINE G == {n \in segments : n = Max(segments) \/ width[n] >= p}
             i == Min(G)
  <2>2. G \in SUBSET Nat /\ G # {}
    BY <1>1, <1>6
  <2>3. i \in G /\ \A m \in G : i <= m
    BY <2>2, MinIn
  <2> HIDE DEF i
  <2>4. i \in segments /\ i \in 1..Len(nodes) /\ i - 1 \in 0..Len(nodes) /\ i \in 0..Len(nodes)
    BY <1>1, <2>3
  <2>5. width[i - 1] < p
    <3>1. \A j \in segments : j \in 1..(i - 1) => width[j] < p
      <4> SUFFICES ASSUME NEW j \in segments, j \in 1..(i - 1) PROVE width[j] < p
        OBVIOUS
      <4>1. j \notin G
        BY <2>3, <2>4
      <4>2. width[j] \in Nat
        BY <1>1, <1>2
      <4> QED BY <2>1, <4>1, <4>2
    <3> QED BY <1>1, <1>2, <2>1, <2>4, <3>1
  <2> DEFINE a == Cut(i - 1) + 1
             b == IF i = Max(segments) THEN Len(line) ELSE Cut(i)
  <2> HIDE DEF Cut
  <2>6. a \in Nat \ {0} /\ a <= p
    <3>1. Cut(i - 1) \in Nat /\ Cut(i - 1) <= width[i - 1] /\ width[i - 1] \in Nat
      BY <1>2, <1>9, <2>4
    <3> QED BY <2>1, <2>5, <3>1
  <2>7. b \in Nat /\ b <= Len(line) /\ p <= b
    <3>1. Cut(i) \in Nat /\ Cut(i) <= Len(line) /\ width[i] \in Nat
          /\ \A q \in Nat : q <= Len(line) /\ q <= width[i] => q <= Cut(i)
      BY <1>2, <1>9, <2>4
    <3> QED BY <1>1, <2>1, <2>3, <3>1
  <2>8. Share(nodes, segments, i, line) = SubSeq(line, a, b)
    BY <1>3, <1>8 DEF Cut
  <2> HIDE DEF a, b, G
  <2>9. c \in ToSet(SubSeq(line, a, b))
    BY <2>1, <2>6, <2>7, PartElements DEF Texts
  <2> QED BY <2>4, <2>8, <2>9
<1> QED BY <1>7, <1>8

---------------------------------------------------------------------------
(* Text that is written into a control *)

\* Lines that content does not have are appended to it.
LEMMA AppendedWritten ==
  ASSUME NEW nodes \in Seq(Nodes), NEW lines \in Seq(Texts), NEW i
  PROVE  /\ Appended(nodes, lines, i) \in Seq(Nodes)
         /\ i = LastSegment(nodes, lines) =>
              \A k \in DOMAIN lines : k > LineCount(nodes) =>
                ToSet(lines[k]) \ {Tab} \subseteq Written(Appended(nodes, lines, i))
<1> DEFINE n == LineCount(nodes)
           new(k) == <<Br>> \o TextNodes(lines[n + k])
           all == [k \in 1..Len(lines) - n |-> new(k)]
<1>1. n \in Nat \ {0} /\ Len(lines) \in Nat /\ DOMAIN lines = 1..Len(lines)
  BY LineCountType
<1>2. Appended(nodes, lines, i) = IF Len(lines) > n /\ i = LastSegment(nodes, lines) THEN FlattenSeq(all) ELSE <<>>
  BY Zenon DEF Appended
<1> HIDE DEF n
<1>3. <<>> \in Seq(Nodes)
  OBVIOUS
<1>4. CASE ~(Len(lines) > n /\ i = LastSegment(nodes, lines))
  BY <1>1, <1>2, <1>3, <1>4 DEF n
<1>5. CASE Len(lines) > n /\ i = LastSegment(nodes, lines)
  <2>1. ASSUME NEW k \in 1..Len(lines) - n
        PROVE  new(k) \in Seq(Nodes) /\ ToSet(lines[n + k]) \ {Tab} \subseteq Written(new(k))
    <3>1. n + k \in DOMAIN lines
      BY <1>1
    <3>2. lines[n + k] \in Texts
      BY <3>1
    <3> DEFINE text == TextNodes(lines[n + k])
    <3>3. text \in Seq(Nodes) /\ ToSet(lines[n + k]) \ {Tab} \subseteq Written(text)
      BY <3>2, TextNodesWritten
    <3>4. <<Br>> \in Seq(Nodes)
      BY Basics
    <3> HIDE DEF text
    <3>5. <<Br>> \o text \in Seq(Nodes) /\ Written(text) \subseteq Written(<<Br>> \o text)
      BY <3>3, <3>4, JoinWritten
    <3> QED BY <3>3, <3>5 DEF text
  <2> HIDE DEF new
  <2>2. Len(lines) - n \in Nat
    BY <1>1, <1>5
  <2>3. all \in Seq(Seq(Nodes)) /\ DOMAIN all = 1..Len(lines) - n /\ \A k \in 1..Len(lines) - n : all[k] = new(k)
    BY <2>1, <2>2
  <2> HIDE DEF all
  <2>4. FlattenSeq(all) \in Seq(Nodes) /\ \A k \in DOMAIN all : Written(all[k]) \subseteq Written(FlattenSeq(all))
    BY <2>3, FlattenWritten
  <2>5. ASSUME NEW k \in DOMAIN lines, k > n PROVE ToSet(lines[k]) \ {Tab} \subseteq Written(FlattenSeq(all))
    <3>1. k - n \in 1..Len(lines) - n /\ n + (k - n) = k
      BY <1>1, <2>5
    <3> QED BY <2>1, <2>3, <2>4, <3>1
  <2> QED BY <1>2, <1>5, <2>4, <2>5 DEF n
<1> QED BY <1>4, <1>5

\* What comes in place of a run or a tab: its share of the line, and lines after it.
LEMMA ElementWritten ==
  ASSUME NEW nodes \in Seq(Nodes), NEW lines \in Seq(Texts), NEW i \in DOMAIN nodes,
         Assigned(nodes, lines, i) \in Texts
  PROVE  /\ RewrittenText(nodes, lines, i) \in Seq(Nodes) /\ RewrittenTab(nodes, lines, i) \in Seq(Nodes)
         /\ \A c \in Letters \ {Tab} :
              c \in ToSet(Assigned(nodes, lines, i)) \/ c \in Written(Appended(nodes, lines, i)) =>
                c \in Written(RewrittenText(nodes, lines, i)) /\ c \in Written(RewrittenTab(nodes, lines, i))
<1> DEFINE own == Assigned(nodes, lines, i)
           text == TextNodes(own)
           more == Appended(nodes, lines, i)
<1>1. text \in Seq(Nodes) /\ ToSet(own) \ {Tab} \subseteq Written(text)
  BY TextNodesWritten
<1>2. more \in Seq(Nodes)
  BY AppendedWritten
<1>3. /\ RewrittenText(nodes, lines, i) = text \o more
      /\ RewrittenTab(nodes, lines, i) =
           CASE more = <<>> /\ own = <<Tab>> -> <<nodes[i]>> [] more = <<>> /\ own = <<>> -> <<>> [] OTHER -> text \o more
  BY DEF RewrittenText, RewrittenTab
<1>4. nodes[i] \in Nodes /\ <<nodes[i]>> \in Seq(Nodes) /\ <<>> \in Seq(Nodes)
  OBVIOUS
<1> HIDE DEF own, text, more
<1>5. text \o more \in Seq(Nodes) /\ Written(text \o more) = Written(text) \cup Written(more)
  BY <1>1, <1>2, JoinWritten
<1>6. Written(<<>>) = {}
  BY DEF Written, ToSet
<1>7. ToSet(<<>>) = {} /\ ToSet(<<Tab>>) = {Tab}
  BY DEF ToSet
<1>8. ASSUME NEW c \in Letters \ {Tab}, c \in ToSet(own) \/ c \in Written(more)
      PROVE  c \in Written(text \o more) /\ ~(more = <<>> /\ own = <<Tab>>) /\ ~(more = <<>> /\ own = <<>>)
  BY <1>1, <1>5, <1>6, <1>7, <1>8
<1> QED BY <1>3, <1>4, <1>5, <1>8 DEF own, more

\* Every line of a text comes into the content: into the segments of the line of that number, or
\* after the last segment.
LEMMA RewrittenWritten ==
  ASSUME NEW nodes \in Seq(Nodes), NEW text \in Texts, VisibleText(nodes) # text, CanRewrite(nodes, text)
  PROVE  Rewritten(nodes, text) \in Seq(Nodes) /\ ToSet(text) \ Blank \subseteq Written(Rewritten(nodes, text))
<1> DEFINE lines == Lines(text)
           gone(i) == ParagraphOf(nodes, i) \in Removed(nodes, lines)
           kept(i) == CASE nodes[i].kind = "p"   -> <<nodes[i]>>
                        [] nodes[i].kind = "br"  -> RewrittenBreak(nodes, lines, i)
                        [] nodes[i].kind = "t"   -> RewrittenText(nodes, lines, i)
                        [] nodes[i].kind = "tab" -> RewrittenTab(nodes, lines, i)
           part(i) == CASE gone(i) -> <<>> [] OTHER -> kept(i)
           parts == [i \in DOMAIN nodes |-> part(i)]
           own(line) == Segments(nodes, lines, line)
<1>1. /\ lines \in Seq(Texts) /\ lines # <<>>
      /\ \A c \in ToSet(text) : c # NewLine => \E k \in DOMAIN lines : c \in ToSet(lines[k])
  BY SplitElements DEF Texts, Lines
<1>2. Rewritten(nodes, text) = FlattenSeq(parts)
  BY Zenon DEF Rewritten
<1>3. /\ \A line \in 0..Min({Len(lines), LineCount(nodes)}) - 1 : lines[line + 1] # <<>> => own(line) # {}
      /\ Len(lines) > LineCount(nodes) => LastSegment(nodes, lines) # 0
  BY Zenon DEF CanRewrite
<1> HIDE DEF lines
<1>4. /\ DOMAIN nodes = 1..Len(nodes) /\ Len(nodes) \in Nat /\ DOMAIN lines = 1..Len(lines) /\ Len(lines) \in Nat
      /\ \A i \in DOMAIN nodes : nodes[i] \in Nodes /\ nodes[i].kind \in {"p", "br", "tab", "t"}
  <2>1. DOMAIN nodes = 1..Len(nodes) /\ Len(nodes) \in Nat /\ \A i \in DOMAIN nodes : nodes[i] \in Nodes
    OBVIOUS
  <2>2. DOMAIN lines = 1..Len(lines) /\ Len(lines) \in Nat
    BY <1>1
  <2>3. \A node \in Nodes : node.kind \in {"p", "br", "tab", "t"}
    BY DEF Nodes
  <2> QED BY <2>1, <2>2, <2>3
<1>5. LineCount(nodes) \in Nat \ {0}
  BY LineCountType
<1>6. \A i \in DOMAIN nodes : LineOf(nodes, i) \in Nat
  BY <1>4, LineTypes
<1>7. \A line : own(line) \in SUBSET (DOMAIN nodes)
  BY DEF Segments
<1>8. \A i \in DOMAIN nodes : ~gone(i) /\ nodes[i].kind \in {"t", "tab"} => i \in own(LineOf(nodes, i))
  BY DEF Segments
<1>9. ASSUME NEW i \in DOMAIN nodes, ~gone(i), nodes[i].kind \in {"t", "tab"}
      PROVE  Assigned(nodes, lines, i) \in Texts
  <2> DEFINE line == LineOf(nodes, i)
             words == IF line < Len(lines) THEN lines[line + 1] ELSE <<>>
             segments == own(line)
  <2>1. Assigned(nodes, lines, i) = Share(nodes, segments, i, words)
    BY DEF Assigned
  <2>2. words \in Texts
    BY <1>1, <1>4, <1>6, Basics
  <2>3. i \in segments /\ segments \in SUBSET (DOMAIN nodes)
    BY <1>7, <1>8, <1>9
  <2> HIDE DEF words, segments
  <2> QED BY <2>1, <2>2, <2>3, ShareTexts
<1>10. ASSUME NEW i \in DOMAIN nodes
       PROVE  part(i) \in Seq(Nodes)
  <2>1. <<>> \in Seq(Nodes) /\ <<nodes[i]>> \in Seq(Nodes)
    BY <1>4
  <2>2. RewrittenBreak(nodes, lines, i) \in Seq(Nodes)
    BY <2>1 DEF RewrittenBreak
  <2>3. ~gone(i) /\ nodes[i].kind \in {"t", "tab"} =>
          RewrittenText(nodes, lines, i) \in Seq(Nodes) /\ RewrittenTab(nodes, lines, i) \in Seq(Nodes)
    BY <1>1, <1>9, ElementWritten
  <2> HIDE DEF gone
  <2> QED BY <1>4, <2>1, <2>2, <2>3
<1>11. ASSUME NEW i \in DOMAIN nodes, ~gone(i), nodes[i].kind \in {"t", "tab"}, NEW c \in Letters \ {Tab},
              c \in ToSet(Assigned(nodes, lines, i)) \/ c \in Written(Appended(nodes, lines, i))
       PROVE  c \in Written(part(i))
  <2>1. c \in Written(RewrittenText(nodes, lines, i)) /\ c \in Written(RewrittenTab(nodes, lines, i))
    BY <1>1, <1>9, <1>11, ElementWritten
  <2> HIDE DEF gone
  <2> QED BY <1>11, <2>1
<1> HIDE DEF part
<1>12. parts \in Seq(Seq(Nodes)) /\ DOMAIN parts = DOMAIN nodes /\ \A i \in DOMAIN nodes : parts[i] = part(i)
  BY <1>4, <1>10
<1> HIDE DEF parts
<1>13. FlattenSeq(parts) \in Seq(Nodes) /\ \A k \in DOMAIN parts : Written(parts[k]) \subseteq Written(FlattenSeq(parts))
  BY <1>12, FlattenWritten
<1>14. ASSUME NEW line, NEW i \in own(line)
       PROVE  i \in DOMAIN nodes /\ ~gone(i) /\ nodes[i].kind \in {"t", "tab"} /\ LineOf(nodes, i) = line
  BY DEF Segments
<1> HIDE DEF own, gone
<1>15. ASSUME NEW c \in ToSet(text) \ Blank PROVE \E i \in DOMAIN nodes : c \in Written(part(i))
  <2>1. c \in Letters \ {Tab} /\ c # NewLine
    <3>1. ToSet(text) \subseteq Letters
      BY DEF ToSet, Texts
    <3>2. Tab \in Blank /\ NewLine \in Blank
      BY DEF Blank
    <3> QED BY <3>1, <3>2
  <2>2. PICK k \in DOMAIN lines : c \in ToSet(lines[k])
    BY <1>1, <2>1
  <2>3. lines[k] \in Texts /\ lines[k] # <<>>
    BY <1>1, <2>2 DEF ToSet
  <2>4. CASE k <= LineCount(nodes)
    <3> DEFINE line == k - 1
    <3>1. line \in 0..Min({Len(lines), LineCount(nodes)}) - 1 /\ line + 1 = k /\ line < Len(lines) /\ line \in Nat
      <4>1. Min({Len(lines), LineCount(nodes)}) = IF Len(lines) <= LineCount(nodes) THEN Len(lines) ELSE LineCount(nodes)
        BY <1>4, <1>5, Lesser
      <4>2. k \in 1..Len(lines)
        BY <1>4
      <4> QED BY <1>4, <1>5, <2>4, <4>1, <4>2
    <3> HIDE DEF line
    <3>2. own(line) # {} /\ own(line) \in SUBSET (DOMAIN nodes)
      BY <1>3, <1>7, <2>3, <3>1
    <3>3. PICK i \in own(line) : c \in ToSet(Share(nodes, own(line), i, lines[k]))
      BY <2>2, <2>3, <3>2, ShareCovers
    <3>4. i \in DOMAIN nodes /\ ~gone(i) /\ nodes[i].kind \in {"t", "tab"} /\ LineOf(nodes, i) = line
      BY <1>14
    <3>5. Assigned(nodes, lines, i) = Share(nodes, own(line), i, lines[k])
      BY <3>1, <3>4 DEF Assigned, own
    <3> QED BY <1>11, <2>1, <3>3, <3>4, <3>5
  <2>5. CASE ~(k <= LineCount(nodes))
    <3>1. k > LineCount(nodes) /\ Len(lines) > LineCount(nodes)
      BY <1>4, <1>5, <2>5
    <3> DEFINE last == own(LineCount(nodes) - 1)
               i == LastSegment(nodes, lines)
    <3>2. i # 0 /\ i = IF last = {} THEN 0 ELSE Max(last)
      BY <1>3, <3>1 DEF LastSegment, own
    <3>3. last \in SUBSET (0..Len(nodes))
      BY <1>4, <1>7
    <3>4. i \in last
      BY <1>4, <3>2, <3>3, MaxIn
    <3>5. i \in DOMAIN nodes /\ ~gone(i) /\ nodes[i].kind \in {"t", "tab"}
      BY <1>14, <3>4
    <3>6. c \in Written(Appended(nodes, lines, i))
      BY <1>1, <2>1, <2>2, <3>1, AppendedWritten
    <3> QED BY <1>11, <2>1, <3>5, <3>6
  <2> QED BY <2>4, <2>5
<1> QED BY <1>2, <1>12, <1>13, <1>15

\* Whatever the content was: a text that is not blank can be read in it once it is written there.
LEMMA SetTextInk ==
  ASSUME NEW nodes \in Seq(Nodes), NEW text \in Texts, NEW block \in BOOLEAN
  PROVE  /\ SetText(nodes, text, block) \in Seq(Nodes)
         /\ Ink(text) => Ink(VisibleText(SetText(nodes, text, block)))
<1> DEFINE new == SetText(nodes, text, block)
<1>1. CASE VisibleText(nodes) = text /\ CanRewrite(nodes, text)
  BY <1>1, Zenon DEF SetText, Rewritten
<1>2. CASE ~(VisibleText(nodes) = text /\ CanRewrite(nodes, text))
  <2>1. new \in Seq(Nodes) /\ ToSet(text) \ Blank \subseteq Written(new)
    <3>1. CASE CanRewrite(nodes, text)
      BY <1>2, <3>1, RewrittenWritten, Zenon DEF SetText
    <3>2. CASE ~CanRewrite(nodes, text)
      <4>1. new = Fresh(text, block)
        BY <3>2 DEF SetText
      <4> HIDE DEF new
      <4>2. Fresh(text, block) \in Seq(Nodes) /\ ToSet(text) \ {NewLine} \subseteq Written(Fresh(text, block))
        BY FreshWritten
      <4> QED BY <4>1, <4>2 DEF Blank
    <3> QED BY <3>1, <3>2
  <2> HIDE DEF new
  <2>2. Written(new) \subseteq ToSet(VisibleText(new))
    BY <2>1, VisibleWritten
  <2> QED BY <2>1, <2>2 DEF Ink, new
<1> QED BY <1>1, <1>2

\* So it can in content that is made for it.
LEMMA FreshInk ==
  ASSUME NEW text \in Texts, NEW block \in BOOLEAN
  PROVE  /\ Fresh(text, block) \in Seq(Nodes)
         /\ Ink(text) => Ink(VisibleText(Fresh(text, block)))
<1> DEFINE new == Fresh(text, block)
<1>1. new \in Seq(Nodes) /\ ToSet(text) \ Blank \subseteq Written(new)
  BY FreshWritten DEF Blank
<1> HIDE DEF new
<1>2. Written(new) \subseteq ToSet(VisibleText(new))
  BY <1>1, VisibleWritten
<1> QED BY <1>1, <1>2 DEF Ink, new

---------------------------------------------------------------------------
(* The text that a control shows is the text that was put into it *)

---------------------------------------------------------------------------
(* Parts of a sequence *)

\* Sequences of one length with the same elements are equal.
LEMMA SameElements ==
  ASSUME NEW S, NEW s \in Seq(S), NEW t \in Seq(S), Len(s) = Len(t), \A i \in 1..Len(s) : s[i] = t[i]
  PROVE  s = t
  OBVIOUS

\* A concatenation, and a longer sequence, element by element.
LEMMA JoinAt ==
  ASSUME NEW S, NEW s \in Seq(S), NEW t \in Seq(S)
  PROVE  /\ s \o t \in Seq(S) /\ Len(s \o t) = Len(s) + Len(t)
         /\ \A i \in 1..Len(s) : (s \o t)[i] = s[i]
         /\ \A i \in 1..Len(t) : (s \o t)[Len(s) + i] = t[i]
  OBVIOUS

\* A longer sequence.
LEMMA AppendAt ==
  ASSUME NEW S, NEW s \in Seq(S), NEW e \in S
  PROVE  /\ Append(s, e) \in Seq(S) /\ Len(Append(s, e)) = Len(s) + 1
         /\ \A i \in 1..Len(s) : Append(s, e)[i] = s[i]
         /\ Append(s, e)[Len(s) + 1] = e
  OBVIOUS

\* The elements of a sequence from one place to another.
Between(s, a, b) == SubSeq(s, a + 1, b)

\* A part of a sequence, element by element.
LEMMA PartOf ==
  ASSUME NEW S, NEW s \in Seq(S), NEW a \in Nat, NEW b \in Nat, a <= b, b <= Len(s)
  PROVE  /\ Between(s, a, b) \in Seq(S) /\ Len(Between(s, a, b)) = b - a
         /\ \A i \in 1..(b - a) : Between(s, a, b)[i] = s[a + i]
<1>1. Len(s) \in Nat
  OBVIOUS
<1>2. Len(Between(s, a, b)) = b - a
  BY <1>1 DEF Between
<1>3. ASSUME NEW i \in 1..(b - a) PROVE Between(s, a, b)[i] = s[a + i]
  BY <1>1 DEF Between
<1>4. Between(s, a, b) \in Seq(S)
  BY <1>1 DEF Between
<1> QED BY <1>2, <1>3, <1>4

\* A part from the start.
LEMMA PartFromStart ==
  ASSUME NEW S, NEW s \in Seq(S), NEW b \in Nat, b <= Len(s)
  PROVE  /\ Between(s, 0, b) \in Seq(S) /\ Len(Between(s, 0, b)) = b
         /\ \A i \in 1..b : Between(s, 0, b)[i] = s[i]
<1>1. Len(s) \in Nat
  OBVIOUS
<1>2. Len(Between(s, 0, b)) = b
  BY <1>1 DEF Between
<1>3. ASSUME NEW i \in 1..b PROVE Between(s, 0, b)[i] = s[i]
  BY <1>1 DEF Between
<1>4. Between(s, 0, b) \in Seq(S)
  BY <1>1 DEF Between
<1> QED BY <1>2, <1>3, <1>4

\* Nothing is between a place and itself, and all of a sequence is a part of it.
LEMMA WholePart ==
  ASSUME NEW S, NEW s \in Seq(S)
  PROVE  /\ SubSeq(s, 1, Len(s)) = s /\ Between(s, 0, Len(s)) = s
         /\ \A a \in 0..Len(s) : Between(s, a, a) = <<>>
<1>1. Len(s) \in Nat
  OBVIOUS
<1>2. Between(s, 0, Len(s)) \in Seq(S) /\ Len(Between(s, 0, Len(s))) = Len(s)
      /\ \A i \in 1..Len(s) : Between(s, 0, Len(s))[i] = s[i]
  BY <1>1, PartFromStart
<1>3. Between(s, 0, Len(s)) = s
  BY <1>2, SameElements
<1>4. ASSUME NEW a \in 0..Len(s) PROVE Between(s, a, a) = <<>>
  <2>1. Between(s, a, a) \in Seq(S) /\ Len(Between(s, a, a)) = 0
    BY <1>1, <1>4, PartOf
  <2> QED BY <2>1
<1> QED BY <1>3, <1>4 DEF Between

\* Adjacent parts make one.
LEMMA PartsJoin ==
  ASSUME NEW S, NEW s \in Seq(S), NEW a \in Nat, NEW b \in Nat, NEW d \in Nat, a <= b, b <= d, d <= Len(s)
  PROVE  Between(s, a, b) \o Between(s, b, d) = Between(s, a, d)
<1> DEFINE u == Between(s, a, b)
           v == Between(s, b, d)
           w == Between(s, a, d)
<1>1. Len(s) \in Nat /\ b <= Len(s) /\ a <= d
  OBVIOUS
<1>2. u \in Seq(S) /\ Len(u) = b - a /\ \A i \in 1..(b - a) : u[i] = s[a + i]
  BY <1>1, PartOf
<1>3. v \in Seq(S) /\ Len(v) = d - b /\ \A i \in 1..(d - b) : v[i] = s[b + i]
  BY PartOf
<1>4. w \in Seq(S) /\ Len(w) = d - a /\ \A i \in 1..(d - a) : w[i] = s[a + i]
  BY <1>1, PartOf
<1> HIDE DEF u, v, w
<1> DEFINE uv == u \o v
<1>5. /\ uv \in Seq(S) /\ Len(uv) = d - a
      /\ \A i \in 1..(b - a) : uv[i] = u[i]
      /\ \A i \in 1..(d - b) : uv[(b - a) + i] = v[i]
  <2>1. /\ uv \in Seq(S) /\ Len(uv) = Len(u) + Len(v)
        /\ \A i \in 1..Len(u) : uv[i] = u[i]
        /\ \A i \in 1..Len(v) : uv[Len(u) + i] = v[i]
    <3>1. u \in Seq(S) /\ v \in Seq(S)
      BY <1>2, <1>3
    <3> QED BY <3>1, JoinAt
  <2> HIDE DEF uv
  <2> QED BY <1>2, <1>3, <2>1
<1> HIDE DEF uv
<1>6. ASSUME NEW i \in 1..(d - a) PROVE uv[i] = w[i]
  <2>1. CASE i <= b - a
    BY <1>2, <1>4, <1>5, <2>1
  <2>2. CASE i > b - a
    <3>1. i - (b - a) \in 1..(d - b) /\ b + (i - (b - a)) = a + i /\ (b - a) + (i - (b - a)) = i
      BY <2>2
    <3>2. uv[i] = v[i - (b - a)]
      BY <1>5, <3>1
    <3> QED BY <1>3, <1>4, <3>1, <3>2
  <2> QED BY <2>1, <2>2
<1>7. uv = w
  BY <1>4, <1>5, <1>6, SameElements
<1> QED BY <1>7 DEF u, v, w, uv

\* A part of a part.
LEMMA PartOfPart ==
  ASSUME NEW S, NEW s \in Seq(S), NEW a \in Nat, NEW b \in Nat, a <= b, b <= Len(s),
         NEW e \in Nat, NEW d \in Nat, e <= d, d <= b - a
  PROVE  Between(Between(s, a, b), e, d) = Between(s, a + e, a + d)
<1> DEFINE u == Between(s, a, b)
           v == Between(u, e, d)
           w == Between(s, a + e, a + d)
<1>1. u \in Seq(S) /\ Len(u) = b - a /\ \A i \in 1..(b - a) : u[i] = s[a + i]
  BY PartOf
<1>2. w \in Seq(S) /\ Len(w) = d - e /\ \A i \in 1..(d - e) : w[i] = s[a + e + i]
  <2>1. a + e \in Nat /\ a + d \in Nat /\ a + e <= a + d /\ a + d <= Len(s) /\ (a + d) - (a + e) = d - e
    OBVIOUS
  <2>2. /\ w \in Seq(S) /\ Len(w) = (a + d) - (a + e)
        /\ \A i \in 1..((a + d) - (a + e)) : w[i] = s[(a + e) + i]
    BY <2>1, PartOf
  <2> HIDE DEF w
  <2> QED BY <2>1, <2>2
<1> HIDE DEF u, w
<1>3. v \in Seq(S) /\ Len(v) = d - e /\ \A i \in 1..(d - e) : v[i] = u[e + i]
  <2>1. u \in Seq(S) /\ d <= Len(u)
    BY <1>1
  <2> QED BY <2>1, PartOf
<1> HIDE DEF v
<1>4. ASSUME NEW i \in 1..(d - e) PROVE v[i] = w[i]
  <2>1. e + i \in 1..(b - a) /\ a + (e + i) = a + e + i
    OBVIOUS
  <2> QED BY <1>1, <1>2, <1>3, <2>1
<1>5. v = w
  BY <1>2, <1>3, <1>4, SameElements
<1> QED BY <1>5 DEF u, v, w

\* The next element.
LEMMA PartAppend ==
  ASSUME NEW S, NEW s \in Seq(S), NEW a \in Nat, NEW b \in Nat, a <= b, b + 1 <= Len(s)
  PROVE  Append(Between(s, a, b), s[b + 1]) = Between(s, a, b + 1)
<1> DEFINE u == Between(s, a, b)
           w == Between(s, a, b + 1)
<1>1. u \in Seq(S) /\ Len(u) = b - a /\ \A i \in 1..(b - a) : u[i] = s[a + i]
  <2>1. b <= Len(s)
    OBVIOUS
  <2> QED BY <2>1, PartOf
<1>2. w \in Seq(S) /\ Len(w) = (b + 1) - a /\ \A i \in 1..((b + 1) - a) : w[i] = s[a + i]
  <2>1. b + 1 \in Nat /\ a <= b + 1
    OBVIOUS
  <2> QED BY <2>1, PartOf
<1> HIDE DEF u, w
<1>3. PICK e \in S : e = s[b + 1]
  OBVIOUS
<1> DEFINE more == Append(u, e)
<1>4. /\ more \in Seq(S) /\ Len(more) = (b + 1) - a
      /\ \A i \in 1..(b - a) : more[i] = u[i]
      /\ more[(b - a) + 1] = s[b + 1]
  <2>1. u \in Seq(S)
    BY <1>1
  <2>2. /\ more \in Seq(S) /\ Len(more) = Len(u) + 1
        /\ \A i \in 1..Len(u) : more[i] = u[i]
        /\ more[Len(u) + 1] = e
    BY <2>1, AppendAt, Zenon
  <2> HIDE DEF more
  <2>3. Len(u) = b - a
    BY <1>1
  <2>4. Len(more) = (b - a) + 1 /\ more[(b - a) + 1] = s[b + 1] /\ \A i \in 1..(b - a) : more[i] = u[i]
    BY <1>3, <2>2, <2>3, Zenon
  <2> QED BY <2>2, <2>4
<1> HIDE DEF more
<1>5. ASSUME NEW i \in 1..((b + 1) - a) PROVE more[i] = w[i]
  <2>1. CASE i <= b - a
    <3>1. i \in 1..(b - a)
      BY <2>1
    <3>2. more[i] = u[i] /\ u[i] = s[a + i] /\ w[i] = s[a + i]
      BY <1>1, <1>2, <1>4, <3>1, Zenon
    <3> QED BY <3>2
  <2>2. CASE i = (b - a) + 1
    <3>1. a + i = b + 1
      BY <2>2
    <3> QED BY <1>2, <1>4, <2>2, <3>1
  <2> QED BY <2>1, <2>2
<1>6. more = w
  BY <1>2, <1>4, <1>5, SameElements
<1> QED BY <1>3, <1>6 DEF u, w, more

---------------------------------------------------------------------------
(* Content as a reader sees it *)

\* A sequence of sequences is flattened step by step.
LEMMA FlattenSteps ==
  ASSUME NEW S, NEW seqs \in Seq(Seq(S))
  PROVE  \E out \in [0..Len(seqs) -> Seq(S)] :
           /\ out[0] = <<>> /\ \A m \in 1..Len(seqs) : out[m] = out[m - 1] \o seqs[m]
           /\ FlattenSeq(seqs) = out[Len(seqs)]
<1> DEFINE n == Len(seqs)
           f == CHOOSE g : g = [i \in 1..Len(seqs) |-> IF i = 1 THEN seqs[i] ELSE g[i-1] \o seqs[i]]
           out == [m \in 0..n |-> IF m = 0 THEN <<>> ELSE f[m]]
<1>1. n \in Nat /\ DOMAIN seqs = 1..n /\ \A m \in 1..n : seqs[m] \in Seq(S)
  OBVIOUS
<1>2. f = [i \in 1..n |-> IF i = 1 THEN seqs[i] ELSE f[i-1] \o seqs[i]]
  BY <1>1, FlattenFunction, Zenon
<1>3. FlattenSeq(seqs) = IF n = 0 THEN seqs ELSE f[n]
  BY Zenon DEF FlattenSeq
<1> HIDE DEF f
<1>4. ASSUME NEW i \in 1..n PROVE f[i] = IF i = 1 THEN seqs[i] ELSE f[i-1] \o seqs[i]
  BY <1>2, Zenon
<1>5. \A s \in Seq(S) : <<>> \o s = s
  OBVIOUS
<1>6. out[0] = <<>> /\ \A m \in 1..n : out[m] = f[m]
  BY <1>1
<1>7. FlattenSeq(seqs) = out[n]
  <2>1. CASE n = 0
    <3>1. seqs = <<>>
      BY <2>1
    <3> QED BY <1>3, <1>6, <2>1, <3>1
  <2>2. CASE n # 0
    <3>1. n \in 1..n
      BY <1>1, <2>2
    <3> QED BY <1>3, <1>6, <2>2, <3>1
  <2> QED BY <2>1, <2>2
<1>8. DOMAIN out = 0..n /\ out = [m \in 0..n |-> out[m]]
  OBVIOUS
<1> HIDE DEF out, n
<1>9. ASSUME NEW m \in 1..n PROVE out[m] = out[m - 1] \o seqs[m]
  <2>1. CASE m = 1
    <3>1. out[m] = seqs[m] /\ out[m - 1] = <<>> /\ seqs[m] \in Seq(S)
      BY <1>1, <1>4, <1>6, <2>1
    <3> QED BY <1>5, <3>1
  <2>2. CASE m # 1
    <3>1. m - 1 \in 1..n
      BY <1>1, <2>2
    <3> QED BY <1>4, <1>6, <2>2, <3>1
  <2> QED BY <2>1, <2>2
<1> DEFINE Bad == {m \in Nat : m \in 0..n /\ out[m] \notin Seq(S)}
<1>10. Bad = {}
  <2>1. 0 \notin Bad
    <3>1. <<>> \in Seq(S)
      OBVIOUS
    <3> QED BY <1>6, <3>1
  <2>2. ASSUME NEW m \in Nat, m \notin Bad PROVE m + 1 \notin Bad
    <3> SUFFICES ASSUME m + 1 \in 0..n PROVE out[m + 1] \in Seq(S)
      OBVIOUS
    <3>1. m + 1 \in 1..n /\ m \in 0..n /\ (m + 1) - 1 = m
      BY <1>1
    <3>2. out[m] \in Seq(S) /\ seqs[m + 1] \in Seq(S)
      BY <1>1, <2>2, <3>1
    <3>3. out[m + 1] = out[m] \o seqs[m + 1]
      BY <1>9, <3>1
    <3> QED BY <3>2, <3>3, JoinAt
  <2> HIDE DEF Bad
  <2>3. Bad \in SUBSET Nat
    BY DEF Bad
  <2> QED BY <2>1, <2>2, <2>3, Induction
<1>11. \A m \in 0..n : out[m] \in Seq(S)
  BY <1>1, <1>10
<1>12. out \in [0..n -> Seq(S)]
  BY <1>8, <1>11
<1> QED BY <1>6, <1>7, <1>9, <1>12 DEF n

\* Flattening a longer sequence.
LEMMA FlattenAppend ==
  ASSUME NEW S, NEW seqs \in Seq(Seq(S)), NEW s \in Seq(S)
  PROVE  FlattenSeq(Append(seqs, s)) = FlattenSeq(seqs) \o s
<1> DEFINE more == Append(seqs, s)
           n == Len(seqs)
<1>1. more \in Seq(Seq(S)) /\ Len(more) = n + 1 /\ (\A i \in 1..n : more[i] = seqs[i]) /\ more[n + 1] = s /\ n \in Nat
  BY AppendAt
<1>2. PICK out \in [0..n -> Seq(S)] :
        /\ out[0] = <<>> /\ \A m \in 1..n : out[m] = out[m - 1] \o seqs[m]
        /\ FlattenSeq(seqs) = out[n]
  BY FlattenSteps
<1>3. PICK new \in [0..n+1 -> Seq(S)] :
        /\ new[0] = <<>> /\ \A m \in 1..n+1 : new[m] = new[m - 1] \o more[m]
        /\ FlattenSeq(more) = new[n + 1]
  <2> HIDE DEF more, n
  <2>1. \E new \in [0..Len(more) -> Seq(S)] :
        /\ new[0] = <<>> /\ \A m \in 1..Len(more) : new[m] = new[m - 1] \o more[m]
        /\ FlattenSeq(more) = new[Len(more)]
    BY <1>1, FlattenSteps
  <2> QED BY <1>1, <2>1
<1> HIDE DEF more, n
<1> DEFINE Bad == {m \in Nat : m \in 0..n /\ new[m] # out[m]}
<1>4. Bad = {}
  <2>1. 0 \notin Bad
    BY <1>2, <1>3
  <2>2. ASSUME NEW m \in Nat, m \notin Bad PROVE m + 1 \notin Bad
    <3> SUFFICES ASSUME m + 1 \in 0..n PROVE new[m + 1] = out[m + 1]
      OBVIOUS
    <3>1. m + 1 \in 1..n /\ m + 1 \in 1..n+1 /\ m \in 0..n /\ (m + 1) - 1 = m
      BY <1>1
    <3>2. new[m] = out[m] /\ more[m + 1] = seqs[m + 1]
      BY <1>1, <2>2, <3>1
    <3> QED BY <1>2, <1>3, <3>1, <3>2
  <2> HIDE DEF Bad
  <2>3. Bad \in SUBSET Nat
    BY DEF Bad
  <2> QED BY <2>1, <2>2, <2>3, Induction
<1>5. new[n] = out[n] /\ new[n + 1] = new[n] \o s
  <2>1. n \in 0..n /\ n + 1 \in 1..n+1 /\ (n + 1) - 1 = n
    BY <1>1
  <2> QED BY <1>1, <1>3, <1>4, <2>1
<1> QED BY <1>2, <1>3, <1>5 DEF more

\* What a reader sees of a node, given whether there is a paragraph before it.
Seen(node, after) ==
  CASE node.kind = "t"   -> node.text
    [] node.kind = "tab" -> <<Tab>>
    [] node.kind = "br"  -> <<NewLine>>
    [] node.kind = "p"   -> IF after THEN <<NewLine>> ELSE <<>>

\* What a reader sees of a node of some content.
SeenAt(nodes, i) ==
  CASE nodes[i].kind = "t"   -> nodes[i].text
    [] nodes[i].kind = "tab" -> <<Tab>>
    [] nodes[i].kind = "br"  -> <<NewLine>>
    [] nodes[i].kind = "p"   -> IF ParagraphOf(nodes, i) = 0 THEN <<>> ELSE <<NewLine>>

\* Content in which no paragraph starts.
Inline(nodes) == \A i \in DOMAIN nodes : nodes[i].kind # "p"

\* How many elements of a kind there are, one element after the other.
LEMMA CountStep ==
  ASSUME NEW nodes, NEW kind
  PROVE  /\ Count(nodes, 0, kind) = 0
         /\ \A n \in Nat : Count(nodes, n, kind) \in Nat
         /\ \A n \in Nat : Count(nodes, n + 1, kind) = Count(nodes, n, kind) + (IF nodes[n + 1].kind = kind THEN 1 ELSE 0)
<1> DEFINE Of(n) == {i \in 1..n : nodes[i].kind = kind}
<1>1. \A n \in Nat : Count(nodes, n, kind) = Cardinality(Of(n))
  BY DEF Count
<1>2. ASSUME NEW n \in Nat PROVE IsFiniteSet(Of(n)) /\ n + 1 \notin Of(n)
  <2>1. IsFiniteSet(1..n)
    BY FS_Interval
  <2>2. IsFiniteSet(Of(n))
    BY <2>1, FS_Subset
  <2> QED BY <2>2
<1>3. Of(0) = {}
  OBVIOUS
<1>4. Count(nodes, 0, kind) = 0
  BY <1>1, <1>3, FS_EmptySet
<1>5. ASSUME NEW n \in Nat PROVE Count(nodes, n, kind) \in Nat
  BY <1>1, <1>2, FS_CardinalityType
<1>6. ASSUME NEW n \in Nat
      PROVE  Count(nodes, n + 1, kind) = Count(nodes, n, kind) + (IF nodes[n + 1].kind = kind THEN 1 ELSE 0)
  <2>1. CASE nodes[n + 1].kind = kind
    <3>1. Of(n + 1) = Of(n) \cup {n + 1}
      BY <2>1
    <3>2. Cardinality(Of(n) \cup {n + 1}) = Cardinality(Of(n)) + 1
      <4> HIDE DEF Of
      <4>1. IsFiniteSet(Of(n)) /\ n + 1 \notin Of(n)
        BY <1>2 DEF Of
      <4> QED BY <4>1, FS_AddElement
    <3> QED BY <1>1, <2>1, <3>1, <3>2
  <2>2. CASE nodes[n + 1].kind # kind
    <3>1. Of(n + 1) = Of(n)
      BY <2>2
    <3>2. Count(nodes, n + 1, kind) = Count(nodes, n, kind)
      <4>1. n + 1 \in Nat
        OBVIOUS
      <4> HIDE DEF Of
      <4> QED BY <1>1, <3>1, <4>1
    <3> QED BY <1>5, <2>2, <3>2
  <2> QED BY <2>1, <2>2
<1> QED BY <1>4, <1>5, <1>6

\* There are none exactly where none is.
LEMMA CountNone ==
  ASSUME NEW nodes, NEW kind, NEW n \in Nat
  PROVE  Count(nodes, n, kind) = 0 <=> \A i \in 1..n : nodes[i].kind # kind
<1> DEFINE Bad == {m \in Nat : ~(Count(nodes, m, kind) = 0 <=> \A i \in 1..m : nodes[i].kind # kind)}
<1>1. 0 \notin Bad
  BY CountStep
<1>2. ASSUME NEW m \in Nat, m \notin Bad PROVE m + 1 \notin Bad
  <2>1. Count(nodes, m, kind) = 0 <=> \A i \in 1..m : nodes[i].kind # kind
    BY <1>2
  <2>2. Count(nodes, m, kind) \in Nat
    BY CountStep
  <2>3. Count(nodes, m + 1, kind) = Count(nodes, m, kind) + (IF nodes[m + 1].kind = kind THEN 1 ELSE 0)
    BY CountStep
  <2>4. \A i : i \in 1..m+1 <=> i \in 1..m \/ i = m + 1
    OBVIOUS
  <2> QED BY <2>1, <2>2, <2>3, <2>4
<1> HIDE DEF Bad
<1>3. Bad \in SUBSET Nat
  BY DEF Bad
<1>4. n \notin Bad
  BY <1>1, <1>2, <1>3, Induction
<1> QED BY <1>4 DEF Bad

\* What is seen of a node is a text.
LEMMA SeenTexts ==
  ASSUME NEW node \in Nodes, NEW after \in BOOLEAN
  PROVE  Seen(node, after) \in Texts
<1>1. node.kind \in {"p", "br", "tab", "t"} /\ node.text \in Texts
  BY DEF Nodes
<1>2. <<NewLine>> \in Texts /\ <<Tab>> \in Texts /\ <<>> \in Texts
  BY Basics
<1> QED BY <1>1, <1>2 DEF Seen

\* A node after others.
LEMMA VisibleAppend ==
  ASSUME NEW nodes \in Seq(Nodes), NEW node \in Nodes
  PROVE  VisibleText(Append(nodes, node)) = VisibleText(nodes) \o Seen(node, ~Inline(nodes))
<1> DEFINE n == Len(nodes)
           more == Append(nodes, node)
           Vis(all) == [i \in DOMAIN all |-> SeenAt(all, i)]
<1>1. /\ n \in Nat /\ DOMAIN nodes = 1..n /\ DOMAIN more = 1..(n + 1)
      /\ \A i \in 1..n : more[i] = nodes[i] /\ nodes[i] \in Nodes
      /\ more[n + 1] = node
  BY AppendAt
<1>2. VisibleText(nodes) = FlattenSeq(Vis(nodes)) /\ VisibleText(more) = FlattenSeq(Vis(more))
  BY Zenon DEF VisibleText, SeenAt
<1> HIDE DEF more
<1>3. \A i \in 0..n : Count(more, i, "p") = Count(nodes, i, "p")
  <2> SUFFICES ASSUME NEW i \in 0..n PROVE {j \in 1..i : more[j].kind = "p"} = {j \in 1..i : nodes[j].kind = "p"}
    BY DEF Count
  <2> QED BY <1>1
<1>4. \A i \in 1..n : ParagraphOf(more, i) = ParagraphOf(nodes, i)
  BY <1>1, <1>3 DEF ParagraphOf
<1>5. \A i \in 1..n : Vis(more)[i] = Vis(nodes)[i]
  <2> SUFFICES ASSUME NEW i \in 1..n PROVE SeenAt(more, i) = SeenAt(nodes, i)
    BY <1>1
  <2>1. more[i] = nodes[i] /\ ParagraphOf(more, i) = ParagraphOf(nodes, i)
    BY <1>1, <1>4
  <2> QED BY <2>1 DEF SeenAt
<1>6. node.kind = "p" => (ParagraphOf(more, n + 1) = 0 <=> Inline(nodes))
  <2> SUFFICES ASSUME node.kind = "p" PROVE ParagraphOf(more, n + 1) = 0 <=> Inline(nodes)
    OBVIOUS
  <2>1. Count(more, n + 1, "p") = Count(nodes, n, "p") + 1
    <3>1. Count(more, n + 1, "p") = Count(more, n, "p") + (IF more[n + 1].kind = "p" THEN 1 ELSE 0)
      BY <1>1, CountStep
    <3> QED BY <1>1, <1>3, <3>1
  <2>2. Count(nodes, n, "p") \in Nat
    BY <1>1, CountStep
  <2>3. Count(nodes, n, "p") = 0 <=> Inline(nodes)
    BY <1>1, CountNone DEF Inline
  <2> QED BY <2>1, <2>2, <2>3 DEF ParagraphOf
<1>7. Vis(more)[n + 1] = Seen(node, ~Inline(nodes))
  <2>1. n + 1 \in DOMAIN more /\ node.kind \in {"p", "br", "tab", "t"}
    BY <1>1 DEF Nodes
  <2> QED BY <1>1, <1>6, <2>1 DEF Seen, SeenAt
<1>8. Vis(nodes) \in Seq(Texts)
  <2>1. ASSUME NEW i \in 1..n PROVE Vis(nodes)[i] \in Texts
    <3>1. nodes[i] \in Nodes /\ nodes[i].kind \in {"p", "br", "tab", "t"} /\ nodes[i].text \in Texts
      BY <1>1 DEF Nodes
    <3>2. <<NewLine>> \in Texts /\ <<Tab>> \in Texts /\ <<>> \in Texts
      BY Basics
    <3> QED BY <1>1, <3>1, <3>2 DEF SeenAt
  <2>2. DOMAIN Vis(nodes) = 1..n /\ Vis(nodes) = [i \in 1..n |-> Vis(nodes)[i]]
    BY <1>1
  <2> HIDE DEF Vis
  <2> QED BY <1>1, <2>1, <2>2
<1>9. DOMAIN Vis(more) = 1..(n + 1) /\ Vis(more) = [i \in 1..(n + 1) |-> Vis(more)[i]] /\ DOMAIN Vis(nodes) = 1..n
  BY <1>1
<1> DEFINE vs == Vis(nodes)
           ws == Vis(more)
           last == Seen(node, ~Inline(nodes))
<1>10. last \in Texts
  BY SeenTexts
<1> HIDE DEF Vis
<1>11. ws = Append(vs, last)
  <2>1. vs \in Seq(Texts) /\ Len(vs) = n /\ n \in Nat
    BY <1>1, <1>8, <1>9
  <2>2. /\ Append(vs, last) \in Seq(Texts) /\ Len(Append(vs, last)) = n + 1
        /\ \A i \in 1..n : Append(vs, last)[i] = vs[i]
        /\ Append(vs, last)[n + 1] = last
    BY <1>10, <2>1, AppendAt
  <2>3. \A i \in 1..(n + 1) : ws[i] = Append(vs, last)[i]
    <3>1. \A i \in 1..(n + 1) : i \in 1..n \/ i = n + 1
      BY <1>1
    <3> QED BY <1>5, <1>7, <2>2, <3>1
  <2>4. \A i \in 1..(n + 1) : ws[i] \in Texts
    <3>1. \A i \in 1..(n + 1) : i \in 1..n \/ i = n + 1
      BY <1>1
    <3>2. \A i \in 1..n : vs[i] \in Texts
      BY <1>8, <1>9
    <3> HIDE DEF ws, vs
    <3> QED BY <1>10, <3>1, <3>2, <2>2, <2>3
  <2> HIDE DEF vs, last
  <2>5. ws \in Seq(Texts) /\ Len(ws) = n + 1
    BY <1>1, <1>9, <2>4
  <2> HIDE DEF ws
  <2> QED BY <2>2, <2>3, <2>5, SameElements
<1>12. FlattenSeq(ws) = FlattenSeq(vs) \o last
  <2> HIDE DEF vs, last, ws
  <2>1. vs \in Seq(Seq(Letters)) /\ last \in Seq(Letters)
    BY <1>8, <1>10 DEF Texts, vs
  <2> QED BY <1>11, <2>1, FlattenAppend
<1> QED BY <1>2, <1>12 DEF more

\* Concatenation is associative, and one more element goes to the last of two sequences.
LEMMA JoinThree ==
  ASSUME NEW S, NEW s \in Seq(S), NEW t \in Seq(S), NEW u \in Seq(S)
  PROVE  s \o (t \o u) = (s \o t) \o u
<1> DEFINE st == s \o t
           tu == t \o u
           a == s \o tu
           b == st \o u
<1>1. /\ st \in Seq(S) /\ Len(st) = Len(s) + Len(t)
      /\ (\A i \in 1..Len(s) : st[i] = s[i]) /\ \A i \in 1..Len(t) : st[Len(s) + i] = t[i]
  BY JoinAt
<1>2. /\ tu \in Seq(S) /\ Len(tu) = Len(t) + Len(u)
      /\ (\A i \in 1..Len(t) : tu[i] = t[i]) /\ \A i \in 1..Len(u) : tu[Len(t) + i] = u[i]
  BY JoinAt
<1> HIDE DEF st, tu
<1>3. /\ a \in Seq(S) /\ Len(a) = Len(s) + Len(tu)
      /\ (\A i \in 1..Len(s) : a[i] = s[i]) /\ \A i \in 1..Len(tu) : a[Len(s) + i] = tu[i]
  <2>1. tu \in Seq(S)
    BY <1>2
  <2> QED BY <2>1, JoinAt
<1>4. /\ b \in Seq(S) /\ Len(b) = Len(st) + Len(u)
      /\ (\A i \in 1..Len(st) : b[i] = st[i]) /\ \A i \in 1..Len(u) : b[Len(st) + i] = u[i]
  <2>1. st \in Seq(S)
    BY <1>1
  <2> QED BY <2>1, JoinAt
<1> HIDE DEF a, b
<1>5. Len(s) \in Nat /\ Len(t) \in Nat /\ Len(u) \in Nat
  OBVIOUS
<1>6. Len(a) = Len(b) /\ Len(a) = (Len(s) + Len(t)) + Len(u)
  BY <1>1, <1>2, <1>3, <1>4, <1>5
<1>7. ASSUME NEW i \in 1..Len(a) PROVE a[i] = b[i]
  <2>1. CASE i \in 1..Len(s)
    <3>1. i \in 1..Len(st)
      BY <1>1, <1>5, <2>1
    <3> QED BY <1>1, <1>3, <1>4, <2>1, <3>1
  <2>2. CASE i \notin 1..Len(s) /\ i <= Len(s) + Len(t)
    <3> DEFINE k == i - Len(s)
    <3>1. k \in 1..Len(t) /\ k \in 1..Len(tu) /\ Len(s) + k = i /\ i \in 1..Len(st)
      BY <1>1, <1>2, <1>5, <2>2
    <3> HIDE DEF k
    <3>2. a[i] = tu[k] /\ tu[k] = t[k]
      BY <1>2, <1>3, <3>1
    <3>3. b[i] = st[i] /\ st[i] = t[k]
      BY <1>1, <1>4, <3>1
    <3> QED BY <3>2, <3>3
  <2>3. CASE i > Len(s) + Len(t)
    <3> DEFINE k == i - (Len(s) + Len(t))
    <3>1. k \in 1..Len(u) /\ Len(t) + k \in 1..Len(tu) /\ Len(s) + (Len(t) + k) = i /\ Len(st) + k = i
      BY <1>1, <1>2, <1>5, <1>6, <2>3
    <3> HIDE DEF k
    <3>2. a[i] = tu[Len(t) + k] /\ tu[Len(t) + k] = u[k]
      BY <1>2, <1>3, <3>1
    <3>3. b[i] = u[k]
      BY <1>4, <3>1
    <3> QED BY <3>2, <3>3
  <2> QED BY <1>5, <2>1, <2>2, <2>3
<1>8. a = b
  BY <1>3, <1>4, <1>6, <1>7, SameElements
<1> QED BY <1>8 DEF a, b, st, tu

\* One more element is a concatenation with it.
LEMMA JoinOne ==
  ASSUME NEW S, NEW s \in Seq(S), NEW e \in S
  PROVE  <<e>> \in Seq(S) /\ Append(s, e) = s \o <<e>>
<1>1. /\ Append(s, e) \in Seq(S) /\ Len(Append(s, e)) = Len(s) + 1
      /\ \A i \in 1..Len(s) : Append(s, e)[i] = s[i]
      /\ Append(s, e)[Len(s) + 1] = e
  BY AppendAt
<1>2. <<e>> \in Seq(S) /\ Len(<<e>>) = 1 /\ <<e>>[1] = e /\ Len(s) \in Nat
  OBVIOUS
<1>3. /\ s \o <<e>> \in Seq(S) /\ Len(s \o <<e>>) = Len(s) + Len(<<e>>)
      /\ \A i \in 1..Len(s) : (s \o <<e>>)[i] = s[i]
      /\ \A i \in 1..Len(<<e>>) : (s \o <<e>>)[Len(s) + i] = <<e>>[i]
  BY <1>2, JoinAt
<1> DEFINE a == Append(s, e)
           b == s \o <<e>>
<1>4. /\ a \in Seq(S) /\ Len(a) = Len(s) + 1 /\ (\A i \in 1..Len(s) : a[i] = s[i]) /\ a[Len(s) + 1] = e
      /\ b \in Seq(S) /\ Len(b) = Len(s) + 1 /\ (\A i \in 1..Len(s) : b[i] = s[i]) /\ b[Len(s) + 1] = e
  BY <1>1, <1>2, <1>3
<1> HIDE DEF a, b
<1>5. \A i \in 1..Len(a) : a[i] = b[i]
  <2>1. \A i \in 1..(Len(s) + 1) : i \in 1..Len(s) \/ i = Len(s) + 1
    BY <1>2
  <2> QED BY <1>4, <2>1
<1>6. a = b
  BY <1>4, <1>5, SameElements
<1> QED BY <1>2, <1>6 DEF a, b

\* Content without paragraphs of its own, after other content.
LEMMA VisibleJoin ==
  ASSUME NEW s \in Seq(Nodes), NEW t \in Seq(Nodes), Inline(t)
  PROVE  /\ VisibleText(s \o t) = VisibleText(s) \o VisibleText(t)
         /\ Inline(s \o t) <=> Inline(s)
<1> DEFINE n == Len(t)
           Up(k) == Between(t, 0, k)
           Good(k) == VisibleText(s \o Up(k)) = VisibleText(s) \o VisibleText(Up(k))
           Bad == {k \in Nat : k \in 0..n /\ ~Good(k)}
<1>1. n \in Nat /\ DOMAIN t = 1..n /\ \A i \in 1..n : t[i] \in Nodes
  OBVIOUS
<1>2. ASSUME NEW k \in 0..n PROVE Up(k) \in Seq(Nodes) /\ Inline(Up(k))
  <2>1. /\ Up(k) \in Seq(Nodes) /\ Len(Up(k)) = k
        /\ \A i \in 1..k : Up(k)[i] = t[i]
    <3>1. k \in Nat /\ k <= Len(t)
      BY <1>1
    <3> QED BY <3>1, PartFromStart
  <2>2. DOMAIN Up(k) = 1..k /\ \A i \in 1..k : Up(k)[i] = t[i] /\ i \in 1..n
    <3> HIDE DEF Up
    <3> QED BY <1>1, <2>1
  <2> HIDE DEF Up
  <2> QED BY <1>1, <2>1, <2>2 DEF Inline
<1>3. Up(0) = <<>> /\ Up(n) = t
  BY <1>1, WholePart
<1>4. ASSUME NEW k \in Nat, k + 1 \in 0..n PROVE Up(k + 1) = Append(Up(k), t[k + 1]) /\ t[k + 1] \in Nodes /\ t[k + 1].kind # "p"
  <2>1. k + 1 <= Len(t) /\ 0 <= k /\ k + 1 \in 1..n
    BY <1>1, <1>4
  <2>2. Append(Between(t, 0, k), t[k + 1]) = Between(t, 0, k + 1)
    BY <2>1, PartAppend
  <2> QED BY <1>1, <2>1, <2>2 DEF Inline
<1>5. VisibleText(<<>>) = <<>>
  <2>1. FlattenSeq(<<>>) = <<>>
    BY DEF FlattenSeq
  <2>2. [i \in DOMAIN <<>> |-> SeenAt(<<>>, i)] = <<>>
    OBVIOUS
  <2>3. VisibleText(<<>>) = FlattenSeq([i \in DOMAIN <<>> |-> SeenAt(<<>>, i)])
    BY Zenon DEF VisibleText, SeenAt
  <2> QED BY <2>1, <2>2, <2>3
<1>6. \A nodes \in Seq(Nodes) : VisibleText(nodes) \in Texts
  BY VisibleWritten
<1> HIDE DEF Up, n
<1>7. Bad = {}
  <2>1. 0 \notin Bad
    <3>1. s \o <<>> = s /\ VisibleText(s) \in Texts
      BY <1>6
    <3>2. VisibleText(s) \o <<>> = VisibleText(s)
      BY <3>1 DEF Texts
    <3> QED BY <1>3, <1>5, <3>1, <3>2
  <2>2. ASSUME NEW k \in Nat, k \notin Bad PROVE k + 1 \notin Bad
    <3> SUFFICES ASSUME k + 1 \in 0..n PROVE Good(k + 1)
      OBVIOUS
    <3> DEFINE e == t[k + 1]
               u == Up(k)
               x == VisibleText(s)
               y == VisibleText(u)
               z == Seen(e, TRUE)
    <3>1. k \in 0..n /\ Good(k)
      BY <1>1, <2>2
    <3>2. u \in Seq(Nodes) /\ Up(k + 1) = Append(u, e) /\ e \in Nodes /\ e.kind # "p"
      BY <1>2, <1>4, <3>1
    <3> HIDE DEF e, u
    <3>3. \A after \in BOOLEAN : Seen(e, after) = z
      BY <3>2 DEF Seen, Nodes
    <3>4. VisibleText(Append(u, e)) = y \o z
      BY <3>2, <3>3, VisibleAppend
    <3>5. <<e>> \in Seq(Nodes) /\ s \o u \in Seq(Nodes) /\ Append(u, e) = u \o <<e>> /\ Append(s \o u, e) = (s \o u) \o <<e>>
      BY <3>2, JoinOne, JoinAt
    <3>6. s \o Append(u, e) = Append(s \o u, e)
      BY <3>2, <3>5, JoinThree
    <3>7. VisibleText(Append(s \o u, e)) = VisibleText(s \o u) \o z
      BY <3>2, <3>3, <3>5, VisibleAppend
    <3>8. x \in Texts /\ y \in Texts /\ z \in Texts
      BY <1>6, <3>2, SeenTexts
    <3>9. VisibleText(s \o u) = x \o y
      BY <3>1 DEF u
    <3> HIDE DEF x, y, z
    <3>10. x \o (y \o z) = (x \o y) \o z
      BY <3>8, JoinThree DEF Texts
    <3>11. VisibleText(s \o Up(k + 1)) = x \o VisibleText(Up(k + 1))
      BY <3>2, <3>4, <3>6, <3>7, <3>9, <3>10
    <3> QED BY <3>11 DEF x
  <2> HIDE DEF Bad
  <2>3. Bad \in SUBSET Nat
    BY DEF Bad
  <2> QED BY <2>1, <2>2, <2>3, Induction
<1>8. Good(n)
  <2>1. n \in Nat /\ n \in 0..n
    BY <1>1
  <2> QED BY <1>7, <2>1
<1>9. Inline(s \o t) <=> Inline(s)
  <2> DEFINE st == s \o t
  <2>1. /\ st \in Seq(Nodes) /\ Len(st) = Len(s) + Len(t)
        /\ (\A i \in 1..Len(s) : st[i] = s[i]) /\ \A i \in 1..Len(t) : st[Len(s) + i] = t[i]
    BY JoinAt
  <2> HIDE DEF st
  <2>2. DOMAIN st = 1..(Len(s) + Len(t)) /\ DOMAIN s = 1..Len(s) /\ DOMAIN t = 1..Len(t) /\ Len(s) \in Nat /\ Len(t) \in Nat
    BY <2>1
  <2>3. ASSUME Inline(st), NEW i \in DOMAIN s PROVE s[i].kind # "p"
    BY <2>1, <2>2, <2>3 DEF Inline
  <2>4. ASSUME Inline(s), NEW i \in DOMAIN st PROVE st[i].kind # "p"
    <3>1. CASE i \in 1..Len(s)
      BY <2>1, <2>2, <2>4, <3>1 DEF Inline
    <3>2. CASE i \notin 1..Len(s)
      <4>1. i - Len(s) \in 1..Len(t) /\ Len(s) + (i - Len(s)) = i
        BY <2>2, <3>2
      <4>2. st[i] = t[i - Len(s)]
        BY <2>1, <4>1
      <4> QED BY <2>2, <4>1, <4>2 DEF Inline
    <3> QED BY <3>1, <3>2
  <2> QED BY <2>3, <2>4 DEF Inline, st
<1> QED BY <1>3, <1>8, <1>9

\* A piece of content that shows the part of a text from one place to another, after a paragraph or not.
Piece(text, part, a, b, after) ==
  /\ a <= b
  /\ \/ Inline(part) /\ VisibleText(part) = Between(text, a, b)
     \/ \E node \in Nodes : /\ part = <<node>> /\ node.kind = "p"
                            /\ IF after THEN b = a + 1 /\ text[b] = NewLine ELSE b = a

\* A piece that comes after some content.
PieceAfter(text, content, part, a, b) ==
  /\ a <= b
  /\ \/ Inline(part) /\ VisibleText(part) = Between(text, a, b)
     \/ \E node \in Nodes : /\ part = <<node>> /\ node.kind = "p"
                            /\ IF Inline(content) THEN b = a ELSE b = a + 1 /\ text[b] = NewLine

\* One piece after content that shows the text before it.
LEMMA PieceJoin ==
  ASSUME NEW text \in Texts, NEW content \in Seq(Nodes), NEW part \in Seq(Nodes),
         NEW z \in Nat, NEW a \in Nat, NEW b \in Nat, z <= a, b <= Len(text),
         VisibleText(content) = Between(text, z, a),
         PieceAfter(text, content, part, a, b)
  PROVE  /\ content \o part \in Seq(Nodes)
         /\ VisibleText(content \o part) = Between(text, z, b)
         /\ Inline(content) /\ Inline(part) => Inline(content \o part)
         /\ Inline(content \o part) => Inline(content) /\ Inline(part)
<1>1. content \o part \in Seq(Nodes) /\ a <= b /\ text \in Seq(Letters) /\ Len(text) \in Nat
  BY JoinAt DEF Texts, PieceAfter
<1>2. CASE Inline(part) /\ VisibleText(part) = Between(text, a, b)
  <2>1. VisibleText(content \o part) = VisibleText(content) \o VisibleText(part)
    BY <1>2, VisibleJoin
  <2>2. Between(text, z, a) \o Between(text, a, b) = Between(text, z, b)
    BY <1>1, PartsJoin
  <2> QED BY <1>1, <1>2, <2>1, <2>2, VisibleJoin
<1>3. ASSUME NEW node \in Nodes, part = <<node>>, node.kind = "p",
             IF Inline(content) THEN b = a ELSE b = a + 1 /\ text[b] = NewLine
      PROVE  /\ VisibleText(content \o part) = Between(text, z, b)
             /\ ~Inline(content \o part) /\ ~Inline(part)
  <2>1. content \o part = Append(content, node)
    BY <1>3, JoinOne
  <2>2. VisibleText(content \o part) = VisibleText(content) \o Seen(node, ~Inline(content))
    BY <2>1, VisibleAppend
  <2>3. ~Inline(part)
    <3>1. 1 \in DOMAIN <<node>> /\ <<node>>[1] = node
      OBVIOUS
    <3> QED BY <1>3, <3>1 DEF Inline
  <2>4. ~Inline(content \o part)
    <3>1. /\ Append(content, node)[Len(content) + 1] = node
          /\ Append(content, node) \in Seq(Nodes) /\ Len(Append(content, node)) = Len(content) + 1
      BY AppendAt
    <3>2. Len(content) \in Nat
      OBVIOUS
    <3>3. Len(content) + 1 \in DOMAIN Append(content, node)
      BY <3>1, <3>2
    <3> QED BY <1>3, <2>1, <3>1, <3>3 DEF Inline
  <2>5. CASE Inline(content)
    <3>1. Seen(node, ~Inline(content)) = <<>> /\ b = a
      BY <1>3, <2>5 DEF Seen
    <3>2. VisibleText(content) \in Seq(Letters)
      BY VisibleWritten DEF Texts
    <3>3. VisibleText(content) \o <<>> = VisibleText(content)
      BY <3>2
    <3> QED BY <2>2, <2>3, <2>4, <3>1, <3>3
  <2>6. CASE ~Inline(content)
    <3>1. Seen(node, ~Inline(content)) = <<text[b]>> /\ b = a + 1
      BY <1>3, <2>6 DEF Seen
    <3>2. Between(text, z, a) \in Seq(Letters)
      <4>1. a <= Len(text)
        BY <1>1
      <4> QED BY <1>1, <4>1, PartOf
    <3>3. text[b] \in Letters
      BY <1>1, <3>1
    <3>4. Between(text, z, a) \o <<text[b]>> = Append(Between(text, z, a), text[b])
      BY <3>2, <3>3, JoinOne
    <3>5. Append(Between(text, z, a), text[a + 1]) = Between(text, z, a + 1)
      BY <1>1, <3>1, PartAppend
    <3> QED BY <2>2, <2>3, <2>4, <3>1, <3>4, <3>5
  <2> QED BY <2>3, <2>4, <2>5, <2>6
<1> QED BY <1>1, <1>2, <1>3 DEF PieceAfter

\* Pieces that show one part of a text after the other show it whole.
LEMMA Pieces ==
  ASSUME NEW text \in Texts, NEW parts \in Seq(Seq(Nodes)), NEW pos,
         \A m \in 0..Len(parts) : pos[m] \in 0..Len(text),
         \A m \in 1..Len(parts) : Piece(text, parts[m], pos[m - 1], pos[m], \E k \in 1..m-1 : ~Inline(parts[k]))
  PROVE  /\ FlattenSeq(parts) \in Seq(Nodes) /\ pos[0] <= pos[Len(parts)]
         /\ VisibleText(FlattenSeq(parts)) = Between(text, pos[0], pos[Len(parts)])
         /\ Inline(FlattenSeq(parts)) <=> \A k \in 1..Len(parts) : Inline(parts[k])
<1> DEFINE n == Len(parts)
<1>1. PICK out \in [0..n -> Seq(Nodes)] :
        /\ out[0] = <<>> /\ \A m \in 1..n : out[m] = out[m - 1] \o parts[m]
        /\ FlattenSeq(parts) = out[n]
  BY FlattenSteps
<1>2. n \in Nat /\ Len(text) \in Nat /\ \A m \in 1..n : parts[m] \in Seq(Nodes)
  BY DEF Texts
<1> HIDE DEF n
<1> DEFINE Good(m) == /\ pos[0] <= pos[m]
                      /\ VisibleText(out[m]) = Between(text, pos[0], pos[m])
                      /\ Inline(out[m]) <=> \A k \in 1..m : Inline(parts[k])
           Bad == {m \in Nat : m \in 0..n /\ ~Good(m)}
<1>3. \A m \in 0..n : pos[m] \in Nat /\ pos[m] <= Len(text)
  BY <1>2 DEF n
<1>4. Bad = {}
  <2>1. 0 \notin Bad
    <3>1. VisibleText(<<>>) = <<>>
      <4>1. FlattenSeq(<<>>) = <<>>
        BY DEF FlattenSeq
      <4>2. [i \in DOMAIN <<>> |-> SeenAt(<<>>, i)] = <<>>
        OBVIOUS
      <4>3. VisibleText(<<>>) = FlattenSeq([i \in DOMAIN <<>> |-> SeenAt(<<>>, i)])
        BY Zenon DEF VisibleText, SeenAt
      <4> QED BY <4>1, <4>2, <4>3
    <3>2. pos[0] \in 0..Len(text)
      BY <1>2, <1>3
    <3>3. Between(text, pos[0], pos[0]) = <<>>
      BY <3>2, WholePart DEF Texts
    <3>4. Inline(<<>>) /\ \A k \in 1..0 : Inline(parts[k])
      BY DEF Inline
    <3> QED BY <1>1, <3>1, <3>2, <3>3, <3>4
  <2>2. ASSUME NEW m \in Nat, m \notin Bad PROVE m + 1 \notin Bad
    <3> SUFFICES ASSUME m + 1 \in 0..n PROVE Good(m + 1)
      OBVIOUS
    <3> DEFINE part == parts[m + 1]
               c == out[m]
    <3>1. m \in 0..n /\ m + 1 \in 1..n /\ (m + 1) - 1 = m /\ Good(m)
      BY <1>2, <2>2
    <3>2. out[m + 1] = c \o part /\ c \in Seq(Nodes) /\ part \in Seq(Nodes)
      BY <1>1, <1>2, <3>1
    <3>3. pos[0] \in Nat /\ pos[m] \in Nat /\ pos[m + 1] \in Nat /\ pos[m + 1] <= Len(text) /\ pos[0] <= pos[m]
      BY <1>2, <1>3, <3>1
    <3>4. Piece(text, part, pos[m], pos[m + 1], \E k \in 1..m : ~Inline(parts[k]))
      <4>1. Piece(text, parts[m + 1], pos[(m + 1) - 1], pos[m + 1], \E k \in 1..(m + 1)-1 : ~Inline(parts[k]))
        BY <3>1 DEF n
      <4> QED BY <3>1, <4>1
    <3>5. (\E k \in 1..m : ~Inline(parts[k])) <=> ~Inline(c)
      BY <3>1
    <3>6. VisibleText(c) = Between(text, pos[0], pos[m])
      BY <3>1
    <3> HIDE DEF part, c, Bad
    <3>7. PieceAfter(text, c, part, pos[m], pos[m + 1])
      BY <3>4, <3>5 DEF Piece, PieceAfter
    <3>8. /\ VisibleText(c \o part) = Between(text, pos[0], pos[m + 1])
          /\ Inline(c \o part) <=> Inline(c) /\ Inline(part)
      <4> DEFINE z == pos[0]
                 a == pos[m]
                 b == pos[m + 1]
      <4>1. z \in Nat /\ a \in Nat /\ b \in Nat /\ b <= Len(text) /\ z <= a
        BY <3>3
      <4>2. VisibleText(c) = Between(text, z, a) /\ PieceAfter(text, c, part, a, b)
        BY <3>6, <3>7
      <4> HIDE DEF z, a, b
      <4>3. /\ VisibleText(c \o part) = Between(text, z, b)
            /\ Inline(c) /\ Inline(part) => Inline(c \o part)
            /\ Inline(c \o part) => Inline(c) /\ Inline(part)
        <5>1. c \in Seq(Nodes) /\ part \in Seq(Nodes)
          BY <3>2
        <5>3. text \in Texts
           OBVIOUS
        <5>4. z \in Nat /\ a \in Nat /\ b \in Nat /\ z <= a /\ b <= Len(text)
           BY <4>1
        <5> QED BY <5>1, <5>3, <5>4, <4>2, PieceJoin, SMTT(30)
      <4> QED BY <4>3 DEF z, b
    <3>9. pos[m] <= pos[m + 1]
      BY <3>7 DEF PieceAfter
    <3>10. (\A k \in 1..(m + 1) : Inline(parts[k])) <=> (\A k \in 1..m : Inline(parts[k])) /\ Inline(part)
      <4>1. \A k : k \in 1..(m + 1) <=> k \in 1..m \/ k = m + 1
        OBVIOUS
      <4> QED BY <4>1 DEF part
    <3>11. Inline(c) <=> \A k \in 1..m : Inline(parts[k])
      BY <3>5
    <3>12. pos[0] <= pos[m + 1]
      BY <3>3, <3>9
    <3>13. /\ VisibleText(out[m + 1]) = Between(text, pos[0], pos[m + 1])
           /\ Inline(out[m + 1]) <=> \A k \in 1..(m + 1) : Inline(parts[k])
      BY <3>2, <3>8, <3>10, <3>11, Zenon
    <3> QED BY <3>12, <3>13, Zenon
  <2> HIDE DEF Bad
  <2>3. Bad \in SUBSET Nat
    BY DEF Bad
  <2> QED BY <2>1, <2>2, <2>3, Induction
<1>5. Good(n) /\ out[n] \in Seq(Nodes)
  <2>1. n \in Nat /\ n \in 0..n
    BY <1>2
  <2> QED BY <1>1, <1>4, <2>1
<1> QED BY <1>1, <1>5 DEF n

\* The parts of the first n elements of a sequence, and where each of them ends: before a separator, or after
\* the last element.
Cut(text, at, parts, ends, n) ==
  /\ parts # <<>> /\ \A k \in 0..Len(parts) : ends[k] \in Nat
  /\ ends[0] = 0 /\ ends[Len(parts)] = n + 1
  /\ \A k \in 1..Len(parts) : /\ ends[k - 1] < ends[k] /\ ends[k] <= n + 1
                              /\ parts[k] = Between(text, ends[k - 1], ends[k] - 1)
  /\ \A k \in 1..Len(parts)-1 : text[ends[k]] = at

\* One more element.
LEMMA CutExtended ==
  ASSUME NEW S, NEW text \in Seq(S), NEW at, NEW parts \in Seq(Seq(S)), NEW ends, NEW m \in Nat, m + 1 <= Len(text),
         Cut(text, at, parts, ends, m)
  PROVE  \E new : Cut(text, at, Extended(parts, text[m + 1], at), new, m + 1)
<1> DEFINE L == Len(parts)
           c == text[m + 1]
           more == Extended(parts, c, at)
<1>1. L \in Nat \ {0} /\ DOMAIN parts = 1..L /\ Len(text) \in Nat /\ m + 1 \in 1..Len(text) /\ c \in S
  BY DEF Cut
<1>2. /\ \A k \in 0..L : ends[k] \in Nat
      /\ ends[0] = 0 /\ ends[L] = m + 1
      /\ \A k \in 1..L : /\ ends[k - 1] < ends[k] /\ ends[k] <= m + 1
                         /\ parts[k] = Between(text, ends[k - 1], ends[k] - 1)
      /\ \A k \in 1..L-1 : text[ends[k]] = at
  BY DEF Cut
<1>3. CASE c = at
  <2> DEFINE new == [k \in 0..L+1 |-> IF k = L + 1 THEN m + 2 ELSE ends[k]]
  <2>1. more = Append(parts, <<>>)
    BY <1>3 DEF Extended
  <2>2. /\ more \in Seq(Seq(S)) /\ Len(more) = L + 1
        /\ \A k \in 1..L : more[k] = parts[k]
        /\ more[L + 1] = <<>>
    <3>1. <<>> \in Seq(S)
      OBVIOUS
    <3> QED BY <2>1, <3>1, AppendAt
  <2> HIDE DEF more, L, c
  <2>3. /\ \A k \in 0..L : new[k] = ends[k]
        /\ new[L + 1] = m + 2
    BY <1>1
  <2> HIDE DEF new
  <2>4. Between(text, m + 1, m + 1) = <<>>
    <3>1. m + 1 \in 0..Len(text)
      BY <1>1
    <3> QED BY <3>1, WholePart
  <2>5. ASSUME NEW k \in 1..L+1
        PROVE  new[k - 1] < new[k] /\ new[k] <= m + 2 /\ more[k] = Between(text, new[k - 1], new[k] - 1)
    <3>1. CASE k \in 1..L
      <4>1. k - 1 \in 0..L /\ k \in 0..L
        BY <1>1, <3>1
      <4>2. new[k] = ends[k] /\ new[k - 1] = ends[k - 1] /\ more[k] = parts[k]
        BY <2>2, <2>3, <3>1, <4>1
      <4>3. /\ ends[k - 1] < ends[k] /\ ends[k] <= m + 1 /\ ends[k] \in Nat
            /\ parts[k] = Between(text, ends[k - 1], ends[k] - 1)
        BY <1>2, <3>1, <4>1
      <4>4. ends[k] <= m + 2
        BY <4>3
      <4> QED BY <4>2, <4>3, <4>4
    <3>2. CASE k \notin 1..L
      <4>1. k = L + 1 /\ k - 1 = L /\ L \in 0..L
        BY <1>1, <3>2
      <4>2. new[k] = m + 2 /\ new[k - 1] = m + 1 /\ more[k] = <<>>
        BY <1>2, <2>2, <2>3, <4>1
      <4>3. new[k] - 1 = m + 1 /\ new[k - 1] < new[k]
        BY <4>2
      <4> QED BY <2>4, <4>2, <4>3
    <3> QED BY <3>1, <3>2
  <2>6. ASSUME NEW k \in 1..L PROVE text[new[k]] = at
    <3>1. new[k] = ends[k]
      BY <1>1, <2>3
    <3>2. CASE k = L
      BY <1>2, <1>3, <3>1, <3>2 DEF c
    <3>3. CASE k # L
      <4>1. k \in 1..L-1
        BY <1>1, <3>3
      <4> QED BY <1>2, <3>1, <4>1
    <3> QED BY <3>2, <3>3
  <2>7. \A k \in 0..L+1 : new[k] \in Nat
    <3>1. \A k \in 0..L+1 : k \in 0..L \/ k = L + 1
      BY <1>1
    <3>2. m + 2 \in Nat /\ \A k \in 0..L : ends[k] \in Nat
      BY <1>2
    <3> QED BY <2>3, <3>1, <3>2
  <2>8. new[0] = 0 /\ (L + 1) - 1 = L /\ (m + 1) + 1 = m + 2 /\ more # <<>>
    <3>1. 0 \in 0..L /\ Len(more) # 0
      BY <1>1, <2>2
    <3>2. more # <<>>
      BY <3>1
    <3> QED BY <1>1, <1>2, <2>3, <3>1, <3>2
  <2>9. Cut(text, at, more, new, m + 1)
    BY <2>2, <2>3, <2>5, <2>6, <2>7, <2>8 DEF Cut
  <2> QED BY <2>9 DEF more, c
<1>4. CASE c # at
  <2> DEFINE new == [k \in 0..L |-> IF k = L THEN m + 2 ELSE ends[k]]
             last == parts[L]
  <2>1. more = [parts EXCEPT ![L] = Append(@, c)]
    BY <1>4 DEF Extended
  <2>2. L \in DOMAIN parts /\ last \in Seq(S) /\ L - 1 \in 0..L /\ L \in 0..L /\ L \in 1..L
    BY <1>1
  <2>3. Append(last, c) \in Seq(S)
    BY <1>1, <2>2
  <2>4. /\ more \in Seq(Seq(S)) /\ Len(more) = L
        /\ \A k \in 1..L : k # L => more[k] = parts[k]
        /\ more[L] = Append(last, c)
    <3>1. /\ DOMAIN more = 1..L /\ (\A k \in 1..L : k # L => more[k] = parts[k])
          /\ more[L] = Append(last, c) /\ more = [k \in 1..L |-> more[k]]
      BY <1>1, <2>1, <2>2
    <3>2. \A k \in 1..L : more[k] \in Seq(S)
      <4>1. \A k \in 1..L : parts[k] \in Seq(S)
        BY <1>1
      <4> HIDE DEF more
      <4> QED BY <2>3, <3>1, <4>1
    <3> HIDE DEF more
    <3> QED BY <1>1, <3>1, <3>2
  <2>5. more[L] = Between(text, ends[L - 1], m + 1)
    <3> DEFINE a == ends[L - 1]
    <3>1. a \in Nat /\ a <= m /\ last = Between(text, a, m)
      <4>1. /\ ends[L - 1] \in Nat /\ ends[L - 1] < ends[L] /\ ends[L] = m + 1
            /\ parts[L] = Between(text, ends[L - 1], ends[L] - 1)
        BY <1>2, <2>2
      <4>2. ends[L] - 1 = m
        BY <4>1
      <4> QED BY <4>1, <4>2
    <3> HIDE DEF a, last, L, more
    <3>2. Append(Between(text, a, m), text[m + 1]) = Between(text, a, m + 1)
      BY <3>1, PartAppend
    <3> QED BY <2>4, <3>1, <3>2 DEF a
  <2> HIDE DEF more, L, c, last
  <2>6. /\ \A k \in 0..L : k # L => new[k] = ends[k]
        /\ new[L] = m + 2
    BY <1>1
  <2> HIDE DEF new
  <2>7. ASSUME NEW k \in 1..L
        PROVE  new[k - 1] < new[k] /\ new[k] <= m + 2 /\ more[k] = Between(text, new[k - 1], new[k] - 1)
    <3>1. k - 1 \in 0..L /\ k - 1 # L /\ k \in 0..L
      BY <1>1
    <3>2. new[k - 1] = ends[k - 1] /\ ends[k - 1] < ends[k] /\ ends[k] <= m + 1 /\ ends[k] \in Nat /\ ends[k - 1] \in Nat
      BY <1>2, <2>6, <3>1
    <3>3. CASE k = L
      <4>1. new[k] = m + 2 /\ new[k] - 1 = m + 1 /\ new[k - 1] < new[k]
        BY <2>6, <3>2, <3>3
      <4> QED BY <2>5, <3>2, <3>3, <4>1
    <3>4. CASE k # L
      <4>1. new[k] = ends[k] /\ more[k] = parts[k]
        BY <2>4, <2>6, <3>1, <3>4
      <4>2. ends[k] <= m + 2
        BY <3>2
      <4> QED BY <1>2, <3>2, <4>1, <4>2
    <3> QED BY <3>3, <3>4
  <2>8. ASSUME NEW k \in 1..L-1 PROVE text[new[k]] = at
    <3>1. k \in 0..L /\ k # L
      BY <1>1
    <3> QED BY <1>2, <2>6, <3>1
  <2>9. \A k \in 0..L : new[k] \in Nat
    BY <1>2, <2>6
  <2>10. new[0] = 0 /\ (m + 1) + 1 = m + 2 /\ more # <<>>
    <3>1. 0 \in 0..L /\ 0 # L /\ Len(more) # 0
      BY <1>1, <2>4
    <3>2. more # <<>>
      BY <3>1
    <3> QED BY <1>2, <2>6, <3>1, <3>2
  <2>11. Cut(text, at, more, new, m + 1)
    BY <2>4, <2>6, <2>7, <2>8, <2>9, <2>10 DEF Cut
  <2> QED BY <2>11 DEF more, c
<1> QED BY <1>3, <1>4

\* What a text is split into.
LEMMA SplitCut ==
  ASSUME NEW S, NEW text \in Seq(S), NEW at
  PROVE  /\ Split(text, at) \in Seq(Seq(S))
         /\ \E ends : Cut(text, at, Split(text, at), ends, Len(text))
<1> DEFINE n == Len(text)
           f == CHOOSE g : g = [i \in 0..Len(text) |-> IF i = 0 THEN << <<>> >> ELSE Extended(g[i - 1], text[i], at)]
<1>1. n \in Nat /\ DOMAIN text = 1..n /\ \A i \in 1..n : text[i] \in S
  OBVIOUS
<1>2. f = [i \in 0..Len(text) |-> IF i = 0 THEN << <<>> >> ELSE Extended(f[i - 1], text[i], at)]
  <2>1. PICK g : Splits(g, text, at, Len(text))
    BY <1>1, SplitFunction
  <2> QED BY <2>1, Zenon DEF Splits
<1>3. Split(text, at) = f[n]
  BY Zenon DEF Split
<1> HIDE DEF f, n
<1>4. ASSUME NEW i \in 0..n PROVE f[i] = IF i = 0 THEN << <<>> >> ELSE Extended(f[i - 1], text[i], at)
  BY <1>2, Zenon DEF n
<1> DEFINE Good(m) == f[m] \in Seq(Seq(S)) /\ \E ends : Cut(text, at, f[m], ends, m)
           Bad == {m \in Nat : m \in 0..n /\ ~Good(m)}
<1>5. Good(0)
  <2>1. f[0] = << <<>> >> /\ 0 \in 0..n
    BY <1>1, <1>4
  <2> DEFINE ends == [k \in 0..1 |-> k]
  <2>2. Between(text, 0, 0) = <<>>
    <3>1. 0 \in 0..Len(text)
      BY <1>1 DEF n
    <3> QED BY <3>1, WholePart
  <2>3. << <<>> >> \in Seq(Seq(S)) /\ Len(<< <<>> >>) = 1 /\ << <<>> >> # <<>> /\ << <<>> >>[1] = <<>>
    OBVIOUS
  <2>4. ends[0] = 0 /\ ends[1] = 1 /\ 1 - 1 = 0 /\ (\A k \in 1..1 : k = 1) /\ 1..(1-1) = {}
    OBVIOUS
  <2>5. \A k \in 0..1 : ends[k] \in Nat
    OBVIOUS
  <2> HIDE DEF ends
  <2>6. Cut(text, at, << <<>> >>, ends, 0)
    BY <2>2, <2>3, <2>4, <2>5 DEF Cut
  <2> QED BY <2>1, <2>3, <2>6
<1>6. ASSUME NEW m \in Nat, m \notin Bad, m + 1 \in 0..n PROVE Good(m + 1)
  <2>1. m \in 0..n /\ m + 1 # 0 /\ (m + 1) - 1 = m /\ m + 1 \in 1..n /\ m + 1 <= Len(text)
    BY <1>1, <1>6 DEF n
  <2>2. f[m + 1] = Extended(f[m], text[m + 1], at)
    BY <1>4, <1>6, <2>1
  <2>3. Good(m)
    BY <1>6, <2>1
  <2>4. text[m + 1] \in S
    BY <1>1, <2>1
  <2> DEFINE parts == f[m]
  <2>5. parts \in Seq(Seq(S))
    BY <2>3
  <2>6. PICK ends : Cut(text, at, parts, ends, m)
    BY <2>3
  <2> HIDE DEF parts, Good, Bad
  <2>7. \E new : Cut(text, at, Extended(parts, text[m + 1], at), new, m + 1)
    BY <2>1, <2>5, <2>6, CutExtended
  <2>8. parts # <<>>
    BY <2>6 DEF Cut
  <2>9. Extended(parts, text[m + 1], at) \in Seq(Seq(S))
    BY <2>4, <2>5, <2>8, ExtendedParts
  <2> QED BY <2>2, <2>7, <2>9 DEF Good, parts
<1>7. Bad = {}
  <2>1. 0 \notin Bad
    BY <1>5
  <2>2. \A m \in Nat : m \notin Bad => m + 1 \notin Bad
    BY <1>6
  <2>3. Bad \in SUBSET Nat
    OBVIOUS
  <2> HIDE DEF Bad
  <2>4. \A m \in Nat : m \notin Bad => m + 1 \notin Bad
    BY <2>2 DEF Bad
  <2> QED BY <2>1, <2>3, <2>4, Induction
<1>8. Good(n)
  <2>1. n \in Nat /\ n \in 0..n
    BY <1>1
  <2> QED BY <1>7, <2>1
<1> QED BY <1>3, <1>8 DEF n

\* An element and the part after it.
LEMMA PartHead ==
  ASSUME NEW S, NEW s \in Seq(S), NEW a \in Nat, NEW b \in Nat, a + 1 <= b, b <= Len(s)
  PROVE  <<s[a + 1]>> \o Between(s, a + 1, b) = Between(s, a, b)
<1>1. Len(s) \in Nat /\ a + 1 \in Nat /\ a \in 0..Len(s) /\ a + 1 <= Len(s) /\ a <= a + 1 /\ s[a + 1] \in S
  OBVIOUS
<1>2. Between(s, a, a) = <<>>
  BY <1>1, WholePart
<1>3. Append(Between(s, a, a), s[a + 1]) = Between(s, a, a + 1)
  BY <1>1, PartAppend
<1>4. Between(s, a, a + 1) = <<s[a + 1]>>
  BY <1>2, <1>3
<1> DEFINE d == a + 1
<1>5. d \in Nat /\ a <= d /\ d <= b /\ d = a + 1
  BY <1>1
<1> HIDE DEF d
<1>6. Between(s, a, d) \o Between(s, d, b) = Between(s, a, b)
  BY <1>5, PartsJoin
<1> QED BY <1>4, <1>5, <1>6

\* What is seen of a run, and of a run after another element.
LEMMA RunSeen ==
  ASSUME NEW text \in Texts, NEW node \in Nodes
  PROVE  /\ VisibleText(<<>>) = <<>> /\ Inline(<<>>)
         /\ VisibleText(<<node>>) = Seen(node, FALSE)
         /\ VisibleText(<<T(text)>>) = text /\ Inline(<<T(text)>>)
         /\ VisibleText(<<node, T(text)>>) = Seen(node, FALSE) \o text
         /\ node.kind # "p" => Inline(<<node, T(text)>>) /\ Inline(<<node>>)
<1>1. VisibleText(<<>>) = <<>>
  <2>1. FlattenSeq(<<>>) = <<>>
    BY DEF FlattenSeq
  <2>2. [i \in DOMAIN <<>> |-> SeenAt(<<>>, i)] = <<>>
    OBVIOUS
  <2>3. VisibleText(<<>>) = FlattenSeq([i \in DOMAIN <<>> |-> SeenAt(<<>>, i)])
    BY Zenon DEF VisibleText, SeenAt
  <2> QED BY <2>1, <2>2, <2>3
<1>2. Inline(<<>>)
  BY DEF Inline
<1>3. T(text) \in Nodes /\ T(text).kind = "t" /\ T(text).text = text
  BY Basics
<1>4. \A e \in Nodes : VisibleText(<<e>>) = Seen(e, FALSE) /\ <<e>> \in Seq(Nodes)
  <2> SUFFICES ASSUME NEW e \in Nodes PROVE VisibleText(<<e>>) = Seen(e, FALSE) /\ <<e>> \in Seq(Nodes)
    OBVIOUS
  <2>1. <<>> \in Seq(Nodes) /\ Append(<<>>, e) = <<e>> /\ <<e>> \in Seq(Nodes)
    OBVIOUS
  <2>2. VisibleText(Append(<<>>, e)) = VisibleText(<<>>) \o Seen(e, ~Inline(<<>>))
    BY <2>1, VisibleAppend
  <2>3. Seen(e, ~Inline(<<>>)) = Seen(e, FALSE)
    BY <1>2 DEF Seen
  <2>4. Seen(e, FALSE) \in Seq(Letters)
    BY SeenTexts DEF Texts
  <2>5. <<>> \o Seen(e, FALSE) = Seen(e, FALSE)
    BY <2>4
  <2> QED BY <1>1, <2>1, <2>2, <2>3, <2>5
<1>5. \A after : Seen(T(text), after) = text
  BY <1>3 DEF Seen
<1>6. VisibleText(<<node, T(text)>>) = Seen(node, FALSE) \o text
  <2> DEFINE t == T(text)
             one == <<node>>
  <2>1. t \in Nodes /\ (\A after : Seen(t, after) = text) /\ VisibleText(one) = Seen(node, FALSE) /\ one \in Seq(Nodes)
    BY <1>3, <1>4, <1>5
  <2> HIDE DEF t
  <2>2. Append(one, t) = <<node, t>>
    <3>1. ASSUME NEW d \in Nodes, NEW e \in Nodes PROVE Append(<<d>>, e) = <<d, e>>
      <4>1. <<d>> \in Seq(Nodes) /\ Len(<<d>>) = 1 /\ <<d>>[1] = d
        OBVIOUS
      <4>2. <<d, e>> \in Seq(Nodes) /\ Len(<<d, e>>) = 2 /\ <<d, e>>[1] = d /\ <<d, e>>[2] = e
        OBVIOUS
      <4> DEFINE s == Append(<<d>>, e)
                 u == <<d, e>>
      <4>3. s \in Seq(Nodes) /\ Len(s) = 2 /\ s[1] = d /\ s[2] = e
        <5>1. /\ s \in Seq(Nodes) /\ Len(s) = Len(<<d>>) + 1
              /\ \A i \in 1..Len(<<d>>) : s[i] = <<d>>[i]
              /\ s[Len(<<d>>) + 1] = e
          BY <4>1, AppendAt
        <5> HIDE DEF s
        <5> QED BY <4>1, <5>1
      <4> HIDE DEF s, u
      <4>4. u \in Seq(Nodes) /\ Len(u) = 2 /\ u[1] = d /\ u[2] = e
        BY <4>2 DEF u
      <4>5. \A i \in 1..Len(s) : s[i] = u[i]
        <5>1. \A i \in 1..2 : i = 1 \/ i = 2
          OBVIOUS
        <5> QED BY <4>3, <4>4, <5>1
      <4>6. s = u
        BY <4>3, <4>4, <4>5, SameElements
      <4> QED BY <4>6 DEF s, u
    <3>2. t \in Nodes
      BY <2>1
    <3> QED BY <3>1, <3>2
  <2> HIDE DEF one
  <2>3. VisibleText(Append(one, t)) = VisibleText(one) \o Seen(t, ~Inline(one))
    BY <2>1, VisibleAppend
  <2>4. Seen(t, ~Inline(one)) = text
    BY <2>1, Zenon
  <2> QED BY <2>1, <2>2, <2>3, <2>4 DEF t
<1>7. Inline(<<T(text)>>)
  BY <1>3 DEF Inline
<1>8. node.kind # "p" => Inline(<<node, T(text)>>) /\ Inline(<<node>>)
  BY <1>3 DEF Inline
<1> QED BY <1>1, <1>2, <1>3, <1>4, <1>5, <1>6, <1>7, <1>8

\* Runs for the parts of a text, and an element before each but the first.
Runs(nodes, parts, sep) ==
  /\ DOMAIN nodes = DOMAIN parts /\ nodes = [k \in DOMAIN parts |-> nodes[k]]
  /\ \A k \in DOMAIN parts : nodes[k] = IF k = 1 THEN <<T(parts[k])>> ELSE <<sep, T(parts[k])>>

\* Runs for the parts of a text, with an element between them for each separator, show the text.
LEMMA Separated ==
  ASSUME NEW text \in Texts, NEW at, NEW parts \in Seq(Texts), NEW ends, Cut(text, at, parts, ends, Len(text)),
         NEW sep \in Nodes, sep.kind # "p", Seen(sep, FALSE) = <<at>>,
         NEW nodes, Runs(nodes, parts, sep)
  PROVE  FlattenSeq(nodes) \in Seq(Nodes) /\ VisibleText(FlattenSeq(nodes)) = text /\ Inline(FlattenSeq(nodes))
<1> DEFINE L == Len(parts)
           n == Len(text)
           pos == [k \in 0..L |-> IF k = 0 THEN 0 ELSE ends[k] - 1]
<1>1. /\ L \in Nat \ {0} /\ DOMAIN parts = 1..L /\ n \in Nat /\ text \in Seq(Letters)
      /\ \A k \in 1..L : parts[k] \in Texts
  BY DEF Cut, Texts
<1>2. /\ \A k \in 0..L : ends[k] \in Nat
      /\ ends[0] = 0 /\ ends[L] = n + 1
      /\ \A k \in 1..L : /\ ends[k - 1] < ends[k] /\ ends[k] <= n + 1
                         /\ parts[k] = Between(text, ends[k - 1], ends[k] - 1)
      /\ \A k \in 1..L-1 : text[ends[k]] = at
  BY DEF Cut
<1>3. /\ DOMAIN nodes = 1..L /\ nodes = [k \in 1..L |-> nodes[k]]
      /\ \A k \in 1..L : nodes[k] = IF k = 1 THEN <<T(parts[k])>> ELSE <<sep, T(parts[k])>>
  BY <1>1 DEF Runs
<1> HIDE DEF L, n
<1>4. pos[0] = 0 /\ \A k \in 1..L : pos[k] = ends[k] - 1
  BY <1>1
<1> HIDE DEF pos
<1>5. \A k \in 1..L : ends[k] \in 1..n+1
  <2> SUFFICES ASSUME NEW k \in 1..L PROVE ends[k] \in 1..n+1
    OBVIOUS
  <2>1. k \in 0..L /\ k - 1 \in 0..L
    BY <1>1
  <2>2. ends[k - 1] \in Nat /\ ends[k] \in Nat /\ ends[k - 1] < ends[k] /\ ends[k] <= n + 1
    BY <1>2, <2>1
  <2> QED BY <1>1, <2>2
<1>6. \A k \in 0..L : pos[k] \in 0..n
  <2> SUFFICES ASSUME NEW k \in 0..L PROVE pos[k] \in 0..n
    OBVIOUS
  <2>1. CASE k = 0
    BY <1>1, <1>4, <2>1
  <2>2. CASE k # 0
    <3>1. k \in 1..L
      BY <1>1, <2>2
    <3> QED BY <1>1, <1>4, <1>5, <3>1
  <2> QED BY <2>1, <2>2
<1>7. ASSUME NEW k \in 1..L
      PROVE  /\ nodes[k] \in Seq(Nodes) /\ Inline(nodes[k])
             /\ pos[k - 1] <= pos[k] /\ VisibleText(nodes[k]) = Between(text, pos[k - 1], pos[k])
  <2> DEFINE part == parts[k]
             a == ends[k - 1]
             b == ends[k]
  <2>1. part \in Texts /\ k - 1 \in 0..L /\ k \in 0..L
    BY <1>1
  <2>2. a \in Nat /\ b \in Nat /\ a < b /\ b <= n + 1 /\ part = Between(text, a, b - 1) /\ pos[k] = b - 1
    BY <1>2, <1>4, <2>1
  <2>3. nodes[k] = IF k = 1 THEN <<T(part)>> ELSE <<sep, T(part)>>
    BY <1>3
  <2>4. nodes[k] \in Seq(Nodes) /\ Inline(nodes[k])
    <3> HIDE DEF part
    <3> QED BY <2>1, <2>3, RunSeen, RunWritten
  <2>5. CASE k = 1
    <3>1. pos[k - 1] = a /\ a = 0
      BY <1>2, <1>4, <2>5
    <3>2. VisibleText(<<T(part)>>) = part
      BY <2>1, RunSeen
    <3>3. a <= b - 1
      BY <2>2
    <3> QED BY <2>2, <2>3, <2>4, <2>5, <3>1, <3>2, <3>3
  <2>6. CASE k # 1
    <3>1. k - 1 \in 1..L /\ k - 1 \in 1..L-1
      BY <1>1, <2>6
    <3>2. pos[k - 1] = a - 1 /\ text[a] = at /\ a \in 1..n+1
      BY <1>2, <1>4, <1>5, <3>1
    <3> DEFINE z == a - 1
               y == b - 1
    <3>3. z \in Nat /\ y \in Nat /\ z + 1 <= y /\ y <= n /\ z + 1 = a /\ z <= y
      BY <1>1, <2>2, <3>2
    <3>4. VisibleText(<<sep, T(part)>>) = <<at>> \o part
      BY <2>1, RunSeen
    <3>5. part = Between(text, z + 1, y) /\ text[z + 1] = at
      BY <2>2, <3>2, <3>3
    <3> HIDE DEF z, y
    <3>6. <<text[z + 1]>> \o Between(text, z + 1, y) = Between(text, z, y)
      BY <1>1, <3>3, PartHead DEF n
    <3>7. pos[k - 1] = z /\ pos[k] = y
      BY <2>2, <3>2 DEF z, y
    <3> QED BY <2>3, <2>4, <2>6, <3>3, <3>4, <3>5, <3>6, <3>7
  <2> QED BY <2>5, <2>6
<1>8. nodes \in Seq(Seq(Nodes)) /\ Len(nodes) = L
  <2>1. nodes = [k \in 1..L |-> nodes[k]]
    BY <1>3
  <2>2. \A k \in 1..L : nodes[k] \in Seq(Nodes)
    BY <1>7
  <2> QED BY <1>1, <1>3, <2>1, <2>2
<1>9. \A k \in 1..Len(nodes) : Piece(text, nodes[k], pos[k - 1], pos[k], \E j \in 1..k-1 : ~Inline(nodes[j]))
  BY <1>7, <1>8 DEF Piece
<1>10. /\ FlattenSeq(nodes) \in Seq(Nodes)
       /\ VisibleText(FlattenSeq(nodes)) = Between(text, pos[0], pos[Len(nodes)])
       /\ Inline(FlattenSeq(nodes)) <=> \A k \in 1..Len(nodes) : Inline(nodes[k])
  <2>1. \A k \in 0..Len(nodes) : pos[k] \in 0..Len(text)
    BY <1>6, <1>8 DEF n
  <2> QED BY <1>8, <1>9, <2>1, Pieces
<1>11. pos[0] = 0 /\ pos[L] = n
  <2>1. L \in 1..L /\ (n + 1) - 1 = n
    BY <1>1
  <2> QED BY <1>2, <1>4, <2>1
<1>12. Between(text, 0, n) = text
  BY <1>1, WholePart DEF n
<1>13. \A k \in 1..Len(nodes) : Inline(nodes[k])
  BY <1>7, <1>8
<1> QED BY <1>8, <1>10, <1>11, <1>12, <1>13

\* Text in place of a run, with its tabs, shows the text.
LEMMA TextNodesShown ==
  ASSUME NEW text \in Texts
  PROVE  TextNodes(text) \in Seq(Nodes) /\ VisibleText(TextNodes(text)) = text /\ Inline(TextNodes(text))
<1> DEFINE parts == Split(text, Tab)
           nodes == [k \in DOMAIN parts |-> IF k = 1 THEN <<T(parts[k])>> ELSE <<TabNode, T(parts[k])>>]
<1>1. text \in Seq(Letters)
  BY DEF Texts
<1>2. parts \in Seq(Texts)
  BY <1>1, SplitCut DEF Texts
<1>3. PICK ends : Cut(text, Tab, parts, ends, Len(text))
  BY <1>1, SplitCut
<1>4. TextNodes(text) = FlattenSeq(nodes)
  BY DEF TextNodes
<1>5. TabNode \in Nodes /\ TabNode.kind # "p" /\ Seen(TabNode, FALSE) = <<Tab>>
  BY Basics DEF TabNode, Seen
<1> HIDE DEF parts
<1>6. FlattenSeq(nodes) \in Seq(Nodes) /\ VisibleText(FlattenSeq(nodes)) = text /\ Inline(FlattenSeq(nodes))
  <2> SUFFICES ASSUME NEW d, d = nodes
               PROVE  FlattenSeq(d) \in Seq(Nodes) /\ VisibleText(FlattenSeq(d)) = text /\ Inline(FlattenSeq(d))
    OBVIOUS
  <2>1. Runs(d, parts, TabNode)
    BY DEF Runs
  <2> HIDE DEF nodes
  <2> QED BY <1>2, <1>3, <1>5, <2>1, Separated
<1> HIDE DEF nodes
<1> QED BY <1>4, <1>6

\* Content that is written from nothing shows the text.
LEMMA FreshShown ==
  ASSUME NEW text \in Texts, NEW block \in BOOLEAN
  PROVE  Fresh(text, block) \in Seq(Nodes) /\ VisibleText(Fresh(text, block)) = text
<1> DEFINE parts == Lines(text)
           nodes == [k \in DOMAIN parts |-> IF k = 1 THEN <<T(parts[k])>> ELSE <<Br, T(parts[k])>>]
           start == IF block THEN <<P>> ELSE <<>>
           rest == FlattenSeq(nodes)
<1>1. text \in Seq(Letters)
  BY DEF Texts
<1>2. parts \in Seq(Texts)
  BY <1>1, SplitCut DEF Texts, Lines
<1>3. PICK ends : Cut(text, NewLine, parts, ends, Len(text))
  BY <1>1, SplitCut DEF Lines
<1>4. Fresh(text, block) = start \o rest
  BY DEF Fresh
<1>5. Br \in Nodes /\ Br.kind # "p" /\ Seen(Br, FALSE) = <<NewLine>>
  BY Basics DEF Br, Seen
<1> HIDE DEF parts
<1>6. rest \in Seq(Nodes) /\ VisibleText(rest) = text /\ Inline(rest)
  <2> SUFFICES ASSUME NEW d, d = nodes
               PROVE  FlattenSeq(d) \in Seq(Nodes) /\ VisibleText(FlattenSeq(d)) = text /\ Inline(FlattenSeq(d))
    OBVIOUS
  <2>1. Runs(d, parts, Br)
    BY DEF Runs
  <2> HIDE DEF nodes
  <2> QED BY <1>2, <1>3, <1>5, <2>1, Separated
<1>7. start \in Seq(Nodes) /\ VisibleText(start) = <<>>
  <2>1. P \in Nodes /\ Seen(P, FALSE) = <<>>
    BY Basics DEF P, Seen
  <2>2. VisibleText(<<P>>) = <<>> /\ VisibleText(<<>>) = <<>>
    BY <2>1, RunSeen
  <2>3. <<P>> \in Seq(Nodes) /\ <<>> \in Seq(Nodes)
    BY <2>1
  <2> QED BY <2>2, <2>3
<1> HIDE DEF start, rest, nodes
<1>8. VisibleText(start \o rest) = <<>> \o text
  BY <1>6, <1>7, VisibleJoin
<1>9. start \o rest \in Seq(Nodes)
  BY <1>6, <1>7, JoinAt
<1>10. <<>> \o text = text
  BY <1>1
<1> QED BY <1>4, <1>8, <1>9, <1>10

\* How much of a line has been given to the segments up to the n-th element.
Reach(nodes, segments, line, n) ==
  IF \A j \in segments : j > n THEN 0
  ELSE IF Widths(nodes, segments)[Len(nodes)] = 0 \/ \A j \in segments : j <= n THEN Len(line)
  ELSE Min({Len(line), Widths(nodes, segments)[n]})

\* A line that has something in it has a segment.
Held(segments, line) == segments = {} => line = <<>>

\* The line is given to its segments from its start to its end,
Reached(nodes, segments, line) ==
  /\ \A n \in 0..Len(nodes) : Reach(nodes, segments, line, n) \in 0..Len(line)
  /\ \A n \in 0..Len(nodes) : (\A j \in segments : j > n) => Reach(nodes, segments, line, n) = 0
  /\ \A n \in 0..Len(nodes) : (\A j \in segments : j <= n) => Reach(nodes, segments, line, n) = Len(line)

\* to nothing else, and to each of them the part between those of its neighbours.
Shared(nodes, segments, line) ==
  /\ \A n \in 1..Len(nodes) : n \notin segments =>
       Reach(nodes, segments, line, n - 1) = Reach(nodes, segments, line, n)
  /\ \A n \in segments :
       /\ Reach(nodes, segments, line, n - 1) <= Reach(nodes, segments, line, n)
       /\ Share(nodes, segments, n, line)
            = Between(line, Reach(nodes, segments, line, n - 1), Reach(nodes, segments, line, n))

\* Segments get adjacent parts of the line, from its start to its end.
LEMMA ShareReach ==
  ASSUME NEW nodes \in Seq(Nodes), NEW segments \in SUBSET (DOMAIN nodes), NEW line \in Texts,
         Held(segments, line)
  PROVE  Reached(nodes, segments, line) /\ Shared(nodes, segments, line)
<1> DEFINE width == Widths(nodes, segments)
           N == Len(nodes)
           M == Len(line)
           Cut2(n) == Min({M, width[n]})
           K(n) == Reach(nodes, segments, line, n)
<1>1. M \in Nat /\ N \in Nat /\ segments \in SUBSET (1..N) /\ segments \in SUBSET (0..N) /\ segments \in SUBSET Nat
      /\ line \in Seq(Letters)
  BY DEF Texts
<1>2. /\ \A n \in 0..N : width[n] \in Nat
      /\ \A p \in Nat \ {0} : \A n \in 0..N :
           (\A j \in segments : j \in 1..n => width[j] < p) => width[n] < p
  BY WidthsBelow
<1>3. \A n \in 1..N : width[n - 1] <= width[n] /\ (n \notin segments => width[n] = width[n - 1])
  <2>1. \A n \in 1..N : width[n - 1] \in Nat =>
              width[n] \in Nat /\ width[n - 1] <= width[n] /\ (n \notin segments => width[n] = width[n - 1])
    BY WidthsStep
  <2>2. \A n \in 1..N : n - 1 \in 0..N
    BY <1>1
  <2> HIDE DEF width
  <2> QED BY <1>2, <2>1, <2>2
<1>4. \A i : Share(nodes, segments, i, line) =
        IF width[N] = 0
        THEN IF i = Min(segments) THEN line ELSE <<>>
        ELSE SubSeq(line, Cut2(i - 1) + 1, IF i = Max(segments) THEN M ELSE Cut2(i))
  BY Zenon DEF Share
<1>5. \A n : K(n) = IF \A j \in segments : j > n THEN 0
                    ELSE IF width[N] = 0 \/ \A j \in segments : j <= n THEN M ELSE Cut2(n)
  BY Zenon DEF Reach
<1> HIDE DEF width, K, N, M
<1>6. \A n \in 0..N : Cut2(n) = IF M <= width[n] THEN M ELSE width[n]
  BY <1>1, <1>2, Lesser
<1> HIDE DEF Cut2
<1>7. \A n \in 0..N : Cut2(n) \in Nat /\ Cut2(n) <= M /\ (width[n] = 0 => Cut2(n) = 0)
  BY <1>1, <1>2, <1>6
<1>8. \A n \in 0..N : K(n) \in 0..M
  <2>1. 0 \in 0..M /\ M \in 0..M
    BY <1>1
  <2>2. ASSUME NEW n \in 0..N PROVE K(n) \in 0..M
    <3>1. Cut2(n) \in 0..M
      BY <1>1, <1>7
    <3>2. K(n) = 0 \/ K(n) = M \/ K(n) = Cut2(n)
      BY <1>5, Zenon
    <3> QED BY <2>1, <3>1, <3>2, Zenon
  <2> QED BY <2>2
<1>9. ASSUME NEW n \in 0..N, \A j \in segments : j > n PROVE K(n) = 0 /\ width[n] = 0
  <2>1. \A j \in segments : j \notin 1..n
    BY <1>1, <1>9
  <2>2. width[n] < 1
    BY <1>2, <2>1
  <2> QED BY <1>2, <1>5, <1>9, <2>2
<1>10. ASSUME NEW n \in 0..N, \A j \in segments : j <= n PROVE K(n) = M
  <2>1. CASE segments = {}
    <3>1. M = 0
      BY <2>1 DEF M, Held
    <3> QED BY <1>5, <2>1, <3>1
  <2>2. CASE segments # {}
    <3>1. PICK j \in segments : TRUE
      BY <2>2
    <3>2. ~(j > n)
      BY <1>1, <1>10, <3>1
    <3> QED BY <1>5, <1>10, <3>1, <3>2
  <2> QED BY <2>1, <2>2
<1>11. ASSUME NEW n \in 1..N, n \notin segments PROVE K(n - 1) = K(n)
  <2>1. \A j \in segments : (j > n - 1 <=> j > n) /\ (j <= n - 1 <=> j <= n)
    <3> SUFFICES ASSUME NEW j \in segments PROVE (j > n - 1 <=> j > n) /\ (j <= n - 1 <=> j <= n)
      OBVIOUS
    <3>1. j # n /\ j \in Nat
      BY <1>1, <1>11
    <3> QED BY <3>1
  <2>2. Cut2(n - 1) = Cut2(n)
    <3>1. n - 1 \in 0..N /\ n \in 0..N /\ width[n] = width[n - 1]
      BY <1>1, <1>3, <1>11
    <3> QED BY <1>6, <3>1
  <2> QED BY <1>5, <2>1, <2>2
<1>12. ASSUME NEW n \in segments
       PROVE  K(n - 1) <= K(n) /\ Share(nodes, segments, n, line) = Between(line, K(n - 1), K(n))
  <2>1. n \in 1..N /\ n - 1 \in 0..N /\ n \in 0..N /\ segments # {} /\ ~(n > n) /\ ~(n <= n - 1)
    BY <1>1, <1>12
  <2>2. K(n) = IF width[N] = 0 \/ \A j \in segments : j <= n THEN M ELSE Cut2(n)
    BY <1>5, <2>1
  <2>3. K(n - 1) = IF \A j \in segments : j > n - 1 THEN 0 ELSE IF width[N] = 0 THEN M ELSE Cut2(n - 1)
    BY <1>5, <2>1
  <2>4. \A k \in 0..M : Between(line, k, k) = <<>>
    BY <1>1, WholePart DEF M
  <2>5. Between(line, 0, M) = line
    BY <1>1, WholePart DEF M
  <2>6. CASE width[N] = 0
    <3>1. Min(segments) \in segments /\ \A m \in segments : Min(segments) <= m
      BY <1>1, <2>1, MinIn
    <3> DEFINE least == Min(segments)
    <3> HIDE DEF least
    <3>2. least \in segments /\ \A m \in segments : least <= m
      BY <3>1 DEF least
    <3>3. Share(nodes, segments, n, line) = IF n = least THEN line ELSE <<>>
      BY <1>4, <2>6 DEF least
    <3>4. CASE n = least
      <4>1. \A j \in segments : j > n - 1
        BY <1>1, <2>1, <3>2, <3>4
      <4>2. K(n - 1) = 0 /\ K(n) = M
        BY <2>2, <2>3, <2>6, <4>1
      <4> QED BY <1>1, <2>5, <3>3, <3>4, <4>2
    <3>5. CASE n # least
      <4>1. ~(least > n - 1)
        BY <1>1, <2>1, <3>2, <3>5
      <4>2. K(n - 1) = M /\ K(n) = M /\ M \in 0..M
        BY <1>1, <2>2, <2>3, <2>6, <3>2, <4>1
      <4> QED BY <1>1, <2>4, <3>3, <3>5, <4>2
    <3> QED BY <3>4, <3>5
  <2>7. CASE width[N] # 0
    <3>1. Max(segments) \in segments /\ \A m \in segments : Max(segments) >= m
      BY <1>1, <2>1, MaxIn
    <3> DEFINE most == Max(segments)
    <3> HIDE DEF most
    <3>2. most \in segments /\ \A m \in segments : most >= m
      BY <3>1 DEF most
    <3>3. Share(nodes, segments, n, line) = SubSeq(line, Cut2(n - 1) + 1, IF n = most THEN M ELSE Cut2(n))
      BY <1>4, <2>7 DEF most
    <3>4. K(n - 1) = Cut2(n - 1)
      <4>1. CASE \A j \in segments : j > n - 1
        <5>1. width[n - 1] = 0
          BY <1>9, <2>1, <4>1
        <5> QED BY <1>7, <2>1, <2>3, <4>1, <5>1
      <4>2. CASE ~(\A j \in segments : j > n - 1)
        BY <2>3, <2>7, <4>2
      <4> QED BY <4>1, <4>2
    <3>5. (\A j \in segments : j <= n) <=> n = most
      BY <1>1, <2>1, <3>2
    <3>6. K(n) = IF n = most THEN M ELSE Cut2(n)
      BY <2>2, <2>7, <3>5
    <3>7. K(n - 1) <= K(n)
      <4>1. Cut2(n - 1) <= Cut2(n) /\ Cut2(n - 1) <= M
        <5>1. width[n - 1] <= width[n] /\ width[n - 1] \in Nat /\ width[n] \in Nat
          BY <1>2, <1>3, <2>1
        <5> DEFINE x == width[n - 1]
                   y == width[n]
        <5>2. Cut2(n - 1) = (IF M <= x THEN M ELSE x) /\ Cut2(n) = IF M <= y THEN M ELSE y
          BY <1>6, <2>1
        <5>3. x <= y /\ x \in Nat /\ y \in Nat
          BY <5>1
        <5> HIDE DEF x, y
        <5>4. (IF M <= x THEN M ELSE x) <= (IF M <= y THEN M ELSE y) /\ (IF M <= x THEN M ELSE x) <= M
          BY <1>1, <5>3
        <5> QED BY <5>2, <5>4
      <4> QED BY <3>4, <3>6, <4>1
    <3>8. Share(nodes, segments, n, line) = SubSeq(line, K(n - 1) + 1, K(n))
      BY <3>3, <3>4, <3>6
    <3> QED BY <3>7, <3>8 DEF Between
  <2> QED BY <2>6, <2>7
<1> QED BY <1>8, <1>9, <1>10, <1>11, <1>12 DEF K, N, M, Reached, Shared

\* The line that the content has come to after the m-th element, counted from 0.
Line(nodes, m) == Count(nodes, m, "br") + Max({0, Count(nodes, m, "p") - 1})

\* The greater of a number and 0.
LEMMA NotBelow ==
  ASSUME NEW k \in Nat
  PROVE  Max({0, k - 1}) = IF k = 0 THEN 0 ELSE k - 1
<1>1. CASE k = 0
  <2> DEFINE x == k - 1
  <2>1. x = -1
    BY <1>1
  <2> HIDE DEF x
  <2>2. \A m \in {0, x} : m <= 0
    BY <2>1
  <2>3. Max({0, x}) = 0
    BY <2>1, <2>2 DEF Max
  <2> QED BY <1>1, <2>3 DEF x
<1>2. CASE k # 0
  <2> DEFINE x == k - 1
  <2>1. x \in Nat /\ {0, x} \in SUBSET (0..x)
    BY <1>2
  <2> HIDE DEF x
  <2>2. Max({0, x}) \in {0, x} /\ \A m \in {0, x} : Max({0, x}) >= m
    BY <2>1, MaxIn
  <2>3. Max({0, x}) = x
    BY <2>1, <2>2
  <2> QED BY <1>2, <2>3 DEF x
<1> QED BY <1>1, <1>2

\* What an element does to the line.
LineStep(nodes, m) ==
  /\ nodes[m].kind \in {"t", "tab"} =>
       LineOf(nodes, m) = Line(nodes, m - 1) /\ Line(nodes, m) = Line(nodes, m - 1)
  /\ nodes[m].kind = "br" =>
       LineOf(nodes, m) = Line(nodes, m - 1) /\ Line(nodes, m) = Line(nodes, m - 1) + 1
  /\ nodes[m].kind = "p" =>
       /\ LineOf(nodes, m) = Line(nodes, m)
       /\ (\A k \in 1..m-1 : nodes[k].kind # "p") => Line(nodes, m) = Line(nodes, m - 1)
       /\ (\E k \in 1..m-1 : nodes[k].kind = "p") => Line(nodes, m) = Line(nodes, m - 1) + 1

\* How lines go on, element by element.
LEMMA LineSteps ==
  ASSUME NEW nodes \in Seq(Nodes)
  PROVE  /\ Line(nodes, 0) = 0
         /\ \A m \in 0..Len(nodes) : Line(nodes, m) \in Nat
         /\ \A m \in 1..Len(nodes) : LineStep(nodes, m)
         /\ LineCount(nodes) = Line(nodes, Len(nodes)) + 1
<1> DEFINE N == Len(nodes)
           br(m) == Count(nodes, m, "br")
           p(m) == Count(nodes, m, "p")
           Top(k) == IF k = 0 THEN 0 ELSE k - 1
<1>1. N \in Nat /\ \A m \in 1..N : nodes[m] \in Nodes /\ nodes[m].kind \in {"p", "br", "tab", "t"}
  <2>1. N \in Nat /\ \A m \in 1..N : nodes[m] \in Nodes
    OBVIOUS
  <2> QED BY <2>1 DEF Nodes
<1>2. br(0) = 0 /\ p(0) = 0 /\ \A m \in Nat : br(m) \in Nat /\ p(m) \in Nat
  BY CountStep
<1>3. ASSUME NEW m \in 1..N
      PROVE  /\ br(m) = br(m - 1) + (IF nodes[m].kind = "br" THEN 1 ELSE 0)
             /\ p(m) = p(m - 1) + (IF nodes[m].kind = "p" THEN 1 ELSE 0)
             /\ p(m - 1) = 0 <=> \A k \in 1..m-1 : nodes[k].kind # "p"
  <2> DEFINE a == m - 1
  <2>1. a \in Nat /\ a + 1 = m
    BY <1>1
  <2> HIDE DEF a
  <2>2. /\ Count(nodes, a + 1, "br") = Count(nodes, a, "br") + (IF nodes[a + 1].kind = "br" THEN 1 ELSE 0)
        /\ Count(nodes, a + 1, "p") = Count(nodes, a, "p") + (IF nodes[a + 1].kind = "p" THEN 1 ELSE 0)
    BY <2>1, CountStep
  <2>3. Count(nodes, a, "p") = 0 <=> \A k \in 1..a : nodes[k].kind # "p"
    BY <2>1, CountNone
  <2> QED BY <2>1, <2>2, <2>3 DEF a
<1> HIDE DEF br, p
<1>4. ASSUME NEW m \in 0..N PROVE Line(nodes, m) = br(m) + Top(p(m))
  <2>1. p(m) \in Nat
    BY <1>1, <1>2
  <2>2. Max({0, p(m) - 1}) = Top(p(m))
    BY <2>1, NotBelow
  <2> QED BY <2>2 DEF Line, br, p
<1>5. ASSUME NEW m \in 1..N PROVE LineOf(nodes, m) = br(m - 1) + Top(p(m))
  <2>1. p(m) \in Nat
    BY <1>1, <1>2
  <2>2. Max({0, p(m) - 1}) = Top(p(m))
    BY <2>1, NotBelow
  <2> QED BY <2>2 DEF LineOf, ParagraphOf, br, p
<1>6. ASSUME NEW m \in 0..N PROVE Line(nodes, m) \in Nat
  <2>1. br(m) \in Nat /\ p(m) \in Nat
    BY <1>1, <1>2
  <2> QED BY <1>4, <2>1
<1>7. Line(nodes, 0) = 0
  BY <1>1, <1>2, <1>4
<1>8. ASSUME NEW m \in 1..N PROVE LineStep(nodes, m)
  <2> DEFINE a == m - 1
             b0 == br(a)
             p0 == p(a)
  <2>1. a \in 0..N /\ m \in 0..N /\ a \in Nat
    BY <1>1
  <2>2. b0 \in Nat /\ p0 \in Nat
    BY <1>2, <2>1
  <2>3. Line(nodes, a) = b0 + Top(p0) /\ Line(nodes, m) = br(m) + Top(p(m)) /\ LineOf(nodes, m) = b0 + Top(p(m))
    BY <1>4, <1>5, <2>1
  <2>4. /\ br(m) = b0 + (IF nodes[m].kind = "br" THEN 1 ELSE 0)
        /\ p(m) = p0 + (IF nodes[m].kind = "p" THEN 1 ELSE 0)
        /\ p0 = 0 <=> \A k \in 1..a : nodes[k].kind # "p"
    BY <1>3
  <2> HIDE DEF a, b0, p0
  <2>5. CASE nodes[m].kind \in {"t", "tab"}
    BY <2>2, <2>3, <2>4, <2>5 DEF a, LineStep
  <2>6. CASE nodes[m].kind = "br"
    BY <2>2, <2>3, <2>4, <2>6 DEF a, LineStep
  <2>7. CASE nodes[m].kind = "p"
    <3>1. br(m) = b0 /\ p(m) = p0 + 1
      BY <2>2, <2>4, <2>7
    <3>2. Line(nodes, m) = b0 + p0 /\ LineOf(nodes, m) = b0 + p0
      BY <2>2, <2>3, <3>1
    <3>3. (\A k \in 1..a : nodes[k].kind # "p") => Line(nodes, m) = Line(nodes, a)
      BY <2>2, <2>3, <2>4, <3>2
    <3>4. (\E k \in 1..a : nodes[k].kind = "p") => Line(nodes, m) = Line(nodes, a) + 1
      BY <2>2, <2>3, <2>4, <3>2
    <3> QED BY <2>7, <3>2, <3>3, <3>4 DEF a, LineStep
  <2>8. nodes[m].kind \in {"p", "br", "tab", "t"}
    BY <1>1
  <2> QED BY <2>5, <2>6, <2>7, <2>8
<1>9. LineCount(nodes) = Line(nodes, N) + 1
  <2>1. CASE nodes = <<>>
    <3>1. N = 0
      BY <2>1
    <3> QED BY <1>7, <2>1, <3>1 DEF LineCount
  <2>2. CASE nodes # <<>>
    <3> DEFINE more == Append(nodes, T(<<>>))
    <3>1. T(<<>>) \in Nodes /\ T(<<>>).kind = "t"
      BY Basics
    <3>2. /\ more \in Seq(Nodes) /\ Len(more) = N + 1 /\ (\A i \in 1..N : more[i] = nodes[i]) /\ more[N + 1] = T(<<>>)
      BY <3>1, AppendAt
    <3> HIDE DEF more
    <3>3. \A kind : {i \in 1..N : more[i].kind = kind} = {i \in 1..N : nodes[i].kind = kind}
      BY <3>2
    <3>4. Count(more, N, "br") = br(N) /\ Count(more, N, "p") = p(N)
      BY <3>3 DEF Count, br, p
    <3>5. Count(more, N + 1, "p") = Count(more, N, "p") + (IF more[N + 1].kind = "p" THEN 1 ELSE 0)
      BY <1>1, CountStep
    <3>6. Count(more, N + 1, "p") = p(N) /\ p(N) \in Nat
      <4>1. more[N + 1].kind # "p" /\ p(N) \in Nat
        BY <1>1, <1>2, <3>1, <3>2
      <4> QED BY <3>4, <3>5, <4>1
    <3>7. (N + 1) - 1 = N
      BY <1>1
    <3>8. LineOf(more, N + 1) = br(N) + Max({0, p(N) - 1})
      BY <3>4, <3>6, <3>7 DEF LineOf, ParagraphOf
    <3>9. LineOf(more, N + 1) = Line(nodes, N)
      BY <3>8 DEF Line, br, p
    <3> QED BY <2>2, <3>9 DEF LineCount, more
  <2> QED BY <2>1, <2>2
<1> HIDE DEF N
<1>10. \A m \in 0..N : Line(nodes, m) \in Nat
  BY <1>6
<1>11. \A m \in 1..N : LineStep(nodes, m)
  BY <1>8
<1> QED BY <1>7, <1>9, <1>10, <1>11 DEF N

\* Lines follow one another.
LEMMA LinesOrdered ==
  ASSUME NEW nodes \in Seq(Nodes)
  PROVE  /\ \A a \in 0..Len(nodes) : \A b \in 0..Len(nodes) : a <= b => Line(nodes, a) <= Line(nodes, b)
         /\ \A m \in 1..Len(nodes) : /\ LineOf(nodes, m) \in Nat
                                     /\ Line(nodes, m - 1) <= LineOf(nodes, m) /\ LineOf(nodes, m) <= Line(nodes, m)
<1> DEFINE N == Len(nodes)
           l(m) == Line(nodes, m)
<1>1. N \in Nat /\ \A m \in 1..N : nodes[m].kind \in {"p", "br", "tab", "t"}
  <2>1. N \in Nat /\ \A m \in 1..N : nodes[m] \in Nodes
    OBVIOUS
  <2> QED BY <2>1 DEF Nodes
<1>2. \A m \in 0..N : l(m) \in Nat
  BY LineSteps
<1>3. ASSUME NEW m \in 1..N
      PROVE  l(m - 1) <= l(m) /\ l(m - 1) <= LineOf(nodes, m) /\ LineOf(nodes, m) <= l(m) /\ LineOf(nodes, m) \in Nat
  <2>1. l(m - 1) \in Nat /\ l(m) \in Nat
    BY <1>1, <1>2
  <2>2. CASE nodes[m].kind \in {"t", "tab"}
    BY <2>1, <2>2, LineSteps DEF LineStep
  <2>3. CASE nodes[m].kind = "br"
    <3>1. LineOf(nodes, m) = l(m - 1) /\ l(m) = l(m - 1) + 1
      BY <2>3, LineSteps DEF LineStep
    <3> HIDE DEF l
    <3> QED BY <2>1, <3>1
  <2>4. CASE nodes[m].kind = "p"
    <3>1. LineOf(nodes, m) = l(m) /\ (l(m) = l(m - 1) \/ l(m) = l(m - 1) + 1)
      BY <2>4, LineSteps DEF LineStep
    <3> HIDE DEF l
    <3> QED BY <2>1, <3>1
  <2> QED BY <1>1, <2>2, <2>3, <2>4
<1> HIDE DEF l
<1>4. ASSUME NEW a \in 0..N PROVE \A b \in 0..N : a <= b => l(a) <= l(b)
  <2> DEFINE Bad == {b \in Nat : b \in 0..N /\ a <= b /\ ~(l(a) <= l(b))}
  <2>1. 0 \notin Bad
    <3>1. a <= 0 => a = 0
      BY <1>1
    <3> QED BY <1>1, <1>2, <3>1
  <2>2. ASSUME NEW b \in Nat, b \notin Bad PROVE b + 1 \notin Bad
    <3> SUFFICES ASSUME b + 1 \in 0..N, a <= b + 1 PROVE l(a) <= l(b + 1)
      OBVIOUS
    <3>1. CASE a = b + 1
      BY <1>2, <3>1
    <3>2. CASE a # b + 1
      <4>1. a <= b /\ b \in 0..N /\ b + 1 \in 1..N /\ (b + 1) - 1 = b
        BY <1>1, <3>2
      <4>2. l(a) <= l(b) /\ l(b) <= l(b + 1)
        BY <1>3, <2>2, <4>1
      <4>3. l(a) \in Nat /\ l(b) \in Nat /\ l(b + 1) \in Nat
        BY <1>2, <4>1
      <4> QED BY <4>2, <4>3
    <3> QED BY <3>1, <3>2
  <2>3. Bad \in SUBSET Nat
    OBVIOUS
  <2> HIDE DEF Bad
  <2>4. Bad = {}
    BY <2>1, <2>2, <2>3, Induction
  <2> QED BY <1>1, <2>4 DEF Bad
<1> QED BY <1>3, <1>4 DEF l

\* Of two places the later one has no fewer paragraphs before it, and more if a paragraph starts in between.
LEMMA CountOrdered ==
  ASSUME NEW nodes \in Seq(Nodes), NEW a \in Nat, NEW b \in Nat, a < b, nodes[b].kind = "p"
  PROVE  Count(nodes, a, "p") < Count(nodes, b, "p")
<1> DEFINE S(n) == {k \in 1..n : nodes[k].kind = "p"}
<1>1. \A n \in Nat : IsFiniteSet(S(n)) /\ Cardinality(S(n)) \in Nat
  <2> SUFFICES ASSUME NEW n \in Nat PROVE IsFiniteSet(S(n)) /\ Cardinality(S(n)) \in Nat
    OBVIOUS
  <2>1. IsFiniteSet(1..n)
    <3>1. 1 \in Int /\ n \in Int
      OBVIOUS
    <3> QED BY <3>1, FS_Interval
  <2>2. IsFiniteSet(S(n))
    <3>1. S(n) \subseteq 1..n
      OBVIOUS
    <3> QED BY <2>1, <3>1, FS_Subset
  <2> QED BY <2>2, FS_CardinalityType
<1>2. S(a) \subseteq S(b) /\ b \in S(b) /\ b \notin S(a)
  OBVIOUS
<1>3. Count(nodes, a, "p") = Cardinality(S(a)) /\ Count(nodes, b, "p") = Cardinality(S(b))
  BY DEF Count
<1> HIDE DEF S
<1>4. Cardinality(S(a)) <= Cardinality(S(b)) /\ (Cardinality(S(a)) = Cardinality(S(b)) => S(a) = S(b))
  BY <1>1, <1>2, FS_Subset
<1>5. Cardinality(S(a)) # Cardinality(S(b))
  BY <1>2, <1>4
<1> QED BY <1>1, <1>3, <1>4, <1>5

\* Elements on a line of the new text stay, and paragraphs that start on another do not.
LEMMA KeptParagraphs ==
  ASSUME NEW nodes \in Seq(Nodes), NEW lines, Len(lines) \in Nat, NEW i \in 1..Len(nodes)
  PROVE  /\ LineOf(nodes, i) < Len(lines) => ParagraphOf(nodes, i) \notin Removed(nodes, lines)
         /\ nodes[i].kind = "p" /\ LineOf(nodes, i) >= Len(lines) => ParagraphOf(nodes, i) \in Removed(nodes, lines)
<1> DEFINE N == Len(nodes)
<1>1. N \in Nat /\ i \in 1..N /\ DOMAIN nodes = 1..N
  OBVIOUS
<1>2. nodes[i].kind = "p" /\ LineOf(nodes, i) >= Len(lines) => ParagraphOf(nodes, i) \in Removed(nodes, lines)
  BY <1>1, Zenon DEF Removed
<1>3. ASSUME LineOf(nodes, i) < Len(lines), ParagraphOf(nodes, i) \in Removed(nodes, lines) PROVE FALSE
  <2>1. PICK j \in 1..N : /\ nodes[j].kind = "p" /\ LineOf(nodes, j) >= Len(lines)
                          /\ ParagraphOf(nodes, i) = ParagraphOf(nodes, j)
    <3>1. Removed(nodes, lines)
            = {ParagraphOf(nodes, j) : j \in {k \in DOMAIN nodes : nodes[k].kind = "p" /\ LineOf(nodes, k) >= Len(lines)}}
      BY DEF Removed
    <3>2. PICK j \in {k \in DOMAIN nodes : nodes[k].kind = "p" /\ LineOf(nodes, k) >= Len(lines)} :
            ParagraphOf(nodes, i) = ParagraphOf(nodes, j)
      BY <1>3, <3>1, Zenon
    <3> QED BY <1>1, <3>2
  <2>2. Count(nodes, i, "p") = Count(nodes, j, "p") /\ Count(nodes, i, "p") \in Nat
    <3>1. Count(nodes, i, "p") \in Nat /\ Count(nodes, j, "p") \in Nat
      <4>1. i \in Nat /\ j \in Nat
        BY <1>1, <2>1
      <4> QED BY <4>1, CountStep
    <3> QED BY <2>1, <3>1 DEF ParagraphOf
  <2>3. LineOf(nodes, i) \in Nat /\ LineOf(nodes, j) \in Nat
    BY LinesOrdered
  <2>4. CASE i < j
    <3>1. Count(nodes, i, "p") < Count(nodes, j, "p")
      BY <1>1, <2>1, <2>4, CountOrdered
    <3> QED BY <2>2, <3>1
  <2>5. CASE i = j
    BY <1>3, <2>1, <2>3, <2>5
  <2>6. CASE j < i
    <3>1. j \in 0..N /\ i - 1 \in 0..N /\ j <= i - 1
      BY <1>1, <2>6
    <3>2. LineOf(nodes, j) <= Line(nodes, j) /\ Line(nodes, j) <= Line(nodes, i - 1)
          /\ Line(nodes, i - 1) <= LineOf(nodes, i)
      BY <3>1, LinesOrdered
    <3>3. Line(nodes, j) \in Nat /\ Line(nodes, i - 1) \in Nat
      BY <3>1, LineSteps
    <3> HIDE DEF N
    <3> QED BY <1>3, <2>1, <2>3, <3>2, <3>3
  <2> QED BY <1>1, <2>4, <2>5, <2>6
<1> QED BY <1>2, <1>3

\* Where the segments of a line are.
LEMMA SegmentsOfLine ==
  ASSUME NEW nodes \in Seq(Nodes), NEW lines, Len(lines) \in Nat, NEW l \in Nat
  PROVE  /\ Segments(nodes, lines, l) \in SUBSET (DOMAIN nodes)
         /\ \A j \in Segments(nodes, lines, l) : nodes[j].kind \in {"t", "tab"} /\ LineOf(nodes, j) = l
         /\ \A m \in 0..Len(nodes) : Line(nodes, m) < l => \A j \in Segments(nodes, lines, l) : j > m
         /\ \A m \in 0..Len(nodes) : l < Line(nodes, m) => \A j \in Segments(nodes, lines, l) : j <= m
         /\ \A m \in 1..Len(nodes) :
              nodes[m].kind \in {"t", "tab"} /\ ParagraphOf(nodes, m) \notin Removed(nodes, lines) /\ LineOf(nodes, m) = l
                => m \in Segments(nodes, lines, l)
<1> DEFINE S == Segments(nodes, lines, l)
           N == Len(nodes)
<1>1. N \in Nat /\ DOMAIN nodes = 1..N
  OBVIOUS
<1>2. S \in SUBSET (DOMAIN nodes) /\ \A j \in S : nodes[j].kind \in {"t", "tab"} /\ LineOf(nodes, j) = l
  BY DEF Segments
<1>3. \A m \in 1..N : nodes[m].kind \in {"t", "tab"} /\ ParagraphOf(nodes, m) \notin Removed(nodes, lines)
                      /\ LineOf(nodes, m) = l => m \in S
  BY DEF Segments
<1> HIDE DEF S
<1>4. ASSUME NEW j \in S, NEW m \in 0..N PROVE (Line(nodes, m) < l => j > m) /\ (l < Line(nodes, m) => j <= m)
  <2>1. j \in 1..N /\ nodes[j].kind \in {"t", "tab"} /\ LineOf(nodes, j) = l
    BY <1>1, <1>2
  <2>2. Line(nodes, j - 1) = l /\ Line(nodes, j) = l
    BY <2>1, LineSteps DEF LineStep
  <2>3. j \in 0..N /\ j - 1 \in 0..N /\ Line(nodes, m) \in Nat
    BY <1>1, <2>1, LineSteps
  <2>4. (j <= m => Line(nodes, j) <= Line(nodes, m)) /\ (m <= j - 1 => Line(nodes, m) <= Line(nodes, j - 1))
    BY <2>3, LinesOrdered
  <2> HIDE DEF N
  <2> QED BY <1>1, <2>1, <2>2, <2>3, <2>4
<1> QED BY <1>1, <1>2, <1>3, <1>4 DEF S

\* The content has a run wherever the new text needs one.
Fitted(nodes, text, lines, ends) ==
  /\ Cut(text, NewLine, lines, ends, Len(text))
  /\ \A l \in 0..Len(lines)-1 : l < LineCount(nodes) /\ Segments(nodes, lines, l) = {} => lines[l + 1] = <<>>
  /\ Len(lines) > LineCount(nodes) => LastSegment(nodes, lines) # 0

\* All of the text is in the elements up to the m-th.
AllPlaced(nodes, lines, m) ==
  \/ Line(nodes, m) >= Len(lines)
  \/ Len(lines) > LineCount(nodes) /\ LastSegment(nodes, lines) <= m

\* How much of the text is in the elements up to the m-th.
Place(nodes, text, lines, ends, m) ==
  IF AllPlaced(nodes, lines, m) THEN Len(text)
  ELSE ends[Line(nodes, m)]
         + Reach(nodes, Segments(nodes, lines, Line(nodes, m)), lines[Line(nodes, m) + 1], m)

\* Where the lines of a text are in it.
LEMMA LinePlaces ==
  ASSUME NEW text \in Texts, NEW lines \in Seq(Texts), NEW ends, Cut(text, NewLine, lines, ends, Len(text))
  PROVE  /\ Len(lines) \in Nat \ {0} /\ ends[0] = 0 /\ ends[Len(lines)] = Len(text) + 1
         /\ \A l \in 0..Len(lines)-1 :
              /\ ends[l] \in Nat /\ ends[l + 1] \in Nat /\ lines[l + 1] \in Texts
              /\ ends[l] + Len(lines[l + 1]) = ends[l + 1] - 1 /\ ends[l + 1] - 1 <= Len(text)
              /\ lines[l + 1] = Between(text, ends[l], ends[l + 1] - 1)
              /\ l + 1 < Len(lines) => text[ends[l + 1]] = NewLine /\ ends[l + 1] <= Len(text)
<1> DEFINE L == Len(lines)
           n == Len(text)
<1>1. L \in Nat \ {0} /\ n \in Nat /\ text \in Seq(Letters) /\ \A k \in 1..L : lines[k] \in Texts
  BY DEF Texts, Cut
<1>2. /\ \A k \in 0..L : ends[k] \in Nat
      /\ ends[0] = 0 /\ ends[L] = n + 1
      /\ \A k \in 1..L : /\ ends[k - 1] < ends[k] /\ ends[k] <= n + 1
                         /\ lines[k] = Between(text, ends[k - 1], ends[k] - 1)
      /\ \A k \in 1..L-1 : text[ends[k]] = NewLine
  BY DEF Cut
<1> HIDE DEF L
<1>3. ASSUME NEW l \in 0..L-1
      PROVE  /\ ends[l] \in Nat /\ ends[l + 1] \in Nat /\ lines[l + 1] \in Texts
             /\ ends[l] + Len(lines[l + 1]) = ends[l + 1] - 1 /\ ends[l + 1] - 1 <= n
             /\ lines[l + 1] = Between(text, ends[l], ends[l + 1] - 1)
             /\ l + 1 < L => text[ends[l + 1]] = NewLine /\ ends[l + 1] <= n
  <2> DEFINE k == l + 1
             a == ends[l]
             b == ends[k] - 1
  <2>1. k \in 1..L /\ l \in 0..L /\ k \in 0..L /\ k - 1 = l
    BY <1>1
  <2>2. a \in Nat /\ ends[k] \in Nat /\ a < ends[k] /\ ends[k] <= n + 1 /\ lines[k] = Between(text, a, b)
    BY <1>2, <2>1
  <2>3. a <= b /\ b <= n /\ b \in Nat
    BY <1>1, <2>2
  <2>4. Len(Between(text, a, b)) = b - a
    <3> HIDE DEF a, b
    <3> QED BY <1>1, <2>2, <2>3, PartOf DEF n
  <2>5. k < L => text[ends[k]] = NewLine /\ ends[k] <= n
    <3> SUFFICES ASSUME k < L PROVE text[ends[k]] = NewLine /\ ends[k] <= n
      OBVIOUS
    <3>1. k \in 1..L-1 /\ k + 1 \in 1..L /\ k + 1 \in 0..L /\ (k + 1) - 1 = k
      BY <1>1, <2>1
    <3>2. text[ends[k]] = NewLine /\ ends[k] < ends[k + 1] /\ ends[k + 1] <= n + 1 /\ ends[k + 1] \in Nat
      BY <1>2, <3>1
    <3> QED BY <1>1, <2>2, <3>2
  <2>6. a + (b - a) = b
    BY <2>2, <2>3
  <2>7. lines[k] \in Texts
    BY <1>1, <2>1
  <2> QED BY <1>1, <2>2, <2>3, <2>4, <2>5, <2>6, <2>7
<1> QED BY <1>1, <1>2, <1>3 DEF L, n

\* The segment that lines beyond those of the content follow is the last one of the last line.
LEMMA LastIsLast ==
  ASSUME NEW nodes \in Seq(Nodes), NEW lines, Len(lines) \in Nat, LastSegment(nodes, lines) # 0
  PROVE  /\ LastSegment(nodes, lines) \in 1..Len(nodes)
         /\ LastSegment(nodes, lines) \in Segments(nodes, lines, LineCount(nodes) - 1)
         /\ \A j \in Segments(nodes, lines, LineCount(nodes) - 1) : j <= LastSegment(nodes, lines)
         /\ LineCount(nodes) - 1 \in Nat
         /\ Line(nodes, LastSegment(nodes, lines)) = LineCount(nodes) - 1
<1> DEFINE l == LineCount(nodes) - 1
           S == Segments(nodes, lines, l)
           N == Len(nodes)
<1>1. N \in Nat /\ DOMAIN nodes = 1..N
  OBVIOUS
<1>2. l = Line(nodes, N) /\ l \in Nat
  <2>1. Line(nodes, N) \in Nat /\ LineCount(nodes) = Line(nodes, N) + 1
    <3>1. N \in 0..N
      BY <1>1
    <3> QED BY <3>1, LineSteps
  <2> QED BY <2>1
<1> HIDE DEF l
<1>3. LastSegment(nodes, lines) = IF S = {} THEN 0 ELSE Max(S)
  BY Zenon DEF LastSegment, l
<1>4. S # {} /\ LastSegment(nodes, lines) = Max(S)
  BY <1>3
<1>5. S \in SUBSET (DOMAIN nodes) /\ \A j \in S : nodes[j].kind \in {"t", "tab"} /\ LineOf(nodes, j) = l
  BY <1>2, SegmentsOfLine
<1> HIDE DEF S
<1>6. S \in SUBSET (0..N) /\ S \in SUBSET (1..N)
  BY <1>1, <1>5
<1>7. Max(S) \in S /\ \A j \in S : Max(S) >= j
  BY <1>1, <1>4, <1>6, MaxIn
<1> DEFINE last == LastSegment(nodes, lines)
<1>8. last \in S /\ \A j \in S : last >= j
  BY <1>4, <1>7
<1> HIDE DEF last
<1>9. last \in 1..N /\ \A j \in S : j <= last
  BY <1>6, <1>8
<1>10. Line(nodes, last) = l
  BY <1>5, <1>8, <1>9, LineSteps DEF LineStep
<1> QED BY <1>2, <1>8, <1>9, <1>10 DEF last, S, l, N

\* How much of a line is given to the segments up to an element.
LEMMA ReachRange ==
  ASSUME NEW nodes \in Seq(Nodes), NEW segments \in SUBSET (DOMAIN nodes), NEW line \in Texts,
         Held(segments, line), NEW k \in 0..Len(nodes)
  PROVE  /\ Reach(nodes, segments, line, k) \in 0..Len(line)
         /\ (\A j \in segments : j > k) => Reach(nodes, segments, line, k) = 0
         /\ (\A j \in segments : j <= k) => Reach(nodes, segments, line, k) = Len(line)
BY ShareReach DEF Reached

\* The text is placed from its start to its end.
LEMMA PlacesRange ==
  ASSUME NEW nodes \in Seq(Nodes), NEW text \in Texts, NEW lines \in Seq(Texts), NEW ends,
         Fitted(nodes, text, lines, ends)
  PROVE  /\ \A m \in 0..Len(nodes) : Place(nodes, text, lines, ends, m) \in 0..Len(text)
         /\ \A m \in 0..Len(nodes) : ~AllPlaced(nodes, lines, m) =>
              /\ Line(nodes, m) < Len(lines)
              /\ (\A j \in Segments(nodes, lines, Line(nodes, m)) : j <= m)
                   => Place(nodes, text, lines, ends, m) = ends[Line(nodes, m) + 1] - 1
              /\ (\A j \in Segments(nodes, lines, Line(nodes, m)) : j > m)
                   => Place(nodes, text, lines, ends, m) = ends[Line(nodes, m)]
         /\ Place(nodes, text, lines, ends, 0) = 0
         /\ Place(nodes, text, lines, ends, Len(nodes)) = Len(text)
<1> DEFINE N == Len(nodes)
           L == Len(lines)
           n == Len(text)
           C == LineCount(nodes)
           last == LastSegment(nodes, lines)
           At(m) == Place(nodes, text, lines, ends, m)
           S(l) == Segments(nodes, lines, l)
           R(m) == Reach(nodes, S(Line(nodes, m)), lines[Line(nodes, m) + 1], m)
<1>1. N \in Nat /\ n \in Nat
  BY DEF Texts
<1>2. /\ Cut(text, NewLine, lines, ends, n)
      /\ \A l \in 0..L-1 : l < C /\ S(l) = {} => lines[l + 1] = <<>>
      /\ L > C => last # 0
  BY DEF Fitted
<1>3. /\ L \in Nat \ {0} /\ ends[0] = 0 /\ ends[L] = n + 1
      /\ \A l \in 0..L-1 : /\ ends[l] \in Nat /\ ends[l + 1] \in Nat /\ lines[l + 1] \in Texts
                           /\ ends[l] + Len(lines[l + 1]) = ends[l + 1] - 1 /\ ends[l + 1] - 1 <= n
  BY <1>2, LinePlaces
<1>4. /\ \A m \in 0..N : Line(nodes, m) \in Nat
      /\ C = Line(nodes, N) + 1 /\ Line(nodes, 0) = 0
  BY LineSteps
<1>5. \A m \in 0..N : Line(nodes, m) < C
  <2> SUFFICES ASSUME NEW m \in 0..N PROVE Line(nodes, m) < C
    OBVIOUS
  <2>1. N \in 0..N /\ m <= N
    BY <1>1
  <2>2. Line(nodes, m) <= Line(nodes, N) /\ Line(nodes, m) \in Nat /\ Line(nodes, N) \in Nat
    BY <1>4, <2>1, LinesOrdered
  <2> QED BY <1>4, <2>2
<1>6. \A m \in 0..N : AllPlaced(nodes, lines, m) => At(m) = n
  BY DEF Place
<1>7. \A m \in 0..N : ~AllPlaced(nodes, lines, m) => Line(nodes, m) < L /\ At(m) = ends[Line(nodes, m)] + R(m)
  <2> SUFFICES ASSUME NEW m \in 0..N, ~AllPlaced(nodes, lines, m)
               PROVE  Line(nodes, m) < L /\ At(m) = ends[Line(nodes, m)] + R(m)
    OBVIOUS
  <2>1. ~(Line(nodes, m) >= L)
    BY DEF AllPlaced
  <2>2. At(m) = ends[Line(nodes, m)] + R(m)
    BY Zenon DEF Place
  <2> QED BY <1>3, <1>4, <2>1, <2>2
<1>8. \A m \in 0..N : AllPlaced(nodes, lines, m) <=> Line(nodes, m) >= L \/ (L > C /\ last <= m)
  BY DEF AllPlaced
<1> HIDE DEF S, At
<1>9. ASSUME NEW m \in 0..N, ~AllPlaced(nodes, lines, m)
      PROVE  /\ At(m) \in 0..n
             /\ (\A j \in S(Line(nodes, m)) : j <= m) => At(m) = ends[Line(nodes, m) + 1] - 1
             /\ (\A j \in S(Line(nodes, m)) : j > m) => At(m) = ends[Line(nodes, m)]
  <2> DEFINE l == Line(nodes, m)
             line == lines[l + 1]
             r == R(m)
  <2>1. l \in 0..L-1 /\ l < C
    BY <1>3, <1>4, <1>5, <1>7, <1>9
  <2>2. line \in Texts /\ (S(l) = {} => line = <<>>) /\ S(l) \in SUBSET (DOMAIN nodes)
    <3>1. S(l) \in SUBSET (DOMAIN nodes)
      <4>1. l \in Nat /\ L \in Nat
        BY <1>3, <2>1
      <4> HIDE DEF l
      <4> QED BY <4>1, SegmentsOfLine DEF S, L
    <3> QED BY <1>2, <1>3, <2>1, <3>1
  <2>3. At(m) = ends[l] + r
    BY <1>7, <1>9
  <2>4. r = Reach(nodes, S(l), line, m)
    OBVIOUS
  <2> HIDE DEF r, line, l, N
  <2>5. /\ r \in 0..Len(line)
        /\ (\A j \in S(l) : j > m) => r = 0
        /\ (\A j \in S(l) : j <= m) => r = Len(line)
    <3> DEFINE s == S(l)
    <3>1. s \in SUBSET (DOMAIN nodes) /\ (s = {} => line = <<>>) /\ line \in Texts /\ m \in 0..Len(nodes)
      BY <2>2 DEF N
    <3>2. r = Reach(nodes, s, line, m)
      BY <2>4
    <3> HIDE DEF s
    <3>3. /\ r \in 0..Len(line)
          /\ (\A j \in s : j > m) => r = 0
          /\ (\A j \in s : j <= m) => r = Len(line)
      <4>1. nodes \in Seq(Nodes) /\ s \in SUBSET (DOMAIN nodes) /\ Held(s, line) /\ line \in Texts
        BY <3>1 DEF Held
      <4> QED BY <3>1, <3>2, <4>1, ReachRange
    <3> QED BY <3>3 DEF s
  <2>6. ends[l] \in Nat /\ ends[l + 1] \in Nat /\ ends[l] + Len(line) = ends[l + 1] - 1 /\ ends[l + 1] - 1 <= n /\ Len(line) \in Nat
    <3>1. Len(line) \in Nat
      BY <2>2 DEF Texts
    <3> QED BY <1>3, <2>1, <3>1 DEF line
  <2> HIDE DEF R, n, L, C
  <2> DEFINE e == ends[l]
             k == Len(line)
  <2>7. e \in Nat /\ k \in Nat /\ r \in 0..k /\ e + k <= n /\ n \in Nat
    BY <1>1, <2>5, <2>6
  <2>8. e + r \in 0..n
    <3> HIDE DEF e, k
    <3> QED BY <2>7
  <2>9. (\A j \in S(l) : j <= m) => At(m) = ends[l + 1] - 1
    BY <2>3, <2>5, <2>6
  <2>10. (\A j \in S(l) : j > m) => At(m) = ends[l]
    BY <2>3, <2>5, <2>6
  <2> QED BY <2>3, <2>8, <2>9, <2>10 DEF l
<1>10. \A m \in 0..N : At(m) \in 0..n
  <2> SUFFICES ASSUME NEW m \in 0..N PROVE At(m) \in 0..n
    OBVIOUS
  <2>1. CASE AllPlaced(nodes, lines, m)
    <3>1. At(m) = n
      BY <1>6, <2>1
    <3> QED BY <1>1, <3>1
  <2>2. CASE ~AllPlaced(nodes, lines, m)
    BY <1>9, <2>2
  <2> QED BY <2>1, <2>2
<1>11. At(0) = 0
  <2>1. 0 \in 0..N /\ Line(nodes, 0) = 0
    BY <1>1, <1>4
  <2>2. ~AllPlaced(nodes, lines, 0)
    <3>1. ~(0 >= L)
      BY <1>3
    <3>2. L > C => last \in 1..N
      BY <1>2, <1>3, LastIsLast
    <3>3. L > C => ~(last <= 0)
      BY <1>1, <3>2
    <3> QED BY <1>8, <2>1, <3>1, <3>3
  <2>3. \A j \in S(Line(nodes, 0)) : j > 0
    <3>1. S(0) \in SUBSET (DOMAIN nodes)
      <4>1. 0 \in Nat /\ Len(lines) \in Nat
        BY <1>3
      <4> QED BY <4>1, SegmentsOfLine DEF S
    <3>2. DOMAIN nodes = 1..N
      OBVIOUS
    <3> QED BY <1>1, <2>1, <3>1, <3>2
  <2>4. At(0) = ends[Line(nodes, 0)]
    BY <1>9, <2>1, <2>2, <2>3
  <2> QED BY <1>3, <2>1, <2>4
<1>12. At(N) = n
  <2>1. N \in 0..N /\ Line(nodes, N) \in Nat
    BY <1>1, <1>4
  <2>2. CASE AllPlaced(nodes, lines, N)
    BY <1>6, <2>1, <2>2
  <2>3. CASE ~AllPlaced(nodes, lines, N)
    <3>1. Line(nodes, N) < L
      BY <1>7, <2>1, <2>3
    <3>2. ~(L > C)
      <4> SUFFICES ASSUME L > C PROVE FALSE
        OBVIOUS
      <4>1. last \in 1..N
        BY <1>2, <1>3, LastIsLast
      <4>2. last <= N
        BY <1>1, <4>1
      <4> QED BY <1>8, <2>1, <2>3, <4>2
    <3>3. Line(nodes, N) + 1 = L
      BY <1>3, <1>4, <2>1, <3>1, <3>2
    <3>4. \A j \in S(Line(nodes, N)) : j <= N
      <4>1. S(Line(nodes, N)) \in SUBSET (DOMAIN nodes)
        <5>1. Line(nodes, N) \in Nat /\ Len(lines) \in Nat
          BY <1>3, <2>1
        <5> QED BY <5>1, SegmentsOfLine DEF S
      <4>2. DOMAIN nodes = 1..N
        OBVIOUS
      <4> QED BY <1>1, <4>1, <4>2
    <3>5. At(N) = ends[Line(nodes, N) + 1] - 1
      BY <1>9, <2>1, <2>3, <3>4
    <3> HIDE DEF L, N, n
    <3>6. ends[Line(nodes, N) + 1] = n + 1
      BY <1>3, <3>3
    <3> QED BY <1>1, <3>5, <3>6
  <2> QED BY <2>2, <2>3
<1>13. \A m \in 0..N : ~AllPlaced(nodes, lines, m) =>
         /\ Line(nodes, m) < L
         /\ (\A j \in S(Line(nodes, m)) : j <= m) => At(m) = ends[Line(nodes, m) + 1] - 1
         /\ (\A j \in S(Line(nodes, m)) : j > m) => At(m) = ends[Line(nodes, m)]
  BY <1>7, <1>9
<1> QED BY <1>10, <1>11, <1>12, <1>13 DEF At, S, N, n, L

\* A break and the line after it show that part of the text.
LEMMA BreakAndLine ==
  ASSUME NEW text \in Texts, NEW a \in Nat, NEW b \in Nat, a + 1 <= b, b <= Len(text), text[a + 1] = NewLine,
         NEW line \in Texts, line = Between(text, a + 1, b)
  PROVE  LET nodes == <<Br>> \o TextNodes(line)
         IN  nodes \in Seq(Nodes) /\ Inline(nodes) /\ VisibleText(nodes) = Between(text, a, b)
<1> DEFINE rest == TextNodes(line)
<1>1. rest \in Seq(Nodes) /\ VisibleText(rest) = line /\ Inline(rest)
  BY TextNodesShown
<1>2. Br \in Nodes /\ Br.kind # "p" /\ Seen(Br, FALSE) = <<NewLine>>
  BY Basics DEF Br, Seen
<1>3. <<Br>> \in Seq(Nodes) /\ VisibleText(<<Br>>) = <<NewLine>> /\ Inline(<<Br>>)
  <2>1. <<>> \in Texts
    BY Basics
  <2>2. VisibleText(<<Br>>) = Seen(Br, FALSE) /\ Inline(<<Br>>)
    BY <1>2, <2>1, RunSeen
  <2>3. \A e \in Nodes : <<e>> \in Seq(Nodes)
    OBVIOUS
  <2> QED BY <1>2, <2>2, <2>3, Zenon
<1> HIDE DEF rest
<1> DEFINE one == <<Br>>
<1> HIDE DEF one
<1>4. /\ VisibleText(one \o rest) = VisibleText(one) \o VisibleText(rest)
      /\ Inline(one \o rest) <=> Inline(one)
  BY <1>1, <1>3, VisibleJoin DEF one
<1>5. one \o rest \in Seq(Nodes)
  BY <1>1, <1>3, JoinAt DEF one
<1>6. <<NewLine>> \o line = Between(text, a, b)
  <2>1. text \in Seq(Letters)
    BY DEF Texts
  <2>2. <<text[a + 1]>> \o Between(text, a + 1, b) = Between(text, a, b)
    BY <2>1, PartHead
  <2> QED BY <2>2
<1> QED BY <1>1, <1>3, <1>4, <1>5, <1>6 DEF rest, one

\* Lines beyond those of the content show what the content has no line for.
LEMMA AppendedShown ==
  ASSUME NEW nodes \in Seq(Nodes), NEW text \in Texts, NEW lines \in Seq(Texts), NEW ends,
         Cut(text, NewLine, lines, ends, Len(text)), LineCount(nodes) < Len(lines)
  PROVE  LET more == Appended(nodes, lines, LastSegment(nodes, lines))
         IN  /\ more \in Seq(Nodes) /\ Inline(more)
             /\ ends[LineCount(nodes)] \in 1..Len(text)
             /\ VisibleText(more) = Between(text, ends[LineCount(nodes)] - 1, Len(text))
<1> DEFINE C == LineCount(nodes)
           L == Len(lines)
           D == L - C
           n == Len(text)
           parts == [k \in 1..D |-> <<Br>> \o TextNodes(lines[C + k])]
           pos == [k \in 0..D |-> ends[C + k] - 1]
           more == Appended(nodes, lines, LastSegment(nodes, lines))
<1>1. C \in Nat \ {0} /\ L \in Nat /\ n \in Nat
  BY LineCountType DEF Texts
<1>2. D \in Nat \ {0} /\ C + D = L
  BY <1>1
<1>3. /\ L \in Nat \ {0} /\ ends[0] = 0 /\ ends[L] = n + 1
      /\ \A l \in 0..L-1 :
           /\ ends[l] \in Nat /\ ends[l + 1] \in Nat /\ lines[l + 1] \in Texts
           /\ ends[l] + Len(lines[l + 1]) = ends[l + 1] - 1 /\ ends[l + 1] - 1 <= n
           /\ lines[l + 1] = Between(text, ends[l], ends[l + 1] - 1)
           /\ l + 1 < L => text[ends[l + 1]] = NewLine /\ ends[l + 1] <= n
  BY LinePlaces
<1>4. more = FlattenSeq(parts)
  BY <1>1 DEF Appended
<1> HIDE DEF C, L, n, more
<1>5. \A l \in 1..L-1 : text[ends[l]] = NewLine /\ ends[l] \in 1..n
  <2> SUFFICES ASSUME NEW l \in 1..L-1 PROVE text[ends[l]] = NewLine /\ ends[l] \in 1..n
    OBVIOUS
  <2> DEFINE k == l - 1
             w == Len(lines[l])
  <2>1. k \in 0..L-1 /\ k + 1 = l /\ l < L
    BY <1>3
  <2>2. /\ text[ends[l]] = NewLine /\ ends[l] <= n /\ ends[l] \in Nat /\ ends[k] \in Nat
        /\ ends[k] + w = ends[l] - 1 /\ lines[l] \in Texts
    BY <1>3, <2>1
  <2>3. w \in Nat
    BY <2>2 DEF Texts
  <2> HIDE DEF k, w
  <2> QED BY <1>1, <2>2, <2>3
<1>6. \A k \in 0..D : pos[k] \in 0..n
  <2> SUFFICES ASSUME NEW k \in 0..D PROVE pos[k] \in 0..n
    OBVIOUS
  <2>1. CASE C + k = L
    <3>1. ends[C + k] = n + 1 /\ (n + 1) - 1 = n
      <4>1. ends[L] = n + 1
        BY <1>3
      <4>2. ends[C + k] = ends[L]
        BY <2>1
      <4> QED BY <1>1, <4>1, <4>2
    <3> QED BY <1>1, <3>1
  <2>2. CASE C + k # L
    <3>1. C + k \in 1..L-1
      BY <1>1, <1>2, <2>2
    <3>2. ends[C + k] \in 1..n
      BY <1>5, <3>1
    <3> QED BY <1>1, <3>2
  <2> QED BY <2>1, <2>2
<1>7. ASSUME NEW k \in 1..D
      PROVE  /\ parts[k] \in Seq(Nodes) /\ Inline(parts[k])
             /\ pos[k - 1] <= pos[k] /\ VisibleText(parts[k]) = Between(text, pos[k - 1], pos[k])
  <2> DEFINE l == (C + k) - 1
             a == ends[l] - 1
             b == ends[l + 1] - 1
             line == lines[l + 1]
             w == Len(line)
  <2>1. l \in 1..L-1 /\ l \in 0..L-1 /\ l + 1 = C + k /\ C + (k - 1) = l /\ k - 1 \in 0..D /\ k \in 0..D
    BY <1>1, <1>2
  <2>2. pos[k - 1] = a /\ pos[k] = b /\ parts[k] = <<Br>> \o TextNodes(line)
    BY <2>1
  <2>3. /\ ends[l] \in Nat /\ ends[l + 1] \in Nat /\ line \in Texts
        /\ ends[l] + w = ends[l + 1] - 1 /\ ends[l + 1] - 1 <= n
        /\ line = Between(text, ends[l], ends[l + 1] - 1)
    BY <1>3, <2>1
  <2>4. text[ends[l]] = NewLine /\ ends[l] \in 1..n
    BY <1>5, <2>1
  <2>5. w \in Nat
    BY <2>3 DEF Texts
  <2> HIDE DEF l, w, line
  <2>6. a \in Nat /\ a + 1 = ends[l] /\ b \in Nat /\ a + 1 <= b /\ b <= n /\ a <= b
    BY <1>1, <2>3, <2>4, <2>5
  <2>7. text[a + 1] = NewLine /\ line = Between(text, a + 1, b)
    BY <2>3, <2>4, <2>6
  <2> HIDE DEF a, b, parts, pos
  <2>8. LET new == <<Br>> \o TextNodes(line)
        IN  new \in Seq(Nodes) /\ Inline(new) /\ VisibleText(new) = Between(text, a, b)
    BY <2>3, <2>6, <2>7, BreakAndLine DEF n
  <2> QED BY <2>2, <2>6, <2>8
<1>8. parts \in Seq(Seq(Nodes)) /\ Len(parts) = D
  <2>1. \A k \in 1..D : parts[k] \in Seq(Nodes)
    BY <1>7
  <2> HIDE DEF D
  <2>2. \A k \in 1..D : <<Br>> \o TextNodes(lines[C + k]) \in Seq(Nodes)
    BY <2>1
  <2> QED BY <1>2, <2>2
<1>9. pos[0] = ends[C] - 1 /\ pos[D] = n /\ ends[C] \in 1..n
  <2>1. C + 0 = C /\ 0 \in 0..D /\ D \in 0..D /\ C \in 1..L-1
    BY <1>1, <1>2
  <2>2. pos[0] = ends[C] - 1 /\ pos[D] = ends[L] - 1 /\ ends[L] - 1 = n
    BY <1>1, <1>2, <1>3, <2>1
  <2> QED BY <1>5, <2>1, <2>2
<1> HIDE DEF parts, pos, D
<1>10. \A k \in 1..Len(parts) : Piece(text, parts[k], pos[k - 1], pos[k], \E j \in 1..k-1 : ~Inline(parts[j]))
  BY <1>7, <1>8 DEF Piece
<1>11. /\ FlattenSeq(parts) \in Seq(Nodes)
       /\ VisibleText(FlattenSeq(parts)) = Between(text, pos[0], pos[Len(parts)])
       /\ Inline(FlattenSeq(parts)) <=> \A k \in 1..Len(parts) : Inline(parts[k])
  <2>1. \A k \in 0..Len(parts) : pos[k] \in 0..Len(text)
    BY <1>6, <1>8 DEF n
  <2> QED BY <1>8, <1>10, <2>1, Pieces
<1>12. \A k \in 1..Len(parts) : Inline(parts[k])
  BY <1>7, <1>8
<1> QED BY <1>4, <1>8, <1>9, <1>11, <1>12 DEF more, C, n

\* Where one line of the content ends and the next one starts, the text goes on by a line break, or has ended.
LEMMA LineEnded ==
  ASSUME NEW nodes \in Seq(Nodes), NEW text \in Texts, NEW lines \in Seq(Texts), NEW ends,
         Fitted(nodes, text, lines, ends), NEW m \in 1..Len(nodes),
         nodes[m].kind \in {"br", "p"}, Line(nodes, m) = Line(nodes, m - 1) + 1
  PROVE  /\ Line(nodes, m) >= Len(lines) => /\ Place(nodes, text, lines, ends, m - 1) = Len(text)
                                            /\ Place(nodes, text, lines, ends, m) = Len(text)
         /\ Line(nodes, m) < Len(lines) =>
              /\ Place(nodes, text, lines, ends, m) \in 1..Len(text)
              /\ Place(nodes, text, lines, ends, m - 1) = Place(nodes, text, lines, ends, m) - 1
              /\ text[Place(nodes, text, lines, ends, m)] = NewLine
<1> DEFINE N == Len(nodes)
           L == Len(lines)
           n == Len(text)
           C == LineCount(nodes)
           last == LastSegment(nodes, lines)
           At(k) == Place(nodes, text, lines, ends, k)
           S(l) == Segments(nodes, lines, l)
           b == m - 1
           l == Line(nodes, b)
<1>1. N \in Nat /\ n \in Nat /\ b \in 0..N /\ m \in 0..N /\ m \in Nat /\ b = m - 1 /\ N \in 0..N /\ m <= N
  BY DEF Texts
<1>2. Cut(text, NewLine, lines, ends, n) /\ (L > C => last # 0)
  BY DEF Fitted
<1>3. /\ L \in Nat \ {0} /\ ends[L] = n + 1
      /\ \A k \in 0..L-1 : /\ ends[k + 1] \in Nat /\ ends[k + 1] - 1 <= n
                           /\ k + 1 < L => text[ends[k + 1]] = NewLine /\ ends[k + 1] <= n
  BY <1>2, LinePlaces
<1>4. l \in Nat /\ Line(nodes, m) = l + 1 /\ C = Line(nodes, N) + 1 /\ Line(nodes, N) \in Nat
  BY <1>1, LineSteps
<1>5. l + 1 < C
  <2>1. Line(nodes, m) <= Line(nodes, N)
    BY <1>1, LinesOrdered
  <2> QED BY <1>4, <2>1
<1>6. \A j \in S(l) : j <= b
  <2> SUFFICES ASSUME NEW j \in S(l) PROVE j <= b
    OBVIOUS
  <2>1. S(l) \in SUBSET (DOMAIN nodes) /\ nodes[j].kind \in {"t", "tab"} /\ (l < Line(nodes, m) => j <= m)
    <3>1. l \in Nat /\ Len(lines) \in Nat /\ m \in 0..Len(nodes)
      BY <1>1, <1>3, <1>4
    <3> HIDE DEF l
    <3> QED BY <3>1, SegmentsOfLine
  <2>2. j \in Nat /\ j # m
    <3>1. DOMAIN nodes = 1..N
      OBVIOUS
    <3> QED BY <1>1, <2>1, <3>1
  <2> HIDE DEF S, l
  <2> QED BY <1>1, <1>4, <2>1, <2>2
<1>7. L > C => last > m
  <2> SUFFICES ASSUME L > C PROVE last > m
    OBVIOUS
  <2>1. last \in 1..N /\ last \in S(C - 1) /\ C - 1 \in Nat
    BY <1>2, <1>3, LastIsLast
  <2>2. nodes[last].kind \in {"t", "tab"} /\ (l < C - 1 => last > b)
    <3> DEFINE k == C - 1
    <3>1. k \in Nat /\ Len(lines) \in Nat /\ b \in 0..Len(nodes) /\ last \in S(k)
      BY <1>1, <1>3, <2>1
    <3> HIDE DEF k, b, last
    <3>2. nodes[last].kind \in {"t", "tab"} /\ (Line(nodes, b) < k => last > b)
      BY <3>1, SegmentsOfLine
    <3> QED BY <3>2 DEF k
  <2>3. last # m
    BY <2>2
  <2> HIDE DEF last, l, C, N
  <2>4. last > b
    BY <1>4, <1>5, <2>1, <2>2
  <2> QED BY <1>1, <2>1, <2>3, <2>4
<1>8. /\ \A k \in 0..N : AllPlaced(nodes, lines, k) => At(k) = n
      /\ \A k \in 0..N : AllPlaced(nodes, lines, k) <=> Line(nodes, k) >= L \/ (L > C /\ last <= k)
  BY DEF Place, AllPlaced
<1>9. \A k \in 0..N : ~AllPlaced(nodes, lines, k) =>
        /\ (\A j \in S(Line(nodes, k)) : j <= k) => At(k) = ends[Line(nodes, k) + 1] - 1
        /\ (\A j \in S(Line(nodes, k)) : j > k) => At(k) = ends[Line(nodes, k)]
  BY PlacesRange
<1> HIDE DEF At, S, L, C, n, last
<1>10. CASE l + 1 >= L
  <2>1. At(m) = n
    BY <1>1, <1>4, <1>8, <1>10
  <2>2. CASE l >= L
    BY <1>1, <1>4, <1>8, <1>10, <2>1, <2>2 DEF At, n, L
  <2>3. CASE ~(l >= L)
    <3>1. l + 1 = L
      BY <1>3, <1>4, <1>10, <2>3
    <3>2. ~(L > C)
      <4>1. C \in Nat
        BY <1>4
      <4> QED BY <1>3, <1>5, <3>1, <4>1
    <3>3. ~AllPlaced(nodes, lines, b)
      BY <1>1, <1>8, <2>3, <3>2
    <3>4. At(b) = ends[l + 1] - 1
      BY <1>1, <1>6, <1>9, <3>3
    <3>5. At(b) = n
      BY <1>1, <1>3, <3>1, <3>4
    <3> QED BY <1>1, <1>4, <1>10, <2>1, <3>5 DEF At, n, L
  <2> QED BY <2>2, <2>3
<1>11. CASE ~(l + 1 >= L)
  <2>1. l + 1 < L /\ l \in 0..L-1 /\ ~(l >= L) /\ ~(Line(nodes, m) >= L) /\ Line(nodes, m) < L
    BY <1>3, <1>4, <1>11
  <2>2. L > C => last > m /\ last > b /\ ~(last <= m) /\ ~(last <= b)
    <3> SUFFICES ASSUME L > C PROVE last > m /\ last > b /\ ~(last <= m) /\ ~(last <= b)
      OBVIOUS
    <3>1. last \in 1..N
      BY <1>2, <1>3, LastIsLast DEF last, L
    <3>2. last > m /\ last \in Nat
      BY <1>1, <1>7, <3>1
    <3> QED BY <1>1, <3>2
  <2>3. ~AllPlaced(nodes, lines, b) /\ ~AllPlaced(nodes, lines, m)
    BY <1>1, <1>8, <2>1, <2>2
  <2>4. At(b) = ends[l + 1] - 1
    BY <1>1, <1>6, <1>9, <2>3
  <2>5. \A j \in S(l + 1) : j > m
    <3> SUFFICES ASSUME NEW j \in S(l + 1) PROVE j > m
      OBVIOUS
    <3> DEFINE k == l + 1
    <3>1. k \in Nat /\ Len(lines) \in Nat /\ b \in 0..Len(nodes) /\ j \in Segments(nodes, lines, k)
      BY <1>1, <1>3, <1>4 DEF S, L
    <3> HIDE DEF k, b
    <3>2. /\ nodes[j].kind \in {"t", "tab"} /\ (Line(nodes, b) < k => j > b)
          /\ Segments(nodes, lines, k) \in SUBSET (DOMAIN nodes)
      BY <3>1, SegmentsOfLine
    <3>3. j \in Nat /\ j # m
      <4>1. DOMAIN nodes = 1..N
        OBVIOUS
      <4> QED BY <1>1, <3>1, <3>2, <4>1
    <3>4. Line(nodes, b) < k
      BY <1>4 DEF k
    <3> QED BY <1>1, <3>2, <3>3, <3>4
  <2>6. At(m) = ends[l + 1]
    BY <1>1, <1>4, <1>9, <2>3, <2>5
  <2>7. text[ends[l + 1]] = NewLine /\ ends[l + 1] <= n /\ ends[l + 1] \in Nat
    BY <1>3, <2>1
  <2>8. At(b) \in 0..n
    BY <1>1, PlacesRange DEF At, n
  <2>9. At(m) \in 1..n /\ At(b) = At(m) - 1 /\ text[At(m)] = NewLine
    <3> DEFINE e == ends[l + 1]
    <3>1. e \in Nat /\ e <= n /\ e - 1 \in 0..n
      BY <2>4, <2>7, <2>8
    <3> HIDE DEF e
    <3>2. e \in 1..n
      BY <1>1, <3>1
    <3> QED BY <2>4, <2>6, <2>7, <3>2 DEF e
  <2> QED BY <2>1, <2>9 DEF At, n, L
<1> QED BY <1>10, <1>11

\* The first paragraph of the content does not move the text.
LEMMA LineStarted ==
  ASSUME NEW nodes \in Seq(Nodes), NEW text \in Texts, NEW lines \in Seq(Texts), NEW ends,
         Fitted(nodes, text, lines, ends), NEW m \in 1..Len(nodes),
         nodes[m].kind = "p", Line(nodes, m) = Line(nodes, m - 1)
  PROVE  Place(nodes, text, lines, ends, m - 1) = Place(nodes, text, lines, ends, m)
<1> DEFINE N == Len(nodes)
           L == Len(lines)
           C == LineCount(nodes)
           last == LastSegment(nodes, lines)
           b == m - 1
           l == Line(nodes, m)
           s == Segments(nodes, lines, l)
           line == lines[l + 1]
<1>1. N \in Nat /\ b \in 0..N /\ m \in 0..N /\ m \in Nat /\ b = m - 1 /\ m <= N /\ N \in 0..N
  OBVIOUS
<1>2. /\ Cut(text, NewLine, lines, ends, Len(text)) /\ (L > C => last # 0)
      /\ \A k \in 0..L-1 : k < C /\ Segments(nodes, lines, k) = {} => lines[k + 1] = <<>>
  BY DEF Fitted
<1>3. /\ L \in Nat \ {0}
      /\ \A k \in 0..L-1 : lines[k + 1] \in Texts
  BY <1>2, LinePlaces
<1>4. l \in Nat /\ Line(nodes, b) = l /\ C = Line(nodes, N) + 1 /\ Line(nodes, N) \in Nat
  BY <1>1, LineSteps
<1>5. l < C
  <2>1. Line(nodes, m) <= Line(nodes, N)
    BY <1>1, LinesOrdered
  <2> QED BY <1>4, <2>1
<1> HIDE DEF l
<1>6. s \in SUBSET (DOMAIN nodes) /\ m \notin s
  <2>1. s \in SUBSET (DOMAIN nodes) /\ \A j \in s : nodes[j].kind \in {"t", "tab"}
    BY <1>3, <1>4, SegmentsOfLine
  <2> QED BY <2>1
<1>7. L > C => last \in 1..N /\ last # m
  <2> SUFFICES ASSUME L > C PROVE last \in 1..N /\ last # m
    OBVIOUS
  <2>1. last \in 1..N /\ last \in Segments(nodes, lines, C - 1) /\ C - 1 \in Nat
    BY <1>2, <1>3, LastIsLast
  <2> DEFINE k == C - 1
  <2>2. k \in Nat /\ Len(lines) \in Nat /\ last \in Segments(nodes, lines, k)
    BY <1>3, <2>1
  <2> HIDE DEF k, last
  <2>3. nodes[last].kind \in {"t", "tab"}
    BY <2>2, SegmentsOfLine
  <2> QED BY <2>1, <2>3
<1>8. AllPlaced(nodes, lines, b) <=> AllPlaced(nodes, lines, m)
  <2>1. /\ AllPlaced(nodes, lines, b) <=> l >= L \/ (L > C /\ last <= b)
        /\ AllPlaced(nodes, lines, m) <=> l >= L \/ (L > C /\ last <= m)
    BY <1>4 DEF AllPlaced, l
  <2>2. L > C => (last <= b <=> last <= m)
    <3> HIDE DEF last
    <3> QED BY <1>1, <1>7
  <2> QED BY <2>1, <2>2
<1>9. CASE AllPlaced(nodes, lines, m)
  BY <1>8, <1>9 DEF Place
<1>10. CASE ~AllPlaced(nodes, lines, m)
  <2>1. l \in 0..L-1
    <3>1. l < L
      BY <1>1, <1>10, PlacesRange DEF l
    <3> QED BY <1>3, <1>4, <3>1
  <2>2. line \in Texts /\ Held(s, line)
    BY <1>2, <1>3, <1>5, <2>1 DEF Held
  <2> HIDE DEF s, line
  <2>3. Reach(nodes, s, line, m - 1) = Reach(nodes, s, line, m)
    BY <1>6, <2>2, ShareReach DEF Shared
  <2>4. /\ Place(nodes, text, lines, ends, b) = ends[l] + Reach(nodes, s, line, b)
        /\ Place(nodes, text, lines, ends, m) = ends[l] + Reach(nodes, s, line, m)
    BY <1>4, <1>8, <1>10 DEF Place, s, line, l
  <2> QED BY <2>3, <2>4
<1> QED BY <1>9, <1>10

\* A run or a tab gets the text from where the elements before it have brought it, and any lines that are left.
LEMMA RunPlaced ==
  ASSUME NEW nodes \in Seq(Nodes), NEW text \in Texts, NEW lines \in Seq(Texts), NEW ends,
         Fitted(nodes, text, lines, ends), NEW m \in 1..Len(nodes),
         nodes[m].kind \in {"t", "tab"}, ParagraphOf(nodes, m) \notin Removed(nodes, lines)
  PROVE  /\ Assigned(nodes, lines, m) \in Texts
         /\ Appended(nodes, lines, m) \in Seq(Nodes) /\ Inline(Appended(nodes, lines, m))
         /\ Place(nodes, text, lines, ends, m - 1) <= Place(nodes, text, lines, ends, m)
         /\ Assigned(nodes, lines, m) \o VisibleText(Appended(nodes, lines, m))
              = Between(text, Place(nodes, text, lines, ends, m - 1), Place(nodes, text, lines, ends, m))
<1> DEFINE N == Len(nodes)
           L == Len(lines)
           C == LineCount(nodes)
           n == Len(text)
           last == LastSegment(nodes, lines)
           b == m - 1
           l == Line(nodes, m)
           s == Segments(nodes, lines, l)
           own == Assigned(nodes, lines, m)
           more == Appended(nodes, lines, m)
           At(k) == Place(nodes, text, lines, ends, k)
<1>1. N \in Nat /\ n \in Nat /\ b \in 0..N /\ m \in 0..N /\ m \in Nat /\ b = m - 1 /\ m <= N /\ N \in 0..N
      /\ text \in Seq(Letters)
  BY DEF Texts
<1>2. /\ Cut(text, NewLine, lines, ends, n) /\ (L > C => last # 0)
      /\ \A k \in 0..L-1 : k < C /\ Segments(nodes, lines, k) = {} => lines[k + 1] = <<>>
  BY DEF Fitted
<1>3. /\ L \in Nat \ {0}
      /\ \A k \in 0..L-1 :
           /\ ends[k] \in Nat /\ ends[k + 1] \in Nat /\ lines[k + 1] \in Texts
           /\ ends[k] + Len(lines[k + 1]) = ends[k + 1] - 1 /\ ends[k + 1] - 1 <= n
           /\ lines[k + 1] = Between(text, ends[k], ends[k + 1] - 1)
  BY <1>2, LinePlaces
<1>4. /\ l \in Nat /\ Line(nodes, b) = l /\ LineOf(nodes, m) = l
      /\ C = Line(nodes, N) + 1 /\ Line(nodes, N) \in Nat
  BY <1>1, LineSteps DEF LineStep
<1>5. l < C /\ C \in Nat
  <2>1. Line(nodes, m) <= Line(nodes, N)
    BY <1>1, LinesOrdered
  <2> QED BY <1>4, <2>1
<1>6. own = Share(nodes, s, m, IF l < L THEN lines[l + 1] ELSE <<>>)
  BY <1>4 DEF Assigned
<1> HIDE DEF l, own
<1>7. s \in SUBSET (DOMAIN nodes) /\ m \in s
  BY <1>3, <1>4, SegmentsOfLine
<1>8. /\ \A k \in 0..N : AllPlaced(nodes, lines, k) => At(k) = n
      /\ \A k \in 0..N : ~AllPlaced(nodes, lines, k) =>
           At(k) = ends[Line(nodes, k)]
                     + Reach(nodes, Segments(nodes, lines, Line(nodes, k)), lines[Line(nodes, k) + 1], k)
      /\ \A k \in 0..N : AllPlaced(nodes, lines, k) <=> Line(nodes, k) >= L \/ (L > C /\ last <= k)
  BY DEF Place, AllPlaced
<1>9. ~(L > C /\ m = last) => more = <<>> /\ more \in Seq(Nodes) /\ VisibleText(more) = <<>> /\ Inline(more)
  <2> SUFFICES ASSUME ~(L > C /\ m = last)
               PROVE  more = <<>> /\ more \in Seq(Nodes) /\ VisibleText(more) = <<>> /\ Inline(more)
    OBVIOUS
  <2>1. more = <<>>
    BY DEF Appended
  <2>2. VisibleText(<<>>) = <<>> /\ Inline(<<>>)
    BY Basics, RunSeen
  <2>3. <<>> \in Seq(Nodes)
    OBVIOUS
  <2> QED BY <2>1, <2>2, <2>3
<1>10. CASE l >= L
  <2>1. ~(L > C)
    BY <1>3, <1>4, <1>5, <1>10
  <2>2. own = Share(nodes, s, m, <<>>)
    BY <1>3, <1>4, <1>6, <1>10
  <2>3. own = <<>>
    <3> DEFINE a == Reach(nodes, s, <<>>, m - 1)
               e == Reach(nodes, s, <<>>, m)
    <3> HIDE DEF s
    <3>1. <<>> \in Texts /\ Held(s, <<>>)
      BY Basics DEF Held
    <3>2. Reached(nodes, s, <<>>) /\ Shared(nodes, s, <<>>)
      BY <1>7, <3>1, ShareReach
    <3>3. Len(<<>>) = 0
      OBVIOUS
    <3>4. a \in 0..0 /\ e \in 0..0
      BY <1>1, <3>2, <3>3 DEF Reached
    <3>5. Share(nodes, s, m, <<>>) = Between(<<>>, a, e)
      BY <1>7, <3>2 DEF Shared
    <3> HIDE DEF a, e
    <3>6. a = 0 /\ e = 0
      BY <3>4
    <3>7. Between(<<>>, 0, 0) = <<>>
      <4>1. <<>> \in Seq(Letters) /\ 0 \in 0..Len(<<>>)
        OBVIOUS
      <4> QED BY <4>1, WholePart
    <3> QED BY <2>2, <3>5, <3>6, <3>7
  <2>4. At(b) = n /\ At(m) = n
    BY <1>1, <1>4, <1>8, <1>10 DEF l
  <2>5. Between(text, n, n) = <<>>
    BY <1>1, WholePart
  <2>6. <<>> \o <<>> = <<>> /\ <<>> \in Texts
    BY Basics
  <2> HIDE DEF At, more
  <2>7. own \o VisibleText(more) = Between(text, At(b), At(m))
    BY <1>9, <2>1, <2>3, <2>4, <2>5, <2>6
  <2> QED BY <1>1, <1>9, <2>1, <2>3, <2>4, <2>6, <2>7 DEF own, At, more
<1>11. CASE ~(l >= L)
  <2> DEFINE line == lines[l + 1]
             w == Len(line)
             x == ends[l]
             z == ends[l + 1] - 1
             p == Reach(nodes, s, line, b)
             q == Reach(nodes, s, line, m)
  <2>1. l < L /\ l \in 0..L-1
    BY <1>3, <1>4, <1>11
  <2>2. /\ x \in Nat /\ z <= n /\ line \in Texts /\ x + w = z /\ line = Between(text, x, z)
        /\ own = Share(nodes, s, m, line)
    BY <1>3, <1>6, <2>1
  <2>3. Held(s, line)
    BY <1>2, <1>5, <2>1 DEF Held
  <2>4. w \in Nat
    BY <2>2 DEF Texts
  <2> HIDE DEF line, s, x
  <2>5. Reached(nodes, s, line) /\ Shared(nodes, s, line)
    BY <1>7, <2>2, <2>3, ShareReach
  <2>6. /\ p \in 0..w /\ q \in 0..w /\ p <= q /\ own = Between(line, p, q)
        /\ (\A j \in s : j <= m) => q = w
    BY <1>1, <1>7, <2>2, <2>5 DEF Reached, Shared
  <2> HIDE DEF p, q, w, z
  <2>7. x <= z /\ z \in Nat /\ w = z - x
    BY <2>2, <2>4
  <2>8. own = Between(text, x + p, x + q) /\ own \in Texts
    <3>1. p \in Nat /\ q \in Nat /\ q <= z - x
      BY <2>4, <2>6, <2>7
    <3>2. Between(Between(text, x, z), p, q) = Between(text, x + p, x + q)
      BY <1>1, <2>2, <2>6, <2>7, <3>1, PartOfPart DEF n
    <3>3. line \in Seq(Letters) /\ q <= Len(line)
      BY <2>2, <2>4, <2>6 DEF Texts, w
    <3>4. Between(line, p, q) \in Seq(Letters)
      BY <2>6, <3>1, <3>3, PartOf
    <3> QED BY <2>2, <2>6, <3>2, <3>4 DEF Texts
  <2>9. ~(l >= L)
    BY <1>11
  <2>10. ~AllPlaced(nodes, lines, b) => At(b) = x + p
    BY <1>1, <1>4, <1>8 DEF p, s, line, x, l
  <2>11. ~AllPlaced(nodes, lines, m) => At(m) = x + q
    BY <1>1, <1>4, <1>8 DEF q, s, line, x, l
  <2>12. CASE ~(L > C)
    <3>1. ~AllPlaced(nodes, lines, b) /\ ~AllPlaced(nodes, lines, m)
      BY <1>1, <1>4, <1>8, <2>9, <2>12 DEF l
    <3>2. own \o <<>> = own
      BY <2>8 DEF Texts
    <3>3. own \o VisibleText(more) = Between(text, At(b), At(m))
      BY <1>9, <2>8, <2>10, <2>11, <2>12, <3>1, <3>2
    <3>4. At(b) <= At(m)
      BY <2>2, <2>4, <2>6, <2>10, <2>11, <3>1
    <3> QED BY <1>9, <2>8, <2>12, <3>3, <3>4 DEF own, At, more
  <2>13. CASE L > C
    <3>1. /\ last \in 1..N /\ last \in Segments(nodes, lines, C - 1)
          /\ \A j \in Segments(nodes, lines, C - 1) : j <= last
          /\ C - 1 \in Nat /\ Line(nodes, last) = C - 1
      BY <1>2, <1>3, <2>13, LastIsLast
    <3> HIDE DEF last, C, At, more
    <3>2. m <= last
      <4> SUFFICES ASSUME ~(m <= last) PROVE FALSE
        OBVIOUS
      <4>1. last \in 0..N /\ last <= m
        BY <1>1, <3>1
      <4>2. Line(nodes, last) <= Line(nodes, m)
        BY <1>1, <4>1, LinesOrdered
      <4>3. l = C - 1
        BY <1>4, <1>5, <3>1, <4>2 DEF l
      <4> QED BY <1>7, <3>1, <4>3 DEF s
    <3>3. ~AllPlaced(nodes, lines, b)
      <4>1. ~(last <= b)
        BY <1>1, <3>1, <3>2
      <4> QED BY <1>1, <1>4, <1>8, <2>9, <4>1
    <3>4. CASE m # last
      <4>1. ~(last <= m)
        BY <1>1, <3>1, <3>2, <3>4
      <4>2. ~AllPlaced(nodes, lines, m)
        BY <1>1, <1>8, <2>9, <4>1 DEF l
      <4>3. own \o <<>> = own
        BY <2>8 DEF Texts
      <4>4. own \o VisibleText(more) = Between(text, At(b), At(m))
        BY <1>9, <2>8, <2>10, <2>11, <3>3, <3>4, <4>2, <4>3
      <4>5. At(b) <= At(m)
        BY <2>2, <2>4, <2>6, <2>10, <2>11, <3>3, <4>2
      <4> QED BY <1>9, <2>8, <3>4, <4>4, <4>5 DEF own, At, more
    <3>5. CASE m = last
      <4>1. l = C - 1 /\ \A j \in s : j <= m
        <5>1. l = C - 1
          BY <3>1, <3>5 DEF l
        <5> QED BY <3>1, <3>5, <5>1 DEF s
      <4>2. q = w /\ x + q = z
        BY <2>2, <2>6, <4>1
      <4>3. l + 1 = C
        BY <1>5, <4>1
      <4>4. /\ more \in Seq(Nodes) /\ Inline(more)
            /\ VisibleText(more) = Between(text, z, n)
        <5>1. C < L
          BY <1>3, <1>5, <2>13
        <5>2. LET rest == Appended(nodes, lines, LastSegment(nodes, lines))
              IN  /\ rest \in Seq(Nodes) /\ Inline(rest)
                  /\ VisibleText(rest) = Between(text, ends[LineCount(nodes)] - 1, Len(text))
          BY <1>2, <5>1, AppendedShown DEF C, L, n
        <5> QED BY <3>5, <4>3, <5>2 DEF more, C, n, z, last
      <4>5. At(b) = x + p
        BY <2>10, <3>3
      <4>6. At(m) = n
        <5>1. last <= m
          BY <1>1, <3>5
        <5> QED BY <1>1, <1>8, <2>13, <5>1
      <4>7. x + p \in Nat /\ x + p <= z
        BY <2>2, <2>4, <2>6, <4>2
      <4>8. own \o VisibleText(more) = Between(text, x + p, n)
        <5> DEFINE a == x + p
        <5> HIDE DEF a
        <5>1. a \in Nat /\ a <= z /\ n <= Len(text)
          BY <1>1, <4>7 DEF a, n
        <5>2. Between(text, a, z) \o Between(text, z, n) = Between(text, a, n)
          BY <1>1, <2>2, <2>7, <5>1, PartsJoin
        <5> QED BY <2>8, <4>2, <4>4, <5>2 DEF a
      <4>9. At(b) <= At(m)
        BY <1>1, <2>2, <2>7, <4>5, <4>6, <4>7
      <4> QED BY <2>8, <4>4, <4>5, <4>6, <4>8, <4>9 DEF own, At, more
    <3> QED BY <3>4, <3>5
  <2> QED BY <2>12, <2>13
<1> QED BY <1>10, <1>11

\* What takes the place of an element.
RewrittenPart(nodes, lines, i) ==
  CASE ParagraphOf(nodes, i) \in Removed(nodes, lines) -> <<>>
    [] OTHER -> CASE nodes[i].kind = "p"   -> <<nodes[i]>>
                  [] nodes[i].kind = "br"  -> RewrittenBreak(nodes, lines, i)
                  [] nodes[i].kind = "t"   -> RewrittenText(nodes, lines, i)
                  [] nodes[i].kind = "tab" -> RewrittenTab(nodes, lines, i)

\* An inline part that shows the text between two places.
ShowsPart(text, part, a, b) ==
  part \in Seq(Nodes) /\ Inline(part) /\ a <= b /\ VisibleText(part) = Between(text, a, b)

\* What takes the place of a run or a tab shows the text that it gets.
LEMMA RunShown ==
  ASSUME NEW nodes \in Seq(Nodes), NEW text \in Texts, NEW lines \in Seq(Texts), NEW ends,
         Fitted(nodes, text, lines, ends), NEW m \in 1..Len(nodes),
         nodes[m].kind \in {"t", "tab"}, ParagraphOf(nodes, m) \notin Removed(nodes, lines)
  PROVE  ShowsPart(text, RewrittenPart(nodes, lines, m), Place(nodes, text, lines, ends, m - 1),
                   Place(nodes, text, lines, ends, m))
<1> DEFINE own == Assigned(nodes, lines, m)
           more == Appended(nodes, lines, m)
           a == Place(nodes, text, lines, ends, m - 1)
           b == Place(nodes, text, lines, ends, m)
           part == RewrittenPart(nodes, lines, m)
<1>1. /\ own \in Texts /\ more \in Seq(Nodes) /\ Inline(more) /\ a <= b
      /\ own \o VisibleText(more) = Between(text, a, b)
  BY RunPlaced
<1>2. part = IF nodes[m].kind = "t" THEN RewrittenText(nodes, lines, m) ELSE RewrittenTab(nodes, lines, m)
  BY DEF RewrittenPart
<1>3. RewrittenText(nodes, lines, m) = TextNodes(own) \o more
  BY DEF RewrittenText
<1>4. RewrittenTab(nodes, lines, m) = CASE more = <<>> /\ own = <<Tab>> -> <<nodes[m]>>
                                        [] more = <<>> /\ own = <<>>    -> <<>>
                                        [] OTHER                        -> TextNodes(own) \o more
  BY DEF RewrittenTab
<1>5. nodes[m] \in Nodes
  OBVIOUS
<1> HIDE DEF own, more, a, b, part
<1>6. /\ TextNodes(own) \o more \in Seq(Nodes) /\ Inline(TextNodes(own) \o more)
      /\ VisibleText(TextNodes(own) \o more) = own \o VisibleText(more)
  <2>1. TextNodes(own) \in Seq(Nodes) /\ VisibleText(TextNodes(own)) = own /\ Inline(TextNodes(own))
    BY <1>1, TextNodesShown
  <2> DEFINE first == TextNodes(own)
  <2> HIDE DEF first
  <2>2. first \in Seq(Nodes) /\ VisibleText(first) = own /\ Inline(first)
    BY <2>1 DEF first
  <2>3. VisibleText(first \o more) = VisibleText(first) \o VisibleText(more) /\ (Inline(first \o more) <=> Inline(first))
    BY <1>1, <2>2, VisibleJoin
  <2>4. first \o more \in Seq(Nodes)
    BY <1>1, <2>2, JoinAt
  <2> QED BY <2>2, <2>3, <2>4 DEF first
<1>7. VisibleText(<<>>) = <<>> /\ Inline(<<>>)
  BY Basics, RunSeen
<1>8. CASE part = TextNodes(own) \o more
  BY <1>1, <1>6, <1>8 DEF ShowsPart, part, a, b
<1>9. CASE part = <<nodes[m]>> /\ nodes[m].kind = "tab" /\ more = <<>> /\ own = <<Tab>>
  <2> DEFINE node == nodes[m]
  <2>1. node \in Nodes /\ node.kind = "tab" /\ part = <<node>>
    BY <1>5, <1>9
  <2> HIDE DEF node
  <2>2. VisibleText(<<node>>) = Seen(node, FALSE) /\ Inline(<<node>>)
    <3>1. <<>> \in Texts /\ node.kind # "p"
      BY <2>1, Basics
    <3> QED BY <2>1, <3>1, RunSeen
  <2>3. Seen(node, FALSE) = <<Tab>>
    BY <2>1 DEF Seen
  <2>4. <<node>> \in Seq(Nodes)
    BY <2>1
  <2>5. own \o VisibleText(more) = <<Tab>>
    <3>1. own \in Seq(Letters)
      BY <1>1 DEF Texts
    <3>2. own \o <<>> = own
      BY <3>1
    <3>3. VisibleText(more) = <<>>
      BY <1>7, <1>9
    <3> QED BY <1>9, <3>2, <3>3
  <2> QED BY <1>1, <2>1, <2>2, <2>3, <2>4, <2>5 DEF ShowsPart, part, a, b
<1>10. CASE part = <<>> /\ more = <<>> /\ own = <<>>
  <2>1. own \o VisibleText(more) = <<>> /\ <<>> \in Seq(Nodes)
    BY <1>7, <1>10
  <2> QED BY <1>1, <1>7, <1>10, <2>1 DEF ShowsPart, part, a, b
<1>11. CASE nodes[m].kind = "t"
  BY <1>2, <1>3, <1>8, <1>11
<1>12. CASE nodes[m].kind = "tab"
  <2>1. part = CASE more = <<>> /\ own = <<Tab>> -> <<nodes[m]>>
                 [] more = <<>> /\ own = <<>>    -> <<>>
                 [] OTHER                        -> TextNodes(own) \o more
    BY <1>2, <1>4, <1>12
  <2>2. CASE more = <<>> /\ own = <<Tab>>
    <3>1. own # <<>>
      BY <2>2
    <3>2. part = <<nodes[m]>>
      BY <2>1, <2>2, <3>1
    <3> QED BY <1>9, <1>12, <2>2, <3>2
  <2>3. CASE more = <<>> /\ own = <<>>
    <3>1. own # <<Tab>>
      BY <2>3
    <3>2. part = <<>>
      BY <2>1, <2>3, <3>1
    <3> QED BY <1>10, <2>3, <3>2
  <2>4. CASE ~(more = <<>> /\ own = <<Tab>>) /\ ~(more = <<>> /\ own = <<>>)
    <3>1. part = TextNodes(own) \o more
      BY <2>1, <2>4
    <3> QED BY <1>8, <3>1
  <2> QED BY <2>2, <2>3, <2>4
<1> QED BY <1>11, <1>12

\* What takes the place of any element shows the text between its places, and a paragraph that stays
\* goes on by a line break if it follows another.
LEMMA ElementShown ==
  ASSUME NEW nodes \in Seq(Nodes), NEW text \in Texts, NEW lines \in Seq(Texts), NEW ends,
         Fitted(nodes, text, lines, ends), NEW m \in 1..Len(nodes)
  PROVE  LET part == RewrittenPart(nodes, lines, m)
             a == Place(nodes, text, lines, ends, m - 1)
             b == Place(nodes, text, lines, ends, m)
             first == \A k \in 1..m-1 : nodes[k].kind # "p"
         IN  \/ ShowsPart(text, part, a, b)
             \/ /\ nodes[m].kind = "p" /\ part = <<nodes[m]>> /\ LineOf(nodes, m) < Len(lines)
                /\ IF first THEN b = a ELSE b = a + 1 /\ text[b] = NewLine
<1> DEFINE part == RewrittenPart(nodes, lines, m)
           a == Place(nodes, text, lines, ends, m - 1)
           b == Place(nodes, text, lines, ends, m)
           n == Len(text)
           N == Len(nodes)
           L == Len(lines)
           C == LineCount(nodes)
           first == \A k \in 1..m-1 : nodes[k].kind # "p"
           gone == ParagraphOf(nodes, m) \in Removed(nodes, lines)
           l == Line(nodes, m - 1)
<1>1. N \in Nat /\ n \in Nat /\ m - 1 \in 0..N /\ m \in 0..N /\ nodes[m] \in Nodes /\ text \in Seq(Letters) /\ N \in 0..N /\ m <= N
  BY DEF Texts
<1>2. nodes[m].kind \in {"p", "br", "tab", "t"}
  BY <1>1 DEF Nodes
<1>3. L \in Nat \ {0}
  <2>1. Cut(text, NewLine, lines, ends, n)
    BY DEF Fitted
  <2> QED BY <2>1, LinePlaces
<1>4. /\ LineOf(nodes, m) < L => ~gone
      /\ nodes[m].kind = "p" /\ LineOf(nodes, m) >= L => gone
  <2>1. Len(lines) \in Nat
    BY <1>3
  <2> QED BY <2>1, KeptParagraphs
<1>5. l \in Nat /\ Line(nodes, m) \in Nat /\ LineStep(nodes, m) /\ LineOf(nodes, m) \in Nat /\ C = Line(nodes, N) + 1
      /\ Line(nodes, N) \in Nat
  BY <1>1, LineSteps, LinesOrdered
<1>6. part = CASE gone -> <<>>
              [] OTHER -> CASE nodes[m].kind = "p"   -> <<nodes[m]>>
                            [] nodes[m].kind = "br"  -> RewrittenBreak(nodes, lines, m)
                            [] nodes[m].kind = "t"   -> RewrittenText(nodes, lines, m)
                            [] nodes[m].kind = "tab" -> RewrittenTab(nodes, lines, m)
  BY Zenon DEF RewrittenPart
<1>7. /\ l >= L => a = n
      /\ Line(nodes, m) >= L => b = n
  BY DEF Place, AllPlaced
<1>8. part = <<>> /\ a = n /\ b = n => ShowsPart(text, part, a, b)
  <2> SUFFICES ASSUME part = <<>>, a = n, b = n PROVE ShowsPart(text, part, a, b)
    OBVIOUS
  <2>1. VisibleText(<<>>) = <<>> /\ Inline(<<>>)
    BY Basics, RunSeen
  <2>2. Between(text, n, n) = <<>>
    <3>1. n \in 0..n
      BY <1>1
    <3> QED BY <1>1, <3>1, WholePart
  <2> HIDE DEF part, a, b, n
  <2>3. <<>> \in Seq(Nodes) /\ n <= n
    BY <1>1
  <2> QED BY <2>1, <2>2, <2>3 DEF ShowsPart
<1>9. CASE nodes[m].kind \in {"t", "tab"} /\ ~gone
  BY <1>9, RunShown
<1>10. CASE nodes[m].kind \in {"t", "tab"} /\ gone
  <2>1. LineOf(nodes, m) = l /\ Line(nodes, m) = l
    BY <1>5, <1>10 DEF LineStep
  <2>2. l >= L
    BY <1>3, <1>4, <1>5, <1>10, <2>1
  <2>3. part = <<>>
    BY <1>6, <1>10
  <2> QED BY <1>7, <1>8, <2>1, <2>2, <2>3
<1> HIDE DEF part, a, b, n, l, gone
<1>11. CASE nodes[m].kind = "br"
  <2>1. LineOf(nodes, m) = l /\ Line(nodes, m) = l + 1
    BY <1>5, <1>11 DEF LineStep, l
  <2>2. /\ l + 1 >= L => a = n /\ b = n
        /\ l + 1 < L => b \in 1..n /\ a = b - 1 /\ text[b] = NewLine
    <3>1. nodes[m].kind \in {"br", "p"} /\ Line(nodes, m) = Line(nodes, m - 1) + 1
      BY <1>11, <2>1 DEF l
    <3>2. /\ Line(nodes, m) >= Len(lines) => /\ Place(nodes, text, lines, ends, m - 1) = Len(text)
                                             /\ Place(nodes, text, lines, ends, m) = Len(text)
          /\ Line(nodes, m) < Len(lines) =>
               /\ Place(nodes, text, lines, ends, m) \in 1..Len(text)
               /\ Place(nodes, text, lines, ends, m - 1) = Place(nodes, text, lines, ends, m) - 1
               /\ text[Place(nodes, text, lines, ends, m)] = NewLine
      BY <3>1, LineEnded
    <3> QED BY <2>1, <3>2 DEF a, b, n
  <2>3. l + 1 < C
    <3>1. Line(nodes, m) <= Line(nodes, N)
      BY <1>1, LinesOrdered
    <3> QED BY <1>5, <2>1, <3>1
  <2>4. CASE l + 1 >= L
    <3>1. part = <<>>
      <4>1. CASE gone
        BY <1>6, <4>1
      <4>2. CASE ~gone
        <5>1. part = RewrittenBreak(nodes, lines, m)
          BY <1>6, <1>11, <4>2
        <5>2. L < C /\ l >= L - 1
          BY <1>3, <1>5, <2>3, <2>4 DEF l
        <5> QED BY <2>1, <5>1, <5>2 DEF RewrittenBreak
      <4> QED BY <4>1, <4>2
    <3> QED BY <1>8, <2>2, <2>4, <3>1 DEF part, a, b
  <2>5. CASE l + 1 < L
    <3>1. ~gone /\ ~(l >= L - 1)
      BY <1>3, <1>4, <1>5, <2>1, <2>5 DEF l
    <3>2. part = <<nodes[m]>>
      <4>1. part = RewrittenBreak(nodes, lines, m)
        BY <1>6, <1>11, <3>1
      <4> QED BY <2>1, <3>1, <4>1 DEF RewrittenBreak
    <3> DEFINE node == nodes[m]
    <3>3. node \in Nodes /\ node.kind = "br"
      BY <1>1, <1>11
    <3> HIDE DEF node
    <3>4. VisibleText(<<node>>) = Seen(node, FALSE) /\ Inline(<<node>>)
      <4>1. <<>> \in Texts /\ node.kind # "p"
        BY <3>3, Basics
      <4> QED BY <3>3, <4>1, RunSeen
    <3>5. Seen(node, FALSE) = <<NewLine>>
      BY <3>3 DEF Seen
    <3>6. <<node>> \in Seq(Nodes)
      BY <3>3
    <3>7. a \in Nat /\ b = a + 1 /\ a + 1 <= n /\ text[a + 1] = NewLine /\ a <= b
      BY <1>1, <2>2, <2>5
    <3>8. Append(Between(text, a, a), text[a + 1]) = Between(text, a, a + 1)
      BY <1>1, <3>7, PartAppend DEF n
    <3>9. Between(text, a, a) = <<>>
      <4>1. a \in 0..Len(text)
        BY <1>1, <3>7 DEF n
      <4> QED BY <1>1, <4>1, WholePart
    <3>10. Between(text, a, b) = <<NewLine>>
      BY <3>7, <3>8, <3>9
    <3>11. ShowsPart(text, part, a, b)
      BY <3>2, <3>4, <3>5, <3>6, <3>7, <3>10 DEF ShowsPart, node
    <3> QED BY <3>11 DEF part, a, b
  <2>6. l + 1 >= L \/ l + 1 < L
    BY <1>3, <1>5 DEF l
  <2> QED BY <2>4, <2>5, <2>6
<1>12. CASE nodes[m].kind = "p"
  <2>1. LineOf(nodes, m) = Line(nodes, m)
    BY <1>5, <1>12 DEF LineStep
  <2>2. gone <=> Line(nodes, m) >= L
    BY <1>3, <1>4, <1>5, <1>12, <2>1
  <2>3. CASE first
    <3>1. Line(nodes, m) = l
      BY <1>5, <1>12, <2>3 DEF LineStep, l
    <3>2. CASE gone
      <4>1. part = <<>> /\ a = n /\ b = n
        BY <1>6, <1>7, <2>2, <3>1, <3>2
      <4> QED BY <1>8, <4>1 DEF part, a, b
    <3>3. CASE ~gone
      <4>1. part = <<nodes[m]>> /\ LineOf(nodes, m) < L
        BY <1>3, <1>5, <1>6, <1>12, <2>1, <2>2, <3>3
      <4>2. a = b
        BY <1>12, <3>1, LineStarted DEF a, b, l
      <4> QED BY <1>12, <2>3, <4>1, <4>2 DEF part, a, b
    <3> QED BY <3>2, <3>3
  <2>4. CASE ~first
    <3>1. Line(nodes, m) = l + 1
      BY <1>5, <1>12, <2>4 DEF LineStep, l
    <3>2. /\ l + 1 >= L => a = n /\ b = n
          /\ l + 1 < L => b \in 1..n /\ a = b - 1 /\ text[b] = NewLine
      <4>1. nodes[m].kind \in {"br", "p"} /\ Line(nodes, m) = Line(nodes, m - 1) + 1
        BY <1>12, <3>1 DEF l
      <4>2. /\ Line(nodes, m) >= Len(lines) => /\ Place(nodes, text, lines, ends, m - 1) = Len(text)
                                               /\ Place(nodes, text, lines, ends, m) = Len(text)
            /\ Line(nodes, m) < Len(lines) =>
                 /\ Place(nodes, text, lines, ends, m) \in 1..Len(text)
                 /\ Place(nodes, text, lines, ends, m - 1) = Place(nodes, text, lines, ends, m) - 1
                 /\ text[Place(nodes, text, lines, ends, m)] = NewLine
        BY <4>1, LineEnded
      <4> QED BY <3>1, <4>2 DEF a, b, n
    <3>3. CASE gone
      <4>1. part = <<>> /\ a = n /\ b = n
        BY <1>6, <2>2, <3>1, <3>2, <3>3
      <4> QED BY <1>8, <4>1 DEF part, a, b
    <3>4. CASE ~gone
      <4>1. part = <<nodes[m]>> /\ LineOf(nodes, m) < L
        BY <1>3, <1>5, <1>6, <1>12, <2>1, <2>2, <3>4
      <4>2. l + 1 < L
        BY <2>1, <3>1, <4>1
      <4>3. b = a + 1 /\ text[b] = NewLine
        BY <1>1, <3>2, <4>2
      <4> QED BY <1>12, <2>4, <4>1, <4>3 DEF part, a, b
    <3> QED BY <3>3, <3>4
  <2> QED BY <2>3, <2>4
<1> QED BY <1>2, <1>9, <1>10, <1>11, <1>12

\* Content that is rewritten shows the text.
LEMMA RewrittenShown ==
  ASSUME NEW nodes \in Seq(Nodes), NEW text \in Texts, CanRewrite(nodes, text)
  PROVE  Rewritten(nodes, text) \in Seq(Nodes) /\ VisibleText(Rewritten(nodes, text)) = text
<1>1. CASE VisibleText(nodes) = text
  BY <1>1 DEF Rewritten
<1>2. CASE VisibleText(nodes) # text
  <2> DEFINE lines == Lines(text)
             N == Len(nodes)
             n == Len(text)
  <2>1. text \in Seq(Letters) /\ n \in Nat /\ N \in Nat /\ DOMAIN nodes = 1..N
    BY DEF Texts
  <2>2. lines \in Seq(Texts)
    BY <2>1, SplitCut DEF Texts, Lines
  <2>3. PICK ends : Cut(text, NewLine, lines, ends, n)
    BY <2>1, SplitCut DEF Lines
  <2> DEFINE parts == [i \in DOMAIN nodes |-> RewrittenPart(nodes, lines, i)]
             At(m) == Place(nodes, text, lines, ends, m)
             pos == [m \in 0..N |-> At(m)]
  <2>4. Rewritten(nodes, text) = FlattenSeq(parts)
    BY <1>2, Zenon DEF Rewritten, RewrittenPart
  <2>5. Fitted(nodes, text, lines, ends)
    <3>1. /\ \A line \in 0..Min({Len(lines), LineCount(nodes)}) - 1 :
               lines[line + 1] # <<>> => Segments(nodes, lines, line) # {}
          /\ Len(lines) > LineCount(nodes) => LastSegment(nodes, lines) # 0
      BY <1>2, Zenon DEF CanRewrite
    <3> HIDE DEF lines
    <3>2. Len(lines) \in Nat /\ LineCount(nodes) \in Nat
      BY <2>2, LineCountType
    <3>3. Min({Len(lines), LineCount(nodes)}) = IF Len(lines) <= LineCount(nodes) THEN Len(lines) ELSE LineCount(nodes)
      BY <3>2, Lesser
    <3>4. \A l \in 0..Len(lines)-1 : l < LineCount(nodes) /\ Segments(nodes, lines, l) = {} => lines[l + 1] = <<>>
      <4> SUFFICES ASSUME NEW l \in 0..Len(lines)-1, l < LineCount(nodes), Segments(nodes, lines, l) = {}
                   PROVE  lines[l + 1] = <<>>
        OBVIOUS
      <4>1. l \in 0..Min({Len(lines), LineCount(nodes)}) - 1
        BY <3>2, <3>3
      <4> QED BY <3>1, <4>1
    <3> QED BY <2>3, <3>1, <3>4 DEF Fitted
  <2> HIDE DEF lines
  <2>6. ASSUME NEW m \in 1..N
        PROVE  \/ ShowsPart(text, parts[m], At(m - 1), At(m))
               \/ /\ nodes[m].kind = "p" /\ parts[m] = <<nodes[m]>> /\ LineOf(nodes, m) < Len(lines)
                  /\ IF \A k \in 1..m-1 : nodes[k].kind # "p" THEN At(m) = At(m - 1)
                     ELSE At(m) = At(m - 1) + 1 /\ text[At(m)] = NewLine
    <3>1. parts[m] = RewrittenPart(nodes, lines, m)
      BY <2>1
    <3>2. LET part == RewrittenPart(nodes, lines, m)
              a == Place(nodes, text, lines, ends, m - 1)
              b == Place(nodes, text, lines, ends, m)
              first == \A k \in 1..m-1 : nodes[k].kind # "p"
          IN  \/ ShowsPart(text, part, a, b)
              \/ /\ nodes[m].kind = "p" /\ part = <<nodes[m]>> /\ LineOf(nodes, m) < Len(lines)
                 /\ IF first THEN b = a ELSE b = a + 1 /\ text[b] = NewLine
      BY <2>2, <2>5, ElementShown DEF N
    <3> QED BY <3>1, <3>2, Zenon
  <2>7. \A m \in 0..N : At(m) \in 0..n
    BY <2>2, <2>5, PlacesRange
  <2>8. At(0) = 0 /\ At(N) = n
    BY <2>2, <2>5, PlacesRange
  <2>9. \A m \in 1..N : nodes[m] \in Nodes
    OBVIOUS
  <2> HIDE DEF At
  <2>10. \A m \in 1..N : parts[m] \in Seq(Nodes)
    <3> SUFFICES ASSUME NEW m \in 1..N PROVE parts[m] \in Seq(Nodes)
      OBVIOUS
    <3> HIDE DEF parts
    <3>1. CASE ShowsPart(text, parts[m], At(m - 1), At(m))
      BY <3>1 DEF ShowsPart
    <3>2. CASE parts[m] = <<nodes[m]>>
      <4>1. \A e \in Nodes : <<e>> \in Seq(Nodes)
        OBVIOUS
      <4>2. nodes[m] \in Nodes
        BY <2>9
      <4> QED BY <3>2, <4>1, <4>2, Zenon
    <3> QED BY <2>6, <3>1, <3>2
  <2>11. parts \in Seq(Seq(Nodes)) /\ Len(parts) = N
    <3>1. \A m \in 1..N : RewrittenPart(nodes, lines, m) \in Seq(Nodes)
      BY <2>1, <2>10
    <3> HIDE DEF N
    <3> QED BY <2>1, <3>1
  <2>12. \A m \in 0..N : pos[m] = At(m)
    OBVIOUS
  <2> HIDE DEF pos, parts, N
  <2>13. ASSUME NEW m \in 1..N
         PROVE  (\A k \in 1..m-1 : nodes[k].kind # "p") \/ LineOf(nodes, m) >= Len(lines)
                  \/ \E k \in 1..m-1 : ~Inline(parts[k])
    <3> SUFFICES ASSUME NEW k \in 1..m-1, nodes[k].kind = "p", ~(LineOf(nodes, m) >= Len(lines))
                 PROVE  ~Inline(parts[k])
      OBVIOUS
    <3>1. k \in 1..N /\ k \in 0..N /\ m - 1 \in 0..N /\ k <= m - 1 /\ m \in 1..Len(nodes) /\ Len(lines) \in Nat
      BY <2>1, <2>2 DEF N
    <3>2. LineOf(nodes, m) < Len(lines) /\ LineOf(nodes, k) < Len(lines)
      <4>1. /\ LineOf(nodes, k) <= Line(nodes, k) /\ Line(nodes, k) <= Line(nodes, m - 1)
            /\ Line(nodes, m - 1) <= LineOf(nodes, m)
        BY <3>1, LinesOrdered DEF N
      <4>2. LineOf(nodes, m) \in Nat /\ LineOf(nodes, k) \in Nat
        BY <3>1, LinesOrdered DEF N
      <4>3. Line(nodes, k) \in Nat /\ Line(nodes, m - 1) \in Nat
        BY <3>1, LineSteps DEF N
      <4> QED BY <3>1, <4>1, <4>2, <4>3
    <3>3. ParagraphOf(nodes, k) \notin Removed(nodes, lines)
      BY <3>1, <3>2, KeptParagraphs DEF N
    <3>4. parts[k] = <<nodes[k]>>
      <4>1. RewrittenPart(nodes, lines, k) = <<nodes[k]>>
        BY <3>3 DEF RewrittenPart
      <4> QED BY <2>1, <3>1, <4>1 DEF parts
    <3>5. 1 \in DOMAIN <<nodes[k]>> /\ <<nodes[k]>>[1] = nodes[k]
      OBVIOUS
    <3> QED BY <3>4, <3>5 DEF Inline
  <2>14. ASSUME NEW m \in 1..N, \A k \in 1..m-1 : nodes[k].kind # "p", NEW j \in 1..m-1 PROVE Inline(parts[j])
    <3>1. j \in 1..N /\ nodes[j].kind # "p"
      BY <2>1, <2>14
    <3> QED BY <2>6, <3>1 DEF ShowsPart
  <2>15. ASSUME NEW m \in 1..N
         PROVE  Piece(text, parts[m], pos[m - 1], pos[m], \E k \in 1..m-1 : ~Inline(parts[k]))
    <3> DEFINE a == At(m - 1)
               b == At(m)
               after == \E k \in 1..m-1 : ~Inline(parts[k])
    <3>1. pos[m - 1] = a /\ pos[m] = b /\ a \in 0..n /\ b \in 0..n
      <4>1. m \in 0..N /\ m - 1 \in 0..N
        BY <2>1
      <4> QED BY <2>7, <2>12, <4>1
    <3>2. CASE ShowsPart(text, parts[m], a, b)
      <4> HIDE DEF a, b, after
      <4>1. Piece(text, parts[m], a, b, after)
        BY <3>2 DEF Piece, ShowsPart
      <4> QED BY <3>1, <4>1 DEF after
    <3>3. CASE /\ nodes[m].kind = "p" /\ parts[m] = <<nodes[m]>> /\ LineOf(nodes, m) < Len(lines)
               /\ IF \A k \in 1..m-1 : nodes[k].kind # "p" THEN b = a
                  ELSE b = a + 1 /\ text[b] = NewLine
      <4>1. nodes[m] \in Nodes
        BY <2>9
      <4>2. IF after THEN b = a + 1 /\ text[b] = NewLine ELSE b = a
        <5>1. CASE \A k \in 1..m-1 : nodes[k].kind # "p"
          <6>1. ~after
            BY <2>14, <5>1
          <6> QED BY <3>3, <5>1, <6>1
        <5>2. CASE ~(\A k \in 1..m-1 : nodes[k].kind # "p")
          <6>1. ~(LineOf(nodes, m) >= Len(lines))
            <7>1. LineOf(nodes, m) \in Nat /\ Len(lines) \in Nat
              BY <2>2, LinesOrdered DEF N
            <7> QED BY <3>3, <7>1
          <6>2. after
            BY <2>13, <5>2, <6>1
          <6> QED BY <3>3, <5>2, <6>2
        <5> QED BY <5>1, <5>2
      <4> HIDE DEF after, a, b
      <4>3. a <= b
        BY <3>1, <4>2, <2>1
      <4>4. Piece(text, parts[m], a, b, after)
        BY <3>3, <4>1, <4>2, <4>3 DEF Piece
      <4> QED BY <3>1, <4>4 DEF after
    <3> QED BY <2>6, <3>2, <3>3
  <2>16. FlattenSeq(parts) \in Seq(Nodes) /\ VisibleText(FlattenSeq(parts)) = Between(text, pos[0], pos[N])
    <3>1. \A m \in 0..Len(parts) : pos[m] \in 0..Len(text)
      BY <2>7, <2>11, <2>12
    <3>2. \A m \in 1..Len(parts) : Piece(text, parts[m], pos[m - 1], pos[m], \E k \in 1..m-1 : ~Inline(parts[k]))
      BY <2>11, <2>15
    <3>3. /\ FlattenSeq(parts) \in Seq(Nodes)
          /\ VisibleText(FlattenSeq(parts)) = Between(text, pos[0], pos[Len(parts)])
      BY <2>11, <3>1, <3>2, Pieces
    <3> QED BY <2>11, <3>3
  <2>17. pos[0] = 0 /\ pos[N] = n
    <3>1. 0 \in 0..N /\ N \in 0..N
      BY <2>1
    <3> QED BY <2>8, <2>12, <3>1
  <2>18. Between(text, 0, n) = text
    BY <2>1, WholePart
  <2> QED BY <2>4, <2>16, <2>17, <2>18
<1> QED BY <1>1, <1>2

\* Whatever a control held before, once a text is written into it the control shows just that text:
\* no line, tab or character of it is lost, doubled or moved, and nothing of the old text is left.
THEOREM SetTextExact ==
  ASSUME NEW nodes \in Seq(Nodes), NEW text \in Texts, NEW block \in BOOLEAN
  PROVE  SetText(nodes, text, block) \in Seq(Nodes) /\ VisibleText(SetText(nodes, text, block)) = text
<1>1. CASE CanRewrite(nodes, text)
  BY <1>1, RewrittenShown DEF SetText
<1>2. CASE ~CanRewrite(nodes, text)
  BY <1>2, FreshShown DEF SetText
<1> QED BY <1>1, <1>2

---------------------------------------------------------------------------
(* Texts that are no values of another kind *)

\* Texts of which no part stands for another value.
Words == Seq(Letters \ {"#null", "#true", "#false"})

\* Trimming leaves a text that neither begins nor ends with white space.
LEMMA TrimEdges ==
  ASSUME NEW S, NEW text \in Seq(S), text # <<>>, text[1] \notin Blank, text[Len(text)] \notin Blank
  PROVE  Trim(text) = text
<1> DEFINE I == {i \in DOMAIN text : text[i] \notin Blank}
<1>1. DOMAIN text = 1..Len(text) /\ Len(text) \in Nat \ {0}
  OBVIOUS
<1>2. 1 \in I /\ Len(text) \in I /\ I \in SUBSET Nat /\ I \in SUBSET (0..Len(text)) /\ \A i \in I : 1 <= i /\ i <= Len(text)
  BY <1>1
<1>3. Trim(text) = SubSeq(text, Min(I), Max(I))
  BY <1>2 DEF Trim
<1> HIDE DEF I
<1>4. Min(I) \in I /\ (\A m \in I : Min(I) <= m) /\ Max(I) \in I /\ \A m \in I : Max(I) >= m
  BY <1>1, <1>2, MinIn, MaxIn
<1>5. Min(I) = 1 /\ Max(I) = Len(text)
  <2> DEFINE a == Min(I)
             b == Max(I)
  <2>1. a \in I /\ b \in I /\ a <= 1 /\ b >= Len(text)
    BY <1>2, <1>4
  <2> HIDE DEF a, b
  <2>2. a \in Nat /\ b \in Nat /\ 1 <= a /\ b <= Len(text)
    BY <1>2, <2>1
  <2>3. a = 1
    BY <2>1, <2>2
  <2>4. b = Len(text)
    <3>1. \A m, n \in Nat : m >= n /\ m <= n => m = n
      OBVIOUS
    <3>2. Len(text) \in Nat
      OBVIOUS
    <3> QED BY <2>1, <2>2, <3>1, <3>2
  <2> QED BY <2>3, <2>4 DEF a, b
<1>6. \A s \in Seq(S) : SubSeq(s, 1, Len(s)) = s
  OBVIOUS
<1> QED BY <1>3, <1>5, <1>6

\* A character for one.
LEMMA TrimOne ==
  ASSUME NEW e, e \notin Blank
  PROVE  Trim(<<e>>) = <<e>>
<1>1. <<e>> \in Seq({e}) /\ <<e>> # <<>> /\ Len(<<e>>) = 1 /\ <<e>>[1] = e
  OBVIOUS
<1> QED BY <1>1, TrimEdges

\* Trimming a text again changes nothing.
LEMMA TrimTwice ==
  ASSUME NEW S, NEW text \in Seq(S)
  PROVE  Trim(Trim(text)) = Trim(text)
<1> DEFINE I == {i \in DOMAIN text : text[i] \notin Blank}
<1>1. DOMAIN text = 1..Len(text) /\ Len(text) \in Nat
  OBVIOUS
<1>2. Trim(text) = IF I = {} THEN <<>> ELSE SubSeq(text, Min(I), Max(I))
  BY DEF Trim
<1>3. I \in SUBSET Nat /\ I \in SUBSET (0..Len(text)) /\ I \subseteq 1..Len(text)
  BY <1>1
<1>4. Trim(<<>>) = <<>>
  <2>1. {i \in DOMAIN <<>> : <<>>[i] \notin Blank} = {}
    OBVIOUS
  <2> QED BY <2>1, Zenon DEF Trim
<1>5. CASE I = {}
  BY <1>2, <1>4, <1>5
<1>6. CASE I # {}
  <2> HIDE DEF I
  <2>1. /\ Min(I) \in I /\ \A m \in I : Min(I) <= m
        /\ Max(I) \in I /\ \A m \in I : Max(I) >= m
    BY <1>1, <1>3, <1>6, MinIn, MaxIn
  <2> DEFINE a == Min(I)
             b == Max(I)
             t == SubSeq(text, a, b)
             n == b - a + 1
             J == {i \in DOMAIN t : t[i] \notin Blank}
  <2>2. a \in 1..Len(text) /\ b \in 1..Len(text) /\ a <= b /\ a \in I /\ b \in I
    BY <1>3, <2>1
  <2>3. text[a] \notin Blank /\ text[b] \notin Blank
    BY <2>2 DEF I
  <2> HIDE DEF a, b
  <2>4. t \in Seq(S) /\ Len(t) = n /\ DOMAIN t = 1..n /\ n \in Nat /\ \A i \in 1..n : t[i] = text[a + i - 1]
    BY <1>1, <2>2
  <2>5. 1 \in 1..n /\ n \in 1..n /\ a + 1 - 1 = a /\ a + n - 1 = b
    BY <2>2
  <2>6. t[1] = text[a] /\ t[n] = text[b]
    <3>1. t[1] = text[a + 1 - 1] /\ t[n] = text[a + n - 1]
      BY <2>4, <2>5
    <3> HIDE DEF t, n
    <3> QED BY <2>5, <3>1
  <2>7. 1 \in J /\ n \in J /\ J \subseteq 1..n
    BY <2>3, <2>4, <2>5, <2>6
  <2>8. Trim(t) = SubSeq(t, Min(J), Max(J))
    <3> HIDE DEF t
    <3>1. J # {}
      BY <2>7
    <3> QED BY <3>1 DEF Trim
  <2>9. Min(J) = 1 /\ Max(J) = n
    <3> HIDE DEF J, t, n
    <3>1. J \in SUBSET Nat /\ J \in SUBSET (0..n) /\ J # {}
      BY <2>4, <2>7
    <3>2. Min(J) \in J /\ \A m \in J : Min(J) <= m
      BY <3>1, MinIn
    <3>3. Max(J) \in J /\ \A m \in J : Max(J) >= m
      BY <2>4, <3>1, MaxIn
    <3>4. Min(J) \in 1..n /\ Max(J) \in 1..n /\ Min(J) <= 1 /\ Max(J) >= n
      BY <2>7, <3>2, <3>3
    <3> HIDE DEF J
    <3>5. \A x, y \in 1..n : x <= 1 /\ y >= n => x = 1 /\ y = n
      BY <2>4
    <3> QED BY <3>4, <3>5
  <2>10. SubSeq(t, 1, n) = t
    <3> HIDE DEF t, n
    <3> QED BY <2>4
  <2>11. Trim(text) = t
    BY <1>2, <1>6 DEF a, b
  <2> HIDE DEF t, n, J
  <2> QED BY <2>8, <2>9, <2>10, <2>11
<1> QED BY <1>5, <1>6

\* Content of such texts shows such a text.
LEMMA WordsVisible ==
  ASSUME NEW nodes \in Seq(Nodes), \A i \in DOMAIN nodes : nodes[i].text \in Words
  PROVE  VisibleText(nodes) \in Words
<1> DEFINE S == Letters \ {"#null", "#true", "#false"}
           seen == [i \in DOMAIN nodes |-> SeenAt(nodes, i)]
<1>1. NewLine \in S /\ Tab \in S
  BY Basics DEF NewLine, Tab
<1>2. DOMAIN nodes = 1..Len(nodes) /\ Len(nodes) \in Nat /\ \A i \in DOMAIN nodes : nodes[i] \in Nodes
  OBVIOUS
<1>3. ASSUME NEW i \in DOMAIN nodes PROVE SeenAt(nodes, i) \in Seq(S)
  <2>1. nodes[i].kind \in {"p", "br", "tab", "t"} /\ nodes[i].text \in Seq(S)
    <3>1. nodes[i] \in Nodes
      BY <1>2
    <3> QED BY <3>1 DEF Nodes, Words
  <2> HIDE DEF S
  <2>2. <<NewLine>> \in Seq(S) /\ <<Tab>> \in Seq(S) /\ <<>> \in Seq(S)
    BY <1>1
  <2> QED BY <2>1, <2>2 DEF SeenAt
<1> HIDE DEF S
<1>4. seen \in Seq(Seq(S))
  <2>1. seen \in [1..Len(nodes) -> Seq(S)]
    BY <1>2, <1>3
  <2> QED BY <1>2, <2>1
<1>5. VisibleText(nodes) = FlattenSeq(seen)
  BY Zenon DEF VisibleText, SeenAt
<1> HIDE DEF seen
<1>6. PICK out \in [0..Len(seen) -> Seq(S)] : FlattenSeq(seen) = out[Len(seen)]
  BY <1>4, FlattenSteps
<1>7. Len(seen) \in 0..Len(seen)
  BY <1>4
<1>8. VisibleText(nodes) \in Seq(S)
  BY <1>5, <1>6, <1>7
<1> QED BY <1>8 DEF Words, S

---------------------------------------------------------------------------
(* What is written for a value can be read *)

\* A single character.
LEMMA GlyphInk ==
  ASSUME NEW e \in Letters
  PROVE  <<e>> \in Texts /\ (e \notin Blank => Ink(<<e>>))
  BY DEF Texts, Ink, ToSet

\* It is what is seen of a run that holds it.
LEMMA VisibleOne ==
  ASSUME NEW e \in Letters
  PROVE  VisibleText(<<T(<<e>>)>>) = <<e>>
<1>1. <<e>> \in Texts
  BY GlyphInk
<1>2. P \in Nodes
  BY Basics
<1> QED BY <1>1, <1>2, RunSeen

\* Literal texts.
LEMMA LiteralTexts ==
  Literals \subseteq Letters /\ \A e \in Literals : <<e>> \in Texts
<1>1. Literals \subseteq Letters
  BY DEF Letters
<1> QED BY <1>1 DEF Texts

\* A text holds one of its characters.
LEMMA HoldsInk ==
  ASSUME NEW text \in Texts, NEW i \in DOMAIN text, text[i] \notin Blank
  PROVE  Ink(text)
  BY DEF Ink, ToSet

\* Formats of dates: separators and the names of months are no white space.  Those of templates
\* begin with the day.
Patterns == {format \in Seq(DateTokens \cup Separators) :
               format = <<>> \/ \E i \in DOMAIN format : format[i] \in {"/", "-", "MMM", "MMMM"}}
Formats == {format \in Patterns : format = <<>> \/ (1 \in DOMAIN format /\ format[1] \in {"d", "dd"})}
WrittenDates == {date \in AllDates : date.month \in 1..3}

\* A date written in one of the formats is a text, and one that can be seen.
LEMMA DateInk ==
  ASSUME NEW date \in WrittenDates, NEW format \in Patterns
  PROVE  Masked(date, format) \in Texts /\ (format # <<>> => Ink(Masked(date, format)))
<1> DEFINE text == Masked(date, format)
<1>1. format \in Seq(DateTokens \cup Separators) /\ date \in AllDates /\ date.month \in 1..3
  BY DEF Patterns, WrittenDates
<1>2. DOMAIN format = 1..Len(format) /\ Len(format) \in Nat /\ \A i \in DOMAIN format : format[i] \in DateTokens \cup Separators
  BY <1>1
<1>3. text = [i \in DOMAIN format |-> DateToken(date, format[i])]
  BY DEF Masked
<1>4. \A i \in DOMAIN format : DateToken(date, format[i]) \in Letters
  BY <1>1, <1>2 DEF Letters
<1> HIDE DEF text
<1>5. text \in Texts /\ DOMAIN text = DOMAIN format /\ \A i \in DOMAIN format : text[i] = DateToken(date, format[i])
  BY <1>2, <1>3, <1>4 DEF Texts
<1>6. ASSUME format # <<>> PROVE Ink(text)
  <2>1. PICK i \in DOMAIN format : format[i] \in {"/", "-", "MMM", "MMMM"}
    BY <1>6 DEF Patterns
  <2>2. DateToken(date, "/") = "/" /\ DateToken(date, "-") = "-"
    BY DEF DateToken
  <2>3. DateToken(date, "MMMM") = Months.long[date.month] /\ DateToken(date, "MMM") = Months.short[date.month]
    BY DEF DateToken
  <2>4. \A m \in 1..3 : Months.long[m] \in {"January", "February", "March"} /\ Months.short[m] \in {"Jan", "Feb", "Mar"}
    BY DEF Months
  <2>5. DateToken(date, format[i]) \in {"/", "-", "January", "February", "March", "Jan", "Feb", "Mar"}
    BY <1>1, <2>1, <2>2, <2>3, <2>4
  <2>6. DateToken(date, format[i]) \notin Blank
    BY <2>5 DEF Blank, NewLine, Tab
  <2> QED BY <1>5, <2>1, <2>6, HoldsInk
<1> QED BY <1>5, <1>6 DEF text

\* The same of dates as they are stored, from which the date is found again.
LEMMA IsoInk ==
  /\ Dates \subseteq WrittenDates
  /\ \A text \in IsoDates : text \in Texts /\ Ink(text) /\ DateOfIso(text) \in Dates
<1>1. Dates \subseteq WrittenDates
  BY DEF Dates, WrittenDates, AllDates
<1> DEFINE format == <<"yyyy", "-", "MM", "-", "dd">>
<1>2. format \in Patterns /\ format # <<>>
  <2>1. format \in Seq(DateTokens \cup Separators)
    BY DEF DateTokens, Separators
  <2>2. 2 \in DOMAIN format /\ format[2] = "-"
    OBVIOUS
  <2> QED BY <2>1, <2>2 DEF Patterns
<1>3. \A date : Iso(date) = Masked(date, format)
  BY DEF Iso
<1> HIDE DEF format
<1>4. ASSUME NEW text \in IsoDates PROVE text \in Texts /\ Ink(text) /\ DateOfIso(text) \in Dates
  <2>1. PICK date \in Dates : text = Iso(date)
    BY DEF IsoDates
  <2>2. text \in Texts /\ Ink(text)
    BY <1>1, <1>2, <1>3, <2>1, DateInk
  <2>3. DateOfIso(text) \in Dates
    BY <2>1, Zenon DEF DateOfIso
  <2> QED BY <2>2, <2>3
<1> QED BY <1>1, <1>4

\* Also in another calendar.
LEMMA CalendarDates ==
  ASSUME NEW c, NEW date \in WrittenDates
  PROVE  InCalendar(c, date) \in WrittenDates
<1>1. date \in [year : Nat, month : Nat, day : Nat] /\ date.month \in 1..3
  BY DEF WrittenDates, AllDates
<1>2. CASE c.calendar = "thai"
  <2>1. InCalendar(c, date) = [date EXCEPT !.year = @ + 543]
    BY <1>2 DEF InCalendar
  <2>2. date.year + 543 \in Nat
    BY <1>1
  <2> HIDE DEF InCalendar
  <2>3. InCalendar(c, date) \in [year : Nat, month : Nat, day : Nat] /\ InCalendar(c, date).month = date.month
    BY <1>1, <2>1, <2>2
  <2> QED BY <1>1, <2>3 DEF WrittenDates, AllDates
<1>3. CASE c.calendar # "thai"
  BY <1>3 DEF InCalendar
<1> QED BY <1>2, <1>3

\* The dates that are tried, as they are stored.
LEMMA IsoLiterals ==
  IsoDates = {<<"2025", "-", "03", "-", "04">>, <<"2024", "-", "01", "-", "02">>}
<1> DEFINE march == [year |-> 2025, month |-> 3, day |-> 4]
           january == [year |-> 2024, month |-> 1, day |-> 2]
           format == <<"yyyy", "-", "MM", "-", "dd">>
<1>1. ASSUME NEW date
      PROVE  Iso(date) = <<Numeral(date.year), "-", Padded(date.month), "-", Padded(date.day)>>
  <2>1. /\ DateToken(date, "yyyy") = Numeral(date.year) /\ DateToken(date, "-") = "-"
        /\ DateToken(date, "MM") = Padded(date.month) /\ DateToken(date, "dd") = Padded(date.day)
    BY DEF DateToken
  <2>2. Iso(date) = [i \in DOMAIN format |-> DateToken(date, format[i])]
    BY DEF Iso, Masked
  <2>3. DOMAIN format = 1..5
    OBVIOUS
  <2> QED BY <2>1, <2>2, <2>3
<1>2. Numeral(2025) = "2025" /\ Numeral(2024) = "2024"
  BY DEF Numeral
<1>3. Padded(3) = "03" /\ Padded(4) = "04" /\ Padded(1) = "01" /\ Padded(2) = "02"
  BY DEF Padded
<1>4. Iso(march) = <<"2025", "-", "03", "-", "04">> /\ Iso(january) = <<"2024", "-", "01", "-", "02">>
  <2>1. march.year = 2025 /\ march.month = 3 /\ march.day = 4 /\ january.year = 2024 /\ january.month = 1 /\ january.day = 2
    OBVIOUS
  <2> HIDE DEF march, january
  <2> QED BY <1>1, <1>2, <1>3, <2>1
<1>5. Dates = {march, january}
  BY DEF Dates
<1> HIDE DEF march, january
<1> QED BY <1>4, <1>5 DEF IsoDates

\* Texts that are tried as values, apart from the empty one.
Entries == {A, AB, <<"r">>} \cup IsoDates

\* None of them stands for another value or has white space around it.
LEMMA EntriesMade ==
  ASSUME NEW text \in Entries
  PROVE  /\ text \in Words /\ text \in Texts /\ IsText(text) /\ text # <<>> /\ Trim(text) = text
         /\ text # <<"Red">> /\ text # <<"none">>
<1> DEFINE All == {"a", "b", NewLine, "r", "2025", "-", "03", "04", "2024", "01", "02"}
           Edges == All \ {NewLine}
           Fine(t) == /\ t \in Seq(All) /\ t # <<>> /\ t[1] \in Edges /\ t[Len(t)] \in Edges
                      /\ t # <<"Red">> /\ t # <<"none">>
<1>1. Fine(text)
  <2>1. text \in {<<"a">>, <<"a", NewLine, "b">>, <<"r">>, <<"2025", "-", "03", "-", "04">>, <<"2024", "-", "01", "-", "02">>}
    BY IsoLiterals DEF Entries, A, AB
  <2>2. \A e \in Edges : Fine(<<e>>)
    OBVIOUS
  <2>3. \A e \in Edges, f \in All, g \in Edges : Fine(<<e, f, g>>)
    OBVIOUS
  <2>4. \A e \in Edges, f \in All, g \in All, h \in All, i \in Edges : Fine(<<e, f, g, h, i>>)
    OBVIOUS
  <2>5. {"a", "b", "r", "2025", "-", "03", "04", "2024", "01", "02"} \subseteq Edges
    BY DEF NewLine
  <2>6. NewLine \in All /\ Edges \subseteq All
    OBVIOUS
  <2> HIDE DEF Edges, All, Fine
  <2>7. Fine(<<"a">>) /\ Fine(<<"r">>)
    BY <2>2, <2>5
  <2>8. Fine(<<"a", NewLine, "b">>)
    BY <2>3, <2>5, <2>6
  <2>9. Fine(<<"2025", "-", "03", "-", "04">>) /\ Fine(<<"2024", "-", "01", "-", "02">>)
    BY <2>4, <2>5, <2>6
  <2> QED BY <2>1, <2>7, <2>8, <2>9, Zenon
<1>2. All \subseteq Letters \ {"#null", "#true", "#false"}
  <2>1. {"a", "b", NewLine, "r"} \subseteq Letters
    BY DEF Literals, Letters
  <2>2. {"2025", "-", "03", "04", "2024", "01", "02"} \subseteq Letters
    <3>1. /\ <<"2025", "-", "03", "-", "04">> \in Texts /\ <<"2024", "-", "01", "-", "02">> \in Texts
      BY IsoLiterals, IsoInk
    <3>2. \A e, f, g, h, i : <<e, f, g, h, i>> \in Seq(Letters) => {e, f, g, h, i} \subseteq Letters
      <4>1. ASSUME NEW e, NEW f, NEW g, NEW h, NEW i, NEW s \in Seq(Letters), s = <<e, f, g, h, i>>
            PROVE  {e, f, g, h, i} \subseteq Letters
        <5>1. Len(s) = 5 /\ s[1] = e /\ s[2] = f /\ s[3] = g /\ s[4] = h /\ s[5] = i
          BY <4>1
        <5>2. \A k \in 1..Len(s) : s[k] \in Letters
          OBVIOUS
        <5> QED BY <5>1, <5>2
      <4> QED BY <4>1
    <3> QED BY <3>1, <3>2 DEF Texts
  <2>3. {"#null", "#true", "#false"} \cap All = {}
    BY DEF NewLine
  <2> QED BY <2>1, <2>2, <2>3
<1>3. Edges \cap Blank = {}
  BY DEF Blank, NewLine, Tab
<1> HIDE DEF All, Edges
<1>4. text \in Words /\ text \in Texts
  BY <1>1, <1>2 DEF Words, Texts
<1>5. Trim(text) = text
  BY <1>1, <1>3, TrimEdges
<1>6. IsText(text)
  <2>1. 1 \in DOMAIN text /\ text[1] \in All
    BY <1>1
  <2>2. <<"#null">>[1] = "#null" /\ <<"#true">>[1] = "#true" /\ <<"#false">>[1] = "#false"
    OBVIOUS
  <2>3. text[1] \notin {"#null", "#true", "#false"}
    BY <1>2, <2>1
  <2> QED BY <2>2, <2>3 DEF IsText, Null, True, False
<1> QED BY <1>1, <1>4, <1>5, <1>6

\* What stands for another value is no text of that kind.
LEMMA WordsText ==
  ASSUME NEW text \in Words
  PROVE  text \in Texts /\ IsText(text)
<1>1. text \in Texts
  BY DEF Words, Texts
<1>2. ASSUME NEW e \in {"#null", "#true", "#false"} PROVE text # <<e>>
  <2>1. ASSUME text = <<e>> PROVE FALSE
    <3>1. 1 \in DOMAIN text /\ text[1] = e
      BY <2>1
    <3> QED BY <3>1 DEF Words
  <2> QED BY <2>1
<1> QED BY <1>1, <1>2 DEF IsText, Null, True, False

---------------------------------------------------------------------------
(* The documents that are published *)

ControlNames == {"tag", "padded", "others", "tags", "markers", "options", "required", "part", "alternate", "choice",
                 "nested", "block", "format", "calendar", "language", "checked", "unchecked", "content", "showing",
                 "state", "locked", "images"}
DocumentNames == {"controls", "links", "requires", "rels", "media"}

\* What the server and the editor leave as it is.
SameField(c, d) ==
  /\ c.tag = d.tag /\ c.others = d.others /\ c.markers = d.markers /\ c.options = d.options
  /\ c.required = d.required /\ c.part = d.part /\ c.format = d.format /\ c.calendar = d.calendar
  /\ c.checked = d.checked /\ c.unchecked = d.unchecked

\* The options of a list can be told from the constants, and their labels can be seen.
OptionsReadable(options) ==
  \A k \in DOMAIN options : /\ options[k].displayText \in Texts /\ Ink(options[k].displayText)
                            /\ Trim(options[k].displayText) = options[k].displayText
                            /\ options[k].displayText \notin Entries /\ IsText(options[k].displayText)
                            /\ options[k].value \in Texts /\ IsText(options[k].value)
                            /\ options[k].value \in Entries \cup {<<>>} /\ options[k].value # A

\* The parts of a control that texts are made of.
Settings(c) ==
  /\ c.checked \in Letters \ Blank /\ c.unchecked \in Letters
  /\ c.format \in Formats
  /\ \E n \in Nat : DOMAIN c.options = 1..n
  /\ OptionsReadable(c.options)

\* Nobody has filled it in: it shows its placeholder, an unchecked box, a picture or a plain text.
Untouched(c) ==
  \/ c.showing /\ Type(c) # "checkbox"
  \/ ~c.showing /\ Type(c) = "checkbox" /\ VisibleText(c.content) = <<c.unchecked>>
  \/ Type(c) = "picture"
  \/ Type(c) = "text" /\ VisibleText(c.content) \in Words

\* A control of a template.
Made(c) ==
  /\ DOMAIN c = ControlNames
  /\ Settings(c) /\ Untouched(c)
  /\ c.content \in Seq(Nodes) /\ c.block \in BOOLEAN /\ c.state = Null

\* One without other values in its tag element, outside of alternate contents.
Simple(c, tag) == Made(c) /\ c.tag = tag /\ c.others = {} /\ c.alternate = 0

\* A plain control, for any tag.
LEMMA ControlMade ==
  ASSUME NEW tag
  PROVE  /\ Simple(Control(tag), tag) /\ Control(tag).markers = <<"text">>
         /\ Control(tag).required = FALSE /\ Control(tag).showing = TRUE
<1> SUFFICES ASSUME NEW c, c = Control(tag)
             PROVE  Simple(c, tag) /\ c.markers = <<"text">> /\ c.required = FALSE /\ c.showing = TRUE
  OBVIOUS
<1>1. DOMAIN c = ControlNames
  BY DEF Control, ControlNames
<1>2. c.tag = tag /\ c.others = {} /\ c.markers = <<"text">> /\ c.required = FALSE /\ c.alternate = 0 /\ c.showing = TRUE
  BY DEF Control
<1>3. c.checked = "[x]" /\ c.unchecked = "[ ]"
  BY DEF Control
<1>4. c.format = <<>> /\ c.options = <<>> /\ c.block = FALSE /\ c.state = Null
  BY DEF Control
<1>5. c.content = <<T(<<"?">>)>>
  BY DEF Control
<1>6. c.checked \in Letters \ Blank /\ c.unchecked \in Letters
  <2>1. "[x]" \in Literals /\ "[ ]" \in Literals
    BY DEF Literals
  <2>2. "[x]" \notin Blank
    BY DEF Blank, NewLine, Tab
  <2>3. Literals \subseteq Letters
    BY DEF Letters
  <2> QED BY <1>3, <2>1, <2>2, <2>3
<1>7. c.format \in Formats
  BY <1>4 DEF Formats, Patterns
<1>8. DOMAIN c.options = 1..0 /\ OptionsReadable(c.options)
  BY <1>4 DEF OptionsReadable
<1>9. c.content \in Seq(Nodes)
  <2>1. <<"?">> \in Texts
    BY DEF Texts, Letters, Literals
  <2> QED BY <1>5, <2>1, Basics
<1>10. Settings(c)
  <2>1. 0 \in Nat
    OBVIOUS
  <2> QED BY <1>6, <1>7, <1>8, <2>1, Zenon DEF Settings
<1>11. c.block \in BOOLEAN /\ c.state = Null
  BY <1>4
<1>13. Untouched(c)
  <2>1. c.showing = TRUE
    BY DEF Control
  <2>2. Type(c) = "text"
    BY <1>2 DEF Type
  <2> QED BY <2>1, <2>2 DEF Untouched
<1>12. Made(c)
  BY <1>1, <1>9, <1>10, <1>11, <1>13, Zenon DEF Made
<1> QED BY <1>2, <1>12, Zenon DEF Simple

\* The other ways in which the controls of templates are made.
LEMMA RequiredMade ==
  ASSUME NEW c, NEW tag, Simple(c, tag)
  PROVE  Simple(Required(c), tag)
<1> SUFFICES ASSUME NEW d, d = Required(c) PROVE Simple(d, tag)
  OBVIOUS
<1>4. Simple(c, tag)
  OBVIOUS
<1>1. DOMAIN c = ControlNames
  BY <1>4, Zenon DEF Simple, Made
<1>2. DOMAIN d = ControlNames /\ \A n \in ControlNames : n # "required" => d[n] = c[n]
  BY <1>1 DEF Required
<1>3. d.checked = c.checked /\ d.unchecked = c.unchecked /\ d.format = c.format /\ d.options = c.options /\ d.content = c.content
      /\ d.block = c.block /\ d.state = c.state /\ d.tag = c.tag /\ d.others = c.others /\ d.alternate = c.alternate
      /\ d.showing = c.showing /\ d.markers = c.markers
  BY <1>2 DEF ControlNames
<1> QED BY <1>2, <1>3, <1>4 DEF Simple, Made, Settings, Untouched, Type

\* With content that shows.
LEMMA FilledMade ==
  ASSUME NEW tag, NEW content \in Seq(Nodes), VisibleText(content) \in Words
  PROVE  Simple(Filled(tag, content), tag)
<1> SUFFICES ASSUME NEW d, d = Filled(tag, content) PROVE Simple(d, tag)
  OBVIOUS
<1>0. Simple(Control(tag), tag) /\ Control(tag).markers = <<"text">>
  BY ControlMade
<1> DEFINE c == Control(tag)
<1> HIDE DEF c
<1>4. Simple(c, tag) /\ c.markers = <<"text">>
  BY <1>0 DEF c
<1>1. DOMAIN c = ControlNames
  BY <1>4, Zenon DEF Simple, Made
<1>2. DOMAIN d = ControlNames /\ \A n \in ControlNames : n # "content" /\ n # "showing" => d[n] = c[n]
  BY <1>1 DEF Filled, c
<1>3. d.checked = c.checked /\ d.unchecked = c.unchecked /\ d.format = c.format /\ d.options = c.options /\ d.block = c.block
      /\ d.state = c.state /\ d.tag = c.tag /\ d.others = c.others /\ d.alternate = c.alternate /\ d.markers = c.markers
  BY <1>2 DEF ControlNames
<1>5. d.content = content
  BY <1>1 DEF Filled, c, ControlNames
<1> QED BY <1>2, <1>3, <1>4, <1>5 DEF Simple, Made, Settings, Untouched, Type

\* With options.
LEMMA ListMade ==
  ASSUME NEW tag, NEW type, type # "checkbox", NEW options, NEW size \in Nat, DOMAIN options = 1..size, OptionsReadable(options)
  PROVE  Simple(List(tag, type, options), tag)
<1> SUFFICES ASSUME NEW d, d = List(tag, type, options) PROVE Simple(d, tag)
  OBVIOUS
<1>0. Simple(Control(tag), tag) /\ Control(tag).showing = TRUE
  BY ControlMade
<1> DEFINE c == Control(tag)
<1> HIDE DEF c
<1>4. Simple(c, tag) /\ c.showing = TRUE
  BY <1>0 DEF c
<1>1. DOMAIN c = ControlNames
  BY <1>4, Zenon DEF Simple, Made
<1>2. DOMAIN d = ControlNames /\ \A n \in ControlNames : n # "markers" /\ n # "options" => d[n] = c[n]
  BY <1>1 DEF List, c
<1>3. d.checked = c.checked /\ d.unchecked = c.unchecked /\ d.format = c.format /\ d.content = c.content /\ d.block = c.block
      /\ d.state = c.state /\ d.tag = c.tag /\ d.others = c.others /\ d.alternate = c.alternate /\ d.showing = c.showing
  BY <1>2 DEF ControlNames
<1>5. d.options = options /\ d.markers = <<type>>
  BY <1>1 DEF List, c, ControlNames
<1>6. Untouched(d)
  <2>1. Type(d) = type
    BY <1>5 DEF Type
  <2> QED BY <1>3, <1>4, <2>1 DEF Untouched
<1>7. Settings(d)
  BY <1>3, <1>4, <1>5 DEF Simple, Made, Settings
<1> QED BY <1>2, <1>3, <1>4, <1>6, <1>7, Zenon DEF Simple, Made

\* For a picture.
LEMMA PictureMade ==
  ASSUME NEW tag
  PROVE  Simple(Picture(tag), tag) /\ Picture(tag).markers = <<"picture">>
<1> SUFFICES ASSUME NEW d, d = Picture(tag) PROVE Simple(d, tag) /\ d.markers = <<"picture">>
  OBVIOUS
<1>0. Simple(Control(tag), tag)
  BY ControlMade
<1> DEFINE c == Control(tag)
<1> HIDE DEF c
<1>4. Simple(c, tag)
  BY <1>0 DEF c
<1>1. DOMAIN c = ControlNames
  BY <1>4, Zenon DEF Simple, Made
<1>2. DOMAIN d = ControlNames /\ \A n \in ControlNames : n # "markers" /\ n # "content" => d[n] = c[n]
  BY <1>1 DEF Picture, c
<1>3. d.checked = c.checked /\ d.unchecked = c.unchecked /\ d.format = c.format /\ d.options = c.options /\ d.block = c.block
      /\ d.state = c.state /\ d.tag = c.tag /\ d.others = c.others /\ d.alternate = c.alternate
  BY <1>2 DEF ControlNames
<1>5. d.content = <<>> /\ d.markers = <<"picture">>
  BY <1>1 DEF Picture, c, ControlNames
<1>6. Untouched(d)
  BY <1>5 DEF Untouched, Type
<1>7. d.content \in Seq(Nodes)
  BY <1>5
<1>8. Settings(d)
  BY <1>3, <1>4 DEF Simple, Made, Settings
<1>9. Simple(d, tag)
  BY <1>2, <1>3, <1>4, <1>6, <1>7, <1>8, Zenon DEF Simple, Made
<1> QED BY <1>5, <1>9

\* With a picture.
LEMMA HoldingMade ==
  ASSUME NEW tag
  PROVE  Simple(Holding(tag), tag)
<1> SUFFICES ASSUME NEW d, d = Holding(tag) PROVE Simple(d, tag)
  OBVIOUS
<1>0. Simple(Picture(tag), tag) /\ Picture(tag).markers = <<"picture">>
  BY PictureMade
<1> DEFINE c == Picture(tag)
<1> HIDE DEF c
<1>4. Simple(c, tag) /\ c.markers = <<"picture">>
  BY <1>0 DEF c
<1>1. DOMAIN c = ControlNames
  BY <1>4, Zenon DEF Simple, Made
<1>2. DOMAIN d = ControlNames /\ \A n \in ControlNames : n # "images" /\ n # "showing" => d[n] = c[n]
  BY <1>1 DEF Holding, c
<1>3. d.checked = c.checked /\ d.unchecked = c.unchecked /\ d.format = c.format /\ d.options = c.options /\ d.content = c.content
      /\ d.block = c.block /\ d.state = c.state /\ d.tag = c.tag /\ d.others = c.others /\ d.alternate = c.alternate /\ d.markers = c.markers
  BY <1>2 DEF ControlNames
<1> QED BY <1>2, <1>3, <1>4 DEF Simple, Made, Settings, Untouched, Type

\* For a date.
LEMMA DayMade ==
  ASSUME NEW tag, NEW format \in Formats
  PROVE  Simple(Day(tag, format), tag)
<1> SUFFICES ASSUME NEW d, d = Day(tag, format) PROVE Simple(d, tag)
  OBVIOUS
<1>0. Simple(Control(tag), tag) /\ Control(tag).showing = TRUE
  BY ControlMade
<1> DEFINE c == Control(tag)
<1> HIDE DEF c
<1>4. Simple(c, tag) /\ c.showing = TRUE
  BY <1>0 DEF c
<1>1. DOMAIN c = ControlNames
  BY <1>4, Zenon DEF Simple, Made
<1>2. DOMAIN d = ControlNames /\ \A n \in ControlNames : n # "markers" /\ n # "format" => d[n] = c[n]
  BY <1>1 DEF Day, c
<1>3. d.checked = c.checked /\ d.unchecked = c.unchecked /\ d.options = c.options /\ d.content = c.content /\ d.block = c.block
      /\ d.state = c.state /\ d.tag = c.tag /\ d.others = c.others /\ d.alternate = c.alternate /\ d.showing = c.showing
  BY <1>2 DEF ControlNames
<1>5. d.format = format /\ d.markers = <<"date">>
  BY <1>1 DEF Day, c, ControlNames
<1> QED BY <1>2, <1>3, <1>4, <1>5 DEF Simple, Made, Settings, Untouched, Type

\* A box.
LEMMA CheckMade ==
  ASSUME NEW tag
  PROVE  Simple(Check(tag), tag) /\ Check(tag).markers = <<"checkbox">> /\ Check(tag).showing = FALSE
<1> SUFFICES ASSUME NEW d, d = Check(tag) PROVE Simple(d, tag) /\ d.markers = <<"checkbox">> /\ d.showing = FALSE
  OBVIOUS
<1>0. Simple(Control(tag), tag)
  BY ControlMade
<1> DEFINE c == Control(tag)
<1> HIDE DEF c
<1>4. Simple(c, tag)
  BY <1>0 DEF c
<1>1. DOMAIN c = ControlNames
  BY <1>4, Zenon DEF Simple, Made
<1>2. DOMAIN d = ControlNames /\ \A n \in ControlNames : n # "markers" /\ n # "content" /\ n # "showing" => d[n] = c[n]
  BY <1>1 DEF Check, c
<1>3. d.checked = c.checked /\ d.unchecked = c.unchecked /\ d.format = c.format /\ d.options = c.options /\ d.block = c.block
      /\ d.state = c.state /\ d.tag = c.tag /\ d.others = c.others /\ d.alternate = c.alternate
  BY <1>2 DEF ControlNames
<1>5. d.content = <<T(<<"[ ]">>)>> /\ d.markers = <<"checkbox">> /\ d.showing = FALSE
  BY <1>1 DEF Check, c, ControlNames
<1>6. d.content \in Seq(Nodes)
  <2>1. <<"[ ]">> \in Texts
    <3>1. "[ ]" \in Literals
      BY DEF Literals
    <3> QED BY <3>1, LiteralTexts
  <2>2. \A text \in Texts : <<T(text)>> \in Seq(Nodes)
    BY Basics
  <2>3. <<T(<<"[ ]">>)>> \in Seq(Nodes)
    BY <2>1, <2>2, Zenon
  <2> QED BY <1>5, <2>3, Zenon
<1>7. Untouched(d)
  <2>1. c.unchecked = "[ ]"
    BY DEF Control, c
  <2>2. "[ ]" \in Letters
    BY LiteralTexts DEF Literals
  <2>3. VisibleText(d.content) = <<"[ ]">>
    BY <1>5, <2>2, VisibleOne
  <2>7. d.markers = <<"checkbox">>
    BY <1>5, Zenon
  <2>4. Type(d) = "checkbox"
    BY <2>7 DEF Type
  <2>6. ~d.showing
    BY <1>5, Zenon
  <2>5. d.unchecked = "[ ]"
    BY <1>3, <2>1
  <2> HIDE DEF c
  <2> QED BY <2>3, <2>4, <2>5, <2>6, Zenon DEF Untouched
<1> QED BY <1>2, <1>3, <1>4, <1>5, <1>6, <1>7 DEF Simple, Made, Settings

\* A setting that no text is made of.
LEMMA VariantMade ==
  ASSUME NEW c, NEW tag, Simple(c, tag), NEW d, NEW name \in {"padded", "part", "nested", "tags", "calendar", "block", "markers"},
         DOMAIN d = DOMAIN c, \A n \in ControlNames : n # name => d[n] = c[n], d.block \in BOOLEAN,
         name = "markers" => d.showing /\ Type(d) # "checkbox"
  PROVE  Simple(d, tag)
<1>1. DOMAIN d = ControlNames
  BY Zenon DEF Simple, Made
<1>2. /\ d.checked = c.checked /\ d.unchecked = c.unchecked /\ d.format = c.format /\ d.options = c.options
      /\ d.content = c.content /\ d.state = c.state /\ d.tag = c.tag /\ d.others = c.others /\ d.alternate = c.alternate
      /\ d.showing = c.showing
  BY DEF ControlNames
<1>3. Untouched(d)
  <2>1. CASE name = "markers"
    BY <2>1 DEF Untouched
  <2>2. CASE name # "markers"
    <3>1. d.markers = c.markers
      BY <2>2 DEF ControlNames
    <3> QED BY <1>2, <3>1 DEF Simple, Made, Untouched, Type
  <2> QED BY <2>1, <2>2
<1> QED BY <1>1, <1>2, <1>3 DEF Simple, Made, Settings

Links == [part \in {"document", "header", "orphan"} |-> IF part = "document" THEN {"header"} ELSE {}]

\* In the templates one tag stands for one kind of control, and where a tag element carries other
\* values no field is required.
Distinct(S) ==
  /\ (\A c \in S : c.others = {}) \/ (\A c \in S : ~c.required /\ Type(c) # "date")
  /\ \A c, d \in S : c.tag = d.tag => SameField(c, d)

\* By what the editor gives as a tag a field is found; or, in a template that has the same other value in
\* more than one tag element, no field is, and there is more than one.
Own(doc) == \A k \in DOMAIN doc.controls : FieldTag(doc, doc.controls[k]) = doc.controls[k].tag
Nameless(doc) ==
  /\ \A k \in DOMAIN doc.controls :
       Type(doc.controls[k]) # "picture" /\ FieldTag(doc, doc.controls[k]) \notin DOMAIN Manifest(doc)
  /\ \A tag \in DOMAIN Manifest(doc) : \E other \in DOMAIN Manifest(doc) : other # tag

Sound(doc) ==
  /\ Own(doc) \/ Nameless(doc)
  /\ DOMAIN doc = DocumentNames /\ doc.links = Links
  /\ \E S : /\ doc.controls \in Seq(S)
            /\ \A c \in S : Made(c) /\ (c.alternate = 0 \/ c.alternate \in DOMAIN doc.requires)
            /\ Distinct(S)

\* What is in a document that is made of controls.
LEMMA DocumentMade ==
  ASSUME NEW controls
  PROVE  LET doc == Document(controls) IN
         DOMAIN doc = DocumentNames /\ doc.links = Links /\ doc.controls = controls /\ doc.requires = <<>>
  BY DEF Document, DocumentNames, Links

\* Where no tag element carries another value, a field is found by its tag.
LEMMA PlainOwn ==
  ASSUME NEW doc, \A k \in DOMAIN doc.controls : doc.controls[k].others = {}
  PROVE  Own(doc)
<1>1. TagAliases(doc) = {}
  BY DEF TagAliases
<1> QED BY <1>1 DEF FieldTag, Own

\* A document without alternate contents is sound where its controls are made for it.
LEMMA SoundDocument ==
  ASSUME NEW S, NEW controls \in Seq(S), \A c \in S : Made(c) /\ c.alternate = 0, Distinct(S),
         Own(Document(controls)) \/ Nameless(Document(controls))
  PROVE  Sound(Document(controls))
<1> SUFFICES ASSUME NEW doc, doc = Document(controls) PROVE Sound(doc)
  OBVIOUS
<1>1. DOMAIN doc = DocumentNames /\ doc.links = Links /\ doc.controls = controls
  BY DocumentMade
<1> QED BY <1>1, Zenon DEF Sound

\* Of controls without other values.
LEMMA PlainSound ==
  ASSUME NEW S, NEW controls \in Seq(S), \A c \in S : Made(c) /\ c.alternate = 0 /\ c.others = {}, Distinct(S)
  PROVE  Sound(Document(controls))
<1> DEFINE doc == Document(controls)
<1>1. doc.controls = controls
  BY DocumentMade
<1> HIDE DEF doc
<1>2. \A k \in DOMAIN doc.controls : doc.controls[k].others = {}
  BY <1>1
<1>3. Own(doc)
  BY <1>2, PlainOwn
<1> QED BY <1>3, SoundDocument DEF doc

\* Templates of one, two or three of them.
LEMMA OneSound ==
  ASSUME NEW a, NEW s, Simple(a, s)
  PROVE  Sound(Document(<<a>>))
<1>1. <<a>> \in Seq({a})
  OBVIOUS
<1>2. \A c \in {a} : Made(c) /\ c.alternate = 0 /\ c.others = {}
  BY DEF Simple
<1>3. Distinct({a})
  BY DEF Simple, Distinct, SameField
<1> QED BY <1>1, <1>2, <1>3, PlainSound

\* Two controls.
LEMMA TwoSound ==
  ASSUME NEW a, NEW s, Simple(a, s), NEW b, NEW t, Simple(b, t), s # t \/ a = b
  PROVE  Sound(Document(<<a, b>>))
<1>1. <<a, b>> \in Seq({a, b})
  OBVIOUS
<1>2. \A c \in {a, b} : Made(c) /\ c.alternate = 0 /\ c.others = {}
  BY DEF Simple
<1>3. Distinct({a, b})
  BY DEF Simple, Distinct, SameField
<1> QED BY <1>1, <1>2, <1>3, PlainSound

\* Three controls.
LEMMA ThreeSound ==
  ASSUME NEW a, NEW s, Simple(a, s), NEW b, NEW t, Simple(b, t), NEW d, NEW u, Simple(d, u), s # t, s # u, t # u
  PROVE  Sound(Document(<<a, b, d>>))
<1>1. <<a, b, d>> \in Seq({a, b, d})
  OBVIOUS
<1>2. \A c \in {a, b, d} : Made(c) /\ c.alternate = 0 /\ c.others = {}
  BY DEF Simple
<1>3. Distinct({a, b, d})
  BY DEF Simple, Distinct, SameField
<1> QED BY <1>1, <1>2, <1>3, PlainSound

\* An image changes nothing of it.
LEMMA ImageSound ==
  ASSUME NEW doc, Sound(doc), \A k \in DOMAIN doc.controls : doc.controls[k].others = {}
  PROVE  Sound(WithImage(doc))
<1> SUFFICES ASSUME NEW new, new = WithImage(doc) PROVE Sound(new)
  OBVIOUS
<1>1. DOMAIN doc = DocumentNames
  BY Zenon DEF Sound
<1>2. DOMAIN new = DocumentNames /\ new.controls = doc.controls /\ new.links = doc.links /\ new.requires = doc.requires
  BY <1>1 DEF WithImage, DocumentNames
<1>3. Own(new)
  BY <1>2, PlainOwn
<1> QED BY <1>2, <1>3, Zenon DEF Sound

\* Options and formats of the templates.
LEMMA OptionsMade ==
  /\ OptionsReadable(<<Red, Nil>>) /\ DOMAIN <<Red, Nil>> = 1..2
  /\ OptionsReadable(<<Red>>) /\ DOMAIN <<Red>> = 1..1
  /\ OptionsReadable(<<Red, Red>>) /\ DOMAIN <<Red, Red>> = 1..2
  /\ OptionsReadable(<<>>) /\ DOMAIN <<>> = 1..0
<1>1. <<"Red">> \in Texts /\ <<"r">> \in Texts /\ <<"none">> \in Texts /\ <<>> \in Texts
  <2>1. {"Red", "r", "none"} \subseteq Literals
    BY DEF Literals
  <2> QED BY <2>1, LiteralTexts, Basics
<1>2. Ink(<<"Red">>) /\ Ink(<<"none">>)
  <2>1. {"Red", "none"} \subseteq Literals /\ "Red" \notin Blank /\ "none" \notin Blank
    BY DEF Literals, Blank, NewLine, Tab
  <2> QED BY <2>1, LiteralTexts, GlyphInk
<1>8. Trim(<<"Red">>) = <<"Red">> /\ Trim(<<"none">>) = <<"none">>
  <2>1. "Red" \notin Blank /\ "none" \notin Blank
    BY DEF Blank, NewLine, Tab
  <2> QED BY <2>1, TrimOne
<1>9. /\ Red.displayText \notin Entries /\ Nil.displayText \notin Entries
      /\ Red.value \in Entries /\ Nil.value = <<>>
  <2>1. Red.displayText = <<"Red">> /\ Nil.displayText = <<"none">> /\ Red.value = <<"r">> /\ Nil.value = <<>>
    BY DEF Red, Nil
  <2>2. <<"Red">> \notin Entries /\ <<"none">> \notin Entries
    BY EntriesMade
  <2> QED BY <2>1, <2>2 DEF Entries
<1>3. /\ Red.displayText \in Texts /\ Ink(Red.displayText) /\ Red.value \in Texts
      /\ Nil.displayText \in Texts /\ Ink(Nil.displayText) /\ Nil.value \in Texts
      /\ IsText(Red.value) /\ IsText(Nil.value) /\ IsText(Red.displayText) /\ IsText(Nil.displayText)
      /\ Trim(Red.displayText) = Red.displayText /\ Trim(Nil.displayText) = Nil.displayText
      /\ Red.value # A /\ Nil.value # A
  BY <1>1, <1>2, <1>8 DEF Red, Nil, IsText, Null, True, False, A
<1>4. /\ \A k \in DOMAIN <<Red, Nil>> : <<Red, Nil>>[k] \in {Red, Nil}
      /\ \A k \in DOMAIN <<Red>> : <<Red>>[k] \in {Red, Nil}
      /\ \A k \in DOMAIN <<Red, Red>> : <<Red, Red>>[k] \in {Red, Nil}
      /\ DOMAIN <<>> = {}
  OBVIOUS
<1>5. \A options : (\A k \in DOMAIN options : options[k] \in {Red, Nil}) => OptionsReadable(options)
  BY <1>3, <1>9 DEF OptionsReadable
<1>6. OptionsReadable(<<Red, Nil>>) /\ OptionsReadable(<<Red>>) /\ OptionsReadable(<<Red, Red>>) /\ OptionsReadable(<<>>)
  BY <1>4, <1>5
<1>7. DOMAIN <<Red, Nil>> = 1..2 /\ DOMAIN <<Red>> = 1..1 /\ DOMAIN <<Red, Red>> = 1..2 /\ DOMAIN <<>> = 1..0
  OBVIOUS
<1> QED BY <1>6, <1>7

\* The formats of the dates in the templates.
LEMMA FormatsMade ==
  /\ Usual \in Formats
  /\ <<"d", " ", "MMMM", " ", "yyyy">> \in Formats
  /\ <<"d", "-", "MMM", "-", "yy">> \in Formats
  /\ <<>> \in Formats
<1>1. Usual \in Seq(DateTokens \cup Separators) /\ 1 \in DOMAIN Usual /\ Usual[1] = "dd" /\ 2 \in DOMAIN Usual /\ Usual[2] = "/"
  BY DEF Usual, DateTokens, Separators
<1> DEFINE long == <<"d", " ", "MMMM", " ", "yyyy">>
           short == <<"d", "-", "MMM", "-", "yy">>
<1>2. long \in Seq(DateTokens \cup Separators) /\ 1 \in DOMAIN long /\ long[1] = "d" /\ 3 \in DOMAIN long /\ long[3] = "MMMM"
  BY DEF DateTokens, Separators
<1>3. short \in Seq(DateTokens \cup Separators) /\ 1 \in DOMAIN short /\ short[1] = "d" /\ 2 \in DOMAIN short /\ short[2] = "-"
  BY DEF DateTokens, Separators
<1> HIDE DEF long, short
<1>4. \A format \in Seq(DateTokens \cup Separators) : \A i \in DOMAIN format :
        1 \in DOMAIN format /\ format[1] \in {"d", "dd"} /\ format[i] \in {"/", "-", "MMM", "MMMM"} => format \in Formats
  BY DEF Formats, Patterns
<1>5. Usual \in Formats /\ long \in Formats /\ short \in Formats
  BY <1>1, <1>2, <1>3, <1>4
<1>6. <<>> \in Formats
  BY DEF Formats, Patterns
<1> QED BY <1>5, <1>6 DEF long, short

\* The contents of the controls that are filled in beforehand.
LEMMA ContentsMade ==
  /\ <<P, T(A), Br, T(A), P, T(<<"c">>)>> \in Seq(Nodes) /\ <<T(A), TabNode, T(<<"b">>)>> \in Seq(Nodes)
  /\ VisibleText(<<P, T(A), Br, T(A), P, T(<<"c">>)>>) \in Words /\ VisibleText(<<T(A), TabNode, T(<<"b">>)>>) \in Words
<1>1. A \in Texts /\ <<"b">> \in Texts /\ <<"c">> \in Texts
  <2>1. {"a", "b", "c"} \subseteq Literals
    BY DEF Literals
  <2> QED BY <2>1, LiteralTexts DEF A
<1>2. {P, Br, TabNode, T(A), T(<<"b">>), T(<<"c">>)} \subseteq Nodes
  BY <1>1, Basics
<1>3. \A node \in {P, Br, TabNode, T(A), T(<<"b">>), T(<<"c">>)} : node.text \in Words
  <2>1. {"a", "b", "c"} \subseteq Letters \ {"#null", "#true", "#false"}
    BY LiteralTexts DEF Literals
  <2>2. <<>> \in Words /\ A \in Words /\ <<"b">> \in Words /\ <<"c">> \in Words
    BY <2>1 DEF Words, A
  <2> QED BY <2>2 DEF P, Br, TabNode, T
<1> DEFINE note == <<P, T(A), Br, T(A), P, T(<<"c">>)>>
           line == <<T(A), TabNode, T(<<"b">>)>>
<1>4. /\ note \in Seq(Nodes) /\ \A i \in DOMAIN note : note[i] \in {P, Br, TabNode, T(A), T(<<"b">>), T(<<"c">>)}
      /\ line \in Seq(Nodes) /\ \A i \in DOMAIN line : line[i] \in {P, Br, TabNode, T(A), T(<<"b">>), T(<<"c">>)}
  BY <1>2
<1> HIDE DEF note, line
<1>5. VisibleText(note) \in Words /\ VisibleText(line) \in Words
  BY <1>3, <1>4, WordsVisible
<1> QED BY <1>4, <1>5 DEF note, line

\* Templates with other values of tag elements, alternate contents and unusual settings.
LEMMA NamedSound ==
  /\ Sound(Document(<<[Control("note") EXCEPT !.others = {"alias"}], Check("plain")>>))
  /\ Sound(Document(<<[Control("note") EXCEPT !.others = {"alias"}], [Control("line") EXCEPT !.others = {"alias"}]>>))
<1>1. ASSUME NEW tag, NEW c, c = [Control(tag) EXCEPT !.others = {"alias"}]
      PROVE  Made(c) /\ c.tag = tag /\ c.markers = <<"text">> /\ c.required = FALSE /\ c.alternate = 0
  <2>1. /\ Simple(Control(tag), tag) /\ Control(tag).markers = <<"text">> /\ Control(tag).required = FALSE
    BY ControlMade
  <2> DEFINE d == Control(tag)
  <2> HIDE DEF d
  <2>2. Simple(d, tag) /\ d.markers = <<"text">> /\ d.required = FALSE /\ c = [d EXCEPT !.others = {"alias"}]
    BY <1>1, <2>1 DEF d
  <2>3. DOMAIN d = ControlNames
    BY <2>2, Zenon DEF Simple, Made
  <2>4. DOMAIN c = ControlNames /\ \A n \in ControlNames : n # "others" => c[n] = d[n]
    BY <2>2, <2>3
  <2>5. /\ c.checked = d.checked /\ c.unchecked = d.unchecked /\ c.format = d.format /\ c.options = d.options
        /\ c.content = d.content /\ c.block = d.block /\ c.state = d.state
        /\ c.tag = d.tag /\ c.markers = d.markers /\ c.required = d.required /\ c.alternate = d.alternate
        /\ c.showing = d.showing
    BY <2>4 DEF ControlNames
  <2> QED BY <2>2, <2>4, <2>5 DEF Simple, Made, Settings, Untouched, Type
<1>2. ASSUME NEW c, c.markers = <<"text">> PROVE Type(c) = "text"
  BY <1>2 DEF Type
<1>3. Simple(Check("plain"), "plain")
  BY CheckMade
<1>4. Type(Check("plain")) = "checkbox" /\ Check("plain").required = FALSE
  BY DEF Check, Control, Type
<1> DEFINE note == [Control("note") EXCEPT !.others = {"alias"}]
           line == [Control("line") EXCEPT !.others = {"alias"}]
           plain == Check("plain")
<1>5. /\ Made(note) /\ note.tag = "note" /\ Type(note) = "text" /\ note.required = FALSE /\ note.alternate = 0
      /\ Made(line) /\ line.tag = "line" /\ Type(line) = "text" /\ line.required = FALSE /\ line.alternate = 0
  BY <1>1, <1>2
<1>6. Made(plain) /\ plain.tag = "plain" /\ plain.alternate = 0 /\ plain.others = {}
  BY <1>3 DEF Simple
<1>9. /\ note.others = {"alias"} /\ note.part = "document"
      /\ line.others = {"alias"} /\ line.part = "document"
  BY DEF Control
<1> HIDE DEF note, line, plain
<1>7. Sound(Document(<<note, plain>>))
  <2>1. <<note, plain>> \in Seq({note, plain}) /\ \A c \in {note, plain} : Made(c) /\ c.alternate = 0
    BY <1>5, <1>6
  <2>2. Distinct({note, plain})
    BY <1>4, <1>5, <1>6 DEF Distinct, SameField, plain
  <2> DEFINE doc == Document(<<note, plain>>)
  <2>3. doc.controls = <<note, plain>>
    BY DocumentMade
  <2> HIDE DEF doc
  <2>4. DOMAIN doc.controls = {1, 2} /\ doc.controls[1] = note /\ doc.controls[2] = plain
    BY <2>3
  <2>5. AliasTags(doc, "alias") = {"note"}
    <3>1. "document" \in ReachableParts(doc)
      BY DEF ReachableParts
    <3> QED BY <1>5, <1>6, <1>9, <2>4, <3>1 DEF AliasTags
  <2>6. TagAliases(doc) = {"alias"}
    <3>1. Cardinality({"note"}) = 1
      BY FS_Singleton
    <3>2. UNION {doc.controls[i].others : i \in DOMAIN doc.controls} = {"alias"}
      BY <1>6, <1>9, <2>4
    <3>3. {doc.controls[i].tag : i \in DOMAIN doc.controls} = {"note", "plain"}
      BY <1>5, <1>6, <2>4
    <3> QED BY <2>5, <3>1, <3>2, <3>3 DEF TagAliases
  <2>7. FieldTag(doc, note) = "note"
    <3>1. (CHOOSE other \in {"alias"} : TRUE) = "alias" /\ (CHOOSE tag \in {"note"} : TRUE) = "note"
      OBVIOUS
    <3>2. (CHOOSE other \in note.others : TRUE) = "alias" /\ note.others # {}
      BY <1>9, <3>1
    <3> QED BY <2>5, <2>6, <3>1, <3>2 DEF FieldTag
  <2>8. FieldTag(doc, plain) = "plain"
    BY <1>6, <2>6 DEF FieldTag
  <2>9. Own(doc)
    BY <1>5, <1>6, <2>4, <2>7, <2>8 DEF Own
  <2> QED BY <2>1, <2>2, <2>9, SoundDocument DEF doc
<1>8. Sound(Document(<<note, line>>))
  <2>1. <<note, line>> \in Seq({note, line}) /\ \A c \in {note, line} : Made(c) /\ c.alternate = 0
    BY <1>5
  <2>2. Distinct({note, line})
    BY <1>5 DEF Distinct, SameField
  <2> DEFINE doc == Document(<<note, line>>)
  <2>3. doc.controls = <<note, line>>
    BY DocumentMade
  <2> HIDE DEF doc
  <2>4. DOMAIN doc.controls = {1, 2} /\ doc.controls[1] = note /\ doc.controls[2] = line
    BY <2>3
  <2>0. "document" \in ReachableParts(doc)
    BY DEF ReachableParts
  <2>5. AliasTags(doc, "alias") = {"note", "line"}
    BY <1>5, <1>9, <2>0, <2>4 DEF AliasTags
  <2>6. TagAliases(doc) = {}
    <3>1. IsFiniteSet({"note", "line"})
      <4>1. IsFiniteSet({"note"})
        BY FS_Singleton
      <4>2. {"note", "line"} = {"note"} \cup {"line"}
        OBVIOUS
      <4> QED BY <4>1, <4>2, FS_AddElement
    <3>2. Cardinality({"note", "line"}) # 1
      <4>1. \A x : {"note", "line"} # {x}
        OBVIOUS
      <4> QED BY <3>1, <4>1, FS_Singleton
    <3>3. UNION {doc.controls[i].others : i \in DOMAIN doc.controls} = {"alias"}
      BY <1>9, <2>4
    <3> QED BY <2>5, <3>2, <3>3 DEF TagAliases
  <2>7. \A k \in DOMAIN doc.controls : FieldTag(doc, doc.controls[k]) = "alias"
    <3>1. (CHOOSE other \in {"alias"} : TRUE) = "alias"
      OBVIOUS
    <3> QED BY <1>9, <2>4, <2>6, <3>1 DEF FieldTag
  <2>8. DOMAIN Manifest(doc) = {"note", "line"}
    <3>1. Read(doc) = {1, 2}
      BY <1>5, <1>9, <2>0, <2>4 DEF Read, InFallback
    <3> QED BY <1>5, <2>4, <3>1 DEF Manifest
  <2>9. Nameless(doc)
    BY <1>5, <2>4, <2>7, <2>8 DEF Nameless
  <2> QED BY <2>1, <2>2, <2>9, SoundDocument DEF doc
<1> QED BY <1>7, <1>8 DEF note, line, plain

\* A control in an alternate content.
LEMMA AlternateMade ==
  ASSUME NEW tag, NEW c, Simple(c, tag), NEW choice
  PROVE  LET d == InAlternate(c, choice) IN
         Made(d) /\ d.alternate = 1 /\ d.choice = choice /\ d.tag = tag /\ d.others = {} /\ SameField(d, c)
<1> SUFFICES ASSUME NEW d, d = InAlternate(c, choice)
             PROVE  Made(d) /\ d.alternate = 1 /\ d.choice = choice /\ d.tag = tag /\ d.others = {} /\ SameField(d, c)
  OBVIOUS
<1>1. DOMAIN c = ControlNames
  BY Zenon DEF Simple, Made
<1>2. /\ DOMAIN d = ControlNames /\ d.alternate = 1 /\ d.choice = choice
      /\ \A n \in ControlNames : n \notin {"alternate", "choice"} => d[n] = c[n]
  BY <1>1 DEF InAlternate, ControlNames
<1>3. /\ d.checked = c.checked /\ d.unchecked = c.unchecked /\ d.format = c.format /\ d.options = c.options
      /\ d.content = c.content /\ d.block = c.block /\ d.state = c.state
      /\ d.tag = c.tag /\ d.others = c.others /\ d.markers = c.markers /\ d.required = c.required
      /\ d.part = c.part /\ d.calendar = c.calendar /\ d.showing = c.showing
  BY <1>2 DEF ControlNames
<1> QED BY <1>2, <1>3 DEF Simple, Made, Settings, SameField, Untouched, Type

\* Documents with an alternate content.
LEMMA ChosenSound ==
  ASSUME NEW S, NEW controls \in Seq(S), NEW requires, 1 \in DOMAIN <<requires>>,
         \A c \in S : Made(c) /\ c.alternate \in {0, 1} /\ c.others = {},
         \A c, d \in S : c.tag = d.tag => SameField(c, d)
  PROVE  Sound(With(Document(controls), requires))
<1> DEFINE doc == Document(controls)
<1>1. DOMAIN doc = DocumentNames /\ doc.links = Links /\ doc.controls = controls
  BY DocumentMade
<1> HIDE DEF doc
<1> SUFFICES ASSUME NEW new, new = With(doc, requires) PROVE Sound(new)
  BY DEF doc
<1>2. DOMAIN new = DocumentNames /\ new.controls = controls /\ new.links = Links /\ new.requires = <<requires>>
  BY <1>1 DEF With, DocumentNames
<1>3. Distinct(S)
  BY DEF Distinct
<1>4. \A c \in S : Made(c) /\ (c.alternate = 0 \/ c.alternate \in DOMAIN new.requires)
  BY <1>2
<1>5. \A k \in DOMAIN new.controls : new.controls[k].others = {}
  BY <1>2
<1>6. Own(new)
  BY <1>5, PlainOwn
<1> QED BY <1>2, <1>3, <1>4, <1>6, Zenon DEF Sound

\* A control of a template of which one setting differs.
LEMMA UnusualMade ==
  /\ \A s : \A part : Simple([Control(s) EXCEPT !.part = part], s)
  /\ \A s : Simple([Control(s) EXCEPT !.padded = TRUE], s)
  /\ \A s : \A n : Simple([Control(s) EXCEPT !.tags = n], s)
  /\ \A s : \A markers : 1 \in DOMAIN markers /\ markers[1] # "checkbox" => Simple([Control(s) EXCEPT !.markers = markers], s)
  /\ \A s : Simple([Check(s) EXCEPT !.nested = TRUE], s)
  /\ \A s : Simple([Picture(s) EXCEPT !.part = "header"], s)
  /\ \A s : Simple([Day(s, Usual) EXCEPT !.calendar = "thai"], s)
<1>1. ASSUME NEW s, NEW c, Simple(c, s), NEW name \in {"padded", "part", "nested", "tags", "calendar", "markers"}, NEW value,
             name = "markers" => c.showing /\ 1 \in DOMAIN value /\ value[1] # "checkbox"
      PROVE  Simple([c EXCEPT ![name] = value], s)
  <2> SUFFICES ASSUME NEW d, d = [c EXCEPT ![name] = value] PROVE Simple(d, s)
    OBVIOUS
  <2>1. DOMAIN c = ControlNames /\ c.block \in BOOLEAN
    BY <1>1, Zenon DEF Simple, Made
  <2>2. DOMAIN d = DOMAIN c /\ (\A n \in ControlNames : n # name => d[n] = c[n]) /\ d.block = c.block
    BY <2>1 DEF ControlNames
  <2>3. name = "markers" => d.showing /\ Type(d) # "checkbox"
    BY <1>1, <2>1, <2>2 DEF ControlNames, Type
  <2> QED BY <1>1, <2>1, <2>2, <2>3, VariantMade
<1>2. \A s : \A format \in Formats : Simple(Control(s), s) /\ Simple(Check(s), s) /\ Simple(Picture(s), s) /\ Simple(Day(s, format), s)
  BY ControlMade, CheckMade, PictureMade, DayMade
<1>3. \A s : \A markers : 1 \in DOMAIN markers /\ markers[1] # "checkbox" => Simple([Control(s) EXCEPT !.markers = markers], s)
  BY <1>1, ControlMade
<1> QED BY <1>1, <1>2, <1>3, FormatsMade

\* A control around whole paragraphs.
LEMMA BlockMade ==
  ASSUME NEW c, NEW tag, Simple(c, tag)
  PROVE  Simple([c EXCEPT !.block = TRUE], tag)
<1> SUFFICES ASSUME NEW d, d = [c EXCEPT !.block = TRUE] PROVE Simple(d, tag)
  OBVIOUS
<1>1. DOMAIN c = ControlNames
  BY Zenon DEF Simple, Made
<1>2. DOMAIN d = DOMAIN c /\ (\A n \in ControlNames : n # "block" => d[n] = c[n]) /\ d.block = TRUE
  BY <1>1 DEF ControlNames
<1> QED BY <1>2, VariantMade

\* A checkbox whose glyphs are equal.
LEMMA UncheckedMade ==
  ASSUME NEW tag
  PROVE  Simple([Check(tag) EXCEPT !.unchecked = "[x]", !.content = <<T(<<"[x]">>)>>], tag)
<1> DEFINE c == Check(tag)
<1>1. Simple(c, tag) /\ c.markers = <<"checkbox">> /\ c.showing = FALSE
  BY CheckMade
<1> HIDE DEF c
<1> SUFFICES ASSUME NEW d, d = [c EXCEPT !.unchecked = "[x]", !.content = <<T(<<"[x]">>)>>] PROVE Simple(d, tag)
  BY DEF c
<1>2. DOMAIN c = ControlNames
  BY <1>1, Zenon DEF Simple, Made
<1>3. /\ DOMAIN d = ControlNames /\ d.unchecked = "[x]" /\ d.content = <<T(<<"[x]">>)>>
      /\ \A n \in ControlNames : n \notin {"unchecked", "content"} => d[n] = c[n]
  BY <1>2 DEF ControlNames
<1>4. /\ d.checked = c.checked /\ d.format = c.format /\ d.options = c.options /\ d.block = c.block
      /\ d.state = c.state /\ d.tag = c.tag /\ d.others = c.others /\ d.alternate = c.alternate
      /\ d.markers = c.markers /\ d.showing = c.showing
  BY <1>3 DEF ControlNames
<1>5. "[x]" \in Letters /\ <<"[x]">> \in Texts
  <2>1. "[x]" \in Literals
    BY DEF Literals
  <2> QED BY <2>1, LiteralTexts
<1>6. T(<<"[x]">>) \in Nodes
  BY <1>5, Basics
<1>7. d.content \in Seq(Nodes)
  BY <1>3, <1>6
<1>8. Untouched(d)
  <2>1. VisibleText(d.content) = <<"[x]">>
    BY <1>3, <1>5, VisibleOne
  <2> QED BY <1>1, <1>3, <1>4, <2>1 DEF Untouched, Type
<1> QED BY <1>1, <1>3, <1>4, <1>5, <1>7, <1>8 DEF Simple, Made, Settings

\* Every template that the models publish is sound.
LEMMA TemplatesSound ==
  ASSUME NEW name \in DOMAIN TemplateDocuments
  PROVE  Sound(TemplateDocuments[name])
<1> DEFINE Is(n, doc) == TemplateDocuments[n] = doc
<1>1. DOMAIN TemplateDocuments =
        {"notes", "padded", "lists", "blank", "days", "loose", "thai", "checks", "pictures", "apart", "named", "copied",
         "twice", "nested", "chosen", "fallback", "second", "same", "untagged", "retagged", "mixed", "grouped", "empty",
         "equal", "without"}
  BY DEF TemplateDocuments
<1>2. \A tag : /\ Simple(Control(tag), tag) /\ Simple(Picture(tag), tag) /\ Simple(Holding(tag), tag) /\ Simple(Check(tag), tag)
               /\ \A format \in Formats : Simple(Day(tag, format), tag)
  BY ControlMade, PictureMade, HoldingMade, CheckMade, DayMade
<1>3. \A tag : \A type \in {"dropdown", "combo"} :
                     /\ Simple(List(tag, type, <<Red, Nil>>), tag) /\ Simple(List(tag, type, <<Red>>), tag)
                     /\ Simple(List(tag, type, <<Red, Red>>), tag) /\ Simple(List(tag, type, <<>>), tag)
  <2>1. 0 \in Nat /\ 1 \in Nat /\ 2 \in Nat /\ \A type \in {"dropdown", "combo"} : type # "checkbox"
    OBVIOUS
  <2> QED BY <2>1, OptionsMade, ListMade, Zenon
<1>4. CASE name = "notes"
  <2>1. TemplateDocuments[name] =
          Document(<<Required([Filled("note", <<P, T(A), Br, T(A), P, T(<<"c">>)>>) EXCEPT !.block = TRUE]),
                     Filled("line", <<T(A), TabNode, T(<<"b">>)>>)>>)
    BY <1>4 DEF TemplateDocuments
  <2>2. Simple(Filled("note", <<P, T(A), Br, T(A), P, T(<<"c">>)>>), "note") /\ Simple(Filled("line", <<T(A), TabNode, T(<<"b">>)>>), "line")
    BY ContentsMade, FilledMade
  <2>3. Simple(Required([Filled("note", <<P, T(A), Br, T(A), P, T(<<"c">>)>>) EXCEPT !.block = TRUE]), "note")
    BY <2>2, BlockMade, RequiredMade
  <2> QED BY <2>1, <2>2, <2>3, TwoSound
<1>5. CASE name = "padded"
  <2>1. TemplateDocuments[name] =
          Document(<<[Control("note") EXCEPT !.padded = TRUE], [Control("head") EXCEPT !.part = "header"],
                     [Control("lost") EXCEPT !.part = "orphan"]>>)
    BY <1>5 DEF TemplateDocuments
  <2>2. /\ Simple([Control("note") EXCEPT !.padded = TRUE], "note")
        /\ Simple([Control("head") EXCEPT !.part = "header"], "head")
        /\ Simple([Control("lost") EXCEPT !.part = "orphan"], "lost")
    BY UnusualMade
  <2>3. "note" # "head" /\ "note" # "lost" /\ "head" # "lost"
    OBVIOUS
  <2>4. \A a, b, d : Simple(a, "note") /\ Simple(b, "head") /\ Simple(d, "lost") => Sound(Document(<<a, b, d>>))
    BY <2>3, ThreeSound
  <2> QED BY <2>1, <2>2, <2>4, Zenon
<1>6. CASE name = "lists"
  <2>1. TemplateDocuments[name] = Document(<<List("one", "dropdown", <<Red, Nil>>), Required(List("any", "combo", <<Red>>))>>)
    BY <1>6 DEF TemplateDocuments
  <2>2. Simple(List("one", "dropdown", <<Red, Nil>>), "one") /\ Simple(Required(List("any", "combo", <<Red>>)), "any")
    BY <1>3, RequiredMade
  <2>3. "one" # "any"
    OBVIOUS
  <2>4. Sound(Document(<<List("one", "dropdown", <<Red, Nil>>), Required(List("any", "combo", <<Red>>))>>))
    BY <2>2, <2>3, TwoSound, Zenon
  <2> QED BY <2>1, <2>4, Zenon
<1>7. CASE name = "blank"
  <2>1. TemplateDocuments[name] = Document(<<Required(List("one", "dropdown", <<Red, Nil>>)), Required(Check("agreed"))>>)
    BY <1>7 DEF TemplateDocuments
  <2>2. Simple(Required(List("one", "dropdown", <<Red, Nil>>)), "one") /\ Simple(Required(Check("agreed")), "agreed")
    BY <1>2, <1>3, RequiredMade
  <2> QED BY <2>1, <2>2, TwoSound
<1>8. CASE name = "days"
  <2>1. TemplateDocuments[name] = Document(<<Required(Day("day", Usual)), Day("long", <<"d", " ", "MMMM", " ", "yyyy">>)>>)
    BY <1>8 DEF TemplateDocuments
  <2>2. Simple(Required(Day("day", Usual)), "day") /\ Simple(Day("long", <<"d", " ", "MMMM", " ", "yyyy">>), "long")
    BY <1>2, FormatsMade, RequiredMade
  <2>3. "day" # "long"
    OBVIOUS
  <2>4. Sound(Document(<<Required(Day("day", Usual)), Day("long", <<"d", " ", "MMMM", " ", "yyyy">>)>>))
    BY <2>2, <2>3, TwoSound, Zenon
  <2> QED BY <2>1, <2>4, Zenon
<1>9. CASE name = "loose"
  <2>1. TemplateDocuments[name] = Document(<<Day("day", <<>>), Day("short", <<"d", "-", "MMM", "-", "yy">>)>>)
    BY <1>9 DEF TemplateDocuments
  <2>2. Simple(Day("day", <<>>), "day") /\ Simple(Day("short", <<"d", "-", "MMM", "-", "yy">>), "short")
    BY <1>2, FormatsMade
  <2> QED BY <2>1, <2>2, TwoSound
<1>10. CASE name = "thai"
  <2>1. TemplateDocuments[name] = Document(<<[Day("day", Usual) EXCEPT !.calendar = "thai"], Check("agreed")>>)
    BY <1>10 DEF TemplateDocuments
  <2>2. Simple([Day("day", Usual) EXCEPT !.calendar = "thai"], "day") /\ Simple(Check("agreed"), "agreed")
    BY <1>2, UnusualMade
  <2> QED BY <2>1, <2>2, TwoSound
<1>11. CASE name = "checks"
  <2>1. TemplateDocuments[name] =
          Document(<<[Check("plain") EXCEPT !.unchecked = "[x]", !.content = <<T(<<"[x]">>)>>], Required(Check("agreed"))>>)
    BY <1>11 DEF TemplateDocuments
  <2>2. /\ Simple([Check("plain") EXCEPT !.unchecked = "[x]", !.content = <<T(<<"[x]">>)>>], "plain")
        /\ Simple(Required(Check("agreed")), "agreed")
    BY <1>2, UncheckedMade, RequiredMade
  <2> QED BY <2>1, <2>2, TwoSound
<1>12. CASE name = "pictures"
  <2>1. TemplateDocuments[name] = Document(<<Required(Picture("p")), Picture("q")>>)
    BY <1>12 DEF TemplateDocuments
  <2>2. Simple(Required(Picture("p")), "p") /\ Simple(Picture("q"), "q")
    BY <1>2, RequiredMade
  <2> QED BY <2>1, <2>2, TwoSound
<1>13. CASE name = "apart"
  <2>1. TemplateDocuments[name] = WithImage(Document(<<Holding("p"), [Picture("q") EXCEPT !.part = "header"]>>))
    BY <1>13 DEF TemplateDocuments
  <2>2. Simple(Holding("p"), "p") /\ Simple([Picture("q") EXCEPT !.part = "header"], "q")
    BY <1>2, UnusualMade
  <2>3. Sound(Document(<<Holding("p"), [Picture("q") EXCEPT !.part = "header"]>>))
    BY <2>2, TwoSound
  <2> DEFINE doc == Document(<<Holding("p"), [Picture("q") EXCEPT !.part = "header"]>>)
  <2>4. doc.controls = <<Holding("p"), [Picture("q") EXCEPT !.part = "header"]>>
    BY DocumentMade
  <2> HIDE DEF doc
  <2>6. Holding("p").others = {} /\ [Picture("q") EXCEPT !.part = "header"].others = {}
    BY <2>2 DEF Simple
  <2>7. \A a, b : doc.controls = <<a, b>> /\ a.others = {} /\ b.others = {} =>
                 \A k \in DOMAIN doc.controls : doc.controls[k].others = {}
    OBVIOUS
  <2>5. \A k \in DOMAIN doc.controls : doc.controls[k].others = {}
    BY <2>4, <2>6, <2>7, Zenon
  <2> QED BY <2>1, <2>3, <2>5, ImageSound DEF doc
<1>14. CASE name = "copied"
  <2>1. TemplateDocuments[name] = WithImage(Document(<<Holding("p"), Holding("q")>>))
    BY <1>14 DEF TemplateDocuments
  <2>2. Sound(Document(<<Holding("p"), Holding("q")>>))
    BY <1>2, TwoSound
  <2> DEFINE doc == Document(<<Holding("p"), Holding("q")>>)
  <2>4. doc.controls = <<Holding("p"), Holding("q")>>
    BY DocumentMade
  <2> HIDE DEF doc
  <2>5. \A k \in DOMAIN doc.controls : doc.controls[k].others = {}
    BY <1>2, <2>4 DEF Simple
  <2> QED BY <2>1, <2>2, <2>5, ImageSound DEF doc
<1>15. CASE name = "named"
  <2>1. TemplateDocuments[name] = Document(<<[Control("note") EXCEPT !.others = {"alias"}], Check("plain")>>)
    BY <1>15 DEF TemplateDocuments
  <2> QED BY <2>1, NamedSound
<1>16. CASE name = "twice"
  <2>1. TemplateDocuments[name] =
          Document(<<[Control("note") EXCEPT !.others = {"alias"}], [Control("line") EXCEPT !.others = {"alias"}]>>)
    BY <1>16 DEF TemplateDocuments
  <2> QED BY <2>1, NamedSound
<1>17. CASE name = "nested"
  <2>1. TemplateDocuments[name] = Document(<<[Check("plain") EXCEPT !.nested = TRUE], Control("note")>>)
    BY <1>17 DEF TemplateDocuments
  <2>2. Simple([Check("plain") EXCEPT !.nested = TRUE], "plain") /\ Simple(Control("note"), "note")
    BY <1>2, UnusualMade
  <2>3. "plain" # "note"
    OBVIOUS
  <2> QED BY <2>1, <2>2, <2>3, TwoSound, Zenon
<1>18. CASE name \in {"chosen", "fallback", "second"}
  <2> DEFINE c(tag, choice) == InAlternate(Control(tag), choice)
  <2>1. \A tag, choice : /\ Made(c(tag, choice)) /\ c(tag, choice).alternate = 1 /\ c(tag, choice).tag = tag
                         /\ c(tag, choice).others = {} /\ SameField(c(tag, choice), Control(tag))
    BY <1>2, AlternateMade
  <2>2. 1 \in DOMAIN << <<TRUE>> >> /\ 1 \in DOMAIN << <<TRUE, TRUE>> >>
    OBVIOUS
  <2>3. Simple(Check("plain"), "plain")
    BY <1>2
  <2> HIDE DEF c
  <2>4. \A d, e, f : SameField(d, f) /\ SameField(e, f) => SameField(d, e)
    BY DEF SameField
  <2>5. CASE name = "chosen"
    <3>1. TemplateDocuments[name] = With(Document(<<c("note", 1), c("other", 0), Check("plain")>>), <<TRUE>>)
      BY <2>5 DEF TemplateDocuments, c
    <3> DEFINE S == {c("note", 1), c("other", 0), Check("plain")}
    <3>2. <<c("note", 1), c("other", 0), Check("plain")>> \in Seq(S)
      OBVIOUS
    <3>3. \A d \in S : Made(d) /\ d.alternate \in {0, 1} /\ d.others = {}
      BY <2>1, <2>3 DEF Simple
    <3>4. \A d, e \in S : d.tag = e.tag => SameField(d, e)
      BY <2>1, <2>3, <2>4 DEF Simple, SameField
    <3> HIDE DEF S
    <3>5. Sound(With(Document(<<c("note", 1), c("other", 0), Check("plain")>>), <<TRUE>>))
      BY <2>2, <3>2, <3>3, <3>4, ChosenSound
    <3> QED BY <3>1, <3>5, Zenon
  <2>6. CASE name = "fallback"
    <3>1. TemplateDocuments[name] = With(Document(<<c("note", 1), c("note", 0)>>), <<TRUE>>)
      BY <2>6 DEF TemplateDocuments, c
    <3> DEFINE S == {c("note", 1), c("note", 0)}
    <3>2. <<c("note", 1), c("note", 0)>> \in Seq(S)
      OBVIOUS
    <3>3. \A d \in S : Made(d) /\ d.alternate \in {0, 1} /\ d.others = {}
      BY <2>1
    <3>4. \A d, e \in S : SameField(d, e)
      BY <2>1, <2>4
    <3> HIDE DEF S
    <3> QED BY <2>2, <3>1, <3>2, <3>3, <3>4, ChosenSound
  <2>7. CASE name = "second"
    <3>1. TemplateDocuments[name] = With(Document(<<c("note", 2)>>), <<TRUE, TRUE>>)
      BY <2>7 DEF TemplateDocuments, c
    <3> DEFINE S == {c("note", 2)}
    <3>2. <<c("note", 2)>> \in Seq(S)
      OBVIOUS
    <3>3. \A d \in S : Made(d) /\ d.alternate \in {0, 1} /\ d.others = {}
      BY <2>1
    <3>4. \A d, e \in S : SameField(d, e)
      BY <2>1, <2>4
    <3> HIDE DEF S
    <3> QED BY <2>2, <3>1, <3>2, <3>3, <3>4, ChosenSound
  <2> QED BY <1>18, <2>5, <2>6, <2>7
<1>19. CASE name = "same"
  <2>1. TemplateDocuments[name] = Document(<<Control("note"), Control("note")>>)
    BY <1>19 DEF TemplateDocuments
  <2> QED BY <1>2, <2>1, TwoSound
<1>20. CASE name \in {"untagged", "retagged", "mixed", "grouped", "without"}
  <2>1. CASE name = "untagged"
    <3>1. TemplateDocuments[name] = Document(<<Control("")>>)
      BY <2>1 DEF TemplateDocuments
    <3> QED BY <1>2, <3>1, OneSound
  <2>2. CASE name = "retagged"
    <3>1. TemplateDocuments[name] = Document(<<[Control("note") EXCEPT !.tags = 2]>>)
      BY <2>2 DEF TemplateDocuments
    <3> QED BY <3>1, UnusualMade, OneSound
  <2>3. CASE name = "mixed"
    <3>1. TemplateDocuments[name] = Document(<<[Control("note") EXCEPT !.markers = <<"date", "text">>]>>)
      BY <2>3 DEF TemplateDocuments
    <3> QED BY <3>1, UnusualMade, OneSound
  <2>4. CASE name = "grouped"
    <3>1. TemplateDocuments[name] = Document(<<[Control("note") EXCEPT !.markers = <<"group">>]>>)
      BY <2>4 DEF TemplateDocuments
    <3> QED BY <3>1, UnusualMade, OneSound
  <2>5. CASE name = "without"
    <3>1. TemplateDocuments[name] = Document(<<[Control("lost") EXCEPT !.part = "orphan"]>>)
      BY <2>5 DEF TemplateDocuments
    <3> QED BY <3>1, UnusualMade, OneSound
  <2> QED BY <1>20, <2>1, <2>2, <2>3, <2>4, <2>5
<1>21. CASE name = "empty"
  <2>1. TemplateDocuments[name] = Document(<<List("one", "dropdown", <<>>)>>)
    BY <1>21 DEF TemplateDocuments
  <2> QED BY <1>3, <2>1, OneSound
<1>22. CASE name = "equal"
  <2>1. TemplateDocuments[name] = Document(<<List("one", "combo", <<Red, Red>>)>>)
    BY <1>22 DEF TemplateDocuments
  <2> QED BY <1>3, <2>1, OneSound
<1> QED BY <1>1, <1>4, <1>5, <1>6, <1>7, <1>8, <1>9, <1>10, <1>11, <1>12, <1>13, <1>14, <1>15, <1>16, <1>17, <1>18,
          <1>19, <1>20, <1>21, <1>22

---------------------------------------------------------------------------
(* Documents that come of a template *)

\* A reader sees something in the control.
Shows(c) == ~c.showing /\ Ink(VisibleText(c.content))

\* What a control shows is what its properties say, or a text that can be a value of its field.
Exact(c) ==
  /\ Type(c) = "checkbox" => ~c.showing /\ VisibleText(c.content) = Glyph(c, c.state)
  /\ Type(c) = "date" => \/ c.state = Null /\ Shown(c) = <<>>
                         \/ c.state \in IsoDates /\ Shown(c) = EditorDisplay(c, c.state)
  /\ IsList(c) => \/ Shown(c) = <<>>
                  \/ Labelled(c, Shown(c)) # {}
                  \/ Type(c) = "combo" /\ Shown(c) \in Entries /\ Valued(c, Shown(c)) = {}
  /\ Type(c) = "text" => Shown(c) \in Words

\* A control that comes of one of the template: a checked box and a chosen date can be seen.
GoodControl(pub, c) ==
  /\ DOMAIN c = ControlNames
  /\ c.content \in Seq(Nodes) /\ c.block \in BOOLEAN /\ c.state \in Texts
  /\ c.alternate = 0 \/ c.alternate \in DOMAIN pub.requires
  /\ \E k \in DOMAIN pub.controls : SameField(c, pub.controls[k])
  /\ Type(c) = "checkbox" /\ c.state = True => Shows(c)
  /\ Type(c) = "date" /\ c.state # Null => Shows(c)
  /\ Exact(c)

GoodDocument(pub, doc) ==
  /\ DOMAIN doc = DocumentNames /\ doc.links = Links /\ doc.requires = pub.requires
  /\ \E S : doc.controls \in Seq(S) /\ \A c \in S : GoodControl(pub, c)

\* The constants are texts, are told apart, and only the empty one counts as text.
LEMMA ConstantTexts ==
  /\ Null \in Texts /\ True \in Texts /\ False \in Texts /\ <<>> \in Texts
  /\ Null # True /\ Null # False /\ True # False
  /\ ~IsText(Null) /\ ~IsText(True) /\ ~IsText(False) /\ IsText(<<>>)
<1>1. {"#null", "#true", "#false"} \subseteq Literals
  BY DEF Literals
<1>2. Null \in Texts /\ True \in Texts /\ False \in Texts /\ <<>> \in Texts
  BY <1>1, LiteralTexts, Basics DEF Null, True, False
<1>3. Null # True /\ Null # False /\ True # False /\ <<>> # Null /\ <<>> # True /\ <<>> # False
  BY DEF Null, True, False
<1> QED BY <1>2, <1>3 DEF IsText

\* A control shows something where its trimmed text is not empty.
LEMMA SeenInk ==
  ASSUME NEW c, c.content \in Seq(Nodes)
  PROVE  Trim(Shown(c)) # <<>> <=> Shows(c)
<1>1. VisibleText(c.content) \in Texts
  BY VisibleWritten
<1>2. Trim(VisibleText(c.content)) # <<>> <=> Ink(VisibleText(c.content))
  BY <1>1, TrimInk DEF Texts
<1>3. Trim(<<>>) = <<>>
  <2>1. <<>> \in Texts /\ ~Ink(<<>>)
    BY Basics DEF Ink, ToSet
  <2> QED BY <2>1, TrimInk DEF Texts
<1>4. CASE c.showing
  BY <1>3, <1>4 DEF Shown, Shows
<1>5. CASE ~c.showing
  BY <1>2, <1>5 DEF Shown, Shows
<1> QED BY <1>4, <1>5

\* A trimmed text is a text.
LEMMA TrimTexts ==
  ASSUME NEW text \in Texts
  PROVE  Trim(text) \in Texts
  BY TrimInk DEF Texts

\* So is what a control shows.
LEMMA ShownTexts ==
  ASSUME NEW c, c.content \in Seq(Nodes)
  PROVE  Shown(c) \in Texts /\ Trim(Shown(c)) \in Texts
<1>1. VisibleText(c.content) \in Texts /\ <<>> \in Texts
  BY VisibleWritten, Basics
<1>2. Shown(c) \in Texts
  BY <1>1 DEF Shown
<1> QED BY <1>2, TrimTexts

\* What is seen where a text is written anew.
LEMMA FreshSeen ==
  ASSUME NEW text \in Texts, NEW block \in BOOLEAN, NEW d, d.content = Fresh(text, block)
  PROVE  VisibleText(d.content) = text /\ (~d.showing => Shown(d) = text)
<1>1. VisibleText(d.content) = text
  BY FreshShown
<1> QED BY <1>1 DEF Shown

\* A control that nobody has filled in is exact.
LEMMA MadeExact ==
  ASSUME NEW c, Made(c)
  PROVE  Exact(c)
<1>1. Untouched(c) /\ c.state = Null /\ Null # True
  BY ConstantTexts DEF Made
<1>2. <<>> \in Words
  BY DEF Words
<1>3. CASE Type(c) = "checkbox"
  <2>1. ~c.showing /\ VisibleText(c.content) = <<c.unchecked>>
    BY <1>1, <1>3 DEF Untouched
  <2> QED BY <1>1, <1>3, <2>1 DEF Exact, Glyph, IsList
<1>4. CASE Type(c) = "picture"
  BY <1>4 DEF Exact, IsList
<1>5. CASE Type(c) \notin {"checkbox", "picture"} /\ c.showing
  <2>1. Shown(c) = <<>>
    BY <1>5 DEF Shown
  <2> QED BY <1>1, <1>2, <1>5, <2>1 DEF Exact
<1>6. CASE Type(c) \notin {"checkbox", "picture"} /\ ~c.showing
  <2>1. Type(c) = "text" /\ VisibleText(c.content) \in Words
    BY <1>1, <1>6 DEF Untouched
  <2>2. Shown(c) \in Words
    BY <1>6, <2>1 DEF Shown
  <2> QED BY <2>1, <2>2 DEF Exact, IsList
<1> QED BY <1>3, <1>4, <1>5, <1>6

\* The template is such a document.
LEMMA PublishedGood ==
  ASSUME NEW pub, Sound(pub)
  PROVE  GoodDocument(pub, pub)
<1>1. PICK S : /\ pub.controls \in Seq(S)
               /\ \A c \in S : Made(c) /\ (c.alternate = 0 \/ c.alternate \in DOMAIN pub.requires)
               /\ Distinct(S)
  BY DEF Sound
<1> DEFINE R == {pub.controls[k] : k \in DOMAIN pub.controls}
<1>2. pub.controls \in Seq(R) /\ R \subseteq S
  BY <1>1
<1>3. ASSUME NEW c \in R PROVE GoodControl(pub, c)
  <2>1. Made(c) /\ (c.alternate = 0 \/ c.alternate \in DOMAIN pub.requires)
    BY <1>1, <1>2
  <2>2. \E k \in DOMAIN pub.controls : SameField(c, pub.controls[k])
    BY DEF SameField
  <2>3. c.state = Null /\ Null \in Texts /\ Null # True
    BY <2>1, ConstantTexts DEF Made
  <2>4. Exact(c)
    BY <2>1, MadeExact
  <2> QED BY <2>1, <2>2, <2>3, <2>4 DEF GoodControl, Made
<1>4. DOMAIN pub = DocumentNames /\ pub.links = Links
  BY DEF Sound
<1> HIDE DEF R
<1> QED BY <1>2, <1>3, <1>4, Zenon DEF GoodDocument

\* One tag stands for one kind of control.
LEMMA SameTag ==
  ASSUME NEW pub, Sound(pub), NEW c, NEW d, GoodControl(pub, c), GoodControl(pub, d), c.tag = d.tag
  PROVE  SameField(c, d)
<1>1. PICK S : pub.controls \in Seq(S) /\ Distinct(S)
  BY DEF Sound
<1>2. PICK j \in DOMAIN pub.controls : SameField(c, pub.controls[j])
  BY DEF GoodControl
<1>3. PICK k \in DOMAIN pub.controls : SameField(d, pub.controls[k])
  BY DEF GoodControl
<1>4. pub.controls[j] \in S /\ pub.controls[k] \in S
  BY <1>1
<1>5. pub.controls[j].tag = pub.controls[k].tag
  BY <1>2, <1>3 DEF SameField
<1>6. SameField(pub.controls[j], pub.controls[k])
  BY <1>1, <1>4, <1>5 DEF Distinct
<1> QED BY <1>2, <1>3, <1>6 DEF SameField

\* A control that comes of the template has settings as they are there.
LEMMA GoodSettings ==
  ASSUME NEW pub, Sound(pub), NEW c, GoodControl(pub, c)
  PROVE  Settings(c)
<1>1. PICK S : pub.controls \in Seq(S) /\ \A d \in S : Made(d)
  BY DEF Sound
<1>2. PICK k \in DOMAIN pub.controls : SameField(c, pub.controls[k])
  BY DEF GoodControl
<1>3. Made(pub.controls[k])
  BY <1>1
<1> QED BY <1>2, <1>3 DEF Made, Settings, SameField

\* Where dates or required fields are, a tag element carries no other value than its tag.
LEMMA OwnTags ==
  ASSUME NEW pub, Sound(pub), NEW c, GoodControl(pub, c), c.required \/ Type(c) = "date",
         NEW d, GoodControl(pub, d)
  PROVE  FieldTag(pub, d) = d.tag
<1>1. PICK S : pub.controls \in Seq(S) /\ Distinct(S)
  BY DEF Sound
<1>2. PICK j \in DOMAIN pub.controls : SameField(c, pub.controls[j])
  BY DEF GoodControl
<1>3. PICK k \in DOMAIN pub.controls : SameField(d, pub.controls[k])
  BY DEF GoodControl
<1>4. pub.controls[j] \in S /\ pub.controls[k] \in S
  BY <1>1
<1>5. pub.controls[j].required \/ Type(pub.controls[j]) = "date"
  BY <1>2 DEF SameField, Type
<1>6. \A e \in S : e.others = {}
  BY <1>1, <1>4, <1>5 DEF Distinct
<1>7. \A i \in DOMAIN pub.controls : pub.controls[i].others = {}
  BY <1>1, <1>6
<1>8. TagAliases(pub) = {}
  BY <1>7 DEF TagAliases
<1>9. d.others = {}
  BY <1>3, <1>7 DEF SameField
<1> QED BY <1>8, <1>9 DEF FieldTag

\* Where another value stands in place of a tag, no field is found, and there is more than one.
LEMMA NamelessTag ==
  ASSUME NEW pub, Sound(pub), NEW c, GoodControl(pub, c), FieldTag(pub, c) # c.tag
  PROVE  Nameless(pub) /\ FieldTag(pub, c) \notin DOMAIN Manifest(pub)
<1>1. PICK k \in DOMAIN pub.controls : SameField(c, pub.controls[k])
  BY DEF GoodControl
<1>2. c.others = pub.controls[k].others /\ c.tag = pub.controls[k].tag
  BY <1>1 DEF SameField
<1>3. FieldTag(pub, c) = FieldTag(pub, pub.controls[k])
  BY <1>2 DEF FieldTag
<1>4. Nameless(pub)
  BY <1>2, <1>3, Zenon DEF Sound, Own
<1> QED BY <1>3, <1>4, Zenon DEF Nameless

\* By the tag that is given of a control its field is found, if one is.
LEMMA OwnTag ==
  ASSUME NEW pub, Sound(pub), NEW c, GoodControl(pub, c), FieldTag(pub, c) \in DOMAIN Manifest(pub)
  PROVE  FieldTag(pub, c) = c.tag
  BY NamelessTag, Zenon

\* What may change in a control.
LEMMA EditedGood ==
  ASSUME NEW pub, NEW c, GoodControl(pub, c), NEW d, DOMAIN d = ControlNames,
         \A n \in ControlNames \ {"content", "showing", "state", "locked", "padded", "images"} : d[n] = c[n],
         d.content \in Seq(Nodes), d.state \in Texts,
         (Type(c) = "checkbox" /\ d.state = True) \/ (Type(c) = "date" /\ d.state # Null) => Shows(d), Exact(d)
  PROVE  /\ GoodControl(pub, d) /\ SameField(d, c)
         /\ d.alternate = c.alternate /\ d.choice = c.choice /\ Type(d) = Type(c)
<1>1. /\ d.tag = c.tag /\ d.others = c.others /\ d.markers = c.markers /\ d.options = c.options
      /\ d.required = c.required /\ d.part = c.part /\ d.format = c.format /\ d.calendar = c.calendar
      /\ d.checked = c.checked /\ d.unchecked = c.unchecked
      /\ d.alternate = c.alternate /\ d.choice = c.choice /\ d.block = c.block
  BY DEF ControlNames
<1>2. SameField(d, c) /\ Type(d) = Type(c)
  BY <1>1 DEF SameField, Type
<1>3. PICK k \in DOMAIN pub.controls : SameField(c, pub.controls[k])
  BY DEF GoodControl
<1>4. SameField(d, pub.controls[k])
  BY <1>2, <1>3 DEF SameField
<1> QED BY <1>1, <1>2, <1>4 DEF GoodControl

---------------------------------------------------------------------------
(* What the editor and its plugin make of a control *)

Follows(pub, d, c) ==
  /\ GoodControl(pub, d) /\ SameField(d, c)
  /\ d.alternate = c.alternate /\ d.choice = c.choice /\ Type(d) = Type(c)

\* A text that a control may show with a state.
Presents(c, text, state) ==
  /\ Type(c) = "checkbox" => text = Glyph(c, state)
  /\ Type(c) = "date" => state \in IsoDates /\ text = EditorDisplay(c, state)
  /\ IsList(c) => Labelled(c, text) # {} \/ (Type(c) = "combo" /\ text \in Entries /\ Valued(c, text) = {})
  /\ Type(c) = "text" => text \in Words

\* A control whose text and state are replaced.
LEMMA ShowsText ==
  ASSUME NEW pub, NEW c, GoodControl(pub, c), NEW text \in Texts, NEW state \in Texts,
         NEW d, DOMAIN d = ControlNames, \A n \in ControlNames \ {"content", "showing", "state"} : d[n] = c[n],
         d.content = Fresh(text, c.block), d.showing = FALSE, d.state = state,
         (Type(c) = "checkbox" /\ state = True) \/ (Type(c) = "date" /\ state # Null) => Ink(text),
         Presents(c, text, state)
  PROVE  Follows(pub, d, c)
<1>1. c.block \in BOOLEAN
  BY DEF GoodControl
<1>2. d.content \in Seq(Nodes) /\ (Ink(text) => Ink(VisibleText(d.content)))
  BY <1>1, FreshInk
<1>3. Ink(text) => Shows(d)
  BY <1>2 DEF Shows
<1>4. /\ d.block = c.block /\ d.markers = c.markers /\ d.options = c.options /\ d.format = c.format
      /\ d.calendar = c.calendar /\ d.checked = c.checked /\ d.unchecked = c.unchecked
  BY DEF ControlNames
<1>5. VisibleText(d.content) = text /\ Shown(d) = text /\ ~d.showing
  <2>1. ~d.showing
    BY Zenon
  <2>2. VisibleText(d.content) = text /\ (~d.showing => Shown(d) = text)
    BY <1>1, FreshSeen, Zenon
  <2> QED BY <2>1, <2>2, Zenon
<1>6. Exact(d)
  <2>1. Type(d) = Type(c) /\ (IsList(d) <=> IsList(c))
    BY <1>4 DEF Type, IsList
  <2>2. /\ \A value : Glyph(d, value) = Glyph(c, value) /\ EditorDisplay(d, value) = EditorDisplay(c, value)
        /\ \A value : Labelled(d, value) = Labelled(c, value) /\ Valued(d, value) = Valued(c, value)
    BY <1>4 DEF Glyph, EditorDisplay, InCalendar, Labelled, Valued
  <2> QED BY <1>5, <2>1, <2>2 DEF Presents, Exact
<1> QED BY <1>2, <1>3, <1>6, EditedGood DEF Follows

\* A text is typed.
LEMMA TypedGood ==
  ASSUME NEW pub, NEW c, GoodControl(pub, c), NEW text \in Texts,
         \/ Type(c) = "text" /\ text \in Words
         \/ Type(c) = "combo" /\ text \in Entries /\ Valued(c, text) = {}
  PROVE  Follows(pub, Typed(c, text), c)
<1> SUFFICES ASSUME NEW d, d = Typed(c, text) PROVE Follows(pub, d, c)
  OBVIOUS
<1>1. DOMAIN c = ControlNames
  BY DEF GoodControl
<1>2. /\ DOMAIN d = ControlNames /\ \A n \in ControlNames \ {"content", "showing", "state"} : d[n] = c[n]
      /\ d.content = Fresh(text, c.block) /\ d.showing = FALSE /\ d.state = Null
  BY <1>1 DEF Typed, ShowText, ControlNames
<1>3. Presents(c, text, Null)
  BY DEF Presents, IsList
<1> QED BY <1>2, <1>3, ShowsText, ConstantTexts

\* An option is chosen.
LEMMA SelectedGood ==
  ASSUME NEW pub, NEW c, GoodControl(pub, c), IsList(c),
         NEW option, option.displayText \in Texts, option.value \in Texts, NEW k \in DOMAIN c.options, option = c.options[k]
  PROVE  Follows(pub, Selected(c, option), c)
<1> SUFFICES ASSUME NEW d, d = Selected(c, option) PROVE Follows(pub, d, c)
  OBVIOUS
<1>1. DOMAIN c = ControlNames
  BY DEF GoodControl
<1>2. /\ DOMAIN d = ControlNames /\ \A n \in ControlNames \ {"content", "showing", "state"} : d[n] = c[n]
      /\ d.content = Fresh(option.displayText, c.block) /\ d.showing = FALSE /\ d.state = option.value
  BY <1>1 DEF Selected, ShowText, ControlNames
<1>3. Type(c) \in {"combo", "dropdown"}
  BY DEF IsList
<1>4. Labelled(c, option.displayText) # {}
  BY DEF Labelled
<1>5. Presents(c, option.displayText, option.value)
  BY <1>3, <1>4 DEF Presents
<1> QED BY <1>2, <1>3, <1>5, ShowsText

\* A box is checked or cleared.
LEMMA CheckedGood ==
  ASSUME NEW pub, Sound(pub), NEW c, GoodControl(pub, c), Type(c) = "checkbox", NEW value \in {True, False}
  PROVE  Follows(pub, Checked(c, value), c)
<1> SUFFICES ASSUME NEW d, d = Checked(c, value) PROVE Follows(pub, d, c)
  OBVIOUS
<1>1. DOMAIN c = ControlNames
  BY DEF GoodControl
<1>2. /\ DOMAIN d = ControlNames /\ \A n \in ControlNames \ {"content", "showing", "state"} : d[n] = c[n]
      /\ d.content = Fresh(Glyph(c, value), c.block) /\ d.showing = FALSE /\ d.state = value
  BY <1>1 DEF Checked, ControlNames
<1>3. Glyph(c, value) \in Texts /\ (value = True => Ink(Glyph(c, value)))
  BY GoodSettings, GlyphInk DEF Settings, Glyph
<1>4. Presents(c, Glyph(c, value), value)
  BY DEF Presents, IsList
<1>5. value \in Texts
  BY ConstantTexts
<1> QED BY <1>2, <1>3, <1>4, <1>5, ShowsText, ConstantTexts

\* The editor and the server show a date as a text that can be seen.
LEMMA DisplayInk ==
  ASSUME NEW pub, Sound(pub), NEW c, GoodControl(pub, c), NEW text \in IsoDates
  PROVE  /\ EditorDisplay(c, text) \in Texts /\ Ink(EditorDisplay(c, text))
         /\ NativeDateDisplayValue(c, text) \in Texts /\ Ink(NativeDateDisplayValue(c, text))
<1>1. text \in Texts /\ Ink(text) /\ DateOfIso(text) \in WrittenDates
  BY IsoInk
<1>2. InCalendar(c, DateOfIso(text)) \in WrittenDates
  BY <1>1, CalendarDates
<1>3. c.format \in Patterns
  BY GoodSettings DEF Settings, Formats
<1> QED BY <1>1, <1>2, <1>3, DateInk DEF EditorDisplay, NativeDateDisplayValue

\* A date is chosen.
LEMMA DatedGood ==
  ASSUME NEW pub, Sound(pub), NEW c, GoodControl(pub, c), Type(c) = "date", NEW text \in IsoDates
  PROVE  Follows(pub, Dated(c, text), c)
<1> SUFFICES ASSUME NEW d, d = Dated(c, text) PROVE Follows(pub, d, c)
  OBVIOUS
<1>1. DOMAIN c = ControlNames
  BY DEF GoodControl
<1>2. /\ DOMAIN d = ControlNames /\ \A n \in ControlNames \ {"content", "showing", "state"} : d[n] = c[n]
      /\ d.content = Fresh(EditorDisplay(c, text), c.block) /\ d.showing = FALSE /\ d.state = text
  BY <1>1 DEF Dated, ShowText, ControlNames
<1>3. Presents(c, EditorDisplay(c, text), text)
  BY DEF Presents, IsList
<1> QED BY <1>2, <1>3, ShowsText, DisplayInk, IsoInk

\* A control is cleared.
LEMMA ClearedGood ==
  ASSUME NEW pub, NEW c, GoodControl(pub, c), Type(c) # "checkbox"
  PROVE  Follows(pub, Cleared(c), c)
<1> SUFFICES ASSUME NEW d, d = Cleared(c) PROVE Follows(pub, d, c)
  OBVIOUS
<1>1. DOMAIN c = ControlNames /\ c.block \in BOOLEAN
  BY DEF GoodControl
<1>2. /\ DOMAIN d = ControlNames /\ \A n \in ControlNames \ {"content", "showing", "state"} : d[n] = c[n]
      /\ d.content = Fresh(<<"?">>, c.block) /\ d.showing = TRUE /\ d.state = Null
  BY <1>1 DEF Cleared, ControlNames
<1>3. <<"?">> \in Texts
  <2>1. "?" \in Literals
    BY DEF Literals
  <2> QED BY <2>1, LiteralTexts
<1>4. d.content \in Seq(Nodes)
  BY <1>1, <1>2, <1>3, FreshInk
<1>5. Exact(d)
  <2>1. Shown(d) = <<>> /\ <<>> \in Words
    BY <1>2 DEF Shown, Words
  <2>2. d.markers = c.markers
    BY <1>2 DEF ControlNames
  <2> QED BY <1>2, <2>1, <2>2 DEF Exact, Type
<1> QED BY <1>2, <1>4, <1>5, ConstantTexts, EditedGood DEF Follows

\* What the user makes of a control.
LEMMA ChangedGood ==
  ASSUME NEW pub, Sound(pub), NEW c, GoodControl(pub, c), NEW d \in Changed(c)
  PROVE  Follows(pub, d, c)
<1>8. A \in Entries /\ A \in Words
  BY EntriesMade DEF Entries
<1>9. <<" ">> \o AB \in Words
  <2> DEFINE W == Letters \ {"#null", "#true", "#false"}
  <2>1. " " \in W
    BY LiteralTexts DEF Literals
  <2>2. <<" ">> \in Seq(W)
    <3>1. \A e \in W : <<e>> \in Seq(W)
      OBVIOUS
    <3> QED BY <2>1, <3>1, Zenon
  <2>3. AB \in Seq(W)
    BY EntriesMade DEF Entries, Words
  <2> QED BY <2>2, <2>3, JoinElements, Zenon DEF Words
<1>1. /\ <<" ">> \o AB \in Texts /\ A \in Texts
  <2>1. {"a", "b", NewLine} \subseteq Letters
    <3>1. {"a", "b", NewLine} \subseteq Literals
      BY DEF Literals
    <3> QED BY <3>1, LiteralTexts
  <2>2. AB \in Seq(Letters) /\ A \in Seq(Letters)
    BY <2>1 DEF A, AB
  <2>3. <<" ">> \in Seq(Letters)
    <3>1. " " \in Literals
      BY Zenon DEF Literals
    <3> QED BY <3>1, LiteralTexts, Zenon DEF Texts
  <2>4. <<" ">> \o AB \in Seq(Letters)
    BY <2>2, <2>3, JoinElements, Zenon
  <2> QED BY <2>2, <2>4, Zenon DEF Texts
<1>2. Settings(c)
  BY GoodSettings
<1>3. CASE Type(c) = "text"
  <2> DEFINE new == [c EXCEPT !.content = IF c.block THEN <<P, T(A), P, TabNode>> ELSE <<T(A), TabNode, T(<<>>)>>,
                              !.showing = FALSE]
  <2>1. d \in {Typed(c, <<" ">> \o AB), Cleared(c), new}
    BY <1>3 DEF Changed
  <2>2. ASSUME d = new PROVE Follows(pub, d, c)
    <3>1. DOMAIN c = ControlNames
      BY DEF GoodControl
    <3>2. /\ DOMAIN d = ControlNames /\ \A n \in ControlNames \ {"content", "showing"} : d[n] = c[n]
          /\ d.content \in {<<P, T(A), P, TabNode>>, <<T(A), TabNode, T(<<>>)>>}
      BY <2>2, <3>1 DEF ControlNames
    <3>3. {P, TabNode, T(A), T(<<>>)} \subseteq Nodes
      BY <1>1, Basics
    <3>4. <<P, T(A), P, TabNode>> \in Seq(Nodes) /\ <<T(A), TabNode, T(<<>>)>> \in Seq(Nodes)
      BY <3>3
    <3>5. d.content \in Seq(Nodes)
      BY <3>2, <3>4
    <3>6. d.state = c.state /\ c.state \in Texts
      BY <3>2 DEF GoodControl, ControlNames
    <3>7. d.markers = c.markers /\ <<>> \in Words
      BY <3>2 DEF ControlNames, Words
    <3>8. VisibleText(d.content) \in Words
      <4>1. \A node \in {P, TabNode, T(A), T(<<>>)} : node.text \in Words
        BY <1>8, <3>7 DEF P, TabNode, T
      <4>2. \A i \in DOMAIN d.content : d.content[i] \in {P, TabNode, T(A), T(<<>>)}
        BY <3>2
      <4> QED BY <3>5, <4>1, <4>2, WordsVisible
    <3>9. Exact(d)
      <4>1. Type(d) = "text"
        BY <1>3, <3>7 DEF Type
      <4>2. Shown(d) \in Words
        BY <3>7, <3>8 DEF Shown
      <4> QED BY <4>1, <4>2 DEF Exact, IsList
    <3> QED BY <1>3, <3>2, <3>5, <3>6, <3>9, EditedGood DEF Follows
  <2> QED BY <1>1, <1>3, <1>9, <2>1, <2>2, TypedGood, ClearedGood
<1>4. CASE Type(c) = "checkbox"
  <2>1. d \in {Checked(c, True), Checked(c, False)}
    BY <1>4 DEF Changed
  <2> QED BY <1>4, <2>1, CheckedGood
<1>5. CASE Type(c) = "date"
  <2>1. d \in {Dated(c, text) : text \in IsoDates} \cup {Cleared(c)}
    BY <1>5 DEF Changed
  <2> QED BY <1>5, <2>1, DatedGood, ClearedGood
<1>6. CASE Type(c) \in {"combo", "dropdown"}
  <2>1. \/ d \in {Selected(c, c.options[k]) : k \in DOMAIN c.options} \cup {Cleared(c)}
        \/ Type(c) = "combo" /\ d = Typed(c, A)
    BY <1>6 DEF Changed
  <2>3. IsList(c)
    BY <1>6 DEF IsList
  <2>4. Valued(c, A) = {}
    BY <1>2 DEF Settings, OptionsReadable, Valued
  <2>2. \A k \in DOMAIN c.options : c.options[k].displayText \in Texts /\ c.options[k].value \in Texts
    BY <1>2 DEF Settings, OptionsReadable
  <2>5. \A k \in DOMAIN c.options : Follows(pub, Selected(c, c.options[k]), c)
    BY <2>2, <2>3, SelectedGood
  <2>6. Type(c) = "combo" => Follows(pub, Typed(c, A), c)
    BY <1>1, <1>8, <2>4, TypedGood
  <2>7. Follows(pub, Cleared(c), c)
    BY <1>6, ClearedGood
  <2> QED BY <2>1, <2>5, <2>6, <2>7
<1>7. CASE Type(c) \notin {"text", "checkbox", "date", "combo", "dropdown"}
  BY <1>7 DEF Changed
<1> QED BY <1>3, <1>4, <1>5, <1>6, <1>7

\* A value of the Prefill in a control.
LEMMA SetValueGood ==
  ASSUME NEW pub, Sound(pub), NEW c, GoodControl(pub, c), NEW value \in Texts,
         Type(c) = "date" => value \in IsoDates,
         Type(c) = "text" /\ IsText(value) => value \in Words,
         Type(c) = "combo" /\ IsText(value) /\ Valued(c, value) = {} => value \in Entries
  PROVE  Follows(pub, SetControlValue(c, value), c)
<1>1. Settings(c)
  BY GoodSettings
<1>2. Follows(pub, c, c)
  BY DEF Follows, SameField
<1>3. CASE Type(c) = "checkbox"
  <2>1. SetControlValue(c, value) \in {Checked(c, True), Checked(c, False)}
    BY <1>3 DEF SetControlValue, IsList
  <2> QED BY <1>3, <2>1, CheckedGood
<1>4. CASE Type(c) = "date"
  <2>1. SetControlValue(c, value) \in {Dated(c, value), Cleared(c)}
    BY <1>4 DEF SetControlValue, IsList
  <2> QED BY <1>4, <2>1, DatedGood, ClearedGood
<1>5. CASE IsList(c)
  <2> DEFINE items == Valued(c, value)
  <2>0. Type(c) \in {"dropdown", "combo"}
    BY <1>5 DEF IsList
  <2>1. \/ items # {} /\ SetControlValue(c, value) = Selected(c, c.options[Min(items)])
        \/ SetControlValue(c, value) = c
        \/ /\ Type(c) = "combo" /\ IsText(value) /\ Valued(c, value) = {}
           /\ SetControlValue(c, value) = Typed(c, value)
    <3> HIDE DEF items
    <3>1. CASE items # {}
      BY <1>5, <2>0, <3>1 DEF SetControlValue, items
    <3>2. CASE items = {}
      BY <1>5, <2>0, <3>2 DEF SetControlValue, items
    <3> QED BY <3>1, <3>2
  <2>2. ASSUME items # {} PROVE Min(items) \in DOMAIN c.options
    <3>1. items \in SUBSET (DOMAIN c.options) /\ items \in SUBSET Nat
      BY <1>1 DEF Settings, Valued
    <3> QED BY <2>2, <3>1, MinIn
  <2>3. \A k \in DOMAIN c.options : c.options[k].displayText \in Texts /\ c.options[k].value \in Texts
    BY <1>1 DEF Settings, OptionsReadable
  <2> HIDE DEF items
  <2>4. items # {} => Follows(pub, Selected(c, c.options[Min(items)]), c)
    BY <1>5, <2>2, <2>3, SelectedGood
  <2> QED BY <1>2, <2>1, <2>4, TypedGood
<1>6. CASE Type(c) \notin {"checkbox", "date"} /\ ~IsList(c)
  <2>1. Type(c) \notin {"combo", "dropdown"}
    BY <1>6 DEF IsList
  <2>2. \/ Type(c) = "text" /\ IsText(value) /\ SetControlValue(c, value) = Typed(c, value)
        \/ SetControlValue(c, value) \in {Cleared(c), c}
    BY <1>6, <2>1 DEF SetControlValue
  <2> QED BY <1>2, <1>6, <2>2, TypedGood, ClearedGood
<1> QED BY <1>3, <1>4, <1>5, <1>6

\* Texts, checks and dates change no images.
LEMMA ValueImages ==
  ASSUME NEW c, DOMAIN c = ControlNames
  PROVE  /\ \A text : Typed(c, text).images = c.images /\ Dated(c, text).images = c.images
         /\ \A option : Selected(c, option).images = c.images
         /\ \A value : Checked(c, value).images = c.images
         /\ Cleared(c).images = c.images
<1>1. ASSUME NEW text, NEW state PROVE [ShowText(c, text) EXCEPT !.state = state].images = c.images
  <2>1. PICK d : d = ShowText(c, text)
    OBVIOUS
  <2>2. DOMAIN d = ControlNames /\ d.images = c.images
    BY <2>1 DEF ShowText, ControlNames
  <2> QED BY <2>1, <2>2 DEF ControlNames
<1>2. \A text : Typed(c, text).images = c.images /\ Dated(c, text).images = c.images
  BY <1>1 DEF Typed, Dated
<1>3. \A option : Selected(c, option).images = c.images
  BY <1>1 DEF Selected
<1>4. \A value : Checked(c, value).images = c.images
  BY DEF Checked, ControlNames
<1>5. Cleared(c).images = c.images
  BY DEF Cleared, ControlNames
<1> QED BY <1>2, <1>3, <1>4, <1>5

\* Neither does what the user or the plugin makes of a control, and of pictures they make nothing.
LEMMA ChangedImages ==
  ASSUME NEW c, DOMAIN c = ControlNames
  PROVE  /\ \A d \in Changed(c) : d.images = c.images
         /\ Type(c) = "picture" => Changed(c) = {}
         /\ \A value : SetControlValue(c, value).images = c.images
<1> DEFINE new == [c EXCEPT !.content = IF c.block THEN <<P, T(A), P, TabNode>> ELSE <<T(A), TabNode, T(<<>>)>>, !.showing = FALSE]
<1>1. new.images = c.images
  BY DEF ControlNames
<1>2. ASSUME NEW d \in Changed(c) PROVE d.images = c.images
  <2>1. CASE Type(c) = "text"
    <3> DEFINE typed == Typed(c, <<" ">> \o AB)
               cleared == Cleared(c)
    <3>1. d \in {typed, cleared, new}
      BY <1>2, <2>1, Zenon DEF Changed
    <3>2. typed.images = c.images /\ cleared.images = c.images
      BY ValueImages, Zenon
    <3> HIDE DEF new, typed, cleared
    <3> QED BY <1>1, <3>1, <3>2
  <2>2. CASE Type(c) = "checkbox"
    <3>1. d \in {Checked(c, True), Checked(c, False)}
      BY <1>2, <2>2, Zenon DEF Changed
    <3> QED BY <3>1, ValueImages
  <2>3. CASE Type(c) = "date"
    <3>1. d \in {Dated(c, text) : text \in IsoDates} \cup {Cleared(c)}
      BY <1>2, <2>3, Zenon DEF Changed
    <3> QED BY <3>1, ValueImages
  <2>4. CASE Type(c) = "combo"
    <3>1. d \in {Selected(c, c.options[k]) : k \in DOMAIN c.options} \cup {Typed(c, A), Cleared(c)}
      BY <1>2, <2>4, Zenon DEF Changed
    <3> QED BY <3>1, ValueImages
  <2>5. CASE Type(c) = "dropdown"
    <3>1. d \in {Selected(c, c.options[k]) : k \in DOMAIN c.options} \cup {Cleared(c)}
      BY <1>2, <2>5, Zenon DEF Changed
    <3> QED BY <3>1, ValueImages
  <2>6. CASE Type(c) \notin {"text", "checkbox", "date", "combo", "dropdown"}
    <3>1. d \in {}
      BY <1>2, <2>6, Zenon DEF Changed
    <3> QED BY <3>1
  <2> QED BY <2>1, <2>2, <2>3, <2>4, <2>5, <2>6
<1>3. Type(c) = "picture" => Changed(c) = {}
  BY DEF Changed
<1>4. ASSUME NEW value PROVE SetControlValue(c, value).images = c.images
  BY ValueImages DEF SetControlValue
<1> QED BY <1>2, <1>3, <1>4

---------------------------------------------------------------------------
(* Documents *)

\* A document that comes of the template is a sequence of such controls.
LEMMA GoodControls ==
  ASSUME NEW pub, NEW doc, GoodDocument(pub, doc)
  PROVE  /\ Len(doc.controls) \in Nat /\ DOMAIN doc.controls = 1..Len(doc.controls)
         /\ \A i \in DOMAIN doc.controls : GoodControl(pub, doc.controls[i])
<1>1. PICK S : doc.controls \in Seq(S) /\ \A c \in S : GoodControl(pub, c)
  BY DEF GoodDocument
<1> QED BY <1>1

\* A document with other controls that come of the template, given one by one.
LEMMA DocumentGood ==
  ASSUME NEW pub, NEW doc, GoodDocument(pub, doc), NEW new, DOMAIN new = DocumentNames,
         new.links = doc.links, new.requires = doc.requires,
         NEW n \in Nat, NEW f, new.controls = [i \in 1..n |-> f[i]], \A i \in 1..n : GoodControl(pub, f[i])
  PROVE  GoodDocument(pub, new)
<1> DEFINE S == {f[i] : i \in 1..n}
<1>1. \A i \in 1..n : f[i] \in S
  OBVIOUS
<1>2. \A c \in S : GoodControl(pub, c)
  OBVIOUS
<1> HIDE DEF S
<1>3. new.controls \in Seq(S)
  BY <1>1
<1> QED BY <1>2, <1>3 DEF GoodDocument

\* The same, of any sequence of them.
LEMMA SequenceGood ==
  ASSUME NEW pub, NEW doc, GoodDocument(pub, doc), NEW new, DOMAIN new = DocumentNames,
         new.links = doc.links, new.requires = doc.requires,
         NEW S, new.controls \in Seq(S), \A c \in S : GoodControl(pub, c)
  PROVE  GoodDocument(pub, new)
  BY Zenon DEF GoodDocument

\* A control is replaced, removed or repeated.
LEMMA ReplacedGood ==
  ASSUME NEW pub, NEW doc, GoodDocument(pub, doc), NEW i \in DOMAIN doc.controls, NEW c, GoodControl(pub, c)
  PROVE  GoodDocument(pub, [doc EXCEPT !.controls[i] = c])
<1>1. PICK S : doc.controls \in Seq(S) /\ \A d \in S : GoodControl(pub, d)
  BY DEF GoodDocument
<1>2. DOMAIN doc = DocumentNames
  BY DEF GoodDocument
<1> DEFINE new == [doc EXCEPT !.controls[i] = c]
<1>3. /\ DOMAIN new = DocumentNames /\ new.links = doc.links /\ new.requires = doc.requires
      /\ new.controls = [doc.controls EXCEPT ![i] = c]
  BY <1>2 DEF DocumentNames
<1>4. [doc.controls EXCEPT ![i] = c] \in Seq(S \cup {c})
  BY <1>1
<1> HIDE DEF new
<1>5. \A d \in S \cup {c} : GoodControl(pub, d)
  BY <1>1
<1>6. new.controls \in Seq(S \cup {c})
  BY <1>3, <1>4
<1> QED BY <1>3, <1>5, <1>6, SequenceGood DEF new

\* A control is deleted.
LEMMA RemovedGood ==
  ASSUME NEW pub, NEW doc, GoodDocument(pub, doc), NEW i \in DOMAIN doc.controls
  PROVE  GoodDocument(pub, [doc EXCEPT !.controls = RemoveAt(@, i)])
<1>1. PICK S : doc.controls \in Seq(S) /\ \A d \in S : GoodControl(pub, d)
  BY DEF GoodDocument
<1>2. DOMAIN doc = DocumentNames
  BY DEF GoodDocument
<1> DEFINE new == [doc EXCEPT !.controls = RemoveAt(@, i)]
<1>3. /\ DOMAIN new = DocumentNames /\ new.links = doc.links /\ new.requires = doc.requires
      /\ new.controls = RemoveAt(doc.controls, i)
  BY <1>2 DEF DocumentNames
<1>4. RemoveAt(doc.controls, i) \in Seq(S)
  <2>1. Len(doc.controls) \in Nat /\ i \in 1..Len(doc.controls)
    BY <1>1
  <2>2. SubSeq(doc.controls, 1, i - 1) \in Seq(S)
    BY <1>1, <2>1, PartElements
  <2>3. SubSeq(doc.controls, i + 1, Len(doc.controls)) \in Seq(S)
    BY <1>1, <2>1, PartElements
  <2> QED BY <2>2, <2>3, JoinElements DEF RemoveAt
<1> HIDE DEF new
<1>6. new.controls \in Seq(S)
  BY <1>3, <1>4
<1> QED BY <1>1, <1>3, <1>6, SequenceGood DEF new

\* A control is duplicated.
LEMMA RepeatedGood ==
  ASSUME NEW pub, NEW doc, GoodDocument(pub, doc), NEW i \in DOMAIN doc.controls
  PROVE  GoodDocument(pub, [doc EXCEPT !.controls = Append(@, doc.controls[i])])
<1>1. PICK S : doc.controls \in Seq(S) /\ \A d \in S : GoodControl(pub, d)
  BY DEF GoodDocument
<1>2. DOMAIN doc = DocumentNames
  BY DEF GoodDocument
<1> DEFINE new == [doc EXCEPT !.controls = Append(@, doc.controls[i])]
<1>3. /\ DOMAIN new = DocumentNames /\ new.links = doc.links /\ new.requires = doc.requires
      /\ new.controls = Append(doc.controls, doc.controls[i])
  BY <1>2 DEF DocumentNames
<1>4. Append(doc.controls, doc.controls[i]) \in Seq(S)
  BY <1>1
<1> HIDE DEF new
<1>6. new.controls \in Seq(S)
  BY <1>3, <1>4
<1> QED BY <1>1, <1>3, <1>6, SequenceGood DEF new

\* Another picture in a picture control, or none.
LEMMA PictureGood ==
  ASSUME NEW pub, NEW doc, GoodDocument(pub, doc), NEW i \in DOMAIN doc.controls, Type(doc.controls[i]) = "picture",
         NEW images, NEW showing
  PROVE  LET new == [doc EXCEPT !.controls[i].images = images, !.controls[i].showing = showing] IN
         /\ GoodDocument(pub, new)
         /\ DOMAIN new.controls = DOMAIN doc.controls
         /\ \A j \in DOMAIN doc.controls : j # i => new.controls[j] = doc.controls[j]
         /\ Follows(pub, new.controls[i], doc.controls[i])
<1> DEFINE c == doc.controls[i]
           d == [[c EXCEPT !.images = images] EXCEPT !.showing = showing]
           new == [doc EXCEPT !.controls[i].images = images, !.controls[i].showing = showing]
<1>1. GoodControl(pub, c)
  BY GoodControls
<1>2. DOMAIN c = ControlNames /\ c.content \in Seq(Nodes) /\ c.state \in Texts
  BY <1>1 DEF GoodControl
<1>3. DOMAIN d = ControlNames /\ \A n \in ControlNames \ {"images", "showing"} : d[n] = c[n]
  BY <1>2 DEF ControlNames
<1>4. DOMAIN doc = DocumentNames
  BY DEF GoodDocument
<1>5. /\ DOMAIN new = DocumentNames /\ new.links = doc.links /\ new.requires = doc.requires
      /\ new.controls = [doc.controls EXCEPT ![i] = d]
  BY <1>2, <1>4 DEF DocumentNames, ControlNames
<1> HIDE DEF c, d
<1>6. d.content = c.content /\ d.state = c.state
  BY <1>3 DEF ControlNames
<1>13. Exact(d)
  <2>1. d.markers = c.markers /\ Type(c) = "picture"
    BY <1>3 DEF ControlNames, c
  <2>2. Type(d) = "picture"
    BY <2>1 DEF Type
  <2> QED BY <2>2 DEF Exact, IsList
<1>7. Follows(pub, d, c)
  BY <1>1, <1>2, <1>3, <1>6, <1>13, EditedGood DEF Follows, c
<1> HIDE DEF new
<1>8. PICK S : doc.controls \in Seq(S) /\ \A e \in S : GoodControl(pub, e)
  BY DEF GoodDocument
<1>9. new.controls \in Seq(S \cup {d})
  BY <1>5, <1>8
<1>10. \A e \in S \cup {d} : GoodControl(pub, e)
  BY <1>7, <1>8 DEF Follows
<1>11. GoodDocument(pub, new)
  BY <1>5, <1>9, <1>10, SequenceGood
<1>12. /\ DOMAIN new.controls = DOMAIN doc.controls /\ new.controls[i] = d
       /\ \A j \in DOMAIN doc.controls : j # i => new.controls[j] = doc.controls[j]
  BY <1>5
<1> QED BY <1>7, <1>11, <1>12 DEF new, c

---------------------------------------------------------------------------
(* Fields of the template and their controls *)

\* The same parts are reached in all documents of a template.
LEMMA SameParts ==
  ASSUME NEW doc, NEW new, new.links = doc.links
  PROVE  ReachableParts(new) = ReachableParts(doc)
  BY Zenon DEF ReachableParts

\* The control by which a field is found.
LEMMA TaggedOne ==
  ASSUME NEW doc, NEW tag, Tagged(doc, tag) # {}
  PROVE  LET i == CHOOSE j \in Tagged(doc, tag) : TRUE IN
         /\ i \in Read(doc) /\ i \in DOMAIN doc.controls /\ doc.controls[i].tag = tag
         /\ FieldControl(doc, tag) = doc.controls[i]
<1> DEFINE i == CHOOSE j \in Tagged(doc, tag) : TRUE
<1>1. i \in Tagged(doc, tag)
  OBVIOUS
<1>2. FieldControl(doc, tag) = doc.controls[i]
  BY DEF FieldControl
<1> HIDE DEF i
<1> QED BY <1>1, <1>2 DEF Tagged, Read, i

\* A published field is that of a control of the template.
LEMMA FieldOf ==
  ASSUME NEW pub, Sound(pub), ParseTemplateFields(pub), NEW tag \in DOMAIN Manifest(pub)
  PROVE  LET d == FieldControl(pub, tag)
             field == Manifest(pub)[tag]
         IN  /\ GoodControl(pub, d) /\ d.tag = tag
             /\ PropertiesRead(d) /\ ParsedTemplateField(d)
             /\ field.type = Type(d) /\ field.options = d.options /\ field.required = d.required /\ field.limits = Limits(d)
<1> DEFINE d == FieldControl(pub, tag)
           i == CHOOSE j \in Tagged(pub, tag) : TRUE
<1>1. Tagged(pub, tag) # {}
  BY DEF Manifest, Tagged
<1>2. i \in Read(pub) /\ i \in DOMAIN pub.controls /\ pub.controls[i].tag = tag /\ d = pub.controls[i]
  BY <1>1, TaggedOne
<1>3. GoodControl(pub, d)
  BY <1>2, PublishedGood, GoodControls
<1>4. PropertiesRead(d) /\ ParsedTemplateField(d)
  BY <1>2 DEF ParseTemplateFields
<1>5. Manifest(pub)[tag] = [type |-> Type(d), options |-> d.options, required |-> d.required, limits |-> Limits(d)]
  BY Zenon DEF Manifest, FieldControl
<1> HIDE DEF d, i
<1> QED BY <1>2, <1>3, <1>4, <1>5 DEF d

\* A control with its tag has its type and options, and is required where the field is.
LEMMA FieldOfControl ==
  ASSUME NEW pub, Sound(pub), ParseTemplateFields(pub), NEW c, GoodControl(pub, c), c.tag \in DOMAIN Manifest(pub)
  PROVE  LET field == Manifest(pub)[c.tag] IN
         field.type = Type(c) /\ field.options = c.options /\ field.required = c.required
<1> DEFINE d == FieldControl(pub, c.tag)
<1>1. /\ GoodControl(pub, d) /\ d.tag = c.tag
      /\ Manifest(pub)[c.tag].type = Type(d) /\ Manifest(pub)[c.tag].options = d.options
      /\ Manifest(pub)[c.tag].required = d.required
  BY FieldOf
<1> HIDE DEF d
<1>2. SameField(c, d)
  BY <1>1, SameTag
<1> QED BY <1>1, <1>2 DEF SameField, Type

---------------------------------------------------------------------------
(* Alternate contents that are flattened *)

\* What flattening keeps of a control, and what it makes of it.
Kept(doc, fields, c) == c.alternate = 0 \/ ChoicesWith(doc, fields, c.alternate) \subseteq {c.choice}
Flat(doc, fields, c) ==
  IF c.alternate > 0 /\ ChoicesWith(doc, fields, c.alternate) = {c.choice}
  THEN [c EXCEPT !.alternate = 0, !.choice = 0] ELSE c

Flattened(new, doc, fields) ==
  /\ \A j \in DOMAIN new.controls : \E i \in DOMAIN doc.controls :
       Kept(doc, fields, doc.controls[i]) /\ new.controls[j] = Flat(doc, fields, doc.controls[i])
  /\ \A i \in DOMAIN doc.controls : Kept(doc, fields, doc.controls[i]) =>
       \E j \in DOMAIN new.controls : new.controls[j] = Flat(doc, fields, doc.controls[i])

\* The controls that are left in the document are those that are kept.
LEMMA FlattenControls ==
  ASSUME NEW pub, NEW doc, GoodDocument(pub, doc), NEW fields
  PROVE  LET new == Flatten(doc, fields) IN
         /\ DOMAIN new = DocumentNames /\ new.links = doc.links /\ new.requires = doc.requires
         /\ new.controls \in Seq({Flat(doc, fields, doc.controls[i]) : i \in DOMAIN doc.controls})
         /\ Flattened(new, doc, fields)
<1> DEFINE part(c) == IF Kept(doc, fields, c) THEN <<Flat(doc, fields, c)>> ELSE <<>>
           parts == [i \in DOMAIN doc.controls |-> part(doc.controls[i])]
           new == Flatten(doc, fields)
           S == {Flat(doc, fields, doc.controls[i]) : i \in DOMAIN doc.controls}
<1>1. DOMAIN doc = DocumentNames
  BY DEF GoodDocument
<1>2. new = [doc EXCEPT !.controls = FlattenSeq(parts)]
  BY Zenon DEF Flatten, Kept, Flat
<1> HIDE DEF part, new
<1>3. Len(doc.controls) \in Nat /\ DOMAIN doc.controls = 1..Len(doc.controls)
  BY GoodControls
<1>4. ASSUME NEW i \in DOMAIN doc.controls
      PROVE  /\ part(doc.controls[i]) \in Seq(S)
             /\ \A e \in ToSet(part(doc.controls[i])) : Kept(doc, fields, doc.controls[i]) /\ e = Flat(doc, fields, doc.controls[i])
             /\ Kept(doc, fields, doc.controls[i]) => Flat(doc, fields, doc.controls[i]) \in ToSet(part(doc.controls[i]))
  <2> DEFINE c == doc.controls[i]
             one == Flat(doc, fields, c)
  <2>1. one \in S
    OBVIOUS
  <2>2. part(c) = IF Kept(doc, fields, c) THEN <<one>> ELSE <<>>
    BY DEF part
  <2> HIDE DEF one, S
  <2>3. <<one>> \in Seq(S) /\ <<>> \in Seq(S) /\ ToSet(<<one>>) = {one} /\ ToSet(<<>>) = {}
    BY <2>1 DEF ToSet
  <2>4. CASE Kept(doc, fields, c)
    BY <2>2, <2>3, <2>4 DEF one
  <2>5. CASE ~Kept(doc, fields, c)
    BY <2>2, <2>3, <2>5 DEF one
  <2> QED BY <2>4, <2>5
<1> HIDE DEF S
<1>5. parts \in Seq(Seq(S)) /\ DOMAIN parts = DOMAIN doc.controls /\ \A i \in DOMAIN parts : parts[i] = part(doc.controls[i])
  BY <1>3, <1>4
<1> HIDE DEF parts
<1>6. /\ FlattenSeq(parts) \in Seq(S)
      /\ \A k \in DOMAIN parts : ToSet(parts[k]) \subseteq ToSet(FlattenSeq(parts))
      /\ \A e \in ToSet(FlattenSeq(parts)) : \E k \in DOMAIN parts : e \in ToSet(parts[k])
  BY <1>5, FlattenElements
<1>7. /\ DOMAIN new = DocumentNames /\ new.links = doc.links /\ new.requires = doc.requires
      /\ new.controls = FlattenSeq(parts)
  BY <1>1, <1>2 DEF DocumentNames
<1>8. ASSUME NEW j \in DOMAIN new.controls
      PROVE  \E i \in DOMAIN doc.controls :
               Kept(doc, fields, doc.controls[i]) /\ new.controls[j] = Flat(doc, fields, doc.controls[i])
  <2>1. new.controls[j] \in ToSet(FlattenSeq(parts))
    BY <1>7 DEF ToSet
  <2>2. PICK i \in DOMAIN parts : new.controls[j] \in ToSet(parts[i])
    BY <1>6, <2>1
  <2> QED BY <1>4, <1>5, <2>2
<1>9. ASSUME NEW i \in DOMAIN doc.controls, Kept(doc, fields, doc.controls[i])
      PROVE  \E j \in DOMAIN new.controls : new.controls[j] = Flat(doc, fields, doc.controls[i])
  <2>1. Flat(doc, fields, doc.controls[i]) \in ToSet(FlattenSeq(parts))
    BY <1>4, <1>5, <1>6, <1>9
  <2> QED BY <1>7, <2>1 DEF ToSet
<1> QED BY <1>6, <1>7, <1>8, <1>9 DEF new, S, Flattened

\* Flattening leaves what is read of a control as it is.
Like(d, c) ==
  /\ SameField(d, c) /\ Type(d) = Type(c)
  /\ d.content = c.content /\ d.showing = c.showing /\ d.state = c.state /\ d.images = c.images

\* Nor is it less exact.
LEMMA LikeExact ==
  ASSUME NEW c, Exact(c), NEW d, Like(d, c)
  PROVE  Exact(d)
<1>1. /\ d.options = c.options /\ d.format = c.format /\ d.calendar = c.calendar /\ d.checked = c.checked
      /\ d.unchecked = c.unchecked /\ Type(d) = Type(c)
      /\ d.content = c.content /\ d.showing = c.showing /\ d.state = c.state
  BY DEF Like, SameField
<1>2. Shown(d) = Shown(c) /\ (IsList(d) <=> IsList(c))
  BY <1>1 DEF Shown, IsList
<1>3. /\ \A value : Glyph(d, value) = Glyph(c, value) /\ EditorDisplay(d, value) = EditorDisplay(c, value)
      /\ \A value : Labelled(d, value) = Labelled(c, value) /\ Valued(d, value) = Valued(c, value)
  BY <1>1 DEF Glyph, EditorDisplay, InCalendar, Labelled, Valued
<1> QED BY <1>1, <1>2, <1>3 DEF Exact

\* Of one control.
LEMMA FlatGood ==
  ASSUME NEW pub, NEW c, GoodControl(pub, c), NEW doc, NEW fields
  PROVE  /\ GoodControl(pub, Flat(doc, fields, c)) /\ Like(Flat(doc, fields, c), c)
         /\ \/ Flat(doc, fields, c) = c
            \/ /\ Flat(doc, fields, c).alternate = 0 /\ c.alternate > 0
               /\ ChoicesWith(doc, fields, c.alternate) = {c.choice}
<1>1. CASE ~(c.alternate > 0 /\ ChoicesWith(doc, fields, c.alternate) = {c.choice})
  <2>1. Flat(doc, fields, c) = c
    BY <1>1 DEF Flat
  <2>2. Like(c, c)
    BY DEF Like, SameField
  <2> QED BY <2>1, <2>2
<1>2. CASE c.alternate > 0 /\ ChoicesWith(doc, fields, c.alternate) = {c.choice}
  <2> SUFFICES ASSUME NEW d, d = [c EXCEPT !.alternate = 0, !.choice = 0]
               PROVE  GoodControl(pub, d) /\ Like(d, c) /\ d.alternate = 0
    BY <1>2 DEF Flat
  <2>1. DOMAIN c = ControlNames
    BY DEF GoodControl
  <2>2. /\ DOMAIN d = ControlNames /\ d.alternate = 0
        /\ \A n \in ControlNames \ {"alternate", "choice"} : d[n] = c[n]
    BY <2>1 DEF ControlNames
  <2>3. /\ d.tag = c.tag /\ d.others = c.others /\ d.markers = c.markers /\ d.options = c.options
        /\ d.required = c.required /\ d.part = c.part /\ d.format = c.format /\ d.calendar = c.calendar
        /\ d.checked = c.checked /\ d.unchecked = c.unchecked
        /\ d.content = c.content /\ d.showing = c.showing /\ d.state = c.state /\ d.block = c.block
    BY <2>2 DEF ControlNames
  <2>4. Like(d, c)
    BY <2>3 DEF Like, SameField, Type
  <2>5. PICK k \in DOMAIN pub.controls : SameField(c, pub.controls[k])
    BY DEF GoodControl
  <2>6. SameField(d, pub.controls[k])
    BY <2>3, <2>5 DEF SameField
  <2>7. Shows(d) <=> Shows(c)
    BY <2>3 DEF Shows
  <2>8. Type(d) = Type(c)
    BY <2>3 DEF Type
  <2>9. Exact(d)
    BY <2>4, LikeExact DEF GoodControl
  <2> QED BY <2>2, <2>3, <2>4, <2>6, <2>7, <2>8, <2>9 DEF GoodControl
<1> QED BY <1>1, <1>2

\* A flattened document still comes of the template.
LEMMA FlattenGood ==
  ASSUME NEW pub, NEW doc, GoodDocument(pub, doc), NEW fields
  PROVE  GoodDocument(pub, Flatten(doc, fields))
<1> DEFINE new == Flatten(doc, fields)
           S == {Flat(doc, fields, doc.controls[i]) : i \in DOMAIN doc.controls}
<1>1. /\ DOMAIN new = DocumentNames /\ new.links = doc.links /\ new.requires = doc.requires
      /\ new.controls \in Seq(S)
  BY FlattenControls
<1> HIDE DEF new
<1>2. \A c \in S : GoodControl(pub, c)
  BY GoodControls, FlatGood
<1> HIDE DEF S
<1> QED BY <1>1, <1>2, SequenceGood DEF new

\* A set of at most one element.
LEMMA AtMostOne ==
  ASSUME NEW S, IsFiniteSet(S), Cardinality(S) <= 1, NEW x \in S
  PROVE  S = {x}
<1>1. IsFiniteSet(S \ {x}) /\ Cardinality(S \ {x}) = Cardinality(S) - 1
  BY FS_RemoveElement
<1>2. Cardinality(S) \in Nat /\ Cardinality(S \ {x}) \in Nat
  BY <1>1, FS_CardinalityType
<1>3. Cardinality(S \ {x}) = 0
  BY <1>1, <1>2
<1>4. S \ {x} = {}
  BY <1>1, <1>3, FS_EmptySet
<1> QED BY <1>4

\* What is read of a flattened document is what was read of it before.
LEMMA FlattenRead ==
  ASSUME NEW pub, NEW doc, GoodDocument(pub, doc), NEW fields, FlattenSupported(doc, fields)
  PROVE  LET new == Flatten(doc, fields) IN
         /\ \A j \in Read(new) : \E i \in Read(doc) : Like(new.controls[j], doc.controls[i])
         /\ \A i \in Read(doc) : doc.controls[i].tag \in fields =>
              \E j \in Read(new) : Like(new.controls[j], doc.controls[i])
<1> DEFINE new == Flatten(doc, fields)
<1>1. /\ new.links = doc.links /\ new.requires = doc.requires
      /\ \A j \in DOMAIN new.controls : \E i \in DOMAIN doc.controls :
           Kept(doc, fields, doc.controls[i]) /\ new.controls[j] = Flat(doc, fields, doc.controls[i])
      /\ \A i \in DOMAIN doc.controls : Kept(doc, fields, doc.controls[i]) =>
           \E j \in DOMAIN new.controls : new.controls[j] = Flat(doc, fields, doc.controls[i])
  BY FlattenControls DEF Flattened
<1> HIDE DEF new
<1>2. ReachableParts(new) = ReachableParts(doc)
  BY <1>1, SameParts
<1>3. \A i \in DOMAIN doc.controls : GoodControl(pub, doc.controls[i])
  BY GoodControls
<1>4. doc.requires = pub.requires
  BY DEF GoodDocument
<1>5. ASSUME NEW j \in Read(new) PROVE \E i \in Read(doc) : Like(new.controls[j], doc.controls[i])
  <2>1. j \in DOMAIN new.controls /\ new.controls[j].part \in ReachableParts(doc) /\ ~InFallback(new.controls[j])
    BY <1>2 DEF Read
  <2>2. PICK i \in DOMAIN doc.controls : new.controls[j] = Flat(doc, fields, doc.controls[i])
    BY <1>1, <2>1
  <2> DEFINE c == doc.controls[i]
  <2>3. /\ Like(new.controls[j], c)
        /\ \/ new.controls[j] = c
           \/ /\ new.controls[j].alternate = 0 /\ c.alternate > 0
              /\ ChoicesWith(doc, fields, c.alternate) = {c.choice}
    BY <1>3, <2>2, FlatGood
  <2>4. GoodControl(pub, c)
    BY <1>3
  <2>5. c.part \in ReachableParts(doc)
    BY <2>1, <2>3 DEF Like, SameField
  <2>6. ASSUME InFallback(c) PROVE FALSE
    <3>1. c.alternate > 0 /\ c.choice = 0
      BY <2>6 DEF InFallback
    <3>2. new.controls[j] # c
      BY <2>1, <2>6
    <3>3. ChoicesWith(doc, fields, c.alternate) = {0}
      BY <2>3, <3>1, <3>2
    <3>4. c.alternate # 0
      BY <3>1
    <3>5. c.alternate \in DOMAIN doc.requires
      BY <1>4, <2>4, <3>4 DEF GoodControl
    <3> QED BY <3>3, <3>5 DEF FlattenSupported
  <2> QED BY <2>3, <2>5, <2>6 DEF Read
<1>6. ASSUME NEW i \in Read(doc), doc.controls[i].tag \in fields
      PROVE  \E j \in Read(new) : Like(new.controls[j], doc.controls[i])
  <2> DEFINE c == doc.controls[i]
             with == ChoicesWith(doc, fields, c.alternate)
  <2>1. i \in DOMAIN doc.controls /\ c.part \in ReachableParts(doc) /\ ~InFallback(c) /\ GoodControl(pub, c)
    BY <1>3 DEF Read
  <2>2. Kept(doc, fields, c)
    <3> SUFFICES ASSUME c.alternate # 0 PROVE with \subseteq {c.choice}
      BY DEF Kept
    <3>1. c.alternate \in DOMAIN doc.requires
      BY <1>4, <2>1 DEF GoodControl
    <3>2. Cardinality(with) <= 1
      BY <3>1 DEF FlattenSupported
    <3>3. c.choice \in with
      BY <1>6, <2>1 DEF ChoicesWith
    <3>4. IsFiniteSet(with)
      <4> DEFINE some == {j \in DOMAIN doc.controls :
                            doc.controls[j].alternate = c.alternate /\ doc.controls[j].tag \in fields}
      <4>1. IsFiniteSet(DOMAIN doc.controls)
        <5>1. Len(doc.controls) \in Nat /\ DOMAIN doc.controls = 1..Len(doc.controls)
          BY GoodControls
        <5>2. IsFiniteSet(1..Len(doc.controls))
          BY <5>1, FS_Interval
        <5> QED BY <5>1, <5>2
      <4>2. IsFiniteSet(some)
        BY <4>1, FS_Subset
      <4> DEFINE f == [k \in some |-> doc.controls[k].choice]
      <4>3. with = {doc.controls[k].choice : k \in some}
        BY DEF ChoicesWith
      <4> HIDE DEF with, some
      <4>4. f \in Surjection(some, with)
        BY <4>3 DEF Surjection
      <4> HIDE DEF f
      <4> QED BY <4>2, <4>4, FS_Surjection
    <3> HIDE DEF with
    <3> QED BY <3>2, <3>3, <3>4, AtMostOne
  <2>3. PICK j \in DOMAIN new.controls : new.controls[j] = Flat(doc, fields, c)
    BY <1>1, <2>1, <2>2
  <2>4. /\ Like(new.controls[j], c)
        /\ new.controls[j] = c \/ new.controls[j].alternate = 0
    BY <2>1, <2>3, FlatGood
  <2>5. new.controls[j].part \in ReachableParts(new)
    BY <1>2, <2>1, <2>4 DEF Like, SameField
  <2>6. ~InFallback(new.controls[j])
    BY <2>1, <2>4 DEF InFallback
  <2>7. j \in Read(new)
    BY <2>5, <2>6 DEF Read
  <2> QED BY <2>4, <2>7
<1> QED BY <1>5, <1>6 DEF new

---------------------------------------------------------------------------
(* Values of fields *)

\* What a field of a template may be.
FieldTypes == {"checkbox", "combo", "date", "dropdown", "picture", "text"}

\* The options of a list can be told apart.
OptionsDistinct(options) ==
  \A j, k \in DOMAIN options : j # k => /\ options[j].displayText # options[k].displayText
                                       /\ options[j].value # options[k].value

GoodField(field) ==
  /\ field.type \in FieldTypes
  /\ \E n \in Nat : DOMAIN field.options = 1..n
  /\ OptionsReadable(field.options) /\ OptionsDistinct(field.options)

\* A published field has one of these types and options that can be read.
LEMMA FieldGood ==
  ASSUME NEW pub, Sound(pub), ParseTemplateFields(pub), NEW tag \in DOMAIN Manifest(pub)
  PROVE  GoodField(Manifest(pub)[tag])
<1> DEFINE d == FieldControl(pub, tag)
           field == Manifest(pub)[tag]
<1>1. /\ GoodControl(pub, d) /\ PropertiesRead(d) /\ ParsedTemplateField(d)
      /\ field.type = Type(d) /\ field.options = d.options
  BY FieldOf
<1>2. Settings(d)
  BY <1>1, GoodSettings
<1>3. (\E n \in Nat : DOMAIN d.options = 1..n) /\ OptionsReadable(d.options)
  BY <1>2 DEF Settings
<1>5. OptionsDistinct(d.options)
  BY <1>1, Zenon DEF ParsedTemplateField, OptionsDistinct
<1> HIDE DEF d, field
<1>4. Type(d) \in FieldTypes
  <2>1. PICK k \in DOMAIN pub.controls : SameField(d, pub.controls[k])
    BY <1>1 DEF GoodControl
  <2>2. CASE 1 \notin DOMAIN d.markers
    BY <2>2 DEF Type, FieldTypes
  <2>3. CASE 1 \in DOMAIN d.markers
    <3>1. d.markers[1] \in Markers \cup Unsupported /\ d.markers[1] \notin Unsupported
      BY <1>1, <2>3 DEF PropertiesRead, ParsedTemplateField
    <3> QED BY <2>3, <3>1 DEF Type, FieldTypes, Markers
  <2> QED BY <2>2, <2>3
<1> QED BY <1>1, <1>3, <1>4, <1>5 DEF GoodField, field

\* Texts that are entered stand for no other value, and those entered for a list are no labels of it.
Fits(field, value) ==
  /\ field.type = "text" /\ value # Null => value \in Words
  /\ field.type = "combo" /\ value # Null => value \in Values(field) \cup Entries

\* What the data of a save may be.
Valid(field, value) ==
  /\ value \in Texts
  /\ value = Null \/ ManifestFieldValueMatches(field, value)
  /\ Fits(field, value)

\* There is always the value that is none.
LEMMA NullValid ==
  ASSUME NEW field
  PROVE  Valid(field, Null)
  BY ConstantTexts DEF Valid, Fits

\* An answer in a field that is required.
Met(field, value) ==
  /\ value # Null
  /\ IsText(value) /\ Trim(value) = <<>> => field.type \in {"dropdown", "combo"} /\ value \in Values(field)
  /\ field.type = "checkbox" => value = True

\* A control that shows an answer.
Answers(c) == Shows(c) /\ (Type(c) = "checkbox" => c.state = True)

\* Dates are texts, and are not blank.
LEMMA IsoTexts ==
  ASSUME NEW text \in IsoDates
  PROVE  IsText(text) /\ text # <<>> /\ text \in Texts /\ Ink(text)
<1>1. text \in Texts /\ Ink(text)
  BY IsoInk
<1>2. PICK date \in Dates : text = Iso(date)
  BY DEF IsoDates
<1>3. 2 \in DOMAIN text
  <2> DEFINE format == <<"yyyy", "-", "MM", "-", "dd">>
  <2>1. 2 \in DOMAIN format
    OBVIOUS
  <2> HIDE DEF format
  <2>2. text = Masked(date, format)
    BY <1>2, Zenon DEF Iso, format
  <2> QED BY <2>1, <2>2 DEF Masked
<1>4. text # Null /\ text # True /\ text # False /\ text # <<>>
  <2>1. 2 \notin DOMAIN Null /\ 2 \notin DOMAIN True /\ 2 \notin DOMAIN False /\ 2 \notin DOMAIN <<>>
    BY DEF Null, True, False
  <2> QED BY <1>3, <2>1
<1> QED BY <1>1, <1>4 DEF IsText

\* The label of an option can be read.
LEMMA LabelText ==
  ASSUME NEW field, GoodField(field), NEW value, Valued(field, value) # {}
  PROVE  LET text == field.options[Min(Valued(field, value))].displayText IN
         text \in Texts /\ Ink(text) /\ value \in Values(field)
<1> DEFINE items == Valued(field, value)
<1>1. items \in SUBSET (DOMAIN field.options) /\ items \in SUBSET Nat
  BY DEF GoodField, Valued
<1>2. Min(items) \in items
  BY <1>1, MinIn
<1> HIDE DEF items
<1>3. Min(items) \in DOMAIN field.options
  BY <1>1, <1>2
<1>4. field.options[Min(items)].value = value
  BY <1>2 DEF items, Valued
<1>5. value \in Values(field)
  BY <1>3, <1>4 DEF Values
<1> QED BY <1>3, <1>5 DEF GoodField, OptionsReadable, items

\* So can the glyph of a checked box.
LEMMA GlyphTexts ==
  ASSUME NEW c, Settings(c), NEW value
  PROVE  Glyph(c, value) \in Texts /\ (value = True => Ink(Glyph(c, value)))
  BY GlyphInk DEF Settings, Glyph

\* A date as the server writes it.
LEMMA DateTexts ==
  ASSUME NEW c, Settings(c), NEW text \in IsoDates
  PROVE  NativeDateDisplayValue(c, text) \in Texts /\ Ink(NativeDateDisplayValue(c, text))
<1>1. text \in Texts /\ Ink(text) /\ DateOfIso(text) \in WrittenDates
  BY IsoInk
<1>2. c.format \in Patterns
  BY DEF Settings, Formats
<1> QED BY <1>1, <1>2, DateInk DEF NativeDateDisplayValue

\* A valid value is shown as a text, and an answer as one that can be read.
LEMMA DisplayTexts ==
  ASSUME NEW c, Settings(c), NEW field, GoodField(field), field.type # "picture",
         NEW value, Valid(field, value)
  PROVE  /\ DisplayValue(c, field, value) \in Texts
         /\ Met(field, value) => Ink(DisplayValue(c, field, value))
<1> DEFINE text == DisplayValue(c, field, value)
<1>0. field.type \in {"checkbox", "combo", "date", "dropdown", "text"} /\ <<>> \in Texts /\ value \in Texts
  BY ConstantTexts DEF GoodField, FieldTypes, Valid
<1>1. CASE field.type = "checkbox"
  <2>1. text = Glyph(c, value)
    BY <1>1 DEF DisplayValue
  <2> QED BY <1>1, <2>1, GlyphTexts DEF Met
<1>2. CASE field.type = "date"
  <2>1. CASE value = Null
    <3>1. text = <<>>
      BY <1>2, <2>1, ConstantTexts DEF DisplayValue
    <3> QED BY <1>0, <2>1, <3>1 DEF Met
  <2>2. CASE value # Null
    <3>1. value \in IsoDates
      BY <1>2, <2>2 DEF Valid, ManifestFieldValueMatches
    <3>2. IsText(value)
      BY <3>1, IsoTexts
    <3>3. text = NativeDateDisplayValue(c, value)
      BY <1>2, <3>2 DEF DisplayValue
    <3> QED BY <3>1, <3>3, DateTexts
  <2> QED BY <2>1, <2>2
<1>3. CASE field.type \in {"dropdown", "combo", "text"} /\ ~IsText(value)
  <2>1. text = <<>>
    BY <1>3 DEF DisplayValue
  <2>2. ~Met(field, value)
    <3> SUFFICES ASSUME value # Null PROVE FALSE
      BY DEF Met
    <3>1. ManifestFieldValueMatches(field, value)
      BY DEF Valid
    <3>2. CASE field.type = "dropdown"
      <4>1. value \in Values(field)
        BY <3>1, <3>2 DEF ManifestFieldValueMatches
      <4> QED BY <1>3, <4>1 DEF Values, GoodField, OptionsReadable
    <3>3. CASE field.type \in {"combo", "text"}
      BY <1>3, <3>1, <3>3 DEF ManifestFieldValueMatches
    <3> QED BY <1>3, <3>2, <3>3
  <2> QED BY <1>0, <2>1, <2>2
<1>4. CASE field.type \in {"dropdown", "combo"} /\ IsText(value) /\ Valued(field, value) # {}
  <2>1. text = field.options[Min(Valued(field, value))].displayText
    BY <1>4 DEF DisplayValue
  <2> QED BY <1>4, <2>1, LabelText
<1>5. CASE field.type \in {"dropdown", "combo", "text"} /\ IsText(value)
           /\ ~(field.type \in {"dropdown", "combo"} /\ Valued(field, value) # {})
  <2>1. text = value
    BY <1>5 DEF DisplayValue
  <2>2. ASSUME Met(field, value) PROVE Trim(value) # <<>>
    <3> SUFFICES ASSUME Trim(value) = <<>> PROVE FALSE
      OBVIOUS
    <3>1. field.type \in {"dropdown", "combo"} /\ value \in Values(field)
      BY <1>5, <2>2 DEF Met
    <3>2. Valued(field, value) # {}
      BY <3>1 DEF Values, Valued
    <3> QED BY <1>5, <3>1, <3>2
  <2>3. Trim(value) # <<>> => Ink(value)
    BY <1>0, TrimInk DEF Texts
  <2> QED BY <1>0, <2>1, <2>2, <2>3
<1> QED BY <1>0, <1>1, <1>2, <1>3, <1>4, <1>5

\* What is shown for a valid value of a list is a label, or a text that was entered for none.
LEMMA ListShown ==
  ASSUME NEW c, NEW field, GoodField(field), field.type \in {"combo", "dropdown"},
         NEW value, Valid(field, value)
  PROVE  LET text == DisplayValue(c, field, value) IN
         \/ value = Null /\ text = <<>>
         \/ IsText(value) /\ Labelled(field, text) # {}
         \/ IsText(value) /\ field.type = "combo" /\ text = value /\ text \in Entries /\ Valued(field, text) = {}
<1> DEFINE text == DisplayValue(c, field, value)
           items == Valued(field, value)
<1>1. CASE value = Null
  <2>1. text = <<>>
    BY <1>1, ConstantTexts DEF DisplayValue
  <2> QED BY <1>1, <2>1
<1>2. CASE value # Null
  <2>1. IsText(value)
    <3>1. ManifestFieldValueMatches(field, value)
      BY <1>2 DEF Valid
    <3>2. CASE field.type = "combo"
      BY <3>1, <3>2 DEF ManifestFieldValueMatches
    <3>3. CASE field.type = "dropdown"
      <4>1. value \in Values(field)
        BY <3>1, <3>3 DEF ManifestFieldValueMatches
      <4> QED BY <4>1 DEF Values, GoodField, OptionsReadable
    <3> QED BY <3>2, <3>3
  <2>2. CASE items # {}
    <3>1. text = field.options[Min(items)].displayText
      BY <2>1, <2>2 DEF DisplayValue
    <3>2. items \in SUBSET (DOMAIN field.options) /\ items \in SUBSET Nat
      BY DEF GoodField, Valued
    <3>3. Min(items) \in DOMAIN field.options
      <4>1. Min(items) \in items
        BY <2>2, <3>2, MinIn
      <4> QED BY <3>2, <4>1
    <3> HIDE DEF items, text
    <3>4. Min(items) \in Labelled(field, text)
      BY <3>1, <3>3 DEF Labelled
    <3> QED BY <2>1, <3>4 DEF text
  <2>3. CASE items = {}
    <3>1. text = value
      BY <2>1, <2>3 DEF DisplayValue
    <3>2. value \notin Values(field)
      BY <2>3 DEF Values, Valued
    <3>3. field.type = "combo"
      <4>1. ManifestFieldValueMatches(field, value)
        BY <1>2 DEF Valid
      <4>2. field.type = "dropdown" => value \in Values(field)
        BY <4>1 DEF ManifestFieldValueMatches
      <4> QED BY <3>2, <4>2
    <3>4. value \in Entries
      BY <1>2, <3>2, <3>3 DEF Valid, Fits
    <3> QED BY <2>1, <2>3, <3>1, <3>3, <3>4
  <2> QED BY <2>2, <2>3
<1> QED BY <1>1, <1>2

\* A value that the server writes into a control.
LEMMA NativeControlGood ==
  ASSUME NEW pub, Sound(pub), NEW c, GoodControl(pub, c), NEW field, GoodField(field), field.type # "picture",
         field.type = Type(c), field.options = c.options, Type(c) = "date" => c.calendar = "gregorian",
         NEW value, Valid(field, value)
  PROVE  LET d == NativeFieldControl(c, field, value) IN
         Follows(pub, d, c) /\ (Met(field, value) => Answers(d)) /\ Tells(d, field, value)
<1> SUFFICES ASSUME NEW d, d = NativeFieldControl(c, field, value)
             PROVE  Follows(pub, d, c) /\ (Met(field, value) => Answers(d)) /\ Tells(d, field, value)
  OBVIOUS
<1> DEFINE text == DisplayValue(c, field, value)
<1>1. DOMAIN c = ControlNames /\ c.content \in Seq(Nodes) /\ c.block \in BOOLEAN /\ c.state \in Texts
  BY DEF GoodControl
<1>2. /\ DOMAIN d = ControlNames
      /\ \A n \in ControlNames \ {"content", "showing", "state", "padded"} : d[n] = c[n]
      /\ d.content = SetText(c.content, text, c.block) /\ d.showing = FALSE /\ d.state = StoredState(c, field, value)
  BY <1>1 DEF NativeFieldControl, ControlNames
<1>3. Settings(c)
  BY GoodSettings
<1>4. text \in Texts /\ (Met(field, value) => Ink(text))
  BY <1>3, DisplayTexts
<1>5. d.content \in Seq(Nodes) /\ (Ink(text) => Shows(d)) /\ VisibleText(d.content) = text
  <2>1. /\ SetText(c.content, text, c.block) \in Seq(Nodes)
        /\ Ink(text) => Ink(VisibleText(SetText(c.content, text, c.block)))
        /\ VisibleText(SetText(c.content, text, c.block)) = text
    BY <1>1, <1>4, SetTextInk, SetTextExact
  <2> HIDE DEF text
  <2> QED BY <1>2, <2>1 DEF Shows
<1>6. value \in Texts
  BY ConstantTexts DEF Valid
<1>7. d.state \in Texts
  <2>1. StoredState(c, field, value) \in {c.state, value, Null, CheckedState(value)}
    BY DEF StoredState, GoodField, FieldTypes
  <2>2. CheckedState(value) \in Texts
    BY ConstantTexts DEF CheckedState
  <2> QED BY <1>1, <1>2, <1>6, <2>1, <2>2, ConstantTexts
<1>8. ASSUME Type(c) = "checkbox"
      PROVE  /\ (d.state = True <=> value = True) /\ (d.state = True => Ink(text))
             /\ text = Glyph(c, value) /\ text = Glyph(c, d.state)
  <2>1. d.state = True <=> value = True
    BY <1>2, <1>8, ConstantTexts DEF StoredState, CheckedState
  <2>2. text = Glyph(c, value)
    BY <1>8 DEF DisplayValue
  <2>3. text = Glyph(c, d.state)
    BY <2>1, <2>2 DEF Glyph
  <2> QED BY <1>3, <2>1, <2>2, <2>3, GlyphTexts
<1>9. ASSUME Type(c) = "date"
      PROVE  \/ value = Null /\ d.state = Null /\ text = <<>>
             \/ value \in IsoDates /\ d.state = value /\ text = EditorDisplay(c, value) /\ Ink(text) /\ IsText(value)
  <2>1. CASE value = Null
    <3>1. text = <<>>
      BY <1>9, <2>1, ConstantTexts DEF DisplayValue
    <3>2. d.state = Null
      BY <1>2, <1>9, <2>1, ConstantTexts DEF StoredState
    <3> QED BY <2>1, <3>1, <3>2
  <2>2. CASE value # Null
    <3>1. value \in IsoDates
      BY <1>9, <2>2 DEF Valid, ManifestFieldValueMatches
    <3>2. IsText(value) /\ value # <<>>
      BY <3>1, IsoTexts
    <3>3. text = NativeDateDisplayValue(c, value)
      BY <1>9, <3>2 DEF DisplayValue
    <3>4. text = EditorDisplay(c, value)
      BY <1>9, <3>3 DEF NativeDateDisplayValue, EditorDisplay, InCalendar
    <3>5. d.state = value
      BY <1>2, <1>9, <3>2 DEF StoredState
    <3> QED BY <1>3, <3>1, <3>2, <3>3, <3>4, <3>5, DateTexts
  <2> QED BY <2>1, <2>2
<1>10. d.showing = FALSE /\ ~d.showing /\ Shown(d) = text
  <2>1. ~d.showing
    BY <1>2, Zenon
  <2> QED BY <1>2, <1>5, <2>1 DEF Shown
<1>11. /\ d.block = c.block /\ d.markers = c.markers /\ d.options = c.options /\ d.format = c.format
       /\ d.calendar = c.calendar /\ d.checked = c.checked /\ d.unchecked = c.unchecked
  BY <1>2 DEF ControlNames
<1>12. Type(d) = Type(c) /\ (IsList(d) <=> IsList(c))
  BY <1>11 DEF Type, IsList
<1>13. /\ \A v : Glyph(d, v) = Glyph(c, v) /\ EditorDisplay(d, v) = EditorDisplay(c, v)
       /\ \A v : Labelled(d, v) = Labelled(field, v) /\ Valued(d, v) = Valued(field, v)
       /\ \A v : NativeDateDisplayValue(d, v) = NativeDateDisplayValue(c, v)
  BY <1>11 DEF Glyph, EditorDisplay, InCalendar, Labelled, Valued, NativeDateDisplayValue
<1>14. DisplayValue(d, field, value) = text
  BY <1>13 DEF DisplayValue
<1>15. ASSUME IsList(c)
       PROVE  \/ text = <<>> \/ Labelled(field, text) # {}
              \/ Type(c) = "combo" /\ text \in Entries /\ Valued(field, text) = {}
  <2>1. field.type \in {"combo", "dropdown"}
    BY <1>15 DEF IsList
  <2> QED BY <2>1, ListShown
<1>16. ASSUME Type(c) = "text" PROVE text \in Words
  <2>1. CASE value = Null
    <3>1. text = <<>>
      BY <1>16, <2>1, ConstantTexts DEF DisplayValue
    <3> QED BY <3>1 DEF Words
  <2>2. CASE value # Null
    <3>1. value \in Words
      BY <1>16, <2>2 DEF Valid, Fits
    <3>2. text = value
      BY <1>16, <3>1, WordsText DEF DisplayValue
    <3> QED BY <3>1, <3>2
  <2> QED BY <2>1, <2>2
<1> HIDE DEF text
<1>17. Exact(d)
  BY <1>5, <1>8, <1>9, <1>10, <1>12, <1>13, <1>15, <1>16 DEF Exact
<1>18. Tells(d, field, value)
  <2>1. CASE Type(c) = "checkbox"
    BY <1>8, <1>10, <1>13, <2>1 DEF Tells
  <2>2. CASE Type(c) = "date"
    BY <1>9, <1>10, <1>13, <1>14, <2>2, ConstantTexts DEF Tells
  <2>3. CASE Type(c) \notin {"checkbox", "date"}
    BY <1>10, <1>14, <2>3 DEF Tells
  <2> QED BY <2>1, <2>2, <2>3
<1>19. Follows(pub, d, c)
  <2>1. (Type(c) = "checkbox" /\ d.state = True) \/ (Type(c) = "date" /\ d.state # Null) => Shows(d)
    BY <1>5, <1>8, <1>9
  <2> QED BY <1>2, <1>5, <1>7, <1>17, <2>1, EditedGood DEF Follows
<1>20. ASSUME Met(field, value) PROVE Answers(d)
  <2>1. Type(c) = "checkbox" => value = True
    BY <1>20 DEF Met
  <2> QED BY <1>4, <1>5, <1>8, <1>12, <1>20, <2>1 DEF Answers
<1> QED BY <1>18, <1>19, <1>20

---------------------------------------------------------------------------
(* Dates that the editor gives as text *)

\* A part of a date has a width.
LEMMA WidthSmall ==
  ASSUME NEW part
  PROVE  Width(part) \in 1..8
<1>1. Width(part) \in {1, 2, 3, 4, 5, 7, 8}
  BY Zenon DEF Width
<1> QED BY <1>1

\* What is left of a date is the beginning of it.
LEMMA DatePrefix ==
  ASSUME NEW text \in Texts, text # <<>>
  PROVE  \E k \in 1..Len(text) : FormatDate(text) = SubSeq(text, 1, k)
<1> DEFINE more == [n \in 1..Len(text) |-> Width(text[n])]
           Is(f) == f = [n \in 0..Len(text) |-> IF n = 0 THEN 0 ELSE f[n - 1] + Width(text[n])]
           chars == CHOOSE f : Is(f)
           K == {k \in 0..Len(text) : chars[k] <= 10}
<1>1. Len(text) \in Nat /\ Len(text) >= 1
  BY DEF Texts
<1>2. PICK g : Adds(g, more, Len(text))
  <2> HIDE DEF more
  <2> QED BY <1>1, AddsFunction
<1>3. Is(g)
  <2>1. g = [i \in 0..Len(text) |-> IF i = 0 THEN 0 ELSE g[i - 1] + more[i]]
    BY <1>2, Zenon DEF Adds
  <2>2. \A i \in 0..Len(text) : i # 0 => i \in 1..Len(text)
    BY <1>1
  <2>3. \A i \in 1..Len(text) : more[i] = Width(text[i])
    BY Zenon
  <2> HIDE DEF more
  <2>4. \A i \in 0..Len(text) : (IF i = 0 THEN 0 ELSE g[i - 1] + more[i]) = (IF i = 0 THEN 0 ELSE g[i - 1] + Width(text[i]))
    BY <2>2, <2>3, Zenon
  <2>5. [i \in 0..Len(text) |-> IF i = 0 THEN 0 ELSE g[i - 1] + more[i]]
        = [i \in 0..Len(text) |-> IF i = 0 THEN 0 ELSE g[i - 1] + Width(text[i])]
    BY <2>4, Zenon
  <2> QED BY <2>1, <2>5, Zenon
<1>4. Is(chars)
  BY <1>3, Zenon
<1>5. Chars(text) = chars
  BY Zenon DEF Chars
<1>6. FormatDate(text) = SubSeq(text, 1, Max(K))
  BY <1>5, Zenon DEF FormatDate
<1>7. \A n \in 0..Len(text) : chars[n] = IF n = 0 THEN 0 ELSE chars[n - 1] + Width(text[n])
  BY <1>4, Zenon
<1> HIDE DEF chars
<1>8. chars[1] = Width(text[1])
  <2>1. chars[0] = 0 /\ chars[1] = chars[0] + Width(text[1])
    BY <1>1, <1>7
  <2>2. Width(text[1]) \in 1..8
    BY WidthSmall
  <2> QED BY <2>1, <2>2
<1>9. 1 \in K
  <2>1. Width(text[1]) \in 1..8
    BY WidthSmall
  <2> QED BY <1>1, <1>8, <2>1
<1>10. K \in SUBSET (0..Len(text)) /\ K # {}
  BY <1>9
<1> HIDE DEF K
<1>11. Max(K) \in K /\ \A m \in K : Max(K) >= m
  BY <1>1, <1>10, MaxIn
<1>12. Max(K) \in 1..Len(text)
  <2>1. PICK m : m = Max(K)
    OBVIOUS
  <2>2. m \in 0..Len(text) /\ m >= 1
    BY <1>9, <1>10, <1>11, <2>1
  <2> QED BY <1>1, <2>1, <2>2
<1> QED BY <1>6, <1>12

\* A stored date begins with the year.
LEMMA IsoFirst ==
  ASSUME NEW text \in IsoDates
  PROVE  1 \in DOMAIN text /\ text[1] \in {"2025", "2024"} /\ Len(text) = 5
<1>1. <<"2025", "-", "03", "-", "04">>[1] = "2025" /\ <<"2024", "-", "01", "-", "02">>[1] = "2024"
  OBVIOUS
<1>2. \A e, f, g, h, i : 1 \in DOMAIN <<e, f, g, h, i>> /\ Len(<<e, f, g, h, i>>) = 5
  OBVIOUS
<1>3. text = <<"2025", "-", "03", "-", "04">> \/ text = <<"2024", "-", "01", "-", "02">>
  BY IsoLiterals
<1> QED BY <1>1, <1>2, <1>3, Zenon

\* A date in the format of a template begins with the day, by which the dates can be told apart.
LEMMA DayFirst ==
  ASSUME NEW c, NEW format \in Formats, format # <<>>, NEW date \in Dates
  PROVE  LET first == Masked(InCalendar(c, date), format)[1] IN
         /\ 1 \in DOMAIN format /\ first \in {"4", "2", "04", "02"}
         /\ \A other \in Dates : Masked(InCalendar(c, other), format)[1] = first => other = date
<1>1. 1 \in DOMAIN format /\ format[1] \in {"d", "dd"}
  BY DEF Formats
<1>2. ASSUME NEW some \in Dates
      PROVE  Masked(InCalendar(c, some), format)[1] = IF format[1] = "dd" THEN Padded(some.day) ELSE Numeral(some.day)
  <2>1. Masked(InCalendar(c, some), format)[1] = DateToken(InCalendar(c, some), format[1])
    BY <1>1 DEF Masked
  <2>2. InCalendar(c, some).day = some.day
    <3>1. some = [year |-> 2025, month |-> 3, day |-> 4] \/ some = [year |-> 2024, month |-> 1, day |-> 2]
      BY DEF Dates
    <3> QED BY <3>1 DEF InCalendar
  <2>3. \A day : DateToken(day, "dd") = Padded(day.day) /\ DateToken(day, "d") = Numeral(day.day)
    BY DEF DateToken
  <2> QED BY <1>1, <2>1, <2>2, <2>3
<1>3. \A some \in Dates : some.day \in {4, 2}
  BY DEF Dates
<1>4. \A some, other \in Dates : some.day = other.day => some = other
  BY DEF Dates
<1>5. Padded(4) = "04" /\ Padded(2) = "02" /\ Numeral(4) = "4" /\ Numeral(2) = "2"
  BY DEF Padded, Numeral
<1>6. ASSUME NEW some \in Dates
      PROVE  Masked(InCalendar(c, some), format)[1]
               = IF format[1] = "dd" THEN (IF some.day = 4 THEN "04" ELSE "02") ELSE (IF some.day = 4 THEN "4" ELSE "2")
  BY <1>2, <1>3, <1>5
<1>7. ASSUME NEW other \in Dates, Masked(InCalendar(c, other), format)[1] = Masked(InCalendar(c, date), format)[1]
      PROVE  other = date
  <2>1. other.day = date.day
    BY <1>3, <1>6, <1>7
  <2> QED BY <1>4, <2>1
<1> QED BY <1>1, <1>6, <1>7

\* A date that was stored is read as itself.
LEMMA IsoParsed ==
  ASSUME NEW c, c.format \in Formats, NEW text \in IsoDates
  PROVE  ParsedDate(c, text) = text
<1> DEFINE fits == {date \in Dates : Masked(InCalendar(c, date), c.format) = text}
<1>1. c.format = <<>> \/ fits = {}
  <2> SUFFICES ASSUME c.format # <<>>, NEW date \in fits PROVE FALSE
    OBVIOUS
  <2>1. date \in Dates /\ Masked(InCalendar(c, date), c.format)[1] = text[1]
    OBVIOUS
  <2>2. text[1] \in {"4", "2", "04", "02"}
    BY <2>1, DayFirst
  <2> QED BY <2>2, IsoFirst
<1> HIDE DEF fits
<1> QED BY <1>1 DEF ParsedDate, fits

\* A value of a field that is taken from what was read.
Taken(own, field, value, v) ==
  /\ (v = value /\ value \in IsoDates /\ field.type = "date") \/ v = NormalizeDisplayValue(own, field, value)
  /\ v = Null \/ ManifestFieldValueMatches(field, v)

\* The date that a control holds is read from its properties or from what it shows.
DateGiven(c, state, value) == value \in {state, FormatDate(EditorDisplay(c, state))}

\* Of a control that shows a date only that date is read.
LEMMA DateRead ==
  ASSUME NEW c, Settings(c), NEW own, own.format = c.format, own.calendar = c.calendar,
         NEW field, field.type = "date", NEW state \in IsoDates,
         NEW value, DateGiven(c, state, value), NEW v, Taken(own, field, value, v)
  PROVE  v = state /\ value # <<>>
<1>0. value \in {state, FormatDate(EditorDisplay(c, state))}
  BY DEF DateGiven
<1>6. ((v = value /\ value \in IsoDates) \/ v = NormalizeDisplayValue(own, field, value)) /\ (v = Null \/ v \in IsoDates)
  BY DEF Taken, ManifestFieldValueMatches
<1> DEFINE shown == EditorDisplay(c, state)
           date == DateOfIso(state)
<1>1. date \in Dates /\ Iso(date) = state /\ c.format \in Formats
  <2>1. \E d \in Dates : Iso(d) = state
    BY DEF IsoDates
  <2> QED BY <2>1, Zenon DEF DateOfIso, Settings
<1>2. shown = IF c.format = <<>> THEN state ELSE Masked(InCalendar(c, date), c.format)
  BY DEF EditorDisplay
<1>3. /\ shown \in Texts /\ 1 \in DOMAIN shown
      /\ shown[1] \in IF c.format = <<>> THEN {"2025", "2024"} ELSE {"4", "2", "04", "02"}
  <2>1. CASE c.format = <<>>
    BY <1>2, <2>1, IsoFirst, IsoTexts
  <2>2. CASE c.format # <<>>
    <3>1. shown = Masked(InCalendar(c, date), c.format)
      BY <1>2, <2>2
    <3>2. InCalendar(c, date) \in WrittenDates /\ c.format \in Patterns
      BY <1>1, IsoInk, CalendarDates DEF Formats
    <3>3. shown \in Texts
      BY <3>1, <3>2, DateInk
    <3>4. 1 \in DOMAIN c.format /\ shown[1] \in {"4", "2", "04", "02"}
      BY <1>1, <2>2, <3>1, DayFirst
    <3>5. DOMAIN shown = DOMAIN c.format
      BY <3>1 DEF Masked
    <3> QED BY <2>2, <3>3, <3>4, <3>5
  <2> QED BY <2>1, <2>2
<1>4. CASE value = state
  <2>1. IsText(state) /\ state # <<>> /\ ParsedDate(own, state) = state
    BY <1>1, IsoTexts, IsoParsed
  <2>2. NormalizeDisplayValue(own, field, state) = state
    BY <2>1 DEF NormalizeDisplayValue
  <2> QED BY <1>4, <1>6, <2>1, <2>2
<1>5. CASE value = FormatDate(shown)
  <2> HIDE DEF shown, date
  <2>1. PICK k \in 1..Len(shown) : value = SubSeq(shown, 1, k)
    <3>1. shown # <<>>
      BY <1>3
    <3> QED BY <1>3, <1>5, <3>1, DatePrefix
  <2>2. 1 \in DOMAIN value /\ value[1] = shown[1] /\ Len(value) = k
    BY <1>3, <2>1 DEF Texts
  <2>3. value[1] \in {"2025", "2024", "4", "2", "04", "02"}
    BY <1>3, <2>2
  <2>4. value # <<>> /\ IsText(value)
    <3>1. <<"#null">>[1] = "#null" /\ <<"#true">>[1] = "#true" /\ <<"#false">>[1] = "#false"
      OBVIOUS
    <3> QED BY <2>2, <2>3, <3>1 DEF IsText, Null, True, False
  <2>5. (v = value /\ value \in IsoDates) \/ v = ParsedDate(own, value)
    BY <1>6, <2>4 DEF NormalizeDisplayValue
  <2> DEFINE fits == {d \in Dates : Masked(InCalendar(own, d), own.format) = value}
             fit == CHOOSE d \in fits : TRUE
  <2>6. v = value \/ (c.format # <<>> /\ fits # {} /\ v = Iso(fit))
    BY <2>5 DEF ParsedDate
  <2>7. CASE v = value
    <3>1. v \in IsoDates
      BY <1>6, <2>4, <2>7 DEF IsText
    <3>2. value[1] \in {"2025", "2024"} /\ Len(value) = 5
      BY <2>7, <3>1, IsoFirst
    <3>3. c.format = <<>>
      BY <1>3, <2>2, <3>2
    <3>4. shown = state
      BY <1>2, <3>3
    <3>5. Len(state) = 5 /\ state \in Texts
      BY IsoFirst, IsoTexts
    <3>6. value = SubSeq(state, 1, Len(state))
      BY <2>1, <2>2, <3>2, <3>4, <3>5
    <3>7. value = state
      BY <3>5, <3>6 DEF Texts
    <3> QED BY <2>4, <2>7, <3>7
  <2>8. CASE c.format # <<>> /\ fits # {} /\ v = Iso(fit)
    <3>1. fit \in fits
      BY <2>8, Zenon
    <3>2. fit \in Dates /\ Masked(InCalendar(own, fit), own.format) = value
      BY <3>1
    <3> HIDE DEF fits, fit
    <3>3. InCalendar(own, fit) = InCalendar(c, fit)
      BY DEF InCalendar
    <3>4. Masked(InCalendar(c, fit), c.format)[1] = Masked(InCalendar(c, date), c.format)[1]
      BY <1>2, <2>2, <2>8, <3>2, <3>3
    <3>5. fit = date
      BY <1>1, <2>8, <3>2, <3>4, DayFirst
    <3> QED BY <1>1, <2>4, <2>8, <3>5
  <2> QED BY <2>6, <2>7, <2>8
<1> QED BY <1>0, <1>4, <1>5

---------------------------------------------------------------------------
(* What is read of a control is what it shows *)

\* A value as it was given, or as it is stored, is a text.
LEMMA NormalTexts ==
  ASSUME NEW c, NEW field, GoodField(field), NEW value \in Texts
  PROVE  NormalizeDisplayValue(c, field, value) \in Texts
<1> DEFINE new == NormalizeDisplayValue(c, field, value)
<1>1. CASE ~IsText(value)
  <2>1. new = value
    BY <1>1 DEF NormalizeDisplayValue
  <2> QED BY <2>1
<1>2. CASE IsText(value) /\ field.type = "checkbox"
  <2>1. new \in {True, False, value}
    BY <1>2 DEF NormalizeDisplayValue
  <2> QED BY <2>1, ConstantTexts
<1>3. CASE IsText(value) /\ field.type = "date"
  <2>1. new \in {Null, ParsedDate(c, value)}
    BY <1>3 DEF NormalizeDisplayValue
  <2>2. ParsedDate(c, value) \in Texts
    <3> DEFINE fits == {date \in Dates : Masked(InCalendar(c, date), c.format) = value}
               date == CHOOSE d \in fits : TRUE
    <3>1. ParsedDate(c, value) = value \/ (fits # {} /\ ParsedDate(c, value) = Iso(date))
      BY DEF ParsedDate
    <3>2. fits # {} => date \in Dates
      OBVIOUS
    <3> HIDE DEF fits, date
    <3>3. fits # {} => Iso(date) \in IsoDates
      BY <3>2 DEF IsoDates
    <3> QED BY <3>1, <3>3, IsoTexts
  <2> QED BY <2>1, <2>2, ConstantTexts
<1>4. CASE IsText(value) /\ field.type \in {"dropdown", "combo"}
  <2> DEFINE items == Labelled(field, value)
  <2>1. new \in {Null, value} \/ (items # {} /\ new = field.options[Min(items)].value)
    BY <1>4 DEF NormalizeDisplayValue
  <2>2. ASSUME items # {} PROVE field.options[Min(items)].value \in Texts
    <3>1. items \in SUBSET (DOMAIN field.options) /\ items \in SUBSET Nat
      BY DEF GoodField, Labelled
    <3>2. Min(items) \in items
      BY <2>2, <3>1, MinIn
    <3> QED BY <3>1, <3>2 DEF GoodField, OptionsReadable
  <2> QED BY <2>1, <2>2, ConstantTexts
<1>5. CASE IsText(value) /\ field.type \notin {"checkbox", "date", "dropdown", "combo"}
  <2>1. new = value
    BY <1>5 DEF NormalizeDisplayValue
  <2> QED BY <2>1
<1> QED BY <1>1, <1>2, <1>3, <1>4, <1>5

\* There is nothing to trim of no text.
LEMMA EmptyTrim == Trim(<<>>) = <<>> /\ <<>> \in Texts /\ <<>> \in Words
<1>1. <<>> \in Texts /\ ~Ink(<<>>)
  BY Basics DEF Ink, ToSet
<1>2. Trim(<<>>) = <<>>
  BY <1>1, TrimInk DEF Texts
<1> QED BY <1>1, <1>2 DEF Words

\* A list in which an option is shown has that option chosen.
LEMMA OptionReads ==
  ASSUME NEW c, NEW field, GoodField(field), field.type \in {"combo", "dropdown"}, field.options = c.options,
         NEW text, Labelled(field, text) # {}
  PROVE  LET v == field.options[Min(Labelled(field, text))].value IN
         /\ IsText(text) /\ text # <<>> /\ Trim(text) = text /\ v \in Values(field) /\ v \in Texts /\ IsText(v)
         /\ DisplayValue(c, field, v) = text
<1> DEFINE items == Labelled(field, text)
           m == Min(items)
           v == field.options[m].value
<1>1. items \in SUBSET (DOMAIN field.options) /\ items \in SUBSET Nat
  BY DEF GoodField, Labelled
<1>2. m \in items
  BY <1>1, MinIn
<1>3. m \in DOMAIN field.options /\ field.options[m].displayText = text
  BY <1>2 DEF Labelled
<1> HIDE DEF items, m
<1>4. IsText(text) /\ Trim(text) = text /\ text \in Texts /\ Ink(text) /\ v \in Texts /\ IsText(v)
  BY <1>3 DEF GoodField, OptionsReadable
<1>5. text # <<>>
  BY <1>4 DEF Ink, ToSet
<1>6. v \in Values(field)
  BY <1>3 DEF Values
<1> DEFINE same == Valued(field, v)
           n == Min(same)
<1>7. same \in SUBSET (DOMAIN field.options) /\ same \in SUBSET Nat /\ m \in same
  BY <1>3 DEF GoodField, Valued
<1>8. n \in same
  BY <1>7, MinIn
<1>9. n \in DOMAIN field.options /\ field.options[n].value = v
  BY <1>8 DEF Valued
<1>10. same # {}
  BY <1>7
<1> HIDE DEF same, n
<1>11. n = m
  BY <1>3, <1>9 DEF GoodField, OptionsDistinct
<1> HIDE DEF v
<1>12. DisplayValue(c, field, v) = field.options[n].displayText
  BY <1>4, <1>10, Zenon DEF DisplayValue, same, n
<1> QED BY <1>3, <1>4, <1>5, <1>6, <1>11, <1>12 DEF v, m, items

\* What such a control shows, read as a display, is what it tells.
LEMMA DisplayReads ==
  ASSUME NEW pub, NEW c, GoodControl(pub, c), NEW field, GoodField(field), field.type = Type(c), field.options = c.options,
         field.type \in {"text", "combo", "dropdown"}, NEW own, NEW text \in {Shown(c), Trim(Shown(c))}
  PROVE  LET v == NormalizeDisplayValue(own, field, text) IN
         /\ Tells(c, field, v) /\ v \in Texts /\ Fits(field, v)
         /\ Trim(Shown(c)) # <<>> => ManifestFieldValueMatches(field, v)
<1> SUFFICES ASSUME NEW v, v = NormalizeDisplayValue(own, field, text)
             PROVE  /\ Tells(c, field, v) /\ v \in Texts /\ Fits(field, v)
                    /\ Trim(Shown(c)) # <<>> => ManifestFieldValueMatches(field, v)
  OBVIOUS
<1>1. Exact(c) /\ Shown(c) \in Texts
  BY ShownTexts DEF GoodControl
<1>2. \A value : Trim(Shown(c)) = Trim(DisplayValue(c, field, value)) => Tells(c, field, value)
  BY DEF Tells
<1>3. CASE field.type = "text"
  <2>1. Shown(c) \in Words /\ Trim(Shown(c)) \in Words /\ Trim(Trim(Shown(c))) = Trim(Shown(c))
    BY <1>1, <1>3, TrimInk, TrimTwice DEF Exact, Words
  <2>2. text \in Words /\ Trim(text) = Trim(Shown(c))
    BY <2>1
  <2>3. text \in Texts /\ IsText(text)
    BY <2>2, WordsText
  <2>4. v = text /\ DisplayValue(c, field, text) = text
    BY <1>3, <2>3 DEF NormalizeDisplayValue, DisplayValue
  <2>5. ManifestFieldValueMatches(field, text)
    BY <1>3, <2>3 DEF ManifestFieldValueMatches
  <2> QED BY <1>2, <1>3, <2>2, <2>3, <2>4, <2>5 DEF Fits
<1>4. CASE field.type \in {"combo", "dropdown"}
  <2>1. \/ Shown(c) = <<>>
        \/ Labelled(c, Shown(c)) # {}
        \/ Type(c) = "combo" /\ Shown(c) \in Entries /\ Valued(c, Shown(c)) = {}
    BY <1>1, <1>4 DEF Exact, IsList
  <2>2. CASE Shown(c) = <<>>
    <3>1. text = <<>> /\ Trim(Shown(c)) = <<>>
      BY <2>2, EmptyTrim
    <3>2. v = Null
      BY <1>4, <3>1, ConstantTexts DEF NormalizeDisplayValue
    <3>3. DisplayValue(c, field, Null) = <<>>
      BY <1>4, ConstantTexts DEF DisplayValue
    <3> QED BY <1>2, <1>4, <2>2, <3>1, <3>2, <3>3, ConstantTexts DEF Fits
  <2>3. CASE Labelled(c, Shown(c)) # {}
    <3> DEFINE o == field.options[Min(Labelled(field, Shown(c)))].value
    <3>1. Labelled(field, Shown(c)) # {}
      BY <2>3 DEF Labelled
    <3>2. /\ IsText(Shown(c)) /\ Shown(c) # <<>> /\ Trim(Shown(c)) = Shown(c) /\ o \in Values(field) /\ o \in Texts /\ IsText(o)
          /\ DisplayValue(c, field, o) = Shown(c)
      BY <1>4, <3>1, OptionReads
    <3>3. text = Shown(c)
      BY <3>2
    <3>4. v = o
      BY <1>4, <3>1, <3>2, <3>3 DEF NormalizeDisplayValue
    <3>5. ManifestFieldValueMatches(field, o)
      BY <1>4, <3>2 DEF ManifestFieldValueMatches
    <3> HIDE DEF o
    <3> QED BY <1>2, <1>4, <3>2, <3>4, <3>5 DEF Fits
  <2>4. CASE Type(c) = "combo" /\ Shown(c) \in Entries /\ Valued(c, Shown(c)) = {}
    <3>1. IsText(Shown(c)) /\ Shown(c) # <<>> /\ Trim(Shown(c)) = Shown(c)
      BY <2>4, EntriesMade
    <3>2. text = Shown(c)
      BY <3>1
    <3>3. Labelled(field, text) = {}
      BY <2>4, <3>2 DEF Labelled, GoodField, OptionsReadable
    <3>4. v = text
      BY <1>4, <3>1, <3>2, <3>3 DEF NormalizeDisplayValue
    <3>5. Valued(field, text) = {}
      BY <2>4, <3>2 DEF Valued
    <3>6. DisplayValue(c, field, text) = text
      BY <1>4, <3>1, <3>2, <3>5 DEF DisplayValue
    <3>7. ManifestFieldValueMatches(field, text)
      BY <2>4, <3>1, <3>2 DEF ManifestFieldValueMatches
    <3> QED BY <1>1, <1>2, <2>4, <3>2, <3>4, <3>6, <3>7 DEF Fits
  <2> QED BY <2>1, <2>2, <2>3, <2>4
<1> QED BY <1>3, <1>4

\* A text that was missed is read as none.
LEMMA EmptyReads ==
  ASSUME NEW field, field.type \in {"text", "combo", "dropdown"}, NEW own
  PROVE  LET v == NormalizeDisplayValue(own, field, <<>>) IN v \in Texts /\ Fits(field, v)
<1>1. CASE field.type = "text"
  <2>1. NormalizeDisplayValue(own, field, <<>>) = <<>>
    BY <1>1, ConstantTexts DEF NormalizeDisplayValue
  <2> QED BY <1>1, <2>1, EmptyTrim DEF Fits
<1>2. CASE field.type # "text"
  <2>1. NormalizeDisplayValue(own, field, <<>>) = Null
    BY <1>2, ConstantTexts DEF NormalizeDisplayValue
  <2> QED BY <2>1, ConstantTexts DEF Fits
<1> QED BY <1>1, <1>2

\* A value that is stored already stays one of its field when it is read as a display.
LEMMA StoredReads ==
  ASSUME NEW field, GoodField(field), field.type \in {"text", "combo"}, NEW value, Valid(field, value), NEW own
  PROVE  LET v == NormalizeDisplayValue(own, field, value) IN v \in Texts /\ Fits(field, v)
<1> DEFINE v == NormalizeDisplayValue(own, field, value)
<1>1. v \in Texts
  BY NormalTexts DEF Valid
<1>2. CASE ~IsText(value) \/ field.type = "text"
  <2>1. v = value
    BY <1>2 DEF NormalizeDisplayValue
  <2> QED BY <1>1, <2>1 DEF Valid
<1>3. CASE IsText(value) /\ field.type = "combo"
  <2> DEFINE items == Labelled(field, value)
  <2>1. v \in {Null, value} \/ (items # {} /\ v = field.options[Min(items)].value)
    BY <1>3 DEF NormalizeDisplayValue
  <2>2. ASSUME items # {} PROVE field.options[Min(items)].value \in Values(field)
    <3>1. items \in SUBSET (DOMAIN field.options) /\ items \in SUBSET Nat
      BY DEF GoodField, Labelled
    <3>2. Min(items) \in items
      BY <2>2, <3>1, MinIn
    <3> QED BY <3>1, <3>2 DEF Values
  <2>3. value # Null
    BY <1>3, ConstantTexts
  <2>4. value \in Values(field) \cup Entries
    BY <1>3, <2>3 DEF Valid, Fits
  <2> HIDE DEF v, items
  <2>5. v = Null \/ v \in Values(field) \cup Entries
    BY <2>1, <2>2, <2>4
  <2> QED BY <1>1, <1>3, <2>5 DEF Fits, v
<1> QED BY <1>1, <1>2, <1>3

\* Of the other fields only the kinds of their values count.
LEMMA KindValid ==
  ASSUME NEW field, GoodField(field), field.type \notin {"text", "combo"},
         NEW v, v = Null \/ ManifestFieldValueMatches(field, v)
  PROVE  Valid(field, v)
<1>1. CASE v = Null
  BY <1>1, NullValid
<1>2. CASE v # Null
  <2>1. ManifestFieldValueMatches(field, v)
    BY <1>2
  <2>2. v \in Texts
    <3>1. CASE field.type = "checkbox"
      BY <2>1, <3>1, ConstantTexts DEF ManifestFieldValueMatches
    <3>2. CASE field.type = "dropdown"
      BY <2>1, <3>2 DEF ManifestFieldValueMatches, Values, GoodField, OptionsReadable
    <3>3. CASE field.type = "date"
      BY <2>1, <3>3, IsoTexts DEF ManifestFieldValueMatches
    <3>4. CASE field.type = "picture"
      BY <2>1, <3>4 DEF ManifestFieldValueMatches
    <3> QED BY <3>1, <3>2, <3>3, <3>4 DEF GoodField, FieldTypes
  <2> QED BY <2>1, <2>2 DEF Valid, Fits
<1> QED BY <1>1, <1>2

\* Fields whose values are entered as text or chosen from a list.
Entered == {"text", "combo", "dropdown"}

\* The control tells the value that was taken.
TakenTold(c, field, value, v) == Tells(c, field, v) /\ Valid(field, v) /\ (value = <<>> => field.type \in Entered)

\* What the plugin reads of a control, as far as it can be a value of the field, is what the control tells.
LEMMA ReadTells ==
  ASSUME NEW pub, NEW c, GoodControl(pub, c), Settings(c), NEW field, GoodField(field), field.type = Type(c),
         field.options = c.options, field.type # "picture",
         NEW own, own.format = c.format, own.calendar = c.calendar, NEW dates,
         NEW value, value = ReadControl(c, FALSE, dates), NEW v, Taken(own, field, value, v)
  PROVE  TakenTold(c, field, value, v)
<1> SUFFICES Tells(c, field, v) /\ Valid(field, v) /\ (value = <<>> => field.type \in {"text", "combo", "dropdown"})
  BY DEF TakenTold, Entered
<1>5. /\ (v = value /\ value \in IsoDates /\ field.type = "date") \/ v = NormalizeDisplayValue(own, field, value)
      /\ v = Null \/ ManifestFieldValueMatches(field, v)
  BY DEF Taken
<1>1. Exact(c)
  BY DEF GoodControl
<1>2. CASE field.type = "checkbox"
  <2>1. value = (IF c.state = True THEN True ELSE False) /\ value # <<>>
    BY <1>2, ConstantTexts DEF ReadControl
  <2>2. ~IsText(value)
    BY <2>1, ConstantTexts
  <2>3. v = value
    BY <1>2, <1>5, <2>2 DEF NormalizeDisplayValue
  <2>4. v = True <=> c.state = True
    BY <2>1, <2>3, ConstantTexts
  <2>5. Shown(c) = Glyph(c, c.state)
    BY <1>1, <1>2 DEF Exact, Shown
  <2>6. Glyph(c, v) = Glyph(c, c.state)
    BY <2>4 DEF Glyph
  <2>7. Tells(c, field, v)
    BY <1>2, <2>4, <2>5, <2>6 DEF Tells
  <2> QED BY <1>2, <1>5, <2>1, <2>7, KindValid
<1>3. CASE field.type = "date"
  <2>1. v = Null \/ v \in IsoDates
    BY <1>3, <1>5 DEF ManifestFieldValueMatches
  <2>2. CASE c.state = Null
    <3>1. value = Null /\ Null \notin IsoDates
      BY <1>3, <2>2, ConstantTexts, IsoTexts DEF ReadControl
    <3>2. v = Null /\ value # <<>>
      BY <1>5, <3>1, ConstantTexts DEF NormalizeDisplayValue
    <3>3. Shown(c) = <<>>
      BY <1>1, <1>3, <2>2, <3>1 DEF Exact
    <3>4. DisplayValue(c, field, Null) = <<>>
      BY <1>3, ConstantTexts DEF DisplayValue
    <3>5. Tells(c, field, v)
      BY <1>3, <3>2, <3>3, <3>4, ConstantTexts DEF Tells
    <3> QED BY <1>3, <1>5, <3>2, <3>5, KindValid
  <2>3. CASE c.state # Null
    <3>1. c.state \in IsoDates /\ Shown(c) = EditorDisplay(c, c.state)
      BY <1>1, <1>3, <2>3 DEF Exact
    <3>2. value \in {c.state, FormatDate(EditorDisplay(c, c.state))}
      BY <1>3, <2>3, <3>1 DEF ReadControl
    <3>3. ASSUME NEW state \in IsoDates, state = c.state, NEW w, w = value
          PROVE  v = state /\ w # <<>>
      <4>1. DateGiven(c, state, w)
        BY <3>2, <3>3 DEF DateGiven
      <4>2. Taken(own, field, w, v)
        BY <3>3
      <4>3. field.type = "date"
        BY <1>3
      <4> HIDE <1>3
      <4>4. Settings(c) /\ own.format = c.format /\ own.calendar = c.calendar
        OBVIOUS
      <4>5. \A x : DateGiven(c, state, x) /\ Taken(own, field, x, v) => v = state /\ x # <<>>
        BY <3>3, <4>3, <4>4, DateRead
      <4> QED BY <4>1, <4>2, <4>5
    <3>4. v = c.state /\ value # <<>>
      BY <3>1, <3>3
    <3>5. IsText(v)
      BY <3>1, <3>4, IsoTexts
    <3>6. Tells(c, field, v)
      BY <1>3, <3>1, <3>4, <3>5 DEF Tells
    <3> QED BY <1>3, <1>5, <3>4, <3>6, KindValid
  <2> QED BY <2>2, <2>3
<1>4. CASE field.type \in {"text", "combo", "dropdown"}
  <2>1. value = Trim(Shown(c))
    BY <1>4 DEF ReadControl
  <2>2. v = NormalizeDisplayValue(own, field, Trim(Shown(c)))
    BY <1>4, <1>5, <2>1
  <2>3. Tells(c, field, v) /\ v \in Texts /\ Fits(field, v)
    BY <1>4, <2>2, DisplayReads
  <2> QED BY <1>4, <1>5, <2>3 DEF Valid
<1> QED BY <1>2, <1>3, <1>4 DEF GoodField, FieldTypes
================================================================================

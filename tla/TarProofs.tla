------------------------------ MODULE TarProofs -------------------------------
(***************************************************************************)
(* The archives, for any requests, lengths of fields and capacities: what  *)
(* the table of contents says is in the bucket and what the listener is    *)
(* given (first half); and, for archives without sparse files, that the    *)
(* entries that are read are the members that were written (second half).  *)
(***************************************************************************)
EXTENDS TarConcat, SequenceTheorems, WellFoundedInduction, TLAPS

-----------------------------------------------------------------------------
(* Sequences, whatever they are of.                                        *)

LEMMA SeqFacts ==
    ASSUME NEW s, IsSeq(s)
    PROVE  /\ Len(s) \in Nat
           /\ DOMAIN s = 1..Len(s)
           /\ \A S : (\A i \in 1..Len(s) : s[i] \in S) => s \in Seq(S)
<1>1. s \in Seq(Range(s))
  BY DEF IsSeq
<1>2. Len(s) \in Nat /\ DOMAIN s = 1..Len(s) /\ s \in [1..Len(s) -> Range(s)]
  BY <1>1, LenProperties
<1>3. ASSUME NEW S, \A i \in 1..Len(s) : s[i] \in S PROVE s \in Seq(S)
  <2>1. s \in [1..Len(s) -> S]
    BY <1>2, <1>3
  <2> QED
    BY <1>2, <2>1, SeqDef
<1> QED
  BY <1>2, <1>3

LEMMA SeqIsSeq ==
    ASSUME NEW S, NEW s \in Seq(S)
    PROVE  IsSeq(s)
BY SeqOfRange DEF IsSeq

LEMMA EmptyIsSeq == IsSeq(<<>>) /\ Len(<<>>) = 0
<1>1. <<>> \in Seq({}) /\ Len(<<>>) = 0
  BY EmptySeq
<1> QED
  BY <1>1, SeqIsSeq

\* Two sequences over one set.
LEMMA CommonSet ==
    ASSUME NEW s, NEW t, IsSeq(s), IsSeq(t)
    PROVE  \E S : s \in Seq(S) /\ t \in Seq(S)
<1> DEFINE S == Range(s) \cup Range(t)
<1>1. s \in Seq(Range(s)) /\ t \in Seq(Range(t))
  BY DEF IsSeq
<1>2. s \in Seq(S)
  BY <1>1, SeqMonotonic
<1>3. t \in Seq(S)
  BY <1>1, SeqMonotonic
<1> QED
  BY <1>2, <1>3

LEMMA SameSeq ==
    ASSUME NEW s, NEW t, IsSeq(s), IsSeq(t), Len(s) = Len(t),
           \A i \in 1..Len(s) : s[i] = t[i]
    PROVE  s = t
<1>1. PICK S : s \in Seq(S) /\ t \in Seq(S)
  BY CommonSet
<1> QED
  BY <1>1, SeqEqual

LEMMA JoinFacts ==
    ASSUME NEW s, NEW t, IsSeq(s), IsSeq(t)
    PROVE  /\ IsSeq(s \o t)
           /\ Len(s \o t) = Len(s) + Len(t)
           /\ \A i \in 1..Len(s) : (s \o t)[i] = s[i]
           /\ \A i \in 1..Len(t) : (s \o t)[Len(s) + i] = t[i]
<1>1. PICK S : s \in Seq(S) /\ t \in Seq(S)
  BY CommonSet
<1>2. /\ s \o t \in Seq(S)
      /\ Len(s \o t) = Len(s) + Len(t)
      /\ \A i \in 1..Len(s) + Len(t) : (s \o t)[i] = IF i <= Len(s) THEN s[i] ELSE t[i - Len(s)]
  BY <1>1, ConcatProperties
<1>3. Len(s) \in Nat /\ Len(t) \in Nat
  BY SeqFacts
<1>4. IsSeq(s \o t)
  BY <1>2, SeqIsSeq
<1>5. \A i \in 1..Len(s) : (s \o t)[i] = s[i]
  BY <1>2, <1>3
<1>6. ASSUME NEW i \in 1..Len(t) PROVE (s \o t)[Len(s) + i] = t[i]
  <2>1. Len(s) + i \in 1..Len(s) + Len(t) /\ ~(Len(s) + i <= Len(s)) /\ (Len(s) + i) - Len(s) = i
    BY <1>3
  <2> QED
    BY <1>2, <2>1
<1> QED
  BY <1>2, <1>4, <1>5, <1>6

LEMMA PartFacts ==
    ASSUME NEW s, IsSeq(s), NEW m \in Nat, NEW n \in Nat, 1 <= m, m <= n + 1, n <= Len(s)
    PROVE  /\ IsSeq(SubSeq(s, m, n))
           /\ Len(SubSeq(s, m, n)) = n - m + 1
           /\ \A i \in 1..n - m + 1 : SubSeq(s, m, n)[i] = s[m + i - 1]
<1>1. Len(s) \in Nat /\ s \in Seq(Range(s))
  BY SeqFacts DEF IsSeq
<1>2. \A i \in m..n : s[i] \in Range(s)
  BY <1>1, ElementOfSeq
<1>3. /\ SubSeq(s, m, n) \in Seq(Range(s))
      /\ Len(SubSeq(s, m, n)) = IF m <= n THEN n - m + 1 ELSE 0
      /\ \A i \in 1..n - m + 1 : SubSeq(s, m, n)[i] = s[m + i - 1]
  BY <1>2, SubSeqProperties
<1>4. IsSeq(SubSeq(s, m, n))
  BY <1>3, SeqIsSeq
<1> QED
  BY <1>3, <1>4

LEMMA JoinAssoc ==
    ASSUME NEW s, NEW t, NEW u, IsSeq(s), IsSeq(t), IsSeq(u)
    PROVE  (s \o t) \o u = s \o (t \o u)
<1>1. PICK S : s \in Seq(S) /\ t \in Seq(S)
  BY CommonSet
<1>2. PICK T : t \in Seq(T) /\ u \in Seq(T)
  BY CommonSet
<1>3. s \in Seq(S \cup T) /\ t \in Seq(S \cup T)
  BY <1>1, SeqMonotonic
<1>4. u \in Seq(S \cup T)
  BY <1>2, SeqMonotonic
<1> QED
  BY <1>3, <1>4, ConcatAssociative

LEMMA JoinEmpty ==
    ASSUME NEW s, IsSeq(s)
    PROVE  /\ s \o <<>> = s /\ <<>> \o s = s
           /\ Len(s) = 0 => s = <<>>
<1>1. s \in Seq(Range(s))
  BY DEF IsSeq
<1>2. s \o <<>> = s /\ <<>> \o s = s
  BY <1>1, ConcatEmptySeq
<1>3. Len(s) = 0 => s = <<>>
  BY <1>1, EmptySeq
<1> QED
  BY <1>2, <1>3

LEMMA TakeDrop ==
    ASSUME NEW s, IsSeq(s), NEW k \in 0..Len(s)
    PROVE  /\ IsSeq(Take(s, k)) /\ Len(Take(s, k)) = k
           /\ IsSeq(Drop(s, k)) /\ Len(Drop(s, k)) = Len(s) - k
           /\ Take(s, k) \o Drop(s, k) = s
<1>0. Len(s) \in Nat /\ s \in Seq(Range(s))
  BY SeqFacts DEF IsSeq
<1>1. IsSeq(Take(s, k)) /\ Len(Take(s, k)) = k
  BY <1>0, PartFacts DEF Take
<1>2. IsSeq(Drop(s, k)) /\ Len(Drop(s, k)) = Len(s) - k
  BY <1>0, PartFacts DEF Drop
<1>3. SubSeq(s, 1, k) \o SubSeq(s, k + 1, Len(s)) = SubSeq(s, 1, Len(s))
  <2>1. 1 \in 1..Len(s) + 1 /\ k \in 1 - 1..Len(s) /\ Len(s) \in k..Len(s)
    BY <1>0
  <2> QED
    BY <1>0, <2>1, ConcatAdjacentSubSeq
<1>4. SubSeq(s, 1, Len(s)) = s
  BY <1>0, SubSeqFull
<1> QED
  BY <1>1, <1>2, <1>3, <1>4 DEF Take, Drop

\* A part that lies in the first of two sequences.
LEMMA PartOfJoin ==
    ASSUME NEW s, NEW t, IsSeq(s), IsSeq(t),
           NEW m \in Nat, NEW n \in Nat, 1 <= m, m <= n + 1, n <= Len(s)
    PROVE  SubSeq(s \o t, m, n) = SubSeq(s, m, n)
<1>1. /\ IsSeq(s \o t) /\ Len(s \o t) = Len(s) + Len(t)
      /\ \A i \in 1..Len(s) : (s \o t)[i] = s[i]
      /\ Len(s) \in Nat /\ Len(t) \in Nat
  BY JoinFacts, SeqFacts
<1>2. /\ IsSeq(SubSeq(s, m, n)) /\ Len(SubSeq(s, m, n)) = n - m + 1
      /\ \A i \in 1..n - m + 1 : SubSeq(s, m, n)[i] = s[m + i - 1]
  BY PartFacts
<1>3. /\ IsSeq(SubSeq(s \o t, m, n)) /\ Len(SubSeq(s \o t, m, n)) = n - m + 1
      /\ \A i \in 1..n - m + 1 : SubSeq(s \o t, m, n)[i] = (s \o t)[m + i - 1]
  <2>1. n <= Len(s \o t)
    BY <1>1
  <2> QED
    BY <1>1, <2>1, PartFacts
<1>4. \A i \in 1..n - m + 1 : m + i - 1 \in 1..Len(s)
  BY <1>1
<1>5. \A i \in 1..n - m + 1 : SubSeq(s \o t, m, n)[i] = SubSeq(s, m, n)[i]
  BY <1>1, <1>2, <1>3, <1>4
<1> QED
  BY <1>2, <1>3, <1>5, SameSeq

\* What follows position m grows with the sequence.
LEMMA EndOfJoin ==
    ASSUME NEW s, NEW t, IsSeq(s), IsSeq(t), NEW m \in 0..Len(s)
    PROVE  SubSeq(s \o t, m + 1, Len(s \o t)) = SubSeq(s, m + 1, Len(s)) \o t
<1> DEFINE a == SubSeq(s \o t, m + 1, Len(s \o t))
           b == SubSeq(s, m + 1, Len(s))
<1>1. /\ IsSeq(s \o t) /\ Len(s \o t) = Len(s) + Len(t)
      /\ \A i \in 1..Len(s) : (s \o t)[i] = s[i]
      /\ \A i \in 1..Len(t) : (s \o t)[Len(s) + i] = t[i]
      /\ Len(s) \in Nat /\ Len(t) \in Nat
  BY JoinFacts, SeqFacts
<1>2. /\ IsSeq(b) /\ Len(b) = Len(s) - m
      /\ \A i \in 1..Len(s) - m : b[i] = s[m + i]
  <2>1. /\ IsSeq(b) /\ Len(b) = Len(s) - (m + 1) + 1
        /\ \A i \in 1..Len(s) - (m + 1) + 1 : b[i] = s[(m + 1) + i - 1]
    BY <1>1, PartFacts
  <2> HIDE DEF b
  <2> QED
    BY <1>1, <2>1
<1>3. /\ IsSeq(a) /\ Len(a) = Len(s) + Len(t) - m
      /\ \A i \in 1..Len(s) + Len(t) - m : a[i] = (s \o t)[m + i]
  <2>0. Len(s \o t) \in Nat /\ m + 1 \in Nat /\ m + 1 <= Len(s \o t) + 1
    BY <1>1
  <2>1. /\ IsSeq(a) /\ Len(a) = Len(s \o t) - (m + 1) + 1
        /\ \A i \in 1..Len(s \o t) - (m + 1) + 1 : a[i] = (s \o t)[(m + 1) + i - 1]
    <3> DEFINE u == s \o t
               n == Len(u)
    <3>1. IsSeq(u) /\ n \in Nat /\ m + 1 \in Nat /\ 1 <= m + 1 /\ m + 1 <= n + 1 /\ n <= Len(u)
      BY <1>1, <2>0
    <3> HIDE DEF u, n
    <3>2. /\ IsSeq(SubSeq(u, m + 1, n)) /\ Len(SubSeq(u, m + 1, n)) = n - (m + 1) + 1
          /\ \A i \in 1..n - (m + 1) + 1 : SubSeq(u, m + 1, n)[i] = u[(m + 1) + i - 1]
      BY <3>1, PartFacts
    <3> QED
      BY <3>2 DEF u, n
  <2> DEFINE u == s \o t
             l == Len(s) + Len(t) - m
  <2> HIDE DEF a
  <2>2. Len(u) - (m + 1) + 1 = l
    BY <1>1
  <2>3. \A i \in 1..l : (m + 1) + i - 1 = m + i
    BY <1>1
  <2>4. /\ IsSeq(a) /\ Len(a) = Len(u) - (m + 1) + 1
        /\ \A i \in 1..Len(u) - (m + 1) + 1 : a[i] = u[(m + 1) + i - 1]
    BY <2>1
  <2> HIDE DEF u, l
  <2>5. /\ IsSeq(a) /\ Len(a) = l
        /\ \A i \in 1..l : a[i] = u[(m + 1) + i - 1]
    BY <2>2, <2>4
  <2>6. \A i \in 1..l : a[i] = u[m + i]
    BY <2>3, <2>5
  <2> QED
    BY <2>5, <2>6 DEF u, l
<1> HIDE DEF a, b
<1>4. /\ IsSeq(b \o t) /\ Len(b \o t) = Len(b) + Len(t)
      /\ \A i \in 1..Len(b) : (b \o t)[i] = b[i]
      /\ \A i \in 1..Len(t) : (b \o t)[Len(b) + i] = t[i]
  <2>1. IsSeq(b)
    BY <1>2
  <2> QED
    BY <2>1, JoinFacts
<1>5. ASSUME NEW i \in 1..Len(a) PROVE a[i] = (b \o t)[i]
  <2>1. CASE i <= Len(b)
    <3>1. i \in 1..Len(b) /\ i \in 1..Len(s) - m /\ m + i \in 1..Len(s)
          /\ i \in 1..Len(s) + Len(t) - m
      BY <1>1, <1>2, <1>3, <2>1
    <3> QED
      BY <1>1, <1>2, <1>3, <1>4, <3>1
  <2>2. CASE ~(i <= Len(b))
    <3> DEFINE j == i - Len(b)
    <3>1. j \in 1..Len(t) /\ i = Len(b) + j /\ m + i = Len(s) + j
          /\ i \in 1..Len(s) + Len(t) - m
      BY <1>1, <1>2, <1>3, <2>2
    <3> HIDE DEF j
    <3>2. a[i] = (s \o t)[Len(s) + j]
      BY <1>3, <3>1
    <3>3. (b \o t)[i] = t[j]
      BY <1>4, <3>1
    <3> QED
      BY <1>1, <3>1, <3>2, <3>3
  <2> QED
    BY <2>1, <2>2
<1>6. Len(a) = Len(b \o t)
  BY <1>1, <1>2, <1>3, <1>4
<1>7. a = b \o t
  BY <1>3, <1>4, <1>5, <1>6, SameSeq
<1> QED
  BY <1>7 DEF a, b

\* The first c cells of g, and k more.
LEMMA Advance ==
    ASSUME NEW g, IsSeq(g), NEW c \in 0..Len(g), NEW k \in 0..Len(g) - c
    PROVE  /\ SubSeq(g, 1, c) \o Take(Drop(g, c), k) = SubSeq(g, 1, c + k)
           /\ SubSeq(g, 1, c) \o Drop(g, c) = g
           /\ SubSeq(g, 1, Len(g)) = g
           /\ IsSeq(SubSeq(g, 1, c)) /\ Len(SubSeq(g, 1, c)) = c
<1>1. g \in Seq(Range(g)) /\ Len(g) \in Nat
  BY SeqFacts DEF IsSeq
<1>2. /\ IsSeq(Drop(g, c)) /\ Len(Drop(g, c)) = Len(g) - c
      /\ Take(g, c) \o Drop(g, c) = g
      /\ IsSeq(Take(g, c)) /\ Len(Take(g, c)) = c
  BY TakeDrop
<1>3. SubSeq(g, 1, Len(g)) = g
  BY <1>1, SubSeqFull
<1>4. Take(Drop(g, c), k) = SubSeq(g, c + 1, c + k)
  <2> DEFINE a == SubSeq(Drop(g, c), 1, k)
             b == SubSeq(g, c + 1, c + k)
  <2>1. /\ IsSeq(a) /\ Len(a) = k
        /\ \A i \in 1..k : a[i] = Drop(g, c)[i]
    <3>1. /\ IsSeq(a) /\ Len(a) = k - 1 + 1
          /\ \A i \in 1..k - 1 + 1 : a[i] = Drop(g, c)[1 + i - 1]
      BY <1>1, <1>2, PartFacts
    <3> HIDE DEF a
    <3> QED
      BY <3>1
  <2>2. /\ IsSeq(b) /\ Len(b) = k
        /\ \A i \in 1..k : b[i] = g[c + i]
    <3>1. /\ IsSeq(b) /\ Len(b) = (c + k) - (c + 1) + 1
          /\ \A i \in 1..(c + k) - (c + 1) + 1 : b[i] = g[(c + 1) + i - 1]
      BY <1>1, PartFacts
    <3> HIDE DEF b
    <3> QED
      BY <3>1
  <2>3. \A i \in 1..Len(g) - c : Drop(g, c)[i] = g[c + i]
    <3>1. \A i \in 1..Len(g) - (c + 1) + 1 : Drop(g, c)[i] = g[(c + 1) + i - 1]
      BY <1>1, PartFacts DEF Drop
    <3> QED
      BY <1>1, <3>1
  <2> HIDE DEF a, b
  <2>4. \A i \in 1..k : a[i] = b[i]
    BY <1>1, <2>1, <2>2, <2>3
  <2>5. a = b
    BY <2>1, <2>2, <2>4, SameSeq
  <2> QED
    BY <2>5 DEF Take, a, b
<1>5. SubSeq(g, 1, c) \o SubSeq(g, c + 1, c + k) = SubSeq(g, 1, c + k)
  BY <1>1, ConcatAdjacentSubSeq
<1> QED
  BY <1>2, <1>3, <1>4, <1>5 DEF Take

LEMMA AppendFacts ==
    ASSUME NEW s, IsSeq(s), NEW x
    PROVE  /\ IsSeq(Append(s, x))
           /\ Len(Append(s, x)) = Len(s) + 1
           /\ \A i \in 1..Len(s) : Append(s, x)[i] = s[i]
           /\ Append(s, x)[Len(s) + 1] = x
<1> DEFINE S == Range(s) \cup {x}
<1>1. s \in Seq(S) /\ x \in S
  <2>1. s \in Seq(Range(s)) /\ Range(s) \subseteq S
    BY DEF IsSeq
  <2> QED
    BY <2>1, SeqMonotonic
<1> HIDE DEF S
<1>2. /\ Append(s, x) \in Seq(S)
      /\ Len(Append(s, x)) = Len(s) + 1
      /\ \A i \in 1..Len(s) : Append(s, x)[i] = s[i]
      /\ Append(s, x)[Len(s) + 1] = x
  BY <1>1, AppendProperties
<1> QED
  BY <1>2, SeqIsSeq

LEMMA ReplaceFacts ==
    ASSUME NEW s, IsSeq(s), NEW i \in 1..Len(s), NEW x, NEW t, t = [s EXCEPT ![i] = x]
    PROVE  /\ IsSeq(t) /\ Len(t) = Len(s)
           /\ \A j \in 1..Len(s) : t[j] = IF j = i THEN x ELSE s[j]
<1> DEFINE S == Range(s) \cup {x}
<1>1. s \in Seq(S) /\ x \in S
  <2>1. s \in Seq(Range(s)) /\ Range(s) \subseteq S
    BY DEF IsSeq
  <2> QED
    BY <2>1, SeqMonotonic
<1> HIDE DEF S
<1>2. /\ t \in Seq(S) /\ Len(t) = Len(s)
      /\ \A j \in 1..Len(s) : t[j] = IF j = i THEN x ELSE s[j]
  BY <1>1, ExceptSeq
<1> QED
  BY <1>2, SeqIsSeq

\* A sequence given element by element.
LEMMA ListIsSeq ==
    ASSUME NEW n \in Nat, NEW s, s = [i \in 1..n |-> s[i]]
    PROVE  IsSeq(s) /\ Len(s) = n
<1> DEFINE S == {s[i] : i \in 1..n}
<1>1. s \in [1..n -> S]
  OBVIOUS
<1>2. s \in Seq(S)
  BY <1>1, SeqDef
<1>3. DOMAIN s = 1..n /\ DOMAIN s = 1..Len(s) /\ Len(s) \in Nat
  <2>1. DOMAIN s = 1..n
    BY <1>1
  <2>2. DOMAIN s = 1..Len(s) /\ Len(s) \in Nat
    <3> HIDE DEF S
    <3> QED
      BY <1>2, LenProperties
  <2> QED
    BY <2>1, <2>2
<1>4. Len(s) = n
  <2>1. \A a, b \in Nat : 1..a = 1..b => a = b
    <3> SUFFICES ASSUME NEW a \in Nat, NEW b \in Nat, 1..a = 1..b PROVE a = b
      OBVIOUS
    <3>1. a # 0 => a \in 1..b
      OBVIOUS
    <3>2. b # 0 => b \in 1..a
      OBVIOUS
    <3> QED
      BY <3>1, <3>2
  <2> QED
    BY <1>3, <2>1
<1> QED
  BY <1>2, <1>4, SeqIsSeq

LEMMA ZerosFacts ==
    ASSUME NEW n \in Nat
    PROVE  IsSeq(Zeros(n)) /\ Len(Zeros(n)) = n /\ \A i \in 1..n : Zeros(n)[i] = Zero
<1>1. Zeros(n) = [i \in 1..n |-> Zeros(n)[i]] /\ \A i \in 1..n : Zeros(n)[i] = Zero
  BY DEF Zeros
<1> QED
  BY <1>1, ListIsSeq

LEMMA RoundUpFacts ==
    ASSUME NEW n \in Nat
    PROVE  RoundUp(n) \in Nat /\ RoundUp(n) >= n
BY DEF RoundUp, Block

-----------------------------------------------------------------------------
(* Lengths of paths.                                                       *)

LEMMA SetInduction ==
    ASSUME NEW T \in SUBSET Nat, 0 \in T, \A m \in T : m + 1 \in T
    PROVE  T = Nat
<1> SUFFICES ASSUME Nat \ T # {} PROVE FALSE
  OBVIOUS
<1>1. PICK x \in Nat \ T : \A y \in Nat \ T : ~(<<y, x>> \in OpToRel(<, Nat))
  <2>1. Nat \ T \subseteq Nat
    OBVIOUS
  <2> QED
    BY <2>1, NatLessThanWellFounded, WFMin, Zenon
<1>2. x # 0 /\ x - 1 \in Nat /\ x - 1 < x
  OBVIOUS
<1>3. x - 1 \in T
  BY <1>1, <1>2 DEF OpToRel
<1>4. (x - 1) + 1 \in T
  BY <1>3
<1> QED
  BY <1>2, <1>4

LEMMA SumsExist ==
    ASSUME NEW n \in Nat, NEW c, \A i \in 1..n : c[i].w \in Nat
    PROVE  \E g : /\ g = [i \in 0..n |-> IF i = 0 THEN 0 ELSE g[i - 1] + c[i].w]
                  /\ \A i \in 0..n : g[i] \in Nat
<1> DEFINE Sums(m, g) == /\ g = [i \in 0..m |-> IF i = 0 THEN 0 ELSE g[i - 1] + c[i].w]
                         /\ \A i \in 0..m : g[i] \in Nat
           T == {m \in Nat : m <= n => \E g : Sums(m, g)}
<1>1. 0 \in T
  <2>1. Sums(0, [i \in 0..0 |-> 0])
    OBVIOUS
  <2> QED
    BY <2>1
<1>2. ASSUME NEW m \in T PROVE m + 1 \in T
  <2> SUFFICES ASSUME m + 1 <= n PROVE \E g : Sums(m + 1, g)
    OBVIOUS
  <2>1. PICK g : Sums(m, g)
    OBVIOUS
  <2> DEFINE h == [i \in 0..m + 1 |-> IF i = m + 1 THEN g[m] + c[m + 1].w ELSE g[i]]
  <2>2. \A i \in 0..m : h[i] = g[i]
    OBVIOUS
  <2>3. h[m + 1] = h[m] + c[m + 1].w /\ h[m + 1] \in Nat
    BY <2>1
  <2>4. \A i \in 0..m + 1 : h[i] = IF i = 0 THEN 0 ELSE h[i - 1] + c[i].w
    <3> SUFFICES ASSUME NEW i \in 0..m + 1 PROVE h[i] = IF i = 0 THEN 0 ELSE h[i - 1] + c[i].w
      OBVIOUS
    <3>1. CASE i = m + 1
      BY <2>3, <3>1
    <3>2. CASE i \in 0..m
      <4>1. g[i] = IF i = 0 THEN 0 ELSE g[i - 1] + c[i].w
        BY <2>1, <3>2
      <4>2. i = 0 \/ i - 1 \in 0..m
        BY <3>2
      <4> HIDE DEF h
      <4> QED
        BY <2>2, <3>2, <4>1, <4>2
    <3> QED
      BY <3>1, <3>2
  <2>5. h = [i \in 0..m + 1 |-> h[i]]
    OBVIOUS
  <2>6. \A i \in 0..m + 1 : h[i] \in Nat
    BY <2>1, <2>3
  <2> HIDE DEF h
  <2>7. h = [i \in 0..m + 1 |-> IF i = 0 THEN 0 ELSE h[i - 1] + c[i].w]
    BY <2>4, <2>5
  <2> QED
    BY <2>6, <2>7
<1> HIDE DEF Sums
<1>3. n \in T
  <2>1. T \in SUBSET Nat
    OBVIOUS
  <2> HIDE DEF T
  <2> QED
    BY <1>1, <1>2, <2>1, SetInduction
<1>4. \E g : Sums(n, g)
  BY <1>3
<1> QED
  BY <1>4 DEF Sums

LEMMA SumIsNat ==
    ASSUME NEW c \in Seq(CompType), NEW f,
           f = CHOOSE g : g = [i \in 0..Len(c) |-> IF i = 0 THEN 0 ELSE g[i - 1] + c[i].w]
    PROVE  f[Len(c)] \in Nat
<1>1. Len(c) \in Nat /\ \A i \in 1..Len(c) : c[i].w \in Nat
  <2>1. Len(c) \in Nat
    BY LenProperties
  <2>2. ASSUME NEW i \in 1..Len(c) PROVE c[i].w \in Nat
    <3>1. c[i] \in CompType
      BY ElementOfSeq
    <3> QED
      BY <3>1 DEF CompType
  <2> QED
    BY <2>1, <2>2
<1>2. f = [i \in 0..Len(c) |-> IF i = 0 THEN 0 ELSE f[i - 1] + c[i].w]
  <2> DEFINE U(g) == g = [i \in 0..Len(c) |-> IF i = 0 THEN 0 ELSE g[i - 1] + c[i].w]
  <2>1. \E g : U(g)
    BY <1>1, SumsExist, ZenonT(30)
  <2>2. f = CHOOSE g : U(g)
    OBVIOUS
  <2> HIDE DEF U
  <2>3. U(f)
    BY <2>1, <2>2
  <2> QED
    BY <2>3 DEF U
<1> DEFINE T == {m \in Nat : m <= Len(c) => f[m] \in Nat}
<1>4. f[0] = 0 /\ \A i \in 1..Len(c) : f[i] = f[i - 1] + c[i].w
  <2>1. \A i \in 0..Len(c) : f[i] = IF i = 0 THEN 0 ELSE f[i - 1] + c[i].w
    BY <1>2
  <2>2. 0 \in 0..Len(c) /\ \A i \in 1..Len(c) : i \in 0..Len(c) /\ i # 0
    BY <1>1
  <2> QED
    BY <2>1, <2>2
<1>5. ASSUME NEW m \in T PROVE m + 1 \in T
  <2> SUFFICES ASSUME m + 1 <= Len(c) PROVE f[m + 1] \in Nat
    OBVIOUS
  <2>1. m + 1 \in 1..Len(c) /\ f[m] \in Nat
    BY <1>1
  <2>2. f[m + 1] = f[(m + 1) - 1] + c[m + 1].w
    BY <1>4, <2>1
  <2> QED
    BY <1>1, <2>1, <2>2
<1>6. 0 \in T
  BY <1>4
<1>7. Len(c) \in T
  <2>1. T \in SUBSET Nat
    OBVIOUS
  <2> HIDE DEF T
  <2> QED
    BY <1>1, <1>5, <1>6, <2>1, SetInduction
<1> QED
  BY <1>1, <1>7

LEMMA PathLenIsNat ==
    ASSUME NEW p \in PathType
    PROVE  PathLen(p) \in Nat
<1> DEFINE c == p.comps
           f == CHOOSE g : g = [i \in 0..Len(c) |-> IF i = 0 THEN 0 ELSE g[i - 1] + c[i].w]
<1>1. f[Len(c)] \in Nat
  <2> HIDE DEF c
  <2>1. c \in Seq(CompType)
    BY DEF PathType, c
  <2> QED
    BY <2>1, SumIsNat
<1>8. c # <<>> => Len(c) - 1 \in Nat
  OBVIOUS
<1>9. PathLen(p) = (IF p.abs THEN 1 ELSE 0) + f[Len(c)] + (IF c = <<>> THEN 0 ELSE Len(c) - 1)
                     + (IF p.slash THEN 1 ELSE 0)
  BY DEF PathLen
<1> HIDE DEF f, c
<1> QED
  BY <1>1, <1>8, <1>9

-----------------------------------------------------------------------------
(* Headers, and the cells of a member.                                     *)

LEMMA HeaderKept ==
    ASSUME NEW h, IsHeader(h), NEW f \in HeaderFields, NEW v
    PROVE  /\ IsHeader([h EXCEPT ![f] = v])
           /\ \A g \in HeaderFields : [h EXCEPT ![f] = v][g] = IF g = f THEN v ELSE h[g]
<1>1. h = [g \in HeaderFields |-> h[g]]
  BY DEF IsHeader
<1>2. [h EXCEPT ![f] = v] = [g \in HeaderFields |-> IF g = f THEN v ELSE h[g]]
  BY <1>1
<1> DEFINE k == [h EXCEPT ![f] = v]
<1>3. k = [g \in HeaderFields |-> IF g = f THEN v ELSE h[g]]
  BY <1>2
<1> HIDE DEF k
<1>4. \A g \in HeaderFields : k[g] = IF g = f THEN v ELSE h[g]
  BY <1>3
<1>5. k = [g \in HeaderFields |-> k[g]]
  BY <1>3
<1> QED
  BY <1>4, <1>5 DEF IsHeader, k

LEMMA NewHeaderIsHeader == ASSUME NEW f PROVE IsHeader(NewHeader(f))
BY DEF IsHeader, HeaderFields, NewHeader

\* The setters leave the type and the size as they were.
LEMMA SettersKeep ==
    ASSUME NEW h, IsHeader(h), NEW p
    PROVE  /\ IsHeader(SetCksum(h)) /\ RealSize(SetCksum(h)) = RealSize(h)
           /\ IsHeader(SetPath(h, p)) /\ RealSize(SetPath(h, p)) = RealSize(h)
           /\ IsHeader(SetPathLeaves(h, p)) /\ IsHeader(SetLink(h, p))
           /\ IsHeader(SetLinkLeaves(h, p))
           /\ \A n : IsHeader(SetSize(h, n))
           /\ \A t : IsHeader(SetEntryType(h, t))
<1> DEFINE Same(g) == /\ IsHeader(g) /\ g.flag = h.flag /\ g.size = h.size /\ g.real = h.real
<1> USE DEF HeaderFields
<1>1. \A g : Same(g) => RealSize(g) = RealSize(h)
  BY DEF RealSize, EntryTypeOf, EntrySize
<1>2. ASSUME NEW g, Same(g), NEW v
      PROVE  /\ Same([g EXCEPT !.name = v]) /\ Same([g EXCEPT !.prefix = v])
             /\ Same([g EXCEPT !.sum = v]) /\ Same([g EXCEPT !.link = v])
  BY <1>2, HeaderKept
<1>3. Same(h)
  OBVIOUS
<1>4. Same(SetCksum(h))
  BY <1>2, <1>3 DEF SetCksum
<1>5. ASSUME NEW g, NEW a, NEW b, NEW c,
             \/ g = [h EXCEPT !.name = a, !.sum = b]
             \/ g = [h EXCEPT !.link = a, !.sum = b]
             \/ g = [h EXCEPT !.prefix = a, !.name = b, !.sum = c]
             \/ g = [h EXCEPT !.prefix = a]
             \/ g = [h EXCEPT !.link = a]
      PROVE  Same(g)
  <2>1. CASE g = [h EXCEPT !.name = a, !.sum = b]
    BY <1>2, <1>3, <2>1
  <2>2. CASE g = [h EXCEPT !.link = a, !.sum = b]
    BY <1>2, <1>3, <2>2
  <2>3. CASE g = [h EXCEPT !.prefix = a, !.name = b, !.sum = c]
    <3>1. Same([[h EXCEPT !.prefix = a] EXCEPT !.name = b])
      BY <1>2, <1>3
    <3>2. Same([[[h EXCEPT !.prefix = a] EXCEPT !.name = b] EXCEPT !.sum = c])
      BY <1>2, <3>1, ZenonT(30)
    <3> QED
      BY <2>3, <3>2
  <2>4. CASE g = [h EXCEPT !.prefix = a]
    BY <1>2, <1>3, <2>4
  <2>5. CASE g = [h EXCEPT !.link = a]
    BY <1>2, <1>3, <2>5
  <2> QED
    BY <1>5, <2>1, <2>2, <2>3, <2>4, <2>5
<1>7. Same(SetPath(h, p))
  <2>1. \/ \E a : SetPath(h, p) = [h EXCEPT !.name = a, !.sum = FALSE]
        \/ \E a, b : SetPath(h, p) = [h EXCEPT !.prefix = a, !.name = b, !.sum = FALSE]
    BY Zenon DEF SetPath
  <2> DEFINE g == SetPath(h, p)
  <2> HIDE DEF Same, g
  <2> QED
    BY <1>5, <2>1 DEF g
<1>8. Same(SetPathLeaves(h, p)) /\ Same(SetLink(h, p)) /\ Same(SetLinkLeaves(h, p))
  <2>1. \/ SetPathLeaves(h, p) = h
        \/ \E a : SetPathLeaves(h, p) = [h EXCEPT !.prefix = a]
    BY Zenon DEF SetPathLeaves
  <2>2. \E a : SetLinkLeaves(h, p) = [h EXCEPT !.link = a]
    BY Zenon DEF SetLinkLeaves
  <2>3. SetLink(h, p) = [h EXCEPT !.link = p, !.sum = FALSE]
    BY DEF SetLink
  <2> HIDE DEF Same
  <2> QED
    BY <1>3, <1>5, <2>1, <2>2, <2>3
<1>9. ASSUME NEW g, IsHeader(g), NEW a, NEW b
      PROVE  /\ IsHeader([g EXCEPT !.size = a, !.sum = b])
             /\ IsHeader([g EXCEPT !.flag = a, !.sum = b])
  <2>1. IsHeader([g EXCEPT !.size = a]) /\ IsHeader([g EXCEPT !.flag = a])
    BY <1>9, HeaderKept
  <2> QED
    BY <2>1, HeaderKept
<1>10. (\A n : IsHeader(SetSize(h, n))) /\ (\A t : IsHeader(SetEntryType(h, t)))
  BY <1>9 DEF SetSize, SetEntryType
<1> QED
  BY <1>1, <1>4, <1>7, <1>8, <1>10

\* A header in a cell is a header.
CellsOk(s) == \A i \in 1..Len(s) : s[i].k = "head" => IsHeader(s[i].h)

LEMMA CellsJoin ==
    ASSUME NEW s, NEW t, IsSeq(s), IsSeq(t), CellsOk(s), CellsOk(t)
    PROVE  CellsOk(s \o t)
<1>1. /\ Len(s) \in Nat /\ Len(t) \in Nat /\ Len(s \o t) = Len(s) + Len(t)
      /\ \A i \in 1..Len(s) : (s \o t)[i] = s[i]
      /\ \A i \in 1..Len(t) : (s \o t)[Len(s) + i] = t[i]
  BY SeqFacts, JoinFacts
<1>2. ASSUME NEW i \in 1..Len(s \o t), (s \o t)[i].k = "head" PROVE IsHeader((s \o t)[i].h)
  <2>1. CASE i \in 1..Len(s)
    BY <1>1, <1>2, <2>1 DEF CellsOk
  <2>2. CASE i \notin 1..Len(s)
    <3>1. PICK j \in 1..Len(t) : i = Len(s) + j
      <4>1. i - Len(s) \in 1..Len(t) /\ i = Len(s) + (i - Len(s))
        BY <1>1, <2>2
      <4> QED
        BY <4>1
    <3> QED
      BY <1>1, <1>2, <3>1 DEF CellsOk
  <2> QED
    BY <2>1, <2>2
<1> QED
  BY <1>2 DEF CellsOk

LEMMA CellsPart ==
    ASSUME NEW s, IsSeq(s), CellsOk(s),
           NEW m \in Nat, NEW n \in Nat, 1 <= m, m <= n + 1, n <= Len(s)
    PROVE  CellsOk(SubSeq(s, m, n))
<1>1. /\ Len(SubSeq(s, m, n)) = n - m + 1 /\ Len(s) \in Nat
      /\ \A i \in 1..n - m + 1 : SubSeq(s, m, n)[i] = s[m + i - 1]
  BY PartFacts, SeqFacts
<1>2. \A i \in 1..n - m + 1 : m + i - 1 \in 1..Len(s)
  BY <1>1
<1> QED
  BY <1>1, <1>2 DEF CellsOk

LEMMA ZerosOk == ASSUME NEW n \in Nat PROVE CellsOk(Zeros(n))
BY ZerosFacts DEF CellsOk, Zero

LEMMA HeaderCellsFacts ==
    ASSUME NEW h
    PROVE  /\ IsSeq(HeaderCells(h)) /\ Len(HeaderCells(h)) = 2
           /\ HeaderCells(h)[1] = [k |-> "head", h |-> h]
           /\ HeaderCells(h)[2] = [k |-> "tail", h |-> h]
           /\ IsHeader(h) => CellsOk(HeaderCells(h))
<1> DEFINE s == HeaderCells(h)
<1>1. /\ s[1] = [k |-> "head", h |-> h] /\ s[2] = [k |-> "tail", h |-> h]
      /\ s \in Seq({s[1], s[2]}) /\ Len(s) = 2
  BY DEF HeaderCells
<1>2. IsSeq(s)
  <2> HIDE DEF s
  <2> QED
    BY <1>1, SeqIsSeq
<1>3. IsHeader(h) => CellsOk(s)
  BY <1>1 DEF CellsOk
<1> QED
  BY <1>1, <1>2, <1>3

LEMMA DataCellsFacts ==
    ASSUME NEW body, NEW n \in Nat
    PROVE  /\ IsSeq(DataCells(body, n)) /\ Len(DataCells(body, n)) = n
           /\ \A i \in 1..n : DataCells(body, n)[i] = [k |-> "data", body |-> body, i |-> i, of |-> n]
           /\ CellsOk(DataCells(body, n))
<1>1. DataCells(body, n) = [i \in 1..n |-> DataCells(body, n)[i]]
  BY DEF DataCells
<1>2. \A i \in 1..n : DataCells(body, n)[i] = [k |-> "data", body |-> body, i |-> i, of |-> n]
  BY DEF DataCells
<1>3. IsSeq(DataCells(body, n)) /\ Len(DataCells(body, n)) = n
  BY <1>1, ListIsSeq
<1>4. CellsOk(DataCells(body, n))
  BY <1>2, <1>3 DEF CellsOk
<1> QED
  BY <1>2, <1>3, <1>4

LEMMA MemberCellsOk ==
    ASSUME NEW h, IsHeader(h), NEW body, NEW n \in Nat
    PROVE  IsSeq(MemberCells(h, body, n)) /\ CellsOk(MemberCells(h, body, n))
<1> DEFINE a == HeaderCells(h)
           b == DataCells(body, n)
           c == Zeros(RoundUp(n) - n)
<1>1. RoundUp(n) - n \in Nat
  BY RoundUpFacts
<1>2. IsSeq(a) /\ CellsOk(a) /\ IsSeq(b) /\ CellsOk(b) /\ IsSeq(c) /\ CellsOk(c)
  BY <1>1, HeaderCellsFacts, DataCellsFacts, ZerosFacts, ZerosOk
<1> HIDE DEF a, b, c
<1>3. IsSeq(a \o b) /\ CellsOk(a \o b)
  BY <1>2, JoinFacts, CellsJoin
<1>4. IsSeq((a \o b) \o c) /\ CellsOk((a \o b) \o c)
  BY <1>2, <1>3, JoinFacts, CellsJoin
<1> QED
  BY <1>4 DEF MemberCells, a, b, c

LEMMA LongCellsOk ==
    ASSUME NEW p \in PathType, NEW t
    PROVE  IsSeq(LongCells(p, t)) /\ CellsOk(LongCells(p, t))
<1>1. PathLen(p) + 1 \in Nat
  BY PathLenIsNat
<1>2. IsHeader(PrepareHeader(PathLen(p), t))
  <2> DEFINE g == [NewHeader("gnu") EXCEPT !.name = Path(<<Comp("@LongLink", 1)>>)]
  <2>1. IsHeader(g)
    BY NewHeaderIsHeader, HeaderKept DEF HeaderFields
  <2> HIDE DEF g
  <2>2. IsHeader(SetSize(g, PathLen(p) + 1))
    BY <2>1, SettersKeep
  <2>3. IsHeader(SetEntryType(SetSize(g, PathLen(p) + 1), t))
    BY <2>2, SettersKeep
  <2>4. IsHeader(SetCksum(SetEntryType(SetSize(g, PathLen(p) + 1), t)))
    BY <2>3, SettersKeep
  <2> QED
    BY <2>4 DEF PrepareHeader, g
<1> QED
  BY <1>1, <1>2, MemberCellsOk DEF LongCells

-----------------------------------------------------------------------------
(* The invariant of the appender.                                          *)

EntryFields == {"h", "kind", "left", "at", "data", "got", "meta", "blocks", "size"}
IsEntry(e) == e = [f \in EntryFields |-> e[f]] /\ IsSeq(e.got)

\* What the appender needs of the builder and the reader.
Source ==
    /\ IsSeq(bytes) /\ CellsOk(bytes) /\ IsHeader(hd)
    /\ IsSeq(todo) /\ \A i \in 1..Len(todo) : RequestOk(todo[i])
    /\ pos \in 0..Len(bytes)
    /\ IsSeq(held) /\ CellsOk(held)
    /\ IsEntry(cur)
    /\ pc \in {"sparse", "entry"} => IsHeader(cur.h)
    /\ step # "closed" => pos = 0 /\ at = "next" /\ pc = "header"
    /\ step \in {"path", "cut", "link", "write"} => todo # <<>>

AppenderTypes ==
    /\ IsSeq(file) /\ IsSeq(hashed) /\ IsSeq(one) /\ IsSeq(two)
    /\ IsSeq(heard) /\ \A i \in 1..Len(heard) : IsSeq(heard[i])
    /\ IsSeq(index) /\ IsSeq(out)
    /\ pipe = [cells |-> pipe.cells, entry |-> pipe.entry, reading |-> pipe.reading,
               open |-> pipe.open]
    /\ IsSeq(pipe.cells) /\ pipe.reading \in BOOLEAN /\ pipe.open \in BOOLEAN
    /\ pipe.reading => pipe.entry \in 1..Len(heard)
    /\ copied \in 0..Len(cur.got)

\* What io::copy has handed on of the entry.
Copied == SubSeq(cur.got, 1, copied)

\* The bytes in the bucket are the hashed ones, and with what AllWriter holds
\* back they are all that was copied.
Written ==
    at \in {"copy", "flush", "pad"} =>
        /\ pc = "entry" /\ hdr = NewTarHeader(cur.h)
        /\ offset - Base \in Nat /\ offset - Base + Len(hashed) = Len(file)
        /\ SubSeq(file, offset - Base + 1, Len(file)) = hashed
        /\ hashed \o one = Copied
        /\ at # "copy" => copied = Len(cur.got)
        /\ at = "pad" => one = <<>>
        /\ ~pipe.open => one = <<>> /\ two = <<>>

\* The same for the listener of an entry that has one.
Told ==
    /\ at = "next" => copied = 0 /\ cur.got = <<>>
    /\ at \notin {"copy", "flush"} => ~pipe.open
    /\ at \in {"copy", "flush"} => (pipe.open <=> PathOf(cur.h) \in Listened)
    /\ pipe.open /\ pipe.reading => (heard[pipe.entry] \o pipe.cells) \o two = Copied
    /\ at = "pad" /\ pipe.reading /\ PathOf(cur.h) \in Listened =>
         heard[pipe.entry] \o pipe.cells = cur.got

\* Entry e of the TOC is about y, which was read, and about its bytes in f.
Describes(e, y, f) ==
    LET from == e.offset - Base IN
    /\ from \in Nat /\ from + Len(y.got) <= Len(f)
    /\ IsSeq(y.got)
    /\ SubSeq(f, from + 1, from + Len(y.got)) = y.got
    /\ e.digest = y.got
    /\ e.size = y.size
Recorded == \A i \in 1..Len(index) : \E j \in 1..Len(out) : Describes(index[i], out[j], file)

AppendInv == Source /\ AppenderTypes /\ Written /\ Told /\ Recorded

LEMMA EntryKept ==
    ASSUME NEW e, IsEntry(e), NEW f \in EntryFields, NEW v, f = "got" => IsSeq(v)
    PROVE  /\ IsEntry([e EXCEPT ![f] = v])
           /\ \A g \in EntryFields : [e EXCEPT ![f] = v][g] = IF g = f THEN v ELSE e[g]
<1> DEFINE k == [e EXCEPT ![f] = v]
<1>1. e = [g \in EntryFields |-> e[g]]
  BY DEF IsEntry
<1>2. k = [g \in EntryFields |-> IF g = f THEN v ELSE e[g]]
  BY <1>1
<1> HIDE DEF k
<1>3. \A g \in EntryFields : k[g] = IF g = f THEN v ELSE e[g]
  BY <1>2
<1>4. k = [g \in EntryFields |-> k[g]]
  BY <1>2
<1>5. IsSeq(k.got)
  <2>1. "got" \in EntryFields
    BY DEF EntryFields
  <2> QED
    BY <1>3, <2>1 DEF IsEntry
<1> QED
  BY <1>3, <1>4, <1>5 DEF IsEntry, k

LEMMA EntrySet ==
    ASSUME NEW e, IsEntry(e), NEW v
    PROVE  /\ IsEntry([e EXCEPT !.at = v]) /\ [e EXCEPT !.at = v].got = e.got
           /\ [e EXCEPT !.at = v].h = e.h
           /\ IsEntry([e EXCEPT !.meta = v]) /\ [e EXCEPT !.meta = v].got = e.got
           /\ [e EXCEPT !.meta = v].h = e.h
           /\ IsEntry([e EXCEPT !.left = v]) /\ [e EXCEPT !.left = v].got = e.got
           /\ [e EXCEPT !.left = v].h = e.h
           /\ IsEntry([e EXCEPT !.data = v]) /\ [e EXCEPT !.data = v].got = e.got
           /\ [e EXCEPT !.data = v].h = e.h
           /\ IsEntry([e EXCEPT !.blocks = v]) /\ [e EXCEPT !.blocks = v].got = e.got
           /\ [e EXCEPT !.blocks = v].h = e.h
           /\ IsEntry([e EXCEPT !.size = v]) /\ [e EXCEPT !.size = v].got = e.got
           /\ [e EXCEPT !.size = v].h = e.h
           /\ IsEntry([e EXCEPT !.kind = v]) /\ [e EXCEPT !.kind = v].got = e.got
           /\ IsEntry([e EXCEPT !.h = v]) /\ [e EXCEPT !.h = v].got = e.got
           /\ [e EXCEPT !.h = v].h = v
<1>1. \A f \in EntryFields \ {"got"} :
        /\ IsEntry([e EXCEPT ![f] = v])
        /\ \A g \in EntryFields : [e EXCEPT ![f] = v][g] = IF g = f THEN v ELSE e[g]
  <2> SUFFICES ASSUME NEW f \in EntryFields, f # "got"
               PROVE  /\ IsEntry([e EXCEPT ![f] = v])
                      /\ \A g \in EntryFields : [e EXCEPT ![f] = v][g] = IF g = f THEN v ELSE e[g]
    OBVIOUS
  <2> QED
    BY EntryKept
<1>2. \A f \in {"at", "meta", "left", "data", "blocks", "size", "kind"} :
        /\ IsEntry([e EXCEPT ![f] = v]) /\ [e EXCEPT ![f] = v].got = e.got
        /\ [e EXCEPT ![f] = v].h = e.h
  BY <1>1 DEF EntryFields
<1>3. IsEntry([e EXCEPT !.h = v]) /\ [e EXCEPT !.h = v].got = e.got /\ [e EXCEPT !.h = v].h = v
  BY <1>1 DEF EntryFields
<1> QED
  BY <1>2, <1>3

LEMMA NoEntryIsEntry == IsEntry(NoEntry) /\ NoEntry.got = <<>>
<1>1. NoEntry = [f \in EntryFields |-> NoEntry[f]] /\ NoEntry.got = <<>>
  BY DEF EntryFields, NoEntry
<1> QED
  BY <1>1, EmptyIsSeq DEF IsEntry

LEMMA AppendInit == ASSUME Init PROVE AppendInv
<1> USE DEF Init, BuilderInit, ReaderInit
<1>1. Source
  <2>1. IsSeq(todo) /\ \A i \in 1..Len(todo) : RequestOk(todo[i])
    BY JobsAssumption
  <2>2. IsSeq(bytes) /\ CellsOk(bytes) /\ IsSeq(held) /\ CellsOk(held) /\ pos \in 0..Len(bytes)
    BY EmptyIsSeq DEF CellsOk
  <2>3. IsHeader(hd)
    BY NewHeaderIsHeader
  <2>4. IsEntry(cur)
    BY NoEntryIsEntry
  <2> QED
    BY <2>1, <2>2, <2>3, <2>4 DEF Source
<1>2. AppenderTypes
  <2>1. cur.got = <<>>
    BY NoEntryIsEntry
  <2> QED
    BY <2>1, EmptyIsSeq DEF AppenderTypes, NoPipe
<1>3. Written /\ Told
  <2>1. cur.got = <<>>
    BY NoEntryIsEntry
  <2> QED
    BY <2>1 DEF Written, Told, NoPipe
<1>4. Recorded
  BY EmptyIsSeq DEF Recorded
<1> QED
  BY <1>1, <1>2, <1>3, <1>4 DEF AppendInv

\* The variables the appender's own conjuncts depend on.
ownVars == <<readerVars, concatVars>>

LEMMA OwnKept ==
    ASSUME AppendInv, UNCHANGED ownVars
    PROVE  AppenderTypes' /\ Written' /\ Told' /\ Recorded'
<1> USE DEF AppendInv, ownVars, readerVars, concatVars
<1>1. AppenderTypes'
  BY DEF AppenderTypes
<1>2. Written' /\ Told'
  BY DEF Written, Told, Copied
<1>3. Recorded'
  BY DEF Recorded
<1> QED
  BY <1>1, <1>2, <1>3

LEMMA RequestFacts ==
    ASSUME Source, todo # <<>>
    PROVE  /\ RequestOk(req) /\ IsSeq(Tail(todo))
           /\ \A i \in 1..Len(Tail(todo)) : RequestOk(Tail(todo)[i])
<1>1. todo \in Seq(Range(todo)) /\ todo # <<>> /\ Len(todo) \in Nat /\ 1 \in 1..Len(todo)
  <2>1. todo \in Seq(Range(todo)) /\ Len(todo) \in Nat /\ Len(todo) # 0
    BY SeqFacts, JoinEmpty DEF Source, IsSeq
  <2> QED
    BY <2>1
<1>2. /\ Tail(todo) \in Seq(Range(todo)) /\ Len(Tail(todo)) = Len(todo) - 1
      /\ \A i \in 1..Len(Tail(todo)) : Tail(todo)[i] = todo[i + 1]
  BY <1>1, HeadTailProperties
<1>3. \A i \in 1..Len(Tail(todo)) : i + 1 \in 1..Len(todo)
  BY <1>1, <1>2
<1>4. \A i \in 1..Len(Tail(todo)) : RequestOk(Tail(todo)[i])
  BY <1>2, <1>3 DEF Source
<1>5. IsSeq(Tail(todo))
  BY <1>2, SeqIsSeq
<1> QED
  BY <1>1, <1>4, <1>5 DEF Source, req

\* The builder adds to the archive before anything of it is read.
LEMMA BuilderStep ==
    ASSUME AppendInv, BuilderNext, UNCHANGED ownVars
    PROVE  AppendInv'
<1> SUFFICES Source'
  BY OwnKept DEF AppendInv
<1>1. /\ Source
      /\ UNCHANGED <<pos, held, cur, pc, at>>
  BY DEF AppendInv, ownVars, readerVars, concatVars
<1>2. ASSUME step # "closed", NEW c, IsSeq(c), CellsOk(c), bytes' = bytes \o c,
             IsHeader(hd'), IsSeq(todo'), \A i \in 1..Len(todo') : RequestOk(todo'[i]),
             step' \in {"path", "cut", "link", "write"} => todo' # <<>>
      PROVE  Source'
  <2>1. IsSeq(bytes') /\ CellsOk(bytes') /\ pos' \in 0..Len(bytes')
    <3>1. IsSeq(bytes) /\ CellsOk(bytes) /\ pos = 0
      BY <1>1, <1>2 DEF Source
    <3>2. IsSeq(bytes \o c) /\ CellsOk(bytes \o c)
      BY <1>2, <3>1, JoinFacts, CellsJoin
    <3>3. Len(bytes \o c) \in Nat
      BY <3>2, SeqFacts
    <3> QED
      BY <1>1, <1>2, <3>1, <3>2, <3>3
  <2> QED
    BY <1>1, <1>2, <2>1 DEF Source
<1>3. ASSUME step # "closed", UNCHANGED bytes,
             IsHeader(hd'), IsSeq(todo'), \A i \in 1..Len(todo') : RequestOk(todo'[i]),
             step' \in {"path", "cut", "link", "write"} => todo' # <<>>
      PROVE  Source'
  BY <1>1, <1>3 DEF Source
<1>4. /\ IsHeader(hd) /\ IsSeq(todo) /\ \A i \in 1..Len(todo) : RequestOk(todo[i])
      /\ step \in {"path", "cut", "link", "write"} => todo # <<>>
  BY <1>1 DEF Source
<1>5. todo # <<>> => RequestOk(req) /\ req.p \in PathType /\ req.link \in PathType /\ req.n \in Nat
  BY <1>1, RequestFacts DEF RequestOk
<1>6. CASE Start
  <2>1. IsHeader(hd')
    <3>1. CASE FromFs
      BY <1>6, <3>1, NewHeaderIsHeader DEF Start
    <3>2. CASE ~FromFs
      BY <1>5, <1>6, <3>2 DEF Start, FromFs, RequestOk
    <3> QED
      BY <3>1, <3>2
  <2>2. step # "closed" /\ UNCHANGED <<bytes, todo>> /\ todo # <<>>
    BY <1>6 DEF Start
  <2> QED
    BY <1>3, <1>4, <2>1, <2>2
<1>7. CASE PathFits \/ PathCut
  <2>1. IsHeader(hd')
    BY <1>4, <1>7, SettersKeep DEF PathFits, PathCut
  <2>2. step \in {"path", "cut"} /\ UNCHANGED <<bytes, todo>>
    BY <1>7 DEF PathFits, PathCut
  <2> QED
    BY <1>3, <1>4, <2>1, <2>2
<1>8. CASE PathLong
  <2>1. IsHeader(hd')
    BY <1>4, <1>8, SettersKeep DEF PathLong
  <2>2. step = "path" /\ UNCHANGED todo /\ bytes' = bytes \o LongCells(req.p, "GNULongName")
    BY <1>8 DEF PathLong
  <2>3. IsSeq(LongCells(req.p, "GNULongName")) /\ CellsOk(LongCells(req.p, "GNULongName"))
    BY <1>4, <1>5, <2>2, LongCellsOk
  <2> QED
    BY <1>2, <1>4, <2>1, <2>2, <2>3
<1>9. CASE PathFails
  <2>1. step # "closed" /\ todo' = <<>> /\ step' = "idle" /\ UNCHANGED <<hd, bytes>>
    BY <1>9 DEF PathFails
  <2>2. IsSeq(todo') /\ \A i \in 1..Len(todo') : RequestOk(todo'[i])
    BY <2>1, EmptyIsSeq
  <2> QED
    BY <1>3, <1>4, <2>1, <2>2
<1>10. CASE FillHeader
  <2>1. step = "link" /\ UNCHANGED todo /\ step' = "write" /\ todo # <<>>
    BY <1>4, <1>10 DEF FillHeader
  <2>2. \E g : /\ IsHeader(g)
               /\ \/ hd' = SetCksum(g)
                  \/ hd' = SetCksum(SetLink(g, req.link))
                  \/ hd' = SetCksum(SetLinkLeaves(g, req.link))
    <3> DEFINE g == IF FromFs THEN FillFrom(hd) ELSE hd
    <3>1. IsHeader(g)
      <4>1. IsHeader(SetEntryType(hd, req.how))
        BY <1>4, SettersKeep
      <4>2. IsHeader(FillFrom(hd))
        BY <4>1, SettersKeep DEF FillFrom
      <4> QED
        BY <1>4, <4>2
    <3>2. \/ hd' = SetCksum(g)
          \/ hd' = SetCksum(SetLink(g, req.link))
          \/ hd' = SetCksum(SetLinkLeaves(g, req.link))
      <4>1. hd' = SetCksum(IF req.how # "Symlink" THEN g
                           ELSE IF req.how # "Symlink" \/ SetLinkOk(g, req.link)
                           THEN SetLink(g, req.link) ELSE SetLinkLeaves(g, req.link))
        BY <1>10 DEF FillHeader
      <4> HIDE DEF g
      <4> QED
        BY <4>1
    <3> HIDE DEF g
    <3> QED
      BY <3>1, <3>2
  <2>3. IsHeader(hd')
    <3>1. PICK g : /\ IsHeader(g)
                   /\ \/ hd' = SetCksum(g)
                      \/ hd' = SetCksum(SetLink(g, req.link))
                      \/ hd' = SetCksum(SetLinkLeaves(g, req.link))
      BY <2>2
    <3>2. IsHeader(SetLink(g, req.link)) /\ IsHeader(SetLinkLeaves(g, req.link))
      BY <3>1, SettersKeep
    <3>3. \A f : IsHeader(f) => IsHeader(SetCksum(f))
      BY SettersKeep
    <3> QED
      BY <3>1, <3>2, <3>3
  <2>4. CASE UNCHANGED bytes
    BY <1>3, <1>4, <2>1, <2>3, <2>4
  <2>5. CASE bytes' = bytes \o LongCells(req.link, "GNULongLink")
    <3>1. IsSeq(LongCells(req.link, "GNULongLink")) /\ CellsOk(LongCells(req.link, "GNULongLink"))
      BY <1>5, <2>1, LongCellsOk
    <3> QED
      BY <1>2, <1>4, <2>1, <2>3, <2>5, <3>1
  <2> QED
    BY <1>10, <2>4, <2>5 DEF FillHeader
<1>11. CASE WriteMember
  <2>1. /\ step = "write" /\ step' = "idle" /\ UNCHANGED hd /\ todo' = Tail(todo) /\ todo # <<>>
        /\ bytes' = bytes \o MemberCells(hd, req.body, req.n)
    BY <1>4, <1>11 DEF WriteMember
  <2>2. IsSeq(todo') /\ \A i \in 1..Len(todo') : RequestOk(todo'[i])
    BY <1>1, <2>1, RequestFacts
  <2>3. IsSeq(MemberCells(hd, req.body, req.n)) /\ CellsOk(MemberCells(hd, req.body, req.n))
    BY <1>4, <1>5, <2>1, MemberCellsOk
  <2> QED
    BY <1>2, <1>4, <2>1, <2>2, <2>3
<1>12. CASE Close
  <2>1. step = "idle" /\ step' = "closed" /\ UNCHANGED <<todo, hd>> /\ bytes' = bytes \o Zeros(2 * Block)
    BY <1>12 DEF Close
  <2>2. IsSeq(Zeros(2 * Block)) /\ CellsOk(Zeros(2 * Block))
    BY ZerosFacts, ZerosOk DEF Block
  <2> QED
    BY <1>2, <1>4, <2>1, <2>2
<1>13. ASSUME NEW n \in Cuts, Truncate(n) PROVE Source'
  <2>1. /\ n \in Nat /\ n < Len(bytes) /\ bytes' = SubSeq(bytes, 1, n) /\ step' = "closed"
        /\ step = "idle" /\ UNCHANGED <<todo, hd>>
    BY <1>13, CutsAssumption DEF Truncate
  <2>2. IsSeq(bytes) /\ CellsOk(bytes) /\ pos = 0 /\ Len(bytes) \in Nat
    BY <1>1, <2>1, SeqFacts DEF Source
  <2>3. IsSeq(bytes') /\ CellsOk(bytes') /\ Len(bytes') = n
    <3>1. 1 <= n + 1 /\ n <= Len(bytes) /\ n - 1 + 1 = n
      BY <2>1, <2>2
    <3> QED
      <4> DEFINE b == bytes
      <4>1. /\ IsSeq(SubSeq(b, 1, n)) /\ Len(SubSeq(b, 1, n)) = n - 1 + 1
            /\ CellsOk(SubSeq(b, 1, n))
        <5>1. IsSeq(b) /\ CellsOk(b) /\ n \in Nat /\ 1 \in Nat /\ 1 <= n + 1 /\ n <= Len(b)
          BY <2>1, <2>2, <3>1
        <5> HIDE DEF b
        <5> QED
          BY <5>1, PartFacts, CellsPart
      <4> QED
        BY <2>1, <3>1, <4>1
  <2>4. pos' \in 0..Len(bytes')
    BY <1>1, <2>1, <2>2, <2>3
  <2> QED
    BY <1>1, <1>4, <2>1, <2>3, <2>4 DEF Source
<1> QED
  BY <1>6, <1>7, <1>8, <1>9, <1>10, <1>11, <1>12, <1>13 DEF BuilderNext

-----------------------------------------------------------------------------
(* The reader.                                                             *)

\* A step of the reader between two entries.
LEMMA PollKeeps ==
    ASSUME AppendInv, at = "next", step = "closed", UNCHANGED <<builderVars, concatVars, out>>,
           pos' \in 0..Len(bytes), IsSeq(held'), CellsOk(held'),
           IsEntry(cur'), cur'.got = <<>>, pc' \in {"sparse", "entry"} => IsHeader(cur'.h)
    PROVE  AppendInv'
<1> USE DEF AppendInv, builderVars, concatVars
<1>1. Source'
  BY DEF Source
<1>2. AppenderTypes'
  BY DEF AppenderTypes, Told
<1>3. Written' /\ Told'
  BY DEF Written, Told
<1>4. Recorded'
  BY DEF Recorded
<1> QED
  BY <1>1, <1>2, <1>3, <1>4

LEMMA ChunkOk ==
    ASSUME AppendInv, NEW n, Available(n)
    PROVE  /\ n \in Nat /\ pos + n \in 0..Len(bytes)
           /\ IsSeq(Chunk(n)) /\ CellsOk(Chunk(n)) /\ Len(Chunk(n)) = n
<1>1. IsSeq(bytes) /\ CellsOk(bytes) /\ pos \in 0..Len(bytes) /\ Len(bytes) \in Nat
  BY SeqFacts DEF AppendInv, Source
<1>2. n \in Nat /\ 1 <= n /\ pos + n <= Len(bytes)
  BY <1>1 DEF Available
<1>3. /\ pos + 1 \in Nat /\ pos + n \in Nat /\ 1 <= pos + 1 /\ pos + 1 <= (pos + n) + 1
      /\ (pos + n) - (pos + 1) + 1 = n
  BY <1>1, <1>2
<1> QED
  BY <1>1, <1>2, <1>3, PartFacts, CellsPart, SMTT(60) DEF Chunk

LEMMA ReaderStep ==
    ASSUME AppendInv, at = "next", step = "closed", ReaderSteps \/ Suspend,
           UNCHANGED <<builderVars, concatVars>>
    PROVE  AppendInv'
<1>1. /\ pos \in 0..Len(bytes) /\ IsSeq(held) /\ CellsOk(held) /\ IsEntry(cur)
      /\ pc \in {"sparse", "entry"} => IsHeader(cur.h)
      /\ cur.got = <<>>
  BY DEF AppendInv, Source, Told
<1>2. ASSUME UNCHANGED <<pos, held, cur, out>>, pc' \notin {"sparse", "entry"} \/ pc' = pc
      PROVE  AppendInv'
  BY <1>1, <1>2, PollKeeps DEF builderVars, concatVars
<1>3. ASSUME UNCHANGED <<pos, held, out>>, Repoll
      PROVE  AppendInv'
  BY <1>1, <1>3, PollKeeps, NoEntryIsEntry DEF Repoll
<1>4. ASSUME UNCHANGED <<held, cur, pc, out>>, NEW n, Available(n), pos' = pos + n
      PROVE  AppendInv'
  BY <1>1, <1>4, PollKeeps, ChunkOk
<1>5. CASE \E n \in 1..Block : Skip(n)
  BY <1>4, <1>5 DEF Skip
<1>6. CASE \E n \in 1..Block : ReadHeader(n)
  <2>1. PICK n : ReadHeader(n)
    BY <1>6
  <2>2. /\ Available(n) /\ held' = held \o Chunk(n) /\ pos' = pos + n
        /\ UNCHANGED <<pc, cur, out>>
    BY <2>1 DEF ReadHeader
  <2>3. IsSeq(held') /\ CellsOk(held')
    BY <1>1, <2>2, ChunkOk, JoinFacts, CellsJoin
  <2> QED
    BY <1>1, <2>2, <2>3, ChunkOk, PollKeeps
<1>7. CASE \E n \in 1..Block : ReadMeta(n)
  <2>1. PICK n : ReadMeta(n)
    BY <1>7
  <2>2. /\ Available(n) /\ pos' = pos + n /\ cur' = [cur EXCEPT !.left = @ - n]
        /\ UNCHANGED <<held, pc, out>> /\ pc = "meta"
    BY <2>1 DEF ReadMeta
  <2>3. IsEntry(cur') /\ cur'.got = <<>>
    BY <1>1, <2>2, EntrySet, ZenonT(60)
  <2> QED
    BY <1>1, <2>2, <2>3, ChunkOk, PollKeeps
<1>8. CASE \E n \in 1..Block : ReadExtension(n)
  BY <1>4, <1>8 DEF ReadExtension
<1>9. CASE SkipEof \/ BadChecksum
  BY <1>2, <1>9 DEF SkipEof, BadChecksum, Fail
<1>10. CASE HeaderEof
  BY <1>2, <1>10 DEF HeaderEof
<1>11. CASE ZerosEnd \/ ExtensionFails
  BY <1>2, <1>11 DEF ZerosEnd, ExtensionFails
<1>12. CASE ParseHeader
  <2> DEFINE h == held[1].h
  <2>1. IsHeader(h)
    <3>1. 1 \in 1..Len(held) /\ held[1].k = "head"
      BY <1>12 DEF ParseHeader, Block, ChecksumOk
    <3> QED
      BY <1>1, <3>1 DEF CellsOk
  <2>2. IsEntry(cur') /\ cur'.got = <<>> /\ (pc' \in {"sparse", "entry"} => cur'.h = h)
    <3>1. \/ /\ \E a, b : cur' = [NoEntry EXCEPT !.kind = a, !.left = b]
             /\ pc' \notin {"sparse", "entry"}
          \/ \E a, b, c, d : cur' = [NoEntry EXCEPT !.h = h, !.at = a, !.meta = b, !.left = c,
                                                   !.data = d]
      <4>1. CASE MetaKind(h) # None
        <5>1. /\ cur' = [NoEntry EXCEPT !.kind = MetaKind(h), !.left = EntrySize(h)]
              /\ pc' = IF meta[MetaKind(h)] = None THEN "meta" ELSE "failed"
          BY <1>12, <4>1 DEF ParseHeader
        <5> QED
          BY <5>1
      <4>2. CASE ~(MetaKind(h) # None)
        <5>1. cur' = [NoEntry EXCEPT !.h = h, !.at = next + Block, !.meta = meta,
                         !.left = EntrySize(h),
                         !.data = IF EntryTypeOf(h) = "GNUSparse" THEN <<>>
                                  ELSE <<Data(EntrySize(h))>>]
          BY <1>12, <4>2 DEF ParseHeader
        <5> HIDE DEF h
        <5> QED
          BY <5>1, Zenon
      <4> QED
        BY <4>1, <4>2
    <3>2. CASE \E a, b : cur' = [NoEntry EXCEPT !.kind = a, !.left = b] /\ pc' \notin {"sparse", "entry"}
      <4>1. PICK a, b : cur' = [NoEntry EXCEPT !.kind = a, !.left = b] /\ pc' \notin {"sparse", "entry"}
        BY <3>2
      <4> DEFINE e == [NoEntry EXCEPT !.kind = a]
      <4>2. cur' = [e EXCEPT !.left = b]
        BY <4>1
      <4>3. IsEntry(e) /\ e.got = <<>>
        BY NoEntryIsEntry, EntrySet
      <4> HIDE DEF e
      <4> QED
        <5>1. IsEntry([e EXCEPT !.left = b]) /\ [e EXCEPT !.left = b].got = e.got
          BY <4>3, EntrySet
        <5> QED
          BY <4>1, <4>2, <4>3, <5>1
    <3>3. CASE \E a, b, c, d : cur' = [NoEntry EXCEPT !.h = h, !.at = a, !.meta = b, !.left = c,
                                                     !.data = d]
      <4>1. PICK a, b, c, d : cur' = [NoEntry EXCEPT !.h = h, !.at = a, !.meta = b, !.left = c,
                                                     !.data = d]
        BY <3>3
      <4> DEFINE e1 == [NoEntry EXCEPT !.h = h]
                 e2 == [e1 EXCEPT !.at = a]
                 e3 == [e2 EXCEPT !.meta = b]
                 e4 == [e3 EXCEPT !.left = c]
                 Good(e) == IsEntry(e) /\ e.got = <<>> /\ e.h = h
      <4>2. cur' = [e4 EXCEPT !.data = d]
        BY <4>1
      <4>3. Good(e1)
        <5>1. /\ IsEntry([NoEntry EXCEPT !.h = h]) /\ [NoEntry EXCEPT !.h = h].got = NoEntry.got
              /\ [NoEntry EXCEPT !.h = h].h = h
          <6> HIDE DEF h
          <6> QED
            BY NoEntryIsEntry, EntrySet
        <5> QED
          BY <5>1, NoEntryIsEntry
      <4>4. \A e, v : Good(e) => /\ Good([e EXCEPT !.at = v]) /\ Good([e EXCEPT !.meta = v])
                                 /\ Good([e EXCEPT !.left = v]) /\ Good([e EXCEPT !.data = v])
        <5> SUFFICES ASSUME NEW e, NEW v, Good(e)
                     PROVE  /\ Good([e EXCEPT !.at = v])
                            /\ Good([e EXCEPT !.meta = v])
                            /\ Good([e EXCEPT !.left = v])
                            /\ Good([e EXCEPT !.data = v])
          BY ZenonT(60)
        <5>1. /\ IsEntry([e EXCEPT !.at = v]) /\ [e EXCEPT !.at = v].got = e.got
              /\ [e EXCEPT !.at = v].h = e.h
          BY EntrySet
        <5>2. /\ IsEntry([e EXCEPT !.meta = v]) /\ [e EXCEPT !.meta = v].got = e.got
              /\ [e EXCEPT !.meta = v].h = e.h
          BY EntrySet
        <5>3. /\ IsEntry([e EXCEPT !.left = v]) /\ [e EXCEPT !.left = v].got = e.got
              /\ [e EXCEPT !.left = v].h = e.h
          BY EntrySet
        <5>4. /\ IsEntry([e EXCEPT !.data = v]) /\ [e EXCEPT !.data = v].got = e.got
              /\ [e EXCEPT !.data = v].h = e.h
          BY EntrySet
        <5> QED
          BY <5>1, <5>2, <5>3, <5>4
      <4> HIDE DEF Good, e1
      <4>5. Good(cur')
        BY <4>2, <4>3, <4>4
      <4> QED
        BY <4>5 DEF Good
    <3> QED
      BY <3>1, <3>2, <3>3
  <2>3. held' = <<>> /\ UNCHANGED <<pos, out>>
    BY <1>12 DEF ParseHeader
  <2>4. IsSeq(held') /\ CellsOk(held')
    BY <2>3, EmptyIsSeq DEF CellsOk
  <2> HIDE DEF h
  <2> QED
    BY <1>1, <2>1, <2>2, <2>3, <2>4, PollKeeps
<1>13. CASE EndMeta
  BY <1>3, <1>13 DEF EndMeta
<1>14. CASE ParseBlocks
  <2>1. /\ pc = "sparse" /\ UNCHANGED <<pos, held, out>>
        /\ \E a, b, c, d : cur' = [cur EXCEPT !.blocks = a, !.size = b, !.left = c, !.data = d]
    <3>1. pc = "sparse" /\ UNCHANGED <<pos, held, out>>
      BY <1>14 DEF ParseBlocks
    <3>2. cur' = [cur EXCEPT !.blocks = @ + 1, !.size = Blocks(cur).end,
                             !.left = Blocks(cur).left, !.data = Blocks(cur).data]
      BY <1>14 DEF ParseBlocks
    <3> QED
      BY <3>1, <3>2, Zenon
  <2>2. PICK a, b, c, d : cur' = [cur EXCEPT !.blocks = a, !.size = b, !.left = c, !.data = d]
    BY <2>1
  <2> DEFINE Good(e) == IsEntry(e) /\ e.got = <<>> /\ e.h = cur.h
  <2>3. \A e, v : Good(e) => /\ Good([e EXCEPT !.blocks = v]) /\ Good([e EXCEPT !.size = v])
                             /\ Good([e EXCEPT !.left = v]) /\ Good([e EXCEPT !.data = v])
    <3> SUFFICES ASSUME NEW e, NEW v, Good(e)
                 PROVE  /\ Good([e EXCEPT !.blocks = v])
                        /\ Good([e EXCEPT !.size = v])
                        /\ Good([e EXCEPT !.left = v])
                        /\ Good([e EXCEPT !.data = v])
      OBVIOUS
    <3>1. /\ IsEntry([e EXCEPT !.blocks = v]) /\ [e EXCEPT !.blocks = v].got = e.got
          /\ [e EXCEPT !.blocks = v].h = e.h
      BY EntrySet
    <3>2. /\ IsEntry([e EXCEPT !.size = v]) /\ [e EXCEPT !.size = v].got = e.got
          /\ [e EXCEPT !.size = v].h = e.h
      BY EntrySet
    <3>3. /\ IsEntry([e EXCEPT !.left = v]) /\ [e EXCEPT !.left = v].got = e.got
          /\ [e EXCEPT !.left = v].h = e.h
      BY EntrySet
    <3>4. /\ IsEntry([e EXCEPT !.data = v]) /\ [e EXCEPT !.data = v].got = e.got
          /\ [e EXCEPT !.data = v].h = e.h
      BY EntrySet
    <3> QED
      BY <3>1, <3>2, <3>3, <3>4
  <2>4. Good(cur)
    BY <1>1
  <2> HIDE DEF Good
  <2>5. Good(cur')
    <3> DEFINE e1 == [cur EXCEPT !.blocks = a]
               e2 == [e1 EXCEPT !.size = b]
               e3 == [e2 EXCEPT !.left = c]
    <3>1. cur' = [e3 EXCEPT !.data = d]
      BY <2>2
    <3> QED
      BY <2>3, <2>4, <3>1
  <2> QED
    BY <1>1, <2>1, <2>5, PollKeeps DEF Good
<1>15. CASE Suspend
  BY <1>3, <1>15 DEF Suspend
<1> QED
  BY <1>5, <1>6, <1>7, <1>8, <1>9, <1>10, <1>11, <1>12, <1>13, <1>14, <1>15 DEF ReaderSteps

-----------------------------------------------------------------------------
(* The appender.                                                           *)

LEMMA EmptyPart ==
    ASSUME NEW s, IsSeq(s), NEW n \in 0..Len(s)
    PROVE  SubSeq(s, n + 1, n) = <<>>
<1>0. Len(s) \in Nat /\ n \in Nat /\ n + 1 \in Nat /\ n <= Len(s)
  BY SeqFacts
<1>1. IsSeq(SubSeq(s, n + 1, n)) /\ Len(SubSeq(s, n + 1, n)) = n - (n + 1) + 1
  BY <1>0, PartFacts
<1> QED
  BY <1>0, <1>1, JoinEmpty

\* What is taken from the front of o joins h.
LEMMA Shift ==
    ASSUME NEW h, IsSeq(h), NEW o, IsSeq(o), NEW k \in 0..Len(o)
    PROVE  /\ (h \o Take(o, k)) \o Drop(o, k) = h \o o
           /\ IsSeq(h \o Take(o, k)) /\ IsSeq(Drop(o, k))
<1>1. /\ IsSeq(Take(o, k)) /\ IsSeq(Drop(o, k))
      /\ Take(o, k) \o Drop(o, k) = o
  BY TakeDrop
<1>2. (h \o Take(o, k)) \o Drop(o, k) = h \o (Take(o, k) \o Drop(o, k))
  <2> DEFINE a == Take(o, k)
             b == Drop(o, k)
  <2>1. IsSeq(a) /\ IsSeq(b)
    BY <1>1
  <2> HIDE DEF a, b
  <2>2. (h \o a) \o b = h \o (a \o b)
    BY <2>1, JoinAssoc
  <2> QED
    BY <2>2 DEF a, b
<1> QED
  BY <1>1, <1>2, JoinFacts

LEMMA RecordedKept ==
    ASSUME Recorded, IsSeq(file), NEW x, IsSeq(x), file' = file \o x, UNCHANGED <<index, out>>
    PROVE  Recorded'
<1>1. Len(file) \in Nat /\ Len(x) \in Nat /\ Len(file \o x) = Len(file) + Len(x)
  BY SeqFacts, JoinFacts
<1>2. ASSUME NEW e, NEW y, Describes(e, y, file) PROVE Describes(e, y, file \o x)
  <2> DEFINE m == e.offset - Base
             n == m + Len(y.got)
  <2>1. m \in Nat /\ n <= Len(file) /\ IsSeq(y.got) /\ Len(y.got) \in Nat
    BY <1>2, SeqFacts DEF Describes
  <2>2. n \in Nat /\ m + 1 \in Nat /\ 1 <= m + 1 /\ m + 1 <= n + 1
    BY <2>1
  <2> HIDE DEF m, n
  <2>3. SubSeq(file \o x, m + 1, n) = SubSeq(file, m + 1, n)
    BY <2>1, <2>2, PartOfJoin
  <2>4. n <= Len(file \o x)
    BY <1>1, <2>1, <2>2
  <2> QED
    BY <1>2, <2>3, <2>4 DEF Describes, m, n
<1> QED
  BY <1>2 DEF Recorded

\* HashWriter and CountWriter agree on what the bucket was given.
LEMMA BucketTakes ==
    ASSUME IsSeq(file), IsSeq(hashed), NEW d \in Nat, d + Len(hashed) = Len(file),
           SubSeq(file, d + 1, Len(file)) = hashed, NEW x, IsSeq(x), ToBucket(x)
    PROVE  /\ IsSeq(file') /\ IsSeq(hashed') /\ file' = file \o x /\ hashed' = hashed \o x
           /\ d + Len(hashed') = Len(file')
           /\ SubSeq(file', d + 1, Len(file')) = hashed'
<1>1. Len(file) \in Nat /\ Len(hashed) \in Nat /\ Len(x) \in Nat /\ d \in 0..Len(file)
  BY SeqFacts
<1>2. file' = file \o x /\ hashed' = hashed \o x
  BY DEF ToBucket
<1>3. /\ IsSeq(file \o x) /\ IsSeq(hashed \o x)
      /\ Len(file \o x) = Len(file) + Len(x) /\ Len(hashed \o x) = Len(hashed) + Len(x)
  BY JoinFacts
<1>4. SubSeq(file \o x, d + 1, Len(file \o x)) = SubSeq(file, d + 1, Len(file)) \o x
  BY <1>1, EndOfJoin
<1>5. d + Len(hashed \o x) = Len(file \o x)
  BY <1>1, <1>3
<1> QED
  BY <1>2, <1>3, <1>4, <1>5

LEMMA BeginEntryStep ==
    ASSUME AppendInv, BeginEntry, UNCHANGED builderVars PROVE AppendInv'
<1> USE DEF AppendInv
<1>1. /\ pc = "entry" /\ at = "next" /\ at' = "copy" /\ hdr' = NewTarHeader(cur.h)
      /\ file' = file \o HeaderCells(hdr') /\ offset' = Base + Len(file')
      /\ hashed' = <<>> /\ one' = <<>> /\ two' = <<>>
      /\ UNCHANGED <<pos, next, held, start, meta, pc, acc, cur, out, torn, copied, index>>
      /\ UNCHANGED <<todo, step, hd, bytes, members, whole>>
  BY DEF BeginEntry, readerVars, builderVars
<1>2. copied = 0 /\ cur.got = <<>> /\ ~pipe.open
  BY <1>1 DEF Told
<1>3. IsSeq(file') /\ Len(file') \in Nat
  <2>1. IsSeq(file) /\ IsSeq(HeaderCells(hdr'))
    BY HeaderCellsFacts DEF AppenderTypes
  <2> QED
    BY <1>1, <2>1, JoinFacts, SeqFacts
<1>4. \/ /\ PathOf(cur.h) \in Listened
         /\ pipe' = [cells |-> <<>>, entry |-> Len(heard) + 1, reading |-> TRUE, open |-> TRUE]
         /\ heard' = Append(heard, <<>>)
      \/ PathOf(cur.h) \notin Listened /\ UNCHANGED <<pipe, heard>>
  BY DEF BeginEntry
<1>5. /\ IsSeq(heard) /\ Len(heard) \in Nat
      /\ IsSeq(Append(heard, <<>>)) /\ Len(Append(heard, <<>>)) = Len(heard) + 1
      /\ \A i \in 1..Len(heard) : Append(heard, <<>>)[i] = heard[i]
      /\ Append(heard, <<>>)[Len(heard) + 1] = <<>>
  BY AppendFacts, SeqFacts DEF AppenderTypes
<1>6. Copied' = <<>>
  BY <1>1, <1>2, EmptyIsSeq, EmptyPart DEF Copied
<1>7. Source'
  BY <1>1 DEF Source
<1>8. AppenderTypes'
  <2>1. IsSeq(heard') /\ \A i \in 1..Len(heard') : IsSeq(heard'[i])
    <3>1. CASE heard' = Append(heard, <<>>)
      <4>1. \A i \in 1..Len(heard') : i \in 1..Len(heard) \/ i = Len(heard) + 1
        BY <1>5, <3>1
      <4> QED
        BY <1>5, <3>1, <4>1, EmptyIsSeq DEF AppenderTypes
    <3>2. CASE UNCHANGED heard
      BY <3>2 DEF AppenderTypes
    <3> QED
      BY <1>4, <3>1, <3>2
  <2>2. /\ pipe' = [cells |-> pipe'.cells, entry |-> pipe'.entry, reading |-> pipe'.reading,
                    open |-> pipe'.open]
        /\ IsSeq(pipe'.cells) /\ pipe'.reading \in BOOLEAN /\ pipe'.open \in BOOLEAN
        /\ pipe'.reading => pipe'.entry \in 1..Len(heard')
    <3>1. CASE UNCHANGED <<pipe, heard>>
      BY <3>1 DEF AppenderTypes
    <3>2. CASE /\ pipe' = [cells |-> <<>>, entry |-> Len(heard) + 1, reading |-> TRUE, open |-> TRUE]
               /\ heard' = Append(heard, <<>>)
      BY <1>5, <3>2, EmptyIsSeq
    <3> QED
      BY <1>4, <3>1, <3>2
  <2> QED
    BY <1>1, <1>3, <2>1, <2>2, EmptyIsSeq DEF AppenderTypes
<1>9. Written'
  <2>1. offset' - Base = Len(file')
    BY <1>1, <1>3, TarConcatAssumption
  <2>2. SubSeq(file', Len(file') + 1, Len(file')) = <<>>
    BY <1>3, EmptyPart
  <2>3. hashed' \o one' = <<>> /\ Len(hashed') = 0
    BY <1>1, EmptyIsSeq, JoinEmpty
  <2> QED
    BY <1>1, <1>3, <1>6, <2>1, <2>2, <2>3 DEF Written
<1>10. Told'
  <2>1. CASE /\ PathOf(cur.h) \in Listened
             /\ pipe' = [cells |-> <<>>, entry |-> Len(heard) + 1, reading |-> TRUE, open |-> TRUE]
             /\ heard' = Append(heard, <<>>)
    <3>1. (heard'[pipe'.entry] \o pipe'.cells) \o two' = <<>>
      BY <1>1, <1>5, <2>1, EmptyIsSeq, JoinEmpty
    <3> QED
      BY <1>1, <1>6, <2>1, <3>1 DEF Told
  <2>2. CASE PathOf(cur.h) \notin Listened /\ UNCHANGED <<pipe, heard>>
    BY <1>1, <1>2, <2>2 DEF Told
  <2> QED
    BY <1>4, <2>1, <2>2
<1>11. Recorded'
  BY <1>1, HeaderCellsFacts, RecordedKept DEF AppenderTypes
<1> QED
  BY <1>7, <1>8, <1>9, <1>10, <1>11

\* A step that only moves `at` to an end.
LEMMA StopStep ==
    ASSUME AppendInv, RenameFails \/ Finished, UNCHANGED builderVars PROVE AppendInv'
<1> USE DEF AppendInv
<1>1. /\ at = "next" /\ at' \in {"done", "failed"} /\ pc # "header"
      /\ UNCHANGED <<pos, next, held, start, meta, pc, acc, cur, out, torn>>
      /\ UNCHANGED <<hdr, offset, file, hashed, one, two, copied, pipe, heard, index>>
      /\ UNCHANGED <<todo, step, hd, bytes, members, whole>>
  BY DEF RenameFails, Finished, readerVars, builderVars
<1>2. Source'
  BY <1>1 DEF Source
<1>3. AppenderTypes'
  BY <1>1 DEF AppenderTypes
<1>4. Written' /\ Told'
  BY <1>1 DEF Written, Told
<1>5. Recorded'
  BY <1>1 DEF Recorded
<1> QED
  BY <1>2, <1>3, <1>4, <1>5

LEMMA CopyReadStep ==
    ASSUME AppendInv, CopyRead, UNCHANGED builderVars PROVE AppendInv'
<1> USE DEF AppendInv
<1>1. /\ at = "copy" /\ copied = Len(cur.got) /\ pc = "entry"
      /\ UNCHANGED <<at, hdr, offset, file, hashed, one, two, copied, pipe, heard, index>>
      /\ UNCHANGED <<todo, step, hd, bytes, members, whole>>
      /\ (\E n \in 1..Block : ReadData(n)) \/ EndPart
  BY DEF CopyRead, concatVars, builderVars, ReadData, EndPart
<1>2. /\ IsEntry(cur) /\ IsSeq(cur.got) /\ IsHeader(cur.h)
  BY <1>1 DEF Source, IsEntry
<1>3. /\ UNCHANGED <<held, pc, out>> /\ pos' \in 0..Len(bytes)
      /\ IsEntry(cur') /\ cur'.h = cur.h
      /\ \E x : IsSeq(x) /\ cur'.got = cur.got \o x
  <2>1. CASE EndPart
    <3>1. cur' = [cur EXCEPT !.data = Tail(cur.data)] /\ UNCHANGED <<held, pc, out, pos>>
      BY <2>1 DEF EndPart, NextPart
    <3>2. IsEntry(cur') /\ cur'.h = cur.h /\ cur'.got = cur.got
      BY <1>2, <3>1, EntrySet
    <3>3. cur.got \o <<>> = cur.got
      BY <1>2, JoinEmpty
    <3> QED
      BY <3>1, <3>2, <3>3, EmptyIsSeq DEF Source
  <2>2. ASSUME NEW n \in 1..Block, ReadData(n)
        PROVE  /\ UNCHANGED <<held, pc, out>> /\ pos' \in 0..Len(bytes)
               /\ IsEntry(cur') /\ cur'.h = cur.h
               /\ \E x : IsSeq(x) /\ cur'.got = cur.got \o x
    <3>1. ASSUME NEW x, IsSeq(x), NEW d, cur' = [cur EXCEPT !.got = cur.got \o x, !.data = d]
          PROVE  IsEntry(cur') /\ cur'.h = cur.h /\ cur'.got = cur.got \o x
      <4> DEFINE y == cur.got \o x
                 e == [cur EXCEPT !.got = y]
      <4>1. IsSeq(y)
        BY <1>2, <3>1, JoinFacts
      <4>2. IsEntry(e) /\ e.got = y /\ e.h = cur.h
        <5> HIDE DEF y
        <5> QED
          BY <1>2, <4>1, EntryKept DEF EntryFields
      <4>3. cur' = [e EXCEPT !.data = d]
        BY <3>1
      <4> HIDE DEF e, y
      <4>4. IsEntry([e EXCEPT !.data = d]) /\ [e EXCEPT !.data = d].got = e.got
            /\ [e EXCEPT !.data = d].h = e.h
        BY <4>2, EntrySet
      <4> QED
        BY <4>2, <4>3, <4>4 DEF y
    <3>2. UNCHANGED <<held, pc, out>>
      BY <2>2 DEF ReadData
    <3>3. CASE cur.data[1].pad
      <4>1. UNCHANGED pos /\ \E d : cur' = [cur EXCEPT !.got = cur.got \o Zeros(n), !.data = d]
        <5>1. cur' = [cur EXCEPT !.got = @ \o Zeros(n), !.data[1].n = @ - n] /\ UNCHANGED pos
          BY <2>2, <3>3 DEF ReadData
        <5>2. cur' = [cur EXCEPT !.got = cur.got \o Zeros(n),
                                 !.data = [cur.data EXCEPT ![1] = [cur.data[1] EXCEPT !.n = @ - n]]]
          BY <5>1
        <5> QED
          BY <5>1, <5>2
      <4>2. IsSeq(Zeros(n))
        BY ZerosFacts DEF Block
      <4> QED
        BY <3>1, <3>2, <4>1, <4>2 DEF Source
    <3>4. CASE ~cur.data[1].pad
      <4>1. /\ Available(n) /\ pos' = pos + n
            /\ \E d : cur' = [cur EXCEPT !.got = cur.got \o Chunk(n), !.data = d]
        <5>1. /\ cur' = [cur EXCEPT !.got = @ \o Chunk(n), !.data[1].n = @ - n]
              /\ Available(n) /\ pos' = pos + n
          BY <2>2, <3>4 DEF ReadData
        <5>2. cur' = [cur EXCEPT !.got = cur.got \o Chunk(n),
                                 !.data = [cur.data EXCEPT ![1] = [cur.data[1] EXCEPT !.n = @ - n]]]
          BY <5>1
        <5> QED
          BY <5>1, <5>2
      <4>2. IsSeq(Chunk(n)) /\ pos' \in 0..Len(bytes)
        BY <4>1, ChunkOk
      <4> QED
        BY <3>1, <3>2, <4>1, <4>2
    <3> QED
      BY <3>3, <3>4
  <2> QED
    BY <1>1, <2>1, <2>2
<1>4. PICK x : IsSeq(x) /\ cur'.got = cur.got \o x
  BY <1>3
<1>5. Copied' = Copied /\ copied \in 0..Len(cur'.got)
  <2> DEFINE g == cur.got
  <2>1. IsSeq(g) /\ Len(g) \in Nat /\ Len(x) \in Nat /\ Len(g \o x) = Len(g) + Len(x)
    BY <1>2, <1>4, SeqFacts, JoinFacts
  <2>2. SubSeq(g \o x, 1, Len(g)) = SubSeq(g, 1, Len(g))
    <3>1. 1 <= Len(g) + 1
      BY <2>1
    <3> HIDE DEF g
    <3> QED
      BY <1>4, <2>1, <3>1, PartOfJoin
  <2> QED
    BY <1>1, <1>4, <2>1, <2>2 DEF Copied
<1>6. Source'
  BY <1>1, <1>2, <1>3 DEF Source
<1>7. AppenderTypes'
  BY <1>1, <1>3, <1>5 DEF AppenderTypes
<1>8. Written' /\ Told'
  BY <1>1, <1>3, <1>5 DEF Written, Told
<1>9. Recorded'
  BY <1>1, <1>3 DEF Recorded
<1> QED
  BY <1>6, <1>7, <1>8, <1>9

\* A step that hands cells on while io::copy runs or flushes: the bucket got x.
LEMMA HandOn ==
    ASSUME AppendInv, at \in {"copy", "flush"},
           UNCHANGED <<builderVars, readerVars, at, hdr, offset, index>>,
           NEW x, IsSeq(x), ToBucket(x), IsSeq(one'), IsSeq(two'),
           copied' \in 0..Len(cur.got), at # "copy" => copied' = Len(cur.got),
           (hashed \o x) \o one' = Copied', ~pipe.open => one' = <<>> /\ two' = <<>>,
           UNCHANGED heard,
           \E c : IsSeq(c) /\ pipe' = [pipe EXCEPT !.cells = c],
           pipe.open /\ pipe.reading => (heard[pipe.entry] \o pipe'.cells) \o two' = Copied'
    PROVE  AppendInv'
<1> USE DEF AppendInv
<1>1. /\ UNCHANGED <<pos, next, held, start, meta, pc, acc, cur, out, torn>>
      /\ UNCHANGED <<todo, step, hd, bytes, members, whole>>
  BY DEF readerVars, builderVars
<1>2. /\ IsSeq(file') /\ IsSeq(hashed') /\ file' = file \o x /\ hashed' = hashed \o x
      /\ offset - Base \in Nat
      /\ offset - Base + Len(hashed') = Len(file')
      /\ SubSeq(file', offset - Base + 1, Len(file')) = hashed'
  <2> DEFINE d == offset - Base
  <2>1. /\ IsSeq(file) /\ IsSeq(hashed) /\ d \in Nat /\ d + Len(hashed) = Len(file)
        /\ SubSeq(file, d + 1, Len(file)) = hashed
    BY DEF AppenderTypes, Written
  <2> HIDE DEF d
  <2>2. /\ IsSeq(file') /\ IsSeq(hashed') /\ file' = file \o x /\ hashed' = hashed \o x
        /\ d + Len(hashed') = Len(file')
        /\ SubSeq(file', d + 1, Len(file')) = hashed'
    BY <2>1, BucketTakes
  <2> QED
    BY <2>1, <2>2 DEF d
<1>3. /\ pipe'.open = pipe.open /\ pipe'.reading = pipe.reading /\ pipe'.entry = pipe.entry
      /\ IsSeq(pipe'.cells)
      /\ pipe' = [cells |-> pipe'.cells, entry |-> pipe'.entry, reading |-> pipe'.reading,
                  open |-> pipe'.open]
  <2>1. PICK c : IsSeq(c) /\ pipe' = [pipe EXCEPT !.cells = c]
    OBVIOUS
  <2>2. pipe = [cells |-> pipe.cells, entry |-> pipe.entry, reading |-> pipe.reading,
                open |-> pipe.open]
    BY DEF AppenderTypes
  <2>3. pipe' = [cells |-> c, entry |-> pipe.entry, reading |-> pipe.reading,
                 open |-> pipe.open]
    BY <2>1, <2>2
  <2> QED
    BY <2>1, <2>3
<1>4. Source'
  BY <1>1 DEF Source
<1>5. AppenderTypes'
  BY <1>1, <1>2, <1>3 DEF AppenderTypes
<1>6. Written'
  BY <1>1, <1>2, <1>3 DEF Written
<1>7. Told'
  BY <1>1, <1>3 DEF Told
<1>8. Recorded'
  BY <1>1, <1>2, RecordedKept DEF AppenderTypes
<1> QED
  BY <1>4, <1>5, <1>6, <1>7, <1>8

\* What holds while cells are handed on.
LEMMA HandingOn ==
    ASSUME AppendInv, at \in {"copy", "flush"}
    PROVE  /\ IsSeq(cur.got) /\ Len(cur.got) \in Nat /\ copied \in 0..Len(cur.got)
           /\ IsSeq(Copied) /\ IsSeq(Drop(cur.got, copied))
           /\ Len(Drop(cur.got, copied)) = Len(cur.got) - copied
           /\ Copied \o Drop(cur.got, copied) = cur.got
           /\ SubSeq(cur.got, 1, Len(cur.got)) = cur.got
           /\ \A k \in 0..Len(cur.got) - copied :
                Copied \o Take(Drop(cur.got, copied), k) = SubSeq(cur.got, 1, copied + k)
           /\ IsSeq(hashed) /\ IsSeq(one) /\ IsSeq(two) /\ IsSeq(file)
           /\ hashed \o one = Copied
           /\ at # "copy" => copied = Len(cur.got)
           /\ ~pipe.open => one = <<>> /\ two = <<>>
           /\ pipe.reading => IsSeq(heard[pipe.entry])
           /\ IsSeq(pipe.cells) /\ pipe = [pipe EXCEPT !.cells = pipe.cells]
           /\ pipe.open /\ pipe.reading => (heard[pipe.entry] \o pipe.cells) \o two = Copied
<1> USE DEF AppendInv
<1> DEFINE g == cur.got
           c == copied
<1>1. IsSeq(g) /\ c \in 0..Len(g) /\ Len(g) \in Nat
  BY SeqFacts DEF AppenderTypes, Source, IsEntry
<1>2. /\ SubSeq(g, 1, c) \o Drop(g, c) = g /\ SubSeq(g, 1, Len(g)) = g
      /\ IsSeq(SubSeq(g, 1, c)) /\ IsSeq(Drop(g, c)) /\ Len(Drop(g, c)) = Len(g) - c
      /\ \A k \in 0..Len(g) - c : SubSeq(g, 1, c) \o Take(Drop(g, c), k) = SubSeq(g, 1, c + k)
  <2> HIDE DEF g, c
  <2>1. 0 \in 0..Len(g) - c
    BY <1>1
  <2>2. /\ SubSeq(g, 1, c) \o Drop(g, c) = g /\ SubSeq(g, 1, Len(g)) = g
        /\ IsSeq(SubSeq(g, 1, c))
    BY <1>1, <2>1, Advance
  <2>3. \A k \in 0..Len(g) - c : SubSeq(g, 1, c) \o Take(Drop(g, c), k) = SubSeq(g, 1, c + k)
    BY <1>1, Advance, ZenonT(30)
  <2> QED
    BY <1>1, <2>2, <2>3, TakeDrop
<1>3. Copied = SubSeq(g, 1, c)
  BY DEF Copied
<1>4. /\ IsSeq(hashed) /\ IsSeq(one) /\ IsSeq(two) /\ IsSeq(file)
      /\ hashed \o one = Copied
      /\ at # "copy" => copied = Len(cur.got)
      /\ ~pipe.open => one = <<>> /\ two = <<>>
      /\ pipe.reading => IsSeq(heard[pipe.entry])
      /\ IsSeq(pipe.cells)
      /\ pipe.open /\ pipe.reading => (heard[pipe.entry] \o pipe.cells) \o two = Copied
  BY DEF AppenderTypes, Written, Told
<1>5. pipe = [pipe EXCEPT !.cells = pipe.cells]
  BY DEF AppenderTypes
<1> HIDE DEF AppendInv
<1> QED
  BY <1>1, <1>2, <1>3, <1>4, <1>5

LEMMA CopyDirectStep ==
    ASSUME AppendInv, NEW k \in 1..Block, CopyDirect(k), UNCHANGED builderVars
    PROVE  AppendInv'
<1> DEFINE cells == Drop(cur.got, copied)
           x == Take(cells, k)
<1>1. /\ at = "copy" /\ ~pipe.open /\ k \in 1..Len(cells) /\ ToBucket(x) /\ copied' = copied + k
      /\ UNCHANGED <<readerVars, at, hdr, offset, one, two, pipe, heard, index>>
  BY DEF CopyDirect, AcceptOne, Sent
<1>2. IsSeq(cells) /\ Len(cells) \in Nat /\ Len(cells) = Len(cur.got) - copied
  BY <1>1, HandingOn, SeqFacts
<1>3. IsSeq(x)
  <2> HIDE DEF cells
  <2> QED
    BY <1>1, <1>2, TakeDrop
<1>4. one = <<>> /\ two = <<>> /\ hashed = Copied
  <2>1. /\ ~pipe.open => one = <<>> /\ two = <<>>
        /\ hashed \o one = Copied /\ IsSeq(hashed)
    BY <1>1, HandingOn
  <2> QED
    BY <1>1, <2>1, JoinEmpty
<1>5. hashed \o x = SubSeq(cur.got, 1, copied + k) /\ copied + k \in 0..Len(cur.got)
  <2>1. /\ k \in 0..Len(cur.got) - copied /\ copied \in 0..Len(cur.got) /\ Len(cur.got) \in Nat
    BY <1>1, <1>2, HandingOn
  <2>2. Copied \o Take(Drop(cur.got, copied), k) = SubSeq(cur.got, 1, copied + k)
    BY <1>1, <2>1, HandingOn
  <2> QED
    BY <1>4, <2>1, <2>2
<1>6. Copied' = SubSeq(cur.got, 1, copied + k)
  BY <1>1 DEF Copied, readerVars
<1>7. IsSeq(hashed) /\ IsSeq(pipe.cells) /\ pipe' = [pipe EXCEPT !.cells = pipe.cells]
  BY <1>1, HandingOn
<1>8. (hashed \o x) \o one' = Copied'
  <2>1. IsSeq(hashed \o x)
    BY <1>3, <1>7, JoinFacts
  <2> QED
    BY <1>1, <1>4, <1>5, <1>6, <2>1, JoinEmpty
<1>9. /\ IsSeq(one') /\ IsSeq(two')
      /\ \E c : IsSeq(c) /\ pipe' = [pipe EXCEPT !.cells = c]
  BY <1>1, <1>4, <1>7, EmptyIsSeq
<1> HIDE DEF x, cells
<1> QED
  BY <1>1, <1>3, <1>4, <1>5, <1>8, <1>9, HandOn

LEMMA CopyBothStep ==
    ASSUME AppendInv, NEW k1, NEW k2, CopyBoth(k1, k2), UNCHANGED builderVars
    PROVE  AppendInv'
<1> DEFINE rest == Drop(cur.got, copied)
           b1 == one \o rest
           b2 == two \o rest
           x == Take(b1, k1)
           c == pipe.cells \o Take(b2, k2)
           u == heard[pipe.entry]
<1>1. /\ at = "copy" /\ pipe.open /\ pipe.reading
      /\ k1 \in 0..Len(b1) /\ k2 \in 0..Len(b2)
      /\ ToBucket(x) /\ one' = Drop(b1, k1) /\ two' = Drop(b2, k2)
      /\ pipe' = [pipe EXCEPT !.cells = c] /\ copied' = Len(cur.got)
      /\ UNCHANGED <<readerVars, at, hdr, offset, heard, index>>
  BY DEF CopyBoth, AcceptOne, Keep, Sent
<1>2. /\ IsSeq(cur.got) /\ Len(cur.got) \in Nat /\ IsSeq(rest) /\ IsSeq(Copied)
      /\ Copied \o rest = cur.got /\ SubSeq(cur.got, 1, Len(cur.got)) = cur.got
      /\ IsSeq(hashed) /\ IsSeq(one) /\ IsSeq(two) /\ IsSeq(u) /\ IsSeq(pipe.cells)
      /\ hashed \o one = Copied
      /\ (u \o pipe.cells) \o two = Copied
  BY <1>1, HandingOn
<1>3. Copied' = cur.got
  BY <1>1, <1>2 DEF Copied, readerVars
<1>4. UNCHANGED heard /\ UNCHANGED pipe.entry
  BY <1>1
<1> HIDE DEF rest, u
<1>5. IsSeq(b1) /\ IsSeq(b2) /\ IsSeq(u \o pipe.cells)
  BY <1>2, JoinFacts
<1> DEFINE p == u \o pipe.cells
<1>6. hashed \o b1 = cur.got
  <2>1. IsSeq(hashed) /\ IsSeq(one) /\ IsSeq(rest)
    BY <1>2
  <2>2. (hashed \o one) \o rest = hashed \o (one \o rest)
    BY <2>1, JoinAssoc, SMTT(60)
  <2> QED
    BY <1>2, <2>2
<1>7. p \o b2 = cur.got
  <2>1. IsSeq(p) /\ IsSeq(two) /\ IsSeq(rest)
    BY <1>2, <1>5
  <2>2. p \o two = Copied
    BY <1>2
  <2> HIDE DEF p
  <2>3. (p \o two) \o rest = p \o (two \o rest)
    BY <2>1, JoinAssoc
  <2> QED
    BY <1>2, <2>2, <2>3
<1> HIDE DEF b1, b2
<1>8. /\ (hashed \o x) \o one' = cur.got /\ IsSeq(one')
      /\ IsSeq(x)
  <2>1. IsSeq(hashed) /\ IsSeq(b1) /\ k1 \in 0..Len(b1)
    BY <1>1, <1>2, <1>5
  <2>2. /\ (hashed \o Take(b1, k1)) \o Drop(b1, k1) = hashed \o b1
        /\ IsSeq(Drop(b1, k1)) /\ IsSeq(Take(b1, k1))
    BY <2>1, Shift, TakeDrop
  <2> QED
    BY <1>1, <1>6, <2>2
<1>9. /\ (u \o c) \o two' = cur.got /\ IsSeq(two') /\ IsSeq(c)
  <2>1. IsSeq(Take(b2, k2)) /\ IsSeq(Drop(b2, k2))
    BY <1>1, <1>5, TakeDrop
  <2>2. (u \o (pipe.cells \o Take(b2, k2))) \o Drop(b2, k2) = (u \o pipe.cells) \o b2
    <3> DEFINE q == pipe.cells
    <3>1. IsSeq(u) /\ IsSeq(q) /\ IsSeq(b2) /\ k2 \in 0..Len(b2)
      BY <1>1, <1>2, <1>5
    <3> HIDE DEF q
    <3> DEFINE a == Take(b2, k2)
               z == Drop(b2, k2)
               w == u \o q
    <3>2. IsSeq(w) /\ IsSeq(a)
      BY <3>1, JoinFacts, TakeDrop
    <3>3. w \o a = u \o (q \o a)
      <4> HIDE DEF a
      <4> QED
        BY <3>1, <3>2, JoinAssoc
    <3>4. (w \o a) \o z = w \o b2
      <4> HIDE DEF w
      <4> QED
        BY <3>1, <3>2, Shift
    <3> QED
      BY <3>3, <3>4 DEF q
  <2> QED
    BY <1>1, <1>2, <1>7, <2>1, <2>2, JoinFacts
<1>10. /\ copied' \in 0..Len(cur.got) /\ copied' = Len(cur.got)
  BY <1>1, <1>2
<1>11. pipe'.cells = c
  <2>1. pipe = [pipe EXCEPT !.cells = pipe.cells]
    BY <1>1, HandingOn
  <2>2. "cells" \in DOMAIN pipe
    BY DEF AppendInv, AppenderTypes
  <2> HIDE DEF c
  <2> QED
    BY <1>1, <2>2
<1>12. (heard[pipe.entry] \o pipe'.cells) \o two' = Copied'
  BY <1>3, <1>9, <1>11 DEF u
<1> HIDE DEF x, c
<1> QED
  BY <1>1, <1>3, <1>8, <1>9, <1>10, <1>12, HandOn

LEMMA FlushOneStep ==
    ASSUME AppendInv, NEW k, FlushOne(k), UNCHANGED builderVars
    PROVE  AppendInv'
<1>1. /\ at = "flush" /\ k \in 1..Len(one) /\ ToBucket(Take(one, k)) /\ one' = Drop(one, k)
      /\ UNCHANGED <<readerVars, at, hdr, offset, two, copied, pipe, heard, index>>
  BY DEF FlushOne, AcceptOne, Keep
<1>2. /\ copied \in 0..Len(cur.got) /\ IsSeq(hashed) /\ IsSeq(one) /\ IsSeq(two)
      /\ hashed \o one = Copied
      /\ at # "copy" => copied = Len(cur.got)
      /\ ~pipe.open => one = <<>> /\ two = <<>>
      /\ IsSeq(pipe.cells) /\ pipe = [pipe EXCEPT !.cells = pipe.cells]
      /\ pipe.open /\ pipe.reading => (heard[pipe.entry] \o pipe.cells) \o two = Copied
  BY <1>1, HandingOn
<1>3. Copied' = Copied
  BY <1>1 DEF Copied, readerVars
<1>4. k \in 0..Len(one)
  BY <1>1
<1>5. IsSeq(Take(one, k)) /\ IsSeq(one') /\ (hashed \o Take(one, k)) \o one' = Copied
  BY <1>1, <1>2, <1>4, Shift, TakeDrop, ZenonT(60)
<1>6. ~pipe.open => one' = <<>> /\ two' = <<>>
  <2>1. ~pipe.open => Len(one) = 0
    BY <1>2, EmptyIsSeq
  <2> QED
    BY <1>1, <2>1
<1> QED
  BY <1>1, <1>2, <1>3, <1>5, <1>6, HandOn

LEMMA FlushTwoStep ==
    ASSUME AppendInv, NEW k, FlushTwo(k), UNCHANGED builderVars
    PROVE  AppendInv'
<1> DEFINE c == pipe.cells \o Take(two, k)
           u == heard[pipe.entry]
<1>1. /\ at = "flush" /\ pipe.reading /\ k \in 1..Len(two) /\ two' = Drop(two, k)
      /\ pipe' = [pipe EXCEPT !.cells = c]
      /\ UNCHANGED <<readerVars, at, hdr, offset, file, hashed, one, copied, heard, index>>
  BY DEF FlushTwo, Keep
<1>2. /\ copied \in 0..Len(cur.got) /\ IsSeq(hashed) /\ IsSeq(one) /\ IsSeq(two)
      /\ IsSeq(file)
      /\ hashed \o one = Copied
      /\ at # "copy" => copied = Len(cur.got)
      /\ ~pipe.open => one = <<>> /\ two = <<>>
      /\ IsSeq(pipe.cells) /\ IsSeq(u)
      /\ pipe.open => (u \o pipe.cells) \o two = Copied
  BY <1>1, HandingOn
<1>3. Copied' = Copied
  BY <1>1 DEF Copied, readerVars
<1>4. k \in 0..Len(two) /\ pipe.open
  <2>1. ~pipe.open => Len(two) = 0
    BY <1>2, EmptyIsSeq
  <2> QED
    BY <1>1, <2>1
<1> HIDE DEF u
<1>5. IsSeq(c) /\ IsSeq(two') /\ (u \o c) \o two' = Copied
  <2>1. IsSeq(Take(two, k)) /\ IsSeq(Drop(two, k))
    BY <1>2, <1>4, TakeDrop
  <2>2. (u \o (pipe.cells \o Take(two, k))) \o Drop(two, k) = (u \o pipe.cells) \o two
    <3> DEFINE q == pipe.cells
    <3>1. IsSeq(u) /\ IsSeq(q) /\ IsSeq(two) /\ k \in 0..Len(two)
      BY <1>2, <1>4
    <3> HIDE DEF q
    <3> DEFINE a == Take(two, k)
               z == Drop(two, k)
               w == u \o q
    <3>2. IsSeq(w) /\ IsSeq(a)
      BY <3>1, JoinFacts, TakeDrop
    <3>3. w \o a = u \o (q \o a)
      <4> HIDE DEF a
      <4> QED
        BY <3>1, <3>2, JoinAssoc
    <3>4. (w \o a) \o z = w \o two
      <4> HIDE DEF w
      <4> QED
        BY <3>1, <3>2, Shift
    <3> QED
      BY <3>3, <3>4 DEF q
  <2> QED
    BY <1>1, <1>2, <1>4, <2>1, <2>2, JoinFacts
<1>6. pipe'.cells = c
  <2>1. "cells" \in DOMAIN pipe
    BY DEF AppendInv, AppenderTypes
  <2> HIDE DEF c
  <2> QED
    BY <1>1, <2>1
<1>7. ToBucket(<<>>)
  <2>1. file \o <<>> = file /\ hashed \o <<>> = hashed
    BY <1>2, JoinEmpty
  <2> QED
    BY <1>1, <2>1 DEF ToBucket
<1>8. (heard[pipe.entry] \o pipe'.cells) \o two' = Copied' /\ UNCHANGED one
  BY <1>1, <1>3, <1>5, <1>6 DEF u
<1>9. (hashed \o <<>>) \o one' = Copied'
  BY <1>2, <1>3, <1>8, JoinEmpty
<1> HIDE DEF c
<1> QED
  BY <1>1, <1>2, <1>4, <1>5, <1>7, <1>8, <1>9, EmptyIsSeq, HandOn

LEMMA PipeBrokenStep ==
    ASSUME AppendInv, PipeBroken, UNCHANGED builderVars PROVE AppendInv'
<1> USE DEF AppendInv
<1>1. /\ at \in {"copy", "flush"} /\ at' = "failed" /\ ~pipe.reading
      /\ pipe' = [pipe EXCEPT !.open = FALSE]
      /\ UNCHANGED <<pos, next, held, start, meta, pc, acc, cur, out, torn>>
      /\ UNCHANGED <<todo, step, hd, bytes, members, whole>>
      /\ UNCHANGED <<hdr, offset, one, two, copied, heard, index>>
  BY DEF PipeBroken, Broken, readerVars, builderVars
<1>2. /\ pipe = [cells |-> pipe.cells, entry |-> pipe.entry, reading |-> pipe.reading,
                 open |-> pipe.open]
      /\ IsSeq(file) /\ IsSeq(hashed)
  BY DEF AppenderTypes
<1>3. /\ pipe' = [cells |-> pipe.cells, entry |-> pipe.entry, reading |-> pipe.reading,
                  open |-> FALSE]
      /\ pipe'.cells = pipe.cells /\ pipe'.reading = pipe.reading /\ pipe'.entry = pipe.entry
      /\ pipe'.open = FALSE
  BY <1>1, <1>2
<1>4. \E x : IsSeq(x) /\ ToBucket(x)
  <2>1. CASE UNCHANGED <<file, hashed>>
    <3>1. ToBucket(<<>>)
      BY <1>2, <2>1, JoinEmpty DEF ToBucket
    <3> QED
      BY <3>1, EmptyIsSeq
  <2>2. CASE \E k \in 0..Len(one \o Drop(cur.got, copied)) : AcceptOne(one \o Drop(cur.got, copied), k)
    <3> DEFINE b == one \o Drop(cur.got, copied)
    <3>1. IsSeq(b)
      BY <1>1, HandingOn, JoinFacts
    <3>2. PICK k \in 0..Len(b) : ToBucket(Take(b, k))
      BY <2>2 DEF AcceptOne
    <3> HIDE DEF b
    <3> QED
      BY <3>1, <3>2, TakeDrop
  <2> QED
    BY <2>1, <2>2 DEF PipeBroken, Broken
<1>5. PICK x : IsSeq(x) /\ ToBucket(x)
  BY <1>4
<1>6. file' = file \o x /\ IsSeq(file') /\ IsSeq(hashed')
  BY <1>2, <1>5, JoinFacts DEF ToBucket
<1>7. Source'
  BY <1>1 DEF Source
<1>8. AppenderTypes'
  BY <1>1, <1>3, <1>6 DEF AppenderTypes
<1>9. Written' /\ Told'
  BY <1>1, <1>3 DEF Written, Told
<1>10. Recorded'
  BY <1>1, <1>2, <1>5, <1>6, RecordedKept
<1> QED
  BY <1>7, <1>8, <1>9, <1>10

LEMMA EndCopyStep ==
    ASSUME AppendInv, EndCopy \/ EndFlush, UNCHANGED builderVars PROVE AppendInv'
<1> USE DEF AppendInv
<1>1. /\ at \in {"copy", "flush"} /\ copied = Len(cur.got)
      /\ \/ at = "copy" /\ pipe.open /\ at' = "flush" /\ UNCHANGED pipe
         \/ at = "copy" /\ ~pipe.open /\ at' = "pad" /\ UNCHANGED pipe
         \/ at = "flush" /\ one = <<>> /\ two = <<>> /\ at' = "pad" /\ pipe' = [pipe EXCEPT !.open = FALSE]
      /\ UNCHANGED <<pos, next, held, start, meta, pc, acc, cur, out, torn>>
      /\ UNCHANGED <<todo, step, hd, bytes, members, whole>>
      /\ UNCHANGED <<hdr, offset, file, hashed, one, two, copied, heard, index>>
  BY DEF EndCopy, EndFlush, Sent, readerVars, builderVars, Written
<1>2. pipe = [cells |-> pipe.cells, entry |-> pipe.entry, reading |-> pipe.reading,
              open |-> pipe.open]
  BY DEF AppenderTypes
<1>3. /\ pipe' = [cells |-> pipe'.cells, entry |-> pipe'.entry, reading |-> pipe'.reading,
                  open |-> pipe'.open]
      /\ pipe'.cells = pipe.cells /\ pipe'.reading = pipe.reading /\ pipe'.entry = pipe.entry
      /\ IF at' = "flush" THEN at = "copy" /\ pipe'.open = pipe.open /\ pipe.open
         ELSE at' = "pad" /\ pipe'.open = FALSE
  BY <1>1, <1>2
<1>4. at' = "pad" => one = <<>>
  BY <1>1 DEF Written
<1>5. Source'
  BY <1>1 DEF Source
<1>6. AppenderTypes'
  BY <1>1, <1>3 DEF AppenderTypes
<1>7. Written'
  <2>1. ~pipe'.open => one = <<>> /\ two = <<>>
    BY <1>1, <1>3 DEF Written
  <2> QED
    BY <1>1, <1>3, <1>4, <2>1 DEF Written, Copied
<1>8. Told'
  <2>1. /\ IsSeq(cur.got) /\ Copied = cur.got
        /\ pipe.reading => IsSeq(heard[pipe.entry] \o pipe.cells)
    BY <1>1, HandingOn, JoinFacts DEF Copied
  <2>2. Copied' = Copied
    BY <1>1 DEF Copied
  <2>3. CASE at' = "flush"
    BY <1>1, <1>3, <2>2, <2>3 DEF Told
  <2>4. CASE at' = "pad"
    <3>1. pipe.reading /\ PathOf(cur.h) \in Listened => heard[pipe.entry] \o pipe.cells = cur.got
      <4>1. CASE pipe.open
        BY <1>1, <2>1, <2>4, <4>1, JoinEmpty DEF Told
      <4>2. CASE ~pipe.open
        BY <1>1, <4>2 DEF Told
      <4> QED
        BY <4>1, <4>2
    <3> QED
      BY <1>1, <1>3, <2>4, <3>1 DEF Told
  <2> QED
    BY <1>3, <2>3, <2>4
<1>9. Recorded'
  BY <1>1 DEF Recorded
<1> QED
  BY <1>5, <1>6, <1>7, <1>8, <1>9

LEMMA EndEntryStep ==
    ASSUME AppendInv, EndEntry, UNCHANGED builderVars PROVE AppendInv'
<1> USE DEF AppendInv
<1> DEFINE pad == Zeros(RoundUp(Len(cur.got)) - Len(cur.got))
           d == offset - Base
<1>1. /\ at = "pad" /\ at' = "next" /\ copied' = 0 /\ pc' = "header" /\ cur' = NoEntry
      /\ file' = file \o pad
      /\ \/ index' = Append(index, TocEntry(hdr))
         \/ UNCHANGED index
      /\ out' = Append(out, Yielded(cur))
      /\ UNCHANGED <<pos, held, hdr, offset, hashed, one, two, pipe, heard>>
      /\ UNCHANGED <<todo, step, hd, bytes, members, whole>>
  BY DEF EndEntry, TakeNext, Repoll, builderVars
<1>2. IsEntry(NoEntry) /\ NoEntry.got = <<>>
  BY NoEntryIsEntry
<1>3. /\ IsSeq(file) /\ IsSeq(index) /\ IsSeq(out) /\ IsSeq(cur.got) /\ IsHeader(cur.h)
      /\ IsSeq(hashed)
      /\ hdr = NewTarHeader(cur.h) /\ d \in Nat /\ d + Len(hashed) = Len(file)
      /\ SubSeq(file, d + 1, Len(file)) = hashed
      /\ one = <<>> /\ copied = Len(cur.got) /\ hashed \o one = Copied
  BY <1>1 DEF AppenderTypes, Source, IsEntry, Written
<1>4. hashed = cur.got
  <2>1. SubSeq(cur.got, 1, Len(cur.got)) = cur.got
    <3>1. cur.got \in Seq(Range(cur.got))
      BY <1>3 DEF IsSeq
    <3> QED
      BY <3>1, SubSeqFull
  <2> QED
    BY <1>3, <2>1, JoinEmpty DEF Copied
<1>5. IsSeq(pad)
  <2>1. Len(cur.got) \in Nat
    BY <1>3, SeqFacts
  <2>2. RoundUp(Len(cur.got)) - Len(cur.got) \in Nat
    BY <2>1, RoundUpFacts, SMTT(60)
  <2> QED
    BY <2>2, ZerosFacts
<1>6. /\ IsSeq(file') /\ IsSeq(index') /\ IsSeq(out')
      /\ Len(index) \in Nat /\ Len(out) \in Nat
      /\ Len(out') = Len(out) + 1
      /\ \A j \in 1..Len(out) : out'[j] = out[j]
      /\ out'[Len(out) + 1] = Yielded(cur)
  <2> DEFINE y == Yielded(cur)
             e == TocEntry(hdr)
  <2>1. out' = Append(out, y) /\ (index' = Append(index, e) \/ UNCHANGED index)
    BY <1>1
  <2>2. IsSeq(file')
    <3> HIDE DEF pad
    <3> QED
      BY <1>1, <1>3, <1>5, JoinFacts
  <2> HIDE DEF pad, y, e
  <2>3. IsSeq(index')
    <3>1. IsSeq(index) /\ IsSeq(Append(index, e))
      BY <1>3, AppendFacts
    <3> QED
      BY <2>1, <3>1
  <2>4. /\ IsSeq(out') /\ Len(out') = Len(out) + 1
        /\ \A j \in 1..Len(out) : out'[j] = out[j]
        /\ out'[Len(out) + 1] = y
    BY <1>3, <2>1, AppendFacts
  <2>5. Len(index) \in Nat /\ Len(out) \in Nat
    BY <1>3, SeqFacts
  <2> QED
    BY <2>2, <2>3, <2>4, <2>5 DEF y
<1>7. RealSize(hdr) = RealSize(cur.h)
  <2> DEFINE h == cur.h
             p == Renamed(PathOf(h))
             g == SetPath(h, p)
  <2>1. IsHeader(h)
    BY <1>3
  <2> HIDE DEF h, p
  <2>2. IsHeader(g) /\ RealSize(g) = RealSize(h)
    BY <2>1, SettersKeep
  <2> HIDE DEF g
  <2>3. RealSize(SetCksum(g)) = RealSize(g)
    BY <2>2, SettersKeep
  <2>4. hdr = SetCksum(g)
    BY <1>3 DEF NewTarHeader, g, p, h
  <2> QED
    BY <2>2, <2>3, <2>4 DEF h
<1>8. Describes(TocEntry(hdr), Yielded(cur), file')
  <2>1. Yielded(cur).got = cur.got /\ Yielded(cur).size = RealSize(cur.h)
    BY DEF Yielded
  <2>2. /\ TocEntry(hdr).offset = offset /\ TocEntry(hdr).digest = hashed
        /\ TocEntry(hdr).size = RealSize(hdr)
    BY DEF TocEntry
  <2> DEFINE n == d + Len(cur.got)
  <2>3. n = Len(file) /\ n \in Nat /\ d + 1 \in Nat /\ 1 <= d + 1 /\ d + 1 <= n + 1
    BY <1>3, <1>4, SeqFacts
  <2>4. SubSeq(file \o pad, d + 1, n) = SubSeq(file, d + 1, n)
    <3> HIDE DEF pad, d, n
    <3> QED
      BY <1>3, <1>5, <2>3, PartOfJoin
  <2>5. Len(file \o pad) = Len(file) + Len(pad) /\ Len(pad) \in Nat /\ Len(file) \in Nat
    <3> HIDE DEF pad
    <3> QED
      BY <1>3, <1>5, JoinFacts, SeqFacts
  <2>6. /\ n <= Len(file') /\ SubSeq(file', d + 1, n) = cur.got
    <3>1. file' = file \o pad
      BY <1>1
    <3>2. SubSeq(file, d + 1, n) = hashed /\ hashed = cur.got /\ n <= Len(file)
      BY <1>3, <1>4, <2>3
    <3> HIDE DEF pad, d, n
    <3> QED
      BY <2>3, <2>4, <2>5, <3>1, <3>2
  <2> HIDE DEF pad
  <2> QED
    BY <1>3, <1>4, <1>7, <2>1, <2>2, <2>6 DEF Describes
<1>9. Recorded'
  <2>1. \A i \in 1..Len(index) : \E j \in 1..Len(out) : Describes(index[i], out[j], file')
    <3>1. ASSUME NEW e, NEW y, Describes(e, y, file) PROVE Describes(e, y, file')
      <4> DEFINE m == e.offset - Base
                 n == m + Len(y.got)
      <4>1. m \in Nat /\ n <= Len(file) /\ IsSeq(y.got) /\ Len(y.got) \in Nat
        BY <3>1, SeqFacts DEF Describes
      <4>2. n \in Nat /\ m + 1 \in Nat /\ 1 <= m + 1 /\ m + 1 <= n + 1
        BY <4>1
      <4> HIDE DEF m, n, pad
      <4>3. SubSeq(file \o pad, m + 1, n) = SubSeq(file, m + 1, n)
        BY <1>3, <1>5, <4>1, <4>2, PartOfJoin, ZenonT(60)
      <4>4. n <= Len(file \o pad)
        <5>1. Len(file \o pad) = Len(file) + Len(pad) /\ Len(pad) \in Nat /\ Len(file) \in Nat
          BY <1>3, <1>5, JoinFacts, SeqFacts
        <5> QED
          BY <4>1, <4>2, <5>1
      <4> QED
        BY <1>1, <3>1, <4>3, <4>4 DEF Describes, m, n
    <3> QED
      BY <3>1 DEF Recorded
  <2>2. \A i \in 1..Len(index) : \E j \in 1..Len(out') : Describes(index[i], out'[j], file')
    <3>1. \A j \in 1..Len(out) : j \in 1..Len(out')
      BY <1>6
    <3> HIDE DEF pad, d
    <3> QED
      BY <1>6, <2>1, <3>1
  <2>3. CASE UNCHANGED index
    BY <2>2, <2>3 DEF Recorded
  <2>4. CASE index' = Append(index, TocEntry(hdr))
    <3>1. /\ Len(index') = Len(index) + 1 /\ \A i \in 1..Len(index) : index'[i] = index[i]
          /\ index'[Len(index) + 1] = TocEntry(hdr)
      BY <1>3, <2>4, AppendFacts
    <3>2. \A i \in 1..Len(index') : i \in 1..Len(index) \/ i = Len(index) + 1
      BY <1>6, <3>1
    <3>3. Len(out) + 1 \in 1..Len(out')
      BY <1>6
    <3>4. ASSUME NEW i \in 1..Len(index')
          PROVE  \E j \in 1..Len(out') : Describes(index'[i], out'[j], file')
      <4>1. CASE i \in 1..Len(index)
        BY <2>2, <3>1, <4>1
      <4>2. CASE i = Len(index) + 1
        BY <1>6, <1>8, <3>1, <3>3, <4>2
      <4> QED
        BY <3>2, <4>1, <4>2
    <3> QED
      BY <3>4 DEF Recorded
  <2> QED
    BY <1>1, <2>3, <2>4
<1>10. Source'
  BY <1>1, <1>2 DEF Source
<1>11. AppenderTypes'
  BY <1>1, <1>2, <1>6, EmptyIsSeq DEF AppenderTypes
<1>12. Written' /\ Told'
  BY <1>1, <1>2 DEF Written, Told
<1> QED
  BY <1>9, <1>10, <1>11, <1>12

LEMMA HearStep ==
    ASSUME AppendInv, NEW k, Hear(k), UNCHANGED builderVars PROVE AppendInv'
<1> USE DEF AppendInv
<1> DEFINE e == pipe.entry
           u == heard[e]
           q == pipe.cells
<1>1. /\ pipe.reading /\ k \in 1..Len(q)
      /\ heard' = [heard EXCEPT ![e] = u \o Take(q, k)]
      /\ pipe' = [pipe EXCEPT !.cells = Drop(q, k)]
      /\ UNCHANGED <<pos, next, held, start, meta, pc, acc, cur, out, torn>>
      /\ UNCHANGED <<todo, step, hd, bytes, members, whole>>
      /\ UNCHANGED <<at, hdr, offset, file, hashed, one, two, copied, index>>
  BY DEF Hear, readerVars, builderVars
<1>2. /\ pipe = [cells |-> pipe.cells, entry |-> pipe.entry, reading |-> pipe.reading,
                 open |-> pipe.open]
      /\ IsSeq(heard) /\ e \in 1..Len(heard) /\ \A i \in 1..Len(heard) : IsSeq(heard[i])
      /\ IsSeq(q)
  BY <1>1 DEF AppenderTypes
<1>3. IsSeq(u)
  BY <1>2
<1>4. /\ (u \o Take(q, k)) \o Drop(q, k) = u \o q
      /\ IsSeq(u \o Take(q, k)) /\ IsSeq(Drop(q, k))
  <2>1. k \in 0..Len(q)
    BY <1>1
  <2> HIDE DEF u, q
  <2> QED
    BY <1>2, <1>3, <2>1, Shift
<1>5. /\ IsSeq(heard') /\ Len(heard') = Len(heard)
      /\ \A i \in 1..Len(heard) : heard'[i] = IF i = e THEN u \o Take(q, k) ELSE heard[i]
  <2> DEFINE v == u \o Take(q, k)
  <2>1. heard' = [heard EXCEPT ![e] = v]
    BY <1>1
  <2> HIDE DEF v, e
  <2>2. IsSeq(heard) /\ e \in 1..Len(heard)
    BY <1>2
  <2> QED
    <3> DEFINE t == heard'
    <3>1. t = [heard EXCEPT ![e] = v]
      BY <2>1
    <3> HIDE DEF t
    <3>2. IsSeq(t) /\ Len(t) = Len(heard)
          /\ \A i \in 1..Len(heard) : t[i] = IF i = e THEN v ELSE heard[i]
      <4> DEFINE s == heard
      <4>1. IsSeq(s) /\ e \in 1..Len(s) /\ t = [s EXCEPT ![e] = v]
        BY <2>2, <3>1
      <4> HIDE DEF s
      <4>2. IsSeq(t) /\ Len(t) = Len(s)
        BY <4>1, ReplaceFacts
      <4>3. \A i \in 1..Len(s) : t[i] = IF i = e THEN v ELSE s[i]
        BY <4>1, ReplaceFacts
      <4> QED
        BY <4>2, <4>3 DEF s
    <3> QED
      BY <3>2 DEF t, v
<1>6. /\ pipe' = [cells |-> Drop(q, k), entry |-> pipe.entry, reading |-> pipe.reading,
                  open |-> pipe.open]
      /\ pipe'.cells = Drop(q, k) /\ pipe'.entry = pipe.entry /\ pipe'.reading = pipe.reading
      /\ pipe'.open = pipe.open
  BY <1>1, <1>2
<1>7. heard'[pipe'.entry] \o pipe'.cells = u \o q
  BY <1>2, <1>4, <1>5, <1>6
<1>8. Source'
  BY <1>1 DEF Source
<1>9. AppenderTypes'
  <2>1. \A i \in 1..Len(heard') : IsSeq(heard'[i])
    <3> HIDE DEF u, q, e
    <3> QED
      BY <1>2, <1>4, <1>5
  <2>2. pipe' = [cells |-> pipe'.cells, entry |-> pipe'.entry, reading |-> pipe'.reading,
                 open |-> pipe'.open]
    BY <1>6
  <2>3. IsSeq(pipe'.cells) /\ (pipe'.reading => pipe'.entry \in 1..Len(heard'))
    BY <1>2, <1>4, <1>5, <1>6
  <2> HIDE DEF u, q, e
  <2> QED
    BY <1>1, <1>5, <1>6, <2>1, <2>2, <2>3 DEF AppenderTypes
<1>10. Written'
  BY <1>1, <1>6 DEF Written, Copied
<1>11. Told'
  <2>1. Copied' = Copied
    BY <1>1 DEF Copied
  <2> QED
    BY <1>1, <1>6, <1>7, <2>1 DEF Told
<1>12. Recorded'
  BY <1>1 DEF Recorded
<1> QED
  BY <1>8, <1>9, <1>10, <1>11, <1>12

LEMMA DropReaderStep ==
    ASSUME AppendInv, DropReader, UNCHANGED builderVars PROVE AppendInv'
<1> USE DEF AppendInv
<1>1. /\ pipe' = [pipe EXCEPT !.reading = FALSE, !.cells = <<>>]
      /\ UNCHANGED <<pos, next, held, start, meta, pc, acc, cur, out, torn>>
      /\ UNCHANGED <<todo, step, hd, bytes, members, whole>>
      /\ UNCHANGED <<at, hdr, offset, file, hashed, one, two, copied, heard, index>>
  BY DEF DropReader, readerVars, builderVars
<1>2. pipe = [cells |-> pipe.cells, entry |-> pipe.entry, reading |-> pipe.reading,
              open |-> pipe.open]
  BY DEF AppenderTypes
<1>3. /\ pipe' = [cells |-> <<>>, entry |-> pipe.entry, reading |-> FALSE, open |-> pipe.open]
      /\ pipe'.cells = <<>> /\ pipe'.entry = pipe.entry /\ pipe'.reading = FALSE
      /\ pipe'.open = pipe.open
  BY <1>1, <1>2
<1>4. Source'
  BY <1>1 DEF Source
<1>5. AppenderTypes'
  BY <1>1, <1>3, EmptyIsSeq DEF AppenderTypes
<1>6. Written'
  BY <1>1, <1>3 DEF Written, Copied
<1>7. Told'
  BY <1>1, <1>3 DEF Told
<1>8. Recorded'
  BY <1>1 DEF Recorded
<1> QED
  BY <1>4, <1>5, <1>6, <1>7, <1>8

LEMMA AppendStep == ASSUME AppendInv, [Next]_vars PROVE AppendInv'
<1>1. CASE Build
  BY <1>1, BuilderStep DEF Build, ownVars
<1>2. CASE (Poll \/ PollSuspends) /\ UNCHANGED builderVars
  BY <1>2, ReaderStep DEF Poll, PollSuspends
<1>3. CASE Work /\ ~Poll /\ UNCHANGED builderVars
  BY <1>3, BeginEntryStep, StopStep, CopyReadStep, PipeBrokenStep, CopyDirectStep, CopyBothStep,
     EndCopyStep, FlushOneStep, FlushTwoStep, EndEntryStep DEF Work
<1>4. CASE Listener /\ UNCHANGED builderVars
  BY <1>4, HearStep, DropReaderStep DEF Listener
<1>5. CASE UNCHANGED vars
  <2>1. UNCHANGED ownVars /\ UNCHANGED builderVars
    BY <1>5 DEF vars, ownVars
  <2>2. Source'
    BY <2>1 DEF AppendInv, Source, ownVars, readerVars, concatVars, builderVars
  <2> QED
    BY <2>1, <2>2, OwnKept DEF AppendInv
<1> QED
  BY <1>1, <1>2, <1>3, <1>4, <1>5 DEF Next

\* A prefix of what was copied has reached the listener.
LEMMA PrefixOfJoin ==
    ASSUME NEW s, NEW t, IsSeq(s), IsSeq(t)
    PROVE  IsPrefix(s, s \o t)
<1>1. IsSeq(s \o t) /\ Len(s \o t) = Len(s) + Len(t) /\ Len(s) \in Nat /\ Len(t) \in Nat
  BY JoinFacts, SeqFacts
<1>2. SubSeq(s \o t, 1, Len(s)) = SubSeq(s, 1, Len(s))
  BY <1>1, PartOfJoin
<1> QED
  BY <1>1, <1>2 DEF IsPrefix

LEMMA AppendInvDescribes == ASSUME AppendInv PROVE TocDescribesBucket
<1> USE DEF AppendInv
<1>1. ASSUME NEW i \in DOMAIN index
      PROVE  \E j \in DOMAIN out :
            /\ index[i].offset - Base + Len(out[j].got) <= Len(file)
            /\ SubSeq(file, index[i].offset - Base + 1, index[i].offset - Base + Len(out[j].got))
                 = out[j].got
            /\ index[i].digest = out[j].got
            /\ index[i].size = out[j].size
  <2>1. DOMAIN index = 1..Len(index) /\ DOMAIN out = 1..Len(out)
    BY SeqFacts DEF AppenderTypes
  <2>2. PICK j \in 1..Len(out) : Describes(index[i], out[j], file)
    BY <2>1 DEF Recorded
  <2> QED
    BY <2>1, <2>2 DEF Describes
<1>2. Sent /\ pipe.reading => IsPrefix((heard[pipe.entry] \o pipe.cells) \o two,
                                       SubSeq(cur.got, 1, copied))
  <2> SUFFICES ASSUME pipe.open, pipe.reading
               PROVE  IsPrefix(Copied, Copied)
    BY DEF Sent, Told, Copied
  <2>1. IsSeq(Copied)
    BY HandingOn DEF Told
  <2>2. Copied \o <<>> = Copied
    BY <2>1, JoinEmpty
  <2> QED
    BY <2>1, <2>2, PrefixOfJoin, EmptyIsSeq
<1>3. at = "pad" /\ pipe.reading /\ PathOf(cur.h) \in Listened =>
        heard[pipe.entry] \o pipe.cells = cur.got
  BY DEF Told
<1> QED
  BY <1>1, <1>2, <1>3 DEF TocDescribesBucket

\* Whatever is appended, however the file is cut and wherever the source, the
\* bucket and the listener make the copy wait: a TOC entry names the place of
\* its payload in the bucket, the digest is that of the payload, and the
\* listener is given the same cells in order (TarConcater::append, HashWriter,
\* AllWriter).
THEOREM TocDescribesBucketHolds == Spec => []TocDescribesBucket
<1>1. Init => AppendInv
  BY AppendInit
<1>2. AppendInv /\ [Next]_vars => AppendInv'
  BY AppendStep
<1>3. AppendInv => TocDescribesBucket
  BY AppendInvDescribes
<1> QED
  BY <1>1, <1>2, <1>3, PTL DEF Spec

\* Division in two steps.
LEMMA DivideTwice ==
    ASSUME NEW v \in Nat, NEW w \in Nat, w > 0, NEW r \in Nat, r > 0, NEW k \in Nat, k = r * w
    PROVE  v \div w = (v \div k) * r + ((v \div w) % r)
<1> DEFINE q == v \div w
           x == v % w
           m == q \div r
           y == q % r
<1>1. q \in Nat /\ x \in Nat /\ x < w /\ v = q * w + x
  OBVIOUS
<1>2. m \in Nat /\ y \in Nat /\ y < r /\ q = m * r + y
  <2> HIDE DEF q
  <2> QED
    BY <1>1
<1> HIDE DEF q, x, m, y
<1>3. v = m * k + (y * w + x)
  <2>1. q * w = (m * r + y) * w
    BY <1>2
  <2>2. (m * r + y) * w = (m * r) * w + y * w
    BY <1>2
  <2>3. (m * r) * w = m * (r * w)
    BY <1>2
  <2> QED
    BY <1>1, <1>2, <2>1, <2>2, <2>3
<1>4. y * w + x \in Nat /\ y * w + x < k
  <2>1. y + 1 <= r
    BY <1>2
  <2>2. (y + 1) * w <= r * w
    BY <1>2, <2>1
  <2>3. (y + 1) * w = y * w + w
    BY <1>2
  <2>4. y * w \in Nat
    BY <1>2
  <2> QED
    BY <1>1, <2>2, <2>3, <2>4
<1>5. k > 0
  BY <1>4
<1>6. v \div k = m
  <2> DEFINE z == y * w + x
             d == v \div k
             e == v % k
  <2>1. d \in Nat /\ e \in Nat /\ e < k /\ v = d * k + e
    BY <1>5
  <2>2. z \in Nat /\ z < k /\ v = m * k + z
    BY <1>3, <1>4
  <2> HIDE DEF z, d, e
  <2>3. d * k + e = m * k + z
    BY <2>1, <2>2
  <2>4. ~(d < m)
    <3> SUFFICES ASSUME d + 1 <= m PROVE FALSE
      BY <1>2, <2>1
    <3>1. (d + 1) * k <= m * k
      BY <1>2, <2>1
    <3>2. (d + 1) * k = d * k + k
      BY <2>1
    <3>3. d * k \in Nat /\ m * k \in Nat
      BY <1>2, <2>1
    <3> QED
      BY <2>1, <2>2, <2>3, <3>1, <3>2, <3>3
  <2>5. ~(m < d)
    <3> SUFFICES ASSUME m + 1 <= d PROVE FALSE
      BY <1>2, <2>1
    <3>1. (m + 1) * k <= d * k
      BY <1>2, <2>1
    <3>2. (m + 1) * k = m * k + k
      BY <1>2
    <3>3. d * k \in Nat /\ m * k \in Nat
      BY <1>2, <2>1
    <3> QED
      BY <2>1, <2>2, <2>3, <3>1, <3>2, <3>3
  <2>6. d = m
    BY <1>2, <2>1, <2>4, <2>5
  <2> QED
    BY <2>6 DEF d
<1>7. q = (v \div k) * r + y
  BY <1>2, <1>6
<1>8. q = v \div w
  BY DEF q
<1>9. y = q % r
  BY DEF y
<1>10. y = (v \div w) % r
  BY <1>8, <1>9
<1>11. v \div w = (v \div k) * r + y
  BY <1>7, <1>8
<1> QED
  BY <1>10, <1>11

-----------------------------------------------------------------------------
(* Numbers in a header.                                                    *)

LEMMA WeightsExist ==
    ASSUME NEW n \in Nat
    PROVE  \E g : /\ g = [i \in 0..n |-> IF i = 0 THEN 1 ELSE Radix * g[i - 1]]
                  /\ \A i \in 0..n : g[i] \in Nat \ {0}
<1> DEFINE Good(m, g) == /\ g = [i \in 0..m |-> IF i = 0 THEN 1 ELSE Radix * g[i - 1]]
                         /\ \A i \in 0..m : g[i] \in Nat \ {0}
           T == {m \in Nat : \E g : Good(m, g)}
<1>0. Radix \in Nat \ {0}
  BY TarHeaderAssumption
<1>1. 0 \in T
  <2>1. Good(0, [i \in 0..0 |-> 1])
    OBVIOUS
  <2> QED
    BY <2>1
<1>2. ASSUME NEW m \in T PROVE m + 1 \in T
  <2>1. PICK g : Good(m, g)
    OBVIOUS
  <2> DEFINE w == Radix * g[m]
             h == [i \in 0..m + 1 |-> IF i = m + 1 THEN w ELSE g[i]]
  <2>0. m \in Nat /\ m \in 0..m
    OBVIOUS
  <2>2. w \in Nat \ {0}
    <3>1. \A x, y \in Nat \ {0} : x * y \in Nat \ {0}
      OBVIOUS
    <3>2. g[m] \in Nat \ {0}
      BY <2>0, <2>1
    <3> QED
      BY <1>0, <3>1, <3>2
  <2>3. (\A i \in 0..m : h[i] = g[i]) /\ h[m + 1] = w
    BY <2>0
  <2>4. \A i \in 0..m + 1 : h[i] = IF i = 0 THEN 1 ELSE Radix * h[i - 1]
    <3> SUFFICES ASSUME NEW i \in 0..m + 1 PROVE h[i] = IF i = 0 THEN 1 ELSE Radix * h[i - 1]
      OBVIOUS
    <3>1. CASE i = m + 1
      <4>1. i # 0 /\ i - 1 = m /\ h[i - 1] = g[m] /\ h[i] = w
        BY <2>0, <2>3, <3>1
      <4> HIDE DEF h
      <4> QED
        BY <4>1
    <3>2. CASE i \in 0..m
      <4>1. g[i] = IF i = 0 THEN 1 ELSE Radix * g[i - 1]
        BY <2>1, <3>2
      <4>2. i = 0 \/ i - 1 \in 0..m
        BY <2>0, <3>2
      <4> HIDE DEF h
      <4> QED
        BY <2>3, <3>2, <4>1, <4>2
    <3> QED
      BY <2>0, <3>1, <3>2
  <2>5. h = [i \in 0..m + 1 |-> h[i]]
    OBVIOUS
  <2>6. \A i \in 0..m + 1 : h[i] \in Nat \ {0}
    <3> HIDE DEF h, w
    <3>1. \A i \in 0..m + 1 : i = m + 1 \/ i \in 0..m
      BY <2>0
    <3> QED
      BY <2>1, <2>2, <2>3, <3>1
  <2> HIDE DEF h
  <2>7. h = [i \in 0..m + 1 |-> IF i = 0 THEN 1 ELSE Radix * h[i - 1]]
    BY <2>4, <2>5
  <2> QED
    BY <2>6, <2>7
<1> HIDE DEF Good
<1>3. T = Nat
  <2>1. T \in SUBSET Nat
    OBVIOUS
  <2> HIDE DEF T
  <2> QED
    BY <1>1, <1>2, <2>1, SetInduction
<1>4. \E g : Good(n, g)
  BY <1>3
<1> QED
  BY <1>4 DEF Good

LEMMA WeightFacts ==
    /\ Weight[0] = 1
    /\ \A i \in 0..SizeDigits : Weight[i] \in Nat \ {0}
    /\ \A i \in 1..SizeDigits : Weight[i] = Radix * Weight[i - 1]
<1> DEFINE U(g) == g = [i \in 0..SizeDigits |-> IF i = 0 THEN 1 ELSE Radix * g[i - 1]]
<1>0. SizeDigits \in Nat
  BY TarHeaderAssumption
<1>1. PICK f : U(f) /\ \A i \in 0..SizeDigits : f[i] \in Nat \ {0}
  BY <1>0, WeightsExist
<1>2. U(Weight)
  <2>1. Weight = CHOOSE g : U(g)
    BY DEF Weight
  <2> HIDE DEF U
  <2> QED
    BY <1>1, <2>1
<1>3. \A g : U(g) => /\ g[0] = 1
                    /\ \A i \in 1..SizeDigits : g[i] = Radix * g[i - 1]
  <2> SUFFICES ASSUME NEW g, U(g)
               PROVE  /\ g[0] = 1
                      /\ \A i \in 1..SizeDigits : g[i] = Radix * g[i - 1]
    OBVIOUS
  <2>1. \A i \in 0..SizeDigits : g[i] = IF i = 0 THEN 1 ELSE Radix * g[i - 1]
    OBVIOUS
  <2>2. 0 \in 0..SizeDigits /\ \A i \in 1..SizeDigits : i \in 0..SizeDigits /\ i # 0
    BY <1>0
  <2> QED
    BY <2>1, <2>2
<1> HIDE DEF U
<1>4. \A i \in 0..SizeDigits : Weight[i] = f[i]
  <2> DEFINE T == {m \in Nat : m <= SizeDigits => Weight[m] = f[m]}
  <2>1. 0 \in T
    BY <1>1, <1>2, <1>3
  <2>2. ASSUME NEW m \in T PROVE m + 1 \in T
    <3> SUFFICES ASSUME m + 1 <= SizeDigits PROVE Weight[m + 1] = f[m + 1]
      OBVIOUS
    <3>1. m + 1 \in 1..SizeDigits /\ (m + 1) - 1 = m /\ Weight[m] = f[m]
      BY <1>0
    <3> QED
      BY <1>1, <1>2, <1>3, <3>1
  <2>3. T \in SUBSET Nat
    OBVIOUS
  <2>4. T = Nat
    <3> HIDE DEF T
    <3> QED
      BY <2>1, <2>2, <2>3, SetInduction
  <2> QED
    BY <1>0, <2>4
<1> QED
  BY <1>1, <1>2, <1>3, <1>4

\* A value below the limit comes back from its digits.
LEMMA DigitsComeBack ==
    ASSUME NEW v \in Nat, v < Weight[SizeDigits]
    PROVE  OctalFrom(OctalInto(v)) = v
<1> DEFINE D == SizeDigits
           w == [i \in 0..D |-> Weight[D - i]]
           d == OctalInto(v)
           U(g) == g = [i \in 0..Len(d) |-> IF i = 0 THEN 0 ELSE g[i - 1] * Radix + d[i]]
           f == CHOOSE g : U(g)
<1>0. D \in Nat /\ D # 0 /\ Radix \in Nat /\ Radix > 0
  BY TarHeaderAssumption
<1>1. Len(d) = D /\ \A i \in 1..D : d[i] = (v \div w[i]) % Radix
  <2>1. d = [i \in 1..D |-> (v \div Weight[D - i]) % Radix]
    BY DEF OctalInto
  <2>2. \A i \in 1..D : i \in 0..D /\ w[i] = Weight[D - i]
    BY <1>0
  <2> HIDE DEF w
  <2>3. \A i \in 1..D : d[i] = (v \div w[i]) % Radix
    BY <2>1, <2>2
  <2>4. d = [i \in 1..D |-> d[i]]
    BY <2>1
  <2> HIDE DEF d
  <2> QED
    BY <1>0, <2>3, <2>4, ListIsSeq
<1>2. /\ \A i \in 0..D : w[i] \in Nat /\ w[i] > 0
      /\ \A i \in 1..D : w[i - 1] = Radix * w[i]
      /\ w[0] = Weight[D] /\ w[D] = 1
  <2>1. \A i \in 0..D : D - i \in 0..D
    BY <1>0
  <2>2. ASSUME NEW i \in 1..D PROVE w[i - 1] = Radix * w[i]
    <3>1. i - 1 \in 0..D /\ i \in 0..D /\ D - (i - 1) \in 1..D /\ (D - (i - 1)) - 1 = D - i
      BY <1>0
    <3> QED
      BY <3>1, WeightFacts
  <2>3. 0 \in 0..D /\ D \in 0..D /\ D - 0 = D /\ D - D = 0
    BY <1>0
  <2> QED
    BY <2>1, <2>2, <2>3, WeightFacts
<1> HIDE DEF d, w
<1>3. \A i \in 1..D : v \div w[i] = (v \div w[i - 1]) * Radix + d[i]
  <2> SUFFICES ASSUME NEW i \in 1..D
               PROVE  v \div w[i] = (v \div w[i - 1]) * Radix + d[i]
    OBVIOUS
  <2>1. i \in 0..D /\ i - 1 \in 0..D
    BY <1>0
  <2>2. /\ w[i] \in Nat /\ w[i] > 0 /\ w[i - 1] \in Nat /\ w[i - 1] = Radix * w[i]
    BY <1>2, <2>1
  <2>3. v \div w[i] = (v \div w[i - 1]) * Radix + ((v \div w[i]) % Radix)
    BY <1>0, <2>2, DivideTwice, ZenonT(60)
  <2> QED
    BY <1>1, <2>3
<1>4. v \div w[0] = 0 /\ v \div w[D] = v
  <2>1. \A b \in Nat : v < b => v \div b = 0
    OBVIOUS
  <2>2. v \div 1 = v
    OBVIOUS
  <2>3. 0 \in 0..D
    BY <1>0
  <2>4. w[0] \in Nat /\ v < w[0]
    BY <1>2, <2>3
  <2> QED
    BY <1>2, <2>1, <2>2, <2>4
<1>5. U(f)
  <2> DEFINE g == [i \in 0..D |-> v \div w[i]]
  <2>1. \A i \in 0..D : g[i] = IF i = 0 THEN 0 ELSE g[i - 1] * Radix + d[i]
    <3> SUFFICES ASSUME NEW i \in 0..D
                 PROVE  g[i] = IF i = 0 THEN 0 ELSE g[i - 1] * Radix + d[i]
      OBVIOUS
    <3>1. CASE i = 0
      BY <1>4, <3>1
    <3>2. CASE i \in 1..D
      <4>1. i - 1 \in 0..D
        BY <1>0, <3>2
      <4>2. g[i] = v \div w[i] /\ g[i - 1] = v \div w[i - 1]
        BY <4>1
      <4> HIDE DEF g
      <4> QED
        BY <1>3, <3>2, <4>2
    <3> QED
      BY <3>1, <3>2
  <2>2. g = [i \in 0..D |-> g[i]]
    OBVIOUS
  <2> HIDE DEF g
  <2>3. U(g)
    BY <1>1, <2>1, <2>2
  <2> HIDE DEF U
  <2> QED
    BY <2>3
<1>6. f[0] = 0 /\ \A i \in 1..D : f[i] = f[i - 1] * Radix + d[i]
  <2> HIDE DEF f
  <2>1. \A i \in 0..D : f[i] = IF i = 0 THEN 0 ELSE f[i - 1] * Radix + d[i]
    BY <1>1, <1>5
  <2>2. 0 \in 0..D /\ \A i \in 1..D : i \in 0..D /\ i # 0
    BY <1>0
  <2> QED
    BY <2>1, <2>2
<1>7. OctalFrom(d) = f[D]
  BY <1>1 DEF OctalFrom
<1> HIDE DEF f
<1>8. \A i \in 0..D : f[i] = v \div w[i]
  <2> DEFINE T == {m \in Nat : m <= D => f[m] = v \div w[m]}
  <2>1. 0 \in T
    BY <1>4, <1>6
  <2>2. ASSUME NEW m \in T PROVE m + 1 \in T
    <3> SUFFICES ASSUME m + 1 <= D PROVE f[m + 1] = v \div w[m + 1]
      OBVIOUS
    <3>1. m + 1 \in 1..D /\ (m + 1) - 1 = m /\ f[m] = v \div w[m]
      BY <1>0
    <3> QED
      BY <1>3, <1>6, <3>1
  <2>3. T \in SUBSET Nat
    OBVIOUS
  <2>4. T = Nat
    <3> HIDE DEF T
    <3> QED
      BY <2>1, <2>2, <2>3, SetInduction
  <2> QED
    BY <1>0, <2>4
<1>9. f[D] = v
  BY <1>0, <1>4, <1>8
<1> QED
  BY <1>7, <1>9 DEF d

\* Every size a header can be given comes back from it, in digits or in binary.
LEMMA SizeComesBack ==
    ASSUME NEW n \in Nat
    PROVE  NumFrom(NumInto(n)) = n
<1>1. CASE n >= Weight[SizeDigits]
  <2>1. NumInto(n) = ExtInto(n)
    BY <1>1 DEF NumInto
  <2> QED
    BY <2>1 DEF NumFrom, ExtInto, ExtFrom
<1>2. CASE ~(n >= Weight[SizeDigits])
  <2>1. NumInto(n) = [ext |-> FALSE, digits |-> OctalInto(n)]
    BY <1>2 DEF NumInto
  <2>2. SizeDigits \in 0..SizeDigits
    BY TarHeaderAssumption
  <2>3. n < Weight[SizeDigits]
    BY <1>2, <2>2, WeightFacts
  <2>4. NumFrom(NumInto(n)) = OctalFrom(OctalInto(n))
    BY <2>1 DEF NumFrom
  <2> QED
    BY <2>3, <2>4, DigitsComeBack
<1> QED
  BY <1>1, <1>2

-----------------------------------------------------------------------------
(* Plain archives.  F is an archive as it was built, before it is closed or  *)
(* cut; a position is the number of cells in front of it.                    *)

Heads(F) == {p \in 0..Len(F) - 1 : F[p + 1].k = "head"}
HeadAt(F, p) == F[p + 1].h
SizeAt(F, p) == EntrySize(HeadAt(F, p))
KindAt(F, p) == MetaKind(HeadAt(F, p))
Body(F, p) == SubSeq(F, p + 3, p + 2 + SizeAt(F, p))
After(F, p) == p + 2 + RoundUp(SizeAt(F, p))

\* A header with the name and link name its member was given, when t was
\* collected in front of it.
Titled(t, h, m) ==
    LET e == [h |-> h, meta |-> t] IN
    /\ EntryPath(e) = m.path /\ EntryLink(e) = m.link
    /\ t.pax # None => PaxValue(t.pax, "path") \in {None, m.path}

Placed(F, p) ==
    /\ HeadAt(F, p).sum /\ EntryTypeOf(HeadAt(F, p)) # "GNUSparse"
    /\ SizeAt(F, p) \in Nat
    /\ F[p + 2] = [k |-> "tail", h |-> HeadAt(F, p)]
    /\ After(F, p) \in Heads(F) \cup {Len(F)}
    /\ \A q \in Heads(F) : q > p => q >= After(F, p)
OfMember(F, T, M, p) ==
    /\ T[After(F, p)] = NoMeta
    /\ \E j \in 1..Len(M) : /\ M[j].at = p + 2 /\ M[j].data = Body(F, p)
                            /\ Titled(T[p], HeadAt(F, p), M[j])
OfMeta(F, T, p) ==
    /\ KindAt(F, p) \in MetaFields /\ T[p][KindAt(F, p)] = None
    /\ T[After(F, p)] = [T[p] EXCEPT ![KindAt(F, p)] = Body(F, p)]

\* The members of F are M; T[p] is what a reader has collected at position p.
Chain(F, T, M) ==
    /\ IsSeq(F) /\ IsSeq(M)
    /\ 0 \in Heads(F) \cup {Len(F)} /\ T[0] = NoMeta
    /\ \A p \in Heads(F) \cup {Len(F)} : IsMeta(T[p])
    /\ \A p \in Heads(F) :
         Placed(F, p) /\ IF KindAt(F, p) = None THEN OfMember(F, T, M, p) ELSE OfMeta(F, T, p)
    /\ \A j \in 1..Len(M) : \E p \in Heads(F) : M[j].at = p + 2 /\ KindAt(F, p) = None
    /\ \A i, j \in 1..Len(M) : i < j => M[i].at < M[j].at

\* G is F and one more member.
Grown(G, F, h, body, n) ==
    /\ IsSeq(G) /\ Len(F) \in Nat /\ RoundUp(n) \in Nat /\ RoundUp(n) >= n
    /\ Len(G) = Len(F) + 2 + RoundUp(n)
    /\ \A i \in 1..Len(F) : G[i] = F[i]
    /\ G[Len(F) + 1] = [k |-> "head", h |-> h]
    /\ G[Len(F) + 2] = [k |-> "tail", h |-> h]
    /\ \A i \in 1..n : G[Len(F) + 2 + i] = DataCells(body, n)[i]
    /\ \A i \in Len(F) + 2..Len(G) : G[i].k # "head"

LEMMA MemberShape ==
    ASSUME NEW F, IsSeq(F), NEW h, NEW body, NEW n \in Nat
    PROVE  Grown(F \o MemberCells(h, body, n), F, h, body, n)
<1> DEFINE G == F \o MemberCells(h, body, n)
           a == HeaderCells(h)
           b == DataCells(body, n)
           z == RoundUp(n) - n
           c == Zeros(z)
           d == a \o b
           e == d \o c
<1>1. Len(F) \in Nat /\ RoundUp(n) \in Nat /\ RoundUp(n) >= n /\ z \in Nat
  <2>1. Len(F) \in Nat
    BY SeqFacts
  <2>2. RoundUp(n) \in Nat /\ RoundUp(n) >= n
    BY RoundUpFacts
  <2> QED
    BY <2>1, <2>2
<1>2. /\ IsSeq(a) /\ Len(a) = 2
      /\ a[1] = [k |-> "head", h |-> h] /\ a[2] = [k |-> "tail", h |-> h]
  BY HeaderCellsFacts
<1>3. IsSeq(b) /\ Len(b) = n /\ \A i \in 1..n : b[i].k = "data"
  <2>1. /\ IsSeq(b) /\ Len(b) = n
        /\ \A i \in 1..n : b[i] = [k |-> "data", body |-> body, i |-> i, of |-> n]
    BY DataCellsFacts
  <2> HIDE DEF b
  <2> QED
    BY <2>1
<1>4. IsSeq(c) /\ Len(c) = z /\ \A i \in 1..z : c[i].k = "zero"
  <2> HIDE DEF z
  <2> QED
    BY <1>1, ZerosFacts DEF Zero
<1>5. G = F \o e
  BY DEF MemberCells
<1> HIDE DEF a, b, c, G
<1>6. /\ IsSeq(d) /\ Len(d) = 2 + n /\ d[1] = a[1] /\ d[2] = a[2]
      /\ \A i \in 1..n : d[2 + i] = b[i]
  <2>1. IsSeq(a) /\ IsSeq(b)
    BY <1>2, <1>3
  <2>2. /\ IsSeq(d) /\ Len(d) = Len(a) + Len(b)
        /\ \A i \in 1..Len(a) : d[i] = a[i]
        /\ \A i \in 1..Len(b) : d[Len(a) + i] = b[i]
    BY <2>1, JoinFacts
  <2> HIDE DEF d
  <2> QED
    BY <1>2, <1>3, <2>2
<1> HIDE DEF d
<1>7. /\ IsSeq(e) /\ Len(e) = 2 + RoundUp(n) /\ \A i \in 1..2 + n : e[i] = d[i]
      /\ \A i \in 1..z : e[(2 + n) + i] = c[i]
  <2> HIDE DEF z
  <2>1. /\ IsSeq(e) /\ Len(e) = (2 + n) + z /\ \A i \in 1..2 + n : e[i] = d[i]
        /\ \A i \in 1..z : e[(2 + n) + i] = c[i]
    <3>1. IsSeq(d) /\ IsSeq(c)
      BY <1>4, <1>6
    <3>2. /\ IsSeq(e) /\ Len(e) = Len(d) + Len(c)
          /\ \A i \in 1..Len(d) : e[i] = d[i]
          /\ \A i \in 1..Len(c) : e[Len(d) + i] = c[i]
      BY <3>1, JoinFacts
    <3> HIDE DEF e
    <3> QED
      BY <1>4, <1>6, <3>2
  <2>2. (2 + n) + z = 2 + RoundUp(n)
    BY <1>1 DEF z
  <2> QED
    BY <2>1, <2>2
<1> HIDE DEF e
<1>8. /\ e[1] = a[1] /\ e[2] = a[2] /\ \A i \in 1..n : e[2 + i] = b[i]
  <2>1. 1 \in 1..2 + n /\ 2 \in 1..2 + n /\ \A i \in 1..n : 2 + i \in 1..2 + n
    OBVIOUS
  <2> QED
    BY <1>6, <1>7, <2>1
<1>9. \A i \in 2..2 + RoundUp(n) : e[i].k # "head"
  <2> SUFFICES ASSUME NEW i \in 2..2 + RoundUp(n) PROVE e[i].k # "head"
    OBVIOUS
  <2>1. CASE i = 2
    BY <1>2, <1>8, <2>1
  <2>2. CASE i \in 3..2 + n
    <3>1. i - 2 \in 1..n /\ 2 + (i - 2) = i
      BY <2>2
    <3> QED
      BY <1>3, <1>8, <3>1
  <2>3. CASE i \in 3 + n..2 + RoundUp(n)
    <3>1. i - (2 + n) \in 1..z /\ (2 + n) + (i - (2 + n)) = i
      BY <1>1, <2>3
    <3> QED
      BY <1>4, <1>7, <3>1
  <2> QED
    BY <1>1, <2>1, <2>2, <2>3
<1>10. /\ IsSeq(G) /\ Len(G) = Len(F) + (2 + RoundUp(n))
       /\ \A i \in 1..Len(F) : G[i] = F[i]
       /\ \A i \in 1..2 + RoundUp(n) : G[Len(F) + i] = e[i]
  <2>1. IsSeq(e)
    BY <1>7
  <2>2. /\ IsSeq(G) /\ Len(G) = Len(F) + Len(e)
        /\ \A i \in 1..Len(F) : G[i] = F[i]
        /\ \A i \in 1..Len(e) : G[Len(F) + i] = e[i]
    BY <1>5, <2>1, JoinFacts
  <2> QED
    BY <1>7, <2>2
<1>11. G[Len(F) + 1] = a[1] /\ G[Len(F) + 2] = a[2]
  <2>1. 1 \in 1..2 + RoundUp(n) /\ 2 \in 1..2 + RoundUp(n)
    BY <1>1
  <2> QED
    BY <1>8, <1>10, <2>1
<1>12. \A i \in 1..n : G[Len(F) + 2 + i] = b[i]
  <2> SUFFICES ASSUME NEW i \in 1..n PROVE G[Len(F) + 2 + i] = b[i]
    OBVIOUS
  <2>1. 2 + i \in 1..2 + RoundUp(n) /\ Len(F) + 2 + i = Len(F) + (2 + i)
    BY <1>1
  <2> QED
    BY <1>8, <1>10, <2>1
<1>13. \A i \in Len(F) + 2..Len(G) : G[i].k # "head"
  <2> SUFFICES ASSUME NEW i \in Len(F) + 2..Len(G) PROVE G[i].k # "head"
    OBVIOUS
  <2>1. /\ i - Len(F) \in 1..2 + RoundUp(n) /\ i - Len(F) \in 2..2 + RoundUp(n)
        /\ i = Len(F) + (i - Len(F))
    BY <1>1, <1>10
  <2> QED
    BY <1>9, <1>10, <2>1
<1>14. Len(G) = Len(F) + 2 + RoundUp(n)
  BY <1>1, <1>10
<1>15. Grown(G, F, h, body, n)
  BY <1>1, <1>2, <1>10, <1>11, <1>12, <1>13, <1>14 DEF b, Grown
<1> QED
  BY <1>15 DEF G

LEMMA HeadsFacts ==
    ASSUME NEW F, IsSeq(F), NEW h, NEW body, NEW n \in Nat, NEW G,
           Grown(G, F, h, body, n), EntrySize(h) = n
    PROVE  /\ Heads(G) = Heads(F) \cup {Len(F)}
           /\ Len(F) \notin Heads(F)
           /\ \A p \in Heads(F) : HeadAt(G, p) = HeadAt(F, p) /\ p \in Nat /\ p < Len(F)
           /\ HeadAt(G, Len(F)) = h
           /\ Body(G, Len(F)) = DataCells(body, n)
           /\ After(G, Len(F)) = Len(G)
           /\ G[Len(F) + 2] = [k |-> "tail", h |-> h]
           /\ IsSeq(G)
<1>1. /\ IsSeq(G) /\ Len(F) \in Nat /\ RoundUp(n) \in Nat /\ RoundUp(n) >= n
      /\ Len(G) = Len(F) + 2 + RoundUp(n)
      /\ \A i \in 1..Len(F) : G[i] = F[i]
      /\ G[Len(F) + 1] = [k |-> "head", h |-> h]
      /\ G[Len(F) + 2] = [k |-> "tail", h |-> h]
      /\ \A i \in 1..n : G[Len(F) + 2 + i] = DataCells(body, n)[i]
      /\ \A i \in Len(F) + 2..Len(G) : G[i].k # "head"
  BY DEF Grown
<1>2. \A p \in 0..Len(F) - 1 : p + 1 \in 1..Len(F) /\ G[p + 1] = F[p + 1] /\ p \in 0..Len(G) - 1
  BY <1>1
<1>3. Heads(G) = Heads(F) \cup {Len(F)}
  <2>1. ASSUME NEW p \in Heads(G) PROVE p \in Heads(F) \cup {Len(F)}
    <3>1. p \in 0..Len(G) - 1 /\ G[p + 1].k = "head"
      BY DEF Heads
    <3>2. ~(p + 1 \in Len(F) + 2..Len(G))
      BY <1>1, <3>1
    <3>3. p \in 0..Len(F)
      BY <1>1, <3>1, <3>2
    <3>4. CASE p = Len(F)
      BY <3>4
    <3>5. CASE p \in 0..Len(F) - 1
      BY <1>2, <3>1, <3>5 DEF Heads
    <3> QED
      BY <1>1, <3>3, <3>4, <3>5
  <2>2. ASSUME NEW p \in Heads(F) PROVE p \in Heads(G)
    BY <1>2 DEF Heads
  <2>3. Len(F) \in Heads(G)
    BY <1>1 DEF Heads
  <2> QED
    BY <2>1, <2>2, <2>3
<1>4. \A p \in Heads(F) : HeadAt(G, p) = HeadAt(F, p) /\ p \in Nat /\ p < Len(F)
  BY <1>1, <1>2 DEF Heads, HeadAt
<1>5. HeadAt(G, Len(F)) = h
  BY <1>1 DEF HeadAt
<1>6. SizeAt(G, Len(F)) = n
  BY <1>5 DEF SizeAt
<1>7. Body(G, Len(F)) = DataCells(body, n)
  <2> DEFINE a == Len(F) + 3
             b == Len(F) + 2 + n
             s == SubSeq(G, a, b)
             d == DataCells(body, n)
  <2>1. a \in Nat /\ b \in Nat /\ 1 <= a /\ a <= b + 1 /\ b <= Len(G) /\ b - a + 1 = n
    BY <1>1
  <2>2. \A i \in 1..n : a + i - 1 = Len(F) + 2 + i
    BY <1>1
  <2>3. IsSeq(d) /\ Len(d) = n
    BY DataCellsFacts
  <2>4. \A i \in 1..n : G[Len(F) + 2 + i] = d[i]
    BY <1>1
  <2> HIDE DEF a, b, d
  <2>5. IsSeq(s) /\ Len(s) = b - a + 1 /\ \A i \in 1..b - a + 1 : s[i] = G[a + i - 1]
    BY <1>1, <2>1, PartFacts
  <2> HIDE DEF s
  <2>6. Len(s) = n /\ \A i \in 1..n : s[i] = d[i]
    BY <2>1, <2>2, <2>4, <2>5
  <2>7. s = d
    BY <2>3, <2>5, <2>6, SameSeq
  <2> QED
    BY <1>6, <2>7 DEF Body, s, a, b, d
<1>8. After(G, Len(F)) = Len(G)
  BY <1>1, <1>6 DEF After
<1>9. Len(F) \notin Heads(F)
  BY <1>1 DEF Heads
<1> QED
  BY <1>1, <1>3, <1>4, <1>5, <1>7, <1>8, <1>9

\* The same part of two sequences that agree there.
LEMMA SamePart ==
    ASSUME NEW s, NEW t, IsSeq(s), IsSeq(t), NEW m \in Nat, NEW n \in Nat,
           1 <= m, m <= n + 1, n <= Len(s), n <= Len(t), \A i \in m..n : s[i] = t[i]
    PROVE  SubSeq(s, m, n) = SubSeq(t, m, n)
<1>1. /\ IsSeq(SubSeq(s, m, n)) /\ Len(SubSeq(s, m, n)) = n - m + 1
      /\ \A i \in 1..n - m + 1 : SubSeq(s, m, n)[i] = s[m + i - 1]
  BY PartFacts
<1>2. /\ IsSeq(SubSeq(t, m, n)) /\ Len(SubSeq(t, m, n)) = n - m + 1
      /\ \A i \in 1..n - m + 1 : SubSeq(t, m, n)[i] = t[m + i - 1]
  BY PartFacts
<1>3. \A i \in 1..n - m + 1 : m + i - 1 \in m..n
  OBVIOUS
<1>4. \A i \in 1..n - m + 1 : SubSeq(s, m, n)[i] = SubSeq(t, m, n)[i]
  BY <1>1, <1>2, <1>3
<1> QED
  BY <1>1, <1>2, <1>4, SameSeq

\* Where a member's cells are in its archive.
LEMMA PlacedFacts ==
    ASSUME NEW F, IsSeq(F), NEW p \in Heads(F), Placed(F, p)
    PROVE  /\ p \in Nat /\ Len(F) \in Nat /\ p < Len(F)
           /\ SizeAt(F, p) \in Nat /\ After(F, p) \in Nat
           /\ p + 2 + SizeAt(F, p) <= After(F, p) /\ After(F, p) <= Len(F)
           /\ p + 2 <= Len(F) /\ p < After(F, p)
           /\ After(F, p) \in Heads(F) \cup {Len(F)}
           /\ IsSeq(Body(F, p)) /\ Len(Body(F, p)) = SizeAt(F, p)
<1>1. Len(F) \in Nat /\ p \in Nat /\ p < Len(F)
  BY SeqFacts DEF Heads
<1>2. SizeAt(F, p) \in Nat /\ After(F, p) \in Heads(F) \cup {Len(F)}
  BY DEF Placed
<1>3. RoundUp(SizeAt(F, p)) \in Nat /\ RoundUp(SizeAt(F, p)) >= SizeAt(F, p)
  BY <1>2, RoundUpFacts
<1>4. After(F, p) <= Len(F)
  BY <1>1, <1>2 DEF Heads
<1>5. /\ After(F, p) \in Nat /\ p + 2 + SizeAt(F, p) <= After(F, p) /\ p < After(F, p)
      /\ p + 2 <= After(F, p)
  BY <1>1, <1>2, <1>3 DEF After
<1>6. IsSeq(Body(F, p)) /\ Len(Body(F, p)) = SizeAt(F, p)
  <2> DEFINE a == p + 3
             b == p + 2 + SizeAt(F, p)
  <2>1. a \in Nat /\ b \in Nat /\ 1 <= a /\ a <= b + 1 /\ b <= Len(F) /\ b - a + 1 = SizeAt(F, p)
    BY <1>1, <1>2, <1>4, <1>5
  <2>2. Body(F, p) = SubSeq(F, a, b)
    BY DEF Body
  <2> HIDE DEF a, b
  <2> QED
    BY <2>1, <2>2, PartFacts
<1> QED
  BY <1>1, <1>2, <1>4, <1>5, <1>6

\* What a header h with contents d adds, when t was collected in front of it: a
\* member, or one more name or extension for the next.
Put(t, k, d) == [t EXCEPT ![k] = d]
Adds(t, l, h, d, M, N, u) ==
    \/ /\ MetaKind(h) = None /\ u = NoMeta
       /\ \E m : N = Append(M, m) /\ m.at = l + 2 /\ m.data = d /\ Titled(t, h, m)
    \/ /\ MetaKind(h) # None /\ MetaKind(h) \in MetaFields /\ t[MetaKind(h)] = None
       /\ u = Put(t, MetaKind(h), d) /\ N = M
Further(T, l, k, u) == [p \in 0..k |-> IF p <= l THEN T[p] ELSE u]

LEMMA ChainGrows ==
    ASSUME NEW F, NEW T, NEW M, Chain(F, T, M), NEW h, NEW body, NEW n \in Nat, NEW G,
           Grown(G, F, h, body, n),
           EntrySize(h) = n, h.sum, EntryTypeOf(h) # "GNUSparse", NEW N, NEW u, IsMeta(u),
           Adds(T[Len(F)], Len(F), h, DataCells(body, n), M, N, u),
           NEW U, U = Further(T, Len(F), Len(G), u)
    PROVE  Chain(G, U, N) /\ U[Len(G)] = u
<1> DEFINE l == Len(F)
<1>1. U = [p \in 0..Len(G) |-> IF p <= l THEN T[p] ELSE u]
  BY DEF Further
<1>2. N = M \/ \E m : N = Append(M, m)
  BY DEF Adds
<1>3. /\ IsSeq(F) /\ IsSeq(M) /\ l \in Nat /\ Len(M) \in Nat
      /\ \A p \in Heads(F) : Placed(F, p)
  BY SeqFacts DEF Chain
<1>4. /\ Heads(G) = Heads(F) \cup {l} /\ l \notin Heads(F)
      /\ \A p \in Heads(F) : HeadAt(G, p) = HeadAt(F, p) /\ p \in Nat /\ p < l
      /\ HeadAt(G, l) = h /\ Body(G, l) = DataCells(body, n) /\ After(G, l) = Len(G)
      /\ G[l + 2] = [k |-> "tail", h |-> h] /\ IsSeq(G)
  <2>1. /\ Heads(G) = Heads(F) \cup {Len(F)}
        /\ Len(F) \notin Heads(F)
        /\ \A p \in Heads(F) : HeadAt(G, p) = HeadAt(F, p) /\ p \in Nat /\ p < Len(F)
        /\ HeadAt(G, Len(F)) = h
        /\ Body(G, Len(F)) = DataCells(body, n)
        /\ After(G, Len(F)) = Len(G)
        /\ G[Len(F) + 2] = [k |-> "tail", h |-> h]
        /\ IsSeq(G)
    <3> HIDE DEF l
    <3>1. IsSeq(F) /\ n \in Nat /\ Grown(G, F, h, body, n) /\ EntrySize(h) = n
      BY <1>3
    <3> QED
      BY <3>1, HeadsFacts, Zenon
  <2> QED
    BY <2>1
<1>5. /\ Len(G) \in Nat /\ Len(G) > l /\ \A i \in 1..l : G[i] = F[i]
  BY DEF Grown
<1>6. /\ \A p \in 0..l : U[p] = T[p]
      /\ U[Len(G)] = u
  BY <1>3, <1>5, <1>1
<1>7. ASSUME NEW p \in Heads(F)
      PROVE  /\ SizeAt(G, p) = SizeAt(F, p) /\ KindAt(G, p) = KindAt(F, p)
             /\ After(G, p) = After(F, p) /\ Body(G, p) = Body(F, p)
             /\ G[p + 2] = F[p + 2] /\ U[p] = T[p] /\ U[After(F, p)] = T[After(F, p)]
  <2>1. HeadAt(G, p) = HeadAt(F, p)
    BY <1>4
  <2>2. SizeAt(G, p) = SizeAt(F, p) /\ KindAt(G, p) = KindAt(F, p)
    BY <2>1 DEF SizeAt, KindAt
  <2>3. After(G, p) = After(F, p)
    BY <2>2 DEF After
  <2>4. /\ p \in Nat /\ p < l /\ SizeAt(F, p) \in Nat /\ After(F, p) \in Nat
        /\ p + 2 + SizeAt(F, p) <= After(F, p) /\ After(F, p) <= l /\ p + 2 <= l
    BY <1>3, PlacedFacts
  <2>5. Body(G, p) = Body(F, p)
    <3> DEFINE a == p + 3
               b == p + 2 + SizeAt(F, p)
    <3>1. a \in Nat /\ b \in Nat /\ 1 <= a /\ a <= b + 1 /\ b <= Len(F) /\ b <= Len(G)
          /\ \A i \in a..b : i \in 1..l
      BY <1>3, <1>5, <2>4
    <3>2. \A i \in a..b : G[i] = F[i]
      BY <1>5, <3>1
    <3> HIDE DEF a, b
    <3>3. SubSeq(G, a, b) = SubSeq(F, a, b)
      BY <1>3, <1>4, <3>1, <3>2, SamePart
    <3> QED
      BY <2>2, <3>3 DEF Body, a, b
  <2>6. G[p + 2] = F[p + 2]
    <3>1. p + 2 \in 1..l
      BY <2>4
    <3> QED
      BY <1>5, <3>1
  <2>7. U[p] = T[p] /\ U[After(F, p)] = T[After(F, p)]
    BY <1>3, <1>6, <2>4
  <2> QED
    BY <2>2, <2>3, <2>5, <2>6, <2>7
<1>8. Len(M) <= Len(N) /\ \A j \in 1..Len(M) : j \in 1..Len(N) /\ N[j] = M[j]
  <2>1. CASE N = M
    BY <1>3, <2>1
  <2>2. CASE \E m : N = Append(M, m)
    BY <1>3, <2>2, AppendFacts
  <2> QED
    BY <1>2, <2>1, <2>2
<1>9. IsSeq(N)
  <2>1. CASE N = M
    BY <1>3, <2>1
  <2>2. CASE \E m : N = Append(M, m)
    BY <1>3, <2>2, AppendFacts
  <2> QED
    BY <1>2, <2>1, <2>2
<1>10. 0 \in Heads(G) \cup {Len(G)} /\ U[0] = NoMeta
  <2>1. 0 \in Heads(F) \cup {l} /\ T[0] = NoMeta /\ 0 \in 0..l
    BY <1>3 DEF Chain
  <2> QED
    BY <1>4, <1>6, <2>1
<1>11. \A p \in Heads(G) \cup {Len(G)} : IsMeta(U[p])
  <2>1. \A p \in Heads(F) \cup {l} : IsMeta(T[p]) /\ p \in 0..l
    BY <1>3, <1>4 DEF Chain
  <2> QED
    BY <1>4, <1>6, <2>1
<1>12. ASSUME NEW p \in Heads(F)
       PROVE  Placed(G, p) /\ IF KindAt(G, p) = None THEN OfMember(G, U, N, p) ELSE OfMeta(G, U, p)
  <2>1. Placed(F, p) /\ IF KindAt(F, p) = None THEN OfMember(F, T, M, p) ELSE OfMeta(F, T, p)
    BY DEF Chain
  <2>2. HeadAt(G, p) = HeadAt(F, p) /\ After(F, p) \in Nat /\ After(F, p) <= l
    BY <1>3, <1>4, PlacedFacts
  <2>3. \A q \in Heads(G) : q > p => q >= After(F, p)
    BY <1>4, <2>1, <2>2 DEF Placed
  <2>4. Placed(G, p)
    <3>1. After(G, p) \in Heads(G) \cup {Len(G)}
      BY <1>4, <1>7, <2>1 DEF Placed
    <3> QED
      BY <1>7, <2>1, <2>2, <2>3, <3>1 DEF Placed
  <2>5. CASE KindAt(F, p) = None
    <3>1. OfMember(F, T, M, p)
      BY <2>1, <2>5
    <3>2. PICK j \in 1..Len(M) : /\ M[j].at = p + 2 /\ M[j].data = Body(F, p)
                                 /\ Titled(T[p], HeadAt(F, p), M[j])
      BY <3>1 DEF OfMember
    <3>3. /\ j \in 1..Len(N) /\ N[j].at = p + 2 /\ N[j].data = Body(G, p)
          /\ Titled(U[p], HeadAt(G, p), N[j])
      BY <1>7, <1>8, <2>2, <3>2
    <3>4. U[After(G, p)] = NoMeta
      BY <1>7, <3>1 DEF OfMember
    <3>5. OfMember(G, U, N, p)
      BY <3>3, <3>4 DEF OfMember
    <3> QED
      BY <1>7, <2>4, <2>5, <3>5
  <2>6. CASE KindAt(F, p) # None
    <3>1. OfMeta(F, T, p)
      BY <2>1, <2>6
    <3>2. OfMeta(G, U, p)
      BY <1>7, <3>1 DEF OfMeta
    <3> QED
      BY <1>7, <2>4, <2>6, <3>2
  <2> QED
    BY <2>5, <2>6
<1>13. SizeAt(G, l) = n /\ KindAt(G, l) = MetaKind(h) /\ U[l] = T[l]
  BY <1>3, <1>4, <1>6 DEF SizeAt, KindAt
<1>14. Placed(G, l)
  <2>1. \A q \in Heads(G) : ~(q > l)
    BY <1>3, <1>4
  <2> QED
    BY <1>4, <1>13, <2>1 DEF Placed
<1>15. CASE MetaKind(h) = None
  <2>1. PICK m : /\ N = Append(M, m) /\ m.at = l + 2 /\ m.data = DataCells(body, n)
                 /\ Titled(T[l], h, m)
    BY <1>15 DEF Adds
  <2>2. Len(N) = Len(M) + 1 /\ N[Len(M) + 1] = m
    BY <1>3, <2>1, AppendFacts
  <2>3. OfMember(G, U, N, l)
    <3>1. /\ Len(M) + 1 \in 1..Len(N) /\ N[Len(M) + 1].at = l + 2
          /\ N[Len(M) + 1].data = Body(G, l) /\ Titled(U[l], HeadAt(G, l), N[Len(M) + 1])
      BY <1>3, <1>4, <1>13, <2>1, <2>2
    <3>2. U[After(G, l)] = NoMeta
      BY <1>4, <1>6, <1>15 DEF Adds
    <3> QED
      BY <3>1, <3>2 DEF OfMember
  <2>4. \A j \in 1..Len(N) : \E p \in Heads(G) : N[j].at = p + 2 /\ KindAt(G, p) = None
    <3> SUFFICES ASSUME NEW j \in 1..Len(N)
                 PROVE  \E p \in Heads(G) : N[j].at = p + 2 /\ KindAt(G, p) = None
      OBVIOUS
    <3>1. CASE j \in 1..Len(M)
      <4>1. PICK p \in Heads(F) : M[j].at = p + 2 /\ KindAt(F, p) = None
        BY <3>1 DEF Chain
      <4> QED
        BY <1>4, <1>7, <1>8, <3>1, <4>1
    <3>2. CASE j = Len(M) + 1
      BY <1>4, <1>13, <1>15, <2>1, <2>2, <3>2
    <3> QED
      BY <1>3, <2>2, <3>1, <3>2
  <2>5. \A i, j \in 1..Len(N) : i < j => N[i].at < N[j].at
    <3> SUFFICES ASSUME NEW i \in 1..Len(N), NEW j \in 1..Len(N), i < j
                 PROVE  N[i].at < N[j].at
      OBVIOUS
    <3>1. i \in 1..Len(M)
      BY <1>3, <2>2
    <3>2. CASE j \in 1..Len(M)
      BY <1>8, <3>1, <3>2 DEF Chain
    <3>3. CASE j = Len(M) + 1
      <4>1. PICK p \in Heads(F) : M[i].at = p + 2
        BY <3>1 DEF Chain
      <4>2. p + 2 < l + 2
        BY <1>3, <1>4, <4>1
      <4> QED
        BY <1>8, <2>1, <2>2, <3>1, <3>3, <4>1, <4>2
    <3>4. j \in 1..Len(M) \/ j = Len(M) + 1
      BY <1>3, <2>2
    <3> QED
      BY <3>2, <3>3, <3>4
  <2>6. \A p \in Heads(G) :
          Placed(G, p) /\ IF KindAt(G, p) = None THEN OfMember(G, U, N, p) ELSE OfMeta(G, U, p)
    BY <1>4, <1>12, <1>13, <1>14, <1>15, <2>3
  <2> QED
    BY <1>4, <1>6, <1>9, <1>10, <1>11, <2>4, <2>5, <2>6 DEF Chain
<1>16. CASE MetaKind(h) # None
  <2>1. /\ MetaKind(h) \in MetaFields /\ T[l][MetaKind(h)] = None
        /\ u = [T[l] EXCEPT ![MetaKind(h)] = DataCells(body, n)] /\ N = M
    BY <1>16 DEF Adds, Put
  <2>2. OfMeta(G, U, l)
    BY <1>4, <1>6, <1>13, <2>1 DEF OfMeta
  <2>3. \A j \in 1..Len(N) : \E p \in Heads(G) : N[j].at = p + 2 /\ KindAt(G, p) = None
    <3> SUFFICES ASSUME NEW j \in 1..Len(M)
                 PROVE  \E p \in Heads(G) : M[j].at = p + 2 /\ KindAt(G, p) = None
      BY <2>1
    <3>1. PICK p \in Heads(F) : M[j].at = p + 2 /\ KindAt(F, p) = None
      BY DEF Chain
    <3> QED
      BY <1>4, <1>7, <3>1
  <2>4. \A i, j \in 1..Len(N) : i < j => N[i].at < N[j].at
    BY <2>1 DEF Chain
  <2>5. \A p \in Heads(G) :
          Placed(G, p) /\ IF KindAt(G, p) = None THEN OfMember(G, U, N, p) ELSE OfMeta(G, U, p)
    BY <1>4, <1>12, <1>13, <1>14, <1>16, <2>2
  <2> QED
    BY <1>4, <1>6, <1>9, <1>10, <1>11, <2>3, <2>4, <2>5 DEF Chain
<1> QED
  BY <1>15, <1>16

-----------------------------------------------------------------------------
(* Names.                                                                  *)

LEMMA MaxExists ==
    ASSUME NEW n \in Nat, NEW S \in SUBSET (0..n), S # {}
    PROVE  \E x \in S : \A y \in S : y <= x
<1> SUFFICES ASSUME \A x \in S : \E y \in S : ~(y <= x) PROVE FALSE
  OBVIOUS
<1> DEFINE T == {m \in Nat : \E x \in S : m <= x}
<1>1. \A x \in S : x \in Nat /\ x <= n
  OBVIOUS
<1>2. 0 \in T
  <2>1. PICK x \in S : TRUE
    OBVIOUS
  <2>2. 0 <= x
    BY <1>1
  <2> QED
    BY <2>2
<1>3. ASSUME NEW m \in T PROVE m + 1 \in T
  <2>1. PICK x \in S : m <= x
    OBVIOUS
  <2>2. PICK y \in S : ~(y <= x)
    OBVIOUS
  <2>3. m + 1 <= y
    BY <1>1, <2>1, <2>2
  <2> QED
    BY <2>3
<1>4. T = Nat
  <2>1. T \in SUBSET Nat
    OBVIOUS
  <2> HIDE DEF T
  <2> QED
    BY <1>2, <1>3, <2>1, SetInduction
<1>5. n + 1 \in T
  BY <1>4
<1> QED
  BY <1>1, <1>5

LEMMA SplitIsSplit ==
    ASSUME NEW p, Len(p.comps) \in Nat, Splits(p) # {}
    PROVE  Split(p) \in Splits(p)
<1> DEFINE S == Splits(p)
<1>1. S \in SUBSET (0..Len(p.comps))
  BY DEF Splits
<1> HIDE DEF S
<1>2. S # {}
  BY DEF S
<1>3. \E x \in S : \A y \in S : y <= x
  BY <1>1, <1>2, MaxExists
<1> DEFINE U(x) == x \in S /\ \A y \in S : y <= x
<1>4. Split(p) = CHOOSE x : U(x)
  BY DEF Split, S
<1>5. \E x : U(x)
  BY <1>3
<1> HIDE DEF U
<1>6. U(Split(p))
  BY <1>4, <1>5
<1> QED
  BY <1>6 DEF S, U

\* A path that was taken is the one the header gives back, from the name field
\* or from prefix and name.
LEMMA PathComesBack ==
    ASSUME NEW h, IsHeader(h), NEW p \in PathType, SetPathOk(h, p),
           \A i \in 1..Len(p.comps) : p.comps[i] # CurDir,
           h.format = "ustar" => h.prefix = NoPath
    PROVE  PathOf(SetPath(h, p)) = p
<1> DEFINE c == p.comps
<1>1. /\ c \in Seq(CompType) /\ Len(c) \in Nat /\ DOMAIN c = 1..Len(c)
      /\ p = [abs |-> p.abs, comps |-> c, slash |-> p.slash]
  <2>1. c \in Seq(CompType) /\ p = [abs |-> p.abs, comps |-> c, slash |-> p.slash]
    BY DEF PathType
  <2> QED
    BY <2>1, LenProperties
<1>2. ASSUME NEW q, NEW m \in Nat, DOMAIN q.comps = 1..m, \A i \in 1..m : q.comps[i] # CurDir
      PROVE  Normalized(q, FALSE) = q
  BY <1>2 DEF Normalized
<1>3. CASE h.format # "ustar" \/ PathLen(p) <= NameLen
  <2> DEFINE g == SetPath(h, p)
  <2>1. Normalized(p, FALSE) = p
    BY <1>1, <1>2
  <2>2. g = [h EXCEPT !.name = p, !.sum = FALSE]
    BY <1>3, <2>1 DEF SetPath
  <2>3. g.name = p /\ g.format = h.format /\ g.prefix = h.prefix
    BY <2>2, Zenon DEF IsHeader, HeaderFields
  <2> HIDE DEF g
  <2>4. PathOf(g) = p
    BY <2>3 DEF PathOf, JoinPath
  <2> QED
    BY <2>4 DEF g
<1>4. CASE ~(h.format # "ustar" \/ PathLen(p) <= NameLen)
  <2> DEFINE k == Split(p)
             a == SubSeq(c, 1, k)
             b == SubSeq(c, k + 1, Len(c))
             d == Path(a)
             e == [p EXCEPT !.comps = b]
             g == SetPath(h, p)
  <2>1. k \in 0..Len(c) - 1
    <3>1. Splits(p) # {}
      BY <1>4 DEF SetPathOk
    <3> QED
      BY <1>1, <3>1, SplitIsSplit DEF Splits
  <2>2. /\ IsSeq(c) /\ IsSeq(a) /\ Len(a) = k /\ IsSeq(b) /\ Len(b) = Len(c) - k
        /\ \A i \in 1..k : a[i] = c[i]
        /\ \A i \in 1..Len(c) - k : b[i] = c[k + i]
        /\ a \o b = c
    <3>1. IsSeq(c)
      BY <1>1, SeqIsSeq
    <3> HIDE DEF k, c
    <3>2. k \in 0..Len(c) /\ k \in Nat
      BY <1>1, <2>1
    <3>3. IsSeq(a) /\ Len(a) = k /\ IsSeq(b) /\ Len(b) = Len(c) - k /\ a \o b = c
      BY <3>1, <3>2, TakeDrop DEF Take, Drop
    <3>4. \A i \in 1..k - 1 + 1 : a[i] = c[1 + i - 1]
      BY <1>1, <3>1, <3>2, PartFacts
    <3>5. \A i \in 1..Len(c) - (k + 1) + 1 : b[i] = c[(k + 1) + i - 1]
      BY <1>1, <3>1, <3>2, PartFacts
    <3> HIDE DEF a, b
    <3>6. \A i \in 1..k : a[i] = c[i]
      BY <3>2, <3>4
    <3>7. \A i \in 1..Len(c) - k : b[i] = c[k + i]
      <4>1. Len(c) - (k + 1) + 1 = Len(c) - k /\ \A i \in Nat : (k + 1) + i - 1 = k + i
        BY <3>1, <3>2, SeqFacts
      <4> QED
        BY <3>5, <4>1
    <3> QED
      BY <3>1, <3>3, <3>6, <3>7
  <2>3. e = [abs |-> p.abs, comps |-> b, slash |-> p.slash]
    <3> DEFINE x == p.abs
               y == p.slash
    <3>1. p = [abs |-> x, comps |-> c, slash |-> y]
      BY <1>1
    <3> HIDE DEF b, c, x, y
    <3>2. [p EXCEPT !.comps = b] = [abs |-> x, comps |-> b, slash |-> y]
      BY <3>1
    <3> QED
      BY <3>2 DEF x, y
  <2>4. Normalized(d, FALSE) = d /\ Normalized(e, FALSE) = e
    <3>1. d.comps = a /\ e.comps = b
      BY <2>3 DEF Path
    <3>2. DOMAIN a = 1..k /\ DOMAIN b = 1..Len(c) - k /\ k \in Nat /\ Len(c) - k \in Nat
      BY <1>1, <2>1, <2>2, SeqFacts
    <3>3. \A i \in 1..k : i \in 1..Len(c)
      BY <1>1, <2>1
    <3>4. \A i \in 1..Len(c) - k : k + i \in 1..Len(c)
      BY <1>1, <2>1
    <3> HIDE DEF k, a, b, d, e
    <3>5. \A i \in 1..k : a[i] # CurDir
      BY <2>2, <3>3
    <3>6. \A i \in 1..Len(c) - k : b[i] # CurDir
      BY <2>2, <3>4
    <3> QED
      BY <1>2, <3>1, <3>2, <3>5, <3>6
  <2>5. Tail2(p) = e
    BY DEF Tail2
  <2>6. g = [h EXCEPT !.prefix = d, !.name = e, !.sum = FALSE]
    <3> HIDE DEF e
    <3>1. g = [h EXCEPT !.prefix = Normalized(d, FALSE), !.name = Normalized(e, FALSE), !.sum = FALSE]
      BY <1>4, <2>5, Zenon DEF SetPath
    <3> HIDE DEF d, g
    <3> QED
      BY <2>4, <3>1
  <2> HIDE DEF g, d, e, a, b, k
  <2>7. g.name = e /\ g.format = h.format /\ g.prefix = d
    BY <2>6, Zenon DEF IsHeader, HeaderFields
  <2>8. CASE d = NoPath
    <3>1. a = <<>>
      BY <2>8 DEF d, NoPath, Path
    <3>2. b = c
      BY <2>2, <3>1, JoinEmpty
    <3>3. e = p
      BY <1>1, <2>3, <3>2
    <3> QED
      BY <1>4, <2>7, <2>8, <3>3 DEF PathOf, JoinPath, g
  <2>9. CASE d # NoPath
    <3>1. JoinPath(d, e) = [e EXCEPT !.comps = d.comps \o @]
      BY <2>9 DEF JoinPath
    <3>2. d.comps = a
      BY DEF d, Path
    <3>3. JoinPath(d, e) = [abs |-> p.abs, comps |-> a \o b, slash |-> p.slash]
      BY <2>3, <3>1, <3>2
    <3>4. JoinPath(d, e) = p
      BY <1>1, <2>2, <3>3
    <3>5. PathOf(g) = JoinPath(d, e)
      BY <1>4, <2>7 DEF PathOf
    <3> QED
      BY <3>4, <3>5 DEF g
  <2> QED
    BY <2>8, <2>9
<1> QED
  BY <1>3, <1>4

\* What a stream may have lost of what was collected in front of a member.
Partly(m, t) == IsMeta(m) /\ \A x \in MetaFields : m[x] \in {None, t[x]}

\* Then the member has its own name or the one in its header.
LEMMA NameOfPart ==
    ASSUME NEW t, NEW m, NEW h, NEW r, Partly(m, t), Titled(t, h, r),
           NEW e, e.h = h, e.meta = m
    PROVE  /\ EntryPath(e) \in {r.path, PathOf(h)}
           /\ m = t => EntryPath(e) = r.path /\ EntryLink(e) = r.link
<1>1. /\ m.name \in {None, t.name} /\ m.link \in {None, t.link} /\ m.pax \in {None, t.pax}
  BY DEF Partly, MetaFields
<1> DEFINE f == [h |-> h, meta |-> t]
<1>2. /\ EntryPath(f) = r.path /\ EntryLink(f) = r.link
      /\ t.pax # None => PaxValue(t.pax, "path") \in {None, r.path}
      /\ f.h = h /\ f.meta = t
  BY DEF Titled
<1> HIDE DEF f
<1>3. m = t => EntryPath(e) = r.path /\ EntryLink(e) = r.link
  <2> SUFFICES ASSUME m = t PROVE EntryPath(e) = EntryPath(f) /\ EntryLink(e) = EntryLink(f)
    BY <1>2
  <2>1. e.meta = f.meta /\ e.h = f.h
    BY <1>2
  <2> QED
    BY <2>1 DEF EntryPath, EntryLink
<1>4. CASE m.name # None
  <2>1. EntryPath(e) = Collected(t.name) /\ t.name # None
    BY <1>1, <1>4 DEF EntryPath
  <2>2. EntryPath(f) = Collected(t.name)
    BY <1>2, <2>1 DEF EntryPath
  <2> QED
    BY <1>2, <1>3, <2>1, <2>2
<1>5. CASE m.name = None /\ m.pax # None /\ PaxValue(m.pax, "path") # None
  <2>1. EntryPath(e) = PaxValue(m.pax, "path")
    BY <1>5 DEF EntryPath
  <2>2. m.pax = t.pax
    BY <1>1, <1>5
  <2> QED
    BY <1>2, <1>3, <1>5, <2>1, <2>2
<1>6. CASE m.name = None /\ ~(m.pax # None /\ PaxValue(m.pax, "path") # None)
  <2>1. EntryPath(e) = PathOf(h)
    BY <1>6 DEF EntryPath
  <2> QED
    BY <1>3, <2>1
<1> QED
  BY <1>4, <1>5, <1>6

-----------------------------------------------------------------------------
(* Headers a plain archive is made of.                                     *)

LEMMA TypesComeBack ==
    \A t \in {"Regular", "Symlink", "Directory", "GNULongName", "GNULongLink"} :
        TypeNew(AsByte[t]) = t
<1> SUFFICES ASSUME NEW t \in {"Regular", "Symlink", "Directory", "GNULongName", "GNULongLink"}
             PROVE  TypeNew(AsByte[t]) = t
  OBVIOUS
<1>1. /\ DOMAIN AsByte = {"Regular", "Link", "Symlink", "Char", "Block", "Directory", "Fifo",
                          "Continuous", "XHeader", "XGlobalHeader", "GNULongName",
                          "GNULongLink", "GNUSparse"}
      /\ AsByte["Regular"] = "0" /\ AsByte["Link"] = "1" /\ AsByte["Symlink"] = "2"
      /\ AsByte["Char"] = "3" /\ AsByte["Block"] = "4" /\ AsByte["Directory"] = "5"
      /\ AsByte["Fifo"] = "6" /\ AsByte["Continuous"] = "7" /\ AsByte["XHeader"] = "x"
      /\ AsByte["XGlobalHeader"] = "g" /\ AsByte["GNULongName"] = "L"
      /\ AsByte["GNULongLink"] = "K" /\ AsByte["GNUSparse"] = "S"
  BY DEF AsByte
<1>2. t \in DOMAIN AsByte /\ AsByte[t] # "NUL"
  BY <1>1
<1>3. \A s \in DOMAIN AsByte : AsByte[s] = AsByte[t] => s = t
  BY <1>1
<1> DEFINE U(s) == s \in DOMAIN AsByte /\ AsByte[s] = AsByte[t]
<1>4. U(t)
  BY <1>2
<1>5. TypeNew(AsByte[t]) = CHOOSE s : U(s)
  BY <1>2 DEF TypeNew
<1>6. \A s : U(s) => s = t
  BY <1>3
<1> HIDE DEF U
<1>7. U(CHOOSE s : U(s))
  BY <1>4
<1> QED
  BY <1>5, <1>6, <1>7

\* Nothing of h that a path does not say has changed in g.
Core(g, h) == /\ g.format = h.format /\ g.flag = h.flag /\ g.link = h.link /\ g.size = h.size

LEMMA CoreFacts ==
    ASSUME NEW g, NEW h, Core(g, h)
    PROVE  /\ EntryTypeOf(g) = EntryTypeOf(h) /\ EntrySize(g) = EntrySize(h)
           /\ MetaKind(g) = MetaKind(h) /\ LinkNameOf(g) = LinkNameOf(h)
<1>1. EntryTypeOf(g) = EntryTypeOf(h) /\ EntrySize(g) = EntrySize(h) /\ LinkNameOf(g) = LinkNameOf(h)
  BY DEF Core, EntryTypeOf, EntrySize, LinkNameOf
<1>2. g.format = h.format
  BY DEF Core
<1> QED
  BY <1>1, <1>2 DEF MetaKind

LEMMA PathKeepsCore ==
    ASSUME NEW h, IsHeader(h), NEW p
    PROVE  /\ IsHeader(SetPath(h, p)) /\ Core(SetPath(h, p), h)
           /\ IsHeader(SetPathLeaves(h, p)) /\ Core(SetPathLeaves(h, p), h)
<1> USE DEF HeaderFields
<1>1. ASSUME NEW g, IsHeader(g), Core(g, h), NEW v
      PROVE  /\ Core([g EXCEPT !.name = v], h) /\ Core([g EXCEPT !.prefix = v], h)
             /\ Core([g EXCEPT !.sum = v], h)
             /\ IsHeader([g EXCEPT !.name = v]) /\ IsHeader([g EXCEPT !.prefix = v])
             /\ IsHeader([g EXCEPT !.sum = v])
  BY <1>1, HeaderKept DEF Core
<1>2. IsHeader(h) /\ Core(h, h)
  BY DEF Core
<1> DEFINE Good(g) == IsHeader(g) /\ Core(g, h)
<1> HIDE DEF Core
<1>3. ASSUME NEW a, NEW b, NEW c
      PROVE  /\ Good([h EXCEPT !.name = a, !.sum = b])
             /\ Good([h EXCEPT !.prefix = a, !.name = b, !.sum = c])
             /\ Good([h EXCEPT !.prefix = a])
  <2>1. Good([h EXCEPT !.name = a]) /\ Good([h EXCEPT !.prefix = a])
    BY <1>1, <1>2
  <2>2. Good([[h EXCEPT !.name = a] EXCEPT !.sum = b])
    <3> DEFINE g == [h EXCEPT !.name = a]
    <3>1. Good(g)
      BY <2>1
    <3> HIDE DEF g
    <3>2. Good([g EXCEPT !.sum = b])
      BY <1>1, <3>1
    <3> QED
      BY <3>2 DEF g
  <2>3. Good([[[h EXCEPT !.prefix = a] EXCEPT !.name = b] EXCEPT !.sum = c])
    <3> DEFINE g == [h EXCEPT !.prefix = a]
               f == [g EXCEPT !.name = b]
    <3>1. Good(g)
      BY <2>1
    <3> HIDE DEF g
    <3>2. Good(f)
      BY <1>1, <3>1
    <3> HIDE DEF f
    <3>3. Good([f EXCEPT !.sum = c])
      BY <1>1, <3>2
    <3> QED
      BY <3>3 DEF g, f
  <2> QED
    BY <2>1, <2>2, <2>3
<1>4. \/ \E a, b : SetPath(h, p) = [h EXCEPT !.name = a, !.sum = b]
      \/ \E a, b, c : SetPath(h, p) = [h EXCEPT !.prefix = a, !.name = b, !.sum = c]
  BY Zenon DEF SetPath
<1>5. SetPathLeaves(h, p) = h \/ \E a : SetPathLeaves(h, p) = [h EXCEPT !.prefix = a]
  BY Zenon DEF SetPathLeaves
<1> HIDE DEF Good
<1>6. Good(SetPath(h, p))
  <2>1. CASE \E a, b : SetPath(h, p) = [h EXCEPT !.name = a, !.sum = b]
    <3>1. PICK a, b : SetPath(h, p) = [h EXCEPT !.name = a, !.sum = b]
      BY <2>1, Zenon
    <3>2. Good([h EXCEPT !.name = a, !.sum = b])
      BY <1>3, Zenon
    <3> QED
      BY <3>1, <3>2, Zenon
  <2>2. CASE \E a, b, c : SetPath(h, p) = [h EXCEPT !.prefix = a, !.name = b, !.sum = c]
    <3>1. PICK a, b, c : SetPath(h, p) = [h EXCEPT !.prefix = a, !.name = b, !.sum = c]
      BY <2>2, Zenon
    <3>2. Good([h EXCEPT !.prefix = a, !.name = b, !.sum = c])
      BY <1>3, Zenon
    <3> QED
      BY <3>1, <3>2, Zenon
  <2> QED
    BY <1>4, <2>1, <2>2, Zenon
<1>7. Good(SetPathLeaves(h, p))
  <2>1. Good(h)
    BY <1>2 DEF Good
  <2> DEFINE g == SetPathLeaves(h, p)
  <2> HIDE DEF g
  <2> QED
    BY <1>3, <1>5, <2>1 DEF g
<1> QED
  BY <1>6, <1>7 DEF Good

\* The header of a member that carries a long name.
LEMMA LongHeaderFacts ==
    ASSUME NEW n \in Nat, NEW t \in {"GNULongName", "GNULongLink"}, NEW h,
           h = PrepareHeader(n, t)
    PROVE  /\ h.sum /\ EntryTypeOf(h) = t /\ EntrySize(h) = n + 1
           /\ MetaKind(h) = IF t = "GNULongName" THEN "name" ELSE "link"
<1> USE DEF HeaderFields
<1> DEFINE g == [NewHeader("gnu") EXCEPT !.name = Path(<<Comp("@LongLink", 1)>>)]
           f == [g EXCEPT !.size = NumInto(n + 1), !.sum = FALSE]
           e == [f EXCEPT !.flag = AsByte[t], !.sum = FALSE]
<1>1. IsHeader(g) /\ g.format = "gnu"
  BY NewHeaderIsHeader, HeaderKept DEF NewHeader
<1>2. h = [e EXCEPT !.sum = TRUE]
  BY DEF PrepareHeader, SetSize, SetEntryType, SetCksum
<1> HIDE DEF g
<1>3. IsHeader(f) /\ f.format = "gnu" /\ f.size = NumInto(n + 1)
  <2> DEFINE x == [g EXCEPT !.size = NumInto(n + 1)]
             y == NumInto(n + 1)
  <2>1. IsHeader(x) /\ x.format = "gnu" /\ x.size = y
    <3> HIDE DEF y
    <3> QED
      BY <1>1, HeaderKept DEF y
  <2>2. f = [x EXCEPT !.sum = FALSE]
    OBVIOUS
  <2> HIDE DEF x, y, f
  <2>3. IsHeader(f) /\ f.format = "gnu" /\ f.size = y
    BY <2>1, <2>2, HeaderKept
  <2> QED
    BY <2>3 DEF y
<1> HIDE DEF f
<1>4. IsHeader(e) /\ e.format = "gnu" /\ e.size = NumInto(n + 1) /\ e.flag = AsByte[t]
  <2> DEFINE y == AsByte[t]
             x == [f EXCEPT !.flag = y]
             z == NumInto(n + 1)
  <2>0. f.size = z
    BY <1>3
  <2> HIDE DEF y, z
  <2>1. IsHeader(x) /\ x.format = "gnu" /\ x.size = z /\ x.flag = y
    BY <1>3, <2>0, HeaderKept
  <2>2. e = [x EXCEPT !.sum = FALSE]
    BY DEF y
  <2> HIDE DEF x, e
  <2>3. IsHeader(e) /\ e.format = "gnu" /\ e.size = z /\ e.flag = y
    BY <2>1, <2>2, HeaderKept
  <2> QED
    BY <2>3 DEF y, z
<1> HIDE DEF e
<1>5. h.sum = TRUE /\ h.format = "gnu" /\ h.size = NumInto(n + 1) /\ h.flag = AsByte[t]
  <2> DEFINE y == AsByte[t]
             z == NumInto(n + 1)
  <2>1. e.size = z /\ e.flag = y
    BY <1>4
  <2> HIDE DEF y, z
  <2>2. h.sum = TRUE /\ h.format = "gnu" /\ h.size = z /\ h.flag = y
    BY <1>2, <1>4, <2>1, HeaderKept
  <2> QED
    BY <2>2 DEF y, z
<1>6. EntryTypeOf(h) = t
  BY <1>5, TypesComeBack DEF EntryTypeOf
<1>7. EntrySize(h) = n + 1
  <2>1. n + 1 \in Nat
    OBVIOUS
  <2> QED
    BY <1>5, <2>1, SizeComesBack DEF EntrySize
<1>8. MetaKind(h) = IF t = "GNULongName" THEN "name" ELSE "link"
  BY <1>5, <1>6 DEF MetaKind
<1> QED
  BY <1>5, <1>6, <1>7, <1>8

\* fill_from, and the link of a symbolic link.
LEMMA FilledFacts ==
    ASSUME NEW h, IsHeader(h), h.format = "gnu", NEW n \in Nat,
           NEW t \in {"Regular", "Symlink", "Directory"}, NEW g,
           g = SetSize(SetEntryType(h, t), n)
    PROVE  /\ IsHeader(g) /\ EntryTypeOf(g) = t /\ EntrySize(g) = n /\ MetaKind(g) = None
           /\ g.format = h.format /\ g.name = h.name /\ g.prefix = h.prefix /\ g.link = h.link
<1> USE DEF HeaderFields
<1> DEFINE y == AsByte[t]
           z == NumInto(n)
           a == [h EXCEPT !.flag = y]
           b == [a EXCEPT !.sum = FALSE]
           c == [b EXCEPT !.size = z]
<1>1. g = [c EXCEPT !.sum = FALSE]
  BY DEF SetSize, SetEntryType
<1> HIDE DEF y, z
<1>2. /\ IsHeader(a) /\ a.flag = y /\ a.format = h.format /\ a.name = h.name
      /\ a.prefix = h.prefix /\ a.link = h.link
  BY HeaderKept
<1> HIDE DEF a
<1>3. /\ IsHeader(b) /\ b.flag = y /\ b.format = h.format /\ b.name = h.name
      /\ b.prefix = h.prefix /\ b.link = h.link
  BY <1>2, HeaderKept
<1> HIDE DEF b
<1>4. /\ IsHeader(c) /\ c.flag = y /\ c.format = h.format /\ c.name = h.name
      /\ c.prefix = h.prefix /\ c.link = h.link /\ c.size = z
  BY <1>3, HeaderKept
<1> HIDE DEF c
<1>5. /\ IsHeader(g) /\ g.flag = y /\ g.format = h.format /\ g.name = h.name
      /\ g.prefix = h.prefix /\ g.link = h.link /\ g.size = z
  BY <1>1, <1>4, HeaderKept
<1>6. EntryTypeOf(g) = t
  BY <1>5, TypesComeBack DEF EntryTypeOf, y
<1>7. EntrySize(g) = n
  BY <1>5, SizeComesBack DEF EntrySize, z
<1>8. MetaKind(g) = None
  BY <1>5, <1>6 DEF MetaKind
<1> QED
  BY <1>5, <1>6, <1>7, <1>8

-----------------------------------------------------------------------------
(* The invariant of a plain archive that is built and read.                *)

\* What the archive file shows of F, as it is built and when it is closed or cut.
Shown(F) ==
    /\ IsSeq(bytes)
    /\ \A i \in 1..Len(bytes) : bytes[i] = IF i <= Len(F) THEN F[i] ELSE Zero
    /\ step # "closed" => bytes = F
    /\ step = "closed" /\ whole => Len(bytes) = Len(F) + 4

\* The header a request starts from.
StartOf(r) == IF r.how \in {"Regular", "Directory", "Symlink"} THEN NewHeader("gnu") ELSE r.header
PathKept(t, r) ==
    /\ IsMeta(t) /\ t.link = None
    /\ t.pax # None => PaxValue(t.pax, "path") \in {None, r.p}
\* The header in progress is the one to write.
HeaderReady(t) ==
    /\ IsMeta(t)
    /\ hd.sum /\ EntrySize(hd) = req.n /\ EntryTypeOf(hd) # "GNUSparse"
    /\ MetaKind(hd) = None => ~IsPax(req) /\ Titled(t, hd, [path |-> req.p, link |-> req.link])
    /\ MetaKind(hd) # None => IsPax(req) /\ MetaKind(hd) = "pax" /\ t = NoMeta

\* Where the builder is, when t is pending at the end of what it wrote.
Building(t) ==
    /\ step = "idle" /\ todo # <<>> => Ready(t, req)
    /\ step \in {"path", "cut", "link"} => req.how # "raw" /\ PathKept(t, req) /\ Core(hd, StartOf(req))
    /\ step = "path" => hd = StartOf(req) /\ t.name = None
    /\ step = "cut" => t.name = DataCells(req.p, PathLen(req.p) + 1)
    /\ step = "link" => EntryPath([h |-> hd, meta |-> t]) = req.p
    /\ step = "write" => HeaderReady(t)

Unread == step # "closed" => ReaderInit

\* Members whose entry was yielded.
Done == Len(out) + (IF pc = "entry" THEN 1 ELSE 0)
Collects(m, t) == Partly(m, t) /\ (whole /\ ~torn => m = t)
Yields(y, m) ==
    /\ y.at = m.at /\ y.path \in {m.path, y.short} /\ y.size = Len(m.data)
    /\ y.got = m.data \/ next > Len(bytes)
    /\ whole /\ ~torn => y.path = m.path /\ y.link = m.link

AtHeader(T) ==
    /\ acc = <<>>
    /\ \/ pos < next /\ held = <<>>
       \/ pos >= next /\ held = SubSeq(bytes, next + 1, pos) /\ Len(held) = pos - next
    /\ start <= Len(held) /\ (start # 0 => torn)
    /\ Collects(meta, T[next]) \/ next > Len(bytes)
AtMeta(F, T, p) ==
    /\ next = After(F, p) /\ cur.kind = KindAt(F, p) /\ KindAt(F, p) # None
    /\ cur.left \in 0..SizeAt(F, p) /\ pos = p + 2 + SizeAt(F, p) - cur.left
    /\ acc = SubSeq(bytes, p + 3, pos)
    /\ held = <<>> /\ Collects(meta, T[p])
AtEntry(F, T, p) ==
    /\ next = After(F, p) /\ cur.h = HeadAt(F, p) /\ KindAt(F, p) = None
    /\ cur.at = p + 2 /\ members[Done].at = p + 2
    /\ Len(cur.got) <= SizeAt(F, p) /\ pos = p + 2 + Len(cur.got)
    /\ cur.got = SubSeq(bytes, p + 3, pos)
    /\ \/ cur.data = <<Data(SizeAt(F, p) - Len(cur.got))>>
       \/ cur.data = <<>> /\ (Len(cur.got) = SizeAt(F, p) \/ AtEof)
    /\ Collects(cur.meta, T[p]) /\ meta = NoMeta
    /\ held = <<>>

\* The entries that were read are the first members, and the stream is at
\* the next one.
Ordered(F) ==
    /\ next \in Heads(F) \cup {Len(F)}
    /\ Done <= Len(members)
    /\ \A j \in 1..Len(members) : IF j <= Done THEN members[j].at < next + 2 ELSE members[j].at >= next + 2
    /\ \A i \in 1..Len(out) : Yields(out[i], members[i])
    /\ Len(held) <= 2 /\ start \in 0..2
Reading(F, T) ==
    /\ Ordered(F)
    /\ pc \in {"header", "meta", "entry", "ended", "failed", "hung"}
    /\ pc = "header" => AtHeader(T)
    /\ pc = "meta" => \E p \in Heads(F) : AtMeta(F, T, p)
    /\ pc = "entry" => \E p \in Heads(F) : AtEntry(F, T, p)
    /\ pc = "failed" => ~whole \/ torn
    /\ pc = "ended" => next <= Len(bytes) /\ (whole /\ ~torn => Done = Len(members))

Caps == /\ at \in {"next", "copy", "flush", "pad", "done", "failed"}
        /\ Len(pipe.cells) <= PipeCap

Archive(F, T) == Chain(F, T, members) /\ Shown(F) /\ Reading(F, T)

\* Two parts that meet.
LEMMA JoinParts ==
    ASSUME NEW s, IsSeq(s), NEW m \in Nat, NEW k \in Nat, NEW n \in Nat,
           m <= k, k <= n, n <= Len(s)
    PROVE  SubSeq(s, m + 1, k) \o SubSeq(s, k + 1, n) = SubSeq(s, m + 1, n)
<1> DEFINE a == SubSeq(s, m + 1, k)
           b == SubSeq(s, k + 1, n)
           c == SubSeq(s, m + 1, n)
<1>1. Len(s) \in Nat
  BY SeqFacts
<1>2. IsSeq(a) /\ Len(a) = k - m /\ \A i \in 1..k - m : a[i] = s[m + i]
  <2>1. /\ IsSeq(SubSeq(s, m + 1, k)) /\ Len(SubSeq(s, m + 1, k)) = k - (m + 1) + 1
        /\ \A i \in 1..k - (m + 1) + 1 : SubSeq(s, m + 1, k)[i] = s[(m + 1) + i - 1]
    BY <1>1, PartFacts, SMTT(60)
  <2>2. k - (m + 1) + 1 = k - m /\ \A i \in 1..k - m : (m + 1) + i - 1 = m + i
    OBVIOUS
  <2> HIDE DEF a
  <2> QED
    BY <2>1, <2>2 DEF a
<1>3. IsSeq(b) /\ Len(b) = n - k /\ \A i \in 1..n - k : b[i] = s[k + i]
  <2>1. /\ IsSeq(SubSeq(s, k + 1, n)) /\ Len(SubSeq(s, k + 1, n)) = n - (k + 1) + 1
        /\ \A i \in 1..n - (k + 1) + 1 : SubSeq(s, k + 1, n)[i] = s[(k + 1) + i - 1]
    BY <1>1, PartFacts
  <2>2. n - (k + 1) + 1 = n - k /\ \A i \in 1..n - k : (k + 1) + i - 1 = k + i
    OBVIOUS
  <2> HIDE DEF b
  <2> QED
    BY <2>1, <2>2 DEF b
<1>4. IsSeq(c) /\ Len(c) = n - m /\ \A i \in 1..n - m : c[i] = s[m + i]
  <2>1. /\ IsSeq(SubSeq(s, m + 1, n)) /\ Len(SubSeq(s, m + 1, n)) = n - (m + 1) + 1
        /\ \A i \in 1..n - (m + 1) + 1 : SubSeq(s, m + 1, n)[i] = s[(m + 1) + i - 1]
    BY <1>1, PartFacts, SMTT(60)
  <2>2. n - (m + 1) + 1 = n - m /\ \A i \in 1..n - m : (m + 1) + i - 1 = m + i
    OBVIOUS
  <2> HIDE DEF c
  <2> QED
    BY <2>1, <2>2 DEF c
<1> HIDE DEF a, b, c
<1>5. /\ IsSeq(a \o b) /\ Len(a \o b) = Len(a) + Len(b)
      /\ \A i \in 1..Len(a) : (a \o b)[i] = a[i]
      /\ \A i \in 1..Len(b) : (a \o b)[Len(a) + i] = b[i]
  BY <1>2, <1>3, JoinFacts
<1>6. ASSUME NEW i \in 1..n - m PROVE (a \o b)[i] = c[i]
  <2>1. CASE i <= k - m
    BY <1>2, <1>4, <1>5, <2>1
  <2>2. CASE i > k - m
    <3> DEFINE j == i - (k - m)
    <3>1. j \in 1..n - k /\ (k - m) + j = i /\ k + j = m + i
      BY <2>2
    <3> HIDE DEF j
    <3>2. b[j] = s[k + j]
      BY <1>3, <3>1
    <3>3. (a \o b)[Len(a) + j] = b[j]
      BY <1>3, <1>5, <3>1
    <3>4. c[i] = s[m + i]
      BY <1>4
    <3> QED
      BY <1>2, <3>1, <3>2, <3>3, <3>4
  <2>3. i <= k - m \/ i > k - m
    OBVIOUS
  <2> QED
    BY <2>1, <2>2, <2>3, Zenon
<1>7. Len(a \o b) = n - m
  BY <1>2, <1>3, <1>5
<1>8. a \o b = c
  BY <1>4, <1>5, <1>6, <1>7, SameSeq
<1> QED
  BY <1>8 DEF a, b, c

\* Where the stream is.
LEMMA ArchiveFacts ==
    ASSUME NEW F, NEW T, Source, Archive(F, T)
    PROVE  /\ IsSeq(bytes) /\ Len(bytes) \in Nat /\ IsSeq(F) /\ Len(F) \in Nat
           /\ pos \in Nat /\ pos <= Len(bytes) /\ next \in Nat /\ next <= Len(F)
           /\ next \in Heads(F) \cup {Len(F)} /\ IsSeq(members) /\ Len(members) \in Nat
           /\ step = "closed" /\ whole => Len(bytes) = Len(F) + 4
<1>1. IsSeq(bytes) /\ IsSeq(F) /\ IsSeq(members) /\ next \in Heads(F) \cup {Len(F)}
  BY DEF Source, Archive, Chain, Reading, Ordered
<1>2. Len(bytes) \in Nat /\ Len(F) \in Nat /\ Len(members) \in Nat
  BY <1>1, SeqFacts
<1>3. next \in Nat /\ next <= Len(F)
  BY <1>1, <1>2 DEF Heads
<1>4. step = "closed" /\ whole => Len(bytes) = Len(F) + 4
  BY DEF Archive, Shown
<1>5. pos \in Nat /\ pos <= Len(bytes)
  BY <1>2 DEF Source
<1> QED
  BY <1>1, <1>2, <1>3, <1>4, <1>5

\* A member of the archive.
LEMMA HeadFacts ==
    ASSUME NEW F, NEW T, NEW M, Chain(F, T, M), NEW p \in Heads(F)
    PROVE  /\ p \in Nat /\ Len(F) \in Nat /\ p < Len(F)
           /\ SizeAt(F, p) \in Nat /\ After(F, p) \in Nat
           /\ p + 2 + SizeAt(F, p) <= After(F, p) /\ After(F, p) <= Len(F)
           /\ p + 2 <= Len(F) /\ p < After(F, p)
           /\ After(F, p) \in Heads(F) \cup {Len(F)}
           /\ IsSeq(Body(F, p)) /\ Len(Body(F, p)) = SizeAt(F, p)
           /\ F[p + 1].k = "head" /\ F[p + 1].h = HeadAt(F, p)
           /\ F[p + 2] = [k |-> "tail", h |-> HeadAt(F, p)]
           /\ HeadAt(F, p).sum /\ EntryTypeOf(HeadAt(F, p)) # "GNUSparse"
           /\ EntrySize(HeadAt(F, p)) = SizeAt(F, p)
           /\ \A q \in Heads(F) : q > p => q >= After(F, p)
           /\ KindAt(F, p) = None => OfMember(F, T, M, p)
           /\ KindAt(F, p) # None => OfMeta(F, T, p)
           /\ IsMeta(T[p])
<1>1. /\ IsSeq(F) /\ Placed(F, p) /\ IsMeta(T[p])
      /\ IF KindAt(F, p) = None THEN OfMember(F, T, M, p) ELSE OfMeta(F, T, p)
  BY DEF Chain
<1>2. /\ p \in Nat /\ Len(F) \in Nat /\ p < Len(F)
      /\ SizeAt(F, p) \in Nat /\ After(F, p) \in Nat
      /\ p + 2 + SizeAt(F, p) <= After(F, p) /\ After(F, p) <= Len(F)
      /\ p + 2 <= Len(F) /\ p < After(F, p)
      /\ After(F, p) \in Heads(F) \cup {Len(F)}
      /\ IsSeq(Body(F, p)) /\ Len(Body(F, p)) = SizeAt(F, p)
  BY <1>1, PlacedFacts
<1>3. /\ F[p + 2] = [k |-> "tail", h |-> HeadAt(F, p)]
      /\ HeadAt(F, p).sum /\ EntryTypeOf(HeadAt(F, p)) # "GNUSparse"
      /\ \A q \in Heads(F) : q > p => q >= After(F, p)
  BY <1>1 DEF Placed
<1>4. F[p + 1].k = "head" /\ F[p + 1].h = HeadAt(F, p) /\ EntrySize(HeadAt(F, p)) = SizeAt(F, p)
  BY DEF Heads, HeadAt, SizeAt
<1> QED
  BY <1>1, <1>2, <1>3, <1>4

\* The order of the entries, when no entry is begun or finished.
LEMMA StillOrdered ==
    ASSUME NEW F, Ordered(F), UNCHANGED <<next, out, bytes, members, whole>>,
           pc' = "entry" <=> pc = "entry", torn => torn', Len(held') <= 2, start' \in 0..2
    PROVE  Ordered(F)' /\ Done' = Done
<1>1. Done' = Done
  BY DEF Done
<1>2. ASSUME NEW i \in 1..Len(out) PROVE Yields(out[i], members[i])'
  <2>1. Yields(out[i], members[i])
    BY <1>2 DEF Ordered
  <2> QED
    BY <2>1 DEF Yields
<1> QED
  BY <1>1, <1>2 DEF Ordered

\* The steps of a poll between members.
LEMMA SkipStep ==
    ASSUME NEW F, NEW T, Source, Archive(F, T), step = "closed", UNCHANGED builderVars,
           NEW n, Skip(n)
    PROVE  Reading(F, T)'
<1>1. /\ IsSeq(bytes) /\ Len(bytes) \in Nat /\ pos \in Nat /\ next \in Nat
      /\ UNCHANGED <<bytes, members, whole>>
  BY ArchiveFacts DEF builderVars
<1>2. /\ pc = "header" /\ pos < next /\ n \in 1..(Len(bytes) - pos) /\ n <= next - pos
      /\ pos' = pos + n
      /\ UNCHANGED <<next, held, start, meta, pc, acc, cur, out, torn>>
  BY DEF Skip, Available
<1>3. Ordered(F) /\ AtHeader(T)
  BY <1>2 DEF Archive, Reading
<1>4. held = <<>>
  BY <1>1, <1>2, <1>3 DEF AtHeader
<1>5. pos + n >= next => held = SubSeq(bytes, next + 1, pos + n) /\ Len(held) = (pos + n) - next
  <2> SUFFICES ASSUME pos + n >= next
               PROVE  held = SubSeq(bytes, next + 1, pos + n) /\ Len(held) = (pos + n) - next
    OBVIOUS
  <2>1. pos + n = next /\ next \in 0..Len(bytes)
    BY <1>1, <1>2
  <2>2. SubSeq(bytes, next + 1, next) = <<>>
    BY <1>1, <2>1, EmptyPart
  <2>3. Len(held) = 0
    BY <1>4, EmptyIsSeq
  <2> QED
    BY <1>1, <1>4, <2>1, <2>2, <2>3
<1>6. AtHeader(T)'
  <2>1. pos + n < next \/ pos + n >= next
    BY <1>1, <1>2
  <2> QED
    BY <1>1, <1>2, <1>3, <1>4, <1>5, <2>1 DEF AtHeader, Collects
<1>7. Ordered(F)'
  BY <1>1, <1>2, <1>3, StillOrdered DEF Ordered
<1> QED
  BY <1>2, <1>6, <1>7 DEF Reading

LEMMA ReadHeaderStep ==
    ASSUME NEW F, NEW T, Source, Archive(F, T), step = "closed", UNCHANGED builderVars,
           NEW n, ReadHeader(n)
    PROVE  Reading(F, T)'
<1>1. /\ IsSeq(bytes) /\ Len(bytes) \in Nat /\ pos \in Nat /\ next \in Nat
      /\ UNCHANGED <<bytes, members, whole>>
  BY ArchiveFacts DEF builderVars
<1>2. /\ pc = "header" /\ pos >= next /\ n \in 1..(Len(bytes) - pos) /\ n <= 2 - Len(held)
      /\ held' = held \o SubSeq(bytes, pos + 1, pos + n) /\ pos' = pos + n
      /\ UNCHANGED <<next, start, meta, pc, acc, cur, out, torn>>
  BY DEF ReadHeader, Available, Chunk, Block
<1>3. Ordered(F) /\ AtHeader(T)
  BY <1>2 DEF Archive, Reading
<1>4. held = SubSeq(bytes, next + 1, pos) /\ Len(held) = pos - next
  BY <1>1, <1>2, <1>3 DEF AtHeader
<1>5. held' = SubSeq(bytes, next + 1, pos + n)
  <2>1. n \in Nat /\ pos + n \in Nat /\ next <= pos /\ pos <= pos + n /\ pos + n <= Len(bytes)
    BY <1>1, <1>2
  <2> QED
    BY <1>1, <1>2, <1>4, <2>1, JoinParts
<1>6. Len(held') = (pos + n) - next
  <2>1. /\ next + 1 \in Nat /\ pos + n \in Nat /\ 1 <= next + 1 /\ next + 1 <= pos + n + 1
        /\ pos + n <= Len(bytes) /\ (pos + n) - (next + 1) + 1 = (pos + n) - next
    BY <1>1, <1>2
  <2>2. Len(SubSeq(bytes, next + 1, pos + n)) = (pos + n) - (next + 1) + 1
    BY <1>1, <2>1, PartFacts
  <2> QED
    BY <1>5, <2>1, <2>2
<1>7. AtHeader(T)'
  <2>1. start <= Len(held) /\ (start # 0 => torn) /\ acc = <<>>
        /\ (Collects(meta, T[next]) \/ next > Len(bytes))
    BY <1>3 DEF AtHeader
  <2>2. start \in 0..2
    BY <1>3 DEF Ordered
  <2>3. start' <= Len(held') /\ pos' >= next'
    BY <1>1, <1>2, <1>4, <1>6, <2>1, <2>2
  <2> QED
    BY <1>1, <1>2, <1>5, <1>6, <2>1, <2>3 DEF AtHeader, Collects
<1>8. Ordered(F)'
  <2>1. Len(held') <= 2
    BY <1>1, <1>2, <1>4, <1>6
  <2> QED
    BY <1>1, <1>2, <1>3, <2>1, StillOrdered DEF Ordered
<1> QED
  BY <1>2, <1>7, <1>8 DEF Reading

LEMMA HeaderSuspends ==
    ASSUME NEW F, NEW T, Source, Archive(F, T), step = "closed", UNCHANGED builderVars,
           Suspend, pc = "header"
    PROVE  Reading(F, T)'
<1>1. UNCHANGED <<bytes, members, whole>>
  BY DEF builderVars
<1>2. /\ torn' = (torn \/ held # <<>> \/ pc # "header")
      /\ UNCHANGED <<pos, next, held, meta, out>>
      /\ pc' = "header" /\ start' = Len(held) /\ acc' = <<>>
  BY DEF Suspend, Repoll
<1>3. Ordered(F) /\ AtHeader(T) /\ IsSeq(held)
  BY DEF Archive, Reading, Source
<1>4. Len(held) \in Nat /\ Len(held) <= 2 /\ (Len(held) = 0 => held = <<>>)
  BY <1>3, SeqFacts, JoinEmpty DEF Ordered
<1>5. (torn => torn') /\ (start' # 0 => torn')
  BY <1>2, EmptyIsSeq
<1>6. AtHeader(T)'
  BY <1>1, <1>2, <1>3, <1>4, <1>5 DEF AtHeader, Collects
<1>7. Ordered(F)'
  BY <1>1, <1>2, <1>3, <1>4, <1>5, StillOrdered
<1> QED
  BY <1>2, <1>6, <1>7 DEF Reading

\* The stream ends.
LEMMA EofStep ==
    ASSUME NEW F, NEW T, Source, Archive(F, T), step = "closed", UNCHANGED builderVars,
           SkipEof \/ HeaderEof
    PROVE  Reading(F, T)'
<1>1. /\ IsSeq(bytes) /\ Len(bytes) \in Nat /\ pos \in Nat /\ next \in Nat /\ Len(F) \in Nat
      /\ next <= Len(F) /\ (whole => Len(bytes) = Len(F) + 4)
      /\ UNCHANGED <<bytes, members, whole>>
  BY ArchiveFacts DEF builderVars
<1>2. /\ pc = "header" /\ pos = Len(bytes) /\ pc' \in {"failed", "ended", "hung"}
      /\ UNCHANGED <<pos, next, held, start, meta, acc, cur, out, torn>>
  BY DEF SkipEof, HeaderEof, Fail, AtEof
<1>3. Ordered(F) /\ AtHeader(T)
  BY <1>2 DEF Archive, Reading
<1>4. pos < next \/ Len(held) < 2
  BY DEF SkipEof, HeaderEof, Block
<1>5. ~whole
  BY <1>1, <1>2, <1>3, <1>4 DEF AtHeader
<1>6. pc' = "ended" => next <= Len(bytes)
  <2> SUFFICES ASSUME pc' = "ended" PROVE next <= Len(bytes)
    OBVIOUS
  <2>1. pos >= next
    BY DEF SkipEof, HeaderEof, Fail
  <2> QED
    BY <1>1, <1>2, <2>1
<1>7. Ordered(F)'
  BY <1>1, <1>2, <1>3, StillOrdered DEF Ordered
<1> QED
  BY <1>1, <1>2, <1>5, <1>6, <1>7 DEF Reading

\* A header that is read as far as its end.
LEMMA HeldFacts ==
    ASSUME NEW F, NEW T, Source, Archive(F, T), pc = "header", Len(held) = 2
    PROVE  /\ pos = next + 2 /\ next + 2 <= Len(bytes)
           /\ next = Len(F) => held[1] = Zero /\ held[2] = Zero
           /\ next \in Heads(F) => /\ held[1].k = "head" /\ held[1].h = HeadAt(F, next)
                                   /\ held[2] = [k |-> "tail", h |-> HeadAt(F, next)]
           /\ Collects(meta, T[next]) /\ acc = <<>> /\ start \in 0..2 /\ (start # 0 => torn)
<1>1. /\ IsSeq(bytes) /\ Len(bytes) \in Nat /\ pos \in Nat /\ next \in Nat /\ Len(F) \in Nat
      /\ pos <= Len(bytes) /\ Ordered(F) /\ AtHeader(T)
  BY ArchiveFacts DEF Archive, Reading
<1>2. pos >= next /\ held = SubSeq(bytes, next + 1, pos) /\ Len(held) = pos - next
  <2>1. held # <<>>
    BY EmptyIsSeq
  <2> QED
    BY <1>1, <2>1 DEF AtHeader
<1>3. pos = next + 2 /\ next + 2 <= Len(bytes)
  BY <1>1, <1>2
<1>4. held[1] = bytes[next + 1] /\ held[2] = bytes[next + 2]
  <2>1. /\ next + 1 \in Nat /\ next + 2 \in Nat /\ 1 <= next + 1 /\ next + 1 <= (next + 2) + 1
        /\ (next + 2) - (next + 1) + 1 = 2 /\ (next + 1) + 1 - 1 = next + 1
        /\ (next + 1) + 2 - 1 = next + 2
    BY <1>1
  <2>2. \A i \in 1..(next + 2) - (next + 1) + 1 :
           SubSeq(bytes, next + 1, next + 2)[i] = bytes[(next + 1) + i - 1]
    BY <1>1, <1>3, <2>1, PartFacts
  <2>3. 1 \in 1..2 /\ 2 \in 1..2
    OBVIOUS
  <2> QED
    BY <1>2, <1>3, <2>1, <2>2, <2>3
<1>5. \A i \in 1..Len(bytes) : bytes[i] = IF i <= Len(F) THEN F[i] ELSE Zero
  BY DEF Archive, Shown
<1>6. next = Len(F) => held[1] = Zero /\ held[2] = Zero
  BY <1>1, <1>3, <1>4, <1>5
<1>7. ASSUME next \in Heads(F)
      PROVE  /\ held[1].k = "head" /\ held[1].h = HeadAt(F, next)
             /\ held[2] = [k |-> "tail", h |-> HeadAt(F, next)]
  <2>1. /\ next + 2 <= Len(F) /\ F[next + 1].k = "head" /\ F[next + 1].h = HeadAt(F, next)
        /\ F[next + 2] = [k |-> "tail", h |-> HeadAt(F, next)]
    BY <1>7, HeadFacts DEF Archive
  <2>2. bytes[next + 1] = F[next + 1] /\ bytes[next + 2] = F[next + 2]
    BY <1>1, <1>3, <1>5, <2>1
  <2> QED
    BY <1>4, <2>1, <2>2
<1>8. Collects(meta, T[next]) /\ acc = <<>> /\ start \in 0..2 /\ (start # 0 => torn)
  BY <1>1, <1>3 DEF AtHeader, Ordered
<1> QED
  BY <1>3, <1>6, <1>7, <1>8

LEMMA ZerosEndStep ==
    ASSUME NEW F, NEW T, Source, AppenderTypes, Archive(F, T), step = "closed",
           UNCHANGED builderVars, ZerosEnd
    PROVE  Reading(F, T)'
<1>1. /\ Len(bytes) \in Nat /\ next \in Nat /\ Len(F) \in Nat /\ Len(members) \in Nat
      /\ next \in Heads(F) \cup {Len(F)} /\ UNCHANGED <<bytes, members, whole>>
  BY ArchiveFacts DEF builderVars
<1>2. /\ pc = "header" /\ Len(held) = 2 /\ ReadZeros /\ pc' = "ended"
      /\ UNCHANGED <<pos, next, held, start, meta, acc, cur, out, torn>>
  BY DEF ZerosEnd, Block
<1>3. /\ pos = next + 2 /\ next + 2 <= Len(bytes)
      /\ next \in Heads(F) => held[1].k = "head"
      /\ start \in 0..2 /\ (start # 0 => torn)
  BY <1>2, HeldFacts
<1>4. Ordered(F)
  BY DEF Archive, Reading
<1>5. ~torn => Done = Len(members)
  <2> SUFFICES ASSUME ~torn PROVE Done = Len(members)
    OBVIOUS
  <2>1. CellIsZero(held[1])
    <3>1. 1 \in start + 1..2
      BY <1>3
    <3> QED
      BY <1>2, <3>1 DEF ReadZeros, Block
  <2>2. held[1].k \in {"zero", "tail"}
    BY <2>1 DEF CellIsZero, Zero
  <2>3. next = Len(F)
    BY <1>1, <1>3, <2>2
  <2>4. \A j \in 1..Len(members) : members[j].at < next + 2
    <3> SUFFICES ASSUME NEW j \in 1..Len(members) PROVE members[j].at < next + 2
      OBVIOUS
    <3>1. PICK p \in Heads(F) : members[j].at = p + 2
      BY DEF Archive, Chain
    <3>2. p \in Nat /\ p < Len(F)
      BY <1>1 DEF Heads
    <3> QED
      BY <1>1, <2>3, <3>1, <3>2
  <2>5. \A j \in 1..Len(members) : members[j].at \in Nat
    <3> SUFFICES ASSUME NEW j \in 1..Len(members) PROVE members[j].at \in Nat
      OBVIOUS
    <3>1. PICK p \in Heads(F) : members[j].at = p + 2
      BY DEF Archive, Chain
    <3> QED
      BY <1>1, <3>1 DEF Heads
  <2>6. Done <= Len(members) /\ Done \in Nat
    <3>1. Len(out) \in Nat /\ Done = Len(out)
      BY <1>2, SeqFacts DEF Done, AppenderTypes
    <3> QED
      BY <1>4, <3>1 DEF Ordered
  <2>7. ASSUME Done < Len(members) PROVE FALSE
    <3>1. Len(members) \in 1..Len(members) /\ ~(Len(members) <= Done)
      BY <1>1, <2>6, <2>7
    <3>2. members[Len(members)].at >= next + 2
      BY <1>4, <3>1 DEF Ordered
    <3> QED
      BY <1>1, <2>4, <2>5, <3>1, <3>2
  <2> QED
    BY <1>1, <2>6, <2>7
<1>6. Ordered(F)' /\ Done' = Done
  BY <1>1, <1>2, <1>3, <1>4, StillOrdered DEF Ordered
<1>7. next <= Len(bytes)
  BY <1>1, <1>3
<1> QED
  BY <1>1, <1>2, <1>5, <1>6, <1>7 DEF Reading

\* A header with a right checksum is that of the next member.
LEMMA ParsedFacts ==
    ASSUME NEW F, NEW T, Source, Archive(F, T), pc = "header", Len(held) = 2, ~ReadZeros
    PROVE  next \in Heads(F) /\ ChecksumOk
<1>1. /\ next \in Heads(F) \cup {Len(F)}
      /\ next = Len(F) => held[1] = Zero /\ held[2] = Zero
      /\ next \in Heads(F) => /\ held[1].k = "head" /\ held[1].h = HeadAt(F, next)
                              /\ held[2] = [k |-> "tail", h |-> HeadAt(F, next)]
      /\ start \in 0..2
  BY HeldFacts, ArchiveFacts
<1>2. next # Len(F)
  <2> SUFFICES ASSUME next = Len(F) PROVE ReadZeros
    OBVIOUS
  <2>1. CellIsZero(held[1]) /\ CellIsZero(held[2])
    BY <1>1 DEF CellIsZero
  <2>2. \A i \in start + 1..2 : i = 1 \/ i = 2
    BY <1>1
  <2> QED
    BY <2>1, <2>2 DEF ReadZeros, Block
<1>3. next \in Heads(F)
  BY <1>1, <1>2
<1>4. HeadAt(F, next).sum
  BY <1>3, HeadFacts DEF Archive
<1>5. held[2].k = "tail" /\ held[2].h = HeadAt(F, next)
  BY <1>1, <1>3
<1> QED
  BY <1>1, <1>3, <1>4, <1>5 DEF ChecksumOk

LEMMA ParseStep ==
    ASSUME NEW F, NEW T, Source, AppenderTypes, Archive(F, T), step = "closed",
           UNCHANGED builderVars, ParseHeader
    PROVE  Reading(F, T)'
<1>1. /\ Len(bytes) \in Nat /\ next \in Nat /\ Len(F) \in Nat /\ Len(members) \in Nat
      /\ UNCHANGED <<bytes, members, whole>>
  BY ArchiveFacts DEF builderVars
<1>2. /\ pc = "header" /\ Len(held) = 2 /\ ~ReadZeros
      /\ UNCHANGED <<pos, start, acc, out, torn>>
  BY DEF ParseHeader, Block
<1>3. PICK p \in Heads(F) : p = next
  BY <1>2, ParsedFacts
<1> DEFINE h == HeadAt(F, p)
<1>4. /\ pos = next + 2 /\ next + 2 <= Len(bytes) /\ held[1].h = h
      /\ Collects(meta, T[next]) /\ acc = <<>> /\ start \in 0..2
  BY <1>2, <1>3, HeldFacts
<1>5. /\ SizeAt(F, p) \in Nat /\ After(F, p) \in Nat /\ p < After(F, p)
      /\ p + 2 + SizeAt(F, p) <= After(F, p)
      /\ After(F, p) \in Heads(F) \cup {Len(F)}
      /\ EntryTypeOf(h) # "GNUSparse" /\ EntrySize(h) = SizeAt(F, p)
      /\ \A q \in Heads(F) : q > p => q >= After(F, p)
      /\ KindAt(F, p) = None => OfMember(F, T, members, p)
      /\ KindAt(F, p) # None => OfMeta(F, T, p)
  BY <1>3, HeadFacts DEF Archive
<1>6. held' = <<>> /\ next' = After(F, p) /\ MetaKind(h) = KindAt(F, p)
  <2>1. held' = <<>> /\ next' = next + Block + RoundUp(EntrySize(held[1].h))
    BY DEF ParseHeader
  <2> QED
    BY <1>3, <1>4, <1>5, <2>1 DEF After, Block, KindAt
<1>7. Len(held') <= 2 /\ start' \in 0..2
  BY <1>2, <1>4, <1>6, EmptyIsSeq
<1>8. Ordered(F) /\ Len(out) \in Nat /\ Done = Len(out)
  BY <1>2, SeqFacts DEF Archive, Reading, Done, AppenderTypes
<1>9. \A i \in 1..Len(out) : Yields(out[i], members[i])'
  <2> SUFFICES ASSUME NEW i \in 1..Len(out) PROVE Yields(out[i], members[i])'
    OBVIOUS
  <2>1. Yields(out[i], members[i])
    BY <1>3, <1>8 DEF Ordered
  <2>2. next <= next' /\ next' \in Nat
    BY <1>1, <1>3, <1>5, <1>6
  <2> QED
    BY <1>1, <1>2, <2>1, <2>2 DEF Yields
<1>10. \A j \in 1..Len(members) : \E q \in Heads(F) : members[j].at = q + 2 /\ KindAt(F, q) = None
  BY DEF Archive, Chain
<1>11. \A q \in Heads(F) : q \in Nat
  BY <1>1 DEF Heads
<1>12. CASE KindAt(F, p) # None
  <2>1. OfMeta(F, T, p)
    BY <1>5, <1>12
  <2>2. meta[KindAt(F, p)] = None
    BY <1>3, <1>4, <2>1 DEF OfMeta, Collects, Partly
  <2>3. /\ pc' = "meta" /\ meta' = meta
        /\ cur' = [NoEntry EXCEPT !.kind = KindAt(F, p), !.left = SizeAt(F, p)]
    BY <1>3, <1>4, <1>5, <1>6, <1>12, <2>2 DEF ParseHeader
  <2>4. cur'.kind = KindAt(F, p) /\ cur'.left = SizeAt(F, p)
    BY <2>3 DEF NoEntry
  <2>5. acc' = SubSeq(bytes', p + 3, pos')
    <3>1. SubSeq(bytes, (p + 2) + 1, p + 2) = <<>>
      BY <1>1, <1>3, <1>4, ArchiveFacts, EmptyPart
    <3>2. (p + 2) + 1 = p + 3
      BY <1>1, <1>3
    <3> QED
      BY <1>1, <1>2, <1>3, <1>4, <3>1, <3>2
  <2>6. Collects(meta, T[p])'
    BY <1>1, <1>2, <1>3, <1>4, <2>3 DEF Collects
  <2>7. pos' = p + 2 + SizeAt(F, p) - cur'.left /\ cur'.left \in 0..SizeAt(F, p)
    BY <1>1, <1>2, <1>3, <1>4, <1>5, <2>4
  <2>8. AtMeta(F, T, p)'
    BY <1>6, <1>12, <2>4, <2>5, <2>6, <2>7 DEF AtMeta
  <2>9. Done' = Done
    BY <1>2, <2>3 DEF Done
  <2>10. \A j \in 1..Len(members') :
            IF j <= Done' THEN members'[j].at < next' + 2 ELSE members'[j].at >= next' + 2
    <3> SUFFICES ASSUME NEW j \in 1..Len(members)
                 PROVE  IF j <= Done THEN members[j].at < After(F, p) + 2
                                     ELSE members[j].at >= After(F, p) + 2
      BY <1>1, <1>6, <2>9
    <3>1. PICK q \in Heads(F) : members[j].at = q + 2 /\ KindAt(F, q) = None
      BY <1>10
    <3>2. q # p /\ (q > p => q >= After(F, p)) /\ q \in Nat
      BY <1>5, <1>11, <1>12, <3>1
    <3>3. IF j <= Done THEN members[j].at < p + 2 ELSE members[j].at >= p + 2
      BY <1>3, <1>8 DEF Ordered
    <3>4. p \in Nat /\ After(F, p) \in Nat /\ p < After(F, p)
      BY <1>1, <1>3, <1>5
    <3> QED
      BY <3>1, <3>2, <3>3, <3>4
  <2>11. Ordered(F)'
    <3>1. next' \in Heads(F) \cup {Len(F)} /\ Done' <= Len(members')
      BY <1>1, <1>5, <1>6, <1>8, <2>9 DEF Ordered
    <3>2. out' = out
      BY <1>2
    <3> QED
      BY <1>7, <1>9, <2>10, <3>1, <3>2 DEF Ordered
  <2> QED
    BY <2>3, <2>8, <2>11 DEF Reading
<1>13. CASE KindAt(F, p) = None
  <2>1. OfMember(F, T, members, p)
    BY <1>5, <1>13
  <2>2. PICK j \in 1..Len(members) : members[j].at = p + 2
    BY <2>1 DEF OfMember
  <2>3. \A i, k \in 1..Len(members) : i < k => members[i].at < members[k].at
    BY DEF Archive, Chain
  <2>4. \A i \in 1..Len(members) : IF i <= Done THEN members[i].at < p + 2 ELSE members[i].at >= p + 2
    BY <1>3, <1>8 DEF Ordered
  <2>5. j = Done + 1
    <3>1. ~(j <= Done)
      BY <1>1, <1>3, <2>2, <2>4
    <3>2. ASSUME j > Done + 1 PROVE FALSE
      <4>1. Done + 1 \in 1..Len(members) /\ Done + 1 < j /\ ~(Done + 1 <= Done)
        BY <1>1, <1>8, <3>2
      <4>2. members[Done + 1].at < p + 2 /\ members[Done + 1].at >= p + 2
        BY <2>2, <2>3, <2>4, <4>1
      <4>3. PICK q \in Heads(F) : members[Done + 1].at = q + 2
        BY <1>10, <4>1
      <4> QED
        BY <1>1, <1>11, <4>2, <4>3
    <3> QED
      BY <1>8, <3>1, <3>2
  <2>6. /\ pc' = "entry" /\ meta' = NoMeta
        /\ cur' = [NoEntry EXCEPT !.h = h, !.at = p + 2, !.meta = meta, !.left = SizeAt(F, p),
                                  !.data = <<Data(SizeAt(F, p))>>]
    BY <1>3, <1>4, <1>5, <1>6, <1>13 DEF ParseHeader, Block
  <2>7. /\ cur'.h = h /\ cur'.at = p + 2 /\ cur'.meta = meta /\ cur'.got = <<>>
        /\ cur'.data = <<Data(SizeAt(F, p))>>
    BY <2>6 DEF NoEntry
  <2>8. Done' = Done + 1
    BY <1>2, <1>8, <2>6 DEF Done
  <2>9. SubSeq(bytes, p + 3, p + 2) = <<>>
    <3>1. SubSeq(bytes, (p + 2) + 1, p + 2) = <<>>
      BY <1>1, <1>3, <1>4, ArchiveFacts, EmptyPart
    <3>2. (p + 2) + 1 = p + 3
      BY <1>1, <1>3
    <3> QED
      BY <3>1, <3>2
  <2>10. Len(cur'.got) = 0
    BY <2>7, EmptyIsSeq
  <2>11. /\ Len(cur'.got) <= SizeAt(F, p) /\ pos' = p + 2 + Len(cur'.got)
         /\ cur'.got = SubSeq(bytes', p + 3, pos')
         /\ cur'.data = <<Data(SizeAt(F, p) - Len(cur'.got))>>
    <3>1. pos' = p + 2 + 0 /\ SizeAt(F, p) - 0 = SizeAt(F, p) /\ pos' = p + 2
      BY <1>1, <1>2, <1>3, <1>4, <1>5
    <3> QED
      BY <1>1, <1>3, <1>5, <2>7, <2>9, <2>10, <3>1
  <2>12. Partly(cur'.meta, T[p]) /\ (whole' /\ ~torn' => cur'.meta = T[p])
    BY <1>1, <1>2, <1>3, <1>4, <2>7 DEF Collects
  <2>13. members'[Done'].at = p + 2
    BY <1>1, <2>2, <2>5, <2>8
  <2>14. next' = After(F, p) /\ cur'.h = HeadAt(F, p) /\ cur'.at = p + 2 /\ meta' = NoMeta /\ held' = <<>>
    BY <1>6, <2>6, <2>7
  <2> HIDE DEF h
  <2>15. AtEntry(F, T, p)'
    BY <1>13, <2>11, <2>12, <2>13, <2>14 DEF AtEntry, Collects
  <2>16. \A i \in 1..Len(members') :
            IF i <= Done' THEN members'[i].at < next' + 2 ELSE members'[i].at >= next' + 2
    <3> SUFFICES ASSUME NEW i \in 1..Len(members)
                 PROVE  IF i <= Done + 1 THEN members[i].at < After(F, p) + 2
                                         ELSE members[i].at >= After(F, p) + 2
      BY <1>1, <1>6, <2>8
    <3>1. PICK q \in Heads(F) : members[i].at = q + 2
      BY <1>10
    <3>2. (q > p => q >= After(F, p)) /\ q \in Nat
      BY <1>5, <1>11
    <3>3. p \in Nat /\ After(F, p) \in Nat /\ p < After(F, p)
      BY <1>1, <1>3, <1>5
    <3>4. CASE i <= Done
      <4>1. members[i].at < p + 2
        BY <2>4, <3>4
      <4> QED
        BY <1>8, <3>1, <3>2, <3>3, <3>4, <4>1
    <3>5. CASE i = Done + 1
      <4>1. members[i].at = p + 2
        BY <2>2, <2>5, <3>5
      <4> QED
        BY <3>3, <3>5, <4>1
    <3>6. CASE i > Done + 1
      <4>1. members[j].at < members[i].at
        BY <2>3, <2>5, <3>6
      <4>2. q > p
        BY <2>2, <3>1, <3>2, <3>3, <4>1
      <4> QED
        BY <1>8, <3>1, <3>2, <3>3, <3>6, <4>2
    <3> QED
      BY <1>8, <3>4, <3>5, <3>6
  <2>17. Ordered(F)'
    <3>1. next' \in Heads(F) \cup {Len(F)} /\ Done' <= Len(members')
      BY <1>1, <1>5, <1>6, <2>5, <2>8
    <3>2. out' = out
      BY <1>2
    <3> QED
      BY <1>7, <1>9, <2>16, <3>1, <3>2 DEF Ordered
  <2> QED
    BY <2>6, <2>15, <2>17 DEF Reading
<1> QED
  BY <1>12, <1>13

\* What is read of a member's data is its data.
LEMMA BodyShown ==
    ASSUME NEW F, NEW T, Archive(F, T), IsSeq(bytes), NEW p \in Heads(F),
           p + 2 + SizeAt(F, p) <= Len(bytes)
    PROVE  SubSeq(bytes, p + 3, p + 2 + SizeAt(F, p)) = Body(F, p)
<1>1. /\ p \in Nat /\ Len(F) \in Nat /\ SizeAt(F, p) \in Nat
      /\ p + 2 + SizeAt(F, p) <= After(F, p) /\ After(F, p) <= Len(F) /\ After(F, p) \in Nat
  BY HeadFacts DEF Archive
<1>2. IsSeq(F) /\ Len(bytes) \in Nat
  BY SeqFacts DEF Archive, Chain
<1>3. \A i \in 1..Len(bytes) : bytes[i] = IF i <= Len(F) THEN F[i] ELSE Zero
  BY DEF Archive, Shown
<1> DEFINE a == p + 3
           b == p + 2 + SizeAt(F, p)
<1>4. a \in Nat /\ b \in Nat /\ 1 <= a /\ a <= b + 1 /\ b <= Len(F) /\ b <= Len(bytes)
  BY <1>1
<1>5. \A i \in a..b : bytes[i] = F[i]
  <2>1. \A i \in a..b : i \in 1..Len(bytes) /\ i <= Len(F)
    <3> HIDE DEF a, b
    <3> QED
      BY <1>1, <1>2, <1>4
  <2> HIDE DEF a, b
  <2> QED
    BY <1>3, <2>1
<1> HIDE DEF a, b
<1>6. SubSeq(bytes, a, b) = SubSeq(F, a, b)
  BY <1>2, <1>4, <1>5, SamePart
<1> QED
  BY <1>6 DEF a, b, Body

\* More of a part that begins behind cell m.
LEMMA Longer ==
    ASSUME Source, NEW m \in Nat, m <= pos, NEW n, Available(n)
    PROVE  SubSeq(bytes, m + 1, pos) \o Chunk(n) = SubSeq(bytes, m + 1, pos + n)
<1>1. IsSeq(bytes) /\ Len(bytes) \in Nat /\ pos \in Nat /\ n \in Nat /\ pos + n <= Len(bytes)
  BY SeqFacts DEF Source, Available
<1>2. pos + n \in Nat /\ pos <= pos + n
  BY <1>1
<1> QED
  BY <1>1, <1>2, JoinParts DEF Chunk

LEMMA ReadMetaStep ==
    ASSUME NEW F, NEW T, Source, Archive(F, T), step = "closed", UNCHANGED builderVars,
           NEW n, ReadMeta(n)
    PROVE  Reading(F, T)'
<1>1. /\ IsSeq(bytes) /\ Len(bytes) \in Nat /\ pos \in Nat /\ next \in Nat
      /\ UNCHANGED <<bytes, members, whole>>
  BY ArchiveFacts DEF builderVars
<1>2. /\ pc = "meta" /\ cur.left >= n /\ n \in 1..(Len(bytes) - pos) /\ acc' = acc \o Chunk(n)
      /\ cur' = [cur EXCEPT !.left = cur.left - n] /\ pos' = pos + n /\ Available(n)
      /\ UNCHANGED <<next, held, start, meta, pc, out, torn>>
  BY DEF ReadMeta, Available
<1>3. Ordered(F) /\ IsEntry(cur)
  BY DEF Archive, Reading, Source
<1>4. PICK p \in Heads(F) : AtMeta(F, T, p)
  BY <1>2 DEF Archive, Reading
<1>5. p \in Nat /\ SizeAt(F, p) \in Nat
  BY <1>4, HeadFacts DEF Archive
<1>6. /\ next = After(F, p) /\ cur.kind = KindAt(F, p) /\ KindAt(F, p) # None
      /\ cur.left \in 0..SizeAt(F, p) /\ pos = p + 2 + SizeAt(F, p) - cur.left
      /\ acc = SubSeq(bytes, p + 3, pos) /\ held = <<>> /\ Collects(meta, T[p])
  BY <1>4 DEF AtMeta
<1>7. cur'.kind = cur.kind /\ cur'.left = cur.left - n
  BY <1>2, <1>3, EntryKept DEF EntryFields
<1>8. acc' = SubSeq(bytes, p + 3, pos + n)
  <2>1. p + 2 \in Nat /\ p + 2 <= pos /\ p + 3 = (p + 2) + 1
    BY <1>1, <1>5, <1>6
  <2>2. SubSeq(bytes, (p + 2) + 1, pos) \o Chunk(n) = SubSeq(bytes, (p + 2) + 1, pos + n)
    BY <1>2, <2>1, Longer
  <2> QED
    BY <1>2, <1>6, <2>1, <2>2
<1>9. cur'.left \in 0..SizeAt(F, p) /\ pos' = p + 2 + SizeAt(F, p) - cur'.left
  <2> DEFINE l == cur.left
             k == SizeAt(F, p)
  <2>1. l \in 0..k /\ k \in Nat /\ n \in Nat /\ n <= l /\ pos = p + 2 + k - l /\ pos' = pos + n
    BY <1>1, <1>2, <1>5, <1>6
  <2> HIDE DEF l, k
  <2>2. l - n \in 0..k /\ pos' = p + 2 + k - (l - n)
    BY <1>5, <2>1
  <2> QED
    BY <1>7, <2>2 DEF l, k
<1>10. Partly(meta', T[p]) /\ (whole' /\ ~torn' => meta' = T[p])
  BY <1>1, <1>2, <1>6 DEF Collects
<1>11. AtMeta(F, T, p)'
  BY <1>1, <1>2, <1>6, <1>7, <1>8, <1>9, <1>10 DEF AtMeta, Collects
<1>12. Ordered(F)'
  BY <1>1, <1>2, <1>3, StillOrdered DEF Ordered
<1> QED
  BY <1>2, <1>11, <1>12 DEF Reading

\* A name or an extension is collected, or the file has ended inside it.
LEMMA EndMetaStep ==
    ASSUME NEW F, NEW T, Source, Archive(F, T), step = "closed", UNCHANGED builderVars, EndMeta
    PROVE  Reading(F, T)'
<1>1. /\ IsSeq(bytes) /\ Len(bytes) \in Nat /\ pos \in Nat /\ pos <= Len(bytes) /\ next \in Nat
      /\ UNCHANGED <<bytes, members, whole>>
  BY ArchiveFacts DEF builderVars
<1>2. /\ pc = "meta" /\ (cur.left = 0 \/ pos = Len(bytes))
      /\ meta' = [meta EXCEPT ![cur.kind] = acc]
      /\ UNCHANGED <<pos, next, held, out, torn>>
      /\ pc' = "header" /\ start' = Len(held') /\ acc' = <<>>
  BY DEF EndMeta, Repoll, AtEof
<1>3. Ordered(F)
  BY DEF Archive, Reading
<1>4. PICK p \in Heads(F) : AtMeta(F, T, p)
  BY <1>2 DEF Archive, Reading
<1>5. /\ p \in Nat /\ SizeAt(F, p) \in Nat /\ After(F, p) \in Nat
      /\ p + 2 + SizeAt(F, p) <= After(F, p)
      /\ KindAt(F, p) # None => OfMeta(F, T, p)
  BY <1>4, HeadFacts DEF Archive
<1>6. /\ next = After(F, p) /\ cur.kind = KindAt(F, p) /\ KindAt(F, p) # None
      /\ cur.left \in 0..SizeAt(F, p) /\ pos = p + 2 + SizeAt(F, p) - cur.left
      /\ acc = SubSeq(bytes, p + 3, pos) /\ held = <<>> /\ Collects(meta, T[p])
  BY <1>4 DEF AtMeta
<1>7. /\ KindAt(F, p) \in MetaFields
      /\ T[next] = [T[p] EXCEPT ![KindAt(F, p)] = Body(F, p)]
  BY <1>5, <1>6 DEF OfMeta
<1>8. Collects(meta', T[next]) \/ next > Len(bytes)
  <2>1. CASE cur.left # 0
    BY <1>1, <1>2, <1>5, <1>6, <2>1, SMTT(60)
  <2>2. CASE cur.left = 0
    <3>1. pos = p + 2 + SizeAt(F, p)
      BY <1>1, <1>5, <1>6, <2>2
    <3>2. acc = Body(F, p)
      BY <1>1, <1>6, <3>1, BodyShown
    <3> DEFINE k == KindAt(F, p)
               b == Body(F, p)
    <3>3. k \in MetaFields /\ meta' = [meta EXCEPT ![k] = b] /\ T[next] = [T[p] EXCEPT ![k] = b]
      BY <1>2, <1>6, <1>7, <3>2
    <3>4. /\ meta = [f \in MetaFields |-> meta[f]] /\ \A x \in MetaFields : meta[x] \in {None, T[p][x]}
          /\ whole /\ ~torn => meta = T[p]
      BY <1>6 DEF Collects, Partly, IsMeta
    <3>5. T[p] = [f \in MetaFields |-> T[p][f]]
      BY <1>4 DEF Archive, Chain, IsMeta
    <3> HIDE DEF k, b
    <3>6. /\ meta' = [f \in MetaFields |-> IF f = k THEN b ELSE meta[f]]
          /\ T[next] = [f \in MetaFields |-> IF f = k THEN b ELSE T[p][f]]
      BY <3>3, <3>4, <3>5
    <3>7. /\ \A f \in MetaFields : meta'[f] = IF f = k THEN b ELSE meta[f]
          /\ \A f \in MetaFields : T[next][f] = IF f = k THEN b ELSE T[p][f]
      BY <3>6
    <3>8. IsMeta(meta')
      BY <3>6, <3>7 DEF IsMeta
    <3>9. \A x \in MetaFields : meta'[x] \in {None, T[next][x]}
      BY <3>4, <3>7
    <3>10. whole /\ ~torn => meta' = T[next]
      BY <3>3, <3>4
    <3> QED
      BY <3>8, <3>9, <3>10 DEF Collects, Partly
  <2> QED
    BY <2>1, <2>2
<1>9. pos < next \/ (pos >= next /\ held = SubSeq(bytes, next + 1, pos) /\ Len(held) = pos - next)
  <2> SUFFICES ASSUME ~(pos < next)
               PROVE  held = SubSeq(bytes, next + 1, pos) /\ Len(held) = pos - next
    BY <1>1
  <2>1. pos = next /\ next \in 0..Len(bytes)
    BY <1>1, <1>5, <1>6, SMTT(60)
  <2>2. SubSeq(bytes, next + 1, next) = <<>>
    BY <1>1, <2>1, EmptyPart
  <2> QED
    BY <1>1, <1>6, <2>1, <2>2, EmptyIsSeq
<1>10. start' = 0 /\ Len(held') = 0
  BY <1>2, <1>6, EmptyIsSeq
<1>11. AtHeader(T)'
  <2>1. \/ Partly(meta', T[next]) /\ (whole' /\ ~torn' => meta' = T[next])
        \/ next > Len(bytes)
    BY <1>1, <1>2, <1>8 DEF Collects
  <2> QED
    BY <1>1, <1>2, <1>6, <1>9, <1>10, <2>1 DEF AtHeader, Collects
<1>12. Ordered(F)'
  BY <1>1, <1>2, <1>3, <1>10, StillOrdered
<1> QED
  BY <1>2, <1>11, <1>12 DEF Reading

LEMMA MetaSuspends ==
    ASSUME NEW F, NEW T, Source, Archive(F, T), step = "closed", UNCHANGED builderVars,
           Suspend, pc = "meta"
    PROVE  Reading(F, T)'
<1>1. /\ IsSeq(bytes) /\ Len(bytes) \in Nat /\ pos \in Nat /\ pos <= Len(bytes) /\ next \in Nat
      /\ UNCHANGED <<bytes, members, whole>>
  BY ArchiveFacts DEF builderVars
<1>2. /\ cur.left > 0 /\ torn'
      /\ UNCHANGED <<pos, next, held, meta, out>>
      /\ pc' = "header" /\ start' = Len(held') /\ acc' = <<>>
  BY DEF Suspend, Repoll
<1>3. Ordered(F)
  BY DEF Archive, Reading
<1>4. PICK p \in Heads(F) : AtMeta(F, T, p)
  BY DEF Archive, Reading
<1>5. /\ p \in Nat /\ SizeAt(F, p) \in Nat /\ After(F, p) \in Nat
      /\ p + 2 + SizeAt(F, p) <= After(F, p)
      /\ KindAt(F, p) # None => OfMeta(F, T, p)
  BY <1>4, HeadFacts DEF Archive
<1>6. /\ next = After(F, p) /\ KindAt(F, p) # None
      /\ cur.left \in 0..SizeAt(F, p) /\ pos = p + 2 + SizeAt(F, p) - cur.left
      /\ held = <<>> /\ Collects(meta, T[p])
  BY <1>4 DEF AtMeta
<1>7. pos < next
  BY <1>1, <1>2, <1>5, <1>6
<1>8. Partly(meta, T[next])
  <2>1. /\ IsMeta(meta) /\ \A x \in MetaFields : meta[x] \in {None, T[p][x]}
    BY <1>6 DEF Collects, Partly
  <2>2. /\ KindAt(F, p) \in MetaFields /\ T[p][KindAt(F, p)] = None
        /\ T[next] = [T[p] EXCEPT ![KindAt(F, p)] = Body(F, p)]
    BY <1>5, <1>6 DEF OfMeta
  <2>3. T[p] = [f \in MetaFields |-> T[p][f]]
    BY <1>4 DEF Archive, Chain, IsMeta
  <2>4. \A f \in MetaFields : f # KindAt(F, p) => T[next][f] = T[p][f]
    BY <2>2, <2>3
  <2> QED
    BY <2>1, <2>2, <2>4 DEF Partly
<1>9. start' = 0 /\ Len(held') = 0
  BY <1>2, <1>6, EmptyIsSeq
<1>10. AtHeader(T)'
  <2>1. Partly(meta', T[next']) /\ (whole' /\ ~torn' => meta' = T[next'])
    BY <1>2, <1>8
  <2> QED
    BY <1>1, <1>2, <1>6, <1>7, <1>9, <2>1 DEF AtHeader, Collects
<1>11. Ordered(F)'
  BY <1>1, <1>2, <1>3, <1>9, StillOrdered
<1> QED
  BY <1>2, <1>10, <1>11 DEF Reading

LEMMA OnePart ==
    \A l, v : /\ <<Data(l)>>[1] = Data(l) /\ Data(l).n = l /\ Data(l).pad = FALSE
              /\ Tail(<<Data(l)>>) = <<>>
              /\ [<<Data(l)>> EXCEPT ![1] = [<<Data(l)>>[1] EXCEPT !.n = v]] = <<Data(v)>>
<1> SUFFICES ASSUME NEW l, NEW v
             PROVE  /\ <<Data(l)>>[1] = Data(l) /\ Data(l).n = l /\ Data(l).pad = FALSE
                    /\ Tail(<<Data(l)>>) = <<>>
                    /\ [<<Data(l)>> EXCEPT ![1] = [<<Data(l)>>[1] EXCEPT !.n = v]] = <<Data(v)>>
  OBVIOUS
<1>1. Data(l).n = l /\ Data(l).pad = FALSE
  BY DEF Data
<1>3. [Data(l) EXCEPT !.n = v] = Data(v)
  <2> DEFINE S == {"pad", "n"}
             a == [Data(l) EXCEPT !.n = v]
  <2>1. \A x : Data(x) = [f \in S |-> Data(x)[f]] /\ Data(x).n = x /\ Data(x).pad = FALSE
    BY DEF Data
  <2>2. a = [f \in S |-> IF f = "n" THEN v ELSE Data(l)[f]]
    <3> HIDE DEF Data
    <3> QED
      BY <2>1
  <2>3. Data(v) = [f \in S |-> Data(v)[f]]
    BY <2>1
  <2> HIDE DEF Data
  <2>4. \A f \in S : (IF f = "n" THEN v ELSE Data(l)[f]) = Data(v)[f]
    BY <2>1
  <2> QED
    BY <2>2, <2>3, <2>4
<1>2. \A d, e : <<d>>[1] = d /\ Tail(<<d>>) = <<>> /\ [<<d>> EXCEPT ![1] = e] = <<e>>
  OBVIOUS
<1> HIDE DEF Data
<1> QED
  BY <1>1, <1>2, <1>3

\* The consumer reads on.
LEMMA ReadDataStep ==
    ASSUME NEW F, NEW T, Source, Archive(F, T), step = "closed", UNCHANGED builderVars,
           NEW n, ReadData(n)
    PROVE  Reading(F, T)'
<1>1. /\ IsSeq(bytes) /\ Len(bytes) \in Nat /\ pos \in Nat /\ next \in Nat
      /\ UNCHANGED <<bytes, members, whole>>
  BY ArchiveFacts DEF builderVars
<1>2. /\ pc = "entry" /\ cur.data # <<>> /\ cur.data[1].n >= n
      /\ UNCHANGED <<next, held, start, meta, pc, acc, out, torn>>
  BY DEF ReadData
<1>3. Ordered(F) /\ IsEntry(cur) /\ IsSeq(cur.got)
  BY DEF Archive, Reading, Source, IsEntry
<1>4. PICK p \in Heads(F) : AtEntry(F, T, p)
  BY <1>2 DEF Archive, Reading
<1>5. p \in Nat /\ SizeAt(F, p) \in Nat /\ Len(cur.got) \in Nat
  BY <1>3, <1>4, HeadFacts, SeqFacts DEF Archive
<1> DEFINE l == SizeAt(F, p) - Len(cur.got)
<1>6. /\ next = After(F, p) /\ cur.h = HeadAt(F, p) /\ KindAt(F, p) = None
      /\ cur.at = p + 2 /\ members[Done].at = p + 2
      /\ Len(cur.got) <= SizeAt(F, p) /\ pos = p + 2 + Len(cur.got)
      /\ cur.got = SubSeq(bytes, p + 3, pos) /\ cur.data = <<Data(l)>>
      /\ Partly(cur.meta, T[p]) /\ (whole /\ ~torn => cur.meta = T[p])
      /\ meta = NoMeta /\ held = <<>>
  BY <1>2, <1>4 DEF AtEntry, Collects
<1>7. l \in Nat /\ Len(cur.got) <= SizeAt(F, p) /\ pos = p + 2 + Len(cur.got)
  <2>1. Len(cur.got) <= SizeAt(F, p) /\ pos = p + 2 + Len(cur.got)
    BY <1>6
  <2> QED
    BY <1>5, <2>1
<1>8. cur.data[1] = Data(l) /\ cur.data[1].n = l /\ cur.data[1].pad = FALSE
  <2>1. cur.data = <<Data(l)>>
    BY <1>6
  <2> HIDE DEF l
  <2> QED
    BY <2>1, OnePart
<1>9. /\ Available(n) /\ n \in Nat /\ n <= l /\ pos' = pos + n /\ pos + n <= Len(bytes)
      /\ cur' = [cur EXCEPT !.got = cur.got \o Chunk(n),
                            !.data = [cur.data EXCEPT ![1] = [cur.data[1] EXCEPT !.n = l - n]]]
  <2>1. /\ Available(n) /\ pos' = pos + n
        /\ cur' = [cur EXCEPT !.got = @ \o Chunk(n), !.data[1].n = @ - n]
    BY <1>8 DEF ReadData
  <2>2. n \in Nat /\ n <= l /\ pos + n <= Len(bytes)
    BY <1>1, <1>2, <1>8, <2>1 DEF Available
  <2> QED
    BY <1>8, <2>1, <2>2
<1>10. [cur.data EXCEPT ![1] = [cur.data[1] EXCEPT !.n = l - n]] = <<Data(l - n)>>
  <2> DEFINE v == l - n
  <2>1. cur.data = <<Data(l)>>
    BY <1>6
  <2> HIDE DEF l, v
  <2>2. [cur.data EXCEPT ![1] = [cur.data[1] EXCEPT !.n = v]] = <<Data(v)>>
    BY <2>1, OnePart
  <2> QED
    BY <2>2 DEF v
<1> DEFINE x == SubSeq(bytes, p + 3, pos + n)
<1>11. cur.got \o Chunk(n) = x /\ Len(x) = Len(cur.got) + n /\ IsSeq(x)
  <2>1. p + 2 \in Nat /\ p + 2 <= pos /\ p + 3 = (p + 2) + 1
    <3> DEFINE g == Len(cur.got)
    <3>1. g \in Nat /\ p \in Nat /\ pos = p + 2 + g
      BY <1>5, <1>7
    <3> HIDE DEF g
    <3> QED
      BY <1>1, <3>1
  <2>2. SubSeq(bytes, (p + 2) + 1, pos) \o Chunk(n) = SubSeq(bytes, (p + 2) + 1, pos + n)
    BY <1>9, <2>1, Longer
  <2>3. /\ p + 3 \in Nat /\ pos + n \in Nat /\ 1 <= p + 3 /\ p + 3 <= pos + n + 1
        /\ (pos + n) - (p + 3) + 1 = Len(cur.got) + n
    <3> DEFINE g == Len(cur.got)
    <3>1. n \in Nat /\ g \in Nat /\ p \in Nat /\ pos = p + 2 + g
      BY <1>5, <1>7, <1>9
    <3> HIDE DEF g
    <3>2. /\ p + 3 \in Nat /\ pos + n \in Nat /\ 1 <= p + 3 /\ p + 3 <= pos + n + 1
          /\ (pos + n) - (p + 3) + 1 = g + n
      BY <1>1, <3>1
    <3> QED
      BY <3>2 DEF g
  <2>4. IsSeq(x) /\ Len(x) = (pos + n) - (p + 3) + 1
    BY <1>1, <1>9, <2>3, PartFacts
  <2> HIDE DEF x
  <2> QED
    BY <1>6, <2>1, <2>2, <2>3, <2>4 DEF x
<1>12. /\ cur'.got = x /\ cur'.data = <<Data(l - n)>>
       /\ cur'.h = cur.h /\ cur'.at = cur.at /\ cur'.meta = cur.meta
  <2> DEFINE d == <<Data(l - n)>>
             e == [cur EXCEPT !.got = x]
  <2>1. cur' = [cur EXCEPT !.got = x, !.data = d]
    BY <1>9, <1>10, <1>11
  <2> HIDE DEF x, d
  <2>2. IsEntry(e) /\ e.got = x /\ e.h = cur.h /\ e.at = cur.at /\ e.meta = cur.meta
    BY <1>3, <1>11, EntryKept DEF EntryFields
  <2>3. cur' = [e EXCEPT !.data = d]
    BY <2>1
  <2> HIDE DEF e
  <2>4. /\ cur'.data = d /\ cur'.got = e.got /\ cur'.h = e.h /\ cur'.at = e.at
        /\ cur'.meta = e.meta
    BY <2>2, <2>3, EntryKept DEF EntryFields
  <2> QED
    BY <2>2, <2>4 DEF d
<1>13. Ordered(F)' /\ Done' = Done
  BY <1>1, <1>2, <1>3, StillOrdered DEF Ordered
<1>14. /\ Len(cur'.got) <= SizeAt(F, p) /\ pos' = p + 2 + Len(cur'.got)
       /\ l - n = SizeAt(F, p) - Len(cur'.got)
  <2> HIDE DEF x
  <2> DEFINE g == Len(cur.got)
             s == SizeAt(F, p)
  <2>1. Len(cur'.got) = g + n
    BY <1>11, <1>12
  <2>2. /\ n \in Nat /\ n <= s - g /\ pos' = pos + n /\ g \in Nat /\ s \in Nat /\ p \in Nat
        /\ pos = p + 2 + g
    BY <1>5, <1>7, <1>9
  <2>3. l = s - g
    OBVIOUS
  <2> HIDE DEF g, s, l
  <2>4. g + n <= s /\ pos' = p + 2 + (g + n) /\ l - n = s - (g + n)
    BY <2>2, <2>3
  <2> QED
    BY <2>1, <2>4 DEF s
<1>15. cur'.data = <<Data(SizeAt(F, p) - Len(cur'.got))>> /\ cur'.got = SubSeq(bytes', p + 3, pos')
  <2> HIDE DEF l
  <2> QED
    BY <1>1, <1>9, <1>12, <1>14
<1>16. Partly(cur'.meta, T[p]) /\ (whole' /\ ~torn' => cur'.meta = T[p])
  BY <1>1, <1>2, <1>6, <1>12
<1>17. /\ next' = After(F, p) /\ cur'.h = HeadAt(F, p) /\ cur'.at = p + 2
       /\ members'[Done'].at = p + 2 /\ meta' = NoMeta /\ held' = <<>>
  BY <1>1, <1>2, <1>6, <1>12, <1>13
<1> HIDE DEF l, x
<1>18. AtEntry(F, T, p)'
  BY <1>6, <1>14, <1>15, <1>16, <1>17 DEF AtEntry, Collects
<1> QED
  BY <1>2, <1>13, <1>18 DEF Reading

LEMMA EndPartStep ==
    ASSUME NEW F, NEW T, Source, Archive(F, T), step = "closed", UNCHANGED builderVars, EndPart
    PROVE  Reading(F, T)'
<1>1. /\ IsSeq(bytes) /\ Len(bytes) \in Nat /\ pos \in Nat /\ next \in Nat
      /\ UNCHANGED <<bytes, members, whole>>
  BY ArchiveFacts DEF builderVars
<1>2. /\ pc = "entry" /\ cur.data # <<>> /\ (cur.data[1].n = 0 \/ pos = Len(bytes))
      /\ cur' = [cur EXCEPT !.data = Tail(cur.data)]
      /\ UNCHANGED <<pos, next, held, start, meta, pc, acc, out, torn>>
  BY DEF EndPart, NextPart, AtEof
<1>3. Ordered(F) /\ IsEntry(cur) /\ IsSeq(cur.got)
  BY DEF Archive, Reading, Source, IsEntry
<1>4. PICK p \in Heads(F) : AtEntry(F, T, p)
  BY <1>2 DEF Archive, Reading
<1>5. SizeAt(F, p) \in Nat /\ Len(cur.got) \in Nat
  BY <1>3, <1>4, HeadFacts, SeqFacts DEF Archive
<1> DEFINE l == SizeAt(F, p) - Len(cur.got)
<1>6. /\ next = After(F, p) /\ cur.h = HeadAt(F, p) /\ KindAt(F, p) = None
      /\ cur.at = p + 2 /\ members[Done].at = p + 2
      /\ Len(cur.got) <= SizeAt(F, p) /\ pos = p + 2 + Len(cur.got)
      /\ cur.got = SubSeq(bytes, p + 3, pos) /\ cur.data = <<Data(l)>>
      /\ Partly(cur.meta, T[p]) /\ (whole /\ ~torn => cur.meta = T[p])
      /\ meta = NoMeta /\ held = <<>>
  BY <1>2, <1>4 DEF AtEntry, Collects
<1>7. cur.data[1].n = l /\ Tail(cur.data) = <<>>
  <2>1. cur.data = <<Data(l)>>
    BY <1>6
  <2> HIDE DEF l
  <2> QED
    BY <2>1, OnePart
<1>8. Len(cur.got) = SizeAt(F, p) \/ pos = Len(bytes)
  BY <1>2, <1>5, <1>7
<1>9. /\ cur'.data = <<>> /\ cur'.got = cur.got
      /\ cur'.h = cur.h /\ cur'.at = cur.at /\ cur'.meta = cur.meta
  <2>1. cur' = [cur EXCEPT !.data = <<>>]
    BY <1>2, <1>7
  <2> QED
    BY <1>3, <2>1, EntryKept DEF EntryFields
<1>10. Ordered(F)' /\ Done' = Done
  BY <1>1, <1>2, <1>3, StillOrdered DEF Ordered
<1>11. /\ cur'.data = <<>> /\ (Len(cur'.got) = SizeAt(F, p) \/ pos' = Len(bytes'))
       /\ cur'.got = SubSeq(bytes', p + 3, pos')
       /\ Len(cur'.got) <= SizeAt(F, p) /\ pos' = p + 2 + Len(cur'.got)
  BY <1>1, <1>2, <1>6, <1>8, <1>9
<1>12. Partly(cur'.meta, T[p]) /\ (whole' /\ ~torn' => cur'.meta = T[p])
  BY <1>1, <1>2, <1>6, <1>9
<1>13. /\ next' = After(F, p) /\ cur'.h = HeadAt(F, p) /\ cur'.at = p + 2
       /\ members'[Done'].at = p + 2 /\ meta' = NoMeta /\ held' = <<>>
  BY <1>1, <1>2, <1>6, <1>9, <1>10
<1> HIDE DEF l
<1>14. AtEntry(F, T, p)'
  BY <1>6, <1>11, <1>12, <1>13 DEF AtEntry, Collects, AtEof
<1> QED
  BY <1>2, <1>10, <1>14 DEF Reading

LEMMA NoMetaIsMeta == IsMeta(NoMeta) /\ \A x \in MetaFields : NoMeta[x] = None
BY DEF IsMeta, NoMeta, MetaFields

\* The entry was read: it is the member's.
LEMMA YieldedFacts ==
    ASSUME NEW F, NEW T, Source, AppenderTypes, Archive(F, T), pc = "entry", cur.data = <<>>
    PROVE  Done \in 1..Len(members) /\ Yields(Yielded(cur), members[Done])
<1>1. /\ IsSeq(bytes) /\ Len(bytes) \in Nat /\ pos \in Nat /\ next \in Nat
      /\ Len(members) \in Nat
  BY ArchiveFacts
<1>2. Ordered(F) /\ IsSeq(cur.got) /\ Len(cur.got) \in Nat
  BY SeqFacts DEF Archive, Reading, Source, IsEntry
<1>3. PICK p \in Heads(F) : AtEntry(F, T, p)
  BY DEF Archive, Reading
<1>4. /\ p \in Nat /\ SizeAt(F, p) \in Nat /\ After(F, p) \in Nat
      /\ p + 2 + SizeAt(F, p) <= After(F, p) /\ Len(Body(F, p)) = SizeAt(F, p)
      /\ EntryTypeOf(HeadAt(F, p)) # "GNUSparse" /\ EntrySize(HeadAt(F, p)) = SizeAt(F, p)
      /\ KindAt(F, p) = None => OfMember(F, T, members, p)
  BY <1>3, HeadFacts DEF Archive
<1>5. /\ next = After(F, p) /\ cur.h = HeadAt(F, p) /\ KindAt(F, p) = None
      /\ cur.at = p + 2 /\ members[Done].at = p + 2
      /\ Len(cur.got) <= SizeAt(F, p) /\ pos = p + 2 + Len(cur.got)
      /\ cur.got = SubSeq(bytes, p + 3, pos)
      /\ Partly(cur.meta, T[p]) /\ (whole /\ ~torn => cur.meta = T[p])
  BY <1>3 DEF AtEntry, Collects
<1>6. Len(cur.got) = SizeAt(F, p) \/ pos = Len(bytes)
  <2>1. <<Data(SizeAt(F, p) - Len(cur.got))>> # <<>>
    OBVIOUS
  <2> QED
    BY <1>3, <2>1 DEF AtEntry, AtEof
<1>7. Done \in 1..Len(members)
  <2>1. Len(out) \in Nat /\ Done = Len(out) + 1
    BY SeqFacts DEF AppenderTypes, Done
  <2> QED
    BY <1>1, <1>2, <2>1 DEF Ordered
<1>8. PICK j \in 1..Len(members) : /\ members[j].at = p + 2 /\ members[j].data = Body(F, p)
                                   /\ Titled(T[p], HeadAt(F, p), members[j])
  BY <1>4, <1>5 DEF OfMember
<1>9. j = Done
  <2>1. \A i, k \in 1..Len(members) : i < k => members[i].at < members[k].at
    BY DEF Archive, Chain
  <2>2. ~(j < Done) /\ ~(Done < j)
    BY <1>4, <1>5, <1>7, <1>8, <2>1
  <2> QED
    BY <1>1, <1>7, <2>2
<1>10. cur.got = Body(F, p) \/ next > Len(bytes)
  <2>1. CASE Len(cur.got) = SizeAt(F, p)
    BY <1>1, <1>4, <1>5, <2>1, BodyShown, ArchiveFacts
  <2>2. CASE Len(cur.got) # SizeAt(F, p)
    <3> DEFINE g == Len(cur.got)
               s == SizeAt(F, p)
    <3>1. next = After(F, p) /\ g <= s /\ pos = p + 2 + g /\ pos = Len(bytes)
      BY <1>5, <1>6, <2>2
    <3>2. g \in Nat /\ s \in Nat /\ p \in Nat /\ p + 2 + s <= next /\ g # s
      BY <1>2, <1>4, <2>2, <3>1
    <3> HIDE DEF g, s
    <3> QED
      BY <1>1, <3>1, <3>2
  <2> QED
    BY <2>1, <2>2
<1> DEFINE y == Yielded(cur)
<1>11. /\ y.at = cur.at /\ y.path = EntryPath(cur) /\ y.short = PathOf(cur.h)
       /\ y.link = EntryLink(cur) /\ y.got = cur.got /\ y.size = RealSize(cur.h)
  BY DEF Yielded
<1> HIDE DEF y
<1>12. /\ EntryPath(cur) \in {members[j].path, PathOf(HeadAt(F, p))}
       /\ cur.meta = T[p] => EntryPath(cur) = members[j].path /\ EntryLink(cur) = members[j].link
  BY <1>5, <1>8, NameOfPart
<1>13. RealSize(cur.h) = SizeAt(F, p)
  BY <1>4, <1>5 DEF RealSize
<1>14. Yields(y, members[j])
  BY <1>4, <1>5, <1>8, <1>10, <1>11, <1>12, <1>13 DEF Yields
<1> QED
  BY <1>7, <1>9, <1>14 DEF y

LEMMA TakeNextStep ==
    ASSUME NEW F, NEW T, Source, AppenderTypes, Archive(F, T), step = "closed",
           UNCHANGED builderVars, TakeNext
    PROVE  Reading(F, T)'
<1>1. /\ IsSeq(bytes) /\ Len(bytes) \in Nat /\ pos \in Nat /\ pos <= Len(bytes) /\ next \in Nat
      /\ UNCHANGED <<bytes, members, whole>> /\ Len(members) \in Nat
  BY ArchiveFacts DEF builderVars
<1>2. /\ pc = "entry" /\ cur.data = <<>> /\ out' = Append(out, Yielded(cur))
      /\ UNCHANGED <<pos, next, held, meta, torn>>
      /\ pc' = "header" /\ start' = Len(held') /\ acc' = <<>>
  BY DEF TakeNext, EntryRead, Repoll
<1>3. Ordered(F) /\ IsSeq(out) /\ Len(out) \in Nat
  BY SeqFacts DEF Archive, Reading, AppenderTypes
<1>4. PICK p \in Heads(F) : AtEntry(F, T, p)
  BY <1>2 DEF Archive, Reading
<1>5. /\ p \in Nat /\ SizeAt(F, p) \in Nat /\ After(F, p) \in Nat
      /\ p + 2 + SizeAt(F, p) <= After(F, p)
      /\ KindAt(F, p) = None => OfMember(F, T, members, p)
  BY <1>4, HeadFacts DEF Archive
<1>6. /\ next = After(F, p) /\ KindAt(F, p) = None
      /\ Len(cur.got) <= SizeAt(F, p) /\ pos = p + 2 + Len(cur.got)
      /\ meta = NoMeta /\ held = <<>>
  BY <1>4 DEF AtEntry
<1>7. Done \in 1..Len(members) /\ Yields(Yielded(cur), members[Done]) /\ Done = Len(out) + 1
  BY <1>2, YieldedFacts DEF Done
<1> DEFINE y == Yielded(cur)
<1>8. /\ Len(out') = Len(out) + 1 /\ out'[Len(out) + 1] = y
      /\ \A i \in 1..Len(out) : out'[i] = out[i]
  <2>1. out' = Append(out, y)
    BY <1>2
  <2> HIDE DEF y
  <2> QED
    BY <1>3, <2>1, AppendFacts
<1>9. Done' = Done
  BY <1>2, <1>7, <1>8 DEF Done
<1>10. \A i \in 1..Len(out') : Yields(out'[i], members[i])
  <2> SUFFICES ASSUME NEW i \in 1..Len(out') PROVE Yields(out'[i], members[i])
    OBVIOUS
  <2>1. CASE i \in 1..Len(out)
    BY <1>3, <1>8, <2>1 DEF Ordered
  <2>2. CASE i = Len(out) + 1
    BY <1>7, <1>8, <2>2
  <2> QED
    BY <1>3, <1>8, <2>1, <2>2
<1>11. \A i \in 1..Len(out') : Yields(out[i], members[i])'
  <2> SUFFICES ASSUME NEW i \in 1..Len(out') PROVE Yields(out[i], members[i])'
    OBVIOUS
  <2>1. Yields(out'[i], members[i])
    BY <1>10
  <2> QED
    BY <1>1, <1>2, <2>1 DEF Yields
<1>12. start' = 0 /\ Len(held') = 0 /\ held' = <<>>
  BY <1>2, <1>6, EmptyIsSeq
<1>13. Ordered(F)'
  BY <1>1, <1>2, <1>3, <1>9, <1>11, <1>12 DEF Ordered
<1>14. Partly(meta', T[next']) /\ (whole' /\ ~torn' => meta' = T[next'])
  <2>1. T[next] = NoMeta
    BY <1>5, <1>6 DEF OfMember
  <2> QED
    BY <1>2, <1>6, <2>1, NoMetaIsMeta DEF Partly
<1>15. pos' < next' \/ (pos' >= next' /\ held' = SubSeq(bytes', next' + 1, pos') /\ Len(held') = pos' - next')
  <2> SUFFICES ASSUME ~(pos < next)
               PROVE  held' = SubSeq(bytes, next + 1, pos) /\ Len(held') = pos - next /\ pos >= next
    BY <1>1, <1>2
  <2>1. Len(cur.got) \in Nat
    BY SeqFacts DEF Source, IsEntry
  <2>2. pos = next /\ next \in 0..Len(bytes)
    <3> DEFINE g == Len(cur.got)
               s == SizeAt(F, p)
    <3>1. next = After(F, p) /\ g <= s /\ pos = p + 2 + g
      BY <1>6
    <3>2. g \in Nat /\ s \in Nat /\ p \in Nat /\ p + 2 + s <= next
      BY <1>5, <2>1, <3>1
    <3> HIDE DEF g, s
    <3>3. pos <= next
      BY <1>1, <3>1, <3>2
    <3> QED
      BY <1>1, <3>3
  <2>3. SubSeq(bytes, next + 1, next) = <<>>
    BY <1>1, <2>2, EmptyPart
  <2> QED
    BY <1>1, <1>12, <2>2, <2>3
<1>16. AtHeader(T)'
  BY <1>2, <1>12, <1>14, <1>15 DEF AtHeader, Collects
<1> QED
  BY <1>2, <1>13, <1>16 DEF Reading

\* Every step of the stream and of its consumer.
LEMMA ReadingStep ==
    ASSUME NEW F, NEW T, Source, AppenderTypes, Archive(F, T), step = "closed",
           UNCHANGED builderVars,
           ReaderSteps \/ Suspend \/ (\E n \in 1..Block : ReadData(n)) \/ EndPart \/ TakeNext
    PROVE  Reading(F, T)'
<1>1. pc # "sparse"
  BY DEF Archive, Reading
<1>2. CASE \E n \in 1..Block : Skip(n) \/ ReadHeader(n) \/ ReadMeta(n) \/ ReadExtension(n)
  <2>1. PICK n : Skip(n) \/ ReadHeader(n) \/ ReadMeta(n)
    BY <1>1, <1>2 DEF ReadExtension
  <2> QED
    BY <2>1, SkipStep, ReadHeaderStep, ReadMetaStep
<1>3. CASE SkipEof \/ HeaderEof
  BY <1>3, EofStep
<1>4. CASE ZerosEnd
  BY <1>4, ZerosEndStep
<1>5. CASE ParseHeader
  BY <1>5, ParseStep
<1>6. ~BadChecksum
  BY ParsedFacts DEF BadChecksum, Block
<1>7. CASE EndMeta
  BY <1>7, EndMetaStep
<1>8. ~ParseBlocks /\ ~ExtensionFails
  BY <1>1 DEF ParseBlocks, ExtensionFails
<1>9. CASE Suspend
  <2>1. pc = "header" \/ pc = "meta"
    BY <1>1, <1>9 DEF Suspend
  <2> QED
    BY <1>9, <2>1, HeaderSuspends, MetaSuspends
<1>10. CASE \E n \in 1..Block : ReadData(n)
  BY <1>10, ReadDataStep
<1>11. CASE EndPart
  BY <1>11, EndPartStep
<1>12. CASE TakeNext
  BY <1>12, TakeNextStep
<1> QED
  BY <1>2, <1>3, <1>4, <1>5, <1>6, <1>7, <1>8, <1>9, <1>10, <1>11, <1>12 DEF ReaderSteps

\* The other steps of the appender and the listener.
LEMMA ReadingKept ==
    ASSUME NEW F, NEW T, Reading(F, T), UNCHANGED readerVars, UNCHANGED builderVars
    PROVE  Reading(F, T)'
<1>1. /\ UNCHANGED <<pos, next, held, start, meta, pc, acc, cur, out, torn>>
      /\ UNCHANGED <<bytes, members, whole>>
  BY DEF readerVars, builderVars
<1>2. Done' = Done
  BY <1>1 DEF Done
<1>3. Ordered(F)'
  BY <1>1, <1>2 DEF Reading, Ordered, Yields
<1>4. pc = "header" => AtHeader(T)'
  BY <1>1 DEF Reading, AtHeader, Collects
<1>5. pc = "meta" => \E p \in Heads(F) : AtMeta(F, T, p)'
  <2> SUFFICES ASSUME pc = "meta" PROVE \E p \in Heads(F) : AtMeta(F, T, p)'
    OBVIOUS
  <2>1. PICK p \in Heads(F) : AtMeta(F, T, p)
    BY DEF Reading
  <2>2. AtMeta(F, T, p)'
    BY <1>1, <2>1 DEF AtMeta, Collects
  <2> QED
    BY <2>2
<1>6. pc = "entry" => \E p \in Heads(F) : AtEntry(F, T, p)'
  <2> SUFFICES ASSUME pc = "entry" PROVE \E p \in Heads(F) : AtEntry(F, T, p)'
    OBVIOUS
  <2>1. PICK p \in Heads(F) : AtEntry(F, T, p)
    BY DEF Reading
  <2>2. AtEntry(F, T, p)'
    BY <1>1, <1>2, <2>1 DEF AtEntry, Collects, AtEof
  <2> QED
    BY <2>2
<1>7. /\ pc' \in {"header", "meta", "entry", "ended", "failed", "hung"}
      /\ pc' = "failed" => ~whole' \/ torn'
      /\ pc' = "ended" => next' <= Len(bytes') /\ (whole' /\ ~torn' => Done' = Len(members'))
  BY <1>1, <1>2 DEF Reading
<1> QED
  BY <1>1, <1>3, <1>4, <1>5, <1>6, <1>7 DEF Reading

\* Before the archive is closed nothing of it is read.
LEMMA ReadingInit ==
    ASSUME NEW F, NEW T, Chain(F, T, members), IsSeq(bytes), ReaderInit
    PROVE  Reading(F, T)
<1>1. /\ pos = 0 /\ next = 0 /\ held = <<>> /\ start = 0 /\ meta = NoMeta /\ pc = "header"
      /\ acc = <<>> /\ cur = NoEntry /\ out = <<>>
  BY DEF ReaderInit
<1>2. /\ IsSeq(members) /\ 0 \in Heads(F) \cup {Len(F)} /\ T[0] = NoMeta
      /\ \A j \in 1..Len(members) : \E p \in Heads(F) : members[j].at = p + 2
      /\ IsSeq(F)
  BY DEF Chain
<1>3. Len(held) = 0 /\ Len(out) = 0 /\ Done = 0
  BY <1>1, EmptyIsSeq DEF Done
<1>4. Len(members) \in Nat /\ Len(bytes) \in Nat
  BY <1>2, SeqFacts
<1>5. \A j \in 1..Len(members) :
         IF j <= Done THEN members[j].at < next + 2 ELSE members[j].at >= next + 2
  <2> SUFFICES ASSUME NEW j \in 1..Len(members) PROVE ~(j <= 0) /\ members[j].at >= 0 + 2
    BY <1>1, <1>3
  <2>1. PICK p \in Heads(F) : members[j].at = p + 2
    BY <1>2
  <2>2. p \in Nat
    BY <1>2, SeqFacts DEF Heads
  <2> QED
    BY <2>1, <2>2
<1>6. Ordered(F)
  BY <1>1, <1>2, <1>3, <1>4, <1>5 DEF Ordered
<1>7. held = SubSeq(bytes, 0 + 1, 0)
  <2>1. 0 \in 0..Len(bytes)
    BY <1>4
  <2> QED
    BY <1>1, <2>1, EmptyPart
<1>8. Partly(meta, T[next]) /\ (whole /\ ~torn => meta = T[next])
  BY <1>1, <1>2, NoMetaIsMeta DEF Partly
<1>9. pos >= next /\ held = SubSeq(bytes, next + 1, pos) /\ Len(held) = pos - next /\ start <= Len(held)
  BY <1>1, <1>3, <1>7
<1>10. AtHeader(T)
  BY <1>1, <1>8, <1>9 DEF AtHeader, Collects
<1> QED
  BY <1>1, <1>6, <1>10 DEF Reading

LEMMA ReadingInitNext ==
    ASSUME NEW F, NEW T
    PROVE  (Chain(F, T, members) /\ IsSeq(bytes) /\ ReaderInit => Reading(F, T))'
<1>1. Chain(F, T, members) /\ IsSeq(bytes) /\ ReaderInit => Reading(F, T)
  BY ReadingInit
<1> QED
  BY <1>1, PTL

LEMMA ReadingStarts ==
    ASSUME NEW F, NEW T, Chain(F, T, members'), IsSeq(bytes'), ReaderInit, UNCHANGED readerVars
    PROVE  Reading(F, T)'
<1>1. Chain(F, T, members)' /\ IsSeq(bytes)' /\ ReaderInit'
  BY DEF ReaderInit, readerVars
<1> QED
  BY <1>1, ReadingInitNext

-----------------------------------------------------------------------------
(* Building.                                                               *)

Built(F, T) == Chain(F, T, members) /\ Shown(F) /\ Building(T[Len(F)])

LEMMA PlainFacts ==
    ASSUME Source, PlainRest(todo), todo # <<>>
    PROVE  /\ RequestOk(req) /\ PlainRequest(req) /\ IsSeq(todo) /\ Len(todo) \in Nat
           /\ 1 \in 1..Len(todo)
<1>1. IsSeq(todo) /\ Len(todo) \in Nat /\ RequestOk(req)
  BY SeqFacts, RequestFacts DEF Source
<1>2. 1 \in 1..Len(todo)
  <2>1. Len(todo) # 0
    BY <1>1, JoinEmpty
  <2> QED
    BY <1>1, <2>1
<1>3. PlainRequest(todo[1])
  BY <1>2 DEF PlainRest
<1> QED
  BY <1>1, <1>2, <1>3 DEF req

\* What is left to ask for stays plain.
LEMMA RestKept ==
    ASSUME Source, PlainRest(todo), BuilderNext PROVE PlainRest(todo')
<1>1. todo' \in {todo, <<>>} \/ (todo' = Tail(todo) /\ todo # <<>>)
  BY DEF BuilderNext, Start, PathFits, PathLong, PathCut, PathFails, FillHeader, WriteMember,
         Close, Truncate, Source
<1>2. CASE todo' = todo
  BY <1>2
<1>3. CASE todo' = <<>>
  <2>1. Len(todo') = 0
    BY <1>3, EmptyIsSeq
  <2> QED
    BY <2>1 DEF PlainRest
<1>4. CASE todo' = Tail(todo) /\ todo # <<>>
  <2>1. IsSeq(todo) /\ Len(todo) \in Nat /\ 1 \in 1..Len(todo)
    BY <1>4, PlainFacts
  <2>2. Len(todo') = Len(todo) - 1 /\ \A i \in 1..Len(todo) - 1 : todo'[i] = todo[i + 1]
    <3>1. todo \in Seq(Range(todo)) /\ todo # <<>>
      BY <1>4, <2>1 DEF IsSeq
    <3>2. /\ Len(Tail(todo)) = Len(todo) - 1
          /\ \A i \in 1..Len(Tail(todo)) : Tail(todo)[i] = todo[i + 1]
      BY <3>1, HeadTailProperties
    <3> QED
      BY <1>4, <3>2
  <2>3. ASSUME NEW i \in 1..Len(todo')
        PROVE  PlainRequest(todo'[i]) /\ (i > 1 => Ready(Pending(todo'[i - 1]), todo'[i]))
    <3>1. i + 1 \in 1..Len(todo) /\ i + 1 > 1 /\ (i + 1) - 1 = i /\ todo'[i] = todo[i + 1]
      BY <2>1, <2>2
    <3>2. PlainRequest(todo[i + 1]) /\ Ready(Pending(todo[i]), todo[i + 1])
      BY <3>1 DEF PlainRest
    <3>3. i > 1 => todo'[i - 1] = todo[i]
      <4> SUFFICES ASSUME i > 1 PROVE todo'[i - 1] = todo[i]
        OBVIOUS
      <4>1. i - 1 \in 1..Len(todo) - 1 /\ (i - 1) + 1 = i
        BY <2>1, <2>2
      <4> QED
        BY <2>2, <4>1
    <3> QED
      BY <3>1, <3>2, <3>3
  <2> QED
    BY <2>3 DEF PlainRest
<1> QED
  BY <1>1, <1>2, <1>3, <1>4

\* A step that writes nothing, or that writes all of G.
LEMMA SameArchive ==
    ASSUME NEW F, NEW T, Chain(F, T, members), Shown(F), UNCHANGED <<bytes, members>>,
           step # "closed", step' # "closed"
    PROVE  Chain(F, T, members)' /\ Shown(F)'
<1>1. Chain(F, T, members')
  <2>1. members' = members
    OBVIOUS
  <2> QED
    BY <2>1
<1> QED
  BY <1>1 DEF Shown

LEMMA ShownWhole ==
    ASSUME NEW G, IsSeq(G), bytes' = G, step' # "closed" PROVE Shown(G)'
BY DEF Shown

\* A raw append is given its name by its header or by the extension before it.
LEMMA ReadyTitled ==
    ASSUME NEW t, NEW r, Ready(t, r), r.how = "raw", ~IsPax(r), LinkNameOf(r.header) = r.link
    PROVE  Titled(t, r.header, [path |-> r.p, link |-> r.link])
<1> DEFINE e == [h |-> r.header, meta |-> t]
           m == [path |-> r.p, link |-> r.link]
<1>1. e.h = r.header /\ e.meta = t /\ m.path = r.p /\ m.link = r.link
  OBVIOUS
<1>2. /\ t.name = None /\ t.link = None
      /\ t.pax # None => PaxValue(t.pax, "path") \in {None, r.p}
      /\ PathOf(r.header) = r.p \/ (t.pax # None /\ PaxValue(t.pax, "path") # None)
  BY DEF Ready
<1> HIDE DEF e, m
<1>3. EntryPath(e) = r.p
  BY <1>1, <1>2 DEF EntryPath
<1>4. EntryLink(e) = r.link
  BY <1>1, <1>2 DEF EntryLink
<1> QED
  BY <1>1, <1>2, <1>3, <1>4 DEF Titled, e, m

LEMMA StartStep ==
    ASSUME NEW F, NEW T, Source, Built(F, T), PlainRest(todo), Start
    PROVE  Building(T[Len(F)])'
<1> DEFINE t == T[Len(F)]
<1>1. /\ step = "idle" /\ todo # <<>> /\ UNCHANGED <<todo, bytes, members, whole>>
      /\ hd' = IF FromFs THEN NewHeader("gnu") ELSE req.header
      /\ step' = IF req.how = "raw" THEN "write" ELSE "path"
  BY DEF Start
<1>2. RequestOk(req) /\ PlainRequest(req)
  BY <1>1, PlainFacts
<1>3. Ready(t, req)
  BY <1>1 DEF Built, Building
<1>4. req' = req
  BY <1>1 DEF req
<1> HIDE DEF t
<1>5. CASE req.how = "raw"
  <2>1. hd' = req.header /\ step' = "write"
    BY <1>1, <1>5 DEF FromFs
  <2>2. /\ hd'.sum /\ EntrySize(hd') = req.n /\ EntryTypeOf(hd') # "GNUSparse" /\ IsMeta(t)
        /\ MetaKind(hd') \in {None, "pax"}
        /\ MetaKind(hd') = None => LinkNameOf(hd') = req.link
    BY <1>2, <1>3, <1>5, <2>1 DEF PlainRequest, Ready
  <2>3. IsPax(req) <=> MetaKind(hd') # None
    BY <1>5, <2>1 DEF IsPax
  <2>4. MetaKind(hd') = None => Titled(t, hd', [path |-> req.p, link |-> req.link])
    BY <1>3, <1>5, <2>1, <2>2, <2>3, ReadyTitled
  <2>5. MetaKind(hd') # None => t = NoMeta
    <3> SUFFICES ASSUME IsPax(req) PROVE t = NoMeta
      BY <2>3
    <3>1. IsMeta(t) /\ t.name = None /\ t.link = None /\ t.pax = None
      BY <1>3 DEF Ready
    <3>2. \A f \in MetaFields : t[f] = NoMeta[f]
      BY <3>1 DEF NoMeta, MetaFields
    <3> QED
      BY <3>1, <3>2, NoMetaIsMeta DEF IsMeta
  <2>6. HeaderReady(t)'
    BY <1>4, <2>2, <2>3, <2>4, <2>5 DEF HeaderReady
  <2> QED
    BY <2>1, <2>6 DEF Building, t
<1>6. CASE req.how # "raw"
  <2>1. hd' = StartOf(req) /\ step' = "path"
    BY <1>1, <1>6 DEF FromFs, StartOf
  <2>2. PathKept(t, req) /\ t.name = None
    BY <1>3 DEF Ready, PathKept
  <2>3. Core(hd', StartOf(req))
    BY <2>1 DEF Core
  <2> QED
    BY <1>4, <1>6, <2>1, <2>2, <2>3 DEF Building, t
<1> QED
  BY <1>5, <1>6

\* A long name in front of a member is read back.
LEMMA LongNameFacts ==
    ASSUME NEW p \in PathType
    PROVE  /\ PathLen(p) + 1 \in Nat /\ Collected(DataCells(p, PathLen(p) + 1)) = p
<1> DEFINE n == PathLen(p) + 1
           d == DataCells(p, n)
<1>1. n \in Nat /\ n - 1 \in Nat /\ n >= n - 1 /\ 1 \in 1..n
  BY PathLenIsNat
<1> HIDE DEF n
<1>2. /\ IsSeq(d) /\ Len(d) = n
      /\ \A i \in 1..n : d[i] = [k |-> "data", body |-> p, i |-> i, of |-> n]
  BY <1>1, DataCellsFacts
<1>3. d[1].of = n /\ d[1].body = p /\ d # <<>>
  <2>1. d[1] = [k |-> "data", body |-> p, i |-> 1, of |-> n]
    BY <1>1, <1>2
  <2>2. d # <<>>
    BY <1>1, <1>2, EmptyIsSeq
  <2> QED
    BY <2>1, <2>2
<1> HIDE DEF d
<1>4. Len(d) >= d[1].of - 1
  BY <1>1, <1>2, <1>3
<1>5. Collected(d) = p
  BY <1>3, <1>4 DEF Collected
<1> QED
  BY <1>1, <1>5 DEF n, d

\* What a long name or link name adds to what is pending.
LEMMA MetaSet ==
    ASSUME NEW t, IsMeta(t), NEW k \in MetaFields, NEW d
    PROVE  /\ IsMeta(Put(t, k, d))
           /\ \A f \in MetaFields : Put(t, k, d)[f] = IF f = k THEN d ELSE t[f]
<1> DEFINE u == Put(t, k, d)
<1>1. u = [f \in MetaFields |-> IF f = k THEN d ELSE t[f]]
  BY DEF IsMeta, Put
<1> HIDE DEF u
<1>2. \A f \in MetaFields : u[f] = IF f = k THEN d ELSE t[f]
  BY <1>1
<1>3. IsMeta(u)
  BY <1>1, <1>2 DEF IsMeta
<1> QED
  BY <1>2, <1>3 DEF u

\* The archive with the member that carries a long name.
LEMMA LongGrows ==
    ASSUME NEW F, NEW T, NEW M, Chain(F, T, M), NEW p \in PathType,
           NEW t \in {"GNULongName", "GNULongLink"}, NEW k,
           k = IF t = "GNULongName" THEN "name" ELSE "link", T[Len(F)][k] = None
    PROVE  \E G, U : /\ G = F \o LongCells(p, t) /\ Chain(G, U, M)
                     /\ U[Len(G)] = Put(T[Len(F)], k, DataCells(p, PathLen(p) + 1))
<1> DEFINE n == PathLen(p) + 1
           h == PrepareHeader(PathLen(p), t)
<1>1. n \in Nat /\ PathLen(p) \in Nat
  BY PathLenIsNat
<1>2. /\ h.sum /\ EntryTypeOf(h) = t /\ EntrySize(h) = n
      /\ MetaKind(h) = IF t = "GNULongName" THEN "name" ELSE "link"
  BY <1>1, LongHeaderFacts
<1>3. LongCells(p, t) = MemberCells(h, p, n)
  BY DEF LongCells
<1> HIDE DEF n, h
<1>4. PICK G : G = F \o MemberCells(h, p, n)
  OBVIOUS
<1>5. IsSeq(F)
  BY DEF Chain
<1>6. Grown(G, F, h, p, n)
  BY <1>1, <1>4, <1>5, MemberShape
<1>7. PICK u : u = Put(T[Len(F)], k, DataCells(p, n))
  OBVIOUS
<1>8. IsMeta(T[Len(F)])
  BY DEF Chain
<1>9. k \in MetaFields
  BY DEF MetaFields
<1>10. IsMeta(u)
  BY <1>7, <1>8, <1>9, MetaSet
<1>11. PICK U : U = Further(T, Len(F), Len(G), u)
  OBVIOUS
<1>12. MetaKind(h) = k /\ MetaKind(h) # None /\ EntryTypeOf(h) # "GNUSparse"
  BY <1>2, NoneAssumption
<1>13. Chain(G, U, M) /\ U[Len(G)] = u
  <2>1. Adds(T[Len(F)], Len(F), h, DataCells(p, n), M, M, u)
    BY <1>7, <1>9, <1>12 DEF Adds
  <2>2. EntrySize(h) = n /\ h.sum /\ EntryTypeOf(h) # "GNUSparse"
    BY <1>2, <1>12
  <2> QED
    BY <1>1, <1>6, <1>10, <1>11, <2>1, <2>2, ChainGrows
<1>14. G = F \o LongCells(p, t)
  BY <1>3, <1>4
<1> QED
  BY <1>7, <1>13, <1>14 DEF n

LEMMA PathFitsStep ==
    ASSUME NEW F, NEW T, Source, Built(F, T), PlainRest(todo), PathFits
    PROVE  Building(T[Len(F)])'
<1> DEFINE t == T[Len(F)]
<1>1. /\ step = "path" /\ SetPathOk(hd, req.p) /\ hd' = SetPath(hd, req.p) /\ step' = "link"
      /\ UNCHANGED todo /\ req' = req /\ todo # <<>>
  BY DEF PathFits, req, Source
<1>2. RequestOk(req) /\ PlainRequest(req) /\ IsHeader(hd)
  BY <1>1, PlainFacts DEF Source
<1>3. /\ req.how # "raw" /\ PathKept(t, req) /\ Core(hd, StartOf(req)) /\ hd = StartOf(req)
      /\ t.name = None
  BY <1>1 DEF Built, Building
<1> HIDE DEF t
<1>4. IsHeader(hd') /\ Core(hd', hd)
  BY <1>1, <1>2, PathKeepsCore
<1>5. Core(hd', StartOf(req))
  BY <1>3, <1>4 DEF Core
<1>6. hd.format = "ustar" => hd.prefix = NoPath
  <2>1. CASE req.how \in {"Regular", "Directory", "Symlink"}
    BY <1>3, <2>1 DEF StartOf, NewHeader
  <2>2. CASE req.how = "data"
    BY <1>2, <1>3, <2>2 DEF StartOf, PlainRequest
  <2> QED
    BY <1>2, <1>3, <2>1, <2>2 DEF RequestOk
<1>7. PathOf(hd') = req.p
  <2>1. req.p \in PathType /\ \A i \in 1..Len(req.p.comps) : req.p.comps[i] # CurDir
    BY <1>2, <1>3 DEF RequestOk, PlainRequest
  <2> QED
    BY <1>1, <1>2, <1>6, <2>1, PathComesBack
<1> DEFINE e == [h |-> hd', meta |-> t]
<1>8. e.h = hd' /\ e.meta = t
  OBVIOUS
<1> HIDE DEF e
<1>9. EntryPath(e) = req.p
  BY <1>3, <1>7, <1>8 DEF EntryPath, PathKept
<1> QED
  BY <1>1, <1>3, <1>5, <1>9 DEF Building, t, e

\* The path behind a long name.
LEMMA PathCutStep ==
    ASSUME NEW F, NEW T, Source, Built(F, T), PlainRest(todo), PathCut
    PROVE  Building(T[Len(F)])'
<1> DEFINE t == T[Len(F)]
<1>1. /\ step = "cut" /\ hd' = SetPath(hd, CutPath(req.p, NameLen)) /\ step' = "link"
      /\ UNCHANGED todo /\ req' = req /\ todo # <<>>
  BY DEF PathCut, req, Source
<1>2. RequestOk(req) /\ PlainRequest(req) /\ IsHeader(hd)
  BY <1>1, PlainFacts DEF Source
<1>3. /\ req.how # "raw" /\ PathKept(t, req) /\ Core(hd, StartOf(req))
      /\ t.name = DataCells(req.p, PathLen(req.p) + 1)
  BY <1>1 DEF Built, Building
<1> HIDE DEF t
<1>4. Core(hd', hd)
  BY <1>1, <1>2, PathKeepsCore
<1>5. Core(hd', StartOf(req))
  BY <1>3, <1>4 DEF Core
<1>6. t.name # None /\ Collected(t.name) = req.p
  BY <1>2, <1>3, LongNameFacts DEF RequestOk, PlainRequest
<1> DEFINE e == [h |-> hd', meta |-> t]
<1>7. e.h = hd' /\ e.meta = t
  OBVIOUS
<1> HIDE DEF e
<1>8. EntryPath(e) = req.p
  BY <1>6, <1>7 DEF EntryPath
<1> QED
  BY <1>1, <1>3, <1>5, <1>8 DEF Building, t, e

LEMMA PathLongStep ==
    ASSUME NEW F, NEW T, Source, Built(F, T), PlainRest(todo), PathLong
    PROVE  \E G, U : Chain(G, U, members') /\ Shown(G)' /\ Building(U[Len(G)])'
<1> DEFINE t == T[Len(F)]
<1>1. /\ step = "path" /\ hd' = SetPathLeaves(hd, req.p) /\ step' = "cut"
      /\ bytes' = bytes \o LongCells(req.p, "GNULongName")
      /\ UNCHANGED <<todo, members>> /\ req' = req /\ todo # <<>>
  BY DEF PathLong, req, Source
<1>2. RequestOk(req) /\ PlainRequest(req) /\ IsHeader(hd) /\ req.p \in PathType
  BY <1>1, PlainFacts DEF Source, RequestOk
<1>3. /\ req.how # "raw" /\ PathKept(t, req) /\ Core(hd, StartOf(req)) /\ t.name = None
  BY <1>1 DEF Built, Building
<1>4. Chain(F, T, members) /\ bytes = F
  BY <1>1 DEF Built, Shown
<1>5. PICK G, U : /\ G = F \o LongCells(req.p, "GNULongName") /\ Chain(G, U, members)
                  /\ U[Len(G)] = Put(t, "name", DataCells(req.p, PathLen(req.p) + 1))
  BY <1>2, <1>3, <1>4, LongGrows
<1> DEFINE u == U[Len(G)]
           d == DataCells(req.p, PathLen(req.p) + 1)
<1>6. Chain(G, U, members')
  BY <1>1, <1>5
<1>7. Shown(G)'
  <2>1. IsSeq(G) /\ bytes' = G /\ step' # "closed"
    BY <1>1, <1>4, <1>5 DEF Chain
  <2> QED
    BY <2>1, ShownWhole
<1>8. IsMeta(t) /\ t.link = None /\ (t.pax # None => PaxValue(t.pax, "path") \in {None, req.p})
  BY <1>3 DEF PathKept
<1>9. u = Put(t, "name", d)
  BY <1>5
<1> HIDE DEF t, u, d
<1>10. IsMeta(u) /\ u.name = d /\ u.link = t.link /\ u.pax = t.pax
  <2>1. "name" \in MetaFields /\ "link" \in MetaFields /\ "pax" \in MetaFields
    BY DEF MetaFields
  <2>2. IsMeta(u) /\ \A f \in MetaFields : u[f] = IF f = "name" THEN d ELSE t[f]
    BY <1>8, <1>9, <2>1, MetaSet
  <2> QED
    BY <2>1, <2>2
<1>11. PathKept(u, req)
  BY <1>8, <1>10 DEF PathKept
<1>12. Core(hd', hd)
  BY <1>1, <1>2, PathKeepsCore
<1>13. Core(hd', StartOf(req))
  BY <1>3, <1>12 DEF Core
<1>14. Building(u)'
  BY <1>1, <1>3, <1>10, <1>11, <1>13 DEF Building, u, d
<1> QED
  BY <1>6, <1>7, <1>14 DEF u

LEMMA HeaderPut ==
    ASSUME NEW h, IsHeader(h), NEW f \in HeaderFields, NEW v
    PROVE  /\ IsHeader(Put(h, f, v))
           /\ \A g \in HeaderFields : Put(h, f, v)[g] = IF g = f THEN v ELSE h[g]
<1> DEFINE k == Put(h, f, v)
<1>1. k = [g \in HeaderFields |-> IF g = f THEN v ELSE h[g]]
  BY DEF IsHeader, Put
<1> HIDE DEF k
<1>2. \A g \in HeaderFields : k[g] = IF g = f THEN v ELSE h[g]
  BY <1>1
<1>3. IsHeader(k)
  BY <1>1, <1>2 DEF IsHeader
<1> QED
  BY <1>2, <1>3 DEF k

\* A checksum, after a link name or not.
Sealed(h, g) == /\ h.sum = TRUE /\ h.format = g.format /\ h.flag = g.flag /\ h.name = g.name
                /\ h.prefix = g.prefix /\ h.size = g.size
LEMMA CksumKeeps ==
    ASSUME NEW g, IsHeader(g), NEW p, NEW x, x \in {g, SetLink(g, p), SetLinkLeaves(g, p)},
           NEW h, h = SetCksum(x)
    PROVE  Sealed(h, g) /\ (x = g => h.link = g.link) /\ (x = SetLink(g, p) => h.link = p)
<1> DEFINE Same(k) == /\ IsHeader(k) /\ k.format = g.format /\ k.flag = g.flag /\ k.name = g.name
                      /\ k.prefix = g.prefix /\ k.size = g.size
<1>1. Same(g)
  OBVIOUS
<1>2. ASSUME NEW k, Same(k), NEW v
      PROVE  /\ Same(Put(k, "link", v)) /\ Put(k, "link", v).link = v
             /\ Same(Put(k, "sum", v)) /\ Put(k, "sum", v).link = k.link
             /\ Put(k, "sum", v).sum = v
  <2>0. IsHeader(k)
    BY <1>2
  <2>1. /\ "format" \in HeaderFields /\ "flag" \in HeaderFields /\ "name" \in HeaderFields
        /\ "prefix" \in HeaderFields /\ "size" \in HeaderFields /\ "link" \in HeaderFields
        /\ "sum" \in HeaderFields
    BY DEF HeaderFields
  <2>2. /\ IsHeader(Put(k, "link", v))
        /\ \A f \in HeaderFields : Put(k, "link", v)[f] = IF f = "link" THEN v ELSE k[f]
    BY <2>0, <2>1, HeaderPut
  <2>3. /\ IsHeader(Put(k, "sum", v))
        /\ \A f \in HeaderFields : Put(k, "sum", v)[f] = IF f = "sum" THEN v ELSE k[f]
    BY <2>0, <2>1, HeaderPut
  <2> QED
    BY <1>2, <2>1, <2>2, <2>3
<1> HIDE DEF Same
<1>3. Same(SetLink(g, p)) /\ SetLink(g, p).link = p
  <2>1. SetLink(g, p) = Put(Put(g, "link", p), "sum", FALSE)
    BY DEF SetLink, Put
  <2>2. Same(Put(g, "link", p)) /\ Put(g, "link", p).link = p
    BY <1>1, <1>2
  <2>3. Same(Put(Put(g, "link", p), "sum", FALSE))
        /\ Put(Put(g, "link", p), "sum", FALSE).link = Put(g, "link", p).link
    BY <1>2, <2>2, Zenon
  <2> QED
    BY <2>1, <2>2, <2>3, Zenon
<1>4. Same(SetLinkLeaves(g, p))
  <2>1. \E a : SetLinkLeaves(g, p) = Put(g, "link", a)
    BY Zenon DEF SetLinkLeaves, Put
  <2> QED
    BY <1>1, <1>2, <2>1
<1>5. Same(x) /\ (x = SetLink(g, p) => x.link = p)
  BY <1>1, <1>3, <1>4
<1>6. h = Put(x, "sum", TRUE)
  BY DEF SetCksum, Put
<1>7. Same(h) /\ h.link = x.link /\ h.sum = TRUE
  <2>1. /\ Same(Put(x, "sum", TRUE)) /\ Put(x, "sum", TRUE).link = x.link
        /\ Put(x, "sum", TRUE).sum = TRUE
    BY <1>2, <1>5, Zenon
  <2> QED
    BY <1>6, <2>1, Zenon
<1> QED
  BY <1>5, <1>7 DEF Same, Sealed

\* A header that gives the names asked for, with what is pending.
LEMMA NamesTitled ==
    ASSUME NEW t, NEW u, NEW g, NEW h, NEW r,
           EntryPath([h |-> g, meta |-> t]) = r.p, PathOf(h) = PathOf(g),
           u.name = t.name, u.pax = t.pax,
           t.pax # None => PaxValue(t.pax, "path") \in {None, r.p},
           \/ u.link = None /\ LinkNameOf(h) = r.link
           \/ u.link # None /\ Collected(u.link) = r.link
    PROVE  Titled(u, h, [path |-> r.p, link |-> r.link])
<1> DEFINE d == [h |-> g, meta |-> t]
           e == [h |-> h, meta |-> u]
           m == [path |-> r.p, link |-> r.link]
<1>1. /\ d.h = g /\ d.meta = t /\ e.h = h /\ e.meta = u /\ m.path = r.p /\ m.link = r.link
      /\ EntryPath(d) = r.p
  OBVIOUS
<1> HIDE DEF d, e, m
<1>2. EntryPath(e) = EntryPath(d)
  BY <1>1 DEF EntryPath
<1>3. EntryLink(e) = r.link
  BY <1>1 DEF EntryLink
<1> QED
  BY <1>1, <1>2, <1>3 DEF Titled, e, m

\* The header is complete.
LEMMA ReadyWhenFilled ==
    ASSUME NEW u, IsMeta(u), hd'.sum, EntrySize(hd') = req.n, EntryTypeOf(hd') # "GNUSparse",
           MetaKind(hd') = None, req.how # "raw", req' = req, step' = "write",
           Titled(u, hd', [path |-> req.p, link |-> req.link])
    PROVE  Building(u)'
<1>1. ~IsPax(req)
  BY DEF IsPax
<1>2. HeaderReady(u)'
  BY <1>1 DEF HeaderReady
<1> QED
  BY <1>2 DEF Building

\* The metadata and the type.
LEMMA TypeFilled ==
    ASSUME Source, PlainRest(todo), step = "link", req.how # "raw", Core(hd, StartOf(req)),
           NEW g, g = IF FromFs THEN FillFrom(hd) ELSE hd
    PROVE  /\ IsHeader(g) /\ PathOf(g) = PathOf(hd) /\ EntrySize(g) = req.n
           /\ EntryTypeOf(g) # "GNUSparse" /\ MetaKind(g) = None
           /\ req.how # "Symlink" => g.link = req.link
<1>1. RequestOk(req) /\ PlainRequest(req) /\ IsHeader(hd)
  BY PlainFacts DEF Source
<1>2. CASE FromFs
  <2>1. hd.format = "gnu" /\ hd.link = NoPath
    BY <1>2 DEF FromFs, StartOf, Core, NewHeader
  <2>2. g = SetSize(SetEntryType(hd, req.how), req.n)
    BY <1>1, <1>2 DEF FillFrom, FromFs, PlainRequest
  <2>3. req.n \in Nat
    BY <1>1 DEF RequestOk
  <2>4. req.how \in {"Regular", "Symlink", "Directory"}
    BY <1>2 DEF FromFs
  <2>5. /\ IsHeader(g) /\ EntryTypeOf(g) = req.how /\ EntrySize(g) = req.n /\ MetaKind(g) = None
        /\ g.format = hd.format /\ g.name = hd.name /\ g.prefix = hd.prefix /\ g.link = hd.link
    BY <1>1, <2>1, <2>2, <2>3, <2>4, FilledFacts
  <2>6. PathOf(g) = PathOf(hd)
    BY <2>5 DEF PathOf
  <2>7. req.how # "Symlink" => g.link = req.link
    BY <1>1, <2>1, <2>4, <2>5 DEF PlainRequest
  <2> QED
    BY <2>4, <2>5, <2>6, <2>7
<1>3. CASE ~FromFs
  <2>1. g = hd /\ req.how = "data" /\ Core(g, req.header)
    BY <1>1, <1>3 DEF FromFs, StartOf, RequestOk
  <2>2. /\ EntryTypeOf(g) = EntryTypeOf(req.header) /\ EntrySize(g) = EntrySize(req.header)
        /\ MetaKind(g) = MetaKind(req.header) /\ LinkNameOf(g) = LinkNameOf(req.header)
    BY <2>1, CoreFacts
  <2>3. /\ EntrySize(req.header) = req.n /\ EntryTypeOf(req.header) # "GNUSparse"
        /\ MetaKind(req.header) = None /\ LinkNameOf(req.header) = req.link
    BY <1>1, <2>1 DEF PlainRequest
  <2> QED
    BY <1>1, <2>1, <2>2, <2>3 DEF LinkNameOf
<1> QED
  BY <1>2, <1>3

LEMMA FillHeaderStep ==
    ASSUME NEW F, NEW T, Source, Built(F, T), PlainRest(todo), FillHeader
    PROVE  \E G, U : Chain(G, U, members') /\ Shown(G)' /\ Building(U[Len(G)])'
<1> DEFINE t == T[Len(F)]
           gg == IF FromFs THEN FillFrom(hd) ELSE hd
<1>1. /\ step = "link" /\ step' = "write" /\ UNCHANGED <<todo, members, whole>>
      /\ req' = req /\ todo # <<>>
  BY DEF FillHeader, req, Source
<1>2. PICK g : g = gg
  OBVIOUS
<1>3. PICK x : x = IF req.how # "Symlink" THEN g
                   ELSE IF SetLinkOk(g, req.link) THEN SetLink(g, req.link)
                   ELSE SetLinkLeaves(g, req.link)
  OBVIOUS
<1>4. /\ hd' = SetCksum(x)
      /\ bytes' = IF req.how # "Symlink" \/ SetLinkOk(g, req.link) THEN bytes
                  ELSE bytes \o LongCells(req.link, "GNULongLink")
  BY <1>2, <1>3 DEF FillHeader
<1>5. RequestOk(req) /\ PlainRequest(req) /\ req.link \in PathType
  BY <1>1, PlainFacts DEF RequestOk
<1>6. /\ req.how # "raw" /\ PathKept(t, req) /\ Core(hd, StartOf(req))
      /\ EntryPath([h |-> hd, meta |-> t]) = req.p
  BY <1>1 DEF Built, Building
<1>7. /\ IsHeader(g) /\ PathOf(g) = PathOf(hd) /\ EntrySize(g) = req.n
      /\ EntryTypeOf(g) # "GNUSparse" /\ MetaKind(g) = None
      /\ req.how # "Symlink" => g.link = req.link
  BY <1>1, <1>2, <1>6, TypeFilled
<1> HIDE DEF t, gg
<1>8. x \in {g, SetLink(g, req.link), SetLinkLeaves(g, req.link)}
  BY <1>3
<1>9. /\ hd'.sum = TRUE /\ hd'.format = g.format /\ hd'.flag = g.flag /\ hd'.name = g.name
      /\ hd'.prefix = g.prefix /\ hd'.size = g.size
      /\ x = g => hd'.link = g.link
      /\ x = SetLink(g, req.link) => hd'.link = req.link
  <2>1. PICK h : h = hd'
    OBVIOUS
  <2>2. h = SetCksum(x)
    BY <1>4, <2>1
  <2>3. Sealed(h, g) /\ (x = g => h.link = g.link) /\ (x = SetLink(g, req.link) => h.link = req.link)
    BY <1>7, <1>8, <2>2, CksumKeeps
  <2> QED
    BY <2>1, <2>3 DEF Sealed
<1>10. EntryTypeOf(hd') = EntryTypeOf(g) /\ EntrySize(hd') = EntrySize(g) /\ PathOf(hd') = PathOf(g)
  BY <1>9 DEF EntryTypeOf, EntrySize, PathOf
<1>11. MetaKind(hd') = MetaKind(g)
  BY <1>9, <1>10 DEF MetaKind
<1>12. hd'.sum /\ EntrySize(hd') = req.n /\ EntryTypeOf(hd') # "GNUSparse" /\ MetaKind(hd') = None
  BY <1>7, <1>9, <1>10, <1>11
<1>13. IsMeta(t) /\ t.link = None /\ (t.pax # None => PaxValue(t.pax, "path") \in {None, req.p})
  BY <1>6 DEF PathKept
<1>14. Chain(F, T, members) /\ bytes = F
  BY <1>1 DEF Built, Shown
<1>15. PathOf(hd') = PathOf(hd)
  BY <1>7, <1>10
<1>16. CASE req.how # "Symlink" \/ SetLinkOk(g, req.link)
  <2>1. bytes' = bytes /\ LinkNameOf(hd') = req.link
    BY <1>3, <1>4, <1>7, <1>9, <1>16 DEF LinkNameOf
  <2>2. Titled(t, hd', [path |-> req.p, link |-> req.link])
    BY <1>6, <1>13, <1>15, <2>1, NamesTitled
  <2>3. Building(t)'
    BY <1>1, <1>6, <1>12, <1>13, <2>2, ReadyWhenFilled
  <2>4. Shown(F)'
    BY <1>1, <1>14, <2>1, ShownWhole DEF Chain
  <2>5. Chain(F, T, members')
    BY <1>1, <1>14
  <2> QED
    BY <2>3, <2>4, <2>5 DEF t
<1>17. CASE ~(req.how # "Symlink" \/ SetLinkOk(g, req.link))
  <2>1. bytes' = F \o LongCells(req.link, "GNULongLink")
    BY <1>4, <1>14, <1>17
  <2>2. T[Len(F)]["link"] = None
    BY <1>13 DEF t
  <2>3. PICK G, U : /\ G = F \o LongCells(req.link, "GNULongLink") /\ Chain(G, U, members)
                    /\ U[Len(G)] = Put(t, "link", DataCells(req.link, PathLen(req.link) + 1))
    <3>1. PICK k : k = "link"
      OBVIOUS
    <3>2. k = IF "GNULongLink" = "GNULongName" THEN "name" ELSE "link"
      BY <3>1
    <3>3. T[Len(F)][k] = None
      BY <2>2, <3>1
    <3>4. \E G, U : /\ G = F \o LongCells(req.link, "GNULongLink") /\ Chain(G, U, members)
                    /\ U[Len(G)] = Put(T[Len(F)], k, DataCells(req.link, PathLen(req.link) + 1))
      <4>1. PICK p : p = req.link
        OBVIOUS
      <4>2. PICK c : c = "GNULongLink"
        OBVIOUS
      <4>3. c \in {"GNULongName", "GNULongLink"} /\ p \in PathType
            /\ k = IF c = "GNULongName" THEN "name" ELSE "link"
        BY <1>5, <3>1, <4>1, <4>2
      <4>4. Chain(F, T, members)
        BY <1>14
      <4>5. \E G, U : /\ G = F \o LongCells(p, c) /\ Chain(G, U, members)
                      /\ U[Len(G)] = Put(T[Len(F)], k, DataCells(p, PathLen(p) + 1))
        BY <3>3, <4>3, <4>4, LongGrows, SMTT(120)
      <4> QED
        BY <4>1, <4>2, <4>5
    <3> QED
      BY <3>1, <3>4 DEF t
  <2> DEFINE u == U[Len(G)]
             d == DataCells(req.link, PathLen(req.link) + 1)
  <2>4. d # None /\ Collected(d) = req.link
    BY <1>5, LongNameFacts DEF PlainRequest
  <2>5. u = Put(t, "link", d)
    BY <2>3
  <2> HIDE DEF u, d
  <2>6. IsMeta(u) /\ u.name = t.name /\ u.link = d /\ u.pax = t.pax
    <3>1. "name" \in MetaFields /\ "link" \in MetaFields /\ "pax" \in MetaFields
      BY DEF MetaFields
    <3>2. IsMeta(u) /\ \A f \in MetaFields : u[f] = IF f = "link" THEN d ELSE t[f]
      BY <1>13, <2>5, <3>1, MetaSet
    <3> QED
      BY <3>1, <3>2
  <2>7. Titled(u, hd', [path |-> req.p, link |-> req.link])
    BY <1>6, <1>13, <1>15, <2>4, <2>6, NamesTitled
  <2>8. Building(u)'
    BY <1>1, <1>6, <1>12, <2>6, <2>7, ReadyWhenFilled
  <2>9. Shown(G)'
    BY <1>1, <2>1, <2>3, ShownWhole DEF Chain
  <2>10. Chain(G, U, members')
    BY <1>1, <2>3
  <2> QED
    BY <2>8, <2>9, <2>10 DEF u
<1> QED
  BY <1>16, <1>17

\* The caller's next request, when what is pending is what the last one left.
LEMMA NextReady ==
    ASSUME Source, PlainRest(todo), todo # <<>>, todo' = Tail(todo), step' = "idle",
           NEW u, u = Pending(req)
    PROVE  Building(u)'
<1>1. IsSeq(todo) /\ Len(todo) \in Nat /\ 1 \in 1..Len(todo)
  BY PlainFacts
<1>2. /\ Len(todo') = Len(todo) - 1 /\ IsSeq(todo')
      /\ \A i \in 1..Len(todo) - 1 : todo'[i] = todo[i + 1]
  <2>1. todo \in Seq(Range(todo)) /\ todo # <<>>
    BY <1>1 DEF IsSeq
  <2>2. /\ Len(Tail(todo)) = Len(todo) - 1 /\ Tail(todo) \in Seq(Range(todo))
        /\ \A i \in 1..Len(Tail(todo)) : Tail(todo)[i] = todo[i + 1]
    BY <2>1, HeadTailProperties
  <2> QED
    BY <2>2, SeqIsSeq
<1>3. u = Pending(todo[1])
  BY DEF req
<1>4. todo' # <<>> => Ready(u, todo'[1])
  <2> SUFFICES ASSUME todo' # <<>> PROVE Ready(u, todo'[1])
    OBVIOUS
  <2>1. Len(todo') # 0
    BY <1>2, JoinEmpty
  <2>2. 2 \in 1..Len(todo) /\ 1 \in 1..Len(todo) - 1 /\ 1 + 1 = 2 /\ 2 > 1 /\ 2 - 1 = 1
    BY <1>1, <1>2, <2>1
  <2>3. Ready(Pending(todo[1]), todo[2])
    BY <2>2 DEF PlainRest
  <2> QED
    BY <1>2, <1>3, <2>2, <2>3
<1> QED
  BY <1>4 DEF Building, req

\* What a request leaves is what a reader has then collected.
LEMMA PendingFacts ==
    ASSUME NEW r
    PROVE  /\ IsMeta(Pending(r))
           /\ ~IsPax(r) => Pending(r) = NoMeta
           /\ IsPax(r) => Pending(r) = Put(NoMeta, "pax", DataCells(r.body, r.n))
<1>1. "pax" \in MetaFields /\ IsMeta(NoMeta)
  BY NoMetaIsMeta DEF MetaFields
<1>2. IsMeta(Put(NoMeta, "pax", DataCells(r.body, r.n)))
  BY <1>1, MetaSet
<1> QED
  BY <1>1, <1>2 DEF Pending, Put

LEMMA WriteMemberStep ==
    ASSUME NEW F, NEW T, Source, Built(F, T), PlainRest(todo), WriteMember
    PROVE  \E G, U : Chain(G, U, members') /\ Shown(G)' /\ Building(U[Len(G)])'
<1>1. /\ step = "write" /\ step' = "idle" /\ todo' = Tail(todo) /\ todo # <<>>
      /\ bytes' = bytes \o MemberCells(hd, req.body, req.n)
      /\ members' = IF ~IsMember THEN members
                    ELSE Append(members, [at |-> Len(bytes) + Block, path |-> req.p,
                                          link |-> req.link, data |-> req.data])
  BY DEF WriteMember, Source
<1>2. RequestOk(req) /\ PlainRequest(req) /\ req.n \in Nat
  BY <1>1, PlainFacts DEF RequestOk
<1>3. HeaderReady(T[Len(F)])
  BY <1>1 DEF Built, Building
<1>4. Chain(F, T, members) /\ bytes = F /\ IsSeq(F)
  BY <1>1 DEF Built, Shown, Chain
<1>5. PICK h, M : h = hd /\ M = members
  OBVIOUS
<1>6. Chain(F, T, M)
  BY <1>4, <1>5
<1>7. PICK n : n = req.n
  OBVIOUS
<1>8. PICK body : body = req.body
  OBVIOUS
<1>9. PICK G : G = F \o MemberCells(h, body, n)
  OBVIOUS
<1>10. n \in Nat
  BY <1>2, <1>7
<1>11. Grown(G, F, h, body, n)
  BY <1>4, <1>9, <1>10, MemberShape
<1>12. PICK u : u = Pending(req)
  OBVIOUS
<1>13. IsMeta(u)
  BY <1>12, PendingFacts
<1>14. PICK U : U = Further(T, Len(F), Len(G), u)
  OBVIOUS
<1>15. EntrySize(h) = n /\ h.sum /\ EntryTypeOf(h) # "GNUSparse"
  BY <1>3, <1>5, <1>7 DEF HeaderReady
<1>16. PICK N : N = members'
  OBVIOUS
<1>17. IsMember <=> MetaKind(h) = None
  BY <1>5, NoneAssumption DEF IsMember, MetaKind
<1>18. MetaKind(h) = None => Chain(G, U, N) /\ U[Len(G)] = u
  <2> SUFFICES ASSUME MetaKind(h) = None PROVE Chain(G, U, N) /\ U[Len(G)] = u
    OBVIOUS
  <2>1. u = NoMeta /\ Titled(T[Len(F)], h, [path |-> req.p, link |-> req.link])
    BY <1>3, <1>5, <1>12, PendingFacts DEF HeaderReady
  <2>2. PICK m : m = [at |-> Len(bytes) + Block, path |-> req.p, link |-> req.link, data |-> req.data]
    OBVIOUS
  <2>3. N = Append(M, m)
    BY <1>1, <1>5, <1>16, <1>17, <2>2
  <2>4. m.at = Len(F) + 2 /\ m.data = req.data /\ m.path = req.p /\ m.link = req.link
    BY <1>4, <2>2 DEF Block
  <2>5. m.data = DataCells(body, n)
    BY <1>2, <1>7, <1>8, <2>4 DEF PlainRequest
  <2>6. Titled(T[Len(F)], h, m)
    BY <2>1, <2>4 DEF Titled
  <2>7. Adds(T[Len(F)], Len(F), h, DataCells(body, n), M, N, u)
    BY <2>1, <2>3, <2>4, <2>5, <2>6 DEF Adds
  <2> QED
    BY <1>10, <1>11, <1>13, <1>14, <1>15, <1>6, <2>7, ChainGrows
<1>19. Chain(G, U, N) /\ U[Len(G)] = u
  <2>1. CASE MetaKind(h) # None
    <3>1. IsPax(req) /\ MetaKind(h) = "pax" /\ T[Len(F)] = NoMeta /\ N = members
      BY <1>1, <1>3, <1>5, <1>16, <1>17, <2>1 DEF HeaderReady
    <3>2. PICK c : c = MetaKind(h)
      OBVIOUS
    <3>3. u = Put(NoMeta, "pax", DataCells(body, n))
      BY <1>7, <1>8, <1>12, <3>1, PendingFacts
    <3>4. c \in MetaFields /\ NoMeta[c] = None
      BY <3>1, <3>2 DEF MetaFields, NoMeta
    <3>5. Adds(T[Len(F)], Len(F), h, DataCells(body, n), M, N, u)
      BY <1>5, <2>1, <3>1, <3>2, <3>3, <3>4 DEF Adds
    <3> QED
      BY <1>10, <1>11, <1>13, <1>14, <1>15, <1>6, <3>5, ChainGrows
  <2> QED
    BY <1>18, <2>1
<1>20. Shown(G)'
  <2>1. bytes' = G /\ IsSeq(G)
    BY <1>1, <1>4, <1>5, <1>7, <1>8, <1>9, <1>11 DEF Grown
  <2> QED
    BY <1>1, <2>1, ShownWhole
<1>21. Building(u)'
  BY <1>1, <1>12, NextReady
<1> QED
  BY <1>16, <1>19, <1>20, <1>21

LEMMA PathFailsStep ==
    ASSUME NEW F, NEW T, Built(F, T), PathFails
    PROVE  Chain(F, T, members') /\ Shown(F)' /\ Building(T[Len(F)])'
<1>1. step # "closed" /\ todo' = <<>> /\ step' = "idle" /\ UNCHANGED <<hd, bytes, members>>
  BY DEF PathFails
<1>2. Chain(F, T, members') /\ Shown(F)'
  <2>1. Chain(F, T, members) /\ bytes = F /\ IsSeq(F)
    BY <1>1 DEF Built, Shown, Chain
  <2> QED
    BY <1>1, <2>1, ShownWhole
<1> QED
  BY <1>1, <1>2 DEF Building

\* The archive is closed, or cut.
LEMMA CloseStep ==
    ASSUME NEW F, NEW T, Built(F, T), Close
    PROVE  Chain(F, T, members') /\ Shown(F)' /\ Building(T[Len(F)])'
<1>1. step = "idle" /\ bytes' = bytes \o Zeros(2 * Block) /\ step' = "closed" /\ members' = members
  BY DEF Close
<1>2. Chain(F, T, members) /\ bytes = F /\ IsSeq(F) /\ Len(F) \in Nat
  BY <1>1, SeqFacts DEF Built, Shown, Chain
<1>3. PICK z : z = Zeros(2 * Block)
  OBVIOUS
<1>4. IsSeq(z) /\ Len(z) = 4 /\ \A i \in 1..4 : z[i] = Zero
  <2>1. 2 * Block \in Nat /\ 2 * Block = 4
    BY DEF Block
  <2> QED
    BY <1>3, <2>1, ZerosFacts
<1>5. PICK b : b = F \o z
  OBVIOUS
<1>6. /\ IsSeq(b) /\ Len(b) = Len(F) + 4 /\ \A i \in 1..Len(F) : b[i] = F[i]
      /\ \A i \in 1..4 : b[Len(F) + i] = z[i]
  <2>1. /\ IsSeq(b) /\ Len(b) = Len(F) + Len(z) /\ \A i \in 1..Len(F) : b[i] = F[i]
        /\ \A i \in 1..Len(z) : b[Len(F) + i] = z[i]
    <3>1. /\ IsSeq(F \o z) /\ Len(F \o z) = Len(F) + Len(z)
          /\ \A i \in 1..Len(F) : (F \o z)[i] = F[i]
          /\ \A i \in 1..Len(z) : (F \o z)[Len(F) + i] = z[i]
      <4>1. IsSeq(F) /\ IsSeq(z)
        BY <1>2, <1>4
      <4> QED
        BY <4>1, JoinFacts
    <3> QED
      BY <1>5, <3>1
  <2> QED
    BY <1>4, <2>1
<1>7. bytes' = b
  BY <1>1, <1>2, <1>3, <1>5
<1>8. ASSUME NEW i \in 1..Len(b) PROVE b[i] = IF i <= Len(F) THEN F[i] ELSE Zero
  <2>1. CASE i <= Len(F)
    BY <1>2, <1>6, <2>1
  <2>2. CASE ~(i <= Len(F))
    <3>1. i - Len(F) \in 1..4 /\ Len(F) + (i - Len(F)) = i
      BY <1>2, <1>6, <2>2
    <3>2. b[Len(F) + (i - Len(F))] = z[i - Len(F)] /\ z[i - Len(F)] = Zero
      BY <1>4, <1>6, <3>1
    <3> QED
      BY <2>2, <3>1, <3>2
  <2> QED
    BY <2>1, <2>2
<1>9. Shown(F)'
  BY <1>1, <1>6, <1>7, <1>8 DEF Shown
<1> QED
  BY <1>1, <1>2, <1>9 DEF Building

LEMMA TruncateStep ==
    ASSUME NEW F, NEW T, Built(F, T), NEW n \in Cuts, Truncate(n)
    PROVE  Chain(F, T, members') /\ Shown(F)' /\ Building(T[Len(F)])'
<1>1. /\ step = "idle" /\ n < Len(bytes) /\ bytes' = SubSeq(bytes, 1, n) /\ whole' = FALSE
      /\ step' = "closed" /\ members' = members
  BY DEF Truncate
<1>2. Chain(F, T, members) /\ bytes = F /\ IsSeq(F) /\ Len(F) \in Nat /\ n \in Nat
  BY <1>1, SeqFacts, CutsAssumption DEF Built, Shown, Chain
<1>3. PICK b : b = SubSeq(F, 1, n)
  OBVIOUS
<1>4. IsSeq(b) /\ Len(b) = n /\ \A i \in 1..n : b[i] = F[i]
  <2>1. 1 \in Nat /\ 1 <= n + 1 /\ n <= Len(F)
    BY <1>1, <1>2
  <2>2. /\ IsSeq(b) /\ Len(b) = n - 1 + 1
        /\ \A i \in 1..n - 1 + 1 : b[i] = F[1 + i - 1]
    BY <1>2, <1>3, <2>1, PartFacts
  <2>3. n - 1 + 1 = n /\ \A i \in 1..n : 1 + i - 1 = i
    BY <1>2
  <2> QED
    BY <2>2, <2>3
<1>5. bytes' = b /\ n < Len(F)
  BY <1>1, <1>2, <1>3
<1>6. Shown(F)'
  <2>1. \A i \in 1..Len(b) : b[i] = IF i <= Len(F) THEN F[i] ELSE Zero
    BY <1>2, <1>4, <1>5
  <2> QED
    BY <1>1, <1>4, <1>5, <2>1 DEF Shown
<1> QED
  BY <1>1, <1>2, <1>6 DEF Building

\* What is built, when nothing of it is read before it is closed.
LEMMA BuiltStep ==
    ASSUME NEW F, NEW T, Source, Built(F, T), PlainRest(todo), BuilderNext
    PROVE  \E G, U : Chain(G, U, members') /\ Shown(G)' /\ Building(U[Len(G)])'
<1>1. CASE Start \/ PathFits \/ PathCut
  <2>1. /\ UNCHANGED <<bytes, members>> /\ step # "closed" /\ step' # "closed"
    BY <1>1 DEF Start, PathFits, PathCut
  <2>2. Chain(F, T, members) /\ Shown(F)
    BY DEF Built
  <2>3. Chain(F, T, members)' /\ Shown(F)'
    BY <2>1, <2>2, SameArchive
  <2>4. Building(T[Len(F)])'
    BY <1>1, StartStep, PathFitsStep, PathCutStep
  <2> QED
    BY <2>3, <2>4
<1>2. CASE PathLong \/ FillHeader \/ WriteMember
  BY <1>2, PathLongStep, FillHeaderStep, WriteMemberStep
<1>3. CASE PathFails \/ Close \/ \E n \in Cuts : Truncate(n)
  <2>1. Chain(F, T, members') /\ Shown(F)' /\ Building(T[Len(F)])'
    BY <1>3, PathFailsStep, CloseStep, TruncateStep
  <2> QED
    BY <2>1
<1> QED
  BY <1>1, <1>2, <1>3 DEF BuilderNext

-----------------------------------------------------------------------------
(* Building and reading together.                                          *)

PlainInv ==
    /\ AppendInv /\ Unread /\ Caps /\ PlainRest(todo)
    /\ \E F, T : Built(F, T) /\ Reading(F, T)

LEMMA PlainStarts == ASSUME Init, PlainJob(todo) PROVE PlainInv
<1> USE DEF Init, BuilderInit
<1>1. AppendInv /\ ReaderInit
  BY AppendInit
<1>2. Unread /\ Caps
  <2>1. Len(pipe.cells) = 0
    BY EmptyIsSeq DEF NoPipe
  <2> QED
    BY <1>1, <2>1, TarConcatAssumption DEF Unread, Caps
<1>3. PICK F, T : F = <<>> /\ T = [p \in {0} |-> NoMeta]
  OBVIOUS
<1>4. IsSeq(F) /\ Len(F) = 0 /\ T[0] = NoMeta /\ Heads(F) = {}
  <2>1. IsSeq(F) /\ Len(F) = 0 /\ T[0] = NoMeta
    BY <1>3, EmptyIsSeq
  <2> QED
    BY <2>1 DEF Heads
<1>5. Chain(F, T, members)
  <2>1. members = <<>> /\ IsSeq(members) /\ Len(members) = 0
    BY EmptyIsSeq
  <2> QED
    BY <1>4, <2>1, NoMetaIsMeta DEF Chain
<1>6. Shown(F)
  BY <1>3, <1>4 DEF Shown
<1>7. Building(T[Len(F)])
  <2>1. todo # <<>> => Ready(NoMeta, req)
    BY DEF PlainJob, req
  <2> QED
    BY <1>4, <2>1 DEF Building
<1>8. Reading(F, T)
  BY <1>1, <1>4, <1>5, ReadingInit DEF Shown
<1> QED
  BY <1>1, <1>2, <1>5, <1>6, <1>7, <1>8 DEF PlainInv, PlainJob, Built

\* The builder's part is not touched by the other actors.
LEMMA BuiltKept ==
    ASSUME NEW F, NEW T, Built(F, T), UNCHANGED builderVars
    PROVE  Built(F, T)'
<1>1. UNCHANGED <<todo, step, hd, bytes, members, whole>> /\ UNCHANGED req
  BY DEF builderVars, req
<1>2. Chain(F, T, members')
  BY <1>1 DEF Built
<1>3. Shown(F)'
  BY <1>1 DEF Built, Shown
<1>4. Building(T[Len(F)])'
  BY <1>1 DEF Built, Building, HeaderReady
<1> QED
  BY <1>2, <1>3, <1>4 DEF Built

LEMMA CellsAdded ==
    ASSUME AppenderTypes, NEW b, IsSeq(b), NEW k \in 0..Len(b), k <= Room,
           pipe' = [pipe EXCEPT !.cells = @ \o Take(b, k)]
    PROVE  Len(pipe'.cells) <= PipeCap
<1> DEFINE c == pipe.cells
           d == Take(b, k)
<1>1. IsSeq(c) /\ IsSeq(d) /\ Len(d) = k
  BY TakeDrop DEF AppenderTypes
<1>2. /\ pipe = [cells |-> pipe.cells, entry |-> pipe.entry, reading |-> pipe.reading,
                 open |-> pipe.open]
      /\ k <= PipeCap - Len(c)
  BY DEF AppenderTypes, Room
<1> HIDE DEF d
<1>3. pipe'.cells = c \o d
  BY <1>2 DEF d
<1> HIDE DEF c
<1>4. Len(c \o d) = Len(c) + k /\ Len(c) \in Nat /\ k \in Nat
  BY <1>1, JoinFacts, SeqFacts
<1> QED
  BY <1>2, <1>3, <1>4, TarConcatAssumption

\* The pipe holds no more than its capacity.
LEMMA CapsStep == ASSUME AppendInv, Caps, [Next]_vars PROVE Caps'
<1> USE DEF Caps
<1>0. /\ AppenderTypes /\ IsSeq(pipe.cells) /\ Len(pipe.cells) \in Nat
      /\ pipe = [cells |-> pipe.cells, entry |-> pipe.entry, reading |-> pipe.reading,
                 open |-> pipe.open]
  BY SeqFacts DEF AppendInv, AppenderTypes
<1>1. CASE UNCHANGED <<at, pipe>>
  BY <1>1
<1>2. CASE BeginEntry
  <2>1. at' = "copy" /\ (pipe' = pipe \/ pipe'.cells = <<>>)
    BY <1>2 DEF BeginEntry
  <2> QED
    BY <2>1, EmptyIsSeq, TarConcatAssumption
<1>3. CASE RenameFails \/ EndCopy \/ Finished \/ EndEntry
  BY <1>3 DEF RenameFails, EndCopy, Finished, EndEntry
<1>4. CASE PipeBroken \/ EndFlush
  <2>1. at' \in {"failed", "pad"} /\ pipe' = [pipe EXCEPT !.open = FALSE]
    BY <1>4 DEF PipeBroken, Broken, EndFlush
  <2> QED
    BY <1>0, <2>1
<1>5. CASE \E k1, k2 \in 0..2 * Block : CopyBoth(k1, k2)
  <2>1. PICK k1, k2 : CopyBoth(k1, k2)
    BY <1>5
  <2> DEFINE b == two \o Drop(cur.got, copied)
  <2>2. /\ at = "copy" /\ k2 \in 0..Len(b) /\ k2 <= Room /\ at' = at
        /\ pipe' = [pipe EXCEPT !.cells = @ \o Take(b, k2)]
    BY <2>1 DEF CopyBoth
  <2>3. IsSeq(two) /\ IsSeq(Drop(cur.got, copied))
    BY <2>2, HandingOn
  <2>4. IsSeq(b)
    BY <2>3, JoinFacts
  <2> HIDE DEF b
  <2>5. Len(pipe'.cells) <= PipeCap
    BY <1>0, <2>2, <2>4, CellsAdded
  <2> QED
    BY <2>2, <2>5
<1>6. CASE \E k \in 1..2 * Block : FlushTwo(k)
  <2>1. PICK k : FlushTwo(k)
    BY <1>6
  <2>2. /\ k \in 0..Len(two) /\ k <= Room /\ at' = at
        /\ pipe' = [pipe EXCEPT !.cells = @ \o Take(two, k)]
    BY <2>1 DEF FlushTwo
  <2>3. IsSeq(two)
    BY <1>0 DEF AppenderTypes
  <2>4. Len(pipe'.cells) <= PipeCap
    BY <1>0, <2>2, <2>3, CellsAdded
  <2> QED
    BY <2>2, <2>4
<1>7. CASE Listener
  <2>1. CASE DropReader
    <3>1. pipe' = [pipe EXCEPT !.reading = FALSE, !.cells = <<>>] /\ at' = at
      BY <2>1 DEF DropReader
    <3>2. pipe'.cells = <<>>
      BY <1>0, <3>1
    <3> QED
      BY <3>1, <3>2, EmptyIsSeq, TarConcatAssumption
  <2>2. CASE \E k \in 1..PipeCap : Hear(k)
    <3>1. PICK k : Hear(k)
      BY <2>2
    <3> DEFINE q == pipe.cells
    <3>2. k \in 0..Len(q) /\ pipe' = [pipe EXCEPT !.cells = Drop(q, k)] /\ at' = at
      BY <1>0, <3>1 DEF Hear
    <3>3. Len(Drop(q, k)) = Len(q) - k
      BY <1>0, <3>2, TakeDrop
    <3>4. pipe'.cells = Drop(q, k)
      BY <1>0, <3>2
    <3> QED
      BY <1>0, <3>2, <3>3, <3>4, TarConcatAssumption
  <2> QED
    BY <1>7, <2>1, <2>2 DEF Listener
<1>8. CASE UNCHANGED vars \/ Build
  BY <1>1, <1>8 DEF vars, concatVars, Build
<1>9. CASE Poll \/ PollSuspends \/ CopyRead
  BY <1>1, <1>9 DEF Poll, PollSuspends, CopyRead, concatVars
<1>10. CASE (\E k \in 1..Block : CopyDirect(k)) \/ (\E k \in 1..2 * Block : FlushOne(k))
  BY <1>1, <1>10 DEF CopyDirect, FlushOne
<1> QED
  BY <1>2, <1>3, <1>4, <1>5, <1>6, <1>7, <1>8, <1>9, <1>10 DEF Next, Work

LEMMA PlainBuild == ASSUME PlainInv, AppendInv', Caps', Build PROVE PlainInv'
<1>1. Source /\ PlainRest(todo) /\ Unread /\ BuilderNext /\ UNCHANGED readerVars
  BY DEF PlainInv, AppendInv, Build
<1>2. PICK F, T : Built(F, T) /\ Reading(F, T)
  BY DEF PlainInv
<1>3. step # "closed"
  BY <1>1 DEF BuilderNext, Start, PathFits, PathLong, PathCut, PathFails, FillHeader, WriteMember,
     Close, Truncate
<1>4. ReaderInit
  BY <1>1, <1>3 DEF Unread
<1>5. PICK G, U : Chain(G, U, members') /\ Shown(G)' /\ Building(U[Len(G)])'
  BY <1>1, <1>2, BuiltStep
<1>6. Reading(G, U)'
  <2>1. IsSeq(bytes')
    BY <1>5 DEF Shown
  <2> QED
    BY <1>1, <1>4, <1>5, <2>1, ReadingStarts
<1>7. Unread'
  BY <1>1, <1>4 DEF Unread, ReaderInit, readerVars
<1>8. PlainRest(todo')
  BY <1>1, RestKept
<1>9. Built(G, U)'
  BY <1>5 DEF Built
<1> QED
  BY <1>6, <1>7, <1>8, <1>9 DEF PlainInv

\* A step of the stream, of its consumer or of the listener.
LEMMA PlainRead ==
    ASSUME PlainInv, AppendInv', Caps', UNCHANGED builderVars,
           \/ UNCHANGED readerVars
           \/ /\ step = "closed"
              /\ ReaderSteps \/ Suspend \/ (\E n \in 1..Block : ReadData(n)) \/ EndPart \/ TakeNext
    PROVE  PlainInv'
<1>1. Source /\ AppenderTypes /\ PlainRest(todo) /\ Unread
  BY DEF PlainInv, AppendInv
<1>2. PICK F, T : Built(F, T) /\ Reading(F, T)
  BY DEF PlainInv
<1>3. Built(F, T)'
  BY <1>2, BuiltKept
<1>4. Reading(F, T)'
  <2>1. CASE UNCHANGED readerVars
    BY <1>2, <2>1, ReadingKept
  <2>2. CASE ~UNCHANGED readerVars
    <3>1. Archive(F, T)
      BY <1>2 DEF Archive, Built
    <3> QED
      BY <1>1, <2>2, <3>1, ReadingStep
  <2> QED
    BY <2>1, <2>2
<1>5. UNCHANGED <<todo, step>>
  BY DEF builderVars
<1>6. Unread'
  BY <1>1, <1>5 DEF Unread, ReaderInit, readerVars
<1>7. PlainRest(todo')
  BY <1>1, <1>5
<1> QED
  BY <1>3, <1>4, <1>6, <1>7 DEF PlainInv

LEMMA PlainStep == ASSUME PlainInv, [Next]_vars PROVE PlainInv'
<1>1. AppendInv' /\ Caps'
  BY AppendStep, CapsStep DEF PlainInv
<1>2. pc = "entry" => step = "closed"
  BY DEF PlainInv, Unread, ReaderInit
<1>3. CASE Build
  BY <1>1, <1>3, PlainBuild
<1>4. CASE (Poll \/ PollSuspends) /\ UNCHANGED builderVars
  BY <1>1, <1>4, PlainRead DEF Poll, PollSuspends
<1>5. CASE CopyRead /\ UNCHANGED builderVars
  <2>1. pc = "entry" /\ ((\E n \in 1..Block : ReadData(n)) \/ EndPart)
    BY <1>5 DEF CopyRead, ReadData, EndPart
  <2> QED
    BY <1>1, <1>2, <1>5, <2>1, PlainRead
<1>6. CASE EndEntry /\ UNCHANGED builderVars
  <2>1. pc = "entry" /\ TakeNext
    BY <1>6 DEF EndEntry, TakeNext, EntryRead
  <2> QED
    BY <1>1, <1>2, <1>6, <2>1, PlainRead
<1>7. CASE Work /\ ~Poll /\ ~CopyRead /\ ~EndEntry /\ UNCHANGED builderVars
  <2>1. UNCHANGED readerVars
    BY <1>7 DEF Work, BeginEntry, RenameFails, PipeBroken, Broken, CopyDirect, CopyBoth, EndCopy,
       FlushOne, FlushTwo, EndFlush, Finished
  <2> QED
    BY <1>1, <1>7, <2>1, PlainRead
<1>8. CASE Listener /\ UNCHANGED builderVars
  <2>1. UNCHANGED readerVars
    BY <1>8 DEF Listener, Hear, DropReader
  <2> QED
    BY <1>1, <1>8, <2>1, PlainRead
<1>9. CASE UNCHANGED vars
  <2>1. UNCHANGED readerVars /\ UNCHANGED builderVars
    BY <1>9 DEF vars
  <2> QED
    BY <1>1, <2>1, PlainRead
<1> QED
  BY <1>3, <1>4, <1>5, <1>6, <1>7, <1>8, <1>9 DEF Next

\* What the invariant says of an entry that was read.
LEMMA EntryFacts ==
    ASSUME PlainInv, NEW i \in 1..Len(out)
    PROVE  /\ i \in 1..Len(members) /\ Yields(out[i], members[i])
           /\ whole \/ pc = "ended" => out[i].got = members[i].data
<1>1. PICK F, T : Built(F, T) /\ Reading(F, T)
  BY DEF PlainInv
<1>2. Source /\ Archive(F, T) /\ IsSeq(out) /\ Unread
  BY <1>1 DEF PlainInv, AppendInv, AppenderTypes, Archive, Built
<1>3. Len(bytes) \in Nat /\ Len(F) \in Nat /\ next \in Nat /\ next <= Len(F) /\ Len(members) \in Nat
      /\ (step = "closed" /\ whole => Len(bytes) = Len(F) + 4)
  BY <1>2, ArchiveFacts
<1>4. Len(out) \in Nat
  BY <1>2, SeqFacts
<1>5. /\ Done <= Len(members) /\ \A k \in 1..Len(out) : Yields(out[k], members[k])
      /\ pc = "ended" => next <= Len(bytes)
  BY <1>1 DEF Reading, Ordered
<1>6. i \in 1..Len(members)
  BY <1>3, <1>4, <1>5 DEF Done
<1>7. Yields(out[i], members[i])
  BY <1>5
<1>8. step = "closed"
  <2>1. step # "closed" => Len(out) = 0
    BY <1>2, EmptyIsSeq DEF Unread, ReaderInit
  <2> QED
    BY <2>1
<1>9. whole \/ pc = "ended" => ~(next > Len(bytes))
  BY <1>3, <1>5, <1>8
<1>10. whole \/ pc = "ended" => out[i].got = members[i].data
  BY <1>7, <1>9 DEF Yields
<1> QED
  BY <1>6, <1>7, <1>10

LEMMA PlainTypes == ASSUME PlainInv PROVE TypeOK
<1>1. PICK F, T : Built(F, T) /\ Reading(F, T)
  BY DEF PlainInv
<1>2. Source /\ AppenderTypes /\ Archive(F, T) /\ Caps
  BY <1>1 DEF PlainInv, AppendInv, Archive, Built
<1>3. pos \in 0..Len(bytes) /\ next \in Nat
  BY <1>2, ArchiveFacts DEF Source
<1>4. Len(held) <= 2 /\ start \in 0..2 /\ pc \in {"header", "meta", "entry", "ended", "failed", "hung"}
  BY <1>1 DEF Reading, Ordered
<1> QED
  BY <1>2, <1>3, <1>4 DEF TypeOK, Block, AppenderTypes, Caps

LEMMA PlainInOrder == ASSUME PlainInv PROVE ReadInOrder
<1>1. PICK F, T : Built(F, T) /\ Reading(F, T)
  BY DEF PlainInv
<1>2. IsSeq(out) /\ IsSeq(members) /\ \A i, j \in 1..Len(members) : i < j => members[i].at < members[j].at
  BY <1>1 DEF PlainInv, AppendInv, AppenderTypes, Built, Chain
<1>3. /\ Len(out) \in Nat /\ Len(members) \in Nat
      /\ DOMAIN out = 1..Len(out) /\ DOMAIN members = 1..Len(members)
  BY <1>2, SeqFacts
<1>4. \A i \in 1..Len(out) - 1 : out[i].at < out[i + 1].at
  <2> SUFFICES ASSUME NEW i \in 1..Len(out) - 1 PROVE out[i].at < out[i + 1].at
    OBVIOUS
  <2>1. i \in 1..Len(out) /\ i + 1 \in 1..Len(out) /\ i < i + 1
    BY <1>3
  <2>2. /\ i \in 1..Len(members) /\ Yields(out[i], members[i])
        /\ i + 1 \in 1..Len(members) /\ Yields(out[i + 1], members[i + 1])
    BY <2>1, EntryFacts
  <2>3. out[i].at = members[i].at /\ out[i + 1].at = members[i + 1].at
    BY <2>2 DEF Yields
  <2> QED
    BY <1>2, <2>1, <2>2, <2>3
<1>5. \A i \in DOMAIN out : \E j \in DOMAIN members :
         /\ out[i].at = members[j].at
         /\ out[i].path \in {members[j].path, out[i].short}
         /\ whole \/ pc = "ended" =>
              out[i].got = members[j].data /\ out[i].size = Len(members[j].data)
  <2> SUFFICES ASSUME NEW i \in 1..Len(out)
               PROVE  \E j \in 1..Len(members) :
                        /\ out[i].at = members[j].at
                        /\ out[i].path \in {members[j].path, out[i].short}
                        /\ whole \/ pc = "ended" =>
                             out[i].got = members[j].data /\ out[i].size = Len(members[j].data)
    BY <1>3
  <2>1. i \in 1..Len(members) /\ Yields(out[i], members[i])
        /\ (whole \/ pc = "ended" => out[i].got = members[i].data)
    BY EntryFacts
  <2> QED
    BY <2>1 DEF Yields
<1> QED
  BY <1>4, <1>5, PlainTypes DEF ReadInOrder

LEMMA PlainWhole == ASSUME PlainInv PROVE WholeUnlessTorn
<1> SUFFICES ASSUME whole, ~torn
             PROVE  /\ pc # "failed"
                    /\ pc = "ended" => /\ Len(out) = Len(members)
                                       /\ \A i \in DOMAIN out : Whole(out[i], members[i])
  BY DEF WholeUnlessTorn
<1>1. PICK F, T : Built(F, T) /\ Reading(F, T)
  BY DEF PlainInv
<1>2. pc # "failed" /\ (pc = "ended" => Done = Len(members))
  BY <1>1 DEF Reading
<1>3. IsSeq(out)
  BY DEF PlainInv, AppendInv, AppenderTypes
<1>4. pc = "ended" => Len(out) = Len(members)
  BY <1>2, <1>3, SeqFacts DEF Done
<1>5. \A i \in DOMAIN out : Whole(out[i], members[i])
  <2> SUFFICES ASSUME NEW i \in 1..Len(out) PROVE Whole(out[i], members[i])
    BY <1>3, SeqFacts
  <2>1. Yields(out[i], members[i]) /\ out[i].got = members[i].data
    BY EntryFacts
  <2> QED
    BY <2>1 DEF Yields, Whole
<1> QED
  BY <1>2, <1>4, <1>5

\* For archives that are built of plain requests, whatever the builder refuses
\* and however the file is cut, the source suspends and the consumer waits:
\* the entries that are read are the first members, in their order, each from
\* its own place and with its own contents, and under its own name or the one
\* in its header (Entries::poll_next, poll_next_raw, EntryFields::poll_read).
THEOREM PlainArchivesReadInOrder == Spec /\ PlainJob(todo) => []ReadInOrder
<1>1. Init /\ PlainJob(todo) => PlainInv
  BY PlainStarts
<1>2. PlainInv /\ [Next]_vars => PlainInv'
  BY PlainStep
<1>3. PlainInv => ReadInOrder
  BY PlainInOrder
<1> QED
  BY <1>1, <1>2, <1>3, PTL DEF Spec

\* And if no poll was suspended inside a header or a long name, the stream of
\* an archive that was not cut ends without an error, with every member under
\* its own name.
THEOREM PlainArchivesWholeUnlessTorn == Spec /\ PlainJob(todo) => []WholeUnlessTorn
<1>1. Init /\ PlainJob(todo) => PlainInv
  BY PlainStarts
<1>2. PlainInv /\ [Next]_vars => PlainInv'
  BY PlainStep
<1>3. PlainInv => WholeUnlessTorn
  BY PlainWhole
<1> QED
  BY <1>1, <1>2, <1>3, PTL DEF Spec
=============================================================================

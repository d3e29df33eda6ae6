-------------------------- MODULE ChunkQueueLemmas --------------------------
(***************************************************************************)
(* The lemmas on the operators of ChunkQueue that ChunkQueueProofs rests   *)
(* on: the bytes of chunks one after another, and which chunk deletes a    *)
(* temporary file, when chunks are used up, split, moved, filled, removed. *)
(***************************************************************************)
EXTENDS ChunkQueue, FiniteSetTheorems, SequenceTheorems, WellFoundedInduction, TLAPS

-----------------------------------------------------------------------------
(* Recursion: what a function that is defined by it computes.               *)

\* A set of natural numbers has a least one.
LEMMA LeastNatural ==
  ASSUME NEW S, S \subseteq Nat, S # {}
  PROVE  \E m \in S : \A k \in S : m <= k
  <1> DEFINE F == {0 .. k : k \in S}
             R == StrictSubsetOrdering(Nat)
  <1>1. IsWellFoundedOn(R, FiniteSubsetsOf(Nat)) BY FS_StrictSubsetOrderingWellFounded
  <1>2. ASSUME NEW k \in S PROVE 0 .. k \in FiniteSubsetsOf(Nat)
    <2>1. IsFiniteSet(0 .. k) BY FS_Interval
    <2> QED BY <2>1 DEF FiniteSubsetsOf
  <1>3. F \subseteq FiniteSubsetsOf(Nat) /\ F # {} BY <1>2
  <1>4. \E x \in F : \A y \in F : ~ (<<y, x>> \in R)
    <2> HIDE DEF F, R
    <2> QED BY <1>1, <1>3, WFMin
  <1>5. PICK m \in S : \A k \in S : ~ (<<0 .. k, 0 .. m>> \in R) BY <1>4
  <1>6. ASSUME NEW k \in S, k < m PROVE FALSE
    <2>1. 0 .. k \subseteq 0 .. m /\ m \notin 0 .. k /\ m \in 0 .. m BY <1>6
    <2>2. 0 .. k # 0 .. m BY <2>1
    <2>3. <<0 .. k, 0 .. m>> \in (SUBSET Nat) \X (SUBSET Nat) OBVIOUS
    <2>4. <<0 .. k, 0 .. m>> \in R BY <2>1, <2>2, <2>3 DEF StrictSubsetOrdering
    <2> QED BY <1>5, <2>4
  <1> QED BY <1>6

\* G says what the value of a function on lo .. hi is at a number, and looks only at lower numbers.
Recursive(lo, hi, S, G) ==
  /\ lo \in Nat /\ hi \in Nat /\ S # {}
  /\ G \in [lo .. hi -> [[lo .. hi -> S] -> S]]
  /\ \A n \in lo .. hi : \A f, g \in [lo .. hi -> S] :
       (\A j \in lo .. n - 1 : f[j] = g[j]) => G[n][f] = G[n][g]

Solved(lo, hi, S, G) == \E f \in [lo .. hi -> S] : \A n \in lo .. hi : f[n] = G[n][f]

\* A function may be defined by recursion.
LEMMA Recursion ==
  ASSUME NEW lo, NEW hi, NEW S, NEW G, Recursive(lo, hi, S, G)
  PROVE  Solved(lo, hi, S, G)
  <1> DEFINE D == lo .. hi
             F == [D -> S]
             B == {m \in D : ~ \E f \in F : \A k \in lo .. m : f[k] = G[k][f]}
  <1> USE DEF Recursive, Solved
  <1>0. \A n \in D : \A f \in F : G[n][f] \in S OBVIOUS
  <1>1. PICK e : e \in S OBVIOUS
  <1>2. ASSUME NEW m \in D, \E f \in F : \A k \in lo .. m - 1 : f[k] = G[k][f]
        PROVE  \E f \in F : \A k \in lo .. m : f[k] = G[k][f]
    <2>1. PICK f \in F : \A k \in lo .. m - 1 : f[k] = G[k][f] BY <1>2
    <2>2. PICK v \in S : v = G[m][f] BY <1>0
    <2> DEFINE g == [n \in D |-> IF n = m THEN v ELSE f[n]]
    <2>3. g \in F BY <2>1, <2>2
    <2>4. g[m] = v /\ \A j \in lo .. m - 1 : g[j] = f[j] OBVIOUS
    <2> HIDE DEF g
    <2>5. ASSUME NEW k \in lo .. m PROVE g[k] = G[k][g]
      <3>1. k \in D /\ \A j \in lo .. k - 1 : f[j] = g[j] BY <2>4
      <3>2. G[k][f] = G[k][g] BY <2>3, <3>1
      <3>3. k = m \/ k \in lo .. m - 1 OBVIOUS
      <3> QED BY <2>1, <2>2, <2>4, <3>2, <3>3
    <2> QED BY <2>3, <2>5
  <1>3. B = {}
    <2> SUFFICES ASSUME B # {} PROVE FALSE OBVIOUS
    <2>1. B \subseteq Nat OBVIOUS
    <2>2. PICK m \in B : \A k \in B : m <= k
      <3> HIDE DEF B
      <3> QED BY <2>1, LeastNatural
    <2>3. m \in D OBVIOUS
    <2>4. CASE m = lo
      <3> DEFINE f == [n \in D |-> e]
      <3>1. f \in F BY <1>1
      <3>2. \A k \in lo .. m - 1 : f[k] = G[k][f]
        <4>1. \A k \in lo .. m - 1 : FALSE BY <2>4
        <4> QED BY <4>1
      <3> HIDE DEF f
      <3> QED BY <1>2, <2>2, <2>3, <3>1, <3>2
    <2>5. CASE m # lo
      <3>1. m - 1 \in D /\ m - 1 \notin B
        <4> HIDE DEF B
        <4> QED BY <2>2, <2>3, <2>5
      <3>2. \E f \in F : \A k \in lo .. m - 1 : f[k] = G[k][f] BY <3>1
      <3> QED BY <1>2, <2>2, <2>3, <3>2
    <2> QED BY <2>4, <2>5
  <1>4. CASE lo <= hi
    <2>1. hi \in D /\ hi \notin B
      <3> HIDE DEF B
      <3> QED BY <1>3, <1>4
    <2> QED BY <2>1
  <1>5. CASE ~ (lo <= hi)
    <2> DEFINE f == [n \in D |-> e]
    <2>1. f \in F BY <1>1
    <2>2. \A n \in D : FALSE BY <1>5
    <2> QED BY <2>1, <2>2
  <1> QED BY <1>4, <1>5

-----------------------------------------------------------------------------
(* Sequences.                                                               *)

\* The first m elements of a sequence, and the others.
LEMMA Prefix ==
  ASSUME NEW S, NEW s \in Seq(S), NEW m \in 0 .. Len(s)
  PROVE  /\ SubSeq(s, 1, m) \in Seq(S) /\ Len(SubSeq(s, 1, m)) = m
         /\ \A i \in 1 .. m : SubSeq(s, 1, m)[i] = s[i]
  <1>1. Len(s) \in Nat /\ \A i \in 1 .. m : s[i] \in S OBVIOUS
  <1>2. 1 \in Int /\ m \in Int /\ m >= 0 BY <1>1
  <1>3. /\ SubSeq(s, 1, m) \in Seq(S)
        /\ Len(SubSeq(s, 1, m)) = IF 1 <= m THEN m - 1 + 1 ELSE 0
        /\ \A i \in 1 .. m - 1 + 1 : SubSeq(s, 1, m)[i] = s[1 + i - 1]
    BY <1>1, <1>2, SubSeqProperties
  <1> QED BY <1>2, <1>3

\* The end of a sequence, from after its first m elements.
LEMMA Suffix ==
  ASSUME NEW S, NEW s \in Seq(S), NEW m \in 0 .. Len(s)
  PROVE  /\ SubSeq(s, m + 1, Len(s)) \in Seq(S) /\ Len(SubSeq(s, m + 1, Len(s))) = Len(s) - m
         /\ \A i \in 1 .. Len(s) - m : SubSeq(s, m + 1, Len(s))[i] = s[m + i]
  <1>1. Len(s) \in Nat /\ \A i \in m + 1 .. Len(s) : s[i] \in S OBVIOUS
  <1>2. m + 1 \in Int /\ m \in Int /\ Len(s) \in Int /\ m <= Len(s) BY <1>1
  <1>3. /\ SubSeq(s, m + 1, Len(s)) \in Seq(S)
        /\ Len(SubSeq(s, m + 1, Len(s))) = IF m + 1 <= Len(s) THEN Len(s) - (m + 1) + 1 ELSE 0
        /\ \A i \in 1 .. Len(s) - (m + 1) + 1 : SubSeq(s, m + 1, Len(s))[i] = s[m + 1 + i - 1]
    BY <1>1, <1>2, SubSeqProperties
  <1>4. \A i \in Int : m + 1 + i - 1 = m + i BY <1>2
  <1> QED BY <1>2, <1>3, <1>4

\* A sequence is its first m elements and the rest.
LEMMA SplitAt ==
  ASSUME NEW S, NEW s \in Seq(S), NEW m \in 0 .. Len(s)
  PROVE  s = SubSeq(s, 1, m) \o SubSeq(s, m + 1, Len(s))
  <1>1. 1 \in 1 .. Len(s) + 1 /\ m \in 1 - 1 .. Len(s) /\ Len(s) \in m .. Len(s) OBVIOUS
  <1>2. SubSeq(s, 1, m) \o SubSeq(s, m + 1, Len(s)) = SubSeq(s, 1, Len(s))
    BY <1>1, ConcatAdjacentSubSeq
  <1> QED BY <1>2, SubSeqFull

\* One element more.
LEMMA PrefixGrows ==
  ASSUME NEW S, NEW s \in Seq(S), NEW m \in 1 .. Len(s)
  PROVE  SubSeq(s, 1, m) = Append(SubSeq(s, 1, m - 1), s[m])
  <1>1. m \in 0 .. Len(s) /\ m - 1 \in 0 .. Len(s) /\ s[m] \in S OBVIOUS
  <1> DEFINE t == SubSeq(s, 1, m - 1)
             u == SubSeq(s, 1, m)
  <1>2. t \in Seq(S) /\ Len(t) = m - 1 /\ \A i \in 1 .. m - 1 : t[i] = s[i] BY <1>1, Prefix
  <1>3. u \in Seq(S) /\ Len(u) = m /\ \A i \in 1 .. m : u[i] = s[i] BY <1>1, Prefix
  <1> HIDE DEF t, u
  <1>4. /\ Append(t, s[m]) \in Seq(S) /\ Len(Append(t, s[m])) = m
        /\ \A i \in 1 .. m - 1 : Append(t, s[m])[i] = t[i]
        /\ Append(t, s[m])[m] = s[m]
    BY <1>1, <1>2, AppendProperties
  <1>5. \A i \in 1 .. Len(u) : u[i] = Append(t, s[m])[i] BY <1>2, <1>3, <1>4
  <1>6. u = Append(t, s[m]) BY <1>3, <1>4, <1>5, SeqEqual
  <1> QED BY <1>6 DEF t, u

\* An element at the end of the second of two sequences is at the end of both.
LEMMA ConcatAppend ==
  ASSUME NEW S, NEW s \in Seq(S), NEW t \in Seq(S), NEW e \in S
  PROVE  s \o Append(t, e) = Append(s \o t, e)
  <1>1. <<e>> \in Seq(S) /\ s \o t \in Seq(S) BY ConcatProperties
  <1>2. Append(t, e) = t \o <<e>> /\ Append(s \o t, e) = (s \o t) \o <<e>> BY <1>1, AppendIsConcat
  <1>3. (s \o t) \o <<e>> = s \o (t \o <<e>>) BY <1>1, ConcatAssociative
  <1> QED BY <1>2, <1>3

\* Sequences one after another: the recursion of FlattenSeq.
FlatAt(ss, f, i) == IF i = 1 THEN ss[1] ELSE f[i - 1] \o ss[i]

\* FlattenSeq is the function that its definition means it to be.
LEMMA FlatIs ==
  ASSUME NEW S, NEW ss \in Seq(Seq(S)), ss # <<>>
  PROVE  \E g \in [1 .. Len(ss) -> Seq(S)] :
           FlattenSeq(ss) = g[Len(ss)] /\ \A i \in 1 .. Len(ss) : g[i] = FlatAt(ss, g, i)
  <1> DEFINE D == 1 .. Len(ss)
             F == [D -> Seq(S)]
             G == [i \in D |-> [f \in F |-> FlatAt(ss, f, i)]]
  <1>0. Len(ss) \in Nat /\ Len(ss) # 0 /\ \A i \in D : ss[i] \in Seq(S) OBVIOUS
  <1>1. \A i \in D : \A f \in F : FlatAt(ss, f, i) \in Seq(S)
    <2>1. ASSUME NEW i \in D, NEW f \in F PROVE FlatAt(ss, f, i) \in Seq(S)
      <3>1. CASE i = 1 BY <1>0, <3>1 DEF FlatAt
      <3>2. CASE i # 1
        <4>0. i - 1 \in D BY <1>0, <3>2
        <4>1. f[i - 1] \in Seq(S) /\ ss[i] \in Seq(S) BY <1>0, <4>0
        <4>2. f[i - 1] \o ss[i] \in Seq(S) BY <4>1, ConcatProperties
        <4> QED BY <3>2, <4>2 DEF FlatAt
      <3> QED BY <3>1, <3>2
    <2> QED BY <2>1
  <1>2. G \in [D -> [F -> Seq(S)]] BY <1>1
  <1>3. \A i \in D : \A f \in F : G[i][f] = FlatAt(ss, f, i) OBVIOUS
  <1>4. \E f \in F : \A i \in D : f[i] = G[i][f]
    <2> HIDE DEF G
    <2>1. ASSUME NEW i \in D, NEW f \in F, NEW g \in F, \A j \in 1 .. i - 1 : f[j] = g[j]
          PROVE  G[i][f] = G[i][g]
      <3>1. i = 1 \/ i - 1 \in 1 .. i - 1 BY <1>0
      <3>2. FlatAt(ss, f, i) = FlatAt(ss, g, i) BY <2>1, <3>1 DEF FlatAt
      <3> HIDE DEF D, F
      <3> QED BY <1>3, <3>2
    <2>2. 1 \in Nat /\ Len(ss) \in Nat /\ Seq(S) # {}
      <3>1. <<>> \in Seq(S) OBVIOUS
      <3> QED BY <1>0, <3>1
    <2>3. \A i \in D : \A f, g \in F : (\A j \in 1 .. i - 1 : f[j] = g[j]) => G[i][f] = G[i][g]
      <3> HIDE DEF D, F
      <3> QED BY <2>1
    <2>4. Recursive(1, Len(ss), Seq(S), G) BY <1>2, <2>2, <2>3 DEF Recursive
    <2>5. Solved(1, Len(ss), Seq(S), G) BY <2>4, Recursion
    <2> QED BY <2>5 DEF Solved
  <1>5. PICK f \in F : \A i \in D : f[i] = FlatAt(ss, f, i) BY <1>3, <1>4
  <1> DEFINE C == CHOOSE h : h = [i \in D |-> IF i = 1 THEN ss[i] ELSE h[i - 1] \o ss[i]]
  <1>6. f = [i \in D |-> IF i = 1 THEN ss[i] ELSE f[i - 1] \o ss[i]] BY <1>5 DEF FlatAt
  <1>7. C = [i \in D |-> IF i = 1 THEN ss[i] ELSE C[i - 1] \o ss[i]]
    <2> HIDE DEF D
    <2> QED BY <1>6
  <1>8. FlattenSeq(ss) = C[Len(ss)] BY <1>0 DEF FlattenSeq
  <1> HIDE DEF C
  <1>9. \A i \in D : C[i] = FlatAt(ss, C, i) BY <1>7 DEF FlatAt
  <1>10. C \in F
    <2> DEFINE B == {i \in D : C[i] \notin Seq(S)}
    <2>1. B = {}
      <3> SUFFICES ASSUME B # {} PROVE FALSE OBVIOUS
      <3>1. B \subseteq Nat OBVIOUS
      <3>2. PICK m \in B : \A k \in B : m <= k
        <4> HIDE DEF B
        <4> QED BY <3>1, LeastNatural
      <3>3. m \in D /\ C[m] \notin Seq(S) OBVIOUS
      <3>4. m # 1 BY <1>0, <1>9, <3>3 DEF FlatAt
      <3>5. m - 1 \in D /\ m - 1 \notin B
        <4> HIDE DEF B
        <4> QED BY <3>2, <3>3, <3>4
      <3>6. C[m - 1] \in Seq(S) /\ ss[m] \in Seq(S) BY <1>0, <3>3, <3>5
      <3>7. C[m - 1] \o ss[m] \in Seq(S) BY <3>6, ConcatProperties
      <3> QED BY <1>9, <3>3, <3>4, <3>7 DEF FlatAt
    <2>2. \A i \in D : C[i] \in Seq(S) BY <2>1
    <2>3. C = [i \in D |-> C[i]] BY <1>7
    <2> HIDE DEF D
    <2> QED BY <2>2, <2>3
  <1> QED BY <1>8, <1>9, <1>10

\* Nothing, and one sequence more.
LEMMA FlatEmpty == FlattenSeq(<<>>) = <<>>
  BY DEF FlattenSeq

\* The sequences put one after another are a sequence of the same kind.
LEMMA FlatType == ASSUME NEW S, NEW ss \in Seq(Seq(S)) PROVE FlattenSeq(ss) \in Seq(S)
  <1>1. CASE ss = <<>> BY <1>1, FlatEmpty, EmptySeq
  <1>2. CASE ss # <<>>
    <2>1. PICK g \in [1 .. Len(ss) -> Seq(S)] : FlattenSeq(ss) = g[Len(ss)] BY <1>2, FlatIs
    <2>2. Len(ss) \in 1 .. Len(ss) BY <1>2
    <2> QED BY <2>1, <2>2
  <1> QED BY <1>1, <1>2

\* One sequence more goes to the end.
LEMMA FlatAppend ==
  ASSUME NEW S, NEW ss \in Seq(Seq(S)), NEW s \in Seq(S)
  PROVE  FlattenSeq(Append(ss, s)) = FlattenSeq(ss) \o s
  <1> DEFINE tt == Append(ss, s)
  <1>1. /\ tt \in Seq(Seq(S)) /\ tt # <<>> /\ Len(tt) = Len(ss) + 1
        /\ \A i \in 1 .. Len(ss) : tt[i] = ss[i]
        /\ tt[Len(ss) + 1] = s
    BY AppendProperties
  <1> HIDE DEF tt
  <1>2. PICK g \in [1 .. Len(tt) -> Seq(S)] :
          FlattenSeq(tt) = g[Len(tt)] /\ \A i \in 1 .. Len(tt) : g[i] = FlatAt(tt, g, i)
    BY <1>1, FlatIs
  <1>3. CASE ss = <<>>
    <2>1. Len(tt) = 1 /\ 1 \in 1 .. Len(tt) /\ tt[1] = s BY <1>1, <1>3
    <2>2. FlattenSeq(tt) = s BY <1>2, <2>1 DEF FlatAt
    <2>3. FlattenSeq(ss) \o s = s BY <1>3, FlatEmpty, ConcatEmptySeq
    <2> QED BY <2>2, <2>3 DEF tt
  <1>4. CASE ss # <<>>
    <2>1. PICK h \in [1 .. Len(ss) -> Seq(S)] :
            FlattenSeq(ss) = h[Len(ss)] /\ \A i \in 1 .. Len(ss) : h[i] = FlatAt(ss, h, i)
      BY <1>4, FlatIs
    <2>2. Len(ss) \in Nat /\ Len(ss) # 0 BY <1>4
    <2> DEFINE B == {i \in 1 .. Len(ss) : g[i] # h[i]}
    <2>3. B = {}
      <3> SUFFICES ASSUME B # {} PROVE FALSE OBVIOUS
      <3>1. B \subseteq Nat OBVIOUS
      <3>2. PICK m \in B : \A k \in B : m <= k
        <4> HIDE DEF B
        <4> QED BY <3>1, LeastNatural
      <3>3. m \in 1 .. Len(ss) /\ g[m] # h[m] OBVIOUS
      <3>4. g[m] = FlatAt(tt, g, m) /\ h[m] = FlatAt(ss, h, m) BY <1>1, <1>2, <2>1, <2>2, <3>3
      <3>5. m # 1 BY <1>1, <3>3, <3>4 DEF FlatAt
      <3>6. m - 1 \in 1 .. Len(ss) /\ m - 1 \notin B
        <4> HIDE DEF B
        <4> QED BY <2>2, <3>2, <3>3, <3>5
      <3>7. g[m - 1] = h[m - 1] BY <3>6
      <3> QED BY <1>1, <3>3, <3>4, <3>5, <3>7 DEF FlatAt
    <2>4. g[Len(ss)] = h[Len(ss)] BY <2>2, <2>3
    <2>5. Len(tt) \in 1 .. Len(tt) /\ Len(tt) # 1 /\ Len(tt) - 1 = Len(ss) BY <1>1, <2>2
    <2>6. g[Len(tt)] = g[Len(ss)] \o s BY <1>1, <1>2, <2>5 DEF FlatAt
    <2> QED BY <1>2, <2>1, <2>4, <2>6 DEF tt
  <1> QED BY <1>3, <1>4

\* Two groups of sequences, one after the other.
LEMMA FlatConcat ==
  ASSUME NEW S, NEW ss \in Seq(Seq(S)), NEW tt \in Seq(Seq(S))
  PROVE  FlattenSeq(ss \o tt) = FlattenSeq(ss) \o FlattenSeq(tt)
  <1>0. \A i \in 1 .. Len(tt) : tt[i] \in Seq(S) OBVIOUS
  <1>2. \A m \in 1 .. Len(tt) :
          /\ SubSeq(tt, 1, m) = Append(SubSeq(tt, 1, m - 1), tt[m])
          /\ ss \o SubSeq(tt, 1, m) = Append(ss \o SubSeq(tt, 1, m - 1), tt[m])
    <2> DEFINE U == Seq(S)
    <2>1. ss \in Seq(U) /\ tt \in Seq(U) OBVIOUS
    <2> HIDE DEF U
    <2> TAKE m \in 1 .. Len(tt)
    <2>2. SubSeq(tt, 1, m) = Append(SubSeq(tt, 1, m - 1), tt[m]) BY <2>1, PrefixGrows
    <2>3. SubSeq(tt, 1, m - 1) \in Seq(U) /\ tt[m] \in U
      <3>1. m - 1 \in 0 .. Len(tt) BY <2>1
      <3> QED BY <2>1, <3>1, Prefix
    <2> DEFINE v == SubSeq(tt, 1, m - 1)
               w == tt[m]
    <2>4. v \in Seq(U) /\ w \in U BY <2>3
    <2> HIDE DEF v, w
    <2>5. ss \o Append(v, w) = Append(ss \o v, w) BY <2>1, <2>4, ConcatAppend
    <2> QED BY <2>2, <2>5 DEF v, w
  <1> DEFINE part(m) == SubSeq(tt, 1, m)
             B == {m \in 0 .. Len(tt) : FlattenSeq(ss \o part(m)) # FlattenSeq(ss) \o FlattenSeq(part(m))}
  <1>1. B = {}
    <2> SUFFICES ASSUME B # {} PROVE FALSE OBVIOUS
    <2>1. B \subseteq Nat OBVIOUS
    <2>2. PICK m \in B : \A k \in B : m <= k
      <3> HIDE DEF B
      <3> QED BY <2>1, LeastNatural
    <2>3. m \in 0 .. Len(tt) /\ FlattenSeq(ss \o part(m)) # FlattenSeq(ss) \o FlattenSeq(part(m)) OBVIOUS
    <2>4. FlattenSeq(ss) \in Seq(S) BY FlatType
    <2>5. m # 0
      <3>1. part(0) = <<>> BY SubSeqEmpty
      <3>2. ss \o <<>> = ss /\ FlattenSeq(ss) \o <<>> = FlattenSeq(ss) BY <2>4, ConcatEmptySeq
      <3> HIDE DEF part
      <3> QED BY <2>3, <3>1, <3>2, FlatEmpty
    <2>6. m - 1 \in 0 .. Len(tt) /\ m - 1 \notin B
      <3> HIDE DEF B
      <3> QED BY <2>2, <2>3, <2>5
    <2>7. part(m - 1) \in Seq(Seq(S)) /\ tt[m] \in Seq(S)
      <3>1. part(m - 1) \in Seq(Seq(S)) BY <2>6, Prefix
      <3>2. m \in 1 .. Len(tt) BY <2>3, <2>5
      <3>3. tt[m] \in Seq(S) BY <1>0, <3>2
      <3> QED BY <3>1, <3>3
    <2>8. m \in 1 .. Len(tt) BY <2>3, <2>5
    <2>9. part(m) = Append(part(m - 1), tt[m]) /\ ss \o part(m) = Append(ss \o part(m - 1), tt[m])
      BY <1>2, <2>8
    <2> DEFINE p == part(m - 1)
               e == tt[m]
    <2>16. part(m) = Append(p, e) /\ ss \o part(m) = Append(ss \o p, e) BY <2>9
    <2>17. FlattenSeq(Append(ss \o p, e)) # FlattenSeq(ss) \o FlattenSeq(Append(p, e)) BY <2>3, <2>16
    <2>10. FlattenSeq(ss \o p) = FlattenSeq(ss) \o FlattenSeq(p) BY <2>6
    <2>11. p \in Seq(Seq(S)) /\ e \in Seq(S) /\ ss \o p \in Seq(Seq(S)) BY <2>7, ConcatProperties
    <2> HIDE DEF p, e
    <2>12. FlattenSeq(Append(ss \o p, e)) = FlattenSeq(ss \o p) \o e BY <2>11, FlatAppend
    <2>13. FlattenSeq(Append(p, e)) = FlattenSeq(p) \o e BY <2>11, FlatAppend
    <2>14. FlattenSeq(p) \in Seq(S) BY <2>11, FlatType
    <2> DEFINE x == FlattenSeq(ss)
               y == FlattenSeq(p)
    <2>15. x \in Seq(S) /\ y \in Seq(S) BY <2>4, <2>14
    <2> HIDE DEF x, y, B
    <2>18. (x \o y) \o e = x \o (y \o e) BY <2>11, <2>15, ConcatAssociative
    <2> QED BY <2>10, <2>12, <2>13, <2>17, <2>18 DEF x, y
  <1>3. Len(tt) \in 0 .. Len(tt) OBVIOUS
  <1>4. part(Len(tt)) = tt BY SubSeqFull
  <1> QED BY <1>1, <1>3, <1>4

-----------------------------------------------------------------------------
(* Chunks: their bytes, and the temporary files they are in.                *)

\* Chunks as they are made, and what their fields say of the bytes they hold.
ChunkType == [type : {"mem", "file"}, bytes : Seq(Nat), offset : Nat, name : Nat, start : Nat,
              length : Nat, open : BOOLEAN, temp : BOOLEAN]
FileType == [bytes : Seq(Nat), linked : BOOLEAN]
Places == {"idle", "steal", "temp", "failed", "send", "sent"}

\* A chunk's bytes are there; the chunk that deletes a temporary file has all of it.
GoodMem(c) == c.type = "mem" => c.offset <= Len(c.bytes) /\ ~c.temp
GoodFile(c, fs) == c.type = "file" =>
  /\ c.name \in DOMAIN fs /\ fs[c.name].linked
  /\ c.offset <= c.length /\ c.start + c.length <= Len(fs[c.name].bytes)
  /\ c.temp => c.start = 0 /\ c.length = Len(fs[c.name].bytes)
Good(c, fs) == c \in ChunkType /\ GoodMem(c) /\ GoodFile(c, fs)

\* The chunks A, the first b of them on their way to the backend: a temporary file with a name has a
\* chunk that deletes it, the last of its chunks; an empty one that could go early is its only chunk.
Names(c, f) == c.type = "file" /\ c.name = f
Owned(A, fs) == \A f \in DOMAIN fs : fs[f].linked => \E i \in DOMAIN A : A[i].temp /\ A[i].name = f
LastOwns(A) == \A i, j \in DOMAIN A : A[i].temp /\ Names(A[j], A[i].name) => j <= i
AloneEmpty(A, b) == \A i, j \in DOMAIN A :
  i > b /\ A[i].temp /\ Remaining(A[i]) = 0 /\ Names(A[j], A[i].name) => j = i
Own(A, b, fs) ==
  /\ \A i \in DOMAIN A : Good(A[i], fs)
  /\ Owned(A, fs) /\ LastOwns(A) /\ AloneEmpty(A, b)

\* The bytes of a chunk, and of some chunks one after another.
BytesIn(c, fs) == IF c.type = "mem" THEN SubSeq(c.bytes, c.offset + 1, Len(c.bytes))
                  ELSE SubSeq(fs[c.name].bytes, c.start + c.offset + 1, c.start + c.length)
Flow(cs, fs) == FlattenSeq([i \in DOMAIN cs |-> BytesIn(cs[i], fs)])
Drop(s, k) == SubSeq(s, k + 1, Len(s))
Fit(cs, fs) == cs \in Seq(ChunkType) /\ fs \in Seq(FileType) /\ \A i \in DOMAIN cs : Good(cs[i], fs)

\* The first n bytes of a body.
Upto(n) == [i \in 1 .. n |-> i]

\* A stretch of a sequence, and the parts of one.
LEMMA Part ==
  ASSUME NEW S, NEW s \in Seq(S), NEW m \in 1 .. Len(s) + 1, NEW n \in m - 1 .. Len(s)
  PROVE  SubSeq(s, m, n) \in Seq(S) /\ Len(SubSeq(s, m, n)) = n - m + 1
  <1>1. Len(s) \in Nat /\ m \in Int /\ n \in Int /\ 1 <= m /\ n <= Len(s) /\ m - 1 <= n OBVIOUS
  <1>2. \A i \in m .. n : s[i] \in S BY <1>1
  <1>3. SubSeq(s, m, n) \in Seq(S) /\ Len(SubSeq(s, m, n)) = IF m <= n THEN n - m + 1 ELSE 0
    BY <1>1, <1>2, SubSeqProperties
  <1> QED BY <1>1, <1>3

\* Two sequences put together can be told apart again.
LEMMA SplitUnique ==
  ASSUME NEW S, NEW s \in Seq(S), NEW t \in Seq(S)
  PROVE  SubSeq(s \o t, 1, Len(s)) = s /\ SubSeq(s \o t, Len(s) + 1, Len(s \o t)) = t
  <1> DEFINE u == s \o t
             m == Len(s)
  <1>1. /\ u \in Seq(S) /\ Len(u) = Len(s) + Len(t) /\ m \in Nat /\ Len(t) \in Nat
        /\ \A i \in 1 .. Len(s) + Len(t) : u[i] = IF i <= Len(s) THEN s[i] ELSE t[i - Len(s)]
    BY ConcatProperties
  <1>2. m \in 0 .. Len(u) BY <1>1
  <1> HIDE DEF u
  <1>3. /\ SubSeq(u, 1, m) \in Seq(S) /\ Len(SubSeq(u, 1, m)) = m
        /\ \A i \in 1 .. m : SubSeq(u, 1, m)[i] = u[i]
    BY <1>1, <1>2, Prefix
  <1>4. /\ SubSeq(u, m + 1, Len(u)) \in Seq(S) /\ Len(SubSeq(u, m + 1, Len(u))) = Len(u) - m
        /\ \A i \in 1 .. Len(u) - m : SubSeq(u, m + 1, Len(u))[i] = u[m + i]
    BY <1>1, <1>2, Suffix
  <1>5. SubSeq(u, 1, m) = s
    <2>1. \A i \in 1 .. Len(s) : SubSeq(u, 1, m)[i] = s[i] BY <1>1, <1>3
    <2>2. Len(SubSeq(u, 1, m)) = Len(s) BY <1>3
    <2> HIDE DEF m
    <2> QED BY <1>3, <2>1, <2>2, SeqEqual
  <1>6. SubSeq(u, m + 1, Len(u)) = t
    <2>1. \A i \in 1 .. Len(t) : SubSeq(u, m + 1, Len(u))[i] = t[i]
      <3> TAKE i \in 1 .. Len(t)
      <3>1. i \in 1 .. Len(u) - m /\ m + i \in 1 .. Len(s) + Len(t) /\ ~ (m + i <= Len(s))
            /\ m + i - Len(s) = i
        BY <1>1
      <3> QED BY <1>1, <1>4, <3>1
    <2>2. Len(SubSeq(u, m + 1, Len(u))) = Len(t) BY <1>1, <1>4
    <2> HIDE DEF m
    <2> QED BY <1>4, <2>1, <2>2, SeqEqual
  <1> QED BY <1>5, <1>6 DEF u

\* A part of a part of a sequence.
LEMMA PartPart ==
  ASSUME NEW S, NEW s \in Seq(S), NEW m \in 1 .. Len(s) + 1, NEW n \in m - 1 .. Len(s),
         NEW p \in 0 .. n - m + 1
  PROVE  /\ Drop(SubSeq(s, m, n), p) = SubSeq(s, m + p, n)
         /\ SubSeq(SubSeq(s, m, n), 1, p) = SubSeq(s, m, m + p - 1)
  <1>0. Len(s) \in Nat /\ m \in Int /\ n \in Int /\ 1 <= m /\ n <= Len(s) /\ m - 1 <= n OBVIOUS
  <1> DEFINE a == SubSeq(s, m, m + p - 1)
             b == SubSeq(s, m + p, n)
  <1>1. m + p - 1 \in m - 1 .. Len(s) /\ n \in m + p - 1 .. Len(s) /\ (m + p - 1) + 1 = m + p
        /\ m + p \in 1 .. Len(s) + 1 BY <1>0
  <1>2. SubSeq(s, m, m + p - 1) \o SubSeq(s, (m + p - 1) + 1, n) = SubSeq(s, m, n)
    BY <1>1, ConcatAdjacentSubSeq
  <1>3. a \in Seq(S) /\ Len(a) = (m + p - 1) - m + 1 BY <1>1, Part
  <1>4. b \in Seq(S) BY <1>1, Part
  <1>5. Len(a) = p /\ a \o b = SubSeq(s, m, n) BY <1>0, <1>1, <1>2, <1>3
  <1> HIDE DEF a, b
  <1>6. SubSeq(a \o b, 1, Len(a)) = a /\ SubSeq(a \o b, Len(a) + 1, Len(a \o b)) = b
    BY <1>3, <1>4, SplitUnique
  <1> QED BY <1>5, <1>6 DEF Drop, a, b

\* Dropping less than the first of two sequences.
LEMMA DropConcat ==
  ASSUME NEW S, NEW s \in Seq(S), NEW t \in Seq(S), NEW p \in 0 .. Len(s)
  PROVE  Drop(s \o t, p) = Drop(s, p) \o t /\ SubSeq(s \o t, 1, p) = SubSeq(s, 1, p)
  <1> DEFINE a == SubSeq(s, 1, p)
             b == Drop(s, p)
  <1>1. a \in Seq(S) /\ Len(a) = p BY Prefix
  <1>2. b \in Seq(S) BY Suffix DEF Drop
  <1>3. s = a \o b BY SplitAt DEF Drop
  <1> HIDE DEF a, b
  <1>4. s \o t = a \o (b \o t) BY <1>1, <1>2, <1>3, ConcatAssociative
  <1>5. b \o t \in Seq(S) BY <1>2, ConcatProperties
  <1> DEFINE u == b \o t
  <1>6. u \in Seq(S) BY <1>5
  <1> HIDE DEF u
  <1>7. SubSeq(a \o u, 1, Len(a)) = a /\ SubSeq(a \o u, Len(a) + 1, Len(a \o u)) = u
    BY <1>1, <1>6, SplitUnique
  <1> QED BY <1>1, <1>4, <1>7 DEF Drop, a, b, u

\* Nothing dropped, and everything.
LEMMA DropAll == ASSUME NEW S, NEW s \in Seq(S) PROVE Drop(s, 0) = s /\ Drop(s, Len(s)) = <<>>
  <1>1. Len(s) \in Nat OBVIOUS
  <1>2. SubSeq(s, 0 + 1, Len(s)) = s BY SubSeqFull
  <1>3. SubSeq(s, Len(s) + 1, Len(s)) = <<>> BY <1>1, SubSeqEmpty
  <1> QED BY <1>2, <1>3 DEF Drop

\* The bytes of the body, in their order.
LEMMA UptoGrows ==
  ASSUME NEW n \in Nat, NEW k \in Nat
  PROVE  /\ Upto(n) \in Seq(Nat) /\ Len(Upto(n)) = n /\ [i \in 1 .. k |-> n + i] \in Seq(Nat)
         /\ Len([i \in 1 .. k |-> n + i]) = k /\ Upto(n) \o [i \in 1 .. k |-> n + i] = Upto(n + k)
  <1> DEFINE a == Upto(n)
             b == [i \in 1 .. k |-> n + i]
             c == Upto(n + k)
  <1>1. a \in Seq(Nat) /\ Len(a) = n /\ \A i \in 1 .. n : a[i] = i BY DEF Upto
  <1>2. b \in Seq(Nat) /\ Len(b) = k /\ \A i \in 1 .. k : b[i] = n + i OBVIOUS
  <1>3. c \in Seq(Nat) /\ Len(c) = n + k /\ \A i \in 1 .. n + k : c[i] = i BY DEF Upto
  <1> HIDE DEF a, b, c
  <1>4. /\ a \o b \in Seq(Nat) /\ Len(a \o b) = n + k
        /\ \A i \in 1 .. n + k : (a \o b)[i] = IF i <= n THEN a[i] ELSE b[i - n]
    BY <1>1, <1>2, ConcatProperties
  <1>5. \A i \in 1 .. n + k : (a \o b)[i] = c[i] BY <1>1, <1>2, <1>3, <1>4
  <1>6. a \o b = c BY <1>3, <1>4, <1>5, SeqEqual
  <1> QED BY <1>1, <1>2, <1>6 DEF a, b, c

\* A stretch from st + off + 1 to st + ln, cut after p elements.
Cut(s, st, off, ln) == SubSeq(s, st + off + 1, st + ln)
Take(s, k) == SubSeq(s, 1, k)

\* What is dropped from a stretch, and what is taken of it, are stretches.
LEMMA CutPart ==
  ASSUME NEW s \in Seq(Nat), NEW st \in Nat, NEW off \in Nat, NEW ln \in Nat, NEW p \in Nat,
         off <= ln, st + ln <= Len(s), p <= ln - off
  PROVE  /\ Drop(Cut(s, st, off, ln), p) = Cut(s, st, off + p, ln)
         /\ Take(Cut(s, st, off, ln), p) = Cut(s, st, off, off + p)
         /\ Take(Cut(s, st, off, ln), p) \in Seq(Nat) /\ Len(Take(Cut(s, st, off, ln), p)) = p
  <1> DEFINE L == Len(s)
             m == st + off + 1
             n == st + ln
             r == st + (off + p)
  <1>1. L \in Nat OBVIOUS
  <1>2. st + ln <= L OBVIOUS
  <1> HIDE DEF L
  <1>3. /\ m \in 1 .. L + 1 /\ n \in m - 1 .. L /\ p \in 0 .. n - m + 1 /\ m + p - 1 = r
        /\ m + p = st + (off + p) + 1 /\ r \in m - 1 .. L /\ r - m + 1 = p
    BY <1>1, <1>2
  <1>4. Cut(s, st, off, ln) = SubSeq(s, m, n) /\ Cut(s, st, off + p, ln) = SubSeq(s, m + p, n)
        /\ Cut(s, st, off, off + p) = SubSeq(s, m, r)
    BY <1>3 DEF Cut
  <1> HIDE DEF m, n, r
  <1>5. Drop(SubSeq(s, m, n), p) = SubSeq(s, m + p, n)
        /\ SubSeq(SubSeq(s, m, n), 1, p) = SubSeq(s, m, m + p - 1)
    BY <1>3, PartPart DEF L
  <1>6. SubSeq(s, m, r) \in Seq(Nat) /\ Len(SubSeq(s, m, r)) = r - m + 1 BY <1>3, Part DEF L
  <1> QED BY <1>3, <1>4, <1>5, <1>6 DEF Take

\* The first of the three, on its own.
LEMMA DropCut ==
  ASSUME NEW s \in Seq(Nat), NEW st \in Nat, NEW off \in Nat, NEW ln \in Nat, NEW p \in Nat,
         off <= ln, st + ln <= Len(s), p <= ln - off
  PROVE  Drop(Cut(s, st, off, ln), p) = Cut(s, st, off + p, ln)
  BY CutPart

\* The second.
LEMMA TakeCut ==
  ASSUME NEW s \in Seq(Nat), NEW st \in Nat, NEW off \in Nat, NEW ln \in Nat, NEW p \in Nat,
         off <= ln, st + ln <= Len(s), p <= ln - off
  PROVE  Take(Cut(s, st, off, ln), p) = Cut(s, st, off, off + p)
  BY CutPart

\* What is dropped twice.
LEMMA DropDrop ==
  ASSUME NEW s \in Seq(Nat), NEW n \in 0 .. Len(s), NEW p \in 0 .. Len(s) - n
  PROVE  Drop(Drop(s, n), p) = Drop(s, n + p)
  <1>1. Len(s) \in Nat OBVIOUS
  <1>2. PICK L \in Nat : L = Len(s) BY <1>1
  <1>3. n \in Nat /\ p \in Nat /\ 0 <= n /\ n <= L /\ p <= L - n BY <1>2
  <1>4. PICK m \in Nat, e \in Nat : m = n + 1 /\ e = n + p + 1 BY <1>3
  <1>5. m \in 1 .. L + 1 /\ L \in m - 1 .. L /\ p \in 0 .. L - m + 1 /\ m + p = e BY <1>3, <1>4
  <1>6. Drop(SubSeq(s, m, L), p) = SubSeq(s, e, L)
    <2>1. PICK x \in Nat : x = p BY <1>3
    <2>2. m \in 1 .. Len(s) + 1 /\ L \in m - 1 .. Len(s) /\ x \in 0 .. L - m + 1 BY <1>2, <1>5, <2>1
    <2>3. Drop(SubSeq(s, m, L), x) = SubSeq(s, m + x, L) BY <2>2, PartPart
    <2> QED BY <1>5, <2>1, <2>3
  <1>7. Drop(s, n) = SubSeq(s, m, L) /\ Drop(s, n + p) = SubSeq(s, e, L) BY <1>2, <1>3, <1>4 DEF Drop
  <1> QED BY <1>6, <1>7

-----------------------------------------------------------------------------
(* Their bytes one after another, and what a queue loses and gets.          *)

\* A chunk holds as many bytes as it says.
LEMMA BytesTyped ==
  ASSUME NEW fs \in Seq(FileType), NEW c, Good(c, fs)
  PROVE  BytesIn(c, fs) \in Seq(Nat) /\ Remaining(c) \in Nat /\ Len(BytesIn(c, fs)) = Remaining(c)
  <1> USE DEF Good, ChunkType, BytesIn, Remaining
  <1>1. CASE c.type = "mem"
    <2>1. c.bytes \in Seq(Nat) /\ c.offset \in 0 .. Len(c.bytes) BY <1>1 DEF GoodMem
    <2>2. /\ SubSeq(c.bytes, c.offset + 1, Len(c.bytes)) \in Seq(Nat)
          /\ Len(SubSeq(c.bytes, c.offset + 1, Len(c.bytes))) = Len(c.bytes) - c.offset
      BY <2>1, Suffix
    <2> QED BY <1>1, <2>1, <2>2
  <1>2. CASE c.type # "mem"
    <2> DEFINE s == fs[c.name].bytes
               m == c.start + c.offset + 1
               n == c.start + c.length
    <2>1. c.type = "file" /\ c.name \in DOMAIN fs BY <1>2 DEF GoodFile
    <2>2. fs[c.name] \in FileType BY <2>1
    <2>3. s \in Seq(Nat) BY <2>2 DEF FileType
    <2>4. m \in Int /\ n \in Int /\ 1 <= m /\ n <= Len(s) /\ m <= n + 1 /\ n - m + 1 = c.length - c.offset
      BY <1>2, <2>1 DEF GoodFile
    <2>5. c.length - c.offset \in Nat BY <1>2, <2>1 DEF GoodFile
    <2> HIDE DEF s, m, n
    <2>6. \A i \in m .. n : s[i] \in Nat BY <2>3, <2>4
    <2>7. SubSeq(s, m, n) \in Seq(Nat) /\ Len(SubSeq(s, m, n)) = IF m <= n THEN n - m + 1 ELSE 0
      BY <2>4, <2>6, SubSeqProperties
    <2>8. Len(SubSeq(s, m, n)) = c.length - c.offset BY <2>4, <2>7
    <2> QED BY <1>2, <2>5, <2>7, <2>8 DEF s, m, n
  <1> QED BY <1>1, <1>2

\* The bytes of chunks as a sequence of sequences, for the lemmas on FlattenSeq.
Each(cs, fs) == [i \in DOMAIN cs |-> BytesIn(cs[i], fs)]

\* The bytes of good chunks are there, a sequence for each.
LEMMA EachTyped ==
  ASSUME NEW cs, NEW fs, Fit(cs, fs)
  PROVE  /\ Each(cs, fs) \in Seq(Seq(Nat)) /\ Len(Each(cs, fs)) = Len(cs)
         /\ Flow(cs, fs) = FlattenSeq(Each(cs, fs)) /\ Flow(cs, fs) \in Seq(Nat)
  <1>1. \A i \in DOMAIN cs : BytesIn(cs[i], fs) \in Seq(Nat) BY BytesTyped DEF Fit
  <1>2. Each(cs, fs) \in Seq(Seq(Nat)) /\ Len(Each(cs, fs)) = Len(cs) BY <1>1 DEF Each, Fit
  <1>3. Flow(cs, fs) = FlattenSeq(Each(cs, fs)) BY DEF Flow, Each
  <1> QED BY <1>2, <1>3, FlatType

\* The bytes of two rows of chunks are those of the one and then those of the other.
LEMMA FlowConcat ==
  ASSUME NEW a, NEW b, NEW fs, Fit(a, fs), Fit(b, fs)
  PROVE  Fit(a \o b, fs) /\ Flow(a \o b, fs) = Flow(a, fs) \o Flow(b, fs)
  <1>1. a \in Seq(ChunkType) /\ b \in Seq(ChunkType) /\ Len(a) \in Nat /\ Len(b) \in Nat BY DEF Fit
  <1>2. /\ a \o b \in Seq(ChunkType) /\ Len(a \o b) = Len(a) + Len(b)
        /\ \A i \in 1 .. Len(a) + Len(b) : (a \o b)[i] = IF i <= Len(a) THEN a[i] ELSE b[i - Len(a)]
    BY <1>1, ConcatProperties
  <1>3. \A i \in DOMAIN (a \o b) : \/ i \in DOMAIN a /\ (a \o b)[i] = a[i]
                                   \/ i - Len(a) \in DOMAIN b /\ (a \o b)[i] = b[i - Len(a)]
    BY <1>1, <1>2
  <1>4. Fit(a \o b, fs) BY <1>2, <1>3 DEF Fit
  <1> DEFINE x == Each(a, fs)
             y == Each(b, fs)
             z == Each(a \o b, fs)
             T == Seq(Nat)
  <1>5. x \in Seq(T) /\ y \in Seq(T) /\ z \in Seq(T) /\ Len(x) = Len(a) /\ Len(y) = Len(b)
        /\ Len(z) = Len(a \o b)
    BY <1>4, EachTyped
  <1>6. /\ x \o y \in Seq(T) /\ Len(x \o y) = Len(x) + Len(y)
        /\ \A i \in 1 .. Len(x) + Len(y) : (x \o y)[i] = IF i <= Len(x) THEN x[i] ELSE y[i - Len(x)]
    <2> HIDE DEF x, y, z, T
    <2> QED BY <1>5, ConcatProperties
  <1>7. \A i \in 1 .. Len(z) : z[i] = (x \o y)[i]
    <2> TAKE i \in 1 .. Len(z)
    <2>1. i \in 1 .. Len(a) + Len(b) BY <1>2, <1>5
    <2>2. z[i] = BytesIn((a \o b)[i], fs) BY <1>1, <1>2, <2>1 DEF Each
    <2>3. CASE i <= Len(a)
      <3>1. i \in DOMAIN a /\ (a \o b)[i] = a[i] BY <1>1, <1>2, <2>1, <2>3
      <3>2. x[i] = BytesIn(a[i], fs) BY <3>1 DEF Each
      <3>3. (x \o y)[i] = x[i] BY <1>5, <1>6, <2>1, <2>3
      <3> QED BY <2>2, <3>1, <3>2, <3>3
    <2>4. CASE ~ (i <= Len(a))
      <3>1. i - Len(a) \in DOMAIN b /\ (a \o b)[i] = b[i - Len(a)] BY <1>1, <1>2, <2>1, <2>4
      <3>2. y[i - Len(a)] = BytesIn(b[i - Len(a)], fs) BY <3>1 DEF Each
      <3>3. (x \o y)[i] = y[i - Len(a)] BY <1>5, <1>6, <2>1, <2>4
      <3> QED BY <2>2, <3>1, <3>2, <3>3
    <2> QED BY <2>3, <2>4
  <1>8. z = x \o y
    <2>1. Len(z) = Len(x \o y) BY <1>2, <1>5, <1>6
    <2> HIDE DEF x, y, z, T
    <2> QED BY <1>5, <1>6, <1>7, <2>1, SeqEqual
  <1>9. FlattenSeq(x \o y) = FlattenSeq(x) \o FlattenSeq(y)
    <2>1. x \in Seq(Seq(Nat)) /\ y \in Seq(Seq(Nat)) BY <1>5
    <2> HIDE DEF x, y
    <2> QED BY <2>1, FlatConcat
  <1> QED BY <1>4, <1>8, <1>9, EachTyped

\* No chunks, no bytes.
LEMMA FlowEmpty == ASSUME NEW fs \in Seq(FileType) PROVE Flow(<<>>, fs) = <<>> /\ Fit(<<>>, fs)
  <1>1. <<>> = [i \in DOMAIN <<>> |-> BytesIn(<<>>[i], fs)] OBVIOUS
  <1>2. DOMAIN <<>> = {} OBVIOUS
  <1> QED BY <1>1, <1>2, FlatEmpty DEF Flow, Fit

\* One chunk.
LEMMA FlowOne ==
  ASSUME NEW fs \in Seq(FileType), NEW c, Good(c, fs)
  PROVE  Fit(<<c>>, fs) /\ Flow(<<c>>, fs) = BytesIn(c, fs)
  <1>1. c \in ChunkType BY DEF Good
  <1>2. Fit(<<c>>, fs) BY <1>1 DEF Fit
  <1>3. BytesIn(c, fs) \in Seq(Nat) BY BytesTyped
  <1> DEFINE s == BytesIn(c, fs)
  <1>4. Each(<<c>>, fs) = Append(<<>>, s) BY DEF Each
  <1> HIDE DEF s
  <1>5. s \in Seq(Nat) /\ <<>> \in Seq(Seq(Nat)) BY <1>3 DEF s
  <1>6. FlattenSeq(Append(<<>>, s)) = FlattenSeq(<<>>) \o s BY <1>5, FlatAppend
  <1>7. FlattenSeq(<<>>) \o s = s BY <1>5, FlatEmpty, ConcatEmptySeq
  <1> QED BY <1>2, <1>4, <1>6, <1>7, EachTyped DEF s

\* Chunks with the same bytes hold the same bytes together.
LEMMA FlowSame ==
  ASSUME NEW a \in Seq(ChunkType), NEW b \in Seq(ChunkType), NEW fs, NEW gs, Len(a) = Len(b),
         \A i \in 1 .. Len(a) : BytesIn(a[i], fs) = BytesIn(b[i], gs)
  PROVE  Flow(a, fs) = Flow(b, gs)
  <1>1. DOMAIN a = 1 .. Len(a) /\ DOMAIN b = 1 .. Len(a) OBVIOUS
  <1>2. [i \in DOMAIN a |-> BytesIn(a[i], fs)] = [i \in DOMAIN b |-> BytesIn(b[i], gs)] BY <1>1
  <1> QED BY <1>2 DEF Flow

\* Some chunks at the head, and the others.
LEMMA FlowSplit ==
  ASSUME NEW cs, NEW fs, Fit(cs, fs), NEW k \in 0 .. Len(cs)
  PROVE  /\ Fit(SubSeq(cs, 1, k), fs) /\ Fit(SubSeq(cs, k + 1, Len(cs)), fs)
         /\ Flow(cs, fs) = Flow(SubSeq(cs, 1, k), fs) \o Flow(SubSeq(cs, k + 1, Len(cs)), fs)
  <1> DEFINE a == SubSeq(cs, 1, k)
             b == SubSeq(cs, k + 1, Len(cs))
  <1>1. cs \in Seq(ChunkType) /\ fs \in Seq(FileType) /\ \A i \in 1 .. Len(cs) : Good(cs[i], fs) BY DEF Fit
  <1>2. a \in Seq(ChunkType) /\ Len(a) = k /\ \A i \in 1 .. k : a[i] = cs[i] BY <1>1, Prefix
  <1>3. b \in Seq(ChunkType) /\ Len(b) = Len(cs) - k /\ \A i \in 1 .. Len(cs) - k : b[i] = cs[k + i]
    BY <1>1, Suffix
  <1>4. cs = a \o b BY <1>1, SplitAt
  <1> HIDE DEF a, b
  <1>5. Fit(a, fs)
    <2>1. \A i \in 1 .. k : i \in 1 .. Len(cs) BY <1>1
    <2> QED BY <1>1, <1>2, <2>1 DEF Fit
  <1>6. Fit(b, fs)
    <2>1. \A i \in 1 .. Len(cs) - k : k + i \in 1 .. Len(cs) BY <1>1
    <2>2. \A i \in 1 .. Len(b) : Good(b[i], fs) BY <1>1, <1>3, <2>1
    <2> QED BY <1>1, <1>3, <2>2 DEF Fit
  <1>7. Flow(cs, fs) = Flow(a, fs) \o Flow(b, fs) BY <1>4, <1>5, <1>6, FlowConcat
  <1> QED BY <1>5, <1>6, <1>7 DEF a, b

\* The bytes of the first chunk come first.
LEMMA FlowHead ==
  ASSUME NEW cs, NEW fs, Fit(cs, fs), cs # <<>>
  PROVE  /\ Good(Head(cs), fs) /\ Fit(Tail(cs), fs) /\ Head(cs) = cs[1] /\ Tail(cs) = SubSeq(cs, 2, Len(cs))
         /\ Flow(cs, fs) = BytesIn(Head(cs), fs) \o Flow(Tail(cs), fs)
  <1>1. cs \in Seq(ChunkType) /\ fs \in Seq(FileType) /\ 1 \in DOMAIN cs /\ 1 \in 0 .. Len(cs) BY DEF Fit
  <1>2. Head(cs) = cs[1] /\ Good(cs[1], fs) /\ cs[1] \in ChunkType BY <1>1 DEF Fit, Good
  <1>3. Tail(cs) = SubSeq(cs, 2, Len(cs)) BY <1>1, TailIsSubSeq
  <1>4. SubSeq(cs, 1, 1) = <<cs[1]>>
    <2>1. SubSeq(cs, 1, 1) \in Seq(ChunkType) /\ Len(SubSeq(cs, 1, 1)) = 1 /\ SubSeq(cs, 1, 1)[1] = cs[1]
      BY <1>1, Prefix
    <2>2. <<cs[1]>> \in Seq(ChunkType) /\ Len(<<cs[1]>>) = 1 /\ <<cs[1]>>[1] = cs[1] BY <1>2
    <2>3. \A i \in 1 .. 1 : SubSeq(cs, 1, 1)[i] = <<cs[1]>>[i] BY <2>1, <2>2
    <2> QED BY <2>1, <2>2, <2>3, SeqEqual
  <1>5. 1 + 1 = 2 OBVIOUS
  <1>6. /\ Fit(SubSeq(cs, 2, Len(cs)), fs)
        /\ Flow(cs, fs) = Flow(SubSeq(cs, 1, 1), fs) \o Flow(SubSeq(cs, 2, Len(cs)), fs)
    BY <1>1, <1>5, FlowSplit
  <1> QED BY <1>1, <1>2, <1>3, <1>4, <1>6, FlowOne

\* What the length of the first chunks counts.
LEMMA LengthIs ==
  ASSUME NEW cq, NEW fs, Fit(cq.chunks, fs), NEW k \in 0 .. Len(cq.chunks)
  PROVE  LengthTo(cq, k) = Len(Flow(SubSeq(cq.chunks, 1, k), fs))
  <1> DEFINE cs == cq.chunks
             f == [i \in 0 .. k |-> Len(Flow(SubSeq(cs, 1, i), fs))]
             h == CHOOSE u : u = [i \in 0 .. k |-> IF i = 0 THEN 0 ELSE u[i - 1] + Remaining(cq.chunks[i])]
  <1>0. k \in Nat /\ fs \in Seq(FileType) /\ cs \in Seq(ChunkType) /\ Len(cs) \in Nat BY DEF Fit
  <1>1. f[0] = 0
    <2>1. SubSeq(cs, 1, 0) = <<>> BY SubSeqEmpty
    <2>2. Len(Flow(<<>>, fs)) = 0 BY <1>0, FlowEmpty
    <2>3. 0 \in 0 .. k BY <1>0
    <2> QED BY <2>1, <2>2, <2>3
  <1>2. ASSUME NEW i \in 1 .. k PROVE f[i] = f[i - 1] + Remaining(cs[i])
    <2>1. i \in 1 .. Len(cs) /\ i \in 0 .. k /\ i - 1 \in 0 .. k /\ i - 1 \in 0 .. Len(cs) BY <1>0
    <2> DEFINE a == SubSeq(cs, 1, i - 1)
               e == cs[i]
    <2>2. SubSeq(cs, 1, i) = Append(a, e) BY <1>0, <2>1, PrefixGrows
    <2>3. Good(e, fs) /\ e \in ChunkType BY <2>1 DEF Fit, Good
    <2>4. Fit(a, fs) BY <2>1, FlowSplit
    <2>5. f[i - 1] = Len(Flow(a, fs)) /\ f[i] = Len(Flow(Append(a, e), fs)) BY <2>1, <2>2
    <2>6. Remaining(cs[i]) = Remaining(e) OBVIOUS
    <2> HIDE DEF a, e, f
    <2>7. a \in Seq(ChunkType) BY <2>4 DEF Fit
    <2>8. Append(a, e) = a \o <<e>> BY <2>3, <2>7, AppendIsConcat
    <2>9. Fit(<<e>>, fs) /\ Flow(<<e>>, fs) = BytesIn(e, fs) BY <1>0, <2>3, FlowOne
    <2>10. Flow(Append(a, e), fs) = Flow(a, fs) \o BytesIn(e, fs) BY <2>4, <2>8, <2>9, FlowConcat
    <2>11. BytesIn(e, fs) \in Seq(Nat) /\ Len(BytesIn(e, fs)) = Remaining(e) BY <1>0, <2>3, BytesTyped
    <2>12. Flow(a, fs) \in Seq(Nat) BY <2>4, EachTyped
    <2>13. Len(Flow(a, fs) \o BytesIn(e, fs)) = Len(Flow(a, fs)) + Len(BytesIn(e, fs))
      BY <2>11, <2>12, ConcatProperties
    <2> QED BY <2>5, <2>6, <2>10, <2>11, <2>13
  <1>3. f = [i \in 0 .. k |-> IF i = 0 THEN 0 ELSE f[i - 1] + Remaining(cq.chunks[i])]
    <2>1. ASSUME NEW i \in 0 .. k
          PROVE  f[i] = IF i = 0 THEN 0 ELSE f[i - 1] + Remaining(cq.chunks[i])
      <3>1. i = 0 \/ i \in 1 .. k BY <1>0
      <3> HIDE DEF f
      <3> QED BY <1>1, <1>2, <3>1
    <2>2. f = [i \in 0 .. k |-> f[i]] OBVIOUS
    <2> HIDE DEF f
    <2> QED BY <2>1, <2>2
  <1>4. h = [i \in 0 .. k |-> IF i = 0 THEN 0 ELSE h[i - 1] + Remaining(cq.chunks[i])]
    <2> HIDE DEF f
    <2> QED BY <1>3
  <1>5. LengthTo(cq, k) = h[k] BY DEF LengthTo
  <1>6. \A i \in 0 .. k : h[i] = IF i = 0 THEN 0 ELSE h[i - 1] + Remaining(cs[i])
    <2> HIDE DEF f
    <2> QED BY <1>4
  <1> DEFINE B == {i \in 0 .. k : h[i] # f[i]}
  <1> HIDE DEF h, f
  <1>7. B = {}
    <2> SUFFICES ASSUME B # {} PROVE FALSE OBVIOUS
    <2>1. B \subseteq Nat OBVIOUS
    <2>2. PICK m \in B : \A j \in B : m <= j
      <3> HIDE DEF B
      <3> QED BY <2>1, LeastNatural
    <2>3. m \in 0 .. k /\ h[m] # f[m] OBVIOUS
    <2>4. m # 0 BY <1>1, <1>6, <2>3
    <2>5. m \in 1 .. k /\ m - 1 \in 0 .. k /\ m - 1 \notin B
      <3> HIDE DEF B
      <3> QED BY <1>0, <2>2, <2>3, <2>4
    <2>6. h[m - 1] = f[m - 1] BY <2>5
    <2> HIDE DEF B
    <2> QED BY <1>2, <1>6, <2>3, <2>4, <2>5, <2>6
  <1>8. k \in 0 .. k BY <1>0
  <1>9. h[k] = f[k] BY <1>7, <1>8
  <1> QED BY <1>5, <1>8, <1>9 DEF f

\* Lengths never shrink, and the whole length is that of all bytes.
LEMMA LengthBounds ==
  ASSUME NEW cq, NEW fs, Fit(cq.chunks, fs), NEW k \in 0 .. Len(cq.chunks)
  PROVE  /\ LengthTo(cq, k) \in Nat /\ LengthTo(cq, k) <= Len(Flow(cq.chunks, fs))
         /\ LengthTo(cq, 0) = 0 /\ LengthTo(cq, Len(cq.chunks)) = Len(Flow(cq.chunks, fs))
  <1> DEFINE cs == cq.chunks
             a == SubSeq(cs, 1, k)
             b == SubSeq(cs, k + 1, Len(cs))
  <1>0. fs \in Seq(FileType) /\ cs \in Seq(ChunkType) /\ Len(cs) \in Nat BY DEF Fit
  <1>1. Fit(a, fs) /\ Fit(b, fs) /\ Flow(cs, fs) = Flow(a, fs) \o Flow(b, fs) BY FlowSplit
  <1>2. LengthTo(cq, k) = Len(Flow(a, fs)) BY LengthIs
  <1>3. Flow(a, fs) \in Seq(Nat) /\ Flow(b, fs) \in Seq(Nat) BY <1>1, EachTyped
  <1>4. Len(Flow(cs, fs)) = Len(Flow(a, fs)) + Len(Flow(b, fs)) BY <1>1, <1>3, ConcatProperties
  <1>5. LengthTo(cq, 0) = 0
    <2>1. 0 \in 0 .. Len(cs) BY <1>0
    <2>2. LengthTo(cq, 0) = Len(Flow(SubSeq(cs, 1, 0), fs)) BY <2>1, LengthIs
    <2>3. SubSeq(cs, 1, 0) = <<>> BY SubSeqEmpty
    <2>4. Flow(<<>>, fs) = <<>> BY <1>0, FlowEmpty
    <2>5. LengthTo(cq, 0) = Len(<<>>)
      <3> HIDE DEF cs
      <3> QED BY <2>2, <2>3, <2>4
    <2> QED BY <2>5
  <1>6. LengthTo(cq, Len(cs)) = Len(Flow(cs, fs))
    <2>1. Len(cs) \in 0 .. Len(cs) BY <1>0
    <2>2. LengthTo(cq, Len(cs)) = Len(Flow(SubSeq(cs, 1, Len(cs)), fs)) BY <2>1, LengthIs
    <2> QED BY <1>0, <2>2, SubSeqFull
  <1>7. Len(Flow(a, fs)) \in Nat /\ Len(Flow(b, fs)) \in Nat BY <1>3
  <1> QED BY <1>2, <1>4, <1>5, <1>6, <1>7

\* Where a walk along the chunks stops.
LEMMA WholeIs ==
  ASSUME NEW cq, NEW fs, Fit(cq.chunks, fs), NEW len \in Nat
  PROVE  /\ Whole(cq, len) \in 0 .. Len(cq.chunks)
         /\ LengthTo(cq, Whole(cq, len)) <= len
         /\ Whole(cq, len) = Len(cq.chunks) \/ LengthTo(cq, Whole(cq, len) + 1) > len
  <1> DEFINE P(k) == LengthTo(cq, k) <= len /\ (k = Len(cq.chunks) \/ LengthTo(cq, k + 1) > len)
             B == {k \in 0 .. Len(cq.chunks) : k = Len(cq.chunks) \/ LengthTo(cq, k + 1) > len}
  <1>0. Len(cq.chunks) \in Nat BY DEF Fit
  <1>1. B \subseteq Nat /\ Len(cq.chunks) \in B BY <1>0
  <1>2. PICK m \in B : \A j \in B : m <= j
    <2> HIDE DEF B
    <2> QED BY <1>1, LeastNatural
  <1>3. LengthTo(cq, m) <= len
    <2>1. CASE m = 0
      <3>1. LengthTo(cq, 0) = 0 BY <1>0, <2>1, LengthBounds
      <3> QED BY <2>1, <3>1
    <2>2. CASE m # 0
      <3>1. m \in 0 .. Len(cq.chunks) /\ m - 1 \in 0 .. Len(cq.chunks) /\ m - 1 # Len(cq.chunks)
            /\ m - 1 + 1 = m
        BY <1>0, <2>2
      <3>2. m - 1 \notin B
        <4> HIDE DEF B
        <4> QED BY <1>2, <3>1
      <3>3. ~ (LengthTo(cq, m) > len) BY <3>1, <3>2
      <3>4. LengthTo(cq, m) \in Nat BY <3>1, LengthBounds
      <3> QED BY <3>3, <3>4
    <2> QED BY <2>1, <2>2
  <1>4. m \in 0 .. Len(cq.chunks) /\ P(m) BY <1>3
  <1>5. Whole(cq, len) = CHOOSE k \in 0 .. Len(cq.chunks) : P(k) BY DEF Whole
  <1> HIDE DEF B
  <1> QED BY <1>4, <1>5

\* The finished chunks at the head of a queue: those without a byte left, up to the first that has one.
LEMMA FinishedIs ==
  ASSUME NEW cq, Len(cq.chunks) \in Nat
  PROVE  /\ Finished(cq) \in 0 .. Len(cq.chunks)
         /\ \A i \in 1 .. Finished(cq) : Remaining(cq.chunks[i]) = 0
         /\ Finished(cq) = Len(cq.chunks) \/ Remaining(cq.chunks[Finished(cq) + 1]) # 0
  <1> DEFINE P(k) == /\ \A i \in 1 .. k : Remaining(cq.chunks[i]) = 0
                     /\ k = Len(cq.chunks) \/ Remaining(cq.chunks[k + 1]) # 0
             B == {k \in 0 .. Len(cq.chunks) : k = Len(cq.chunks) \/ Remaining(cq.chunks[k + 1]) # 0}
  <1>1. B \subseteq Nat /\ Len(cq.chunks) \in B OBVIOUS
  <1>2. PICK m \in B : \A j \in B : m <= j
    <2> HIDE DEF B
    <2> QED BY <1>1, LeastNatural
  <1>3. ASSUME NEW i \in 1 .. m PROVE Remaining(cq.chunks[i]) = 0
    <2>1. m \in 0 .. Len(cq.chunks) OBVIOUS
    <2>2. i - 1 \in 0 .. Len(cq.chunks) /\ i - 1 # Len(cq.chunks) /\ i - 1 + 1 = i /\ ~ (m <= i - 1) BY <2>1
    <2>3. i - 1 \notin B
      <3> HIDE DEF B
      <3> QED BY <1>2, <2>2
    <2> QED BY <2>2, <2>3
  <1>4. m \in 0 .. Len(cq.chunks) /\ P(m) BY <1>3
  <1>5. Finished(cq) = CHOOSE k \in 0 .. Len(cq.chunks) : P(k) BY DEF Finished
  <1> HIDE DEF B
  <1> QED BY <1>4, <1>5

\* Chunks without bytes.
LEMMA FlowNothing ==
  ASSUME NEW cs, NEW fs, Fit(cs, fs), \A i \in 1 .. Len(cs) : Remaining(cs[i]) = 0
  PROVE  Flow(cs, fs) = <<>>
  <1>0. cs \in Seq(ChunkType) /\ fs \in Seq(FileType) /\ Len(cs) \in Nat BY DEF Fit
  <1> DEFINE n == Len(cs)
             B == {m \in 0 .. n : Flow(SubSeq(cs, 1, m), fs) # <<>>}
  <1>1. B = {}
    <2> SUFFICES ASSUME B # {} PROVE FALSE OBVIOUS
    <2>1. B \subseteq Nat OBVIOUS
    <2>2. PICK m \in B : \A j \in B : m <= j
      <3> HIDE DEF B
      <3> QED BY <2>1, LeastNatural
    <2>3. m \in 0 .. n /\ Flow(SubSeq(cs, 1, m), fs) # <<>> OBVIOUS
    <2>4. m # 0
      <3>1. SubSeq(cs, 1, 0) = <<>> BY SubSeqEmpty
      <3> QED BY <1>0, <2>3, <3>1, FlowEmpty
    <2>5. m \in 1 .. n /\ m - 1 \in 0 .. n /\ m - 1 \notin B
      <3> HIDE DEF B
      <3> QED BY <1>0, <2>2, <2>3, <2>4
    <2> DEFINE a == SubSeq(cs, 1, m - 1)
               e == cs[m]
    <2>6. SubSeq(cs, 1, m) = Append(a, e) /\ Flow(a, fs) = <<>> BY <1>0, <2>5, PrefixGrows
    <2>7. Good(e, fs) /\ e \in ChunkType /\ Remaining(e) = 0 /\ Fit(a, fs)
      <3>1. Good(e, fs) /\ e \in ChunkType /\ Remaining(e) = 0 BY <2>5 DEF Fit, Good
      <3>2. Fit(a, fs) BY <2>5, FlowSplit
      <3> QED BY <3>1, <3>2
    <2> HIDE DEF a, e, B
    <2>8. a \in Seq(ChunkType) BY <2>7 DEF Fit
    <2>9. Append(a, e) = a \o <<e>> BY <2>7, <2>8, AppendIsConcat
    <2>10. Fit(<<e>>, fs) /\ Flow(<<e>>, fs) = BytesIn(e, fs) BY <1>0, <2>7, FlowOne
    <2>11. BytesIn(e, fs) \in Seq(Nat) /\ Len(BytesIn(e, fs)) = 0 BY <1>0, <2>7, BytesTyped
    <2>12. BytesIn(e, fs) = <<>> BY <2>11, EmptySeq
    <2>13. Flow(a \o <<e>>, fs) = Flow(a, fs) \o BytesIn(e, fs) BY <2>7, <2>10, FlowConcat
    <2>14. <<>> \o <<>> = <<>> OBVIOUS
    <2>15. Flow(SubSeq(cs, 1, m), fs) = <<>> BY <2>6, <2>9, <2>12, <2>13, <2>14
    <2> QED BY <2>3, <2>15
  <1>2. n \in 0 .. n /\ SubSeq(cs, 1, n) = cs BY <1>0, SubSeqFull
  <1> QED BY <1>1, <1>2

\* One chunk more counts what it holds.
LEMMA LengthGrows ==
  ASSUME NEW cq, NEW fs, Fit(cq.chunks, fs), NEW k \in 1 .. Len(cq.chunks)
  PROVE  LengthTo(cq, k) = LengthTo(cq, k - 1) + Remaining(cq.chunks[k])
  <1> DEFINE cs == cq.chunks
             a == SubSeq(cs, 1, k - 1)
             e == cs[k]
  <1>0. fs \in Seq(FileType) /\ cs \in Seq(ChunkType) /\ Len(cs) \in Nat BY DEF Fit
  <1>1. k \in 0 .. Len(cs) /\ k - 1 \in 0 .. Len(cs) BY <1>0
  <1>2. SubSeq(cs, 1, k) = Append(a, e) BY <1>0, PrefixGrows
  <1>3. Good(e, fs) /\ e \in ChunkType BY DEF Fit, Good
  <1>4. Fit(a, fs) BY <1>1, FlowSplit
  <1>5. LengthTo(cq, k - 1) = Len(Flow(a, fs)) /\ LengthTo(cq, k) = Len(Flow(Append(a, e), fs))
    BY <1>1, <1>2, LengthIs
  <1> HIDE DEF a, e
  <1>6. a \in Seq(ChunkType) BY <1>4 DEF Fit
  <1>7. Append(a, e) = a \o <<e>> BY <1>3, <1>6, AppendIsConcat
  <1>8. Fit(<<e>>, fs) /\ Flow(<<e>>, fs) = BytesIn(e, fs) BY <1>0, <1>3, FlowOne
  <1>9. Flow(Append(a, e), fs) = Flow(a, fs) \o BytesIn(e, fs) BY <1>4, <1>7, <1>8, FlowConcat
  <1>10. BytesIn(e, fs) \in Seq(Nat) /\ Len(BytesIn(e, fs)) = Remaining(e) BY <1>0, <1>3, BytesTyped
  <1>11. Flow(a, fs) \in Seq(Nat) BY <1>4, EachTyped
  <1>12. Len(Flow(a, fs) \o BytesIn(e, fs)) = Len(Flow(a, fs)) + Len(BytesIn(e, fs))
    BY <1>10, <1>11, ConcatProperties
  <1> QED BY <1>5, <1>9, <1>10, <1>12 DEF e

\* What is known of a chunk of each type.
LEMMA MemFacts ==
  ASSUME NEW fs, NEW c, Good(c, fs), c.type = "mem"
  PROVE  /\ c \in ChunkType /\ c.bytes \in Seq(Nat) /\ Len(c.bytes) \in Nat /\ c.offset \in Nat
         /\ c.offset <= Len(c.bytes) /\ ~c.temp /\ Remaining(c) = Len(c.bytes) - c.offset
         /\ BytesIn(c, fs) = SubSeq(c.bytes, c.offset + 1, Len(c.bytes))
  <1>1. c \in ChunkType /\ c.bytes \in Seq(Nat) /\ c.offset \in Nat BY DEF Good, ChunkType
  <1>2. c.offset <= Len(c.bytes) /\ ~c.temp BY DEF Good, GoodMem
  <1>3. Len(c.bytes) \in Nat BY <1>1
  <1> QED BY <1>1, <1>2, <1>3 DEF Remaining, BytesIn

\* What is known of a good chunk of a file.
LEMMA FileFacts ==
  ASSUME NEW fs \in Seq(FileType), NEW c, Good(c, fs), c.type # "mem"
  PROVE  /\ c \in ChunkType /\ c.type = "file" /\ c.name \in Nat /\ c.offset \in Nat /\ c.start \in Nat
         /\ c.length \in Nat /\ c.name \in DOMAIN fs /\ fs[c.name] \in FileType /\ fs[c.name].linked
         /\ fs[c.name].bytes \in Seq(Nat) /\ Len(fs[c.name].bytes) \in Nat
         /\ c.offset <= c.length /\ c.start + c.length <= Len(fs[c.name].bytes)
         /\ c.temp => c.start = 0 /\ c.length = Len(fs[c.name].bytes)
         /\ Remaining(c) = c.length - c.offset
         /\ BytesIn(c, fs) = SubSeq(fs[c.name].bytes, c.start + c.offset + 1, c.start + c.length)
  <1>1. /\ c \in ChunkType /\ c.type = "file" /\ c.name \in Nat /\ c.offset \in Nat /\ c.start \in Nat
        /\ c.length \in Nat
    BY DEF Good, ChunkType
  <1>2. /\ c.name \in DOMAIN fs /\ fs[c.name].linked
        /\ c.offset <= c.length /\ c.start + c.length <= Len(fs[c.name].bytes)
        /\ c.temp => c.start = 0 /\ c.length = Len(fs[c.name].bytes)
    BY <1>1 DEF Good, GoodFile
  <1>3. fs[c.name] \in FileType BY <1>2
  <1>4. fs[c.name].bytes \in Seq(Nat) BY <1>3 DEF FileType
  <1>5. Len(fs[c.name].bytes) \in Nat BY <1>4
  <1> QED BY <1>1, <1>2, <1>3, <1>4, <1>5 DEF Remaining, BytesIn

\* A chunk from which p bytes were taken.
Ahead(c, p) == [c EXCEPT !.offset = @ + p]
Alike(c, d) == c.type = d.type /\ c.name = d.name /\ c.temp = d.temp

\* A chunk of which p bytes are taken is still good and has the others.
LEMMA AheadIs ==
  ASSUME NEW fs \in Seq(FileType), NEW c, Good(c, fs), NEW p \in 0 .. Remaining(c)
  PROVE  /\ Good(Ahead(c, p), fs) /\ Alike(Ahead(c, p), c) /\ Remaining(Ahead(c, p)) = Remaining(c) - p
         /\ BytesIn(Ahead(c, p), fs) = Drop(BytesIn(c, fs), p)
  <1> DEFINE d == Ahead(c, p)
  <1>0. c \in ChunkType /\ Remaining(c) \in Nat BY BytesTyped DEF Good
  <1>1. d \in ChunkType /\ d.offset = c.offset + p /\ d.type = c.type /\ d.name = c.name /\ d.temp = c.temp
        /\ d.bytes = c.bytes /\ d.start = c.start /\ d.length = c.length
    <2>1. c.offset \in Nat /\ p \in Nat BY <1>0 DEF ChunkType
    <2>2. c.offset + p \in Nat BY <2>1
    <2> QED BY <1>0, <2>2 DEF Ahead, ChunkType
  <1> HIDE DEF d
  <1>2. Remaining(d) = Remaining(c) - p
    <2>1. Remaining(c) = (IF c.type = "mem" THEN Len(c.bytes) ELSE c.length) - c.offset BY DEF Remaining
    <2>2. Remaining(d) = (IF c.type = "mem" THEN Len(c.bytes) ELSE c.length) - (c.offset + p)
      BY <1>1 DEF Remaining
    <2>3. (IF c.type = "mem" THEN Len(c.bytes) ELSE c.length) \in Nat /\ c.offset \in Nat
      BY <1>0 DEF ChunkType
    <2> QED BY <2>1, <2>2, <2>3
  <1>3. CASE c.type = "mem"
    <2>1. /\ c.bytes \in Seq(Nat) /\ Len(c.bytes) \in Nat /\ c.offset \in Nat /\ c.offset <= Len(c.bytes)
          /\ ~c.temp /\ Remaining(c) = Len(c.bytes) - c.offset
      BY <1>3, MemFacts
    <2>2. Good(d, fs) BY <1>1, <1>3, <2>1 DEF Good, GoodMem, GoodFile
    <2>3. 0 \in Nat /\ p \in Nat /\ 0 + Len(c.bytes) <= Len(c.bytes) /\ p <= Len(c.bytes) - c.offset
      BY <2>1
    <2>6. PICK off \in Nat, ln \in Nat, k \in Nat : off = c.offset /\ ln = Len(c.bytes) /\ k = p BY <2>1, <2>3
    <2>7. 0 \in Nat /\ off <= ln /\ 0 + ln <= Len(c.bytes) /\ k <= ln - off BY <2>1, <2>3, <2>6
    <2>8. Drop(Cut(c.bytes, 0, off, ln), k) = Cut(c.bytes, 0, off + k, ln) BY <2>1, <2>7, DropCut
    <2>9. /\ 0 + off + 1 = off + 1 /\ 0 + (off + k) + 1 = off + k + 1 /\ 0 + ln = ln
      OBVIOUS
    <2>10. BytesIn(c, fs) = Cut(c.bytes, 0, off, ln) BY <1>3, <2>6, <2>9 DEF BytesIn, Cut
    <2>11. BytesIn(d, fs) = Cut(c.bytes, 0, off + k, ln) BY <1>1, <1>3, <2>6, <2>9 DEF BytesIn, Cut
    <2>5. BytesIn(d, fs) = Drop(BytesIn(c, fs), p) BY <2>6, <2>8, <2>10, <2>11
    <2> QED BY <1>1, <1>2, <2>2, <2>5 DEF Alike, d
  <1>4. CASE c.type # "mem"
    <2> DEFINE s == fs[c.name].bytes
    <2>1. c.type = "file" /\ c.name \in DOMAIN fs /\ c.offset \in Nat /\ c.start \in Nat /\ c.length \in Nat
      BY <1>4, FileFacts
    <2>2. /\ s \in Seq(Nat) /\ Len(s) \in Nat /\ c.offset <= c.length /\ c.start + c.length <= Len(s)
          /\ fs[c.name].linked /\ c.temp => c.start = 0 /\ c.length = Len(s)
      BY <1>4, FileFacts
    <2>3. Remaining(c) = c.length - c.offset BY <1>4 DEF Remaining
    <2>4. Good(d, fs) BY <1>1, <2>1, <2>2, <2>3 DEF Good, GoodMem, GoodFile
    <2>5. p \in Nat /\ p <= c.length - c.offset BY <2>1, <2>2, <2>3
    <2> HIDE DEF s
    <2>6. Drop(Cut(s, c.start, c.offset, c.length), p) = Cut(s, c.start, c.offset + p, c.length)
      <3>1. PICK st \in Nat, off \in Nat, ln \in Nat, k \in Nat :
              st = c.start /\ off = c.offset /\ ln = c.length /\ k = p
        BY <2>1, <2>5
      <3>2. off <= ln /\ st + ln <= Len(s) /\ k <= ln - off BY <2>2, <2>5, <3>1
      <3>3. Drop(Cut(s, st, off, ln), k) = Cut(s, st, off + k, ln) BY <2>2, <3>2, DropCut
      <3> QED BY <3>1, <3>3
    <2>7. BytesIn(d, fs) = Drop(BytesIn(c, fs), p) BY <1>1, <1>4, <2>6 DEF BytesIn, Cut, s
    <2> QED BY <1>1, <1>2, <2>4, <2>7 DEF Alike, d
  <1> QED BY <1>3, <1>4

\* The first part of a chunk, as chunkqueue_steal makes it.
LEMMA SplitOffIs ==
  ASSUME NEW fs \in Seq(FileType), NEW c, Good(c, fs), NEW p \in 0 .. Remaining(c)
  PROVE  LET d == SplitOff(c, p) IN
           /\ Good(d, fs) /\ d.type = c.type /\ ~d.temp /\ (d.type = "file" => d.name = c.name)
           /\ Remaining(d) = p /\ BytesIn(d, fs) = Take(BytesIn(c, fs), p)
  <1> DEFINE d == SplitOff(c, p)
  <1> SUFFICES /\ Good(d, fs) /\ d.type = c.type /\ ~d.temp /\ (d.type = "file" => d.name = c.name)
               /\ Remaining(d) = p /\ BytesIn(d, fs) = Take(BytesIn(c, fs), p)
    OBVIOUS
  <1>0. c \in ChunkType BY DEF Good
  <1>1. CASE c.type = "mem"
    <2> DEFINE s == c.bytes
               x == SubSeq(s, c.offset + 1, c.offset + p)
    <2>1. /\ s \in Seq(Nat) /\ Len(s) \in Nat /\ c.offset \in Nat /\ c.offset <= Len(s)
          /\ Remaining(c) = Len(s) - c.offset
      BY <1>1, MemFacts
    <2>2. p \in Nat /\ p <= Len(s) - c.offset BY <2>1
    <2>3. PICK off \in Nat, ln \in Nat, k \in Nat : off = c.offset /\ ln = Len(s) /\ k = p BY <2>1, <2>2
    <2>5. d = Mem(x) BY <1>1 DEF SplitOff
    <2>6. 0 + off + 1 = off + 1 /\ 0 + (off + k) = off + k /\ 0 + ln = ln OBVIOUS
    <2>7. BytesIn(c, fs) = Cut(s, 0, off, ln) BY <1>1, <2>3, <2>6 DEF BytesIn, Cut
    <2>13. x = Cut(s, 0, off, off + k) BY <2>3, <2>6 DEF Cut
    <2> HIDE DEF s, d, x
    <2>14. 0 \in Nat /\ off <= ln /\ 0 + ln <= Len(s) /\ k <= ln - off BY <2>1, <2>2, <2>3
    <2>15. Take(Cut(s, 0, off, ln), k) = Cut(s, 0, off, off + k)
      <3>1. PICK st \in Nat : st = 0 OBVIOUS
      <3>2. st + ln <= Len(s) BY <2>14, <3>1
      <3>3. Take(Cut(s, st, off, ln), k) = Cut(s, st, off, off + k) BY <2>1, <2>14, <3>2, TakeCut
      <3> QED BY <3>1, <3>3
    <2>4. x \in Seq(Nat) /\ Len(x) = p /\ x = Take(BytesIn(c, fs), p)
      <3> DEFINE y == BytesIn(c, fs)
      <3>1. y \in Seq(Nat) /\ p \in 0 .. Len(y) BY BytesTyped
      <3>2. x = Take(y, p) BY <2>3, <2>7, <2>13, <2>15
      <3> HIDE DEF y
      <3>3. SubSeq(y, 1, p) \in Seq(Nat) /\ Len(SubSeq(y, 1, p)) = p BY <3>1, Prefix
      <3> QED BY <3>2, <3>3 DEF Take, y
    <2> HIDE DEF x, d
    <2>8. d \in ChunkType /\ d.type = "mem" /\ d.bytes = x /\ d.offset = 0 /\ ~d.temp
      BY <2>4, <2>5 DEF Mem, ChunkType, NoFile
    <2>9. SubSeq(x, 0 + 1, Len(x)) = x BY <2>4, SubSeqFull
    <2>10. BytesIn(d, fs) = x BY <2>8, <2>9 DEF BytesIn
    <2>11. Good(d, fs) BY <2>4, <2>8 DEF Good, GoodMem, GoodFile
    <2>12. Remaining(d) = p BY <2>4, <2>8 DEF Remaining
    <2> QED BY <1>1, <2>4, <2>8, <2>10, <2>11, <2>12
  <1>2. CASE c.type # "mem"
    <2> DEFINE s == fs[c.name].bytes
    <2>1. c.type = "file" /\ c.name \in DOMAIN fs /\ c.offset \in Nat /\ c.start \in Nat /\ c.length \in Nat
          /\ c.name \in Nat
      BY <1>2, FileFacts
    <2>2. /\ s \in Seq(Nat) /\ Len(s) \in Nat /\ c.offset <= c.length /\ c.start + c.length <= Len(s)
          /\ fs[c.name].linked
      BY <1>2, FileFacts
    <2>3. Remaining(c) = c.length - c.offset BY <1>2 DEF Remaining
    <2>4. p \in Nat /\ p <= c.length - c.offset BY <2>1, <2>2, <2>3
    <2>5. /\ d.type = "file" /\ d.name = c.name /\ d.start = c.start + c.offset /\ d.length = p /\ ~d.temp
          /\ d.offset = 0 /\ d.bytes = <<>> /\ d \in ChunkType
      BY <1>2, <2>1 DEF SplitOff, File, ChunkType
    <2> HIDE DEF d
    <2>6. Good(d, fs)
      <3>1. d.start + d.length <= Len(s) /\ d.offset <= d.length BY <2>1, <2>2, <2>3, <2>5
      <3> QED BY <2>1, <2>2, <2>5, <3>1 DEF Good, GoodMem, GoodFile
    <2>7. Remaining(d) = p BY <2>5 DEF Remaining
    <2>8. BytesIn(d, fs) = Cut(s, c.start, c.offset, c.offset + p)
      <3>1. c.start + c.offset + 0 + 1 = c.start + c.offset + 1 BY <2>1
      <3>2. c.start + c.offset + p = c.start + (c.offset + p) BY <2>1, <2>4
      <3> QED BY <2>5, <3>1, <3>2 DEF BytesIn, Cut
    <2>9. BytesIn(c, fs) = Cut(s, c.start, c.offset, c.length) BY <1>2 DEF BytesIn, Cut
    <2> HIDE DEF s
    <2>11. Take(Cut(s, c.start, c.offset, c.length), p) = Cut(s, c.start, c.offset, c.offset + p)
      <3>1. PICK st \in Nat, off \in Nat, ln \in Nat, k \in Nat :
              st = c.start /\ off = c.offset /\ ln = c.length /\ k = p
        BY <2>1, <2>4
      <3>2. off <= ln /\ st + ln <= Len(s) /\ k <= ln - off BY <2>2, <2>4, <3>1
      <3>3. Take(Cut(s, st, off, ln), k) = Cut(s, st, off, off + k) BY <2>2, <3>2, TakeCut
      <3> QED BY <3>1, <3>3
    <2> QED BY <2>1, <2>5, <2>6, <2>7, <2>8, <2>9, <2>11
  <1> QED BY <1>1, <1>2

\* The chunk at the head in another form.
SetHead(cs, c) == [cs EXCEPT ![1] = c]

\* The row when the chunk at its head is replaced.
LEMMA FlowSetHead ==
  ASSUME NEW cs, NEW fs, Fit(cs, fs), cs # <<>>, NEW c, Good(c, fs)
  PROVE  /\ Fit(SetHead(cs, c), fs) /\ Len(SetHead(cs, c)) = Len(cs) /\ SetHead(cs, c) # <<>>
         /\ Head(SetHead(cs, c)) = c /\ Tail(SetHead(cs, c)) = Tail(cs)
         /\ \A i \in 1 .. Len(cs) : SetHead(cs, c)[i] = IF i = 1 THEN c ELSE cs[i]
         /\ Flow(SetHead(cs, c), fs) = BytesIn(c, fs) \o Flow(Tail(cs), fs)
  <1> DEFINE ds == SetHead(cs, c)
  <1>1. cs \in Seq(ChunkType) /\ fs \in Seq(FileType) /\ 1 \in 1 .. Len(cs) /\ c \in ChunkType
    BY DEF Fit, Good
  <1>2. /\ ds \in Seq(ChunkType) /\ Len(ds) = Len(cs)
        /\ \A i \in 1 .. Len(cs) : ds[i] = IF i = 1 THEN c ELSE cs[i]
    BY <1>1, ExceptSeq DEF SetHead
  <1> HIDE DEF ds
  <1>3. Fit(ds, fs) /\ ds # <<>> BY <1>1, <1>2 DEF Fit
  <1>4. Head(ds) = c BY <1>1, <1>2, <1>3
  <1>5. Tail(ds) = Tail(cs)
    <2>1. /\ Tail(ds) \in Seq(ChunkType) /\ Len(Tail(ds)) = Len(ds) - 1
          /\ \A i \in 1 .. Len(Tail(ds)) : Tail(ds)[i] = ds[i + 1]
      BY <1>2, <1>3, HeadTailProperties
    <2>2. /\ Tail(cs) \in Seq(ChunkType) /\ Len(Tail(cs)) = Len(cs) - 1
          /\ \A i \in 1 .. Len(Tail(cs)) : Tail(cs)[i] = cs[i + 1]
      BY <1>1, HeadTailProperties
    <2>3. \A i \in 1 .. Len(Tail(ds)) : Tail(ds)[i] = Tail(cs)[i]
      <3> TAKE i \in 1 .. Len(Tail(ds))
      <3>1. i + 1 \in 1 .. Len(cs) /\ i + 1 # 1 /\ i \in 1 .. Len(Tail(cs)) BY <1>1, <1>2, <2>1, <2>2
      <3> QED BY <1>2, <2>1, <2>2, <3>1
    <2> QED BY <1>2, <2>1, <2>2, <2>3, SeqEqual
  <1>6. Flow(ds, fs) = BytesIn(Head(ds), fs) \o Flow(Tail(ds), fs) BY <1>3, FlowHead
  <1> QED BY <1>2, <1>3, <1>4, <1>5, <1>6 DEF ds

\* p bytes of the chunk at the head are taken.
LEMMA FlowAhead ==
  ASSUME NEW cs, NEW fs, Fit(cs, fs), cs # <<>>, NEW p \in 0 .. Remaining(cs[1])
  PROVE  LET ds == SetHead(cs, Ahead(cs[1], p)) IN
           /\ Fit(ds, fs) /\ Len(ds) = Len(cs) /\ Good(cs[1], fs)
           /\ \A i \in 1 .. Len(cs) : ds[i] = IF i = 1 THEN Ahead(cs[1], p) ELSE cs[i]
           /\ Flow(ds, fs) = Drop(Flow(cs, fs), p)
           /\ Take(Flow(cs, fs), p) = Take(BytesIn(cs[1], fs), p)
           /\ p <= Len(Flow(cs, fs))
  <1> DEFINE ds == SetHead(cs, Ahead(cs[1], p))
             x == BytesIn(cs[1], fs)
             y == Flow(Tail(cs), fs)
  <1>1. fs \in Seq(FileType) /\ Head(cs) = cs[1] /\ Good(cs[1], fs) /\ Fit(Tail(cs), fs)
        /\ Flow(cs, fs) = x \o y
    BY FlowHead DEF Fit
  <1>2. Good(Ahead(cs[1], p), fs) /\ BytesIn(Ahead(cs[1], p), fs) = Drop(x, p) BY <1>1, AheadIs
  <1>3. /\ Fit(ds, fs) /\ Len(ds) = Len(cs)
        /\ \A i \in 1 .. Len(cs) : ds[i] = IF i = 1 THEN Ahead(cs[1], p) ELSE cs[i]
        /\ Flow(ds, fs) = BytesIn(Ahead(cs[1], p), fs) \o y
    <2> DEFINE c == Ahead(cs[1], p)
    <2>1. Good(c, fs) BY <1>2
    <2> HIDE DEF c
    <2>2. /\ Fit(SetHead(cs, c), fs) /\ Len(SetHead(cs, c)) = Len(cs)
          /\ \A i \in 1 .. Len(cs) : SetHead(cs, c)[i] = IF i = 1 THEN c ELSE cs[i]
          /\ Flow(SetHead(cs, c), fs) = BytesIn(c, fs) \o Flow(Tail(cs), fs)
      BY <2>1, FlowSetHead
    <2> QED BY <2>2 DEF c
  <1>4. x \in Seq(Nat) /\ y \in Seq(Nat) /\ p \in 0 .. Len(x) BY <1>1, BytesTyped, EachTyped
  <1> HIDE DEF ds, x, y
  <1>5. Drop(x \o y, p) = Drop(x, p) \o y /\ Take(x \o y, p) = Take(x, p) BY <1>4, DropConcat DEF Take
  <1>6. Len(x \o y) = Len(x) + Len(y) /\ Len(y) \in Nat /\ Len(x) \in Nat BY <1>4, ConcatProperties
  <1>7. p <= Len(x \o y) BY <1>4, <1>6
  <1> QED BY <1>1, <1>2, <1>3, <1>5, <1>7 DEF ds, x

CqType == [chunks : Seq(ChunkType), in : Int, out : Int, dir : Int]

\* A chunk more.
LEMMA FlowAppend ==
  ASSUME NEW cs, NEW fs, Fit(cs, fs), NEW c, Good(c, fs)
  PROVE  Fit(Append(cs, c), fs) /\ Flow(Append(cs, c), fs) = Flow(cs, fs) \o BytesIn(c, fs)
  <1>1. cs \in Seq(ChunkType) /\ fs \in Seq(FileType) /\ c \in ChunkType BY DEF Fit, Good
  <1>2. Append(cs, c) = cs \o <<c>> BY <1>1, AppendIsConcat
  <1>3. Fit(<<c>>, fs) /\ Flow(<<c>>, fs) = BytesIn(c, fs) BY <1>1, FlowOne
  <1> QED BY <1>2, <1>3, FlowConcat

\* The first chunks go.
LEMMA FlowDropped ==
  ASSUME NEW cq \in CqType, NEW fs, Fit(cq.chunks, fs), NEW k \in 0 .. Len(cq.chunks)
  PROVE  /\ Fit(DropFirst(cq, k).chunks, fs) /\ DropFirst(cq, k) \in CqType
         /\ DropFirst(cq, k).chunks = Drop(cq.chunks, k) /\ DropFirst(cq, k).in = cq.in
         /\ DropFirst(cq, k).out = cq.out /\ DropFirst(cq, k).dir = cq.dir
         /\ Len(DropFirst(cq, k).chunks) = Len(cq.chunks) - k
         /\ \A i \in 1 .. Len(cq.chunks) - k : DropFirst(cq, k).chunks[i] = cq.chunks[k + i]
         /\ Flow(DropFirst(cq, k).chunks, fs) = Drop(Flow(cq.chunks, fs), LengthTo(cq, k))
  <1> DEFINE cs == cq.chunks
             a == SubSeq(cs, 1, k)
             b == SubSeq(cs, k + 1, Len(cs))
             x == Flow(a, fs)
             y == Flow(b, fs)
  <1>1. cs \in Seq(ChunkType) /\ fs \in Seq(FileType) BY DEF Fit
  <1>2. DropFirst(cq, k) = [cq EXCEPT !.chunks = b] BY DEF DropFirst
  <1>3. Fit(a, fs) /\ Fit(b, fs) /\ Flow(cs, fs) = x \o y BY FlowSplit
  <1>4. b \in Seq(ChunkType) /\ Len(b) = Len(cs) - k /\ \A i \in 1 .. Len(cs) - k : b[i] = cs[k + i]
    BY <1>1, Suffix
  <1>5. LengthTo(cq, k) = Len(x) BY LengthIs
  <1>6. x \in Seq(Nat) /\ y \in Seq(Nat) BY <1>3, EachTyped
  <1> HIDE DEF x, y
  <1>7. SubSeq(x \o y, Len(x) + 1, Len(x \o y)) = y BY <1>6, SplitUnique
  <1>8. y = Drop(Flow(cs, fs), LengthTo(cq, k)) BY <1>3, <1>5, <1>7 DEF Drop
  <1> HIDE DEF a, b
  <1>9. /\ DropFirst(cq, k).chunks = b /\ DropFirst(cq, k) \in CqType /\ DropFirst(cq, k).in = cq.in
        /\ DropFirst(cq, k).out = cq.out /\ DropFirst(cq, k).dir = cq.dir
    BY <1>2, <1>4 DEF CqType
  <1>10. b = Drop(cs, k) BY DEF b, Drop
  <1> QED BY <1>2, <1>3, <1>4, <1>8, <1>9, <1>10 DEF y

\* The finished chunks at the head have no bytes.
LEMMA FlowTrimmed ==
  ASSUME NEW cq \in CqType, NEW fs, Fit(cq.chunks, fs)
  PROVE  LET k == Finished(cq) IN
           /\ k \in 0 .. Len(cq.chunks) /\ \A i \in 1 .. k : Remaining(cq.chunks[i]) = 0
           /\ Flow(DropFirst(cq, k).chunks, fs) = Flow(cq.chunks, fs)
  <1> DEFINE k == Finished(cq)
             cs == cq.chunks
             a == SubSeq(cs, 1, k)
  <1>1. cs \in Seq(ChunkType) /\ fs \in Seq(FileType) /\ Len(cs) \in Nat BY DEF Fit
  <1>2. k \in 0 .. Len(cs) /\ \A i \in 1 .. k : Remaining(cs[i]) = 0 BY <1>1, FinishedIs
  <1>3. Fit(a, fs) BY <1>2, FlowSplit
  <1>4. a \in Seq(ChunkType) /\ Len(a) = k /\ \A i \in 1 .. k : a[i] = cs[i] BY <1>1, <1>2, Prefix
  <1>5. Flow(a, fs) = <<>>
    <2>1. \A i \in 1 .. Len(a) : Remaining(a[i]) = 0 BY <1>2, <1>4
    <2> HIDE DEF a
    <2> QED BY <1>3, <2>1, FlowNothing
  <1>6. LengthTo(cq, k) = 0
    <2>1. LengthTo(cq, k) = Len(Flow(a, fs)) BY <1>2, LengthIs
    <2> QED BY <1>5, <2>1
  <1>7. Flow(cs, fs) \in Seq(Nat) BY EachTyped
  <1>8. Flow(DropFirst(cq, k).chunks, fs) = Drop(Flow(cs, fs), 0)
    <2>1. PICK j \in 0 .. Len(cs) : j = k BY <1>2
    <2>2. Flow(DropFirst(cq, j).chunks, fs) = Drop(Flow(cs, fs), LengthTo(cq, j)) BY FlowDropped
    <2> QED BY <1>6, <2>1, <2>2
  <1> QED BY <1>2, <1>7, <1>8, DropAll

\* len bytes of a queue were written.
LEMMA MarkWrittenIs ==
  ASSUME NEW cq \in CqType, NEW fs, Fit(cq.chunks, fs), NEW len \in Nat, len <= Len(Flow(cq.chunks, fs))
  PROVE  LET k == Whole(cq, len)
             m == MarkWritten(cq, len)
         IN /\ k \in 0 .. Len(cq.chunks) /\ m \in CqType /\ Fit(m.chunks, fs)
            /\ m.in = cq.in /\ m.out = cq.out + len
            /\ Len(m.chunks) = Len(cq.chunks) - k
            /\ \A i \in 1 .. Len(m.chunks) : Alike(m.chunks[i], cq.chunks[k + i])
            /\ Flow(m.chunks, fs) = Drop(Flow(cq.chunks, fs), len)
  <1> DEFINE cs == cq.chunks
  <1>0. PICK k \in 0 .. Len(cs) :
          k = Whole(cq, len) /\ LengthTo(cq, k) <= len /\ (k = Len(cs) \/ LengthTo(cq, k + 1) > len)
    BY WholeIs
  <1> DEFINE n == LengthTo(cq, k)
             part == len - n
             d == DropFirst(cq, k)
             es == Drop(cs, k)
             m == MarkWritten(cq, len)
             f == Flow(cs, fs)
  <1>1. cs \in Seq(ChunkType) /\ fs \in Seq(FileType) /\ Len(cs) \in Nat /\ f \in Seq(Nat)
    BY EachTyped DEF Fit
  <1>2. k \in 0 .. Len(cs) /\ n <= len /\ (k = Len(cs) \/ LengthTo(cq, k + 1) > len) BY <1>0
  <1>3. /\ Fit(es, fs) /\ d \in CqType /\ d.chunks = es /\ d.in = cq.in /\ d.out = cq.out
        /\ Len(es) = Len(cs) - k /\ \A i \in 1 .. Len(cs) - k : es[i] = cs[k + i]
        /\ Flow(es, fs) = Drop(f, n)
    <2>1. Fit(d.chunks, fs) /\ d \in CqType /\ d.in = cq.in /\ d.out = cq.out BY FlowDropped
    <2>2. d.chunks = es /\ Len(d.chunks) = Len(cs) - k BY FlowDropped
    <2>3. \A i \in 1 .. Len(cs) - k : d.chunks[i] = cs[k + i] BY FlowDropped
    <2>4. Flow(d.chunks, fs) = Drop(f, n) BY FlowDropped
    <2> HIDE DEF d, es, n, f
    <2> QED BY <2>1, <2>2, <2>3, <2>4
  <1>4. n \in Nat /\ n <= Len(f) /\ LengthTo(cq, Len(cs)) = Len(f) BY <1>2, LengthBounds
  <1>5. part \in Nat /\ n + part = len BY <1>2, <1>4
  <1>6. m = [d EXCEPT !.out = @ + len, !.chunks = IF part = 0 THEN @ ELSE Advance(@, part)]
    BY <1>0 DEF MarkWritten
  <1>7. cq.in \in Int /\ cq.out \in Int /\ d.in = cq.in /\ d.out = cq.out
    BY <1>3 DEF CqType
  <1>8. CASE part = 0
    <2>1. n = len BY <1>4, <1>5, <1>8
    <2>2. m \in CqType /\ m.chunks = es /\ m.in = cq.in /\ m.out = cq.out + len
      <3>1. d \in CqType /\ d.chunks = es BY <1>3
      <3>2. cq.out + len \in Int BY <1>7
      <3> HIDE DEF m, d, es, part
      <3>3. m = [d EXCEPT !.out = d.out + len, !.chunks = d.chunks] BY <1>6, <1>8
      <3> QED BY <1>7, <3>1, <3>2, <3>3 DEF CqType
    <2>3. \A i \in 1 .. Len(es) : Alike(es[i], cs[k + i]) BY <1>3 DEF Alike
    <2> HIDE DEF m, d, es, n, f, cs
    <2>4. Fit(m.chunks, fs) /\ Len(m.chunks) = Len(cs) - k /\ Flow(m.chunks, fs) = Drop(f, len)
          /\ \A i \in 1 .. Len(m.chunks) : Alike(m.chunks[i], cs[k + i])
      BY <1>3, <2>1, <2>2, <2>3
    <2> QED BY <1>0, <2>2, <2>4 DEF m, f, cs
  <1>9. CASE part # 0
    <2>1. k # Len(cs) BY <1>4, <1>5, <1>9
    <2>2. k + 1 \in 0 .. Len(cs) /\ k + 1 \in 1 .. Len(cs) /\ (k + 1) - 1 = k BY <1>1, <1>2, <2>1
    <2>3. LengthTo(cq, k + 1) = n + Remaining(cs[k + 1]) BY <2>2, LengthGrows
    <2>4. es # <<>> /\ es[1] = cs[k + 1] /\ Len(es) >= 1 /\ es \in Seq(ChunkType)
      <3>1. 1 \in 1 .. Len(cs) - k BY <1>1, <1>2, <2>1
      <3>2. es \in Seq(ChunkType) BY <1>3 DEF Fit
      <3>3. Len(es) = Len(cs) - k /\ es[1] = cs[k + 1] BY <1>3, <3>1
      <3> HIDE DEF es
      <3>4. Len(es) >= 1 BY <1>1, <3>1, <3>3
      <3> QED BY <3>2, <3>3, <3>4
    <2>5. Good(es[1], fs) /\ Remaining(es[1]) \in Nat
      <3>1. Good(es[1], fs) BY <1>3, <2>4 DEF Fit
      <3> QED BY <1>1, <3>1, BytesTyped
    <2>6. part \in 0 .. Remaining(es[1]) BY <1>2, <1>4, <1>5, <2>1, <2>3, <2>4, <2>5
    <2> DEFINE gs == SetHead(es, Ahead(es[1], part))
    <2>7. /\ Fit(gs, fs) /\ Len(gs) = Len(es)
          /\ \A i \in 1 .. Len(es) : gs[i] = IF i = 1 THEN Ahead(es[1], part) ELSE es[i]
          /\ Flow(gs, fs) = Drop(Flow(es, fs), part)
      <3> HIDE DEF es, part
      <3>1. PICK p \in 0 .. Remaining(es[1]) : p = part BY <2>6
      <3>2. Fit(es, fs) /\ es # <<>> BY <1>3, <2>4
      <3> DEFINE hs == SetHead(es, Ahead(es[1], p))
      <3>3. Fit(hs, fs) /\ Len(hs) = Len(es) BY <3>2, FlowAhead
      <3>4. \A i \in 1 .. Len(es) : hs[i] = IF i = 1 THEN Ahead(es[1], p) ELSE es[i] BY <3>2, FlowAhead
      <3>5. Flow(hs, fs) = Drop(Flow(es, fs), p) BY <3>2, FlowAhead
      <3> QED BY <3>1, <3>3, <3>4, <3>5
    <2>8. m = [d EXCEPT !.out = @ + len, !.chunks = gs]
      <3>1. gs = Advance(es, part) BY DEF SetHead, Ahead, Advance
      <3> HIDE DEF d, es, gs, part, m
      <3> QED BY <1>3, <1>6, <1>9, <3>1 DEF CqType
    <2>9. Alike(Ahead(es[1], part), es[1])
      <3> HIDE DEF es, part
      <3> QED BY <1>1, <2>5, <2>6, AheadIs
    <2>10. Drop(Drop(f, n), part) = Drop(f, len)
      <3> HIDE DEF f, n, part
      <3>1. n \in 0 .. Len(f) /\ part \in 0 .. Len(f) - n
        <4>1. Len(f) \in Nat BY <1>1
        <4> QED BY <1>4, <1>5, <4>1 DEF f
      <3> QED BY <1>1, <1>5, <3>1, DropDrop
    <2> HIDE DEF m, d, gs, es, n, part, f, cs
    <2>11. m \in CqType /\ m.chunks = gs /\ m.in = cq.in /\ m.out = cq.out + len
      <3>1. gs \in Seq(ChunkType) BY <2>7 DEF Fit
      <3>2. cq.out + len \in Int BY <1>7
      <3> QED BY <1>3, <1>7, <2>8, <3>1, <3>2 DEF CqType
    <2>12. \A i \in 1 .. Len(m.chunks) : Alike(m.chunks[i], cs[k + i])
      <3> TAKE i \in 1 .. Len(m.chunks)
      <3>1. i \in 1 .. Len(es) /\ gs[i] = IF i = 1 THEN Ahead(es[1], part) ELSE es[i] BY <2>7, <2>11
      <3>2. es[i] = cs[k + i] BY <1>3, <3>1
      <3> QED BY <2>4, <2>9, <2>11, <3>1, <3>2 DEF Alike
    <2>13. Fit(m.chunks, fs) /\ Len(m.chunks) = Len(cs) - k /\ Flow(m.chunks, fs) = Drop(f, len)
      BY <1>3, <2>7, <2>10, <2>11
    <2> QED BY <1>0, <2>11, <2>12, <2>13 DEF m, f, cs
  <1> QED BY <1>8, <1>9

-----------------------------------------------------------------------------
(* Which chunk deletes a file, in a queue that chunks leave and join.       *)

\* Files that lose their name keep their bytes.
LEMMA UnlinkedIs ==
  ASSUME NEW fs \in Seq(FileType), NEW X
  PROVE  /\ Unlinked(fs, X) \in Seq(FileType) /\ Len(Unlinked(fs, X)) = Len(fs)
         /\ DOMAIN Unlinked(fs, X) = DOMAIN fs
         /\ \A f \in DOMAIN fs : Unlinked(fs, X)[f].bytes = fs[f].bytes
         /\ \A f \in DOMAIN fs : Unlinked(fs, X)[f].linked <=>
            (fs[f].linked /\ ~ \E c \in X : c.temp /\ c.name = f)
  <1> DEFINE gone(f) == \E c \in X : c.temp /\ c.name = f
             gs == Unlinked(fs, X)
  <1>1. gs = [f \in DOMAIN fs |-> IF gone(f) THEN [fs[f] EXCEPT !.linked = FALSE] ELSE fs[f]] BY DEF Unlinked
  <1> HIDE DEF gs, gone
  <1>2. DOMAIN fs = 1 .. Len(fs) /\ Len(fs) \in Nat /\ DOMAIN gs = 1 .. Len(fs) BY <1>1
  <1>3. ASSUME NEW f \in DOMAIN fs
        PROVE  gs[f] \in FileType /\ gs[f].bytes = fs[f].bytes
               /\ (gs[f].linked <=> (fs[f].linked /\ ~gone(f)))
    <2>1. fs[f] \in FileType /\ gs[f] = IF gone(f) THEN [fs[f] EXCEPT !.linked = FALSE] ELSE fs[f] BY <1>1
    <2> QED BY <2>1 DEF FileType
  <1>4. gs \in [1 .. Len(fs) -> FileType] BY <1>1, <1>2, <1>3
  <1>5. gs \in Seq(FileType) /\ Len(gs) = Len(fs) BY <1>2, <1>4
  <1> QED BY <1>2, <1>3, <1>5 DEF gs, gone

\* Removing names of files changes the bytes of no chunk, and breaks only chunks of those files.
LEMMA UnlinkedGood ==
  ASSUME NEW fs \in Seq(FileType), NEW X, NEW c, Good(c, fs)
  PROVE  /\ BytesIn(c, Unlinked(fs, X)) = BytesIn(c, fs)
         /\ (\A d \in X : d.temp => ~Names(c, d.name)) => Good(c, Unlinked(fs, X))
  <1> DEFINE gs == Unlinked(fs, X)
  <1>1. /\ DOMAIN gs = DOMAIN fs /\ \A f \in DOMAIN fs : gs[f].bytes = fs[f].bytes
        /\ \A f \in DOMAIN fs : gs[f].linked <=> (fs[f].linked /\ ~ \E d \in X : d.temp /\ d.name = f)
    BY UnlinkedIs
  <1>2. c \in ChunkType /\ GoodMem(c) /\ GoodFile(c, fs) BY DEF Good
  <1>3. c.type = "mem" \/ c.type = "file" BY <1>2 DEF ChunkType
  <1> HIDE DEF gs
  <1>4. CASE c.type = "mem" BY <1>2, <1>4 DEF Good, GoodFile, BytesIn, gs
  <1>5. CASE c.type = "file"
    <2>1. c.name \in DOMAIN fs /\ fs[c.name].linked BY <1>2, <1>5 DEF GoodFile
    <2>2. gs[c.name].bytes = fs[c.name].bytes BY <1>1, <2>1
    <2>3. BytesIn(c, gs) = BytesIn(c, fs) BY <1>5, <2>2 DEF BytesIn
    <2>4. ASSUME \A d \in X : d.temp => ~Names(c, d.name) PROVE Good(c, gs)
      <3>1. gs[c.name].linked BY <1>1, <1>5, <2>1, <2>4 DEF Names
      <3> QED BY <1>1, <1>2, <1>5, <2>1, <2>2, <3>1 DEF Good, GoodFile
    <2> QED BY <2>3, <2>4 DEF gs
  <1> QED BY <1>3, <1>4, <1>5

\* One chunk after another, in terms of those there were before: h says which.
Heirs(A, B, h) == \A i \in DOMAIN B : B[i].type = "file" =>
  h[i] \in DOMAIN A /\ Names(A[h[i]], B[i].name) /\ (B[i].temp => A[h[i]].temp)
InTurn(B, h) == \A i, j \in DOMAIN B : B[i].temp /\ B[j].type = "file" /\ h[j] <= h[i] => j <= i
StillAlone(A, b, B, c, h) == \A i \in DOMAIN B : i > c /\ B[i].temp /\ Remaining(B[i]) = 0 =>
  h[i] > b /\ Remaining(A[h[i]]) = 0 /\ \A j \in DOMAIN B : B[j].type = "file" /\ h[j] = h[i] => j = i
StillOwned(A, fs, B, gs) == \A f \in DOMAIN gs : gs[f].linked =>
  f \in DOMAIN fs /\ fs[f].linked /\
  \A a \in DOMAIN A : A[a].temp /\ A[a].name = f => \E i \in DOMAIN B : B[i].temp /\ B[i].name = f

\* A row made from another one owns its files still, when the chunks that delete them stay the last.
LEMMA Carried ==
  ASSUME NEW A, NEW b \in Nat, NEW fs, Own(A, b, fs), NEW B, NEW c \in Nat, NEW gs, NEW h,
         A \in Seq(ChunkType), B \in Seq(ChunkType),
         \A i \in DOMAIN B : Good(B[i], gs),
         Heirs(A, B, h), InTurn(B, h), StillAlone(A, b, B, c, h), StillOwned(A, fs, B, gs)
  PROVE  Own(B, c, gs)
  <1>0. /\ \A i \in DOMAIN A : Good(A[i], fs)
        /\ Owned(A, fs) /\ LastOwns(A) /\ AloneEmpty(A, b)
    BY DEF Own
  <1>1. Owned(B, gs)
    <2> SUFFICES ASSUME NEW f \in DOMAIN gs, gs[f].linked PROVE \E i \in DOMAIN B : B[i].temp /\ B[i].name = f
      BY DEF Owned
    <2>1. f \in DOMAIN fs /\ fs[f].linked BY DEF StillOwned
    <2>2. PICK a \in DOMAIN A : A[a].temp /\ A[a].name = f BY <1>0, <2>1 DEF Owned
    <2> QED BY <2>2 DEF StillOwned
  <1>2. ASSUME NEW i \in DOMAIN B, NEW j \in DOMAIN B, B[i].temp, Names(B[j], B[i].name)
        PROVE  /\ B[i].type = "file" /\ B[j].type = "file" /\ h[i] \in DOMAIN A /\ h[j] \in DOMAIN A
               /\ A[h[i]].temp /\ Names(A[h[j]], A[h[i]].name)
    <2>1. B[i].type = "file"
      <3>1. Good(B[i], gs) OBVIOUS
      <3>2. B[i].type \in {"mem", "file"} BY <3>1 DEF Good, ChunkType
      <3> QED BY <1>2, <3>1, <3>2 DEF Good, GoodMem
    <2>2. B[j].type = "file" /\ B[j].name = B[i].name BY <1>2 DEF Names
    <2>3. h[i] \in DOMAIN A /\ Names(A[h[i]], B[i].name) /\ A[h[i]].temp BY <1>2, <2>1 DEF Heirs
    <2>4. h[j] \in DOMAIN A /\ Names(A[h[j]], B[j].name) BY <2>2 DEF Heirs
    <2> QED BY <2>1, <2>2, <2>3, <2>4 DEF Names
  <1>3. LastOwns(B)
    <2> SUFFICES ASSUME NEW i \in DOMAIN B, NEW j \in DOMAIN B, B[i].temp, Names(B[j], B[i].name) PROVE j <= i
      BY DEF LastOwns
    <2>1. /\ B[j].type = "file" /\ h[i] \in DOMAIN A /\ h[j] \in DOMAIN A
          /\ A[h[i]].temp /\ Names(A[h[j]], A[h[i]].name)
      BY <1>2
    <2>2. h[j] <= h[i] BY <1>0, <2>1 DEF LastOwns
    <2> QED BY <2>1, <2>2 DEF InTurn
  <1>4. AloneEmpty(B, c)
    <2> SUFFICES ASSUME NEW i \in DOMAIN B, NEW j \in DOMAIN B, i > c, B[i].temp, Remaining(B[i]) = 0,
                        Names(B[j], B[i].name)
                 PROVE  j = i
      BY DEF AloneEmpty
    <2>1. /\ B[j].type = "file" /\ h[i] \in DOMAIN A /\ h[j] \in DOMAIN A
          /\ A[h[i]].temp /\ Names(A[h[j]], A[h[i]].name)
      BY <1>2
    <2>2. h[i] > b /\ Remaining(A[h[i]]) = 0 BY DEF StillAlone
    <2>3. h[j] = h[i] BY <1>0, <2>1, <2>2 DEF AloneEmpty
    <2> QED BY <2>1, <2>3 DEF StillAlone
  <1> QED BY <1>1, <1>3, <1>4 DEF Own

\* The chunks I of A go, with the files that X names; the others stay, in their order, h says which.
Frees(X, A, I) == \A f : (\E x \in X : x.temp /\ x.name = f) <=> (\E i \in I : A[i].temp /\ A[i].name = f)
Keeps(A, b, B, c, I, h) ==
  /\ I \subseteq DOMAIN A /\ h \in [DOMAIN B -> DOMAIN A \ I]
  /\ \A i, j \in DOMAIN B : h[j] <= h[i] => j <= i
  /\ \A a \in DOMAIN A \ I : \E i \in DOMAIN B : h[i] = a
  /\ \A i \in DOMAIN B : Alike(B[i], A[h[i]])
  /\ \A i \in DOMAIN B : i > c => h[i] > b /\ Remaining(B[i]) = Remaining(A[h[i]])
Apart(A, I) == \A i \in I : \A a \in DOMAIN A \ I : A[i].temp => ~Names(A[a], A[i].name)

\* A row from which chunks go owns the files that their going leaves.
LEMMA OwnLess ==
  ASSUME NEW A \in Seq(ChunkType), NEW b \in Nat, NEW fs \in Seq(FileType), Own(A, b, fs),
         NEW B \in Seq(ChunkType), NEW c \in Nat, NEW I, NEW h, NEW X,
         \A i \in DOMAIN B : Good(B[i], fs), Keeps(A, b, B, c, I, h), Frees(X, A, I), Apart(A, I)
  PROVE  Own(B, c, Unlinked(fs, X))
  <1> DEFINE gs == Unlinked(fs, X)
  <1>1. /\ DOMAIN gs = DOMAIN fs
        /\ \A f \in DOMAIN fs : gs[f].linked <=> (fs[f].linked /\ ~ \E x \in X : x.temp /\ x.name = f)
    BY UnlinkedIs
  <1>2. ASSUME NEW i \in DOMAIN B PROVE Good(B[i], gs)
    <2>1. ASSUME NEW x \in X, x.temp, Names(B[i], x.name) PROVE FALSE
      <3>1. PICK a \in I : A[a].temp /\ A[a].name = x.name BY <2>1 DEF Frees
      <3>2. h[i] \in DOMAIN A \ I /\ Alike(B[i], A[h[i]]) BY DEF Keeps
      <3>3. Names(A[h[i]], A[a].name) BY <2>1, <3>1, <3>2 DEF Names, Alike
      <3> QED BY <3>1, <3>2, <3>3 DEF Apart
    <2>2. Good(B[i], fs) OBVIOUS
    <2> QED BY <2>1, <2>2, UnlinkedGood
  <1> HIDE DEF gs
  <1>3. Heirs(A, B, h)
    <2>1. \A i \in DOMAIN B : h[i] \in DOMAIN A /\ Alike(B[i], A[h[i]]) BY DEF Keeps
    <2> QED BY <2>1 DEF Heirs, Alike, Names
  <1>4. InTurn(B, h) BY DEF InTurn, Keeps
  <1>5. StillAlone(A, b, B, c, h)
    <2> SUFFICES ASSUME NEW i \in DOMAIN B, i > c, B[i].temp, Remaining(B[i]) = 0
                 PROVE  /\ h[i] > b /\ Remaining(A[h[i]]) = 0
                        /\ \A j \in DOMAIN B : B[j].type = "file" /\ h[j] = h[i] => j = i
      BY DEF StillAlone
    <2>1. h[i] > b /\ Remaining(A[h[i]]) = 0 BY DEF Keeps
    <2>2. \A j \in DOMAIN B : h[j] \in Nat /\ (h[j] <= h[i] => j <= i) /\ (h[i] <= h[j] => i <= j)
      BY DEF Keeps
    <2>3. \A j \in DOMAIN B : h[j] = h[i] => j = i BY <2>2
    <2> QED BY <2>1, <2>3
  <1>6. StillOwned(A, fs, B, gs)
    <2> SUFFICES ASSUME NEW f \in DOMAIN gs, gs[f].linked
                 PROVE  f \in DOMAIN fs /\ fs[f].linked /\
                        \A a \in DOMAIN A : A[a].temp /\ A[a].name = f => \E i \in DOMAIN B : B[i].temp
                          /\ B[i].name = f
      BY DEF StillOwned
    <2>1. f \in DOMAIN fs /\ fs[f].linked /\ ~ \E x \in X : x.temp /\ x.name = f BY <1>1
    <2>2. ASSUME NEW a \in DOMAIN A, A[a].temp, A[a].name = f
          PROVE \E i \in DOMAIN B : B[i].temp /\ B[i].name = f
      <3>1. a \notin I BY <2>1, <2>2 DEF Frees
      <3>2. PICK i \in DOMAIN B : h[i] = a BY <3>1 DEF Keeps
      <3>3. Alike(B[i], A[a]) BY <3>2 DEF Keeps
      <3> QED BY <2>2, <3>3 DEF Alike
    <2> QED BY <2>1, <2>2
  <1>7. Own(B, c, gs) BY <1>2, <1>3, <1>4, <1>5, <1>6, Carried
  <1> QED BY <1>7 DEF gs

\* Nothing goes.
LEMMA UnlinkedNone ==
  ASSUME NEW fs \in Seq(FileType), NEW X, \A x \in X : ~x.temp
  PROVE  Unlinked(fs, X) = fs
  <1>1. \A f : ~ \E x \in X : x.temp /\ x.name = f OBVIOUS
  <1>2. Unlinked(fs, X) = [f \in DOMAIN fs |-> fs[f]] BY <1>1 DEF Unlinked
  <1> QED BY <1>2

\* Every chunk stays; those that could be empty as many as they are.
LEMMA OwnAlike ==
  ASSUME NEW A \in Seq(ChunkType), NEW b \in Nat, NEW fs \in Seq(FileType), Own(A, b, fs),
         NEW B \in Seq(ChunkType), NEW c \in Nat, Len(B) = Len(A), b <= c,
         \A i \in 1 .. Len(A) : Good(B[i], fs) /\ Alike(B[i], A[i])
           /\ (i > c => Remaining(B[i]) = Remaining(A[i]))
  PROVE  Own(B, c, fs)
  <1> DEFINE h == [i \in DOMAIN B |-> i]
  <1>1. DOMAIN A = 1 .. Len(A) /\ DOMAIN B = DOMAIN A /\ Len(A) \in Nat OBVIOUS
  <1>2. Keeps(A, b, B, c, {}, h) BY <1>1 DEF Keeps
  <1>3. Frees({}, A, {}) /\ Apart(A, {}) BY DEF Frees, Apart
  <1>4. Own(B, c, Unlinked(fs, {}))
    <2> HIDE DEF h
    <2> QED BY <1>1, <1>2, <1>3, OwnLess
  <1> QED BY <1>4, UnlinkedNone

\* The first k go; a file goes with its last chunk.
LEMMA OwnDropped ==
  ASSUME NEW A \in Seq(ChunkType), NEW b \in Nat, NEW fs \in Seq(FileType), Own(A, b, fs),
         NEW B \in Seq(ChunkType), NEW k \in 0 .. Len(A), k <= b, Len(B) = Len(A) - k, NEW X,
         \A i \in 1 .. Len(B) : Good(B[i], fs) /\ Alike(B[i], A[k + i])
                                /\ (i > b - k => Remaining(B[i]) = Remaining(A[k + i])),
         Frees(X, A, 1 .. k)
  PROVE  Own(B, b - k, Unlinked(fs, X))
  <1> DEFINE h == [i \in DOMAIN B |-> k + i]
             I == 1 .. k
  <1>1. DOMAIN A = 1 .. Len(A) /\ DOMAIN B = 1 .. Len(A) - k /\ Len(A) \in Nat /\ k \in Nat /\ b - k \in Nat
    OBVIOUS
  <1>2. \A i \in DOMAIN B : h[i] = k + i /\ k + i \in DOMAIN A \ I BY <1>1
  <1>3. \A a \in DOMAIN A \ I : a - k \in DOMAIN B /\ h[a - k] = a BY <1>1
  <1>4. Keeps(A, b, B, b - k, I, h)
    <2>1. I \subseteq DOMAIN A /\ h \in [DOMAIN B -> DOMAIN A \ I] BY <1>1, <1>2
    <2>2. \A i, j \in DOMAIN B : h[j] <= h[i] => j <= i BY <1>1
    <2>3. \A i \in DOMAIN B : Alike(B[i], A[h[i]]) BY <1>1, <1>2
    <2>4. \A i \in DOMAIN B : i > b - k => h[i] > b /\ Remaining(B[i]) = Remaining(A[h[i]]) BY <1>1, <1>2
    <2>5. \A a \in DOMAIN A \ I : \E i \in DOMAIN B : h[i] = a BY <1>3
    <2> HIDE DEF h, I
    <2> QED BY <2>1, <2>2, <2>3, <2>4, <2>5 DEF Keeps
  <1>5. Apart(A, I)
    <2>1. LastOwns(A) BY DEF Own
    <2>2. \A i \in I : \A a \in DOMAIN A \ I : i \in DOMAIN A /\ ~(a <= i) BY <1>1
    <2> HIDE DEF I
    <2> QED BY <2>1, <2>2 DEF LastOwns, Apart
  <1>6. \A i \in DOMAIN B : Good(B[i], fs) BY <1>1
  <1>7. Frees(X, A, I) OBVIOUS
  <1> HIDE DEF h, I
  <1> QED BY <1>1, <1>4, <1>5, <1>6, <1>7, OwnLess

\* Chunks of memory are put at the end.
LEMMA OwnMore ==
  ASSUME NEW A \in Seq(ChunkType), NEW b \in Nat, NEW fs \in Seq(FileType), Own(A, b, fs),
         NEW B \in Seq(ChunkType), Len(B) >= Len(A),
         \A i \in 1 .. Len(B) : Good(B[i], fs) /\ IF i <= Len(A) THEN B[i] = A[i] ELSE B[i].type = "mem"
  PROVE  Own(B, b, fs)
  <1> DEFINE h == [i \in DOMAIN B |-> i]
  <1>1. DOMAIN A = 1 .. Len(A) /\ DOMAIN B = 1 .. Len(B) /\ Len(A) \in Nat /\ Len(B) \in Nat OBVIOUS
  <1>2. \A i \in DOMAIN B : h[i] = i /\ Good(B[i], fs)
        /\ (B[i].type = "file" \/ B[i].temp => i \in DOMAIN A /\ B[i] = A[i])
    <2> SUFFICES ASSUME NEW i \in DOMAIN B
                 PROVE  Good(B[i], fs) /\ (B[i].type = "file" \/ B[i].temp => i \in DOMAIN A /\ B[i] = A[i])
      OBVIOUS
    <2>1. Good(B[i], fs) /\ IF i <= Len(A) THEN B[i] = A[i] ELSE B[i].type = "mem" BY <1>1
    <2>2. B[i].type = "mem" => ~B[i].temp BY <2>1 DEF Good, GoodMem
    <2> QED BY <1>1, <2>1, <2>2
  <1> HIDE DEF h
  <1>3. Heirs(A, B, h) BY <1>2 DEF Heirs, Names
  <1>4. InTurn(B, h) BY <1>1, <1>2 DEF InTurn
  <1>5. StillAlone(A, b, B, b, h) BY <1>2 DEF StillAlone
  <1>6. StillOwned(A, fs, B, fs)
    <2>1. \A a \in DOMAIN A : a \in DOMAIN B /\ B[a] = A[a] BY <1>1
    <2> QED BY <2>1 DEF StillOwned
  <1>7. \A i \in DOMAIN B : Good(B[i], fs) BY <1>2
  <1> QED BY <1>3, <1>4, <1>5, <1>6, <1>7, Carried

\* A piece of the first chunk that is not on its way goes ahead of it.
LEMMA OwnPiece ==
  ASSUME NEW A \in Seq(ChunkType), NEW b \in Nat, NEW fs \in Seq(FileType), Own(A, b, fs), b < Len(A),
         NEW B \in Seq(ChunkType), Len(B) = Len(A) + 1,
         \A i \in 1 .. Len(B) :
           /\ Good(B[i], fs)
           /\ i <= b => B[i] = A[i]
           /\ i = b + 1 => B[i].type = A[i].type /\ ~B[i].temp
              /\ (B[i].type = "file" => B[i].name = A[i].name)
           /\ i > b + 1 => Alike(B[i], A[i - 1])
           /\ i > b + 2 => Remaining(B[i]) = Remaining(A[i - 1])
           /\ i = b + 2 => Remaining(B[i]) # 0
  PROVE  Own(B, b + 1, fs)
  <1> DEFINE h == [i \in DOMAIN B |-> IF i <= b + 1 THEN i ELSE i - 1]
  <1>1. DOMAIN A = 1 .. Len(A) /\ DOMAIN B = 1 .. Len(A) + 1 /\ Len(A) \in Nat OBVIOUS
  <1>2. \A i \in DOMAIN B : h[i] = (IF i <= b + 1 THEN i ELSE i - 1) /\ h[i] \in DOMAIN A BY <1>1
  <1> HIDE DEF h
  <1>3. Heirs(A, B, h)
    <2> SUFFICES ASSUME NEW i \in DOMAIN B, B[i].type = "file"
                 PROVE  h[i] \in DOMAIN A /\ Names(A[h[i]], B[i].name) /\ (B[i].temp => A[h[i]].temp)
      BY DEF Heirs
    <2>0. i \in 1 .. Len(B) /\ h[i] \in DOMAIN A BY <1>1, <1>2
    <2>1. CASE i <= b
      <3>1. h[i] = i /\ B[i] = A[i] BY <1>2, <2>0, <2>1
      <3> QED BY <2>0, <3>1 DEF Names
    <2>2. CASE i = b + 1
      <3>1. h[i] = i /\ B[i].type = A[i].type /\ ~B[i].temp /\ (B[i].type = "file" => B[i].name = A[i].name)
        BY <1>2, <2>0, <2>2
      <3> QED BY <2>0, <3>1 DEF Names
    <2>3. CASE i > b + 1
      <3>1. h[i] = i - 1 /\ Alike(B[i], A[i - 1]) BY <1>1, <1>2, <2>0, <2>3
      <3> QED BY <2>0, <3>1 DEF Names, Alike
    <2> QED BY <2>0, <2>1, <2>2, <2>3
  <1>4. InTurn(B, h)
    <2> SUFFICES ASSUME NEW i \in DOMAIN B, NEW j \in DOMAIN B, B[i].temp, h[j] <= h[i] PROVE j <= i
      BY DEF InTurn
    <2>1. i # b + 1 BY <1>1
    <2> QED BY <1>1, <1>2, <2>1
  <1>5. StillAlone(A, b, B, b + 1, h)
    <2> SUFFICES ASSUME NEW i \in DOMAIN B, i > b + 1, B[i].temp, Remaining(B[i]) = 0
                 PROVE  /\ h[i] > b /\ Remaining(A[h[i]]) = 0
                        /\ \A j \in DOMAIN B : B[j].type = "file" /\ h[j] = h[i] => j = i
      BY DEF StillAlone
    <2>1. i > b + 2 BY <1>1
    <2>2. h[i] = i - 1 /\ Remaining(B[i]) = Remaining(A[i - 1]) BY <1>1, <1>2, <2>1
    <2>3. \A j \in DOMAIN B : h[j] = h[i] => j = i BY <1>1, <1>2, <2>1
    <2> QED BY <1>1, <2>1, <2>2, <2>3
  <1>6. StillOwned(A, fs, B, fs)
    <2> SUFFICES ASSUME NEW f \in DOMAIN fs, NEW a \in DOMAIN A, A[a].temp, A[a].name = f
                 PROVE  \E i \in DOMAIN B : B[i].temp /\ B[i].name = f
      BY DEF StillOwned
    <2>1. CASE a <= b
      <3>1. a \in DOMAIN B /\ B[a] = A[a] BY <1>1, <2>1
      <3> QED BY <3>1
    <2>2. CASE a > b
      <3>1. PICK i \in 1 .. Len(B) : i = a + 1 BY <1>1
      <3>2. Alike(B[i], A[i - 1]) /\ i - 1 = a BY <1>1, <2>2, <3>1
      <3> QED BY <1>1, <3>1, <3>2 DEF Alike
    <2> QED BY <1>1, <2>1, <2>2
  <1>7. \A i \in DOMAIN B : Good(B[i], fs) BY <1>1
  <1> QED BY <1>3, <1>4, <1>5, <1>6, <1>7, Carried

\* A sequence with one element more.
LEMMA Appended ==
  ASSUME NEW S, NEW s \in Seq(S), NEW e \in S, NEW n \in Nat, n = Len(s) + 1
  PROVE  /\ Append(s, e) \in Seq(S) /\ Len(Append(s, e)) = n /\ DOMAIN Append(s, e) = 1 .. n
         /\ DOMAIN s = 1 .. Len(s) /\ Len(s) \in Nat
         /\ Append(s, e)[n] = e /\ \A i \in DOMAIN s : Append(s, e)[i] = s[i]
  OBVIOUS

\* A new file, and the chunk that deletes it.
NewFile == [bytes |-> <<>>, linked |-> TRUE]

\* A file more leaves the others as they are, and the chunks good.
LEMMA NewFileIs ==
  ASSUME NEW fs \in Seq(FileType)
  PROVE  /\ Append(fs, NewFile) \in Seq(FileType) /\ Len(Append(fs, NewFile)) = Len(fs) + 1
         /\ \A f \in DOMAIN fs : f \in DOMAIN Append(fs, NewFile) /\ Append(fs, NewFile)[f] = fs[f]
         /\ Append(fs, NewFile)[Len(fs) + 1] = NewFile
         /\ \A c : Good(c, fs) => Good(c, Append(fs, NewFile))
            /\ BytesIn(c, Append(fs, NewFile)) = BytesIn(c, fs)
  <1> DEFINE gs == Append(fs, NewFile)
  <1>1. NewFile \in FileType
    <2>1. <<>> \in Seq(Nat) OBVIOUS
    <2> QED BY <2>1 DEF NewFile, FileType
  <1>2. /\ gs \in Seq(FileType) /\ Len(gs) = Len(fs) + 1 /\ gs[Len(fs) + 1] = NewFile
        /\ \A f \in 1 .. Len(fs) : gs[f] = fs[f]
    BY <1>1, AppendProperties
  <1> HIDE DEF gs
  <1>3. DOMAIN fs = 1 .. Len(fs) /\ DOMAIN gs = 1 .. Len(fs) + 1 /\ Len(fs) \in Nat BY <1>2
  <1>4. \A f \in DOMAIN fs : f \in DOMAIN gs /\ gs[f] = fs[f] BY <1>2, <1>3
  <1>5. ASSUME NEW c, Good(c, fs) PROVE Good(c, gs) /\ BytesIn(c, gs) = BytesIn(c, fs)
    <2>1. c \in ChunkType /\ GoodMem(c) /\ GoodFile(c, fs) BY <1>5 DEF Good
    <2>2. c.type = "mem" \/ c.type = "file" BY <2>1 DEF ChunkType
    <2>3. c.type = "file" => c.name \in DOMAIN fs BY <2>1 DEF GoodFile
    <2>4. GoodFile(c, gs) BY <1>4, <2>1, <2>3 DEF GoodFile
    <2> QED BY <1>4, <2>1, <2>2, <2>3, <2>4 DEF Good, BytesIn
  <1> QED BY <1>2, <1>4, <1>5 DEF gs

\* The chunk of the new file is good, empty and open.
LEMMA NewChunk ==
  ASSUME NEW n \in Nat, NEW fs, n \in DOMAIN fs, fs[n] = NewFile
  PROVE  LET c == File(n, 0, 0, TRUE, TRUE) IN
           /\ Good(c, fs) /\ BytesIn(c, fs) = <<>> /\ c.type = "file" /\ c.temp /\ c.name = n
              /\ Remaining(c) = 0
           /\ c.open
  <1> DEFINE c == File(n, 0, 0, TRUE, TRUE)
  <1>1. NewFile.bytes = <<>> /\ NewFile.linked /\ Len(<<>>) = 0 BY DEF NewFile
  <1>2. c \in ChunkType
    <2>1. <<>> \in Seq(Nat) OBVIOUS
    <2> QED BY <2>1 DEF File, ChunkType
  <1>3. c.type = "file" /\ c.name = n /\ c.temp = TRUE /\ c.open = TRUE BY DEF File
  <1>4. c.offset = 0 /\ c.start = 0 /\ c.length = 0 BY DEF File
  <1>5. c.offset <= c.length BY DEF File
  <1>6. c.start + c.length = 0 BY DEF File
  <1>7. c.start + c.offset + 1 = 1 BY DEF File
  <1>8. Remaining(c) = 0 BY DEF File, Remaining
  <1> HIDE DEF c
  <1>9. GoodFile(c, fs) BY <1>1, <1>3, <1>4, <1>5, <1>6 DEF GoodFile
  <1>10. BytesIn(c, fs) = <<>>
    <2>1. BytesIn(c, fs) = SubSeq(<<>>, 1, 0) BY <1>1, <1>3, <1>6, <1>7 DEF BytesIn
    <2> QED BY <2>1
  <1>11. Good(c, fs) BY <1>2, <1>3, <1>9 DEF Good, GoodMem
  <1>12. c.temp /\ c.open BY <1>3
  <1> QED BY <1>3, <1>8, <1>10, <1>11, <1>12 DEF c

\* The row with that chunk at its end owns the new file too.
LEMMA OwnNew ==
  ASSUME NEW A \in Seq(ChunkType), NEW b \in Nat, NEW fs \in Seq(FileType), Own(A, b, fs),
         NEW n \in Nat, n = Len(fs) + 1, NEW c, c.type = "file", c.temp, c.name = n,
           Good(c, Append(fs, NewFile))
  PROVE  Own(Append(A, c), b, Append(fs, NewFile))
  <1> DEFINE gs == Append(fs, NewFile)
             B == Append(A, c)
  <1>b. PICK L \in Nat : L = Len(A) + 1 OBVIOUS
  <1>0. n \notin DOMAIN fs OBVIOUS
  <1>1. /\ gs \in Seq(FileType) /\ Len(gs) = n /\ gs[n] = NewFile
        /\ \A f \in DOMAIN fs : f \in DOMAIN gs /\ gs[f] = fs[f]
        /\ \A d : Good(d, fs) => Good(d, gs)
    BY NewFileIs
  <1>3. c \in ChunkType BY DEF Good
  <1>4. B \in Seq(ChunkType) /\ B[L] = c /\ \A i \in DOMAIN A : B[i] = A[i]
    <2>1. B \in Seq(ChunkType) BY <1>3, <1>b, Appended
    <2>2. B[L] = c BY <1>3, <1>b, Appended
    <2>3. \A i \in DOMAIN A : B[i] = A[i] BY <1>3, <1>b, Appended
    <2> HIDE DEF B
    <2> QED BY <2>1, <2>2, <2>3
  <1>c. DOMAIN B = 1 .. L BY <1>3, <1>b, Appended
  <1>d. DOMAIN A = 1 .. Len(A) /\ Len(A) \in Nat OBVIOUS
  <1> HIDE DEF gs, B
  <1>2. c.type = "file" /\ c.temp /\ c.name = n OBVIOUS
  <1>5. DOMAIN gs = 1 .. n /\ n \in DOMAIN gs BY <1>1
  <1>7. Good(c, gs) BY DEF gs
  <1>9. /\ \A i \in DOMAIN A : Good(A[i], fs)
        /\ Owned(A, fs) /\ LastOwns(A) /\ AloneEmpty(A, b)
    BY DEF Own
  <1>10. L \in DOMAIN B /\ \A i \in DOMAIN A : i \in DOMAIN B BY <1>b, <1>c, <1>d
  <1>11. \A i \in DOMAIN B : (i \in DOMAIN A /\ B[i] = A[i]) \/ (i = L /\ B[i] = c)
    <2> TAKE i \in DOMAIN B
    <2>1. i \in 1 .. L BY <1>c
    <2>2. i = L \/ i \in 1 .. Len(A) BY <1>b, <1>d, <2>1
    <2> QED BY <1>4, <1>d, <2>2
  <1>12. \A i \in DOMAIN B : Good(B[i], gs) BY <1>1, <1>7, <1>9, <1>11
  <1>13. \A i \in DOMAIN A : ~Names(A[i], n) /\ ~(A[i].temp /\ A[i].name = n)
    <2> TAKE i \in DOMAIN A
    <2>1. GoodFile(A[i], fs) /\ GoodMem(A[i]) /\ A[i] \in ChunkType BY <1>9 DEF Good
    <2>2. A[i].type = "mem" \/ A[i].type = "file" BY <2>1 DEF ChunkType
    <2> QED BY <1>0, <2>1, <2>2 DEF Names, GoodFile, GoodMem
  <1>14. Owned(B, gs)
    <2> SUFFICES ASSUME NEW f \in DOMAIN gs, gs[f].linked PROVE \E i \in DOMAIN B : B[i].temp /\ B[i].name = f
      BY DEF Owned
    <2>1. CASE f = n
      <3>1. L \in DOMAIN B /\ B[L].temp /\ B[L].name = n BY <1>2, <1>4, <1>10
      <3> QED BY <2>1, <3>1
    <2>2. CASE f # n
      <3>1. f \in DOMAIN fs BY <1>5, <2>2
      <3>2. fs[f].linked BY <1>1, <3>1
      <3>3. PICK i \in DOMAIN A : A[i].temp /\ A[i].name = f BY <1>9, <3>1, <3>2 DEF Owned
      <3>4. i \in DOMAIN B /\ B[i] = A[i] BY <1>4, <1>10
      <3> QED BY <3>3, <3>4
    <2> QED BY <2>1, <2>2
  <1>z. \A i \in DOMAIN B : i \in Nat /\ i <= L BY <1>c
  <1>15. LastOwns(B)
    <2> SUFFICES ASSUME NEW i \in DOMAIN B, NEW j \in DOMAIN B, B[i].temp, Names(B[j], B[i].name) PROVE j <= i
      BY DEF LastOwns
    <2>1. CASE i = L BY <1>z, <2>1
    <2>2. CASE i # L
      <3>1. i \in DOMAIN A /\ B[i] = A[i] BY <1>11, <2>2
      <3>2. B[j] # c BY <1>2, <1>13, <3>1 DEF Names
      <3>3. j \in DOMAIN A /\ B[j] = A[j] BY <1>11, <3>2
      <3> QED BY <1>9, <3>1, <3>3 DEF LastOwns
    <2> QED BY <2>1, <2>2
  <1>16. AloneEmpty(B, b)
    <2> SUFFICES ASSUME NEW i \in DOMAIN B, NEW j \in DOMAIN B, i > b, B[i].temp, Remaining(B[i]) = 0,
                        Names(B[j], B[i].name)
                 PROVE  j = i
      BY DEF AloneEmpty
    <2>1. CASE i = L
      <3>1. B[i].name = n BY <1>2, <1>4, <2>1
      <3>2. j \notin DOMAIN A \/ B[j] # A[j] BY <1>13, <3>1
      <3> QED BY <1>11, <2>1, <3>2
    <2>2. CASE i # L
      <3>1. i \in DOMAIN A /\ B[i] = A[i] BY <1>11, <2>2
      <3>2. B[j] # c BY <1>2, <1>13, <3>1 DEF Names
      <3>3. j \in DOMAIN A /\ B[j] = A[j] BY <1>11, <3>2
      <3> QED BY <1>9, <3>1, <3>3 DEF AloneEmpty
    <2> QED BY <2>1, <2>2
  <1>17. Own(B, b, gs) BY <1>12, <1>14, <1>15, <1>16 DEF Own
  <1> QED BY <1>17 DEF gs, B

-----------------------------------------------------------------------------
(* Files that grow, and files that are made.                                *)

\* Bytes are written at the end of a file.
Grown(fs, f, s) == [fs EXCEPT ![f].bytes = @ \o s]

\* What the other files and this one are then.
LEMMA GrownIs ==
  ASSUME NEW fs \in Seq(FileType), NEW f \in DOMAIN fs, NEW s \in Seq(Nat)
  PROVE  /\ Grown(fs, f, s) \in Seq(FileType) /\ Len(Grown(fs, f, s)) = Len(fs)
         /\ DOMAIN Grown(fs, f, s) = DOMAIN fs
         /\ \A g \in DOMAIN fs : Grown(fs, f, s)[g].linked = fs[g].linked
         /\ \A g \in DOMAIN fs : g # f => Grown(fs, f, s)[g].bytes = fs[g].bytes
         /\ Grown(fs, f, s)[f].bytes = fs[f].bytes \o s
  <1> DEFINE gs == Grown(fs, f, s)
             r == [fs[f] EXCEPT !.bytes = @ \o s]
  <1>1. gs = [fs EXCEPT ![f] = r] BY DEF Grown
  <1>0. fs[f] \in FileType OBVIOUS
  <1>2. fs[f].bytes \in Seq(Nat) BY <1>0 DEF FileType
  <1>3. fs[f].bytes \o s \in Seq(Nat) BY <1>2, ConcatProperties
  <1>4. r \in FileType /\ r.bytes = fs[f].bytes \o s /\ r.linked = fs[f].linked
    BY <1>0, <1>2, <1>3 DEF FileType
  <1> HIDE DEF gs, r
  <1>5. gs \in Seq(FileType) /\ Len(gs) = Len(fs) /\ DOMAIN gs = DOMAIN fs BY <1>1, <1>4
  <1>6. gs[f] = r /\ \A g \in DOMAIN fs : g # f => gs[g] = fs[g] BY <1>1
  <1> QED BY <1>4, <1>5, <1>6 DEF gs

\* A stretch of the bytes that there were.
LEMMA PartConcat ==
  ASSUME NEW s \in Seq(Nat), NEW t \in Seq(Nat), NEW m \in 1 .. Len(s) + 1, NEW n \in m - 1 .. Len(s)
  PROVE  SubSeq(s \o t, m, n) = SubSeq(s, m, n)
  <1> DEFINE u == s \o t
             a == SubSeq(u, m, n)
             b == SubSeq(s, m, n)
  <1>1. /\ u \in Seq(Nat) /\ Len(u) = Len(s) + Len(t)
        /\ \A i \in 1 .. Len(u) : u[i] = IF i <= Len(s) THEN s[i] ELSE t[i - Len(s)]
    BY ConcatProperties
  <1>2. Len(s) \in Nat /\ Len(t) \in Nat /\ m \in Nat /\ n \in Int OBVIOUS
  <1> HIDE DEF u
  <1>3. /\ b \in Seq(Nat) /\ Len(b) = (IF m <= n THEN n - m + 1 ELSE 0)
           /\ \A i \in 1 .. n - m + 1 : b[i] = s[m + i - 1]
    BY <1>2, SubSeqProperties
  <1>4. \A i \in m .. n : u[i] \in Nat BY <1>1, <1>2
  <1>a. m \in Int /\ n \in Int BY <1>2
  <1>b. a \in Seq(Nat) BY <1>1, <1>a, <1>4, SubSeqProperties
  <1>c. Len(a) = (IF m <= n THEN n - m + 1 ELSE 0) BY <1>1, <1>a, <1>4, SubSeqProperties
  <1>5. \A i \in 1 .. n - m + 1 : a[i] = u[m + i - 1] BY <1>1, <1>a, <1>4, SubSeqProperties
  <1> HIDE DEF a, b
  <1>6. \A i \in 1 .. n - m + 1 : u[m + i - 1] = s[m + i - 1]
    <2> TAKE i \in 1 .. n - m + 1
    <2>1. PICK j \in Int : j = m + i - 1 BY <1>2
    <2>2. j \in 1 .. Len(u) /\ j <= Len(s) BY <1>1, <1>2, <2>1
    <2>3. u[j] = s[j] BY <1>1, <2>2
    <2> QED BY <2>1, <2>3
  <1>7. Len(a) = Len(b) BY <1>3, <1>c
  <1>8. \A i \in 1 .. Len(a) : a[i] = b[i] BY <1>2, <1>3, <1>c, <1>5, <1>6
  <1>9. a = b BY <1>3, <1>b, <1>7, <1>8, SeqEqual
  <1> QED BY <1>9 DEF a, b, u

\* The chunks that do not delete the file hold what they held.
LEMMA GrownGood ==
  ASSUME NEW fs \in Seq(FileType), NEW f \in DOMAIN fs, NEW s \in Seq(Nat), NEW c, Good(c, fs),
         ~(c.temp /\ c.name = f)
  PROVE  Good(c, Grown(fs, f, s)) /\ BytesIn(c, Grown(fs, f, s)) = BytesIn(c, fs)
  <1> DEFINE gs == Grown(fs, f, s)
  <1>1. DOMAIN gs = DOMAIN fs BY GrownIs
  <1>2. \A g \in DOMAIN fs : gs[g].linked = fs[g].linked BY GrownIs
  <1>3. \A g \in DOMAIN fs : g # f => gs[g].bytes = fs[g].bytes BY GrownIs
  <1>4. gs[f].bytes = fs[f].bytes \o s BY GrownIs
  <1> HIDE DEF gs
  <1>5. c \in ChunkType /\ GoodMem(c) /\ GoodFile(c, fs) BY DEF Good
  <1>6. CASE c.type = "mem" BY <1>5, <1>6 DEF Good, GoodFile, BytesIn, gs
  <1>7. CASE c.type # "mem"
    <2>1. c.name \in DOMAIN fs /\ fs[c.name].linked BY <1>7, FileFacts
    <2>2. CASE c.name # f
      <3>1. gs[c.name].bytes = fs[c.name].bytes BY <1>3, <2>1, <2>2
      <3>2. BytesIn(c, gs) = BytesIn(c, fs) BY <3>1 DEF BytesIn
      <3>3. GoodFile(c, gs) BY <1>1, <1>2, <1>5, <2>1, <3>1 DEF GoodFile
      <3> QED BY <1>5, <3>2, <3>3 DEF Good, gs
    <2>3. CASE c.name = f
      <3>1. ~c.temp BY <2>3
      <3>2. c.offset \in Nat /\ c.start \in Nat /\ c.length \in Nat BY <1>7, FileFacts
      <3>3. fs[c.name].bytes \in Seq(Nat) BY <1>7, FileFacts
      <3>4. c.offset <= c.length /\ c.start + c.length <= Len(fs[c.name].bytes) BY <1>7, FileFacts
      <3> DEFINE old == fs[c.name].bytes
      <3>a. PICK st \in Nat : st = c.start BY <3>2
      <3>b. PICK off \in Nat : off = c.offset BY <3>2
      <3>c. PICK ln \in Nat : ln = c.length BY <3>2
      <3>5. PICK m \in Nat : m = st + off + 1 OBVIOUS
      <3>6. PICK n \in Nat : n = st + ln OBVIOUS
      <3> HIDE DEF old
      <3>7. Len(old) \in Nat /\ old \in Seq(Nat) BY <3>3 DEF old
      <3>d. PICK L \in Nat : L = Len(old) BY <3>7
      <3>e. off <= ln BY <3>b, <3>c, <3>4
      <3>f. st + ln <= L BY <3>a, <3>c, <3>d, <3>4 DEF old
      <3>g. m \in 1 .. L + 1 /\ n \in m - 1 .. L BY <3>e, <3>f, <3>5, <3>6
      <3>8. m \in 1 .. Len(old) + 1 /\ n \in m - 1 .. Len(old) BY <3>d, <3>g
      <3>9. SubSeq(old \o s, m, n) = SubSeq(old, m, n) BY <3>7, <3>8, PartConcat
      <3>10. gs[c.name].bytes = old \o s BY <1>4, <2>3 DEF old
      <3>11. BytesIn(c, gs) = BytesIn(c, fs)
        BY <1>7, <3>a, <3>b, <3>c, <3>5, <3>6, <3>9, <3>10 DEF BytesIn, old
      <3>12. Len(old \o s) = Len(old) + Len(s) /\ Len(s) \in Nat BY <3>7, ConcatProperties
      <3>13. c.start + c.length <= Len(gs[c.name].bytes) BY <3>a, <3>c, <3>6, <3>7, <3>8, <3>10, <3>12
      <3>14. GoodFile(c, gs) BY <1>1, <1>2, <2>1, <3>1, <3>4, <3>13 DEF GoodFile
      <3> QED BY <1>5, <3>11, <3>14 DEF Good, gs
    <2> QED BY <2>2, <2>3
  <1> QED BY <1>6, <1>7

\* The chunk that does, holds them all.
Longer(c, n) == [c EXCEPT !.length = @ + n]

\* The chunk whose file grew, with its length made to fit, has the bytes and is good.
LEMMA TargetGrows ==
  ASSUME NEW fs \in Seq(FileType), NEW c, Good(c, fs), c.type = "file", c.temp, c.offset = 0,
         NEW s \in Seq(Nat)
  PROVE  /\ Good(Longer(c, Len(s)), Grown(fs, c.name, s)) /\ Alike(Longer(c, Len(s)), c)
         /\ BytesIn(Longer(c, Len(s)), Grown(fs, c.name, s)) = BytesIn(c, fs) \o s
         /\ Remaining(Longer(c, Len(s))) = Remaining(c) + Len(s)
  <1> DEFINE d == Longer(c, Len(s))
             f == c.name
             gs == Grown(fs, f, s)
             old == fs[f].bytes
  <1>1. c \in ChunkType /\ f \in DOMAIN fs /\ fs[f].linked BY FileFacts
  <1>2. c.start = 0 /\ c.length = Len(old) BY FileFacts
  <1>3. old \in Seq(Nat) BY FileFacts
  <1>4. BytesIn(c, fs) = SubSeq(old, c.start + c.offset + 1, c.start + c.length) BY FileFacts
  <1>5. PICK k \in Nat : k = Len(s) OBVIOUS
  <1>6. PICK l \in Nat : l = c.length BY FileFacts
  <1>7. d = [c EXCEPT !.length = @ + k] BY <1>5 DEF Longer
  <1> HIDE DEF d
  <1>8. d \in ChunkType /\ d.length = l + k
    <2>1. PICK n \in Nat : n = l + k OBVIOUS
    <2>2. d = [c EXCEPT !.length = n] BY <1>6, <1>7, <2>1
    <2>3. d \in ChunkType /\ d.length = n BY <1>1, <2>2 DEF ChunkType
    <2> QED BY <2>1, <2>3
  <1>9. d.type = "file" /\ d.name = f /\ d.temp /\ d.offset = 0 /\ d.start = 0
    BY <1>1, <1>2, <1>7 DEF ChunkType
  <1>10. Alike(d, c) BY <1>9 DEF Alike
  <1>11. DOMAIN gs = DOMAIN fs BY <1>1, GrownIs
  <1>12. gs[f].linked BY <1>1, GrownIs
  <1>13. gs[f].bytes = old \o s BY <1>1, GrownIs
  <1> HIDE DEF gs
  <1>14. Remaining(d) = Remaining(c) + k BY <1>6, <1>8, <1>9 DEF Remaining
  <1> HIDE DEF f, old
  <1>15. old \o s \in Seq(Nat) /\ Len(old \o s) = l + k BY <1>2, <1>3, <1>5, <1>6, ConcatProperties
  <1>16. BytesIn(c, fs) = old
    <2>1. c.start + c.offset + 1 = 1 /\ c.start + c.length = Len(old) BY <1>2, <1>3
    <2>2. BytesIn(c, fs) = SubSeq(old, 1, Len(old)) BY <1>4, <2>1
    <2> QED BY <1>3, <2>2, SubSeqFull
  <1>17. BytesIn(d, gs) = old \o s
    <2>1. d.start + d.offset + 1 = 1 /\ d.start + d.length = l + k BY <1>8, <1>9
    <2>2. BytesIn(d, gs) = SubSeq(old \o s, 1, Len(old \o s)) BY <1>9, <1>13, <1>15, <2>1 DEF BytesIn
    <2> QED BY <1>15, <2>2, SubSeqFull
  <1>18. Good(d, gs)
    <2>1. d.offset <= d.length /\ d.start + d.length = l + k BY <1>8, <1>9
    <2>2. f \in DOMAIN gs BY <1>1, <1>11
    <2>3. GoodFile(d, gs) BY <1>8, <1>9, <1>12, <1>13, <1>15, <2>1, <2>2 DEF GoodFile
    <2> QED BY <1>8, <1>9, <2>3 DEF Good, GoodMem
  <1> QED BY <1>5, <1>10, <1>14, <1>16, <1>17, <1>18 DEF d, gs, f

\* The bytes of chunks do not change with the names of files, nor when a file is made.
LEMMA FlowUnlinked ==
  ASSUME NEW cs, NEW fs, Fit(cs, fs), NEW X
  PROVE  Flow(cs, Unlinked(fs, X)) = Flow(cs, fs)
  <1>1. cs \in Seq(ChunkType) /\ fs \in Seq(FileType) BY DEF Fit
  <1>2. \A i \in 1 .. Len(cs) : BytesIn(cs[i], fs) = BytesIn(cs[i], Unlinked(fs, X))
    <2> TAKE i \in 1 .. Len(cs)
    <2>1. Good(cs[i], fs) BY <1>1 DEF Fit
    <2> QED BY <1>1, <2>1, UnlinkedGood
  <1> QED BY <1>1, <1>2, FlowSame

\* A file more changes no bytes of a row.
LEMMA FlowNewFile ==
  ASSUME NEW cs, NEW fs, Fit(cs, fs)
  PROVE  Fit(cs, Append(fs, NewFile)) /\ Flow(cs, Append(fs, NewFile)) = Flow(cs, fs)
  <1> DEFINE gs == Append(fs, NewFile)
  <1>1. cs \in Seq(ChunkType) /\ fs \in Seq(FileType) /\ \A i \in DOMAIN cs : Good(cs[i], fs) BY DEF Fit
  <1>2. gs \in Seq(FileType) BY <1>1, NewFileIs
  <1>3. \A c : Good(c, fs) => Good(c, gs) /\ BytesIn(c, gs) = BytesIn(c, fs) BY <1>1, NewFileIs
  <1> HIDE DEF gs
  <1>4. DOMAIN cs = 1 .. Len(cs) BY <1>1
  <1>5. Flow(cs, fs) = Flow(cs, gs)
    <2>1. \A i \in 1 .. Len(cs) : BytesIn(cs[i], fs) = BytesIn(cs[i], gs) BY <1>1, <1>3, <1>4
    <2> QED BY <1>1, <2>1, FlowSame
  <1>6. Fit(cs, gs) BY <1>1, <1>2, <1>3 DEF Fit
  <1> QED BY <1>5, <1>6 DEF gs

\* The bytes of memory are in no file.
AllMem(cs) == \A i \in DOMAIN cs : cs[i].type = "mem"

\* The bytes of memory do not depend on the files.
LEMMA FlowMem ==
  ASSUME NEW cs, NEW fs, Fit(cs, fs), AllMem(cs), NEW gs \in Seq(FileType)
  PROVE  Fit(cs, gs) /\ Flow(cs, gs) = Flow(cs, fs)
  <1>1. cs \in Seq(ChunkType) /\ fs \in Seq(FileType) /\ \A i \in DOMAIN cs : Good(cs[i], fs)
        /\ cs[i].type = "mem"
    BY DEF Fit, AllMem
  <1>2. \A i \in DOMAIN cs : Good(cs[i], gs) /\ BytesIn(cs[i], fs) = BytesIn(cs[i], gs)
    BY <1>1 DEF Good, GoodFile, BytesIn
  <1>3. DOMAIN cs = 1 .. Len(cs) BY <1>1
  <1>4. Flow(cs, fs) = Flow(cs, gs) BY <1>1, <1>2, <1>3, FlowSame
  <1> QED BY <1>1, <1>2, <1>4 DEF Fit

\* Rows whose chunks have the same bytes in turn have the same bytes.
LEMMA FlowPair ==
  ASSUME NEW m \in Nat, NEW a \in Seq(ChunkType), NEW b \in Seq(ChunkType), Len(a) = m, Len(b) = m,
         NEW fs, NEW gs, \A i \in 1 .. m : BytesIn(a[i], fs) = BytesIn(b[i], gs)
  PROVE  Flow(a, fs) = Flow(b, gs)
  BY FlowSame

\* Putting sequences together is associative.
LEMMA Joined ==
  ASSUME NEW x \in Seq(Nat), NEW y \in Seq(Nat), NEW z \in Seq(Nat)
  PROVE  x \o (y \o z) = (x \o y) \o z
  OBVIOUS

\* The last chunk in another form, with more bytes behind it.
SetLast(cs, c) == [cs EXCEPT ![Len(cs)] = c]
LenIs(s, n) == Len(s) = n
Joins(x, y, z) == x = y \o z
LastIs(ds, c, cs, n) == \A i \in 1 .. n : ds[i] = IF i = n THEN c ELSE cs[i]
OthersKept(cs, fs, gs, n) == \A i \in 1 .. n :
  i # n => Good(cs[i], gs) /\ BytesIn(cs[i], gs) = BytesIn(cs[i], fs)

\* The row when its last chunk got bytes s more.
LEMMA FlowSetLast ==
  ASSUME NEW cs, NEW fs, Fit(cs, fs), NEW n \in Nat, n # 0, LenIs(cs, n), NEW gs \in Seq(FileType), NEW c,
         Good(c, gs),
         OthersKept(cs, fs, gs, n),
         NEW s \in Seq(Nat), Joins(BytesIn(c, gs), BytesIn(cs[n], fs), s)
  PROVE  /\ Fit(SetLast(cs, c), gs) /\ LenIs(SetLast(cs, c), n)
         /\ LastIs(SetLast(cs, c), c, cs, n)
         /\ Joins(Flow(SetLast(cs, c), gs), Flow(cs, fs), s)
  <1> DEFINE ds == SetLast(cs, c)
  <1>23. n = Len(cs) BY DEF LenIs
  <1>1. cs \in Seq(ChunkType) /\ fs \in Seq(FileType) /\ c \in ChunkType BY DEF Fit, Good
  <1>2. ds = [cs EXCEPT ![n] = c] BY <1>23 DEF SetLast
  <1> HIDE DEF ds
  <1>3. n \in 1 .. Len(cs) BY <1>1, <1>23
  <1>4. ds \in Seq(ChunkType) /\ Len(ds) = n /\ \A i \in 1 .. n : ds[i] = IF i = n THEN c ELSE cs[i]
    BY <1>1, <1>2, <1>3, <1>23, ExceptSeq
  <1>a. n - 1 \in Nat OBVIOUS
  <1>5. PICK m \in Nat : m = n - 1 BY <1>a
  <1> DEFINE a == SubSeq(cs, 1, m)
             b == SubSeq(ds, 1, m)
             e == cs[n]
  <1>6. m \in 0 .. Len(cs) /\ m \in 0 .. Len(ds) BY <1>4, <1>5, <1>23
  <1>7. a \in Seq(ChunkType) /\ Len(a) = m /\ \A i \in 1 .. m : a[i] = cs[i] BY <1>1, <1>6, Prefix
  <1>8. b \in Seq(ChunkType) /\ Len(b) = m /\ \A i \in 1 .. m : b[i] = ds[i] BY <1>4, <1>6, Prefix
  <1>9. cs = Append(a, e) /\ ds = Append(b, c)
    <2>1. SubSeq(cs, 1, n) = Append(SubSeq(cs, 1, n - 1), cs[n]) BY <1>1, <1>3, PrefixGrows
    <2>2. SubSeq(ds, 1, n) = Append(SubSeq(ds, 1, n - 1), ds[n]) BY <1>3, <1>4, PrefixGrows
    <2>3. SubSeq(cs, 1, n) = cs /\ SubSeq(ds, 1, n) = ds BY <1>1, <1>4, <1>23, SubSeqFull
    <2>4. ds[n] = c /\ n - 1 = m BY <1>3, <1>4, <1>5
    <2> QED BY <2>1, <2>2, <2>3, <2>4
  <1> HIDE DEF a, b, e
  <1>10. DOMAIN cs = 1 .. n /\ DOMAIN a = 1 .. m /\ DOMAIN b = 1 .. m BY <1>1, <1>7, <1>8, <1>23
  <1>11. Good(e, fs)
    <2>1. n \in 1 .. n OBVIOUS
    <2> QED BY <1>10, <2>1 DEF Fit, e
  <1>12. Fit(a, fs)
    <2>1. \A i \in 1 .. m : i \in 1 .. n BY <1>5
    <2> QED BY <1>1, <1>7, <1>10, <2>1 DEF Fit
  <1>13. \A i \in 1 .. m : b[i] = a[i] /\ Good(b[i], gs) /\ BytesIn(a[i], fs) = BytesIn(b[i], gs)
    <2> TAKE i \in 1 .. m
    <2>1. i \in 1 .. n /\ i # n BY <1>5
    <2>2. ds[i] = cs[i] BY <1>4, <2>1
    <2>3. Good(cs[i], gs) /\ BytesIn(cs[i], gs) = BytesIn(cs[i], fs) BY <2>1 DEF OthersKept
    <2> QED BY <1>7, <1>8, <2>2, <2>3
  <1>14. Fit(b, gs) BY <1>8, <1>10, <1>13 DEF Fit
  <1>15. Flow(a, fs) = Flow(b, gs) 
    <2>1. a \in Seq(ChunkType) /\ b \in Seq(ChunkType) BY <1>7, <1>8
    <2>2. Len(a) = m /\ Len(b) = m BY <1>7, <1>8
    <2>3. \A i \in 1 .. m : BytesIn(a[i], fs) = BytesIn(b[i], gs) BY <1>13
    <2> QED BY <2>1, <2>2, <2>3, FlowPair
  <1>16. Flow(cs, fs) = Flow(a, fs) \o BytesIn(e, fs) BY <1>9, <1>11, <1>12, FlowAppend
  <1>17. Fit(ds, gs) /\ Flow(ds, gs) = Flow(b, gs) \o BytesIn(c, gs) BY <1>9, <1>14, FlowAppend
  <1> DEFINE x == Flow(a, fs)
             y == BytesIn(e, fs)
  <1>18. x \in Seq(Nat) /\ y \in Seq(Nat) BY <1>1, <1>11, <1>12, EachTyped, BytesTyped
  <1>19. BytesIn(c, gs) = y \o s BY DEF e, Joins
  <1> HIDE DEF x, y
  <1>20. x \o (y \o s) = (x \o y) \o s
    <2>1. x \in Seq(Nat) /\ y \in Seq(Nat) /\ s \in Seq(Nat) BY <1>18
    <2> QED BY <2>1, Joined
  <1>21. Flow(ds, gs) = Flow(cs, fs) \o s BY <1>15, <1>16, <1>17, <1>19, <1>20 DEF x, y
  <1>22. LastIs(ds, c, cs, n) /\ LenIs(ds, n) BY <1>4 DEF LastIs, LenIs
  <1>24. Joins(Flow(ds, gs), Flow(cs, fs), s) BY <1>21 DEF Joins
  <1> QED BY <1>17, <1>22, <1>24 DEF ds

\* A temporary file grows with its last chunk.
LEMMA OwnGrows ==
  ASSUME NEW A \in Seq(ChunkType), NEW b \in Nat, NEW fs \in Seq(FileType), Own(A, b, fs),
         NEW n \in Nat, n # 0, LenIs(A, n), A[n].type = "file", A[n].temp, A[n].offset = 0,
           NEW s \in Seq(Nat),
         NEW B \in Seq(ChunkType), LenIs(B, n),
         LastIs(B, Longer(A[n], Len(s)), A, n)
  PROVE  /\ Own(B, b, Grown(fs, A[n].name, s))
         /\ \A i \in 1 .. n : i # n => ~(A[i].temp /\ A[i].name = A[n].name)
  <1> DEFINE f == A[n].name
             gs == Grown(fs, f, s)
             h == [i \in 1 .. n |-> i]
  <1>1. DOMAIN A = 1 .. n /\ DOMAIN B = 1 .. n /\ n \in 1 .. n BY DEF LenIs
  <1>2. /\ \A i \in DOMAIN A : Good(A[i], fs)
        /\ Owned(A, fs) /\ LastOwns(A) /\ AloneEmpty(A, b)
    BY DEF Own
  <1>3. Good(A[n], fs) /\ Names(A[n], f) BY <1>1, <1>2 DEF Names
  <1>4. f \in DOMAIN fs BY <1>3, FileFacts
  <1>5. \A i \in 1 .. n : i # n => ~(A[i].temp /\ A[i].name = f)
    <2> SUFFICES ASSUME NEW i \in 1 .. n, i # n, A[i].temp, A[i].name = f PROVE FALSE OBVIOUS
    <2>1. n <= i BY <1>1, <1>2, <1>3 DEF LastOwns
    <2> QED BY <2>1
  <1>6. Good(Longer(A[n], Len(s)), gs) BY <1>3, TargetGrows
  <1>7. Alike(Longer(A[n], Len(s)), A[n]) BY <1>3, TargetGrows
  <1>8. Remaining(Longer(A[n], Len(s))) = Remaining(A[n]) + Len(s) BY <1>3, TargetGrows
  <1>9. DOMAIN gs = DOMAIN fs /\ \A g \in DOMAIN fs : gs[g].linked = fs[g].linked
    <2>1. DOMAIN gs = DOMAIN fs BY <1>4, GrownIs
    <2>2. \A g \in DOMAIN fs : gs[g].linked = fs[g].linked BY <1>4, GrownIs
    <2> QED BY <2>1, <2>2
  <1>18. \A i \in 1 .. n : i # n => B[i] = A[i] BY DEF LastIs
  <1>10. \A i \in 1 .. n : Good(B[i], gs) /\ Alike(B[i], A[i]) /\ (Remaining(B[i]) = 0 => Remaining(A[i]) = 0)
    <2> TAKE i \in 1 .. n
    <2>1. CASE i = n
      <3>1. B[i] = Longer(A[n], Len(s)) BY <2>1 DEF LastIs
      <3>2. Remaining(A[n]) \in Nat /\ Len(s) \in Nat BY <1>3, BytesTyped
      <3>3. PICK r \in Nat : r = Remaining(A[n]) BY <3>2
      <3>4. r + Len(s) = 0 => r = 0 BY <3>2
      <3> QED BY <1>6, <1>7, <1>8, <2>1, <3>1, <3>3, <3>4
    <2>2. CASE i # n
      <3>1. B[i] = A[i] /\ Good(A[i], fs) /\ ~(A[i].temp /\ A[i].name = f) BY <1>1, <1>2, <1>5, <1>18, <2>2
      <3>2. Good(A[i], gs) BY <1>4, <3>1, GrownGood
      <3> QED BY <3>1, <3>2 DEF Alike
    <2> QED BY <2>1, <2>2
  <1>11. \A i \in 1 .. n : h[i] = i OBVIOUS
  <1> HIDE DEF h, gs, f
  <1>12. Heirs(A, B, h) BY <1>1, <1>10, <1>11 DEF Heirs, Names, Alike
  <1>13. InTurn(B, h) BY <1>1, <1>11 DEF InTurn
  <1>14. StillAlone(A, b, B, b, h) BY <1>1, <1>10, <1>11 DEF StillAlone
  <1>15. StillOwned(A, fs, B, gs) BY <1>1, <1>9, <1>10 DEF StillOwned, Alike
  <1>16. \A i \in DOMAIN B : Good(B[i], gs) BY <1>1, <1>10
  <1>17. Own(B, b, gs) BY <1>12, <1>13, <1>14, <1>15, <1>16, Carried
  <1> QED BY <1>5, <1>17 DEF gs, f

-----------------------------------------------------------------------------
(* Empty chunks that are removed.                                           *)

\* What is removed from a queue when a write failed.
LEMMA GoesIs ==
  ASSUME NEW cq, NEW n \in Nat, DOMAIN cq.chunks = 1 .. n, Len(cq.chunks) = n
  PROVE  Goes(cq) \subseteq 1 .. n /\ \A i \in Goes(cq) : Remaining(cq.chunks[i]) = 0
  <1> DEFINE f == Finished(cq)
             R(i) == Remaining(cq.chunks[i]) = 0
             P(m, G) == \A i \in 1 .. m : i \in G <=> i <= f \/ (R(i) /\ i - 1 \notin G)
             B == {m \in 0 .. n : ~ \E G \in SUBSET (1 .. m) : P(m, G)}
  <1>1. f \in 0 .. n /\ \A i \in 1 .. f : R(i) BY FinishedIs
  <1>2. B = {}
    <2> SUFFICES ASSUME B # {} PROVE FALSE OBVIOUS
    <2>1. B \subseteq Nat OBVIOUS
    <2>2. PICK m \in B : \A k \in B : m <= k
      <3> HIDE DEF B
      <3> QED BY <2>1, LeastNatural
    <2>3. m \in 0 .. n /\ ~ \E G \in SUBSET (1 .. m) : P(m, G) OBVIOUS
    <2>4. m # 0
      <3>1. P(0, {}) /\ {} \in SUBSET (1 .. 0) OBVIOUS
      <3> HIDE DEF P
      <3> QED BY <2>3, <3>1
    <2>5. PICK k \in Nat : m = k + 1
      <3>1. m - 1 \in Nat BY <2>3, <2>4
      <3> QED BY <2>3, <3>1
    <2>6. k \in 0 .. n /\ k \notin B
      <3> HIDE DEF B
      <3> QED BY <2>2, <2>3, <2>5
    <2>7. PICK G \in SUBSET (1 .. k) : P(k, G) BY <2>6
    <2>8. m \notin G /\ \A i \in 1 .. m : i = m \/ i \in 1 .. k BY <2>5
    <2> HIDE DEF B, R, f
    <2>9. CASE m <= f \/ (R(m) /\ k \notin G)
      <3>1. P(m, G \cup {m})
        <4> SUFFICES ASSUME NEW i \in 1 .. m
                     PROVE  i \in G \cup {m} <=> i <= f \/ (R(i) /\ i - 1 \notin G \cup {m})
          OBVIOUS
        <4>1. i - 1 # m /\ m - 1 = k BY <2>3, <2>5
        <4>2. CASE i = m BY <2>9, <4>1, <4>2
        <4>3. CASE i \in 1 .. k BY <2>5, <2>7, <4>1, <4>3
        <4> QED BY <2>8, <4>2, <4>3
      <3>2. G \cup {m} \in SUBSET (1 .. m) BY <2>5
      <3> HIDE DEF P
      <3> QED BY <2>3, <3>1, <3>2
    <2>10. CASE ~(m <= f \/ (R(m) /\ k \notin G))
      <3>1. P(m, G)
        <4> SUFFICES ASSUME NEW i \in 1 .. m PROVE i \in G <=> i <= f \/ (R(i) /\ i - 1 \notin G)
          OBVIOUS
        <4>1. m - 1 = k BY <2>5
        <4>2. CASE i = m BY <2>8, <2>10, <4>1, <4>2
        <4>3. CASE i \in 1 .. k BY <2>7, <4>3
        <4> QED BY <2>8, <4>2, <4>3
      <3>2. G \in SUBSET (1 .. m) BY <2>5
      <3> HIDE DEF P
      <3> QED BY <2>3, <3>1, <3>2
    <2> QED BY <2>9, <2>10
  <1>3. \E G \in SUBSET (1 .. n) : P(n, G)
    <2>1. n \in 0 .. n /\ n \notin B
      <3> HIDE DEF B
      <3> QED BY <1>2
    <2> HIDE DEF P
    <2> QED BY <2>1
  <1>4. Goes(cq) = CHOOSE G \in SUBSET (1 .. n) : P(n, G) BY DEF Goes
  <1>5. Goes(cq) \in SUBSET (1 .. n) /\ P(n, Goes(cq))
    <2> HIDE DEF P
    <2> QED BY <1>3, <1>4
  <1> DEFINE G == Goes(cq)
  <1>6. G \subseteq 1 .. n /\ P(n, G) BY <1>5
  <1> HIDE DEF G, f, R
  <1>7. \A i \in G : i \in 1 .. n /\ (i <= f \/ R(i)) BY <1>6
  <1>8. \A i \in G : R(i) BY <1>1, <1>7
  <1> QED BY <1>6, <1>8 DEF G, R

\* The chunks that stay, h says which they were.
Stay(cs, R) == FlattenSeq([i \in DOMAIN cs |-> IF i \in R THEN <<>> ELSE <<cs[i]>>])
Picked(t, cs, R, m, h) ==
  /\ h \in [1 .. Len(t) -> (1 .. m) \ R]
  /\ \A i, j \in 1 .. Len(t) : h[j] <= h[i] => j <= i
  /\ \A a \in (1 .. m) \ R : \E i \in 1 .. Len(t) : h[i] = a
  /\ \A i \in 1 .. Len(t) : t[i] = cs[h[i]]

\* One chunk more to pick or to leave.
LEMMA PickedMore ==
  ASSUME NEW t \in Seq(ChunkType), NEW cs, NEW R, NEW k \in Nat, NEW m \in Nat, m = k + 1, NEW h,
         Picked(t, cs, R, k, h)
  PROVE  /\ m \in R => Picked(t, cs, R, m, h)
         /\ m \notin R /\ cs[m] \in ChunkType => \E g : Picked(Append(t, cs[m]), cs, R, m, g)
  <1> DEFINE l == Len(t)
  <1>0. l \in Nat OBVIOUS
  <1> HIDE DEF l
  <1>1. /\ h \in [1 .. l -> (1 .. k) \ R] /\ \A i, j \in 1 .. l : h[j] <= h[i] => j <= i
        /\ \A a \in (1 .. k) \ R : \E i \in 1 .. l : h[i] = a
        /\ \A i \in 1 .. l : t[i] = cs[h[i]]
    BY DEF Picked, l
  <1>2. \A a \in 1 .. m : a = m \/ a \in 1 .. k OBVIOUS
  <1>3. ASSUME m \in R PROVE Picked(t, cs, R, m, h)
    <2>1. (1 .. k) \ R = (1 .. m) \ R BY <1>2, <1>3
    <2> QED BY <1>1, <2>1 DEF Picked, l
  <1>4. ASSUME m \notin R, cs[m] \in ChunkType PROVE \E g : Picked(Append(t, cs[m]), cs, R, m, g)
    <2>1. PICK n \in Nat : n = l + 1 BY <1>0
    <2> DEFINE u == Append(t, cs[m])
               g == [i \in 1 .. n |-> IF i = n THEN m ELSE h[i]]
    <2>2. n = Len(t) + 1 BY <2>1 DEF l
    <2>3. u \in Seq(ChunkType) BY <1>4, <2>2, Appended
    <2>4. Len(u) = n BY <1>4, <2>2, Appended
    <2>5. u[n] = cs[m] BY <1>4, <2>2, Appended
    <2>6. \A i \in DOMAIN t : u[i] = t[i] BY <1>4, <2>2, Appended
    <2>7. DOMAIN t = 1 .. l BY DEF l
    <2>8. \A i \in 1 .. n : i = n \/ i \in 1 .. l BY <1>0, <2>1
    <2>9. \A i \in 1 .. l : i # n /\ i \in 1 .. n BY <1>0, <2>1
    <2>10. n \in 1 .. n BY <1>0, <2>1
    <2>11. g[n] = m /\ \A i \in 1 .. l : g[i] = h[i] BY <2>9, <2>10
    <2>12. g \in [1 .. n -> (1 .. m) \ R]
      <3>1. m \in (1 .. m) \ R /\ (1 .. k) \ R \subseteq (1 .. m) \ R BY <1>4
      <3>2. \A i \in 1 .. l : h[i] \in (1 .. k) \ R BY <1>1
      <3> QED BY <2>8, <3>1, <3>2
    <2> HIDE DEF g, u
    <2>13. \A i, j \in 1 .. n : g[j] <= g[i] => j <= i
      <3> SUFFICES ASSUME NEW i \in 1 .. n, NEW j \in 1 .. n, g[j] <= g[i] PROVE j <= i OBVIOUS
      <3>1. CASE i = n BY <3>1
      <3>2. CASE i \in 1 .. l /\ j = n
        <4>1. h[i] \in 1 .. k /\ m <= h[i] BY <1>1, <2>11, <3>2
        <4> QED BY <4>1
      <3>3. CASE i \in 1 .. l /\ j \in 1 .. l BY <1>1, <2>11, <3>3
      <3> QED BY <2>8, <3>1, <3>2, <3>3
    <2>14. \A a \in (1 .. m) \ R : \E i \in 1 .. n : g[i] = a
      <3> TAKE a \in (1 .. m) \ R
      <3>1. CASE a = m BY <2>10, <2>11, <3>1
      <3>2. CASE a \in 1 .. k
        <4>1. PICK i \in 1 .. l : h[i] = a BY <1>1, <3>2
        <4> QED BY <2>9, <2>11, <4>1
      <3> QED BY <1>2, <3>1, <3>2
    <2>15. \A i \in 1 .. n : u[i] = cs[g[i]] BY <1>1, <2>5, <2>6, <2>7, <2>8, <2>11
    <2>16. Picked(u, cs, R, m, g) BY <2>4, <2>12, <2>13, <2>14, <2>15 DEF Picked
    <2> QED BY <2>16 DEF u
  <1> QED BY <1>3, <1>4

\* Leaving empty chunks away loses no byte.
LEMMA StayIs ==
  ASSUME NEW cs, NEW fs, Fit(cs, fs), NEW n \in Nat, n = Len(cs), NEW R,
         \A i \in R : i \in 1 .. n => Remaining(cs[i]) = 0
  PROVE  /\ Fit(Stay(cs, R), fs) /\ Flow(Stay(cs, R), fs) = Flow(cs, fs)
         /\ \E h : Picked(Stay(cs, R), cs, R, n, h)
  <1> DEFINE e(i) == IF i \in R THEN <<>> ELSE <<cs[i]>>
             ss == [i \in DOMAIN cs |-> e(i)]
             T(m) == FlattenSeq(SubSeq(ss, 1, m))
             P(m) == /\ Fit(T(m), fs) /\ Flow(T(m), fs) = Flow(SubSeq(cs, 1, m), fs)
                     /\ \E h : Picked(T(m), cs, R, m, h)
             B == {m \in 0 .. n : ~P(m)}
             U == Seq(ChunkType)
  <1>1. cs \in U /\ fs \in Seq(FileType) /\ DOMAIN cs = 1 .. n /\ \A i \in 1 .. n : Good(cs[i], fs) BY DEF Fit
  <1>2. \A i \in 1 .. n : cs[i] \in ChunkType BY <1>1 DEF Good
  <1>3. \A i \in 1 .. n : e(i) \in U
    <2>1. <<>> \in U OBVIOUS
    <2>2. \A i \in 1 .. n : <<cs[i]>> \in U BY <1>2
    <2> QED BY <2>1, <2>2
  <1> HIDE DEF e, U
  <1>4. ss \in Seq(U) /\ Len(ss) = n /\ \A i \in 1 .. n : ss[i] = e(i) BY <1>1, <1>3
  <1>5. Stay(cs, R) = FlattenSeq(ss) BY DEF Stay, e
  <1> HIDE DEF ss
  <1>6. SubSeq(ss, 1, n) = ss /\ SubSeq(cs, 1, n) = cs BY <1>1, <1>4, SubSeqFull DEF U
  <1>7. B = {}
    <2> SUFFICES ASSUME B # {} PROVE FALSE OBVIOUS
    <2>1. B \subseteq Nat OBVIOUS
    <2>2. PICK m \in B : \A k \in B : m <= k
      <3> HIDE DEF B
      <3> QED BY <2>1, LeastNatural
    <2>3. m \in 0 .. n /\ ~P(m) OBVIOUS
    <2>4. m # 0
      <3>a. SubSeq(ss, 1, 0) = <<>> BY SubSeqEmpty
      <3>b. SubSeq(cs, 1, 0) = <<>> BY SubSeqEmpty
      <3>1. T(0) = <<>> /\ SubSeq(cs, 1, 0) = <<>> BY <3>a, <3>b, FlatEmpty
      <3>2. Fit(<<>>, fs) BY <1>1, FlowEmpty
      <3>3. Picked(<<>>, cs, R, 0, <<>>)
        <4>1. Len(<<>>) = 0 /\ \A i : i \notin 1 .. 0 OBVIOUS
        <4>2. <<>> \in [1 .. 0 -> (1 .. 0) \ R] OBVIOUS
        <4> QED BY <4>1, <4>2 DEF Picked
      <3>4. P(0) BY <3>1, <3>2, <3>3
      <3> HIDE DEF P
      <3> QED BY <2>3, <3>4
    <2>5. PICK k \in Nat : m = k + 1
      <3>1. m - 1 \in Nat BY <2>3, <2>4
      <3> QED BY <2>3, <3>1
    <2>6. k \in 0 .. n /\ k \notin B
      <3> HIDE DEF B
      <3> QED BY <2>2, <2>3, <2>5
    <2>7. P(k) BY <2>6
    <2> HIDE DEF B
    <2>8. m \in 1 .. n /\ m - 1 = k BY <2>3, <2>5
    <2> DEFINE t == T(k)
               d == SubSeq(cs, 1, k)
               c == cs[m]
    <2>9. T(m) = t \o e(m)
      <3>1. SubSeq(ss, 1, m) = Append(SubSeq(ss, 1, m - 1), ss[m]) BY <1>4, <2>8, PrefixGrows
      <3>2. SubSeq(ss, 1, k) \in Seq(U) BY <1>4, <2>6, Prefix
      <3> DEFINE v == SubSeq(ss, 1, k)
                 w == e(m)
      <3>3. v \in Seq(Seq(ChunkType)) /\ w \in Seq(ChunkType) BY <1>3, <2>8, <3>2 DEF U
      <3>4. SubSeq(ss, 1, m) = Append(v, w) BY <1>4, <2>8, <3>1
      <3> HIDE DEF v, w
      <3>5. FlattenSeq(Append(v, w)) = FlattenSeq(v) \o w BY <3>3, FlatAppend
      <3> QED BY <3>4, <3>5 DEF v, w
    <2>10. SubSeq(cs, 1, m) = Append(d, c) BY <1>1, <2>8, PrefixGrows DEF U
    <2>11. Good(c, fs) /\ c \in ChunkType BY <1>1, <1>2, <2>8
    <2>12. Fit(d, fs)
      <3>1. k \in 0 .. Len(cs) BY <2>6
      <3> QED BY <3>1, FlowSplit
    <2>13. Flow(Append(d, c), fs) = Flow(d, fs) \o BytesIn(c, fs) BY <2>11, <2>12, FlowAppend
    <2>14. Fit(t, fs) /\ Flow(t, fs) = Flow(d, fs) /\ \E h : Picked(t, cs, R, k, h) BY <2>7
    <2>15. t \in Seq(ChunkType) BY <2>14 DEF Fit
    <2> HIDE DEF t, d
    <2>16. PICK h : Picked(t, cs, R, k, h) BY <2>14
    <2>17. CASE m \in R
      <3>1. T(m) = t BY <2>9, <2>15, <2>17, ConcatEmptySeq DEF e
      <3>2. Remaining(c) = 0 BY <2>8, <2>17
      <3>3. BytesIn(c, fs) \in Seq(Nat) /\ Len(BytesIn(c, fs)) = 0 BY <1>1, <2>11, <3>2, BytesTyped
      <3>4. BytesIn(c, fs) = <<>> BY <3>3, EmptySeq
      <3>5. Flow(d, fs) \in Seq(Nat) BY <2>12, EachTyped
      <3>6. Flow(SubSeq(cs, 1, m), fs) = Flow(d, fs) BY <2>10, <2>13, <3>4, <3>5, ConcatEmptySeq
      <3>7. Picked(t, cs, R, m, h) 
        <4>1. m \in Nat BY <2>5
        <4> QED BY <2>5, <2>15, <2>16, <2>17, <4>1, PickedMore
      <3>8. P(m) BY <2>14, <3>1, <3>6, <3>7
      <3> HIDE DEF P
      <3> QED BY <2>3, <3>8
    <2>18. CASE m \notin R
      <3>1. e(m) = <<c>> BY <2>18 DEF e
      <3>2. T(m) = Append(t, c) BY <2>9, <2>11, <2>15, <3>1, AppendIsConcat
      <3>3. Fit(Append(t, c), fs) /\ Flow(Append(t, c), fs) = Flow(t, fs) \o BytesIn(c, fs)
        BY <2>11, <2>14, FlowAppend
      <3>4. \E g : Picked(Append(t, c), cs, R, m, g)
        <4>1. cs[m] \in ChunkType /\ m \in Nat BY <2>5, <2>11
        <4> QED BY <2>5, <2>15, <2>16, <2>18, <4>1, PickedMore
      <3>5. P(m) BY <2>10, <2>13, <2>14, <3>2, <3>3, <3>4
      <3> HIDE DEF P
      <3> QED BY <2>3, <3>5
    <2> QED BY <2>17, <2>18
  <1>8. P(n)
    <2>1. n \in 0 .. n /\ n \notin B
      <3> HIDE DEF B
      <3> QED BY <1>7
    <2> HIDE DEF P
    <2> QED BY <2>1
  <1>9. T(n) = Stay(cs, R) BY <1>5, <1>6
  <1> HIDE DEF T
  <1> QED BY <1>6, <1>8, <1>9

-----------------------------------------------------------------------------
(* The two queues that may hold files, as one row.                          *)

\* The chunks on their way to the backend and those behind them.
LEMMA JoinIs ==
  ASSUME NEW W \in Seq(ChunkType), NEW C \in Seq(ChunkType), NEW b \in Nat, NEW n \in Nat, b = Len(W),
         n = Len(C)
  PROVE  /\ W \o C \in Seq(ChunkType) /\ Len(W \o C) = b + n
         /\ \A i \in 1 .. b : (W \o C)[i] = W[i]
         /\ \A i \in 1 .. n : (W \o C)[b + i] = C[i]
  <1> DEFINE A == W \o C
  <1>1. A \in Seq(ChunkType) BY ConcatProperties
  <1>2. Len(A) = Len(W) + Len(C) BY ConcatProperties
  <1>3. \A i \in 1 .. Len(W) + Len(C) : A[i] = IF i <= Len(W) THEN W[i] ELSE C[i - Len(W)] BY ConcatProperties
  <1> HIDE DEF A
  <1>4. \A i \in 1 .. b : A[i] = W[i] BY <1>3
  <1>5. \A i \in 1 .. n : A[b + i] = C[i]
    <2> TAKE i \in 1 .. n
    <2>1. PICK j \in Nat : j = b + i OBVIOUS
    <2>2. A[j] = C[j - b] BY <1>3, <2>1
    <2>3. j - b = i BY <2>1
    <2> QED BY <2>1, <2>2, <2>3
  <1> QED BY <1>1, <1>2, <1>4, <1>5 DEF A

Ahead1(A, W, b) == \A i \in 1 .. b : A[i] = W[i]
Behind(A, b, C, n) == \A i \in 1 .. n : A[b + i] = C[i]

\* The places of the chunks of two rows put together.
LEMMA JoinAt ==
  ASSUME NEW W \in Seq(ChunkType), NEW C \in Seq(ChunkType), NEW b \in Nat, NEW n \in Nat, LenIs(W, b),
         LenIs(C, n)
  PROVE  /\ W \o C \in Seq(ChunkType) /\ Len(W \o C) = b + n
         /\ Ahead1(W \o C, W, b) /\ Behind(W \o C, b, C, n)
  <1>1. b = Len(W) /\ n = Len(C) BY DEF LenIs
  <1>2. \A i \in 1 .. b : (W \o C)[i] = W[i] BY <1>1, JoinIs
  <1>3. \A i \in 1 .. n : (W \o C)[b + i] = C[i] BY <1>1, JoinIs
  <1> QED BY <1>1, <1>2, <1>3, JoinIs DEF Ahead1, Behind

\* An index of both is one of the first, or one of the second moved on.
LEMMA JoinCases ==
  ASSUME NEW b \in Nat, NEW n \in Nat, NEW i \in 1 .. b + n
  PROVE  i \in 1 .. b \/ \E j \in 1 .. n : i = b + j
  <1>1. CASE i <= b BY <1>1
  <1>2. CASE i > b
    <2>1. i - b \in 1 .. n /\ i = b + (i - b) BY <1>2
    <2> QED BY <2>1
  <1> QED BY <1>1, <1>2

\* Both parts of a row of good chunks are such rows.
LEMMA OwnFit ==
  ASSUME NEW W \in Seq(ChunkType), NEW C \in Seq(ChunkType), NEW fs \in Seq(FileType), NEW b \in Nat,
         Own(W \o C, b, fs)
  PROVE  Fit(W, fs) /\ Fit(C, fs)
  <1>0. PICK v \in Nat : v = Len(W) OBVIOUS
  <1>1. PICK n \in Nat : n = Len(C) OBVIOUS
  <1> DEFINE A == W \o C
  <1>2. A \in Seq(ChunkType) BY <1>0, <1>1, JoinIs
  <1>3. Len(A) = v + n BY <1>0, <1>1, JoinIs
  <1>4. \A i \in 1 .. v : A[i] = W[i] BY <1>0, <1>1, JoinIs
  <1>5. \A i \in 1 .. n : A[v + i] = C[i] BY <1>0, <1>1, JoinIs
  <1>6. \A i \in DOMAIN A : Good(A[i], fs) BY DEF Own
  <1> HIDE DEF A
  <1>7. DOMAIN A = 1 .. v + n /\ DOMAIN W = 1 .. v /\ DOMAIN C = 1 .. n BY <1>0, <1>1, <1>2, <1>3
  <1>8. \A i \in 1 .. v : i \in 1 .. v + n OBVIOUS
  <1>9. \A i \in 1 .. n : v + i \in 1 .. v + n OBVIOUS
  <1>10. Fit(W, fs) BY <1>4, <1>6, <1>7, <1>8 DEF Fit
  <1>11. Fit(C, fs) BY <1>5, <1>6, <1>7, <1>9 DEF Fit
  <1> QED BY <1>10, <1>11

\* b numbers are k and m.
Sum(b, k, m) == b = k + m

\* The backend got some chunks, and perhaps a part of the next.
LEMMA OwnWritten ==
  ASSUME NEW W \in Seq(ChunkType), NEW C \in Seq(ChunkType), NEW fs \in Seq(FileType),
         NEW b \in Nat, b = Len(W), Own(W \o C, b, fs),
         NEW V \in Seq(ChunkType), Fit(V, fs), NEW k \in 0 .. b, NEW m \in Nat, m = Len(V), Sum(b, k, m),
         \A i \in 1 .. m : Alike(V[i], W[k + i]), NEW X, Frees(X, W, 1 .. k)
  PROVE  Own(V \o C, m, Unlinked(fs, X))
  <1> DEFINE A == W \o C
             B == V \o C
  <1>1. PICK n \in Nat : n = Len(C) OBVIOUS
  <1>0. V \in Seq(ChunkType) /\ DOMAIN V = 1 .. m BY DEF Fit
  <1>a. Fit(C, fs) BY OwnFit
  <1>2. A \in Seq(ChunkType) BY <1>1, JoinIs
  <1>3. Len(A) = b + n BY <1>1, JoinIs
  <1>4. \A i \in 1 .. b : A[i] = W[i] BY <1>1, JoinIs
  <1>5. \A i \in 1 .. n : A[b + i] = C[i] BY <1>1, JoinIs
  <1>6. B \in Seq(ChunkType) BY <1>0, <1>1, JoinIs
  <1>7. Len(B) = m + n BY <1>0, <1>1, JoinIs
  <1>8. \A i \in 1 .. m : B[i] = V[i] BY <1>0, <1>1, JoinIs
  <1>9. \A i \in 1 .. n : B[m + i] = C[i] BY <1>0, <1>1, JoinIs
  <1>10. Own(A, b, fs) OBVIOUS
  <1> HIDE DEF A, B
  <1>11. k \in Nat /\ k <= b /\ b - k = m /\ b = k + m BY DEF Sum
  <1>12. \A i \in 1 .. m + n : Good(B[i], fs) /\ Alike(B[i], A[k + i])
         /\ (i > m => Remaining(B[i]) = Remaining(A[k + i]))
    <2> TAKE i \in 1 .. m + n
    <2>1. CASE i \in 1 .. m
      <3>1. B[i] = V[i] /\ Good(V[i], fs) BY <1>0, <1>8, <2>1 DEF Fit
      <3>2. PICK j \in Nat : j = k + i BY <1>11, <2>1
      <3>3. j \in 1 .. b BY <1>11, <2>1, <3>2
      <3>4. A[j] = W[j] BY <1>4, <3>3
      <3>5. Alike(V[i], W[j]) BY <2>1, <3>2
      <3> QED BY <2>1, <3>1, <3>2, <3>4, <3>5
    <2>2. CASE \E j \in 1 .. n : i = m + j
      <3>1. PICK j \in 1 .. n : i = m + j BY <2>2
      <3>2. PICK l \in Nat : l = k + i BY <1>11, <3>1
      <3>3. l = b + j BY <1>11, <3>1, <3>2
      <3>4. B[i] = C[j] /\ A[l] = C[j] BY <1>5, <1>9, <3>1, <3>3
      <3>5. Good(C[j], fs) BY <1>a, <1>1, <3>1 DEF Fit
      <3> QED BY <3>2, <3>4, <3>5 DEF Alike
    <2> QED BY <2>1, <2>2, JoinCases
  <1>13. Frees(X, A, 1 .. k)
    <2>1. \A i \in 1 .. k : A[i] = W[i] BY <1>4, <1>11
    <2> QED BY <2>1 DEF Frees
  <1>14. k \in 0 .. Len(A) /\ Len(B) = Len(A) - k BY <1>3, <1>7, <1>11
  <1>15. \A i \in 1 .. Len(B) : Good(B[i], fs) /\ Alike(B[i], A[k + i])
         /\ (i > b - k => Remaining(B[i]) = Remaining(A[k + i]))
    BY <1>7, <1>11, <1>12
  <1>16. Own(B, b - k, Unlinked(fs, X)) BY <1>2, <1>6, <1>10, <1>11, <1>13, <1>14, <1>15, OwnDropped
  <1> QED BY <1>11, <1>16 DEF B

\* Empty chunks behind go, with their files.
LEMMA OwnPicked ==
  ASSUME NEW W \in Seq(ChunkType), NEW C \in Seq(ChunkType), NEW fs \in Seq(FileType),
         NEW b \in Nat, b = Len(W), NEW n \in Nat, n = Len(C), Own(W \o C, b, fs),
         NEW D \in Seq(ChunkType), Fit(D, fs), NEW I, I \subseteq 1 .. n, \A i \in I : Remaining(C[i]) = 0,
         NEW h, Picked(D, C, I, n, h), NEW X, Frees(X, C, I)
  PROVE  Own(W \o D, b, Unlinked(fs, X))
  <1> DEFINE A == W \o C
             B == W \o D
             J == {b + i : i \in I}
  <1>1. PICK m \in Nat : m = Len(D) OBVIOUS
  <1>2. A \in Seq(ChunkType) BY JoinIs
  <1>3. Len(A) = b + n BY JoinIs
  <1>4. \A i \in 1 .. b : A[i] = W[i] BY JoinIs
  <1>5. \A i \in 1 .. n : A[b + i] = C[i] BY JoinIs
  <1>6. B \in Seq(ChunkType) BY <1>1, JoinIs
  <1>7. Len(B) = b + m BY <1>1, JoinIs
  <1>8. \A i \in 1 .. b : B[i] = W[i] BY <1>1, JoinIs
  <1>9. \A i \in 1 .. m : B[b + i] = D[i] BY <1>1, JoinIs
  <1>10. Own(A, b, fs) OBVIOUS
  <1> HIDE DEF A, B
  <1>11. DOMAIN A = 1 .. b + n /\ DOMAIN B = 1 .. b + m BY <1>2, <1>3, <1>6, <1>7
  <1>12. /\ h \in [1 .. m -> (1 .. n) \ I] /\ \A i, j \in 1 .. m : h[j] <= h[i] => j <= i
         /\ \A a \in (1 .. n) \ I : \E i \in 1 .. m : h[i] = a
         /\ \A i \in 1 .. m : D[i] = C[h[i]]
    BY <1>1 DEF Picked
  <1>13. \A i \in 1 .. m : h[i] \in 1 .. n /\ h[i] \notin I BY <1>12
  <1> DEFINE g == [i \in 1 .. b + m |-> IF i <= b THEN i ELSE b + h[i - b]]
  <1>14. \A i \in 1 .. b : g[i] = i /\ i \notin J /\ i \in 1 .. b + n /\ i \in 1 .. b + m BY <1>1
  <1>15. \A i \in 1 .. m : g[b + i] = b + h[i] /\ b + h[i] \in 1 .. b + n /\ b + h[i] \notin J
    <2> TAKE i \in 1 .. m
    <2>1. PICK j \in 1 .. b + m : j = b + i OBVIOUS
    <2>2. ~(j <= b) /\ j - b = i BY <2>1
    <2>3. g[j] = b + h[i] BY <2>2
    <2>4. h[i] \in 1 .. n /\ h[i] \notin I BY <1>13
    <2>5. b + h[i] \in 1 .. b + n BY <2>4
    <2>6. \A k \in I : b + k = b + h[i] => k = h[i] BY <2>4
    <2> QED BY <2>1, <2>3, <2>4, <2>5, <2>6
  <1> HIDE DEF g
  <1>16. \A i \in 1 .. b + m : i \in 1 .. b \/ \E j \in 1 .. m : i = b + j BY JoinCases
  <1>17. \A i \in 1 .. b + n : i \in 1 .. b \/ \E j \in 1 .. n : i = b + j BY JoinCases
  <1>18. g \in [1 .. b + m -> (1 .. b + n) \ J]
    <2>1. \A i \in 1 .. b + m : g[i] \in (1 .. b + n) \ J
      <3> TAKE i \in 1 .. b + m
      <3>1. CASE i \in 1 .. b
        <4>1. g[i] = i /\ i \in 1 .. b + n /\ i \notin J BY <1>14, <3>1
        <4> HIDE DEF J
        <4> QED BY <4>1
      <3>2. CASE \E j \in 1 .. m : i = b + j
        <4>1. PICK j \in 1 .. m : i = b + j BY <3>2
        <4>2. g[b + j] = b + h[j] /\ b + h[j] \in 1 .. b + n /\ b + h[j] \notin J BY <1>15
        <4> HIDE DEF J
        <4> QED BY <4>1, <4>2
      <3> QED BY <1>16, <3>1, <3>2
    <2>2. g = [i \in 1 .. b + m |-> g[i]] BY DEF g
    <2> QED BY <2>1, <2>2
  <1>19. \A i, j \in 1 .. b + m : g[j] <= g[i] => j <= i
    <2> SUFFICES ASSUME NEW i \in 1 .. b + m, NEW j \in 1 .. b + m, g[j] <= g[i] PROVE j <= i OBVIOUS
    <2>1. CASE i \in 1 .. b /\ j \in 1 .. b BY <1>14, <2>1
    <2>2. CASE i \in 1 .. b /\ \E l \in 1 .. m : j = b + l
      <3>1. PICK l \in 1 .. m : j = b + l BY <2>2
      <3>2. g[j] = b + h[l] /\ h[l] \in 1 .. n BY <1>13, <1>15, <3>1
      <3>3. g[i] = i BY <1>14, <2>2
      <3> QED BY <2>2, <3>2, <3>3
    <2>3. CASE (\E l \in 1 .. m : i = b + l) /\ j \in 1 .. b BY <2>3
    <2>4. CASE (\E l \in 1 .. m : i = b + l) /\ (\E l \in 1 .. m : j = b + l)
      <3>1. PICK k \in 1 .. m : i = b + k BY <2>4
      <3>2. PICK l \in 1 .. m : j = b + l BY <2>4
      <3>3. g[i] = b + h[k] /\ g[j] = b + h[l] BY <1>15, <3>1, <3>2
      <3>4. h[k] \in 1 .. n /\ h[l] \in 1 .. n BY <1>13
      <3>5. h[l] <= h[k] BY <3>3, <3>4
      <3>6. l <= k BY <1>12, <3>5
      <3> QED BY <3>1, <3>2, <3>6
    <2> QED BY <1>16, <2>1, <2>2, <2>3, <2>4
  <1>20. \A a \in (1 .. b + n) \ J : \E i \in 1 .. b + m : g[i] = a
    <2> TAKE a \in (1 .. b + n) \ J
    <2>1. CASE a \in 1 .. b BY <1>14, <2>1
    <2>2. CASE \E j \in 1 .. n : a = b + j
      <3>1. PICK j \in 1 .. n : a = b + j BY <2>2
      <3>2. j \notin I BY <3>1
      <3>3. PICK i \in 1 .. m : h[i] = j BY <1>12, <3>2
      <3>4. g[b + i] = a BY <1>15, <3>1, <3>3
      <3>5. b + i \in 1 .. b + m OBVIOUS
      <3> QED BY <3>4, <3>5
    <2> QED BY <1>17, <2>1, <2>2
  <1>21. \A i \in 1 .. b + m : Good(B[i], fs) /\ B[i] = A[g[i]] /\ (i > b => g[i] > b)
    <2> TAKE i \in 1 .. b + m
    <2>0. Fit(W, fs) BY OwnFit
    <2>1. CASE i \in 1 .. b
      <3>1. Good(W[i], fs) BY <2>0, <2>1 DEF Fit
      <3> QED BY <1>4, <1>8, <1>14, <2>1, <3>1
    <2>2. CASE \E j \in 1 .. m : i = b + j
      <3>1. PICK j \in 1 .. m : i = b + j BY <2>2
      <3>2. Good(D[j], fs) BY <1>1, <3>1 DEF Fit
      <3>3. g[i] = b + h[j] /\ h[j] \in 1 .. n BY <1>13, <1>15, <3>1
      <3>4. B[i] = D[j] /\ A[g[i]] = C[h[j]] BY <1>5, <1>9, <3>1, <3>3
      <3>5. D[j] = C[h[j]] BY <1>12
      <3> QED BY <3>2, <3>3, <3>4, <3>5
    <2> QED BY <1>16, <2>1, <2>2
  <1>22. J \subseteq 1 .. b + n /\ \A i \in J : i > b /\ Remaining(A[i]) = 0
    <2> SUFFICES ASSUME NEW k \in I PROVE b + k \in 1 .. b + n /\ b + k > b /\ Remaining(A[b + k]) = 0
      OBVIOUS
    <2>1. k \in 1 .. n /\ Remaining(C[k]) = 0 OBVIOUS
    <2>2. A[b + k] = C[k] BY <1>5, <2>1
    <2> QED BY <2>1, <2>2
  <1>23. Frees(X, A, J)
    <2>1. \A i \in I : A[b + i] = C[i] /\ b + i \in J BY <1>5
    <2>2. \A j \in J : \E i \in I : j = b + i OBVIOUS
    <2> HIDE DEF J
    <2> SUFFICES ASSUME NEW f
        PROVE (\E x \in X : x.temp /\ x.name = f) <=> (\E j \in J : A[j].temp /\ A[j].name = f)
      BY DEF Frees
    <2>3. (\E x \in X : x.temp /\ x.name = f) <=> (\E i \in I : C[i].temp /\ C[i].name = f) BY DEF Frees
    <2>4. ASSUME NEW i \in I, C[i].temp /\ C[i].name = f PROVE \E j \in J : A[j].temp /\ A[j].name = f
      BY <2>1, <2>4
    <2>5. ASSUME NEW j \in J, A[j].temp /\ A[j].name = f PROVE \E i \in I : C[i].temp /\ C[i].name = f
      <3>1. PICK i \in I : j = b + i BY <2>2
      <3> QED BY <2>1, <2>5, <3>1
    <2> QED BY <2>3, <2>4, <2>5
  <1> HIDE DEF J
  <1>24. Keeps(A, b, B, b, J, g) BY <1>11, <1>18, <1>19, <1>20, <1>21, <1>22 DEF Keeps, Alike
  <1>25. Apart(A, J)
    <2>1. AloneEmpty(A, b) BY <1>10 DEF Own
    <2> QED BY <1>11, <1>22, <2>1 DEF AloneEmpty, Apart
  <1>26. \A i \in DOMAIN B : Good(B[i], fs) BY <1>11, <1>21
  <1>27. Own(B, b, Unlinked(fs, X)) BY <1>2, <1>6, <1>10, <1>23, <1>24, <1>25, <1>26, OwnLess
  <1> QED BY <1>27 DEF B

-----------------------------------------------------------------------------
(* All three queues.                                                        *)

\* The three queues together: W goes to the backend, C is the request's content, R is read.
Three(W, C, R, fs) ==
  /\ W \in Seq(ChunkType) /\ C \in Seq(ChunkType) /\ fs \in Seq(FileType)
  /\ Own(W \o C, Len(W), fs) /\ Fit(R, fs) /\ AllMem(R)

\* All chunks of the three queues are good.
LEMMA ThreeFit ==
  ASSUME NEW W, NEW C, NEW R, NEW fs, Three(W, C, R, fs)
  PROVE  /\ Fit(W, fs) /\ Fit(C, fs) /\ Fit(R, fs)
         /\ Flow(W, fs) \in Seq(Nat) /\ Flow(C, fs) \in Seq(Nat) /\ Flow(R, fs) \in Seq(Nat)
  <1>1. PICK b \in Nat : b = Len(W) BY DEF Three
  <1>2. Own(W \o C, b, fs) /\ W \in Seq(ChunkType) /\ C \in Seq(ChunkType) /\ fs \in Seq(FileType)
    BY <1>1 DEF Three
  <1>3. Fit(W, fs) /\ Fit(C, fs) BY <1>2, OwnFit
  <1>4. Fit(R, fs) BY DEF Three
  <1> QED BY <1>3, <1>4, EachTyped

\* Chunks of memory own no file.
LEMMA MemBehind ==
  ASSUME NEW A \in Seq(ChunkType), NEW b \in Nat, NEW fs \in Seq(FileType), Own(A, b, fs), Fit(A, fs),
         NEW T, Fit(T, fs), AllMem(T)
  PROVE  Own(A \o T, b, fs)
  <1> DEFINE B == A \o T
  <1>1. PICK n \in Nat : n = Len(A) OBVIOUS
  <1>2. PICK m \in Nat : m = Len(T) BY DEF Fit
  <1>3. T \in Seq(ChunkType) BY DEF Fit
  <1>4. /\ B \in Seq(ChunkType) /\ Len(B) = n + m /\ (\A i \in 1 .. n : B[i] = A[i])
        /\ \A i \in 1 .. m : B[n + i] = T[i]
    BY <1>1, <1>2, <1>3, JoinIs
  <1>5. Fit(B, fs) BY FlowConcat
  <1> HIDE DEF B
  <1>6. DOMAIN B = 1 .. n + m /\ DOMAIN T = 1 .. m BY <1>2, <1>3, <1>4
  <1>7. ASSUME NEW i \in 1 .. n + m PROVE Good(B[i], fs) /\ IF i <= n THEN B[i] = A[i] ELSE B[i].type = "mem"
    <2>1. Good(B[i], fs) BY <1>5, <1>6 DEF Fit
    <2>2. CASE i \in 1 .. n BY <1>4, <2>1, <2>2
    <2>3. CASE \E j \in 1 .. m : i = n + j
      <3>1. PICK j \in 1 .. m : i = n + j BY <2>3
      <3>2. B[n + j] = T[j] BY <1>4
      <3>3. T[j].type = "mem" BY <1>6 DEF AllMem
      <3>4. ~(i <= n) BY <3>1
      <3> QED BY <2>1, <3>1, <3>2, <3>3, <3>4
    <2> QED BY <2>2, <2>3, JoinCases
  <1>8. Len(B) >= Len(A) BY <1>1, <1>4
  <1>9. \A i \in 1 .. Len(B) : Good(B[i], fs) /\ IF i <= Len(A) THEN B[i] = A[i] ELSE B[i].type = "mem"
    BY <1>1, <1>4, <1>7
  <1>10. Own(B, b, fs) BY <1>4, <1>8, <1>9, OwnMore
  <1> QED BY <1>10 DEF B

\* Memory is put behind the content.
LEMMA MemAdded ==
  ASSUME NEW W, NEW C, NEW R, NEW fs, Three(W, C, R, fs), NEW T, Fit(T, fs), AllMem(T),
         NEW Q, Fit(Q, fs), AllMem(Q)
  PROVE  Three(W, C \o T, Q, fs) /\ Flow(C \o T, fs) = Flow(C, fs) \o Flow(T, fs)
  <1> DEFINE A == W \o C
             D == C \o T
             B == A \o T
  <1>1. PICK b \in Nat : b = Len(W) BY DEF Three
  <1>2. /\ W \in Seq(ChunkType) /\ C \in Seq(ChunkType) /\ T \in Seq(ChunkType) /\ fs \in Seq(FileType)
        /\ Own(A, b, fs)
    BY <1>1 DEF Three, Fit
  <1>3. Fit(W, fs) /\ Fit(C, fs) BY ThreeFit
  <1>4. Fit(D, fs) /\ Flow(D, fs) = Flow(C, fs) \o Flow(T, fs) BY <1>3, FlowConcat
  <1>5. Fit(A, fs) BY <1>3, FlowConcat
  <1>6. B = W \o D BY <1>2, ConcatAssociative
  <1>7. A \in Seq(ChunkType) BY <1>5 DEF Fit
  <1>8. D \in Seq(ChunkType) BY <1>4 DEF Fit
  <1>9. Own(B, b, fs) BY <1>2, <1>5, <1>7, MemBehind
  <1>10. Own(W \o D, Len(W), fs) BY <1>1, <1>6, <1>9
  <1> QED BY <1>2, <1>4, <1>8, <1>10 DEF Three

\* Content at its head goes behind what is on its way.
LEMMA Shifted ==
  ASSUME NEW W, NEW R, NEW fs, NEW T \in Seq(ChunkType), NEW D \in Seq(ChunkType), Three(W, T \o D, R, fs)
  PROVE  Three(W \o T, D, R, fs) /\ Flow(W \o T, fs) = Flow(W, fs) \o Flow(T, fs) /\ Fit(T, fs) /\ Fit(D, fs)
         /\ Flow(T \o D, fs) = Flow(T, fs) \o Flow(D, fs)
  <1> DEFINE A == W \o (T \o D)
             B == (W \o T) \o D
  <1>1. PICK b \in Nat : b = Len(W) BY DEF Three
  <1>2. PICK n \in Nat : n = Len(T) OBVIOUS
  <1>3. W \in Seq(ChunkType) /\ T \o D \in Seq(ChunkType) /\ fs \in Seq(FileType) /\ Own(A, b, fs)
    BY <1>1 DEF Three
  <1>4. A = B BY <1>3, ConcatAssociative
  <1>5. Len(W \o T) = b + n /\ W \o T \in Seq(ChunkType) BY <1>1, <1>2, <1>3, JoinIs
  <1>6. PICK c \in Nat : c = b + n OBVIOUS
  <1>7. Fit(W, fs) /\ Fit(T \o D, fs) BY ThreeFit
  <1>8. Fit(T, fs) /\ Fit(D, fs)
    <2>1. PICK m \in Nat : m = Len(D) OBVIOUS
    <2>2. /\ Len(T \o D) = n + m /\ (\A i \in 1 .. n : (T \o D)[i] = T[i])
          /\ \A i \in 1 .. m : (T \o D)[n + i] = D[i]
      BY <1>2, <2>1, JoinIs
    <2>3. DOMAIN (T \o D) = 1 .. n + m BY <1>3, <2>2
    <2>4. \A i \in 1 .. n + m : Good((T \o D)[i], fs) BY <1>7, <2>3 DEF Fit
    <2>5. \A i \in 1 .. n : i \in 1 .. n + m BY <2>1
    <2>6. \A i \in 1 .. m : n + i \in 1 .. n + m BY <2>1
    <2>7. DOMAIN T = 1 .. n /\ DOMAIN D = 1 .. m BY <1>2, <2>1
    <2> DEFINE U == T \o D
    <2> HIDE DEF U
    <2>9. (\A i \in 1 .. n : U[i] = T[i]) /\ (\A i \in 1 .. m : U[n + i] = D[i])
          /\ \A i \in 1 .. n + m : Good(U[i], fs)
      BY <2>2, <2>4 DEF U
    <2>10. \A i \in DOMAIN T : Good(T[i], fs) BY <2>5, <2>7, <2>9
    <2>8. \A i \in DOMAIN D : Good(D[i], fs)
      <3> TAKE i \in DOMAIN D
      <3>1. i \in 1 .. m BY <2>7
      <3>2. U[n + i] = D[i] /\ n + i \in 1 .. n + m BY <2>6, <2>9, <3>1
      <3> QED BY <2>9, <3>2
    <2> QED BY <1>3, <2>10, <2>8 DEF Fit
  <1>9. Flow(W \o T, fs) = Flow(W, fs) \o Flow(T, fs) /\ Flow(T \o D, fs) = Flow(T, fs) \o Flow(D, fs)
    BY <1>7, <1>8, FlowConcat
  <1>10. Own(A, c, fs)
    <2>1. A \in Seq(ChunkType) BY <1>3, ConcatProperties
    <2> HIDE DEF A
    <2>2. \A i \in 1 .. Len(A) : Good(A[i], fs) BY <1>3, <2>1 DEF Own
    <2>3. b <= c BY <1>6
    <2> QED BY <1>3, <2>1, <2>2, <2>3, OwnAlike DEF Alike
  <1>11. Own(B, Len(W \o T), fs) BY <1>4, <1>5, <1>6, <1>10
  <1>12. Fit(R, fs) /\ AllMem(R) BY DEF Three
  <1> HIDE DEF A
  <1> QED BY <1>3, <1>5, <1>8, <1>9, <1>11, <1>12 DEF Three

\* A part of the first chunk of the content goes behind what is on its way.
\* The places of its chunks.
Headed(B, a, d, C, n) == \A i \in 1 .. n : B[a + i] = IF i = 1 THEN d ELSE C[i]
Parted(A, B, a, b, n, c, d, C) ==
  /\ A \in Seq(ChunkType) /\ B \in Seq(ChunkType) /\ Len(A) = b + n /\ Len(B) = a + n
  /\ \A i \in 1 .. b : B[i] = A[i]
  /\ B[a] = c
  /\ \A i \in 1 .. n : A[b + i] = C[i]
  /\ Headed(B, a, d, C, n)

\* A chunk is split: the piece that goes ahead and the rest, which deletes the file, in place of the whole.
LEMMA PieceIs ==
  ASSUME NEW A \in Seq(ChunkType), NEW C, NEW fs \in Seq(FileType), NEW b \in Nat, NEW n \in Nat \ {0},
         Own(A, b, fs),
         NEW c, NEW d, Good(c, fs), Good(d, fs), c.type = C[1].type, ~c.temp,
           c.type = "file" => c.name = C[1].name,
         Alike(d, C[1]), Remaining(d) # 0,
         NEW B \in Seq(ChunkType), NEW a \in Nat, Sum(a, b, 1), Parted(A, B, a, b, n, c, d, C)
  PROVE  Own(B, a, fs)
  <1>1. /\ Len(A) = b + n /\ (\A i \in 1 .. n : A[b + i] = C[i]) /\ Len(B) = a + n
        /\ (\A i \in 1 .. b : B[i] = A[i]) /\ B[a] = c
    BY DEF Parted
  <1>2. \A i \in 1 .. n : B[a + i] = IF i = 1 THEN d ELSE C[i] BY DEF Parted, Headed
  <1>0. a = b + 1 BY DEF Sum
  <1>4. DOMAIN A = 1 .. b + n BY <1>1
  <1>5. \A i \in 1 .. b + n : Good(A[i], fs) BY <1>4 DEF Own
  <1>6. ASSUME NEW i \in 1 .. Len(B)
        PROVE  /\ Good(B[i], fs)
               /\ i <= b => B[i] = A[i]
               /\ i = b + 1 => B[i].type = A[i].type /\ ~B[i].temp
                  /\ (B[i].type = "file" => B[i].name = A[i].name)
               /\ i > b + 1 => Alike(B[i], A[i - 1])
               /\ i > b + 2 => Remaining(B[i]) = Remaining(A[i - 1])
               /\ i = b + 2 => Remaining(B[i]) # 0
    <2>0. i \in 1 .. a + n BY <1>1
    <2>1. CASE i \in 1 .. b
      <3>1. B[i] = A[i] BY <1>1, <2>1
      <3>2. Good(A[i], fs) BY <1>5, <2>1
      <3>3. ~(i = b + 1) /\ ~(i > b + 1) /\ ~(i > b + 2) /\ ~(i = b + 2) BY <2>1
      <3> QED BY <3>1, <3>2, <3>3
    <2>2. CASE i = a
      <3>2. 1 \in 1 .. n OBVIOUS
      <3>4. A[b + 1] = C[1] BY <1>1, <3>2
      <3>3. i = b + 1 /\ ~(i <= b) /\ ~(i > b + 1) /\ ~(i > b + 2) /\ i # b + 2 BY <1>0, <2>2
      <3>5. B[i] = c BY <1>1, <2>2
      <3>6. A[i] = C[1] BY <3>3, <3>4
      <3> QED BY <3>3, <3>5, <3>6
    <2>3. CASE \E j \in 1 .. n : i = a + j
      <3>1. PICK j \in 1 .. n : i = a + j BY <2>3
      <3>2. B[i] = IF j = 1 THEN d ELSE C[j] BY <1>2, <3>1
      <3>3. A[b + j] = C[j] /\ Good(A[b + j], fs) BY <1>1, <1>5
      <3>4. i - 1 = b + j /\ ~(i <= b) /\ i # b + 1 BY <1>0, <3>1
      <3>5. (i > b + 2 <=> j # 1) /\ (i = b + 2 <=> j = 1) BY <1>0, <3>1
      <3>8. A[i - 1] = C[j] BY <3>3, <3>4
      <3>6. CASE j = 1
        <4>1. B[i] = d /\ A[i - 1] = C[1] BY <3>2, <3>6, <3>8
        <4>2. Good(B[i], fs) /\ Alike(B[i], A[i - 1]) /\ Remaining(B[i]) # 0 BY <4>1
        <4>3. ~(i > b + 2) BY <3>5, <3>6
        <4> QED BY <3>4, <4>2, <4>3
      <3>7. CASE j # 1
        <4>1. B[i] = A[i - 1] BY <3>2, <3>7, <3>8
        <4>2. Good(B[i], fs) BY <3>3, <3>8, <3>2, <3>7
        <4>3. i # b + 2 BY <3>5, <3>7
        <4>4. Alike(B[i], A[i - 1]) BY <4>1 DEF Alike
        <4> QED BY <3>4, <4>1, <4>2, <4>3, <4>4
      <3> QED BY <3>6, <3>7
    <2>4. i \in 1 .. a \/ \E j \in 1 .. n : i = a + j BY <2>0, JoinCases
    <2>5. i \in 1 .. a => i \in 1 .. b \/ i = a BY <1>0
    <2> QED BY <2>1, <2>2, <2>3, <2>4, <2>5
  <1>7. b < Len(A) BY <1>1
  <1>8. Len(B) = Len(A) + 1 BY <1>0, <1>1
  <1>9. Own(B, b + 1, fs) BY <1>6, <1>7, <1>8, OwnPiece
  <1> QED BY <1>0, <1>9

\* The places of the chunks when the content's first is split and its piece goes to the backend.
LEMMA PieceAt ==
  ASSUME NEW W \in Seq(ChunkType), NEW C \in Seq(ChunkType), NEW V \in Seq(ChunkType),
         NEW D \in Seq(ChunkType),
         NEW a \in Nat, NEW b \in Nat, NEW n \in Nat, LenIs(W, b), LenIs(C, n), LenIs(V, a), LenIs(D, n),
           Sum(a, b, 1),
         NEW c, NEW d, \A i \in 1 .. b : V[i] = W[i], V[a] = c, Headed(D, 0, d, C, n)
  PROVE  Parted(W \o C, V \o D, a, b, n, c, d, C)
  <1> DEFINE A == W \o C
             B == V \o D
  <1>1. /\ A \in Seq(ChunkType) /\ Len(A) = b + n /\ (\A i \in 1 .. b : A[i] = W[i])
        /\ \A i \in 1 .. n : A[b + i] = C[i]
    <2>1. A \in Seq(ChunkType) BY JoinAt
    <2>2. Len(A) = b + n BY JoinAt
    <2>3. Ahead1(A, W, b) BY JoinAt
    <2>4. Behind(A, b, C, n) BY JoinAt
    <2> HIDE DEF A
    <2> QED BY <2>1, <2>2, <2>3, <2>4 DEF Ahead1, Behind
  <1>2. /\ B \in Seq(ChunkType) /\ Len(B) = a + n /\ (\A i \in 1 .. a : B[i] = V[i])
        /\ \A i \in 1 .. n : B[a + i] = D[i]
    <2>1. B \in Seq(ChunkType) BY JoinAt
    <2>2. Len(B) = a + n BY JoinAt
    <2>3. Ahead1(B, V, a) BY JoinAt
    <2>4. Behind(B, a, D, n) BY JoinAt
    <2> HIDE DEF B
    <2> QED BY <2>1, <2>2, <2>3, <2>4 DEF Ahead1, Behind
  <1>3. a \in 1 .. a /\ \A i \in 1 .. b : i \in 1 .. a BY DEF Sum
  <1> HIDE DEF A, B
  <1>4. B[a] = c BY <1>2, <1>3
  <1>5. \A i \in 1 .. b : B[i] = A[i] BY <1>1, <1>2, <1>3
  <1>6. Headed(B, a, d, C, n)
    <2> SUFFICES ASSUME NEW i \in 1 .. n PROVE B[a + i] = IF i = 1 THEN d ELSE C[i] BY DEF Headed
    <2>1. B[a + i] = D[i] BY <1>2
    <2>2. D[0 + i] = IF i = 1 THEN d ELSE C[i] BY DEF Headed
    <2> QED BY <2>1, <2>2
  <1>7. Parted(A, B, a, b, n, c, d, C) BY <1>1, <1>2, <1>4, <1>5, <1>6 DEF Parted
  <1> QED BY <1>7 DEF A, B

\* The queues then: p bytes have moved from one to the other.
LEMMA PieceMoved ==
  ASSUME NEW W, NEW C, NEW R, NEW fs, Three(W, C, R, fs), C # <<>>, NEW p \in 0 .. Remaining(C[1]),
         p # Remaining(C[1])
  PROVE  LET V == Append(W, SplitOff(C[1], p))
             D == SetHead(C, Ahead(C[1], p))
         IN /\ Three(V, D, R, fs) /\ Flow(V, fs) = Flow(W, fs) \o Take(Flow(C, fs), p)
            /\ Flow(D, fs) = Drop(Flow(C, fs), p)
            /\ p <= Len(Flow(C, fs)) /\ Remaining(SplitOff(C[1], p)) = p
  <1> DEFINE c == SplitOff(C[1], p)
             d == Ahead(C[1], p)
             V == Append(W, c)
             D == SetHead(C, d)
  <1>1. /\ W \in Seq(ChunkType) /\ C \in Seq(ChunkType) /\ fs \in Seq(FileType)
        /\ Own(W \o C, Len(W), fs) /\ Fit(R, fs) /\ AllMem(R)
    BY DEF Three
  <1>2. PICK b \in Nat : b = Len(W) BY <1>1
  <1>3. PICK n \in Nat \ {0} : n = Len(C) BY <1>1
  <1>4. PICK a \in Nat : a = b + 1 OBVIOUS
  <1>5. Fit(W, fs) /\ Fit(C, fs) BY ThreeFit
  <1>6. /\ Fit(D, fs) /\ Len(D) = n /\ Good(C[1], fs)
        /\ \A i \in 1 .. n : D[i] = IF i = 1 THEN d ELSE C[i]
        /\ Flow(D, fs) = Drop(Flow(C, fs), p)
        /\ Take(Flow(C, fs), p) = Take(BytesIn(C[1], fs), p)
        /\ p <= Len(Flow(C, fs))
    BY <1>3, <1>5, FlowAhead
  <1>7. /\ Good(c, fs) /\ c.type = C[1].type /\ ~c.temp /\ (c.type = "file" => c.name = C[1].name)
        /\ Remaining(c) = p /\ BytesIn(c, fs) = Take(BytesIn(C[1], fs), p)
    BY <1>1, <1>6, SplitOffIs
  <1>8. Good(d, fs) /\ Alike(d, C[1]) /\ Remaining(d) # 0
    <2>1. Good(d, fs) /\ Alike(d, C[1]) /\ Remaining(d) = Remaining(C[1]) - p BY <1>1, <1>6, AheadIs
    <2>2. Remaining(C[1]) \in Nat BY <1>1, <1>6, BytesTyped
    <2> QED BY <2>1, <2>2
  <1>9. Fit(V, fs) /\ Flow(V, fs) = Flow(W, fs) \o BytesIn(c, fs) BY <1>5, <1>7, FlowAppend
  <1>10. c \in ChunkType BY <1>7 DEF Good
  <1> HIDE DEF c, d, D
  <1>11. /\ V \in Seq(ChunkType) /\ Len(V) = a /\ V[a] = c /\ \A i \in 1 .. b : V[i] = W[i]
    <2>1. DOMAIN W = 1 .. b BY <1>1, <1>2
    <2>2. V \in Seq(ChunkType) BY <1>1, <1>2, <1>4, <1>10, Appended
    <2>3. Len(V) = a BY <1>1, <1>2, <1>4, <1>10, Appended
    <2>4. V[a] = c BY <1>1, <1>2, <1>4, <1>10, Appended
    <2>5. \A i \in DOMAIN W : V[i] = W[i] BY <1>1, <1>2, <1>4, <1>10, Appended
    <2> QED BY <2>1, <2>2, <2>3, <2>4, <2>5
  <1> HIDE DEF V
  <1>12. D \in Seq(ChunkType) BY <1>6 DEF Fit
  <1>13. Own(W \o C, b, fs) /\ Sum(a, b, 1) BY <1>1, <1>2, <1>4 DEF Sum
  <1> DEFINE A == W \o C
             B == V \o D
  <1>21. n \in Nat /\ Headed(D, 0, d, C, n)
    <2>1. n \in Nat /\ \A i \in 1 .. n : 0 + i = i OBVIOUS
    <2> QED BY <1>6, <2>1 DEF Headed
  <1>22. LenIs(W, b) /\ LenIs(C, n) /\ LenIs(V, a) /\ LenIs(D, n) BY <1>2, <1>3, <1>6, <1>11 DEF LenIs
  <1>19. Parted(A, B, a, b, n, c, d, C)
    <2>1. Parted(W \o C, V \o D, a, b, n, c, d, C)
      <3>1. \A i \in 1 .. b : V[i] = W[i] BY <1>11
      <3>2. V[a] = c BY <1>11
      <3>3. W \in Seq(ChunkType) /\ C \in Seq(ChunkType) /\ V \in Seq(ChunkType) /\ D \in Seq(ChunkType)
        BY <1>1, <1>11, <1>12
      <3> HIDE DEF A, B
      <3> QED BY <1>13, <1>21, <1>22, <3>1, <3>2, <3>3, PieceAt
    <2> QED BY <2>1
  <1>20. Own(A, b, fs) /\ A \in Seq(ChunkType) /\ B \in Seq(ChunkType) BY <1>13, <1>19 DEF Parted
  <1>14. Own(V \o D, a, fs)
    <2> HIDE DEF A, B
    <2>1. Own(B, a, fs) BY <1>1, <1>7, <1>8, <1>13, <1>19, <1>20, PieceIs
    <2> QED BY <2>1 DEF B
  <1>15. Own(V \o D, Len(V), fs) BY <1>11, <1>14
  <1>16. Three(V, D, R, fs) BY <1>1, <1>11, <1>12, <1>15 DEF Three
  <1>17. Flow(V, fs) = Flow(W, fs) \o Take(Flow(C, fs), p) BY <1>6, <1>7, <1>9
  <1>18. Three(V, D, R, fs) /\ Flow(V, fs) = Flow(W, fs) \o Take(Flow(C, fs), p)
            /\ Flow(D, fs) = Drop(Flow(C, fs), p)
            /\ p <= Len(Flow(C, fs)) /\ Remaining(c) = p
    BY <1>6, <1>7, <1>16, <1>17
  <1> QED BY <1>18 DEF V, D, c, d

\* Empty chunks of the content go.
LEMMA Skipped ==
  ASSUME NEW W, NEW C, NEW R, NEW fs, Three(W, C, R, fs), NEW n \in Nat, n = Len(C),
         NEW D, Fit(D, fs), NEW I, I \subseteq 1 .. n, \A i \in I : Remaining(C[i]) = 0,
         NEW h, Picked(D, C, I, n, h), NEW X, Frees(X, C, I)
  PROVE  Three(W, D, R, Unlinked(fs, X))
  <1>1. /\ W \in Seq(ChunkType) /\ C \in Seq(ChunkType) /\ fs \in Seq(FileType)
        /\ Own(W \o C, Len(W), fs) /\ Fit(R, fs) /\ AllMem(R)
    BY DEF Three
  <1>2. PICK b \in Nat : b = Len(W) BY <1>1
  <1>3. Own(W \o C, b, fs) BY <1>1, <1>2
  <1>4. D \in Seq(ChunkType) BY DEF Fit
  <1>5. Own(W \o D, b, Unlinked(fs, X)) BY <1>1, <1>2, <1>3, <1>4, OwnPicked
  <1>6. Unlinked(fs, X) \in Seq(FileType) BY <1>1, UnlinkedIs
  <1>7. Fit(R, Unlinked(fs, X)) BY <1>1, <1>6, FlowMem
  <1> QED BY <1>1, <1>2, <1>4, <1>5, <1>6, <1>7 DEF Three

\* Bytes on their way arrive.
LEMMA Arrived ==
  ASSUME NEW W, NEW C, NEW R, NEW fs, Three(W, C, R, fs), NEW V, Fit(V, fs), NEW k \in 0 .. Len(W),
         Len(V) = Len(W) - k,
         \A i \in 1 .. Len(V) : Alike(V[i], W[k + i]), NEW X, Frees(X, W, 1 .. k)
  PROVE  Three(V, C, R, Unlinked(fs, X))
  <1>1. /\ W \in Seq(ChunkType) /\ C \in Seq(ChunkType) /\ fs \in Seq(FileType)
        /\ Own(W \o C, Len(W), fs) /\ Fit(R, fs) /\ AllMem(R)
    BY DEF Three
  <1>2. PICK b \in Nat : b = Len(W) BY <1>1
  <1>3. Own(W \o C, b, fs) /\ k \in 0 .. b BY <1>1, <1>2
  <1>4. V \in Seq(ChunkType) BY DEF Fit
  <1>11. Len(V) \in Nat BY <1>4
  <1>5. PICK m \in Nat : m = Len(V) BY <1>11
  <1>6. Sum(b, k, m) BY <1>2, <1>5 DEF Sum
  <1>7. \A i \in 1 .. m : Alike(V[i], W[k + i]) BY <1>5
  <1>8. Own(V \o C, m, Unlinked(fs, X)) BY <1>1, <1>2, <1>3, <1>4, <1>5, <1>6, <1>7, OwnWritten
  <1>9. Unlinked(fs, X) \in Seq(FileType) BY <1>1, UnlinkedIs
  <1>10. Fit(R, Unlinked(fs, X)) BY <1>1, <1>9, FlowMem
  <1> QED BY <1>1, <1>4, <1>5, <1>8, <1>9, <1>10 DEF Three

\* The last chunk of the content in another form.
SameLast(A, l, C, n) == A[l] = C[n]

\* The last chunk of the content is the last of the two queues.
LEMMA LastAt ==
  ASSUME NEW W \in Seq(ChunkType), NEW C \in Seq(ChunkType), NEW D \in Seq(ChunkType),
         NEW b \in Nat, NEW n \in Nat, NEW l \in Nat, LenIs(W, b), LenIs(C, n), LenIs(D, n), Sum(l, b, n),
           n # 0,
         NEW d, LastIs(D, d, C, n)
  PROVE  /\ W \o C \in Seq(ChunkType) /\ W \o D \in Seq(ChunkType) /\ LenIs(W \o C, l) /\ LenIs(W \o D, l)
         /\ l # 0
         /\ SameLast(W \o C, l, C, n)
         /\ LastIs(W \o D, d, W \o C, l)
  <1> DEFINE A == W \o C
             B == W \o D
  <1>1. /\ A \in Seq(ChunkType) /\ Len(A) = b + n /\ (\A i \in 1 .. b : A[i] = W[i])
        /\ \A i \in 1 .. n : A[b + i] = C[i]
    <2>1. A \in Seq(ChunkType) BY JoinAt
    <2>2. Len(A) = b + n BY JoinAt
    <2>3. Ahead1(A, W, b) BY JoinAt
    <2>4. Behind(A, b, C, n) BY JoinAt
    <2> HIDE DEF A
    <2> QED BY <2>1, <2>2, <2>3, <2>4 DEF Ahead1, Behind
  <1>2. /\ B \in Seq(ChunkType) /\ Len(B) = b + n /\ (\A i \in 1 .. b : B[i] = W[i])
        /\ \A i \in 1 .. n : B[b + i] = D[i]
    <2>1. B \in Seq(ChunkType) BY JoinAt
    <2>2. Len(B) = b + n BY JoinAt
    <2>3. Ahead1(B, W, b) BY JoinAt
    <2>4. Behind(B, b, D, n) BY JoinAt
    <2> HIDE DEF B
    <2> QED BY <2>1, <2>2, <2>3, <2>4 DEF Ahead1, Behind
  <1>3. l = b + n BY DEF Sum
  <1> HIDE DEF A, B
  <1>4. LenIs(A, l) /\ LenIs(B, l) /\ l # 0 BY <1>1, <1>2, <1>3 DEF LenIs
  <1>5. n \in 1 .. n OBVIOUS
  <1>6. A[l] = C[n] BY <1>1, <1>3, <1>5
  <1>7. ASSUME NEW i \in 1 .. l PROVE B[i] = IF i = l THEN d ELSE A[i]
    <2>1. CASE i \in 1 .. b
      <3>1. B[i] = W[i] /\ A[i] = W[i] BY <1>1, <1>2, <2>1
      <3>2. i # l BY <1>3, <2>1
      <3> QED BY <3>1, <3>2
    <2>2. CASE \E j \in 1 .. n : i = b + j
      <3>1. PICK j \in 1 .. n : i = b + j BY <2>2
      <3>2. B[i] = D[j] /\ A[i] = C[j] BY <1>1, <1>2, <3>1
      <3>3. i = l <=> j = n BY <1>3, <3>1
      <3>4. D[j] = IF j = n THEN d ELSE C[j] BY DEF LastIs
      <3> QED BY <3>2, <3>3, <3>4
    <2>3. i \in 1 .. b + n BY <1>3
    <2> QED BY <2>1, <2>2, <2>3, JoinCases
  <1>8. LastIs(B, d, A, l) /\ SameLast(A, l, C, n) BY <1>6, <1>7 DEF LastIs, SameLast
  <1> QED BY <1>1, <1>2, <1>4, <1>8 DEF A, B

\* The last chunk of the content is replaced by one with the same bytes.
LEMMA Closed ==
  ASSUME NEW W, NEW C, NEW R, NEW fs, Three(W, C, R, fs), NEW n \in Nat, n # 0, LenIs(C, n),
         NEW c, Good(c, fs), Alike(c, C[n]), Remaining(c) = Remaining(C[n]),
           BytesIn(c, fs) = BytesIn(C[n], fs)
  PROVE  Three(W, SetLast(C, c), R, fs) /\ Flow(SetLast(C, c), fs) = Flow(C, fs)
  <1> DEFINE D == SetLast(C, c)
             A == W \o C
             B == W \o D
  <1>1. /\ W \in Seq(ChunkType) /\ C \in Seq(ChunkType) /\ fs \in Seq(FileType)
        /\ Own(A, Len(W), fs) /\ Fit(R, fs) /\ AllMem(R)
    BY DEF Three
  <1>2. PICK b \in Nat : b = Len(W) BY <1>1
  <1>3. PICK l \in Nat : l = b + n OBVIOUS
  <1>4. Fit(C, fs) /\ Flow(C, fs) \in Seq(Nat) BY ThreeFit
  <1>5. /\ Fit(D, fs) /\ LenIs(D, n)
        /\ LastIs(D, c, C, n) /\ Flow(D, fs) = Flow(C, fs)
    <2>1. <<>> \in Seq(Nat) OBVIOUS
    <2>2. BytesIn(C[n], fs) \in Seq(Nat)
      <3>1. n \in DOMAIN C BY <1>1 DEF LenIs
      <3>2. Good(C[n], fs) BY <1>4, <3>1 DEF Fit
      <3> QED BY <1>1, <3>2, BytesTyped
    <2>3. Joins(BytesIn(c, fs), BytesIn(C[n], fs), <<>>) BY <2>2, ConcatEmptySeq DEF Joins
    <2>4. DOMAIN C = 1 .. n BY <1>1 DEF LenIs
    <2>5. \A i \in 1 .. n : i # n => Good(C[i], fs) /\ BytesIn(C[i], fs) = BytesIn(C[i], fs)
      BY <1>4, <2>4 DEF Fit
    <2>8. OthersKept(C, fs, fs, n) BY <2>5 DEF OthersKept
    <2>6. /\ Fit(D, fs) /\ LenIs(D, n)
          /\ LastIs(D, c, C, n) /\ Flow(D, fs) = Flow(C, fs) \o <<>>
      <3>1. Fit(D, fs) BY <1>1, <1>4, <2>1, <2>3, <2>8, FlowSetLast
      <3>2. LenIs(D, n) BY <1>1, <1>4, <2>1, <2>3, <2>8, FlowSetLast
      <3>3. LastIs(D, c, C, n) BY <1>1, <1>4, <2>1, <2>3, <2>8, FlowSetLast
      <3>5. Joins(Flow(D, fs), Flow(C, fs), <<>>) BY <1>1, <1>4, <2>1, <2>3, <2>8, FlowSetLast
      <3>4. Flow(D, fs) = Flow(C, fs) \o <<>> BY <3>5 DEF Joins
      <3> HIDE DEF D
      <3> QED BY <3>1, <3>2, <3>3, <3>4
    <2>7. Flow(C, fs) \o <<>> = Flow(C, fs) BY <1>4, ConcatEmptySeq
    <2> HIDE DEF D
    <2> QED BY <2>6, <2>7
  <1> HIDE DEF D
  <1>6. D \in Seq(ChunkType) BY <1>5 DEF Fit
  <1>7. LenIs(W, b) /\ LenIs(C, n) /\ LenIs(D, n) /\ Sum(l, b, n) BY <1>2, <1>3, <1>5 DEF LenIs, Sum
  <1>8. /\ A \in Seq(ChunkType) /\ B \in Seq(ChunkType) /\ LenIs(A, l) /\ LenIs(B, l) /\ l # 0 /\ A[l] = C[n]
        /\ LastIs(B, c, A, l)
    <2>1. LenIs(A, l) BY <1>1, <1>5, <1>6, <1>7, LastAt
    <2>2. LenIs(B, l) BY <1>1, <1>5, <1>6, <1>7, LastAt
    <2>3. l # 0 BY <1>1, <1>5, <1>6, <1>7, LastAt
    <2>8. SameLast(A, l, C, n) BY <1>1, <1>5, <1>6, <1>7, LastAt
    <2>4. A[l] = C[n] BY <2>8 DEF SameLast
    <2>5. LastIs(B, c, A, l) BY <1>1, <1>5, <1>6, <1>7, LastAt
    <2>6. A \in Seq(ChunkType) BY <1>1, <1>5, <1>6, <1>7, LastAt
    <2>7. B \in Seq(ChunkType) BY <1>1, <1>5, <1>6, <1>7, LastAt
    <2> HIDE DEF A, B
    <2> QED BY <2>1, <2>2, <2>3, <2>4, <2>5, <2>6, <2>7
  <1>9. Own(A, b, fs) BY <1>1, <1>2
  <1> HIDE DEF A, B
  <1>10. \A i \in 1 .. l : Good(A[i], fs)
    <2>1. DOMAIN A = 1 .. l BY <1>8 DEF LenIs
    <2> QED BY <1>9, <2>1 DEF Own
  <1>11. \A i \in 1 .. Len(A) : Good(B[i], fs) /\ Alike(B[i], A[i])
         /\ (i > b => Remaining(B[i]) = Remaining(A[i]))
    <2> SUFFICES ASSUME NEW i \in 1 .. l
        PROVE Good(B[i], fs) /\ Alike(B[i], A[i]) /\ Remaining(B[i]) = Remaining(A[i])
      BY <1>8 DEF LenIs
    <2>1. CASE i = l
      <3>1. B[i] = c /\ A[i] = C[n] BY <1>8, <2>1 DEF LastIs
      <3> QED BY <3>1
    <2>2. CASE i # l
      <3>1. B[i] = A[i] BY <1>8, <2>2 DEF LastIs
      <3> QED BY <1>10, <3>1 DEF Alike
    <2> QED BY <2>1, <2>2
  <1>14. Len(B) = Len(A) /\ b <= b BY <1>8 DEF LenIs
  <1>12. Own(B, b, fs) BY <1>1, <1>8, <1>9, <1>11, <1>14, OwnAlike
  <1>13. Own(W \o D, Len(W), fs) BY <1>2, <1>12 DEF B
  <1> QED BY <1>1, <1>5, <1>6, <1>13 DEF Three, D

\* A file is made.
FlowsStay(W, D, R, gs, C, fs) ==
  Flow(W, gs) = Flow(W, fs) /\ Flow(D, gs) = Flow(C, fs) /\ Flow(R, gs) = Flow(R, fs)
Made(gs, fs) == gs = Append(fs, NewFile)
WithNew(D, C, n) == D = Append(C, File(n, 0, 0, TRUE, TRUE))

\* A temporary file is made and its chunk goes to the end of the content.
LEMMA FileMade ==
  ASSUME NEW W, NEW C, NEW R, NEW fs, Three(W, C, R, fs), NEW n \in Nat, n = Len(fs) + 1,
         NEW gs, Made(gs, fs), NEW D, WithNew(D, C, n)
  PROVE  Three(W, D, R, gs) /\ FlowsStay(W, D, R, gs, C, fs) /\ Remaining(File(n, 0, 0, TRUE, TRUE)) = 0
  <1> DEFINE c == File(n, 0, 0, TRUE, TRUE)
             D1 == Append(C, c)
             gs1 == Append(fs, NewFile)
             A == W \o C
  <1>1. /\ W \in Seq(ChunkType) /\ C \in Seq(ChunkType) /\ fs \in Seq(FileType)
        /\ Own(A, Len(W), fs) /\ Fit(R, fs) /\ AllMem(R)
    BY DEF Three
  <1>2. PICK b \in Nat : b = Len(W) BY <1>1
  <1>3. gs1 \in Seq(FileType) /\ n \in DOMAIN gs1 /\ gs1[n] = NewFile
    <2>1. gs1 \in Seq(FileType) /\ Len(gs1) = Len(fs) + 1 /\ gs1[Len(fs) + 1] = NewFile BY <1>1, NewFileIs
    <2> HIDE DEF gs1
    <2>2. DOMAIN gs1 = 1 .. n /\ n \in 1 .. n BY <1>1, <2>1
    <2> QED BY <2>1, <2>2
  <1>4. Fit(W, fs) /\ Fit(C, fs) BY ThreeFit
  <1>5. Fit(W, gs1) /\ Flow(W, gs1) = Flow(W, fs) BY <1>4, FlowNewFile
  <1>6. Fit(C, gs1) /\ Flow(C, gs1) = Flow(C, fs) BY <1>4, FlowNewFile
  <1>7. Fit(R, gs1) /\ Flow(R, gs1) = Flow(R, fs) BY <1>1, FlowNewFile
  <1> HIDE DEF gs1
  <1>8. Good(c, gs1) /\ BytesIn(c, gs1) = <<>> /\ c.type = "file" /\ c.temp /\ c.name = n /\ Remaining(c) = 0
    BY <1>3, NewChunk
  <1> HIDE DEF c
  <1>9. Fit(D1, gs1) /\ Flow(D1, gs1) = Flow(C, gs1) \o <<>> BY <1>6, <1>8, FlowAppend
  <1>10. Flow(D1, gs1) = Flow(C, fs)
    <2>1. Flow(C, gs1) \in Seq(Nat) BY <1>6, EachTyped
    <2>2. Flow(C, gs1) \o <<>> = Flow(C, gs1) BY <2>1, ConcatEmptySeq
    <2> HIDE DEF D1
    <2> QED BY <1>6, <1>9, <2>2
  <1>11. c \in ChunkType BY <1>8 DEF Good
  <1>12. A \in Seq(ChunkType) /\ W \o D1 = Append(A, c)
    <2>1. A \in Seq(ChunkType) BY <1>1, ConcatProperties
    <2>2. W \o D1 = Append(A, c) BY <1>1, <1>11, ConcatAppend
    <2> QED BY <2>1, <2>2
  <1>13. Own(A, b, fs) BY <1>1, <1>2
  <1> HIDE DEF A
  <1>14. Own(Append(A, c), b, gs1) BY <1>1, <1>8, <1>12, <1>13, OwnNew DEF gs1
  <1>15. Own(W \o D1, Len(W), gs1) BY <1>2, <1>12, <1>14
  <1>16. D1 \in Seq(ChunkType) BY <1>9 DEF Fit
  <1>17. Three(W, D1, R, gs1) BY <1>1, <1>3, <1>7, <1>15, <1>16 DEF Three
  <1>18. /\ Three(W, D1, R, gs1) /\ Flow(W, gs1) = Flow(W, fs) /\ Flow(D1, gs1) = Flow(C, fs)
            /\ Flow(R, gs1) = Flow(R, fs)
         /\ Remaining(c) = 0
    BY <1>5, <1>7, <1>8, <1>10, <1>17
  <1> QED BY <1>18 DEF FlowsStay, Made, WithNew, D1, gs1, c

\* The last file of the content grows.
FlowGrows(W, D, R, gs, C, fs, s) ==
  Flow(W, gs) = Flow(W, fs) /\ Joins(Flow(D, gs), Flow(C, fs), s) /\ Flow(R, gs) = Flow(R, fs)
Larger(gs, fs, f, s) == gs = Grown(fs, f, s)
LastLonger(D, C, n, k) == D = SetLast(C, Longer(C[n], k))

\* Bytes are written to the last file of the content.
LEMMA FileGrown ==
  ASSUME NEW W, NEW C, NEW R, NEW fs, Three(W, C, R, fs), NEW n \in Nat, n # 0, LenIs(C, n),
         C[n].type = "file", C[n].temp, C[n].offset = 0, NEW s \in Seq(Nat),
         NEW gs, Larger(gs, fs, C[n].name, s), NEW D, LastLonger(D, C, n, Len(s))
  PROVE  Three(W, D, R, gs) /\ FlowGrows(W, D, R, gs, C, fs, s)
  <1> DEFINE c == Longer(C[n], Len(s))
             D1 == SetLast(C, c)
             gs1 == Grown(fs, C[n].name, s)
             A == W \o C
             B == W \o D1
  <1>1. /\ W \in Seq(ChunkType) /\ C \in Seq(ChunkType) /\ fs \in Seq(FileType)
        /\ Own(A, Len(W), fs) /\ Fit(R, fs) /\ AllMem(R)
    BY DEF Three
  <1>2. PICK b \in Nat : b = Len(W) BY <1>1
  <1>3. PICK l \in Nat : l = b + n OBVIOUS
  <1>4. Fit(W, fs) /\ Fit(C, fs) BY ThreeFit
  <1>5. DOMAIN C = 1 .. n /\ DOMAIN W = 1 .. b /\ n \in 1 .. n BY <1>1, <1>2 DEF LenIs
  <1>6. (\A i \in 1 .. n : Good(C[i], fs)) /\ \A i \in 1 .. b : Good(W[i], fs) BY <1>4, <1>5 DEF Fit
  <1>7. C[n].name \in DOMAIN fs
    <2>1. Good(C[n], fs) /\ C[n].type # "mem" BY <1>5, <1>6
    <2> QED BY <1>1, <2>1, FileFacts
  <1>8. gs1 \in Seq(FileType) BY <1>1, <1>7, GrownIs
  <1>9. /\ Good(c, gs1) /\ BytesIn(c, gs1) = BytesIn(C[n], fs) \o s
    <2>1. Good(C[n], fs) BY <1>5, <1>6
    <2> QED BY <1>1, <2>1, TargetGrows
  <1>10. \A d : Good(d, fs) /\ ~(d.temp /\ d.name = C[n].name) => Good(d, gs1)
         /\ BytesIn(d, gs1) = BytesIn(d, fs)
    BY <1>1, <1>7, GrownGood
  <1> HIDE DEF gs1, c
  \* The whole.
  <1>12. LenIs(D1, n) /\ D1 \in Seq(ChunkType) /\ LastIs(D1, c, C, n)
    <2>1. c \in ChunkType BY <1>9 DEF Good
    <2>2. D1 = [C EXCEPT ![n] = c] BY DEF SetLast, LenIs
    <2> HIDE DEF D1
    <2> QED BY <1>1, <1>5, <2>1, <2>2 DEF LastIs, LenIs
  <1> HIDE DEF D1
  <1>13. LenIs(W, b) /\ LenIs(C, n) /\ LenIs(D1, n) /\ Sum(l, b, n) BY <1>2, <1>3, <1>12 DEF LenIs, Sum
  <1>14. /\ A \in Seq(ChunkType) /\ B \in Seq(ChunkType) /\ LenIs(A, l) /\ LenIs(B, l) /\ l # 0 /\ A[l] = C[n]
         /\ LastIs(B, c, A, l)
    <2>1. LenIs(A, l) BY <1>1, <1>12, <1>13, LastAt
    <2>2. LenIs(B, l) BY <1>1, <1>12, <1>13, LastAt
    <2>3. l # 0 BY <1>1, <1>12, <1>13, LastAt
    <2>8. SameLast(A, l, C, n) BY <1>1, <1>12, <1>13, LastAt
    <2>4. A[l] = C[n] BY <2>8 DEF SameLast
    <2>5. LastIs(B, c, A, l) BY <1>1, <1>12, <1>13, LastAt
    <2>6. A \in Seq(ChunkType) BY <1>1, <1>12, <1>13, LastAt
    <2>7. B \in Seq(ChunkType) BY <1>1, <1>12, <1>13, LastAt
    <2> HIDE DEF A, B
    <2> QED BY <2>1, <2>2, <2>3, <2>4, <2>5, <2>6, <2>7
  <1>15. (\A i \in 1 .. b : A[i] = W[i]) /\ \A i \in 1 .. n : A[b + i] = C[i]
    <2>1. Ahead1(A, W, b) BY <1>1, <1>13, JoinAt
    <2>2. Behind(A, b, C, n) BY <1>1, <1>13, JoinAt
    <2> HIDE DEF A
    <2> QED BY <2>1, <2>2 DEF Ahead1, Behind
  <1>16. Own(A, b, fs) BY <1>1, <1>2
  <1> HIDE DEF A, B
  <1>17. /\ Own(B, b, gs1)
         /\ \A i \in 1 .. l : i # l => ~(A[i].temp /\ A[i].name = A[l].name)
    <2>1. c = Longer(A[l], Len(s)) /\ gs1 = Grown(fs, A[l].name, s) BY <1>14 DEF c, gs1
    <2>2. A[l].type = "file" /\ A[l].temp /\ A[l].offset = 0 BY <1>14
    <2>3. LastIs(B, Longer(A[l], Len(s)), A, l) BY <1>14, <2>1
    <2>4. l \in Nat /\ l # 0 BY <1>14
    <2>5. Own(B, b, Grown(fs, A[l].name, s))
          /\ \A i \in 1 .. l : i # l => ~(A[i].temp /\ A[i].name = A[l].name)
      BY <1>1, <1>14, <1>16, <2>2, <2>3, <2>4, OwnGrows
    <2> QED BY <2>1, <2>5
  \* The parts.
  <1>18. \A i \in 1 .. n : i # n => ~(C[i].temp /\ C[i].name = C[n].name)
    <2> SUFFICES ASSUME NEW i \in 1 .. n, i # n PROVE ~(C[i].temp /\ C[i].name = C[n].name) OBVIOUS
    <2>1. b + i \in 1 .. l /\ b + i # l BY <1>3
    <2>2. A[b + i] = C[i] BY <1>15
    <2> QED BY <1>14, <1>17, <2>1, <2>2
  <1>19. \A i \in 1 .. b : ~(W[i].temp /\ W[i].name = C[n].name)
    <2> SUFFICES ASSUME NEW i \in 1 .. b PROVE ~(W[i].temp /\ W[i].name = C[n].name) OBVIOUS
    <2>1. i \in 1 .. l /\ i # l BY <1>3
    <2>2. A[i] = W[i] BY <1>15
    <2> QED BY <1>14, <1>17, <2>1, <2>2
  <1>20. \A i \in 1 .. n : i # n => Good(C[i], gs1) /\ BytesIn(C[i], gs1) = BytesIn(C[i], fs)
    BY <1>6, <1>10, <1>18
  <1>28. OthersKept(C, fs, gs1, n) BY <1>20 DEF OthersKept
  <1>21. \A i \in 1 .. b : BytesIn(W[i], fs) = BytesIn(W[i], gs1) BY <1>6, <1>10, <1>19
  <1>22. Flow(D1, gs1) = Flow(C, fs) \o s
    <2>1. Joins(BytesIn(c, gs1), BytesIn(C[n], fs), s) BY <1>9 DEF Joins
    <2>2. Joins(Flow(D1, gs1), Flow(C, fs), s) BY <1>4, <1>8, <1>9, <1>28, <2>1, FlowSetLast DEF D1
    <2> QED BY <2>2 DEF Joins
  <1>23. Flow(W, gs1) = Flow(W, fs) 
    <2>1. Len(W) = b /\ W \in Seq(ChunkType) BY <1>1, <1>2
    <2> QED BY <1>21, <2>1, FlowPair
  <1>24. Fit(R, gs1) /\ Flow(R, gs1) = Flow(R, fs) BY <1>1, <1>8, FlowMem
  <1>25. Own(W \o D1, Len(W), gs1) BY <1>2, <1>17 DEF B
  <1>26. Three(W, D1, R, gs1) BY <1>1, <1>8, <1>12, <1>24, <1>25 DEF Three
  <1>27. /\ Three(W, D1, R, gs1) /\ Flow(W, gs1) = Flow(W, fs) /\ Joins(Flow(D1, gs1), Flow(C, fs), s)
         /\ Flow(R, gs1) = Flow(R, fs)
    BY <1>22, <1>23, <1>24, <1>26 DEF Joins
  <1> QED BY <1>27 DEF FlowGrows, Larger, LastLonger, D1, gs1, c
=============================================================================

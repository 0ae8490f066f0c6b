---------------------------- MODULE CommonLemmas ----------------------------
(***************************************************************************)
(* Facts about the containers and the thread counts of qslary that several *)
(* proofs use: std::list and std::vector are modelled as sequences.        *)
(***************************************************************************)
EXTENDS SequencesExt, SequenceTheorems, FiniteSetTheorems, TLAPS

-----------------------------------------------------------------------------
(* Lists as sets: what push_back, erase and insert do to their range.      *)

\* push_back adds one element.
LEMMA AppendRange ==
    ASSUME NEW S, NEW s \in Seq(S), NEW e \in S
    PROVE  /\ Append(s, e) \in Seq(S)
           /\ Range(Append(s, e)) = Range(s) \cup {e}
  <1>1. /\ Append(s, e) \in Seq(S)
        /\ Len(Append(s, e)) = Len(s) + 1
        /\ DOMAIN s = 1 .. Len(s) /\ DOMAIN Append(s, e) = 1 .. Len(s) + 1
        /\ \A i \in 1 .. Len(s) : Append(s, e)[i] = s[i]
        /\ Append(s, e)[Len(s) + 1] = e
        /\ Len(s) \in Nat
    BY AppendProperties, LenProperties
  <1>2. ASSUME NEW x PROVE x \in Range(Append(s, e)) <=> x \in Range(s) \cup {e}
    BY <1>1 DEF Range
  <1> QED BY <1>1, <1>2

\* erase(it) removes one occurrence and keeps all the others.
LEMMA RemoveAtRange ==
    ASSUME NEW S, NEW s \in Seq(S), NEW i \in DOMAIN s
    PROVE  /\ RemoveAt(s, i) \in Seq(S)
           /\ Range(s) = Range(RemoveAt(s, i)) \cup {s[i]}
  <1> DEFINE a == SubSeq(s, 1, i - 1)
             b == SubSeq(s, i + 1, Len(s))
  <1>1. Len(s) \in Nat /\ i \in 1 .. Len(s) /\ DOMAIN s = 1 .. Len(s)
        /\ \A j \in 1 .. Len(s) : s[j] \in S
    BY LenProperties, ElementOfSeq
  <1>2. a \in Seq(S) /\ Len(a) = i - 1 /\ \A j \in 1 .. i - 1 : a[j] = s[j]
    <2>1. i - 1 \in Int /\ 1 \in Int /\ \A j \in 1 .. i - 1 : s[j] \in S
      BY <1>1
    <2>2. /\ SubSeq(s, 1, i - 1) \in Seq(S)
          /\ Len(SubSeq(s, 1, i - 1)) = IF 1 <= i - 1 THEN (i - 1) - 1 + 1 ELSE 0
          /\ \A j \in 1 .. (i - 1) - 1 + 1 : SubSeq(s, 1, i - 1)[j] = s[1 + j - 1]
      BY <2>1, SubSeqProperties
    <2> QED BY <1>1, <2>2
  <1>3. b \in Seq(S) /\ Len(b) = Len(s) - i /\ \A j \in 1 .. Len(s) - i : b[j] = s[i + j]
    <2>1. i + 1 \in Int /\ Len(s) \in Int /\ \A j \in i + 1 .. Len(s) : s[j] \in S
      BY <1>1
    <2>2. /\ SubSeq(s, i + 1, Len(s)) \in Seq(S)
          /\ Len(SubSeq(s, i + 1, Len(s)))
                = IF i + 1 <= Len(s) THEN Len(s) - (i + 1) + 1 ELSE 0
          /\ \A j \in 1 .. Len(s) - (i + 1) + 1 :
                SubSeq(s, i + 1, Len(s))[j] = s[(i + 1) + j - 1]
      BY <2>1, SubSeqProperties
    <2>3. ASSUME NEW j \in 1 .. Len(s) - i PROVE b[j] = s[i + j]
      <3>1. j \in 1 .. Len(s) - (i + 1) + 1 /\ (i + 1) + j - 1 = i + j
        BY <1>1
      <3> QED BY <2>2, <3>1
    <2> QED BY <1>1, <2>2, <2>3
  <1>4. /\ a \o b \in Seq(S)
        /\ Range(a \o b) = Range(a) \cup Range(b)
    BY <1>2, <1>3, ConcatProperties, RangeConcatenation
  <1>5. DOMAIN a = 1 .. i - 1 /\ DOMAIN b = 1 .. Len(s) - i
    BY <1>2, <1>3, LenProperties
  <1>6. ASSUME NEW x PROVE x \in Range(s) <=> x \in Range(a) \cup Range(b) \cup {s[i]}
    <2>1. ASSUME NEW j \in 1 .. Len(s), x = s[j]
          PROVE  x \in Range(a) \cup Range(b) \cup {s[i]}
      <3>1. CASE j < i
        <4>1. j \in DOMAIN a /\ a[j] = x BY <1>1, <1>2, <1>5, <2>1, <3>1
        <4> QED BY <4>1 DEF Range
      <3>2. CASE j = i BY <2>1, <3>2
      <3>3. CASE j > i
        <4>1. j - i \in 1 .. Len(s) - i /\ i + (j - i) = j BY <1>1, <3>3
        <4>2. b[j - i] = x BY <1>3, <2>1, <4>1
        <4> QED BY <1>5, <4>1, <4>2 DEF Range
      <3> QED BY <1>1, <3>1, <3>2, <3>3
    <2>2. ASSUME NEW j \in DOMAIN a, x = a[j] PROVE x \in Range(s)
      BY <1>1, <1>2, <1>5, <2>2 DEF Range
    <2>3. ASSUME NEW j \in DOMAIN b, x = b[j] PROVE x \in Range(s)
      <3>1. i + j \in DOMAIN s /\ s[i + j] = x BY <1>1, <1>3, <1>5, <2>3
      <3> QED BY <3>1 DEF Range
    <2>4. s[i] \in Range(s) BY DEF Range
    <2> QED BY <1>1, <2>1, <2>2, <2>3, <2>4 DEF Range
  <1> QED BY <1>4, <1>6 DEF RemoveAt

-----------------------------------------------------------------------------
(* Counting threads by their program counter.                              *)

\* How many of the threads W are in one of the places C.
HowMany(W, at, C) == Cardinality({v \in W : at[v] \in C})

\* The number of threads at the places C is a natural number.
LEMMA CountType ==
    ASSUME NEW W, NEW at, NEW C, IsFiniteSet(W)
    PROVE  HowMany(W, at, C) \in Nat
  <1>1. IsFiniteSet({v \in W : at[v] \in C})
    BY FS_Subset
  <1> QED BY <1>1, FS_CardinalityType DEF HowMany

\* One thread moves: the number of threads in C changes by at most one.
LEMMA MoveCount ==
    ASSUME NEW W, NEW at, NEW bt, NEW w, NEW C,
           IsFiniteSet(W), w \in W, \A v \in W \ {w} : bt[v] = at[v]
    PROVE  /\ at[w] \in C /\ bt[w] \in C => HowMany(W, bt, C) = HowMany(W, at, C)
           /\ at[w] \notin C /\ bt[w] \notin C => HowMany(W, bt, C) = HowMany(W, at, C)
           /\ at[w] \in C /\ bt[w] \notin C => HowMany(W, bt, C) = HowMany(W, at, C) - 1
           /\ at[w] \notin C /\ bt[w] \in C => HowMany(W, bt, C) = HowMany(W, at, C) + 1
  <1> DEFINE S == {v \in W : at[v] \in C}
             T == {v \in W : bt[v] \in C}
  <1>1. IsFiniteSet(S) /\ IsFiniteSet(T)
    BY FS_Subset
  <1>3. ASSUME at[w] \in C <=> bt[w] \in C PROVE S = T
    BY <1>3
  <1>4. ASSUME at[w] \in C, bt[w] \notin C PROVE Cardinality(T) = Cardinality(S) - 1
    <2>1. T = S \ {w} /\ w \in S BY <1>4
    <2> QED BY <1>1, <2>1, FS_RemoveElement
  <1>5. ASSUME at[w] \notin C, bt[w] \in C PROVE Cardinality(T) = Cardinality(S) + 1
    <2>1. T = S \cup {w} /\ w \notin S BY <1>5
    <2> QED BY <1>1, <2>1, FS_AddElement
  <1> QED BY <1>3, <1>4, <1>5 DEF HowMany
=============================================================================

--------------------------- MODULE SequenceFacts ----------------------------
(***************************************************************************)
(* What the two operations on a channel or a log, appending at the end and *)
(* taking the head, do to the elements: the facts that the proofs of the   *)
(* components keep needing.                                                *)
(***************************************************************************)
EXTENDS Integers, Sequences, TLAPS

\* A sequence has its elements at 1 to its length.
LEMMA ElementFacts ==
    ASSUME NEW S, NEW s \in Seq(S)
    PROVE  Len(s) \in Nat /\ DOMAIN s = 1..Len(s) /\ \A i \in 1..Len(s) : s[i] \in S
  OBVIOUS

\* What Append does to the length and the elements of a sequence.
LEMMA AppendFacts ==
    ASSUME NEW S, NEW s \in Seq(S), NEW e \in S
    PROVE  /\ Append(s, e) \in Seq(S)
           /\ Len(Append(s, e)) = Len(s) + 1
           /\ DOMAIN Append(s, e) = DOMAIN s \cup {Len(s) + 1}
           /\ Len(s) + 1 \notin DOMAIN s
           /\ Append(s, e)[Len(s) + 1] = e
           /\ \A i \in DOMAIN s : i < Len(s) + 1 /\ Append(s, e)[i] = s[i]
  OBVIOUS

\* What taking the head of a nonempty sequence leaves.
LEMMA TailFacts ==
    ASSUME NEW S, NEW s \in Seq(S), s # <<>>
    PROVE  /\ Head(s) \in S /\ 1 \in DOMAIN s /\ Head(s) = s[1]
           /\ Tail(s) \in Seq(S) /\ Len(Tail(s)) = Len(s) - 1
           /\ \A i \in DOMAIN Tail(s) : i + 1 \in DOMAIN s /\ i + 1 # 1 /\ Tail(s)[i] = s[i + 1]
           /\ \A i \in DOMAIN s : i = 1 \/ (i - 1 \in DOMAIN Tail(s) /\ Tail(s)[i - 1] = s[i])
  OBVIOUS

\* What replacing the last element of a nonempty sequence leaves.
LEMMA ReplaceLastFacts ==
    ASSUME NEW S, NEW s \in Seq(S), s # <<>>, NEW e \in S
    PROVE  LET t == [s EXCEPT ![Len(s)] = e]
           IN  /\ t \in Seq(S) /\ Len(t) = Len(s) /\ Len(s) \in DOMAIN s /\ t[Len(s)] = e
               /\ \A i \in DOMAIN s : i # Len(s) => t[i] = s[i]
  OBVIOUS

\* What lies beyond the first n elements of a sequence grows with it.
LEMMA RestFacts ==
    ASSUME NEW S, NEW s \in Seq(S), NEW n \in Nat, n <= Len(s)
    PROVE  /\ SubSeq(s, n + 1, Len(s)) \in Seq(S)
           /\ Len(SubSeq(s, n + 1, Len(s))) = Len(s) - n
           /\ SubSeq(s, Len(s) + 1, Len(s)) = <<>>
           /\ \A e \in S : SubSeq(Append(s, e), n + 1, Len(Append(s, e)))
                              = Append(SubSeq(s, n + 1, Len(s)), e)
  <1> DEFINE r == SubSeq(s, n + 1, Len(s))
  <1>1. /\ Len(s) \in Nat /\ \A i \in 1..Len(s) : s[i] \in S
    OBVIOUS
  <1>2. /\ r \in Seq(S) /\ Len(r) = Len(s) - n
        /\ \A i \in 1..Len(s) - n : r[i] = s[n + i]
    BY <1>1
  <1>3. SubSeq(s, Len(s) + 1, Len(s)) = <<>>
    BY <1>1
  <1>4. ASSUME NEW e \in S
        PROVE  SubSeq(Append(s, e), n + 1, Len(Append(s, e))) = Append(r, e)
    <2> DEFINE a == Append(s, e)
               q == SubSeq(a, n + 1, Len(a))
               b == Append(r, e)
    <2>1. /\ a \in Seq(S) /\ Len(a) = Len(s) + 1 /\ a[Len(s) + 1] = e
          /\ \A i \in 1..Len(s) : a[i] = s[i]
      OBVIOUS
    <2>2. /\ q \in Seq(S) /\ Len(q) = Len(s) + 1 - n
          /\ \A i \in 1..Len(s) + 1 - n : q[i] = a[n + i]
      <3> HIDE DEF a
      <3> QED  BY <1>1, <2>1
    <2>3. /\ b \in Seq(S) /\ Len(b) = Len(s) - n + 1 /\ b[Len(s) - n + 1] = e
          /\ \A i \in 1..Len(s) - n : b[i] = r[i]
      <3> HIDE DEF r
      <3> QED  BY <1>1, <1>2
    <2> HIDE DEF a, q, b, r
    <2>4. \A i \in 1..Len(q) : q[i] = b[i]
      <3> SUFFICES ASSUME NEW i \in 1..Len(q) PROVE q[i] = b[i]
        OBVIOUS
      <3>1. i \in 1..Len(s) + 1 - n /\ q[i] = a[n + i]
        BY <2>2
      <3>2. CASE i = Len(s) - n + 1
        <4>1. n + i = Len(s) + 1
          BY <1>1, <3>2
        <4> QED  BY <2>1, <2>3, <3>1, <3>2, <4>1
      <3>3. CASE i # Len(s) - n + 1
        <4>1. i \in 1..Len(s) - n /\ n + i \in 1..Len(s)
          BY <1>1, <3>1, <3>3
        <4>2. r[i] = s[n + i] /\ a[n + i] = s[n + i] /\ b[i] = r[i]
          BY <1>2, <2>1, <2>3, <4>1
        <4> QED  BY <3>1, <4>2
      <3> QED  BY <3>2, <3>3
    <2>5. Len(q) = Len(b)
      BY <1>1, <2>2, <2>3
    <2>6. q = b
      BY <2>2, <2>3, <2>4, <2>5
    <2> QED  BY <2>6 DEF a, q, b
  <1> QED  BY <1>2, <1>3, <1>4
=============================================================================

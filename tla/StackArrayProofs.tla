--------------------------- MODULE StackArrayProofs ---------------------------
(***************************************************************************)
(* What storing at the counter and stepping back do to the sequence that   *)
(* an array holds.                                                         *)
(***************************************************************************)
EXTENDS StackArray, SequenceTheorems, TLAPS

\* What an array holds below a counter is a sequence of that length.
LEMMA HeldIsSeq ==
    ASSUME NEW S, Junk \in S, NEW f, \A i \in DOMAIN f : f[i] \in S, NEW n \in Nat
    PROVE  /\ Held(f, n) \in Seq(S)
           /\ Len(Held(f, n)) = n
           /\ \A i \in 1 .. n : i - 1 \in DOMAIN f => Held(f, n)[i] = f[i - 1]
<1>1. Held(f, n) \in [1 .. n -> S]
  BY DEF Held
<1>2. Held(f, n) \in Seq(S)
  BY <1>1, SeqDef
<1>3. 1 .. Len(Held(f, n)) = 1 .. n
  BY <1>1, <1>2, LenProperties
<1>4. Len(Held(f, n)) \in Nat
  BY <1>2, LenProperties
<1> HIDE DEF Held
<1>5. Len(Held(f, n)) = n
  BY <1>3, <1>4
<1> QED
  BY <1>2, <1>5 DEF Held

\* An array holds nothing below 0.
LEMMA HeldEmpty == ASSUME NEW f PROVE Held(f, 0) = <<>>
  BY DEF Held

\* A value stored at the counter is appended.
LEMMA StoreAppends ==
    ASSUME NEW S, Junk \in S, NEW f, \A i \in DOMAIN f : f[i] \in S,
           NEW n \in Nat, n \in DOMAIN f, NEW v \in S,
           NEW g, DOMAIN g = DOMAIN f, g[n] = v,
           \A i \in DOMAIN f : i # n => g[i] = f[i]
    PROVE  Held(g, n + 1) = Append(Held(f, n), v)
<1>1. (\A i \in DOMAIN g : g[i] \in S) /\ n + 1 \in Nat
  OBVIOUS
<1>3. /\ Held(f, n) \in Seq(S)
      /\ Len(Held(f, n)) = n
  BY HeldIsSeq
<1>4. /\ Append(Held(f, n), v) \in Seq(S)
      /\ Len(Append(Held(f, n), v)) = n + 1
      /\ \A i \in 1 .. n : Append(Held(f, n), v)[i] = Held(f, n)[i]
      /\ Append(Held(f, n), v)[n + 1] = v
  BY <1>3, AppendProperties
<1>5. /\ Held(g, n + 1) \in Seq(S)
      /\ Len(Held(g, n + 1)) = n + 1
  BY <1>1, HeldIsSeq
<1>6. ASSUME NEW i \in 1 .. n + 1
      PROVE  Held(g, n + 1)[i] = Append(Held(f, n), v)[i]
  <2>1. CASE i = n + 1
    BY <1>1, <1>4, <2>1 DEF Held
  <2>2. CASE i # n + 1
    <3>1. i \in 1 .. n /\ i - 1 # n
      BY <2>2
    <3>2. Held(g, n + 1)[i] = Held(f, n)[i]
      BY <3>1 DEF Held
    <3> QED
      BY <3>1, <3>2, <1>4
  <2> QED
    BY <2>1, <2>2
<1> QED
  BY <1>4, <1>5, <1>6, SeqEqual

\* Stepping back drops the value pushed last.
LEMMA PopShortens ==
    ASSUME NEW S, Junk \in S, NEW f, \A i \in DOMAIN f : f[i] \in S,
           NEW n \in Nat, n > 0
    PROVE  /\ Held(f, n) # <<>>
           /\ Held(f, n - 1) = SubSeq(Held(f, n), 1, Len(Held(f, n)) - 1)
<1>0. n - 1 \in Nat
  OBVIOUS
<1>a. Held(f, n) \in Seq(S) /\ Len(Held(f, n)) = n
  BY HeldIsSeq
<1>b. Held(f, n - 1) \in Seq(S) /\ Len(Held(f, n - 1)) = n - 1
  BY <1>0, HeldIsSeq
<1>1. /\ Held(f, n) \in Seq(S)
      /\ Len(Held(f, n)) = n
      /\ Held(f, n - 1) \in Seq(S)
      /\ Len(Held(f, n - 1)) = n - 1
  BY <1>a, <1>b
<1>2. \A i \in 1 .. n : Held(f, n)[i] \in S
  BY <1>1, ElementOfSeq
<1>3. /\ SubSeq(Held(f, n), 1, n - 1) \in Seq(S)
      /\ Len(SubSeq(Held(f, n), 1, n - 1)) = n - 1
      /\ \A i \in 1 .. n - 1 : SubSeq(Held(f, n), 1, n - 1)[i] = Held(f, n)[i]
  BY <1>2, SubSeqProperties
<1>4. \A i \in 1 .. n - 1 : Held(f, n - 1)[i] = Held(f, n)[i]
  BY DEF Held
<1>5. Held(f, n - 1) = SubSeq(Held(f, n), 1, n - 1)
  BY <1>1, <1>3, <1>4, SeqEqual
<1> QED
  BY <1>1, <1>5, EmptySeq

\* The value at the top is the last of the sequence.
LEMMA TopIsLast ==
    ASSUME NEW S, Junk \in S, NEW f, \A i \in DOMAIN f : f[i] \in S,
           NEW n \in Nat, n > 0, n - 1 \in DOMAIN f, NEW v \in Readable(f, n - 1)
    PROVE  v = Held(f, n)[Len(Held(f, n))]
<1>1. Len(Held(f, n)) = n
  BY HeldIsSeq
<1> QED
  BY <1>1 DEF Held, Readable
===============================================================================

--------------------------- MODULE SymbolTableProofs ---------------------------
(***************************************************************************)
(* Proofs about SymbolTable: for any program that a transformation may be  *)
(* given, both transformations declare what they use exactly once, no      *)
(* assertion of the table fails, and the clearing leaves at most one name. *)
(***************************************************************************)
EXTENDS SymbolTable, FiniteSetTheorems, SequenceTheorems, WellFoundedInduction, TLAPS

Name == Seq(Nat) \ {End}

(* Names are equal up to position i, where m ends or has a smaller number. *)
Diverge(m, n, i) ==
  /\ i \in 1..Len(n)
  /\ i = Len(m) + 1 \/ (i \in 1..Len(m) /\ m[i] < n[i])
  /\ \A j \in 1..(i - 1) : m[j] = n[j]

LEMMA SamePrefix ==
  ASSUME NEW m \in Seq(Nat), NEW n \in Seq(Nat), NEW k \in Nat, k <= Len(m), k <= Len(n)
  PROVE  SubSeq(m, 1, k) = SubSeq(n, 1, k) <=> \A j \in 1..k : m[j] = n[j]
<1>1. /\ SubSeq(m, 1, k) \in Seq(Nat) /\ Len(SubSeq(m, 1, k)) = k
      /\ \A j \in 1..k : SubSeq(m, 1, k)[j] = m[j]
  OBVIOUS
<1>2. /\ SubSeq(n, 1, k) \in Seq(Nat) /\ Len(SubSeq(n, 1, k)) = k
      /\ \A j \in 1..k : SubSeq(n, 1, k)[j] = n[j]
  OBVIOUS
<1>3. ASSUME \A j \in 1..k : m[j] = n[j]
      PROVE  SubSeq(m, 1, k) = SubSeq(n, 1, k)
  BY <1>1, <1>2, <1>3
<1> QED BY <1>1, <1>2, <1>3

LEMMA BeforeDiverge ==
  ASSUME NEW m \in Seq(Nat), NEW n \in Seq(Nat)
  PROVE  Before(m, n) <=> \E i \in Nat : Diverge(m, n, i)
<1>0. Len(m) \in Nat /\ Len(n) \in Nat
  OBVIOUS
<1>1. ASSUME Len(m) < Len(n), SubSeq(n, 1, Len(m)) = m
      PROVE  Diverge(m, n, Len(m) + 1)
  <2>1. \A j \in 1..Len(m) : SubSeq(n, 1, Len(m))[j] = n[j]
    BY <1>0, <1>1
  <2> QED BY <1>0, <1>1, <2>1 DEF Diverge
<1>2. ASSUME NEW i \in 1..Len(m), i <= Len(n), m[i] < n[i],
             SubSeq(m, 1, i - 1) = SubSeq(n, 1, i - 1)
      PROVE  Diverge(m, n, i)
  <2>1. i - 1 \in Nat /\ i - 1 <= Len(m) /\ i - 1 <= Len(n)
    BY <1>0, <1>2
  <2>2. \A j \in 1..(i - 1) : m[j] = n[j]
    BY <1>2, <2>1, SamePrefix
  <2> QED BY <1>0, <1>2, <2>2 DEF Diverge
<1>3. ASSUME NEW i \in Nat, Diverge(m, n, i)
      PROVE  Before(m, n)
  <2>1. i - 1 \in Nat /\ i - 1 <= Len(n) /\ i - 1 <= Len(m)
    BY <1>0, <1>3 DEF Diverge
  <2>2. SubSeq(m, 1, i - 1) = SubSeq(n, 1, i - 1)
    BY <1>3, <2>1, SamePrefix DEF Diverge
  <2>3. CASE i = Len(m) + 1
    <3>1. SubSeq(m, 1, Len(m)) = m
      OBVIOUS
    <3>2. SubSeq(n, 1, Len(m)) = m
      BY <1>0, <2>2, <2>3, <3>1
    <3>3. Len(m) < Len(n)
      BY <1>0, <1>3, <2>3 DEF Diverge
    <3> QED BY <3>2, <3>3 DEF Before
  <2>4. CASE i \in 1..Len(m) /\ m[i] < n[i]
    <3>1. i <= Len(n)
      BY <1>0, <1>3 DEF Diverge
    <3> QED BY <2>2, <2>4, <3>1 DEF Before
  <2> QED BY <1>3, <2>3, <2>4 DEF Diverge
<1>4. ASSUME Before(m, n)
      PROVE  \E i \in Nat : Diverge(m, n, i)
  <2>1. CASE Len(m) < Len(n) /\ SubSeq(n, 1, Len(m)) = m
    BY <1>0, <1>1, <2>1
  <2>2. CASE \E i \in 1..Len(m) : /\ i <= Len(n) /\ m[i] < n[i]
                                  /\ SubSeq(m, 1, i - 1) = SubSeq(n, 1, i - 1)
    BY <1>0, <1>2, <2>2
  <2> QED BY <1>4, <2>1, <2>2 DEF Before
<1> QED BY <1>3, <1>4

(* The order of names is that of a dictionary. *)
LEMMA BeforeIrreflexive ==
  ASSUME NEW m \in Seq(Nat)
  PROVE  ~Before(m, m)
<1> SUFFICES ASSUME NEW i \in Nat, Diverge(m, m, i)
             PROVE  FALSE
  BY BeforeDiverge
<1>1. Len(m) \in Nat
  OBVIOUS
<1>2. i \in 1..Len(m) /\ m[i] < m[i]
  BY <1>1 DEF Diverge
<1>3. m[i] \in Nat
  BY <1>2
<1> QED BY <1>2, <1>3

LEMMA BeforeTransitive ==
  ASSUME NEW m \in Seq(Nat), NEW n \in Seq(Nat), NEW p \in Seq(Nat),
         Before(m, n), Before(n, p)
  PROVE  Before(m, p)
<1>0. Len(m) \in Nat /\ Len(n) \in Nat /\ Len(p) \in Nat
  OBVIOUS
<1>1. PICK i \in Nat : Diverge(m, n, i)
  BY BeforeDiverge
<1>2. PICK k \in Nat : Diverge(n, p, k)
  BY BeforeDiverge
<1>3. /\ \A j \in 1..Len(m) : m[j] \in Nat
      /\ \A j \in 1..Len(n) : n[j] \in Nat
      /\ \A j \in 1..Len(p) : p[j] \in Nat
  OBVIOUS
<1>4. CASE i < k
  <2>1. i \in 1..Len(p) /\ n[i] = p[i] /\ \A j \in 1..(i - 1) : m[j] = p[j]
    BY <1>0, <1>1, <1>2, <1>4 DEF Diverge
  <2> QED BY <1>1, <2>1, BeforeDiverge DEF Diverge
<1>5. CASE k < i
  <2>0. k # 0 /\ i <= Len(m) + 1 /\ i <= Len(n)
    BY <1>0, <1>1, <1>2 DEF Diverge
  <2>1. /\ k \in 1..Len(p) /\ k \in 1..Len(m) /\ k \in 1..Len(n) /\ m[k] = n[k]
        /\ \A j \in 1..(k - 1) : m[j] = p[j]
    <3>1. k \in 1..Len(p) /\ k \in 1..Len(m) /\ k \in 1..Len(n) /\ k \in 1..(i - 1)
      BY <1>0, <1>2, <1>5, <2>0 DEF Diverge
    <3>2. \A j \in 1..(k - 1) : j \in 1..(i - 1)
      BY <1>5
    <3> QED BY <1>1, <1>2, <3>1, <3>2 DEF Diverge
  <2>2. n[k] < p[k]
    BY <1>0, <1>2, <2>1 DEF Diverge
  <2>3. Diverge(m, p, k)
    BY <2>1, <2>2 DEF Diverge
  <2> QED BY <2>3, BeforeDiverge
<1>6. CASE i = k
  <2>1. i \in 1..Len(n) /\ i \in 1..Len(p) /\ n[i] < p[i] /\ \A j \in 1..(i - 1) : m[j] = p[j]
    BY <1>0, <1>1, <1>2, <1>6 DEF Diverge
  <2>2. ASSUME i \in 1..Len(m), m[i] < n[i]
        PROVE  m[i] < p[i]
    <3>1. m[i] \in Nat /\ n[i] \in Nat /\ p[i] \in Nat
      BY <1>3, <2>1, <2>2
    <3> QED BY <2>1, <2>2, <3>1
  <2>3. Diverge(m, p, i)
    BY <1>1, <2>1, <2>2 DEF Diverge
  <2> QED BY <2>3, BeforeDiverge
<1> QED BY <1>4, <1>5, <1>6

(* A set of numbers that is not empty has a least one. *)
LEMMA LeastNumber ==
  ASSUME NEW S, S \subseteq Nat, S # {}
  PROVE  \E m \in S : \A r \in S : m <= r
<1>1. PICK m \in S : \A r \in S : ~(<<r, m>> \in OpToRel(<, Nat))
  BY WFMin, NatLessThanWellFounded, Zenon
<1>2. ASSUME NEW r \in S
      PROVE  m <= r
  <2>1. r \in Nat /\ m \in Nat
    OBVIOUS
  <2>2. ~(r < m)
    BY <1>1, <2>1 DEF OpToRel
  <2> QED BY <2>1, <2>2
<1> QED BY <1>2

LEMMA BeforeTotal ==
  ASSUME NEW m \in Seq(Nat), NEW n \in Seq(Nat), m # n
  PROVE  Before(m, n) \/ Before(n, m)
<1>0. Len(m) \in Nat /\ Len(n) \in Nat
  OBVIOUS
<1> DEFINE D == { i \in Nat \ {0} : i > Len(m) \/ i > Len(n) \/ m[i] # n[i] }
<1>1. Len(m) + 1 \in D
  BY <1>0
<1>2. D \subseteq Nat /\ D # {}
  BY <1>1
<1>3. PICK i \in D : \A r \in D : i <= r
  <2> HIDE DEF D
  <2> QED BY <1>2, LeastNumber
<1>4. i \in Nat /\ i # 0
  OBVIOUS
<1>5. ASSUME NEW j \in 1..(i - 1)
      PROVE  j \in 1..Len(m) /\ j \in 1..Len(n) /\ m[j] = n[j]
  <2>1. j \in Nat /\ j # 0 /\ ~(i <= j)
    BY <1>4
  <2>2. j \notin D
    BY <1>3, <2>1
  <2> QED BY <1>0, <2>1, <2>2
<1>6. i <= Len(m) + 1 /\ i <= Len(n) + 1
  <2>1. Len(n) + 1 \in D
    BY <1>0
  <2> QED BY <1>1, <1>3, <2>1
<1>7. CASE i \in 1..Len(m) /\ i \in 1..Len(n)
  <2>1. m[i] # n[i] /\ m[i] \in Nat /\ n[i] \in Nat
    BY <1>0, <1>7
  <2>2. m[i] < n[i] \/ n[i] < m[i]
    BY <2>1
  <2>3. Diverge(m, n, i) \/ Diverge(n, m, i)
    BY <1>5, <1>7, <2>2 DEF Diverge
  <2> QED BY <1>4, <2>3, BeforeDiverge
<1>8. CASE i = Len(m) + 1 /\ i \in 1..Len(n)
  <2>1. Diverge(m, n, i)
    BY <1>5, <1>8 DEF Diverge
  <2> QED BY <1>4, <2>1, BeforeDiverge
<1>9. CASE i = Len(n) + 1 /\ i \in 1..Len(m)
  <2>1. Diverge(n, m, i)
    BY <1>5, <1>9 DEF Diverge
  <2> QED BY <1>4, <2>1, BeforeDiverge
<1>10. CASE i = Len(m) + 1 /\ i = Len(n) + 1
  <2>1. Len(m) = Len(n) /\ \A j \in 1..Len(m) : m[j] = n[j]
    BY <1>0, <1>5, <1>10
  <2>2. m = n
    <3>1. m = [j \in 1..Len(m) |-> m[j]] /\ n = [j \in 1..Len(n) |-> n[j]]
      OBVIOUS
    <3> QED BY <2>1, <3>1
  <2> QED BY <2>2
<1> QED BY <1>0, <1>4, <1>6, <1>7, <1>8, <1>9, <1>10

(* A finite set of names has a first one, and no other. *)
LEMMA FirstExists ==
  ASSUME NEW S, IsFiniteSet(S), S \subseteq Seq(Nat), S # {}
  PROVE  \E m \in S : IsFirst(m, S)
<1> DEFINE Below(m) == { n \in S : Before(n, m) }
           Sizes == { Cardinality(Below(m)) : m \in S }
<1>1. \A m \in S : IsFiniteSet(Below(m)) /\ Cardinality(Below(m)) \in Nat
  <2> SUFFICES ASSUME NEW m \in S
               PROVE  IsFiniteSet(Below(m)) /\ Cardinality(Below(m)) \in Nat
    OBVIOUS
  <2>1. Below(m) \in SUBSET S
    OBVIOUS
  <2> HIDE DEF Below
  <2> QED BY <2>1, FS_Subset, FS_CardinalityType
<1>2. Sizes \subseteq Nat /\ Sizes # {}
  BY <1>1
<1>3. PICK c \in Sizes : \A r \in Sizes : c <= r
  <2> HIDE DEF Sizes
  <2> QED BY <1>2, LeastNumber
<1>4. PICK m \in S : c = Cardinality(Below(m))
  OBVIOUS
<1>5. ASSUME NEW n \in S, Before(n, m)
      PROVE  FALSE
  <2>1. n \in Below(m) /\ n \notin Below(n)
    BY <1>5, BeforeIrreflexive
  <2>2. Below(n) \in SUBSET Below(m)
    BY <1>5, BeforeTransitive
  <2>3. Cardinality(Below(m)) <= Cardinality(Below(n))
    BY <1>3, <1>4
  <2>4. /\ IsFiniteSet(Below(m)) /\ Cardinality(Below(m)) \in Nat
        /\ Cardinality(Below(n)) \in Nat
    BY <1>1
  <2> HIDE DEF Below, Sizes
  <2>5. /\ Cardinality(Below(n)) <= Cardinality(Below(m))
        /\ Cardinality(Below(m)) = Cardinality(Below(n)) => Below(m) = Below(n)
    BY <2>2, <2>4, FS_Subset
  <2> QED BY <2>1, <2>3, <2>4, <2>5
<1>6. \A n \in S \ {m} : Before(m, n)
  BY <1>5, BeforeTotal
<1> QED BY <1>6 DEF IsFirst

LEMMA FirstUnique ==
  ASSUME NEW S, S \subseteq Seq(Nat), NEW m, NEW n, IsFirst(m, S), IsFirst(n, S)
  PROVE  m = n
<1> SUFFICES ASSUME m # n
             PROVE  FALSE
  OBVIOUS
<1>1. m \in Seq(Nat) /\ n \in Seq(Nat) /\ Before(m, n) /\ Before(n, m)
  BY DEF IsFirst
<1>2. Before(m, m)
  BY <1>1, BeforeTransitive
<1> QED BY <1>1, <1>2, BeforeIrreflexive

LEMMA FirstIs ==
  ASSUME NEW S, IsFiniteSet(S), S \subseteq Seq(Nat), S # {}
  PROVE  IsFirst(First(S), S)
<1>1. \E m \in S : \A n \in S \ {m} : Before(m, n)
  BY FirstExists DEF IsFirst
<1> QED BY <1>1 DEF First, IsFirst

(* What the increment of an iterator finds. *)
LEMMA AfterIs ==
  ASSUME NEW S, IsFiniteSet(S), S \subseteq Seq(Nat), NEW m \in Seq(Nat)
  PROVE  \/ After(S, m) = End /\ \A n \in S : ~Before(m, n)
         \/ /\ After(S, m) \in S /\ Before(m, After(S, m))
            /\ \A n \in S : Before(m, n) /\ n # After(S, m) => Before(After(S, m), n)
<1> DEFINE T == { n \in S : Before(m, n) }
<1>1. T \in SUBSET S
  OBVIOUS
<1>2. CASE T = {}
  BY <1>2 DEF After, First
<1>3. CASE T # {}
  <2>1. IsFiniteSet(T) /\ T \subseteq Seq(Nat)
    <3> HIDE DEF T
    <3> QED BY <1>1, FS_Subset
  <2>2. IsFirst(First(T), T)
    <3> HIDE DEF T
    <3> QED BY <1>3, <2>1, FirstIs
  <2>3. After(S, m) = First(T)
    BY DEF After
  <2> QED BY <2>2, <2>3 DEF IsFirst
<1> QED BY <1>2, <1>3

(* What is known of the program and of the order of its names once it has  *)
(* been parsed.                                                            *)
LEMMA ProgramFacts ==
  ASSUME TableTyped
  PROVE  /\ program.floats \subseteq Symbols /\ Symbols # {} /\ program.floats # {}
         /\ IsFiniteSet(Symbols)
         /\ Symbols \cap program.counters = {}
         /\ program.lengths \in Seq(Nat)
         /\ \A n \in Symbols \cup program.counters :
              n \in Seq(Nat) /\ n # End /\ WellPrefixed(n) /\ OrderOf(n) < 9
         /\ \A n \in program.counters : Len(n) = 1
<1>1. program \in Programs
  BY DEF TableTyped
<1>2. program.floats # {} /\ IsFiniteSet(Symbols) /\ Symbols \cap program.counters = {}
  BY <1>1, ProgramsAssumption DEF Symbols
<1>3. program.lengths \in Seq(Nat)
  BY <1>1, ProgramsAssumption
<1>4. \A n \in Symbols \cup program.counters :
        n \in Seq(Nat) /\ n # End /\ WellPrefixed(n) /\ OrderOf(n) < 9
  BY <1>1, ProgramsAssumption, Zenon DEF Symbols
<1>5. \A n \in program.counters : Len(n) = 1
  BY <1>1, ProgramsAssumption
<1>6. program.floats \subseteq Symbols
  BY DEF Symbols
<1>7. Symbols # {}
  BY <1>2, <1>6
<1> QED BY <1>2, <1>3, <1>4, <1>5, <1>6, <1>7

LEMMA OrderIsNatural ==
  ASSUME NEW n \in Seq(Nat)
  PROVE  OrderOf(n) \in Nat
<1>1. CASE Len(n) > 1
  <2>1. n[1] \in Nat
    BY <1>1
  <2>2. n[1] % 100 \in Nat
    BY <2>1
  <2> QED BY <1>1, <2>2 DEF OrderOf
<1> QED BY <1>1 DEF OrderOf

LEMMA OrderFacts ==
  ASSUME TableTyped, OrderKnown, phase # "parse"
  PROVE  /\ order \in 0..8
         /\ \A n \in Symbols : OrderOf(n) <= order
         /\ \A i \in Nat : (\E k \in DOMAIN lengths : i < lengths[k]) =>
              Intermediate(i) \notin Symbols \cup program.counters
<1>1. Known = Symbols
  BY DEF Known
<1>2. \A n \in Symbols : OrderOf(n) \in Nat /\ OrderOf(n) < 9
  BY ProgramFacts, OrderIsNatural
<1>3. order # -1
  BY <1>1, <1>2, ProgramFacts DEF OrderKnown
<1>4. PICK m \in Symbols : OrderOf(m) = order
  BY <1>1, <1>3 DEF OrderKnown
<1>5. \A n \in Symbols : OrderOf(n) <= OrderOf(m)
  BY <1>1, <1>4 DEF OrderKnown
<1>6. ASSUME NEW i \in Nat, NEW k \in DOMAIN lengths, i < lengths[k]
      PROVE  Intermediate(i) \notin Symbols \cup program.counters
  <2>1. PICK l \in DOMAIN program.lengths : lengths[k] = program.lengths[l]
    BY DEF TableTyped
  <2>2. program.lengths[l] \in Nat
    BY ProgramFacts
  <2>3. i \in 0 .. program.lengths[l] - 1
    BY <1>6, <2>1, <2>2
  <2>4. \A l2 \in DOMAIN program.lengths : \A i2 \in 0 .. program.lengths[l2] - 1 :
          <<300 + 10 * i2 + OrderOf(m)>> \notin Symbols \cup program.counters
    BY <1>4, <1>5, ProgramsAssumption DEF TableTyped, Symbols
  <2> QED BY <1>4, <2>3, <2>4 DEF Intermediate
<1> QED BY <1>1, <1>2, <1>4, <1>5, <1>6

(* The name of a derivative. *)
LEMMA Prefixed ==
  ASSUME NEW n \in Seq(Nat), n # End, NEW k, k \in Nat, NEW d, d = <<k>> \o n
  PROVE  /\ d \in Seq(Nat) /\ d # End /\ Len(d) = Len(n) + 1 /\ Len(n) \in Nat \ {0}
         /\ d[1] = k /\ \A j \in 2..Len(d) : d[j] = n[j - 1]
<1>1. Len(n) \in Nat /\ Len(n) # 0
  BY EmptySeq DEF End
<1>2. <<k>> \in Seq(Nat) /\ Len(<<k>>) = 1 /\ <<k>>[1] = k
  OBVIOUS
<1>3. /\ d \in Seq(Nat) /\ Len(d) = 1 + Len(n)
      /\ \A j \in 1..Len(d) : d[j] = IF j <= 1 THEN <<k>>[j] ELSE n[j - 1]
  BY <1>2, ConcatProperties
<1>4. d # End
  BY <1>1, <1>3, EmptySeq DEF End
<1>5. d[1] = k /\ \A j \in 2..Len(d) : d[j] = n[j - 1]
  BY <1>1, <1>2, <1>3
<1> QED BY <1>1, <1>3, <1>4, <1>5

LEMMA PrefixInjective ==
  ASSUME NEW m \in Seq(Nat), NEW n \in Seq(Nat), m # End, n # End, NEW k \in Nat,
         <<k>> \o m = <<k>> \o n
  PROVE  m = n
<1>1. PICK d : d = <<k>> \o m /\ d = <<k>> \o n
  OBVIOUS
<1>2. /\ Len(d) = Len(m) + 1 /\ Len(d) = Len(n) + 1 /\ Len(m) \in Nat /\ Len(n) \in Nat
      /\ \A j \in 2..Len(d) : d[j] = m[j - 1]
      /\ \A j \in 2..Len(d) : d[j] = n[j - 1]
  BY <1>1, Prefixed
<1>3. ASSUME NEW j \in 1..Len(m)
      PROVE  m[j] = n[j]
  <2>1. j + 1 \in 2..Len(d) /\ (j + 1) - 1 = j
    BY <1>2
  <2> QED BY <1>2, <2>1
<1> QED BY <1>2, <1>3, SeqEqual

(* The prefixes that the transformations make. *)
LEMMA PrefixFacts ==
  ASSUME NEW o \in 0..8, NEW k \in {TlPrefix(o + 1), AdjPrefix(o + 1)}
  PROVE  k \in Nat /\ k < 300 /\ k % 100 = o + 1
<1>1. CASE k = TlPrefix(o + 1)
  <2>1. k = 201 + o
    BY <1>1 DEF TlPrefix
  <2> QED BY <2>1
<1>2. CASE k = AdjPrefix(o + 1)
  <2>1. k = 101 + o
    BY <1>2 DEF AdjPrefix
  <2> QED BY <2>1
<1> QED BY <1>1, <1>2

(* The derivative of a symbol or an intermediate is a proper name, and one *)
(* that the program does not have.                                         *)
LEMMA DerivativeFacts ==
  ASSUME TableTyped, OrderKnown, phase # "parse",
         NEW n \in Seq(Nat), n # End, n \in Symbols \/ Len(n) = 1,
         NEW k, k \in {TlPrefix(order + 1), AdjPrefix(order + 1)},
         NEW d, d = <<k>> \o n
  PROVE  /\ d \in Seq(Nat) /\ d # End /\ Len(d) > 1 /\ d[1] = k
         /\ WellPrefixed(d) /\ d \notin Symbols \cup program.counters
         /\ Len(n) = 1 => Before(d, n) \/ n[1] < 300
<1>0. PICK o \in 0..8 : order = o
  BY OrderFacts
<1>1. \A m \in Symbols : OrderOf(m) <= o
  BY <1>0, OrderFacts
<1>2. k \in Nat /\ k % 100 = o + 1 /\ k < 300
  <2>1. k \in {TlPrefix(o + 1), AdjPrefix(o + 1)}
    BY <1>0
  <2> QED BY <2>1, PrefixFacts
<1>3. /\ d \in Seq(Nat) /\ d # End /\ Len(d) = Len(n) + 1 /\ Len(n) \in Nat \ {0}
      /\ d[1] = k /\ \A j \in 2..Len(d) : d[j] = n[j - 1]
  <2>1. k \in Nat
    BY <1>2
  <2>2. d \in Seq(Nat)
    BY <2>1, Prefixed
  <2>3. d # End
    BY <2>1, Prefixed
  <2>4. Len(d) = Len(n) + 1 /\ Len(n) \in Nat \ {0}
    BY <2>1, Prefixed
  <2>5. d[1] = k
    BY <2>1, Prefixed
  <2>6. \A j \in 2..Len(d) : d[j] = n[j - 1]
    BY <2>1, Prefixed
  <2> QED BY <2>2, <2>3, <2>4, <2>5, <2>6
<1>4. OrderOf(d) = o + 1
  BY <1>2, <1>3 DEF OrderOf
<1>5. d \notin Symbols
  BY <1>1, <1>4
<1>6. d \notin program.counters
  <2>1. \A c \in program.counters : Len(c) = 1
    BY ProgramFacts
  <2>2. Len(d) # 1
    BY <1>3
  <2> QED BY <2>1, <2>2
<1>7. WellPrefixed(d)
  <2> SUFFICES ASSUME NEW i \in 2..Len(d) - 1
               PROVE  d[i] % 100 < d[1] % 100
    BY DEF WellPrefixed
  <2>0. i \in 2..Len(d) /\ i - 1 \in 1..Len(n) - 1 /\ Len(n) > 1
    BY <1>3
  <2>1. d[i] = n[i - 1] /\ n \in Symbols
    <3>1. d[i] = n[i - 1]
      BY <1>3, <2>0
    <3>2. Len(n) # 1
      BY <2>0
    <3> QED BY <3>1, <3>2
  <2>2. n[1] % 100 <= o
    <3>1. OrderOf(n) <= o
      BY <1>1, <2>1
    <3> QED BY <2>0, <3>1 DEF OrderOf
  <2>3. /\ n[1] \in Nat /\ n[i - 1] \in Nat
        /\ n[1] % 100 \in Int /\ n[i - 1] % 100 \in Int
    BY <2>0
  <2>4. n[i - 1] % 100 <= n[1] % 100
    <3>1. CASE i - 1 = 1
      BY <2>3, <3>1
    <3>2. CASE i - 1 # 1
      <4>1. i - 1 \in 2..Len(n) - 1
        BY <2>0, <3>2
      <4>2. n[i - 1] % 100 < n[1] % 100
        BY <2>1, <4>1, ProgramFacts DEF WellPrefixed
      <4> QED BY <2>3, <4>2
    <3> QED BY <3>1, <3>2
  <2>5. d[i] % 100 = n[i - 1] % 100 /\ d[1] % 100 = o + 1
    BY <1>2, <1>3, <2>1
  <2> QED BY <2>2, <2>3, <2>4, <2>5
<1>8. ASSUME Len(n) = 1, ~(n[1] < 300)
      PROVE  Before(d, n)
  <2>1. n[1] \in Nat /\ d[1] < n[1]
    BY <1>2, <1>3, <1>8
  <2>2. Diverge(d, n, 1)
    BY <1>3, <1>8, <2>1 DEF Diverge
  <2> QED BY <1>3, <2>2, BeforeDiverge
<1> QED BY <1>3, <1>5, <1>6, <1>7, <1>8

-------------------------------------------------------------------------------
(* The invariant of the table *)

LEMMA InsertedFacts ==
  ASSUME NEW t, NEW n, NEW role
  PROVE  /\ DOMAIN Inserted(t, n, role) = DOMAIN t \cup {n}
         /\ \A m \in DOMAIN t : Inserted(t, n, role)[m] = t[m]
         /\ n \notin DOMAIN t => Inserted(t, n, role)[n] = role
         /\ Inserted(t, n, role) = [m \in DOMAIN t \cup {n} |-> Inserted(t, n, role)[m]]
BY DEF Inserted

(* Declaring new names keeps the declarations single. *)
LEMMA DeclareFacts ==
  ASSUME NEW bag, NEW names, \A n \in DOMAIN bag : bag[n] = 1, names \cap DOMAIN bag = {}
  PROVE  /\ DOMAIN Declare(bag, names) = DOMAIN bag \cup names
         /\ \A n \in DOMAIN bag \cup names : Declare(bag, names)[n] = 1
BY DEF Declare

(* A set of names stays finite and typed when a name enters it. *)
LEMMA InsertedTyped ==
  ASSUME NEW t, NEW n \in Seq(Nat), n # End,
         NEW role \in {"ordinary", "derivative", "intermediate"},
         IsFiniteSet(DOMAIN t),
         t \in [DOMAIN t -> {"ordinary", "derivative", "intermediate"}],
         \A m \in DOMAIN t : m \in Seq(Nat) /\ m # End,
         NEW u, u = Inserted(t, n, role)
  PROVE  /\ IsFiniteSet(DOMAIN u)
         /\ u \in [DOMAIN u -> {"ordinary", "derivative", "intermediate"}]
         /\ \A m \in DOMAIN u : m \in Seq(Nat) /\ m # End
<1>1. DOMAIN u = DOMAIN t \cup {n}
  BY InsertedFacts
<1>2. IsFiniteSet(DOMAIN u)
  BY <1>1, FS_AddElement
<1>3. u \in [DOMAIN u -> {"ordinary", "derivative", "intermediate"}]
  BY <1>1 DEF Inserted
<1> QED BY <1>1, <1>2, <1>3

LEMMA InitTable == Init => TableInv
<1> SUFFICES ASSUME Init PROVE TableInv
  OBVIOUS
<1>1. Known = {} /\ DOMAIN table = {} /\ DOMAIN declared = {} /\ lengths \in Seq(Nat)
      /\ DOMAIN lengths = {}
  BY DEF Init, Known, Symbols
<1>2. TableTyped
  <2>1. IsFiniteSet(DOMAIN table) /\ table \in [DOMAIN table -> {"ordinary", "derivative", "intermediate"}]
    BY <1>1, FS_EmptySet DEF Init
  <2> QED BY <1>1, <2>1 DEF Init, TableTyped, Symbols
<1> QED BY <1>1, <1>2 DEF Init, TableInv, OrderKnown, SymbolsKept, TangentNames, Clearing,
        InOutput, NeverFails, DeclaredOnce

LEMMA ParseDeclarationInv ==
  ASSUME TableInv, NEW n \in pending, ParseDeclaration(n)
  PROVE  TableInv'
<1> USE DEF TableInv
<1>1. /\ phase = "parse" /\ phase' = "parse" /\ program' = program /\ it' = it
      /\ pending' = pending \ {n} /\ table' = Inserted(table, n, "ordinary")
      /\ following' = following /\ lengths' = lengths /\ count' = count
      /\ declared' = declared /\ used' = used /\ order' = Raised(n, "ordinary")
      /\ failed' = Rejected(n, "ordinary")
  BY DEF ParseDeclaration
<1>2. n \in Symbols /\ n \in Seq(Nat) /\ n # End /\ WellPrefixed(n)
  BY <1>1, ProgramFacts DEF TableTyped
<1>3. Symbols' = Symbols /\ Known' = Known \cup {n} /\ n \notin DOMAIN table
  BY <1>1, <1>2 DEF Symbols, Known, SymbolsKept
<1>4. /\ DOMAIN table' = DOMAIN table \cup {n} /\ table'[n] = "ordinary"
      /\ \A m \in DOMAIN table : table'[m] = table[m]
  <2>1. DOMAIN table' = DOMAIN table \cup {n}
    BY <1>1, InsertedFacts
  <2>2. \A m \in DOMAIN table : table'[m] = table[m]
    BY <1>1 DEF Inserted
  <2>3. table'[n] = "ordinary"
    BY <1>1, <1>3, InsertedFacts
  <2> QED BY <2>1, <2>2, <2>3
<1>5. TableTyped'
  <2>1. /\ IsFiniteSet(DOMAIN table')
        /\ table' \in [DOMAIN table' -> {"ordinary", "derivative", "intermediate"}]
        /\ \A m \in DOMAIN table' : m \in Seq(Nat) /\ m # End
    BY <1>1, <1>2, InsertedTyped DEF TableTyped
  <2> QED BY <1>1, <1>3, <2>1 DEF TableTyped
<1>6. OrderKnown'
  <2>1. OrderOf(n) \in Nat /\ order \in Int /\ \A m \in Known : OrderOf(m) \in Nat
    <3>1. \A m \in Known : m \in Seq(Nat)
      BY ProgramFacts DEF Known
    <3>2. order = -1 \/ \E m \in Known : OrderOf(m) = order
      BY DEF OrderKnown
    <3> QED BY <1>2, <3>1, <3>2, OrderIsNatural
  <2>2. CASE OrderOf(n) > order
    <3>1. order' = OrderOf(n)
      BY <1>1, <2>2 DEF Raised
    <3> QED BY <1>3, <2>1, <2>2, <3>1 DEF OrderKnown
  <2>3. CASE ~(OrderOf(n) > order)
    <3>1. order' = order
      BY <1>1, <2>3 DEF Raised
    <3>2. order # -1
      BY <2>1, <2>3
    <3> QED BY <1>3, <2>1, <2>3, <3>1, <3>2 DEF OrderKnown
  <2> QED BY <2>2, <2>3
<1>7. SymbolsKept'
  BY <1>1, <1>3, <1>4 DEF SymbolsKept
<1>8. NeverFails'
  BY <1>1, <1>2, <1>3 DEF NeverFails, Rejected
<1>9. TangentNames' /\ Clearing' /\ InOutput' /\ DeclaredOnce'
  BY <1>1 DEF TangentNames, Clearing, InOutput, DeclaredOnce
<1> QED BY <1>5, <1>6, <1>7, <1>8, <1>9

(* Steps outside of the parser and the clearing leave the program, the     *)
(* order and the ordinary symbols alone.                                   *)
LEMMA SameOrder ==
  ASSUME TableTyped, OrderKnown, phase # "parse", phase' # "parse",
         program' = program, order' = order
  PROVE  Symbols' = Symbols /\ Known = Symbols /\ Known' = Symbols /\ OrderKnown'
BY DEF OrderKnown, Known, Symbols

(* A smaller first number decides the order of two names. *)
LEMMA SmallerBefore ==
  ASSUME NEW d \in Seq(Nat), NEW n \in Seq(Nat), d # End, n # End, d[1] < n[1]
  PROVE  Before(d, n)
<1>1. 1 \in 1..Len(d) /\ 1 \in 1..Len(n)
  BY EmptySeq DEF End
<1>2. Diverge(d, n, 1)
  BY <1>1 DEF Diverge
<1> QED BY <1>2, BeforeDiverge

(* Nothing stands before the first name. *)
LEMMA NothingBefore ==
  ASSUME NEW S, S \subseteq Seq(Nat), NEW m, IsFirst(m, S), NEW n \in S
  PROVE  ~Before(n, m)
<1>1. CASE n = m
  BY <1>1, BeforeIrreflexive
<1>2. CASE n # m
  BY <1>2, BeforeTransitive, BeforeIrreflexive DEF IsFirst
<1> QED BY <1>1, <1>2

(* After tau: a name that is not a derivative has one before it. *)
LEMMA DerivativeBefore ==
  ASSUME TableInv, phase = "tau", NEW n \in DOMAIN table, Removable(n), ~Tangent(n),
         NEW d, d = <<TlPrefix(order + 1)>> \o n
  PROVE  n[1] >= 300 /\ n[1] \in Nat /\ d \in DOMAIN table /\ d \in Seq(Nat) /\ Before(d, n)
<1>1. n \in Seq(Nat) /\ n # End /\ n \notin Symbols
  BY DEF TableInv, TableTyped, SymbolsKept, Known, Removable
<1>2. n[1] >= 300 /\ d \in DOMAIN table
  BY <1>1 DEF TableInv, TangentNames
<1>3. PICK o \in 0..8 : order = o
  BY OrderFacts DEF TableInv
<1>4. PICK k \in Nat : k = TlPrefix(o + 1) /\ k < 300
  BY PrefixFacts
<1>5. d = <<k>> \o n
  BY <1>3, <1>4
<1>6. d[1] = k
  BY <1>1, <1>5, Prefixed
<1>7. d \in Seq(Nat) /\ d # End
  BY <1>2 DEF TableInv, TableTyped
<1>8. n[1] \in Nat
  BY <1>1, EmptySeq DEF End
<1>9. d[1] < n[1]
  BY <1>2, <1>4, <1>6, <1>8
<1> QED BY <1>1, <1>2, <1>7, <1>8, <1>9, SmallerBefore

LEMMA BeginClearInv ==
  ASSUME TableInv, BeginClear
  PROVE  TableInv'
<1> USE DEF TableInv
<1> DEFINE D == DOMAIN table
<1>1. /\ phase' = "clear" /\ program' = program /\ it' = First(D) /\ pending' = pending
      /\ pending = {} /\ table' = table /\ lengths' = lengths /\ lengths = <<>>
      /\ order' = order /\ count' = count /\ declared' = declared /\ used' = used
      /\ failed' = failed
      /\ \/ phase = "parse" /\ following' = "tau"
         \/ phase = "tau" /\ following' = "sigma"
  BY DEF BeginClear
<1>2. Symbols' = Symbols /\ Known = Symbols /\ Known' = Symbols
  BY <1>1 DEF Symbols, Known
<1>3. TableTyped'
  BY <1>1, <1>2 DEF TableTyped
<1>4. OrderKnown'
  BY <1>1, <1>2 DEF OrderKnown
<1>5. SymbolsKept'
  BY <1>1, <1>2 DEF SymbolsKept
<1>6. TangentNames'
  BY <1>1, <1>2 DEF TangentNames, Removable, Tangent
<1>7. Symbols # {} /\ Symbols \subseteq D /\ \A n \in Symbols : ~Removable(n)
  BY <1>2, ProgramFacts DEF SymbolsKept, Removable
<1>8. IsFirst(First(D), D) /\ D \subseteq Seq(Nat) /\ IsFiniteSet(D)
  <2>1. IsFiniteSet(D) /\ D \subseteq Seq(Nat) /\ D # {}
    BY <1>7 DEF TableTyped
  <2> HIDE DEF D
  <2> QED BY <2>1, FirstIs
<1>9. ASSUME NEW n \in D, Removable(n), it' = End \/ Before(n, it')
      PROVE  FALSE
  <2>1. it' # End
    BY <1>1, <1>8 DEF IsFirst, TableTyped
  <2> QED BY <1>1, <1>8, <1>9, <2>1, NothingBefore
<1>10. ASSUME phase = "tau", NEW n \in D, Removable(n), ~Tangent(n)
       PROVE  /\ ~IsFirst(n, D)
              /\ IsFirst(it', D) /\ Removable(it') => ~IsFirst(n, D \ {it'})
  <2>1. n \in Seq(Nat) /\ n # End /\ n \notin Symbols
    BY <1>7, <1>8, <1>10 DEF TableTyped
  <2>2. PICK d : d = <<TlPrefix(order + 1)>> \o n
    OBVIOUS
  <2>3. n[1] >= 300 /\ n[1] \in Nat /\ d \in D /\ d \in Seq(Nat) /\ Before(d, n)
    BY <1>10, <2>2, DerivativeBefore
  <2>4. ~IsFirst(n, D)
    BY <1>8, <2>3, NothingBefore
  <2>5. PICK f \in program.floats : TRUE
    BY ProgramFacts
  <2>6. PICK e : e = <<TlPrefix(order + 1)>> \o f
    OBVIOUS
  <2>7. e \in D /\ e \in Seq(Nat) /\ e # End
    BY <1>1, <1>10, <2>5, <2>6 DEF TangentNames, TableTyped
  <2>8. f \in Seq(Nat) /\ f # End /\ f # n /\ f \in Symbols
    BY <2>1, <2>5, ProgramFacts DEF TableTyped
  <2>9. PICK o \in 0..8 : order = o
    BY <1>10, OrderFacts
  <2>10. PICK k \in Nat : k = TlPrefix(o + 1) /\ k < 300
    BY PrefixFacts
  <2>11. d = <<k>> \o n /\ e = <<k>> \o f
    BY <2>2, <2>6, <2>9, <2>10
  <2>12. e # d
    BY <2>1, <2>8, <2>11, PrefixInjective
  <2>13. e[1] = k
    BY <2>8, <2>11, Prefixed
  <2>14. e[1] < n[1]
    BY <2>3, <2>10, <2>13
  <2>15. Before(e, n)
    BY <2>1, <2>7, <2>14, SmallerBefore
  <2>16. ASSUME IsFirst(it', D), IsFirst(n, D \ {it'})
         PROVE  FALSE
    <3>1. D \ {it'} \subseteq Seq(Nat)
      BY <1>8
    <3>2. d \in D \ {it'} \/ e \in D \ {it'}
      BY <2>3, <2>7, <2>12
    <3> HIDE DEF D
    <3> QED BY <2>3, <2>15, <2>16, <3>1, <3>2, NothingBefore
  <2> QED BY <2>4, <2>16
<1>11. Clearing'
  <2>1. pending' = {} /\ it' \in D \cup {End} /\ DOMAIN table' = D
    BY <1>1, <1>8 DEF IsFirst
  <2>2. \A n \in D : Removable(n)' <=> Removable(n)
    BY <1>1 DEF Removable
  <2>3. Removable(it)' <=> Removable(it')
    BY <1>1 DEF Removable
  <2>4. \A n \in D : Tangent(n)' <=> Tangent(n)
    BY <1>1 DEF Tangent
  <2>5. following' = "sigma" => phase = "tau"
    BY <1>1
  <2>6. IsFirst(it, D)' <=> IsFirst(it', D)
    BY <2>1
  <2>7. \A n \in D : Removable(n)' /\ (it' = End \/ Before(n, it')) => IsFirst(n, D)
    BY <1>9, <2>2
  <2>8. following' = "sigma" => \A n \in D :
          /\ IsFirst(n, D) /\ Removable(n)' => Tangent(n)'
          /\ IsFirst(it', D) /\ Removable(it)' /\ Removable(n)'
               /\ IsFirst(n, D \ {it'}) => Tangent(n)'
    BY <1>10, <2>2, <2>3, <2>4, <2>5
  <2> HIDE DEF D
  <2> QED BY <2>1, <2>7, <2>8 DEF Clearing
<1>12. NeverFails' /\ InOutput' /\ DeclaredOnce'
  BY <1>1 DEF NeverFails, InOutput, DeclaredOnce
<1> QED BY <1>3, <1>4, <1>5, <1>6, <1>11, <1>12

(* The iterator goes on from a symbol that stays. *)
LEMMA ClearOnward ==
  ASSUME TableInv, ClearStep, ~Removable(it)
  PROVE  TableInv'
<1> USE DEF TableInv
<1> DEFINE D == DOMAIN table
<1>1. /\ phase = "clear" /\ phase' = phase /\ program' = program /\ it' = After(D, it)
      /\ pending' = pending /\ table' = table /\ lengths' = lengths /\ following' = following
      /\ order' = order /\ count' = count /\ declared' = declared /\ used' = used
      /\ failed' = failed /\ it # End
  BY DEF ClearStep
<1>2. TableTyped' /\ OrderKnown' /\ SymbolsKept' /\ TangentNames' /\ NeverFails' /\ InOutput'
      /\ DeclaredOnce'
  BY <1>1 DEF TableTyped, OrderKnown, SymbolsKept, TangentNames, NeverFails, InOutput,
     DeclaredOnce, Symbols, Known, Removable, Tangent
<1>3. it \in D /\ D \subseteq Seq(Nat) /\ IsFiniteSet(D) /\ End \notin D
  BY <1>1 DEF Clearing, TableTyped
<1>4. \/ it' = End /\ \A n \in D : ~Before(it, n)
      \/ /\ it' \in D /\ Before(it, it')
         /\ \A n \in D : Before(it, n) /\ n # it' => Before(it', n)
  <2> HIDE DEF D
  <2> QED BY <1>1, <1>3, AfterIs
<1>5. ~IsFirst(it', D)
  BY <1>3, <1>4, NothingBefore DEF IsFirst
<1>6. ASSUME NEW n \in D, Removable(n), it' = End \/ Before(n, it')
      PROVE  IsFirst(n, D)
  <2>1. n # it
    BY <1>6
  <2>2. ~Before(it, n)
    BY <1>3, <1>4, <1>6, BeforeIrreflexive, BeforeTransitive
  <2>3. Before(n, it)
    BY <1>3, <2>1, <2>2, BeforeTotal
  <2> QED BY <1>1, <1>6, <2>3 DEF Clearing
<1>7. Clearing'
  <2>1. pending' = {} /\ it' \in D \cup {End} /\ DOMAIN table' = D
    BY <1>1, <1>4 DEF Clearing
  <2>2. \A n \in D : (Removable(n)' <=> Removable(n)) /\ (Tangent(n)' <=> Tangent(n))
    BY <1>1 DEF Removable, Tangent
  <2>3. \A n \in D : Removable(n)' /\ (it' = End \/ Before(n, it')) => IsFirst(n, D)
    BY <1>6, <2>2
  <2>4. following' = "sigma" => \A n \in D :
          /\ IsFirst(n, D) /\ Removable(n)' => Tangent(n)'
          /\ IsFirst(it', D) /\ Removable(it)' /\ Removable(n)'
               /\ IsFirst(n, D \ {it'}) => Tangent(n)'
    BY <1>1, <1>5, <2>2 DEF Clearing
  <2> HIDE DEF D
  <2> QED BY <2>1, <2>3, <2>4 DEF Clearing
<1> QED BY <1>2, <1>7

(* The iterator starts again behind the first symbol that is left. *)
LEMMA ClearRemove ==
  ASSUME TableInv, ClearStep, Removable(it)
  PROVE  TableInv'
<1> USE DEF TableInv
<1> DEFINE D == DOMAIN table
           L == D \ {it}
<1>1. /\ phase = "clear" /\ phase' = phase /\ program' = program /\ it' = After(L, First(L))
      /\ pending' = pending /\ table' = [n \in L |-> table[n]] /\ lengths' = lengths
      /\ following' = following /\ order' = order /\ count' = count /\ declared' = declared
      /\ used' = used /\ failed' = failed /\ it # End
  BY DEF ClearStep
<1>2. it \in D /\ D \subseteq Seq(Nat) /\ IsFiniteSet(D) /\ End \notin D
  BY <1>1 DEF Clearing, TableTyped
<1>3. Symbols' = Symbols /\ Known = Symbols /\ Known' = Symbols /\ Symbols \subseteq D
      /\ it \notin Symbols
  BY <1>1 DEF Symbols, Known, SymbolsKept, Removable
<1>4. following = "sigma"
  BY <1>1, <1>2, <1>3 DEF SymbolsKept, TableTyped
<1>5. L \subseteq Seq(Nat) /\ IsFiniteSet(L) /\ End \notin L /\ L # {} /\ Symbols \subseteq L
  <2>1. L \in SUBSET D
    OBVIOUS
  <2>2. IsFiniteSet(L)
    <3> HIDE DEF L
    <3> QED BY <1>2, <2>1, FS_Subset
  <2> QED BY <1>2, <1>3, <2>2, ProgramFacts
<1>6. DOMAIN table' = L /\ \A n \in L : table'[n] = table[n]
  BY <1>1
<1>7. TableTyped'
  <2>1. table' \in [DOMAIN table' -> {"ordinary", "derivative", "intermediate"}]
    BY <1>1 DEF TableTyped
  <2> QED BY <1>1, <1>3, <1>5, <1>6, <2>1 DEF TableTyped
<1>8. OrderKnown' /\ SymbolsKept' /\ NeverFails' /\ InOutput' /\ DeclaredOnce'
  BY <1>1, <1>3, <1>4, <1>5, <1>6 DEF OrderKnown, SymbolsKept, NeverFails, InOutput, DeclaredOnce
<1>9. TangentNames'
  BY <1>1, <1>3, <1>4, <1>6 DEF TangentNames, Removable, Tangent
<1>10. IsFirst(First(L), L)
  <2> HIDE DEF L
  <2> QED BY <1>5, FirstIs
<1>11. PICK f \in L : f = First(L) /\ IsFirst(f, L)
  BY <1>10 DEF IsFirst
<1>12. \/ it' = End /\ \A n \in L : ~Before(f, n)
       \/ /\ it' \in L /\ Before(f, it')
          /\ \A n \in L : Before(f, n) /\ n # it' => Before(it', n)
  <2> HIDE DEF L
  <2> QED BY <1>1, <1>5, <1>11, AfterIs
<1>13. ~IsFirst(it', L)
  <2> HIDE DEF L
  <2> QED BY <1>5, <1>12, NothingBefore DEF IsFirst
<1>14. ASSUME NEW n \in L, it' = End \/ Before(n, it')
       PROVE  IsFirst(n, L)
  <2>1. ~Before(f, n)
    BY <1>5, <1>12, <1>14, BeforeIrreflexive, BeforeTransitive
  <2> QED BY <1>11, <2>1 DEF IsFirst
<1>15. ASSUME NEW n \in L, IsFirst(n, L), Removable(n)
       PROVE  Tangent(n)
  <2>1. CASE IsFirst(it, D)
    BY <1>1, <1>2, <1>4, <1>15, <2>1 DEF Clearing
  <2>2. CASE ~IsFirst(it, D)
    <3>1. IsFirst(First(D), D)
      <4> HIDE DEF D
      <4> QED BY <1>2, FirstIs
    <3>2. PICK g \in D : IsFirst(g, D)
      BY <3>1 DEF IsFirst
    <3>3. IsFirst(g, L)
      BY <2>2, <3>2 DEF IsFirst
    <3>4. n = g
      <4> HIDE DEF L
      <4> QED BY <1>5, <1>15, <3>3, FirstUnique
    <3> QED BY <1>1, <1>4, <1>15, <3>2, <3>4 DEF Clearing
  <2> QED BY <2>1, <2>2
<1>16. Clearing'
  <2>1. pending' = {} /\ it' \in L \cup {End}
    BY <1>1, <1>12 DEF Clearing
  <2>2. \A n \in L : (Removable(n)' <=> Removable(n)) /\ (Tangent(n)' <=> Tangent(n))
    BY <1>1, <1>6 DEF Removable, Tangent
  <2>3. \A n \in L : Removable(n)' /\ (it' = End \/ Before(n, it')) => IsFirst(n, L)
    BY <1>14
  <2>4. \A n \in L :
          /\ IsFirst(n, L) /\ Removable(n)' => Tangent(n)'
          /\ IsFirst(it', L) /\ Removable(it)' /\ Removable(n)'
               /\ IsFirst(n, L \ {it'}) => Tangent(n)'
    BY <1>13, <1>15, <2>2
  <2> HIDE DEF L
  <2> QED BY <1>6, <2>1, <2>3, <2>4 DEF Clearing
<1> QED BY <1>7, <1>8, <1>9, <1>16

LEMMA ClearStepInv ==
  ASSUME TableInv, ClearStep
  PROVE  TableInv'
BY ClearOnward, ClearRemove

LEMMA BeginTransformationInv ==
  ASSUME TableInv, BeginTransformation
  PROVE  TableInv'
<1> USE DEF TableInv
<1>1. /\ phase = "clear" /\ it = End /\ phase' = following /\ program' = program /\ it' = it
      /\ pending' = Symbols \cup (IF following = "sigma" THEN program.counters ELSE {})
      /\ table' = table /\ following' = following /\ order' = order /\ count' = 0
      /\ DOMAIN declared' = {} /\ used' = {} /\ failed' = failed
  BY DEF BeginTransformation, Symbols
<1>2. phase' \in {"tau", "sigma"}
  BY <1>1 DEF TableTyped
<1>3. Symbols' = Symbols /\ Known = Symbols /\ Known' = Symbols /\ OrderKnown'
  BY <1>1, <1>2, SameOrder
<1>4. lengths' \in Seq(Nat) /\ \A k \in DOMAIN lengths' :
          \E l \in DOMAIN program.lengths : lengths'[k] = program.lengths[l]
  <2> DEFINE P == program.lengths
  <2>1. P \in Seq(Nat)
    BY ProgramFacts
  <2>2. CASE following = "tau"
    <3>1. lengths' = P
      BY <2>2 DEF BeginTransformation
    <3> QED BY <2>1, <3>1
  <2>3. CASE following # "tau"
    <3>1. lengths' = [i \in 1 .. 2 * Len(P) |-> P[(i + 1) \div 2]]
      BY <2>3 DEF BeginTransformation
    <3> HIDE DEF P
    <3>2. Len(P) \in Nat
      BY <2>1
    <3>3. \A i \in 1 .. 2 * Len(P) : (i + 1) \div 2 \in 1 .. Len(P)
      BY <3>2
    <3>4. DOMAIN P = 1 .. Len(P) /\ \A l \in 1 .. Len(P) : P[l] \in Nat
      BY <2>1
    <3>5. lengths' \in Seq(Nat)
      <4>1. 2 * Len(P) \in Nat
        BY <3>2
      <4>2. \A i \in 1 .. 2 * Len(P) : P[(i + 1) \div 2] \in Nat
        BY <3>3, <3>4
      <4> QED BY <3>1, <4>1, <4>2
    <3> QED BY <3>1, <3>3, <3>4, <3>5 DEF P
  <2> QED BY <2>2, <2>3
<1>5. TableTyped'
  BY <1>1, <1>2, <1>3, <1>4 DEF TableTyped
<1>6. ASSUME following = "tau"
      PROVE  DOMAIN table = Symbols
  BY <1>1, <1>3, <1>6 DEF SymbolsKept
<1>7. ASSUME following = "sigma", NEW n \in DOMAIN table \ Symbols
      PROVE  Tangent(n)
  <2>1. Removable(n)
    BY <1>1, <1>7 DEF TangentNames
  <2>2. IsFirst(n, DOMAIN table)
    BY <1>1, <2>1 DEF Clearing
  <2> QED BY <1>1, <1>7, <2>1, <2>2 DEF Clearing
<1>8. SymbolsKept' /\ NeverFails' /\ DeclaredOnce'
  BY <1>1, <1>2, <1>3 DEF SymbolsKept, NeverFails, DeclaredOnce
<1>9. TangentNames'
  <2>1. phase' = "tau" => DOMAIN table' \ Symbols' = {} /\ program'.floats \ pending' = {}
    BY <1>1, <1>3, <1>6, ProgramFacts
  <2> QED BY <1>1, <1>2, <2>1 DEF TangentNames
<1>10. Clearing'
  BY <1>2 DEF Clearing
<1>11. InOutput'
  <2>1. \A n \in DOMAIN table' \ Symbols' : phase' = "sigma" /\ Tangent(n)'
    BY <1>1, <1>2, <1>3, <1>6, <1>7 DEF Tangent
  <2> QED BY <1>1, <2>1 DEF InOutput
<1> QED BY <1>3, <1>5, <1>8, <1>9, <1>10, <1>11

LEMMA NextExpressionInv ==
  ASSUME TableInv, NextExpression
  PROVE  TableInv'
<1> USE DEF TableInv
<1>1. /\ phase \in {"tau", "sigma"} /\ phase' = phase /\ program' = program /\ it' = it
      /\ pending' = pending /\ lengths' = Tail(lengths) /\ lengths # <<>>
      /\ table' = table /\ following' = following /\ order' = order /\ count' = 0
      /\ declared' = declared /\ used' = used /\ failed' = failed
  BY DEF NextExpression
<1>2. /\ Tail(lengths) \in Seq(Nat)
      /\ \A k \in DOMAIN Tail(lengths) : k + 1 \in DOMAIN lengths /\ Tail(lengths)[k] = lengths[k + 1]
  <2>1. lengths \in Seq(Nat)
    BY DEF TableTyped
  <2> QED BY <1>1, <2>1, HeadTailProperties
<1>3. TableTyped'
  BY <1>1, <1>2 DEF TableTyped, Symbols
<1>4. OrderKnown' /\ SymbolsKept' /\ TangentNames' /\ Clearing' /\ NeverFails' /\ DeclaredOnce'
  BY <1>1 DEF OrderKnown, SymbolsKept, TangentNames, Clearing, NeverFails, DeclaredOnce, Known,
     Symbols, Removable, Tangent
<1>5. InOutput'
  BY <1>1 DEF InOutput, Symbols, Tangent, Prefix
<1> QED BY <1>3, <1>4, <1>5

LEMMA FinishInv ==
  ASSUME TableInv, Finish
  PROVE  TableInv'
<1> USE DEF TableInv
<1>1. /\ phase = "sigma" /\ phase' = "done" /\ program' = program /\ pending = {}
      /\ pending' = pending /\ lengths' = lengths /\ table' = table /\ following' = following
      /\ order' = order /\ count' = count /\ declared' = declared /\ used' = used
      /\ failed' = failed
  BY DEF Finish
<1> QED BY <1>1 DEF TableTyped, OrderKnown, SymbolsKept, TangentNames, Clearing, NeverFails,
        DeclaredOnce, InOutput, Known, Symbols

LEMMA StutteringInv ==
  ASSUME TableInv, UNCHANGED vars
  PROVE  TableInv'
<1> USE DEF TableInv, vars
<1>1. TableTyped' /\ OrderKnown' /\ SymbolsKept' /\ NeverFails' /\ DeclaredOnce'
  BY DEF TableTyped, OrderKnown, SymbolsKept, NeverFails, DeclaredOnce, Known, Symbols
<1>2. TangentNames'
  BY DEF TangentNames, Symbols, Removable, Tangent
<1>3. Clearing'
  <2>1. /\ phase' = phase /\ pending' = pending /\ it' = it /\ table' = table
        /\ following' = following /\ order' = order
    OBVIOUS
  <2> QED BY <2>1 DEF Clearing, Removable, Tangent
<1>4. InOutput'
  BY DEF InOutput, Symbols, Tangent, Prefix
<1> QED BY <1>1, <1>2, <1>3, <1>4

(* The derivative that a transformation makes of a name. *)
LEMMA PrefixOf ==
  ASSUME TableInv, phase \in {"tau", "sigma"}
  PROVE  /\ Prefix \in {TlPrefix(order + 1), AdjPrefix(order + 1)}
         /\ phase = "tau" => Prefix = TlPrefix(order + 1)
         /\ phase = "sigma" => Prefix # TlPrefix(order + 1)
<1>1. PICK o \in 0..8 : order = o
  BY OrderFacts DEF TableInv
<1> QED BY <1>1 DEF Prefix, TlPrefix, AdjPrefix

LEMMA CopyDeclarationInv ==
  ASSUME TableInv, NEW n \in pending, TransformDeclaration(n), n \notin program.floats
  PROVE  TableInv'
<1> USE DEF TableInv
<1>1. /\ phase \in {"tau", "sigma"} /\ phase' = phase /\ program' = program /\ it' = it
      /\ pending' = pending \ {n} /\ lengths' = lengths /\ table' = table
      /\ following' = following /\ order' = order /\ count' = count
      /\ declared' = Declare(declared, {n}) /\ used' = used /\ failed' = failed
      /\ n \in Symbols
  BY DEF TransformDeclaration, Symbols
<1>2. /\ DOMAIN declared' = DOMAIN declared \cup {n}
      /\ \A m \in DOMAIN declared' : declared'[m] = 1
  <2>1. {n} \cap DOMAIN declared = {} /\ \A m \in DOMAIN declared : declared[m] = 1
    BY <1>1 DEF InOutput, DeclaredOnce
  <2>2. DOMAIN Declare(declared, {n}) = DOMAIN declared \cup {n}
    BY <2>1, DeclareFacts
  <2>3. \A m \in DOMAIN declared \cup {n} : Declare(declared, {n})[m] = 1
    BY <2>1, DeclareFacts
  <2> QED BY <1>1, <2>2, <2>3
<1>3. TableTyped' /\ OrderKnown' /\ SymbolsKept' /\ Clearing' /\ NeverFails'
  BY <1>1 DEF TableTyped, OrderKnown, SymbolsKept, Clearing, NeverFails, Known, Symbols
<1>4. DeclaredOnce'
  BY <1>1, <1>2 DEF DeclaredOnce
<1>5. TangentNames'
  BY <1>1 DEF TangentNames, Symbols, Removable, Tangent
<1>6. InOutput'
  <2>1. Symbols' = Symbols /\ Prefix' = Prefix /\ \A m \in DOMAIN table : Tangent(m)' <=> Tangent(m)
    BY <1>1 DEF Symbols, Prefix, Tangent
  <2>2. n \in DOMAIN table
    BY <1>1 DEF SymbolsKept, Known
  <2>3. ASSUME NEW m \in pending' \cap program.floats
        PROVE  <<Prefix>> \o m \notin DOMAIN declared'
    <3>1. PICK e : e = <<Prefix>> \o m
      OBVIOUS
    <3>2. m \in Symbols /\ m \in Seq(Nat) /\ m # End
      BY <2>3, ProgramFacts
    <3>3. e \notin Symbols
      BY <1>1, <3>1, <3>2, PrefixOf, DerivativeFacts
    <3>4. e \notin DOMAIN declared
      BY <1>1, <2>3, <3>1 DEF InOutput
    <3> QED BY <1>1, <1>2, <3>1, <3>3, <3>4
  <2> QED BY <1>1, <1>2, <2>1, <2>2, <2>3 DEF InOutput
<1> QED BY <1>3, <1>4, <1>5, <1>6

LEMMA DeclareDerivativeInv ==
  ASSUME TableInv, NEW n \in pending, TransformDeclaration(n), n \in program.floats
  PROVE  TableInv'
<1> USE DEF TableInv
<1>0. PICK d : d = <<Prefix>> \o n
  OBVIOUS
<1>1. /\ phase \in {"tau", "sigma"} /\ phase' = phase /\ program' = program /\ it' = it
      /\ pending' = pending \ {n} /\ lengths' = lengths
      /\ table' = Inserted(table, d, "derivative")
      /\ following' = following /\ order' = order /\ count' = count
      /\ declared' = Declare(Declare(declared, {n}), {d}) /\ used' = used
      /\ failed' = (n \notin DOMAIN table \/ Rejected(d, "derivative"))
  BY <1>0 DEF TransformDeclaration
<1>2. n \in Symbols /\ n \in Seq(Nat) /\ n # End /\ n \in DOMAIN table
  <2>1. n \in Symbols
    BY ProgramFacts
  <2> QED BY <1>1, <2>1, ProgramFacts DEF SymbolsKept, Known
<1>3. /\ d \in Seq(Nat) /\ d # End /\ Len(d) > 1 /\ d[1] = Prefix /\ WellPrefixed(d)
      /\ d \notin Symbols \cup program.counters
  BY <1>0, <1>1, <1>2, PrefixOf, DerivativeFacts
<1>4. Symbols' = Symbols /\ Prefix' = Prefix /\ Known = Symbols /\ Known' = Symbols
      /\ OrderKnown' /\ \A m : Tangent(m)' <=> Tangent(m)
  BY <1>1, SameOrder DEF Prefix, Tangent
<1>5. DOMAIN table' = DOMAIN table \cup {d}
  BY <1>1, InsertedFacts
<1>6. \A m \in DOMAIN table : table'[m] = table[m]
  BY <1>1 DEF Inserted
<1>7. d \notin DOMAIN table => table'[d] = "derivative"
  BY <1>1 DEF Inserted
<1>8. TableTyped'
  <2>1. /\ IsFiniteSet(DOMAIN table')
        /\ table' \in [DOMAIN table' -> {"ordinary", "derivative", "intermediate"}]
        /\ \A m \in DOMAIN table' : m \in Seq(Nat) /\ m # End
    BY <1>1, <1>3, InsertedTyped DEF TableTyped
  <2> QED BY <1>1, <1>4, <2>1 DEF TableTyped
<1>9. SymbolsKept' /\ Clearing'
  BY <1>1, <1>4, <1>5, <1>6 DEF SymbolsKept, Clearing
<1>10. NeverFails'
  BY <1>1, <1>2, <1>3 DEF NeverFails, Rejected
<1>11. n \notin DOMAIN declared /\ d \notin DOMAIN declared /\ d # n
  BY <1>0, <1>1, <1>2, <1>3 DEF InOutput
<1>12. /\ DOMAIN declared' = DOMAIN declared \cup {n, d}
       /\ \A m \in DOMAIN declared' : declared'[m] = 1
  <2>1. PICK bag : bag = Declare(declared, {n})
    OBVIOUS
  <2>2. {n} \cap DOMAIN declared = {} /\ \A m \in DOMAIN declared : declared[m] = 1
    BY <1>11 DEF DeclaredOnce
  <2>3. DOMAIN bag = DOMAIN declared \cup {n}
    BY <2>1, <2>2, DeclareFacts
  <2>4. \A m \in DOMAIN declared \cup {n} : bag[m] = 1
    BY <2>1, <2>2, DeclareFacts
  <2>5. {d} \cap DOMAIN bag = {} /\ \A m \in DOMAIN bag : bag[m] = 1
    BY <1>11, <2>3, <2>4
  <2>6. DOMAIN Declare(bag, {d}) = DOMAIN bag \cup {d}
    BY <2>5, DeclareFacts
  <2>7. \A m \in DOMAIN bag \cup {d} : Declare(bag, {d})[m] = 1
    BY <2>5, DeclareFacts
  <2>8. declared' = Declare(bag, {d})
    BY <1>1, <2>1
  <2>9. DOMAIN declared' = DOMAIN declared \cup {n, d}
    BY <2>3, <2>6, <2>8
  <2> QED BY <2>3, <2>7, <2>8, <2>9
<1>13. DeclaredOnce'
  BY <1>1, <1>12 DEF DeclaredOnce
<1>14. TangentNames'
  <2> SUFFICES ASSUME phase = "tau"
               PROVE  TangentNames'
    BY <1>1 DEF TangentNames
  <2>1. Prefix = TlPrefix(order + 1)
    BY PrefixOf
  <2>2. Tangent(d)
    BY <1>3, <2>1 DEF Tangent
  <2>3. \A m \in DOMAIN table' \ Symbols : Removable(m)'
    BY <1>5, <1>6, <1>7 DEF TangentNames, Removable
  <2>4. ~(d[1] >= 300)
    <3>1. PICK o \in 0..8 : order = o
      BY OrderFacts
    <3>2. d[1] = TlPrefix(o + 1)
      BY <1>3, <2>1, <3>1
    <3>3. TlPrefix(o + 1) \in Nat /\ TlPrefix(o + 1) < 300
      BY PrefixFacts
    <3> QED BY <3>2, <3>3
  <2>5. \A m \in DOMAIN table' \ Symbols : Tangent(m) \/ m[1] >= 300
    BY <1>5, <2>2 DEF TangentNames
  <2>6. \A m \in DOMAIN table' \ Symbols :
           m[1] >= 300 => <<TlPrefix(order + 1)>> \o m \in DOMAIN table'
    BY <1>5, <2>4 DEF TangentNames
  <2>7. \A m \in program.floats \ pending' :
           <<TlPrefix(order + 1)>> \o m \in DOMAIN table'
    BY <1>0, <1>1, <1>5, <2>1 DEF TangentNames
  <2> QED BY <1>1, <1>4, <2>3, <2>5, <2>6, <2>7 DEF TangentNames
<1>15. InOutput'
  <2>1. ASSUME NEW m \in pending' \cap program.floats
        PROVE  <<Prefix>> \o m \notin DOMAIN declared'
    <3>1. PICK e : e = <<Prefix>> \o m
      OBVIOUS
    <3>2. m \in Symbols /\ m \in Seq(Nat) /\ m # End /\ m # n
      BY <1>1, <2>1, ProgramFacts
    <3>3. e \notin Symbols
      BY <1>1, <3>1, <3>2, PrefixOf, DerivativeFacts
    <3>4. e \notin DOMAIN declared
      BY <1>1, <2>1, <3>1 DEF InOutput
    <3>5. PICK o \in 0..8 : order = o
      BY <1>1, OrderFacts
    <3>6. PICK k \in Nat : k = Prefix
      BY <1>1, <3>5, PrefixOf, PrefixFacts
    <3>7. e # d
      BY <1>0, <1>2, <3>1, <3>2, <3>6, PrefixInjective
    <3> QED BY <1>2, <1>12, <3>1, <3>3, <3>4, <3>7
  <2>2. DOMAIN declared' \subseteq DOMAIN table' /\ pending' \cap DOMAIN declared' = {}
    <3>1. d \notin pending
      BY <1>1, <1>3 DEF TableTyped
    <3> QED BY <1>1, <1>2, <1>5, <1>12, <3>1 DEF InOutput
  <2>3. \A m \in DOMAIN table' \ Symbols : m \in DOMAIN declared' \/ (phase = "sigma" /\ Tangent(m))
    BY <1>1, <1>5, <1>12 DEF InOutput
  <2> QED BY <1>1, <1>4, <2>1, <2>2, <2>3 DEF InOutput
<1> QED BY <1>4, <1>8, <1>9, <1>10, <1>13, <1>14, <1>15

LEMMA DeclareCounterInv ==
  ASSUME TableInv, NEW n \in pending, DeclareCounter(n)
  PROVE  TableInv'
<1> USE DEF TableInv
<1>1. /\ phase = "sigma" /\ phase' = phase /\ program' = program /\ it' = it
      /\ pending' = pending \ {n} /\ lengths' = lengths
      /\ table' = Inserted(table, n, "ordinary") /\ n \in program.counters
      /\ following' = following /\ order' = Raised(n, "ordinary") /\ count' = count
      /\ declared' = Declare(declared, {n}) /\ used' = used
      /\ failed' = Rejected(n, "ordinary")
  BY DEF DeclareCounter
<1>2. /\ n \in Seq(Nat) /\ n # End /\ n \notin Symbols /\ Len(n) = 1 /\ WellPrefixed(n)
      /\ OrderOf(n) = 0
  <2>1. n \in Seq(Nat) /\ n # End /\ WellPrefixed(n)
    BY <1>1, ProgramFacts
  <2>2. Len(n) = 1
    BY <1>1, ProgramFacts
  <2>3. n \notin Symbols
    BY <1>1, ProgramFacts
  <2>4. OrderOf(n) = 0
    BY <2>2 DEF OrderOf
  <2> QED BY <2>1, <2>2, <2>3, <2>4
<1>3. n \notin DOMAIN declared /\ n \notin DOMAIN table
  <2>1. n \notin DOMAIN declared
    BY <1>1 DEF InOutput
  <2>2. ~Tangent(n)
    BY <1>2 DEF Tangent
  <2> QED BY <1>1, <1>2, <2>1, <2>2 DEF InOutput
<1>4. order' = order
  <2>1. order \in 0..8
    BY <1>1, OrderFacts
  <2> QED BY <1>1, <1>2, <2>1 DEF Raised
<1>5. Symbols' = Symbols /\ Prefix' = Prefix /\ Known = Symbols /\ Known' = Symbols
      /\ OrderKnown' /\ \A m : Tangent(m)' <=> Tangent(m)
  BY <1>1, <1>4, SameOrder DEF Prefix, Tangent
<1>6. DOMAIN table' = DOMAIN table \cup {n}
  BY <1>1, InsertedFacts
<1>7. \A m \in DOMAIN table : table'[m] = table[m]
  BY <1>1 DEF Inserted
<1>8. TableTyped'
  <2>1. /\ IsFiniteSet(DOMAIN table')
        /\ table' \in [DOMAIN table' -> {"ordinary", "derivative", "intermediate"}]
        /\ \A m \in DOMAIN table' : m \in Seq(Nat) /\ m # End
    BY <1>1, <1>2, InsertedTyped DEF TableTyped
  <2> QED BY <1>1, <1>5, <2>1 DEF TableTyped
<1>9. SymbolsKept' /\ Clearing' /\ TangentNames'
  BY <1>1, <1>5, <1>6, <1>7 DEF SymbolsKept, Clearing, TangentNames
<1>10. NeverFails'
  BY <1>1, <1>2, <1>3 DEF NeverFails, Rejected
<1>11. /\ DOMAIN declared' = DOMAIN declared \cup {n}
       /\ \A m \in DOMAIN declared' : declared'[m] = 1
  <2>1. {n} \cap DOMAIN declared = {} /\ \A m \in DOMAIN declared : declared[m] = 1
    BY <1>3 DEF DeclaredOnce
  <2>2. DOMAIN Declare(declared, {n}) = DOMAIN declared \cup {n}
    BY <2>1, DeclareFacts
  <2>3. \A m \in DOMAIN declared \cup {n} : Declare(declared, {n})[m] = 1
    BY <2>1, DeclareFacts
  <2> QED BY <1>1, <2>2, <2>3
<1>12. DeclaredOnce'
  BY <1>1, <1>11 DEF DeclaredOnce
<1>13. InOutput'
  <2>1. ASSUME NEW m \in pending' \cap program.floats
        PROVE  <<Prefix>> \o m \notin DOMAIN declared'
    <3>1. PICK e : e = <<Prefix>> \o m
      OBVIOUS
    <3>2. m \in Symbols /\ m \in Seq(Nat) /\ m # End
      BY <2>1, ProgramFacts
    <3>3. e \notin program.counters
      BY <1>1, <3>1, <3>2, PrefixOf, DerivativeFacts
    <3>4. e \notin DOMAIN declared
      BY <1>1, <2>1, <3>1 DEF InOutput
    <3> QED BY <1>1, <1>11, <3>1, <3>3, <3>4
  <2>2. DOMAIN declared' \subseteq DOMAIN table' /\ pending' \cap DOMAIN declared' = {}
    BY <1>1, <1>6, <1>11 DEF InOutput
  <2>3. \A m \in DOMAIN table' \ Symbols : m \in DOMAIN declared' \/ (phase = "sigma" /\ Tangent(m))
    BY <1>1, <1>6, <1>11 DEF InOutput
  <2> QED BY <1>1, <1>5, <2>1, <2>2, <2>3 DEF InOutput
<1> QED BY <1>5, <1>8, <1>9, <1>10, <1>12, <1>13

(* The next intermediate of an expression is no name of the program. *)
LEMMA IntermediateFacts ==
  ASSUME TableInv, GetIntermediateName, NEW v, v = Intermediate(count)
  PROVE  /\ v \in Seq(Nat) /\ v # End /\ Len(v) = 1 /\ v[1] >= 300 /\ WellPrefixed(v)
         /\ v \notin Symbols \cup program.counters
<1> USE DEF TableInv
<1>1. lengths # <<>> /\ count < Head(lengths) /\ phase \in {"tau", "sigma"}
  BY DEF GetIntermediateName
<1>2. PICK o \in 0..8 : order = o
  BY <1>1, OrderFacts
<1>3. PICK c \in Nat : count = c
  BY DEF TableTyped
<1>4. PICK r \in Nat : r = 300 + 10 * c + o
  OBVIOUS
<1>5. v = <<r>>
  BY <1>2, <1>3, <1>4 DEF Intermediate
<1>6. v \in Seq(Nat) /\ v # End /\ Len(v) = 1 /\ v[1] = r
  BY <1>5 DEF End
<1>7. r >= 300
  BY <1>4
<1>8. WellPrefixed(v)
  BY <1>6 DEF WellPrefixed
<1>9. 1 \in DOMAIN lengths /\ count < lengths[1]
  BY <1>1, EmptySeq DEF TableTyped
<1>10. v \notin Symbols \cup program.counters
  BY <1>1, <1>3, <1>9, OrderFacts
<1> QED BY <1>6, <1>7, <1>8, <1>10

LEMMA GetIntermediateNameInv ==
  ASSUME TableInv, GetIntermediateName
  PROVE  TableInv'
<1> USE DEF TableInv
<1>0. PICK v : v = Intermediate(count)
  OBVIOUS
<1>01. PICK d : d = <<Prefix>> \o v
  OBVIOUS
<1>02. PICK t : t = Inserted(table, v, "intermediate")
  OBVIOUS
<1>1. /\ phase \in {"tau", "sigma"} /\ phase' = phase /\ program' = program /\ it' = it
      /\ pending = {} /\ pending' = pending /\ lengths' = lengths
      /\ table' = Inserted(t, d, "intermediate")
      /\ following' = following /\ order' = order /\ count' = count + 1
      /\ declared' = Declare(declared, {v, d} \ DOMAIN table) /\ used' = used \cup {v, d}
      /\ failed' = (Rejected(v, "intermediate") \/ Rejected(d, "intermediate"))
  BY <1>0, <1>01, <1>02 DEF GetIntermediateName
<1>2. /\ v \in Seq(Nat) /\ v # End /\ Len(v) = 1 /\ v[1] >= 300 /\ WellPrefixed(v)
      /\ v \notin Symbols \cup program.counters
  BY <1>0, IntermediateFacts
<1>3. /\ d \in Seq(Nat) /\ d # End /\ Len(d) > 1 /\ d[1] = Prefix /\ WellPrefixed(d)
      /\ d \notin Symbols \cup program.counters
  BY <1>01, <1>1, <1>2, PrefixOf, DerivativeFacts
<1>4. Symbols' = Symbols /\ Prefix' = Prefix /\ Known = Symbols /\ Known' = Symbols
      /\ OrderKnown' /\ \A m : Tangent(m)' <=> Tangent(m)
  BY <1>1, SameOrder DEF Prefix, Tangent
<1>5. DOMAIN t = DOMAIN table \cup {v} /\ DOMAIN table' = DOMAIN table \cup {v, d}
  <2>1. DOMAIN t = DOMAIN table \cup {v}
    BY <1>02, InsertedFacts
  <2>2. DOMAIN table' = DOMAIN t \cup {d}
    BY <1>1, InsertedFacts
  <2> QED BY <2>1, <2>2
<1>6. \A m \in DOMAIN table : table'[m] = table[m]
  <2>1. \A m \in DOMAIN table : t[m] = table[m]
    BY <1>02 DEF Inserted
  <2>2. \A m \in DOMAIN t : table'[m] = t[m]
    BY <1>1 DEF Inserted
  <2> QED BY <1>5, <2>1, <2>2
<1>7. \A m \in {v, d} : m \notin DOMAIN table => table'[m] = "intermediate"
  <2>1. v \notin DOMAIN table => t[v] = "intermediate"
    BY <1>02 DEF Inserted
  <2>2. \A m \in DOMAIN t : table'[m] = t[m]
    BY <1>1 DEF Inserted
  <2>3. d \notin DOMAIN t => table'[d] = "intermediate"
    BY <1>1 DEF Inserted
  <2> QED BY <1>2, <1>3, <1>5, <2>1, <2>2, <2>3
<1>8. TableTyped'
  <2>1. /\ IsFiniteSet(DOMAIN t)
        /\ t \in [DOMAIN t -> {"ordinary", "derivative", "intermediate"}]
        /\ \A m \in DOMAIN t : m \in Seq(Nat) /\ m # End
    BY <1>02, <1>2, InsertedTyped DEF TableTyped
  <2>2. /\ IsFiniteSet(DOMAIN table')
        /\ table' \in [DOMAIN table' -> {"ordinary", "derivative", "intermediate"}]
        /\ \A m \in DOMAIN table' : m \in Seq(Nat) /\ m # End
    BY <1>1, <1>3, <2>1, InsertedTyped
  <2> QED BY <1>1, <1>4, <2>2 DEF TableTyped
<1>9. SymbolsKept' /\ Clearing'
  BY <1>1, <1>4, <1>5, <1>6 DEF SymbolsKept, Clearing
<1>10. NeverFails'
  BY <1>1, <1>2, <1>3 DEF NeverFails, Rejected
<1>11. /\ DOMAIN declared' = DOMAIN declared \cup ({v, d} \ DOMAIN table)
       /\ \A m \in DOMAIN declared' : declared'[m] = 1
  <2>1. PICK new : new = {v, d} \ DOMAIN table
    OBVIOUS
  <2>2. new \cap DOMAIN declared = {} /\ \A m \in DOMAIN declared : declared[m] = 1
    BY <1>1, <2>1 DEF InOutput, DeclaredOnce
  <2>3. DOMAIN Declare(declared, new) = DOMAIN declared \cup new
    BY <2>2, DeclareFacts
  <2>4. \A m \in DOMAIN declared \cup new : Declare(declared, new)[m] = 1
    BY <2>2, DeclareFacts
  <2> QED BY <1>1, <2>1, <2>3, <2>4
<1>12. {v, d} \subseteq DOMAIN declared'
  <2>0. ~Tangent(v)
    BY <1>2 DEF Tangent
  <2>1. v \in DOMAIN table => v \in DOMAIN declared
    BY <1>1, <1>2, <2>0 DEF InOutput
  <2>2. d \in DOMAIN table => d \in DOMAIN declared
    BY <1>1, <1>3, PrefixOf DEF InOutput, Tangent
  <2> QED BY <1>11, <2>1, <2>2
<1>13. DeclaredOnce'
  <2>1. used' \subseteq DOMAIN declared'
    BY <1>1, <1>11, <1>12 DEF DeclaredOnce
  <2>2. used' \cap Symbols = {}
    BY <1>1, <1>2, <1>3 DEF DeclaredOnce, Symbols
  <2> QED BY <1>1, <1>11, <2>1, <2>2 DEF DeclaredOnce, Symbols
<1>14. TangentNames'
  <2> SUFFICES ASSUME phase = "tau"
               PROVE  TangentNames'
    BY <1>1 DEF TangentNames
  <2>1. Prefix = TlPrefix(order + 1)
    BY PrefixOf
  <2>2. Tangent(d)
    BY <1>3, <2>1 DEF Tangent
  <2>3. \A m \in DOMAIN table' \ Symbols : Removable(m)'
    BY <1>5, <1>6, <1>7 DEF TangentNames, Removable
  <2>4. ~(d[1] >= 300)
    <3>1. PICK o \in 0..8 : order = o
      BY OrderFacts
    <3>2. d[1] = TlPrefix(o + 1)
      BY <1>3, <2>1, <3>1
    <3>3. TlPrefix(o + 1) \in Nat /\ TlPrefix(o + 1) < 300
      BY PrefixFacts
    <3> QED BY <3>2, <3>3
  <2>5. \A m \in DOMAIN table' \ Symbols : Tangent(m) \/ m[1] >= 300
    BY <1>2, <1>5, <2>2 DEF TangentNames
  <2>6. \A m \in DOMAIN table' \ Symbols :
           m[1] >= 300 => <<TlPrefix(order + 1)>> \o m \in DOMAIN table'
    BY <1>01, <1>5, <2>1, <2>4 DEF TangentNames
  <2>7. \A m \in program.floats \ pending' :
           <<TlPrefix(order + 1)>> \o m \in DOMAIN table'
    BY <1>1, <1>5 DEF TangentNames
  <2> QED BY <1>1, <1>4, <2>3, <2>5, <2>6, <2>7 DEF TangentNames
<1>15. InOutput'
  <2>1. DOMAIN declared' \subseteq DOMAIN table'
    BY <1>1, <1>5, <1>11 DEF InOutput
  <2>2. \A m \in DOMAIN table' \ Symbols : m \in DOMAIN declared' \/ (phase = "sigma" /\ Tangent(m))
    BY <1>1, <1>5, <1>11, <1>12 DEF InOutput
  <2> QED BY <1>1, <1>4, <2>1, <2>2 DEF InOutput
<1> QED BY <1>4, <1>8, <1>9, <1>10, <1>13, <1>14, <1>15

LEMMA NextTable ==
  ASSUME TableInv, [Next]_vars
  PROVE  TableInv'
<1>1. ASSUME NEW n \in pending, ParseDeclaration(n)
      PROVE  TableInv'
  BY <1>1, ParseDeclarationInv
<1>2. ASSUME NEW n \in pending, TransformDeclaration(n)
      PROVE  TableInv'
  BY <1>2, CopyDeclarationInv, DeclareDerivativeInv
<1>3. ASSUME NEW n \in pending, DeclareCounter(n)
      PROVE  TableInv'
  BY <1>3, DeclareCounterInv
<1>4. CASE BeginClear
  BY <1>4, BeginClearInv
<1>5. CASE ClearStep
  BY <1>5, ClearStepInv
<1>6. CASE BeginTransformation
  BY <1>6, BeginTransformationInv
<1>7. CASE GetIntermediateName
  BY <1>7, GetIntermediateNameInv
<1>8. CASE NextExpression
  BY <1>8, NextExpressionInv
<1>9. CASE Finish
  BY <1>9, FinishInv
<1>10. CASE UNCHANGED vars
  BY <1>10, StutteringInv
<1> QED BY <1>1, <1>2, <1>3, <1>4, <1>5, <1>6, <1>7, <1>8, <1>9, <1>10 DEF Next

(* What the table holds, what the iterator of clear_intermediates has left *)
(* behind it and what the output declares stay in step through the parser, *)
(* both clearings and both transformations (symbol_table.cpp:38-137).      *)
THEOREM TableInvariant == Spec => []TableInv
BY InitTable, NextTable, PTL DEF Spec

(* No assertion of the table fails: no symbol that a transformation asks   *)
(* for has been removed, no ordinary symbol is entered twice, and every    *)
(* prefix decreases (symbol_table.cpp:46, 103-112, 125-137).               *)
THEOREM AssertionsHold == Spec => []NeverFails
BY TableInvariant, PTL DEF TableInv

(* Whatever names the program has and whatever tau has left in the table,  *)
(* the output declares everything it uses, and everything once             *)
(* (symbol_table.cpp:70-81, ast_vertex.cpp:365-400).                       *)
THEOREM DeclarationsAreSingle == Spec => []DeclaredOnce
BY TableInvariant, PTL DEF TableInv

(* When the clearing ends it has removed every name of tau but at most one *)
(* derivative, the first name of the table, and no symbol of the program   *)
(* (symbol_table.cpp:73-80).                                               *)
THEOREM ClearingLeavesOne == Spec => []ClearedButOne
<1>1. ASSUME TableInv
      PROVE  ClearedButOne
  <2> USE <1>1 DEF TableInv
  <2> SUFFICES ASSUME phase = "clear", it = End
               PROVE  ClearedButOne
    BY DEF ClearedButOne
  <2> DEFINE D == DOMAIN table
             kept == {n \in D : Removable(n)}
  <2>1. Symbols \subseteq D /\ D \subseteq Seq(Nat) /\ Known = Symbols
    BY DEF SymbolsKept, Known, TableTyped
  <2>2. \A n \in kept : IsFirst(n, D)
    BY DEF Clearing
  <2>3. \A n \in kept : following = "sigma"
    BY <2>1 DEF SymbolsKept, Removable, TableTyped
  <2>4. \A n \in kept : n[1] = TlPrefix(order + 1)
    BY <2>2, <2>3 DEF Clearing, Tangent
  <2>5. Cardinality(kept) <= 1
    <3>1. \A m \in kept : \A n \in kept : m = n
      BY <2>1, <2>2, FirstUnique
    <3>2. kept = {} \/ \E n \in kept : kept = {n}
      BY <3>1
    <3> HIDE DEF kept
    <3>3. CASE kept = {}
      BY <3>3, FS_EmptySet
    <3>4. ASSUME NEW n \in kept, kept = {n}
          PROVE  Cardinality(kept) <= 1
      <4>1. Cardinality({n}) = 1
        BY FS_Singleton
      <4> QED BY <3>4, <4>1
    <3> QED BY <3>2, <3>3, <3>4
  <2> QED BY <2>1, <2>4, <2>5 DEF ClearedButOne, Symbols
<1> QED BY <1>1, TableInvariant, PTL
=============================================================================

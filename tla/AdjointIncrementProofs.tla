------------------------ MODULE AdjointIncrementProofs ------------------------
(***************************************************************************)
(* No increment of an adjoint is lost in a region whose locations are each *)
(* read either always inside critical constructs or always outside, unless *)
(* the option that suppresses the atomic pragmas is given.                 *)
(***************************************************************************)
EXTENDS AdjointIncrement, FiniteSetTheorems, SequenceTheorems, TLAPS

Read == [loc : Location, critical : BOOLEAN]
Elements(s) == { s[k] : k \in DOMAIN s }

(* The assumption on the region and on the option. *)
Separated ==
  /\ SuppressAtomic = FALSE
  /\ \A r, s \in Reads : \A a \in Elements(r), b \in Elements(s) :
       a.loc = b.loc => a.critical = b.critical

(* The reads still to be reversed are some of those the region made. *)
Left ==
  /\ reads \in [Thread -> Seq(Read)]
  /\ \A x \in exclusive : OnlyOneReader(reads, x)
  /\ \A t, u \in Thread : \A a \in Elements(reads[t]), b \in Elements(reads[u]) :
       a.loc = b.loc => a.critical = b.critical

Types ==
  /\ pc \in [Thread -> {"next", "inside", "loaded"}]
  /\ reg \in [Thread -> Nat] /\ a1 \in [Location -> Nat]
  /\ lock \in Thread \cup {NoThread}

(* What protects the increment of a thread that has loaded the adjoint. *)
Protected(t) ==
  /\ pc[t] # "next" => reads[t] # <<>>
  /\ pc[t] = "inside" => Here(t).critical
  /\ pc[t] # "next" /\ Here(t).critical => lock = t
  /\ pc[t] = "loaded" /\ ~Here(t).critical => Here(t).loc \in exclusive
  /\ pc[t] = "loaded" => reg[t] = a1[Here(t).loc]

IncrementInv == Types /\ Left /\ \A t \in Thread : Protected(t)

(* The first element of a sequence and those behind it are its elements. *)
LEMMA HeadTail ==
  ASSUME NEW S, NEW s \in Seq(S), s # <<>>
  PROVE  /\ Head(s) \in S /\ Head(s) \in Elements(s)
         /\ Tail(s) \in Seq(S) /\ Elements(Tail(s)) \subseteq Elements(s)
<1>1. Len(s) \in Nat /\ Len(s) # 0 /\ DOMAIN s = 1..Len(s)
  OBVIOUS
<1>2. Head(s) = s[1] /\ 1 \in DOMAIN s /\ s[1] \in S
  BY <1>1
<1>3. /\ Tail(s) \in Seq(S) /\ Len(Tail(s)) = Len(s) - 1
      /\ \A i \in 1..(Len(s) - 1) : Tail(s)[i] = s[i + 1]
  BY HeadTailProperties
<1>4. ASSUME NEW i \in DOMAIN Tail(s)
      PROVE  Tail(s)[i] \in Elements(s)
  <2>1. i \in 1..(Len(s) - 1)
    BY <1>3
  <2>2. i + 1 \in DOMAIN s
    BY <1>1, <2>1
  <2> QED BY <1>3, <2>1, <2>2 DEF Elements
<1>5. Elements(Tail(s)) \subseteq Elements(s)
  BY <1>4 DEF Elements
<1>6. Head(s) \in Elements(s)
  BY <1>2 DEF Elements
<1> QED BY <1>2, <1>3, <1>5, <1>6

(* The location of a read is one of the locations its thread reads. *)
LEMMA LocsOf ==
  ASSUME NEW s
  PROVE  Locs(s) = { a.loc : a \in Elements(s) }
BY DEF Locs, Elements

(* Dropping reads keeps what is known of the others. *)
LEMMA LeftShrinks ==
  ASSUME Left, exclusive' = exclusive, reads' \in [Thread -> Seq(Read)],
         \A t \in Thread : Elements(reads'[t]) \subseteq Elements(reads[t])
  PROVE  Left'
<1>1. \A t \in Thread : Locs(reads'[t]) \subseteq Locs(reads[t])
  BY LocsOf
<1>2. \A x \in exclusive' : OnlyOneReader(reads', x)
  BY <1>1 DEF Left, OnlyOneReader
<1>3. \A t, u \in Thread : \A a \in Elements(reads'[t]), b \in Elements(reads'[u]) :
        a.loc = b.loc => a.critical = b.critical
  BY DEF Left
<1> QED BY <1>2, <1>3 DEF Left, OnlyOneReader, Locs, Elements

(* Without a read done nothing changes in that. *)
LEMMA LeftStays ==
  ASSUME Left, exclusive' = exclusive, reads' = reads
  PROVE  Left'
<1>1. reads' \in [Thread -> Seq(Read)]
  BY DEF Left
<1> QED BY <1>1, LeftShrinks

(* The read at hand is one of its thread. *)
LEMMA HereFacts ==
  ASSUME IncrementInv, NEW t \in Thread, reads[t] # <<>>
  PROVE  /\ Here(t).loc \in Location /\ Here(t).critical \in BOOLEAN
         /\ Here(t) \in Elements(reads[t]) /\ Here(t).loc \in Locs(reads[t])
         /\ Tail(reads[t]) \in Seq(Read)
         /\ Elements(Tail(reads[t])) \subseteq Elements(reads[t])
<1>1. reads[t] \in Seq(Read)
  BY DEF IncrementInv, Left
<1>2. Here(t) \in Read /\ Here(t) \in Elements(reads[t])
  BY <1>1, HeadTail DEF Here
<1>3. Here(t).loc \in Locs(reads[t])
  BY <1>2, LocsOf
<1> QED BY <1>1, <1>2, <1>3, HeadTail DEF Read

(* A thread that is done with a read leaves the others alone. *)
LEMMA DoneFacts ==
  ASSUME IncrementInv, NEW t \in Thread, reads[t] # <<>>, Done(t), exclusive' = exclusive
  PROVE  /\ Left'
         /\ \A u \in Thread : u # t => reads'[u] = reads[u]
<1>1. /\ reads' \in [Thread -> Seq(Read)]
      /\ reads'[t] = Tail(reads[t])
      /\ \A u \in Thread : u # t => reads'[u] = reads[u]
  BY HereFacts DEF Done, IncrementInv, Left
<1>2. \A u \in Thread : Elements(reads'[u]) \subseteq Elements(reads[u])
  BY <1>1, HereFacts
<1> QED BY <1>1, <1>2, LeftShrinks DEF IncrementInv

(* Two threads that reach the same location, the second without an atomic  *)
(* increment, are the same: the lock or the analysis keeps them apart.     *)
LEMMA Apart ==
  ASSUME IncrementInv, NEW t \in Thread, NEW u \in Thread, u # t,
         reads[t] # <<>>, pc[u] = "loaded",
         \/ pc[t] = "loaded"
         \/ Waiting(t) /\ AtomicNeeded(t)
  PROVE  Here(t).loc # Here(u).loc
<1> SUFFICES ASSUME Here(t).loc = Here(u).loc
             PROVE  FALSE
  OBVIOUS
<1>1. reads[u] # <<>> /\ Protected(u) /\ Protected(t)
  BY DEF IncrementInv, Protected
<1>2. Here(t) \in Elements(reads[t]) /\ Here(u) \in Elements(reads[u])
  BY <1>1, HereFacts
<1>3. Here(t).critical = Here(u).critical
  BY <1>2 DEF IncrementInv, Left
<1>4. CASE Here(u).critical
  <2>1. lock = u
    BY <1>1, <1>4 DEF Protected
  <2>2. pc[t] = "loaded"
    BY <1>3, <1>4 DEF AtomicNeeded
  <2> QED BY <1>1, <1>3, <1>4, <2>1, <2>2 DEF Protected
<1>5. CASE ~Here(u).critical
  <2>1. Here(u).loc \in exclusive
    BY <1>1, <1>5 DEF Protected
  <2>2. OnlyOneReader(reads, Here(u).loc)
    BY <2>1 DEF IncrementInv, Left
  <2>3. Here(t).loc \in Locs(reads[t]) /\ Here(u).loc \in Locs(reads[u])
    BY <1>1, HereFacts
  <2> QED BY <2>2, <2>3 DEF OnlyOneReader
<1> QED BY <1>4, <1>5

(* A loaded thread stores the adjoint as it stands, plus its own share. *)
LEMMA StoreFacts ==
  ASSUME IncrementInv, NEW t \in Thread, Store(t)
  PROVE  /\ reads[t] # <<>>
         /\ Here(t).loc \in Location
         /\ a1' = [a1 EXCEPT ![Here(t).loc] = @ + 1]
<1>1. reads[t] # <<>> /\ reg[t] = a1[Here(t).loc]
  BY DEF Store, IncrementInv, Protected
<1> QED BY <1>1, HereFacts DEF Store

\* An atomic increment is made outside of critical constructs, of a location that is not held exclusive.
LEMMA AtomicFacts ==
  ASSUME IncrementInv, NEW t \in Thread, AtomicIncrement(t)
  PROVE  /\ reads[t] # <<>>
         /\ Here(t).loc \in Location
         /\ a1' = [a1 EXCEPT ![Here(t).loc] = @ + 1]
<1>1. reads[t] # <<>>
  BY DEF AtomicIncrement, Waiting
<1> QED BY <1>1, HereFacts DEF AtomicIncrement

(* Each step of a thread keeps the invariant. *)
LEMMA IncrementStep ==
  ASSUME Separated, IncrementInv, [Next]_vars
  PROVE  IncrementInv'
<1>1. ASSUME NEW t \in Thread, AtomicIncrement(t)
      PROVE  IncrementInv'
  <2>1. /\ reads[t] # <<>> /\ Here(t).loc \in Location /\ Done(t)
        /\ a1' = [a1 EXCEPT ![Here(t).loc] = @ + 1]
        /\ pc[t] = "next" /\ pc' = pc /\ reg' = reg /\ lock' = lock /\ exclusive' = exclusive
    BY <1>1, AtomicFacts DEF AtomicIncrement, Waiting
  <2>2. Left' /\ \A u \in Thread : u # t => reads'[u] = reads[u]
    BY <2>1, DoneFacts
  <2>a. a1[Here(t).loc] + 1 \in Nat
    BY <2>1 DEF IncrementInv, Types
  <2>3. Types'
    BY <2>1, <2>a DEF IncrementInv, Types
  <2>4. ASSUME NEW u \in Thread
        PROVE  Protected(u)'
    <3>1. CASE u = t
      BY <2>1, <3>1 DEF Protected
    <3>2. CASE u # t
      <4>1. Protected(u) /\ Here(u)' = Here(u)
        BY <2>2, <3>2 DEF IncrementInv, Here
      <4>2. pc[u] = "loaded" => Here(t).loc # Here(u).loc
        BY <1>1, <2>1, <3>2, Apart DEF AtomicIncrement
      <4>3. pc[u] = "loaded" => Here(u).loc \in Location
        BY <4>1, HereFacts DEF Protected
      <4>4. pc[u] = "loaded" => a1'[Here(u).loc] = a1[Here(u).loc]
        BY <2>1, <4>2, <4>3 DEF IncrementInv, Types
      <4> QED BY <2>1, <2>2, <3>2, <4>1, <4>4 DEF Protected
    <3> QED BY <3>1, <3>2
  <2> QED BY <2>2, <2>3, <2>4 DEF IncrementInv
<1>2. ASSUME NEW t \in Thread, EnterCritical(t)
      PROVE  IncrementInv'
  <2>1. /\ reads[t] # <<>> /\ Here(t).critical /\ lock = NoThread /\ lock' = t
        /\ pc' = [pc EXCEPT ![t] = "inside"]
        /\ reads' = reads /\ reg' = reg /\ a1' = a1 /\ exclusive' = exclusive
    BY <1>2 DEF EnterCritical, Waiting, Goto
  <2>2. Left'
    BY <2>1, LeftStays DEF IncrementInv
  <2>3. Types'
    BY <2>1 DEF IncrementInv, Types
  <2>4. ASSUME NEW u \in Thread
        PROVE  Protected(u)'
    <3>1. Protected(u) /\ Here(u)' = Here(u)
      BY <2>1 DEF IncrementInv, Here
    <3>2. CASE u = t
      BY <2>1, <3>1, <3>2 DEF IncrementInv, Types, Protected
    <3>3. CASE u # t
      <4>1. lock # u
        BY <2>1, ConstantsAssumption
      <4> QED BY <2>1, <3>1, <3>3, <4>1 DEF IncrementInv, Types, Protected
    <3> QED BY <3>2, <3>3
  <2> QED BY <2>2, <2>3, <2>4 DEF IncrementInv
<1>3. ASSUME NEW t \in Thread, Load(t)
      PROVE  IncrementInv'
  <2>1. /\ reg' = [reg EXCEPT ![t] = a1[Here(t).loc]]
        /\ pc' = [pc EXCEPT ![t] = "loaded"]
        /\ reads' = reads /\ a1' = a1 /\ lock' = lock /\ exclusive' = exclusive
    BY <1>3 DEF Load, Goto
  <2>2. /\ reads[t] # <<>>
        /\ Here(t).critical => lock = t
        /\ ~Here(t).critical => Here(t).loc \in exclusive
    BY <1>3 DEF Load, Waiting, AtomicNeeded, Separated, IncrementInv, Protected
  <2>3. a1[Here(t).loc] \in Nat
    BY <2>2, HereFacts DEF IncrementInv, Types
  <2>4. Left'
    BY <2>1, LeftStays DEF IncrementInv
  <2>5. Types'
    BY <2>1, <2>3 DEF IncrementInv, Types
  <2>6. ASSUME NEW u \in Thread
        PROVE  Protected(u)'
    <3>1. Protected(u) /\ Here(u)' = Here(u)
      BY <2>1 DEF IncrementInv, Here
    <3>2. CASE u = t
      BY <2>1, <2>2, <3>1, <3>2 DEF IncrementInv, Types, Protected
    <3>3. CASE u # t
      BY <2>1, <3>1, <3>3 DEF IncrementInv, Types, Protected
    <3> QED BY <3>2, <3>3
  <2> QED BY <2>4, <2>5, <2>6 DEF IncrementInv
<1>4. ASSUME NEW t \in Thread, Store(t)
      PROVE  IncrementInv'
  <2>1. /\ reads[t] # <<>> /\ Here(t).loc \in Location /\ Done(t)
        /\ a1' = [a1 EXCEPT ![Here(t).loc] = @ + 1]
        /\ lock' = IF Here(t).critical THEN NoThread ELSE lock
        /\ pc[t] = "loaded" /\ pc' = [pc EXCEPT ![t] = "next"]
        /\ reg' = reg /\ exclusive' = exclusive
    BY <1>4, StoreFacts DEF Store, Goto
  <2>2. Left' /\ \A u \in Thread : u # t => reads'[u] = reads[u]
    BY <2>1, DoneFacts
  <2>3. Types'
    BY <2>1 DEF IncrementInv, Types
  <2>4. ASSUME NEW u \in Thread
        PROVE  Protected(u)'
    <3>1. CASE u = t
      BY <2>1, <3>1 DEF Protected, IncrementInv, Types
    <3>2. CASE u # t
      <4>1. Protected(u) /\ Protected(t) /\ Here(u)' = Here(u) /\ pc'[u] = pc[u]
        BY <2>1, <2>2, <3>2 DEF IncrementInv, Types, Here
      <4>2. pc[u] = "loaded" => Here(t).loc # Here(u).loc
        BY <2>1, <3>2, Apart
      <4>3. pc[u] = "loaded" => Here(u).loc \in Location
        BY <4>1, HereFacts DEF Protected
      <4>4. pc[u] = "loaded" => a1'[Here(u).loc] = a1[Here(u).loc]
        BY <2>1, <4>2, <4>3 DEF IncrementInv, Types
      <4>5. lock = u => lock' = u
        BY <2>1, <3>2, <4>1 DEF Protected
      <4> QED BY <2>1, <2>2, <3>2, <4>1, <4>4, <4>5 DEF Protected
    <3> QED BY <3>1, <3>2
  <2> QED BY <2>2, <2>3, <2>4 DEF IncrementInv
<1>5. CASE UNCHANGED vars
  BY <1>5 DEF vars, IncrementInv, Types, Left, OnlyOneReader, Locs, Elements, Protected, Here
<1> QED BY <1>1, <1>2, <1>3, <1>4, <1>5 DEF Next, Terminated

(* The region is entered with the locks free and nothing loaded. *)
LEMMA IncrementInit ==
  ASSUME Separated, Init
  PROVE  IncrementInv
<1>1. Types /\ \A t \in Thread : Protected(t)
  BY DEF Init, Types, Protected
<1>2. \A t \in Thread : reads[t] \in Reads
  BY DEF Init
<1>3. reads \in [Thread -> Seq(Read)]
  BY <1>2, ConstantsAssumption DEF Init, Read
<1>4. \A x \in exclusive : OnlyOneReader(reads, x)
  BY DEF Init
<1>5. Left
  BY <1>2, <1>3, <1>4 DEF Left, Separated
<1> QED BY <1>1, <1>5 DEF IncrementInv

(* Every reversed read adds its share to the adjoint as it stands: the     *)
(* store of a plain increment never overwrites what another thread has     *)
(* added, for any team and any reads that the locations keep separate.     *)
THEOREM NoIncrementOverwritten ==
  ASSUME Separated
  PROVE  Spec => IncrementsKept
<1>1. Init => IncrementInv
  BY IncrementInit
<1>2. IncrementInv /\ [Next]_vars => IncrementInv'
  BY IncrementStep
<1>3. IncrementInv /\ [Next]_vars => [Kept]_vars
  <2> SUFFICES ASSUME IncrementInv, Next, NEW t \in Thread, reads'[t] # reads[t]
               PROVE  a1' = [a1 EXCEPT ![Here(t).loc] = @ + 1]
    BY DEF Kept
  <2>1. ASSUME NEW u \in Thread, AtomicIncrement(u) \/ Store(u)
        PROVE  u = t
    BY <2>1 DEF AtomicIncrement, Store, Done, IncrementInv, Left
  <2>2. \E u \in Thread : AtomicIncrement(u) \/ Store(u)
    BY DEF Next, Terminated, vars, EnterCritical, Load
  <2> QED BY <2>1, <2>2, AtomicFacts, StoreFacts
<1> QED BY <1>1, <1>2, <1>3, PTL DEF Spec, IncrementsKept

(* The reads of a location are finitely many. *)
LEMMA ReadsOfFinite ==
  ASSUME IsFiniteSet(Thread), NEW r \in [Thread -> Seq(Read)], NEW x
  PROVE  /\ IsFiniteSet(ReadsOf(r, x)) /\ Cardinality(ReadsOf(r, x)) \in Nat
         /\ \A p : p \in ReadsOf(r, x) <=>
                     \E t \in Thread : \E k \in DOMAIN r[t] : p = <<t, k>> /\ r[t][k].loc = x
<1> DEFINE mine(t) == {t} \X { k \in DOMAIN r[t] : r[t][k].loc = x }
           f == [t \in Thread |-> mine(t)]
           all == { mine(t) : t \in Thread }
<1>1. ASSUME NEW t \in Thread
      PROVE  IsFiniteSet(mine(t))
  <2>0. Len(r[t]) \in Int /\ 1 \in Int
    OBVIOUS
  <2>a. IsFiniteSet({t})
    BY FS_Singleton
  <2>1. IsFiniteSet(1..Len(r[t])) /\ IsFiniteSet({t})
    BY <2>0, <2>a, FS_Interval
  <2>2. { k \in DOMAIN r[t] : r[t][k].loc = x } \subseteq 1..Len(r[t])
    OBVIOUS
  <2> QED BY <2>1, <2>2, FS_Subset, FS_Product
<1>2. f \in Surjection(Thread, all)
  BY DEF Surjection
<1>3. IsFiniteSet(all)
  BY <1>2, FS_Surjection
<1>4. \A T \in all : IsFiniteSet(T)
  BY <1>1
<1>5. ReadsOf(r, x) = UNION all
  BY DEF ReadsOf
<1>6. IsFiniteSet(ReadsOf(r, x))
  BY <1>3, <1>4, <1>5, FS_UNION
<1> HIDE DEF all, f
<1>7. \A p : p \in ReadsOf(r, x) <=> \E t \in Thread : p \in mine(t)
  BY <1>5 DEF all
<1>8. ASSUME NEW p, NEW t \in Thread
      PROVE  p \in mine(t) <=> \E k \in DOMAIN r[t] : p = <<t, k>> /\ r[t][k].loc = x
  OBVIOUS
<1> HIDE DEF mine
<1>9. \A p : p \in ReadsOf(r, x) <=>
        \E t \in Thread : \E k \in DOMAIN r[t] : p = <<t, k>> /\ r[t][k].loc = x
  BY <1>7, <1>8
<1> QED BY <1>6, <1>9, FS_CardinalityType

(* A thread that is done with its first read leaves one read less of the   *)
(* location of that read, and as many of every other.                      *)
LEMMA OneReadLess ==
  ASSUME IsFiniteSet(Thread), NEW r \in [Thread -> Seq(Read)], NEW t \in Thread, r[t] # <<>>,
         NEW x
  PROVE  LET s == [r EXCEPT ![t] = Tail(@)]
         IN  Cardinality(ReadsOf(r, x)) =
               Cardinality(ReadsOf(s, x)) + (IF Head(r[t]).loc = x THEN 1 ELSE 0)
<1> DEFINE s == [r EXCEPT ![t] = Tail(@)]
           rest == ReadsOf(r, x) \ {<<t, 1>>}
           g == [p \in ReadsOf(s, x) |-> IF p[1] = t THEN <<t, p[2] + 1>> ELSE p]
<1>1. /\ Len(r[t]) \in Nat \ {0} /\ DOMAIN r[t] = 1..Len(r[t]) /\ Head(r[t]) = r[t][1]
      /\ Tail(r[t]) \in Seq(Read) /\ DOMAIN Tail(r[t]) = 1..(Len(r[t]) - 1)
      /\ \A k \in 1..(Len(r[t]) - 1) : Tail(r[t])[k] = r[t][k + 1]
  <2>1. r[t] \in Seq(Read)
    OBVIOUS
  <2>2. Len(r[t]) # 0
    BY <2>1
  <2> QED BY <2>1, <2>2, HeadTailProperties
<1>2. s \in [Thread -> Seq(Read)] /\ s[t] = Tail(r[t]) /\ \A u \in Thread \ {t} : s[u] = r[u]
  BY <1>1
<1> HIDE DEF s
<1>i. \A p : p \in ReadsOf(s, x) <=>
        \E u \in Thread : \E k \in DOMAIN s[u] : p = <<u, k>> /\ s[u][k].loc = x
  BY <1>2, ReadsOfFinite
<1>3. ASSUME NEW p \in ReadsOf(s, x)
      PROVE  g[p] \in rest
  <2>10. PICK u \in Thread : \E k \in DOMAIN s[u] : p = <<u, k>> /\ s[u][k].loc = x
    BY <1>2, ReadsOfFinite
  <2>1. PICK k \in DOMAIN s[u] : p = <<u, k>> /\ s[u][k].loc = x
    BY <2>10
  <2>2. CASE u = t
    <3>1. k \in 1..(Len(r[t]) - 1) /\ r[t][k + 1].loc = x
      BY <1>1, <1>2, <2>1, <2>2
    <3>2. k + 1 \in DOMAIN r[t] /\ k + 1 # 1
      BY <1>1, <3>1
    <3>3. <<t, k + 1>> \in ReadsOf(r, x)
      BY <3>1, <3>2, ReadsOfFinite
    <3>4. <<t, k + 1>> # <<t, 1>>
      BY <3>2
    <3> QED BY <2>1, <2>2, <3>3, <3>4
  <2>3. CASE u # t
    <3>1. <<u, k>> \in ReadsOf(r, x)
      BY <1>2, <2>1, <2>3, ReadsOfFinite
    <3> QED BY <2>1, <2>3, <3>1
  <2> QED BY <2>2, <2>3
<1>4. ASSUME NEW q \in rest
      PROVE  \E p \in ReadsOf(s, x) : g[p] = q
  <2>10. PICK u \in Thread : \E k \in DOMAIN r[u] : q = <<u, k>> /\ r[u][k].loc = x
    BY ReadsOfFinite
  <2>1. PICK k \in DOMAIN r[u] : q = <<u, k>> /\ r[u][k].loc = x
    BY <2>10
  <2>2. CASE u = t
    <3>1. k \in 1..Len(r[t]) /\ k # 1
      BY <1>1, <2>1, <2>2
    <3>2. k - 1 \in 1..(Len(r[t]) - 1) /\ (k - 1) + 1 = k
      BY <1>1, <3>1
    <3>3. k - 1 \in DOMAIN s[t] /\ s[t][k - 1].loc = x
      BY <1>1, <1>2, <2>1, <2>2, <3>2
    <3>4. <<t, k - 1>> \in ReadsOf(s, x)
      BY <1>2, <3>3, ReadsOfFinite
    <3>5. g[<<t, k - 1>>] = q
      BY <2>1, <2>2, <3>2, <3>4
    <3> QED BY <3>4, <3>5
  <2>3. CASE u # t
    <3>1. <<u, k>> \in ReadsOf(s, x)
      BY <1>2, <2>1, <2>3, ReadsOfFinite
    <3>2. g[<<u, k>>] = q
      BY <2>1, <2>3, <3>1
    <3> QED BY <3>1, <3>2
  <2> QED BY <2>2, <2>3
<1>5. ASSUME NEW p \in ReadsOf(s, x), NEW q \in ReadsOf(s, x), g[p] = g[q]
      PROVE  p = q
  <2>10. PICK u \in Thread : \E k \in DOMAIN s[u] : p = <<u, k>>
    BY <1>i
  <2>1. PICK k \in DOMAIN s[u] : p = <<u, k>>
    BY <2>10
  <2>20. PICK v \in Thread : \E j \in DOMAIN s[v] : q = <<v, j>>
    BY <1>i
  <2>2. PICK j \in DOMAIN s[v] : q = <<v, j>>
    BY <2>20
  <2>3. k \in Nat /\ j \in Nat
    BY <1>2, <2>1, <2>2
  <2>4. u = v
    BY <1>5, <2>1, <2>2
  <2>5. k = j
    BY <1>5, <2>1, <2>2, <2>3, <2>4
  <2> QED BY <2>1, <2>2, <2>4, <2>5
<1>f. g \in [ReadsOf(s, x) -> rest]
  BY <1>3
<1> HIDE DEF rest, g
<1>6. ExistsBijection(ReadsOf(s, x), rest)
  <2>2. g \in Bijection(ReadsOf(s, x), rest)
    <3>1. g \in Injection(ReadsOf(s, x), rest)
      BY <1>5, <1>f DEF Injection, IsInjective
    <3>2. g \in Surjection(ReadsOf(s, x), rest)
      BY <1>4, <1>f DEF Surjection
    <3> QED BY <3>1, <3>2 DEF Bijection
  <2> QED BY <2>2 DEF ExistsBijection
<1> USE DEF rest
<1>7. Cardinality(rest) = Cardinality(ReadsOf(s, x)) /\ Cardinality(rest) \in Nat
  BY <1>2, <1>6, ReadsOfFinite, FS_Bijection
<1>8. <<t, 1>> \in ReadsOf(r, x) <=> Head(r[t]).loc = x
  <2>1. 1 \in DOMAIN r[t]
    BY <1>1
  <2>2. <<t, 1>> \in ReadsOf(r, x) <=>
          \E u \in Thread : \E k \in DOMAIN r[u] : <<t, 1>> = <<u, k>> /\ r[u][k].loc = x
    BY ReadsOfFinite
  <2> QED BY <1>1, <2>1, <2>2
<1>9. Cardinality(rest) = IF <<t, 1>> \in ReadsOf(r, x) THEN Cardinality(ReadsOf(r, x)) - 1
                                                        ELSE Cardinality(ReadsOf(r, x))
  BY ReadsOfFinite, FS_RemoveElement
<1>10. Cardinality(ReadsOf(r, x)) \in Nat
  BY ReadsOfFinite
<1> HIDE DEF rest
<1>11. CASE Head(r[t]).loc = x
  BY <1>7, <1>8, <1>9, <1>10, <1>11 DEF s
<1>12. CASE Head(r[t]).loc # x
  BY <1>7, <1>8, <1>9, <1>10, <1>12 DEF s
<1> QED BY <1>11, <1>12 DEF s

(* What an adjoint has been given and what the reads still to be reversed   *)
(* will give it make up what it is due.                                     *)
Accounted ==
  /\ due \in [Location -> Nat]
  /\ \A x \in Location : a1[x] + Cardinality(ReadsOf(reads, x)) = due[x]

(* Every step either leaves reads and adjoints alone or moves one share    *)
(* from the reads to the adjoint.                                          *)
LEMMA AccountedStep ==
  ASSUME IsFiniteSet(Thread), IncrementInv, Accounted, [Next]_vars
  PROVE  Accounted'
<1>1. CASE reads' = reads /\ a1' = a1 /\ due' = due
  BY <1>1 DEF Accounted, ReadsOf
<1>2. ASSUME NEW t \in Thread, AtomicIncrement(t) \/ Store(t)
      PROVE  Accounted'
  <2>1. /\ reads[t] # <<>> /\ Here(t).loc \in Location
        /\ a1' = [a1 EXCEPT ![Here(t).loc] = @ + 1]
        /\ reads' = [reads EXCEPT ![t] = Tail(@)]
        /\ due' = due
    BY <1>2, AtomicFacts, StoreFacts DEF AtomicIncrement, Store, Done
  <2>2. reads \in [Thread -> Seq(Read)] /\ a1 \in [Location -> Nat]
    BY DEF IncrementInv, Types, Left
  <2>3. ASSUME NEW x \in Location
        PROVE  a1'[x] + Cardinality(ReadsOf(reads', x)) = due[x]
    <3>1. Cardinality(ReadsOf(reads, x)) =
            Cardinality(ReadsOf(reads', x)) + (IF Here(t).loc = x THEN 1 ELSE 0)
      <4>1. Cardinality(ReadsOf(reads, x)) =
              Cardinality(ReadsOf([reads EXCEPT ![t] = Tail(@)], x))
                + (IF Head(reads[t]).loc = x THEN 1 ELSE 0)
        BY <2>1, <2>2, OneReadLess
      <4> QED BY <2>1, <4>1 DEF Here
    <3>2. reads' \in [Thread -> Seq(Read)]
      BY <2>1, <2>2, HereFacts
    <3>3. Cardinality(ReadsOf(reads', x)) \in Nat /\ a1[x] \in Nat
      BY <2>2, <3>2, ReadsOfFinite
    <3>4. a1'[x] = a1[x] + (IF Here(t).loc = x THEN 1 ELSE 0)
      BY <2>1, <2>2, <3>3
    <3>5. a1[x] + Cardinality(ReadsOf(reads, x)) = due[x]
      BY DEF Accounted
    <3> QED BY <3>1, <3>3, <3>4, <3>5
  <2> QED BY <2>1, <2>3 DEF Accounted
<1> QED BY <1>1, <1>2 DEF Next, Terminated, vars, EnterCritical, Load

(* When all reads are reversed, each adjoint holds the sum of the shares of *)
(* all reads, in every interleaving of any finite team                      *)
(* (rho.cpp:560-604).                                                       *)
THEOREM NoShareLost ==
  ASSUME Separated, IsFiniteSet(Thread)
  PROVE  Spec => []NothingLost
<1>1. Init => IncrementInv
  BY IncrementInit
<1>2. Init => Accounted
  <2> SUFFICES ASSUME Init PROVE Accounted
    OBVIOUS
  <2>1. reads \in [Thread -> Seq(Read)]
    BY <1>1 DEF IncrementInv, Left
  <2>2. \A x \in Location : Cardinality(ReadsOf(reads, x)) \in Nat
    BY <2>1, ReadsOfFinite
  <2> QED BY <2>2 DEF Init, Accounted
<1>3. IncrementInv /\ [Next]_vars => IncrementInv'
  BY IncrementStep
<1>4. IncrementInv /\ Accounted /\ [Next]_vars => Accounted'
  BY AccountedStep
<1>5. IncrementInv /\ Accounted => NothingLost
  <2> SUFFICES ASSUME IncrementInv, Accounted, Finished PROVE a1 = due
    BY DEF NothingLost
  <2>1. reads \in [Thread -> Seq(Read)] /\ a1 \in [Location -> Nat]
    BY DEF IncrementInv, Types, Left
  <2>2. ASSUME NEW x \in Location
        PROVE  a1[x] = due[x]
    <3>1. ReadsOf(reads, x) = {}
      BY <2>1, ReadsOfFinite DEF Finished
    <3>2. Cardinality(ReadsOf(reads, x)) = 0
      BY <3>1, FS_EmptySet
    <3> QED BY <2>1, <3>2 DEF Accounted
  <2> QED BY <2>1, <2>2 DEF Accounted
<1> QED BY <1>1, <1>2, <1>3, <1>4, <1>5, PTL DEF Spec
===============================================================================

------------------------- MODULE AtomicAdjointProofs -------------------------
(***************************************************************************)
(* Proofs about AtomicAdjoint. AtomicInv is inductive: the types, the      *)
(* place of every thread between the barriers and the state of the flags   *)
(* for every program, and, when each phase increments y by one atomic      *)
(* statement, the values that the storages keep for the reads before them. *)
(***************************************************************************)
EXTENDS AtomicAdjoint, WellFoundedInduction, TLAPS

(* The statements of the region and their places. *)
LEMMA ProgramFacts ==
  /\ Len(Program) \in Nat /\ Positions \subseteq Nat /\ Barriers \subseteq Positions
  /\ \A p \in Positions : p > 0 /\ p <= Len(Program)
  /\ \A p \in Positions : Program[p] \in Atomic \cup {"read", "barrier"}
  /\ \A p \in Positions : Program[p] = "barrier" => p \in Barriers
  /\ \A r \in Barriers : Program[r] = "barrier"
  /\ "read" \notin Atomic /\ "barrier" \notin Atomic
BY ConstantsAssumption DEF Positions, Barriers

(* A set of places that is not empty has a first. *)
LEMMA FirstPlace ==
  ASSUME NEW S, S \subseteq Nat, S # {}
  PROVE  \E m \in S : \A r \in S : m <= r
<1>1. PICK m \in S : \A r \in S : ~(<<r, m>> \in OpToRel(<, Nat))
  BY WFMin, NatLessThanWellFounded, Zenon
<1>2. ASSUME NEW r \in S
      PROVE  m <= r
  <2>1. r \in Nat /\ m \in Nat
    OBVIOUS
  <2>2. ~(r < m)
    BY <1>1, <2>1 DEF OpToRel
  <2> QED BY <2>1, <2>2
<1> QED BY <1>2

Increasing(s) == \A i, j \in 1..Len(s) : i < j => s[i] < s[j]

(* The labels on a stack, and the one on top. *)
LEMMA TopFacts ==
  ASSUME TypeOK, StacksOrdered, NEW t \in Thread
  PROVE  /\ Labels(t) \subseteq Positions
         /\ STACKc[t] = <<>> <=> Labels(t) = {}
         /\ STACKc[t] # <<>> => /\ TopC(t) \in Labels(t) /\ TopC(t) \in Positions
                                /\ \A p \in Labels(t) : p <= TopC(t)
<1>1. STACKc[t] \in Seq(Positions)
  BY DEF TypeOK
<1>2. Labels(t) \subseteq Positions
  BY <1>1 DEF Labels
<1>3. STACKc[t] = <<>> => Labels(t) = {}
  BY DEF Labels
<1>4. ASSUME STACKc[t] # <<>>
      PROVE  /\ TopC(t) \in Labels(t) /\ TopC(t) \in Positions
             /\ \A p \in Labels(t) : p <= TopC(t)
  <2>1. PICK n \in Nat : n = Len(STACKc[t]) /\ n # 0
    BY <1>1, <1>4
  <2>2. n \in 1..n
    BY <2>1
  <2>3. TopC(t) \in Labels(t) /\ TopC(t) = STACKc[t][n]
    BY <2>1, <2>2 DEF TopC, Labels
  <2>4. ASSUME NEW i \in 1..n
        PROVE  STACKc[t][i] <= TopC(t)
    <3>1. STACKc[t][i] \in Nat /\ STACKc[t][n] \in Nat
      <4>1. STACKc[t][i] \in Positions /\ STACKc[t][n] \in Positions
        BY <1>1, <2>1, <2>2
      <4> QED BY <4>1, ProgramFacts
    <3>2. i < n => STACKc[t][i] < STACKc[t][n]
      BY <2>1, <2>2 DEF StacksOrdered
    <3>3. i < n \/ i = n
      BY <2>1
    <3> QED BY <2>3, <3>1, <3>2, <3>3
  <2> QED BY <1>2, <2>1, <2>3, <2>4 DEF Labels
<1> QED BY <1>2, <1>3, <1>4

(* A thread whose stack stays has the same labels on it. *)
LEMMA Idle ==
  ASSUME NEW u \in Thread, STACKc'[u] = STACKc[u]
  PROVE  Labels(u)' = Labels(u) /\ TopC(u)' = TopC(u)
BY DEF Labels, TopC

(* The label of the next statement is the greatest. *)
LEMMA Pushed ==
  ASSUME TypeOK, StacksOrdered, NEW u \in Thread, NEW e \in Positions, e = at[u],
         STACKc'[u] = Append(STACKc[u], e)
  PROVE  /\ STACKc'[u] \in Seq(Positions) /\ STACKc'[u] # <<>>
         /\ Labels(u)' = Labels(u) \cup {e}
         /\ TopC(u)' = e
         /\ Increasing(STACKc'[u])
<1>1. STACKc[u] \in Seq(Positions)
  BY DEF TypeOK
<1>2. PICK n \in Nat : n = Len(STACKc[u])
  BY <1>1
<1>3. /\ STACKc'[u] \in Seq(Positions)
      /\ Len(STACKc'[u]) = n + 1
      /\ \A i \in 1..n : STACKc'[u][i] = STACKc[u][i]
      /\ STACKc'[u][n + 1] = e
  BY <1>1, <1>2
<1>4. STACKc'[u] # <<>>
  BY <1>3
<1>5. TopC(u)' = e
  BY <1>3 DEF TopC
<1>6. Labels(u)' = Labels(u) \cup {e}
  <2>1. \A i : i \in 1..(n + 1) <=> i \in 1..n \/ i = n + 1
    OBVIOUS
  <2> QED BY <1>2, <1>3, <2>1 DEF Labels
<1>7. Increasing(STACKc'[u])
  <2> SUFFICES ASSUME NEW i \in 1..(n + 1), NEW j \in 1..(n + 1), i < j
               PROVE  STACKc'[u][i] < STACKc'[u][j]
    BY <1>3 DEF Increasing
  <2>1. i \in 1..n
    OBVIOUS
  <2>2. STACKc'[u][i] = STACKc[u][i] /\ STACKc[u][i] \in Labels(u)
    BY <1>2, <1>3, <2>1 DEF Labels
  <2>3. CASE j \in 1..n
    BY <1>2, <1>3, <2>1, <2>2, <2>3 DEF StacksOrdered
  <2>4. CASE j = n + 1
    BY <1>3, <2>2, <2>4 DEF StacksOrdered
  <2>5. j \in 1..n \/ j = n + 1
    OBVIOUS
  <2> QED BY <2>3, <2>4, <2>5
<1> QED BY <1>3, <1>4, <1>5, <1>6, <1>7

(* A pop removes the greatest one. *)
LEMMA Popped ==
  ASSUME TypeOK, StacksOrdered, NEW u \in Thread, STACKc[u] # <<>>,
         STACKc'[u] = SubSeq(STACKc[u], 1, Len(STACKc[u]) - 1)
  PROVE  /\ STACKc'[u] \in Seq(Positions)
         /\ Labels(u)' = Labels(u) \ {TopC(u)}
         /\ Increasing(STACKc'[u])
<1>1. STACKc[u] \in Seq(Positions)
  BY DEF TypeOK
<1>2. PICK n \in Nat : Len(STACKc[u]) = n + 1
  <2>1. Len(STACKc[u]) \in Nat /\ Len(STACKc[u]) # 0
    BY <1>1
  <2>2. Len(STACKc[u]) - 1 \in Nat /\ Len(STACKc[u]) = (Len(STACKc[u]) - 1) + 1
    BY <2>1
  <2> QED BY <2>2
<1>3. /\ STACKc'[u] \in Seq(Positions)
      /\ Len(STACKc'[u]) = n
      /\ \A i \in 1..n : STACKc'[u][i] = STACKc[u][i]
  <2>1. STACKc'[u] = SubSeq(STACKc[u], 1, n)
    BY <1>2
  <2> QED BY <1>1, <1>2, <2>1
<1>4. TopC(u) = STACKc[u][n + 1]
  BY <1>2 DEF TopC
<1>5. \A i \in 1..n : STACKc[u][i] # STACKc[u][n + 1]
  <2> SUFFICES ASSUME NEW i \in 1..n
               PROVE  STACKc[u][i] # STACKc[u][n + 1]
    OBVIOUS
  <2>1. i \in 1..(n + 1) /\ n + 1 \in 1..(n + 1) /\ i < n + 1
    OBVIOUS
  <2>2. STACKc[u][i] < STACKc[u][n + 1]
    BY <1>2, <2>1 DEF StacksOrdered
  <2>3. STACKc[u][i] \in Nat /\ STACKc[u][n + 1] \in Nat
    <3>1. STACKc[u][i] \in Positions /\ STACKc[u][n + 1] \in Positions
      BY <1>1, <1>2, <2>1
    <3> QED BY <3>1, ProgramFacts
  <2> QED BY <2>2, <2>3
<1>6. Labels(u)' = Labels(u) \ {TopC(u)}
  <2>1. \A i : i \in 1..(n + 1) <=> i \in 1..n \/ i = n + 1
    OBVIOUS
  <2> QED BY <1>2, <1>3, <1>4, <1>5, <2>1 DEF Labels
<1>7. Increasing(STACKc'[u])
  <2>1. \A i \in 1..n : i \in 1..(n + 1)
    OBVIOUS
  <2> QED BY <1>2, <1>3, <2>1 DEF Increasing, StacksOrdered
<1> QED BY <1>3, <1>6, <1>7

(* The team changes its section together. *)
LEMMA TogetherStep ==
  ASSUME AtomicInv, [Next]_vars
  PROVE  Together'
<1> USE DEF AtomicInv, TypeOK, Together, Goto, Entering, Forwarding, Undoing
<1>1. ASSUME NEW t \in Thread, InitFlags(t)
      PROVE  Together'
  BY <1>1, ConstantsAssumption DEF InitFlags
<1>2. ASSUME NEW t \in Thread, Skip(t)
      PROVE  Together'
  BY <1>2, ConstantsAssumption DEF Skip
<1>3. ASSUME NEW t \in Thread, ForwardRead(t)
      PROVE  Together'
  BY <1>3, ConstantsAssumption DEF ForwardRead
<1>4. ASSUME NEW t \in Thread, EnterAtomic(t)
      PROVE  Together'
  BY <1>4, ConstantsAssumption DEF EnterAtomic
<1>5. ASSUME NEW t \in Thread, Store(t)
      PROVE  Together'
  BY <1>5, ConstantsAssumption DEF Store
<1>6. ASSUME NEW t \in Thread, Add(t)
      PROVE  Together'
  BY <1>6, ConstantsAssumption DEF Add
<1>7. ASSUME NEW t \in Thread, ReverseRead(t)
      PROVE  Together'
  BY <1>7, ConstantsAssumption DEF ReverseRead, Reversing
<1>8. ASSUME NEW t \in Thread, EnterUndo(t)
      PROVE  Together'
  BY <1>8, ConstantsAssumption DEF EnterUndo, Reversing
<1>9. ASSUME NEW t \in Thread, Undo(t)
      PROVE  Together'
  BY <1>9, ConstantsAssumption DEF Undo
<1>10. ASSUME NEW t \in Thread, EndReverse(t)
       PROVE  Together'
  BY <1>10, ConstantsAssumption DEF EndReverse
<1>11. ASSUME EnterForward
       PROVE  Together'
  BY <1>11, ConstantsAssumption DEF EnterForward
<1>12. ASSUME ForwardBarrier
       PROVE  Together'
  BY <1>12, ConstantsAssumption DEF ForwardBarrier
<1>13. ASSUME TurnAround
       PROVE  Together'
  BY <1>13, ConstantsAssumption DEF TurnAround
<1>14. ASSUME ReverseBarrier
       PROVE  Together'
  BY <1>14, ConstantsAssumption DEF ReverseBarrier
<1>15. ASSUME EnterAgain
       PROVE  Together'
  BY <1>15, ConstantsAssumption DEF EnterAgain, AtStart
<1>16. CASE UNCHANGED vars
  BY <1>16, ConstantsAssumption DEF vars
<1> QED
  BY <1>1, <1>2, <1>3, <1>4, <1>5, <1>6, <1>7, <1>8, <1>9, <1>10, <1>11, <1>12, <1>13, <1>14, <1>15, <1>16
  DEF Next, Step, Terminated

(* The stacks hold positions of the program and a storage that is restored *)
(* has been filled.                                                        *)
LEMMA TypeStep ==
  ASSUME AtomicInv, [Next]_vars
  PROVE  TypeOK'
<1>0. TypeOK /\ StacksOrdered /\ LockHeld /\ FlagsRaised
  BY DEF AtomicInv
<1> USE <1>0
<1>1. ASSUME NEW t \in Thread, InitFlags(t)
      PROVE  TypeOK'
  BY <1>1 DEF InitFlags, Goto, TypeOK
<1>2. ASSUME NEW t \in Thread, Skip(t)
      PROVE  TypeOK'
  <2>1. at' \in [Thread -> 1..Len(Program) + 1]
    BY <1>2, ProgramFacts DEF Skip, TypeOK
  <2> QED BY <1>2, <2>1 DEF Skip, TypeOK
<1>3. ASSUME NEW t \in Thread, ForwardRead(t)
      PROVE  TypeOK'
  <2>1. at[t] \in Positions /\ STACKc' = [STACKc EXCEPT ![t] = Append(STACKc[t], at[t])]
    BY <1>3, ProgramFacts DEF ForwardRead, PushLabel, TypeOK, Positions
  <2>2. STACKc'[t] \in Seq(Positions)
    BY <2>1, Pushed DEF TypeOK
  <2>3. STACKc' \in [Thread -> Seq(Positions)]
    BY <2>1, <2>2 DEF TypeOK
  <2>4. at' \in [Thread -> 1..Len(Program) + 1]
    BY <1>3, <2>1, ProgramFacts DEF ForwardRead, PushLabel, TypeOK
  <2>5. seen' \in [Thread -> [Positions -> Nat \cup {NoValue}]]
    BY <1>3, <2>1 DEF ForwardRead, TypeOK
  <2> QED BY <1>3, <2>3, <2>4, <2>5 DEF ForwardRead, Goto, TypeOK
<1>4. ASSUME NEW t \in Thread, EnterAtomic(t)
      PROVE  TypeOK'
  <2>1. at[t] \in Positions /\ STACKc' = [STACKc EXCEPT ![t] = Append(STACKc[t], at[t])]
    BY <1>4, ProgramFacts DEF EnterAtomic, PushLabel, TypeOK, Positions
  <2>2. STACKc'[t] \in Seq(Positions)
    BY <2>1, Pushed DEF TypeOK
  <2>3. STACKc' \in [Thread -> Seq(Positions)]
    BY <2>1, <2>2 DEF TypeOK
  <2>4. at' \in [Thread -> 1..Len(Program) + 1]
    BY <1>4, <2>1, ProgramFacts DEF EnterAtomic, PushLabel, TypeOK
  <2>5. seen' \in [Thread -> [Positions -> Nat \cup {NoValue}]]
    BY <1>4, <2>1 DEF EnterAtomic, TypeOK
  <2> QED BY <1>4, <2>3, <2>4, <2>5 DEF EnterAtomic, Goto, TypeOK
<1>5. ASSUME NEW t \in Thread, Store(t)
      PROVE  TypeOK'
  <2>1. Program[TopC(t)] \in Atomic
    BY <1>5 DEF Store, LockHeld
  <2> QED BY <1>5, <2>1 DEF Store, Goto, TypeOK
<1>6. ASSUME NEW t \in Thread, Add(t)
      PROVE  TypeOK'
  BY <1>6 DEF Add, Goto, TypeOK
<1>7. ASSUME NEW t \in Thread, ReverseRead(t)
      PROVE  TypeOK'
  <2>1. STACKc[t] # <<>> /\ STACKc' = [STACKc EXCEPT ![t] = SubSeq(STACKc[t], 1, Len(STACKc[t]) - 1)]
    BY <1>7 DEF ReverseRead, PopLabel, Reversing, TypeOK, LockHeld
  <2>2. STACKc'[t] \in Seq(Positions)
    BY <2>1, Popped DEF TypeOK
  <2>3. STACKc' \in [Thread -> Seq(Positions)]
    BY <2>1, <2>2 DEF TypeOK
  <2>4. TopC(t) \in Positions
    BY <2>1, TopFacts
  <2>5. seen' \in [Thread -> [Positions -> Nat \cup {NoValue}]]
    BY <1>7, <2>4 DEF ReverseRead, TypeOK
  <2> QED BY <1>7, <2>3, <2>5 DEF ReverseRead, TypeOK
<1>8. ASSUME NEW t \in Thread, EnterUndo(t)
      PROVE  TypeOK'
  BY <1>8 DEF EnterUndo, Goto, TypeOK
<1>9. ASSUME NEW t \in Thread, Undo(t)
      PROVE  TypeOK'
  <2>1. STACKc[t] # <<>> /\ STACKc' = [STACKc EXCEPT ![t] = SubSeq(STACKc[t], 1, Len(STACKc[t]) - 1)]
    BY <1>9 DEF Undo, PopLabel, Reversing, TypeOK, LockHeld
  <2>2. STACKc'[t] \in Seq(Positions)
    BY <2>1, Popped DEF TypeOK
  <2>3. STACKc' \in [Thread -> Seq(Positions)]
    BY <2>1, <2>2 DEF TypeOK
  <2>4. TopC(t) \in Labels(t) /\ Program[TopC(t)] \in Atomic /\ pc[t] = "undo"
    BY <1>9, <2>1, TopFacts DEF Undo, LockHeld
  <2>5. flag[Program[TopC(t)]] # 2 => storage[Program[TopC(t)]] \in Nat
    BY <2>4 DEF FlagsRaised, TypeOK
  <2>6. y' \in Nat
    BY <1>9, <2>5 DEF Undo, TypeOK
  <2>7. flag' \in [Atomic -> 0..2]
    <3>1. flag' = [flag EXCEPT ![Program[TopC(t)]] = 2] /\ 2 \in 0..2
      BY <1>9 DEF Undo
    <3> QED BY <3>1 DEF TypeOK
  <2>8. /\ pc' = [pc EXCEPT ![t] = "reverse"] /\ lock' = NoThread
        /\ UNCHANGED <<at, seen, storage, entry, entered>>
    BY <1>9 DEF Undo, Goto
  <2> QED BY <2>3, <2>6, <2>7, <2>8 DEF TypeOK
<1>10. ASSUME NEW t \in Thread, EndReverse(t)
       PROVE  TypeOK'
  BY <1>10 DEF EndReverse, Goto, TypeOK
<1>11. ASSUME EnterForward
       PROVE  TypeOK'
  BY <1>11 DEF EnterForward, Goto, TypeOK
<1>12. ASSUME ForwardBarrier
       PROVE  TypeOK'
  <2>1. \A u \in Thread : at[u] \in Positions /\ STACKc'[u] = Append(STACKc[u], at[u])
    BY <1>12, ProgramFacts DEF ForwardBarrier, TypeOK, Positions
  <2>2. \A u \in Thread : STACKc'[u] \in Seq(Positions)
    BY <2>1, Pushed DEF TypeOK
  <2>3. STACKc' \in [Thread -> Seq(Positions)]
    BY <1>12, <2>2 DEF ForwardBarrier
  <2>4. at' \in [Thread -> 1..Len(Program) + 1]
    BY <1>12, ProgramFacts DEF ForwardBarrier, TypeOK
  <2> QED BY <1>12, <2>3, <2>4 DEF ForwardBarrier, TypeOK
<1>13. ASSUME TurnAround
       PROVE  TypeOK'
  BY <1>13 DEF TurnAround, Goto, TypeOK
<1>14. ASSUME ReverseBarrier
       PROVE  TypeOK'
  <2>1. \A u \in Thread : STACKc[u] # <<>>
                          /\ STACKc'[u] = SubSeq(STACKc[u], 1, Len(STACKc[u]) - 1)
    BY <1>14 DEF ReverseBarrier, Reversing
  <2>2. \A u \in Thread : STACKc'[u] \in Seq(Positions)
    BY <2>1, Popped DEF TypeOK
  <2>3. STACKc' \in [Thread -> Seq(Positions)]
    BY <1>14, <2>2 DEF ReverseBarrier
  <2> QED BY <1>14, <2>3 DEF ReverseBarrier, TypeOK
<1>15. ASSUME EnterAgain
       PROVE  TypeOK'
  <2>1. entered' \in 1..Regions /\ y' \in Nat /\ entry' \in EntryValue
    BY <1>15, ConstantsAssumption DEF EnterAgain, TypeOK
  <2>2. 1 \in 1..Len(Program) + 1
    BY ProgramFacts
  <2>3. at' \in [Thread -> 1..Len(Program) + 1]
    BY <1>15, <2>2 DEF EnterAgain
  <2> QED BY <1>15, <2>1, <2>3 DEF EnterAgain, AtStart, TypeOK
<1>16. CASE UNCHANGED vars
  BY <1>16 DEF vars, Goto, TypeOK
<1> QED
  BY <1>1, <1>2, <1>3, <1>4, <1>5, <1>6, <1>7, <1>8, <1>9, <1>10, <1>11, <1>12, <1>13, <1>14, <1>15, <1>16
  DEF Next, Step, Terminated

(* The lock is held inside the critical constructs, for the statement whose *)
(* label is on top.                                                        *)
LEMMA LockStep ==
  ASSUME AtomicInv, [Next]_vars
  PROVE  LockHeld'
<1>0. TypeOK /\ StacksOrdered /\ LockHeld
  BY DEF AtomicInv
<1> USE <1>0
<1>1. ASSUME NEW t \in Thread, InitFlags(t)
      PROVE  LockHeld'
  BY <1>1, ConstantsAssumption DEF InitFlags, TopC, Goto, TypeOK, LockHeld
<1>2. ASSUME NEW t \in Thread, Skip(t)
      PROVE  LockHeld'
  BY <1>2, ConstantsAssumption DEF Skip, TopC, Goto, TypeOK, LockHeld
<1>3. ASSUME NEW t \in Thread, ForwardRead(t)
      PROVE  LockHeld'
  <2>1. at[t] \in Positions /\ STACKc' = [STACKc EXCEPT ![t] = Append(STACKc[t], at[t])]
    BY <1>3, ProgramFacts DEF ForwardRead, PushLabel, TypeOK, Positions
  <2>2. STACKc'[t] = Append(STACKc[t], at[t]) /\ \A u \in Thread : u # t => STACKc'[u] = STACKc[u]
    BY <2>1 DEF TypeOK
  <2>3. STACKc'[t] # <<>> /\ TopC(t)' = at[t]
    BY <2>1, <2>2, Pushed
  <2>4. \A u \in Thread : u # t => TopC(u)' = TopC(u)
    BY <2>2, Idle
  <2> QED BY <1>3, <2>2, <2>3, <2>4, ConstantsAssumption DEF ForwardRead, Running, Goto, TypeOK, LockHeld
<1>4. ASSUME NEW t \in Thread, EnterAtomic(t)
      PROVE  LockHeld'
  <2>1. at[t] \in Positions /\ STACKc' = [STACKc EXCEPT ![t] = Append(STACKc[t], at[t])]
    BY <1>4, ProgramFacts DEF EnterAtomic, PushLabel, TypeOK, Positions
  <2>2. STACKc'[t] = Append(STACKc[t], at[t]) /\ \A u \in Thread : u # t => STACKc'[u] = STACKc[u]
    BY <2>1 DEF TypeOK
  <2>3. STACKc'[t] # <<>> /\ TopC(t)' = at[t]
    BY <2>1, <2>2, Pushed
  <2>4. \A u \in Thread : u # t => TopC(u)' = TopC(u)
    BY <2>2, Idle
  <2> QED BY <1>4, <2>2, <2>3, <2>4, ConstantsAssumption DEF EnterAtomic, Running, Goto, TypeOK, LockHeld
<1>5. ASSUME NEW t \in Thread, Store(t)
      PROVE  LockHeld'
  BY <1>5, ConstantsAssumption DEF Store, TopC, Goto, TypeOK, LockHeld
<1>6. ASSUME NEW t \in Thread, Add(t)
      PROVE  LockHeld'
  BY <1>6, ConstantsAssumption DEF Add, TopC, Goto, TypeOK, LockHeld
<1>7. ASSUME NEW t \in Thread, ReverseRead(t)
      PROVE  LockHeld'
  BY <1>7, ConstantsAssumption DEF ReverseRead, PopLabel, Reversing, TopC, Goto, TypeOK, LockHeld
<1>8. ASSUME NEW t \in Thread, EnterUndo(t)
      PROVE  LockHeld'
  BY <1>8, ConstantsAssumption DEF EnterUndo, Reversing, TopC, Goto, TypeOK, LockHeld
<1>9. ASSUME NEW t \in Thread, Undo(t)
      PROVE  LockHeld'
  BY <1>9, ConstantsAssumption DEF Undo, PopLabel, TopC, Goto, TypeOK, LockHeld
<1>10. ASSUME NEW t \in Thread, EndReverse(t)
       PROVE  LockHeld'
  BY <1>10, ConstantsAssumption DEF EndReverse, TopC, Goto, TypeOK, LockHeld
<1>11. ASSUME EnterForward
       PROVE  LockHeld'
  BY <1>11, ConstantsAssumption DEF EnterForward, TopC, Goto, TypeOK, LockHeld
<1>12. ASSUME ForwardBarrier
       PROVE  LockHeld'
  BY <1>12, ConstantsAssumption DEF ForwardBarrier, TopC, Goto, TypeOK, LockHeld
<1>13. ASSUME TurnAround
       PROVE  LockHeld'
  BY <1>13, ConstantsAssumption DEF TurnAround, TopC, Goto, TypeOK, LockHeld
<1>14. ASSUME ReverseBarrier
       PROVE  LockHeld'
  BY <1>14, ConstantsAssumption DEF ReverseBarrier, TopC, Goto, TypeOK, LockHeld
<1>15. ASSUME EnterAgain
       PROVE  LockHeld'
  BY <1>15, ConstantsAssumption DEF EnterAgain, AtStart, Finished, TopC, Goto, TypeOK, LockHeld
<1>16. CASE UNCHANGED vars
  BY <1>16, ConstantsAssumption DEF vars, TopC, Goto, TypeOK, LockHeld
<1> QED
  BY <1>1, <1>2, <1>3, <1>4, <1>5, <1>6, <1>7, <1>8, <1>9, <1>10, <1>11, <1>12, <1>13, <1>14, <1>15, <1>16
  DEF Next, Step, Terminated

(* The stacks hold labels in the order of the program. *)
LEMMA OrderedStep ==
  ASSUME AtomicInv, [Next]_vars
  PROVE  StacksOrdered'
<1>0. TypeOK /\ StacksOrdered /\ LockHeld
  BY DEF AtomicInv
<1> USE <1>0
<1> DEFINE Ord(u) ==
      /\ Increasing(STACKc[u])
      /\ \A p \in Labels(u) : p < at[u]
      /\ pc[u] \in Entering \cup {"done"} => STACKc[u] = <<>>
<1>c. \A u \in Thread : /\ at[u] \in Nat /\ Labels(u) \subseteq Nat
                       /\ \A p \in Labels(u) : p < at[u] /\ p < at[u] + 1
  <2>1. ASSUME NEW u \in Thread
        PROVE  at[u] \in Nat /\ Labels(u) \subseteq Nat
    <3>1. Labels(u) \subseteq Positions /\ at[u] \in 1..Len(Program) + 1
      BY TopFacts DEF TypeOK
    <3>2. Labels(u) \subseteq Nat
      BY <3>1, ProgramFacts
    <3>3. at[u] \in Nat
      BY <3>1
    <3> QED BY <3>2, <3>3
  <2>2. \A u \in Thread : \A p \in Labels(u) : p < at[u]
    BY DEF StacksOrdered
  <2> QED BY <2>1, <2>2
<1>d. \A u \in Thread : Ord(u)
  BY DEF StacksOrdered, Increasing
<1>a. ASSUME NEW u \in Thread, STACKc'[u] = STACKc[u],
             at'[u] = at[u] \/ at'[u] = at[u] + 1 \/ STACKc[u] = <<>>,
             pc'[u] \in Entering \cup {"done"} => STACKc[u] = <<>>
      PROVE  Ord(u)'
  <2>1. Labels(u)' = Labels(u) /\ (STACKc[u] = <<>> => Labels(u) = {})
    BY <1>a, Idle, TopFacts
  <2>2. \A p \in Labels(u)' : p < at'[u]
    BY <1>a, <1>c, <2>1
  <2> QED BY <1>a, <1>d, <2>2
<1>b. ASSUME NEW u \in Thread, Increasing(STACKc'[u]), \A p \in Labels(u)' : p < at'[u],
             pc'[u] \notin Entering \cup {"done"}
      PROVE  Ord(u)'
  BY <1>b
<1> SUFFICES \A u \in Thread : Ord(u)'
  BY DEF StacksOrdered, Increasing
<1> HIDE DEF Ord
<1>1. ASSUME NEW t \in Thread, InitFlags(t)
      PROVE  \A u \in Thread : Ord(u)'
  <2>1. \A u \in Thread :
          /\ STACKc'[u] = STACKc[u]
          /\ at'[u] = at[u] \/ at'[u] = at[u] + 1 \/ STACKc[u] = <<>>
          /\ pc'[u] \in Entering \cup {"done"} => STACKc[u] = <<>>
    BY <1>1, <1>d DEF Ord, InitFlags, Goto, TypeOK, Entering
  <2> QED BY <1>a, <2>1
<1>2. ASSUME NEW t \in Thread, Skip(t)
      PROVE  \A u \in Thread : Ord(u)'
  <2>1. \A u \in Thread :
          /\ STACKc'[u] = STACKc[u]
          /\ at'[u] = at[u] \/ at'[u] = at[u] + 1 \/ STACKc[u] = <<>>
          /\ pc'[u] \in Entering \cup {"done"} => STACKc[u] = <<>>
    BY <1>2, <1>d DEF Ord, Skip, Goto, TypeOK, Entering
  <2> QED BY <1>a, <2>1
<1>3. ASSUME NEW t \in Thread, ForwardRead(t)
      PROVE  \A u \in Thread : Ord(u)'
  <2>1. at[t] \in Positions /\ STACKc' = [STACKc EXCEPT ![t] = Append(STACKc[t], at[t])]
    BY <1>3, ProgramFacts DEF ForwardRead, PushLabel, TypeOK, Positions
  <2>2. STACKc'[t] = Append(STACKc[t], at[t]) /\ at'[t] = at[t] + 1
    BY <1>3, <2>1 DEF ForwardRead, PushLabel, TypeOK
  <2>3. Increasing(STACKc'[t]) /\ Labels(t)' = Labels(t) \cup {at[t]}
    BY <2>1, <2>2, Pushed
  <2>4. \A p \in Labels(t)' : p < at'[t]
    BY <1>c, <2>1, <2>2, <2>3
  <2>5. pc'[t] \notin Entering \cup {"done"}
    BY <1>3 DEF ForwardRead, Goto, TypeOK, Entering
  <2>6. \A u \in Thread : u # t =>
          STACKc'[u] = STACKc[u] /\ at'[u] = at[u] /\ pc'[u] = pc[u]
    BY <1>3 DEF ForwardRead, PushLabel, Goto, TypeOK
  <2>7. \A u \in Thread : u # t => Ord(u)'
    BY <1>a, <1>d, <2>6 DEF Ord
  <2> QED BY <1>b, <2>3, <2>4, <2>5, <2>7
<1>4. ASSUME NEW t \in Thread, EnterAtomic(t)
      PROVE  \A u \in Thread : Ord(u)'
  <2>1. at[t] \in Positions /\ STACKc' = [STACKc EXCEPT ![t] = Append(STACKc[t], at[t])]
    BY <1>4, ProgramFacts DEF EnterAtomic, PushLabel, TypeOK, Positions
  <2>2. STACKc'[t] = Append(STACKc[t], at[t]) /\ at'[t] = at[t] + 1
    BY <1>4, <2>1 DEF EnterAtomic, PushLabel, TypeOK
  <2>3. Increasing(STACKc'[t]) /\ Labels(t)' = Labels(t) \cup {at[t]}
    BY <2>1, <2>2, Pushed
  <2>4. \A p \in Labels(t)' : p < at'[t]
    BY <1>c, <2>1, <2>2, <2>3
  <2>5. pc'[t] \notin Entering \cup {"done"}
    BY <1>4 DEF EnterAtomic, Goto, TypeOK, Entering
  <2>6. \A u \in Thread : u # t =>
          STACKc'[u] = STACKc[u] /\ at'[u] = at[u] /\ pc'[u] = pc[u]
    BY <1>4 DEF EnterAtomic, PushLabel, Goto, TypeOK
  <2>7. \A u \in Thread : u # t => Ord(u)'
    BY <1>a, <1>d, <2>6 DEF Ord
  <2> QED BY <1>b, <2>3, <2>4, <2>5, <2>7
<1>5. ASSUME NEW t \in Thread, Store(t)
      PROVE  \A u \in Thread : Ord(u)'
  <2>1. \A u \in Thread :
          /\ STACKc'[u] = STACKc[u]
          /\ at'[u] = at[u] \/ at'[u] = at[u] + 1 \/ STACKc[u] = <<>>
          /\ pc'[u] \in Entering \cup {"done"} => STACKc[u] = <<>>
    BY <1>5, <1>d DEF Ord, Store, Goto, TypeOK, Entering
  <2> QED BY <1>a, <2>1
<1>6. ASSUME NEW t \in Thread, Add(t)
      PROVE  \A u \in Thread : Ord(u)'
  <2>1. \A u \in Thread :
          /\ STACKc'[u] = STACKc[u]
          /\ at'[u] = at[u] \/ at'[u] = at[u] + 1 \/ STACKc[u] = <<>>
          /\ pc'[u] \in Entering \cup {"done"} => STACKc[u] = <<>>
    BY <1>6, <1>d DEF Ord, Add, Goto, TypeOK, Entering
  <2> QED BY <1>a, <2>1
<1>7. ASSUME NEW t \in Thread, ReverseRead(t)
      PROVE  \A u \in Thread : Ord(u)'
  <2>1. STACKc[t] # <<>> /\ STACKc'[t] = SubSeq(STACKc[t], 1, Len(STACKc[t]) - 1)
    BY <1>7 DEF ReverseRead, PopLabel, Reversing, TypeOK, LockHeld
  <2>2. Increasing(STACKc'[t]) /\ Labels(t)' = Labels(t) \ {TopC(t)}
    BY <2>1, Popped
  <2>3. at' = at /\ pc'[t] = "reverse"
    BY <1>7 DEF ReverseRead, Goto, Reversing, TypeOK
  <2>4. \A p \in Labels(t)' : p < at'[t]
    BY <1>c, <2>2, <2>3
  <2>5. \A u \in Thread : u # t => STACKc'[u] = STACKc[u] /\ pc'[u] = pc[u]
    BY <1>7 DEF ReverseRead, PopLabel, Goto, TypeOK
  <2>6. \A u \in Thread : u # t => Ord(u)'
    BY <1>a, <1>d, <2>3, <2>5 DEF Ord
  <2> QED BY <1>b, <2>2, <2>3, <2>4, <2>6 DEF Entering
<1>8. ASSUME NEW t \in Thread, EnterUndo(t)
      PROVE  \A u \in Thread : Ord(u)'
  <2>1. \A u \in Thread :
          /\ STACKc'[u] = STACKc[u]
          /\ at'[u] = at[u] \/ at'[u] = at[u] + 1 \/ STACKc[u] = <<>>
          /\ pc'[u] \in Entering \cup {"done"} => STACKc[u] = <<>>
    BY <1>8, <1>d DEF Ord, EnterUndo, Reversing, Goto, TypeOK, Entering
  <2> QED BY <1>a, <2>1
<1>9. ASSUME NEW t \in Thread, Undo(t)
      PROVE  \A u \in Thread : Ord(u)'
  <2>1. STACKc[t] # <<>> /\ STACKc'[t] = SubSeq(STACKc[t], 1, Len(STACKc[t]) - 1)
    BY <1>9 DEF Undo, PopLabel, Reversing, TypeOK, LockHeld
  <2>2. Increasing(STACKc'[t]) /\ Labels(t)' = Labels(t) \ {TopC(t)}
    BY <2>1, Popped
  <2>3. at' = at /\ pc'[t] = "reverse"
    BY <1>9 DEF Undo, Goto, Reversing, TypeOK
  <2>4. \A p \in Labels(t)' : p < at'[t]
    BY <1>c, <2>2, <2>3
  <2>5. \A u \in Thread : u # t => STACKc'[u] = STACKc[u] /\ pc'[u] = pc[u]
    BY <1>9 DEF Undo, PopLabel, Goto, TypeOK
  <2>6. \A u \in Thread : u # t => Ord(u)'
    BY <1>a, <1>d, <2>3, <2>5 DEF Ord
  <2> QED BY <1>b, <2>2, <2>3, <2>4, <2>6 DEF Entering
<1>10. ASSUME NEW t \in Thread, EndReverse(t)
       PROVE  \A u \in Thread : Ord(u)'
  <2>1. \A u \in Thread :
          /\ STACKc'[u] = STACKc[u]
          /\ at'[u] = at[u] \/ at'[u] = at[u] + 1 \/ STACKc[u] = <<>>
          /\ pc'[u] \in Entering \cup {"done"} => STACKc[u] = <<>>
    BY <1>10, <1>d DEF Ord, EndReverse, Goto, TypeOK, Entering
  <2> QED BY <1>a, <2>1
<1>11. ASSUME EnterForward
       PROVE  \A u \in Thread : Ord(u)'
  <2>1. \A u \in Thread :
          /\ STACKc'[u] = STACKc[u]
          /\ at'[u] = at[u] \/ at'[u] = at[u] + 1 \/ STACKc[u] = <<>>
          /\ pc'[u] \in Entering \cup {"done"} => STACKc[u] = <<>>
    BY <1>11, <1>d DEF Ord, EnterForward, Goto, TypeOK, Entering
  <2> QED BY <1>a, <2>1
<1>12. ASSUME ForwardBarrier
       PROVE  \A u \in Thread : Ord(u)'
  <2> SUFFICES ASSUME NEW u \in Thread PROVE Ord(u)'
    OBVIOUS
  <2>1. /\ at[u] \in Positions /\ STACKc'[u] = Append(STACKc[u], at[u])
        /\ at'[u] = at[u] + 1 /\ pc'[u] = "forward"
    BY <1>12, ProgramFacts DEF ForwardBarrier, TypeOK, Positions
  <2>2. Increasing(STACKc'[u]) /\ Labels(u)' = Labels(u) \cup {at[u]}
    BY <2>1, Pushed
  <2>3. \A p \in Labels(u)' : p < at'[u]
    BY <1>c, <2>1, <2>2
  <2> QED BY <1>b, <2>1, <2>2, <2>3 DEF Entering
<1>13. ASSUME TurnAround
       PROVE  \A u \in Thread : Ord(u)'
  <2>1. \A u \in Thread :
          /\ STACKc'[u] = STACKc[u]
          /\ at'[u] = at[u] \/ at'[u] = at[u] + 1 \/ STACKc[u] = <<>>
          /\ pc'[u] \in Entering \cup {"done"} => STACKc[u] = <<>>
    BY <1>13, <1>d DEF Ord, TurnAround, Goto, TypeOK, Entering
  <2> QED BY <1>a, <2>1
<1>14. ASSUME ReverseBarrier
       PROVE  \A u \in Thread : Ord(u)'
  <2> SUFFICES ASSUME NEW u \in Thread PROVE Ord(u)'
    OBVIOUS
  <2>1. /\ STACKc[u] # <<>> /\ STACKc'[u] = SubSeq(STACKc[u], 1, Len(STACKc[u]) - 1)
        /\ at' = at /\ pc'[u] = "reverse"
    BY <1>14 DEF ReverseBarrier, Reversing
  <2>2. Increasing(STACKc'[u]) /\ Labels(u)' = Labels(u) \ {TopC(u)}
    BY <2>1, Popped
  <2>3. \A p \in Labels(u)' : p < at'[u]
    BY <1>c, <2>1, <2>2
  <2> QED BY <1>b, <2>1, <2>2, <2>3 DEF Entering
<1>15. ASSUME EnterAgain
       PROVE  \A u \in Thread : Ord(u)'
  <2>1. \A u \in Thread :
          /\ STACKc'[u] = STACKc[u]
          /\ at'[u] = at[u] \/ at'[u] = at[u] + 1 \/ STACKc[u] = <<>>
          /\ pc'[u] \in Entering \cup {"done"} => STACKc[u] = <<>>
    BY <1>15, <1>d DEF Ord, EnterAgain, AtStart, Finished, Goto, TypeOK, Entering
  <2> QED BY <1>a, <2>1
<1>16. CASE UNCHANGED vars
  <2>1. \A u \in Thread :
          /\ STACKc'[u] = STACKc[u]
          /\ at'[u] = at[u] \/ at'[u] = at[u] + 1 \/ STACKc[u] = <<>>
          /\ pc'[u] \in Entering \cup {"done"} => STACKc[u] = <<>>
    BY <1>16, <1>d DEF Ord, vars, Goto, TypeOK, Entering
  <2> QED BY <1>a, <2>1
<1> QED
  BY <1>1, <1>2, <1>3, <1>4, <1>5, <1>6, <1>7, <1>8, <1>9, <1>10, <1>11, <1>12, <1>13, <1>14, <1>15, <1>16
  DEF Next, Step, Terminated

(* Where one thread is tells the section of them all. *)
LEMMA SectionFacts ==
  ASSUME Together, NEW t \in Thread
  PROVE  /\ pc[t] \in Entering => \A u \in Thread : pc[u] \in Entering
         /\ pc[t] \in Forwarding => \A u \in Thread : pc[u] \in Forwarding
         /\ pc[t] \in Undoing => \A u \in Thread : pc[u] \in Undoing
BY DEF Together, Entering, Forwarding, Undoing

(* The effect of each kind of step on the labels of a thread. *)
LEMMA PushLabels ==
  ASSUME AtomicInv, NEW t \in Thread, ForwardRead(t) \/ EnterAtomic(t)
  PROVE  /\ at[t] \in Positions /\ Program[at[t]] # "barrier"
         /\ ForwardRead(t) => Program[at[t]] = "read"
         /\ EnterAtomic(t) => Program[at[t]] \in Atomic
         /\ Labels(t)' = Labels(t) \cup {at[t]} /\ TopC(t)' = at[t]
         /\ at' = [at EXCEPT ![t] = @ + 1]
         /\ \A u \in Thread : u # t => Labels(u)' = Labels(u) /\ TopC(u)' = TopC(u)
<1>0. TypeOK /\ StacksOrdered
  BY DEF AtomicInv
<1>1. at[t] \in Positions /\ STACKc' = [STACKc EXCEPT ![t] = Append(STACKc[t], at[t])]
      /\ at' = [at EXCEPT ![t] = @ + 1]
  BY <1>0, ProgramFacts DEF ForwardRead, EnterAtomic, PushLabel, TypeOK, Positions
<1>2. STACKc'[t] = Append(STACKc[t], at[t]) /\ \A u \in Thread : u # t => STACKc'[u] = STACKc[u]
  BY <1>0, <1>1 DEF TypeOK
<1>3. Labels(t)' = Labels(t) \cup {at[t]} /\ TopC(t)' = at[t]
  BY <1>0, <1>1, <1>2, Pushed
<1>4. \A u \in Thread : u # t => Labels(u)' = Labels(u) /\ TopC(u)' = TopC(u)
  BY <1>2, Idle
<1>5. /\ Program[at[t]] # "barrier"
      /\ ForwardRead(t) => Program[at[t]] = "read"
      /\ EnterAtomic(t) => Program[at[t]] \in Atomic
  BY ProgramFacts DEF ForwardRead, EnterAtomic, Running
<1> QED BY <1>1, <1>3, <1>4, <1>5

LEMMA PopLabels ==
  ASSUME AtomicInv, NEW t \in Thread, ReverseRead(t) \/ Undo(t)
  PROVE  /\ TopC(t) \in Labels(t) /\ TopC(t) \in Positions /\ Program[TopC(t)] # "barrier"
         /\ ReverseRead(t) => Program[TopC(t)] = "read"
         /\ Undo(t) => Program[TopC(t)] \in Atomic
         /\ \A p \in Labels(t) : p <= TopC(t)
         /\ Labels(t)' = Labels(t) \ {TopC(t)}
         /\ pc[t] \in Undoing
         /\ \A u \in Thread : u # t => Labels(u)' = Labels(u) /\ TopC(u)' = TopC(u)
<1>0. TypeOK /\ StacksOrdered /\ LockHeld
  BY DEF AtomicInv
<1>1. STACKc[t] # <<>> /\ STACKc'[t] = SubSeq(STACKc[t], 1, Len(STACKc[t]) - 1)
  BY <1>0 DEF ReverseRead, Undo, PopLabel, Reversing, TypeOK, LockHeld
<1>2. \A u \in Thread : u # t => STACKc'[u] = STACKc[u]
  BY <1>0 DEF ReverseRead, Undo, PopLabel, TypeOK
<1>3. Labels(t)' = Labels(t) \ {TopC(t)}
  BY <1>0, <1>1, Popped
<1>4. \A u \in Thread : u # t => Labels(u)' = Labels(u) /\ TopC(u)' = TopC(u)
  BY <1>2, Idle
<1>5. /\ TopC(t) \in Labels(t) /\ TopC(t) \in Positions
      /\ \A p \in Labels(t) : p <= TopC(t)
  BY <1>0, <1>1, TopFacts
<1>6. /\ Program[TopC(t)] # "barrier" /\ pc[t] \in Undoing
      /\ ReverseRead(t) => Program[TopC(t)] = "read"
      /\ Undo(t) => Program[TopC(t)] \in Atomic
  BY <1>0, ProgramFacts DEF ReverseRead, Undo, Reversing, LockHeld, Undoing
<1> QED BY <1>1, <1>3, <1>4, <1>5, <1>6

(* The barriers of the forward and of the reverse section find all threads *)
(* at the same one.                                                        *)
LEMMA ForwardBarrierLabels ==
  ASSUME AtomicInv, ForwardBarrier
  PROVE  /\ \A u \in Thread : /\ at[u] \in Barriers /\ pc[u] = "forward" /\ pc'[u] = "forward"
                            /\ Labels(u)' = Labels(u) \cup {at[u]} /\ at'[u] = at[u] + 1
         /\ \A u, w \in Thread : at[u] = at[w]
<1>0. TypeOK /\ StacksOrdered
  BY DEF AtomicInv
<1>1. ASSUME NEW u \in Thread
      PROVE  /\ at[u] \in Barriers /\ pc[u] = "forward" /\ pc'[u] = "forward"
             /\ Labels(u)' = Labels(u) \cup {at[u]} /\ at'[u] = at[u] + 1
  <2>1. /\ at[u] \in Positions /\ STACKc'[u] = Append(STACKc[u], at[u])
        /\ at'[u] = at[u] + 1 /\ pc[u] = "forward" /\ pc'[u] = "forward"
        /\ Program[at[u]] = "barrier"
    BY <1>0, ProgramFacts DEF ForwardBarrier, Running, TypeOK, Positions
  <2>2. Labels(u)' = Labels(u) \cup {at[u]}
    BY <1>0, <2>1, Pushed
  <2> QED BY <2>1, <2>2, ProgramFacts
<1>2. ASSUME NEW u \in Thread, NEW w \in Thread, at[u] < at[w]
      PROVE  FALSE
  <2>1. at[u] \in Barriers /\ pc[w] \notin Undoing
    BY <1>1 DEF Undoing
  <2>2. at[u] \in Labels(w)
    BY <1>2, <2>1 DEF AtomicInv, Synchronised
  <2>3. at[u] \in Labels(u)
    BY <2>1, <2>2 DEF AtomicInv, Synchronised
  <2>4. at[u] < at[u] /\ at[u] \in Nat
    BY <1>0, <2>1, <2>3, ProgramFacts DEF StacksOrdered
  <2> QED BY <2>4
<1>3. ASSUME NEW u \in Thread, NEW w \in Thread
      PROVE  at[u] = at[w]
  <2>1. at[u] \in Nat /\ at[w] \in Nat
    BY <1>1, ProgramFacts
  <2>2. ~(at[u] < at[w]) /\ ~(at[w] < at[u])
    BY <1>2
  <2> QED BY <2>1, <2>2
<1> QED BY <1>1, <1>3

LEMMA ReverseBarrierLabels ==
  ASSUME AtomicInv, ReverseBarrier
  PROVE  /\ \A u \in Thread : /\ TopC(u) \in Barriers /\ pc[u] = "reverse"
                            /\ TopC(u) \in Labels(u)
                            /\ Labels(u)' = Labels(u) \ {TopC(u)}
                            /\ \A p \in Labels(u) : p <= TopC(u)
         /\ \A u, w \in Thread : TopC(u) = TopC(w)
<1>0. TypeOK /\ StacksOrdered
  BY DEF AtomicInv
<1>1. ASSUME NEW u \in Thread
      PROVE  /\ TopC(u) \in Barriers /\ pc[u] = "reverse"
             /\ TopC(u) \in Labels(u)
             /\ Labels(u)' = Labels(u) \ {TopC(u)}
             /\ \A p \in Labels(u) : p <= TopC(u)
  <2>1. /\ STACKc[u] # <<>> /\ STACKc'[u] = SubSeq(STACKc[u], 1, Len(STACKc[u]) - 1)
        /\ pc[u] = "reverse" /\ Program[TopC(u)] = "barrier"
    BY DEF ReverseBarrier, Reversing
  <2>2. Labels(u)' = Labels(u) \ {TopC(u)}
    BY <1>0, <2>1, Popped
  <2>3. /\ TopC(u) \in Labels(u) /\ TopC(u) \in Positions
        /\ \A p \in Labels(u) : p <= TopC(u)
    BY <1>0, <2>1, TopFacts
  <2> QED BY <2>1, <2>2, <2>3, ProgramFacts
<1>2. ASSUME NEW u \in Thread, NEW w \in Thread
      PROVE  TopC(u) = TopC(w)
  <2>1. TopC(u) \in Labels(w) /\ TopC(w) \in Labels(u)
    BY <1>1 DEF AtomicInv, Synchronised
  <2>2. TopC(u) <= TopC(w) /\ TopC(w) <= TopC(u)
    BY <1>1, <2>1
  <2>3. TopC(u) \in Nat /\ TopC(w) \in Nat
    BY <1>1, ProgramFacts
  <2> QED BY <2>2, <2>3
<1> QED BY <1>1, <1>2

(* No thread passes a barrier alone. *)
LEMMA SynchronisedStep ==
  ASSUME AtomicInv, [Next]_vars
  PROVE  Synchronised'
<1>0. TypeOK /\ StacksOrdered /\ LockHeld
  BY DEF AtomicInv
<1> DEFINE Same(u) ==
      /\ \A r \in Barriers : r \in Labels(u)' <=> r \in Labels(u)
      /\ \A p \in Labels(u)' : p \in Labels(u) \/ (p = at[u] /\ pc[u] \notin Undoing)
      /\ \A r \in Barriers : pc'[u] \notin Undoing /\ r < at'[u] => pc[u] \notin Undoing /\ r < at[u]
<1>a. ASSUME \A u \in Thread : Same(u)
      PROVE  Synchronised'
  BY <1>a DEF AtomicInv, Synchronised
<1>b. \A u \in Thread : at[u] \in Nat /\ \A r \in Barriers : r \in Nat /\ (r < at[u] + 1 => r < at[u] \/ r = at[u])
  <2>1. \A r \in Barriers : r \in Nat
    BY ProgramFacts
  <2>2. \A u \in Thread : at[u] \in Nat
    BY <1>0 DEF TypeOK
  <2> QED BY <2>1, <2>2
<1>1. ASSUME NEW t \in Thread, InitFlags(t)
      PROVE  Synchronised'
  <2>1. /\ at' = at /\ \A u \in Thread : STACKc'[u] = STACKc[u]
        /\ \A u \in Thread : pc'[u] \notin Undoing => pc[u] \notin Undoing
    BY <1>1, <1>0 DEF InitFlags, Goto, TypeOK, Undoing
  <2>2. ASSUME NEW u \in Thread
        PROVE  Same(u)
    <3>1. Labels(u)' = Labels(u)
      BY <2>1, Idle
    <3> QED BY <2>1, <3>1
  <2> QED BY <1>a, <2>2
<1>2. ASSUME NEW t \in Thread, Skip(t)
      PROVE  Synchronised'
  <2>1. /\ at[t] \notin Barriers /\ pc' = pc /\ pc[t] = "forward"
        /\ \A u \in Thread : at'[u] = at[u] \/ (u = t /\ at'[u] = at[u] + 1)
        /\ \A u \in Thread : STACKc'[u] = STACKc[u]
    BY <1>2, <1>0, ProgramFacts DEF Skip, Running, TypeOK
  <2>2. \A u \in Thread : Labels(u)' = Labels(u)
    BY <2>1, Idle
  <2>3. \A u \in Thread : Same(u)
    BY <1>b, <2>1, <2>2 DEF Undoing
  <2> QED BY <1>a, <2>3
<1>3. ASSUME NEW t \in Thread, ForwardRead(t)
      PROVE  Synchronised'
  <2>1. /\ at[t] \in Positions /\ at[t] \notin Barriers
        /\ Labels(t)' = Labels(t) \cup {at[t]}
        /\ at' = [at EXCEPT ![t] = @ + 1]
        /\ \A u \in Thread : u # t => Labels(u)' = Labels(u)
    BY <1>3, PushLabels, ProgramFacts
  <2>2. pc[t] \notin Undoing /\ \A u \in Thread : u # t => pc'[u] = pc[u]
    BY <1>3, <1>0 DEF ForwardRead, Goto, TypeOK, Undoing
  <2>3. \A u \in Thread : at'[u] = at[u] \/ (u = t /\ at'[u] = at[u] + 1)
    BY <1>0, <2>1 DEF TypeOK
  <2>4. \A u \in Thread : Same(u)
    BY <1>b, <2>1, <2>2, <2>3
  <2> QED BY <1>a, <2>4
<1>4. ASSUME NEW t \in Thread, EnterAtomic(t)
      PROVE  Synchronised'
  <2>1. /\ at[t] \in Positions /\ at[t] \notin Barriers
        /\ Labels(t)' = Labels(t) \cup {at[t]}
        /\ at' = [at EXCEPT ![t] = @ + 1]
        /\ \A u \in Thread : u # t => Labels(u)' = Labels(u)
    BY <1>4, PushLabels, ProgramFacts
  <2>2. pc[t] \notin Undoing /\ \A u \in Thread : u # t => pc'[u] = pc[u]
    BY <1>4, <1>0 DEF EnterAtomic, Goto, TypeOK, Undoing
  <2>3. \A u \in Thread : at'[u] = at[u] \/ (u = t /\ at'[u] = at[u] + 1)
    BY <1>0, <2>1 DEF TypeOK
  <2>4. \A u \in Thread : Same(u)
    BY <1>b, <2>1, <2>2, <2>3
  <2> QED BY <1>a, <2>4
<1>5. ASSUME NEW t \in Thread, Store(t)
      PROVE  Synchronised'
  <2>1. /\ at' = at /\ \A u \in Thread : STACKc'[u] = STACKc[u]
        /\ \A u \in Thread : pc'[u] \notin Undoing => pc[u] \notin Undoing
    BY <1>5, <1>0 DEF Store, Goto, TypeOK, Undoing
  <2>2. ASSUME NEW u \in Thread
        PROVE  Same(u)
    <3>1. Labels(u)' = Labels(u)
      BY <2>1, Idle
    <3> QED BY <2>1, <3>1
  <2> QED BY <1>a, <2>2
<1>6. ASSUME NEW t \in Thread, Add(t)
      PROVE  Synchronised'
  <2>1. /\ at' = at /\ \A u \in Thread : STACKc'[u] = STACKc[u]
        /\ \A u \in Thread : pc'[u] \notin Undoing => pc[u] \notin Undoing
    BY <1>6, <1>0 DEF Add, Goto, TypeOK, Undoing
  <2>2. ASSUME NEW u \in Thread
        PROVE  Same(u)
    <3>1. Labels(u)' = Labels(u)
      BY <2>1, Idle
    <3> QED BY <2>1, <3>1
  <2> QED BY <1>a, <2>2
<1>7. ASSUME NEW t \in Thread, ReverseRead(t)
      PROVE  Synchronised'
  <2>1. /\ TopC(t) \notin Barriers
        /\ Labels(t)' = Labels(t) \ {TopC(t)}
        /\ \A u \in Thread : u # t => Labels(u)' = Labels(u)
        /\ pc[t] \in Undoing
    BY <1>7, PopLabels, ProgramFacts
  <2>2. at' = at /\ pc'[t] \in Undoing /\ \A u \in Thread : u # t => pc'[u] = pc[u]
    BY <1>7, <1>0 DEF ReverseRead, Reversing, Goto, TypeOK, Undoing
  <2>3. \A u \in Thread : Same(u)
    BY <2>1, <2>2
  <2> QED BY <1>a, <2>3
<1>8. ASSUME NEW t \in Thread, EnterUndo(t)
      PROVE  Synchronised'
  <2>1. /\ at' = at /\ \A u \in Thread : STACKc'[u] = STACKc[u]
        /\ \A u \in Thread : pc'[u] \notin Undoing => pc[u] \notin Undoing
    BY <1>8, <1>0 DEF EnterUndo, Goto, TypeOK, Undoing
  <2>2. ASSUME NEW u \in Thread
        PROVE  Same(u)
    <3>1. Labels(u)' = Labels(u)
      BY <2>1, Idle
    <3> QED BY <2>1, <3>1
  <2> QED BY <1>a, <2>2
<1>9. ASSUME NEW t \in Thread, Undo(t)
      PROVE  Synchronised'
  <2>1. /\ TopC(t) \notin Barriers
        /\ Labels(t)' = Labels(t) \ {TopC(t)}
        /\ \A u \in Thread : u # t => Labels(u)' = Labels(u)
        /\ pc[t] \in Undoing
    BY <1>9, PopLabels, ProgramFacts
  <2>2. at' = at /\ pc'[t] \in Undoing /\ \A u \in Thread : u # t => pc'[u] = pc[u]
    BY <1>9, <1>0 DEF Undo, Reversing, Goto, TypeOK, Undoing
  <2>3. \A u \in Thread : Same(u)
    BY <2>1, <2>2
  <2> QED BY <1>a, <2>3
<1>10. ASSUME NEW t \in Thread, EndReverse(t)
       PROVE  Synchronised'
  <2>1. /\ at' = at /\ \A u \in Thread : STACKc'[u] = STACKc[u]
        /\ \A u \in Thread : pc'[u] \notin Undoing => pc[u] \notin Undoing
    BY <1>10, <1>0 DEF EndReverse, Goto, TypeOK, Undoing
  <2>2. ASSUME NEW u \in Thread
        PROVE  Same(u)
    <3>1. Labels(u)' = Labels(u)
      BY <2>1, Idle
    <3> QED BY <2>1, <3>1
  <2> QED BY <1>a, <2>2
<1>11. ASSUME EnterForward
       PROVE  Synchronised'
  <2>1. /\ at' = at /\ \A u \in Thread : STACKc'[u] = STACKc[u]
        /\ \A u \in Thread : pc'[u] \notin Undoing => pc[u] \notin Undoing
    BY <1>11, <1>0 DEF EnterForward, Goto, TypeOK, Undoing
  <2>2. ASSUME NEW u \in Thread
        PROVE  Same(u)
    <3>1. Labels(u)' = Labels(u)
      BY <2>1, Idle
    <3> QED BY <2>1, <3>1
  <2> QED BY <1>a, <2>2
<1>12. ASSUME ForwardBarrier
       PROVE  Synchronised'
  <2>0. /\ \A u \in Thread : /\ at[u] \in Barriers /\ pc[u] = "forward" /\ pc'[u] = "forward"
                            /\ Labels(u)' = Labels(u) \cup {at[u]} /\ at'[u] = at[u] + 1
        /\ \A u, w \in Thread : at[u] = at[w]
    BY <1>12, ForwardBarrierLabels
  <2> SUFFICES ASSUME NEW u \in Thread, NEW r \in Barriers
               PROVE  /\ pc'[u] \notin Undoing /\ r < at'[u] => r \in Labels(u)'
                      /\ \A p \in Labels(u)' : r < p => r \in Labels(u)'
                      /\ r \in Labels(u)' => \A w \in Thread : r \in Labels(w)'
    BY DEF Synchronised
  <2>1. r < at[u] => r \in Labels(u)
    BY <2>0 DEF AtomicInv, Synchronised, Undoing
  <2>2. r < at[u] + 1 => r < at[u] \/ r = at[u]
    BY <2>0, <1>b
  <2>3. \A p \in Labels(u)' : r < p => r \in Labels(u)'
    BY <2>0, <2>1 DEF AtomicInv, Synchronised
  <2>4. r \in Labels(u)' => \A w \in Thread : r \in Labels(w)'
    BY <2>0 DEF AtomicInv, Synchronised
  <2> QED BY <2>0, <2>1, <2>2, <2>3, <2>4
<1>13. ASSUME TurnAround
       PROVE  Synchronised'
  <2>1. /\ at' = at /\ \A u \in Thread : STACKc'[u] = STACKc[u]
        /\ \A u \in Thread : pc'[u] \notin Undoing => pc[u] \notin Undoing
    BY <1>13, <1>0 DEF TurnAround, Goto, TypeOK, Undoing
  <2>2. ASSUME NEW u \in Thread
        PROVE  Same(u)
    <3>1. Labels(u)' = Labels(u)
      BY <2>1, Idle
    <3> QED BY <2>1, <3>1
  <2> QED BY <1>a, <2>2
<1>14. ASSUME ReverseBarrier
       PROVE  Synchronised'
  <2>0. /\ \A u \in Thread : /\ TopC(u) \in Barriers /\ pc[u] = "reverse"
                            /\ TopC(u) \in Labels(u)
                            /\ Labels(u)' = Labels(u) \ {TopC(u)}
                            /\ \A p \in Labels(u) : p <= TopC(u)
        /\ \A u, w \in Thread : TopC(u) = TopC(w)
        /\ pc' = pc
    BY <1>14, ReverseBarrierLabels DEF ReverseBarrier
  <2> SUFFICES ASSUME NEW u \in Thread, NEW r \in Barriers
               PROVE  /\ pc'[u] \notin Undoing /\ r < at'[u] => r \in Labels(u)'
                      /\ \A p \in Labels(u)' : r < p => r \in Labels(u)'
                      /\ r \in Labels(u)' => \A w \in Thread : r \in Labels(w)'
    BY DEF Synchronised
  <2>1. pc'[u] \in Undoing
    BY <2>0 DEF Undoing
  <2>2. ASSUME NEW p \in Labels(u)', r < p
        PROVE  r \in Labels(u)'
    <3>1. p \in Labels(u) /\ p <= TopC(u) /\ p \in Nat /\ r \in Nat /\ TopC(u) \in Nat
      BY <1>0, <2>0, <2>2, TopFacts, ProgramFacts
    <3>2. r \in Labels(u)
      BY <2>2, <3>1 DEF AtomicInv, Synchronised
    <3> QED BY <2>0, <2>2, <3>1, <3>2
  <2>3. r \in Labels(u)' => \A w \in Thread : r \in Labels(w)'
    BY <2>0 DEF AtomicInv, Synchronised
  <2> QED BY <2>1, <2>2, <2>3
<1>15. ASSUME EnterAgain
       PROVE  Synchronised'
  <2>1. \A u \in Thread : at'[u] = 1 /\ STACKc'[u] = STACKc[u]
    BY <1>15 DEF EnterAgain
  <2>2. \A u \in Thread : Labels(u)' = Labels(u)
    BY <2>1, Idle
  <2>3. \A r \in Barriers : r > 0 /\ r \in Nat
    BY ProgramFacts
  <2>4. \A u \in Thread : Same(u)
    BY <2>1, <2>2, <2>3
  <2> QED BY <1>a, <2>4
<1>16. CASE UNCHANGED vars
  <2>1. /\ at' = at /\ \A u \in Thread : STACKc'[u] = STACKc[u]
        /\ \A u \in Thread : pc'[u] \notin Undoing => pc[u] \notin Undoing
    BY <1>16, <1>0 DEF vars, Goto, TypeOK, Undoing
  <2>2. ASSUME NEW u \in Thread
        PROVE  Same(u)
    <3>1. Labels(u)' = Labels(u)
      BY <2>1, Idle
    <3> QED BY <2>1, <3>1
  <2> QED BY <1>a, <2>2
<1> QED
  BY <1>1, <1>2, <1>3, <1>4, <1>5, <1>6, <1>7, <1>8, <1>9, <1>10, <1>11, <1>12, <1>13, <1>14, <1>15, <1>16
  DEF Next, Step, Terminated

(* A flag is raised with its storage and lowered with its first reversal. *)
LEMMA FlagsStep ==
  ASSUME AtomicInv, [Next]_vars
  PROVE  FlagsRaised'
<1>0. TypeOK /\ Together /\ LockHeld /\ StacksOrdered /\ FlagsRaised
  BY DEF AtomicInv
<1>a. ASSUME UNCHANGED <<flag, storage>>,
             \A u \in Thread : \A p :
               Program[p] \in Atomic => (p \in Labels(u)' <=> p \in Labels(u)),
             \A u \in Thread : pc[u] = "store" => pc'[u] = "store" /\ TopC(u)' = TopC(u),
             \A u \in Thread : pc'[u] \in Forwarding => pc[u] \in Forwarding \/ pc[Master] = "entry",
             pc'[Master] = "entry" => pc[Master] = "entry"
      PROVE  FlagsRaised'
  <2>1. \A b \in Atomic : flag'[b] = 1 =>
          storage'[b] \in Nat /\ \E u \in Thread : \E p \in Labels(u)' : Program[p] = b
    BY <1>0, <1>a DEF FlagsRaised
  <2>2. \A u \in Thread : \A p \in Labels(u)' :
          Program[p] \in Atomic /\ ~(pc'[u] = "store" /\ p = TopC(u)') => flag'[Program[p]] # 0
    BY <1>0, <1>a DEF FlagsRaised
  <2>3. \A b \in Atomic : flag'[b] = 2 => \A u \in Thread : pc'[u] \notin Forwarding
    BY <1>0, <1>a DEF FlagsRaised
  <2>4. pc'[Master] = "entry" => \A b \in Atomic : flag'[b] = 0
    BY <1>0, <1>a DEF FlagsRaised
  <2> QED BY <2>1, <2>2, <2>3, <2>4 DEF FlagsRaised
<1>1. ASSUME NEW t \in Thread, InitFlags(t)
      PROVE  FlagsRaised'
  <2>1. /\ \A b \in Atomic : flag'[b] = 0
        /\ \A u \in Thread : pc[u] \in Entering /\ pc'[u] \in Entering /\ STACKc'[u] = STACKc[u]
    BY <1>1, <1>0, SectionFacts DEF InitFlags, Goto, TypeOK, Entering
  <2>2. \A u \in Thread : Labels(u)' = {}
    BY <1>0, <2>1, Idle, TopFacts DEF StacksOrdered
  <2> QED BY <2>1, <2>2 DEF FlagsRaised
<1>2. ASSUME NEW t \in Thread, Skip(t)
      PROVE  FlagsRaised'
  <2>1. /\ UNCHANGED <<flag, storage, STACKc>>
        /\ \A u \in Thread : pc[u] = "store" => pc'[u] = "store"
        /\ \A u \in Thread : pc'[u] \in Forwarding => pc[u] \in Forwarding \/ pc[Master] = "entry"
        /\ pc'[Master] = "entry" => pc[Master] = "entry"
    BY <1>2, <1>0, ConstantsAssumption DEF Skip, Goto, TypeOK, Forwarding
  <2>2. \A u \in Thread : Labels(u)' = Labels(u) /\ TopC(u)' = TopC(u)
    BY <2>1, Idle
  <2> QED BY <1>a, <2>1, <2>2
<1>3. ASSUME NEW t \in Thread, ForwardRead(t)
      PROVE  FlagsRaised'
  <2>1. /\ Program[at[t]] \notin Atomic
        /\ Labels(t)' = Labels(t) \cup {at[t]}
        /\ \A u \in Thread : u # t => Labels(u)' = Labels(u) /\ TopC(u)' = TopC(u)
    BY <1>3, PushLabels, ProgramFacts
  <2>2. pc' = pc /\ pc[t] # "store" /\ UNCHANGED <<flag, storage>>
    BY <1>3 DEF ForwardRead
  <2> QED BY <1>a, <2>1, <2>2
<1>4. ASSUME NEW t \in Thread, EnterAtomic(t)
      PROVE  FlagsRaised'
  <2>1. /\ Labels(t)' = Labels(t) \cup {at[t]} /\ TopC(t)' = at[t]
        /\ \A u \in Thread : u # t => Labels(u)' = Labels(u) /\ TopC(u)' = TopC(u)
    BY <1>4, PushLabels
  <2>2. /\ UNCHANGED <<flag, storage>> /\ pc[t] = "forward" /\ pc'[t] = "store"
        /\ \A u \in Thread : u # t => pc'[u] = pc[u]
    BY <1>4, <1>0 DEF EnterAtomic, Goto, TypeOK
  <2>3. \A b \in Atomic : flag'[b] = 1 =>
          storage'[b] \in Nat /\ \E u \in Thread : \E p \in Labels(u)' : Program[p] = b
    BY <1>0, <2>1, <2>2 DEF FlagsRaised
  <2>4. \A u \in Thread : \A p \in Labels(u)' :
          Program[p] \in Atomic /\ ~(pc'[u] = "store" /\ p = TopC(u)') => flag'[Program[p]] # 0
    BY <1>0, <2>1, <2>2 DEF FlagsRaised
  <2>5. \A b \in Atomic : flag'[b] = 2 => \A u \in Thread : pc'[u] \notin Forwarding
    BY <1>0, <2>2 DEF FlagsRaised, Forwarding
  <2>6. pc'[Master] = "entry" => \A b \in Atomic : flag'[b] = 0
    BY <1>0, <2>2, ConstantsAssumption DEF FlagsRaised
  <2> QED BY <2>3, <2>4, <2>5, <2>6 DEF FlagsRaised
<1>5. ASSUME NEW t \in Thread, Store(t)
      PROVE  FlagsRaised'
  <2> DEFINE a == Program[TopC(t)]
  <2>1. /\ a \in Atomic /\ TopC(t) \in Labels(t)
    BY <1>5, <1>0, TopFacts DEF Store, LockHeld
  <2>2. /\ \A b \in Atomic : b # a => flag'[b] = flag[b] /\ storage'[b] = storage[b]
        /\ flag[a] = 0 => flag'[a] = 1 /\ storage'[a] = y
        /\ flag[a] # 0 => flag'[a] = flag[a] /\ storage'[a] = storage[a]
        /\ pc[t] = "store" /\ pc'[t] = "add" /\ y \in Nat
        /\ \A u \in Thread : u # t => pc'[u] = pc[u]
        /\ UNCHANGED STACKc
    BY <1>5, <1>0, <2>1 DEF Store, Goto, TypeOK
  <2> HIDE DEF a
  <2>3. \A u \in Thread : Labels(u)' = Labels(u) /\ TopC(u)' = TopC(u)
    BY <2>2, Idle
  <2>4. ASSUME NEW b \in Atomic, flag'[b] = 1
        PROVE  storage'[b] \in Nat /\ \E u \in Thread : \E p \in Labels(u)' : Program[p] = b
    <3>1. CASE b = a
      BY <1>0, <2>1, <2>2, <2>3, <2>4, <3>1 DEF FlagsRaised, a
    <3>2. CASE b # a
      BY <1>0, <2>2, <2>3, <2>4, <3>2 DEF FlagsRaised
    <3> QED BY <3>1, <3>2
  <2>5. ASSUME NEW u \in Thread, NEW p \in Labels(u)', Program[p] \in Atomic,
               ~(pc'[u] = "store" /\ p = TopC(u)')
        PROVE  flag'[Program[p]] # 0
    <3>1. CASE Program[p] = a
      BY <2>2, <3>1
    <3>2. CASE Program[p] # a
      <4>1. p \in Labels(u) /\ ~(pc[u] = "store" /\ p = TopC(u))
        BY <2>2, <2>3, <2>5, <3>2 DEF a
      <4> QED BY <1>0, <2>2, <2>5, <3>2, <4>1 DEF FlagsRaised
    <3> QED BY <3>1, <3>2
  <2>6. \A b \in Atomic : flag[b] # 2
    BY <1>0, <2>2 DEF FlagsRaised, Forwarding
  <2>7. \A b \in Atomic : flag'[b] = 2 => \A u \in Thread : pc'[u] \notin Forwarding
    BY <2>2, <2>6
  <2>8. pc'[Master] = "entry" => FALSE
    <3>1. pc[t] \in Forwarding
      BY <2>2 DEF Forwarding
    <3>2. pc[Master] \in Forwarding
      BY <1>0, <3>1, SectionFacts, ConstantsAssumption
    <3> QED BY <2>2, <3>2, ConstantsAssumption DEF Forwarding
  <2> QED BY <2>4, <2>5, <2>7, <2>8 DEF FlagsRaised
<1>6. ASSUME NEW t \in Thread, Add(t)
      PROVE  FlagsRaised'
  <2>1. /\ UNCHANGED <<flag, storage, STACKc>>
        /\ \A u \in Thread : pc[u] = "store" => pc'[u] = "store"
        /\ \A u \in Thread : pc'[u] \in Forwarding => pc[u] \in Forwarding
        /\ pc'[Master] = "entry" => pc[Master] = "entry"
    BY <1>6, <1>0, ConstantsAssumption DEF Add, Goto, TypeOK, Forwarding
  <2>2. \A u \in Thread : Labels(u)' = Labels(u) /\ TopC(u)' = TopC(u)
    BY <2>1, Idle
  <2> QED BY <1>a, <2>1, <2>2
<1>7. ASSUME NEW t \in Thread, ReverseRead(t)
      PROVE  FlagsRaised'
  <2>1. /\ Program[TopC(t)] \notin Atomic
        /\ Labels(t)' = Labels(t) \ {TopC(t)}
        /\ \A u \in Thread : u # t => Labels(u)' = Labels(u) /\ TopC(u)' = TopC(u)
    BY <1>7, PopLabels, ProgramFacts
  <2>2. pc' = pc /\ pc[t] # "store" /\ UNCHANGED <<flag, storage>>
    BY <1>7 DEF ReverseRead, Reversing
  <2> QED BY <1>a, <2>1, <2>2
<1>8. ASSUME NEW t \in Thread, EnterUndo(t)
      PROVE  FlagsRaised'
  <2>1. /\ UNCHANGED <<flag, storage, STACKc>>
        /\ \A u \in Thread : pc[u] = "store" => pc'[u] = "store"
        /\ \A u \in Thread : pc'[u] \in Forwarding => pc[u] \in Forwarding \/ pc[Master] = "entry"
        /\ pc'[Master] = "entry" => pc[Master] = "entry"
    BY <1>8, <1>0, ConstantsAssumption DEF EnterUndo, Reversing, Goto, TypeOK, Forwarding
  <2>2. \A u \in Thread : Labels(u)' = Labels(u) /\ TopC(u)' = TopC(u)
    BY <2>1, Idle
  <2> QED BY <1>a, <2>1, <2>2
<1>9. ASSUME NEW t \in Thread, Undo(t)
      PROVE  FlagsRaised'
  <2> DEFINE a == Program[TopC(t)]
  <2>1. /\ a \in Atomic /\ Labels(t)' = Labels(t) \ {TopC(t)}
        /\ \A u \in Thread : u # t => Labels(u)' = Labels(u)
        /\ \A u \in Thread : pc[u] \in Undoing
    BY <1>9, <1>0, PopLabels, SectionFacts
  <2>2. /\ \A b \in Atomic : b # a => flag'[b] = flag[b]
        /\ flag'[a] = 2 /\ UNCHANGED storage
        /\ \A u \in Thread : pc'[u] \in Undoing
    BY <1>9, <1>0, <2>1 DEF Undo, Goto, TypeOK, Undoing
  <2>3. ASSUME NEW b \in Atomic, flag'[b] = 1
        PROVE  storage'[b] \in Nat /\ \E u \in Thread : \E p \in Labels(u)' : Program[p] = b
    <3>1. b # a /\ flag[b] = 1
      BY <2>2, <2>3
    <3>2. PICK u \in Thread : \E p \in Labels(u) : Program[p] = b
      BY <1>0, <3>1 DEF FlagsRaised
    <3>3. PICK p \in Labels(u) : Program[p] = b
      BY <3>2
    <3>4. p \in Labels(u)'
      BY <2>1, <3>1, <3>3
    <3> QED BY <1>0, <2>2, <3>1, <3>3, <3>4 DEF FlagsRaised
  <2>4. ASSUME NEW u \in Thread, NEW p \in Labels(u)', Program[p] \in Atomic
        PROVE  flag'[Program[p]] # 0
    <3>1. p \in Labels(u) /\ pc[u] # "store"
      BY <2>1 DEF Undoing
    <3> QED BY <1>0, <2>2, <2>4, <3>1 DEF FlagsRaised
  <2>5. \A u \in Thread : pc'[u] \notin Forwarding /\ pc'[u] # "entry"
    BY <2>2 DEF Forwarding, Undoing
  <2> QED BY <2>3, <2>4, <2>5, ConstantsAssumption DEF FlagsRaised
<1>10. ASSUME NEW t \in Thread, EndReverse(t)
       PROVE  FlagsRaised'
  <2>1. /\ UNCHANGED <<flag, storage, STACKc>>
        /\ \A u \in Thread : pc[u] = "store" => pc'[u] = "store"
        /\ \A u \in Thread : pc'[u] \in Forwarding => pc[u] \in Forwarding \/ pc[Master] = "entry"
        /\ pc'[Master] = "entry" => pc[Master] = "entry"
    BY <1>10, <1>0, ConstantsAssumption DEF EndReverse, Goto, TypeOK, Forwarding
  <2>2. \A u \in Thread : Labels(u)' = Labels(u) /\ TopC(u)' = TopC(u)
    BY <2>1, Idle
  <2> QED BY <1>a, <2>1, <2>2
<1>11. ASSUME EnterForward
       PROVE  FlagsRaised'
  <2>1. /\ UNCHANGED <<flag, storage, STACKc>>
        /\ \A u \in Thread : pc[u] = "store" => pc'[u] = "store"
        /\ \A u \in Thread : pc'[u] \in Forwarding => pc[u] \in Forwarding \/ pc[Master] = "entry"
        /\ pc'[Master] = "entry" => pc[Master] = "entry"
    BY <1>11, <1>0, ConstantsAssumption DEF EnterForward, Goto, TypeOK, Forwarding
  <2>2. \A u \in Thread : Labels(u)' = Labels(u) /\ TopC(u)' = TopC(u)
    BY <2>1, Idle
  <2> QED BY <1>a, <2>1, <2>2
<1>12. ASSUME ForwardBarrier
       PROVE  FlagsRaised'
  <2>1. \A u \in Thread : Program[at[u]] \notin Atomic /\ Labels(u)' = Labels(u) \cup {at[u]}
    BY <1>12, ForwardBarrierLabels, ProgramFacts
  <2>2. pc' = pc /\ UNCHANGED <<flag, storage>> /\ \A u \in Thread : pc[u] # "store"
    BY <1>12 DEF ForwardBarrier
  <2> QED BY <1>a, <2>1, <2>2
<1>13. ASSUME TurnAround
       PROVE  FlagsRaised'
  <2>1. /\ UNCHANGED <<flag, storage, STACKc>>
        /\ \A u \in Thread : pc[u] = "store" => pc'[u] = "store"
        /\ \A u \in Thread : pc'[u] \in Forwarding => pc[u] \in Forwarding \/ pc[Master] = "entry"
        /\ pc'[Master] = "entry" => pc[Master] = "entry"
    BY <1>13, <1>0, ConstantsAssumption DEF TurnAround, Goto, TypeOK, Forwarding
  <2>2. \A u \in Thread : Labels(u)' = Labels(u) /\ TopC(u)' = TopC(u)
    BY <2>1, Idle
  <2> QED BY <1>a, <2>1, <2>2
<1>14. ASSUME ReverseBarrier
       PROVE  FlagsRaised'
  <2>1. \A u \in Thread : Program[TopC(u)] \notin Atomic /\ Labels(u)' = Labels(u) \ {TopC(u)}
    BY <1>14, ReverseBarrierLabels, ProgramFacts
  <2>2. pc' = pc /\ UNCHANGED <<flag, storage>> /\ \A u \in Thread : pc[u] # "store"
    BY <1>14 DEF ReverseBarrier, Reversing
  <2> QED BY <1>a, <2>1, <2>2
<1>15. ASSUME EnterAgain
       PROVE  FlagsRaised'
  <2>1. /\ UNCHANGED <<flag, storage, STACKc>>
        /\ \A u \in Thread : pc[u] = "store" => pc'[u] = "store"
        /\ \A u \in Thread : pc'[u] \in Forwarding => pc[u] \in Forwarding \/ pc[Master] = "entry"
        /\ pc'[Master] = "entry" => pc[Master] = "entry"
    BY <1>15, <1>0, ConstantsAssumption DEF EnterAgain, Finished, AtStart, Goto, TypeOK, Forwarding
  <2>2. \A u \in Thread : Labels(u)' = Labels(u) /\ TopC(u)' = TopC(u)
    BY <2>1, Idle
  <2> QED BY <1>a, <2>1, <2>2
<1>16. CASE UNCHANGED vars
  <2>1. /\ UNCHANGED <<flag, storage, STACKc>>
        /\ \A u \in Thread : pc[u] = "store" => pc'[u] = "store"
        /\ \A u \in Thread : pc'[u] \in Forwarding => pc[u] \in Forwarding \/ pc[Master] = "entry"
        /\ pc'[Master] = "entry" => pc[Master] = "entry"
    BY <1>16, <1>0, ConstantsAssumption DEF vars, Goto, TypeOK, Forwarding
  <2>2. \A u \in Thread : Labels(u)' = Labels(u) /\ TopC(u)' = TopC(u)
    BY <2>1, Idle
  <2> QED BY <1>a, <2>1, <2>2
<1> QED
  BY <1>1, <1>2, <1>3, <1>4, <1>5, <1>6, <1>7, <1>8, <1>9, <1>10, <1>11, <1>12, <1>13, <1>14, <1>15, <1>16
  DEF Next, Step, Terminated

(* A barrier in front of a statement that is to be undone has been passed. *)
LEMMA BarrierPassed ==
  ASSUME AtomicInv, OnePerPhase, NEW r \in Barriers, NEW q, Pending(q), r < q,
         NEW t \in Thread
  PROVE  r \in Labels(t)
<1>0. TypeOK /\ StacksOrdered
  BY DEF AtomicInv
<1>1. q \in Positions /\ Program[q] \in Atomic /\ flag[Program[q]] = 1
  BY DEF Pending
<1>2. PICK u \in Thread : \E x \in Labels(u) : Program[x] = Program[q]
  BY <1>1 DEF AtomicInv, FlagsRaised
<1>3. PICK x \in Labels(u) : Program[x] = Program[q]
  BY <1>2
<1>4. x \in Positions
  BY <1>0, TopFacts
<1>5. ~Parted(x, q)
  BY <1>1, <1>3, <1>4 DEF OnePerPhase
<1>6. r # x /\ ~(x < r) /\ r \in Nat /\ x \in Nat
  BY <1>1, <1>3, <1>4, <1>5, ProgramFacts DEF Parted
<1>7. r < x
  BY <1>6
<1> QED BY <1>3, <1>7 DEF AtomicInv, Synchronised

(* Nothing behind a read is to be undone when the barrier behind it has not *)
(* been passed.                                                            *)
LEMMA NothingPending ==
  ASSUME AtomicInv, OnePerPhase, NEW e \in Positions, Program[e] = "read",
         NEW t \in Thread, \A r \in Barriers : r \in Labels(t) => ~(e < r)
  PROVE  \A q \in Positions : e < q => ~Pending(q)
<1> SUFFICES ASSUME NEW q \in Positions, e < q, Pending(q)
             PROVE  FALSE
  OBVIOUS
<1>1. Parted(q, e)
  BY ConstantsAssumption DEF Pending
<1>2. PICK r \in Barriers : (q < r /\ r < e) \/ (e < r /\ r < q)
  BY <1>1 DEF Parted
<1>3. e < r /\ r < q
  BY <1>2, ProgramFacts
<1> QED BY <1>3, BarrierPassed

(* A thread inside an atomic construct has passed no barrier behind it, so *)
(* the reads on the stacks and what else is to be undone lie in front.     *)
LEMMA LatestPhase ==
  ASSUME AtomicInv, OnePerPhase, NEW t \in Thread, STACKc[t] # <<>>,
         NEW a \in Atomic, Program[TopC(t)] = a, NEW s \in Positions, Program[s] = a
  PROVE  /\ \A u \in Thread : \A p \in Labels(u) : Program[p] = "read" => p < s
         /\ \A q : Pending(q) /\ Program[q] # a => q < s
<1>0. TypeOK /\ StacksOrdered
  BY DEF AtomicInv
<1> DEFINE top == TopC(t)
<1>1. top \in Positions /\ \A p \in Labels(t) : p <= top
  BY <1>0, TopFacts
<1> HIDE DEF top
<1>2. ASSUME NEW r \in Barriers, s < r
      PROVE  r \notin Labels(t)
  <2>1. ~Parted(s, top) /\ r # top
    BY <1>1, ProgramFacts DEF OnePerPhase, top
  <2>2. ~(r < top) /\ r \in Nat /\ top \in Nat
    BY <1>1, <1>2, <2>1, ProgramFacts DEF Parted
  <2>3. ~(r <= top)
    BY <2>1, <2>2
  <2> QED BY <1>1, <2>3
<1>3. ASSUME NEW u \in Thread, NEW p \in Labels(u), Program[p] = "read"
      PROVE  p < s
  <2>1. p \in Positions /\ p \in Nat /\ s \in Nat /\ p # s
    BY <1>0, <1>3, TopFacts, ProgramFacts
  <2>2. PICK r \in Barriers : (s < r /\ r < p) \/ (p < r /\ r < s)
    <3>1. Parted(s, p)
      BY <1>3, <2>1, ConstantsAssumption
    <3> QED BY <3>1 DEF Parted
  <2>3. r \in Nat
    BY ProgramFacts
  <2>4. ~(s < r /\ r < p)
    BY <1>2 DEF AtomicInv, Synchronised
  <2> QED BY <2>1, <2>2, <2>3, <2>4
<1>4. ASSUME NEW q, Pending(q), Program[q] # a
      PROVE  q < s
  <2>1. q \in Positions /\ q \in Nat /\ s \in Nat /\ Program[q] \in Atomic
    BY <1>4, ProgramFacts DEF Pending
  <2>2. PICK r \in Barriers : (q < r /\ r < s) \/ (s < r /\ r < q)
    <3>1. Parted(q, s)
      BY <1>4, <2>1 DEF OnePerPhase
    <3> QED BY <3>1 DEF Parted
  <2>3. r \in Nat
    BY ProgramFacts
  <2>4. ~(s < r /\ r < q)
    BY <1>2, <1>4, BarrierPassed
  <2> QED BY <2>1, <2>2, <2>3, <2>4
<1> QED BY <1>3, <1>4

(* What is kept stays so while neither y nor a flag or a storage changes.  *)
LEMMA KeptFrame ==
  ASSUME UNCHANGED <<flag, storage, y>>
  PROVE  \A p, v : Kept(p, v) => Kept(p, v)'
<1>1. \A q : Pending(q)' <=> Pending(q)
  BY DEF Pending, Positions
<1> QED BY <1>1 DEF Kept, Positions

(* The values that reads have seen and the reverse section is to find in y *)
(* again are in y or in the storages.                                      *)
LEMMA ValuesStep ==
  ASSUME AtomicInv, [Next]_vars, OnePerPhase
  PROVE  ValuesKept'
<1>0. TypeOK /\ Together /\ LockHeld /\ StacksOrdered /\ FlagsRaised /\ ValuesKept
  BY DEF AtomicInv
<1> DEFINE Read(p) == p = 0 \/ \E u \in Thread : p \in Labels(u) /\ Program[p] = "read"
<1>a. ASSUME entry' = entry,
             \A p, v : Read(p) /\ Kept(p, v) => Kept(p, v)',
             \A u \in Thread : \A p \in Labels(u)' : Program[p] = "read" =>
               p \in Labels(u) /\ seen'[u][p] = seen[u][p]
      PROVE  ValuesKept'
  <2>1. ASSUME NEW n, n = entry
        PROVE  Kept(0, n)'
    BY <1>0, <1>a, <2>1 DEF ValuesKept
  <2>2. ASSUME NEW u \in Thread, NEW p \in Labels(u)', Program[p] = "read", NEW n, n = seen[u][p]
        PROVE  Kept(p, n)' /\ n = seen'[u][p]
    BY <1>0, <1>a, <2>2 DEF ValuesKept
  <2>3. Kept(0, entry)'
    BY <1>a, <2>1 DEF Kept
  <2>4. ASSUME NEW u \in Thread, NEW p \in Labels(u)', Program[p] = "read"
        PROVE  Kept(p, seen[u][p])'
    BY <2>2, <2>4 DEF Kept
  <2> QED BY <2>3, <2>4 DEF ValuesKept
<1>b. ASSUME UNCHANGED <<flag, storage, y, entry>>,
             \A u \in Thread : \A p \in Labels(u)' : Program[p] = "read" =>
               p \in Labels(u) /\ seen'[u][p] = seen[u][p]
      PROVE  ValuesKept'
  BY <1>a, <1>b, KeptFrame
<1>c. \A u \in Thread : Labels(u) \subseteq Positions
  BY <1>0, TopFacts
<1>d. ASSUME \A u \in Thread : Labels(u) = {}
      PROVE  \A q : ~Pending(q)
  BY <1>0, <1>d DEF FlagsRaised, Pending
<1> HIDE DEF Read
<1>1. ASSUME NEW t \in Thread, InitFlags(t)
      PROVE  ValuesKept'
  <2>1. \A u \in Thread : pc[u] \in Entering
    <3>1. pc[t] \in Entering
      BY <1>1 DEF InitFlags, Entering
    <3> QED BY <1>0, <3>1, SectionFacts
  <2>2. \A u \in Thread : Labels(u) = {} /\ STACKc'[u] = STACKc[u]
    BY <1>1, <1>0, <2>1, TopFacts DEF StacksOrdered, InitFlags
  <2>3. \A u \in Thread : Labels(u)' = {}
    BY <2>2, Idle
  <2>4. Kept(0, entry)
    BY <1>0 DEF ValuesKept
  <2>5. \A q \in Positions : ~Pending(q)
    BY <1>d, <2>2
  <2>6. y = entry
    BY <2>4, <2>5 DEF Kept
  <2>7. \A q \in Positions : ~Pending(q)'
    BY <1>1 DEF InitFlags, Pending
  <2>8. y' = entry'
    BY <1>1, <2>6 DEF InitFlags
  <2>9. Kept(0, entry)'
    BY <2>7, <2>8 DEF Kept, Positions
  <2> QED BY <2>3, <2>9 DEF ValuesKept
<1>2. ASSUME NEW t \in Thread, Skip(t)
      PROVE  ValuesKept'
  <2>1. UNCHANGED <<flag, storage, y, entry, seen, STACKc>>
    BY <1>2 DEF Skip
  <2>2. \A u \in Thread : Labels(u)' = Labels(u)
    BY <2>1, Idle
  <2> QED BY <1>b, <2>1, <2>2
<1>3. ASSUME NEW t \in Thread, ForwardRead(t)
      PROVE  ValuesKept'
  <2>1. /\ at[t] \in Positions /\ Program[at[t]] = "read"
        /\ Labels(t)' = Labels(t) \cup {at[t]}
        /\ \A u \in Thread : u # t => Labels(u)' = Labels(u)
    BY <1>3, PushLabels
  <2>2. UNCHANGED <<flag, storage, y, entry>> /\ seen' = [seen EXCEPT ![t][at[t]] = y]
    BY <1>3 DEF ForwardRead
  <2>3. \A r \in Barriers : r \in Labels(t) => ~(at[t] < r)
    <3>1. \A r \in Labels(t) : r < at[t]
      BY <1>0 DEF StacksOrdered
    <3>2. at[t] \in Nat /\ \A r \in Barriers : r \in Nat
      BY <2>1, ProgramFacts
    <3> QED BY <3>1, <3>2
  <2>4. \A q \in Positions : at[t] < q => ~Pending(q)
    BY <2>1, <2>3, NothingPending
  <2>5. \A p, v : Kept(p, v) => Kept(p, v)'
    BY <2>2, KeptFrame
  <2>6. ASSUME NEW e, e = at[t], NEW v, v = y
        PROVE  Kept(e, v)'
    <3>1. Kept(e, v)
      BY <2>4, <2>6 DEF Kept
    <3> QED BY <2>5, <3>1
  <2>7. ASSUME NEW u \in Thread, NEW p \in Labels(u)', Program[p] = "read", NEW v, v = seen'[u][p]
        PROVE  Kept(p, v)'
    <3>1. CASE u = t /\ p = at[t]
      <4>1. seen'[t][at[t]] = y
        BY <1>0, <2>1, <2>2 DEF TypeOK
      <4> QED BY <2>6, <2>7, <3>1, <4>1
    <3>2. CASE ~(u = t /\ p = at[t])
      <4>1. p \in Labels(u)
        BY <2>1, <3>2
      <4>2. seen'[u][p] = seen[u][p]
        BY <1>0, <2>2, <3>2 DEF TypeOK
      <4>3. Kept(p, v)
        BY <1>0, <2>7, <4>1, <4>2 DEF ValuesKept
      <4> QED BY <2>5, <4>3
    <3> QED BY <3>1, <3>2
  <2>8. ASSUME NEW u \in Thread, NEW p \in Labels(u)', Program[p] = "read"
        PROVE  Kept(p, seen[u][p])'
    BY <2>7, <2>8 DEF Kept
  <2>9. ASSUME NEW v, v = entry'
        PROVE  Kept(0, v)'
    BY <1>0, <2>2, <2>5, <2>9 DEF ValuesKept
  <2>10. Kept(0, entry)'
    BY <2>9 DEF Kept
  <2> QED BY <2>8, <2>10 DEF ValuesKept
<1>4. ASSUME NEW t \in Thread, EnterAtomic(t)
      PROVE  ValuesKept'
  <2>1. /\ Program[at[t]] # "read"
        /\ Labels(t)' = Labels(t) \cup {at[t]}
        /\ \A u \in Thread : u # t => Labels(u)' = Labels(u)
    BY <1>4, PushLabels, ProgramFacts
  <2>2. UNCHANGED <<flag, storage, y, entry, seen>>
    BY <1>4 DEF EnterAtomic
  <2> QED BY <1>b, <2>1, <2>2
<1>5. ASSUME NEW t \in Thread, Store(t)
      PROVE  ValuesKept'
  <2> DEFINE a == Program[TopC(t)]
  <2>1. a \in Atomic /\ TopC(t) \in Labels(t) /\ TopC(t) \in Positions /\ STACKc[t] # <<>>
    BY <1>5, <1>0, TopFacts DEF Store, LockHeld
  <2>2. /\ flag[a] = 0 => /\ flag' = [flag EXCEPT ![a] = 1]
                           /\ storage' = [storage EXCEPT ![a] = y]
        /\ flag[a] # 0 => flag' = flag /\ storage' = storage
        /\ UNCHANGED <<y, entry, seen, STACKc>>
    BY <1>5, <1>0, <2>1 DEF Store, TypeOK
  <2>3. ASSUME NEW s \in Positions, Program[s] = a
        PROVE  /\ \A p : Read(p) => p < s
               /\ \A q : Pending(q) /\ Program[q] # a => q < s
    BY <2>1, <2>3, LatestPhase, ProgramFacts DEF Read
  <2> HIDE DEF a
  <2>4. \A u \in Thread : Labels(u)' = Labels(u)
    BY <2>2, Idle
  <2>5. CASE flag[a] # 0
    BY <1>b, <2>2, <2>4, <2>5
  <2>6. CASE flag[a] = 0
    <3>1. \A q : Pending(q)' <=> Pending(q) \/ (q \in Positions /\ Program[q] = a)
      BY <1>0, <2>1, <2>2, <2>6 DEF Pending, Positions, TypeOK
    <3>2. \A q : Pending(q) => Program[q] # a /\ Program[q] \in Atomic /\ q \in Positions
      BY <2>6 DEF Pending
    <3>3. storage'[a] = y /\ \A b \in Atomic : b # a => storage'[b] = storage[b]
      BY <1>0, <2>1, <2>2, <2>6 DEF TypeOK
    <3>4. ASSUME NEW p, NEW v, Read(p), Kept(p, v)
          PROVE  Kept(p, v)'
      <4>1. \E q \in Positions : Pending(q)' /\ p < q
        BY <2>1, <2>3, <3>1, <3>4 DEF a
      <4>2. ASSUME NEW q \in Positions, Pending(q)', p < q,
                   \A r \in Positions : Pending(r)' /\ p < r => q <= r
            PROVE  storage'[Program[q]] = v
        <5>1. CASE Program[q] = a
          <6>1. ASSUME NEW r \in Positions, Pending(r), p < r
                PROVE  FALSE
            <7>1. r < q
              BY <2>3, <3>2, <5>1, <6>1
            <7>2. q <= r
              BY <3>1, <4>2, <6>1
            <7> QED BY <7>1, <7>2, ProgramFacts
          <6>2. y = v
            BY <3>4, <6>1 DEF Kept
          <6> QED BY <3>3, <5>1, <6>2
        <5>2. CASE Program[q] # a
          <6>1. Pending(q)
            BY <3>1, <4>2, <5>2
          <6>2. \A r \in Positions : Pending(r) /\ p < r => q <= r
            BY <3>1, <4>2
          <6>3. storage[Program[q]] = v
            BY <3>4, <4>2, <6>1, <6>2 DEF Kept
          <6> QED BY <3>2, <3>3, <5>2, <6>1, <6>3
        <5> QED BY <5>1, <5>2
      <4> QED BY <2>1, <4>1, <4>2 DEF Kept, Positions
    <3> QED BY <1>a, <2>2, <2>4, <3>4
  <2> QED BY <2>5, <2>6
<1>6. ASSUME NEW t \in Thread, Add(t)
      PROVE  ValuesKept'
  <2> DEFINE a == Program[TopC(t)]
  <2>1. a \in Atomic /\ TopC(t) \in Labels(t) /\ TopC(t) \in Positions /\ STACKc[t] # <<>>
    BY <1>6, <1>0, TopFacts DEF Add, LockHeld
  <2>2. UNCHANGED <<flag, storage, entry, seen, STACKc>> /\ pc[t] = "add"
    BY <1>6 DEF Add
  <2>3. ASSUME NEW s \in Positions, Program[s] = a
        PROVE  /\ \A p : Read(p) => p < s
               /\ \A q : Pending(q) /\ Program[q] # a => q < s
    BY <2>1, <2>3, LatestPhase, ProgramFacts DEF Read
  <2>4. \A u \in Thread : Labels(u)' = Labels(u)
    BY <2>2, Idle
  <2>5. flag[a] = 1
    <3>1. flag[a] # 0 /\ flag[a] # 2
      BY <1>0, <2>1, <2>2 DEF FlagsRaised, Forwarding
    <3>2. flag[a] \in 0..2
      BY <1>0, <2>1 DEF TypeOK
    <3> QED BY <3>1, <3>2
  <2>6. Pending(TopC(t))
    BY <2>1, <2>5 DEF Pending
  <2>7. \A q : Pending(q)' <=> Pending(q)
    BY <2>2 DEF Pending, Positions
  <2>8. ASSUME NEW p, NEW v, Read(p), Kept(p, v)
        PROVE  Kept(p, v)'
    <3>1. p < TopC(t)
      BY <2>1, <2>3, <2>8
    <3> QED BY <2>1, <2>2, <2>6, <2>7, <2>8, <3>1 DEF Kept, Positions
  <2> QED BY <1>a, <2>2, <2>4, <2>8
<1>7. ASSUME NEW t \in Thread, ReverseRead(t)
      PROVE  ValuesKept'
  <2>1. /\ Labels(t)' = Labels(t) \ {TopC(t)}
        /\ \A u \in Thread : u # t => Labels(u)' = Labels(u)
    BY <1>7, PopLabels
  <2>2. UNCHANGED <<flag, storage, y, entry>>
    BY <1>7 DEF ReverseRead
  <2>3. \A u \in Thread : \A p \in Labels(u)' : p \in Labels(u) /\ seen'[u][p] = seen[u][p]
    <3>1. \A p : p # TopC(t) => seen'[t][p] = seen[t][p]
      BY <1>7, <1>0 DEF ReverseRead, TypeOK
    <3>2. \A u \in Thread : u # t => seen'[u] = seen[u]
      BY <1>7, <1>0 DEF ReverseRead, TypeOK
    <3> QED BY <2>1, <3>1, <3>2
  <2> QED BY <1>b, <2>2, <2>3
<1>8. ASSUME NEW t \in Thread, EnterUndo(t)
      PROVE  ValuesKept'
  <2>1. UNCHANGED <<flag, storage, y, entry, seen, STACKc>>
    BY <1>8 DEF EnterUndo
  <2>2. \A u \in Thread : Labels(u)' = Labels(u)
    BY <2>1, Idle
  <2> QED BY <1>b, <2>1, <2>2
<1>9. ASSUME NEW t \in Thread, Undo(t)
      PROVE  ValuesKept'
  <2> DEFINE a == Program[TopC(t)]
  <2>1. a \in Atomic /\ TopC(t) \in Labels(t) /\ TopC(t) \in Positions /\ STACKc[t] # <<>>
    BY <1>9, <1>0, TopFacts DEF Undo, LockHeld
  <2>2. /\ UNCHANGED <<storage, entry, seen>> /\ pc[t] = "undo"
        /\ flag' = [flag EXCEPT ![a] = 2]
        /\ y' = IF flag[a] # 2 THEN storage[a] ELSE y
        /\ \A u \in Thread : Labels(u)' \subseteq Labels(u)
    BY <1>9, PopLabels DEF Undo
  <2>3. ASSUME NEW s \in Positions, Program[s] = a
        PROVE  /\ \A p : Read(p) => p < s
               /\ \A q : Pending(q) /\ Program[q] # a => q < s
    BY <2>1, <2>3, LatestPhase, ProgramFacts DEF Read
  <2> HIDE DEF a
  <2>4. CASE flag[a] = 2
    <3>1. flag' = flag
      BY <1>0, <2>2, <2>4 DEF TypeOK
    <3> QED BY <1>b, <2>2, <2>4, <3>1
  <2>5. CASE flag[a] # 2
    <3>1. flag[a] = 1
      <4>1. flag[a] # 0
        BY <1>0, <2>1, <2>2 DEF FlagsRaised, a
      <4>2. flag[a] \in 0..2
        BY <1>0, <2>1 DEF TypeOK
      <4> QED BY <2>5, <4>1, <4>2
    <3>2. \A q : Pending(q)' <=> Pending(q) /\ Program[q] # a
      BY <1>0, <2>1, <2>2 DEF Pending, Positions, TypeOK
    <3>3. Pending(TopC(t)) /\ y' = storage[a]
      BY <2>1, <2>2, <2>5, <3>1 DEF Pending, a
    <3>4. ASSUME NEW p, NEW v, Read(p), Kept(p, v)
          PROVE  Kept(p, v)'
      <4> DEFINE Q == { q \in Positions : Pending(q) /\ p < q }
      <4>1. TopC(t) \in Q
        BY <2>1, <2>3, <3>3, <3>4 DEF a
      <4>2. PICK m \in Q : \A r \in Q : m <= r
        <5>1. Q \subseteq Nat /\ Q # {}
          BY <4>1, ProgramFacts
        <5> HIDE DEF Q
        <5> QED BY <5>1, FirstPlace
      <4>3. storage[Program[m]] = v
        BY <3>4, <4>2 DEF Kept
      <4>4. ASSUME \A q \in Positions : p < q => ~Pending(q)'
            PROVE  y' = v
        <5>1. Program[m] = a
          BY <3>2, <4>2, <4>4
        <5> QED BY <3>3, <4>3, <5>1
      <4>5. ASSUME NEW q \in Positions, Pending(q)', p < q,
                   \A r \in Positions : Pending(r)' /\ p < r => q <= r
            PROVE  storage'[Program[q]] = v
        <5>1. ASSUME NEW r \in Positions, Pending(r), p < r
              PROVE  q <= r
          <6>1. CASE Program[r] = a
            <7>1. q < r
              BY <2>3, <3>2, <4>5, <5>1, <6>1
            <7> QED BY <7>1, <5>1, <4>5, ProgramFacts
          <6>2. CASE Program[r] # a
            BY <3>2, <4>5, <5>1, <6>2
          <6> QED BY <6>1, <6>2
        <5>2. storage[Program[q]] = v
          BY <3>2, <3>4, <4>5, <5>1 DEF Kept
        <5> QED BY <2>2, <5>2
      <4> HIDE DEF Q
      <4> QED BY <4>4, <4>5 DEF Kept, Positions
    <3> QED BY <1>a, <2>2, <3>4
  <2> QED BY <2>4, <2>5
<1>10. ASSUME NEW t \in Thread, EndReverse(t)
       PROVE  ValuesKept'
  <2>1. UNCHANGED <<flag, storage, y, entry, seen, STACKc>>
    BY <1>10 DEF EndReverse
  <2>2. \A u \in Thread : Labels(u)' = Labels(u)
    BY <2>1, Idle
  <2> QED BY <1>b, <2>1, <2>2
<1>11. ASSUME EnterForward
       PROVE  ValuesKept'
  <2>1. UNCHANGED <<flag, storage, y, entry, seen, STACKc>>
    BY <1>11 DEF EnterForward
  <2>2. \A u \in Thread : Labels(u)' = Labels(u)
    BY <2>1, Idle
  <2> QED BY <1>b, <2>1, <2>2
<1>12. ASSUME ForwardBarrier
       PROVE  ValuesKept'
  <2>1. \A u \in Thread : Program[at[u]] # "read" /\ Labels(u)' = Labels(u) \cup {at[u]}
    BY <1>12, ForwardBarrierLabels, ProgramFacts
  <2>2. UNCHANGED <<flag, storage, y, entry, seen>>
    BY <1>12 DEF ForwardBarrier
  <2> QED BY <1>b, <2>1, <2>2
<1>13. ASSUME TurnAround
       PROVE  ValuesKept'
  <2>1. UNCHANGED <<flag, storage, y, entry, seen, STACKc>>
    BY <1>13 DEF TurnAround
  <2>2. \A u \in Thread : Labels(u)' = Labels(u)
    BY <2>1, Idle
  <2> QED BY <1>b, <2>1, <2>2
<1>14. ASSUME ReverseBarrier
       PROVE  ValuesKept'
  <2>1. \A u \in Thread : Program[TopC(u)] # "read" /\ Labels(u)' = Labels(u) \ {TopC(u)}
    BY <1>14, ReverseBarrierLabels, ProgramFacts
  <2>2. UNCHANGED <<flag, storage, y, entry, seen>>
    BY <1>14 DEF ReverseBarrier
  <2> QED BY <1>b, <2>1, <2>2
<1>15. ASSUME EnterAgain
       PROVE  ValuesKept'
  <2>1. \A u \in Thread : Labels(u) = {} /\ STACKc'[u] = STACKc[u]
    BY <1>15, <1>0, TopFacts DEF StacksOrdered, EnterAgain, Finished
  <2>2. \A u \in Thread : Labels(u)' = {}
    BY <2>1, Idle
  <2>3. \A q \in Positions : ~Pending(q)
    BY <1>d, <2>1
  <2>4. flag' = flag /\ y' = entry'
    BY <1>15 DEF EnterAgain
  <2>5. \A q \in Positions : ~Pending(q)'
    BY <2>3, <2>4 DEF Pending, Positions
  <2>6. Kept(0, entry)'
    BY <2>4, <2>5 DEF Kept, Positions
  <2> QED BY <2>2, <2>6 DEF ValuesKept
<1>16. CASE UNCHANGED vars
  <2>1. UNCHANGED <<flag, storage, y, entry, seen, STACKc>>
    BY <1>16 DEF vars
  <2>2. \A u \in Thread : Labels(u)' = Labels(u)
    BY <2>1, Idle
  <2> QED BY <1>b, <2>1, <2>2
<1> QED
  BY <1>1, <1>2, <1>3, <1>4, <1>5, <1>6, <1>7, <1>8, <1>9, <1>10, <1>11, <1>12, <1>13, <1>14, <1>15, <1>16
  DEF Next, Step, Terminated

LEMMA InitAtomicInv ==
  ASSUME Init
  PROVE  AtomicInv
<1>1. TypeOK
  <2>1. 1 \in 1..Len(Program) + 1 /\ 1 \in 1..Regions /\ y \in Nat
    BY ProgramFacts, ConstantsAssumption DEF Init
  <2>2. pc \in [Thread -> {"master", "entry", "forward", "store", "add",
                           "reverse", "undo", "done"}]
    BY DEF Init, AtStart
  <2>3. STACKc \in [Thread -> Seq(Positions)]
    BY DEF Init
  <2>4. flag \in [Atomic -> 0..2]
    BY DEF Init
  <2> QED BY <2>1, <2>2, <2>3, <2>4 DEF Init, TypeOK
<1>2. \A t \in Thread : STACKc[t] = <<>> /\ Labels(t) = {} /\ pc[t] \in Entering
  <2>1. \A t \in Thread : STACKc[t] = <<>> /\ pc[t] \in Entering
    BY DEF Init, AtStart, Entering
  <2>2. Len(<<>>) = 0 /\ 1..0 = {}
    OBVIOUS
  <2> QED BY <2>1, <2>2 DEF Labels
<1>3. Together
  BY <1>2 DEF Together
<1>4. LockHeld
  BY <1>2, ConstantsAssumption DEF Init, LockHeld, Entering
<1>5. StacksOrdered
  <2>1. Len(<<>>) = 0 /\ 1..0 = {}
    OBVIOUS
  <2> QED BY <1>2, <2>1 DEF StacksOrdered
<1>6. Synchronised
  <2>1. \A t \in Thread, r \in Barriers : ~(r < at[t])
    BY ProgramFacts DEF Init
  <2> QED BY <1>2, <2>1 DEF Synchronised
<1>7. FlagsRaised
  BY <1>2 DEF Init, FlagsRaised
<1>8. ValuesKept
  BY <1>2 DEF Init, ValuesKept, Kept, Pending
<1> QED BY <1>1, <1>3, <1>4, <1>5, <1>6, <1>7, <1>8 DEF AtomicInv

LEMMA NextAtomicInv ==
  ASSUME AtomicInv, [Next]_vars
  PROVE  AtomicInv'
<1>1. (OnePerPhase => ValuesKept)'
  BY ValuesStep DEF OnePerPhase, Parted, Positions, Barriers
<1> QED
  BY <1>1, TypeStep, TogetherStep, LockStep, OrderedStep, SynchronisedStep, FlagsStep
  DEF AtomicInv

(* In every state of every program, the team is in one section and between *)
(* the same barriers, the flags say which statements are still to be       *)
(* undone, and, with one atomic statement to a phase, the storages and y   *)
(* hold the values that the reads before them saw.                         *)
THEOREM AtomicInvariant == Spec => []AtomicInv
<1>1. Init => AtomicInv
  BY InitAtomicInv
<1>2. AtomicInv /\ [Next]_vars => AtomicInv'
  BY NextAtomicInv
<1> QED BY <1>1, <1>2, PTL DEF Spec

(* The variables keep their types for every program: a storage that was    *)
(* not filled is never copied to y.                                        *)
THEOREM TypeCorrect == Spec => []TypeOK
<1>1. AtomicInv => TypeOK
  BY DEF AtomicInv
<1> QED BY <1>1, AtomicInvariant, PTL

(* In a region whose phases increment y by one atomic statement each, the  *)
(* reverse section finds in y what each read saw, whichever thread reverses *)
(* its atomics first.                                                      *)
THEOREM ReadsAreReplayed ==
  ASSUME OnePerPhase
  PROVE  Spec => []ReadsReplayed
<1>1. AtomicInv => ReadsReplayed
  <2> SUFFICES ASSUME AtomicInv, NEW t \in Thread, Reversing(t), NEW e, e = TopC(t),
                      Program[e] = "read"
               PROVE  y = seen[t][e]
    BY DEF ReadsReplayed
  <2>1. e \in Labels(t) /\ e \in Positions /\ \A p \in Labels(t) : p <= e
    BY TopFacts DEF AtomicInv, Reversing
  <2>2. Kept(e, seen[t][e])
    BY <2>1 DEF AtomicInv, ValuesKept
  <2>3. \A r \in Barriers : r \in Labels(t) => ~(e < r)
    BY <2>1, ProgramFacts
  <2>4. \A q \in Positions : e < q => ~Pending(q)
    BY <2>1, <2>3, NothingPending
  <2> QED BY <2>2, <2>4 DEF Kept
<1> QED BY <1>1, AtomicInvariant, PTL

(* Such a region leaves y behind as it found it.                           *)
THEOREM RegionIsRestored ==
  ASSUME OnePerPhase
  PROVE  Spec => []RegionRestored
<1>1. AtomicInv => RegionRestored
  <2> SUFFICES ASSUME AtomicInv, Finished
               PROVE  y = entry
    BY DEF RegionRestored
  <2>1. \A t \in Thread : Labels(t) = {}
    BY TopFacts DEF AtomicInv, StacksOrdered, Finished
  <2>2. \A q \in Positions : ~Pending(q)
    BY <2>1 DEF AtomicInv, FlagsRaised, Pending
  <2>3. Kept(0, entry)
    BY DEF AtomicInv, ValuesKept
  <2> QED BY <2>2, <2>3 DEF Kept
<1> QED BY <1>1, AtomicInvariant, PTL
=============================================================================

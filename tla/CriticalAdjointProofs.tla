------------------------- MODULE CriticalAdjointProofs -------------------------
(***************************************************************************)
(* Proofs about CriticalAdjoint. CriticalInv is inductive: the lemmas      *)
(* below show that each of its parts survives each action, and the         *)
(* theorems behind them draw the type invariant, StacksAligned and         *)
(* TicketsExact from it, for every team, set of constructs and stack depth.*)
(* The second half strengthens it by UndoInv, which follows the saved      *)
(* values of a construct back to its first execution: RegionUndone. The     *)
(* last part shows that the construct implements SectionOrder.             *)
(***************************************************************************)
EXTENDS CriticalAdjoint, FiniteSetTheorems, SequenceTheorems, TLAPS

(* Pushing adds one element on top and keeps what is below. *)
LEMMA PushFacts ==
  ASSUME NEW S, NEW s \in Seq(S), NEW e \in S
  PROVE  /\ Push(s, e) \in Seq(S)
         /\ Len(Push(s, e)) = Len(s) + 1
         /\ \A i \in 1..Len(s) : Push(s, e)[i] = s[i]
         /\ Push(s, e)[Len(s) + 1] = e
BY DEF Push

(* Popping a stack that is not empty removes its top and keeps the rest. *)
LEMMA PopFacts ==
  ASSUME NEW S, NEW s \in Seq(S), s # <<>>
  PROVE  /\ Pop(s) \in Seq(S)
         /\ Len(s) # 0
         /\ Len(Pop(s)) = Len(s) - 1
         /\ \A i \in 1..(Len(s) - 1) : Pop(s)[i] = s[i]
<1>1. Len(s) # 0
  OBVIOUS
<1>2. PICK n \in Nat : n = Len(s) - 1
  BY <1>1
<1>3. /\ SubSeq(s, 1, n) \in Seq(S)
      /\ Len(SubSeq(s, 1, n)) = n
      /\ \A i \in 1..n : SubSeq(s, 1, n)[i] = s[i]
  BY <1>2
<1> QED BY <1>1, <1>2, <1>3 DEF Pop

(* The top of a control stack, and what top() gives when it is empty. *)
LEMMA TopFacts ==
  ASSUME NEW s \in Seq(Int)
  PROVE  /\ TopC(s) \in Int
         /\ \A i \in 1..Len(s) : s[i] \in Int
         /\ s # <<>> <=> Len(s) # 0
         /\ Len(s) # 0 => TopC(s) = s[Len(s)]
         /\ Len(s) = 0 => TopC(s) = NoLabel
BY DEF TopC, NoLabel

(* Labels are naturals, NoLabel is none of them, and neither is a counter   *)
(* value or the value one below it: dispatch never takes a ticket for one.  *)
LEMMA LabelFacts ==
  /\ Label \subseteq Nat /\ Critical \subseteq Nat /\ Slc \subseteq Nat
  /\ NoLabel \notin Label
  /\ \A l \in Critical : /\ CounterInit[l] \in Nat
                         /\ \A n \in Int : n >= CounterInit[l] - 1 => n \notin Label
BY ConstantsAssumption DEF Label, NoLabel

(* The number of pieces on a control stack. *)
LEMMA PiecesFinite ==
  ASSUME NEW s \in Seq(Int)
  PROVE  IsFiniteSet(Pieces(s)) /\ Cardinality(Pieces(s)) \in Nat
<1>1. IsFiniteSet(1..Len(s))
  BY FS_Interval
<1>2. Pieces(s) \subseteq 1..Len(s)
  BY DEF Pieces
<1> QED BY <1>1, <1>2, FS_Subset, FS_CardinalityType

(* A push adds a piece to the control stack exactly if it pushes its label. *)
LEMMA PiecesPush ==
  ASSUME NEW s \in Seq(Int), NEW e \in Int
  PROVE  Cardinality(Pieces(Push(s, e)))
           = Cardinality(Pieces(s)) + (IF e \in Slc THEN 1 ELSE 0)
<1>0. /\ Len(Push(s, e)) = Len(s) + 1
      /\ \A i \in 1..Len(s) : Push(s, e)[i] = s[i]
      /\ Push(s, e)[Len(s) + 1] = e
  BY PushFacts
<1>1. e \in Slc => Pieces(Push(s, e)) = Pieces(s) \cup {Len(s) + 1}
  BY <1>0 DEF Pieces
<1>2. e \notin Slc => Pieces(Push(s, e)) = Pieces(s)
  BY <1>0 DEF Pieces
<1>3. Len(s) + 1 \notin Pieces(s)
  BY DEF Pieces
<1>4. Cardinality(Pieces(s) \cup {Len(s) + 1}) = Cardinality(Pieces(s)) + 1
  BY <1>3, PiecesFinite, FS_AddElement
<1>5. Cardinality(Pieces(s)) \in Nat
  BY PiecesFinite
<1>6. CASE e \in Slc
  BY <1>1, <1>4, <1>6
<1>7. CASE e \notin Slc
  BY <1>2, <1>5, <1>7
<1> QED BY <1>6, <1>7

(* A pop removes a piece exactly if the label of one was on top. *)
LEMMA PiecesPop ==
  ASSUME NEW s \in Seq(Int), s # <<>>
  PROVE  Cardinality(Pieces(Pop(s)))
           = Cardinality(Pieces(s)) - (IF s[Len(s)] \in Slc THEN 1 ELSE 0)
<1>0. /\ Len(Pop(s)) = Len(s) - 1
      /\ Len(s) # 0
      /\ \A i \in 1..(Len(s) - 1) : Pop(s)[i] = s[i]
  BY PopFacts
<1>1. s[Len(s)] \in Slc =>
        Pieces(Pop(s)) = Pieces(s) \ {Len(s)} /\ Len(s) \in Pieces(s)
  BY <1>0 DEF Pieces
<1>2. s[Len(s)] \notin Slc => Pieces(Pop(s)) = Pieces(s)
  BY <1>0 DEF Pieces
<1>3. Len(s) \in Pieces(s) =>
        Cardinality(Pieces(s) \ {Len(s)}) = Cardinality(Pieces(s)) - 1
  BY PiecesFinite, FS_RemoveElement
<1>4. Cardinality(Pieces(s)) \in Nat
  BY PiecesFinite
<1>5. CASE s[Len(s)] \in Slc
  BY <1>1, <1>3, <1>5
<1>6. CASE s[Len(s)] \notin Slc
  BY <1>2, <1>4, <1>6
<1> QED BY <1>5, <1>6

(* A stack with a piece on it is not empty. *)
LEMMA PiecesOnTop ==
  ASSUME NEW s \in Seq(Int), s # <<>>, s[Len(s)] \in Slc
  PROVE  Cardinality(Pieces(s)) > 0
<1>1. Len(s) \in Pieces(s)
  BY EmptySeq DEF Pieces
<1>2. Cardinality(Pieces(s)) # 0
  BY <1>1, PiecesFinite, FS_EmptySet
<1> QED BY <1>2, PiecesFinite

(* What a push does to the control stacks of the team, element by element. *)
LEMMA PushStep ==
  ASSUME TypeOK, NEW t \in Thread, NEW e \in Int, PushC(t, e)
  PROVE  /\ STACKc' \in [Thread -> Seq(Int)]
         /\ \A u \in Thread : u # t => STACKc'[u] = STACKc[u]
         /\ Len(STACKc'[t]) = Len(STACKc[t]) + 1
         /\ \A i \in 1..Len(STACKc[t]) : STACKc'[t][i] = STACKc[t][i]
         /\ STACKc'[t][Len(STACKc[t]) + 1] = e
<1>1. STACKc[t] \in Seq(Int)
  BY DEF TypeOK
<1>2. /\ Push(STACKc[t], e) \in Seq(Int)
      /\ Len(Push(STACKc[t], e)) = Len(STACKc[t]) + 1
      /\ \A i \in 1..Len(STACKc[t]) : Push(STACKc[t], e)[i] = STACKc[t][i]
      /\ Push(STACKc[t], e)[Len(STACKc[t]) + 1] = e
  BY <1>1 DEF Push
<1>3. STACKc' = [STACKc EXCEPT ![t] = Push(STACKc[t], e)]
  BY DEF PushC
<1>4. STACKc'[t] = Push(STACKc[t], e) /\ \A u \in Thread : u # t => STACKc'[u] = STACKc[u]
  BY <1>3 DEF TypeOK
<1>5. STACKc' \in [Thread -> Seq(Int)]
  BY <1>2, <1>3 DEF TypeOK
<1> QED BY <1>2, <1>4, <1>5

(* What a pop does to them. *)
LEMMA PopStep ==
  ASSUME TypeOK, NEW t \in Thread, PopC(t), STACKc[t] # <<>>
  PROVE  /\ STACKc' \in [Thread -> Seq(Int)]
         /\ \A u \in Thread : u # t => STACKc'[u] = STACKc[u]
         /\ Len(STACKc[t]) # 0
         /\ Len(STACKc'[t]) = Len(STACKc[t]) - 1
         /\ \A i \in 1..(Len(STACKc[t]) - 1) : STACKc'[t][i] = STACKc[t][i]
<1>1. STACKc[t] \in Seq(Int)
  BY DEF TypeOK
<1>2. /\ Pop(STACKc[t]) \in Seq(Int)
      /\ Len(STACKc[t]) # 0
      /\ Len(Pop(STACKc[t])) = Len(STACKc[t]) - 1
      /\ \A i \in 1..(Len(STACKc[t]) - 1) : Pop(STACKc[t])[i] = STACKc[t][i]
  BY <1>1, PopFacts
<1>3. STACKc' = [STACKc EXCEPT ![t] = Pop(STACKc[t])]
  BY DEF PopC
<1>4. STACKc'[t] = Pop(STACKc[t]) /\ \A u \in Thread : u # t => STACKc'[u] = STACKc[u]
  BY <1>3 DEF TypeOK
<1>5. STACKc' \in [Thread -> Seq(Int)]
  BY <1>2, <1>3 DEF TypeOK
<1> QED BY <1>2, <1>4, <1>5

(* A push keeps the blocks of a stack when it is a label of a construct    *)
(* exactly where a block begins or has just got its ticket.                *)
LEMMA ShapePush ==
  ASSUME NEW s \in Seq(Int), NEW r \in Seq(Int), NEW e \in Int,
         Len(r) = Len(s) + 1,
         \A i \in 1..Len(s) : r[i] = s[i],
         r[Len(s) + 1] = e,
         \A i \in 1..Len(s) : BlockAt(s, i),
         e \in Critical <=> (Len(s) = 0 \/ s[Len(s)] \notin Label \/ Closing(s, Len(s)))
  PROVE  \A i \in 1..Len(r) : BlockAt(r, i)
<1>1. ASSUME NEW i \in 1..Len(s), i > 1
      PROVE  i - 1 \in 1..Len(s) /\ r[i - 1] = s[i - 1]
  <2>1. i - 1 \in 1..Len(s)
    BY <1>1
  <2> QED BY <2>1
<1>2. \A i \in 1..Len(s) : Closing(r, i) <=> Closing(s, i)
  BY <1>1 DEF Closing
<1>3. ASSUME NEW i \in 1..Len(s)
      PROVE  BlockAt(r, i)
  <2>1. CASE i = 1
    BY <2>1 DEF BlockAt
  <2>2. CASE i > 1
    BY <1>1, <1>2, <2>2 DEF BlockAt
  <2> QED BY <2>1, <2>2
<1>4. BlockAt(r, Len(s) + 1)
  <2>1. CASE Len(s) = 0
    BY <2>1 DEF BlockAt
  <2>2. CASE Len(s) # 0
    <3>1. Len(s) \in 1..Len(s)
      BY <2>2
    <3>2. r[Len(s)] = s[Len(s)] /\ (Closing(r, Len(s)) <=> Closing(s, Len(s)))
      BY <1>2, <3>1
    <3>3. Len(s) + 1 # 1 /\ Len(s) + 1 - 1 = Len(s)
      BY <2>2
    <3> QED BY <2>2, <3>2, <3>3 DEF BlockAt
  <2> QED BY <2>1, <2>2
<1>5. \A i \in 1..(Len(s) + 1) : i \in 1..Len(s) \/ i = Len(s) + 1
  <2>1. PICK n \in Nat : n = Len(s)
    OBVIOUS
  <2>2. \A i \in 1..(n + 1) : i \in 1..n \/ i = n + 1
    OBVIOUS
  <2> QED BY <2>1, <2>2
<1> QED BY <1>3, <1>4, <1>5

(* A pop always keeps them. *)
LEMMA ShapePop ==
  ASSUME NEW s \in Seq(Int), NEW r \in Seq(Int), Len(s) # 0,
         Len(r) = Len(s) - 1,
         \A i \in 1..(Len(s) - 1) : r[i] = s[i],
         \A i \in 1..Len(s) : BlockAt(s, i)
  PROVE  \A i \in 1..Len(r) : BlockAt(r, i)
<1>0. ASSUME NEW i \in 1..Len(r)
      PROVE  i \in 1..Len(s) /\ r[i] = s[i]
  <2>1. i \in 1..(Len(s) - 1)
    OBVIOUS
  <2>2. i \in 1..Len(s)
    BY <2>1
  <2> QED BY <2>1, <2>2
<1>1. ASSUME NEW i \in 1..Len(r), i > 1
      PROVE  i - 1 \in 1..Len(r) /\ r[i - 1] = s[i - 1]
  <2>1. i - 1 \in 1..Len(r)
    BY <1>1
  <2> QED BY <1>0, <2>1
<1>2. \A i \in 1..Len(r) : Closing(r, i) <=> Closing(s, i)
  BY <1>1 DEF Closing
<1>3. ASSUME NEW i \in 1..Len(r)
      PROVE  BlockAt(r, i)
  <2>1. CASE i = 1
    BY <2>1 DEF BlockAt
  <2>2. CASE i > 1
    <3>1. /\ i - 1 \in 1..Len(r) /\ r[i - 1] = s[i - 1]
          /\ Closing(r, i - 1) <=> Closing(s, i - 1)
      BY <1>1, <1>2, <2>2
    <3>2. i \in 1..Len(s) /\ r[i] = s[i]
      BY <1>0
    <3> QED BY <2>2, <3>1, <3>2 DEF BlockAt
  <2> QED BY <2>1, <2>2
<1> QED BY <1>3

(* What lies on top after a push and after a pop. *)
LEMMA TopAfterPush ==
  ASSUME NEW s \in Seq(Int), NEW r \in Seq(Int), NEW e \in Int,
         Len(r) = Len(s) + 1,
         \A i \in 1..Len(s) : r[i] = s[i],
         r[Len(s) + 1] = e
  PROVE  /\ Len(r) > 0
         /\ r[Len(r)] = e
         /\ Closing(r, Len(r)) <=> Len(s) > 0 /\ s[Len(s)] \notin Label
<1>1. Len(r) > 0 /\ r[Len(r)] = e
  OBVIOUS
<1>2. CASE Len(s) = 0
  BY <1>2 DEF Closing
<1>3. CASE Len(s) # 0
  <2>1. Len(s) \in 1..Len(s)
    BY <1>3
  <2>2. r[Len(s)] = s[Len(s)]
    BY <2>1
  <2>3. Len(r) > 1 /\ Len(r) - 1 = Len(s)
    BY <1>3
  <2> QED BY <1>1, <1>3, <2>2, <2>3 DEF Closing
<1> QED BY <1>1, <1>2, <1>3

(* What lies on top of the pushing thread's stack after the push. *)
LEMMA PushTop ==
  ASSUME TypeOK, NEW t \in Thread, NEW e \in Int, PushC(t, e)
  PROVE  /\ Len(STACKc'[t]) > 0
         /\ STACKc'[t][Len(STACKc'[t])] = e
         /\ Closing(STACKc'[t], Len(STACKc'[t])) <=>
              Len(STACKc[t]) > 0 /\ STACKc[t][Len(STACKc[t])] \notin Label
<1>1. /\ STACKc[t] \in Seq(Int)
      /\ STACKc'[t] \in Seq(Int)
  BY PushStep DEF TypeOK
<1>2. /\ Len(STACKc'[t]) = Len(STACKc[t]) + 1
      /\ \A i \in 1..Len(STACKc[t]) : STACKc'[t][i] = STACKc[t][i]
      /\ STACKc'[t][Len(STACKc[t]) + 1] = e
  BY PushStep
<1> DEFINE a == STACKc[t]
           b == STACKc'[t]
<1>3. /\ a \in Seq(Int) /\ b \in Seq(Int)
      /\ Len(b) = Len(a) + 1
      /\ \A i \in 1..Len(a) : b[i] = a[i]
      /\ b[Len(a) + 1] = e
  BY <1>1, <1>2
<1> HIDE DEF a, b
<1>4. /\ Len(b) > 0
      /\ b[Len(b)] = e
      /\ Closing(b, Len(b)) <=> Len(a) > 0 /\ a[Len(a)] \notin Label
  BY <1>3, TopAfterPush
<1> QED BY <1>4 DEF a, b

(* Below a ticket or a piece lies a label of the same block; below an       *)
(* opening label nothing or a closed block; below a closing label a ticket. *)
LEMMA TopAfterPop ==
  ASSUME NEW s \in Seq(Int), NEW r \in Seq(Int), Len(s) # 0,
         Len(r) = Len(s) - 1,
         \A i \in 1..(Len(s) - 1) : r[i] = s[i],
         \A i \in 1..Len(s) : BlockAt(s, i)
  PROVE  LET top == s[Len(s)] IN
         /\ top \notin Critical =>
              Len(r) > 0 /\ r[Len(r)] \in Label /\ ~Closing(r, Len(r))
         /\ top \in Critical /\ ~Closing(s, Len(s)) => Len(r) = 0 \/ Closing(r, Len(r))
         /\ Closing(s, Len(s)) => Len(r) > 0 /\ r[Len(r)] \notin Label
<1>1. BlockAt(s, Len(s))
  <2>1. Len(s) \in 1..Len(s)
    OBVIOUS
  <2> QED BY <2>1
<1>2. CASE Len(s) = 1
  BY <1>1, <1>2 DEF BlockAt, Closing
<1>3. CASE Len(s) # 1
  <2>1. Len(r) > 0 /\ Len(s) > 1
    BY <1>3
  <2>2. r[Len(r)] = s[Len(s) - 1]
    BY <2>1
  <2>3. Closing(r, Len(r)) <=> Closing(s, Len(s) - 1)
    <3>1. CASE Len(s) = 2
      <4>1. ~(Len(r) > 1) /\ ~(Len(s) - 1 > 1)
        BY <3>1
      <4> QED BY <4>1 DEF Closing
    <3>2. CASE Len(s) # 2
      <4>1. Len(r) - 1 \in 1..(Len(s) - 1) /\ Len(r) - 1 = Len(s) - 1 - 1
        BY <2>1, <3>2
      <4>2. r[Len(r) - 1] = s[Len(s) - 1 - 1]
        BY <4>1
      <4>3. Len(r) > 1 <=> Len(s) - 1 > 1
        OBVIOUS
      <4> QED BY <4>2, <4>3 DEF Closing
    <3> QED BY <3>1, <3>2
  <2> QED BY <1>1, <1>3, <2>1, <2>2, <2>3 DEF BlockAt, Closing
<1> QED BY <1>2, <1>3

(* The element each pushing action pushes is an integer. *)
LEMMA PushedInt ==
  ASSUME CriticalInv, NEW t \in Thread
  PROVE  /\ \A l \in Critical : l \in Int
         /\ \A s \in Slc : s \in Int
         /\ pc[t] \in {"body", "count", "leave", "close", "turn", "spin", "replay"} =>
              cur[t] \in Critical /\ cur[t] \in Int /\ a_l[cur[t]] \in Int
<1>1. \A l \in Critical : l \in Int
  BY LabelFacts
<1>2. \A l \in Critical : a_l[l] \in Int
  BY DEF CriticalInv, TypeOK
<1>3. pc[t] \in {"body", "count", "leave", "close", "turn", "spin", "replay"} => cur[t] \in Critical
  BY DEF CriticalInv, InSection
<1>4. \A s \in Slc : s \in Int
  BY LabelFacts
<1> QED BY <1>1, <1>2, <1>3, <1>4

(* No action pops an empty control stack. *)
LEMMA PoppedNonEmpty ==
  ASSUME CriticalInv, NEW t \in Thread,
         OpenReverse(t) \/ TakeTurn(t) \/ ReverseSlc(t) \/ CloseReverse(t)
  PROVE  STACKc[t] # <<>>
<1>1. NoLabel \notin Critical /\ NoLabel \notin Slc
  BY LabelFacts DEF Label
<1>2. CASE OpenReverse(t)
  BY <1>1, <1>2 DEF OpenReverse, TopC
<1>3. CASE TakeTurn(t)
  BY <1>3 DEF TakeTurn, CriticalInv, TopShape, TopShapeOf
<1>4. CASE ReverseSlc(t)
  BY <1>1, <1>4 DEF ReverseSlc, TopC
<1>5. CASE CloseReverse(t)
  BY <1>5 DEF CloseReverse, CriticalInv, TopShape, TopShapeOf
<1> QED BY <1>2, <1>3, <1>4, <1>5

(* No action reads below the float stack: a piece on top of the control    *)
(* stack has its saved value on the float stack.                           *)
LEMMA SavedValueThere ==
  ASSUME CriticalInv, NEW t \in Thread, ReverseSlc(t)
  PROVE  STACKf[t] # <<>> /\ STACKf[t][Len(STACKf[t])] \in Value
<1>1. STACKc[t] \in Seq(Int) /\ STACKf[t] \in Seq(Value)
  BY DEF CriticalInv, TypeOK
<1>2. STACKc[t] # <<>>
  BY PoppedNonEmpty
<1>3. STACKc[t][Len(STACKc[t])] \in Slc
  BY <1>2 DEF ReverseSlc, TopC
<1>4. Len(STACKf[t]) > 0
  BY <1>1, <1>2, <1>3, PiecesOnTop DEF CriticalInv, StacksAligned
<1> QED BY <1>1, <1>4

(* The lock, the construct and the phase of each thread. *)
LEMMA LockStep ==
  ASSUME CriticalInv, [Next]_vars
  PROVE  LockHeld'
<1>1. ASSUME NEW t \in Thread, NEW l \in Critical, OpenSection(t, l)
      PROVE  LockHeld'
  BY <1>1, ConstantsAssumption DEF OpenSection, Goto, PushC, PopC, CriticalInv, TypeOK, LockHeld, Holding, ForwardAt, ReverseAt
<1>2. ASSUME NEW t \in Thread, EnterSection(t)
      PROVE  LockHeld'
  BY <1>2, ConstantsAssumption DEF EnterSection, Goto, PushC, PopC, CriticalInv, TypeOK, LockHeld, Holding, ForwardAt, ReverseAt
<1>3. ASSUME NEW t \in Thread, NEW s \in Slc, NEW v \in Value, ForwardSlc(t, s, v)
      PROVE  LockHeld'
  BY <1>3, ConstantsAssumption DEF ForwardSlc, Goto, PushC, PopC, CriticalInv, TypeOK, LockHeld, Holding, ForwardAt, ReverseAt
<1>4. ASSUME NEW t \in Thread, IssueTicket(t)
      PROVE  LockHeld'
  BY <1>4, ConstantsAssumption DEF IssueTicket, Goto, PushC, PopC, CriticalInv, TypeOK, LockHeld, Holding, ForwardAt, ReverseAt
<1>5. ASSUME NEW t \in Thread, CountTicket(t)
      PROVE  LockHeld'
  BY <1>5, ConstantsAssumption DEF CountTicket, Goto, PushC, PopC, CriticalInv, TypeOK, LockHeld, Holding, ForwardAt, ReverseAt
<1>6. ASSUME NEW t \in Thread, LeaveSection(t)
      PROVE  LockHeld'
  BY <1>6, ConstantsAssumption DEF LeaveSection, Goto, PushC, PopC, CriticalInv, TypeOK, LockHeld, Holding, ForwardAt, ReverseAt
<1>7. ASSUME NEW t \in Thread, CloseSection(t)
      PROVE  LockHeld'
  BY <1>7, ConstantsAssumption DEF CloseSection, Goto, PushC, PopC, CriticalInv, TypeOK, LockHeld, Holding, ForwardAt, ReverseAt
<1>8. ASSUME NEW t \in Thread, EndForward(t)
      PROVE  LockHeld'
  BY <1>8, ConstantsAssumption DEF EndForward, Goto, PushC, PopC, CriticalInv, TypeOK, LockHeld, Holding, ForwardAt, ReverseAt
<1>9. ASSUME NEW t \in Thread, OpenReverse(t)
      PROVE  LockHeld'
  BY <1>9, ConstantsAssumption DEF OpenReverse, Goto, PushC, PopC, CriticalInv, TypeOK, LockHeld, Holding, ForwardAt, ReverseAt
<1>10. ASSUME NEW t \in Thread, AskForTurn(t)
      PROVE  LockHeld'
  BY <1>10, ConstantsAssumption DEF AskForTurn, Goto, PushC, PopC, CriticalInv, TypeOK, LockHeld, Holding, ForwardAt, ReverseAt
<1>11. ASSUME NEW t \in Thread, NotMyTurn(t)
      PROVE  LockHeld'
  BY <1>11, ConstantsAssumption DEF NotMyTurn, Goto, PushC, PopC, CriticalInv, TypeOK, LockHeld, Holding, ForwardAt, ReverseAt
<1>12. ASSUME NEW t \in Thread, TakeTurn(t)
      PROVE  LockHeld'
  BY <1>12, ConstantsAssumption DEF TakeTurn, Goto, PushC, PopC, CriticalInv, TypeOK, LockHeld, Holding, ForwardAt, ReverseAt
<1>13. ASSUME NEW t \in Thread, ReverseSlc(t)
      PROVE  LockHeld'
  BY <1>13, ConstantsAssumption DEF ReverseSlc, Goto, PushC, PopC, CriticalInv, TypeOK, LockHeld, Holding, ForwardAt, ReverseAt
<1>14. ASSUME NEW t \in Thread, LeaveReverse(t)
      PROVE  LockHeld'
  BY <1>14, ConstantsAssumption DEF LeaveReverse, Goto, PushC, PopC, CriticalInv, TypeOK, LockHeld, Holding, ForwardAt, ReverseAt
<1>15. ASSUME NEW t \in Thread, CloseReverse(t)
      PROVE  LockHeld'
  BY <1>15, ConstantsAssumption DEF CloseReverse, Goto, PushC, PopC, CriticalInv, TypeOK, LockHeld, Holding, ForwardAt, ReverseAt
<1>16. ASSUME NEW t \in Thread, EndReverse(t)
      PROVE  LockHeld'
  BY <1>16, ConstantsAssumption DEF EndReverse, Goto, PushC, PopC, CriticalInv, TypeOK, LockHeld, Holding, ForwardAt, ReverseAt
<1>17. ASSUME CrossBarrier
      PROVE  LockHeld'
  BY <1>17, ConstantsAssumption DEF CrossBarrier, Goto, PushC, PopC, CriticalInv, TypeOK, LockHeld, Holding, ForwardAt, ReverseAt
<1>18. CASE UNCHANGED vars
  BY <1>18, ConstantsAssumption DEF vars, Goto, PushC, PopC, CriticalInv, TypeOK, LockHeld, Holding, ForwardAt, ReverseAt
<1> QED
  BY <1>1, <1>2, <1>3, <1>4, <1>5, <1>6, <1>7, <1>8, <1>9, <1>10, <1>11, <1>12, <1>13, <1>14, <1>15, <1>16, <1>17, <1>18
  DEF Next, Forward, Backward, Terminated

(* cur names a construct from its opening label to its closing one, in both *)
(* sections.                                                                *)
LEMMA InSectionStep ==
  ASSUME CriticalInv, [Next]_vars
  PROVE  InSection'
<1>1. ASSUME NEW t \in Thread, NEW l \in Critical, OpenSection(t, l)
      PROVE  InSection'
  BY <1>1, TopFacts DEF OpenSection, Goto, CriticalInv, TypeOK, InSection, ForwardAt, ReverseAt
<1>2. ASSUME NEW t \in Thread, EnterSection(t)
      PROVE  InSection'
  BY <1>2, TopFacts DEF EnterSection, Goto, CriticalInv, TypeOK, InSection, ForwardAt, ReverseAt
<1>3. ASSUME NEW t \in Thread, NEW s \in Slc, NEW v \in Value, ForwardSlc(t, s, v)
      PROVE  InSection'
  BY <1>3, TopFacts DEF ForwardSlc, Goto, CriticalInv, TypeOK, InSection, ForwardAt, ReverseAt
<1>4. ASSUME NEW t \in Thread, IssueTicket(t)
      PROVE  InSection'
  BY <1>4, TopFacts DEF IssueTicket, Goto, CriticalInv, TypeOK, InSection, ForwardAt, ReverseAt
<1>5. ASSUME NEW t \in Thread, CountTicket(t)
      PROVE  InSection'
  BY <1>5, TopFacts DEF CountTicket, Goto, CriticalInv, TypeOK, InSection, ForwardAt, ReverseAt
<1>6. ASSUME NEW t \in Thread, LeaveSection(t)
      PROVE  InSection'
  BY <1>6, TopFacts DEF LeaveSection, Goto, CriticalInv, TypeOK, InSection, ForwardAt, ReverseAt
<1>7. ASSUME NEW t \in Thread, CloseSection(t)
      PROVE  InSection'
  BY <1>7, TopFacts DEF CloseSection, Goto, CriticalInv, TypeOK, InSection, ForwardAt, ReverseAt
<1>8. ASSUME NEW t \in Thread, EndForward(t)
      PROVE  InSection'
  BY <1>8, TopFacts DEF EndForward, Goto, CriticalInv, TypeOK, InSection, ForwardAt, ReverseAt
<1>9. ASSUME NEW t \in Thread, OpenReverse(t)
      PROVE  InSection'
  BY <1>9, TopFacts DEF OpenReverse, Goto, CriticalInv, TypeOK, InSection, ForwardAt, ReverseAt
<1>10. ASSUME NEW t \in Thread, AskForTurn(t)
      PROVE  InSection'
  BY <1>10, TopFacts DEF AskForTurn, Goto, CriticalInv, TypeOK, InSection, ForwardAt, ReverseAt
<1>11. ASSUME NEW t \in Thread, NotMyTurn(t)
      PROVE  InSection'
  BY <1>11, TopFacts DEF NotMyTurn, Goto, CriticalInv, TypeOK, InSection, ForwardAt, ReverseAt
<1>12. ASSUME NEW t \in Thread, TakeTurn(t)
      PROVE  InSection'
  BY <1>12, TopFacts DEF TakeTurn, Goto, CriticalInv, TypeOK, InSection, ForwardAt, ReverseAt
<1>13. ASSUME NEW t \in Thread, ReverseSlc(t)
      PROVE  InSection'
  BY <1>13, TopFacts DEF ReverseSlc, Goto, CriticalInv, TypeOK, InSection, ForwardAt, ReverseAt
<1>14. ASSUME NEW t \in Thread, LeaveReverse(t)
      PROVE  InSection'
  BY <1>14, TopFacts DEF LeaveReverse, Goto, CriticalInv, TypeOK, InSection, ForwardAt, ReverseAt
<1>15. ASSUME NEW t \in Thread, CloseReverse(t)
      PROVE  InSection'
  BY <1>15, TopFacts DEF CloseReverse, Goto, CriticalInv, TypeOK, InSection, ForwardAt, ReverseAt
<1>16. ASSUME NEW t \in Thread, EndReverse(t)
      PROVE  InSection'
  BY <1>16, TopFacts DEF EndReverse, Goto, CriticalInv, TypeOK, InSection, ForwardAt, ReverseAt
<1>17. ASSUME CrossBarrier
      PROVE  InSection'
  BY <1>17, TopFacts DEF CrossBarrier, Goto, CriticalInv, TypeOK, InSection, ForwardAt, ReverseAt
<1>18. CASE UNCHANGED vars
  BY <1>18, TopFacts DEF vars, Goto, CriticalInv, TypeOK, InSection, ForwardAt, ReverseAt
<1> QED
  BY <1>1, <1>2, <1>3, <1>4, <1>5, <1>6, <1>7, <1>8, <1>9, <1>10, <1>11, <1>12, <1>13, <1>14, <1>15, <1>16, <1>17, <1>18
  DEF Next, Forward, Backward, Terminated

(* No thread is in the reverse section before the barrier is crossed, and   *)
(* none is in the forward section after it.                                 *)
LEMMA PhaseStep ==
  ASSUME CriticalInv, [Next]_vars
  PROVE  PhaseShared'
<1>1. ASSUME NEW t \in Thread, NEW l \in Critical, OpenSection(t, l)
      PROVE  PhaseShared'
  BY <1>1 DEF OpenSection, Goto, CriticalInv, TypeOK, PhaseShared, reversing, ForwardAt, ReverseAt
<1>2. ASSUME NEW t \in Thread, EnterSection(t)
      PROVE  PhaseShared'
  BY <1>2 DEF EnterSection, Goto, CriticalInv, TypeOK, PhaseShared, reversing, ForwardAt, ReverseAt
<1>3. ASSUME NEW t \in Thread, NEW s \in Slc, NEW v \in Value, ForwardSlc(t, s, v)
      PROVE  PhaseShared'
  BY <1>3 DEF ForwardSlc, Goto, CriticalInv, TypeOK, PhaseShared, reversing, ForwardAt, ReverseAt
<1>4. ASSUME NEW t \in Thread, IssueTicket(t)
      PROVE  PhaseShared'
  BY <1>4 DEF IssueTicket, Goto, CriticalInv, TypeOK, PhaseShared, reversing, ForwardAt, ReverseAt
<1>5. ASSUME NEW t \in Thread, CountTicket(t)
      PROVE  PhaseShared'
  BY <1>5 DEF CountTicket, Goto, CriticalInv, TypeOK, PhaseShared, reversing, ForwardAt, ReverseAt
<1>6. ASSUME NEW t \in Thread, LeaveSection(t)
      PROVE  PhaseShared'
  BY <1>6 DEF LeaveSection, Goto, CriticalInv, TypeOK, PhaseShared, reversing, ForwardAt, ReverseAt
<1>7. ASSUME NEW t \in Thread, CloseSection(t)
      PROVE  PhaseShared'
  BY <1>7 DEF CloseSection, Goto, CriticalInv, TypeOK, PhaseShared, reversing, ForwardAt, ReverseAt
<1>8. ASSUME NEW t \in Thread, EndForward(t)
      PROVE  PhaseShared'
  BY <1>8 DEF EndForward, Goto, CriticalInv, TypeOK, PhaseShared, reversing, ForwardAt, ReverseAt
<1>9. ASSUME NEW t \in Thread, OpenReverse(t)
      PROVE  PhaseShared'
  BY <1>9 DEF OpenReverse, Goto, CriticalInv, TypeOK, PhaseShared, reversing, ForwardAt, ReverseAt
<1>10. ASSUME NEW t \in Thread, AskForTurn(t)
      PROVE  PhaseShared'
  BY <1>10 DEF AskForTurn, Goto, CriticalInv, TypeOK, PhaseShared, reversing, ForwardAt, ReverseAt
<1>11. ASSUME NEW t \in Thread, NotMyTurn(t)
      PROVE  PhaseShared'
  BY <1>11 DEF NotMyTurn, Goto, CriticalInv, TypeOK, PhaseShared, reversing, ForwardAt, ReverseAt
<1>12. ASSUME NEW t \in Thread, TakeTurn(t)
      PROVE  PhaseShared'
  BY <1>12 DEF TakeTurn, Goto, CriticalInv, TypeOK, PhaseShared, reversing, ForwardAt, ReverseAt
<1>13. ASSUME NEW t \in Thread, ReverseSlc(t)
      PROVE  PhaseShared'
  BY <1>13 DEF ReverseSlc, Goto, CriticalInv, TypeOK, PhaseShared, reversing, ForwardAt, ReverseAt
<1>14. ASSUME NEW t \in Thread, LeaveReverse(t)
      PROVE  PhaseShared'
  BY <1>14 DEF LeaveReverse, Goto, CriticalInv, TypeOK, PhaseShared, reversing, ForwardAt, ReverseAt
<1>15. ASSUME NEW t \in Thread, CloseReverse(t)
      PROVE  PhaseShared'
  BY <1>15 DEF CloseReverse, Goto, CriticalInv, TypeOK, PhaseShared, reversing, ForwardAt, ReverseAt
<1>16. ASSUME NEW t \in Thread, EndReverse(t)
      PROVE  PhaseShared'
  BY <1>16 DEF EndReverse, Goto, CriticalInv, TypeOK, PhaseShared, reversing, ForwardAt, ReverseAt
<1>17. ASSUME CrossBarrier
      PROVE  PhaseShared'
  BY <1>17 DEF CrossBarrier, Goto, CriticalInv, TypeOK, PhaseShared, reversing, ForwardAt, ReverseAt
<1>18. CASE UNCHANGED vars
  BY <1>18 DEF vars, Goto, CriticalInv, TypeOK, PhaseShared, reversing, ForwardAt, ReverseAt
<1> QED
  BY <1>1, <1>2, <1>3, <1>4, <1>5, <1>6, <1>7, <1>8, <1>9, <1>10, <1>11, <1>12, <1>13, <1>14, <1>15, <1>16, <1>17, <1>18
  DEF Next, Forward, Backward, Terminated

(* Each step keeps the types: what is pushed is an integer or a value, and   *)
(* nothing is popped off an empty stack.                                    *)
LEMMA TypeStep ==
  ASSUME CriticalInv, [Next]_vars
  PROVE  TypeOK'
<1>1. ASSUME NEW t \in Thread, NEW l \in Critical, OpenSection(t, l)
      PROVE  TypeOK'
  <2>1. PushC(t, l) /\ l \in Int
    BY <1>1, PushedInt DEF OpenSection
  <2>2. /\ STACKc' \in [Thread -> Seq(Int)]
        /\ \A u \in Thread : u # t => STACKc'[u] = STACKc[u]
        /\ Len(STACKc'[t]) = Len(STACKc[t]) + 1
        /\ \A i \in 1..Len(STACKc[t]) : STACKc'[t][i] = STACKc[t][i]
        /\ STACKc'[t][Len(STACKc[t]) + 1] = l
    BY <2>1, PushStep DEF CriticalInv
  <2> QED BY <1>1, <2>2 DEF OpenSection, Goto, CriticalInv, TypeOK, InSection, ForwardAt, ReverseAt, NoLabel
<1>2. ASSUME NEW t \in Thread, EnterSection(t)
      PROVE  TypeOK'
  BY <1>2, ConstantsAssumption, PushedInt, TopFacts DEF EnterSection, Goto, CriticalInv, TypeOK, InSection, ForwardAt, ReverseAt, NoLabel
<1>3. ASSUME NEW t \in Thread, NEW s \in Slc, NEW v \in Value, ForwardSlc(t, s, v)
      PROVE  TypeOK'
  <2>1. PushC(t, s) /\ s \in Int
    BY <1>3, PushedInt DEF ForwardSlc
  <2>2. /\ STACKc' \in [Thread -> Seq(Int)]
        /\ \A u \in Thread : u # t => STACKc'[u] = STACKc[u]
        /\ Len(STACKc'[t]) = Len(STACKc[t]) + 1
        /\ \A i \in 1..Len(STACKc[t]) : STACKc'[t][i] = STACKc[t][i]
        /\ STACKc'[t][Len(STACKc[t]) + 1] = s
    BY <2>1, PushStep DEF CriticalInv
  <2>3. cur[t] \in Critical /\ Touches[cur[t]] \in Var
    BY <1>3, ConstantsAssumption DEF ForwardSlc, CriticalInv, InSection
  <2>4. STACKf' \in [Thread -> Seq(Value)]
    <3>1. STACKf[t] \in Seq(Value) /\ mem[Touches[cur[t]]] \in Value
      BY <2>3 DEF CriticalInv, TypeOK
    <3>2. Push(STACKf[t], mem[Touches[cur[t]]]) \in Seq(Value)
      BY <3>1, PushFacts
    <3> QED BY <1>3, <3>2 DEF ForwardSlc, CriticalInv, TypeOK
  <2> QED BY <1>3, <2>2, <2>4 DEF ForwardSlc, CriticalInv, TypeOK
<1>4. ASSUME NEW t \in Thread, IssueTicket(t)
      PROVE  TypeOK'
  <2>1. PushC(t, a_l[cur[t]]) /\ a_l[cur[t]] \in Int
    BY <1>4, PushedInt DEF IssueTicket
  <2>2. /\ STACKc' \in [Thread -> Seq(Int)]
        /\ \A u \in Thread : u # t => STACKc'[u] = STACKc[u]
        /\ Len(STACKc'[t]) = Len(STACKc[t]) + 1
        /\ \A i \in 1..Len(STACKc[t]) : STACKc'[t][i] = STACKc[t][i]
        /\ STACKc'[t][Len(STACKc[t]) + 1] = a_l[cur[t]]
    BY <2>1, PushStep DEF CriticalInv
  <2> QED BY <1>4, <2>2 DEF IssueTicket, Goto, CriticalInv, TypeOK, InSection, ForwardAt, ReverseAt, NoLabel
<1>5. ASSUME NEW t \in Thread, CountTicket(t)
      PROVE  TypeOK'
  BY <1>5, ConstantsAssumption, PushedInt, TopFacts DEF CountTicket, Goto, CriticalInv, TypeOK, InSection, ForwardAt, ReverseAt, NoLabel
<1>6. ASSUME NEW t \in Thread, LeaveSection(t)
      PROVE  TypeOK'
  BY <1>6, ConstantsAssumption, PushedInt, TopFacts DEF LeaveSection, Goto, CriticalInv, TypeOK, InSection, ForwardAt, ReverseAt, NoLabel
<1>7. ASSUME NEW t \in Thread, CloseSection(t)
      PROVE  TypeOK'
  <2>1. PushC(t, cur[t]) /\ cur[t] \in Int
    BY <1>7, PushedInt DEF CloseSection
  <2>2. /\ STACKc' \in [Thread -> Seq(Int)]
        /\ \A u \in Thread : u # t => STACKc'[u] = STACKc[u]
        /\ Len(STACKc'[t]) = Len(STACKc[t]) + 1
        /\ \A i \in 1..Len(STACKc[t]) : STACKc'[t][i] = STACKc[t][i]
        /\ STACKc'[t][Len(STACKc[t]) + 1] = cur[t]
    BY <2>1, PushStep DEF CriticalInv
  <2> QED BY <1>7, <2>2 DEF CloseSection, Goto, CriticalInv, TypeOK, InSection, ForwardAt, ReverseAt, NoLabel
<1>8. ASSUME NEW t \in Thread, EndForward(t)
      PROVE  TypeOK'
  BY <1>8, ConstantsAssumption, PushedInt, TopFacts DEF EndForward, Goto, CriticalInv, TypeOK, InSection, ForwardAt, ReverseAt, NoLabel
<1>9. ASSUME NEW t \in Thread, OpenReverse(t)
      PROVE  TypeOK'
  <2>1. PopC(t) /\ STACKc[t] # <<>>
    BY <1>9, PoppedNonEmpty DEF OpenReverse
  <2>2. /\ STACKc' \in [Thread -> Seq(Int)]
        /\ \A u \in Thread : u # t => STACKc'[u] = STACKc[u]
        /\ Len(STACKc[t]) # 0
        /\ Len(STACKc'[t]) = Len(STACKc[t]) - 1
        /\ \A i \in 1..(Len(STACKc[t]) - 1) : STACKc'[t][i] = STACKc[t][i]
    BY <2>1, PopStep DEF CriticalInv
  <2> QED BY <1>9, <2>2 DEF OpenReverse, Goto, CriticalInv, TypeOK, InSection, ForwardAt, ReverseAt, NoLabel
<1>10. ASSUME NEW t \in Thread, AskForTurn(t)
      PROVE  TypeOK'
  BY <1>10, ConstantsAssumption, PushedInt, TopFacts DEF AskForTurn, Goto, CriticalInv, TypeOK, InSection, ForwardAt, ReverseAt, NoLabel
<1>11. ASSUME NEW t \in Thread, NotMyTurn(t)
      PROVE  TypeOK'
  BY <1>11, ConstantsAssumption, PushedInt, TopFacts DEF NotMyTurn, Goto, CriticalInv, TypeOK, InSection, ForwardAt, ReverseAt, NoLabel
<1>12. ASSUME NEW t \in Thread, TakeTurn(t)
      PROVE  TypeOK'
  <2>1. PopC(t) /\ STACKc[t] # <<>>
    BY <1>12, PoppedNonEmpty DEF TakeTurn
  <2>2. /\ STACKc' \in [Thread -> Seq(Int)]
        /\ \A u \in Thread : u # t => STACKc'[u] = STACKc[u]
        /\ Len(STACKc[t]) # 0
        /\ Len(STACKc'[t]) = Len(STACKc[t]) - 1
        /\ \A i \in 1..(Len(STACKc[t]) - 1) : STACKc'[t][i] = STACKc[t][i]
    BY <2>1, PopStep DEF CriticalInv
  <2>3. a_l[cur[t]] \in Int
    BY <1>12, PushedInt DEF TakeTurn
  <2>4. a_l' \in [Critical -> Int]
    <3>1. a_l' = [a_l EXCEPT ![cur[t]] = a_l[cur[t]] - 1]
      BY <1>12 DEF TakeTurn
    <3>2. a_l \in [Critical -> Int] /\ a_l[cur[t]] - 1 \in Int
      BY <2>3 DEF CriticalInv, TypeOK
    <3> QED BY <3>1, <3>2
  <2>5. pc' \in [Thread -> ForwardAt \cup ReverseAt]
    BY <1>12 DEF TakeTurn, Goto, CriticalInv, TypeOK, ReverseAt
  <2> QED BY <1>12, <2>2, <2>4, <2>5 DEF TakeTurn, CriticalInv, TypeOK
<1>13. ASSUME NEW t \in Thread, ReverseSlc(t)
      PROVE  TypeOK'
  <2>1. PopC(t) /\ STACKc[t] # <<>>
    BY <1>13, PoppedNonEmpty DEF ReverseSlc
  <2>2. /\ STACKc' \in [Thread -> Seq(Int)]
        /\ \A u \in Thread : u # t => STACKc'[u] = STACKc[u]
        /\ Len(STACKc[t]) # 0
        /\ Len(STACKc'[t]) = Len(STACKc[t]) - 1
        /\ \A i \in 1..(Len(STACKc[t]) - 1) : STACKc'[t][i] = STACKc[t][i]
    BY <2>1, PopStep DEF CriticalInv
  <2>3. STACKf[t] \in Seq(Value) /\ Pop(STACKf[t]) \in Seq(Value)
    BY <1>13, SavedValueThere, PopFacts DEF CriticalInv, TypeOK
  <2>4. STACKf[t][Len(STACKf[t])] \in Value
    BY <1>13, SavedValueThere
  <2> QED BY <1>13, <2>2, <2>3, <2>4 DEF ReverseSlc, CriticalInv, TypeOK
<1>14. ASSUME NEW t \in Thread, LeaveReverse(t)
      PROVE  TypeOK'
  BY <1>14, ConstantsAssumption, PushedInt, TopFacts DEF LeaveReverse, Goto, CriticalInv, TypeOK, InSection, ForwardAt, ReverseAt, NoLabel
<1>15. ASSUME NEW t \in Thread, CloseReverse(t)
      PROVE  TypeOK'
  <2>1. PopC(t) /\ STACKc[t] # <<>>
    BY <1>15, PoppedNonEmpty DEF CloseReverse
  <2>2. /\ STACKc' \in [Thread -> Seq(Int)]
        /\ \A u \in Thread : u # t => STACKc'[u] = STACKc[u]
        /\ Len(STACKc[t]) # 0
        /\ Len(STACKc'[t]) = Len(STACKc[t]) - 1
        /\ \A i \in 1..(Len(STACKc[t]) - 1) : STACKc'[t][i] = STACKc[t][i]
    BY <2>1, PopStep DEF CriticalInv
  <2> QED BY <1>15, <2>2 DEF CloseReverse, Goto, CriticalInv, TypeOK, InSection, ForwardAt, ReverseAt, NoLabel
<1>16. ASSUME NEW t \in Thread, EndReverse(t)
      PROVE  TypeOK'
  BY <1>16, ConstantsAssumption, PushedInt, TopFacts DEF EndReverse, Goto, CriticalInv, TypeOK, InSection, ForwardAt, ReverseAt, NoLabel
<1>17. ASSUME CrossBarrier
      PROVE  TypeOK'
  BY <1>17, ConstantsAssumption, PushedInt, TopFacts DEF CrossBarrier, Goto, CriticalInv, TypeOK, InSection, ForwardAt, ReverseAt, NoLabel
<1>18. CASE UNCHANGED vars
  BY <1>18, ConstantsAssumption, PushedInt, TopFacts DEF vars, Goto, CriticalInv, TypeOK, InSection, ForwardAt, ReverseAt, NoLabel
<1> QED
  BY <1>1, <1>2, <1>3, <1>4, <1>5, <1>6, <1>7, <1>8, <1>9, <1>10, <1>11, <1>12, <1>13, <1>14, <1>15, <1>16, <1>17, <1>18
  DEF Next, Forward, Backward, Terminated

(* No counter falls below its first value: a turn is only taken with a      *)
(* ticket that was counted.                                                 *)
LEMMA CountersStep ==
  ASSUME CriticalInv, [Next]_vars
  PROVE  CountersBounded'
<1>1. ASSUME NEW t \in Thread, NEW l \in Critical, OpenSection(t, l)
      PROVE  CountersBounded'
  BY <1>1, LabelFacts, TopFacts DEF OpenSection, CriticalInv, TypeOK, CountersBounded, InSection
<1>2. ASSUME NEW t \in Thread, EnterSection(t)
      PROVE  CountersBounded'
  BY <1>2, LabelFacts, TopFacts DEF EnterSection, CriticalInv, TypeOK, CountersBounded, InSection
<1>3. ASSUME NEW t \in Thread, NEW s \in Slc, NEW v \in Value, ForwardSlc(t, s, v)
      PROVE  CountersBounded'
  BY <1>3, LabelFacts, TopFacts DEF ForwardSlc, CriticalInv, TypeOK, CountersBounded, InSection
<1>4. ASSUME NEW t \in Thread, IssueTicket(t)
      PROVE  CountersBounded'
  BY <1>4, LabelFacts, TopFacts DEF IssueTicket, CriticalInv, TypeOK, CountersBounded, InSection
<1>5. ASSUME NEW t \in Thread, CountTicket(t)
      PROVE  CountersBounded'
  BY <1>5, LabelFacts, TopFacts DEF CountTicket, CriticalInv, TypeOK, CountersBounded, InSection
<1>6. ASSUME NEW t \in Thread, LeaveSection(t)
      PROVE  CountersBounded'
  BY <1>6, LabelFacts, TopFacts DEF LeaveSection, CriticalInv, TypeOK, CountersBounded, InSection
<1>7. ASSUME NEW t \in Thread, CloseSection(t)
      PROVE  CountersBounded'
  BY <1>7, LabelFacts, TopFacts DEF CloseSection, CriticalInv, TypeOK, CountersBounded, InSection
<1>8. ASSUME NEW t \in Thread, EndForward(t)
      PROVE  CountersBounded'
  BY <1>8, LabelFacts, TopFacts DEF EndForward, CriticalInv, TypeOK, CountersBounded, InSection
<1>9. ASSUME NEW t \in Thread, OpenReverse(t)
      PROVE  CountersBounded'
  BY <1>9, LabelFacts, TopFacts DEF OpenReverse, CriticalInv, TypeOK, CountersBounded, InSection
<1>10. ASSUME NEW t \in Thread, AskForTurn(t)
      PROVE  CountersBounded'
  BY <1>10, LabelFacts, TopFacts DEF AskForTurn, CriticalInv, TypeOK, CountersBounded, InSection
<1>11. ASSUME NEW t \in Thread, NotMyTurn(t)
      PROVE  CountersBounded'
  BY <1>11, LabelFacts, TopFacts DEF NotMyTurn, CriticalInv, TypeOK, CountersBounded, InSection
<1>12. ASSUME NEW t \in Thread, TakeTurn(t)
      PROVE  CountersBounded'
  <2>1. /\ cur[t] \in Critical /\ a_l[cur[t]] \in Int
        /\ a_l' = [a_l EXCEPT ![cur[t]] = @ - 1]
    BY <1>12, PushedInt DEF TakeTurn
  <2>2. STACKc[t] \in Seq(Int) /\ Len(STACKc[t]) > 0 /\ STACKc[t][Len(STACKc[t])] \notin Label
    BY <1>12 DEF TakeTurn, CriticalInv, TypeOK, TopShape, TopShapeOf
  <2>3. STACKc[t][Len(STACKc[t])] = a_l[cur[t]] - 1
    BY <1>12, <2>2 DEF TakeTurn, MyTurn, TopC
  <2>4. Owner(t, Len(STACKc[t])) = cur[t]
    BY <2>2 DEF Owner
  <2>5. CounterInit[cur[t]] <= a_l[cur[t]] - 1
    BY <2>2, <2>3, <2>4 DEF CriticalInv, TicketsBounded, TicketBounded
  <2> QED BY <2>1, <2>5 DEF CriticalInv, TypeOK, CountersBounded
<1>13. ASSUME NEW t \in Thread, ReverseSlc(t)
      PROVE  CountersBounded'
  BY <1>13, LabelFacts, TopFacts DEF ReverseSlc, CriticalInv, TypeOK, CountersBounded, InSection
<1>14. ASSUME NEW t \in Thread, LeaveReverse(t)
      PROVE  CountersBounded'
  BY <1>14, LabelFacts, TopFacts DEF LeaveReverse, CriticalInv, TypeOK, CountersBounded, InSection
<1>15. ASSUME NEW t \in Thread, CloseReverse(t)
      PROVE  CountersBounded'
  BY <1>15, LabelFacts, TopFacts DEF CloseReverse, CriticalInv, TypeOK, CountersBounded, InSection
<1>16. ASSUME NEW t \in Thread, EndReverse(t)
      PROVE  CountersBounded'
  BY <1>16, LabelFacts, TopFacts DEF EndReverse, CriticalInv, TypeOK, CountersBounded, InSection
<1>17. ASSUME CrossBarrier
      PROVE  CountersBounded'
  BY <1>17, LabelFacts, TopFacts DEF CrossBarrier, CriticalInv, TypeOK, CountersBounded, InSection
<1>18. CASE UNCHANGED vars
  BY <1>18, LabelFacts, TopFacts DEF vars, CriticalInv, TypeOK, CountersBounded, InSection
<1> QED
  BY <1>1, <1>2, <1>3, <1>4, <1>5, <1>6, <1>7, <1>8, <1>9, <1>10, <1>11, <1>12, <1>13, <1>14, <1>15, <1>16, <1>17, <1>18
  DEF Next, Forward, Backward, Terminated

(* The float stack and the control stack move together.                     *)
LEMMA AlignedStep ==
  ASSUME CriticalInv, [Next]_vars
  PROVE  StacksAligned'
<1>1. ASSUME NEW t \in Thread, NEW l \in Critical, OpenSection(t, l)
      PROVE  StacksAligned'
  <2>1. PushC(t, l) /\ l \in Int
    BY <1>1, PushedInt DEF OpenSection
  <2>2. /\ STACKc' \in [Thread -> Seq(Int)]
        /\ \A u \in Thread : u # t => STACKc'[u] = STACKc[u]
        /\ Len(STACKc'[t]) = Len(STACKc[t]) + 1
        /\ \A i \in 1..Len(STACKc[t]) : STACKc'[t][i] = STACKc[t][i]
        /\ STACKc'[t][Len(STACKc[t]) + 1] = l
    BY <2>1, PushStep DEF CriticalInv
  <2>3. STACKc[t] \in Seq(Int) /\ STACKf[t] \in Seq(Value)
    BY DEF CriticalInv, TypeOK
  <2>4. Cardinality(Pieces(STACKc'[t])) = Cardinality(Pieces(STACKc[t])) + 0
    <3>1. STACKc'[t] = Push(STACKc[t], l)
      BY <2>1 DEF PushC, CriticalInv, TypeOK
    <3>2. l \notin Slc
      BY <1>1, PushedInt, LabelFacts, ConstantsAssumption DEF OpenSection, Label, CriticalInv, CountersBounded
    <3>3. Cardinality(Pieces(STACKc[t])) \in Nat
      BY <2>3, PiecesFinite
    <3>4. Cardinality(Pieces(Push(STACKc[t], l)))
            = Cardinality(Pieces(STACKc[t])) + (IF l \in Slc THEN 1 ELSE 0)
      BY <2>1, <2>3, PiecesPush
    <3> QED BY <3>1, <3>2, <3>3, <3>4
  <2>5. STACKf' = STACKf
    BY <1>1 DEF OpenSection
  <2>6. Len(STACKf[t]) = Cardinality(Pieces(STACKc[t])) /\ Cardinality(Pieces(STACKc[t])) \in Nat
    BY <2>3, PiecesFinite DEF CriticalInv, StacksAligned
  <2>7. Len(STACKf'[t]) = Cardinality(Pieces(STACKc'[t]))
    BY <2>4, <2>5, <2>6
  <2> QED BY <2>2, <2>5, <2>7 DEF CriticalInv, StacksAligned
<1>2. ASSUME NEW t \in Thread, EnterSection(t)
      PROVE  StacksAligned'
  BY <1>2 DEF EnterSection, CriticalInv, TypeOK, StacksAligned
<1>3. ASSUME NEW t \in Thread, NEW s \in Slc, NEW v \in Value, ForwardSlc(t, s, v)
      PROVE  StacksAligned'
  <2>1. PushC(t, s) /\ s \in Int
    BY <1>3, PushedInt DEF ForwardSlc
  <2>2. /\ STACKc' \in [Thread -> Seq(Int)]
        /\ \A u \in Thread : u # t => STACKc'[u] = STACKc[u]
        /\ Len(STACKc'[t]) = Len(STACKc[t]) + 1
        /\ \A i \in 1..Len(STACKc[t]) : STACKc'[t][i] = STACKc[t][i]
        /\ STACKc'[t][Len(STACKc[t]) + 1] = s
    BY <2>1, PushStep DEF CriticalInv
  <2>3. STACKc[t] \in Seq(Int) /\ STACKf[t] \in Seq(Value)
    BY DEF CriticalInv, TypeOK
  <2>4. Cardinality(Pieces(STACKc'[t])) = Cardinality(Pieces(STACKc[t])) + 1
    <3>1. STACKc'[t] = Push(STACKc[t], s)
      BY <2>1 DEF PushC, CriticalInv, TypeOK
    <3>2. s \in Slc
      BY <1>3, PushedInt, LabelFacts, ConstantsAssumption DEF ForwardSlc, Label, CriticalInv, CountersBounded
    <3>3. Cardinality(Pieces(STACKc[t])) \in Nat
      BY <2>3, PiecesFinite
    <3>4. Cardinality(Pieces(Push(STACKc[t], s)))
            = Cardinality(Pieces(STACKc[t])) + (IF s \in Slc THEN 1 ELSE 0)
      BY <2>1, <2>3, PiecesPush
    <3> QED BY <3>1, <3>2, <3>3, <3>4
  <2>5. Len(STACKf'[t]) = Len(STACKf[t]) + 1 /\ \A u \in Thread : u # t => STACKf'[u] = STACKf[u]
    <3>1. cur[t] \in Critical /\ mem[Touches[cur[t]]] \in Value
      BY <1>3, ConstantsAssumption DEF ForwardSlc, CriticalInv, InSection, TypeOK
    <3>2. Len(Push(STACKf[t], mem[Touches[cur[t]]])) = Len(STACKf[t]) + 1
      BY <2>3, <3>1 DEF Push
    <3> QED BY <1>3, <3>2 DEF ForwardSlc, CriticalInv, TypeOK
  <2>6. Len(STACKf[t]) = Cardinality(Pieces(STACKc[t])) /\ Cardinality(Pieces(STACKc[t])) \in Nat
    BY <2>3, PiecesFinite DEF CriticalInv, StacksAligned
  <2>7. Len(STACKf'[t]) = Cardinality(Pieces(STACKc'[t]))
    BY <2>4, <2>5, <2>6
  <2> QED BY <2>2, <2>5, <2>7 DEF CriticalInv, StacksAligned
<1>4. ASSUME NEW t \in Thread, IssueTicket(t)
      PROVE  StacksAligned'
  <2>1. PushC(t, a_l[cur[t]]) /\ a_l[cur[t]] \in Int
    BY <1>4, PushedInt DEF IssueTicket
  <2>2. /\ STACKc' \in [Thread -> Seq(Int)]
        /\ \A u \in Thread : u # t => STACKc'[u] = STACKc[u]
        /\ Len(STACKc'[t]) = Len(STACKc[t]) + 1
        /\ \A i \in 1..Len(STACKc[t]) : STACKc'[t][i] = STACKc[t][i]
        /\ STACKc'[t][Len(STACKc[t]) + 1] = a_l[cur[t]]
    BY <2>1, PushStep DEF CriticalInv
  <2>3. STACKc[t] \in Seq(Int) /\ STACKf[t] \in Seq(Value)
    BY DEF CriticalInv, TypeOK
  <2>4. Cardinality(Pieces(STACKc'[t])) = Cardinality(Pieces(STACKc[t])) + 0
    <3>1. STACKc'[t] = Push(STACKc[t], a_l[cur[t]])
      BY <2>1 DEF PushC, CriticalInv, TypeOK
    <3>2. a_l[cur[t]] \notin Slc
      BY <1>4, PushedInt, LabelFacts, ConstantsAssumption DEF IssueTicket, Label, CriticalInv, CountersBounded
    <3>3. Cardinality(Pieces(STACKc[t])) \in Nat
      BY <2>3, PiecesFinite
    <3>4. Cardinality(Pieces(Push(STACKc[t], a_l[cur[t]])))
            = Cardinality(Pieces(STACKc[t])) + (IF a_l[cur[t]] \in Slc THEN 1 ELSE 0)
      BY <2>1, <2>3, PiecesPush
    <3> QED BY <3>1, <3>2, <3>3, <3>4
  <2>5. STACKf' = STACKf
    BY <1>4 DEF IssueTicket
  <2>6. Len(STACKf[t]) = Cardinality(Pieces(STACKc[t])) /\ Cardinality(Pieces(STACKc[t])) \in Nat
    BY <2>3, PiecesFinite DEF CriticalInv, StacksAligned
  <2>7. Len(STACKf'[t]) = Cardinality(Pieces(STACKc'[t]))
    BY <2>4, <2>5, <2>6
  <2> QED BY <2>2, <2>5, <2>7 DEF CriticalInv, StacksAligned
<1>5. ASSUME NEW t \in Thread, CountTicket(t)
      PROVE  StacksAligned'
  BY <1>5 DEF CountTicket, CriticalInv, TypeOK, StacksAligned
<1>6. ASSUME NEW t \in Thread, LeaveSection(t)
      PROVE  StacksAligned'
  BY <1>6 DEF LeaveSection, CriticalInv, TypeOK, StacksAligned
<1>7. ASSUME NEW t \in Thread, CloseSection(t)
      PROVE  StacksAligned'
  <2>1. PushC(t, cur[t]) /\ cur[t] \in Int
    BY <1>7, PushedInt DEF CloseSection
  <2>2. /\ STACKc' \in [Thread -> Seq(Int)]
        /\ \A u \in Thread : u # t => STACKc'[u] = STACKc[u]
        /\ Len(STACKc'[t]) = Len(STACKc[t]) + 1
        /\ \A i \in 1..Len(STACKc[t]) : STACKc'[t][i] = STACKc[t][i]
        /\ STACKc'[t][Len(STACKc[t]) + 1] = cur[t]
    BY <2>1, PushStep DEF CriticalInv
  <2>3. STACKc[t] \in Seq(Int) /\ STACKf[t] \in Seq(Value)
    BY DEF CriticalInv, TypeOK
  <2>4. Cardinality(Pieces(STACKc'[t])) = Cardinality(Pieces(STACKc[t])) + 0
    <3>1. STACKc'[t] = Push(STACKc[t], cur[t])
      BY <2>1 DEF PushC, CriticalInv, TypeOK
    <3>2. cur[t] \notin Slc
      BY <1>7, PushedInt, LabelFacts, ConstantsAssumption DEF CloseSection, Label, CriticalInv, CountersBounded
    <3>3. Cardinality(Pieces(STACKc[t])) \in Nat
      BY <2>3, PiecesFinite
    <3>4. Cardinality(Pieces(Push(STACKc[t], cur[t])))
            = Cardinality(Pieces(STACKc[t])) + (IF cur[t] \in Slc THEN 1 ELSE 0)
      BY <2>1, <2>3, PiecesPush
    <3> QED BY <3>1, <3>2, <3>3, <3>4
  <2>5. STACKf' = STACKf
    BY <1>7 DEF CloseSection
  <2>6. Len(STACKf[t]) = Cardinality(Pieces(STACKc[t])) /\ Cardinality(Pieces(STACKc[t])) \in Nat
    BY <2>3, PiecesFinite DEF CriticalInv, StacksAligned
  <2>7. Len(STACKf'[t]) = Cardinality(Pieces(STACKc'[t]))
    BY <2>4, <2>5, <2>6
  <2> QED BY <2>2, <2>5, <2>7 DEF CriticalInv, StacksAligned
<1>8. ASSUME NEW t \in Thread, EndForward(t)
      PROVE  StacksAligned'
  BY <1>8 DEF EndForward, CriticalInv, TypeOK, StacksAligned
<1>9. ASSUME NEW t \in Thread, OpenReverse(t)
      PROVE  StacksAligned'
  <2>1. PopC(t) /\ STACKc[t] # <<>>
    BY <1>9, PoppedNonEmpty DEF OpenReverse
  <2>2. /\ STACKc' \in [Thread -> Seq(Int)]
        /\ \A u \in Thread : u # t => STACKc'[u] = STACKc[u]
        /\ Len(STACKc[t]) # 0
        /\ Len(STACKc'[t]) = Len(STACKc[t]) - 1
        /\ \A i \in 1..(Len(STACKc[t]) - 1) : STACKc'[t][i] = STACKc[t][i]
    BY <2>1, PopStep DEF CriticalInv
  <2>3. STACKc[t] \in Seq(Int) /\ STACKf[t] \in Seq(Value)
    BY DEF CriticalInv, TypeOK
  <2>4. Cardinality(Pieces(STACKc'[t])) = Cardinality(Pieces(STACKc[t])) - 0
    <3>1. STACKc'[t] = Pop(STACKc[t])
      BY <2>1 DEF PopC, CriticalInv, TypeOK
    <3>2. STACKc[t][Len(STACKc[t])] \notin Slc
      BY <1>9, <2>1, PushedInt, ConstantsAssumption DEF OpenReverse, TopC, Label
    <3>3. Cardinality(Pieces(STACKc[t])) \in Nat
      BY <2>3, PiecesFinite
    <3>4. Cardinality(Pieces(Pop(STACKc[t])))
            = Cardinality(Pieces(STACKc[t])) - (IF STACKc[t][Len(STACKc[t])] \in Slc THEN 1 ELSE 0)
      BY <2>1, <2>3, PiecesPop
    <3> QED BY <3>1, <3>2, <3>3, <3>4
  <2>5. STACKf' = STACKf
    BY <1>9 DEF OpenReverse
  <2>6. Len(STACKf[t]) = Cardinality(Pieces(STACKc[t])) /\ Cardinality(Pieces(STACKc[t])) \in Nat
    BY <2>3, PiecesFinite DEF CriticalInv, StacksAligned
  <2>7. Len(STACKf'[t]) = Cardinality(Pieces(STACKc'[t]))
    BY <2>4, <2>5, <2>6
  <2> QED BY <2>2, <2>5, <2>7 DEF CriticalInv, StacksAligned
<1>10. ASSUME NEW t \in Thread, AskForTurn(t)
      PROVE  StacksAligned'
  BY <1>10 DEF AskForTurn, CriticalInv, TypeOK, StacksAligned
<1>11. ASSUME NEW t \in Thread, NotMyTurn(t)
      PROVE  StacksAligned'
  BY <1>11 DEF NotMyTurn, CriticalInv, TypeOK, StacksAligned
<1>12. ASSUME NEW t \in Thread, TakeTurn(t)
      PROVE  StacksAligned'
  <2>1. PopC(t) /\ STACKc[t] # <<>>
    BY <1>12, PoppedNonEmpty DEF TakeTurn
  <2>2. /\ STACKc' \in [Thread -> Seq(Int)]
        /\ \A u \in Thread : u # t => STACKc'[u] = STACKc[u]
        /\ Len(STACKc[t]) # 0
        /\ Len(STACKc'[t]) = Len(STACKc[t]) - 1
        /\ \A i \in 1..(Len(STACKc[t]) - 1) : STACKc'[t][i] = STACKc[t][i]
    BY <2>1, PopStep DEF CriticalInv
  <2>3. STACKc[t] \in Seq(Int) /\ STACKf[t] \in Seq(Value)
    BY DEF CriticalInv, TypeOK
  <2>4. Cardinality(Pieces(STACKc'[t])) = Cardinality(Pieces(STACKc[t])) - 0
    <3>1. STACKc'[t] = Pop(STACKc[t])
      BY <2>1 DEF PopC, CriticalInv, TypeOK
    <3>2. STACKc[t][Len(STACKc[t])] \notin Slc
      BY <1>12, <2>1, PushedInt, ConstantsAssumption DEF TakeTurn, TopC, Label, CriticalInv, TopShape, TopShapeOf
    <3>3. Cardinality(Pieces(STACKc[t])) \in Nat
      BY <2>3, PiecesFinite
    <3>4. Cardinality(Pieces(Pop(STACKc[t])))
            = Cardinality(Pieces(STACKc[t])) - (IF STACKc[t][Len(STACKc[t])] \in Slc THEN 1 ELSE 0)
      BY <2>1, <2>3, PiecesPop
    <3> QED BY <3>1, <3>2, <3>3, <3>4
  <2>5. STACKf' = STACKf
    BY <1>12 DEF TakeTurn
  <2>6. Len(STACKf[t]) = Cardinality(Pieces(STACKc[t])) /\ Cardinality(Pieces(STACKc[t])) \in Nat
    BY <2>3, PiecesFinite DEF CriticalInv, StacksAligned
  <2>7. Len(STACKf'[t]) = Cardinality(Pieces(STACKc'[t]))
    BY <2>4, <2>5, <2>6
  <2> QED BY <2>2, <2>5, <2>7 DEF CriticalInv, StacksAligned
<1>13. ASSUME NEW t \in Thread, ReverseSlc(t)
      PROVE  StacksAligned'
  <2>1. PopC(t) /\ STACKc[t] # <<>>
    BY <1>13, PoppedNonEmpty DEF ReverseSlc
  <2>2. /\ STACKc' \in [Thread -> Seq(Int)]
        /\ \A u \in Thread : u # t => STACKc'[u] = STACKc[u]
        /\ Len(STACKc[t]) # 0
        /\ Len(STACKc'[t]) = Len(STACKc[t]) - 1
        /\ \A i \in 1..(Len(STACKc[t]) - 1) : STACKc'[t][i] = STACKc[t][i]
    BY <2>1, PopStep DEF CriticalInv
  <2>3. STACKc[t] \in Seq(Int) /\ STACKf[t] \in Seq(Value)
    BY DEF CriticalInv, TypeOK
  <2>4. Cardinality(Pieces(STACKc'[t])) = Cardinality(Pieces(STACKc[t])) - 1
    <3>1. STACKc'[t] = Pop(STACKc[t])
      BY <2>1 DEF PopC, CriticalInv, TypeOK
    <3>2. STACKc[t][Len(STACKc[t])] \in Slc
      BY <1>13, <2>1, PushedInt, ConstantsAssumption DEF ReverseSlc, TopC, Label
    <3>3. Cardinality(Pieces(STACKc[t])) \in Nat
      BY <2>3, PiecesFinite
    <3>4. Cardinality(Pieces(Pop(STACKc[t])))
            = Cardinality(Pieces(STACKc[t])) - (IF STACKc[t][Len(STACKc[t])] \in Slc THEN 1 ELSE 0)
      BY <2>1, <2>3, PiecesPop
    <3> QED BY <3>1, <3>2, <3>3, <3>4
  <2>5. Len(STACKf'[t]) = Len(STACKf[t]) - 1 /\ \A u \in Thread : u # t => STACKf'[u] = STACKf[u]
    <3>1. Len(Pop(STACKf[t])) = Len(STACKf[t]) - 1
      BY <1>13, <2>3, SavedValueThere, PopFacts
    <3> QED BY <1>13, <3>1 DEF ReverseSlc, CriticalInv, TypeOK
  <2>6. Len(STACKf[t]) = Cardinality(Pieces(STACKc[t])) /\ Cardinality(Pieces(STACKc[t])) \in Nat
    BY <2>3, PiecesFinite DEF CriticalInv, StacksAligned
  <2>7. Len(STACKf'[t]) = Cardinality(Pieces(STACKc'[t]))
    BY <2>4, <2>5, <2>6
  <2> QED BY <2>2, <2>5, <2>7 DEF CriticalInv, StacksAligned
<1>14. ASSUME NEW t \in Thread, LeaveReverse(t)
      PROVE  StacksAligned'
  BY <1>14 DEF LeaveReverse, CriticalInv, TypeOK, StacksAligned
<1>15. ASSUME NEW t \in Thread, CloseReverse(t)
      PROVE  StacksAligned'
  <2>1. PopC(t) /\ STACKc[t] # <<>>
    BY <1>15, PoppedNonEmpty DEF CloseReverse
  <2>2. /\ STACKc' \in [Thread -> Seq(Int)]
        /\ \A u \in Thread : u # t => STACKc'[u] = STACKc[u]
        /\ Len(STACKc[t]) # 0
        /\ Len(STACKc'[t]) = Len(STACKc[t]) - 1
        /\ \A i \in 1..(Len(STACKc[t]) - 1) : STACKc'[t][i] = STACKc[t][i]
    BY <2>1, PopStep DEF CriticalInv
  <2>3. STACKc[t] \in Seq(Int) /\ STACKf[t] \in Seq(Value)
    BY DEF CriticalInv, TypeOK
  <2>4. Cardinality(Pieces(STACKc'[t])) = Cardinality(Pieces(STACKc[t])) - 0
    <3>1. STACKc'[t] = Pop(STACKc[t])
      BY <2>1 DEF PopC, CriticalInv, TypeOK
    <3>2. STACKc[t][Len(STACKc[t])] \notin Slc
      BY <1>15, <2>1, PushedInt, ConstantsAssumption DEF CloseReverse, TopC, Label
    <3>3. Cardinality(Pieces(STACKc[t])) \in Nat
      BY <2>3, PiecesFinite
    <3>4. Cardinality(Pieces(Pop(STACKc[t])))
            = Cardinality(Pieces(STACKc[t])) - (IF STACKc[t][Len(STACKc[t])] \in Slc THEN 1 ELSE 0)
      BY <2>1, <2>3, PiecesPop
    <3> QED BY <3>1, <3>2, <3>3, <3>4
  <2>5. STACKf' = STACKf
    BY <1>15 DEF CloseReverse
  <2>6. Len(STACKf[t]) = Cardinality(Pieces(STACKc[t])) /\ Cardinality(Pieces(STACKc[t])) \in Nat
    BY <2>3, PiecesFinite DEF CriticalInv, StacksAligned
  <2>7. Len(STACKf'[t]) = Cardinality(Pieces(STACKc'[t]))
    BY <2>4, <2>5, <2>6
  <2> QED BY <2>2, <2>5, <2>7 DEF CriticalInv, StacksAligned
<1>16. ASSUME NEW t \in Thread, EndReverse(t)
      PROVE  StacksAligned'
  BY <1>16 DEF EndReverse, CriticalInv, TypeOK, StacksAligned
<1>17. ASSUME CrossBarrier
      PROVE  StacksAligned'
  BY <1>17 DEF CrossBarrier, CriticalInv, TypeOK, StacksAligned
<1>18. CASE UNCHANGED vars
  BY <1>18 DEF vars, CriticalInv, TypeOK, StacksAligned
<1> QED
  BY <1>1, <1>2, <1>3, <1>4, <1>5, <1>6, <1>7, <1>8, <1>9, <1>10, <1>11, <1>12, <1>13, <1>14, <1>15, <1>16, <1>17, <1>18
  DEF Next, Forward, Backward, Terminated

(* Each control stack stays a row of blocks.                                *)
LEMMA ShapeStep ==
  ASSUME CriticalInv, [Next]_vars
  PROVE  StackShape'
<1>1. ASSUME NEW t \in Thread, NEW l \in Critical, OpenSection(t, l)
      PROVE  StackShape'
  <2>1. PushC(t, l) /\ l \in Int
    BY <1>1, PushedInt DEF OpenSection
  <2>2. /\ STACKc' \in [Thread -> Seq(Int)]
        /\ \A u \in Thread : u # t => STACKc'[u] = STACKc[u]
        /\ Len(STACKc'[t]) = Len(STACKc[t]) + 1
        /\ \A i \in 1..Len(STACKc[t]) : STACKc'[t][i] = STACKc[t][i]
        /\ STACKc'[t][Len(STACKc[t]) + 1] = l
    BY <2>1, PushStep DEF CriticalInv
  <2>3. STACKc[t] \in Seq(Int) /\ STACKc'[t] \in Seq(Int)
    BY <2>2 DEF CriticalInv, TypeOK
  <2>4. \A i \in 1..Len(STACKc[t]) : BlockAt(STACKc[t], i)
    BY DEF CriticalInv, StackShape
  <2>5. LET s0 == STACKc[t] IN
        l \in Critical <=> (Len(s0) = 0 \/ s0[Len(s0)] \notin Label \/ Closing(s0, Len(s0)))
    BY <1>1, PushedInt, LabelFacts, ConstantsAssumption
    DEF OpenSection, CriticalInv, CountersBounded, TopShape, TopShapeOf, Label
  <2>6. \A i \in 1..Len(STACKc'[t]) : BlockAt(STACKc'[t], i)
    BY <2>1, <2>2, <2>3, <2>4, <2>5, ShapePush
  <2> QED BY <2>2, <2>6 DEF CriticalInv, StackShape
<1>2. ASSUME NEW t \in Thread, EnterSection(t)
      PROVE  StackShape'
  BY <1>2 DEF EnterSection, CriticalInv, TypeOK, StackShape
<1>3. ASSUME NEW t \in Thread, NEW s \in Slc, NEW v \in Value, ForwardSlc(t, s, v)
      PROVE  StackShape'
  <2>1. PushC(t, s) /\ s \in Int
    BY <1>3, PushedInt DEF ForwardSlc
  <2>2. /\ STACKc' \in [Thread -> Seq(Int)]
        /\ \A u \in Thread : u # t => STACKc'[u] = STACKc[u]
        /\ Len(STACKc'[t]) = Len(STACKc[t]) + 1
        /\ \A i \in 1..Len(STACKc[t]) : STACKc'[t][i] = STACKc[t][i]
        /\ STACKc'[t][Len(STACKc[t]) + 1] = s
    BY <2>1, PushStep DEF CriticalInv
  <2>3. STACKc[t] \in Seq(Int) /\ STACKc'[t] \in Seq(Int)
    BY <2>2 DEF CriticalInv, TypeOK
  <2>4. \A i \in 1..Len(STACKc[t]) : BlockAt(STACKc[t], i)
    BY DEF CriticalInv, StackShape
  <2>5. LET s0 == STACKc[t] IN
        s \in Critical <=> (Len(s0) = 0 \/ s0[Len(s0)] \notin Label \/ Closing(s0, Len(s0)))
    BY <1>3, PushedInt, LabelFacts, ConstantsAssumption
    DEF ForwardSlc, CriticalInv, CountersBounded, TopShape, TopShapeOf, Label
  <2>6. \A i \in 1..Len(STACKc'[t]) : BlockAt(STACKc'[t], i)
    BY <2>1, <2>2, <2>3, <2>4, <2>5, ShapePush
  <2> QED BY <2>2, <2>6 DEF CriticalInv, StackShape
<1>4. ASSUME NEW t \in Thread, IssueTicket(t)
      PROVE  StackShape'
  <2>1. PushC(t, a_l[cur[t]]) /\ a_l[cur[t]] \in Int
    BY <1>4, PushedInt DEF IssueTicket
  <2>2. /\ STACKc' \in [Thread -> Seq(Int)]
        /\ \A u \in Thread : u # t => STACKc'[u] = STACKc[u]
        /\ Len(STACKc'[t]) = Len(STACKc[t]) + 1
        /\ \A i \in 1..Len(STACKc[t]) : STACKc'[t][i] = STACKc[t][i]
        /\ STACKc'[t][Len(STACKc[t]) + 1] = a_l[cur[t]]
    BY <2>1, PushStep DEF CriticalInv
  <2>3. STACKc[t] \in Seq(Int) /\ STACKc'[t] \in Seq(Int)
    BY <2>2 DEF CriticalInv, TypeOK
  <2>4. \A i \in 1..Len(STACKc[t]) : BlockAt(STACKc[t], i)
    BY DEF CriticalInv, StackShape
  <2>5. LET s0 == STACKc[t] IN
        a_l[cur[t]] \in Critical <=> (Len(s0) = 0 \/ s0[Len(s0)] \notin Label \/ Closing(s0, Len(s0)))
    BY <1>4, PushedInt, LabelFacts, ConstantsAssumption
    DEF IssueTicket, CriticalInv, CountersBounded, TopShape, TopShapeOf, Label
  <2>6. \A i \in 1..Len(STACKc'[t]) : BlockAt(STACKc'[t], i)
    BY <2>1, <2>2, <2>3, <2>4, <2>5, ShapePush
  <2> QED BY <2>2, <2>6 DEF CriticalInv, StackShape
<1>5. ASSUME NEW t \in Thread, CountTicket(t)
      PROVE  StackShape'
  BY <1>5 DEF CountTicket, CriticalInv, TypeOK, StackShape
<1>6. ASSUME NEW t \in Thread, LeaveSection(t)
      PROVE  StackShape'
  BY <1>6 DEF LeaveSection, CriticalInv, TypeOK, StackShape
<1>7. ASSUME NEW t \in Thread, CloseSection(t)
      PROVE  StackShape'
  <2>1. PushC(t, cur[t]) /\ cur[t] \in Int
    BY <1>7, PushedInt DEF CloseSection
  <2>2. /\ STACKc' \in [Thread -> Seq(Int)]
        /\ \A u \in Thread : u # t => STACKc'[u] = STACKc[u]
        /\ Len(STACKc'[t]) = Len(STACKc[t]) + 1
        /\ \A i \in 1..Len(STACKc[t]) : STACKc'[t][i] = STACKc[t][i]
        /\ STACKc'[t][Len(STACKc[t]) + 1] = cur[t]
    BY <2>1, PushStep DEF CriticalInv
  <2>3. STACKc[t] \in Seq(Int) /\ STACKc'[t] \in Seq(Int)
    BY <2>2 DEF CriticalInv, TypeOK
  <2>4. \A i \in 1..Len(STACKc[t]) : BlockAt(STACKc[t], i)
    BY DEF CriticalInv, StackShape
  <2>5. LET s0 == STACKc[t] IN
        cur[t] \in Critical <=> (Len(s0) = 0 \/ s0[Len(s0)] \notin Label \/ Closing(s0, Len(s0)))
    BY <1>7, PushedInt, LabelFacts, ConstantsAssumption
    DEF CloseSection, CriticalInv, CountersBounded, TopShape, TopShapeOf, Label
  <2>6. \A i \in 1..Len(STACKc'[t]) : BlockAt(STACKc'[t], i)
    BY <2>1, <2>2, <2>3, <2>4, <2>5, ShapePush
  <2> QED BY <2>2, <2>6 DEF CriticalInv, StackShape
<1>8. ASSUME NEW t \in Thread, EndForward(t)
      PROVE  StackShape'
  BY <1>8 DEF EndForward, CriticalInv, TypeOK, StackShape
<1>9. ASSUME NEW t \in Thread, OpenReverse(t)
      PROVE  StackShape'
  <2>1. PopC(t) /\ STACKc[t] # <<>>
    BY <1>9, PoppedNonEmpty DEF OpenReverse
  <2>2. /\ STACKc' \in [Thread -> Seq(Int)]
        /\ \A u \in Thread : u # t => STACKc'[u] = STACKc[u]
        /\ Len(STACKc[t]) # 0
        /\ Len(STACKc'[t]) = Len(STACKc[t]) - 1
        /\ \A i \in 1..(Len(STACKc[t]) - 1) : STACKc'[t][i] = STACKc[t][i]
    BY <2>1, PopStep DEF CriticalInv
  <2>3. STACKc[t] \in Seq(Int) /\ STACKc'[t] \in Seq(Int)
    BY <2>2 DEF CriticalInv, TypeOK
  <2>4. \A i \in 1..Len(STACKc[t]) : BlockAt(STACKc[t], i)
    BY DEF CriticalInv, StackShape
  <2>5. \A i \in 1..Len(STACKc'[t]) : BlockAt(STACKc'[t], i)
    BY <2>2, <2>3, <2>4, ShapePop
  <2> QED BY <2>2, <2>5 DEF CriticalInv, StackShape
<1>10. ASSUME NEW t \in Thread, AskForTurn(t)
      PROVE  StackShape'
  BY <1>10 DEF AskForTurn, CriticalInv, TypeOK, StackShape
<1>11. ASSUME NEW t \in Thread, NotMyTurn(t)
      PROVE  StackShape'
  BY <1>11 DEF NotMyTurn, CriticalInv, TypeOK, StackShape
<1>12. ASSUME NEW t \in Thread, TakeTurn(t)
      PROVE  StackShape'
  <2>1. PopC(t) /\ STACKc[t] # <<>>
    BY <1>12, PoppedNonEmpty DEF TakeTurn
  <2>2. /\ STACKc' \in [Thread -> Seq(Int)]
        /\ \A u \in Thread : u # t => STACKc'[u] = STACKc[u]
        /\ Len(STACKc[t]) # 0
        /\ Len(STACKc'[t]) = Len(STACKc[t]) - 1
        /\ \A i \in 1..(Len(STACKc[t]) - 1) : STACKc'[t][i] = STACKc[t][i]
    BY <2>1, PopStep DEF CriticalInv
  <2>3. STACKc[t] \in Seq(Int) /\ STACKc'[t] \in Seq(Int)
    BY <2>2 DEF CriticalInv, TypeOK
  <2>4. \A i \in 1..Len(STACKc[t]) : BlockAt(STACKc[t], i)
    BY DEF CriticalInv, StackShape
  <2>5. \A i \in 1..Len(STACKc'[t]) : BlockAt(STACKc'[t], i)
    BY <2>2, <2>3, <2>4, ShapePop
  <2> QED BY <2>2, <2>5 DEF CriticalInv, StackShape
<1>13. ASSUME NEW t \in Thread, ReverseSlc(t)
      PROVE  StackShape'
  <2>1. PopC(t) /\ STACKc[t] # <<>>
    BY <1>13, PoppedNonEmpty DEF ReverseSlc
  <2>2. /\ STACKc' \in [Thread -> Seq(Int)]
        /\ \A u \in Thread : u # t => STACKc'[u] = STACKc[u]
        /\ Len(STACKc[t]) # 0
        /\ Len(STACKc'[t]) = Len(STACKc[t]) - 1
        /\ \A i \in 1..(Len(STACKc[t]) - 1) : STACKc'[t][i] = STACKc[t][i]
    BY <2>1, PopStep DEF CriticalInv
  <2>3. STACKc[t] \in Seq(Int) /\ STACKc'[t] \in Seq(Int)
    BY <2>2 DEF CriticalInv, TypeOK
  <2>4. \A i \in 1..Len(STACKc[t]) : BlockAt(STACKc[t], i)
    BY DEF CriticalInv, StackShape
  <2>5. \A i \in 1..Len(STACKc'[t]) : BlockAt(STACKc'[t], i)
    BY <2>2, <2>3, <2>4, ShapePop
  <2> QED BY <2>2, <2>5 DEF CriticalInv, StackShape
<1>14. ASSUME NEW t \in Thread, LeaveReverse(t)
      PROVE  StackShape'
  BY <1>14 DEF LeaveReverse, CriticalInv, TypeOK, StackShape
<1>15. ASSUME NEW t \in Thread, CloseReverse(t)
      PROVE  StackShape'
  <2>1. PopC(t) /\ STACKc[t] # <<>>
    BY <1>15, PoppedNonEmpty DEF CloseReverse
  <2>2. /\ STACKc' \in [Thread -> Seq(Int)]
        /\ \A u \in Thread : u # t => STACKc'[u] = STACKc[u]
        /\ Len(STACKc[t]) # 0
        /\ Len(STACKc'[t]) = Len(STACKc[t]) - 1
        /\ \A i \in 1..(Len(STACKc[t]) - 1) : STACKc'[t][i] = STACKc[t][i]
    BY <2>1, PopStep DEF CriticalInv
  <2>3. STACKc[t] \in Seq(Int) /\ STACKc'[t] \in Seq(Int)
    BY <2>2 DEF CriticalInv, TypeOK
  <2>4. \A i \in 1..Len(STACKc[t]) : BlockAt(STACKc[t], i)
    BY DEF CriticalInv, StackShape
  <2>5. \A i \in 1..Len(STACKc'[t]) : BlockAt(STACKc'[t], i)
    BY <2>2, <2>3, <2>4, ShapePop
  <2> QED BY <2>2, <2>5 DEF CriticalInv, StackShape
<1>16. ASSUME NEW t \in Thread, EndReverse(t)
      PROVE  StackShape'
  BY <1>16 DEF EndReverse, CriticalInv, TypeOK, StackShape
<1>17. ASSUME CrossBarrier
      PROVE  StackShape'
  BY <1>17 DEF CrossBarrier, CriticalInv, TypeOK, StackShape
<1>18. CASE UNCHANGED vars
  BY <1>18 DEF vars, CriticalInv, TypeOK, StackShape
<1> QED
  BY <1>1, <1>2, <1>3, <1>4, <1>5, <1>6, <1>7, <1>8, <1>9, <1>10, <1>11, <1>12, <1>13, <1>14, <1>15, <1>16, <1>17, <1>18
  DEF Next, Forward, Backward, Terminated

(* What lies on top of the control stack at each point of the code.         *)
LEMMA TopStep ==
  ASSUME CriticalInv, [Next]_vars
  PROVE  TopShape'
<1>1. ASSUME NEW t \in Thread, NEW l \in Critical, OpenSection(t, l)
      PROVE  TopShape'
  <2>1. PushC(t, l) /\ l \in Int
    BY <1>1, PushedInt DEF OpenSection
  <2>2. /\ STACKc' \in [Thread -> Seq(Int)]
        /\ \A u \in Thread : u # t => STACKc'[u] = STACKc[u]
        /\ Len(STACKc'[t]) = Len(STACKc[t]) + 1
        /\ \A i \in 1..Len(STACKc[t]) : STACKc'[t][i] = STACKc[t][i]
        /\ STACKc'[t][Len(STACKc[t]) + 1] = l
    BY <2>1, PushStep DEF CriticalInv
  <2>a. a_l' = a_l
    BY <1>1 DEF OpenSection
  <2>3. STACKc[t] \in Seq(Int) /\ STACKc'[t] \in Seq(Int)
    BY <2>2 DEF CriticalInv, TypeOK
  <2>4. /\ Len(STACKc'[t]) > 0
        /\ STACKc'[t][Len(STACKc'[t])] = l
        /\ Closing(STACKc'[t], Len(STACKc'[t])) <=>
             Len(STACKc[t]) > 0 /\ STACKc[t][Len(STACKc[t])] \notin Label
    BY <2>1, PushTop DEF CriticalInv
  <2>5. Len(STACKc[t]) > 0 => BlockAt(STACKc[t], Len(STACKc[t]))
    <3>1. Len(STACKc[t]) > 0 => Len(STACKc[t]) \in 1..Len(STACKc[t])
      BY <2>3
    <3> QED BY <3>1 DEF CriticalInv, StackShape
  <2>6. pc[t] = "forward" /\ Len(STACKc[t]) > 0 => STACKc[t][Len(STACKc[t])] \in Label
    BY <2>5, LabelFacts DEF CriticalInv, TopShape, TopShapeOf, BlockAt, Closing, Label
  <2>b. pc[t] = "body" => a_l[cur[t]] \notin Label
    BY PushedInt, LabelFacts DEF CriticalInv, CountersBounded
  <2>7. TopShapeOf(t)'
    BY <1>1, <2>4, <2>6, <2>a, <2>b, PushedInt, LabelFacts
    DEF OpenSection, Goto, CriticalInv, TypeOK, CountersBounded, TopShape, TopShapeOf, Label
  <2>8. \A u \in Thread : u # t => pc'[u] = pc[u] /\ cur'[u] = cur[u]
    BY <1>1 DEF OpenSection, Goto, CriticalInv, TypeOK
  <2>9. ASSUME NEW u \in Thread, u # t
        PROVE  TopShapeOf(u)'
    <3>1. /\ STACKc'[u] = STACKc[u] /\ pc'[u] = pc[u] /\ cur'[u] = cur[u]
          /\ pc[u] = "count" => a_l' = a_l
      BY <2>2, <2>8, <2>9, <2>a
    <3>2. TopShapeOf(u)
      BY DEF CriticalInv, TopShape
    <3> QED BY <3>1, <3>2 DEF TopShapeOf
  <2> QED BY <2>7, <2>9 DEF TopShape
<1>2. ASSUME NEW t \in Thread, EnterSection(t)
      PROVE  TopShape'
  BY <1>2 DEF EnterSection, Goto, CriticalInv, TypeOK, TopShape, TopShapeOf, Closing
<1>3. ASSUME NEW t \in Thread, NEW s \in Slc, NEW v \in Value, ForwardSlc(t, s, v)
      PROVE  TopShape'
  <2>1. PushC(t, s) /\ s \in Int
    BY <1>3, PushedInt DEF ForwardSlc
  <2>2. /\ STACKc' \in [Thread -> Seq(Int)]
        /\ \A u \in Thread : u # t => STACKc'[u] = STACKc[u]
        /\ Len(STACKc'[t]) = Len(STACKc[t]) + 1
        /\ \A i \in 1..Len(STACKc[t]) : STACKc'[t][i] = STACKc[t][i]
        /\ STACKc'[t][Len(STACKc[t]) + 1] = s
    BY <2>1, PushStep DEF CriticalInv
  <2>a. a_l' = a_l
    BY <1>3 DEF ForwardSlc
  <2>3. STACKc[t] \in Seq(Int) /\ STACKc'[t] \in Seq(Int)
    BY <2>2 DEF CriticalInv, TypeOK
  <2>4. /\ Len(STACKc'[t]) > 0
        /\ STACKc'[t][Len(STACKc'[t])] = s
        /\ Closing(STACKc'[t], Len(STACKc'[t])) <=>
             Len(STACKc[t]) > 0 /\ STACKc[t][Len(STACKc[t])] \notin Label
    BY <2>1, PushTop DEF CriticalInv
  <2>5. Len(STACKc[t]) > 0 => BlockAt(STACKc[t], Len(STACKc[t]))
    <3>1. Len(STACKc[t]) > 0 => Len(STACKc[t]) \in 1..Len(STACKc[t])
      BY <2>3
    <3> QED BY <3>1 DEF CriticalInv, StackShape
  <2>6. pc[t] = "forward" /\ Len(STACKc[t]) > 0 => STACKc[t][Len(STACKc[t])] \in Label
    BY <2>5, LabelFacts DEF CriticalInv, TopShape, TopShapeOf, BlockAt, Closing, Label
  <2>b. pc[t] = "body" => a_l[cur[t]] \notin Label
    BY PushedInt, LabelFacts DEF CriticalInv, CountersBounded
  <2>7. TopShapeOf(t)'
    BY <1>3, <2>4, <2>6, <2>a, <2>b, PushedInt, LabelFacts
    DEF ForwardSlc, Goto, CriticalInv, TypeOK, CountersBounded, TopShape, TopShapeOf, Label
  <2>8. \A u \in Thread : u # t => pc'[u] = pc[u] /\ cur'[u] = cur[u]
    BY <1>3 DEF ForwardSlc, Goto, CriticalInv, TypeOK
  <2>9. ASSUME NEW u \in Thread, u # t
        PROVE  TopShapeOf(u)'
    <3>1. /\ STACKc'[u] = STACKc[u] /\ pc'[u] = pc[u] /\ cur'[u] = cur[u]
          /\ pc[u] = "count" => a_l' = a_l
      BY <2>2, <2>8, <2>9, <2>a
    <3>2. TopShapeOf(u)
      BY DEF CriticalInv, TopShape
    <3> QED BY <3>1, <3>2 DEF TopShapeOf
  <2> QED BY <2>7, <2>9 DEF TopShape
<1>4. ASSUME NEW t \in Thread, IssueTicket(t)
      PROVE  TopShape'
  <2>1. PushC(t, a_l[cur[t]]) /\ a_l[cur[t]] \in Int
    BY <1>4, PushedInt DEF IssueTicket
  <2>2. /\ STACKc' \in [Thread -> Seq(Int)]
        /\ \A u \in Thread : u # t => STACKc'[u] = STACKc[u]
        /\ Len(STACKc'[t]) = Len(STACKc[t]) + 1
        /\ \A i \in 1..Len(STACKc[t]) : STACKc'[t][i] = STACKc[t][i]
        /\ STACKc'[t][Len(STACKc[t]) + 1] = a_l[cur[t]]
    BY <2>1, PushStep DEF CriticalInv
  <2>a. a_l' = a_l
    BY <1>4 DEF IssueTicket
  <2>3. STACKc[t] \in Seq(Int) /\ STACKc'[t] \in Seq(Int)
    BY <2>2 DEF CriticalInv, TypeOK
  <2>4. /\ Len(STACKc'[t]) > 0
        /\ STACKc'[t][Len(STACKc'[t])] = a_l[cur[t]]
        /\ Closing(STACKc'[t], Len(STACKc'[t])) <=>
             Len(STACKc[t]) > 0 /\ STACKc[t][Len(STACKc[t])] \notin Label
    BY <2>1, PushTop DEF CriticalInv
  <2>5. Len(STACKc[t]) > 0 => BlockAt(STACKc[t], Len(STACKc[t]))
    <3>1. Len(STACKc[t]) > 0 => Len(STACKc[t]) \in 1..Len(STACKc[t])
      BY <2>3
    <3> QED BY <3>1 DEF CriticalInv, StackShape
  <2>6. pc[t] = "forward" /\ Len(STACKc[t]) > 0 => STACKc[t][Len(STACKc[t])] \in Label
    BY <2>5, LabelFacts DEF CriticalInv, TopShape, TopShapeOf, BlockAt, Closing, Label
  <2>b. pc[t] = "body" => a_l[cur[t]] \notin Label
    BY PushedInt, LabelFacts DEF CriticalInv, CountersBounded
  <2>7. TopShapeOf(t)'
    BY <1>4, <2>4, <2>6, <2>a, <2>b, PushedInt, LabelFacts
    DEF IssueTicket, Goto, CriticalInv, TypeOK, CountersBounded, TopShape, TopShapeOf, Label
  <2>8. \A u \in Thread : u # t => pc'[u] = pc[u] /\ cur'[u] = cur[u]
    BY <1>4 DEF IssueTicket, Goto, CriticalInv, TypeOK
  <2>9. ASSUME NEW u \in Thread, u # t
        PROVE  TopShapeOf(u)'
    <3>1. /\ STACKc'[u] = STACKc[u] /\ pc'[u] = pc[u] /\ cur'[u] = cur[u]
          /\ pc[u] = "count" => a_l' = a_l
      BY <2>2, <2>8, <2>9, <2>a
    <3>2. TopShapeOf(u)
      BY DEF CriticalInv, TopShape
    <3> QED BY <3>1, <3>2 DEF TopShapeOf
  <2> QED BY <2>7, <2>9 DEF TopShape
<1>5. ASSUME NEW t \in Thread, CountTicket(t)
      PROVE  TopShape'
  <2>1. \A u \in Thread : u # t => pc[u] # "count"
    BY <1>5 DEF CountTicket, CriticalInv, LockHeld, Holding
  <2> QED BY <1>5, <2>1 DEF CountTicket, Goto, CriticalInv, TypeOK, TopShape, TopShapeOf
<1>6. ASSUME NEW t \in Thread, LeaveSection(t)
      PROVE  TopShape'
  BY <1>6 DEF LeaveSection, Goto, CriticalInv, TypeOK, TopShape, TopShapeOf, Closing
<1>7. ASSUME NEW t \in Thread, CloseSection(t)
      PROVE  TopShape'
  <2>1. PushC(t, cur[t]) /\ cur[t] \in Int
    BY <1>7, PushedInt DEF CloseSection
  <2>2. /\ STACKc' \in [Thread -> Seq(Int)]
        /\ \A u \in Thread : u # t => STACKc'[u] = STACKc[u]
        /\ Len(STACKc'[t]) = Len(STACKc[t]) + 1
        /\ \A i \in 1..Len(STACKc[t]) : STACKc'[t][i] = STACKc[t][i]
        /\ STACKc'[t][Len(STACKc[t]) + 1] = cur[t]
    BY <2>1, PushStep DEF CriticalInv
  <2>a. a_l' = a_l
    BY <1>7 DEF CloseSection
  <2>3. STACKc[t] \in Seq(Int) /\ STACKc'[t] \in Seq(Int)
    BY <2>2 DEF CriticalInv, TypeOK
  <2>4. /\ Len(STACKc'[t]) > 0
        /\ STACKc'[t][Len(STACKc'[t])] = cur[t]
        /\ Closing(STACKc'[t], Len(STACKc'[t])) <=>
             Len(STACKc[t]) > 0 /\ STACKc[t][Len(STACKc[t])] \notin Label
    BY <2>1, PushTop DEF CriticalInv
  <2>5. Len(STACKc[t]) > 0 => BlockAt(STACKc[t], Len(STACKc[t]))
    <3>1. Len(STACKc[t]) > 0 => Len(STACKc[t]) \in 1..Len(STACKc[t])
      BY <2>3
    <3> QED BY <3>1 DEF CriticalInv, StackShape
  <2>6. pc[t] = "forward" /\ Len(STACKc[t]) > 0 => STACKc[t][Len(STACKc[t])] \in Label
    BY <2>5, LabelFacts DEF CriticalInv, TopShape, TopShapeOf, BlockAt, Closing, Label
  <2>b. pc[t] = "body" => a_l[cur[t]] \notin Label
    BY PushedInt, LabelFacts DEF CriticalInv, CountersBounded
  <2>7. TopShapeOf(t)'
    BY <1>7, <2>4, <2>6, <2>a, <2>b, PushedInt, LabelFacts
    DEF CloseSection, Goto, CriticalInv, TypeOK, CountersBounded, TopShape, TopShapeOf, Label
  <2>8. \A u \in Thread : u # t => pc'[u] = pc[u] /\ cur'[u] = cur[u]
    BY <1>7 DEF CloseSection, Goto, CriticalInv, TypeOK
  <2>9. ASSUME NEW u \in Thread, u # t
        PROVE  TopShapeOf(u)'
    <3>1. /\ STACKc'[u] = STACKc[u] /\ pc'[u] = pc[u] /\ cur'[u] = cur[u]
          /\ pc[u] = "count" => a_l' = a_l
      BY <2>2, <2>8, <2>9, <2>a
    <3>2. TopShapeOf(u)
      BY DEF CriticalInv, TopShape
    <3> QED BY <3>1, <3>2 DEF TopShapeOf
  <2> QED BY <2>7, <2>9 DEF TopShape
<1>8. ASSUME NEW t \in Thread, EndForward(t)
      PROVE  TopShape'
  BY <1>8 DEF EndForward, Goto, CriticalInv, TypeOK, TopShape, TopShapeOf, Closing
<1>9. ASSUME NEW t \in Thread, OpenReverse(t)
      PROVE  TopShape'
  <2>1. PopC(t) /\ STACKc[t] # <<>>
    BY <1>9, PoppedNonEmpty DEF OpenReverse
  <2>2. /\ STACKc' \in [Thread -> Seq(Int)]
        /\ \A u \in Thread : u # t => STACKc'[u] = STACKc[u]
        /\ Len(STACKc[t]) # 0
        /\ Len(STACKc'[t]) = Len(STACKc[t]) - 1
        /\ \A i \in 1..(Len(STACKc[t]) - 1) : STACKc'[t][i] = STACKc[t][i]
    BY <2>1, PopStep DEF CriticalInv
  <2>a. a_l' = a_l
    BY <1>9 DEF OpenReverse
  <2>3. STACKc[t] \in Seq(Int) /\ STACKc'[t] \in Seq(Int)
    BY <2>2 DEF CriticalInv, TypeOK
  <2>4. \A i \in 1..Len(STACKc[t]) : BlockAt(STACKc[t], i)
    BY DEF CriticalInv, StackShape
  <2>5. LET top == STACKc[t][Len(STACKc[t])]
            r   == STACKc'[t]
        IN  /\ top \notin Critical =>
                 Len(r) > 0 /\ r[Len(r)] \in Label /\ ~Closing(r, Len(r))
            /\ top \in Critical /\ ~Closing(STACKc[t], Len(STACKc[t])) =>
                 Len(r) = 0 \/ Closing(r, Len(r))
            /\ Closing(STACKc[t], Len(STACKc[t])) => Len(r) > 0 /\ r[Len(r)] \notin Label
    BY <2>2, <2>3, <2>4, TopAfterPop
  <2>7. TopShapeOf(t)'
    BY <1>9, <2>1, <2>2, <2>5, PushedInt, LabelFacts, ConstantsAssumption
    DEF OpenReverse, Goto, TopC, CriticalInv, TypeOK, TopShape, TopShapeOf, Label
  <2>8. \A u \in Thread : u # t => pc'[u] = pc[u] /\ cur'[u] = cur[u]
    BY <1>9 DEF OpenReverse, Goto, CriticalInv, TypeOK
  <2>9. ASSUME NEW u \in Thread, u # t
        PROVE  TopShapeOf(u)'
    <3>1. /\ STACKc'[u] = STACKc[u] /\ pc'[u] = pc[u] /\ cur'[u] = cur[u]
          /\ pc[u] = "count" => a_l' = a_l
      BY <2>2, <2>8, <2>9, <2>a
    <3>2. TopShapeOf(u)
      BY DEF CriticalInv, TopShape
    <3> QED BY <3>1, <3>2 DEF TopShapeOf
  <2> QED BY <2>7, <2>9 DEF TopShape
<1>10. ASSUME NEW t \in Thread, AskForTurn(t)
      PROVE  TopShape'
  <2> QED BY <1>10 DEF AskForTurn, Goto, TopC, CriticalInv, TypeOK, TopShape, TopShapeOf
<1>11. ASSUME NEW t \in Thread, NotMyTurn(t)
      PROVE  TopShape'
  BY <1>11 DEF NotMyTurn, Goto, CriticalInv, TypeOK, TopShape, TopShapeOf, Closing
<1>12. ASSUME NEW t \in Thread, TakeTurn(t)
      PROVE  TopShape'
  <2>1. PopC(t) /\ STACKc[t] # <<>>
    BY <1>12, PoppedNonEmpty DEF TakeTurn
  <2>2. /\ STACKc' \in [Thread -> Seq(Int)]
        /\ \A u \in Thread : u # t => STACKc'[u] = STACKc[u]
        /\ Len(STACKc[t]) # 0
        /\ Len(STACKc'[t]) = Len(STACKc[t]) - 1
        /\ \A i \in 1..(Len(STACKc[t]) - 1) : STACKc'[t][i] = STACKc[t][i]
    BY <2>1, PopStep DEF CriticalInv
  <2>a. \A u \in Thread : u # t => pc[u] # "count"
    BY <1>12 DEF TakeTurn, CriticalInv, LockHeld, Holding
  <2>3. STACKc[t] \in Seq(Int) /\ STACKc'[t] \in Seq(Int)
    BY <2>2 DEF CriticalInv, TypeOK
  <2>4. \A i \in 1..Len(STACKc[t]) : BlockAt(STACKc[t], i)
    BY DEF CriticalInv, StackShape
  <2>5. LET top == STACKc[t][Len(STACKc[t])]
            r   == STACKc'[t]
        IN  /\ top \notin Critical =>
                 Len(r) > 0 /\ r[Len(r)] \in Label /\ ~Closing(r, Len(r))
            /\ top \in Critical /\ ~Closing(STACKc[t], Len(STACKc[t])) =>
                 Len(r) = 0 \/ Closing(r, Len(r))
            /\ Closing(STACKc[t], Len(STACKc[t])) => Len(r) > 0 /\ r[Len(r)] \notin Label
    BY <2>2, <2>3, <2>4, TopAfterPop
  <2>7. TopShapeOf(t)'
    BY <1>12, <2>1, <2>2, <2>5, PushedInt, LabelFacts, ConstantsAssumption
    DEF TakeTurn, Goto, TopC, CriticalInv, TypeOK, TopShape, TopShapeOf, Label
  <2>8. \A u \in Thread : u # t => pc'[u] = pc[u] /\ cur'[u] = cur[u]
    BY <1>12 DEF TakeTurn, Goto, CriticalInv, TypeOK
  <2>9. ASSUME NEW u \in Thread, u # t
        PROVE  TopShapeOf(u)'
    <3>1. /\ STACKc'[u] = STACKc[u] /\ pc'[u] = pc[u] /\ cur'[u] = cur[u]
          /\ pc[u] = "count" => a_l' = a_l
      BY <2>2, <2>8, <2>9, <2>a
    <3>2. TopShapeOf(u)
      BY DEF CriticalInv, TopShape
    <3> QED BY <3>1, <3>2 DEF TopShapeOf
  <2> QED BY <2>7, <2>9 DEF TopShape
<1>13. ASSUME NEW t \in Thread, ReverseSlc(t)
      PROVE  TopShape'
  <2>1. PopC(t) /\ STACKc[t] # <<>>
    BY <1>13, PoppedNonEmpty DEF ReverseSlc
  <2>2. /\ STACKc' \in [Thread -> Seq(Int)]
        /\ \A u \in Thread : u # t => STACKc'[u] = STACKc[u]
        /\ Len(STACKc[t]) # 0
        /\ Len(STACKc'[t]) = Len(STACKc[t]) - 1
        /\ \A i \in 1..(Len(STACKc[t]) - 1) : STACKc'[t][i] = STACKc[t][i]
    BY <2>1, PopStep DEF CriticalInv
  <2>a. a_l' = a_l
    BY <1>13 DEF ReverseSlc
  <2>3. STACKc[t] \in Seq(Int) /\ STACKc'[t] \in Seq(Int)
    BY <2>2 DEF CriticalInv, TypeOK
  <2>4. \A i \in 1..Len(STACKc[t]) : BlockAt(STACKc[t], i)
    BY DEF CriticalInv, StackShape
  <2>5. LET top == STACKc[t][Len(STACKc[t])]
            r   == STACKc'[t]
        IN  /\ top \notin Critical =>
                 Len(r) > 0 /\ r[Len(r)] \in Label /\ ~Closing(r, Len(r))
            /\ top \in Critical /\ ~Closing(STACKc[t], Len(STACKc[t])) =>
                 Len(r) = 0 \/ Closing(r, Len(r))
            /\ Closing(STACKc[t], Len(STACKc[t])) => Len(r) > 0 /\ r[Len(r)] \notin Label
    BY <2>2, <2>3, <2>4, TopAfterPop
  <2>7. TopShapeOf(t)'
    BY <1>13, <2>1, <2>2, <2>5, PushedInt, LabelFacts, ConstantsAssumption
    DEF ReverseSlc, Goto, TopC, CriticalInv, TypeOK, TopShape, TopShapeOf, Label
  <2>8. \A u \in Thread : u # t => pc'[u] = pc[u] /\ cur'[u] = cur[u]
    BY <1>13 DEF ReverseSlc, Goto, CriticalInv, TypeOK
  <2>9. ASSUME NEW u \in Thread, u # t
        PROVE  TopShapeOf(u)'
    <3>1. /\ STACKc'[u] = STACKc[u] /\ pc'[u] = pc[u] /\ cur'[u] = cur[u]
          /\ pc[u] = "count" => a_l' = a_l
      BY <2>2, <2>8, <2>9, <2>a
    <3>2. TopShapeOf(u)
      BY DEF CriticalInv, TopShape
    <3> QED BY <3>1, <3>2 DEF TopShapeOf
  <2> QED BY <2>7, <2>9 DEF TopShape
<1>14. ASSUME NEW t \in Thread, LeaveReverse(t)
      PROVE  TopShape'
  <2> QED BY <1>14 DEF LeaveReverse, Goto, TopC, CriticalInv, TypeOK, TopShape, TopShapeOf
<1>15. ASSUME NEW t \in Thread, CloseReverse(t)
      PROVE  TopShape'
  <2>1. PopC(t) /\ STACKc[t] # <<>>
    BY <1>15, PoppedNonEmpty DEF CloseReverse
  <2>2. /\ STACKc' \in [Thread -> Seq(Int)]
        /\ \A u \in Thread : u # t => STACKc'[u] = STACKc[u]
        /\ Len(STACKc[t]) # 0
        /\ Len(STACKc'[t]) = Len(STACKc[t]) - 1
        /\ \A i \in 1..(Len(STACKc[t]) - 1) : STACKc'[t][i] = STACKc[t][i]
    BY <2>1, PopStep DEF CriticalInv
  <2>a. a_l' = a_l
    BY <1>15 DEF CloseReverse
  <2>3. STACKc[t] \in Seq(Int) /\ STACKc'[t] \in Seq(Int)
    BY <2>2 DEF CriticalInv, TypeOK
  <2>4. \A i \in 1..Len(STACKc[t]) : BlockAt(STACKc[t], i)
    BY DEF CriticalInv, StackShape
  <2>5. LET top == STACKc[t][Len(STACKc[t])]
            r   == STACKc'[t]
        IN  /\ top \notin Critical =>
                 Len(r) > 0 /\ r[Len(r)] \in Label /\ ~Closing(r, Len(r))
            /\ top \in Critical /\ ~Closing(STACKc[t], Len(STACKc[t])) =>
                 Len(r) = 0 \/ Closing(r, Len(r))
            /\ Closing(STACKc[t], Len(STACKc[t])) => Len(r) > 0 /\ r[Len(r)] \notin Label
    BY <2>2, <2>3, <2>4, TopAfterPop
  <2>7. TopShapeOf(t)'
    BY <1>15, <2>1, <2>2, <2>5, PushedInt, LabelFacts, ConstantsAssumption
    DEF CloseReverse, Goto, TopC, CriticalInv, TypeOK, TopShape, TopShapeOf, Label
  <2>8. \A u \in Thread : u # t => pc'[u] = pc[u] /\ cur'[u] = cur[u]
    BY <1>15 DEF CloseReverse, Goto, CriticalInv, TypeOK
  <2>9. ASSUME NEW u \in Thread, u # t
        PROVE  TopShapeOf(u)'
    <3>1. /\ STACKc'[u] = STACKc[u] /\ pc'[u] = pc[u] /\ cur'[u] = cur[u]
          /\ pc[u] = "count" => a_l' = a_l
      BY <2>2, <2>8, <2>9, <2>a
    <3>2. TopShapeOf(u)
      BY DEF CriticalInv, TopShape
    <3> QED BY <3>1, <3>2 DEF TopShapeOf
  <2> QED BY <2>7, <2>9 DEF TopShape
<1>16. ASSUME NEW t \in Thread, EndReverse(t)
      PROVE  TopShape'
  <2> QED BY <1>16 DEF EndReverse, Goto, CriticalInv, TypeOK, TopShape, TopShapeOf
<1>17. ASSUME CrossBarrier
      PROVE  TopShape'
  BY <1>17 DEF CrossBarrier, Goto, CriticalInv, TypeOK, TopShape, TopShapeOf, Closing
<1>18. CASE UNCHANGED vars
  BY <1>18 DEF vars, Goto, CriticalInv, TypeOK, TopShape, TopShapeOf, Closing
<1> QED
  BY <1>1, <1>2, <1>3, <1>4, <1>5, <1>6, <1>7, <1>8, <1>9, <1>10, <1>11, <1>12, <1>13, <1>14, <1>15, <1>16, <1>17, <1>18
  DEF Next, Forward, Backward, Terminated

(* Position i of the control stack of t holds a ticket. *)
TicketAt(t, i) == i \in 1..Len(STACKc[t]) /\ STACKc[t][i] \notin Label

(* A step that leaves the tickets of u where they are, with their owners. *)
SameTickets(u) ==
  \A i \in Nat :
    /\ TicketAt(u, i)' <=> TicketAt(u, i)
    /\ TicketAt(u, i) => STACKc'[u][i] = STACKc[u][i] /\ Owner(u, i)' = Owner(u, i)

(* Such a step that touches no counter and no ticket being counted either. *)
TicketsKept ==
  /\ \A u \in Thread : SameTickets(u)
  /\ a_l' = a_l
  /\ \A u \in Thread : pc[u] = "count" => pc'[u] = "count" /\ STACKc'[u] = STACKc[u]

(* A thread whose stack and construct do not change keeps its tickets. *)
LEMMA IdleKeeps ==
  ASSUME NEW u \in Thread, STACKc'[u] = STACKc[u], cur'[u] = cur[u]
  PROVE  SameTickets(u)
BY DEF SameTickets, TicketAt, Owner

(* A push keeps the tickets below it, and adds one only if it pushes one:  *)
(* the label behind a ticket is that of the construct its thread is in.    *)
LEMMA PushKeeps ==
  ASSUME CriticalInv, NEW t \in Thread, NEW e \in Int, PushC(t, e),
         Len(STACKc[t]) # 0 /\ STACKc[t][Len(STACKc[t])] \notin Label => e = cur[t]
  PROVE  /\ \A i \in 1..Len(STACKc[t]) :
              /\ STACKc'[t][i] = STACKc[t][i]
              /\ STACKc[t][i] \notin Label => Owner(t, i)' = Owner(t, i)
         /\ e \in Label => SameTickets(t)
<1> DEFINE s == STACKc[t]
           r == STACKc'[t]
<1>1. /\ s \in Seq(Int) /\ r \in Seq(Int)
      /\ Len(r) = Len(s) + 1
      /\ \A i \in 1..Len(s) : r[i] = s[i]
      /\ r[Len(s) + 1] = e
  BY PushStep DEF CriticalInv, TypeOK
<1>a. Len(s) \in Nat /\ Len(r) = Len(s) + 1
  BY <1>1
<1>2. ASSUME NEW i \in 1..Len(s), s[i] \notin Label
      PROVE  Owner(t, i)' = Owner(t, i)
  <2>1. CASE i < Len(s)
    <3>1. i + 1 \in 1..Len(s) /\ i < Len(r)
      BY <1>a, <2>1
    <3>2. r[i + 1] = s[i + 1]
      BY <1>1, <3>1
    <3> QED BY <2>1, <3>1, <3>2 DEF Owner
  <2>2. CASE i = Len(s)
    <3>1. i < Len(r) /\ ~(i < Len(s)) /\ Len(s) # 0
      BY <1>1, <2>2
    <3>2. r[i + 1] = e /\ e = cur[t]
      BY <1>1, <1>2, <2>2, <3>1
    <3> QED BY <3>1, <3>2 DEF Owner
  <2> QED BY <1>1, <2>1, <2>2
<1>3. ASSUME e \in Label
      PROVE  SameTickets(t)
  <2>1. \A i \in Nat : i \in 1..Len(r) <=> i \in 1..Len(s) \/ i = Len(s) + 1
    <3>1. PICK n \in Nat : n = Len(s)
      BY <1>1
    <3>2. \A i \in Nat : i \in 1..(n + 1) <=> i \in 1..n \/ i = n + 1
      OBVIOUS
    <3> QED BY <1>1, <3>1, <3>2
  <2>2. \A i \in Nat : TicketAt(t, i)' <=> TicketAt(t, i)
    BY <1>1, <1>3, <2>1 DEF TicketAt
  <2> QED BY <1>1, <1>2, <2>2 DEF SameTickets, TicketAt
<1> QED BY <1>1, <1>2, <1>3

(* A pop keeps the tickets below the top: a ticket that comes to lie on    *)
(* top is that of the construct whose label was popped.                    *)
LEMMA PopKeeps ==
  ASSUME CriticalInv, NEW t \in Thread, PopC(t), STACKc[t] # <<>>,
         Closing(STACKc[t], Len(STACKc[t])) => cur'[t] = STACKc[t][Len(STACKc[t])]
  PROVE  /\ \A i \in 1..(Len(STACKc[t]) - 1) :
              /\ STACKc'[t][i] = STACKc[t][i]
              /\ STACKc[t][i] \notin Label => Owner(t, i)' = Owner(t, i)
         /\ STACKc[t][Len(STACKc[t])] \in Label => SameTickets(t)
<1> DEFINE s == STACKc[t]
           r == STACKc'[t]
<1>1. /\ s \in Seq(Int) /\ r \in Seq(Int)
      /\ Len(s) # 0
      /\ Len(r) = Len(s) - 1
      /\ \A i \in 1..(Len(s) - 1) : r[i] = s[i]
  BY PopStep DEF CriticalInv, TypeOK
<1>a. Len(s) \in Nat /\ Len(r) = Len(s) - 1 /\ Len(s) # 0
  BY <1>1
<1>2. ASSUME NEW i \in 1..(Len(s) - 1), s[i] \notin Label
      PROVE  Owner(t, i)' = Owner(t, i)
  <2>1. CASE i < Len(s) - 1
    <3>1. i + 1 \in 1..(Len(s) - 1) /\ i < Len(r) /\ i < Len(s)
      BY <1>a, <2>1
    <3>2. r[i + 1] = s[i + 1]
      BY <1>1, <3>1
    <3> QED BY <3>1, <3>2 DEF Owner
  <2>2. CASE i = Len(s) - 1
    <3>1. ~(i < Len(r)) /\ i < Len(s) /\ i + 1 = Len(s) /\ Len(s) > 1
      BY <1>1, <2>2
    <3>2. Closing(s, Len(s))
      BY <1>2, <2>2, <3>1 DEF Closing
    <3> QED BY <3>1, <3>2 DEF Owner
  <2>3. i < Len(s) - 1 \/ i = Len(s) - 1
    BY <1>a
  <2> QED BY <2>1, <2>2, <2>3
<1>3. ASSUME s[Len(s)] \in Label
      PROVE  SameTickets(t)
  <2>1. \A i \in Nat : i \in 1..Len(s) <=> i \in 1..(Len(s) - 1) \/ i = Len(s)
    <3>1. PICK n \in Nat : n = Len(s)
      BY <1>1
    <3>2. n # 0
      BY <1>1, <3>1
    <3>3. \A i \in Nat : i \in 1..n <=> i \in 1..(n - 1) \/ i = n
      BY <3>2
    <3> QED BY <3>1, <3>3
  <2>2. ASSUME NEW i \in Nat
        PROVE  TicketAt(t, i)' <=> TicketAt(t, i)
    <3>1. i \in 1..Len(r) <=> i \in 1..(Len(s) - 1)
      BY <1>1
    <3> QED BY <1>1, <1>3, <2>1, <3>1 DEF TicketAt
  <2>3. \A i \in Nat : TicketAt(t, i) => i \in 1..(Len(s) - 1)
    BY <1>3, <2>1 DEF TicketAt
  <2> QED BY <1>1, <1>2, <2>2, <2>3 DEF SameTickets, TicketAt
<1> QED BY <1>1, <1>2, <1>3

(* In front of a construct the stack of a thread has no ticket on top. *)
LEMMA NoTicketOnTop ==
  ASSUME CriticalInv, NEW t \in Thread, pc[t] \in {"forward", "enter", "body", "replay"},
         Len(STACKc[t]) # 0
  PROVE  STACKc[t][Len(STACKc[t])] \in Label
<1>1. STACKc[t] \in Seq(Int)
  BY DEF CriticalInv, TypeOK
<1>2. Len(STACKc[t]) \in 1..Len(STACKc[t])
  BY <1>1
<1>3. BlockAt(STACKc[t], Len(STACKc[t]))
  BY <1>2 DEF CriticalInv, StackShape
<1> QED BY <1>1, <1>3 DEF CriticalInv, TopShape, TopShapeOf, BlockAt, Closing, Label

(* A ticket on a stack has a construct as its owner. *)
LEMMA OwnerIsConstruct ==
  ASSUME CriticalInv, NEW t \in Thread, NEW i \in Nat, TicketAt(t, i)
  PROVE  /\ Owner(t, i) \in Critical
         /\ a_l[Owner(t, i)] \in Int /\ CounterInit[Owner(t, i)] \in Int
         /\ STACKc[t][i] \in Int
<1>1. STACKc[t] \in Seq(Int) /\ i \in 1..Len(STACKc[t]) /\ STACKc[t][i] \notin Label
  BY DEF CriticalInv, TypeOK, TicketAt
<1>2. CASE i < Len(STACKc[t])
  <2>1. i + 1 \in 1..Len(STACKc[t]) /\ i + 1 # 1 /\ i + 1 - 1 = i
    BY <1>1, <1>2
  <2>2. BlockAt(STACKc[t], i + 1)
    BY <2>1 DEF CriticalInv, StackShape
  <2>3. STACKc[t][i + 1] \in Critical
    BY <1>1, <2>1, <2>2 DEF BlockAt
  <2> QED BY <1>1, <1>2, <2>3, LabelFacts DEF Owner, CriticalInv, TypeOK
<1>3. CASE i = Len(STACKc[t])
  <2>1. Len(STACKc[t]) # 0
    BY <1>1, <1>3
  <2>2. pc[t] \notin {"forward", "enter", "body", "replay"}
    BY <1>1, <1>3, <2>1, NoTicketOnTop
  <2>3. pc[t] \notin {"barrier", "reverse", "done"}
    <3>1. Len(STACKc[t]) \in 1..Len(STACKc[t])
      BY <1>1, <1>3
    <3>2. BlockAt(STACKc[t], Len(STACKc[t]))
      BY <3>1 DEF CriticalInv, StackShape
    <3> QED BY <1>1, <1>3, <2>1, <3>2 DEF CriticalInv, TopShape, TopShapeOf, BlockAt, Closing, Label
  <2>4. cur[t] \in Critical
    BY <2>2, <2>3 DEF CriticalInv, InSection
  <2>5. Owner(t, i) = cur[t]
    BY <1>1, <1>3 DEF Owner
  <2>6. a_l[cur[t]] \in Int /\ CounterInit[cur[t]] \in Int
    <3>1. CounterInit[cur[t]] \in Nat
      BY <2>4, LabelFacts
    <3> QED BY <2>4, <3>1 DEF CriticalInv, TypeOK
  <2>7. STACKc[t][i] \in Int
    BY <1>1
  <2> QED BY <2>4, <2>5, <2>6, <2>7
<1> QED BY <1>1, <1>2, <1>3

(* Every step keeps the tickets, but for the three that deal with them. *)
LEMMA KeptOrTicket ==
  ASSUME CriticalInv, [Next]_vars
  PROVE  TicketsKept \/ \E t \in Thread : IssueTicket(t) \/ CountTicket(t) \/ TakeTurn(t)
<1>1. ASSUME NEW t \in Thread, NEW l \in Critical, OpenSection(t, l)
      PROVE  TicketsKept
  <2>1. PushC(t, l) /\ l \in Int /\ l \in Label
    BY <1>1, PushedInt DEF OpenSection, Label
  <2>2. Len(STACKc[t]) # 0 /\ STACKc[t][Len(STACKc[t])] \notin Label => l = cur[t]
    BY <1>1, NoTicketOnTop DEF OpenSection
  <2>3. SameTickets(t)
    BY <2>1, <2>2, PushKeeps
  <2>4. /\ a_l' = a_l
        /\ \A u \in Thread : u # t => STACKc'[u] = STACKc[u] /\ pc'[u] = pc[u] /\ cur'[u] = cur[u]
    BY <1>1 DEF OpenSection, PushC, PopC, Goto, CriticalInv, TypeOK
  <2>5. \A u \in Thread : u # t => SameTickets(u)
    BY <2>4, IdleKeeps
  <2>6. pc[t] # "count"
    BY <1>1 DEF OpenSection
  <2> QED BY <2>3, <2>4, <2>5, <2>6 DEF TicketsKept
<1>2. ASSUME NEW t \in Thread, EnterSection(t)
      PROVE  TicketsKept
  <2>1. a_l' = a_l /\ STACKc' = STACKc /\ cur' = cur
    BY <1>2 DEF EnterSection
  <2>2. \A u \in Thread : pc[u] = "count" => pc'[u] = "count"
    BY <1>2 DEF EnterSection, Goto, CriticalInv, TypeOK
  <2> QED BY <2>1, <2>2, IdleKeeps DEF TicketsKept
<1>3. ASSUME NEW t \in Thread, NEW s \in Slc, NEW v \in Value, ForwardSlc(t, s, v)
      PROVE  TicketsKept
  <2>1. PushC(t, s) /\ s \in Int /\ s \in Label
    BY <1>3, PushedInt DEF ForwardSlc, Label
  <2>2. Len(STACKc[t]) # 0 /\ STACKc[t][Len(STACKc[t])] \notin Label => s = cur[t]
    BY <1>3, NoTicketOnTop DEF ForwardSlc
  <2>3. SameTickets(t)
    BY <2>1, <2>2, PushKeeps
  <2>4. /\ a_l' = a_l
        /\ \A u \in Thread : u # t => STACKc'[u] = STACKc[u] /\ pc'[u] = pc[u] /\ cur'[u] = cur[u]
    BY <1>3 DEF ForwardSlc, PushC, PopC, Goto, CriticalInv, TypeOK
  <2>5. \A u \in Thread : u # t => SameTickets(u)
    BY <2>4, IdleKeeps
  <2>6. pc[t] # "count"
    BY <1>3 DEF ForwardSlc
  <2> QED BY <2>3, <2>4, <2>5, <2>6 DEF TicketsKept
<1>4. ASSUME NEW t \in Thread, LeaveSection(t)
      PROVE  TicketsKept
  <2>1. a_l' = a_l /\ STACKc' = STACKc /\ cur' = cur
    BY <1>4 DEF LeaveSection
  <2>2. \A u \in Thread : pc[u] = "count" => pc'[u] = "count"
    BY <1>4 DEF LeaveSection, Goto, CriticalInv, TypeOK
  <2> QED BY <2>1, <2>2, IdleKeeps DEF TicketsKept
<1>5. ASSUME NEW t \in Thread, CloseSection(t)
      PROVE  TicketsKept
  <2>1. PushC(t, cur[t]) /\ cur[t] \in Int /\ cur[t] \in Label
    BY <1>5, PushedInt DEF CloseSection, Label
  <2>2. Len(STACKc[t]) # 0 /\ STACKc[t][Len(STACKc[t])] \notin Label => cur[t] = cur[t]
    BY <1>5, NoTicketOnTop DEF CloseSection
  <2>3. SameTickets(t)
    BY <2>1, <2>2, PushKeeps
  <2>4. /\ a_l' = a_l
        /\ \A u \in Thread : u # t => STACKc'[u] = STACKc[u] /\ pc'[u] = pc[u] /\ cur'[u] = cur[u]
    BY <1>5 DEF CloseSection, PushC, PopC, Goto, CriticalInv, TypeOK
  <2>5. \A u \in Thread : u # t => SameTickets(u)
    BY <2>4, IdleKeeps
  <2>6. pc[t] # "count"
    BY <1>5 DEF CloseSection
  <2> QED BY <2>3, <2>4, <2>5, <2>6 DEF TicketsKept
<1>6. ASSUME NEW t \in Thread, EndForward(t)
      PROVE  TicketsKept
  <2>1. a_l' = a_l /\ STACKc' = STACKc /\ cur' = cur
    BY <1>6 DEF EndForward
  <2>2. \A u \in Thread : pc[u] = "count" => pc'[u] = "count"
    BY <1>6 DEF EndForward, Goto, CriticalInv, TypeOK
  <2> QED BY <2>1, <2>2, IdleKeeps DEF TicketsKept
<1>7. ASSUME NEW t \in Thread, OpenReverse(t)
      PROVE  TicketsKept
  <2>1. PopC(t) /\ STACKc[t] # <<>>
    BY <1>7, PoppedNonEmpty DEF OpenReverse
  <2>2. STACKc[t][Len(STACKc[t])] \in Label
    BY <1>7, <2>1, PushedInt DEF OpenReverse, TopC, Label
  <2>3. SameTickets(t)
    BY <1>7, <2>1, <2>2, PopKeeps DEF OpenReverse, TopC, CriticalInv, TypeOK, TopShape, TopShapeOf
  <2>4. /\ a_l' = a_l
        /\ \A u \in Thread : u # t => STACKc'[u] = STACKc[u] /\ pc'[u] = pc[u] /\ cur'[u] = cur[u]
    BY <1>7 DEF OpenReverse, PushC, PopC, Goto, CriticalInv, TypeOK
  <2>5. \A u \in Thread : u # t => SameTickets(u)
    BY <2>4, IdleKeeps
  <2>6. pc[t] # "count"
    BY <1>7 DEF OpenReverse
  <2> QED BY <2>3, <2>4, <2>5, <2>6 DEF TicketsKept
<1>8. ASSUME NEW t \in Thread, AskForTurn(t)
      PROVE  TicketsKept
  <2>1. a_l' = a_l /\ STACKc' = STACKc /\ cur' = cur
    BY <1>8 DEF AskForTurn
  <2>2. \A u \in Thread : pc[u] = "count" => pc'[u] = "count"
    BY <1>8 DEF AskForTurn, Goto, CriticalInv, TypeOK
  <2> QED BY <2>1, <2>2, IdleKeeps DEF TicketsKept
<1>9. ASSUME NEW t \in Thread, NotMyTurn(t)
      PROVE  TicketsKept
  <2>1. a_l' = a_l /\ STACKc' = STACKc /\ cur' = cur
    BY <1>9 DEF NotMyTurn
  <2>2. \A u \in Thread : pc[u] = "count" => pc'[u] = "count"
    BY <1>9 DEF NotMyTurn, Goto, CriticalInv, TypeOK
  <2> QED BY <2>1, <2>2, IdleKeeps DEF TicketsKept
<1>10. ASSUME NEW t \in Thread, ReverseSlc(t)
      PROVE  TicketsKept
  <2>1. PopC(t) /\ STACKc[t] # <<>>
    BY <1>10, PoppedNonEmpty DEF ReverseSlc
  <2>2. STACKc[t][Len(STACKc[t])] \in Label
    BY <1>10, <2>1, PushedInt DEF ReverseSlc, TopC, Label
  <2>3. SameTickets(t)
    BY <1>10, <2>1, <2>2, PopKeeps DEF ReverseSlc, TopC, CriticalInv, TypeOK, TopShape, TopShapeOf
  <2>4. /\ a_l' = a_l
        /\ \A u \in Thread : u # t => STACKc'[u] = STACKc[u] /\ pc'[u] = pc[u] /\ cur'[u] = cur[u]
    BY <1>10 DEF ReverseSlc, PushC, PopC, Goto, CriticalInv, TypeOK
  <2>5. \A u \in Thread : u # t => SameTickets(u)
    BY <2>4, IdleKeeps
  <2>6. pc[t] # "count"
    BY <1>10 DEF ReverseSlc
  <2> QED BY <2>3, <2>4, <2>5, <2>6 DEF TicketsKept
<1>11. ASSUME NEW t \in Thread, LeaveReverse(t)
      PROVE  TicketsKept
  <2>1. a_l' = a_l /\ STACKc' = STACKc /\ cur' = cur
    BY <1>11 DEF LeaveReverse
  <2>2. \A u \in Thread : pc[u] = "count" => pc'[u] = "count"
    BY <1>11 DEF LeaveReverse, Goto, CriticalInv, TypeOK
  <2> QED BY <2>1, <2>2, IdleKeeps DEF TicketsKept
<1>12. ASSUME NEW t \in Thread, CloseReverse(t)
      PROVE  TicketsKept
  <2>1. PopC(t) /\ STACKc[t] # <<>>
    BY <1>12, PoppedNonEmpty DEF CloseReverse
  <2>2. STACKc[t][Len(STACKc[t])] \in Label
    BY <1>12, <2>1, PushedInt DEF CloseReverse, TopC, Label
  <2>3. SameTickets(t)
    BY <1>12, <2>1, <2>2, PopKeeps DEF CloseReverse, TopC, CriticalInv, TypeOK, TopShape, TopShapeOf
  <2>4. /\ a_l' = a_l
        /\ \A u \in Thread : u # t => STACKc'[u] = STACKc[u] /\ pc'[u] = pc[u] /\ cur'[u] = cur[u]
    BY <1>12 DEF CloseReverse, PushC, PopC, Goto, CriticalInv, TypeOK
  <2>5. \A u \in Thread : u # t => SameTickets(u)
    BY <2>4, IdleKeeps
  <2>6. pc[t] # "count"
    BY <1>12 DEF CloseReverse
  <2> QED BY <2>3, <2>4, <2>5, <2>6 DEF TicketsKept
<1>13. ASSUME NEW t \in Thread, EndReverse(t)
      PROVE  TicketsKept
  <2>1. a_l' = a_l /\ STACKc' = STACKc /\ cur' = cur
    BY <1>13 DEF EndReverse
  <2>2. \A u \in Thread : pc[u] = "count" => pc'[u] = "count"
    BY <1>13 DEF EndReverse, Goto, CriticalInv, TypeOK
  <2> QED BY <2>1, <2>2, IdleKeeps DEF TicketsKept
<1>14. ASSUME CrossBarrier
      PROVE  TicketsKept
  <2>1. a_l' = a_l /\ STACKc' = STACKc /\ cur' = cur
    BY <1>14 DEF CrossBarrier
  <2>2. \A u \in Thread : pc[u] = "count" => pc'[u] = "count"
    BY <1>14 DEF CrossBarrier, Goto, CriticalInv, TypeOK
  <2> QED BY <2>1, <2>2, IdleKeeps DEF TicketsKept
<1>15. CASE UNCHANGED vars
  BY <1>15, IdleKeeps DEF vars, TicketsKept
<1> QED
  BY <1>1, <1>2, <1>3, <1>4, <1>5, <1>6, <1>7, <1>8, <1>9, <1>10, <1>11, <1>12, <1>13, <1>14, <1>15
  DEF Next, Forward, Backward, Terminated

(* The thread that issues a ticket adds it on top, for its construct. *)
LEMMA IssueFacts ==
  ASSUME CriticalInv, NEW t \in Thread, IssueTicket(t)
  PROVE  /\ cur[t] \in Critical /\ a_l[cur[t]] \in Int
         /\ a_l' = a_l /\ cur' = cur
         /\ STACKc[t] \in Seq(Int) /\ STACKc'[t] \in Seq(Int)
         /\ Len(STACKc'[t]) = Len(STACKc[t]) + 1
         /\ STACKc'[t][Len(STACKc[t]) + 1] = a_l[cur[t]]
         /\ Owner(t, Len(STACKc[t]) + 1)' = cur[t]
         /\ \A i \in 1..Len(STACKc[t]) :
              /\ STACKc'[t][i] = STACKc[t][i]
              /\ STACKc[t][i] \notin Label => Owner(t, i)' = Owner(t, i)
         /\ \A u \in Thread : u # t => SameTickets(u) /\ STACKc'[u] = STACKc[u]
         /\ \A u \in Thread : pc[u] # "count"
         /\ pc'[t] = "count"
<1>1. cur[t] \in Critical /\ a_l[cur[t]] \in Int /\ PushC(t, a_l[cur[t]])
  BY PushedInt DEF IssueTicket
<1>2. /\ STACKc[t] \in Seq(Int) /\ STACKc' \in [Thread -> Seq(Int)]
      /\ \A u \in Thread : u # t => STACKc'[u] = STACKc[u]
      /\ Len(STACKc'[t]) = Len(STACKc[t]) + 1
      /\ STACKc'[t][Len(STACKc[t]) + 1] = a_l[cur[t]]
  BY <1>1, PushStep DEF CriticalInv, TypeOK
<1>3. Len(STACKc[t]) # 0 => STACKc[t][Len(STACKc[t])] \in Label
  BY NoTicketOnTop DEF IssueTicket
<1>4. \A i \in 1..Len(STACKc[t]) :
        /\ STACKc'[t][i] = STACKc[t][i]
        /\ STACKc[t][i] \notin Label => Owner(t, i)' = Owner(t, i)
  BY <1>1, <1>3, PushKeeps
<1>5. a_l' = a_l /\ cur' = cur /\ pc'[t] = "count"
  BY DEF IssueTicket, Goto, CriticalInv, TypeOK
<1>6. Owner(t, Len(STACKc[t]) + 1)' = cur[t]
  BY <1>2, <1>5 DEF Owner
<1>7. \A u \in Thread : u # t => SameTickets(u)
  BY <1>2, <1>5, IdleKeeps
<1>8. \A u \in Thread : pc[u] # "count"
  BY DEF IssueTicket, CriticalInv, LockHeld, Holding
<1> QED BY <1>1, <1>2, <1>4, <1>5, <1>6, <1>7, <1>8

(* The thread that takes its turn removes the last ticket counted for its  *)
(* construct, and every other ticket stays.                                *)
LEMMA TurnFacts ==
  ASSUME CriticalInv, NEW t \in Thread, TakeTurn(t)
  PROVE  /\ cur[t] \in Critical /\ a_l[cur[t]] \in Int
         /\ a_l' = [a_l EXCEPT ![cur[t]] = @ - 1] /\ cur' = cur
         /\ STACKc[t] \in Seq(Int) /\ STACKc'[t] \in Seq(Int)
         /\ Len(STACKc[t]) # 0 /\ Len(STACKc'[t]) = Len(STACKc[t]) - 1
         /\ STACKc[t][Len(STACKc[t])] = a_l[cur[t]] - 1
         /\ STACKc[t][Len(STACKc[t])] \notin Label
         /\ Owner(t, Len(STACKc[t])) = cur[t]
         /\ \A i \in 1..(Len(STACKc[t]) - 1) :
              /\ STACKc'[t][i] = STACKc[t][i]
              /\ STACKc[t][i] \notin Label => Owner(t, i)' = Owner(t, i)
         /\ \A u \in Thread : u # t => SameTickets(u) /\ STACKc'[u] = STACKc[u]
         /\ \A u \in Thread : pc[u] # "count"
<1>1. /\ cur[t] \in Critical /\ a_l[cur[t]] \in Int /\ PopC(t) /\ STACKc[t] # <<>>
      /\ a_l' = [a_l EXCEPT ![cur[t]] = @ - 1] /\ cur' = cur
  BY PushedInt, PoppedNonEmpty DEF TakeTurn
<1>2. /\ STACKc[t] \in Seq(Int) /\ STACKc' \in [Thread -> Seq(Int)]
      /\ \A u \in Thread : u # t => STACKc'[u] = STACKc[u]
      /\ Len(STACKc[t]) # 0 /\ Len(STACKc'[t]) = Len(STACKc[t]) - 1
  BY <1>1, PopStep DEF CriticalInv, TypeOK
<1>3. /\ STACKc[t][Len(STACKc[t])] = a_l[cur[t]] - 1
      /\ STACKc[t][Len(STACKc[t])] \notin Label
  BY <1>1 DEF TakeTurn, MyTurn, TopC, CriticalInv, TopShape, TopShapeOf
<1>4. Owner(t, Len(STACKc[t])) = cur[t]
  BY <1>2 DEF Owner
<1>5. ~Closing(STACKc[t], Len(STACKc[t]))
  <2>1. Len(STACKc[t]) \in 1..Len(STACKc[t])
    BY <1>2
  <2>2. BlockAt(STACKc[t], Len(STACKc[t]))
    BY <2>1 DEF CriticalInv, StackShape
  <2> QED BY <1>3, <2>2 DEF BlockAt, Closing, Label
<1>6. \A i \in 1..(Len(STACKc[t]) - 1) :
        /\ STACKc'[t][i] = STACKc[t][i]
        /\ STACKc[t][i] \notin Label => Owner(t, i)' = Owner(t, i)
  BY <1>1, <1>5, PopKeeps
<1>7. \A u \in Thread : u # t => SameTickets(u)
  BY <1>1, <1>2, IdleKeeps
<1>8. \A u \in Thread : pc[u] # "count"
  BY DEF TakeTurn, CriticalInv, LockHeld, Holding
<1> QED BY <1>1, <1>2, <1>3, <1>4, <1>6, <1>7, <1>8

(* The two ways a position of a pushed or popped stack reads. *)
LEMMA IndexSplit ==
  ASSUME NEW n \in Nat, NEW i \in Nat
  PROVE  /\ i \in 1..(n + 1) <=> i \in 1..n \/ i = n + 1
         /\ n # 0 => (i \in 1..n <=> i \in 1..(n - 1) \/ i = n)
OBVIOUS

(* The new tickets of an issuing thread, and the old ones of one that      *)
(* takes its turn.                                                         *)
LEMMA IssuedAt ==
  ASSUME CriticalInv, NEW t \in Thread, IssueTicket(t), NEW i \in Nat, i # Len(STACKc[t]) + 1
  PROVE  /\ TicketAt(t, i)' <=> TicketAt(t, i)
         /\ TicketAt(t, i) => STACKc'[t][i] = STACKc[t][i] /\ Owner(t, i)' = Owner(t, i)
<1>1. PICK n \in Nat : n = Len(STACKc[t])
  BY IssueFacts
<1>2. i \in 1..Len(STACKc'[t]) <=> i \in 1..Len(STACKc[t])
  <2>1. i \in 1..(n + 1) <=> i \in 1..n
    BY <1>1, IndexSplit
  <2>2. Len(STACKc'[t]) = n + 1
    BY <1>1, IssueFacts
  <2> QED BY <1>1, <2>1, <2>2
<1>3. i \in 1..Len(STACKc[t]) =>
        /\ STACKc'[t][i] = STACKc[t][i]
        /\ STACKc[t][i] \notin Label => Owner(t, i)' = Owner(t, i)
  BY IssueFacts
<1> QED BY <1>2, <1>3 DEF TicketAt

(* After its turn the stack of the thread holds its old tickets but one. *)
LEMMA TurnAt ==
  ASSUME CriticalInv, NEW t \in Thread, TakeTurn(t), NEW i \in Nat
  PROVE  /\ TicketAt(t, i)' <=> TicketAt(t, i) /\ i # Len(STACKc[t])
         /\ TicketAt(t, i)' => STACKc'[t][i] = STACKc[t][i] /\ Owner(t, i)' = Owner(t, i)
<1>1. PICK n \in Nat : n = Len(STACKc[t]) /\ n # 0
  BY TurnFacts
<1>2. i \in 1..Len(STACKc'[t]) <=> i \in 1..Len(STACKc[t]) /\ i # Len(STACKc[t])
  <2>1. i \in 1..(n - 1) <=> i \in 1..n /\ i # n
    BY <1>1
  <2>2. Len(STACKc'[t]) = n - 1
    BY <1>1, TurnFacts
  <2> QED BY <1>1, <2>1, <2>2
<1>3. i \in 1..Len(STACKc'[t]) =>
        /\ STACKc'[t][i] = STACKc[t][i]
        /\ STACKc[t][i] \notin Label => Owner(t, i)' = Owner(t, i)
  BY TurnFacts
<1> QED BY <1>2, <1>3 DEF TicketAt

(* The ticket invariants, said of the positions that hold a ticket. *)
LEMMA TicketFacts ==
  ASSUME CriticalInv
  PROVE  /\ \A t \in Thread, i \in Nat : TicketAt(t, i) => TicketBounded(t, i)
         /\ \A t, u \in Thread, i, j \in Nat :
              /\ TicketAt(t, i) /\ TicketAt(u, j)
              /\ STACKc[t][i] = STACKc[u][j] /\ Owner(t, i) = Owner(u, j)
              => t = u /\ i = j
         /\ \A l \in Critical : \A n \in Issued(l) :
              \E t \in Thread, i \in Nat : TicketAt(t, i) /\ IsTicket(t, i, l, n)
<1>1. \A t \in Thread, i \in Nat : TicketAt(t, i) => TicketBounded(t, i)
  BY DEF CriticalInv, TicketsBounded, TicketAt
<1>2. \A t, u \in Thread, i, j \in Nat :
        /\ TicketAt(t, i) /\ TicketAt(u, j)
        /\ STACKc[t][i] = STACKc[u][j] /\ Owner(t, i) = Owner(u, j)
        => t = u /\ i = j
  BY DEF CriticalInv, TicketsUnique, TicketAt
<1>3. ASSUME NEW l \in Critical, NEW n \in Issued(l)
      PROVE  \E t \in Thread, i \in Nat : TicketAt(t, i) /\ IsTicket(t, i, l, n)
  <2>1. PICK t \in Thread : HasTicket(t, l, n)
    BY DEF CriticalInv, TicketsThere
  <2>2. PICK i \in 1..Len(STACKc[t]) : IsTicket(t, i, l, n)
    BY <2>1 DEF HasTicket
  <2>3. n \notin Label
    <3>1. CounterInit[l] \in Nat /\ a_l[l] \in Int
      BY LabelFacts DEF CriticalInv, TypeOK
    <3>2. n \in Int /\ n >= CounterInit[l] - 1
      BY <3>1 DEF Issued
    <3> QED BY <3>2, LabelFacts
  <2>4. i \in Nat
    BY DEF CriticalInv, TypeOK
  <2> QED BY <2>2, <2>3, <2>4 DEF TicketAt, IsTicket
<1> QED BY <1>1, <1>2, <1>3

(* Each ticket stays below its counter. *)
LEMMA BoundedStep ==
  ASSUME CriticalInv, [Next]_vars
  PROVE  TicketsBounded'
<1> SUFFICES ASSUME NEW u \in Thread, NEW i \in Nat, TicketAt(u, i)'
             PROVE  TicketBounded(u, i)'
  <2>1. STACKc' \in [Thread -> Seq(Int)]
    BY TypeStep DEF TypeOK
  <2>2. \A u \in Thread : \A i \in 1..Len(STACKc'[u]) : i \in Nat
    BY <2>1
  <2>3. \A u \in Thread : \A i \in 1..Len(STACKc'[u]) :
          STACKc'[u][i] \in Label => TicketBounded(u, i)'
    BY DEF TicketBounded
  <2> QED BY <2>2, <2>3 DEF TicketsBounded, TicketAt
<1>1. CASE TicketsKept
  <2>1. /\ TicketAt(u, i)
        /\ STACKc'[u][i] = STACKc[u][i] /\ Owner(u, i)' = Owner(u, i)
        /\ a_l' = a_l
        /\ pc[u] = "count" => pc'[u] = "count" /\ STACKc'[u] = STACKc[u]
    BY <1>1 DEF TicketsKept, SameTickets
  <2>2. TicketBounded(u, i)
    BY <2>1, TicketFacts
  <2> QED BY <2>1, <2>2 DEF TicketBounded
<1>2. ASSUME NEW t \in Thread, IssueTicket(t)
      PROVE  TicketBounded(u, i)'
  <2>1. a_l' = a_l /\ \A v \in Thread : pc[v] # "count"
    BY <1>2, IssueFacts
  <2>2. CASE u = t /\ i = Len(STACKc[t]) + 1
    <3>1. /\ cur[t] \in Critical /\ a_l[cur[t]] \in Int
          /\ STACKc'[t][i] = a_l[cur[t]] /\ Owner(t, i)' = cur[t]
          /\ Len(STACKc'[t]) = i /\ pc'[t] = "count"
      BY <1>2, <2>2, IssueFacts DEF Owner
    <3>2. CounterInit[cur[t]] <= a_l[cur[t]]
      BY <3>1 DEF CriticalInv, CountersBounded
    <3> QED BY <2>1, <2>2, <3>1, <3>2 DEF TicketBounded
  <2>3. CASE ~(u = t /\ i = Len(STACKc[t]) + 1)
    <3>1. TicketAt(u, i) /\ STACKc'[u][i] = STACKc[u][i] /\ Owner(u, i)' = Owner(u, i)
      <4>1. CASE u = t
        BY <1>2, <2>3, <4>1, IssuedAt
      <4>2. CASE u # t
        BY <1>2, <4>2, IssueFacts DEF SameTickets
      <4> QED BY <4>1, <4>2
    <3>2. TicketBounded(u, i)
      BY <3>1, TicketFacts
    <3> QED BY <2>1, <3>1, <3>2 DEF TicketBounded
  <2> QED BY <2>2, <2>3
<1>3. ASSUME NEW t \in Thread, CountTicket(t)
      PROVE  TicketBounded(u, i)'
  <2>1. /\ STACKc' = STACKc /\ cur' = cur /\ cur[t] \in Critical
        /\ a_l' = [a_l EXCEPT ![cur[t]] = @ + 1]
        /\ \A v \in Thread : pc[v] = "count" => v = t
    BY <1>3, PushedInt DEF CountTicket, CriticalInv, LockHeld, Holding
  <2>2. TicketAt(u, i) /\ STACKc'[u][i] = STACKc[u][i] /\ Owner(u, i)' = Owner(u, i)
    BY <2>1 DEF TicketAt, Owner
  <2>3. /\ TicketBounded(u, i)
        /\ Owner(u, i) \in Critical /\ STACKc[u][i] \in Int
        /\ a_l[Owner(u, i)] \in Int /\ CounterInit[Owner(u, i)] \in Int
    BY <2>2, TicketFacts, OwnerIsConstruct
  <2>4. /\ a_l[Owner(u, i)] <= a_l'[Owner(u, i)]
        /\ Owner(u, i) = cur[t] => a_l[Owner(u, i)] < a_l'[Owner(u, i)]
    <3>1. a_l \in [Critical -> Int]
      BY DEF CriticalInv, TypeOK
    <3> QED BY <2>1, <2>3, <3>1
  <2>5. i = Len(STACKc[u]) /\ pc[u] = "count" => Owner(u, i) = cur[t]
    BY <2>1 DEF Owner, CriticalInv, TypeOK
  <2>6. STACKc[u][i] \notin Label
    BY <2>2 DEF TicketAt
  <2>7. /\ CounterInit[Owner(u, i)] <= STACKc[u][i]
        /\ STACKc[u][i] < a_l[Owner(u, i)]
             \/ (STACKc[u][i] = a_l[Owner(u, i)] /\ Owner(u, i) = cur[t])
    BY <2>3, <2>5, <2>6 DEF TicketBounded
  <2>8. a_l'[Owner(u, i)] \in Int
    BY <2>1, <2>3 DEF CriticalInv, TypeOK
  <2>9. STACKc[u][i] < a_l'[Owner(u, i)]
    BY <2>3, <2>4, <2>7, <2>8
  <2> QED BY <2>2, <2>7, <2>9 DEF TicketBounded
<1>4. ASSUME NEW t \in Thread, TakeTurn(t)
      PROVE  TicketBounded(u, i)'
  <2>1. TicketAt(u, i) /\ STACKc'[u][i] = STACKc[u][i] /\ Owner(u, i)' = Owner(u, i)
    <3>1. CASE u = t
      BY <1>4, <3>1, TurnAt
    <3>2. CASE u # t
      BY <1>4, <3>2, TurnFacts DEF SameTickets
    <3> QED BY <3>1, <3>2
  <2>2. ~(u = t /\ i = Len(STACKc[t]))
    BY <1>4, TurnAt
  <2>3. /\ TicketBounded(u, i)
        /\ Owner(u, i) \in Critical /\ STACKc[u][i] \in Int
        /\ a_l[Owner(u, i)] \in Int /\ CounterInit[Owner(u, i)] \in Int
    BY <2>1, TicketFacts, OwnerIsConstruct
  <2>4. STACKc[u][i] \notin Label /\ pc[u] # "count"
    BY <1>4, <2>1, TurnFacts DEF TicketAt
  <2>5. CounterInit[Owner(u, i)] <= STACKc[u][i] /\ STACKc[u][i] < a_l[Owner(u, i)]
    BY <2>3, <2>4 DEF TicketBounded
  <2>6. Owner(u, i) = cur[t] => STACKc[u][i] # a_l[cur[t]] - 1
    <3>1. /\ Len(STACKc[t]) \in Nat /\ TicketAt(t, Len(STACKc[t]))
          /\ STACKc[t][Len(STACKc[t])] = a_l[cur[t]] - 1
          /\ Owner(t, Len(STACKc[t])) = cur[t]
      BY <1>4, TurnFacts DEF TicketAt
    <3> QED BY <2>1, <2>2, <3>1, TicketFacts
  <2>7. STACKc[u][i] < a_l'[Owner(u, i)]
    <3>1. /\ a_l' = [a_l EXCEPT ![cur[t]] = @ - 1] /\ a_l \in [Critical -> Int]
          /\ cur[t] \in Critical
      BY <1>4, TurnFacts DEF CriticalInv, TypeOK
    <3> QED BY <2>3, <2>5, <2>6, <3>1
  <2> QED BY <2>1, <2>5, <2>7 DEF TicketBounded
<1> QED BY <1>1, <1>2, <1>3, <1>4, KeptOrTicket

(* No two positions of the team's stacks hold the same ticket. *)
LEMMA UniqueStep ==
  ASSUME CriticalInv, [Next]_vars
  PROVE  TicketsUnique'
<1> SUFFICES ASSUME NEW u \in Thread, NEW v \in Thread, NEW i \in Nat, NEW j \in Nat,
                    TicketAt(u, i)', TicketAt(v, j)',
                    STACKc'[u][i] = STACKc'[v][j], Owner(u, i)' = Owner(v, j)'
             PROVE  u = v /\ i = j
  BY TypeStep DEF TicketsUnique, TicketAt, TypeOK
<1>1. CASE TicketsKept
  <2>1. /\ TicketAt(u, i) /\ STACKc'[u][i] = STACKc[u][i] /\ Owner(u, i)' = Owner(u, i)
        /\ TicketAt(v, j) /\ STACKc'[v][j] = STACKc[v][j] /\ Owner(v, j)' = Owner(v, j)
    BY <1>1 DEF TicketsKept, SameTickets
  <2> QED BY <2>1, TicketFacts
<1>2. ASSUME NEW t \in Thread, IssueTicket(t)
      PROVE  u = v /\ i = j
  <2> DEFINE New(w, k) == w = t /\ k = Len(STACKc[t]) + 1
  <2>1. ASSUME NEW w \in Thread, NEW k \in Nat, TicketAt(w, k)', ~New(w, k)
        PROVE  TicketAt(w, k) /\ STACKc'[w][k] = STACKc[w][k] /\ Owner(w, k)' = Owner(w, k)
    <3>1. CASE w = t
      BY <1>2, <2>1, <3>1, IssuedAt
    <3>2. CASE w # t
      BY <1>2, <2>1, <3>2, IssueFacts DEF SameTickets
    <3> QED BY <3>1, <3>2
  <2>2. ASSUME NEW w \in Thread, NEW k \in Nat, TicketAt(w, k)', ~New(w, k),
               Owner(w, k)' = cur[t]
        PROVE  STACKc'[w][k] # a_l[cur[t]]
    <3>1. /\ TicketAt(w, k) /\ STACKc'[w][k] = STACKc[w][k] /\ Owner(w, k) = cur[t]
      BY <2>1, <2>2
    <3>2. TicketBounded(w, k) /\ STACKc[w][k] \in Int /\ a_l[cur[t]] \in Int
      BY <3>1, TicketFacts, OwnerIsConstruct
    <3>3. pc[w] # "count" /\ STACKc[w][k] \notin Label
      BY <1>2, <3>1, IssueFacts DEF TicketAt
    <3> QED BY <3>1, <3>2, <3>3 DEF TicketBounded
  <2>3. \A w \in Thread, k \in Nat :
          New(w, k) => STACKc'[w][k] = a_l[cur[t]] /\ Owner(w, k)' = cur[t]
    BY <1>2, IssueFacts DEF Owner
  <2>4. CASE New(u, i) /\ New(v, j)
    BY <2>4
  <2>5. CASE New(u, i) /\ ~New(v, j)
    BY <2>2, <2>3, <2>5
  <2>6. CASE ~New(u, i) /\ New(v, j)
    BY <2>2, <2>3, <2>6
  <2>7. CASE ~New(u, i) /\ ~New(v, j)
    <3>1. /\ TicketAt(u, i) /\ STACKc'[u][i] = STACKc[u][i] /\ Owner(u, i)' = Owner(u, i)
          /\ TicketAt(v, j) /\ STACKc'[v][j] = STACKc[v][j] /\ Owner(v, j)' = Owner(v, j)
      BY <2>1, <2>7
    <3> QED BY <3>1, TicketFacts
  <2> QED BY <2>4, <2>5, <2>6, <2>7
<1>3. ASSUME NEW t \in Thread, CountTicket(t)
      PROVE  u = v /\ i = j
  <2>1. STACKc' = STACKc /\ cur' = cur
    BY <1>3 DEF CountTicket
  <2>2. /\ TicketAt(u, i) /\ TicketAt(v, j)
        /\ STACKc[u][i] = STACKc[v][j] /\ Owner(u, i) = Owner(v, j)
    BY <2>1 DEF TicketAt, Owner
  <2> QED BY <2>2, TicketFacts
<1>4. ASSUME NEW t \in Thread, TakeTurn(t)
      PROVE  u = v /\ i = j
  <2>1. ASSUME NEW w \in Thread, NEW k \in Nat, TicketAt(w, k)'
        PROVE  TicketAt(w, k) /\ STACKc'[w][k] = STACKc[w][k] /\ Owner(w, k)' = Owner(w, k)
    <3>1. CASE w = t
      BY <1>4, <2>1, <3>1, TurnAt
    <3>2. CASE w # t
      BY <1>4, <2>1, <3>2, TurnFacts DEF SameTickets
    <3> QED BY <3>1, <3>2
  <2>2. /\ TicketAt(u, i) /\ STACKc'[u][i] = STACKc[u][i] /\ Owner(u, i)' = Owner(u, i)
        /\ TicketAt(v, j) /\ STACKc'[v][j] = STACKc[v][j] /\ Owner(v, j)' = Owner(v, j)
    BY <2>1
  <2> QED BY <2>2, TicketFacts
<1> QED BY <1>1, <1>2, <1>3, <1>4, KeptOrTicket

(* No ticket that was counted is lost before its turn comes. *)
LEMMA ThereStep ==
  ASSUME CriticalInv, [Next]_vars
  PROVE  TicketsThere'
<1> SUFFICES ASSUME NEW l \in Critical, NEW n \in Issued(l)'
             PROVE  \E t \in Thread, i \in Nat : TicketAt(t, i)' /\ IsTicket(t, i, l, n)'
  BY DEF TicketsThere, HasTicket, TicketAt
<1>a. a_l[l] \in Int /\ CounterInit[l] \in Nat
  BY LabelFacts DEF CriticalInv, TypeOK
<1>1. CASE TicketsKept
  <2>1. n \in Issued(l)
    BY <1>1 DEF TicketsKept, Issued
  <2>2. PICK t \in Thread, i \in Nat : TicketAt(t, i) /\ IsTicket(t, i, l, n)
    BY <2>1, TicketFacts
  <2> QED BY <1>1, <2>2 DEF TicketsKept, SameTickets, IsTicket
<1>2. ASSUME NEW t \in Thread, IssueTicket(t)
      PROVE  \E u \in Thread, i \in Nat : TicketAt(u, i)' /\ IsTicket(u, i, l, n)'
  <2>1. n \in Issued(l)
    BY <1>2, IssueFacts DEF Issued
  <2>2. PICK u \in Thread, i \in Nat : TicketAt(u, i) /\ IsTicket(u, i, l, n)
    BY <2>1, TicketFacts
  <2>3. CASE u = t
    <3>1. i # Len(STACKc[t]) + 1
      BY <1>2, <2>2, <2>3, IssueFacts DEF TicketAt
    <3> QED BY <1>2, <2>2, <2>3, <3>1, IssuedAt DEF IsTicket
  <2>4. CASE u # t
    BY <1>2, <2>2, <2>4, IssueFacts DEF SameTickets, IsTicket
  <2> QED BY <2>3, <2>4
<1>3. ASSUME NEW t \in Thread, CountTicket(t)
      PROVE  \E u \in Thread, i \in Nat : TicketAt(u, i)' /\ IsTicket(u, i, l, n)'
  <2>1. /\ STACKc' = STACKc /\ cur' = cur /\ cur[t] \in Critical
        /\ a_l' = [a_l EXCEPT ![cur[t]] = @ + 1] /\ a_l \in [Critical -> Int]
    BY <1>3, PushedInt DEF CountTicket, CriticalInv, TypeOK
  <2>2. CASE n \in Issued(l)
    <3>1. PICK u \in Thread, i \in Nat : TicketAt(u, i) /\ IsTicket(u, i, l, n)
      BY <2>2, TicketFacts
    <3> QED BY <2>1, <3>1 DEF TicketAt, IsTicket, Owner
  <2>3. CASE n \notin Issued(l)
    <3>1. l = cur[t] /\ n = a_l[l]
      BY <1>a, <2>1, <2>3 DEF Issued
    <3>2. /\ STACKc[t] \in Seq(Int) /\ Len(STACKc[t]) > 0
          /\ STACKc[t][Len(STACKc[t])] = n /\ n \notin Label
      BY <1>3, <3>1 DEF CountTicket, CriticalInv, TypeOK, TopShape, TopShapeOf
    <3>3. Owner(t, Len(STACKc[t])) = l
      BY <3>1, <3>2 DEF Owner
    <3>4. Len(STACKc[t]) \in Nat /\ Len(STACKc[t]) \in 1..Len(STACKc[t])
      BY <3>2
    <3>5. TicketAt(t, Len(STACKc[t])) /\ IsTicket(t, Len(STACKc[t]), l, n)
      BY <3>2, <3>3, <3>4 DEF TicketAt, IsTicket
    <3>6. PICK i \in Nat : TicketAt(t, i) /\ IsTicket(t, i, l, n)
      BY <3>4, <3>5
    <3> QED BY <2>1, <3>6 DEF TicketAt, IsTicket, Owner
  <2> QED BY <2>2, <2>3
<1>4. ASSUME NEW t \in Thread, TakeTurn(t)
      PROVE  \E u \in Thread, i \in Nat : TicketAt(u, i)' /\ IsTicket(u, i, l, n)'
  <2>1. /\ cur[t] \in Critical /\ a_l[cur[t]] \in Int /\ a_l \in [Critical -> Int]
        /\ a_l' = [a_l EXCEPT ![cur[t]] = @ - 1]
    BY <1>4, TurnFacts DEF CriticalInv, TypeOK
  <2>2. n \in Issued(l) /\ (l = cur[t] => n # a_l[cur[t]] - 1)
    BY <1>a, <2>1 DEF Issued
  <2>3. PICK u \in Thread, i \in Nat : TicketAt(u, i) /\ IsTicket(u, i, l, n)
    BY <2>2, TicketFacts
  <2>4. CASE u = t
    <3>1. i # Len(STACKc[t])
      BY <1>4, <2>2, <2>3, <2>4, TurnFacts DEF IsTicket
    <3> QED BY <1>4, <2>3, <2>4, <3>1, TurnAt DEF IsTicket
  <2>5. CASE u # t
    BY <1>4, <2>3, <2>5, TurnFacts DEF SameTickets, IsTicket
  <2> QED BY <2>4, <2>5
<1> QED BY <1>1, <1>2, <1>3, <1>4, KeptOrTicket

(* The region is entered with empty stacks, free lock and no ticket. *)
LEMMA InitCriticalInv == Init => CriticalInv
<1> SUFFICES ASSUME Init
             PROVE  CriticalInv
  OBVIOUS
<1>1. TypeOK
  BY ConstantsAssumption DEF Init, TypeOK, ForwardAt
<1>2. LockHeld /\ InSection /\ PhaseShared
  BY ConstantsAssumption DEF Init, LockHeld, InSection, PhaseShared, reversing, Holding, ReverseAt
<1>3. CountersBounded
  BY LabelFacts DEF Init, CountersBounded
<1>4. \A t \in Thread : STACKc[t] = <<>> /\ STACKf[t] = <<>> /\ pc[t] = "forward"
  BY DEF Init
<1>5. StacksAligned
  <2>1. Pieces(<<>>) = {}
    BY DEF Pieces
  <2>2. Cardinality(Pieces(<<>>)) = 0
    BY <2>1, FS_EmptySet
  <2> QED BY <1>4, <2>2 DEF StacksAligned
<1>6. StackShape /\ TopShape
  BY <1>4 DEF StackShape, TopShape, TopShapeOf
<1>7. TicketsBounded /\ TicketsUnique
  BY <1>4 DEF TicketsBounded, TicketsUnique
<1>8. TicketsThere
  <2>1. \A l \in Critical : Issued(l) = {}
    BY LabelFacts DEF Init, Issued
  <2> QED BY <2>1 DEF TicketsThere
<1> QED BY <1>1, <1>2, <1>3, <1>5, <1>6, <1>7, <1>8 DEF CriticalInv

(* Every step of the team keeps the invariant. *)
LEMMA NextCriticalInv ==
  ASSUME CriticalInv, [Next]_vars
  PROVE  CriticalInv'
BY LockStep, InSectionStep, PhaseStep, TypeStep, CountersStep, AlignedStep,
   ShapeStep, TopStep, BoundedStep, UniqueStep, ThereStep
DEF CriticalInv

(* The inductive invariant: the lock protects the counters, a control      *)
(* stack is a row of blocks label-pieces-ticket-label, and the tickets     *)
(* counted so far lie on the stacks of the team, each once.                *)
THEOREM CriticalInvariant == Spec => []CriticalInv
<1>1. Init => CriticalInv
  BY InitCriticalInv
<1>2. CriticalInv /\ [Next]_vars => CriticalInv'
  BY NextCriticalInv
<1> QED BY <1>1, <1>2, PTL DEF Spec

(* The values of the generated code's variables stay in their types: no    *)
(* step pops an empty stack or restores something that was not saved.      *)
THEOREM TypeCorrect == Spec => []TypeOK
<1>1. CriticalInv => TypeOK
  BY DEF CriticalInv
<1> QED BY <1>1, CriticalInvariant, PTL

(* The float stack of a thread and its control stack stay aligned, however *)
(* the bodies of the constructs interleave.                                *)
THEOREM StacksStayAligned == Spec => []StacksAligned
<1>1. CriticalInv => StacksAligned
  BY DEF CriticalInv
<1> QED BY <1>1, CriticalInvariant, PTL

(* The tickets CounterInit .. a_l - 1 of a construct are always on the     *)
(* stacks of the team, each exactly once, for any number of threads and of *)
(* constructs and any depth of the stacks.                                 *)
THEOREM TicketsStayExact == Spec => []TicketsExact
<1>1. ASSUME CriticalInv
      PROVE  TicketsExact
  <2> SUFFICES ASSUME NEW l \in Critical, NEW n \in Issued(l)
               PROVE  \E t \in Thread : \E i \in 1..Len(STACKc[t]) :
                        /\ IsTicket(t, i, l, n)
                        /\ \A u \in Thread : \A j \in 1..Len(STACKc[u]) :
                             IsTicket(u, j, l, n) => u = t /\ j = i
    BY DEF TicketsExact
  <2>1. PICK t \in Thread, i \in Nat : TicketAt(t, i) /\ IsTicket(t, i, l, n)
    BY <1>1, TicketFacts
  <2>2. i \in 1..Len(STACKc[t]) /\ STACKc[t][i] \notin Label
    BY <2>1 DEF TicketAt
  <2>3. ASSUME NEW u \in Thread, NEW j \in 1..Len(STACKc[u]), IsTicket(u, j, l, n)
        PROVE  u = t /\ j = i
    BY <1>1, <2>1, <2>2, <2>3 DEF CriticalInv, TicketsUnique, IsTicket
  <2> QED BY <2>1, <2>2, <2>3
<1>2. CriticalInv => TicketsExact
  BY <1>1
<1> QED BY <1>2, CriticalInvariant, PTL

-------------------------------------------------------------------------------
(* The region undoes itself. A straight-line piece whose label is still on *)
(* a control stack belongs to one execution of its construct: the one with *)
(* the ticket above the label, or, while there is none, the one its thread *)
(* is running or undoing, whose number is the value of the counter.        *)

PieceAt(t, i) == i \in 1..Len(STACKc[t]) /\ STACKc[t][i] \in Slc

Unticketed(t, i) == \A j \in i..Len(STACKc[t]) : STACKc[t][j] \in Label

(* The ticket at position k is the first above position i, and it is       *)
(* number n of construct l.                                                *)
Under(t, i, k, l, n) ==
  /\ TicketAt(t, k) /\ i < k
  /\ \A j \in i..(k - 1) : STACKc[t][j] \in Label
  /\ IsTicket(t, k, l, n)

PieceOf(t, i, l, n) ==
  /\ PieceAt(t, i)
  /\ \/ Unticketed(t, i) /\ l = cur[t] /\ n = a_l[l]
     \/ \E k \in Nat : Under(t, i, k, l, n)

(* Pieces without a ticket are those of the thread that holds the lock. *)
AllTicketed(t) == \A i \in Nat : PieceAt(t, i) => ~Unticketed(t, i)
RunningHeld == \A t \in Thread : pc[t] \in {"body", "replay"} \/ AllTicketed(t)

DoneEmpty == \A t \in Thread : pc[t] = "done" => STACKc[t] = <<>>

(* The value that the piece at position i has saved. *)
Rank(s, i) == Cardinality({ j \in Pieces(s) : j <= i })
Saved(t, i) == STACKf[t][Rank(STACKc[t], i)]

(* No piece of the construct was run before this one. *)
First(t, i, l, n) ==
  \A u \in Thread : \A j \in Nat, m \in Int :
    PieceOf(u, j, l, m) => ~(m < n \/ (u = t /\ j < i))

(* The first piece of a construct that is still to be undone has saved the *)
(* entry value of the variable, and without one the variable has it.       *)
Restored(l) ==
  /\ (\A t \in Thread, i \in Nat, n \in Int : ~PieceOf(t, i, l, n)) =>
       mem[Touches[l]] = InitValue
  /\ \A t \in Thread, i \in Nat, n \in Int :
       PieceOf(t, i, l, n) /\ First(t, i, l, n) => Saved(t, i) = InitValue

(* A variable that no construct writes keeps its entry value. *)
Untouched == \A x \in Var : (\A l \in Critical : Touches[l] # x) => mem[x] = InitValue

UndoInv == RunningHeld /\ DoneEmpty /\ Untouched /\ \A l \in Critical : Restored(l)

(* No two constructs write the same variable. *)
OwnVariable == \A l, m \in Critical : Touches[l] = Touches[m] => l = m

(* The control stack of u before and after a step has the same elements    *)
(* where it has any.                                                       *)
Agree(u) == \A j \in Nat :
  j \in 1..Len(STACKc[u]) /\ j \in 1..Len(STACKc'[u]) => STACKc'[u][j] = STACKc[u][j]

(* A step that keeps the tickets keeps the pieces below them. *)
LEMMA UnderKept ==
  ASSUME CriticalInv, STACKc' \in [Thread -> Seq(Int)],
         NEW u \in Thread, SameTickets(u), Agree(u),
         NEW i \in Nat, i > 0, NEW k \in Nat, NEW l, NEW n
  PROVE  Under(u, i, k, l, n)' <=> Under(u, i, k, l, n)
<1>1. Len(STACKc[u]) \in Nat /\ Len(STACKc'[u]) \in Nat
  BY DEF CriticalInv, TypeOK
<1>2. TicketAt(u, k)' <=> TicketAt(u, k)
  BY DEF SameTickets
<1>3. ASSUME TicketAt(u, k), i < k
      PROVE  Under(u, i, k, l, n)' <=> Under(u, i, k, l, n)
  <2>1. TicketAt(u, k)' /\ k \in 1..Len(STACKc[u]) /\ k \in 1..Len(STACKc'[u])
    BY <1>2, <1>3 DEF TicketAt
  <2>2. \A j \in i..(k - 1) : STACKc'[u][j] = STACKc[u][j]
    <3>1. \A j \in i..(k - 1) :
            j \in Nat /\ j \in 1..Len(STACKc[u]) /\ j \in 1..Len(STACKc'[u])
      BY <1>1, <2>1
    <3> QED BY <3>1 DEF Agree
  <2>3. IsTicket(u, k, l, n)' <=> IsTicket(u, k, l, n)
    BY <1>3 DEF SameTickets, IsTicket
  <2> QED BY <1>3, <2>1, <2>2, <2>3 DEF Under
<1> QED BY <1>2, <1>3 DEF Under

(* A push of a label and a pop of one do not give pieces a ticket. *)
LEMMA UnticketedPush ==
  ASSUME CriticalInv, NEW t \in Thread, NEW e \in Label, PushC(t, e), NEW i \in Nat
  PROVE  i \in 1..Len(STACKc[t]) => (Unticketed(t, i)' <=> Unticketed(t, i))
<1>0. e \in Int
  BY LabelFacts
<1>1. PICK n \in Nat : n = Len(STACKc[t])
  BY DEF CriticalInv, TypeOK
<1>2. /\ Len(STACKc'[t]) = n + 1
      /\ \A j \in 1..n : STACKc'[t][j] = STACKc[t][j]
      /\ STACKc'[t][n + 1] = e
  BY <1>0, <1>1, PushStep DEF CriticalInv
<1>3. i \in 1..n => \A j \in i..(n + 1) : j \in i..n \/ j = n + 1
  OBVIOUS
<1>4. i \in 1..n => \A j \in i..n : j \in 1..n /\ j \in i..(n + 1)
  OBVIOUS
<1> QED BY <1>1, <1>2, <1>3, <1>4 DEF Unticketed

LEMMA UnticketedPop ==
  ASSUME CriticalInv, NEW t \in Thread, PopC(t), STACKc[t] # <<>>,
         STACKc[t][Len(STACKc[t])] \in Label, NEW i \in Nat, i > 0
  PROVE  Unticketed(t, i)' <=> Unticketed(t, i)
<1>1. PICK n \in Nat : n = Len(STACKc[t]) /\ n # 0
  BY PopStep DEF CriticalInv, TypeOK
<1>2. /\ Len(STACKc'[t]) = n - 1
      /\ \A j \in 1..(n - 1) : STACKc'[t][j] = STACKc[t][j]
  BY <1>1, PopStep DEF CriticalInv
<1>3. \A j \in i..n : j \in i..(n - 1) \/ j = n
  BY <1>1
<1>4. \A j \in i..(n - 1) : j \in 1..(n - 1) /\ j \in i..n
  BY <1>1
<1> QED BY <1>1, <1>2, <1>3, <1>4 DEF Unticketed

(* A push and a pop of anything but the label of a piece keep the pieces. *)
LEMMA PiecesPushed ==
  ASSUME CriticalInv, NEW t \in Thread, NEW e \in Int, PushC(t, e),
         NEW n \in Nat, n = Len(STACKc[t])
  PROVE  /\ Agree(t)
         /\ \A i \in Nat : i # n + 1 => (PieceAt(t, i)' <=> PieceAt(t, i))
         /\ PieceAt(t, n + 1)' <=> e \in Slc
         /\ ~PieceAt(t, n + 1)
         /\ e \notin Slc => Pieces(STACKc'[t]) = Pieces(STACKc[t])
<1>1. n = Len(STACKc[t])
  OBVIOUS
<1>2. /\ Len(STACKc'[t]) = n + 1
      /\ \A j \in 1..n : STACKc'[t][j] = STACKc[t][j]
      /\ STACKc'[t][n + 1] = e
  BY <1>1, PushStep DEF CriticalInv
<1>3. \A j \in Nat : j \in 1..(n + 1) <=> j \in 1..n \/ j = n + 1
  BY IndexSplit
<1>4. \A j \in 1..n : j \in Nat
  OBVIOUS
<1>5. \A j \in 1..(n + 1) : j \in Nat
  OBVIOUS
<1>6. n + 1 \in Nat /\ n + 1 \notin 1..n
  OBVIOUS
<1>7. Agree(t)
  BY <1>1, <1>2, <1>3 DEF Agree
<1>8. \A i \in Nat : i # n + 1 => (PieceAt(t, i)' <=> PieceAt(t, i))
  BY <1>1, <1>2, <1>3 DEF PieceAt
<1>9. PieceAt(t, n + 1)' <=> e \in Slc
  BY <1>2, <1>3, <1>6 DEF PieceAt
<1>10. ~PieceAt(t, n + 1)
  BY <1>1, <1>6 DEF PieceAt
<1>11. ASSUME e \notin Slc
       PROVE  Pieces(STACKc'[t]) = Pieces(STACKc[t])
  <2>1. \A j : j \in Pieces(STACKc'[t]) <=> j \in Pieces(STACKc[t])
    BY <1>1, <1>2, <1>3, <1>4, <1>5, <1>11 DEF Pieces
  <2> QED BY <2>1
<1> QED BY <1>1, <1>7, <1>8, <1>9, <1>10, <1>11

LEMMA PiecesPopped ==
  ASSUME CriticalInv, NEW t \in Thread, PopC(t), STACKc[t] # <<>>,
         NEW n \in Nat, n = Len(STACKc[t])
  PROVE  /\ n # 0
         /\ Agree(t)
         /\ \A i \in Nat : i # n => (PieceAt(t, i)' <=> PieceAt(t, i))
         /\ PieceAt(t, n) <=> STACKc[t][n] \in Slc
         /\ ~PieceAt(t, n)'
         /\ STACKc[t][n] \notin Slc => Pieces(STACKc'[t]) = Pieces(STACKc[t])
<1>1. n = Len(STACKc[t]) /\ n # 0
  BY PopStep DEF CriticalInv, TypeOK
<1>2. /\ Len(STACKc'[t]) = n - 1
      /\ \A j \in 1..(n - 1) : STACKc'[t][j] = STACKc[t][j]
  BY <1>1, PopStep DEF CriticalInv
<1>3. \A j \in Nat : j \in 1..n <=> j \in 1..(n - 1) \/ j = n
  BY <1>1
<1>4. \A j \in 1..n : j \in Nat
  OBVIOUS
<1>5. \A j \in 1..(n - 1) : j \in Nat
  BY <1>1
<1>6. n \in 1..n /\ n \notin 1..(n - 1)
  BY <1>1
<1>7. Agree(t)
  BY <1>1, <1>2, <1>3 DEF Agree
<1>8. \A i \in Nat : i # n => (PieceAt(t, i)' <=> PieceAt(t, i))
  BY <1>1, <1>2, <1>3 DEF PieceAt
<1>9. PieceAt(t, n) <=> STACKc[t][n] \in Slc
  BY <1>1, <1>6 DEF PieceAt
<1>10. ~PieceAt(t, n)'
  BY <1>2, <1>6 DEF PieceAt
<1>11. ASSUME STACKc[t][n] \notin Slc
       PROVE  Pieces(STACKc'[t]) = Pieces(STACKc[t])
  <2>1. \A j : j \in Pieces(STACKc'[t]) <=> j \in Pieces(STACKc[t])
    BY <1>1, <1>2, <1>3, <1>4, <1>5, <1>11 DEF Pieces
  <2> QED BY <2>1
<1> QED BY <1>1, <1>7, <1>8, <1>9, <1>10, <1>11

(* The label of a construct leaves every piece its ticket, on its way onto *)
(* the stack and on its way off it.                                        *)
LEMMA TicketedPush ==
  ASSUME CriticalInv, NEW t \in Thread, NEW e \in Critical, PushC(t, e), AllTicketed(t)
  PROVE  AllTicketed(t)'
<1>1. e \in Label /\ e \in Int /\ e \notin Slc
  BY ConstantsAssumption, LabelFacts DEF Label
<1>2. PICK n \in Nat : n = Len(STACKc[t])
  BY DEF CriticalInv, TypeOK
<1>3. \A i \in Nat : PieceAt(t, i)' => PieceAt(t, i)
  BY <1>1, <1>2, PiecesPushed
<1>4. \A i \in Nat : PieceAt(t, i) => (Unticketed(t, i)' <=> Unticketed(t, i))
  BY <1>1, UnticketedPush DEF PieceAt
<1> QED BY <1>3, <1>4 DEF AllTicketed

LEMMA TicketedPop ==
  ASSUME CriticalInv, NEW t \in Thread, PopC(t), STACKc[t] # <<>>,
         STACKc[t][Len(STACKc[t])] \in Critical, AllTicketed(t)
  PROVE  AllTicketed(t)'
<1>1. /\ STACKc[t][Len(STACKc[t])] \in Label
      /\ STACKc[t][Len(STACKc[t])] \notin Slc
  BY ConstantsAssumption DEF Label
<1>2. PICK n \in Nat : n = Len(STACKc[t])
  BY DEF CriticalInv, TypeOK
<1>3. \A i \in Nat : PieceAt(t, i)' => PieceAt(t, i) /\ i > 0
  BY <1>1, <1>2, PiecesPopped DEF PieceAt
<1>4. \A i \in Nat : PieceAt(t, i)' => (Unticketed(t, i)' <=> Unticketed(t, i))
  BY <1>1, <1>3, UnticketedPop
<1> QED BY <1>3, <1>4 DEF AllTicketed

(* A ticket on top is a ticket for all. *)
LEMMA TicketedIssue ==
  ASSUME CriticalInv, NEW t \in Thread, IssueTicket(t)
  PROVE  AllTicketed(t)'
<1>1. PICK n \in Nat : n = Len(STACKc[t])
  BY DEF CriticalInv, TypeOK
<1>2. Len(STACKc'[t]) = n + 1 /\ STACKc'[t][n + 1] = a_l[cur[t]] /\ cur[t] \in Critical
      /\ a_l[cur[t]] \in Int
  BY <1>1, IssueFacts
<1>3. CounterInit[cur[t]] <= a_l[cur[t]] /\ CounterInit[cur[t]] \in Nat
  BY <1>2, LabelFacts DEF CriticalInv, CountersBounded
<1>4. STACKc'[t][n + 1] \notin Label
  <2>1. a_l[cur[t]] >= CounterInit[cur[t]] - 1
    BY <1>2, <1>3
  <2> QED BY <1>2, <2>1, LabelFacts
<1>5. \A i \in 1..(n + 1) : n + 1 \in i..(n + 1)
  OBVIOUS
<1> QED BY <1>2, <1>4, <1>5 DEF AllTicketed, PieceAt, Unticketed

(* When the thread sees the label of its construct again, below what it    *)
(* has undone, the pieces that are left have their tickets.                *)
LEMMA TicketedLeave ==
  ASSUME CriticalInv, NEW t \in Thread, LeaveReverse(t)
  PROVE  AllTicketed(t)
<1> DEFINE s == STACKc[t]
<1>1. s \in Seq(Int) /\ Len(s) > 0 /\ s[Len(s)] \in Label /\ ~Closing(s, Len(s))
  BY DEF LeaveReverse, CriticalInv, TypeOK, TopShape, TopShapeOf
<1>2. PICK n \in Nat : n = Len(s) /\ n > 0
  BY <1>1
<1>3. s[n] \in Critical
  <2>1. s[n] = cur[t] /\ cur[t] \in Critical
    BY <1>1, <1>2, PushedInt DEF LeaveReverse, TopC
  <2> QED BY <2>1
<1>4. \A i \in 1..n : BlockAt(s, i)
  BY <1>2 DEF CriticalInv, StackShape
<1>5. n = 1 \/ Closing(s, n - 1)
  <2>1. BlockAt(s, n) /\ ~Closing(s, n)
    BY <1>1, <1>2, <1>4
  <2> HIDE DEF s
  <2> QED BY <1>2, <1>3, <2>1 DEF BlockAt, Closing
<1>6. Critical \cap Slc = {}
  BY ConstantsAssumption
<1> SUFFICES ASSUME NEW i \in Nat, PieceAt(t, i), Unticketed(t, i)
             PROVE  FALSE
  BY DEF AllTicketed
<1>7. i \in 1..n /\ s[i] \in Slc /\ \A j \in i..n : s[j] \in Label
  BY <1>2 DEF PieceAt, Unticketed
<1> HIDE DEF s
<1>8. CASE n = 1
  BY <1>3, <1>6, <1>7, <1>8
<1>9. CASE Closing(s, n - 1)
  <2>1. n - 1 > 1 /\ s[n - 1 - 1] \notin Label
    BY <1>9 DEF Closing
  <2>2. i = n - 1
    <3>1. i # n
      BY <1>3, <1>6, <1>7
    <3>2. ~(i <= n - 2)
      BY <1>7, <2>1
    <3> QED BY <1>7, <3>1, <3>2
  <2>3. BlockAt(s, n - 1)
    BY <1>2, <1>4, <2>1
  <2>4. s[n - 1] \in Critical
    BY <2>1, <2>3 DEF BlockAt
  <2> QED BY <1>6, <1>7, <2>2, <2>4
<1> QED BY <1>5, <1>8, <1>9

(* A thread that keeps its stack keeps what is said of it. *)
LEMMA TicketedIdle ==
  ASSUME NEW u \in Thread, STACKc'[u] = STACKc[u]
  PROVE  AllTicketed(u)' <=> AllTicketed(u)
BY DEF AllTicketed, PieceAt, Unticketed

(* A step of one thread is none of the others. *)
LEMMA OthersIdle ==
  ASSUME TypeOK, NEW t \in Thread, Forward(t) \/ Backward(t), NEW u \in Thread, u # t
  PROVE  /\ pc'[u] = pc[u] /\ cur'[u] = cur[u]
         /\ STACKc'[u] = STACKc[u] /\ STACKf'[u] = STACKf[u]
<1> USE DEF TypeOK, Goto, PushC, PopC
<1>1. CASE \E l \in Critical : OpenSection(t, l)
  BY <1>1 DEF OpenSection
<1>2. CASE \E s \in Slc, v \in Value : ForwardSlc(t, s, v)
  BY <1>2 DEF ForwardSlc
<1>3. CASE EnterSection(t)
  BY <1>3 DEF EnterSection
<1>4. CASE IssueTicket(t)
  BY <1>4 DEF IssueTicket
<1>5. CASE CountTicket(t)
  BY <1>5 DEF CountTicket
<1>6. CASE LeaveSection(t)
  BY <1>6 DEF LeaveSection
<1>7. CASE CloseSection(t)
  BY <1>7 DEF CloseSection
<1>8. CASE EndForward(t)
  BY <1>8 DEF EndForward
<1>9. CASE OpenReverse(t)
  BY <1>9 DEF OpenReverse
<1>10. CASE AskForTurn(t)
  BY <1>10 DEF AskForTurn
<1>11. CASE NotMyTurn(t)
  BY <1>11 DEF NotMyTurn
<1>12. CASE TakeTurn(t)
  BY <1>12 DEF TakeTurn
<1>13. CASE ReverseSlc(t)
  BY <1>13 DEF ReverseSlc
<1>14. CASE LeaveReverse(t)
  BY <1>14 DEF LeaveReverse
<1>15. CASE CloseReverse(t)
  BY <1>15 DEF CloseReverse
<1>16. CASE EndReverse(t)
  BY <1>16 DEF EndReverse
<1> QED
  BY <1>1, <1>2, <1>3, <1>4, <1>5, <1>6, <1>7, <1>8, <1>9, <1>10, <1>11, <1>12, <1>13, <1>14, <1>15, <1>16 DEF Forward, Backward

(* Outside of a critical construct every piece has its ticket. *)
LEMMA RunningStep ==
  ASSUME CriticalInv, RunningHeld, [Next]_vars
  PROVE  RunningHeld'
<1> SUFFICES ASSUME NEW u \in Thread, pc'[u] \notin {"body", "replay"}
             PROVE  AllTicketed(u)'
  BY DEF RunningHeld
<1>0. TypeOK
  BY DEF CriticalInv
<1>1. ASSUME pc[u] \notin {"body", "replay"}, STACKc'[u] = STACKc[u]
      PROVE  AllTicketed(u)'
  BY <1>1, TicketedIdle DEF RunningHeld
<1>2. ASSUME NEW t \in Thread, Forward(t) \/ Backward(t), u # t
      PROVE  AllTicketed(u)'
  BY <1>0, <1>1, <1>2, OthersIdle
<1>3. ASSUME NEW l \in Critical, OpenSection(u, l)
      PROVE  AllTicketed(u)'
  BY <1>3, TicketedPush DEF OpenSection, RunningHeld
<1>4. CASE EnterSection(u) \/ \E s \in Slc, v \in Value : ForwardSlc(u, s, v)
  BY <1>4 DEF EnterSection, ForwardSlc, Goto, CriticalInv, TypeOK
<1>5. CASE IssueTicket(u)
  BY <1>5, TicketedIssue
<1>6. CASE CountTicket(u) \/ LeaveSection(u) \/ EndForward(u)
  BY <1>1, <1>6 DEF CountTicket, LeaveSection, EndForward
<1>7. CASE CloseSection(u)
  <2>1. cur[u] \in Critical /\ PushC(u, cur[u]) /\ pc[u] = "close"
    BY <1>7, PushedInt DEF CloseSection
  <2> QED BY <2>1, TicketedPush DEF RunningHeld
<1>8. CASE OpenReverse(u) \/ CloseReverse(u)
  <2>1. STACKc[u] # <<>> /\ PopC(u) /\ pc[u] \notin {"body", "replay"}
    BY <1>8, PoppedNonEmpty DEF OpenReverse, CloseReverse
  <2>2. STACKc[u][Len(STACKc[u])] \in Critical
    BY <1>8, <2>1, PushedInt DEF OpenReverse, CloseReverse, TopC
  <2> QED BY <2>1, <2>2, TicketedPop DEF RunningHeld
<1>9. CASE AskForTurn(u) \/ NotMyTurn(u) \/ EndReverse(u)
  BY <1>1, <1>9 DEF AskForTurn, NotMyTurn, EndReverse
<1>10. CASE TakeTurn(u) \/ ReverseSlc(u)
  BY <1>10 DEF TakeTurn, ReverseSlc, Goto, CriticalInv, TypeOK
<1>11. CASE LeaveReverse(u)
  BY <1>11, TicketedLeave, TicketedIdle DEF LeaveReverse
<1>12. CASE CrossBarrier
  BY <1>1, <1>12 DEF CrossBarrier
<1>13. CASE UNCHANGED vars
  BY <1>1, <1>13 DEF vars
<1> QED
  BY <1>2, <1>3, <1>4, <1>5, <1>6, <1>7, <1>8, <1>9, <1>10, <1>11, <1>12, <1>13
  DEF Next, Forward, Backward, Terminated

(* A thread that is through has undone its stack. *)
LEMMA DoneStep ==
  ASSUME CriticalInv, DoneEmpty, [Next]_vars
  PROVE  DoneEmpty'
<1> SUFFICES ASSUME NEW u \in Thread, pc'[u] = "done"
             PROVE  STACKc'[u] = <<>>
  BY DEF DoneEmpty
<1>0. TypeOK
  BY DEF CriticalInv
<1>1. ASSUME pc[u] = "done", STACKc'[u] = STACKc[u]
      PROVE  STACKc'[u] = <<>>
  BY <1>1 DEF DoneEmpty
<1>2. ASSUME NEW t \in Thread, Forward(t) \/ Backward(t), u # t
      PROVE  STACKc'[u] = <<>>
  BY <1>0, <1>1, <1>2, OthersIdle
<1>3. ASSUME Forward(u) \/ Backward(u)
      PROVE  EndReverse(u)
  <2> USE DEF TypeOK, Goto
  <2>1. CASE \E l \in Critical : OpenSection(u, l)
    BY <1>0, <2>1 DEF OpenSection
  <2>2. CASE \E s \in Slc, v \in Value : ForwardSlc(u, s, v)
    BY <1>0, <2>2 DEF ForwardSlc
  <2>3. CASE EnterSection(u)
    BY <1>0, <2>3 DEF EnterSection
  <2>4. CASE IssueTicket(u)
    BY <1>0, <2>4 DEF IssueTicket
  <2>5. CASE CountTicket(u)
    BY <1>0, <2>5 DEF CountTicket
  <2>6. CASE LeaveSection(u)
    BY <1>0, <2>6 DEF LeaveSection
  <2>7. CASE CloseSection(u)
    BY <1>0, <2>7 DEF CloseSection
  <2>8. CASE EndForward(u)
    BY <1>0, <2>8 DEF EndForward
  <2>9. CASE OpenReverse(u)
    BY <1>0, <2>9 DEF OpenReverse
  <2>10. CASE AskForTurn(u)
    BY <1>0, <2>10 DEF AskForTurn
  <2>11. CASE NotMyTurn(u)
    BY <1>0, <2>11 DEF NotMyTurn
  <2>12. CASE TakeTurn(u)
    BY <1>0, <2>12 DEF TakeTurn
  <2>13. CASE ReverseSlc(u)
    BY <1>0, <2>13 DEF ReverseSlc
  <2>14. CASE LeaveReverse(u)
    BY <1>0, <2>14 DEF LeaveReverse
  <2>15. CASE CloseReverse(u)
    BY <1>0, <2>15 DEF CloseReverse
  <2> QED
    BY <1>3, <2>1, <2>2, <2>3, <2>4, <2>5, <2>6, <2>7, <2>8, <2>9, <2>10, <2>11, <2>12, <2>13, <2>14, <2>15 DEF Forward, Backward
<1>4. CASE CrossBarrier
  BY <1>4 DEF CrossBarrier
<1>5. CASE UNCHANGED vars
  BY <1>1, <1>5 DEF vars
<1> QED
  BY <1>2, <1>3, <1>4, <1>5 DEF EndReverse, Next, Terminated

(* The pieces of u stay what they are. *)
KeepsPieces(u) ==
  /\ \A i \in Nat, l \in Critical, n \in Int : PieceOf(u, i, l, n)' <=> PieceOf(u, i, l, n)
  /\ Pieces(STACKc'[u]) = Pieces(STACKc[u])

PiecesKept == /\ \A u \in Thread : KeepsPieces(u)
              /\ STACKf' = STACKf /\ mem' = mem

LEMMA PieceIdle ==
  ASSUME NEW u \in Thread, STACKc'[u] = STACKc[u], cur'[u] = cur[u],
         a_l' = a_l \/ AllTicketed(u)
  PROVE  KeepsPieces(u)
<1>1. \A i, k \in Nat, l \in Critical, n \in Int :
        Under(u, i, k, l, n)' <=> Under(u, i, k, l, n)
  BY DEF Under, TicketAt, IsTicket, Owner
<1>2. \A i \in Nat : /\ PieceAt(u, i)' <=> PieceAt(u, i)
                     /\ Unticketed(u, i)' <=> Unticketed(u, i)
  BY DEF PieceAt, Unticketed
<1>3. \A i \in Nat, l \in Critical, n \in Int : PieceOf(u, i, l, n)' <=> PieceOf(u, i, l, n)
  BY <1>1, <1>2 DEF PieceOf, AllTicketed
<1> QED BY <1>3 DEF KeepsPieces

LEMMA PieceTicketed ==
  ASSUME CriticalInv, STACKc' \in [Thread -> Seq(Int)],
         NEW u \in Thread, SameTickets(u), Agree(u),
         AllTicketed(u), AllTicketed(u)',
         Pieces(STACKc'[u]) = Pieces(STACKc[u])
  PROVE  KeepsPieces(u)
<1>1. \A i \in Nat : PieceAt(u, i)' <=> PieceAt(u, i)
  BY DEF PieceAt, Pieces
<1>2. \A i \in Nat : PieceAt(u, i) => i > 0
  BY DEF PieceAt, CriticalInv, TypeOK
<1>3. ASSUME NEW i \in Nat, NEW l \in Critical, NEW n \in Int, PieceAt(u, i)
      PROVE  PieceOf(u, i, l, n)' <=> PieceOf(u, i, l, n)
  <2>1. \A k \in Nat : Under(u, i, k, l, n)' <=> Under(u, i, k, l, n)
    BY <1>2, <1>3, UnderKept
  <2>2. ~Unticketed(u, i) /\ ~Unticketed(u, i)'
    BY <1>1, <1>3 DEF AllTicketed
  <2> QED BY <1>1, <2>1, <2>2 DEF PieceOf
<1>4. ASSUME NEW i \in Nat, NEW l \in Critical, NEW n \in Int, ~PieceAt(u, i)
      PROVE  PieceOf(u, i, l, n)' <=> PieceOf(u, i, l, n)
  BY <1>1, <1>4 DEF PieceOf
<1> QED BY <1>3, <1>4 DEF KeepsPieces

(* Both ways the label of a construct leaves the pieces below it alone. *)
LEMMA PieceLabelPush ==
  ASSUME CriticalInv, NEW t \in Thread, NEW e \in Critical, PushC(t, e),
         Len(STACKc[t]) # 0 /\ STACKc[t][Len(STACKc[t])] \notin Label => e = cur[t],
         AllTicketed(t)
  PROVE  KeepsPieces(t)
<1>1. e \in Label /\ e \in Int /\ e \notin Slc
  BY ConstantsAssumption, LabelFacts DEF Label
<1>2. PICK n \in Nat : n = Len(STACKc[t])
  BY DEF CriticalInv, TypeOK
<1>3. Agree(t) /\ Pieces(STACKc'[t]) = Pieces(STACKc[t])
  BY <1>1, <1>2, PiecesPushed
<1>4. SameTickets(t)
  BY <1>1, PushKeeps
<1>5. AllTicketed(t)'
  BY TicketedPush
<1>6. STACKc' \in [Thread -> Seq(Int)]
  BY <1>1, PushStep DEF CriticalInv
<1> QED BY <1>3, <1>4, <1>5, <1>6, PieceTicketed

LEMMA PieceLabelPop ==
  ASSUME CriticalInv, NEW t \in Thread, PopC(t), STACKc[t] # <<>>,
         STACKc[t][Len(STACKc[t])] \in Critical,
         Closing(STACKc[t], Len(STACKc[t])) => cur'[t] = STACKc[t][Len(STACKc[t])],
         AllTicketed(t)
  PROVE  KeepsPieces(t)
<1>1. STACKc[t][Len(STACKc[t])] \in Label /\ STACKc[t][Len(STACKc[t])] \notin Slc
  BY ConstantsAssumption DEF Label
<1>2. PICK n \in Nat : n = Len(STACKc[t])
  BY DEF CriticalInv, TypeOK
<1>3. Agree(t) /\ Pieces(STACKc'[t]) = Pieces(STACKc[t])
  BY <1>1, <1>2, PiecesPopped
<1>4. SameTickets(t)
  BY <1>1, PopKeeps
<1>5. AllTicketed(t)'
  BY TicketedPop
<1>6. STACKc' \in [Thread -> Seq(Int)]
  BY PopStep DEF CriticalInv
<1> QED BY <1>3, <1>4, <1>5, <1>6, PieceTicketed

(* A ticket is no label of a piece. *)
LEMMA TicketNotPiece ==
  ASSUME CriticalInv, NEW l \in Critical
  PROVE  /\ a_l[l] \in Int /\ a_l[l] \notin Label /\ a_l[l] \notin Slc
         /\ a_l[l] - 1 \notin Label /\ a_l[l] - 1 \notin Slc
<1>1. a_l[l] \in Int /\ CounterInit[l] \in Nat /\ CounterInit[l] <= a_l[l]
  BY LabelFacts DEF CriticalInv, TypeOK, CountersBounded
<1>2. a_l[l] >= CounterInit[l] - 1 /\ a_l[l] - 1 >= CounterInit[l] - 1 /\ a_l[l] - 1 \in Int
  BY <1>1
<1> QED BY <1>1, <1>2, LabelFacts DEF Label

(* The ticket a thread issues is that of the pieces it has just run. *)
LEMMA PieceIssue ==
  ASSUME CriticalInv, NEW t \in Thread, IssueTicket(t)
  PROVE  KeepsPieces(t)
<1> DEFINE c == cur[t]
<1>1. PICK n \in Nat : n = Len(STACKc[t])
  BY DEF CriticalInv, TypeOK
<1>2. /\ c \in Critical /\ a_l[c] \in Int /\ a_l[c] \notin Label /\ a_l[c] \notin Slc
      /\ cur' = cur /\ a_l' = a_l
      /\ PushC(t, a_l[c])
  BY IssueFacts, TicketNotPiece DEF IssueTicket
<1>3. /\ Agree(t)
      /\ Pieces(STACKc'[t]) = Pieces(STACKc[t])
  BY <1>1, <1>2, PiecesPushed
<1>4. /\ Len(STACKc'[t]) = n + 1 /\ STACKc'[t][n + 1] = a_l[c]
      /\ \A j \in 1..n : STACKc'[t][j] = STACKc[t][j]
      /\ Owner(t, n + 1)' = c
  <2>1. Len(STACKc'[t]) = n + 1 /\ STACKc'[t][n + 1] = a_l[c]
        /\ \A j \in 1..n : STACKc'[t][j] = STACKc[t][j]
    BY <1>1, IssueFacts
  <2>2. Owner(t, n + 1)' = c
    BY <1>2, <2>1 DEF Owner
  <2> QED BY <2>1, <2>2
<1>5. \A k \in Nat : k # n + 1 =>
        /\ TicketAt(t, k)' <=> TicketAt(t, k)
        /\ TicketAt(t, k) => STACKc'[t][k] = STACKc[t][k] /\ Owner(t, k)' = Owner(t, k)
  BY <1>1, IssuedAt
<1>6. ~TicketAt(t, n + 1)
  BY <1>1 DEF TicketAt
<1>7. TicketAt(t, n + 1)'
  BY <1>2, <1>4 DEF TicketAt
<1>8. ASSUME NEW i \in Nat, PieceAt(t, i), NEW l \in Critical, NEW m \in Int
      PROVE  PieceOf(t, i, l, m)' <=> PieceOf(t, i, l, m)
  <2>1. i \in 1..n /\ PieceAt(t, i)'
    BY <1>1, <1>3, <1>8 DEF PieceAt, Pieces
  <2>2. ~Unticketed(t, i)'
    <3>1. n + 1 \in i..(n + 1)
      BY <2>1
    <3> QED BY <1>2, <1>4, <3>1 DEF Unticketed
  <2>3. \A k \in Nat : k # n + 1 => (Under(t, i, k, l, m)' <=> Under(t, i, k, l, m))
    <3> SUFFICES ASSUME NEW k \in Nat, k # n + 1, TicketAt(t, k), i < k
                 PROVE  Under(t, i, k, l, m)' <=> Under(t, i, k, l, m)
      BY <1>5 DEF Under
    <3>1. k \in 1..n
      BY <1>1 DEF TicketAt
    <3>2. \A j \in i..(k - 1) : STACKc'[t][j] = STACKc[t][j]
      <4>1. \A j \in i..(k - 1) : j \in 1..n
        BY <2>1, <3>1
      <4> QED BY <1>4, <4>1
    <3>3. IsTicket(t, k, l, m)' <=> IsTicket(t, k, l, m)
      BY <1>5 DEF IsTicket
    <3> QED BY <1>5, <3>2, <3>3 DEF Under
  <2>4. Under(t, i, n + 1, l, m)' <=> Unticketed(t, i) /\ l = c /\ m = a_l[l]
    <3>1. IsTicket(t, n + 1, l, m)' <=> l = c /\ m = a_l[l]
      BY <1>4 DEF IsTicket
    <3>2. i < n + 1 /\ \A j : j \in i..((n + 1) - 1) <=> j \in i..n
      BY <2>1
    <3>3. (\A j \in i..n : STACKc'[t][j] \in Label) <=> Unticketed(t, i)
      <4>1. \A j \in i..n : j \in 1..n
        BY <2>1
      <4>2. \A j \in i..n : STACKc'[t][j] = STACKc[t][j]
        BY <1>4, <4>1
      <4> QED BY <1>1, <4>2 DEF Unticketed
    <3> QED BY <1>7, <3>1, <3>2, <3>3 DEF Under
  <2>5. ~Under(t, i, n + 1, l, m)
    BY <1>6 DEF Under
  <2>6. n + 1 \in Nat
    OBVIOUS
  <2> QED BY <1>8, <2>1, <2>2, <2>3, <2>4, <2>5, <2>6 DEF PieceOf
<1>9. \A i \in Nat : PieceAt(t, i)' <=> PieceAt(t, i)
  BY <1>3 DEF PieceAt, Pieces
<1> QED BY <1>3, <1>8, <1>9 DEF KeepsPieces, PieceOf

(* The turn it takes leaves it to undo the pieces of the ticket it takes. *)
LEMMA PieceTurn ==
  ASSUME CriticalInv, NEW t \in Thread, TakeTurn(t)
  PROVE  KeepsPieces(t)
<1> DEFINE c == cur[t]
<1>1. PICK n \in Nat : n = Len(STACKc[t])
  BY DEF CriticalInv, TypeOK
<1>2. /\ c \in Critical /\ a_l[c] - 1 \notin Label /\ a_l[c] - 1 \notin Slc
      /\ cur' = cur /\ a_l'[c] = a_l[c] - 1
      /\ PopC(t) /\ STACKc[t] # <<>>
  BY TurnFacts, TicketNotPiece, PoppedNonEmpty DEF TakeTurn, CriticalInv, TypeOK
<1>3. STACKc[t][n] = a_l[c] - 1 /\ Owner(t, n) = c
  BY <1>1, TurnFacts
<1>4. /\ n # 0
      /\ Agree(t)
      /\ Pieces(STACKc'[t]) = Pieces(STACKc[t])
  BY <1>1, <1>2, <1>3, PiecesPopped
<1>5. /\ Len(STACKc'[t]) = n - 1
      /\ \A j \in 1..(n - 1) : STACKc'[t][j] = STACKc[t][j]
  BY <1>1, TurnFacts
<1>6. \A k \in Nat :
        /\ TicketAt(t, k)' <=> TicketAt(t, k) /\ k # n
        /\ TicketAt(t, k)' => STACKc'[t][k] = STACKc[t][k] /\ Owner(t, k)' = Owner(t, k)
  BY <1>1, TurnAt
<1>7. TicketAt(t, n)
  BY <1>1, <1>2, <1>3, <1>4 DEF TicketAt
<1>8. ASSUME NEW i \in Nat, PieceAt(t, i), NEW l \in Critical, NEW m \in Int
      PROVE  PieceOf(t, i, l, m)' <=> PieceOf(t, i, l, m)
  <2>1. i \in 1..(n - 1) /\ PieceAt(t, i)'
    BY <1>4, <1>5, <1>8 DEF PieceAt, Pieces
  <2>2. ~Unticketed(t, i)
    <3>1. n \in i..n
      BY <1>4, <2>1
    <3> QED BY <1>1, <1>2, <1>3, <3>1 DEF Unticketed
  <2>3. \A k \in Nat : k # n => (Under(t, i, k, l, m)' <=> Under(t, i, k, l, m))
    <3> SUFFICES ASSUME NEW k \in Nat, k # n, TicketAt(t, k), i < k
                 PROVE  Under(t, i, k, l, m)' <=> Under(t, i, k, l, m)
      BY <1>6 DEF Under
    <3>1. k \in 1..n /\ k # n
      BY <1>1 DEF TicketAt
    <3>2. \A j \in i..(k - 1) : STACKc'[t][j] = STACKc[t][j]
      BY <1>5, <2>1, <3>1
    <3>3. IsTicket(t, k, l, m)' <=> IsTicket(t, k, l, m)
      BY <1>6 DEF IsTicket
    <3> QED BY <1>6, <3>2, <3>3 DEF Under
  <2>4. Under(t, i, n, l, m) <=> (Unticketed(t, i) /\ l = cur[t] /\ m = a_l[l])'
    <3>1. IsTicket(t, n, l, m) <=> l = c /\ m = a_l'[l]
      BY <1>2, <1>3 DEF IsTicket
    <3>2. i < n
      BY <2>1
    <3>3. (\A j \in i..(n - 1) : STACKc[t][j] \in Label) <=> Unticketed(t, i)'
      <4>1. \A j \in i..(n - 1) : j \in 1..(n - 1)
        BY <2>1
      <4>2. \A j \in i..(n - 1) : STACKc'[t][j] = STACKc[t][j]
        BY <1>5, <4>1
      <4> QED BY <1>5, <4>2 DEF Unticketed
    <3> QED BY <1>2, <1>7, <3>1, <3>2, <3>3 DEF Under
  <2>5. ~Under(t, i, n, l, m)'
    BY <1>6 DEF Under
  <2> QED BY <1>8, <2>1, <2>2, <2>3, <2>4, <2>5 DEF PieceOf
<1>9. \A i \in Nat : PieceAt(t, i)' <=> PieceAt(t, i)
  BY <1>4 DEF PieceAt, Pieces
<1> QED BY <1>4, <1>8, <1>9 DEF KeepsPieces, PieceOf

(* Only the body of a construct and its reversal change the pieces. *)
LEMMA KeptOrBody ==
  ASSUME CriticalInv, RunningHeld, [Next]_vars
  PROVE  \/ PiecesKept
         \/ \E t \in Thread, s \in Slc, v \in Value : ForwardSlc(t, s, v)
         \/ \E t \in Thread : ReverseSlc(t)
<1>0. TypeOK
  BY DEF CriticalInv
<1>1. ASSUME NEW t \in Thread, Forward(t) \/ Backward(t), a_l' = a_l \/ AllTicketed(t),
             \A u \in Thread : pc[u] \in {"body", "replay"} /\ a_l' # a_l => u = t,
             STACKf' = STACKf, mem' = mem, KeepsPieces(t)
      PROVE  PiecesKept
  <2>1. ASSUME NEW u \in Thread, u # t
        PROVE  KeepsPieces(u)
    <3>1. STACKc'[u] = STACKc[u] /\ cur'[u] = cur[u]
      BY <1>0, <1>1, <2>1, OthersIdle
    <3>2. a_l' = a_l \/ AllTicketed(u)
      BY <1>1, <2>1 DEF RunningHeld
    <3> QED BY <3>1, <3>2, PieceIdle
  <2> QED BY <1>1, <2>1 DEF PiecesKept
<1>2. ASSUME STACKc' = STACKc, cur' = cur, STACKf' = STACKf, mem' = mem, a_l' = a_l
      PROVE  PiecesKept
  BY <1>2, PieceIdle DEF PiecesKept
<1>3. ASSUME NEW t \in Thread, NEW l \in Critical, OpenSection(t, l)
      PROVE  PiecesKept
  <2>1. PushC(t, l) /\ AllTicketed(t)
    BY <1>3 DEF OpenSection, RunningHeld
  <2>2. Len(STACKc[t]) # 0 /\ STACKc[t][Len(STACKc[t])] \notin Label => l = cur[t]
    BY <1>3, NoTicketOnTop DEF OpenSection
  <2>3. KeepsPieces(t)
    BY <2>1, <2>2, PieceLabelPush
  <2> QED BY <1>1, <1>3, <2>3 DEF OpenSection, Forward
<1>4. ASSUME NEW t \in Thread, EnterSection(t) \/ LeaveSection(t) \/ EndForward(t)
      PROVE  PiecesKept
  BY <1>2, <1>4 DEF EnterSection, LeaveSection, EndForward
<1>5. ASSUME NEW t \in Thread, IssueTicket(t)
      PROVE  PiecesKept
  BY <1>1, <1>5, PieceIssue DEF IssueTicket, Forward
<1>6. ASSUME NEW t \in Thread, CountTicket(t)
      PROVE  PiecesKept
  <2>1. AllTicketed(t) /\ \A u \in Thread : pc[u] \notin {"body", "replay"}
    BY <1>6 DEF CountTicket, RunningHeld, CriticalInv, LockHeld, Holding
  <2>2. KeepsPieces(t)
    BY <1>6, <2>1, PieceIdle DEF CountTicket
  <2> QED BY <1>1, <1>6, <2>1, <2>2 DEF CountTicket, Forward
<1>7. ASSUME NEW t \in Thread, CloseSection(t)
      PROVE  PiecesKept
  <2>1. PushC(t, cur[t]) /\ AllTicketed(t) /\ cur[t] \in Critical
    BY <1>7, PushedInt DEF CloseSection, RunningHeld
  <2>2. KeepsPieces(t)
    BY <2>1, PieceLabelPush
  <2> QED BY <1>1, <1>7, <2>2 DEF CloseSection, Forward
<1>8. ASSUME NEW t \in Thread, OpenReverse(t) \/ CloseReverse(t)
      PROVE  PiecesKept
  <2>1. PopC(t) /\ STACKc[t] # <<>> /\ AllTicketed(t)
    BY <1>8, PoppedNonEmpty DEF OpenReverse, CloseReverse, RunningHeld
  <2>2. STACKc[t][Len(STACKc[t])] \in Critical
    BY <1>8, <2>1, PushedInt DEF OpenReverse, CloseReverse, TopC
  <2>3. Closing(STACKc[t], Len(STACKc[t])) => cur'[t] = STACKc[t][Len(STACKc[t])]
    <3>1. CASE OpenReverse(t)
      BY <2>1, <3>1 DEF OpenReverse, TopC, CriticalInv, TypeOK
    <3>2. CASE CloseReverse(t)
      <4>1. STACKc[t][Len(STACKc[t])] \in Label
        BY <2>2 DEF Label
      <4> QED BY <3>2, <4>1 DEF CloseReverse, CriticalInv, TopShape, TopShapeOf
    <3> QED BY <1>8, <3>1, <3>2
  <2>4. KeepsPieces(t)
    BY <2>1, <2>2, <2>3, PieceLabelPop
  <2> QED BY <1>1, <1>8, <2>4 DEF OpenReverse, CloseReverse, Backward
<1>9. ASSUME NEW t \in Thread,
             AskForTurn(t) \/ NotMyTurn(t) \/ LeaveReverse(t) \/ EndReverse(t)
      PROVE  PiecesKept
  BY <1>2, <1>9 DEF AskForTurn, NotMyTurn, LeaveReverse, EndReverse
<1>10. ASSUME NEW t \in Thread, TakeTurn(t)
       PROVE  PiecesKept
  <2>1. AllTicketed(t) /\ \A u \in Thread : pc[u] \notin {"body", "replay"}
    BY <1>10 DEF TakeTurn, RunningHeld, CriticalInv, LockHeld, Holding
  <2>2. KeepsPieces(t)
    BY <1>10, PieceTurn
  <2> QED BY <1>1, <1>10, <2>1, <2>2 DEF TakeTurn, Backward
<1>11. ASSUME CrossBarrier \/ UNCHANGED vars
       PROVE  PiecesKept
  BY <1>2, <1>11 DEF CrossBarrier, vars
<1> QED
  BY <1>3, <1>4, <1>5, <1>6, <1>7, <1>8, <1>9, <1>10, <1>11
  DEF Next, Forward, Backward, Terminated

(* A step that keeps the pieces keeps what they have saved. *)
LEMMA KeptRestored ==
  ASSUME PiecesKept, NEW l \in Critical, Restored(l)
  PROVE  Restored(l)'
<1>1. \A u \in Thread, i \in Nat, n \in Int : PieceOf(u, i, l, n)' <=> PieceOf(u, i, l, n)
  BY DEF PiecesKept, KeepsPieces
<1>2. \A u \in Thread, i \in Nat, n \in Int : First(u, i, l, n)' <=> First(u, i, l, n)
  BY <1>1 DEF First
<1>3. \A u \in Thread, i \in Nat : Saved(u, i)' = Saved(u, i)
  BY DEF Saved, Rank, PiecesKept, KeepsPieces
<1>4. mem' = mem
  BY DEF PiecesKept
<1> QED BY <1>1, <1>2, <1>3, <1>4 DEF Restored

(* The rank of a piece counts the pieces up to it. *)
LEMMA RankBelow ==
  ASSUME NEW s \in Seq(Int), NEW r \in Seq(Int), Len(r) = Len(s) + 1,
         \A j \in 1..Len(s) : r[j] = s[j],
         NEW i \in Pieces(s)
  PROVE  Rank(r, i) = Rank(s, i) /\ Rank(s, i) \in 1..Cardinality(Pieces(s))
<1> DEFINE P == { j \in Pieces(s) : j <= i }
<1>1. PICK n \in Nat : n = Len(s) /\ i \in 1..n
  BY DEF Pieces
<1>2. \A j : j \in Pieces(r) /\ j <= i <=> j \in Pieces(s) /\ j <= i
  <2>1. \A j \in 1..(n + 1) : j <= i => j \in 1..n
    BY <1>1
  <2>2. \A j \in 1..n : j \in 1..(n + 1)
    BY <1>1
  <2> QED BY <1>1, <2>1, <2>2 DEF Pieces
<1>3. { j \in Pieces(r) : j <= i } = P
  BY <1>2
<1>4. IsFiniteSet(Pieces(s)) /\ Cardinality(Pieces(s)) \in Nat
  BY PiecesFinite
<1>5. P \subseteq Pieces(s) /\ i \in P
  BY <1>1
<1>6. IsFiniteSet(P) /\ Cardinality(P) \in Nat /\ Cardinality(P) <= Cardinality(Pieces(s))
  BY <1>4, <1>5, FS_Subset, FS_CardinalityType
<1>7. Cardinality(P) # 0
  BY <1>5, <1>6, FS_EmptySet
<1>8. Rank(s, i) = Cardinality(P) /\ Rank(r, i) = Cardinality(P)
  BY <1>3 DEF Rank
<1> HIDE DEF P
<1>9. Cardinality(P) \in 1..Cardinality(Pieces(s))
  BY <1>4, <1>6, <1>7
<1> QED BY <1>8, <1>9

LEMMA RankTop ==
  ASSUME NEW s \in Seq(Int)
  PROVE  Rank(s, Len(s)) = Cardinality(Pieces(s))
<1>1. { j \in Pieces(s) : j <= Len(s) } = Pieces(s)
  BY DEF Pieces
<1> QED BY <1>1 DEF Rank

(* Of all the pieces of its construct the one that a thread has just run   *)
(* was run last.                                                           *)
LEMMA Latest ==
  ASSUME CriticalInv, RunningHeld, NEW t \in Thread, pc[t] \in {"body", "replay"},
         NEW u \in Thread, NEW i \in Nat, NEW n \in Int, PieceOf(u, i, cur[t], n)
  PROVE  (n = a_l[cur[t]] /\ u = t) \/ n < a_l[cur[t]]
<1>1. cur[t] \in Critical /\ a_l[cur[t]] \in Int
  BY PushedInt
<1>2. \A v \in Thread : pc[v] \in {"body", "replay"} => v = t
  BY DEF CriticalInv, LockHeld, Holding
<1>3. CASE Unticketed(u, i) /\ n = a_l[cur[t]]
  BY <1>2, <1>3 DEF RunningHeld, AllTicketed, PieceOf
<1>4. ASSUME NEW k \in Nat, Under(u, i, k, cur[t], n)
      PROVE  n < a_l[cur[t]]
  <2>1. TicketAt(u, k) /\ STACKc[u][k] = n /\ Owner(u, k) = cur[t]
    BY <1>4 DEF Under, IsTicket
  <2>2. TicketBounded(u, k) /\ STACKc[u][k] \notin Label
    BY <2>1, TicketFacts DEF TicketAt
  <2>3. pc[u] # "count"
    BY DEF CriticalInv, LockHeld, Holding
  <2> QED BY <2>1, <2>2, <2>3 DEF TicketBounded
<1> QED BY <1>3, <1>4 DEF PieceOf

(* A piece that is run is the last of its construct, and saves the value   *)
(* the variable has.                                                       *)
LEMMA ForwardPieces ==
  ASSUME CriticalInv, NEW t \in Thread, NEW s \in Slc, NEW v \in Value, ForwardSlc(t, s, v),
         NEW top \in Nat, top = Len(STACKc[t]) + 1
  PROVE  /\ \A u \in Thread, i \in Nat, l \in Critical, n \in Int :
              ~(u = t /\ i = top) =>
                /\ PieceOf(u, i, l, n)' <=> PieceOf(u, i, l, n)
                /\ PieceOf(u, i, l, n) => Saved(u, i)' = Saved(u, i)
         /\ \A l \in Critical, n \in Int :
              /\ PieceOf(t, top, l, n)' <=> l = cur[t] /\ n = a_l[l]
              /\ ~PieceOf(t, top, l, n)
         /\ Saved(t, top)' = mem[Touches[cur[t]]]
         /\ \A i \in Nat, l \in Critical, n \in Int : PieceOf(t, i, l, n) => i < top
<1>1. PICK k \in Nat : k = Len(STACKc[t]) /\ top = k + 1
  BY DEF CriticalInv, TypeOK
<1>2. /\ PushC(t, s) /\ s \in Label /\ s \in Int /\ cur' = cur /\ a_l' = a_l
      /\ cur[t] \in Critical /\ STACKc[t] \in Seq(Int) /\ STACKf[t] \in Seq(Value)
      /\ STACKf \in [Thread -> Seq(Value)]
      /\ STACKf' = [STACKf EXCEPT ![t] = Push(@, mem[Touches[cur[t]]])]
      /\ mem[Touches[cur[t]]] \in Value
  BY PushedInt, ConstantsAssumption DEF ForwardSlc, Label, CriticalInv, TypeOK
<1>3. /\ STACKc' \in [Thread -> Seq(Int)]
      /\ \A u \in Thread : u # t => STACKc'[u] = STACKc[u]
      /\ Len(STACKc'[t]) = top
      /\ \A i \in 1..Len(STACKc[t]) : STACKc'[t][i] = STACKc[t][i]
      /\ STACKc'[t][top] = s
  BY <1>1, <1>2, PushStep DEF CriticalInv
<1>4. /\ Agree(t)
      /\ \A i \in Nat : i # top => (PieceAt(t, i)' <=> PieceAt(t, i))
      /\ PieceAt(t, top)' /\ ~PieceAt(t, top)
  BY <1>1, <1>2, PiecesPushed
<1>5. Len(STACKc[t]) # 0 => STACKc[t][Len(STACKc[t])] \in Label
  BY NoTicketOnTop DEF ForwardSlc
<1>6. SameTickets(t)
  BY <1>2, <1>5, PushKeeps
<1>7. \A u \in Thread : u # t => KeepsPieces(u)
  BY <1>2, <1>3, PieceIdle
<1>8. ASSUME NEW i \in Nat, i # top, NEW l \in Critical, NEW n \in Int
      PROVE  PieceOf(t, i, l, n)' <=> PieceOf(t, i, l, n)
  <2>1. CASE PieceAt(t, i)
    <3>1. i > 0 /\ PieceAt(t, i)'
      BY <1>4, <1>8, <2>1 DEF PieceAt
    <3>2. Unticketed(t, i)' <=> Unticketed(t, i)
      BY <1>2, <2>1, UnticketedPush DEF PieceAt
    <3>3. \A j \in Nat : Under(t, i, j, l, n)' <=> Under(t, i, j, l, n)
      BY <1>3, <1>4, <1>6, <3>1, UnderKept
    <3> QED BY <1>2, <2>1, <3>1, <3>2, <3>3 DEF PieceOf
  <2>2. CASE ~PieceAt(t, i)
    BY <1>4, <1>8, <2>2 DEF PieceOf
  <2> QED BY <2>1, <2>2
<1>9. ASSUME NEW l \in Critical, NEW n \in Int
      PROVE  /\ PieceOf(t, top, l, n)' <=> l = cur[t] /\ n = a_l[l]
             /\ ~PieceOf(t, top, l, n)
  <2>1. Unticketed(t, top)'
    BY <1>2, <1>3 DEF Unticketed
  <2>2. \A j \in Nat : ~Under(t, top, j, l, n)'
    BY <1>3 DEF Under, TicketAt
  <2> QED BY <1>2, <1>4, <2>1, <2>2 DEF PieceOf
<1>10. \A i \in Nat, l \in Critical, n \in Int :
         PieceOf(t, i, l, n) => i < top /\ i \in Pieces(STACKc[t])
  BY <1>1 DEF PieceOf, PieceAt, Pieces
<1>11. /\ STACKf'[t] = Push(STACKf[t], mem[Touches[cur[t]]])
       /\ \A u \in Thread : u # t => STACKf'[u] = STACKf[u]
  BY <1>2
<1>12. PICK f \in Nat : f = Len(STACKf[t]) /\ f = Cardinality(Pieces(STACKc[t]))
  BY <1>2 DEF CriticalInv, StacksAligned
<1>13. /\ STACKf'[t][f + 1] = mem[Touches[cur[t]]]
       /\ \A j \in 1..f : STACKf'[t][j] = STACKf[t][j]
  <2>1. LET q == STACKf[t]
            e == mem[Touches[cur[t]]]
        IN  /\ \A j \in 1..Len(q) : Push(q, e)[j] = q[j]
            /\ Push(q, e)[Len(q) + 1] = e
    <3>1. STACKf[t] \in Seq(Value) /\ mem[Touches[cur[t]]] \in Value
      BY <1>2
    <3> QED BY <3>1 DEF Push
  <2> QED BY <1>11, <1>12, <2>1
<1>14. Saved(t, top)' = mem[Touches[cur[t]]]
  <2>1. STACKc'[t] = Push(STACKc[t], s) /\ STACKc'[t] \in Seq(Int)
    BY <1>2, <1>3 DEF PushC, CriticalInv, TypeOK
  <2>2. Cardinality(Pieces(STACKc'[t])) = f + 1
    BY <1>2, <1>12, <2>1, PiecesPush
  <2>3. Rank(STACKc'[t], top) = f + 1
    BY <1>3, <2>1, <2>2, RankTop
  <2> QED BY <1>13, <2>3 DEF Saved
<1>15. ASSUME NEW u \in Thread, NEW i \in Nat, NEW l \in Critical, NEW n \in Int,
              PieceOf(u, i, l, n)
       PROVE  Saved(u, i)' = Saved(u, i)
  <2>1. CASE u # t
    BY <1>3, <1>11, <2>1 DEF Saved
  <2>2. CASE u = t
    <3>1. i \in Pieces(STACKc[t])
      BY <1>10, <1>15, <2>2
    <3>2. /\ STACKc'[t] \in Seq(Int)
          /\ Len(STACKc'[t]) = Len(STACKc[t]) + 1
      BY <1>1, <1>3
    <3>3. /\ Rank(STACKc'[t], i) = Rank(STACKc[t], i)
          /\ Rank(STACKc[t], i) \in 1..f
      BY <1>2, <1>3, <1>12, <3>1, <3>2, RankBelow
    <3> QED BY <1>13, <2>2, <3>3 DEF Saved
  <2> QED BY <2>1, <2>2
<1> QED BY <1>7, <1>8, <1>9, <1>10, <1>14, <1>15 DEF KeepsPieces

LEMMA ForwardRestored ==
  ASSUME CriticalInv, UndoInv, OwnVariable,
         NEW t \in Thread, NEW s \in Slc, NEW v \in Value, ForwardSlc(t, s, v),
         NEW l \in Critical
  PROVE  Restored(l)'
<1> DEFINE c == cur[t]
<1>1. PICK top \in Nat : top = Len(STACKc[t]) + 1
  BY DEF CriticalInv, TypeOK
<1>2. /\ c \in Critical /\ a_l[c] \in Int /\ pc[t] = "body"
      /\ mem' = [mem EXCEPT ![Touches[c]] = v] /\ mem \in [Var -> Value]
  BY PushedInt DEF ForwardSlc, CriticalInv, TypeOK
<1>3. /\ \A u \in Thread, i \in Nat, m \in Critical, n \in Int :
           ~(u = t /\ i = top) =>
             /\ PieceOf(u, i, m, n)' <=> PieceOf(u, i, m, n)
             /\ PieceOf(u, i, m, n) => Saved(u, i)' = Saved(u, i)
      /\ \A m \in Critical, n \in Int :
           /\ PieceOf(t, top, m, n)' <=> m = c /\ n = a_l[m]
           /\ ~PieceOf(t, top, m, n)
      /\ Saved(t, top)' = mem[Touches[c]]
      /\ \A i \in Nat, m \in Critical, n \in Int : PieceOf(t, i, m, n) => i < top
  BY <1>1, ForwardPieces
<1>4. Restored(l)
  BY DEF UndoInv
<1>5. CASE l # c
  <2>1. mem'[Touches[l]] = mem[Touches[l]]
    BY <1>2, <1>5, ConstantsAssumption DEF OwnVariable
  <2>2. \A u \in Thread, i \in Nat, n \in Int :
          /\ PieceOf(u, i, l, n)' <=> PieceOf(u, i, l, n)
          /\ PieceOf(u, i, l, n) => Saved(u, i)' = Saved(u, i)
    BY <1>3, <1>5
  <2>3. \A u \in Thread, i \in Nat, n \in Int : First(u, i, l, n)' <=> First(u, i, l, n)
    BY <2>2 DEF First
  <2> QED BY <1>4, <2>1, <2>2, <2>3 DEF Restored
<1>6. CASE l = c
  <2>1. PICK k \in Int : PieceOf(t, top, l, k)'
    <3>1. PICK n \in Int : n = a_l[c]
      BY <1>2
    <3> QED BY <1>2, <1>3, <1>6, <3>1
  <2>2. ASSUME NEW u \in Thread, NEW i \in Nat, NEW n \in Int,
               PieceOf(u, i, l, n)', First(u, i, l, n)'
        PROVE  Saved(u, i)' = InitValue
    <3>1. CASE u = t /\ i = top
      <4>1. n = a_l[c]
        BY <1>2, <1>3, <1>6, <2>2, <3>1
      <4>2. ASSUME NEW w \in Thread, NEW j \in Nat, NEW m \in Int, PieceOf(w, j, l, m)
            PROVE  FALSE
        <5>1. (m = a_l[c] /\ w = t) \/ m < a_l[c]
          BY <1>2, <1>6, <4>2, Latest DEF UndoInv
        <5>2. w = t => j < top
          BY <1>3, <4>2
        <5>3. PieceOf(w, j, l, m)'
          BY <1>3, <4>2
        <5> QED BY <2>2, <3>1, <4>1, <5>1, <5>2, <5>3 DEF First
      <4>3. mem[Touches[l]] = InitValue
        BY <1>4, <4>2 DEF Restored
      <4> QED BY <1>3, <1>6, <3>1, <4>3
    <3>2. CASE ~(u = t /\ i = top)
      <4>1. PieceOf(u, i, l, n) /\ Saved(u, i)' = Saved(u, i)
        BY <1>3, <2>2, <3>2
      <4>2. \A w \in Thread, j \in Nat, m \in Int :
              PieceOf(w, j, l, m) => PieceOf(w, j, l, m)'
        <5>1. \A m \in Int : ~PieceOf(t, top, l, m)
          BY <1>3
        <5> QED BY <1>3, <5>1
      <4>3. First(u, i, l, n)
        BY <2>2, <4>2 DEF First
      <4> QED BY <1>4, <4>1, <4>3 DEF Restored
    <3> QED BY <3>1, <3>2
  <2>3. ~\A u \in Thread, i \in Nat, n \in Int : ~PieceOf(u, i, l, n)'
    BY <2>1
  <2> QED BY <2>2, <2>3 DEF Restored
<1> QED BY <1>5, <1>6

(* The piece that is undone is the last of its construct, and restores     *)
(* what it has saved.                                                      *)
LEMMA ReversePieces ==
  ASSUME CriticalInv, NEW t \in Thread, ReverseSlc(t),
         NEW top \in Nat, top = Len(STACKc[t])
  PROVE  /\ \A u \in Thread, i \in Nat, l \in Critical, n \in Int :
              ~(u = t /\ i = top) =>
                /\ PieceOf(u, i, l, n)' <=> PieceOf(u, i, l, n)
                /\ PieceOf(u, i, l, n) => Saved(u, i)' = Saved(u, i)
         /\ \A l \in Critical, n \in Int :
              /\ PieceOf(t, top, l, n) <=> l = cur[t] /\ n = a_l[l]
              /\ ~PieceOf(t, top, l, n)'
         /\ mem' = [mem EXCEPT ![Touches[cur[t]]] = Saved(t, top)]
         /\ \A i \in Nat, l \in Critical, n \in Int : PieceOf(t, i, l, n) => i <= top
<1> DEFINE s == STACKc[t]
           r == STACKc'[t]
           g == STACKf[t]
<1>1. /\ PopC(t) /\ s # <<>> /\ s \in Seq(Int) /\ g \in Seq(Value) /\ g # <<>>
      /\ cur' = cur /\ a_l' = a_l /\ cur[t] \in Critical
      /\ STACKf \in [Thread -> Seq(Value)]
      /\ STACKf' = [STACKf EXCEPT ![t] = Pop(g)]
      /\ mem' = [mem EXCEPT ![Touches[cur[t]]] = g[Len(g)]]
  BY PoppedNonEmpty, SavedValueThere, PushedInt DEF ReverseSlc, CriticalInv, TypeOK
<1>2. s[top] \in Slc /\ s[top] \in Label
  BY <1>1 DEF ReverseSlc, TopC, Label
<1>3. /\ STACKc' \in [Thread -> Seq(Int)]
      /\ \A u \in Thread : u # t => STACKc'[u] = STACKc[u]
      /\ top # 0
      /\ Len(r) = top - 1
      /\ \A i \in 1..(top - 1) : r[i] = s[i]
  BY <1>1, PopStep DEF CriticalInv
<1>4. /\ Agree(t)
      /\ \A i \in Nat : i # top => (PieceAt(t, i)' <=> PieceAt(t, i))
      /\ PieceAt(t, top) /\ ~PieceAt(t, top)'
  BY <1>1, <1>2, PiecesPopped
<1>5. SameTickets(t)
  BY <1>1, <1>2, PopKeeps DEF ReverseSlc, CriticalInv, TopShape, TopShapeOf
<1>6. \A u \in Thread : u # t => KeepsPieces(u)
  BY <1>1, <1>3, PieceIdle
<1>7. ASSUME NEW i \in Nat, i # top, NEW l \in Critical, NEW n \in Int
      PROVE  PieceOf(t, i, l, n)' <=> PieceOf(t, i, l, n)
  <2>1. CASE PieceAt(t, i)
    <3>1. i > 0 /\ PieceAt(t, i)'
      BY <1>4, <1>7, <2>1 DEF PieceAt
    <3>2. Unticketed(t, i)' <=> Unticketed(t, i)
      BY <1>1, <1>2, <3>1, UnticketedPop
    <3>3. \A j \in Nat : Under(t, i, j, l, n)' <=> Under(t, i, j, l, n)
      BY <1>3, <1>4, <1>5, <3>1, UnderKept
    <3> QED BY <1>1, <2>1, <3>1, <3>2, <3>3 DEF PieceOf
  <2>2. CASE ~PieceAt(t, i)
    BY <1>4, <1>7, <2>2 DEF PieceOf
  <2> QED BY <2>1, <2>2
<1>8. ASSUME NEW l \in Critical, NEW n \in Int
      PROVE  /\ PieceOf(t, top, l, n) <=> l = cur[t] /\ n = a_l[l]
             /\ ~PieceOf(t, top, l, n)'
  <2>1. Unticketed(t, top)
    BY <1>2 DEF Unticketed
  <2>2. \A j \in Nat : ~Under(t, top, j, l, n)
    BY DEF Under, TicketAt
  <2> QED BY <1>4, <2>1, <2>2 DEF PieceOf
<1>9. \A i \in Nat, l \in Critical, n \in Int :
        PieceOf(t, i, l, n) => i <= top /\ i \in 1..top /\ s[i] \in Slc
  BY DEF PieceOf, PieceAt
<1>10. PICK f \in Nat : f = Len(g) /\ f = Cardinality(Pieces(s)) /\ f # 0
  BY <1>1 DEF CriticalInv, StacksAligned
<1>11. /\ STACKf'[t] = Pop(g)
       /\ \A u \in Thread : u # t => STACKf'[u] = STACKf[u]
  BY <1>1
<1>12. \A j \in 1..(f - 1) : STACKf'[t][j] = g[j]
  BY <1>1, <1>10, <1>11, PopFacts
<1>13. g[Len(g)] = Saved(t, top)
  BY <1>1, <1>10, RankTop DEF Saved
<1>14. Cardinality(Pieces(r)) = f - 1
  <2>1. r = Pop(s)
    BY <1>1 DEF PopC, CriticalInv, TypeOK
  <2>2. Cardinality(Pieces(Pop(s))) = Cardinality(Pieces(s)) - 1
    BY <1>1, <1>2, PiecesPop
  <2> QED BY <1>10, <2>1, <2>2
<1>15. ASSUME NEW u \in Thread, NEW i \in Nat, NEW l \in Critical, NEW n \in Int,
              PieceOf(u, i, l, n), ~(u = t /\ i = top)
       PROVE  Saved(u, i)' = Saved(u, i)
  <2>1. CASE u # t
    BY <1>3, <1>11, <2>1 DEF Saved
  <2>2. CASE u = t
    <3>1. i \in 1..(top - 1) /\ s[i] \in Slc
      BY <1>9, <1>15, <2>2
    <3>2. i \in Pieces(r) /\ r \in Seq(Int) /\ Len(s) = Len(r) + 1
          /\ \A j \in 1..Len(r) : s[j] = r[j]
      <4>1. r \in Seq(Int) /\ Len(s) = Len(r) + 1 /\ \A j \in 1..Len(r) : s[j] = r[j]
        <5>1. r \in Seq(Int)
          BY <1>3
        <5>2. Len(s) = Len(r) + 1
          BY <1>3
        <5>3. \A j \in 1..Len(r) : s[j] = r[j]
          BY <1>3
        <5> QED BY <5>1, <5>2, <5>3
      <4>2. i \in 1..Len(r) /\ r[i] = s[i]
        BY <1>3, <3>1
      <4>3. i \in Pieces(r)
        BY <3>1, <4>2 DEF Pieces
      <4> QED BY <4>1, <4>3
    <3> HIDE DEF s, r
    <3>3. /\ Rank(s, i) = Rank(r, i)
          /\ Rank(r, i) \in 1..(f - 1)
      BY <1>1, <1>14, <3>2, RankBelow
    <3> QED BY <1>12, <2>2, <3>3 DEF Saved, s, r
  <2> QED BY <2>1, <2>2
<1> QED BY <1>1, <1>6, <1>7, <1>8, <1>9, <1>13, <1>15 DEF KeepsPieces

LEMMA ReverseRestored ==
  ASSUME CriticalInv, UndoInv, OwnVariable,
         NEW t \in Thread, ReverseSlc(t), NEW l \in Critical
  PROVE  Restored(l)'
<1> DEFINE c == cur[t]
<1>1. PICK top \in Nat : top = Len(STACKc[t])
  BY DEF CriticalInv, TypeOK
<1>2. c \in Critical /\ a_l[c] \in Int /\ pc[t] = "replay" /\ mem \in [Var -> Value]
  BY PushedInt DEF ReverseSlc, CriticalInv, TypeOK
<1>3. /\ \A u \in Thread, i \in Nat, m \in Critical, n \in Int :
           ~(u = t /\ i = top) =>
             /\ PieceOf(u, i, m, n)' <=> PieceOf(u, i, m, n)
             /\ PieceOf(u, i, m, n) => Saved(u, i)' = Saved(u, i)
      /\ \A m \in Critical, n \in Int :
           /\ PieceOf(t, top, m, n) <=> m = c /\ n = a_l[m]
           /\ ~PieceOf(t, top, m, n)'
      /\ mem' = [mem EXCEPT ![Touches[c]] = Saved(t, top)]
      /\ \A i \in Nat, m \in Critical, n \in Int : PieceOf(t, i, m, n) => i <= top
  BY <1>1, ReversePieces
<1>4. Restored(l)
  BY DEF UndoInv
<1>5. CASE l # c
  <2>1. mem'[Touches[l]] = mem[Touches[l]]
    BY <1>2, <1>3, <1>5, ConstantsAssumption DEF OwnVariable
  <2>2. \A u \in Thread, i \in Nat, n \in Int :
          /\ PieceOf(u, i, l, n)' <=> PieceOf(u, i, l, n)
          /\ PieceOf(u, i, l, n) => Saved(u, i)' = Saved(u, i)
    BY <1>3, <1>5
  <2>3. \A u \in Thread, i \in Nat, n \in Int : First(u, i, l, n)' <=> First(u, i, l, n)
    BY <2>2 DEF First
  <2> QED BY <1>4, <2>1, <2>2, <2>3 DEF Restored
<1>6. CASE l = c
  <2>1. \A n \in Int : PieceOf(t, top, l, n) <=> n = a_l[c]
    BY <1>3, <1>6
  <2>2. ASSUME NEW u \in Thread, NEW i \in Nat, NEW n \in Int, PieceOf(u, i, l, n)
        PROVE  (n = a_l[c] /\ u = t /\ i <= top) \/ n < a_l[c]
    BY <1>2, <1>3, <1>6, <2>2, Latest DEF UndoInv
  <2>3. ASSUME \A u \in Thread, i \in Nat, n \in Int : ~PieceOf(u, i, l, n)'
        PROVE  mem'[Touches[l]] = InitValue
    <3>1. First(t, top, l, a_l[c])
      <4> SUFFICES ASSUME NEW w \in Thread, NEW j \in Nat, NEW m \in Int, PieceOf(w, j, l, m)
                   PROVE  w = t /\ j = top /\ m = a_l[c]
        BY <1>2 DEF First
      <4> QED BY <1>3, <2>1, <2>3
    <3>2. Saved(t, top) = InitValue
      BY <1>2, <1>4, <2>1, <3>1 DEF Restored
    <3> QED BY <1>2, <1>3, <1>6, <3>2, ConstantsAssumption
  <2>4. ASSUME NEW u \in Thread, NEW i \in Nat, NEW n \in Int,
               PieceOf(u, i, l, n)', First(u, i, l, n)'
        PROVE  Saved(u, i)' = InitValue
    <3>1. ~(u = t /\ i = top)
      BY <1>3, <2>4
    <3>2. PieceOf(u, i, l, n) /\ Saved(u, i)' = Saved(u, i)
      BY <1>3, <2>4, <3>1
    <3>3. ASSUME NEW w \in Thread, NEW j \in Nat, NEW m \in Int, PieceOf(w, j, l, m)
          PROVE  ~(m < n \/ (w = u /\ j < i))
      <4>1. CASE w = t /\ j = top
        <5>1. m = a_l[c]
          BY <2>1, <3>3, <4>1
        <5>2. (n = a_l[c] /\ u = t /\ i <= top) \/ n < a_l[c]
          BY <2>2, <3>2
        <5>3. u = t => i <= top
          BY <1>3, <3>2
        <5> QED BY <1>2, <4>1, <5>1, <5>2, <5>3
      <4>2. CASE ~(w = t /\ j = top)
        BY <1>3, <2>4, <3>3, <4>2 DEF First
      <4> QED BY <4>1, <4>2
    <3>4. First(u, i, l, n)
      BY <3>3 DEF First
    <3> QED BY <1>4, <3>2, <3>4 DEF Restored
  <2> QED BY <2>3, <2>4 DEF Restored
<1> QED BY <1>5, <1>6

(* A step changes no variable that no construct writes. *)
LEMMA UntouchedStep ==
  ASSUME CriticalInv, RunningHeld, Untouched, [Next]_vars
  PROVE  Untouched'
<1>1. ASSUME NEW t \in Thread, NEW s \in Slc, NEW v \in Value, ForwardSlc(t, s, v)
      PROVE  Untouched'
  <2>1. cur[t] \in Critical /\ mem \in [Var -> Value]
    BY <1>1, PushedInt DEF ForwardSlc, CriticalInv, TypeOK
  <2> QED BY <1>1, <2>1 DEF ForwardSlc, Untouched
<1>2. ASSUME NEW t \in Thread, ReverseSlc(t)
      PROVE  Untouched'
  <2>1. cur[t] \in Critical /\ mem \in [Var -> Value]
    BY <1>2, PushedInt DEF ReverseSlc, CriticalInv, TypeOK
  <2> QED BY <1>2, <2>1 DEF ReverseSlc, Untouched
<1>3. CASE PiecesKept
  BY <1>3 DEF PiecesKept, Untouched
<1> QED BY <1>1, <1>2, <1>3, KeptOrBody

(* Before the first construct is run there is nothing to undo. *)
LEMMA InitUndoInv == Init => UndoInv
<1> SUFFICES ASSUME Init
             PROVE  UndoInv
  OBVIOUS
<1>1. \A t \in Thread, i \in Nat : ~PieceAt(t, i)
  BY DEF Init, PieceAt
<1>2. RunningHeld /\ DoneEmpty
  BY <1>1 DEF Init, RunningHeld, DoneEmpty, AllTicketed
<1>3. Untouched /\ \A l \in Critical : Restored(l)
  BY <1>1, ConstantsAssumption DEF Init, Untouched, Restored, PieceOf
<1> QED BY <1>2, <1>3 DEF UndoInv

LEMMA NextUndoInv ==
  ASSUME OwnVariable, CriticalInv, UndoInv, [Next]_vars
  PROVE  UndoInv'
<1>1. RunningHeld' /\ DoneEmpty' /\ Untouched'
  BY RunningStep, DoneStep, UntouchedStep DEF UndoInv
<1>2. \A l \in Critical : Restored(l)'
  BY KeptOrBody, KeptRestored, ForwardRestored, ReverseRestored DEF UndoInv
<1> QED BY <1>1, <1>2 DEF UndoInv

(* When every thread is through no ticket and no saved value is left, so   *)
(* every counter stands where it started: the region can be entered again. *)
THEOREM CountersReturn ==
  Spec => [](Finished => /\ a_l = CounterInit
                         /\ \A t \in Thread : STACKc[t] = <<>> /\ STACKf[t] = <<>>)
<1>1. ASSUME CriticalInv, DoneEmpty, Finished
      PROVE  /\ a_l = CounterInit
             /\ \A t \in Thread : STACKc[t] = <<>> /\ STACKf[t] = <<>>
  <2>1. \A t \in Thread : STACKc[t] = <<>>
    BY <1>1 DEF DoneEmpty, Finished
  <2>2. ASSUME NEW t \in Thread
        PROVE  STACKf[t] = <<>>
    <3>1. Pieces(STACKc[t]) = {}
      BY <2>1 DEF Pieces
    <3>2. Len(STACKf[t]) = 0 /\ STACKf[t] \in Seq(Value)
      BY <1>1, <3>1, FS_EmptySet DEF CriticalInv, StacksAligned, TypeOK
    <3> QED BY <3>2
  <2>3. ASSUME NEW l \in Critical
        PROVE  a_l[l] = CounterInit[l]
    <3>1. a_l[l] \in Int /\ CounterInit[l] \in Nat /\ CounterInit[l] <= a_l[l]
      BY <1>1, LabelFacts DEF CriticalInv, TypeOK, CountersBounded
    <3>2. Issued(l) = {}
      BY <1>1, <2>1 DEF CriticalInv, TicketsThere, HasTicket
    <3> QED BY <3>1, <3>2 DEF Issued
  <2>4. a_l = CounterInit
    BY <1>1, <2>3, ConstantsAssumption DEF CriticalInv, TypeOK
  <2> QED BY <2>1, <2>2, <2>4
<1>2. Init => DoneEmpty
  BY InitUndoInv DEF UndoInv
<1>3. CriticalInv /\ DoneEmpty /\ [Next]_vars => DoneEmpty'
  BY DoneStep
<1>4. CriticalInv /\ DoneEmpty =>
        (Finished => /\ a_l = CounterInit
                     /\ \A t \in Thread : STACKc[t] = <<>> /\ STACKf[t] = <<>>)
  BY <1>1
<1> QED BY <1>2, <1>3, <1>4, CriticalInvariant, PTL DEF Spec

(* The region undoes itself: when every thread is through the shared       *)
(* variables have their entry values again, the counters and the stacks    *)
(* theirs, however the threads took turns. The constructs have variables   *)
(* of their own: two that write the same variable are each undone last     *)
(* execution first, but not in the order in which they mixed.              *)
THEOREM RegionUndoesItself ==
  ASSUME OwnVariable
  PROVE  Spec => []RegionUndone
<1>1. ASSUME CriticalInv, UndoInv, Finished
      PROVE  mem = [x \in Var |-> InitValue]
  <2>1. \A t \in Thread, i \in Nat, l \in Critical, n \in Int : ~PieceOf(t, i, l, n)
    BY <1>1 DEF UndoInv, DoneEmpty, Finished, PieceOf, PieceAt
  <2>2. \A l \in Critical : mem[Touches[l]] = InitValue
    BY <1>1, <2>1 DEF UndoInv, Restored
  <2>3. \A x \in Var : mem[x] = InitValue
    BY <1>1, <2>2 DEF UndoInv, Untouched
  <2> QED BY <1>1, <2>3 DEF CriticalInv, TypeOK
<1>2. CriticalInv /\ UndoInv => (Finished => mem = [x \in Var |-> InitValue])
  BY <1>1
<1>3. CriticalInv /\ UndoInv /\ [Next]_vars => UndoInv'
  BY NextUndoInv
<1>4. Init => UndoInv
  BY InitUndoInv
<1>5. /\ Finished => mem = [x \in Var |-> InitValue]
      /\ Finished => /\ a_l = CounterInit
                     /\ \A t \in Thread : STACKc[t] = <<>> /\ STACKf[t] = <<>>
      => RegionUndone
  BY DEF RegionUndone
<1> QED BY <1>2, <1>3, <1>4, <1>5, CriticalInvariant, CountersReturn, PTL DEF Spec

-------------------------------------------------------------------------------
(* The counters and tickets implement SectionOrder: CriticalInv makes the   *)
(* holder of every issued ticket unique, each step leaves the tickets that  *)
(* stay issued with their holders, and only CountTicket and TakeTurn change *)
(* how many there are.                                                       *)

(* Issued tickets are no labels. *)
LEMMA IssuedNoLabel ==
  ASSUME CriticalInv, NEW l \in Critical, NEW n \in Issued(l)
  PROVE  n \in Int /\ n \notin Label
<1>1. CounterInit[l] \in Nat /\ a_l[l] \in Int
  BY LabelFacts DEF CriticalInv, TypeOK
<1>2. n \in Int /\ n >= CounterInit[l] - 1
  BY <1>1 DEF Issued
<1> QED BY <1>2, LabelFacts

(* Where the issued ticket of a thread lies. *)
LEMMA TicketPlace ==
  ASSUME CriticalInv, NEW l \in Critical, NEW n \in Issued(l), NEW t \in Thread
  PROVE  HasTicket(t, l, n) <=> \E i \in Nat : TicketAt(t, i) /\ IsTicket(t, i, l, n)
<1>1. n \notin Label
  BY IssuedNoLabel
<1>2. 1..Len(STACKc[t]) \subseteq Nat
  BY DEF CriticalInv, TypeOK
<1> QED BY <1>1, <1>2 DEF HasTicket, TicketAt, IsTicket

(* An issued ticket has one holder. *)
LEMMA HolderIs ==
  ASSUME CriticalInv, NEW l \in Critical, NEW n \in Issued(l)
  PROVE  /\ Holder(l, n) \in Thread
         /\ \A t \in Thread : HasTicket(t, l, n) <=> t = Holder(l, n)
<1>1. PICK t \in Thread : HasTicket(t, l, n)
  BY DEF CriticalInv, TicketsThere
<1>2. Holder(l, n) \in Thread /\ HasTicket(Holder(l, n), l, n)
  BY <1>1 DEF Holder
<1>3. ASSUME NEW u \in Thread, NEW v \in Thread, HasTicket(u, l, n), HasTicket(v, l, n)
      PROVE  u = v
  <2>1. PICK i \in Nat : TicketAt(u, i) /\ IsTicket(u, i, l, n)
    BY <1>3, TicketPlace
  <2>2. PICK j \in Nat : TicketAt(v, j) /\ IsTicket(v, j, l, n)
    BY <1>3, TicketPlace
  <2> QED BY <2>1, <2>2, TicketFacts DEF IsTicket
<1> QED BY <1>2, <1>3

(* A ticket that stays issued stays with its thread. *)
LEMMA TicketStays ==
  ASSUME CriticalInv, [Next]_vars, NEW l \in Critical, NEW n \in Issued(l),
         n \in Issued(l)', NEW u \in Thread, HasTicket(u, l, n)
  PROVE  HasTicket(u, l, n)'
<1> SUFFICES \E i \in Nat : TicketAt(u, i)' /\ IsTicket(u, i, l, n)'
  BY DEF HasTicket, TicketAt
<1>a. PICK i \in Nat : TicketAt(u, i) /\ IsTicket(u, i, l, n)
  BY TicketPlace
<1>b. a_l[l] \in Int /\ CounterInit[l] \in Nat
  BY LabelFacts DEF CriticalInv, TypeOK
<1>1. CASE TicketsKept
  BY <1>1, <1>a DEF TicketsKept, SameTickets, IsTicket
<1>2. ASSUME NEW t \in Thread, IssueTicket(t)
      PROVE  TicketAt(u, i)' /\ IsTicket(u, i, l, n)'
  <2>1. CASE u = t
    <3>1. i # Len(STACKc[t]) + 1
      BY <1>2, <1>a, <2>1, IssueFacts DEF TicketAt
    <3> QED BY <1>2, <1>a, <2>1, <3>1, IssuedAt DEF IsTicket
  <2>2. CASE u # t
    BY <1>2, <1>a, <2>2, IssueFacts DEF SameTickets, IsTicket
  <2> QED BY <2>1, <2>2
<1>3. ASSUME NEW t \in Thread, CountTicket(t)
      PROVE  TicketAt(u, i)' /\ IsTicket(u, i, l, n)'
  <2>1. STACKc' = STACKc /\ cur' = cur
    BY <1>3 DEF CountTicket
  <2> QED BY <2>1, <1>a DEF TicketAt, IsTicket, Owner
<1>4. ASSUME NEW t \in Thread, TakeTurn(t)
      PROVE  TicketAt(u, i)' /\ IsTicket(u, i, l, n)'
  <2>1. /\ cur[t] \in Critical /\ a_l[cur[t]] \in Int /\ a_l \in [Critical -> Int]
        /\ a_l' = [a_l EXCEPT ![cur[t]] = @ - 1]
    BY <1>4, TurnFacts DEF CriticalInv, TypeOK
  <2>2. l = cur[t] => n # a_l[cur[t]] - 1
    BY <1>b, <2>1 DEF Issued
  <2>3. CASE u = t
    <3>1. i # Len(STACKc[t])
      BY <1>4, <2>2, <1>a, <2>3, TurnFacts DEF IsTicket
    <3> QED BY <1>4, <1>a, <2>3, <3>1, TurnAt DEF IsTicket
  <2>4. CASE u # t
    BY <1>4, <1>a, <2>4, TurnFacts DEF SameTickets, IsTicket
  <2> QED BY <2>3, <2>4
<1> QED BY <1>a, <1>1, <1>2, <1>3, <1>4, KeptOrTicket

(* Every issued ticket has one holder. *)
HoldersUnique ==
  \A l \in Critical : \A n \in Issued(l) : \A t \in Thread :
    HasTicket(t, l, n) <=> t = Holder(l, n)

\* The tickets on the stacks are unique, so the thread that holds a given ticket is too.
LEMMA HoldersAreUnique == CriticalInv => HoldersUnique
BY HolderIs DEF HoldersUnique

(* And so does its holder. *)
LEMMA HolderStays ==
  ASSUME CriticalInv, CriticalInv', [Next]_vars
  PROVE  \A l \in Critical : \A n \in Issued(l) :
           n \in Issued(l)' => Holder(l, n)' = Holder(l, n)
<1>1. HoldersUnique'
  BY HoldersAreUnique, PTL
<1> SUFFICES ASSUME NEW l \in Critical, NEW n \in Issued(l), n \in Issued(l)'
             PROVE  Holder(l, n)' = Holder(l, n)
  OBVIOUS
<1>2. PICK u \in Thread : u = Holder(l, n) /\ HasTicket(u, l, n)
  BY HolderIs
<1>3. HasTicket(u, l, n)'
  BY <1>2, TicketStays
<1>4. \A t \in Thread : HasTicket(t, l, n)' <=> t = Holder(l, n)'
  BY <1>1 DEF HoldersUnique
<1> QED BY <1>2, <1>3, <1>4

(* The sequence of a function on 1..n, what its longer and its shorter      *)
(* sibling are.                                                            *)
LEMMA FunSeq ==
  ASSUME NEW S, NEW n \in Nat, NEW f \in [1..n -> S]
  PROVE  f \in Seq(S) /\ Len(f) = n /\ Len(f) \in Nat
<1>1. f \in Seq(S)
  BY SeqDef
<1>2. 1..Len(f) = 1..n /\ Len(f) \in Nat
  BY <1>1, LenProperties
<1> QED BY <1>1, <1>2

\* A function on 1..n, extended by one more value, is the sequence with that value appended.
LEMMA FunAppend ==
  ASSUME NEW S, NEW n \in Nat, NEW f \in [1..n -> S], NEW g \in [1..(n + 1) -> S],
         \A i \in 1..n : g[i] = f[i]
  PROVE  g = Append(f, g[n + 1])
<1>1. f \in Seq(S) /\ Len(f) = n
  BY FunSeq
<1>2. n + 1 \in Nat /\ n + 1 \in 1..(n + 1)
  OBVIOUS
<1>3. g \in Seq(S) /\ Len(g) = n + 1 /\ g[n + 1] \in S
  BY <1>2, FunSeq
<1>4. /\ Append(f, g[n + 1]) \in Seq(S)
      /\ Len(Append(f, g[n + 1])) = n + 1
      /\ \A i \in 1..n : Append(f, g[n + 1])[i] = f[i]
      /\ Append(f, g[n + 1])[n + 1] = g[n + 1]
  BY <1>1, <1>3, AppendProperties
<1>5. \A i \in 1..(n + 1) : g[i] = Append(f, g[n + 1])[i]
  <2>1. \A i \in 1..(n + 1) : i \in 1..n \/ i = n + 1
    OBVIOUS
  <2> QED BY <1>4, <2>1
<1> QED BY <1>3, <1>4, <1>5, SeqEqual

\* A function on 1..n, cut by its last value, is the front of the sequence.
LEMMA FunShorten ==
  ASSUME NEW S, NEW n \in Nat, n # 0, NEW f \in [1..n -> S], NEW g \in [1..(n - 1) -> S],
         \A i \in 1..(n - 1) : g[i] = f[i]
  PROVE  f # <<>> /\ Len(f) = n /\ g = SubSeq(f, 1, Len(f) - 1)
<1>1. f \in Seq(S) /\ Len(f) = n
  BY FunSeq
<1>2. PICK m \in Nat : m = n - 1
  OBVIOUS
<1>3. g \in [1..m -> S]
  BY <1>2
<1>4. g \in Seq(S) /\ Len(g) = m
  BY <1>3, FunSeq
<1>5. /\ SubSeq(f, 1, m) \in Seq(S)
      /\ Len(SubSeq(f, 1, m)) = m
      /\ \A i \in 1..m : SubSeq(f, 1, m)[i] = f[i]
  BY <1>1, <1>2
<1>6. g = SubSeq(f, 1, m)
  BY <1>2, <1>4, <1>5, SeqEqual
<1> QED BY <1>1, <1>2, <1>6

(* What the trail of a construct holds. *)
TrailShape ==
  /\ trail = [l \in Critical |-> trail[l]]
  /\ \A l \in Critical :
       /\ a_l[l] - CounterInit[l] \in Nat
       /\ trail[l] \in [1..(a_l[l] - CounterInit[l]) -> Thread]
       /\ \A k \in 1..(a_l[l] - CounterInit[l]) :
            /\ CounterInit[l] + k - 1 \in Issued(l)
            /\ trail[l][k] = Holder(l, CounterInit[l] + k - 1)

\* The trail of a construct has one place for each ticket issued and not taken back.
LEMMA TrailHasShape == CriticalInv => TrailShape
<1> SUFFICES ASSUME CriticalInv
             PROVE  TrailShape
  OBVIOUS
<1>1. ASSUME NEW l \in Critical
      PROVE  /\ a_l[l] - CounterInit[l] \in Nat
             /\ \A k \in 1..(a_l[l] - CounterInit[l]) :
                  CounterInit[l] + k - 1 \in Issued(l)
  <2>1. CounterInit[l] \in Nat /\ a_l[l] \in Int /\ CounterInit[l] <= a_l[l]
    BY LabelFacts DEF CriticalInv, TypeOK, CountersBounded
  <2> QED BY <2>1 DEF Issued
<1>2. ASSUME NEW l \in Critical
      PROVE  /\ trail[l] \in [1..(a_l[l] - CounterInit[l]) -> Thread]
             /\ \A k \in 1..(a_l[l] - CounterInit[l]) :
                  trail[l][k] = Holder(l, CounterInit[l] + k - 1)
  <2>1. \A k \in 1..(a_l[l] - CounterInit[l]) : Holder(l, CounterInit[l] + k - 1) \in Thread
    BY <1>1, HolderIs
  <2>2. trail[l] = [k \in 1..(a_l[l] - CounterInit[l]) |-> Holder(l, CounterInit[l] + k - 1)]
    BY DEF trail
  <2> HIDE DEF Holder
  <2> QED BY <2>1, <2>2
<1>3. trail = [l \in Critical |-> trail[l]]
  BY DEF trail
<1> QED BY <1>1, <1>2, <1>3 DEF TrailShape

(* As long as no ticket is counted and none is taken, the trail stays. *)
LEMMA TrailStays ==
  ASSUME CriticalInv, CriticalInv', [Next]_vars
  PROVE  \A l \in Critical : a_l'[l] = a_l[l] => trail'[l] = trail[l]
<1>1. TrailShape
  BY TrailHasShape
<1>2. TrailShape'
  BY TrailHasShape, PTL
<1> SUFFICES ASSUME NEW l \in Critical, a_l'[l] = a_l[l]
             PROVE  trail'[l] = trail[l]
  OBVIOUS
<1>3. PICK n \in Nat : n = a_l[l] - CounterInit[l]
  BY <1>1 DEF TrailShape
<1>4. trail[l] \in [1..n -> Thread] /\ trail'[l] \in [1..n -> Thread]
  BY <1>1, <1>2, <1>3 DEF TrailShape
<1>5. \A k \in 1..n : trail'[l][k] = trail[l][k]
  <2> SUFFICES ASSUME NEW k \in 1..n
               PROVE  trail'[l][k] = trail[l][k]
    OBVIOUS
  <2>1. PICK m : m = CounterInit[l] + k - 1
    OBVIOUS
  <2>2. /\ m \in Issued(l) /\ trail[l][k] = Holder(l, m)
        /\ m \in Issued(l)' /\ trail'[l][k] = Holder(l, m)'
    BY <1>1, <1>2, <1>3, <2>1 DEF TrailShape
  <2> QED BY <2>2, HolderStays
<1> QED BY <1>4, <1>5

(* Only the barrier begins the reverse section. *)
LEMMA ReversingStep ==
  ASSUME CriticalInv, [Next]_vars
  PROVE  \/ reversing' = reversing
         \/ CrossBarrier /\ ~reversing
<1>1. ASSUME NEW t \in Thread, Forward(t) \/ Backward(t)
      PROVE  /\ pc'[t] \in ReverseAt <=> pc[t] \in ReverseAt
             /\ \A u \in Thread : u # t => pc'[u] = pc[u]
  BY <1>1 DEF CriticalInv, TypeOK, Forward, Backward, Goto, ReverseAt,
       OpenSection, EnterSection, ForwardSlc, IssueTicket, CountTicket, LeaveSection,
       CloseSection, EndForward, OpenReverse, AskForTurn, NotMyTurn, TakeTurn,
       ReverseSlc, LeaveReverse, CloseReverse, EndReverse
<1>2. ASSUME NEW t \in Thread, Forward(t) \/ Backward(t)
      PROVE  reversing' = reversing
  BY <1>1, <1>2 DEF reversing
<1>3. CASE CrossBarrier
  BY <1>3 DEF CrossBarrier, reversing, ReverseAt
<1>4. CASE UNCHANGED vars
  BY <1>4 DEF vars, reversing
<1> QED BY <1>2, <1>3, <1>4 DEF Next, Terminated

(* Counting a ticket is an execution of the construct by its thread. *)
LEMMA CountStep ==
  ASSUME CriticalInv, CriticalInv', [Next]_vars, NEW t \in Thread, CountTicket(t)
  PROVE  \E l \in Critical : Order!Execute(t, l)
<1>1. PICK l \in Critical : l = cur[t]
  BY PushedInt DEF CountTicket
<1>2. /\ STACKc' = STACKc /\ cur' = cur /\ a_l \in [Critical -> Int]
      /\ a_l' = [a_l EXCEPT ![l] = @ + 1]
  BY <1>1 DEF CountTicket, CriticalInv, TypeOK
<1>3. CounterInit[l] \in Nat /\ a_l[l] \in Int /\ a_l'[l] = a_l[l] + 1
  BY <1>2, LabelFacts
<1>4. TrailShape /\ TrailShape' /\ HoldersUnique'
  BY TrailHasShape, HoldersAreUnique, PTL
<1>5. PICK n \in Nat : n = a_l[l] - CounterInit[l]
  BY <1>4 DEF TrailShape
<1>6. a_l'[l] - CounterInit[l] = n + 1
  BY <1>3, <1>5
<1>7. trail[l] \in [1..n -> Thread] /\ trail'[l] \in [1..(n + 1) -> Thread]
  BY <1>4, <1>5, <1>6 DEF TrailShape
<1>8. \A k \in 1..n : trail'[l][k] = trail[l][k]
  <2> SUFFICES ASSUME NEW k \in 1..n
               PROVE  trail'[l][k] = trail[l][k]
    OBVIOUS
  <2>1. k \in 1..(n + 1)
    OBVIOUS
  <2>2. PICK m : m = CounterInit[l] + k - 1
    OBVIOUS
  <2>3. /\ m \in Issued(l) /\ trail[l][k] = Holder(l, m)
        /\ m \in Issued(l)' /\ trail'[l][k] = Holder(l, m)'
    BY <1>4, <1>5, <1>6, <2>1, <2>2 DEF TrailShape
  <2> QED BY <2>3, HolderStays
<1>9. trail'[l][n + 1] = t
  <2>1. PICK m \in Int : m = a_l[l] /\ m = CounterInit[l] + (n + 1) - 1
    BY <1>3, <1>5
  <2>2. n + 1 \in 1..(n + 1)
    OBVIOUS
  <2>3. m \in Issued(l)' /\ trail'[l][n + 1] = Holder(l, m)'
    BY <1>4, <1>6, <2>1, <2>2 DEF TrailShape
  <2>4. /\ STACKc[t] \in Seq(Int) /\ Len(STACKc[t]) > 0
        /\ STACKc[t][Len(STACKc[t])] = m
    BY <1>1, <2>1 DEF CountTicket, CriticalInv, TypeOK, TopShape, TopShapeOf
  <2>5. IsTicket(t, Len(STACKc[t]), l, m) /\ Len(STACKc[t]) \in 1..Len(STACKc[t])
    BY <1>1, <2>4 DEF IsTicket, Owner
  <2>6. HasTicket(t, l, m)'
    BY <1>2, <2>5 DEF HasTicket, IsTicket, Owner
  <2> QED BY <1>4, <2>3, <2>6 DEF HoldersUnique
<1>10. trail'[l] = Append(trail[l], t)
  BY <1>7, <1>8, <1>9, FunAppend
<1>11. \A j \in Critical : j # l => trail'[j] = trail[j]
  BY <1>2, TrailStays
<1>12. /\ trail = [j \in Critical |-> trail[j]]
       /\ trail' = [j \in Critical |-> trail'[j]]
  BY <1>4 DEF TrailShape
<1> HIDE DEF trail
<1>13. trail' = [trail EXCEPT ![l] = Append(@, t)]
  BY <1>10, <1>11, <1>12
<1>14. pc[t] = "count"
  BY DEF CountTicket
<1>15. ~reversing
  BY <1>14 DEF CriticalInv, PhaseShared, ReverseAt
<1>16. reversing' = reversing
  BY <1>14, ReversingStep DEF CrossBarrier
<1> QED BY <1>13, <1>15, <1>16 DEF Order!Execute

(* Taking a turn reverses the last execution still standing. *)
LEMMA TurnStep ==
  ASSUME CriticalInv, CriticalInv', [Next]_vars, NEW t \in Thread, TakeTurn(t)
  PROVE  \E l \in Critical : Order!Reverse(t, l)
<1>1. PICK l \in Critical : l = cur[t]
  BY TurnFacts
<1>2. /\ a_l \in [Critical -> Int] /\ a_l' = [a_l EXCEPT ![l] = @ - 1]
  BY <1>1, TurnFacts DEF CriticalInv, TypeOK
<1>3. CounterInit[l] \in Nat /\ a_l[l] \in Int /\ a_l'[l] = a_l[l] - 1
  BY <1>2, LabelFacts
<1>4. TrailShape /\ TrailShape'
  BY TrailHasShape, PTL
<1>5. PICK n \in Nat : n = a_l[l] - CounterInit[l]
  BY <1>4 DEF TrailShape
<1>6. PICK m \in Int : m = a_l[l] - 1
  BY <1>3
<1>7. HasTicket(t, l, m) /\ m \in Issued(l)
  <2>1. /\ STACKc[t] \in Seq(Int) /\ Len(STACKc[t]) # 0
        /\ STACKc[t][Len(STACKc[t])] = m /\ STACKc[t][Len(STACKc[t])] \notin Label
        /\ Owner(t, Len(STACKc[t])) = l
    BY <1>1, <1>6, TurnFacts
  <2>2. Len(STACKc[t]) \in 1..Len(STACKc[t]) /\ Len(STACKc[t]) \in Nat
    BY <2>1
  <2>3. TicketBounded(t, Len(STACKc[t]))
    BY <2>2 DEF CriticalInv, TicketsBounded
  <2>4. CounterInit[l] <= m
    BY <2>1, <2>3 DEF TicketBounded
  <2> QED BY <1>3, <1>6, <2>1, <2>2, <2>4 DEF HasTicket, IsTicket, Issued
<1>8. n # 0 /\ a_l'[l] - CounterInit[l] = n - 1 /\ CounterInit[l] + n - 1 = m
  BY <1>3, <1>5, <1>6, <1>7 DEF Issued
<1>9. trail[l] \in [1..n -> Thread] /\ trail'[l] \in [1..(n - 1) -> Thread]
  BY <1>4, <1>5, <1>8 DEF TrailShape
<1>10. \A k \in 1..(n - 1) : trail'[l][k] = trail[l][k]
  <2> SUFFICES ASSUME NEW k \in 1..(n - 1)
               PROVE  trail'[l][k] = trail[l][k]
    OBVIOUS
  <2>1. k \in 1..n
    OBVIOUS
  <2>2. PICK i : i = CounterInit[l] + k - 1
    OBVIOUS
  <2>3. /\ i \in Issued(l) /\ trail[l][k] = Holder(l, i)
        /\ i \in Issued(l)' /\ trail'[l][k] = Holder(l, i)'
    BY <1>4, <1>5, <1>8, <2>1, <2>2 DEF TrailShape
  <2> QED BY <2>3, HolderStays
<1>11. trail[l][n] = t
  <2>1. n \in 1..n
    BY <1>8
  <2>2. trail[l][n] = Holder(l, m)
    BY <1>4, <1>5, <1>8, <2>1 DEF TrailShape
  <2> QED BY <1>7, <2>2, HolderIs
<1> HIDE DEF trail
<1>12. /\ trail[l] # <<>> /\ Len(trail[l]) = n
       /\ trail'[l] = SubSeq(trail[l], 1, Len(trail[l]) - 1)
  BY <1>8, <1>9, <1>10, FunShorten
<1>13. \A j \in Critical : j # l => trail'[j] = trail[j]
  BY <1>2, TrailStays
<1>14. /\ trail = [j \in Critical |-> trail[j]]
       /\ trail' = [j \in Critical |-> trail'[j]]
  BY <1>4 DEF TrailShape
<1>15. trail' = [trail EXCEPT ![l] = SubSeq(@, 1, Len(@) - 1)]
  BY <1>12, <1>13, <1>14
<1>16. pc[t] = "turn"
  BY DEF TakeTurn
<1>17. reversing
  BY <1>16 DEF reversing, ReverseAt
<1>18. reversing' = reversing
  BY <1>16, ReversingStep DEF CrossBarrier
<1> QED BY <1>11, <1>12, <1>15, <1>17, <1>18 DEF Order!Reverse

(* The counters touched by the other steps. *)
LEMMA CountersKept ==
  ASSUME [Next]_vars, \A t \in Thread : ~CountTicket(t) /\ ~TakeTurn(t)
  PROVE  a_l' = a_l
BY DEF Next, Forward, Backward, Terminated, vars, CrossBarrier,
   OpenSection, EnterSection, ForwardSlc, IssueTicket, LeaveSection,
   CloseSection, EndForward, OpenReverse, AskForTurn, NotMyTurn,
   ReverseSlc, LeaveReverse, CloseReverse, EndReverse

(* Every step of the team is a step of SectionOrder or none. *)
LEMMA OrderStep ==
  ASSUME CriticalInv, CriticalInv', [Next]_vars
  PROVE  [Order!SNext]_(Order!svars)
<1>1. ASSUME NEW t \in Thread, CountTicket(t)
      PROVE  Order!SNext
  BY <1>1, CountStep DEF Order!SNext
<1>2. ASSUME NEW t \in Thread, TakeTurn(t)
      PROVE  Order!SNext
  BY <1>2, TurnStep DEF Order!SNext
<1>3. ASSUME \A t \in Thread : ~CountTicket(t) /\ ~TakeTurn(t)
      PROVE  [Order!SNext]_(Order!svars)
  <2>1. a_l' = a_l
    BY <1>3, CountersKept
  <2>2. TrailShape /\ TrailShape'
    BY TrailHasShape, PTL
  <2>3. \A l \in Critical : trail'[l] = trail[l]
    BY <2>1, TrailStays
  <2>4. /\ trail = [l \in Critical |-> trail[l]]
        /\ trail' = [l \in Critical |-> trail'[l]]
    BY <2>2 DEF TrailShape
  <2>5. reversing \in BOOLEAN /\ reversing' \in BOOLEAN
    BY DEF reversing
  <2> HIDE DEF trail, reversing
  <2>6. trail' = trail
    BY <2>3, <2>4
  <2> QED BY <2>5, <2>6, ReversingStep DEF Order!SNext, Order!TurnAround, Order!svars
<1> QED BY <1>1, <1>2, <1>3

\* At the start no execution is on the trail.
LEMMA OrderInit == Init => Order!SInit
<1> SUFFICES ASSUME Init
             PROVE  Order!SInit
  OBVIOUS
<1>1. ~reversing
  BY DEF Init, reversing, ReverseAt
<1>2. TrailShape
  BY InitCriticalInv, TrailHasShape
<1>3. ASSUME NEW l \in Critical
      PROVE  trail[l] = <<>>
  <2>1. a_l[l] - CounterInit[l] = 0
    BY LabelFacts DEF Init
  <2>2. trail[l] \in [1..0 -> Thread]
    BY <1>2, <2>1 DEF TrailShape
  <2>3. trail[l] \in Seq(Thread) /\ Len(trail[l]) = 0
    BY <2>2, FunSeq
  <2> QED BY <2>3
<1>4. trail = [l \in Critical |-> trail[l]]
  BY <1>2 DEF TrailShape
<1> HIDE DEF trail
<1>5. trail = [l \in Critical |-> <<>>]
  BY <1>3, <1>4
<1> QED BY <1>1, <1>5 DEF Order!SInit

(* The spin loops on tickets and counters reverse every critical construct *)
(* last execution first, each by the thread that ran it, and none while    *)
(* the forward section still runs: the adjoint code implements             *)
(* SectionOrder, for any team, set of constructs and number of executions. *)
THEOREM ReversesLastFirst == Spec => ReversedLastFirst
<1>1. Init => Order!SInit
  BY OrderInit
<1>2. CriticalInv /\ CriticalInv' /\ [Next]_vars => [Order!SNext]_(Order!svars)
  BY OrderStep
<1> QED BY <1>1, <1>2, CriticalInvariant, PTL DEF Spec, ReversedLastFirst, Order!SSpec
===============================================================================

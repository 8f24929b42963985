------------------------- MODULE ControlReversalProofs -------------------------
(***************************************************************************)
(* Every region of assignments, conditionals, loops and master constructs  *)
(* is reversed, whichever way its tests come out. The invariant relates    *)
(* three things: the labels on STACKc stand for whole straight-line runs   *)
(* of the assignments not undone yet, the saved values stand for these     *)
(* assignments one by one, and the head of the generated code says how far *)
(* into the run at the top control is.                                     *)
(***************************************************************************)
EXTENDS ControlReversal, SequenceTheorems, WellFoundedInduction, TLAPS

(* No worksharing loop: sigma and rho of one do not agree (AssignmentsKept). *)
NoForLoop ==
  \A p \in Program : \A v \in DOMAIN p : \A k \in DOMAIN p[v] : p[v][k].op # "for"

(* The straight-line runs that the sequences are divided into, and those    *)
(* that end them: everything a label may stand for.                         *)
Runs ==
  UNION { { RunFrom(prog[v], k) : k \in { j \in DOMAIN prog[v] : IsSlc(prog[v][j]) } }
          : v \in DOMAIN prog }

Done == Len(made) - Len(undone)
StmtAt(i) == made[i].slc[made[i].k]
LabelsAt(i) == IF i = 0 THEN 0 ELSE made[i].labels
SavesAt(i) == IF i = 0 THEN [o \in Kinds |-> 0] ELSE made[i].saves

-------------------------------------------------------------------------------
(* The history runs through whole runs, one label and one saved value at a  *)
(* time, and each assignment changes its own variable only.                 *)
RunChain(i) ==
  IF made[i].k = 1
  THEN /\ made[i].labels = LabelsAt(i - 1) + 1
       /\ i > 1 => made[i - 1].k = Len(made[i - 1].slc)
  ELSE /\ i > 1
       /\ made[i].slc = made[i - 1].slc
       /\ made[i].k = made[i - 1].k + 1
       /\ made[i].labels = made[i - 1].labels

SaveChain(i) == made[i].saves = [SavesAt(i - 1) EXCEPT ![StmtAt(i).op] = @ + 1]

EnvChain(i) ==
  IF i = 1 THEN made[i].before = [w \in Var |-> 0]
  ELSE \A w \in Var \ {StmtAt(i - 1).var} : made[i].before[w] = made[i - 1].before[w]

HistoryInv ==
  \A i \in 1..Len(made) :
    /\ made[i].slc \in Runs
    /\ made[i].k \in 1..Len(made[i].slc)
    /\ made[i].labels > 0
    /\ RunChain(i)
    /\ SaveChain(i)
    /\ EnvChain(i)

(* What is on the stacks is what the assignments pushed. *)
LabelHeld(i) ==
  made[i].labels <= Len(STACKc) => STACKc[made[i].labels] = made[i].slc[1].id

SaveHeld(i) ==
  LET o == StmtAt(i).op
      d == made[i].saves[o]
  IN  d <= Len(STACKv[o]) => STACKv[o][d] = made[i].before[StmtAt(i).var]

HeldInv == \A i \in 1..Len(made) : LabelHeld(i) /\ SaveHeld(i)

(* The variables are those behind the last assignment not undone. *)
EnvInv ==
  IF Done = 0 THEN env = [w \in Var |-> 0]
  ELSE \A w \in Var \ {StmtAt(Done).var} : env[w] = made[Done].before[w]

UndoneInv ==
  /\ Len(undone) <= Len(made)
  /\ \A k \in 1..Len(undone) : undone[k] = StmtAt(Len(made) - k + 1).id
  /\ undone # <<>> => env = made[Done + 1].before

-------------------------------------------------------------------------------
(* L labels stand for all the runs made and not undone, each of them whole. *)
Between(L) ==
  /\ L = LabelsAt(Done)
  /\ Done > 0 => made[Done].k = Len(made[Done].slc)

(* The L-th label stands for S, whose first k statements are made. *)
Within(S, k, L) ==
  IF k = 0 THEN Between(L - 1)
  ELSE /\ Done > 0
       /\ made[Done].slc = S
       /\ made[Done].k = k
       /\ made[Done].labels = L

(* One value is saved for each assignment, or one more for s. *)
Saved == \A o \in Kinds : Len(STACKv[o]) = SavesAt(Done)[o]
SavedFor(s) ==
  \A o \in Kinds : Len(STACKv[o]) = SavesAt(Done)[o] + (IF o = s.op THEN 1 ELSE 0)

(* The code from the n-th instruction on is code of the forward section, or *)
(* of the reverse section, and ends with the reverse loop.                   *)
ForwardItems ==
  [g : {"sigma"}, v : DOMAIN prog, k : Nat \ {0}]
  \cup [g : {"if", "while", "master"}, v : DOMAIN prog]
ReverseItems ==
  [g : {"rho"}, v : DOMAIN prog, k : Nat \ {0}] \cup [g : {"iftop"}, slc : Runs]

Ends(t, items, n) ==
  /\ Len(t) >= n
  /\ t[Len(t)] = ReverseLoop
  /\ \A j \in n..(Len(t) - 1) : t[j] \in items

ForwardFrom(n) == Ends(todo, ForwardItems, n)
ReverseFrom(n) == Ends(todo, ReverseItems, n)

-------------------------------------------------------------------------------
(* Where control is in the forward section. *)
Going == ForwardFrom(1) /\ Between(Len(STACKc)) /\ Saved

Labelling(S) ==
  /\ ForwardFrom(3)
  /\ todo[1] = PushLabel(S[1].id)
  /\ todo[2] = SlcFrom(S, 1)
  /\ Between(Len(STACKc))
  /\ Saved

Labelled(S, k) ==
  /\ STACKc # <<>>
  /\ Top(STACKc) = S[1].id
  /\ Within(S, k - 1, Len(STACKc))

Making(S, k) ==
  /\ ForwardFrom(2)
  /\ todo[1] = SlcFrom(S, k)
  /\ Labelled(S, k)
  /\ Saved

Saving(S, k) ==
  /\ ForwardFrom(4)
  /\ k <= Len(S)
  /\ todo[1] = Save(S, k)
  /\ todo[2] = Assign(S, k)
  /\ todo[3] = SlcFrom(S, k + 1)
  /\ Labelled(S, k)
  /\ Saved

Assigning(S, k) ==
  /\ ForwardFrom(3)
  /\ k <= Len(S)
  /\ todo[1] = Assign(S, k)
  /\ todo[2] = SlcFrom(S, k + 1)
  /\ Labelled(S, k)
  /\ SavedFor(S[k])
  /\ Top(STACKv[S[k].op]) = env[S[k].var]

AllHeld ==
  \A i \in 1..Len(made) :
    /\ made[i].labels <= Len(STACKc)
    /\ made[i].saves[StmtAt(i).op] <= Len(STACKv[StmtAt(i).op])

InForward ==
  /\ undone = <<>>
  /\ AllHeld
  /\ \/ Going
     \/ \E S \in Runs :
          \/ Labelling(S)
          \/ \E k \in 1..(Len(S) + 1) : Making(S, k) \/ Saving(S, k) \/ Assigning(S, k)

(* Where control is in the reverse section; the label of the run that is     *)
(* being undone is popped.                                                   *)
Looking == ReverseFrom(1) /\ Between(Len(STACKc)) /\ Saved

Finished == todo = <<>> /\ STACKc = <<>> /\ Between(0) /\ Saved

Unlabelling(S) ==
  /\ ReverseFrom(3)
  /\ todo[1] = PopLabel
  /\ todo[2] = SlcBack(S, Len(S))
  /\ STACKc # <<>>
  /\ Top(STACKc) = S[1].id
  /\ Between(Len(STACKc))
  /\ Saved

Undoing(S, k) ==
  /\ ReverseFrom(2)
  /\ todo[1] = SlcBack(S, k)
  /\ Within(S, k, Len(STACKc) + 1)
  /\ Saved

Restoring(S, k) ==
  /\ ReverseFrom(4)
  /\ k > 0
  /\ todo[1] = Restore(S, k)
  /\ todo[2] = PopSaved(S, k)
  /\ todo[3] = SlcBack(S, k - 1)
  /\ Within(S, k, Len(STACKc) + 1)
  /\ Saved

Popping(S, k) ==
  /\ ReverseFrom(3)
  /\ k > 0
  /\ todo[1] = PopSaved(S, k)
  /\ todo[2] = SlcBack(S, k - 1)
  /\ Within(S, k - 1, Len(STACKc) + 1)
  /\ SavedFor(S[k])

InReverse ==
  \/ Looking
  \/ Finished
  \/ \E S \in Runs :
       \/ Unlabelling(S)
       \/ \E k \in 0..Len(S) : Undoing(S, k) \/ Restoring(S, k) \/ Popping(S, k)

DataInv == HistoryInv /\ HeldInv /\ EnvInv /\ UndoneInv

ReversalInv == prog \in Program /\ TypeOK /\ DataInv /\ (InForward \/ InReverse)

-------------------------------------------------------------------------------
(* Sequences.                                                              *)

(* A set of numbers has a least one. *)
LEMMA LeastNumber ==
  ASSUME NEW S, S \subseteq Nat, S # {}
  PROVE  \E m \in S : \A r \in S : m <= r
<1>1. PICK m \in S : \A r \in S : ~(<<r, m>> \in OpToRel(<, Nat))
  BY WFMin, NatLessThanWellFounded, Zenon
<1>2. ASSUME NEW r \in S
      PROVE  m <= r
  <2>1. r \in Nat /\ m \in Nat
    OBVIOUS
  <2>2. ~(r < m)
    BY <1>1, <2>1 DEF OpToRel
  <2> QED BY <2>1, <2>2
<1> QED BY <1>2

(* What replaces the first instruction comes first, then the others. *)
LEMMA Resumed ==
  ASSUME NEW X, NEW t \in Seq(X), t # <<>>, NEW c \in Seq(X), NEW u, u = c \o Tail(t)
  PROVE  /\ u \in Seq(X)
         /\ Len(u) = Len(c) + Len(t) - 1
         /\ \A j \in 1..Len(c) : u[j] = c[j]
         /\ \A j \in (Len(c) + 1)..Len(u) : u[j] = t[j - Len(c) + 1]
<1>1. /\ Tail(t) \in Seq(X)
      /\ Len(Tail(t)) = Len(t) - 1
      /\ \A i \in 1..Len(Tail(t)) : Tail(t)[i] = t[i + 1]
  BY HeadTailProperties
<1>2. Len(t) \in Nat \ {0} /\ Len(c) \in Nat
  BY EmptySeq, LenProperties
<1>3. /\ u \in Seq(X)
      /\ Len(u) = Len(c) + Len(Tail(t))
      /\ \A i \in 1..(Len(c) + Len(Tail(t))) :
           u[i] = IF i <= Len(c) THEN c[i] ELSE Tail(t)[i - Len(c)]
  BY <1>1, ConcatProperties
<1>4. \A j \in 1..Len(c) : u[j] = c[j]
  BY <1>1, <1>2, <1>3
<1>5. ASSUME NEW j \in (Len(c) + 1)..Len(u)
      PROVE  u[j] = t[j - Len(c) + 1]
  <2>1. j - Len(c) \in 1..Len(Tail(t)) /\ j \in 1..(Len(c) + Len(Tail(t))) /\ ~(j <= Len(c))
    BY <1>1, <1>2, <1>3
  <2>2. u[j] = Tail(t)[j - Len(c)]
    BY <1>3, <2>1
  <2> QED BY <1>1, <2>1, <2>2
<1> QED BY <1>1, <1>2, <1>3, <1>4, <1>5

(* The second instruction follows what replaces the first. *)
LEMMA EndsFrom ==
  ASSUME NEW X, NEW t \in Seq(X), t # <<>>, NEW c \in Seq(X), NEW u, u = c \o Tail(t),
         NEW items, Ends(t, items, 2),
         NEW m \in Nat \ {0}, m <= Len(c) + 1, \A j \in m..Len(c) : c[j] \in items
  PROVE  Ends(u, items, m)
<1>0. Len(t) \in Nat /\ Len(c) \in Nat /\ Len(t) >= 2
  BY LenProperties DEF Ends
<1>1. /\ Len(u) = Len(c) + Len(t) - 1
      /\ \A j \in 1..Len(c) : u[j] = c[j]
      /\ \A j \in (Len(c) + 1)..Len(u) : u[j] = t[j - Len(c) + 1]
  BY Resumed
<1>2. Len(u) >= m /\ Len(u) \in Nat
  BY <1>0, <1>1
<1>3. u[Len(u)] = ReverseLoop
  <2>1. Len(u) \in (Len(c) + 1)..Len(u) /\ Len(u) - Len(c) + 1 = Len(t)
    BY <1>0, <1>1
  <2> QED BY <1>1, <2>1 DEF Ends
<1>4. ASSUME NEW j \in m..(Len(u) - 1)
      PROVE  u[j] \in items
  <2>1. CASE j <= Len(c)
    BY <1>0, <1>1, <2>1
  <2>2. CASE j > Len(c)
    <3>1. j \in (Len(c) + 1)..Len(u) /\ j - Len(c) + 1 \in 2..(Len(t) - 1)
      BY <1>0, <1>1, <2>2
    <3> QED BY <1>1, <3>1 DEF Ends
  <2> QED BY <1>0, <2>1, <2>2
<1> QED BY <1>2, <1>3, <1>4 DEF Ends

(* The n-th instruction moves by the length of what replaces the first. *)
LEMMA EndsShift ==
  ASSUME NEW X, NEW t \in Seq(X), t # <<>>, NEW c \in Seq(X), NEW u, u = c \o Tail(t),
         NEW items, NEW n \in Nat, n >= 2, Ends(t, items, n)
  PROVE  Ends(u, items, Len(c) + n - 1)
<1>0. Len(t) \in Nat /\ Len(c) \in Nat /\ Len(t) >= n
  BY LenProperties DEF Ends
<1>1. /\ Len(u) = Len(c) + Len(t) - 1
      /\ \A j \in (Len(c) + 1)..Len(u) : u[j] = t[j - Len(c) + 1]
  BY Resumed
<1>2. Len(u) >= Len(c) + n - 1 /\ Len(u) \in Nat
  BY <1>0, <1>1
<1>3. u[Len(u)] = ReverseLoop
  <2>1. Len(u) \in (Len(c) + 1)..Len(u) /\ Len(u) - Len(c) + 1 = Len(t)
    BY <1>0, <1>1
  <2> QED BY <1>1, <2>1 DEF Ends
<1>4. ASSUME NEW j \in (Len(c) + n - 1)..(Len(u) - 1)
      PROVE  u[j] \in items
  <2>1. j \in (Len(c) + 1)..Len(u) /\ j - Len(c) + 1 \in n..(Len(t) - 1)
    BY <1>0, <1>1
  <2> QED BY <1>1, <2>1 DEF Ends
<1> QED BY <1>2, <1>3, <1>4 DEF Ends

(* Only the last instruction is the reverse loop. *)
LEMMA EndsHead ==
  ASSUME NEW X, NEW t \in Seq(X), NEW items, Ends(t, items, 1), ReverseLoop \notin items
  PROVE  /\ t # <<>> /\ Head(t) = t[1]
         /\ t[1] = ReverseLoop => Len(t) = 1 /\ Tail(t) = <<>>
         /\ t[1] # ReverseLoop => t[1] \in items /\ Ends(t, items, 2)
<1>0. Len(t) \in Nat /\ Len(t) >= 1
  BY LenProperties DEF Ends
<1>1. t # <<>> /\ Head(t) = t[1]
  BY <1>0, EmptySeq
<1>2. ASSUME t[1] = ReverseLoop PROVE Len(t) = 1 /\ Tail(t) = <<>>
  <2>1. Len(t) = 1
    <3>0. \A n \in Nat : n >= 1 => n = 1 \/ 1 \in 1..(n - 1)
      OBVIOUS
    <3>1. Len(t) = 1 \/ 1 \in 1..(Len(t) - 1)
      BY <1>0, <3>0, Zenon
    <3>2. 1 \in 1..(Len(t) - 1) => t[1] \in items
      BY DEF Ends
    <3> QED BY <1>2, <3>1, <3>2
  <2>2. Tail(t) \in Seq(X) /\ Len(Tail(t)) = 0
    BY <1>1, <2>1, HeadTailProperties
  <2> QED BY <2>1, <2>2, EmptySeq
<1>3. ASSUME t[1] # ReverseLoop PROVE t[1] \in items /\ Ends(t, items, 2)
  <2>1. Len(t) >= 2
    BY <1>0, <1>3 DEF Ends
  <2> QED BY <1>0, <2>1 DEF Ends
<1> QED BY <1>1, <1>2, <1>3

-------------------------------------------------------------------------------
(* Straight-line runs.                                                     *)

(* A run goes on to the statement before the next one of control flow. *)
LEMMA RunEndExists ==
  ASSUME NEW X, NEW S \in Seq(X), NEW k \in 1..Len(S), IsSlc(S[k])
  PROVE  /\ RunEnd(S, k) \in k..Len(S)
         /\ \A j \in k..RunEnd(S, k) : IsSlc(S[j])
<1>0. Len(S) \in Nat /\ k \in Nat
  BY LenProperties
<1> DEFINE Q == { e \in Nat : e >= k /\ e <= Len(S) /\ (e = Len(S) \/ ~IsSlc(S[e + 1])) }
<1>1. Len(S) \in Q
  BY <1>0
<1>2. Q \subseteq Nat /\ Q # {}
  BY <1>1
<1>3. PICK m \in Q : \A r \in Q : m <= r
  <2> HIDE DEF Q
  <2> QED BY <1>2, LeastNumber
<1>4. m \in k..Len(S) /\ (m = Len(S) \/ ~IsSlc(S[m + 1]))
  BY <1>0
<1>5. ASSUME NEW j \in k..m PROVE IsSlc(S[j])
  <2>1. CASE j = k
    BY <2>1
  <2>2. CASE j # k
    <3>1. j - 1 \in Nat /\ j - 1 >= k /\ j - 1 <= Len(S) /\ ~(m <= j - 1) /\ j - 1 + 1 = j
      BY <1>0, <1>4, <2>2
    <3>2. j - 1 \notin Q
      BY <1>3, <3>1
    <3> QED BY <3>1, <3>2
  <2> QED BY <2>1, <2>2
<1>6. \E e \in k..Len(S) : /\ \A j \in k..e : IsSlc(S[j])
                           /\ e = Len(S) \/ ~IsSlc(S[e + 1])
  BY <1>4, <1>5
<1> QED BY <1>6 DEF RunEnd

(* The sequences of a region. *)
LEMMA RegionFacts ==
  ASSUME NEW p \in Program, NEW v \in DOMAIN p
  PROVE  /\ p[v] \in Seq(Assignments \cup Constructs \cup ForLoops)
         /\ \A k \in 1..Len(p[v]) :
              /\ k \in DOMAIN p[v]
              /\ p[v][k] \in Assignments \cup Constructs \cup ForLoops
              /\ p[v][k].id \in Nat
              /\ IsSlc(p[v][k]) => p[v][k] \in Assignments
              /\ ~IsSlc(p[v][k]) => p[v][k].id \in DOMAIN p
              /\ NoForLoop /\ ~IsSlc(p[v][k]) => p[v][k] \in Constructs
<1>1. p[v] \in Seq(Assignments \cup Constructs \cup ForLoops)
  BY ConstantsAssumption DEF WellFormed
<1>2. DOMAIN p[v] = 1..Len(p[v])
  BY <1>1, LenProperties
<1>3. ASSUME NEW k \in 1..Len(p[v])
      PROVE  /\ k \in DOMAIN p[v]
             /\ p[v][k] \in Assignments \cup Constructs \cup ForLoops
             /\ p[v][k].id \in Nat
             /\ IsSlc(p[v][k]) => p[v][k] \in Assignments
             /\ ~IsSlc(p[v][k]) => p[v][k].id \in DOMAIN p
             /\ NoForLoop /\ ~IsSlc(p[v][k]) => p[v][k] \in Constructs
  <2>1. p[v][k] \in Assignments \cup Constructs \cup ForLoops
    BY <1>1, ElementOfSeq
  <2>2. p[v][k].id \in Nat
    BY <2>1 DEF Assignments, Constructs, ForLoops
  <2>3. IsSlc(p[v][k]) => p[v][k] \in Assignments
    BY <2>1 DEF Constructs, ForLoops, IsSlc, Kinds
  <2>4. ~IsSlc(p[v][k]) => p[v][k].id \in DOMAIN p
    BY <1>2, ConstantsAssumption DEF WellFormed
  <2>5. NoForLoop /\ ~IsSlc(p[v][k]) => p[v][k] \in Constructs
    BY <1>2, <2>1 DEF Assignments, ForLoops, IsSlc, NoForLoop
  <2> QED BY <1>2, <2>1, <2>2, <2>3, <2>4, <2>5
<1> QED BY <1>1, <1>3

(* A run is a part of a sequence. *)
LEMMA RunPart ==
  ASSUME NEW p \in Program, NEW v \in DOMAIN p, NEW k \in 1..Len(p[v]), IsSlc(p[v][k])
  PROVE  /\ k \in Nat \ {0} /\ RunEnd(p[v], k) \in Nat \ {0} /\ k <= RunEnd(p[v], k)
         /\ \A i \in k..RunEnd(p[v], k) : p[v][i] \in Assignments
<1>0. p[v] \in Seq(Assignments \cup Constructs \cup ForLoops)
  BY RegionFacts
<1>1. /\ RunEnd(p[v], k) \in k..Len(p[v])
      /\ \A j \in k..RunEnd(p[v], k) : IsSlc(p[v][j])
  BY <1>0, RunEndExists
<1>2. k \in Nat \ {0} /\ RunEnd(p[v], k) \in Nat \ {0} /\ Len(p[v]) \in Nat
  BY <1>0, <1>1, LenProperties
<1>3. \A i \in k..RunEnd(p[v], k) : p[v][i] \in Assignments
  BY <1>1, <1>2, RegionFacts
<1> QED BY <1>1, <1>2, <1>3

LEMMA PartFacts ==
  ASSUME NEW X, NEW S, NEW k \in Nat \ {0}, NEW e \in Nat \ {0}, k <= e,
         \A i \in k..e : S[i] \in X
  PROVE  /\ SubSeq(S, k, e) \in Seq(X)
         /\ Len(SubSeq(S, k, e)) \in Nat \ {0}
         /\ SubSeq(S, k, e)[1] = S[k]
<1>1. /\ SubSeq(S, k, e) \in Seq(X)
      /\ Len(SubSeq(S, k, e)) = e - k + 1
      /\ \A i \in 1..(e - k + 1) : SubSeq(S, k, e)[i] = S[k + i - 1]
  BY SubSeqProperties
<1>2. 1 \in 1..(e - k + 1) /\ k + 1 - 1 = k /\ e - k + 1 \in Nat \ {0}
  OBVIOUS
<1> QED BY <1>1, <1>2

LEMMA RunFromFacts ==
  ASSUME NEW p \in Program, NEW v \in DOMAIN p, NEW k \in 1..Len(p[v]), IsSlc(p[v][k])
  PROVE  /\ RunFrom(p[v], k) \in Seq(Assignments)
         /\ Len(RunFrom(p[v], k)) \in Nat \ {0}
  BY RunPart, PartFacts DEF RunFrom

LEMMA RunFromFirst ==
  ASSUME NEW p \in Program, NEW v \in DOMAIN p, NEW k \in 1..Len(p[v]), IsSlc(p[v][k])
  PROVE  RunFrom(p[v], k)[1] = p[v][k]
  BY RunPart, PartFacts DEF RunFrom

(* Every run is such a part. *)
LEMMA RunFacts ==
  ASSUME prog \in Program, NEW S \in Runs
  PROVE  /\ S \in Seq(Assignments)
         /\ Len(S) \in Nat \ {0}
         /\ \A k \in 1..Len(S) : /\ S[k] \in Assignments
                                 /\ S[k].op \in Kinds
                                 /\ S[k].var \in Var
                                 /\ S[k].id \in Nat
<1>1. PICK v \in DOMAIN prog : \E k \in DOMAIN prog[v] : IsSlc(prog[v][k]) /\ S = RunFrom(prog[v], k)
  BY DEF Runs
<1>2. PICK k \in DOMAIN prog[v] : IsSlc(prog[v][k]) /\ S = RunFrom(prog[v], k)
  BY <1>1
<1>3. k \in 1..Len(prog[v])
  BY RegionFacts, LenProperties
<1>4. S \in Seq(Assignments) /\ Len(S) \in Nat \ {0}
  BY <1>2, <1>3, RunFromFacts
<1>5. \A j \in 1..Len(S) : S[j] \in Assignments
  BY <1>4, ElementOfSeq
<1> QED BY <1>4, <1>5 DEF Assignments

(* A run starts with the statement that names it. *)
LEMMA RunStart ==
  ASSUME prog \in Program, NEW S \in Runs
  PROVE  \E v \in DOMAIN prog : \E k \in DOMAIN prog[v] :
           S = RunFrom(prog[v], k) /\ S[1] = prog[v][k]
<1>1. PICK v \in DOMAIN prog : \E k \in DOMAIN prog[v] : IsSlc(prog[v][k]) /\ S = RunFrom(prog[v], k)
  BY DEF Runs
<1>2. PICK k \in DOMAIN prog[v] : IsSlc(prog[v][k]) /\ S = RunFrom(prog[v], k)
  BY <1>1
<1>3. k \in 1..Len(prog[v])
  BY RegionFacts, LenProperties
<1>4. RunFrom(prog[v], k)[1] = prog[v][k]
  BY <1>2, <1>3, RunFromFirst
<1> QED BY <1>2, <1>4

(* The label of a run is the label of no other one. *)
LEMMA LabelNamesRun ==
  ASSUME prog \in Program, NEW S \in Runs, NEW T \in Runs, S[1].id = T[1].id
  PROVE  S = T
<1>1. PICK v \in DOMAIN prog : \E k \in DOMAIN prog[v] : S = RunFrom(prog[v], k) /\ S[1] = prog[v][k]
  BY RunStart
<1>2. PICK k \in DOMAIN prog[v] : S = RunFrom(prog[v], k) /\ S[1] = prog[v][k]
  BY <1>1
<1>3. PICK w \in DOMAIN prog : \E j \in DOMAIN prog[w] : T = RunFrom(prog[w], j) /\ T[1] = prog[w][j]
  BY RunStart
<1>4. PICK j \in DOMAIN prog[w] : T = RunFrom(prog[w], j) /\ T[1] = prog[w][j]
  BY <1>3
<1>5. v = w /\ k = j
  BY <1>2, <1>4, ConstantsAssumption DEF WellFormed
<1> QED BY <1>2, <1>4, <1>5

LEMMA RunFromIsRun ==
  ASSUME NEW v \in DOMAIN prog, NEW k \in DOMAIN prog[v], IsSlc(prog[v][k])
  PROVE  RunFrom(prog[v], k) \in Runs
  BY DEF Runs

-------------------------------------------------------------------------------
(* Generated code.                                                         *)

LEMMA TupleSeq ==
  ASSUME NEW X, NEW a \in X, NEW b \in X, NEW c \in X
  PROVE  /\ <<>> \in Seq(X) /\ Len(<<>>) = 0
         /\ <<a>> \in Seq(X) /\ Len(<<a>>) = 1
         /\ <<a, b>> \in Seq(X) /\ Len(<<a, b>>) = 2
         /\ <<a, b, c>> \in Seq(X) /\ Len(<<a, b, c>>) = 3
  OBVIOUS

LEMMA AppendTuple ==
  ASSUME NEW a, NEW b, NEW c
  PROVE  Append(<<a>>, b) = <<a, b>> /\ Append(<<a, b>>, c) = <<a, b, c>>
<1> DEFINE X == {a, b, c}
<1>0. a \in X /\ b \in X /\ c \in X
  OBVIOUS
<1> HIDE DEF X
<1>1. /\ <<a>> \in Seq(X) /\ Len(<<a>>) = 1
      /\ <<a, b>> \in Seq(X) /\ Len(<<a, b>>) = 2
      /\ <<a, b, c>> \in Seq(X) /\ Len(<<a, b, c>>) = 3
  BY <1>0, TupleSeq
<1>2. Append(<<a>>, b) = <<a, b>>
  <2>1. /\ Append(<<a>>, b) \in Seq(X)
        /\ Len(Append(<<a>>, b)) = 2
        /\ Append(<<a>>, b)[1] = a
        /\ Append(<<a>>, b)[2] = b
    BY <1>0, <1>1, AppendProperties
  <2>2. \A i \in 1..2 : Append(<<a>>, b)[i] = <<a, b>>[i]
    BY <2>1
  <2> QED BY <1>1, <2>1, <2>2, SeqEqual
<1>3. Append(<<a, b>>, c) = <<a, b, c>>
  <2>1. /\ Append(<<a, b>>, c) \in Seq(X)
        /\ Len(Append(<<a, b>>, c)) = 3
        /\ Append(<<a, b>>, c)[1] = a
        /\ Append(<<a, b>>, c)[2] = b
        /\ Append(<<a, b>>, c)[3] = c
    BY <1>0, <1>1, AppendProperties
  <2>2. \A i \in 1..3 : Append(<<a, b>>, c)[i] = <<a, b, c>>[i]
    BY <2>1
  <2> QED BY <1>1, <2>1, <2>2, SeqEqual
<1> QED BY <1>2, <1>3

(* The instructions of the straight-line runs. *)
LEMMA RunInstructions ==
  ASSUME prog \in Program, NEW S \in Runs, NEW k \in Nat
  PROVE  /\ PushLabel(S[1].id) \in Instructions
         /\ SlcFrom(S, k) \in Instructions
         /\ Save(S, k) \in Instructions
         /\ Assign(S, k) \in Instructions
         /\ IfTop(S) \in Instructions
         /\ PopLabel \in Instructions
         /\ SlcBack(S, k) \in Instructions
         /\ Restore(S, k) \in Instructions
         /\ PopSaved(S, k) \in Instructions
<1>1. S \in Seq(Assignments) /\ S[1].id \in Nat
  BY RunFacts
<1>2. PushLabel(S[1].id) \in Instructions
  BY <1>1 DEF Instructions, PushLabel
<1>3. SlcFrom(S, k) \in Instructions
  BY <1>1 DEF Instructions, SlcFrom
<1>4. Save(S, k) \in Instructions
  BY <1>1 DEF Instructions, Save
<1>5. Assign(S, k) \in Instructions
  BY <1>1 DEF Instructions, Assign
<1>6. IfTop(S) \in Instructions
  BY <1>1 DEF Instructions, IfTop
<1>7. PopLabel \in Instructions
  BY DEF Instructions, PopLabel
<1>8. SlcBack(S, k) \in Instructions
  BY <1>1 DEF Instructions, SlcBack
<1>9. Restore(S, k) \in Instructions
  BY <1>1 DEF Instructions, Restore
<1>10. PopSaved(S, k) \in Instructions
  BY <1>1 DEF Instructions, PopSaved
<1> QED BY <1>2, <1>3, <1>4, <1>5, <1>6, <1>7, <1>8, <1>9, <1>10

(* The instructions that stand for sequences and constructs. *)
LEMMA SequenceInstructions ==
  ASSUME NEW v \in DOMAIN prog, NEW k \in Nat \ {0}
  PROVE  /\ SigmaFrom(v, k) \in ForwardItems
         /\ RhoFrom(v, k) \in ReverseItems
         /\ SigmaFrom(v, k) \in Instructions
         /\ RhoFrom(v, k) \in Instructions
<1>1. SigmaFrom(v, k) \in ForwardItems
  BY DEF ForwardItems, SigmaFrom
<1>2. RhoFrom(v, k) \in ReverseItems
  BY DEF ReverseItems, RhoFrom
<1>3. SigmaFrom(v, k) \in Instructions
  BY DEF Instructions, SigmaFrom
<1>4. RhoFrom(v, k) \in Instructions
  BY DEF Instructions, RhoFrom
<1> QED BY <1>1, <1>2, <1>3, <1>4

(* What the instructions of the two sections are, by their names. *)
LEMMA ForwardItem ==
  ASSUME NEW i \in ForwardItems
  PROVE  /\ i # ReverseLoop
         /\ \/ /\ i.g = "sigma" /\ i.v \in DOMAIN prog /\ i.k \in Nat \ {0}
            \/ /\ i.g \in {"if", "while", "master"} /\ i.v \in DOMAIN prog
  BY DEF ForwardItems, ReverseLoop

LEMMA ReverseItem ==
  ASSUME NEW i \in ReverseItems
  PROVE  /\ i # ReverseLoop
         /\ \/ /\ i.g = "rho" /\ i.v \in DOMAIN prog /\ i.k \in Nat \ {0}
            \/ /\ i.g = "iftop" /\ i.slc \in Runs
  BY DEF ReverseItems, ReverseLoop

(* Sigma of a sequence: nothing, a labelled run, or a construct. *)
LEMMA SigmaSeqShape ==
  ASSUME prog \in Program, NoForLoop, NEW v \in DOMAIN prog, NEW k \in Nat \ {0}
  PROVE  \/ SigmaSeq(prog, v, k) = <<>>
         \/ \E S \in Runs, e \in Nat \ {0} :
              SigmaSeq(prog, v, k) = <<PushLabel(S[1].id), SlcFrom(S, 1), SigmaFrom(v, e)>>
         \/ \E i \in [g : {"if", "while", "master"}, v : DOMAIN prog] :
              SigmaSeq(prog, v, k) = <<i, SigmaFrom(v, k + 1)>>
<1>1. CASE k > Len(prog[v])
  BY <1>1 DEF SigmaSeq
<1>2. CASE ~(k > Len(prog[v])) /\ IsSlc(prog[v][k])
  <2>1. k \in 1..Len(prog[v]) /\ k \in DOMAIN prog[v]
    BY <1>2, RegionFacts, LenProperties
  <2>2. RunFrom(prog[v], k) \in Runs
    BY <1>2, <2>1, RunFromIsRun
  <2>3. RunEnd(prog[v], k) + 1 \in Nat \ {0}
    <3>1. RunEnd(prog[v], k) \in Nat
      BY <1>2, <2>1, RunPart
    <3> QED BY <3>1
  <2>4. SigmaSeq(prog, v, k)
          = Append(SigmaSlc(RunFrom(prog[v], k)), SigmaFrom(v, RunEnd(prog[v], k) + 1))
    BY <1>2 DEF SigmaSeq
  <2>6. SigmaSeq(prog, v, k)
          = <<PushLabel(RunFrom(prog[v], k)[1].id), SlcFrom(RunFrom(prog[v], k), 1),
              SigmaFrom(v, RunEnd(prog[v], k) + 1)>>
    BY <2>4, AppendTuple DEF SigmaSlc
  <2> QED BY <2>2, <2>3, <2>6
<1>3. CASE ~(k > Len(prog[v])) /\ ~IsSlc(prog[v][k])
  <2>1. k \in 1..Len(prog[v])
    BY <1>3, RegionFacts, LenProperties
  <2>2. prog[v][k] \in Constructs /\ prog[v][k].id \in DOMAIN prog
    BY <1>3, <2>1, RegionFacts
  <2>3. [g |-> prog[v][k].op, v |-> prog[v][k].id] \in [g : {"if", "while", "master"}, v : DOMAIN prog]
    BY <2>2 DEF Constructs
  <2>4. Sigma(prog[v][k]) = <<[g |-> prog[v][k].op, v |-> prog[v][k].id]>>
    BY <2>2 DEF Constructs, Sigma, SigmaConditional
  <2>5. SigmaSeq(prog, v, k) = Append(Sigma(prog[v][k]), SigmaFrom(v, k + 1))
    BY <1>3 DEF SigmaSeq
  <2>7. SigmaSeq(prog, v, k) = <<[g |-> prog[v][k].op, v |-> prog[v][k].id], SigmaFrom(v, k + 1)>>
    BY <2>4, <2>5, AppendTuple
  <2> QED BY <2>3, <2>7
<1> QED BY <1>1, <1>2, <1>3

(* Rho of a sequence: nothing, the branch of a run, or rho of a body. *)
LEMMA RhoSeqShape ==
  ASSUME prog \in Program, NoForLoop, NEW v \in DOMAIN prog, NEW k \in Nat \ {0}
  PROVE  \/ RhoSeq(prog, v, k) = <<>>
         \/ \E S \in Runs, e \in Nat \ {0} : RhoSeq(prog, v, k) = <<IfTop(S), RhoFrom(v, e)>>
         \/ \E w \in DOMAIN prog : RhoSeq(prog, v, k) = <<RhoFrom(w, 1), RhoFrom(v, k + 1)>>
<1>1. CASE k > Len(prog[v])
  BY <1>1 DEF RhoSeq
<1>2. CASE ~(k > Len(prog[v])) /\ IsSlc(prog[v][k])
  <2>1. k \in 1..Len(prog[v]) /\ k \in DOMAIN prog[v]
    BY <1>2, RegionFacts, LenProperties
  <2>2. RunFrom(prog[v], k) \in Runs
    BY <1>2, <2>1, RunFromIsRun
  <2>3. RunEnd(prog[v], k) + 1 \in Nat \ {0}
    <3>1. RunEnd(prog[v], k) \in Nat
      BY <1>2, <2>1, RunPart
    <3> QED BY <3>1
  <2>4. RhoSeq(prog, v, k)
          = <<IfTop(RunFrom(prog[v], k)), RhoFrom(v, RunEnd(prog[v], k) + 1)>>
    BY <1>2 DEF RhoSeq
  <2> QED BY <2>2, <2>3, <2>4
<1>3. CASE ~(k > Len(prog[v])) /\ ~IsSlc(prog[v][k])
  <2>1. k \in 1..Len(prog[v])
    BY <1>3, RegionFacts, LenProperties
  <2>2. prog[v][k] \in Constructs /\ prog[v][k].id \in DOMAIN prog
    BY <1>3, <2>1, RegionFacts
  <2>3. Rho(prog[v][k]) = <<RhoFrom(prog[v][k].id, 1)>>
    BY <2>2 DEF Constructs, Rho, RhoConditional
  <2>4. RhoSeq(prog, v, k) = Append(Rho(prog[v][k]), RhoFrom(v, k + 1))
    BY <1>3 DEF RhoSeq
  <2>7. RhoSeq(prog, v, k) = <<RhoFrom(prog[v][k].id, 1), RhoFrom(v, k + 1)>>
    BY <2>3, <2>4, AppendTuple
  <2> QED BY <2>2, <2>7
<1> QED BY <1>1, <1>2, <1>3

-------------------------------------------------------------------------------
(* Steps. All but seven instructions only replace code by code.             *)

data == <<prog, env, STACKc, STACKv, made, undone>>

LEMMA NextAt ==
  ASSUME todo # <<>>, Next
  PROVE  /\ Instr.g = "sigma" =>
              Continue(SigmaSeq(prog, Instr.v, Instr.k)) /\ UNCHANGED data
         /\ Instr.g = "slc" => Continue(SigmaSlcFrom(Instr.slc, Instr.k)) /\ UNCHANGED data
         /\ Instr.g = "rho" => Continue(RhoSeq(prog, Instr.v, Instr.k)) /\ UNCHANGED data
         /\ Instr.g = "slcback" => Continue(RhoSlcBack(Instr.slc, Instr.k)) /\ UNCHANGED data
         /\ Instr.g \in {"if", "while", "master"} =>
              /\ \/ Continue(<<>>)
                 \/ Continue(<<SigmaFrom(Instr.v, 1)>>)
                 \/ Continue(<<SigmaFrom(Instr.v, 1), Instr>>)
              /\ UNCHANGED data
         /\ Instr.g = "loop" => RunLoop
         /\ Instr.g = "iftop" => RunIfTop
         /\ Instr.g = "label" => RunLabel
         /\ Instr.g = "save" => RunSave
         /\ Instr.g = "assign" => RunAssign
         /\ Instr.g = "poplabel" => RunPopLabel
         /\ Instr.g = "restore" => RunRestore
         /\ Instr.g = "pop" => RunPop
  BY DEF Next, RunGenerate, RunLabel, RunSave, RunAssign, RunSkip, RunBranch, RunIteration,
         RunLoop, RunIfTop, RunPopLabel, RunRestore, RunPop, Left, At, data

(* The sets depend on the region alone. *)
LEMMA ProgStays ==
  ASSUME prog' = prog
  PROVE  Runs' = Runs /\ Instructions' = Instructions
           /\ ForwardItems' = ForwardItems /\ ReverseItems' = ReverseItems
  BY DEF Runs, Instructions, ForwardItems, ReverseItems

LEMMA Positive ==
  ASSUME TypeOK
  PROVE  /\ Len(made) \in Nat /\ Len(undone) \in Nat /\ Len(STACKc) \in Nat
         /\ Len(todo) \in Nat
         /\ \A o \in Kinds : STACKv[o] \in Seq(0..Len(made)) /\ Len(STACKv[o]) \in Nat
         /\ \A i \in 1..Len(made) : made[i] \in Entries
<1>1. /\ Len(made) \in Nat /\ Len(undone) \in Nat /\ Len(STACKc) \in Nat
      /\ Len(todo) \in Nat
  BY LenProperties DEF TypeOK
<1>2. \A o \in Kinds : STACKv[o] \in Seq(0..Len(made)) /\ Len(STACKv[o]) \in Nat
  BY LenProperties DEF TypeOK
<1>3. \A i \in 1..Len(made) : made[i] \in Entries
  BY ElementOfSeq DEF TypeOK
<1> QED BY <1>1, <1>2, <1>3

(* What holds of the data holds as long as the data are not changed. *)
LEMMA HistoryStays ==
  ASSUME UNCHANGED <<prog, made>>, HistoryInv
  PROVE  HistoryInv'
<1>1. Runs' = Runs
  BY ProgStays
<1>2. \A i : RunChain(i) => RunChain(i)'
  BY DEF RunChain, LabelsAt
<1>3. \A i : SaveChain(i) => SaveChain(i)'
  BY DEF SaveChain, SavesAt, StmtAt
<1>4. \A i : EnvChain(i) => EnvChain(i)'
  BY DEF EnvChain, StmtAt
<1> QED BY <1>1, <1>2, <1>3, <1>4 DEF HistoryInv

LEMMA EnvStays ==
  ASSUME UNCHANGED <<env, made, undone>>, EnvInv, UndoneInv
  PROVE  EnvInv' /\ UndoneInv'
<1>1. EnvInv'
  BY DEF EnvInv, Done, StmtAt
<1>2. UndoneInv'
  BY DEF UndoneInv, Done, StmtAt
<1> QED BY <1>1, <1>2

LEMMA PlaceStays ==
  ASSUME UNCHANGED <<made, undone>>
  PROVE  /\ Done' = Done
         /\ \A L : Between(L) => Between(L)'
         /\ \A S, k, L : Within(S, k, L) => Within(S, k, L)'
<1>1. \A L : Between(L) => Between(L)'
  BY DEF Between, LabelsAt, Done
<1>2. \A S, k, L : Within(S, k, L) => Within(S, k, L)'
  BY DEF Within, Between, LabelsAt, Done
<1> QED BY <1>1, <1>2 DEF Done

LEMMA DataStays ==
  ASSUME UNCHANGED data
  PROVE  /\ DataInv => DataInv'
         /\ AllHeld => AllHeld'
         /\ Saved => Saved'
         /\ \A S, k : Labelled(S, k) => Labelled(S, k)'
         /\ \A L : Between(L) => Between(L)'
         /\ \A S, k, L : Within(S, k, L) => Within(S, k, L)'
<1>0. /\ prog' = prog /\ env' = env /\ STACKc' = STACKc /\ STACKv' = STACKv
      /\ made' = made /\ undone' = undone
  BY DEF data
<1>2. HeldInv => HeldInv'
  BY <1>0 DEF HeldInv, LabelHeld, SaveHeld, StmtAt
<1>3. AllHeld => AllHeld'
  BY <1>0 DEF AllHeld, StmtAt
<1>4. Saved => Saved'
  BY <1>0 DEF Saved, SavesAt, Done
<1>5. /\ \A L : Between(L) => Between(L)'
      /\ \A S, k, L : Within(S, k, L) => Within(S, k, L)'
  BY <1>0, PlaceStays
<1>6. \A S, k : Labelled(S, k) => Labelled(S, k)'
  BY <1>0, <1>5 DEF Labelled, Top
<1>7. DataInv => DataInv'
  BY <1>0, <1>2, HistoryStays, EnvStays DEF DataInv
<1> QED BY <1>3, <1>4, <1>5, <1>6, <1>7

LEMMA CodeType ==
  ASSUME TypeOK, todo # <<>>, NEW c \in Seq(Instructions), Continue(c), UNCHANGED data
  PROVE  TypeOK'
<1>0. todo \in Seq(Instructions) /\ todo' = c \o Tail(todo)
  BY DEF TypeOK, Continue
<1>1. todo' \in Seq(Instructions)
  BY <1>0, Resumed
<1>2. Instructions' = Instructions
  BY ProgStays DEF data
<1> QED BY <1>1, <1>2 DEF TypeOK, data

(* What is left of the code after a step: all of it of one section, or the  *)
(* instructions that come first replaced.                                    *)
LEMMA CodeFrom ==
  ASSUME TypeOK, todo # <<>>, NEW c \in Seq(Instructions), Continue(c),
         NEW items, Ends(todo, items, 2),
         NEW m \in Nat \ {0}, m <= Len(c) + 1, \A j \in m..Len(c) : c[j] \in items
  PROVE  Ends(todo', items, m)
<1>0. todo \in Seq(Instructions) /\ todo' = c \o Tail(todo)
  BY DEF TypeOK, Continue
<1> QED BY <1>0, EndsFrom

LEMMA CodeOfSection ==
  ASSUME TypeOK, todo # <<>>, NEW c \in Seq(Instructions), Continue(c),
         NEW items, Ends(todo, items, 2), \A j \in 1..Len(c) : c[j] \in items
  PROVE  Ends(todo', items, 1)
<1>1. Len(c) \in Nat
  BY LenProperties
<1>2. 1 \in Nat \ {0} /\ 1 <= Len(c) + 1
  BY <1>1
<1> QED BY <1>2, CodeFrom

LEMMA CodeShift ==
  ASSUME TypeOK, todo # <<>>, NEW c \in Seq(Instructions), Continue(c),
         NEW items, NEW n \in Nat, n >= 2, Ends(todo, items, n)
  PROVE  Ends(todo', items, Len(c) + n - 1)
<1>0. todo \in Seq(Instructions) /\ todo' = c \o Tail(todo)
  BY DEF TypeOK, Continue
<1> QED BY <1>0, EndsShift

-------------------------------------------------------------------------------
(* The forward section.                                                    *)

(* Code of the forward section replaces an instruction between two runs. *)
LEMMA GoingCode ==
  ASSUME ReversalInv, todo # <<>>, undone = <<>>, AllHeld, Between(Len(STACKc)), Saved,
         Ends(todo, ForwardItems, 2),
         NEW c \in Seq(Instructions), \A j \in 1..Len(c) : c[j] \in ForwardItems,
         Continue(c), UNCHANGED data
  PROVE  ReversalInv'
<1>0. TypeOK
  BY DEF ReversalInv
<1>1. TypeOK' /\ prog' \in Program
  BY CodeType DEF ReversalInv, data
<1>2. DataInv' /\ AllHeld' /\ Saved' /\ undone' = <<>>
  BY DataStays DEF ReversalInv, data
<1>3. Between(Len(STACKc))'
  <2>1. STACKc' = STACKc
    BY DEF data
  <2> QED BY <2>1, DataStays
<1>5. Ends(todo', ForwardItems, 1)
  BY <1>0, CodeOfSection
<1>6. ForwardItems' = ForwardItems
  BY ProgStays DEF data
<1>7. ForwardFrom(1)'
  BY <1>5, <1>6 DEF ForwardFrom
<1>8. Going'
  BY <1>2, <1>3, <1>7 DEF Going
<1> QED BY <1>1, <1>2, <1>8 DEF ReversalInv, InForward

(* The first instructions of the code after a step. *)
LEMMA CodeHead ==
  ASSUME TypeOK, todo # <<>>, NEW c \in Seq(Instructions), Continue(c)
  PROVE  /\ \A j \in 1..Len(c) : todo'[j] = c[j]
         /\ \A j \in 1..(Len(todo) - 1) : todo'[Len(c) + j] = todo[j + 1]
<1>0. todo \in Seq(Instructions) /\ todo' = c \o Tail(todo) /\ Len(c) \in Nat /\ Len(todo) \in Nat
  BY LenProperties DEF TypeOK, Continue
<1>1. /\ Len(todo') = Len(c) + Len(todo) - 1
      /\ \A j \in 1..Len(c) : todo'[j] = c[j]
      /\ \A j \in (Len(c) + 1)..Len(todo') : todo'[j] = todo[j - Len(c) + 1]
  BY <1>0, Resumed
<1>2. ASSUME NEW j \in 1..(Len(todo) - 1)
      PROVE  todo'[Len(c) + j] = todo[j + 1]
  <2>1. Len(c) + j \in (Len(c) + 1)..Len(todo') /\ Len(c) + j - Len(c) + 1 = j + 1
    BY <1>0, <1>1
  <2> QED BY <1>1, <2>1
<1> QED BY <1>1, <1>2

(* The head of the reverse loop, between two runs. *)
LEMMA LoopStep ==
  ASSUME ReversalInv, todo # <<>>, Instr = ReverseLoop, Tail(todo) = <<>>,
         Between(Len(STACKc)), Saved, Next
  PROVE  ReversalInv'
<1>a. TypeOK /\ prog \in Program
  BY DEF ReversalInv
<1>2. RunLoop
  BY NextAt DEF ReverseLoop
<1>3. UNCHANGED data
  BY <1>2 DEF RunLoop, data
<1>4. DataInv' /\ Saved' /\ prog' \in Program
  BY <1>a, <1>3, DataStays DEF ReversalInv, data
<1>5. Between(Len(STACKc))'
  BY <1>a, <1>3, DataStays DEF data
<1>6. CASE STACKc = <<>>
  <2>1. Continue(<<>>)
    BY <1>2, <1>6 DEF RunLoop
  <2>2. todo' = <<>> /\ STACKc' = <<>>
    BY <1>a, <1>3, <1>6, <2>1 DEF Continue, data
  <2>3. TypeOK'
    <3>1. <<>> \in Seq(Instructions)
      BY EmptySeq
    <3> QED BY <1>a, <1>3, <2>1, <3>1, CodeType
  <2>4. Len(STACKc') = 0
    BY <2>2
  <2>5. Between(0)'
    BY <1>5, <2>4
  <2>6. Finished'
    BY <1>4, <2>2, <2>5 DEF Finished
  <2> QED BY <1>4, <2>3, <2>6 DEF ReversalInv, InReverse
<1>7. CASE STACKc # <<>>
  <2>1. Continue(LoopBody)
    BY <1>2, <1>7 DEF RunLoop
  <2>2. Root \in DOMAIN prog
    BY <1>a, ConstantsAssumption DEF WellFormed
  <2>3. RhoFrom(Root, 1) \in Instructions /\ RhoFrom(Root, 1) \in ReverseItems
    BY <2>2, SequenceInstructions
  <2>4. ReverseLoop \in Instructions
    BY DEF Instructions
  <2>5. LoopBody \in Seq(Instructions)
    BY <2>3, <2>4 DEF LoopBody
  <2>6. TypeOK'
    BY <1>a, <1>3, <2>1, <2>5, CodeType
  <2>7. todo' = LoopBody
    <3>1. LoopBody \o <<>> = LoopBody
      BY <2>5, ConcatEmptySeq
    <3> QED BY <1>a, <2>1, <3>1 DEF Continue
  <2>8. Ends(todo', ReverseItems, 1)
    BY <2>3, <2>7 DEF Ends, LoopBody
  <2>9. ReverseItems' = ReverseItems
    BY <1>3, ProgStays DEF data
  <2>10. Looking'
    BY <1>4, <1>5, <2>8, <2>9 DEF Looking, ReverseFrom
  <2> QED BY <1>4, <2>6, <2>10 DEF ReversalInv, InReverse
<1> QED BY <1>6, <1>7

LEMMA GoingStep ==
  ASSUME ReversalInv, NoForLoop, undone = <<>>, AllHeld, Going, Next
  PROVE  ReversalInv'
<1>0. TypeOK /\ prog \in Program /\ todo \in Seq(Instructions) /\ Ends(todo, ForwardItems, 1)
      /\ Between(Len(STACKc)) /\ Saved
  BY DEF ReversalInv, TypeOK, Going, ForwardFrom
<1>1. ReverseLoop \notin ForwardItems
  BY ForwardItem
<1>2. todo # <<>> /\ Instr = todo[1]
  BY <1>0, <1>1, EndsHead DEF Instr
<1>3. CASE todo[1] = ReverseLoop
  <2>1. Tail(todo) = <<>>
    BY <1>0, <1>1, <1>3, EndsHead
  <2> QED BY <1>0, <1>2, <1>3, <2>1, LoopStep
<1>4. CASE todo[1] # ReverseLoop
  <2>1. todo[1] \in ForwardItems /\ Ends(todo, ForwardItems, 2)
    BY <1>0, <1>1, <1>4, EndsHead
  <2>2. CASE todo[1].g = "sigma" /\ todo[1].v \in DOMAIN prog /\ todo[1].k \in Nat \ {0}
    <3> DEFINE v == todo[1].v
               k == todo[1].k
               c == SigmaSeq(prog, v, k)
    <3>0. v \in DOMAIN prog /\ k \in Nat \ {0} /\ k + 1 \in Nat \ {0}
      BY <2>2
    <3>1. Continue(c) /\ UNCHANGED data
      BY <1>2, <2>2, NextAt
    <3> HIDE DEF v, k
    <3>2. CASE c = <<>>
      <4>1. c \in Seq(Instructions) /\ \A j \in 1..Len(c) : c[j] \in ForwardItems
        BY <3>2
      <4> QED BY <1>0, <1>2, <2>1, <3>1, <4>1, GoingCode
    <3>3. CASE \E S \in Runs, e \in Nat \ {0} :
                 c = <<PushLabel(S[1].id), SlcFrom(S, 1), SigmaFrom(v, e)>>
      <4>0. PICK S \in Runs : \E e \in Nat \ {0} :
                 c = <<PushLabel(S[1].id), SlcFrom(S, 1), SigmaFrom(v, e)>>
        BY <3>3
      <4>1. PICK e \in Nat \ {0} : c = <<PushLabel(S[1].id), SlcFrom(S, 1), SigmaFrom(v, e)>>
        BY <4>0
      <4>2. SigmaFrom(v, e) \in ForwardItems /\ SigmaFrom(v, e) \in Instructions
        BY <3>0, SequenceInstructions
      <4>3. PushLabel(S[1].id) \in Instructions /\ SlcFrom(S, 1) \in Instructions
        BY <1>0, RunInstructions
      <4> HIDE DEF c
      <4>4. /\ c \in Seq(Instructions) /\ Len(c) = 3
            /\ c[1] = PushLabel(S[1].id) /\ c[2] = SlcFrom(S, 1) /\ c[3] = SigmaFrom(v, e)
        BY <4>1, <4>2, <4>3, TupleSeq
      <4>5. TypeOK' /\ prog' \in Program
        BY <1>0, <1>2, <3>1, <4>4, CodeType DEF data
      <4>6. todo'[1] = PushLabel(S[1].id) /\ todo'[2] = SlcFrom(S, 1)
        BY <1>0, <1>2, <3>1, <4>4, CodeHead
      <4>7. Ends(todo', ForwardItems, 3)
        <5>2. \A j \in 3..Len(c) : c[j] \in ForwardItems
          BY <4>2, <4>4
        <5>3. 3 \in Nat \ {0} /\ 3 <= Len(c) + 1
          BY <4>4
        <5> QED BY <1>0, <1>2, <2>1, <3>1, <4>4, <5>2, <5>3, CodeFrom
      <4>8. Runs' = Runs /\ ForwardItems' = ForwardItems
        BY <3>1, ProgStays DEF data
      <4>9. DataInv' /\ AllHeld' /\ Saved' /\ undone' = <<>>
        BY <1>0, <3>1, DataStays DEF ReversalInv, data
      <4>10. Between(Len(STACKc))'
        BY <1>0, <3>1, DataStays DEF data
      <4>11. Labelling(S)'
        BY <4>6, <4>7, <4>8, <4>9, <4>10 DEF Labelling, ForwardFrom
      <4> QED BY <4>5, <4>8, <4>9, <4>11 DEF ReversalInv, InForward
    <3>4. CASE \E i \in [g : {"if", "while", "master"}, v : DOMAIN prog] :
                 c = <<i, SigmaFrom(v, k + 1)>>
      <4>1. PICK i \in [g : {"if", "while", "master"}, v : DOMAIN prog] :
                 c = <<i, SigmaFrom(v, k + 1)>>
        BY <3>4
      <4>2. i \in Instructions /\ i \in ForwardItems
        BY DEF Instructions, ForwardItems
      <4>3. SigmaFrom(v, k + 1) \in ForwardItems /\ SigmaFrom(v, k + 1) \in Instructions
        BY <3>0, SequenceInstructions
      <4> HIDE DEF c
      <4>4. c \in Seq(Instructions) /\ Len(c) = 2 /\ c[1] = i /\ c[2] = SigmaFrom(v, k + 1)
        BY <4>1, <4>2, <4>3, TupleSeq
      <4>5. \A j \in 1..Len(c) : c[j] \in ForwardItems
        BY <4>2, <4>3, <4>4
      <4> QED BY <1>0, <1>2, <2>1, <3>1, <4>4, <4>5, GoingCode
    <3> HIDE DEF c
    <3>5. \/ c = <<>>
          \/ \E S \in Runs, e \in Nat \ {0} :
               c = <<PushLabel(S[1].id), SlcFrom(S, 1), SigmaFrom(v, e)>>
          \/ \E i \in [g : {"if", "while", "master"}, v : DOMAIN prog] :
               c = <<i, SigmaFrom(v, k + 1)>>
      BY <1>0, <3>0, SigmaSeqShape DEF c
    <3> QED BY <3>2, <3>3, <3>4, <3>5
  <2>3. CASE todo[1].g \in {"if", "while", "master"} /\ todo[1].v \in DOMAIN prog
    <3>1. PICK c \in {<<>>, <<SigmaFrom(todo[1].v, 1)>>, <<SigmaFrom(todo[1].v, 1), todo[1]>>} :
            Continue(c) /\ UNCHANGED data
      BY <1>2, <2>3, NextAt
    <3>2. SigmaFrom(todo[1].v, 1) \in ForwardItems /\ SigmaFrom(todo[1].v, 1) \in Instructions
      BY <2>3, SequenceInstructions
    <3>3. todo[1] \in Instructions
      BY <1>0, <1>2, EmptySeq, ElementOfSeq
    <3>4. c \in Seq(Instructions)
      BY <3>2, <3>3, TupleSeq
    <3>5. \A j \in 1..Len(c) : c[j] \in ForwardItems
      BY <2>1, <3>2
    <3> QED BY <1>0, <1>2, <2>1, <3>1, <3>4, <3>5, GoingCode
  <2> QED BY <2>1, <2>2, <2>3, ForwardItem
<1> QED BY <1>3, <1>4

(* An instruction that nothing replaces. *)
LEMMA CodeTyped ==
  ASSUME TypeOK, todo # <<>>, Continue(<<>>)
  PROVE  todo' \in Seq(Instructions)
<1>1. <<>> \in Seq(Instructions)
  BY EmptySeq
<1> QED BY <1>1, Resumed DEF TypeOK, Continue

LEMMA CodeDropped ==
  ASSUME TypeOK, todo # <<>>, Continue(<<>>), NEW items, NEW n \in Nat \ {0},
         Ends(todo, items, n + 1)
  PROVE  /\ Ends(todo', items, n)
         /\ \A j \in 1..n : j < n => todo'[j] = todo[j + 1]
<1>1. <<>> \in Seq(Instructions) /\ Len(<<>>) = 0
  BY EmptySeq
<1>2. Len(todo) \in Nat /\ Len(todo) >= n + 1
  BY LenProperties DEF TypeOK, Ends
<1>4. Ends(todo', items, n)
  <2> DEFINE k == n + 1
  <2>1. k \in Nat /\ k >= 2 /\ Ends(todo, items, k)
    OBVIOUS
  <2>2. 0 + k - 1 = n
    OBVIOUS
  <2> HIDE DEF k
  <2>3. Ends(todo', items, Len(<<>>) + k - 1)
    BY <1>1, <2>1, CodeShift
  <2> QED BY <1>1, <2>2, <2>3
<1>5. ASSUME NEW j \in 1..n, j < n
      PROVE  todo'[j] = todo[j + 1]
  <2>1. j \in 1..(Len(todo) - 1) /\ 0 + j = j
    BY <1>2
  <2>2. todo'[Len(<<>>) + j] = todo[j + 1]
    BY <1>1, <2>1, CodeHead
  <2> QED BY <1>1, <2>1, <2>2
<1> QED BY <1>4, <1>5

(* Where the code starts with instructions of its own. *)
LEMMA HeadIs ==
  ASSUME TypeOK, NEW items, NEW n \in Nat \ {0}, Ends(todo, items, n)
  PROVE  todo # <<>> /\ Instr = todo[1] /\ Len(todo) \in Nat /\ Len(todo) >= n
<1>1. todo \in Seq(Instructions) /\ Len(todo) \in Nat /\ Len(todo) >= n
  BY LenProperties DEF TypeOK, Ends
<1>2. todo # <<>>
  BY <1>1, EmptySeq
<1> QED BY <1>1, <1>2 DEF Instr

LEMMA LabellingStep ==
  ASSUME ReversalInv, undone = <<>>, AllHeld, NEW S \in Runs, Labelling(S), Next
  PROVE  ReversalInv'
<1>0. /\ TypeOK /\ prog \in Program /\ DataInv
      /\ Ends(todo, ForwardItems, 3)
      /\ todo[1] = PushLabel(S[1].id)
      /\ todo[2] = SlcFrom(S, 1)
      /\ Between(Len(STACKc))
      /\ Saved
  BY DEF ReversalInv, Labelling, ForwardFrom
<1>1. todo # <<>> /\ Instr = todo[1] /\ Len(todo) \in Nat /\ Len(todo) >= 3
  BY <1>0, HeadIs
<1>2. RunLabel /\ Instr.l = S[1].id
  BY <1>0, <1>1, NextAt DEF PushLabel
<1>3. /\ STACKc' = Append(STACKc, S[1].id)
      /\ Continue(<<>>)
      /\ UNCHANGED <<prog, env, STACKv, made, undone>>
  BY <1>2 DEF RunLabel
<1>4. S[1].id \in Nat /\ Len(S) \in Nat \ {0}
  BY <1>0, RunFacts
<1>5. STACKc \in Seq(Nat) /\ Len(STACKc) \in Nat
  BY <1>0, LenProperties DEF TypeOK
<1>6. /\ STACKc' \in Seq(Nat) /\ STACKc' # <<>>
      /\ Len(STACKc') = Len(STACKc) + 1
      /\ \A i \in 1..Len(STACKc) : STACKc'[i] = STACKc[i]
      /\ STACKc'[Len(STACKc) + 1] = S[1].id
  BY <1>3, <1>4, <1>5, AppendProperties
<1>8. Runs' = Runs /\ ForwardItems' = ForwardItems /\ Instructions' = Instructions
  BY <1>3, ProgStays
<1>9. TypeOK'
  <2>1. todo' \in Seq(Instructions)
    BY <1>0, <1>1, <1>3, CodeTyped
  <2> QED BY <1>0, <1>3, <1>6, <1>8, <2>1 DEF TypeOK
<1>10. HeldInv' /\ AllHeld'
  <2>1. \A i \in 1..Len(made) : made[i].labels \in 1..Len(STACKc)
    BY <1>0, <1>5, Positive DEF AllHeld, DataInv, HistoryInv, Entries
  <2>2. AllHeld'
    BY <1>3, <1>5, <1>6, <2>1 DEF AllHeld, StmtAt
  <2>3. \A i \in 1..Len(made) : LabelHeld(i)'
    BY <1>0, <1>3, <1>5, <1>6, <2>1 DEF DataInv, HeldInv, LabelHeld
  <2>4. \A i \in 1..Len(made) : SaveHeld(i)'
    BY <1>0, <1>3 DEF DataInv, HeldInv, SaveHeld, StmtAt
  <2> QED BY <1>3, <2>2, <2>3, <2>4 DEF HeldInv
<1>11. DataInv'
  BY <1>0, <1>3, <1>10, HistoryStays, EnvStays DEF DataInv
<1>12. Saved'
  BY <1>0, <1>3 DEF Saved, SavesAt, Done
<1>13. todo'[1] = SlcFrom(S, 1) /\ Ends(todo', ForwardItems, 2)
  <2>1. 2 \in Nat \ {0} /\ Ends(todo, ForwardItems, 2 + 1) /\ 1 \in 1..2 /\ 1 < 2
    BY <1>0
  <2>2. Ends(todo', ForwardItems, 2)
    BY <1>0, <1>1, <1>3, <2>1, CodeDropped
  <2>3. todo'[1] = todo[1 + 1]
    BY <1>0, <1>1, <1>3, <2>1, CodeDropped
  <2> QED BY <1>0, <2>2, <2>3
<1>15. Within(S, 0, Len(STACKc))'
  <2>1. Len(STACKc') - 1 = Len(STACKc)
    BY <1>5, <1>6
  <2> QED BY <1>0, <1>3, <2>1 DEF Within, Between, LabelsAt, Done
<1>16. Labelled(S, 1)'
  BY <1>5, <1>6, <1>15 DEF Labelled, Top
<1>17. Making(S, 1)'
  BY <1>8, <1>12, <1>13, <1>16 DEF Making, ForwardFrom
<1>18. InForward'
  <2>1. 1 \in 1..(Len(S) + 1)
    BY <1>4
  <2> QED BY <1>3, <1>8, <1>10, <1>17, <2>1 DEF InForward
<1> QED BY <1>0, <1>3, <1>9, <1>11, <1>18 DEF ReversalInv

LEMMA MakingStep ==
  ASSUME ReversalInv, undone = <<>>, AllHeld, NEW S \in Runs, NEW k \in 1..(Len(S) + 1),
         Making(S, k), Next
  PROVE  ReversalInv'
<1>0. /\ TypeOK /\ prog \in Program /\ DataInv
      /\ Ends(todo, ForwardItems, 2)
      /\ todo[1] = SlcFrom(S, k)
      /\ Labelled(S, k)
      /\ Saved
  BY DEF ReversalInv, Making, ForwardFrom
<1>1. todo # <<>> /\ Instr = todo[1] /\ Len(todo) \in Nat /\ Len(todo) >= 2
  BY <1>0, HeadIs
<1>2. Continue(SigmaSlcFrom(S, k)) /\ UNCHANGED data
  BY <1>0, <1>1, NextAt DEF SlcFrom
<1>3. Len(S) \in Nat \ {0} /\ k \in Nat \ {0} /\ Len(STACKc) \in Nat
  BY <1>0, RunFacts, Positive
<1>4. CASE k > Len(S)
  <2>1. Within(S, Len(S), Len(STACKc))
    <3>1. k - 1 = Len(S)
      BY <1>3, <1>4
    <3> QED BY <1>0, <3>1 DEF Labelled
  <2>2. Done \in Int
    BY <1>0, Positive DEF Done
  <2>3. Between(Len(STACKc))
    BY <1>3, <2>1, <2>2 DEF Within, Between, LabelsAt
  <2>4. SigmaSlcFrom(S, k) = <<>>
    BY <1>4 DEF SigmaSlcFrom
  <2>5. <<>> \in Seq(Instructions) /\ \A j \in 1..Len(<<>>) : <<>>[j] \in ForwardItems
    BY EmptySeq
  <2> QED BY <1>0, <1>1, <1>2, <2>3, <2>4, <2>5, GoingCode
<1>5. CASE ~(k > Len(S))
  <2> DEFINE c == <<Save(S, k), Assign(S, k), SlcFrom(S, k + 1)>>
  <2>1. SigmaSlcFrom(S, k) = c
    BY <1>5, AppendTuple DEF SigmaSlcFrom, SigmaAssign
  <2>2. Save(S, k) \in Instructions /\ Assign(S, k) \in Instructions
    BY <1>0, <1>3, RunInstructions
  <2>3. SlcFrom(S, k + 1) \in Instructions
    <3>1. k + 1 \in Nat
      BY <1>3
    <3> QED BY <1>0, <3>1, RunInstructions
  <2>4. /\ c \in Seq(Instructions) /\ Len(c) = 3
        /\ c[1] = Save(S, k) /\ c[2] = Assign(S, k) /\ c[3] = SlcFrom(S, k + 1)
    BY <2>2, <2>3, TupleSeq
  <2> HIDE DEF c
  <2>5. Continue(c)
    BY <1>2, <2>1
  <2>6. TypeOK' /\ prog' \in Program
    BY <1>0, <1>1, <1>2, <2>4, <2>5, CodeType DEF data
  <2>7. todo'[1] = Save(S, k) /\ todo'[2] = Assign(S, k) /\ todo'[3] = SlcFrom(S, k + 1)
    <3>1. \A j \in 1..3 : todo'[j] = c[j]
      BY <1>0, <1>1, <2>4, <2>5, CodeHead
    <3> QED BY <2>4, <3>1
  <2>8. Ends(todo', ForwardItems, 4)
    <3>1. 4 \in Nat \ {0} /\ 4 <= Len(c) + 1 /\ \A j \in 4..Len(c) : c[j] \in ForwardItems
      BY <2>4
    <3> QED BY <1>0, <1>1, <2>4, <2>5, <3>1, CodeFrom
  <2>9. Runs' = Runs /\ ForwardItems' = ForwardItems
    BY <1>2, ProgStays DEF data
  <2>10. DataInv' /\ AllHeld' /\ Saved' /\ undone' = <<>> /\ Labelled(S, k)'
    BY <1>0, <1>2, DataStays DEF data
  <2>11. k <= Len(S)
    BY <1>3, <1>5
  <2>12. Saving(S, k)'
    BY <2>7, <2>8, <2>9, <2>10, <2>11 DEF Saving, ForwardFrom
  <2> QED BY <2>6, <2>9, <2>10, <2>12 DEF ReversalInv, InForward
<1> QED BY <1>4, <1>5

(* An assignment of the history and its place on the stacks. *)
LEMMA EntryFacts ==
  ASSUME TypeOK, prog \in Program, HistoryInv, NEW i \in 1..Len(made)
  PROVE  /\ made[i] \in Entries
         /\ i \in Nat \ {0}
         /\ made[i].slc \in Runs
         /\ StmtAt(i).op \in Kinds /\ StmtAt(i).var \in Var /\ StmtAt(i).id \in Nat
         /\ made[i].labels \in Nat \ {0}
         /\ SavesAt(i) = made[i].saves
         /\ SavesAt(i) \in [Kinds -> Nat] /\ SavesAt(i - 1) \in [Kinds -> Nat]
         /\ made[i].saves[StmtAt(i).op] = SavesAt(i - 1)[StmtAt(i).op] + 1
         /\ made[i].saves[StmtAt(i).op] \in Nat \ {0}
         /\ made[i].before \in [Var -> Nat]
<1>1. made[i] \in Entries /\ i \in Nat \ {0}
  BY Positive
<1>2. made[i].slc \in Runs /\ made[i].k \in 1..Len(made[i].slc) /\ made[i].labels > 0
      /\ SaveChain(i)
  BY DEF HistoryInv
<1>3. StmtAt(i).op \in Kinds /\ StmtAt(i).var \in Var /\ StmtAt(i).id \in Nat
  BY <1>2, RunFacts DEF StmtAt
<1>4. made[i].labels \in Nat \ {0} /\ made[i].before \in [Var -> Nat]
  BY <1>1, <1>2 DEF Entries
<1>5. SavesAt(i) = made[i].saves /\ SavesAt(i) \in [Kinds -> Nat]
  BY <1>1 DEF SavesAt, Entries
<1>6. SavesAt(i - 1) \in [Kinds -> Nat]
  <2>1. CASE i = 1
    BY <2>1 DEF SavesAt
  <2>2. CASE i # 1
    <3>1. i - 1 \in 1..Len(made) /\ i - 1 # 0
      BY <1>1, <2>2, Positive
    <3>2. made[i - 1] \in Entries
      BY <3>1, Positive
    <3> QED BY <3>1, <3>2 DEF SavesAt, Entries
  <2> QED BY <2>1, <2>2
<1>7. made[i].saves[StmtAt(i).op] = SavesAt(i - 1)[StmtAt(i).op] + 1
  BY <1>2, <1>3, <1>6 DEF SaveChain
<1>8. made[i].saves[StmtAt(i).op] \in Nat \ {0}
  BY <1>3, <1>6, <1>7
<1> QED BY <1>1, <1>2, <1>3, <1>4, <1>5, <1>6, <1>7, <1>8

LEMMA SavingStep ==
  ASSUME ReversalInv, undone = <<>>, AllHeld, NEW S \in Runs, NEW k \in 1..(Len(S) + 1),
         Saving(S, k), Next
  PROVE  ReversalInv'
<1>0. /\ TypeOK /\ prog \in Program /\ DataInv
      /\ Ends(todo, ForwardItems, 4)
      /\ k <= Len(S)
      /\ todo[1] = Save(S, k)
      /\ todo[2] = Assign(S, k)
      /\ todo[3] = SlcFrom(S, k + 1)
      /\ Labelled(S, k)
      /\ Saved
  BY DEF ReversalInv, Saving, ForwardFrom
<1>1. todo # <<>> /\ Instr = todo[1] /\ Len(todo) \in Nat /\ Len(todo) >= 4
  BY <1>0, HeadIs
<1>2. RunSave /\ Stmt = S[k]
  BY <1>0, <1>1, NextAt DEF Save, Stmt
<1> DEFINE o == S[k].op
           x == env[S[k].var]
<1>3. /\ STACKv' = [STACKv EXCEPT ![o] = Append(@, x)]
      /\ Continue(<<>>)
      /\ UNCHANGED <<prog, env, STACKc, made, undone>>
  BY <1>2 DEF RunSave
<1>4. o \in Kinds /\ x \in 0..Len(made)
  <2>1. k \in 1..Len(S)
    BY <1>0, RunFacts
  <2>2. S[k].op \in Kinds /\ S[k].var \in Var
    BY <1>0, <2>1, RunFacts
  <2> QED BY <1>0, <2>2 DEF TypeOK
<1> HIDE DEF o, x
<1>5. /\ STACKv \in [Kinds -> Seq(0..Len(made))]
      /\ \A q \in Kinds : STACKv[q] \in Seq(0..Len(made)) /\ Len(STACKv[q]) \in Nat
  BY <1>0, Positive DEF TypeOK
<1>6. /\ STACKv'[o] = Append(STACKv[o], x)
      /\ \A q \in Kinds : q # o => STACKv'[q] = STACKv[q]
      /\ DOMAIN STACKv' = Kinds
  BY <1>3, <1>4, <1>5
<1>7. /\ STACKv'[o] \in Seq(0..Len(made))
      /\ Len(STACKv'[o]) = Len(STACKv[o]) + 1
      /\ \A i \in 1..Len(STACKv[o]) : STACKv'[o][i] = STACKv[o][i]
      /\ STACKv'[o][Len(STACKv[o]) + 1] = x
  BY <1>4, <1>5, <1>6, AppendProperties
<1>8. Runs' = Runs /\ ForwardItems' = ForwardItems /\ Instructions' = Instructions
  BY <1>3, ProgStays
<1>9. TypeOK'
  <2>1. todo' \in Seq(Instructions)
    BY <1>0, <1>1, <1>3, CodeTyped
  <2>2. STACKv' \in [Kinds -> Seq(0..Len(made))]
    <3>1. \A q \in Kinds : STACKv'[q] \in Seq(0..Len(made))
      BY <1>5, <1>6, <1>7
    <3>2. STACKv' = [q \in Kinds |-> STACKv'[q]]
      BY <1>3, <1>5
    <3> QED BY <3>1, <3>2
  <2> QED BY <1>0, <1>3, <1>8, <2>1, <2>2 DEF TypeOK
<1>10. \A q \in Kinds : /\ Len(STACKv[q]) \in Nat
                        /\ Len(STACKv'[q]) = Len(STACKv[q]) + (IF q = o THEN 1 ELSE 0)
                        /\ \A i \in 1..Len(STACKv[q]) : STACKv'[q][i] = STACKv[q][i]
  BY <1>4, <1>5, <1>6, <1>7
<1>11. HeldInv' /\ AllHeld'
  <2>1. ASSUME NEW i \in 1..Len(made)
        PROVE  /\ StmtAt(i).op \in Kinds
               /\ made[i].saves[StmtAt(i).op] \in 1..Len(STACKv[StmtAt(i).op])
    <3>1. made[i].saves[StmtAt(i).op] \in Nat \ {0} /\ StmtAt(i).op \in Kinds
      BY <1>0, EntryFacts DEF DataInv
    <3>2. made[i].saves[StmtAt(i).op] <= Len(STACKv[StmtAt(i).op])
      BY DEF AllHeld
    <3> QED BY <1>5, <3>1, <3>2
  <2>2. AllHeld'
    <3>1. ASSUME NEW i \in 1..Len(made)
          PROVE  made[i].saves[StmtAt(i).op] <= Len(STACKv'[StmtAt(i).op])
      <4> DEFINE q == StmtAt(i).op
                 d == made[i].saves[q]
      <4>1. q \in Kinds /\ d \in 1..Len(STACKv[q])
        BY <2>1
      <4> HIDE DEF q, d
      <4>2. /\ Len(STACKv[q]) \in Nat
            /\ Len(STACKv'[q]) = Len(STACKv[q]) + (IF q = o THEN 1 ELSE 0)
        BY <1>10, <4>1
      <4>3. d <= Len(STACKv'[q])
        <5>1. CASE q = o
          BY <4>1, <4>2, <5>1
        <5>2. CASE q # o
          BY <4>1, <4>2, <5>2
        <5> QED BY <5>1, <5>2
      <4> QED BY <4>3 DEF q, d
    <3> QED BY <1>3, <3>1 DEF AllHeld, StmtAt
  <2>3. \A i \in 1..Len(made) : LabelHeld(i)'
    BY <1>0, <1>3 DEF DataInv, HeldInv, LabelHeld
  <2>4. ASSUME NEW i \in 1..Len(made)
        PROVE  SaveHeld(i)'
    <3>1. STACKv[StmtAt(i).op][made[i].saves[StmtAt(i).op]] = made[i].before[StmtAt(i).var]
      <4>1. SaveHeld(i)
        BY <1>0 DEF DataInv, HeldInv
      <4>2. made[i].saves[StmtAt(i).op] <= Len(STACKv[StmtAt(i).op])
        BY DEF AllHeld
      <4> QED BY <4>1, <4>2 DEF SaveHeld
    <3>2. STACKv'[StmtAt(i).op][made[i].saves[StmtAt(i).op]] = made[i].before[StmtAt(i).var]
      BY <1>10, <2>1, <3>1
    <3>3. made' = made /\ StmtAt(i)' = StmtAt(i)
      BY <1>3 DEF StmtAt
    <3> QED BY <3>2, <3>3 DEF SaveHeld
  <2> QED BY <1>3, <2>2, <2>3, <2>4 DEF HeldInv
<1>12. DataInv'
  BY <1>0, <1>3, <1>11, HistoryStays, EnvStays DEF DataInv
<1>13. SavedFor(S[k])'
  <2>1. \A q : SavesAt(Done)'[q] = SavesAt(Done)[q]
    BY <1>3 DEF SavesAt, Done
  <2>2. \A q \in Kinds : Len(STACKv'[q]) = SavesAt(Done)[q] + (IF q = S[k].op THEN 1 ELSE 0)
    BY <1>0, <1>10 DEF Saved, o
  <2> QED BY <2>1, <2>2 DEF SavedFor
<1>14. todo'[1] = Assign(S, k) /\ todo'[2] = SlcFrom(S, k + 1) /\ Ends(todo', ForwardItems, 3)
  <2>1. 3 \in Nat \ {0} /\ Ends(todo, ForwardItems, 3 + 1)
    BY <1>0
  <2>2. Ends(todo', ForwardItems, 3)
    BY <1>0, <1>1, <1>3, <2>1, CodeDropped
  <2>3. \A j \in 1..3 : j < 3 => todo'[j] = todo[j + 1]
    BY <1>0, <1>1, <1>3, <2>1, CodeDropped
  <2> QED BY <1>0, <2>2, <2>3
<1>15. Labelled(S, k)'
  <2>1. Within(S, k - 1, Len(STACKc))'
    BY <1>0, <1>3, PlaceStays DEF Labelled
  <2> QED BY <1>0, <1>3, <2>1 DEF Labelled, Top
<1>16. Top(STACKv'[S[k].op]) = env'[S[k].var]
  BY <1>3, <1>7 DEF Top, o, x
<1>17. Assigning(S, k)'
  BY <1>0, <1>8, <1>13, <1>14, <1>15, <1>16 DEF Assigning, ForwardFrom
<1>18. InForward'
  BY <1>3, <1>8, <1>11, <1>17 DEF InForward
<1> QED BY <1>0, <1>3, <1>9, <1>12, <1>18 DEF ReversalInv

LEMMA AssigningStep ==
  ASSUME ReversalInv, undone = <<>>, AllHeld, NEW S \in Runs, NEW k \in 1..(Len(S) + 1),
         Assigning(S, k), Next
  PROVE  ReversalInv'
<1>0. /\ TypeOK /\ prog \in Program /\ DataInv
      /\ Ends(todo, ForwardItems, 3)
      /\ k <= Len(S)
      /\ todo[1] = Assign(S, k)
      /\ todo[2] = SlcFrom(S, k + 1)
      /\ Labelled(S, k)
      /\ SavedFor(S[k])
      /\ Top(STACKv[S[k].op]) = env[S[k].var]
  BY DEF ReversalInv, Assigning, ForwardFrom
<1>1. todo # <<>> /\ Instr = todo[1] /\ Len(todo) \in Nat /\ Len(todo) >= 3
  BY <1>0, HeadIs
<1>2. RunAssign /\ Stmt = S[k] /\ Instr.slc = S /\ Instr.k = k
  BY <1>0, <1>1, NextAt DEF Assign, Stmt
<1>a. PICK n \in Nat : n = Len(made)
  BY <1>0, Positive
<1>b. PICK e : e = [slc |-> S, k |-> k, before |-> env, labels |-> Len(STACKc),
                    saves |-> [q \in Kinds |-> Len(STACKv[q])]]
  OBVIOUS
<1>3. /\ env' = [env EXCEPT ![S[k].var] = n + 1]
      /\ made' = Append(made, e)
      /\ Continue(<<>>)
      /\ UNCHANGED <<prog, STACKc, STACKv, undone>>
  BY <1>2, <1>a, <1>b DEF RunAssign
<1>4. /\ S \in Seq(Assignments) /\ k \in Nat \ {0} /\ k \in 1..Len(S)
      /\ S[k].op \in Kinds /\ S[k].var \in Var
      /\ k + 1 \in 1..(Len(S) + 1)
  <2>1. S \in Seq(Assignments) /\ Len(S) \in Nat \ {0}
    BY <1>0, RunFacts
  <2>2. k \in Nat \ {0} /\ k \in 1..Len(S) /\ k + 1 \in 1..(Len(S) + 1)
    BY <1>0, <2>1
  <2>3. S[k].op \in Kinds /\ S[k].var \in Var
    BY <1>0, <2>2, RunFacts
  <2> QED BY <2>1, <2>2, <2>3
<1>5. /\ n \in Nat /\ Len(STACKc) \in Nat /\ STACKc \in Seq(Nat)
      /\ env \in [Var -> 0..n] /\ made \in Seq(Entries)
      /\ STACKv \in [Kinds -> Seq(0..n)]
      /\ \A q \in Kinds : Len(STACKv[q]) \in Nat
  BY <1>0, <1>a, Positive DEF TypeOK
<1>6. e \in Entries
  <2>1. [q \in Kinds |-> Len(STACKv[q])] \in [Kinds -> Nat]
    BY <1>5
  <2>2. env \in [Var -> Nat]
    BY <1>5
  <2> QED BY <1>4, <1>5, <1>b, <2>1, <2>2 DEF Entries
<1>7. /\ e.slc = S /\ e.k = k /\ e.before = env /\ e.labels = Len(STACKc)
      /\ \A q \in Kinds : e.saves[q] = Len(STACKv[q])
  BY <1>b
<1>8. /\ made' \in Seq(Entries)
      /\ Len(made') = n + 1
      /\ \A i \in 1..n : made'[i] = made[i]
      /\ made'[n + 1] = e
  BY <1>3, <1>5, <1>6, <1>a, AppendProperties
<1>9. Runs' = Runs /\ ForwardItems' = ForwardItems /\ Instructions' = Instructions
  BY <1>3, ProgStays
<1>10. Done = n /\ Done' = n + 1
  <2>1. Len(undone) = 0 /\ undone' = undone
    BY <1>3, EmptySeq
  <2> QED BY <1>5, <1>8, <1>a, <2>1 DEF Done
<1>11. StmtAt(n + 1)' = S[k]
  BY <1>7, <1>8 DEF StmtAt
<1>12. \A i \in 1..n : StmtAt(i)' = StmtAt(i)
  BY <1>8 DEF StmtAt
<1>13. TypeOK'
  <2>1. todo' \in Seq(Instructions)
    BY <1>0, <1>1, <1>3, CodeTyped
  <2>2. 0..n \subseteq 0..(n + 1) /\ n + 1 \in 0..(n + 1)
    BY <1>5
  <2>3. STACKv \in [Kinds -> Seq(0..(n + 1))]
    <3>1. \A q \in Kinds : STACKv[q] \in Seq(0..(n + 1))
      BY <1>5, <2>2, SeqMonotonic
    <3> QED BY <1>5, <3>1
  <2>4. env' \in [Var -> 0..(n + 1)]
    BY <1>3, <1>5, <2>2
  <2> QED BY <1>0, <1>3, <1>8, <1>9, <2>1, <2>3, <2>4 DEF TypeOK
<1>14. Within(S, k - 1, Len(STACKc)) /\ STACKc # <<>> /\ Top(STACKc) = S[1].id
  BY <1>0 DEF Labelled
<1>15. /\ n > 0 => n \in 1..Len(made)
       /\ \A i \in 1..n : i \in 1..Len(made)
  BY <1>5, <1>a
<1>16. HistoryInv'
  <2>1. ASSUME NEW i \in 1..n
        PROVE  RunChain(i)' /\ SaveChain(i)' /\ EnvChain(i)'
    <3>1. RunChain(i) /\ SaveChain(i) /\ EnvChain(i)
      BY <1>0, <1>15 DEF DataInv, HistoryInv
    <3>2. i \in Nat \ {0} /\ (i # 1 => i - 1 \in 1..n)
      BY <1>5
    <3>3. made'[i] = made[i] /\ (i # 1 => made'[i - 1] = made[i - 1])
      BY <1>8, <3>2
    <3>4. LabelsAt(i - 1)' = LabelsAt(i - 1) /\ SavesAt(i - 1)' = SavesAt(i - 1)
      BY <3>2, <3>3 DEF LabelsAt, SavesAt
    <3>5. StmtAt(i)' = StmtAt(i) /\ (i # 1 => StmtAt(i - 1)' = StmtAt(i - 1))
      BY <1>12, <3>2
    <3>6. RunChain(i)'
      BY <3>1, <3>2, <3>3, <3>4 DEF RunChain
    <3>7. SaveChain(i)'
      BY <3>1, <3>3, <3>4, <3>5 DEF SaveChain
    <3>8. EnvChain(i)'
      BY <3>1, <3>2, <3>3, <3>5 DEF EnvChain
    <3> QED BY <3>6, <3>7, <3>8
  <2>2. LabelsAt(n)' = LabelsAt(n) /\ SavesAt(n)' = SavesAt(n)
    <3>1. n = 0 \/ n \in 1..n
      BY <1>5
    <3> QED BY <1>8, <3>1 DEF LabelsAt, SavesAt
  <2>3. RunChain(n + 1)'
    <3>1. CASE k = 1
      <4>1. Len(STACKc) - 1 = LabelsAt(n) /\ (n > 0 => made[n].k = Len(made[n].slc))
        BY <1>10, <1>14, <3>1 DEF Within, Between
      <4>2. n + 1 > 1 => made'[n + 1 - 1].k = Len(made'[n + 1 - 1].slc)
        <5>1. n + 1 - 1 = n /\ (n + 1 > 1 => n > 0 /\ n \in 1..n)
          BY <1>5
        <5> QED BY <1>8, <4>1, <5>1
      <4>3. made'[n + 1].labels = LabelsAt(n + 1 - 1)' + 1
        <5>1. n + 1 - 1 = n
          BY <1>5
        <5>2. LabelsAt(n + 1 - 1)' = LabelsAt(n)
          BY <2>2, <5>1
        <5>3. LabelsAt(n) + 1 = Len(STACKc)
          BY <1>5, <4>1
        <5> QED BY <1>7, <1>8, <5>2, <5>3
      <4> QED BY <1>7, <1>8, <3>1, <4>2, <4>3 DEF RunChain
    <3>2. CASE k # 1
      <4>1. k - 1 # 0 /\ k - 1 + 1 = k
        BY <1>4, <3>2
      <4>2. n > 0 /\ made[n].slc = S /\ made[n].k = k - 1 /\ made[n].labels = Len(STACKc)
        BY <1>10, <1>14, <4>1 DEF Within
      <4>3. n + 1 - 1 = n /\ n + 1 > 1 /\ n \in 1..n
        BY <1>5, <4>2
      <4>4. made'[n + 1 - 1] = made[n]
        BY <1>8, <4>3
      <4> QED BY <1>7, <1>8, <3>2, <4>1, <4>2, <4>3, <4>4 DEF RunChain
    <3> QED BY <3>1, <3>2
  <2>4. SaveChain(n + 1)'
    <3>1. \A q \in Kinds : e.saves[q] = SavesAt(n)[q] + (IF q = S[k].op THEN 1 ELSE 0)
      BY <1>0, <1>7, <1>10 DEF SavedFor
    <3>2. SavesAt(n) \in [Kinds -> Nat]
      <4>1. CASE n = 0
        BY <4>1 DEF SavesAt
      <4>2. CASE n # 0
        <5>1. n \in 1..Len(made) /\ n # 0
          BY <1>5, <1>a, <4>2
        <5> QED BY <1>0, <5>1, EntryFacts DEF DataInv
      <4> QED BY <4>1, <4>2
    <3>3. e.saves \in [Kinds -> Nat]
      BY <1>6 DEF Entries
    <3>4. e.saves = [SavesAt(n) EXCEPT ![S[k].op] = @ + 1]
      <4> DEFINE o == S[k].op
                 a == e.saves
                 b == SavesAt(n)
      <4>1. o \in Kinds /\ a \in [Kinds -> Nat] /\ b \in [Kinds -> Nat]
        BY <1>4, <3>2, <3>3
      <4>2. \A q \in Kinds : a[q] = b[q] + (IF q = o THEN 1 ELSE 0)
        BY <3>1
      <4> HIDE DEF o, a, b
      <4>3. \A q \in Kinds : a[q] = [b EXCEPT ![o] = @ + 1][q]
        BY <4>1, <4>2
      <4>4. a = [b EXCEPT ![o] = @ + 1]
        BY <4>1, <4>3
      <4> QED BY <4>4 DEF o, a, b
    <3>5. n + 1 - 1 = n
      BY <1>5
    <3>6. SavesAt(n + 1 - 1)' = SavesAt(n)
      BY <2>2, <3>5
    <3>7. (made[n + 1].saves = [SavesAt(n + 1 - 1) EXCEPT ![StmtAt(n + 1).op] = @ + 1])'
      BY <1>8, <1>11, <3>4, <3>6, Zenon
    <3> QED BY <3>7 DEF SaveChain
  <2>5. EnvChain(n + 1)'
    <3>1. CASE n = 0
      <4>1. env = [w \in Var |-> 0]
        BY <1>0, <1>10, <3>1 DEF DataInv, EnvInv
      <4> QED BY <1>7, <1>8, <3>1, <4>1 DEF EnvChain
    <3>2. CASE n # 0
      <4>1. \A w \in Var \ {StmtAt(n).var} : env[w] = made[n].before[w]
        BY <1>0, <1>10, <3>2 DEF DataInv, EnvInv
      <4>2. n + 1 - 1 = n /\ n + 1 # 1 /\ n \in 1..n
        BY <1>5, <3>2
      <4>3. StmtAt(n + 1 - 1)' = StmtAt(n) /\ made'[n + 1 - 1] = made[n]
        BY <1>8, <1>12, <4>2
      <4> QED BY <1>7, <1>8, <4>1, <4>2, <4>3 DEF EnvChain
    <3> QED BY <3>1, <3>2
  <2>6. ASSUME NEW i \in 1..Len(made')
        PROVE  /\ made'[i].slc \in Runs /\ made'[i].k \in 1..Len(made'[i].slc)
               /\ made'[i].labels > 0
               /\ RunChain(i)' /\ SaveChain(i)' /\ EnvChain(i)'
    <3>1. CASE i \in 1..n
      <4>1. made[i].slc \in Runs /\ made[i].k \in 1..Len(made[i].slc) /\ made[i].labels > 0
        BY <1>0, <1>15, <3>1 DEF DataInv, HistoryInv
      <4> QED BY <1>8, <2>1, <3>1, <4>1
    <3>2. CASE i = n + 1
      <4>1. Len(STACKc) > 0
        BY <1>5, <1>14, EmptySeq
      <4> QED BY <1>4, <1>7, <1>8, <2>3, <2>4, <2>5, <3>2, <4>1
    <3>3. i \in 1..n \/ i = n + 1
      BY <1>5, <1>8
    <3> QED BY <3>1, <3>2, <3>3
  <2> QED BY <1>9, <2>6 DEF HistoryInv
<1>17. ASSUME NEW i \in 1..Len(made')
       PROVE  i \in 1..n \/ i = n + 1
  BY <1>5, <1>8
<1>18. HeldInv' /\ AllHeld'
  <2>1. ASSUME NEW i \in 1..n
        PROVE  /\ LabelHeld(i)' /\ SaveHeld(i)'
               /\ made'[i].labels <= Len(STACKc')
               /\ made'[i].saves[StmtAt(i)'.op] <= Len(STACKv'[StmtAt(i)'.op])
    <3>1. LabelHeld(i) /\ SaveHeld(i)
      BY <1>0, <1>15 DEF DataInv, HeldInv
    <3>2. /\ made[i].labels <= Len(STACKc)
          /\ made[i].saves[StmtAt(i).op] <= Len(STACKv[StmtAt(i).op])
      BY <1>15 DEF AllHeld
    <3>3. made'[i] = made[i] /\ StmtAt(i)' = StmtAt(i)
      BY <1>8, <1>12
    <3>4. LabelHeld(i)'
      BY <1>3, <3>1, <3>3 DEF LabelHeld
    <3>5. SaveHeld(i)'
      BY <1>3, <3>1, <3>3 DEF SaveHeld
    <3> QED BY <1>3, <3>2, <3>3, <3>4, <3>5
  <2>2. /\ LabelHeld(n + 1)' /\ SaveHeld(n + 1)'
        /\ made'[n + 1].labels <= Len(STACKc')
        /\ made'[n + 1].saves[StmtAt(n + 1)'.op] <= Len(STACKv'[StmtAt(n + 1)'.op])
    <3>1. LabelHeld(n + 1)'
      BY <1>3, <1>7, <1>8, <1>14 DEF LabelHeld, Top
    <3>2. SaveHeld(n + 1)'
      BY <1>0, <1>3, <1>4, <1>7, <1>8, <1>11 DEF SaveHeld, Top
    <3> QED BY <1>3, <1>4, <1>5, <1>7, <1>8, <1>11, <3>1, <3>2
  <2> QED BY <1>17, <2>1, <2>2 DEF HeldInv, AllHeld
<1>19. EnvInv'
  <2>1. Done' # 0
    BY <1>5, <1>10
  <2>2. \A w \in Var \ {S[k].var} : env'[w] = env[w]
    BY <1>3, <1>5
  <2>3. \A w \in Var \ {StmtAt(Done)'.var} : env'[w] = made'[Done'].before[w]
    BY <1>7, <1>8, <1>10, <1>11, <2>2
  <2> QED BY <2>1, <2>3 DEF EnvInv
<1>20. UndoneInv'
  <2>1. undone' = <<>> /\ Len(undone') = 0
    BY <1>3, EmptySeq
  <2> QED BY <1>5, <1>8, <2>1 DEF UndoneInv
<1>21. Saved'
  BY <1>3, <1>5, <1>7, <1>8, <1>10 DEF Saved, SavesAt
<1>22. Labelled(S, k + 1)'
  <2>1. Within(S, k, Len(STACKc))'
    <3>1. k # 0 /\ Done' > 0
      BY <1>4, <1>5, <1>10
    <3> QED BY <1>3, <1>7, <1>8, <1>10, <3>1 DEF Within
  <2>2. k + 1 - 1 = k
    BY <1>4
  <2>3. Within(S, k + 1 - 1, Len(STACKc))'
    BY <2>1, <2>2
  <2> QED BY <1>3, <1>14, <2>3 DEF Labelled, Top
<1>23. todo'[1] = SlcFrom(S, k + 1) /\ Ends(todo', ForwardItems, 2)
  <2>1. 2 \in Nat \ {0} /\ Ends(todo, ForwardItems, 2 + 1)
    BY <1>0
  <2>2. Ends(todo', ForwardItems, 2)
    BY <1>0, <1>1, <1>3, <2>1, CodeDropped
  <2>3. \A j \in 1..2 : j < 2 => todo'[j] = todo[j + 1]
    BY <1>0, <1>1, <1>3, <2>1, CodeDropped
  <2> QED BY <1>0, <2>2, <2>3
<1>24. Making(S, k + 1)'
  BY <1>9, <1>21, <1>22, <1>23 DEF Making, ForwardFrom
<1>25. InForward'
  BY <1>3, <1>4, <1>9, <1>18, <1>24 DEF InForward
<1> QED BY <1>0, <1>3, <1>13, <1>16, <1>18, <1>19, <1>20, <1>25 DEF ReversalInv, DataInv

-------------------------------------------------------------------------------
(* The reverse section.                                                    *)

LEMMA PoppedFacts ==
  ASSUME NEW X, NEW s \in Seq(X), s # <<>>
  PROVE  /\ Popped(s) \in Seq(X)
         /\ Len(s) \in Nat \ {0}
         /\ Len(Popped(s)) = Len(s) - 1
         /\ \A i \in 1..(Len(s) - 1) : Popped(s)[i] = s[i]
         /\ Top(s) \in X
<1>1. Len(s) \in Nat \ {0} /\ \A i \in 1..Len(s) : s[i] \in X
  BY LenProperties, EmptySeq, ElementOfSeq
<1> DEFINE m == Len(s) - 1
<1>2. m \in Nat /\ m + 1 = Len(s) /\ 1 <= m + 1 /\ m - 1 + 1 = m
      /\ \A i \in 1..m : i \in 1..Len(s) /\ 1 + i - 1 = i
  BY <1>1
<1>3. Popped(s) = SubSeq(s, 1, m)
  BY DEF Popped
<1> HIDE DEF m
<1>4. /\ SubSeq(s, 1, m) \in Seq(X)
      /\ Len(SubSeq(s, 1, m)) = IF 1 <= m THEN m - 1 + 1 ELSE 0
      /\ \A i \in 1..(m - 1 + 1) : SubSeq(s, 1, m)[i] = s[1 + i - 1]
  <2>1. \A i \in 1..m : s[i] \in X
    BY <1>1, <1>2
  <2>2. 1 \in Int /\ m \in Int
    BY <1>2
  <2> QED BY <2>1, <2>2, SubSeqProperties
<1>5. Len(Popped(s)) = m
  BY <1>2, <1>3, <1>4
<1>6. \A i \in 1..m : Popped(s)[i] = s[i]
  BY <1>2, <1>3, <1>4
<1>7. Top(s) \in X
  BY <1>1 DEF Top
<1> QED BY <1>1, <1>3, <1>4, <1>5, <1>6, <1>7 DEF m

(* Code of the reverse section replaces an instruction between two runs. *)
LEMMA LookingCode ==
  ASSUME ReversalInv, todo # <<>>, Between(Len(STACKc)), Saved,
         Ends(todo, ReverseItems, 2),
         NEW c \in Seq(Instructions), \A j \in 1..Len(c) : c[j] \in ReverseItems,
         Continue(c), UNCHANGED data
  PROVE  ReversalInv'
<1>0. TypeOK
  BY DEF ReversalInv
<1>1. TypeOK' /\ prog' \in Program
  BY CodeType DEF ReversalInv, data
<1>2. DataInv' /\ Saved'
  BY DataStays DEF ReversalInv, data
<1>3. Between(Len(STACKc))'
  <2>1. STACKc' = STACKc
    BY DEF data
  <2> QED BY <2>1, DataStays
<1>5. Ends(todo', ReverseItems, 1)
  BY <1>0, CodeOfSection
<1>6. ReverseItems' = ReverseItems
  BY ProgStays DEF data
<1>7. ReverseFrom(1)'
  BY <1>5, <1>6 DEF ReverseFrom
<1>8. Looking'
  BY <1>2, <1>3, <1>7 DEF Looking
<1> QED BY <1>1, <1>2, <1>8 DEF ReversalInv, InReverse

(* The branch of a run is entered if the label on top names the run. *)
LEMMA BranchStep ==
  ASSUME ReversalInv, todo # <<>>, Between(Len(STACKc)), Saved,
         Ends(todo, ReverseItems, 2), NEW S \in Runs, Instr = IfTop(S), Next
  PROVE  ReversalInv'
<1>0. TypeOK /\ prog \in Program
  BY DEF ReversalInv
<1>1. RunIfTop /\ Instr.slc = S
  BY NextAt DEF IfTop
<1>2. UNCHANGED data
  BY <1>1 DEF RunIfTop, data
<1>3. CASE STACKc # <<>> /\ Top(STACKc) = S[1].id
  <2> DEFINE c == <<PopLabel, SlcBack(S, Len(S))>>
  <2>1. Continue(c)
    BY <1>1, <1>3 DEF RunIfTop, RhoSlc
  <2>2. PopLabel \in Instructions /\ SlcBack(S, Len(S)) \in Instructions
    <3>1. Len(S) \in Nat
      BY <1>0, RunFacts
    <3> QED BY <1>0, <3>1, RunInstructions
  <2>3. c \in Seq(Instructions) /\ Len(c) = 2 /\ c[1] = PopLabel /\ c[2] = SlcBack(S, Len(S))
    BY <2>2, TupleSeq
  <2> HIDE DEF c
  <2>4. TypeOK' /\ prog' \in Program
    BY <1>0, <1>2, <2>1, <2>3, CodeType DEF data
  <2>5. todo'[1] = PopLabel /\ todo'[2] = SlcBack(S, Len(S))
    <3>1. \A j \in 1..2 : todo'[j] = c[j]
      BY <1>0, <2>1, <2>3, CodeHead
    <3> QED BY <2>3, <3>1
  <2>6. Ends(todo', ReverseItems, 3)
    <3>1. 3 \in Nat \ {0} /\ 3 <= Len(c) + 1 /\ \A j \in 3..Len(c) : c[j] \in ReverseItems
      BY <2>3
    <3> QED BY <1>0, <2>1, <2>3, <3>1, CodeFrom
  <2>7. Runs' = Runs /\ ReverseItems' = ReverseItems
    BY <1>2, ProgStays DEF data
  <2>8. DataInv' /\ Saved'
    BY <1>2, DataStays DEF ReversalInv
  <2>9. Between(Len(STACKc))' /\ STACKc' # <<>> /\ Top(STACKc') = S[1].id
    BY <1>2, <1>3, DataStays DEF data, Top
  <2>10. Unlabelling(S)'
    BY <2>5, <2>6, <2>7, <2>8, <2>9 DEF Unlabelling, ReverseFrom
  <2> QED BY <2>4, <2>7, <2>8, <2>10 DEF ReversalInv, InReverse
<1>4. CASE ~(STACKc # <<>> /\ Top(STACKc) = S[1].id)
  <2>1. Continue(<<>>)
    BY <1>1, <1>4 DEF RunIfTop
  <2>2. <<>> \in Seq(Instructions) /\ \A j \in 1..Len(<<>>) : <<>>[j] \in ReverseItems
    BY EmptySeq
  <2> QED BY <1>2, <2>1, <2>2, LookingCode
<1> QED BY <1>3, <1>4

LEMMA LookingStep ==
  ASSUME ReversalInv, NoForLoop, Looking, Next
  PROVE  ReversalInv'
<1>0. TypeOK /\ prog \in Program /\ todo \in Seq(Instructions) /\ Ends(todo, ReverseItems, 1)
      /\ Between(Len(STACKc)) /\ Saved
  BY DEF ReversalInv, TypeOK, Looking, ReverseFrom
<1>1. ReverseLoop \notin ReverseItems
  BY ReverseItem
<1>2. todo # <<>> /\ Instr = todo[1]
  BY <1>0, <1>1, EndsHead DEF Instr
<1>3. CASE todo[1] = ReverseLoop
  <2>1. Tail(todo) = <<>>
    BY <1>0, <1>1, <1>3, EndsHead
  <2> QED BY <1>0, <1>2, <1>3, <2>1, LoopStep
<1>4. CASE todo[1] # ReverseLoop
  <2>1. todo[1] \in ReverseItems /\ Ends(todo, ReverseItems, 2)
    BY <1>0, <1>1, <1>4, EndsHead
  <2>2. CASE todo[1] \in [g : {"rho"}, v : DOMAIN prog, k : Nat \ {0}]
    <3> DEFINE v == todo[1].v
               k == todo[1].k
               c == RhoSeq(prog, v, k)
    <3>0. v \in DOMAIN prog /\ k \in Nat \ {0} /\ k + 1 \in Nat \ {0} /\ todo[1].g = "rho"
      BY <2>2
    <3>1. Continue(c) /\ UNCHANGED data
      BY <1>2, <3>0, NextAt
    <3> HIDE DEF v, k
    <3>2. \/ c = <<>>
          \/ \E S \in Runs, e \in Nat \ {0} : c = <<IfTop(S), RhoFrom(v, e)>>
          \/ \E w \in DOMAIN prog : c = <<RhoFrom(w, 1), RhoFrom(v, k + 1)>>
      BY <1>0, <3>0, RhoSeqShape
    <3> HIDE DEF c
    <3>3. \A e \in Nat \ {0}, w \in DOMAIN prog :
            RhoFrom(w, e) \in ReverseItems /\ RhoFrom(w, e) \in Instructions
      BY SequenceInstructions
    <3>4. \A S \in Runs : IfTop(S) \in ReverseItems /\ IfTop(S) \in Instructions
      <4>1. ASSUME NEW S \in Runs PROVE IfTop(S) \in ReverseItems
        BY DEF ReverseItems, IfTop
      <4>2. ASSUME NEW S \in Runs PROVE IfTop(S) \in Instructions
        <5>1. 0 \in Nat
          OBVIOUS
        <5> QED BY <1>0, <5>1, RunInstructions
      <4> QED BY <4>1, <4>2
    <3>5. \A a, b : /\ a \in ReverseItems /\ a \in Instructions
                    /\ b \in ReverseItems /\ b \in Instructions
                    /\ c = <<a, b>>
                    => c \in Seq(Instructions) /\ \A j \in 1..Len(c) : c[j] \in ReverseItems
      OBVIOUS
    <3>6. c = <<>> => c \in Seq(Instructions) /\ \A j \in 1..Len(c) : c[j] \in ReverseItems
      OBVIOUS
    <3>7. c \in Seq(Instructions) /\ \A j \in 1..Len(c) : c[j] \in ReverseItems
      <4>1. CASE \E S \in Runs, e \in Nat \ {0} : c = <<IfTop(S), RhoFrom(v, e)>>
        BY <3>0, <3>3, <3>4, <3>5, <4>1
      <4>2. CASE \E w \in DOMAIN prog : c = <<RhoFrom(w, 1), RhoFrom(v, k + 1)>>
        <5>1. 1 \in Nat \ {0}
          OBVIOUS
        <5> QED BY <3>0, <3>3, <3>5, <4>2, <5>1
      <4> QED BY <3>2, <3>6, <4>1, <4>2
    <3> QED BY <1>0, <1>2, <2>1, <3>1, <3>7, LookingCode
  <2>3. CASE todo[1] \in [g : {"iftop"}, slc : Runs]
    <3>1. PICK S \in Runs : todo[1] = IfTop(S)
      BY <2>3 DEF IfTop
    <3> QED BY <1>0, <1>2, <2>1, <3>1, BranchStep
  <2> QED BY <2>1, <2>2, <2>3 DEF ReverseItems
<1> QED BY <1>3, <1>4

(* What is popped of the labels was the label of the last assignment's run. *)
LEMMA UnlabellingStep ==
  ASSUME ReversalInv, NEW S \in Runs, Unlabelling(S), Next
  PROVE  ReversalInv'
<1>0. /\ TypeOK /\ prog \in Program /\ DataInv
      /\ Ends(todo, ReverseItems, 3)
      /\ todo[1] = PopLabel
      /\ todo[2] = SlcBack(S, Len(S))
      /\ STACKc # <<>>
      /\ Top(STACKc) = S[1].id
      /\ Between(Len(STACKc))
      /\ Saved
  BY DEF ReversalInv, Unlabelling, ReverseFrom
<1>1. todo # <<>> /\ Instr = todo[1] /\ Len(todo) \in Nat /\ Len(todo) >= 3
  BY <1>0, HeadIs
<1>2. RunPopLabel
  BY <1>0, <1>1, NextAt DEF PopLabel
<1>3. /\ STACKc' = Popped(STACKc)
      /\ Continue(<<>>)
      /\ UNCHANGED <<prog, env, STACKv, made, undone>>
  BY <1>2 DEF RunPopLabel
<1>4. /\ STACKc \in Seq(Nat) /\ Len(STACKc) \in Nat \ {0}
      /\ STACKc' \in Seq(Nat)
      /\ Len(STACKc') = Len(STACKc) - 1
      /\ \A i \in 1..(Len(STACKc) - 1) : STACKc'[i] = STACKc[i]
  BY <1>0, <1>3, PoppedFacts DEF TypeOK
<1>5. Runs' = Runs /\ ReverseItems' = ReverseItems /\ Instructions' = Instructions
  BY <1>3, ProgStays
<1>6. TypeOK'
  <2>1. todo' \in Seq(Instructions)
    BY <1>0, <1>1, <1>3, CodeTyped
  <2> QED BY <1>0, <1>3, <1>4, <1>5, <2>1 DEF TypeOK
<1>7. HeldInv'
  <2>1. ASSUME NEW i \in 1..Len(made), made[i].labels <= Len(STACKc')
        PROVE  STACKc'[made[i].labels] = made[i].slc[1].id
    <3>1. made[i].labels \in Nat \ {0}
      BY <1>0, EntryFacts DEF DataInv
    <3>2. LabelHeld(i)
      BY <1>0 DEF DataInv, HeldInv
    <3>3. made[i].labels \in 1..(Len(STACKc) - 1) /\ made[i].labels <= Len(STACKc)
      BY <1>4, <2>1, <3>1
    <3> QED BY <1>4, <3>2, <3>3 DEF LabelHeld
  <2>2. \A i \in 1..Len(made) : LabelHeld(i)'
    BY <1>3, <2>1 DEF LabelHeld
  <2>3. \A i \in 1..Len(made) : SaveHeld(i)'
    BY <1>0, <1>3 DEF DataInv, HeldInv, SaveHeld, StmtAt
  <2> QED BY <1>3, <2>2, <2>3 DEF HeldInv
<1>8. DataInv'
  BY <1>0, <1>3, <1>7, HistoryStays, EnvStays DEF DataInv
<1>9. Saved'
  BY <1>0, <1>3 DEF Saved, SavesAt, Done
<1>10. Done \in 1..Len(made) /\ made[Done].labels = Len(STACKc)
  <2>1. Done \in 0..Len(made)
    BY <1>0, Positive DEF Done, DataInv, UndoneInv
  <2>2. Done # 0
    BY <1>0, <1>4 DEF Between, LabelsAt
  <2> QED BY <1>0, <2>1, <2>2, Positive DEF Between, LabelsAt
<1>11. made[Done].slc = S /\ made[Done].k = Len(S)
  <2> DEFINE d == Done
  <2>1. d \in 1..Len(made) /\ made[d].labels = Len(STACKc) /\ d > 0
    BY <1>10
  <2>2. made[d].k = Len(made[d].slc)
    BY <1>0, <2>1 DEF Between
  <2> HIDE DEF d
  <2>3. made[d].slc \in Runs
    BY <1>0, <2>1, EntryFacts DEF DataInv
  <2>4. LabelHeld(d)
    BY <1>0, <2>1 DEF DataInv, HeldInv
  <2>5. STACKc[Len(STACKc)] = made[d].slc[1].id
    BY <1>4, <2>1, <2>4 DEF LabelHeld
  <2>6. made[d].slc[1].id = S[1].id
    BY <1>0, <2>5 DEF Top
  <2>7. made[d].slc = S
    BY <1>0, <2>3, <2>6, LabelNamesRun
  <2> QED BY <2>2, <2>7 DEF d
<1>12. Within(S, Len(S), Len(STACKc) - 1 + 1)
  <2>1. Len(S) # 0 /\ Done > 0 /\ Len(STACKc) - 1 + 1 = Len(STACKc)
    BY <1>0, <1>4, <1>10, RunFacts
  <2> QED BY <1>10, <1>11, <2>1 DEF Within
<1>13. Within(S, Len(S), Len(STACKc) + 1)'
  <2>1. \A L : Within(S, Len(S), L) => Within(S, Len(S), L)'
    BY <1>3, PlaceStays
  <2>2. PICK L : L = Len(STACKc) - 1 + 1
    OBVIOUS
  <2>3. Within(S, Len(S), L)'
    BY <1>12, <2>1, <2>2
  <2>4. L = Len(STACKc') + 1
    BY <1>4, <2>2
  <2> QED BY <2>3, <2>4 DEF Within, Between
<1>14. todo'[1] = SlcBack(S, Len(S)) /\ Ends(todo', ReverseItems, 2)
  <2>1. 2 \in Nat \ {0} /\ Ends(todo, ReverseItems, 2 + 1)
    BY <1>0
  <2>2. Ends(todo', ReverseItems, 2)
    BY <1>0, <1>1, <1>3, <2>1, CodeDropped
  <2>3. \A j \in 1..2 : j < 2 => todo'[j] = todo[j + 1]
    BY <1>0, <1>1, <1>3, <2>1, CodeDropped
  <2> QED BY <1>0, <2>2, <2>3
<1>15. Undoing(S, Len(S))'
  BY <1>5, <1>9, <1>13, <1>14 DEF Undoing, ReverseFrom
<1>16. InReverse'
  <2>1. Len(S) \in 0..Len(S)
    BY <1>0, RunFacts
  <2> QED BY <1>5, <1>15, <2>1 DEF InReverse
<1> QED BY <1>0, <1>3, <1>6, <1>8, <1>16 DEF ReversalInv

LEMMA UndoingStep ==
  ASSUME ReversalInv, NEW S \in Runs, NEW k \in 0..Len(S), Undoing(S, k), Next
  PROVE  ReversalInv'
<1>0. /\ TypeOK /\ prog \in Program /\ DataInv
      /\ Ends(todo, ReverseItems, 2)
      /\ todo[1] = SlcBack(S, k)
      /\ Within(S, k, Len(STACKc) + 1)
      /\ Saved
  BY DEF ReversalInv, Undoing, ReverseFrom
<1>1. todo # <<>> /\ Instr = todo[1] /\ Len(todo) \in Nat /\ Len(todo) >= 2
  BY <1>0, HeadIs
<1>2. Continue(RhoSlcBack(S, k)) /\ UNCHANGED data
  BY <1>0, <1>1, NextAt DEF SlcBack
<1>3. Len(S) \in Nat \ {0} /\ k \in Nat /\ Len(STACKc) \in Nat
  BY <1>0, RunFacts, Positive
<1>4. CASE k = 0
  <2>1. Between(Len(STACKc))
    <3>1. Len(STACKc) + 1 - 1 = Len(STACKc)
      BY <1>3
    <3>2. Between(Len(STACKc) + 1 - 1)
      BY <1>0, <1>4 DEF Within
    <3> QED BY <3>1, <3>2
  <2>2. RhoSlcBack(S, k) = <<>>
    BY <1>4 DEF RhoSlcBack
  <2>3. <<>> \in Seq(Instructions) /\ \A j \in 1..Len(<<>>) : <<>>[j] \in ReverseItems
    BY EmptySeq
  <2> QED BY <1>0, <1>1, <1>2, <2>1, <2>2, <2>3, LookingCode
<1>5. CASE k # 0
  <2> DEFINE c == <<Restore(S, k), PopSaved(S, k), SlcBack(S, k - 1)>>
  <2>1. RhoSlcBack(S, k) = c
    BY <1>5, AppendTuple DEF RhoSlcBack, RhoAssign
  <2>2. Restore(S, k) \in Instructions /\ PopSaved(S, k) \in Instructions
    BY <1>0, <1>3, RunInstructions
  <2>3. SlcBack(S, k - 1) \in Instructions
    <3>1. k - 1 \in Nat
      BY <1>3, <1>5
    <3> QED BY <1>0, <3>1, RunInstructions
  <2>4. /\ c \in Seq(Instructions) /\ Len(c) = 3
        /\ c[1] = Restore(S, k) /\ c[2] = PopSaved(S, k) /\ c[3] = SlcBack(S, k - 1)
    BY <2>2, <2>3, TupleSeq
  <2> HIDE DEF c
  <2>5. Continue(c)
    BY <1>2, <2>1
  <2>6. TypeOK' /\ prog' \in Program
    BY <1>0, <1>1, <1>2, <2>4, <2>5, CodeType DEF data
  <2>7. todo'[1] = Restore(S, k) /\ todo'[2] = PopSaved(S, k) /\ todo'[3] = SlcBack(S, k - 1)
    <3>1. \A j \in 1..3 : todo'[j] = c[j]
      BY <1>0, <1>1, <2>4, <2>5, CodeHead
    <3> QED BY <2>4, <3>1
  <2>8. Ends(todo', ReverseItems, 4)
    <3>1. 4 \in Nat \ {0} /\ 4 <= Len(c) + 1 /\ \A j \in 4..Len(c) : c[j] \in ReverseItems
      BY <2>4
    <3> QED BY <1>0, <1>1, <2>4, <2>5, <3>1, CodeFrom
  <2>9. Runs' = Runs /\ ReverseItems' = ReverseItems
    BY <1>2, ProgStays DEF data
  <2>10. DataInv' /\ Saved'
    BY <1>0, <1>2, DataStays DEF data
  <2>11. Within(S, k, Len(STACKc) + 1)'
    BY <1>0, <1>2, DataStays DEF data
  <2>12. k > 0
    BY <1>3, <1>5
  <2>13. Restoring(S, k)'
    BY <2>7, <2>8, <2>9, <2>10, <2>11, <2>12 DEF Restoring, ReverseFrom
  <2> QED BY <2>6, <2>9, <2>10, <2>13 DEF ReversalInv, InReverse
<1> QED BY <1>4, <1>5

(* The value on top is what the variable held before the last assignment. *)
LEMMA RestoringStep ==
  ASSUME ReversalInv, NEW S \in Runs, NEW k \in 0..Len(S), Restoring(S, k), Next
  PROVE  ReversalInv'
<1>0. /\ TypeOK /\ prog \in Program /\ DataInv
      /\ Ends(todo, ReverseItems, 4)
      /\ k > 0
      /\ todo[1] = Restore(S, k)
      /\ todo[2] = PopSaved(S, k)
      /\ todo[3] = SlcBack(S, k - 1)
      /\ Within(S, k, Len(STACKc) + 1)
      /\ Saved
  BY DEF ReversalInv, Restoring, ReverseFrom
<1>1. todo # <<>> /\ Instr = todo[1] /\ Len(todo) \in Nat /\ Len(todo) >= 4
  BY <1>0, HeadIs
<1>2. RunRestore /\ Stmt = S[k]
  BY <1>0, <1>1, NextAt DEF Restore, Stmt
<1>3. /\ STACKv[S[k].op] # <<>>
      /\ env' = [env EXCEPT ![S[k].var] = Top(STACKv[S[k].op])]
      /\ undone' = Append(undone, S[k].id)
      /\ Continue(<<>>)
      /\ UNCHANGED <<prog, STACKc, STACKv, made>>
  BY <1>2 DEF RunRestore
<1>4. /\ Len(S) \in Nat \ {0} /\ k \in Nat \ {0} /\ k \in 1..Len(S)
      /\ S[k].op \in Kinds /\ S[k].var \in Var /\ S[k].id \in Nat
  <2>1. Len(S) \in Nat \ {0}
    BY <1>0, RunFacts
  <2>2. k \in Nat \ {0} /\ k \in 1..Len(S)
    BY <1>0, <2>1
  <2> QED BY <1>0, <2>1, <2>2, RunFacts
<1>5. PICK n : n = Done
  OBVIOUS
<1>6. /\ n \in 1..Len(made) /\ n \in Nat \ {0} /\ Len(made) \in Nat
      /\ Len(undone) \in Nat /\ n = Len(made) - Len(undone)
      /\ Len(STACKc) \in Nat
  <2>1. Len(made) \in Nat /\ Len(undone) \in Nat /\ Len(STACKc) \in Nat
    BY <1>0, Positive
  <2>2. n = Len(made) - Len(undone) /\ Len(undone) <= Len(made)
    BY <1>0, <1>5 DEF Done, DataInv, UndoneInv
  <2>3. k # 0 /\ n > 0
    BY <1>0, <1>4, <1>5 DEF Within
  <2> QED BY <2>1, <2>2, <2>3
<1>7. /\ made[n].slc = S /\ made[n].k = k /\ made[n].labels = Len(STACKc) + 1
      /\ StmtAt(n) = S[k]
  BY <1>0, <1>4, <1>5 DEF Within, StmtAt
<1>8. /\ undone' \in Seq(Nat)
      /\ Len(undone') = Len(undone) + 1
      /\ \A i \in 1..Len(undone) : undone'[i] = undone[i]
      /\ undone'[Len(undone) + 1] = S[k].id
  BY <1>0, <1>3, <1>4, AppendProperties DEF TypeOK
<1>9. Done' = n - 1
  BY <1>3, <1>6, <1>8 DEF Done
<1>10. Runs' = Runs /\ ReverseItems' = ReverseItems /\ Instructions' = Instructions
  BY <1>3, ProgStays
<1>11. /\ made[n].before \in [Var -> Nat]
       /\ SavesAt(n) = made[n].saves /\ SavesAt(n) \in [Kinds -> Nat]
       /\ SavesAt(n - 1) \in [Kinds -> Nat]
       /\ RunChain(n) /\ SaveChain(n) /\ EnvChain(n)
  BY <1>0, <1>6, EntryFacts DEF DataInv, HistoryInv
<1>12. Top(STACKv[S[k].op]) = made[n].before[S[k].var]
  <2>1. Len(STACKv[S[k].op]) = made[n].saves[S[k].op]
    BY <1>0, <1>4, <1>5, <1>11 DEF Saved
  <2>2. SaveHeld(n)
    BY <1>0, <1>6 DEF DataInv, HeldInv
  <2>3. Len(STACKv[S[k].op]) \in Nat
    BY <1>0, <1>4, Positive
  <2> QED BY <1>7, <2>1, <2>2, <2>3 DEF SaveHeld, Top
<1>13. env' = made[n].before
  <2>1. \A w \in Var \ {S[k].var} : env[w] = made[n].before[w]
    BY <1>0, <1>5, <1>6, <1>7 DEF DataInv, EnvInv
  <2>2. env \in [Var -> 0..Len(made)]
    BY <1>0 DEF TypeOK
  <2>3. \A w \in Var : env'[w] = made[n].before[w]
    BY <1>3, <1>4, <1>12, <2>1, <2>2
  <2>4. env' = [w \in Var |-> env'[w]]
    BY <1>3, <2>2
  <2> QED BY <1>11, <2>3, <2>4
<1>14. TypeOK'
  <2>1. todo' \in Seq(Instructions)
    BY <1>0, <1>1, <1>3, CodeTyped
  <2>2. Top(STACKv[S[k].op]) \in 0..Len(made)
    <3>1. STACKv[S[k].op] \in Seq(0..Len(made))
      BY <1>0, <1>4, Positive
    <3> QED BY <1>3, <3>1, PoppedFacts
  <2>3. env' \in [Var -> 0..Len(made)]
    BY <1>0, <1>3, <2>2 DEF TypeOK
  <2> QED BY <1>0, <1>3, <1>8, <1>10, <2>1, <2>3 DEF TypeOK
<1>15. HistoryInv' /\ HeldInv'
  <2>1. HeldInv'
    BY <1>0, <1>3 DEF DataInv, HeldInv, LabelHeld, SaveHeld, StmtAt
  <2> QED BY <1>0, <1>3, <2>1, HistoryStays DEF DataInv
<1>16. \A i : StmtAt(i)' = StmtAt(i)
  BY <1>3 DEF StmtAt
<1>17. n # 1 => n - 1 # 0 /\ n - 1 \in 1..Len(made)
  BY <1>6
<1>18. EnvInv'
  <2>1. CASE n = 1
    <3>1. Done' = 0 /\ env' = [w \in Var |-> 0]
      BY <1>9, <1>11, <1>13, <2>1 DEF EnvChain
    <3> QED BY <3>1 DEF EnvInv
  <2>2. CASE n # 1
    <3>1. \A w \in Var \ {StmtAt(n - 1).var} : env'[w] = made[n - 1].before[w]
      BY <1>11, <1>13, <2>2 DEF EnvChain
    <3>2. StmtAt(Done)' = StmtAt(n - 1) /\ made'[Done'] = made[n - 1]
      BY <1>3, <1>9 DEF StmtAt
    <3> QED BY <1>9, <1>17, <2>2, <3>1, <3>2 DEF EnvInv
  <2> QED BY <2>1, <2>2
<1>19. UndoneInv'
  <2>1. Len(undone') <= Len(made')
    BY <1>3, <1>6, <1>8
  <2>2. ASSUME NEW j \in 1..Len(undone')
        PROVE  undone'[j] = StmtAt(Len(made) - j + 1)'.id
    <3>1. CASE j \in 1..Len(undone)
      <4>1. undone[j] = StmtAt(Len(made) - j + 1).id
        BY <1>0, <3>1 DEF DataInv, UndoneInv
      <4>2. StmtAt(Len(made) - j + 1)' = StmtAt(Len(made) - j + 1)
        BY <1>3 DEF StmtAt
      <4> QED BY <1>8, <3>1, <4>1, <4>2
    <3>2. CASE j = Len(undone) + 1
      <4>1. Len(made) - j + 1 = n
        BY <1>6, <3>2
      <4>2. StmtAt(Len(made) - j + 1) = S[k]
        BY <1>7, <4>1
      <4>3. StmtAt(Len(made) - j + 1)' = StmtAt(Len(made) - j + 1)
        BY <1>3 DEF StmtAt
      <4> QED BY <1>8, <3>2, <4>2, <4>3
    <3> QED BY <1>6, <1>8, <3>1, <3>2
  <2>3. env' = made'[Done' + 1].before
    <3>1. Done' + 1 = n
      BY <1>6, <1>9
    <3> QED BY <1>3, <1>13, <3>1
  <2> QED BY <2>1, <2>2, <2>3 DEF UndoneInv
<1>20. SavedFor(S[k])'
  <2>1. ASSUME NEW q \in Kinds
        PROVE  Len(STACKv'[q]) = SavesAt(n - 1)[q] + (IF q = S[k].op THEN 1 ELSE 0)
    <3>1. Len(STACKv[q]) = SavesAt(n)[q]
      BY <1>0, <1>5 DEF Saved
    <3>2. SavesAt(n) = [SavesAt(n - 1) EXCEPT ![S[k].op] = @ + 1]
      BY <1>7, <1>11 DEF SaveChain
    <3>3. CASE q = S[k].op
      BY <1>3, <1>4, <1>11, <3>1, <3>2, <3>3
    <3>4. CASE q # S[k].op
      BY <1>3, <1>4, <1>11, <3>1, <3>2, <3>4
    <3> QED BY <3>3, <3>4
  <2>2. \A q \in Kinds : SavesAt(Done)'[q] = SavesAt(n - 1)[q]
    BY <1>3, <1>9 DEF SavesAt
  <2> QED BY <2>1, <2>2 DEF SavedFor
<1>21. Within(S, k - 1, Len(STACKc) + 1)'
  <2>1. CASE k = 1
    <3>1. Len(STACKc) = LabelsAt(n - 1) /\ (n > 1 => made[n - 1].k = Len(made[n - 1].slc))
      <4>1. made[n].labels = LabelsAt(n - 1) + 1 /\ (n > 1 => made[n - 1].k = Len(made[n - 1].slc))
        BY <1>7, <1>11, <2>1 DEF RunChain
      <4>2. LabelsAt(n - 1) \in Nat
        <5>1. CASE n = 1
          BY <5>1 DEF LabelsAt
        <5>2. CASE n # 1
          <6>1. made[n - 1].labels \in Nat
            BY <1>0, <1>17, <5>2, EntryFacts DEF DataInv
          <6> QED BY <1>17, <5>2, <6>1 DEF LabelsAt
        <5> QED BY <5>1, <5>2
      <4> QED BY <1>6, <1>7, <4>1, <4>2
    <3>2. LabelsAt(Done)' = LabelsAt(n - 1) /\ made'[Done'] = made[n - 1]
      BY <1>3, <1>9 DEF LabelsAt
    <3>3. Len(STACKc') + 1 - 1 = Len(STACKc) /\ (Done' > 0 => n > 1)
      BY <1>3, <1>6, <1>9
    <3>4. k - 1 = 0
      BY <2>1
    <3> QED BY <3>1, <3>2, <3>3, <3>4 DEF Within, Between
  <2>2. CASE k # 1
    <3>1. /\ n > 1 /\ made[n - 1].slc = S
          /\ made[n].k = made[n - 1].k + 1 /\ made[n - 1].labels = Len(STACKc) + 1
      BY <1>7, <1>11, <2>2 DEF RunChain
    <3>2. made[n - 1].k = k - 1
      <4>1. made[n - 1].k \in Nat
        <5>1. PICK d : d = n - 1
          OBVIOUS
        <5>2. made[d] \in Entries
          <6>1. d \in 1..Len(made)
            BY <1>6, <1>17, <3>1, <5>1
          <6> QED BY <1>0, <6>1, EntryFacts DEF DataInv
        <5>3. made[d].k \in Nat
          BY <5>2 DEF Entries
        <5> QED BY <5>1, <5>3
      <4> QED BY <1>4, <1>7, <3>1, <4>1
    <3>3. k - 1 # 0 /\ Done' > 0
      BY <1>4, <1>6, <1>9, <2>2, <3>1
    <3> QED BY <1>3, <1>9, <3>1, <3>2, <3>3 DEF Within
  <2> QED BY <2>1, <2>2
<1>22. todo'[1] = PopSaved(S, k) /\ todo'[2] = SlcBack(S, k - 1) /\ Ends(todo', ReverseItems, 3)
  <2>1. 3 \in Nat \ {0} /\ Ends(todo, ReverseItems, 3 + 1)
    BY <1>0
  <2>2. Ends(todo', ReverseItems, 3)
    BY <1>0, <1>1, <1>3, <2>1, CodeDropped
  <2>3. \A j \in 1..3 : j < 3 => todo'[j] = todo[j + 1]
    BY <1>0, <1>1, <1>3, <2>1, CodeDropped
  <2> QED BY <1>0, <2>2, <2>3
<1>23. Popping(S, k)'
  BY <1>0, <1>10, <1>20, <1>21, <1>22 DEF Popping, ReverseFrom
<1>24. InReverse'
  BY <1>10, <1>23 DEF InReverse
<1> QED BY <1>0, <1>3, <1>14, <1>15, <1>18, <1>19, <1>24 DEF ReversalInv, DataInv

(* The values of the assignments not undone are a number of each kind. *)
LEMMA SavedCount ==
  ASSUME TypeOK, prog \in Program, DataInv
  PROVE  \A q \in Kinds : SavesAt(Done)[q] \in Nat
<1>1. Done \in 0..Len(made)
  BY Positive DEF Done, DataInv, UndoneInv
<1>2. CASE Done = 0
  BY <1>2 DEF SavesAt
<1>3. CASE Done # 0
  <2> DEFINE d == Done
  <2>1. d \in 1..Len(made)
    BY <1>1, <1>3, Positive
  <2> HIDE DEF d
  <2>2. SavesAt(d) \in [Kinds -> Nat]
    BY <2>1, EntryFacts DEF DataInv
  <2> QED BY <2>2 DEF d
<1> QED BY <1>2, <1>3

LEMMA PoppingStep ==
  ASSUME ReversalInv, NEW S \in Runs, NEW k \in 0..Len(S), Popping(S, k), Next
  PROVE  ReversalInv'
<1>0. /\ TypeOK /\ prog \in Program /\ DataInv
      /\ Ends(todo, ReverseItems, 3)
      /\ k > 0
      /\ todo[1] = PopSaved(S, k)
      /\ todo[2] = SlcBack(S, k - 1)
      /\ Within(S, k - 1, Len(STACKc) + 1)
      /\ SavedFor(S[k])
  BY DEF ReversalInv, Popping, ReverseFrom
<1>1. todo # <<>> /\ Instr = todo[1] /\ Len(todo) \in Nat /\ Len(todo) >= 3
  BY <1>0, HeadIs
<1>2. RunPop /\ Stmt = S[k]
  BY <1>0, <1>1, NextAt DEF PopSaved, Stmt
<1> DEFINE o == S[k].op
<1>3. /\ STACKv' = [STACKv EXCEPT ![o] = Popped(@)]
      /\ Continue(<<>>)
      /\ UNCHANGED <<prog, env, STACKc, made, undone>>
  BY <1>2 DEF RunPop
<1>4. Len(S) \in Nat \ {0} /\ k \in Nat \ {0} /\ k - 1 \in 0..Len(S) /\ o \in Kinds
  <2>1. Len(S) \in Nat \ {0}
    BY <1>0, RunFacts
  <2>2. k \in Nat \ {0} /\ k \in 1..Len(S) /\ k - 1 \in 0..Len(S)
    BY <1>0, <2>1
  <2> QED BY <1>0, <2>1, <2>2, RunFacts
<1> HIDE DEF o
<1>5. /\ STACKv \in [Kinds -> Seq(0..Len(made))]
      /\ \A q \in Kinds : STACKv[q] \in Seq(0..Len(made)) /\ Len(STACKv[q]) \in Nat
  BY <1>0, Positive DEF TypeOK
<1>6. /\ STACKv'[o] = Popped(STACKv[o])
      /\ \A q \in Kinds : q # o => STACKv'[q] = STACKv[q]
      /\ DOMAIN STACKv' = Kinds
  BY <1>3, <1>4, <1>5
<1>7. STACKv[o] # <<>>
  <2>1. SavesAt(Done)[o] \in Nat
    BY <1>0, <1>4, SavedCount
  <2>2. Len(STACKv[o]) = SavesAt(Done)[o] + 1
    BY <1>0, <1>4 DEF SavedFor, o
  <2> QED BY <2>1, <2>2, EmptySeq
<1>8. /\ STACKv'[o] \in Seq(0..Len(made))
      /\ Len(STACKv'[o]) = Len(STACKv[o]) - 1
      /\ \A i \in 1..(Len(STACKv[o]) - 1) : STACKv'[o][i] = STACKv[o][i]
  BY <1>4, <1>5, <1>6, <1>7, PoppedFacts
<1>9. Runs' = Runs /\ ReverseItems' = ReverseItems /\ Instructions' = Instructions
  BY <1>3, ProgStays
<1>10. TypeOK'
  <2>1. todo' \in Seq(Instructions)
    BY <1>0, <1>1, <1>3, CodeTyped
  <2>2. STACKv' \in [Kinds -> Seq(0..Len(made))]
    <3>1. \A q \in Kinds : STACKv'[q] \in Seq(0..Len(made))
      BY <1>5, <1>6, <1>8
    <3>2. STACKv' = [q \in Kinds |-> STACKv'[q]]
      BY <1>3, <1>5
    <3> QED BY <3>1, <3>2
  <2> QED BY <1>0, <1>3, <1>9, <2>1, <2>2 DEF TypeOK
<1>11. HeldInv'
  <2>1. ASSUME NEW i \in 1..Len(made)
        PROVE  SaveHeld(i)'
    <3>0. PICK q : q = StmtAt(i).op
      OBVIOUS
    <3>1. PICK d : d = made[i].saves[q]
      OBVIOUS
    <3>2. q \in Kinds /\ d \in Nat \ {0}
      BY <1>0, <3>0, <3>1, EntryFacts DEF DataInv
    <3>3. d <= Len(STACKv[q]) => STACKv[q][d] = made[i].before[StmtAt(i).var]
      <4>1. SaveHeld(i)
        BY <1>0 DEF DataInv, HeldInv
      <4> QED BY <3>0, <3>1, <4>1 DEF SaveHeld
    <3>4. d <= Len(STACKv'[q]) => STACKv'[q][d] = made[i].before[StmtAt(i).var]
      <4>1. CASE q = o
        <5>1. Len(STACKv[o]) \in Nat
          BY <1>4, <1>5
        <5>2. d <= Len(STACKv'[o]) => d <= Len(STACKv[o]) /\ d \in 1..(Len(STACKv[o]) - 1)
          BY <1>8, <3>2, <5>1
        <5> QED BY <1>8, <3>3, <4>1, <5>2
      <4>2. CASE q # o
        BY <1>6, <3>2, <3>3, <4>2
      <4> QED BY <4>1, <4>2
    <3>5. made' = made /\ StmtAt(i)' = StmtAt(i)
      BY <1>3 DEF StmtAt
    <3> QED BY <3>0, <3>1, <3>4, <3>5 DEF SaveHeld
  <2>2. \A i \in 1..Len(made) : LabelHeld(i)'
    BY <1>0, <1>3 DEF DataInv, HeldInv, LabelHeld
  <2> QED BY <1>3, <2>1, <2>2 DEF HeldInv
<1>12. DataInv'
  BY <1>0, <1>3, <1>11, HistoryStays, EnvStays DEF DataInv
<1>13. Saved'
  <2>1. \A q : SavesAt(Done)'[q] = SavesAt(Done)[q]
    BY <1>3 DEF SavesAt, Done
  <2>2. ASSUME NEW q \in Kinds
        PROVE  Len(STACKv'[q]) = SavesAt(Done)[q]
    <3>0. Len(STACKv[q]) = SavesAt(Done)[q] + (IF q = o THEN 1 ELSE 0)
      BY <1>0 DEF SavedFor, o
    <3>1. CASE q = o
      <4>1. SavesAt(Done)[q] \in Nat
        BY <1>0, SavedCount
      <4>2. Len(STACKv'[q]) = Len(STACKv[q]) - 1
        BY <1>8, <3>1
      <4> QED BY <3>0, <3>1, <4>1, <4>2
    <3>2. CASE q # o
      BY <1>0, <1>5, <1>6, <3>0, <3>2, SavedCount
    <3> QED BY <3>1, <3>2
  <2> QED BY <2>1, <2>2 DEF Saved
<1>14. todo'[1] = SlcBack(S, k - 1) /\ Ends(todo', ReverseItems, 2)
  <2>1. 2 \in Nat \ {0} /\ Ends(todo, ReverseItems, 2 + 1)
    BY <1>0
  <2>2. Ends(todo', ReverseItems, 2)
    BY <1>0, <1>1, <1>3, <2>1, CodeDropped
  <2>3. \A j \in 1..2 : j < 2 => todo'[j] = todo[j + 1]
    BY <1>0, <1>1, <1>3, <2>1, CodeDropped
  <2> QED BY <1>0, <2>2, <2>3
<1>15. Within(S, k - 1, Len(STACKc) + 1)'
  BY <1>0, <1>3, PlaceStays
<1>16. Undoing(S, k - 1)'
  BY <1>9, <1>13, <1>14, <1>15 DEF Undoing, ReverseFrom
<1>17. InReverse'
  BY <1>4, <1>9, <1>16 DEF InReverse
<1> QED BY <1>0, <1>3, <1>10, <1>12, <1>17 DEF ReversalInv

-------------------------------------------------------------------------------
(* The invariant.                                                          *)

LEMMA RegionStarts ==
  ASSUME Init
  PROVE  ReversalInv
<1>0. /\ prog \in Program /\ todo = AdjointRegion
      /\ env = [v \in Var |-> 0] /\ STACKc = <<>> /\ STACKv = [k \in Kinds |-> <<>>]
      /\ made = <<>> /\ undone = <<>>
  BY DEF Init
<1>1. Len(made) = 0 /\ Len(undone) = 0 /\ Len(STACKc) = 0 /\ Done = 0
  BY <1>0, EmptySeq DEF Done
<1>2. SigmaFrom(Root, 1) \in Instructions /\ SigmaFrom(Root, 1) \in ForwardItems
  <2>1. Root \in DOMAIN prog
    BY <1>0, ConstantsAssumption DEF WellFormed
  <2> QED BY <2>1, SequenceInstructions
<1>3. todo = <<SigmaFrom(Root, 1), ReverseLoop>>
  BY <1>0 DEF AdjointRegion
<1>4. ReverseLoop \in Instructions
  BY DEF Instructions
<1>5. todo \in Seq(Instructions)
  BY <1>2, <1>3, <1>4
<1>6. TypeOK
  <2>1. made \in Seq(Entries) /\ STACKc \in Seq(Nat) /\ undone \in Seq(Nat)
    BY <1>0, EmptySeq
  <2>2. env \in [Var -> 0..Len(made)]
    BY <1>0, <1>1
  <2>3. STACKv \in [Kinds -> Seq(0..Len(made))]
    BY <1>0, EmptySeq
  <2> QED BY <1>5, <2>1, <2>2, <2>3 DEF TypeOK
<1>7. DataInv /\ AllHeld
  BY <1>0, <1>1 DEF DataInv, AllHeld, HistoryInv, HeldInv, EnvInv, UndoneInv
<1>8. Going
  <2>1. ForwardFrom(1)
    BY <1>2, <1>3 DEF ForwardFrom, Ends
  <2>2. Between(Len(STACKc))
    BY <1>1 DEF Between, LabelsAt
  <2>3. Saved
    BY <1>0, <1>1, EmptySeq DEF Saved, SavesAt
  <2> QED BY <2>1, <2>2, <2>3 DEF Going
<1> QED BY <1>0, <1>6, <1>7, <1>8 DEF ReversalInv, InForward

LEMMA ReversalStays ==
  ASSUME ReversalInv, UNCHANGED vars
  PROVE  ReversalInv'
<1>0. UNCHANGED data /\ todo' = todo /\ undone' = undone
  BY DEF vars, data
<1>1. Runs' = Runs /\ Instructions' = Instructions /\ ForwardItems' = ForwardItems
        /\ ReverseItems' = ReverseItems /\ STACKc' = STACKc /\ STACKv' = STACKv
        /\ env' = env /\ made' = made /\ prog' = prog
  BY <1>0, ProgStays DEF data
<1>2. prog' \in Program /\ TypeOK' /\ DataInv'
  BY <1>0, <1>1, DataStays DEF ReversalInv, TypeOK
<1>3. /\ AllHeld => AllHeld'
      /\ Saved => Saved'
      /\ \A S, k : Labelled(S, k) => Labelled(S, k)'
      /\ Between(Len(STACKc)) => Between(Len(STACKc))'
      /\ Between(0) => Between(0)'
      /\ \A S, k : Within(S, k, Len(STACKc) + 1) => Within(S, k, Len(STACKc) + 1)'
  BY <1>0, <1>1, DataStays
<1>4. /\ \A m : ForwardFrom(m) => ForwardFrom(m)'
      /\ \A m : ReverseFrom(m) => ReverseFrom(m)'
  BY <1>0, <1>1 DEF ForwardFrom, ReverseFrom
<1>5. \A s : SavedFor(s) => SavedFor(s)'
  BY <1>0, <1>1 DEF SavedFor, SavesAt, Done
<1>6. InForward => InForward'
  <2>1. Going => Going'
    BY <1>3, <1>4 DEF Going
  <2>2. \A S : Labelling(S) => Labelling(S)'
    BY <1>0, <1>3, <1>4 DEF Labelling
  <2>3. \A S, k : Making(S, k) => Making(S, k)'
    BY <1>0, <1>3, <1>4 DEF Making
  <2>4. \A S, k : Saving(S, k) => Saving(S, k)'
    BY <1>0, <1>3, <1>4 DEF Saving
  <2>5. \A S, k : Assigning(S, k) => Assigning(S, k)'
    BY <1>0, <1>1, <1>3, <1>4, <1>5 DEF Assigning, Top
  <2> QED BY <1>0, <1>1, <1>3, <2>1, <2>2, <2>3, <2>4, <2>5 DEF InForward
<1>7. InReverse => InReverse'
  <2>1. Looking => Looking'
    BY <1>3, <1>4 DEF Looking
  <2>2. Finished => Finished'
    BY <1>0, <1>1, <1>3 DEF Finished
  <2>3. \A S : Unlabelling(S) => Unlabelling(S)'
    BY <1>0, <1>1, <1>3, <1>4 DEF Unlabelling, Top
  <2>4. \A S, k : Undoing(S, k) => Undoing(S, k)'
    BY <1>0, <1>3, <1>4 DEF Undoing
  <2>5. \A S, k : Restoring(S, k) => Restoring(S, k)'
    BY <1>0, <1>3, <1>4 DEF Restoring
  <2>6. \A S, k : Popping(S, k) => Popping(S, k)'
    <3>1. \A S, k : Within(S, k - 1, Len(STACKc) + 1) => Within(S, k - 1, Len(STACKc) + 1)'
      BY <1>3
    <3> QED BY <1>0, <1>4, <1>5, <3>1 DEF Popping
  <2> QED BY <1>1, <2>1, <2>2, <2>3, <2>4, <2>5, <2>6 DEF InReverse
<1> QED BY <1>2, <1>6, <1>7 DEF ReversalInv

(* A region that is left stays left. *)
LEMMA FinishedStep ==
  ASSUME ReversalInv, Finished, Next
  PROVE  ReversalInv'
<1>1. UNCHANGED vars
  BY DEF Finished, Next, RunGenerate, RunLabel, RunSave, RunAssign, RunSkip, RunBranch,
         RunIteration, RunLoop, RunIfTop, RunPopLabel, RunRestore, RunPop, Left, At
<1> QED BY <1>1, ReversalStays

LEMMA ReversalStep ==
  ASSUME NoForLoop, ReversalInv, [Next]_vars
  PROVE  ReversalInv'
<1>1. CASE UNCHANGED vars
  BY <1>1, ReversalStays
<1>2. CASE Next
  <2>1. CASE InForward
    <3>0. undone = <<>> /\ AllHeld
      BY <2>1 DEF InForward
    <3>1. CASE Going
      BY <1>2, <3>0, <3>1, GoingStep
    <3>2. ASSUME NEW S \in Runs, Labelling(S) PROVE ReversalInv'
      BY <1>2, <3>0, <3>2, LabellingStep
    <3>3. ASSUME NEW S \in Runs, NEW k \in 1..(Len(S) + 1), Making(S, k) PROVE ReversalInv'
      BY <1>2, <3>0, <3>3, MakingStep
    <3>4. ASSUME NEW S \in Runs, NEW k \in 1..(Len(S) + 1), Saving(S, k) PROVE ReversalInv'
      BY <1>2, <3>0, <3>4, SavingStep
    <3>5. ASSUME NEW S \in Runs, NEW k \in 1..(Len(S) + 1), Assigning(S, k) PROVE ReversalInv'
      BY <1>2, <3>0, <3>5, AssigningStep
    <3> QED BY <2>1, <3>1, <3>2, <3>3, <3>4, <3>5 DEF InForward
  <2>2. CASE InReverse
    <3>1. CASE Looking
      BY <1>2, <3>1, LookingStep
    <3>2. CASE Finished
      BY <1>2, <3>2, FinishedStep
    <3>3. ASSUME NEW S \in Runs, Unlabelling(S) PROVE ReversalInv'
      BY <1>2, <3>3, UnlabellingStep
    <3>4. ASSUME NEW S \in Runs, NEW k \in 0..Len(S), Undoing(S, k) PROVE ReversalInv'
      BY <1>2, <3>4, UndoingStep
    <3>5. ASSUME NEW S \in Runs, NEW k \in 0..Len(S), Restoring(S, k) PROVE ReversalInv'
      BY <1>2, <3>5, RestoringStep
    <3>6. ASSUME NEW S \in Runs, NEW k \in 0..Len(S), Popping(S, k) PROVE ReversalInv'
      BY <1>2, <3>6, PoppingStep
    <3> QED BY <2>2, <3>1, <3>2, <3>3, <3>4, <3>5, <3>6 DEF InReverse
  <2> QED BY <2>1, <2>2 DEF ReversalInv
<1> QED BY <1>1, <1>2

-------------------------------------------------------------------------------
(* What the invariant says.                                                *)

(* Popping and restoring never reach below a stack: STACKc.pop(), the top()  *)
(* and the pop() of STACKi and STACKf find something whenever they run.      *)
StacksSuffice ==
  /\ At("poplabel") => STACKc # <<>>
  /\ At("restore") \/ At("pop") => STACKv[Stmt.op] # <<>>

(* The code that is left is some code of the section, or there is none. *)
LEMMA CodeLeft ==
  ASSUME ReversalInv
  PROVE  todo # <<>> \/ Finished
<1>1. \A items : \A m \in {1, 2, 3, 4} : Ends(todo, items, m) => todo # <<>>
  <2> SUFFICES ASSUME NEW items, NEW m \in {1, 2, 3, 4}, Ends(todo, items, m)
               PROVE  todo # <<>>
    OBVIOUS
  <2>1. m \in Nat \ {0}
    OBVIOUS
  <2> QED BY <2>1, HeadIs DEF ReversalInv
<1>2. InForward => todo # <<>>
  BY <1>1 DEF InForward, Going, Labelling, Making, Saving, Assigning, ForwardFrom
<1>3. InReverse => todo # <<>> \/ Finished
  BY <1>1 DEF InReverse, Looking, Unlabelling, Undoing, Restoring, Popping, ReverseFrom
<1> QED BY <1>2, <1>3 DEF ReversalInv

LEMMA InvRetraced ==
  ASSUME ReversalInv
  PROVE  Retraced
<1>1. UndoneInv /\ Len(made) \in Nat /\ Len(undone) \in Nat
  BY Positive DEF ReversalInv, DataInv
<1> QED BY <1>1 DEF UndoneInv, Retraced, Done, StmtAt

LEMMA InvRegionReversed ==
  ASSUME ReversalInv
  PROVE  RegionReversed
<1> SUFFICES ASSUME todo = <<>>
             PROVE  /\ env = [v \in Var |-> 0]
                    /\ STACKc = <<>>
                    /\ \A k \in Kinds : STACKv[k] = <<>>
                    /\ Len(undone) = Len(made)
  BY DEF RegionReversed
<1>0. TypeOK /\ prog \in Program /\ DataInv
  BY DEF ReversalInv
<1>1. STACKc = <<>> /\ Between(0) /\ Saved
  BY CodeLeft DEF Finished
<1>2. /\ Len(made) \in Nat /\ Len(undone) \in Nat /\ Len(undone) <= Len(made)
      /\ Done = Len(made) - Len(undone)
  BY <1>0, Positive DEF DataInv, UndoneInv, Done
<1>3. Done = 0
  <2> SUFFICES ASSUME Done # 0 PROVE FALSE
    OBVIOUS
  <2>1. PICK d : d = Done
    OBVIOUS
  <2>2. d \in 1..Len(made)
    BY <1>2, <2>1
  <2>3. made[d].labels \in Nat \ {0}
    BY <1>0, <2>2, EntryFacts DEF DataInv
  <2> QED BY <1>1, <2>1, <2>3 DEF Between, LabelsAt
<1>4. env = [v \in Var |-> 0]
  BY <1>0, <1>3 DEF DataInv, EnvInv
<1>5. ASSUME NEW k \in Kinds PROVE STACKv[k] = <<>>
  <2>1. Len(STACKv[k]) = 0
    BY <1>1, <1>3 DEF Saved, SavesAt
  <2>2. STACKv[k] \in Seq(0..Len(made))
    BY <1>0, Positive
  <2> QED BY <2>1, <2>2, EmptySeq
<1> QED BY <1>1, <1>2, <1>3, <1>4, <1>5

LEMMA InvStacksSuffice ==
  ASSUME ReversalInv
  PROVE  StacksSuffice
<1>0. TypeOK /\ prog \in Program /\ DataInv
  BY DEF ReversalInv
<1>1. CASE todo = <<>>
  BY <1>1 DEF StacksSuffice, At
<1>2. CASE \E S \in Runs : Unlabelling(S)
  <2>1. PICK S \in Runs : Unlabelling(S)
    BY <1>2
  <2>2. 3 \in Nat \ {0} /\ Ends(todo, ReverseItems, 3) /\ todo[1] = PopLabel /\ STACKc # <<>>
    BY <2>1 DEF Unlabelling, ReverseFrom
  <2>3. Instr = PopLabel
    BY <1>0, <2>2, HeadIs
  <2> QED BY <2>2, <2>3 DEF StacksSuffice, At, PopLabel
<1>3. CASE \E S \in Runs : \E k \in 0..Len(S) : Restoring(S, k)
  <2>1. PICK S \in Runs : \E k \in 0..Len(S) : Restoring(S, k)
    BY <1>3
  <2>2. PICK k \in 0..Len(S) : Restoring(S, k)
    BY <2>1
  <2>3. /\ 4 \in Nat \ {0} /\ Ends(todo, ReverseItems, 4) /\ todo[1] = Restore(S, k)
        /\ k > 0 /\ Within(S, k, Len(STACKc) + 1) /\ Saved
    BY <2>2 DEF Restoring, ReverseFrom
  <2>4. Instr = Restore(S, k)
    BY <1>0, <2>3, HeadIs
  <2>5. Instr.g = "restore" /\ Stmt = S[k]
    BY <2>4 DEF Restore, Stmt
  <2>6. PICK d : d = Done
    OBVIOUS
  <2>7. d \in 1..Len(made) /\ made[d].slc = S /\ made[d].k = k
    <3>1. k # 0
      BY <2>3
    <3>2. d > 0 /\ made[d].slc = S /\ made[d].k = k
      BY <2>3, <2>6, <3>1 DEF Within
    <3>3. d \in 0..Len(made)
      BY <1>0, <2>6, Positive DEF DataInv, UndoneInv, Done
    <3> QED BY <1>0, <3>2, <3>3, Positive
  <2>8. S[k].op \in Kinds /\ SavesAt(d)[S[k].op] \in Nat \ {0}
    BY <1>0, <2>7, EntryFacts DEF DataInv, StmtAt
  <2>9. Len(STACKv[S[k].op]) # 0
    BY <2>3, <2>6, <2>8 DEF Saved
  <2> QED BY <2>5, <2>9, EmptySeq DEF StacksSuffice, At
<1>4. CASE \E S \in Runs : \E k \in 0..Len(S) : Popping(S, k)
  <2>1. PICK S \in Runs : \E k \in 0..Len(S) : Popping(S, k)
    BY <1>4
  <2>2. PICK k \in 0..Len(S) : Popping(S, k)
    BY <2>1
  <2>3. /\ 3 \in Nat \ {0} /\ Ends(todo, ReverseItems, 3) /\ todo[1] = PopSaved(S, k)
        /\ k > 0 /\ SavedFor(S[k])
    BY <2>2 DEF Popping, ReverseFrom
  <2>4. Instr = PopSaved(S, k)
    BY <1>0, <2>3, HeadIs
  <2>5. Instr.g = "pop" /\ Stmt = S[k]
    BY <2>4 DEF PopSaved, Stmt
  <2>6. S[k].op \in Kinds
    <3>1. k \in 1..Len(S)
      BY <1>0, <2>3, RunFacts
    <3> QED BY <1>0, <3>1, RunFacts
  <2>7. Len(STACKv[S[k].op]) # 0
    <3>1. SavesAt(Done)[S[k].op] \in Nat
      BY <1>0, <2>6, SavedCount
    <3>2. Len(STACKv[S[k].op]) = SavesAt(Done)[S[k].op] + 1
      BY <2>3, <2>6 DEF SavedFor
    <3> QED BY <3>1, <3>2
  <2> QED BY <2>5, <2>7, EmptySeq DEF StacksSuffice, At
<1>5. CASE /\ todo # <<>>
           /\ Instr.g \notin {"poplabel", "restore", "pop"}
  BY <1>5 DEF StacksSuffice, At
<1>6. InForward => todo # <<>> /\ Instr.g \notin {"poplabel", "restore", "pop"}
  <2>1. \A items : \A m \in {1, 2, 3, 4} :
          Ends(todo, items, m) => todo # <<>> /\ Instr = todo[1]
    <3> SUFFICES ASSUME NEW items, NEW m \in {1, 2, 3, 4}, Ends(todo, items, m)
                 PROVE  todo # <<>> /\ Instr = todo[1]
      OBVIOUS
    <3>1. m \in Nat \ {0}
      OBVIOUS
    <3> QED BY <1>0, <3>1, HeadIs
  <2>2. Going => todo # <<>> /\ Instr.g \notin {"poplabel", "restore", "pop"}
    <3> SUFFICES ASSUME Going PROVE todo # <<>> /\ Instr.g \notin {"poplabel", "restore", "pop"}
      OBVIOUS
    <3>1. Ends(todo, ForwardItems, 1) /\ todo # <<>> /\ Instr = todo[1]
      BY <2>1 DEF Going, ForwardFrom
    <3>2. todo \in Seq(Instructions) /\ ReverseLoop \notin ForwardItems
      BY <1>0, ForwardItem DEF TypeOK
    <3>3. Instr = ReverseLoop \/ Instr \in ForwardItems
      BY <3>1, <3>2, EndsHead
    <3>4. Instr.g \notin {"poplabel", "restore", "pop"}
      BY <3>3, ForwardItem DEF ReverseLoop
    <3> QED BY <3>1, <3>4
  <2>3. ASSUME NEW S, Labelling(S)
        PROVE  todo # <<>> /\ Instr.g \notin {"poplabel", "restore", "pop"}
    BY <2>1, <2>3 DEF Labelling, ForwardFrom, PushLabel
  <2>4. ASSUME NEW S, NEW k, Making(S, k) \/ Saving(S, k) \/ Assigning(S, k)
        PROVE  todo # <<>> /\ Instr.g \notin {"poplabel", "restore", "pop"}
    BY <2>1, <2>4 DEF Making, Saving, Assigning, ForwardFrom, SlcFrom, Save, Assign
  <2> QED BY <2>2, <2>3, <2>4 DEF InForward
<1>7. Looking => todo # <<>> /\ Instr.g \notin {"poplabel", "restore", "pop"}
  <2> SUFFICES ASSUME Looking PROVE todo # <<>> /\ Instr.g \notin {"poplabel", "restore", "pop"}
    OBVIOUS
  <2>1. Ends(todo, ReverseItems, 1) /\ 1 \in Nat \ {0}
    BY DEF Looking, ReverseFrom
  <2>2. todo # <<>> /\ Instr = todo[1]
    BY <1>0, <2>1, HeadIs
  <2>3. todo \in Seq(Instructions) /\ ReverseLoop \notin ReverseItems
    BY <1>0, ReverseItem DEF TypeOK
  <2>4. Instr = ReverseLoop \/ Instr \in ReverseItems
    BY <2>1, <2>2, <2>3, EndsHead
  <2>5. Instr.g \notin {"poplabel", "restore", "pop"}
    BY <2>4, ReverseItem DEF ReverseLoop
  <2> QED BY <2>2, <2>5
<1>8. ASSUME NEW S, NEW k, Undoing(S, k)
      PROVE  todo # <<>> /\ Instr.g \notin {"poplabel", "restore", "pop"}
  <2>1. Ends(todo, ReverseItems, 2) /\ 2 \in Nat \ {0} /\ todo[1] = SlcBack(S, k)
    BY <1>8 DEF Undoing, ReverseFrom
  <2>2. todo # <<>> /\ Instr = SlcBack(S, k)
    BY <1>0, <2>1, HeadIs
  <2> QED BY <2>2 DEF SlcBack
<1>9. Finished => todo = <<>>
  BY DEF Finished
<1> QED BY <1>1, <1>2, <1>3, <1>4, <1>5, <1>6, <1>7, <1>8, <1>9 DEF ReversalInv, InReverse

-------------------------------------------------------------------------------
(* The theorems.                                                           *)

(* The labels on STACKc stand for the straight-line runs of the assignments *)
(* that are not undone, the saved values for these assignments one by one,  *)
(* and the code that is left goes on from the last one, in every region     *)
(* without a worksharing loop and whichever way its tests come out.          *)
THEOREM ReversalInvariant ==
  ASSUME NoForLoop
  PROVE  Spec => []ReversalInv
<1>1. Init => ReversalInv
  BY RegionStarts
<1>2. ReversalInv /\ [Next]_vars => ReversalInv'
  BY ReversalStep
<1> QED BY <1>1, <1>2, PTL DEF Spec

(* Every variable keeps to its type: labels go on STACKc, values on the      *)
(* stack of their kind, and only statements of the region are run.           *)
THEOREM RegionTyped ==
  ASSUME NoForLoop
  PROVE  Spec => []TypeOK
<1>1. ReversalInv => TypeOK
  BY DEF ReversalInv
<1> QED BY <1>1, ReversalInvariant, PTL

(* The reverse section undoes the assignments last first and puts back the  *)
(* variables as they were before each of them (rho.cpp:139-184).             *)
THEOREM RegionRetraced ==
  ASSUME NoForLoop
  PROVE  Spec => []Retraced
<1>1. ReversalInv => Retraced
  BY InvRetraced
<1> QED BY <1>1, ReversalInvariant, PTL

(* A region that is left has undone all its assignments, has the values it  *)
(* started with and leaves all three stacks empty (sigma.cpp:109-144).       *)
THEOREM RegionIsReversed ==
  ASSUME NoForLoop
  PROVE  Spec => []RegionReversed
<1>1. ReversalInv => RegionReversed
  BY InvRegionReversed
<1> QED BY <1>1, ReversalInvariant, PTL

(* No pop and no top of the reverse section reaches below a stack, where     *)
(* the plain classes would read on unchecked (Stack.h:23-24).                *)
THEOREM StacksSufficient ==
  ASSUME NoForLoop
  PROVE  Spec => []StacksSuffice
<1>1. ReversalInv => StacksSuffice
  BY InvStacksSuffice
<1> QED BY <1>1, ReversalInvariant, PTL
===============================================================================

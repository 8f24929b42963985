------------------------------- MODULE SigmaRho -------------------------------
(***************************************************************************)
(* The adjoint source transformation of structured control flow: what the  *)
(* rules sigma (forward section) and rho (reverse section) make of a       *)
(* sequence of statements. A program is the table of its sequences: p[v]   *)
(* is the body of the construct with vertex number v, and p[Root] that of   *)
(* the region itself. A statement is a record with an id, its own vertex   *)
(* number, which serves as its label:                                      *)
(*   [op |-> "int" | "float", var, id]        an assignment to var         *)
(*   [op |-> "if" | "while" | "master", id]   around the sequence p[id]    *)
(*   [op |-> "for", init, id]                 a worksharing loop           *)
(* Expressions are left out; so are the adjoint assignments that rho adds  *)
(* behind each restore.                                                    *)
(* Generated code is a sequence of instructions [g |-> ...]; see           *)
(* ControlReversal for what they do. The code of a sequence is generated   *)
(* as control comes to it: the instructions "sigma", "rho", "slc" and      *)
(* "slcback" stand for code not generated so far.                          *)
(***************************************************************************)
EXTENDS Naturals, Sequences

Root == 0
Kinds == {"int", "float"}

(* Straight-line statements; all others transfer control. *)
IsSlc(s) == s.op \in Kinds

(* The last statement of the straight-line run that S[k] is in. *)
RunEnd(S, k) ==
  CHOOSE e \in k..Len(S) : /\ \A j \in k..e : IsSlc(S[j])
                           /\ e = Len(S) \/ ~IsSlc(S[e + 1])

(* Mutant: a statement of control flow does not end the run in front of it. *)
RunFromUnbroken(S, k) == SelectSeq(SubSeq(S, k, Len(S)), IsSlc)

(* The run that starts with S[k], a sequence of its own in the partition of S. *)
RunFrom(S, k) == SubSeq(S, k, RunEnd(S, k))

(* Sigma and rho of p[v] from its k-th statement on, of S[k] and what comes  *)
(* behind it in the run S, and the way back from S[k].                       *)
SigmaFrom(v, k) == [g |-> "sigma", v |-> v, k |-> k]
RhoFrom(v, k) == [g |-> "rho", v |-> v, k |-> k]
SlcFrom(S, k) == [g |-> "slc", slc |-> S, k |-> k]
SlcBack(S, k) == [g |-> "slcback", slc |-> S, k |-> k]

-------------------------------------------------------------------------------
(* The forward section.                                                    *)

PushLabel(l) == [g |-> "label", l |-> l]
Save(S, k) == [g |-> "save", slc |-> S, k |-> k]
Assign(S, k) == [g |-> "assign", slc |-> S, k |-> k]

(* Mutant: the value is saved after it was overwritten. *)
SigmaAssignLate(S, k) == <<Assign(S, k), Save(S, k)>>

SigmaAssign(S, k) == <<Save(S, k), Assign(S, k)>>

(* Mutant: the label of the last statement names the run. *)
SigmaSlcLastLabel(S) == <<PushLabel(S[Len(S)].id), SlcFrom(S, 1)>>

(* A straight-line run is named by its first statement. *)
SigmaSlc(S) == <<PushLabel(S[1].id), SlcFrom(S, 1)>>

SigmaSlcFrom(S, k) ==
  IF k > Len(S) THEN <<>> ELSE Append(SigmaAssign(S, k), SlcFrom(S, k + 1))

(* Of the two statements that the initialisation of a worksharing loop     *)
(* becomes, only the first one is kept.                                     *)
SigmaOmpFor(s) == <<SigmaAssign(<<s.init>>, 1)[1], [g |-> "while", v |-> s.id]>>

(* Conditionals, loops and master constructs stay around sigma of the body. *)
SigmaConditional(s) == <<[g |-> s.op, v |-> s.id]>>

Sigma(s) == IF s.op = "for" THEN SigmaOmpFor(s) ELSE SigmaConditional(s)

SigmaSeq(p, v, k) ==
  LET S == p[v] IN
  IF k > Len(S) THEN <<>>
  ELSE IF IsSlc(S[k]) THEN Append(SigmaSlc(RunFrom(S, k)), SigmaFrom(v, RunEnd(S, k) + 1))
  ELSE Append(Sigma(S[k]), SigmaFrom(v, k + 1))

-------------------------------------------------------------------------------
(* The reverse section.                                                    *)

Restore(S, k) == [g |-> "restore", slc |-> S, k |-> k]
PopSaved(S, k) == [g |-> "pop", slc |-> S, k |-> k]
PopLabel == [g |-> "poplabel"]
IfTop(S) == [g |-> "iftop", slc |-> S]

(* Mutant: the saved value is not popped. *)
RhoAssignUnpopped(S, k) == <<Restore(S, k)>>

RhoAssign(S, k) == <<Restore(S, k), PopSaved(S, k)>>

(* Mutant: the run is undone in the order it was made. *)
RhoSlcBackForward(S, k) ==
  IF k = 0 THEN <<>> ELSE Append(RhoAssign(S, Len(S) + 1 - k), SlcBack(S, k - 1))

RhoSlcBack(S, k) == IF k = 0 THEN <<>> ELSE Append(RhoAssign(S, k), SlcBack(S, k - 1))

(* The body of the branch if(STACKc.top()==label), label that of S[1]. *)
RhoSlc(S) == <<PopLabel, SlcBack(S, Len(S))>>

RhoOmpFor(s) == <<RhoAssign(<<s.init>>, 1)[1], RhoFrom(s.id, 1)>>

(* The construct is dropped, the branches of its body are kept: the labels  *)
(* on STACKc tell how often it ran.                                         *)
RhoConditional(s) == <<RhoFrom(s.id, 1)>>

Rho(s) == IF s.op = "for" THEN RhoOmpFor(s) ELSE RhoConditional(s)

RhoSeq(p, v, k) ==
  LET S == p[v] IN
  IF k > Len(S) THEN <<>>
  ELSE IF IsSlc(S[k]) THEN <<IfTop(RunFrom(S, k)), RhoFrom(v, RunEnd(S, k) + 1)>>
  ELSE Append(Rho(S[k]), RhoFrom(v, k + 1))

(* while(!STACKc.empty()) { rho(S) } *)
ReverseLoop == [g |-> "loop"]
LoopBody == <<RhoFrom(Root, 1), ReverseLoop>>

(* sigma of a parallel region. *)
AdjointRegion == <<SigmaFrom(Root, 1), ReverseLoop>>
===============================================================================

---------------------------- MODULE ControlReversal ----------------------------
(***************************************************************************)
(* One thread runs the adjoint code of a parallel region. In the forward   *)
(* section tests come out either way and every assignment computes a value *)
(* of its own; in the reverse section the labels on STACKc alone decide    *)
(* what runs. The history of the assignments is kept to say what the       *)
(* reverse section has to retrace.                                         *)
(***************************************************************************)
EXTENDS SigmaRho

CONSTANTS
  Program,     \* parallel regions, as tables of their sequences
  Var,         \* the variables
  StackBound   \* no loop starts another iteration on a deeper STACKc

Assignments == [op : Kinds, var : Var, id : Nat]
Constructs == [op : {"if", "while", "master"}, id : Nat]
ForLoops == [op : {"for"}, init : Assignments, id : Nat]

(* The parser gives every vertex a number of its own, and the body of each   *)
(* construct is in the table.                                                *)
WellFormed(p) ==
  /\ Root \in DOMAIN p
  /\ \A v \in DOMAIN p : p[v] \in Seq(Assignments \cup Constructs \cup ForLoops)
  /\ \A v \in DOMAIN p : \A k \in DOMAIN p[v] :
       ~IsSlc(p[v][k]) => p[v][k].id \in DOMAIN p
  /\ \A v, w \in DOMAIN p : \A k \in DOMAIN p[v], j \in DOMAIN p[w] :
       p[v][k].id = p[w][j].id => v = w /\ k = j

ASSUME ConstantsAssumption == StackBound \in Nat /\ \A p \in Program : WellFormed(p)

VARIABLES
  prog,        \* the region that is run
  todo,        \* the generated code still to run
  env,         \* the variables
  STACKc,      \* the labels
  STACKv,      \* the saved values: STACKi is STACKv["int"], STACKf the other
  made,        \* history: the assignments, with the variables and the stacks then
  undone       \* history: the assignments undone, last first

vars == <<prog, todo, env, STACKc, STACKv, made, undone>>

Instr == Head(todo)
At(g) == todo # <<>> /\ Instr.g = g
Stmt == Instr.slc[Instr.k]
Continue(code) == todo' = code \o Tail(todo)

Top(stack) == stack[Len(stack)]
Popped(stack) == SubSeq(stack, 1, Len(stack) - 1)

Init ==
  /\ prog \in Program
  /\ todo = AdjointRegion
  /\ env = [v \in Var |-> 0]
  /\ STACKc = <<>>
  /\ STACKv = [k \in Kinds |-> <<>>]
  /\ made = <<>>
  /\ undone = <<>>

-------------------------------------------------------------------------------
(* Code that stands for itself is generated when control comes to it. *)
RunGenerate ==
  /\ \/ At("sigma") /\ Continue(SigmaSeq(prog, Instr.v, Instr.k))
     \/ At("slc") /\ Continue(SigmaSlcFrom(Instr.slc, Instr.k))
     \/ At("rho") /\ Continue(RhoSeq(prog, Instr.v, Instr.k))
     \/ At("slcback") /\ Continue(RhoSlcBack(Instr.slc, Instr.k))
  /\ UNCHANGED <<prog, env, STACKc, STACKv, made, undone>>

(* Mutant: the label is pushed on the stack of integers. *)
RunLabelMisplaced ==
  /\ At("label")
  /\ STACKv' = [STACKv EXCEPT !["int"] = Append(@, Instr.l)]
  /\ Continue(<<>>)
  /\ UNCHANGED <<prog, env, STACKc, made, undone>>

(* STACKc.push(l) *)
RunLabel ==
  /\ At("label")
  /\ STACKc' = Append(STACKc, Instr.l)
  /\ Continue(<<>>)
  /\ UNCHANGED <<prog, env, STACKv, made, undone>>

RunSave ==
  /\ At("save")
  /\ STACKv' = [STACKv EXCEPT ![Stmt.op] = Append(@, env[Stmt.var])]
  /\ Continue(<<>>)
  /\ UNCHANGED <<prog, env, STACKc, made, undone>>

(* The history holds the place of the assignment in its run, the variables  *)
(* before it and how many labels and values were on the stacks.             *)
RunAssign ==
  /\ At("assign")
  /\ env' = [env EXCEPT ![Stmt.var] = Len(made) + 1]
  /\ made' = Append(made, [slc |-> Instr.slc, k |-> Instr.k, before |-> env,
                           labels |-> Len(STACKc),
                           saves |-> [o \in Kinds |-> Len(STACKv[o])]])
  /\ Continue(<<>>)
  /\ UNCHANGED <<prog, STACKc, STACKv, undone>>

(* A test that fails; a master construct another thread runs. *)
RunSkip ==
  /\ At("if") \/ At("while") \/ At("master")
  /\ Continue(<<>>)
  /\ UNCHANGED <<prog, env, STACKc, STACKv, made, undone>>

RunBranch ==
  /\ At("if") \/ At("master")
  /\ Continue(<<SigmaFrom(Instr.v, 1)>>)
  /\ UNCHANGED <<prog, env, STACKc, STACKv, made, undone>>

RunIteration ==
  /\ At("while")
  /\ Len(STACKc) < StackBound
  /\ Continue(<<SigmaFrom(Instr.v, 1), Instr>>)
  /\ UNCHANGED <<prog, env, STACKc, STACKv, made, undone>>

-------------------------------------------------------------------------------
RunLoop ==
  /\ At("loop")
  /\ Continue(IF STACKc = <<>> THEN <<>> ELSE LoopBody)
  /\ UNCHANGED <<prog, env, STACKc, STACKv, made, undone>>

RunIfTop ==
  /\ At("iftop")
  /\ Continue(IF STACKc # <<>> /\ Top(STACKc) = Instr.slc[1].id
              THEN RhoSlc(Instr.slc) ELSE <<>>)
  /\ UNCHANGED <<prog, env, STACKc, STACKv, made, undone>>

RunPopLabel ==
  /\ At("poplabel")
  /\ STACKc' = Popped(STACKc)
  /\ Continue(<<>>)
  /\ UNCHANGED <<prog, env, STACKv, made, undone>>

(* Nothing is below the stack: reading there is undefined, the model stops. *)
RunRestore ==
  /\ At("restore")
  /\ STACKv[Stmt.op] # <<>>
  /\ env' = [env EXCEPT ![Stmt.var] = Top(STACKv[Stmt.op])]
  /\ undone' = Append(undone, Stmt.id)
  /\ Continue(<<>>)
  /\ UNCHANGED <<prog, STACKc, STACKv, made>>

RunPop ==
  /\ At("pop")
  /\ STACKv' = [STACKv EXCEPT ![Stmt.op] = Popped(@)]
  /\ Continue(<<>>)
  /\ UNCHANGED <<prog, env, STACKc, made, undone>>

Left == todo = <<>> /\ UNCHANGED vars

Next == \/ RunGenerate
        \/ RunLabel \/ RunSave \/ RunAssign \/ RunSkip \/ RunBranch \/ RunIteration
        \/ RunLoop \/ RunIfTop \/ RunPopLabel \/ RunRestore \/ RunPop
        \/ Left

Spec == Init /\ [][Next]_vars

(* The thread keeps running. *)
FairSpec == Spec /\ WF_vars(Next)

-------------------------------------------------------------------------------
Instructions ==
  [g : {"sigma", "rho"}, v : DOMAIN prog, k : Nat]
  \cup [g : {"if", "while", "master"}, v : DOMAIN prog]
  \cup [g : {"slc", "save", "assign", "slcback", "restore", "pop"},
        slc : Seq(Assignments), k : Nat]
  \cup [g : {"label"}, l : Nat] \cup [g : {"iftop"}, slc : Seq(Assignments)]
  \cup {PopLabel, ReverseLoop}

Entries == [slc : Seq(Assignments), k : Nat \ {0}, before : [Var -> Nat],
            labels : Nat, saves : [Kinds -> Nat]]

TypeOK ==
  /\ todo \in Seq(Instructions)
  /\ made \in Seq(Entries)
  /\ env \in [Var -> 0..Len(made)]
  /\ STACKc \in Seq(Nat)
  /\ STACKv \in [Kinds -> Seq(0..Len(made))]
  /\ undone \in Seq(Nat)

(* The reverse section undoes the assignments of the forward section last   *)
(* first, whichever way the tests went, and puts back the variables as they *)
(* were before each one: the adjoint statements behind a restore are        *)
(* evaluated at the point of the assignment they belong to.                 *)
Retraced ==
  LET done == Len(made) - Len(undone)
      id(i) == made[i].slc[made[i].k].id
  IN  undone # <<>> =>
        /\ done >= 0
        /\ \A k \in 1..Len(undone) : undone[k] = id(Len(made) - k + 1)
        /\ env = made[done + 1].before

(* A region that is left has undone itself and leaves no stack behind. *)
RegionReversed ==
  todo = <<>> => /\ env = [v \in Var |-> 0]
                 /\ STACKc = <<>>
                 /\ \A k \in Kinds : STACKv[k] = <<>>
                 /\ Len(undone) = Len(made)

(* Each pass of the reverse loop finds a branch for the label on top, so    *)
(* the loop comes to an end.                                                *)
ReverseEnds == At("loop") ~> todo = <<>>

-------------------------------------------------------------------------------
(* The assignments of a region, and those in what sigma makes of it. *)
Statements(p) == UNION { { p[v][k] : k \in DOMAIN p[v] } : v \in DOMAIN p }

Assigned(p) == { s.id : s \in { r \in Statements(p) : IsSlc(r) } }
                 \cup { s.init.id : s \in { r \in Statements(p) : r.op = "for" } }

Emitted(p) ==
  UNION { LET code == IF IsSlc(s) THEN SigmaAssign(<<s>>, 1) ELSE Sigma(s)
          IN  { code[j].slc[code[j].k].id : j \in { i \in DOMAIN code : code[i].g = "assign" } }
          : s \in Statements(p) }

(* The forward section computes what the region computes: every assignment  *)
(* of the region, the initialisation of a worksharing loop included, occurs *)
(* in the code that sigma generates for it. ("Assignment itself occurs also *)
(* in the output code.", sigma.cpp:248.)                                    *)
AssignmentsKept == Assigned(prog) \subseteq Emitted(prog)
===============================================================================

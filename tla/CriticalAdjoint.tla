---------------------------- MODULE CriticalAdjoint ----------------------------
(***************************************************************************)
(* The adjoint code that sigma_critical (forward section) and rho_critical *)
(* (reverse section) generate for the critical constructs of a parallel    *)
(* region, run by a team of OpenMP threads.                                *)
(*                                                                         *)
(* Forward, for a construct with label l and shared counter a_l:           *)
(*    STACKc.push(l);                                                      *)
(*    critical { sigma(S'); STACKc.push(a_l); a_l = a_l + 1 }              *)
(*    STACKc.push(l)                                                       *)
(* then a barrier, then in the reverse section                             *)
(*    while(!STACKc.empty())                                               *)
(*      if(STACKc.top() == l) {                                            *)
(*        STACKc.pop();                                                    *)
(*        while(STACKc.top() != l)                                         *)
(*          critical { if(STACKc.top() == a_l - 1) {                       *)
(*                       STACKc.pop(); a_l = a_l - 1;                      *)
(*                       while(STACKc.top() != l) rho(S') } }              *)
(*        STACKc.pop() }                                                   *)
(*                                                                         *)
(* STACKc and STACKf are threadprivate; a_l, the data and the lock of the  *)
(* unnamed critical construct are shared by the team. The body S' is any   *)
(* number of straight-line pieces, each pushing its label, saving the      *)
(* variable of the construct on STACKf and overwriting it.                 *)
(***************************************************************************)
EXTENDS Integers, Sequences, FiniteSets

CONSTANTS
  Thread,        \* the threads of the team
  NoThread,      \* the owner of a free lock
  Critical,      \* the labels of the critical constructs
  Slc,           \* the labels of the straight-line pieces in their bodies
  CounterInit,   \* the first value of each counter a_l
  Var,           \* the shared variables
  Touches,       \* the variable the body of a construct writes
  Value,         \* what a shared variable holds
  InitValue,     \* what it holds when the region is entered
  StackBound     \* bound on the depth of STACKc, hence on the executions

Label == Critical \cup Slc

(* Labels are vertex numbers given by the parser. A counter starts one     *)
(* past the number of a vertex that sigma_critical creates, so no counter  *)
(* value and no value one below it is ever a label.                        *)
ASSUME ConstantsAssumption ==
  /\ NoThread \notin Thread
  /\ Label \subseteq Nat
  /\ Critical \cap Slc = {}
  /\ CounterInit \in [Critical -> Nat]
  /\ \A l \in Critical, m \in Label : m < CounterInit[l] - 1
  /\ Touches \in [Critical -> Var]
  /\ InitValue \in Value
  /\ StackBound \in Nat

VARIABLES
  pc,        \* where each thread is in the generated code
  cur,       \* the construct a thread is executing or reversing
  STACKc,    \* the control stack of each thread
  STACKf,    \* the floating-point stack of each thread
  a_l,       \* the shared counter of each construct
  lock,      \* the holder of the unnamed critical lock
  mem        \* the shared variables

vars == <<pc, cur, STACKc, STACKf, a_l, lock, mem>>

-------------------------------------------------------------------------------
(* The runtime stacks.                                                     *)

Push(s, e) == Append(s, e)
Pop(s) == SubSeq(s, 1, Len(s) - 1)
(* What top() of an empty stack gives, and the construct of a thread that  *)
(* is in none.                                                             *)
NoLabel == -1

TopC(s) == IF s = <<>> THEN NoLabel ELSE s[Len(s)]

Goto(t, where) == pc' = [pc EXCEPT ![t] = where]
PushC(t, e) == STACKc' = [STACKc EXCEPT ![t] = Push(@, e)]
PopC(t) == STACKc' = [STACKc EXCEPT ![t] = Pop(@)]

ForwardAt == {"forward", "enter", "body", "count", "leave", "close", "barrier"}
ReverseAt == {"reverse", "spin", "turn", "replay", "done"}
Holding   == {"body", "count", "leave", "turn", "replay"}

Init ==
  /\ pc = [t \in Thread |-> "forward"]
  /\ cur = [t \in Thread |-> NoLabel]
  /\ STACKc = [t \in Thread |-> <<>>]
  /\ STACKf = [t \in Thread |-> <<>>]
  /\ a_l = CounterInit
  /\ lock = NoThread
  /\ mem = [x \in Var |-> InitValue]

-------------------------------------------------------------------------------
(* The forward section.                                                    *)

(* STACKc.push(l) in front of the construct. *)
OpenSection(t, l) ==
  /\ pc[t] = "forward"
  /\ Len(STACKc[t]) + 3 <= StackBound
  /\ PushC(t, l)
  /\ cur' = [cur EXCEPT ![t] = l]
  /\ Goto(t, "enter")
  /\ UNCHANGED <<STACKf, a_l, lock, mem>>

EnterSection(t) ==
  /\ pc[t] = "enter"
  /\ lock = NoThread
  /\ lock' = t
  /\ Goto(t, "body")
  /\ UNCHANGED <<cur, STACKc, STACKf, a_l, mem>>

(* Mutant: the operands of the two pushes are swapped. *)
ForwardSlcSwapped(t, s, v) ==
  LET x == Touches[cur[t]] IN
  /\ pc[t] = "body"
  /\ Len(STACKc[t]) + 3 <= StackBound
  /\ PushC(t, mem[x])
  /\ STACKf' = [STACKf EXCEPT ![t] = Push(@, s)]
  /\ mem' = [mem EXCEPT ![x] = v]
  /\ UNCHANGED <<pc, cur, a_l, lock>>

(* sigma of a straight-line piece of the body: label, save, overwrite. *)
ForwardSlc(t, s, v) ==
  LET x == Touches[cur[t]] IN
  /\ pc[t] = "body"
  /\ Len(STACKc[t]) + 3 <= StackBound
  /\ PushC(t, s)
  /\ STACKf' = [STACKf EXCEPT ![t] = Push(@, mem[x])]
  /\ mem' = [mem EXCEPT ![x] = v]
  /\ UNCHANGED <<pc, cur, a_l, lock>>

(* STACKc.push(a_l) *)
IssueTicket(t) ==
  /\ pc[t] = "body"
  /\ PushC(t, a_l[cur[t]])
  /\ Goto(t, "count")
  /\ UNCHANGED <<cur, STACKf, a_l, lock, mem>>

(* a_l = a_l + 1 *)
CountTicket(t) ==
  /\ pc[t] = "count"
  /\ a_l' = [a_l EXCEPT ![cur[t]] = @ + 1]
  /\ Goto(t, "leave")
  /\ UNCHANGED <<cur, STACKc, STACKf, lock, mem>>

LeaveSection(t) ==
  /\ pc[t] = "leave"
  /\ lock' = NoThread
  /\ Goto(t, "close")
  /\ UNCHANGED <<cur, STACKc, STACKf, a_l, mem>>

(* Mutant: the label behind the construct is not pushed. *)
CloseSectionUnlabelled(t) ==
  /\ pc[t] = "close"
  /\ Goto(t, "forward")
  /\ cur' = [cur EXCEPT ![t] = NoLabel]
  /\ UNCHANGED <<STACKc, STACKf, a_l, lock, mem>>

(* STACKc.push(l) behind the construct. *)
CloseSection(t) ==
  /\ pc[t] = "close"
  /\ PushC(t, cur[t])
  /\ Goto(t, "forward")
  /\ cur' = [cur EXCEPT ![t] = NoLabel]
  /\ UNCHANGED <<STACKf, a_l, lock, mem>>

(* Mutant: no barrier stands between the two sections. *)
EndForwardUnsynchronised(t) ==
  /\ pc[t] = "forward"
  /\ Goto(t, "reverse")
  /\ UNCHANGED <<cur, STACKc, STACKf, a_l, lock, mem>>

EndForward(t) ==
  /\ pc[t] = "forward"
  /\ Goto(t, "barrier")
  /\ UNCHANGED <<cur, STACKc, STACKf, a_l, lock, mem>>

(* The barrier in front of the reverse section. *)
CrossBarrier ==
  /\ \A t \in Thread : pc[t] = "barrier"
  /\ pc' = [t \in Thread |-> "reverse"]
  /\ UNCHANGED <<cur, STACKc, STACKf, a_l, lock, mem>>

-------------------------------------------------------------------------------
(* The reverse section.                                                    *)

(* if(STACKc.top() == l) { STACKc.pop(); ... *)
OpenReverse(t) ==
  /\ pc[t] = "reverse"
  /\ TopC(STACKc[t]) \in Critical
  /\ cur' = [cur EXCEPT ![t] = TopC(STACKc[t])]
  /\ PopC(t)
  /\ Goto(t, "spin")
  /\ UNCHANGED <<STACKf, a_l, lock, mem>>

(* while(STACKc.top() != l) critical { ... *)
AskForTurn(t) ==
  /\ pc[t] = "spin"
  /\ TopC(STACKc[t]) # cur[t]
  /\ lock = NoThread
  /\ lock' = t
  /\ Goto(t, "turn")
  /\ UNCHANGED <<cur, STACKc, STACKf, a_l, mem>>

(* Mutant: the ticket is not compared with the counter. *)
MyTurnUnchecked(t) == TopC(STACKc[t]) \notin Label

MyTurn(t) == TopC(STACKc[t]) = a_l[cur[t]] - 1

NotMyTurn(t) ==
  /\ pc[t] = "turn"
  /\ ~MyTurn(t)
  /\ lock' = NoThread
  /\ Goto(t, "spin")
  /\ UNCHANGED <<cur, STACKc, STACKf, a_l, mem>>

(* Mutant: the counter is not decremented. *)
TakeTurnUncounted(t) ==
  /\ pc[t] = "turn"
  /\ MyTurn(t)
  /\ PopC(t)
  /\ Goto(t, "replay")
  /\ UNCHANGED <<cur, STACKf, a_l, lock, mem>>

(* STACKc.pop(); a_l = a_l - 1; *)
TakeTurn(t) ==
  /\ pc[t] = "turn"
  /\ MyTurn(t)
  /\ PopC(t)
  /\ a_l' = [a_l EXCEPT ![cur[t]] = @ - 1]
  /\ Goto(t, "replay")
  /\ UNCHANGED <<cur, STACKf, lock, mem>>

(* Mutant: the saved value is restored but stays on the stack. *)
ReverseSlcUnpopped(t) ==
  /\ pc[t] = "replay"
  /\ TopC(STACKc[t]) # cur[t]
  /\ TopC(STACKc[t]) \in Slc
  /\ PopC(t)
  /\ mem' = [mem EXCEPT ![Touches[cur[t]]] = STACKf[t][Len(STACKf[t])]]
  /\ UNCHANGED <<pc, cur, STACKf, a_l, lock>>

(* while(STACKc.top() != l) rho(S'): a piece pops its label and restores. *)
ReverseSlc(t) ==
  /\ pc[t] = "replay"
  /\ TopC(STACKc[t]) # cur[t]
  /\ TopC(STACKc[t]) \in Slc
  /\ PopC(t)
  /\ mem' = [mem EXCEPT ![Touches[cur[t]]] = STACKf[t][Len(STACKf[t])]]
  /\ STACKf' = [STACKf EXCEPT ![t] = Pop(@)]
  /\ UNCHANGED <<pc, cur, a_l, lock>>

LeaveReverse(t) ==
  /\ pc[t] = "replay"
  /\ TopC(STACKc[t]) = cur[t]
  /\ lock' = NoThread
  /\ Goto(t, "spin")
  /\ UNCHANGED <<cur, STACKc, STACKf, a_l, mem>>

(* The spin loop ends: STACKc.pop() of the label in front. *)
CloseReverse(t) ==
  /\ pc[t] = "spin"
  /\ TopC(STACKc[t]) = cur[t]
  /\ PopC(t)
  /\ Goto(t, "reverse")
  /\ cur' = [cur EXCEPT ![t] = NoLabel]
  /\ UNCHANGED <<STACKf, a_l, lock, mem>>

EndReverse(t) ==
  /\ pc[t] = "reverse"
  /\ STACKc[t] = <<>>
  /\ Goto(t, "done")
  /\ UNCHANGED <<cur, STACKc, STACKf, a_l, lock, mem>>

Finished == \A t \in Thread : pc[t] = "done"

(* The region is left once every thread is through. *)
Terminated == Finished /\ UNCHANGED vars

Forward(t) ==
  \/ \E l \in Critical : OpenSection(t, l)
  \/ EnterSection(t)
  \/ \E s \in Slc, v \in Value : ForwardSlc(t, s, v)
  \/ IssueTicket(t)
  \/ CountTicket(t)
  \/ LeaveSection(t)
  \/ CloseSection(t)
  \/ EndForward(t)

Backward(t) ==
  \/ OpenReverse(t)
  \/ AskForTurn(t)
  \/ NotMyTurn(t)
  \/ TakeTurn(t)
  \/ ReverseSlc(t)
  \/ LeaveReverse(t)
  \/ CloseReverse(t)
  \/ EndReverse(t)

Next == \/ \E t \in Thread : Forward(t) \/ Backward(t)
        \/ CrossBarrier
        \/ Terminated

Spec == Init /\ [][Next]_vars

(* Every running thread takes its next step, and a thread that keeps       *)
(* asking for the critical lock while it is repeatedly free gets it.       *)
Fairness ==
  /\ \A t \in Thread : /\ WF_vars(Forward(t) \/ Backward(t))
                       /\ SF_vars(AskForTurn(t))
  /\ WF_vars(CrossBarrier)

FairSpec == Spec /\ Fairness

-------------------------------------------------------------------------------
(* The tickets on the control stacks. A ticket belongs to the construct    *)
(* whose label was pushed right behind it, or to the one its thread is in. *)

Owner(t, i) == IF i < Len(STACKc[t]) THEN STACKc[t][i + 1] ELSE cur[t]

IsTicket(t, i, l, n) == STACKc[t][i] = n /\ Owner(t, i) = l

HasTicket(t, l, n) == \E i \in 1..Len(STACKc[t]) : IsTicket(t, i, l, n)

Issued(l) == CounterInit[l] .. a_l[l] - 1

TypeOK ==
  /\ pc \in [Thread -> ForwardAt \cup ReverseAt]
  /\ cur \in [Thread -> Critical \cup {NoLabel}]
  /\ STACKc \in [Thread -> Seq(Int)]
  /\ STACKf \in [Thread -> Seq(Value)]
  /\ a_l \in [Critical -> Int]
  /\ lock \in Thread \cup {NoThread}
  /\ mem \in [Var -> Value]

(* Between two critical sections the tickets CounterInit .. a_l - 1 of a    *)
(* construct lie on the stacks of the team, each exactly once: if one were  *)
(* lost, issued twice or taken early, the spin loop of rho_critical would   *)
(* wait for a turn that never comes or let two threads take the same one.   *)
TicketsExact ==
  \A l \in Critical : \A n \in Issued(l) :
    \E t \in Thread : \E i \in 1..Len(STACKc[t]) :
      /\ IsTicket(t, i, l, n)
      /\ \A u \in Thread : \A j \in 1..Len(STACKc[u]) :
           IsTicket(u, j, l, n) => u = t /\ j = i

(* The float stack of a thread holds one saved value for each piece whose   *)
(* label is still on its control stack, so no restore reads below it.       *)
Pieces(s) == { i \in 1..Len(s) : s[i] \in Slc }

StacksAligned ==
  \A t \in Thread : Len(STACKf[t]) = Cardinality(Pieces(STACKc[t]))

(* When the region is left it has undone itself: the shared variables and   *)
(* the counters have their entry values again and the stacks are empty, so  *)
(* the region can be entered a second time.                                 *)
RegionUndone ==
  Finished => /\ mem = [x \in Var |-> InitValue]
              /\ a_l = CounterInit
              /\ \A t \in Thread : STACKc[t] = <<>> /\ STACKf[t] = <<>>

(* The counters and tickets implement SectionOrder: each construct is       *)
(* reversed last execution first, by the thread that ran it.                *)
Holder(l, n) == CHOOSE t \in Thread : HasTicket(t, l, n)
trail == [l \in Critical |->
            [k \in 1..(a_l[l] - CounterInit[l]) |->
                Holder(l, CounterInit[l] + k - 1)]]
reversing == \E t \in Thread : pc[t] \in ReverseAt

Order == INSTANCE SectionOrder WITH Thread <- Thread, Critical <- Critical,
                                    trail <- trail, reversing <- reversing

ReversedLastFirst == Order!SSpec

(* The spin loops come to an end: every thread leaves the region.           *)
RegionLeft == <>Finished
-------------------------------------------------------------------------------
(* The inductive invariant behind these properties.                        *)

(* Exactly the threads inside the critical construct hold its lock. *)
LockHeld == \A t \in Thread : pc[t] \in Holding <=> lock = t

(* A thread between two labels of a construct knows which one it is in. *)
InSection == \A t \in Thread :
  pc[t] \notin {"forward", "barrier", "reverse", "done"} => cur[t] \in Critical

CountersBounded == \A l \in Critical : CounterInit[l] <= a_l[l]

Closing(s, i) == i > 1 /\ s[i - 1] \notin Label

(* A control stack is a row of blocks: an opening label of a construct,    *)
(* labels of pieces, a ticket, a closing label.                            *)
BlockAt(s, i) ==
  s[i] \in Critical <=> (i = 1 \/ s[i - 1] \notin Label \/ Closing(s, i - 1))

StackShape == \A t \in Thread : \A i \in 1..Len(STACKc[t]) : BlockAt(STACKc[t], i)

(* What lies on top of the stack at each point of the generated code. *)
TopShapeOf(t) ==
  LET s == STACKc[t]
      n == Len(s)
  IN  /\ pc[t] \in {"forward", "barrier", "reverse", "done"} =>
           n = 0 \/ Closing(s, n)
      /\ pc[t] \in {"enter", "body", "replay"} =>
           n > 0 /\ s[n] \in Label /\ ~Closing(s, n)
      /\ pc[t] \in {"count", "leave", "close", "turn"} =>
           n > 0 /\ s[n] \notin Label
      /\ pc[t] = "count" => s[n] = a_l[cur[t]]
      /\ pc[t] = "spin" =>
           n > 0 /\ (s[n] \notin Label \/ (s[n] = cur[t] /\ ~Closing(s, n)))

TopShape == \A t \in Thread : TopShapeOf(t)

(* A ticket is below the counter of its construct, but for the one that is *)
(* being counted.                                                          *)
TicketBounded(t, i) ==
  LET l == Owner(t, i)
      n == STACKc[t][i]
  IN  n \notin Label =>
        /\ CounterInit[l] <= n
        /\ n < a_l[l] \/ (n = a_l[l] /\ i = Len(STACKc[t]) /\ pc[t] = "count")

TicketsBounded == \A t \in Thread : \A i \in 1..Len(STACKc[t]) : TicketBounded(t, i)

TicketsUnique ==
  \A t, u \in Thread : \A i \in 1..Len(STACKc[t]), j \in 1..Len(STACKc[u]) :
    /\ STACKc[t][i] \notin Label
    /\ STACKc[t][i] = STACKc[u][j]
    /\ Owner(t, i) = Owner(u, j)
    => t = u /\ i = j

TicketsThere == \A l \in Critical : \A n \in Issued(l) :
                  \E t \in Thread : HasTicket(t, l, n)

(* The team reverses together. *)
PhaseShared == reversing => \A t \in Thread : pc[t] \in ReverseAt

CriticalInv ==
  /\ TypeOK /\ LockHeld /\ InSection /\ CountersBounded /\ StacksAligned
  /\ StackShape /\ TopShape
  /\ TicketsBounded /\ TicketsUnique /\ TicketsThere
  /\ PhaseShared
===============================================================================

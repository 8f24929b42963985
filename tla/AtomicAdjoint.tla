----------------------------- MODULE AtomicAdjoint -----------------------------
(***************************************************************************)
(* The adjoint code that sigma_atomic and rho_atomic generate for the      *)
(* atomic increments of one shared variable y, run by a team of threads.   *)
(*                                                                         *)
(* In front of the region:  master { flag = 0 }  barrier                   *)
(* Forward:   critical { if(flag == 0) { flag = 1; storage = y }           *)
(*                       y += e }                                          *)
(* then a barrier, then in the reverse section                             *)
(*            critical { if(flag != 2) { flag = 2; y = storage } }         *)
(*                                                                         *)
(* Nothing is pushed for y: the order of the increments is unknown, so the *)
(* first thread that reverses one undoes them all at once. The region is   *)
(* an unrolled program of atomics (named by the vertex of the statement,   *)
(* which has a flag and a storage of its own), reads of y and barriers; a  *)
(* thread may skip an atomic or a read, as a conditional would.            *)
(***************************************************************************)
EXTENDS Integers, Sequences

CONSTANTS
  Thread,      \* the threads of the team
  Master,      \* the one that runs master constructs
  NoThread,    \* the owner of a free lock
  Atomic,      \* the atomic statements
  Program,     \* the statements of the region, in order
  EntryValue,  \* what y may hold when the region is entered
  Regions      \* bound on how often the region is entered

Positions == 1..Len(Program)
Barriers  == { r \in Positions : Program[r] = "barrier" }

(* A barrier parts the statements at p and q. *)
Parted(p, q) == \E r \in Barriers : (p < r /\ r < q) \/ (q < r /\ r < p)

(* Reads and atomics are synchronised: a barrier lies between them. *)
ASSUME ConstantsAssumption ==
  /\ Master \in Thread /\ NoThread \notin Thread
  /\ Program \in Seq(Atomic \cup {"read", "barrier"})
  /\ Atomic \cap {"read", "barrier"} = {}
  /\ EntryValue \subseteq Nat
  /\ \A p, q \in Positions :
       Program[p] \in Atomic /\ Program[q] = "read" => Parted(p, q)
  /\ Regions \in Nat \ {0}

VARIABLES
  pc,        \* where each thread is in the generated code
  at,        \* the next statement of each thread in the forward section
  STACKc,    \* the labels of the statements each thread has run
  seen,      \* what its reads saw, until they are reversed
  flag,      \* the flag of each atomic statement
  storage,   \* its storage
  y,         \* the variable
  lock,      \* the holder of the unnamed critical lock
  entry,     \* y when the region was entered
  entered    \* how often it was entered

vars == <<pc, at, STACKc, seen, flag, storage, y, lock, entry, entered>>

NoValue == -1

TopC(t) == STACKc[t][Len(STACKc[t])]
Running(t) == Program[at[t]]
Goto(t, where) == pc' = [pc EXCEPT ![t] = where]

(* The label of a piece is pushed in front of it. *)
PushLabel(t) == /\ STACKc' = [STACKc EXCEPT ![t] = Append(@, at[t])]
                /\ at' = [at EXCEPT ![t] = @ + 1]
PopLabel(t) == STACKc' = [STACKc EXCEPT ![t] = SubSeq(@, 1, Len(@) - 1)]

AtStart == [t \in Thread |-> IF t = Master THEN "master" ELSE "entry"]

Init ==
  /\ pc = AtStart
  /\ at = [t \in Thread |-> 1]
  /\ STACKc = [t \in Thread |-> <<>>]
  /\ seen = [t \in Thread |-> [p \in Positions |-> NoValue]]
  /\ flag = [a \in Atomic |-> 0]
  /\ storage = [a \in Atomic |-> NoValue]
  /\ y \in EntryValue
  /\ entry = y
  /\ lock = NoThread
  /\ entered = 1

-------------------------------------------------------------------------------
(* Mutant: the flags are only set by their declarations. *)
InitFlagsOnce(t) ==
  /\ pc[t] = "master"
  /\ Goto(t, "entry")
  /\ UNCHANGED <<at, STACKc, seen, flag, storage, y, lock, entry, entered>>

(* master { flag = 0 } *)
InitFlags(t) ==
  /\ pc[t] = "master"
  /\ flag' = [a \in Atomic |-> 0]
  /\ Goto(t, "entry")
  /\ UNCHANGED <<at, STACKc, seen, storage, y, lock, entry, entered>>

EnterForward ==
  /\ \A t \in Thread : pc[t] = "entry"
  /\ pc' = [t \in Thread |-> "forward"]
  /\ UNCHANGED <<at, STACKc, seen, flag, storage, y, lock, entry, entered>>

(* A conditional around the statement is not taken. *)
Skip(t) ==
  /\ pc[t] = "forward" /\ at[t] <= Len(Program)
  /\ Running(t) # "barrier"
  /\ at' = [at EXCEPT ![t] = @ + 1]
  /\ UNCHANGED <<pc, STACKc, seen, flag, storage, y, lock, entry, entered>>

ForwardRead(t) ==
  /\ pc[t] = "forward" /\ at[t] <= Len(Program)
  /\ Running(t) = "read"
  /\ PushLabel(t)
  /\ seen' = [seen EXCEPT ![t][at[t]] = y]
  /\ UNCHANGED <<pc, flag, storage, y, lock, entry, entered>>

EnterAtomic(t) ==
  /\ pc[t] = "forward" /\ at[t] <= Len(Program)
  /\ Running(t) \in Atomic
  /\ lock = NoThread
  /\ lock' = t
  /\ PushLabel(t)
  /\ Goto(t, "store")
  /\ UNCHANGED <<seen, flag, storage, y, entry, entered>>

(* Mutant: the storage is not filled. *)
StoreNothing(t) ==
  LET a == Program[TopC(t)] IN
  /\ pc[t] = "store"
  /\ flag' = [flag EXCEPT ![a] = IF @ = 0 THEN 1 ELSE @]
  /\ Goto(t, "add")
  /\ UNCHANGED <<at, STACKc, seen, storage, y, lock, entry, entered>>

(* Mutant: the storage is filled at each execution. *)
StoreAlways(t) ==
  LET a == Program[TopC(t)] IN
  /\ pc[t] = "store"
  /\ flag' = [flag EXCEPT ![a] = 1]
  /\ storage' = [storage EXCEPT ![a] = y]
  /\ Goto(t, "add")
  /\ UNCHANGED <<at, STACKc, seen, y, lock, entry, entered>>

(* if(flag == 0) { flag = 1; storage = y } *)
Store(t) ==
  LET a == Program[TopC(t)] IN
  /\ pc[t] = "store"
  /\ flag' = [flag EXCEPT ![a] = IF @ = 0 THEN 1 ELSE @]
  /\ storage' = [storage EXCEPT ![a] = IF flag[a] = 0 THEN y ELSE @]
  /\ Goto(t, "add")
  /\ UNCHANGED <<at, STACKc, seen, y, lock, entry, entered>>

(* y += e, the end of the critical construct *)
Add(t) ==
  /\ pc[t] = "add"
  /\ y' = y + 1
  /\ lock' = NoThread
  /\ Goto(t, "forward")
  /\ UNCHANGED <<at, STACKc, seen, flag, storage, entry, entered>>

(* A barrier of the region, with the label in front of it. *)
ForwardBarrier ==
  /\ \A t \in Thread : /\ pc[t] = "forward" /\ at[t] <= Len(Program)
                       /\ Running(t) = "barrier"
  /\ STACKc' = [t \in Thread |-> Append(STACKc[t], at[t])]
  /\ at' = [t \in Thread |-> at[t] + 1]
  /\ UNCHANGED <<pc, seen, flag, storage, y, lock, entry, entered>>

(* The barrier that stands in front of the reverse section. *)
TurnAround ==
  /\ \A t \in Thread : pc[t] = "forward" /\ at[t] > Len(Program)
  /\ pc' = [t \in Thread |-> "reverse"]
  /\ UNCHANGED <<at, STACKc, seen, flag, storage, y, lock, entry, entered>>

-------------------------------------------------------------------------------
Reversing(t) == pc[t] = "reverse" /\ STACKc[t] # <<>>

ReverseRead(t) ==
  /\ Reversing(t) /\ Program[TopC(t)] = "read"
  /\ PopLabel(t)
  /\ seen' = [seen EXCEPT ![t][TopC(t)] = NoValue]
  /\ UNCHANGED <<pc, at, flag, storage, y, lock, entry, entered>>

(* The pop of the label, the adjoint of e, and the critical construct. *)
EnterUndo(t) ==
  /\ Reversing(t) /\ Program[TopC(t)] \in Atomic
  /\ lock = NoThread
  /\ lock' = t
  /\ Goto(t, "undo")
  /\ UNCHANGED <<at, STACKc, seen, flag, storage, y, entry, entered>>

(* if(flag != 2) { flag = 2; y = storage } *)
Undo(t) ==
  LET a == Program[TopC(t)] IN
  /\ pc[t] = "undo"
  /\ flag' = [flag EXCEPT ![a] = 2]
  /\ y' = IF flag[a] # 2 THEN storage[a] ELSE y
  /\ lock' = NoThread
  /\ PopLabel(t)
  /\ Goto(t, "reverse")
  /\ UNCHANGED <<at, seen, storage, entry, entered>>

(* Mutant: a barrier has no counterpart in the reverse section. *)
ReverseBarrierDropped ==
  /\ \E t \in Thread : Reversing(t) /\ Program[TopC(t)] = "barrier" /\ PopLabel(t)
  /\ UNCHANGED <<pc, at, seen, flag, storage, y, lock, entry, entered>>

ReverseBarrier ==
  /\ \A t \in Thread : Reversing(t) /\ Program[TopC(t)] = "barrier"
  /\ STACKc' = [t \in Thread |-> SubSeq(STACKc[t], 1, Len(STACKc[t]) - 1)]
  /\ UNCHANGED <<pc, at, seen, flag, storage, y, lock, entry, entered>>

EndReverse(t) ==
  /\ pc[t] = "reverse" /\ STACKc[t] = <<>>
  /\ Goto(t, "done")
  /\ UNCHANGED <<at, STACKc, seen, flag, storage, y, lock, entry, entered>>

Finished == \A t \in Thread : pc[t] = "done"

(* The caller enters the region again, with another y. *)
EnterAgain ==
  /\ Finished /\ entered < Regions
  /\ entered' = entered + 1
  /\ \E v \in EntryValue : y' = v /\ entry' = v
  /\ pc' = AtStart
  /\ at' = [t \in Thread |-> 1]
  /\ UNCHANGED <<STACKc, seen, flag, storage, lock>>

Terminated == Finished /\ entered = Regions /\ UNCHANGED vars

Step(t) == \/ InitFlags(t) \/ Skip(t) \/ ForwardRead(t)
           \/ EnterAtomic(t) \/ Store(t) \/ Add(t)
           \/ ReverseRead(t) \/ EnterUndo(t) \/ Undo(t) \/ EndReverse(t)

Next == \/ \E t \in Thread : Step(t)
        \/ EnterForward \/ ForwardBarrier \/ TurnAround \/ ReverseBarrier
        \/ EnterAgain \/ Terminated

Spec == Init /\ [][Next]_vars

-------------------------------------------------------------------------------
TypeOK ==
  /\ pc \in [Thread -> {"master", "entry", "forward", "store", "add",
                        "reverse", "undo", "done"}]
  /\ at \in [Thread -> 1..Len(Program) + 1]
  /\ STACKc \in [Thread -> Seq(Positions)]
  /\ seen \in [Thread -> [Positions -> Nat \cup {NoValue}]]
  /\ flag \in [Atomic -> 0..2]
  /\ storage \in [Atomic -> Nat \cup {NoValue}]
  /\ y \in Nat /\ entry \in EntryValue
  /\ lock \in Thread \cup {NoThread}
  /\ entered \in 1..Regions

(* Whenever a thread is about to reverse a piece that reads y, y holds what *)
(* the piece saw in the forward section, so its partial derivatives are     *)
(* taken at the right point, whatever the others have already undone.       *)
ReadsReplayed ==
  \A t \in Thread :
    Reversing(t) /\ Program[TopC(t)] = "read" => y = seen[t][TopC(t)]

(* Left behind, the region has undone all increments of y, in whatever      *)
(* order the threads made them and took them back.                          *)
RegionRestored == Finished => y = entry
-------------------------------------------------------------------------------
(* The inductive invariant behind these properties.                        *)

Entering   == {"master", "entry"}
Forwarding == {"forward", "store", "add"}
Undoing    == {"reverse", "undo", "done"}

(* The team is in one section at a time. *)
Together == \E section \in {Entering, Forwarding, Undoing} :
              \A t \in Thread : pc[t] \in section

(* Exactly the thread inside a critical construct holds the lock, and the  *)
(* label of the atomic statement lies on top of its stack.                 *)
LockHeld == \A t \in Thread :
  /\ pc[t] \in {"store", "add", "undo"} <=> lock = t
  /\ lock = t => STACKc[t] # <<>> /\ Program[TopC(t)] \in Atomic

Labels(t) == { STACKc[t][i] : i \in 1..Len(STACKc[t]) }

(* A stack holds the labels of the statements a thread has run, in order.  *)
StacksOrdered == \A t \in Thread :
  /\ \A i, j \in 1..Len(STACKc[t]) : i < j => STACKc[t][i] < STACKc[t][j]
  /\ \A p \in Labels(t) : p < at[t]
  /\ pc[t] \in Entering \cup {"done"} => STACKc[t] = <<>>

(* No thread is on the other side of a barrier. *)
Synchronised == \A t \in Thread, r \in Barriers :
  /\ pc[t] \notin Undoing /\ r < at[t] => r \in Labels(t)
  /\ \A p \in Labels(t) : r < p => r \in Labels(t)
  /\ r \in Labels(t) => \A u \in Thread : r \in Labels(u)

(* The flag of an atomic statement is 1 from its first execution to the    *)
(* first time one is undone, and its storage is filled meanwhile.          *)
FlagsRaised ==
  /\ \A a \in Atomic : flag[a] = 1 =>
       /\ storage[a] \in Nat
       /\ \E t \in Thread : \E p \in Labels(t) : Program[p] = a
  /\ \A t \in Thread : \A p \in Labels(t) :
       Program[p] \in Atomic /\ ~(pc[t] = "store" /\ p = TopC(t)) => flag[Program[p]] # 0
  /\ \A a \in Atomic : flag[a] = 2 => \A t \in Thread : pc[t] \notin Forwarding
  /\ pc[Master] = "entry" => \A a \in Atomic : flag[a] = 0

(* The increments of y are undone one phase after the other: between two   *)
(* barriers is one atomic statement, and it is in no other phase.          *)
OnePerPhase == \A p, q \in Positions :
  Program[p] \in Atomic /\ Program[q] \in Atomic =>
    (Program[p] = Program[q] <=> ~Parted(p, q))

Pending(p) == p \in Positions /\ Program[p] \in Atomic /\ flag[Program[p]] = 1

(* The value that y had in front of statement p is that in the storage of  *)
(* the first statement behind it that is to be undone, or else still in y. *)
Kept(p, v) ==
  /\ (\A q \in Positions : p < q => ~Pending(q)) => y = v
  /\ \A q \in Positions :
       /\ Pending(q) /\ p < q
       /\ \A r \in Positions : Pending(r) /\ p < r => q <= r
       => storage[Program[q]] = v

ValuesKept ==
  /\ Kept(0, entry)
  /\ \A t \in Thread : \A p \in Labels(t) :
       Program[p] = "read" => Kept(p, seen[t][p])

(* What the flag, the storage and the stacks say at any time about the     *)
(* values that y has still to take again.                                  *)
AtomicInv ==
  /\ TypeOK /\ Together /\ LockHeld /\ StacksOrdered /\ Synchronised /\ FlagsRaised
  /\ OnePerPhase => ValuesKept
===============================================================================

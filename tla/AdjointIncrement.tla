--------------------------- MODULE AdjointIncrement ---------------------------
(***************************************************************************)
(* The increments a1_x += a1_v that build_adj_rhs_reverse generates for    *)
(* the reads of the forward section, run by a team of threads. A read that *)
(* only one thread makes of a memory location (an exclusive read) needs no *)
(* synchronisation; other reads get an atomic pragma, unless they are made *)
(* inside a critical construct.                                            *)
(***************************************************************************)
EXTENDS Naturals, Sequences, FiniteSets

CONSTANTS
  Thread,          \* the threads of the team
  NoThread,        \* the owner of a free lock
  Location,        \* the memory locations that are read
  Reads,           \* the reads a thread may make, in order
  Analysed,        \* whether the exclusive read analysis may have been run
  SuppressAtomic   \* the option --suppress-atomic

ASSUME ConstantsAssumption ==
  /\ NoThread \notin Thread
  /\ Reads \subseteq Seq([loc : Location, critical : BOOLEAN])
  /\ Analysed \subseteq BOOLEAN /\ SuppressAtomic \in BOOLEAN

VARIABLES
  reads,       \* the reads of each thread still to be reversed, last first
  analysed,    \* whether is_memory_read_exclusive has entries
  exclusive,   \* the locations it holds exclusive
  pc,          \* where each thread is in an increment
  reg,         \* what a thread has loaded
  a1,          \* the adjoint of each location
  lock,        \* the holder of the unnamed critical lock
  due          \* how many increments each location must get

vars == <<reads, analysed, exclusive, pc, reg, a1, lock, due>>

Locs(s) == { s[k].loc : k \in DOMAIN s }

(* Only the reads of a location that one thread makes alone may be called  *)
(* exclusive; the analysis need not find all of them.                      *)
OnlyOneReader(r, x) ==
  \A t, u \in Thread : x \in Locs(r[t]) /\ x \in Locs(r[u]) => t = u

(* The reads of a location, by thread and place. *)
ReadsOf(r, x) == UNION { {t} \X { k \in DOMAIN r[t] : r[t][k].loc = x } : t \in Thread }

Init ==
  /\ reads \in [Thread -> Reads]
  /\ analysed \in Analysed
  /\ exclusive \in SUBSET { x \in Location : OnlyOneReader(reads, x) }
  /\ pc = [t \in Thread |-> "next"]
  /\ reg = [t \in Thread |-> 0]
  /\ a1 = [x \in Location |-> 0]
  /\ lock = NoThread
  /\ due = [x \in Location |-> Cardinality(ReadsOf(reads, x))]

-------------------------------------------------------------------------------
Here(t) == Head(reads[t])
Waiting(t) == pc[t] = "next" /\ reads[t] # <<>>
Done(t) == reads' = [reads EXCEPT ![t] = Tail(@)]
Goto(t, where) == pc' = [pc EXCEPT ![t] = where]

(* Mutant: the analysis is asked inside out. *)
AtomicNeededInverted(t) ==
  ~(SuppressAtomic \/ Here(t).critical \/ (analysed /\ Here(t).loc \notin exclusive))

(* The choice of build_adj_rhs_reverse for a read of a shared variable. *)
AtomicNeeded(t) ==
  ~(SuppressAtomic \/ Here(t).critical \/ (analysed /\ Here(t).loc \in exclusive))

AtomicIncrement(t) ==
  /\ Waiting(t) /\ AtomicNeeded(t)
  /\ a1' = [a1 EXCEPT ![Here(t).loc] = @ + 1]
  /\ Done(t)
  /\ UNCHANGED <<analysed, exclusive, pc, reg, lock, due>>

EnterCritical(t) ==
  /\ Waiting(t) /\ Here(t).critical
  /\ lock = NoThread /\ lock' = t
  /\ Goto(t, "inside")
  /\ UNCHANGED <<reads, analysed, exclusive, reg, a1, due>>

(* A plain increment is a load and a store. *)
Load(t) ==
  /\ \/ Waiting(t) /\ ~AtomicNeeded(t) /\ ~Here(t).critical
     \/ pc[t] = "inside"
  /\ reg' = [reg EXCEPT ![t] = a1[Here(t).loc]]
  /\ Goto(t, "loaded")
  /\ UNCHANGED <<reads, analysed, exclusive, a1, lock, due>>

Store(t) ==
  /\ pc[t] = "loaded"
  /\ a1' = [a1 EXCEPT ![Here(t).loc] = reg[t] + 1]
  /\ lock' = IF Here(t).critical THEN NoThread ELSE lock
  /\ Done(t)
  /\ Goto(t, "next")
  /\ UNCHANGED <<analysed, exclusive, reg, due>>

Finished == \A t \in Thread : reads[t] = <<>>
Terminated == Finished /\ UNCHANGED vars

Next == \/ \E t \in Thread : \/ AtomicIncrement(t) \/ EnterCritical(t)
                             \/ Load(t) \/ Store(t)
        \/ Terminated

Spec == Init /\ [][Next]_vars

-------------------------------------------------------------------------------
(* Each read that is reversed adds its contribution to the adjoint as it    *)
(* stands at that moment: between the load and the store of a plain         *)
(* increment no other thread reaches the same location                      *)
(* (rho.cpp:560-604).                                                       *)
Kept == \A t \in Thread : reads'[t] # reads[t] =>
                           a1' = [a1 EXCEPT ![Here(t).loc] = @ + 1]
IncrementsKept == [][Kept]_vars

(* When the reverse section is left, the adjoint of each location is the    *)
(* sum of the contributions of all reads: no increment was overwritten by   *)
(* one of another thread.                                                   *)
NothingLost == Finished => a1 = due
===============================================================================

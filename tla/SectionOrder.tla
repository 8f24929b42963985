----------------------------- MODULE SectionOrder -----------------------------
(***************************************************************************)
(* What the adjoint of a critical construct promises: the executions of    *)
(* one construct are reversed in exactly the opposite order of its         *)
(* executions in the forward section, each by the thread that ran it, and  *)
(* none starts once the reverse section has begun.                         *)
(***************************************************************************)
EXTENDS Naturals, Sequences

CONSTANTS Thread,     \* the threads of the parallel region
          Critical    \* its critical constructs

VARIABLES trail,      \* the executions not yet reversed, oldest first
          reversing   \* whether the reverse section has begun

svars == <<trail, reversing>>

SInit == /\ trail = [l \in Critical |-> <<>>]
         /\ reversing = FALSE

(* Thread t runs construct l once. *)
Execute(t, l) ==
  /\ ~reversing
  /\ trail' = [trail EXCEPT ![l] = Append(@, t)]
  /\ UNCHANGED reversing

TurnAround == /\ ~reversing
              /\ reversing' = TRUE
              /\ UNCHANGED trail

(* Only the thread of the last execution still standing may reverse it. *)
Reverse(t, l) ==
  /\ reversing
  /\ trail[l] # <<>>
  /\ trail[l][Len(trail[l])] = t
  /\ trail' = [trail EXCEPT ![l] = SubSeq(@, 1, Len(@) - 1)]
  /\ UNCHANGED reversing

SNext == \/ TurnAround
         \/ \E t \in Thread, l \in Critical : Execute(t, l) \/ Reverse(t, l)

SSpec == SInit /\ [][SNext]_svars
===============================================================================

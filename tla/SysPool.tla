------------------------------- MODULE SysPool -------------------------------
(***************************************************************************)
(* What the system server's allocator promises of the application's RAM:   *)
(* it is divided into what is free and what somebody owns, by blocks of    *)
(* consecutive units that are given to the allocator and taken from it.    *)
(* Dividing a block uses up a slot, and nothing is lost unless the slots   *)
(* are.                                                                    *)
(***************************************************************************)
EXTENDS Naturals, FiniteSetsExt

VARIABLES
  free,     \* the units the allocator may hand out
  owned,    \* the units that programs and kernel objects have
  slots     \* how many blocks can still be divided

vars == <<free, owned, slots>>

Block(b) == b # {} /\ b = Min(b) .. Max(b)

Init == free = {} /\ Block(owned) /\ slots \in Nat

\* A block changes hands.
Give == \E b \in {free' \ free} :
          /\ Block(b) /\ b \subseteq owned
          /\ free' = free \cup b /\ owned' = owned \ b
          /\ UNCHANGED slots
Take == \E b \in {free \ free'} :
          /\ Block(b)
          /\ free' = free \ b /\ owned' = owned \cup b
          /\ UNCHANGED slots

UseSlot == /\ slots > 0
           /\ slots' = slots - 1
           /\ UNCHANGED <<free, owned>>
Lose == \E b \in {free \ free'} :
          /\ Block(b)
          /\ slots <= 1 /\ slots' = 0
          /\ free' = free \ b
          /\ UNCHANGED owned

Next == Give \/ Take \/ UseSlot \/ Lose
Spec == Init /\ [][Next]_vars
=============================================================================

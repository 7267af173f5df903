--------------------------- MODULE DurableRegister ---------------------------
(***************************************************************************)
(* What the policy engine relies on (coordinator.go): a register whose     *)
(* acknowledged value survives power loss.  A write that was begun and not *)
(* acknowledged may or may not have taken effect when power is lost, as    *)
(* one whole; nothing else ever comes back.                                *)
(***************************************************************************)
EXTENDS Naturals

CONSTANT MaxWrites   \* bound: generations are numbered 0 .. MaxWrites

VARIABLES
  value,     \* the generation known to be durable, 0 for none
  pending    \* generations begun since and not acknowledged

register == <<value, pending>>

RegisterInit == value = 0 /\ pending = {}

BeginPending ==
  \E g \in 1 .. MaxWrites : pending' = pending \cup {g} /\ UNCHANGED value

Acknowledge ==
  \E g \in pending : value' = g /\ pending' = {}

LosePower ==
  /\ value' \in {value} \cup pending
  /\ pending' = {}

RegisterNext == BeginPending \/ Acknowledge \/ LosePower

RegisterSpec == RegisterInit /\ [][RegisterNext]_register
=============================================================================

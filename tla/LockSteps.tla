------------------------------ MODULE LockSteps ------------------------------
(***************************************************************************)
(* The blocking steps a "with" block of mutations.py is made of: count     *)
(* oneself as a user of a key's lock, take that lock, join the current     *)
(* generation, or own the generation alone.                                *)
(***************************************************************************)
CONSTANT NoKey

Retain(k) == [op |-> "retain", key |-> k]
Lock(k)   == [op |-> "lock", key |-> k]
Enter     == [op |-> "enter", key |-> NoKey]
Exclusive == [op |-> "exclusive", key |-> NoKey]
=============================================================================

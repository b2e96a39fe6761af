----------------------------- MODULE MCAccounts -----------------------------
(***************************************************************************)
(* Tabs and slots are interchangeable.                                     *)
(***************************************************************************)
EXTENDS Accounts, TLC

Symmetric == Permutations(Tabs) \cup Permutations(Slots)
=============================================================================

------------------------------- MODULE MCEscrow -------------------------------
(***************************************************************************)
(* Values for the run of Escrow: tabs, terminals, names and entries are    *)
(* interchangeable.                                                        *)
(***************************************************************************)
EXTENDS Escrow, TLC

MCSymmetry == Permutations(Tabs) \union Permutations(Names) \union Permutations(Entries)
===============================================================================

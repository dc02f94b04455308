--------------------------- MODULE MCMicroAirClient ---------------------------
(* MicroAirClient for TLC.  The .cfg files bound the generations to two full   *)
(* transactions (a late callback of the first can meet the second) and let the *)
(* unit send an image of the shortest and of the longest accepted size and one *)
(* that is a frame too long.                                                   *)
EXTENDS MicroAirClient, TLC

Symmetry == Permutations(Tasks)
===============================================================================

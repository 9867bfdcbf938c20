----------------------------- MODULE MCPageMap ------------------------------
(* Instance of PageMap for TLC: the free pages are interchangeable.        *)
EXTENDS PageMap, TLC

AllFree == Permutations(Pages \ {KernPage})
=============================================================================

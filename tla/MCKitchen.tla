----------------------------- MODULE MCKitchen ------------------------------
(***************************************************************************)
(* Instances of Kitchen for TLC.                                           *)
(***************************************************************************)
EXTENDS Kitchen, TLC

Typed == {"milk", "Milk", "rice"}

LowerCase == [w \in Typed |-> IF w = "Milk" THEN "milk" ELSE w]

Days == {1, 2}

\* Tabs are interchangeable, and so are accounts.
Symmetric == Permutations(Tab) \cup Permutations(Owner)

=============================================================================

----------------------------- MODULE MCGateway ------------------------------
(***************************************************************************)
(* Instances of Gateway for TLC.                                           *)
(***************************************************************************)
EXTENDS Gateway, TLC

Typed == {"Ann", "ann", "bob"}

LowerCase == [e \in Typed |-> IF e = "Ann" THEN "ann" ELSE e]

AllowLists == {<<>>, <<"Ann", "bob">>, <<"bob">>}

\* Secrets are interchangeable.
Symmetric == Permutations(Secret)

=============================================================================

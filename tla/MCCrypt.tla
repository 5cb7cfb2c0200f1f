------------------------------ MODULE MCCrypt ------------------------------
(* Instances of Crypt for TLC. *)
EXTENDS Crypt, TLC

SomeChars == {1, 2, 5}
\* 5 is the capital of 1.
LowerCase == [b \in SomeChars |-> IF b = 5 THEN 1 ELSE b]

\* A secret, the same in the other letter case, the same with null for a
\* hash, none, and one long enough to need no hash.
SomeArguments ==
    {[secret |-> <<1>>, hash |-> <<2>>], [secret |-> <<5>>, hash |-> <<2>>],
     [secret |-> <<1>>, hash |-> NullHash], [secret |-> <<>>, hash |-> <<2>>],
     [secret |-> <<2, 1, 2>>, hash |-> <<2>>]}
Email == <<1, 2>>
OtherEmail == <<2, 2>>
Resource == <<2, 1, 1, 2>>
SomePlain == <<4, 7>>

Symmetry == Permutations(Callers)
=============================================================================

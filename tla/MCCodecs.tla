------------------------------ MODULE MCCodecs ------------------------------
(* Instances of Codecs for TLC. *)
EXTENDS Codecs

\* No bit, the last, all of one nibble and of all, and the first.
SomeBytes == {0, 1, 128, 255}
\* A, b, W, 7, 8, the padding, a space, a tab, A with two dots.
SomeTexts == {65, 98, 87, 55, 56, 61, 32, 9, 196}
\* Null, two special controls, a tab, and a character.
SomeControls == {0, 1, 31, 9, 65}
=============================================================================

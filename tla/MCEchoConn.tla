----------------------------- MODULE MCEchoConn -----------------------------
(* Instances of EchoConn for TLC. *)
EXTENDS EchoConn

CONSTANTS a, b

\* No null byte, or one beside a plain byte.
PlainBytes == {a, b}
RawBytes == {a, Nul}

\* strlen stops at once, or finds one or two bytes of the stack.
NoJunk == {<<>>}
StackJunk == {<<>>, <<a>>, <<a, a>>}
=============================================================================

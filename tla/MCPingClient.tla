---------------------------- MODULE MCPingClient ----------------------------
(* Instances of PingClient for TLC. *)
EXTENDS PingClient

CONSTANTS a, b

AllBytes == {a, b, Space, Cr, Lf, Nul}

\* The stack holds a zero, or a byte or two before one.
StackJunk == {<<>>, <<b>>, <<b, b>>}

\* No word, words that fit together, and one that does not beside another.
SomeArguments ==
    {<<>>, << <<a>> >>, << <<a>>, <<a>> >>, << <<a, a>>, <<a, a>>, <<a>> >>,
     << <<a, a, a, a>>, <<a>> >>}
=============================================================================

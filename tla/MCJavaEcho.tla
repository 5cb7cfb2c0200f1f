---------------------------- MODULE MCJavaEcho ----------------------------
(* Instances of JavaEcho for TLC. *)
EXTENDS JavaEcho

CONSTANTS v4, v6, e, r, silent

BothAddresses == {v4, v6}
AllClients == {e, r, silent}
OnlyEchoClient == {e}
HangsUp == {r}

\* The client that may stay silent has an address to itself.
AddressOf == [c \in AllClients |-> IF c = silent THEN v6 ELSE v4]
=============================================================================

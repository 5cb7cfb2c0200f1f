----------------------------- MODULE MCStartup -----------------------------
(* Instances of Startup for TLC. *)
EXTENDS Startup

CONSTANTS s1, s2

\* The host names of GetConnectedIpAddresses, in its order.
HostNames == <<"area23", "paris", "virginia", "parisienne">>
GuardedNames == {"virginia", "parisienne"}

\* One server, both, or this machine.
SomeAnswers == {<<s1>>, <<s2, s1>>, <<Loopback>>}
=============================================================================

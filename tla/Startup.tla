------------------------------ MODULE Startup ------------------------------
(***************************************************************************)
(* Program.Main of the C# server up to the accept loop: the addresses of   *)
(* four hosts are looked up, each is connected to on its web port, and the *)
(* local addresses of those connections are what the server may listen on. *)
(*                                                                         *)
(* The network stays as it is while the program starts.  Errors go to a    *)
(* log whose directory is made when it is first asked for.                 *)
(***************************************************************************)
EXTENDS Naturals, Sequences, FiniteSetsExt, SequencesExt

CONSTANTS
    Hosts,          \* the names, in the order of their look-ups
    Guarded,        \* those whose look-up is inside a try block
    Servers, Loopback,  \* addresses that look-ups answer with
    Locals,         \* addresses of this machine
    Answers,        \* what look-ups may answer: sequences of addresses
    None            \* no answer, no connection

ASSUME StartupAssumption ==
    /\ Hosts \in Seq(STRING) /\ Guarded \subseteq ToSet(Hosts)
    /\ Loopback \notin Servers /\ Answers \subseteq Seq(Servers \union {Loopback})
    /\ None \notin Answers \union Locals

VARIABLES
    dns,        \* of each host: the answer, or None
    route,      \* of each server: the local address it is reached from, or None
    dual,       \* whether TcpClient makes dual mode sockets: the machine has IPv6
    taken,      \* local addresses whose port 7777 cannot be bound
    logDir,     \* the log directory: "there", "missing" or "denied"
    pc, next,   \* where Main is, and the index of the next look-up or probe
    serverIps, validAddrs,
    listening   \* addresses that a Listener6 was made for

world == <<dns, route, dual, taken>>
vars == <<world, logDir, pc, next, serverIps, validAddrs, listening>>

Init ==
    /\ dns \in [ToSet(Hosts) -> Answers \union {None}]
    /\ route \in [Servers -> Locals \union {None}]
    /\ dual \in BOOLEAN
    /\ taken \in SUBSET Locals
    /\ logDir \in {"there", "missing", "denied"}
    /\ pc = "lookup" /\ next = 1
    /\ serverIps = <<>> /\ validAddrs = <<>> /\ listening = <<>>

\* LogStatic asks for the log file, outside its own try block, and with it
\* for the directory.
LogStatic == logDir' = IF logDir = "missing" THEN "there" ELSE logDir
LogThrows == logDir = "denied"

GoOn == next' = next + 1
Exit(state) == pc' = state /\ UNCHANGED next

\* An address of an answer is added to the list unless it is loopback.
AddServer(ips, ip) == IF ip = Loopback THEN ips ELSE Append(ips, ip)

\* GetIpAddrsByHostName has an answer.
LookUp ==
    /\ pc = "lookup" /\ next <= Len(Hosts)
    /\ dns[Hosts[next]] # None
    /\ serverIps' = FoldLeft(AddServer, serverIps, dns[Hosts[next]])
    /\ GoOn
    /\ UNCHANGED <<world, logDir, pc, validAddrs, listening>>

\* The exception is logged if a try block is around the look-up, and leaves
\* Main otherwise.
LookUpFails ==
    /\ pc = "lookup" /\ next <= Len(Hosts)
    /\ dns[Hosts[next]] = None
    /\ IF Hosts[next] \in Guarded
       THEN LogStatic /\ IF LogThrows THEN Exit("crashed") ELSE GoOn /\ UNCHANGED pc
       ELSE Exit("crashed") /\ UNCHANGED logDir
    /\ UNCHANGED <<world, serverIps, validAddrs, listening>>

LookUpsDone ==
    /\ pc = "lookup" /\ next > Len(Hosts)
    /\ pc' = "probe" /\ next' = 1
    /\ UNCHANGED <<world, logDir, serverIps, validAddrs, listening>>

\* The text of LocalEndPoint as IPAddress.Parse takes it, or None: without
\* dual mode the port is left on "a.b.c.d:port", which is no address.
ClientIp(s) == IF dual THEN route[s] ELSE None

\* Mutant: a new address is put before the others.
Probe_InFront ==
    /\ pc = "probe" /\ next <= Len(serverIps)
    /\ LET clientIp == ClientIp(serverIps[next])
       IN  /\ clientIp # None
           /\ validAddrs' = IF clientIp \in ToSet(validAddrs) THEN validAddrs
                            ELSE <<clientIp>> \o validAddrs
    /\ GoOn
    /\ UNCHANGED <<world, logDir, pc, serverIps, listening>>

\* MakeWebRequest, and the address it was made from, once.
Probe ==
    /\ pc = "probe" /\ next <= Len(serverIps)
    /\ LET clientIp == ClientIp(serverIps[next])
       IN  /\ clientIp # None
           /\ validAddrs' = IF clientIp \in ToSet(validAddrs) THEN validAddrs
                            ELSE Append(validAddrs, clientIp)
    /\ GoOn
    /\ UNCHANGED <<world, logDir, pc, serverIps, listening>>

\* Mutant: the exception of MakeWebRequest is caught nowhere.
ProbeFails_Throws ==
    /\ pc = "probe" /\ next <= Len(serverIps)
    /\ ClientIp(serverIps[next]) = None
    /\ LogStatic
    /\ Exit("crashed")
    /\ UNCHANGED <<world, serverIps, validAddrs, listening>>

\* No connection (the exception is logged and thrown again), or no address.
ProbeFails ==
    /\ pc = "probe" /\ next <= Len(serverIps)
    /\ ClientIp(serverIps[next]) = None
    /\ LogStatic
    /\ IF LogThrows THEN Exit("crashed") ELSE GoOn /\ UNCHANGED pc
    /\ UNCHANGED <<world, serverIps, validAddrs, listening>>

ProbesDone ==
    /\ pc = "probe" /\ next > Len(serverIps)
    /\ pc' = "listen" /\ next' = 1
    /\ UNCHANGED <<world, logDir, serverIps, validAddrs, listening>>

\* The constructor of Listener6 binds, and RunServer does not return.
Listen ==
    /\ pc = "listen" /\ next <= Len(validAddrs)
    /\ validAddrs[next] \notin taken
    /\ listening' = Append(listening, validAddrs[next])
    /\ Exit("serving")
    /\ UNCHANGED <<world, logDir, serverIps, validAddrs>>

BindThrows ==
    /\ pc = "listen" /\ next <= Len(validAddrs)
    /\ validAddrs[next] \in taken
    /\ Exit("crashed")
    /\ UNCHANGED <<world, logDir, serverIps, validAddrs, listening>>

MainReturns ==
    /\ pc = "listen" /\ next > Len(validAddrs)
    /\ Exit("ended")
    /\ UNCHANGED <<world, logDir, serverIps, validAddrs, listening>>

\* An exception in RunServer or in a thread of its (Listener6!Crash).
ServerThrows ==
    /\ pc = "serving"
    /\ Exit("crashed")
    /\ UNCHANGED <<world, logDir, serverIps, validAddrs, listening>>

Main ==
    \/ LookUp \/ LookUpFails \/ LookUpsDone
    \/ Probe \/ ProbeFails \/ ProbesDone
    \/ Listen \/ BindThrows \/ MainReturns
Next == Main \/ ServerThrows

Spec == Init /\ [][Next]_vars /\ WF_vars(Main)

-----------------------------------------------------------------------------
(* Properties. *)

Answered(h) == dns[h] # None
Asked == (UNION {ToSet(dns[h]) : h \in {g \in ToSet(Hosts) : Answered(g)}}) \ {Loopback}
Reached == {s \in Asked : route[s] # None}

\* In the order of the look-ups, the first server that is reached.
IsFirst(s) ==
    \E i \in DOMAIN Hosts :
        LET h == Hosts[i]
        IN  /\ Answered(h)
            /\ \A j \in 1 .. i - 1 : Answered(Hosts[j]) => ToSet(dns[Hosts[j]]) \cap Reached = {}
            /\ \E k \in DOMAIN dns[h] :
                  /\ dns[h][k] = s /\ s \in Reached
                  /\ \A m \in 1 .. k - 1 : dns[h][m] \notin Reached

\* Why no server comes up: a host without an answer nobody looks after, an
\* error that cannot be logged, a machine or a network without a connection
\* that ends in an address, or a port that is taken.
NoStart ==
    \/ \E h \in ToSet(Hosts) \ Guarded : ~Answered(h)
    \/ LogThrows /\ ~((\A h \in ToSet(Hosts) : Answered(h)) /\ dual /\ Asked = Reached)
    \/ ~dual \/ Reached = {}
    \/ \E s \in Reached : IsFirst(s) /\ route[s] \in taken

\* The one address that is ever listened on is that from which the first
\* server reached was reached, whatever other addresses were found, and none
\* is where a reason not to start exists.
ServesFirstReached ==
    listening # <<>> =>
        /\ \E s \in Reached : IsFirst(s) /\ listening = <<route[s]>>
        /\ ~NoStart

\* Without a reason not to, the server comes up.
ComesUp == <>(NoStart \/ listening # <<>>)
=============================================================================

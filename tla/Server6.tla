------------------------------ MODULE Server6 ------------------------------
(***************************************************************************)
(* The cloning echo server of c-server6: server6.c, and server66.c, which  *)
(* is the same program with the waitpid loop commented out.  The parent    *)
(* accepts a connection into the global c_sd, hands it to a child made by  *)
(* clone(2), or by fork(2) when clone fails, sleeps a second, and          *)
(* (server6.c only) waits for that child.                                  *)
(*                                                                         *)
(* A connection is named by the client that opens it, and a child by the   *)
(* client it serves.  Descriptors are the connections they refer to, so    *)
(* a connection is closed when no process holds it.  Every byte a client   *)
(* sends is non-null: EchoConn treats the contents.                        *)
(***************************************************************************)
EXTENDS Integers, Sequences, FiniteSets

CONSTANTS
    Clients,    \* the clients; each opens at most one connection
    Reaps,      \* TRUE: server6.c (waits for its child); FALSE: server66.c
    MaxFds,     \* descriptors accept(2) may still allocate in the parent
    MaxProcs,   \* children, zombies included, the parent may have
    Backlog,    \* the second argument of listen(2)
    EchoLimit,  \* handle_client receives while it has echoed at most this much
    BufLen,     \* MSGBUFLEN: the most one recv(2) returns
    MaxSend,    \* bound of the model: bytes a client sends
    MaxStops,   \* bound of the model: times a child is stopped by a signal
    NoClient    \* c_sd before the first accept

ASSUME ServerAssumption ==
    /\ IsFiniteSet(Clients)
    /\ NoClient \notin Clients
    /\ Reaps \in BOOLEAN
    /\ {MaxFds, MaxProcs, BufLen} \subseteq Nat \ {0}
    /\ {Backlog, EchoLimit, MaxSend, MaxStops} \subseteq Nat

VARIABLES
    \* the parent
    pc,         \* where the parent is in main's loop
    c_sd,       \* global c_sd: the connection accepted last
    pfds,       \* connections the parent has a descriptor of
    \* the children
    child,      \* state of the process serving each client
    cloned,     \* clients whose child was made by clone, not by fork
    cfds,       \* connections each child has a descriptor of
    listens,    \* children with a descriptor of the listening socket s_sd
    stopped,    \* children stopped by a signal
    report,     \* a stop or continuation waitpid has yet to report
    stops,      \* number of stops so far
    \* the clients and the kernel
    queue,      \* connections accept has yet to return
    client,     \* state of each client's end
    sent,       \* bytes each client has sent
    total,      \* bytestotal of the child: bytes it has received and echoed
    \* fixed at start
    canClone,   \* the server may make UTS namespaces (CAP_SYS_ADMIN)
    ignoreChld  \* the server inherited SIGCHLD ignored

procVars == <<child, cloned, cfds, listens>>
sigVars  == <<stopped, report, stops>>
netVars  == <<queue, client, sent>>
envVars  == <<canClone, ignoreChld>>
vars == <<pc, c_sd, pfds, procVars, sigVars, netVars, total, envVars>>

ParentStates == {"accept", "clone", "fork", "close", "sleep", "wait", "exited"}
Live         == {"forked", "serving", "closing"}
Ended        == {"closing", "zombie", "reaped"}   \* left handle_client for good
ChildStates  == {"none"} \cup Live \cup Ended
ClientStates == {"idle", "open", "closed", "reset"}

TypeOK ==
    /\ pc \in ParentStates
    /\ c_sd \in Clients \cup {NoClient}
    /\ c_sd = NoClient => pc \in {"accept", "exited"}
    /\ pfds \in SUBSET Clients
    /\ child \in [Clients -> ChildStates]
    /\ cloned \in SUBSET Clients
    /\ cfds \in [Clients -> SUBSET Clients]
    /\ listens \in SUBSET Clients
    /\ stopped \in SUBSET Clients
    /\ report \in [Clients -> {"none", "stopped", "continued"}]
    /\ stops \in 0..MaxStops
    /\ queue \in Seq(Clients)
    /\ client \in [Clients -> ClientStates]
    /\ sent \in [Clients -> 0..MaxSend]
    /\ total \in [Clients -> 0..MaxSend]
    /\ \A c \in Clients : total[c] <= sent[c]
    /\ canClone \in BOOLEAN
    /\ ignoreChld \in BOOLEAN

Init ==
    /\ pc = "accept"
    /\ c_sd = NoClient
    /\ pfds = {}
    /\ child = [c \in Clients |-> "none"]
    /\ cloned = {}
    /\ cfds = [c \in Clients |-> {}]
    /\ listens = {}
    /\ stopped = {}
    /\ report = [c \in Clients |-> "none"]
    /\ stops = 0
    /\ queue = <<>>
    /\ client = [c \in Clients |-> "idle"]
    /\ sent = [c \in Clients |-> 0]
    /\ total = [c \in Clients |-> 0]
    /\ canClone \in BOOLEAN
    /\ ignoreChld \in BOOLEAN

-----------------------------------------------------------------------------
(* What the kernel keeps. *)

\* Connections waiting to be accepted.
Queued == {queue[i] : i \in DOMAIN queue}

\* Some process still has the listening socket open.
Listening == pc # "exited" \/ listens # {}

\* Processes the parent has: running ones and zombies.
Processes == {c \in Clients : child[c] \in Live \cup {"zombie"}}

\* Some process has a descriptor of c's connection.
Held(c) == c \in pfds \/ (\E d \in Clients : c \in cfds[d])

\* When the last listening descriptor goes, the waiting connections are reset.
ReleasePort(last) ==
    IF last
    THEN /\ queue' = <<>>
         /\ client' = [c \in Clients |-> IF c \in Queued THEN "reset" ELSE client[c]]
    ELSE UNCHANGED <<queue, client>>

-----------------------------------------------------------------------------
(* The parent: the loop of main. *)

\* close(s_sd), usemsg, exit: the kernel closes the rest and init reaps the zombies.
ExitServer ==
    /\ pc' = "exited"
    /\ pfds' = {}
    /\ child' = [c \in Clients |-> IF child[c] = "zombie" THEN "reaped" ELSE child[c]]
    /\ ReleasePort(listens = {})
    /\ UNCHANGED <<c_sd, cloned, cfds, listens, sigVars, sent, total, envVars>>

AcceptClient ==
    /\ pc = "accept"
    /\ Cardinality(pfds) < MaxFds
    /\ queue # <<>>
    /\ c_sd' = Head(queue)
    /\ queue' = Tail(queue)
    /\ pfds' = pfds \cup {Head(queue)}
    /\ pc' = "clone"
    /\ UNCHANGED <<procVars, sigVars, client, sent, total, envVars>>

\* accept allocates its descriptor before it waits: EMFILE needs no client.
AcceptFails ==
    /\ pc = "accept"
    /\ Cardinality(pfds) >= MaxFds
    /\ ExitServer

\* A new process has copies of all the parent's descriptors, s_sd included.
Spawn(state) ==
    /\ child' = [child EXCEPT ![c_sd] = state]
    /\ cfds' = [cfds EXCEPT ![c_sd] = pfds]
    /\ listens' = listens \cup {c_sd}

\* The cloned child runs childfunc at once; it closes neither s_sd nor the
\* descriptors of earlier clients, and the parent keeps c_sd.
CloneChild ==
    /\ pc = "clone"
    /\ canClone
    /\ Cardinality(Processes) < MaxProcs
    /\ Spawn("serving")
    /\ cloned' = cloned \cup {c_sd}
    /\ pc' = "sleep"
    /\ UNCHANGED <<c_sd, pfds, sigVars, netVars, total, envVars>>

CloneFails ==
    /\ pc = "clone"
    /\ ~canClone \/ Cardinality(Processes) >= MaxProcs
    /\ pc' = "fork"
    /\ UNCHANGED <<c_sd, pfds, procVars, sigVars, netVars, total, envVars>>

ForkChild ==
    /\ pc = "fork"
    /\ Cardinality(Processes) < MaxProcs
    /\ Spawn("forked")
    /\ pc' = "close"
    /\ UNCHANGED <<c_sd, pfds, cloned, sigVars, netVars, total, envVars>>

\* Mutant: a fork that succeeded is taken for one that failed.
ForkFails_SuccessAsFailure ==
    /\ pc = "fork"
    /\ ExitServer

ForkFails ==
    /\ pc = "fork"
    /\ Cardinality(Processes) >= MaxProcs
    /\ ExitServer

\* Mutant: main keeps its descriptor after fork as it does after clone.
CloseInParent_Forgotten ==
    /\ pc = "close"
    /\ pc' = "sleep"
    /\ UNCHANGED <<c_sd, pfds, procVars, sigVars, netVars, total, envVars>>

\* Only after fork does the parent close its descriptor of the connection.
CloseInParent ==
    /\ pc = "close"
    /\ pfds' = pfds \ {c_sd}
    /\ pc' = "sleep"
    /\ UNCHANGED <<c_sd, procVars, sigVars, netVars, total, envVars>>

\* sleep(1); server6.c goes on to its wait loop.
SleepThenWait ==
    /\ pc = "sleep" /\ Reaps
    /\ pc' = "wait"
    /\ UNCHANGED <<c_sd, pfds, procVars, sigVars, netVars, total, envVars>>

\* Mutant: server66.c waits for the child as server6.c does.
SleepThenAccept_Waits ==
    /\ pc = "sleep" /\ ~Reaps
    /\ child[c_sd] \notin Live
    /\ pc' = "accept"
    /\ UNCHANGED <<c_sd, pfds, procVars, sigVars, netVars, total, envVars>>

\* sleep(1); server66.c has the wait loop commented out.
SleepThenAccept ==
    /\ pc = "sleep" /\ ~Reaps
    /\ pc' = "accept"
    /\ UNCHANGED <<c_sd, pfds, procVars, sigVars, netVars, total, envVars>>

\* WIFEXITED or WIFSIGNALED: ++done leaves the loop.
WaitEnded ==
    /\ pc = "wait"
    /\ child[c_sd] = "zombie"
    /\ child' = [child EXCEPT ![c_sd] = "reaped"]
    /\ pc' = "accept"
    /\ UNCHANGED <<c_sd, pfds, cloned, cfds, listens, sigVars, netVars, total, envVars>>

\* Mutant: a stopped child counts as done.
WaitAgain_CountsAsDone ==
    /\ pc = "wait"
    /\ child[c_sd] \in Live
    /\ report[c_sd] # "none"
    /\ report' = [report EXCEPT ![c_sd] = "none"]
    /\ pc' = "accept"
    /\ UNCHANGED <<c_sd, pfds, procVars, stopped, stops, netVars, total, envVars>>

\* WIFSTOPPED or WIFCONTINUED: done stays 0 and the parent waits again.
WaitAgain ==
    /\ pc = "wait"
    /\ child[c_sd] \in Live
    /\ report[c_sd] # "none"
    /\ report' = [report EXCEPT ![c_sd] = "none"]
    /\ UNCHANGED <<pc, c_sd, pfds, procVars, stopped, stops, netVars, total, envVars>>

\* Mutant: a report that is no end is taken for a failure of waitpid.
WaitFails_OnReport ==
    /\ pc = "wait"
    /\ child[c_sd] = "reaped" \/ report[c_sd] # "none"
    /\ ExitServer

\* With SIGCHLD ignored the kernel reaps the child: waitpid returns -1.
WaitFails ==
    /\ pc = "wait"
    /\ child[c_sd] = "reaped"
    /\ ExitServer

Parent ==
    \/ AcceptClient \/ AcceptFails
    \/ CloneChild \/ CloneFails
    \/ ForkChild \/ ForkFails \/ CloseInParent
    \/ SleepThenWait \/ SleepThenAccept
    \/ WaitEnded \/ WaitAgain \/ WaitFails

-----------------------------------------------------------------------------
(* A child: childfunc and handle_client. *)

Running(c, state) == child[c] = state /\ c \notin stopped

\* The end of a process: its descriptors are closed, and its parent, or the
\* kernel in its place, takes the status.
EndChild(c) ==
    /\ child' = [child EXCEPT ![c] = IF ignoreChld \/ pc = "exited"
                                     THEN "reaped" ELSE "zombie"]
    /\ cfds' = [cfds EXCEPT ![c] = {}]
    /\ listens' = listens \ {c}
    /\ ReleasePort(pc = "exited" /\ c \in listens /\ listens' = {})
    /\ UNCHANGED <<pc, c_sd, pfds, cloned, sigVars, sent, total, envVars>>

\* The forked child closes s_sd before it calls childfunc.
CloseListener(c) ==
    /\ Running(c, "forked")
    /\ child' = [child EXCEPT ![c] = "serving"]
    /\ listens' = listens \ {c}
    /\ ReleasePort(pc = "exited" /\ listens' = {})
    /\ UNCHANGED <<pc, c_sd, pfds, cloned, cfds, sigVars, sent, total, envVars>>

\* Mutant: bytestotal grows by the size of the buffer, not of its contents.
EchoRound_CountsBuffer(c) ==
    /\ Running(c, "serving")
    /\ total[c] <= EchoLimit
    /\ total[c] < sent[c]
    /\ total' = [total EXCEPT ![c] = @ + BufLen]
    /\ UNCHANGED <<pc, c_sd, pfds, procVars, sigVars, netVars, envVars>>

\* One round of handle_client: recv returns n of the bytes that have
\* arrived, send echoes them.  A connection reset since is noticed later.
EchoRound(c) ==
    /\ Running(c, "serving")
    /\ total[c] <= EchoLimit
    /\ \E n \in 1..BufLen :
          /\ total[c] + n <= sent[c]
          /\ total' = [total EXCEPT ![c] = @ + n]
    /\ UNCHANGED <<pc, c_sd, pfds, procVars, sigVars, netVars, envVars>>

\* Mutant: no break when recv returns 0.
AtEof_Ignored(c) == client[c] = "reset"

\* recv returns 0: all was read, and the client closed its end or the reset
\* was already reported to a send.
AtEof(c) ==
    \/ client[c] = "closed" /\ total[c] = sent[c]
    \/ client[c] = "reset"

\* Mutant: childfunc does not close c_sd.
LeaveHandler_KeepsSocket(c) ==
    /\ Running(c, "serving")
    /\ total[c] > EchoLimit \/ AtEof(c)
    /\ child' = [child EXCEPT ![c] = "closing"]
    /\ UNCHANGED <<pc, c_sd, pfds, cloned, cfds, listens, sigVars, netVars, total, envVars>>

\* handle_client returns and childfunc closes c_sd; sleep(1) follows.
LeaveHandler(c) ==
    /\ Running(c, "serving")
    /\ total[c] > EchoLimit \/ AtEof(c)
    /\ child' = [child EXCEPT ![c] = "closing"]
    /\ cfds' = [cfds EXCEPT ![c] = @ \ {c}]
    /\ UNCHANGED <<pc, c_sd, pfds, cloned, listens, sigVars, netVars, total, envVars>>

\* recv reports the reset with -1; the send that follows raises SIGPIPE.
KilledBySend(c) ==
    /\ Running(c, "serving")
    /\ total[c] <= EchoLimit
    /\ client[c] = "reset"
    /\ EndChild(c)

ExitChild(c) ==
    /\ Running(c, "closing")
    /\ EndChild(c)

Child(c) ==
    \/ CloseListener(c) \/ EchoRound(c) \/ LeaveHandler(c)
    \/ KilledBySend(c) \/ ExitChild(c)

-----------------------------------------------------------------------------
(* Clients, and signals from outside. *)

\* The kernel completes the connection while the accept queue has room.
Connect(c) ==
    /\ client[c] = "idle"
    /\ Listening
    /\ Len(queue) <= Backlog
    /\ client' = [client EXCEPT ![c] = "open"]
    /\ queue' = Append(queue, c)
    /\ UNCHANGED <<pc, c_sd, pfds, procVars, sigVars, sent, total, envVars>>

Send(c) ==
    /\ client[c] = "open"
    /\ sent[c] < MaxSend
    /\ sent' = [sent EXCEPT ![c] = @ + 1]
    /\ UNCHANGED <<pc, c_sd, pfds, procVars, sigVars, queue, client, total, envVars>>

Close(c) ==
    /\ client[c] = "open"
    /\ client' = [client EXCEPT ![c] = "closed"]
    /\ UNCHANGED <<pc, c_sd, pfds, procVars, sigVars, queue, sent, total, envVars>>

\* An abort, or the answer of a closed end to bytes echoed to it.
Reset(c) ==
    /\ client[c] = "open" \/ (client[c] = "closed" /\ total[c] > 0)
    /\ client' = [client EXCEPT ![c] = "reset"]
    /\ UNCHANGED <<pc, c_sd, pfds, procVars, sigVars, queue, sent, total, envVars>>

Stop(c) ==
    /\ child[c] \in Live /\ c \notin stopped
    /\ stops < MaxStops
    /\ stops' = stops + 1
    /\ stopped' = stopped \cup {c}
    /\ report' = [report EXCEPT ![c] = "stopped"]
    /\ UNCHANGED <<pc, c_sd, pfds, procVars, netVars, total, envVars>>

Continue(c) ==
    /\ c \in stopped
    /\ stopped' = stopped \ {c}
    /\ report' = [report EXCEPT ![c] = "continued"]
    /\ UNCHANGED <<pc, c_sd, pfds, procVars, stops, netVars, total, envVars>>

Environment(c) ==
    Connect(c) \/ Send(c) \/ Close(c) \/ Reset(c) \/ Stop(c) \/ Continue(c)

Next == Parent \/ \E c \in Clients : Child(c) \/ Environment(c)

Spec == Init /\ [][Next]_vars

\* The scheduler runs every process that can run.
FairSpec ==
    /\ Spec
    /\ WF_vars(Parent)
    /\ \A c \in Clients : WF_vars(Child(c))

\* Besides, clients hang up in the end, and stopped children are continued.
CooperativeSpec ==
    /\ FairSpec
    /\ \A c \in Clients : WF_vars(Close(c)) /\ WF_vars(Continue(c))

-----------------------------------------------------------------------------
(* Safety. *)

\* server6.c serves one client at a time: whenever main is back at accept (and
\* until it has cloned or forked) every earlier child has been waited for, and
\* at no time are there two children, zombies included.
OneChildAtATime ==
    Reaps => /\ pc \in {"accept", "clone", "fork"} => Processes = {}
             /\ \A c, d \in Processes : c = d

\* The descriptors main keeps are the ones of every client it ever cloned a
\* child for (the success path of clone has no close) and nothing else: the
\* fork path gives its descriptor back.
DescriptorAccount ==
    pc # "exited" =>
        pfds = cloned \cup (IF pc \in {"clone", "fork", "close"} THEN {c_sd} ELSE {})

\* A client served by a forked child sees its connection closed as soon as
\* that child has closed c_sd and main has: no other child inherits it.
ForkedReleased ==
    \A c \in Clients :
        c \notin cloned /\ child[c] \in Ended /\ Held(c) => pc = "close" /\ c_sd = c

\* Whichever of its ways out of the loop server6.c takes (server6.c:202, 228,
\* 258), it leaves nothing behind: no child, which might hold the port or a
\* connection, and no client waiting to be accepted by nobody.
CleanExit ==
    Reaps /\ pc = "exited" =>
        /\ Processes = {} /\ ~Listening
        /\ \A c \in Clients : ~Held(c) /\ c \notin Queued

\* The server gives up only because cloning has leaked every descriptor, or
\* because it does not wait and its children used up the process limit, or
\* because it waits where SIGCHLD is ignored.
ExitCause ==
    pc = "exited" =>
        \/ Cardinality(cloned) >= MaxFds
        \/ ~Reaps /\ Cardinality({c \in Clients : child[c] # "none"}) >= MaxProcs
        \/ Reaps /\ ignoreChld

\* "server runs forever" (the comment of main's accept loop), where SIGCHLD has
\* its default disposition.
RunsForever == ~ignoreChld => pc # "exited"

-----------------------------------------------------------------------------
(* Liveness. *)

\* A waiting connection is accepted, or reset with the port, or the server exits.
QueueDrains ==
    \A c \in Clients : c \in Queued ~> (c \notin Queued \/ pc = "exited")

\* server66.c exits while children still have the listening socket, which a
\* cloned child never closes.  Once their clients have hung up, the port is free.
PortFreed ==
    (pc = "exited" /\ \A c \in listens : client[c] \in {"closed", "reset"}) ~> ~Listening

\* Every child leaves handle_client.
ChildrenEnd == \A c \in Clients : child[c] = "serving" ~> child[c] \in Ended
=============================================================================

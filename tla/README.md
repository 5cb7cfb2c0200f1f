# A TLA+ verification of cloning-ipv6-server

This directory models the echo servers and clients of the repository, the start-up of
the C# server, and the text codecs and ciphers beside it, and says what holds of them.
TLC checks small instances; TLAPS proves the safety properties of every part for all
values of the constants, one of them under an assumption on the bytes.  `PROJECT.json`
lists the runs, the source lines behind each definition, and one mutant per property: a
plausible bug that makes the property fail.

## 1. The system

| part | source | state it keeps | operations | who it meets |
|---|---|---|---|---|
| cloning echo server | `c-server6/server6.c`, `server66.c` | global `c_sd`, `done`, the listening socket, its children | accept, clone(2) or fork(2), sleep, waitpid loop, exit | clients over TCP, children through descriptors and SIGCHLD |
| one connection of it | `handle_client` in both | `buf`, `bytestotal`, the socket | recv, send of `strlen(buf)`, leave | the client |
| C client | `c-server6/client6.c` | `outmsg`, `inbuf`, `outbuf` | connect, ping (one send, one recv), close | any of the servers |
| C# listener | `CSharp-Server6/*/Listener6.cs` | fields `clientSocket`, `clientIEP`, `data`, one thread per request | RunServer, HandleClientRequest | clients; its own threads through the fields |
| C# start-up | `Program.cs`, `Framework/Net/*` | lists of addresses | look up, probe, construct a listener and run it | DNS, web servers, Listener6 |
| Java server, client | `java-server6/Echo*.java` | static addresses and port, one acceptor thread per address | accept, receiveIn, sendOut, System.exit | clients; the two threads through statics and the process |
| codecs | `Framework/EnDeCoding`, `Extensions.cs` | none | base 16, 32, 64, uu, trimming | ciphers, callers |
| ZenMatrix cipher | `SymCipher/Algo/ZenMatrix.cs` | static permutation, its reverse, key | generate, encrypt, decrypt | Crypt |
| other ciphers, front end | `SymCipher` | static keys and initial vectors per algorithm | GenWithKey, Encrypt, Decrypt, Crypt.EncryptBytes | BouncyCastle |
| logging, paths, resources | `Area23Log.cs`, `LibPaths.cs`, `ResReader.cs` | lazy singletons, cached paths | log, path getters | file system |
| vendored kernel crypto | `c-server6/kernel-crypto` | - | - | not built by any Makefile here |
| Swing frames | `java-server6/Img` | widgets | show pictures | nothing above |

What is hard, and what each part must get right:

* **Cloning server.** Two processes share each connection and each has copies of
  *all* the parent's descriptors; who still holds what decides when a client sees
  the end and when the port is free.  Children end, stop and continue while the
  parent sleeps or waits.  Descriptors and processes run out.  It should serve one
  client at a time (`server6.c`), go on serving, and leave nothing behind where it exits.
* **One connection.** recv cuts the stream anywhere; a null byte or a full buffer
  changes what strlen says; a reset shows as -1, as SIGPIPE or as end of file
  depending on the order.  It should echo all, in order, and hang up for a reason.
* **C# listener.** Handler threads read the shared field `clientSocket` at every
  use while RunServer overwrites it every half second.  Each client should get its
  own answer; a thread's exception ends the process.
* **Java server.** Two acceptors share statics and `System.exit`.
* **Ciphers.** Keys are static: an encryption between another's key set-up and its
  decryption uses the wrong key, and a decryption with AES may put an old key back over
  a newer one.  Decryption should undo encryption.
* **C client.** One recv for an echo that may come in pieces; buffers nobody
  terminates.
* **Codecs.** Bit packing at incomplete groups, in an int that overflows; trimming at
  the last byte.
* **C# start-up.** Four look-ups and any number of probes of which each may fail, two
  of them outside a try block, and a log that may fail too.

## 2. What is modelled now

`EchoService` is abstract; the others follow the code.

### Server6: the server's processes

| in the model | in `server6.c` (unless noted) |
|---|---|
| `pc` | where main is: "accept" 198, "clone" 222, "fork" 226, "close" 240, "sleep" 249, "wait" 251 |
| `c_sd`, `pfds` | the global, and the connections the parent has a descriptor of |
| `child`, `cfds`, `listens`, `cloned` | each child's state, its copies of descriptors, whether it has `s_sd`, whether clone or fork made it |
| `stopped`, `report`, `stops` | job control as waitpid with WUNTRACED and WCONTINUED reports it |
| `queue`, `client`, `sent` | the kernel's accept queue, the clients' ends, bytes sent |
| `total` | `bytestotal` of `handle_client` |
| `canClone`, `ignoreChld` | fixed at start: may the server make UTS namespaces; was SIGCHLD inherited ignored |
| `AcceptClient`, `AcceptFails` | 198-204; accept takes its descriptor before it waits, so with none left it fails although no client is there |
| `CloneChild`, `CloneFails` | 222-225; the child runs `childfunc` at once and closes nothing; main keeps `c_sd` |
| `ForkChild`, `ForkFails`, `CloseInParent`, `CloseListener` | 226-243 |
| `SleepThenWait`, `WaitEnded`, `WaitAgain`, `WaitFails` | 249-276 |
| `SleepThenAccept` | `server66.c`, whose wait loop is a comment |
| `EchoRound`, `LeaveHandler`, `KilledBySend`, `ExitChild` | 88-108 and 55-80 |
| `Connect`, `Send`, `Close` | a client, such as `client6.c` 98, 43, 116 |
| `Reset`, `Stop`, `Continue` | what the network and signals may do |

`Reaps` chooses the program: TRUE is `server6.c`, FALSE is `server66.c`; the two
differ in nothing else that changes state.  A connection is named by its client and
stands for the open file description, so it is closed when nobody has it in `pfds`
or `cfds` (`Held`).

Kernel facts the model uses: clone without CLONE_FILES or CLONE_VM copies
descriptors and memory (so the child's `c_sd` is not overwritten by the next
accept); clone fails without the capability or at the process limit, fork at the
limit; when the last descriptor of a listening socket goes, queued connections are
reset; with SIGCHLD ignored children are reaped at once and waitpid fails; init
reaps the children of a parent that exited; received bytes can still be read after
a reset, after which recv returns -1 once and the next send raises SIGPIPE, or a
send notices first and recv returns 0.

### EchoConn: one connection, and EchoService: what it promises

`EchoConn` follows `handle_client` 88-108: `RecvBytes`, `RecvError`, `RecvEof` are
the three results of recv, `SendString` the send of `strlen(buf)` bytes with the
counting behind it, `SendKilled` SIGPIPE, `LeaveLoop` the condition on
`bytestotal`.  `CStrings` is strlen: up to the first null among the bytes received
or the zeroes the code wrote before recv.  A full buffer without null is undefined
behaviour; the outcome is a choice among `Junk`, what may lie on the stack behind
it.  Send never blocks for ever and never sends a part.

`EchoService` says what an echo server promises on a connection: what it says is a
prefix of what it hears, it goes on until all is said, and it hangs up only past the
limit, on a reset, or when a closed client has been answered in full.  `EchoConn`
instantiates it as `Service` with `hungUp <- pc = "left"`, and `EchoesAsPromised`
is the refinement.

### Listener6: the C# listener

One action per access to shared state.  `clientSocket.RemoteEndPoint` and the
assignment to `clientIEP` (67) are `ReadEndPoint` and `SetIEP`; the call of Receive
(69) is `CallReceive`, which picks the socket, and `Receive`, which waits on it;
then `CopyData` (70), `MakeString` (71), `Compose` (73), `SendReply` (76) and
`CloseSocket` (77).  RunServer is `Accept`, `Announce`, `StartThread`, `WakeUp`
(49-53).  An exception in any thread is `Crash`: nothing catches it, so the process
ends.  `Thread.Sleep(500)` is a step of its own, over before or after the handler
is: the model knows no speeds.  A message stands for its bytes, so the torn copy of
two overlapping `Array.Copy` calls is not told apart from a clean one, and the whole
message is received at once.

`Connect` of this module is external except for the backlog of `GetTcpServer`.

### JavaEcho: the Java server and its client

A thread of `EchoServer.run` is `Start` (saddress, 96), `Accept` (106-114), `Fill` and
`ReceiveEnd` (`receiveIn`), `SendReply` (`sendOut`) and `CloseSocket`.  `Fill` is one
read of the BufferedInputStream, whose buffer is as long as MAXCHARS, and what
`receiveIn` takes from it; what it leaves there is gone.  `ReceiveEnd` is end of file
or the exception that `receiveIn` swallows.  `AcceptFails` is `System.exit` (138), which
ends both threads.  CR and LF are one token, characters another, and an answer stands
for the number of characters it quotes.  `WriteOut` and `ReadIn` are EchoClient's; its
message counts as sent at once, so that what has yet to arrive when the server closes
is unread, and the kernel resets the connection in either case.

### PingClient: client6.c and the handler that serves it

`Words` is the loop over argv (80-87): `Glue` copies words until one would fill
`outmsg`, whose end nothing terminates, so that the string goes on with `Junk`, what
may lie on the stack.  `Connect`, `SendLine`, `Recv`, `PrintReply`, `Close` are the
calls of main and ping; `SprintfOverruns` (41) and `StrncpyOverruns` (46) are the
outcomes of the writes past an array that end the process.  `OutStrings` is what C takes
`outbuf` for after the one recv.  The connection and the handler are `EchoConn`,
instantiated as `Server` with this client in place of the arbitrary one; `Kill` is a
signal to the server's process, `Refuse` the kernel's answer to an echo that comes too
late.

### ZenMatrix and Crypt: the ciphers and their static keys

`ZenMatrix` computes the permutation cipher: `Turn` is one turn of the loop of
`ZenMatrixGenWithKey`, `Permute` the loop, `BuildReveseMatrix` the reverse, `ProcessBytes`
the two process functions, `Process` padding and blocks, `TrimEnd` the trimming.  `N` is
16 in the code.  `PermKeyHash` starts with all indices, as `InitMatrixSymChiffer` leaves
it, and with that no key moves the permutation.

`Crypt` is `Crypt.EncryptBytes` and `DecryptBytes` with several callers over one static
class.  The steps of `GenWithKey` are actions: `SetName`, `SetHash`, `Derive` (or
`DeriveThrows`), `Blank`, `Copy`, `ReadKey`, `SetSecond`, and `Check` where `init` is
false; `ConstructBounceCastle` is the constructor of the other way.  Each assigns one
static field, and where an assignment reads another field, as `AesAlgo.Key = AesKey`
(Aes.cs:108) and `MatrixReverse = BuildReveseMatrix(MatrixPermKey)` (ZenMatrix.cs:116) do,
reading and assigning are two actions, `ReadKey` and `SetSecond`.  Aes.cs:108 stands
outside the init block: a decryption does it too, and so counts among the calls that set
fields (`Sets`), though not among those that renew the key (`Renews`).  What stays one step
is: the filling of an array that nobody else has been given (`Copy`; the loop over the
key's bytes together with it), `InitMatrixSymChiffer` behind its new array with the reading
of the two strings (`Derive`), a key with its vector, and the fields the cipher reads.
These can be told from finer steps only where set-ups overlap, and such ones count as
`mixed`, of which no property says more than types.  `ReadKey` takes the array's bytes with
its reference; in the code they may be filled in until they are assigned, which reading
later amounts to.

Two kinds of overlap came out of the split.  An AES decryption that reads `AesKey`, is
overtaken by an encryption and then assigns `AesAlgo.Key` leaves the old key under the new
name.  And two overlapping set-ups of ZenMatrix may leave a reverse made from an array the
other had not filled yet, so that ZenMatrix too decrypts for certain only while the fields
are not mixed, although its key moves nothing.

`Encrypt`, `Decrypt` and `CipherThrows` use the fields, `Restart` sets them back
while a ciphertext (`parcel`) is kept.  The order of these steps differs between the
classes as it does in the code; `algo` says which class it is.  A block cipher of
BouncyCastle or .NET is external: the key that encrypted decrypts, and another key gives
nothing.  3DES refuses weak keys, AES and ZenMatrix an empty array (`Refused`).  `alone`,
`mixed`, `named` and `keyed` are history
variables: they record which calls overlapped, and never guard a step of the code but
one: a ciphertext made while calls overlapped is not kept.  `Nobody` is what they hold
where nobody's arguments are; its hash is `NoHash`, which no caller has, so that a call
with neither secret nor hash is told from no call.

### Codecs: base 16, base 32, uu and the helpers on bytes

Operators only, each computing what the method computes, over an input that grows to
`MaxLen`.  A loop is a left fold of its turn (`DecodeTurn`, `EncodeTurn`, `ScanTurn`) over
what it runs through, with its local variables in a record; the loop of `ToBase32` has no
count of its own, and `EncodeTurn` leaves the record alone once its condition is false.
The bit buffer of Base32 is an int of `IntBits` bits that wraps (`ShiftIn`); `CharToInt`
takes any letter; `Trim()` takes all white space (`White`, what `char.IsWhiteSpace` accepts up
to 255: tab to carriage return, space, next line and the no-break space); `FromHex16` throws
where the code does; uu is the library's encoder (external) around `ASCII` or base 16.
`BytesBytes` is the search with its early end and its one byte more than `matchBytes`,
`Trim_Decrypted_Text` the removal of control characters with its condition on the index:
`RemoveInside` takes away all of one character (`Drop`) unless the text begins with it.

### Startup: the C# server up to its accept loop

What the network answers (`dns`, `route`), whether the machine makes dual mode sockets,
which ports are taken and whether the log directory can be made are chosen in Init and
stay.  `LookUp` and `LookUpFails` are the four look-ups, of which `Guarded` ones are in a
try block, and `AddServer` what an address of an answer adds to the list; `Probe` and `ProbeFails` `MakeWebRequest` and the parsing of its local end
point; `Listen`, `BindThrows`, `MainReturns` the loop of `Program.Main`, which
`RunServer` never returns to.  `LogStatic` makes the directory, and throws where it may
not, which no try block is around; the repository's image runs as USER app below a root
owned /app, so this is a state the program is started in.

## 3. The runs

| run | what it checks | shows |
|---|---|---|
| `server6` | 2 clients, one child, 2 descriptors, 1 stop | `OneChildAtATime`, `DescriptorAccount`, `ForkedReleased`, `CleanExit`, `ExitCause`: one child at a time, and when `server6.c` exits, for whatever reason, no process, no connection and nothing on the port is left behind; `QueueDrains`, `ChildrenEnd` for clients that hang up in the end |
| `server66` | 3 clients, 2 children, no waiting | why the server exits with concurrent children and zombies; waiting connections are accepted whatever clients do; the port of a server that exited is free when the clients of its remaining children have hung up |
| `server6_forever` | 3 clients, 2 descriptors | violation: after two cloned clients accept fails and the server exits, where the comment at line 192 says it "runs forever" |
| `listener6` | 2 clients, backlog 1 | a client whose thread met no other is answered right; an answer lands on the thread's own connection or a later one; crashes and leaks need an overlap or a reset; the queue drains |
| `echoconn` | 2 byte values, 5 bytes, limit 2 | `handle_client` implements `EchoService`, liveness included; all received is echoed |
| `echoraw` | a byte and null, 7 bytes, buffer 3, limit 3 | nothing is invented without an overrun; all before the first null is echoed; a client that goes is left |
| `client6` | buffer 5, limit 2, five argument lists | ping prints the beginning of its own line, whatever pieces it comes in; both programs end, also after a kill or an overrun |
| `javaecho` | 2 addresses, EchoClient and a client that hangs up on one, a silent one on the other | an answer quotes the client's first line up to the limit; EchoClient misses its answer only if the process exits or the server closed with bytes unread; a silent client holds its own address only |
| `crypt` | 2 callers, six algorithms, five pairs of secret and hash, one restart | whose key and name the static fields hold; a decryption gives its own plain bytes back if the key is set up again, if no key matters (with ZenMatrix: and no set-ups overlapped), or if the fields still hold it; when the result of `GenWithKey` misleads |
| `codec` | all inputs up to 5 members | every decoder undoes its encoder; base 32 is the groups of five bits; every character of an accepted text is a digit, another letter, white space at an end or padding; where the search finds; which control characters stay |
| `comments` | the same inputs | violation: a byte array about which four comments are wrong at once. `BytesBytes` misses a needle at the very end of the hayStack (first occurrence, as of `strstr`, Extensions.cs:177) and compares one byte more than "the only first matchBytes of needle" (:182); `Trim_Decrypted_Text` keeps a control that a null before it made the first character ("removes all", DeEnCoder.cs:109); `GetBytesTrimNulls` takes the last byte that is not null too ("truncate all 0 byte at the end", :88). The property is that one of the four holds, so that one counterexample refutes each |
| `startup` | 4 hosts, 2 servers, 2 local addresses, 3 answers, all failures | the address that is served is the one the first server reached is reached from; the server comes up unless one of the named reasons is there |

**Bounds.** `MaxFds`, `MaxProcs`, `Backlog`, `EchoLimit`, `BufLen` are the code's and
the system's limits made small enough to be reached: two descriptors run out within
two clients, one process is one child more than `server6.c` may have at once, and an
echo limit of 1 with a buffer of 2 lets a round end below, at and above the limit.
`MaxSend` (`MaxBytes`) bounds a client's bytes: just above the limit, since nothing
changes for bytes past it.  `MaxStops` bounds stops by signals: one stop gives both
kinds of report.  In `server66` the three clients connect in a fixed order
(`CONSTRAINT InOrder`): they differ by name only, so this leaves out renamings of what is
explored, and unlike symmetry it is sound for liveness.  The state constraint stops TLC
at a state where the order is broken, and no behaviour in the order passes through one.
In `echoconn` the buffer is longer than the whole message, as 8192
is longer than a line; in `echoraw` it is shorter, so that it fills.  In `listener6`
two threads are enough for every hazard listed, all of which are between two uses of
a field and one overwriting.  Two clients also bound `QueueDrains`: a wait for a
position further back adds accept steps and no new kind of step.
In `javaecho` a buffer of 2 meets messages of 0 to 3 characters (`MaxMessage`), so that
a line ends before, at and behind it; another client sends one character (`MaxRaw`).
In `client6` the arguments of `SomeArguments` leave room in `outmsg`, fill it exactly,
and are cut; the stack holds a zero or up to two bytes before one, which is enough to
overrun each array.  In `crypt` `N` is 3 instead of 16 and `KeyLen` 3 instead of 24 or 32,
a multiple of three for the thirds of a 3DES key; `SomeArguments` has the same secret in
both letter cases, with a null hash, no secret, and one as long
as a key; the callers are
symmetric (the run has invariants only); `MaxRestarts` is 1, since a second restart finds
what the first does.  Rijndael and Serpent follow the same lines as 2FISH and are left
out of the run's `Algos`, not of the model.  In `codec` five bytes are a whole
group of eight digits; `IntBits` is 16 where the code has 32, because TLC computes with
32 bits itself: the buffer overflows all the more, and the proofs are for both.  In `startup` two servers and two local
addresses can agree and differ, and the answer `Loopback` is one that is left out.

**Deadlock** is not checked: a server whose clients have all come and gone waits in
accept, as it should, and the other programs and the inputs of `codec` come to an end.

**Fairness.** `FairSpec` of Server6 and Listener6 gives weak fairness to each
process or thread, as a scheduler does; nothing is assumed of clients.
`CooperativeSpec` (run `server6` only) adds that every client closes in the end and
every stopped child is continued: `server6.c` really does wait for a silent client
for ever.  `Spec` of JavaEcho has the same for each thread, for EchoClient, which never pauses by
itself, and for the clients of `Cooperative`, which hang up in the end; the silent one
is not among them.  In EchoConn and PingClient a reset that was sent also arrives; a lost one would leave
recv waiting, as the code sets no timeout.  PingClient's two processes, and Main of
Startup, are scheduled (look-ups and connection attempts end, one way or the other).

## 4. What is proved

Every theorem is for all constants that satisfy the module's assumption on them, and
assumes nothing else but where a further one (`Plain`) is named.  The assumptions say what
the code fixes (limits are natural numbers, a connection needs a client) and, in
`PingAssumption`, one bound of the model: what lies behind a buffer on the stack is, with two
bytes more, no longer than two buffers, so that `3 * BufLen` bounds the line that is sent.

### FoldProofs

A loop over data is a `FoldLeft` in the models.  The library's induction theorems take a
predicate as a parameter, which the provers cannot instantiate; `Counting` and `Appending`
are induction over numbers and over sequences stated for *sets*, from the well-foundedness of
`Nat`.  With them `FoldEmpty`, `FoldAppend` and `FoldType` say of a left fold with any
operator, a constant of the module, what one element more does and which sets it stays in;
`FoldSteps` is the rule for a loop invariant that counts: a fold that starts in the set
`I[0]` and whose turn leads from `I[i]` to `I[i + 1]` ends in `I[Len(seq)]`.  `Smallest` says
that a set of numbers has a least one.  CryptProofs, PingClientProofs and FrameworkProofs
each instantiate the module with the operators of their loops.

### Server6Proofs

From `ServerAssumption` (finitely many clients; limits that are natural numbers, where
the code needs it positive):

* `TypeCorrect`: `Spec => []TypeOK`;
* `OneChild`, `DescriptorsAccounted`, `ForkReleases`, `NothingLeftBehind`,
  `ExitExplained`: the five safety properties of run `server6`, for either value of
  `Reaps`, that is for `server66.c` as well.

They follow from `Inductive`, the invariance of `IInv`, whose parts are

* `WaitInv`: for `server6.c`, every child but the one of `c_sd` is reaped, that one
  is too while main is at accept, and it is reaped under a parent's wait only where
  SIGCHLD is ignored.  Without the last part `WaitFails` would have no cause;
* `FreshInv`: queue, accepted and served clients are distinct, so that a spawn never
  meets a client that has a child already;
* `DescriptorInv`: what a child's descriptors may be beside its own connection, and
  `DescriptorAccount`.  `ForkedReleased` is not inductive without it, since a
  connection could be inherited by a child spawned later;
* `CleanInv`, of which `CleanExit` is a part: only a running child holds a connection or the
  port (`HoldersInv`), so that an exit, at which `WaitInv` says there is none, leaves nothing;
* `ExitCause`, inductive given the others.

Each part has a lemma per group of actions (the parent's, and all others).

### EchoConnProofs

From `ConnAssumption`: `ConnTypeCorrect`, and `NulIsTheLimit`, which is
`EchoedUpToNul` for any bytes, buffer and junk: what came before the first null has been
echoed when the server receives again.  Its invariant `UpToNul` follows a piece from recv to
send: what was received before the piece in the buffer is `Echoed`, all of it if no null is
among it (`Clean`) and else up to the first null, which no later piece can undo because what
is said only grows; `EchoedUpToNul` by itself does not say where the piece in the buffer
belongs.

`SaysNothingOfItsOwn` is `NothingInvented`, again for any bytes, buffer and junk.  Its invariant
`Traced` gives each byte that was said a place of its own in what was received, in order
(`SaidWithin`) and before the piece in the buffer, which is the last that was received.  The
places are what makes it inductive: that what was said is a subsequence of what was received
would not say where the next piece may go on.

Under `Plain` (null is no byte a client sends, and all a client sends is shorter than
the buffer)

* `EchoesPlainBytes`: `EchoConn` implements the initial states and the next-state
  relation of `EchoService`, however recv cuts the stream;
* `PlainEchoesAll`: all that was received has been echoed whenever the server waits
  in recv.

Both rest on `Joined`: what was said is the beginning of what was heard, and on a
socket that is up, what was said and what is in the buffer join to what was
received, with `bytestotal` counting it.  `EchoesAsPromised` alone is not enough of
an invariant, because recv and send are two steps and the buffer is between them.

### Listener6Proofs

From `ListenerAssumption`: `TypeCorrect`, `AloneIsRight`, `ForwardOnly`, `CrashExplained` and
`LeakExplained`, the five invariants of run `listener6`, for any number of clients.
`IInv` has, beside types,

* `OrderInv`: a connection is queued and accepted once, and the shared field holds the
  last one accepted;
* `StartInv`: every accepted connection has its thread, but for the one RunServer is at;
* `OverlapInv`: a thread whose connection is not in the field is recorded as having
  overlapped with another, and so is one whose socket or message is another's.  This is
  what lets a thread that met no other conclude that every read of `clientSocket` gave
  its own connection;
* `ForwardInv`: every reply on a connection is by its own thread or that of an earlier
  one;
* `AloneInv`: what each local and shared field holds at each step of a thread that met
  no other;
* `CrashCause`.

`AloneServedRight` alone says something of the end of a handler only; `AloneInv` is its
strengthening to every step before.

### JavaEchoProofs

From `JavaAssumption`: `JavaTypeCorrect`, `QuotesTheLine` and `LessExplained`, the three
invariants of run `javaecho`, for any addresses, clients, backlog and buffer.  The module
first proves what `LineEnd` and `LineLength` are for any sequence, and that one token
more shortens no line.  `IInv` has, beside types,

* `QueueInv`, `ServingInv`, `FreshInv`: a connection is in one queue or in one thread, the
  one of its address, and untouched before.  Without it two threads could read the
  same stream;
* `ReceiveInv`: while receiveIn reads on, it has appended all that was read, less than
  the limit and without a line end;
* `AnswerInv`: an answer is `Settled`: it is the first line, cut, and nothing the client
  may still send changes that.  `AnswersTheLine` is not inductive: a client that goes on
  sending could lengthen the line an answer was made from;
* `ResetInv`: a connection is reset when the process ends or with bytes unread.

### CryptProofs: ZenMatrix

From `ZenAssumption`, for every `N`: `TurnPermutes` (a byte of the key turns a permutation
into one), `TurnIsIdle` (and leaves it as it is, as `PermKeyHash` starts full),
`KeyMovesNothing` (so does the whole loop, whatever the key: everybody has the same matrix),
`ReverseInverts` (the reverse matrix is the inverse), `BlockRoundTrip` (a block processed
with a permutation and then its reverse is the block) and `DecryptUndoesEncrypt` (so is a
text of any length, in front of the padding).  For the matrix that no key moves
`EncryptCopies` says that `Process` gives its bytes back as they are with the padding behind
them, and `BaseRoundTrip` that decrypting and trimming gives the trimmed text.

### CryptProofs: Crypt

From `CryptAssumption`, for any callers, arguments and all eight algorithms, in three layers,
each of which uses those before it.

`FieldsOfLastCalls` is `StateOfLastCalls`.  `IInv` has, beside where a caller can be with an
algorithm,

* `AloneInv`: a set-up that was never disturbed is the only one under way, and where one was
  disturbed the fields count as mixed; `Disturbs` counts the AES decryption beside an
  encryption among them.  It is why a step of a disturbed call cannot falsify what is said of
  an undisturbed one;
* `ReadInv`: what an undisturbed call has read of the key is still there when it is assigned
  to `second`.  Without it `SetSecond` may leave anything;
* `StageInv`: what an undisturbed set-up has made of `privateKey`, `userHash`, `key`, `second`
  and its own bytes at each of its steps, and that until it reaches the key, key and `second`
  are still the previous call's.  `DeriveThrows` leaves the fields there: the name is new and
  the key is not;
* `QuietInv`: between set-ups the fields are those of `named` and `keyed`.

`StateOfLastCalls` is `QuietInv` alone, which no step within a call keeps by itself.

`CryptTypeCorrect` is `TypeOK`, from `ValueInv`: the lengths of keys and of a caller's own
bytes at each step, whoever overlaps whom.

`OwnTextDecrypts` and `FlagIsOfTheName` are `DecryptsOwn` and `TrustedFlag`, from `TextInv`:

* `Lonely`: nobody sets the fields beside a call that counts as undisturbed;
* `BounceInv`: an algorithm with an instance of its own comes to the cipher with that
  instance's key, and checks nothing;
* `ParcelInv`: a kept ciphertext is the plain bytes encrypted with the key of *its own
  arguments*.  It names no field, so restarts and later set-ups keep it, and it is what
  relates an encryption to a decryption any number of calls later;
* `CallerInv`: before the cipher an undisturbed set-up is the last one (`SetUpLast`), what
  GenWithKey compared is still so when its flag is used (`FlagHolds`), and what a decryption
  gave is right where it must be (`Answered`).  With ZenMatrix the fields that are not mixed
  hold the base matrix and its reverse whoever set them (`MatrixIs`, by `KeyMovesNothing`).

`DecryptsOwn` speaks of the end of a call; `ParcelInv` and `SetUpLast` are what it needs to
know before.

### PingClientProofs

From `PingAssumption`: `GlueFits` (the loop over argv writes no more than `outmsg` holds, by
`FoldProofs`), `PingTypeCorrect` and `PingPrintsItsLine`, the two invariants of run `client6`,
for any words, buffer, limit and stack.  What `handle_client` does is not proved again:
EchoConnProofs is instantiated with this client's variables, and its lemmas on types and on
`UpToNul` are used for the server's steps.  `IInv` has, beside types,

* `AtInv`: the client's program counter and the socket go together;
* `Follows`: `UpToNul` while the server runs, and on a socket that is up what the server said
  is the beginning of the line.  The second says so of a server too that was killed between
  its recv and its send, when `UpToNul` has come to its end;
* `Receipt`: what ping printed begins with what recv gave it, and it was given nothing only by
  a server that left without a word.

### FrameworkProofs

Of the C# framework's `Startup` and `Codecs`, which have nothing in common but the module.

*Start-up.* From `StartupAssumption`: `FirstReachedIsServed`, which is `ServesFirstReached` for any hosts,
answers, routes and failures.  `AnswerAdds` first says what the loop over an answer adds to
the list, and that it keeps the answer's order.  `IInv` has what is known after `n` look-ups
(`LookUps(n)`: which servers are listed, that the `Foremost` one reached is the first of all,
and that no failure stopped the program), after `n` probes (`Probes(n)`: the first valid
address is the foremost server's), and at each place of Main.  `ServesFirstReached` speaks of
the end only; the order is lost there unless the list is known to keep it.  `OneFirst`, that
two servers cannot both be first, gives that no reason not to start was there.

*Codecs.* From `CodecAssumption` (the inputs are characters up to 255, an int has 16 bits or
32): the four invariants of run `codec` for inputs of every length over every alphabet.
`InputsTyped` is all that is needed of the state; each invariant is then a fact about an
operator.

* `ControlsRemovedAlways`: `Drop` of a longer text, of a text joined from two, and of one that
  has lost members before (`DropAppend`, `DropConcat`, `DropMore`), by induction over texts;
  so trimming and removing lose none but special controls and nulls, and `Removed`, the
  invariant of the loop over `charList`, says that a control that stays is like the first
  character.
* `FindsBytesAlways`: the invariant of the loop (`ScanState`, `FirstMatch`) says that what was
  found is the first match so far and that `needleIt` is back at 0, which `Advance` sees to.
  The property has needles of up to three bytes; `FirstPlaceFound`, from which it follows, is
  for needles of any length.
* `AcceptedTextsAlways`: `Alphabet` compares, character by character, what has a value with
  what is a digit; `Trimmed32Place` says what trimming leaves of a text without white space, and
  the last padding character in that (`ValidTaken`) is the one the property names.  Of any
  text `Trimmed32Bounds` says what was trimmed where, and so `TakenPlaces` gives every character
  of a text that is taken its reason: a digit or letter that was decoded, white space with
  nothing else between it and an end, or padding with only padding and white space behind it.
* `EncodingsUndoneAlways`: base 16, uu and stretched texts are computed place by place.  For
  base 32 the invariant of both loops is `SameBits(n, b, w)`: the low `n` bits of the buffer `b`
  are those of `w`, the number that is still to be written or was read.  `Wrapped` says that an
  overflow changes a multiple of 2^16 only, and no more than 12 bits are ever waiting, so
  `SameBits` survives every shift (`ShiftInByte`, `ShiftInZeroes`, `ShiftInFive`).
  `GroupInWord` finds each group of five bits in two neighbouring bytes, by cases on where in
  a byte it begins.
  `EncodeStates(data, i)` is then the state of `ToBase32` after `i` turns and
  `DecodeStates(data, i)` that of `FromBase32` after `i` groups; `EncodesGroups` and
  `DecodesGroups` are their ends, and `TextUndone` adds digits and padding.

### Only model-checked

* Liveness, in every module: neither it nor ENABLED is in the provers' reach.  So of
  `EchoesAsPromised` the initial states and the steps are proved, under `Plain`, and the
  fairness of `EchoService` is TLC's.

All other invariants of the runs are theorems, `EchoesAll` under `Plain`.

## 5. Not modelled

* `c-server6/kernel-crypto`: a copy of the Linux kernel's crypto directory that no
  Makefile here builds and nothing calls.  It is third-party code, and nearly all
  of the C in the repository; the map covers the repository's own programs and none of it.
* `java-server6/Img`: windows that show pictures, without any state the servers see.
* The C server before its loop (socket, bind, listen, mmap: each failure prints and
  exits), printing, wording, process numbers.
* Java main's reading of its arguments, which only sets the addresses and the port before
  a thread runs; `EchoInputStream`, used by a comment.
* In the C# code, what nothing calls: `EncryptString`, `CryptParams` and the other methods of
  `CryptBounceCastle`, `GetIpAddresses`, `GetMacAddress`, `GetDnsHostNamesByHostName`
  (whose `lastAdded` keeps a name over a failed look-up, which only repeats that name);
  `Base64` and `EnDeCoder`, which pass their arguments to .NET; `IsValidUue`, colours and
  dates.
* Logging beyond the directory: file handles, NLog, `LibPaths`' caches, resources.
* ToUpper of characters beyond 255 and in other cultures; an IPv6 address that itself has
  "::ffff:" in its text.
* The block ciphers of BouncyCastle and .NET, the kernel's TCP and the C library: external,
  modelled by what the code relies on.

## 6. What is left

* Server6 as an implementation of a first-come-first-served service.
* Java main's arguments, and the composition of Startup with Listener6: `ServerThrows` stands
  for a crash of the listener now.

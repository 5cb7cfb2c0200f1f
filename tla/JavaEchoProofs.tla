--------------------------- MODULE JavaEchoProofs ---------------------------
(***************************************************************************)
(* Proofs about JavaEcho, for any addresses, clients, buffer and backlog.  *)
(***************************************************************************)
EXTENDS JavaEcho, SequenceTheorems, WellFoundedInduction, TLAPS

Tokens == {"x", "nl"}

-----------------------------------------------------------------------------
(* Lines. *)

\* A set of numbers has a least one.
LEMMA LeastIs ==
  ASSUME NEW I \in SUBSET Nat, I # {}
  PROVE  Min(I) \in I /\ \A i \in I : Min(I) <= i
<1> DEFINE R == {ss \in Nat \X Nat : ss[1] < ss[2]}
<1>1. IsWellFoundedOn(R, Nat)
  BY Zenon, NatLessThanWellFounded DEF OpToRel
<1>2. PICK n \in I : \A m \in I : <<m, n>> \notin R
  <2> HIDE DEF R
  <2>1. QED
    BY <1>1, WFMin
<1>3. ASSUME NEW m \in I
      PROVE  n <= m
  <2>1. <<m, n>> \notin R
    BY <1>2
  <2>2. ~(m < n)
    BY <2>1
  <2>3. QED
    BY <2>2
<1>4. \E k \in I : \A m \in I : k =< m
  BY <1>3
<1>5. QED
  BY <1>4, Zenon DEF Min

\* LineEnd is 0, or the place of the first line end.
LEMMA LineEndIs ==
  ASSUME NEW s \in Seq(Tokens)
  PROVE  \/ LineEnd(s) = 0 /\ \A i \in 1..Len(s) : s[i] # "nl"
         \/ /\ LineEnd(s) \in 1..Len(s) /\ s[LineEnd(s)] = "nl"
            /\ \A i \in 1..LineEnd(s) - 1 : s[i] # "nl"
<1> DEFINE I == {i \in 1..Len(s) : s[i] = "nl"}
<1>1. LineEnd(s) = IF I # {} THEN Min(I) ELSE 0
  BY DEF LineEnd, SelectInSeq
<1>2. CASE I = {}
  BY <1>1, <1>2
<1>3. CASE I # {}
  <2>0. I \in SUBSET Nat
    BY LenProperties
  <2>1. LineEnd(s) \in I /\ \A i \in I : LineEnd(s) <= i
    <3> HIDE DEF I
    <3>1. Min(I) \in I /\ \A i \in I : Min(I) <= i
      BY <1>3, <2>0, LeastIs
    <3>2. QED
      BY <1>1, <1>3, <3>1
  <2>2. LineEnd(s) \in 1..Len(s) /\ Len(s) \in Nat
    BY <2>1, LenProperties
  <2>3. ASSUME NEW i \in 1..LineEnd(s) - 1
        PROVE  i \in 1..Len(s) /\ ~(LineEnd(s) <= i)
    BY <2>2
  <2>4. ASSUME NEW i \in 1..LineEnd(s) - 1
        PROVE  i \in 1..Len(s) /\ i \notin I
    <3> HIDE DEF I
    <3>1. QED
      BY <2>1, <2>3, Zenon
  <2>5. QED
    BY <2>1, <2>4
<1>4. QED
  BY <1>2, <1>3

\* What is at the first line end decides where it is.
LEMMA LineEndAt ==
  ASSUME NEW s \in Seq(Tokens), NEW n \in 1..Len(s), s[n] = "nl",
         \A i \in 1..n - 1 : s[i] # "nl"
  PROVE  LineEnd(s) = n
<1>1. /\ LineEnd(s) \in 1..Len(s) /\ s[LineEnd(s)] = "nl"
      /\ \A i \in 1..LineEnd(s) - 1 : s[i] # "nl"
  BY LineEndIs
<1>2. ~(LineEnd(s) < n) /\ ~(n < LineEnd(s))
  BY <1>1
<1>3. QED
  BY <1>1, <1>2

LEMMA LineLengthType ==
  ASSUME NEW s \in Seq(Tokens)
  PROVE  LineLength(s) \in 0..Len(s)
BY LineEndIs DEF LineLength

\* Without a line end among the first n, the line is at least that long.
LEMMA LineLengthFrom ==
  ASSUME NEW s \in Seq(Tokens), NEW n \in 0..Len(s), \A i \in 1..n : s[i] # "nl"
  PROVE  n <= LineLength(s)
<1>1. CASE LineEnd(s) = 0
  BY <1>1 DEF LineLength
<1>2. CASE LineEnd(s) # 0
  <2>1. LineEnd(s) \in 1..Len(s) /\ s[LineEnd(s)] = "nl"
    BY <1>2, LineEndIs
  <2>2. n < LineEnd(s)
    BY <2>1
  <2>3. QED
    BY <1>2, <2>1, <2>2 DEF LineLength
<1>3. QED
  BY <1>1, <1>2

\* One token more leaves a line that has an end, and shortens none.
LEMMA LineGrows ==
  ASSUME NEW s \in Seq(Tokens), NEW t \in Tokens
  PROVE  /\ LineEnd(s) # 0 => LineEnd(Append(s, t)) = LineEnd(s)
         /\ LineLength(s) <= LineLength(Append(s, t))
<1> DEFINE u == Append(s, t)
<1>1. u \in Seq(Tokens) /\ Len(u) = Len(s) + 1 /\ \A i \in 1..Len(s) : u[i] = s[i]
  BY AppendProperties
<1>2. Len(s) \in Nat
  BY LenProperties
<1> HIDE DEF u
<1>3. CASE LineEnd(s) # 0
  <2>1. /\ LineEnd(s) \in 1..Len(s) /\ s[LineEnd(s)] = "nl"
        /\ \A i \in 1..LineEnd(s) - 1 : s[i] # "nl"
    BY <1>3, LineEndIs
  <2>2. LineEnd(s) \in 1..Len(u) /\ u[LineEnd(s)] = "nl"
    BY <1>1, <1>2, <2>1
  <2>3. \A i \in 1..LineEnd(s) - 1 : u[i] # "nl"
    BY <1>1, <1>2, <2>1
  <2>4. LineEnd(u) = LineEnd(s)
    BY <1>1, <2>2, <2>3, LineEndAt
  <2>5. LineLength(u) = LineLength(s) /\ LineLength(s) \in Nat
    BY <1>3, <2>1, <2>4 DEF LineLength
  <2>6. QED
    BY <2>4, <2>5 DEF u
<1>4. CASE LineEnd(s) = 0
  <2>1. \A i \in 1..Len(s) : s[i] # "nl"
    BY <1>4, LineEndIs
  <2>2. Len(s) \in 0..Len(u) /\ \A i \in 1..Len(s) : u[i] # "nl"
    BY <1>1, <1>2, <2>1
  <2>3. Len(s) <= LineLength(u)
    BY <1>1, <2>2, LineLengthFrom
  <2>4. QED
    BY <1>4, <2>3 DEF LineLength, u
<1>5. QED
  BY <1>3, <1>4

\* Counting what is behind the first b of a tokens.
LEMMA Rest ==
  ASSUME NEW a \in Nat, NEW b \in Nat, b <= a
  PROVE  /\ (a - (b + 1)) + 1 = a - b /\ a - b \in Nat
         /\ b + 1 <= a <=> a # b
         /\ \A i \in 1..a - b : b + i = (b + 1) + i - 1
OBVIOUS

\* A sequence from m on.
LEMMA From ==
  ASSUME NEW s, NEW m \in Int, NEW n \in Int, \A i \in m..n : s[i] \in Tokens
  PROVE  /\ SubSeq(s, m, n) \in Seq(Tokens)
         /\ Len(SubSeq(s, m, n)) = IF m <= n THEN (n - m) + 1 ELSE 0
         /\ \A i \in 1..((n - m) + 1) : SubSeq(s, m, n)[i] = s[m + i - 1]
BY SubSeqProperties

\* What the server has not read of a client's tokens.
LEMMA UnreadIs ==
  ASSUME NEW c \in Clients, sent[c] \in Seq(Tokens), taken[c] \in Nat, taken[c] <= Len(sent[c])
  PROVE  /\ Unread(c) \in Seq(Tokens) /\ Len(Unread(c)) = Len(sent[c]) - taken[c]
         /\ \A i \in 1..Len(sent[c]) - taken[c] : Unread(c)[i] = sent[c][taken[c] + i]
         /\ Unread(c) = <<>> <=> taken[c] = Len(sent[c])
<1>1. Len(sent[c]) \in Nat /\ Len(sent[c]) \in Int /\ taken[c] + 1 \in Int
  BY LenProperties
<1>2. \A i \in taken[c] + 1..Len(sent[c]) : sent[c][i] \in Tokens
  BY <1>1
<1>3. /\ (Len(sent[c]) - (taken[c] + 1)) + 1 = Len(sent[c]) - taken[c]
      /\ Len(sent[c]) - taken[c] \in Nat
      /\ taken[c] + 1 <= Len(sent[c]) <=> Len(sent[c]) # taken[c]
      /\ \A i \in 1..Len(sent[c]) - taken[c] : taken[c] + i = (taken[c] + 1) + i - 1
  BY <1>1, Rest
<1>4. /\ Unread(c) \in Seq(Tokens)
      /\ Len(Unread(c)) = IF taken[c] + 1 <= Len(sent[c])
                          THEN (Len(sent[c]) - (taken[c] + 1)) + 1 ELSE 0
      /\ \A i \in 1..((Len(sent[c]) - (taken[c] + 1)) + 1) :
            Unread(c)[i] = sent[c][(taken[c] + 1) + i - 1]
  BY <1>1, <1>2, From, Zenon DEF Unread
<1>5. Len(Unread(c)) = Len(sent[c]) - taken[c]
  BY <1>1, <1>3, <1>4
<1>6. Unread(c) = <<>> <=> taken[c] = Len(sent[c])
  BY <1>1, <1>4, <1>5, EmptySeq
<1>7. QED
  BY <1>3, <1>4, <1>5, <1>6
-----------------------------------------------------------------------------
(* The invariant. *)

Busy == {"receive", "answer", "close"}

\* Types, and the static address once a thread is past its first step.
TypeInv ==
  /\ TypeOK
  /\ \A a \in Addresses : pc[a] \notin {"start", "dead"} => saddress # None

\* A connection waits once, in the queue of its address, and is as its client
\* left it until it is accepted.
QueueInv ==
  \A a \in Addresses : \A i \in 1..Len(queue[a]) :
      /\ Address[queue[a][i]] = a /\ client[queue[a][i]] # "idle"
      /\ taken[queue[a][i]] = 0 /\ conn[queue[a][i]] = "open"
      /\ serving[a] # queue[a][i]
      /\ \A j \in 1..Len(queue[a]) : queue[a][j] = queue[a][i] => j = i

\* A thread serves, between accept and close, an open connection of its address.
ServingInv ==
  \A a \in Addresses : serving[a] # None =>
      /\ pc[a] \in Busy /\ Address[serving[a]] = a
      /\ client[serving[a]] # "idle" /\ conn[serving[a]] = "open"

\* Nothing has happened on a connection that is not made, and EchoClient sends once.
FreshInv ==
  \A c \in Clients :
      /\ client[c] = "idle" => taken[c] = 0 /\ conn[c] = "open"
      /\ c \in EchoClients /\ client[c] \in {"idle", "open"} => sent[c] = <<>>

\* n characters are an answer to the tokens s that nothing a client in state k
\* may still send can change.
Settled(s, k, n) ==
  /\ n = Lesser(LineLength(s), MaxChars)
  /\ k \notin {"idle", "open"} \/ LineEnd(s) # 0 \/ LineLength(s) >= MaxChars

\* While receiveIn reads on it has appended all that was read, less than the
\* limit, and no line end was among it.
ReceiveInv ==
  \A a \in Addresses : pc[a] = "receive" =>
      /\ result[a] = taken[serving[a]] /\ result[a] < MaxChars
      /\ \A i \in 1..taken[serving[a]] : sent[serving[a]][i] # "nl"

\* An answer about to be sent, or sent, is settled.
AnswerInv ==
  /\ \A a \in Addresses : pc[a] = "answer" =>
        \/ client[serving[a]] = "reset"
        \/ Settled(sent[serving[a]], client[serving[a]], result[a])
  /\ \A c \in Clients : answer[c] # None => Settled(sent[c], client[c], answer[c])

\* A connection is reset when the process exits or when it is closed unread, and
\* only a reset takes EchoClient's answer.
ResetInv ==
  \A c \in Clients :
      /\ conn[c] = "reset" => Dead \/ taken[c] < Len(sent[c])
      /\ outcome[c] = "less" => conn[c] = "reset"

NetInv == QueueInv /\ ServingInv /\ FreshInv

\* The inductive invariant.
IInv == TypeInv /\ NetInv /\ ReceiveInv /\ AnswerInv /\ ResetInv

-----------------------------------------------------------------------------
(* Types. *)

\* A thread that serves has a client, and its client's tokens are tokens.
LEMMA Serves ==
  ASSUME TypeInv, NEW a \in Addresses, pc[a] \in Busy
  PROVE  /\ serving[a] \in Clients /\ serving[a] # None /\ saddress # None
         /\ sent[serving[a]] \in Seq(Tokens)
         /\ taken[serving[a]] \in Nat /\ taken[serving[a]] <= Len(sent[serving[a]])
<1>1. serving[a] \in Clients \cup {None} /\ serving[a] # None /\ saddress # None
  BY DEF TypeInv, TypeOK, Busy
<1>2. QED
  BY <1>1 DEF TypeInv, TypeOK, Tokens

\* The first one waiting and the others, as Accept takes them from the queue.
LEMMA HeadTail ==
  ASSUME TypeInv, NEW a \in Addresses, queue[a] # <<>>
  PROVE  /\ Head(queue[a]) = queue[a][1] /\ Head(queue[a]) \in Clients
         /\ Tail(queue[a]) \in Seq(Clients)
         /\ Len(Tail(queue[a])) = Len(queue[a]) - 1 /\ 1 \in 1..Len(queue[a])
         /\ \A i \in 1..Len(Tail(queue[a])) :
               i + 1 \in 1..Len(queue[a]) /\ Tail(queue[a])[i] = queue[a][i + 1]
<1>1. queue[a] \in Seq(Clients)
  BY DEF TypeInv, TypeOK
<1>2. Len(queue[a]) \in Nat /\ Len(queue[a]) # 0
  BY <1>1, EmptySeq, LenProperties
<1>3. QED
  BY <1>1, <1>2, HeadTailProperties

LEMMA InitType == Init => TypeInv
<1> SUFFICES ASSUME Init PROVE TypeInv
  OBVIOUS
<1>1. <<>> \in Seq(Clients) /\ <<>> \in Seq({"x", "nl"}) /\ Len(<<>>) = 0
  BY EmptySeq
<1>2. MaxChars \in Nat /\ 0 \in 0..MaxChars
  BY JavaAssumption
<1>3. QED
  BY <1>1, <1>2 DEF Init, TypeInv, TypeOK, PcStates

\* A fill takes at most what is unread, and appends at most what there is room for.
LEMMA FillAmount ==
  ASSUME TypeInv, NEW a \in Addresses, Fill(a)
  PROVE  \E n \in 1..MaxChars :
            LET c == serving[a]
                chunk == SubSeq(Unread(c), 1, n)
            IN  /\ n <= Len(sent[c]) - taken[c] /\ taken[c] + n <= Len(sent[c])
                /\ taken' = [taken EXCEPT ![c] = @ + n]
                /\ result' = [result EXCEPT ![a] =
                                 @ + Lesser(LineLength(chunk), MaxChars - result[a])]
                /\ pc' = [pc EXCEPT ![a] =
                              IF LineEnd(chunk) # 0 \/ result'[a] = MaxChars
                              THEN "answer" ELSE "receive"]
                /\ chunk \in Seq(Tokens) /\ Len(chunk) = n
                /\ \A i \in 1..n : chunk[i] = sent[c][taken[c] + i]
                /\ Lesser(LineLength(chunk), MaxChars - result[a]) \in 0..MaxChars - result[a]
<1> DEFINE c == serving[a]
<1>1. pc[a] = "receive"
  BY DEF Fill
<1>2. /\ c \in Clients /\ sent[c] \in Seq(Tokens)
      /\ taken[c] \in Nat /\ taken[c] <= Len(sent[c])
  BY <1>1, Serves DEF Busy
<1>3. PICK n \in 1..MaxChars :
         /\ n <= Len(Unread(c))
         /\ result' = [result EXCEPT ![a] =
               @ + Lesser(LineLength(SubSeq(Unread(c), 1, n)), MaxChars - result[a])]
         /\ pc' = [pc EXCEPT ![a] =
               IF LineEnd(SubSeq(Unread(c), 1, n)) # 0 \/ result'[a] = MaxChars
               THEN "answer" ELSE "receive"]
         /\ taken' = [taken EXCEPT ![c] = @ + n]
  BY Zenon DEF Fill
<1> DEFINE chunk == SubSeq(Unread(c), 1, n)
<1>4. /\ Unread(c) \in Seq(Tokens) /\ Len(Unread(c)) = Len(sent[c]) - taken[c]
      /\ \A i \in 1..Len(sent[c]) - taken[c] : Unread(c)[i] = sent[c][taken[c] + i]
  BY <1>2, UnreadIs
<1>5. Len(sent[c]) \in Nat /\ n \in Nat /\ 1 <= n /\ MaxChars \in Nat
  BY <1>2, LenProperties, JavaAssumption
<1>6. n <= Len(sent[c]) - taken[c] /\ taken[c] + n <= Len(sent[c])
  BY <1>2, <1>3, <1>4, <1>5
<1>7. /\ chunk \in Seq(Tokens) /\ Len(chunk) = n
      /\ \A i \in 1..n : chunk[i] = Unread(c)[i]
  <2>1. \A i \in 1..n : Unread(c)[i] \in Tokens
    BY <1>3, <1>4, <1>5
  <2>2. /\ chunk \in Seq(Tokens)
        /\ Len(chunk) = IF 1 <= n THEN (n - 1) + 1 ELSE 0
        /\ \A i \in 1..((n - 1) + 1) : chunk[i] = Unread(c)[1 + i - 1]
    BY <1>5, <2>1, SubSeqProperties
  <2>3. (n - 1) + 1 = n /\ \A i \in 1..n : 1 + i - 1 = i
    BY <1>5
  <2>4. QED
    BY <1>5, <2>2, <2>3
<1>8. \A i \in 1..n : chunk[i] = sent[c][taken[c] + i]
  <2>1. \A i \in 1..n : i \in 1..Len(sent[c]) - taken[c]
    BY <1>2, <1>5, <1>6
  <2>2. QED
    BY <1>4, <1>7, <2>1
<1>9. Lesser(LineLength(chunk), MaxChars - result[a]) \in 0..MaxChars - result[a]
  <2>1. LineLength(chunk) \in 0..n
    BY <1>7, LineLengthType
  <2>2. result[a] \in 0..MaxChars
    BY DEF TypeInv, TypeOK
  <2>3. QED
    BY <1>5, <2>1, <2>2 DEF Lesser
<1> HIDE DEF chunk
<1>10. QED
  BY <1>3, <1>6, <1>7, <1>8, <1>9 DEF chunk

\* Every step of the server keeps the types.
LEMMA ServerType ==
  ASSUME TypeInv, NEW a \in Addresses, Thread(a) \/ AcceptFails(a)
  PROVE  TypeInv'
<1> USE DEF TypeInv, TypeOK, PcStates
<1>1. CASE Start(a)
  BY <1>1, JavaAssumption DEF Start, netVars
<1>2. CASE Accept(a)
  <2>1. Head(queue[a]) \in Clients /\ Tail(queue[a]) \in Seq(Clients) /\ 0 \in 0..MaxChars
    BY <1>2, HeadTail, JavaAssumption DEF Accept
  <2>2. serving' \in [Addresses -> Clients \cup {None}] /\ queue' \in [Addresses -> Seq(Clients)]
    BY <1>2, <2>1 DEF Accept
  <2>3. Head(queue[a]) # None
    BY <2>1, JavaAssumption
  <2>4. QED
    BY <1>2, <2>1, <2>2, <2>3 DEF Accept
<1>3. CASE AcceptFails(a)
  <2>1. <<>> \in Seq(Clients)
    BY EmptySeq
  <2>2. QED
    BY <1>3, <2>1 DEF AcceptFails
<1>4. CASE Fill(a)
  <2>1. PICK n \in 1..MaxChars :
           LET c == serving[a]
               chunk == SubSeq(Unread(c), 1, n)
           IN  /\ taken[c] + n <= Len(sent[c])
               /\ taken' = [taken EXCEPT ![c] = @ + n]
               /\ result' = [result EXCEPT ![a] =
                                @ + Lesser(LineLength(chunk), MaxChars - result[a])]
               /\ pc' = [pc EXCEPT ![a] =
                             IF LineEnd(chunk) # 0 \/ result'[a] = MaxChars
                             THEN "answer" ELSE "receive"]
               /\ Lesser(LineLength(chunk), MaxChars - result[a]) \in 0..MaxChars - result[a]
    BY <1>4, FillAmount
  <2>2. PICK k \in 0..MaxChars - result[a] : result' = [result EXCEPT ![a] = @ + k]
    BY <2>1
  <2>3. result[a] + k \in 0..MaxChars
    <3>1. MaxChars \in Nat /\ result[a] \in 0..MaxChars
      BY JavaAssumption
    <3>2. QED
      BY <2>2, <3>1
  <2>4. result' \in [Addresses -> 0..MaxChars]
    BY <2>2, <2>3
  <2>5. serving[a] \in Clients /\ serving[a] # None /\ taken[serving[a]] + n \in Nat
    BY <1>4, JavaAssumption DEF Fill
  <2>6. taken' \in [Clients -> Nat] /\ \A c \in Clients : taken'[c] <= Len(sent[c])
    BY <2>1, <2>5
  <2>7. /\ pc' \in [Addresses -> PcStates]
        /\ \A b \in Addresses : b # a => pc'[b] = pc[b]
        /\ pc'[a] \in {"answer", "receive"} /\ pc[a] = "receive"
    BY <1>4, <2>1 DEF Fill
  <2>8. QED
    BY <1>4, <2>4, <2>5, <2>6, <2>7 DEF Fill
<1>5. CASE ReceiveEnd(a)
  BY <1>5 DEF ReceiveEnd, netVars
<1>6. CASE SendReply(a)
  <2>1. /\ pc[a] = "answer" /\ pc' = [pc EXCEPT ![a] = "close"]
        /\ answer' = answer \/ answer' = [answer EXCEPT ![serving[a]] = result[a]]
        /\ UNCHANGED <<serving, result, saddress, queue, sent, taken, conn, client, outcome>>
    BY <1>6 DEF SendReply
  <2>2. answer' \in [Clients -> 0..MaxChars \cup {None}]
    BY <2>1
  <2>3. pc' \in [Addresses -> PcStates]
    BY <2>1
  <2>4. QED
    BY <2>1, <2>2, <2>3
<1>7. CASE CloseSocket(a)
  BY <1>7 DEF CloseSocket
<1>8. QED
  BY <1>1, <1>2, <1>3, <1>4, <1>5, <1>6, <1>7 DEF Thread

\* What EchoClient sends is a message and a line end.
LEMMA Message ==
  ASSUME NEW m \in Nat
  PROVE  [i \in 1..m |-> "x"] \o <<"nl", "nl">> \in Seq({"x", "nl"})
OBVIOUS

ClientStep(c) ==
  Connect(c) \/ WriteOut(c) \/ ReadIn(c) \/ SendToken(c) \/ HangUp(c) \/ Abort(c)

\* So does every step of a client.
LEMMA ClientType ==
  ASSUME TypeInv, NetInv, NEW c \in Clients, ClientStep(c)
  PROVE  TypeInv'
<1> USE DEF TypeInv, TypeOK, serverVars, netVars
<1>1. CASE Connect(c)
  <2>1. Append(queue[Address[c]], c) \in Seq(Clients)
    BY JavaAssumption, AppendProperties
  <2>2. queue' \in [Addresses -> Seq(Clients)]
    BY <1>1, <2>1 DEF Connect
  <2>3. QED
    BY <1>1, <2>2 DEF Connect
<1>2. CASE WriteOut(c)
  <2>1. taken[c] = 0
    <3>1. sent[c] = <<>> /\ Len(<<>>) = 0
      BY <1>2, EmptySeq DEF WriteOut, NetInv, FreshInv
    <3>2. QED
      BY <3>1
  <2>2. PICK m \in 0..MaxMessage :
           sent' = [sent EXCEPT ![c] = [i \in 1..m |-> "x"] \o <<"nl", "nl">>]
    BY <1>2 DEF WriteOut
  <2>3. m \in Nat
    BY JavaAssumption
  <2>4. sent' \in [Clients -> Seq({"x", "nl"})]
    BY <2>2, <2>3, Message
  <2>5. \A d \in Clients : taken[d] <= Len(sent'[d])
    <3>1. Len(sent'[c]) \in Nat
      BY <2>4, LenProperties
    <3>2. QED
      BY <2>1, <2>2, <3>1
  <2>6. QED
    BY <1>2, <2>4, <2>5 DEF WriteOut
<1>3. CASE ReadIn(c)
  BY <1>3 DEF ReadIn
<1>4. CASE SendToken(c)
  <2>1. PICK t \in {"x", "nl"} : sent' = [sent EXCEPT ![c] = Append(@, t)]
    BY <1>4 DEF SendToken
  <2>2. /\ Append(sent[c], t) \in Seq({"x", "nl"})
        /\ Len(Append(sent[c], t)) = Len(sent[c]) + 1 /\ Len(sent[c]) \in Nat
    BY AppendProperties, LenProperties
  <2>3. QED
    BY <1>4, <2>1, <2>2 DEF SendToken
<1>5. CASE HangUp(c)
  BY <1>5 DEF HangUp
<1>6. CASE Abort(c)
  BY <1>6 DEF Abort
<1>7. QED
  BY <1>1, <1>2, <1>3, <1>4, <1>5, <1>6 DEF ClientStep

-----------------------------------------------------------------------------
(* Connections. *)

\* The client a thread serves waits in no queue.
LEMMA ServedOnce ==
  ASSUME TypeInv, NetInv, NEW a \in Addresses, serving[a] # None,
         NEW b \in Addresses, NEW i \in 1..Len(queue[b])
  PROVE  queue[b][i] # serving[a] /\ queue[b][i] \in Clients
<1>1. Address[queue[b][i]] = b /\ serving[b] # queue[b][i] /\ Address[serving[a]] = a
  BY DEF NetInv, QueueInv, ServingInv
<1>2. queue[b][i] \in Clients
  BY DEF TypeInv, TypeOK
<1>3. QED
  BY <1>1, <1>2

\* Nor does another thread serve it.
LEMMA ServedByOne ==
  ASSUME TypeInv, NetInv, NEW a \in Addresses, serving[a] # None,
         NEW b \in Addresses, serving[b] = serving[a]
  PROVE  a = b
BY DEF NetInv, ServingInv

LEMMA AcceptNet ==
  ASSUME TypeInv, NetInv, NEW a \in Addresses, Accept(a)
  PROVE  NetInv'
<1>1. /\ Head(queue[a]) = queue[a][1] /\ Head(queue[a]) \in Clients
      /\ Len(Tail(queue[a])) = Len(queue[a]) - 1 /\ 1 \in 1..Len(queue[a])
      /\ \A i \in 1..Len(Tail(queue[a])) :
            i + 1 \in 1..Len(queue[a]) /\ Tail(queue[a])[i] = queue[a][i + 1]
  BY HeadTail DEF Accept
<1>2. /\ serving' = [serving EXCEPT ![a] = Head(queue[a])]
      /\ queue' = [queue EXCEPT ![a] = Tail(@)]
      /\ pc' = [pc EXCEPT ![a] = "receive"]
      /\ UNCHANGED <<sent, taken, conn, client>>
  BY DEF Accept
<1>3. /\ serving'[a] = queue[a][1] /\ queue'[a] = Tail(queue[a]) /\ pc'[a] = "receive"
      /\ \A b \in Addresses : b # a =>
            serving'[b] = serving[b] /\ queue'[b] = queue[b] /\ pc'[b] = pc[b]
  BY <1>1, <1>2 DEF TypeInv, TypeOK
<1>4. /\ Address[queue[a][1]] = a /\ client[queue[a][1]] # "idle" /\ conn[queue[a][1]] = "open"
      /\ \A j \in 1..Len(queue[a]) : queue[a][j] = queue[a][1] => j = 1
  BY <1>1 DEF NetInv, QueueInv
<1>5. QueueInv'
  <2>1. ASSUME NEW b \in Addresses, NEW i \in 1..Len(queue'[b])
        PROVE  /\ Address[queue'[b][i]] = b /\ client'[queue'[b][i]] # "idle"
               /\ taken'[queue'[b][i]] = 0 /\ conn'[queue'[b][i]] = "open"
               /\ serving'[b] # queue'[b][i]
               /\ \A j \in 1..Len(queue'[b]) : queue'[b][j] = queue'[b][i] => j = i
    <3>1. CASE b # a
      BY <1>2, <1>3, <3>1, <2>1 DEF NetInv, QueueInv
    <3>2. CASE b = a
      <4>1. i + 1 \in 1..Len(queue[a]) /\ queue'[a][i] = queue[a][i + 1]
        BY <1>1, <1>3, <3>2
      <4>2. /\ Address[queue[a][i + 1]] = a /\ client[queue[a][i + 1]] # "idle"
            /\ taken[queue[a][i + 1]] = 0 /\ conn[queue[a][i + 1]] = "open"
            /\ \A j \in 1..Len(queue[a]) : queue[a][j] = queue[a][i + 1] => j = i + 1
        BY <4>1 DEF NetInv, QueueInv
      <4>3. i + 1 # 1
        OBVIOUS
      <4>4. queue[a][1] # queue[a][i + 1]
        BY <1>4, <4>1, <4>3
      <4>5. ASSUME NEW j \in 1..Len(queue'[a]), queue'[a][j] = queue'[a][i]
            PROVE  j = i
        <5>1. j + 1 \in 1..Len(queue[a]) /\ queue'[a][j] = queue[a][j + 1]
          BY <1>1, <1>3
        <5>2. j + 1 = i + 1
          BY <4>1, <4>2, <4>5, <5>1
        <5>3. QED
          BY <5>2
      <4>6. QED
        BY <1>2, <1>3, <3>2, <4>1, <4>2, <4>4, <4>5
    <3>3. QED
      BY <3>1, <3>2
  <2>2. QED
    BY <2>1 DEF QueueInv
<1>6. ServingInv'
  BY <1>2, <1>3, <1>4 DEF NetInv, ServingInv, Busy
<1>7. FreshInv'
  BY <1>2 DEF NetInv, FreshInv
<1>8. QED
  BY <1>5, <1>6, <1>7 DEF NetInv

LEMMA FillNet ==
  ASSUME TypeInv, NetInv, NEW a \in Addresses, Fill(a)
  PROVE  NetInv'
<1>1. PICK n \in 1..MaxChars : taken' = [taken EXCEPT ![serving[a]] = @ + n]
  BY Zenon DEF Fill
<1>2. /\ pc[a] = "receive" /\ UNCHANGED <<serving, queue, sent, conn, client>>
      /\ \E s \in {"answer", "receive"} : pc' = [pc EXCEPT ![a] = s]
  BY DEF Fill
<1>3. serving[a] \in Clients /\ serving[a] # None
  BY <1>2, Serves DEF Busy
<1>4. \A c \in Clients : c # serving[a] => taken'[c] = taken[c]
  BY <1>1, <1>3 DEF TypeInv, TypeOK
<1>5. QueueInv'
  <2>1. \A b \in Addresses : \A i \in 1..Len(queue[b]) : taken'[queue[b][i]] = taken[queue[b][i]]
    BY <1>3, <1>4, ServedOnce
  <2>2. QED
    BY <1>2, <2>1 DEF NetInv, QueueInv
<1>6. ServingInv'
  <2>1. pc'[a] \in Busy /\ \A b \in Addresses : b # a => pc'[b] = pc[b]
    BY <1>2 DEF TypeInv, TypeOK, Busy
  <2>2. QED
    BY <1>2, <2>1 DEF NetInv, ServingInv
<1>7. FreshInv'
  BY <1>2, <1>3, <1>4 DEF NetInv, FreshInv, ServingInv
<1>8. QED
  BY <1>5, <1>6, <1>7 DEF NetInv

LEMMA CloseNet ==
  ASSUME TypeInv, NetInv, NEW a \in Addresses, CloseSocket(a)
  PROVE  NetInv'
<1>1. /\ pc[a] = "close" /\ UNCHANGED <<queue, sent, taken, client>>
      /\ serving' = [serving EXCEPT ![a] = None]
      /\ pc' = [pc EXCEPT ![a] = "accept"]
      /\ \E s \in {"closed", "reset"} : conn' = [conn EXCEPT ![serving[a]] = s]
  BY DEF CloseSocket
<1>2. serving[a] \in Clients /\ serving[a] # None
  BY <1>1, Serves DEF Busy
<1>3. \A c \in Clients : c # serving[a] => conn'[c] = conn[c]
  BY <1>1, <1>2 DEF TypeInv, TypeOK
<1>4. /\ serving'[a] = None
      /\ \A b \in Addresses : b # a => serving'[b] = serving[b] /\ pc'[b] = pc[b]
  BY <1>1 DEF TypeInv, TypeOK
<1>5. QueueInv'
  <2>1. \A b \in Addresses : \A i \in 1..Len(queue[b]) :
           conn'[queue[b][i]] = conn[queue[b][i]] /\ queue[b][i] # None
    BY <1>2, <1>3, ServedOnce, JavaAssumption
  <2>2. QED
    BY <1>1, <1>4, <2>1 DEF NetInv, QueueInv
<1>6. ServingInv'
  <2>1. ASSUME NEW b \in Addresses, serving'[b] # None
        PROVE  /\ pc'[b] \in Busy /\ Address[serving'[b]] = b
               /\ client'[serving'[b]] # "idle" /\ conn'[serving'[b]] = "open"
    <3>1. b # a /\ serving'[b] = serving[b] /\ pc'[b] = pc[b]
      BY <1>4, <2>1
    <3>2. serving[b] \in Clients /\ serving[b] # serving[a]
      BY <1>2, <2>1, <3>1, ServedByOne DEF TypeInv, TypeOK
    <3>3. QED
      BY <1>1, <1>3, <2>1, <3>1, <3>2 DEF NetInv, ServingInv
  <2>2. QED
    BY <2>1 DEF ServingInv
<1>7. FreshInv'
  BY <1>1, <1>2, <1>3 DEF NetInv, FreshInv, ServingInv
<1>8. QED
  BY <1>5, <1>6, <1>7 DEF NetInv

\* The other steps of the server move no connection, or end them all.
LEMMA ServerNet ==
  ASSUME TypeInv, NetInv, NEW a \in Addresses, Thread(a) \/ AcceptFails(a)
  PROVE  NetInv'
<1>1. CASE Start(a)
  <2>1. serving[a] = None
    BY <1>1 DEF Start, NetInv, ServingInv, Busy
  <2>2. QED
    BY <1>1, <2>1 DEF Start, netVars, TypeInv, TypeOK, NetInv, QueueInv, ServingInv, FreshInv
<1>2. CASE ReceiveEnd(a) \/ SendReply(a)
  <2>1. /\ UNCHANGED <<serving, queue, sent, taken, conn, client>>
        /\ \E s \in Busy : pc' = [pc EXCEPT ![a] = s]
    BY <1>2 DEF ReceiveEnd, SendReply, netVars, Busy
  <2>2. QED
    BY <2>1 DEF TypeInv, TypeOK, NetInv, QueueInv, ServingInv, FreshInv
<1>3. CASE AcceptFails(a)
  <2>1. /\ \A b \in Addresses : serving'[b] = None /\ queue'[b] = <<>> /\ Len(<<>>) = 0
        /\ \A c \in Clients : client[c] = "idle" => conn'[c] = conn[c]
        /\ UNCHANGED <<sent, taken, client>>
    BY <1>3, EmptySeq DEF AcceptFails
  <2>2. QED
    BY <2>1 DEF NetInv, QueueInv, ServingInv, FreshInv
<1>4. QED
  BY <1>1, <1>2, <1>3, AcceptNet, FillNet, CloseNet DEF Thread

\* A client that connects goes to the end of a queue it is not in.
LEMMA ConnectNet ==
  ASSUME TypeInv, NetInv, NEW c \in Clients, Connect(c)
  PROVE  NetInv'
<1> DEFINE a == Address[c]
<1>1. /\ client[c] = "idle" /\ queue' = [queue EXCEPT ![a] = Append(@, c)]
      /\ client' = [client EXCEPT ![c] = "open"]
      /\ UNCHANGED <<pc, serving, sent, taken, conn>>
  BY DEF Connect, serverVars
<1>2. a \in Addresses /\ c # None
  BY JavaAssumption
<1>3. /\ queue[a] \in Seq(Clients) /\ Len(queue[a]) \in Nat
      /\ Len(queue'[a]) = Len(queue[a]) + 1
      /\ \A i \in 1..Len(queue[a]) : queue'[a][i] = queue[a][i]
      /\ queue'[a][Len(queue[a]) + 1] = c
      /\ \A b \in Addresses : b # a => queue'[b] = queue[b]
  BY <1>1, <1>2, AppendProperties, LenProperties DEF TypeInv, TypeOK
<1>4. /\ \A b \in Addresses : serving[b] # c
      /\ \A b \in Addresses : \A i \in 1..Len(queue[b]) : queue[b][i] # c /\ queue[b][i] \in Clients
      /\ \A d \in Clients : d # c => client'[d] = client[d]
      /\ client'[c] = "open" /\ taken[c] = 0 /\ conn[c] = "open"
  <2>1. \A b \in Addresses : serving[b] # c
    BY <1>1, <1>2 DEF NetInv, ServingInv
  <2>2. \A b \in Addresses : \A i \in 1..Len(queue[b]) : queue[b][i] # c /\ queue[b][i] \in Clients
    BY <1>1 DEF TypeInv, TypeOK, NetInv, QueueInv
  <2>3. (\A d \in Clients : d # c => client'[d] = client[d]) /\ client'[c] = "open"
    BY <1>1 DEF TypeInv, TypeOK
  <2>4. taken[c] = 0 /\ conn[c] = "open"
    BY <1>1 DEF NetInv, FreshInv
  <2>5. QED
    BY <2>1, <2>2, <2>3, <2>4
<1> HIDE DEF a
<1>5. QueueInv'
  <2>1. ASSUME NEW b \in Addresses, NEW i \in 1..Len(queue'[b])
        PROVE  /\ Address[queue'[b][i]] = b /\ client'[queue'[b][i]] # "idle"
               /\ taken'[queue'[b][i]] = 0 /\ conn'[queue'[b][i]] = "open"
               /\ serving'[b] # queue'[b][i]
               /\ \A j \in 1..Len(queue'[b]) : queue'[b][j] = queue'[b][i] => j = i
    <3>1. CASE b # a
      BY <1>1, <1>3, <1>4, <2>1, <3>1 DEF NetInv, QueueInv
    <3>2. CASE b = a /\ i = Len(queue[a]) + 1
      <4>1. queue'[b][i] = c
        BY <1>3, <3>2
      <4>2. ASSUME NEW j \in 1..Len(queue'[b]), queue'[b][j] = c
            PROVE  j = i
        BY <1>2, <1>3, <1>4, <3>2, <4>2
      <4>3. Address[c] = b
        BY <3>2 DEF a
      <4>4. QED
        BY <1>1, <1>4, <4>1, <4>2, <4>3
    <3>3. CASE b = a /\ i # Len(queue[a]) + 1
      <4>1. i \in 1..Len(queue[a]) /\ queue'[b][i] = queue[a][i]
        BY <1>3, <3>3
      <4>2. ASSUME NEW j \in 1..Len(queue'[b]), queue'[b][j] = queue'[b][i]
            PROVE  j = i
        <5>1. j \in 1..Len(queue[a])
          BY <1>2, <1>3, <1>4, <3>3, <4>1, <4>2
        <5>2. QED
          BY <1>2, <1>3, <3>3, <4>1, <4>2, <5>1 DEF NetInv, QueueInv
      <4>3. QED
        BY <1>1, <1>2, <1>4, <3>3, <4>1, <4>2 DEF NetInv, QueueInv
    <3>4. QED
      BY <3>1, <3>2, <3>3
  <2>2. QED
    BY <2>1 DEF QueueInv
<1>6. ServingInv'
  BY <1>1, <1>4 DEF TypeInv, TypeOK, NetInv, ServingInv
<1>7. FreshInv'
  BY <1>1, <1>4 DEF NetInv, FreshInv
<1>8. QED
  BY <1>5, <1>6, <1>7 DEF NetInv

\* The other steps of a client are those of one that is connected.
LEMMA ClientNet ==
  ASSUME TypeInv, NetInv, NEW c \in Clients, ClientStep(c)
  PROVE  NetInv'
<1>1. CASE ~Connect(c)
  <2>1. /\ UNCHANGED <<pc, serving, queue, taken, conn>> /\ client[c] # "idle"
        /\ \/ client' = client /\ c \notin EchoClients
           \/ \E s \in {"reading", "done", "closed", "reset"} : client' = [client EXCEPT ![c] = s]
    BY <1>1 DEF ClientStep, WriteOut, ReadIn, SendToken, HangUp, Abort, serverVars, netVars
  <2>2. /\ client'[c] # "idle" /\ (c \in EchoClients => client'[c] # "open")
        /\ \A d \in Clients : d # c => client'[d] = client[d]
    BY <2>1 DEF TypeInv, TypeOK
  <2>3. \A d \in Clients : d # c => sent'[d] = sent[d]
    BY <1>1 DEF ClientStep, WriteOut, ReadIn, SendToken, HangUp, Abort, netVars, TypeInv, TypeOK
  <2>4. QueueInv'
    BY <2>1, <2>2 DEF NetInv, QueueInv, TypeInv, TypeOK
  <2>5. ServingInv'
    BY <2>1, <2>2 DEF NetInv, ServingInv, TypeInv, TypeOK
  <2>6. FreshInv'
    BY <2>1, <2>2, <2>3 DEF NetInv, FreshInv
  <2>7. QED
    BY <2>4, <2>5, <2>6 DEF NetInv
<1>2. QED
  BY <1>1, ConnectNet

-----------------------------------------------------------------------------
(* Answers. *)

\* A client's step adds to what it has sent and takes no settled answer back.
LEMMA ClientKeeps ==
  ASSUME TypeInv, NetInv, NEW d \in Clients, ClientStep(d), NEW c \in Clients
  PROVE  /\ taken'[c] = taken[c] /\ Len(sent[c]) <= Len(sent'[c])
         /\ \A i \in 1..taken[c] : sent'[c][i] = sent[c][i]
         /\ client[c] = "reset" => client'[c] = "reset"
         /\ \A n : Settled(sent[c], client[c], n) => Settled(sent'[c], client'[c], n)
<1>1. /\ sent[c] \in Seq(Tokens) /\ Len(sent[c]) \in Nat
      /\ taken[c] \in Nat /\ taken[c] <= Len(sent[c])
      /\ taken'[c] = taken[c] /\ MaxChars \in Nat /\ 0 < MaxChars
  BY LenProperties, JavaAssumption
  DEF TypeInv, TypeOK, Tokens, ClientStep, Connect, WriteOut, ReadIn, SendToken, HangUp, Abort,
      netVars
<1>2. CASE c # d \/ ~(WriteOut(d) \/ SendToken(d))
  <2>1. sent'[c] = sent[c]
    BY <1>2
    DEF TypeInv, TypeOK, ClientStep, Connect, WriteOut, ReadIn, SendToken, HangUp, Abort, netVars
  <2>2. \/ client'[c] = client[c] \/ client[c] = "idle"
        \/ client'[c] \notin {"idle", "open"} /\ client[c] # "reset"
    BY <1>2
    DEF TypeInv, TypeOK, ClientStep, Connect, WriteOut, ReadIn, SendToken, HangUp, Abort
  <2>3. QED
    BY <1>1, <2>1, <2>2 DEF Settled
<1>3. CASE c = d /\ WriteOut(d)
  <2>1. sent[c] = <<>> /\ client[c] = "open"
    BY <1>3 DEF WriteOut, NetInv, FreshInv
  <2>2. Len(<<>>) = 0 /\ taken[c] = 0
    BY <1>1, <2>1, EmptySeq
  <2>3. LineEnd(sent[c]) = 0 /\ LineLength(sent[c]) = 0
    <3>1. LineEnd(sent[c]) = 0 \/ LineEnd(sent[c]) \in 1..Len(sent[c])
      BY <1>1, LineEndIs
    <3>2. Len(sent[c]) = 0
      BY <2>1, <2>2
    <3>3. LineEnd(sent[c]) = 0
      BY <3>1, <3>2
    <3>4. QED
      BY <3>2, <3>3 DEF LineLength
  <2>4. \A n : ~Settled(sent[c], client[c], n)
    BY <1>1, <2>1, <2>3 DEF Settled
  <2>5. Len(sent'[c]) \in Nat
    <3>1. PICK m \in 0..MaxMessage :
             sent' = [sent EXCEPT ![c] = [i \in 1..m |-> "x"] \o <<"nl", "nl">>]
      BY <1>3 DEF WriteOut
    <3>2. m \in Nat
      BY JavaAssumption
    <3>3. sent'[c] \in Seq({"x", "nl"})
      BY <3>1, <3>2, Message DEF TypeInv, TypeOK
    <3>4. QED
      BY <3>3, LenProperties
  <2>6. QED
    BY <1>1, <2>1, <2>2, <2>4, <2>5
<1>4. CASE c = d /\ SendToken(d)
  <2>1. /\ client'[c] = client[c] /\ client[c] = "open"
        /\ \E t \in Tokens : sent'[c] = Append(sent[c], t)
    BY <1>4 DEF SendToken, TypeInv, TypeOK, Tokens
  <2>2. PICK t \in Tokens : sent'[c] = Append(sent[c], t)
    BY <2>1
  <2>3. /\ Len(sent'[c]) = Len(sent[c]) + 1 /\ sent'[c] \in Seq(Tokens)
        /\ \A i \in 1..Len(sent[c]) : sent'[c][i] = sent[c][i]
    BY <1>1, <2>2, AppendProperties
  <2>4. /\ LineEnd(sent[c]) # 0 => LineEnd(sent'[c]) = LineEnd(sent[c])
        /\ LineLength(sent[c]) <= LineLength(sent'[c])
    BY <1>1, <2>2, LineGrows
  <2>5. ASSUME NEW n, Settled(sent[c], client[c], n)
        PROVE  Settled(sent'[c], client'[c], n)
    <3>1. CASE LineEnd(sent[c]) # 0
      BY <2>1, <2>4, <2>5, <3>1 DEF Settled, LineLength
    <3>2. CASE LineLength(sent[c]) >= MaxChars
      <4>1. LineLength(sent[c]) \in Nat /\ LineLength(sent'[c]) \in Nat
        BY <1>1, <2>3, LineLengthType, LenProperties
      <4>2. LineLength(sent'[c]) >= MaxChars
        BY <1>1, <2>4, <3>2, <4>1
      <4>3. n = MaxChars
        BY <1>1, <2>5, <3>2, <4>1 DEF Settled, Lesser
      <4>4. Lesser(LineLength(sent'[c]), MaxChars) = MaxChars
        BY <1>1, <4>1, <4>2 DEF Lesser
      <4>5. QED
        BY <4>2, <4>3, <4>4 DEF Settled
    <3>3. QED
      BY <2>1, <2>5, <3>1, <3>2 DEF Settled
  <2>6. QED
    BY <1>1, <2>1, <2>3, <2>5
<1>5. QED
  BY <1>2, <1>3, <1>4

\* Where a fill ends the loop, what it has appended is the first line, cut.
LEMMA FillLine ==
  ASSUME TypeInv, NEW a \in Addresses, Fill(a), ReceiveInv
  PROVE  \/ /\ pc'[a] = "receive"
            /\ result'[a] = taken'[serving[a]] /\ result'[a] < MaxChars
            /\ \A i \in 1..taken'[serving[a]] : sent[serving[a]][i] # "nl"
         \/ /\ pc'[a] = "answer"
            /\ Settled(sent[serving[a]], client[serving[a]], result'[a])
<1> DEFINE c == serving[a]
           s == sent[c]
           r == taken[c]
<1>1. PICK n \in 1..MaxChars :
         LET chunk == SubSeq(Unread(c), 1, n)
         IN  /\ n <= Len(s) - r /\ r + n <= Len(s)
             /\ taken' = [taken EXCEPT ![c] = @ + n]
             /\ result' = [result EXCEPT ![a] =
                              @ + Lesser(LineLength(chunk), MaxChars - result[a])]
             /\ pc' = [pc EXCEPT ![a] =
                           IF LineEnd(chunk) # 0 \/ result'[a] = MaxChars
                           THEN "answer" ELSE "receive"]
             /\ chunk \in Seq(Tokens) /\ Len(chunk) = n
             /\ \A i \in 1..n : chunk[i] = s[r + i]
  BY FillAmount
<1> DEFINE chunk == SubSeq(Unread(c), 1, n)
<1>2. /\ pc[a] = "receive" /\ c \in Clients /\ s \in Seq(Tokens)
      /\ r \in Nat /\ Len(s) \in Nat /\ r <= Len(s)
  BY Serves, LenProperties DEF Fill, Busy
<1>3. result[a] = r /\ r < MaxChars /\ (\A i \in 1..r : s[i] # "nl") /\ MaxChars \in Nat
  BY <1>2, JavaAssumption DEF ReceiveInv
<1>4. /\ taken'[c] = r + n
      /\ result'[a] = r + Lesser(LineLength(chunk), MaxChars - r)
      /\ pc'[a] = IF LineEnd(chunk) # 0 \/ result'[a] = MaxChars THEN "answer" ELSE "receive"
  BY <1>1, <1>2, <1>3 DEF TypeInv, TypeOK
<1>5. /\ chunk \in Seq(Tokens) /\ Len(chunk) = n /\ r + n <= Len(s)
      /\ \A i \in 1..n : chunk[i] = s[r + i]
  BY <1>1
<1> HIDE DEF chunk, s, r, c
<1>6. CASE LineEnd(chunk) = 0
  <2>1. LineLength(chunk) = n /\ \A i \in 1..n : chunk[i] # "nl"
    BY <1>5, <1>6, LineEndIs DEF LineLength
  <2>2. ASSUME NEW i \in 1..r + n
        PROVE  s[i] # "nl"
    <3>1. CASE i \in 1..r
      BY <1>3, <3>1
    <3>2. CASE i \notin 1..r
      <4>1. i - r \in 1..n /\ r + (i - r) = i
        BY <1>2, <3>2
      <4>2. QED
        BY <1>5, <2>1, <4>1
    <3>3. QED
      BY <3>1, <3>2
  <2>3. CASE n < MaxChars - r
    <3>1. result'[a] = r + n /\ r + n < MaxChars
      BY <1>2, <1>3, <1>4, <2>1, <2>3 DEF Lesser
    <3>2. pc'[a] = "receive"
      BY <1>2, <1>3, <1>4, <1>6, <3>1
    <3>3. QED
      BY <1>4, <2>2, <3>1, <3>2 DEF c, s
  <2>4. CASE ~(n < MaxChars - r)
    <3>1. result'[a] = MaxChars
      <4>1. Lesser(LineLength(chunk), MaxChars - r) = MaxChars - r
        BY <2>1, <2>4 DEF Lesser
      <4>2. QED
        BY <1>2, <1>3, <1>4, <4>1
    <3>2. r + n <= LineLength(s) /\ LineLength(s) \in Nat
      <4>1. r + n \in 0..Len(s)
        BY <1>2, <1>5
      <4>2. LineLength(s) \in 0..Len(s)
        BY <1>2, LineLengthType
      <4>3. QED
        BY <1>2, <2>2, <4>1, <4>2, LineLengthFrom
    <3>3. LineLength(s) >= MaxChars
      BY <1>2, <1>3, <2>4, <3>2
    <3>4. Lesser(LineLength(s), MaxChars) = MaxChars
      BY <1>3, <3>2, <3>3 DEF Lesser
    <3>5. Settled(s, client[c], result'[a])
      BY <3>1, <3>3, <3>4 DEF Settled
    <3>6. QED
      BY <1>4, <3>1, <3>5 DEF c, s
  <2>5. QED
    BY <2>3, <2>4
<1>7. CASE LineEnd(chunk) # 0
  <2> DEFINE k == LineEnd(chunk)
  <2>1. k \in 1..n /\ chunk[k] = "nl" /\ \A i \in 1..k - 1 : chunk[i] # "nl"
    BY <1>5, <1>7, LineEndIs
  <2>2. LineLength(chunk) = k - 1
    BY <1>7 DEF LineLength
  <2> HIDE DEF k
  <2>3. r + k \in 1..Len(s) /\ s[r + k] = "nl"
    BY <1>2, <1>5, <2>1
  <2>4. ASSUME NEW i \in 1..(r + k) - 1
        PROVE  s[i] # "nl"
    <3>1. CASE i \in 1..r
      BY <1>3, <3>1
    <3>2. CASE i \notin 1..r
      <4>1. i - r \in 1..n /\ i - r \in 1..k - 1 /\ r + (i - r) = i
        BY <1>2, <2>1, <3>2
      <4>2. QED
        BY <1>5, <2>1, <4>1
    <3>3. QED
      BY <3>1, <3>2
  <2>5. LineEnd(s) = r + k
    BY <1>2, <2>3, <2>4, LineEndAt
  <2>6. LineEnd(s) # 0 /\ LineLength(s) = (r + k) - 1
    BY <1>2, <2>1, <2>5 DEF LineLength
  <2>7. r + Lesser(k - 1, MaxChars - r) = Lesser((r + k) - 1, MaxChars)
    BY <1>2, <1>3, <2>1 DEF Lesser
  <2>8. Settled(s, client[c], result'[a])
    BY <1>4, <2>2, <2>6, <2>7 DEF Settled
  <2>9. QED
    BY <1>4, <1>7, <2>8 DEF c, s
<1>8. QED
  BY <1>6, <1>7

-----------------------------------------------------------------------------
(* The invariant is kept. *)

LEMMA InitInv == Init => IInv
<1> SUFFICES ASSUME Init PROVE IInv
  OBVIOUS
<1>1. TypeInv
  BY InitType
<1>2. QueueInv
  <2>1. Len(<<>>) = 0
    BY EmptySeq
  <2>2. QED
    BY <2>1 DEF Init, QueueInv
<1>3. ServingInv /\ FreshInv /\ ReceiveInv /\ AnswerInv /\ ResetInv
  BY DEF Init, ServingInv, FreshInv, ReceiveInv, AnswerInv, ResetInv
<1>4. QED
  BY <1>1, <1>2, <1>3 DEF IInv, NetInv

\* A thread leaves the other thread, its client and its result alone.
LEMMA OtherThread ==
  ASSUME TypeInv, NetInv, NEW a \in Addresses, Thread(a), NEW b \in Addresses, b # a
  PROVE  /\ pc'[b] = pc[b] /\ serving'[b] = serving[b] /\ result'[b] = result[b]
         /\ pc[b] \in Busy => taken'[serving[b]] = taken[serving[b]]
<1>1. pc'[b] = pc[b] /\ serving'[b] = serving[b] /\ result'[b] = result[b]
  <2>1. CASE Fill(a)
    BY <2>1, FillAmount DEF Fill, TypeInv, TypeOK
  <2>2. CASE ~Fill(a)
    BY <2>2
    DEF Thread, Start, Accept, ReceiveEnd, SendReply, CloseSocket, netVars, TypeInv, TypeOK
  <2>3. QED
    BY <2>1, <2>2
<1>2. ASSUME pc[b] \in Busy
      PROVE  taken'[serving[b]] = taken[serving[b]]
  <2>1. serving[b] \in Clients /\ serving[b] # None
    BY <1>2, Serves
  <2>2. CASE Fill(a)
    <3>1. PICK n \in 1..MaxChars : taken' = [taken EXCEPT ![serving[a]] = @ + n]
      BY <2>2, Zenon DEF Fill
    <3>2. serving[b] # serving[a]
      BY <2>1, ServedByOne
    <3>3. QED
      BY <2>1, <3>1, <3>2 DEF TypeInv, TypeOK
  <2>3. CASE ~Fill(a)
    BY <2>3 DEF Thread, Start, Accept, ReceiveEnd, SendReply, CloseSocket, netVars
  <2>4. QED
    BY <2>2, <2>3
<1>3. QED
  BY <1>1, <1>2

LEMMA ThreadReceive ==
  ASSUME TypeInv, NetInv, ReceiveInv, NEW a \in Addresses, Thread(a)
  PROVE  ReceiveInv'
<1>1. ASSUME NEW b \in Addresses, pc'[b] = "receive"
      PROVE  /\ result'[b] = taken'[serving'[b]] /\ result'[b] < MaxChars
             /\ \A i \in 1..taken'[serving'[b]] : sent'[serving'[b]][i] # "nl"
  <2>1. sent' = sent
    BY DEF Thread, Start, Accept, Fill, ReceiveEnd, SendReply, CloseSocket, netVars
  <2>2. CASE b # a
    BY <1>1, <2>1, <2>2, OtherThread DEF ReceiveInv, Busy
  <2>3. CASE b = a /\ Accept(a)
    <3>1. Head(queue[a]) = queue[a][1] /\ 1 \in 1..Len(queue[a])
      BY <2>3, HeadTail DEF Accept
    <3>2. serving'[a] = queue[a][1] /\ taken[queue[a][1]] = 0 /\ result'[a] = 0 /\ taken' = taken
      BY <2>3, <3>1 DEF Accept, TypeInv, TypeOK, NetInv, QueueInv
    <3>3. QED
      BY <2>3, <3>2, JavaAssumption
  <2>4. CASE b = a /\ Fill(a)
    BY <1>1, <2>1, <2>4, FillLine DEF Fill
  <2>5. CASE b = a /\ (Start(a) \/ ReceiveEnd(a) \/ SendReply(a) \/ CloseSocket(a))
    BY <1>1, <2>5 DEF Start, ReceiveEnd, SendReply, CloseSocket, TypeInv, TypeOK
  <2>6. QED
    BY <2>2, <2>3, <2>4, <2>5 DEF Thread
<1>2. QED
  BY <1>1 DEF ReceiveInv

\* receiveIn ends with the line, its limit of it, or all of a client that has gone.
LEMMA ReceivedAll ==
  ASSUME TypeInv, ReceiveInv, NEW a \in Addresses, ReceiveEnd(a)
  PROVE  \/ client[serving[a]] = "reset"
         \/ Settled(sent[serving[a]], client[serving[a]], result[a])
<1> DEFINE c == serving[a]
<1>1. CASE client[c] = "closed" /\ Unread(c) = <<>>
  <2>1. /\ pc[a] = "receive" /\ c \in Clients /\ sent[c] \in Seq(Tokens)
        /\ taken[c] \in Nat /\ taken[c] <= Len(sent[c])
    BY Serves DEF ReceiveEnd, Busy
  <2>2. taken[c] = Len(sent[c])
    BY <1>1, <2>1, UnreadIs
  <2>3. /\ result[a] = Len(sent[c]) /\ Len(sent[c]) < MaxChars
        /\ \A i \in 1..Len(sent[c]) : sent[c][i] # "nl"
    BY <2>1, <2>2 DEF ReceiveInv
  <2>4. LineEnd(sent[c]) = 0
    BY <2>1, <2>3, LineEndIs
  <2>5. LineLength(sent[c]) = Len(sent[c])
    BY <2>4 DEF LineLength
  <2>6. QED
    BY <1>1, <2>3, <2>5 DEF Settled, Lesser
<1>2. QED
  BY <1>1 DEF ReceiveEnd

LEMMA ThreadAnswer ==
  ASSUME TypeInv, NetInv, ReceiveInv, AnswerInv, NEW a \in Addresses, Thread(a)
  PROVE  AnswerInv'
<1>1. sent' = sent /\ client' = client
  BY DEF Thread, Start, Accept, Fill, ReceiveEnd, SendReply, CloseSocket, netVars
<1>2. ASSUME NEW b \in Addresses, pc'[b] = "answer"
      PROVE  \/ client[serving'[b]] = "reset"
             \/ Settled(sent[serving'[b]], client[serving'[b]], result'[b])
  <2>1. CASE b # a
    BY <1>2, <2>1, OtherThread DEF AnswerInv
  <2>2. CASE b = a /\ Fill(a)
    BY <1>2, <2>2, FillLine DEF Fill
  <2>3. CASE b = a /\ ReceiveEnd(a)
    BY <2>3, ReceivedAll DEF ReceiveEnd
  <2>4. CASE b = a /\ (Start(a) \/ Accept(a) \/ SendReply(a) \/ CloseSocket(a))
    BY <1>2, <2>4 DEF Start, Accept, SendReply, CloseSocket, TypeInv, TypeOK
  <2>5. QED
    BY <2>1, <2>2, <2>3, <2>4 DEF Thread
<1>3. ASSUME NEW c \in Clients, answer'[c] # None
      PROVE  Settled(sent[c], client[c], answer'[c])
  <2>1. CASE ~SendReply(a)
    <3>1. answer' = answer
      BY <2>1 DEF Thread, Start, Accept, Fill, ReceiveEnd, CloseSocket, netVars
    <3>2. QED
      BY <1>3, <3>1 DEF AnswerInv
  <2>2. CASE SendReply(a) /\ (client[serving[a]] = "reset" \/ c # serving[a])
    <3>1. answer'[c] = answer[c]
      BY <2>2 DEF SendReply, TypeInv, TypeOK
    <3>2. QED
      BY <1>3, <3>1 DEF AnswerInv
  <2>3. CASE SendReply(a) /\ client[serving[a]] # "reset" /\ c = serving[a]
    <3>1. answer'[c] = result[a] /\ pc[a] = "answer"
      BY <2>3 DEF SendReply, TypeInv, TypeOK
    <3>2. QED
      BY <2>3, <3>1 DEF AnswerInv
  <2>4. QED
    BY <2>1, <2>2, <2>3
<1>4. QED
  BY <1>1, <1>2, <1>3, Zenon DEF AnswerInv

LEMMA ServerReset ==
  ASSUME TypeInv, NetInv, ResetInv, NEW a \in Addresses, Thread(a) \/ AcceptFails(a)
  PROVE  ResetInv'
<1>1. sent' = sent /\ outcome' = outcome
  BY DEF Thread, Start, Accept, AcceptFails, Fill, ReceiveEnd, SendReply, CloseSocket, netVars
<1>2. CASE AcceptFails(a)
  <2>1. Dead' /\ \A c \in Clients : conn[c] = "reset" => conn'[c] = "reset"
    BY <1>2 DEF AcceptFails, Dead
  <2>2. QED
    BY <1>1, <2>1 DEF ResetInv
<1>3. CASE Thread(a)
  <2>1. Dead => Dead'
    <3>1. ASSUME NEW b \in Addresses, pc[b] = "dead"
          PROVE  pc'[b] = "dead"
      <4>1. b # a
        BY <1>3, <3>1 DEF Thread, Start, Accept, Fill, ReceiveEnd, SendReply, CloseSocket
      <4>2. QED
        BY <1>3, <3>1, <4>1, OtherThread
    <3>2. QED
      BY <3>1 DEF Dead
  <2>2. CASE Fill(a)
    <3>1. PICK n \in 1..MaxChars : taken' = [taken EXCEPT ![serving[a]] = @ + n]
      BY <2>2, Zenon DEF Fill
    <3>2. serving[a] \in Clients /\ conn[serving[a]] = "open" /\ conn' = conn
      BY <2>2, Serves DEF Fill, Busy, NetInv, ServingInv
    <3>3. \A c \in Clients : c # serving[a] => taken'[c] = taken[c]
      BY <3>1, <3>2 DEF TypeInv, TypeOK
    <3>4. QED
      BY <1>1, <2>1, <3>2, <3>3 DEF ResetInv
  <2>3. CASE CloseSocket(a)
    <3>1. /\ serving[a] \in Clients /\ conn[serving[a]] = "open"
          /\ sent[serving[a]] \in Seq(Tokens) /\ taken[serving[a]] \in Nat
          /\ taken[serving[a]] <= Len(sent[serving[a]]) /\ Len(sent[serving[a]]) \in Nat
      BY <2>3, Serves, LenProperties DEF CloseSocket, Busy, NetInv, ServingInv
    <3>2. /\ conn' = [conn EXCEPT ![serving[a]] =
                         IF Unread(serving[a]) = <<>> THEN "closed" ELSE "reset"]
          /\ taken' = taken
      BY <2>3 DEF CloseSocket
    <3>3. conn'[serving[a]] = "reset" => taken[serving[a]] < Len(sent[serving[a]])
      <4>1. conn'[serving[a]] = "reset" => Unread(serving[a]) # <<>>
        BY <3>1, <3>2 DEF TypeInv, TypeOK
      <4>2. Unread(serving[a]) # <<>> => taken[serving[a]] # Len(sent[serving[a]])
        BY <3>1, UnreadIs
      <4>3. QED
        BY <3>1, <4>1, <4>2
    <3>4. \A c \in Clients : c # serving[a] => conn'[c] = conn[c]
      BY <3>1, <3>2 DEF TypeInv, TypeOK
    <3>5. QED
      BY <1>1, <2>1, <3>1, <3>2, <3>3, <3>4 DEF ResetInv
  <2>4. CASE ~Fill(a) /\ ~CloseSocket(a)
    <3>1. conn' = conn /\ taken' = taken
      BY <1>3, <2>4 DEF Thread, Start, Accept, ReceiveEnd, SendReply, netVars
    <3>2. QED
      BY <1>1, <2>1, <3>1 DEF ResetInv
  <2>5. QED
    BY <2>2, <2>3, <2>4
<1>4. QED
  BY <1>2, <1>3

\* What clients do disturbs nothing that was read or answered.
LEMMA ClientInv ==
  ASSUME IInv, NEW d \in Clients, ClientStep(d)
  PROVE  ReceiveInv' /\ AnswerInv' /\ ResetInv'
<1> USE DEF IInv
<1>1. /\ UNCHANGED <<pc, serving, result, taken, answer, conn>>
      /\ \A c \in Clients : outcome'[c] = "less" => outcome[c] = "less" \/ conn[c] = "reset"
  BY DEF ClientStep, Connect, WriteOut, ReadIn, SendToken, HangUp, Abort, serverVars, netVars,
         TypeInv, TypeOK
<1>2. \A c \in Clients :
         /\ Len(sent[c]) <= Len(sent'[c])
         /\ \A i \in 1..taken[c] : sent'[c][i] = sent[c][i]
         /\ client[c] = "reset" => client'[c] = "reset"
         /\ \A n : Settled(sent[c], client[c], n) => Settled(sent'[c], client'[c], n)
  BY ClientKeeps
<1>3. \A a \in Addresses : pc[a] \in {"receive", "answer"} => serving[a] \in Clients
  BY Serves DEF Busy
<1>4. ReceiveInv'
  BY <1>1, <1>2, <1>3 DEF ReceiveInv
<1>5. AnswerInv'
  BY <1>1, <1>2, <1>3 DEF AnswerInv
<1>6. ResetInv'
  <2>1. TypeInv'
    BY ClientType
  <2>2. \A c \in Clients : Len(sent[c]) \in Nat /\ Len(sent'[c]) \in Nat /\ taken[c] \in Nat
    BY <2>1, LenProperties DEF TypeInv, TypeOK
  <2>3. Dead => Dead'
    BY <1>1 DEF Dead
  <2>4. QED
    BY <1>1, <1>2, <2>2, <2>3 DEF ResetInv
<1>7. QED
  BY <1>4, <1>5, <1>6

LEMMA NextInv == IInv /\ [Next]_vars => IInv'
<1> SUFFICES ASSUME IInv, [Next]_vars PROVE IInv'
  OBVIOUS
<1>1. ASSUME NEW a \in Addresses, Thread(a)
      PROVE  IInv'
  BY <1>1, ServerType, ServerNet, ThreadReceive, ThreadAnswer, ServerReset DEF IInv
<1>2. ASSUME NEW a \in Addresses, AcceptFails(a)
      PROVE  IInv'
  <2>1. TypeInv' /\ NetInv' /\ ResetInv'
    BY <1>2, ServerType, ServerNet, ServerReset DEF IInv
  <2>2. ReceiveInv' /\ AnswerInv'
    BY <1>2 DEF IInv, AcceptFails, ReceiveInv, AnswerInv
  <2>3. QED
    BY <2>1, <2>2 DEF IInv
<1>3. ASSUME NEW c \in Clients, ClientStep(c)
      PROVE  IInv'
  BY <1>3, ClientType, ClientNet, ClientInv DEF IInv
<1>4. CASE UNCHANGED vars
  BY <1>4
  DEF vars, serverVars, netVars, IInv, TypeInv, TypeOK, NetInv, QueueInv, ServingInv, FreshInv,
      ReceiveInv, AnswerInv, ResetInv, Dead
<1>5. QED
  BY <1>1, <1>2, <1>3, <1>4 DEF Next, ClientStep

\* The invariant holds in every reachable state.
THEOREM Inductive == Spec => []IInv
<1>1. QED
  BY InitInv, NextInv, PTL DEF Spec

\* Types: nobody is served in a thread that waits in accept or has ended, and
\* the server never reads more than was sent (EchoServer.run 87-140).
THEOREM JavaTypeCorrect == Spec => []TypeOK
<1>1. IInv => TypeOK
  BY DEF IInv, TypeInv
<1>2. QED
  BY <1>1, Inductive, PTL

\* Every answer quotes the client's first line, cut at MAXCHARS, however the
\* stream came in pieces and whatever the client sent or did afterwards
\* (receiveIn 156-179).
THEOREM QuotesTheLine == Spec => []AnswersTheLine
<1>1. IInv => AnswersTheLine
  BY Zenon DEF IInv, AnswerInv, AnswersTheLine, Settled
<1>2. QED
  BY <1>1, Inductive, PTL

\* EchoClient goes without its answer only where the process exited or the
\* server closed a connection it had not read to the end (run 117-139).
THEOREM LessExplained == Spec => []LessCause
<1>1. ASSUME IInv, NEW c \in Clients, outcome[c] = "less"
      PROVE  Dead \/ (conn[c] = "reset" /\ Unread(c) # <<>>)
  <2>1. conn[c] = "reset" /\ (Dead \/ taken[c] < Len(sent[c]))
    BY <1>1 DEF IInv, ResetInv
  <2>2. sent[c] \in Seq(Tokens) /\ taken[c] \in Nat /\ taken[c] <= Len(sent[c])
    BY <1>1 DEF IInv, TypeInv, TypeOK, Tokens
  <2>3. taken[c] < Len(sent[c]) => Unread(c) # <<>>
    <3>1. Len(sent[c]) \in Nat
      BY <2>2, LenProperties
    <3>2. QED
      BY <2>2, <3>1, UnreadIs
  <2>4. QED
    BY <2>1, <2>3
<1>2. IInv => LessCause
  BY <1>1 DEF LessCause
<1>3. QED
  BY <1>2, Inductive, PTL
=============================================================================

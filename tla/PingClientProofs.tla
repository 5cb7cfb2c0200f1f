-------------------------- MODULE PingClientProofs --------------------------
(***************************************************************************)
(* Proofs about client6 on its connection, for any words, buffer length    *)
(* and stack: the types, and that what ping prints begins with its own     *)
(* line.  What handle_client does is EchoConnProofs' to show.              *)
(***************************************************************************)
EXTENDS PingClient, SequenceTheorems, TLAPS

\* The same handle_client, with what is proved of it.
Conn == INSTANCE EchoConnProofs WITH pc <- srv, MaxBytes <- 3 * BufLen

Chars == Bytes \ {Nul}

-----------------------------------------------------------------------------
(* The loop over argv. *)

\* One word: what Glue folds.
OneWord(m, w) ==
    IF m.full \/ Len(m.text) + Len(w) >= BufLen
    THEN [m EXCEPT !.full = TRUE]
    ELSE [m EXCEPT !.text = @ \o w \o <<Space>>]

Argv == INSTANCE FoldProofs WITH Op <- OneWord

\* What strncpy has put in outmsg fits it.
Fitting == {s \in Seq(Chars) : Len(s) <= BufLen}

\* Each word is a whole one or none of it is there, and what is there fits
\* outmsg.
LEMMA WordFits ==
  ASSUME NEW m \in [text : Fitting, full : BOOLEAN], NEW w \in Seq(Chars)
  PROVE  OneWord(m, w) \in [text : Fitting, full : BOOLEAN]
<1>1. m.text \in Seq(Chars) /\ Len(m.text) \in Nat /\ Len(w) \in Nat /\ BufLen \in Nat
  BY PingAssumption DEF Fitting
<1>2. CASE m.full \/ Len(m.text) + Len(w) >= BufLen
  BY <1>2 DEF OneWord
<1>3. CASE ~(m.full \/ Len(m.text) + Len(w) >= BufLen)
  <2> DEFINE t == m.text \o w \o <<Space>>
  <2>1. Space \in Chars
    BY PingAssumption DEF Chars
  <2>2. t \in Seq(Chars) /\ Len(t) = Len(m.text) + Len(w) + 1
    BY <1>1, <2>1
  <2>3. t \in Fitting
    BY <1>1, <1>3, <2>2 DEF Fitting
  <2>4. OneWord(m, w) = [m EXCEPT !.text = t]
    BY <1>3 DEF OneWord
  <2> HIDE DEF t
  <2>5. QED
    BY <2>3, <2>4
<1>4. QED
  BY <1>2, <1>3

\* The loop of main writes no byte past outmsg, whatever the words.
THEOREM GlueFits ==
  ASSUME NEW words \in Seq(Seq(Chars))
  PROVE  Glue(words) \in Seq(Chars) /\ Len(Glue(words)) <= BufLen
<1> DEFINE start == [text |-> <<>>, full |-> FALSE]
<1>1. start \in [text : Fitting, full : BOOLEAN]
  <2>1. <<>> \in Seq(Chars) /\ Len(<<>>) = 0 /\ BufLen \in Nat
    BY PingAssumption
  <2>2. QED
    BY <2>1 DEF Fitting
<1>2. Argv!Fold(start, words) \in [text : Fitting, full : BOOLEAN]
  BY <1>1, WordFits, Argv!FoldType
<1>3. Glue(words) = Argv!Fold(start, words).text
  BY DEF Glue, OneWord, Argv!Fold, FoldLeft, Argv!FoldLeft, MapThenFoldSet,
         Argv!MapThenFoldSet, Max, Argv!Max
<1>4. QED
  BY <1>2, <1>3 DEF Fitting

-----------------------------------------------------------------------------
(* handle_client, as EchoConnProofs has it. *)

LEMMA ConnAssumed == Conn!ConnAssumption
BY PingAssumption DEF Conn!ConnAssumption

LEMMA SameTypes == Server!TypeOK <=> Conn!TypeOK
BY DEF Server!TypeOK, Conn!TypeOK

LEMMA SameStrings == \A b : Server!CStrings(b) = Conn!CStrings(b) /\ Server!Full(b) = Conn!Full(b)
BY DEF Server!CStrings, Conn!CStrings, Server!Full, Conn!Full, Server!ToSet, Conn!ToSet

\* The steps are the same, too.
LEMMA SameSteps ==
  /\ Server!handle_client => Conn!handle_client
  /\ Server!ResetArrives => Conn!ResetArrives
<1>1. Server!ResetArrives => Conn!ResetArrives
  BY DEF Server!ResetArrives, Conn!ResetArrives, Server!server, Conn!server
<1>2. Server!RecvBytes => Conn!RecvBytes
  BY DEF Server!RecvBytes, Conn!RecvBytes, Server!MayReceive, Conn!MayReceive
<1>3. Server!RecvError => Conn!RecvError
  BY DEF Server!RecvError, Conn!RecvError, Server!MayReceive, Conn!MayReceive
<1>4. Server!RecvEof => Conn!RecvEof
  BY DEF Server!RecvEof, Conn!RecvEof, Server!MayReceive, Conn!MayReceive
<1>5. Server!LeaveLoop => Conn!LeaveLoop
  BY DEF Server!LeaveLoop, Conn!LeaveLoop, Server!MayReceive, Conn!MayReceive
<1>6. Server!SendString => Conn!SendString
  BY SameStrings DEF Server!SendString, Conn!SendString
<1>7. Server!SendKilled => Conn!SendKilled
  BY DEF Server!SendKilled, Conn!SendKilled
<1>8. QED
  BY <1>1, <1>2, <1>3, <1>4, <1>5, <1>6, <1>7 DEF Server!handle_client, Conn!handle_client

-----------------------------------------------------------------------------
(* The invariant. *)

\* What of its line client6 has sent, and how far it is with the answer.
AtInv ==
    /\ heard \in {<<>>, Line}
    /\ at \in {"words", "connect", "send", "refused"} => heard = <<>>
    /\ at \in {"recv", "print", "close"} => heard = Line
    /\ at \notin {"exited", "crashed"} => client = "open"
    /\ at \in {"words", "connect", "send", "recv"} => got = 0

\* What has been said is the beginning of what was heard.
SaidFirst == Len(said) <= Len(heard) /\ \A i \in 1..Len(said) : said[i] = heard[i]

\* It is, unless a buffer overran or the client is gone; also where the server
\* was killed between its recv and its send.
Follows ==
    /\ srv # "left" => Conn!UpToNul
    /\ sock = "up" /\ ~overran => SaidFirst

\* What ping has of the answer when recv has returned, and has printed.
Receipt ==
    /\ at \in {"print", "close"} /\ got = 0 => said = <<>> /\ srv = "left"
    /\ at = "close" => got <= Len(printed) /\ \A i \in 1..got : printed[i] = said[i]

IInv == TypeOK /\ AtInv /\ Follows /\ Receipt

\* The line ends behind the words, and has no null byte before sprintf's own.
LEMMA LineType ==
  ASSUME outmsg \in Seq(Chars)
  PROVE  Line \in Seq(Chars) /\ Len(Line) = Len(outmsg) + 2
<1>1. Cr \in Chars /\ Lf \in Chars
  BY PingAssumption DEF Chars
<1>2. QED
  BY <1>1 DEF Line

\* The lengths and types that the steps below use.
LEMMA Lengths ==
  ASSUME TypeOK
  PROVE  /\ said \in Seq(Chars) /\ said \in Seq(Bytes) /\ Len(said) \in Nat
         /\ heard \in Seq(Bytes) /\ Len(heard) \in Nat
         /\ buf \in Seq(Bytes) /\ Len(buf) \in Nat
         /\ taken \in 0..Len(heard) /\ taken \in Nat
         /\ got \in Nat /\ got <= Len(said) /\ BufLen \in Nat
         /\ outmsg \in Seq(Chars) /\ printed \in Seq(Chars)
<1>1. /\ Server!TypeOK /\ got \in 0..BufLen /\ got <= Len(said)
      /\ outmsg \in Seq(Chars) /\ printed \in Seq(Chars)
  BY DEF TypeOK, Chars
<1>2. said \in Seq(Chars) /\ said \in Seq(Bytes)
  BY <1>1, SeqMonotonic DEF Server!TypeOK, Chars
<1>3. QED
  BY <1>1, <1>2, PingAssumption DEF Server!TypeOK

-----------------------------------------------------------------------------
(* Steps of the server. *)

\* What has been said stays said.
LEMMA SaidGrows ==
  ASSUME TypeOK, Server!handle_client
  PROVE  /\ Len(said) <= Len(said') /\ \A i \in 1..Len(said) : said'[i] = said[i]
         /\ srv # "left" /\ UNCHANGED <<heard, client>>
<1>1. srv # "left" /\ UNCHANGED <<heard, client>>
  BY DEF Server!handle_client, Server!RecvBytes, Server!RecvError, Server!RecvEof,
         Server!LeaveLoop, Server!SendString, Server!SendKilled, Server!MayReceive
<1>2. said' = said \/ \E s \in Seq(Chars) : said' = said \o s
  <2>1. CASE Server!SendString
    <3>1. PICK s \in Conn!CStrings(buf) : said' = said \/ said' = said \o s
      BY <2>1, SameStrings DEF Server!SendString
    <3>2. s \in Seq(Chars)
      BY Conn!CStringsType, ConnAssumed, Lengths DEF Chars
    <3>3. QED
      BY <3>1, <3>2
  <2>2. CASE ~Server!SendString
    BY <2>2 DEF Server!handle_client, Server!RecvBytes, Server!RecvError, Server!RecvEof,
         Server!LeaveLoop, Server!SendKilled
  <2>3. QED
    BY <2>1, <2>2
<1>3. QED
  BY <1>1, <1>2, Lengths

\* A line has no null byte, so what UpToNul says is said from its beginning.
LEMMA Beginning ==
  ASSUME TypeOK, AtInv, Conn!UpToNul, sock = "up", ~overran
  PROVE  SaidFirst
<1>1. \A i \in 1..Len(heard) : heard[i] # Nul
  <2>1. heard \in Seq(Chars)
    BY Lengths, LineType DEF AtInv
  <2>2. QED
    BY <2>1 DEF Chars
<1>2. PICK t \in 0..taken : Conn!Echoed(t)
  <2>1. taken \in 0..taken /\ (Len(buf) <= taken => taken - Len(buf) \in 0..taken)
    BY Lengths
  <2>2. CASE srv # "send"
    BY <2>1, <2>2 DEF Conn!UpToNul
  <2>3. CASE srv = "send"
    BY <2>1, <2>3 DEF Conn!UpToNul
  <2>4. QED
    BY <2>2, <2>3
<1>3. Conn!Clean(t) /\ t \in 0..t /\ t <= Len(heard)
  BY <1>1, Lengths DEF Conn!Clean
<1>4. Len(said) = t /\ \A i \in 1..t : said[i] = heard[i]
  BY <1>2, <1>3 DEF Conn!Echoed
<1>5. QED
  BY <1>3, <1>4 DEF SaidFirst

\* And so it is after a step.
LEMMA BeginningThen ==
  TypeOK' /\ AtInv' /\ Conn!UpToNul' /\ (sock = "up")' /\ (~overran)' => SaidFirst'
<1>1. TypeOK /\ AtInv /\ Conn!UpToNul /\ (sock = "up") /\ (~overran) => SaidFirst
  BY Beginning
<1>2. QED
  BY <1>1, PTL

LEMMA ServerStep ==
  ASSUME IInv, HandleClient \/ (Server!ResetArrives /\ UNCHANGED main)
  PROVE  IInv'
<1>1. /\ TypeOK /\ AtInv /\ Follows /\ Receipt
      /\ UNCHANGED <<at, outmsg, got, printed>>
      /\ Server!handle_client \/ Server!ResetArrives
  BY DEF IInv, HandleClient, main
<1>2. /\ Len(said) <= Len(said') /\ \A i \in 1..Len(said) : said'[i] = said[i]
      /\ UNCHANGED <<heard, client>>
      /\ srv = "left" => UNCHANGED <<srv, said>>
  <2>1. CASE Server!handle_client
    BY <1>1, <2>1, SaidGrows
  <2>2. CASE Server!ResetArrives
    BY <1>1, <2>2, Lengths DEF Server!ResetArrives, Server!server
  <2>3. QED
    BY <1>1, <2>1, <2>2
<1>3. Conn!Next /\ [Conn!Next]_(Conn!vars)
  BY <1>1, SameSteps DEF Conn!Next
<1>4. TypeOK'
  <2>1. Conn!TypeOK
    BY <1>1, SameTypes DEF TypeOK
  <2>2. Conn!TypeOK'
    BY <1>3, <2>1, Conn!TypeStep, ConnAssumed
  <2>3. Server!TypeOK'
    BY <2>2, SameTypes, PTL
  <2>4. Len(said') \in Nat
    BY <2>3 DEF Server!TypeOK
  <2>5. got' <= Len(said')
    BY <1>1, <1>2, <2>4, Lengths
  <2>6. QED
    BY <1>1, <2>3, <2>5 DEF TypeOK
<1>5. AtInv'
  BY <1>1, <1>2 DEF AtInv, Line
<1>6. Follows'
  <2>1. CASE srv # "left"
    <3>1. Conn!TypeOK
      BY <1>1, SameTypes DEF TypeOK
    <3>2. Conn!UpToNul'
      BY <1>1, <1>3, <2>1, <3>1, Conn!UpToNulStep, ConnAssumed DEF Follows
    <3>3. QED
      BY <1>4, <1>5, <3>2, BeginningThen DEF Follows
  <2>2. CASE srv = "left"
    <3>1. sock' # "up"
      BY <1>1, <2>2, SaidGrows DEF Server!ResetArrives
    <3>2. QED
      BY <1>2, <2>2, <3>1 DEF Follows
  <2>3. QED
    BY <2>1, <2>2
<1>7. Receipt'
  <2>1. at = "close" => got <= Len(printed) /\ \A i \in 1..got : printed[i] = said'[i]
    BY <1>1, <1>2, Lengths DEF Receipt
  <2>2. at \in {"print", "close"} /\ got = 0 => said' = <<>> /\ srv' = "left"
    BY <1>1, <1>2 DEF Receipt
  <2>3. QED
    BY <1>1, <2>1, <2>2 DEF Receipt
<1>8. QED
  BY <1>4, <1>5, <1>6, <1>7 DEF IInv

\* A signal may end the server with what it received unsaid.
LEMMA KillStep == ASSUME IInv, Kill PROVE IInv'
<1>1. /\ TypeOK /\ AtInv /\ Follows /\ Receipt /\ srv' = "left"
      /\ UNCHANGED <<at, outmsg, got, printed>>
      /\ UNCHANGED <<buf, bytestotal, sock, taken, client, heard, said, overran>>
  BY DEF IInv, Kill, main
<1>2. TypeOK'
  BY <1>1 DEF TypeOK, Server!TypeOK
<1>3. AtInv'
  BY <1>1 DEF AtInv, Line
<1>4. Follows' /\ Receipt'
  BY <1>1 DEF Follows, SaidFirst, Receipt
<1>5. QED
  BY <1>2, <1>3, <1>4 DEF IInv

-----------------------------------------------------------------------------
(* Steps of client6. *)

\* Steps that neither hear nor say anything.
LEMMA FollowsKept ==
  ASSUME Follows, UNCHANGED <<srv, buf, sock, taken, heard, said, overran>>
  PROVE  Follows'
BY DEF Follows, SaidFirst, Conn!UpToNul, Conn!Echoed, Conn!Clean

LEMMA WordsStep == ASSUME IInv, Words \/ Connect PROVE IInv'
<1>1. /\ TypeOK /\ AtInv /\ Follows /\ Receipt /\ got' = got /\ printed' = printed
      /\ at \in {"words", "connect"} /\ at' \in {"connect", "send", "refused"}
      /\ UNCHANGED <<srv, buf, bytestotal, sock, taken, client, heard, said, overran>>
  BY DEF IInv, Words, Connect, conn
<1>2. outmsg' \in Seq(Chars) /\ \E j \in Junk : Len(outmsg') <= BufLen + Len(j)
  <2>1. CASE Words
    <3>1. PICK words \in Arguments, j \in Junk : outmsg' = Glue(words) \o j
      BY <2>1 DEF Words
    <3>2. words \in Seq(Seq(Chars)) /\ j \in Seq(Chars)
      BY PingAssumption DEF Chars
    <3>3. Glue(words) \in Seq(Chars) /\ Len(Glue(words)) <= BufLen
      BY <3>2, GlueFits
    <3>4. outmsg' \in Seq(Chars) /\ Len(outmsg') = Len(Glue(words)) + Len(j)
      BY <3>1, <3>2, <3>3
    <3>5. Len(Glue(words)) \in Nat /\ Len(j) \in Nat /\ BufLen \in Nat
      BY <3>2, <3>3, PingAssumption
    <3>6. Len(outmsg') <= BufLen + Len(j)
      BY <3>3, <3>4, <3>5
    <3>7. QED
      BY <3>4, <3>6
  <2>2. CASE Connect
    BY <1>1, <2>2 DEF Connect, TypeOK, Chars
  <2>3. QED
    BY <2>1, <2>2
<1>3. TypeOK'
  BY <1>1, <1>2 DEF TypeOK, Server!TypeOK, Chars
<1>4. AtInv'
  BY <1>1 DEF AtInv
<1>5. Follows' /\ Receipt'
  BY <1>1, FollowsKept DEF Receipt
<1>6. QED
  BY <1>3, <1>4, <1>5 DEF IInv

\* The line is all that the server ever hears.
LEMMA SendStep == ASSUME IInv, SendLine PROVE IInv'
<1>1. /\ TypeOK /\ AtInv /\ Follows /\ at = "send" /\ at' = "recv"
      /\ heard = <<>> /\ heard' = heard \o Line
      /\ UNCHANGED <<outmsg, got, printed, srv, buf, bytestotal, sock, taken, client,
                     said, overran>>
  BY DEF IInv, SendLine, AtInv
<1>2. Line \in Seq(Chars) /\ Len(Line) = Len(outmsg) + 2 /\ Len(outmsg) \in Nat
  BY <1>1, Lengths, LineType
<1>3. heard' = Line /\ Line' = Line /\ heard' \in Seq(Bytes)
  <2>1. <<>> \o Line = Line
    BY <1>2
  <2>2. Line \in Seq(Bytes)
    BY <1>2, SeqMonotonic DEF Chars
  <2>3. QED
    BY <1>1, <2>1, <2>2 DEF Line
<1>4. Len(heard') <= 3 * BufLen
  <2>1. PICK j \in Junk : Len(outmsg) <= BufLen + Len(j)
    BY <1>1 DEF TypeOK
  <2>2. Len(j) + 2 <= 2 * BufLen /\ j \in Seq(Chars) /\ BufLen \in Nat
    BY PingAssumption DEF Chars
  <2>3. Len(j) \in Nat
    BY <2>2
  <2>4. Len(Line) <= 3 * BufLen
    BY <1>2, <2>1, <2>2, <2>3
  <2>5. QED
    BY <1>3, <2>4
<1>5. taken = 0
  BY <1>1, Lengths
<1>6. TypeOK'
  <2>1. taken' \in 0..Len(heard')
    BY <1>1, <1>2, <1>3, <1>5
  <2>2. Server!TypeOK'
    BY <1>1, <1>3, <1>4, <2>1 DEF TypeOK, Server!TypeOK
  <2>3. QED
    BY <1>1, <2>2 DEF TypeOK
<1>7. AtInv'
  BY <1>1, <1>3 DEF AtInv
<1>8. Follows'
  <2>1. sock = "up" /\ ~overran => Len(said) = 0
    BY <1>1, Lengths DEF Follows, SaidFirst
  <2>2. SaidFirst' \/ Len(said) # 0
    <3>1. Len(heard') \in Nat
      BY <1>3
    <3>2. QED
      BY <1>1, <3>1 DEF SaidFirst
  <2>3. ASSUME srv # "left"
        PROVE  Conn!UpToNul'
    <3>1. ASSUME sock = "up", ~overran
          PROVE  Conn!Echoed(0)' /\ (srv = "send" => Len(buf) = 0)
      <4>1. Len(said) = 0
        BY <2>1, <3>1
      <4>2. \A n \in 0..0 : n = 0 /\ 1..n = {}
        OBVIOUS
      <4>3. Conn!Echoed(0)'
        BY <1>1, <4>1, <4>2 DEF Conn!Echoed
      <4>4. srv = "send" => Len(buf) <= taken
        BY <1>1, <2>3, <3>1 DEF Follows, Conn!UpToNul
      <4>5. QED
        BY <1>5, <4>3, <4>4, Lengths, <1>1
    <3>2. QED
      BY <1>1, <1>5, <3>1 DEF Conn!UpToNul
  <2>4. QED
    BY <1>1, <2>1, <2>2, <2>3 DEF Follows
<1>9. Receipt'
  BY <1>1 DEF Receipt
<1>10. QED
  BY <1>6, <1>7, <1>8, <1>9 DEF IInv

\* recv has something of what was said, or the server has left.
LEMMA RecvStep == ASSUME IInv, Recv PROVE IInv'
<1>1. /\ TypeOK /\ AtInv /\ Follows /\ at = "recv" /\ at' = "print" /\ got = 0
      /\ UNCHANGED <<outmsg, printed>>
      /\ UNCHANGED <<srv, buf, bytestotal, sock, taken, client, heard, said, overran>>
      /\ \/ got' \in 1..BufLen /\ got' <= Len(said)
         \/ srv = "left" /\ said = <<>> /\ got' = got
  BY DEF IInv, Recv, AtInv, conn
<1>2. TypeOK'
  BY <1>1, Lengths DEF TypeOK, Server!TypeOK
<1>3. AtInv'
  BY <1>1 DEF AtInv, Line
<1>4. Receipt'
  BY <1>1, Lengths DEF Receipt
<1>5. QED
  BY <1>1, <1>2, <1>3, <1>4, FollowsKept DEF IInv

\* What was received comes first in outbuf, and printf begins with it.
LEMMA PrintStep == ASSUME IInv, PrintReply PROVE IInv'
<1>1. /\ TypeOK /\ AtInv /\ Follows /\ Receipt /\ at = "print" /\ at' = "close"
      /\ UNCHANGED <<outmsg, got>>
      /\ UNCHANGED <<srv, buf, bytestotal, sock, taken, client, heard, said, overran>>
  BY DEF IInv, PrintReply, conn
<1>2. PICK j \in Junk : printed' = SubSeq(said, 1, got) \o j
  BY DEF PrintReply, OutStrings
<1>3. j \in Seq(Chars)
  BY PingAssumption DEF Chars
<1>4. /\ SubSeq(said, 1, got) \in Seq(Chars) /\ Len(SubSeq(said, 1, got)) = got
      /\ \A i \in 1..got : SubSeq(said, 1, got)[i] = said[i]
  <2>1. \A i \in 1..got : said[i] \in Chars
    BY Lengths, <1>1
  <2>2. QED
    BY <1>1, <2>1, Lengths, SubSeqProperties
<1>5. /\ printed' \in Seq(Chars) /\ got <= Len(printed')
      /\ \A i \in 1..got : printed'[i] = said[i]
  <2> DEFINE piece == SubSeq(said, 1, got)
  <2>1. /\ piece \in Seq(Chars) /\ Len(piece) = got /\ got \in Nat /\ Len(j) \in Nat
    BY <1>1, <1>3, <1>4, Lengths
  <2> HIDE DEF piece
  <2>2. /\ piece \o j \in Seq(Chars) /\ Len(piece \o j) = got + Len(j)
        /\ \A i \in 1..got : (piece \o j)[i] = piece[i]
    BY <1>3, <2>1
  <2>3. QED
    BY <1>2, <1>4, <2>1, <2>2 DEF piece
<1>6. TypeOK'
  BY <1>1, <1>5 DEF TypeOK, Server!TypeOK, Chars
<1>7. AtInv'
  BY <1>1 DEF AtInv, Line
<1>8. Receipt'
  BY <1>1, <1>5 DEF Receipt
<1>9. QED
  BY <1>1, <1>6, <1>7, <1>8, FollowsKept DEF IInv

\* close(2), the end of the process, and the reset that answers a late echo.
LEMMA HangUpStep ==
  ASSUME IInv, SprintfOverruns \/ StrncpyOverruns \/ Close \/ Refuse
  PROVE  IInv'
<1>1. /\ TypeOK /\ AtInv /\ Follows /\ Receipt
      /\ UNCHANGED <<outmsg, got, printed>>
      /\ UNCHANGED <<srv, buf, bytestotal, sock, taken, heard, said, overran>>
      /\ client' \in {"closed", "reset"}
  BY DEF IInv, SprintfOverruns, StrncpyOverruns, Close, Crash, Refuse, HangUp, main
<1>2. \/ client = "open" /\ at' \in {"exited", "crashed"}
      \/ at' = at /\ at \in {"exited", "crashed"} /\ client' = "reset"
  BY <1>1 DEF AtInv, SprintfOverruns, StrncpyOverruns, Close, Crash, Refuse, main
<1>3. sock' # "up" => client' = "reset"
  BY <1>1, <1>2 DEF TypeOK, Server!TypeOK
<1>4. TypeOK'
  BY <1>1, <1>2, <1>3 DEF TypeOK, Server!TypeOK
<1>5. AtInv'
  BY <1>1, <1>2 DEF AtInv, Line
<1>6. Receipt'
  BY <1>1, <1>2 DEF Receipt
<1>7. QED
  BY <1>1, <1>4, <1>5, <1>6, FollowsKept DEF IInv

-----------------------------------------------------------------------------
(* The theorems. *)

LEMMA StartInv == ASSUME Init PROVE IInv
<1>1. /\ at = "words" /\ outmsg = <<>> /\ printed = <<>> /\ got = 0
      /\ srv = "recv" /\ buf = <<>> /\ bytestotal = 0 /\ sock = "up" /\ taken = 0
      /\ client = "open" /\ heard = <<>> /\ said = <<>> /\ overran = FALSE
  BY DEF Init, Server!Init
<1>2. /\ <<>> \in Seq(Chars) /\ <<>> \in Seq(Bytes) /\ Len(<<>>) = 0
      /\ BufLen \in Nat /\ 3 * BufLen \in Nat /\ EchoLimit \in Nat /\ <<>> \in Junk
  BY PingAssumption
<1>3. Server!TypeOK
  <2>1. Len(buf) <= BufLen /\ Len(heard) <= 3 * BufLen /\ taken \in 0..Len(heard)
    BY <1>1, <1>2
  <2>2. QED
    BY <1>1, <1>2, <2>1 DEF Server!TypeOK, Chars
<1>4. TypeOK
  <2>1. got \in 0..BufLen /\ got <= Len(said) /\ Len(outmsg) <= BufLen + Len(<<>>)
    BY <1>1, <1>2
  <2>2. QED
    BY <1>1, <1>2, <1>3, <2>1 DEF TypeOK, Chars
<1>5. AtInv /\ Receipt
  BY <1>1 DEF AtInv, Receipt
<1>6. Follows
  <2>1. \A n \in 0..0 : n = 0 /\ 1..n = {}
    OBVIOUS
  <2>2. Conn!Echoed(0) /\ SaidFirst
    BY <1>1, <1>2, <2>1 DEF Conn!Echoed, SaidFirst
  <2>3. QED
    BY <1>1, <2>2 DEF Follows, Conn!UpToNul
<1>7. QED
  BY <1>4, <1>5, <1>6 DEF IInv

LEMMA NextInv == ASSUME IInv, [Next]_vars PROVE IInv'
<1>1. CASE Main
  BY <1>1, WordsStep, SendStep, RecvStep, PrintStep, HangUpStep DEF Main
<1>2. CASE HandleClient
  BY <1>2, ServerStep
<1>3. CASE Network
  BY <1>3, ServerStep, HangUpStep DEF Network
<1>4. CASE Kill
  BY <1>4, KillStep
<1>5. CASE UNCHANGED vars
  <2>1. UNCHANGED <<at, outmsg, got, printed, srv, buf, bytestotal, sock, taken, client,
                    heard, said, overran>>
    BY <1>5 DEF vars, main, conn
  <2>2. TypeOK' /\ AtInv' /\ Receipt'
    BY <2>1 DEF IInv, TypeOK, Server!TypeOK, AtInv, Line, Receipt
  <2>3. QED
    BY <2>1, <2>2, FollowsKept DEF IInv
<1>6. QED
  BY <1>1, <1>2, <1>3, <1>4, <1>5 DEF Next

LEMMA PingInductive == Spec => []IInv
<1>1. Init => IInv
  BY StartInv
<1>2. IInv /\ [Next]_vars => IInv'
  BY NextInv
<1>3. QED
  BY <1>1, <1>2, PTL DEF Spec

\* For any words, what main glues together fits outmsg but for the stack
\* behind it, and ping has of the answer no more than outbuf holds.
THEOREM PingTypeCorrect == Spec => []TypeOK
<1>1. IInv => TypeOK
  BY DEF IInv
<1>2. QED
  BY <1>1, PingInductive, PTL

\* Whatever pieces the line and its echo come in, and whenever the server is
\* killed, what ping prints begins with all that its recv took of its own line,
\* and recv took something unless the server left without a word.
THEOREM PingPrintsItsLine == Spec => []PrintsOwnLine
<1>1. IInv => PrintsOwnLine
  <2> SUFFICES ASSUME IInv, at = "close", ~overran
               PROVE  /\ got = 0 => said = <<>> /\ srv = "left"
                      /\ IsPrefix(SubSeq(Line, 1, got), printed)
    BY DEF PrintsOwnLine
  <2>1. TypeOK /\ AtInv /\ Follows /\ Receipt
    BY DEF IInv
  <2>2. heard = Line /\ sock = "up"
    BY <2>1 DEF AtInv, TypeOK, Server!TypeOK
  <2>3. SaidFirst
    BY <2>1, <2>2 DEF Follows
  <2>4. /\ got \in Nat /\ got <= Len(Line) /\ got <= Len(printed)
        /\ \A i \in 1..got : printed[i] = Line[i]
    BY <2>1, <2>2, <2>3, Lengths DEF SaidFirst, Receipt
  <2>5. /\ SubSeq(Line, 1, got) \in Seq(Bytes) /\ Len(SubSeq(Line, 1, got)) = got
        /\ \A i \in 1..got : SubSeq(Line, 1, got)[i] = Line[i]
    <3>1. Line \in Seq(Bytes)
      BY <2>1, <2>2, Lengths
    <3>2. \A i \in 1..got : Line[i] \in Bytes
      BY <2>4, <3>1
    <3>3. QED
      BY <2>4, <3>2, SubSeqProperties
  <2>6. /\ SubSeq(printed, 1, got) \in Seq(Bytes) /\ Len(SubSeq(printed, 1, got)) = got
        /\ \A i \in 1..got : SubSeq(printed, 1, got)[i] = printed[i]
    <3>1. \A i \in 1..got : printed[i] \in Bytes
      BY <2>1, <2>4, Lengths DEF Chars
    <3>2. QED
      BY <2>4, <3>1, SubSeqProperties
  <2>7. SubSeq(printed, 1, got) = SubSeq(Line, 1, got)
    BY <2>4, <2>5, <2>6, SeqEqual
  <2>8. SubSeq(SubSeq(Line, 1, got), 1, got) = SubSeq(Line, 1, got)
    BY <2>5, SubSeqFull
  <2>9. QED
    BY <2>1, <2>4, <2>5, <2>7, <2>8 DEF Receipt, IsPrefix
<1>2. QED
  BY <1>1, PingInductive, PTL
=============================================================================

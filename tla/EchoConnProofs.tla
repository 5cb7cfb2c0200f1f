--------------------------- MODULE EchoConnProofs ---------------------------
(***************************************************************************)
(* What TLAPS proves of handle_client on one connection: its types, and,   *)
(* on plain bytes, that it implements the echo service step by step.       *)
(***************************************************************************)
EXTENDS EchoConn, SequenceTheorems, TLAPS

\* The bytes of one connection are plain: none is null, and all of them
\* together do not fill the buffer.
Plain == Nul \notin Bytes /\ MaxBytes < BufLen

-----------------------------------------------------------------------------
(* Sequences. *)

\* A sequence with no null byte is a sequence over the other bytes.
LEMMA WithoutNul ==
  ASSUME NEW s \in Seq(Bytes), Nul \notin ToSet(s)
  PROVE  s \in Seq(Bytes \ {Nul})
<1>1. \A i \in 1..Len(s) : s[i] \in Bytes \ {Nul}
  BY DEF ToSet
<1>2. QED
  BY <1>1

\* strlen finds strings without a null byte, whatever the buffer holds.
LEMMA CStringsType ==
  ASSUME NEW b \in Seq(Bytes), NEW s \in CStrings(b)
  PROVE  s \in Seq(Bytes \ {Nul})
<1>1. CASE Full(b)
  <2>1. PICK j \in Junk : s = b \o j
    BY <1>1 DEF CStrings
  <2>2. b \in Seq(Bytes \ {Nul}) /\ j \in Seq(Bytes \ {Nul})
    BY <1>1, WithoutNul, ConnAssumption DEF Full
  <2>3. QED
    BY <2>1, <2>2, ConcatProperties
<1>2. CASE ~Full(b)
  <2>1. PICK n \in 0..Len(b) : s = SubSeq(b, 1, n) /\ Nul \notin ToSet(SubSeq(b, 1, n))
    BY <1>2 DEF CStrings
  <2>2. \A i \in 1..n : b[i] \in Bytes
    BY <2>1
  <2>3. SubSeq(b, 1, n) \in Seq(Bytes)
    BY <2>1, <2>2, SubSeqProperties
  <2>4. QED
    BY <2>1, <2>3, WithoutNul
<1>3. QED
  BY <1>1, <1>2

\* A plain buffer that is not full holds the one string that was received.
LEMMA PlainString ==
  ASSUME NEW b \in Seq(Bytes), Nul \notin Bytes, Len(b) < BufLen
  PROVE  ~Full(b) /\ CStrings(b) = {b}
<1>1. ~Full(b)
  BY ConnAssumption DEF Full
<1>2. \A m \in 0..Len(b) : Nul \notin ToSet(SubSeq(b, 1, m))
  <2> TAKE m \in 0..Len(b)
  <2>1. \A i \in 1..m : b[i] \in Bytes
    OBVIOUS
  <2>2. SubSeq(b, 1, m) \in Seq(Bytes)
    BY <2>1, SubSeqProperties
  <2>3. QED
    BY <2>2 DEF ToSet
<1>3. {m \in 0..Len(b) : /\ Nul \notin ToSet(SubSeq(b, 1, m))
                         /\ m < Len(b) => b[m + 1] = Nul} = {Len(b)}
  <2>1. \A m \in 0..Len(b) : m < Len(b) => b[m + 1] # Nul
    OBVIOUS
  <2>2. Len(b) \in 0..Len(b) /\ \A m \in 0..Len(b) : m < Len(b) \/ m = Len(b)
    OBVIOUS
  <2>3. QED
    BY <1>2, <2>1, <2>2
<1>4. SubSeq(b, 1, Len(b)) = b
  BY SubSeqFull
<1>5. QED
  BY <1>1, <1>3, <1>4 DEF CStrings

\* A byte more leaves every piece of what was there.
LEMMA PieceKept ==
  ASSUME NEW s \in Seq(Bytes), NEW b \in Bytes,
         NEW m \in 1..Len(s) + 1, NEW n \in m - 1..Len(s)
  PROVE  SubSeq(Append(s, b), m, n) = SubSeq(s, m, n)
<1>1. CASE n < m
  BY <1>1, SubSeqEmpty
<1>2. CASE m <= n
  <2>1. m \in 1..Len(s) /\ n \in 1..Len(s)
    BY <1>2
  <2>2. Append(s, b) = s \o <<b>> /\ <<b>> \in Seq(Bytes)
    BY AppendIsConcat
  <2>3. QED
    BY <2>1, <2>2, SubSeqOfConcat1
<1>3. QED
  BY <1>1, <1>2

-----------------------------------------------------------------------------
(* Types. *)

\* A piece that recv returns is a sequence of bytes that fits the buffer.
LEMMA PieceType ==
  ASSUME TypeOK, NEW n \in 1..BufLen, taken + n <= Len(heard)
  PROVE  /\ SubSeq(heard, taken + 1, taken + n) \in Seq(Bytes)
         /\ Len(SubSeq(heard, taken + 1, taken + n)) = n
<1>1. taken \in Nat /\ n \in Nat /\ heard \in Seq(Bytes) /\ Len(heard) \in Nat
  BY ConnAssumption DEF TypeOK
<1>2. \A i \in taken + 1..taken + n : heard[i] \in Bytes
  BY <1>1
<1>3. QED
  BY <1>1, <1>2, SubSeqProperties

\* Every step keeps the types.
LEMMA TypeStep ==
  ASSUME TypeOK, [Next]_vars
  PROVE  TypeOK'
<1> USE DEF server
<1>1. CASE RecvBytes
  <2>1. PICK n \in 1..BufLen : /\ taken + n <= Len(heard)
                               /\ buf' = SubSeq(heard, taken + 1, taken + n)
                               /\ taken' = taken + n
    BY <1>1 DEF RecvBytes
  <2>2. buf' \in Seq(Bytes) /\ Len(buf') <= BufLen
    BY <2>1, PieceType, ConnAssumption
  <2>3. taken' \in 0..Len(heard')
    BY <1>1, <2>1, ConnAssumption DEF TypeOK, RecvBytes
  <2>4. QED
    BY <1>1, <2>2, <2>3 DEF TypeOK, RecvBytes, MayReceive
<1>2. CASE RecvError
  <2>1. <<>> \in Seq(Bytes) /\ Len(<<>>) = 0
    OBVIOUS
  <2>2. QED
    BY <1>2, <2>1, ConnAssumption DEF TypeOK, RecvError, MayReceive
<1>3. CASE RecvEof \/ LeaveLoop \/ SendKilled
  BY <1>3 DEF TypeOK, RecvEof, LeaveLoop, SendKilled
<1>4. CASE SendString
  <2>1. PICK s \in CStrings(buf) : /\ bytestotal' = bytestotal + Len(s)
                                   /\ said' = IF sock = "up" THEN said \o s ELSE said
    BY <1>4 DEF SendString
  <2>2. s \in Seq(Bytes \ {Nul})
    BY CStringsType DEF TypeOK
  <2>3. bytestotal' \in Nat
    BY <2>1, <2>2, LenProperties DEF TypeOK
  <2>4. said' \in Seq(Bytes \ {Nul})
    BY <2>1, <2>2, ConcatProperties DEF TypeOK
  <2>5. overran' \in BOOLEAN
    BY <1>4 DEF SendString, TypeOK, Full
  <2>6. pc' = "recv" /\ sock' \in {"up", "broken"} /\ (sock' # "up" => sock # "up")
    BY <1>4 DEF SendString
  <2>7. QED
    BY <1>4, <2>3, <2>4, <2>5, <2>6 DEF TypeOK, SendString
<1>5. CASE Write
  <2>1. PICK b \in Bytes : heard' = Append(heard, b)
    BY <1>5 DEF Write
  <2>2. heard' \in Seq(Bytes) /\ Len(heard') = Len(heard) + 1 /\ Len(heard) \in Nat
    BY <2>1, AppendProperties, LenProperties DEF TypeOK
  <2>3. Len(heard') <= MaxBytes /\ taken' \in 0..Len(heard')
    BY <1>5, <2>2, ConnAssumption DEF Write, TypeOK
  <2>4. QED
    BY <1>5, <2>2, <2>3 DEF TypeOK, Write
<1>6. CASE Close \/ Reset \/ ResetArrives
  BY <1>6 DEF TypeOK, Close, Reset, ResetArrives
<1>7. CASE UNCHANGED vars
  BY <1>7 DEF TypeOK, vars
<1>8. QED
  BY <1>1, <1>2, <1>3, <1>4, <1>5, <1>6, <1>7 DEF Next, handle_client

\* The types hold on every connection, plain or not.
THEOREM ConnTypeCorrect == Spec => []TypeOK
<1>1. Init => TypeOK
  <2>1. <<>> \in Seq(Bytes) /\ <<>> \in Seq(Bytes \ {Nul}) /\ Len(<<>>) = 0
    OBVIOUS
  <2>2. MaxBytes \in Nat /\ BufLen \in Nat /\ 0 <= MaxBytes /\ 0 <= BufLen
    BY ConnAssumption
  <2>3. ASSUME Init PROVE TypeOK
    <3>1. /\ buf \in Seq(Bytes) /\ Len(buf) <= BufLen
          /\ heard \in Seq(Bytes) /\ Len(heard) <= MaxBytes /\ taken \in 0..Len(heard)
          /\ said \in Seq(Bytes \ {Nul})
      BY <2>1, <2>2, <2>3 DEF Init
    <3>2. QED
      BY <2>3, <3>1 DEF Init, TypeOK
  <2>4. QED
    BY <2>3
<1>2. TypeOK /\ [Next]_vars => TypeOK'
  BY TypeStep
<1>3. QED
  BY <1>1, <1>2, PTL DEF Spec

-----------------------------------------------------------------------------
(* The echo service. *)

\* What was said is the beginning of what was heard.  On a socket that is up,
\* handle_client has said all it received except what is in buf, and
\* bytestotal counts what it said.
Joined ==
    /\ Len(said) <= taken
    /\ said = SubSeq(heard, 1, Len(said))
    /\ sock = "up" =>
         /\ bytestotal = Len(said)
         /\ pc = "recv" => Len(said) = taken
         /\ pc = "send" => buf = SubSeq(heard, Len(said) + 1, taken)

\* The lengths and types that the steps below use.
LEMMA Lengths ==
  ASSUME TypeOK
  PROVE  /\ said \in Seq(Bytes) /\ Len(said) \in Nat
         /\ heard \in Seq(Bytes) /\ Len(heard) \in Nat
         /\ buf \in Seq(Bytes) /\ Len(buf) \in Nat
         /\ taken \in 0..Len(heard) /\ taken \in Nat
<1>1. said \in Seq(Bytes)
  BY SeqMonotonic DEF TypeOK
<1>2. QED
  BY <1>1, LenProperties DEF TypeOK

\* What one send does to a plain connection: all that was received has then
\* been said.
LEMMA SendJoins ==
  ASSUME Plain, TypeOK, Joined, SendString, sock = "up"
  PROVE  /\ said' = SubSeq(heard, 1, taken) /\ Len(said') = taken
         /\ bytestotal' = taken
<1>1. Len(buf) < BufLen
  <2>1. buf = SubSeq(heard, Len(said) + 1, taken)
    BY DEF Joined, SendString
  <2>2. Len(buf) <= Len(heard)
    <3>1. \A i \in Len(said) + 1..taken : heard[i] \in Bytes
      BY Lengths
    <3>2. Len(buf) = IF Len(said) + 1 <= taken THEN taken - (Len(said) + 1) + 1 ELSE 0
      BY <2>1, <3>1, Lengths, SubSeqProperties
    <3>3. QED
      BY <3>2, Lengths
  <2>3. QED
    BY <2>2, Lengths, ConnAssumption DEF Plain, TypeOK
<1>2. CStrings(buf) = {buf}
  BY <1>1, PlainString, Lengths DEF Plain
<1>3. said' = said \o buf /\ bytestotal' = bytestotal + Len(buf)
  BY <1>2 DEF SendString
<1>4. /\ said = SubSeq(heard, 1, Len(said)) /\ Len(said) <= taken
      /\ buf = SubSeq(heard, Len(said) + 1, taken) /\ bytestotal = Len(said)
  BY DEF Joined, SendString
<1>5. said' = SubSeq(heard, 1, taken)
  <2>1. /\ 1 \in 1..Len(heard) + 1 /\ Len(said) \in 1 - 1..Len(heard)
        /\ taken \in Len(said)..Len(heard)
    BY <1>4, Lengths
  <2>2. SubSeq(heard, 1, Len(said)) \o SubSeq(heard, Len(said) + 1, taken)
          = SubSeq(heard, 1, taken)
    BY <2>1, Lengths, ConcatAdjacentSubSeq
  <2>3. QED
    BY <2>2, <1>3, <1>4
<1>6. Len(SubSeq(heard, 1, taken)) = taken
  <2>1. \A i \in 1..taken : heard[i] \in Bytes
    BY Lengths
  <2>2. QED
    BY <2>1, Lengths, SubSeqProperties
<1>7. Len(said') = Len(said) + Len(buf)
  BY <1>3, Lengths, ConcatProperties
<1>8. QED
  BY <1>3, <1>4, <1>5, <1>6, <1>7

\* Joined is kept: recv fills buf with what comes next, send joins it to what
\* was said, and a socket that is not up says nothing more.
LEMMA JoinedStep ==
  ASSUME Plain, TypeOK, Joined, [Next]_vars
  PROVE  Joined'
<1> USE DEF server
<1>1. CASE RecvBytes
  <2>1. PICK n \in 1..BufLen : /\ buf' = SubSeq(heard, taken + 1, taken + n)
                               /\ taken' = taken + n
    BY <1>1 DEF RecvBytes
  <2>2. n \in Nat
    BY ConnAssumption
  <2>3. pc = "recv" /\ pc' = "send" /\ UNCHANGED <<said, heard, sock, bytestotal>>
    BY <1>1 DEF RecvBytes, MayReceive
  <2>4. Len(said') <= taken' /\ said' = SubSeq(heard', 1, Len(said'))
    BY <2>1, <2>2, <2>3, Lengths DEF Joined
  <2>5. sock' = "up" => /\ bytestotal' = Len(said')
                        /\ buf' = SubSeq(heard', Len(said') + 1, taken')
    BY <2>1, <2>3 DEF Joined
  <2>6. QED
    BY <2>3, <2>4, <2>5 DEF Joined
<1>2. CASE RecvError
  BY <1>2 DEF RecvError, Joined
<1>3. CASE RecvEof \/ LeaveLoop \/ SendKilled
  BY <1>3 DEF RecvEof, LeaveLoop, SendKilled, Joined
<1>4. CASE SendString
  <2>1. UNCHANGED <<taken, heard>> /\ pc' = "recv"
    BY <1>4 DEF SendString
  <2>2. CASE sock = "up"
    BY <1>4, <2>1, <2>2, SendJoins, Lengths DEF Joined
  <2>3. CASE sock # "up"
    <3>1. said' = said /\ sock' # "up"
      BY <1>4, <2>3 DEF SendString
    <3>2. QED
      BY <2>1, <3>1 DEF Joined
  <2>4. QED
    BY <2>2, <2>3
<1>5. CASE Write
  <2>1. PICK b \in Bytes : heard' = Append(heard, b)
    BY <1>5 DEF Write
  <2>2. UNCHANGED <<pc, buf, bytestotal, sock, taken, said>>
    BY <1>5 DEF Write
  <2>3. Len(said) <= taken
    BY DEF Joined
  <2>4. SubSeq(heard', 1, Len(said)) = SubSeq(heard, 1, Len(said))
    <3>1. 1 \in 1..Len(heard) + 1 /\ Len(said) \in 1 - 1..Len(heard)
      BY <2>3, Lengths
    <3>2. QED
      BY <2>1, <3>1, Lengths, PieceKept
  <2>5. SubSeq(heard', Len(said) + 1, taken) = SubSeq(heard, Len(said) + 1, taken)
    <3>1. /\ Len(said) + 1 \in 1..Len(heard) + 1
          /\ taken \in (Len(said) + 1) - 1..Len(heard)
      BY <2>3, Lengths
    <3>2. QED
      BY <2>1, <3>1, Lengths, PieceKept
  <2>6. QED
    BY <2>2, <2>4, <2>5 DEF Joined
<1>6. CASE Close \/ Reset
  BY <1>6 DEF Close, Reset, Joined
<1>7. CASE ResetArrives
  BY <1>7 DEF ResetArrives, Joined
<1>8. CASE UNCHANGED vars
  BY <1>8 DEF vars, Joined
<1>9. QED
  BY <1>1, <1>2, <1>3, <1>4, <1>5, <1>6, <1>7, <1>8 DEF Next, handle_client

\* Every step of handle_client, its client and the network is a step of the
\* echo service, or none that the client could tell.
LEMMA ServiceStep ==
  ASSUME Plain, TypeOK, Joined, [Next]_vars
  PROVE  [Service!Next]_(Service!vars)
<1> USE DEF server, Service!vars
<1>1. CASE RecvBytes
  BY <1>1 DEF RecvBytes, MayReceive
<1>2. CASE RecvError
  BY <1>2 DEF RecvError, MayReceive
<1>3. CASE RecvEof
  <2>1. /\ pc = "recv" /\ pc' = "left" /\ UNCHANGED <<heard, said, client>>
        /\ (client = "closed" /\ taken = Len(heard)) \/ sock = "broken"
    BY <1>3 DEF RecvEof, MayReceive
  <2>2. CASE sock # "up"
    BY <2>1, <2>2 DEF TypeOK, Service!Next, Service!Serve, Service!HangUp
  <2>3. CASE sock = "up"
    <3>1. client = "closed" /\ said = SubSeq(heard, 1, Len(heard))
      BY <2>1, <2>3 DEF Joined
    <3>2. said = heard
      BY <3>1, Lengths, SubSeqFull
    <3>3. QED
      BY <2>1, <3>1, <3>2 DEF Service!Next, Service!Serve, Service!HangUp
  <2>4. QED
    BY <2>2, <2>3
<1>4. CASE LeaveLoop
  <2>1. /\ pc = "recv" /\ pc' = "left" /\ UNCHANGED <<heard, said, client>>
        /\ ~(bytestotal <= EchoLimit)
    BY <1>4 DEF LeaveLoop, MayReceive
  <2>2. client = "reset" \/ Len(said) > EchoLimit
    <3>1. CASE sock # "up"
      BY <3>1 DEF TypeOK
    <3>2. CASE sock = "up"
      <4>1. Len(said) \in Nat /\ EchoLimit \in Nat
        BY Lengths, ConnAssumption
      <4>2. ~(Len(said) <= EchoLimit)
        BY <2>1, <3>2 DEF Joined
      <4>3. QED
        BY <4>1, <4>2
    <3>3. QED
      BY <3>1, <3>2
  <2>3. QED
    BY <2>1, <2>2 DEF Service!Next, Service!Serve, Service!HangUp
<1>5. CASE SendString
  <2>1. pc = "send" /\ pc' = "recv" /\ UNCHANGED <<heard, client>>
    BY <1>5 DEF SendString
  <2>2. CASE sock # "up"
    <3>1. said' = said
      BY <1>5, <2>2 DEF SendString
    <3>2. QED
      BY <2>1, <3>1
  <2>3. CASE sock = "up"
    <3>1. said' = SubSeq(heard, 1, taken) /\ Len(said) <= taken
      BY <1>5, <2>3, SendJoins DEF Joined
    <3>2. CASE Len(said) = taken
      <4>1. said' = said
        BY <3>1, <3>2 DEF Joined
      <4>2. QED
        BY <2>1, <4>1
    <3>3. CASE Len(said) # taken
      <4>1. taken \in Len(said) + 1..Len(heard)
        BY <3>1, <3>3, Lengths
      <4>2. QED
        BY <2>1, <3>1, <4>1 DEF Service!Next, Service!Serve, Service!Say
    <3>4. QED
      BY <3>2, <3>3
  <2>4. QED
    BY <2>2, <2>3
<1>6. CASE SendKilled
  <2>1. /\ pc = "send" /\ pc' = "left" /\ UNCHANGED <<heard, said, client>>
        /\ client = "reset"
    BY <1>6 DEF SendKilled, TypeOK
  <2>2. QED
    BY <2>1 DEF Service!Next, Service!Serve, Service!HangUp
<1>7. CASE Write
  BY <1>7 DEF Write, Service!Next, Service!Hear
<1>8. CASE Close
  BY <1>8 DEF Close, Service!Next, Service!Close
<1>9. CASE Reset
  BY <1>9 DEF Reset, Service!Next, Service!Reset
<1>10. CASE ResetArrives \/ UNCHANGED vars
  BY <1>10 DEF ResetArrives, vars
<1>11. QED
  BY <1>1, <1>2, <1>3, <1>4, <1>5, <1>6, <1>7, <1>8, <1>9, <1>10
     DEF Next, handle_client

\* A connection starts with nothing said and all of it joined.
LEMMA ConnStarts ==
  ASSUME Init
  PROVE  Joined /\ Service!Init
<1>1. said = <<>> /\ heard = <<>> /\ taken = 0 /\ Len(said) = 0
  BY DEF Init
<1>2. SubSeq(heard, 1, Len(said)) = <<>>
  BY <1>1, SubSeqEmpty
<1>3. QED
  BY <1>1, <1>2 DEF Init, Joined, Service!Init

\* On plain bytes handle_client is an echo service: what it says is always
\* the beginning of what it heard, and it hangs up for a reason only.
THEOREM EchoesPlainBytes ==
  ASSUME Plain
  PROVE  Spec => Service!Init /\ [][Service!Next]_(Service!vars)
<1>1. Init => Joined /\ Service!Init
  BY ConnStarts
<1>2. TypeOK /\ Joined /\ [Next]_vars => Joined' /\ [Service!Next]_(Service!vars)
  BY Plain, JoinedStep, ServiceStep
<1>3. Spec => []TypeOK
  BY ConnTypeCorrect
<1>4. QED
  BY <1>1, <1>2, <1>3, PTL DEF Spec

\* On plain bytes, whenever handle_client waits in recv all that it received
\* has been echoed: only a null byte or a full buffer can break EchoesAll.
THEOREM PlainEchoesAll ==
  ASSUME Plain
  PROVE  Spec => []EchoesAll
<1>1. Init => Joined
  BY ConnStarts
<1>2. TypeOK /\ Joined /\ [Next]_vars => Joined'
  BY Plain, JoinedStep
<1>3. Joined => EchoesAll
  BY DEF Joined, EchoesAll, Received
<1>4. Spec => []TypeOK
  BY ConnTypeCorrect
<1>5. QED
  BY <1>1, <1>2, <1>3, <1>4, PTL DEF Spec

-----------------------------------------------------------------------------
(* Null bytes. *)

\* The first n bytes hold no null.
Clean(n) == \A i \in 1..n : heard[i] # Nul

\* Of the first t bytes, those before any null were said, and all of them if
\* there is no null: what is said next then joins to them.
Echoed(t) ==
    /\ \A n \in 0..t : Clean(n) => n <= Len(said) /\ \A i \in 1..n : said[i] = heard[i]
    /\ Clean(t) => Len(said) = t

\* What was received is echoed so far, except what is in buf before a send.
UpToNul ==
    sock = "up" /\ ~overran =>
        /\ pc # "send" => Echoed(taken)
        /\ pc = "send" =>
              /\ Len(buf) <= taken /\ Echoed(taken - Len(buf))
              /\ \A i \in 1..Len(buf) : buf[i] = heard[taken - Len(buf) + i]

\* What one send does: a string that ends before the null at the latest, or
\* where the buffer does.
LEMMA SendUpToNul ==
  ASSUME TypeOK, UpToNul, SendString, sock = "up", ~overran'
  PROVE  Echoed(taken)'
<1> DEFINE t == taken - Len(buf)
<1>1. /\ Len(buf) \in Nat /\ taken \in Nat /\ Len(buf) <= taken /\ t \in Nat
      /\ Echoed(t) /\ \A i \in 1..Len(buf) : buf[i] = heard[t + i]
      /\ UNCHANGED <<taken, heard>> /\ ~Full(buf)
  <2>1. pc = "send" /\ ~overran /\ ~Full(buf) /\ UNCHANGED <<taken, heard>>
    BY DEF SendString
  <2>2. /\ Len(buf) <= taken /\ Echoed(taken - Len(buf))
        /\ \A i \in 1..Len(buf) : buf[i] = heard[taken - Len(buf) + i]
    BY <2>1 DEF UpToNul
  <2>3. QED
    BY <2>1, <2>2, Lengths
<1>2. PICK m \in 0..Len(buf) : /\ Nul \notin ToSet(SubSeq(buf, 1, m))
                               /\ m < Len(buf) => buf[m + 1] = Nul
                               /\ said' = said \o SubSeq(buf, 1, m)
  BY <1>1 DEF SendString, CStrings
<1>3. /\ SubSeq(buf, 1, m) \in Seq(Bytes) /\ Len(SubSeq(buf, 1, m)) = m
      /\ \A i \in 1..m : SubSeq(buf, 1, m)[i] = buf[i]
  <2>1. \A i \in 1..m : buf[i] \in Bytes
    BY Lengths
  <2>2. QED
    BY <2>1, <1>1, SubSeqProperties
<1>4. /\ Len(said') = Len(said) + m /\ Len(said) \in Nat
      /\ \A i \in 1..Len(said) : said'[i] = said[i]
      /\ \A i \in 1..m : said'[Len(said) + i] = buf[i]
  <2>1. /\ Len(said') = Len(said) + m /\ Len(said) \in Nat
        /\ \A i \in 1..Len(said) + m :
              said'[i] = IF i <= Len(said) THEN said[i] ELSE SubSeq(buf, 1, m)[i - Len(said)]
    BY <1>2, <1>3, Lengths, ConcatProperties
  <2>2. ASSUME NEW i \in 1..m
        PROVE  said'[Len(said) + i] = buf[i]
    <3>1. Len(said) + i \in 1..Len(said) + m /\ ~(Len(said) + i <= Len(said))
          /\ (Len(said) + i) - Len(said) = i
      BY <2>1, <1>1
    <3>2. QED
      BY <2>1, <3>1, <1>3
  <2>3. QED
    BY <2>1, <2>2, <1>1
<1>5. ASSUME NEW n \in 0..taken, Clean(n), t < n
      PROVE  Len(said) = t /\ n <= t + m
  <2>1. Clean(t)
    BY <1>1, <1>5 DEF Clean
  <2>2. Len(said) = t
    BY <1>1, <2>1 DEF Echoed
  <2>3. CASE m < n - t
    <3>1. m + 1 \in 1..Len(buf) /\ t + (m + 1) \in 1..n /\ m < Len(buf)
      BY <1>1, <1>5, <2>3
    <3>2. heard[t + (m + 1)] = Nul
      BY <1>1, <1>2, <3>1
    <3>3. QED
      BY <1>5, <3>1, <3>2 DEF Clean
  <2>4. QED
    BY <1>1, <1>5, <2>2, <2>3
<1>6. ASSUME NEW n \in 0..taken, Clean(n)
      PROVE  n <= Len(said') /\ \A i \in 1..n : said'[i] = heard[i]
  <2>1. CASE n <= t
    <3>1. n \in 0..t
      BY <1>1, <2>1
    <3>2. n <= Len(said) /\ \A i \in 1..n : said[i] = heard[i]
      BY <1>1, <1>6, <3>1 DEF Echoed
    <3>3. QED
      BY <1>1, <1>4, <3>2
  <2>2. CASE t < n
    <3>1. Len(said) = t /\ n <= t + m
      BY <1>5, <1>6, <2>2
    <3>2. Clean(t) /\ t \in 0..t
      BY <1>1, <1>6, <2>2 DEF Clean
    <3>3. \A i \in 1..t : said[i] = heard[i]
      BY <1>1, <3>2 DEF Echoed
    <3>4. ASSUME NEW i \in 1..n
          PROVE  said'[i] = heard[i]
      <4>1. CASE i <= t
        BY <1>1, <1>4, <3>1, <3>3, <4>1
      <4>2. CASE t < i
        <5>1. i - t \in 1..m /\ i - t \in 1..Len(buf) /\ t + (i - t) = i
          BY <1>1, <3>1, <4>2
        <5>2. QED
          BY <1>1, <1>4, <3>1, <5>1
      <4>3. QED
        BY <1>1, <4>1, <4>2
    <3>5. QED
      BY <1>1, <1>4, <3>1, <3>4
  <2>3. QED
    BY <1>1, <2>1, <2>2
<1>7. ASSUME Clean(taken)
      PROVE  Len(said') = taken
  <2>1. CASE t < taken
    <3>1. taken \in 0..taken
      BY <1>1
    <3>2. Len(said) = t /\ taken <= t + m
      BY <1>5, <1>7, <2>1, <3>1
    <3>3. /\ Len(said') = Len(said) + m /\ Len(said) \in Nat /\ m <= Len(buf)
          /\ Len(buf) \in Nat /\ taken \in Nat /\ m \in Nat
      BY <1>1, <1>4
    <3>4. QED
      BY <3>2, <3>3
  <2>2. CASE t = taken
    BY <1>1, <1>4, <1>7, <2>2 DEF Echoed
  <2>3. QED
    BY <1>1, <2>1, <2>2
<1>8. QED
  BY <1>1, <1>6, <1>7 DEF Echoed, Clean

\* UpToNul is kept: recv puts the next bytes in buf, and send says them up to
\* the null.
LEMMA UpToNulStep ==
  ASSUME TypeOK, UpToNul, [Next]_vars
  PROVE  UpToNul'
<1> USE DEF server
<1>1. CASE RecvBytes
  <2>1. PICK n \in 1..BufLen : /\ taken + n <= Len(heard)
                               /\ buf' = SubSeq(heard, taken + 1, taken + n)
                               /\ taken' = taken + n
    BY <1>1 DEF RecvBytes
  <2>2. n \in Nat /\ n > 0
    BY ConnAssumption
  <2>3. pc # "send" /\ pc' = "send" /\ UNCHANGED <<said, heard, sock, overran>>
    BY <1>1 DEF RecvBytes, MayReceive
  <2>4. /\ Len(buf') = n
        /\ \A i \in 1..n : buf'[i] = heard[taken + i]
    <3>1. taken \in Nat /\ \A i \in taken + 1..taken + n : heard[i] \in Bytes
      BY <2>1, <2>2, Lengths
    <3>2. /\ taken + 1 \in Int /\ taken + n \in Int /\ taken + 1 <= taken + n
          /\ (taken + n - (taken + 1)) + 1 = n
      BY <2>2, <3>1
    <3>3. Len(buf') = n /\ \A i \in 1..n : buf'[i] = heard[(taken + 1) + i - 1]
      BY <2>1, <3>1, <3>2, SubSeqProperties
    <3>4. \A i \in 1..n : (taken + 1) + i - 1 = taken + i
      BY <2>2, <3>1
    <3>5. QED
      BY <3>3, <3>4
  <2>5. taken' - Len(buf') = taken
    BY <2>1, <2>2, <2>4, Lengths
  <2>6. sock = "up" /\ ~overran => Echoed(taken)
    BY <2>3 DEF UpToNul
  <2>7. Len(buf') <= taken'
    BY <2>1, <2>2, <2>4, Lengths
  <2>8. Echoed(taken) => Echoed(taken - Len(buf))'
    BY <2>3, <2>5 DEF Echoed, Clean
  <2>9. QED
    BY <2>3, <2>4, <2>5, <2>6, <2>7, <2>8 DEF UpToNul
<1>2. CASE RecvError \/ SendKilled \/ ResetArrives
  <2>1. sock' # "up"
    BY <1>2 DEF RecvError, SendKilled, ResetArrives
  <2>2. QED
    BY <2>1 DEF UpToNul
<1>3. CASE RecvEof \/ LeaveLoop
  <2>1. pc # "send" /\ pc' # "send" /\ UNCHANGED <<sock, taken, heard, said, overran>>
    BY <1>3 DEF RecvEof, LeaveLoop, MayReceive
  <2>2. QED
    BY <2>1 DEF UpToNul, Echoed, Clean
<1>4. CASE SendString
  <2>1. pc' = "recv" /\ (sock' = "up" => sock = "up")
    BY <1>4 DEF SendString
  <2>2. sock = "up" /\ ~overran' => Echoed(taken)'
    BY <1>4, SendUpToNul
  <2>3. QED
    BY <2>1, <2>2 DEF UpToNul
<1>5. CASE Write
  <2>1. PICK b \in Bytes : heard' = Append(heard, b)
    BY <1>5 DEF Write
  <2>2. UNCHANGED <<pc, buf, bytestotal, sock, taken, said, overran>>
    BY <1>5 DEF Write
  <2>3. \A i \in 1..taken : heard'[i] = heard[i]
    BY <2>1, Lengths, AppendProperties
  <2>4. ASSUME NEW t \in 0..taken, Echoed(t)
        PROVE  Echoed(t)'
    <3>1. \A n \in 0..t : 1..n \subseteq 1..taken
      BY Lengths
    <3>2. t \in 0..t
      BY Lengths
    <3>3. QED
      BY <2>2, <2>3, <2>4, <3>1, <3>2 DEF Echoed, Clean
  <2>5. CASE pc # "send"
    BY <2>2, <2>4, <2>5, Lengths DEF UpToNul
  <2>6. CASE pc = "send"
    <3> SUFFICES ASSUME sock = "up", ~overran
                 PROVE  UpToNul'
      BY <2>2 DEF UpToNul
    <3>1. /\ Len(buf) <= taken /\ Echoed(taken - Len(buf))
          /\ \A i \in 1..Len(buf) : buf[i] = heard[taken - Len(buf) + i]
      BY <2>6 DEF UpToNul
    <3>2. taken - Len(buf) \in 0..taken
      BY <3>1, Lengths
    <3>3. \A i \in 1..Len(buf) : taken - Len(buf) + i \in 1..taken
      BY <3>1, Lengths
    <3>4. QED
      BY <2>2, <2>3, <2>4, <2>6, <3>1, <3>2, <3>3 DEF UpToNul
  <2>7. QED
    BY <2>5, <2>6
<1>6. CASE Close \/ Reset
  BY <1>6 DEF Close, Reset, UpToNul, Echoed, Clean
<1>7. CASE UNCHANGED vars
  BY <1>7 DEF vars, UpToNul, Echoed, Clean
<1>8. QED
  BY <1>1, <1>2, <1>3, <1>4, <1>5, <1>6, <1>7 DEF Next, handle_client

\* Whatever the bytes and however recv cuts them, all before the first null
\* has been echoed by the time handle_client receives again, as long as no
\* buffer was filled without a null.
THEOREM NulIsTheLimit == Spec => []EchoedUpToNul
<1>1. Init => UpToNul
  <2>1. ASSUME Init
        PROVE  UpToNul
    <3>1. said = <<>> /\ Len(said) = 0 /\ taken = 0 /\ pc = "recv"
      BY <2>1 DEF Init
    <3>2. \A n \in 0..0 : n = 0 /\ 1..n = {}
      OBVIOUS
    <3>3. QED
      BY <3>1, <3>2 DEF UpToNul, Echoed
  <2>2. QED
    BY <2>1
<1>2. TypeOK /\ UpToNul /\ [Next]_vars => UpToNul'
  BY UpToNulStep
<1>3. TypeOK /\ UpToNul => EchoedUpToNul
  <2> SUFFICES ASSUME TypeOK, UpToNul, pc = "recv", sock = "up", ~overran,
                      NEW n \in 0..taken, Nul \notin ToSet(SubSeq(heard, 1, n))
               PROVE  IsPrefix(SubSeq(heard, 1, n), said)
    BY DEF EchoedUpToNul
  <2> DEFINE h == SubSeq(heard, 1, n)
  <2>1. /\ h \in Seq(Bytes) /\ Len(h) = n /\ n \in Nat
        /\ \A i \in 1..n : h[i] = heard[i]
    <3>1. \A i \in 1..n : heard[i] \in Bytes
      BY Lengths
    <3>2. QED
      BY <3>1, Lengths, SubSeqProperties
  <2>2. Clean(n)
    BY <2>1 DEF Clean, ToSet
  <2>3. n <= Len(said) /\ \A i \in 1..n : said[i] = h[i]
    BY <2>1, <2>2 DEF UpToNul, Echoed
  <2>4. /\ SubSeq(said, 1, n) \in Seq(Bytes) /\ Len(SubSeq(said, 1, n)) = n
        /\ \A i \in 1..n : SubSeq(said, 1, n)[i] = said[i]
    <3>1. \A i \in 1..n : said[i] \in Bytes
      BY <2>3, Lengths
    <3>2. QED
      BY <2>1, <3>1, Lengths, SubSeqProperties
  <2>5. SubSeq(said, 1, n) = h
    BY <2>1, <2>3, <2>4, SeqEqual
  <2>6. SubSeq(h, 1, n) = h
    BY <2>1, SubSeqFull
  <2>7. QED
    BY <2>1, <2>3, <2>5, <2>6 DEF IsPrefix
<1>4. Spec => []TypeOK
  BY ConnTypeCorrect
<1>5. QED
  BY <1>1, <1>2, <1>3, <1>4, PTL DEF Spec

-----------------------------------------------------------------------------
(* Where the bytes said come from. *)

\* Each byte said has a place of its own among the first t heard, in order.
SaidWithin(t) ==
    \E at \in [1..Len(said) -> 1..t] :
        /\ \A i \in 1..Len(said) : said[i] = heard[at[i]]
        /\ \A i, j \in 1..Len(said) : i < j => at[i] < at[j]

\* All that was said was received, and before the piece in buf if that is
\* still to be said.
Traced ==
    ~overran =>
        /\ ~(pc = "send" /\ sock = "up") => SaidWithin(taken)
        /\ pc = "send" /\ sock = "up" =>
              /\ Len(buf) <= taken /\ SaidWithin(taken - Len(buf))
              /\ \A i \in 1..Len(buf) : buf[i] = heard[taken - Len(buf) + i]

\* What is within the first t bytes is within more of them.
LEMMA SaidWithinMore ==
  ASSUME TypeOK, NEW t \in Nat, NEW u \in Nat, t <= u, SaidWithin(t)
  PROVE  SaidWithin(u)
<1>1. PICK at \in [1..Len(said) -> 1..t] :
        /\ \A i \in 1..Len(said) : said[i] = heard[at[i]]
        /\ \A i, j \in 1..Len(said) : i < j => at[i] < at[j]
  BY DEF SaidWithin
<1>2. at \in [1..Len(said) -> 1..u]
  <2>1. \A x \in 1..t : x \in 1..u
    OBVIOUS
  <2>2. QED
    BY <2>1
<1>3. QED
  BY <1>1, <1>2 DEF SaidWithin

\* What send takes of buf comes behind all that was said before.
LEMMA SendTraced ==
  ASSUME TypeOK, Traced, SendString, sock = "up", ~overran'
  PROVE  SaidWithin(taken)'
<1> DEFINE t == taken - Len(buf)
           l == Len(said)
<1>1. /\ Len(buf) \in Nat /\ taken \in Nat /\ t \in Nat /\ l \in Nat
      /\ SaidWithin(t) /\ \A i \in 1..Len(buf) : buf[i] = heard[t + i]
      /\ UNCHANGED <<taken, heard>> /\ ~Full(buf)
  <2>1. pc = "send" /\ ~overran /\ ~Full(buf) /\ UNCHANGED <<taken, heard>>
    BY DEF SendString
  <2>2. /\ Len(buf) <= taken /\ SaidWithin(taken - Len(buf))
        /\ \A i \in 1..Len(buf) : buf[i] = heard[taken - Len(buf) + i]
    BY <2>1 DEF Traced
  <2>3. QED
    BY <2>1, <2>2, Lengths
<1>2. PICK m \in 0..Len(buf) : said' = said \o SubSeq(buf, 1, m)
  BY <1>1 DEF SendString, CStrings
<1>3. /\ SubSeq(buf, 1, m) \in Seq(Bytes) /\ Len(SubSeq(buf, 1, m)) = m
      /\ \A i \in 1..m : SubSeq(buf, 1, m)[i] = buf[i]
  <2>1. \A i \in 1..m : buf[i] \in Bytes
    BY Lengths
  <2>2. QED
    BY <2>1, <1>1, SubSeqProperties
<1>4. /\ Len(said') = l + m
      /\ \A i \in 1..l + m :
            said'[i] = IF i <= l THEN said[i] ELSE SubSeq(buf, 1, m)[i - l]
  BY <1>2, <1>3, Lengths, ConcatProperties
<1>5. PICK at \in [1..l -> 1..t] :
        /\ \A i \in 1..l : said[i] = heard[at[i]]
        /\ \A i, j \in 1..l : i < j => at[i] < at[j]
  BY <1>1 DEF SaidWithin
<1> DEFINE longer == [i \in 1..l + m |-> IF i <= l THEN at[i] ELSE t + (i - l)]
<1>6. taken = t + Len(buf) /\ m \in Nat /\ m <= Len(buf)
  BY <1>1
<1> HIDE DEF t, l
<1>7. longer \in [1..l + m -> 1..taken]
  <2> SUFFICES ASSUME NEW i \in 1..l + m
               PROVE  longer[i] \in 1..taken
    OBVIOUS
  <2>1. CASE i <= l
    <3>1. i \in 1..l /\ at[i] \in 1..t
      BY <1>1, <1>5, <2>1
    <3>2. QED
      BY <1>1, <1>6, <2>1, <3>1
  <2>2. CASE ~(i <= l)
    BY <1>1, <1>6, <2>2
  <2>3. QED
    BY <2>1, <2>2
<1>8. ASSUME NEW i \in 1..l + m
      PROVE  said'[i] = heard[longer[i]]
  <2>1. CASE i <= l
    <3>1. i \in 1..l
      BY <1>1, <2>1
    <3>2. QED
      BY <1>4, <1>5, <2>1, <3>1
  <2>2. CASE ~(i <= l)
    <3>1. i - l \in 1..m /\ i - l \in 1..Len(buf)
      BY <1>1, <1>6, <2>2
    <3>2. said'[i] = buf[i - l] /\ buf[i - l] = heard[t + (i - l)]
      BY <1>1, <1>3, <1>4, <2>2, <3>1
    <3>3. QED
      BY <2>2, <3>2
  <2>3. QED
    BY <2>1, <2>2
<1>9. ASSUME NEW i \in 1..l + m, NEW j \in 1..l + m, i < j
      PROVE  longer[i] < longer[j]
  <2>1. CASE j <= l
    <3>1. i \in 1..l /\ j \in 1..l
      BY <1>1, <1>9, <2>1
    <3>2. QED
      BY <1>1, <1>5, <1>9, <3>1
  <2>2. CASE i <= l /\ ~(j <= l)
    <3>1. i \in 1..l /\ at[i] \in 1..t /\ j - l \in Nat /\ j - l > 0
      BY <1>1, <1>5, <1>6, <2>2
    <3>2. longer[i] = at[i] /\ longer[j] = t + (j - l)
      BY <2>2
    <3> HIDE DEF longer
    <3>3. QED
      BY <1>1, <3>1, <3>2
  <2>3. CASE ~(i <= l)
    <3>1. longer[i] = t + (i - l) /\ longer[j] = t + (j - l)
      BY <1>1, <1>6, <1>9, <2>3
    <3> HIDE DEF longer
    <3>2. QED
      BY <1>1, <1>6, <1>9, <3>1
  <2>4. QED
    BY <1>1, <1>6, <2>1, <2>2, <2>3
<1>10. QED
  <2> HIDE DEF longer
  <2>1. QED
    BY <1>1, <1>4, <1>7, <1>8, <1>9 DEF SaidWithin

\* Traced is kept: recv puts the next bytes in buf, send says a beginning of
\* them, and a socket that is not up says nothing more.
LEMMA TracedStep ==
  ASSUME TypeOK, Traced, [Next]_vars
  PROVE  Traced'
<1> USE DEF server
<1>1. ~overran => SaidWithin(taken) \/ (pc = "send" /\ sock = "up")
  BY DEF Traced
<1>2. ~overran => SaidWithin(taken)
  <2>1. CASE pc = "send" /\ sock = "up" /\ ~overran
    <3>1. Len(buf) <= taken /\ SaidWithin(taken - Len(buf))
      BY <2>1 DEF Traced
    <3>2. taken - Len(buf) \in Nat /\ taken \in Nat /\ taken - Len(buf) <= taken
      BY <3>1, Lengths
    <3>3. QED
      BY <3>1, <3>2, SaidWithinMore
  <2>2. QED
    BY <1>1, <2>1
<1>3. CASE RecvBytes
  <2>1. PICK n \in 1..BufLen : /\ taken + n <= Len(heard)
                               /\ buf' = SubSeq(heard, taken + 1, taken + n)
                               /\ taken' = taken + n
    BY <1>3 DEF RecvBytes
  <2>2. n \in Nat /\ n > 0 /\ taken \in Nat
    BY ConnAssumption, Lengths
  <2>3. pc' = "send" /\ UNCHANGED <<said, heard, sock, overran>>
    BY <1>3 DEF RecvBytes, MayReceive
  <2>4. Len(buf') = n /\ \A i \in 1..n : buf'[i] = heard[taken + i]
    <3>1. taken \in Nat /\ \A i \in taken + 1..taken + n : heard[i] \in Bytes
      BY <2>1, <2>2, Lengths
    <3>2. /\ taken + 1 \in Int /\ taken + n \in Int /\ taken + 1 <= taken + n
          /\ (taken + n - (taken + 1)) + 1 = n
      BY <2>2, <3>1
    <3>3. Len(buf') = n /\ \A i \in 1..n : buf'[i] = heard[(taken + 1) + i - 1]
      BY <2>1, <3>1, <3>2, SubSeqProperties
    <3>4. \A i \in 1..n : (taken + 1) + i - 1 = taken + i
      BY <2>2, <3>1
    <3>5. QED
      BY <3>3, <3>4
  <2>5. taken' - Len(buf') = taken /\ Len(buf') <= taken'
    <3>1. taken' = taken + n /\ Len(buf') = n
      BY <2>1, <2>4
    <3>2. QED
      BY <2>2, <3>1
  <2>6. ~overran => SaidWithin(taken')
    <3>1. taken + n \in Nat /\ taken <= taken + n
      BY <2>2
    <3>2. QED
      BY <1>2, <2>1, <2>2, <3>1, SaidWithinMore
  <2>7. SaidWithin(taken') => SaidWithin(taken)'
    BY <2>3 DEF SaidWithin
  <2>8. SaidWithin(taken) => SaidWithin(taken - Len(buf))'
    BY <2>3, <2>5 DEF SaidWithin
  <2>9. QED
    BY <1>2, <2>1, <2>3, <2>4, <2>5, <2>6, <2>7, <2>8 DEF Traced
<1>4. CASE RecvError \/ RecvEof \/ LeaveLoop \/ SendKilled \/ ResetArrives
  <2>1. ~(pc' = "send" /\ sock' = "up") /\ UNCHANGED <<taken, heard, said, overran>>
    BY <1>4 DEF RecvError, RecvEof, LeaveLoop, SendKilled, ResetArrives
  <2>2. SaidWithin(taken) => SaidWithin(taken)'
    BY <2>1 DEF SaidWithin
  <2>3. QED
    BY <1>2, <2>1, <2>2 DEF Traced
<1>5. CASE SendString
  <2>1. pc' = "recv" /\ (~overran' => ~overran)
    BY <1>5 DEF SendString
  <2>2. CASE sock = "up"
    BY <1>5, <2>1, <2>2, SendTraced DEF Traced
  <2>3. CASE sock # "up"
    <3>1. UNCHANGED <<taken, heard, said>>
      BY <1>5, <2>3 DEF SendString
    <3>2. SaidWithin(taken) => SaidWithin(taken)'
      BY <3>1 DEF SaidWithin
    <3>3. QED
      BY <1>2, <2>1, <3>2 DEF Traced
  <2>4. QED
    BY <2>2, <2>3
<1>6. CASE Write
  <2>1. PICK b \in Bytes : heard' = Append(heard, b)
    BY <1>6 DEF Write
  <2>2. UNCHANGED <<pc, buf, sock, taken, said, overran>>
    BY <1>6 DEF Write
  <2>3. \A i \in 1..taken : heard'[i] = heard[i]
    BY <2>1, Lengths, AppendProperties
  <2>4. ASSUME NEW t \in 0..taken, SaidWithin(t)
        PROVE  SaidWithin(t)'
    <3>1. \A i \in 1..t : i \in 1..taken
      BY Lengths
    <3>2. QED
      BY <2>2, <2>3, <2>4, <3>1 DEF SaidWithin
  <2>5. CASE ~(pc = "send" /\ sock = "up")
    BY <2>2, <2>4, <2>5, Lengths DEF Traced
  <2>6. CASE pc = "send" /\ sock = "up"
    <3> SUFFICES ASSUME ~overran
                 PROVE  Traced'
      BY <2>2 DEF Traced
    <3>1. /\ Len(buf) <= taken /\ SaidWithin(taken - Len(buf))
          /\ \A i \in 1..Len(buf) : buf[i] = heard[taken - Len(buf) + i]
      BY <2>6 DEF Traced
    <3>2. taken - Len(buf) \in 0..taken
      BY <3>1, Lengths
    <3>3. \A i \in 1..Len(buf) : taken - Len(buf) + i \in 1..taken
      BY <3>1, Lengths
    <3>4. QED
      BY <2>2, <2>3, <2>4, <2>6, <3>1, <3>2, <3>3 DEF Traced
  <2>7. QED
    BY <2>5, <2>6
<1>7. CASE Close \/ Reset \/ UNCHANGED vars
  <2>1. UNCHANGED <<pc, buf, sock, taken, heard, said, overran>>
    BY <1>7 DEF Close, Reset, vars
  <2>2. QED
    BY <2>1 DEF Traced, SaidWithin
<1>8. QED
  BY <1>3, <1>4, <1>5, <1>6, <1>7 DEF Next, handle_client

\* Whatever the bytes, the pieces and the resets, what handle_client says is
\* what it received with some bytes left out, until strlen overruns a buffer.
THEOREM SaysNothingOfItsOwn == Spec => []NothingInvented
<1>1. Init => Traced
  <2> SUFFICES ASSUME Init PROVE Traced
    OBVIOUS
  <2>1. said = <<>> /\ Len(said) = 0 /\ taken = 0 /\ pc = "recv"
    BY DEF Init
  <2> DEFINE at == [i \in 1..0 |-> 0]
  <2>2. 1..0 = {} /\ at \in [1..0 -> 1..0]
    OBVIOUS
  <2>3. SaidWithin(0)
    BY <2>1, <2>2 DEF SaidWithin
  <2>4. QED
    BY <2>1, <2>3 DEF Traced
<1>2. TypeOK /\ Traced /\ [Next]_vars => Traced'
  BY TracedStep
<1>3. TypeOK /\ Traced => NothingInvented
  <2> SUFFICES ASSUME TypeOK, Traced, ~overran
               PROVE  Within(said, Received)
    BY DEF NothingInvented
  <2>1. SaidWithin(taken)
    <3>1. CASE pc = "send" /\ sock = "up"
      <4>1. Len(buf) <= taken /\ SaidWithin(taken - Len(buf))
        BY <3>1 DEF Traced
      <4>2. taken - Len(buf) \in Nat /\ taken \in Nat /\ taken - Len(buf) <= taken
        BY <4>1, Lengths
      <4>3. QED
        BY <4>1, <4>2, SaidWithinMore
    <3>2. QED
      BY <3>1 DEF Traced
  <2>2. /\ Len(Received) = taken /\ DOMAIN Received = 1..taken
        /\ \A i \in 1..taken : Received[i] = heard[i]
    <3>1. \A i \in 1..taken : heard[i] \in Bytes
      BY Lengths
    <3>2. /\ SubSeq(heard, 1, taken) \in Seq(Bytes) /\ Len(SubSeq(heard, 1, taken)) = taken
          /\ \A i \in 1..taken : SubSeq(heard, 1, taken)[i] = heard[i]
      BY <3>1, Lengths, SubSeqProperties
    <3>3. QED
      BY <3>2 DEF Received
  <2>3. DOMAIN said = 1..Len(said)
    BY Lengths
  <2>4. PICK at \in [1..Len(said) -> 1..taken] :
          /\ \A i \in 1..Len(said) : said[i] = heard[at[i]]
          /\ \A i, j \in 1..Len(said) : i < j => at[i] < at[j]
    BY <2>1 DEF SaidWithin
  <2>5. \A i \in 1..Len(said) : said[i] = Received[at[i]]
    BY <2>2, <2>4
  <2>6. QED
    BY <2>2, <2>3, <2>4, <2>5 DEF Within
<1>4. Spec => []TypeOK
  BY ConnTypeCorrect
<1>5. QED
  BY <1>1, <1>2, <1>3, <1>4, PTL DEF Spec
=============================================================================

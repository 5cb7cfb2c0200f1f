-------------------------- MODULE FrameworkProofs --------------------------
(***************************************************************************)
(* Proofs about the C# framework.  Of Startup, for any hosts, answers and  *)
(* network: the server listens on the address that the first server        *)
(* reached is reached from.  Of Codecs, for inputs of any length made of   *)
(* any bytes: what decoders give back, what they accept, what is found and *)
(* what is removed.                                                        *)
(***************************************************************************)
EXTENDS Startup, Codecs, SequenceTheorems, TLAPS

-----------------------------------------------------------------------------
(* Start-up: look-ups and probes. *)

\* The loop over the addresses of an answer.
AnswerLoop == INSTANCE FoldProofs WITH Op <- AddServer

Remote == Servers \union {Loopback}

\* What an answer adds to a list: its addresses but loopback, behind what was
\* there, and each after all that stand before it in the answer.
Adds(old, answer, new) ==
    /\ new \in Seq(Servers) /\ Len(old) <= Len(new)
    /\ \A k \in 1..Len(old) : new[k] = old[k]
    /\ ToSet(new) = ToSet(old) \union (ToSet(answer) \ {Loopback})
    /\ \A k \in Len(old) + 1 .. Len(new) :
          \E m \in DOMAIN answer :
              /\ answer[m] = new[k]
              /\ \A j \in 1 .. m - 1 :
                    answer[j] # Loopback => \E i \in 1 .. k - 1 : new[i] = answer[j]

LEMMA OneAddress ==
  ASSUME NEW old \in Seq(Servers), NEW answer \in Seq(Remote), NEW ip \in Remote,
         NEW new, Adds(old, answer, new)
  PROVE  Adds(old, Append(answer, ip), AddServer(new, ip))
<1> DEFINE longer == Append(answer, ip)
           n == Len(answer)
<1>1. /\ longer \in Seq(Remote) /\ Len(longer) = n + 1 /\ n \in Nat
      /\ \A i \in 1..n : longer[i] = answer[i]
      /\ longer[n + 1] = ip /\ DOMAIN answer = 1..n /\ DOMAIN longer = 1 .. n + 1
  OBVIOUS
<1>2. ToSet(longer) = ToSet(answer) \union {ip}
  BY <1>1 DEF ToSet
<1>3. new \in Seq(Servers) /\ Len(new) \in Nat /\ Len(old) \in Nat
  BY DEF Adds
<1>4. \A m \in DOMAIN answer : m \in DOMAIN longer /\ \A j \in 1..m : longer[j] = answer[j]
  BY <1>1
<1> HIDE DEF longer, n
<1>5. CASE ip = Loopback
  <2>1. AddServer(new, ip) = new
    BY <1>5 DEF AddServer
  <2>2. ToSet(longer) \ {Loopback} = ToSet(answer) \ {Loopback}
    BY <1>2, <1>5
  <2>3. ASSUME NEW k \in Len(old) + 1 .. Len(new)
        PROVE  \E m \in DOMAIN longer :
                   /\ longer[m] = new[k]
                   /\ \A j \in 1 .. m - 1 :
                         longer[j] # Loopback => \E i \in 1 .. k - 1 : new[i] = longer[j]
    <3>1. PICK m \in DOMAIN answer :
              /\ answer[m] = new[k]
              /\ \A j \in 1 .. m - 1 :
                    answer[j] # Loopback => \E i \in 1 .. k - 1 : new[i] = answer[j]
      BY DEF Adds
    <3>2. m \in 1..n
      BY <1>1
    <3>3. QED
      BY <1>1, <1>4, <3>1, <3>2
  <2>4. Adds(old, longer, new)
    BY <2>2, <2>3 DEF Adds
  <2>5. QED
    BY <2>1, <2>4 DEF longer
<1>6. CASE ip # Loopback
  <2> DEFINE all == Append(new, ip)
             l == Len(new)
  <2>1. AddServer(new, ip) = all /\ ip \in Servers
    BY <1>6 DEF AddServer, Remote
  <2>2. /\ all \in Seq(Servers) /\ Len(all) = l + 1 /\ all[l + 1] = ip
        /\ \A i \in 1..l : all[i] = new[i]
        /\ DOMAIN all = 1 .. l + 1 /\ DOMAIN new = 1..l /\ l \in Nat
    BY <1>3, <2>1
  <2>3. ToSet(all) = ToSet(new) \union {ip}
    BY <2>2 DEF ToSet
  <2> HIDE DEF all, l
  <2>4. ToSet(all) = ToSet(old) \union (ToSet(longer) \ {Loopback})
    BY <1>2, <1>6, <2>3 DEF Adds
  <2>5. Len(old) <= l /\ \A k \in 1..Len(old) : all[k] = old[k]
    BY <1>3, <2>2 DEF Adds, l
  <2>6. ASSUME NEW k \in Len(old) + 1 .. Len(all)
        PROVE  \E m \in DOMAIN longer :
                   /\ longer[m] = all[k]
                   /\ \A j \in 1 .. m - 1 :
                         longer[j] # Loopback => \E i \in 1 .. k - 1 : all[i] = longer[j]
    <3>1. CASE k \in Len(old) + 1 .. l
      <4>1. PICK m \in DOMAIN answer :
                /\ answer[m] = new[k]
                /\ \A j \in 1 .. m - 1 :
                      answer[j] # Loopback => \E i \in 1 .. k - 1 : new[i] = answer[j]
        BY <3>1 DEF Adds, l
      <4>2. m \in 1..n /\ k \in 1..l /\ \A i \in 1 .. k - 1 : i \in 1..l
        BY <1>1, <1>3, <2>2, <3>1
      <4>3. longer[m] = all[k] /\ m \in DOMAIN longer
        BY <1>4, <2>2, <4>1, <4>2
      <4>4. ASSUME NEW j \in 1 .. m - 1, longer[j] # Loopback
            PROVE  \E i \in 1 .. k - 1 : all[i] = longer[j]
        <5>1. j \in 1..n /\ longer[j] = answer[j]
          BY <1>1, <4>2
        <5>2. PICK i \in 1 .. k - 1 : new[i] = answer[j]
          BY <4>1, <4>4, <5>1
        <5>3. QED
          BY <2>2, <4>2, <5>1, <5>2
      <4>5. QED
        BY <4>3, <4>4
    <3>2. CASE k = l + 1
      <4>1. n + 1 \in DOMAIN longer /\ longer[n + 1] = all[k]
        BY <1>1, <2>2, <3>2
      <4>2. ASSUME NEW j \in 1 .. (n + 1) - 1, longer[j] # Loopback
            PROVE  \E i \in 1 .. k - 1 : all[i] = longer[j]
        <5>1. longer[j] \in ToSet(answer) \ {Loopback}
          BY <1>1, <4>2 DEF ToSet
        <5>2. longer[j] \in ToSet(new)
          BY <5>1 DEF Adds
        <5>3. PICK i \in 1..l : new[i] = longer[j]
          BY <2>2, <5>2 DEF ToSet
        <5>4. i \in 1 .. k - 1
          BY <2>2, <3>2
        <5>5. QED
          BY <2>2, <5>3, <5>4
      <4>3. QED
        BY <4>1, <4>2
    <3>3. k \in Len(old) + 1 .. l \/ k = l + 1
      BY <1>3, <2>2
    <3>4. QED
      BY <3>1, <3>2, <3>3
  <2>7. Adds(old, longer, all)
    BY <1>3, <2>2, <2>4, <2>5, <2>6 DEF Adds, l
  <2>8. QED
    BY <2>1, <2>7 DEF longer
<1>7. QED
  BY <1>5, <1>6

LEMMA AnswerAdds ==
  ASSUME NEW old \in Seq(Servers), NEW answer \in Seq(Remote)
  PROVE  Adds(old, answer, FoldLeft(AddServer, old, answer))
<1> DEFINE S == {r \in Seq(Remote) : Adds(old, r, AnswerLoop!Fold(old, r))}
<1>1. <<>> \in S
  <2>1. AnswerLoop!Fold(old, <<>>) = old
    BY AnswerLoop!FoldEmpty
  <2>2. ToSet(<<>>) = {} /\ <<>> \in Seq(Remote) /\ Len(old) \in Nat
    BY DEF ToSet
  <2>3. Adds(old, <<>>, old)
    BY <2>2 DEF Adds
  <2>4. QED
    BY <2>1, <2>2, <2>3
<1>2. ASSUME NEW r \in Seq(Remote), NEW ip \in Remote, r \in S
      PROVE  Append(r, ip) \in S
  <2>1. AnswerLoop!Fold(old, Append(r, ip)) = AddServer(AnswerLoop!Fold(old, r), ip)
    BY AnswerLoop!FoldAppend
  <2>2. Adds(old, Append(r, ip), AddServer(AnswerLoop!Fold(old, r), ip))
    BY <1>2, OneAddress
  <2>3. Append(r, ip) \in Seq(Remote)
    OBVIOUS
  <2>4. QED
    BY <2>1, <2>2, <2>3
<1> HIDE DEF S
<1>3. Seq(Remote) \subseteq S
  BY <1>1, <1>2, AnswerLoop!Appending
<1>4. Adds(old, answer, AnswerLoop!Fold(old, answer))
  BY <1>3 DEF S
<1>5. AnswerLoop!Fold(old, answer) = FoldLeft(AddServer, old, answer)
  BY DEF AnswerLoop!Fold, FoldLeft, AnswerLoop!FoldLeft, MapThenFoldSet,
         AnswerLoop!MapThenFoldSet, Max, AnswerLoop!Max
<1>6. QED
  BY <1>4, <1>5

-----------------------------------------------------------------------------
(* The invariant of start-up. *)

TypeInv ==
    /\ dns \in [ToSet(Hosts) -> Answers \union {None}]
    /\ route \in [Servers -> Locals \union {None}]
    /\ dual \in BOOLEAN /\ taken \in SUBSET Locals
    /\ logDir \in {"there", "missing", "denied"}
    /\ pc \in {"lookup", "probe", "listen", "serving", "crashed", "ended"}
    /\ next \in Nat \ {0}
    /\ serverIps \in Seq(Servers) /\ validAddrs \in Seq(Locals) /\ listening \in Seq(Locals)

\* The k-th server is reached, and none before it.
Foremost(k) ==
    /\ k \in DOMAIN serverIps /\ route[serverIps[k]] # None
    /\ \A i \in 1 .. k - 1 : route[serverIps[i]] = None

\* What is known when n hosts have been looked up: the servers of their answers
\* are in the list, the foremost that is reached is the first of all, and an
\* answer that failed to come stopped nothing.
LookUps(n) ==
    /\ \A i \in 1..n : Answered(Hosts[i]) => ToSet(dns[Hosts[i]]) \ {Loopback} \subseteq ToSet(serverIps)
    /\ \A k \in DOMAIN serverIps :
          \E i \in 1..n : Answered(Hosts[i]) /\ serverIps[k] \in ToSet(dns[Hosts[i]])
    /\ \A k \in DOMAIN serverIps : Foremost(k) => IsFirst(serverIps[k])
    /\ \A i \in 1..n : ~Answered(Hosts[i]) => Hosts[i] \in Guarded /\ ~LogThrows

\* What is known when n servers have been probed.
Probes(n) ==
    /\ validAddrs = <<>> => \A i \in 1..n : ClientIp(serverIps[i]) = None
    /\ validAddrs # <<>> =>
          dual /\ \E k \in 1..n : Foremost(k) /\ validAddrs[1] = route[serverIps[k]]
    /\ \A i \in 1..n : ClientIp(serverIps[i]) = None => ~LogThrows

LookUpInv ==
    pc = "lookup" => /\ next <= Len(Hosts) + 1 /\ LookUps(next - 1)
                     /\ validAddrs = <<>> /\ listening = <<>>
ProbeInv ==
    pc = "probe" => /\ next <= Len(serverIps) + 1 /\ LookUps(Len(Hosts)) /\ Probes(next - 1)
                    /\ listening = <<>>
ListenInv ==
    pc = "listen" => /\ next = 1 /\ LookUps(Len(Hosts)) /\ Probes(Len(serverIps))
                     /\ listening = <<>>
ServeInv ==
    listening # <<>> => /\ LookUps(Len(Hosts)) /\ Probes(Len(serverIps))
                        /\ validAddrs # <<>> /\ listening = <<validAddrs[1]>>
                        /\ validAddrs[1] \notin taken

IInv == TypeInv /\ LookUpInv /\ ProbeInv /\ ListenInv /\ ServeInv

-----------------------------------------------------------------------------
(* Its types, and the start. *)

LEMMA InitInv == Init => IInv
<1> SUFFICES ASSUME Init PROVE IInv
  OBVIOUS
<1>1. TypeInv
  BY DEF Init, TypeInv
<1>2. LookUps(0)
  BY DEF Init, LookUps
<1>3. next <= Len(Hosts) + 1 /\ next - 1 = 0
  BY StartupAssumption DEF Init
<1>4. QED
  BY <1>1, <1>2, <1>3 DEF Init, IInv, LookUpInv, ProbeInv, ListenInv, ServeInv

LEMMA AnswerType ==
  ASSUME TypeInv, NEW i \in 1..Len(Hosts), Answered(Hosts[i])
  PROVE  dns[Hosts[i]] \in Seq(Remote)
<1>1. Hosts[i] \in ToSet(Hosts)
  BY StartupAssumption DEF ToSet
<1>2. QED
  BY <1>1, StartupAssumption DEF TypeInv, Answered, Remote

\* What the facts about the look-ups and the probes speak of, in steps that
\* leave the list of servers as it is.
LEMMA FactsKept ==
  ASSUME UNCHANGED <<world, serverIps>>, LogThrows' = LogThrows
  PROVE  /\ \A h : Answered(h)' = Answered(h)
         /\ \A s : IsFirst(s)' = IsFirst(s)
         /\ \A s : ClientIp(s)' = ClientIp(s)
         /\ \A k : Foremost(k)' = Foremost(k)
         /\ \A n : LookUps(n)' = LookUps(n)
         /\ UNCHANGED validAddrs => \A n : Probes(n)' = Probes(n)
<1> USE DEF world
<1>1. \A h : Answered(h)' = Answered(h)
  BY DEF Answered
<1>2. \A s : IsFirst(s)' = IsFirst(s)
  BY DEF IsFirst, Reached, Asked, Answered
<1>3. \A s : ClientIp(s)' = ClientIp(s)
  BY DEF ClientIp
<1>4. \A k : Foremost(k)' = Foremost(k)
  BY DEF Foremost
<1>5. \A n : LookUps(n)' = LookUps(n)
  BY <1>1, <1>2, <1>4 DEF LookUps
<1>6. UNCHANGED validAddrs => \A n : Probes(n)' = Probes(n)
  BY <1>3, <1>4 DEF Probes
<1>7. QED
  BY <1>1, <1>2, <1>3, <1>4, <1>5, <1>6

\* The log directory that is refused stays refused.
LEMMA LogKept ==
  ASSUME TypeInv, Next
  PROVE  LogThrows' = LogThrows
BY DEF TypeInv, Next, Main, LookUp, LookUpFails, LookUpsDone, Probe, ProbeFails, ProbesDone,
       Listen, BindThrows, MainReturns, ServerThrows, LogThrows, LogStatic

-----------------------------------------------------------------------------
(* The look-ups. *)

LEMMA AskedIs ==
  \A s : s \in Asked <=> /\ s # Loopback
                         /\ \E h \in ToSet(Hosts) : Answered(h) /\ s \in ToSet(dns[h])
BY DEF Asked

\* A reached server in an answer that has been looked up is in the list.
LEMMA ReachedIsListed ==
  ASSUME TypeInv, NEW n \in Nat, n <= Len(Hosts), LookUps(n), NEW j \in 1..n,
         Answered(Hosts[j]), NEW s \in ToSet(dns[Hosts[j]]) \cap Reached
  PROVE  s \in ToSet(serverIps) /\ route[s] # None
<1>1. s # Loopback /\ route[s] # None
  BY AskedIs DEF Reached
<1>2. QED
  BY <1>1 DEF LookUps

LEMMA LookUpStep == ASSUME IInv, LookUp PROVE IInv'
<1> DEFINE n == next - 1
           h == Hosts[next]
           old == serverIps
           new == serverIps'
<1>1. /\ n \in Nat /\ next \in 1..Len(Hosts) /\ Len(Hosts) \in Nat /\ n + 1 = next
      /\ n <= Len(Hosts) /\ next' = next + 1 /\ next' - 1 = n + 1
      /\ LookUps(n) /\ TypeInv /\ Answered(h)
      /\ validAddrs = <<>> /\ listening = <<>> /\ pc = "lookup"
  BY StartupAssumption DEF IInv, TypeInv, LookUpInv, LookUp, GoOn, Answered
<1>2. dns[h] \in Seq(Remote) /\ old \in Seq(Servers)
  BY <1>1, AnswerType DEF TypeInv
<1>3. Adds(old, dns[h], new)
  BY <1>2, AnswerAdds DEF LookUp
<1>4. UNCHANGED <<world, logDir, pc, validAddrs, listening>>
  BY DEF LookUp
<1>5. TypeInv'
  BY <1>1, <1>3, <1>4 DEF TypeInv, Adds, world
<1>6. /\ \A i : Answered(Hosts[i])' = Answered(Hosts[i])
      /\ \A s : IsFirst(s)' = IsFirst(s)
      /\ LogThrows' = LogThrows /\ dns' = dns /\ route' = route
  BY <1>4 DEF world, IsFirst, Reached, Asked, Answered, LogThrows
<1>7. /\ ToSet(new) = ToSet(old) \union (ToSet(dns[h]) \ {Loopback})
      /\ DOMAIN old = 1..Len(old) /\ DOMAIN new = 1..Len(new)
      /\ Len(old) \in Nat /\ Len(new) \in Nat /\ Len(old) <= Len(new)
      /\ \A k \in 1..Len(old) : new[k] = old[k]
  BY <1>2, <1>3 DEF Adds
<1> HIDE DEF n, h, old, new
<1>8. \A i \in 1..n + 1 : i \in 1..n \/ Hosts[i] = h
  BY <1>1 DEF h
<1>9. /\ \A i \in 1..n + 1 : Answered(Hosts[i]) => ToSet(dns[Hosts[i]]) \ {Loopback} \subseteq ToSet(new)
      /\ \A i \in 1..n + 1 : ~Answered(Hosts[i]) => Hosts[i] \in Guarded /\ ~LogThrows
  BY <1>1, <1>7, <1>8 DEF LookUps, old
<1>10. ASSUME NEW k \in DOMAIN new
       PROVE  \E i \in 1..n + 1 : Answered(Hosts[i]) /\ new[k] \in ToSet(dns[Hosts[i]])
  <2>1. new[k] \in ToSet(new)
    BY DEF ToSet
  <2>2. CASE new[k] \in ToSet(dns[h])
    <3>1. n + 1 \in 1..n + 1 /\ Hosts[n + 1] = h
      BY <1>1 DEF h
    <3>2. QED
      BY <1>1, <2>2, <3>1
  <2>3. CASE new[k] \in ToSet(old)
    <3>1. PICK m \in DOMAIN serverIps : serverIps[m] = new[k]
      BY <2>3 DEF ToSet, old
    <3>2. PICK i \in 1..n : Answered(Hosts[i]) /\ new[k] \in ToSet(dns[Hosts[i]])
      BY <1>1, <3>1 DEF LookUps
    <3>3. i \in 1..n + 1
      BY <1>1
    <3>4. QED
      BY <3>2, <3>3
  <2>4. QED
    BY <1>7, <2>1, <2>2, <2>3
<1>11. ASSUME NEW k \in DOMAIN new, route[new[k]] # None,
              \A i \in 1 .. k - 1 : route[new[i]] = None
       PROVE  IsFirst(new[k])
  <2>1. CASE k \in 1..Len(old)
    <3>1. Foremost(k) /\ k \in DOMAIN serverIps /\ serverIps[k] = new[k]
      BY <1>7, <1>11, <2>1 DEF Foremost, old
    <3>2. QED
      BY <1>1, <3>1 DEF LookUps
  <2>2. CASE k \in Len(old) + 1 .. Len(new)
    <3>1. PICK m \in DOMAIN dns[h] :
              /\ dns[h][m] = new[k]
              /\ \A j \in 1 .. m - 1 :
                    dns[h][j] # Loopback => \E i \in 1 .. k - 1 : new[i] = dns[h][j]
      BY <1>3, <2>2 DEF Adds
    <3>2. \A s \in ToSet(old) : route[s] = None
      <4>1. \A i \in 1..Len(old) : i \in 1 .. k - 1 /\ old[i] = new[i]
        BY <1>7, <2>2
      <4>2. QED
        BY <1>7, <1>11, <4>1 DEF ToSet
    <3>3. \A j \in 1..n : Answered(Hosts[j]) => ToSet(dns[Hosts[j]]) \cap Reached = {}
      BY <1>1, <3>2, ReachedIsListed DEF old
    <3>4. new[k] \in Reached
      <4>1. new[k] \in Servers
        BY <1>3, <1>7 DEF Adds
      <4>2. new[k] \in ToSet(dns[h]) /\ new[k] # Loopback /\ h \in ToSet(Hosts)
        BY <1>1, <3>1, <4>1, StartupAssumption DEF ToSet, h
      <4>3. QED
        BY <1>1, <1>11, <4>2, AskedIs DEF Reached
    <3>5. \A j \in 1 .. m - 1 : dns[h][j] \notin Reached
      <4>1. SUFFICES ASSUME NEW j \in 1 .. m - 1, dns[h][j] \in Reached PROVE FALSE
        OBVIOUS
      <4>2. dns[h][j] # Loopback /\ route[dns[h][j]] # None
        BY <4>1, AskedIs DEF Reached
      <4>3. PICK i \in 1 .. k - 1 : new[i] = dns[h][j]
        BY <3>1, <4>2
      <4>4. QED
        BY <1>11, <4>2, <4>3
    <3>6. next \in DOMAIN Hosts /\ 1 .. next - 1 = 1..n
      BY <1>1, StartupAssumption
    <3>7. QED
      BY <1>1, <3>1, <3>3, <3>4, <3>5, <3>6 DEF IsFirst, h
  <2>3. QED
    BY <1>7, <2>1, <2>2
<1>12. LookUps(next - 1)'
  <2>1. 1 .. next' - 1 = 1..n + 1
    BY <1>1
  <2>2. \A k : Foremost(k)' => IsFirst(new[k])
    BY <1>6, <1>11 DEF Foremost, new
  <2>3. QED
    BY <1>6, <1>9, <1>10, <2>1, <2>2 DEF LookUps, new
<1>13. next' <= Len(Hosts) + 1
  BY <1>1
<1>14. QED
  BY <1>1, <1>4, <1>5, <1>12, <1>13 DEF IInv, LookUpInv, ProbeInv, ListenInv, ServeInv

\* A look-up that failed is logged, or ends the program.
LEMMA LookUpFailsStep == ASSUME IInv, LookUpFails PROVE IInv'
<1>1. /\ TypeInv /\ LookUps(next - 1) /\ next \in Nat \ {0} /\ next <= Len(Hosts)
      /\ pc = "lookup" /\ validAddrs = <<>> /\ listening = <<>> /\ ~Answered(Hosts[next])
  BY DEF IInv, TypeInv, LookUpInv, LookUpFails, Answered
<1>2. LogThrows' = LogThrows
  BY <1>1, LogKept DEF Next, Main
<1>3. UNCHANGED <<world, serverIps, validAddrs, listening>>
  BY DEF LookUpFails
<1>4. TypeInv'
  BY <1>1, <1>3 DEF TypeInv, LookUpFails, LogStatic, GoOn, Exit, world
<1>5. CASE pc' = "crashed"
  BY <1>1, <1>3, <1>4, <1>5 DEF IInv, LookUpInv, ProbeInv, ListenInv, ServeInv
<1>6. CASE pc' # "crashed"
  <2>1. Hosts[next] \in Guarded /\ ~LogThrows /\ next' = next + 1 /\ pc' = pc
    BY <1>6 DEF LookUpFails, Exit, GoOn
  <2>2. LookUps(next)
    <3>1. \A i \in 1..next : i \in 1 .. next - 1 \/ i = next
      BY <1>1
    <3>2. \A i \in 1 .. next - 1 : i \in 1..next
      BY <1>1
    <3>3. QED
      BY <1>1, <2>1, <3>1, <3>2 DEF LookUps
  <2>3. LookUps(next - 1)'
    <3>1. 1 .. next' - 1 = 1..next
      BY <1>1, <2>1
    <3>2. QED
      BY <1>2, <1>3, <2>2, <3>1, FactsKept DEF LookUps
  <2>4. next' <= Len(Hosts) + 1
    BY <1>1, <2>1, StartupAssumption
  <2>5. QED
    BY <1>1, <1>3, <1>4, <2>1, <2>3, <2>4 DEF IInv, LookUpInv, ProbeInv, ListenInv, ServeInv
<1>7. QED
  BY <1>5, <1>6

LEMMA LookUpsDoneStep == ASSUME IInv, LookUpsDone PROVE IInv'
<1>1. /\ TypeInv /\ LookUps(Len(Hosts)) /\ validAddrs = <<>> /\ listening = <<>>
  <2>1. next - 1 = Len(Hosts) /\ TypeInv /\ pc = "lookup" /\ LookUpInv
    BY StartupAssumption DEF IInv, TypeInv, LookUpInv, LookUpsDone
  <2>2. QED
    BY <2>1 DEF LookUpInv
<1>2. /\ pc' = "probe" /\ next' = 1 /\ UNCHANGED <<world, serverIps, validAddrs, listening>>
      /\ UNCHANGED logDir
  BY DEF LookUpsDone
<1>3. LogThrows' = LogThrows
  BY <1>2 DEF LogThrows
<1>4. LookUps(Len(Hosts))'
  BY <1>1, <1>2, <1>3, FactsKept
<1>5. Probes(next - 1)'
  BY <1>1, <1>2 DEF Probes
<1>6. TypeInv' /\ (next <= Len(serverIps) + 1)'
  BY <1>1, <1>2 DEF TypeInv, world
<1>7. QED
  BY <1>1, <1>2, <1>4, <1>5, <1>6 DEF IInv, LookUpInv, ProbeInv, ListenInv, ServeInv

-----------------------------------------------------------------------------
(* The probes. *)

\* Both results of a probe: one server more.
LEMMA AnyProbe ==
  ASSUME IInv, Probe \/ ProbeFails
  PROVE  /\ TypeInv /\ LookUps(Len(Hosts))' /\ Probes(next - 1)
         /\ next \in 1..Len(serverIps) /\ Len(serverIps) \in Nat
         /\ pc = "probe" /\ listening = <<>> /\ listening' = <<>>
         /\ LogThrows' = LogThrows /\ UNCHANGED <<world, serverIps>>
<1>1. /\ TypeInv /\ LookUps(Len(Hosts)) /\ Probes(next - 1) /\ next \in 1..Len(serverIps)
      /\ Len(serverIps) \in Nat /\ pc = "probe" /\ listening = <<>>
  BY DEF IInv, TypeInv, ProbeInv, Probe, ProbeFails
<1>2. LogThrows' = LogThrows
  BY <1>1, LogKept DEF Next, Main
<1>3. UNCHANGED <<world, serverIps, listening>>
  BY DEF Probe, ProbeFails
<1>4. LookUps(Len(Hosts))'
  BY <1>1, <1>2, <1>3, FactsKept
<1>5. QED
  BY <1>1, <1>2, <1>3, <1>4

\* The first address that is found is that of the foremost server reached: all
\* before it had none.
LEMMA ProbeStep == ASSUME IInv, Probe PROVE IInv'
<1> DEFINE n == next - 1
           ip == ClientIp(serverIps[next])
<1>1. /\ TypeInv /\ LookUps(Len(Hosts))' /\ Probes(n)
      /\ next \in 1..Len(serverIps) /\ Len(serverIps) \in Nat
      /\ pc = "probe" /\ listening = <<>> /\ listening' = <<>>
      /\ LogThrows' = LogThrows /\ UNCHANGED <<world, serverIps>>
  BY AnyProbe
<1>2. /\ ip # None /\ dual /\ route[serverIps[next]] = ip /\ pc' = pc
      /\ next' = next + 1 /\ UNCHANGED logDir
  BY DEF Probe, ClientIp, GoOn
<1>3. ip \in Locals
  <2>1. serverIps[next] \in Servers
    BY <1>1 DEF TypeInv
  <2>2. QED
    BY <1>2, <2>1, <1>1 DEF TypeInv
<1>4. /\ validAddrs' \in Seq(Locals) /\ validAddrs' # <<>>
      /\ validAddrs # <<>> => validAddrs'[1] = validAddrs[1]
      /\ validAddrs = <<>> => validAddrs'[1] = ip
  <2>1. validAddrs \in Seq(Locals)
    BY <1>1 DEF TypeInv
  <2>2. CASE ip \in ToSet(validAddrs)
    <3>1. validAddrs' = validAddrs /\ validAddrs # <<>>
      BY <2>2 DEF Probe, ToSet
    <3>2. QED
      BY <2>1, <3>1
  <2>3. CASE ip \notin ToSet(validAddrs)
    <3>1. validAddrs' = Append(validAddrs, ip)
      BY <2>3 DEF Probe
    <3>2. QED
      BY <1>3, <2>1, <3>1
  <2>4. QED
    BY <2>2, <2>3
<1>5. TypeInv' /\ (next <= Len(serverIps) + 1)'
  BY <1>1, <1>2, <1>4 DEF TypeInv, world
<1>6. \E k \in 1..next : Foremost(k) /\ validAddrs'[1] = route[serverIps[k]]
  <2>1. CASE validAddrs = <<>>
    <3>1. \A i \in 1..n : route[serverIps[i]] = None
      BY <1>1, <1>2, <2>1 DEF Probes, ClientIp
    <3>2. Foremost(next)
      BY <1>1, <1>2, <3>1 DEF Foremost, TypeInv
    <3>3. QED
      BY <1>1, <1>2, <1>4, <2>1, <3>2
  <2>2. CASE validAddrs # <<>>
    <3>1. PICK k \in 1..n : Foremost(k) /\ validAddrs[1] = route[serverIps[k]]
      BY <1>1, <2>2 DEF Probes
    <3>2. k \in 1..next
      BY <1>1
    <3>3. QED
      BY <1>4, <2>2, <3>1, <3>2
  <2>3. QED
    BY <2>1, <2>2
<1>7. \A i \in 1..next : ClientIp(serverIps[i]) = None => ~LogThrows
  <2>1. \A i \in 1..next : i \in 1..n \/ i = next
    BY <1>1
  <2>2. QED
    BY <1>1, <1>2, <2>1 DEF Probes
<1>8. Probes(next - 1)'
  <2>1. 1 .. next' - 1 = 1..next
    BY <1>1, <1>2
  <2>2. UNCHANGED <<dual, route>>
    BY <1>1 DEF world
  <2>3. QED
    BY <1>1, <1>2, <1>4, <1>6, <1>7, <2>1, <2>2, FactsKept DEF Probes
<1>9. QED
  BY <1>1, <1>2, <1>5, <1>8 DEF IInv, LookUpInv, ProbeInv, ListenInv, ServeInv

LEMMA ProbeFailsStep == ASSUME IInv, ProbeFails PROVE IInv'
<1>1. /\ TypeInv /\ LookUps(Len(Hosts))' /\ Probes(next - 1)
      /\ next \in 1..Len(serverIps) /\ Len(serverIps) \in Nat
      /\ pc = "probe" /\ listening = <<>> /\ listening' = <<>>
      /\ LogThrows' = LogThrows /\ UNCHANGED <<world, serverIps>>
  BY AnyProbe
<1>2. ClientIp(serverIps[next]) = None /\ UNCHANGED validAddrs
  BY DEF ProbeFails
<1>3. TypeInv'
  BY <1>1, <1>2 DEF TypeInv, ProbeFails, LogStatic, GoOn, Exit, world
<1>4. CASE pc' = "crashed"
  BY <1>1, <1>3, <1>4 DEF IInv, LookUpInv, ProbeInv, ListenInv, ServeInv
<1>5. CASE pc' # "crashed"
  <2>1. ~LogThrows /\ next' = next + 1 /\ pc' = pc
    BY <1>5 DEF ProbeFails, Exit, GoOn
  <2>2. Probes(next)
    <3>1. \A i \in 1..next : i \in 1 .. next - 1 \/ i = next
      BY <1>1
    <3>2. \A i \in 1 .. next - 1 : i \in 1..next
      BY <1>1
    <3>3. QED
      BY <1>1, <1>2, <2>1, <3>1, <3>2 DEF Probes
  <2>3. Probes(next - 1)'
    <3>1. 1 .. next' - 1 = 1..next
      BY <1>1, <2>1
    <3>2. dual' = dual /\ route' = route
      BY <1>1 DEF world
    <3>3. QED
      BY <1>1, <1>2, <2>2, <3>1, <3>2, FactsKept DEF Probes
  <2>4. (next <= Len(serverIps) + 1)'
    BY <1>1, <2>1
  <2>5. QED
    BY <1>1, <1>3, <2>1, <2>3, <2>4 DEF IInv, LookUpInv, ProbeInv, ListenInv, ServeInv
<1>6. QED
  BY <1>4, <1>5

LEMMA ProbesDoneStep == ASSUME IInv, ProbesDone PROVE IInv'
<1>1. /\ TypeInv /\ LookUps(Len(Hosts)) /\ Probes(Len(serverIps)) /\ listening = <<>>
  <2>1. next - 1 = Len(serverIps) /\ TypeInv /\ pc = "probe" /\ ProbeInv
    BY DEF IInv, TypeInv, ProbeInv, ProbesDone
  <2>2. QED
    BY <2>1 DEF ProbeInv
<1>2. /\ pc' = "listen" /\ next' = 1
      /\ UNCHANGED <<world, logDir, serverIps, validAddrs, listening>>
  BY DEF ProbesDone
<1>3. LogThrows' = LogThrows
  BY <1>2 DEF LogThrows
<1>4. LookUps(Len(Hosts))' /\ Probes(Len(serverIps))'
  BY <1>1, <1>2, <1>3, FactsKept DEF Probes
<1>5. TypeInv'
  BY <1>1, <1>2 DEF TypeInv, world
<1>6. QED
  BY <1>1, <1>2, <1>4, <1>5 DEF IInv, LookUpInv, ProbeInv, ListenInv, ServeInv

-----------------------------------------------------------------------------
(* The listener, and all steps. *)

LEMMA ListenStep ==
  ASSUME IInv, Listen \/ BindThrows \/ MainReturns \/ ServerThrows
  PROVE  IInv'
<1>1. UNCHANGED <<world, logDir, serverIps, validAddrs>> /\ UNCHANGED next
  BY DEF Listen, BindThrows, MainReturns, ServerThrows, Exit
<1>2. LogThrows' = LogThrows
  BY <1>1 DEF LogThrows
<1>3. \A n : LookUps(n)' = LookUps(n) /\ Probes(n)' = Probes(n)
  BY <1>1, <1>2, FactsKept
<1>4. CASE Listen
  <2>1. /\ TypeInv /\ next = 1 /\ LookUps(Len(Hosts)) /\ Probes(Len(serverIps))
        /\ listening = <<>> /\ validAddrs # <<>> /\ validAddrs[1] \notin taken
        /\ listening' = <<validAddrs[1]>> /\ pc' = "serving" /\ validAddrs[1] \in Locals
    BY <1>4 DEF IInv, TypeInv, ListenInv, Listen, Exit
  <2>2. TypeInv'
    BY <1>1, <2>1 DEF TypeInv, world
  <2>3. LookUps(Len(Hosts))' /\ Probes(Len(serverIps))'
    BY <1>1, <1>3, <2>1 DEF Probes
  <2>4. taken' = taken /\ validAddrs' = validAddrs
    BY <1>1 DEF world
  <2>5. QED
    BY <2>1, <2>2, <2>3, <2>4 DEF IInv, LookUpInv, ProbeInv, ListenInv, ServeInv
<1>5. CASE BindThrows \/ MainReturns \/ ServerThrows
  <2>1. pc' \in {"crashed", "ended"} /\ UNCHANGED listening /\ TypeInv /\ ServeInv
    BY <1>5 DEF BindThrows, MainReturns, ServerThrows, Exit, IInv
  <2>2. TypeInv'
    BY <1>1, <2>1 DEF TypeInv, world
  <2>3. ServeInv'
    BY <1>1, <1>3, <2>1 DEF ServeInv, Probes, world
  <2>4. QED
    BY <2>1, <2>2, <2>3 DEF IInv, LookUpInv, ProbeInv, ListenInv
<1>6. QED
  BY <1>4, <1>5

LEMMA NextInv == ASSUME IInv, [Next]_vars PROVE IInv'
<1>1. CASE Next
  BY <1>1, LookUpStep, LookUpFailsStep, LookUpsDoneStep, ProbeStep, ProbeFailsStep,
     ProbesDoneStep, ListenStep DEF Next, Main
<1>2. CASE UNCHANGED vars
  <2>1. LogThrows' = LogThrows
    BY <1>2 DEF vars, LogThrows
  <2>2. \A n : LookUps(n)' = LookUps(n) /\ Probes(n)' = Probes(n)
    BY <1>2, <2>1, FactsKept DEF vars
  <2>3. QED
    BY <1>2, <2>2 DEF vars, world, IInv, TypeInv, LookUpInv, ProbeInv, ListenInv, ServeInv,
                      LookUps, Probes
<1>3. QED
  BY <1>1, <1>2

\* The look-ups and the probes leave what they say they leave.
THEOREM StartupInductive == Spec => []IInv
<1>1. IInv /\ [Next]_vars => IInv'
  BY NextInv
<1>2. QED
  BY <1>1, InitInv, PTL DEF Spec

-----------------------------------------------------------------------------
(* The property of start-up. *)

\* Two servers cannot both be the first.
LEMMA OneFirst ==
  ASSUME TypeInv, NEW s, IsFirst(s), NEW t, IsFirst(t)
  PROVE  s = t
<1>1. PICK i \in DOMAIN Hosts :
          /\ Answered(Hosts[i])
          /\ \A j \in 1 .. i - 1 : Answered(Hosts[j]) => ToSet(dns[Hosts[j]]) \cap Reached = {}
          /\ \E k \in DOMAIN dns[Hosts[i]] :
                /\ dns[Hosts[i]][k] = s /\ s \in Reached
                /\ \A m \in 1 .. k - 1 : dns[Hosts[i]][m] \notin Reached
  BY DEF IsFirst
<1>2. PICK j \in DOMAIN Hosts :
          /\ Answered(Hosts[j])
          /\ \A l \in 1 .. j - 1 : Answered(Hosts[l]) => ToSet(dns[Hosts[l]]) \cap Reached = {}
          /\ \E k \in DOMAIN dns[Hosts[j]] :
                /\ dns[Hosts[j]][k] = t /\ t \in Reached
                /\ \A m \in 1 .. k - 1 : dns[Hosts[j]][m] \notin Reached
  BY DEF IsFirst
<1>3. i = j
  <2>1. /\ s \in ToSet(dns[Hosts[i]]) \cap Reached
        /\ t \in ToSet(dns[Hosts[j]]) \cap Reached
    BY <1>1, <1>2 DEF ToSet
  <2>2. i \in Nat \ {0} /\ j \in Nat \ {0}
    BY StartupAssumption
  <2>3. ~(i < j) /\ ~(j < i)
    BY <1>1, <1>2, <2>1, <2>2
  <2>4. QED
    BY <2>2, <2>3
<1>4. PICK k \in DOMAIN dns[Hosts[i]] :
          /\ dns[Hosts[i]][k] = s /\ s \in Reached
          /\ \A m \in 1 .. k - 1 : dns[Hosts[i]][m] \notin Reached
  BY <1>1
<1>5. PICK l \in DOMAIN dns[Hosts[i]] :
          /\ dns[Hosts[i]][l] = t /\ t \in Reached
          /\ \A m \in 1 .. l - 1 : dns[Hosts[i]][m] \notin Reached
  BY <1>2, <1>3
<1>6. k = l
  <2>1. dns[Hosts[i]] \in Seq(Remote)
    BY <1>1, AnswerType, StartupAssumption
  <2>2. k \in Nat \ {0} /\ l \in Nat \ {0}
    BY <2>1
  <2>3. ~(k < l) /\ ~(l < k)
    BY <1>4, <1>5, <2>2
  <2>4. QED
    BY <2>2, <2>3
<1>7. QED
  BY <1>4, <1>5, <1>6

\* When all answers are in the list, the servers asked for are those in it.
LEMMA ListIsAsked ==
  ASSUME TypeInv, LookUps(Len(Hosts))
  PROVE  ToSet(serverIps) = Asked
<1>1. DOMAIN Hosts = 1..Len(Hosts)
  BY StartupAssumption
<1>2. ASSUME NEW s \in Asked PROVE s \in ToSet(serverIps)
  <2>1. PICK h \in ToSet(Hosts) : Answered(h) /\ s \in ToSet(dns[h]) /\ s # Loopback
    BY AskedIs
  <2>2. PICK i \in 1..Len(Hosts) : h = Hosts[i]
    BY <1>1 DEF ToSet
  <2>3. QED
    BY <2>1, <2>2 DEF LookUps
<1>3. ASSUME NEW s \in ToSet(serverIps) PROVE s \in Asked
  <2>1. PICK k \in DOMAIN serverIps : s = serverIps[k]
    BY DEF ToSet
  <2>2. PICK i \in 1..Len(Hosts) : Answered(Hosts[i]) /\ s \in ToSet(dns[Hosts[i]])
    BY <2>1 DEF LookUps
  <2>3. s \in Servers
    BY <2>1 DEF TypeInv
  <2>4. s # Loopback /\ Hosts[i] \in ToSet(Hosts)
    BY <1>1, <2>3, StartupAssumption DEF ToSet
  <2>5. QED
    BY <2>2, <2>4, AskedIs
<1>4. QED
  BY <1>2, <1>3

\* The one address that is ever listened on is that from which the first
\* server reached was reached, and none is where a reason not to exists.
THEOREM FirstReachedIsServed == Spec => []ServesFirstReached
<1>1. ASSUME IInv PROVE ServesFirstReached
  <2> SUFFICES ASSUME listening # <<>>
               PROVE  /\ \E s \in Reached : IsFirst(s) /\ listening = <<route[s]>>
                      /\ ~NoStart
    BY DEF ServesFirstReached
  <2>1. /\ TypeInv /\ LookUps(Len(Hosts)) /\ Probes(Len(serverIps)) /\ validAddrs # <<>>
        /\ listening = <<validAddrs[1]>> /\ validAddrs[1] \notin taken
    BY <1>1 DEF IInv, ServeInv
  <2>2. PICK k \in 1..Len(serverIps) : Foremost(k) /\ validAddrs[1] = route[serverIps[k]]
    BY <2>1 DEF Probes
  <2> DEFINE s == serverIps[k]
  <2>3. /\ s \in Reached /\ IsFirst(s) /\ listening = <<route[s]>> /\ route[s] \notin taken
    <3>1. s \in ToSet(serverIps) /\ route[s] # None /\ IsFirst(s)
      BY <2>1, <2>2 DEF Foremost, LookUps, ToSet
    <3>2. QED
      BY <2>1, <2>2, <3>1, ListIsAsked DEF Reached
  <2> HIDE DEF s
  <2>4. \A h \in ToSet(Hosts) : ~Answered(h) => h \in Guarded /\ ~LogThrows
    <3>1. \A h \in ToSet(Hosts) : \E i \in 1..Len(Hosts) : h = Hosts[i]
      BY StartupAssumption DEF ToSet
    <3>2. QED
      BY <2>1, <3>1 DEF LookUps
  <2>5. dual
    BY <2>1 DEF Probes
  <2>6. LogThrows => Asked = Reached
    <3>1. SUFFICES ASSUME LogThrows, NEW t \in Asked PROVE route[t] # None
      BY DEF Reached
    <3>2. PICK i \in 1..Len(serverIps) : t = serverIps[i]
      BY <2>1, ListIsAsked DEF ToSet, TypeInv
    <3>3. QED
      BY <2>1, <2>5, <3>1, <3>2 DEF Probes, ClientIp
  <2>7. \A t \in Reached : IsFirst(t) => route[t] \notin taken
    BY <2>1, <2>3, OneFirst
  <2>8. ~NoStart
    BY <2>3, <2>4, <2>5, <2>6, <2>7 DEF NoStart
  <2>9. QED
    BY <2>3, <2>8
<1>2. QED
  BY <1>1, StartupInductive, PTL

-----------------------------------------------------------------------------
(* A text without some of its members. *)

DropLoop == INSTANCE FoldProofs WITH Op <- Keep

LEMMA DropIsFold ==
  ASSUME NEW t, NEW S
  PROVE  Drop(t, S) = DropLoop!Fold([drop |-> S, kept |-> <<>>], t).kept
BY DEF Drop, DropLoop!Fold, FoldLeft, DropLoop!FoldLeft, MapThenFoldSet,
       DropLoop!MapThenFoldSet, Max, DropLoop!Max

\* The state of the loop: S stays, and what is kept is not in S.
LEMMA DropState ==
  ASSUME NEW T, NEW S, NEW t \in Seq(T)
  PROVE  DropLoop!Fold([drop |-> S, kept |-> <<>>], t) \in [drop : {S}, kept : Seq(T \ S)]
<1> DEFINE Typ == [drop : {S}, kept : Seq(T \ S)]
<1>1. [drop |-> S, kept |-> <<>>] \in Typ
  OBVIOUS
<1>2. \A m \in Typ, c \in T : Keep(m, c) \in Typ
  <2> SUFFICES ASSUME NEW m \in Typ, NEW c \in T PROVE Keep(m, c) \in Typ
    OBVIOUS
  <2>1. CASE c \in S
    BY <2>1 DEF Keep
  <2>2. CASE c \notin S
    <3>1. Append(m.kept, c) \in Seq(T \ S)
      BY <2>2
    <3>2. QED
      BY <2>2, <3>1 DEF Keep
  <2>3. QED
    BY <2>1, <2>2
<1> HIDE DEF Typ
<1>3. DropLoop!Fold([drop |-> S, kept |-> <<>>], t) \in Typ
  BY <1>1, <1>2, DropLoop!FoldType
<1>4. QED
  BY <1>3 DEF Typ

LEMMA DropType ==
  ASSUME NEW T, NEW S, NEW t \in Seq(T)
  PROVE  Drop(t, S) \in Seq(T \ S)
BY DropState, DropIsFold

LEMMA DropEmpty ==
  ASSUME NEW S
  PROVE  Drop(<<>>, S) = <<>>
<1>1. Drop(<<>>, S) = DropLoop!Fold([drop |-> S, kept |-> <<>>], <<>>).kept
  <2>1. <<>> \in Seq({})
    OBVIOUS
  <2>2. QED
    BY <2>1, DropIsFold
<1>2. QED
  BY <1>1, DropLoop!FoldEmpty

LEMMA DropAppend ==
  ASSUME NEW T, NEW S, NEW t \in Seq(T), NEW c \in T
  PROVE  Drop(Append(t, c), S) = IF c \in S THEN Drop(t, S) ELSE Append(Drop(t, S), c)
<1> DEFINE start == [drop |-> S, kept |-> <<>>]
           m == DropLoop!Fold(start, t)
<1>1. DropLoop!Fold(start, Append(t, c)) = Keep(m, c)
  BY DropLoop!FoldAppend
<1>2. m \in [drop : {S}, kept : Seq(T \ S)]
  BY DropState
<1>3. Drop(Append(t, c), S) = Keep(m, c).kept /\ Drop(t, S) = m.kept
  BY <1>1, DropIsFold
<1> HIDE DEF m
<1>4. QED
  BY <1>2, <1>3 DEF Keep

LEMMA ConcatAppend ==
  ASSUME NEW T, NEW s \in Seq(T), NEW r \in Seq(T), NEW c \in T
  PROVE  /\ s \o r \in Seq(T) /\ Append(r, c) \in Seq(T)
         /\ s \o Append(r, c) = Append(s \o r, c)
<1>1. <<c>> \in Seq(T)
  OBVIOUS
<1>2. s \o r \in Seq(T) /\ Append(r, c) \in Seq(T)
  BY ConcatProperties, AppendProperties
<1>3. Append(r, c) = r \o <<c>> /\ Append(s \o r, c) = (s \o r) \o <<c>>
  BY <1>2, AppendIsConcat
<1>4. (s \o r) \o <<c>> = s \o (r \o <<c>>)
  BY <1>1, ConcatAssociative
<1>5. QED
  BY <1>2, <1>3, <1>4

LEMMA DropConcat ==
  ASSUME NEW T, NEW S, NEW s \in Seq(T), NEW t \in Seq(T)
  PROVE  Drop(s \o t, S) = Drop(s, S) \o Drop(t, S)
<1> DEFINE P == {r \in Seq(T) : Drop(s \o r, S) = Drop(s, S) \o Drop(r, S)}
<1>0. Drop(s, S) \in Seq(T)
  <2>1. Drop(s, S) \in Seq(T \ S)
    BY DropType
  <2>2. QED
    BY <2>1
<1>1. <<>> \in P
  BY <1>0, DropEmpty
<1>2. ASSUME NEW r \in Seq(T), NEW c \in T, r \in P
      PROVE  Append(r, c) \in P
  <2>1. Drop(r, S) \in Seq(T)
    <3>1. Drop(r, S) \in Seq(T \ S)
      BY DropType
    <3>2. QED
      BY <3>1
  <2>2. s \o r \in Seq(T) /\ s \o Append(r, c) = Append(s \o r, c) /\ Append(r, c) \in Seq(T)
    BY ConcatAppend
  <2>3. Drop(s \o Append(r, c), S) = IF c \in S THEN Drop(s \o r, S) ELSE Append(Drop(s \o r, S), c)
    <3> DEFINE q == s \o r
    <3>1. q \in Seq(T)
      BY <2>2
    <3> HIDE DEF q
    <3>2. Drop(Append(q, c), S) = IF c \in S THEN Drop(q, S) ELSE Append(Drop(q, S), c)
      BY <3>1, DropAppend
    <3>3. QED
      BY <2>2, <3>2 DEF q
  <2>4. Drop(Append(r, c), S) = IF c \in S THEN Drop(r, S) ELSE Append(Drop(r, S), c)
    BY DropAppend
  <2>5. Drop(s \o r, S) = Drop(s, S) \o Drop(r, S)
    BY <1>2
  <2>6. Drop(s, S) \o Append(Drop(r, S), c) = Append(Drop(s, S) \o Drop(r, S), c)
    BY <1>0, <2>1, ConcatAppend
  <2>7. Drop(s \o Append(r, c), S) = Drop(s, S) \o Drop(Append(r, c), S)
    BY <2>3, <2>4, <2>5, <2>6
  <2>8. QED
    BY <2>2, <2>7
<1> HIDE DEF P
<1>3. Seq(T) \subseteq P
  BY <1>1, <1>2, DropLoop!Appending
<1>4. QED
  BY <1>3 DEF P

LEMMA DropAll ==
  ASSUME NEW S, NEW t \in Seq(S)
  PROVE  Drop(t, S) = <<>>
<1>1. Drop(t, S) \in Seq(S \ S)
  BY DropType
<1>2. S \ S = {}
  OBVIOUS
<1>3. Drop(t, S) \in Seq({})
  BY <1>1, <1>2
<1>4. QED
  BY <1>3

\* The first one is kept if it is none to drop.
LEMMA DropFirst ==
  ASSUME NEW T, NEW S, NEW t \in Seq(T), t # <<>>, t[1] \notin S
  PROVE  Drop(t, S) # <<>> /\ Drop(t, S)[1] = t[1]
<1> DEFINE head == <<t[1]>>
           rest == SubSeq(t, 2, Len(t))
<1>1. head \in Seq(T) /\ rest \in Seq(T) /\ t = head \o rest /\ t[1] \in T
  <2>1. 1 \in 1..Len(t) /\ Len(t) \in 1..Len(t) /\ t[1] \in T
    OBVIOUS
  <2>2. SubSeq(t, 1, Len(t)) = head \o SubSeq(t, 1 + 1, Len(t))
    BY <2>1, SubSeqRecursiveFirst
  <2>3. SubSeq(t, 1, Len(t)) = t
    BY SubSeqFull
  <2>4. rest \in Seq(T)
    OBVIOUS
  <2>5. QED
    BY <2>1, <2>2, <2>3, <2>4
<1>2. Drop(head, S) = head
  <2> DEFINE none == <<>>
  <2>1. none \in Seq(T) /\ none \o head = head /\ Drop(none, S) = none
    BY <1>1, ConcatEmptySeq, EmptySeq, DropEmpty
  <2> HIDE DEF none
  <2>2. head = Append(none, t[1])
    BY <1>1, <2>1, AppendIsConcat
  <2>3. Drop(Append(none, t[1]), S) = Append(Drop(none, S), t[1])
    BY <1>1, <2>1, DropAppend
  <2>4. QED
    BY <2>1, <2>2, <2>3
<1>3. Drop(rest, S) \in Seq(T \ S)
  BY <1>1, DropType
<1>4. Drop(t, S) = head \o Drop(rest, S)
  <2>1. Drop(head \o rest, S) = Drop(head, S) \o Drop(rest, S)
    BY <1>1, DropConcat
  <2>2. QED
    BY <1>1, <1>2, <2>1
<1>5. QED
  BY <1>3, <1>4

\* Dropping some first changes nothing for one who drops more.
LEMMA DropMore ==
  ASSUME NEW T, NEW S, NEW R, S \subseteq R, NEW t \in Seq(T)
  PROVE  Drop(Drop(t, S), R) = Drop(t, R)
<1> DEFINE P == {r \in Seq(T) : Drop(Drop(r, S), R) = Drop(r, R)}
<1>1. <<>> \in P
  BY DropEmpty
<1>2. ASSUME NEW r \in Seq(T), NEW c \in T, r \in P
      PROVE  Append(r, c) \in P
  <2>1. Drop(r, S) \in Seq(T)
    <3>1. Drop(r, S) \in Seq(T \ S)
      BY DropType
    <3>2. QED
      BY <3>1
  <2>2. Append(r, c) \in Seq(T)
    OBVIOUS
  <2>3. Drop(Append(r, c), S) = IF c \in S THEN Drop(r, S) ELSE Append(Drop(r, S), c)
    BY DropAppend
  <2>4. Drop(Append(r, c), R) = IF c \in R THEN Drop(r, R) ELSE Append(Drop(r, R), c)
    BY DropAppend
  <2>5. Drop(Append(Drop(r, S), c), R)
          = IF c \in R THEN Drop(Drop(r, S), R) ELSE Append(Drop(Drop(r, S), R), c)
    BY <2>1, DropAppend
  <2>6. QED
    BY <1>2, <2>2, <2>3, <2>4, <2>5
<1> HIDE DEF P
<1>3. Seq(T) \subseteq P
  BY <1>1, <1>2, DropLoop!Appending
<1>4. QED
  BY <1>3 DEF P

-----------------------------------------------------------------------------
(* Trimming. *)

LEMMA LargestPlace ==
  ASSUME NEW n \in Nat, NEW t \in SUBSET (0..n), t # {}
  PROVE  Max(t) \in t /\ \A x \in t : x <= Max(t)
<1>1. CASE t \ {0} = {}
  <2>1. t = {0}
    BY <1>1
  <2>2. QED
    BY <2>1 DEF Max
<1>2. CASE t \ {0} # {}
  <2> DEFINE u == t \ {0}
  <2>1. u \in SUBSET (1..n)
    OBVIOUS
  <2> HIDE DEF u
  <2>2. PICK x \in u : \A y \in u : y <= x
    BY <1>2, <2>1, DropLoop!Largest DEF u
  <2>3. x \in 1..n
    BY <2>1
  <2>4. x \in t /\ \A y \in t : x >= y
    BY <2>2, <2>3 DEF u
  <2>5. QED
    BY <2>4 DEF Max
<1>3. QED
  BY <1>1, <1>2

LEMMA SmallestPlace ==
  ASSUME NEW t \in SUBSET Nat, t # {}
  PROVE  Min(t) \in t /\ \A x \in t : Min(t) <= x
BY DropLoop!Smallest DEF Min, DropLoop!Min

\* What is before place m is trimmed off, and what stands there is not in S.
LEMMA TrimStartPlace ==
  ASSUME NEW T, NEW S, NEW t \in Seq(T)
  PROVE  \E m \in 1 .. Len(t) + 1 :
            /\ TrimStart(t, S) = SubSeq(t, m, Len(t))
            /\ \A i \in 1 .. m - 1 : t[i] \in S
            /\ m <= Len(t) => t[m] \notin S
<1> DEFINE kept == {i \in DOMAIN t : t[i] \notin S} \union {Len(t) + 1}
           m == Min(kept)
<1>1. Len(t) \in Nat /\ DOMAIN t = 1 .. Len(t)
  OBVIOUS
<1>2. kept \in SUBSET Nat /\ kept # {} /\ \A x \in kept : x \in 1 .. Len(t) + 1
  BY <1>1
<1>3. m \in kept /\ \A x \in kept : m <= x
  <2> HIDE DEF kept
  <2>1. QED
    BY <1>2, SmallestPlace
<1>4. TrimStart(t, S) = SubSeq(t, m, Len(t))
  BY DEF TrimStart
<1> HIDE DEF m
<1>5. m \in 1 .. Len(t) + 1
  BY <1>2, <1>3
<1>6. \A i \in 1 .. m - 1 : t[i] \in S
  BY <1>1, <1>3, <1>5
<1>7. m <= Len(t) => t[m] \notin S
  BY <1>1, <1>3, <1>5
<1>8. QED
  BY <1>4, <1>5, <1>6, <1>7

LEMMA TrimEndPlace ==
  ASSUME NEW T, NEW S, NEW t \in Seq(T)
  PROVE  \E n \in 0 .. Len(t) :
            /\ TrimEnd(t, S) = SubSeq(t, 1, n)
            /\ \A i \in n + 1 .. Len(t) : t[i] \in S
            /\ n > 0 => t[n] \notin S
<1> DEFINE kept == {i \in DOMAIN t : t[i] \notin S} \union {0}
           n == Max(kept)
<1>1. Len(t) \in Nat /\ DOMAIN t = 1 .. Len(t)
  OBVIOUS
<1>2. kept \in SUBSET (0 .. Len(t)) /\ kept # {}
  BY <1>1
<1>3. n \in kept /\ \A x \in kept : x <= n
  <2> HIDE DEF kept
  <2>1. QED
    BY <1>1, <1>2, LargestPlace
<1>4. TrimEnd(t, S) = SubSeq(t, 1, n)
  BY DEF TrimEnd
<1> HIDE DEF n
<1>5. n \in 0 .. Len(t)
  BY <1>2, <1>3
<1>6. \A i \in n + 1 .. Len(t) : t[i] \in S
  BY <1>1, <1>3, <1>5
<1>7. n > 0 => t[n] \notin S
  BY <1>1, <1>3, <1>5
<1>8. QED
  BY <1>4, <1>5, <1>6, <1>7

\* A part of a text that is all in U.
LEMMA PartIn ==
  ASSUME NEW T, NEW U, NEW t \in Seq(T), NEW i \in Nat \ {0}, NEW j \in Nat, j <= Len(t),
         i <= j + 1, \A k \in i..j : t[k] \in U
  PROVE  SubSeq(t, i, j) \in Seq(U)
<1> DEFINE n == j + 1 - i
           part == SubSeq(t, i, j)
<1>1. n \in Nat /\ part = [k \in 1..n |-> t[i + k - 1]]
  OBVIOUS
<1> HIDE DEF part
<1>2. \A k \in 1..n : i + k - 1 \in i..j
  BY <1>1
<1> HIDE DEF n
<1>3. \A k \in 1..n : t[i + k - 1] \in U
  BY <1>2
<1>4. QED
  BY <1>1, <1>3 DEF part

\* Trimming takes away members of S only, at the one end or the other.
LEMMA DropTrimStart ==
  ASSUME NEW T, NEW t \in Seq(T), NEW S, NEW R, S \subseteq R
  PROVE  TrimStart(t, S) \in Seq(T) /\ Drop(TrimStart(t, S), R) = Drop(t, R)
<1>1. Len(t) \in Nat /\ SubSeq(t, 1, Len(t)) = t
  BY SubSeqFull
<1>2. \A r \in Seq(T) : Drop(r, R) \in Seq(T)
  <2>1. \A r \in Seq(T) : Drop(r, R) \in Seq(T \ R)
    BY DropType
  <2>2. QED
    BY <2>1
<1>3. PICK m \in 1 .. Len(t) + 1 :
          /\ TrimStart(t, S) = SubSeq(t, m, Len(t))
          /\ \A i \in 1 .. m - 1 : t[i] \in S
  BY TrimStartPlace
<1> DEFINE off == SubSeq(t, 1, m - 1)
           rest == SubSeq(t, m, Len(t))
<1>4. off \in Seq(T) /\ rest \in Seq(T) /\ off \in Seq(R)
  <2>1. \A i \in 1 .. m - 1 : t[i] \in R
    BY <1>3
  <2>2. off \in Seq(R)
    BY <1>1, <2>1, PartIn
  <2>3. \A i \in 1 .. Len(t) : t[i] \in T
    OBVIOUS
  <2>4. off \in Seq(T)
    BY <1>1, <2>3, PartIn
  <2>5. rest \in Seq(T)
    BY <1>1, <2>3, PartIn
  <2>6. QED
    BY <2>2, <2>4, <2>5
<1>5. off \o rest = t
  <2>1. SubSeq(t, 1, m - 1) \o SubSeq(t, (m - 1) + 1, Len(t)) = SubSeq(t, 1, Len(t))
    <3>1. 1 \in 1 .. Len(t) + 1 /\ m - 1 \in 1 - 1 .. Len(t) /\ Len(t) \in m - 1 .. Len(t)
      BY <1>1
    <3>2. QED
      BY <3>1, ConcatAdjacentSubSeq
  <2>2. (m - 1) + 1 = m
    OBVIOUS
  <2>3. QED
    BY <1>1, <2>1, <2>2
<1> HIDE DEF off, rest
<1>6. Drop(t, R) = Drop(off, R) \o Drop(rest, R)
  BY <1>4, <1>5, DropConcat
<1>7. Drop(off, R) = <<>>
  BY <1>4, DropAll
<1>8. <<>> \o Drop(rest, R) = Drop(rest, R)
  BY <1>2, <1>4, ConcatEmptySeq
<1>9. QED
  BY <1>3, <1>4, <1>6, <1>7, <1>8 DEF rest

LEMMA DropTrimEnd ==
  ASSUME NEW T, NEW t \in Seq(T), NEW S, NEW R, S \subseteq R
  PROVE  TrimEnd(t, S) \in Seq(T) /\ Drop(TrimEnd(t, S), R) = Drop(t, R)
<1>1. Len(t) \in Nat /\ SubSeq(t, 1, Len(t)) = t
  BY SubSeqFull
<1>2. \A r \in Seq(T) : Drop(r, R) \in Seq(T)
  <2>1. \A r \in Seq(T) : Drop(r, R) \in Seq(T \ R)
    BY DropType
  <2>2. QED
    BY <2>1
<1>3. PICK n \in 0 .. Len(t) :
          /\ TrimEnd(t, S) = SubSeq(t, 1, n)
          /\ \A i \in n + 1 .. Len(t) : t[i] \in S
  BY TrimEndPlace
<1> DEFINE begin == SubSeq(t, 1, n)
           off == SubSeq(t, n + 1, Len(t))
<1>4. begin \in Seq(T) /\ off \in Seq(T) /\ off \in Seq(R)
  <2>1. \A i \in n + 1 .. Len(t) : t[i] \in R
    BY <1>3
  <2>2. off \in Seq(R)
    BY <1>1, <2>1, PartIn
  <2>3. \A i \in 1 .. Len(t) : t[i] \in T
    OBVIOUS
  <2>4. begin \in Seq(T)
    BY <1>1, <2>3, PartIn
  <2>5. off \in Seq(T)
    BY <1>1, <2>3, PartIn
  <2>6. QED
    BY <2>2, <2>4, <2>5
<1>5. begin \o off = t
  <2>1. 1 \in 1 .. Len(t) + 1 /\ n \in 1 - 1 .. Len(t) /\ Len(t) \in n .. Len(t)
    BY <1>1
  <2>2. QED
    BY <1>1, <2>1, ConcatAdjacentSubSeq
<1> HIDE DEF begin, off
<1>6. Drop(t, R) = Drop(begin, R) \o Drop(off, R)
  BY <1>4, <1>5, DropConcat
<1>7. Drop(off, R) = <<>>
  BY <1>4, DropAll
<1>8. Drop(begin, R) \o <<>> = Drop(begin, R)
  BY <1>2, <1>4, ConcatEmptySeq
<1>9. QED
  BY <1>3, <1>4, <1>6, <1>7, <1>8 DEF begin

-----------------------------------------------------------------------------
(* What Trim_Decrypted_Text leaves. *)

RemoveLoop == INSTANCE FoldProofs WITH Op <- RemoveInside

\* A turn of its loop: the first character stays, and is the only one that can
\* be ch.
LEMMA OneRemoved ==
  ASSUME NEW T, NEW t \in Seq(T), NEW ch
  PROVE  /\ RemoveInside(t, ch) \in Seq(T)
         /\ t = <<>> => RemoveInside(t, ch) = <<>>
         /\ t # <<>> => RemoveInside(t, ch) # <<>> /\ RemoveInside(t, ch)[1] = t[1]
         /\ ToSet(RemoveInside(t, ch)) \subseteq ToSet(t)
         /\ \A i \in DOMAIN RemoveInside(t, ch) :
               RemoveInside(t, ch)[i] = ch => RemoveInside(t, ch)[1] = ch
         /\ \A R : ch \in R => Drop(RemoveInside(t, ch), R) = Drop(t, R)
<1>1. CASE t # <<>> /\ t[1] = ch
  BY <1>1 DEF RemoveInside
<1>2. CASE ~(t # <<>> /\ t[1] = ch)
  <2> DEFINE r == RemoveInside(t, ch)
  <2>1. r = Drop(t, {ch})
    BY <1>2 DEF RemoveInside
  <2>2. t \in Seq(ToSet(t)) /\ ToSet(t) \subseteq T
    BY DEF ToSet
  <2>3. r \in Seq(ToSet(t) \ {ch})
    BY <2>1, <2>2, DropType
  <2>4. t = <<>> => r = <<>>
    BY <2>1, DropEmpty
  <2>5. t # <<>> => r # <<>> /\ r[1] = t[1]
    BY <1>2, <2>1, DropFirst
  <2>6. \A R : ch \in R => Drop(r, R) = Drop(t, R)
    BY <2>1, DropMore
  <2> HIDE DEF r
  <2>7. r \in Seq(T) /\ ToSet(r) \subseteq ToSet(t) /\ \A i \in DOMAIN r : r[i] # ch
    BY <2>2, <2>3 DEF ToSet
  <2>8. QED
    BY <2>4, <2>5, <2>6, <2>7 DEF r
<1>3. QED
  BY <1>1, <1>2

\* The loop, for any characters: start is what it began with and left what it
\* left after those of s.
Removed(start, s, left) ==
    /\ left \in Seq(ToSet(start))
    /\ left # <<>> => start # <<>> /\ left[1] = start[1]
    /\ \A i \in DOMAIN left : left[i] \in ToSet(s) => left[1] = left[i]
    /\ \A R : ToSet(s) \subseteq R => Drop(left, R) = Drop(start, R)

LEMMA AllRemoved ==
  ASSUME NEW T, NEW start \in Seq(T), NEW C, NEW s \in Seq(C)
  PROVE  Removed(start, s, FoldLeft(RemoveInside, start, s))
<1> DEFINE P == {r \in Seq(C) : Removed(start, r, RemoveLoop!Fold(start, r))}
<1>1. <<>> \in P
  <2>1. RemoveLoop!Fold(start, <<>>) = start
    BY RemoveLoop!FoldEmpty
  <2>2. start \in Seq(ToSet(start)) /\ ToSet(<<>>) = {}
    BY DEF ToSet
  <2>3. QED
    BY <2>1, <2>2 DEF Removed
<1>2. ASSUME NEW r \in Seq(C), NEW c \in C, r \in P
      PROVE  Append(r, c) \in P
  <2> DEFINE left == RemoveLoop!Fold(start, r)
             new == RemoveInside(left, c)
  <2>1. RemoveLoop!Fold(start, Append(r, c)) = new
    BY RemoveLoop!FoldAppend
  <2>2. Removed(start, r, left)
    BY <1>2
  <2>3. Append(r, c) \in Seq(C) /\ ToSet(Append(r, c)) = ToSet(r) \union {c}
    <3> DEFINE longer == Append(r, c)
               n == Len(r)
    <3>1. /\ longer \in Seq(C) /\ DOMAIN longer = 1 .. n + 1 /\ DOMAIN r = 1..n /\ n \in Nat
          /\ \A i \in 1..n : longer[i] = r[i]
          /\ longer[n + 1] = c
      OBVIOUS
    <3> HIDE DEF longer, n
    <3>2. \A i \in 1 .. n + 1 : i \in 1..n \/ i = n + 1
      BY <3>1
    <3>3. n + 1 \in 1 .. n + 1 /\ \A i \in 1..n : i \in 1 .. n + 1
      BY <3>1
    <3>4. ToSet(longer) = ToSet(r) \union {c}
      BY <3>1, <3>2, <3>3 DEF ToSet
    <3>5. QED
      BY <3>1, <3>4 DEF longer
  <2> HIDE DEF left
  <2>4. left \in Seq(ToSet(start))
    BY <2>2 DEF Removed
  <2>5. /\ new \in Seq(ToSet(start))
        /\ left = <<>> => new = <<>>
        /\ left # <<>> => new # <<>> /\ new[1] = left[1]
        /\ ToSet(new) \subseteq ToSet(left)
        /\ \A i \in DOMAIN new : new[i] = c => new[1] = c
        /\ \A R : c \in R => Drop(new, R) = Drop(left, R)
    BY <2>4, OneRemoved
  <2> HIDE DEF new
  <2>6. ASSUME NEW i \in DOMAIN new, new[i] \in ToSet(r) \union {c}
        PROVE  new[1] = new[i]
    <3>1. CASE new[i] = c
      BY <2>5, <3>1
    <3>2. CASE new[i] # c
      <4>1. left # <<>> /\ new[1] = left[1]
        BY <2>5
      <4>2. PICK k \in DOMAIN left : left[k] = new[i]
        BY <2>5 DEF ToSet
      <4>3. QED
        BY <2>2, <2>6, <3>2, <4>1, <4>2 DEF Removed
    <3>3. QED
      BY <3>1, <3>2
  <2>7. Removed(start, Append(r, c), new)
    BY <2>2, <2>3, <2>5, <2>6 DEF Removed
  <2>8. QED
    BY <2>1, <2>3, <2>7
<1> HIDE DEF P
<1>3. Seq(C) \subseteq P
  BY <1>1, <1>2, RemoveLoop!Appending
<1>4. FoldLeft(RemoveInside, start, s) = RemoveLoop!Fold(start, s)
  BY DEF RemoveLoop!Fold, FoldLeft, RemoveLoop!FoldLeft, MapThenFoldSet,
         RemoveLoop!MapThenFoldSet, Max, RemoveLoop!Max
<1>5. QED
  BY <1>3, <1>4 DEF P

LEMMA CharList == charList \in Seq(Nat \ {0}) /\ 0 \notin SpecialControls
<1>1. \A i \in 1..26 : (IF i < 9 THEN i ELSE i + 5) \in Nat \ {0}
  OBVIOUS
<1>2. charList \in Seq(Nat \ {0})
  BY <1>1 DEF charList
<1>3. ASSUME NEW i \in DOMAIN charList PROVE charList[i] # 0
  BY <1>2
<1>4. QED
  BY <1>2, <1>3 DEF SpecialControls, ToSet

LEMMA ControlsGone ==
  ASSUME NEW T, NEW t \in Seq(T)
  PROVE  LET left == Trim_Decrypted_Text(t)
         IN  /\ \A i \in DOMAIN left :
                   /\ left[i] # 0
                   /\ left[i] \in SpecialControls =>
                         left[1] = left[i] /\ TrimStart(t, SpecialControls)[1] = 0
             /\ Drop(left, SpecialControls \union {0}) = Drop(t, SpecialControls \union {0})
<1> DEFINE S == SpecialControls
           R == S \union {0}
           begin == TrimEnd(t, S)
           trimmed == TrimStart(begin, S)
           start == Drop(trimmed, {0})
           left == Trim_Decrypted_Text(t)
<1>0. S \subseteq R
  OBVIOUS
<1>1. begin \in Seq(T) /\ Drop(begin, R) = Drop(t, R)
  <2> HIDE DEF R, S
  <2>1. t \in Seq(T)
    OBVIOUS
  <2>2. QED
    BY <1>0, <2>1, DropTrimEnd
<1>2. trimmed \in Seq(T) /\ Drop(trimmed, R) = Drop(begin, R)
  <2> HIDE DEF begin, R, S
  <2>1. QED
    BY <1>0, <1>1, DropTrimStart
<1>3. start \in Seq(T \ {0})
  <2> HIDE DEF trimmed
  <2>1. QED
    BY <1>2, DropType
<1>4. Drop(start, R) = Drop(trimmed, R)
  <2> HIDE DEF trimmed
  <2>1. {0} \subseteq R
    OBVIOUS
  <2>2. QED
    BY <1>2, <2>1, DropMore
<1>5. left = FoldLeft(RemoveInside, start, charList)
  BY DEF Trim_Decrypted_Text
<1>6. Removed(start, charList, left)
  <2> HIDE DEF start, left
  <2>1. QED
    BY <1>3, <1>5, CharList, AllRemoved
<1>7. Drop(left, R) = Drop(t, R)
  <2>1. ToSet(charList) \subseteq R
    BY DEF SpecialControls
  <2> HIDE DEF left, start, trimmed, begin
  <2>2. Drop(left, R) = Drop(start, R)
    BY <1>6, <2>1 DEF Removed
  <2>3. QED
    BY <1>1, <1>2, <1>4, <2>2
<1>8. \A i \in DOMAIN left : left[i] # 0
  <2> HIDE DEF left, start
  <2>1. left \in Seq(ToSet(start)) /\ ToSet(start) \subseteq T \ {0}
    BY <1>3, <1>6 DEF Removed, ToSet
  <2>2. QED
    BY <2>1
<1>9. ASSUME NEW i \in DOMAIN left, left[i] \in S
      PROVE  left[1] = left[i] /\ TrimStart(t, S)[1] = 0
  <2>1. left[1] = left[i] /\ start # <<>> /\ start[1] \in S
    <3> HIDE DEF left, start
    <3>1. left \in Seq(ToSet(start))
      BY <1>6 DEF Removed
    <3>2. left # <<>>
      BY <3>1
    <3>3. QED
      BY <1>6, <1>9, <3>2 DEF Removed, SpecialControls
  <2>2. trimmed # <<>>
    <3> HIDE DEF trimmed
    <3>1. trimmed = <<>> => start = <<>>
      BY DropEmpty
    <3>2. QED
      BY <2>1, <3>1
  <2>3. PICK n \in 0 .. Len(t) :
            /\ begin = SubSeq(t, 1, n)
            /\ \A k \in n + 1 .. Len(t) : t[k] \in S
            /\ n > 0 => t[n] \notin S
    BY TrimEndPlace
  <2>4. PICK m \in 1 .. Len(begin) + 1 :
            /\ trimmed = SubSeq(begin, m, Len(begin))
            /\ \A k \in 1 .. m - 1 : begin[k] \in S
            /\ m <= Len(begin) => begin[m] \notin S
    <3> HIDE DEF begin
    <3>1. QED
      BY <1>1, TrimStartPlace
  <2>5. PICK l \in 1 .. Len(t) + 1 :
            /\ TrimStart(t, S) = SubSeq(t, l, Len(t))
            /\ \A k \in 1 .. l - 1 : t[k] \in S
            /\ l <= Len(t) => t[l] \notin S
    BY TrimStartPlace
  <2> HIDE DEF left, start, trimmed, begin, S
  <2>6. Len(begin) = n /\ (\A k \in 1..n : begin[k] = t[k]) /\ n \in Nat /\ Len(t) \in Nat
    BY <2>3
  <2>7. m <= n
    BY <2>2, <2>4, <2>6
  <2>8. begin[m] = t[m] /\ t[m] \notin S /\ \A k \in 1 .. m - 1 : t[k] \in S
    BY <2>4, <2>6, <2>7
  <2>9. l = m /\ l <= Len(t)
    BY <2>5, <2>6, <2>7, <2>8
  <2>10. trimmed[1] = t[m]
    BY <1>1, <2>4, <2>6, <2>7, <2>8
  <2>11. TrimStart(t, S)[1] = t[m]
    BY <2>5, <2>9
  <2>12. trimmed[1] = 0
    <3>1. trimmed[1] # 0 => start[1] = trimmed[1]
      BY <1>2, <2>2, DropFirst DEF start
    <3>2. QED
      BY <2>1, <2>8, <2>10, <3>1
  <2>13. QED
    BY <2>1, <2>10, <2>11, <2>12
<1>10. QED
  BY <1>7, <1>8, <1>9

-----------------------------------------------------------------------------
(* The inputs. *)

InputInv ==
    /\ kind \in {"bytes", "text", "control"}
    /\ kind = "bytes" => input \in Seq(Bytes)
    /\ kind = "text" => input \in Seq(Texts)
    /\ kind = "control" => input \in Seq(Controls)

\* Type correctness: an input stays of its kind as it grows.
LEMMA InputsTyped == InputSpec => []InputInv
<1>1. InitInput => InputInv
  BY DEF InitInput, InputInv
<1>2. InputInv /\ [Extend]_inputVars => InputInv'
  <2> SUFFICES ASSUME InputInv, [Extend]_inputVars PROVE InputInv'
    OBVIOUS
  <2>1. CASE Extend
    BY <2>1 DEF Extend, InputInv
  <2>2. CASE UNCHANGED inputVars
    BY <2>2 DEF inputVars, InputInv
  <2>3. QED
    BY <2>1, <2>2
<1>3. QED
  BY <1>1, <1>2, PTL DEF InputSpec

\* Trim_Decrypted_Text leaves no null, no special control behind a first character
\* that is none, and takes nothing else away: ControlsRemoved, for every text.
THEOREM ControlsRemovedAlways == InputSpec => []ControlsRemoved
<1>1. InputInv => ControlsRemoved
  BY ControlsGone DEF InputInv, ControlsRemoved
<1>2. QED
  BY <1>1, InputsTyped, PTL

-----------------------------------------------------------------------------
(* The search for bytes. *)

ScanLoop == INSTANCE FoldProofs WITH Op <- ScanTurn

\* How far behind a place BytesBytes compares, and what it compares there.
Compared(needle, matchBytes) ==
    IF matchBytes \in 1 .. Len(needle) - 1 THEN matchBytes ELSE Len(needle) - 1
MatchesAt(hayStack, needle, last, p) == \A k \in 0..last : hayStack[p + k + 1] = needle[k + 1]

\* The loop before place i: found is the first match so far, if there is one.
ScanState(hayStack, needle, matchBytes, found) ==
    [hayStack |-> hayStack, needle |-> needle, matchBytes |-> matchBytes,
     needleIt |-> 0, found |-> found]
FirstMatch(hayStack, needle, last, i, found) ==
    \/ found = -1 /\ \A p \in 0 .. i - 1 : ~MatchesAt(hayStack, needle, last, p)
    \/ /\ found \in 0 .. i - 1 /\ MatchesAt(hayStack, needle, last, found)
       /\ \A p \in 0 .. found - 1 : ~MatchesAt(hayStack, needle, last, p)

LEMMA CompareOne ==
  ASSUME NEW hayStack, NEW T, NEW needle \in Seq(T), needle # <<>>, NEW matchBytes \in Int,
         NEW i \in Nat, NEW f,
         FirstMatch(hayStack, needle, Compared(needle, matchBytes), i, f)
  PROVE  \E g : /\ ScanTurn(ScanState(hayStack, needle, matchBytes, f), i)
                     = ScanState(hayStack, needle, matchBytes, g)
                /\ FirstMatch(hayStack, needle, Compared(needle, matchBytes), i + 1, g)
<1> DEFINE last == Compared(needle, matchBytes)
           differ == {k \in 1..last : hayStack[i + k + 1] # needle[k + 1]}
           M(p) == MatchesAt(hayStack, needle, last, p)
           m == ScanState(hayStack, needle, matchBytes, f)
<1>0. FirstMatch(hayStack, needle, last, i, f)
  OBVIOUS
<1>1. last \in Nat
  BY DEF Compared
<1>2. /\ m.found = f /\ m.hayStack = hayStack /\ m.needle = needle /\ m.needleIt = 0
      /\ m.matchBytes = matchBytes
  BY DEF ScanState
<1>3. ScanTurn(m, i) =
        IF f >= 0 \/ hayStack[i + 1] # needle[0 + 1] THEN m
        ELSE IF differ = {} THEN [m EXCEPT !.found = i]
        ELSE [m EXCEPT !.needleIt = 0]
  BY <1>2 DEF ScanTurn, Compared, Advance
<1>4. M(i) <=> hayStack[i + 1] = needle[0 + 1] /\ differ = {}
  <2>1. hayStack[i + 0 + 1] = hayStack[i + 1]
    BY Z3
  <2>2. \A k \in 0..last : k = 0 \/ k \in 1..last
    BY <1>1
  <2>3. 0 \in 0..last /\ \A k \in 1..last : k \in 0..last
    BY <1>1
  <2> HIDE DEF last
  <2>4. QED
    BY <2>1, <2>2, <2>3 DEF MatchesAt
<1>5. f = -1 \/ f \in 0 .. i - 1
  BY DEF FirstMatch
<1>6. CASE f >= 0
  <2>1. ScanTurn(m, i) = m
    BY <1>3, <1>6
  <2>2. FirstMatch(hayStack, needle, last, i + 1, f)
    BY <1>6 DEF FirstMatch
  <2>3. QED
    BY <2>1, <2>2
<1>7. CASE f < 0 /\ ~M(i)
  <2>1. ScanTurn(m, i) = m
    BY <1>3, <1>4, <1>7 DEF ScanState
  <2>2. FirstMatch(hayStack, needle, last, i + 1, f)
    <3> HIDE DEF last
    <3>1. f = -1 /\ (\A p \in 0 .. i - 1 : ~M(p)) /\ ~M(i)
      BY <1>0, <1>7 DEF FirstMatch
    <3>2. \A p \in 0 .. (i + 1) - 1 : p \in 0 .. i - 1 \/ p = i
      OBVIOUS
    <3>3. QED
      BY <3>1, <3>2 DEF FirstMatch
  <2>3. QED
    BY <2>1, <2>2
<1>8. CASE f < 0 /\ M(i)
  <2>1. ScanTurn(m, i) = ScanState(hayStack, needle, matchBytes, i)
    <3>1. ~(f >= 0 \/ hayStack[i + 1] # needle[0 + 1]) /\ differ = {}
      BY <1>4, <1>5, <1>8
    <3> HIDE DEF differ
    <3>2. ScanTurn(m, i) = [m EXCEPT !.found = i]
      BY <1>3, <3>1
    <3>3. QED
      BY <3>2 DEF ScanState
  <2>2. FirstMatch(hayStack, needle, last, i + 1, i)
    <3> HIDE DEF last
    <3>1. (\A p \in 0 .. i - 1 : ~M(p)) /\ M(i) /\ i \in 0 .. (i + 1) - 1
      BY <1>0, <1>8 DEF FirstMatch
    <3>2. QED
      BY <3>1 DEF FirstMatch
  <2>3. QED
    BY <2>1, <2>2
<1>9. QED
  BY <1>5, <1>6, <1>7, <1>8

LEMMA PrefixMatches ==
  ASSUME NEW T, NEW hayStack \in Seq(T), NEW needle \in Seq(T), needle # <<>>,
         NEW last \in 0 .. Len(needle) - 1, NEW p \in 0 .. Len(hayStack) - Len(needle)
  PROVE  IsPrefix(SubSeq(needle, 1, last + 1), SubSeq(hayStack, p + 1, Len(hayStack)))
           <=> MatchesAt(hayStack, needle, last, p)
<1> DEFINE start == SubSeq(needle, 1, last + 1)
           rest == SubSeq(hayStack, p + 1, Len(hayStack))
           begin == SubSeq(rest, 1, last + 1)
<1>1. Len(needle) \in Nat /\ Len(hayStack) \in Nat /\ last + 1 <= Len(needle)
      /\ Len(needle) + p <= Len(hayStack)
  OBVIOUS
<1>2. start \in Seq(T) /\ Len(start) = last + 1 /\ \A k \in 1 .. last + 1 : start[k] = needle[k]
  BY <1>1
<1>3. /\ rest \in Seq(T) /\ Len(rest) = Len(hayStack) - p
      /\ \A k \in 1 .. Len(hayStack) - p : rest[k] = hayStack[p + k]
  BY <1>1
<1>4. last + 1 <= Len(rest)
  BY <1>1, <1>3
<1> HIDE DEF start, rest
<1>5. /\ begin \in Seq(T) /\ Len(begin) = last + 1
      /\ \A k \in 1 .. last + 1 : begin[k] = rest[k]
  BY <1>3, <1>4
<1>6. \A k \in 1 .. last + 1 : k \in 1 .. Len(hayStack) - p
  BY <1>3, <1>4
<1>7. \A k \in 1 .. last + 1 : begin[k] = hayStack[p + k]
  BY <1>3, <1>5, <1>6
<1> HIDE DEF begin
<1>8. start = begin <=> \A k \in 1 .. last + 1 : start[k] = begin[k]
  BY <1>2, <1>5, SeqEqual
<1>9. (\A k \in 1 .. last + 1 : start[k] = begin[k])
        <=> \A k \in 1 .. last + 1 : hayStack[p + k] = needle[k]
  BY <1>2, <1>7
<1>10. (\A k \in 1 .. last + 1 : hayStack[p + k] = needle[k])
         <=> \A k \in 0..last : hayStack[p + k + 1] = needle[k + 1]
  <2>1. ASSUME \A k \in 1 .. last + 1 : hayStack[p + k] = needle[k], NEW k \in 0..last
        PROVE  hayStack[p + k + 1] = needle[k + 1]
    <3>1. k + 1 \in 1 .. last + 1 /\ p + (k + 1) = p + k + 1
      OBVIOUS
    <3>2. QED
      BY <2>1, <3>1
  <2>2. ASSUME \A k \in 0..last : hayStack[p + k + 1] = needle[k + 1], NEW k \in 1 .. last + 1
        PROVE  hayStack[p + k] = needle[k]
    <3>1. k - 1 \in 0..last /\ p + (k - 1) + 1 = p + k /\ (k - 1) + 1 = k
      OBVIOUS
    <3>2. QED
      BY <2>2, <3>1
  <2>3. QED
    BY <2>1, <2>2
<1>11. SubSeq(start, 1, Len(start)) = start
  BY <1>2, SubSeqFull
<1>12. IsPrefix(start, rest) <=> start = begin
  BY <1>2, <1>4, <1>11 DEF IsPrefix, begin
<1>13. QED
  BY <1>8, <1>9, <1>10, <1>12 DEF MatchesAt, start, rest

\* The places FindsBytes speaks of.
Places(hayStack, needle, matchBytes) ==
    LET start == SubSeq(needle, 1, IF matchBytes > 0 /\ matchBytes < Len(needle)
                                   THEN matchBytes + 1 ELSE Len(needle))
    IN  {p \in 0 .. Len(hayStack) - Len(needle) - 1 :
            IsPrefix(start, SubSeq(hayStack, p + 1, Len(hayStack)))}

LEMMA FirstPlaceFound ==
  ASSUME NEW T, NEW hayStack \in Seq(T), NEW needle \in Seq(T), needle # <<>>,
         NEW matchBytes \in Int
  PROVE  BytesBytes(hayStack, needle, matchBytes)
           = Min(IF Places(hayStack, needle, matchBytes) = {} THEN {-1}
                 ELSE Places(hayStack, needle, matchBytes))
<1> DEFINE n == Len(hayStack) - Len(needle)
           last == Compared(needle, matchBytes)
           M(p) == MatchesAt(hayStack, needle, last, p)
           start == SubSeq(needle, 1, IF matchBytes > 0 /\ matchBytes < Len(needle)
                                      THEN matchBytes + 1 ELSE Len(needle))
           places == {p \in 0 .. n - 1 : IsPrefix(start, SubSeq(hayStack, p + 1, Len(hayStack)))}
           matching == {p \in 0 .. n - 1 : M(p)}
<1>1. /\ Len(needle) \in Nat /\ Len(needle) >= 1 /\ Len(hayStack) \in Nat /\ n \in Int
      /\ last \in 0 .. Len(needle) - 1
  BY DEF Compared
<1>2. start = SubSeq(needle, 1, last + 1)
  <2>1. (IF matchBytes > 0 /\ matchBytes < Len(needle) THEN matchBytes + 1 ELSE Len(needle))
          = last + 1
    BY <1>1 DEF Compared
  <2>2. QED
    BY <2>1
<1>0. Places(hayStack, needle, matchBytes) = places
  BY DEF Places
<1> HIDE DEF last, start
<1>3. places = matching
  <2>1. ASSUME NEW p \in 0 .. n - 1
        PROVE  IsPrefix(start, SubSeq(hayStack, p + 1, Len(hayStack))) <=> M(p)
    <3>1. p \in 0 .. Len(hayStack) - Len(needle)
      BY <1>1
    <3>2. QED
      BY <1>1, <1>2, <3>1, PrefixMatches
  <2>2. QED
    BY <2>1
<1>4. CASE n < 0
  <2>1. BytesBytes(hayStack, needle, matchBytes) = -1
    BY <1>1, <1>4 DEF BytesBytes
  <2>2. places = {}
    BY <1>1, <1>4
  <2>3. Min({-1}) = -1
    BY DEF Min
  <2> HIDE DEF places
  <2>4. QED
    BY <1>0, <2>1, <2>2, <2>3
<1>5. CASE n >= 0
  <2> DEFINE s == [i \in 1..n |-> i - 1]
             first == ScanState(hayStack, needle, matchBytes, -1)
             I == [i \in 0..n |-> {ScanState(hayStack, needle, matchBytes, f) :
                                     f \in {g \in -1..n : FirstMatch(hayStack, needle, last, i, g)}}]
  <2>1. s \in Seq(Nat) /\ Len(s) = n /\ \A i \in 1..n : s[i] = i - 1
    BY <1>1, <1>5
  <2>2. first \in I[0]
    <3>1. FirstMatch(hayStack, needle, last, 0, -1)
      BY DEF FirstMatch
    <3>2. 0 \in 0..n /\ -1 \in -1..n
      BY <1>1, <1>5
    <3>3. QED
      BY <3>1, <3>2
  <2>3. ASSUME NEW i \in 0 .. n - 1, NEW x \in I[i]
        PROVE  ScanTurn(x, i) \in I[i + 1]
    <3>1. i \in 0..n /\ i + 1 \in 0..n /\ i \in Nat
      BY <1>1
    <3>2. PICK f : x = ScanState(hayStack, needle, matchBytes, f)
                   /\ FirstMatch(hayStack, needle, last, i, f)
      BY <3>1
    <3>3. PICK g : /\ ScanTurn(x, i) = ScanState(hayStack, needle, matchBytes, g)
                   /\ FirstMatch(hayStack, needle, last, i + 1, g)
      BY <1>1, <3>1, <3>2, CompareOne DEF last
    <3>4. g \in -1..n
      BY <1>1, <3>1, <3>3 DEF FirstMatch
    <3>5. QED
      BY <3>1, <3>3, <3>4
  <2>4. ScanLoop!Fold(first, s) \in I[n]
    <3> HIDE DEF I, s, first
    <3>1. \A i \in 0 .. Len(s) - 1 : \A x \in I[i] : ScanTurn(x, s[i + 1]) \in I[i + 1]
      <4> TAKE i \in 0 .. Len(s) - 1
      <4> TAKE x \in I[i]
      <4>1. i \in 0 .. n - 1 /\ s[i + 1] = i
        BY <1>1, <2>1
      <4>2. QED
        BY <2>3, <4>1
    <3>2. QED
      BY <2>1, <2>2, <3>1, ScanLoop!FoldSteps
  <2>5. BytesBytes(hayStack, needle, matchBytes) = ScanLoop!Fold(first, s).found
    <3>1. ScanLoop!Fold(first, s) = FoldLeft(ScanTurn, first, s)
      BY DEF ScanLoop!Fold, FoldLeft, ScanLoop!FoldLeft, MapThenFoldSet,
             ScanLoop!MapThenFoldSet, Max, ScanLoop!Max
    <3>2. ~(needle = <<>> \/ Len(needle) > Len(hayStack))
      BY <1>1, <1>5
    <3>3. QED
      BY <3>1, <3>2 DEF BytesBytes, ScanState
  <2>6. n \in 0..n
    BY <1>1, <1>5
  <2>7. PICK f : ScanLoop!Fold(first, s) = ScanState(hayStack, needle, matchBytes, f)
                 /\ FirstMatch(hayStack, needle, last, n, f)
    <3> HIDE DEF first, s
    <3>1. QED
      BY <2>4, <2>6
  <2>8. BytesBytes(hayStack, needle, matchBytes) = f
    BY <2>5, <2>7 DEF ScanState
  <2>9. f = Min(IF matching = {} THEN {-1} ELSE matching)
    <3>1. CASE matching = {}
      <4>1. f = -1
        BY <1>1, <2>7, <3>1 DEF FirstMatch
      <4>2. Min({-1}) = -1
        BY DEF Min
      <4>3. QED
        BY <3>1, <4>1, <4>2
    <3>2. CASE matching # {}
      <4>1. f \in matching /\ \A p \in matching : f <= p
        BY <1>1, <2>7, <3>2 DEF FirstMatch
      <4>2. matching \in SUBSET Nat
        OBVIOUS
      <4> HIDE DEF matching
      <4>3. Min(matching) \in matching /\ \A p \in matching : Min(matching) <= p
        BY <3>2, <4>2, SmallestPlace
      <4>4. f = Min(matching)
        <5>1. f <= Min(matching) /\ Min(matching) <= f /\ f \in Nat /\ Min(matching) \in Nat
          BY <4>1, <4>2, <4>3
        <5>2. QED
          BY <5>1
      <4>5. QED
        BY <3>2, <4>4
    <3>3. QED
      BY <3>1, <3>2
  <2> HIDE DEF places, matching
  <2>10. QED
    BY <1>0, <1>3, <2>8, <2>9
<1>6. QED
  BY <1>1, <1>4, <1>5

\* BytesBytes, which sets its place in the needle back after a mismatch, misses no
\* occurrence but one at the very end: FindsBytes, for every hayStack.
THEOREM FindsBytesAlways == InputSpec => []FindsBytes
<1>1. ASSUME InputInv, kind = "bytes",
             NEW needle \in BoundedSeq(Bytes, 3) \ {<<>>}, NEW matchBytes \in {-1, 1, 2}
      PROVE  BytesBytes(input, needle, matchBytes)
               = Min(IF Places(input, needle, matchBytes) = {} THEN {-1}
                     ELSE Places(input, needle, matchBytes))
  <2>1. PICK m \in 0..3 : needle \in [1..m -> Bytes]
    BY DEF BoundedSeq, SeqOf
  <2>2. m \in Nat
    BY <2>1
  <2>3. needle \in Seq(Bytes) /\ needle # <<>> /\ matchBytes \in Int
    BY <2>1, <2>2
  <2>4. input \in Seq(Bytes)
    BY <1>1 DEF InputInv
  <2>5. QED
    BY <2>3, <2>4, FirstPlaceFound
<1>2. InputInv => FindsBytes
  BY <1>1 DEF FindsBytes, Places
<1>3. QED
  BY <1>2, InputsTyped, PTL

-----------------------------------------------------------------------------
(* The arithmetic of an int. *)

LEMMA WrapInt == \A x \in Int : Wrap(x) \in Int
<1>1. CASE IntBits = 16
  BY <1>1 DEF Wrap
<1>2. CASE IntBits = 32
  BY <1>2 DEF Wrap
<1>3. QED
  BY <1>1, <1>2, CodecAssumption

-----------------------------------------------------------------------------
(* What the decoders accept. *)

DecodeLoop == INSTANCE FoldProofs WITH Op <- DecodeTurn

\* The state of the loop of FromBase32, whatever the values are.
LEMMA DecodedState ==
  ASSUME NEW values \in Seq(Int)
  PROVE  DecodeLoop!Fold([buffer |-> 0, bitsLeft |-> 0, result |-> <<>>], values)
            \in [buffer : Int, bitsLeft : {n \in Nat : n < 8}, result : Seq({b \in Nat : b < 256})]
<1> DEFINE B == {b \in Nat : b < 256}
           Typ == [buffer : Int, bitsLeft : {n \in Nat : n < 8}, result : Seq(B)]
           start == [buffer |-> 0, bitsLeft |-> 0, result |-> <<>>]
<1>1. start \in Typ
  OBVIOUS
<1>2. ASSUME NEW m \in Typ, NEW value \in Int
      PROVE  DecodeTurn(m, value) \in Typ
  <2> DEFINE bits == m.bitsLeft + _shift
             buffer == ShiftIn(m.buffer, _shift, value % 32)
  <2>1. m.buffer \in Int /\ m.bitsLeft \in Nat /\ m.bitsLeft < 8 /\ m.result \in Seq(B)
    OBVIOUS
  <2>2. bits \in Nat /\ bits < 13
    BY <2>1 DEF _shift
  <2>3. buffer \in Int
    <3>1. m.buffer * 32 \in Int /\ value % 32 \in Int
      BY <2>1
    <3>2. Wrap(m.buffer * 32) \in Int
      BY <3>1, WrapInt
    <3>3. QED
      BY <3>1, <3>2 DEF ShiftIn, _shift
  <2> HIDE DEF bits, buffer, Typ
  <2>4. CASE bits >= 8
    <3> DEFINE d == 2 ^ (bits - 8)
               new == (buffer \div d) % 256
    <3>1. d \in Nat /\ d > 0
      <4>1. bits - 8 = 0 \/ bits - 8 = 1 \/ bits - 8 = 2 \/ bits - 8 = 3 \/ bits - 8 = 4
        BY <2>2, <2>4
      <4> DEFINE k == bits - 8
      <4> HIDE DEF k
      <4>2. k = 0 \/ k = 1 \/ k = 2 \/ k = 3 \/ k = 4
        BY <4>1 DEF k
      <4>3. 2 ^ k \in Nat /\ 2 ^ k > 0
        <5>1. CASE k = 0
          BY <5>1
        <5>2. CASE k = 1
          BY <5>2
        <5>3. CASE k = 2
          BY <5>3
        <5>4. CASE k = 3
          BY <5>4
        <5>5. CASE k = 4
          BY <5>5
        <5>6. QED
          BY <4>2, <5>1, <5>2, <5>3, <5>4, <5>5
      <4>4. QED
        BY <4>3 DEF k
    <3> HIDE DEF d
    <3>2. buffer \div d \in Int
      BY <2>3, <3>1
    <3>3. new \in B
      BY <3>2
    <3>4. DecodeTurn(m, value) =
            [buffer |-> buffer, bitsLeft |-> bits - 8, result |-> Append(m.result, new)]
      BY <2>4 DEF DecodeTurn, bits, buffer, d
    <3> HIDE DEF new, B
    <3>5. Append(m.result, new) \in Seq(B) /\ bits - 8 \in Nat /\ bits - 8 < 8
      BY <2>1, <2>2, <2>4, <3>3
    <3>6. QED
      BY <2>3, <3>4, <3>5 DEF Typ
  <2>5. CASE ~(bits >= 8)
    <3>1. DecodeTurn(m, value) = [m EXCEPT !.buffer = buffer, !.bitsLeft = bits]
      BY <2>5 DEF DecodeTurn, bits, buffer
    <3>2. bits < 8
      BY <2>2, <2>5
    <3> HIDE DEF B
    <3>3. QED
      BY <2>2, <2>3, <3>1, <3>2 DEF Typ
  <2>6. QED
    BY <2>4, <2>5
<1> HIDE DEF Typ, start
<1>3. DecodeLoop!Fold(start, values) \in Typ
  BY <1>1, <1>2, DecodeLoop!FoldType
<1>4. QED
  BY <1>3 DEF Typ, start

LEMMA CharToIntInt ==
  ASSUME NEW hex \in BOOLEAN, NEW c \in Nat, c < 256
  PROVE  ToUpper(c) \in Nat /\ CharToInt(hex, ToUpper(c)) \in Int
<1>1. ToUpper(c) \in Nat
  BY DEF ToUpper, IsLower
<1>2. \A d \in Nat : CharToInt(hex, d) \in Int
  BY DEF CharToInt
<1>3. QED
  BY <1>1, <1>2

Trimmed32(encoded) == TrimEnd(TrimEnd(TrimStart(encoded, White), White), {Equals})
Values32(hex, text) == [i \in DOMAIN text |-> CharToInt(hex, ToUpper(text[i]))]

\* A byte and an array of bytes: constant sets whose members are not listed.
Byte == {b \in Nat : b < 256}

LEMMA FromBase32Cases ==
  ASSUME NEW hex \in BOOLEAN, NEW t \in Seq(Byte)
  PROVE  /\ Trimmed32(t) \in Seq(Byte)
         /\ Values32(hex, Trimmed32(t)) \in Seq(Int)
         /\ FromBase32(hex, t) =
              IF \E i \in DOMAIN Trimmed32(t) : CharToInt(hex, ToUpper(Trimmed32(t)[i])) < 0
              THEN Throws
              ELSE DecodeLoop!Fold([buffer |-> 0, bitsLeft |-> 0, result |-> <<>>],
                                   Values32(hex, Trimmed32(t))).result
<1> DEFINE text == Trimmed32(t)
           values == Values32(hex, text)
           start == [buffer |-> 0, bitsLeft |-> 0, result |-> <<>>]
<1>1. text \in Seq(Byte)
  <2> DEFINE a == TrimStart(t, White)
             b == TrimEnd(a, White)
  <2>1. a \in Seq(Byte)
    BY DropTrimStart
  <2> HIDE DEF a
  <2>2. b \in Seq(Byte)
    BY <2>1, DropTrimEnd
  <2> HIDE DEF b
  <2>3. TrimEnd(b, {Equals}) \in Seq(Byte)
    BY <2>2, DropTrimEnd
  <2>4. QED
    BY <2>3 DEF Trimmed32, a, b
<1> HIDE DEF text
<1>2. DOMAIN text = 1 .. Len(text) /\ Len(text) \in Nat /\ \A i \in DOMAIN text : text[i] \in Byte
  BY <1>1
<1>3. \A i \in DOMAIN text : CharToInt(hex, ToUpper(text[i])) \in Int
  BY <1>2, CharToIntInt DEF Byte
<1>4. /\ values \in Seq(Int) /\ DOMAIN values = DOMAIN text
      /\ \A i \in DOMAIN text : values[i] = CharToInt(hex, ToUpper(text[i]))
  BY <1>2, <1>3 DEF Values32
<1>5. DecodeLoop!Fold(start, values) = FoldLeft(DecodeTurn, start, values)
  BY DEF DecodeLoop!Fold, FoldLeft, DecodeLoop!FoldLeft, MapThenFoldSet,
         DecodeLoop!MapThenFoldSet, Max, DecodeLoop!Max
<1>6. FromBase32(hex, t) = IF \E i \in DOMAIN values : values[i] < 0 THEN Throws
                           ELSE FoldLeft(DecodeTurn, start, values).result
  BY DEF FromBase32, Values32, Trimmed32, text
<1> HIDE DEF values, start
<1>7. FromBase32(hex, t) =
        IF \E i \in DOMAIN text : CharToInt(hex, ToUpper(text[i])) < 0 THEN Throws
        ELSE DecodeLoop!Fold(start, values).result
  BY <1>4, <1>5, <1>6
<1>8. QED
  BY <1>1, <1>4, <1>7 DEF text, values, start

LEMMA NotThrows ==
  ASSUME NEW r \in Seq(Nat)
  PROVE  r # Throws
<1>1. CASE Len(r) = 1
  <2>1. r[1] \in Nat
    <3>1. 1 \in 1 .. Len(r)
      BY <1>1
    <3>2. QED
      BY <3>1, ElementOfSeq
  <2>2. QED
    BY <2>1 DEF Throws
<1>2. CASE Len(r) # 1
  BY <1>2 DEF Throws
<1>3. QED
  BY <1>1, <1>2

LEMMA Refuses32 ==
  ASSUME NEW hex \in BOOLEAN, NEW t \in Seq(Byte)
  PROVE  FromBase32(hex, t) = Throws
           <=> \E i \in DOMAIN Trimmed32(t) : CharToInt(hex, ToUpper(Trimmed32(t)[i])) < 0
<1> DEFINE m == DecodeLoop!Fold([buffer |-> 0, bitsLeft |-> 0, result |-> <<>>],
                                Values32(hex, Trimmed32(t)))
<1>1. m.result \in Seq(Nat)
  <2>1. Values32(hex, Trimmed32(t)) \in Seq(Int)
    BY FromBase32Cases
  <2>2. m.result \in Seq({b \in Nat : b < 256})
    BY <2>1, DecodedState
  <2> HIDE DEF m
  <2>3. QED
    BY <2>2
<1> HIDE DEF m
<1>2. m.result # Throws
  BY <1>1, NotThrows
<1>3. FromBase32(hex, t) =
        IF \E i \in DOMAIN Trimmed32(t) : CharToInt(hex, ToUpper(Trimmed32(t)[i])) < 0
        THEN Throws ELSE m.result
  BY FromBase32Cases DEF m
<1>4. QED
  BY <1>2, <1>3

\* Without white space it is the padding that is trimmed off.
LEMMA Trimmed32Place ==
  ASSUME NEW t \in Seq(Byte), \A i \in DOMAIN t : t[i] \notin White
  PROVE  \E n \in 0 .. Len(t) :
            /\ Trimmed32(t) \in Seq(Byte) /\ DOMAIN Trimmed32(t) = 1..n
            /\ \A i \in 1..n : Trimmed32(t)[i] = t[i]
            /\ \A i \in n + 1 .. Len(t) : t[i] = Equals
            /\ n > 0 => t[n] # Equals
<1>1. Len(t) \in Nat /\ DOMAIN t = 1 .. Len(t) /\ SubSeq(t, 1, Len(t)) = t
  BY SubSeqFull
<1>2. TrimStart(t, White) = t
  <2>1. PICK m \in 1 .. Len(t) + 1 :
            /\ TrimStart(t, White) = SubSeq(t, m, Len(t))
            /\ \A i \in 1 .. m - 1 : t[i] \in White
    BY TrimStartPlace
  <2>2. m = 1
    <3>1. m # 1 => 1 \in 1 .. m - 1 /\ 1 \in DOMAIN t
      BY <1>1
    <3>2. QED
      BY <2>1, <3>1
  <2>3. QED
    BY <1>1, <2>1, <2>2
<1>3. TrimEnd(t, White) = t
  <2>1. PICK n \in 0 .. Len(t) :
            /\ TrimEnd(t, White) = SubSeq(t, 1, n)
            /\ \A i \in n + 1 .. Len(t) : t[i] \in White
    BY TrimEndPlace
  <2>2. n = Len(t)
    <3>1. n # Len(t) => (Len(t) \in n + 1 .. Len(t) /\ Len(t) \in 1 .. Len(t))
      OBVIOUS
    <3>2. QED
      BY <1>1, <2>1, <3>1
  <2>3. QED
    BY <1>1, <2>1, <2>2
<1>4. PICK n \in 0 .. Len(t) :
          /\ TrimEnd(t, {Equals}) = SubSeq(t, 1, n)
          /\ \A i \in n + 1 .. Len(t) : t[i] \in {Equals}
          /\ n > 0 => t[n] \notin {Equals}
  BY TrimEndPlace
<1>5. Trimmed32(t) = SubSeq(t, 1, n)
  BY <1>2, <1>3, <1>4 DEF Trimmed32
<1>6. /\ SubSeq(t, 1, n) \in Seq(Byte) /\ DOMAIN SubSeq(t, 1, n) = 1..n
      /\ \A i \in 1..n : SubSeq(t, 1, n)[i] = t[i]
  BY <1>1
<1>7. QED
  BY <1>4, <1>5, <1>6

\* The characters: those of the alphabet are digits or padding, have a value and
\* are no white space; the other ones that have a value are letters.
LEMMA Alphabet ==
  ASSUME NEW hex \in BOOLEAN, NEW c \in Byte
  PROVE  LET letter == \E v \in 0..31 : c = Digit(hex, v)
         IN  /\ letter => CharToInt(hex, ToUpper(c)) >= 0 /\ c \notin White
             /\ ~letter /\ ~IsUpper(c) /\ ~IsLower(c) => CharToInt(hex, ToUpper(c)) < 0
<1>1. c \in Nat /\ c < 256
  BY DEF Byte
<1>2. ASSUME NEW v \in 0..31, c = Digit(hex, v)
      PROVE  CharToInt(hex, ToUpper(c)) >= 0 /\ c \notin White
  <2>1. v \in Nat /\ v < 32
    BY <1>2
  <2>2. /\ hex => (48 <= c /\ c <= 57) \/ (65 <= c /\ c <= 86)
        /\ ~hex => (65 <= c /\ c <= 90) \/ (50 <= c /\ c <= 55)
    BY <1>2, <2>1 DEF Digit
  <2>3. ToUpper(c) = c
    BY <1>1, <2>2 DEF ToUpper, IsLower
  <2>4. IsUpper(c) <=> 65 <= c
    BY <1>1, <2>2 DEF IsUpper
  <2>5. CharToInt(hex, c) >= 0
    <3>1. CASE 65 <= c
      <4>0. ~IsLower(c) /\ c \notin 50..55 /\ c \notin 48..57
        BY <1>1, <2>2, <3>1 DEF IsLower
      <4>1. CharToInt(hex, c) = c - 65 + (IF hex THEN 10 ELSE 0)
        BY <2>4, <3>1, <4>0 DEF CharToInt
      <4>2. QED
        BY <1>1, <3>1, <4>1
    <3>2. CASE ~(65 <= c)
      <4>1. ~IsUpper(c) /\ ~IsLower(c)
        BY <1>1, <2>2, <2>4, <3>2 DEF IsLower
      <4>2. CASE hex
        <5>1. c \in 48..57
          BY <1>1, <2>2, <3>2, <4>2
        <5>2. QED
          BY <1>1, <4>1, <4>2, <5>1 DEF CharToInt
      <4>3. CASE ~hex
        <5>1. c \in 50..55
          BY <1>1, <2>2, <3>2, <4>3
        <5>2. QED
          BY <1>1, <4>1, <4>3, <5>1 DEF CharToInt
      <4>4. QED
        BY <4>2, <4>3
    <3>3. QED
      BY <3>1, <3>2
  <2>6. QED
    BY <1>1, <2>2, <2>3, <2>5 DEF White
<1>3. ASSUME ~IsUpper(c), ~IsLower(c), ~(CharToInt(hex, ToUpper(c)) < 0)
      PROVE  \E v \in 0..31 : c = Digit(hex, v)
  <2>1. ToUpper(c) = c
    <3>1. c # 255 /\ c # 181
      BY <1>3 DEF IsLower
    <3>2. QED
      BY <1>3, <3>1 DEF ToUpper
  <2>2. (~hex /\ c \in 50..55) \/ (hex /\ c \in 48..57)
    BY <1>3, <2>1 DEF CharToInt
  <2>3. CASE ~hex
    <3>1. c - 24 \in 0..31 /\ ~(c - 24 < 26) /\ 24 + (c - 24) = c
      BY <2>2, <2>3
    <3>2. c = Digit(hex, c - 24)
      BY <2>3, <3>1 DEF Digit
    <3>3. QED
      BY <3>1, <3>2
  <2>4. CASE hex
    <3>1. c - 48 \in 0..31 /\ c - 48 < 10 /\ 48 + (c - 48) = c
      BY <2>2, <2>4
    <3>2. c = Digit(hex, c - 48)
      BY <2>4, <3>1 DEF Digit
    <3>3. QED
      BY <3>1, <3>2
  <2>5. QED
    BY <2>3, <2>4
<1>4. QED
  BY <1>2, <1>3

\* What IsValidBase32 takes and FromBase32 does not has padding inside.
LEMMA ValidTaken ==
  ASSUME NEW hex \in BOOLEAN, NEW t \in Seq(Byte), IsValidBase32(hex, t),
         FromBase32(hex, t) = Throws
  PROVE  \E i \in 1 .. Len(t) - 1 : t[i] = Equals /\ t[i + 1] # Equals
<1>1. Len(t) \in Nat /\ DOMAIN t = 1 .. Len(t) /\ \A i \in DOMAIN t : t[i] \in Byte
  OBVIOUS
<1>2. ASSUME NEW i \in DOMAIN t, t[i] # Equals
      PROVE  CharToInt(hex, ToUpper(t[i])) >= 0 /\ t[i] \notin White
  <2>1. \E v \in 0..31 : t[i] = Digit(hex, v)
    BY <1>2 DEF IsValidBase32
  <2>2. QED
    BY <1>1, <2>1, Alphabet
<1>3. \A i \in DOMAIN t : t[i] \notin White
  BY <1>2 DEF Equals, White
<1>4. PICK n \in 0 .. Len(t) :
          /\ Trimmed32(t) \in Seq(Byte) /\ DOMAIN Trimmed32(t) = 1..n
          /\ \A i \in 1..n : Trimmed32(t)[i] = t[i]
          /\ n > 0 => t[n] # Equals
  BY <1>3, Trimmed32Place
<1>5. PICK i \in 1..n : CharToInt(hex, ToUpper(t[i])) < 0
  BY <1>4, Refuses32
<1>6. CharToInt(hex, ToUpper(t[i])) \in Int /\ i \in DOMAIN t
  BY <1>1, CharToIntInt DEF Byte
<1>7. t[i] = Equals
  BY <1>2, <1>5, <1>6
<1> DEFINE padding == {k \in 0..n : k > 0 /\ t[k] = Equals}
           last == Max(padding)
<1>8. last \in padding /\ \A k \in padding : k <= last
  <2>1. i \in padding /\ n \in Nat
    BY <1>1, <1>7
  <2>2. padding \in SUBSET (0..n) /\ padding # {}
    BY <2>1
  <2> HIDE DEF padding
  <2>3. QED
    BY <2>1, <2>2, LargestPlace
<1> HIDE DEF last
<1>9. last \in 1..n /\ t[last] = Equals /\ last # n
  BY <1>1, <1>4, <1>8
<1>10. last \in 1 .. Len(t) - 1 /\ last + 1 \in 0..n /\ last + 1 > 0 /\ ~(last + 1 <= last)
  BY <1>1, <1>9
<1>11. t[last + 1] # Equals
  BY <1>8, <1>10
<1>12. QED
  BY <1>9, <1>10, <1>11

\* What FromBase32 trims off: white space before lo and behind hi, and padding
\* between mid and hi.
LEMMA Trimmed32Bounds ==
  ASSUME NEW t \in Seq(Byte)
  PROVE  \E lo, mid, hi \in 0 .. Len(t) :
            /\ lo <= mid /\ mid <= hi
            /\ \A i \in 1 .. mid - lo : i \in DOMAIN Trimmed32(t) /\ Trimmed32(t)[i] = t[lo + i]
            /\ \A i \in 1..lo : t[i] \in White
            /\ \A i \in hi + 1 .. Len(t) : t[i] \in White
            /\ \A i \in mid + 1 .. hi : t[i] = Equals
<1> DEFINE a == TrimStart(t, White)
           b == TrimEnd(a, White)
<1>1. Len(t) \in Nat /\ DOMAIN t = 1 .. Len(t)
  OBVIOUS
<1>2. PICK m \in 1 .. Len(t) + 1 :
          /\ a = SubSeq(t, m, Len(t))
          /\ \A i \in 1 .. m - 1 : t[i] \in White
  BY TrimStartPlace
<1>3. /\ a \in Seq(Byte) /\ Len(a) = Len(t) + 1 - m
      /\ \A i \in 1 .. Len(t) + 1 - m : a[i] = t[m - 1 + i]
  BY <1>1, <1>2
<1> HIDE DEF a
<1>4. PICK n \in 0 .. Len(a) :
          /\ b = SubSeq(a, 1, n)
          /\ \A i \in n + 1 .. Len(a) : a[i] \in White
  BY <1>3, TrimEndPlace
<1>5. b \in Seq(Byte) /\ Len(b) = n /\ \A i \in 1..n : b[i] = a[i]
  BY <1>3, <1>4
<1> HIDE DEF b
<1>6. PICK k \in 0..n :
          /\ TrimEnd(b, {Equals}) = SubSeq(b, 1, k)
          /\ \A i \in k + 1 .. n : b[i] \in {Equals}
  BY <1>5, TrimEndPlace
<1>7. /\ Trimmed32(t) = SubSeq(b, 1, k) /\ DOMAIN SubSeq(b, 1, k) = 1..k
      /\ \A i \in 1..k : SubSeq(b, 1, k)[i] = b[i]
  <2>1. Trimmed32(t) = TrimEnd(b, {Equals})
    BY DEF Trimmed32, a, b
  <2>2. k \in Nat /\ k <= Len(b)
    BY <1>5, <1>6
  <2>3. DOMAIN SubSeq(b, 1, k) = 1..k /\ \A i \in 1..k : SubSeq(b, 1, k)[i] = b[i]
    BY <1>5, <2>2
  <2>4. QED
    BY <1>6, <2>1, <2>3
<1>8. PICK lo, mid, hi \in 0 .. Len(t) : lo = m - 1 /\ mid = m - 1 + k /\ hi = m - 1 + n
  BY <1>1, <1>3, <1>4, <1>6
<1>9. lo <= mid /\ mid <= hi /\ mid - lo = k
  BY <1>4, <1>6, <1>8
<1>10. \A i \in 1 .. mid - lo : i \in DOMAIN Trimmed32(t) /\ Trimmed32(t)[i] = t[lo + i]
  <2> SUFFICES ASSUME NEW i \in 1..k PROVE i \in DOMAIN Trimmed32(t) /\ Trimmed32(t)[i] = t[lo + i]
    BY <1>9
  <2>1. i \in 1..n /\ i \in 1 .. Len(t) + 1 - m
    BY <1>3, <1>4, <1>6
  <2>2. QED
    BY <1>3, <1>5, <1>7, <1>8, <2>1
<1>11. \A i \in 1..lo : t[i] \in White
  BY <1>2, <1>8
<1>12. \A i \in hi + 1 .. Len(t) : t[i] \in White
  <2> SUFFICES ASSUME NEW i \in hi + 1 .. Len(t) PROVE t[i] \in White
    OBVIOUS
  <2>1. i - (m - 1) \in n + 1 .. Len(a) /\ i - (m - 1) \in 1 .. Len(t) + 1 - m /\ m - 1 + (i - (m - 1)) = i
    BY <1>1, <1>3, <1>4, <1>8
  <2>2. QED
    BY <1>3, <1>4, <2>1
<1>13. \A i \in mid + 1 .. hi : t[i] = Equals
  <2> SUFFICES ASSUME NEW i \in mid + 1 .. hi PROVE t[i] = Equals
    OBVIOUS
  <2>1. /\ i - (m - 1) \in k + 1 .. n /\ i - (m - 1) \in 1..n
        /\ i - (m - 1) \in 1 .. Len(t) + 1 - m /\ m - 1 + (i - (m - 1)) = i
    BY <1>1, <1>3, <1>4, <1>6, <1>8
  <2>2. QED
    BY <1>3, <1>5, <1>6, <2>1
<1>14. QED
  BY <1>9, <1>10, <1>11, <1>12, <1>13

\* Where the characters of a text that FromBase32 takes may be.
LEMMA TakenPlaces ==
  ASSUME NEW hex \in BOOLEAN, NEW t \in Seq(Byte), FromBase32(hex, t) # Throws,
         NEW i \in DOMAIN t
  PROVE  \/ \E v \in 0..31 : t[i] = Digit(hex, v)
         \/ IsUpper(t[i]) \/ IsLower(t[i])
         \/ OnlyOf(White, t, 1, i) \/ OnlyOf(White, t, i, Len(t))
         \/ t[i] = Equals /\ OnlyOf(White \union {Equals}, t, i, Len(t))
<1>1. Len(t) \in Nat /\ i \in 1 .. Len(t) /\ t[i] \in Byte
  OBVIOUS
<1>2. PICK lo, mid, hi \in 0 .. Len(t) :
          /\ lo <= mid /\ mid <= hi
          /\ \A j \in 1 .. mid - lo : j \in DOMAIN Trimmed32(t) /\ Trimmed32(t)[j] = t[lo + j]
          /\ \A j \in 1..lo : t[j] \in White
          /\ \A j \in hi + 1 .. Len(t) : t[j] \in White
          /\ \A j \in mid + 1 .. hi : t[j] = Equals
  BY Trimmed32Bounds
<1>3. CASE i <= lo
  <2>1. \A j \in 1..i : j \in 1..lo
    BY <1>1, <1>3
  <2>2. QED
    BY <1>2, <2>1 DEF OnlyOf
<1>4. CASE hi < i
  <2>1. \A j \in i .. Len(t) : j \in hi + 1 .. Len(t)
    BY <1>1, <1>4
  <2>2. QED
    BY <1>2, <2>1 DEF OnlyOf
<1>5. CASE mid < i /\ i <= hi
  <2>1. /\ i \in mid + 1 .. hi
        /\ \A j \in i .. Len(t) : j \in mid + 1 .. hi \/ j \in hi + 1 .. Len(t)
    BY <1>1, <1>5
  <2>2. QED
    BY <1>2, <2>1 DEF OnlyOf
<1>6. CASE lo < i /\ i <= mid
  <2>1. i - lo \in 1 .. mid - lo /\ lo + (i - lo) = i
    BY <1>1, <1>6
  <2>2. i - lo \in DOMAIN Trimmed32(t) /\ Trimmed32(t)[i - lo] = t[i]
    BY <1>2, <2>1
  <2>3. ~(CharToInt(hex, ToUpper(t[i])) < 0)
    BY <2>2, Refuses32
  <2>4. QED
    BY <1>1, <2>3, Alphabet
<1>7. i <= lo \/ (lo < i /\ i <= mid) \/ (mid < i /\ i <= hi) \/ hi < i
  BY <1>1
<1>8. QED
  BY <1>3, <1>4, <1>5, <1>6, <1>7, Zenon

LEMMA HexDigits ==
  ASSUME NEW upper \in BOOLEAN, NEW v \in Nat, v < 16
  PROVE  HexValue(HexDigit(upper, v)) = v
<1>1. CASE v < 10
  <2>1. HexDigit(upper, v) = 48 + v /\ 48 + v \in 48..57
    BY <1>1 DEF HexDigit
  <2>2. 48 + v \notin 65..70 /\ 48 + v \notin 97..102
    BY <1>1
  <2>3. HexValue(48 + v) = (48 + v) - 48
    BY <2>1, <2>2 DEF HexValue
  <2>4. QED
    BY <2>1, <2>3
<1>2. CASE ~(v < 10) /\ upper
  <2>1. HexDigit(upper, v) = 55 + v /\ 55 + v \in 65..70
    BY <1>2 DEF HexDigit
  <2>2. 55 + v \notin 48..57 /\ 55 + v \notin 97..102
    BY <1>2
  <2>3. HexValue(55 + v) = (55 + v) - 55
    BY <2>1, <2>2 DEF HexValue
  <2>4. QED
    BY <2>1, <2>3
<1>3. CASE ~(v < 10) /\ ~upper
  <2>1. HexDigit(upper, v) = 87 + v /\ 87 + v \in 97..102
    BY <1>3 DEF HexDigit
  <2>2. 87 + v \notin 48..57 /\ 87 + v \notin 65..70
    BY <1>3
  <2>3. HexValue(87 + v) = (87 + v) - 87
    BY <2>1, <2>2 DEF HexValue
  <2>4. QED
    BY <2>1, <2>3
<1>4. QED
  BY <1>1, <1>2, <1>3

\* The digits of HexBytes, when it takes them.
LEMMA HexBytesTaken ==
  ASSUME NEW t \in Seq(Nat), \A i \in DOMAIN t : HexValue(t[i]) \in Nat
  PROVE  /\ HexBytes(t) = [i \in 1 .. Len(t) \div 2 |-> HexValue(t[2 * i - 1]) * 16 + HexValue(t[2 * i])]
         /\ HexBytes(t) \in Seq(Nat)
<1> DEFINE n == Len(t) \div 2
           f == [i \in 1..n |-> HexValue(t[2 * i - 1]) * 16 + HexValue(t[2 * i])]
<1>1. Len(t) \in Nat /\ DOMAIN t = 1 .. Len(t) /\ n \in Nat /\ 2 * n <= Len(t)
  OBVIOUS
<1>2. HexBytes(t) = f
  BY DEF HexBytes
<1> HIDE DEF n
<1>3. ASSUME NEW i \in 1..n
      PROVE  HexValue(t[2 * i - 1]) * 16 + HexValue(t[2 * i]) \in Nat
  <2>1. 2 * i - 1 \in DOMAIN t /\ 2 * i \in DOMAIN t
    BY <1>1
  <2>2. HexValue(t[2 * i - 1]) \in Nat /\ HexValue(t[2 * i]) \in Nat
    BY <2>1
  <2>3. QED
    BY <2>2
<1>4. f \in Seq(Nat)
  BY <1>1, <1>3
<1>5. QED
  BY <1>2, <1>4 DEF n

LEMMA Hex16Taken ==
  ASSUME NEW upper \in BOOLEAN, NEW t \in Seq(Byte), t # <<>>, IsValidHex16(upper, t)
  PROVE  FromHex16(t) # Throws
<1>1. Len(t) \in Nat /\ DOMAIN t = 1 .. Len(t) /\ t \in Seq(Nat)
  BY DEF Byte
<1>2. ASSUME NEW i \in DOMAIN t PROVE HexValue(t[i]) \in Nat
  <2>1. PICK v \in 0..15 : t[i] = HexDigit(upper, v)
    BY DEF IsValidHex16
  <2>2. v \in Nat /\ v < 16
    BY <2>1
  <2>3. QED
    BY <2>1, <2>2, HexDigits
<1>3. HexValue(48) = 0
  BY DEF HexValue
<1> DEFINE even == IF Len(t) % 2 = 1 THEN Append(t, 48) ELSE t
<1>4. even \in Seq(Nat) /\ \A i \in DOMAIN even : HexValue(even[i]) \in Nat
  <2>1. CASE Len(t) % 2 = 1
    <3> DEFINE longer == Append(t, 48)
    <3>1. /\ longer \in Seq(Nat) /\ DOMAIN longer = 1 .. Len(t) + 1
          /\ \A i \in 1 .. Len(t) : longer[i] = t[i]
          /\ longer[Len(t) + 1] = 48
      BY <1>1
    <3> HIDE DEF longer
    <3>2. \A i \in 1 .. Len(t) + 1 : i \in 1 .. Len(t) \/ i = Len(t) + 1
      BY <1>1
    <3>3. \A i \in DOMAIN longer : HexValue(longer[i]) \in Nat
      BY <1>1, <1>2, <1>3, <3>1, <3>2
    <3>4. QED
      BY <2>1, <3>1, <3>3 DEF longer
  <2>2. CASE ~(Len(t) % 2 = 1)
    BY <1>1, <1>2, <2>2
  <2>3. QED
    BY <2>1, <2>2
<1> HIDE DEF even
<1>5. HexBytes(even) \in Seq(Nat)
  BY <1>4, HexBytesTaken
<1>6. FromHex16(t) = HexBytes(even)
  BY DEF FromHex16, even
<1>7. QED
  BY <1>5, <1>6, NotThrows

\* The checks IsValidBase32 and IsValidHex16 agree with their decoders but for the
\* texts named: AcceptedTexts, for every text of characters up to 255.
THEOREM AcceptedTextsAlways == InputSpec => []AcceptedTexts
<1>1. InputInv /\ kind = "text" => input \in Seq(Byte)
  <2>1. Texts \subseteq Byte
    BY CodecAssumption DEF Byte
  <2>2. QED
    BY <2>1, SeqMonotonic DEF InputInv
<1>2. InputInv => AcceptedTexts
  BY <1>1, ValidTaken, TakenPlaces, Hex16Taken DEF AcceptedTexts
<1>3. QED
  BY <1>2, InputsTyped, PTL

-----------------------------------------------------------------------------
(* Base 16, Uu and stretched texts are undone. *)

LEMMA HexStringChars ==
  ASSUME NEW upper \in BOOLEAN, NEW bytes \in Seq(Byte)
  PROVE  LET t == HexString(upper, bytes)
         IN  /\ t \in Seq(Nat) /\ Len(t) = 2 * Len(bytes)
             /\ \A i \in DOMAIN t : HexValue(t[i]) \in Nat
             /\ \A i \in 1 .. Len(bytes) :
                   HexValue(t[2 * i - 1]) = bytes[i] \div 16 /\ HexValue(t[2 * i]) = bytes[i] % 16
<1> DEFINE t == HexString(upper, bytes)
           l == Len(bytes)
           V(i) == IF i % 2 = 1 THEN bytes[(i + 1) \div 2] \div 16 ELSE bytes[(i + 1) \div 2] % 16
<1>1. l \in Nat /\ DOMAIN bytes = 1..l /\ \A i \in 1..l : bytes[i] \in Nat /\ bytes[i] < 256
  BY DEF Byte
<1>2. t = [i \in 1 .. 2 * l |-> HexDigit(upper, V(i))]
  BY DEF HexString
<1> HIDE DEF l
<1>3. ASSUME NEW i \in 1 .. 2 * l
      PROVE  V(i) \in Nat /\ V(i) < 16
  <2>1. (i + 1) \div 2 \in 1..l
    BY <1>1
  <2>2. bytes[(i + 1) \div 2] \in Nat /\ bytes[(i + 1) \div 2] < 256
    BY <1>1, <2>1
  <2>3. QED
    BY <2>2
<1>4. ASSUME NEW i \in 1 .. 2 * l
      PROVE  HexDigit(upper, V(i)) \in Nat /\ HexValue(HexDigit(upper, V(i))) = V(i)
  <2>1. V(i) \in Nat /\ V(i) < 16
    BY <1>3
  <2> HIDE DEF V
  <2>2. HexDigit(upper, V(i)) \in Nat
    BY <2>1 DEF HexDigit
  <2>3. QED
    BY <2>1, <2>2, HexDigits
<1> HIDE DEF V
<1>5. t \in Seq(Nat) /\ Len(t) = 2 * l /\ DOMAIN t = 1 .. 2 * l
  BY <1>1, <1>2, <1>4
<1>6. \A i \in 1 .. 2 * l : HexValue(t[i]) = V(i) /\ V(i) \in Nat
  BY <1>2, <1>3, <1>4
<1> HIDE DEF t
<1>7. ASSUME NEW i \in 1..l
      PROVE  HexValue(t[2 * i - 1]) = bytes[i] \div 16 /\ HexValue(t[2 * i]) = bytes[i] % 16
  <2>1. /\ 2 * i - 1 \in 1 .. 2 * l /\ 2 * i \in 1 .. 2 * l
        /\ (2 * i - 1) % 2 = 1 /\ (2 * i) % 2 # 1
        /\ (2 * i - 1 + 1) \div 2 = i /\ (2 * i + 1) \div 2 = i
    BY <1>1
  <2>2. V(2 * i - 1) = bytes[i] \div 16 /\ V(2 * i) = bytes[i] % 16
    BY <2>1 DEF V
  <2>3. QED
    BY <1>6, <2>1, <2>2
<1>8. QED
  BY <1>5, <1>6, <1>7 DEF t, l

LEMMA HexUndone ==
  ASSUME NEW upper \in BOOLEAN, NEW bytes \in Seq(Byte)
  PROVE  HexBytes(HexString(upper, bytes)) = bytes
<1> DEFINE t == HexString(upper, bytes)
           l == Len(bytes)
<1>1. l \in Nat /\ DOMAIN bytes = 1..l /\ \A i \in 1..l : bytes[i] \in Nat /\ bytes[i] < 256
  BY DEF Byte
<1>2. /\ t \in Seq(Nat) /\ Len(t) = 2 * l
      /\ \A i \in DOMAIN t : HexValue(t[i]) \in Nat
      /\ \A i \in 1..l :
            HexValue(t[2 * i - 1]) = bytes[i] \div 16 /\ HexValue(t[2 * i]) = bytes[i] % 16
  BY HexStringChars
<1> HIDE DEF t, l
<1>3. Len(t) \div 2 = l
  BY <1>1, <1>2
<1>4. HexBytes(t) = [i \in 1..l |-> HexValue(t[2 * i - 1]) * 16 + HexValue(t[2 * i])]
  BY <1>2, <1>3, HexBytesTaken
<1>5. \A i \in 1..l : HexValue(t[2 * i - 1]) * 16 + HexValue(t[2 * i]) = bytes[i]
  <2> TAKE i \in 1..l
  <2>1. (bytes[i] \div 16) * 16 + (bytes[i] % 16) = bytes[i]
    <3>1. \A b \in Nat : (b \div 16) * 16 + (b % 16) = b
      OBVIOUS
    <3>2. QED
      BY <1>1, <3>1
  <2>2. QED
    BY <1>2, <2>1
<1>6. bytes = [i \in 1..l |-> bytes[i]]
  BY <1>1
<1>7. QED
  BY <1>4, <1>5, <1>6 DEF t

LEMMA HexStringsUndone ==
  ASSUME NEW upper \in BOOLEAN, NEW bytes \in Seq(Byte)
  PROVE  /\ FromHexString(ToHexString(bytes)) = bytes
         /\ bytes # <<>> => FromHex16(ToHex16(upper, bytes)) = bytes
<1> DEFINE t == HexString(TRUE, bytes)
           r == HexString(upper, bytes)
<1>1. /\ t \in Seq(Nat) /\ Len(t) = 2 * Len(bytes) /\ r \in Seq(Nat) /\ Len(r) = 2 * Len(bytes)
      /\ Len(bytes) \in Nat
  <2>1. TRUE \in BOOLEAN
    OBVIOUS
  <2>2. t \in Seq(Nat) /\ Len(t) = 2 * Len(bytes)
    BY <2>1, HexStringChars
  <2>3. r \in Seq(Nat) /\ Len(r) = 2 * Len(bytes)
    BY HexStringChars
  <2>4. Len(bytes) \in Nat
    OBVIOUS
  <2> HIDE DEF t, r
  <2>5. QED
    BY <2>2, <2>3, <2>4
<1>2. HexBytes(t) = bytes /\ HexBytes(r) = bytes
  BY HexUndone
<1> HIDE DEF t, r
<1>3. SubSeq(t, 1, (Len(t) \div 2) * 2) = t
  <2>1. (Len(t) \div 2) * 2 = Len(t)
    BY <1>1
  <2>2. QED
    BY <1>1, <2>1, SubSeqFull
<1>4. FromHexString(t) = bytes
  BY <1>2, <1>3 DEF FromHexString
<1>5. ASSUME bytes # <<>> PROVE FromHex16(r) = bytes
  <2>1. Len(bytes) > 0 /\ ~(Len(r) % 2 = 1)
    BY <1>1, <1>5
  <2>2. r # <<>>
    BY <1>1, <2>1
  <2>3. QED
    BY <1>2, <2>1, <2>2 DEF FromHex16
<1>6. QED
  BY <1>4, <1>5 DEF ToHexString, ToHex16, t, r

LEMMA UuUndone ==
  ASSUME NEW bytes \in Seq(Byte)
  PROVE  /\ bytes # <<>> => FromUu(ToUu(bytes, FALSE), FALSE) = bytes
         /\ FromUu(ToUu(bytes, TRUE), TRUE) = bytes <=> \A i \in DOMAIN bytes : bytes[i] < 128
<1>1. bytes # <<>> => FromUu(ToUu(bytes, FALSE), FALSE) = bytes
  BY HexStringsUndone DEF FromUu, ToUu, UUEncoded, UUDecoded
<1> DEFINE A(b) == IF b < 128 THEN b ELSE 63
           twice == [i \in DOMAIN bytes |-> A(A(bytes[i]))]
<1>2. FromUu(ToUu(bytes, TRUE), TRUE) = twice
  BY DEF FromUu, ToUu, UUEncoded, UUDecoded, ASCII
<1>3. bytes = [i \in DOMAIN bytes |-> bytes[i]] /\ \A i \in DOMAIN bytes : bytes[i] \in Nat
  BY DEF Byte
<1>4. \A b \in Nat : A(A(b)) = b <=> b < 128
  OBVIOUS
<1>5. twice = bytes <=> \A i \in DOMAIN bytes : A(A(bytes[i])) = bytes[i]
  BY <1>3
<1> HIDE DEF twice, A
<1>6. QED
  BY <1>1, <1>2, <1>3, <1>4, <1>5

LEMMA StretchUndone ==
  ASSUME NEW bytes \in Seq(Byte), Len(bytes) > 1, Last(bytes) # 0
  PROVE  GetStringFromBytesTrimNulls(GetBytesFromString(bytes)) = bytes
<1> DEFINE l == Len(bytes)
           m == (l \div BlockSize + 1) * BlockSize - l
           nulls == [i \in 1..m |-> 0]
           all == bytes \o nulls
<1>1. l \in Nat /\ DOMAIN bytes = 1..l /\ bytes[l] # 0 /\ l > 1
  BY DEF Last
<1>2. m \in Int
  <2>1. BlockSize \in Nat /\ BlockSize > 0
    BY CodecAssumption
  <2>2. l \div BlockSize \in Int
    BY <1>1, <2>1
  <2>3. QED
    BY <1>1, <2>1, <2>2
<1> HIDE DEF m
<1>3. nulls \in Seq(Byte) /\ \A i \in 1 .. Len(nulls) : nulls[i] = 0
  <2>1. 0 \in Byte
    BY DEF Byte
  <2>2. CASE m > 0
    BY <1>2, <2>1, <2>2
  <2>3. CASE ~(m > 0)
    <3>1. 1..m = {}
      BY <1>2, <2>3
    <3>2. nulls = <<>>
      BY <3>1
    <3> HIDE DEF nulls
    <3>3. nulls \in Seq(Byte) /\ Len(nulls) = 0
      BY <3>2
    <3>4. QED
      BY <3>3
  <2>4. QED
    BY <2>2, <2>3
<1> HIDE DEF nulls
<1>4. Len(nulls) \in Nat
  BY <1>3
<1>5. /\ all \in Seq(Byte) /\ Len(all) = l + Len(nulls)
      /\ \A i \in 1..l : all[i] = bytes[i]
      /\ \A i \in l + 1 .. Len(all) : all[i] = 0
  <2>1. /\ all \in Seq(Byte) /\ Len(all) = l + Len(nulls)
        /\ \A i \in 1 .. l + Len(nulls) : all[i] = IF i <= l THEN bytes[i] ELSE nulls[i - l]
    BY <1>3, ConcatProperties
  <2>2. \A i \in 1..l : i \in 1 .. l + Len(nulls) /\ i <= l
    BY <1>1, <1>4
  <2>3. \A i \in l + 1 .. l + Len(nulls) : i - l \in 1 .. Len(nulls) /\ ~(i <= l)
    BY <1>1, <1>4
  <2>4. \A i \in l + 1 .. l + Len(nulls) : i \in 1 .. l + Len(nulls)
    BY <1>1, <1>4
  <2> HIDE DEF all
  <2>5. QED
    BY <1>3, <2>1, <2>2, <2>3, <2>4
<1>6. GetBytesFromString(bytes) = all
  BY DEF GetBytesFromString, nulls, m
<1>7. DOMAIN all = 1 .. Len(all) /\ Len(all) \in Nat /\ l <= Len(all)
  BY <1>1, <1>4, <1>5
<1> HIDE DEF all
<1>8. ArrayIndexOf(all, 0) = l - 1
  <2> DEFINE others == {i - 1 : i \in {j \in DOMAIN all : all[j] # 0}} \union {-1}
  <2>1. l - 1 \in others
    <3>1. l \in {j \in DOMAIN all : all[j] # 0}
      BY <1>1, <1>5, <1>7
    <3>2. QED
      BY <3>1
  <2>2. \A x \in others : x \in Int /\ x <= l - 1
    <3>1. \A j \in DOMAIN all : all[j] # 0 => j <= l
      BY <1>1, <1>5, <1>7
    <3>2. \A j \in DOMAIN all : j \in Int
      BY <1>7
    <3>3. QED
      BY <1>1, <3>1, <3>2
  <2> HIDE DEF others
  <2>3. Max(others) \in others /\ \A y \in others : Max(others) >= y
    <3>1. \A y \in others : l - 1 >= y
      BY <1>1, <2>2
    <3>2. QED
      BY <2>1, <3>1 DEF Max
  <2>4. Max(others) = l - 1
    <3>1. Max(others) \in Int /\ Max(others) <= l - 1 /\ Max(others) >= l - 1
      BY <2>1, <2>2, <2>3
    <3>2. QED
      BY <1>1, <3>1
  <2>5. QED
    BY <2>4 DEF ArrayIndexOf, others
<1>9. SubSeq(all, 1, l) = bytes
  <2>1. l \in 0 .. Len(all)
    BY <1>1, <1>7
  <2>2. /\ SubSeq(all, 1, l) \in Seq(Byte) /\ Len(SubSeq(all, 1, l)) = l
        /\ \A i \in 1..l : SubSeq(all, 1, l)[i] = all[i]
    BY <1>1, <1>5, <2>1
  <2>3. \A i \in 1..l : SubSeq(all, 1, l)[i] = bytes[i]
    BY <1>5, <2>2
  <2>4. QED
    BY <2>2, <2>3, SeqEqual
<1>10. GetStringFromBytesTrimNulls(all) = SubSeq(all, 1, (l - 1) + 1)
  BY <1>1, <1>8 DEF GetStringFromBytesTrimNulls
<1>11. (l - 1) + 1 = l
  BY <1>1
<1>12. QED
  BY <1>6, <1>9, <1>10, <1>11

-----------------------------------------------------------------------------
(* The bits of the buffer. *)

\* Wrapping changes none of the low 16 bits.
LEMMA Wrapped == \A x \in Int : \E q \in Int : Wrap(x) = x + 65536 * q
<1> TAKE x \in Int
<1>1. CASE IntBits = 16
  <2> DEFINE q == -((x + 32768) \div 65536)
  <2>1. q \in Int /\ ((x + 32768) % 65536) - 32768 = x + 65536 * q
    BY SMT
  <2>2. Wrap(x) = ((x + 32768) % 65536) - 32768
    BY <1>1, SMT DEF Wrap
  <2> HIDE DEF q
  <2>3. QED
    BY <2>1, <2>2, SMT
<1>2. CASE IntBits = 32
  <2> DEFINE q == -65536 * ((x + 2147483648) \div 4294967296)
  <2>1. q \in Int /\ ((x + 2147483648) % 4294967296) - 2147483648 = x + 65536 * q
    BY SMT
  <2>2. Wrap(x) = ((x + 2147483648) % 4294967296) - 2147483648
    BY <1>2, SMT DEF Wrap
  <2> HIDE DEF q
  <2>3. QED
    BY <2>1, <2>2, SMT
<1>3. QED
  BY <1>1, <1>2, CodecAssumption

\* The low n bits of b are those of w.
SameBits(n, b, w) == b % 2 ^ n = w % 2 ^ n

LEMMA ShiftInByte ==
  ASSUME NEW n \in Nat, n < 5, NEW b \in Int, NEW x \in Nat, SameBits(n, b, x), NEW y \in Nat
  PROVE  ShiftIn(b, 8, y) \in Int /\ SameBits(n + 8, ShiftIn(b, 8, y), x * 256 + y)
<1>1. PICK q \in Int : Wrap(b * 256) = b * 256 + 65536 * q
  BY Wrapped
<1>2. ShiftIn(b, 8, y) = b * 256 + 65536 * q + y
  BY <1>1, SMT DEF ShiftIn
<1>3. ShiftIn(b, 8, y) \in Int
  BY <1>2, SMT
<1>4. n = 0 \/ n = 1 \/ n = 2 \/ n = 3 \/ n = 4
  OBVIOUS
<1>5. CASE n = 0
  BY <1>2, <1>5, SMT DEF SameBits
<1>6. CASE n = 1
  BY <1>2, <1>6, SMT DEF SameBits
<1>7. CASE n = 2
  BY <1>2, <1>7, SMT DEF SameBits
<1>8. CASE n = 3
  BY <1>2, <1>8, SMT DEF SameBits
<1>9. CASE n = 4
  BY <1>2, <1>9, SMT DEF SameBits
<1>10. QED
  BY <1>3, <1>4, <1>5, <1>6, <1>7, <1>8, <1>9

LEMMA ShiftInFive ==
  ASSUME NEW n \in Nat, n < 8, NEW b \in Int, NEW u \in Nat, SameBits(n, b, u),
         NEW v \in Nat
  PROVE  ShiftIn(b, _shift, v) \in Int /\ SameBits(n + 5, ShiftIn(b, _shift, v), u * 32 + v)
<1>1. PICK q \in Int : Wrap(b * 32) = b * 32 + 65536 * q
  BY Wrapped
<1>2. ShiftIn(b, _shift, v) = b * 32 + 65536 * q + v
  BY <1>1, SMT DEF ShiftIn, _shift
<1>3. ShiftIn(b, _shift, v) \in Int
  BY <1>2, SMT
<1>4. n = 0 \/ n = 1 \/ n = 2 \/ n = 3 \/ n = 4 \/ n = 5 \/ n = 6 \/ n = 7
  OBVIOUS
<1>5. CASE n = 0
  BY <1>2, <1>5, SMT DEF SameBits
<1>6. CASE n = 1
  BY <1>2, <1>6, SMT DEF SameBits
<1>7. CASE n = 2
  BY <1>2, <1>7, SMT DEF SameBits
<1>8. CASE n = 3
  BY <1>2, <1>8, SMT DEF SameBits
<1>9. CASE n = 4
  BY <1>2, <1>9, SMT DEF SameBits
<1>10. CASE n = 5
  BY <1>2, <1>10, SMT DEF SameBits
<1>11. CASE n = 6
  BY <1>2, <1>11, SMT DEF SameBits
<1>12. CASE n = 7
  BY <1>2, <1>12, SMT DEF SameBits
<1>13. QED
  BY <1>3, <1>4, <1>5, <1>6, <1>7, <1>8, <1>9, <1>10, <1>11, <1>12

LEMMA ShiftInZeroes ==
  ASSUME NEW n \in Nat, n > 0, n < 5, NEW b \in Int, NEW x \in Nat, SameBits(n, b, x)
  PROVE  ShiftIn(b, _shift - n, 0) \in Int /\ SameBits(5, ShiftIn(b, _shift - n, 0), x * 2 ^ (5 - n))
<1>1. \A z \in Int : \E q \in Int : Wrap(z) = z + 65536 * q
  BY Wrapped
<1>2. n = 1 \/ n = 2 \/ n = 3 \/ n = 4
  OBVIOUS
<1>3. CASE n = 1
  <2>1. PICK q \in Int : Wrap(b * 16) = b * 16 + 65536 * q
    BY <1>1
  <2>2. ShiftIn(b, _shift - n, 0) = b * 16 + 65536 * q
    BY <1>3, <2>1, SMT DEF ShiftIn, _shift
  <2>3. QED
    BY <1>3, <2>2, SMT DEF SameBits
<1>4. CASE n = 2
  <2>1. PICK q \in Int : Wrap(b * 8) = b * 8 + 65536 * q
    BY <1>1
  <2>2. ShiftIn(b, _shift - n, 0) = b * 8 + 65536 * q
    BY <1>4, <2>1, SMT DEF ShiftIn, _shift
  <2>3. QED
    BY <1>4, <2>2, SMT DEF SameBits
<1>5. CASE n = 3
  <2>1. PICK q \in Int : Wrap(b * 4) = b * 4 + 65536 * q
    BY <1>1
  <2>2. ShiftIn(b, _shift - n, 0) = b * 4 + 65536 * q
    BY <1>5, <2>1, SMT DEF ShiftIn, _shift
  <2>3. QED
    BY <1>5, <2>2, SMT DEF SameBits
<1>6. CASE n = 4
  <2>1. PICK q \in Int : Wrap(b * 2) = b * 2 + 65536 * q
    BY <1>1
  <2>2. ShiftIn(b, _shift - n, 0) = b * 2 + 65536 * q
    BY <1>6, <2>1, SMT DEF ShiftIn, _shift
  <2>3. QED
    BY <1>6, <2>2, SMT DEF SameBits
<1>7. QED
  BY <1>2, <1>3, <1>4, <1>5, <1>6

\* The upper bits of n are taken out of the buffer and the others stay.
LEMMA TakeFive ==
  ASSUME NEW n \in Nat, n >= 5, n <= 12, NEW b \in Int, NEW w \in Nat, SameBits(n, b, w)
  PROVE  /\ (b \div 2 ^ (n - 5)) % 32 = (w \div 2 ^ (n - 5)) % 32
         /\ SameBits(n - 5, b, w)
<1>1. n = 5 \/ n = 6 \/ n = 7 \/ n = 8 \/ n = 9 \/ n = 10 \/ n = 11 \/ n = 12
  OBVIOUS
<1>2. CASE n = 5
  BY <1>2, SMT DEF SameBits
<1>3. CASE n = 6
  BY <1>3, SMT DEF SameBits
<1>4. CASE n = 7
  BY <1>4, SMT DEF SameBits
<1>5. CASE n = 8
  BY <1>5, SMT DEF SameBits
<1>6. CASE n = 9
  BY <1>6, SMT DEF SameBits
<1>7. CASE n = 10
  BY <1>7, SMT DEF SameBits
<1>8. CASE n = 11
  BY <1>8, SMT DEF SameBits
<1>9. CASE n = 12
  BY <1>9, SMT DEF SameBits
<1>10. QED
  BY <1>1, <1>2, <1>3, <1>4, <1>5, <1>6, <1>7, <1>8, <1>9

SameByte(n, b, w) ==
    /\ (b \div 2 ^ (n - 8)) % 256 = (w \div 2 ^ (n - 8)) % 256
    /\ SameBits(n - 8, b, w)

LEMMA TakeEight ==
  ASSUME NEW n \in Nat, n >= 8, n <= 12, NEW b \in Int, NEW w \in Nat, SameBits(n, b, w)
  PROVE  SameByte(n, b, w)
<1>1. n = 8 \/ n = 9 \/ n = 10 \/ n = 11 \/ n = 12
  OBVIOUS
<1>2. CASE n = 8
  BY <1>2, SMT DEF SameByte, SameBits
<1>3. CASE n = 9
  BY <1>3, SMT DEF SameByte, SameBits
<1>4. CASE n = 10
  BY <1>4, SMT DEF SameByte, SameBits
<1>5. CASE n = 11
  BY <1>5, SMT DEF SameByte, SameBits
<1>6. CASE n = 12
  BY <1>6, SMT DEF SameByte, SameBits
<1>7. QED
  BY <1>1, <1>2, <1>3, <1>4, <1>5, <1>6

\* Only the last byte is left when there are no more than eight.
LEMMA LastByte ==
  ASSUME NEW n \in Nat, n <= 8, NEW b \in Int, NEW x \in Nat, NEW y \in Nat,
         SameBits(n, b, x * 256 + y)
  PROVE  SameBits(n, b, y)
<1>1. n = 0 \/ n = 1 \/ n = 2 \/ n = 3 \/ n = 4 \/ n = 5 \/ n = 6 \/ n = 7 \/ n = 8
  OBVIOUS
<1>2. CASE n = 0
  BY <1>2, SMT DEF SameBits
<1>3. CASE n = 1
  BY <1>3, SMT DEF SameBits
<1>4. CASE n = 2
  BY <1>4, SMT DEF SameBits
<1>5. CASE n = 3
  BY <1>5, SMT DEF SameBits
<1>6. CASE n = 4
  BY <1>6, SMT DEF SameBits
<1>7. CASE n = 5
  BY <1>7, SMT DEF SameBits
<1>8. CASE n = 6
  BY <1>8, SMT DEF SameBits
<1>9. CASE n = 7
  BY <1>9, SMT DEF SameBits
<1>10. CASE n = 8
  BY <1>10, SMT DEF SameBits
<1>11. QED
  BY <1>1, <1>2, <1>3, <1>4, <1>5, <1>6, <1>7, <1>8, <1>9, <1>10

-----------------------------------------------------------------------------
(* Groups of five bits. *)

ByteAt(data, n) == IF n <= Len(data) THEN data[n] ELSE 0
Word(data, o) == ByteAt(data, o + 1) * 256 + ByteAt(data, o + 2)

LEMMA ByteAtType ==
  ASSUME NEW data \in Seq(Byte), NEW n \in Nat, n > 0
  PROVE  ByteAt(data, n) \in Nat /\ ByteAt(data, n) < 256
<1>1. CASE n <= Len(data)
  <2>1. data[n] \in Byte
    BY <1>1
  <2>2. QED
    BY <1>1, <2>1 DEF ByteAt, Byte
<1>2. CASE ~(n <= Len(data))
  BY <1>2 DEF ByteAt
<1>3. QED
  BY <1>1, <1>2

LEMMA BitOfByte ==
  ASSUME NEW data \in Seq(Byte), NEW o \in Nat, NEW j \in Nat, j < 8
  PROVE  BitOf(data, 8 * o + j) = (ByteAt(data, o + 1) \div 2 ^ (7 - j)) % 2
<1>1. (8 * o + j) \div 8 = o /\ (8 * o + j) % 8 = j /\ Len(data) \in Nat
  OBVIOUS
<1>2. CASE o + 1 <= Len(data)
  <2>1. ~(8 * o + j >= 8 * Len(data))
    BY <1>1, <1>2
  <2>2. QED
    BY <1>1, <1>2, <2>1 DEF BitOf, ByteAt
<1>3. CASE ~(o + 1 <= Len(data))
  <2>1. 8 * o + j >= 8 * Len(data)
    BY <1>1, <1>3
  <2>2. BitOf(data, 8 * o + j) = 0 /\ ByteAt(data, o + 1) = 0
    BY <1>3, <2>1 DEF BitOf, ByteAt
  <2>3. (0 \div 2 ^ (7 - j)) % 2 = 0
    <3>1. j = 0 \/ j = 1 \/ j = 2 \/ j = 3 \/ j = 4 \/ j = 5 \/ j = 6 \/ j = 7
      OBVIOUS
    <3>2. CASE j = 0
      BY <3>2
    <3>3. CASE j = 1
      BY <3>3
    <3>4. CASE j = 2
      BY <3>4
    <3>5. CASE j = 3
      BY <3>5
    <3>6. CASE j = 4
      BY <3>6
    <3>7. CASE j = 5
      BY <3>7
    <3>8. CASE j = 6
      BY <3>8
    <3>9. CASE j = 7
      BY <3>9
    <3>10. QED
      BY <3>1, <3>2, <3>3, <3>4, <3>5, <3>6, <3>7, <3>8, <3>9
  <2>4. QED
    BY <2>2, <2>3
<1>4. QED
  BY <1>2, <1>3

LEMMA BitsOfByte ==
  ASSUME NEW data \in Seq(Byte), NEW o \in Nat, NEW k \in Nat
  PROVE  /\ k = 8 * o => BitOf(data, k) = (ByteAt(data, o + 1) \div 128) % 2
         /\ k = 8 * o + 1 => BitOf(data, k) = (ByteAt(data, o + 1) \div 64) % 2
         /\ k = 8 * o + 2 => BitOf(data, k) = (ByteAt(data, o + 1) \div 32) % 2
         /\ k = 8 * o + 3 => BitOf(data, k) = (ByteAt(data, o + 1) \div 16) % 2
         /\ k = 8 * o + 4 => BitOf(data, k) = (ByteAt(data, o + 1) \div 8) % 2
         /\ k = 8 * o + 5 => BitOf(data, k) = (ByteAt(data, o + 1) \div 4) % 2
         /\ k = 8 * o + 6 => BitOf(data, k) = (ByteAt(data, o + 1) \div 2) % 2
         /\ k = 8 * o + 7 => BitOf(data, k) = ByteAt(data, o + 1) % 2
<1>1. \A j \in Nat : j < 8 => BitOf(data, 8 * o + j) = (ByteAt(data, o + 1) \div 2 ^ (7 - j)) % 2
  BY BitOfByte
<1> DEFINE j == k - 8 * o
<1>2. k = 8 * o + j /\ j \in Int
  OBVIOUS
<1>3. ByteAt(data, o + 1) \in Nat
  BY ByteAtType
<1> HIDE DEF j
<1>4. j \in Nat /\ j < 8 => BitOf(data, 8 * o + j) = (ByteAt(data, o + 1) \div 2 ^ (7 - j)) % 2
  BY <1>1
<1>5. CASE j = 0
  <2>1. BitOf(data, k) = (ByteAt(data, o + 1) \div 2 ^ (7 - j)) % 2
    BY <1>2, <1>4, <1>5
  <2>2. QED
    BY <1>2, <1>3, <1>5, <2>1
<1>6. CASE j = 1
  <2>1. BitOf(data, k) = (ByteAt(data, o + 1) \div 2 ^ (7 - j)) % 2
    BY <1>2, <1>4, <1>6
  <2>2. QED
    BY <1>2, <1>3, <1>6, <2>1
<1>7. CASE j = 2
  <2>1. BitOf(data, k) = (ByteAt(data, o + 1) \div 2 ^ (7 - j)) % 2
    BY <1>2, <1>4, <1>7
  <2>2. QED
    BY <1>2, <1>3, <1>7, <2>1
<1>8. CASE j = 3
  <2>1. BitOf(data, k) = (ByteAt(data, o + 1) \div 2 ^ (7 - j)) % 2
    BY <1>2, <1>4, <1>8
  <2>2. QED
    BY <1>2, <1>3, <1>8, <2>1
<1>9. CASE j = 4
  <2>1. BitOf(data, k) = (ByteAt(data, o + 1) \div 2 ^ (7 - j)) % 2
    BY <1>2, <1>4, <1>9
  <2>2. QED
    BY <1>2, <1>3, <1>9, <2>1
<1>10. CASE j = 5
  <2>1. BitOf(data, k) = (ByteAt(data, o + 1) \div 2 ^ (7 - j)) % 2
    BY <1>2, <1>4, <1>10
  <2>2. QED
    BY <1>2, <1>3, <1>10, <2>1
<1>11. CASE j = 6
  <2>1. BitOf(data, k) = (ByteAt(data, o + 1) \div 2 ^ (7 - j)) % 2
    BY <1>2, <1>4, <1>11
  <2>2. QED
    BY <1>2, <1>3, <1>11, <2>1
<1>12. CASE j = 7
  <2>1. BitOf(data, k) = (ByteAt(data, o + 1) \div 2 ^ (7 - j)) % 2
    BY <1>2, <1>4, <1>12
  <2>2. QED
    BY <1>2, <1>3, <1>12, <2>1
<1>13. CASE ~(j \in Nat /\ j < 8)
  BY <1>2, <1>13
<1>14. QED
  <2>1. j \in Nat /\ j < 8 => j = 0 \/ j = 1 \/ j = 2 \/ j = 3 \/ j = 4 \/ j = 5 \/ j = 6 \/ j = 7
    BY <1>2
  <2>2. QED
    BY <2>1, <1>5, <1>6, <1>7, <1>8, <1>9, <1>10, <1>11, <1>12, <1>13

LEMMA FiveBits ==
  \A u \in Nat : 16 * ((u \div 16) % 2) + 8 * ((u \div 8) % 2) + 4 * ((u \div 4) % 2)
                    + 2 * ((u \div 2) % 2) + (u % 2) = u % 32
BY SMT

\* Group n is in the word of the byte it begins in, at bit p, and the next one.
InWord(data, n, o, p) == Group(data, n) = (Word(data, o) \div 2 ^ (11 - p)) % 32

LEMMA GroupInWord ==
  ASSUME NEW data \in Seq(Byte), NEW n \in Nat, NEW o \in Nat, NEW p \in Nat, p < 8,
         5 * n = 8 * o + p
  PROVE  InWord(data, n, o, p)
<1> USE DEF InWord
<1> DEFINE x == ByteAt(data, o + 1)
           o1 == o + 1
           y == ByteAt(data, o1 + 1)
<1>1. x \in Nat /\ y \in Nat /\ x < 256 /\ y < 256 /\ Word(data, o) = x * 256 + y
  <2>1. o1 + 1 = o + 2
    OBVIOUS
  <2>2. QED
    BY <2>1, ByteAtType DEF Word
<1>2. o1 = o + 1 /\ o1 \in Nat
  OBVIOUS
<1> HIDE DEF o1
<1> DEFINE X(k) == /\ k = 8 * o => BitOf(data, k) = (x \div 128) % 2
                   /\ k = 8 * o + 1 => BitOf(data, k) = (x \div 64) % 2
                   /\ k = 8 * o + 2 => BitOf(data, k) = (x \div 32) % 2
                   /\ k = 8 * o + 3 => BitOf(data, k) = (x \div 16) % 2
                   /\ k = 8 * o + 4 => BitOf(data, k) = (x \div 8) % 2
                   /\ k = 8 * o + 5 => BitOf(data, k) = (x \div 4) % 2
                   /\ k = 8 * o + 6 => BitOf(data, k) = (x \div 2) % 2
                   /\ k = 8 * o + 7 => BitOf(data, k) = x % 2
           Y(k) == /\ k = 8 * o1 => BitOf(data, k) = (y \div 128) % 2
                   /\ k = 8 * o1 + 1 => BitOf(data, k) = (y \div 64) % 2
                   /\ k = 8 * o1 + 2 => BitOf(data, k) = (y \div 32) % 2
                   /\ k = 8 * o1 + 3 => BitOf(data, k) = (y \div 16) % 2
                   /\ k = 8 * o1 + 4 => BitOf(data, k) = (y \div 8) % 2
                   /\ k = 8 * o1 + 5 => BitOf(data, k) = (y \div 4) % 2
                   /\ k = 8 * o1 + 6 => BitOf(data, k) = (y \div 2) % 2
                   /\ k = 8 * o1 + 7 => BitOf(data, k) = y % 2
<1>3. \A k \in Nat : X(k)
  BY BitsOfByte
<1>4. \A k \in Nat : Y(k)
  BY <1>2, BitsOfByte
<1> DEFINE k0 == 5 * n
           k1 == 5 * n + 1
           k2 == 5 * n + 2
           k3 == 5 * n + 3
           k4 == 5 * n + 4
<1>5. /\ k0 \in Nat /\ k1 \in Nat /\ k2 \in Nat /\ k3 \in Nat /\ k4 \in Nat
      /\ k0 = 8 * o + p /\ k1 = k0 + 1 /\ k2 = k0 + 2 /\ k3 = k0 + 3 /\ k4 = k0 + 4
  OBVIOUS
<1>6. /\ X(k0) /\ X(k1) /\ X(k2) /\ X(k3) /\ X(k4)
      /\ Y(k0) /\ Y(k1) /\ Y(k2) /\ Y(k3) /\ Y(k4)
  <2> HIDE DEF X, Y, k0, k1, k2, k3, k4
  <2>1. QED
    BY <1>3, <1>4, <1>5
<1>7. Group(data, n) = 16 * BitOf(data, k0) + 8 * BitOf(data, k1) + 4 * BitOf(data, k2)
                       + 2 * BitOf(data, k3) + BitOf(data, k4)
  <2>1. 5 * n + 0 = 5 * n
    OBVIOUS
  <2>2. QED
    BY <2>1 DEF Group
<1> HIDE DEF x, y, k0, k1, k2, k3, k4
<1>8. p = 0 \/ p = 1 \/ p = 2 \/ p = 3 \/ p = 4 \/ p = 5 \/ p = 6 \/ p = 7
  OBVIOUS
<1>9. CASE p = 0
  <2>1. /\ BitOf(data, k0) = (x \div 128) % 2
        /\ BitOf(data, k1) = (x \div 64) % 2
        /\ BitOf(data, k2) = (x \div 32) % 2
        /\ BitOf(data, k3) = (x \div 16) % 2
        /\ BitOf(data, k4) = (x \div 8) % 2
    BY <1>2, <1>5, <1>6, <1>9
  <2> DEFINE u == (x * 256 + y) \div 2048
  <2>2. u \in Nat /\ u = x \div 8
    BY <1>1, SMT
  <2> HIDE DEF u
  <2>3. /\ (u \div 16) % 2 = (x \div 128) % 2
        /\ (u \div 8) % 2 = (x \div 64) % 2
        /\ (u \div 4) % 2 = (x \div 32) % 2
        /\ (u \div 2) % 2 = (x \div 16) % 2
        /\ u % 2 = (x \div 8) % 2
    <3>1. (u \div 16) % 2 = (x \div 128) % 2
      BY <1>1, <2>2, SMT
    <3>2. (u \div 8) % 2 = (x \div 64) % 2
      BY <1>1, <2>2, SMT
    <3>3. (u \div 4) % 2 = (x \div 32) % 2
      BY <1>1, <2>2, SMT
    <3>4. (u \div 2) % 2 = (x \div 16) % 2
      BY <1>1, <2>2, SMT
    <3>5. u % 2 = (x \div 8) % 2
      BY <1>1, <2>2, SMT
    <3>6. QED
      BY <3>1, <3>2, <3>3, <3>4, <3>5
  <2>4. /\ BitOf(data, k0) = (u \div 16) % 2
        /\ BitOf(data, k1) = (u \div 8) % 2
        /\ BitOf(data, k2) = (u \div 4) % 2
        /\ BitOf(data, k3) = (u \div 2) % 2
        /\ BitOf(data, k4) = u % 2
    BY <2>1, <2>3
  <2>5. 16 * ((u \div 16) % 2) + 8 * ((u \div 8) % 2) + 4 * ((u \div 4) % 2) + 2 * ((u \div 2) % 2) + (u % 2) = u % 32
    BY <2>2, FiveBits
  <2>6. Group(data, n) = u % 32
    BY <1>7, <2>4, <2>5
  <2>7. QED
    BY <1>1, <1>9, <2>6 DEF u
<1>10. CASE p = 1
  <2>1. /\ BitOf(data, k0) = (x \div 64) % 2
        /\ BitOf(data, k1) = (x \div 32) % 2
        /\ BitOf(data, k2) = (x \div 16) % 2
        /\ BitOf(data, k3) = (x \div 8) % 2
        /\ BitOf(data, k4) = (x \div 4) % 2
    BY <1>2, <1>5, <1>6, <1>10
  <2> DEFINE u == (x * 256 + y) \div 1024
  <2>2. u \in Nat /\ u = x \div 4
    BY <1>1, SMT
  <2> HIDE DEF u
  <2>3. /\ (u \div 16) % 2 = (x \div 64) % 2
        /\ (u \div 8) % 2 = (x \div 32) % 2
        /\ (u \div 4) % 2 = (x \div 16) % 2
        /\ (u \div 2) % 2 = (x \div 8) % 2
        /\ u % 2 = (x \div 4) % 2
    <3>1. (u \div 16) % 2 = (x \div 64) % 2
      BY <1>1, <2>2, SMT
    <3>2. (u \div 8) % 2 = (x \div 32) % 2
      BY <1>1, <2>2, SMT
    <3>3. (u \div 4) % 2 = (x \div 16) % 2
      BY <1>1, <2>2, SMT
    <3>4. (u \div 2) % 2 = (x \div 8) % 2
      BY <1>1, <2>2, SMT
    <3>5. u % 2 = (x \div 4) % 2
      BY <1>1, <2>2, SMT
    <3>6. QED
      BY <3>1, <3>2, <3>3, <3>4, <3>5
  <2>4. /\ BitOf(data, k0) = (u \div 16) % 2
        /\ BitOf(data, k1) = (u \div 8) % 2
        /\ BitOf(data, k2) = (u \div 4) % 2
        /\ BitOf(data, k3) = (u \div 2) % 2
        /\ BitOf(data, k4) = u % 2
    BY <2>1, <2>3
  <2>5. 16 * ((u \div 16) % 2) + 8 * ((u \div 8) % 2) + 4 * ((u \div 4) % 2) + 2 * ((u \div 2) % 2) + (u % 2) = u % 32
    BY <2>2, FiveBits
  <2>6. Group(data, n) = u % 32
    BY <1>7, <2>4, <2>5
  <2>7. QED
    BY <1>1, <1>10, <2>6 DEF u
<1>11. CASE p = 2
  <2>1. /\ BitOf(data, k0) = (x \div 32) % 2
        /\ BitOf(data, k1) = (x \div 16) % 2
        /\ BitOf(data, k2) = (x \div 8) % 2
        /\ BitOf(data, k3) = (x \div 4) % 2
        /\ BitOf(data, k4) = (x \div 2) % 2
    BY <1>2, <1>5, <1>6, <1>11
  <2> DEFINE u == (x * 256 + y) \div 512
  <2>2. u \in Nat /\ u = x \div 2
    BY <1>1, SMT
  <2> HIDE DEF u
  <2>3. /\ (u \div 16) % 2 = (x \div 32) % 2
        /\ (u \div 8) % 2 = (x \div 16) % 2
        /\ (u \div 4) % 2 = (x \div 8) % 2
        /\ (u \div 2) % 2 = (x \div 4) % 2
        /\ u % 2 = (x \div 2) % 2
    <3>1. (u \div 16) % 2 = (x \div 32) % 2
      BY <1>1, <2>2, SMT
    <3>2. (u \div 8) % 2 = (x \div 16) % 2
      BY <1>1, <2>2, SMT
    <3>3. (u \div 4) % 2 = (x \div 8) % 2
      BY <1>1, <2>2, SMT
    <3>4. (u \div 2) % 2 = (x \div 4) % 2
      BY <1>1, <2>2, SMT
    <3>5. u % 2 = (x \div 2) % 2
      BY <1>1, <2>2, SMT
    <3>6. QED
      BY <3>1, <3>2, <3>3, <3>4, <3>5
  <2>4. /\ BitOf(data, k0) = (u \div 16) % 2
        /\ BitOf(data, k1) = (u \div 8) % 2
        /\ BitOf(data, k2) = (u \div 4) % 2
        /\ BitOf(data, k3) = (u \div 2) % 2
        /\ BitOf(data, k4) = u % 2
    BY <2>1, <2>3
  <2>5. 16 * ((u \div 16) % 2) + 8 * ((u \div 8) % 2) + 4 * ((u \div 4) % 2) + 2 * ((u \div 2) % 2) + (u % 2) = u % 32
    BY <2>2, FiveBits
  <2>6. Group(data, n) = u % 32
    BY <1>7, <2>4, <2>5
  <2>7. QED
    BY <1>1, <1>11, <2>6 DEF u
<1>12. CASE p = 3
  <2>1. /\ BitOf(data, k0) = (x \div 16) % 2
        /\ BitOf(data, k1) = (x \div 8) % 2
        /\ BitOf(data, k2) = (x \div 4) % 2
        /\ BitOf(data, k3) = (x \div 2) % 2
        /\ BitOf(data, k4) = x % 2
    BY <1>2, <1>5, <1>6, <1>12
  <2> DEFINE u == (x * 256 + y) \div 256
  <2>2. u \in Nat /\ u = x
    BY <1>1, SMT
  <2> HIDE DEF u
  <2>3. /\ (u \div 16) % 2 = (x \div 16) % 2
        /\ (u \div 8) % 2 = (x \div 8) % 2
        /\ (u \div 4) % 2 = (x \div 4) % 2
        /\ (u \div 2) % 2 = (x \div 2) % 2
        /\ u % 2 = x % 2
    <3>1. (u \div 16) % 2 = (x \div 16) % 2
      BY <1>1, <2>2, SMT
    <3>2. (u \div 8) % 2 = (x \div 8) % 2
      BY <1>1, <2>2, SMT
    <3>3. (u \div 4) % 2 = (x \div 4) % 2
      BY <1>1, <2>2, SMT
    <3>4. (u \div 2) % 2 = (x \div 2) % 2
      BY <1>1, <2>2, SMT
    <3>5. u % 2 = x % 2
      BY <1>1, <2>2, SMT
    <3>6. QED
      BY <3>1, <3>2, <3>3, <3>4, <3>5
  <2>4. /\ BitOf(data, k0) = (u \div 16) % 2
        /\ BitOf(data, k1) = (u \div 8) % 2
        /\ BitOf(data, k2) = (u \div 4) % 2
        /\ BitOf(data, k3) = (u \div 2) % 2
        /\ BitOf(data, k4) = u % 2
    BY <2>1, <2>3
  <2>5. 16 * ((u \div 16) % 2) + 8 * ((u \div 8) % 2) + 4 * ((u \div 4) % 2) + 2 * ((u \div 2) % 2) + (u % 2) = u % 32
    BY <2>2, FiveBits
  <2>6. Group(data, n) = u % 32
    BY <1>7, <2>4, <2>5
  <2>7. QED
    BY <1>1, <1>12, <2>6 DEF u
<1>13. CASE p = 4
  <2>1. /\ BitOf(data, k0) = (x \div 8) % 2
        /\ BitOf(data, k1) = (x \div 4) % 2
        /\ BitOf(data, k2) = (x \div 2) % 2
        /\ BitOf(data, k3) = x % 2
        /\ BitOf(data, k4) = (y \div 128) % 2
    BY <1>2, <1>5, <1>6, <1>13
  <2> DEFINE u == (x * 256 + y) \div 128
  <2>2. u \in Nat /\ u = x * 2 + (y \div 128)
    BY <1>1, SMT
  <2> HIDE DEF u
  <2>3. /\ (u \div 16) % 2 = (x \div 8) % 2
        /\ (u \div 8) % 2 = (x \div 4) % 2
        /\ (u \div 4) % 2 = (x \div 2) % 2
        /\ (u \div 2) % 2 = x % 2
        /\ u % 2 = (y \div 128) % 2
    <3>1. (u \div 16) % 2 = (x \div 8) % 2
      BY <1>1, <2>2, SMT
    <3>2. (u \div 8) % 2 = (x \div 4) % 2
      BY <1>1, <2>2, SMT
    <3>3. (u \div 4) % 2 = (x \div 2) % 2
      BY <1>1, <2>2, SMT
    <3>4. (u \div 2) % 2 = x % 2
      BY <1>1, <2>2, SMT
    <3>5. u % 2 = (y \div 128) % 2
      BY <1>1, <2>2, SMT
    <3>6. QED
      BY <3>1, <3>2, <3>3, <3>4, <3>5
  <2>4. /\ BitOf(data, k0) = (u \div 16) % 2
        /\ BitOf(data, k1) = (u \div 8) % 2
        /\ BitOf(data, k2) = (u \div 4) % 2
        /\ BitOf(data, k3) = (u \div 2) % 2
        /\ BitOf(data, k4) = u % 2
    BY <2>1, <2>3
  <2>5. 16 * ((u \div 16) % 2) + 8 * ((u \div 8) % 2) + 4 * ((u \div 4) % 2) + 2 * ((u \div 2) % 2) + (u % 2) = u % 32
    BY <2>2, FiveBits
  <2>6. Group(data, n) = u % 32
    BY <1>7, <2>4, <2>5
  <2>7. QED
    BY <1>1, <1>13, <2>6 DEF u
<1>14. CASE p = 5
  <2>1. /\ BitOf(data, k0) = (x \div 4) % 2
        /\ BitOf(data, k1) = (x \div 2) % 2
        /\ BitOf(data, k2) = x % 2
        /\ BitOf(data, k3) = (y \div 128) % 2
        /\ BitOf(data, k4) = (y \div 64) % 2
    BY <1>2, <1>5, <1>6, <1>14
  <2> DEFINE u == (x * 256 + y) \div 64
  <2>2. u \in Nat /\ u = x * 4 + (y \div 64)
    BY <1>1, SMT
  <2> HIDE DEF u
  <2>3. /\ (u \div 16) % 2 = (x \div 4) % 2
        /\ (u \div 8) % 2 = (x \div 2) % 2
        /\ (u \div 4) % 2 = x % 2
        /\ (u \div 2) % 2 = (y \div 128) % 2
        /\ u % 2 = (y \div 64) % 2
    <3>1. (u \div 16) % 2 = (x \div 4) % 2
      BY <1>1, <2>2, SMT
    <3>2. (u \div 8) % 2 = (x \div 2) % 2
      BY <1>1, <2>2, SMT
    <3>3. (u \div 4) % 2 = x % 2
      BY <1>1, <2>2, SMT
    <3>4. (u \div 2) % 2 = (y \div 128) % 2
      BY <1>1, <2>2, SMT
    <3>5. u % 2 = (y \div 64) % 2
      BY <1>1, <2>2, SMT
    <3>6. QED
      BY <3>1, <3>2, <3>3, <3>4, <3>5
  <2>4. /\ BitOf(data, k0) = (u \div 16) % 2
        /\ BitOf(data, k1) = (u \div 8) % 2
        /\ BitOf(data, k2) = (u \div 4) % 2
        /\ BitOf(data, k3) = (u \div 2) % 2
        /\ BitOf(data, k4) = u % 2
    BY <2>1, <2>3
  <2>5. 16 * ((u \div 16) % 2) + 8 * ((u \div 8) % 2) + 4 * ((u \div 4) % 2) + 2 * ((u \div 2) % 2) + (u % 2) = u % 32
    BY <2>2, FiveBits
  <2>6. Group(data, n) = u % 32
    BY <1>7, <2>4, <2>5
  <2>7. QED
    BY <1>1, <1>14, <2>6 DEF u
<1>15. CASE p = 6
  <2>1. /\ BitOf(data, k0) = (x \div 2) % 2
        /\ BitOf(data, k1) = x % 2
        /\ BitOf(data, k2) = (y \div 128) % 2
        /\ BitOf(data, k3) = (y \div 64) % 2
        /\ BitOf(data, k4) = (y \div 32) % 2
    BY <1>2, <1>5, <1>6, <1>15
  <2> DEFINE u == (x * 256 + y) \div 32
  <2>2. u \in Nat /\ u = x * 8 + (y \div 32)
    BY <1>1, SMT
  <2> HIDE DEF u
  <2>3. /\ (u \div 16) % 2 = (x \div 2) % 2
        /\ (u \div 8) % 2 = x % 2
        /\ (u \div 4) % 2 = (y \div 128) % 2
        /\ (u \div 2) % 2 = (y \div 64) % 2
        /\ u % 2 = (y \div 32) % 2
    <3>1. (u \div 16) % 2 = (x \div 2) % 2
      BY <1>1, <2>2, SMT
    <3>2. (u \div 8) % 2 = x % 2
      BY <1>1, <2>2, SMT
    <3>3. (u \div 4) % 2 = (y \div 128) % 2
      BY <1>1, <2>2, SMT
    <3>4. (u \div 2) % 2 = (y \div 64) % 2
      BY <1>1, <2>2, SMT
    <3>5. u % 2 = (y \div 32) % 2
      BY <1>1, <2>2, SMT
    <3>6. QED
      BY <3>1, <3>2, <3>3, <3>4, <3>5
  <2>4. /\ BitOf(data, k0) = (u \div 16) % 2
        /\ BitOf(data, k1) = (u \div 8) % 2
        /\ BitOf(data, k2) = (u \div 4) % 2
        /\ BitOf(data, k3) = (u \div 2) % 2
        /\ BitOf(data, k4) = u % 2
    BY <2>1, <2>3
  <2>5. 16 * ((u \div 16) % 2) + 8 * ((u \div 8) % 2) + 4 * ((u \div 4) % 2) + 2 * ((u \div 2) % 2) + (u % 2) = u % 32
    BY <2>2, FiveBits
  <2>6. Group(data, n) = u % 32
    BY <1>7, <2>4, <2>5
  <2>7. QED
    BY <1>1, <1>15, <2>6 DEF u
<1>16. CASE p = 7
  <2>1. /\ BitOf(data, k0) = x % 2
        /\ BitOf(data, k1) = (y \div 128) % 2
        /\ BitOf(data, k2) = (y \div 64) % 2
        /\ BitOf(data, k3) = (y \div 32) % 2
        /\ BitOf(data, k4) = (y \div 16) % 2
    BY <1>2, <1>5, <1>6, <1>16
  <2> DEFINE u == (x * 256 + y) \div 16
  <2>2. u \in Nat /\ u = x * 16 + (y \div 16)
    BY <1>1, SMT
  <2> HIDE DEF u
  <2>3. /\ (u \div 16) % 2 = x % 2
        /\ (u \div 8) % 2 = (y \div 128) % 2
        /\ (u \div 4) % 2 = (y \div 64) % 2
        /\ (u \div 2) % 2 = (y \div 32) % 2
        /\ u % 2 = (y \div 16) % 2
    <3>1. (u \div 16) % 2 = x % 2
      BY <1>1, <2>2, SMT
    <3>2. (u \div 8) % 2 = (y \div 128) % 2
      BY <1>1, <2>2, SMT
    <3>3. (u \div 4) % 2 = (y \div 64) % 2
      BY <1>1, <2>2, SMT
    <3>4. (u \div 2) % 2 = (y \div 32) % 2
      BY <1>1, <2>2, SMT
    <3>5. u % 2 = (y \div 16) % 2
      BY <1>1, <2>2, SMT
    <3>6. QED
      BY <3>1, <3>2, <3>3, <3>4, <3>5
  <2>4. /\ BitOf(data, k0) = (u \div 16) % 2
        /\ BitOf(data, k1) = (u \div 8) % 2
        /\ BitOf(data, k2) = (u \div 4) % 2
        /\ BitOf(data, k3) = (u \div 2) % 2
        /\ BitOf(data, k4) = u % 2
    BY <2>1, <2>3
  <2>5. 16 * ((u \div 16) % 2) + 8 * ((u \div 8) % 2) + 4 * ((u \div 4) % 2) + 2 * ((u \div 2) % 2) + (u % 2) = u % 32
    BY <2>2, FiveBits
  <2>6. Group(data, n) = u % 32
    BY <1>7, <2>4, <2>5
  <2>7. QED
    BY <1>1, <1>16, <2>6 DEF u
<1>17. QED
  BY <1>8, <1>9, <1>10, <1>11, <1>12, <1>13, <1>14, <1>15, <1>16

-----------------------------------------------------------------------------
(* What ToBase32 writes. *)

EncodeSteps == INSTANCE FoldProofs WITH Op <- EncodeTurn

\* The bits that were left of a byte, alone or before those of the next one.
UpperLeft(n, x, y) ==
    ((x * 256 + y) \div 2 ^ (11 - (8 - n))) % 32 = (x \div 2 ^ (n - 5)) % 32

LEMMA UpperFive ==
  ASSUME NEW n \in Nat, n >= 5, n <= 8, NEW x \in Nat, NEW y \in Byte
  PROVE  UpperLeft(n, x, y)
<1>1. (n = 5 \/ n = 6 \/ n = 7 \/ n = 8) /\ y \in Nat /\ y < 256
  BY DEF Byte
<1> DEFINE z == x * 256 + y
<1>2. /\ z \div 256 = x /\ z \div 512 = x \div 2
      /\ z \div 1024 = x \div 4 /\ z \div 2048 = x \div 8
  <2>1. z \div 256 = x
    BY <1>1, SMT
  <2>2. z \div 512 = x \div 2
    BY <1>1, SMT
  <2>3. z \div 1024 = x \div 4
    BY <1>1, SMT
  <2>4. z \div 2048 = x \div 8
    BY <1>1, SMT
  <2>5. QED
    BY <2>1, <2>2, <2>3, <2>4
<1> HIDE DEF z
<1>3. CASE n = 5
  BY <1>3, <1>2, SMT DEF z, UpperLeft
<1>4. CASE n = 6
  BY <1>4, <1>2, SMT DEF z, UpperLeft
<1>5. CASE n = 7
  BY <1>5, <1>2, SMT DEF z, UpperLeft
<1>6. CASE n = 8
  BY <1>6, <1>2, SMT DEF z, UpperLeft
<1>7. QED
  BY <1>1, <1>3, <1>4, <1>5, <1>6

\* The upper bits of y, before a byte and behind one.
UpperBits(x, y, z) == ((x * 256 + y) \div 8) % 32 = ((y * 256 + z) \div 2048) % 32

LEMMA WholeByte ==
  ASSUME NEW x \in Nat, NEW y \in Nat, y < 256, NEW z \in Nat, z < 256
  PROVE  UpperBits(x, y, z)
<1>1. (x * 256 + y) \div 8 = x * 32 + (y \div 8)
  BY SMT
<1>2. (y * 256 + z) \div 2048 = y \div 8
  BY SMT
<1>3. y \div 8 \in Nat
  BY SMT
<1>4. (x * 32 + (y \div 8)) % 32 = (y \div 8) % 32
  BY <1>3, SMT
<1>5. QED
  BY <1>1, <1>2, <1>4 DEF UpperBits

LEMMA FilledUp ==
  ASSUME NEW n \in Nat, n > 0, n < 5, NEW x \in Nat
  PROVE  /\ x * 2 ^ (5 - n) \in Nat
         /\ ((x * 256) \div 2 ^ (11 - (8 - n))) % 32 = (x * 2 ^ (5 - n)) % 32
<1>1. n = 1 \/ n = 2 \/ n = 3 \/ n = 4
  OBVIOUS
<1>2. CASE n = 1
  BY <1>2, SMT
<1>3. CASE n = 2
  BY <1>3, SMT
<1>4. CASE n = 3
  BY <1>4, SMT
<1>5. CASE n = 4
  BY <1>5, SMT
<1>6. QED
  BY <1>1, <1>2, <1>3, <1>4, <1>5

State(data, b, n, o, r) ==
    [data |-> data, buffer |-> b, bitsLeft |-> n, offset |-> o, result |-> r]

EncodeType(data) ==
    [data : {data}, buffer : Int, bitsLeft : Nat, offset : Nat, result : Seq(Nat)]

\* A turn takes the upper five bits of what Refill leaves, which is f.
Taken(data, m, f, w, e) ==
    LET g == (w \div 2 ^ (f.bitsLeft - 5)) % 32
    IN  /\ g \in Nat
        /\ EncodeTurn(m, e) = [data |-> data, buffer |-> f.buffer, bitsLeft |-> f.bitsLeft - 5,
                               offset |-> f.offset, result |-> Append(f.result, g)]
        /\ SameBits(f.bitsLeft - 5, f.buffer, w)

LEMMA TurnTakes ==
  ASSUME NEW data \in Seq(Byte), NEW m \in EncodeType(data),
         m.bitsLeft > 0 \/ m.offset < Len(m.data),
         NEW f \in EncodeType(data), Refill(m) = f, f.bitsLeft >= 5, f.bitsLeft <= 12,
         NEW w \in Nat, SameBits(f.bitsLeft, f.buffer, w), NEW e
  PROVE  Taken(data, m, f, w, e)
<1> DEFINE b == f.bitsLeft
           d == 2 ^ (b - 5)
           g == (w \div d) % 32
<1>1. b \in Nat /\ b >= 5 /\ b <= 12 /\ f.buffer \in Int /\ f.result \in Seq(Nat) /\ f.data = data
  BY DEF EncodeType
<1>2. (f.buffer \div d) % 32 = g /\ SameBits(b - 5, f.buffer, w)
  <2> HIDE DEF b
  <2>1. b \in Nat /\ b >= 5 /\ b <= 12 /\ SameBits(b, f.buffer, w)
    BY <1>1 DEF b
  <2>2. QED
    BY <1>1, <2>1, TakeFive
<1>3. d \in Nat /\ d > 0
  <2> HIDE DEF b
  <2>1. b = 5 \/ b = 6 \/ b = 7 \/ b = 8 \/ b = 9 \/ b = 10 \/ b = 11 \/ b = 12
    BY <1>1
  <2>2. CASE b = 5
    BY <2>2
  <2>3. CASE b = 6
    BY <2>3
  <2>4. CASE b = 7
    BY <2>4
  <2>5. CASE b = 8
    BY <2>5
  <2>6. CASE b = 9
    BY <2>6
  <2>7. CASE b = 10
    BY <2>7
  <2>8. CASE b = 11
    BY <2>8
  <2>9. CASE b = 12
    BY <2>9
  <2>10. QED
    BY <2>1, <2>2, <2>3, <2>4, <2>5, <2>6, <2>7, <2>8, <2>9
<1>4. EncodeTurn(m, e) = [f EXCEPT !.bitsLeft = b - 5, !.result = Append(f.result, (f.buffer \div d) % 32)]
  BY DEF EncodeTurn, _shift
<1> HIDE DEF d
<1>5. g \in Nat
  <2>1. w \div d \in Nat
    BY <1>3
  <2>2. QED
    BY <2>1
<1> HIDE DEF b, g
<1>7. EncodeTurn(m, e) = [data |-> data, buffer |-> f.buffer, bitsLeft |-> b - 5,
                          offset |-> f.offset, result |-> Append(f.result, g)]
  <2> DEFINE longer == Append(f.result, g)
             less == b - 5
  <2>1. EncodeTurn(m, e) = [f EXCEPT !.bitsLeft = less, !.result = longer]
    BY <1>2, <1>4
  <2> HIDE DEF longer, less
  <2>2. \E x, y, z, v : f = [data |-> data, buffer |-> x, bitsLeft |-> y, offset |-> z, result |-> v]
    BY DEF EncodeType
  <2>3. PICK x, y, z, v :
            f = [data |-> data, buffer |-> x, bitsLeft |-> y, offset |-> z, result |-> v]
    BY <2>2
  <2>4. [f EXCEPT !.bitsLeft = less, !.result = longer]
          = [data |-> data, buffer |-> x, bitsLeft |-> less, offset |-> z, result |-> longer]
    <3> DEFINE h == [f EXCEPT !.bitsLeft = less]
    <3>1. [f EXCEPT !.bitsLeft = less, !.result = longer] = [h EXCEPT !.result = longer]
      OBVIOUS
    <3>2. h = [data |-> data, buffer |-> x, bitsLeft |-> less, offset |-> z, result |-> v]
      BY <2>3
    <3> HIDE DEF h
    <3>3. [h EXCEPT !.result = longer]
            = [data |-> data, buffer |-> x, bitsLeft |-> less, offset |-> z, result |-> longer]
      BY <3>2
    <3>4. QED
      BY <3>1, <3>3
  <2>5. f.buffer = x /\ f.offset = z
    BY <2>3
  <2>6. QED
    BY <2>1, <2>4, <2>5 DEF longer, less
<1>8. QED
  BY <1>2, <1>5, <1>7 DEF Taken, b, g, d

\* result holds groups, one after the other.
InGroups(data, result) == \A n \in 1 .. Len(result) : result[n] = Group(data, n - 1)

LEMMA OneGroupMore ==
  ASSUME NEW data, NEW result \in Seq(Nat), InGroups(data, result), NEW g \in Nat,
         g = Group(data, Len(result))
  PROVE  /\ Append(result, g) \in Seq(Nat) /\ Len(Append(result, g)) = Len(result) + 1
         /\ InGroups(data, Append(result, g))
<1> DEFINE longer == Append(result, g)
           l == Len(result)
<1>1. /\ longer \in Seq(Nat) /\ Len(longer) = l + 1 /\ l \in Nat
      /\ \A n \in 1..l : longer[n] = result[n]
      /\ longer[l + 1] = g
  OBVIOUS
<1> HIDE DEF longer
<1>2. \A n \in 1 .. l + 1 : longer[n] = Group(data, n - 1)
  <2> TAKE n \in 1 .. l + 1
  <2>1. CASE n = l + 1
    <3>1. n - 1 = l
      BY <1>1, <2>1
    <3>2. QED
      BY <1>1, <2>1, <3>1
  <2>2. CASE n # l + 1
    <3>1. n \in 1..l
      BY <1>1, <2>2
    <3>2. QED
      BY <1>1, <3>1 DEF InGroups
  <2>3. QED
    BY <2>1, <2>2
<1>3. QED
  BY <1>1, <1>2 DEF longer, InGroups

\* Refill, of a state given by its fields.
LEMMA RefillCases ==
  ASSUME NEW data \in Seq(Byte), NEW b \in Int, NEW n \in Nat, NEW o \in Nat, NEW r \in Seq(Nat)
  PROVE  /\ n >= 5 => Refill(State(data, b, n, o, r)) = State(data, b, n, o, r)
         /\ n < 5 /\ o < Len(data) =>
               Refill(State(data, b, n, o, r))
                 = State(data, ShiftIn(b, 8, data[o + 1]), n + 8, o + 1, r)
         /\ n < 5 /\ ~(o < Len(data)) =>
               Refill(State(data, b, n, o, r)) = State(data, ShiftIn(b, _shift - n, 0), 5, o, r)
<1> USE DEF State
<1> DEFINE m == [data |-> data, buffer |-> b, bitsLeft |-> n, offset |-> o, result |-> r]
<1>1. m.data = data /\ m.buffer = b /\ m.bitsLeft = n /\ m.offset = o
  OBVIOUS
<1>2. CASE n >= 5
  <2>1. m.bitsLeft >= _shift
    BY <1>2 DEF _shift
  <2> HIDE DEF m
  <2>2. Refill(m) = m
    BY <1>1, <1>2, <2>1 DEF Refill, _shift
  <2>3. QED
    BY <1>2, <2>2 DEF m
<1>3. CASE n < 5 /\ o < Len(data)
  <2> DEFINE y == ShiftIn(b, 8, data[o + 1])
             k == n + 8
             p == o + 1
             h == [m EXCEPT !.buffer = y]
             l == [h EXCEPT !.bitsLeft = k]
  <2>1. Refill(m) = [m EXCEPT !.buffer = y, !.bitsLeft = k, !.offset = p]
    <3>1. ~(m.bitsLeft >= _shift) /\ m.bitsLeft < _shift /\ m.offset < Len(m.data)
      BY <1>1, <1>3 DEF _shift
    <3>2. Refill(m) = [m EXCEPT !.buffer = ShiftIn(m.buffer, 8, m.data[m.offset + 1]),
                                !.bitsLeft = m.bitsLeft + 8, !.offset = m.offset + 1]
      <4> HIDE DEF m
      <4>1. QED
        BY <3>1 DEF Refill
    <3>3. QED
      BY <3>2
  <2> HIDE DEF y, k, p
  <2>2. [m EXCEPT !.buffer = y, !.bitsLeft = k, !.offset = p] = [l EXCEPT !.offset = p]
    <3> HIDE DEF m
    <3>1. QED
      OBVIOUS
  <2>3. h = [data |-> data, buffer |-> y, bitsLeft |-> n, offset |-> o, result |-> r]
    OBVIOUS
  <2> HIDE DEF h
  <2>4. l = [data |-> data, buffer |-> y, bitsLeft |-> k, offset |-> o, result |-> r]
    BY <2>3
  <2> HIDE DEF l
  <2>5. [l EXCEPT !.offset = p]
          = [data |-> data, buffer |-> y, bitsLeft |-> k, offset |-> p, result |-> r]
    BY <2>4
  <2> HIDE DEF m
  <2>6. Refill(m) = [data |-> data, buffer |-> y, bitsLeft |-> k, offset |-> p, result |-> r]
    BY <2>1, <2>2, <2>5
  <2>7. QED
    BY <1>3, <2>6 DEF m, y, k, p
<1>4. CASE n < 5 /\ ~(o < Len(data))
  <2> DEFINE y == ShiftIn(b, _shift - n, 0)
             h == [m EXCEPT !.buffer = y]
  <2>1. Refill(m) = [m EXCEPT !.buffer = y, !.bitsLeft = 5]
    <3>1. ~(m.bitsLeft >= _shift) /\ ~(m.offset < Len(m.data))
      BY <1>1, <1>4 DEF _shift
    <3>2. Refill(m) = [m EXCEPT !.buffer = ShiftIn(m.buffer, _shift - m.bitsLeft, 0), !.bitsLeft = _shift]
      <4> HIDE DEF m
      <4>1. QED
        BY <3>1 DEF Refill
    <3>3. QED
      BY <3>2 DEF _shift
  <2> HIDE DEF y
  <2>2. [m EXCEPT !.buffer = y, !.bitsLeft = 5] = [h EXCEPT !.bitsLeft = 5]
    <3> HIDE DEF m
    <3>1. QED
      OBVIOUS
  <2>3. h = [data |-> data, buffer |-> y, bitsLeft |-> n, offset |-> o, result |-> r]
    OBVIOUS
  <2> HIDE DEF h
  <2>4. [h EXCEPT !.bitsLeft = 5]
          = [data |-> data, buffer |-> y, bitsLeft |-> 5, offset |-> o, result |-> r]
    BY <2>3
  <2> HIDE DEF m
  <2>5. Refill(m) = [data |-> data, buffer |-> y, bitsLeft |-> 5, offset |-> o, result |-> r]
    BY <2>1, <2>2, <2>4
  <2>6. QED
    BY <1>4, <2>5 DEF m, y
<1>5. QED
  BY <1>2, <1>3, <1>4

\* The states before turn i + 1: the groups of the bits that are no more in the
\* buffer are written, and those in it are the last ones of the byte before
\* offset; or all are written.
Written(data, m) ==
    /\ m.offset > 0 /\ m.offset <= Len(data) /\ m.bitsLeft <= 8
    /\ InGroups(data, m.result)
    /\ SameBits(m.bitsLeft, m.buffer, data[m.offset])
AllWritten(data, m) ==
    /\ m.bitsLeft = 0 /\ m.offset = Len(data)
    /\ 5 * Len(m.result) >= 8 * Len(data) /\ 5 * Len(m.result) <= 8 * Len(data) + 4
EncodeStates(data, i) ==
    {m \in EncodeType(data) :
        /\ Written(data, m)
        /\ \/ 5 * Len(m.result) + m.bitsLeft = 8 * m.offset /\ Len(m.result) = i
           \/ AllWritten(data, m)}

\* A turn with five bits in the buffer.
LEMMA TurnInByte ==
  ASSUME NEW data \in Seq(Byte), NEW i \in Nat, NEW e, NEW m \in EncodeStates(data, i),
         m.bitsLeft >= 5
  PROVE  EncodeTurn(m, e) \in EncodeStates(data, i + 1)
<1> DEFINE b == m.bitsLeft
           n == Len(m.result)
           o == m.offset - 1
           x == data[m.offset]
           g == (x \div 2 ^ (b - 5)) % 32
           r == [data |-> data, buffer |-> m.buffer, bitsLeft |-> b - 5, offset |-> m.offset,
                 result |-> Append(m.result, g)]
<1>1. /\ m \in EncodeType(data) /\ m.data = data /\ b \in Nat /\ m.buffer \in Int /\ m.offset \in Nat
      /\ m.result \in Seq(Nat) /\ n \in Nat /\ Len(data) \in Nat
  BY DEF EncodeStates, EncodeType
<1>2. Written(data, m) /\ b >= 5 /\ b <= 8 /\ m.offset > 0 /\ m.offset <= Len(data)
  BY DEF EncodeStates, Written
<1>3. 5 * n + b = 8 * m.offset /\ n = i
  BY <1>1, <1>2 DEF EncodeStates, AllWritten
<1>4. x \in Nat /\ x < 256 /\ ByteAt(data, o + 1) = x /\ o \in Nat
  <2>1. m.offset \in 1 .. Len(data) /\ o + 1 = m.offset /\ o \in Nat
    BY <1>1, <1>2
  <2>2. x \in Byte
    BY <2>1, ElementOfSeq
  <2>3. QED
    BY <1>2, <2>1, <2>2 DEF ByteAt, Byte
<1>5. g = Group(data, n)
  <2> DEFINE y == ByteAt(data, o + 2)
             p == 8 - b
  <2>1. y \in Nat /\ y < 256
    BY <1>4, ByteAtType
  <2>2. p \in Nat /\ p < 8 /\ 5 * n = 8 * o + p
    <3> HIDE DEF n, b
    <3>1. QED
      BY <1>1, <1>2, <1>3
  <2>3. b \in Nat /\ b >= 5 /\ b <= 8 /\ n \in Nat /\ o \in Nat /\ x \in Nat
    BY <1>1, <1>2, <1>4
  <2> HIDE DEF b, n, o, x, y, p
  <2>4. Group(data, n) = (Word(data, o) \div 2 ^ (11 - p)) % 32
    <3>1. InWord(data, n, o, p)
      BY <2>2, <2>3, GroupInWord
    <3>2. QED
      BY <3>1 DEF InWord
  <2>5. Word(data, o) = x * 256 + y
    BY <1>4 DEF Word, y
  <2>6. UpperLeft(b, x, y)
    <3>1. y \in Byte
      BY <2>1 DEF Byte
    <3>2. QED
      BY <2>3, <3>1, UpperFive
  <2>7. QED
    BY <2>4, <2>5, <2>6 DEF g, p, UpperLeft
<1>6. g \in Nat /\ EncodeTurn(m, e) = r /\ SameBits(b - 5, m.buffer, x)
  <2>1. m.bitsLeft > 0 /\ SameBits(m.bitsLeft, m.buffer, x)
    BY <1>1, <1>2 DEF Written
  <2>2. m = [data |-> data, buffer |-> m.buffer, bitsLeft |-> m.bitsLeft, offset |-> m.offset,
             result |-> m.result]
    BY <1>1 DEF EncodeType
  <2>3. Refill(m) = m
    <3> DEFINE c == m.buffer
               l == m.bitsLeft
               q == m.offset
               s == m.result
    <3>1. m = State(data, c, l, q, s)
      BY <2>2 DEF State
    <3>2. c \in Int /\ l \in Nat /\ q \in Nat /\ s \in Seq(Nat) /\ l >= 5
      BY <1>1, <1>2
    <3> HIDE DEF c, l, q, s
    <3>3. QED
      BY <3>1, <3>2, RefillCases
  <2> HIDE DEF x
  <2>4. /\ g \in Nat /\ SameBits(b - 5, m.buffer, x)
        /\ EncodeTurn(m, e) = [data |-> data, buffer |-> m.buffer, bitsLeft |-> b - 5,
                               offset |-> m.offset, result |-> Append(m.result, g)]
    <3>1. m.bitsLeft >= 5 /\ m.bitsLeft <= 12 /\ x \in Nat
      BY <1>1, <1>2, <1>4
    <3>2. m \in EncodeType(data)
      BY <1>1
    <3>3. SameBits(m.bitsLeft, m.buffer, x) /\ m.bitsLeft > 0
      BY <2>1
    <3>4. Taken(data, m, m, x, e)
      BY <2>3, <3>1, <3>2, <3>3, TurnTakes
    <3>5. QED
      BY <3>4 DEF Taken
  <2>5. QED
    BY <2>4
<1> HIDE DEF g
<1>7. /\ Append(m.result, g) \in Seq(Nat) /\ Len(Append(m.result, g)) = n + 1
      /\ InGroups(data, Append(m.result, g))
  BY <1>1, <1>2, <1>5, <1>6, OneGroupMore DEF Written
<1>8. 5 * (n + 1) + (b - 5) = 8 * m.offset /\ n + 1 = i + 1 /\ b - 5 \in Nat /\ b - 5 <= 8
  BY <1>1, <1>2, <1>3
<1>9. r \in EncodeStates(data, i + 1)
  <2> DEFINE longer == Append(m.result, g)
             less == b - 5
             c == m.buffer
             q == m.offset
  <2>1. r = [data |-> data, buffer |-> c, bitsLeft |-> less, offset |-> q, result |-> longer]
    OBVIOUS
  <2>2. /\ longer \in Seq(Nat) /\ InGroups(data, longer) /\ less \in Nat /\ less <= 8
        /\ 5 * Len(longer) + less = 8 * q /\ Len(longer) = i + 1
        /\ c \in Int /\ q \in Nat /\ q > 0 /\ q <= Len(data) /\ SameBits(less, c, data[q])
    BY <1>1, <1>2, <1>6, <1>7, <1>8
  <2> HIDE DEF r, longer, less, c, q
  <2>3. QED
    BY <2>1, <2>2 DEF EncodeStates, EncodeType, Written
<1>10. QED
  BY <1>6, <1>9

\* What a state is made of.
LEMMA StateFields ==
  ASSUME NEW data \in Seq(Byte), NEW i \in Nat, NEW m \in EncodeStates(data, i)
  PROVE  /\ m \in EncodeType(data) /\ m.data = data
         /\ m = [data |-> data, buffer |-> m.buffer, bitsLeft |-> m.bitsLeft,
                 offset |-> m.offset, result |-> m.result]
         /\ m.buffer \in Int /\ m.bitsLeft \in Nat /\ m.offset \in Nat /\ m.result \in Seq(Nat)
         /\ m.offset > 0 /\ m.offset <= Len(data) /\ m.offset - 1 \in Nat
         /\ data[m.offset] \in Nat /\ data[m.offset] < 256
         /\ ByteAt(data, m.offset) = data[m.offset]
         /\ InGroups(data, m.result) /\ SameBits(m.bitsLeft, m.buffer, data[m.offset])
<1>1. /\ m \in EncodeType(data) /\ m.data = data /\ m.buffer \in Int /\ m.bitsLeft \in Nat
      /\ m.offset \in Nat /\ m.result \in Seq(Nat) /\ Len(data) \in Nat
  BY DEF EncodeStates, EncodeType
<1>2. m = [data |-> data, buffer |-> m.buffer, bitsLeft |-> m.bitsLeft,
           offset |-> m.offset, result |-> m.result]
  BY <1>1 DEF EncodeType
<1>3. /\ m.offset > 0 /\ m.offset <= Len(data) /\ InGroups(data, m.result)
      /\ SameBits(m.bitsLeft, m.buffer, data[m.offset])
  BY DEF EncodeStates, Written
<1>4. m.offset - 1 \in Nat /\ m.offset \in 1 .. Len(data)
  BY <1>1, <1>3
<1>5. data[m.offset] \in Byte
  BY <1>4, ElementOfSeq
<1>6. data[m.offset] \in Nat /\ data[m.offset] < 256
  BY <1>5 DEF Byte
<1>7. ByteAt(data, m.offset) = data[m.offset]
  BY <1>3 DEF ByteAt
<1>8. QED
  BY <1>1, <1>2, <1>3, <1>4, <1>6, <1>7

\* A state whose last turn wrote the group g.
LEMMA WrittenState ==
  ASSUME NEW data \in Seq(Byte), NEW i \in Nat, NEW c \in Int, NEW n \in Nat, n <= 8,
         NEW q \in Nat, q > 0, q <= Len(data), SameBits(n, c, data[q]),
         NEW s \in Seq(Nat), InGroups(data, s), Len(s) = i,
         NEW g \in Nat, g = Group(data, i),
         \/ 5 * (i + 1) + n = 8 * q
         \/ /\ n = 0 /\ q = Len(data)
            /\ 5 * (i + 1) >= 8 * Len(data) /\ 5 * (i + 1) <= 8 * Len(data) + 4
  PROVE  State(data, c, n, q, Append(s, g)) \in EncodeStates(data, i + 1)
<1> DEFINE longer == Append(s, g)
<1>1. longer \in Seq(Nat) /\ Len(longer) = i + 1 /\ InGroups(data, longer)
  BY OneGroupMore
<1> HIDE DEF longer
<1> DEFINE m == State(data, c, n, q, longer)
<1>2. m.data = data /\ m.buffer = c /\ m.bitsLeft = n /\ m.offset = q /\ m.result = longer
  BY DEF State
<1>3. m \in EncodeType(data)
  BY <1>1 DEF State, EncodeType
<1> HIDE DEF m
<1>4. Written(data, m)
  BY <1>1, <1>2 DEF Written
<1>5. \/ 5 * Len(m.result) + m.bitsLeft = 8 * m.offset /\ Len(m.result) = i + 1
      \/ AllWritten(data, m)
  BY <1>1, <1>2 DEF AllWritten
<1>6. QED
  BY <1>3, <1>4, <1>5 DEF EncodeStates, m, longer

\* A turn that takes the next byte.
LEMMA TurnToNext ==
  ASSUME NEW data \in Seq(Byte), NEW i \in Nat, NEW e,
         NEW a \in Int, NEW b \in Nat, b < 5, NEW q \in Nat, q > 0, q < Len(data),
         NEW s \in Seq(Nat), InGroups(data, s), Len(s) = i, SameBits(b, a, data[q]),
         5 * i + b = 8 * q
  PROVE  EncodeTurn(State(data, a, b, q, s), e) \in EncodeStates(data, i + 1)
<1>1. PICK x \in Nat : x = data[q] /\ x < 256 /\ ByteAt(data, q) = x
  <2>1. q \in 1 .. Len(data)
    OBVIOUS
  <2>2. data[q] \in Byte
    BY <2>1, ElementOfSeq
  <2>3. QED
    BY <2>1, <2>2 DEF ByteAt, Byte
<1>2. PICK y \in Nat : y = data[q + 1] /\ y < 256 /\ ByteAt(data, q + 1) = y
  <2>1. q + 1 \in 1 .. Len(data)
    OBVIOUS
  <2>2. data[q + 1] \in Byte
    BY <2>1, ElementOfSeq
  <2>3. QED
    BY <2>1, <2>2 DEF ByteAt, Byte
<1>3. PICK w \in Nat : w = x * 256 + y
  OBVIOUS
<1>4. PICK c \in Int : c = ShiftIn(a, 8, y) /\ SameBits(b + 8, c, w)
  <2>1. SameBits(b, a, x)
    BY <1>1
  <2>2. ShiftIn(a, 8, y) \in Int /\ SameBits(b + 8, ShiftIn(a, 8, y), x * 256 + y)
    BY <2>1, ShiftInByte
  <2>3. QED
    BY <1>3, <2>2
<1>5. PICK k \in Nat : k = b + 8 /\ k >= 8 /\ k <= 12
  OBVIOUS
<1> DEFINE m == State(data, a, b, q, s)
           f == State(data, c, k, q + 1, s)
<1>6. Refill(m) = f
  <2>1. Refill(State(data, a, b, q, s)) = State(data, ShiftIn(a, 8, data[q + 1]), b + 8, q + 1, s)
    BY RefillCases
  <2>2. QED
    BY <1>2, <1>4, <1>5, <2>1
<1>7. PICK g \in Nat : g = (w \div 2 ^ (k - 5)) % 32 /\ SameBits(k - 5, c, w)
                       /\ EncodeTurn(m, e) = State(data, c, k - 5, q + 1, Append(s, g))
  <2>1. /\ m \in EncodeType(data) /\ m.offset = q /\ m.data = data /\ f \in EncodeType(data)
        /\ f.bitsLeft = k /\ f.buffer = c /\ f.offset = q + 1 /\ f.result = s
    BY DEF State, EncodeType
  <2> HIDE DEF m, f
  <2>2. /\ m.bitsLeft > 0 \/ m.offset < Len(m.data)
        /\ f.bitsLeft >= 5 /\ f.bitsLeft <= 12 /\ SameBits(f.bitsLeft, f.buffer, w)
    BY <1>4, <1>5, <2>1
  <2>3. Taken(data, m, f, w, e)
    BY <1>6, <2>1, <2>2, TurnTakes
  <2>4. QED
    BY <2>1, <2>3 DEF Taken, State
<1> HIDE DEF m, f
<1>8. g = Group(data, i)
  <2>1. CASE b = 0
    <3>1. PICK z \in Nat : z = ByteAt(data, q + 2) /\ z < 256
      <4>1. q + 2 \in Nat /\ q + 2 > 0
        OBVIOUS
      <4>2. QED
        BY <4>1, ByteAtType
    <3>2. PICK v \in Nat : v = y * 256 + z
      OBVIOUS
    <3>3. PICK p \in Nat : p = 0
      OBVIOUS
    <3>4. p < 8 /\ 5 * i = 8 * q + p
      BY <2>1, <3>3
    <3>5. InWord(data, i, q, p)
      BY <3>4, GroupInWord
    <3>6. Word(data, q) = v
      BY <1>2, <3>1, <3>2 DEF Word
    <3>7. Group(data, i) = (v \div 2048) % 32
      BY <3>3, <3>5, <3>6 DEF InWord
    <3>8. k = 8
      BY <1>5, <2>1
    <3>9. g = (w \div 8) % 32
      BY <1>7, <3>8
    <3>10. (w \div 8) % 32 = (v \div 2048) % 32
      <4>1. UpperBits(x, y, z)
        BY <1>2, <3>1, WholeByte
      <4>2. QED
        BY <1>3, <3>2, <4>1 DEF UpperBits
    <3>11. QED
      BY <3>7, <3>9, <3>10
  <2>2. CASE b # 0
    <3>1. PICK o \in Nat, p \in Nat :
              /\ o + 1 = q /\ o + 2 = q + 1 /\ p < 8 /\ 5 * i = 8 * o + p /\ 11 - p = k - 5
      <4>1. q - 1 \in Nat /\ 8 - b \in Nat
        OBVIOUS
      <4>2. /\ (q - 1) + 1 = q /\ (q - 1) + 2 = q + 1 /\ 8 - b < 8
            /\ 5 * i = 8 * (q - 1) + (8 - b) /\ 11 - (8 - b) = k - 5
        BY <1>5, <2>2
      <4>3. QED
        BY <4>1, <4>2
    <3>2. InWord(data, i, o, p)
      BY <3>1, GroupInWord
    <3>3. Word(data, o) = w
      BY <1>1, <1>2, <1>3, <3>1 DEF Word
    <3>4. QED
      BY <1>7, <3>1, <3>2, <3>3 DEF InWord
  <2>3. QED
    BY <2>1, <2>2
<1>9. /\ k - 5 \in Nat /\ k - 5 <= 8 /\ 5 * (i + 1) + (k - 5) = 8 * (q + 1)
      /\ q + 1 \in Nat /\ q + 1 > 0 /\ q + 1 <= Len(data)
  BY <1>5
<1>10. SameBits(k - 5, c, data[q + 1])
  <2>1. SameBits(k - 5, c, x * 256 + y)
    BY <1>3, <1>7
  <2>2. SameBits(k - 5, c, y)
    BY <1>9, <2>1, LastByte
  <2>3. QED
    BY <1>2, <2>2
<1>11. State(data, c, k - 5, q + 1, Append(s, g)) \in EncodeStates(data, i + 1)
  BY <1>8, <1>9, <1>10, WrittenState
<1>12. QED
  BY <1>7, <1>11 DEF m

\* The turn that fills the last bits up with zeroes.
LEMMA TurnFillsUp ==
  ASSUME NEW data \in Seq(Byte), NEW i \in Nat, NEW e,
         NEW a \in Int, NEW b \in Nat, b > 0, b < 5, NEW q \in Nat, q > 0, q = Len(data),
         NEW s \in Seq(Nat), InGroups(data, s), Len(s) = i, SameBits(b, a, data[q]),
         5 * i + b = 8 * q
  PROVE  EncodeTurn(State(data, a, b, q, s), e) \in EncodeStates(data, i + 1)
<1>1. PICK x \in Nat : x = data[q] /\ x < 256 /\ ByteAt(data, q) = x
  <2>1. q \in 1 .. Len(data)
    OBVIOUS
  <2>2. data[q] \in Byte
    BY <2>1, ElementOfSeq
  <2>3. QED
    BY <2>1, <2>2 DEF ByteAt, Byte
<1>2. PICK w \in Nat : w = x * 2 ^ (5 - b)
  BY FilledUp
<1>3. PICK c \in Int : c = ShiftIn(a, _shift - b, 0) /\ SameBits(5, c, w)
  BY <1>1, <1>2, ShiftInZeroes
<1>4. PICK k \in Nat : k = 5
  OBVIOUS
<1> DEFINE m == State(data, a, b, q, s)
           f == State(data, c, k, q, s)
<1>5. Refill(m) = f
  <2>1. b < 5 /\ ~(q < Len(data))
    OBVIOUS
  <2>2. Refill(State(data, a, b, q, s)) = State(data, ShiftIn(a, _shift - b, 0), 5, q, s)
    BY <2>1, RefillCases
  <2>3. QED
    BY <1>3, <1>4, <2>2
<1>6. PICK g \in Nat : g = (w \div 2 ^ (k - 5)) % 32
                       /\ EncodeTurn(m, e) = State(data, c, k - 5, q, Append(s, g))
  <2>1. /\ m \in EncodeType(data) /\ m.bitsLeft = b /\ m.data = data /\ f \in EncodeType(data)
        /\ f.bitsLeft = k /\ f.buffer = c /\ f.offset = q /\ f.result = s
    BY DEF State, EncodeType
  <2> HIDE DEF m, f
  <2>2. /\ m.bitsLeft > 0 \/ m.offset < Len(m.data)
        /\ f.bitsLeft >= 5 /\ f.bitsLeft <= 12 /\ SameBits(f.bitsLeft, f.buffer, w)
    BY <1>3, <1>4, <2>1
  <2>3. Taken(data, m, f, w, e)
    BY <1>5, <2>1, <2>2, TurnTakes
  <2>4. QED
    BY <2>1, <2>3 DEF Taken, State
<1> HIDE DEF m, f
<1>7. g = Group(data, i)
  <2>1. PICK o \in Nat, p \in Nat :
            /\ o + 1 = q /\ o + 2 = q + 1 /\ p < 8 /\ 5 * i = 8 * o + p /\ p = 8 - b
    <3>1. q - 1 \in Nat /\ 8 - b \in Nat
      OBVIOUS
    <3>2. /\ (q - 1) + 1 = q /\ (q - 1) + 2 = q + 1 /\ 8 - b < 8
          /\ 5 * i = 8 * (q - 1) + (8 - b)
      OBVIOUS
    <3>3. QED
      BY <3>1, <3>2
  <2>2. InWord(data, i, o, p)
    BY <2>1, GroupInWord
  <2>3. ByteAt(data, q + 1) = 0
    <3>1. ~(q + 1 <= Len(data))
      OBVIOUS
    <3>2. QED
      BY <3>1 DEF ByteAt
  <2>4. Word(data, o) = x * 256
    BY <1>1, <2>1, <2>3 DEF Word
  <2>5. ((x * 256) \div 2 ^ (11 - (8 - b))) % 32 = (x * 2 ^ (5 - b)) % 32
    BY FilledUp
  <2>6. g = w % 32
    BY <1>4, <1>6
  <2>7. QED
    BY <1>2, <2>1, <2>2, <2>4, <2>5, <2>6 DEF InWord
<1>8. /\ k - 5 = 0 /\ k - 5 \in Nat /\ k - 5 <= 8
      /\ 5 * (i + 1) >= 8 * Len(data) /\ 5 * (i + 1) <= 8 * Len(data) + 4
  BY <1>4
<1>9. SameBits(k - 5, c, data[q])
  <2>1. SameBits(0, c, data[q])
    BY <1>1 DEF SameBits
  <2>2. QED
    BY <1>8, <2>1
<1>10. State(data, c, k - 5, q, Append(s, g)) \in EncodeStates(data, i + 1)
  <2>1. q <= Len(data)
    OBVIOUS
  <2>2. \/ 5 * (i + 1) + (k - 5) = 8 * q
        \/ /\ k - 5 = 0 /\ q = Len(data)
           /\ 5 * (i + 1) >= 8 * Len(data) /\ 5 * (i + 1) <= 8 * Len(data) + 4
    BY <1>8
  <2>3. QED
    BY <1>7, <1>8, <1>9, <2>1, <2>2, WrittenState
<1>11. QED
  BY <1>6, <1>10 DEF m

\* Every turn leads to a state of the next one.
LEMMA EncodeStep ==
  ASSUME NEW data \in Seq(Byte), NEW i \in Nat, NEW e, NEW m \in EncodeStates(data, i)
  PROVE  EncodeTurn(m, e) \in EncodeStates(data, i + 1)
<1> DEFINE Fields(a, b, q, s) ==
               /\ m = State(data, a, b, q, s)
               /\ a \in Int /\ b \in Nat /\ q \in Nat /\ q > 0 /\ q <= Len(data) /\ s \in Seq(Nat)
               /\ InGroups(data, s) /\ SameBits(b, a, data[q])
               /\ \/ 5 * Len(s) + b = 8 * q /\ Len(s) = i
                  \/ b = 0 /\ q = Len(data)
<1>1. Fields(m.buffer, m.bitsLeft, m.offset, m.result)
  <2>1. \/ 5 * Len(m.result) + m.bitsLeft = 8 * m.offset /\ Len(m.result) = i
        \/ m.bitsLeft = 0 /\ m.offset = Len(data)
    BY DEF EncodeStates, AllWritten
  <2>2. QED
    BY <2>1, StateFields DEF State
<1>2. PICK a, b, q, s : Fields(a, b, q, s)
  <2> HIDE DEF Fields
  <2>1. QED
    BY <1>1
<1>3. /\ m.data = data /\ m.buffer = a /\ m.bitsLeft = b /\ m.offset = q /\ m.result = s
      /\ Len(data) \in Nat
  BY <1>2 DEF State
<1>4. CASE b >= 5
  BY <1>4, <1>3, TurnInByte
<1>5. CASE b < 5 /\ (b > 0 \/ q < Len(data))
  <2>1. 5 * i + b = 8 * q /\ Len(s) = i
    BY <1>2, <1>5
  <2>2. CASE q < Len(data)
    BY <1>2, <1>5, <2>1, <2>2, TurnToNext
  <2>3. CASE ~(q < Len(data))
    <3>1. q = Len(data) /\ b > 0 /\ b < 5
      BY <1>2, <1>5, <1>3, <2>3
    <3>2. QED
      BY <1>2, <2>1, <3>1, TurnFillsUp
  <2>4. QED
    BY <2>2, <2>3
<1>6. CASE ~(b > 0) /\ ~(q < Len(data))
  <2>1. EncodeTurn(m, e) = m
    BY <1>6, <1>3 DEF EncodeTurn
  <2>2. AllWritten(data, m)
    <3>1. m.bitsLeft = 0 /\ m.offset = Len(data)
      BY <1>2, <1>6, <1>3
    <3>2. CASE AllWritten(data, m)
      BY <3>2
    <3>3. CASE 5 * Len(m.result) + m.bitsLeft = 8 * m.offset
      <4>1. 5 * Len(s) = 8 * Len(data) /\ Len(s) \in Nat
        BY <1>2, <1>3, <3>1, <3>3
      <4>2. 5 * Len(s) >= 8 * Len(data) /\ 5 * Len(s) <= 8 * Len(data) + 4
        BY <1>3, <4>1
      <4>3. QED
        BY <1>3, <3>1, <4>2 DEF AllWritten
    <3>4. QED
      BY <3>2, <3>3 DEF EncodeStates
  <2>3. Written(data, m) /\ m \in EncodeType(data)
    BY DEF EncodeStates
  <2>4. QED
    BY <2>1, <2>2, <2>3 DEF EncodeStates
<1>7. QED
  BY <1>2, <1>4, <1>5, <1>6

\* The loop of ToBase32, in 16 bits or in 32, writes the groups of its bytes.
LEMMA EncodesGroups ==
  ASSUME NEW data \in Seq(Byte), data # <<>>
  PROVE  /\ EncodeLoop(data) \in Seq(Nat)
         /\ Len(EncodeLoop(data)) = (8 * Len(data) + 4) \div 5
         /\ InGroups(data, EncodeLoop(data))
<1> DEFINE none == <<>>
           start == State(data, data[1], 8, 1, none)
           turns == [n \in 1 .. 2 * Len(data) |-> n]
           I == [i \in Nat |-> EncodeStates(data, i)]
           end == EncodeSteps!Fold(start, turns)
<1>1. Len(data) \in Nat /\ Len(data) > 0 /\ turns \in Seq(Nat) /\ Len(turns) = 2 * Len(data)
  OBVIOUS
<1>2. start \in I[0]
  <2>1. 1 \in 1 .. Len(data)
    BY <1>1
  <2>2. data[1] \in Byte
    BY <2>1, ElementOfSeq
  <2>3. data[1] \in Int
    BY <2>2 DEF Byte
  <2>4. none \in Seq(Nat) /\ Len(none) = 0 /\ InGroups(data, none)
    BY DEF InGroups
  <2> HIDE DEF none
  <2>5. SameBits(8, data[1], data[1])
    BY DEF SameBits
  <2>6. /\ start.data = data /\ start.buffer = data[1] /\ start.bitsLeft = 8
        /\ start.offset = 1 /\ start.result = none
    BY DEF State
  <2>7. start \in EncodeType(data)
    BY <2>3, <2>4 DEF State, EncodeType
  <2> HIDE DEF start
  <2>8. Written(data, start)
    BY <1>1, <2>4, <2>5, <2>6 DEF Written
  <2>9. 5 * Len(start.result) + start.bitsLeft = 8 * start.offset /\ Len(start.result) = 0
    BY <2>4, <2>6
  <2>10. start \in EncodeStates(data, 0)
    BY <2>7, <2>8, <2>9 DEF EncodeStates
  <2>11. QED
    BY <2>10
<1>3. ASSUME NEW i \in 0 .. Len(turns) - 1, NEW m \in I[i]
      PROVE  EncodeTurn(m, turns[i + 1]) \in I[i + 1]
  <2>1. i \in Nat /\ i + 1 \in Nat /\ m \in EncodeStates(data, i)
    BY <1>1, <1>3
  <2> HIDE DEF turns
  <2>2. EncodeTurn(m, turns[i + 1]) \in EncodeStates(data, i + 1)
    BY <2>1, EncodeStep
  <2>3. QED
    BY <2>1, <2>2
<1>4. end \in I[Len(turns)]
  <2> HIDE DEF start, turns, I
  <2>1. QED
    BY <1>1, <1>2, <1>3, EncodeSteps!FoldSteps
<1>5. EncodeLoop(data) = end.result
  BY DEF EncodeLoop, State, EncodeSteps!Fold, FoldLeft, EncodeSteps!FoldLeft, MapThenFoldSet,
         EncodeSteps!MapThenFoldSet, Max, EncodeSteps!Max
<1> HIDE DEF end, turns, start
<1>6. end \in EncodeStates(data, 2 * Len(data))
  BY <1>1, <1>4
<1>7. /\ end.result \in Seq(Nat) /\ end.bitsLeft \in Nat /\ end.offset \in Nat
      /\ end.offset <= Len(data) /\ InGroups(data, end.result)
  BY <1>1, <1>6, StateFields
<1>8. AllWritten(data, end)
  <2>1. \/ /\ 5 * Len(end.result) + end.bitsLeft = 8 * end.offset
           /\ Len(end.result) = 2 * Len(data)
        \/ AllWritten(data, end)
    BY <1>6 DEF EncodeStates
  <2>2. CASE /\ 5 * Len(end.result) + end.bitsLeft = 8 * end.offset
             /\ Len(end.result) = 2 * Len(data)
    <3>1. PICK b, o, l \in Nat : 5 * (2 * l) + b = 8 * o /\ o <= l /\ l > 0
      BY <1>1, <1>7, <2>2
    <3>2. FALSE
      BY <3>1
    <3>3. QED
      BY <3>2
  <2>3. QED
    BY <2>1, <2>2
<1>9. Len(end.result) = (8 * Len(data) + 4) \div 5
  <2>1. Len(end.result) \in Nat
    BY <1>7
  <2>2. 5 * Len(end.result) >= 8 * Len(data) /\ 5 * Len(end.result) <= 8 * Len(data) + 4
    BY <1>8 DEF AllWritten
  <2>3. \A k, l \in Nat : 5 * k >= 8 * l /\ 5 * k <= 8 * l + 4 => k = (8 * l + 4) \div 5
    BY SMT
  <2>4. QED
    BY <1>1, <2>1, <2>2, <2>3
<1>10. QED
  BY <1>5, <1>7, <1>9

-----------------------------------------------------------------------------
(* What FromBase32 makes of it. *)

LEMMA GroupType ==
  ASSUME NEW data \in Seq(Byte), NEW n \in Nat
  PROVE  Group(data, n) \in Nat /\ Group(data, n) < 32
<1>1. PICK o \in Nat, p \in Nat : p < 8 /\ 5 * n = 8 * o + p
  <2>1. /\ (5 * n) \div 8 \in Nat /\ (5 * n) % 8 \in Nat /\ (5 * n) % 8 < 8
        /\ 5 * n = 8 * ((5 * n) \div 8) + ((5 * n) % 8)
    BY SMT
  <2>2. QED
    BY <2>1
<1>2. InWord(data, n, o, p)
  BY <1>1, GroupInWord
<1>3. PICK d \in Nat : d = 2 ^ (11 - p) /\ d > 0
  <2>1. p = 0 \/ p = 1 \/ p = 2 \/ p = 3 \/ p = 4 \/ p = 5 \/ p = 6 \/ p = 7
    BY <1>1
  <2>2. CASE p = 0
    BY <2>2
  <2>3. CASE p = 1
    BY <2>3
  <2>4. CASE p = 2
    BY <2>4
  <2>5. CASE p = 3
    BY <2>5
  <2>6. CASE p = 4
    BY <2>6
  <2>7. CASE p = 5
    BY <2>7
  <2>8. CASE p = 6
    BY <2>8
  <2>9. CASE p = 7
    BY <2>9
  <2>10. QED
    BY <2>1, <2>2, <2>3, <2>4, <2>5, <2>6, <2>7, <2>8, <2>9
<1>4. PICK w \in Nat : w = Word(data, o)
  <2>1. o + 1 \in Nat /\ o + 1 > 0 /\ o + 2 \in Nat /\ o + 2 > 0
    OBVIOUS
  <2>2. ByteAt(data, o + 1) \in Nat /\ ByteAt(data, o + 2) \in Nat
    BY <2>1, ByteAtType
  <2>3. QED
    BY <2>2 DEF Word
<1>5. w \div d \in Nat
  BY <1>3
<1>6. Group(data, n) = (w \div d) % 32
  BY <1>2, <1>3, <1>4 DEF InWord
<1>7. QED
  BY <1>5, <1>6

\* The upper n bits of the byte x.
Upper(x, n) == x \div 2 ^ (8 - n)

\* What the buffer's last bits are, once those of v are in it: upper bits of the
\* byte x, or all of it and upper bits of y.
Joined(n, x, y, v) ==
    LET w == Upper(x, n) * 32 + v
    IN  /\ Upper(x, n) \in Nat /\ w \in Nat
        /\ n < 3 => w = Upper(x, n + 5)
        /\ n >= 3 => /\ (w \div 2 ^ ((n + 5) - 8)) % 256 = x
                     /\ SameBits((n + 5) - 8, w, Upper(y, (n + 5) - 8))

LEMMA FiveJoined ==
  ASSUME NEW n \in Nat, n < 8, NEW x \in Nat, x < 256, NEW y \in Nat, y < 256,
         NEW v \in Nat, v = ((x * 256 + y) \div 2 ^ (11 - n)) % 32
  PROVE  Joined(n, x, y, v)
<1>1. n = 0 \/ n = 1 \/ n = 2 \/ n = 3 \/ n = 4 \/ n = 5 \/ n = 6 \/ n = 7
  OBVIOUS
<1>2. CASE n = 0
  <2>1. v = (x \div 8) % 32
    <3>1. (x * 256 + y) \div 2048 = x \div 8
      BY SMT
    <3>2. v = ((x * 256 + y) \div 2048) % 32
      BY <1>2, SMT
    <3>3. QED
      BY <3>1, <3>2, SMT
  <2>2. (x \div 256) * 32 + v = x \div 8
    BY <2>1, SMT
  <2>3. QED
    BY <1>2, <2>2, SMT DEF Joined, Upper
<1>3. CASE n = 1
  <2>1. v = (x \div 4) % 32
    <3>1. (x * 256 + y) \div 1024 = x \div 4
      BY SMT
    <3>2. v = ((x * 256 + y) \div 1024) % 32
      BY <1>3, SMT
    <3>3. QED
      BY <3>1, <3>2, SMT
  <2>2. (x \div 128) * 32 + v = x \div 4
    BY <2>1, SMT
  <2>3. QED
    BY <1>3, <2>2, SMT DEF Joined, Upper
<1>4. CASE n = 2
  <2>1. v = (x \div 2) % 32
    <3>1. (x * 256 + y) \div 512 = x \div 2
      BY SMT
    <3>2. v = ((x * 256 + y) \div 512) % 32
      BY <1>4, SMT
    <3>3. QED
      BY <3>1, <3>2, SMT
  <2>2. (x \div 64) * 32 + v = x \div 2
    BY <2>1, SMT
  <2>3. QED
    BY <1>4, <2>2, SMT DEF Joined, Upper
<1>5. CASE n = 3
  <2>1. PICK z \in Nat : z = y \div 256 /\ z < 1
    BY SMT
  <2>2. v = (x + z) % 32
    <3>1. (x * 256 + y) \div 256 = x + z
      BY <2>1, SMT
    <3>2. v = ((x * 256 + y) \div 256) % 32
      BY <1>5, SMT
    <3>3. QED
      BY <3>1, <3>2, SMT
  <2>3. PICK w \in Nat : w = (x \div 32) * 32 + v
    BY SMT
  <2>4. w = x + z
    BY <2>1, <2>2, <2>3, SMT
  <2>5. (w \div 1) % 256 = x /\ w % 1 = z
    BY <2>1, <2>4, SMT
  <2>6. QED
    BY <1>5, <2>1, <2>3, <2>5, SMT DEF Joined, Upper, SameBits
<1>6. CASE n = 4
  <2>1. PICK z \in Nat : z = y \div 128 /\ z < 2
    BY SMT
  <2>2. v = (x * 2 + z) % 32
    <3>1. (x * 256 + y) \div 128 = x * 2 + z
      BY <2>1, SMT
    <3>2. v = ((x * 256 + y) \div 128) % 32
      BY <1>6, SMT
    <3>3. QED
      BY <3>1, <3>2, SMT
  <2>3. PICK w \in Nat : w = (x \div 16) * 32 + v
    BY SMT
  <2>4. w = x * 2 + z
    BY <2>1, <2>2, <2>3, SMT
  <2>5. (w \div 2) % 256 = x /\ w % 2 = z
    BY <2>1, <2>4, SMT
  <2>6. QED
    BY <1>6, <2>1, <2>3, <2>5, SMT DEF Joined, Upper, SameBits
<1>7. CASE n = 5
  <2>1. PICK z \in Nat : z = y \div 64 /\ z < 4
    BY SMT
  <2>2. v = (x * 4 + z) % 32
    <3>1. (x * 256 + y) \div 64 = x * 4 + z
      BY <2>1, SMT
    <3>2. v = ((x * 256 + y) \div 64) % 32
      BY <1>7, SMT
    <3>3. QED
      BY <3>1, <3>2, SMT
  <2>3. PICK w \in Nat : w = (x \div 8) * 32 + v
    BY SMT
  <2>4. w = x * 4 + z
    BY <2>1, <2>2, <2>3, SMT
  <2>5. (w \div 4) % 256 = x /\ w % 4 = z
    BY <2>1, <2>4, SMT
  <2>6. QED
    BY <1>7, <2>1, <2>3, <2>5, SMT DEF Joined, Upper, SameBits
<1>8. CASE n = 6
  <2>1. PICK z \in Nat : z = y \div 32 /\ z < 8
    BY SMT
  <2>2. v = (x * 8 + z) % 32
    <3>1. (x * 256 + y) \div 32 = x * 8 + z
      BY <2>1, SMT
    <3>2. v = ((x * 256 + y) \div 32) % 32
      BY <1>8, SMT
    <3>3. QED
      BY <3>1, <3>2, SMT
  <2>3. PICK w \in Nat : w = (x \div 4) * 32 + v
    BY SMT
  <2>4. w = x * 8 + z
    BY <2>1, <2>2, <2>3, SMT
  <2>5. (w \div 8) % 256 = x /\ w % 8 = z
    BY <2>1, <2>4, SMT
  <2>6. QED
    BY <1>8, <2>1, <2>3, <2>5, SMT DEF Joined, Upper, SameBits
<1>9. CASE n = 7
  <2>1. PICK z \in Nat : z = y \div 16 /\ z < 16
    BY SMT
  <2>2. v = (x * 16 + z) % 32
    <3>1. (x * 256 + y) \div 16 = x * 16 + z
      BY <2>1, SMT
    <3>2. v = ((x * 256 + y) \div 16) % 32
      BY <1>9, SMT
    <3>3. QED
      BY <3>1, <3>2, SMT
  <2>3. PICK w \in Nat : w = (x \div 2) * 32 + v
    BY SMT
  <2>4. w = x * 16 + z
    BY <2>1, <2>2, <2>3, SMT
  <2>5. (w \div 16) % 256 = x /\ w % 16 = z
    BY <2>1, <2>4, SMT
  <2>6. QED
    BY <1>9, <2>1, <2>3, <2>5, SMT DEF Joined, Upper, SameBits
<1>10. QED
  BY <1>1, <1>2, <1>3, <1>4, <1>5, <1>6, <1>7, <1>8, <1>9

DecodeState(b, n, r) == [buffer |-> b, bitsLeft |-> n, result |-> r]

\* DecodeTurn on a value that is a group, of a state given by its fields.
LEMMA DecodeCases ==
  ASSUME NEW b \in Int, NEW n \in Nat, NEW r, NEW v \in Nat, v < 32,
         NEW c, c = ShiftIn(b, _shift, v)
  PROVE  /\ n < 3 => DecodeTurn(DecodeState(b, n, r), v) = DecodeState(c, n + 5, r)
         /\ n >= 3 =>
              DecodeTurn(DecodeState(b, n, r), v)
                = DecodeState(c, (n + 5) - 8, Append(r, (c \div 2 ^ ((n + 5) - 8)) % 256))
<1> DEFINE m == DecodeState(b, n, r)
<1>1. m.buffer = b /\ m.bitsLeft = n /\ m.result = r
  BY DEF DecodeState
<1>2. v % 32 = v
  OBVIOUS
<1>3. CASE n < 3
  <2>1. DecodeTurn(m, v) = [m EXCEPT !.buffer = c, !.bitsLeft = n + 5]
    <3> HIDE DEF m
    <3>1. ~(m.bitsLeft + _shift >= 8)
      BY <1>1, <1>3 DEF _shift
    <3>2. QED
      BY <1>1, <1>2, <3>1 DEF DecodeTurn, _shift
  <2> DEFINE h == [m EXCEPT !.buffer = c]
             k == n + 5
  <2> HIDE DEF k
  <2>2. [m EXCEPT !.buffer = c, !.bitsLeft = k] = [h EXCEPT !.bitsLeft = k]
    <3> HIDE DEF m
    <3>1. QED
      OBVIOUS
  <2>3. h = DecodeState(c, n, r)
    BY DEF DecodeState
  <2> HIDE DEF h
  <2>4. [h EXCEPT !.bitsLeft = k] = DecodeState(c, k, r)
    BY <2>3 DEF DecodeState
  <2>5. QED
    BY <1>3, <2>1, <2>2, <2>4 DEF k
<1>4. CASE n >= 3
  <2> HIDE DEF m
  <2>1. m.bitsLeft + _shift >= 8
    BY <1>1, <1>4 DEF _shift
  <2>2. DecodeTurn(m, v) = [buffer |-> c, bitsLeft |-> (n + 5) - 8,
                            result |-> Append(r, (c \div 2 ^ ((n + 5) - 8)) % 256)]
    BY <1>1, <1>2, <2>1 DEF DecodeTurn, _shift
  <2>3. QED
    BY <1>4, <2>2 DEF m, DecodeState
<1>5. QED
  BY <1>3, <1>4

\* The states before turn i + 1: the bytes of the bits that are no more in the
\* buffer are there, and those in it are the first ones of the next byte.
BytesOf(data, result) ==
    /\ Len(result) <= Len(data)
    /\ \A k \in 1 .. Len(result) : result[k] = data[k]
DecodeStates(data, i) ==
    {m \in [buffer : Int, bitsLeft : Nat, result : Seq(Byte)] :
        /\ m.bitsLeft < 8 /\ 8 * Len(m.result) + m.bitsLeft = 5 * i
        /\ BytesOf(data, m.result)
        /\ SameBits(m.bitsLeft, m.buffer, Upper(ByteAt(data, Len(m.result) + 1), m.bitsLeft))}

LEMMA DecodedTo ==
  ASSUME NEW data, NEW i \in Nat, NEW b \in Int, NEW n \in Nat, n < 8, NEW r \in Seq(Byte),
         8 * Len(r) + n = 5 * i, BytesOf(data, r),
         SameBits(n, b, Upper(ByteAt(data, Len(r) + 1), n))
  PROVE  DecodeState(b, n, r) \in DecodeStates(data, i)
BY DEF DecodeState, DecodeStates

LEMMA DecodeStep ==
  ASSUME NEW data \in Seq(Byte), NEW i \in Nat, 5 * i < 8 * Len(data),
         NEW m \in DecodeStates(data, i), NEW v, v = Group(data, i)
  PROVE  DecodeTurn(m, v) \in DecodeStates(data, i + 1)
<1>1. PICK b \in Int, n \in Nat, r \in Seq(Byte) :
          /\ m = DecodeState(b, n, r)
          /\ n < 8 /\ 8 * Len(r) + n = 5 * i /\ BytesOf(data, r)
          /\ SameBits(n, b, Upper(ByteAt(data, Len(r) + 1), n))
  <2> DEFINE b == m.buffer
             n == m.bitsLeft
             r == m.result
  <2>1. m = DecodeState(b, n, r) /\ b \in Int /\ n \in Nat /\ r \in Seq(Byte)
    BY DEF DecodeStates, DecodeState
  <2>2. /\ n < 8 /\ 8 * Len(r) + n = 5 * i /\ BytesOf(data, r)
        /\ SameBits(n, b, Upper(ByteAt(data, Len(r) + 1), n))
    BY DEF DecodeStates
  <2> HIDE DEF b, n, r
  <2>3. QED
    BY <2>1, <2>2
<1>2. PICK l \in Nat : l = Len(r) /\ l < Len(data) /\ 8 * l + n = 5 * i
  <2>1. Len(r) \in Nat /\ Len(data) \in Nat
    OBVIOUS
  <2>2. QED
    BY <1>1, <2>1
<1>3. PICK x \in Nat : x = ByteAt(data, l + 1) /\ x < 256 /\ x = data[l + 1] /\ x \in Byte
  <2>1. l + 1 \in 1 .. Len(data)
    BY <1>2
  <2>2. data[l + 1] \in Byte /\ ByteAt(data, l + 1) = data[l + 1]
    BY <2>1, ElementOfSeq DEF ByteAt
  <2>3. QED
    BY <2>2 DEF Byte
<1>4. PICK y \in Nat : y = ByteAt(data, l + 2) /\ y < 256
  <2>1. l + 2 \in Nat /\ l + 2 > 0
    OBVIOUS
  <2>2. QED
    BY <2>1, ByteAtType
<1>5. v = ((x * 256 + y) \div 2 ^ (11 - n)) % 32
  <2>1. InWord(data, i, l, n)
    <3>1. n < 8 /\ 5 * i = 8 * l + n
      BY <1>1, <1>2
    <3>2. QED
      BY <3>1, GroupInWord
  <2>2. QED
    BY <1>3, <1>4, <2>1 DEF InWord, Word
<1>6. v \in Nat /\ v < 32
  BY GroupType
<1>7. Joined(n, x, y, v)
  BY <1>1, <1>3, <1>4, <1>5, <1>6, FiveJoined
<1>8. PICK u \in Nat, w \in Nat :
          /\ u = Upper(x, n) /\ w = u * 32 + v
          /\ n < 3 => w = Upper(x, n + 5)
          /\ n >= 3 => /\ (w \div 2 ^ ((n + 5) - 8)) % 256 = x
                       /\ SameBits((n + 5) - 8, w, Upper(y, (n + 5) - 8))
  BY <1>7 DEF Joined
<1>9. PICK c \in Int : c = ShiftIn(b, _shift, v) /\ SameBits(n + 5, c, w)
  <2>1. n < 8 /\ SameBits(n, b, u)
    BY <1>1, <1>2, <1>3, <1>8
  <2>2. ShiftIn(b, _shift, v) \in Int /\ SameBits(n + 5, ShiftIn(b, _shift, v), u * 32 + v)
    BY <1>6, <2>1, ShiftInFive
  <2>3. QED
    BY <1>8, <2>2
<1>10. CASE n < 3
  <2>1. DecodeTurn(m, v) = DecodeState(c, n + 5, r)
    BY <1>1, <1>6, <1>9, <1>10, DecodeCases
  <2>2. /\ n + 5 \in Nat /\ n + 5 < 8 /\ 8 * Len(r) + (n + 5) = 5 * (i + 1) /\ i + 1 \in Nat
    BY <1>2, <1>10
  <2>3. SameBits(n + 5, c, Upper(ByteAt(data, Len(r) + 1), n + 5))
    BY <1>2, <1>3, <1>8, <1>9, <1>10
  <2>4. DecodeState(c, n + 5, r) \in DecodeStates(data, i + 1)
    BY <1>1, <2>2, <2>3, DecodedTo
  <2>5. QED
    BY <2>1, <2>4
<1>11. CASE n >= 3
  <2>1. PICK k \in Nat : k = (n + 5) - 8 /\ k < 8 /\ 8 * (l + 1) + k = 5 * (i + 1)
    BY <1>1, <1>2, <1>11
  <2>2. (c \div 2 ^ ((n + 5) - 8)) % 256 = (w \div 2 ^ ((n + 5) - 8)) % 256
        /\ SameBits((n + 5) - 8, c, w)
    <3>1. PICK j \in Nat : j = n + 5 /\ j >= 8 /\ j <= 12
      BY <1>1, <1>11
    <3>2. SameBits(j, c, w)
      BY <1>9, <3>1
    <3>3. SameByte(j, c, w)
      BY <3>1, <3>2, TakeEight
    <3>4. QED
      BY <3>1, <3>3 DEF SameByte
  <2>3. DecodeTurn(m, v)
          = DecodeState(c, (n + 5) - 8, Append(r, (c \div 2 ^ ((n + 5) - 8)) % 256))
    BY <1>1, <1>6, <1>9, <1>11, DecodeCases
  <2>4. DecodeTurn(m, v) = DecodeState(c, k, Append(r, x))
    BY <1>8, <1>11, <2>1, <2>2, <2>3
  <2>5. SameBits(k, c, Upper(y, k))
    <3>1. SameBits(k, c, w) /\ SameBits(k, w, Upper(y, k))
      BY <1>8, <1>11, <2>1, <2>2
    <3>2. QED
      BY <3>1 DEF SameBits
  <2>6. PICK s : s = Append(r, x)
    OBVIOUS
  <2>7. /\ s \in Seq(Byte) /\ Len(s) = l + 1 /\ s[l + 1] = x
        /\ \A j \in 1..l : s[j] = r[j]
    BY <1>2, <1>3, <2>6
  <2>8. BytesOf(data, s)
    <3>1. \A j \in 1 .. l + 1 : j \in 1..l \/ j = l + 1
      BY <1>2
    <3>2. l + 1 <= Len(data)
      BY <1>2
    <3>3. QED
      BY <1>1, <1>2, <1>3, <2>7, <3>1, <3>2 DEF BytesOf
  <2>9. SameBits(k, c, Upper(ByteAt(data, Len(s) + 1), k))
    <3>1. Len(s) + 1 = l + 2
      BY <2>7
    <3>2. QED
      BY <1>4, <2>5, <3>1
  <2>10. i + 1 \in Nat /\ 8 * Len(s) + k = 5 * (i + 1)
    BY <2>1, <2>7
  <2>11. DecodeState(c, k, s) \in DecodeStates(data, i + 1)
    BY <2>1, <2>7, <2>8, <2>9, <2>10, DecodedTo
  <2>12. QED
    BY <2>4, <2>6, <2>11
<1>12. QED
  BY <1>10, <1>11

\* The loop of FromBase32 gives back the bytes of which it has the groups.
LEMMA DecodesGroups ==
  ASSUME NEW data \in Seq(Byte), NEW values \in Seq(Int),
         Len(values) = (8 * Len(data) + 4) \div 5, InGroups(data, values)
  PROVE  DecodeLoop!Fold([buffer |-> 0, bitsLeft |-> 0, result |-> <<>>], values).result = data
<1> DEFINE none == <<>>
           start == DecodeState(0, 0, none)
           I == [i \in Nat |-> DecodeStates(data, i)]
           end == DecodeLoop!Fold(start, values)
<1>1. PICK l \in Nat, k \in Nat :
          l = Len(data) /\ k = Len(values) /\ 5 * k >= 8 * l /\ 5 * k <= 8 * l + 4
  <2>1. Len(data) \in Nat /\ Len(values) \in Nat
    OBVIOUS
  <2>2. \A l, k \in Nat : k = (8 * l + 4) \div 5 => 5 * k >= 8 * l /\ 5 * k <= 8 * l + 4
    BY SMT
  <2>3. QED
    BY <2>1, <2>2
<1>2. start \in I[0]
  <2>1. none \in Seq(Byte) /\ Len(none) = 0 /\ BytesOf(data, none)
    <3>1. none \in Seq(Byte) /\ Len(none) = 0 /\ 0 <= Len(data)
      OBVIOUS
    <3> HIDE DEF none
    <3>2. QED
      BY <3>1 DEF BytesOf
  <2> HIDE DEF none
  <2>2. PICK z \in Nat : z = 0
    OBVIOUS
  <2>3. SameBits(z, z, Upper(ByteAt(data, Len(none) + 1), z))
    <3>1. PICK x \in Nat : x = ByteAt(data, Len(none) + 1) /\ x < 256
      <4>1. Len(none) + 1 \in Nat /\ Len(none) + 1 > 0
        BY <2>1
      <4>2. QED
        BY <4>1, ByteAtType
    <3>2. Upper(x, z) = 0
      BY <2>2, <3>1 DEF Upper
    <3>3. SameBits(z, z, 0)
      BY <2>2 DEF SameBits
    <3>4. QED
      BY <3>1, <3>2, <3>3
  <2>4. z < 8 /\ 8 * Len(none) + z = 5 * z /\ z \in Int
    BY <2>1, <2>2
  <2>5. DecodeState(z, z, none) \in DecodeStates(data, z)
    BY <2>1, <2>3, <2>4, DecodedTo
  <2>6. QED
    BY <2>2, <2>5
<1>3. ASSUME NEW i \in 0 .. Len(values) - 1, NEW m \in I[i]
      PROVE  DecodeTurn(m, values[i + 1]) \in I[i + 1]
  <2>1. i \in Nat /\ i + 1 \in Nat /\ m \in DecodeStates(data, i) /\ 5 * i < 8 * Len(data)
    BY <1>1, <1>3
  <2>2. values[i + 1] = Group(data, i)
    <3>1. i + 1 \in 1 .. Len(values) /\ (i + 1) - 1 = i
      BY <1>1, <1>3
    <3>2. values[i + 1] = Group(data, (i + 1) - 1)
      BY <3>1 DEF InGroups
    <3>3. QED
      BY <3>1, <3>2
  <2>3. DecodeTurn(m, values[i + 1]) \in DecodeStates(data, i + 1)
    BY <2>1, <2>2, DecodeStep
  <2>4. QED
    BY <2>1, <2>3
<1>4. end \in I[Len(values)]
  <2> HIDE DEF start, I
  <2>1. QED
    BY <1>2, <1>3, DecodeLoop!FoldSteps
<1> HIDE DEF end
<1>5. end \in DecodeStates(data, k)
  BY <1>1, <1>4
<1>6. /\ end.result \in Seq(Byte) /\ end.bitsLeft \in Nat /\ end.bitsLeft < 8
      /\ 8 * Len(end.result) + end.bitsLeft = 5 * k /\ BytesOf(data, end.result)
  BY <1>5 DEF DecodeStates
<1>7. Len(end.result) = l
  <2>1. Len(end.result) \in Nat
    BY <1>6
  <2>2. Len(end.result) <= l
    BY <1>1, <1>6 DEF BytesOf
  <2>3. QED
    BY <1>1, <1>6, <2>1, <2>2
<1>8. end.result = data
  BY <1>1, <1>6, <1>7, SeqEqual DEF BytesOf
<1>9. QED
  BY <1>8 DEF end, DecodeState

-----------------------------------------------------------------------------
(* Digits and padding. *)

LEMMA DigitValue ==
  ASSUME NEW hex \in BOOLEAN, NEW v \in Nat, v < 32
  PROVE  /\ Digit(hex, v) \in Byte /\ Digit(hex, v) # Equals /\ Digit(hex, v) \notin White
         /\ CharToInt(hex, ToUpper(Digit(hex, v))) = v
<1>1. PICK c \in Nat :
          /\ c = Digit(hex, v)
          /\ \/ 65 <= c /\ c <= 90 /\ c - 65 + (IF hex THEN 10 ELSE 0) = v
             \/ ~hex /\ 50 <= c /\ c <= 55 /\ c - 24 = v
             \/ hex /\ 48 <= c /\ c <= 57 /\ c - 48 = v
  BY DEF Digit
<1>2. c < 256 /\ c # Equals /\ c \notin White
  BY <1>1 DEF Equals, White
<1>3. ToUpper(c) = c
  BY <1>1 DEF ToUpper, IsLower
<1>4. CharToInt(hex, c) = v
  <2>1. CASE 65 <= c
    <3>1. IsUpper(c) /\ ~IsLower(c) /\ c \notin 50..55 /\ c \notin 48..57
      BY <1>1, <2>1 DEF IsUpper, IsLower
    <3>2. c - 65 + (IF hex THEN 10 ELSE 0) = v
      BY <1>1, <2>1
    <3>3. QED
      BY <3>1, <3>2 DEF CharToInt
  <2>2. CASE ~(65 <= c)
    <3>1. ~IsUpper(c) /\ ~IsLower(c)
      BY <1>1, <2>2 DEF IsUpper, IsLower
    <3>2. CASE hex
      <4>1. 48 <= c /\ c <= 57 /\ c - 48 = v
        <5>1. (c - 48 = v /\ 48 <= c /\ c <= 57) \/ 65 <= c
          BY <1>1, <3>2
        <5>2. QED
          BY <2>2, <5>1
      <4>2. QED
        BY <3>1, <3>2, <4>1 DEF CharToInt
    <3>3. CASE ~hex
      <4>1. c \in 50..55 /\ c - 24 = v
        BY <1>1, <2>2, <3>3
      <4>2. QED
        BY <3>1, <3>3, <4>1 DEF CharToInt
    <3>4. QED
      BY <3>2, <3>3
  <2>3. QED
    BY <2>1, <2>2
<1>5. QED
  BY <1>1, <1>2, <1>3, <1>4 DEF Byte

LEMMA PaddingFills ==
  ASSUME NEW k \in Nat
  PROVE  Padding(k) \in Nat /\ Padding(k) < 8 /\ (k + Padding(k)) % 8 = 0
<1>1. \A r \in Nat : r = k % 8 => r < 8 /\ (r # 0 => (k + (8 - r)) % 8 = 0)
  BY SMT
<1>2. k % 8 \in Nat
  BY SMT
<1>3. QED
  BY <1>1, <1>2 DEF Padding

\* A text of digits and padding.
DigitsOf(hex, values) == [i \in 1 .. Len(values) |-> Digit(hex, values[i])]
Padded(hex, values, p) == DigitsOf(hex, values) \o [i \in 1..p |-> Equals]

LEMMA PaddedText ==
  ASSUME NEW hex \in BOOLEAN, NEW values \in Seq(Nat),
         \A i \in DOMAIN values : values[i] < 32, NEW p \in Nat
  PROVE  /\ Padded(hex, values, p) \in Seq(Byte) /\ Len(Padded(hex, values, p)) = Len(values) + p
         /\ DigitsOf(hex, values) \in Seq(Byte) /\ Len(DigitsOf(hex, values)) = Len(values)
         /\ TrimEnd(Padded(hex, values, p), {Equals}) = DigitsOf(hex, values)
         /\ Trimmed32(Padded(hex, values, p)) = DigitsOf(hex, values)
         /\ Values32(hex, DigitsOf(hex, values)) = values
<1> DEFINE k == Len(values)
           text == Padded(hex, values, p)
           digits == DigitsOf(hex, values)
           padding == [i \in 1..p |-> Equals]
<1>1. k \in Nat /\ DOMAIN values = 1..k /\ \A i \in 1..k : values[i] \in Nat /\ values[i] < 32
  OBVIOUS
<1> HIDE DEF k
<1>2. \A i \in 1..k : /\ Digit(hex, values[i]) \in Byte
                      /\ Digit(hex, values[i]) # Equals /\ Digit(hex, values[i]) \notin White
                      /\ CharToInt(hex, ToUpper(Digit(hex, values[i]))) = values[i]
  BY <1>1, DigitValue
<1>3. /\ digits \in Seq(Byte) /\ Len(digits) = k /\ DOMAIN digits = 1..k
      /\ \A i \in 1..k : digits[i] = Digit(hex, values[i])
  BY <1>1, <1>2 DEF DigitsOf, k
<1>4. padding \in Seq(Byte) /\ Len(padding) = p /\ \A i \in 1..p : padding[i] = Equals
  <2>1. Equals \in Byte
    BY DEF Equals, Byte
  <2>2. QED
    BY <2>1
<1>5. text = digits \o padding
  BY DEF Padded
<1> HIDE DEF text, digits, padding
<1>6. /\ text \in Seq(Byte) /\ Len(text) = k + p /\ DOMAIN text = 1 .. k + p
      /\ \A i \in 1..k : text[i] = digits[i]
      /\ \A i \in k + 1 .. k + p : text[i] = Equals
  <2>0. \A a, b \in Seq(Byte) :
           /\ a \o b \in Seq(Byte) /\ Len(a \o b) = Len(a) + Len(b)
           /\ \A i \in 1 .. Len(a) + Len(b) :
                 (a \o b)[i] = IF i <= Len(a) THEN a[i] ELSE b[i - Len(a)]
    BY ConcatProperties
  <2>1. /\ text \in Seq(Byte) /\ Len(text) = k + p
        /\ \A i \in 1 .. k + p : text[i] = IF i <= k THEN digits[i] ELSE padding[i - k]
    BY <1>3, <1>4, <1>5, <2>0
  <2>2. \A i \in k + 1 .. k + p : i - k \in 1..p /\ ~(i <= k) /\ i \in 1 .. k + p
    BY <1>1
  <2>3. \A i \in 1..k : i <= k /\ i \in 1 .. k + p
    BY <1>1
  <2>4. QED
    BY <1>4, <2>1, <2>2, <2>3
<1>7. \A n \in 0 .. Len(text) :
         /\ \A i \in n + 1 .. Len(text) : text[i] = Equals
         /\ n > 0 => text[n] # Equals
         => n = k
  <2> SUFFICES ASSUME NEW n \in 0 .. k + p,
                      \A i \in n + 1 .. k + p : text[i] = Equals,
                      n > 0 => text[n] # Equals
               PROVE  n = k
    BY <1>6
  <2>1. ~(n < k)
    <3>1. n < k => k \in n + 1 .. k + p /\ k \in 1..k
      BY <1>1
    <3>2. QED
      BY <1>2, <1>3, <1>6, <3>1
  <2>2. ~(n > k)
    <3>1. n > k => n \in k + 1 .. k + p /\ n > 0
      BY <1>1
    <3>2. QED
      BY <1>6, <3>1
  <2>3. QED
    BY <1>1, <2>1, <2>2
<1>8. TrimEnd(text, {Equals}) = digits
  <2>1. PICK n \in 0 .. Len(text) :
            /\ TrimEnd(text, {Equals}) = SubSeq(text, 1, n)
            /\ \A i \in n + 1 .. Len(text) : text[i] \in {Equals}
            /\ n > 0 => text[n] \notin {Equals}
    BY <1>6, TrimEndPlace
  <2>2. n = k
    BY <1>7, <2>1
  <2>3. SubSeq(text, 1, k) = digits
    <3>1. 1 <= k + 1 /\ k <= Len(text)
      BY <1>1, <1>6
    <3>2. /\ SubSeq(text, 1, k) \in Seq(Byte) /\ Len(SubSeq(text, 1, k)) = k
          /\ \A i \in 1..k : SubSeq(text, 1, k)[i] = text[i]
      BY <1>1, <1>6, <3>1
    <3>3. QED
      BY <1>1, <1>3, <1>6, <3>2, SeqEqual
  <2>4. QED
    BY <2>1, <2>2, <2>3
<1>9. Trimmed32(text) = digits
  <2>1. \A i \in DOMAIN text : text[i] \notin White
    <3>1. \A i \in 1 .. k + p : i \in 1..k \/ i \in k + 1 .. k + p
      BY <1>1
    <3>2. Equals \notin White
      BY DEF Equals, White
    <3>3. QED
      BY <1>2, <1>3, <1>6, <3>1, <3>2
  <2>2. PICK n \in 0 .. Len(text) :
            /\ Trimmed32(text) \in Seq(Byte) /\ DOMAIN Trimmed32(text) = 1..n
            /\ \A i \in 1..n : Trimmed32(text)[i] = text[i]
            /\ \A i \in n + 1 .. Len(text) : text[i] = Equals
            /\ n > 0 => text[n] # Equals
    BY <1>6, <2>1, Trimmed32Place
  <2>3. n = k
    BY <1>7, <2>2
  <2>4. Len(Trimmed32(text)) = k
    BY <1>1, <2>2, <2>3
  <2>5. QED
    BY <1>1, <1>3, <1>6, <2>2, <2>3, <2>4, SeqEqual
<1>10. Values32(hex, digits) = values
  BY <1>1, <1>2, <1>3 DEF Values32
<1>11. QED
  BY <1>3, <1>6, <1>8, <1>9, <1>10 DEF k, digits, text

\* The text of the groups of the bytes: its digits, and the bytes they stand for.
LEMMA TextUndone ==
  ASSUME NEW hex \in BOOLEAN, NEW data \in Seq(Byte), NEW values \in Seq(Nat),
         Len(values) = (8 * Len(data) + 4) \div 5, InGroups(data, values), NEW p \in Nat
  PROVE  LET text == Padded(hex, values, p)
         IN  /\ TrimEnd(text, {Equals}) = [i \in DOMAIN Groups(data) |-> Digit(hex, Groups(data)[i])]
             /\ Len(TrimEnd(text, {Equals})) = Len(values) /\ Len(text) = Len(values) + p
             /\ FromBase32(hex, text) = data
<1> DEFINE text == Padded(hex, values, p)
<1>1. /\ Len(values) \in Nat /\ DOMAIN values = 1 .. Len(values) /\ values \in Seq(Int)
      /\ \A i \in 1 .. Len(values) : values[i] \in Nat /\ i - 1 \in Nat
  OBVIOUS
<1>2. \A i \in DOMAIN values : values[i] = Group(data, i - 1) /\ values[i] < 32
  BY <1>1, GroupType DEF InGroups
<1>3. /\ text \in Seq(Byte) /\ Len(text) = Len(values) + p
      /\ Len(DigitsOf(hex, values)) = Len(values)
      /\ TrimEnd(text, {Equals}) = DigitsOf(hex, values)
      /\ Trimmed32(text) = DigitsOf(hex, values)
      /\ Values32(hex, DigitsOf(hex, values)) = values
      /\ DigitsOf(hex, values) \in Seq(Byte)
  BY <1>2, PaddedText
<1> HIDE DEF text
<1>4. DigitsOf(hex, values) = [i \in DOMAIN Groups(data) |-> Digit(hex, Groups(data)[i])]
  <2>1. DOMAIN Groups(data) = 1 .. Len(values)
    BY DEF Groups
  <2>2. \A i \in 1 .. Len(values) : Groups(data)[i] = values[i]
    BY <1>1, <1>2 DEF Groups
  <2>3. QED
    BY <2>1, <2>2 DEF DigitsOf
<1>5. FromBase32(hex, text) = data
  <2>1. DOMAIN DigitsOf(hex, values) = DOMAIN values
    BY <1>1 DEF DigitsOf
  <2>2. \A i \in DOMAIN values : CharToInt(hex, ToUpper(DigitsOf(hex, values)[i])) = values[i]
    <3>1. \A i \in DOMAIN values : Values32(hex, DigitsOf(hex, values))[i]
                                     = CharToInt(hex, ToUpper(DigitsOf(hex, values)[i]))
      BY <2>1 DEF Values32
    <3>2. QED
      BY <1>3, <3>1
  <2>3. ~ \E i \in DOMAIN values : CharToInt(hex, ToUpper(DigitsOf(hex, values)[i])) < 0
    BY <1>1, <2>2
  <2>4. FromBase32(hex, text) =
          IF \E i \in DOMAIN Trimmed32(text) : CharToInt(hex, ToUpper(Trimmed32(text)[i])) < 0
          THEN Throws
          ELSE DecodeLoop!Fold([buffer |-> 0, bitsLeft |-> 0, result |-> <<>>],
                               Values32(hex, Trimmed32(text))).result
    BY <1>3, FromBase32Cases
  <2>5. FromBase32(hex, text)
          = DecodeLoop!Fold([buffer |-> 0, bitsLeft |-> 0, result |-> <<>>], values).result
    BY <1>3, <2>1, <2>3, <2>4
  <2>6. QED
    BY <1>1, <2>5, DecodesGroups
<1>6. QED
  BY <1>3, <1>4, <1>5 DEF text

\* The first conjunct of EncodingsUndone, whatever the bytes and the options are.
LEMMA Base32Undone ==
  ASSUME NEW hex \in BOOLEAN, NEW pad \in BOOLEAN, NEW data \in Seq(Byte)
  PROVE  LET text == ToBase32(hex, data, pad)
             digits == TrimEnd(text, {Equals})
         IN  /\ digits = [i \in DOMAIN Groups(data) |-> Digit(hex, Groups(data)[i])]
             /\ pad => Len(text) % 8 = 0 /\ Len(text) - Len(digits) < 8
             /\ FromBase32(hex, text) = data
<1>1. PICK values, p :
          /\ values \in Seq(Nat) /\ p \in Nat
          /\ Len(values) = (8 * Len(data) + 4) \div 5 /\ InGroups(data, values)
          /\ ToBase32(hex, data, pad) = Padded(hex, values, p)
          /\ pad => (Len(values) + p) % 8 = 0 /\ p < 8
  <2>1. CASE data = <<>>
    <3> DEFINE none == <<>>
    <3>1. none \in Seq(Nat) /\ Len(none) = 0 /\ InGroups(data, none)
      BY DEF InGroups
    <3>2. Len(none) = (8 * Len(data) + 4) \div 5
      BY <2>1
    <3>3. Padded(hex, none, 0) = none
      <4>1. DigitsOf(hex, none) = none /\ [i \in 1..0 |-> Equals] = none
        BY DEF DigitsOf
      <4>2. none \o none = none
        OBVIOUS
      <4>3. QED
        BY <4>1, <4>2 DEF Padded
    <3>4. ToBase32(hex, data, pad) = none
      BY <2>1 DEF ToBase32
    <3>5. \A x \in Nat : x = 0 => (x + 0) % 8 = 0
      BY SMT
    <3> HIDE DEF none
    <3>6. pad => (Len(none) + 0) % 8 = 0 /\ 0 < 8
      BY <3>1, <3>5
    <3>7. QED
      BY <3>1, <3>2, <3>3, <3>4, <3>6
  <2>2. CASE data # <<>>
    <3>1. PICK values : values = EncodeLoop(data)
      OBVIOUS
    <3>2. /\ values \in Seq(Nat) /\ Len(values) = (8 * Len(data) + 4) \div 5
          /\ InGroups(data, values)
      BY <2>2, <3>1, EncodesGroups
    <3>3. PICK p : p = IF pad THEN Padding(Len(values)) ELSE 0
      OBVIOUS
    <3>4. p \in Nat /\ (pad => (Len(values) + p) % 8 = 0 /\ p < 8)
      <4>1. Len(values) \in Nat
        BY <3>2
      <4>2. QED
        BY <3>3, <4>1, PaddingFills
    <3>5. ToBase32(hex, data, pad) = Padded(hex, values, p)
      BY <2>2, <3>1, <3>3 DEF ToBase32, Padded, DigitsOf
    <3>6. QED
      BY <3>2, <3>4, <3>5
  <2>3. QED
    BY <2>1, <2>2
<1>2. PICK text : text = ToBase32(hex, data, pad)
  OBVIOUS
<1>3. /\ TrimEnd(text, {Equals}) = [i \in DOMAIN Groups(data) |-> Digit(hex, Groups(data)[i])]
      /\ Len(TrimEnd(text, {Equals})) = Len(values) /\ Len(text) = Len(values) + p
      /\ FromBase32(hex, text) = data
  <2> DEFINE t == Padded(hex, values, p)
  <2>1. /\ values \in Seq(Nat) /\ p \in Nat
        /\ Len(values) = (8 * Len(data) + 4) \div 5 /\ InGroups(data, values)
    BY <1>1
  <2>2. /\ TrimEnd(t, {Equals}) = [i \in DOMAIN Groups(data) |-> Digit(hex, Groups(data)[i])]
        /\ Len(TrimEnd(t, {Equals})) = Len(values) /\ Len(t) = Len(values) + p
        /\ FromBase32(hex, t) = data
    BY <2>1, TextUndone
  <2>3. text = t
    BY <1>1, <1>2
  <2> HIDE DEF t
  <2>4. QED
    BY <2>2, <2>3
<1>4. pad => Len(text) % 8 = 0 /\ Len(text) - Len(TrimEnd(text, {Equals})) < 8
  <2>1. Len(values) \in Nat
    BY <1>1
  <2>2. (Len(values) + p) - Len(values) = p
    BY <1>1, <2>1
  <2>3. QED
    BY <1>1, <1>3, <2>2
<1>5. QED
  BY <1>2, <1>3, <1>4

\* Every decoder gives back the bytes its encoder was given, and ToBase32 writes
\* their groups of five bits, whatever falls out of the int that is its buffer:
\* EncodingsUndone, for byte arrays of every length.
THEOREM EncodingsUndoneAlways == InputSpec => []EncodingsUndone
<1>1. InputInv => EncodingsUndone
  <2> SUFFICES ASSUME InputInv, kind = "bytes" PROVE EncodingsUndone
    BY DEF EncodingsUndone
  <2>1. input \in Seq(Byte)
    <3>1. Bytes \subseteq Byte
      BY CodecAssumption DEF Byte
    <3>2. QED
      BY <3>1, SeqMonotonic DEF InputInv
  <2>2. \A hex, pad \in BOOLEAN :
          LET text == ToBase32(hex, input, pad)
              digits == TrimEnd(text, {Equals})
          IN  /\ digits = [i \in DOMAIN Groups(input) |-> Digit(hex, Groups(input)[i])]
              /\ pad => Len(text) % 8 = 0 /\ Len(text) - Len(digits) < 8
              /\ FromBase32(hex, text) = input
    BY <2>1, Base32Undone
  <2>3. /\ FromHexString(ToHexString(input)) = input
        /\ input # <<>> => \A upper \in BOOLEAN : FromHex16(ToHex16(upper, input)) = input
    BY <2>1, HexStringsUndone
  <2>4. /\ input # <<>> => FromUu(ToUu(input, FALSE), FALSE) = input
        /\ FromUu(ToUu(input, TRUE), TRUE) = input <=> \A i \in DOMAIN input : input[i] < 128
    BY <2>1, UuUndone
  <2>5. Len(input) > 1 /\ Last(input) # 0 =>
          GetStringFromBytesTrimNulls(GetBytesFromString(input)) = input
    BY <2>1, StretchUndone
  <2>6. QED
    BY <2>2, <2>3, <2>4, <2>5 DEF EncodingsUndone
<1>2. QED
  BY <1>1, InputsTyped, PTL
=============================================================================

---------------------------- MODULE CryptProofs ----------------------------
(***************************************************************************)
(* Proofs about the ciphers.  First ZenMatrix: key bytes keep a            *)
(* permutation one, the reverse matrix inverts it, a text that was         *)
(* encrypted decrypts to itself, for every permutation and every size of   *)
(* the alphabet; and with the matrix that no key moves nothing is          *)
(* encrypted.                                                              *)
(*                                                                         *)
(* Then Crypt, for any callers, arguments and algorithm: what is in the    *)
(* static key fields when no set-up is under way (CallInv), the types of   *)
(* everything (ValueInv), and what a decryption gives back (TextInv).      *)
(***************************************************************************)
EXTENDS Crypt, FiniteSetTheorems, TLAPS

-----------------------------------------------------------------------------
(***************************************************************************)
(* ZenMatrix.                                                              *)
(***************************************************************************)

AllPermutations == {p \in Matrices : IsPermutation(p)}

-----------------------------------------------------------------------------
(* Nibbles. *)

\* A number below N is its own remainder, and does not count as a multiple.
LEMMA SplitByte ==
  ASSUME NEW hi \in Index, NEW lo \in Index
  PROVE  /\ hi * N + lo \in ZenBytes
         /\ (hi * N + lo) \div N = hi
         /\ (hi * N + lo) % N = lo
<1> USE ZenAssumption DEF Index, ZenBytes
<1>1. hi * N \in Nat /\ hi * N <= (N - 1) * N /\ (N - 1) * N = N * N - N /\ N * N \in Nat
  OBVIOUS
<1>2. hi * N + lo \in ZenBytes
  BY <1>1
<1>3. (hi * N + lo) \div N = hi
  OBVIOUS
<1>4. (hi * N + lo) % N = lo
  OBVIOUS
<1> QED
  BY <1>2, <1>3, <1>4

\* A byte is two nibbles.
LEMMA JoinByte ==
  ASSUME NEW b \in ZenBytes
  PROVE  /\ b \div N \in Index
         /\ b % N \in Index
         /\ b = (b \div N) * N + (b % N)
<1> USE ZenAssumption DEF Index, ZenBytes
<1>1. b \in Nat /\ b < N * N /\ N * N \in Nat
  OBVIOUS
<1>2. b % N \in Index /\ b \div N \in Nat /\ b = N * (b \div N) + (b % N)
  BY <1>1
<1>3. b \div N < N
  <2>1. SUFFICES ASSUME b \div N >= N PROVE FALSE
    BY <1>2
  <2>2. N * (b \div N) >= N * N
    BY <2>1, <1>2
  <2> QED
    BY <1>1, <1>2, <2>2
<1> QED
  BY <1>2, <1>3

-----------------------------------------------------------------------------
(* The key moves the permutation. *)

\* Swapping two places of a permutation leaves a permutation (SwapSBytes).
LEMMA SwapPermutes ==
  ASSUME NEW p \in AllPermutations, NEW a \in Index, NEW b \in Index
  PROVE  SwapSBytes(p, a, b) \in AllPermutations
BY DEF AllPermutations, IsPermutation, Matrices, SwapSBytes

\* The state of the loop over the key's bytes: a permutation, and as many
\* nibbles met as bCnt counts.
Loops == [perm : AllPermutations, PermKeyHash : SUBSET Index, bCnt : Nat]
Counted(m) == m.bCnt = Cardinality(m.PermKeyHash)

LEMMA IndexSize == IsFiniteSet(Index) /\ Cardinality(Index) = N
<1>1. N \in Nat /\ 0 \in Int /\ N - 1 \in Int
  BY ZenAssumption
<1> QED
  BY <1>1, FS_Interval, ZenAssumption DEF Index

\* A turn of the loop of ZenMatrixGenWithKey keeps a permutation one: the place
\* that bCnt names exists as long as a nibble is missing.
THEOREM TurnPermutes ==
  ASSUME NEW m \in Loops, Counted(m), NEW keyByte \in Nat
  PROVE  Turn(m, keyByte) \in Loops /\ Counted(Turn(m, keyByte))
<1> DEFINE b == keyByte % N
<1>1. b \in Index
  BY ZenAssumption DEF Index
<1>2. CASE b \in m.PermKeyHash
  BY <1>2 DEF Turn
<1>3. CASE b \notin m.PermKeyHash
  <2>1. m.PermKeyHash \subseteq Index /\ IsFiniteSet(m.PermKeyHash)
    BY IndexSize, FS_Subset DEF Loops
  <2>2. m.PermKeyHash \union {b} \in SUBSET Index
    BY <1>1, <2>1
  <2>3. Cardinality(m.PermKeyHash \union {b}) = m.bCnt + 1
    BY <1>3, <2>1, FS_AddElement DEF Counted
  <2>4. m.bCnt + 1 <= N
    BY <2>2, <2>3, IndexSize, FS_Subset
  <2>5. m.bCnt \in Index
    BY <2>4, ZenAssumption DEF Index, Loops
  <2>6. SwapSBytes(m.perm, b, m.bCnt) \in AllPermutations
    BY <1>1, <2>5, SwapPermutes DEF Loops
  <2>7. Turn(m, keyByte) = [perm |-> SwapSBytes(m.perm, b, m.bCnt),
                            PermKeyHash |-> m.PermKeyHash \union {b},
                            bCnt |-> m.bCnt + 1]
    BY <1>3 DEF Turn
  <2> QED
    BY <2>2, <2>3, <2>6, <2>7 DEF Loops, Counted
<1> QED
  BY <1>2, <1>3

\* No key byte moves anything once every nibble counts as met, as PermKeyHash
\* says before the loop.
THEOREM TurnIsIdle ==
  ASSUME NEW m, m.PermKeyHash = PermKeyHash, NEW keyByte \in Nat
  PROVE  Turn(m, keyByte) = m
<1>1. keyByte % N \in Index
  BY ZenAssumption DEF Index
<1> QED
  BY <1>1 DEF Turn, PermKeyHash

\* The loop over a key's bytes.
KeyLoop == INSTANCE FoldProofs WITH Op <- Turn

\* ZenMatrixGenWithKey leaves the matrix it begins with, whatever the key:
\* everybody encrypts with the same one.
THEOREM KeyMovesNothing ==
  ASSUME NEW p, NEW keyBytes \in Seq(Nat)
  PROVE  Permute(p, keyBytes) = p
<1> DEFINE start == [perm |-> p, PermKeyHash |-> PermKeyHash, bCnt |-> 0]
<1>1. \A e \in Nat : Turn(start, e) = start
  BY TurnIsIdle
<1>2. KeyLoop!Fold(start, keyBytes) \in {start}
  BY <1>1, KeyLoop!FoldType
<1>3. Permute(p, keyBytes) = KeyLoop!Fold(start, keyBytes).perm
  BY DEF Permute, KeyLoop!Fold, FoldLeft, KeyLoop!FoldLeft, MapThenFoldSet,
         KeyLoop!MapThenFoldSet, Max, KeyLoop!Max
<1>4. QED
  BY <1>2, <1>3

-----------------------------------------------------------------------------
(* The reverse matrix. *)

LEMMA PermutationOnto ==
  ASSUME NEW p \in AllPermutations, NEW v \in Index
  PROVE  \E i \in Index : p[i] = v
<1>1. p \in Injection(Index, Index)
  BY DEF AllPermutations, IsPermutation, Matrices, Injection, IsInjective
<1>2. p \in Surjection(Index, Index)
  BY <1>1, FS_Injection, IndexSize
<1> QED
  BY <1>2 DEF Surjection

LEMMA OnePlace ==
  ASSUME NEW p \in AllPermutations, NEW i \in Index
  PROVE  LastPlace(p, p[i]) = i
<1> DEFINE S == {m \in Index : p[m] = p[i]}
<1>1. S = {i}
  BY DEF AllPermutations, IsPermutation
<1>2. Max(S) = i
  BY <1>1 DEF Max, Index
<1> QED
  BY <1>1, <1>2 DEF LastPlace

\* BuildReveseMatrix of a permutation is a permutation, and its inverse on
\* either side.
THEOREM ReverseInverts ==
  ASSUME NEW p \in AllPermutations
  PROVE  /\ BuildReveseMatrix(p) \in AllPermutations
         /\ \A i \in Index : BuildReveseMatrix(p)[p[i]] = i
         /\ \A v \in Index : p[BuildReveseMatrix(p)[v]] = v
<1> DEFINE r == BuildReveseMatrix(p)
<1>1. \A i \in Index : p[i] \in Index /\ r[p[i]] = i
  BY OnePlace DEF BuildReveseMatrix, AllPermutations, Matrices
<1>2. \A v \in Index : r[v] \in Index /\ p[r[v]] = v
  BY <1>1, PermutationOnto
<1>3. r \in [Index -> Index]
  BY <1>2 DEF BuildReveseMatrix
<1>4. \A v, w \in Index : r[v] = r[w] => v = w
  BY <1>2
<1> QED
  BY <1>1, <1>2, <1>3, <1>4 DEF AllPermutations, IsPermutation, Matrices

-----------------------------------------------------------------------------
(* Bytes and blocks. *)

\* Mapping both nibbles of a byte with the reverse matrix undoes mapping them
\* with the matrix (MapByteValue).
THEOREM ByteRoundTrip ==
  ASSUME NEW p \in AllPermutations, NEW byte \in ZenBytes
  PROVE  /\ MapByteValue(p, byte) \in ZenBytes
         /\ MapByteValue(BuildReveseMatrix(p), MapByteValue(p, byte)) = byte
<1> DEFINE hi == byte \div N
           lo == byte % N
           r == BuildReveseMatrix(p)
<1>1. hi \in Index /\ lo \in Index /\ byte = hi * N + lo
  BY JoinByte
<1>2. p[hi] \in Index /\ p[lo] \in Index
  BY <1>1 DEF AllPermutations, Matrices
<1>3. MapByteValue(p, byte) = p[hi] * N + p[lo]
  BY DEF MapByteValue
<1>4. /\ p[hi] * N + p[lo] \in ZenBytes
      /\ (p[hi] * N + p[lo]) \div N = p[hi]
      /\ (p[hi] * N + p[lo]) % N = p[lo]
  BY <1>2, SplitByte
<1>5. r[p[hi]] = hi /\ r[p[lo]] = lo
  BY <1>1, ReverseInverts
<1>6. MapByteValue(r, p[hi] * N + p[lo]) = hi * N + lo
  BY <1>4, <1>5 DEF MapByteValue
<1> QED
  BY <1>1, <1>3, <1>4, <1>6

LEMMA ProcessPlace ==
  ASSUME NEW p \in AllPermutations, NEW block \in [Index -> ZenBytes], NEW i \in Index
  PROVE  /\ p[i] \in Index
         /\ ProcessBytes(p, block)[p[i]] = MapByteValue(p, block[i])
<1>1. p[i] \in Index
  BY DEF AllPermutations, Matrices
<1> QED
  BY <1>1, OnePlace DEF ProcessBytes

\* ProcessDecryptBytes with the reverse matrix gives back the block that
\* ProcessEncryptBytes was given.
THEOREM BlockRoundTrip ==
  ASSUME NEW p \in AllPermutations, NEW block \in [Index -> ZenBytes]
  PROVE  /\ ProcessBytes(p, block) \in [Index -> ZenBytes]
         /\ ProcessBytes(BuildReveseMatrix(p), ProcessBytes(p, block)) = block
<1> DEFINE r == BuildReveseMatrix(p)
           c == ProcessBytes(p, block)
<1>1. r \in AllPermutations /\ \A v \in Index : r[v] \in Index /\ p[r[v]] = v
  BY ReverseInverts DEF AllPermutations, Matrices
<1>2. \A i \in Index : c[p[i]] = MapByteValue(p, block[i])
  BY ProcessPlace
<1>3. \A v \in Index : c[v] \in ZenBytes
  <2>1. ASSUME NEW v \in Index PROVE c[v] \in ZenBytes
    <3>1. r[v] \in Index /\ p[r[v]] = v
      BY <1>1
    <3>2. c[v] = MapByteValue(p, block[r[v]])
      BY <1>2, <3>1
    <3> QED
      BY <3>1, <3>2, ByteRoundTrip
  <2> QED
    BY <2>1
<1>4. c \in [Index -> ZenBytes]
  BY <1>3 DEF ProcessBytes
<1>5. ASSUME NEW i \in Index
      PROVE  ProcessBytes(r, c)[i] = block[i]
  <2>1. p[i] \in Index /\ r[p[i]] = i
    BY ReverseInverts DEF AllPermutations, Matrices
  <2>2. ProcessBytes(r, c)[r[p[i]]] = MapByteValue(r, c[p[i]])
    BY <1>1, <1>4, <2>1, ProcessPlace
  <2>3. c[p[i]] = MapByteValue(p, block[i])
    BY <1>2
  <2> QED
    BY <2>1, <2>2, <2>3, ByteRoundTrip
<1>6. ProcessBytes(r, c) = [i \in Index |-> ProcessBytes(r, c)[i]]
  BY DEF ProcessBytes
<1>7. block = [i \in Index |-> block[i]]
  OBVIOUS
<1> QED
  BY <1>4, <1>5, <1>6, <1>7

-----------------------------------------------------------------------------
(* Encrypt and Decrypt. *)

LEMMA SplitNumber ==
  ASSUME NEW k \in Nat, NEW j \in Index
  PROVE  k * N + j \in Nat /\ (k * N + j) \div N = k /\ (k * N + j) % N = j
<1> USE ZenAssumption DEF Index
<1>1. k * N \in Nat
  OBVIOUS
<1> QED
  BY <1>1

LEMMA JoinNumber ==
  ASSUME NEW n \in Nat
  PROVE  n \div N \in Nat /\ n % N \in Index /\ n = (n \div N) * N + (n % N)
BY ZenAssumption DEF Index

Padded(data) == data \o Zeroes(N - (Len(data) % N))
BlockOf(data, k) == [i \in Index |-> data[k * N + i + 1]]

LEMMA ProcessByBlocks ==
  ASSUME NEW p, NEW data
  PROVE  Process(p, data) = [i \in 1..Len(Padded(data)) |->
             ProcessBytes(p, BlockOf(Padded(data), (i - 1) \div N))[(i - 1) % N]]
BY DEF Process, Padded, BlockOf

\* What is padded consists of whole blocks, and begins with the data.
LEMMA PaddedBlocks ==
  ASSUME NEW data \in Seq(ZenBytes)
  PROVE  /\ Padded(data) \in Seq(ZenBytes)
         /\ Len(Padded(data)) = (Len(data) \div N + 1) * N
         /\ Len(data) <= Len(Padded(data))
         /\ \A i \in 1..Len(data) : Padded(data)[i] = data[i]
<1> DEFINE m == N - (Len(data) % N)
<1>1. Len(data) \in Nat /\ m \in Nat /\ Len(data) + m = (Len(data) \div N + 1) * N
  <2>1. Len(data) = (Len(data) \div N) * N + (Len(data) % N) /\ Len(data) \div N \in Nat
        /\ Len(data) % N \in Index
    BY JoinNumber
  <2>2. (Len(data) \div N + 1) * N = (Len(data) \div N) * N + N
    BY <2>1, ZenAssumption
  <2> QED
    BY <2>1, <2>2, ZenAssumption DEF Index
<1>2. 0 \in ZenBytes
  BY ZenAssumption, JoinNumber, SplitByte DEF ZenBytes, Index
<1>3. Zeroes(m) \in Seq(ZenBytes) /\ Len(Zeroes(m)) = m
  BY <1>1, <1>2 DEF Zeroes
<1>4. Padded(data) = data \o Zeroes(m)
  BY DEF Padded
<1> HIDE DEF m
<1> QED
  BY <1>1, <1>3, <1>4

\* A whole block inside a sequence.
LEMMA BlockInside ==
  ASSUME NEW q \in Nat, NEW k \in Nat, NEW j \in Index, k * N + j < q * N, NEW i \in Index
  PROVE  k * N + i + 1 \in 1 .. q * N
<1>1. k < q
  <2>1. SUFFICES ASSUME k >= q PROVE FALSE
    OBVIOUS
  <2>2. k * N >= q * N
    BY <2>1, ZenAssumption
  <2> QED
    BY <2>2, ZenAssumption DEF Index
<1>2. (k + 1) * N <= q * N /\ (k + 1) * N = k * N + N /\ k * N \in Nat /\ q * N \in Nat
  BY <1>1, ZenAssumption
<1> QED
  BY <1>2, ZenAssumption DEF Index

\* Decrypt with the reverse of a permutation gives back what Encrypt with the
\* permutation was given, and bytes behind it.
THEOREM DecryptUndoesEncrypt ==
  ASSUME NEW p \in AllPermutations, NEW data \in Seq(ZenBytes)
  PROVE  LET decrypted == Process(BuildReveseMatrix(p), Process(p, data))
         IN  /\ Len(data) <= Len(decrypted)
             /\ \A i \in 1..Len(data) : decrypted[i] = data[i]
<1> DEFINE r == BuildReveseMatrix(p)
           q == Len(data) \div N + 1
           text == Padded(data)
           c == Process(p, data)
           d == Process(r, c)
<1>1. q \in Nat /\ q * N \in Nat
  <2>1. Len(data) \in Nat
    OBVIOUS
  <2>2. Len(data) \div N \in Nat
    BY <2>1, JoinNumber
  <2> QED
    BY <2>2, ZenAssumption
<1>2. text \in Seq(ZenBytes) /\ Len(text) = q * N
  BY PaddedBlocks
<1>3. ASSUME NEW i \in 1 .. q * N
      PROVE  LET k == (i - 1) \div N
                 j == (i - 1) % N
             IN  k \in Nat /\ j \in Index /\ i = k * N + j + 1 /\ k * N + j < q * N
  <2> DEFINE k == (i - 1) \div N
             j == (i - 1) % N
  <2>1. i - 1 \in Nat /\ i \in Nat /\ i <= q * N
    BY <1>1
  <2>2. k \in Nat /\ j \in Index /\ i - 1 = k * N + j
    BY <2>1, JoinNumber
  <2>3. k * N + j \in Nat
    BY <2>2, SplitNumber
  <2> HIDE DEF k, j, q
  <2>4. i = k * N + j + 1 /\ k * N + j < q * N
    BY <1>1, <2>1, <2>2, <2>3
  <2> QED
    BY <2>2, <2>4 DEF k, j
<1>4. ASSUME NEW i \in 1 .. q * N
      PROVE  BlockOf(text, (i - 1) \div N) \in [Index -> ZenBytes]
  BY <1>1, <1>2, <1>3, BlockInside DEF BlockOf
<1>5. c \in Seq(ZenBytes) /\ Len(c) = q * N
  <2>1. \A i \in 1 .. q * N : c[i] \in ZenBytes
    BY <1>2, <1>3, <1>4, ProcessByBlocks, BlockRoundTrip
  <2>2. c = [i \in 1 .. q * N |-> c[i]]
    BY <1>2, ProcessByBlocks
  <2> HIDE DEF c, q
  <2> QED
    BY <1>1, <2>1, <2>2
<1>6. /\ Padded(c) \in Seq(ZenBytes) /\ Len(Padded(c)) \in Nat /\ q * N <= Len(Padded(c))
      /\ \A i \in 1 .. q * N : Padded(c)[i] = c[i]
  BY <1>5, PaddedBlocks
<1>7. ASSUME NEW i \in 1 .. q * N
      PROVE  BlockOf(Padded(c), (i - 1) \div N) = ProcessBytes(p, BlockOf(text, (i - 1) \div N))
  <2> DEFINE k == (i - 1) \div N
  <2>1. k \in Nat /\ \A j \in Index : k * N + j + 1 \in 1 .. q * N
    BY <1>1, <1>3, BlockInside
  <2>2. ASSUME NEW j \in Index
        PROVE  Padded(c)[k * N + j + 1] = ProcessBytes(p, BlockOf(text, k))[j]
    <3>1. k * N + j + 1 \in 1 .. q * N /\ k * N + j \in Nat
      BY <2>1, SplitNumber
    <3>2. (k * N + j + 1) - 1 = k * N + j
      BY <3>1
    <3>3. c[k * N + j + 1] = ProcessBytes(p, BlockOf(text, (k * N + j) \div N))[(k * N + j) % N]
      BY <1>2, <3>1, <3>2, ProcessByBlocks
    <3> QED
      BY <1>6, <2>1, <3>1, <3>3, SplitNumber
  <2>3. ProcessBytes(p, BlockOf(text, k))
          = [j \in Index |-> ProcessBytes(p, BlockOf(text, k))[j]]
    BY DEF ProcessBytes
  <2> QED
    BY <2>2, <2>3 DEF BlockOf
<1>8. ASSUME NEW i \in 1 .. q * N
      PROVE  d[i] = text[i]
  <2> DEFINE k == (i - 1) \div N
             j == (i - 1) % N
  <2>1. i \in 1 .. Len(Padded(c))
    BY <1>1, <1>6
  <2>2. d[i] = ProcessBytes(r, BlockOf(Padded(c), k))[j]
    BY <2>1, ProcessByBlocks
  <2>3. ProcessBytes(r, BlockOf(Padded(c), k)) = BlockOf(text, k)
    BY <1>4, <1>7, BlockRoundTrip
  <2>4. BlockOf(text, k)[j] = text[k * N + j + 1] /\ i = k * N + j + 1
    BY <1>3 DEF BlockOf
  <2> QED
    BY <2>2, <2>3, <2>4
<1>9. Len(d) = Len(Padded(c))
  BY <1>6, ProcessByBlocks
<1>10. Len(data) <= q * N /\ \A i \in 1 .. Len(data) : text[i] = data[i]
  BY <1>2, PaddedBlocks
<1>11. Len(data) \in Nat
  OBVIOUS
<1> QED
  BY <1>1, <1>6, <1>8, <1>9, <1>10, <1>11

-----------------------------------------------------------------------------
(* What every matrix does, permutation or not. *)

\* A set of numbers up to n that is not empty has a largest one.
LEMMA LargestOf ==
  ASSUME NEW n \in Nat, NEW S \in SUBSET (0..n), S # {}
  PROVE  Max(S) \in S /\ \A x \in S : x <= Max(S)
<1> DEFINE t == {i + 1 : i \in S}
<1>1. t \in SUBSET (1 .. n + 1) /\ t # {} /\ n + 1 \in Nat
  <2>1. PICK s \in S : TRUE
    OBVIOUS
  <2>2. s + 1 \in t /\ \A i \in S : i + 1 \in 1 .. n + 1
    OBVIOUS
  <2>3. QED
    BY <2>2
<1>2. PICK m \in t : \A y \in t : y <= m
  <2> HIDE DEF t
  <2>1. QED
    BY <1>1, KeyLoop!Largest
<1>3. m - 1 \in S /\ \A x \in S : x <= m - 1
  BY <1>2
<1>4. QED
  BY <1>3 DEF Max

LEMMA LastPlaceType ==
  ASSUME NEW p \in Matrices, NEW v
  PROVE  LastPlace(p, v) \in Index
<1> DEFINE S == {m \in Index : p[m] = v}
<1>1. S \in SUBSET (0 .. N - 1) /\ N - 1 \in Nat /\ 0 \in Index
  BY ZenAssumption DEF Index
<1>2. CASE S = {}
  BY <1>1, <1>2 DEF LastPlace
<1>3. CASE S # {}
  <2>1. Max(S) \in S
    <3> HIDE DEF S
    <3>1. QED
      BY <1>1, <1>3, LargestOf
  <2>2. QED
    BY <1>3, <2>1 DEF LastPlace
<1>4. QED
  BY <1>2, <1>3

\* BuildReveseMatrix makes a matrix of any matrix.
LEMMA ReverseType ==
  ASSUME NEW p \in Matrices
  PROVE  BuildReveseMatrix(p) \in Matrices
BY LastPlaceType DEF BuildReveseMatrix, Matrices

LEMMA ZeroByte == 0 \in ZenBytes /\ 0 \in Index
<1>1. 0 \in Index
  BY ZenAssumption DEF Index
<1>2. 0 * N + 0 \in ZenBytes /\ 0 * N + 0 = 0
  BY <1>1, SplitByte, ZenAssumption
<1>3. QED
  BY <1>1, <1>2

LEMMA ProcessBytesType ==
  ASSUME NEW p \in Matrices, NEW block \in [Index -> ZenBytes]
  PROVE  ProcessBytes(p, block) \in [Index -> ZenBytes]
<1>1. ASSUME NEW byte \in ZenBytes
      PROVE  MapByteValue(p, byte) \in ZenBytes
  <2>1. p[byte \div N] \in Index /\ p[byte % N] \in Index
    BY JoinByte DEF Matrices
  <2>2. QED
    BY <2>1, SplitByte DEF MapByteValue
<1>2. \A i \in Index : MapByteValue(p, block[LastPlace(p, i)]) \in ZenBytes
  BY <1>1, LastPlaceType
<1>3. QED
  BY <1>2, ZeroByte DEF ProcessBytes

\* The place of a byte in its block, and the block inside the data.
LEMMA BlocksOf ==
  ASSUME NEW data \in Seq(ZenBytes), NEW q \in Nat, Len(data) = q * N, NEW i \in 1..Len(data)
  PROVE  /\ (i - 1) \div N \in Nat /\ (i - 1) % N \in Index
         /\ i = ((i - 1) \div N) * N + ((i - 1) % N) + 1
         /\ BlockOf(data, (i - 1) \div N) \in [Index -> ZenBytes]
<1> DEFINE k == (i - 1) \div N
           j == (i - 1) % N
<1>1. i - 1 \in Nat /\ i \in Nat /\ i <= q * N /\ q * N \in Nat
  OBVIOUS
<1>2. k \in Nat /\ j \in Index /\ i - 1 = k * N + j
  BY <1>1, JoinNumber
<1>3. k * N + j \in Nat
  BY <1>2, SplitNumber
<1> HIDE DEF k, j
<1>4. i = k * N + j + 1 /\ k * N + j < q * N
  BY <1>1, <1>2, <1>3
<1>5. \A x \in Index : k * N + x + 1 \in 1 .. q * N
  BY <1>2, <1>4, BlockInside
<1>6. BlockOf(data, k) \in [Index -> ZenBytes]
  BY <1>5 DEF BlockOf
<1>7. QED
  BY <1>2, <1>4, <1>6 DEF k, j

\* Encrypt and Decrypt give bytes for bytes, as many as were filled up.
LEMMA ProcessType ==
  ASSUME NEW p \in Matrices, NEW data \in Seq(ZenBytes)
  PROVE  Process(p, data) \in Seq(ZenBytes)
<1> DEFINE text == Padded(data)
           q == Len(data) \div N + 1
<1>1. text \in Seq(ZenBytes) /\ Len(text) = q * N /\ Len(text) \in Nat /\ q \in Nat
  <2>1. Len(data) \in Nat
    OBVIOUS
  <2>2. Len(data) \div N \in Nat
    BY <2>1, JoinNumber
  <2>3. text \in Seq(ZenBytes) /\ Len(text) = q * N
    BY PaddedBlocks
  <2> HIDE DEF text
  <2>4. QED
    BY <2>2, <2>3
<1>2. ASSUME NEW i \in 1..Len(text)
      PROVE  ProcessBytes(p, BlockOf(text, (i - 1) \div N))[(i - 1) % N] \in ZenBytes
  <2> HIDE DEF text, q
  <2>1. /\ (i - 1) % N \in Index
        /\ BlockOf(text, (i - 1) \div N) \in [Index -> ZenBytes]
    BY <1>1, BlocksOf
  <2>2. QED
    BY <2>1, ProcessBytesType
<1>3. Process(p, data) \in [1..Len(text) -> ZenBytes]
  BY <1>2, ProcessByBlocks
<1>4. QED
  <2> HIDE DEF text
  <2>1. QED
    BY <1>1, <1>3

-----------------------------------------------------------------------------
(* The matrix that no key moves. *)

LEMMA BaseIsItsReverse ==
  /\ MatrixBasePerm \in AllPermutations
  /\ BuildReveseMatrix(MatrixBasePerm) = MatrixBasePerm
<1>1. MatrixBasePerm \in AllPermutations /\ \A i \in Index : MatrixBasePerm[i] = i
  BY DEF MatrixBasePerm, AllPermutations, IsPermutation, Matrices
<1>2. \A i \in Index : LastPlace(MatrixBasePerm, i) = i
  BY <1>1, OnePlace
<1>3. QED
  BY <1>1, <1>2 DEF BuildReveseMatrix, MatrixBasePerm

LEMMA BaseKeepsBlock ==
  ASSUME NEW block \in [Index -> ZenBytes]
  PROVE  ProcessBytes(MatrixBasePerm, block) = block
<1>1. MatrixBasePerm \in AllPermutations /\ \A i \in Index : MatrixBasePerm[i] = i
  BY BaseIsItsReverse DEF MatrixBasePerm
<1>2. \A b \in ZenBytes : MapByteValue(MatrixBasePerm, b) = b
  BY <1>1, JoinByte DEF MapByteValue
<1>3. \A i \in Index : ProcessBytes(MatrixBasePerm, block)[i] = block[i]
  <2> TAKE i \in Index
  <2>1. ProcessBytes(MatrixBasePerm, block)[i] = MapByteValue(MatrixBasePerm, block[i])
    BY <1>1, ProcessPlace
  <2>2. QED
    BY <1>2, <2>1
<1>4. ProcessBytes(MatrixBasePerm, block)
        = [i \in Index |-> ProcessBytes(MatrixBasePerm, block)[i]]
  BY DEF ProcessBytes
<1>5. block = [i \in Index |-> block[i]]
  OBVIOUS
<1>6. QED
  BY <1>3, <1>4, <1>5

\* With the matrix that ZenMatrixGenWithKey always leaves, Encrypt gives the
\* bytes it was given and the zeroes it filled them up with.
THEOREM EncryptCopies ==
  ASSUME NEW data \in Seq(ZenBytes)
  PROVE  Process(MatrixBasePerm, data) = Padded(data)
<1> DEFINE text == Padded(data)
           q == Len(data) \div N + 1
<1>1. text \in Seq(ZenBytes) /\ Len(text) = q * N /\ Len(text) \in Nat /\ q \in Nat
  <2>1. Len(data) \in Nat
    OBVIOUS
  <2>2. Len(data) \div N \in Nat
    BY <2>1, JoinNumber
  <2>3. text \in Seq(ZenBytes) /\ Len(text) = q * N
    BY PaddedBlocks
  <2> HIDE DEF text
  <2>4. QED
    BY <2>2, <2>3
<1>2. ASSUME NEW i \in 1..Len(text)
      PROVE  ProcessBytes(MatrixBasePerm, BlockOf(text, (i - 1) \div N))[(i - 1) % N] = text[i]
  <2> HIDE DEF text, q
  <2> DEFINE k == (i - 1) \div N
             j == (i - 1) % N
  <2>1. j \in Index /\ i = k * N + j + 1 /\ BlockOf(text, k) \in [Index -> ZenBytes]
    BY <1>1, BlocksOf
  <2>2. ProcessBytes(MatrixBasePerm, BlockOf(text, k)) = BlockOf(text, k)
    BY <2>1, BaseKeepsBlock
  <2>3. BlockOf(text, k)[j] = text[k * N + j + 1]
    BY <2>1 DEF BlockOf
  <2>4. QED
    BY <2>1, <2>2, <2>3
<1>3. Process(MatrixBasePerm, data) = [i \in 1..Len(text) |-> text[i]]
  BY <1>2, ProcessByBlocks
<1> HIDE DEF text
<1>4. text = [i \in 1..Len(text) |-> text[i]]
  BY <1>1
<1>5. QED
  BY <1>3, <1>4 DEF text

-----------------------------------------------------------------------------
(* TrimEnd. *)

\* The last byte that is not zero, or none.
Kept(data) == Max({0} \union {i \in DOMAIN data : data[i] # 0})

LEMMA KeptIs ==
  ASSUME NEW T, NEW data \in Seq(T)
  PROVE  /\ Kept(data) \in 0..Len(data)
         /\ \A i \in 1..Len(data) : data[i] # 0 => i <= Kept(data)
         /\ Kept(data) # 0 => data[Kept(data)] # 0
<1> DEFINE S == {0} \union {i \in DOMAIN data : data[i] # 0}
<1>1. S \in SUBSET (0..Len(data)) /\ S # {} /\ Len(data) \in Nat
  OBVIOUS
<1>2. Max(S) \in S /\ \A x \in S : x <= Max(S)
  <2> HIDE DEF S
  <2>1. QED
    BY <1>1, LargestOf
<1>3. QED
  BY <1>2 DEF Kept

LEMMA TrimEndType ==
  ASSUME NEW T, NEW data \in Seq(T)
  PROVE  TrimEnd(data) \in Seq(T)
<1>1. Kept(data) \in 0..Len(data) /\ TrimEnd(data) = SubSeq(data, 1, Kept(data))
  BY KeptIs DEF TrimEnd, Kept
<1>2. QED
  BY <1>1

\* TrimEnd takes away all that was filled up.
LEMMA TrimEndOfPadded ==
  ASSUME NEW data \in Seq(ZenBytes)
  PROVE  TrimEnd(Padded(data)) = TrimEnd(data)
<1> DEFINE text == Padded(data)
           m == N - (Len(data) % N)
<1>1. m \in Nat /\ Len(data) \in Nat
  <2>1. Len(data) \in Nat /\ Len(data) % N \in Index
    BY JoinNumber
  <2>2. QED
    BY <2>1, ZenAssumption DEF Index
<1>2. /\ text \in Seq(ZenBytes) /\ Len(data) <= Len(text)
      /\ \A i \in 1..Len(data) : text[i] = data[i]
  BY PaddedBlocks
<1>3. \A i \in 1..Len(text) : Len(data) < i => text[i] = 0
  <2>1. Zeroes(m) \in Seq(ZenBytes) /\ Len(Zeroes(m)) = m /\ \A i \in 1..m : Zeroes(m)[i] = 0
    BY <1>1, ZeroByte DEF Zeroes
  <2>2. text = data \o Zeroes(m)
    BY DEF Padded
  <2> HIDE DEF m
  <2>3. QED
    BY <1>1, <2>1, <2>2
<1> HIDE DEF text, m
<1>4. Kept(text) = Kept(data)
  <2>1. /\ Kept(text) \in 0..Len(text)
        /\ \A i \in 1..Len(text) : text[i] # 0 => i <= Kept(text)
        /\ Kept(text) # 0 => text[Kept(text)] # 0
    BY <1>2, KeptIs
  <2>2. /\ Kept(data) \in 0..Len(data)
        /\ \A i \in 1..Len(data) : data[i] # 0 => i <= Kept(data)
        /\ Kept(data) # 0 => data[Kept(data)] # 0
    BY KeptIs
  <2>3. Len(text) \in Nat
    BY <1>2
  <2>4. Kept(text) <= Kept(data)
    BY <1>1, <1>2, <1>3, <2>1, <2>2, <2>3
  <2>5. Kept(data) <= Kept(text)
    BY <1>1, <1>2, <2>1, <2>2, <2>3
  <2>6. QED
    BY <1>1, <2>1, <2>2, <2>3, <2>4, <2>5
<1>5. SubSeq(text, 1, Kept(data)) = SubSeq(data, 1, Kept(data))
  <2>1. Kept(data) \in 0..Len(data)
    BY KeptIs
  <2>2. QED
    BY <1>1, <1>2, <2>1
<1>6. QED
  BY <1>4, <1>5 DEF TrimEnd, Kept, text

\* What DecryptString makes of EncryptString's bytes: the bytes without the
\* zeroes at their end, lost whether they were filled up or not.
THEOREM BaseRoundTrip ==
  ASSUME NEW data \in Seq(ZenBytes)
  PROVE  TrimEnd(Process(BuildReveseMatrix(MatrixBasePerm), Process(MatrixBasePerm, data)))
           = TrimEnd(data)
<1>1. Process(MatrixBasePerm, data) = Padded(data) /\ Padded(data) \in Seq(ZenBytes)
  BY EncryptCopies, PaddedBlocks
<1>2. Process(MatrixBasePerm, Padded(data)) = Padded(Padded(data))
  BY <1>1, EncryptCopies
<1>3. TrimEnd(Padded(Padded(data))) = TrimEnd(data)
  BY <1>1, TrimEndOfPadded
<1>4. QED
  BY <1>1, <1>2, <1>3, BaseIsItsReverse

-----------------------------------------------------------------------------
(***************************************************************************)
(* Crypt.                                                                  *)
(***************************************************************************)

\* Every call has arguments of its own.
LEMMA SomethingGiven == Nobody \notin Arguments
BY CryptAssumption DEF Nobody

-----------------------------------------------------------------------------
(* The keys, with the algorithm as a parameter. *)

NameOf(a, args) ==
    IF a = "ZenMatrix" /\ args.secret = <<>> THEN AuthorEmail ELSE args.secret

\* What set-up makes of its arguments.
MadeKey(a, args) ==
    IF a = "ZenMatrix"
    THEN Permute(MatrixBasePerm, GetUserKeyBytes(NameOf(a, args), args.hash, N))
    ELSE IF args.secret = <<>> THEN DefaultKey
    ELSE GetUserKeyBytes(args.secret, args.hash, KeyLen)

KeyOf(a, args) == IF args = Nobody THEN FirstKey(a) ELSE MadeKey(a, args)

SecondOf(a, args) ==
    IF args = Nobody THEN FirstSecond(a)
    ELSE IF a = "ZenMatrix" THEN BuildReveseMatrix(MadeKey(a, args))
    ELSE IF a = "AES" THEN MadeKey(a, args)
    ELSE <<>>

\* They are those that Crypt names.
LEMMA SameKeys ==
  ASSUME NEW args
  PROVE  /\ KeyFor(args) = KeyOf(algo, args)
         /\ Name(args.secret) = NameOf(algo, args)
         /\ SecondFor(args) = SecondOf(algo, args)
<1>1. Name(args.secret) = NameOf(algo, args)
  BY DEF Name, NameOf
<1>2. KeyFor(args) = KeyOf(algo, args)
  BY <1>1 DEF KeyFor, KeyOf, MadeKey, NameOf
<1>3. SecondFor(args) = SecondOf(algo, args)
  <2>1. CASE args = Nobody
    BY <2>1 DEF SecondFor, SecondOf
  <2>2. CASE args # Nobody
    <3>1. KeyFor(args) = MadeKey(algo, args)
      BY <1>2, <2>2 DEF KeyOf
    <3>2. QED
      BY <2>2, <3>1 DEF SecondFor, SecondOf
  <2>3. QED
    BY <2>1, <2>2
<1>4. QED
  BY <1>1, <1>2, <1>3

\* AES keeps its key twice; most algorithms keep nothing beside it.
LEMMA SecondIs ==
  ASSUME NEW a, NEW args
  PROVE  /\ a = "AES" => SecondOf(a, args) = KeyOf(a, args)
         /\ a \notin Two => SecondOf(a, args) = <<>>
BY DEF SecondOf, KeyOf, FirstKey, FirstSecond, Two

\* An empty hash and the address that stands in for it make the same bytes.
LEMMA HashStandsIn ==
  ASSUME NEW secret, NEW hash, NEW len, hash \in {NullHash, <<>>}
  PROVE  GetUserKeyBytes(secret, Area23Email, len) = GetUserKeyBytes(secret, hash, len)
<1>1. (IF Area23Email \in {NullHash, <<>>} THEN Area23Email ELSE Area23Email)
        = (IF hash \in {NullHash, <<>>} THEN Area23Email ELSE hash)
  OBVIOUS
<1>2. QED
  BY <1>1, Zenon DEF GetUserKeyBytes

-----------------------------------------------------------------------------
(* The invariant. *)

SettingUp == {"name", "hash", "derive", "blank", "copy"}
PcStates == SettingUp \union
    {"idle", "check", "read", "second", "construct", "cipher", "done", "failed"}
Kinds == {"none", "enc", "dec"}

\* Where a caller can be with an algorithm and a kind of call.
TypeInv ==
    /\ algo \in AllAlgos
    /\ pc \in [Callers -> PcStates]
    /\ call \in [Callers -> [kind : Kinds, args : Arguments \union {Nobody}]]
    /\ local = [c \in Callers |-> local[c]]
    /\ alone \in [Callers -> BOOLEAN] /\ mixed \in BOOLEAN
    /\ \A c \in Callers :
          /\ Busy(c) => call[c].args \in Arguments /\ call[c].kind # "none"
          /\ At(c, "check") => ~Renews(call[c].kind)
          /\ pc[c] \in SettingUp => Renews(call[c].kind)
          /\ pc[c] \in {"read", "second"} =>
                algo = "AES" \/ (algo = "ZenMatrix" /\ call[c].kind = "enc")
          /\ At(c, "construct") => algo = "Camellia"
    /\ algo \notin Two => second = <<>>

\* Beside a call that was never disturbed there is none that would have; where
\* one that sets fields was, the fields count as mixed.
AloneInv ==
    /\ \A c, d \in Callers :
          /\ alone[c] /\ Busy(c) /\ Busy(d) /\ Disturbs(call[d].kind, call[c].kind)
          => c = d
    /\ \A c \in Callers : Busy(c) /\ Sets(call[c].kind) /\ ~alone[c] => mixed

NameFrom(args) == privateKey = NameOf(algo, args)
KeyFrom(args) == key = KeyOf(algo, args) /\ second = SecondOf(algo, args)
NameLeft == IF named = Nobody THEN privateKey = <<>> ELSE NameFrom(named)
Fields == NameLeft /\ KeyFrom(keyed)

HashFrom(args) ==
    userHash = IF algo = "ZenMatrix" /\ args.hash \in {NullHash, <<>>} THEN Area23Email
               ELSE args.hash

\* What an undisturbed set-up has done to the fields, step by step.
Stage(c) ==
    LET args == call[c].args
    IN  /\ pc[c] \in {"name", "cipher", "done", "failed"} => mixed \/ Fields
        /\ pc[c] \in {"hash", "derive", "blank", "copy", "read", "second"} => NameFrom(args)
        /\ pc[c] \in {"hash", "derive"} /\ algo # "ZenMatrix" =>
              args.secret # <<>> /\ (mixed \/ KeyFrom(keyed))
        /\ pc[c] = "derive" => algo = "AES" \/ HashFrom(args)
        /\ pc[c] = "blank" =>
              IF algo = "ZenMatrix" THEN HashFrom(args) ELSE local[c] = MadeKey(algo, args)
        /\ pc[c] = "copy" =>
              IF algo = "ZenMatrix"
              THEN /\ key = MatrixBasePerm
                   /\ local[c] = GetUserKeyBytes(NameOf(algo, args), args.hash, N)
              ELSE local[c] = MadeKey(algo, args)
        /\ pc[c] \in {"read", "second"} => key = MadeKey(algo, args)

StageInv == \A c \in Callers : alone[c] /\ Renewing(c) => Stage(c)

\* What an undisturbed call has read from the key is still there when it is
\* assigned.
ReadInv == \A c \in Callers : alone[c] /\ At(c, "second") => local[c] = key

\* Between set-ups the fields are those of the last ones.
QuietInv == Quiet => mixed \/ Fields

\* The inductive invariant.
CallInv == AloneInv /\ StageInv /\ ReadInv /\ QuietInv
IInv == TypeInv /\ CallInv

-----------------------------------------------------------------------------
(* Types. *)

LEMMA InitType == Init => TypeInv
<1> SUFFICES ASSUME Init PROVE TypeInv
  OBVIOUS
<1>1. algo \in AllAlgos /\ (algo \notin Two => second = <<>>)
  BY CryptAssumption DEF Init, FirstSecond, Two
<1>2. QED
  BY <1>1
  DEF Init, TypeInv, PcStates, SettingUp, Kinds, NoCall, Busy, At

\* Every step of a caller.
CallerStep(c) ==
    \/ GenWithKey(c) \/ ConstructBounceCastle(c)
    \/ CipherThrows(c) \/ Encrypt(c) \/ Decrypt(c) \/ Return(c)

\* Where a caller goes next and what else of the types a step may touch.
Moves(c, p) ==
    /\ pc' = [pc EXCEPT ![c] = p]
    /\ UNCHANGED <<algo, call, alone>>
    /\ \A d \in Callers \ {c} : local'[d] = local[d]
    /\ local' = [d \in Callers |-> local'[d]]

LEMMA MovesType ==
  ASSUME TypeInv, NEW c \in Callers, Busy(c), NEW p \in PcStates, Moves(c, p), mixed' \in BOOLEAN,
         p = "check" => ~Renews(call[c].kind),
         p \in SettingUp => Renews(call[c].kind),
         p \in {"read", "second"} => algo = "AES" \/ (algo = "ZenMatrix" /\ call[c].kind = "enc"),
         p = "construct" => algo = "Camellia",
         algo \notin Two => second' = <<>>
  PROVE  TypeInv'
<1>1. pc' \in [Callers -> PcStates] /\ pc'[c] = p /\ \A d \in Callers \ {c} : pc'[d] = pc[d]
  BY DEF TypeInv, Moves
<1>2. \A d \in Callers :
         /\ pc'[d] # "idle" => call[d].args \in Arguments /\ call[d].kind # "none"
         /\ pc'[d] = "check" => ~Renews(call[d].kind)
         /\ pc'[d] \in SettingUp => Renews(call[d].kind)
         /\ pc'[d] \in {"read", "second"} => algo = "AES" \/ (algo = "ZenMatrix" /\ call[d].kind = "enc")
         /\ pc'[d] = "construct" => algo = "Camellia"
  BY <1>1 DEF TypeInv, Busy, At
<1>3. QED
  BY <1>1, <1>2 DEF TypeInv, Moves, Busy, At, Renews

-----------------------------------------------------------------------------
(* Steps within a call. *)

LEMMA InitCalls == Init => CallInv
<1> SUFFICES ASSUME Init PROVE CallInv
  OBVIOUS
<1>1. \A c \in Callers : ~Busy(c) /\ ~Renewing(c) /\ ~At(c, "second")
  BY DEF Init, Renewing, Busy, At
<1>2. key = KeyOf(algo, Nobody) /\ second = SecondOf(algo, Nobody)
  BY DEF Init, KeyOf, SecondOf
<1>3. Fields
  BY <1>2 DEF Init, Fields, NameLeft, KeyFrom
<1>4. QED
  BY <1>1, <1>3 DEF CallInv, AloneInv, StageInv, ReadInv, QuietInv

\* Beside a call that renews the key none is undisturbed, and an undisturbed
\* one that renews it is the only one that sets anything.
LEMMA OnlyOne ==
  ASSUME CallInv, NEW c \in Callers, Renewing(c)
  PROVE  /\ \A d \in Callers : alone[d] /\ Busy(d) => c = d
         /\ \A d \in Callers : alone[c] /\ Busy(d) /\ Sets(call[d].kind) => c = d
<1>1. Busy(c) /\ Renews(call[c].kind) /\ Sets(call[c].kind)
  BY DEF Renewing, Sets
<1>2. \A d \in Callers :
         /\ Disturbs(call[c].kind, call[d].kind)
         /\ Sets(call[d].kind) => Disturbs(call[d].kind, call[c].kind)
  BY <1>1 DEF Disturbs
<1>3. \A a, d \in Callers :
         alone[a] /\ Busy(a) /\ Busy(d) /\ Disturbs(call[d].kind, call[a].kind) => a = d
  BY DEF CallInv, AloneInv
<1>4. \A d \in Callers : alone[d] /\ Busy(d) => c = d
  BY <1>1, <1>2, <1>3
<1>5. \A d \in Callers : alone[c] /\ Busy(d) /\ Sets(call[d].kind) => c = d
  BY <1>1, <1>2, <1>3
<1>6. QED
  BY <1>4, <1>5

\* A step of a caller that is setting the fields disturbs no other's set-up:
\* an undisturbed one would be its own.
LEMMA SettingStep ==
  ASSUME TypeInv, CallInv, NEW c \in Callers, Renewing(c), NEW p \in PcStates \ {"idle"},
         Moves(c, p), alone[c] => Stage(c)',
         alone[c] /\ p = "second" => local'[c] = key',
         mixed' = mixed \/ (alone[c] /\ mixed' = FALSE)
  PROVE  CallInv'
<1>1. /\ pc'[c] = p /\ pc'[c] # "idle" /\ \A d \in Callers \ {c} : pc'[d] = pc[d]
      /\ algo' = algo /\ call' = call /\ alone' = alone /\ Busy(c)
  BY DEF TypeInv, Moves, Renewing
<1>2. \A d \in Callers : (Busy(d)' <=> Busy(d)) /\ (Renewing(d)' <=> Renewing(d))
  BY <1>1 DEF Renewing, Busy, Renews
<1>3. /\ \A d \in Callers : alone[d] /\ Busy(d) => c = d
      /\ \A d \in Callers : alone[c] /\ Busy(d) /\ Sets(call[d].kind) => c = d
  BY OnlyOne
<1>4. AloneInv'
  BY <1>1, <1>2, <1>3 DEF CallInv, AloneInv, Disturbs, Sets, Renews
<1>5. StageInv'
  BY <1>1, <1>2, <1>3 DEF StageInv, Renewing
<1>6. ReadInv'
  BY <1>1, <1>3 DEF ReadInv, At, Busy
<1>7. QuietInv'
  BY <1>2 DEF QuietInv, Quiet
<1>8. QED
  BY <1>4, <1>5, <1>6, <1>7 DEF CallInv

\* A step of any other caller changes nothing in the fields, but that AES may
\* take its key over once more, the key in place if the fields are not mixed.
LEMMA OtherStep ==
  ASSUME TypeInv, CallInv, NEW c \in Callers, ~Renewing(c), Busy(c),
         NEW p \in PcStates \ {"idle"}, Moves(c, p),
         UNCHANGED <<privateKey, userHash, key, mixed, named, keyed>>,
         p = "second" => local'[c] = key,
         second' = second \/ (algo = "AES" /\ (mixed \/ second' = key))
  PROVE  CallInv'
<1>1. /\ pc'[c] = p /\ pc'[c] # "idle" /\ \A d \in Callers \ {c} : pc'[d] = pc[d]
      /\ algo' = algo /\ call' = call /\ alone' = alone
      /\ \A d \in Callers \ {c} : local'[d] = local[d]
  BY DEF TypeInv, Moves
<1>2. \A d \in Callers : (Busy(d)' <=> Busy(d)) /\ (Renewing(d)' <=> Renewing(d))
  BY <1>1 DEF Renewing, Busy, Renews
<1>3. mixed \/ KeyFrom(keyed) => mixed' \/ KeyFrom(keyed)'
  BY <1>1, SecondIs DEF KeyFrom
<1>4. mixed \/ Fields => mixed' \/ Fields'
  BY <1>1, <1>3 DEF Fields, NameLeft, NameFrom
<1>5. ASSUME NEW d \in Callers, d # c, Stage(d)
      PROVE  Stage(d)'
  BY <1>1, <1>3, <1>4, <1>5 DEF Stage, NameFrom, HashFrom
<1>6. AloneInv'
  BY <1>1, <1>2 DEF CallInv, AloneInv, Disturbs, Sets, Renews
<1>7. StageInv'
  BY <1>1, <1>2, <1>5 DEF CallInv, StageInv
<1>8. ReadInv'
  BY <1>1 DEF CallInv, ReadInv, At
<1>9. QuietInv'
  BY <1>2, <1>4 DEF CallInv, QuietInv, Quiet
<1>10. QED
  BY <1>6, <1>7, <1>8, <1>9 DEF CallInv

\* A set-up begins with the name, or with a key from the resources.
LEMMA NameStep ==
  ASSUME TypeInv, CallInv, NEW c \in Callers, SetName(c)
  PROVE  TypeInv' /\ CallInv'
<1> DEFINE args == call[c].args
           p == IF privateKey' = <<>> THEN "blank" ELSE "hash"
<1>1. /\ pc[c] = "name" /\ Renewing(c) /\ Busy(c)
      /\ Renews(call[c].kind)
  BY DEF SetName, At, TypeInv, SettingUp, Renewing, Busy
<1>2. /\ privateKey' = NameOf(algo, args)
      /\ UNCHANGED <<algo, userHash, key, second, call, mixed, named, keyed>>
      /\ local' = IF p = "blank" THEN [local EXCEPT ![c] = DefaultKey] ELSE local
  BY SameKeys DEF SetName, history
<1>3. Moves(c, p) /\ p \in SettingUp
  BY <1>2 DEF SetName, Goto, Moves, TypeInv, history, SettingUp
<1>4. TypeInv'
  BY <1>1, <1>2, <1>3, MovesType DEF TypeInv, SettingUp, PcStates
<1>5. pc'[c] = p /\ call'[c] = call[c]
  BY <1>2, <1>3 DEF Moves, TypeInv
<1>6. ASSUME alone[c]
      PROVE  Stage(c)'
  <2>1. Stage(c)
    BY <1>1, <1>6 DEF CallInv, StageInv
  <2>2. mixed \/ KeyFrom(keyed)
    BY <1>1, <2>1 DEF Stage, Fields
  <2>3. mixed' \/ KeyFrom(keyed)'
    BY <1>2, <2>2 DEF KeyFrom
  <2>4. NameFrom(args)'
    BY <1>2 DEF NameFrom
  <2>5. CASE p = "hash"
    <3>1. algo # "ZenMatrix" => args.secret # <<>>
      BY <1>2, <2>5 DEF NameOf
    <3>2. QED
      BY <1>2, <1>5, <2>3, <2>4, <2>5, <3>1 DEF Stage
  <2>6. CASE p = "blank"
    <3>1. algo # "ZenMatrix" /\ args.secret = <<>>
      BY <1>2, <2>6, CryptAssumption DEF NameOf
    <3>2. local'[c] = MadeKey(algo, args)
      BY <1>2, <2>6, <3>1 DEF MadeKey, TypeInv
    <3>3. QED
      BY <1>2, <1>5, <2>4, <2>6, <3>1, <3>2 DEF Stage
  <2>7. QED
    BY <2>5, <2>6
<1>7. CallInv'
  BY <1>1, <1>2, <1>3, <1>6, SettingStep DEF SettingUp, PcStates
<1>8. QED
  BY <1>4, <1>7

LEMMA HashStep ==
  ASSUME TypeInv, CallInv, NEW c \in Callers, SetHash(c)
  PROVE  TypeInv' /\ CallInv'
<1> DEFINE args == call[c].args
           p == IF algo = "ZenMatrix" THEN "blank" ELSE "derive"
<1>1. pc[c] = "hash" /\ Renewing(c) /\ Busy(c) /\ Renews(call[c].kind)
  BY DEF SetHash, At, TypeInv, SettingUp, Renewing, Busy
<1>2. /\ algo = "AES" \/ userHash' = IF algo = "ZenMatrix" /\ args.hash \in {NullHash, <<>>}
                                     THEN Area23Email ELSE args.hash
      /\ UNCHANGED <<algo, privateKey, key, second, call, local, mixed, named, keyed>>
  BY DEF SetHash, history
<1>3. Moves(c, p) /\ p \in SettingUp
  BY <1>2 DEF SetHash, Goto, Moves, TypeInv, history, SettingUp
<1>4. TypeInv'
  BY <1>1, <1>2, <1>3, MovesType DEF TypeInv, SettingUp, PcStates
<1>5. pc'[c] = p /\ call'[c] = call[c]
  BY <1>2, <1>3 DEF Moves, TypeInv
<1>6. ASSUME alone[c]
      PROVE  Stage(c)'
  <2>1. Stage(c)
    BY <1>1, <1>6 DEF CallInv, StageInv
  <2>2. /\ NameFrom(args)
        /\ algo # "ZenMatrix" => args.secret # <<>> /\ (mixed \/ KeyFrom(keyed))
    BY <1>1, <2>1 DEF Stage
  <2>3. NameFrom(args)' /\ (KeyFrom(keyed) => KeyFrom(keyed)')
    BY <1>2, <2>2 DEF NameFrom, KeyFrom
  <2>4. algo = "AES" \/ HashFrom(args)'
    BY <1>2 DEF HashFrom
  <2>5. QED
    BY <1>2, <1>5, <2>2, <2>3, <2>4 DEF Stage
<1>7. CallInv'
  BY <1>1, <1>2, <1>3, <1>6, SettingStep DEF SettingUp, PcStates
<1>8. QED
  BY <1>4, <1>7

LEMMA DeriveStep ==
  ASSUME TypeInv, CallInv, NEW c \in Callers, Derive(c)
  PROVE  TypeInv' /\ CallInv'
<1> DEFINE args == call[c].args
           p == IF algo = "ZenMatrix" THEN "copy" ELSE "blank"
<1>1. pc[c] = "derive" /\ Renewing(c) /\ Busy(c) /\ Renews(call[c].kind)
  BY DEF Derive, At, TypeInv, SettingUp, Renewing, Busy
<1>2. /\ UNCHANGED <<algo, privateKey, userHash, call, mixed, named, keyed>>
      /\ algo # "ZenMatrix" => UNCHANGED second
      /\ algo = "ZenMatrix" =>
            /\ local' = [local EXCEPT ![c] = GetUserKeyBytes(privateKey, userHash, N)]
            /\ key' = MatrixBasePerm
      /\ algo = "AES" =>
            local' = [local EXCEPT ![c] = GetUserKeyBytes(args.secret, args.hash, KeyLen)]
      /\ algo \notin {"AES", "ZenMatrix"} =>
            local' = [local EXCEPT ![c] = GetUserKeyBytes(args.secret, userHash, KeyLen)]
  BY DEF Derive, history
<1>3. Moves(c, p) /\ p \in SettingUp
  <2>1. \E bytes : local' = [local EXCEPT ![c] = bytes]
    BY <1>2
  <2>2. QED
    BY <1>2, <2>1 DEF Derive, Goto, Moves, TypeInv, history, SettingUp
<1>4. TypeInv'
  BY <1>1, <1>2, <1>3, MovesType DEF TypeInv, SettingUp, PcStates, Two
<1>5. pc'[c] = p /\ call'[c] = call[c]
  BY <1>2, <1>3 DEF Moves, TypeInv
<1>6. ASSUME alone[c]
      PROVE  Stage(c)'
  <2>1. Stage(c)
    BY <1>1, <1>6 DEF CallInv, StageInv
  <2>2. /\ NameFrom(args) /\ (algo = "AES" \/ HashFrom(args))
        /\ algo # "ZenMatrix" => args.secret # <<>>
    BY <1>1, <2>1 DEF Stage
  <2>3. NameFrom(args)'
    BY <1>2, <2>2 DEF NameFrom
  <2>4. CASE algo = "ZenMatrix"
    <3>1. GetUserKeyBytes(NameOf(algo, args), userHash, N)
            = GetUserKeyBytes(NameOf(algo, args), args.hash, N)
      BY <2>2, <2>4, HashStandsIn DEF HashFrom
    <3>2. local'[c] = GetUserKeyBytes(NameOf(algo, args), args.hash, N) /\ key' = MatrixBasePerm
      BY <1>2, <2>2, <2>4, <3>1 DEF NameFrom, TypeInv
    <3>3. QED
      BY <1>2, <1>5, <2>3, <2>4, <3>2 DEF Stage
  <2>5. CASE algo # "ZenMatrix"
    <3>1. local'[c] = GetUserKeyBytes(args.secret, args.hash, KeyLen)
      BY <1>2, <2>2, <2>5 DEF HashFrom, TypeInv
    <3>2. local'[c] = MadeKey(algo, args)
      BY <2>2, <2>5, <3>1 DEF MadeKey
    <3>3. QED
      BY <1>2, <1>5, <2>3, <2>5, <3>2 DEF Stage
  <2>6. QED
    BY <2>4, <2>5
<1>7. CallInv'
  BY <1>1, <1>2, <1>3, <1>6, SettingStep DEF SettingUp, PcStates
<1>8. QED
  BY <1>4, <1>7

\* The exception leaves the name of these arguments over the key of others.
LEMMA DeriveThrowsStep ==
  ASSUME TypeInv, CallInv, NEW c \in Callers, DeriveThrows(c)
  PROVE  TypeInv' /\ CallInv'
<1> DEFINE args == call[c].args
<1>1. pc[c] = "derive" /\ Renewing(c) /\ Busy(c) /\ Renews(call[c].kind)
  BY DEF DeriveThrows, At, TypeInv, SettingUp, Renewing, Busy
<1>2. /\ algo # "ZenMatrix"
      /\ UNCHANGED <<algo, privateKey, userHash, key, second, call, local, mixed, keyed>>
      /\ named' = IF alone[c] /\ ~mixed THEN args ELSE named
  BY DEF DeriveThrows, IvFromHash, static
<1>3. Moves(c, "failed")
  BY <1>2 DEF DeriveThrows, Goto, Moves, TypeInv
<1>4. TypeInv'
  BY <1>1, <1>2, <1>3, MovesType DEF TypeInv, SettingUp, PcStates
<1>5. pc'[c] = "failed" /\ call'[c] = call[c]
  BY <1>2, <1>3 DEF Moves, TypeInv
<1>6. ASSUME alone[c]
      PROVE  Stage(c)'
  <2>1. Stage(c)
    BY <1>1, <1>6 DEF CallInv, StageInv
  <2>2. NameFrom(args) /\ (mixed \/ KeyFrom(keyed))
    BY <1>1, <1>2, <2>1 DEF Stage
  <2>3. mixed' \/ Fields'
    <3>1. CASE ~mixed
      <4>1. args # Nobody
        BY <1>1, SomethingGiven DEF TypeInv
      <4>2. QED
        BY <1>2, <1>6, <2>2, <3>1, <4>1 DEF Fields, NameLeft, NameFrom, KeyFrom
    <3>2. QED
      BY <1>2, <3>1
  <2>4. QED
    BY <1>5, <2>3 DEF Stage
<1>7. CallInv'
  BY <1>1, <1>2, <1>3, <1>6, SettingStep DEF SettingUp, PcStates
<1>8. QED
  BY <1>4, <1>7

LEMMA BlankStep ==
  ASSUME TypeInv, CallInv, NEW c \in Callers, Blank(c)
  PROVE  TypeInv' /\ CallInv'
<1> DEFINE args == call[c].args
           p == IF algo = "ZenMatrix" THEN "derive" ELSE "copy"
<1>1. pc[c] = "blank" /\ Renewing(c) /\ Busy(c) /\ Renews(call[c].kind)
  BY DEF Blank, At, TypeInv, SettingUp, Renewing, Busy
<1>2. UNCHANGED <<algo, privateKey, userHash, second, call, local, mixed, named, keyed>>
  BY DEF Blank, history
<1>3. Moves(c, p) /\ p \in SettingUp
  BY <1>2 DEF Blank, Goto, Moves, TypeInv, history, SettingUp
<1>4. TypeInv'
  BY <1>1, <1>2, <1>3, MovesType DEF TypeInv, SettingUp, PcStates
<1>5. pc'[c] = p /\ call'[c] = call[c]
  BY <1>2, <1>3 DEF Moves, TypeInv
<1>6. ASSUME alone[c]
      PROVE  Stage(c)'
  <2>1. Stage(c)
    BY <1>1, <1>6 DEF CallInv, StageInv
  <2>2. /\ NameFrom(args)
        /\ IF algo = "ZenMatrix" THEN HashFrom(args) ELSE local[c] = MadeKey(algo, args)
    BY <1>1, <2>1 DEF Stage
  <2>3. NameFrom(args)' /\ (HashFrom(args) => HashFrom(args)')
    BY <1>2, <2>2 DEF NameFrom, HashFrom
  <2>4. QED
    BY <1>2, <1>5, <2>2, <2>3 DEF Stage
<1>7. CallInv'
  BY <1>1, <1>2, <1>3, <1>6, SettingStep DEF SettingUp, PcStates
<1>8. QED
  BY <1>4, <1>7

\* Where the set-up ends, the fields are those of its arguments.
LEMMA SetUpEnds ==
  ASSUME TypeInv, CallInv, NEW c \in Callers, Renewing(c), Busy(c), SetUpDone(c),
         Moves(c, "cipher"), UNCHANGED privateKey,
         algo \notin Two => second' = <<>>,
         alone[c] =>
            /\ NameFrom(call[c].args) /\ key' = MadeKey(algo, call[c].args)
            /\ second' = SecondOf(algo, call[c].args)
  PROVE  TypeInv' /\ CallInv'
<1> DEFINE args == call[c].args
<1>1. IF alone[c] THEN mixed' = FALSE /\ named' = args /\ keyed' = args
      ELSE mixed' = mixed
  BY DEF SetUpDone
<1>2. TypeInv'
  BY <1>1, MovesType DEF TypeInv, SettingUp, PcStates
<1>3. pc'[c] = "cipher" /\ call' = call /\ algo' = algo
  BY DEF Moves, TypeInv
<1>4. ASSUME alone[c]
      PROVE  Stage(c)'
  <2>1. args # Nobody
    BY SomethingGiven DEF TypeInv
  <2>2. KeyOf(algo, args) = MadeKey(algo, args)
    BY <2>1 DEF KeyOf
  <2>3. Fields'
    BY <1>1, <1>3, <1>4, <2>1, <2>2 DEF Fields, NameLeft, NameFrom, KeyFrom
  <2>4. QED
    BY <1>3, <2>3 DEF Stage
<1>5. CallInv'
  BY <1>1, <1>4, SettingStep DEF SettingUp, PcStates, TypeInv
<1>6. QED
  BY <1>2, <1>5

LEMMA CopyStep ==
  ASSUME TypeInv, CallInv, NEW c \in Callers, Copy(c)
  PROVE  TypeInv' /\ CallInv'
<1> DEFINE args == call[c].args
<1>1. pc[c] = "copy" /\ Renewing(c) /\ Busy(c) /\ Renews(call[c].kind)
  BY DEF Copy, At, TypeInv, SettingUp, Renewing, Busy
<1>2. /\ UNCHANGED <<algo, privateKey, userHash, second, call, local, alone>>
      /\ key' = IF algo = "ZenMatrix" THEN Permute(key, local[c]) ELSE local[c]
  BY DEF Copy, history
<1>3. ASSUME alone[c]
      PROVE  NameFrom(args) /\ key' = MadeKey(algo, args)
  <2>1. Stage(c)
    BY <1>1, <1>3 DEF CallInv, StageInv
  <2>2. /\ NameFrom(args)
        /\ IF algo = "ZenMatrix"
           THEN /\ key = MatrixBasePerm
                /\ local[c] = GetUserKeyBytes(NameOf(algo, args), args.hash, N)
           ELSE local[c] = MadeKey(algo, args)
    BY <1>1, <2>1 DEF Stage
  <2>3. CASE algo = "ZenMatrix"
    BY <1>2, <2>2, <2>3 DEF MadeKey
  <2>4. CASE algo # "ZenMatrix"
    BY <1>2, <2>2, <2>4
  <2>5. QED
    BY <2>2, <2>3, <2>4
<1>4. CASE algo \in Two
  <2>1. Moves(c, "read") /\ UNCHANGED <<mixed, named, keyed>>
    BY <1>2, <1>4 DEF Copy, Goto, Moves, TypeInv, history
  <2>2. algo = "AES" \/ (algo = "ZenMatrix" /\ call[c].kind = "enc")
    BY <1>1, <1>4 DEF Two, Renews, Rekeys
  <2>3. TypeInv'
    BY <1>1, <1>2, <2>1, <2>2, MovesType DEF TypeInv, SettingUp, PcStates
  <2>4. ASSUME alone[c]
        PROVE  Stage(c)'
    <3>1. pc'[c] = "read" /\ call' = call
      BY <2>1 DEF Moves, TypeInv
    <3>2. NameFrom(args)' /\ key' = MadeKey(algo, args)
      BY <1>2, <1>3, <2>4 DEF NameFrom
    <3>3. QED
      BY <1>2, <3>1, <3>2 DEF Stage
  <2>5. CallInv'
    BY <1>1, <1>2, <2>1, <2>4, SettingStep DEF SettingUp, PcStates
  <2>6. QED
    BY <2>3, <2>5
<1>5. CASE algo \notin Two
  <2>1. Moves(c, "cipher") /\ SetUpDone(c)
    BY <1>2, <1>5 DEF Copy, Goto, Moves, TypeInv
  <2>2. second' = <<>> /\ SecondOf(algo, args) = <<>>
    BY <1>2, <1>5, SecondIs DEF TypeInv
  <2>3. QED
    BY <1>1, <1>2, <1>3, <2>1, <2>2, SetUpEnds
<1>6. QED
  BY <1>4, <1>5

LEMMA ReadStep ==
  ASSUME TypeInv, CallInv, NEW c \in Callers, ReadKey(c)
  PROVE  TypeInv' /\ CallInv'
<1> DEFINE args == call[c].args
<1>1. /\ pc[c] = "read" /\ Busy(c)
      /\ algo = "AES" \/ (algo = "ZenMatrix" /\ call[c].kind = "enc")
      /\ UNCHANGED <<algo, privateKey, userHash, key, second, call, mixed, named, keyed>>
      /\ local' = [local EXCEPT ![c] = key]
  BY DEF ReadKey, At, TypeInv, Busy, static, history
<1>2. Moves(c, "second") /\ local'[c] = key
  BY <1>1 DEF ReadKey, Goto, Moves, TypeInv, history
<1>3. TypeInv'
  BY <1>1, <1>2, MovesType DEF TypeInv, SettingUp, PcStates
<1>4. CASE Renewing(c)
  <2>1. ASSUME alone[c]
        PROVE  Stage(c)'
    <3>1. NameFrom(args) /\ key = MadeKey(algo, args)
      BY <1>1, <1>4, <2>1 DEF CallInv, StageInv, Stage
    <3>2. pc'[c] = "second" /\ NameFrom(args)'
      BY <1>1, <1>2, <3>1 DEF Moves, TypeInv, NameFrom
    <3>3. QED
      BY <1>1, <3>1, <3>2 DEF Stage
  <2>2. QED
    BY <1>1, <1>2, <1>3, <1>4, <2>1, SettingStep DEF SettingUp, PcStates
<1>5. CASE ~Renewing(c)
  BY <1>1, <1>2, <1>3, <1>5, OtherStep DEF SettingUp, PcStates
<1>6. QED
  BY <1>4, <1>5

LEMMA SecondStep ==
  ASSUME TypeInv, CallInv, NEW c \in Callers, SetSecond(c)
  PROVE  TypeInv' /\ CallInv'
<1> DEFINE args == call[c].args
<1>1. /\ pc[c] = "second" /\ Busy(c) /\ Moves(c, "cipher")
      /\ algo = "AES" \/ (algo = "ZenMatrix" /\ call[c].kind = "enc")
      /\ UNCHANGED <<privateKey, userHash, key>>
      /\ second' = IF algo = "AES" THEN local[c] ELSE BuildReveseMatrix(local[c])
      /\ algo \in Two
  BY DEF SetSecond, At, TypeInv, Busy, Goto, Moves, history, Two
<1>2. alone[c] => local[c] = key
  BY <1>1 DEF CallInv, ReadInv, At
<1>3. CASE call[c].kind = "enc"
  <2>1. Renewing(c) /\ SetUpDone(c)
    BY <1>1, <1>3 DEF SetSecond, Renewing, Renews
  <2>2. ASSUME alone[c]
        PROVE  /\ NameFrom(args) /\ key = MadeKey(algo, args)
               /\ second' = SecondOf(algo, args)
    <3>1. Stage(c)
      BY <2>1, <2>2 DEF CallInv, StageInv
    <3>2. NameFrom(args) /\ key = MadeKey(algo, args)
      BY <1>1, <3>1 DEF Stage
    <3>3. args # Nobody
      BY <1>1, SomethingGiven DEF TypeInv
    <3>4. QED
      BY <1>1, <1>2, <2>2, <3>2, <3>3 DEF SecondOf
  <2>3. QED
    BY <1>1, <2>1, <2>2, SetUpEnds
<1>4. CASE call[c].kind # "enc"
  <2>1. ~Renewing(c) /\ UNCHANGED <<mixed, named, keyed>> /\ second' = local[c] /\ algo = "AES"
    BY <1>1, <1>4 DEF SetSecond, Renewing, Renews, Rekeys, history
  <2>2. TypeInv'
    BY <1>1, <2>1, MovesType DEF TypeInv, SettingUp, PcStates
  <2>3. mixed \/ second' = key
    <3>1. call[c].kind = "dec"
      BY <1>1, <1>4 DEF TypeInv, Kinds
    <3>2. Sets(call[c].kind)
      BY <2>1, <3>1 DEF Sets
    <3>3. QED
      BY <1>1, <1>2, <2>1, <3>2 DEF CallInv, AloneInv
  <2>4. CallInv'
    BY <1>1, <2>1, <2>3, OtherStep DEF SettingUp, PcStates
  <2>5. QED
    BY <2>2, <2>4
<1>5. QED
  BY <1>3, <1>4

LEMMA CheckStep ==
  ASSUME TypeInv, CallInv, NEW c \in Callers, Check(c)
  PROVE  TypeInv' /\ CallInv'
<1> DEFINE p == IF Folded(privateKey) = Folded(call[c].args.secret) /\ algo = "AES"
                THEN "read" ELSE "cipher"
<1>1. pc[c] = "check" /\ ~Renewing(c) /\ Busy(c)
  BY DEF Check, At, TypeInv, Renewing, Busy
<1>2. /\ Moves(c, p) /\ (p = "read" => algo = "AES")
      /\ UNCHANGED <<algo, privateKey, userHash, key, second, mixed, named, keyed>>
  BY DEF Check, Goto, Moves, TypeInv, static, history
<1>3. TypeInv'
  BY <1>1, <1>2, MovesType DEF TypeInv, SettingUp, PcStates
<1>4. CallInv'
  BY <1>1, <1>2, OtherStep DEF SettingUp, PcStates
<1>5. QED
  BY <1>3, <1>4

LEMMA ConstructStep ==
  ASSUME TypeInv, CallInv, NEW c \in Callers, ConstructBounceCastle(c)
  PROVE  TypeInv' /\ CallInv'
<1>1. pc[c] = "construct" /\ ~Renewing(c) /\ Busy(c)
  BY DEF ConstructBounceCastle, At, TypeInv, Renewing, Busy, Renews
<1>2. /\ Moves(c, "cipher")
      /\ UNCHANGED <<algo, privateKey, userHash, key, second, mixed, named, keyed>>
  BY DEF ConstructBounceCastle, Goto, Moves, TypeInv, static, history
<1>3. TypeInv'
  BY <1>1, <1>2, MovesType DEF TypeInv, SettingUp, PcStates
<1>4. CallInv'
  BY <1>1, <1>2, OtherStep DEF SettingUp, PcStates
<1>5. QED
  BY <1>3, <1>4

\* The cipher reads the fields only.
LEMMA CipherStep ==
  ASSUME TypeInv, CallInv, NEW c \in Callers,
         CipherThrows(c) \/ Encrypt(c) \/ Decrypt(c)
  PROVE  TypeInv' /\ CallInv'
<1>1. PICK p \in {"failed", "done"} : pc' = [pc EXCEPT ![c] = p]
  BY DEF CipherThrows, Encrypt, Decrypt, Goto
<1>2. /\ pc[c] = "cipher" /\ Busy(c)
      /\ UNCHANGED <<algo, privateKey, userHash, key, second, call, local, mixed, named, keyed, alone>>
  BY DEF CipherThrows, Encrypt, Decrypt, At, Busy, static, history
<1>3. Moves(c, p)
  BY <1>1, <1>2 DEF Moves, TypeInv
<1>4. TypeInv'
  BY <1>2, <1>3, MovesType DEF TypeInv, SettingUp, PcStates
<1>5. CASE Renewing(c)
  <2>1. ASSUME alone[c]
        PROVE  Stage(c)'
    <3>1. Stage(c)
      BY <1>5, <2>1 DEF CallInv, StageInv
    <3>2. mixed' \/ Fields'
      BY <1>2, <3>1 DEF Stage, Fields, NameLeft, NameFrom, KeyFrom
    <3>3. pc'[c] = p
      BY <1>1 DEF TypeInv
    <3>4. QED
      BY <3>2, <3>3 DEF Stage
  <2>2. QED
    BY <1>2, <1>3, <1>4, <1>5, <2>1, SettingStep DEF SettingUp, PcStates
<1>6. CASE ~Renewing(c)
  BY <1>2, <1>3, <1>4, <1>6, OtherStep DEF SettingUp, PcStates
<1>7. QED
  BY <1>5, <1>6

-----------------------------------------------------------------------------
(* Calls begin and end. *)

LEMMA ReturnStep ==
  ASSUME TypeInv, CallInv, NEW c \in Callers, Return(c)
  PROVE  TypeInv' /\ CallInv'
<1>1. /\ pc[c] \in {"done", "failed"} /\ pc'[c] = "idle"
      /\ call'[c] = NoCall /\ alone'[c]
      /\ \A d \in Callers \ {c} : /\ pc'[d] = pc[d] /\ call'[d] = call[d]
                                  /\ local'[d] = local[d] /\ alone'[d] = alone[d]
      /\ UNCHANGED <<algo, privateKey, userHash, key, second, mixed, named, keyed>>
  <2>1. /\ pc[c] \in {"done", "failed"} /\ pc' = [pc EXCEPT ![c] = "idle"]
        /\ call' = [call EXCEPT ![c] = NoCall]
        /\ local' = [local EXCEPT ![c] = <<>>] /\ alone' = [alone EXCEPT ![c] = TRUE]
        /\ UNCHANGED <<algo, privateKey, userHash, key, second, mixed, named, keyed>>
    BY DEF Return, Goto, static
  <2>2. /\ pc'[c] = "idle" /\ call'[c] = NoCall
        /\ \A d \in Callers \ {c} : pc'[d] = pc[d] /\ call'[d] = call[d]
    BY <2>1 DEF TypeInv
  <2>3. alone'[c] /\ \A d \in Callers \ {c} : alone'[d] = alone[d]
    BY <2>1 DEF TypeInv
  <2>4. \A d \in Callers \ {c} : local'[d] = local[d]
    BY <2>1 DEF TypeInv
  <2>5. QED
    BY <2>1, <2>2, <2>3, <2>4
<1>2. TypeInv'
  <2>1. /\ pc' \in [Callers -> PcStates] /\ alone' \in [Callers -> BOOLEAN]
        /\ call' \in [Callers -> [kind : Kinds, args : Arguments \union {Nobody}]]
        /\ local' = [d \in Callers |-> local'[d]]
    <3>1. NoCall \in [kind : Kinds, args : Arguments \union {Nobody}]
      BY DEF NoCall, Kinds
    <3>2. /\ pc' = [pc EXCEPT ![c] = "idle"] /\ call' = [call EXCEPT ![c] = NoCall]
          /\ local' = [local EXCEPT ![c] = <<>>] /\ alone' = [alone EXCEPT ![c] = TRUE]
      BY DEF Return, Goto
    <3>3. local' = [d \in Callers |-> local'[d]]
      BY <3>2 DEF TypeInv
    <3>4. QED
      BY <3>1, <3>2, <3>3 DEF TypeInv, PcStates
  <2>2. \A d \in Callers :
          /\ pc'[d] # "idle" => call'[d].args \in Arguments /\ call'[d].kind # "none"
          /\ pc'[d] = "check" => ~Renews(call'[d].kind)
          /\ pc'[d] \in SettingUp => Renews(call'[d].kind)
          /\ pc'[d] \in {"read", "second"} => algo = "AES" \/ (algo = "ZenMatrix" /\ call'[d].kind = "enc")
          /\ pc'[d] = "construct" => algo = "Camellia"
    BY <1>1 DEF TypeInv, Busy, At, SettingUp
  <2>3. QED
    BY <1>1, <2>1, <2>2 DEF TypeInv, Busy, At, Renews
<1>3. /\ ~Renewing(c)' /\ ~Busy(c)'
      /\ \A d \in Callers \ {c} : (Renewing(d)' <=> Renewing(d)) /\ (Busy(d)' <=> Busy(d))
  BY <1>1 DEF Renewing, Busy, Renews
<1>4. AloneInv' /\ ReadInv'
  <2>1. AloneInv'
    BY <1>1, <1>3 DEF CallInv, AloneInv, Disturbs, Sets, Renews
  <2>2. ReadInv'
    BY <1>1 DEF CallInv, ReadInv, At
  <2>3. QED
    BY <2>1, <2>2
<1>5. Fields => Fields'
  BY <1>1 DEF Fields, NameLeft, NameFrom, KeyFrom
<1>6. ASSUME NEW d \in Callers, d # c, Stage(d)
      PROVE  Stage(d)'
  BY <1>1, <1>5, <1>6 DEF Stage, NameFrom, KeyFrom, HashFrom
<1>7. StageInv'
  BY <1>1, <1>3, <1>6 DEF CallInv, StageInv
<1>8. ASSUME Quiet'
      PROVE  mixed \/ Fields
  <2>1. \A d \in Callers \ {c} : ~Renewing(d)
    BY <1>3, <1>8 DEF Quiet
  <2>2. CASE ~Renewing(c)
    BY <2>1, <2>2 DEF CallInv, QuietInv, Quiet
  <2>3. CASE Renewing(c) /\ alone[c]
    BY <1>1, <2>3 DEF CallInv, StageInv, Stage
  <2>4. CASE Renewing(c) /\ ~alone[c]
    BY <2>4 DEF CallInv, AloneInv, Renewing, Sets
  <2>5. QED
    BY <2>2, <2>3, <2>4 DEF TypeInv
<1>9. QuietInv'
  BY <1>1, <1>5, <1>8 DEF QuietInv
<1>10. QED
  BY <1>2, <1>4, <1>7, <1>9 DEF CallInv

\* A call that begins is undisturbed if no set-up is under way; it disturbs
\* those that are.
LEMMA BeginStep ==
  ASSUME TypeInv, CallInv, NEW c \in Callers, NEW kind \in {"enc", "dec"},
         NEW args \in Arguments, Begin(c, kind, args)
  PROVE  TypeInv' /\ CallInv'
<1> DEFINE meets == \E d \in Callers \ {c} : Busy(d) /\ Disturbs(call[d].kind, kind)
           p == IF algo = "Camellia" THEN "construct"
                ELSE IF kind = "dec" /\ algo \notin Rekeys THEN "check" ELSE "name"
<1>1. ~Busy(c) /\ ~Renewing(c) /\ pc[c] = "idle"
  BY DEF Begin, Renewing, Busy
<1>2. /\ pc' = [pc EXCEPT ![c] = p]
      /\ call' = [call EXCEPT ![c] = [kind |-> kind, args |-> args]]
      /\ alone' = [d \in Callers |-> IF d = c THEN ~meets
                                     ELSE alone[d] /\ ~(Busy(d) /\ Disturbs(kind, call[d].kind))]
      /\ UNCHANGED <<algo, privateKey, userHash, key, second, local>>
      /\ IF meets /\ Sets(kind)
         THEN mixed' = TRUE
         ELSE UNCHANGED <<mixed, named, keyed>>
  <2>1. (CASE algo = "Camellia" -> "construct"
           [] kind = "dec" /\ algo \notin Rekeys \union {"Camellia"} -> "check"
           [] OTHER -> "name") = p
    OBVIOUS
  <2>2. QED
    BY <2>1 DEF Begin, Goto, static
<1>3. /\ pc'[c] = p /\ call'[c] = [kind |-> kind, args |-> args]
      /\ \A d \in Callers \ {c} : pc'[d] = pc[d] /\ call'[d] = call[d]
  BY <1>2 DEF TypeInv
<1>4. /\ alone'[c] <=> ~meets
      /\ \A d \in Callers \ {c} : alone'[d] <=> alone[d] /\ ~(Busy(d) /\ Disturbs(kind, call[d].kind))
  BY <1>2 DEF TypeInv
<1>5. TypeInv'
  <2>1. /\ pc' \in [Callers -> PcStates]
        /\ call' \in [Callers -> [kind : Kinds, args : Arguments \union {Nobody}]]
    <3>1. [kind |-> kind, args |-> args] \in [kind : Kinds, args : Arguments \union {Nobody}]
      BY DEF Kinds
    <3>2. p \in PcStates
      BY DEF PcStates, SettingUp
    <3>3. QED
      BY <1>2, <3>1, <3>2 DEF TypeInv
  <2>2. alone' \in [Callers -> BOOLEAN]
    BY <1>2 DEF TypeInv
  <2>3. mixed' \in BOOLEAN /\ local' = [d \in Callers |-> local'[d]]
    BY <1>2 DEF TypeInv
  <2>4. /\ p = "check" => ~Renews(kind)
        /\ p \in SettingUp => Renews(kind)
        /\ p \notin {"read", "second"} /\ (p = "construct" => algo = "Camellia")
    BY DEF Renews, SettingUp, Rekeys
  <2>5. \A d \in Callers :
          /\ pc'[d] # "idle" => call'[d].args \in Arguments /\ call'[d].kind # "none"
          /\ pc'[d] = "check" => ~Renews(call'[d].kind)
          /\ pc'[d] \in SettingUp => Renews(call'[d].kind)
          /\ pc'[d] \in {"read", "second"} => algo = "AES" \/ (algo = "ZenMatrix" /\ call'[d].kind = "enc")
          /\ pc'[d] = "construct" => algo = "Camellia"
    BY <1>3, <2>4 DEF TypeInv, Busy, At
  <2>6. QED
    BY <1>2, <2>1, <2>2, <2>3, <2>5 DEF TypeInv, Busy, At, Renews
<1>6. /\ (Renewing(c)' <=> Renews(kind)) /\ Busy(c)'
      /\ \A d \in Callers \ {c} : (Renewing(d)' <=> Renewing(d)) /\ (Busy(d)' <=> Busy(d))
  BY <1>2, <1>3 DEF Renewing, Busy, Renews
<1>7. \A x, y \in Callers :
        /\ Sets(call[x].kind)' <=> Sets(call'[x].kind)
        /\ Disturbs(call[y].kind, call[x].kind)' <=> Disturbs(call'[y].kind, call'[x].kind)
  BY <1>2 DEF Disturbs, Sets, Renews
<1>8. \A k, l : Sets(k) /\ Disturbs(l, k) => Disturbs(k, l)
  BY DEF Disturbs, Sets
<1>9. AloneInv'
  <2>1. ASSUME NEW x \in Callers, NEW y \in Callers, alone'[x], Busy(x)', Busy(y)',
               Disturbs(call[y].kind, call[x].kind)'
        PROVE  x = y
    <3>1. SUFFICES ASSUME x # y PROVE FALSE
      OBVIOUS
    <3>2. CASE x = c
      <4>1. Busy(y) /\ call'[y].kind = call[y].kind /\ call'[x].kind = kind
        BY <1>3, <1>6, <2>1, <3>1, <3>2
      <4>2. Disturbs(call[y].kind, kind)
        BY <1>7, <2>1, <4>1
      <4>3. QED
        BY <1>4, <2>1, <3>1, <3>2, <4>1, <4>2
    <3>3. CASE y = c
      <4>1. Busy(x) /\ call'[x].kind = call[x].kind /\ call'[y].kind = kind
        BY <1>3, <1>6, <2>1, <3>1, <3>3
      <4>2. Disturbs(kind, call[x].kind)
        BY <1>7, <2>1, <4>1
      <4>3. QED
        BY <1>4, <2>1, <3>1, <3>3, <4>1, <4>2
    <3>4. CASE x # c /\ y # c
      <4>1. /\ Busy(x) /\ call'[x].kind = call[x].kind
            /\ Busy(y) /\ call'[y].kind = call[y].kind
        BY <1>3, <1>6, <2>1, <3>4
      <4>2. Disturbs(call[y].kind, call[x].kind)
        BY <1>7, <2>1, <4>1
      <4>3. QED
        BY <1>4, <2>1, <3>1, <3>4, <4>1, <4>2 DEF CallInv, AloneInv
    <3>5. QED
      BY <3>2, <3>3, <3>4
  <2>2. ASSUME NEW x \in Callers, Busy(x)', Sets(call[x].kind)', ~alone'[x]
        PROVE  mixed'
    <3>1. CASE meets /\ Sets(kind)
      BY <1>2, <3>1
    <3>2. CASE ~(meets /\ Sets(kind))
      <4>1. CASE x = c
        BY <1>3, <1>4, <1>7, <2>2, <3>2, <4>1
      <4>2. CASE x # c
        <5>1. Busy(x) /\ call'[x].kind = call[x].kind
          BY <1>3, <1>6, <2>2, <4>2
        <5>2. Sets(call[x].kind)
          BY <1>7, <2>2, <5>1
        <5>3. CASE ~alone[x]
          BY <1>2, <3>2, <5>1, <5>2, <5>3 DEF CallInv, AloneInv
        <5>4. CASE alone[x]
          <6>1. Disturbs(kind, call[x].kind)
            BY <1>4, <2>2, <4>2, <5>1, <5>4
          <6>2. Sets(kind) /\ Disturbs(call[x].kind, kind)
            BY <1>8, <5>2, <6>1 DEF Disturbs
          <6>3. QED
            BY <3>2, <4>2, <5>1, <6>2
        <5>5. QED
          BY <5>3, <5>4
      <4>3. QED
        BY <4>1, <4>2
    <3>3. QED
      BY <3>1, <3>2
  <2>3. QED
    BY <2>1, <2>2 DEF AloneInv
<1>10. ASSUME ~(meets /\ Sets(kind))
      PROVE  /\ UNCHANGED <<mixed, named, keyed>>
             /\ mixed \/ Fields => mixed' \/ Fields'
  BY <1>2, <1>10 DEF Fields, NameLeft, NameFrom, KeyFrom
<1>11. ASSUME NEW x \in Callers, alone'[x], Renewing(x)'
       PROVE  Stage(x)'
  <2>1. CASE x = c
    <3>1. Renews(kind) /\ ~meets
      BY <1>4, <1>6, <1>11, <2>1
    <3>2. \A d \in Callers : ~Renewing(d)
      BY <1>1, <3>1 DEF Renewing, Disturbs, Sets
    <3>3. mixed \/ Fields
      BY <3>2 DEF CallInv, QuietInv, Quiet
    <3>4. pc'[x] = "name"
      BY <1>3, <2>1, <3>1 DEF Renews
    <3>5. QED
      BY <1>10, <3>1, <3>3, <3>4 DEF Stage
  <2>2. CASE x # c
    <3>1. Renewing(x) /\ Busy(x)
      BY <1>6, <1>11, <2>2 DEF Renewing
    <3>2. alone[x] /\ ~Disturbs(kind, call[x].kind)
      BY <1>4, <1>11, <2>2, <3>1
    <3>3. ~Sets(kind)
      BY <3>1, <3>2 DEF Renewing, Disturbs
    <3>4. Stage(x)
      BY <3>1, <3>2 DEF CallInv, StageInv
    <3>5. /\ UNCHANGED <<mixed, named, keyed>>
          /\ mixed \/ Fields => mixed' \/ Fields'
      BY <1>10, <3>3
    <3>6. QED
      BY <1>2, <1>3, <2>2, <3>4, <3>5 DEF Stage, NameFrom, KeyFrom, HashFrom
  <2>3. QED
    BY <2>1, <2>2
<1>12. QuietInv'
  <2>1. ASSUME Quiet'
        PROVE  mixed' \/ Fields'
    <3>1. ~Renews(kind) /\ Quiet
      BY <1>1, <1>6, <2>1 DEF Quiet
    <3>2. ~meets
      BY <3>1 DEF Quiet, Renewing, Disturbs
    <3>3. QED
      BY <1>10, <3>1, <3>2 DEF CallInv, QuietInv
  <2>2. QED
    BY <2>1 DEF QuietInv
<1>13. ReadInv'
  <2>1. pc'[c] # "second"
    BY <1>3
  <2>2. QED
    BY <1>2, <1>3, <1>4, <2>1 DEF CallInv, ReadInv, At
<1>14. QED
  BY <1>5, <1>9, <1>11, <1>12, <1>13 DEF CallInv, StageInv

LEMMA RestartStep == ASSUME TypeInv, Restart PROVE TypeInv' /\ CallInv'
<1>1. /\ algo' = algo /\ key' = FirstKey(algo) /\ second' = FirstSecond(algo)
      /\ pc' = [c \in Callers |-> "idle"] /\ call' = [c \in Callers |-> NoCall]
      /\ local' = [c \in Callers |-> <<>>] /\ alone' = [c \in Callers |-> TRUE]
      /\ mixed' = FALSE /\ named' = Nobody /\ keyed' = Nobody /\ privateKey' = <<>>
  BY DEF Restart
<1>2. TypeInv'
  <2>1. algo \notin Two => second' = <<>>
    BY <1>1 DEF FirstSecond, Two, TypeInv
  <2>2. NoCall \in [kind : Kinds, args : Arguments \union {Nobody}]
    BY DEF NoCall, Kinds
  <2>3. QED
    BY <1>1, <2>1, <2>2 DEF TypeInv, PcStates, SettingUp, Busy, At
<1>3. \A c \in Callers : ~Busy(c)' /\ ~Renewing(c)' /\ ~At(c, "second")'
  BY <1>1 DEF Renewing, Busy, At
<1>4. Fields'
  <2>1. key' = KeyOf(algo, Nobody) /\ second' = SecondOf(algo, Nobody)
    BY <1>1 DEF KeyOf, SecondOf
  <2>2. QED
    BY <1>1, <2>1 DEF Fields, NameLeft, KeyFrom
<1>5. CallInv'
  BY <1>3, <1>4 DEF CallInv, AloneInv, StageInv, ReadInv, QuietInv
<1>6. QED
  BY <1>2, <1>5

LEMMA StutterStep ==
  ASSUME TypeInv, CallInv, UNCHANGED vars
  PROVE  TypeInv' /\ CallInv'
<1> USE DEF vars, static, history
<1>1. TypeInv'
  BY DEF TypeInv, Busy, At, Renews
<1>2. \A c \in Callers : Renewing(c)' <=> Renewing(c)
  BY DEF Renewing, Busy, Renews
<1>3. Fields' <=> Fields
  BY DEF Fields, NameLeft, NameFrom, KeyFrom
<1>4. \A c \in Callers : Stage(c) => Stage(c)'
  BY <1>3 DEF Stage, NameFrom, KeyFrom, HashFrom
<1>5. AloneInv' /\ ReadInv'
  BY DEF CallInv, AloneInv, ReadInv, Disturbs, Sets, Renews, Busy, At
<1>6. StageInv' /\ QuietInv'
  BY <1>2, <1>3, <1>4 DEF CallInv, StageInv, QuietInv, Quiet
<1>7. QED
  BY <1>1, <1>5, <1>6 DEF CallInv

-----------------------------------------------------------------------------
(* The fields of the last calls. *)

LEMMA NextInv ==
  ASSUME TypeInv, CallInv, [Next]_vars
  PROVE  TypeInv' /\ CallInv'
<1>1. ASSUME NEW c \in Callers, NEW kind \in {"enc", "dec"}, NEW args \in Arguments,
             Begin(c, kind, args)
      PROVE  TypeInv' /\ CallInv'
  BY <1>1, BeginStep
<1>2. ASSUME NEW c \in Callers, CallerStep(c)
      PROVE  TypeInv' /\ CallInv'
  <2>1. CASE GenWithKey(c)
    BY <2>1, CheckStep, NameStep, HashStep, DeriveStep, DeriveThrowsStep, BlankStep,
       CopyStep, ReadStep, SecondStep DEF GenWithKey
  <2>2. CASE ConstructBounceCastle(c)
    BY <2>2, ConstructStep
  <2>3. CASE CipherThrows(c) \/ Encrypt(c) \/ Decrypt(c)
    BY <2>3, CipherStep
  <2>4. CASE Return(c)
    BY <2>4, ReturnStep
  <2>5. QED
    BY <1>2, <2>1, <2>2, <2>3, <2>4 DEF CallerStep
<1>3. CASE Restart
  BY <1>3, RestartStep
<1>4. CASE UNCHANGED vars
  BY <1>4, StutterStep
<1>5. QED
  BY <1>1, <1>2, <1>3, <1>4 DEF Next, CallerStep

\* For any callers, arguments and algorithm, the fields of the static classes
\* go through GenWithKey (Fish2.cs, Aes.cs, ZenMatrix.cs) as IInv says,
\* whatever other calls, AES decryptions that assign AesAlgo.Key among them,
\* and restarts come in between.
THEOREM Inductive == Spec => []IInv
<1>1. Init => IInv
  BY InitType, InitCalls DEF IInv
<1>2. IInv /\ [Next]_vars => IInv'
  BY NextInv DEF IInv
<1>3. QED
  BY <1>1, <1>2, PTL DEF Spec

\* When no GenWithKey is under way and the last ones did not overlap,
\* privateKey is the name of the last one begun, and key and second are made
\* from the arguments of the last one that came to its end.
THEOREM FieldsOfLastCalls == Spec => []StateOfLastCalls
<1>1. IInv => StateOfLastCalls
  <2> SUFFICES ASSUME IInv, Quiet, ~mixed
               PROVE  /\ named # Nobody => privateKey = Name(named.secret)
                      /\ key = KeyFor(keyed) /\ second = SecondFor(keyed)
    BY DEF StateOfLastCalls
  <2>1. Fields
    BY DEF IInv, CallInv, QuietInv
  <2>2. QED
    BY <2>1, SameKeys DEF Fields, NameLeft, NameFrom, KeyFrom
<1>2. QED
  BY <1>1, Inductive, PTL

-----------------------------------------------------------------------------
(* The values of the variables. *)

FieldTypes ==
    /\ privateKey \in Seq(Chars)
    /\ userHash \in Seq(Chars) \union {NullHash}
    /\ key \in Keys /\ (algo \in Two => second \in Keys)

\* A key is made whole before it is copied.
LocalTypes ==
    \A c \in Callers :
        /\ pc[c] = "copy" => /\ local[c] \in Seq(Nat)
                             /\ Len(local[c]) = IF algo = "ZenMatrix" THEN N ELSE KeyLen
        /\ pc[c] = "blank" /\ algo # "ZenMatrix" =>
              local[c] \in Seq(Nat) /\ Len(local[c]) = KeyLen
        /\ pc[c] = "second" => local[c] \in Keys

ResultTypes == sameKey \in [Callers -> BOOLEAN] /\ out \in [Callers -> Seq(ZenBytes)]

\* Who decrypts has something to decrypt.
ParcelTypes ==
    /\ \A c \in Callers : call[c].kind = "dec" => parcel.text # <<>>
    /\ algo = "ZenMatrix" => parcel.text \in Seq(ZenBytes)
    /\ algo # "ZenMatrix" /\ parcel.text # <<>> => parcel.text[2] = Plain

CountTypes ==
    /\ algo \in Algos /\ restarts \in 0..MaxRestarts
    /\ named \in Arguments \union {Nobody} /\ keyed \in Arguments \union {Nobody}

ValueInv == FieldTypes /\ LocalTypes /\ ResultTypes /\ ParcelTypes /\ CountTypes

LEMMA ArgsType ==
  ASSUME NEW args \in Arguments
  PROVE  args.secret \in Seq(Chars) /\ args.hash \in Seq(Chars) \union {NullHash}
BY CryptAssumption

LEMMA CharsAreNumbers == \A s \in Seq(Chars) : s \in Seq(Nat)
<1> TAKE s \in Seq(Chars)
<1>1. Chars \subseteq Nat
  BY CryptAssumption
<1>2. \A i \in 1..Len(s) : s[i] \in Chars
  OBVIOUS
<1>3. \A i \in 1..Len(s) : s[i] \in Nat
  BY <1>1, <1>2
<1>4. QED
  BY <1>3

\* GetUserKeyBytes makes as many bytes as it is asked for.
LEMMA UserBytesType ==
  ASSUME NEW secret \in Seq(Chars), NEW hash \in Seq(Chars) \union {NullHash},
         NEW len \in Nat
  PROVE  /\ GetUserKeyBytes(secret, hash, len) \in Seq(Nat)
         /\ Len(GetUserKeyBytes(secret, hash, len)) = len
<1> DEFINE secKey == IF secret = <<>> THEN AuthorEmail ELSE secret
           usrHash == IF hash \in {NullHash, <<>>} THEN Area23Email ELSE hash
           text == IF Len(secKey) >= len THEN secKey ELSE secKey \o usrHash
           bytes == [i \in 1..len |-> text[((i - 1) % Len(text)) + 1]]
<1>1. /\ secKey \in Seq(Chars) /\ secKey # <<>> /\ usrHash \in Seq(Chars)
      /\ AuthorEmail \in Seq(Chars) /\ Area23Email \in Seq(Chars)
  BY CryptAssumption
<1>2. text \in Seq(Chars) /\ Len(text) \in Nat /\ Len(text) > 0
  <2> HIDE DEF secKey, usrHash
  <2>1. Len(secKey) \in Nat /\ Len(secKey) > 0 /\ secKey \o usrHash \in Seq(Chars)
        /\ Len(secKey \o usrHash) = Len(secKey) + Len(usrHash) /\ Len(usrHash) \in Nat
    BY <1>1
  <2>2. QED
    BY <1>1, <2>1
<1>3. bytes = GetUserKeyBytes(secret, hash, len)
  BY DEF GetUserKeyBytes
<1>4. bytes \in Seq(Nat) /\ Len(bytes) = len
  <2> HIDE DEF text
  <2>1. \A i \in 1..len : ((i - 1) % Len(text)) + 1 \in 1..Len(text)
    BY <1>2
  <2>2. text \in Seq(Nat)
    BY <1>2, CharsAreNumbers
  <2>3. \A i \in 1..len : bytes[i] \in Nat
    BY <2>1, <2>2
  <2>4. bytes = [i \in 1..len |-> bytes[i]]
    OBVIOUS
  <2> HIDE DEF bytes
  <2>5. bytes \in [1..len -> Nat]
    BY <2>3, <2>4
  <2>6. QED
    BY <2>5
<1>5. QED
  BY <1>3, <1>4

LEMMA DefaultKeyType == DefaultKey \in Seq(Nat) /\ Len(DefaultKey) = KeyLen
<1>1. KeyLen \in Nat
  BY CryptAssumption
<1>2. DefaultKey \in [1..KeyLen -> Nat]
  BY DEF DefaultKey
<1>3. QED
  BY <1>1, <1>2

\* What lies in the fields before the first call.
LEMMA FirstKeys ==
  ASSUME NEW a \in AllAlgos
  PROVE  LET keys == IF a = "ZenMatrix" THEN Matrices
                     ELSE {k \in Seq(Nat) : Len(k) \in {0, KeyLen}}
         IN  FirstKey(a) \in keys /\ (a \in Two => FirstSecond(a) \in keys)
<1>1. MatrixBasePerm \in Matrices /\ BuildReveseMatrix(MatrixBasePerm) \in Matrices
  BY BaseIsItsReverse DEF AllPermutations
<1>2. QED
  BY <1>1, DefaultKeyType DEF FirstKey, FirstSecond, Two

\* A caller that goes anywhere but to a copy leaves the bytes of the keys.
LEMMA LocalKept ==
  ASSUME TypeInv, LocalTypes, NEW c \in Callers, NEW p, p \notin {"copy", "blank", "second"},
         pc' = [pc EXCEPT ![c] = p], UNCHANGED algo,
         \A d \in Callers \ {c} : local'[d] = local[d]
  PROVE  LocalTypes'
BY DEF TypeInv, LocalTypes, Keys

\* Steps that set no field.
LEMMA PlainStepValues ==
  ASSUME TypeInv, ValueInv, NEW c \in Callers,
         Check(c) \/ DeriveThrows(c) \/ ConstructBounceCastle(c) \/ CipherThrows(c)
  PROVE  ValueInv'
<1>1. /\ UNCHANGED <<algo, privateKey, userHash, key, second, call, out, parcel, restarts>>
      /\ keyed' = keyed /\ named' \in {named, call[c].args}
      /\ Busy(c)
  <2> USE DEF static, history, Busy, At
  <2>1. CASE Check(c)
    BY <2>1 DEF Check
  <2>2. CASE DeriveThrows(c)
    BY <2>2 DEF DeriveThrows
  <2>3. CASE ConstructBounceCastle(c)
    BY <2>3 DEF ConstructBounceCastle
  <2>4. CASE CipherThrows(c)
    BY <2>4 DEF CipherThrows
  <2>5. QED
    BY <2>1, <2>2, <2>3, <2>4
<1>2. FieldTypes' /\ ParcelTypes' /\ CountTypes'
  <2>1. FieldTypes'
    BY <1>1 DEF ValueInv, FieldTypes, Keys
  <2>2. ParcelTypes'
    BY <1>1 DEF ValueInv, ParcelTypes
  <2>3. call[c].args \in Arguments
    BY <1>1 DEF TypeInv
  <2>4. CountTypes'
    BY <1>1, <2>3 DEF ValueInv, CountTypes
  <2>5. QED
    BY <2>1, <2>2, <2>4
<1>3. LocalTypes' /\ ResultTypes'
  <2>1. CASE Check(c)
    <3>1. /\ pc' = [pc EXCEPT ![c] = pc'[c]] /\ pc'[c] \in {"read", "cipher"}
          /\ UNCHANGED <<algo, local>>
          /\ \E same \in BOOLEAN : sameKey' = [sameKey EXCEPT ![c] = same]
      BY <2>1 DEF Check, Goto, TypeInv
    <3>2. QED
      BY <1>1, <3>1, LocalKept DEF ValueInv, ResultTypes
  <2>2. CASE DeriveThrows(c) \/ CipherThrows(c)
    <3>1. pc' = [pc EXCEPT ![c] = "failed"] /\ UNCHANGED <<algo, local, sameKey>>
      BY <2>2 DEF DeriveThrows, CipherThrows, Goto
    <3>2. QED
      BY <1>1, <3>1, LocalKept DEF ValueInv, ResultTypes
  <2>3. CASE ConstructBounceCastle(c)
    <3>1. /\ local' = [local EXCEPT ![c] = SubSeq(Bounce4, 1, KeyLen)]
          /\ pc' = [pc EXCEPT ![c] = "cipher"] /\ UNCHANGED <<algo, sameKey>>
      BY <2>3 DEF ConstructBounceCastle, Goto
    <3>2. \A d \in Callers \ {c} : local'[d] = local[d]
      BY <3>1 DEF TypeInv
    <3>3. QED
      BY <1>1, <3>1, <3>2, LocalKept DEF ValueInv, ResultTypes
  <2>4. QED
    BY <2>1, <2>2, <2>3
<1>4. QED
  BY <1>2, <1>3 DEF ValueInv

\* The name and the hash.
LEMMA NameValues ==
  ASSUME TypeInv, ValueInv, NEW c \in Callers, SetName(c) \/ SetHash(c)
  PROVE  ValueInv'
<1> DEFINE args == call[c].args
<1>1. /\ UNCHANGED <<algo, key, second, call, sameKey, out, parcel, restarts, named, keyed>>
      /\ Busy(c)
  BY DEF SetName, SetHash, history, Busy, At
<1>2. args.secret \in Seq(Chars) /\ args.hash \in Seq(Chars) \union {NullHash}
  BY <1>1, ArgsType DEF TypeInv
<1>3. ResultTypes' /\ ParcelTypes' /\ CountTypes'
  BY <1>1 DEF ValueInv, ResultTypes, ParcelTypes, CountTypes
<1>4. CASE SetName(c)
  <2>1. privateKey' = Name(args.secret) /\ UNCHANGED userHash
    BY <1>4 DEF SetName
  <2>2. privateKey' \in Seq(Chars)
    BY <1>2, <2>1, CryptAssumption DEF Name
  <2>3. FieldTypes'
    BY <1>1, <2>1, <2>2 DEF ValueInv, FieldTypes, Keys
  <2>4. LocalTypes'
    <3>1. CASE privateKey' = <<>>
      <4>1. local' = [local EXCEPT ![c] = DefaultKey] /\ pc' = [pc EXCEPT ![c] = "blank"]
        BY <1>4, <3>1 DEF SetName, Goto
      <4>2. QED
        BY <1>1, <4>1, DefaultKeyType DEF ValueInv, LocalTypes, TypeInv, Keys
    <3>2. CASE privateKey' # <<>>
      <4>1. UNCHANGED local /\ pc' = [pc EXCEPT ![c] = "hash"]
        BY <1>4, <3>2 DEF SetName, Goto
      <4>2. QED
        BY <1>1, <4>1, LocalKept DEF ValueInv
    <3>3. QED
      BY <3>1, <3>2
  <2>5. QED
    BY <1>3, <2>3, <2>4 DEF ValueInv
<1>5. CASE SetHash(c)
  <2>1. /\ userHash' \in {userHash, Area23Email, args.hash} /\ UNCHANGED <<privateKey, local>>
        /\ pc' = [pc EXCEPT ![c] = IF algo = "ZenMatrix" THEN "blank" ELSE "derive"]
    BY <1>5 DEF SetHash, Goto
  <2>2. userHash' \in Seq(Chars) \union {NullHash}
    BY <1>2, <2>1, CryptAssumption DEF ValueInv, FieldTypes
  <2>3. FieldTypes'
    BY <1>1, <2>1, <2>2 DEF ValueInv, FieldTypes, Keys
  <2>4. LocalTypes'
    BY <1>1, <2>1 DEF ValueInv, LocalTypes, TypeInv, Keys
  <2>5. QED
    BY <1>3, <2>3, <2>4 DEF ValueInv
<1>6. QED
  BY <1>4, <1>5

LEMMA DeriveValues ==
  ASSUME TypeInv, ValueInv, NEW c \in Callers, Derive(c)
  PROVE  ValueInv'
<1> DEFINE args == call[c].args
<1>1. /\ UNCHANGED <<algo, privateKey, userHash, call, sameKey, out, parcel, restarts,
                     named, keyed>>
      /\ Busy(c)
  BY DEF Derive, history, Busy, At
<1>2. args.secret \in Seq(Chars) /\ args.hash \in Seq(Chars) \union {NullHash}
  BY <1>1, ArgsType DEF TypeInv
<1>3. ResultTypes' /\ ParcelTypes' /\ CountTypes'
  BY <1>1 DEF ValueInv, ResultTypes, ParcelTypes, CountTypes
<1>4. /\ N \in Nat /\ KeyLen \in Nat
      /\ MatrixBasePerm \in Matrices /\ BuildReveseMatrix(MatrixBasePerm) \in Matrices
  BY ZenAssumption, CryptAssumption, BaseIsItsReverse DEF AllPermutations
<1>5. privateKey \in Seq(Chars) /\ userHash \in Seq(Chars) \union {NullHash} /\ key \in Keys
  BY DEF ValueInv, FieldTypes
<1>6. CASE algo = "ZenMatrix"
  <2>1. /\ local' = [local EXCEPT ![c] = GetUserKeyBytes(privateKey, userHash, N)]
        /\ key' = MatrixBasePerm /\ second' = BuildReveseMatrix(MatrixBasePerm)
        /\ pc' = [pc EXCEPT ![c] = "copy"]
    BY <1>6 DEF Derive, Goto
  <2>2. /\ GetUserKeyBytes(privateKey, userHash, N) \in Seq(Nat)
        /\ Len(GetUserKeyBytes(privateKey, userHash, N)) = N
    BY <1>4, <1>5, UserBytesType
  <2>3. LocalTypes'
    BY <1>1, <1>6, <2>1, <2>2 DEF ValueInv, LocalTypes, TypeInv, Keys
  <2>4. FieldTypes'
    BY <1>1, <1>4, <1>6, <2>1 DEF ValueInv, FieldTypes, Keys
  <2>5. QED
    BY <1>3, <2>3, <2>4 DEF ValueInv
<1>7. CASE algo # "ZenMatrix"
  <2>1. PICK hash \in {args.hash, userHash} :
          /\ local' = [local EXCEPT ![c] = GetUserKeyBytes(args.secret, hash, KeyLen)]
          /\ UNCHANGED <<key, second>> /\ pc' = [pc EXCEPT ![c] = "blank"]
    BY <1>7 DEF Derive, Goto
  <2>2. /\ GetUserKeyBytes(args.secret, hash, KeyLen) \in Seq(Nat)
        /\ Len(GetUserKeyBytes(args.secret, hash, KeyLen)) = KeyLen
    BY <1>2, <1>4, <1>5, UserBytesType
  <2>3. LocalTypes'
    BY <1>1, <1>7, <2>1, <2>2 DEF ValueInv, LocalTypes, TypeInv, Keys
  <2>4. FieldTypes'
    BY <1>1, <2>1 DEF ValueInv, FieldTypes, Keys
  <2>5. QED
    BY <1>3, <2>3, <2>4 DEF ValueInv
<1>8. QED
  BY <1>6, <1>7

LEMMA NewArrayType == key \in Keys => NewArray \in Keys
<1>1. 0 \in Index
  BY ZeroByte
<1>2. algo = "ZenMatrix" => NewArray \in Matrices
  BY <1>1 DEF NewArray, Matrices
<1>3. algo # "ZenMatrix" => NewArray = <<>> /\ <<>> \in Seq(Nat) /\ Len(<<>>) = 0
  BY DEF NewArray
<1>4. QED
  BY <1>2, <1>3 DEF Keys

\* The key, blank and made.
LEMMA KeyValues ==
  ASSUME TypeInv, ValueInv, NEW c \in Callers, Blank(c) \/ Copy(c) \/ ReadKey(c) \/ SetSecond(c)
  PROVE  ValueInv'
<1> DEFINE args == call[c].args
<1>1. /\ UNCHANGED <<algo, privateKey, userHash, call, sameKey, out, parcel, restarts>>
      /\ named' \in {named, args} /\ keyed' \in {keyed, args}
      /\ args \in Arguments /\ (ReadKey(c) \/ UNCHANGED local)
  <2>1. Busy(c) => args \in Arguments
    BY DEF TypeInv
  <2>2. CASE Blank(c)
    BY <2>1, <2>2 DEF Blank, history, Busy, At
  <2>3. CASE Copy(c)
    BY <2>1, <2>3 DEF Copy, SetUpDone, history, Busy, At
  <2>4. CASE SetSecond(c)
    BY <2>1, <2>4 DEF SetSecond, SetUpDone, history, Busy, At
  <2>5. CASE ReadKey(c)
    BY <2>1, <2>5 DEF ReadKey, static, history, Busy, At
  <2>6. QED
    BY <2>2, <2>3, <2>4, <2>5
<1>2. ResultTypes' /\ ParcelTypes'
  BY <1>1 DEF ValueInv, ResultTypes, ParcelTypes
<1>3. CountTypes'
  BY <1>1 DEF ValueInv, CountTypes
<1>4. FieldTypes' /\ LocalTypes'
  <2>1. CASE Blank(c)
    <3>1. /\ key' = NewArray /\ UNCHANGED <<second, local>> /\ pc[c] = "blank"
          /\ pc' = [pc EXCEPT ![c] = IF algo = "ZenMatrix" THEN "derive" ELSE "copy"]
      BY <2>1 DEF Blank, Goto, At
    <3>2. FieldTypes'
      BY <1>1, <3>1, NewArrayType DEF ValueInv, FieldTypes, Keys
    <3>3. LocalTypes'
      BY <1>1, <3>1 DEF ValueInv, LocalTypes, TypeInv, Keys
    <3>4. QED
      BY <3>2, <3>3
  <2>2. CASE Copy(c)
    <3>1. /\ key' = IF algo = "ZenMatrix" THEN Permute(key, local[c]) ELSE local[c]
          /\ UNCHANGED <<second, local>> /\ pc[c] = "copy"
          /\ pc' = [pc EXCEPT ![c] = IF algo \in Two THEN "read" ELSE "cipher"]
      BY <2>2 DEF Copy, Goto, At
    <3>2. local[c] \in Seq(Nat) /\ (algo # "ZenMatrix" => Len(local[c]) = KeyLen)
      BY <3>1 DEF ValueInv, LocalTypes
    <3>3. Permute(key, local[c]) = key
      BY <3>2, KeyMovesNothing
    <3>4. FieldTypes'
      <4>1. key' \in Keys
        BY <3>1, <3>2, <3>3 DEF ValueInv, FieldTypes, Keys
      <4>2. QED
        BY <1>1, <3>1, <4>1 DEF ValueInv, FieldTypes, Keys
    <3>5. LocalTypes'
      <4>1. PICK p \in {"read", "cipher"} : pc' = [pc EXCEPT ![c] = p]
        BY <3>1
      <4>2. QED
        BY <1>1, <3>1, <4>1, LocalKept DEF ValueInv
    <3>6. QED
      BY <3>4, <3>5
  <2>3. CASE SetSecond(c)
    <3>1. /\ second' = IF algo = "AES" THEN local[c] ELSE BuildReveseMatrix(local[c])
          /\ UNCHANGED <<key, local>> /\ pc[c] = "second" /\ pc' = [pc EXCEPT ![c] = "cipher"]
          /\ algo \in Two
      BY <2>3 DEF SetSecond, Goto, At, TypeInv, Two
    <3>2. local[c] \in Keys
      BY <3>1 DEF ValueInv, LocalTypes
    <3>3. FieldTypes'
      BY <1>1, <3>1, <3>2, ReverseType DEF ValueInv, FieldTypes, Keys, Two
    <3>4. LocalTypes'
      BY <1>1, <3>1, LocalKept DEF ValueInv
    <3>5. QED
      BY <3>3, <3>4
  <2>4. CASE ReadKey(c)
    <3>1. /\ local' = [local EXCEPT ![c] = key] /\ UNCHANGED <<key, second>>
          /\ pc' = [pc EXCEPT ![c] = "second"] /\ key \in Keys
      BY <2>4 DEF ReadKey, Goto, static, ValueInv, FieldTypes
    <3>2. FieldTypes'
      BY <1>1, <3>1 DEF ValueInv, FieldTypes, Keys
    <3>3. LocalTypes'
      BY <1>1, <3>1 DEF ValueInv, LocalTypes, TypeInv, Keys
    <3>4. QED
      BY <3>2, <3>3
  <2>5. QED
    BY <2>1, <2>2, <2>3, <2>4
<1>5. QED
  BY <1>2, <1>3, <1>4 DEF ValueInv

\* Encryptions and decryptions.
LEMMA CipherValues ==
  ASSUME TypeInv, ValueInv, NEW c \in Callers, Encrypt(c) \/ Decrypt(c)
  PROVE  ValueInv'
<1>1. /\ UNCHANGED <<algo, privateKey, userHash, key, second, call, local, sameKey, restarts,
                     named, keyed>>
      /\ pc' = [pc EXCEPT ![c] = "done"] /\ Plain \in Seq(ZenBytes)
  BY CryptAssumption DEF Encrypt, Decrypt, Goto, static, history
<1>2. FieldTypes' /\ CountTypes'
  BY <1>1 DEF ValueInv, FieldTypes, Keys, CountTypes
<1>3. LocalTypes'
  BY <1>1, LocalKept DEF ValueInv
<1>4. CASE Encrypt(c)
  <2>1. ResultTypes'
    BY <1>1, <1>4 DEF Encrypt, ValueInv, ResultTypes
  <2>2. ASSUME parcel' = parcel
        PROVE  ParcelTypes'
    BY <1>1, <2>2 DEF ValueInv, ParcelTypes
  <2>3. ASSUME parcel' # parcel
        PROVE  ParcelTypes'
    <3>1. parcel'.text = IF algo = "ZenMatrix" THEN Process(key, Plain)
                         ELSE <<CipherKey(c), Plain>>
      BY <1>4, <2>3 DEF Encrypt
    <3>2. CASE algo = "ZenMatrix"
      <4>1. key \in Matrices
        BY <3>2 DEF ValueInv, FieldTypes, Keys
      <4>2. Process(key, Plain) \in Seq(ZenBytes) /\ Process(key, Plain) # <<>>
        <5>1. Len(Process(key, Plain)) = Len(Padded(Plain)) /\ Len(Padded(Plain)) \in Nat
          BY <1>1, PaddedBlocks, ProcessByBlocks
        <5>2. Len(Padded(Plain)) > 0
          <6>1. Len(Plain) \in Nat
            BY <1>1
          <6>2. Len(Plain) \div N \in Nat
            BY <6>1, JoinNumber
          <6>3. (Len(Plain) \div N + 1) * N > 0
            BY <6>2, ZenAssumption
          <6>4. QED
            BY <1>1, <6>3, PaddedBlocks
        <5>3. QED
          BY <1>1, <4>1, <5>1, <5>2, ProcessType
      <4>3. QED
        BY <1>1, <3>1, <3>2, <4>2 DEF ParcelTypes
    <3>3. CASE algo # "ZenMatrix"
      BY <1>1, <3>1, <3>3 DEF ParcelTypes
    <3>4. QED
      BY <3>2, <3>3
  <2>4. QED
    BY <1>2, <1>3, <2>1, <2>2, <2>3 DEF ValueInv
<1>5. CASE Decrypt(c)
  <2>1. UNCHANGED parcel /\ call[c].kind = "dec"
        /\ out' = [out EXCEPT ![c] =
                 IF algo = "ZenMatrix" THEN TrimEnd(Process(second, parcel.text))
                 ELSE IF parcel.text[1] = CipherKey(c) THEN TrimEnd(parcel.text[2])
                 ELSE <<>>]
    BY <1>5 DEF Decrypt
  <2>2. ParcelTypes'
    BY <1>1, <2>1 DEF ValueInv, ParcelTypes
  <2>3. algo = "ZenMatrix" => TrimEnd(Process(second, parcel.text)) \in Seq(ZenBytes)
    <3>1. SUFFICES ASSUME algo = "ZenMatrix"
                   PROVE  TrimEnd(Process(second, parcel.text)) \in Seq(ZenBytes)
      OBVIOUS
    <3>2. second \in Matrices /\ parcel.text \in Seq(ZenBytes)
      BY <3>1 DEF ValueInv, FieldTypes, ParcelTypes, Keys, Two
    <3>3. QED
      BY <3>2, ProcessType, TrimEndType
  <2>4. algo # "ZenMatrix" => TrimEnd(parcel.text[2]) \in Seq(ZenBytes)
    <3>1. algo # "ZenMatrix" => parcel.text[2] = Plain
      BY <2>1 DEF ValueInv, ParcelTypes
    <3>2. QED
      BY <1>1, <3>1, TrimEndType
  <2>5. <<>> \in Seq(ZenBytes)
    OBVIOUS
  <2>6. PICK got \in Seq(ZenBytes) : out' = [out EXCEPT ![c] = got]
    BY <2>1, <2>3, <2>4, <2>5
  <2>7. ResultTypes'
    BY <1>1, <2>6 DEF ValueInv, ResultTypes
  <2>8. QED
    BY <1>2, <1>3, <2>2, <2>7 DEF ValueInv
<1>6. QED
  BY <1>4, <1>5

\* Calls begin and end.
LEMMA CallValues ==
  ASSUME TypeInv, ValueInv, NEW c \in Callers,
         Return(c) \/ \E kind \in {"enc", "dec"}, args \in Arguments : Begin(c, kind, args)
  PROVE  ValueInv'
<1>1. /\ UNCHANGED <<algo, privateKey, userHash, key, second, parcel, restarts>>
      /\ named' \in {named, Nobody} /\ keyed' \in {keyed, Nobody}
  <2>1. CASE Return(c)
    BY <2>1 DEF Return, static
  <2>2. ASSUME NEW kind \in {"enc", "dec"}, NEW args \in Arguments, Begin(c, kind, args)
        PROVE  /\ UNCHANGED <<algo, privateKey, userHash, key, second, parcel, restarts>>
               /\ named' \in {named, Nobody} /\ keyed' \in {keyed, Nobody}
    BY <2>2 DEF Begin, static
  <2>3. QED
    BY <2>1, <2>2
<1>2. FieldTypes' /\ CountTypes'
  BY <1>1 DEF ValueInv, FieldTypes, Keys, CountTypes
<1>3. CASE Return(c)
  <2>1. /\ pc' = [pc EXCEPT ![c] = "idle"] /\ call' = [call EXCEPT ![c] = NoCall]
        /\ local' = [local EXCEPT ![c] = <<>>] /\ sameKey' = [sameKey EXCEPT ![c] = TRUE]
        /\ out' = [out EXCEPT ![c] = <<>>]
    BY <1>3 DEF Return, Goto
  <2>2. <<>> \in Seq(Nat) /\ <<>> \in Seq(ZenBytes)
    OBVIOUS
  <2>3. LocalTypes' /\ ResultTypes'
    BY <1>1, <2>1, <2>2 DEF ValueInv, LocalTypes, ResultTypes, TypeInv, Keys
  <2>4. ParcelTypes'
    BY <1>1, <2>1 DEF ValueInv, ParcelTypes, TypeInv, NoCall
  <2>5. QED
    BY <1>2, <2>3, <2>4 DEF ValueInv
<1>4. ASSUME NEW kind \in {"enc", "dec"}, NEW args \in Arguments, Begin(c, kind, args)
      PROVE  ValueInv'
  <2>1. /\ call' = [call EXCEPT ![c] = [kind |-> kind, args |-> args]]
        /\ pc' = [pc EXCEPT ![c] = pc'[c]] /\ pc'[c] \in {"construct", "check", "name"}
        /\ UNCHANGED <<local, sameKey, out>>
        /\ kind = "dec" => parcel.text # <<>>
    BY <1>4 DEF Begin, Goto, TypeInv
  <2>2. LocalTypes'
    BY <1>1, <2>1, LocalKept DEF ValueInv
  <2>3. ResultTypes' /\ ParcelTypes'
    BY <1>1, <2>1 DEF ValueInv, ResultTypes, ParcelTypes, TypeInv
  <2>4. QED
    BY <1>2, <2>2, <2>3 DEF ValueInv
<1>5. QED
  BY <1>3, <1>4

LEMMA FirstValues == Init => ValueInv
<1> SUFFICES ASSUME Init PROVE ValueInv
  OBVIOUS
<1>1. algo \in Algos /\ algo \in AllAlgos /\ MaxRestarts \in Nat
  BY CryptAssumption DEF Init
<1>2. <<>> \in Seq(Chars) /\ <<>> \in Seq(Nat) /\ <<>> \in Seq(ZenBytes)
  OBVIOUS
<1>3. FieldTypes
  BY <1>1, <1>2, FirstKeys DEF Init, FieldTypes, Keys
<1>4. LocalTypes /\ ResultTypes
  BY <1>2 DEF Init, LocalTypes, ResultTypes
<1>5. ParcelTypes /\ CountTypes
  BY <1>1, <1>2 DEF Init, ParcelTypes, CountTypes, NoCall, NoParcel
<1>6. QED
  BY <1>3, <1>4, <1>5 DEF ValueInv

LEMMA RestartValues == ASSUME TypeInv, ValueInv, Restart PROVE ValueInv'
<1>1. <<>> \in Seq(Chars) /\ <<>> \in Seq(Nat) /\ <<>> \in Seq(ZenBytes) /\ algo \in AllAlgos
  BY DEF TypeInv
<1>2. /\ privateKey' = <<>> /\ userHash' = <<>> /\ key' = FirstKey(algo)
      /\ second' = FirstSecond(algo) /\ UNCHANGED <<algo, parcel>>
      /\ restarts < MaxRestarts /\ restarts' = restarts + 1
      /\ named' = Nobody /\ keyed' = Nobody
      /\ pc' = [c \in Callers |-> "idle"] /\ call' = [c \in Callers |-> NoCall]
      /\ local' = [c \in Callers |-> <<>>] /\ sameKey' = [c \in Callers |-> TRUE]
      /\ out' = [c \in Callers |-> <<>>]
  BY DEF Restart
<1>3. FieldTypes'
  BY <1>1, <1>2, FirstKeys DEF FieldTypes, Keys
<1>4. LocalTypes' /\ ResultTypes'
  BY <1>1, <1>2 DEF LocalTypes, ResultTypes
<1>5. ParcelTypes'
  BY <1>2 DEF ValueInv, ParcelTypes, NoCall
<1>6. CountTypes'
  BY <1>2, CryptAssumption DEF ValueInv, CountTypes
<1>7. QED
  BY <1>3, <1>4, <1>5, <1>6 DEF ValueInv

LEMMA NextValues ==
  ASSUME TypeInv, ValueInv, [Next]_vars
  PROVE  ValueInv'
<1>1. ASSUME NEW c \in Callers, CallerStep(c)
      PROVE  ValueInv'
  BY <1>1, PlainStepValues, NameValues, DeriveValues, KeyValues, CipherValues, CallValues
     DEF CallerStep, GenWithKey
<1>2. ASSUME NEW c \in Callers, NEW kind \in {"enc", "dec"}, NEW args \in Arguments,
             Begin(c, kind, args)
      PROVE  ValueInv'
  BY <1>2, CallValues
<1>3. CASE Restart
  BY <1>3, RestartValues
<1>4. CASE UNCHANGED vars
  BY <1>4 DEF vars, static, history, ValueInv, FieldTypes, LocalTypes, ResultTypes,
     ParcelTypes, CountTypes, Keys
<1>5. QED
  BY <1>1, <1>2, <1>3, <1>4 DEF Next, CallerStep

\* Every key in the static fields has the length of a key, or is the array
\* that waits for its bytes; every matrix is one, and every text is of bytes,
\* however callers overlap.
THEOREM CryptTypeCorrect == Spec => []TypeOK
<1>1. TypeInv /\ ValueInv => TypeOK
  BY DEF TypeInv, ValueInv, FieldTypes, LocalTypes, ResultTypes, CountTypes, TypeOK, Kinds,
     PcStates, SettingUp
<1>2. Init => ValueInv
  BY FirstValues
<1>3. TypeInv /\ ValueInv /\ [Next]_vars => ValueInv'
  BY NextValues
<1>4. Spec => []TypeInv
  BY Inductive, PTL DEF IInv
<1>5. QED
  BY <1>1, <1>2, <1>3, <1>4, PTL DEF Spec

-----------------------------------------------------------------------------
(* What a call gives back. *)

\* No caller's key reaches the cipher.
Keyless == {"ZenMatrix", "Camellia"}

BounceKey == SubSeq(Bounce4, 1, KeyLen)

\* The text that an undisturbed encryption with these arguments makes.
TextFor(args) ==
    IF algo = "ZenMatrix" THEN Process(MatrixBasePerm, Plain)
    ELSE <<IF algo = "Camellia" THEN BounceKey ELSE MadeKey(algo, args), Plain>>

\* Nobody sets the fields beside a call that counts as undisturbed.
Lonely == \A c, d \in Callers : alone[c] /\ Busy(c) /\ Renewing(d) => c = d

BounceInv ==
    algo = "Camellia" => \A c \in Callers :
        ~At(c, "check") /\ (At(c, "cipher") => local[c] = BounceKey)

ParcelInv == parcel.text # <<>> => parcel.text = TextFor(parcel.args)

\* Before the cipher, an undisturbed set-up is the last one.
SetUpLast(c) ==
    At(c, "cipher") /\ alone[c] /\ Renewing(c) => ~mixed /\ keyed = call[c].args

\* What GenWithKey has compared is still so.
FlagHolds(c) ==
    /\ alone[c] /\ call[c].kind = "dec" /\ algo \notin Rekeys \union Keyless
    /\ pc[c] \in {"read", "second", "cipher", "done"} /\ sameKey[c]
    => Folded(privateKey) = Folded(call[c].args.secret)

Answered(c) ==
    /\ At(c, "done") /\ alone[c] /\ call[c].kind = "dec"
    /\ parcel.args = call[c].args \/ algo = "Camellia"
    /\ KeyInPlace(call[c].args)
    => Right(c)

CallerInv(c) == SetUpLast(c) /\ FlagHolds(c) /\ Answered(c)

TextInv == Lonely /\ BounceInv /\ ParcelInv /\ \A c \in Callers : CallerInv(c)

LEMMA AloneQuiet ==
  ASSUME Lonely, NEW c \in Callers, alone[c], Busy(c), ~Renewing(c)
  PROVE  Quiet
BY DEF Lonely, Quiet

\* With the key of its arguments in the fields, the cipher uses that key.
LEMMA CipherKeyIs ==
  ASSUME algo \in AllAlgos \ Keyless, NEW c, NEW args \in Arguments, KeyFrom(args)
  PROVE  CipherKey(c) = MadeKey(algo, args)
<1>1. args # Nobody
  BY SomethingGiven
<1>2. key = MadeKey(algo, args) /\ second = SecondOf(algo, args)
  BY <1>1 DEF KeyFrom, KeyOf
<1>3. CASE algo = "AES"
  BY <1>1, <1>2, <1>3 DEF CipherKey, SecondOf
<1>4. CASE algo # "AES"
  BY <1>2, <1>4 DEF CipherKey, Keyless
<1>5. QED
  BY <1>3, <1>4

\* The matrix and its reverse are those that no key moves, whoever's they are.
LEMMA MatrixIs ==
  ASSUME algo = "ZenMatrix", NEW args \in Arguments \union {Nobody}, KeyFrom(args)
  PROVE  key = MatrixBasePerm /\ second = MatrixBasePerm
<1>1. CASE args = Nobody
  BY <1>1, BaseIsItsReverse DEF KeyFrom, KeyOf, SecondOf, FirstKey, FirstSecond
<1>2. CASE args # Nobody
  <2> DEFINE bytes == GetUserKeyBytes(NameOf(algo, args), args.hash, N)
  <2>1. NameOf(algo, args) \in Seq(Chars) /\ args.hash \in Seq(Chars) \union {NullHash}
    BY <1>2, ArgsType, CryptAssumption DEF NameOf
  <2>2. bytes \in Seq(Nat)
    BY <2>1, UserBytesType, ZenAssumption
  <2>3. MadeKey(algo, args) = Permute(MatrixBasePerm, bytes)
    BY DEF MadeKey
  <2>4. MadeKey(algo, args) = MatrixBasePerm
    BY <2>2, <2>3, KeyMovesNothing
  <2>5. QED
    BY <1>2, <2>4, BaseIsItsReverse DEF KeyFrom, KeyOf, SecondOf
<1>3. QED
  BY <1>1, <1>2

-----------------------------------------------------------------------------
(* What a step of one caller leaves to the others. *)

LEMMA LonelyKept ==
  ASSUME TypeInv, Lonely, NEW c \in Callers, Busy(c), NEW p \in PcStates \ {"idle"}, Moves(c, p)
  PROVE  Lonely'
<1>1. /\ pc'[c] = p /\ \A d \in Callers \ {c} : pc'[d] = pc[d]
      /\ algo' = algo /\ call' = call /\ alone' = alone
  BY DEF TypeInv, Moves
<1>2. \A d \in Callers : (Busy(d)' <=> Busy(d)) /\ (Renewing(d)' <=> Renewing(d))
  BY <1>1 DEF Renewing, Busy, Renews
<1>3. QED
  BY <1>1, <1>2 DEF Lonely

LEMMA OthersKept ==
  ASSUME TypeInv, TextInv, NEW c \in Callers, Busy(c), NEW p \in PcStates, Moves(c, p),
         \A d \in Callers \ {c} : out'[d] = out[d] /\ sameKey'[d] = sameKey[d],
         ~Renewing(c) => /\ UNCHANGED <<privateKey, mixed, keyed>>
                         /\ parcel' = parcel \/ algo = "Camellia",
         NEW d \in Callers \ {c}
  PROVE  CallerInv(d)'
<1>1. /\ pc'[d] = pc[d] /\ algo' = algo /\ call' = call /\ alone' = alone
      /\ out'[d] = out[d] /\ sameKey'[d] = sameKey[d]
  BY DEF TypeInv, Moves
<1>2. CASE ~(alone[d] /\ Busy(d))
  BY <1>1, <1>2 DEF CallerInv, SetUpLast, FlagHolds, Answered, At, Busy
<1>3. CASE alone[d] /\ Busy(d)
  <2>1. /\ UNCHANGED <<privateKey, mixed, keyed>>
        /\ parcel' = parcel \/ algo = "Camellia"
    BY <1>3 DEF TextInv, Lonely
  <2>2. CallerInv(d)
    BY DEF TextInv
  <2>3. SetUpLast(d)' /\ FlagHolds(d)'
    BY <1>1, <2>1, <2>2 DEF CallerInv, SetUpLast, FlagHolds, At, Renewing, Busy, Renews
  <2>4. Answered(d)'
    BY <1>1, <2>1, <2>2 DEF CallerInv, Answered, KeyInPlace, Right, At
  <2>5. QED
    BY <2>3, <2>4 DEF CallerInv
<1>4. QED
  BY <1>2, <1>3

LEMMA ParcelKept == ASSUME ParcelInv, UNCHANGED <<algo, parcel>> PROVE ParcelInv'
BY DEF ParcelInv, TextFor

\* What remains to be shown of a step of a caller within its call.
LEMMA StepText ==
  ASSUME TypeInv, TextInv, NEW c \in Callers, Busy(c), NEW p \in PcStates \ {"idle"}, Moves(c, p),
         \A d \in Callers \ {c} : out'[d] = out[d] /\ sameKey'[d] = sameKey[d],
         ~Renewing(c) => /\ UNCHANGED <<privateKey, mixed, keyed>>
                         /\ parcel' = parcel \/ algo = "Camellia",
         p # "check", p = "cipher" /\ algo = "Camellia" => local'[c] = BounceKey,
         ParcelInv', CallerInv(c)'
  PROVE  TextInv'
<1>1. Lonely'
  BY LonelyKept DEF TextInv
<1>2. \A d \in Callers \ {c} : CallerInv(d)'
  BY OthersKept
<1>3. BounceInv'
  <2>1. /\ pc'[c] = p /\ algo' = algo
        /\ \A d \in Callers \ {c} : pc'[d] = pc[d] /\ local'[d] = local[d]
    BY DEF TypeInv, Moves
  <2>2. QED
    BY <2>1 DEF TextInv, BounceInv, At
<1>4. QED
  BY <1>1, <1>2, <1>3 DEF TextInv

-----------------------------------------------------------------------------
(* Steps of a call beside its own texts. *)

\* Steps that go on with a set-up, or end in an exception.
LEMMA SetUpText ==
  ASSUME TypeInv, TextInv, NEW c \in Callers,
         SetName(c) \/ SetHash(c) \/ DeriveThrows(c) \/ CipherThrows(c)
  PROVE  TextInv'
<1>1. /\ UNCHANGED <<algo, key, second, call, out, sameKey, parcel, alone, mixed, keyed>>
      /\ pc[c] \in {"name", "hash", "derive", "cipher"}
      /\ pc[c] = "derive" => algo # "ZenMatrix"
      /\ pc[c] = "cipher" => UNCHANGED privateKey
  <2> USE DEF static, history, At
  <2>1. CASE SetName(c)
    BY <2>1 DEF SetName
  <2>2. CASE SetHash(c)
    BY <2>2 DEF SetHash
  <2>3. CASE DeriveThrows(c)
    BY <2>3 DEF DeriveThrows, IvFromHash
  <2>4. CASE CipherThrows(c)
    BY <2>4 DEF CipherThrows
  <2>5. QED
    BY <2>1, <2>2, <2>3, <2>4
<1>2. PICK p \in {"blank", "hash", "derive", "failed"} : Moves(c, p)
  <2>1. PICK p \in {"blank", "hash", "derive", "failed"} : pc' = [pc EXCEPT ![c] = p]
    BY DEF SetName, SetHash, DeriveThrows, CipherThrows, Goto
  <2>2. local' = local \/ local' = [local EXCEPT ![c] = DefaultKey]
    BY DEF SetName, SetHash, DeriveThrows, CipherThrows
  <2>3. Moves(c, p)
    BY <1>1, <2>1, <2>2 DEF Moves, TypeInv
  <2>4. QED
    BY <2>3
<1>3. Busy(c) /\ (~Renewing(c) => pc[c] = "cipher")
  BY <1>1 DEF TypeInv, Busy, Renewing, SettingUp
<1>5. ParcelInv'
  BY <1>1, ParcelKept DEF TextInv
<1>6. CallerInv(c)'
  <2>1. pc'[c] = p
    BY <1>2 DEF Moves, TypeInv
  <2>2. QED
    BY <2>1 DEF CallerInv, SetUpLast, FlagHolds, Answered, At
<1>7. p \in PcStates \ {"idle"} /\ p # "cipher"
  BY DEF PcStates, SettingUp
<1>8. QED
  BY <1>1, <1>2, <1>3, <1>5, <1>6, <1>7, StepText

\* The key is blank until its bytes are there and copied.
LEMMA KeyText ==
  ASSUME TypeInv, TextInv, NEW c \in Callers, Blank(c) \/ Derive(c)
  PROVE  TextInv'
<1>1. /\ UNCHANGED <<algo, call, out, sameKey, parcel, alone, mixed, keyed>>
      /\ pc[c] \in {"blank", "derive"}
  BY DEF Blank, Derive, history, At
<1>2. PICK p \in {"blank", "copy", "derive"} : Moves(c, p)
  <2>1. PICK p \in {"blank", "copy", "derive"} : pc' = [pc EXCEPT ![c] = p]
    BY DEF Blank, Derive, Goto
  <2>2. local' = local \/ \E bytes : local' = [local EXCEPT ![c] = bytes]
    BY DEF Blank, Derive
  <2>3. Moves(c, p)
    BY <1>1, <2>1, <2>2 DEF Moves, TypeInv
  <2>4. QED
    BY <2>3
<1>3. Busy(c) /\ Renewing(c)
  BY <1>1 DEF TypeInv, Busy, Renewing, SettingUp
<1>4. pc'[c] = p
  BY <1>2 DEF Moves, TypeInv
<1>5. ParcelInv'
  BY <1>1, ParcelKept DEF TextInv
<1>6. CallerInv(c)'
  BY <1>4 DEF CallerInv, SetUpLast, FlagHolds, Answered, At
<1>7. p \in PcStates \ {"idle"} /\ p # "cipher"
  BY DEF PcStates, SettingUp
<1>8. QED
  BY <1>1, <1>2, <1>3, <1>5, <1>6, <1>7, StepText

\* The name is compared, and what was compared stays so.
LEMMA CheckText ==
  ASSUME TypeInv, ValueInv, TextInv, NEW c \in Callers, Check(c)
  PROVE  TextInv'
<1> DEFINE same == Folded(privateKey) = Folded(call[c].args.secret)
           p == IF same /\ algo = "AES" THEN "read" ELSE "cipher"
<1>1. /\ pc[c] = "check" /\ Busy(c) /\ ~Renewing(c)
      /\ UNCHANGED <<algo, privateKey, key, second, call, out, parcel, alone, mixed, keyed>>
      /\ sameKey' = [sameKey EXCEPT ![c] = same]
  BY DEF Check, At, TypeInv, Renewing, Busy, static, history
<1>2. Moves(c, p)
  BY DEF Check, Goto, Moves, TypeInv, history
<1>3. sameKey'[c] = same /\ \A d \in Callers \ {c} : sameKey'[d] = sameKey[d]
  BY <1>1 DEF ValueInv, ResultTypes
<1>4. algo # "Camellia"
  BY <1>1 DEF TextInv, BounceInv, At
<1>5. ParcelInv'
  BY <1>1, ParcelKept DEF TextInv
<1>6. CallerInv(c)'
  <2>1. pc'[c] = p /\ call' = call
    BY <1>1, <1>2 DEF Moves, TypeInv
  <2>2. SetUpLast(c)'
    BY <1>1, <2>1 DEF SetUpLast, Renewing, Busy, Renews
  <2>3. FlagHolds(c)'
    BY <1>1, <1>3, <2>1 DEF FlagHolds
  <2>4. Answered(c)'
    BY <2>1 DEF Answered, At
  <2>5. QED
    BY <2>2, <2>3, <2>4 DEF CallerInv
<1>7. p \in PcStates \ {"idle", "check"}
  BY DEF PcStates
<1>8. QED
  BY <1>1, <1>2, <1>3, <1>4, <1>5, <1>6, <1>7, StepText

LEMMA ConstructText ==
  ASSUME TypeInv, TextInv, NEW c \in Callers, ConstructBounceCastle(c)
  PROVE  TextInv'
<1>1. /\ pc[c] = "construct" /\ Busy(c) /\ algo = "Camellia" /\ ~Renewing(c)
      /\ UNCHANGED <<algo, privateKey, key, second, call, sameKey, out, parcel, alone, mixed, keyed>>
      /\ local' = [local EXCEPT ![c] = BounceKey]
  BY DEF ConstructBounceCastle, BounceKey, At, TypeInv, Renewing, Busy, Renews, static, history
<1>2. Moves(c, "cipher") /\ local'[c] = BounceKey
  BY <1>1 DEF ConstructBounceCastle, Goto, Moves, TypeInv
<1>3. ParcelInv'
  BY <1>1, ParcelKept DEF TextInv
<1>4. CallerInv(c)'
  <2>1. pc'[c] = "cipher" /\ call' = call
    BY <1>1, <1>2 DEF Moves, TypeInv
  <2>2. SetUpLast(c)' /\ FlagHolds(c)' /\ Answered(c)'
    BY <1>1, <2>1 DEF SetUpLast, FlagHolds, Answered, Renewing, Renews, At, Keyless
  <2>3. QED
    BY <2>2 DEF CallerInv
<1>5. QED
  BY <1>1, <1>2, <1>3, <1>4, StepText DEF PcStates

\* The key is copied, and with most algorithms that is all.
LEMMA CopyText ==
  ASSUME TypeInv, TextInv, NEW c \in Callers, Copy(c)
  PROVE  TextInv'
<1> DEFINE p == IF algo \in Two THEN "read" ELSE "cipher"
<1>1. /\ pc[c] = "copy" /\ Busy(c) /\ Renewing(c)
      /\ UNCHANGED <<algo, second, call, sameKey, out, parcel, alone>>
      /\ p = "cipher" => SetUpDone(c)
  BY DEF Copy, At, TypeInv, SettingUp, Renewing, Busy, history
<1>2. Moves(c, p)
  BY <1>1 DEF Copy, Goto, Moves, TypeInv
<1>3. pc'[c] = p
  BY <1>2 DEF Moves, TypeInv
<1>4. ParcelInv'
  BY <1>1, ParcelKept DEF TextInv
<1>5. CallerInv(c)'
  <2>1. SetUpLast(c)'
    BY <1>1, <1>3 DEF SetUpLast, SetUpDone, At
  <2>2. FlagHolds(c)' /\ Answered(c)'
    BY <1>1, <1>3 DEF FlagHolds, Answered, Renewing, Renews, At, Two, Rekeys
  <2>3. QED
    BY <2>1, <2>2 DEF CallerInv
<1>6. p \in PcStates \ {"idle", "check"} /\ algo # "Camellia"
  BY <1>1 DEF PcStates, Renewing, Renews
<1>7. QED
  BY <1>1, <1>2, <1>4, <1>5, <1>6, StepText

\* The key is read, for what is made from it ...
LEMMA ReadText ==
  ASSUME TypeInv, TextInv, NEW c \in Callers, ReadKey(c)
  PROVE  TextInv'
<1>1. /\ pc[c] = "read" /\ Busy(c)
      /\ UNCHANGED <<algo, privateKey, call, sameKey, out, parcel, alone, mixed, keyed>>
      /\ local' = [local EXCEPT ![c] = key] /\ pc' = [pc EXCEPT ![c] = "second"]
  BY DEF ReadKey, Goto, At, Busy, static, history
<1>2. Moves(c, "second") /\ pc'[c] = "second"
  BY <1>1 DEF Moves, TypeInv
<1>3. ParcelInv'
  BY <1>1, ParcelKept DEF TextInv
<1>4. CallerInv(c)'
  BY <1>1, <1>2 DEF TextInv, CallerInv, SetUpLast, FlagHolds, Answered, At
<1>5. QED
  BY <1>1, <1>2, <1>3, <1>4, StepText DEF PcStates

\* ... and that is assigned.
LEMMA SecondText ==
  ASSUME TypeInv, TextInv, NEW c \in Callers, SetSecond(c)
  PROVE  TextInv'
<1>1. /\ pc[c] = "second" /\ Busy(c) /\ algo \in Two
      /\ UNCHANGED <<algo, privateKey, call, sameKey, out, parcel, alone>>
      /\ IF Renewing(c) THEN SetUpDone(c) ELSE UNCHANGED <<mixed, keyed>>
  BY DEF SetSecond, At, TypeInv, Busy, Renewing, Renews, Rekeys, history, Two
<1>2. Moves(c, "cipher")
  BY <1>1 DEF SetSecond, Goto, Moves, TypeInv
<1>3. pc'[c] = "cipher"
  BY <1>2 DEF Moves, TypeInv
<1>4. ParcelInv'
  BY <1>1, ParcelKept DEF TextInv
<1>5. CallerInv(c)'
  <2>1. SetUpLast(c)'
    BY <1>1, <1>3 DEF SetUpLast, SetUpDone, At, Renewing, Busy, Renews
  <2>2. FlagHolds(c)'
    BY <1>1, <1>3 DEF TextInv, CallerInv, FlagHolds
  <2>3. Answered(c)'
    BY <1>3 DEF Answered, At
  <2>4. QED
    BY <2>1, <2>2, <2>3 DEF CallerInv
<1>6. algo # "Camellia"
  BY <1>1 DEF Two
<1>7. QED
  BY <1>1, <1>2, <1>4, <1>5, <1>6, StepText DEF PcStates

-----------------------------------------------------------------------------
(* The cipher. *)

\* With nobody beside it, a call that is the last to have set the fields, or
\* one beside fields that are not mixed, finds the key of the last set-up there.
LEMMA KeyOfLast ==
  ASSUME TypeInv, CallInv, TextInv, NEW c \in Callers, At(c, "cipher"), alone[c],
         Renewing(c) \/ ~mixed
  PROVE  ~mixed /\ KeyFrom(keyed) /\ (Renewing(c) => keyed = call[c].args)
<1>1. Busy(c)
  BY DEF At, Busy
<1>2. ~mixed /\ (Renewing(c) => keyed = call[c].args)
  BY DEF TextInv, CallerInv, SetUpLast
<1>3. mixed \/ Fields
  <2>1. CASE Renewing(c)
    BY <2>1 DEF CallInv, StageInv, Stage, At
  <2>2. CASE ~Renewing(c)
    BY <1>1, <2>2, AloneQuiet DEF TextInv, CallInv, QuietInv
  <2>3. QED
    BY <2>1, <2>2
<1>4. QED
  BY <1>2, <1>3 DEF Fields

LEMMA OwnKey ==
  ASSUME TypeInv, CallInv, TextInv, NEW c \in Callers, At(c, "cipher"), alone[c],
         Renewing(c) \/ (~mixed /\ keyed = call[c].args)
  PROVE  KeyFrom(call[c].args)
BY KeyOfLast

LEMMA MatrixSettled ==
  ASSUME TypeInv, CallInv, ValueInv, TextInv, algo = "ZenMatrix",
         NEW c \in Callers, At(c, "cipher"), alone[c], Renewing(c) \/ ~mixed
  PROVE  key = MatrixBasePerm /\ second = MatrixBasePerm
<1>1. KeyFrom(keyed)
  BY KeyOfLast
<1>2. keyed \in Arguments \union {Nobody}
  BY DEF ValueInv, CountTypes
<1>3. QED
  BY <1>1, <1>2, MatrixIs

\* The cipher, whether it encrypts or decrypts, uses the key that TextFor names.
LEMMA KeyOfText ==
  ASSUME TypeInv, CallInv, TextInv, NEW c \in Callers, At(c, "cipher"), alone[c],
         algo # "ZenMatrix",
         algo = "Camellia" \/ Renewing(c) \/ (~mixed /\ keyed = call[c].args)
  PROVE  TextFor(call[c].args) = <<CipherKey(c), Plain>>
<1>1. CASE algo = "Camellia"
  <2>1. CipherKey(c) = BounceKey
    BY <1>1 DEF CipherKey, TextInv, BounceInv
  <2>2. QED
    BY <1>1, <2>1 DEF TextFor
<1>2. CASE algo # "Camellia"
  <2>1. KeyFrom(call[c].args)
    BY <1>2, OwnKey
  <2>2. call[c].args \in Arguments /\ algo \in AllAlgos \ Keyless
    BY <1>2 DEF TypeInv, At, Busy, Keyless
  <2>3. CipherKey(c) = MadeKey(algo, call[c].args)
    BY <2>1, <2>2, CipherKeyIs
  <2>4. QED
    BY <1>2, <2>3 DEF TextFor
<1>3. QED
  BY <1>1, <1>2

LEMMA EncryptText ==
  ASSUME TypeInv, CallInv, ValueInv, TextInv, NEW c \in Callers, Encrypt(c)
  PROVE  TextInv'
<1> DEFINE args == call[c].args
           text == IF algo = "ZenMatrix" THEN Process(key, Plain) ELSE <<CipherKey(c), Plain>>
<1>1. /\ pc[c] = "cipher" /\ At(c, "cipher") /\ Busy(c) /\ call[c].kind = "enc"
      /\ Renewing(c) \/ algo = "Camellia"
      /\ UNCHANGED <<algo, privateKey, key, second, call, sameKey, out, alone, mixed, keyed>>
      /\ parcel' = parcel \/ (alone[c] /\ parcel' = [args |-> args, text |-> text])
  BY DEF Encrypt, At, TypeInv, Busy, Renewing, Renews, static, history
<1>2. Moves(c, "done")
  BY <1>1 DEF Encrypt, Goto, Moves, TypeInv
<1>4. ParcelInv'
  <2>1. CASE parcel' = parcel
    BY <1>1, <2>1, ParcelKept DEF TextInv
  <2>2. CASE alone[c] /\ parcel' = [args |-> args, text |-> text]
    <3>1. text = TextFor(args)
      <4>1. CASE algo = "ZenMatrix"
        BY <1>1, <2>2, <4>1, MatrixSettled DEF TextInv, TextFor
      <4>2. CASE algo # "ZenMatrix"
        BY <1>1, <2>2, <4>2, KeyOfText
      <4>3. QED
        BY <4>1, <4>2
    <3>2. parcel'.text = text /\ parcel'.args = args
      BY <2>2
    <3>3. TextFor(args)' = TextFor(args)
      BY <1>1 DEF TextFor
    <3>4. QED
      BY <1>1, <3>1, <3>2 DEF ParcelInv, TextFor
  <2>3. QED
    BY <1>1, <2>1, <2>2
<1>5. CallerInv(c)'
  <2>1. pc'[c] = "done" /\ call' = call
    BY <1>1, <1>2 DEF Moves, TypeInv
  <2>2. QED
    BY <1>1, <2>1 DEF CallerInv, SetUpLast, FlagHolds, Answered, At
<1>6. QED
  BY <1>1, <1>2, <1>4, <1>5, StepText DEF PcStates

LEMMA DecryptText ==
  ASSUME TypeInv, CallInv, ValueInv, TextInv, NEW c \in Callers, Decrypt(c)
  PROVE  TextInv'
<1> DEFINE args == call[c].args
<1>1. /\ pc[c] = "cipher" /\ At(c, "cipher") /\ Busy(c) /\ call[c].kind = "dec"
      /\ UNCHANGED <<algo, privateKey, key, second, call, sameKey, parcel, alone, mixed, keyed>>
      /\ out' = [out EXCEPT ![c] =
                   IF algo = "ZenMatrix" THEN TrimEnd(Process(second, parcel.text))
                   ELSE IF parcel.text[1] = CipherKey(c) THEN TrimEnd(parcel.text[2])
                   ELSE <<>>]
  BY DEF Decrypt, At, TypeInv, Busy, static, history
<1>2. Moves(c, "done")
  BY <1>1 DEF Decrypt, Goto, Moves, TypeInv
<1>3. ParcelInv'
  BY <1>1, ParcelKept DEF TextInv
<1>4. /\ out'[c] = IF algo = "ZenMatrix" THEN TrimEnd(Process(second, parcel.text))
                   ELSE IF parcel.text[1] = CipherKey(c) THEN TrimEnd(parcel.text[2])
                   ELSE <<>>
      /\ \A d \in Callers \ {c} : out'[d] = out[d]
  BY <1>1 DEF ValueInv, ResultTypes
<1>5. pc'[c] = "done" /\ call' = call
  BY <1>1, <1>2 DEF Moves, TypeInv
<1>6. parcel.text = TextFor(parcel.args)
  BY <1>1 DEF ValueInv, ParcelTypes, TextInv, ParcelInv
<1>7. ASSUME alone[c], algo = "ZenMatrix", ~mixed
      PROVE  Right(c)'
  <2>1. parcel.text = Process(MatrixBasePerm, Plain)
    BY <1>6, <1>7 DEF TextFor
  <2>2. second = BuildReveseMatrix(MatrixBasePerm)
    BY <1>1, <1>7, MatrixSettled, BaseIsItsReverse DEF TextInv
  <2>3. TrimEnd(Process(second, parcel.text)) = TrimEnd(Plain)
    BY <2>1, <2>2, BaseRoundTrip, CryptAssumption
  <2>4. QED
    BY <1>4, <1>7, <2>3 DEF Right
<1>8. ASSUME alone[c], algo # "ZenMatrix", TextFor(parcel.args) = <<CipherKey(c), Plain>>
      PROVE  Right(c)'
  BY <1>4, <1>6, <1>8 DEF Right
<1>9. Answered(c)'
  <2>1. ASSUME alone[c], parcel.args = args \/ algo = "Camellia", KeyInPlace(args)
        PROVE  Right(c)'
    <3>1. CASE algo = "ZenMatrix"
      BY <1>7, <2>1, <3>1 DEF KeyInPlace, Rekeys
    <3>2. CASE algo # "ZenMatrix"
      <4>1. algo = "Camellia" \/ algo \in Rekeys \/ (~mixed /\ keyed = args)
        BY <2>1, <3>2 DEF KeyInPlace, Rekeys
      <4>2. algo \in Rekeys => Renewing(c)
        BY <1>1 DEF Renewing, Renews, Rekeys
      <4>3. TextFor(args) = <<CipherKey(c), Plain>>
        BY <1>1, <2>1, <3>2, <4>1, <4>2, KeyOfText
      <4>4. TextFor(parcel.args) = TextFor(args)
        BY <2>1, <3>2 DEF TextFor
      <4>5. QED
        BY <1>8, <2>1, <3>2, <4>3, <4>4
    <3>3. QED
      BY <3>1, <3>2
  <2>2. KeyInPlace(args)' => KeyInPlace(args)
    BY <1>1 DEF KeyInPlace, Rekeys
  <2>3. QED
    BY <1>1, <1>5, <2>1, <2>2 DEF Answered
<1>10. CallerInv(c)'
  <2>1. SetUpLast(c)'
    BY <1>5 DEF SetUpLast, At
  <2>2. FlagHolds(c)'
    BY <1>1, <1>5 DEF TextInv, CallerInv, FlagHolds
  <2>3. QED
    BY <1>9, <2>1, <2>2 DEF CallerInv
<1>11. QED
  BY <1>1, <1>2, <1>3, <1>4, <1>10, StepText DEF PcStates

-----------------------------------------------------------------------------
(* Calls begin and end. *)

LEMMA BeginText ==
  ASSUME TypeInv, ValueInv, TextInv, NEW c \in Callers, NEW kind \in {"enc", "dec"},
         NEW args \in Arguments, Begin(c, kind, args)
  PROVE  TextInv'
<1> DEFINE meets == \E d \in Callers \ {c} : Busy(d) /\ Disturbs(call[d].kind, kind)
<1>1. /\ ~Busy(c) /\ pc[c] = "idle"
      /\ UNCHANGED <<algo, privateKey, key, second, local, sameKey, out, parcel>>
      /\ ~(meets /\ Sets(kind)) => UNCHANGED <<mixed, keyed>>
  BY DEF Begin, Busy, static
<1>2. /\ pc'[c] \in {"construct", "check", "name"} /\ (algo = "Camellia" => pc'[c] = "construct")
      /\ call'[c].kind = kind
      /\ \A d \in Callers \ {c} : pc'[d] = pc[d] /\ call'[d] = call[d]
  BY DEF Begin, Goto, TypeInv
<1>3. /\ alone'[c] <=> ~meets
      /\ \A d \in Callers \ {c} : alone'[d] <=> alone[d] /\ ~(Busy(d) /\ Disturbs(kind, call[d].kind))
  <2>1. alone' = [d \in Callers |-> IF d = c THEN ~meets
                                    ELSE alone[d] /\ ~(Busy(d) /\ Disturbs(kind, call[d].kind))]
    BY DEF Begin
  <2>2. QED
    BY <2>1 DEF TypeInv
<1>4. /\ Renewing(c)' <=> Renews(kind)
      /\ \A d \in Callers \ {c} : (Renewing(d)' <=> Renewing(d)) /\ (Busy(d)' <=> Busy(d))
  BY <1>1, <1>2 DEF Renewing, Busy, Renews
<1>5. Lonely'
  <2>1. ASSUME NEW x \in Callers, NEW y \in Callers, alone'[x], Busy(x)', Renewing(y)'
        PROVE  x = y
    <3>1. SUFFICES ASSUME x # y PROVE FALSE
      OBVIOUS
    <3>2. CASE x = c
      BY <1>3, <1>4, <2>1, <3>1, <3>2 DEF Renewing, Disturbs, Sets
    <3>3. CASE y = c
      <4>1. Disturbs(kind, call[x].kind)
        BY <1>4, <2>1, <3>3 DEF Disturbs, Sets
      <4>2. QED
        BY <1>3, <1>4, <2>1, <3>1, <3>3, <4>1
    <3>4. CASE x # c /\ y # c
      BY <1>3, <1>4, <2>1, <3>1, <3>4 DEF TextInv, Lonely
    <3>5. QED
      BY <3>2, <3>3, <3>4
  <2>2. QED
    BY <2>1 DEF Lonely
<1>7. BounceInv'
  BY <1>1, <1>2 DEF TextInv, BounceInv, At
<1>8. ParcelInv'
  BY <1>1, ParcelKept DEF TextInv
<1>9. CallerInv(c)'
  BY <1>2 DEF CallerInv, SetUpLast, FlagHolds, Answered, At
<1>10. ASSUME NEW d \in Callers \ {c}
       PROVE  CallerInv(d)'
  <2>1. CASE ~(alone'[d] /\ Busy(d))
    BY <1>2, <2>1 DEF CallerInv, SetUpLast, FlagHolds, Answered, At, Busy
  <2>2. CASE alone'[d] /\ Busy(d)
    <3>1. Busy(d) /\ alone[d] /\ ~Disturbs(kind, call[d].kind)
      BY <1>3, <1>4, <2>2
    <3>6. UNCHANGED <<mixed, keyed>>
      <4>1. SUFFICES ASSUME meets, Sets(kind) PROVE FALSE
        BY <1>1
      <4>2. PICK e \in Callers \ {c} : Busy(e) /\ Disturbs(call[e].kind, kind)
        BY <4>1
      <4>3. ~Renews(kind) /\ ~Renewing(d)
        BY <3>1, <4>1 DEF Disturbs, Renewing
      <4>4. Renewing(e)
        BY <4>2, <4>3 DEF Disturbs, Renewing
      <4>5. QED
        BY <3>1, <4>3, <4>4 DEF TextInv, Lonely
    <3>2. CallerInv(d)
      BY DEF TextInv
    <3>3. SetUpLast(d)' /\ FlagHolds(d)'
      BY <1>1, <1>2, <1>4, <3>1, <3>2, <3>6 DEF CallerInv, SetUpLast, FlagHolds, At
    <3>4. Answered(d)'
      BY <1>1, <1>2, <3>1, <3>2, <3>6 DEF CallerInv, Answered, KeyInPlace, Right, At
    <3>5. QED
      BY <3>3, <3>4 DEF CallerInv
  <2>3. QED
    BY <2>1, <2>2
<1>11. QED
  BY <1>5, <1>7, <1>8, <1>9, <1>10 DEF TextInv

LEMMA ReturnText ==
  ASSUME TypeInv, ValueInv, TextInv, NEW c \in Callers, Return(c)
  PROVE  TextInv'
<1>1. /\ pc[c] \in {"done", "failed"}
      /\ UNCHANGED <<algo, privateKey, key, second, parcel, mixed, keyed>>
  BY DEF Return, static
<1>2. /\ pc'[c] = "idle"
      /\ \A d \in Callers \ {c} : /\ pc'[d] = pc[d] /\ call'[d] = call[d]
                                  /\ local'[d] = local[d] /\ alone'[d] = alone[d]
                                  /\ sameKey'[d] = sameKey[d] /\ out'[d] = out[d]
  <2>1. pc'[c] = "idle" /\ \A d \in Callers \ {c} : pc'[d] = pc[d] /\ call'[d] = call[d]
    BY DEF Return, Goto, TypeInv
  <2>2. \A d \in Callers \ {c} : local'[d] = local[d] /\ alone'[d] = alone[d]
    BY DEF Return, TypeInv
  <2>3. \A d \in Callers \ {c} : sameKey'[d] = sameKey[d] /\ out'[d] = out[d]
    BY DEF Return, ValueInv, ResultTypes
  <2>4. QED
    BY <2>1, <2>2, <2>3
<1>3. /\ ~Busy(c)' /\ ~Renewing(c)'
      /\ \A d \in Callers \ {c} : (Renewing(d)' <=> Renewing(d)) /\ (Busy(d)' <=> Busy(d))
  BY <1>1, <1>2 DEF Renewing, Busy, Renews
<1>4. Lonely'
  BY <1>2, <1>3 DEF TextInv, Lonely
<1>6. BounceInv'
  BY <1>1, <1>2 DEF TextInv, BounceInv, At
<1>7. ParcelInv'
  BY <1>1, ParcelKept DEF TextInv
<1>8. CallerInv(c)'
  BY <1>2 DEF CallerInv, SetUpLast, FlagHolds, Answered, At
<1>9. ASSUME NEW d \in Callers \ {c}
      PROVE  CallerInv(d)'
  <2>1. CallerInv(d)
    BY DEF TextInv
  <2>2. SetUpLast(d)' /\ FlagHolds(d)'
    BY <1>1, <1>2, <1>3, <2>1 DEF CallerInv, SetUpLast, FlagHolds, At
  <2>3. Answered(d)'
    BY <1>1, <1>2, <2>1 DEF CallerInv, Answered, KeyInPlace, Right, At
  <2>4. QED
    BY <2>2, <2>3 DEF CallerInv
<1>10. QED
  BY <1>4, <1>6, <1>7, <1>8, <1>9 DEF TextInv

\* Before the first call, and after a restart, nobody is at anything.
LEMMA FreshText ==
  ASSUME \A c \in Callers : pc[c] = "idle", ParcelInv
  PROVE  TextInv
<1>1. Lonely
  BY DEF Lonely, Renewing, Busy
<1>2. BounceInv /\ \A c \in Callers : CallerInv(c)
  BY DEF BounceInv, CallerInv, SetUpLast, FlagHolds, Answered, At
<1>3. QED
  BY <1>1, <1>2 DEF TextInv

LEMMA NextText ==
  ASSUME TypeInv, CallInv, ValueInv, TextInv, [Next]_vars
  PROVE  TextInv'
<1>1. ASSUME NEW c \in Callers, NEW kind \in {"enc", "dec"}, NEW args \in Arguments,
             Begin(c, kind, args)
      PROVE  TextInv'
  BY <1>1, BeginText
<1>2. ASSUME NEW c \in Callers, CallerStep(c)
      PROVE  TextInv'
  BY <1>2, CheckText, SetUpText, KeyText, CopyText, ReadText, SecondText, ConstructText, EncryptText,
     DecryptText, ReturnText DEF CallerStep, GenWithKey
<1>3. CASE Restart
  <2>1. (\A c \in Callers : pc'[c] = "idle") /\ UNCHANGED <<algo, parcel>>
    BY <1>3 DEF Restart
  <2>2. ParcelInv'
    BY <2>1, ParcelKept DEF TextInv
  <2>3. Lonely'
    BY <2>1 DEF Lonely, Renewing, Busy
  <2>4. BounceInv' /\ (\A c \in Callers : CallerInv(c))'
    BY <2>1 DEF BounceInv, CallerInv, SetUpLast, FlagHolds, Answered, At
  <2>5. QED
    BY <2>2, <2>3, <2>4 DEF TextInv
<1>4. CASE UNCHANGED vars
  <2> USE <1>4 DEF vars, static, history
  <2>1. Lonely' /\ BounceInv' /\ ParcelInv'
    BY DEF TextInv, Lonely, BounceInv, ParcelInv, TextFor, At, Renewing, Busy, Renews
  <2>2. ASSUME NEW c \in Callers
        PROVE  CallerInv(c)'
    BY DEF TextInv, CallerInv, SetUpLast, FlagHolds, Answered, KeyInPlace, Right, At,
       Renewing, Busy, Renews
  <2>3. QED
    BY <2>1, <2>2 DEF TextInv
<1>5. QED
  BY <1>1, <1>2, <1>3, <1>4 DEF Next, CallerStep

\* What every parcel and every answer is: the text that its arguments make,
\* and the plain bytes again, while nobody else sets the fields.
LEMMA TextsOfOwnKeys == Spec => [](IInv /\ ValueInv /\ TextInv)
<1>1. Init => IInv /\ ValueInv /\ TextInv
  <2> SUFFICES ASSUME Init PROVE IInv /\ ValueInv /\ TextInv
    OBVIOUS
  <2>1. IInv /\ ValueInv
    BY InitType, InitCalls, FirstValues DEF IInv
  <2>2. ParcelInv
    BY DEF Init, ParcelInv, NoParcel
  <2>3. TextInv
    BY <2>2, FreshText DEF Init
  <2>4. QED
    BY <2>1, <2>3
<1>2. IInv /\ ValueInv /\ TextInv /\ [Next]_vars => (IInv /\ ValueInv /\ TextInv)'
  BY NextInv, NextValues, NextText DEF IInv
<1>3. QED
  BY <1>1, <1>2, PTL DEF Spec

\* With the arguments of the encryption, DecryptBytes gives back the bytes
\* that EncryptBytes was given, for any callers, keys, bytes and algorithm, if
\* nobody set the static fields meanwhile and its own key is in them.
THEOREM OwnTextDecrypts == Spec => []DecryptsOwn
<1>1. TextInv => DecryptsOwn
  BY DEF TextInv, CallerInv, Answered, DecryptsOwn, Mine
<1>2. QED
  BY <1>1, TextsOfOwnKeys, PTL

\* GenWithKey says true of a key that is not the same only if set-ups
\* overlapped or one failed, or if the other key's name is the same but for
\* letter case.
THEOREM FlagIsOfTheName == Spec => []TrustedFlag
<1>1. TypeInv /\ CallInv /\ ValueInv /\ TextInv => TrustedFlag
  <2> SUFFICES ASSUME TypeInv, CallInv, ValueInv, TextInv, NEW c \in Callers,
                      Mine(c), sameKey[c], ~Right(c), ~mixed, named = keyed
               PROVE  /\ keyed # call[c].args
                      /\ Folded(keyed.secret) = Folded(call[c].args.secret)
    BY DEF TrustedFlag
  <2>1. algo \notin Rekeys \union Keyless /\ keyed # call[c].args
    BY DEF TextInv, CallerInv, Answered, Mine, KeyInPlace, Keyless, Rekeys
  <2>2. Folded(privateKey) = Folded(call[c].args.secret)
    BY <2>1 DEF TextInv, CallerInv, FlagHolds, Mine, At
  <2>3. ~Renewing(c) /\ Busy(c)
    BY <2>1 DEF Mine, Renewing, Renews, At, Busy
  <2>4. NameLeft
    BY <2>3, AloneQuiet DEF Mine, TextInv, CallInv, QuietInv, Fields
  <2>5. privateKey = keyed.secret
    BY <2>1, <2>4 DEF NameLeft, NameFrom, NameOf, Nobody, Keyless
  <2>6. QED
    BY <2>1, <2>2, <2>5
<1>2. QED
  BY <1>1, TextsOfOwnKeys, PTL DEF IInv
=============================================================================

----------------------------- MODULE ZenMatrix -----------------------------
(***************************************************************************)
(* The arithmetic of ZenMatrix.cs: a permutation of the N nibbles, N = 16  *)
(* in the code, that moves the bytes of a block and maps both nibbles of   *)
(* each byte.  Crypt is the state machine around it.                       *)
(***************************************************************************)
EXTENDS Naturals, Sequences, FiniteSetsExt, SequencesExt

CONSTANT N  \* nibbles, and bytes of a block

ASSUME ZenAssumption == N \in Nat \ {0}

Index == 0 .. N - 1
ZenBytes == 0 .. N * N - 1

Matrices == [Index -> Index]
IsPermutation(p) == p \in Matrices /\ \A i, j \in Index : p[i] = p[j] => i = j

MatrixBasePerm == [i \in Index |-> i]

SwapSBytes(p, a, b) == [p EXCEPT ![a] = p[b], ![b] = p[a]]

\* One turn of the loop over the key's bytes: a nibble met for the first time
\* swaps the places that it and the count of those before it name.
Turn(m, keyByte) ==
    LET b == keyByte % N
    IN  IF b \in m.PermKeyHash THEN m
        ELSE [perm |-> SwapSBytes(m.perm, b, m.bCnt),
              PermKeyHash |-> m.PermKeyHash \union {b},
              bCnt |-> m.bCnt + 1]

\* Mutant: no nibble has been met before the loop.
PermKeyHash_Empty == {}

\* The nibbles that count as met before the loop: InitMatrixSymChiffer takes
\* all of MatrixBasePerm.
PermKeyHash == Index

Permute(p, keyBytes) ==
    FoldLeft(Turn, [perm |-> p, PermKeyHash |-> PermKeyHash, bCnt |-> 0], keyBytes).perm

\* A matrix that is no permutation leaves zeroes, and the last place wins.
LastPlace(p, v) == LET S == {m \in Index : p[m] = v} IN IF S = {} THEN 0 ELSE Max(S)

BuildReveseMatrix(p) == [v \in Index |-> LastPlace(p, v)]

MapByteValue(p, byte) == p[byte \div N] * N + p[byte % N]

\* ProcessEncryptBytes, and with the reverse matrix ProcessDecryptBytes.
ProcessBytes(p, block) ==
    [i \in Index |-> IF \E a \in Index : p[a] = i
                     THEN MapByteValue(p, block[LastPlace(p, i)])
                     ELSE 0]

Zeroes(n) == [i \in 1..n |-> 0]

\* Encrypt and Decrypt both fill up with zeroes, a whole block if none is
\* missing, and process block by block.  Neither takes an empty array; whoever
\* calls either sees to that.
Process(p, data) ==
    LET padded == data \o Zeroes(N - (Len(data) % N))
        block(k) == [i \in Index |-> padded[k * N + i + 1]]
    IN  [i \in 1..Len(padded) |->
            ProcessBytes(p, block((i - 1) \div N))[(i - 1) % N]]

\* TrimEnd('\0') of DecryptString.
TrimEnd(data) ==
    SubSeq(data, 1, Max({0} \union {i \in DOMAIN data : data[i] # 0}))
=============================================================================

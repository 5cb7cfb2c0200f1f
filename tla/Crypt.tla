------------------------------- MODULE Crypt -------------------------------
(***************************************************************************)
(* Crypt.EncryptBytes and DecryptBytes over the static classes of          *)
(* SymCipher/Algo: several callers, one set of static key fields.          *)
(*                                                                         *)
(* EncryptBytes sets the key up and encrypts; DecryptBytes sets it up      *)
(* again (3FISH, 3DES), only compares its name (the others), or makes an   *)
(* instance of its own (the names CryptBounceCastle serves).  Nothing      *)
(* locks the fields, and a restart sets them back.                         *)
(*                                                                         *)
(* A string is a sequence of Chars.  A block cipher is what it promises:   *)
(* the key that encrypted, and no other, decrypts; ZenMatrix is computed.  *)
(***************************************************************************)
EXTENDS ZenMatrix

CONSTANTS
    Callers,
    Algos,          \* the names among AllAlgos that are explored
    Arguments,      \* pairs of secret key and keyIv that callers use
    NullHash,       \* null, which a keyIv may be
    NoHash,         \* what stands where no call gave a keyIv
    Chars, Lower,   \* characters, and the letter case that Equals ignores
    KeyLen,         \* bytes of a key
    AuthorEmail, Area23Email,   \* what stands in for an empty key or hash
    Bounce4,        \* the resource BOUNCE4
    Plain,          \* the bytes that are encrypted
    MaxRestarts     \* bound of the model

AllAlgos == {"2FISH", "3FISH", "3DES", "AES", "Rijndael", "Serpent",
             "ZenMatrix", "Camellia"}

ASSUME CryptAssumption ==
    /\ Algos \subseteq AllAlgos
    /\ KeyLen \in Nat \ {0} /\ KeyLen % 3 = 0 /\ MaxRestarts \in Nat
    /\ Chars \subseteq Nat /\ Lower \in [Chars -> Chars]
    /\ Arguments \subseteq [secret : Seq(Chars), hash : Seq(Chars) \union {NullHash}]
    /\ NullHash \notin Seq(Chars) /\ NoHash \notin Seq(Chars) \union {NullHash}
    /\ {AuthorEmail, Area23Email} \subseteq Seq(Chars) \ {<<>>}
    /\ Bounce4 \in Seq(Chars) /\ Len(Bounce4) >= KeyLen
    /\ Plain \in Seq(ZenBytes)

VARIABLES
    algo,       \* the algorithm all callers use; other classes share nothing
    privateKey, userHash,   \* static fields of its class
    key,        \* FishKey, DesKey, AesKey, ... or MatrixPermKey
    second,     \* AesAlgo.Key or MatrixReverse, made from key afterwards
    pc, call, local, sameKey, out,  \* of each caller: the step it is at, its
                \* arguments, the key it made or read, GenWithKey's result, what it got
    parcel,     \* a ciphertext somebody kept, and the arguments it was made
                \* with; nothing is expected of one made while calls overlapped
    restarts,
    alone,      \* history: no call that disturbs the caller's own has overlapped it
    mixed,      \* history: calls that set the fields have disturbed one another
                \* since the last set-up alone
    named, keyed    \* history: the arguments whose name, and whose key, the
                \* last undisturbed calls left in the fields

static  == <<privateKey, userHash, key, second>>
history == <<alone, mixed, named, keyed>>
vars == <<algo, static, pc, call, local, sameKey, out, parcel, restarts, history>>

\* AES and ZenMatrix keep something made from the key beside it.
Two == {"AES", "ZenMatrix"}
\* DecryptBytes sets the key up again.
Rekeys == {"3FISH", "3DES"}
\* The initial vector is made from the hash as if that were a secret.
IvFromHash == {"2FISH", "3FISH", "Rijndael", "Serpent"}

Nobody == [secret |-> <<>>, hash |-> NoHash]
NoCall == [kind |-> "none", args |-> Nobody]
NoParcel == [args |-> Nobody, text |-> <<>>]

-----------------------------------------------------------------------------
(* Keys from strings. *)

\* Mutant: a short key is not repeated.
GetUserKeyBytes_Once(secret, hash, len) ==
    LET text == secret \o (IF hash \in {NullHash, <<>>} THEN Area23Email ELSE hash)
    IN  SubSeq(text, 1, IF Len(text) < len THEN Len(text) ELSE len)

\* The secret, or else its default, if that is long enough; or else with the
\* hash behind it, again and again up to len.
GetUserKeyBytes(secret, hash, len) ==
    LET secKey == IF secret = <<>> THEN AuthorEmail ELSE secret
        usrHash == IF hash \in {NullHash, <<>>} THEN Area23Email ELSE hash
        text == IF Len(secKey) >= len THEN secKey ELSE secKey \o usrHash
    IN  [i \in 1..len |-> text[((i - 1) % Len(text)) + 1]]

\* The keys of the resources, for callers without a secret.
DefaultKey == [i \in 1..KeyLen |-> i]
\* A new array, before it is filled.
NewArray == IF algo = "ZenMatrix" THEN [i \in Index |-> 0] ELSE <<>>

Folded(s) == [i \in DOMAIN s |-> Lower[s[i]]]

Name(secret) ==
    IF algo = "ZenMatrix" /\ secret = <<>> THEN AuthorEmail ELSE secret

FirstKey(a) == IF a = "ZenMatrix" THEN MatrixBasePerm ELSE DefaultKey
FirstSecond(a) ==
    CASE a = "ZenMatrix" -> BuildReveseMatrix(MatrixBasePerm)
      [] a = "AES" -> DefaultKey
      [] OTHER -> <<>>

Init ==
    /\ algo \in Algos
    /\ privateKey = <<>> /\ userHash = <<>>
    /\ key = FirstKey(algo) /\ second = FirstSecond(algo)
    /\ pc = [c \in Callers |-> "idle"]
    /\ call = [c \in Callers |-> NoCall]
    /\ local = [c \in Callers |-> <<>>]
    /\ sameKey = [c \in Callers |-> TRUE]
    /\ out = [c \in Callers |-> <<>>]
    /\ parcel = NoParcel
    /\ restarts = 0
    /\ alone = [c \in Callers |-> TRUE]
    /\ mixed = FALSE
    /\ named = Nobody /\ keyed = Nobody

-----------------------------------------------------------------------------
(* GenWithKey of a static class. *)

At(c, p) == pc[c] = p
Goto(c, p) == pc' = [pc EXCEPT ![c] = p]
Busy(c) == pc[c] # "idle"

\* What the static fields end as when a call with these arguments sets them;
\* Nobody stands for the static constructor.
KeyFor(args) ==
    IF args = Nobody THEN FirstKey(algo)
    ELSE IF algo = "ZenMatrix"
    THEN Permute(MatrixBasePerm, GetUserKeyBytes(Name(args.secret), args.hash, N))
    ELSE IF args.secret = <<>> THEN DefaultKey
    ELSE GetUserKeyBytes(args.secret, args.hash, KeyLen)

SecondFor(args) ==
    IF args = Nobody THEN FirstSecond(algo)
    ELSE CASE algo = "ZenMatrix" -> BuildReveseMatrix(KeyFor(args))
      [] algo = "AES" -> KeyFor(args)
      [] OTHER -> <<>>

\* Mutant: the name is not compared.
Check_Any(c) ==
    /\ At(c, "check")
    /\ sameKey' = [sameKey EXCEPT ![c] = TRUE]
    /\ Goto(c, IF algo = "AES" THEN "read" ELSE "cipher")
    /\ UNCHANGED <<algo, static, call, local, out, parcel, restarts, history>>

\* init is false: the name is compared without letter case, and nothing set,
\* but for AES, whose assignment to AesAlgo stands behind the condition.
Check(c) ==
    /\ At(c, "check")
    /\ LET same == Folded(privateKey) = Folded(call[c].args.secret)
       IN  /\ sameKey' = [sameKey EXCEPT ![c] = same]
           /\ Goto(c, IF same /\ algo = "AES" THEN "read" ELSE "cipher")
    /\ UNCHANGED <<algo, static, call, local, out, parcel, restarts, history>>

\* privateKey; without a secret the key of the resources is next.
SetName(c) ==
    /\ At(c, "name")
    /\ privateKey' = Name(call[c].args.secret)
    /\ IF privateKey' = <<>>
       THEN local' = [local EXCEPT ![c] = DefaultKey] /\ Goto(c, "blank")
       ELSE UNCHANGED local /\ Goto(c, "hash")
    /\ UNCHANGED <<algo, userHash, key, second, call, sameKey, out, parcel, restarts, history>>

\* Mutant: the hash of the first call stays.
SetHash_Once(c) ==
    /\ At(c, "hash")
    /\ userHash' = IF userHash = <<>> THEN call[c].args.hash ELSE userHash
    /\ Goto(c, IF algo = "ZenMatrix" THEN "blank" ELSE "derive")
    /\ UNCHANGED <<algo, privateKey, key, second, call, local, sameKey, out, parcel, restarts, history>>

\* userHash; AES has no such field and uses its argument.
SetHash(c) ==
    /\ At(c, "hash")
    /\ userHash' = CASE algo = "AES" -> userHash
                     [] algo = "ZenMatrix" /\ call[c].args.hash \in {NullHash, <<>>} -> Area23Email
                     [] OTHER -> call[c].args.hash
    /\ Goto(c, IF algo = "ZenMatrix" THEN "blank" ELSE "derive")
    /\ UNCHANGED <<algo, privateKey, key, second, call, local, sameKey, out, parcel, restarts, history>>

\* The bytes of the key; the hash is read back from the field, and ZenMatrix
\* reads the name back too, having filled its new matrix and reversed it once.
Derive(c) ==
    LET args == call[c].args
        hash == IF algo = "AES" THEN args.hash ELSE userHash
    IN  /\ At(c, "derive")
        /\ ~(algo \in IvFromHash /\ hash = NullHash)
        /\ IF algo = "ZenMatrix"
           THEN /\ local' = [local EXCEPT ![c] = GetUserKeyBytes(privateKey, userHash, N)]
                /\ key' = MatrixBasePerm /\ second' = BuildReveseMatrix(MatrixBasePerm)
                /\ Goto(c, "copy")
           ELSE /\ local' = [local EXCEPT ![c] = GetUserKeyBytes(args.secret, hash, KeyLen)]
                /\ UNCHANGED <<key, second>>
                /\ Goto(c, "blank")
        /\ UNCHANGED <<algo, privateKey, userHash, call, sameKey, out, parcel, restarts, history>>

\* The bytes of the vector are made from null: an exception, after the name
\* was set and before the key is.
DeriveThrows(c) ==
    /\ At(c, "derive")
    /\ algo \in IvFromHash /\ userHash = NullHash
    /\ Goto(c, "failed")
    /\ named' = IF alone[c] /\ ~mixed THEN call[c].args ELSE named
    /\ UNCHANGED <<algo, static, call, local, sameKey, out, parcel, restarts, alone, mixed, keyed>>

Blank(c) ==
    /\ At(c, "blank")
    /\ key' = NewArray
    /\ Goto(c, IF algo = "ZenMatrix" THEN "derive" ELSE "copy")
    /\ UNCHANGED <<algo, privateKey, userHash, second, call, local, sameKey, out, parcel, restarts, history>>

\* The call is over with the fields: if no other was in between, they are its.
SetUpDone(c) ==
    IF alone[c]
    THEN mixed' = FALSE /\ named' = call[c].args /\ keyed' = call[c].args
    ELSE UNCHANGED <<mixed, named, keyed>>

Copy(c) ==
    /\ At(c, "copy")
    /\ key' = IF algo = "ZenMatrix" THEN Permute(key, local[c]) ELSE local[c]
    /\ IF algo \in Two THEN Goto(c, "read") /\ UNCHANGED history
       ELSE Goto(c, "cipher") /\ SetUpDone(c) /\ UNCHANGED alone
    /\ UNCHANGED <<algo, privateKey, userHash, second, call, local, sameKey, out, parcel, restarts>>

\* AesAlgo.Key = AesKey and MatrixReverse = BuildReveseMatrix(MatrixPermKey)
\* read one field ...
ReadKey(c) ==
    /\ At(c, "read")
    /\ local' = [local EXCEPT ![c] = key]
    /\ Goto(c, "second")
    /\ UNCHANGED <<algo, static, call, sameKey, out, parcel, restarts, history>>

\* ... and assign the other, whatever has been set in between.
SetSecond(c) ==
    /\ At(c, "second")
    /\ second' = IF algo = "AES" THEN local[c] ELSE BuildReveseMatrix(local[c])
    /\ Goto(c, "cipher")
    /\ IF call[c].kind = "enc" THEN SetUpDone(c) /\ UNCHANGED alone
       ELSE UNCHANGED history
    /\ UNCHANGED <<algo, privateKey, userHash, key, call, local, sameKey, out, parcel, restarts>>

GenWithKey(c) ==
    \/ Check(c) \/ SetName(c) \/ SetHash(c) \/ Derive(c) \/ DeriveThrows(c)
    \/ Blank(c) \/ Copy(c) \/ ReadKey(c) \/ SetSecond(c)

-----------------------------------------------------------------------------
(* Crypt. *)

\* The calls that set name and key, ...
Renews(kind) == algo # "Camellia" /\ (kind = "enc" \/ (kind = "dec" /\ algo \in Rekeys))
Renewing(c) == Busy(c) /\ Renews(call[c].kind)

\* ... and those that assign any static field: a decryption with AES assigns
\* AesAlgo.Key.
Sets(kind) == Renews(kind) \/ (kind = "dec" /\ algo = "AES")

\* The other call may read or leave what it would not if this one were not there.
Disturbs(kind, other) == Sets(kind) /\ (Renews(kind) \/ Renews(other))

Begin(c, kind, args) ==
    LET meets == \E d \in Callers \ {c} : Busy(d) /\ Disturbs(call[d].kind, kind)
    IN  /\ ~Busy(c)
        /\ kind = "dec" => parcel.text # <<>>
        /\ call' = [call EXCEPT ![c] = [kind |-> kind, args |-> args]]
        /\ Goto(c, CASE algo = "Camellia" -> "construct"
                     [] kind = "dec" /\ algo \notin Rekeys \union {"Camellia"} -> "check"
                     [] OTHER -> "name")
        /\ alone' = [d \in Callers |->
               IF d = c THEN ~meets
               ELSE alone[d] /\ ~(Busy(d) /\ Disturbs(kind, call[d].kind))]
        /\ IF meets /\ Sets(kind)
           THEN mixed' = TRUE /\ named' = Nobody /\ keyed' = Nobody
           ELSE UNCHANGED <<mixed, named, keyed>>
        /\ UNCHANGED <<algo, static, local, sameKey, out, parcel, restarts>>

\* The constructor of CryptBounceCastle: the second GetUserKeyBytes, for the
\* vector, leaves its bytes in the field tmpKey, and the key is copied from
\* there.
ConstructBounceCastle(c) ==
    /\ At(c, "construct")
    /\ local' = [local EXCEPT ![c] = SubSeq(Bounce4, 1, KeyLen)]
    /\ Goto(c, "cipher")
    /\ UNCHANGED <<algo, static, call, sameKey, out, parcel, restarts, history>>

\* The key Encrypt and Decrypt use, but for ZenMatrix.
CipherKey(c) ==
    CASE algo = "Camellia" -> local[c] [] algo = "AES" -> second [] OTHER -> key

\* A key two neighbouring thirds of which are the same is no key for 3DES;
\* a short secret and hash repeated may make one, and a new array is one.
Weak(k) ==
    LET third(n) == SubSeq(k, n * (KeyLen \div 3) + 1, (n + 1) * (KeyLen \div 3))
    IN  k # NewArray => \E n \in 0..1 : third(n) = third(n + 1)

\* What Encrypt and Decrypt do not take; a ciphertext is never empty.
Refused(c) ==
    \/ algo = "3DES" /\ Weak(key)
    \/ algo \in {"AES", "ZenMatrix"} /\ call[c].kind = "enc" /\ Plain = <<>>

CipherThrows(c) ==
    /\ At(c, "cipher") /\ Refused(c)
    /\ Goto(c, "failed")
    /\ UNCHANGED <<algo, static, call, local, sameKey, out, parcel, restarts, history>>

Encrypt(c) ==
    LET text == IF algo = "ZenMatrix" THEN Process(key, Plain) ELSE <<CipherKey(c), Plain>>
    IN  /\ At(c, "cipher") /\ call[c].kind = "enc" /\ ~Refused(c)
        /\ parcel' \in {parcel} \union
               (IF alone[c] THEN {[args |-> call[c].args, text |-> text]} ELSE {})
        /\ Goto(c, "done")
        /\ UNCHANGED <<algo, static, call, local, sameKey, out, restarts, history>>

Decrypt(c) ==
    /\ At(c, "cipher") /\ call[c].kind = "dec" /\ ~Refused(c)
    /\ out' = [out EXCEPT ![c] =
                 IF algo = "ZenMatrix" THEN TrimEnd(Process(second, parcel.text))
                 ELSE IF parcel.text[1] = CipherKey(c) THEN TrimEnd(parcel.text[2])
                 ELSE <<>>]
    /\ Goto(c, "done")
    /\ UNCHANGED <<algo, static, call, local, sameKey, parcel, restarts, history>>

Return(c) ==
    /\ pc[c] \in {"done", "failed"}
    /\ Goto(c, "idle")
    /\ call' = [call EXCEPT ![c] = NoCall]
    /\ local' = [local EXCEPT ![c] = <<>>]
    /\ sameKey' = [sameKey EXCEPT ![c] = TRUE]
    /\ out' = [out EXCEPT ![c] = <<>>]
    /\ alone' = [alone EXCEPT ![c] = TRUE]
    /\ UNCHANGED <<algo, static, parcel, restarts, mixed, named, keyed>>

\* The process is started anew; what was encrypted before is kept outside.
Restart ==
    /\ restarts < MaxRestarts
    /\ restarts' = restarts + 1
    /\ privateKey' = <<>> /\ userHash' = <<>>
    /\ key' = FirstKey(algo) /\ second' = FirstSecond(algo)
    /\ pc' = [c \in Callers |-> "idle"]
    /\ call' = [c \in Callers |-> NoCall]
    /\ local' = [c \in Callers |-> <<>>]
    /\ sameKey' = [c \in Callers |-> TRUE]
    /\ out' = [c \in Callers |-> <<>>]
    /\ alone' = [c \in Callers |-> TRUE]
    /\ mixed' = FALSE
    /\ named' = Nobody /\ keyed' = Nobody
    /\ UNCHANGED <<algo, parcel>>

Next ==
    \/ \E c \in Callers :
          \/ \E kind \in {"enc", "dec"}, args \in Arguments : Begin(c, kind, args)
          \/ GenWithKey(c) \/ ConstructBounceCastle(c)
          \/ CipherThrows(c) \/ Encrypt(c) \/ Decrypt(c) \/ Return(c)
    \/ Restart

Spec == Init /\ [][Next]_vars

-----------------------------------------------------------------------------
(* Properties. *)

Quiet == \A c \in Callers : ~Renewing(c)
Keys == IF algo = "ZenMatrix" THEN Matrices
        ELSE {k \in Seq(Nat) : Len(k) \in {0, KeyLen}}

TypeOK ==
    /\ algo \in Algos
    /\ privateKey \in Seq(Chars)
    /\ userHash \in Seq(Chars) \union {NullHash}
    /\ key \in Keys /\ (algo \in Two => second \in Keys)
    /\ pc \in [Callers -> {"idle", "check", "name", "hash", "derive", "blank", "copy",
                           "read", "second", "construct", "cipher", "done", "failed"}]
    /\ call \in [Callers -> [kind : {"none", "enc", "dec"}, args : Arguments \union {Nobody}]]
    /\ \A c \in Callers :
          /\ pc[c] = "copy" => Len(local[c]) = IF algo = "ZenMatrix" THEN N ELSE KeyLen
          /\ pc[c] = "second" => local[c] \in Keys
    /\ sameKey \in [Callers -> BOOLEAN]
    /\ \A c \in Callers : out[c] \in Seq(ZenBytes)
    /\ restarts \in 0..MaxRestarts
    /\ alone \in [Callers -> BOOLEAN] /\ mixed \in BOOLEAN
    /\ {named, keyed} \subseteq Arguments \union {Nobody}

\* Whenever no set-up is in progress and the last one met no other, the
\* name in the fields is that of the last set-up that was begun and the key
\* that of the last one that came to its end.
StateOfLastCalls ==
    Quiet /\ ~mixed =>
        /\ privateKey = IF named = Nobody THEN privateKey ELSE Name(named.secret)
        /\ key = KeyFor(keyed) /\ second = SecondFor(keyed)

Mine(c) ==
    /\ At(c, "done") /\ call[c].kind = "dec" /\ alone[c]
    /\ parcel.args = call[c].args
Right(c) == out[c] = TrimEnd(Plain)

\* The encryption's key is there for the cipher, whatever the caller's.
KeyInPlace(args) ==
    CASE algo \in Rekeys \union {"Camellia"} -> TRUE
      [] algo = "ZenMatrix" -> ~mixed
      [] OTHER -> ~mixed /\ keyed = args

\* With the arguments of the encryption, and no set-up of another caller
\* overlapping either, a decryption gives the plain bytes back, restarts and
\* other calls between them or not, if it sets the key up again or no key
\* reaches the cipher; with ZenMatrix, where the key moves nothing, unless
\* set-ups that overlapped may have left a reverse of an unfilled matrix; else
\* if the key in the fields is still the encryption's.
DecryptsOwn ==
    \A c \in Callers : Mine(c) /\ KeyInPlace(call[c].args) => Right(c)

\* Where GenWithKey says that the key is the same ("true, if init was with
\* same key successfull") and the decryption is wrong all the same, set-ups
\* have overlapped, the last set-up failed, or the key in the fields is of
\* the same name but for letter case and hash.
TrustedFlag ==
    \A c \in Callers :
        Mine(c) /\ sameKey[c] /\ ~Right(c) =>
            \/ mixed
            \/ named # keyed
            \/ /\ keyed # call[c].args
               /\ Folded(keyed.secret) = Folded(call[c].args.secret)
=============================================================================

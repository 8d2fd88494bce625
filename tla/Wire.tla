--------------------------------- MODULE Wire ---------------------------------
(***************************************************************************)
(* How an /exchange request is read twice: once to find out whose it is    *)
(* (server/signature_recovery.go), once to carry it out (HandleExchange in *)
(* server/handlers.go).  The wallet is recovered from a hash over the      *)
(* msgpack bytes of the typed action, the nonce, the vault and the expiry, *)
(* so a byte that differs from what the client hashed makes it another     *)
(* wallet's request.                                                       *)
(*                                                                         *)
(* Numbers are written in base Digit in hexadecimal strings and in base    *)
(* Byte = Digit * Digit in bytes (16 and 256 in the code).  The hash is    *)
(* taken as injective: it is the bytes hashed.  What a curve does with a   *)
(* signature is external: it yields the signer for what the signer hashed  *)
(* and signed, and another wallet (or an error) for anything else.         *)
(***************************************************************************)
EXTENDS Integers, Sequences, SequencesExt

CONSTANTS
    Digit,      \* the base of hexadecimal strings
    Str8,       \* msgpack code of a string with a one-byte length (0xd9)
    Str16,      \* msgpack code of a string with a two-byte length (0xda)
    Scalar,     \* bytes of an r or s (32)
    AddressLen, \* bytes of an address (20)
    Long,       \* bytes of a nonce or an expiry (8)
    Nil,        \* an absent vault or expiry
    Failed,     \* in place of a result: an error
    Received    \* the requests, each with what its client signed

Byte == Digit * Digit

Fields == {"orders", "cancels", "modifies", "order"}
ActionTypes == {"order", "modify", "batchModify", "cancel", "cancelByCloid"}

ASSUME WireAssumption ==
    /\ Digit \in Nat \ {0, 1}
    /\ Str8 \in 0..(Byte - 1) /\ Str16 \in 0..(Byte - 1) /\ Str8 # Str16
    /\ Scalar \in Nat /\ AddressLen \in Nat \ {0} /\ Long \in Nat
    /\ Failed \notin ActionTypes /\ Nil \notin Nat
    /\ \A q \in Received : q.action.field \in [Fields -> {"absent", "null", "value"}]

VARIABLES
    sent,     \* the request and what its client signed
    pc,
    wallet,   \* "signer", "stranger" or "" (no wallet)
    effect    \* the handler that was called

vars == <<sent, pc, wallet, effect>>

-----------------------------------------------------------------------------
(***************************************************************************)
(* Numbers, hexadecimal strings and bytes, most significant digit first.   *)
(***************************************************************************)
Value(base, digits) ==
    LET value[i \in 0..Len(digits)] ==
            IF i = 0 THEN 0 ELSE value[i-1] * base + digits[i]
    IN  value[Len(digits)]
BigEndian(width, n) ==
    LET rest[i \in 0..width] == IF i = 0 THEN n ELSE rest[i-1] \div Byte
    IN  [i \in 1..width |-> rest[width - i] % Byte]

\* strings.TrimPrefix for "0x", then for "0X": only "0X0x" keeps an "x".
Trimmed(text) == text.prefix \in {"", "0x", "0X", "0x0X"}

\* Mutant: a missing digit is added at the end.
BugPadsRight(text) ==
    LET even == IF Len(text.digits) % 2 = 1 THEN Append(text.digits, 0) ELSE text.digits
    IN  IF ~Trimmed(text) THEN Failed
        ELSE [i \in 1..(Len(even) \div 2) |-> Digit * even[2*i - 1] + even[2*i]]

decodeHex(text) ==
    LET even == IF Len(text.digits) % 2 = 1 THEN <<0>> \o text.digits ELSE text.digits
    IN  IF ~Trimmed(text) THEN Failed
        ELSE [i \in 1..(Len(even) \div 2) |-> Digit * even[2*i - 1] + even[2*i]]

Empty(text) == text.prefix = "" /\ text.digits = << >>

\* decodeSignatureComponent, copied to the end of its half of the signature.
decodeSignatureComponent(text) ==
    LET bytes == decodeHex(text)
    IN  IF Empty(text) \/ bytes = Failed THEN Failed
        ELSE IF Len(bytes) > Scalar THEN Failed
        ELSE [i \in 1..(Scalar - Len(bytes)) |-> 0] \o bytes

decodeExchangeSignature(r, s, v) ==
    LET rBytes == decodeSignatureComponent(r)   sBytes == decodeSignatureComponent(s)
    IN  IF Failed \in {rBytes, sBytes} \/ v \notin {0, 1, 27, 28} THEN Failed
        ELSE rBytes \o sBytes \o <<v % 27>>

addressToBytes(text) ==
    LET bytes == decodeHex(text)
    IN  IF bytes = Failed THEN Failed ELSE IF Len(bytes) # AddressLen THEN Failed ELSE bytes

-----------------------------------------------------------------------------
(***************************************************************************)
(* encodeActionHash.                                                       *)
(***************************************************************************)
\* Mutant: the bytes of a string are searched for headers too.
BugScansPayload(data) ==
    LET n == Len(data)
        from[i \in 1..(n + 1)] ==
            IF i > n THEN << >>
            ELSE IF /\ data[i] = Str16 /\ i + 2 <= n
                    /\ data[i+1] = 0 /\ i + 2 + data[i+2] <= n
                 THEN <<Str8, data[i+2]>> \o from[i + 3]
                 ELSE <<data[i]>> \o from[i + 1]
    IN  from[1]

\* The bytes are not parsed: any 0xda that could begin a short string does.
convertStr16ToStr8(data) ==
    LET n == Len(data)
        from[i \in 1..(n + 1)] ==
            IF i > n THEN << >>
            ELSE IF /\ data[i] = Str16 /\ i + 2 <= n
                    /\ data[i+1] = 0 /\ i + 2 + data[i+2] <= n
                 THEN <<Str8, data[i+2]>> \o SubSeq(data, i + 3, i + 2 + data[i+2])
                        \o from[i + 3 + data[i+2]]
                 ELSE <<data[i]>> \o from[i + 1]
    IN  from[1]

HasVault(q) == q.vault # Nil /\ ~Empty(q.vault)

Preimage(bytes, q) ==
    bytes \o BigEndian(Long, q.nonce)
      \o (IF HasVault(q) THEN <<1>> \o addressToBytes(q.vault) ELSE <<0>>)
      \o (IF q.expires = Nil THEN << >> ELSE <<0>> \o BigEndian(Long, q.expires))

encodeActionHash(data, q) ==
    IF \/ q.nonce < 0
       \/ HasVault(q) /\ addressToBytes(q.vault) = Failed
       \/ q.expires # Nil /\ q.expires < 0
    THEN Failed ELSE Preimage(convertStr16ToStr8(data), q)

-----------------------------------------------------------------------------
(***************************************************************************)
(* What kind of action it is, found out twice.  An action is its "type"    *)
(* (key: the field's name as written, "none" if absent; value: a string,   *)
(* "bad" for anything else) and the Fields that betray it when it has      *)
(* none, each of them "absent", "null" or "value"; entry: what the first   *)
(* element of "cancels" is.                                                *)
(***************************************************************************)
\* encoding/json matches field names without regard to case; a null is nil.
normalizeActionPayload(a) ==
    LET probe == IF a.key = "none" THEN "" ELSE a.value
        present(f) == a.field[f] = "value"
        shape == CASE present("orders") -> "order"
                   [] ~present("orders") /\ present("cancels") ->
                        CASE a.entry = "cloid" -> "cancelByCloid"
                          [] a.entry = "oid" -> "cancel"
                          [] OTHER -> ""
                   [] ~present("orders") /\ ~present("cancels") /\ present("modifies") ->
                        "batchModify"
                   [] \A f \in Fields \ {"order"} : ~present(f) ->
                        IF present("order") THEN "modify" ELSE ""
        kind == IF probe = "" THEN shape ELSE probe
    IN  IF kind \in ActionTypes THEN kind ELSE Failed

\* Mutant: fields are looked for in another order.
BugCancelsFirst(a) ==
    IF a.key = "type" /\ a.value # "bad"
    THEN CASE a.value \in {"cancel", "cancelByCloid"} -> "cancel"
           [] a.value \in {"order", "modify", "batchModify"} -> a.value
           [] OTHER -> "default"
    ELSE CASE a.field["cancels"] # "absent" -> "cancel"
           [] a.field["cancels"] = "absent" /\ a.field["orders"] # "absent" -> "order"
           [] OTHER -> IF a.field["modifies"] # "absent" THEN "batchModify" ELSE "default"

\* HandleExchange: the exact key, and a null field is there.
dispatch(a) ==
    IF a.key = "type" /\ a.value # "bad"
    THEN CASE a.value \in {"cancel", "cancelByCloid"} -> "cancel"
           [] a.value \in {"order", "modify", "batchModify"} -> a.value
           [] OTHER -> "default"
    ELSE CASE a.field["orders"] # "absent" -> "order"
           [] a.field["orders"] = "absent" /\ a.field["cancels"] # "absent" -> "cancel"
           [] OTHER -> IF a.field["modifies"] # "absent" THEN "batchModify" ELSE "default"

-----------------------------------------------------------------------------
(***************************************************************************)
(* A request in HandleExchange.                                            *)
(***************************************************************************)
\* msgpack: an action is a sequence of integers (bytes as they are) and
\* strings (in one of two forms).
Encoded(t) ==
    CASE t.form = "int" -> t.bytes
      [] t.form = "str8" -> <<Str8, Len(t.bytes)>> \o t.bytes
      [] t.form = "str16" -> <<Str16, Len(t.bytes) \div Byte, Len(t.bytes) % Byte>> \o t.bytes
Encode(tokens) == FlattenSeq([i \in 1..Len(tokens) |-> Encoded(tokens[i])])

\* A short string in the long form, with its header, is what the conversion is
\* for: this is the conversion of a parser, and what the client hashes.
Shortened(t) ==
    IF t.form = "str16" /\ Len(t.bytes) < Byte THEN [t EXCEPT !.form = "str8"] ELSE t
ShortForm(tokens) == Encode([i \in 1..Len(tokens) |-> Shortened(tokens[i])])
Number(text) == Value(Digit, text.digits)

\* SigToPub (external): q.signed is the request as its client signed it.
Recover(hash, signature, q) ==
    IF /\ hash = Preimage(ShortForm(q.signed.tokens), q.signed)
       /\ signature = BigEndian(Scalar, Number(q.signed.r))
                        \o BigEndian(Scalar, Number(q.signed.s)) \o <<q.signed.v>>
    THEN "signer" ELSE "stranger"

recoverWalletFromSignature(q) ==
    LET hash == encodeActionHash(Encode(q.tokens), q)
        signature == decodeExchangeSignature(q.r, q.s, q.v)
    IN  IF Failed \in {normalizeActionPayload(q.action), hash, signature}
        THEN "" ELSE Recover(hash, signature, q)

-----------------------------------------------------------------------------
(***************************************************************************)
(* What can be received, and what can have been signed.  The types of the  *)
(* fields bound nonce and expiry (int64: eight bytes), msgpack the lengths *)
(* of strings.  A client signs a nonce and an expiry that are not          *)
(* negative, a vault that is an address, and its r and s are below the     *)
(* order of the curve.  A msgpack value says where it ends: the bytes of   *)
(* no action begin with all those of another.                              *)
(***************************************************************************)
Fits(width, n) == n >= 0 /\ Value(Byte, BigEndian(width, n)) = n

MsgPack ==
    {t \in [form : {"int", "str8", "str16"}, bytes : Seq(0..(Byte - 1))] :
        /\ t.form = "str8" => Len(t.bytes) < Byte
        /\ t.form = "str16" => Len(t.bytes) < Byte * Byte}
IsText(text) == text.digits \in Seq(0..(Digit - 1))

Requested(q) ==
    /\ q.tokens \in Seq(MsgPack)
    /\ q.nonce \in Int /\ (q.nonce < 0 \/ Fits(Long, q.nonce))
    /\ q.expires = Nil \/ (q.expires \in Int /\ (q.expires < 0 \/ Fits(Long, q.expires)))
    /\ q.vault = Nil \/ IsText(q.vault)
    /\ IsText(q.r) /\ IsText(q.s) /\ q.v \in Int

Signed(q) ==
    /\ q.nonce >= 0 /\ (q.expires = Nil \/ q.expires >= 0)
    /\ HasVault(q) => addressToBytes(q.vault) # Failed
    /\ Fits(Scalar, Number(q.r)) /\ Fits(Scalar, Number(q.s)) /\ q.v \in {0, 1}

SelfDelimiting(a, b) == IsPrefix(a, b) \/ IsPrefix(b, a) => a = b

ASSUME ReceivedAssumption ==
    \A q \in Received :
        /\ Requested(q) /\ Requested(q.signed) /\ Signed(q.signed)
        /\ SelfDelimiting(ShortForm(q.tokens), ShortForm(q.signed.tokens))

-----------------------------------------------------------------------------
Init == sent \in Received /\ pc = "received" /\ wallet = "" /\ effect = ""

RecoverWallet ==
    /\ pc = "received"
    /\ wallet' = recoverWalletFromSignature(sent)
    /\ pc' = "recovered"
    /\ UNCHANGED <<sent, effect>>

Dispatch ==
    /\ pc = "recovered"
    /\ effect' = dispatch(sent.action)
    /\ pc' = "done"
    /\ UNCHANGED <<sent, wallet>>

Next == RecoverWallet \/ Dispatch
Spec == Init /\ [][Next]_vars

-----------------------------------------------------------------------------
\* A byte that is no header of a short string and looks like one, at place i.
Start(tokens, k) == Len(Encode(SubSeq(tokens, 1, k - 1))) + 1
LooksLikeHeader(data, i) ==
    /\ data[i] = Str16 /\ i + 2 <= Len(data)
    /\ data[i+1] = 0 /\ i + 2 + data[i+2] <= Len(data)
Disguised(tokens) ==
    \E k \in 1..Len(tokens) :
        LET first == Start(tokens, k)   last == Start(tokens, k + 1) - 1
        IN  /\ tokens[k] = Shortened(tokens[k])
            /\ \E i \in first..last : LooksLikeHeader(Encode(tokens), i)

\* The conversion changes the headers of short strings and nothing else, in
\* every action in which no integer and no other string looks like a header
\* (convertStr16ToStr8, which does not parse).
ConversionExact ==
    ~Disguised(sent.tokens) =>
        convertStr16ToStr8(Encode(sent.tokens)) = ShortForm(sent.tokens)

\* A request is attributed to the wallet that signed it exactly when it says
\* what was signed, however its numbers are spelt: prefixes, missing leading
\* zeros, an empty or an absent vault, v with or without 27
\* (recoverWalletFromSignature).
Meaning(q) ==
    [bytes |-> ShortForm(q.tokens), nonce |-> q.nonce, expires |-> q.expires,
     vault |-> IF HasVault(q) THEN Number(q.vault) ELSE Nil,
     r |-> Number(q.r), s |-> Number(q.s), v |-> q.v % 27]
RecoversSigner ==
    (wallet # "" /\ ~Disguised(sent.tokens)) =>
        (wallet = "signer" <=> Meaning(sent) = Meaning(sent.signed))

\* The request that is carried out is the one whose signature was checked:
\* the two readings of the action's kind agree whenever a wallet was recovered
\* and a handler called, but for a null field and a miscased "type".
KindOf(a) == IF normalizeActionPayload(a) = "cancelByCloid" THEN "cancel"
             ELSE normalizeActionPayload(a)
Plain(a) == a.key \in {"type", "none"} /\ \A f \in Fields : a.field[f] # "null"
SignedIsExecuted ==
    (pc = "done" /\ wallet # "" /\ effect # "default" /\ Plain(sent.action)) =>
        effect = KindOf(sent.action)
=============================================================================

-------------------------------- MODULE MCWire --------------------------------
(***************************************************************************)
(* The requests Wire is checked on: bytes are 0..3 and hexadecimal digits  *)
(* 0..1.  One part of the request varies at a time, through everything     *)
(* that fits the bound, beside what its client may have signed.            *)
(***************************************************************************)
EXTENDS Wire

Text(prefix, digits) == [prefix |-> prefix, digits |-> digits]
Texts(prefixes, n) == {Text(p, d) : p \in prefixes, d \in BoundedSeq({0, 1}, n)}
Marks == {"", "0x", "0X", "0x0X", "0X0x"}
Vaults == {Text(p, d) : p \in {"", "0X", "0X0x"},
                        d \in {<< >>, <<1>>, <<1, 0>>, <<1, 1, 0>>}}
NoFields == [f \in Fields |-> "absent"]

Plainly == [tokens |-> << >>, nonce |-> 1, vault |-> Nil, expires |-> Nil,
            r |-> Text("0x", <<1>>), s |-> Text("0x", <<1, 1>>), v |-> 0,
            action |-> Nil, signed |-> Nil]
Order == [key |-> "type", value |-> "order", field |-> NoFields, entry |-> "none"]
Request(q, a, signed) == [q EXCEPT !.action = a, !.signed = signed]

\* Integers of one and of three bytes, strings of up to three bytes in both
\* forms, and a string too long for the short one.
Token(form, bytes) == [form |-> form, bytes |-> bytes]
Tokens ==
    {Token("int", <<0>>)} \cup {Token("int", <<1, a, b>>) : a, b \in {0, 1, Str16}}
    \cup {Token(form, p) : form \in {"str8", "str16"}, p \in BoundedSeq({0, Str16}, 3)}
    \cup {Token("str16", <<a, b, 1, 0>>) : a, b \in {0, Str16}}
Actions3 == BoundedSeq(Tokens, 2)
              \cup {<<t, u, Token("int", <<0>>)>> : t, u \in Tokens}
Converted == {LET q == [Plainly EXCEPT !.tokens = ts] IN Request(q, Order, q) : ts \in Actions3}

Signatures ==
    {Request([Plainly EXCEPT !.r = r, !.v = v], Order, [Plainly EXCEPT !.r = by, !.v = w]) :
        r \in Texts(Marks, 3) \cup Texts({"0x"}, 5), v \in {0, 1, 2, 27, 28},
        by \in {Text("0x", <<1>>), Text("0x", <<1, 0, 1, 0>>)}, w \in {0, 1}}

Headers(actions, nonces, vaults, expiries) ==
    {[Plainly EXCEPT !.tokens = ts, !.nonce = n, !.vault = v, !.expires = e] :
        ts \in actions, n \in nonces, v \in vaults, e \in expiries}
Layouts ==
    {Request(q, Order, signed) :
        q \in Headers({<<Token("int", <<0>>)>>, <<Token("str16", << >>)>>}, {-1, 0, 5},
                      Vaults \cup {Nil}, {Nil, -1, 0, 5}),
        signed \in Headers({<<Token("str8", << >>)>>}, {0, 5},
                           {Nil, Text("0x", <<0, 1>>), Text("0x", <<1, 0>>)}, {Nil, 0, 5})}

Kinds ==
    {Request(Plainly, [key |-> kv[1], value |-> kv[2], field |-> f, entry |-> e], Plainly) :
        kv \in ({"type", "Type"} \X (ActionTypes \cup {"", "bad", "usdSend"})) \cup {<<"none", "">>},
        f \in [Fields -> {"absent", "null", "value"}], e \in {"none"}}
    \cup
    {Request(Plainly, [key |-> "none", value |-> "", field |-> f, entry |-> e], Plainly) :
        f \in [Fields -> {"absent", "null", "value"}], e \in {"oid", "cloid"}}

MCReceived == Converted \cup Signatures \cup Layouts \cup Kinds
=============================================================================

----------------------------- MODULE Transport -----------------------------
(***************************************************************************)
(* The life of one message: a node builds it and sends its encoding, the   *)
(* encoding may reach the receiver altered in one byte, and the receiver   *)
(* decodes it and keeps, or passes on, the encoding of what it decoded.    *)
(* Blocks are built by NewBlock, which splits them with RawBlock first.    *)
(***************************************************************************)
EXTENDS Messages

CONSTANTS Names,         \* the structs that are sent
          Altered,       \* those among them that may arrive altered
          AlteredBytes   \* what one byte may become

VARIABLES name, msg, wire, stage

vars == <<name, msg, wire, stage>>

-----------------------------------------------------------------------------
(* A few values for every kind of field, the boundary ones included.       *)

Two(x, y) == {<<>>, <<x>>, <<x, y>>}

RECURSIVE Full(_)
FullValue(f) ==
    CASE f.kind = "UInt" -> 2 ^ WordBits - 1
      [] f.kind = "UInt32" -> 2 ^ HalfBits - 1
      [] f.kind = "Int32" -> -(2 ^ (HalfBits - 1))
      [] f.kind = "Bool" -> TRUE
      [] f.kind = "Bytes" -> <<8, 200>>
      [] f.kind = "String" -> <<97>>
      [] f.kind = "UInts" -> <<1, 300>>
      [] f.kind = "BytesArray" -> <<<<8>>, <<>>>>
      [] f.kind = "Decodable" -> <<Full(f.of)>>
      [] f.kind = "Decodables" -> <<<<Full(f.of)>>, <<Full(f.of)>>>>
Full(schema) == [k \in 1 .. Len(schema) |-> FullValue(schema[k])]

Values(f) ==
    CASE f.kind = "UInt" -> {0, 127, 128, 2 ^ WordBits - 1}
      [] f.kind = "UInt32" -> {0, 127, 128, 2 ^ HalfBits - 1}
      [] f.kind = "Int32" -> {0, 1, -1, 2 ^ (HalfBits - 1) - 1, -(2 ^ (HalfBits - 1))}
      [] f.kind = "Bool" -> BOOLEAN
      [] f.kind = "Bytes" -> {<<>>, <<0>>, <<8, 200>>}
      [] f.kind = "String" -> {<<>>, <<97>>, <<113, 204, 129>>, Decomposed}
      [] f.kind = "UInts" -> Two(1, 300)
      [] f.kind = "BytesArray" -> Two(<<>>, <<8, 200>>)
      [] f.kind = "Decodable" -> Two(Full(f.of), Full(f.of)) \ {<<Full(f.of), Full(f.of)>>}
      [] f.kind = "Decodables" -> Two(<<Full(f.of)>>, <<>>)

(* All of the fields but one are the boundary value.                       *)
Samples(schema) ==
    UNION {{[Full(schema) EXCEPT ![k] = v] : v \in Values(schema[k])} : k \in 1 .. Len(schema)}

-----------------------------------------------------------------------------
(* NewBlockHeader and NewTransaction derive the ID from the encoding of    *)
(* what was decoded, so the encoding stands for the ID.                    *)

NewTransaction(data) == DecodeStrict(Transaction, data)
NewBlockHeader(data) == Decode(BlockHeader, data)
NewBlockAsset(data) == DecodeStrict(BlockAsset, data)

AllOk(list) == \A i \in DOMAIN list : list[i].ok
\* Mutant: the last element is left out.
PointersButLast(list) == [i \in 1 .. Len(list) - 1 |-> <<list[i].val>>]

Pointers(list) == [i \in 1 .. Len(list) |-> <<list[i].val>>]

NewBlock(data) ==
    LET Assembled(header, txs, assets) ==
            IF ~header.ok THEN header
            ELSE IF ~(AllOk(assets) /\ AllOk(txs)) THEN Failed
            ELSE Read(<<<<header.val>>, Pointers(txs), Pointers(assets)>>, Len(data))
    IN  Then(DecodeStrict(RawBlock, data),
             LAMBDA raw, i:
                 Assembled(NewBlockHeader(raw[1]),
                           [k \in 1 .. Len(raw[2]) |-> NewTransaction(raw[2][k])],
                           [k \in 1 .. Len(raw[3]) |-> NewBlockAsset(raw[3][k])]))

Received(n, data) ==
    CASE n = "Block" -> NewBlock(data)
      [] n = "Transaction" -> NewTransaction(data)
      [] OTHER -> Decode(Schemas[n], data)

-----------------------------------------------------------------------------
Init ==
    /\ name \in Names
    /\ msg \in Samples(Schemas[name])
    /\ wire = <<>>
    /\ stage = "built"

Send ==
    /\ stage = "built"
    /\ wire' = Encode(Schemas[name], msg)
    /\ stage' = "sent"
    /\ UNCHANGED <<name, msg>>

(* One byte is lost, added or changed on the way.                          *)
Alter ==
    /\ stage = "sent" /\ name \in Altered
    /\ \E k \in 1 .. Len(wire), b \in AlteredBytes :
          wire' \in {RemoveAt(wire, k), InsertAt(wire, k, b), ReplaceAt(wire, k, b)}
    /\ stage' = "altered"
    /\ UNCHANGED <<name, msg>>

Receive ==
    /\ stage \in {"sent", "altered"}
    /\ LET Keep(res) ==
              IF res.ok THEN /\ msg' = res.val
                             /\ wire' = Encode(Schemas[name], res.val)
                             /\ stage' = "kept"
              ELSE /\ stage' = IF res.panic THEN "panicked" ELSE "rejected"
                   /\ UNCHANGED <<msg, wire>>
       IN  Keep(Received(name, wire))
    /\ UNCHANGED name

Next == Send \/ Alter \/ Receive

Spec == Init /\ [][Next]_vars

-----------------------------------------------------------------------------
(* What decoding makes of a message: strings are normalised, a nil struct  *)
(* becomes a new one, a nil element of an array is dropped.                *)
RECURSIVE Normal(_, _)
Normal(schema, m) ==
    [k \in 1 .. Len(schema) |->
        LET f == schema[k]
            Inner(p) == <<Normal(f.of, p[1])>>
        IN  CASE f.kind = "String" -> NFC(m[k])
              [] f.kind = "Decodable" -> IF m[k] = <<>> THEN ReadAbsent(f) ELSE Inner(m[k])
              [] f.kind = "Decodables" ->
                   LET some == SelectSeq(m[k], LAMBDA p: p # <<>>)
                   IN  [i \in 1 .. Len(some) |-> Inner(some[i])]
              [] OTHER -> m[k]]

HasNil(schema, m) == \E k \in 1 .. Len(schema) : schema[k].kind = "Decodable" /\ m[k] = <<>>

Gives(res, m) == res.ok /\ res.val = m

(* Encode makes bytes, and Decode gives back what Encode was given, up to  *)
(* Normal, for every struct with a generated codec; DecodeStrict does too, *)
(* unless a struct is nil, which it reports.                               *)
RoundTrip ==
    stage = "sent" =>
        LET s == Schemas[name]
        IN  /\ wire \in Seq(0 .. 255)
            /\ Gives(Decode(s, wire), Normal(s, msg))
            /\ IF HasNil(s, msg) THEN ~DecodeStrict(s, wire).ok
               ELSE Gives(DecodeStrict(s, wire), Normal(s, msg))

(* Structs on which nothing is narrowed, packed or nested.                 *)
Plain(schema) ==
    \A k \in 1 .. Len(schema) : schema[k].kind \in {"UInt", "Bool", "Bytes", "String", "BytesArray"}

(* DecodeStrict accepts one encoding of such a struct only, so the bytes a *)
(* transaction arrived in are the bytes its ID is the hash of.             *)
StrictIsCanonical ==
    stage = "altered" /\ Plain(Schemas[name]) =>
        LET Canonical(res) == res.ok => Encode(Schemas[name], res.val) = wire
        IN  Canonical(DecodeStrict(Schemas[name], wire))

(* What a node kept encodes to the same bytes after it is read back: the   *)
(* ID of a stored or relayed block or transaction does not change again,   *)
(* however its first encoding was altered.                                 *)
Reread(n, data) ==
    CASE n = "Block" -> NewBlock(data)
      [] OTHER -> Decode(Schemas[n], data)

Shallow(schema) ==
    \A k \in 1 .. Len(schema) :
        schema[k].kind \in {"Decodable", "Decodables"} =>
            \A j \in 1 .. Len(schema[k].of) : schema[k].of[j].kind # "Decodable"

KeptIsStable ==
    stage = "kept" /\ (Shallow(Schemas[name]) \/ name = "Block") =>
        Gives(Reread(name, wire), msg)

=============================================================================

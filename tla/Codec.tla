------------------------------- MODULE Codec -------------------------------
(***************************************************************************)
(* The binary codec of pkg/codec: Writer, Reader, and the shape that every *)
(* generated Encode / Decode / DecodeStrict method has.  A schema is the   *)
(* sequence of the fields of a struct in the order the generated methods   *)
(* visit them; a message is the sequence of the values of those fields; a  *)
(* wire is a sequence of bytes.                                            *)
(*                                                                         *)
(* A field that is a pointer to a struct holds <<>> when it is nil and     *)
(* <<m>> when it points to m; an array of pointers is a sequence of those. *)
(*                                                                         *)
(* The machine words keep their shape and not their size: WordBits stands  *)
(* for 64 and HalfBits for 32.                                             *)
(***************************************************************************)
EXTENDS Integers, Sequences, SequencesExt, FiniteSetsExt

CONSTANTS WordBits, HalfBits

(* The last byte of the longest varint carries what is left of the word,   *)
(* as the tenth byte carries one bit of a uint64.                          *)
ASSUME WidthsAssumption ==
    /\ WordBits \in Nat /\ HalfBits \in Nat
    /\ 7 < HalfBits /\ HalfBits < WordBits /\ WordBits % 7 = 1

MaxVarintLen == (WordBits + 6) \div 7

(* Reading gives a value, an error, or a panic of the Go runtime.          *)
Failed == [ok |-> FALSE, panic |-> FALSE]
Panicked == [ok |-> FALSE, panic |-> TRUE]
Read(val, index) == [ok |-> TRUE, val |-> val, index |-> index]

(* The "if err != nil { return err }" between two reads.                   *)
Then(res, Op(_, _)) == IF res.ok THEN Op(res.val, res.index) ELSE res

-----------------------------------------------------------------------------
(* Fields.                                                                 *)

Field(n, kind, of) == [n |-> n, kind |-> kind, of |-> of]
UInt(n) == Field(n, "UInt", <<>>)
UInt32(n) == Field(n, "UInt32", <<>>)
Int32(n) == Field(n, "Int32", <<>>)
Bool(n) == Field(n, "Bool", <<>>)
Bytes(n) == Field(n, "Bytes", <<>>)
String(n) == Field(n, "String", <<>>)
UInts(n) == Field(n, "UInts", <<>>)
BytesArray(n) == Field(n, "BytesArray", <<>>)
Decodable(n, schema) == Field(n, "Decodable", schema)
Decodables(n, schema) == Field(n, "Decodables", schema)

wireType0 == 0
wireType2 == 2

WireType(f) == IF f.kind \in {"UInt", "UInt32", "Int32", "Bool"} THEN wireType0 ELSE wireType2

(* The value a field has in a new struct.                                  *)
ZeroValue(f) ==
    CASE f.kind \in {"UInt", "UInt32", "Int32"} -> 0
      [] f.kind = "Bool" -> FALSE
      [] OTHER -> <<>>

Zero(schema) == [k \in 1 .. Len(schema) |-> ZeroValue(schema[k])]

-----------------------------------------------------------------------------
(* Writer.                                                                 *)

RECURSIVE PutUvarint(_)
PutUvarint(x) == IF x < 128 THEN <<x>> ELSE <<128 + (x % 128)>> \o PutUvarint(x \div 128)

PutVarint(x) == PutUvarint(IF x < 0 THEN -2 * x - 1 ELSE 2 * x)

getKey(wireType, fieldNumber) == PutUvarint(fieldNumber * 8 + wireType)

writeBytes(data) == PutUvarint(Len(data)) \o data

(* NFC on the strings of the model: "e" followed by a combining acute      *)
(* accent becomes the single letter.                                       *)
Decomposed == <<101, 204, 129>>
Composed == <<195, 169>>
NFC(s) == ReplaceAllSubSeqs(Composed, Decomposed, s)

RECURSIVE Encode(_, _)
RECURSIVE WriteField(_, _)

WriteField(f, v) ==
    LET Keyed(bytes) == getKey(WireType(f), f.n) \o bytes
        WriteEncodable(p) == IF p = <<>> THEN <<>> ELSE Keyed(writeBytes(Encode(f.of, p[1])))
    IN  CASE f.kind \in {"UInt", "UInt32"} -> Keyed(PutUvarint(v))
          [] f.kind = "Int32" -> Keyed(PutVarint(v))
          [] f.kind = "Bool" -> Keyed(IF v THEN <<1>> ELSE <<0>>)
          [] f.kind = "Bytes" -> Keyed(writeBytes(v))
          [] f.kind = "String" -> Keyed(writeBytes(NFC(v)))
          [] f.kind = "UInts" ->
               IF v = <<>> THEN <<>>
               ELSE Keyed(writeBytes(FlattenSeq([i \in 1 .. Len(v) |-> PutUvarint(v[i])])))
          [] f.kind = "BytesArray" -> FlattenSeq([i \in 1 .. Len(v) |-> Keyed(writeBytes(v[i]))])
          [] f.kind = "Decodable" -> WriteEncodable(v)
          [] f.kind = "Decodables" -> FlattenSeq([i \in 1 .. Len(v) |-> WriteEncodable(v[i])])

Encode(schema, m) == FlattenSeq([k \in 1 .. Len(schema) |-> WriteField(schema[k], m[k])])

-----------------------------------------------------------------------------
(* Reader.  An index counts the bytes that are read; end is where the      *)
(* reader of a nested message stops looking for fields.                    *)

\* Mutant: a power of 128 counts as shorter than it is.
varintShortestSizeInclusive(x) == Min({n \in 1 .. MaxVarintLen : x <= 2 ^ (7 * n) \/ n = MaxVarintLen})

varintShortestSize(x) == Min({n \in 1 .. MaxVarintLen : x < 2 ^ (7 * n) \/ n = MaxVarintLen})

(* How long a varint may be that ends within the data.                     *)
Ends(data, index) == {n \in 1 .. MaxVarintLen : index + n <= Len(data) /\ data[index + n] < 128}

Value(data, index, size) ==
    FoldFunction(LAMBDA x, y: x + y, 0,
                 [k \in 1 .. size |-> (data[index + k] % 128) * 2 ^ (7 * (k - 1))])

TooLarge(data, index, size) == size = MaxVarintLen /\ data[index + size] > 1

\* Mutant: longer encodings than needed are accepted.
UintOfAnySize(data, index, size) ==
    IF TooLarge(data, index, size) THEN Failed ELSE Read(Value(data, index, size), index + size)

UintOfSize(data, index, size) ==
    IF TooLarge(data, index, size) \/ varintShortestSize(Value(data, index, size)) # size THEN Failed
    ELSE Read(Value(data, index, size), index + size)

readUint(data, index) ==
    IF Ends(data, index) = {} THEN Failed ELSE UintOfSize(data, index, Min(Ends(data, index)))

Signed(x) == IF x % 2 = 0 THEN x \div 2 ELSE -(((x + 1) % 2 ^ WordBits) \div 2)

readInt(data, index) == Then(readUint(data, index), LAMBDA x, i: Read(Signed(x), i))

(* The size is held against the whole data, not against the reader's end.  *)
readBytes(data, index) ==
    Then(readUint(data, index),
         LAMBDA size, i: IF size > Len(data) - i THEN Failed
                         ELSE Read(SubSeq(data, i + 1, i + size), i + size))

(* Valid on the bytes of the model: ASCII, the composed letter and the     *)
(* combining accent.                                                       *)
RECURSIVE ValidUTF8(_)
ValidUTF8(s) ==
    \/ s = <<>>
    \/ s[1] < 128 /\ ValidUTF8(Tail(s))
    \/ Len(s) > 1 /\ SubSeq(s, 1, 2) \in {Composed, <<204, 129>>} /\ ValidUTF8(SubSeq(s, 3, Len(s)))

readString(data, index) ==
    Then(readBytes(data, index),
         LAMBDA s, i: IF ValidUTF8(s) /\ NFC(s) = s THEN Read(s, i) ELSE Failed)

(* Past the last byte the index is out of range, which no error reports.   *)
readBool(data, index) ==
    IF index >= Len(data) THEN Panicked
    ELSE IF data[index + 1] \in {0, 1} THEN Read(data[index + 1] = 1, index + 1)
    ELSE Failed

(* "absent" covers both errors that strictError lets pass.                 *)
check(f, data, index, end) ==
    LET Found(key) ==
            IF ~key.ok \/ key.val % 8 \notin {wireType0, wireType2} THEN [found |-> "invalid"]
            ELSE IF key.val \div 8 # f.n THEN [found |-> "absent"]
            ELSE IF key.val % 8 # WireType(f) THEN [found |-> "invalid"]
            ELSE [found |-> "yes", index |-> key.index]
    IN  IF index >= end THEN [found |-> "absent"] ELSE Found(readUint(data, index))

Half(x) == x % 2 ^ HalfBits
SignedHalf(x) == LET h == Half(x) IN IF h < 2 ^ (HalfBits - 1) THEN h ELSE h - 2 ^ HalfBits

(* Where size bytes from index end, in an int: it is negative for a size   *)
(* in the upper half of the words, and then nothing is read.               *)
EndOf(index, size) ==
    LET w == (index + size) % 2 ^ WordBits
    IN  IF w < 2 ^ (WordBits - 1) THEN w ELSE w - 2 ^ WordBits

RECURSIVE ReadPacked(_, _, _, _)
ReadPacked(data, index, end, vals) ==
    IF index >= end THEN Read(vals, index)
    ELSE Then(readUint(data, index), LAMBDA x, i: ReadPacked(data, i, end, Append(vals, x)))

RECURSIVE DecodeFields(_, _, _, _, _)
RECURSIVE ReadRepeated(_, _, _, _, _)

(* A nested message is read leniently whatever the mode of the outer one,  *)
(* and the outer reader goes on from where the nested one stopped.         *)
ReadNested(f, data, index) ==
    Then(readUint(data, index),
         LAMBDA size, i: Then(DecodeFields(f.of, data, i, EndOf(i, size), FALSE), LAMBDA m, j: Read(<<m>>, j)))

ReadValue(f, data, index) ==
    CASE f.kind = "UInt" -> readUint(data, index)
      [] f.kind = "UInt32" -> Then(readUint(data, index), LAMBDA x, i: Read(Half(x), i))
      [] f.kind = "Int32" -> Then(readInt(data, index), LAMBDA x, i: Read(SignedHalf(x), i))
      [] f.kind = "Bool" -> readBool(data, index)
      [] f.kind \in {"Bytes", "BytesArray"} -> readBytes(data, index)
      [] f.kind = "String" -> readString(data, index)
      [] f.kind = "UInts" ->
           Then(readUint(data, index), LAMBDA size, i: ReadPacked(data, i, EndOf(i, size), <<>>))
      [] f.kind \in {"Decodable", "Decodables"} -> ReadNested(f, data, index)

ReadRepeated(f, data, index, end, vals) ==
    LET Element(key) ==
            CASE key.found = "absent" -> Read(vals, index)
              [] key.found = "invalid" -> Failed
              [] key.found = "yes" ->
                   Then(ReadValue(f, data, key.index),
                        LAMBDA v, i: ReadRepeated(f, data, i, end, Append(vals, v)))
    IN  Element(check(f, data, index, end))

(* A struct that is absent becomes a new one, not nil.                     *)
ReadAbsent(f) == IF f.kind = "Decodable" THEN <<Zero(f.of)>> ELSE ZeroValue(f)

ReadField(f, data, index, end, strict) ==
    LET Single(key) ==
            CASE key.found = "yes" -> ReadValue(f, data, key.index)
              [] key.found = "invalid" -> Failed
              [] key.found = "absent" ->
                   IF strict /\ f.kind # "UInts" THEN Failed ELSE Read(ReadAbsent(f), index)
    IN  IF f.kind \in {"BytesArray", "Decodables"} THEN ReadRepeated(f, data, index, end, <<>>)
        ELSE Single(check(f, data, index, end))

DecodeFields(schema, data, index, end, strict) ==
    FoldLeft(LAMBDA acc, f:
                 Then(acc, LAMBDA vals, i:
                     Then(ReadField(f, data, i, end, strict), LAMBDA v, j: Read(Append(vals, v), j))),
             Read(<<>>, index), schema)

Decode(schema, data) == DecodeFields(schema, data, 0, Len(data), FALSE)

HasUnreadBytes(index, data) == index # Len(data)

DecodeStrict(schema, data) ==
    Then(DecodeFields(schema, data, 0, Len(data), TRUE),
         LAMBDA m, i: IF HasUnreadBytes(i, data) THEN Failed ELSE Read(m, i))

=============================================================================

------------------------------- MODULE Codec --------------------------------
(***************************************************************************)
(* The protobuf codec (_protobuf.py): messages of the protocol as bytes,   *)
(* and JSON values as google.protobuf.Value.  A peer sends a message in    *)
(* one or several pieces that are put behind one another, with fields in   *)
(* between that only a newer protocol knows.                               *)
(*                                                                         *)
(* A byte has Digit values beside its continuation bit (2^7 in the code),  *)
(* and Modulus is the 2^64 that negative numbers are reduced by.  Numbers  *)
(* of a fixed width are Wide or Narrow bytes, and a text is a sequence of  *)
(* bytes.  A field that is absent from the data, or None, is one that is   *)
(* not in its domain.  What no encoder writes (a varint that does not end, *)
(* a wire type that does not exist or is not that of the field, a packed   *)
(* list) is left out: reading it raises.                                   *)
(***************************************************************************)
EXTENDS Integers, Sequences, SequencesExt, TLC

CONSTANTS Digit, Modulus,
          Wide, Narrow,
          Schema,       \* the fields of each message type, in the order of the descriptor
          NumberValue, StringValue, FieldsName,    \* names an object may have
          Enum,         \* the values of each enum in order: their number and spellings
          Top,          \* the type of the messages that are sent
          Sent,         \* the messages a peer sends
          Foreign,      \* fields of a newer protocol: number, wire type, content
          MaxPieces     \* bound: pieces of what is received

VARIABLES bytes,        \* what arrived
          pieces        \* history: the messages in it

codecVars == <<bytes, pieces>>

VARINT == 0
WIDE == 1
LEN == 2
NARROW == 5
Byte == 2 * Digit
Nothing == [x \in {} |-> x]
At(f, x, default) == IF x \in DOMAIN f THEN f[x] ELSE default

-----------------------------------------------------------------------------
(* Writing *)
Varint[n \in Nat] == IF n < Digit THEN <<n>> ELSE <<Digit + (n % Digit)>> \o Varint[n \div Digit]
Unsigned(n) == IF n < 0 THEN n + Modulus ELSE n
\* Mutant: the sign is not written.
ZigzagOfSize(n) == IF n < 0 THEN -2 * n ELSE 2 * n

Zigzag(n) == IF n < 0 THEN -2 * n - 1 ELSE 2 * n
Fixed(n, size) == [i \in 1 .. size |-> (n \div Byte ^ (i - 1)) % Byte]
Tag(no, wire) == Varint[no * 8 + wire]
Sized(content) == Varint[Len(content)] \o content

WireOf(type) == CASE type.kind = "message" \/ type.of \in {"string", "bytes"} -> LEN
                  [] type.kind = "scalar" /\ type.of = "double" -> WIDE
                  [] type.kind = "scalar" /\ type.of = "float" -> NARROW
                  [] OTHER -> VARINT
\* a number stands for itself, a name for the first value that may be spelled so
EnumValue(of, v) ==
  IF v.by = "number" THEN v.n
  ELSE Enum[of][SelectInSeq(Enum[of], LAMBDA item : v.name \in item.spellings)].n
Scalar(of, v) == CASE of = "bool" -> Varint[IF v THEN 1 ELSE 0]
                   [] of = "int" -> Varint[Unsigned(v)]
                   [] of = "sint" -> Varint[Zigzag(v)]
                   [] of \in {"string", "bytes"} -> Sized(v)
                   [] of = "double" -> Fixed(v, Wide)
                   [] of = "float" -> Fixed(v, Narrow)

RECURSIVE EncodeMessage(_, _), EncodeValue(_)
EncodeField(no, type, v) ==
  Tag(no, WireOf(type)) \o
  CASE type.kind = "scalar" -> Scalar(type.of, v)
    [] type.kind = "enum" -> Varint[EnumValue(type.of, v)]
    [] type.kind = "message" -> Sized(EncodeMessage(type.of, v))
EncodeEntry(no, key, value, k, v) ==
  Tag(no, LEN) \o Sized(EncodeField(1, key, k) \o EncodeField(2, value, v))
Each(s, Op(_)) == FlattenSeq([i \in DOMAIN s |-> Op(s[i])])
Keys(f) == SetToSeq(DOMAIN f)

Text == [kind |-> "scalar", of |-> "string"]
Json == [kind |-> "message", of |-> "Value"]
\* _VALUE_PROTO_KEYS: an object with these names alone is taken for a value
\* that is already in the form of the protocol
InForm(v) == /\ v.kind = "object" /\ DOMAIN v.fields # {}
             /\ DOMAIN v.fields \subseteq {NumberValue, StringValue}
Unwrapped(v) == v.fields[IF NumberValue \in DOMAIN v.fields THEN NumberValue ELSE StringValue]
Members(v) == IF DOMAIN v.fields = {FieldsName} /\ v.fields[FieldsName].kind = "object"
              THEN v.fields[FieldsName].fields ELSE v.fields
EncodeObject(v) ==
  LET fields == Members(v)
  IN  Each(Keys(fields), LAMBDA k : EncodeEntry(1, Text, Json, k, fields[k]))
EncodeList(items) == Each(items, LAMBDA v : Tag(1, LEN) \o Sized(EncodeValue(v)))
EncodeValue(v) ==
  CASE v.kind = "null" -> Tag(1, VARINT) \o Varint[0]
    [] v.kind = "number" -> Tag(2, WIDE) \o Fixed(v.n, Wide)
    [] v.kind = "string" -> Tag(3, LEN) \o Sized(v.s)
    [] v.kind = "bool" -> Tag(4, VARINT) \o Varint[IF v.b THEN 1 ELSE 0]
    [] InForm(v) -> EncodeValue(Unwrapped(v))
    [] v.kind = "object" /\ ~InForm(v) -> Tag(5, LEN) \o Sized(EncodeObject(v))
    [] v.kind = "list" -> Tag(6, LEN) \o Sized(EncodeList(v.items))

EncodeOne(f, v) ==
  CASE f.type.kind = "map" -> Each(Keys(v), LAMBDA k : EncodeEntry(f.no, f.type.key, f.type.value, k, v[k]))
    [] f.type.kind # "map" /\ f.repeated -> Each(v, LAMBDA x : EncodeField(f.no, f.type, x))
    [] OTHER -> EncodeField(f.no, f.type, v)
EncodeMessage(type, data) ==
  IF type = "Value" THEN EncodeValue(data)
  ELSE Each(Schema[type], LAMBDA f : IF f.name \in DOMAIN data THEN EncodeOne(f, data[f.name]) ELSE <<>>)

-----------------------------------------------------------------------------
(* Reading: the bytes are cut into fields, and the fields put together.  A *)
(* size that is larger than what is left takes what is left.               *)
Digits(b) == SubSeq(b, 1, SelectInSeq(b, LAMBDA x : x < Digit))
Number(digits) == FoldRight(LAMBDA x, n : n * Digit + (x % Digit), digits, 0)
Rest(b, n) == SubSeq(b, n + 1, Len(b))
First(b, n) == SubSeq(b, 1, IF n < Len(b) THEN n ELSE Len(b))
Sum(raw) == FoldRight(LAMBDA x, n : n * Byte + x, raw, 0)

RECURSIVE Fields(_)
Fields(b) ==
  IF b = <<>> THEN <<>>
  ELSE LET key == Digits(b)
           no == Number(key) \div 8
           wire == Number(key) % 8
           body == Rest(b, Len(key))
           n == Number(Digits(body))
           content == Rest(body, Len(Digits(body)))
           Field(raw, after) == <<[no |-> no, wire |-> wire, raw |-> raw]>> \o Fields(after)
       IN  CASE wire = VARINT -> Field(n, content)
             [] wire = LEN -> Field(First(content, n), Rest(content, n))
             [] wire = WIDE -> Field(First(body, Wide), Rest(body, Wide))
             [] wire = NARROW -> Field(First(body, Narrow), Rest(body, Narrow))

RECURSIVE DecodeMessage(_, _), DecodeValue(_)
DecodeType(type, raw) ==
  CASE type.kind = "message" -> DecodeMessage(type.of, raw)
    [] type.kind = "enum" -> raw
    [] type.kind = "scalar" ->
         CASE type.of = "bool" -> raw # 0
           [] type.of = "sint" -> IF raw % 2 = 0 THEN raw \div 2 ELSE -(raw \div 2) - 1
           [] type.of \in {"double", "float"} -> Sum(raw)
           [] OTHER -> raw
DecodeEntry(key, value, raw) ==
  LET fields == Fields(raw)
      Latest(no, type) == DecodeType(type, fields[SelectLastInSeq(fields, LAMBDA f : f.no = no)].raw)
  IN  Latest(1, key) :> Latest(2, value)
Put(type, out, field) ==
  LET i == SelectInSeq(Schema[type], LAMBDA f : f.no = field.no)
      f == Schema[type][i]
  IN  IF i = 0 THEN out
      ELSE CASE f.type.kind = "map" ->
                  (f.name :> (DecodeEntry(f.type.key, f.type.value, field.raw) @@ At(out, f.name, Nothing))) @@ out
             [] f.type.kind # "map" /\ f.repeated ->
                  (f.name :> Append(At(out, f.name, <<>>), DecodeType(f.type, field.raw))) @@ out
             [] OTHER -> (f.name :> DecodeType(f.type, field.raw)) @@
                         (IF f.oneof = "" THEN out ELSE (f.oneof :> f.name) @@ out)
DecodeObject(b) == FoldLeft(LAMBDA out, f : IF f.no = 1 THEN DecodeEntry(Text, Json, f.raw) @@ out ELSE out,
                            Nothing, Fields(b))
DecodeList(b) == LET items == SelectSeq(Fields(b), LAMBDA f : f.no = 1)
                 IN  [i \in DOMAIN items |-> DecodeValue(items[i].raw)]
DecodeValue(b) ==
  FoldLeft(LAMBDA v, f : CASE f.no = 1 -> [kind |-> "null"]
                           [] f.no = 2 -> [kind |-> "number", n |-> Sum(f.raw)]
                           [] f.no = 3 -> [kind |-> "string", s |-> f.raw]
                           [] f.no = 4 -> [kind |-> "bool", b |-> f.raw # 0]
                           [] f.no = 5 -> [kind |-> "object", fields |-> DecodeObject(f.raw)]
                           [] f.no = 6 -> [kind |-> "list", items |-> DecodeList(f.raw)]
                           [] OTHER -> v,
           [kind |-> "null"], Fields(b))
DecodeMessage(type, b) ==
  IF type = "Value" THEN DecodeValue(b)
  ELSE FoldLeft(LAMBDA out, f : Put(type, out, f), Nothing, Fields(b))

-----------------------------------------------------------------------------
Init == bytes = <<>> /\ pieces = <<>>
Receive(m) == /\ bytes' = bytes \o EncodeMessage(Top, m)
              /\ pieces' = Append(pieces, m)
\* a field that is in no descriptor here
ReceiveForeign(f) ==
  /\ bytes' = bytes \o Tag(f.no, f.wire) \o
                CASE f.wire = VARINT -> Varint[f.content]
                  [] f.wire = LEN -> Sized(f.content)
                  [] f.wire \in {WIDE, NARROW} -> f.content
  /\ pieces' = Append(pieces, Nothing)
Next == /\ Len(pieces) < MaxPieces
        /\ \/ \E m \in Sent : Receive(m)
           \/ \E f \in Foreign : ReceiveForeign(f)
Spec == Init /\ [][Next]_codecVars

-----------------------------------------------------------------------------
\* What a message is when it comes back: a negative number as its 64 bits, an
\* enum as its number, an empty list or map not at all; an object in the form
\* of the protocol as the value it stands for.
RECURSIVE Normal(_, _)
NormalOf(type, v) == CASE type.kind = "message" -> Normal(type.of, v)
                       [] type.kind = "enum" -> EnumValue(type.of, v)
                       [] type.kind = "scalar" -> IF type.of = "int" THEN Unsigned(v) ELSE v
Normal(type, data) ==
  IF type = "Value"
  THEN CASE InForm(data) -> Normal(type, Unwrapped(data))
         [] data.kind = "object" /\ ~InForm(data) ->
              [data EXCEPT !.fields = [k \in DOMAIN Members(data) |-> Normal(type, Members(data)[k])]]
         [] data.kind = "list" -> [data EXCEPT !.items = [i \in DOMAIN @ |-> Normal(type, @[i])]]
         [] OTHER -> data
  ELSE LET IsMap(f) == f.type.kind = "map"
           set == {f \in ToSet(Schema[type]) : f.name \in DOMAIN data /\ (IsMap(f) \/ f.repeated => DOMAIN data[f.name] # {})}
           Field(x) == CHOOSE f \in set : f.name = x
           Of(f, v) == CASE IsMap(f) -> [k \in DOMAIN v |-> NormalOf(f.type.value, v[k])]
                         [] ~IsMap(f) /\ f.repeated -> [i \in DOMAIN v |-> NormalOf(f.type, v[i])]
                         [] OTHER -> NormalOf(f.type, v)
           Later(f, g) == \E i, j \in DOMAIN Schema[type] : i < j /\ Schema[type][i] = f /\ Schema[type][j] = g
           named == {f \in set : f.oneof # "" /\ ~\E g \in set : g.oneof = f.oneof /\ Later(f, g)}
       IN  [x \in {f.name : f \in set} |-> Of(Field(x), data[x])] @@
           [x \in {f.oneof : f \in named} |-> (CHOOSE f \in named : f.oneof = x).name]
\* one piece behind another: lists and maps grow, of anything else the last stays
Joined(a, b) ==
  [x \in DOMAIN a \cup DOMAIN b |->
     LET i == SelectInSeq(Schema[Top], LAMBDA f : f.name = x)
     IN  IF x \notin DOMAIN a \/ x \notin DOMAIN b THEN At(b, x, At(a, x, 0))
         ELSE CASE i > 0 /\ Schema[Top][i].type.kind = "map" -> b[x] @@ a[x]
                [] i > 0 /\ Schema[Top][i].type.kind # "map" /\ Schema[Top][i].repeated -> a[x] \o b[x]
                [] OTHER -> b[x]]
\* Whatever numbers, lengths and nesting a message has, in however many pieces
\* it comes and whatever a newer peer adds, it is read as it was written.
RoundTrip ==
  DecodeMessage(Top, bytes) =
    FoldLeft(LAMBDA whole, m : Joined(whole, Normal(Top, m)), Nothing, pieces)
=============================================================================

------------------------------ MODULE Encoder ------------------------------
(***************************************************************************)
(* The encoder (lib/encoder.js) on the way of a value through a request:   *)
(* the parameters are bound with the types of the columns or with guessed  *)
(* ones, the server keeps the bytes, and a page of rows is decoded, cell   *)
(* by cell, with types that may have grown since.  Bytes are bytes; a      *)
(* value is a record of its JavaScript class and its content.              *)
(***************************************************************************)
EXTENDS Integers, Sequences, SequencesExt

CONSTANT Samples    \* the columns and values of a run: [type, value, readAs, hint]

VARIABLES
  opts,     \* the encoding options and the protocol version
  params,   \* the samples bound, one for each column
  bound,    \* what encodeParams() returned: a sequence of results
  page,     \* the page of one row the server answers with
  row       \* the decoded row

encoderVars == <<opts, params, bound, page, row>>

Sizes == INSTANCE VInt WITH ByteBits <- 8

JS(class, content) == [js |-> class, v |-> content]
Null == JS("null", 0)
Undefined == JS("undefined", 0)
Unset == JS("unset", 0)
Throws == JS("throws", 0)
Buffer(bytes) == JS("Buffer", bytes)

\* A Vector knows the name of its subtype, or none that is a type's.
VectorOf(subtype, items) == [js |-> "Vector", v |-> items, subtype |-> subtype]
Vectors == {"Vector", "Float32Array"}

-----------------------------------------------------------------------------
(* Numbers as bytes: two's complement, most significant byte first.        *)

IntBytes(n, w) ==
  [i \in 1..w |-> IF w - i >= 4 THEN (IF n < 0 THEN 255 ELSE 0)
                  ELSE (n \div 256^(w - i)) % 256]

ReadUInt(b) == FoldLeft(LAMBDA a, x : 256 * a + x, 0, b)

ReadInt(b) ==
  FoldLeft(LAMBDA a, x : 256 * a + x, IF b[1] > 127 THEN b[1] - 256 ELSE b[1], Tail(b))

RECURSIVE VarintParts(_)
VarintParts(n) ==
  IF n \in {0, -1} THEN <<>> ELSE Append(VarintParts(n \div 256), n % 256)

\* The fewest bytes that keep the sign.
VarintBytes(n) ==
  LET parts == VarintParts(n)
  IN CASE n = 0 -> <<0>>
       [] n = -1 -> <<255>>
       [] n > 0 /\ parts[1] > 127 -> <<0>> \o parts
       [] n < -1 /\ parts[1] <= 127 -> <<255>> \o parts
       [] OTHER -> parts

\* #decodeVarintAsBigInt()
DecodeVarint(b) ==
  IF b[1] <= 127 THEN ReadUInt(b)
  ELSE -ReadUInt([i \in DOMAIN b |-> 255 - b[i]]) - 1

-----------------------------------------------------------------------------
(* Types without a type inside.                                            *)

StringTypes == {"ascii", "text", "varchar"}
IntegerWidth == [int |-> 4, smallint |-> 2, tinyint |-> 1]
LongTypes == {"bigint", "counter"}

\* The class a decoder gives (the table of decoders).
Native(code) ==
  CASE code \in StringTypes -> "string"
    [] code \in DOMAIN IntegerWidth \cup {"float", "double"} -> "number"
    [] code \in LongTypes -> IF opts.useBigIntAsLong THEN "bigint" ELSE "Long"
    [] code = "varint" -> IF opts.useBigIntAsVarint THEN "bigint" ELSE "Integer"
    [] code = "timestamp" -> "Date"
    [] code = "date" -> "LocalDate"
    [] code = "time" -> "LocalTime"
    [] code = "decimal" -> "BigDecimal"
    [] code = "uuid" -> "Uuid"
    [] code = "timeuuid" -> "TimeUuid"
    [] code = "inet" -> "InetAddress"
    [] code = "duration" -> "Duration"
    [] code = "boolean" -> "boolean"
    [] OTHER -> "Buffer"

Integral == {"number", "boolean", "Date", "Long", "spells number"}
Numeric(x) == IF x.js = "boolean" THEN (IF x.v THEN 1 ELSE 0) ELSE x.v

\* LocalDate.fromDate() of a Date, in a process that runs in UTC.
Days(x) == IF x.js = "Date" THEN x.v \div 86400000 ELSE x.v

Truthy(x) ==
  CASE x.js = "boolean" -> x.v
    [] x.js \in {"number", "bigint"} -> x.v # 0
    [] x.js = "string" -> x.v # <<>>
    [] OTHER -> TRUE

\* The encoders.  A string spells a value of one other class or none, and is
\* bound to text only in the second case; floats stand for their value in a
\* fixed width.
Take(classes, x, bytes) == IF x.js \in classes THEN Buffer(bytes) ELSE Throws
Numbers == {"number", "spells number"}

EncodeFloat(x) == Take(Numbers, x, IntBytes(x.v, 4))
EncodeDouble(x) == Take(Numbers, x, IntBytes(x.v, 8))
EncodeBigIntFromLong(x) == Take(Numbers \cup {"Long"}, x, IntBytes(x.v, 8))
EncodeBigIntFromBigInt(x) == Take({"bigint", "spells number"}, x, IntBytes(x.v, 8))
EncodeLong(x) ==
  IF opts.useBigIntAsLong THEN EncodeBigIntFromBigInt(x) ELSE EncodeBigIntFromLong(x)
\* A Date or its spelling is a number by then, BigInt() takes every one of these.
EncodeTimestamp(x) ==
  LET ms == IF x.js \in {"Date", "spells Date"} THEN JS("number", x.v) ELSE x
  IN EncodeLong(IF opts.useBigIntAsLong /\ ms.js \in {"number", "Long"} THEN JS("bigint", ms.v)
                ELSE ms)
EncodeDate(x) ==
  Take({"LocalDate", "spells LocalDate", "Date"}, x,
       [IntBytes(Days(x), 4) EXCEPT ![1] = (@ + 128) % 256])
EncodeTime(x) == Take({"LocalTime", "spells LocalTime"}, x, IntBytes(x.v, 8))
EncodeUuid(x) == Take({"Uuid", "TimeUuid", "spells Uuid"}, x, x.v)
EncodeInet(x) == Take({"InetAddress", "spells InetAddress"}, x, x.v)
EncodeDuration(x) == Take({"Duration"}, x, x.v)
EncodeVarintFromInteger(x) == Take(Numbers \cup {"Integer"}, x, VarintBytes(x.v))
EncodeVarintFromBigInt(x) == Take({"bigint", "spells number"}, x, VarintBytes(x.v))
EncodeVarint(x) ==
  IF opts.useBigIntAsVarint THEN EncodeVarintFromBigInt(x) ELSE EncodeVarintFromInteger(x)
EncodeDecimal(x) ==
  LET d == IF x.js = "number" THEN [scale |-> 0, unscaled |-> x.v] ELSE x.v
  IN Take({"BigDecimal", "spells BigDecimal", "number"}, x,
          IntBytes(d.scale, 4) \o VarintBytes(d.unscaled))
EncodeString(x) == Take({"string"}, x, x.v)
EncodeBoolean(x) == Buffer(IF Truthy(x) THEN <<1>> ELSE <<0>>)
\* isNaN() lets everything through that converts to a number; the write checks
\* the range.
EncodeInt(x, width) ==
  LET half == 128 * 256^(width - 1)
  IN IF width < 4 /\ x.js \in Integral /\ Numeric(x) \notin (-half)..(half - 1) THEN Throws
     ELSE Take(Integral, x, IntBytes(Numeric(x), width))

EncodeScalar(code, x) ==
  CASE code \in StringTypes -> EncodeString(x)
    [] code \in DOMAIN IntegerWidth -> EncodeInt(x, IntegerWidth[code])
    [] code \in LongTypes -> EncodeLong(x)
    [] code = "float" -> EncodeFloat(x)
    [] code = "double" -> EncodeDouble(x)
    [] code = "timestamp" -> EncodeTimestamp(x)
    [] code = "date" -> EncodeDate(x)
    [] code = "time" -> EncodeTime(x)
    [] code \in {"uuid", "timeuuid"} -> EncodeUuid(x)
    [] code = "inet" -> EncodeInet(x)
    [] code = "duration" -> EncodeDuration(x)
    [] code = "varint" -> EncodeVarint(x)
    [] code = "decimal" -> EncodeDecimal(x)
    [] code = "boolean" -> EncodeBoolean(x)
    [] OTHER -> Throws

DecodeScalar(code, b) ==
  JS(Native(code),
     CASE code \in DOMAIN IntegerWidth \cup LongTypes \cup {"timestamp", "double", "float", "time"} -> ReadInt(b)
       [] code = "date" -> ReadInt([b EXCEPT ![1] = (@ + 128) % 256])
       [] code = "boolean" -> b[1] # 0
       [] code = "varint" -> DecodeVarint(b)
       [] code = "decimal" -> [scale |-> ReadInt(SubSeq(b, 1, 4)),
                               unscaled |-> DecodeVarint(SubSeq(b, 5, Len(b)))]
       [] OTHER -> b)

-----------------------------------------------------------------------------
(* Types with types inside: [code, info].  A vector is the custom type of  *)
(* that name, its info the subtype and the dimension.                      *)

T(code, info) == [code |-> code, info |-> info]
Scalar(code) == T(code, <<>>)

Absent(x) == x \in {Null, Undefined, Unset}

\* setProtocolVersion(): lengths in a collection have 2 bytes before version 3.
LengthSize == IF opts.version >= 3 THEN 4 ELSE 2
LengthBuffer(n) == IntBytes(n, LengthSize)
CollectionLength(b, offset) ==
  LET raw == SubSeq(b, offset + 1, offset + LengthSize)
  IN IF LengthSize = 4 THEN ReadInt(raw) ELSE ReadUInt(raw)

RECURSIVE SerializationSizeIfFixed(_)
SerializationSizeIfFixed(t) ==
  CASE t.code \in {"bigint", "timestamp", "double"} -> 8
    [] t.code = "boolean" -> 1
    [] t.code \in {"float", "int"} -> 4
    [] t.code \in {"uuid", "timeuuid"} -> 16
    [] t.code = "vector" -> LET size == SerializationSizeIfFixed(t.info[1])
                            IN IF size = -1 THEN -1 ELSE size * t.info[2]
    [] OTHER -> -1

\* guessDataType(), with no type for what it cannot guess.
NoType == Scalar("none")
RECURSIVE GuessDataType(_)
GuessDataType(x) ==
  LET Is(code) == Scalar(code)
  IN CASE x.js = "number" -> Is("double")
       [] x.js = "string" -> Is("text")
       [] x.js \in {"spells Uuid", "Uuid", "TimeUuid"} -> Is("uuid")
       [] x.js = "boolean" -> Is("boolean")
       [] x.js = "Date" -> Is("timestamp")
       [] x.js = "Long" -> Is("bigint")
       [] x.js = "Integer" -> Is("varint")
       [] x.js = "BigDecimal" -> Is("decimal")
       [] x.js = "InetAddress" -> Is("inet")
       [] x.js = "Tuple" -> Is("tuple")
       [] x.js = "LocalDate" -> Is("date")
       [] x.js = "LocalTime" -> Is("time")
       [] x.js = "Duration" -> Is("duration")
       [] x.js \in Vectors /\ x.v = <<>> -> NoType
       [] x.js = "Float32Array" -> T("vector", <<Is("float"), Len(x.v)>>)
       [] x.js = "Vector" -> LET sub == IF x.subtype # NoType THEN x.subtype ELSE GuessDataType(x.v[1])
                             IN IF sub = NoType THEN NoType ELSE T("vector", <<sub, Len(x.v)>>)
       [] x.js = "Array" -> T("list", NoType)
       [] OTHER -> NoType

\* A length before each part; a part that is no buffer cannot be joined.
Joined(parts) ==
  IF \E i \in DOMAIN parts : parts[i].js # "Buffer" THEN Throws
  ELSE Buffer(LengthBuffer(Len(parts))
              \o FlattenSeq([i \in DOMAIN parts |-> LengthBuffer(Len(parts[i].v)) \o parts[i].v]))

\* A field of a UDT or an element of a tuple: 4 bytes of length, -1 for null.
\* encode() returned undefined for an unset one, which is then null too.
Framed(item) == IF item.js = "Buffer" THEN IntBytes(Len(item.v), 4) \o item.v ELSE IntBytes(-1, 4)
FramedAll(items) ==
  IF \E i \in DOMAIN items : items[i] = Throws THEN Throws
  ELSE Buffer(FlattenSeq([i \in DOMAIN items |-> Framed(items[i])]))

RECURSIVE Encode(_, _)

EncodeList(x, t) ==
  IF x.js # "Array" /\ ~(t.code = "set" /\ opts.set /\ x.js = "Set") THEN Throws
  ELSE IF x.v = <<>> THEN Null
  ELSE IF \E i \in DOMAIN x.v : Absent(x.v[i]) THEN Throws
  ELSE Joined([i \in DOMAIN x.v |-> Encode(x.v[i], t.info)])

\* The pairs of a Map, when the options name that class, or the properties of an
\* object, of which a Map has none.
Entries(x) == IF x.js = "Map" /\ ~opts.map THEN <<>> ELSE x.v

\* A value of length 0 stands for one that encodes to null.
EncodeMap(x, t) ==
  LET pairs == Entries(x)
      keys == [i \in DOMAIN pairs |-> Encode(pairs[i][1], t.info[1])]
      values == [i \in DOMAIN pairs |-> Encode(pairs[i][2], t.info[2])]
      Value(r) == IF r.js = "Buffer" THEN LengthBuffer(Len(r.v)) \o r.v ELSE LengthBuffer(0)
  IN IF \E i \in DOMAIN pairs : Absent(pairs[i][1]) \/ Absent(pairs[i][2]) THEN Throws
     ELSE IF \E i \in DOMAIN pairs : keys[i].js # "Buffer" \/ values[i] = Throws THEN Throws
     ELSE Buffer(LengthBuffer(Len(pairs))
                 \o FlattenSeq([i \in DOMAIN pairs |->
                      LengthBuffer(Len(keys[i].v)) \o keys[i].v \o Value(values[i])]))

\* A field the object does not have is undefined.
FieldOf(x, name) == IF name \in DOMAIN x.v THEN x.v[name] ELSE Undefined

EncodeUdt(x, t) ==
  FramedAll([i \in DOMAIN t.info |-> Encode(FieldOf(x, t.info[i].name), t.info[i].type)])

EncodeTuple(x, t) ==
  IF x.js # "Tuple" \/ t.info = <<>> THEN Throws
  ELSE LET n == IF Len(t.info) < Len(x.v) THEN Len(t.info) ELSE Len(x.v)
       IN FramedAll([i \in 1..n |-> Encode(x.v[i], t.info[i])])

EncodeVector(x, t) ==
  IF x.js \notin Vectors \/ Len(x.v) # t.info[2] \/ x.v = <<>> THEN Throws
  ELSE LET items == [i \in DOMAIN x.v |-> Encode(x.v[i], t.info[1])]
           fixed == SerializationSizeIfFixed(t.info[1])
           Size(b) == IF fixed = -1 THEN Sizes!UvintPack(Len(b)) ELSE <<>>
       IN IF \E i \in DOMAIN items : items[i].js # "Buffer" THEN Throws
          ELSE Buffer(FlattenSeq([i \in DOMAIN items |-> Size(items[i].v) \o items[i].v]))

\* encode(): undefined is unset when the options say so, unset is passed on
\* as undefined, and null and buffers are passed on as they are.
Encode(x0, typeInfo) ==
  LET x == IF x0 # Undefined THEN x0
           ELSE IF opts.useUndefinedAsUnset /\ opts.version >= 4 THEN Unset ELSE Null
      t == IF typeInfo = NoType THEN GuessDataType(x) ELSE typeInfo
  IN CASE x = Unset -> IF opts.version >= 4 THEN Undefined ELSE Throws
       [] x = Null \/ x.js = "Buffer" -> x
       [] OTHER -> CASE t = NoType -> Throws
                     [] t.code \in {"list", "set"} -> EncodeList(x, t)
                     [] t.code = "map" -> EncodeMap(x, t)
                     [] t.code = "udt" -> EncodeUdt(x, t)
                     [] t.code = "tuple" -> EncodeTuple(x, t)
                     [] t.code = "vector" -> EncodeVector(x, t)
                     [] OTHER -> EncodeScalar(t.code, x)

-----------------------------------------------------------------------------
(* Decoding, by offsets into the bytes as they came.                       *)

ZeroLengthTypes == StringTypes \cup {"custom", "blob", "vector"}

RECURSIVE Decode(_, _), DecodeItems(_, _, _, _), DecodePairs(_, _, _, _),
          DecodeFields(_, _, _), DecodeElements(_, _, _, _)

\* n elements of a list or set from an offset on.
DecodeItems(b, offset, n, t) ==
  IF n = 0 THEN <<>>
  ELSE LET start == offset + LengthSize
           end == start + CollectionLength(b, offset)
       IN <<Decode(Buffer(SubSeq(b, start + 1, end)), t)>> \o DecodeItems(b, end, n - 1, t)

\* n pairs of a map; the value, not the key, may have a negative length.
DecodePairs(b, offset, n, ts) ==
  IF n = 0 THEN <<>>
  ELSE LET start == offset + LengthSize
           end == start + CollectionLength(b, offset)
           key == Decode(Buffer(SubSeq(b, start + 1, end)), ts[1])
           length == CollectionLength(b, end)
           from == end + LengthSize
       IN IF length < 0 THEN <<<<key, Null>>>> \o DecodePairs(b, from, n - 1, ts)
          ELSE <<<<key, Decode(Buffer(SubSeq(b, from + 1, from + length)), ts[2])>>>>
               \o DecodePairs(b, from + length, n - 1, ts)

\* The string a key becomes as the name of a property: what it spells, for a
\* Date without its milliseconds.  The texts of the other classes are not looked
\* into.
PropertyName(key) ==
  CASE key.js \in {"string", "null"} -> key
    [] key.js \in {"number", "bigint", "Long", "Integer"} -> JS("spells number", key.v)
    [] key.js \in {"Uuid", "TimeUuid"} -> JS("spells Uuid", key.v)
    [] key.js = "Date" -> JS("spells Date", key.v - (key.v % 1000))
    [] key.js \in {"LocalDate", "LocalTime", "InetAddress", "BigDecimal"} ->
         JS("spells " \o key.js, key.v)
    [] OTHER -> JS("text", key)

\* map[key] = value: the last value of a name stays.  That the names of an object
\* which are integers come first is left out.
SetProperty(pairs, pair) ==
  LET name == PropertyName(pair[1])
  IN IF \E i \in DOMAIN pairs : pairs[i][1] = name
     THEN [i \in DOMAIN pairs |-> IF pairs[i][1] = name THEN <<name, pair[2]>> ELSE pairs[i]]
     ELSE Append(pairs, <<name, pair[2]>>)

\* What decodeMap() makes of the pairs it reads.
MapOf(pairs) ==
  IF opts.map THEN JS("Map", pairs) ELSE JS("object", FoldLeft(SetProperty, <<>>, pairs))

\* (fault) The bytes are taken to have every field of the type.
DecodeFields_AllFields(b, offset, ts) ==
  IF ts = <<>> THEN <<>>
  ELSE IF offset >= Len(b) THEN <<Throws>>
  ELSE LET length == ReadInt(SubSeq(b, offset + 1, offset + 4))
           start == offset + 4
           next == start + (IF length < 0 THEN 0 ELSE length)
       IN <<IF length < 0 THEN Null ELSE Decode(Buffer(SubSeq(b, start + 1, next)), Head(ts))>>
          \o DecodeFields(b, next, Tail(ts))

\* The fields of a UDT or a tuple, as many as the bytes have.
DecodeFields(b, offset, ts) ==
  IF ts = <<>> \/ offset >= Len(b) THEN <<>>
  ELSE LET length == ReadInt(SubSeq(b, offset + 1, offset + 4))
           start == offset + 4
       IN IF length < 0 THEN <<Null>> \o DecodeFields(b, start, Tail(ts))
          ELSE <<Decode(Buffer(SubSeq(b, start + 1, start + length)), Head(ts))>>
               \o DecodeFields(b, start + length, Tail(ts))

\* n elements of a vector, each with its size unless the type fixes it.
DecodeElements(b, offset, n, t) ==
  LET fixed == SerializationSizeIfFixed(t)
      head == Sizes!UvintUnpack(SubSeq(b, offset + 1, Len(b)))
      start == IF fixed = -1 THEN offset + head.read ELSE offset
      end == start + (IF fixed = -1 THEN head.size ELSE fixed)
  IN CASE n = 0 -> IF offset = Len(b) THEN <<>> ELSE <<Throws>>
       [] n > 0 /\ offset >= Len(b) -> <<Throws>>
       [] OTHER -> IF end > Len(b) THEN <<Throws>>
                   ELSE <<Decode(Buffer(SubSeq(b, start + 1, end)), t)>>
                        \o DecodeElements(b, end, n - 1, t)

DecodeUdt(b, t) ==
  LET got == DecodeFields(b, 0, [i \in DOMAIN t.info |-> t.info[i].type])
      names == [i \in DOMAIN got |-> t.info[i].name]
  IN JS("object", [n \in ToSet(names) |-> got[CHOOSE i \in DOMAIN names : names[i] = n]])

DecodeTuple(b, t) ==
  LET got == DecodeFields(b, 0, t.info)
  IN JS("Tuple", [i \in DOMAIN t.info |-> IF i <= Len(got) THEN got[i] ELSE Undefined])

\* decode(): what has no bytes is null, but for the types with an empty value.
Decode(r, t) ==
  LET b == r.v
  IN CASE r = Null \/ (b = <<>> /\ t.code \notin ZeroLengthTypes) -> Null
       [] t.code = "list" -> JS("Array", DecodeItems(b, LengthSize, CollectionLength(b, 0), t.info))
       [] t.code = "set" -> JS(IF opts.set THEN "Set" ELSE "Array",
                               DecodeItems(b, LengthSize, CollectionLength(b, 0), t.info))
       [] t.code = "map" -> MapOf(DecodePairs(b, LengthSize, CollectionLength(b, 0), t.info))
       [] t.code = "udt" -> DecodeUdt(b, t)
       [] t.code = "tuple" -> DecodeTuple(b, t)
       [] t.code = "vector" -> VectorOf(t.info[1], DecodeElements(b, 0, t.info[2], t.info[1]))
       [] OTHER -> DecodeScalar(t.code, b)

\* FrameReader.readBytes(): a cell of a page.
RECURSIVE DecodeRow(_, _, _)
DecodeRow(data, offset, ts) ==
  IF ts = <<>> THEN <<>>
  ELSE LET length == ReadInt(SubSeq(data, offset + 1, offset + 4))
           start == offset + 4
           end == start + (IF length < 0 THEN 0 ELSE length)
           cell == IF length < 0 THEN Null ELSE Buffer(SubSeq(data, start + 1, end))
       IN <<Decode(cell, Head(ts))>> \o DecodeRow(data, end, Tail(ts))

-----------------------------------------------------------------------------
(* Routing keys.                                                           *)

\* (fault) The parts one after the other.
ConcatRoutingKey_Bare(parts) ==
  IF parts = <<>> THEN Null ELSE Buffer(FlattenSeq([i \in DOMAIN parts |-> parts[i].v]))

\* concatRoutingKey(): a single part as it is, several with their lengths.
ConcatRoutingKey(parts) ==
  CASE parts = <<>> -> Null
    [] Len(parts) = 1 -> parts[1]
    [] OTHER -> Buffer(FlattenSeq([i \in DOMAIN parts |->
                         IntBytes(Len(parts[i].v), 2) \o parts[i].v \o <<0>>]))

\* setRoutingKeyFromMeta() and, without a key of the user, setRoutingKey-
\* FromUser(): the parameters at the indexes (0: no such name), unless one is
\* missing, null or unset, or cannot be encoded.
RoutingKeyFromParams(indexes, types) ==
  LET parts == [i \in DOMAIN indexes |-> Encode(params[indexes[i]].value, types[indexes[i]])]
  IN IF (\E i \in DOMAIN indexes : indexes[i] = 0) THEN Null
     ELSE IF \E i \in DOMAIN parts : parts[i].js # "Buffer" THEN Null
     ELSE ConcatRoutingKey(parts)

\* setRoutingKeyFromUser() with an array of the user: nothing is routed when
\* an item is missing.
RoutingKeyFromArray(items) ==
  IF Len(items) # 1 /\ (\E i \in DOMAIN items : items[i].js # "Buffer") THEN Null
  ELSE ConcatRoutingKey(items)

-----------------------------------------------------------------------------

Types(f) == [i \in DOMAIN params |-> params[i][f]]
Hints == [i \in DOMAIN params |-> IF params[i].hint THEN params[i].type ELSE NoType]

\* Two columns: a value, then one that shows where the bytes of the first end.
EncoderInit ==
  /\ opts \in {[version |-> v, useBigIntAsLong |-> b, useBigIntAsVarint |-> b,
                useUndefinedAsUnset |-> u, set |-> c, map |-> c] :
                  v \in {2, 4}, b \in BOOLEAN, u \in BOOLEAN, c \in BOOLEAN}
  /\ \E s \in Samples :
       params = <<s, [type |-> Scalar("tinyint"), value |-> JS("number", 7),
                      readAs |-> Scalar("tinyint"), hint |-> TRUE]>>
  /\ bound = <<>> /\ page = <<>> /\ row = <<>>

\* encodeParams(): the request is not sent when a parameter cannot be encoded.
EncodeParams ==
  /\ bound = <<>>
  /\ LET results == [i \in DOMAIN params |-> Encode(params[i].value, Hints[i])]
     IN bound' = IF Throws \in ToSet(results) THEN <<Throws>> ELSE results
  /\ UNCHANGED <<opts, params, page, row>>

\* The server: it keeps the bytes, nothing for null and unset, and answers a
\* query for the row.
Answer ==
  /\ page = <<>> /\ bound \notin {<<>>, <<Throws>>}
  /\ page' = FlattenSeq([i \in DOMAIN bound |-> Framed(bound[i])])
  /\ UNCHANGED <<opts, params, bound, row>>

DecodeRows ==
  /\ page # <<>> /\ row = <<>>
  /\ row' = DecodeRow(page, 0, Types("readAs"))
  /\ UNCHANGED <<opts, params, bound, page>>

EncoderNext == EncodeParams \/ Answer \/ DecodeRows

-----------------------------------------------------------------------------

\* The classes that may be bound to a type (the reference).
Accepted(code) ==
  CASE code \in StringTypes -> {"string"}
    [] code \in DOMAIN IntegerWidth -> {"number", "boolean", "Date", "Long", "spells number"}
    [] code \in {"float", "double"} -> {"number", "spells number"}
    [] code \in LongTypes -> IF opts.useBigIntAsLong THEN {"bigint", "spells number"}
                             ELSE {"Long", "number", "spells number"}
    [] code = "timestamp" -> {"Date", "spells Date", "number", "Long"}
                             \cup (IF opts.useBigIntAsLong THEN {"bigint"} ELSE {})
    [] code = "varint" -> IF opts.useBigIntAsVarint THEN {"bigint", "spells number"}
                          ELSE {"Integer", "number", "spells number"}
    [] code = "date" -> {"LocalDate", "spells LocalDate", "Date"}
    [] code = "time" -> {"LocalTime", "spells LocalTime"}
    [] code = "decimal" -> {"BigDecimal", "spells BigDecimal", "number"}
    [] code \in {"uuid", "timeuuid"} -> {"Uuid", "TimeUuid", "spells Uuid"}
    [] code = "inet" -> {"InetAddress", "spells InetAddress"}
    [] code = "duration" -> {"Duration"}
    [] OTHER -> {}

\* What the driver may bind to a type (the reference).  A collection holds no
\* null, and nothing that encodes to null but as a value of a map.
RECURSIVE Encodable(_, _), Canonical(_, _)
Encodable(x, typeInfo) ==
  LET t == IF typeInfo = NoType THEN GuessDataType(x) ELSE typeInfo
      Present(e) == ~Absent(e) /\ ~(e.js \in {"Array", "Set"} /\ e.v = <<>>)
      Unsettable == opts.version >= 4
  IN CASE x = Unset -> Unsettable
       [] x \in {Null, Undefined} \/ x.js = "Buffer" -> TRUE
       [] t.code \in {"list", "set"} ->
            /\ x.js = "Array" \/ (t.code = "set" /\ opts.set /\ x.js = "Set")
            /\ \A i \in DOMAIN x.v : Present(x.v[i]) /\ Encodable(x.v[i], t.info)
       [] t.code = "map" -> \A pair \in ToSet(Entries(x)) :
            /\ Present(pair[1]) /\ Encodable(pair[1], t.info[1])
            /\ ~Absent(pair[2]) /\ Encodable(pair[2], t.info[2])
       [] t.code = "udt" -> \A i \in DOMAIN t.info :
            Encodable(FieldOf(x, t.info[i].name), t.info[i].type)
       [] t.code = "tuple" -> x.js = "Tuple" /\ t.info # <<>>
            /\ \A i \in DOMAIN t.info \cap DOMAIN x.v : Encodable(x.v[i], t.info[i])
       [] t.code = "vector" -> x.js \in Vectors /\ Len(x.v) = t.info[2]
            /\ \A i \in DOMAIN x.v : Present(x.v[i]) /\ Encodable(x.v[i], t.info[1])
       [] t.code \in {"boolean", "none"} -> t.code = "boolean"
       [] t.code = "tinyint" -> x.js \in Accepted("tinyint") /\ Numeric(x) \in -128..127
       [] t.code = "smallint" -> x.js \in Accepted("smallint") /\ Numeric(x) \in -32768..32767
       [] OTHER -> x.js \in Accepted(t.code)

\* The value an application reads for the one it bound (the reference): the
\* class of the type, null for what is empty or unset, and a field or element
\* the type has got since is undefined.  Without encoding.map a map is an object
\* with the texts of its keys as names, and what was bound as a Map is empty.
Canonical(x, t) ==
  CASE Absent(x) \/ (x.js \in {"Array", "Set"} /\ x.v = <<>>) -> Null
    [] x.js = "Buffer" -> Decode(x, t)
    [] t.code \in {"list", "set"} ->
         JS(IF t.code = "set" /\ opts.set THEN "Set" ELSE "Array",
            [i \in DOMAIN x.v |-> Canonical(x.v[i], t.info)])
    [] t.code = "map" -> MapOf([i \in DOMAIN Entries(x) |->
         <<Canonical(Entries(x)[i][1], t.info[1]), Canonical(Entries(x)[i][2], t.info[2])>>])
    [] t.code = "udt" -> JS("object",
         [n \in {t.info[i].name : i \in {j \in DOMAIN t.info : ~t.info[j].added}} |->
           Canonical(FieldOf(x, n), t.info[CHOOSE i \in DOMAIN t.info : t.info[i].name = n].type)])
    [] t.code = "tuple" -> JS("Tuple",
         [i \in DOMAIN t.info |-> IF i \in DOMAIN x.v THEN Canonical(x.v[i], t.info[i]) ELSE Undefined])
    [] t.code = "vector" -> VectorOf(t.info[1], [i \in DOMAIN x.v |-> Canonical(x.v[i], t.info[1])])
    [] OTHER -> JS(Native(t.code),
                   CASE t.code = "boolean" -> Truthy(x)
                     [] t.code \in DOMAIN IntegerWidth -> Numeric(x)
                     [] t.code = "date" -> Days(x)
                     [] t.code = "decimal" /\ x.js = "number" -> [scale |-> 0, unscaled |-> x.v]
                     [] OTHER -> x.v)

\* A request is refused exactly when a parameter is not of its type.  One
\* that is sent reads back, in every column, as the value that was bound,
\* whatever the lengths of the protocol and nulls inside, also when the type
\* has more fields by then, as the classes the options choose.  Two things are
\* lost without encoding.map, and said in Canonical: the entries of a Map, which
\* encodeMap() takes for an object, and the classes of keys (two keys of one text
\* are then one).
ReadsBackWhatWasBound ==
  /\ bound # <<>> =>
       (bound = <<Throws>> <=> \E i \in DOMAIN params : ~Encodable(params[i].value, Hints[i]))
  /\ row # <<>> => \A i \in DOMAIN row : row[i] = Canonical(params[i].value, params[i].readAs)

\* Parameters that differ give keys that differ: the parts of a composite
\* routing key can be read from it, and a missing part gives no key.
RECURSIVE SplitKey(_)
SplitKey(k) ==
  IF k = <<>> THEN <<>>
  ELSE LET n == IF Len(k) < 2 THEN Len(k) ELSE ReadUInt(SubSeq(k, 1, 2))
       IN IF n + 3 > Len(k) THEN <<Throws>>
          ELSE <<Buffer(SubSeq(k, 3, n + 2))>> \o SplitKey(SubSeq(k, n + 4, Len(k)))

RoutingKeyHoldsItsParts ==
  bound \notin {<<>>, <<Throws>>} =>
    LET key == RoutingKeyFromParams(<<1, 2, 1>>, Hints)
        user == RoutingKeyFromArray(bound)
    IN /\ IF bound[1].js = "Buffer" THEN SplitKey(key.v) = <<bound[1], bound[2], bound[1]>>
          ELSE key = Null
       /\ IF bound[1].js = "Buffer" THEN SplitKey(user.v) = bound ELSE user = Null
       /\ RoutingKeyFromParams(<<1, 0>>, Hints) = Null
       /\ RoutingKeyFromParams(<<2>>, Hints) = bound[2]

=============================================================================

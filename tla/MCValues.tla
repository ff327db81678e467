------------------------------ MODULE MCValues ------------------------------
(***************************************************************************)
(* The values, types and texts that the run of Values goes through.        *)
(***************************************************************************)
EXTENDS Values

\* The constructors of values, types and texts, apart from the sets they make up.
Js == INSTANCE Encoder WITH Samples <- {}
Cql == INSTANCE TypeNames WITH Trees <- {}
Ip == INSTANCE InetAddress WITH Written <- {}

S(code, x) == [type |-> Js!Scalar(code), value |-> x, readAs |-> Js!Scalar(code), hint |-> TRUE]
Of(t, x) == [type |-> t, value |-> x, readAs |-> t, hint |-> TRUE]
Guess(t, x) == [type |-> t, value |-> x, readAs |-> t, hint |-> FALSE]
Grown(t, x, u) == [type |-> t, value |-> x, readAs |-> u, hint |-> TRUE]

N(n) == Js!JS("number", n)
Text(b) == Js!JS("string", b)
Sixteen(k) == [i \in 1..16 |-> k]
Edges == {0, 1, -1, 127, 128, -128, -129, 255, 256, -256, -257, 32767, 32768, -32768, -32769, 8388608, -8388609}

Numbers ==
  {S(code, N(n)) : code \in {"tinyint", "smallint", "int", "bigint", "timestamp", "varint", "double", "float", "decimal"}, n \in Edges}
  \cup {S(code, Js!JS("bigint", n)) : code \in {"bigint", "varint", "timestamp", "int"}, n \in Edges}

Scalars ==
  {S("bigint", Js!JS("Long", -2)), S("int", Js!JS("Long", -2)), S("int", Js!JS("boolean", TRUE)), S("int", Js!JS("spells number", 5)),
   S("varint", Js!JS("Integer", -200)), S("varint", Js!JS("spells number", 200)),
   S("decimal", Js!JS("BigDecimal", [scale |-> -1, unscaled |-> -200])), S("decimal", Js!JS("spells BigDecimal", [scale |-> 2, unscaled |-> 5])),
   S("timestamp", Js!JS("Date", 86400001)), S("timestamp", Js!JS("spells Date", 5)),
   S("date", Js!JS("LocalDate", -1)), S("date", Js!JS("LocalDate", 2147483647)), S("date", Js!JS("Date", -1)), S("date", Js!JS("spells LocalDate", 365)), S("date", N(1)),
   S("time", Js!JS("LocalTime", 7)), S("time", Js!JS("Date", 7)),
   S("uuid", Js!JS("Uuid", Sixteen(3))), S("timeuuid", Js!JS("TimeUuid", Sixteen(4))), S("uuid", Js!JS("spells Uuid", Sixteen(5))), S("uuid", Text(<<65>>)),
   S("inet", Js!JS("InetAddress", <<127, 0, 0, 1>>)), S("inet", Js!JS("spells InetAddress", Sixteen(0))),
   S("duration", Js!JS("Duration", <<0, 0, 2>>)), S("duration", N(1)),
   S("boolean", Js!JS("boolean", FALSE)), S("boolean", N(0)), S("boolean", Text(<<65>>)),
   S("text", Text(<<>>)), S("text", Text(<<104, 105>>)), S("varchar", N(1)), S("ascii", Text(<<65>>)),
   S("blob", Js!Buffer(<<>>)), S("blob", Js!Buffer(<<0, 1>>)), S("blob", Text(<<65>>)), S("int", Js!Buffer(<<0, 0, 1, 0>>)), S("int", Js!Buffer(<<>>)),
   S("custom", Js!Buffer(<<1>>)), S("custom", N(1)),
   S("int", Js!Null), S("text", Js!Undefined), S("int", Js!Unset)}

V(s) == Js!VectorOf(Js!NoType, s)
Guessed ==
  {Guess(Js!Scalar("double"), N(3)), Guess(Js!Scalar("text"), Text(<<65>>)), Guess(Js!Scalar("uuid"), Js!JS("spells Uuid", Sixteen(1))),
   Guess(Js!Scalar("bigint"), Js!JS("Long", 9)), Guess(Js!Scalar("timestamp"), Js!JS("Date", 9)), Guess(Js!Scalar("inet"), Js!JS("InetAddress", <<1, 2, 3, 4>>)),
   Guess(Js!T("tuple", <<Js!Scalar("double")>>), Js!JS("Tuple", <<N(1)>>)),
   Guess(Js!T("list", Js!Scalar("double")), Js!JS("Array", <<N(1), N(2)>>)),
   Guess(Js!T("vector", <<Js!Scalar("double"), 2>>), V(<<N(1), N(2)>>)),
   Guess(Js!T("vector", <<Js!T("list", Js!Scalar("double")), 1>>), V(<<Js!JS("Array", <<N(1)>>)>>)),
   Guess(Js!T("vector", <<Js!Scalar("smallint"), 2>>), Js!VectorOf(Js!Scalar("smallint"), <<N(1), N(-2)>>)),
   Guess(Js!T("vector", <<Js!Scalar("float"), 2>>), Js!JS("Float32Array", <<N(1), N(2)>>)),
   Guess(Js!T("vector", <<Js!Scalar("float"), 0>>), Js!JS("Float32Array", <<>>)),
   Guess(Js!Scalar("int"), Js!JS("bigint", 1))}

IntT == Js!Scalar("int")
TextT == Js!Scalar("text")
A(s) == Js!JS("Array", s)
TextLists == {A(<<>>), A(<<Text(<<>>)>>), A(<<Text(<<65>>), Text(<<>>), Text(<<66, 67>>)>>), A(<<Text(<<65>>), Js!Null>>), A(<<N(1)>>), Text(<<65>>),
          Js!JS("Set", <<Text(<<65>>)>>), A(<<Js!Unset>>)}
Nested == {A(<<A(<<N(1)>>), A(<<N(2), N(3)>>)>>), A(<<A(<<>>), A(<<N(1)>>)>>), A(<<Js!Buffer(<<0, 0, 0, 0>>)>>)}
M(class, pairs) == Js!JS(class, pairs)
MapT == Js!T("map", <<TextT, Js!T("list", IntT)>>)
Maps == {M("object", <<>>), M("object", <<<<Text(<<65>>), A(<<N(1)>>)>>>>),
         M("object", <<<<Text(<<65>>), A(<<>>)>>, <<Text(<<66>>), A(<<N(2)>>)>>>>),
         M("Map", <<<<Text(<<65>>), A(<<N(1)>>)>>, <<Text(<<66>>), A(<<N(2)>>)>>>>), M("Map", <<<<Js!Null, A(<<N(1)>>)>>>>),
         M("object", <<<<Text(<<65>>), Js!Null>>>>), M("object", <<<<Text(<<>>), A(<<N(1)>>)>>>>)}
Keyed == {M("Map", <<<<A(<<N(1)>>), Text(<<65>>)>>>>), M("Map", <<<<A(<<>>), Text(<<65>>)>>>>)}
Spelt(class, n) == Js!JS("spells " \o class, n)
Named == {Of(Js!T("map", <<IntT, TextT>>), M("object", <<<<Spelt("number", 1), Text(<<65>>)>>, <<Spelt("number", 300), Text(<<>>)>>>>)),
          Of(Js!T("map", <<IntT, TextT>>), M("Map", <<<<N(1), Text(<<65>>)>>>>)),
          Of(Js!T("map", <<Js!Scalar("uuid"), IntT>>), M("object", <<<<Spelt("Uuid", Sixteen(1)), N(1)>>, <<Spelt("Uuid", Sixteen(2)), N(2)>>>>)),
          Of(Js!T("map", <<Js!Scalar("timestamp"), IntT>>), M("object", <<<<Spelt("Date", 5001), N(1)>>, <<Spelt("Date", 5002), N(2)>>>>)),
          Of(Js!T("map", <<Js!Scalar("boolean"), IntT>>), M("object", <<<<Text(<<65>>), N(1)>>>>))}
F(n, t, added) == [name |-> n, type |-> t, added |-> added]
Udt == Js!T("udt", <<F("a", IntT, FALSE), F("b", TextT, FALSE), F("l", Js!T("list", IntT), FALSE)>>)
UdtGrown == Js!T("udt", <<F("a", IntT, FALSE), F("b", TextT, FALSE), F("l", Js!T("list", IntT), FALSE), F("z", IntT, TRUE)>>)
O(f) == Js!JS("object", f)
Objects == {O([a |-> N(1), b |-> Text(<<>>), l |-> A(<<N(1)>>)]), O([a |-> N(1)]), O([b |-> Text(<<65>>), l |-> A(<<>>)]), O([a |-> Js!Unset, l |-> A(<<N(4)>>)]),
            O([a |-> Text(<<65>>)])}
TupleT == Js!T("tuple", <<IntT, TextT, IntT>>)
Tuples == {Js!JS("Tuple", <<N(1)>>), Js!JS("Tuple", <<Js!Null, Text(<<>>), N(2)>>), Js!JS("Tuple", <<Js!Undefined, Text(<<65>>)>>), A(<<N(1)>>),
           Js!JS("Tuple", <<N(1), Text(<<65>>), N(2), N(3)>>)}
Vectors == {Of(Js!T("vector", <<IntT, 2>>), V(<<N(1), N(2)>>)), Of(Js!T("vector", <<IntT, 2>>), V(<<N(1)>>)), Of(Js!T("vector", <<IntT, 1>>), V(<<Js!Null>>)),
            Of(Js!T("vector", <<TextT, 2>>), V(<<Text(<<>>), Text([i \in 1..200 |-> 65])>>)),
            Of(Js!T("vector", <<Js!Scalar("smallint"), 2>>), V(<<N(1), N(-2)>>)),
            Of(Js!T("vector", <<Js!T("vector", <<IntT, 2>>), 2>>), V(<<V(<<N(1), N(2)>>), V(<<N(3), N(4)>>)>>)),
            Of(Js!T("vector", <<Js!T("vector", <<TextT, 1>>), 2>>), V(<<V(<<Text(<<65>>)>>), V(<<Text(<<>>)>>)>>)),
            Of(Js!T("vector", <<Js!T("list", IntT), 1>>), V(<<A(<<>>)>>)), Of(Js!T("vector", <<IntT, 1>>), A(<<N(1)>>))}

Compound ==
  {Of(Js!T(c, TextT), x) : c \in {"list", "set"}, x \in TextLists}
  \cup {Of(Js!T("list", Js!T("list", IntT)), x) : x \in Nested}
  \cup {Of(MapT, x) : x \in Maps}
  \cup {Of(Js!T("map", <<Js!T("list", IntT), TextT>>), x) : x \in Keyed}
  \cup {Of(Udt, x) : x \in Objects} \cup {Grown(Udt, x, UdtGrown) : x \in Objects}
  \cup {Of(TupleT, x) : x \in Tuples} \cup {Grown(Js!T("tuple", <<IntT>>), x, TupleT) : x \in {Js!JS("Tuple", <<N(1)>>)}}
  \cup Vectors \cup Named

MCSamples == Numbers \cup Scalars \cup Guessed \cup Compound
Leaves == {Cql!Simple("int"), Cql!Simple("text"), Cql!Type("custom", <<>>, <<"long custom">>, FALSE), Cql!Udts.address, Cql!Udts.listing}
Over(inner) ==
  {Cql!Type(c, <<t>>, <<>>, f) : c \in {"list", "set", "tuple"}, t \in inner, f \in BOOLEAN}
  \cup {Cql!Type("map", <<Cql!Simple("int"), t>>, <<>>, FALSE) : t \in inner}
  \cup {Cql!Type("tuple", <<t, Cql!Simple("text")>>, <<>>, FALSE) : t \in inner}
  \cup {Cql!Type("vector", <<t>>, <<"2">>, FALSE) : t \in inner}
MCTrees == LET one == Over(Leaves)
           IN Leaves \cup one \cup Over({t \in one : t.code # "tuple"}) \cup {[t EXCEPT !.reversed = TRUE] : t \in one}
MCNanosPer == <<2048, 256, 64, 16, 4, 1>>

MCOperands == {0, 1, -1, 2, 3, -3, 17, 63, 64, -65, 127, 128, -128, -129, 255, 256, -256, -257,
               777, 4095, -4096, 32767, 32768, -32769, 65535, 65536, -65536}

MCYears == {-271822, -271821, -4, -1, 0, 1600, 1900, 1970, 2000, 2023, 2024, 275760, 275761}
MCDayCounts == {-1073741824, 1073741823, 100000000, 100000001, -100000000, -100000001,
                0, -1, 1, 59, 60, -719528, -719162, -719163, 11016, 47540, 47541}

MCTexts == [parts : UNION {[1..n -> {-1, 0, 1, 2, 3}] : n \in 1..4},
            fraction : {<<>>, <<0>>, <<9>>, <<0, 9>>, <<9, 0>>, <<1, 9>>, <<0, 0>>, <<1, 2, 3>>}]
MCInstants == -30..60

\* 10^6, between the scales -1 and 5, takes one bit more than a number holds.
MCUnscaled == {0, 1, -1, 9, 10, -10, 99, 100, -100, 987}
MCScales == (-1..3) \union {5}

\* Texts of one to nine groups, with "::" at any place, and with an embedded
\* version 4 address.
Spell(n) == [i \in 1..(IF n = 0 THEN 0 ELSE 2 * n - 1) |-> IF i % 2 = 1 THEN Ip!Group(7) ELSE Ip!Colon]
Gap == <<Ip!Colon, Ip!Colon>>
Mapped == <<Ip!Group(65535), Ip!Colon, Ip!Ip4(513, 2)>>
MCWritten ==
  {Spell(n) : n \in 1..9}
  \cup {Spell(n) \o Gap \o Spell(k) : n \in 0..4, k \in 0..5}
  \cup {Spell(n) \o Gap \o <<Ip!Ip4(513, 2)>> : n \in 0..6}
  \cup {Gap \o Mapped, Spell(1) \o Gap \o Mapped}
=============================================================================

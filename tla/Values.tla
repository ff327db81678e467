------------------------------- MODULE Values -------------------------------
(***************************************************************************)
(* The values a program binds and reads: the codec of parameters and rows, *)
(* the names of types, and the classes of values that JavaScript has no    *)
(* type for.  None of them calls into another while it works, so a         *)
(* behaviour is that of one part; the others stay idle.                    *)
(***************************************************************************)
EXTENDS Integers, Sequences, TimeUuid

CONSTANTS
  Samples,                                                    \* Encoder
  Trees,                                                      \* TypeNames
  ByteBits, NanosPer, Amounts, MaxParts,                      \* Duration
  Half, Precision, Operands, Limit, MaxOps,                   \* Integer, and BigDecimal's numbers
  Years, DayCounts, EsLimit, DateCenter,                      \* LocalDate
  Hours, Minutes, Seconds, MilliDigits, NanoDigits, Texts, Instants,   \* LocalTime
  Unscaled, Scales,                                           \* BigDecimal
  Groups, Written, Junk                                       \* InetAddress

VARIABLES
  part,                                                       \* the part that works
  opts, params, bound, page, row,                             \* Encoder
  tree, read,                                                 \* TypeNames
  phase, format, builder, parts, duration, reusable, wire,    \* Duration
  obj, val, ops,                                              \* Integer
  input, made                                                 \* LocalDate to InetAddress

Codec == INSTANCE Encoder
Names == INSTANCE TypeNames
Durations == INSTANCE Duration
Ints == INSTANCE Integer
Date == INSTANCE LocalDate
Time == INSTANCE LocalTime
Decimal == INSTANCE BigDecimal
Inet == INSTANCE InetAddress

encoder == <<opts, params, bound, page, row>>
names == <<tree, read>>
durations == <<phase, format, builder, parts, duration, reusable, wire>>
integers == <<obj, val, ops>>
texts == <<input, made>>

valuesVars == <<part, encoder, names, durations, integers, texts, timeUuidVars>>

NoEncoder == opts = 0 /\ params = 0 /\ bound = 0 /\ page = 0 /\ row = 0
NoNames == tree = 0 /\ read = 0
NoDurations == /\ phase = 0 /\ format = 0 /\ builder = 0 /\ parts = 0
               /\ duration = 0 /\ reusable = 0 /\ wire = 0
NoIntegers == obj = 0 /\ val = 0 /\ ops = 0
NoTexts == input = 0 /\ made = 0
NoTimeUuids == /\ now = 0 /\ ticks = 0 /\ ticksForCurrentTime = 0 /\ lastTimestamp = 0
               /\ timestampTicks = 0 /\ uuids = <<>> /\ stamps = <<>>

ValuesInit ==
  /\ part \in {"encoder", "names", "durations", "integers", "dates", "times", "decimals", "inet", "uuids"}
  /\ IF part = "encoder" THEN Codec!EncoderInit ELSE NoEncoder
  /\ IF part = "names" THEN Names!TypeNamesInit ELSE NoNames
  /\ IF part = "durations" THEN Durations!DurationInit ELSE NoDurations
  /\ IF part = "integers" THEN Ints!IntegerInit ELSE NoIntegers
  /\ CASE part = "dates" -> Date!LocalDateInit
       [] part = "times" -> Time!LocalTimeInit
       [] part = "decimals" -> Decimal!DecimalInit
       [] part = "inet" -> Inet!InetInit
       [] OTHER -> NoTexts
  /\ IF part = "uuids" THEN TimeUuidInit ELSE NoTimeUuids

ValuesNext ==
  /\ UNCHANGED part
  /\ \/ part = "encoder" /\ Codec!EncoderNext /\ UNCHANGED <<names, durations, integers, texts, timeUuidVars>>
     \/ part = "names" /\ Names!TypeNamesNext /\ UNCHANGED <<encoder, durations, integers, texts, timeUuidVars>>
     \/ part = "durations" /\ Durations!DurationNext /\ UNCHANGED <<encoder, names, integers, texts, timeUuidVars>>
     \/ part = "integers" /\ Ints!IntegerNext /\ UNCHANGED <<encoder, names, durations, texts, timeUuidVars>>
     \/ part = "uuids" /\ TimeUuidNext /\ UNCHANGED <<encoder, names, durations, integers, texts>>
     \/ /\ \/ part = "dates" /\ Date!Make
           \/ part = "times" /\ Time!Make
           \/ part = "decimals" /\ Decimal!Compute
           \/ part = "inet" /\ Inet!InetNext
        /\ UNCHANGED <<encoder, names, durations, integers, timeUuidVars>>

ValuesSpec == ValuesInit /\ [][ValuesNext]_valuesVars
-----------------------------------------------------------------------------
(* A row that the server stores from the bound parameters decodes to what  *)
(* was bound, for all types, nulls and unset values and with either map    *)
(* and set option, up to the losses Encoder names (a Map bound without     *)
(* encoding.map, the keys of a map read as an object)                      *)
(* (lib/encoder.js:1110-1423, 2238-2396): see Encoder.                     *)
ReadsBackWhatWasBound == part = "encoder" => Codec!ReadsBackWhatWasBound

(* The routing key made of the bound parameters splits into the bytes of   *)
(* its columns (lib/encoder.js:1464-1612, 2490-2509): see Encoder.         *)
RoutingKeyHoldsItsParts == part = "encoder" => Codec!RoutingKeyHoldsItsParts

(* Each spelling of a type that the driver reads gives that type           *)
(* (lib/encoder.js:1627-2114): see TypeNames.                              *)
NamesKeepTheirType == part = "names" => Names!NamesKeepTheirType

(* A text makes the duration it spells or is refused, and a duration is    *)
(* read back from its text and its bytes (lib/types/duration.js:60-613):   *)
(* see Duration.                                                           *)
DurationsExact == part = "durations" => Durations!ParsesExactly /\ Durations!DurationRoundTrips

(* Integers of any size compute as integers do (lib/types/integer.js): see *)
(* Integer.                                                                *)
IntegersExact == part = "integers" => Ints!IntegerIsExact

(* Dates, times, decimals and addresses keep what they are made of, refuse *)
(* the texts they cannot hold and are read back from the text they print,  *)
(* with the limits each module names (lib/types/local-date.js,             *)
(* local-time.ts, big-decimal.ts, inet-address.ts): see LocalDate,         *)
(* LocalTime, BigDecimal and InetAddress.                                  *)
TextsReadBack ==
  /\ part = "dates" => Date!LocalDateExact
  /\ part = "times" => Time!LocalTimeExact
  /\ part = "decimals" => Decimal!DecimalExact
  /\ part = "inet" => Inet!AddressesReadBack

(* The text of an address stands for that address                          *)
(* (lib/types/inet-address.ts:171-178): see InetAddress.                   *)
AddressTextReadsBack == part = "inet" => Inet!ReadBack
=============================================================================

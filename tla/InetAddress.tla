---------------------------- MODULE InetAddress ----------------------------
(***************************************************************************)
(* Version 6 addresses (lib/types/inet-address.ts): eight groups, printed  *)
(* with a run of groups of zero left out, and read from texts that may end *)
(* in a version 4 address.  A text is a sequence of tokens.                *)
(***************************************************************************)
EXTENDS Integers, Sequences, SequencesExt

CONSTANTS
  Groups,     \* the values of a group of a printed address
  Written,    \* texts that a user writes
  Junk        \* what uninitialized memory may hold

VARIABLES
  input,   \* an address to print, or a text to read
  made     \* <<the text, or the address>>, once done

inetVars == <<input, made>>

Colon == [t |-> ":", v |-> <<>>]
Group(w) == [t |-> "x", v |-> <<w>>]
Ip4(hi, lo) == [t |-> "d.d.d.d", v |-> <<hi, lo>>]

\* checkLongest(): a run of zeros ends in front of group i.
CheckLongest(run, i) ==
  IF run.start >= 0 /\ i - run.start > run.length
    THEN [start |-> -1, length |-> i - run.start, longest |-> run.start]
    ELSE run

\* toString()
Longest(address) ==
  LET Step(run, i) ==
        IF address[i + 1] # 0 THEN CheckLongest(run, i)
        ELSE LET open == IF run.start < 0 THEN [run EXCEPT !.start = i] ELSE run
             IN IF i = 7 THEN CheckLongest(open, 8) ELSE open
  IN FoldLeft(Step, [start |-> -1, length |-> 0, longest |-> -1], [i \in 1..8 |-> i - 1])

AddressToString(address) ==
  LET run == Longest(address)
      Step(text, h) ==
        CASE h = run.longest -> Append(text, Colon)
          [] h > run.longest /\ h < run.longest + run.length -> text
          [] OTHER -> (IF text # <<>> THEN Append(text, Colon) ELSE text) \o <<Group(address[h + 1])>>
      text == FoldLeft(Step, <<>>, [i \in 1..8 |-> i - 1])
  IN IF Last(text).t = ":" THEN Append(text, Colon) ELSE text

\* split(":"): the items between colons, some of them empty.
Items(text) ==
  LET cuts == <<0>> \o SelectSeq([i \in DOMAIN text |-> i], LAMBDA i : text[i].t = ":") \o <<Len(text) + 1>>
  IN [i \in 1..(Len(cuts) - 1) |-> SubSeq(text, cuts[i] + 1, cuts[i + 1] - 1)]

Throws == [failed |-> TRUE, groups |-> <<>>]

\* (fault) An embedded address counts as one group.
Filling_NoIp4(items) == 8 - Len(items) + 1

\* The groups that "::" stands for.
Filling(items) ==
  8 - Len(items) + 1 - (IF Last(items) # <<>> /\ Last(items)[1].t = "d.d.d.d" THEN 1 ELSE 0)

\* fromString(): groups beyond the buffer fail to be written, zeros beyond
\* it are lost, and groups that nothing is written to hold what was there.
AddressFromString(text, junk) ==
  LET items == Items(text)
      Step(b, i) ==
        LET item == items[i]
            zeros == IF b.applied THEN 1 ELSE Filling(items)
            Room(n) == Len(b.groups) + n <= 8
        IN IF item = <<>>
             THEN [b EXCEPT !.applied = TRUE, !.groups = @ \o [k \in 1..zeros |-> 0]]
             ELSE [b EXCEPT !.failed = @ \/ ~Room(Len(item[1].v)), !.groups = @ \o item[1].v]
      b == FoldLeft(Step, [failed |-> FALSE, applied |-> FALSE, groups |-> <<>>],
                    [i \in DOMAIN items |-> i])
      groups == [i \in 1..8 |-> IF i <= Len(b.groups) THEN b.groups[i] ELSE junk]
      mapped == (\A i \in 1..5 : groups[i] = 0) /\ groups[6] = 65535
  IN IF \/ Len(items) < 3 \/ b.failed
        \/ Last(text).t = "d.d.d.d" /\ ~mapped
       THEN Throws ELSE [failed |-> FALSE, groups |-> groups]
-----------------------------------------------------------------------------
InetInit ==
  /\ \/ \E address \in [1..8 -> Groups] : input = [by |-> "address", address |-> address]
     \/ \E text \in Written : input = [by |-> "text", text |-> text]
  /\ made = <<>>

PrintAddress ==
  /\ input.by = "address" /\ made = <<>>
  /\ made' = <<AddressToString(input.address)>>
  /\ UNCHANGED input

ReadAddress ==
  /\ input.by = "text" /\ made = <<>>
  /\ \E junk \in Junk : made' = <<AddressFromString(input.text, junk)>>
  /\ UNCHANGED input

InetNext == PrintAddress \/ ReadAddress

(* The text printed for an address is read back as that address.           *)
(* (lib/types/inet-address.ts:171-178: "a string in the form of            *)
(* x:x:x:x:x:x:x:x is returned, where the 'x's are the hexadecimal values  *)
(* of the eight 16-bit pieces of the address")                             *)
ReadBack == input.by = "address" =>
              \A text \in ToSet(made), junk \in Junk :
                AddressFromString(text, junk) = [failed |-> FALSE, groups |-> input.address]

\* (reference) Where the runs of zeros of an address begin, and where they end.
Runs(address) ==
  {r \in (1..8) \X (1..8) :
     /\ r[1] <= r[2] /\ \A i \in r[1]..r[2] : address[i] = 0
     /\ r[1] > 1 => address[r[1] - 1] # 0
     /\ r[2] < 8 => address[r[2] + 1] # 0}

\* (reference) What a text with one "::" at most stands for: all eight groups
\* are there, or zeros take the place of the missing ones.
Spelled(text) ==
  LET Values(tokens) == FlattenSeq([i \in DOMAIN tokens |-> tokens[i].v])
      gap == {i \in 1..(Len(text) - 1) : text[i].t = ":" /\ text[i + 1].t = ":"}
      at == CHOOSE i \in gap : TRUE
      before == Values(SubSeq(text, 1, at))
      after == Values(SubSeq(text, at, Len(text)))
  IN IF gap = {} THEN Values(text)
     ELSE before \o [i \in 1..(8 - Len(before) - Len(after)) |-> 0] \o after

(* An address prints as a text that is read back as itself, unless a run   *)
(* of zeros follows another one that is as long, or longer; and a text     *)
(* that spells eight groups, written out, with "::" or with an embedded    *)
(* version 4 address, is read as those groups, or refused when only a      *)
(* mapped address may embed one.  (lib/types/inet-address.ts:77-141,       *)
(* 180-265)                                                                *)
AddressesReadBack ==
  /\ (input.by = "address" /\ \A r, q \in Runs(input.address) :
                                 r[1] < q[1] => r[2] - r[1] < q[2] - q[1]) => ReadBack
  /\ input.by = "text" /\ Len(Spelled(input.text)) = 8 =>
       \A address \in ToSet(made) :
         IF Last(input.text).t = "d.d.d.d" /\ SubSeq(Spelled(input.text), 1, 6) # <<0, 0, 0, 0, 0, 65535>>
           THEN address.failed
           ELSE address = [failed |-> FALSE, groups |-> Spelled(input.text)]
=============================================================================

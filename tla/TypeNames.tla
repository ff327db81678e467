----------------------------- MODULE TypeNames -----------------------------
(***************************************************************************)
(* The names of CQL types and the three readers of them: parseFqTypeName() *)
(* for the Java class names of a cluster, parseTypeName() for the names of *)
(* its schema tables, both of lib/encoder.js, and getByName() of           *)
(* lib/types/index.js for the hints of an application.  A name is a        *)
(* sequence of words and signs.                                            *)
(***************************************************************************)
EXTENDS Integers, Sequences, FiniteSets, SequencesExt

CONSTANT Trees       \* the types of a run

VARIABLES
  tree,    \* the type whose names are read
  read     \* what the readers made of them so far

typeNameVars == <<tree, read>>

\* A type: the types inside, the names of a UDT and its fields or the
\* dimension of a vector, and its options.
Type(code, args, names, frozen) ==
  [code |-> code, args |-> args, names |-> names, frozen |-> frozen, reversed |-> FALSE]
Simple(code) == Type(code, <<>>, <<>>, FALSE)
Invalid == Simple("throws")
SingleTypes == {"int", "text", "duration"}
Digits == {"2", "3"}

\* A reader fails when it fails on a type inside.
Sound(t) == IF \E i \in DOMAIN t.args : t.args[i] = Invalid THEN Invalid ELSE t

\* The part between the signs that follow a word, and the word itself.
Inner(name) == SubSeq(name, 3, Len(name) - 1)
Begins(name, words) == name # <<>> /\ name[1] \in words

\* (fault) Every comma separates.
ParseParams_EveryComma(name, open, close) ==
  LET cuts == SetToSortSeq({i \in DOMAIN name : name[i] = ","} \cup {0, Len(name) + 1}, <)
  IN [k \in 1..(Len(cuts) - 1) |-> SubSeq(name, cuts[k] + 1, cuts[k + 1] - 1)]

\* parseParams() and splitTypeArgs(): the parts at the commas that no pair of
\* these signs surrounds.
ParseParams(name, open, close) ==
  LET Count(sign, i) == Cardinality({j \in 1..i : name[j] = sign})
      commas == {i \in DOMAIN name : name[i] = "," /\ Count(open, i) = Count(close, i)}
      cuts == SetToSortSeq(commas \cup {0, Len(name) + 1}, <)
  IN [k \in 1..(Len(cuts) - 1) |-> SubSeq(name, cuts[k] + 1, cuts[k + 1] - 1)]

\* How many parameters a type has: 0 stands for one or more.
Arity == [list |-> 1, set |-> 1, map |-> 2, tuple |-> 0]
RightArity(code, n) == IF Arity[code] = 0 THEN n >= 1 ELSE n = Arity[code]

-----------------------------------------------------------------------------
(* Class names.                                                            *)

\* parseVectorTypeArgs() counts from the start of the whole name: it is lost
\* in a name that does not begin with the vector.
RECURSIVE ParseFqTypeName(_, _)

\* #parseUdtName(): keyspace, name, then fields as name, colon and type.
ParseUdtName(params, frozen) ==
  LET fields == SubSeq(params, 3, Len(params))
  IN IF Len(params) < 2 THEN Invalid
     ELSE Type("udt", [i \in DOMAIN fields |->
                         ParseFqTypeName(SubSeq(fields[i], 3, Len(fields[i])), TRUE)],
               <<params[2][1]>> \o [i \in DOMAIN fields |-> fields[i][1]], frozen)

\* parseFqTypeName(); inside is true when the name is the end of another.
ParseFqTypeName(whole, inside) ==
  LET reversed == Begins(whole, {"reversed"})
      name1 == IF reversed THEN Inner(whole) ELSE whole
      frozen == Begins(name1, {"frozen"})
      name == IF frozen THEN Inner(name1) ELSE name1
      params == ParseParams(Inner(name), "(", ")")
      Read(p) == ParseFqTypeName(p, FALSE)
      code == IF name = <<>> THEN "none" ELSE name[1]
      found ==
        CASE Len(name) = 1 ->
               IF code \in SingleTypes THEN Type(code, <<>>, <<>>, frozen)
               ELSE IF code = "long custom" THEN Type("custom", <<>>, <<code>>, frozen)
               ELSE Invalid
          [] code \in DOMAIN Arity ->
               IF RightArity(code, Len(params))
                 THEN Type(code, [i \in DOMAIN params |-> Read(params[i])], <<>>, frozen)
                 ELSE Invalid
          [] code = "udt" -> ParseUdtName(params, frozen)
          [] code = "vector" ->
               IF reversed \/ frozen \/ inside \/ Len(params) # 2 THEN Invalid
               ELSE Type("vector", <<Read(params[1])>>, params[2], frozen)
          [] OTHER -> Invalid
  IN Sound([found EXCEPT !.reversed = reversed /\ found # Invalid])

\* parseKeyTypes(): the types of a key, split at the commas outside of types;
\* a collection of the columns at the end is opened and its names dropped.
ParseKeyTypes(name) ==
  LET composite == Begins(name, {"composite"})
      body == IF composite THEN Inner(name) ELSE name
      parts == ParseParams(body, "(", ")")
      Named(f) == SubSeq(f, 3, Len(f))
      Columns(fs) == [i \in DOMAIN fs |-> Named(fs[i])]
      Opened(p) == IF Begins(p, {"collection"}) THEN Columns(ParseParams(Inner(p), "(", ")"))
                   ELSE <<p>>
      names == FlattenSeq([i \in DOMAIN parts |-> Opened(parts[i])])
  IN [types |-> [i \in DOMAIN names |-> ParseFqTypeName(names[i], FALSE)],
      hasCollections |-> \E i \in DOMAIN parts : Begins(parts[i], {"collection"}),
      isComposite |-> composite]

-----------------------------------------------------------------------------
(* Names of the schema tables.                                             *)

\* The types of the keyspace, and the names among them that begin with the
\* letters of a keyword: the keyword is recognised by its letters alone.
Udts == [address |-> Type("udt", <<Simple("int"), Simple("text")>>, <<"address", "f", "g">>, FALSE),
         listing |-> Type("udt", <<Simple("int")>>, <<"listing", "f">>, FALSE)]
Keyword(word) == IF word = "listing" THEN "list" ELSE word

RECURSIVE ParseTypeName(_, _)
ParseTypeName(whole, resolver) ==
  LET frozen == Begins(whole, {"frozen"})
      name == IF frozen THEN Inner(whole) ELSE whole
      code == IF name = <<>> THEN "none" ELSE Keyword(name[1])
      params == ParseParams(Inner(name), "<", ">")
      \* not from the start of the vector, and not by its own signs
      vector == ParseParams(Inner(whole), "(", ")")
  IN Sound(
       CASE Begins(whole, {"'"}) -> Type("custom", <<>>, SubSeq(whole, 2, Len(whole) - 1), FALSE)
         [] code \in DOMAIN Arity ->
              IF RightArity(code, Len(params))
                THEN Type(code, [i \in DOMAIN params |-> ParseTypeName(params[i], resolver)], <<>>, frozen)
                ELSE Invalid
         [] code = "vector" ->
              IF Len(vector) # 2 THEN Invalid
              ELSE Type("vector", <<ParseTypeName(vector[1], FALSE)>>, SubSeq(vector[2], 1, 1), FALSE)
         [] code \in SingleTypes -> Simple(code)
         [] code \in DOMAIN Udts /\ resolver -> [Udts[code] EXCEPT !.frozen = frozen]
         [] OTHER -> Invalid)

-----------------------------------------------------------------------------
(* Hints.                                                                  *)

RECURSIVE GetByName(_)
GetByName(name) ==
  LET args == ParseParams(Inner(name), "<", ">")
      code == IF name = <<>> THEN "none" ELSE name[1]
      closed == Len(name) > 3 /\ name[2] = "<" /\ Last(name) = ">"
      Read(n) == [i \in 1..n |-> GetByName(args[i])]
  IN Sound(
       CASE closed /\ code \in {"list", "set"} -> Type(code, <<GetByName(Inner(name))>>, <<>>, FALSE)
         [] closed /\ code = "map" /\ Len(args) = 2 -> Type(code, Read(2), <<>>, FALSE)
         [] closed /\ code = "udt" -> Type(code, <<>>, Inner(name), FALSE)
         [] closed /\ code = "tuple" -> Type(code, Read(Len(args)), <<>>, FALSE)
         [] closed /\ code = "vector" /\ Len(args) = 2 /\ Len(args[2]) = 1 /\ args[2][1] \in Digits ->
              Type(code, Read(1), args[2], FALSE)
         [] Len(name) = 1 /\ code \in SingleTypes -> Simple(code)
         [] OTHER -> Invalid)

\* getDataTypeNameByCode(), with the separators of the three kinds of names.
RECURSIVE NameOf(_, _)
NameOf(t, kind) ==
  LET open == IF kind = "class" THEN "(" ELSE "<"
      close == IF kind = "class" THEN ")" ELSE ">"
      In(word, inner) == <<word, open>> \o inner \o <<close>>
      Commas(parts) == FoldLeft(LAMBDA a, p : IF a = <<>> THEN p ELSE a \o <<",">> \o p, <<>>, parts)
      args == [i \in DOMAIN t.args |-> NameOf(t.args[i], kind)]
      fields == [i \in DOMAIN args |-> <<t.names[i + 1], ":">> \o args[i]]
      plain == CASE t.code = "udt" /\ kind = "class" -> In("udt", Commas(<<<<"ks">>, <<t.names[1]>>>> \o fields))
                 [] t.code = "udt" -> <<t.names[1]>>
                 [] t.code = "custom" -> IF kind = "schema" THEN <<"'">> \o t.names \o <<"'">> ELSE t.names
                 [] t.code = "vector" -> In("vector", Commas(<<args[1], t.names>>))
                 [] args = <<>> -> <<t.code>>
                 [] OTHER -> In(t.code, Commas(args))
      thawed == IF t.frozen /\ kind # "hint" THEN In("frozen", plain) ELSE plain
  IN IF t.reversed /\ kind = "class" THEN In("reversed", thawed) ELSE thawed

-----------------------------------------------------------------------------

\* Without the options, which a hint does not have.
RECURSIVE Bare(_)
Bare(t) == Type(t.code, [i \in DOMAIN t.args |-> Bare(t.args[i])], t.names, FALSE)

RECURSIVE Holds(_, _)
Holds(t, code) == t.code = code \/ \E i \in DOMAIN t.args : Holds(t.args[i], code)

TypeNamesInit == tree \in Trees /\ read = [k \in {} |-> Invalid]

ReadBy(kind, t) ==
  /\ kind \notin DOMAIN read
  /\ read' = [k \in DOMAIN read \cup {kind} |-> IF k = kind THEN t ELSE read[k]]
  /\ UNCHANGED tree

TypeNamesNext ==
  \/ ReadBy("class", ParseFqTypeName(NameOf(tree, "class"), FALSE))
  \/ ~tree.reversed /\ ReadBy("schema", ParseTypeName(NameOf(tree, "schema"), TRUE))
  \/ ~Holds(tree, "custom") /\ ReadBy("hint", GetByName(NameOf(tree, "hint")))
  \/ ReadBy("key", LET k == ParseKeyTypes(<<"composite", "(">> \o NameOf(tree, "class")
                                          \o <<",", "collection", "(", "f", ":">>
                                          \o NameOf(tree, "class") \o <<")", ")">>)
                   IN Sound(Type("key", k.types, <<>>, k.hasCollections /\ k.isComposite)))

\* A reader makes of a name the type that has it or refuses the name; it
\* never takes one type for another.  Class names without a vector inside
\* are all read, by parseKeyTypes() too, and so are hints without a UDT.
NamesKeepTheirType ==
  /\ \A k \in DOMAIN read : read[k] # Invalid =>
       read[k] = CASE k \in {"class", "schema"} -> tree
                   [] k = "hint" -> Bare(tree)
                   [] k = "key" -> Type("key", <<tree, tree>>, <<>>, TRUE)
  /\ \A k \in DOMAIN read \cap {"class", "key"} : ~Holds(tree, "vector") => read[k] # Invalid
  /\ "hint" \in DOMAIN read /\ ~Holds(tree, "udt") => read["hint"] # Invalid

=============================================================================

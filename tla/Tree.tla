-------------------------------- MODULE Tree --------------------------------
(***************************************************************************)
(* lib/mapping/tree.js: the radix tree that holds the mapper's caches.  A  *)
(* key is a sequence of words (what the generators of cache.js yield), a   *)
(* node holds a run of words, a value (0 is null) and the numbers of its   *)
(* edges; node 1 is the root.  A value is the number of the valueHandler() *)
(* call that made it, so two equal values are one cache item.              *)
(***************************************************************************)
EXTENDS Naturals, Sequences, SequencesExt, FiniteSets

CONSTANT Keys    \* the keys looked up

VARIABLES
    nodes,       \* [key, value, edges] by node number
    length,      \* Tree.length, what the "add" event reports
    made,        \* number of valueHandler() calls
    found        \* every <<key, value>> getOrCreate() returned

treeVars == <<nodes, length, made, found>>

TreeInit ==
    /\ nodes = << [key |-> <<>>, value |-> 0, edges |-> <<>>] >>
    /\ length = 0 /\ made = 0 /\ found = {}

\* How many words of the node's key, from its second on, the item's words follow.
Follows(key, words) ==
    LET fits(m) == /\ m <= Len(words) /\ m < Len(key)
                   /\ \A i \in 1..m : key[i + 1] = words[i]
    IN CHOOSE m \in 0..Len(words) :
          fits(m) /\ \A k \in (m + 1)..Len(words) : ~fits(k)

\* The node the words stop at, and the words left over there.
RECURSIVE Descend(_, _)
Descend(n, words) ==
    LET m    == IF nodes[n].key = <<>> THEN 0 ELSE Follows(nodes[n].key, words)
        rest == SubSeq(words, m + 1, Len(words))
        next == SelectSeq(nodes[n].edges,
                          LAMBDA e : rest # <<>> /\ nodes[e].key[1] = rest[1])
        whole == nodes[n].key = <<>> \/ m = Len(nodes[n].key) - 1
    IN IF whole /\ next # <<>>
       THEN Descend(next[1], Tail(rest))
       ELSE [node |-> n, at |-> m + 1, split |-> ~whole, rest |-> rest]

\* (fault) The moved value is left behind on the shortened node.
CreateBranch_KeepsValue(ns, n, index, value) ==
    Append([ns EXCEPT ![n] = [key |-> SubSeq(@.key, 1, index),
                              value |-> IF value = 0 THEN @.value ELSE value,
                              edges |-> <<Len(ns) + 1>>]],
           [ns[n] EXCEPT !.key = SubSeq(@, index + 1, Len(@))])

\* #createBranch(): the node keeps the words before index and hands its other
\* words, its value and its edges to a new node below it.
CreateBranch(ns, n, index, value) ==
    Append([ns EXCEPT ![n] = [key |-> SubSeq(@.key, 1, index), value |-> value,
                              edges |-> <<Len(ns) + 1>>]],
           [ns[n] EXCEPT !.key = SubSeq(@, index + 1, Len(@))])

AddLeaf(ns, n, words, value) ==
    Append([ns EXCEPT ![n].edges = Append(@, Len(ns) + 1)],
           [key |-> words, value |-> value, edges |-> <<>>])

\* getOrCreate(): a value of its own for every key; an inner node that a key
\* ends at gets its value without an "add" event, and so without being counted.
GetOrCreate(words) ==
    LET d     == Descend(1, words)
        fresh == made + 1
        split == CreateBranch(nodes, d.node, d.at, IF d.rest = <<>> THEN fresh ELSE 0)
        lazy  == ~d.split /\ d.rest = <<>> /\ nodes[d.node].value = 0
                 /\ nodes[d.node].edges # <<>>
        value == IF d.rest = <<>> /\ ~d.split /\ ~lazy THEN nodes[d.node].value ELSE fresh
    IN /\ nodes' = CASE d.split /\ d.rest = <<>> -> split
                     [] d.split  -> AddLeaf(split, d.node, d.rest, fresh)
                     [] lazy     -> [nodes EXCEPT ![d.node].value = fresh]
                     [] d.rest = <<>> -> nodes
                     [] OTHER    -> AddLeaf(nodes, d.node, d.rest, fresh)
       /\ made' = IF value = fresh THEN fresh ELSE made
       /\ length' = IF value = fresh /\ ~lazy THEN length + 1 ELSE length
       /\ found' = found \cup {<<words, value>>}

TreeNext == \E words \in Keys : GetOrCreate(words)
TreeSpec == TreeInit /\ [][TreeNext]_treeVars

(***************************************************************************)
(* Whatever branching the lookups before it caused, a key is always        *)
(* answered with the cache item it was first answered with, two keys never *)
(* share one, and length never counts an item twice (it may miss one).     *)
(* Only the empty key, on a tree without edges, is answered with null.     *)
(***************************************************************************)
TreeIsAMap ==
    /\ \A f, g \in found : f[2] # 0 =>
          (f[1] = g[1] <=> f[2] = g[2]) \/ (f[1] = <<>> /\ g = <<<<>>, 0>>)
    /\ \A f \in found : f[2] = 0 => f[1] = <<>>
    /\ length <= made
    /\ made = Cardinality({f[2] : f \in found} \ {0})
=============================================================================

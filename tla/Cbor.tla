-------------------------------- MODULE Cbor --------------------------------
(***************************************************************************)
(* CBOR values as ciborium decodes them, and the functions of serial.rs    *)
(* over them.  A value is a record: t its type, n its number (of an int),  *)
(* its name (of a text), its length (of a byte string), or 1 for a NaN,    *)
(* and s what it contains, a map containing entries.                       *)
(*                                                                         *)
(* The recursive functions are constants.  One turn of each is defined     *)
(* here, given what the function makes of the values directly inside, and  *)
(* RecursionAssumption says that each function is its own turn.            *)
(***************************************************************************)
EXTENDS Integers, Sequences, FiniteSets

CONSTANTS
    Value,                      \* the values in play
    Depth(_),                   \* how deep a value nests
    encode(_), decode(_),       \* ciborium::into_writer, from_reader
    canonicalize(_), contains_nan(_), has_invalid_map_key(_),
    Inside(_)                   \* a value and all the values inside it

Leaf(t, n) == [t |-> t, n |-> n, s |-> <<>>]
ArrayOf(items) == [t |-> "array", n |-> 0, s |-> items]
MapOf(entries) == [t |-> "map", n |-> 0, s |-> entries]
TagOf(inner) == [t |-> "tag", n |-> 1, s |-> <<inner>>]
Entry(k, v) == [k |-> k, v |-> v]
ikey(n) == Leaf("int", n)

Entries == [k : Value, v : Value]

Children(v) ==
    IF v.t = "map" THEN UNION { {v.s[i].k, v.s[i].v} : i \in DOMAIN v.s }
                   ELSE { v.s[i] : i \in DOMAIN v.s }

(* Values are finite trees.                                                *)
ASSUME ValueAssumption ==
    /\ Value \subseteq [t : {"int", "bytes", "text", "float"}, n : Int, s : {<<>>}]
                 \cup [t : {"array", "tag"}, n : Int, s : Seq(Value)]
                 \cup [t : {"map"}, n : {0}, s : Seq(Entries)]
    /\ \A v \in Value : /\ Depth(v) \in Nat
                        /\ \A x \in Children(v) : Depth(x) < Depth(v)

(* What is written reads back.                                             *)
ASSUME EncodeAssumption ==
    \A v \in Value : encode(v) \in Seq(Int) /\ decode(encode(v)) = v

(* Bytewise lexicographic order.                                           *)
Before(a, b) ==
    \E i \in 1 .. Len(b) :
        /\ \A j \in 1 .. i - 1 : j <= Len(a) /\ a[j] = b[j]
        /\ i > Len(a) \/ a[i] < b[i]

PrecedesAsIs(entries, i, j) == i < j                        \* mutant: no sort

(* A stable sort by encoded key.                                           *)
Precedes(entries, i, j) ==
    LET a == encode(entries[i].k)
        b == encode(entries[j].k)
    IN  Before(a, b) \/ (a = b /\ i < j)

Rank(entries, i) == Cardinality({ j \in DOMAIN entries : Precedes(entries, j, i) }) + 1

sort_by_cached_key(entries) ==
    [r \in DOMAIN entries |-> entries[CHOOSE i \in DOMAIN entries : Rank(entries, i) = r]]

(* Scalars have nothing inside to be put in order.                         *)
canonicalize_by(inner, v) ==
    IF v.t = "map"
    THEN MapOf(sort_by_cached_key(
             [i \in DOMAIN v.s |-> Entry(inner[v.s[i].k], inner[v.s[i].v])]))
    ELSE [v EXCEPT !.s = [i \in DOMAIN v.s |-> inner[v.s[i]]]]

is_negative_int(k) == k.t = "int" /\ k.n < 0

contains_nan_by(inner, v) ==
    \/ v.t = "float" /\ v.n = 1
    \/ \E x \in Children(v) : inner[x]

BadKey(k) == k.t \notin {"int", "text"}

has_invalid_map_key_by(inner, v) ==
    \E i \in DOMAIN v.s :
        IF v.t = "map" THEN BadKey(v.s[i].k) \/ inner[v.s[i].v] ELSE inner[v.s[i]]

Inside_by(inner, v) == {v} \cup UNION { inner[x] : x \in Children(v) }

ASSUME RecursionAssumption ==
    \A v \in Value :
        /\ canonicalize(v) = canonicalize_by([x \in Children(v) |-> canonicalize(x)], v)
        /\ contains_nan(v) <=> contains_nan_by([x \in Children(v) |-> contains_nan(x)], v)
        /\ has_invalid_map_key(v) <=>
              has_invalid_map_key_by([x \in Children(v) |-> has_invalid_map_key(x)], v)
        /\ Inside(v) = Inside_by([x \in Children(v) |-> Inside(x)], v)

(* The values in play are closed under what the code makes of them.        *)
ASSUME ClosureAssumption ==
    { canonicalize(v) : v \in Value } \subseteq Value
=============================================================================

------------------------------ MODULE MCSerial ------------------------------
(***************************************************************************)
(* A small world of CBOR values: every type, every reserved key with a     *)
(* right and a wrong value, and maps inside maps, arrays and tags whose    *)
(* keys are out of order, repeated or of a forbidden type; and the         *)
(* functions over them, with the bytes ciborium would write.               *)
(***************************************************************************)
EXTENDS Serial, SequencesExt

Text(n) == Leaf("text", n)
Bytes(n) == Leaf("bytes", n)
NaN == Leaf("float", 1)

Unsorted == MapOf(<<Entry(Text(2), ikey(1)), Entry(Text(1), ikey(2))>>)
Sorted == MapOf(<<Entry(Text(1), ikey(2)), Entry(Text(2), ikey(1))>>)
Repeated == MapOf(<<Entry(ikey(0), ikey(1)), Entry(ikey(0), ikey(2))>>)
ByteKeyed == MapOf(<<Entry(Bytes(1), ikey(1))>>)

UpTo(S, n) == UNION { [1 .. m -> S] : m \in 0 .. n }

AppEntries ==
    { Entry(ikey(0), ikey(7)), Entry(ikey(1), Unsorted), Entry(Text(1), ArrayOf(<<Unsorted>>)),
      Entry(Text(2), TagOf(Unsorted)), Entry(ikey(2), Repeated), Entry(Text(1), ByteKeyed),
      Entry(ikey(3), ArrayOf(<<NaN>>)), Entry(NaN, ikey(1)), Entry(Bytes(2), ikey(1)),
      Entry(ikey(-6), ikey(1)), Entry(ikey(0), Leaf("float", 0)),
      Entry(Unsorted, ikey(1)), Entry(Sorted, ikey(2)) }

Apps == { MapOf(es) : es \in UpTo(AppEntries, 2) }
            \cup {ikey(0), ArrayOf(<<>>), Leaf("unserializable", 0)}

FullClauses ==
    [tid |-> Bytes(16), exp |-> ikey(3), aud |-> ArrayOf(<<Text(1), Text(1)>>),
     sub |-> Text(3), iss |-> Text(4)]

SomeClauses ==
    { FullClauses, [FullClauses EXCEPT !.aud = None, !.sub = None, !.iss = None],
      [FullClauses EXCEPT !.exp = ikey(-4), !.aud = None] }

WireEntries ==
    { Entry(ikey(-1), Bytes(16)), Entry(ikey(-1), Bytes(15)), Entry(ikey(-2), ikey(3)),
      Entry(ikey(-2), ikey(4)), Entry(ikey(-2), Text(1)), Entry(ikey(-3), ArrayOf(<<>>)),
      Entry(ikey(-3), ArrayOf(<<ikey(1)>>)), Entry(ikey(-4), Text(1)), Entry(ikey(-4), ikey(1)),
      Entry(ikey(-5), Text(1)), Entry(ikey(-5), Bytes(1)), Entry(ikey(-6), ikey(1)),
      Entry(ikey(0), Unsorted), Entry(ikey(0), Repeated), Entry(ikey(1), ByteKeyed),
      Entry(Text(1), NaN), Entry(NaN, ikey(1)), Entry(Bytes(1), ikey(1)),
      Entry(Text(1), ikey(1)) }

CommonEntries ==
    { Entry(ikey(-1), Bytes(16)), Entry(ikey(-2), ikey(3)), Entry(ikey(-5), Text(1)),
      Entry(ikey(0), ikey(1)), Entry(Text(1), Repeated) }

WireValues ==
    { MapOf(es) : es \in UpTo(WireEntries, 2) \cup UpTo(CommonEntries, 4) }
        \cup {ikey(0), ArrayOf(<<>>)}

-----------------------------------------------------------------------------
(* Bytes stand in this order: major type, then length or number, then what *)
(* is inside.  A text's name orders texts as their bytes do.               *)
RECURSIVE BytesOf(_)
BytesOf(v) ==
    CASE v.t = "int"   -> IF v.n >= 0 THEN <<0, v.n>> ELSE <<1, -1 - v.n>>
      [] v.t = "bytes" -> <<2, v.n>>
      [] v.t = "text"  -> <<3, v.n>>
      [] v.t = "array" -> <<4, Len(v.s)>> \o
                          FlattenSeq([i \in DOMAIN v.s |-> BytesOf(v.s[i])])
      [] v.t = "map"   -> <<5, Len(v.s)>> \o
                          FlattenSeq([i \in DOMAIN v.s |->
                                        BytesOf(v.s[i].k) \o BytesOf(v.s[i].v)])
      [] v.t = "tag"   -> <<6, v.n>> \o BytesOf(v.s[1])
      [] v.t = "float" -> <<7, v.n>>

(* The n items from the offset i on, and the offset after them.            *)
RECURSIVE ItemsAt(_, _, _)
ItemsAt(bytes, i, n) ==
    IF n = 0 THEN [items |-> <<>>, next |-> i]
    ELSE LET major == bytes[i]
             arg == bytes[i + 1]
             inner == ItemsAt(bytes, i + 2, CASE major = 4 -> arg [] major = 5 -> 2 * arg
                                              [] major = 6 -> 1 [] OTHER -> 0)
             first == CASE major = 0 -> ikey(arg)
                        [] major = 1 -> ikey(-1 - arg)
                        [] major = 2 -> Bytes(arg)
                        [] major = 3 -> Text(arg)
                        [] major = 4 -> ArrayOf(inner.items)
                        [] major = 5 -> MapOf([j \in 1 .. arg |->
                              Entry(inner.items[2 * j - 1], inner.items[2 * j])])
                        [] major = 6 -> TagOf(inner.items[1])
                        [] major = 7 -> Leaf("float", arg)
             others == ItemsAt(bytes, inner.next, n - 1)
         IN  [items |-> <<first>> \o others.items, next |-> others.next]

ValueOf(bytes) == ItemsAt(bytes, 1, 1).items[1]

RECURSIVE DepthOf(_)
DepthOf(v) == 1 + Max({ DepthOf(x) : x \in Children(v) } \cup {0})

RECURSIVE CanonicalOf(_)
CanonicalOf(v) == canonicalize_by([x \in Children(v) |-> CanonicalOf(x)], v)

RECURSIVE HoldsNan(_)
HoldsNan(v) == contains_nan_by([x \in Children(v) |-> HoldsNan(x)], v)

RECURSIVE HoldsBadKey(_)
HoldsBadKey(v) == has_invalid_map_key_by([x \in Children(v) |-> HoldsBadKey(x)], v)

RECURSIVE AllInside(_)
AllInside(v) == Inside_by([x \in Children(v) |-> AllInside(x)], v)

(* All that is received or assembled, what is inside, and the canonical    *)
(* form of that.                                                           *)
Assembled ==
    { MapOf(app.s \o ReservedEntries(kind, clauses)) :
        app \in AppMap, kind \in Kind, clauses \in SomeClauses }

Whole == WireValues \cup { app \in Apps : app.t # "unserializable" } \cup Assembled

Values == UNION { AllInside(v) \cup AllInside(CanonicalOf(v)) : v \in Whole }
=============================================================================

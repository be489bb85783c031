------------------------------- MODULE MCCli --------------------------------
(***************************************************************************)
(* A small world for the command line: every way to give a key, and each   *)
(* other argument at every value it is told apart by, alone or with those  *)
(* it interacts with.                                                      *)
(***************************************************************************)
EXTENDS Cli

CONSTANTS k1, k2

Object(size) == [error |-> None, size |-> size, decode_error |-> None]
Empty == Object(1)
Secret == Object(5)
Public == Object(3)
Array == [Empty EXCEPT !.error = "AppNotMap"]

Word(w) == [word |-> w, text |-> None]
Hex(b) == [word |-> "hex", text |-> [canonical |-> TRUE, bytes |-> b]]
KeyArgs == {Word("manifest"), Word("mandate")} \cup { [word |-> "hex", text |-> t] : t \in KeyText }

MintArgs ==
    [ key |-> Word("mandate"), exp |-> None, ttl |-> 1, tid |-> None, aud |-> {},
      texts |-> {}, alg |-> "0", encoding |-> "b64", fields |-> None,
      manifest_iss |-> FALSE, manifest_fields |-> None, manifest_alg |-> "0",
      stdin |-> NotJson ]

Timed == { [MintArgs EXCEPT !.exp = e, !.ttl = t] : e \in {None, 2}, t \in {None, 0, 1, NDMax + 9} }

Coded == { [MintArgs EXCEPT !.alg = a, !.manifest_alg = b, !.encoding = e, !.manifest_iss = TRUE] :
             a \in AlgCode, b \in AlgCode, e \in {"b64", "hex", "other"} }

(* What --fields and --manifest-fields give, and what is left to standard  *)
(* input, which only counts where it is read.                              *)
Input ==
    { a \in { [MintArgs EXCEPT !.fields = f, !.manifest_iss = i, !.manifest_fields = m, !.stdin = s] :
                 f \in {None, Dash, Secret}, i \in BOOLEAN,
                 m \in {None, Dash, Public}, s \in {NotJson, Unreadable, Secret, Array} } :
        /\ a.manifest_iss \/ a.manifest_fields = None
        /\ Dash \in {a.fields, a.manifest_fields} \/ a.stdin = NotJson }

Misfits ==
    { [MintArgs EXCEPT !.fields = NotJson], [MintArgs EXCEPT !.fields = Array],
      [MintArgs EXCEPT !.manifest_fields = Array],
      [MintArgs EXCEPT !.manifest_fields = Dash, !.stdin = Unreadable] }

Mintings ==
    Timed \cup Coded \cup Input \cup Misfits
    \cup { [MintArgs EXCEPT !.key = k] : k \in KeyArgs }
    \cup { [MintArgs EXCEPT !.tid = t, !.aud = a, !.texts = {"sub"}] :
             t \in {None, "v7", "other", "unparsable"}, a \in {{}, {"api"}} }

ClausesArgs == [key |-> <<Word("mandate")>>, audience |-> None, leeway |-> 0, now |-> None]

Checkings ==
    { [ClausesArgs EXCEPT !.key = <<k>>] : k \in KeyArgs }
    \cup { [ClausesArgs EXCEPT !.key = ks] :
             ks \in {<<>>, <<Hex(k2), Word("mandate")>>, <<Word("mandate"), Word("manifest")>>} }
    \cup { [ClausesArgs EXCEPT !.audience = a, !.leeway = l, !.now = n] :
             a \in {None, "api", "web"}, l \in {0, 1}, n \in {None} }
    \cup { [ClausesArgs EXCEPT !.leeway = l, !.now = n] : l \in {1, 70}, n \in {0, 61, 62} }

(* What reads as a mandate, and what reads as a manifest. *)
Octets ==
    { [size |-> 2, error |-> None, claims |-> FALSE,
       fields |-> [exp |-> 9, tid |-> "v7", aud |-> None]],
      [size |-> 1, error |-> None, claims |-> TRUE,
       fields |-> [exp |-> None, tid |-> "absent", aud |-> None]] }

HalfKeys == {Word("manifest"), Word("mandate"), Hex(ZeroKey), Hex(None)}

SealArgs ==
    [ octets |-> Dash, key |-> Word("mandate"), alg |-> "1", encoding |-> "hex",
      stdin |-> CHOOSE p \in Octets : ~p.claims ]

Sealings ==
    { [octets |-> p, key |-> k, alg |-> "0", encoding |-> "b64", stdin |-> NotHex] :
        p \in Octets \cup {Dash}, k \in HalfKeys }
    \cup { [SealArgs EXCEPT !.alg = a, !.encoding = e] :
             a \in {"1", "other"}, e \in {"b64", "hex", "other"} }
    \cup { [SealArgs EXCEPT !.stdin = Unreadable] }

OpenArgs == [key |-> Word("mandate"), alg |-> "0", encoding |-> "b64"]

Openings ==
    { [OpenArgs EXCEPT !.key = k] : k \in HalfKeys }
    \cup { [OpenArgs EXCEPT !.alg = a, !.encoding = e] :
             a \in AlgCode, e \in {"b64", "hex", "other"} }

Clock == {0, 2}
ApiWeb == {"api", "web"}
Both == {"Siv", "GcmSiv"}

ASSUME ObjectsDiffer == SizesTell
=============================================================================

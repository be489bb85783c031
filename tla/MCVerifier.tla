----------------------------- MODULE MCVerifier -----------------------------
(***************************************************************************)
(* Small worlds for the Verifier.  Each set of tokens holds the values on  *)
(* both sides of every comparison the pipeline makes.                      *)
(***************************************************************************)
EXTENDS Verifier, FiniteSets

CONSTANTS k1, k2

Clean == [exp |-> 1, tid |-> "v7", aud |-> None]

Fine(f) == [size |-> 2, error |-> None, fields |-> f, claims |-> FALSE]

Bytes(key, alg, size, p) == [key |-> key, alg |-> alg, size |-> size, plain |-> p]

TokenOf(c, sealed, enc) ==
    [encoding |-> enc, manifest |-> "absent", mandate |-> "wellformed",
     half |-> HalfText(sealed, c, enc), manifest_half |-> NoHalf]

Genuine(f) == TokenOf("0", Bytes(k1, "Siv", 18, Fine(f)), "B64")

Garbage(len) ==
    [Genuine(Clean) EXCEPT !.half = [alg_code |-> "0", len |-> len, sealed |-> None]]

(* Every combination of present, absent and ill-formed halves. *)
Shapes == { [Genuine(Clean) EXCEPT !.manifest = a, !.mandate = b] :
              a \in Shape, b \in Shape }

(* Who sealed it, with what, and what code it shows. *)
Origins == { TokenOf(c, Bytes(key, alg, 18, Fine(Clean)), "B64") :
               c \in AlgCode, alg \in Alg, key \in {k1, k2, ManifestKey, NoKey} }

(* Sizes around the floor and around the caps 20 and 24, in both encodings. *)
Sizes == { TokenOf("0", Bytes(k2, "Siv", 16 + n, [Fine(Clean) EXCEPT !.size = n]), enc) :
             n \in {0, 1, 3, 4, 5, 8, 9}, enc \in Encoding }

(* Texts that decode to nothing, around the cheap bound for cap 20. *)
Garbled == { Garbage(len) : len \in {0, 1, 48, 49} }

Contents == { TokenOf("0", Bytes(k1, "Siv", 18, [Fine(f) EXCEPT !.error = e]), "B64") :
                e \in DecodeReason \cup {None}, f \in {Clean, [Clean EXCEPT !.exp = None]} }

EnvelopeTokens == Shapes \cup Origins \cup Sizes \cup Garbled \cup Contents

(* Clause values around the leeway, the audience and the end of time. *)
PolicyTokens ==
    { Genuine([exp |-> e, tid |-> t, aud |-> a]) :
        e \in {None, -60, 0, 1, 90, NDMax}, t \in {"v7", "other", "absent"},
        a \in {None, {}} \cup SUBSET Identifier }

(* A few tokens for concurrent calls. *)
RaceTokens ==
    { Genuine(Clean), Genuine([Clean EXCEPT !.exp = 2, !.aud = {"api"}]),
      Genuine([Clean EXCEPT !.tid = "other"]) }

NearTimes == {-1, 0, 1, 59, 60, 61}
RaceTimes == 0 .. 3
FarPins == {-60, NDMax}
Api == {"api"}
ApiWeb == {"api", "web"}
=============================================================================

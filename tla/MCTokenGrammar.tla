--------------------------- MODULE MCTokenGrammar ---------------------------
(***************************************************************************)
(* Every text of up to MaxLen characters over the two separators, a code   *)
(* character, a text character that is no code, and a two-byte character.  *)
(***************************************************************************)
EXTENDS TokenGrammar

CONSTANT MaxLen

Chars == {".", "~", "0", "A", "e-acute"}
Codes == {"0"}
Widths == [c \in Chars |-> IF c = "e-acute" THEN 2 ELSE 1]
Texts == UNION { [1 .. n -> Chars] : n \in 0 .. MaxLen }
=============================================================================

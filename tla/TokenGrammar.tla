---------------------------- MODULE TokenGrammar ----------------------------
(***************************************************************************)
(* The text of a token: parse scans it for its separator and slices the    *)
(* two halves out by byte offset, and manifest() and mandate() carve one   *)
(* half into a token of its own, which is parsed again where it arrives.   *)
(* A text is a sequence of characters, each Width bytes long.              *)
(***************************************************************************)
EXTENDS Integers, Sequences

CONSTANTS
    Char,           \* the characters of the texts, the separators included
    AlgChar,        \* is_alg_char: `0`-`9` and `a`-`z`
    Width,          \* the bytes of each character in UTF-8
    Inputs,         \* the texts presented
    Panic,          \* what a slice off a character boundary gives
    None

Separator == {".", "~"}

ASSUME GrammarAssumption ==
    /\ Separator \subseteq Char /\ AlgChar \subseteq Char \ Separator
    /\ Width \in [Char -> 1 .. 4] /\ \A c \in Separator \cup AlgChar : Width[c] = 1
    /\ Inputs \subseteq Seq(Char)

ParseError == {"Empty", "SeparatorCount", "BothAbsent", "DegenerateHalf", "BadAlgChar"}

Half == [error : {None}, alg_code : AlgChar, text : Seq(Char)]

Parsed ==
    [ error : {None}, separator : Separator, manifest : Half \cup {None},
      mandate : Half \cup {None}, mandate_part : Seq(Char) ]

Failure == [error : ParseError \cup {Panic}]

(* The values that stand for something else are none of the values proper. *)
ASSUME DistinctAssumption ==
    /\ None \notin ParseError \cup {Panic} /\ Panic \notin ParseError
    /\ Panic \notin [from : Nat, to : Nat]
    /\ None \notin Half \cup Parsed \cup Failure

VARIABLES
    input,          \* the text being parsed
    ends,           \* where each character scanned ends, in bytes
    sep,            \* sep_index (bytes), sep_char and sep_count
    result,         \* the Parsed, the error, or Panic
    carved,         \* which half has been carved out, or "whole"
    origin          \* history: what the text first presented parsed to

vars == <<input, ends, sep, result, carved, origin>>

NoSeparator == [index |-> None, char |-> None, count |-> 0]

Fresh(text) ==
    /\ input' = text /\ ends' = <<>> /\ sep' = NoSeparator /\ result' = None

Init ==
    /\ input \in Inputs /\ ends = <<>> /\ sep = NoSeparator /\ result = None
    /\ carved = "whole"
    /\ origin = None

-----------------------------------------------------------------------------
(* A &str is a part of the input: the characters after the first `from`,  *)
(* up to `to`.  Its length and its slices are in bytes. *)
pos == Len(ends)
At(i) == IF i = 0 THEN 0 ELSE ends[i]

Whole == [from |-> 0, to |-> Len(input)]
IsEmpty(str) == str.from = str.to
ByteLen(str) == At(str.to) - At(str.from)
Text(str) == SubSeq(input, str.from + 1, str.to)

(* &str[from..to]                                                          *)
Slice(str, from, to) ==
    LET Boundary(i, at) == At(i) - At(str.from) = at
        Cuts == { c \in [from : str.from .. str.to, to : str.from .. str.to] :
                    c.from <= c.to /\ Boundary(c.from, from) /\ Boundary(c.to, to) }
    IN  IF Cuts = {} THEN Panic ELSE CHOOSE c \in Cuts : TRUE

-----------------------------------------------------------------------------
(* One turn of the loop over char_indices. *)
Scan ==
    /\ result = None /\ pos < Len(input)
    /\ LET ch == input[pos + 1] IN
       /\ ends' = Append(ends, At(pos) + Width[ch])
       /\ sep' = IF ch \in Separator
                 THEN [index |-> At(pos), char |-> ch, count |-> sep.count + 1]
                 ELSE sep
    /\ UNCHANGED <<input, result, carved, origin>>

Fails(e) == [error |-> e]

HalfOf(code, str) ==
    IF str = Panic THEN Fails(Panic)
    ELSE IF IsEmpty(str) THEN Fails("DegenerateHalf")
    ELSE IF code \notin AlgChar THEN Fails("BadAlgChar")
    ELSE [error |-> None, alg_code |-> code, text |-> Text(str)]

manifest_halfByteCode(before) ==                            \* mutant
    IF IsEmpty(before) THEN None
    ELSE HalfOf(input[before.to], Slice(before, 0, ByteLen(before) - 1))

(* The code is the LAST character before the separator...                  *)
manifest_half(before) ==
    IF IsEmpty(before) THEN None
    ELSE HalfOf(input[before.to], Slice(before, 0, ByteLen(before) - Width[input[before.to]]))

mandate_halfLoneCode(after) ==                              \* mutant
    IF IsEmpty(after) THEN None
    ELSE IF input[after.from + 1] \notin AlgChar THEN Fails("BadAlgChar")
    ELSE [ error |-> None, alg_code |-> input[after.from + 1],
           text |-> SubSeq(input, after.from + 2, after.to) ]

(* ... and the FIRST after it.                                             *)
mandate_half(after) ==
    IF IsEmpty(after) THEN None
    ELSE HalfOf(input[after.from + 1],
                Slice(after, Width[input[after.from + 1]], ByteLen(after)))

Failed(h) == IF h = None THEN FALSE ELSE h.error # None

(* What follows the loop.                                                  *)
parsed ==
    IF input = <<>> THEN Fails("Empty")
    ELSE IF sep.count # 1 THEN Fails("SeparatorCount")
    ELSE LET before == Slice(Whole, 0, sep.index)
             after == Slice(Whole, sep.index + 1, ByteLen(Whole))
             manifest == manifest_half(before)
             mandate == mandate_half(after)
         IN  IF before = Panic \/ after = Panic THEN Fails(Panic)
             ELSE IF Failed(manifest) THEN manifest
             ELSE IF Failed(mandate) THEN mandate
             ELSE IF manifest = None /\ mandate = None THEN Fails("BothAbsent")
             ELSE [ error |-> None, separator |-> sep.char, manifest |-> manifest,
                    mandate |-> mandate, mandate_part |-> Text(after) ]

Finish ==
    /\ result = None /\ pos = Len(input)
    /\ result' = parsed
    /\ origin' = IF origin = None THEN parsed ELSE origin
    /\ UNCHANGED <<input, ends, sep, carved>>

-----------------------------------------------------------------------------
(* manifest() rebuilds its half; mandate() forwards its part as it came.   *)

manifest_tokenSwapped ==                                    \* mutant
    <<result.manifest.alg_code>> \o result.manifest.text \o <<result.separator>>

manifest_token ==
    result.manifest.text \o <<result.manifest.alg_code>> \o <<result.separator>>

mandate_token == <<result.separator>> \o result.mandate_part

Carve(which, text) ==
    /\ Fresh(text)
    /\ carved' = which
    /\ UNCHANGED origin

Parses == IF result = None THEN FALSE ELSE result.error = None

CarveManifest ==
    /\ Parses /\ result.manifest # None
    /\ Carve("manifest", manifest_token)

CarveMandate ==
    /\ Parses /\ result.mandate # None
    /\ Carve("mandate", mandate_token)

Next == Scan \/ Finish \/ CarveManifest \/ CarveMandate

Spec == Init /\ [][Next]_vars

-----------------------------------------------------------------------------
(* How mint() puts a token together from the halves it has.                *)
Assemble(manifest, separator, mandate) ==
    (IF manifest = None THEN <<>> ELSE manifest.text \o <<manifest.alg_code>>)
        \o <<separator>>
        \o (IF mandate = None THEN <<>> ELSE <<mandate.alg_code>> \o mandate.text)

(* The grammar (token.rs:41-42, :86, :103): the text around the one        *)
(* separator, an absent or whole half on either side and not both absent.  *)
Separators(s) == { i \in DOMAIN s : s[i] \in Separator }

WholeOrAbsent(s, codeAt) == s = <<>> \/ (Len(s) > 1 /\ s[codeAt] \in AlgChar)

InGrammar(s) ==
    \E i \in DOMAIN s :
        /\ Separators(s) = {i}
        /\ Len(s) > 1
        /\ WholeOrAbsent(SubSeq(s, 1, i - 1), i - 1)
        /\ WholeOrAbsent(SubSeq(s, i + 1, Len(s)), 1)

(* parse accepts exactly the texts of the grammar, and what it returns is  *)
(* what mint() would assemble them from: nothing of a text is lost, moved  *)
(* between the halves, or read twice.                                      *)
ParseIsGrammar ==
    result # None =>
        /\ Parses <=> InGrammar(input)
        /\ Parses => Assemble(result.manifest, result.separator, result.mandate) = input

(* No text makes a slice fall inside a character: the code of a half is    *)
(* dropped by its own width before it is known to be one byte.             *)
NeverPanics == result # None => result.error # Panic

(* A half that was carved out, and carved again wherever it arrived, is    *)
(* the half of the token first presented: same code, same text, same       *)
(* encoding, and nothing of the other half with it.                        *)
Other(which) == IF which = "manifest" THEN "mandate" ELSE "manifest"

CarvedHalfSurvives ==
    carved # "whole" /\ result # None =>
        /\ Parses
        /\ result[carved] = origin[carved]
        /\ result[Other(carved)] = None
        /\ result.separator = origin.separator
=============================================================================

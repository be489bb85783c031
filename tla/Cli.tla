-------------------------------- MODULE Cli ---------------------------------
(***************************************************************************)
(* The obsigil command line tool: a user runs its subcommands one after    *)
(* the other, feeding what one printed to the next, while time passes.     *)
(* An invocation reads its arguments and its standard input, changes       *)
(* nothing but what the user now has, and ends with an exit code: 0, or 1  *)
(* for a rejection, or 2 for a usage error.  A JSON text is what the       *)
(* library makes of it (AppRecord in Mint), or NotJson.  What clauses()    *)
(* answers is taken from AdmissionRules, which Verifier implements.        *)
(***************************************************************************)
EXTENDS FrontEnd, Keys, FiniteSets

CONSTANTS
    TestKey,        \* the published test key, `mandate`
    Dash,           \* the argument `-`
    Unreadable,     \* standard input that cannot be read, or is not UTF-8
    NotJson,        \* a text that is not JSON, the empty one included
    EmptyObject,    \* `{}`
    NotHex,         \* an --octets that is not lowercase hex
    ReservedSize, IssSize,
    ClockValue,     \* what the system clock may show, in seconds since 1970
    Mints,          \* bound: arguments and standard inputs of mint
    Checks,         \* bound: options of clauses
    Seals,          \* bound: arguments of seal
    Opens,          \* bound: options of open
    MaxHalves       \* bound: sealed halves the user has at hand

(* The tool is built with every algorithm (its Cargo.toml), and is used    *)
(* before the last date.                                                   *)
ASSUME CliAssumption ==
    /\ TestKey \in MandateKey
    /\ CompiledAlgs = Alg
    /\ ClockValue \subseteq 0 .. NDMax - 1
    /\ MaxHalves \in Nat
    /\ ReservedSize \in Nat \ {0} /\ IssSize \in Nat \ {0}

VARIABLES
    clock,          \* the system clock
    held,           \* the token at hand, with how it was minted
    halves,         \* the halves at hand, each with how it was sealed
    last            \* the last invocation, what it read and what it did

vars == <<clock, held, halves, last>>

M(key, issuer, builder) ==
    INSTANCE Mint
        WITH IssuerKey <- key, App <- {}, Ticks <- 1, Monotone <- TRUE, Dates <- {},
             Ttls <- {}, GivenTids <- {}, Audiences <- {}, outcome <- None, asked <- None

(* What the arguments can be.  A JSON text decodes and fits the default    *)
(* cap as a mandate, and no --now is the last date.                        *)
KeyArg ==
    [word : {"manifest", "mandate"}, text : {None}] \cup [word : {"hex"}, text : KeyText]

EncodingArg == {"b64", "hex", "other"}

JsonObject ==
    { v \in M(TestKey, None, None)!AppRecord :
        /\ v.decode_error = None
        /\ v.size + ReservedSize + 2 + AEAD_TAG <= DEFAULT_MAX_DECODED_LEN }

MintArg ==
    [ key : KeyArg, exp : NumericDate \cup {None}, ttl : Nat \cup {None},
      tid : {None, "v7", "other", "unparsable"}, aud : SUBSET Identifier,
      texts : SUBSET {"iss", "sub"}, alg : AlgCode, encoding : EncodingArg,
      fields : JsonObject \cup {NotJson, Dash, None}, manifest_iss : BOOLEAN,
      manifest_fields : JsonObject \cup {NotJson, Dash, None}, manifest_alg : AlgCode,
      stdin : JsonObject \cup {NotJson, Unreadable} ]

(* A token is given, or left to standard input, which holds it or cannot   *)
(* be read. *)
TokenArg(tok) ==
    {[token |-> tok, stdin |-> Unreadable]} \cup [token : {Dash}, stdin : {tok, Unreadable}]

ClausesOption ==
    [ key : Seq(KeyArg), audience : Identifier \cup {None}, leeway : Nat,
      now : (NumericDate \ {NDMax}) \cup {None} ]

SealArg ==
    [ octets : Plain \cup {NotHex, Dash}, key : KeyArg, alg : AlgCode,
      encoding : EncodingArg, stdin : Plain \cup {NotHex, Unreadable} ]

OpenOption == [key : KeyArg, alg : AlgCode, encoding : EncodingArg]

(* What seal prints, under any 64 bytes. *)
SealedBytes == [key : KeyBytes \cup {NoKey}, alg : Alg, size : Nat, plain : Plain]

SealedText == [encoding : Encoding, sealed : SealedBytes]

ASSUME ArgumentsAssumption ==
    /\ Mints \subseteq MintArg /\ Checks \subseteq ClausesOption
    /\ Seals \subseteq SealArg /\ Opens \subseteq OpenOption
    /\ EmptyObject \in JsonObject

(* The values that stand for something else are none of the values proper. *)
ASSUME DistinctAssumption ==
    /\ NoKey # None /\ Dash # None /\ NotJson # None /\ NotJson # Dash /\ NotHex # Dash
    /\ Unreadable # None
    /\ \A x \in {None, Dash, NotJson, Unreadable} : x \notin JsonObject
    /\ \A x \in {NotHex, Dash, Unreadable} : x \notin Plain
    /\ Dash \notin SealedText /\ None \notin SealedBytes
    /\ None \notin Encoding /\ \A ids \in SUBSET Identifier : ids # None
    /\ None \notin [kind : {"v7", "other", "unparsable"}, stamp : {0}]
    /\ None \notin MintArg /\ None \notin SealArg
    /\ None \notin {"mint", "clauses", "claims", "parse", "mandate", "manifest",
                    "generate-key", "seal", "open", "v7", "other", "unparsable",
                    "IsManifestKey", "AllZero", "BadHexEncoding", "BadHexLength"}

-----------------------------------------------------------------------------
Init ==
    /\ clock \in ClockValue
    /\ held = None /\ halves = {}
    /\ last = [cmd |-> None]

Tick(t) == t > clock /\ clock' = t /\ UNCHANGED <<held, halves, last>>

-----------------------------------------------------------------------------
(* Arguments.  None is an argument that cannot be used. *)

resolve_key(k) ==
    CASE k.word = "manifest" -> ManifestKey
      [] k.word = "mandate" -> TestKey
      [] k.word = "hex" -> IF k.text.canonical THEN k.text.bytes ELSE None

mandate_key(k) ==
    IF resolve_key(k) = None THEN None
    ELSE IF from_bytes(resolve_key(k)).error # None THEN None ELSE resolve_key(k)

(* A code is one character; "other" is any other text.                     *)
parse_alg(s) == from_code(s)

parse_encoding(s) ==
    CASE s = "b64" -> "B64" [] s = "hex" -> "Hex" [] OTHER -> None

(* What an argument gives: itself, or with `-` the text on standard input, *)
(* trimmed, which the values that stand for texts do not show; Unreadable  *)
(* when reading fails.                                                     *)
read_input(s, stdin) == IF s = Dash THEN stdin ELSE s

DrainedNever(s, stdin) == stdin                             \* mutant

(* What standard input holds once s has been read: it is read to its end.  *)
Drained(s, stdin) == IF s = Dash THEN NotJson ELSE stdin

Default(s, d) == IF s = None THEN d ELSE s

Exits(status, out) == [exit |-> status, out |-> out]
Rejected == Exits(1, None)
UsageError == Exits(2, None)

(* A command ends at once when an input of its cannot be read.             *)
OnceRead(input, r) == IF input = Unreadable THEN UsageError ELSE r

-----------------------------------------------------------------------------
(* mint.  Every failure exits with 2, so the order of the checks shows in  *)
(* the message only. *)

mint_fields(a) == read_input(Default(a.fields, EmptyObject), a.stdin)

(* --manifest-fields counts for nothing without --manifest-iss.            *)
mint_manifest(a) ==
    IF a.manifest_iss
    THEN read_input(Default(a.manifest_fields, EmptyObject), Drained(a.fields, a.stdin))
    ELSE None

mint_issuer(a) ==
    [ alg |-> parse_alg(a.alg), manifest_alg |-> parse_alg(a.manifest_alg),
      encoding |-> parse_encoding(a.encoding) ]

mint_expTtlFirst(a) ==                                      \* mutant
    IF a.ttl # None THEN saturating_add(now_unix(clock), Least(a.ttl, NDMax)) ELSE a.exp

(* --exp wins over --ttl.                                                  *)
mint_exp(a) ==
    IF a.exp # None THEN a.exp
    ELSE IF a.ttl # None THEN saturating_add(now_unix(clock), Least(a.ttl, NDMax)) ELSE None

mint_builder(a) ==
    [ app |-> mint_fields(a), exp |-> mint_exp(a), texts |-> a.texts,
      tid |-> IF a.tid = None THEN None ELSE [kind |-> a.tid, stamp |-> 0],
      aud |-> IF a.aud = {} THEN None ELSE a.aud, manifest |-> mint_manifest(a) ]

cmd_mint(a) ==
    IF \/ mandate_key(a.key) = None
       \/ \E s \in {"alg", "manifest_alg", "encoding"} : mint_issuer(a)[s] = None
       \/ mint_fields(a) \in {Unreadable, NotJson}
       \/ mint_exp(a) = None \/ a.tid = "unparsable"
       \/ mint_manifest(a) \in {Unreadable, NotJson}
    THEN UsageError
    ELSE IF M(mandate_key(a.key), mint_issuer(a), mint_builder(a))!mint_error # None
    THEN UsageError
    ELSE Exits(0, M(mandate_key(a.key), mint_issuer(a), mint_builder(a))!Assembled)

-----------------------------------------------------------------------------
(* The commands that take a token read it first. *)

token(a) == read_input(a.token, a.stdin)

cli_policy(o) ==
    [ keys |-> [i \in DOMAIN o.key |-> mandate_key(o.key[i])], audience |-> o.audience,
      leeway |-> Least(o.leeway, MAX_LEEWAY), now |-> o.now,
      max_decoded_len |-> DEFAULT_MAX_DECODED_LEN ]

cli_verdict(tok, o) ==
    IF Violations(tok, "clauses", cli_policy(o), Default(o.now, now_unix(clock))) = {}
    THEN Exits(0, tok.half.sealed.plain.fields) ELSE Rejected

cmd_clauses(a, o) ==
    OnceRead(token(a),
        IF o.key = <<>> \/ \E i \in DOMAIN o.key : mandate_key(o.key[i]) = None
        THEN UsageError ELSE cli_verdict(token(a), o))

OrRejected(out) == IF out = None THEN Rejected ELSE Exits(0, out)

cmd_claims(a) == OnceRead(token(a), OrRejected(claims(token(a))))
cmd_mandate(a) == OnceRead(token(a), OrRejected(mandate(token(a))))
cmd_manifest(a) == OnceRead(token(a), OrRejected(manifest(token(a))))
cmd_parse(a) ==
    OnceRead(token(a), IF Parses(token(a)) THEN Exits(0, token(a)) ELSE Rejected)

cmd_generate_key(draw) == Exits(0, generate_key(draw))

-----------------------------------------------------------------------------
(* The byte-level commands take any 64 bytes for a key. *)

sealed_halfDefaultAlg(a) ==                                 \* mutant
    seal(read_input(a.octets, a.stdin), resolve_key(a.key), "Siv")

sealed_half(a) ==
    seal(read_input(a.octets, a.stdin), resolve_key(a.key), parse_alg(a.alg))

cmd_seal(a) ==
    IF \/ read_input(a.octets, a.stdin) \in {Unreadable, NotHex}
       \/ resolve_key(a.key) = None
       \/ parse_alg(a.alg) \notin CompiledAlgs
       \/ parse_encoding(a.encoding) = None
    THEN UsageError
    ELSE Exits(0, [encoding |-> parse_encoding(a.encoding), sealed |-> sealed_half(a)])

(* A half's text read in the other encoding may decode, to bytes no key    *)
(* sealed.  `-` is not standard input here but a text that does not.       *)
Decodings(half, encoding) ==
    IF half = Dash THEN {None}
    ELSE IF half.encoding = encoding THEN {half.sealed}
    ELSE {None, [half.sealed EXCEPT !.key = NoKey]}

cmd_openAlgFirst(sealed, o) ==                              \* mutant
    IF \/ resolve_key(o.key) = None \/ parse_encoding(o.encoding) = None
       \/ parse_alg(o.alg) = None
    THEN UsageError
    ELSE IF sealed = None THEN Rejected
    ELSE OrRejected(open(sealed, resolve_key(o.key), parse_alg(o.alg)))

(* A half that does not decode is rejected before --alg is looked at.      *)
cmd_open(sealed, o) ==
    IF resolve_key(o.key) = None \/ parse_encoding(o.encoding) = None THEN UsageError
    ELSE IF sealed = None THEN Rejected
    ELSE IF parse_alg(o.alg) = None THEN UsageError
    ELSE OrRejected(open(sealed, resolve_key(o.key), parse_alg(o.alg)))

-----------------------------------------------------------------------------
(* The invocations.  No command takes both a token and a half, or two      *)
(* tokens: as a bound, the user has one token at hand or some halves, and  *)
(* mints or seals with no token at hand. *)

Ran(cmd, args, of, input, r) ==
    last' = [cmd |-> cmd, args |-> args, of |-> of, input |-> input, at |-> clock,
             exit |-> r.exit, out |-> r.out]

Prints(r, t) == held' = IF r.exit = 0 THEN t ELSE held

Mint(a) ==
    /\ held = None /\ halves = {}
    /\ Ran("mint", a, None, None, cmd_mint(a))
    /\ Prints(cmd_mint(a), [token |-> cmd_mint(a).out, by |-> a, at |-> clock])
    /\ UNCHANGED <<clock, halves>>

Show(cmd, args, input, r) ==
    /\ Ran(cmd, args, held, input, r)
    /\ UNCHANGED <<clock, held, halves>>

Clauses(o) ==
    /\ held # None
    /\ \E a \in TokenArg(held.token) : Show("clauses", o, token(a), cmd_clauses(a, o))

Claims ==
    /\ held # None
    /\ \E a \in TokenArg(held.token) : Show("claims", None, token(a), cmd_claims(a))

Parse ==
    /\ held # None
    /\ \E a \in TokenArg(held.token) : Show("parse", None, token(a), cmd_parse(a))

Carve(cmd, input, r) ==
    /\ Ran(cmd, None, held, input, r)
    /\ Prints(r, [held EXCEPT !.token = r.out])
    /\ UNCHANGED <<clock, halves>>

CarveMandate ==
    /\ held # None
    /\ \E a \in TokenArg(held.token) : Carve("mandate", token(a), cmd_mandate(a))

CarveManifest ==
    /\ held # None
    /\ \E a \in TokenArg(held.token) : Carve("manifest", token(a), cmd_manifest(a))

GenerateKey(draw) ==
    /\ Ran("generate-key", None, None, None, cmd_generate_key(draw))
    /\ UNCHANGED <<clock, held, halves>>

Seal(a) ==
    /\ held = None /\ Cardinality(halves) < MaxHalves
    /\ Ran("seal", a, None, None, cmd_seal(a))
    /\ halves' = IF cmd_seal(a).exit = 0
                 THEN halves \cup {[text |-> cmd_seal(a).out, by |-> a]} ELSE halves
    /\ UNCHANGED <<clock, held>>

Open(h, o) ==
    /\ \E sealed \in Decodings(h.text, parse_encoding(o.encoding)) :
          Ran("open", o, h, sealed, cmd_open(sealed, o))
    /\ UNCHANGED <<clock, held, halves>>

(* The user writes two sealed halves, or one twice, down as a token, under *)
(* one code.                                                               *)
Paste(g, h, c) ==
    /\ g.text.encoding = h.text.encoding
    /\ held' = [ token |-> [ encoding |-> g.text.encoding,
                             manifest |-> "wellformed", mandate |-> "wellformed",
                             half |-> HalfText(h.text.sealed, c, g.text.encoding),
                             manifest_half |-> HalfText(g.text.sealed, c, g.text.encoding) ],
                 by |-> None, at |-> None ]
    /\ halves' = {} /\ last' = [cmd |-> None]
    /\ UNCHANGED clock

Next ==
    \/ \E t \in ClockValue : Tick(t)
    \/ \E a \in Mints : Mint(a)
    \/ \E o \in Checks : Clauses(o)
    \/ Claims \/ Parse \/ CarveMandate \/ CarveManifest
    \/ \E draw \in KeyBytes : GenerateKey(draw)
    \/ \E a \in Seals : Seal(a)
    \/ \E h \in halves \cup {[text |-> Dash, by |-> None]}, o \in Opens : Open(h, o)
    \/ \E g, h \in halves, c \in AlgCode : Paste(g, h, c)

Spec == Init /\ [][Next]_vars

-----------------------------------------------------------------------------
(* A token that mint printed.                                              *)
Printed(h) == IF h = None THEN FALSE ELSE h.by # None

(* What the user asked mint for: an --exp given with a --ttl counts alone, *)
(* and a --ttl ends with the dates.                                        *)
AskedExp(h) ==
    IF h.by.exp # None THEN h.by.exp ELSE Least(h.at + h.by.ttl, NDMax)

Now == Default(last.args.now, last.at)

(* What mint printed, clauses reads back, whatever it was carved to and    *)
(* whatever algorithm, encoding and way of giving the key were chosen: it  *)
(* shows the clauses asked for, and rejects the token only past its expiry *)
(* and the leeway, outside its audience, without its key or its mandate.   *)
PrintedTokenVerifies ==
    last.cmd = "clauses" /\ last.exit # 2 /\ Printed(last.of) =>
        LET by == last.of.by
            o == last.args
        IN  /\ last.exit = 0 <=>
                   /\ last.of.token.mandate # "absent"
                   /\ \E i \in DOMAIN o.key : mandate_key(o.key[i]) = mandate_key(by.key)
                   /\ Now < AskedExp(last.of) + Least(o.leeway, MAX_LEEWAY)
                   /\ by.aud = {} \/ o.audience \in by.aud
            /\ last.exit = 0 =>
                   last.out = [ exp |-> AskedExp(last.of), tid |-> "v7",
                                aud |-> IF by.aud = {} THEN None ELSE by.aud ]

(* What standard input gave for the mandate's --fields is sealed and never *)
(* shown to a reader without the key: the manifest that was to be read     *)
(* from the same input finds it empty.  (Sizes tell the values apart.)     *)
SealedInputIsNotShown ==
    last.cmd = "claims" /\ last.exit = 0 /\ Printed(last.of) =>
        last.of.by.fields # Dash \/ last.out.size # last.of.by.stdin.size + IssSize

(* A token is admitted on the word of a secret key only: neither the       *)
(* public key, spelt in either way, nor a degenerate draw of generate-key  *)
(* makes one that clauses admits, be it sealed and put together by hand.   *)
OnlySecretKeysAdmit ==
    /\ last.cmd = "clauses" /\ last.exit = 0 =>
          last.of.token.half.sealed.key \in MandateKey
    /\ Printed(held) /\ held.token.mandate = "wellformed" =>
          held.token.half.sealed.key \in MandateKey

(* A half that seal printed opens, to the octets given, under the key,     *)
(* algorithm and encoding it was sealed with, and under no other.          *)
Agrees(o, by) ==
    /\ resolve_key(o.key) = resolve_key(by.key)
    /\ o.alg = by.alg /\ o.encoding = by.encoding

SealedHalfOpens ==
    last.cmd = "open" /\ last.exit # 2 /\ last.of.by # None =>
        /\ last.exit = 0 <=> Agrees(last.args, last.of.by)
        /\ last.exit = 0 => last.out = read_input(last.of.by.octets, last.of.by.stdin)

-----------------------------------------------------------------------------
(* What a command cannot be run with, in no order: arguments that cannot   *)
(* be used, or standard input that cannot be read where an argument leaves *)
(* it to that.  A mandate key is judged by the library's from_hex, not by  *)
(* the tool's own reading of it.                                           *)
KeyErrors(k) == IF k.word = "hex" THEN {from_hex(k.text).error} \ {None} ELSE {}

NoMandateKey(k) == k.word = "manifest" \/ KeyErrors(k) # {}
No64Bytes(k) == KeyErrors(k) \cap {"BadHexEncoding", "BadHexLength"} # {}

NoObject(v) == IF v \in {Unreadable, NotJson} THEN TRUE ELSE v.error # None

Misuses(cmd, a, input) ==
    CASE cmd = "mint" ->
            \/ NoMandateKey(a.key)
            \/ "other" \in {a.alg, a.manifest_alg, a.encoding}
            \/ a.exp = None /\ a.ttl = None
            \/ a.tid \in {"unparsable", "other"}
            \/ NoObject(read_input(Default(a.fields, EmptyObject), a.stdin))
            \/ /\ a.manifest_iss
               /\ \/ a.fields = Dash /\ a.manifest_fields = Dash
                  \/ NoObject(read_input(Default(a.manifest_fields, EmptyObject), a.stdin))
      [] cmd = "clauses" ->
            \/ input = Unreadable
            \/ a.key = <<>> \/ \E i \in DOMAIN a.key : NoMandateKey(a.key[i])
      [] cmd \in {"claims", "parse", "mandate", "manifest"} -> input = Unreadable
      [] cmd = "seal" ->
            \/ No64Bytes(a.key) \/ "other" \in {a.alg, a.encoding}
            \/ read_input(a.octets, a.stdin) \in {Unreadable, NotHex}
      [] cmd = "open" ->
            \/ No64Bytes(a.key) \/ a.encoding = "other"
            \/ a.alg = "other" /\ input # None
      [] cmd = "generate-key" -> FALSE

(* Exit code 2 says that a command could not be run with its arguments and *)
(* standard input, and nothing else: what the token or the half is never   *)
(* matters, save that open reads --alg for a half that decodes only, and   *)
(* rejects the others with 1 whatever --alg says.                          *)
ExitTells ==
    last.cmd # None => (last.exit = 2 <=> Misuses(last.cmd, last.args, last.input))

(* The value standard input gives and the one the manifest is given        *)
(* otherwise differ in size, which is all the model knows them by.         *)
SizesTell ==
    \A a \in Mints :
        LET m == Default(a.manifest_fields, EmptyObject)
        IN  m # Dash /\ ~NoObject(m) /\ ~NoObject(a.stdin) => m.size # a.stdin.size
=============================================================================

# Verification of obsigil

TLA+ modules, TLC runs and TLAPS proofs for `obsigil`, the library that mints
and verifies deterministic two-half tokens, kept beside the code in `src/`.

A token is one line of text, `[manifest-text manifest-code] SEP mandate-code
mandate-text`. The *mandate* is sealed under a secret key and authorizes; the
*manifest* is sealed under a published key and only informs. `SEP` is `.` for
base64url or `~` for lowercase hex. Each half is one canonical CBOR map sealed by
a deterministic AEAD.

## 1. The system

| Part | Code | State | Operations | Interacts with |
|---|---|---|---|---|
| Verifier | `verify.rs` | keys, audience, leeway, pinned now, size cap | builder calls; the terminals `clauses`, `clauses_unchecked`, `mandate_plaintext` | calls grammar, encoding, AEAD, serialization; reads the clock |
| Issuer, MintBuilder | `mint.rs` | algorithms, encoding, key; the clauses set so far, a deferred manifest result | setters, `expires_in`, `mint` | calls serialization, AEAD, encoding; reads the clock twice |
| Serialization | `serial.rs` | none (loop state of the decoders) | `to_*_plaintext`, `from_*_plaintext` | ciborium |
| Token grammar | `token.rs` | none (loop state of the scan) | `parse` | called by everything that takes a token |
| Carving, manifest reading | `verify.rs` | none | `manifest`, `mandate`, `authorization_header`; `manifest_plaintext`, `claims` | grammar, AEAD, serialization |
| AEAD, encoding, types | `aead.rs`, `encoding.rs`, `types.rs` | none | `seal`, `open`, `encode_into`, `decode`, codes | RustCrypto, data_encoding |
| Keys | `key.rs` | 64 bytes | `from_bytes`, `from_hex`, `generate` | encoding |
| Clauses, Claims | `reserved.rs` | decoded fields | accessors, two of which `expect` | built by the terminals only |
| Command line tool | `obsigil-cli/src/main.rs` | arguments, standard input | nine subcommands | all of the above |

What is hard here is not a protocol of many nodes. It is a pipeline of early
returns whose order is a promise (uniform failure, nothing learnt from bytes no
key opened), a clock that is read in the middle of a call and may move either way
between two calls, arithmetic at the ends of `i64` and `usize`, two decoders and two
sides (mint, verify) that must agree on what is well formed, and texts that are
cut apart and parsed again elsewhere. `PROJECT.json` lists each such hazard at
its line with the property that covers it.

What makes each part correct:

* Verifier: a call admits exactly the tokens that break no rule at the instant it
  read; a reason that depends on content is given only for authentic content;
  bounded work; the terminals agree; concurrent calls are as good as atomic.
* Serialization: exactly the canonical maps with entitled entries decode; what is
  minted reads back; no plaintext passes for both halves.
* Issuer: `mint` errs exactly when a rule is broken; what it makes is admitted
  until it expires; a ttl bounds a token's life.
* Composition: a minted token gets through carving, forwarding and splicing
  until it expires, on hosts whose clocks disagree; without a key only the
  manifest shows.
* Command line: what `mint` printed, `clauses` reads back as asked; standard input
  meant for the mandate stays sealed; no public or degenerate key admits anything;
  exit code 2 tells exactly that a command could not be run with its arguments and
  standard input, and never what a token or a half is worth.
* Grammar: `parse` accepts the grammar and nothing else, never slices inside a
  character; carved halves survive carving.

## 2. Modules

| Module | What it models |
|---|---|
| `Mandate` | the data: tokens, halves, sealed bytes, plaintexts, the policy, and the pure helpers (`from_code`, `open`, `saturating_add`, `now_unix`, ...) |
| `AdmissionRules` | the reference: what makes a token inadmissible, rule by rule, in no order |
| `Admission` | the abstract specification: each call judged at one instant by those rules |
| `Verifier` | the code: builder calls, and each terminal cut at its early returns, at each trial decryption and where it reads the clock |
| `MandateProofs` | lemmas about the data and the rules, which all proofs share |
| `VerifierProofs`, `VerifierRefinement` | the theorems about `Verifier`; that it implements `Admission` |
| `SerialProofs`, `MintProofs`, `GrammarProofs`, `ExchangeProofs`, `CliProofs` | the theorems about `Serial`, `Mint`, `TokenGrammar`, `Exchange` and `Cli` |
| `Cbor`, `Serial` | CBOR values, and one turn of each recursive function of `serial.rs`; minting a plaintext and the two strict decoders, one map entry per step |
| `Mint` | Issuer, MintBuilder, `mint`, under a clock of sub-second ticks |
| `TokenGrammar` | the scan of `parse`, its slices in bytes, and carving |
| `FrontEnd` | the keyless functions on decoded tokens: `manifest_plaintext`, `claims`, `manifest`, `mandate`, `authorization_header` |
| `Exchange` | the composition: instances of `Mint` and `Verifier` on two hosts with clocks of their own, `FrontEnd` between them |
| `Keys` | `from_bytes`, `from_hex`, `generate_key` |
| `Cli` | the command line tool: sessions of its nine subcommands |
| `MCVerifier`, `MCSerial`, `MCMint`, `MCTokenGrammar`, `MCExchange`, `MCCli` | small worlds for TLC |

Definitions keep the source's names where there is one (`from_code`,
`aud_contains`, `strict_error` for `strict_map`, `classify`, ...); `PROJECT.json`
`map` gives the lines of each. Definitions commented `mutant` are plausible
slips, one for each property, with which that property fails.

### How `Verifier` corresponds to `verify.rs`

`verifier` is the struct; `AddKey` .. `SetMaxDecodedLen` are its builder methods
(`keys` is several `AddKey`s). They consume `self`, so they precede every call: a
borrowed Verifier cannot be configured. A call `c` is `Start`, then

| Stage | Code |
|---|---|
| `Parse` | `parse`, absent mandate, `Alg::from_code` |
| `Measure` | cheap bound on the text, strict decoding, exact bounds on the bytes |
| `Trial` | one candidate key of `find_map` |
| `Decode` | `from_mandate_plaintext`, whose outcome the plaintext carries (`Serial` says what it is) |
| `Presence` | the end of `clauses_unchecked_inner` |
| `CheckTid`, `CheckExp`, `CheckAud` | `clauses_inner`; `CheckExp` reads the clock |

Between two stages other calls run and the clock moves (`Tick`), back as well
unless the run says it is monotone. A clock before 1970 reads 0.

Abstractions: ciphers are ideal (bytes open only under the key and algorithm that
sealed them, and an algorithm left out of the build opens nothing); a token is
described by what its text decodes to; `aud` is a set; the application's own
deserialization failure is a decode error of the plaintext.

### `Serial`, `Mint`, `TokenGrammar`

`Serial` runs both decoders on one plaintext, minted (`Mint`) or sealed by
another holder of the key (`Receive`: any decoded value, with a flag for "the
bytes are the encoding of this value"). `Take` is one turn of the match loop; `got`
are the fields a decoder has read so far, `opaque` the application entries it has
put aside, `rest` the entries it still has to look at.

A function of `serial.rs` that recurses over a value (`canonicalize`,
`contains_nan`, `has_invalid_map_key`) is a constant operator of `Cbor`, with one
turn of the code's recursion as a definition, `canonicalize_by` and so on, whose
first argument is what the function makes of the values directly inside. `RecursionAssumption` says that each
function is its own turn, which on finite trees leaves it one meaning. So nothing
that theorems are about is declared `RECURSIVE`; `MCSerial` gives TLC recursive
operators made of the same turns, and bytes for `encode` and `decode`.

`Mint` lets the builder's calls come in any order, with the clock ticking between
them. An application value is its size, the error serializing it gives and what
decoding the result gives. The token made is a `Token` of `Mandate`, so the
verifier's rules apply to it directly; its manifest half is sealed for real, under
the public key. After `mint()`, or when the builder is dropped (`Discard`), the
Issuer may be configured again and lent to another builder. `asked` is a history variable: the last
`expires_in` still in force. `Uuid::now_v7` is a library call; what it does on a
clock before 1970 is not modelled.

In `TokenGrammar` characters have a width in bytes and a slice off a character
boundary is a `Panic`. `ends` are the byte offsets `char_indices` goes through; a
`&str` is a part of the input and is cut where an offset says, so no definition
recurses over the text. Carving sets the carved text as the new input, so chains
of carvings are explored; `origin` is a history variable.

### `FrontEnd`, `Exchange`

`FrontEnd` has no state: each function is an operator from a `Token` to a value or
`None`, as the code returns an `Option`. `Exchange` instantiates `Mint` on the
issuer's clock and `Verifier` on the verifier's, in whole seconds, and uses their
actions as its own: `Issue` and `HandOver` are the issuer's host, `Present`,
`Judge` and `Proceed` a call of the backend. Between them stands no action but an
operator, `Circulating`: every form a token may have taken by two rounds of
carving, forwarding in an `Authorization` header, and putting a manifest that
anybody sealed under the public key before a mandate. Forms are pure functions of
what was minted, so which of them somebody already made need not be state. Issuer
and Verifier start configured (`Issuers`, `Verifiers`; the latter do not pin
`now`). `origin` and `read_at` are history variables.

### `Keys`, `Cli`

An invocation is one step: the process reads its arguments, standard input and
clock, prints, exits, and changes nothing else (the two clock reads of a mint are
told apart in `Mint`). `cmd_*` gives its exit code and output, from the
library's operators: `mint` from an instance of `Mint`, `claims`, `mandate` and
`manifest` from `FrontEnd`, `seal` and `open` from `Mandate`, and `clauses` from
the rules of `AdmissionRules`, which `Verifier` is proved to decide exactly. The
user hands what was printed to the next invocation, and may write sealed halves
down as a token (`Paste`).

Abstractions: a JSON text is what the library makes of it, or `NotJson`; a key's
text is canonical hex or not, and 64 bytes or not; a code of anything but the two
known characters is `"other"`. A token, octets or fields given as `-` are read from standard input, which holds
them, holds something else or is `Unreadable` (it fails, or is not UTF-8);
`read_input` consumes it (`Drained`), and a command ends with 2 when it fails
(`OnceRead` for the five commands that take a token, whose `TokenArg` is the token
at hand or `-`). `last.input` keeps what a command was left with: its token, or the
bytes `open` decoded.
A half's text decoded in the other encoding gives nothing or bytes no key sealed,
which is data the model does not have: `Open` allows both. The tool is built with
both algorithms (its `Cargo.toml` asks for `gcm-siv`).

## 3. Runs

| Run | World | Shows |
|---|---|---|
| `envelope` | one call; every shape of halves, every sealing key / algorithm / shown code, sizes on both sides of 17 and of the caps 20 and 24 in both encodings, undecodable texts around the cheap bound, every decoding outcome; up to two keys in any order | `StageInv`, `VerdictExact`, `NoVerdictOnUnauthenticContent`, `BoundedTrial` |
| `policy` | one call; all combinations of `exp` (absent, negative, near, `i64::MAX`), `tid`, `aud`; leeway 0, 1 and above the clamp; clock and pins on both sides of every comparison | `TypeOK`, `VerdictExact`, `AccessorsTotal` |
| `race` | two calls, three mandates, a monotone clock of four seconds | `TerminalsAgree`, `ExpiredStaysExpired`, `JudgedAtOneInstant` (refinement of `Admission`), `EveryCallReturns` |
| `serial` | all maps of up to two out of 19 entries and up to four out of five common ones; all application maps of up to two out of 13, NaN, byte strings, an unsorted map and its sorted twin among their keys | `DecodesExactly`, `EachFieldReadOnce`, `NeverBoth`, `MintedReadsBack`, `OrderDoesNotShow` |
| `mint` | half-second ticks from before 1970 to two seconds after, ttl 0, 1 and beyond `i64`, application values that fail, do not decode, or just pass the size cap | `TypeOK`, `MintExact`, `MintedIsAdmitted`, `NeverOutlivesTtl`, `LifetimeWithinTtl` |
| `exchange` | half-second ticks to 2.5 s, clocks up to one tick apart, ttl 1; Verifiers with leeway 0 and 1, one without the key, one that tries another key first; GCM-SIV mandates beside AES-SIV manifests; a value too large for a manifest; forged manifests, one of them with clauses in it | `AdmittedWithinAsked`, `LeewayCoversSkew`, `MintedGetsThrough`, `FrontEndSeesOnlyTheManifest` |
| `cli` | sessions of one minted token or two sealed halves; every way to give a key, every other argument at each value it is told apart by, `--exp` with `--ttl`, both `--fields` from standard input, standard input that cannot be read in every command that reads it, degenerate keys | `PrintedTokenVerifies`, `SealedInputIsNotShown`, `OnlySecretKeysAdmit`, `SealedHalfOpens`, `ExitTells` |
| `grammar` | all texts of up to five characters of five kinds, one of them two bytes long | `ParseIsGrammar`, `NeverPanics`, `CarvedHalfSurvives` |

Four runs show a disagreement between the code and what it says of itself, one
property each:

* `manifest_parsed`: a Verifier that holds the sealing key, its time pinned, answers
  `Ok` to a mandate alone and `Malformed` to the same mandate behind a degenerate
  manifest half; `verify.rs:150` says of `clauses` that the manifest is never parsed
  or trusted. What a manifest's ciphertext holds is indeed never looked at, and
  `error.rs:13` lists a degenerate half under `Malformed`.
* `gcm_siv_less_build`: without the `gcm-siv` feature code `1` gives
  `AuthFailed`, while `error.rs:16` and `types.rs:35` promise `Unsupported`.
* `serial_nested`: a map *inside* an application value may repeat a key;
  `serial.rs:10` and `:235` say a verifier rejects repeated keys.
* `serial_nan`: `app_entries` looks for NaN in values but not in keys;
  `serial.rs:81` says mint refuses to emit one.

A comment in `roundtrip.rs` (near line 276) about byte-string keys is of the same
kind as the last: such a key is minted and then refused by every verifier.

One more disagreement has no run: `obsigil-cli/README.md` documents subcommands the
tool does not have (`verify`, `open-manifest`, `forward`); the models follow
`main.rs`. And one peculiarity is part of `ExitTells`: `cmd_open` decodes `--half`
before it reads `--alg`, so with an unusable `--alg` it exits with 1 on a half that
does not decode and with 2 on one that does.

### Bounds, and why they are enough

`NDMax` (`i64::MAX`) is 100 in the runs, above the largest leeway (60) so that
saturation, and no saturation, both happen; `USizeMax` is just large enough for
the default cap, so `2 * max + 8` saturates. The checks of a call compare single values:
each token set holds the values on both sides of every comparison. Two calls
suffice for `race`, the properties being about pairs; two keys for the search
(before, at and after the key that opens); the theorems hold for any number of
either. For `serial`, two entries make every ordering, repetition and pair of
fields, four out of the common ones make whole halves with one entry wrong.
Two application entries are enough for `OrderDoesNotShow` to need its precondition:
two keys that are maps of the same entries in different orders differ when they are
given and are equal in canonical form, where a stable sort leaves them as they came;
such keys are minted, and every verifier refuses them.
Five characters make every placement of two separators and of two codes.
In `exchange` one token and one call suffice, the properties being about one
admission each; the horizon lets a token made at an odd tick pass expiry, leeway
and skew. In `cli` the user holds one token or two halves: no command takes more;
its clock shows 0 and 2, on both sides of and at the expiries that `--exp 2` and a
`--ttl` of 0 or 1, and a leeway of 0 or 1, give. `manifest_parsed` needs two calls,
one key and one pinned time to show the two answers side by side.
`CHECK_DEADLOCK FALSE`: a world whose calls have all returned, or whose one token
is minted, has nothing left to do.

### Fairness

Only `race` states it: `WF_vars(Step(c))` for each call. A call is a function on
its caller's thread, holding no lock and waiting for nobody, so once entered it
takes its next step. Nothing obliges anyone to make a call, to configure, or the
clock to move.

`ExpiredStaysExpired` and `LifetimeWithinTtl` assume the clock is not set back;
with a clock that may be, an expired mandate is admitted again and the lifetime a
reader computes may exceed the ttl. Both follow from reading the wall clock.

## 4. Proofs

TLAPS checks the following for all values of the constants that satisfy the
modules' assumptions. Every invariant the passing runs check is a theorem, and so
are the refinement and the action property of `race`; only liveness is not.

| Module | Theorem | States |
|---|---|---|
| `MandateProofs` | `CheapBoundIsSound` | the saturating bound on the text refuses no half of a size within the cap |
| `VerifierProofs` | `TypesHold` | `Spec => []TypeOK` |
| | `StageInvariant` | `Spec => []StageInv` |
| | `VerdictsAreExact` | `Spec => []VerdictExact` |
| | `OnlyAuthenticContentSpeaks` | `Spec => []NoVerdictOnUnauthenticContent` |
| | `TrialIsBounded` | `Spec => []BoundedTrial` |
| | `AccessorsAreTotal` | `Spec => []AccessorsTotal` |
| | `TerminalsAgreeAlways` | `Spec => []TerminalsAgree` |
| `VerifierRefinement` | `Refinement` | `Spec => JudgedAtOneInstant`: the staged calls implement `Admission` |
| | `ExpiredIsFinal` | `Monotone` implies `Spec => ExpiredStaysExpired` |
| `MintProofs` | `TypeCorrect` | `Spec => []TypeOK` |
| | `MintsExactly` | `Spec => []MintExact` |
| | `MintedAdmitted` | `Spec => []MintedIsAdmitted` |
| | `TtlIsKept` | `Spec => []NeverOutlivesTtl` |
| | `LifetimeIsKept` | `Monotone` implies `Spec => []LifetimeWithinTtl` |
| `GrammarProofs` | `ParsesTheGrammar` | `Spec => []ParseIsGrammar` |
| | `SlicesAreWhole` | `Spec => []NeverPanics` |
| | `HalvesSurvive` | `Spec => []CarvedHalfSurvives` |
| `ExchangeProofs` | `AdmissionsEnd` | `Spec => []AdmittedWithinAsked` |
| | `SkewIsCovered` | `Spec => []LeewayCoversSkew` |
| | `MintedPasses` | `Spec => []MintedGetsThrough` |
| | `OnlyTheManifestShows` | `Spec => []FrontEndSeesOnlyTheManifest` |
| | `IssuerIsMint` | `Spec => [][M!Next]_M!vars`: every step is one of `Mint`, or leaves the Issuer's host alone |
| | `CallsAreVerifier` | `Spec => [][P!Next]_P!vars`: every step is one of `Verifier` given tokens, or leaves the Verifier's host alone |
| `SerialProofs` | `CanonicalIsFixed` | `canonicalize` is idempotent |
| | `StrictIsCanonical` | `strict_map` accepts the canonical plaintexts and no others |
| | `RearrangedIsTheSame` | the order of a map's entries does not show in its canonical form |
| | `SerialInvariant` | `Spec => []IInv` |
| | `SerialDecodesExactly` | `Spec => []DecodesExactly` |
| | `SerialEachFieldReadOnce` | `Spec => []EachFieldReadOnce` |
| | `SerialNeverBoth` | `Spec => []NeverBoth` |
| | `SerialMintedReadsBack` | `Spec => []MintedReadsBack` |
| | `SerialOrderDoesNotShow` | `Spec => []OrderDoesNotShow` |
| `CliProofs` | `PrintedVerifies` | `Spec => []PrintedTokenVerifies` |
| | `SealedOpens` | `Spec => []SealedHalfOpens` |
| | `ExitCodesTell` | `Spec => []ExitTells` |
| | `SecretKeysAdmit` | `Spec => []OnlySecretKeysAdmit` |
| | `InputStaysSealed` | `SizesTell` implies `Spec => []SealedInputIsNotShown` |

### The arguments

**Verifier** (any keys, tokens, clock, number of calls, caps and leeways).
`VerdictExact` is not inductive, since nothing in it says what a call in the middle
of the pipeline has established. `StageInv` says it, stage by stage: a call that is
measuring has a parsed token with a known code; one that is searching has a half of
the right size and has met only keys that open nothing; one that decodes holds the
plaintext of an authentic half; one at the audience check read a time before
`exp + leeway`; one that is done has an exact verdict. `Knows(c)` mentions only the
Verifier, which no call changes, and the call's own locals, so steps of other calls
and of the clock preserve it (`KnowsFrame`); each stage of `c` has a lemma. Type
correctness needs a strengthening of its own (`TypeInv`: a call past its entry has
a request, past its decryption a plaintext).

In the refinement every early return of a call is a judgement of `Admission` at
that instant, and so is the passage from `CheckExp` to `CheckAud`: the verdict of the
audience is settled there, since nothing read after it changes. Every other step
is a stutter. Rules other than expiry do not depend on the time
(`OnlyExpiryIsTimed`), and that the named rule is broken is what `StageInv` gives.
`Unasked`, that an idle call has no request, is the only addition. `ExpiredIsFinal`
adds that a call still idle when another was told `Expired` reads a clock no earlier.

**Mint** (any application values, ttl, dates and clock). `MintInv` adds to the types
that an outcome is the first error, or the token, that the builder it consumed is
worth (`Accounted`); that an `expires_in` still in force is the builder's expiry
(`Remembered`); and, on a clock never set back, that it lies in the past and no tid
was stamped before it (`ClockRan`, `Stamped`). `MintExact` then compares the code's
early returns with the rules; `MintedIsAdmitted` runs the verifier's rules on the
token made.

**TokenGrammar** (texts of any length, characters of one to four bytes). `GrammarInv`
says that the offsets measured so far rise with every character, so that an offset
names one character boundary and a slice is the characters between two of them
(`SliceAt`); what the scan knows of the separators up to where it is (`Counted`);
that a result is read off the text around its only separator (`Settled`); and that a
carved text is what `mint` would assemble of the one half (`Traced`). The last is
needed because a carved token is parsed and carved again.

**Exchange** (any skew, resolution of the clocks, ttl, leeway, number of calls and
tokens). The steps of the parts are steps of `Mint` and of `Verifier`, whose
inductive lemmas are instantiated and not repeated. `ExchangeInv` joins their
invariants with what the composition adds: the clocks are within the skew
(`Skewed`); every expiry comes from an `expires_in` (`ExpiryAsked`); all that was
handed over is what `mint` makes of it (`Handed`); a call holds a form of that
(`Given`), was judged by a time both clocks showed within the skew (`Timed`), and
ends at its parsing if there is no mandate in it (`Emptied`). The forms are not
enumerated: carving, forwarding and splicing each preserve `Form`.

`IssuerIsMint` and `CallsAreVerifier` are the two halves of the composition, step
by step. They say nothing of initial states, as Issuer and Verifier start
configured here (that their invariants hold then is in `ExchangeInit`). A tick within
a second is a stutter of the Verifier, whose clock is in whole seconds, and
`HandOver` is the builder's end.

**Serial** (any values of any depth, application maps and received maps of any
size). What is proved of the recursive functions uses no induction theorem: of the
values for which a claim fails, if there are any, `Shallowest` picks one of least
depth, and one turn of the function leads to a contradiction.
The sort is a stable permutation that rises (`SortPermutes`, `SortRises`) and
leaves alone what rises already (`SortOfSorted`). So a value is its own canonical
form exactly if every map inside it rises (`FixedIsSorted`), which with
`decode(encode(v)) = v` gives `StrictIsCanonical`: the comparison of bytes in
`strict_map`, together with the check for repeated keys, means strictly rising keys in
the half's map and rising ones inside its values (`NoKeyRepeatsInside` fails for that
reason). A strictly rising sequence is determined by its entries
(`StrictlyRisingIsUnique`), whence `RearrangedIsTheSame`.

`IInv` adds what a decoder in the middle of a half knows: what it has read
accounts for the entries up to where it stands, field by field, and application entry
by application entry, still in rising order (`Accounts`, `AtWork`); a decoder that
never started was given a plaintext that is not canonical (`Idle`); and a minted
plaintext is what `to_plaintext` makes of its source (`SourceInv`). `MintedReadsBack` then
needs that minting makes canonical plaintexts: reserved keys differ from each other
and from the application's, which are not negative, and portable keys that differ
still differ in canonical form.

**Cli** (any arguments, standard inputs and clock). `CliInv` says what is at hand:
a printed token carries the mandate and manifest its arguments asked for, whatever
it was carved to since, and a printed half is sealed as its arguments asked for
(`AtHand`); and that the last invocation told the truth (`Told`). `ExitTells` is an
equivalence: `Misuses` says per command what exit code 2 stands for, in no order
and with the library's `from_hex` for mandate keys, and each `cmd_*` is shown to
decide it (`MintRuns`, `ClausesRuns`, `SealRuns`, `OpenRuns`, `OnlyUnread`). The library's part
is taken from the definitions of `Mint`, `FrontEnd` and `AdmissionRules`.

### What is assumed

* The public manifest key is not a mandate key (`ConstantsAssumption`: what
  `MandateKey::from_bytes` refuses); `NDMax >= 60`; the default cap fits `usize`; the
  clock shows no date after `NDMax`.
* `FitsInMemory`: the text of a minted half has a length that fits `usize`, as it
  could not have been made otherwise.
* `Horizon < NDMax` in `Exchange` and `ClockValue \subseteq 0 .. NDMax - 1` in `Cli`:
  the code is used before the last date, at which a saturated expiry would count as
  passed. For the same reason no `--now` is `i64::MAX`.
* `Exchange` mints values that serialize and decode, and fit its Verifiers' caps.
  `Cli` is built with both algorithms, which its `Cargo.toml` asks for, and its JSON
  texts decode and fit the default cap.
* `Monotone`, for `ExpiredIsFinal` and `LifetimeIsKept` only: without it both are
  false. `SizesTell`, for `InputStaysSealed` only: sizes are all the model knows
  an application value by. `MCCli` evaluates it.
* `Cbor`: values are finite trees (`ValueAssumption`); what is written reads back
  (`EncodeAssumption`), so a value ciborium reads back as another, as it may a bignum
  tag, is none of `Value`; each recursive function is its own turn
  (`RecursionAssumption`); `Value` holds the canonical form of each value in it
  (`ClosureAssumption`). `Serial`: it also holds every plaintext (`PlayAssumption`);
  clauses have the types `MintBuilder` gives them (`ClausesAssumption`).
* `NoneAssumption`, `NoRequestAssumption`, `NoBuilderAssumption`, `DistinctAssumption` and the like:
  `None` and the other special values are none of the values proper.

TLC evaluates each of these assumptions on a run.

### Only model-checked

* `EveryCallReturns`: liveness, which needs `ENABLED`.

The properties of the four violation runs are false, so there is nothing to prove of
them.

## 5. Not modelled

The ciphers, the HKDF and zeroization (no state a property could see); constant
time (`aud_contains` is membership); the wording of errors and the layout of what
the tool prints; `MandateKey::generate`, which is the draw of `generate_key`
without the text; the accessors of `Clauses` and `Claims` that only return a
field; `lib.rs` (re-exports). The steps before 1970 of `Uuid::now_v7` belong to
that library.

## 6. Plan

What is left:

1. `EveryCallReturns` for all constants, once the prover reasons about `ENABLED`.
2. The text codecs (`encode_into`, `decode`), which the models reduce to lengths and
   to whether a text is canonical.

---------------------------- MODULE GrammarProofs ----------------------------
(***************************************************************************)
(* Theorems about TokenGrammar, for texts of any length over any           *)
(* characters of one to four bytes, checked by TLAPS.                      *)
(***************************************************************************)
EXTENDS TokenGrammar, SequenceTheorems, TLAPS

-----------------------------------------------------------------------------
(* The inductive invariant.  The scan has measured every character up to   *)
(* pos, and knows of the separators there whether there is none, which one *)
(* it is, or that there are two.                                           *)
Measured ==
    /\ input \in Seq(Char) /\ ends \in Seq(Nat) /\ pos <= Len(input)
    /\ \A i \in 1 .. pos : At(i) = At(i - 1) + Width[input[i]]
    /\ \A i, j \in 0 .. pos : i < j => At(i) < At(j)

IsSep(i) == input[i] \in Separator

OnlySep(i) ==
    /\ sep.index = At(i - 1) /\ sep.char = input[i] /\ IsSep(i)
    /\ \A k \in 1 .. pos : IsSep(k) => k = i

Counted ==
    /\ sep.count \in Nat
    /\ sep.count = 0 => \A k \in 1 .. pos : ~IsSep(k)
    /\ sep.count = 1 => \E i \in 1 .. pos : OnlySep(i)
    /\ sep.count > 1 => \E i, j \in 1 .. pos : i # j /\ IsSep(i) /\ IsSep(j)

OnlySeparator(i) == IsSep(i) /\ \A k \in 1 .. Len(input) : IsSep(k) => k = i

(* What stands before the separator, and what stands after it.             *)
Front(i) ==
    IF i = 1 THEN None
    ELSE IF i = 2 THEN Fails("DegenerateHalf")
    ELSE IF input[i - 1] \notin AlgChar THEN Fails("BadAlgChar")
    ELSE [error |-> None, alg_code |-> input[i - 1], text |-> SubSeq(input, 1, i - 2)]

Back(i) ==
    IF i = Len(input) THEN None
    ELSE IF i + 1 = Len(input) THEN Fails("DegenerateHalf")
    ELSE IF input[i + 1] \notin AlgChar THEN Fails("BadAlgChar")
    ELSE [ error |-> None, alg_code |-> input[i + 1],
           text |-> SubSeq(input, i + 2, Len(input)) ]

(* What is returned is read off the text, however the scan measured it.    *)
Read(i) ==
    IF Failed(Front(i)) THEN Front(i)
    ELSE IF Failed(Back(i)) THEN Back(i)
    ELSE IF Len(input) = 1 THEN Fails("BothAbsent")
    ELSE [ error |-> None, separator |-> input[i], manifest |-> Front(i),
           mandate |-> Back(i), mandate_part |-> SubSeq(input, i + 1, Len(input)) ]

Settled ==
    result # None =>
        /\ pos = Len(input)
        /\ \/ \E i \in 1 .. Len(input) : OnlySeparator(i) /\ result = Read(i)
           \/ /\ result \in {Fails("Empty"), Fails("SeparatorCount")}
              /\ ~\E i \in 1 .. Len(input) : OnlySeparator(i)

(* A carved text is what mint() would make of the one half.                *)
CarvedFrom(which, h) ==
    /\ h \in Half /\ origin # None /\ origin[which] = h
    /\ h.text \in Seq(Char \ Separator) /\ h.text # <<>>
    /\ origin.separator \in Separator
    /\ input = Assemble(IF which = "manifest" THEN h ELSE None, origin.separator,
                        IF which = "mandate" THEN h ELSE None)

Traced ==
    IF carved = "whole"
    THEN (origin = None <=> result = None) /\ (result # None => origin = result)
    ELSE carved \in {"manifest", "mandate"} /\ \E h \in Half : CarvedFrom(carved, h)

ScanInv == Measured /\ Counted /\ Settled

GrammarInv == ScanInv /\ Traced

-----------------------------------------------------------------------------
(* Byte offsets. *)
LEMMA Offsets ==
    ASSUME Measured, NEW i \in 0 .. pos, NEW j \in 0 .. pos
    PROVE  /\ At(i) \in Nat
           /\ At(i) = At(j) => i = j
<1>1. At(i) \in Nat /\ At(j) \in Nat /\ i \in Nat /\ j \in Nat
  BY DEF Measured, pos, At
<1>2. i < j \/ j < i \/ i = j
  BY <1>1
<1>3. QED
  BY <1>1, <1>2 DEF Measured

(* A slice at the offsets of two characters is the characters between, and *)
(* no other.                                                               *)
LEMMA SliceAt ==
    ASSUME Measured, NEW from \in 0 .. pos, NEW to \in 0 .. pos,
           NEW a \in from .. to, NEW b \in a .. to
    PROVE  Slice([from |-> from, to |-> to], At(a) - At(from), At(b) - At(from))
               = [from |-> a, to |-> b]
<1> DEFINE s == [from |-> from, to |-> to]
           Cuts == { c \in [from : from .. to, to : from .. to] :
                       /\ c.from <= c.to
                       /\ At(c.from) - At(from) = At(a) - At(from)
                       /\ At(c.to) - At(from) = At(b) - At(from) }
<1>1. Slice(s, At(a) - At(from), At(b) - At(from))
          = IF Cuts = {} THEN Panic ELSE CHOOSE c \in Cuts : TRUE
  BY DEF Slice
<1>2. /\ pos \in Nat /\ from .. to \subseteq 0 .. pos
      /\ a \in from .. to /\ b \in from .. to /\ a <= b
  BY DEF Measured, pos
<1>3. \A x, y \in from .. to : At(x) - At(from) = At(y) - At(from) => x = y
  BY <1>2, Offsets
<1>4. [from |-> a, to |-> b] \in Cuts
  BY <1>2
<1>5. \A c \in Cuts : c = [from |-> a, to |-> b]
  <2> SUFFICES ASSUME NEW c \in Cuts PROVE c = [from |-> a, to |-> b]
    OBVIOUS
  <2>1. c.from = a /\ c.to = b
    BY <1>2, <1>3
  <2>2. c = [from |-> c.from, to |-> c.to]
    OBVIOUS
  <2>3. QED
    BY <2>1, <2>2
<1>6. Cuts = {[from |-> a, to |-> b]}
  BY <1>4, <1>5
<1> HIDE DEF Cuts
<1>7. QED
  BY <1>1, <1>6

LEMMA CharTypes ==
    ASSUME Measured, NEW i \in 1 .. Len(input)
    PROVE  input[i] \in Char /\ Width[input[i]] \in 1 .. 4
BY GrammarAssumption, ElementOfSeq DEF Measured

(* The offset of the only separator, and of its neighbours.                *)
LEMMA Neighbours ==
    ASSUME Measured, pos = Len(input), NEW i \in 1 .. Len(input), IsSep(i)
    PROVE  /\ At(0) = 0 /\ At(i) = At(i - 1) + 1
           /\ i > 1 => At(i - 2) = At(i - 1) - Width[input[i - 1]]
           /\ i < Len(input) => At(i + 1) = At(i) + Width[input[i + 1]]
           /\ \A k \in 0 .. Len(input) : At(k) \in Nat
<1>1. Len(input) \in Nat /\ i \in Nat /\ Width[input[i]] = 1
  BY GrammarAssumption DEF Measured, IsSep
<1>2. \A k \in 0 .. Len(input) : At(k) \in Nat
  BY Offsets
<1>3. At(i) = At(i - 1) + 1
  BY <1>1 DEF Measured
<1>4. ASSUME i > 1 PROVE At(i - 2) = At(i - 1) - Width[input[i - 1]]
  <2>1. i - 1 \in 1 .. Len(input) /\ (i - 1) - 1 = i - 2
    BY <1>1, <1>4
  <2>2. At(i - 1) = At(i - 2) + Width[input[i - 1]]
    BY <2>1 DEF Measured
  <2>3. Width[input[i - 1]] \in 1 .. 4 /\ At(i - 2) \in Nat
    BY <1>1, <1>2, <1>4, <2>1, CharTypes
  <2>4. QED
    BY <2>2, <2>3
<1>5. ASSUME i < Len(input) PROVE At(i + 1) = At(i) + Width[input[i + 1]]
  <2>1. i + 1 \in 1 .. Len(input) /\ (i + 1) - 1 = i
    BY <1>1, <1>5
  <2>2. QED
    BY <2>1 DEF Measured
<1>6. QED
  BY <1>2, <1>3, <1>4, <1>5 DEF At

Before(i) == [from |-> 0, to |-> i - 1]
After(i) == [from |-> i, to |-> Len(input)]

LEMMA ManifestRead ==
    ASSUME Measured, pos = Len(input), NEW i \in 1 .. Len(input), IsSep(i)
    PROVE  /\ Slice(Whole, 0, At(i - 1)) = Before(i)
           /\ manifest_half(Before(i)) = Front(i)
<1>1. Len(input) \in Nat /\ i \in Nat /\ pos \in Nat
  BY DEF Measured
<1>2. Slice(Whole, 0, At(i - 1)) = Before(i)
  <2>1. Slice([from |-> 0, to |-> Len(input)], At(0) - At(0), At(i - 1) - At(0))
            = [from |-> 0, to |-> i - 1]
    BY <1>1, SliceAt
  <2>2. QED
    BY <1>1, <2>1, Neighbours DEF Whole, Before
<1>3. CASE i = 1
  <2>1. manifest_half(Before(i)) = Front(i)
    BY <1>3 DEF manifest_half, IsEmpty, Before, Front
  <2>2. QED
    BY <1>2, <2>1
<1>4. CASE i > 1
  <2>1. Slice(Before(i), At(0) - At(0), At(i - 2) - At(0)) = [from |-> 0, to |-> i - 2]
    BY <1>1, <1>4, SliceAt DEF Before
  <2>2. /\ At(0) - At(0) = 0
        /\ At(i - 2) - At(0) = ByteLen(Before(i)) - Width[input[i - 1]]
    <3>1. i - 2 \in 0 .. Len(input) /\ i - 1 \in 0 .. Len(input) /\ i - 1 \in 1 .. Len(input)
      BY <1>1, <1>4
    <3>2. At(i - 2) \in Nat /\ At(i - 1) \in Nat
      BY <3>1, Neighbours
    <3>3. Width[input[i - 1]] \in Nat
      BY <3>1, CharTypes
    <3>4. QED
      BY <1>4, <3>2, <3>3, Neighbours DEF ByteLen, Before
  <2>3. /\ manifest_half(Before(i)) = HalfOf(input[i - 1], [from |-> 0, to |-> i - 2])
    BY <1>1, <1>4, <2>1, <2>2 DEF manifest_half, IsEmpty, Before
  <2>4. [from |-> 0, to |-> i - 2] \in [from : Nat, to : Nat]
    BY <1>1, <1>4
  <2>5. [from |-> 0, to |-> i - 2] # Panic
    BY <2>4, DistinctAssumption
  <2>6. HalfOf(input[i - 1], [from |-> 0, to |-> i - 2]) = Front(i)
    BY <1>1, <1>4, <2>5 DEF HalfOf, IsEmpty, Front, Text
  <2>7. QED
    BY <1>2, <2>3, <2>6
<1>5. QED
  BY <1>1, <1>2, <1>3, <1>4

LEMMA MandateRead ==
    ASSUME Measured, pos = Len(input), NEW i \in 1 .. Len(input), IsSep(i)
    PROVE  /\ Slice(Whole, At(i - 1) + 1, ByteLen(Whole)) = After(i)
           /\ mandate_half(After(i)) = Back(i)
<1> DEFINE n == Len(input)
<1>1. n \in Nat /\ i \in Nat /\ pos \in Nat /\ i \in 1 .. n
  BY DEF Measured
<1>2. Slice(Whole, At(i - 1) + 1, ByteLen(Whole)) = After(i)
  <2>1. Slice([from |-> 0, to |-> n], At(i) - At(0), At(n) - At(0)) = [from |-> i, to |-> n]
    BY <1>1, SliceAt
  <2>2. /\ At(i) - At(0) = At(i - 1) + 1
        /\ At(n) - At(0) = ByteLen(Whole)
    BY <1>1, Neighbours DEF Whole, ByteLen
  <2>3. QED
    BY <2>1, <2>2 DEF Whole, After
<1>3. CASE i = n
  <2>1. mandate_half(After(i)) = Back(i)
    BY <1>3 DEF mandate_half, IsEmpty, After, Back
  <2>2. QED
    BY <1>2, <2>1
<1>4. CASE i < n
  <2>1. Slice(After(i), At(i + 1) - At(i), At(n) - At(i)) = [from |-> i + 1, to |-> n]
    BY <1>1, <1>4, SliceAt DEF After
  <2>2. /\ At(i + 1) - At(i) = Width[input[i + 1]]
        /\ At(n) - At(i) = ByteLen(After(i))
    <3>1. i \in 0 .. n /\ i + 1 \in 0 .. n /\ i + 1 \in 1 .. n
      BY <1>1, <1>4
    <3>2. At(i) \in Nat /\ At(i + 1) \in Nat
      BY <3>1, Neighbours
    <3>3. Width[input[i + 1]] \in Nat
      BY <3>1, CharTypes
    <3>4. QED
      BY <1>4, <3>2, <3>3, Neighbours DEF ByteLen, After
  <2>3. mandate_half(After(i)) = HalfOf(input[i + 1], [from |-> i + 1, to |-> n])
    BY <1>1, <1>4, <2>1, <2>2 DEF mandate_half, IsEmpty, After
  <2>4. [from |-> i + 1, to |-> n] \in [from : Nat, to : Nat] /\ (i + 1) + 1 = i + 2
    BY <1>1, <1>4
  <2>5. [from |-> i + 1, to |-> n] # Panic
    BY <2>4, DistinctAssumption
  <2>6. HalfOf(input[i + 1], [from |-> i + 1, to |-> n]) = Back(i)
    <3> DEFINE str == [from |-> i + 1, to |-> n]
    <3>1. IsEmpty(str) <=> i + 1 = n
      BY DEF IsEmpty
    <3>2. Text(str) = SubSeq(input, i + 2, n)
      BY <2>4 DEF Text
    <3>3. str # Panic
      BY <2>5
    <3> HIDE DEF str
    <3>4. HalfOf(input[i + 1], str) = Back(i)
      BY <1>1, <1>4, <3>1, <3>2, <3>3 DEF HalfOf, Back
    <3>5. QED
      BY <3>4 DEF str
  <2>7. QED
    BY <1>2, <2>3, <2>6
<1>5. QED
  BY <1>1, <1>2, <1>3, <1>4

(* A half that is read is one; one that fails says why, and not Panic.     *)
Reads(h) ==
    \/ h = None /\ ~Failed(h)
    \/ /\ h \in Half /\ ~Failed(h) /\ h # None
       /\ h.text \in Seq(Char \ Separator) /\ h.text # <<>>
    \/ h \in [error : ParseError] /\ Failed(h) /\ h # None

LEMMA FailureReads ==
    ASSUME NEW e \in ParseError
    PROVE  /\ Fails(e) \in [error : ParseError] /\ Fails(e).error = e
           /\ Failed(Fails(e)) /\ Fails(e) # None
<1>1. Fails(e) \in [error : ParseError] /\ Fails(e).error = e
  BY DEF Fails
<1>2. Fails(e) \in Failure
  BY DEF Failure, Fails
<1>3. Fails(e) # None /\ e # None
  BY <1>2, DistinctAssumption
<1>4. QED
  BY <1>1, <1>3 DEF Failed

LEMMA HalfReads ==
    ASSUME Measured, NEW i \in 1 .. Len(input), OnlySeparator(i),
           NEW m \in 1 .. Len(input), NEW n \in m .. Len(input), i \notin m .. n,
           NEW code \in AlgChar
    PROVE  Reads([error |-> None, alg_code |-> code, text |-> SubSeq(input, m, n)])
<1> DEFINE t == SubSeq(input, m, n)
           h == [error |-> None, alg_code |-> code, text |-> t]
<1>1. \A k \in m .. n : input[k] \in Char \ Separator
  BY CharTypes DEF OnlySeparator, IsSep
<1>2. m \in Int /\ n \in Int /\ m <= n
  BY DEF Measured
<1>3. t \in Seq(Char \ Separator) /\ Len(t) = n - m + 1
  BY <1>1, <1>2, SubSeqProperties
<1>4. t # <<>> /\ t \in Seq(Char)
  BY <1>2, <1>3, SeqMonotonic
<1> HIDE DEF t
<1>5. h \in Half
  BY <1>4 DEF Half
<1>6. h # None /\ h.error = None
  BY <1>5, DistinctAssumption
<1>7. QED
  BY <1>3, <1>4, <1>5, <1>6 DEF Reads, Failed, t

LEMMA HalvesRead ==
    ASSUME Measured, NEW i \in 1 .. Len(input), OnlySeparator(i)
    PROVE  /\ Reads(Front(i)) /\ (Front(i) = None <=> i = 1)
           /\ Reads(Back(i)) /\ (Back(i) = None <=> i = Len(input))
<1>1. Len(input) \in Nat /\ i \in Nat
  BY DEF Measured
<1>2. Reads(None)
  BY DEF Reads, Failed
<1>3. \A e \in {"DegenerateHalf", "BadAlgChar"} : Reads(Fails(e)) /\ Fails(e) # None
  BY FailureReads DEF Reads, ParseError
<1>4. Reads(Front(i)) /\ (Front(i) = None <=> i = 1)
  <2>1. CASE i > 2 /\ input[i - 1] \in AlgChar
    <3>1. Front(i) = [error |-> None, alg_code |-> input[i - 1], text |-> SubSeq(input, 1, i - 2)]
      BY <1>1, <2>1 DEF Front
    <3>2. 1 \in 1 .. Len(input) /\ i - 2 \in 1 .. Len(input) /\ i \notin 1 .. i - 2
      BY <1>1, <2>1
    <3>3. Reads(Front(i))
      BY <2>1, <3>1, <3>2, HalfReads
    <3>4. Front(i) # None
      <4>1. SubSeq(input, 1, i - 2) \in Seq(Char)
        BY <1>1, <3>2, CharTypes, SubSeqProperties
      <4>2. Front(i) \in Half
        BY <2>1, <3>1, <4>1 DEF Half
      <4>3. QED
        BY <4>2, DistinctAssumption
    <3>5. QED
      BY <1>1, <2>1, <3>3, <3>4
  <2>2. CASE i = 2 \/ input[i - 1] \notin AlgChar
    BY <1>1, <1>2, <1>3, <2>2 DEF Front
  <2>3. CASE i = 1
    BY <1>2, <2>3 DEF Front
  <2>4. QED
    BY <1>1, <2>1, <2>2, <2>3
<1>5. Reads(Back(i)) /\ (Back(i) = None <=> i = Len(input))
  <2> DEFINE n == Len(input)
  <2>1. CASE i + 1 < n /\ input[i + 1] \in AlgChar
    <3>1. Back(i) = [ error |-> None, alg_code |-> input[i + 1], text |-> SubSeq(input, i + 2, n)]
      BY <1>1, <2>1 DEF Back
    <3>2. i + 2 \in 1 .. n /\ n \in i + 2 .. n /\ i \notin i + 2 .. n
      BY <1>1, <2>1
    <3>3. Reads(Back(i))
      BY <2>1, <3>1, <3>2, HalfReads
    <3>4. Back(i) # None
      <4>1. SubSeq(input, i + 2, n) \in Seq(Char)
        BY <1>1, <3>2, CharTypes, SubSeqProperties
      <4>2. Back(i) \in Half
        BY <2>1, <3>1, <4>1 DEF Half
      <4>3. QED
        BY <4>2, DistinctAssumption
    <3>5. QED
      BY <1>1, <2>1, <3>3, <3>4
  <2>2. CASE i + 1 = n \/ input[i + 1] \notin AlgChar
    BY <1>1, <1>2, <1>3, <2>2 DEF Back
  <2>3. CASE i = n
    BY <1>2, <2>3 DEF Back
  <2>4. QED
    BY <1>1, <2>1, <2>2, <2>3
<1>6. QED
  BY <1>4, <1>5

LEMMA ParsedIsRead ==
    ASSUME Measured, Counted, pos = Len(input), sep.count = 1
    PROVE  \E i \in 1 .. Len(input) : OnlySeparator(i) /\ parsed = Read(i)
<1>1. PICK i \in 1 .. Len(input) : OnlySep(i)
  BY DEF Counted
<1>2. OnlySeparator(i) /\ IsSep(i) /\ sep.index = At(i - 1) /\ sep.char = input[i]
  BY <1>1 DEF OnlySep, OnlySeparator
<1>3. Len(input) \in Nat /\ i \in Nat /\ input # <<>>
  BY <1>1 DEF Measured
<1>4. /\ Slice(Whole, 0, sep.index) = Before(i)
      /\ Slice(Whole, sep.index + 1, ByteLen(Whole)) = After(i)
      /\ manifest_half(Before(i)) = Front(i) /\ mandate_half(After(i)) = Back(i)
  BY <1>2, ManifestRead, MandateRead
<1>5. Before(i) # Panic /\ After(i) # Panic
  <2>1. Before(i) \in [from : Nat, to : Nat] /\ After(i) \in [from : Nat, to : Nat]
    BY <1>1, <1>3 DEF Before, After
  <2>2. QED
    BY <2>1, DistinctAssumption
<1>6. Front(i) = None /\ Back(i) = None <=> Len(input) = 1
  BY <1>2, <1>3, HalvesRead
<1>7. Text(After(i)) = SubSeq(input, i + 1, Len(input))
  BY DEF Text, After
<1>8. parsed = IF Failed(Front(i)) THEN Front(i)
               ELSE IF Failed(Back(i)) THEN Back(i)
               ELSE IF Front(i) = None /\ Back(i) = None THEN Fails("BothAbsent")
               ELSE [ error |-> None, separator |-> sep.char, manifest |-> Front(i),
                      mandate |-> Back(i), mandate_part |-> Text(After(i)) ]
  BY <1>3, <1>4, <1>5 DEF parsed
<1>9. QED
  BY <1>2, <1>6, <1>7, <1>8 DEF Read

LEMMA ParsedFails ==
    ASSUME Measured, Counted, pos = Len(input), sep.count # 1
    PROVE  /\ parsed \in {Fails("Empty"), Fails("SeparatorCount")}
           /\ ~\E i \in 1 .. Len(input) : OnlySeparator(i)
<1>1. sep.count = 0 \/ sep.count > 1
  BY DEF Counted
<1>2. ~\E i \in 1 .. Len(input) : OnlySeparator(i)
  BY <1>1 DEF Counted, OnlySeparator
<1>3. QED
  BY <1>2 DEF parsed

-----------------------------------------------------------------------------
(* The scan. *)
LEMMA FreshScan ==
    ASSUME NEW text \in Seq(Char), Fresh(text)
    PROVE  ScanInv'
<1>1. input' = text /\ ends' = <<>> /\ sep' = NoSeparator /\ result' = None
  BY DEF Fresh
<1>2. pos' = 0
  BY <1>1 DEF pos
<1>3. Measured'
  BY <1>1, <1>2 DEF Measured
<1>4. Counted' /\ Settled'
  BY <1>1, <1>2 DEF Counted, Settled, NoSeparator
<1>5. QED
  BY <1>3, <1>4 DEF ScanInv

LEMMA ScanMeasures ==
    ASSUME Measured, Scan
    PROVE  /\ Measured' /\ pos' = pos + 1 /\ input' = input /\ pos \in Nat
           /\ \A i \in 0 .. pos : At(i)' = At(i)
<1> DEFINE ch == input[pos + 1]
<1>0. PICK n \in Nat : n = pos
  BY DEF Measured, pos
<1>1. /\ pos \in Nat /\ Len(input) \in Nat /\ pos < Len(input) /\ input' = input
      /\ ends' = Append(ends, At(pos) + Width[ch])
  BY DEF Measured, pos, Scan
<1>2. At(pos) \in Nat /\ Width[ch] \in 1 .. 4
  BY <1>1, CharTypes, Offsets
<1>3. /\ ends' \in Seq(Nat) /\ Len(ends') = pos + 1
      /\ \A i \in 1 .. pos : ends'[i] = ends[i]
      /\ ends'[pos + 1] = At(pos) + Width[ch]
  BY <1>1, <1>2, AppendProperties DEF Measured, pos
<1>4. pos' = pos + 1
  BY <1>3 DEF pos
<1>5. /\ \A i \in 0 .. pos : At(i)' = At(i)
      /\ At(n + 1)' = At(pos) + Width[ch]
  <2>1. \A i \in 0 .. pos : At(i)' = At(i)
    BY <1>1, <1>3 DEF At
  <2>2. n + 1 # 0
    BY <1>0
  <2>3. QED
    BY <1>0, <1>3, <2>1, <2>2 DEF At
<1>6. \A i \in 1 .. n + 1 : At(i)' = At(i - 1)' + Width[input[i]]
  <2> SUFFICES ASSUME NEW i \in 1 .. n + 1
               PROVE  At(i)' = At(i - 1)' + Width[input[i]]
    OBVIOUS
  <2>1. CASE i = n + 1
    <3>1. At(i - 1)' = At(pos) /\ At(i)' = At(pos) + Width[ch]
      BY <1>0, <1>1, <1>5, <2>1
    <3>2. QED
      BY <1>0, <2>1, <3>1
  <2>2. CASE i \in 1 .. pos
    BY <1>0, <1>1, <1>5, <2>2 DEF Measured
  <2>3. QED
    BY <1>0, <1>1, <2>1, <2>2
<1>7. \A i, j \in 0 .. n + 1 : i < j => At(i)' < At(j)'
  <2> SUFFICES ASSUME NEW i \in 0 .. n + 1, NEW j \in 0 .. n + 1, i < j
               PROVE  At(i)' < At(j)'
    OBVIOUS
  <2>1. CASE j \in 0 .. pos
    BY <1>0, <1>1, <1>5, <2>1 DEF Measured
  <2>2. CASE j = n + 1
    <3>1. i \in 0 .. pos /\ pos \in 0 .. pos /\ (i < pos \/ i = pos)
      BY <1>0, <1>1, <2>2
    <3>2. At(i) \in Nat /\ (i < pos => At(i) < At(pos))
      BY <3>1, Offsets DEF Measured
    <3>3. At(i) <= At(pos)
      BY <1>2, <3>1, <3>2
    <3>4. At(i)' = At(i) /\ At(j)' = At(pos) + Width[ch]
      BY <1>5, <2>2, <3>1
    <3>5. QED
      BY <1>2, <3>2, <3>3, <3>4
  <2>3. QED
    BY <1>0, <1>1, <2>1, <2>2
<1>8. Measured'
  BY <1>0, <1>1, <1>3, <1>4, <1>6, <1>7 DEF Measured
<1>9. QED
  BY <1>1, <1>4, <1>5, <1>8

LEMMA ScanCounts ==
    ASSUME Measured, Counted, Scan
    PROVE  Counted'
<1> DEFINE ch == input[pos + 1]
<1>0. PICK n \in Nat : n = pos
  BY DEF Measured, pos
<1>1. /\ pos' = pos + 1 /\ input' = input /\ pos \in Nat
      /\ \A i \in 0 .. pos : At(i)' = At(i)
      /\ sep' = IF ch \in Separator
                THEN [index |-> At(pos), char |-> ch, count |-> sep.count + 1] ELSE sep
  BY ScanMeasures DEF Scan
<1>2. \A k : IsSep(k)' <=> IsSep(k)
  BY <1>1 DEF IsSep
<1>3. CASE ch \notin Separator
  <2>1. sep' = sep /\ ~IsSep(pos + 1)
    BY <1>1, <1>3 DEF IsSep
  <2>2. \A i \in 1 .. pos : OnlySep(i) => OnlySep(i)'
    <3> SUFFICES ASSUME NEW i \in 1 .. pos, OnlySep(i) PROVE OnlySep(i)'
      OBVIOUS
    <3>1. At(i - 1)' = At(i - 1)
      BY <1>1
    <3>2. \A k \in 1 .. pos + 1 : IsSep(k) => k = i
      BY <1>1, <2>1 DEF OnlySep
    <3>3. QED
      BY <1>1, <1>2, <2>1, <3>1, <3>2 DEF OnlySep
  <2>3. sep.count = 0 => \A k \in 1 .. pos + 1 : ~IsSep(k)
    BY <1>1, <2>1 DEF Counted
  <2>4. 1 .. pos \subseteq 1 .. pos + 1
    BY <1>1
  <2>5. QED
    BY <1>1, <1>2, <2>1, <2>2, <2>3, <2>4 DEF Counted
<1>4. CASE ch \in Separator
  <2>1. /\ sep'.count = sep.count + 1 /\ sep'.index = At(pos) /\ sep'.char = input[pos + 1]
        /\ IsSep(pos + 1) /\ sep.count \in Nat
    BY <1>1, <1>4 DEF IsSep, Counted
  <2>2. ASSUME sep.count = 0 PROVE OnlySep(n + 1)'
    <3>1. \A k \in 1 .. pos + 1 : IsSep(k) => k = pos + 1
      BY <1>1, <2>2 DEF Counted
    <3>2. (n + 1) - 1 = n /\ At(n)' = At(pos)
      BY <1>0, <1>1
    <3>3. IsSep(n + 1)'
      BY <1>0, <1>2, <2>1
    <3>4. sep'.char = input'[n + 1] /\ sep'.index = At(n)'
      BY <1>0, <1>1, <2>1, <3>2
    <3>5. \A k \in 1 .. pos' : IsSep(k)' => k = n + 1
      BY <1>0, <1>1, <1>2, <3>1
    <3>6. QED
      BY <3>2, <3>3, <3>4, <3>5 DEF OnlySep
  <2>3. ASSUME sep.count > 0
        PROVE  \E i, j \in 1 .. pos + 1 : i # j /\ IsSep(i) /\ IsSep(j)
    <3>1. \E i \in 1 .. pos : IsSep(i)
      BY <2>1, <2>3 DEF Counted, OnlySep
    <3>2. QED
      BY <1>1, <2>1, <3>1
  <2>4. n + 1 \in 1 .. pos'
    BY <1>0, <1>1
  <2>5. /\ sep'.count \in Nat /\ sep'.count # 0
        /\ sep'.count = 1 => sep.count = 0
        /\ sep'.count > 1 => sep.count > 0
    BY <2>1
  <2>6. QED
    BY <1>1, <1>2, <2>2, <2>3, <2>4, <2>5 DEF Counted
<1>5. QED
  BY <1>3, <1>4

LEMMA ReadTypes ==
    ASSUME Measured, NEW i \in 1 .. Len(input), OnlySeparator(i)
    PROVE  \/ /\ Read(i) \in [error : ParseError]
              /\ Failed(Front(i)) \/ Failed(Back(i)) \/ Len(input) = 1
           \/ /\ Read(i) \in Parsed
              /\ ~Failed(Front(i)) /\ ~Failed(Back(i)) /\ Len(input) # 1
              /\ Read(i) = [ error |-> None, separator |-> input[i], manifest |-> Front(i),
                             mandate |-> Back(i),
                             mandate_part |-> SubSeq(input, i + 1, Len(input)) ]
<1>1. Reads(Front(i)) /\ Reads(Back(i))
  BY HalvesRead
<1>2. Fails("BothAbsent") \in [error : ParseError]
  BY FailureReads DEF ParseError
<1>3. ASSUME ~Failed(Front(i)), ~Failed(Back(i)), Len(input) # 1
      PROVE  Read(i) \in Parsed
  <2>1. Front(i) \in Half \cup {None} /\ Back(i) \in Half \cup {None}
    BY <1>1, <1>3 DEF Reads
  <2>2. SubSeq(input, i + 1, Len(input)) \in Seq(Char)
    <3>1. i + 1 \in Int /\ Len(input) \in Int /\ \A k \in i + 1 .. Len(input) : input[k] \in Char
      BY CharTypes DEF Measured
    <3>2. QED
      BY <3>1, SubSeqProperties
  <2>3. input[i] \in Separator
    BY DEF OnlySeparator, IsSep
  <2>4. QED
    BY <1>3, <2>1, <2>2, <2>3 DEF Read, Parsed
<1>4. QED
  BY <1>1, <1>2, <1>3 DEF Reads, Read

LEMMA Scanning ==
    ASSUME ScanInv, Scan
    PROVE  ScanInv'
BY ScanMeasures, ScanCounts DEF ScanInv, Settled, Scan

LEMMA Finishing ==
    ASSUME ScanInv, Finish
    PROVE  ScanInv' /\ result' # None
<1>1. /\ Measured /\ Counted /\ pos = Len(input) /\ result' = parsed
      /\ UNCHANGED <<input, ends, sep, carved>>
  BY DEF ScanInv, Finish
<1>2. pos' = pos /\ Len(input)' = Len(input) /\ \A i : At(i)' = At(i) /\ (IsSep(i)' <=> IsSep(i))
  BY <1>1 DEF pos, At, IsSep
<1>3. Measured' /\ Counted'
  BY <1>1, <1>2 DEF Measured, Counted, OnlySep
<1>4. \A i : (OnlySeparator(i)' <=> OnlySeparator(i)) /\ Read(i)' = Read(i)
  BY <1>1, <1>2 DEF OnlySeparator, Read, Front, Back
<1>5. \/ \E i \in 1 .. Len(input) : OnlySeparator(i) /\ result' = Read(i)
      \/ /\ result' \in {Fails("Empty"), Fails("SeparatorCount")}
         /\ ~\E i \in 1 .. Len(input) : OnlySeparator(i)
  BY <1>1, ParsedIsRead, ParsedFails
<1>6. Settled'
  BY <1>1, <1>2, <1>4, <1>5 DEF Settled
<1>7. result' # None
  <2>1. ASSUME NEW i \in 1 .. Len(input), OnlySeparator(i), result' = Read(i)
        PROVE  result' # None
    BY <1>1, <2>1, ReadTypes, DistinctAssumption DEF Failure
  <2>2. CASE result' \in {Fails("Empty"), Fails("SeparatorCount")}
    BY <2>2, FailureReads DEF ParseError
  <2>3. QED
    BY <1>5, <2>1, <2>2
<1>8. QED
  BY <1>3, <1>6, <1>7 DEF ScanInv

-----------------------------------------------------------------------------
(* The grammar. *)
LEMMA GrammarRead ==
    ASSUME Measured, NEW i \in 1 .. Len(input), OnlySeparator(i)
    PROVE  InGrammar(input) <=> ~Failed(Front(i)) /\ ~Failed(Back(i)) /\ Len(input) # 1
<1> DEFINE n == Len(input)
           f == SubSeq(input, 1, i - 1)
           b == SubSeq(input, i + 1, n)
<1>1. n \in Nat /\ i \in Nat /\ i >= 1 /\ i <= n
  BY LenProperties DEF Measured
<1>2. \A j \in DOMAIN input : Separators(input) = {j} <=> j = i
  BY LenProperties DEF Measured, Separators, OnlySeparator, IsSep
<1>3. InGrammar(input) <=> n > 1 /\ WholeOrAbsent(f, i - 1) /\ WholeOrAbsent(b, 1)
  <2>1. i \in DOMAIN input
    BY LenProperties DEF Measured
  <2>2. QED
    BY <1>2, <2>1 DEF InGrammar
<1>4. /\ f \in Seq(Char) /\ Len(f) = i - 1 /\ \A k \in 1 .. i - 1 : f[k] = input[k]
      /\ b \in Seq(Char) /\ Len(b) = n - i /\ \A k \in 1 .. n - i : b[k] = input[i + k]
  <2>1. /\ \A k \in 1 .. i - 1 : input[k] \in Char
        /\ \A k \in i + 1 .. n : input[k] \in Char
        /\ i + 1 \in Int /\ i - 1 \in Int
    BY <1>1, CharTypes
  <2>2. /\ f \in Seq(Char) /\ Len(f) = (IF 1 <= i - 1 THEN (i - 1) - 1 + 1 ELSE 0)
        /\ \A k \in 1 .. (i - 1) - 1 + 1 : f[k] = input[1 + k - 1]
    BY <1>1, <2>1, SubSeqProperties
  <2>3. /\ b \in Seq(Char) /\ Len(b) = (IF i + 1 <= n THEN n - (i + 1) + 1 ELSE 0)
        /\ \A k \in 1 .. n - (i + 1) + 1 : b[k] = input[(i + 1) + k - 1]
    BY <1>1, <2>1, SubSeqProperties
  <2> HIDE DEF f, b, n
  <2>4. QED
    BY <1>1, <2>2, <2>3
<1>5. f = <<>> <=> i = 1
  BY <1>1, <1>4, EmptySeq
<1>6. b = <<>> <=> i = n
  <2>1. b = <<>> <=> Len(b) = 0
    BY <1>4, EmptySeq
  <2>2. Len(b) = n - i
    BY <1>4
  <2> HIDE DEF b, n
  <2>3. QED
    BY <1>1, <2>1, <2>2
<1> HIDE DEF f, b
<1>7. WholeOrAbsent(f, i - 1) <=> i = 1 \/ (i > 2 /\ input[i - 1] \in AlgChar)
  BY <1>1, <1>4, <1>5 DEF WholeOrAbsent
<1>8. WholeOrAbsent(b, 1) <=> i = n \/ (i + 1 < n /\ input[i + 1] \in AlgChar)
  <2>1. CASE i = n
    BY <1>6, <2>1 DEF WholeOrAbsent
  <2>2. CASE i < n
    <3>1. b # <<>> /\ 1 \in 1 .. n - i /\ b[1] = input[i + 1] /\ (Len(b) > 1 <=> i + 1 < n)
      BY <1>1, <1>4, <1>6, <2>2
    <3>2. QED
      BY <1>1, <2>2, <3>1 DEF WholeOrAbsent
  <2>3. QED
    BY <1>1, <2>1, <2>2
<1>9. /\ Failed(Fails("DegenerateHalf")) /\ Failed(Fails("BadAlgChar"))
      /\ ~Failed(None) /\ \A c, t : ~Failed([error |-> None, alg_code |-> c, text |-> t])
  BY FailureReads DEF Failed, ParseError
<1>10. ~Failed(Front(i)) <=> i = 1 \/ (i > 2 /\ input[i - 1] \in AlgChar)
  BY <1>1, <1>9 DEF Front
<1>11. ~Failed(Back(i)) <=> i = n \/ (i + 1 < n /\ input[i + 1] \in AlgChar)
  <2>1. CASE i = n
    BY <1>9, <2>1 DEF Back
  <2>2. CASE i < n /\ i + 1 = n
    BY <1>1, <1>9, <2>2 DEF Back
  <2>3. CASE i + 1 < n
    <3>1. i # n /\ i + 1 # n
      BY <1>1, <2>3
    <3>2. Back(i) = IF input[i + 1] \notin AlgChar THEN Fails("BadAlgChar")
                    ELSE [ error |-> None, alg_code |-> input[i + 1],
                           text |-> SubSeq(input, i + 2, n) ]
      BY <3>1 DEF Back
    <3>3. QED
      BY <1>9, <2>3, <3>1, <3>2
  <2>4. QED
    BY <1>1, <2>1, <2>2, <2>3
<1> HIDE DEF n
<1>12. n > 1 <=> n # 1
  BY <1>1
<1>13. InGrammar(input) <=> ~Failed(Front(i)) /\ ~Failed(Back(i)) /\ n # 1
  BY <1>3, <1>7, <1>8, <1>10, <1>11, <1>12
<1>14. QED
  BY <1>13 DEF n

(* Nothing is lost: the halves and the separator are the whole text.       *)
LEMMA AssembledAgain ==
    ASSUME Measured, NEW i \in 1 .. Len(input), OnlySeparator(i),
           ~Failed(Front(i)), ~Failed(Back(i))
    PROVE  /\ Assemble(Front(i), input[i], Back(i)) = input
           /\ i < Len(input) =>
                 SubSeq(input, i + 1, Len(input)) = <<Back(i).alg_code>> \o Back(i).text
<1> DEFINE n == Len(input)
<1>1. n \in Nat /\ i \in Nat /\ i \in 1 .. n /\ input \in Seq(Char)
  BY DEF Measured
<1>2. (Front(i) = None <=> i = 1) /\ (Back(i) = None <=> i = n)
  BY HalvesRead
<1>3. (IF Front(i) = None THEN <<>> ELSE Front(i).text \o <<Front(i).alg_code>>)
          = SubSeq(input, 1, i - 1)
  <2>1. CASE i = 1
    <3>1. SubSeq(input, 1, i - 1) = <<>>
      BY <1>1, <2>1, SubSeqEmpty
    <3>2. QED
      BY <1>2, <2>1, <3>1
  <2>2. CASE i > 1
    <3>1. Front(i) = [error |-> None, alg_code |-> input[i - 1], text |-> SubSeq(input, 1, i - 2)]
      BY <1>1, <2>2, FailureReads DEF Front, ParseError
    <3>2. 1 \in 1 .. n /\ i - 1 \in 1 .. n /\ (i - 1) - 1 = i - 2
      BY <1>1, <2>2
    <3>3. SubSeq(input, 1, i - 1) = SubSeq(input, 1, i - 2) \o <<input[i - 1]>>
      BY <1>1, <3>2, SubSeqRecursiveSecond
    <3>4. Front(i).text = SubSeq(input, 1, i - 2) /\ Front(i).alg_code = input[i - 1]
      BY <3>1
    <3>5. Front(i) # None
      BY <1>1, <1>2, <2>2
    <3>6. QED
      BY <3>3, <3>4, <3>5, Zenon
  <2>3. QED
    BY <1>1, <2>1, <2>2
<1>4. ASSUME i < n PROVE SubSeq(input, i + 1, n) = <<Back(i).alg_code>> \o Back(i).text
  <2>1. Back(i) = [error |-> None, alg_code |-> input[i + 1], text |-> SubSeq(input, i + 2, n)]
    BY <1>1, <1>4, FailureReads DEF Back, ParseError
  <2>2. i + 1 \in 1 .. n /\ n \in i + 1 .. n /\ (i + 1) + 1 = i + 2
    BY <1>1, <1>4
  <2>3. SubSeq(input, i + 1, n) = <<input[i + 1]>> \o SubSeq(input, i + 2, n)
    BY <1>1, <2>2, SubSeqRecursiveFirst
  <2>4. QED
    BY <2>1, <2>3
<1>5. (IF Back(i) = None THEN <<>> ELSE <<Back(i).alg_code>> \o Back(i).text)
          = SubSeq(input, i + 1, n)
  <2>1. CASE i = n
    <3>1. SubSeq(input, i + 1, n) = <<>>
      BY <1>1, <2>1, SubSeqEmpty
    <3>2. QED
      BY <1>2, <2>1, <3>1
  <2>2. CASE i < n
    <3>1. Back(i) # None
      BY <1>1, <1>2, <2>2
    <3>2. QED
      BY <1>4, <2>2, <3>1, Zenon
  <2>3. QED
    BY <1>1, <2>1, <2>2
<1>6. SubSeq(input, 1, i - 1) \o <<input[i]>> = SubSeq(input, 1, i)
  <2>1. 1 \in 1 .. n /\ i \in 1 .. n
    BY <1>1
  <2>2. QED
    BY <1>1, <2>1, SubSeqRecursiveSecond
<1>7. SubSeq(input, 1, i) \o SubSeq(input, i + 1, n) = input
  <2>1. 1 \in 1 .. n + 1 /\ i \in 1 - 1 .. n /\ n \in i .. n
    BY <1>1
  <2>2. SubSeq(input, 1, i) \o SubSeq(input, i + 1, n) = SubSeq(input, 1, n)
    BY <1>1, <2>1, ConcatAdjacentSubSeq
  <2>3. QED
    BY <1>1, <2>2, SubSeqFull
<1>8. QED
  BY <1>1, <1>3, <1>4, <1>5, <1>6, <1>7 DEF Assemble

(* A carved text holds the half it was made of, and nothing else.          *)
LEMMA CarvedReads ==
    ASSUME Measured, NEW which \in {"manifest", "mandate"}, NEW h, CarvedFrom(which, h)
    PROVE  \E i \in 1 .. Len(input) :
              /\ OnlySeparator(i) /\ input[i] = origin.separator /\ Len(input) # 1
              /\ which = "manifest" => Front(i) = h /\ Back(i) = None
              /\ which = "mandate" => Front(i) = None /\ Back(i) = h
<1> DEFINE t == h.text
           c == h.alg_code
           s == origin.separator
           L == Len(t)
<1>1. /\ t \in Seq(Char) /\ t \in Seq(Char \ Separator) /\ t # <<>>
      /\ c \in AlgChar /\ c \in Char /\ c \notin Separator /\ s \in Separator /\ s \in Char
      /\ h = [error |-> None, alg_code |-> c, text |-> t] /\ h # None
  BY GrammarAssumption, DistinctAssumption DEF CarvedFrom, Half
<1>2. L \in Nat /\ L > 0 /\ \A k \in 1 .. L : t[k] \in Char \ Separator
  BY <1>1, LenProperties, EmptySeq, ElementOfSeq
<1>3. <<c>> \in Seq(Char) /\ <<s>> \in Seq(Char)
      /\ Len(<<c>>) = 1 /\ Len(<<s>>) = 1 /\ <<c>>[1] = c /\ <<s>>[1] = s
  BY <1>1
<1>4. CASE which = "manifest"
  <2>1. input = (t \o <<c>>) \o <<s>>
    <3>1. input = ((t \o <<c>>) \o <<s>>) \o <<>>
      BY <1>1, <1>4 DEF CarvedFrom, Assemble
    <3>2. (t \o <<c>>) \o <<s>> \in Seq(Char)
      BY <1>1, <1>3, ConcatProperties
    <3>3. QED
      BY <3>1, <3>2, ConcatEmptySeq
  <2>2. /\ t \o <<c>> \in Seq(Char) /\ Len(t \o <<c>>) = L + 1
        /\ \A k \in 1 .. L + 1 : (t \o <<c>>)[k] = IF k <= L THEN t[k] ELSE <<c>>[k - L]
    BY <1>1, <1>3, ConcatProperties
  <2>3. /\ Len(input) = L + 2
        /\ \A k \in 1 .. L + 2 :
              input[k] = IF k <= L + 1 THEN (t \o <<c>>)[k] ELSE <<s>>[k - (L + 1)]
    <3> HIDE DEF t, c, s, L
    <3>1. QED
      BY <1>2, <1>3, <2>1, <2>2, ConcatProperties
  <2> HIDE DEF t, c, s, L
  <2>4. (\A k \in 1 .. L : input[k] = t[k]) /\ input[L + 1] = c /\ input[L + 2] = s
    BY <1>2, <1>3, <2>2, <2>3
  <2>5. \A k \in 1 .. L + 2 : k \in 1 .. L \/ k = L + 1 \/ k = L + 2
    BY <1>2
  <2>6. OnlySeparator(L + 2)
    <3>1. IsSep(L + 2) /\ ~IsSep(L + 1)
      BY <1>1, <2>4 DEF IsSep
    <3>2. ASSUME NEW k \in 1 .. L PROVE ~IsSep(k)
      BY <1>2, <2>4 DEF IsSep
    <3>3. ASSUME NEW k \in 1 .. L + 2, IsSep(k) PROVE k = L + 2
      BY <2>5, <3>1, <3>2, <3>3
    <3>4. QED
      BY <2>3, <3>1, <3>3 DEF OnlySeparator
  <2>7. SubSeq(input, 1, L) = t
    <3>1. \A k \in 1 .. L : input[k] \in Char
      BY <1>2, <2>4
    <3>2. /\ SubSeq(input, 1, L) \in Seq(Char) /\ Len(SubSeq(input, 1, L)) = L
          /\ \A k \in 1 .. L : SubSeq(input, 1, L)[k] = t[k]
      BY <1>2, <2>4, <3>1, SubSeqProperties
    <3>3. QED
      BY <1>1, <3>2, SeqEqual DEF L
  <2>8. Front(L + 2) = h /\ Back(L + 2) = None
    <3>1. (L + 2) - 1 = L + 1 /\ (L + 2) - 2 = L /\ L + 2 # 1 /\ L + 2 # 2
      BY <1>2
    <3>2. Front(L + 2) = [error |-> None, alg_code |-> c, text |-> t]
      BY <1>1, <2>4, <2>7, <3>1 DEF Front
    <3>3. Back(L + 2) = None
      BY <2>3 DEF Back
    <3>4. QED
      BY <1>1, <3>2, <3>3 DEF c, t
  <2>9. L + 2 \in 1 .. Len(input) /\ Len(input) # 1 /\ input[L + 2] = origin.separator
    BY <1>2, <2>3, <2>4 DEF s
  <2>10. QED
    BY <1>4, <2>6, <2>8, <2>9
<1>5. CASE which = "mandate"
  <2>1. input = <<s>> \o (<<c>> \o t)
    <3>1. input = (<<>> \o <<s>>) \o (<<c>> \o t)
      BY <1>1, <1>5 DEF CarvedFrom, Assemble
    <3>2. QED
      BY <1>3, <3>1, ConcatEmptySeq
  <2>2. /\ <<c>> \o t \in Seq(Char) /\ Len(<<c>> \o t) = 1 + L
        /\ \A k \in 1 .. 1 + L : (<<c>> \o t)[k] = IF k <= 1 THEN <<c>>[k] ELSE t[k - 1]
    BY <1>1, <1>3, ConcatProperties
  <2>3. /\ Len(input) = 1 + (1 + L)
        /\ \A k \in 1 .. 1 + (1 + L) :
              input[k] = IF k <= 1 THEN <<s>>[k] ELSE (<<c>> \o t)[k - 1]
    <3> HIDE DEF t, c, s, L
    <3>1. QED
      BY <1>2, <1>3, <2>1, <2>2, ConcatProperties
  <2> HIDE DEF t, c, s, L
  <2>4. (\A k \in 1 .. L : input[k + 2] = t[k]) /\ input[1] = s /\ input[2] = c
    BY <1>2, <1>3, <2>2, <2>3
  <2>5. \A k \in 1 .. Len(input) : k = 1 \/ k = 2 \/ (k - 2 \in 1 .. L /\ (k - 2) + 2 = k)
    BY <1>2, <2>3
  <2>6. OnlySeparator(1)
    <3>1. IsSep(1) /\ ~IsSep(2)
      BY <1>1, <2>4 DEF IsSep
    <3>2. ASSUME NEW k \in 1 .. L PROVE ~IsSep(k + 2)
      BY <1>2, <2>4 DEF IsSep
    <3>3. ASSUME NEW k \in 1 .. Len(input), IsSep(k) PROVE k = 1
      <4>1. CASE k = 2
        BY <3>1, <3>3, <4>1
      <4>2. CASE k - 2 \in 1 .. L /\ (k - 2) + 2 = k
        <5>1. ~IsSep((k - 2) + 2)
          BY <3>2, <4>2
        <5>2. QED
          BY <3>3, <4>2, <5>1
      <4>3. QED
        BY <2>5, <4>1, <4>2
    <3>4. QED
      BY <3>1, <3>3 DEF OnlySeparator
  <2>7. SubSeq(input, 3, L + 2) = t
    <3>1. \A k \in 3 .. L + 2 : input[k] \in Char
      BY <1>2, <2>3, CharTypes
    <3>2. /\ SubSeq(input, 3, L + 2) \in Seq(Char) /\ Len(SubSeq(input, 3, L + 2)) = L
          /\ \A k \in 1 .. L : SubSeq(input, 3, L + 2)[k] = input[3 + k - 1]
      BY <1>2, <3>1, SubSeqProperties
    <3>3. \A k \in 1 .. L : SubSeq(input, 3, L + 2)[k] = t[k]
      BY <1>2, <2>4, <3>2
    <3>4. QED
      BY <1>1, <3>2, <3>3, SeqEqual DEF L
  <2>8. Front(1) = None /\ Back(1) = h
    <3>1. 1 # Len(input) /\ 1 + 1 # Len(input) /\ 1 + 1 = 2 /\ 1 + 2 = 3 /\ Len(input) = L + 2
      BY <1>2, <2>3
    <3>2. Back(1) = [error |-> None, alg_code |-> c, text |-> t]
      BY <1>1, <2>4, <2>7, <3>1 DEF Back
    <3>3. Front(1) = None
      BY DEF Front
    <3>4. QED
      BY <1>1, <3>2, <3>3 DEF c, t
  <2>9. 1 \in 1 .. Len(input) /\ Len(input) # 1 /\ input[1] = origin.separator
    BY <1>2, <2>3, <2>4 DEF s
  <2>10. QED
    BY <1>5, <2>6, <2>8, <2>9
<1>6. QED
  BY <1>4, <1>5

LEMMA ReadsGrammar ==
    ASSUME Measured, Settled
    PROVE  ParseIsGrammar /\ NeverPanics
<1> SUFFICES ASSUME result # None PROVE ParseIsGrammar /\ NeverPanics
  BY DEF ParseIsGrammar, NeverPanics
<1>1. ASSUME NEW i \in 1 .. Len(input), OnlySeparator(i), result = Read(i)
      PROVE  ParseIsGrammar /\ NeverPanics
  <2>1. CASE /\ Read(i) \in [error : ParseError]
             /\ Failed(Front(i)) \/ Failed(Back(i)) \/ Len(input) = 1
    <3>1. result.error \in ParseError
      BY <1>1, <2>1
    <3>2. result.error # None /\ result.error # Panic
      BY <3>1, DistinctAssumption
    <3>3. ~InGrammar(input)
      BY <1>1, <2>1, GrammarRead
    <3>4. QED
      BY <3>2, <3>3 DEF ParseIsGrammar, NeverPanics, Parses
  <2>2. CASE /\ ~Failed(Front(i)) /\ ~Failed(Back(i)) /\ Len(input) # 1
             /\ Read(i) = [ error |-> None, separator |-> input[i], manifest |-> Front(i),
                            mandate |-> Back(i),
                            mandate_part |-> SubSeq(input, i + 1, Len(input)) ]
    <3>1. /\ result.error = None /\ result.separator = input[i]
          /\ result.manifest = Front(i) /\ result.mandate = Back(i)
      BY <1>1, <2>2
    <3>2. InGrammar(input)
      BY <1>1, <2>2, GrammarRead
    <3>3. Assemble(result.manifest, result.separator, result.mandate) = input
      BY <1>1, <2>2, <3>1, AssembledAgain
    <3>4. None # Panic
      BY DistinctAssumption
    <3>5. QED
      BY <3>1, <3>2, <3>3, <3>4 DEF ParseIsGrammar, NeverPanics, Parses
  <2>3. QED
    BY <1>1, <2>1, <2>2, ReadTypes
<1>2. ASSUME result \in {Fails("Empty"), Fails("SeparatorCount")},
             ~\E i \in 1 .. Len(input) : OnlySeparator(i)
      PROVE  ParseIsGrammar /\ NeverPanics
  <2>1. result.error \in ParseError
    BY <1>2, FailureReads DEF ParseError
  <2>2. result.error # None /\ result.error # Panic
    BY <2>1, DistinctAssumption
  <2>3. ~InGrammar(input)
    <3>1. \A i \in DOMAIN input : i \in 1 .. Len(input)
      BY LenProperties DEF Measured
    <3>2. \A i \in DOMAIN input : Separators(input) = {i} => OnlySeparator(i)
      BY LenProperties DEF Measured, Separators, OnlySeparator, IsSep
    <3>3. QED
      BY <1>2, <3>1, <3>2 DEF InGrammar
  <2>4. QED
    BY <2>2, <2>3 DEF ParseIsGrammar, NeverPanics, Parses
<1>3. QED
  BY <1>1, <1>2 DEF Settled

(* What is known where parse has accepted a text.                          *)
LEMMA Accepted ==
    ASSUME Measured, Settled, Parses
    PROVE  \E i \in 1 .. Len(input) :
              /\ OnlySeparator(i) /\ ~Failed(Front(i)) /\ ~Failed(Back(i))
              /\ result = [ error |-> None, separator |-> input[i], manifest |-> Front(i),
                            mandate |-> Back(i),
                            mandate_part |-> SubSeq(input, i + 1, Len(input)) ]
<1>1. result # None /\ result.error = None
  BY DEF Parses
<1>2. None \notin ParseError
  BY DistinctAssumption
<1>3. ~(result \in {Fails("Empty"), Fails("SeparatorCount")})
  BY <1>1, <1>2, FailureReads DEF ParseError
<1>4. PICK i \in 1 .. Len(input) : OnlySeparator(i) /\ result = Read(i)
  BY <1>1, <1>3 DEF Settled
<1>5. ~(Read(i) \in [error : ParseError])
  BY <1>1, <1>2, <1>4
<1>6. QED
  BY <1>4, <1>5, ReadTypes

LEMMA Surviving ==
    ASSUME ScanInv, Traced
    PROVE  CarvedHalfSurvives
<1> SUFFICES ASSUME carved # "whole", result # None
             PROVE  /\ Parses
                    /\ result[carved] = origin[carved]
                    /\ result[Other(carved)] = None
                    /\ result.separator = origin.separator
  BY DEF CarvedHalfSurvives
<1>1. Measured /\ Settled /\ carved \in {"manifest", "mandate"}
  BY DEF ScanInv, Traced
<1>2. PICK h \in Half : CarvedFrom(carved, h)
  BY DEF Traced
<1>3. PICK i \in 1 .. Len(input) :
          /\ OnlySeparator(i) /\ input[i] = origin.separator /\ Len(input) # 1
          /\ carved = "manifest" => Front(i) = h /\ Back(i) = None
          /\ carved = "mandate" => Front(i) = None /\ Back(i) = h
  BY <1>1, <1>2, CarvedReads
<1>4. result = Read(i)
  BY <1>1, <1>3 DEF Settled, OnlySeparator
<1>5. ~Failed(h) /\ ~Failed(None)
  BY <1>2, DistinctAssumption DEF Failed, Half
<1>6. result = [ error |-> None, separator |-> input[i], manifest |-> Front(i),
                 mandate |-> Back(i), mandate_part |-> SubSeq(input, i + 1, Len(input)) ]
  <2>1. ~Failed(Front(i)) /\ ~Failed(Back(i))
    BY <1>1, <1>3, <1>5
  <2>2. QED
    BY <1>3, <1>4, <2>1 DEF Read
<1>7. /\ result.error = None /\ result.separator = input[i]
      /\ result["manifest"] = Front(i) /\ result["mandate"] = Back(i)
  BY <1>6
<1>8. origin[carved] = h
  BY <1>2 DEF CarvedFrom
<1>9. Parses
  BY <1>7 DEF Parses
<1>10. CASE carved = "manifest"
  BY <1>3, <1>7, <1>8, <1>9, <1>10 DEF Other
<1>11. CASE carved = "mandate"
  BY <1>3, <1>7, <1>8, <1>9, <1>11 DEF Other
<1>12. QED
  BY <1>1, <1>10, <1>11

-----------------------------------------------------------------------------
(* Carving. *)
LEMMA Carving ==
    ASSUME GrammarInv, CarveManifest \/ CarveMandate
    PROVE  GrammarInv'
<1>1. ScanInv /\ Traced /\ Measured /\ Settled /\ CarvedHalfSurvives /\ Parses
  BY Surviving DEF GrammarInv, ScanInv, CarveManifest, CarveMandate
<1>2. PICK i \in 1 .. Len(input) :
          /\ OnlySeparator(i) /\ ~Failed(Front(i)) /\ ~Failed(Back(i))
          /\ result = [ error |-> None, separator |-> input[i], manifest |-> Front(i),
                        mandate |-> Back(i),
                        mandate_part |-> SubSeq(input, i + 1, Len(input)) ]
  BY <1>1, Accepted
<1>3. /\ result.separator = input[i] /\ input[i] \in Separator /\ input[i] \in Char
      /\ result["manifest"] = Front(i) /\ result["mandate"] = Back(i)
      /\ result.mandate_part = SubSeq(input, i + 1, Len(input))
  BY <1>2, GrammarAssumption DEF OnlySeparator, IsSep
<1>4. PICK which \in {"manifest", "mandate"} :
          /\ result[which] # None /\ carved' = which /\ origin' = origin
          /\ Fresh(IF which = "manifest" THEN manifest_token ELSE mandate_token)
  BY <1>3 DEF CarveManifest, CarveMandate, Carve
<1> DEFINE h == result[which]
<1>5. /\ h \in Half /\ h # None /\ h.text \in Seq(Char \ Separator) /\ h.text # <<>>
      /\ h.alg_code \in Char /\ h.text \in Seq(Char)
  <2>1. h = Front(i) \/ h = Back(i)
    BY <1>3
  <2>2. /\ h \in Half /\ h # None /\ h.text \in Seq(Char \ Separator) /\ h.text # <<>>
    BY <1>1, <1>2, <1>4, <2>1, HalvesRead DEF Reads
  <2>3. QED
    BY <2>2, GrammarAssumption DEF Half
<1>6. origin # None /\ origin[which] = h /\ origin.separator = input[i]
  <2>1. result # None
    BY <1>1 DEF Parses
  <2>2. CASE carved = "whole"
    BY <1>1, <1>3, <2>1, <2>2 DEF Traced
  <2>3. CASE carved # "whole"
    <3>1. /\ result[carved] = origin[carved] /\ result[Other(carved)] = None
          /\ result.separator = origin.separator /\ carved \in {"manifest", "mandate"}
          /\ origin # None
      BY <1>1, <2>1, <2>3 DEF CarvedHalfSurvives, Traced, CarvedFrom
    <3>2. which = carved
      BY <1>4, <3>1 DEF Other
    <3>3. QED
      BY <1>3, <3>1, <3>2
  <2>4. QED
    BY <2>2, <2>3
<1>7. /\ (IF which = "manifest" THEN manifest_token ELSE mandate_token)
             = Assemble(IF which = "manifest" THEN h ELSE None, input[i],
                        IF which = "mandate" THEN h ELSE None)
      /\ (IF which = "manifest" THEN manifest_token ELSE mandate_token) \in Seq(Char)
  <2>1. <<h.alg_code>> \in Seq(Char) /\ <<input[i]>> \in Seq(Char)
    BY <1>3, <1>5
  <2>2. CASE which = "manifest"
    <3>1. manifest_token = (h.text \o <<h.alg_code>>) \o <<input[i]>>
      BY <1>3, <2>2 DEF manifest_token
    <3>2. h.text \o <<h.alg_code>> \in Seq(Char)
      BY <1>5, <2>1, ConcatProperties
    <3>3. manifest_token \in Seq(Char)
      BY <2>1, <3>1, <3>2, ConcatProperties
    <3>4. Assemble(h, input[i], None) = ((h.text \o <<h.alg_code>>) \o <<input[i]>>) \o <<>>
      BY <1>5 DEF Assemble
    <3>5. manifest_token = Assemble(h, input[i], None)
      BY <3>1, <3>3, <3>4, ConcatEmptySeq
    <3>6. QED
      BY <2>2, <3>3, <3>5
  <2>3. CASE which = "mandate"
    <3>1. i < Len(input)
      <4>1. Back(i) # None
        BY <1>3, <1>4, <2>3
      <4>2. i # Len(input)
        BY <1>1, <1>2, <4>1, HalvesRead
      <4>3. QED
        BY <4>2 DEF Measured
    <3>2. mandate_token = <<input[i]>> \o (<<h.alg_code>> \o h.text)
      BY <1>1, <1>2, <1>3, <2>3, <3>1, AssembledAgain DEF mandate_token
    <3>3. <<h.alg_code>> \o h.text \in Seq(Char)
      BY <1>5, <2>1, ConcatProperties
    <3>4. mandate_token \in Seq(Char)
      BY <2>1, <3>2, <3>3, ConcatProperties
    <3>5. Assemble(None, input[i], h) = (<<>> \o <<input[i]>>) \o (<<h.alg_code>> \o h.text)
      BY <1>5 DEF Assemble
    <3>6. mandate_token = Assemble(None, input[i], h)
      BY <2>1, <3>2, <3>5, ConcatEmptySeq
    <3>7. QED
      BY <2>3, <3>4, <3>6
  <2>4. QED
    BY <2>2, <2>3
<1>8. ScanInv' /\ input' = (IF which = "manifest" THEN manifest_token ELSE mandate_token)
  BY <1>4, <1>7, FreshScan DEF Fresh
<1>9. PICK g \in Half : g = h
  BY <1>5
<1>10. CarvedFrom(which, g)'
  <2> HIDE DEF h
  <2>1. input' = Assemble(IF which = "manifest" THEN g ELSE None, origin.separator,
                          IF which = "mandate" THEN g ELSE None)
    BY <1>6, <1>7, <1>8, <1>9
  <2>2. QED
    BY <1>3, <1>4, <1>5, <1>6, <1>9, <2>1 DEF CarvedFrom, Assemble
<1>11. Traced'
  <2>1. carved' = which /\ which # "whole"
    BY <1>4
  <2>2. QED
    BY <1>10, <2>1 DEF Traced
<1>12. QED
  BY <1>8, <1>11 DEF GrammarInv

LEMMA Invariance == Spec => []GrammarInv
<1>1. Init => GrammarInv
  <2> SUFFICES ASSUME Init PROVE GrammarInv
    OBVIOUS
  <2>1. input \in Seq(Char) /\ pos = 0
    BY GrammarAssumption DEF Init, pos
  <2>2. Measured /\ Counted /\ Settled /\ Traced
    BY <2>1 DEF Init, Measured, Counted, Settled, Traced, NoSeparator
  <2>3. QED
    BY <2>2 DEF GrammarInv, ScanInv
<1>2. GrammarInv /\ [Next]_vars => GrammarInv'
  <2> SUFFICES ASSUME GrammarInv, [Next]_vars PROVE GrammarInv'
    OBVIOUS
  <2>1. CASE Scan
    <3>1. Traced'
      BY <2>1 DEF GrammarInv, Traced, CarvedFrom, Assemble, Scan
    <3>2. QED
      BY <2>1, <3>1, Scanning DEF GrammarInv
  <2>2. CASE Finish
    <3>1. ScanInv' /\ result' # None
      BY <2>2, Finishing DEF GrammarInv
    <3>2. /\ carved' = carved /\ input' = input /\ result = None
          /\ origin' = IF origin = None THEN result' ELSE origin
      BY <2>2 DEF Finish
    <3>3. Traced'
      <4>1. CASE carved = "whole"
        BY <3>1, <3>2, <4>1 DEF GrammarInv, Traced
      <4>2. CASE carved # "whole"
        BY <3>2, <4>2 DEF GrammarInv, Traced, CarvedFrom, Assemble
      <4>3. QED
        BY <4>1, <4>2
    <3>4. QED
      BY <3>1, <3>3 DEF GrammarInv
  <2>3. CASE CarveManifest \/ CarveMandate
    BY <2>3, Carving
  <2>4. CASE UNCHANGED vars
    <3>1. /\ UNCHANGED <<input, ends, sep, result, carved, origin>> /\ pos' = pos
          /\ \A i : At(i)' = At(i) /\ (IsSep(i)' <=> IsSep(i))
      BY <2>4 DEF vars, At, pos, IsSep
    <3>2. Measured' /\ Counted'
      BY <3>1 DEF GrammarInv, ScanInv, Measured, Counted, OnlySep
    <3>3. \A i : (OnlySeparator(i)' <=> OnlySeparator(i)) /\ Read(i)' = Read(i)
      BY <3>1 DEF OnlySeparator, Read, Front, Back
    <3>4. Settled' /\ Traced'
      BY <3>1, <3>3 DEF GrammarInv, ScanInv, Settled, Traced, CarvedFrom, Assemble
    <3>5. QED
      BY <3>2, <3>4 DEF GrammarInv, ScanInv
  <2>5. QED
    BY <2>1, <2>2, <2>3, <2>4 DEF Next
<1>3. QED
  BY <1>1, <1>2, PTL DEF Spec

-----------------------------------------------------------------------------
(* parse (token.rs:46) accepts the texts of the grammar and no others, and *)
(* what it returns put together again is the text, for texts of any length.*)
THEOREM ParsesTheGrammar == Spec => []ParseIsGrammar
<1>1. GrammarInv => ParseIsGrammar
  BY ReadsGrammar DEF GrammarInv, ScanInv
<1>2. QED
  BY <1>1, Invariance, PTL

(* No slice of parse falls inside a character, whatever the widths of the  *)
(* characters of the text (token.rs:67, :75, :93).                         *)
THEOREM SlicesAreWhole == Spec => []NeverPanics
<1>1. GrammarInv => NeverPanics
  BY ReadsGrammar DEF GrammarInv, ScanInv
<1>2. QED
  BY <1>1, Invariance, PTL

(* What manifest() and mandate() carve out (verify.rs:349, :378) parses to *)
(* the half it was, however often it is carved again.                      *)
THEOREM HalvesSurvive == Spec => []CarvedHalfSurvives
<1>1. GrammarInv => CarvedHalfSurvives
  BY Surviving DEF GrammarInv
<1>2. QED
  BY <1>1, Invariance, PTL
=============================================================================

---------------------------- MODULE ValueObjects ----------------------------
(***************************************************************************)
(* The value objects: what `parse` makes of a raw string, and what         *)
(* defineValueObject makes of parse, equals and serialize.  An error is    *)
(* its code here, and its code with the name of the class there.           *)
(*                                                                         *)
(* A string is the sequence of its UTF-16 code units.  The lengths are     *)
(* parameters, so that their boundaries are met by short strings; letters  *)
(* and white space are those that TLC is given or listed here.             *)
(***************************************************************************)
EXTENDS Integers, Outcomes

CONSTANTS EmailMax, NameMin, NameMax, PasswordMin, PasswordMaxBytes,
          FileNameMax, ContentTypeMax,
          Letters,          \* the code units of \p{L}
          VideoExtensions   \* ACCEPTED_VIDEO_EXTENSIONS

Space == 32
LeftParen == 40
RightParen == 41
Plus == 43
Dash == 45
Dot == 46
Slash == 47
At == 64
Underscore == 95
Apostrophe == 39
Backslash == 92

Digits == 48..57
Blanks == 9..13 \cup {Space, 160}
CodeUnits == {u \in Nat : u < 65536}
Controls == 0..31 \cup 127..159
WordUnits == Digits \cup 65..90 \cup 97..122 \cup {Underscore}

ASSUME ValueObjectsAssumption ==
    /\ {EmailMax, NameMin, NameMax, PasswordMin, PasswordMaxBytes,
        FileNameMax, ContentTypeMax} \subseteq Nat
    /\ Letters \subseteq CodeUnits /\ Letters \cap (Blanks \cup Digits) = {}

Only(s, units) == \A i \in DOMAIN s : s[i] \in units
Lacks(s, units) == \A i \in DOMAIN s : s[i] \notin units
DigitsOf(s) == FoldLeft(LAMBDA kept, u : IF u \in Digits THEN Append(kept, u) ELSE kept, <<>>, s)
Numbers(s) == [i \in DOMAIN s |-> s[i] - 48]

Trim(s) ==
    LET solid == {i \in DOMAIN s : s[i] \notin Blanks} IN
    IF solid = {} THEN <<>> ELSE SubSeq(s, Min(solid), Max(solid))

\* toLowerCase: one unit becomes two for the I with a dot above.
LowerUnit(u) == IF u \in 65..90 THEN <<u + 32>> ELSE IF u = 304 THEN <<105, 775>> ELSE <<u>>
Lower(s) == FoldLeft(LAMBDA low, u : low \o LowerUnit(u), <<>>, s)
-----------------------------------------------------------------------------
\* CPF and CNPJ.

Weighted(numbers, weights) == SumFunction([i \in DOMAIN numbers |-> numbers[i] * weights[i]])

\* Mutant: a remainder of 1 gives 10, which is no digit.
MutantCheckDigit(numbers, weights) ==
    LET remainder == Weighted(numbers, weights) % 11 IN
    IF remainder = 0 THEN 0 ELSE 11 - remainder

CalculateCheckDigit(numbers, weights) ==
    LET remainder == Weighted(numbers, weights) % 11 IN
    IF remainder < 2 THEN 0 ELSE 11 - remainder

CpfWeights(n) == [i \in 1..n |-> n + 2 - i]
FirstCnpjWeights == <<5, 4, 3, 2, 9, 8, 7, 6, 5, 4, 3, 2>>
SecondCnpjWeights == <<6>> \o FirstCnpjWeights

IsValidCheckDigits(numbers, firstWeights, secondWeights) ==
    LET n == Len(firstWeights)
        base == SubSeq(numbers, 1, n)
        first == CalculateCheckDigit(base, firstWeights)
        second == CalculateCheckDigit(Append(base, first), secondWeights)
    IN numbers[n + 1] = first /\ numbers[n + 2] = second

ParseDocument(raw, punctuation, firstWeights, secondWeights) ==
    LET digits == DigitsOf(raw) IN
    IF raw = <<>> \/ ~Only(raw, Digits \cup Blanks \cup punctuation) THEN Err("INVALID_CHARACTERS")
    ELSE IF Len(digits) # Len(secondWeights) + 1 THEN Err("INVALID_LENGTH")
    ELSE IF \A i \in DOMAIN digits : digits[i] = digits[1] THEN Err("ALL_SAME_DIGIT")
    ELSE IF ~IsValidCheckDigits(Numbers(digits), firstWeights, secondWeights)
         THEN Err("INVALID_CHECK_DIGIT")
    ELSE Ok(digits)

Cpf(raw) == ParseDocument(raw, {Dot, Dash}, CpfWeights(9), CpfWeights(10))
Cnpj(raw) == ParseDocument(raw, {Dot, Dash, Slash}, FirstCnpjWeights, SecondCnpjWeights)
-----------------------------------------------------------------------------
\* Phone.

UnassignedDdd == {20, 23, 25, 26, 29, 30, 36, 39, 40, 50, 52, 56, 57, 58, 59, 60,
                  70, 72, 76, 78, 80, 90}
IsValidDdd(ddd) == ddd \in 11..99 \ UnassignedDdd

CountryCode == <<53, 53>>

\* Mutant: a 55 in front is taken for the country code whatever follows.
MutantAnyLength(digits) ==
    IF IsPrefix(CountryCode, digits) THEN SubSeq(digits, 3, Len(digits)) ELSE digits

\* Mutant: the ninth digit of mobile numbers is not counted.
MutantEightDigits(digits) ==
    IF IsPrefix(CountryCode, digits) /\ Len(digits) = 12
    THEN SubSeq(digits, 3, Len(digits)) ELSE digits

\* The digits without the country code; 55 is an area code as well.
WithoutCountryCode(digits) ==
    IF IsPrefix(CountryCode, digits) /\ Len(digits) \in {12, 13}
    THEN SubSeq(digits, 3, Len(digits)) ELSE digits

IsLocalNumber(n) ==
    \/ Len(n) = 9 /\ n[1] = 9 /\ n[2] \in 6..9
    \/ Len(n) = 8 /\ n[1] \in 2..5

Phone(raw) ==
    LET digits == WithoutCountryCode(DigitsOf(raw))
        n == Numbers(digits)
    IN
    IF raw = <<>> \/ ~Only(raw, Digits \cup Blanks \cup {LeftParen, RightParen, Plus, Dash})
    THEN Err("INVALID_CHARACTERS")
    ELSE IF Len(digits) \notin {10, 11} THEN Err("INVALID_LENGTH")
    ELSE IF ~IsValidDdd(10 * n[1] + n[2]) THEN Err("INVALID_DDD")
    ELSE IF ~IsLocalNumber(SubSeq(n, 3, Len(n))) THEN Err("INVALID_LOCAL_NUMBER")
    ELSE Ok(digits)
-----------------------------------------------------------------------------
\* Email, Name and Password.

IsEmail(s) ==
    \E at, dot \in DOMAIN s :
        /\ 1 < at /\ at + 1 < dot /\ dot < Len(s)
        /\ s[at] = At /\ s[dot] = Dot
        /\ \A i \in DOMAIN s \ {at} : s[i] \notin Blanks \cup {At}

Email(raw) ==
    LET trimmed == Trim(raw) IN
    IF trimmed = <<>> THEN Err("EMPTY")
    ELSE IF Len(trimmed) > EmailMax THEN Err("TOO_LONG")
    ELSE IF ~IsEmail(trimmed) THEN Err("INVALID_FORMAT")
    ELSE Ok(Lower(trimmed))

\* A blank is taken for a space, unless there is one before it.
CollapseUnit(collapsed, u) ==
    IF u \notin Blanks THEN Append(collapsed, u)
    ELSE IF Last(collapsed) = Space THEN collapsed ELSE Append(collapsed, Space)

Collapsed(s) == FoldLeft(CollapseUnit, <<>>, Trim(s))

IsName(s) ==
    /\ Only(s, Letters \cup Blanks \cup {Apostrophe, Dash})
    /\ s[1] \in Letters /\ s[Len(s)] \in Letters
    /\ \A i \in 2..Len(s) : s[i] \in Letters \/ s[i - 1] \in Letters

Name(raw) ==
    LET normalized == Collapsed(raw) IN
    IF normalized = <<>> THEN Err("EMPTY")
    ELSE IF Len(normalized) < NameMin THEN Err("TOO_SHORT")
    ELSE IF Len(normalized) > NameMax THEN Err("TOO_LONG")
    ELSE IF ~IsName(normalized) THEN Err("INVALID_FORMAT")
    ELSE Ok(normalized)

HighSurrogates == {u \in CodeUnits : 55296 <= u /\ u < 56320}
LowSurrogates == {u \in CodeUnits : 56320 <= u /\ u < 57344}

\* The bytes the loop has counted, and whether it skips the next unit.
CountUnit(counted, u) ==
    IF counted.skip THEN [counted EXCEPT !.skip = FALSE]
    ELSE [bytes |-> counted.bytes + (IF u < 128 THEN 1 ELSE IF u < 2048 THEN 2
                                     ELSE IF u \notin HighSurrogates THEN 3 ELSE 4),
          skip |-> u \in HighSurrogates]

\* Mutant: the length in code units.
MutantByteLength(s) == Len(s)

ByteLength(s) == FoldLeft(CountUnit, [bytes |-> 0, skip |-> FALSE], s).bytes

Password(raw) ==
    IF Len(raw) < PasswordMin THEN Err("TOO_SHORT")
    ELSE IF ByteLength(raw) > PasswordMaxBytes THEN Err("TOO_LONG")
    ELSE IF Lacks(raw, Letters) THEN Err("NO_LETTER")
    ELSE IF Lacks(raw, Digits) THEN Err("NO_DIGIT")
    ELSE Ok(raw)
-----------------------------------------------------------------------------
\* VideoFileName and VideoFile.

ExtensionOf(name) ==
    LET dots == {i \in DOMAIN name : name[i] = Dot} IN
    IF dots = {} THEN <<>> ELSE Lower(SubSeq(name, Max(dots) + 1, Len(name)))

VideoFileName(raw) ==
    LET name == Trim(raw) IN
    IF \/ Len(name) \notin 1..FileNameMax
       \/ ~Lacks(name, Controls \cup {Slash, Backslash})
    THEN Err("INVALID_FILE_NAME")
    ELSE IF ExtensionOf(name) \notin VideoExtensions THEN Err("UNSUPPORTED_EXTENSION")
    ELSE Ok(name)

IsMimeType(s) ==
    \E i \in 2..Len(s) - 1 :
        s[i] = Slash /\ \A j \in DOMAIN s \ {i} : s[j] \in WordUnits \cup {Dot, Plus, Dash}

VideoFile(raw) ==
    LET name == VideoFileName(raw.name)
        contentType == Trim(raw.contentType)
    IN
    IF ~name.ok THEN name
    ELSE IF Len(contentType) > ContentTypeMax \/ ~IsMimeType(contentType)
         THEN Err("INVALID_CONTENT_TYPE")
    ELSE Ok([name |-> name.value, contentType |-> contentType])
-----------------------------------------------------------------------------
\* defineValueObject.

Parse(name, raw) ==
    CASE name = "Cpf" -> Cpf(raw)
      [] name = "Cnpj" -> Cnpj(raw)
      [] name = "Phone" -> Phone(raw)
      [] name = "Email" -> Email(raw)
      [] name = "Name" -> Name(raw)
      [] name = "Password" -> Password(raw)
      [] name = "VideoFileName" -> VideoFileName(raw)
      [] name = "VideoFile" -> VideoFile(raw)

Create(name, raw) ==
    MapErr(Parse(name, raw), LAMBDA code : [valueObject |-> name, code |-> code])

Is(name, raw) == Parse(name, raw).ok

Equals(name, a, b) ==
    IF name = "VideoFile" THEN a.name = b.name /\ a.contentType = b.contentType ELSE a = b

Redacted == <<91, 114, 101, 100, 97, 99, 116, 101, 100, 93>>

\* The serialize of the class: a password never leaves its object.
ToJSON(name, value) ==
    IF name = "Password" THEN Redacted
    ELSE IF name = "VideoFile" THEN [name |-> value.name, contentType |-> value.contentType]
    ELSE value
=============================================================================

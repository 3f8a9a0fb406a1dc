------------------------------ MODULE IDFormat ------------------------------
(***************************************************************************)
(* The string forms of IDs in help/id_generator.go, as pure operators:    *)
(* strconv's base-10 FormatUint, ParseUint and ParseInt, the prefixed IDs  *)
(* ("P%d", "R%d", "M%d", "S%d") and their Parse*ID functions, the int64    *)
(* conversion Uint64ToInt64, and the validity checks.  A string is a       *)
(* sequence of one-character strings; the word width is a parameter (64    *)
(* in Go).                                                                 *)
(***************************************************************************)
EXTENDS Integers, Sequences

DigitChar == <<"0", "1", "2", "3", "4", "5", "6", "7", "8", "9">>
DigitChars == {DigitChar[i] : i \in 1..10}
DigitVal(ch) == CHOOSE d \in 0..9 : DigitChar[d + 1] = ch

(* Faulty variant of Uint64ToString: the digits come out least          *)
(* significant first.                                                     *)
RECURSIVE Uint64ToStringReversed(_)
Uint64ToStringReversed(x) ==
  IF x < 10 THEN <<DigitChar[x + 1]>>
  ELSE <<DigitChar[(x % 10) + 1]>> \o Uint64ToStringReversed(x \div 10)

(* strconv.FormatUint(x, 10): the decimal digits, no leading zeros. *)
RECURSIVE Uint64ToString(_)
Uint64ToString(x) ==
  IF x < 10 THEN <<DigitChar[x + 1]>>
  ELSE Uint64ToString(x \div 10) \o <<DigitChar[(x % 10) + 1]>>

(* strconv's digit loop: left to right, a non-digit is a syntax error and *)
(* a value past 2^bits - 1 a range error, whichever comes first; a range  *)
(* error returns the maximum value, a syntax error 0.                      *)
RECURSIVE ScanUint(_, _, _)
ScanUint(s, n, bits) ==
  IF s = <<>> THEN [err |-> "none", val |-> n]
  ELSE IF Head(s) \notin DigitChars THEN [err |-> "syntax", val |-> 0]
  ELSE LET n1 == n * 10 + DigitVal(Head(s)) IN
       IF n1 > 2^bits - 1 THEN [err |-> "range", val |-> 2^bits - 1]
       ELSE ScanUint(Tail(s), n1, bits)

(* strconv.ParseUint(s, 10, bits). *)
StringToUint64(s, bits) ==
  IF s = <<>> THEN [err |-> "syntax", val |-> 0] ELSE ScanUint(s, 0, bits)

(* strconv.ParseInt(s, 10, bits): an optional sign, the unsigned parse,   *)
(* then the range check against 2^(bits-1).                                *)
StringToInt64(s, bits) ==
  LET neg    == s # <<>> /\ Head(s) = "-"
      digits == IF s # <<>> /\ Head(s) \in {"+", "-"} THEN Tail(s) ELSE s
      un     == StringToUint64(digits, bits)
      cutoff == 2^(bits - 1)
  IN IF s = <<>> \/ un.err = "syntax" THEN [err |-> "syntax", val |-> 0]
     ELSE IF ~neg /\ un.val >= cutoff THEN [err |-> "range", val |-> cutoff - 1]
     ELSE IF neg /\ un.val > cutoff THEN [err |-> "range", val |-> -cutoff]
     ELSE [err |-> "none", val |-> IF neg THEN -un.val ELSE un.val]

(* Uint64ToInt64: an id past the int64 maximum wraps to id - 2^63. *)
Uint64ToInt64(id, bits) ==
  IF id > 2^(bits - 1) - 1 THEN id - 2^(bits - 1) ELSE id

(* GeneratePlayerID, GenerateRoomID, GenerateMatchID, GenerateSessionID:  *)
(* fmt.Sprintf of the prefix letter and the id in decimal.                 *)
PrefixedID(prefix, id) == <<prefix>> \o Uint64ToString(id)

(* ParsePlayerID, ParseRoomID, ParseMatchID, ParseSessionID: at least two *)
(* characters starting with the prefix, then ParseUint of the rest.       *)
ParsePrefixedID(prefix, s, bits) ==
  IF Len(s) < 2 \/ s[1] # prefix THEN [err |-> "format", val |-> 0]
  ELSE StringToUint64(Tail(s), bits)

(* The ...ToInt64 variants of the same four functions: ParseInt instead. *)
ParsePrefixedIDToInt64(prefix, s, bits) ==
  IF Len(s) < 2 \/ s[1] # prefix THEN [err |-> "format", val |-> 0]
  ELSE StringToInt64(Tail(s), bits)

(* IsValidUint64ID (id <= max uint64 always holds) and IsValidIDString. *)
IsValidUint64ID(id) == id > 0
IsValidIDString(s, bits) ==
  /\ s # <<>>
  /\ StringToUint64(s, bits).err = "none"
  /\ IsValidUint64ID(StringToUint64(s, bits).val)
==============================================================================

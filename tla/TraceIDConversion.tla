-------------------------- MODULE TraceIDConversion --------------------------
(***************************************************************************)
(* convertTraceID (service.go 1378-1390), which logFields and logKVs apply *)
(* to TraceID().String() (32 hex characters) and SpanID().String() (16) to *)
(* get the trace_id and span_id fields: ids shorter than 16 characters     *)
(* give "", longer ones lose their first 16 characters, and the rest goes  *)
(* through strconv.ParseUint(id, 16, 64) and strconv.FormatUint(v, 10).    *)
(*                                                                         *)
(* The width is scaled: W hex characters stand for 16, and the parsed      *)
(* integer has 4*W bits instead of 64, so TLC's integers hold it.  Strings *)
(* are sequences of one-character strings.  The operators are used by      *)
(* SugarPairs, whose logKVs calls convertTraceID on the span's ids.        *)
(***************************************************************************)
EXTENDS Integers, Sequences, SequencesExt, Folds

CONSTANT W   \* characters of a span id (16 in the code)

HexDigits == <<"0", "1", "2", "3", "4", "5", "6", "7", "8", "9",
               "a", "b", "c", "d", "e", "f">>
HexChars  == Range(HexDigits)
HexVal    == [c \in HexChars |-> CHOOSE v \in 0..15 : HexDigits[v + 1] = c]
DecChars  == <<"0", "1", "2", "3", "4", "5", "6", "7", "8", "9">>

Bits   == 4 * W
MaxVal == 2^Bits - 1

ASSUME W \in 1..3

-----------------------------------------------------------------------------
(* strconv and convertTraceID.                                             *)

Err == [ok |-> FALSE, val |-> 0]

\* The digit loop of strconv.ParseUint for base 16 and bitSize 4*W: a
\* non-hex digit is a syntax error; n >= cutoff, or n*16+d above maxVal,
\* is a range error.
RECURSIVE ParseDigits(_, _)
ParseDigits(s, n) ==
  CASE s = <<>>                      -> [ok |-> TRUE, val |-> n]
    [] s[1] \notin HexChars          -> Err
    [] n >= MaxVal \div 16 + 1       -> Err
    [] n * 16 + HexVal[s[1]] > MaxVal -> Err
    [] OTHER                         -> ParseDigits(Tail(s), n * 16 + HexVal[s[1]])

\* strconv.ParseUint(s, 16, 4*W): the empty string is a syntax error.
ParseUint(s) == IF s = <<>> THEN Err ELSE ParseDigits(s, 0)

\* strconv.FormatUint(v, 10).
RECURSIVE FormatUint(_)
FormatUint(v) ==
  IF v < 10 THEN <<DecChars[v + 1]>>
  ELSE FormatUint(v \div 10) \o <<DecChars[(v % 10) + 1]>>

\* Fault-injection variant: id = id[15:], one character too many kept.
convertTraceID_KeepsOneMore(s) ==
  IF Len(s) < W THEN <<>>
  ELSE LET low == IF Len(s) > W THEN SubSeq(s, W, Len(s)) ELSE s
           p   == ParseUint(low)
       IN IF p.ok THEN FormatUint(p.val) ELSE <<>>

convertTraceID(s) ==
  IF Len(s) < W THEN <<>>
  ELSE LET low == IF Len(s) > W THEN SubSeq(s, W + 1, Len(s)) ELSE s
           p   == ParseUint(low)
       IN IF p.ok THEN FormatUint(p.val) ELSE <<>>

-----------------------------------------------------------------------------
(* Reference definitions, positional rather than by a digit loop.          *)

\* The number a hex string denotes: the sum of digit * 16^position.
HexNumber(s) ==
  MapThenFoldSet(+, 0, LAMBDA i : HexVal[s[i]] * 16^(Len(s) - i),
                 LAMBDA S : CHOOSE i \in S : TRUE, DOMAIN s)

\* Its low 4*W bits.
Low(s) == HexNumber(s) % 2^Bits

\* The decimal digits of v: the k-th from the right is (v \div 10^(k-1)) % 10,
\* for as many places as v needs (one for zero).
Decimal(v) ==
  LET n == CHOOSE k \in 1..Bits : v < 10^k IN
  [i \in 1..n |-> DecChars[((v \div 10^(n - i)) % 10) + 1]]

IsHexString(s) == \A i \in DOMAIN s : s[i] \in HexChars

\* The last W characters: the low 4*W bits of a hex id.
LowChars(s) == SubSeq(s, Len(s) - W + 1, Len(s))

=============================================================================

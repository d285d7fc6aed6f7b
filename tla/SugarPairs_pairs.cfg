\* Strings, ints and non-string keys in every position, no zap.Field; every
\* trace id of 2W and span id of W characters over 0, 1 and f (W = 2
\* characters standing for 16).
CONSTANTS
  Strings <- PlainStrings
  Others <- PlainOthers
  ZapFields <- NoZapField
  IdChars <- EdgeHex
  MaxLen = 4
  W = 2
SPECIFICATION Spec
INVARIANT TypeOK
INVARIANT SpanAttrsMatchRecord
INVARIANT TraceFieldsInDecimal

\* A zap.Field among the key/value arguments.
CONSTANTS
  Strings <- PlainStrings
  Others <- PlainOthers
  ZapFields <- OneZapField
  IdChars = {"0"}
  MaxLen = 4
  W = 2
SPECIFICATION Spec
INVARIANT SpanAttrsMatchRecord

---------------------------- MODULE MC_SugarPairs ----------------------------
(* Argument values for checking SugarPairs with TLC.  Each caller value is  *)
(* one symbolic character; its Go type is the set it is drawn from.        *)
EXTENDS SugarPairs

\* Two string keys (also usable as values) and an int.
PlainStrings == {<<"k1">>, <<"k2">>}
PlainOthers  == {<<"n1">>}
\* One zap.Field, e.g. zap.Error(err) or zap.Stack().
OneZapField  == {<<"f1">>}
NoZapField   == {}
\* Ids of zeros, ones and f digits: leading zeros, zero and the maximum.
EdgeHex      == {"0", "1", "f"}
=============================================================================

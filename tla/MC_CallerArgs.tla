---------------------------- MODULE MC_CallerArgs ----------------------------
(* Argument slices for checking CallerArgs with TLC.                       *)
EXTENDS CallerArgs

\* One caller argument, zap.String("req", id) or the pair "req", id.
OneCallerField == << Elem("req", NoSpan) >>

\* One extra field configured by WithExtraFields.
OneExtra == << Elem("svc", NoSpan) >>

\* A slice built with make([]zap.Field, 1, 8) or kept from an earlier
\* append: spare capacity, and the tight slice a literal gives.
SpareCaps == {1, 8}
=============================================================================

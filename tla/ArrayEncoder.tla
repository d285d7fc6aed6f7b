---------------------------- MODULE ArrayEncoder ----------------------------
(***************************************************************************)
(* appendField's zapcore.ArrayMarshalerType case (service.go 1098-1111)    *)
(* and the bufferArrayEncoder it hands the field's MarshalLogArray         *)
(* (1233-1336).  Every Append<Type> call adds one string to the encoder's  *)
(* stringsSlice: the value itself for AppendString, fmt.Sprintf("%v", v)   *)
(* otherwise.  AppendArray and AppendObject encode the nested value into a *)
(* fresh encoder, add its "%v" rendering, and return its error.            *)
(*                                                                         *)
(* The marshalers are the caller's code: one is modelled by what it does  *)
(* to the encoder, the elements it appends in order, whether it returns    *)
(* the error of a nested Append (the `if err := ...; err != nil { return   *)
(* err }` of zap's own marshalers) and whether it fails by itself.  A      *)
(* primitive is its "%v" text; an object is the text of its map and        *)
(* whether its MarshalLogObject fails.                                     *)
(***************************************************************************)
EXTENDS Integers, Sequences, SequencesExt

\* fmt.Sprintf("%v", ss) for a []string: the elements between brackets,
\* separated by single spaces.
Brackets(ss) ==
  "[" \o (IF ss = <<>> THEN ""
          ELSE FoldLeft(LAMBDA acc, s : acc \o " " \o s, Head(ss), Tail(ss)))
  \o "]"

-----------------------------------------------------------------------------
(* The encoder.  A marshaler is [elems, propagate, fail]; an element is    *)
(* [kind |-> "prim", text], [kind |-> "object", text, fail] or             *)
(* [kind |-> "array", arr |-> a marshaler].                                *)

RECURSIVE AppendElem(_, _), MarshalLogArray(_, _), MarshalFrom(_, _, _)

\* Fault-injection variant of AppendElem: AppendArray marshals the nested
\* array into the same encoder (enc := t) before adding its rendering.
AppendElem_SharedEncoder(buf, e) ==
  CASE e.kind = "prim"   -> [buf |-> Append(buf, e.text), err |-> FALSE]
    [] e.kind = "object" -> [buf |-> Append(buf, e.text), err |-> e.fail]
    [] e.kind = "array"  ->
         LET r == MarshalLogArray(buf, e.arr)
         IN [buf |-> Append(r.buf, Brackets(r.buf)), err |-> r.err]

\* One Append<Type> call on an encoder holding buf: the new stringsSlice
\* and the error it returns.
AppendElem(buf, e) ==
  CASE e.kind = "prim"   -> [buf |-> Append(buf, e.text), err |-> FALSE]
    [] e.kind = "object" -> [buf |-> Append(buf, e.text), err |-> e.fail]
    [] e.kind = "array"  ->
         LET r == MarshalLogArray(<<>>, e.arr)
         IN [buf |-> Append(buf, Brackets(r.buf)), err |-> r.err]

\* The marshaler's loop from its i-th element on.
MarshalFrom(buf, m, i) ==
  IF i > Len(m.elems) THEN [buf |-> buf, err |-> m.fail]
  ELSE LET r == AppendElem(buf, m.elems[i]) IN
       IF r.err /\ m.propagate THEN [buf |-> r.buf, err |-> TRUE]
       ELSE MarshalFrom(r.buf, m, i + 1)

\* m.MarshalLogArray(enc) on an encoder holding buf.
MarshalLogArray(buf, m) == MarshalFrom(buf, m, 1)

\* appendField, case zapcore.ArrayMarshalerType: a fresh encoder; on error
\* the attribute <key>_error with the error text, else a string slice.
ArrayAttr(key, m) ==
  LET r == MarshalLogArray(<<>>, m) IN
  IF r.err THEN [key |-> key \o "_error", val |-> "otelzap: unable to marshal array"]
  ELSE [key |-> key, val |-> r.buf]

-----------------------------------------------------------------------------
(* Reference definitions, element by element.                              *)

RECURSIVE Fails(_), Reached(_), Rendering(_)

\* Whether an element's Append returns an error.
Fails(e) ==
  \/ e.kind = "object" /\ e.fail
  \/ e.kind = "array" /\ (e.arr.fail \/ (e.arr.propagate /\ \E i \in 1..Reached(e.arr) : Fails(e.arr.elems[i])))

\* How many elements a marshaler appends: up to the first failing one when
\* it returns nested errors, else all.
Reached(m) ==
  LET stops == {i \in DOMAIN m.elems : Fails(m.elems[i])}
  IN IF m.propagate /\ stops # {} THEN Min(stops) ELSE Len(m.elems)

\* The text of one element: its own for a primitive or an object, and for
\* a nested array the texts of the elements it reached between brackets.
Rendering(e) ==
  IF e.kind = "array"
  THEN Brackets([i \in 1..Reached(e.arr) |-> Rendering(e.arr.elems[i])])
  ELSE e.text

\* Spec section 8: an array attribute has one entry per element, the i-th
\* the rendering of the i-th; a failed marshal gives <key>_error instead.
ExpectedArrayAttr(key, m) ==
  IF m.fail \/ (m.propagate /\ \E i \in DOMAIN m.elems : Fails(m.elems[i]))
  THEN [key |-> key \o "_error", val |-> "otelzap: unable to marshal array"]
  ELSE [key |-> key, val |-> [i \in DOMAIN m.elems |-> Rendering(m.elems[i])]]

-----------------------------------------------------------------------------
(* Bounded inputs: marshalers of up to n elements whose nested arrays     *)
(* have one element, nested depth deep.                                    *)

Prims   == {[kind |-> "prim", text |-> t] : t \in {"7", "a b"}}
Objects == {[kind |-> "object", text |-> "map[k:v]", fail |-> f] : f \in BOOLEAN}

SeqsUpTo(S, n) == UNION {[1..l -> S] : l \in 0..n}

RECURSIVE Marshalers(_, _)
Marshalers(depth, n) ==
  LET inner == IF depth = 0 THEN {}
               ELSE {[kind |-> "array", arr |-> a] : a \in Marshalers(depth - 1, 1)}
  IN [elems : SeqsUpTo(Prims \cup Objects \cup inner, n),
      propagate : BOOLEAN, fail : BOOLEAN]

\* Every bounded marshaler's attribute against its reference.
ArrayAttrsMatchReference ==
  \A m \in Marshalers(2, 2) : ArrayAttr("arr", m) = ExpectedArrayAttr("arr", m)

=============================================================================

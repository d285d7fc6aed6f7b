------------------------------ MODULE GoSlices ------------------------------
(***************************************************************************)
(* Go slices over backing arrays, as the bridge's append calls use them    *)
(* (l.extraFields, the caller's fields and keysAndValues).  A heap is a    *)
(* sequence of backing arrays; a slice is [arr, len, cap], arr = 0 the nil *)
(* slice.  append writes in place when the result fits the capacity, and  *)
(* copies into a fresh array otherwise (runtime.growslice: double the      *)
(* capacity below 256 elements, or take the needed length if larger).      *)
(***************************************************************************)
EXTENDS Integers, Sequences

CONSTANT NoField   \* content of an unwritten slot of a backing array

NilSlice == [arr |-> 0, len |-> 0, cap |-> 0]

GrowCap(oldCap, newLen) == IF newLen > 2 * oldCap THEN newLen ELSE 2 * oldCap

\* The elements a slice shows: s[0:len] of its backing array.
Visible(h, s) == IF s.len = 0 THEN <<>> ELSE SubSeq(h[s.arr], 1, s.len)

\* <<heap', slice'>> after append(s, xs...).
GoAppend(h, s, xs) ==
  LET n == Len(xs) IN
  IF n = 0 THEN <<h, s>>
  ELSE IF s.len + n <= s.cap
  THEN <<[h EXCEPT ![s.arr] =
            [i \in 1..s.cap |-> IF i > s.len /\ i <= s.len + n
                                THEN xs[i - s.len] ELSE @[i]]],
         [s EXCEPT !.len = s.len + n]>>
  ELSE LET c == GrowCap(s.cap, s.len + n)
           a == Visible(h, s) \o xs \o [i \in 1..(c - s.len - n) |-> NoField]
       IN <<Append(h, a), [arr |-> Len(h) + 1, len |-> s.len + n, cap |-> c]>>

=============================================================================

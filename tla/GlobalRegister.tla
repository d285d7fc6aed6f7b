--------------------------- MODULE GlobalRegister ---------------------------
(***************************************************************************)
(* What the global logger of pkg/logger promises (service.go 1338-1376):   *)
(* L, S and ReplaceGlobals are "safe for concurrent use", and the function *)
(* ReplaceGlobals returns "restores the original values".  Here each call  *)
(* is one atomic step on a single register holding the global logger; the *)
(* pair _globalL/_globalS is one value.  GlobalLogger, where the calls are *)
(* split at the RWMutex operations, implements this specification.         *)
(***************************************************************************)
EXTENDS Integers, Sequences, SequencesExt

CONSTANTS Goroutines, Loggers, Nop, Scripts

VARIABLES
  reg,        \* the global logger (L() and S().Desugar())
  pc,         \* pc[g]: index of g's next call in Scripts[g]
  restores,   \* restores[g]: the restore closures g holds, latest last
  seen        \* seen[g]: the last value g's L() or S() returned

vars == <<reg, pc, restores, seen>>

Call(g)    == Scripts[g][pc[g]]
Pending(g) == pc[g] <= Len(Scripts[g])
Advance(g) == pc' = [pc EXCEPT ![g] = @ + 1]

\* ReplaceGlobals(logger): install logger, hand back the value it replaced.
Replace(g) ==
  /\ Pending(g) /\ Call(g).op = "replace"
  /\ reg' = Call(g).lg
  /\ restores' = [restores EXCEPT ![g] = Append(@, reg)]
  /\ Advance(g)
  /\ UNCHANGED seen

\* The latest restore closure: reinstate the value it captured.
Restore(g) ==
  /\ Pending(g) /\ Call(g).op = "restore" /\ restores[g] # <<>>
  /\ reg' = Last(restores[g])
  /\ restores' = [restores EXCEPT ![g] = Front(@)]
  /\ Advance(g)
  /\ UNCHANGED seen

\* L() or S(): read the register.
Read(g) ==
  /\ Pending(g) /\ Call(g).op \in {"L", "S"}
  /\ seen' = [seen EXCEPT ![g] = reg]
  /\ Advance(g)
  /\ UNCHANGED <<reg, restores>>

Init ==
  /\ reg = Nop
  /\ pc = [g \in Goroutines |-> 1]
  /\ restores = [g \in Goroutines |-> <<>>]
  /\ seen = [g \in Goroutines |-> Nop]

Step(g) == Replace(g) \/ Restore(g) \/ Read(g)

\* Every call a goroutine can make, it eventually makes.
Spec == Init /\ [][\E g \in Goroutines : Step(g)]_vars
             /\ \A g \in Goroutines : WF_vars(Step(g))

=============================================================================

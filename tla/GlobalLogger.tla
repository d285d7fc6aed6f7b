---------------------------- MODULE GlobalLogger ----------------------------
(***************************************************************************)
(* The process-wide logger of pkg/logger (service.go lines 1338-1376):    *)
(* _globalL and _globalS behind the RWMutex _globalMu, read by L() and S() *)
(* and swapped by ReplaceGlobals, whose returned closure calls             *)
(* ReplaceGlobals(prev).                                                   *)
(*                                                                         *)
(* Each goroutine runs a script of calls; a call is split at the lock      *)
(* operations so that goroutines interleave where the code lets them.  A  *)
(* logger is a model value; the sugared logger logger.Sugar() is          *)
(* represented by the logger it wraps (its field l).                       *)
(***************************************************************************)
EXTENDS Integers, Sequences, SequencesExt, TLC

CONSTANTS
  Goroutines,   \* goroutines using the global logger
  Loggers,      \* *Logger values passed to ReplaceGlobals
  Nop,          \* NewOtel(zap.NewNop()), the initial _globalL
  Scripts,      \* Scripts[g]: the calls goroutine g makes, in order
  NoOne         \* no goroutine holds the write lock

Calls == [op : {"replace"}, lg : Loggers] \cup [op : {"restore", "L", "S"}]

ASSUME
  /\ Nop \notin Loggers
  /\ Scripts \in [Goroutines -> Seq(Calls)]
  /\ NoOne \notin Goroutines

VARIABLES
  globalL,    \* _globalL
  globalS,    \* _globalS, as the logger it sugars
  writer,     \* goroutine holding _globalMu.Lock, or NoOne
  readers,    \* goroutines holding _globalMu.RLock
  pc,         \* pc[g]: index of g's current call in Scripts[g]
  step,       \* step[g]: where g is inside its current call
  target,     \* target[g]: the logger g's ReplaceGlobals installs
  prev,       \* prev[g]: the local prev of g's ReplaceGlobals
  restores,   \* restores[g]: the restore closures g holds, latest last
  seen        \* seen[g]: the last value g's L() or S() returned

vars == <<globalL, globalS, writer, readers, pc, step, target, prev, restores, seen>>

AllLoggers == Loggers \cup {Nop}

Current(g) == Scripts[g][pc[g]]
Running(g) == pc[g] <= Len(Scripts[g])

\* Finish g's current call and move to the next one.
Done(g) == /\ pc' = [pc EXCEPT ![g] = @ + 1]
           /\ step' = [step EXCEPT ![g] = "start"]

-----------------------------------------------------------------------------
(* ReplaceGlobals(logger), called directly ("replace") or by a restore     *)
(* closure with the prev it captured ("restore").                          *)

\* _globalMu.Lock(): the write lock waits for every holder to leave.
ReplaceLock(g) ==
  /\ Running(g) /\ step[g] = "start"
  /\ \/ Current(g).op = "replace" /\ target' = [target EXCEPT ![g] = Current(g).lg]
     \/ Current(g).op = "restore" /\ restores[g] # <<>>
        /\ target' = [target EXCEPT ![g] = Last(restores[g])]
  /\ writer = NoOne /\ readers = {}
  /\ writer' = g
  /\ step' = [step EXCEPT ![g] = "locked"]
  /\ UNCHANGED <<globalL, globalS, readers, pc, prev, restores, seen>>

\* prev := _globalL; _globalL = logger
ReplaceSwap(g) ==
  /\ Running(g) /\ step[g] = "locked"
  /\ prev' = [prev EXCEPT ![g] = globalL]
  /\ globalL' = target[g]
  /\ step' = [step EXCEPT ![g] = "swapped"]
  /\ UNCHANGED <<globalS, writer, readers, pc, target, restores, seen>>

\* Fault-injection variant of ReplaceSugar: _globalS is not updated.
ReplaceSugar_Missing(g) ==
  /\ Running(g) /\ step[g] = "swapped"
  /\ step' = [step EXCEPT ![g] = "sugared"]
  /\ UNCHANGED <<globalL, globalS, writer, readers, pc, target, prev, restores, seen>>

\* _globalS = logger.Sugar()
ReplaceSugar(g) ==
  /\ Running(g) /\ step[g] = "swapped"
  /\ globalS' = target[g]
  /\ step' = [step EXCEPT ![g] = "sugared"]
  /\ UNCHANGED <<globalL, writer, readers, pc, target, prev, restores, seen>>

\* Fault-injection variant of ReplaceUnlock: the closure captures the new
\* logger instead of prev.
ReplaceUnlock_CapturesNew(g) ==
  /\ Running(g) /\ step[g] = "sugared"
  /\ writer' = NoOne
  /\ restores' = [restores EXCEPT ![g] =
                    IF Current(g).op = "replace" THEN Append(@, target[g])
                    ELSE Front(@)]
  /\ Done(g)
  /\ UNCHANGED <<globalL, globalS, readers, target, prev, seen>>

\* _globalMu.Unlock(); return func() { ReplaceGlobals(prev) }.  A direct
\* call keeps the closure; a restore drops the closure it ran and ignores
\* the one its own ReplaceGlobals returns.
ReplaceUnlock(g) ==
  /\ Running(g) /\ step[g] = "sugared"
  /\ writer' = NoOne
  /\ restores' = [restores EXCEPT ![g] =
                    IF Current(g).op = "replace" THEN Append(@, prev[g])
                    ELSE Front(@)]
  /\ Done(g)
  /\ UNCHANGED <<globalL, globalS, readers, target, prev, seen>>

-----------------------------------------------------------------------------
(* L() and S(): RLock, read, RUnlock.                                      *)

\* Fault-injection variant of ReadLock: RLock does not wait for the writer.
ReadLock_NoWait(g) ==
  /\ Running(g) /\ step[g] = "start" /\ Current(g).op \in {"L", "S"}
  /\ readers' = readers \cup {g}
  /\ step' = [step EXCEPT ![g] = "rlocked"]
  /\ UNCHANGED <<globalL, globalS, writer, pc, target, prev, restores, seen>>

ReadLock(g) ==
  /\ Running(g) /\ step[g] = "start" /\ Current(g).op \in {"L", "S"}
  /\ writer = NoOne
  /\ readers' = readers \cup {g}
  /\ step' = [step EXCEPT ![g] = "rlocked"]
  /\ UNCHANGED <<globalL, globalS, writer, pc, target, prev, restores, seen>>

\* Fault-injection variant of ReadUnlock: the read lock is never released.
ReadUnlock_NoRUnlock(g) ==
  /\ Running(g) /\ step[g] = "rlocked"
  /\ seen' = [seen EXCEPT ![g] = IF Current(g).op = "L" THEN globalL ELSE globalS]
  /\ Done(g)
  /\ UNCHANGED <<globalL, globalS, writer, readers, target, prev, restores>>

\* l := _globalL (L) or s := _globalS (S); _globalMu.RUnlock()
ReadUnlock(g) ==
  /\ Running(g) /\ step[g] = "rlocked"
  /\ seen' = [seen EXCEPT ![g] = IF Current(g).op = "L" THEN globalL ELSE globalS]
  /\ readers' = readers \ {g}
  /\ Done(g)
  /\ UNCHANGED <<globalL, globalS, writer, target, prev, restores>>

-----------------------------------------------------------------------------

Init ==
  /\ globalL = Nop
  /\ globalS = Nop
  /\ writer = NoOne
  /\ readers = {}
  /\ pc = [g \in Goroutines |-> 1]
  /\ step = [g \in Goroutines |-> "start"]
  /\ target = [g \in Goroutines |-> Nop]
  /\ prev = [g \in Goroutines |-> Nop]
  /\ restores = [g \in Goroutines |-> <<>>]
  /\ seen = [g \in Goroutines |-> Nop]

Next ==
  \E g \in Goroutines :
    \/ ReplaceLock(g) \/ ReplaceSwap(g) \/ ReplaceSugar(g) \/ ReplaceUnlock(g)
    \/ ReadLock(g) \/ ReadUnlock(g)

\* The Go scheduler eventually runs every runnable goroutine.
Fairness == \A g \in Goroutines : WF_vars(
              ReplaceLock(g) \/ ReplaceSwap(g) \/ ReplaceSugar(g) \/ ReplaceUnlock(g)
              \/ ReadLock(g) \/ ReadUnlock(g))

Spec == Init /\ [][Next]_vars /\ Fairness

-----------------------------------------------------------------------------
(* Properties.                                                             *)

TypeOK ==
  /\ globalL \in AllLoggers /\ globalS \in AllLoggers
  /\ writer \in Goroutines \cup {NoOne}
  /\ readers \subseteq Goroutines
  /\ writer # NoOne => readers = {}
  /\ pc \in [Goroutines -> Nat]
  /\ restores \in [Goroutines -> Seq(AllLoggers)]
  /\ seen \in [Goroutines -> AllLoggers]

Finished == \A g \in Goroutines : ~Running(g)

(* ReplaceGlobals swaps _globalL and _globalS together under the write     *)
(* lock: whenever no goroutine holds it, S().Desugar() is L().             *)
PairConsistent ==
  writer = NoOne => globalS = globalL

(* The restore closure reinstates what ReplaceGlobals replaced: once every *)
(* goroutine has run its script, each replace undone by its restore, the   *)
(* global logger is the initial one again.                                 *)
RestoreReinstatesOriginal ==
  Finished /\ (\A g \in Goroutines : restores[g] = <<>>)
    => globalL = Nop /\ globalS = Nop

\* The calls a goroutine has made, counting a ReplaceGlobals whose swap is
\* done (it takes effect there); and the restore closures it holds then.
Linearized(g) == step[g] \in {"swapped", "sugared"}

AbsPc == [g \in Goroutines |-> IF Linearized(g) THEN pc[g] + 1 ELSE pc[g]]

AbsRestores ==
  [g \in Goroutines |->
     CASE ~Linearized(g)               -> restores[g]
       [] Current(g).op = "replace"    -> Append(restores[g], prev[g])
       [] OTHER                        -> Front(restores[g])]

Abs == INSTANCE GlobalRegister
         WITH reg <- globalL, pc <- AbsPc, restores <- AbsRestores

(* L, S and ReplaceGlobals are "safe for concurrent use": every behaviour  *)
(* of the lock-split calls is a behaviour of the atomic register, each     *)
(* ReplaceGlobals taking effect at its swap of _globalL and each L()/S()   *)
(* at its read, and every call is eventually made.                         *)
ImplementsGlobalRegister == Abs!Spec

(* Every goroutine's calls complete: the RWMutex never blocks a goroutine  *)
(* forever.                                                                *)
AllCallsComplete == <>Finished

=============================================================================

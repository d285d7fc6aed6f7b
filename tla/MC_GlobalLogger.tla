-------------------------- MODULE MC_GlobalLogger --------------------------
(* Goroutine scripts for checking GlobalLogger with TLC.                   *)
EXTENDS GlobalLogger

CONSTANTS g1, g2, lA, lB

Replace(lg) == [op |-> "replace", lg |-> lg]
Restore     == [op |-> "restore"]
ReadL       == [op |-> "L"]
ReadS       == [op |-> "S"]

\* One goroutine nests two scopes (restore deferred, so LIFO) while
\* another reads the globals.
NestedScripts ==
  (g1 :> <<Replace(lA), Replace(lB), ReadS, Restore, Restore>>) @@
  (g2 :> <<ReadL, ReadS, ReadL>>)

=============================================================================

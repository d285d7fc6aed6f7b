--------------------------- MODULE MC_Deployment ---------------------------
(* The launcher's command-line invocations with gateway requests.          *)
EXTENDS Deployment, MC_Launcher

CONSTANTS r1, r2, u1, u2
=============================================================================

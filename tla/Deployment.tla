----------------------------- MODULE Deployment -----------------------------
(***************************************************************************)
(* The gateway's user handler composed with the process the launcher       *)
(* starts.  The gateway's Connect client reaches the userserver only once  *)
(* that process has run the userserver's Run closure up to              *)
(* go grpc.ServeBuf (Launcher's outcome "serving" with cmd "userserver");  *)
(* before that, and for any other process, the call is unavailable.        *)
(* Requests arrive and are handled at any point of the launch.             *)
(***************************************************************************)
EXTENDS Launcher

CONSTANTS Requests, Ids, Users, NoId

VARIABLES req, resp

\* The userserver serves its Connect handler.
UserserverServes == outcome = "serving" /\ cmd = "userserver"

G == INSTANCE Gateway WITH serving <- UserserverServes

allVars == <<vars, req, resp>>

DeploymentInit == Init /\ G!Init

\* A launcher step, or a gateway handler step; neither changes the other.
DeploymentNext ==
  \/ Next /\ UNCHANGED <<req, resp>>
  \/ G!Next /\ UNCHANGED vars

DeploymentSpec == DeploymentInit /\ [][DeploymentNext]_allVars

GatewayTypeOK == G!TypeOK

(* See Gateway: every request is answered at most once, and a 200 to       *)
(* GET /users/{id} carries the stored user, whatever stage the launched    *)
(* process is in when the request is handled.                              *)
OkCarriesStoredUser == G!OkCarriesStoredUser

=============================================================================

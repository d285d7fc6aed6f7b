------------------------------ MODULE Gateway ------------------------------
(***************************************************************************)
(* The gateway's user handler (services/gateway/handlers/user_handler.go)  *)
(* and the userserver calls it makes over Connect RPC.  Each HTTP request  *)
(* is handled by one call of GetUserByID or CreateNewGuestUser, which     *)
(* reads the request, calls the userserver with the handler's own context  *)
(* h.ctx and writes a response: 400 for a bad request, 404 (GetUser) or    *)
(* 400 (CreateNewUser) for any error of the call, else 200 with the answer. *)
(*                                                                         *)
(* The userserver side of GetUser is actions.GetUser as its test fixes it: *)
(* a user the repository does not find is answered (nil, nil).  Connect's  *)
(* unary handler refuses to send a nil response with a nil error: it       *)
(* panics, net/http recovers and aborts the stream, and the client sees an *)
(* error.  Whether the userserver serves is the variable serving, which a  *)
(* composition substitutes with the launcher's state.                       *)
(***************************************************************************)
EXTENDS Integers, Sequences

CONSTANTS
  Requests,   \* the HTTP requests the gateway receives
  Ids,        \* user ids a request may name
  Users,      \* the ids the userserver's repository holds
  NoId        \* a request whose {id} path variable is missing

ASSUME Users \subseteq Ids /\ NoId \notin Ids

VARIABLES
  req,        \* req[r]: the request r: its route, {id} and body
  resp,       \* resp[r]: the responses the handler wrote for r, in order
  serving     \* whether the userserver serves its Connect handler

Nil == "nil"

\* The requests a client can send: GET /users/{id}, with or without an id,
\* and POST of a guest user with a body that validates or not.
RequestSpace ==
  {[route |-> "GetUserByID", id |-> i, body |-> "none"] : i \in Ids \cup {NoId}}
  \cup {[route |-> "CreateNewGuestUser", id |-> NoId, body |-> b] : b \in {"valid", "invalid"}}

Response(status, body) == [status |-> status, body |-> body]

-----------------------------------------------------------------------------
(* The userserver's GetUser (actions.GetUser): the repository lookup       *)
(* GetUserByID(ctx, id) returns (user, found, err).                        *)

\* Fault-injection variant: a user that is not found is answered with the
\* zero models.User instead of nil.
ActionGetUser_ZeroUser(id, dbOk) ==
  IF ~dbOk THEN [resp |-> Nil, err |-> "internal"]
  ELSE IF id \in Users THEN [resp |-> id, err |-> Nil]
  ELSE [resp |-> "zero user", err |-> Nil]

\* A repository error is the call's error; a found user is the response; a
\* user not found is (nil, nil), as Test_GetUserByID_NoUserWasFound asserts.
ActionGetUser(id, dbOk) ==
  IF ~dbOk THEN [resp |-> Nil, err |-> "internal"]
  ELSE IF id \in Users THEN [resp |-> id, err |-> Nil]
  ELSE [resp |-> Nil, err |-> Nil]

\* Connect's unary call as the gateway's client sees it: unavailable when
\* the userserver does not serve; a handler result of (nil, nil) makes the
\* server's handler panic, and the aborted stream is an error.
ConnectCall(res) ==
  CASE ~serving                          -> [resp |-> Nil, err |-> "unavailable"]
    [] res.resp = Nil /\ res.err = Nil   -> [resp |-> Nil, err |-> "aborted"]
    [] OTHER                             -> res

-----------------------------------------------------------------------------
Init ==
  /\ req \in [Requests -> RequestSpace]
  /\ resp = [r \in Requests |-> <<>>]

\* A request the handler has not answered yet.
Unanswered(r, route) == req[r].route = route /\ resp[r] = <<>>

\* Fault-injection variant of GetUserByID: no return after
\* NotFoundException, so responses.Ok(w, user) runs as well.
GetUserByID_NoReturn(r) ==
  /\ Unanswered(r, "GetUserByID")
  /\ IF req[r].id = NoId
     THEN resp' = [resp EXCEPT ![r] = << Response(400, Nil) >>]
     ELSE \E dbOk \in BOOLEAN :
            LET res == ConnectCall(ActionGetUser(req[r].id, dbOk)) IN
            resp' = [resp EXCEPT ![r] =
                       IF res.err # Nil THEN << Response(404, Nil), Response(200, res.resp) >>
                       ELSE << Response(200, res.resp) >>]
  /\ UNCHANGED req

\* GetUserByID: requests.GetVar(r, "id") (400 on error); then
\* userServerClient.GetUser(h.ctx, ...) (404 on error); else 200 with it.
GetUserByID(r) ==
  /\ Unanswered(r, "GetUserByID")
  /\ IF req[r].id = NoId
     THEN resp' = [resp EXCEPT ![r] = << Response(400, Nil) >>]
     ELSE \E dbOk \in BOOLEAN :
            LET res == ConnectCall(ActionGetUser(req[r].id, dbOk)) IN
            resp' = [resp EXCEPT ![r] =
                       << IF res.err # Nil THEN Response(404, Nil) ELSE Response(200, res.resp) >>]
  /\ UNCHANGED req

\* CreateNewGuestUser: ParseBodyWithValidation (400 on error); then
\* userServerClient.CreateNewUser(h.ctx, ...) (400 on error); else 200.
\* The userserver's CreateNewUser is not in the repository: it creates the
\* user or fails.
CreateNewGuestUser(r) ==
  /\ Unanswered(r, "CreateNewGuestUser")
  /\ IF req[r].body = "invalid"
     THEN resp' = [resp EXCEPT ![r] = << Response(400, Nil) >>]
     ELSE \E created \in BOOLEAN :
            LET res == ConnectCall(IF created THEN [resp |-> "new user", err |-> Nil]
                                   ELSE [resp |-> Nil, err |-> "internal"])
            IN resp' = [resp EXCEPT ![r] =
                          << IF res.err # Nil THEN Response(400, Nil) ELSE Response(200, res.resp) >>]
  /\ UNCHANGED req

\* net/http runs each request's handler on its own goroutine.
Next == \E r \in Requests : GetUserByID(r) \/ CreateNewGuestUser(r)

-----------------------------------------------------------------------------
TypeOK ==
  /\ req \in [Requests -> RequestSpace]
  /\ resp \in [Requests -> Seq([status : {200, 400, 404}, body : Ids \cup {Nil, "new user"}])]

(* Test_GetUserByID_NoUserWasFound fixes that the userserver answers a    *)
(* user it does not find with (nil, nil), and the gateway answers 200 with *)
(* whatever GetUser returned without an error.  Across the gateway, the   *)
(* Connect transport and the userserver, every request is answered at most *)
(* once, and a 200 to GET /users/{id} carries the user the repository      *)
(* holds under that id: a missing user, a database error or a userserver   *)
(* that does not serve never reach the client as a 200.                    *)
OkCarriesStoredUser ==
  \A r \in Requests :
    /\ Len(resp[r]) <= 1
    /\ \A i \in DOMAIN resp[r] :
         resp[r][i].status = 200 /\ req[r].route = "GetUserByID"
           => resp[r][i].body = req[r].id /\ req[r].id \in Users

=============================================================================

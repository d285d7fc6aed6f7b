---------------------------- MODULE MC_Launcher ----------------------------
(* Invocations of the launcher for TLC: command lines typed by hand, and   *)
(* the container the compose file starts (Dockerfile CMD [ "./app" ]).     *)
EXTENDS Launcher

CONSTANTS unknownWord

\* The environment names the deployment and the code use.
Env(planning, kittens) ==
  [n \in {ServiceEnv, "EXPLODING_KITTENS_SERVICE"} |->
     IF n = ServiceEnv THEN planning ELSE kittens]

\* What an invocation asks for: its subcommand word, else --service, else
\* PLANNING_POCKER_SERVICE (the precedence RunE's comment describes).
CliIntended(words, flag, env) ==
  IF words # <<>> THEN (IF words[1] \in Services THEN words[1] ELSE NoService)
  ELSE IF flag # NoService THEN flag
  ELSE env[ServiceEnv]

Words == {<<>>, <<"userserver">>, <<"lobbyserver">>, <<unknownWord>>, <<"generate">>}

CliInvocations ==
  { [argv |-> a, flag |-> f, env |-> Env(e, ""), cfgFile |-> c, configFile |-> k,
     intended |-> CliIntended(a, f, Env(e, ""))] :
      a \in Words, f \in {NoService, "userserver", unknownWord},
      e \in {NoService, "lobbyserver"}, c \in {"", "custom.yaml"},
      k \in {"missing", "ok", "bad"} }

\* docker-compose's userserver container: no arguments, and the service
\* named by EXPLODING_KITTENS_SERVICE.
ComposeInvocations ==
  { [argv |-> <<>>, flag |-> NoService, env |-> Env(NoService, "userserver"),
     cfgFile |-> "", configFile |-> "missing", intended |-> "userserver"] }

\* The userserver started by hand with its subcommand.
UserInvocations ==
  { [argv |-> <<"userserver">>, flag |-> NoService, env |-> Env(NoService, ""),
     cfgFile |-> "", configFile |-> "ok", intended |-> "userserver"] }
=============================================================================

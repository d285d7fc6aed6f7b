------------------------------ MODULE Launcher ------------------------------
(***************************************************************************)
(* The unified service launcher: cmdutil's ServiceRootCmd ("app"), its     *)
(* InitializeService and initConfig (service.go lines 248-363), and the    *)
(* userserver and lobbyserver subcommands it dispatches to (lines 1-247).  *)
(*                                                                         *)
(* A process is one invocation: the words on its command line, the         *)
(* --service flag, the environment, the --config flag and the state of the *)
(* config file.  Cobra's ExecuteC is modelled by what it does with them:   *)
(* run the initializers (initConfig), find the command named by the first  *)
(* word, then run PersistentPreRun, PreRunE and Run or RunE.  RunE may    *)
(* rewrite os.Args and execute the root again; the depth of these nested   *)
(* executions is bounded by MaxDepth.  External calls (BoilerplateRun,     *)
(* the database wait, NATS) are nondeterministic successes and failures.   *)
(***************************************************************************)
EXTENDS Integers, Sequences, SequencesExt

CONSTANTS
  Services,     \* subcommands added to ServiceRootCmd
  Invocations,  \* the processes started: [argv, flag, env, cfgFile, configFile, intended]
  Unknown,      \* a command-line word or service name that is no subcommand
  MaxDepth      \* bound on nested ServiceRootCmd executions

Root == "app"                       \* rootCmdName
NoService == ""
ServiceEnv == "PLANNING_POCKER_SERVICE"
Outcomes == {"running", "generated", "exit0", "exit1", "panic", "fatal", "serving"}
Terminated == Outcomes \ {"running"}
ConfigFiles == {"missing", "ok", "bad"}

ASSUME
  /\ Services \subseteq {"userserver", "lobbyserver"}
  /\ Unknown \notin Services
  /\ MaxDepth \in Nat \ {0}
  /\ \A i \in Invocations : i.configFile \in ConfigFiles

VARIABLES
  inv,           \* the invocation this process was started with
  argv,          \* os.Args[1:]
  setService,    \* the value viper.Set("service", ...) stored, or NoService
  shortCircuit,  \* cmdutil's shortCircuit
  configName,    \* the config file name viper searches for
  configRead,    \* the config name ReadInConfig read, or "none"
  cmd,           \* the command cobra is executing
  stage,         \* where the process is
  depth,         \* number of ServiceRootCmd executions started
  ran,           \* the services whose Run closure started, in order
  deps,          \* dependencies provided to the injector
  port,          \* the config key the gRPC server listens on, or "none"
  outcome        \* how the process ended, or "running"

vars == <<inv, argv, setService, shortCircuit, configName, configRead, cmd,
          stage, depth, ran, deps, port, outcome>>

-----------------------------------------------------------------------------
(* viper's view of "service": viper.Set overrides the --service flag, the *)
(* flag overrides PLANNING_POCKER_SERVICE (BindWithDefault), default "".   *)
ViperService ==
  IF setService # NoService THEN setService
  ELSE IF inv.flag # NoService THEN inv.flag
  ELSE inv.env[ServiceEnv]

\* initConfig: the --config file, or the search name "pocker".
InitConfig == IF inv.cfgFile # "" THEN inv.cfgFile ELSE "pocker"

\* viper.ReadInConfig fails with ConfigFileNotFoundError only when it
\* searched for a name; an explicit --config file that is missing is an
\* ordinary error, and so is a file that does not parse.
ReadFailsFatally ==
  \/ inv.configFile = "bad"
  \/ inv.configFile = "missing" /\ inv.cfgFile # ""

\* The config key each service's ServeBuf listens on.
PortKey(s) == IF s = "userserver" THEN "clientserver.grpc.port" ELSE "lobbyserver.grpc.port"

\* The dependencies each setupDependencies provides.
RequiredDeps(s) == IF s = "userserver" THEN {"db"} ELSE {"db", "nats"}

End(o) == /\ outcome' = o
          /\ stage' = "done"

-----------------------------------------------------------------------------
(* cmdutil.InitializeService: "generate" writes the schema and returns;   *)
(* otherwise the root is executed and an error exits with status 1.        *)
InitializeService ==
  /\ stage = "main"
  /\ IF argv # <<>> /\ argv[1] = "generate"
       THEN End("generated") /\ UNCHANGED depth
       ELSE stage' = "execute" /\ depth' = 1 /\ UNCHANGED outcome
  /\ UNCHANGED <<inv, argv, setService, shortCircuit, configName, configRead, cmd, ran, deps, port>>

\* Fault-injection variant of Execute: the first word is taken as the
\* command without checking that it names a subcommand.
Execute_WordAsCommand ==
  /\ stage = "execute"
  /\ configName' = InitConfig
  /\ \/ argv = <<>> /\ cmd' = Root
     \/ argv # <<>> /\ cmd' = argv[1]
  /\ stage' = "prerun"
  /\ UNCHANGED <<inv, argv, setService, shortCircuit, configRead, depth, ran, deps, port, outcome>>

(* cobra ExecuteC on ServiceRootCmd: initializers, then find the command.  *)
(* A first word that is no subcommand is "unknown command", an error.      *)
Execute ==
  /\ stage = "execute"
  /\ configName' = InitConfig
  /\ \/ argv = <<>> /\ cmd' = Root /\ stage' = "prerun" /\ UNCHANGED outcome
     \/ argv # <<>> /\ argv[1] \in Services /\ cmd' = argv[1]
        /\ stage' = "prerun" /\ UNCHANGED outcome
     \/ argv # <<>> /\ argv[1] \notin Services /\ End("exit1") /\ UNCHANGED cmd
  /\ UNCHANGED <<inv, argv, setService, shortCircuit, configRead, depth, ran, deps, port>>

(* ServiceRootCmd.PersistentPreRun, which cobra runs for every command.   *)
PersistentPreRun ==
  /\ stage = "prerun"
  /\ IF cmd # Root
       THEN /\ setService' = cmd
            /\ IF ReadFailsFatally
                 THEN End("panic") /\ UNCHANGED <<configRead, shortCircuit, configName>>
                 ELSE /\ configRead' = configName
                      /\ shortCircuit' = TRUE
                      /\ configName' = cmd
                      /\ stage' = "run"
                      /\ UNCHANGED outcome
       ELSE /\ configName' = ViperService
            /\ stage' = "rune"
            /\ UNCHANGED <<setService, configRead, shortCircuit, outcome>>
  /\ UNCHANGED <<inv, argv, cmd, depth, ran, deps, port>>

\* A RunE that found no subcommand fails: "no valid command or service".
RunENoService ==
  /\ ViperService \notin Services
  /\ End("exit1")
  /\ UNCHANGED <<shortCircuit, argv, depth>>

\* A short-circuited RunE returns nil.
RunEShortCircuit ==
  /\ shortCircuit
  /\ End("exit0")
  /\ UNCHANGED <<shortCircuit, argv, depth>>

\* Fault-injection variant of RunE: the service is executed without
\* injecting its name into os.Args.
RunE_NoArgsInject ==
  /\ stage = "rune"
  /\ \/ RunEShortCircuit
     \/ /\ ~shortCircuit /\ ViperService \in Services /\ depth < MaxDepth
        /\ shortCircuit' = TRUE
        /\ UNCHANGED argv
        /\ depth' = depth + 1
        /\ stage' = "execute"
        /\ UNCHANGED outcome
     \/ ~shortCircuit /\ RunENoService
  /\ UNCHANGED <<inv, setService, configName, configRead, cmd, ran, deps, port>>

\* Fault-injection variant of RunE: the root is executed again as it was,
\* without the injected name and without raising the guard.
RunE_Reexecute ==
  /\ stage = "rune"
  /\ \/ RunEShortCircuit
     \/ /\ ~shortCircuit /\ ViperService \in Services /\ depth < MaxDepth
        /\ UNCHANGED <<shortCircuit, argv>>
        /\ depth' = depth + 1
        /\ stage' = "execute"
        /\ UNCHANGED outcome
     \/ ~shortCircuit /\ RunENoService
  /\ UNCHANGED <<inv, setService, configName, configRead, cmd, ran, deps, port>>

(* ServiceRootCmd.RunE: a short-circuited root returns nil; otherwise the *)
(* subcommand named by viper's "service" is injected into os.Args and the  *)
(* root executed again (subCmd.Execute runs the root); no match is an      *)
(* error.  The nested execution's result is RunE's result.                 *)
RunE ==
  /\ stage = "rune"
  /\ \/ RunEShortCircuit
     \/ /\ ~shortCircuit /\ ViperService \in Services /\ depth < MaxDepth
        /\ shortCircuit' = TRUE
        /\ argv' = <<ViperService>> \o argv
        /\ depth' = depth + 1
        /\ stage' = "execute"
        /\ UNCHANGED outcome
     \/ ~shortCircuit /\ RunENoService
  /\ UNCHANGED <<inv, setService, configName, configRead, cmd, ran, deps, port>>

-----------------------------------------------------------------------------
(* The subcommands.  PreRunE only registers configuration and returns nil; *)
(* the Run closure calls BoilerplateRun (log.Fatal on error), Migrations,  *)
(* setupDependencies (log.Fatal on error), then serves and blocks in       *)
(* app.Run.                                                                 *)
BoilerplateRun ==
  /\ stage = "run"
  /\ ran' = Append(ran, cmd)
  /\ \/ stage' = "deps" /\ UNCHANGED outcome
     \/ End("fatal")
  /\ UNCHANGED <<inv, argv, setService, shortCircuit, configName, configRead, cmd, depth, deps, port>>

(* userserver setupDependencies: NewDbWithWait, then provide the pool.     *)
UserSetupDependencies ==
  /\ stage = "deps" /\ cmd = "userserver"
  /\ \/ deps' = {"db"} /\ stage' = "serve" /\ UNCHANGED outcome
     \/ End("fatal") /\ UNCHANGED deps
  /\ UNCHANGED <<inv, argv, setService, shortCircuit, configName, configRead, cmd, depth, ran, port>>

(* lobbyserver setupDependencies: NewDbWithWait; nats.Connect with         *)
(* RetryOnFailedConnect; WaitForNatsConnection(2s); the connection pool;  *)
(* then provide both.  Any error returns before anything is provided.      *)
LobbySetupDependencies ==
  /\ stage = "deps" /\ cmd = "lobbyserver"
  /\ \E dbUp, connectErr, natsUp \in BOOLEAN :
       IF dbUp /\ ~connectErr /\ natsUp
         THEN deps' = {"db", "nats"} /\ stage' = "serve" /\ UNCHANGED outcome
         ELSE End("fatal") /\ UNCHANGED deps
  /\ UNCHANGED <<inv, argv, setService, shortCircuit, configName, configRead, cmd, depth, ran, port>>

(* InitializeRepos, NewActions, go grpc.ServeBuf(..., port, ...), app.Run. *)
Serve ==
  /\ stage = "serve"
  /\ port' = PortKey(cmd)
  /\ End("serving")
  /\ UNCHANGED <<inv, argv, setService, shortCircuit, configName, configRead, cmd, depth, ran, deps>>

-----------------------------------------------------------------------------

Init ==
  /\ inv \in Invocations
  /\ argv = inv.argv
  /\ setService = NoService
  /\ shortCircuit = FALSE
  /\ configName = "pocker"
  /\ configRead = "none"
  /\ cmd = Root
  /\ stage = "main"
  /\ depth = 0
  /\ ran = <<>>
  /\ deps = {}
  /\ port = "none"
  /\ outcome = "running"

\* The process has exited or blocks in app.Run.
Halted == stage = "done" /\ UNCHANGED vars

Next ==
  \/ Halted
  \/ InitializeService \/ Execute \/ PersistentPreRun \/ RunE
  \/ BoilerplateRun \/ UserSetupDependencies \/ LobbySetupDependencies \/ Serve

Spec == Init /\ [][Next]_vars

-----------------------------------------------------------------------------
(* Properties.                                                             *)

TypeOK ==
  /\ inv \in Invocations
  /\ shortCircuit \in BOOLEAN
  /\ cmd \in Services \cup {Root}
  /\ depth \in 0..MaxDepth
  /\ ran \in Seq(Services)
  /\ deps \subseteq {"db", "nats"}
  /\ outcome \in Outcomes

(* The launcher runs the service the invocation asks for, by subcommand,   *)
(* by --service or by PLANNING_POCKER_SERVICE (RunE's "trickery"), and     *)
(* only that one, once: when the process has ended other than by a config  *)
(* panic, the Run closures started are exactly the intended service.       *)
RequestedServiceRuns ==
  outcome \in Terminated \ {"panic"} =>
    ran = IF inv.intended \in Services THEN <<inv.intended>> ELSE <<>>

(* RunE re-executes the root at most once: the injected subcommand name   *)
(* and shortCircuit keep the nested execution from reaching RunE again.   *)
SingleReexecution == depth <= 2

=============================================================================

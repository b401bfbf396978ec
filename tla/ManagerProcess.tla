---------------------------- MODULE ManagerProcess ----------------------------
(***************************************************************************)
(* The manager's process (app.rs, config/loader.rs, config/validate.rs and *)
(* serve_session_manager in mcp/server.rs): it reads the configuration,    *)
(* lets the command line override it, validates the result, starts its     *)
(* tasks and the two listeners, and on a signal ends them and waits for    *)
(* the idle sweeper, which may be in the middle of shutting sessions down. *)
(*                                                                         *)
(* Of a setting only what validate asks of it is kept: an address parses   *)
(* or not, a path starts with a slash or not.  Leaving the runtime drops   *)
(* every task that is left.                                                *)
(***************************************************************************)
EXTENDS Naturals

CONSTANTS
    ProcFiles,      \* configuration files
    ProcClis,       \* command lines
    ProcMaxSweep    \* bound on the sessions one sweep shuts down

\* The source of a value is kept to tell the file from the command line.
ProcSetting == [from : {"file", "cli", "default"}, ok : BOOLEAN]
ProcHttp == [address : ProcSetting, path : ProcSetting]
ProcWs == [given : BOOLEAN, address : ProcSetting, path : ProcSetting, idle : BOOLEAN]
ProcMasking == [enabled : BOOLEAN, ok : BOOLEAN]
ProcCache == [enabled : BOOLEAN, ok : BOOLEAN]
ProcConfig ==
    [ work    : {"empty", "relative", "absolute", "at_config", "at_cwd"},
      http    : ProcHttp,
      ws      : ProcWs,
      metrics : BOOLEAN,
      cache   : ProcCache,
      masking : ProcMasking ]
ProcFile == [readable : BOOLEAN, config : ProcConfig]
ProcCli ==
    [ workdir : {"absent", "empty", "relative", "absolute"},
      http : {"absent", "good", "bad"},
      bind : {"absent", "good", "bad"},
      path : {"absent", "good", "bad"} ]

\* A file says nothing of where its directory counts from.
ASSUME ProcFilesAssumption ==
    /\ ProcFiles \subseteq ProcFile
    /\ \A file \in ProcFiles : file.config.work \in {"empty", "relative", "absolute"}
ASSUME ProcClisAssumption == ProcClis \subseteq ProcCli
ASSUME ProcMaxSweepAssumption == ProcMaxSweep \in Nat

VARIABLES
    procFile, procCli,
    procPc,         \* where the main task is
    procConfig,     \* the configuration so far
    procTasks,      \* spawned tasks that run
    procIdle,       \* the idle sweeper
    procSweep,      \* sessions its sweep has yet to shut down
    procCancelled,  \* LifecycleManager.cancel_token
    procExit        \* the exit code

procVars == <<procFile, procCli, procPc, procConfig, procTasks, procIdle, procSweep,
              procCancelled, procExit>>

ProcTypeOK ==
    /\ procPc \in {"start", "read", "overridden", "validated", "logging", "spawned",
                   "http_bound", "serving", "stopping", "awaiting", "exited"}
    /\ procConfig \in ProcConfig
    /\ procTasks \subseteq {"internal", "replay", "notifier", "ws", "grace"}
    /\ procIdle \in {"none", "sleeping", "sweeping", "done"}
    /\ procSweep \in 0..ProcMaxSweep
    /\ procCancelled \in BOOLEAN
    /\ procExit \in {"none", "ok", "validation_error", "runtime_error"}

ProcInit ==
    /\ procFile \in ProcFiles
    /\ procCli \in ProcClis
    /\ procPc = "start"
    /\ procConfig = procFile.config
    /\ procTasks = {}
    /\ procIdle = "none"
    /\ procSweep = 0
    /\ procCancelled = FALSE
    /\ procExit = "none"

-----------------------------------------------------------------------------
procInput == <<procFile, procCli>>
procRuntime == <<procTasks, procIdle, procSweep, procCancelled>>

Proceed(from, to) ==
    /\ procPc = from
    /\ procPc' = to
    /\ UNCHANGED <<procInput, procExit>>

\* The runtime is dropped, and with it every task.
ExitWith(code) ==
    /\ procPc' = "exited"
    /\ procExit' = code
    /\ procTasks' = {}
    /\ procIdle' = "none"
    /\ procSweep' = 0
    /\ UNCHANGED <<procInput, procConfig, procCancelled>>

-----------------------------------------------------------------------------
(* run *)

\* The source of a value given on the command line.
FromCli(value) == [from |-> "cli", ok |-> value = "good"]
OrFromCli(value, setting) == IF value = "absent" THEN setting ELSE FromCli(value)

\* McpSessionManagerConfig::default
DefaultWs == [given |-> TRUE, idle |-> TRUE,
              address |-> [from |-> "default", ok |-> TRUE],
              path |-> [from |-> "default", ok |-> TRUE]]

\* unwrap_or_default
WsOf(config) == IF config.ws.given THEN config.ws ELSE DefaultWs

\* resolve_workpath: a relative workPath counts from the file's directory.
ResolvedWork(work) == IF work = "relative" THEN "at_config" ELSE work

\* --workdir counts from the directory of the process.
CliWork(workdir) == IF workdir = "relative" THEN "at_cwd" ELSE workdir

ReadConfig ==
    /\ procFile.readable
    /\ Proceed("start", "read")
    /\ procConfig' = [procConfig EXCEPT !.work = ResolvedWork(@)]
    /\ UNCHANGED procRuntime

ReadConfigFails ==
    /\ procPc = "start"
    /\ ~procFile.readable
    /\ ExitWith("validation_error")

\* --workdir and apply_cli_overrides
ApplyCliOverrides ==
    /\ Proceed("read", "overridden")
    /\ procConfig' =
         [procConfig EXCEPT
            !.work = IF procCli.workdir = "absent" THEN @ ELSE CliWork(procCli.workdir),
            !.http.address = OrFromCli(procCli.http, @),
            !.ws = IF procCli.bind = "absent" /\ procCli.path = "absent" THEN @
                   ELSE [WsOf(procConfig) EXCEPT !.address = OrFromCli(procCli.bind, @),
                                                 !.path = OrFromCli(procCli.path, @)]]
    /\ UNCHANGED procRuntime

\* validate
Validate(config) ==
    /\ config.work # "empty"
    /\ config.http.address.ok /\ config.http.path.ok
    /\ config.ws.given => config.ws.address.ok /\ config.ws.path.ok
    /\ config.metrics
    /\ config.cache.enabled => config.cache.ok
    /\ config.masking.enabled => config.masking.ok

\* Variant: the file is validated and the overrides come after it.
FinalizeFile ==
    /\ Validate(procFile.config)
    /\ Proceed("overridden", "validated")
    /\ UNCHANGED <<procConfig, procRuntime>>

\* finalize_config
FinalizeConfig ==
    /\ Validate(procConfig)
    /\ Proceed("overridden", "validated")
    /\ UNCHANGED <<procConfig, procRuntime>>

FinalizeConfigFails ==
    /\ procPc = "overridden"
    /\ ~Validate(procConfig)
    /\ ExitWith("validation_error")

\* init_action_logging opens the log below work_path.
InitLogging ==
    /\ Proceed("validated", "logging")
    /\ UNCHANGED <<procConfig, procRuntime>>

-----------------------------------------------------------------------------
(* serve_session_manager *)

\* McpToolServer::try_new has built the gate; without masking the endpoint is
\* not spawned and the replay task returns at once, with idle_timeout_secs = 0
\* the idle sweeper does.
SpawnTasks ==
    /\ Proceed("logging", "spawned")
    /\ procTasks' = {"notifier"} \cup
                    (IF procConfig.masking.enabled THEN {"internal", "replay"} ELSE {})
    /\ procIdle' = IF WsOf(procConfig).idle THEN "sleeping" ELSE "done"
    /\ UNCHANGED <<procConfig, procSweep, procCancelled>>

BindHttp ==
    /\ Proceed("spawned", "http_bound")
    /\ UNCHANGED <<procConfig, procRuntime>>

\* start_with_masking
BindWs ==
    /\ Proceed("http_bound", "serving")
    /\ procTasks' = procTasks \cup {"ws", "grace"}
    /\ UNCHANGED <<procConfig, procIdle, procSweep, procCancelled>>

\* The log, the runtime, the gate (its outbox or its client), or a listener fails.
StartFails ==
    /\ procPc \in {"validated", "logging", "spawned", "http_bound"}
    /\ ExitWith("runtime_error")

\* The endpoint cannot bind, or the WebSocket server stops: logged, no more.
TaskFails(task) ==
    /\ task \in procTasks \cap {"internal", "ws"}
    /\ procTasks' = procTasks \ {task}
    /\ UNCHANGED <<procInput, procPc, procConfig, procIdle, procSweep, procCancelled,
                   procExit>>

\* wait_for_shutdown_signal, or the end of the HTTP server.
ShutdownSignal ==
    /\ Proceed("serving", "stopping")
    /\ UNCHANGED <<procConfig, procRuntime>>

HttpServeFails ==
    /\ procPc = "serving"
    /\ procPc' = "stopping"
    /\ procExit' = "runtime_error"
    /\ UNCHANGED <<procInput, procConfig, procRuntime>>

\* Variant: the token of the idle sweeper is not cancelled.
StopTasksOnly ==
    /\ Proceed("stopping", "awaiting")
    /\ procTasks' = procTasks \ {"ws", "grace", "notifier", "internal", "replay"}
    /\ UNCHANGED <<procConfig, procIdle, procSweep, procCancelled>>

StopTasks ==
    /\ Proceed("stopping", "awaiting")
    /\ procTasks' = procTasks \ {"ws", "grace", "notifier", "internal", "replay"}
    /\ procCancelled' = TRUE
    /\ UNCHANGED <<procConfig, procIdle, procSweep>>

\* sweeper_task.await
AwaitSweeper ==
    /\ procPc = "awaiting"
    /\ procIdle = "done"
    /\ ExitWith(IF procExit = "none" THEN "ok" ELSE procExit)

-----------------------------------------------------------------------------
(* run_idle_sweeper *)

idleOnly == <<procInput, procPc, procConfig, procTasks, procCancelled, procExit>>

\* The tick; it may be due at the moment the token is cancelled.
BeginSweep ==
    /\ procIdle = "sleeping"
    /\ procIdle' = "sweeping"
    /\ procSweep' \in 0..ProcMaxSweep
    /\ UNCHANGED idleOnly

\* shutdown_session has a time limit.
ShutDownNext ==
    /\ procIdle = "sweeping"
    /\ procSweep > 0
    /\ procSweep' = procSweep - 1
    /\ UNCHANGED <<idleOnly, procIdle>>

\* Back in the loop a cancelled token is seen before the next tick.
EndSweep ==
    /\ procIdle = "sweeping"
    /\ procSweep = 0
    /\ procIdle' = IF procCancelled THEN "done" ELSE "sleeping"
    /\ UNCHANGED <<idleOnly, procSweep>>

SeeCancelled ==
    /\ procIdle = "sleeping"
    /\ procCancelled
    /\ procIdle' = "done"
    /\ UNCHANGED <<idleOnly, procSweep>>

-----------------------------------------------------------------------------
StartStep ==
    \/ ReadConfig
    \/ ReadConfigFails
    \/ ApplyCliOverrides
    \/ FinalizeConfig
    \/ FinalizeConfigFails
    \/ InitLogging
    \/ SpawnTasks
    \/ BindHttp
    \/ BindWs
    \/ StartFails

SweeperStep == BeginSweep \/ ShutDownNext \/ EndSweep \/ SeeCancelled

ProcNext ==
    \/ StartStep
    \/ \E task \in procTasks : TaskFails(task)
    \/ ShutdownSignal
    \/ HttpServeFails
    \/ StopTasks
    \/ AwaitSweeper
    \/ SweeperStep

\* The main task and the sweeper are polled when they can go on.
ProcFairness ==
    /\ WF_procVars(StopTasks)
    /\ WF_procVars(AwaitSweeper)
    /\ WF_procVars(SweeperStep)

ProcSpec == ProcInit /\ [][ProcNext]_procVars /\ ProcFairness

-----------------------------------------------------------------------------
(* Properties *)

\* What the manager serves with has passed validate as it is, overrides of the
\* command line included; a value given there has won over the file, and a
\* relative directory counts from where it was written.
ServesValidated ==
    procPc \in {"serving", "stopping", "awaiting"} =>
        /\ Validate(procConfig)
        /\ procCli.http # "absent" => procConfig.http.address.from = "cli"
        /\ procCli.bind # "absent" => WsOf(procConfig).address.from = "cli"
        /\ procCli.path # "absent" => WsOf(procConfig).path.from = "cli"
        /\ procCli.path = "absent" => WsOf(procConfig).path = WsOf(procFile.config).path
        /\ procConfig.work \in {"absolute", "at_config", "at_cwd"}
        /\ procConfig.work = "at_cwd" <=> procCli.workdir = "relative"

\* A manager that is told to stop, or whose HTTP server fails, ends, although
\* it waits for a sweeper that may be in the middle of a sweep and sees the
\* cancellation only after it.
StopCompletes == procPc = "stopping" ~> procPc = "exited"
=============================================================================

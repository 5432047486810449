------------------------------ MODULE Lifecycle ------------------------------
(***************************************************************************)
(* The life of a process (cmd/alerts-adapter/main.go): main's way through  *)
(* startup, where it reads its configuration, into Run and out of it, the  *)
(* goroutine of the SpokeCluster controller's manager, the signal context  *)
(* both share, and the exit status.                                        *)
(***************************************************************************)
EXTENDS Configuration

CONSTANTS
  Starts,        \* what a process may find: [file, env], the mounted file and its environment
  Edits,         \* the files an edit may leave
  Capacity,      \* of the manager's error channel
  MaxSignals     \* bound: SIGTERMs and SIGINTs

ASSUME LifecycleAssumption ==
  /\ Capacity = 1 /\ MaxSignals \in Nat
  /\ Starts \subseteq [file : ConfigFile, env : Env] /\ Edits \subseteq ConfigFile

VARIABLES
  file,          \* the mounted file
  env,           \* the process's environment and flags
  cfg,           \* the configuration it has loaded, none or one
  pc,            \* main: the startup step it is in, "run", "check" or "exited"
  status,        \* the exit status: "none", "0", "1", or "signal" if a signal killed it
  manager,       \* the manager's goroutine
  errCh,         \* its error channel
  cancelled,     \* is ctx done?
  notify,        \* does signal.NotifyContext catch signals?
  pending,       \* has a signal been caught that has not cancelled ctx yet?
  signals,       \* signals so far
  loaded,        \* history: the file cfg came from, none or one
  startupFailed, \* history: did a startup step fail?
  managerFailed  \* history: did the manager return while ctx was live?

configVars  == <<file, env, cfg, loaded>>
contextVars == <<cancelled, notify, pending, signals>>
managerVars == <<manager, errCh, managerFailed>>
mainVars    == <<pc, status, startupFailed>>
vars        == <<configVars, contextVars, managerVars, mainVars>>

Init ==
  /\ \E start \in Starts : file = start.file /\ env = start.env
  /\ cfg = {} /\ loaded = {}
  /\ pc = "limit" /\ status = "none"
  /\ manager = "off" /\ errCh = <<>>
  /\ cancelled = FALSE /\ notify = FALSE /\ pending = FALSE /\ signals = 0
  /\ startupFailed = FALSE /\ managerFailed = FALSE

Alive == status = "none"
------------------------------------------------------------------------------
(* main *)

Exit(code) == pc' = "exited" /\ status' = code

StartupSteps == {"limit", "config", "client", "local", "list", "build", "controller"}

\* The order of the startup steps; the last three are for --multicluster.
After(step) ==
  CASE step = "limit"      -> "config"
    [] step = "config"     -> "client"
    [] step = "client"     -> "local"
    [] step = "local"      -> IF env.multicluster THEN "list" ELSE "run"
    [] step = "list"       -> "build"
    [] step = "build"      -> "controller"
    [] step = "controller" -> "run"

\* What the process has read decides these steps against it.
Refused ==
  \/ pc = "limit" /\ multiclusterMaxConcurrentTargets(env) = {}
  \/ pc = "config" /\ LoadFromFile(file, env.skillsImage) = {}
  \/ pc = "local" /\ cannotTarget(env)

\* Files and servers outside decide these: the kubeconfig, the service CA, the API server.
MayFail ==
  \/ pc \in {"client", "list", "controller"}
  \/ pc = "local" /\ localTargets(env) # {}

\* A step succeeds.  Signals are caught from the end of the first step on; the
\* last one starts the manager.
StepSucceeds ==
  /\ Alive /\ pc \in StartupSteps /\ ~Refused
  /\ pc' = After(pc)
  /\ IF pc = "config" THEN cfg' = LoadFromFile(file, env.skillsImage) /\ loaded' = {file}
                      ELSE UNCHANGED <<cfg, loaded>>
  /\ notify' = (notify \/ pc = "limit")
  /\ manager' = IF pc = "controller" THEN "running" ELSE manager
  /\ UNCHANGED <<file, env, status, errCh, cancelled, pending, signals,
                 startupFailed, managerFailed>>

\* os.Exit(1)
StepFails ==
  /\ Alive
  /\ Refused \/ MayFail
  /\ Exit("1")
  /\ startupFailed' = TRUE
  /\ UNCHANGED <<configVars, managerVars, contextVars>>

\* Run returns once ctx is done, and only then.
RunReturns ==
  /\ Alive /\ pc = "run" /\ cancelled
  /\ pc' = "check"
  /\ UNCHANGED <<status, startupFailed, configVars, managerVars, contextVars>>

\* main looks at the manager's channel without waiting.
CheckManager ==
  /\ Alive /\ pc = "check"
  /\ IF errCh # <<>> THEN Exit("1") /\ errCh' = Tail(errCh)
                     ELSE Exit("0") /\ UNCHANGED errCh
  /\ UNCHANGED <<manager, managerFailed, startupFailed, configVars, contextVars>>
------------------------------------------------------------------------------
(* runControllerManager *)

\* start returns, with or without an error, for its own reasons or for ctx.
ManagerReturns ==
  /\ Alive /\ manager = "running"
  /\ manager' = "returned"
  /\ managerFailed' = ~cancelled
  /\ UNCHANGED <<errCh, mainVars, configVars, contextVars>>

\* Mutant: the manager's return is reported after a signal too.
CheckContext_Never ==
  /\ Alive /\ manager = "returned"
  /\ manager' = "send"
  /\ UNCHANGED <<errCh, managerFailed, mainVars, configVars, contextVars>>

CheckContext ==
  /\ Alive /\ manager = "returned"
  /\ manager' = IF cancelled THEN "done" ELSE "send"
  /\ UNCHANGED <<errCh, managerFailed, mainVars, configVars, contextVars>>

\* Mutant: the channel has no buffer, and main does not receive while it is in Run.
Send_Unbuffered ==
  /\ Alive /\ manager = "send"
  /\ pc = "check"
  /\ errCh' = Append(errCh, "error")
  /\ manager' = "stop"
  /\ UNCHANGED <<managerFailed, mainVars, configVars, contextVars>>

\* Mutant: the poll loop is stopped before the error is in the channel.
Send_AfterStop ==
  /\ Alive /\ manager = "send"
  /\ IF ~cancelled THEN cancelled' = TRUE /\ UNCHANGED <<errCh, manager>>
                   ELSE errCh' = Append(errCh, "error") /\ manager' = "done" /\ UNCHANGED cancelled
  /\ UNCHANGED <<managerFailed, notify, pending, signals, mainVars, configVars>>

\* The manager's error, or one that stands for its unexpected nil return.
Send ==
  /\ Alive /\ manager = "send"
  /\ Len(errCh) < Capacity
  /\ errCh' = Append(errCh, "error")
  /\ manager' = "stop"
  /\ UNCHANGED <<managerFailed, mainVars, configVars, contextVars>>

\* stop cancels ctx, and signals are no longer caught.
StopLoop ==
  /\ Alive /\ manager = "stop"
  /\ cancelled' = TRUE /\ notify' = FALSE /\ pending' = FALSE
  /\ manager' = "done"
  /\ UNCHANGED <<errCh, managerFailed, signals, mainVars, configVars>>
------------------------------------------------------------------------------
(* Signals (external: os/signal) *)

\* A signal that is not caught kills the process.
Signal ==
  /\ Alive /\ signals < MaxSignals
  /\ signals' = signals + 1
  /\ IF notify THEN pending' = TRUE /\ UNCHANGED <<pc, status>>
               ELSE Exit("signal") /\ UNCHANGED pending
  /\ UNCHANGED <<cancelled, notify, startupFailed, managerVars, configVars>>

\* NotifyContext's goroutine.
CancelContext ==
  /\ Alive /\ pending
  /\ cancelled' = TRUE /\ pending' = FALSE
  /\ UNCHANGED <<notify, signals, mainVars, managerVars, configVars>>
------------------------------------------------------------------------------
\* The ConfigMap is edited; the kubelet replaces the file in one step.
Edit(f) ==
  /\ Alive /\ f # file
  /\ file' = f
  /\ UNCHANGED <<env, cfg, loaded, mainVars, managerVars, contextVars>>

MainStep    == StepSucceeds \/ StepFails \/ RunReturns \/ CheckManager
ManagerStep == CheckContext \/ Send \/ StopLoop

Next == MainStep \/ ManagerStep \/ ManagerReturns \/ Signal \/ CancelContext
        \/ \E f \in Edits : Edit(f)

Spec == Init /\ [][Next]_vars

\* The goroutines are scheduled, Run returns when ctx is done (StopsOnSignal of
\* PollLoop), and the calls of startup return.  The list need not, until ctx is
\* done: it has no deadline.  The manager may run for ever.
LifecycleSpec ==
  /\ Spec
  /\ WF_vars((pc # "list" \/ cancelled) /\ MainStep)
  /\ WF_vars(ManagerStep)
  /\ WF_vars(CancelContext)
------------------------------------------------------------------------------
(* Properties *)

\* Every variable has the type its Go counterpart gives it.
TypeOK ==
  /\ pc \in StartupSteps \cup {"run", "check", "exited"}
  /\ status \in {"none", "0", "1", "signal"}
  /\ manager \in {"off", "running", "returned", "send", "stop", "done"}
  /\ errCh \in {<<>>, <<"error">>}
  /\ {cancelled, notify, pending, startupFailed, managerFailed} \subseteq BOOLEAN
  /\ signals \in 0 .. MaxSignals
  /\ cfg = {} <=> loaded = {}

\* What the goroutines tell each other: before its error is in the channel the
\* manager's goroutine does not stop the poll loop, and it hands in none that a
\* signal explains (runControllerManager, main after Run).
HandoverInv ==
  /\ pc \in StartupSteps => manager = "off"
  /\ pending => signals > 0
  /\ Alive /\ cancelled => signals > 0 \/ errCh # <<>>
  /\ Alive /\ manager = "stop" => errCh # <<>>
  /\ manager \notin {"stop", "done"} => errCh = <<>>
  /\ pc = "check" => cancelled
  /\ manager = "returned" /\ ~cancelled => managerFailed
  /\ manager = "send" \/ errCh # <<>> => managerFailed

\* The process reports success only if it was told to stop, and never over an
\* error the manager's goroutine has handed in: the error is in the channel
\* before Run can return because of it (errCh <- err, then stop).
SuccessMeansSignalled == status = "0" => signals > 0 /\ errCh = <<>>

\* The process reports failure only if startup did not come to its end, or for a
\* manager that gave up by itself: one that returns because of a signal is no
\* failure, though main's look at the channel and the goroutine's look at ctx
\* race (ctx.Err in runControllerManager).
FailureMeansError == status = "1" => startupFailed \/ managerFailed

\* A manager that gives up takes the process with it, and so does a signal,
\* though the API server may not answer the startup list: the process never
\* polls on with a registry nobody updates (runControllerManager, stop).
ProcessEnds == (managerFailed \/ pending) ~> ~Alive

Looping == pc \in {"run", "check"}

\* The agents a run is built with.
StepAgents(agent) ==
  {resolveAgent(step, agent.default) : step \in {agent.analysis, agent.execution, agent.verification}}

\* A process that comes to the poll loop has settings the loop can work with,
\* whatever the file and the environment hold: what PollLoop assumes of its
\* constants, a target or spokes to come, a namespace, and an agent for every step.
SettingsUsable ==
  Looping =>
    /\ multiclusterMaxConcurrentTargets(env) \cap (Nat \ {0}) # {}
    /\ localTargets(env) # {} \/ env.multicluster
    /\ namespace(env) # ""
    /\ \E c \in cfg :
         /\ c.pollInterval > 0 /\ c.preRunDelay >= 0 /\ c.postRunDelay >= 0
         /\ \A r \in c.allowedReceivers : r.case = "lower"
         /\ "" \notin StepAgents(c.agent)

\* No process runs on part of a file: one error in it and none of it is used,
\* whatever the file becomes meanwhile (LoadFromFile's errors and main's exit).
FailsClosed ==
  Looping => \E f \in loaded :
    \/ f.content = "missing"
    \/ f.content = "fields" /\ Invalid \notin {f.pollInterval, f.preRunDelay, f.postRunDelay}

\* The receivers and labels an administrator has written are the ones in force,
\* in whatever case, the empty list too, which shuts the adapter off or keeps
\* every label; no default or older field comes in between (LoadFromFile).
ListsAsWritten ==
  \A c \in cfg, f \in loaded :
    f.content = "fields" =>
      /\ \A list \in f.filtering :
           {r.word : r \in c.allowedReceivers} = {r.word : r \in list}
      /\ f.filtering = {} => \A list \in f.allowedReceivers :
           {r.word : r \in c.allowedReceivers} = {r.word : r \in list}
      /\ \A list \in f.deduplication : c.ignoredLabels = list

Mounts(skills) == UNION {{<<skills[i].image, skills[i].paths[j]>> : j \in DOMAIN skills[i].paths} :
                           i \in DOMAIN skills}

\* Runs get every path of every entry that names one and has an image, its own or
\* the default, and nothing else, however many unusable entries stand between
\* (parseSkills).
SkillsComplete ==
  \A c \in cfg, f \in loaded :
    LET written == [i \in DOMAIN f.skills |->
                      [f.skills[i] EXCEPT !.image = IF @ = "" THEN env.skillsImage ELSE @]]
    IN  f.content = "fields" =>
          Mounts(c.skills) = {m \in Mounts(written) : "" \notin {m[1], m[2]}}
==============================================================================

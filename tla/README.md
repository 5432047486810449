# A TLA+ model of the alerts adapter

The alerts adapter polls AlertManagers for firing alerts and creates an
`AgenticRun` for each group of alerts that needs one. It keeps no store of its
own: what it did before it reads back from the API server, and what it has to
remember for a moment (creation backoff, spoke targets) is in memory. This
directory holds TLA+ modules for its control logic, TLC configurations that
check them on small instances, and TLAPS proofs for all instances.

Run a check with `tlc -workers 2 -config Dedup.cfg MCPollLoop` and a proof with
`tlapm PollLoopProofs.tla`. `PROJECT.json` lists components, runs, the source
lines behind each definition, the mutants that show a property can fail,
findings, hazards and theorems.

## Inventory of the system

| Part | State | Operations | Hard because |
|---|---|---|---|
| Poll loop, `internal/adapter` | none between cycles but the backoff; per worker the alerts, the listed runs and `now` | `Run`, `reconcile`, `reconcileTarget` and its filters | bounded concurrency, a deadline per worker, cancellation, everything read once and used later |
| Creation backoff (`flowcontrol.Backoff`) | target name and group -> delay, last failure | `IsInBackOffSinceUpdate`, `Next`, `Reset`, `GC` | two clocks (the cycle's `now`, the call's time), expiry, lost on restart |
| Run status, `internal/adapter` | none | `isTerminal`, `terminalTime` | several paths to one phase |
| Naming and identity, `internal/agenticrun` | none | `buildName`, `NextAvailableName`, `SpokeTargetID` | 63 characters, uniqueness across targets and occurrences |
| Run client, `internal/agenticrun` | none (AgenticRuns are in the API server) | `ListAgenticRuns`, `CreateAgenticRun` | lost answers, AlreadyExists |
| Suspension, `internal/agenticolsconfig` | none | `Suspended` | read once per cycle |
| Spoke discovery, `internal/multicluster`, `newTargets` | the registry's spokes; the informer's cache and queue | `BuildTarget`, `Reconcile`, `SetSpoke`, `RemoveSpoke`, `Targets` | two lists at startup, cached reads, Secrets that are not watched |
| Lifecycle, `cmd/alerts-adapter` | context, manager error channel | `main`, `runControllerManager` | signal against manager failure, exit codes |
| Configuration, `internal/config` and `main` | the settings of a process | `LoadFromFile`, `parseSkills`, `resolveAgent`, the environment | three meanings of an absent, an empty and an old field; half a file that is valid |
| AlertManager client, `internal/alertmanager` | token or its path, CA pool | `New`, `GetAlerts` | credentials rotate while calls are under way |
| Run contents and grouping, `internal/agenticrun` | none | `StableFingerprint`, `sanitizeLabelValue`, `sanitizePromptValue`, `buildRequest` | map order, the order of cutting, trimming and stripping |
| Deployment, `manifests` | one replica | rolling update, kill | two processes side by side |

The parts meet in four places. `reconcile` takes a snapshot of the registry,
which the controller's goroutine changes under a lock. Workers share the
backoff. Workers, the operator and users change the AgenticRuns through the API
server, and the name of a run is the only thing the server itself checks. The
context of `main` reaches every call.

What makes it correct: no alert group of a target has two runs under way; a
finished run holds the next one back for `postRunDelay`; failed creates are
spaced; suspension and signals take hold; a cycle ends although a server hangs;
an alert that keeps firing is served, though other targets hang; the registry
follows the SpokeClusters and the loop follows the registry; names and labels
are ones Kubernetes takes, and tell apart what is different; a process runs
with a whole configuration or not at all, and its exit status tells the truth.

## Modules

| Module | Models |
|---|---|
| `RunStatus` | conditions, phase, `terminalTime` |
| `RunNaming` | target identities, run names, `NextAvailableName` |
| `PollLoop` | the poll loop with its environment; extends the two above |
| `SpokeDiscovery` | startup list, informer, `Reconcile`, registry |
| `Admission` | abstract: what the adapter promises for a target and group |
| `PollLoopAdmission` | `PollLoop` implements `Admission` |
| `RollingUpdate` | two `PollLoop` processes on one API server |
| `Fleet` | `PollLoop` with the registry it takes its targets from |
| `Configuration` | what a process makes of its file and environment |
| `Lifecycle` | `main`, the manager's goroutine, signals, exit status; extends `Configuration` |
| `AlertmanagerClient` | `New` and `GetAlerts` under rotating credentials |
| `StableFingerprint` | the bytes that are hashed for a group |
| `RunText` | names, labels, identities and prompt values as text; extends `StableFingerprint` |
| `MC...` | instances for TLC |
| `PollLoopProofs` | `NextAvailableName`, types, deduplication, and what one of several processes knows |
| `CycleProofs` | length of a cycle, suspension, backoff, removal of a spoke; extends `PollLoopProofs` and `Fleet` |
| `AdmissionProofs` | cooldown, refinement of `Admission`; extends `CycleProofs` |
| `RollingUpdateProofs` | two overlapping processes; extends `PollLoopProofs` and instantiates it for the new process |
| `RunTextProofs` | labels, identities, names and prompt values of any length |
| `SpokeDiscoveryProofs`, `LifecycleProofs`, `AlertmanagerClientProofs` | theorems about these modules |

Definitions named `Name_Variant` and commented "Mutant" are wrong versions of
`Name`. Nothing uses them; put in the place of `Name` each makes TLC report the
property PROJECT.json names.

### PollLoop

`loop` is the goroutine of `Run` and `reconcile`, `worker[t]` the goroutine of
`reconcileTarget` for target `t`. Each call that leaves the process is one
action or two:

| Code | Actions |
|---|---|
| `Suspended` | `ReadOLSConfig` (the server reads), then `GateClosed`, `GateOpens` (with `GC` and the snapshot) or `GateFails`, which may also come first |
| spawn loop, semaphore, `wg.Wait` | `StartTarget`, `StopSpawning`, `EndReconcile` |
| `Run`'s select | `Tick`, `Stop` |
| `GetAlerts`, `ListAgenticRuns` | `FetchAlerts`, `ListRuns`, `ReadFails` |
| one turn of the alert loop | `SkipAlert`, `IssueCreate`, `EndTarget` |
| `CreateAgenticRun` | `ServerCreate`, then `CreateReturns`, `CreateFails` or `CreateAborted` |

A create may fail after the server has stored the run (`CreateFails` after
`ServerCreate`), before, or, with `LateCreates`, be applied long after
(`LandLate`). `Restart` may come between any two actions; it loses `backoff`,
the workers and the ticker. The operator, users, administrators and the clock
are the other actions.

Time is a number. Goroutine code between calls takes no time and a call returns
when its context is done, so `AdvanceClock` waits for both (`MayPass`); what a
server does takes any time. This idealises the scheduler: deadlines are met
exactly, so the bounds `CycleBounded` and `SuspensionTakesHold` state are those
of the design, without scheduling delays. The `AgenticOLSConfig` read before a
cycle gets the context of `Run`, which has no deadline. So the server's read and
the opening of the cycle are two actions with any time between them: the answer
may be as old as it likes, or never come. In that case the loop waits until a
signal, which no document excludes. `CycleBounded` and `CycleEnds` are about a
cycle that has got past that check, and `SuspensionTakesHold` counts from the
moment a cycle asks: none that asks after the suspension creates runs, and one
that asked before may create some, however late its answer, for as long as a
cycle lasts.

Data: an alert has a stem (`alertname-namespace`), a group (the value of
`StableFingerprint`), a start time, receivers and whether it has a fingerprint.
A receiver is a word and its case, so that the lower-casing of names matters. A
name is its parts (stem, hash, retry number); digests are injective. Retry
names of stems in `LongStems`, whose names have all 63 characters, lose their
hash, as `truncateDNS` cuts it off.

Two variables are history: `streak` counts failed creates in a row and
`suspendedSince` is when the administrator suspended. So are the field `ended`
of a run and, of `loop`, `asked` and `opened`: when the cycle asked for
`AgenticOLSConfig` and when it went on to its targets. Nothing in the actions of
the adapter reads them.

### SpokeDiscovery

`main` walks through `newTargets` (`ListSpokeClusters`, `BuildListed`) and
starts the manager. The informer lists once (`Sync`) and then delivers changes
in its own time (`Deliver`); the queue holds names, once each. `Reconcile` is
three actions, because the cache and the Secret may change between its reads
and its write: `GetSpokeCluster`, `ReadSecret`, `UpdateRegistry`. A Secret is
what it holds, or none if it is missing or lacks one of its three keys.

### Admission and PollLoopAdmission

`Admission` knows no adapter: a slot (target label and group) has at most one
run under way and stays empty for `PostRunDelay` after one has ended. Users may
delete runs; time passes. `PollLoopAdmission` reads a slot's state off the
AgenticRuns and checks `ImplementsAdmission`: each of the adapter's steps is a
step of `Admission` or none. The two promises of deduplication and cooldown
are thereby one statement about what the API server keeps, whatever goes on in
the process.

### RollingUpdate

The old process is `PollLoop`'s, the new one an `INSTANCE` of it with its own
`loop`, `worker`, `backoff` and `ticker`; API server, clock and operator are
shared. `StartNew`, `TerminateOld` and `KillOld` come in the order Kubernetes has
them. `handover` is history: whether the new process has begun a cycle since the
old one ended. Nobody deletes runs in this module, and no create is applied
after its sender gave up. `OneActivePerOccurrence` is about names that are not
cut: a retry name that has lost its hash tells nothing of an occurrence, as the
run `LongNames` shows.

### Fleet

`registry` changes between any two steps of the loop, each operation in one
step as the lock makes it; `TakeTargets` is the copy a cycle works on. What
makes the controller call `SetSpoke` and `RemoveSpoke` is `SpokeDiscovery`'s
matter; here it does so at any moment before `QuietAfter`. `goneSince` is history.
The liveness properties of the loop are stated here, where targets come and go.

### Configuration and Lifecycle

The file is what YAML makes of it: durations that are unset, invalid or a
number, optional lists, a list of skills. A list that is filtered (skills, paths) keeps
the positions its elements have in the file. `LoadFromFile` and `main`'s reading of
the environment are operators of `Configuration`. `pc` walks through `main`: the
limit on targets, configuration, client, local target, and with `--multicluster`
the list, the spokes and the controller. What the process has read decides some
steps (`Refused`), the world outside others (`MayFail`). The file may be edited
at any moment; the process keeps what it has read. Then comes `Run`, which only
a cancelled context ends (`StopsOnSignal` of `PollLoop`), and the look at the
channel. The manager's goroutine is one action per statement, since each may
come before or after `main`'s steps and the signal. A signal before
`NotifyContext`, or after `stop`, kills the process.

### AlertmanagerClient

A call has the token and the CAs it started with, so a client that is replaced
meanwhile does not change it. Rotation is orderly: a new token or CA is on the
client's side before AlertManager stops taking the old one. The local token file
is kept fresh by the kubelet well before expiry, so a call does not outlive the
token it has read (`ExpireTokens`).

### RunText and StableFingerprint

Text is a sequence of characters from a small alphabet that has a letter of
each case, the three separators and one character of each kind that is treated
differently. The limits are constants: 12 instead of 63 characters, and digests
of 3 instead of 8 and 12. The number in a retry suffix is written by the constant
`Itoa`, in the run in binary, so that it grows by a digit within three
replacements. Digests are injective, but all they tell is in their
last character, so that a digest that is cut tells nothing. `StableFingerprint`
gets the labels in any order, another one for each run that is built, and returns
the bytes it would hash; labels' bytes include the numbers that are also lengths.

What is taken on trust of texts is written down as assumptions, which TLC
evaluates. `DigestAssumption`: a digest has its length, letters and digits only,
and differs from the others (of the identities and start times there are).
`NumberAssumption`: fmt writes different numbers differently, with digits only
and fewer of them than the hash has, so that no retry name can be taken for an
unstopped run's; with eight hex digits that is up to ten million stops of one
run.
`SpokeAssumption`: Kubernetes has checked the names of SpokeClusters, and nobody
has named one exactly as another's shortened name (57 characters that end in
twelve digits of the other's hash), which would give both the same identity.

## Runs

| Run (cfg, module) | Shows |
|---|---|
| `Dedup`, `MCPollLoop` | `OneActivePerGroup`, `DedupInv`, `EndKnown`, `CooldownRespected`, `ImplementsAdmission` with two alerts of one group, alerts that each filter drops, the endings of a run and two faults (lost answers, errors, deletions, signals, crashes) |
| `Backoff`, `MCPollLoop` | `BackoffHonoured` and the invariant behind it, `BackoffInv`, for two targets, three faults, cycles that open late, workers whose `now` is behind the clock, time enough for the delay to double, reach its cap and expire |
| `Cycle`, `MCFleet` | `CycleBounded` and the invariant behind it, `RoundsInv`, `CycleEnds`, `StopsOnSignal`, `SuspensionTakesHold`, `RemovalHonoured` with one slot for two targets, spokes that come and go, suspension at any moment and servers that owe no answer |
| `Healthy`, `MCFleet` | `FiringAlertServed`, `EmergencyStopReplaced` for a spoke that may be added at any moment, behind a hub target that hangs, with one slot |
| `Discovery`, `MCSpokeDiscovery` | `DiscoveryInv`, `RemovalTakesHold`, `DiscoveryTakesHold` for a SpokeCluster and two Secrets, each missing or with one of two contents, through four changes and two faults |
| `RollingUpdate`, `MCRollingUpdate` | `OverlapBounded`, `OneActivePerOccurrence`, `DedupRestored`: one run too many for a group at most, never two for an occurrence, none after the handover |
| `Lifecycle`, `MCLifecycle` | `HandoverInv`, `SuccessMeansSignalled`, `FailureMeansError`, `ProcessEnds`; `SettingsUsable` (the assumptions of `PollLoop` among others), `FailsClosed`, `ListsAsWritten`, `SkillsComplete` |
| `AlertmanagerClient` | `LocalTokenFresh`, `RetrievalHeals` |
| `RunText`, `MCRunText` | `NameUsable`, `NameTellsApart`, `TargetIDUnique`, `LabelsAccepted`, `PromptClean`, `GroupIsStable`, `GroupIsExact` |

Three runs take a statement of the documentation that the code does not keep,
and find a counterexample:

| Run | Counterexample |
|---|---|
| `LateCreate` | a process dies with a create on its way; the next one lists, then the create is applied, and the next one's own create is AlreadyExists. That run is not added to the list, so a second alert of the group gets a run of its own |
| `LongNames` | two targets with the same full-length name get the same retry name; for one of them every create is AlreadyExists |
| `DeletedAtStartup` | a SpokeCluster deleted between the two lists is never reconciled |

### Other places where code and documents differ

The passing runs leave these out; the models show them with the change named.

* A run completed with `NoActionRequired` has no Verified condition, so
  `terminalTime` is nil and there is no cooldown (known, rule 25a of
  `poll-loop.md`). Shown by `CooldownRespected` of `Dedup` with an `Analyzed`
  report of that reason among the `Outcomes`.
* A SpokeCluster named `local` and the hub share backoff entries, though rule 27
  of `poll-loop.md` isolates them. Shown by `BackoffHonoured` of `Backoff` with
  the targets `LocalTarget(TRUE)` and `SpokeTarget("local")`.
* SIGTERM during the startup list makes it an error, and the exit status 1,
  where `poll-loop.md` asks for 0. `FailureMeansError` counts it as a failed
  startup.
* From 53 characters of namespace on a name exceeds 63 (known, rule 16a of
  `agenticrun-building.md`), and an alert name that begins with an underscore
  gives a name that begins with a hyphen. `NameUsable` excludes both by
  `ShortNamespace` and `PlainAlertName`.
* The local AlertManager client keeps the service CA it read at startup. Shown
  by `RetrievalHeals` with `LocalCARotates = TRUE`.

### Bounds

`MaxFaults` bounds errors, signals, deletions and restarts together: two in
`Dedup` are enough for a fault and another one during recovery, one in the
larger instances of `Fleet` for each kind of fault at every moment, and three in
`Backoff` for the delay to double and to meet its cap (1, 2, 2). `MaxTime` and
`LastTick` leave room for the delay of interest and a cycle after it: in
`Backoff` three failures and the attempt the cap allows, or a failure, the expiry
of its entry and the next failure, in `Dedup` the cooldown of a run of the
first cycle. In `Cycle` and `Healthy` the last cycle can come to its end before `MaxTime`. `QuietAfter` begins the time
without failures in `Healthy` and `LongNames`, and in `Backoff` the last two
moments, where attempts are still made; in the other runs it lies beyond
`MaxTime`. `CHECK_DEADLOCK FALSE` is there because the bounds stop time, and
because the adapter stops for good after a signal. `MaxConcurrentTargets` is 0
in `Dedup`, which the code takes for 1. `RollingUpdate` has three alerts of
one group, so that a process that forgets its own creates shows, and two poll
intervals, so that the new process begins a cycle after the old one has gone.
`PollInterval` is 2 wherever a worker's `now` is compared with anything, so that a
moment may pass between its list and its create. No cycle opens after `LastTick`.
`Discovery` has one SpokeCluster, so that its Secrets can be rotated and its label
moved several times: what one SpokeCluster has for a target depends on another's
only in that they wait for the same worker, which the fairness is about, and
`DiscoveryKeepsUp` is proved for any number.
`Cycle` runs for longer than a removal in the first round of the first cycle
and the longest cycle after it. In `Lifecycle` two signals are enough for one that
is caught and one that is not. `MCLifecycle` varies one part of the file at a
time (all three durations together, all lists together, two skills entries), as
`LoadFromFile` treats the parts independently, and the environment with a file
that sets nothing; edits leave one of three files.
Names in `RunText` are of every length around the limit, and label sets have up
to two labels, with values that contain an encoded label.

### Fairness

`UnresponsiveSpec`: the goroutines of the process are scheduled, and a call returns
once its context is done (the HTTP clients honour it). Nothing is asked of
servers: workers end by their deadlines, and the `AgenticOLSConfig` read, which
has none, ends only if a signal comes (`StopsOnSignal`). `HealthySpec` adds that
the API server answers that read and that AlertManager and the API server answer
the workers of the targets in `Responsive`.
`LifecycleSpec`: the goroutines are scheduled and the calls of startup return,
but for the list, which returns when its context is done. `PollingSpec` of
`AlertmanagerClient`: the loop polls, AlertManager answers, an unusable
credential is repaired, a pod that cannot start is started again, and spokes are
reconciled (the resync).
`DiscoverySpec`: the startup code and the controller take their steps, the
watch delivers, and a queued name gets its turn (strong fairness, as the queue
is first in, first out and one worker serves it). `ResyncSpec` adds
the informer's periodic resync (ten hours by default), without which a Secret
that comes late is not read again.

## Proofs

All theorems hold for every value of the constants that meets the assumptions
in the modules (`TimeAssumption`, `TargetAssumption`, `AlertAssumption`,
`DiscoveryAssumption`, `ConfigurationAssumption`, `LifecycleAssumption`,
`ClientAssumption`, `TextAssumption`, `DigestAssumption`, `NumberAssumption`,
`SpokeAssumption`). Some theorems have hypotheses of their own, each of which
leaves out one behaviour that breaks the property:

| Hypothesis | Leaves out | Where it is shown |
|---|---|---|
| `DistinctNames` | a SpokeCluster named `local` beside the hub | above, "Other places" |
| `~LateCreates` | a create that is applied after its sender gave up | run `LateCreate` |
| `EndsReported` | ends of a run that `terminalTime` does not find | above, "Other places" |
| `~ChangesDuringStartup` | a SpokeCluster deleted between two lists | run `DeletedAtStartup` |

`EndsReported` excludes the reason `NoActionRequired`, after which a run is
Completed without a Verified condition, and a False condition of a type other
than Analyzed, Executed and Verified, which `DerivePhase` calls Failed and
`findFailedConditionType` does not look for. `Orderly` is the conjunction of the
first three. The run `Dedup` has constants that meet all of them.

**Names and types.** `NextAvailableNameIsFree`: the search ends, and with the
first free name. The candidates differ by their retry number, so among one more
than there are names one is free (pigeonhole on a finite set). `TypeSafe` is
from the inductive `TypeInv`, which adds to `TypeOK` that the known runs are
finite in number, as `NextAvailableName` needs.

**Deduplication.** `OneActiveRun` from `DedupInvariant`, with `DistinctNames`
and `~LateCreates`. `OneActivePerGroup` is not inductive: a worker acts on a list
that is out of date. `DedupInv` says why that is harmless: each run of its target
a worker has in its view as it is, or it will not ask for another of its group
because its view has an active one, or because of the backoff (the create whose
answer was lost), or because it has just been told that it created it
(`RunsCovered`); what it asks for is in a group it takes to be free
(`RequestFree`); and no worker runs between cycles (`WorkersAwaited`), so two
workers never serve one target. The backoff entry covers the rest of the cycle
because it is stamped no earlier than the cycle's `now`.

**Cooldown and Admission.** With `EndsReported`, the time `terminalTime` finds is
the time at which the run ended (`EndsAreKnown`): an operator's report adds the
condition that ends the run, and none of the earlier ones is taken for it.
Together with `DedupInv`, whose `RequestFree` says that the group is not too
recent in the worker's view at the worker's `now`, this gives `CooldownHolds`:
a run that ended after the worker listed it was active in the view, so its group
is covered. `PollLoopImplementsAdmission` maps each step: a create is
`Admission`'s start (one run under way, and the last end `PostRunDelay` ago), a
report that ends the run its end, and all else a deletion, a tick or none.

**Rolling update.** `OverlapIsBounded`, `OneRunPerOccurrence` and
`DedupIsRestored`, with `DistinctNames`. `DedupInv` does not hold of two
processes, as the other one's creates are in no view and no backoff entry. What
is left of it for one process, `ProcessInv`, is shown for `PollLoop` once and
instantiated for the new process: a worker asks only for runs of groups it takes
to be free. A worker that does so is `Unaware` of the group; no step makes it
unaware while a run of the group is under way, and its own create ends it.
* `RoomLeft` counts on this: two runs at most are under way; one at most if
  either process is unaware; none if both are. "Two at most" is not inductive
  by itself, as it does not say who may add a third.
* `HandInv`: after the handover the old process takes no step, and the new one is
  unaware of a group only if nothing is under way in it: it has listed everything
  the old one left.
* `NamesInv` is about names and what was read of them: the server has each name
  once; there are ended runs with all lower numbers for every run, and every
  requested one, with a retry number; and what a worker has in its view is on the
  server still, perhaps ended since. Of two active runs of one occurrence neither
  can have the lower number, so they have one name and are one run.

**Length of a cycle.** `CycleIsBounded` from `RoundsAdvance`, without
hypotheses. `CycleBounded` alone is not inductive. `RoundsInv` counts: when more
than `q` poll intervals have passed in a cycle, the targets that have not been
started, or were started after the `q`-th interval, are none or at least
`(q + 1) * Slots` fewer than all. As long as targets are pending all slots are
taken, and a worker's slot is free again after one interval, because of its
deadline. From it follow `SuspensionHolds` and, with the registry,
`RemovalIsHonoured` of `Fleet` (a cycle that opens takes a copy); both need
`~LateCreates`, as nothing bounds when a late create is applied.
`SuspensionHolds` also rests on `AskedBefore`: a cycle that has leave to create
runs, or creates them, while the adapter is suspended has asked before the
suspension, since the server has read after it was asked and before the
suspension. The age of the answer is not bounded, and the theorem does not say so.

**Backoff.** `BackoffHolds` from `FailuresRemembered`, with `DistinctNames`
alone. `BackoffInv` ties the history `streak` to the entries: a row of failures
is over, or so old that every delay has passed, or its entry is there with at
least the delay the row has earned, stamped with its last failure. `GC`, `Next`
and `IsInBackOffSinceUpdate` decide on expiry with different times; all of them
keep an entry for twice the maximum.

**Spoke discovery.** `DiscoveryTypeSafe`, and `DiscoveryKeepsUp` from
`DiscoveryInv`: the request under way has the cached object, or its name is
queued again (`RequestsCurrent`), and before the informer's list the registry
agrees with the hub (`StartupFollowsHub`). Hypothesis: `~ChangesDuringStartup`.

**Lifecycle.** `HandoverCorrect` says what `main`, the manager's goroutine, the
channel and the context may conclude from each other; `SuccessIsSignalled` and
`FailureIsError` follow. A second invariant, local to the proofs, says which
settings each startup step leaves behind; with it lemmas about `LoadFromFile`
for every file give `SettingsAreUsable`, `StartupFailsClosed`,
`ListsAreAsWritten` and `SkillsAreComplete`.

**AlertManager client.** `TokenIsFresh`: the file holds a token AlertManager
takes, and so does every call of the local client that is under way.

**Texts.** A run is made of its alert and its target (`BuiltInv`, which is
inductive); the rest is about operators, for texts of any length and any limits.
* `LabelsAreAccepted`: the cut comes before the two trims, and each trim keeps
  what the steps before it established.
* `TargetIDsUnique`: what follows the prefix is a name that fits, or a part of
  the name of fixed length and the digest of the whole. Two short names are kept,
  two long ones have different digests, and one of each is `SpokeAssumption`.
* `NamesTellApart`: however the name and the namespace are cut, the digest ends
  the name whole, and what comes before depends on the digest's length only.
* `NamesAreUsable`: every candidate begins with the alert name's first character,
  lower-cased, because at least one character is left whatever is cut, and ends in
  a hyphen and either the digest or the retry number. What follows the last hyphen
  therefore tells candidates apart, so there are more of them than names in use,
  and `NextAvailableName` finds a free one. `StopsInv` says that each run has the
  name it was given and bounds the names in use; it is inductive.
* `PromptIsClean`: characters that are neighbours after fences are removed were
  neighbours before if both are backticks, since a gap would have been a fence
  that includes them. So three in a row would have been a fence themselves. The
  lemmas on `Nth` number the positions that are kept; that numbers have a least
  one with a property takes the place of induction.

### Only model-checked

* The liveness properties, which are outside the prover: `CycleEnds`,
  `StopsOnSignal`, `FiringAlertServed`, `EmergencyStopReplaced`, `ProcessEnds`,
  `RemovalTakesHold`, `DiscoveryTakesHold`, `RetrievalHeals`.
* `GroupIsStable` and `GroupIsExact` of `RunText`: what a sort, a fold over the
  sorted keys and the recursive `uvarint` give for every set of labels is
  induction over data, which is outside the prover, too.

## Not modelled

* The wording of the request template and `buildAnnotations`: text that no
  decision of the adapter reads back.
* YAML and duration syntax, HTTP, TLS and watch protocols: the libraries'.
* Collisions of digests. Names and groups are cut to eight hex digits; the
  documentation accepts that they collide, and that alerts of one rule that
  start at the same evaluation share a name.
* A change of `--multicluster` between two processes, which changes the label
  of the local target. Rule 31a of `agenticrun-building.md` plans to keep the
  history of active runs and cooldowns then, and says that the current listing
  does not.
* Starts within one second. The start that is hashed into a name is formatted to
  the second, so two occurrences of an alert within one would share a name; the
  moments of the models are whole seconds or more.
* Manifests, container build and tests, but for the rolling update.

## Plan

The plan is carried out: each part of the system with control logic has its
module, and the safety properties the runs check are proved but for the two
above. Worth adding when the code changes:

1. A second change of configuration inside one process, should the adapter come
   to reload its file.
2. Deletions in `RollingUpdate`, for which `NamesInv` would have to say what is
   left of a row of retry names.

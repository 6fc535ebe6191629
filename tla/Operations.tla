----------------------------- MODULE Operations -----------------------------
(***************************************************************************)
(* What runs beside the gateway: the appliance agent (image updates and    *)
(* its own configuration, src/anonreq/appliance/agent.py), the watcher of  *)
(* the mounted secrets (src/anonreq/secrets/reloader.py), and the life of  *)
(* the endpoint agent (src/anonreq/endpoint/agent.py, macos/capture.py).   *)
(* The three share nothing: each has its variables, Init and Next.         *)
(***************************************************************************)
EXTENDS Integers, FiniteSets

(***************************************************************************)
(* The appliance agent.  A compose file names one image of the gateway; an *)
(* image has a kind: its reference is "plain" (anonreq/gateway:..),        *)
(* "registry" (ghcr.io/anonreq/gateway:..) or "bare" (anything else, such  *)
(* as the v2.0.0 of tests/test_appliance.py).                              *)
(***************************************************************************)
CONSTANTS Updaters,     \* concurrent calls of update()
          Images,       \* [kind, tag] records an update may ask for
          ComposeFiles, \* compose files a configuration may name
          DefaultFile,  \* the one ApplianceConfig() names
          FirstImage,   \* what the appliance was installed with
          MaxChanges    \* bound on the changes of the configuration
VARIABLES agentConf,    \* ApplianceAgent._config, by its compose_file
          confFile,     \* config.json: a compose file, "absent" or "broken"
          composeImage, \* [ComposeFiles -> image or NoImage]
          serving,      \* the image the services run
          upd,          \* [Updaters -> state of the call]
          orphans,      \* compose files whose timed-out up still runs
          changes
applianceVars == <<agentConf, confFile, composeImage, serving, upd, orphans, changes>>

ASSUME OperationsAssumption == DefaultFile \in ComposeFiles /\ FirstImage \in Images

NoImage == [kind |-> "none", tag |-> 0]   \* there is no such compose file
Fresh == [step |-> "idle", tag |-> FirstImage, file |-> DefaultFile,
          alone |-> FALSE, fits |-> FALSE, served |-> FirstImage]

ApplianceInit ==
  /\ agentConf = DefaultFile
  /\ confFile = "absent"
  /\ composeImage \in {[f \in ComposeFiles |-> IF f \in there THEN FirstImage ELSE NoImage] :
                         there \in {ComposeFiles, ComposeFiles \ {DefaultFile}}}
  /\ serving = FirstImage
  /\ upd = [w \in Updaters |-> Fresh]
  /\ orphans = {}
  /\ changes = 0

\* _load_config: a missing or unreadable file gives the defaults.
LoadConfig(file) == IF file \in ComposeFiles THEN file ELSE DefaultFile

\* The substitution of _update_compose_image_tag: it replaces a gateway
\* image only, with or without the registry.
Substituted_NoRegistry(old, new) == IF old.kind = "plain" THEN new ELSE old
Substituted(old, new) == IF old.kind \in {"plain", "registry"} THEN new ELSE old

Running(w) == upd[w].step \in {"pulling", "raising"}
Shared == [w \in Updaters |-> [upd[w] EXCEPT !.alone = FALSE]]

\* update(): the pull command is started.
StartUpdate(w, image) ==
  /\ upd[w].step = "idle"
  /\ upd' = [Shared EXCEPT ![w] =
               [Fresh EXCEPT !.step = "pulling", !.tag = image,
                  !.alone = (orphans = {} /\ \A v \in Updaters : ~Running(v)),
                  !.fits = composeImage[agentConf].kind \in {"plain", "registry"}]]
  /\ UNCHANGED <<agentConf, confFile, composeImage, serving, orphans, changes>>

\* The pull has ended well: the image is written into the compose file the
\* configuration names by now (nothing when there is none), and up is started.
PullDone(w) ==
  /\ upd[w].step = "pulling"
  /\ composeImage' = [composeImage EXCEPT ![agentConf] = Substituted(@, upd[w].tag)]
  /\ upd' = [upd EXCEPT ![w].step = "raising", ![w].file = agentConf]
  /\ UNCHANGED <<agentConf, confFile, serving, orphans, changes>>

\* The pull failed or timed out, or the compose file cannot be written.
PullFailed(w) ==
  /\ upd[w].step = "pulling"
  /\ upd' = [upd EXCEPT ![w].step = "failed"]
  /\ UNCHANGED <<agentConf, confFile, composeImage, serving, orphans, changes>>

\* up --force-recreate: the services run what the file names when it ends.
UpDone(w) ==
  /\ upd[w].step = "raising"
  /\ composeImage[upd[w].file] # NoImage
  /\ serving' = composeImage[upd[w].file]
  /\ upd' = [upd EXCEPT ![w].step = "done", ![w].served = composeImage[upd[w].file]]
  /\ UNCHANGED <<agentConf, confFile, composeImage, orphans, changes>>
UpFailed(w) ==
  /\ upd[w].step = "raising"
  /\ upd' = [upd EXCEPT ![w].step = "failed"]
  /\ UNCHANGED <<agentConf, confFile, composeImage, serving, orphans, changes>>

\* wait_for gives up on the command, whose process is not killed.
UpTimesOut(w) ==
  /\ upd[w].step = "raising"
  /\ upd' = [upd EXCEPT ![w].step = "failed"]
  /\ orphans' = orphans \union {upd[w].file}
  /\ UNCHANGED <<agentConf, confFile, composeImage, serving, changes>>
OrphanEnds(file) ==
  /\ file \in orphans
  /\ composeImage[file] # NoImage
  /\ orphans' = orphans \ {file}
  /\ serving' = composeImage[file]
  /\ upd' = Shared
  /\ UNCHANGED <<agentConf, confFile, composeImage, changes>>
OrphanFails(file) ==
  /\ file \in orphans
  /\ orphans' = orphans \ {file}
  /\ UNCHANGED <<agentConf, confFile, composeImage, serving, upd, changes>>

\* update_config(): an invalid change is refused; the file is opened for
\* writing, which empties it, then written, then loaded again.
UpdateConfig(file) ==
  /\ changes < MaxChanges
  /\ changes' = changes + 1
  /\ confFile' = file
  /\ agentConf' = LoadConfig(confFile')
  /\ upd' = Shared
  /\ UNCHANGED <<composeImage, serving, orphans>>
UpdateConfigTorn ==
  /\ changes < MaxChanges
  /\ changes' = changes + 1
  /\ confFile' = "broken"
  /\ UNCHANGED <<agentConf, composeImage, serving, upd, orphans>>

\* The agent's process is started again; commands it had running go on.
RestartAgent ==
  /\ changes < MaxChanges
  /\ changes' = changes + 1
  /\ agentConf' = LoadConfig(confFile)
  /\ orphans' = orphans \union {upd[w].file : w \in {v \in Updaters : upd[v].step = "raising"}}
  /\ upd' = [w \in Updaters |-> IF Running(w) THEN [upd[w] EXCEPT !.step = "failed"] ELSE upd[w]]
  /\ UNCHANGED <<confFile, composeImage, serving>>

ApplianceNext ==
  \/ \E w \in Updaters : \/ \E i \in Images : StartUpdate(w, i)
                         \/ PullDone(w) \/ PullFailed(w)
                         \/ UpDone(w) \/ UpFailed(w) \/ UpTimesOut(w)
  \/ \E f \in ComposeFiles : OrphanEnds(f) \/ OrphanFails(f) \/ UpdateConfig(f)
  \/ UpdateConfigTorn
  \/ RestartAgent

\* An update that no other update, change of the configuration or timed-out
\* command overlapped, begun while the compose file named a gateway image,
\* and answered "completed" has put the services on the image it was given.
QuietUpdateApplies ==
  \A w \in Updaters : upd[w].step = "done" /\ upd[w].alone /\ upd[w].fits
                      => upd[w].served = upd[w].tag

\* Does not hold: of two overlapping updates the first to end answers
\* "completed" for an image the other one replaced.
CompletedMeansServed ==
  \A w \in Updaters : upd[w].step = "done" /\ upd[w].fits => upd[w].served = upd[w].tag
\* Does not hold: after an update to a bare reference no later update finds
\* the image in the compose file, and each answers "completed".
LoneUpdateApplies ==
  \A w \in Updaters : upd[w].step = "done" /\ upd[w].alone => upd[w].served = upd[w].tag
\* Does not hold: a write that fails half way loses the stored configuration.
ConfigDurable == agentConf = LoadConfig(confFile)

(***************************************************************************)
(* The watcher of the secret file.  The emitter thread compares the file   *)
(* with its last look every Interval and queues an event, the dispatcher   *)
(* thread hands events to _maybe_reload.  A reload that raises ends the    *)
(* dispatcher (the watchdog library's thread has no handler for it).       *)
(***************************************************************************)
CONSTANTS Interval,     \* poll interval of the observer
          SecretDebounce, \* _SecretFileHandler._debounce
          MaxVersions,  \* bound on the rotations
          MaxSecretTime \* bound on the clock
VARIABLES version,      \* contents of the secret file, by number
          broken,       \* the versions that are no mapping of keys
          looked,       \* version the emitter last saw
          lookedAt,     \* and when
          secretEvents, \* events queued for the dispatcher
          trigger,      \* _last_trigger
          loadedVersion, \* version the runtime store holds
          dispatching,  \* the dispatcher thread is alive
          tardy,        \* an event has waited in the queue for a tick
          secretTime
watchVars == <<version, broken, looked, lookedAt, secretEvents, trigger, loadedVersion,
               dispatching, tardy, secretTime>>

ASSUME WatchAssumption == Interval \in Nat /\ SecretDebounce \in Nat /\ SecretDebounce <= Interval

WatchInit ==
  /\ version = 0 /\ broken = {}
  /\ looked = 0 /\ lookedAt = 0 /\ secretEvents = 0
  /\ trigger = -SecretDebounce
  /\ loadedVersion = 0
  /\ dispatching = TRUE /\ tardy = FALSE
  /\ secretTime = 0

\* An operator renames a new file over the secret file.
Replace(ok) ==
  /\ version < MaxVersions
  /\ version' = version + 1
  /\ broken' = IF ok THEN broken ELSE broken \union {version + 1}
  /\ UNCHANGED <<looked, lookedAt, secretEvents, trigger, loadedVersion, dispatching, tardy, secretTime>>

\* The emitter looks once the interval has passed since its last look; a
\* rename shows up as one or two events of the watched path.
Look ==
  /\ secretTime - lookedAt >= Interval
  /\ lookedAt' = secretTime
  /\ looked' = version
  /\ IF looked = version THEN UNCHANGED secretEvents
     ELSE \E n \in 1..2 : secretEvents' = secretEvents + n
  /\ UNCHANGED <<version, broken, trigger, loadedVersion, dispatching, tardy, secretTime>>

SecretTick ==
  /\ secretTime < MaxSecretTime
  /\ secretTime' = secretTime + 1
  /\ tardy' = (tardy \/ (dispatching /\ secretEvents > 0))
  /\ UNCHANGED <<version, broken, looked, lookedAt, secretEvents, trigger, loadedVersion, dispatching>>

Debounced_Interval == secretTime - trigger <= Interval
Debounced == secretTime - trigger < SecretDebounce

\* load_secret_snapshot: the file parses to a mapping of provider keys.
LoadableSecrets(v) == v \notin broken

\* _maybe_reload of one event: dropped within the debounce interval, else
\* reload() replaces the snapshot, the store and the rotation buffer, or
\* raises.
DropEvent ==
  /\ dispatching /\ secretEvents > 0
  /\ Debounced
  /\ secretEvents' = secretEvents - 1
  /\ UNCHANGED <<version, broken, looked, lookedAt, trigger, loadedVersion, dispatching, tardy, secretTime>>
ReloadSecrets ==
  /\ dispatching /\ secretEvents > 0
  /\ ~Debounced
  /\ secretEvents' = secretEvents - 1
  /\ trigger' = secretTime
  /\ IF LoadableSecrets(version)
     THEN loadedVersion' = version /\ UNCHANGED dispatching
     ELSE dispatching' = FALSE /\ UNCHANGED loadedVersion
  /\ UNCHANGED <<version, broken, looked, lookedAt, tardy, secretTime>>

WatchNext == (\E ok \in BOOLEAN : Replace(ok)) \/ Look \/ SecretTick \/ DropEvent \/ ReloadSecrets

\* With a dispatcher that never falls behind a tick, dropping events within
\* the debounce interval loses no rotation: once the emitter has seen the
\* file and no event is left, the store holds the file's keys, unless a
\* broken file has ended the dispatcher.
PromptWatcherCatchesUp ==
  dispatching /\ ~tardy /\ secretEvents = 0 /\ looked = version => loadedVersion = version

\* Does not hold: an event handled late sets the trigger so that the next
\* look's event is dropped.
LastChangeLoaded ==
  dispatching /\ secretEvents = 0 /\ looked = version => loadedVersion = version
\* Does not hold: after one broken file no good one is loaded any more.
GoodFileLoaded ==
  ~tardy /\ (~dispatching \/ secretEvents = 0) /\ looked = version /\ version \notin broken
  => loadedVersion = version

(***************************************************************************)
(* The endpoint agent: start() and stop() may overlap, since stop() waits  *)
(* for the loops it cancelled.  A start is numbered; its heartbeat and     *)
(* discovery loops share its number.                                       *)
(***************************************************************************)
CONSTANTS MaxAgentStarts,    \* bound on the starts
          Stoppers      \* concurrent calls of stop()
VARIABLES agentOn,      \* EndpointAgent.running
          started,      \* number of starts so far
          loops,        \* starts whose loops still run
          held,         \* starts whose loops are in _tasks
          capturing,    \* TrafficCapture.running
          stopping      \* calls of stop() waiting for the cancelled loops
endpointVars == <<agentOn, started, loops, held, capturing, stopping>>

EndpointInit ==
  /\ agentOn = FALSE /\ started = 0 /\ loops = {} /\ held = {}
  /\ capturing = FALSE /\ stopping = {}

StartAgent ==
  /\ ~agentOn
  /\ started < MaxAgentStarts
  /\ started' = started + 1
  /\ agentOn' = TRUE
  /\ loops' = loops \union {started + 1}
  /\ held' = held \union {started + 1}
  /\ capturing' = TRUE
  /\ UNCHANGED stopping

StopAgent(s) ==
  /\ agentOn /\ s \notin stopping
  /\ agentOn' = FALSE
  /\ loops' = loops \ held
  /\ stopping' = stopping \union {s}
  /\ UNCHANGED <<started, held, capturing>>

\* gather() has returned: the tasks are forgotten and the capture stopped.
AgentStopEnds_CancelsLate(s) ==
  /\ s \in stopping
  /\ stopping' = stopping \ {s}
  /\ loops' = loops \ held
  /\ held' = {}
  /\ capturing' = FALSE
  /\ UNCHANGED <<agentOn, started>>
AgentStopEnds(s) ==
  /\ s \in stopping
  /\ stopping' = stopping \ {s}
  /\ held' = {}
  /\ capturing' = FALSE
  /\ UNCHANGED <<agentOn, started, loops>>

\* A loop that wakes while the agent is off ends.
LoopEnds(n) ==
  /\ n \in loops /\ ~agentOn
  /\ loops' = loops \ {n}
  /\ UNCHANGED <<agentOn, started, held, capturing, stopping>>

EndpointNext == \/ StartAgent
                \/ \E s \in Stoppers : StopAgent(s) \/ AgentStopEnds(s)
                \/ \E n \in 1..MaxAgentStarts : LoopEnds(n)

\* The three side by side.
OperationsSpec ==
    /\ ApplianceInit /\ WatchInit /\ EndpointInit
    /\ [][\/ ApplianceNext /\ UNCHANGED <<watchVars, endpointVars>>
          \/ WatchNext /\ UNCHANGED <<applianceVars, endpointVars>>
          \/ EndpointNext /\ UNCHANGED <<applianceVars, watchVars>>
         ]_<<applianceVars, watchVars, endpointVars>>

\* An agent that is on sends heartbeats, however start() and the two halves
\* of stop() overlap.
RunningHasLoops == agentOn => loops # {}

\* What each agent comes to rest in: the image asked for, the secrets of the
\* last change, the loops of a running endpoint.
AgentsSettle ==
    /\ QuietUpdateApplies
    /\ PromptWatcherCatchesUp
    /\ RunningHasLoops

\* Does not hold: a start while stop() waits has its loops forgotten, so the
\* next stop() does not cancel them and a further start runs them as well.
OneSetOfLoops == Cardinality(loops) <= 1
\* Does not hold: the waiting stop() ends the capture of the newer start.
RunningCaptures == agentOn /\ stopping = {} => capturing
=============================================================================

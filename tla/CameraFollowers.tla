-------------------------- MODULE CameraFollowers --------------------------
(***************************************************************************)
(* What follows the camera list of a node: MediaMTX, kept by its           *)
(* supervisor (node/src/mediamtx/mod.rs) with a configuration file         *)
(* (node/src/mediamtx/config.rs), and the motion detection tasks           *)
(* (node/src/events/mod.rs).  The WebSocket client changes the list and    *)
(* sends a copy to the supervisor; the motion tasks look at it by          *)
(* themselves.  `missed` is a history variable: no action reads it.        *)
(***************************************************************************)
EXTENDS Naturals, Sequences, FiniteSets

CONSTANTS Cameras,         \* cameras of the node
          Configs,         \* configurations a camera may have
          NoOnvif,         \* a camera without an ONVIF URL
          DiffCapable,     \* whether the node can compare frames itself
          MaxChanges,      \* bound: camera lists received
          MaxFaults        \* bound: failed writes, spawns, signals; exits

ASSUME FollowersAssumption ==
  /\ \A k \in Configs :
       /\ DOMAIN k = {"enabled", "motion", "rtsp", "onvif", "login"}
       /\ k.enabled \in BOOLEAN
       /\ k.motion \in BOOLEAN
  /\ DiffCapable \in BOOLEAN
  /\ MaxChanges \in Nat
  /\ MaxFaults \in Nat

CameraLists == UNION {[S -> Configs] : S \in SUBSET Cameras}
NoCameras == [c \in {} |-> {}]

(* config::generate: a path with the RTSP URL for each enabled camera.     *)
Path == Cameras \X {k.rtsp : k \in Configs}
(* Mutant: paths without their source.                                     *)
GenerateNames(list) == {c \in DOMAIN list : list[c].enabled}
Generate(list) == {<<c, list[c].rtsp>> : c \in {d \in DOMAIN list : list[d].enabled}}

(* The configuration file: a write that has begun or failed leaves a part. *)
ConfigFile == [is: {"absent", "part", "whole"}, paths: SUBSET Path]
Part == [is |-> "part", paths |-> {}]

VARIABLES
  cameras,     \* the node's camera list
  configs,     \* lists the supervisor has not received yet
  supPc,       \* the supervisor
  target,      \* the list it is writing
  file,        \* mediamtx.yml
  child,       \* the process it holds: "none", "running" or "exited"
  unread,      \* why the process has to read the file: "no", "boot", "signal"
  serving,     \* the paths the process serves
  tasks,       \* running motion tasks and the configuration of each
  changes,     \* number of lists received
  faults,      \* number of faults so far
  missed       \* history: what failed since the last list was taken

processVars == <<child, unread, serving>>
vars == <<cameras, configs, supPc, target, file, processVars, tasks, changes,
          faults, missed>>

Fault == /\ faults < MaxFaults
         /\ faults' = faults + 1

Missed(what) == missed' = missed \cup {what}

Init ==
  /\ cameras = NoCameras
  /\ configs = <<>>
  /\ supPc = "check"
  /\ target = NoCameras
  /\ file = [is |-> "absent", paths |-> {}]
  /\ child = "none"
  /\ unread = "no"
  /\ serving = {}
  /\ tasks = NoCameras
  /\ changes = 0
  /\ faults = 0
  /\ missed = {}

-----------------------------------------------------------------------------
(* The WebSocket client                                                    *)

(* handle_incoming: a ConfigSync brings any list, the other messages one   *)
(* that differs for one camera.  A copy goes to the supervisor each time.  *)
HandleIncoming(list) ==
  /\ changes < MaxChanges
  /\ changes' = changes + 1
  /\ cameras' = list
  /\ configs' = Append(configs, list)
  /\ UNCHANGED <<supPc, target, file, processVars, tasks, faults, missed>>

-----------------------------------------------------------------------------
(* The supervisor                                                          *)

(* spawn, which may fail: then there is no process to hold.                *)
Spawn ==
  \/ /\ child' = "running"
     /\ unread' = "boot"
     /\ serving' = {}
     /\ UNCHANGED <<faults, missed>>
  \/ /\ Fault
     /\ child' = "none"
     /\ Missed("spawn")
     /\ UNCHANGED <<unread, serving>>

(* Mutant: an exited process is forgotten and not started again.           *)
CheckHealthForgets ==
  /\ supPc = "check"
  /\ child' = IF child = "exited" THEN "none" ELSE child
  /\ supPc' = "wait"
  /\ UNCHANGED <<cameras, configs, target, file, unread, serving, tasks,
                 changes, faults, missed>>

(* The top of the loop: an exited process is reaped and, if there is a     *)
(* configuration, started again after a pause; try_wait itself may fail.   *)
CheckHealth ==
  /\ supPc = "check"
  /\ \/ /\ child = "exited"
        /\ child' = "none"
        /\ supPc' = IF file.is = "absent" THEN "wait" ELSE "backoff"
        /\ UNCHANGED faults
     \/ /\ child # "exited"
        /\ supPc' = "wait"
        /\ UNCHANGED <<child, faults>>
     \/ /\ child = "exited"
        /\ Fault
        /\ supPc' = "wait"
        /\ UNCHANGED child
  /\ UNCHANGED <<cameras, configs, target, file, unread, serving, tasks,
                 changes, missed>>

Respawn ==
  /\ supPc = "backoff"
  /\ Spawn
  /\ supPc' = "wait"
  /\ UNCHANGED <<cameras, configs, target, file, tasks, changes>>

(* Five seconds without a list.                                            *)
Timeout ==
  /\ supPc = "wait"
  /\ configs = <<>>
  /\ supPc' = "check"
  /\ UNCHANGED <<cameras, configs, target, file, processVars, tasks, changes,
                 faults, missed>>

TakeConfig ==
  /\ supPc = "wait"
  /\ configs # <<>>
  /\ target' = Head(configs)
  /\ configs' = Tail(configs)
  /\ supPc' = "open"
  /\ missed' = {}
  /\ UNCHANGED <<cameras, file, processVars, tasks, changes, faults>>

(* tokio::fs::write truncates the file, then writes it.                    *)
OpenFile ==
  /\ supPc = "open"
  /\ file' = Part
  /\ supPc' = "write"
  /\ UNCHANGED <<cameras, configs, target, processVars, tasks, changes,
                 faults, missed>>

WriteFile ==
  /\ supPc = "write"
  /\ file' = [is |-> "whole", paths |-> Generate(target)]
  /\ supPc' = "apply"
  /\ UNCHANGED <<cameras, configs, target, processVars, tasks, changes,
                 faults, missed>>

(* The list is dropped, and with it what it would have changed.            *)
WriteFails ==
  /\ supPc \in {"open", "write"}
  /\ Fault
  /\ supPc' = "check"
  /\ Missed("write")
  /\ UNCHANGED <<cameras, configs, target, file, processVars, tasks, changes>>

(* Mutant: only a missing process is acted upon.                           *)
ApplyOnlySpawns ==
  /\ supPc = "apply"
  /\ supPc' = "check"
  /\ \/ child = "none" /\ Spawn
     \/ child # "none" /\ UNCHANGED <<processVars, faults, missed>>
  /\ UNCHANGED <<cameras, configs, target, file, tasks, changes>>

(* reload or spawn.  The process held may have exited: it is still there   *)
(* to be signalled, to no effect.                                          *)
Apply ==
  /\ supPc = "apply"
  /\ supPc' = "check"
  /\ \/ child = "none" /\ Spawn
     \/ /\ child = "running"
        /\ unread' = "signal"
        /\ UNCHANGED <<child, serving, faults, missed>>
     \/ child = "exited" /\ UNCHANGED <<processVars, faults, missed>>
     \/ /\ child # "none"
        /\ Fault
        /\ Missed("signal")
        /\ UNCHANGED processVars
  /\ UNCHANGED <<cameras, configs, target, file, tasks, changes>>

-----------------------------------------------------------------------------
(* MediaMTX                                                                *)

(* It reads the file when it starts and when it is told to, and exits if   *)
(* the file is not whole; told to, it may exit in any case.                *)
ReadConfig ==
  /\ child = "running"
  /\ unread # "no"
  /\ unread' = "no"
  /\ \/ /\ file.is = "whole"
        /\ serving' = file.paths
        /\ UNCHANGED child
     \/ /\ file.is # "whole" \/ unread = "signal"
        /\ serving' = {}
        /\ child' = "exited"
  /\ UNCHANGED <<cameras, configs, supPc, target, file, tasks, changes, faults,
                 missed>>

Exit ==
  /\ child = "running"
  /\ Fault
  /\ child' = "exited"
  /\ unread' = "no"
  /\ serving' = {}
  /\ UNCHANGED <<cameras, configs, supPc, target, file, tasks, changes, missed>>

-----------------------------------------------------------------------------
(* Motion detection                                                        *)

Signature(k) == <<k.rtsp, k.onvif>>
Wanted == {c \in DOMAIN cameras : cameras[c].enabled /\ cameras[c].motion}
Startable(k) == k.onvif # NoOnvif \/ DiffCapable

(* Mutant: a task is kept for as long as its camera is wanted.             *)
ReconcileByPresence ==
  /\ LET kept == DOMAIN tasks \cap Wanted
         started == {c \in Wanted \ kept : Startable(cameras[c])} IN
       tasks' = [c \in kept \cup started |->
                   IF c \in kept THEN tasks[c] ELSE cameras[c]]
  /\ UNCHANGED <<cameras, configs, supPc, target, file, processVars, changes,
                 faults, missed>>

(* One round of events::run: it waits for nothing once it has the list.    *)
Reconcile ==
  /\ LET kept == {c \in DOMAIN tasks \cap Wanted :
                    Signature(tasks[c]) = Signature(cameras[c])}
         started == {c \in Wanted \ kept : Startable(cameras[c])} IN
       tasks' = [c \in kept \cup started |->
                   IF c \in kept THEN tasks[c] ELSE cameras[c]]
  /\ UNCHANGED <<cameras, configs, supPc, target, file, processVars, changes,
                 faults, missed>>

-----------------------------------------------------------------------------
(* The container dies with every process in it and is started again; the   *)
(* file stays.                                                             *)
CrashNode ==
  /\ Fault
  /\ cameras' = NoCameras
  /\ configs' = <<>>
  /\ supPc' = "check"
  /\ target' = NoCameras
  /\ child' = "none"
  /\ unread' = "no"
  /\ serving' = {}
  /\ tasks' = NoCameras
  /\ missed' = {}
  /\ UNCHANGED <<file, changes>>

Supervisor == \/ CheckHealth \/ Respawn \/ Timeout \/ TakeConfig \/ OpenFile
              \/ WriteFile \/ Apply

Next ==
  \/ \E list \in CameraLists : HandleIncoming(list)
  \/ Supervisor \/ WriteFails
  \/ ReadConfig \/ Exit
  \/ Reconcile
  \/ CrashNode

Spec == Init /\ [][Next]_vars

(* The tasks and MediaMTX keep running.                                    *)
Fairness == WF_vars(Supervisor) /\ WF_vars(ReadConfig) /\ WF_vars(Reconcile)

FairSpec == Spec /\ Fairness

-----------------------------------------------------------------------------
TypeOK ==
  /\ cameras \in CameraLists
  /\ configs \in Seq(CameraLists)
  /\ supPc \in {"check", "backoff", "wait", "open", "write", "apply"}
  /\ target \in CameraLists
  /\ file \in ConfigFile
  /\ child \in {"none", "running", "exited"}
  /\ unread \in {"no", "boot", "signal"}
  /\ serving \in SUBSET Path
  /\ tasks \in CameraLists
  /\ changes \in 0..MaxChanges
  /\ faults \in 0..MaxFaults
  /\ missed \in SUBSET {"spawn", "write", "signal"}

(* A MediaMTX at work serves the cameras of the node once no list is being *)
(* applied, whichever of its file's states it read and however often it    *)
(* was started again, unless the last list was dropped or its signal lost. *)
SettledServesCameras ==
  /\ configs = <<>>
  /\ supPc \in {"check", "backoff", "wait"}
  /\ child = "running"
  /\ unread = "no"
  /\ missed \cap {"write", "signal"} = {}
  => serving = Generate(cameras)

(* MediaMTX runs and serves the node's cameras in the end: an exit, or a   *)
(* file read while it was being written, is made good.                     *)
EventuallyServes ==
  <>[](cameras # NoCameras /\ missed = {} =>
         child = "running" /\ serving = Generate(cameras))

(* In the end exactly the cameras that are wanted and can be watched have  *)
(* a task, and it connects to their present URLs.                          *)
EventuallyWatches ==
  <>[](/\ DOMAIN tasks = {c \in Wanted : Startable(cameras[c])}
       /\ \A c \in DOMAIN tasks : Signature(tasks[c]) = Signature(cameras[c]))

-----------------------------------------------------------------------------
(* A round "Aborts tasks for cameras that are removed, disabled, or whose  *)
(* connection config has changed" (node/src/events/mod.rs:35-36): once the *)
(* list has stayed the same, an ONVIF task uses the login of its camera.   *)
LoginsReachTasks ==
  <>[](\A c \in DOMAIN tasks \cap DOMAIN cameras :
         tasks[c].onvif # NoOnvif => tasks[c].login = cameras[c].login)
=============================================================================

----------------------- MODULE CameraFollowers_proofs -----------------------
(***************************************************************************)
(* Proofs about CameraFollowers, for every set of cameras and of           *)
(* configurations, any number of lists received and of faults.             *)
(***************************************************************************)
EXTENDS CameraFollowers, SequenceTheorems, TLAPS

-----------------------------------------------------------------------------
(* Type correctness                                                        *)

LEMMA NoCamerasType == NoCameras \in CameraLists
<1>1. NoCameras \in [{} -> Configs]
  BY DEF NoCameras
<1>2. {} \in SUBSET Cameras
  OBVIOUS
<1>3. QED
  BY <1>1, <1>2 DEF CameraLists

(* The paths generated from a camera list are paths.                       *)
LEMMA GenerateType ==
  ASSUME NEW list \in CameraLists
  PROVE  Generate(list) \in SUBSET Path
<1>1. PICK S \in SUBSET Cameras : list \in [S -> Configs]
  BY DEF CameraLists
<1>2. QED
  BY <1>1 DEF Generate, Path

(* The tasks after a round are again cameras with configurations.          *)
LEMMA ReconcileType ==
  ASSUME TypeOK, Reconcile
  PROVE  tasks' \in CameraLists
<1>1. PICK S \in SUBSET Cameras : cameras \in [S -> Configs]
  BY DEF TypeOK, CameraLists
<1>2. PICK T \in SUBSET Cameras : tasks \in [T -> Configs]
  BY DEF TypeOK, CameraLists
<1> DEFINE kept == {c \in DOMAIN tasks \cap Wanted :
                      Signature(tasks[c]) = Signature(cameras[c])}
           started == {c \in Wanted \ kept : Startable(cameras[c])}
<1>3. tasks' = [c \in kept \cup started |->
                  IF c \in kept THEN tasks[c] ELSE cameras[c]]
  BY DEF Reconcile
<1>4. kept \subseteq T /\ started \subseteq S
  BY <1>1, <1>2 DEF Wanted
<1> HIDE DEF kept, started
<1>5. tasks' \in [kept \cup started -> Configs]
  BY <1>1, <1>2, <1>3, <1>4
<1>6. kept \cup started \in SUBSET Cameras
  BY <1>4
<1>7. QED
  BY <1>5, <1>6 DEF CameraLists

LEMMA InitType == Init => TypeOK
BY NoCamerasType, EmptySeq, FollowersAssumption
   DEF Init, TypeOK, ConfigFile

(* Faults are counted up to their bound.                                   *)
LEMMA FaultType ==
  ASSUME TypeOK, Fault \/ UNCHANGED faults
  PROVE  faults' \in 0..MaxFaults
BY FollowersAssumption DEF TypeOK, Fault

LEMMA NextType == TypeOK /\ [Next]_vars => TypeOK'
<1> SUFFICES ASSUME TypeOK, [Next]_vars PROVE TypeOK'
  OBVIOUS
<1>1. ASSUME NEW list \in CameraLists, HandleIncoming(list) PROVE TypeOK'
  <2>1. configs' \in Seq(CameraLists)
    BY <1>1, AppendProperties DEF HandleIncoming, TypeOK
  <2>2. changes' \in 0..MaxChanges
    BY <1>1, FollowersAssumption DEF HandleIncoming, TypeOK
  <2>3. QED
    BY <1>1, <2>1, <2>2 DEF HandleIncoming, TypeOK, processVars
<1>2. CASE CheckHealth
  BY <1>2, FaultType DEF CheckHealth, TypeOK
<1>3. CASE Respawn
  BY <1>3, FaultType DEF Respawn, Spawn, Missed, TypeOK
<1>4. CASE Timeout
  BY <1>4 DEF Timeout, TypeOK, processVars
<1>5. CASE TakeConfig
  <2>1. Head(configs) \in CameraLists /\ Tail(configs) \in Seq(CameraLists)
    BY <1>5, HeadTailProperties DEF TakeConfig, TypeOK
  <2>2. QED
    BY <1>5, <2>1 DEF TakeConfig, TypeOK, processVars
<1>6. CASE OpenFile
  BY <1>6 DEF OpenFile, Part, ConfigFile, TypeOK, processVars
<1>7. CASE WriteFile
  <2>1. Generate(target) \in SUBSET Path
    BY GenerateType DEF TypeOK
  <2>2. QED
    BY <1>7, <2>1 DEF WriteFile, ConfigFile, TypeOK, processVars
<1>8. CASE WriteFails
  BY <1>8, FaultType DEF WriteFails, Missed, TypeOK, processVars
<1>9. CASE Apply
  BY <1>9, FaultType DEF Apply, Spawn, Missed, TypeOK, processVars
<1>10. CASE ReadConfig
  BY <1>10 DEF ReadConfig, ConfigFile, TypeOK
<1>11. CASE Exit
  BY <1>11, FaultType DEF Exit, TypeOK
<1>12. CASE Reconcile
  BY <1>12, ReconcileType DEF Reconcile, TypeOK, processVars
<1>13. CASE CrashNode
  BY <1>13, FaultType, NoCamerasType, EmptySeq DEF CrashNode, TypeOK
<1>14. CASE UNCHANGED vars
  BY <1>14 DEF vars, processVars, TypeOK
<1>15. QED
  BY <1>1, <1>2, <1>3, <1>4, <1>5, <1>6, <1>7, <1>8, <1>9, <1>10, <1>11,
     <1>12, <1>13, <1>14 DEF Next, Supervisor

(* The variables keep to their types, whatever the sizes.                  *)
THEOREM TypeCorrect == Spec => []TypeOK
BY InitType, NextType, PTL DEF Spec

-----------------------------------------------------------------------------
(* A settled MediaMTX serves the node's cameras                            *)

(* The last list sent to the supervisor is the node's camera list.         *)
Latest == cameras = IF configs = <<>> THEN target ELSE configs[Len(configs)]

(* The file is complete and made from the list taken last.                 *)
FileIsCurrent == file = [is |-> "whole", paths |-> Generate(target)]

(* The supervisor is between two lists, and neither the write nor the      *)
(* signal of the last one has failed.                                      *)
Between == /\ supPc \in {"check", "backoff", "wait"}
           /\ missed \cap {"write", "signal"} = {}

(* From the write of a list to the next list taken the file is current,    *)
(* wherever a process may be about to read it: one that is held, has been  *)
(* told to, or is about to be started again.  What a process serves was    *)
(* read from that file, unless it has still to read it.                    *)
FileInv ==
  /\ supPc = "apply" => FileIsCurrent
  /\ Between /\ (child # "none" \/ supPc = "backoff") => FileIsCurrent
  /\ Between /\ child = "running" /\ unread = "no" =>
       serving = Generate(target)

LEMMA LatestStep == TypeOK /\ Latest /\ [Next]_vars => Latest'
<1> SUFFICES ASSUME TypeOK, Latest, [Next]_vars PROVE Latest'
  OBVIOUS
<1>1. ASSUME NEW list \in CameraLists, HandleIncoming(list) PROVE Latest'
  <2>1. configs \in Seq(CameraLists)
    BY DEF TypeOK
  <2>2. /\ configs' # <<>>
        /\ configs'[Len(configs')] = list
    BY <1>1, <2>1, AppendProperties DEF HandleIncoming
  <2>3. QED
    BY <1>1, <2>2 DEF HandleIncoming, Latest
<1>2. CASE TakeConfig
  <2>1. configs \in Seq(CameraLists) /\ configs # <<>>
    BY <1>2 DEF TakeConfig, TypeOK
  <2>2. PICK rest \in Seq(CameraLists) :
          /\ rest = Tail(configs)
          /\ Len(rest) = Len(configs) - 1
          /\ \A i \in 1..Len(rest) : rest[i] = configs[i + 1]
    BY <2>1, HeadTailProperties, Zenon
  <2>3. Len(configs) \in Nat \ {0}
    BY <2>1, EmptySeq, Zenon
  <2>4. CASE rest = <<>>
    <3>1. Len(configs) = 1
      BY <2>2, <2>3, <2>4
    <3>2. Head(configs) = configs[Len(configs)]
      BY <2>1, <3>1
    <3>3. QED
      BY <1>2, <2>2, <2>4, <3>2 DEF TakeConfig, Latest
  <2>5. CASE rest # <<>>
    <3>1. Len(rest) \in Nat \ {0}
      BY <2>5, EmptySeq, Zenon
    <3>2. rest[Len(rest)] = configs[Len(configs)]
      BY <2>2, <2>3, <3>1
    <3>3. QED
      BY <1>2, <2>1, <2>2, <2>5, <3>2 DEF TakeConfig, Latest
  <2>6. QED
    BY <2>4, <2>5
<1>3. CASE CrashNode
  BY <1>3 DEF CrashNode, Latest
<1>4. CASE UNCHANGED <<cameras, configs, target>>
  BY <1>4 DEF Latest
<1>5. QED
  BY <1>1, <1>2, <1>3, <1>4
     DEF Next, Supervisor, CheckHealth, Respawn, Timeout, OpenFile, WriteFile,
         WriteFails, Apply, ReadConfig, Exit, Reconcile, vars

LEMMA FileStep == TypeOK /\ FileInv /\ [Next]_vars => FileInv'
<1> SUFFICES ASSUME TypeOK, FileInv, [Next]_vars PROVE FileInv'
  OBVIOUS
<1>1. CASE CheckHealth
  BY <1>1 DEF CheckHealth, FileInv, FileIsCurrent, Between
<1>2. CASE Respawn
  BY <1>2 DEF Respawn, Spawn, Missed, FileInv, FileIsCurrent, Between
<1>3. CASE Timeout
  BY <1>3 DEF Timeout, FileInv, FileIsCurrent, Between, processVars
<1>4. CASE TakeConfig \/ OpenFile
  BY <1>4 DEF TakeConfig, OpenFile, FileInv, Between
<1>5. CASE WriteFile
  BY <1>5 DEF WriteFile, FileInv, FileIsCurrent, Between
<1>6. CASE WriteFails
  BY <1>6 DEF WriteFails, Missed, FileInv, Between
<1>7. CASE Apply
  <2>1. FileIsCurrent /\ supPc' = "check" /\ UNCHANGED <<file, target>>
    BY <1>7 DEF Apply, FileInv
  <2>2. Between' /\ child' = "running" => unread' # "no"
    BY <1>7 DEF Apply, Spawn, Missed, Between, processVars, TypeOK
  <2>3. QED
    BY <2>1, <2>2 DEF FileInv, FileIsCurrent
<1>8. CASE ReadConfig
  <2>1. UNCHANGED <<supPc, missed, file, target>> /\ child = "running"
    BY <1>8 DEF ReadConfig
  <2>2. Between => FileIsCurrent
    BY <2>1 DEF FileInv
  <2>3. child' = "running" => serving' = file.paths
    BY <1>8 DEF ReadConfig
  <2>4. QED
    BY <2>1, <2>2, <2>3 DEF FileInv, FileIsCurrent, Between
<1>9. CASE Exit
  BY <1>9 DEF Exit, FileInv, FileIsCurrent, Between
<1>10. CASE CrashNode
  BY <1>10 DEF CrashNode, FileInv, Between
<1>11. CASE UNCHANGED <<supPc, target, file, processVars, missed>>
  BY <1>11 DEF FileInv, FileIsCurrent, Between, processVars
<1>12. QED
  BY <1>1, <1>2, <1>3, <1>4, <1>5, <1>6, <1>7, <1>8, <1>9, <1>10, <1>11
     DEF Next, Supervisor, HandleIncoming, Reconcile, vars

(* A MediaMTX at work serves the node's cameras once no list is being      *)
(* applied, unless the last list was dropped or its signal lost.           *)
THEOREM SettledServes == Spec => []SettledServesCameras
<1>1. Init => Latest /\ FileInv
  BY DEF Init, Latest, FileInv
<1>2. Latest /\ FileInv => SettledServesCameras
  BY DEF Latest, FileInv, Between, SettledServesCameras
<1>3. QED
  BY <1>1, <1>2, LatestStep, FileStep, TypeCorrect, PTL DEF Spec
=============================================================================

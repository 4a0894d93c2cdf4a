------------------------- MODULE Coordinator_proofs -------------------------
(***************************************************************************)
(* Proofs about Registration, NodePresence, Playback and MotionWatch, each *)
(* for any values of its constants, and about the six parts that           *)
(* MCCoordinator runs side by side.                                        *)
(***************************************************************************)
EXTENDS MCCoordinator, Accounts_proofs, RetentionPolicies_proofs,
        FiniteSetTheorems, SequenceTheorems, TLAPS

-----------------------------------------------------------------------------
(* Playback: a file outlasts the nominal length by the interval between    *)
(* key frames at most.                                                     *)
LengthBounded == \A s \in Times : ends[s] <= s + SegmentLength + KeyFrameGap

(* The files of the camera follow one another in time: the one being       *)
(* recorded is the last, and what is open reaches to this moment.          *)
FilesInOrder ==
  /\ \A s \in disk : s <= now
  /\ \A s \in Times : IF s <= now THEN ends[s] <= now ELSE ends[s] = s
  /\ recording # Nothing =>
       recording \in disk /\ \A s \in disk : s <= recording
  /\ \A r \in Times, s \in disk : r < s => ends[r] <= s

LEMMA PlaybackStep ==
  ASSUME PlaybackTypeOK, [PlaybackNext]_playbackVars
  PROVE  PlaybackTypeOK'
<1>1. CASE UNCHANGED playbackVars
  BY <1>1 DEF playbackVars, PlaybackTypeOK
<1>2. CASE OpenSegment
  BY <1>2 DEF OpenSegment, PlaybackTypeOK
<1>3. CASE Tick
  <2>1. now + 1 \in Times
    BY <1>3, PlaybackAssumption DEF Tick, PlaybackTypeOK, Times
  <2>2. ends' \in [Times -> Times]
    BY <1>3, <2>1 DEF Tick, PlaybackTypeOK
  <2>3. QED
    BY <1>3, <2>1, <2>2 DEF Tick, PlaybackTypeOK
<1>4. CASE CloseSegment
  BY <1>4 DEF CloseSegment, PlaybackTypeOK
<1>5. ASSUME NEW s \in Times,
             IndexSegment(s) \/ MigrateSegment(s) \/ RemoveSegment(s)
      PROVE  PlaybackTypeOK'
  BY <1>5 DEF IndexSegment, MigrateSegment, RemoveSegment, PlaybackTypeOK
<1>6. ASSUME NEW h \in Hosts, NodeConnects(h) PROVE PlaybackTypeOK'
  BY <1>6 DEF NodeConnects, PlaybackTypeOK
<1>7. ASSUME UNCHANGED <<now, disk, ends, recording, uri, nodeIp>>,
             answer' \in Status \cup Proxied
      PROVE  PlaybackTypeOK'
  BY <1>7 DEF PlaybackTypeOK
<1>8. /\ \A code \in {302, 400, 404, 500} : Reply(code) \in Status
      /\ \A port \in {SegmentPort, LivePort} :
           nodeIp # "null" => ProxyGet(CastAsText(nodeIp), port) \in Proxied
  BY DEF Reply, Status, ProxyGet, CastAsText, Proxied, SegmentPort, LivePort,
         PlaybackTypeOK
<1>9. ASSUME NEW s \in Times, NEW c \in BOOLEAN, GetSegment(s, c)
      PROVE  PlaybackTypeOK'
  <2>1. uri[s] \in {"none", "local", "s3"}
    BY DEF PlaybackTypeOK
  <2>2. \/ \E code \in {302, 404, 500} : answer' = Reply(code)
        \/ /\ nodeIp # "null"
           /\ answer' = ProxyGet(CastAsText(nodeIp), SegmentPort)
    <3>1. CASE uri[s] = "none"
      BY <1>9, <3>1 DEF GetSegment
    <3>2. CASE uri[s] # "none" /\ nodeIp = "null"
      BY <1>9, <3>2 DEF GetSegment
    <3>3. CASE uri[s] = "s3" /\ nodeIp # "null"
      BY <1>9, <3>3 DEF GetSegment
    <3>4. CASE uri[s] = "local" /\ nodeIp # "null"
      BY <1>9, <3>4 DEF GetSegment
    <3>5. QED
      BY <2>1, <3>1, <3>2, <3>3, <3>4
  <2>3. answer' \in Status \cup Proxied
    BY <1>8, <2>2
  <2>4. UNCHANGED <<now, disk, ends, recording, uri, nodeIp>>
    BY <1>9 DEF GetSegment
  <2>5. QED
    BY <1>7, <2>3, <2>4
<1>10. CASE ExportClip \/ WhepProxy
  BY <1>7, <1>8, <1>10 DEF ExportClip, WhepProxy
<1>11. QED
  BY <1>1, <1>2, <1>3, <1>4, <1>5, <1>6, <1>9, <1>10 DEF PlaybackNext

LEMMA PlaybackTypeCorrect == PlaybackSpec => []PlaybackTypeOK
<1>1. PlaybackInit => PlaybackTypeOK
  BY PlaybackAssumption
     DEF PlaybackInit, PlaybackTypeOK, Times, Nothing, Status
<1>2. QED
  BY <1>1, PlaybackStep, PTL DEF PlaybackSpec

LEMMA LengthStep ==
  ASSUME PlaybackTypeOK, LengthBounded, [PlaybackNext]_playbackVars
  PROVE  LengthBounded'
<1>1. CASE Tick /\ recording # Nothing
  <2>1. /\ recording \in Times /\ now \in Nat /\ recording \in Nat
        /\ now - recording < SegmentLength + KeyFrameGap
        /\ SegmentLength \in Nat /\ KeyFrameGap \in Nat
    BY <1>1, PlaybackAssumption DEF Tick, PlaybackTypeOK, Times
  <2>2. now + 1 <= recording + SegmentLength + KeyFrameGap
    BY <2>1
  <2>3. ends' = [ends EXCEPT ![recording] = now + 1]
    BY <1>1 DEF Tick
  <2>4. QED
    BY <2>1, <2>2, <2>3 DEF LengthBounded, PlaybackTypeOK
<1>2. CASE UNCHANGED ends
  BY <1>2 DEF LengthBounded
<1>3. QED
  BY <1>1, <1>2
     DEF PlaybackNext, playbackVars, OpenSegment, Tick, CloseSegment,
         IndexSegment, MigrateSegment, RemoveSegment, NodeConnects, GetSegment,
         ExportClip, WhepProxy

LEMMA OrderStep ==
  ASSUME PlaybackTypeOK, FilesInOrder, [PlaybackNext]_playbackVars
  PROVE  FilesInOrder'
<1> /\ now \in Nat /\ disk \subseteq Times /\ ends \in [Times -> Times]
    /\ \A s \in Times : s \in Nat /\ ends[s] \in Nat
  BY PlaybackAssumption DEF PlaybackTypeOK, Times
<1>1. CASE OpenSegment
  <2>1. /\ now \in Times /\ disk' = disk \cup {now} /\ recording' = now
        /\ UNCHANGED <<now, ends>>
    BY <1>1 DEF OpenSegment
  <2>2. \A r \in Times : r < now => ends[r] <= now
    BY DEF FilesInOrder
  <2>3. QED
    BY <2>1, <2>2 DEF FilesInOrder
<1>2. CASE Tick
  <2>1. UNCHANGED <<disk, recording>> /\ now' = now + 1
    BY <1>2 DEF Tick
  <2>2. CASE recording = Nothing
    <3>1. ends' = ends
      BY <1>2, <2>2 DEF Tick
    <3>2. \A s \in Times : IF s <= now' THEN ends'[s] <= now' ELSE ends'[s] = s
      BY <2>1, <3>1 DEF FilesInOrder
    <3>3. QED
      BY <2>1, <2>2, <3>1, <3>2 DEF FilesInOrder
  <2>3. CASE recording # Nothing
    <3>1. /\ recording \in Times
          /\ ends' = [ends EXCEPT ![recording] = now + 1]
      BY <1>2, <2>3 DEF Tick, PlaybackTypeOK
    <3>2. \A s \in Times : s # recording => ends'[s] = ends[s]
      BY <3>1
    <3>3. ends'[recording] = now' /\ recording \in Nat
      BY <2>1, <3>1
    <3>4. recording <= now
      BY <1>2, <2>3, <3>1, SMT DEF Tick, FilesInOrder
    <3>5. /\ \A s \in disk' : s <= now'
          /\ \A s \in Times : IF s <= now' THEN ends'[s] <= now' ELSE ends'[s] = s
      BY <2>1, <3>2, <3>3, <3>4 DEF FilesInOrder
    <3>6. \A r \in Times, s \in disk' : r < s => ends'[r] <= s
      BY <2>1, <2>3, <3>1, <3>2 DEF FilesInOrder
    <3>7. QED
      BY <2>1, <3>5, <3>6 DEF FilesInOrder
  <2>4. QED
    BY <2>2, <2>3
<1>3. CASE CloseSegment
  BY <1>3 DEF CloseSegment, FilesInOrder
<1>4. CASE /\ UNCHANGED <<now, ends, recording>>
           /\ disk' \subseteq disk
           /\ recording \in disk => recording \in disk'
  BY <1>4 DEF FilesInOrder
<1>5. QED
  BY <1>1, <1>2, <1>3, <1>4
     DEF PlaybackNext, playbackVars, IndexSegment, MigrateSegment,
         RemoveSegment, NodeConnects, GetSegment, ExportClip, WhepProxy

(* A clip has every segment the timeline shows for its range, and lacks of *)
(* what the node holds at most the tail of one file, for any length of     *)
(* segments and any interval between key frames.                           *)
THEOREM PlaybackExportCoversRange == PlaybackSpec => []ExportCoversRange
<1>1. PlaybackInit => LengthBounded /\ FilesInOrder
  BY PlaybackAssumption
     DEF PlaybackInit, LengthBounded, FilesInOrder, Times, Nothing
<1>2. PlaybackSpec => [](LengthBounded /\ FilesInOrder)
  BY <1>1, LengthStep, OrderStep, PlaybackTypeCorrect, PTL DEF PlaybackSpec
<1>3. PlaybackTypeOK /\ LengthBounded /\ FilesInOrder => ExportCoversRange
  <2> SUFFICES ASSUME PlaybackTypeOK, LengthBounded, FilesInOrder,
                      NEW f \in Times, NEW t \in Times
               PROVE  /\ ListRecordings(f, t) \cap disk
                           \subseteq SegmentsInRange(f, t)
                      /\ \A s \in LeftOut(f, t) :
                           ends[s] - f <= KeyFrameGap /\ LeftOut(f, t) = {s}
    BY DEF ExportCoversRange
  <2>1. /\ disk \subseteq Times /\ \A s \in Times : s \in Nat /\ ends[s] \in Nat
        /\ SegmentLength \in Nat /\ SegmentLength > 0 /\ KeyFrameGap \in Nat
    BY PlaybackAssumption DEF PlaybackTypeOK, Times
  <2>2. ListRecordings(f, t) \cap disk \subseteq SegmentsInRange(f, t)
    BY <2>1 DEF ListRecordings, SegmentsInRange
  <2>3. ASSUME NEW s \in LeftOut(f, t)
        PROVE  /\ s \in disk /\ s \in Nat /\ s + SegmentLength <= f
               /\ ends[s] > f /\ ends[s] - f <= KeyFrameGap
    <3>1. s \in disk /\ ends[s] > f /\ ~(s + SegmentLength > f)
      BY <2>3 DEF LeftOut, SegmentsInRange
    <3>2. s \in Nat /\ ends[s] \in Nat /\ f \in Nat
      BY <2>1, <3>1
    <3>3. ends[s] <= s + SegmentLength + KeyFrameGap
      BY <2>1, <3>1 DEF LengthBounded
    <3>4. QED
      BY <2>1, <3>1, <3>2, <3>3
  <2>4. ASSUME NEW r \in LeftOut(f, t), NEW s \in LeftOut(f, t), r < s
        PROVE  FALSE
    <3>1. ends[r] <= s
      BY <2>1, <2>3, <2>4 DEF FilesInOrder
    <3>2. ends[r] \in Nat /\ f \in Nat
      BY <2>1, <2>3
    <3>3. QED
      BY <2>1, <2>3, <3>1, <3>2
  <2>5. \A r, s \in LeftOut(f, t) : r = s
    BY <2>3, <2>4
  <2>6. QED
    BY <2>2, <2>3, <2>5
<1>4. QED
  BY <1>2, <1>3, PlaybackTypeCorrect, PTL

-----------------------------------------------------------------------------
(* Registration: where the identity of each stage of a start comes from.   *)
BootKnows ==
  /\ boot \in {"down", "registering"} => identity = 0
  /\ boot \in {"registering", "answered"} => file = 0 /\ env = 0
  /\ boot = "answered" => identity \in SelfRegistered
  /\ boot = "running" => identity \in created \cup {file}
  /\ env # 0 => env \in created
  /\ created \subseteq 1..rows
  /\ used \subseteq 1..MaxNodes
  /\ early <= crashes

(* The rows of the node that it will not come back to.                     *)
LeftOver == SelfRegistered \ {file, identity}
IdentityInv == used \ created \subseteq {file} /\ Cardinality(LeftOver) <= early

RegistrationInv == RegistrationTypeOK /\ BootKnows

LEMMA RegistrationNumbers ==
  ASSUME RegistrationTypeOK
  PROVE  /\ rows \in Nat /\ rows <= MaxNodes /\ early \in Nat /\ crashes \in Nat
         /\ judged \in Nat /\ crashes <= MaxCrashes /\ MaxNodes \in Nat
         /\ MaxCrashes \in Nat /\ MaxJudged \in Nat
         /\ NodeIds = 1..MaxNodes /\ 0 \notin NodeIds
BY RegistrationAssumption DEF RegistrationTypeOK, NodeIds

LEMMA JudgeStep ==
  ASSUME RegistrationTypeOK, Judge PROVE judged' \in 0..MaxJudged
BY RegistrationAssumption DEF RegistrationTypeOK, Judge

LEMMA RowInserted ==
  ASSUME RegistrationInv, NEW st \in {"none", "pending", "approved", "rejected"},
         InsertNode(st)
  PROVE  /\ rows' = rows + 1 /\ rows' \in 0..MaxNodes
         /\ rows + 1 \in NodeIds /\ rows + 1 \notin created
         /\ nodeRow' \in [NodeIds -> {"none", "pending", "approved", "rejected"}]
         /\ 1..rows \subseteq 1..rows' /\ 1..rows' = 1..rows \cup {rows + 1}
<1>1. rows \in Nat /\ MaxNodes \in Nat /\ created \subseteq 1..rows
  BY RegistrationNumbers DEF RegistrationInv, BootKnows
<1>2. rows' = rows + 1 /\ rows + 1 \in 1..MaxNodes
  BY DEF InsertNode, NodeIds
<1>3. rows + 1 \notin created
  BY <1>1
<1>4. nodeRow' \in [NodeIds -> {"none", "pending", "approved", "rejected"}]
  BY DEF InsertNode, RegistrationInv, RegistrationTypeOK
<1>5. QED
  BY <1>1, <1>2, <1>3, <1>4 DEF NodeIds

LEMMA RegistrationStep ==
  ASSUME RegistrationInv, [RegistrationNext]_registrationVars
  PROVE  RegistrationInv'
<1> USE DEF RegistrationInv
<1>1. CASE UNCHANGED registrationVars
  BY <1>1 DEF registrationVars, rowVars, identityVars, RegistrationTypeOK,
              BootKnows, SelfRegistered
<1>2. CASE CreateNode
  <2>1. /\ rows' = rows + 1 /\ rows' \in 0..MaxNodes
        /\ rows + 1 \in NodeIds /\ rows + 1 \notin created
        /\ nodeRow' \in [NodeIds -> {"none", "pending", "approved", "rejected"}]
        /\ 1..rows' = 1..rows \cup {rows + 1}
    BY <1>2, RowInserted DEF CreateNode
  <2>2. /\ judged' \in 0..MaxJudged /\ created' = created \cup {rows + 1}
        /\ UNCHANGED <<identityVars, crashes, used, early>>
    BY <1>2, JudgeStep DEF CreateNode
  <2>3. RegistrationTypeOK'
    BY <2>1, <2>2 DEF RegistrationTypeOK, identityVars
  <2>4. rows + 1 \notin 1..rows
    BY RegistrationNumbers
  <2>5. SelfRegistered' = SelfRegistered
    BY <2>1, <2>2, <2>4 DEF SelfRegistered
  <2>6. BootKnows'
    BY <2>1, <2>2, <2>5 DEF BootKnows, identityVars
  <2>7. QED
    BY <2>3, <2>6
<1>3. ASSUME NEW k \in NodeIds,
             \/ \E st \in {"pending", "approved", "rejected"} :
                  UpdateNodeStatus(k, st)
             \/ DeleteNode(k)
      PROVE  RegistrationInv'
  <2>1. /\ judged' \in 0..MaxJudged
        /\ nodeRow' \in [NodeIds -> {"none", "pending", "approved", "rejected"}]
        /\ UNCHANGED <<rows, created, identityVars, crashes, used, early>>
    BY <1>3, JudgeStep DEF UpdateNodeStatus, DeleteNode, RegistrationTypeOK
  <2>2. QED
    BY <2>1 DEF RegistrationTypeOK, BootKnows, SelfRegistered, identityVars
<1>4. CASE SelfRegister
  <2>1. /\ rows' = rows + 1 /\ rows' \in 0..MaxNodes
        /\ rows + 1 \in NodeIds /\ rows + 1 \notin created
        /\ nodeRow' \in [NodeIds -> {"none", "pending", "approved", "rejected"}]
        /\ 1..rows' = 1..rows \cup {rows + 1}
    BY <1>4, RowInserted DEF SelfRegister
  <2>2. /\ boot = "registering" /\ boot' = "answered" /\ identity' = rows + 1
        /\ UNCHANGED <<created, env, file, joined, judged, crashes, used, early>>
    BY <1>4 DEF SelfRegister
  <2>3. identity' \in 0..MaxNodes
    BY <2>1, <2>2, RegistrationNumbers
  <2>4. RegistrationTypeOK'
    BY <2>1, <2>2, <2>3 DEF RegistrationTypeOK
  <2>5. BootKnows'
    BY <2>1, <2>2 DEF BootKnows, SelfRegistered
  <2>6. QED
    BY <2>4, <2>5
<1>5. ASSUME NEW k \in NodeIds, Provision(k) PROVE RegistrationInv'
  <2>1. k \in 0..MaxNodes
    BY RegistrationNumbers
  <2>2. QED
    BY <1>5, <2>1
       DEF Provision, RegistrationTypeOK, BootKnows, SelfRegistered, rowVars
<1>6. CASE Start
  <2>1. identity' = IF env # 0 THEN env ELSE file
    BY <1>6 DEF Start
  <2>2. /\ boot' = IF identity' = 0 THEN "registering" ELSE "running"
        /\ UNCHANGED <<rowVars, env, file, joined, judged, crashes, used, early>>
    BY <1>6 DEF Start
  <2>3. RegistrationTypeOK'
    BY <2>1, <2>2 DEF RegistrationTypeOK, rowVars
  <2>4. BootKnows'
    BY <2>1, <2>2 DEF BootKnows, SelfRegistered, rowVars
  <2>5. QED
    BY <2>3, <2>4
<1>7. CASE SaveIdentity
  <2>1. identity # 0
    BY <1>7, RegistrationNumbers DEF SaveIdentity, BootKnows, SelfRegistered
  <2>2. QED
    BY <1>7, <2>1
       DEF SaveIdentity, RegistrationTypeOK, BootKnows, SelfRegistered, rowVars
<1>8. CASE Join
  <2>1. identity \in NodeIds
    BY <1>8, RegistrationNumbers DEF Join, RegistrationTypeOK
  <2>2. QED
    BY <1>8, <2>1, RegistrationNumbers
       DEF Join, RegistrationTypeOK, BootKnows, SelfRegistered, rowVars
<1>9. CASE Crash
  <2>1. /\ crashes' = crashes + 1 /\ crashes < MaxCrashes
        /\ boot' = "down" /\ identity' = 0 /\ joined' = 0
        /\ early' = IF boot = "answered" THEN early + 1 ELSE early
        /\ UNCHANGED <<rowVars, env, file, judged, used>>
    BY <1>9 DEF Crash
  <2>2. early <= crashes
    BY DEF BootKnows
  <2>3. crashes' \in 0..MaxCrashes /\ early' \in 0..MaxCrashes /\ early' <= crashes'
    BY <2>1, <2>2, RegistrationNumbers
  <2>4. 0 \in 0..MaxNodes
    BY RegistrationNumbers
  <2>5. RegistrationTypeOK'
    BY <2>1, <2>3, <2>4 DEF RegistrationTypeOK, rowVars
  <2>6. BootKnows'
    BY <2>1, <2>3 DEF BootKnows, SelfRegistered, rowVars
  <2>7. QED
    BY <2>5, <2>6
<1>10. CASE LoseConnection
  <2>1. /\ crashes' = crashes + 1 /\ crashes < MaxCrashes /\ joined' = 0
        /\ UNCHANGED <<rowVars, env, file, boot, identity, judged, used, early>>
    BY <1>10 DEF LoseConnection
  <2>2. early <= crashes
    BY DEF BootKnows
  <2>3. crashes' \in 0..MaxCrashes /\ early <= crashes' /\ 0 \in 0..MaxNodes
    BY <2>1, <2>2, RegistrationNumbers
  <2>4. QED
    BY <2>1, <2>3 DEF RegistrationTypeOK, BootKnows, SelfRegistered, rowVars
<1>11. QED
  BY <1>1, <1>2, <1>3, <1>4, <1>5, <1>6, <1>7, <1>8, <1>9, <1>10
     DEF RegistrationNext

LEMMA RegistrationInvariant == RegistrationSpec => []RegistrationInv
<1>1. RegistrationInit => RegistrationInv
  BY RegistrationAssumption
     DEF RegistrationInit, RegistrationInv, RegistrationTypeOK, BootKnows,
         SelfRegistered, NodeIds
<1>2. QED
  BY <1>1, RegistrationStep, PTL DEF RegistrationSpec

(* The rows left over are finite in number, and fewer when some go.        *)
LEMMA FewerLeft ==
  ASSUME RegistrationTypeOK, NEW S, S \subseteq LeftOver
  PROVE  /\ Cardinality(S) \in Nat /\ Cardinality(LeftOver) \in Nat
         /\ Cardinality(S) <= Cardinality(LeftOver)
         /\ IsFiniteSet(LeftOver)
<1>1. IsFiniteSet(1..rows)
  BY RegistrationNumbers, FS_Interval
<1>2. LeftOver \subseteq 1..rows
  BY DEF LeftOver, SelfRegistered
<1>3. IsFiniteSet(LeftOver)
  BY <1>1, <1>2, FS_Subset
<1>4. IsFiniteSet(S) /\ Cardinality(S) <= Cardinality(LeftOver)
  BY <1>3, FS_Subset
<1>5. QED
  BY <1>3, <1>4, FS_CardinalityType

LEMMA FewerStep ==
  ASSUME RegistrationInv, RegistrationTypeOK', IdentityInv,
         LeftOver' \subseteq LeftOver, early' >= early
  PROVE  Cardinality(LeftOver)' <= early'
<1>1. /\ Cardinality(LeftOver') \in Nat /\ Cardinality(LeftOver) \in Nat
      /\ Cardinality(LeftOver') <= Cardinality(LeftOver)
  BY FewerLeft DEF RegistrationInv
<1>2. early \in Nat /\ early' \in Nat
  BY RegistrationAssumption DEF RegistrationInv, RegistrationTypeOK
<1>3. QED
  BY <1>1, <1>2 DEF IdentityInv

LEMMA CrashLeaves ==
  ASSUME RegistrationInv, IdentityInv, Crash
  PROVE  Cardinality(LeftOver)' <= early'
<1>1. RegistrationTypeOK'
  BY RegistrationStep DEF RegistrationNext, RegistrationInv
<1>2. CASE boot = "answered"
  <2>1. LeftOver' \subseteq LeftOver \cup {identity} /\ early' = early + 1
    BY <1>2 DEF Crash, LeftOver, SelfRegistered, rowVars
  <2>2. IsFiniteSet(LeftOver) /\ Cardinality(LeftOver) \in Nat
    BY FewerLeft DEF RegistrationInv
  <2>3. /\ IsFiniteSet(LeftOver \cup {identity})
        /\ Cardinality(LeftOver \cup {identity}) <= Cardinality(LeftOver) + 1
    BY <2>2, FS_AddElement
  <2>4. Cardinality(LeftOver') <= Cardinality(LeftOver \cup {identity})
    BY <2>1, <2>3, FS_Subset
  <2>5. Cardinality(LeftOver \cup {identity}) \in Nat /\ Cardinality(LeftOver') \in Nat
    BY <2>1, <2>3, FS_Subset, FS_CardinalityType
  <2>6. early \in Nat
    BY RegistrationNumbers DEF RegistrationInv
  <2>7. QED
    BY <2>1, <2>2, <2>3, <2>4, <2>5, <2>6 DEF IdentityInv
<1>3. CASE boot # "answered"
  <2>1. identity \in created \cup {file, 0}
    BY <1>3 DEF RegistrationInv, RegistrationTypeOK, BootKnows
  <2>2. 0 \notin 1..rows
    OBVIOUS
  <2>3. LeftOver' \subseteq LeftOver
    BY <2>1, <2>2 DEF Crash, LeftOver, SelfRegistered, rowVars
  <2>4. early' >= early
    BY <1>3, RegistrationNumbers DEF Crash, RegistrationInv
  <2>5. QED
    BY <1>1, <2>3, <2>4, FewerStep
<1>4. QED
  BY <1>2, <1>3

LEMMA IdentityStep ==
  ASSUME RegistrationInv, IdentityInv, [RegistrationNext]_registrationVars
  PROVE  IdentityInv'
<1>1. RegistrationTypeOK' /\ early >= early
  BY RegistrationStep, RegistrationNumbers DEF RegistrationInv
<1>2. 0 \notin 1..rows /\ rows + 1 \notin 1..rows
  BY RegistrationNumbers DEF RegistrationInv
<1>3. CASE UNCHANGED <<rows, created, file, identity, used, early>>
  BY <1>3 DEF IdentityInv, LeftOver, SelfRegistered
<1>4. CASE CreateNode
  <2>1. /\ 1..rows' = 1..rows \cup {rows + 1} /\ created' = created \cup {rows + 1}
        /\ UNCHANGED <<file, identity, used, early>>
    BY <1>4, RowInserted DEF CreateNode, identityVars
  <2>2. LeftOver' \subseteq LeftOver
    BY <2>1 DEF LeftOver, SelfRegistered
  <2>3. QED
    BY <1>1, <2>1, <2>2, FewerStep DEF IdentityInv
<1>5. CASE SelfRegister
  <2>1. /\ 1..rows' = 1..rows \cup {rows + 1} /\ identity' = rows + 1
        /\ identity = 0
        /\ UNCHANGED <<created, file, used, early>>
    BY <1>5, RowInserted DEF SelfRegister, RegistrationInv, BootKnows
  <2>2. LeftOver' \subseteq LeftOver
    BY <1>2, <2>1 DEF LeftOver, SelfRegistered
  <2>3. QED
    BY <1>1, <2>1, <2>2, FewerStep DEF IdentityInv
<1>6. CASE Start
  <2>1. identity = 0 /\ UNCHANGED <<rows, created, file, used, early>>
    BY <1>6 DEF Start, RegistrationInv, BootKnows, rowVars
  <2>2. LeftOver' \subseteq LeftOver
    BY <1>2, <2>1 DEF LeftOver, SelfRegistered
  <2>3. QED
    BY <1>1, <2>1, <2>2, FewerStep DEF IdentityInv
<1>7. CASE SaveIdentity
  <2>1. /\ file = 0 /\ file' = identity
        /\ UNCHANGED <<rows, created, identity, used, early>>
    BY <1>7 DEF SaveIdentity, RegistrationInv, BootKnows, rowVars
  <2>2. LeftOver' \subseteq LeftOver
    BY <1>2, <2>1 DEF LeftOver, SelfRegistered
  <2>3. 0 \notin used
    BY DEF RegistrationInv, BootKnows
  <2>4. QED
    BY <1>1, <2>1, <2>2, <2>3, FewerStep DEF IdentityInv
<1>8. CASE Join
  <2>1. /\ identity \in created \cup {file} /\ used' = used \cup {identity}
        /\ UNCHANGED <<rows, created, file, identity, early>>
    BY <1>8 DEF Join, RegistrationInv, BootKnows, rowVars
  <2>2. QED
    BY <2>1 DEF IdentityInv, LeftOver, SelfRegistered
<1>9. CASE Crash
  <2>1. UNCHANGED <<created, file, used>>
    BY <1>9 DEF Crash, rowVars
  <2>2. QED
    BY <1>9, <2>1, CrashLeaves DEF IdentityInv
<1>10. QED
  BY <1>3, <1>4, <1>5, <1>6, <1>7, <1>8, <1>9
     DEF RegistrationNext, registrationVars, rowVars, identityVars,
         UpdateNodeStatus, DeleteNode, Provision, LoseConnection

(* A node that registers itself works under one row for good, and every    *)
(* other row it has made is left over from a crash between the INSERT and  *)
(* the save of its identity.                                               *)
THEOREM RegistrationIdentityIsStable == RegistrationSpec => []IdentityIsStable
<1>1. RegistrationInit => IdentityInv
  <2> SUFFICES ASSUME RegistrationInit PROVE IdentityInv
    OBVIOUS
  <2>1. LeftOver = {}
    BY DEF RegistrationInit, LeftOver, SelfRegistered
  <2>2. QED
    BY <2>1, FS_EmptySet DEF RegistrationInit, IdentityInv
<1>2. RegistrationSpec => []IdentityInv
  BY <1>1, IdentityStep, RegistrationInvariant, PTL DEF RegistrationSpec
<1>3. IdentityInv => IdentityIsStable
  BY DEF IdentityInv, LeftOver, IdentityIsStable
<1>4. QED
  BY <1>2, <1>3, PTL

-----------------------------------------------------------------------------
(* Presence: the conjuncts of the type invariant by what they speak of.    *)
Stages == {"none", "accepted", "stored", "open", "closing", "gone"}
News == {"online", "offline"}
LinkType == /\ at \in Addresses /\ conn \in 0..MaxConnects
            /\ connects \in 0..MaxConnects
            /\ from \in [Connections -> Addresses]
            /\ stage \in [Connections -> Stages]
            /\ ipAddr \in Addresses \cup {"null"}
            /\ late \in BOOLEAN /\ listed \in BOOLEAN
FeedType == /\ feed \in [Browsers -> {"closed", "subscribed", "open"}]
            /\ inbox \in [Browsers -> Seq(News)]
            /\ shown \in SUBSET Browsers
            /\ visits \in 0..MaxVisits
            /\ blind \in SUBSET Browsers
            /\ misled \in SUBSET Browsers
linkVars == <<at, conn, connects, from, stage, ipAddr, listed, late>>
feedVars == <<feed, inbox, shown, visits, blind, misled>>

LEMMA PresenceParts ==
  /\ PresenceTypeOK <=> LinkType /\ FeedType
  /\ PresenceTypeOK' <=> LinkType' /\ FeedType'
BY DEF PresenceTypeOK, LinkType, FeedType, Stages, News

LEMMA LinkFrame ==
  ASSUME LinkType, UNCHANGED linkVars PROVE LinkType'
BY DEF LinkType, linkVars

LEMMA FeedFrame ==
  ASSUME FeedType, UNCHANGED feedVars PROVE FeedType'
BY DEF FeedType, feedVars

LEMMA VisitStep ==
  ASSUME FeedType, Visit PROVE visits' \in 0..MaxVisits
BY PresenceAssumption DEF FeedType, Visit

LEMMA BroadcastEffect ==
  ASSUME FeedType, NEW news \in News, Broadcast(news)
  PROVE  /\ inbox' \in [Browsers -> Seq(News)]
         /\ \A b \in Browsers :
              IF feed[b] = "closed" THEN inbox'[b] = inbox[b]
              ELSE inbox'[b] # <<>> /\ inbox'[b][Len(inbox'[b])] = news
<1>1. ASSUME NEW b \in Browsers
      PROVE  LET s == Append(inbox[b], news)
             IN s \in Seq(News) /\ s # <<>> /\ s[Len(s)] = news
  <2>1. inbox[b] \in Seq(News)
    BY DEF FeedType
  <2>2. QED
    BY <2>1, AppendProperties
<1>2. inbox' = [b \in Browsers |-> IF feed[b] = "closed" THEN inbox[b]
                                   ELSE Append(inbox[b], news)]
  BY DEF Broadcast
<1>3. QED
  BY <1>1, <1>2 DEF FeedType

LEMMA PresenceStep ==
  ASSUME PresenceTypeOK, [PresenceNext]_presenceVars
  PROVE  PresenceTypeOK'
<1>1. LinkType /\ FeedType
  BY PresenceParts
<1>2. CASE UNCHANGED presenceVars
  BY <1>1, <1>2, LinkFrame, FeedFrame, PresenceParts
     DEF presenceVars, linkVars, feedVars
<1>3. CASE Dial \/ LoseLink \/ UnlistNode
  <2>1. FeedType'
    BY <1>1, <1>3, FeedFrame DEF Dial, LoseLink, UnlistNode, feedVars
  <2>2. MaxConnects \in Nat /\ connects \in Nat
    BY <1>1, PresenceAssumption DEF LinkType
  <2>3. LinkType'
    <3>1. CASE Dial \/ LoseLink
      BY <1>1, <2>2, <3>1 DEF Dial, LoseLink, LinkType, Stages
    <3>2. CASE UnlistNode
      BY <1>1, <3>2 DEF UnlistNode, LinkType
    <3>3. QED
      BY <1>3, <3>1, <3>2
  <2>4. QED
    BY <2>1, <2>3, PresenceParts
<1>4. CASE RestartCoordinator
  <2>1. visits' \in 0..MaxVisits
    BY <1>1, <1>4, VisitStep DEF RestartCoordinator
  <2>2. FeedType'
    BY <1>1, <1>4, <2>1 DEF RestartCoordinator, FeedType
  <2>3. LinkType'
    BY <1>1, <1>4, PresenceAssumption DEF RestartCoordinator, LinkType, Stages
  <2>4. QED
    BY <2>2, <2>3, PresenceParts
<1>5. ASSUME NEW c \in Connections, StoreAddress(c) \/ EndLoop(c)
      PROVE  PresenceTypeOK'
  <2>1. FeedType'
    BY <1>1, <1>5, FeedFrame DEF StoreAddress, EndLoop, feedVars
  <2>2. LinkType'
    BY <1>1, <1>5 DEF StoreAddress, EndLoop, LinkType, Stages
  <2>3. QED
    BY <2>1, <2>2, PresenceParts
<1>6. ASSUME NEW c \in Connections, AnnounceOnline(c) \/ AnnounceOffline(c)
      PROVE  PresenceTypeOK'
  <2>1. \E news \in News : Broadcast(news)
    BY <1>6 DEF AnnounceOnline, AnnounceOffline, News
  <2>2. inbox' \in [Browsers -> Seq(News)]
    BY <1>1, <2>1, BroadcastEffect
  <2>3. FeedType'
    BY <1>1, <1>6, <2>2 DEF AnnounceOnline, AnnounceOffline, FeedType
  <2>4. LinkType'
    BY <1>1, <1>6 DEF AnnounceOnline, AnnounceOffline, LinkType, Stages
  <2>5. QED
    BY <2>3, <2>4, PresenceParts
<1>7. ASSUME NEW b \in Browsers,
             OpenFeed(b) \/ SendSnapshot(b) \/ ShowNews(b) \/ CloseFeed(b)
      PROVE  PresenceTypeOK'
  <2>1. LinkType'
    BY <1>1, <1>7, LinkFrame
       DEF OpenFeed, SendSnapshot, ShowNews, CloseFeed, linkVars
  <2>2. CASE OpenFeed(b)
    BY <1>1, <2>1, <2>2, VisitStep, PresenceParts DEF OpenFeed, FeedType
  <2>3. CASE SendSnapshot(b)
    <3>1. visits' \in 0..MaxVisits
      BY <1>1, <2>3, VisitStep DEF SendSnapshot, FeedType
    <3>2. QED
      BY <1>1, <2>1, <2>3, <3>1, PresenceParts DEF SendSnapshot, FeedType
  <2>4. CASE ShowNews(b)
    <3>1. Tail(inbox[b]) \in Seq(News)
      BY <1>1, <2>4 DEF ShowNews, FeedType
    <3>2. QED
      BY <1>1, <2>1, <2>4, <3>1, PresenceParts DEF ShowNews, FeedType
  <2>5. CASE CloseFeed(b)
    BY <1>1, <2>1, <2>5, PresenceParts DEF CloseFeed, FeedType
  <2>6. QED
    BY <1>7, <2>2, <2>3, <2>4, <2>5
<1>8. QED
  BY <1>2, <1>3, <1>4, <1>5, <1>6, <1>7 DEF PresenceNext

LEMMA PresenceTypeCorrect == PresenceSpec => []PresenceTypeOK
<1>1. PresenceInit => PresenceTypeOK
  <2> SUFFICES ASSUME PresenceInit PROVE PresenceTypeOK
    OBVIOUS
  <2>1. 0 \in 0..MaxConnects /\ 0 \in 0..MaxVisits
    BY PresenceAssumption
  <2>2. LinkType
    BY <2>1 DEF PresenceInit, LinkType, Stages
  <2>3. FeedType
    BY <2>1 DEF PresenceInit, FeedType
  <2>4. QED
    BY <2>2, <2>3, PresenceParts
<1>2. QED
  BY <1>1, PresenceStep, PTL DEF PresenceSpec

-----------------------------------------------------------------------------
(* The node's connection is its newest, made from where it is; no task     *)
(* has a connection still to come.                                         *)
NewestInUse ==
  /\ conn # 0 => conn = connects /\ conn \in Connections /\ from[conn] = at
  /\ \A c \in Connections : stage[c] # "none" => c <= connects

AddressInv == NewestInUse /\ AddressIsCurrent

LEMMA AddressStep ==
  ASSUME PresenceTypeOK, AddressInv, [PresenceNext]_presenceVars
  PROVE  AddressInv'
<1>1. /\ connects \in Nat /\ conn \in Nat /\ MaxConnects \in Nat
      /\ Connections \subseteq Nat \ {0}
      /\ stage \in [Connections -> Stages]
      /\ from \in [Connections -> Addresses]
  BY PresenceAssumption, PresenceParts DEF LinkType, Connections
<1>2. CASE UNCHANGED linkVars
  BY <1>2 DEF AddressInv, NewestInUse, AddressIsCurrent, linkVars
<1>3. CASE Dial
  <2>1. connects + 1 \in Connections
    BY <1>1, <1>3 DEF Dial, Connections
  <2>2. /\ conn' = connects + 1 /\ connects' = connects + 1
        /\ from'[connects + 1] = at' /\ stage'[connects + 1] = "accepted"
        /\ \A c \in Connections : c # connects + 1 => stage'[c] = stage[c]
    BY <1>1, <1>3, <2>1 DEF Dial
  <2>3. NewestInUse'
    BY <1>1, <2>1, <2>2 DEF AddressInv, NewestInUse
  <2>4. AddressIsCurrent'
    BY <2>2 DEF AddressIsCurrent
  <2>5. QED
    BY <2>3, <2>4 DEF AddressInv
<1>4. CASE LoseLink \/ UnlistNode
  BY <1>4 DEF LoseLink, UnlistNode, AddressInv, NewestInUse, AddressIsCurrent
<1>5. CASE RestartCoordinator
  <2>1. conn' = 0 /\ UNCHANGED connects
    BY <1>5 DEF RestartCoordinator
  <2>2. \A c \in Connections : stage'[c] # "none" => stage[c] # "none"
    BY <1>5 DEF RestartCoordinator
  <2>3. QED
    BY <2>1, <2>2 DEF AddressInv, NewestInUse, AddressIsCurrent
<1>6. ASSUME NEW c \in Connections, StoreAddress(c) PROVE AddressInv'
  <2>1. /\ stage[c] = "accepted" /\ stage'[c] = "stored"
        /\ \A d \in Connections \ {c} : stage'[d] = stage[d]
        /\ UNCHANGED <<at, conn, connects, from>>
        /\ \/ /\ ipAddr' = from[c]
              /\ late' = \E d \in Connections :
                           d > c /\ stage[d] \notin {"none", "accepted"}
           \/ late' = TRUE
    BY <1>1, <1>6 DEF StoreAddress
  <2>2. NewestInUse'
    BY <2>1 DEF AddressInv, NewestInUse
  <2>3. AddressIsCurrent'
    <3> SUFFICES ASSUME conn # 0, stage'[conn] \in {"stored", "open"}, ~late'
                 PROVE  ipAddr' = at
      BY <2>1 DEF AddressIsCurrent
    <3>1. conn = connects /\ conn \in Connections /\ from[conn] = at
      BY DEF AddressInv, NewestInUse
    <3>2. c <= connects
      BY <2>1 DEF AddressInv, NewestInUse
    <3>3. /\ ipAddr' = from[c]
          /\ ~\E d \in Connections : d > c /\ stage[d] \notin {"none", "accepted"}
      BY <2>1
    <3>4. c = conn
      <4> SUFFICES ASSUME c # conn PROVE FALSE
        OBVIOUS
      <4>1. stage[conn] \in {"stored", "open"} /\ conn > c
        BY <1>1, <2>1, <3>1, <3>2
      <4>2. QED
        BY <3>1, <3>3, <4>1
    <3>5. QED
      BY <3>1, <3>3, <3>4
  <2>4. QED
    BY <2>2, <2>3 DEF AddressInv
<1>7. ASSUME NEW c \in Connections,
             EndLoop(c) \/ AnnounceOnline(c) \/ AnnounceOffline(c)
      PROVE  AddressInv'
  <2>1. /\ stage[c] \in {"stored", "open", "closing"}
        /\ stage'[c] \in {"open", "closing", "gone"}
        /\ stage'[c] = "open" => stage[c] = "stored"
        /\ \A d \in Connections \ {c} : stage'[d] = stage[d]
        /\ UNCHANGED <<at, conn, connects, from, ipAddr, listed, late>>
    BY <1>1, <1>7 DEF EndLoop, AnnounceOnline, AnnounceOffline
  <2>2. QED
    BY <2>1 DEF AddressInv, NewestInUse, AddressIsCurrent
<1>8. QED
  BY <1>2, <1>3, <1>4, <1>5, <1>6, <1>7
     DEF PresenceNext, presenceVars, linkVars, OpenFeed, SendSnapshot,
         ShowNews, CloseFeed

(* While a node has a row, the address in it is where the node is, from    *)
(* the moment its connection is announced, unless an older connection's    *)
(* task stored its own last or the UPDATE failed.                          *)
THEOREM PresenceAddressIsCurrent == PresenceSpec => []AddressIsCurrent
<1>1. PresenceInit => AddressInv
  BY DEF PresenceInit, AddressInv, NewestInUse, AddressIsCurrent
<1>2. AddressInv => AddressIsCurrent
  BY DEF AddressInv
<1>3. QED
  BY <1>1, <1>2, AddressStep, PresenceTypeCorrect, PTL DEF PresenceSpec

-----------------------------------------------------------------------------
(* What a browser will have shown once it has read its channel: the last   *)
(* announcement in it.                                                     *)
Latest(b) == inbox[b][Len(inbox[b])]
Alive == \E c \in Connections : stage[c] \in {"open", "closing"}
Connected == \E c \in Connections : Announced(c)

(* A closed feed has no channel; a channel that ends in "online" was       *)
(* written by a task that is still alive.                                  *)
OnlineMeansAlive(b) ==
  /\ feed[b] = "closed" => inbox[b] = <<>>
  /\ inbox[b] # <<>> /\ Latest(b) = "online" => Alive
  /\ UpToDate(b) /\ b \in shown \ misled => Alive

(* While a node is connected the channel of a browser that was there when  *)
(* it was announced ends in "online", until the browser has read it.       *)
ConnectedMeansOnline(b) ==
  Connected /\ b \notin blind =>
    /\ feed[b] = "subscribed" => inbox[b] # <<>>
    /\ inbox[b] # <<>> => Latest(b) = "online"
    /\ UpToDate(b) => b \in shown

ShownInv == \A b \in Browsers : OnlineMeansAlive(b) /\ ConnectedMeansOnline(b)

LEMMA TailOfNews ==
  ASSUME NEW s \in Seq(News), s # <<>>
  PROVE  IF Tail(s) = <<>> THEN Head(s) = s[Len(s)]
         ELSE Tail(s)[Len(Tail(s))] = s[Len(s)]
<1>1. Len(s) \in Nat \ {0} /\ Head(s) = s[1]
  BY EmptySeq, LenProperties
<1>2. /\ Tail(s) \in Seq(News) /\ Len(Tail(s)) = Len(s) - 1
      /\ \A i \in 1..(Len(s) - 1) : Tail(s)[i] = s[i + 1]
  BY HeadTailProperties
<1>3. /\ Len(<<>>) = 0
      /\ \A q \in Seq(News) : q # <<>> => Len(q) # 0
  BY EmptySeq, Zenon
<1>4. CASE Len(s) = 1
  <2>1. Len(Tail(s)) = 0
    BY <1>2, <1>4
  <2>2. Tail(s) = <<>>
    BY <1>2, <1>3, <2>1
  <2>3. QED
    BY <1>1, <1>4, <2>2
<1>5. CASE Len(s) # 1
  <2>1. Len(Tail(s)) \in 1..(Len(s) - 1) /\ Len(Tail(s)) # 0
    BY <1>1, <1>2, <1>5
  <2>2. Len(Tail(s)) \in 1..(Len(s) - 1) /\ Tail(s) # <<>>
    BY <1>3, <2>1
  <2>3. Tail(s)[Len(Tail(s))] = s[Len(Tail(s)) + 1] /\ Len(Tail(s)) + 1 = Len(s)
    BY <1>1, <1>2, <2>2
  <2>4. QED
    BY <2>2, <2>3
<1>6. QED
  BY <1>4, <1>5

(* The tasks of the connections go on; no browser takes a step.            *)
LEMMA ShownAlong ==
  ASSUME ShownInv, UNCHANGED <<feed, inbox, shown, misled, blind>>,
         Alive => Alive', Connected' => Connected
  PROVE  ShownInv'
BY DEF ShownInv, OnlineMeansAlive, ConnectedMeansOnline, UpToDate, Latest

LEMMA ShownOnline ==
  ASSUME PresenceTypeOK, ShownInv, NEW c \in Connections, AnnounceOnline(c)
  PROVE  ShownInv'
<1>1. /\ Broadcast("online") /\ blind' = {b \in Browsers : feed[b] = "closed"}
      /\ UNCHANGED <<feed, shown, misled>>
      /\ stage'[c] = "open"
  BY DEF AnnounceOnline, PresenceTypeOK
<1>2. Alive'
  BY <1>1 DEF Alive
<1>3. \A b \in Browsers :
        IF feed[b] = "closed" THEN inbox'[b] = inbox[b]
        ELSE inbox'[b] # <<>> /\ inbox'[b][Len(inbox'[b])] = "online"
  BY <1>1, BroadcastEffect, PresenceParts DEF News
<1>4. QED
  BY <1>1, <1>2, <1>3
     DEF ShownInv, OnlineMeansAlive, ConnectedMeansOnline, UpToDate, Latest

LEMMA ShownOffline ==
  ASSUME PresenceTypeOK, ShownInv, NEW c \in Connections, AnnounceOffline(c)
  PROVE  ShownInv'
<1>1. /\ Broadcast("offline")
      /\ blind' = IF Connected THEN Browsers ELSE blind
      /\ UNCHANGED <<feed, shown, misled>>
      /\ stage[c] = "closing" /\ stage' = [stage EXCEPT ![c] = "gone"]
  BY DEF AnnounceOffline, Connected
<1>2. Connected' => Connected
  BY <1>1 DEF Connected, Announced, PresenceTypeOK
<1>3. \A b \in Browsers :
        IF feed[b] = "closed" THEN inbox'[b] = inbox[b]
        ELSE inbox'[b] # <<>> /\ inbox'[b][Len(inbox'[b])] = "offline"
  BY <1>1, BroadcastEffect, PresenceParts DEF News
<1>4. ASSUME NEW b \in Browsers PROVE OnlineMeansAlive(b)'
  BY <1>1, <1>3 DEF ShownInv, OnlineMeansAlive, UpToDate, Latest
<1>5. ASSUME NEW b \in Browsers PROVE ConnectedMeansOnline(b)'
  BY <1>1, <1>2 DEF ConnectedMeansOnline
<1>6. QED
  BY <1>4, <1>5 DEF ShownInv

(* What the steps of one browser leave of the others.                      *)
LEMMA ShownOthers ==
  ASSUME ShownInv, NEW b \in Browsers, UNCHANGED stage,
         \A d \in Browsers \ {b} :
           /\ feed'[d] = feed[d] /\ inbox'[d] = inbox[d]
           /\ d \in shown' <=> d \in shown
           /\ d \in misled' <=> d \in misled
           /\ d \in blind' <=> d \in blind,
         OnlineMeansAlive(b)' /\ ConnectedMeansOnline(b)'
  PROVE  ShownInv'
<1>1. Alive' = Alive /\ Connected' = Connected
  BY DEF Alive, Connected, Announced
<1>2. ASSUME NEW d \in Browsers \ {b}
      PROVE  OnlineMeansAlive(d)' /\ ConnectedMeansOnline(d)'
  BY <1>1
     DEF ShownInv, OnlineMeansAlive, ConnectedMeansOnline, UpToDate, Latest
<1>3. QED
  BY <1>2 DEF ShownInv

LEMMA ShownBrowser ==
  ASSUME PresenceTypeOK, ShownInv, NEW b \in Browsers,
         OpenFeed(b) \/ SendSnapshot(b) \/ ShowNews(b) \/ CloseFeed(b)
  PROVE  ShownInv'
<1>1. OnlineMeansAlive(b) /\ ConnectedMeansOnline(b)
  BY DEF ShownInv
<1>2. /\ feed \in [Browsers -> {"closed", "subscribed", "open"}]
      /\ inbox \in [Browsers -> Seq(News)]
  BY PresenceParts DEF FeedType
<1>3. UNCHANGED stage
  BY DEF OpenFeed, SendSnapshot, ShowNews, CloseFeed
<1>4. Alive' = Alive /\ Connected' = Connected
  BY <1>3 DEF Alive, Connected, Announced
<1>5. \A d \in Browsers \ {b} :
        /\ feed'[d] = feed[d] /\ inbox'[d] = inbox[d]
        /\ d \in shown' <=> d \in shown
        /\ d \in misled' <=> d \in misled
        /\ d \in blind' <=> d \in blind
  BY <1>2 DEF OpenFeed, SendSnapshot, ShowNews, CloseFeed
<1>6. CASE OpenFeed(b)
  <2>1. /\ feed'[b] = "subscribed" /\ inbox'[b] = <<>>
        /\ Connected => b \in blind'
    BY <1>1, <1>2, <1>6 DEF OpenFeed, OnlineMeansAlive, Connected
  <2>2. OnlineMeansAlive(b)' /\ ConnectedMeansOnline(b)'
    BY <1>4, <2>1 DEF OnlineMeansAlive, ConnectedMeansOnline, UpToDate
  <2>3. QED
    BY <1>3, <1>5, <2>2, ShownOthers
<1>7. CASE SendSnapshot(b)
  <2>1. /\ feed[b] = "subscribed" /\ feed'[b] = "open" /\ inbox'[b] = inbox[b]
        /\ b \notin shown' \ misled'
        /\ UNCHANGED blind
    BY <1>2, <1>7 DEF SendSnapshot
  <2>2. OnlineMeansAlive(b)'
    BY <1>1, <1>4, <2>1 DEF OnlineMeansAlive, UpToDate, Latest
  <2>3. ConnectedMeansOnline(b)'
    BY <1>1, <1>4, <2>1 DEF ConnectedMeansOnline, UpToDate, Latest
  <2>4. QED
    BY <1>3, <1>5, <2>2, <2>3, ShownOthers
<1>8. CASE ShowNews(b)
  <2>1. /\ feed[b] = "open" /\ feed'[b] = "open" /\ inbox[b] # <<>>
        /\ inbox'[b] = Tail(inbox[b])
        /\ b \in shown' <=> Head(inbox[b]) = "online"
        /\ UNCHANGED blind
    BY <1>2, <1>8 DEF ShowNews
  <2>2. IF inbox'[b] = <<>> THEN Head(inbox[b]) = Latest(b)
        ELSE Latest(b)' = Latest(b)
    BY <1>2, <2>1, TailOfNews DEF Latest
  <2>3. OnlineMeansAlive(b)'
    BY <1>1, <1>4, <2>1, <2>2 DEF OnlineMeansAlive, UpToDate
  <2>4. ConnectedMeansOnline(b)'
    BY <1>1, <1>4, <2>1, <2>2 DEF ConnectedMeansOnline, UpToDate
  <2>5. QED
    BY <1>3, <1>5, <2>3, <2>4, ShownOthers
<1>9. CASE CloseFeed(b)
  <2>1. feed'[b] = "closed" /\ inbox'[b] = <<>>
    BY <1>2, <1>9 DEF CloseFeed
  <2>2. OnlineMeansAlive(b)' /\ ConnectedMeansOnline(b)'
    BY <2>1 DEF OnlineMeansAlive, ConnectedMeansOnline, UpToDate
  <2>3. QED
    BY <1>3, <1>5, <2>2, ShownOthers
<1>10. QED
  BY <1>6, <1>7, <1>8, <1>9

LEMMA ShownStep ==
  ASSUME PresenceTypeOK, NewestInUse, ShownInv, [PresenceNext]_presenceVars
  PROVE  ShownInv'
<1>1. stage \in [Connections -> Stages] /\ connects \in Nat
  BY PresenceAssumption, PresenceParts DEF LinkType
<1>2. ASSUME NEW c \in Connections, NEW st \in Stages \ {"open"},
             stage' = [stage EXCEPT ![c] = st],
             stage[c] = "open" => st = "closing", stage[c] # "closing",
             UNCHANGED <<feed, inbox, shown, misled, blind>>
      PROVE  ShownInv'
  <2>1. /\ stage'[c] = st
        /\ \A d \in Connections \ {c} : stage'[d] = stage[d]
    BY <1>1, <1>2
  <2>2. (Alive => Alive') /\ (Connected' => Connected)
    BY <1>2, <2>1 DEF Alive, Connected, Announced
  <2>3. QED
    BY <1>2, <2>2, ShownAlong
<1>3. CASE UNCHANGED presenceVars
  BY <1>3, ShownAlong DEF presenceVars, Alive, Connected, Announced
<1>4. CASE LoseLink \/ UnlistNode
  BY <1>4, ShownAlong DEF LoseLink, UnlistNode, Alive, Connected, Announced
<1>5. CASE Dial
  <2>1. connects + 1 \in Connections
    BY <1>1, <1>5, PresenceAssumption DEF Dial, Connections
  <2>2. stage[connects + 1] = "none"
    BY <1>1, <2>1 DEF NewestInUse
  <2>3. QED
    BY <1>2, <1>5, <2>1, <2>2 DEF Dial, Stages
<1>6. ASSUME NEW c \in Connections, StoreAddress(c) \/ EndLoop(c)
      PROVE  ShownInv'
  BY <1>2, <1>6 DEF StoreAddress, EndLoop, Stages
<1>7. CASE RestartCoordinator
  <2>1. /\ \A b \in Browsers : feed'[b] = "closed" /\ inbox'[b] = <<>>
        /\ ~Connected'
    BY <1>7 DEF RestartCoordinator, Connected, Announced
  <2>2. QED
    BY <2>1 DEF ShownInv, OnlineMeansAlive, ConnectedMeansOnline, UpToDate
<1>8. QED
  BY <1>3, <1>4, <1>5, <1>6, <1>7, ShownOnline, ShownOffline, ShownBrowser
     DEF PresenceNext

LEMMA ShownInvariant == PresenceSpec => []ShownInv
<1>1. PresenceInit => AddressInv /\ ShownInv
  <2> SUFFICES ASSUME PresenceInit PROVE AddressInv /\ ShownInv
    OBVIOUS
  <2>1. ~Connected
    BY DEF PresenceInit, Connected, Announced
  <2>2. ShownInv
    BY <2>1 DEF PresenceInit, ShownInv, OnlineMeansAlive,
                ConnectedMeansOnline, UpToDate
  <2>3. QED
    BY <2>2 DEF PresenceInit, AddressInv, NewestInUse, AddressIsCurrent
<1>2. AddressInv => NewestInUse
  BY DEF AddressInv
<1>3. QED
  BY <1>1, <1>2, AddressStep, ShownStep, PresenceTypeCorrect, PTL
     DEF PresenceSpec

(* The node is shown online only while the task of a connection is alive,  *)
(* unless the browser got no snapshot of it.                               *)
LEMMA PresenceShownOnlineIsAlive == PresenceSpec => []ShownOnlineIsAlive
<1>1. PresenceTypeOK /\ ShownInv => ShownOnlineIsAlive
  BY DEF ShownInv, OnlineMeansAlive, ShownOnlineIsAlive, Alive, PresenceTypeOK
<1>2. QED
  BY <1>1, ShownInvariant, PresenceTypeCorrect, PTL

(* A connected node is shown online, unless the browser came after the     *)
(* announcement or an older connection's task took it back.                *)
LEMMA PresenceConnectedIsShown == PresenceSpec => []ConnectedIsShown
<1>1. ShownInv => ConnectedIsShown
  BY DEF ShownInv, ConnectedMeansOnline, ConnectedIsShown, Connected
<1>2. QED
  BY <1>1, ShownInvariant, PTL

(* What browsers show of the node agrees with its connection, both ways,   *)
(* whatever the number of browsers, reconnections and restarts.            *)
THEOREM PresenceShownIsTrue == PresenceSpec => []ShownIsTrue
<1>1. ShownOnlineIsAlive /\ ConnectedIsShown => ShownIsTrue
  BY DEF ShownIsTrue
<1>2. QED
  BY <1>1, PresenceShownOnlineIsAlive, PresenceConnectedIsShown, PTL

-----------------------------------------------------------------------------
(* Motion                                                                  *)

(* MotionTypeOK in parts that the steps disturb one at a time.             *)
CounterTyped == clock \in Moments /\ mishaps \in 0..MaxMishaps
TaskTyped ==
  /\ watch \in {"none", "subscribe", "renew", "pull", "spawn", "first",
                "compare", "pause", "dead"}
  /\ due \in Nat /\ until \in Nat
HistoryTyped == unanswered \in SUBSET Moments /\ disowned \in BOOLEAN
MemoryTyped == lastMotion \in Int /\ lastRenew \in Moments
ReportTyped == reports \in 0..MaxReports /\ when \in [Reports -> Moments]
AnewTyped == anew \in SUBSET (1..(MaxReports + 1))
PlaceTyped ==
  /\ channel \in SUBSET Reports /\ sent \in SUBSET Reports
  /\ stored \in SUBSET Reports /\ announcing \in SUBSET Reports
  /\ motionEvents \in SUBSET Reports /\ gone \in SUBSET Reports
  /\ link \in {"down", "up", "broken"}

LEMMA MotionParts ==
  /\ MotionTypeOK <=> /\ CounterTyped /\ TaskTyped /\ MemoryTyped
                      /\ HistoryTyped /\ ReportTyped /\ AnewTyped /\ PlaceTyped
  /\ MotionTypeOK' <=> /\ CounterTyped' /\ TaskTyped' /\ MemoryTyped'
                       /\ HistoryTyped' /\ ReportTyped' /\ AnewTyped' /\ PlaceTyped'
BY DEF MotionTypeOK, CounterTyped, TaskTyped, MemoryTyped, HistoryTyped,
       ReportTyped, AnewTyped, PlaceTyped

LEMMA MotionInitType == MotionInit => MotionTypeOK
<1> SUFFICES ASSUME MotionInit PROVE MotionTypeOK
  OBVIOUS
<1>1. 0 \in Moments /\ 0 \in 0..MaxMishaps /\ 0 \in 0..MaxReports
        /\ 1 \in 1..(MaxReports + 1)
  BY MotionAssumption DEF Moments
<1>2. CounterTyped /\ TaskTyped /\ MemoryTyped /\ HistoryTyped
  <2>1. CounterTyped /\ MemoryTyped
    BY <1>1 DEF MotionInit, CounterTyped, MemoryTyped
  <2>2. TaskTyped
    BY DEF MotionInit, TaskTyped
  <2>3. HistoryTyped
    BY DEF MotionInit, HistoryTyped
  <2>4. QED
    BY <2>1, <2>2, <2>3
<1>3. ReportTyped /\ AnewTyped
  BY <1>1 DEF MotionInit, ReportTyped, AnewTyped
<1>4. PlaceTyped
  BY DEF MotionInit, PlaceTyped
<1>5. QED
  BY <1>2, <1>3, <1>4, MotionParts

(* What the pieces of a task's step leave typed.                           *)
LEMMA WatchType ==
  ASSUME MotionTypeOK, clock' = clock
  PROVE  /\ \A step \in {"renew", "pull"} :
              Go(step) => due' \in Nat /\ watch' = step
         /\ Fails => TaskTyped' /\ MemoryTyped' /\ HistoryTyped'
         /\ \A end \in {"none", "dead"} :
              EndTask(end) => TaskTyped' /\ MemoryTyped' /\ HistoryTyped'
<1>1. clock \in Nat /\ Retry \in Nat /\ StepTime \in Nat /\ 0 \in Moments
  BY MotionAssumption DEF MotionTypeOK, Moments
<1>2. \A step \in {"renew", "pull"} : Go(step) => due' \in Nat /\ watch' = step
  BY <1>1 DEF Go
<1>3. Forget => MemoryTyped' /\ HistoryTyped' /\ until' \in Nat
  <2>1. Forget => MemoryTyped' /\ until' \in Nat
    BY <1>1 DEF Forget, MemoryTyped
  <2>2. Forget => HistoryTyped'
    BY DEF Forget, Renewed, HistoryTyped
  <2>3. QED
    BY <2>1, <2>2
<1>4. Fails => TaskTyped' /\ MemoryTyped' /\ HistoryTyped'
  BY <1>1, <1>3 DEF Fails, TaskTyped
<1>5. \A end \in {"none", "dead"} :
        EndTask(end) => TaskTyped' /\ MemoryTyped' /\ HistoryTyped'
  BY <1>3 DEF EndTask, TaskTyped
<1>6. QED
  BY <1>2, <1>4, <1>5

LEMMA ReportType ==
  ASSUME MotionTypeOK
  PROVE  /\ Report => /\ ReportTyped' /\ lastMotion' \in Int
                      /\ channel' \in SUBSET Reports
         /\ NoReport => ReportTyped' /\ channel' \in SUBSET Reports
<1>1. /\ clock \in Moments /\ clock \in Int
      /\ ReportTyped /\ channel \in SUBSET Reports
  BY MotionAssumption, MotionParts DEF MotionTypeOK, Moments
<1>2. ASSUME Report
      PROVE  ReportTyped' /\ lastMotion' \in Int /\ channel' \in SUBSET Reports
  <2>1. reports + 1 \in Reports /\ reports + 1 \in 0..MaxReports
    BY <1>1, <1>2, MotionAssumption DEF Report, ReportTyped, Reports
  <2>2. QED
    BY <1>1, <1>2, <2>1 DEF Report, ReportTyped
<1>3. NoReport => ReportTyped' /\ channel' \in SUBSET Reports
  BY <1>1 DEF NoReport, ReportTyped
<1>4. QED
  BY <1>2, <1>3

LEMMA MishapType ==
  ASSUME MotionTypeOK, clock' = clock, Mishap
  PROVE  CounterTyped'
BY MotionAssumption DEF MotionTypeOK, Mishap, CounterTyped

LEMMA MotionStepType == MotionTypeOK /\ [MotionNext]_motionVars => MotionTypeOK'
<1> SUFFICES ASSUME MotionTypeOK, [MotionNext]_motionVars
             PROVE  MotionTypeOK'
  OBVIOUS
<1> USE DEF motionVars, watchVars, reportVars, deliveryVars, eventVars,
            subscriptionVars
<1> DEFINE idle == UNCHANGED <<watchVars>>
           unreported == UNCHANGED <<reportVars>>
           unmoved == UNCHANGED <<deliveryVars, eventVars>>
<1>1. CounterTyped /\ TaskTyped /\ MemoryTyped /\ HistoryTyped /\ ReportTyped
        /\ AnewTyped /\ PlaceTyped
  BY MotionParts
<1>2. /\ UNCHANGED <<clock, mishaps>> => CounterTyped'
      /\ idle => TaskTyped' /\ MemoryTyped'
      /\ UNCHANGED <<unanswered, disowned>> => HistoryTyped'
      /\ unreported => ReportTyped' /\ AnewTyped'
      /\ UNCHANGED anew => AnewTyped'
      /\ unmoved => PlaceTyped'
  BY <1>1 DEF CounterTyped, TaskTyped, MemoryTyped, HistoryTyped, ReportTyped,
              AnewTyped, PlaceTyped
<1>3. clock \in Moments /\ clock \in Nat
  BY <1>1, MotionAssumption DEF CounterTyped, Moments
<1>4. ASSUME UNCHANGED <<clock, mishaps>>, unreported, unmoved,
             TaskTyped', MemoryTyped', HistoryTyped'
      PROVE  MotionTypeOK'
  BY <1>2, <1>4, MotionParts
<1>5. ASSUME CounterTyped', idle, unreported, PlaceTyped'
      PROVE  MotionTypeOK'
  BY <1>2, <1>5, MotionParts
<1>6. ASSUME UNCHANGED reports
      PROVE  anew' = anew \cup {reports + 1} => AnewTyped'
  <2>1. reports + 1 \in 1..(MaxReports + 1)
    BY <1>1, MotionAssumption DEF ReportTyped
  <2>2. QED
    BY <1>1, <2>1 DEF AnewTyped
<1>7. CASE TimePasses
  <2>1. CounterTyped'
    BY <1>1, <1>7, MotionAssumption DEF TimePasses, CounterTyped, Moments
  <2>2. QED
    BY <1>2, <1>5, <1>7, <2>1 DEF TimePasses
<1>8. CASE StartTask
  BY <1>1, <1>2, <1>4, <1>8 DEF StartTask, TaskTyped, MemoryTyped
<1>9. CASE WakeUp
  BY <1>1, <1>2, <1>4, <1>9 DEF WakeUp, TaskTyped, MemoryTyped
<1>10. CASE AbortTask
  <2>1. CounterTyped' /\ TaskTyped' /\ MemoryTyped' /\ HistoryTyped'
    BY <1>10, MishapType, WatchType DEF AbortTask
  <2>2. ReportTyped' /\ AnewTyped' /\ PlaceTyped'
    BY <1>1, <1>2, <1>6, <1>10 DEF AbortTask, ReportTyped
  <2>3. QED
    BY <2>1, <2>2, MotionParts
<1>11. CASE Subscribe
  <2>1. CASE Fails
    BY <1>4, <1>11, <2>1, WatchType DEF Subscribe
  <2>2. CASE ~Fails
    <3>1. /\ Go("renew") /\ lastMotion' = clock - 2 * Cooldown
          /\ lastRenew' = clock /\ until' = clock + Expiry /\ Renewed
          /\ UNCHANGED <<clock, mishaps>> /\ unreported /\ unmoved
      BY <1>11, <2>2 DEF Subscribe
    <3>2. TaskTyped' /\ MemoryTyped'
      <4>1. /\ due' \in Nat /\ watch' = "renew"
            /\ clock + Expiry \in Nat /\ clock - 2 * Cooldown \in Int
        BY <1>3, <3>1, WatchType, MotionAssumption
      <4>2. QED
        BY <1>3, <3>1, <4>1 DEF TaskTyped, MemoryTyped
    <3>3. HistoryTyped'
      BY <3>1 DEF Renewed, HistoryTyped
    <3>4. QED
      BY <1>4, <3>1, <3>2, <3>3
  <2>3. QED
    BY <2>1, <2>2
<1>12. CASE Renew
  <2>1. /\ due' \in Nat /\ watch' = "pull" /\ UNCHANGED lastMotion
        /\ UNCHANGED <<clock, mishaps>> /\ unreported /\ unmoved
    BY <1>12, WatchType DEF Renew
  <2>2. /\ lastRenew' = lastRenew \/ lastRenew' = clock
        /\ until' = until \/ until' = clock + Expiry
    BY <1>12 DEF Renew, RenewNotDue, RenewConfirmed, RenewRefused,
                 RenewUnanswered
  <2>3. clock + Expiry \in Nat
    BY <1>3, MotionAssumption
  <2>4. TaskTyped' /\ MemoryTyped'
    BY <1>1, <1>3, <2>1, <2>2, <2>3 DEF TaskTyped, MemoryTyped
  <2>5. HistoryTyped'
    <3>1. CASE RenewNotDue
      BY <1>2, <3>1 DEF RenewNotDue
    <3>2. CASE RenewConfirmed
      BY <3>2 DEF RenewConfirmed, Renewed, HistoryTyped
    <3>3. CASE RenewRefused
      BY <3>3 DEF RenewRefused, HistoryTyped
    <3>4. CASE RenewUnanswered
      <4>1. disowned' = disowned /\ unanswered' = unanswered \cup {clock}
        BY <3>4 DEF RenewUnanswered
      <4>2. QED
        BY <1>1, <1>3, <4>1 DEF HistoryTyped
    <3>5. QED
      BY <1>12, <3>1, <3>2, <3>3, <3>4 DEF Renew
  <2>6. QED
    BY <1>4, <2>1, <2>4, <2>5
<1>13. ASSUME ReportTyped', channel' \in SUBSET Reports,
              UNCHANGED <<clock, anew, link, sent, gone, eventVars>>,
              CounterTyped', TaskTyped', MemoryTyped', HistoryTyped'
       PROVE  MotionTypeOK'
  <2>1. PlaceTyped'
    BY <1>1, <1>13 DEF PlaceTyped
  <2>2. QED
    BY <1>2, <1>13, <2>1, MotionParts
<1>14. CASE PullMessages
  <2>1. ReportTyped' /\ channel' \in SUBSET Reports
    BY <1>14, ReportType DEF PullMessages
  <2>2. CounterTyped'
    BY <1>2, <1>14, MishapType DEF PullMessages
  <2>3. TaskTyped' /\ MemoryTyped' /\ HistoryTyped'
    <3>1. CASE Fails \/ EndTask("dead")
      BY <1>14, <3>1, WatchType DEF PullMessages
    <3>2. CASE Go("renew") /\ UNCHANGED <<subscriptionVars>>
      <4>1. lastMotion' \in Int
        BY <1>1, <1>14, <3>2, ReportType
           DEF PullMessages, MemoryTyped, Go, Fails, EndTask
      <4>2. due' \in Nat /\ watch' = "renew"
        BY <1>14, <3>2, WatchType DEF PullMessages
      <4>3. TaskTyped' /\ MemoryTyped'
        BY <1>1, <3>2, <4>1, <4>2 DEF TaskTyped, MemoryTyped
      <4>4. QED
        BY <1>2, <3>2, <4>3
    <3>3. QED
      BY <1>14, <3>1, <3>2 DEF PullMessages
  <2>4. QED
    BY <1>13, <1>14, <2>1, <2>2, <2>3 DEF PullMessages
<1>15. CASE SpawnFfmpeg
  <2>1. CASE Fails
    BY <1>4, <1>15, <2>1, WatchType DEF SpawnFfmpeg
  <2>2. CASE ~Fails
    <3>1. /\ watch' = "first" /\ lastMotion' = clock - 2 * Cooldown
          /\ UNCHANGED <<due, subscriptionVars>>
          /\ UNCHANGED <<clock, mishaps>> /\ unreported /\ unmoved
      BY <1>15, <2>2 DEF SpawnFfmpeg
    <3>2. TaskTyped' /\ MemoryTyped'
      BY <1>1, <1>3, <3>1, MotionAssumption DEF TaskTyped, MemoryTyped
    <3>3. QED
      BY <1>2, <1>4, <3>1, <3>2
  <2>3. QED
    BY <2>1, <2>2
<1>16. CASE ReadFrame
  <2>1. ReportTyped' /\ channel' \in SUBSET Reports
    BY <1>16, ReportType DEF ReadFrame
  <2>2. CounterTyped'
    BY <1>2, <1>16 DEF ReadFrame
  <2>3. TaskTyped' /\ MemoryTyped' /\ HistoryTyped'
    <3>1. CASE Fails
      BY <1>16, <3>1, WatchType DEF ReadFrame
    <3>2. CASE ~Fails
      <4>1. lastMotion' \in Int
        BY <1>1, <1>16, <3>2, ReportType DEF ReadFrame, MemoryTyped
      <4>2. TaskTyped' /\ MemoryTyped'
        BY <1>1, <1>16, <3>2, <4>1 DEF ReadFrame, TaskTyped, MemoryTyped
      <4>3. QED
        BY <1>2, <1>16, <3>2, <4>2 DEF ReadFrame
    <3>3. QED
      BY <3>1, <3>2
  <2>4. QED
    BY <1>13, <1>16, <2>1, <2>2, <2>3 DEF ReadFrame
<1>17. CASE RestartCamera
  <2>1. CounterTyped'
    BY <1>17, MishapType DEF RestartCamera
  <2>2. TaskTyped' /\ MemoryTyped'
    BY <1>1, <1>17 DEF RestartCamera, TaskTyped, MemoryTyped
  <2>3. HistoryTyped'
    BY <1>1, <1>17 DEF RestartCamera, HistoryTyped
  <2>4. QED
    BY <1>2, <1>17, <2>1, <2>2, <2>3, MotionParts DEF RestartCamera
<1>18. CASE Reconnect \/ NoticeBreak \/ SendEvent
  <2>1. PlaceTyped'
    BY <1>1, <1>18 DEF Reconnect, NoticeBreak, SendEvent, PlaceTyped
  <2>2. QED
    BY <1>2, <1>5, <1>18, <2>1 DEF Reconnect, NoticeBreak, SendEvent
<1>19. CASE BreakConnection
  <2>1. PlaceTyped'
    BY <1>1, <1>19 DEF BreakConnection, PlaceTyped
  <2>2. QED
    BY <1>5, <1>19, <2>1, MishapType DEF BreakConnection
<1>20. CASE RestartServer
  <2>1. PlaceTyped'
    BY <1>1, <1>20 DEF RestartServer, PlaceTyped
  <2>2. QED
    BY <1>5, <1>20, <2>1, MishapType DEF RestartServer
<1>21. CASE CrashWatch
  <2>1. CounterTyped' /\ TaskTyped' /\ MemoryTyped' /\ HistoryTyped'
    BY <1>21, MishapType, WatchType DEF CrashWatch
  <2>2. ReportTyped' /\ AnewTyped'
    BY <1>1, <1>6, <1>21 DEF CrashWatch, ReportTyped
  <2>3. PlaceTyped'
    BY <1>1, <1>21 DEF CrashWatch, PlaceTyped
  <2>4. QED
    BY <2>1, <2>2, <2>3, MotionParts
<1>22. ASSUME NEW n \in Reports, IndexEvent(n)
       PROVE  MotionTypeOK'
  <2>1. PlaceTyped'
    BY <1>1, <1>22 DEF IndexEvent, PlaceTyped
  <2>2. CounterTyped'
    BY <1>2, <1>22, MishapType DEF IndexEvent
  <2>3. QED
    BY <1>5, <1>22, <2>1, <2>2 DEF IndexEvent
<1>23. ASSUME NEW n \in Reports, BroadcastEvent(n)
       PROVE  MotionTypeOK'
  <2>1. PlaceTyped'
    BY <1>1, <1>23 DEF BroadcastEvent, PlaceTyped
  <2>2. QED
    BY <1>2, <1>5, <1>23, <2>1 DEF BroadcastEvent
<1>24. CASE UNCHANGED motionVars
  BY <1>2, <1>4, <1>24
<1>25. QED
  BY <1>7, <1>8, <1>9, <1>10, <1>11, <1>12, <1>14, <1>15, <1>16, <1>17,
     <1>18, <1>19, <1>20, <1>21, <1>22, <1>23, <1>24 DEF MotionNext

LEMMA MotionTypeCorrect == MotionSpec => []MotionTypeOK
BY MotionInitType, MotionStepType, PTL DEF MotionSpec

(* A subscription lasts Expiry from the latest renewal the task knows of,  *)
(* and after any moment from when a renewal is due the task asks for one   *)
(* within two steps: it has, or its step is over by then.                  *)
Polls == watch \in {"renew", "pull"}
Due(moment) == lastRenew + RenewInterval <= moment
AsksInTime ==
  \A t \in Nat : Due(t) =>
    \/ AskedWithin(t, t + 2 * StepTime)
    \/ watch = "renew" /\ due <= t + 2 * StepTime
    \/ watch = "pull" /\ due <= t + StepTime
RenewedInTime ==
  Polls /\ ~disowned =>
    /\ lastRenew + Expiry <= until
    /\ clock <= due
    /\ AsksInTime

LEMMA HearsStep ==
  ASSUME MotionTypeOK, RenewedInTime, [MotionNext]_motionVars
  PROVE  RenewedInTime'
<1> USE DEF motionVars, watchVars, reportVars, deliveryVars, eventVars,
            subscriptionVars, Polls
<1> DEFINE idle == UNCHANGED <<clock, watch, due, subscriptionVars>>
<1>1. /\ clock \in Nat /\ due \in Nat /\ lastRenew \in Nat /\ until \in Nat
      /\ StepTime \in Nat /\ Expiry \in Nat
      /\ RenewInterval \in Nat /\ RenewInterval > 0
  BY MotionAssumption DEF MotionTypeOK, Moments
<1>2. CASE idle
  BY <1>2 DEF RenewedInTime, AsksInTime, Due, AskedWithin
<1>3. CASE TimePasses
  <2>1. UNCHANGED <<watch, due, subscriptionVars>> /\ (Polls => clock' <= due)
    BY <1>1, <1>3 DEF TimePasses
  <2>2. AsksInTime => AsksInTime'
    BY <2>1 DEF AsksInTime, Due, AskedWithin
  <2>3. QED
    BY <2>1, <2>2 DEF RenewedInTime
<1>4. CASE Subscribe
  <2>1. CASE Fails
    BY <2>1 DEF Fails, RenewedInTime
  <2>2. CASE ~Fails
    <3>1. /\ watch' = "renew" /\ due' = clock + StepTime /\ lastRenew' = clock
          /\ until' = clock + Expiry /\ clock' = clock
      BY <1>4, <2>2 DEF Subscribe, Go
    <3>2. AsksInTime'
      BY <1>1, <3>1 DEF AsksInTime, Due
    <3>3. QED
      BY <1>1, <3>1, <3>2 DEF RenewedInTime
  <2>3. QED
    BY <2>1, <2>2
<1>5. CASE Renew
  <2>1. /\ watch = "renew" /\ watch' = "pull" /\ due' = clock + StepTime
        /\ clock' = clock
    BY <1>5 DEF Renew, Go
  <2>2. CASE RenewNotDue
    <3>1. /\ clock < lastRenew + RenewInterval
          /\ UNCHANGED <<lastRenew, until, disowned>>
      BY <1>1, <2>2 DEF RenewNotDue
    <3>2. AsksInTime'
      BY <1>1, <2>1, <3>1 DEF AsksInTime, Due
    <3>3. QED
      BY <1>1, <2>1, <3>1, <3>2 DEF RenewedInTime
  <2>3. CASE RenewConfirmed
    <3>1. lastRenew' = clock /\ until' = clock + Expiry
      BY <2>3 DEF RenewConfirmed
    <3>2. AsksInTime'
      BY <1>1, <2>1, <3>1 DEF AsksInTime, Due
    <3>3. QED
      BY <1>1, <2>1, <3>1, <3>2 DEF RenewedInTime
  <2>4. CASE RenewRefused
    BY <2>4 DEF RenewRefused, RenewedInTime
  <2>5. CASE RenewUnanswered /\ clock - lastRenew >= RenewInterval
    <3> SUFFICES ASSUME ~disowned
                 PROVE  RenewedInTime'
      BY <2>5 DEF RenewUnanswered, RenewedInTime
    <3>1. lastRenew + Expiry <= until /\ clock <= due /\ AsksInTime
      BY <2>1 DEF RenewedInTime
    <3>2. /\ unanswered' = unanswered \cup {clock} /\ lastRenew' = lastRenew
      BY <2>5 DEF RenewUnanswered
    <3>3. lastRenew + Expiry <= until'
      <4>1. CASE UNCHANGED until
        BY <3>1, <4>1
      <4>2. CASE until' = clock + Expiry
        BY <1>1, <2>5, <4>2
      <4>3. QED
        BY <2>5, <4>1, <4>2 DEF RenewUnanswered
    <3>4. AsksInTime'
      <4> SUFFICES ASSUME NEW t \in Nat, Due(t)
                   PROVE  \/ AskedWithin(t, t + 2 * StepTime)'
                          \/ clock + StepTime <= t + StepTime
        BY <2>1, <3>2 DEF AsksInTime, Due
      <4>1. CASE AskedWithin(t, t + 2 * StepTime)
        BY <3>2, <4>1 DEF AskedWithin
      <4>2. CASE due <= t + 2 * StepTime /\ t <= clock
        <5>1. clock \in t..(t + 2 * StepTime)
          BY <1>1, <3>1, <4>2
        <5>2. QED
          BY <3>2, <5>1 DEF AskedWithin
      <4>3. CASE clock < t
        BY <1>1, <4>3
      <4>4. QED
        BY <1>1, <2>1, <3>1, <4>1, <4>2, <4>3 DEF AsksInTime
    <3>5. QED
      BY <1>1, <2>1, <3>1, <3>2, <3>3, <3>4 DEF RenewedInTime
  <2>6. QED
    BY <1>5, <2>2, <2>3, <2>4, <2>5 DEF Renew
<1>6. CASE PullMessages
  <2>1. CASE Fails \/ EndTask("dead")
    BY <2>1 DEF Fails, EndTask, RenewedInTime
  <2>2. CASE ~(Fails \/ EndTask("dead"))
    <3>1. /\ watch = "pull" /\ watch' = "renew" /\ due' = clock + StepTime
          /\ UNCHANGED <<clock, subscriptionVars>>
      BY <1>6, <2>2 DEF PullMessages, Go
    <3>2. clock <= due /\ AsksInTime => AsksInTime'
      BY <1>1, <3>1 DEF AsksInTime, Due, AskedWithin
    <3>3. QED
      BY <1>1, <3>1, <3>2 DEF RenewedInTime
  <2>3. QED
    BY <2>1, <2>2
<1>7. CASE watch' \notin {"renew", "pull"}
  BY <1>7 DEF RenewedInTime
<1>8. CASE RestartCamera
  BY <1>8 DEF RestartCamera, RenewedInTime
<1>9. QED
  BY <1>2, <1>3, <1>4, <1>5, <1>6, <1>7, <1>8
     DEF MotionNext, StartTask, WakeUp, AbortTask, EndTask, SpawnFfmpeg, Fails,
         ReadFrame, Reconnect, SendEvent, BreakConnection, NoticeBreak,
         CrashWatch, IndexEvent, BroadcastEvent, RestartServer

LEMMA HearsWell ==
  ASSUME MotionTypeOK, RenewedInTime
  PROVE  WatcherHears
<1> SUFFICES ASSUME Polls, ~disowned, clock >= until,
                    NEW t \in (until - Expiry + RenewInterval)
                                ..(until - 2 * StepTime - 1)
             PROVE  AskedWithin(t, t + 2 * StepTime)
  BY DEF WatcherHears, Polls
<1>1. /\ clock \in Nat /\ due \in Nat /\ lastRenew \in Nat /\ until \in Nat
      /\ StepTime \in Nat /\ Expiry \in Nat /\ RenewInterval \in Nat
  BY MotionAssumption DEF MotionTypeOK, Moments
<1>2. lastRenew + Expiry <= until /\ clock <= due /\ AsksInTime
  BY DEF RenewedInTime
<1>3. t \in Nat /\ lastRenew + RenewInterval <= t /\ t + 2 * StepTime < due
  BY <1>1, <1>2
<1>4. QED
  BY <1>1, <1>2, <1>3 DEF AsksInTime, Due

(* The coming event keeps its distance from the latest: a task that has    *)
(* reported remembers when, and one that has failed pauses long enough.    *)
Distance ==
  reports # 0 /\ reports + 1 \notin anew =>
    /\ watch # "none"
    /\ watch = "pause" => when[reports] + Retry <= due
    /\ watch \in {"subscribe", "spawn"} => when[reports] + Cooldown <= clock
    /\ Polls \/ watch \in {"first", "compare"} =>
         \/ when[reports] <= lastMotion
         \/ when[reports] + Cooldown <= clock
Past == \A n \in 1..reports : when[n] <= clock
SpacedInv == ReportsSpaced /\ Distance /\ Past /\ (watch = "none" => reports + 1 \in anew)

LEMMA ReportSpaced ==
  ASSUME MotionTypeOK, SpacedInv, Report, clock' = clock, anew' = anew,
         watch \in {"pull", "compare"}, watch' \in {"renew", "compare"}
  PROVE  SpacedInv'
<1>1. /\ clock \in Nat /\ reports \in Nat /\ reports + 1 \in Reports
      /\ when \in [Reports -> Nat] /\ Cooldown \in Nat /\ lastMotion \in Int
  BY MotionAssumption DEF MotionTypeOK, Moments, Report, Reports
<1>2. /\ reports' = reports + 1
      /\ when'[reports + 1] = clock
      /\ \A n \in 1..reports : when'[n] = when[n]
      /\ lastMotion' = clock
  BY <1>1 DEF Report, Reports, MotionTypeOK
<1>3. reports # 0 /\ reports + 1 \notin anew =>
        clock - when[reports] >= Cooldown
  <2> SUFFICES ASSUME reports # 0, reports + 1 \notin anew
               PROVE  clock - when[reports] >= Cooldown
    OBVIOUS
  <2>1. when[reports] \in Nat
    BY <1>1, MotionAssumption DEF Reports
  <2>2. Polls \/ watch \in {"first", "compare"}
    BY DEF Polls
  <2>3. when[reports] <= lastMotion \/ when[reports] + Cooldown <= clock
    BY <2>2 DEF SpacedInv, Distance
  <2>4. QED
    BY <1>1, <2>1, <2>3 DEF Report
<1>4. ReportsSpaced'
  <2> SUFFICES ASSUME NEW n \in 2..reports', n \notin anew
               PROVE  when'[n] - when'[n - 1] >= Cooldown
    BY DEF ReportsSpaced
  <2>1. CASE n = reports + 1
    BY <1>1, <1>2, <1>3, <2>1
  <2>2. CASE n # reports + 1
    <3>1. n \in 2..reports /\ n - 1 \in 1..reports
      BY <1>1, <1>2, <2>2
    <3>2. when'[n] = when[n] /\ when'[n - 1] = when[n - 1]
      BY <1>2, <3>1
    <3>3. QED
      BY <3>1, <3>2 DEF SpacedInv, ReportsSpaced
  <2>3. QED
    BY <2>1, <2>2
<1>5. Past'
  BY <1>1, <1>2 DEF SpacedInv, Past
<1>6. Distance'
  BY <1>1, <1>2 DEF Distance, Polls
<1>7. QED
  BY <1>4, <1>5, <1>6 DEF SpacedInv

LEMMA SpacedStep ==
  ASSUME MotionTypeOK, SpacedInv, [MotionNext]_motionVars
  PROVE  SpacedInv'
<1> USE DEF motionVars, watchVars, reportVars, deliveryVars, eventVars
<1>1. /\ clock \in Nat /\ due \in Nat /\ reports \in Nat /\ Cooldown \in Nat
      /\ Retry \in Nat /\ Cooldown <= Retry /\ lastMotion \in Int
      /\ reports # 0 => when[reports] \in Nat
  BY MotionAssumption DEF MotionTypeOK, Moments, Reports
<1>2. ASSUME UNCHANGED <<reports, when>>, anew \subseteq anew', clock' = clock,
             Distance', watch' = "none" => reports + 1 \in anew'
      PROVE  SpacedInv'
  BY <1>2 DEF SpacedInv, ReportsSpaced, Past
<1>3. CASE TimePasses
  <2>1. ReportsSpaced' /\ Distance'
    BY <1>1, <1>3 DEF TimePasses, SpacedInv, ReportsSpaced, Distance, Polls
  <2>2. Past'
    <3>1. \A n \in 1..reports : when[n] \in Nat
      BY MotionAssumption DEF MotionTypeOK, Moments, Reports
    <3>2. QED
      BY <1>1, <1>3, <3>1 DEF TimePasses, SpacedInv, Past
  <2>3. QED
    BY <1>3, <2>1, <2>2 DEF TimePasses, SpacedInv
<1>4. CASE StartTask
  BY <1>2, <1>4 DEF StartTask, SpacedInv, Distance
<1>5. CASE AbortTask \/ CrashWatch
  <2>1. reports + 1 \in anew' /\ anew \subseteq anew' /\ clock' = clock
          /\ UNCHANGED <<reports, when>>
    BY <1>5 DEF AbortTask, CrashWatch
  <2>2. Distance'
    BY <2>1 DEF Distance
  <2>3. QED
    BY <1>2, <2>1, <2>2
<1>6. CASE WakeUp
  <2>1. Distance'
    BY <1>1, <1>6 DEF WakeUp, SpacedInv, Distance, Polls
  <2>2. QED
    BY <1>2, <1>6, <2>1 DEF WakeUp
<1>7. ASSUME Fails, UNCHANGED <<clock, reports, when, anew>>, watch # "none"
      PROVE  SpacedInv'
  <2>1. reports # 0 => when[reports] <= clock
    BY <1>1 DEF SpacedInv, Past
  <2>2. Distance'
    BY <1>1, <1>7, <2>1 DEF Fails, Distance, Polls
  <2>3. QED
    BY <1>2, <1>7, <2>2 DEF Fails
<1>8. CASE Subscribe \/ SpawnFfmpeg
  <2>1. CASE Fails
    BY <1>7, <1>8, <2>1 DEF Subscribe, SpawnFfmpeg
  <2>2. CASE ~Fails
    <3>1. watch \in {"subscribe", "spawn"} /\ watch' \in {"renew", "first"}
            /\ UNCHANGED <<clock, reports, when, anew>>
      BY <1>8, <2>2 DEF Subscribe, SpawnFfmpeg, Go
    <3>2. Distance'
      BY <1>1, <3>1 DEF SpacedInv, Distance, Polls
    <3>3. QED
      BY <1>2, <3>1, <3>2
  <2>3. QED
    BY <2>1, <2>2
<1>9. CASE Renew
  <2>1. watch = "renew" /\ watch' = "pull"
          /\ UNCHANGED <<clock, lastMotion, reports, when, anew>>
    BY <1>9 DEF Renew, Go
  <2>2. Distance'
    BY <2>1 DEF SpacedInv, Distance, Polls
  <2>3. QED
    BY <1>2, <2>1, <2>2
<1>10. ASSUME NoReport, UNCHANGED <<clock, lastMotion, anew>>,
              watch \in {"first", "compare", "pull"},
              watch' \in {"compare", "renew"}
       PROVE  SpacedInv'
  <2>1. Distance'
    BY <1>10 DEF NoReport, SpacedInv, Distance, Polls
  <2>2. QED
    BY <1>2, <1>10, <2>1 DEF NoReport
<1>11. CASE PullMessages
  <2>1. watch = "pull" /\ UNCHANGED <<clock, anew>>
    BY <1>11 DEF PullMessages
  <2>2. CASE Fails /\ NoReport
    BY <1>7, <2>1, <2>2 DEF NoReport
  <2>3. CASE Go("renew") /\ NoReport /\ UNCHANGED lastMotion
    BY <1>10, <2>1, <2>3 DEF Go
  <2>4. CASE Go("renew") /\ Report
    BY <2>1, <2>4, ReportSpaced DEF Go
  <2>5. CASE EndTask("dead") /\ NoReport
    <3>1. Distance'
      BY <2>1, <2>5 DEF EndTask, NoReport, Distance, Polls
    <3>2. QED
      BY <1>2, <2>1, <2>5, <3>1 DEF EndTask, NoReport
  <2>6. QED
    BY <1>11, <2>2, <2>3, <2>4, <2>5 DEF PullMessages
<1>12. CASE ReadFrame
  <2>1. watch \in {"first", "compare"} /\ UNCHANGED <<clock, anew>>
    BY <1>12 DEF ReadFrame
  <2>2. CASE Fails /\ NoReport
    BY <1>7, <2>1, <2>2 DEF NoReport
  <2>3. CASE watch' = "compare" /\ NoReport /\ UNCHANGED lastMotion
    BY <1>10, <2>1, <2>3
  <2>4. CASE watch = "compare" /\ watch' = "compare" /\ Report
    BY <2>1, <2>4, ReportSpaced
  <2>5. QED
    BY <1>12, <2>2, <2>3, <2>4 DEF ReadFrame
<1>13. CASE UNCHANGED <<clock, watch, due, lastMotion, reports, when, anew>>
  <2>1. Distance'
    BY <1>13 DEF SpacedInv, Distance, Polls
  <2>2. QED
    BY <1>2, <1>13, <2>1 DEF SpacedInv
<1>14. QED
  BY <1>3, <1>4, <1>5, <1>6, <1>8, <1>9, <1>11, <1>12, <1>13
     DEF MotionNext, RestartCamera, Reconnect, SendEvent, BreakConnection,
         NoticeBreak, IndexEvent, BroadcastEvent, RestartServer

(* An event is in one place, and a connection breaks by a mishap.          *)
PlacesInv ==
  /\ ReportsAccounted
  /\ channel \cap (sent \cup stored \cup gone) = {}
  /\ sent \cap (stored \cup gone) = {}
  /\ announcing \cup motionEvents \subseteq stored
  /\ link = "broken" => mishaps # 0

LEMMA PlacesStep ==
  ASSUME MotionTypeOK, PlacesInv, [MotionNext]_motionVars
  PROVE  PlacesInv'
<1> USE DEF motionVars, watchVars, reportVars, deliveryVars, eventVars
<1>1. mishaps \in Nat /\ reports \in Nat
  BY MotionAssumption DEF MotionTypeOK
<1>2. Mishap => mishaps' # 0
  BY <1>1 DEF Mishap
<1>3. CASE PullMessages \/ ReadFrame
  <2>1. UNCHANGED <<sent, gone, link, stored, announcing, motionEvents>>
    BY <1>3 DEF PullMessages, ReadFrame
  <2>2. mishaps' = mishaps \/ mishaps' # 0
    BY <1>2, <1>3 DEF PullMessages, ReadFrame
  <2>3. CASE NoReport
    BY <2>1, <2>2, <2>3 DEF NoReport, PlacesInv, ReportsAccounted
  <2>4. CASE Report
    <3>1. reports' = reports + 1 /\ channel' = channel \cup {reports + 1}
      BY <2>4 DEF Report
    <3>2. 1..reports' = 1..reports \cup {reports + 1}
            /\ reports + 1 \notin 1..reports
      BY <1>1, <3>1
    <3>3. QED
      BY <2>1, <2>2, <3>1, <3>2 DEF PlacesInv, ReportsAccounted
  <2>5. QED
    BY <1>3, <2>3, <2>4 DEF PullMessages, ReadFrame
<1>4. CASE SendEvent
  BY <1>4 DEF SendEvent, PlacesInv, ReportsAccounted
<1>5. CASE BreakConnection
  BY <1>2, <1>5 DEF BreakConnection, PlacesInv, ReportsAccounted
<1>6. CASE CrashWatch
  BY <1>2, <1>6 DEF CrashWatch, PlacesInv, ReportsAccounted
<1>7. CASE RestartServer
  BY <1>2, <1>7 DEF RestartServer, PlacesInv, ReportsAccounted
<1>8. ASSUME NEW n \in Reports, IndexEvent(n)
      PROVE  PlacesInv'
  BY <1>2, <1>8 DEF IndexEvent, PlacesInv, ReportsAccounted
<1>9. ASSUME NEW n \in Reports, BroadcastEvent(n)
      PROVE  PlacesInv'
  BY <1>9 DEF BroadcastEvent, PlacesInv, ReportsAccounted
<1>10. CASE /\ UNCHANGED <<reports, channel, sent, gone, eventVars>>
            /\ mishaps' = mishaps \/ mishaps' # 0
            /\ link' = link \/ link' # "broken"
  BY <1>10 DEF PlacesInv, ReportsAccounted
<1>11. QED
  BY <1>2, <1>3, <1>4, <1>5, <1>6, <1>7, <1>8, <1>9, <1>10
     DEF MotionNext, TimePasses, StartTask, AbortTask, WakeUp, Subscribe, Renew,
         SpawnFfmpeg, RestartCamera, Reconnect, NoticeBreak

(* A polling task's subscription runs out only when the camera disowns it  *)
(* or leaves every renewal unanswered that the task has asked for, one at  *)
(* least in any two steps from when it was due to the expiry; events of a  *)
(* task are Cooldown apart, each event is accounted for, and browsers show *)
(* stored ones.                                                            *)
THEOREM MotionIsFollowed == MotionSpec => []MotionFollowed
<1> DEFINE Inv == RenewedInTime /\ SpacedInv /\ PlacesInv
<1>1. MotionInit => Inv
  BY DEF MotionInit, RenewedInTime, Polls, SpacedInv, ReportsSpaced, Distance,
         Past, PlacesInv, ReportsAccounted
<1>2. MotionTypeOK /\ Inv /\ [MotionNext]_motionVars => Inv'
  BY HearsStep, SpacedStep, PlacesStep
<1>3. MotionTypeOK /\ RenewedInTime => WatcherHears
  BY HearsWell
<1>4. MotionTypeOK /\ Inv => MotionFollowed
  BY <1>3 DEF SpacedInv, PlacesInv, MotionFollowed
<1> HIDE DEF Inv
<1>5. QED
  BY <1>1, <1>2, <1>4, MotionTypeCorrect, PTL DEF MotionSpec

-----------------------------------------------------------------------------
(* The six parts side by side: each runs as it does alone.                 *)
LEMMA PartsRun ==
  MCSpec => /\ AccountsSpec /\ PoliciesSpec /\ RegistrationSpec
            /\ PresenceSpec /\ PlaybackSpec /\ MotionSpec
<1>1. MCInit => /\ AccountsInit /\ PoliciesInit /\ RegistrationInit
                /\ PresenceInit /\ PlaybackInit /\ MotionInit
  BY DEF MCInit
<1>2. [MCNext]_vars => /\ [AccountsNext]_accountsVars
                       /\ [PoliciesNext]_policyVars
                       /\ [RegistrationNext]_registrationVars
                       /\ [PresenceNext]_presenceVars
                       /\ [PlaybackNext]_playbackVars
                       /\ [MotionNext]_motionVars
  BY DEF MCNext, vars
<1>3. QED
  BY <1>1, <1>2, PTL
     DEF MCSpec, AccountsSpec, PoliciesSpec, RegistrationSpec, PresenceSpec,
         PlaybackSpec, MotionSpec

(* Every variable of the six parts keeps its shape; a node that is at work *)
(* has an identity.                                                        *)
THEOREM CoordinatorTypeCorrect == MCSpec => []CoordinatorTypeOK
<1>1. RegistrationInv => RegistrationTypeOK
  BY DEF RegistrationInv
<1>2. AccountsTypeOK /\ PoliciesTypeOK /\ RegistrationTypeOK
        /\ PresenceTypeOK /\ PlaybackTypeOK /\ MotionTypeOK => CoordinatorTypeOK
  BY DEF CoordinatorTypeOK
<1>3. QED
  BY <1>1, <1>2, PartsRun, AccountsTypeCorrect, PoliciesTypeCorrect,
     RegistrationInvariant, PresenceTypeCorrect, PlaybackTypeCorrect,
     MotionTypeCorrect, PTL

(* What the run of the six parts checks, for any values of the constants:  *)
(* each part keeps its promises with the others at work beside it.         *)
THEOREM CoordinatorSafe ==
  MCSpec => /\ []OverStaysOver /\ []SignedInStays /\ DeadTokensStayDead
            /\ []PoliciesConsistent /\ []SomeoneProceeds
            /\ ImplementsPolicyTable /\ OnlyExpiredGo
            /\ []IdentityIsStable /\ []AddressIsCurrent /\ []ShownIsTrue
            /\ []ExportCoversRange /\ []MotionFollowed
BY PartsRun, AccountsOverStaysOver, AccountsSignedInStays,
   AccountsDeadTokensStayDead, PoliciesStayConsistent, PoliciesSomeoneProceeds,
   PoliciesImplementTable, PoliciesOnlyExpiredGo, RegistrationIdentityIsStable,
   PresenceAddressIsCurrent, PresenceShownIsTrue, PlaybackExportCoversRange,
   MotionIsFollowed, PTL
=============================================================================

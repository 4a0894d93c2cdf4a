----------------------- MODULE SegmentDelivery_proofs -----------------------
(***************************************************************************)
(* Proofs about SegmentDelivery, for every set of segments and cameras and *)
(* every number of faults.                                                 *)
(***************************************************************************)
EXTENDS SegmentDelivery, SequenceTheorems, TLAPS

-----------------------------------------------------------------------------
(* Lemmas about the helpers                                                *)

(* Missed records segments and causes only.                                *)
LEMMA MissedType ==
  ASSUME NEW E, NEW c \in Causes,
         \A e \in E : e.ev = "close" => e.seg \in Segments
  PROVE  Missed(E, c) \in SUBSET Loss
BY DEF Missed, Loss

(* The finished segments of a set of entries are exactly those Missed      *)
(* names.                                                                  *)
LEMMA MissedMember ==
  ASSUME NEW E, NEW c, NEW e \in E, e.ev = "close"
  PROVE  \E l \in Missed(E, c) : l.seg = e.seg
<1>1. [seg |-> e.seg, cause |-> c] \in Missed(E, c)
  BY Zenon DEF Missed
<1>2. QED
  BY <1>1

(* A crash of the node counts what it takes from the node's memory.        *)
LEMMA CrashLoses ==
  ASSUME CrashNode, NEW e \in Volatile, e.ev = "close"
  PROVE  \E l \in lost' : l.seg = e.seg
<1>1. lost' = lost \cup Missed(Volatile, "crash")
  BY DEF CrashNode
<1>2. QED
  BY <1>1, MissedMember

-----------------------------------------------------------------------------
(* Type correctness                                                        *)

LEMMA InitType == Init => TypeOK
<1> SUFFICES ASSUME Init PROVE TypeOK
  OBVIOUS
<1>1. FilesType
  BY DEF Init, FilesType
<1>2. RecorderType
  BY EmptySeq DEF Init, RecorderType
<1>3. ClientType
  BY DEF Init, ClientType
<1>4. CoordinatorType
  BY DEF Init, CoordinatorType
<1>5. HistoryType
  BY FaultAssumption DEF Init, HistoryType
<1>6. QED
  BY <1>1, <1>2, <1>3, <1>4, <1>5 DEF TypeOK

(* A part of the type invariant is kept by a step that leaves its          *)
(* variables alone.                                                        *)
LEMMA TypeStutter ==
  ASSUME TypeOK
  PROVE  /\ UNCHANGED <<file, nodeUp, cameras, events>> => FilesType'
         /\ UNCHANGED <<recPc, recEntry, writing, lines, notified>>
              => RecorderType'
         /\ UNCHANGED <<wsPc, batch, taken, unread, link, session>>
              => ClientType'
         /\ UNCHANGED <<wire, recordings>> => CoordinatorType'
         /\ UNCHANGED <<faults, lost>> => HistoryType'
BY DEF TypeOK, FilesType, RecorderType, ClientType, CoordinatorType,
       HistoryType

(* The lines of the queue file carry entries.                              *)
LEMMA LineProperties ==
  ASSUME TypeOK
  PROVE  /\ Len(lines) \in Nat
         /\ DOMAIN lines = 1..Len(lines)
         /\ \A i \in 1..Len(lines) : lines[i].entry \in Entry
<1>1. lines \in Seq(Line)
  BY DEF TypeOK, RecorderType
<1>2. \A i \in 1..Len(lines) : lines[i] \in Line
  BY <1>1, ElementOfSeq
<1>3. QED
  BY <1>1, <1>2, LenProperties DEF Line

(* Faults are counted up to their bound, and the history takes what Missed *)
(* names.                                                                  *)
LEMMA HistoryStep ==
  ASSUME TypeOK,
         Fault \/ UNCHANGED faults,
         \/ UNCHANGED lost
         \/ \E c \in Causes, E \in SUBSET (Entry \cup Event) :
              lost' = lost \cup Missed(E, c)
  PROVE  HistoryType'
<1>1. faults' \in 0..MaxFaults
  BY FaultAssumption DEF TypeOK, HistoryType, Fault
<1>2. lost' \in SUBSET Loss
  <2>1. ASSUME NEW c \in Causes, NEW E \in SUBSET (Entry \cup Event)
        PROVE  Missed(E, c) \in SUBSET Loss
    BY MissedType DEF Entry, Event
  <2>2. QED
    BY <2>1 DEF TypeOK, HistoryType
<1>3. QED
  BY <1>1, <1>2 DEF HistoryType

LEMMA NextType == TypeOK /\ [Next]_vars => TypeOK'
<1> SUFFICES ASSUME TypeOK, [Next]_vars PROVE TypeOK'
  OBVIOUS
<1> USE DEF nodeVars, clientVars
<1>1. ASSUME NEW g \in Segments, CreateFile(g) \/ CloseFile(g) PROVE TypeOK'
  <2>1. PICK ev \in {"create", "close"}, from \in {"absent", "open"},
             to \in {"open", "closed"} : FileEvent(g, ev, from, to)
    BY <1>1 DEF CreateFile, CloseFile
  <2>2. [seg |-> g, ev |-> ev] \in Event
    BY DEF Event
  <2>3. FilesType'
    BY <2>1, <2>2, AppendProperties DEF FileEvent, TypeOK, FilesType
  <2>4. HistoryType'
    BY <2>1, <2>2, HistoryStep DEF FileEvent, Causes
  <2>5. QED
    BY <2>1, <2>3, <2>4, TypeStutter DEF FileEvent, TypeOK
<1>2. CASE ReceiveEvent
  <2>1. Head(events) \in Event /\ Tail(events) \in Seq(Event)
    BY <1>2, HeadTailProperties DEF ReceiveEvent, TypeOK, FilesType
  <2>2. FilesType'
    BY <1>2, <2>1 DEF ReceiveEvent, TypeOK, FilesType
  <2>3. recEntry' \in Entry
    BY <1>2, <2>1 DEF ReceiveEvent, Event, Entry
  <2>4. RecorderType'
    BY <1>2, <2>3 DEF ReceiveEvent, TypeOK, RecorderType
  <2>5. QED
    BY <1>2, <2>2, <2>4, TypeStutter DEF ReceiveEvent, TypeOK
<1>3. CASE LookUpCamera
  <2>1. RecorderType'
    BY <1>3 DEF LookUpCamera, TypeOK, RecorderType
  <2>2. recEntry \in Entry
    BY <1>3 DEF LookUpCamera, TypeOK, RecorderType
  <2>3. HistoryType'
    BY <1>3, <2>2, HistoryStep DEF LookUpCamera, Causes
  <2>4. QED
    BY <1>3, <2>1, <2>3, TypeStutter DEF LookUpCamera, TypeOK
<1>4. CASE QueuePush
  <2>1. [entry |-> recEntry, linked |-> TRUE, told |-> FALSE] \in Write
    BY <1>4 DEF QueuePush, TypeOK, RecorderType, Write
  <2>2. RecorderType'
    BY <1>4, <2>1 DEF QueuePush, TypeOK, RecorderType
  <2>3. QED
    BY <1>4, <2>2, TypeStutter DEF QueuePush, TypeOK
<1>5. CASE QueuePushFails
  <2>1. RecorderType'
    BY <1>5 DEF QueuePushFails, TypeOK, RecorderType
  <2>2. recEntry \in Entry
    BY <1>5 DEF QueuePushFails, TypeOK, RecorderType
  <2>3. HistoryType'
    BY <1>5, <2>2, HistoryStep DEF QueuePushFails, Causes
  <2>4. QED
    BY <1>5, <2>1, <2>3, TypeStutter DEF QueuePushFails, TypeOK
<1>6. CASE SignalFlush
  <2>1. writing' \in SUBSET Write
    BY <1>6 DEF SignalFlush, TypeOK, RecorderType, Write
  <2>2. RecorderType'
    BY <1>6, <2>1 DEF SignalFlush, TypeOK, RecorderType
  <2>3. QED
    BY <1>6, <2>2, TypeStutter DEF SignalFlush, TypeOK
<1>7. ASSUME NEW w \in writing, WriteLands(w) PROVE TypeOK'
  <2>1. w.entry \in Entry /\ [entry |-> w.entry, late |-> w.told] \in Line
    BY DEF TypeOK, RecorderType, Write, Line
  <2>2. RecorderType'
    BY <1>7, <2>1, AppendProperties DEF WriteLands, TypeOK, RecorderType
  <2>3. HistoryType'
    BY <1>7, <2>1, HistoryStep DEF WriteLands, Causes
  <2>4. QED
    BY <1>7, <2>2, <2>3, TypeStutter DEF WriteLands, TypeOK
<1>8. ASSUME NEW w \in writing, WriteFails(w) PROVE TypeOK'
  <2>1. w.entry \in Entry
    BY DEF TypeOK, RecorderType, Write
  <2>2. RecorderType'
    BY <1>8 DEF WriteFails, TypeOK, RecorderType
  <2>3. HistoryType'
    BY <1>8, <2>1, HistoryStep DEF WriteFails, Causes
  <2>4. QED
    BY <1>8, <2>2, <2>3, TypeStutter DEF WriteFails, TypeOK
<1>9. CASE Connect
  <2>1. ClientType'
    BY <1>9 DEF Connect, TypeOK, ClientType
  <2>2. QED
    BY <1>9, <2>1, TypeStutter DEF Connect, TypeOK
<1>10. CASE DrainStale \/ WakeFlush
  <2>1. ClientType' /\ RecorderType'
    BY <1>10 DEF DrainStale, WakeFlush, TypeOK, ClientType, RecorderType
  <2>2. QED
    BY <1>10, <2>1, TypeStutter DEF DrainStale, WakeFlush, TypeOK
<1>11. CASE ReadAll
  <2>1. Len(lines) \in Nat /\ \A i \in 1..Len(lines) : lines[i].entry \in Entry
    BY LineProperties
  <2>2. [i \in 1..Len(lines) |-> lines[i].entry] \in [1..Len(lines) -> Entry]
    BY <2>1
  <2>3. [i \in 1..Len(lines) |-> lines[i].entry] \in Seq(Entry)
    BY <2>1, <2>2, SMT
  <2>4. ClientType'
    BY <1>11, <2>1, <2>3 DEF ReadAll, TypeOK, ClientType
  <2>5. QED
    BY <1>11, <2>4, TypeStutter DEF ReadAll, TypeOK
<1>12. CASE ReadFails
  <2>1. Len(lines) \in Nat
    BY LineProperties
  <2>2. ClientType' /\ HistoryType'
    BY <1>12, <2>1, HistoryStep DEF ReadFails, TypeOK, ClientType
  <2>3. QED
    BY <1>12, <2>2, TypeStutter DEF ReadFails, TypeOK
<1>13. CASE SendSegment
  <2>1. Head(batch) \in Entry /\ Tail(batch) \in Seq(Entry)
    BY <1>13, HeadTailProperties DEF SendSegment, TypeOK, ClientType
  <2>2. ClientType'
    BY <1>13, <2>1 DEF SendSegment, TypeOK, ClientType
  <2>3. CoordinatorType'
    <3>1. \A s \in Sessions : Append(wire[s], Head(batch)) \in Seq(Entry)
      BY <2>1, AppendProperties DEF TypeOK, CoordinatorType
    <3>2. QED
      BY <1>13, <3>1 DEF SendSegment, TypeOK, CoordinatorType
  <2>4. HistoryType'
    BY <1>13, <2>1, HistoryStep DEF SendSegment, Causes
  <2>5. QED
    BY <1>13, <2>2, <2>3, <2>4, TypeStutter DEF SendSegment, TypeOK
<1>14. CASE SendFails
  <2>1. ClientType'
    BY <1>14 DEF SendFails, TypeOK, ClientType
  <2>2. QED
    BY <1>14, <2>1, TypeStutter DEF SendFails, TypeOK
<1>15. CASE ClearQueue
  <2>1. writing' \in SUBSET Write
    BY <1>15 DEF ClearQueue, TypeOK, RecorderType, Write
  <2>2. RecorderType'
    BY <1>15, <2>1 DEF ClearQueue, TypeOK, RecorderType
  <2>3. ClientType'
    BY <1>15 DEF ClearQueue, TypeOK, ClientType
  <2>4. {lines[i].entry : i \in (taken + 1)..Len(lines)} \in SUBSET Entry
    <3>1. \A i \in 1..Len(lines) : lines[i].entry \in Entry
      BY LineProperties
    <3>2. \A i \in (taken + 1)..Len(lines) : i \in 1..Len(lines)
      BY DEF TypeOK, RecorderType, ClientType
    <3>3. QED
      BY <3>1, <3>2
  <2>5. HistoryType'
    BY <1>15, <2>4, HistoryStep DEF ClearQueue, Causes
  <2>6. QED
    BY <1>15, <2>2, <2>3, <2>5, TypeStutter DEF ClearQueue, TypeOK
<1>16. CASE ClearFails
  <2>1. ClientType' /\ HistoryType'
    BY <1>16, HistoryStep DEF ClearFails, TypeOK, ClientType
  <2>2. QED
    BY <1>16, <2>1, TypeStutter DEF ClearFails, TypeOK
<1>17. CASE HandleCameras
  <2>1. FilesType'
    BY <1>17 DEF HandleCameras, TypeOK, FilesType
  <2>2. QED
    BY <1>17, <2>1, TypeStutter DEF HandleCameras, TypeOK
<1>18. CASE Disconnect
  <2>1. ClientType'
    BY <1>18 DEF Disconnect, TypeOK, ClientType
  <2>2. QED
    BY <1>18, <2>1, TypeStutter DEF Disconnect, TypeOK
<1>19. ASSUME NEW s \in Sessions,
              IndexSegment(s) \/ IndexFails(s) \/ LoseWire(s)
       PROVE  TypeOK'
  <2>1. wire[s] # <<>> /\ wire[s] \in Seq(Entry)
    BY <1>19 DEF IndexSegment, IndexFails, LoseWire, TypeOK, CoordinatorType
  <2>2. Head(wire[s]) \in Entry /\ Tail(wire[s]) \in Seq(Entry)
    BY <2>1, HeadTailProperties
  <2>3. wire' \in [Sessions -> Seq(Entry)]
    BY <1>19, <2>2, EmptySeq DEF IndexSegment, IndexFails, LoseWire, TypeOK,
                                 CoordinatorType
  <2>4. recordings' \in [Segments -> {"none", "part", "whole"}]
    BY <1>19, <2>2 DEF IndexSegment, IndexFails, LoseWire, TypeOK,
                       CoordinatorType, Entry
  <2>5. Range(wire[s]) \in SUBSET Entry
    BY <2>1 DEF Range
  <2>6. HistoryType'
    BY <1>19, <2>2, <2>5, HistoryStep
       DEF IndexSegment, IndexFails, LoseWire, Causes
  <2>7. QED
    BY <1>19, <2>3, <2>4, <2>6, TypeStutter
       DEF IndexSegment, IndexFails, LoseWire, TypeOK, CoordinatorType
<1>20. CASE BreakLink
  <2>1. ClientType' /\ HistoryType'
    BY <1>20, HistoryStep DEF BreakLink, TypeOK, ClientType
  <2>2. QED
    BY <1>20, <2>1, TypeStutter DEF BreakLink, TypeOK
<1>21. CASE CrashNode
  <2>1. FilesType'
    BY <1>21, EmptySeq DEF CrashNode, TypeOK, FilesType
  <2>2. RecorderType'
    BY <1>21 DEF CrashNode, TypeOK, RecorderType
  <2>3. ClientType'
    BY <1>21 DEF CrashNode, TypeOK, ClientType
  <2>4. Volatile \in SUBSET (Entry \cup Event)
    BY DEF Volatile, TypeOK, FilesType, RecorderType, Write, Range
  <2>5. HistoryType'
    BY <1>21, <2>4, HistoryStep DEF CrashNode, Causes
  <2>6. QED
    BY <1>21, <2>1, <2>2, <2>3, <2>5, TypeStutter DEF CrashNode, TypeOK
<1>22. CASE RestartNode
  <2>1. FilesType'
    BY <1>22 DEF RestartNode, TypeOK, FilesType
  <2>2. QED
    BY <1>22, <2>1, TypeStutter DEF RestartNode, TypeOK
<1>23. CASE UNCHANGED vars
  BY <1>23, TypeStutter DEF vars, TypeOK
<1>24. QED
  BY <1>1, <1>2, <1>3, <1>4, <1>5, <1>6, <1>7, <1>8, <1>9, <1>10, <1>11, <1>12,
     <1>13, <1>14, <1>15, <1>16, <1>17, <1>18, <1>19, <1>20, <1>21, <1>22, <1>23
     DEF Next, Recorder, Client

(* The variables keep their types, whatever the number of segments,        *)
(* sessions and faults.                                                    *)
THEOREM TypeCorrect == Spec => []TypeOK
BY InitType, NextType, PTL DEF Spec

-----------------------------------------------------------------------------
(* Which steps disturb which variables                                     *)

LEMMA Frames ==
  [Next]_vars =>
    /\ \/ UNCHANGED <<file, events>>
       \/ \E g \in Segments : CreateFile(g) \/ CloseFile(g)
       \/ ReceiveEvent \/ CrashNode
    /\ \/ UNCHANGED <<recPc, recEntry>>
       \/ ReceiveEvent \/ LookUpCamera \/ QueuePush \/ QueuePushFails
       \/ SignalFlush \/ CrashNode
    /\ \/ UNCHANGED writing
       \/ QueuePush \/ SignalFlush \/ ClearQueue \/ CrashNode
       \/ \E w \in writing : WriteLands(w) \/ WriteFails(w)
    /\ \/ UNCHANGED lines
       \/ (\E w \in writing : WriteLands(w)) \/ ClearQueue
    /\ \/ UNCHANGED <<batch, taken>>
       \/ ReadAll \/ SendSegment \/ SendFails \/ ClearQueue \/ Disconnect
       \/ CrashNode
    /\ \/ UNCHANGED wire
       \/ SendSegment
       \/ \E s \in Sessions : IndexSegment(s) \/ IndexFails(s) \/ LoseWire(s)
    /\ \/ UNCHANGED recordings
       \/ \E s \in Sessions : IndexSegment(s)
    /\ lost \subseteq lost'
BY DEF Next, Recorder, Client, vars, nodeVars, clientVars, CreateFile,
   CloseFile, FileEvent, ReceiveEvent, LookUpCamera, QueuePush,
   QueuePushFails, SignalFlush, WriteLands, Connect, DrainStale, WakeFlush,
   ReadAll, SendSegment, SendFails, ClearQueue, ClearFails, HandleCameras,
   Disconnect, IndexSegment, IndexFails, LoseWire, BreakLink, CrashNode,
   RestartNode, WriteFails, ReadFails

(* Appending keeps the elements of a sequence in place and adds one.       *)
LEMMA AppendKeeps ==
  ASSUME NEW S, NEW s \in Seq(S), NEW e \in S
  PROVE  /\ DOMAIN s \subseteq DOMAIN Append(s, e)
         /\ \A i \in DOMAIN s : Append(s, e)[i] = s[i]
         /\ Len(s) + 1 \in DOMAIN Append(s, e)
         /\ Append(s, e)[Len(s) + 1] = e
         /\ DOMAIN Append(s, e) = 1..(Len(s) + 1)
BY AppendProperties, LenProperties

(* An element of a sequence is its head or an element of its tail.         *)
LEMMA HeadOrTail ==
  ASSUME NEW S, NEW s \in Seq(S), NEW i \in DOMAIN s
  PROVE  s[i] = Head(s) \/ \E j \in DOMAIN Tail(s) : Tail(s)[j] = s[i]
<1>1. s # <<>> /\ i \in 1..Len(s)
  BY LenProperties
<1>2. CASE i = 1
  BY <1>1, <1>2, HeadTailProperties
<1>3. CASE i # 1
  <2>1. i - 1 \in 1..Len(Tail(s)) /\ Tail(s)[i - 1] = s[i]
    BY <1>1, <1>3, HeadTailProperties
  <2>2. i - 1 \in DOMAIN Tail(s)
    BY <1>1, <2>1, HeadTailProperties, LenProperties
  <2>3. QED
    BY <2>1, <2>2
<1>4. QED
  BY <1>2, <1>3

-----------------------------------------------------------------------------
(* The flush sends what stands in the file                                 *)

LEMMA BatchStep ==
  ASSUME TypeOK, BatchIsPrefix, [Next]_vars
  PROVE  BatchIsPrefix'
<1> SUFFICES ASSUME wsPc' = "send"
             PROVE  /\ taken' <= Len(lines')
                    /\ Len(batch') <= taken'
                    /\ \A i \in 1..Len(batch') :
                         batch'[i] = lines'[taken' - Len(batch') + i].entry
  BY DEF BatchIsPrefix
<1> taken \in Nat /\ batch \in Seq(Entry) /\ lines \in Seq(Line)
  BY DEF TypeOK, ClientType, RecorderType
<1>1. CASE ReadAll
  <2>1. /\ lines' = lines
        /\ taken' = Len(lines)
        /\ batch' = [i \in 1..Len(lines) |-> lines[i].entry]
    BY <1>1 DEF ReadAll
  <2>2. Len(batch') = Len(lines)
    BY <2>1, LineProperties
  <2>3. QED
    BY <2>1, <2>2, LineProperties
<1>2. CASE SendSegment
  <2>1. /\ wsPc = "send" /\ batch # <<>> /\ batch' = Tail(batch)
        /\ UNCHANGED <<lines, taken>>
    BY <1>2 DEF SendSegment
  <2>2. /\ Len(batch) \in Nat /\ Len(batch') = Len(batch) - 1
        /\ \A i \in 1..Len(batch') : batch'[i] = batch[i + 1]
    BY <2>1, HeadTailProperties, LenProperties
  <2>3. QED
    BY <2>1, <2>2, LineProperties DEF BatchIsPrefix
<1>3. ASSUME NEW w \in writing, WriteLands(w) PROVE BatchIsPrefix'
  <2>1. [entry |-> w.entry, late |-> w.told] \in Line
    BY DEF TypeOK, RecorderType, Write, Line
  <2>2. /\ wsPc = "send" /\ UNCHANGED <<batch, taken>>
        /\ \/ UNCHANGED lines
           \/ lines' = Append(lines, [entry |-> w.entry, late |-> w.told])
    BY <1>3 DEF WriteLands, clientVars
  <2>3. /\ Len(lines) <= Len(lines')
        /\ \A i \in 1..Len(lines) : lines'[i] = lines[i]
    BY <2>1, <2>2, AppendProperties, LineProperties
  <2>4. Len(batch) \in Nat /\ Len(lines) \in Nat /\ Len(lines') \in Nat
    BY <2>1, <2>2, LenProperties, AppendProperties
  <2>5. \A i \in 1..Len(batch) : taken - Len(batch) + i \in 1..Len(lines)
    BY <2>2, <2>4 DEF BatchIsPrefix
  <2>6. QED
    BY <2>2, <2>3, <2>4, <2>5, SMTT(30) DEF BatchIsPrefix
<1>4. CASE UNCHANGED <<wsPc, lines, batch, taken>>
  BY <1>4 DEF BatchIsPrefix
<1>5. QED
  <2>1. \/ UNCHANGED <<wsPc, lines, batch, taken>>
        \/ ReadAll \/ SendSegment \/ \E w \in writing : WriteLands(w)
    BY DEF Next, Recorder, Client, vars, nodeVars, clientVars, CreateFile,
       CloseFile, FileEvent, ReceiveEvent, LookUpCamera, QueuePush,
       QueuePushFails, SignalFlush, Connect, DrainStale, WakeFlush,
       SendFails, ClearQueue, ClearFails, HandleCameras, Disconnect,
       IndexSegment, IndexFails, LoseWire, BreakLink, CrashNode, RestartNode,
       WriteFails, ReadFails
  <2>2. QED
    BY <1>1, <1>2, <1>3, <1>4, <2>1 DEF BatchIsPrefix

(* What the flush has still to send stands in the queue file, whatever the *)
(* recorder appends meanwhile, for any number of segments.                 *)
THEOREM BatchIsPrefixHolds == Spec => []BatchIsPrefix
<1>1. Init => BatchIsPrefix
  BY DEF Init, BatchIsPrefix
<1>2. TypeOK /\ BatchIsPrefix /\ [Next]_vars => BatchIsPrefix'
  BY BatchStep
<1>3. QED
  BY <1>1, <1>2, TypeCorrect, PTL DEF Spec

-----------------------------------------------------------------------------
(* No wake-up is lost                                                      *)

(* An append that has not been signalled is the one the recorder is about  *)
(* to signal.                                                              *)
UntoldIsCurrent ==
  \A w \in writing : ~w.told => recPc = "signal" /\ w.entry = recEntry

(* OnlyNamedLinesSleep, strengthened to the time of a flush: the lines the *)
(* flush has not read are late, about to be signalled, or signalled.       *)
NoLineForgotten ==
  (wsPc \in {"send", "idle"} /\ ~notified /\ link # "dead") =>
    \A i \in DOMAIN lines :
      NamedSleeper(i) \/ (recPc = "signal" /\ recEntry = lines[i].entry)

WakeupInv == UntoldIsCurrent /\ NoLineForgotten

LEMMA UntoldStep ==
  ASSUME TypeOK, UntoldIsCurrent, [Next]_vars
  PROVE  UntoldIsCurrent'
<1>1. CASE UNCHANGED <<writing, recPc, recEntry>>
  BY <1>1 DEF UntoldIsCurrent
<1>2. CASE QueuePush
  BY <1>2 DEF QueuePush, UntoldIsCurrent
<1>3. CASE SignalFlush
  <2>1. \A w \in writing' : w.told
    <3>1. ASSUME NEW w \in writing
          PROVE  (IF w.entry = recEntry THEN [w EXCEPT !.told = TRUE]
                                        ELSE w).told
      BY DEF UntoldIsCurrent, TypeOK, RecorderType, Write
    <3>2. QED
      BY <1>3, <3>1 DEF SignalFlush
  <2>2. QED
    BY <2>1 DEF UntoldIsCurrent
<1>4. ASSUME NEW w \in writing, WriteLands(w) \/ WriteFails(w)
      PROVE  UntoldIsCurrent'
  BY <1>4 DEF WriteLands, WriteFails, UntoldIsCurrent
<1>5. CASE ClearQueue
  <2>1. \A w \in writing : /\ [w EXCEPT !.linked = FALSE].told = w.told
                           /\ [w EXCEPT !.linked = FALSE].entry = w.entry
    BY DEF TypeOK, RecorderType, Write
  <2>2. QED
    BY <1>5, <2>1 DEF ClearQueue, UntoldIsCurrent
<1>6. CASE CrashNode
  BY <1>6 DEF CrashNode, UntoldIsCurrent
<1>7. CASE ReceiveEvent \/ LookUpCamera \/ QueuePushFails
  BY <1>7 DEF ReceiveEvent, LookUpCamera, QueuePushFails, UntoldIsCurrent
<1>8. QED
  BY <1>1, <1>2, <1>3, <1>4, <1>5, <1>6, <1>7, Frames

LEMMA ForgottenStep ==
  ASSUME TypeOK, UntoldIsCurrent, NoLineForgotten, [Next]_vars
  PROVE  NoLineForgotten'
<1> lines \in Seq(Line) /\ taken \in Nat
  BY DEF TypeOK, RecorderType, ClientType
<1> USE DEF nodeVars, clientVars, NamedSleeper
<1>1. CASE QueuePush \/ LookUpCamera \/ ReceiveEvent \/ QueuePushFails
  BY <1>1 DEF QueuePush, LookUpCamera, ReceiveEvent, QueuePushFails,
              NoLineForgotten
<1>2. CASE SignalFlush
  BY <1>2 DEF SignalFlush, NoLineForgotten
<1>3. ASSUME NEW w \in writing, WriteLands(w) PROVE NoLineForgotten'
  <2>1. CASE w.linked
    <3> DEFINE l == [entry |-> w.entry, late |-> w.told]
    <3>1. l \in Line
      BY DEF TypeOK, RecorderType, Write, Line
    <3>2. lines' = Append(lines, l)
      BY <1>3, <2>1 DEF WriteLands
    <3>3. UNCHANGED <<wsPc, notified, link, taken, unread, recPc, recEntry>>
      BY <1>3 DEF WriteLands
    <3>4. l.late \/ (recPc = "signal" /\ recEntry = l.entry)
      BY DEF UntoldIsCurrent
    <3>5. /\ DOMAIN lines' = 1..(Len(lines) + 1)
          /\ \A i \in DOMAIN lines : lines'[i] = lines[i]
          /\ lines'[Len(lines) + 1] = l
      BY <3>1, <3>2, AppendKeeps
    <3>6. \A i \in DOMAIN lines' : i \in DOMAIN lines \/ lines'[i] = l
      BY <3>5, LineProperties
    <3>7. QED
      BY <3>3, <3>4, <3>5, <3>6 DEF NoLineForgotten
  <2>2. CASE ~w.linked
    BY <1>3, <2>2 DEF WriteLands, NoLineForgotten
  <2>3. QED
    BY <2>1, <2>2
<1>4. CASE Connect \/ DrainStale \/ WakeFlush \/ SendFails \/ Disconnect
           \/ CrashNode
  BY <1>4 DEF Connect, DrainStale, WakeFlush, SendFails, Disconnect,
              CrashNode, NoLineForgotten
<1>5. CASE ReadAll
  <2>1. taken' = Len(lines) /\ lines' = lines
    BY <1>5 DEF ReadAll
  <2>2. QED
    BY <2>1, LineProperties DEF NoLineForgotten
<1>6. CASE ReadFails
  <2>1. unread' = Len(lines) /\ lines' = lines
    BY <1>6 DEF ReadFails
  <2>2. QED
    BY <2>1, LineProperties DEF NoLineForgotten
<1>7. CASE ClearQueue
  <2>1. lines' = <<>>
    BY <1>7 DEF ClearQueue
  <2>2. QED
    BY <2>1 DEF NoLineForgotten
<1>8. CASE SendSegment \/ ClearFails \/ HandleCameras \/ BreakLink
  BY <1>8 DEF SendSegment, ClearFails, HandleCameras, BreakLink,
              NoLineForgotten
<1>9. CASE UNCHANGED <<wsPc, notified, link, lines, taken, unread, recPc, recEntry>>
  BY <1>9 DEF NoLineForgotten
<1>10. QED
  <2>1. \/ UNCHANGED <<wsPc, notified, link, lines, taken, unread, recPc, recEntry>>
        \/ Recorder \/ QueuePushFails \/ (\E w \in writing : WriteLands(w))
        \/ Client \/ ReadFails \/ ClearFails \/ HandleCameras \/ BreakLink
        \/ CrashNode
    BY DEF Next, vars, CreateFile, CloseFile, FileEvent, WriteFails,
           IndexSegment, IndexFails, LoseWire, RestartNode
  <2>2. QED
    BY <1>1, <1>2, <1>3, <1>4, <1>5, <1>6, <1>7, <1>8, <1>9, <2>1
       DEF Recorder, Client

(* A line of the queue file is never forgotten by an idle client, unless   *)
(* it reached the file after its own signal was consumed, stood there at a *)
(* flush that could not read the file, or was sent but not removed, for    *)
(* any number of segments and faults.                                      *)
THEOREM NoWakeupLost == Spec => []OnlyNamedLinesSleep
<1>1. Init => WakeupInv
  BY DEF Init, WakeupInv, UntoldIsCurrent, NoLineForgotten
<1>2. TypeOK /\ WakeupInv /\ [Next]_vars => WakeupInv'
  BY UntoldStep, ForgottenStep DEF WakeupInv
<1>3. WakeupInv => OnlyNamedLinesSleep
  BY DEF WakeupInv, NoLineForgotten, OnlyNamedLinesSleep
<1>4. QED
  BY <1>1, <1>2, <1>3, TypeCorrect, PTL DEF Spec

-----------------------------------------------------------------------------
(* Every finished segment is accounted for                                 *)

(* A new connection takes a number that is within the bound: every earlier *)
(* one has cost a fault.                                                   *)
SessionBound ==
  /\ session <= faults + (IF link = "up" THEN 1 ELSE 0)
  /\ link = "up" => session >= 1
  /\ wsPc = "down" => link = "down"

(* During a flush, the lines that are no longer in the batch have been     *)
(* delivered, or are counted as lost copies: those clear() may remove.     *)
SentLinesDelivered ==
  wsPc = "send" =>
    \A i \in 1..(taken - Len(batch)) :
      lines[i].entry.ev = "close" => Delivered(lines[i].entry.seg)

AccountInv == /\ SessionBound
              /\ BatchIsPrefix
              /\ SentLinesDelivered
              /\ EverySegmentAccounted

LEMMA SessionStep ==
  ASSUME TypeOK, SessionBound, [Next]_vars
  PROVE  SessionBound'
<1> session \in Nat /\ faults \in Nat
  BY FaultAssumption DEF TypeOK, ClientType, HistoryType
<1>1. CASE Connect
  BY <1>1 DEF Connect, SessionBound
<1>2. CASE SendFails \/ Disconnect
  BY <1>2 DEF SendFails, Disconnect, SessionBound
<1>3. CASE BreakLink \/ CrashNode
  BY <1>3 DEF BreakLink, CrashNode, Fault, SessionBound, clientVars
<1>4. CASE UNCHANGED <<session, link>> /\ (wsPc' = "down" => wsPc = "down")
           /\ (faults' = faults \/ faults' = faults + 1)
  BY <1>4 DEF SessionBound
<1>5. QED
  <2>1. \/ Connect \/ SendFails \/ Disconnect \/ BreakLink \/ CrashNode
        \/ /\ UNCHANGED <<session, link>>
           /\ wsPc' = "down" => wsPc = "down"
           /\ faults' = faults \/ faults' = faults + 1
    BY DEF Next, Recorder, Client, vars, nodeVars, clientVars, CreateFile,
       CloseFile, FileEvent, ReceiveEvent, LookUpCamera, QueuePush,
       QueuePushFails, SignalFlush, WriteLands, DrainStale, WakeFlush,
       ReadAll, SendSegment, ClearQueue, ClearFails, HandleCameras,
       IndexSegment, IndexFails, LoseWire, RestartNode, WriteFails,
       ReadFails, Fault
  <2>2. QED
    BY <1>1, <1>2, <1>3, <1>4, <2>1

LEMMA SessionInSessions ==
  ASSUME TypeOK, SessionBound, link = "up"
  PROVE  session \in Sessions
BY FaultAssumption DEF TypeOK, ClientType, HistoryType, SessionBound, Sessions

(* An entry made for the closing of a file is in its set of close entries. *)
LEMMA CloseEntry ==
  ASSUME NEW e \in Entry, NEW g
  PROVE  e \in CloseEntries(g) <=> e.ev = "close" /\ e.seg = g
BY DEF Entry, CloseEntries

(* A delivered segment stays delivered: what leaves a connection is        *)
(* indexed or counted as lost.                                             *)
LEMMA DeliveredStays ==
  ASSUME TypeOK, NEW g \in Segments, Delivered(g), [Next]_vars
  PROVE  Delivered(g)'
<1>1. CASE CopyLost(g)
  <2>1. lost \subseteq lost'
    BY Frames
  <2>2. QED
    BY <1>1, <2>1 DEF CopyLost, Delivered
<1>2. CASE Indexed(g)
  <2>1. recordings'[g] # "none"
    <3>1. CASE UNCHANGED recordings
      BY <1>2, <3>1 DEF Indexed
    <3>2. ASSUME NEW s \in Sessions, IndexSegment(s) PROVE recordings'[g] # "none"
      BY <1>2, <3>2 DEF Indexed, IndexSegment, TypeOK, CoordinatorType
    <3>3. QED
      BY <3>1, <3>2, Frames
  <2>2. QED
    BY <2>1 DEF Indexed, Delivered
<1>3. CASE OnWire(g)
  <2> PICK s \in Sessions :
         \E j \in DOMAIN wire[s] : wire[s][j] \in CloseEntries(g)
    BY <1>3 DEF OnWire
  <2>1. PICK i \in DOMAIN wire[s] : wire[s][i] \in CloseEntries(g)
    OBVIOUS
  <2>2. \A t \in Sessions : wire[t] \in Seq(Entry)
    BY DEF TypeOK, CoordinatorType
  <2>3. wire[s][i].ev = "close" /\ wire[s][i].seg = g /\ wire[s][i] \in Entry
    BY <2>1, <2>2, CloseEntry, ElementOfSeq, LenProperties
  <2>4. CASE UNCHANGED wire
    BY <2>1, <2>4 DEF OnWire, Delivered
  <2>5. CASE SendSegment
    <3>1. Head(batch) \in Entry
      BY <2>5, HeadTailProperties DEF SendSegment, TypeOK, ClientType
    <3>2. \/ wire'[s] = wire[s]
          \/ wire'[s] = Append(wire[s], Head(batch))
      BY <2>5 DEF SendSegment, TypeOK, CoordinatorType
    <3>3. i \in DOMAIN wire'[s] /\ wire'[s][i] = wire[s][i]
      BY <2>1, <2>2, <3>1, <3>2, AppendKeeps
    <3>4. QED
      BY <2>1, <3>3 DEF OnWire, Delivered
  <2>6. ASSUME NEW t \in Sessions, t # s,
               IndexSegment(t) \/ IndexFails(t) \/ LoseWire(t)
        PROVE  Delivered(g)'
    <3>1. wire'[s] = wire[s]
      BY <2>6 DEF IndexSegment, IndexFails, LoseWire, TypeOK, CoordinatorType
    <3>2. QED
      BY <2>1, <3>1 DEF OnWire, Delivered
  <2>7. CASE IndexSegment(s) \/ IndexFails(s)
    <3>1. wire'[s] = Tail(wire[s])
      BY <2>7 DEF IndexSegment, IndexFails, TypeOK, CoordinatorType
    <3>2. CASE \E j \in DOMAIN Tail(wire[s]) : Tail(wire[s])[j] = wire[s][i]
      BY <2>1, <3>1, <3>2 DEF OnWire, Delivered
    <3>3. CASE wire[s][i] = Head(wire[s])
      <4>1. CASE IndexSegment(s)
        <5>1. recordings'[g] # "none"
          BY <2>3, <3>3, <4>1 DEF IndexSegment, TypeOK, CoordinatorType, Entry
        <5>2. QED
          BY <5>1 DEF Indexed, Delivered
      <4>2. CASE IndexFails(s)
        <5>1. \E l \in Missed({wire[s][i]}, "database") : l.seg = g
          BY <2>3, MissedMember
        <5>2. QED
          BY <3>3, <4>2, <5>1 DEF IndexFails, CopyLost, Delivered
      <4>3. QED
        BY <2>7, <4>1, <4>2
    <3>4. QED
      BY <2>2, <3>2, <3>3, HeadOrTail
  <2>8. CASE LoseWire(s)
    <3>1. wire[s][i] \in Range(wire[s])
      BY <2>1 DEF Range
    <3>2. \E l \in lost' : l.seg = g
      BY <2>3, <2>8, <3>1, MissedMember DEF LoseWire
    <3>3. QED
      BY <3>2 DEF CopyLost, Delivered
  <2>9. QED
    BY <2>4, <2>5, <2>6, <2>7, <2>8, Frames
<1>4. QED
  BY <1>1, <1>2, <1>3 DEF Delivered

(* An entry handed to the socket is delivered, or counted as lost.         *)
LEMMA SentIsDelivered ==
  ASSUME TypeOK, SessionBound, SendSegment, NEW g \in Segments,
         Head(batch).ev = "close", Head(batch).seg = g
  PROVE  Delivered(g)'
<1>1. Head(batch) \in Entry
  BY HeadTailProperties DEF SendSegment, TypeOK, ClientType
<1>2. Head(batch) \in CloseEntries(g)
  BY <1>1, CloseEntry
<1>3. CASE link = "up"
  <2>1. session \in Sessions
    BY <1>3, SessionInSessions
  <2>2. /\ wire[session] \in Seq(Entry)
        /\ wire'[session] = Append(wire[session], Head(batch))
    BY <1>3, <2>1 DEF SendSegment, TypeOK, CoordinatorType
  <2>3. \E i \in DOMAIN wire'[session] : wire'[session][i] = Head(batch)
    BY <1>1, <2>2, AppendKeeps
  <2>4. \E s \in Sessions :
          \E i \in DOMAIN wire'[s] : wire'[s][i] \in CloseEntries(g)
    BY <1>2, <2>1, <2>3
  <2>5. QED
    BY <2>4 DEF OnWire, Delivered, CloseEntries
<1>4. CASE link # "up"
  <2>1. \E l \in Missed({Head(batch)}, "link") : l.seg = g
    BY MissedMember
  <2>2. QED
    BY <1>4, <2>1 DEF SendSegment, CopyLost, Delivered
<1>5. QED
  BY <1>3, <1>4

LEMMA SentLinesStep ==
  ASSUME TypeOK, SessionBound, BatchIsPrefix, SentLinesDelivered, [Next]_vars
  PROVE  SentLinesDelivered'
<1> SUFFICES ASSUME wsPc' = "send", NEW i \in 1..(taken' - Len(batch')),
                    lines'[i].entry.ev = "close",
                    NEW g, g = lines'[i].entry.seg
             PROVE  Delivered(g)'
  BY DEF SentLinesDelivered, Delivered, OnWire, Indexed, CopyLost, CloseEntries
<1> /\ taken \in Nat /\ batch \in Seq(Entry) /\ lines \in Seq(Line)
    /\ Len(batch) \in Nat /\ Len(lines) \in Nat
  BY LenProperties DEF TypeOK, ClientType, RecorderType
<1>1. CASE wsPc = "send" /\ UNCHANGED <<batch, taken>>
           /\ \A j \in 1..Len(lines) : lines'[j] = lines[j]
  <2>1. i \in 1..(taken - Len(batch)) /\ lines'[i] = lines[i]
    BY <1>1 DEF BatchIsPrefix
  <2>2. lines[i].entry \in Entry
    BY <1>1, <2>1, LineProperties DEF BatchIsPrefix
  <2>3. Delivered(g) /\ g \in Segments
    BY <1>1, <2>1, <2>2 DEF SentLinesDelivered, Entry
  <2>4. QED
    BY <2>3, DeliveredStays
<1>2. CASE ReadAll
  <2>1. taken' = Len(lines) /\ Len(batch') = Len(lines)
    BY <1>2 DEF ReadAll
  <2>2. QED
    BY <2>1
<1>3. CASE SendSegment
  <2>1. /\ wsPc = "send" /\ batch # <<>> /\ batch' = Tail(batch)
        /\ UNCHANGED <<lines, taken>>
    BY <1>3 DEF SendSegment
  <2>2. Len(batch') = Len(batch) - 1 /\ Len(batch) >= 1
    BY <2>1, HeadTailProperties, EmptySeq
  <2>3. CASE i = taken - Len(batch) + 1
    <3>1. batch[1] = lines[i].entry /\ batch[1] = Head(batch)
      BY <2>1, <2>2, <2>3, HeadTailProperties DEF BatchIsPrefix
    <3>2. Head(batch) \in Entry
      BY <2>1, HeadTailProperties
    <3>3. QED
      BY <1>3, <2>1, <3>1, <3>2, SentIsDelivered DEF Entry
  <2>4. CASE i # taken - Len(batch) + 1
    <3>1. i \in 1..(taken - Len(batch)) /\ i \in 1..Len(lines)
      <4>1. taken' = taken /\ taken <= Len(lines) /\ Len(batch) <= taken
        BY <2>1 DEF BatchIsPrefix
      <4>2. QED
        BY <2>2, <2>4, <4>1
    <3>2. Delivered(g) /\ g \in Segments
      BY <2>1, <3>1, LineProperties DEF SentLinesDelivered, Entry
    <3>3. QED
      BY <3>2, DeliveredStays
  <2>5. QED
    BY <2>3, <2>4
<1>4. QED
  <2>1. ASSUME NEW w \in writing, WriteLands(w), wsPc = "send"
        PROVE  UNCHANGED <<batch, taken>>
               /\ \A j \in 1..Len(lines) : lines'[j] = lines[j]
    <3> DEFINE l == [entry |-> w.entry, late |-> w.told]
    <3>1. l \in Line
      BY DEF TypeOK, RecorderType, Write, Line
    <3>2. UNCHANGED <<batch, taken>> /\ (lines' = lines \/ lines' = Append(lines, l))
      BY <2>1 DEF WriteLands, clientVars
    <3> HIDE DEF l
    <3>3. QED
      BY <3>1, <3>2, AppendKeeps, LineProperties
  <2>2. \/ ReadAll \/ SendSegment
        \/ wsPc = "send" /\ \E w \in writing : WriteLands(w)
        \/ wsPc = "send" /\ UNCHANGED <<batch, taken, lines>>
    BY DEF Next, Recorder, Client, vars, nodeVars, clientVars, CreateFile,
       CloseFile, FileEvent, ReceiveEvent, LookUpCamera, QueuePush,
       QueuePushFails, SignalFlush, WriteLands, Connect, DrainStale, WakeFlush,
       SendFails, ClearQueue, ClearFails, HandleCameras, Disconnect,
       IndexSegment, IndexFails, LoseWire, BreakLink, CrashNode, RestartNode,
       WriteFails, ReadFails
  <2>3. QED
    BY <1>1, <1>2, <1>3, <2>1, <2>2

(* Where each stage of a finished segment leads in one step.               *)
LEMMA WatchedStep ==
  ASSUME TypeOK, NEW g \in Segments, Watched(g), [Next]_vars
  PROVE  Watched(g)' \/ InRecorder(g)' \/ CopyLost(g)'
<1> DEFINE ev == [seg |-> g, ev |-> "close"]
<1> events \in Seq(Event)
  BY DEF TypeOK, FilesType
<1>1. PICK i \in DOMAIN events : events[i] = ev
  BY DEF Watched, Range
<1>2. CASE UNCHANGED events
  BY <1>2 DEF Watched
<1>3. ASSUME NEW h \in Segments, CreateFile(h) \/ CloseFile(h) PROVE Watched(g)'
  <2>1. PICK e \in Event : events' = Append(events, e) \/ events' = events
    BY <1>3 DEF CreateFile, CloseFile, FileEvent, Event
  <2>2. i \in DOMAIN events' /\ events'[i] = ev
    BY <1>1, <2>1, AppendKeeps
  <2>3. QED
    BY <2>2 DEF Watched, Range
<1>4. CASE ReceiveEvent
  <2>1. CASE \E j \in DOMAIN Tail(events) : Tail(events)[j] = events[i]
    BY <1>1, <1>4, <2>1 DEF ReceiveEvent, Watched, Range
  <2>2. CASE events[i] = Head(events)
    <3>1. /\ recPc' = "lookup"
          /\ recEntry' = [seg |-> g, ev |-> "close",
                          size |-> IF file[g] = "closed" THEN "whole" ELSE "part"]
      BY <1>1, <1>4, <2>2 DEF ReceiveEvent
    <3>2. QED
      BY <3>1 DEF InRecorder, CloseEntries
  <2>3. QED
    BY <1>1, <2>1, <2>2, HeadOrTail
<1>5. CASE CrashNode
  <2>1. ev \in Volatile
    BY <1>1 DEF Range, Volatile
  <2>2. \E l \in lost' : l.seg = g
    BY <1>5, <2>1, CrashLoses
  <2>3. QED
    BY <2>2 DEF CopyLost
<1>6. QED
  BY <1>2, <1>3, <1>4, <1>5, Frames

LEMMA RecorderStep ==
  ASSUME TypeOK, NEW g \in Segments, InRecorder(g), [Next]_vars
  PROVE  InRecorder(g)' \/ BeingWritten(g)' \/ CopyLost(g)'
<1>1. /\ recPc \in {"lookup", "push"} /\ recEntry \in CloseEntries(g)
      /\ recEntry \in Entry /\ recEntry.ev = "close" /\ recEntry.seg = g
  BY CloseEntry DEF InRecorder, TypeOK, RecorderType
<1>2. CASE UNCHANGED <<recPc, recEntry>>
  BY <1>2 DEF InRecorder, CloseEntries
<1>3. CASE LookUpCamera
  <2>1. \E l \in Missed({recEntry}, "unknown") : l.seg = g
    BY <1>1, MissedMember
  <2>2. QED
    BY <1>1, <1>3, <2>1 DEF LookUpCamera, InRecorder, CopyLost, CloseEntries
<1>4. CASE QueuePush
  <2>1. [entry |-> recEntry, linked |-> TRUE, told |-> FALSE] \in writing'
    BY <1>4 DEF QueuePush
  <2>2. \E w \in writing' : w.entry \in CloseEntries(g)
    BY <1>1, <2>1
  <2>3. QED
    BY <2>2 DEF BeingWritten, CloseEntries
<1>5. CASE QueuePushFails
  <2>1. \E l \in Missed({recEntry}, "unqueued") : l.seg = g
    BY <1>1, MissedMember
  <2>2. QED
    BY <1>5, <2>1 DEF QueuePushFails, CopyLost
<1>6. CASE CrashNode
  <2>1. \E l \in lost' : l.seg = g
    BY <1>1, <1>6, CrashLoses, NoEntryAssumption DEF Volatile
  <2>2. QED
    BY <2>1 DEF CopyLost
<1>7. CASE ReceiveEvent \/ SignalFlush
  BY <1>1, <1>7 DEF ReceiveEvent, SignalFlush
<1>8. QED
  BY <1>2, <1>3, <1>4, <1>5, <1>6, <1>7, Frames

LEMMA WritingStep ==
  ASSUME TypeOK, NEW g \in Segments, BeingWritten(g), [Next]_vars
  PROVE  BeingWritten(g)' \/ Queued(g)' \/ CopyLost(g)'
<1>1. PICK w \in writing : w.entry \in CloseEntries(g)
  BY DEF BeingWritten
<1>2. w \in Write /\ w.entry \in Entry /\ w.entry.ev = "close" /\ w.entry.seg = g
  BY <1>1, CloseEntry DEF TypeOK, RecorderType, Write
<1>3. CASE \E v \in writing' : v.entry = w.entry
  <2>1. \E v \in writing' : v.entry \in CloseEntries(g)
    BY <1>1, <1>3
  <2>2. QED
    BY <2>1 DEF BeingWritten, CloseEntries
<1>4. CASE UNCHANGED writing \/ QueuePush
  BY <1>3, <1>4 DEF QueuePush
<1>5. CASE SignalFlush
  <2>1. (IF w.entry = recEntry THEN [w EXCEPT !.told = TRUE] ELSE w) \in writing'
    BY <1>5 DEF SignalFlush
  <2>2. (IF w.entry = recEntry THEN [w EXCEPT !.told = TRUE] ELSE w).entry
          = w.entry
    BY <1>2 DEF Write
  <2>3. QED
    BY <1>3, <2>1, <2>2
<1>6. CASE ClearQueue
  <2>1. [w EXCEPT !.linked = FALSE] \in writing'
    BY <1>6 DEF ClearQueue
  <2>2. [w EXCEPT !.linked = FALSE].entry = w.entry
    BY <1>2 DEF Write
  <2>3. QED
    BY <1>3, <2>1, <2>2
<1>7. ASSUME NEW v \in writing, v # w, WriteLands(v) PROVE w \in writing'
  BY <1>7 DEF WriteLands
<1>8. CASE WriteLands(w)
  <2>1. CASE w.linked
    <3> DEFINE l == [entry |-> w.entry, late |-> w.told]
    <3>1. l \in Line /\ lines \in Seq(Line)
      BY <1>2 DEF Line, Write, TypeOK, RecorderType
    <3>2. lines' = Append(lines, l)
      BY <1>8, <2>1 DEF WriteLands
    <3>3. \E i \in DOMAIN lines' : lines'[i] = l
      BY <3>1, <3>2, AppendKeeps
    <3>4. \E i \in DOMAIN lines' : lines'[i].entry \in CloseEntries(g)
      BY <1>1, <3>3
    <3>5. QED
      BY <3>4 DEF Queued, CloseEntries
  <2>2. CASE ~w.linked
    <3>1. \E l \in Missed({w.entry}, "overtaken") : l.seg = g
      BY <1>2, MissedMember
    <3>2. QED
      BY <1>8, <2>2, <3>1 DEF WriteLands, CopyLost
  <2>3. QED
    BY <2>1, <2>2
<1>9. ASSUME NEW v \in writing, WriteFails(v)
      PROVE  BeingWritten(g)' \/ Queued(g)' \/ CopyLost(g)'
  <2>1. CASE v # w
    <3>1. w \in writing'
      BY <1>9, <2>1 DEF WriteFails
    <3>2. QED
      BY <1>3, <3>1
  <2>2. CASE v = w
    <3>1. \E l \in Missed({w.entry}, "unqueued") : l.seg = g
      BY <1>2, MissedMember
    <3>2. QED
      BY <1>9, <2>2, <3>1 DEF WriteFails, CopyLost
  <2>3. QED
    BY <2>1, <2>2
<1>10. CASE CrashNode
  <2>1. w.entry \in Volatile
    BY DEF Volatile
  <2>2. \E l \in lost' : l.seg = g
    BY <1>2, <1>10, <2>1, CrashLoses
  <2>3. QED
    BY <2>2 DEF CopyLost
<1>11. QED
  BY <1>3, <1>4, <1>5, <1>6, <1>7, <1>8, <1>9, <1>10, Frames

(* The queue file loses its lines in one way only, clear(), and there each *)
(* of them has been sent or is counted as overtaken.                       *)
LEMMA QueuedStep ==
  ASSUME TypeOK, BatchIsPrefix, SentLinesDelivered, NEW g \in Segments,
         Queued(g), [Next]_vars
  PROVE  Queued(g)' \/ Delivered(g)'
<1> lines \in Seq(Line) /\ taken \in Nat
  BY DEF TypeOK, RecorderType, ClientType
<1>1. PICK i \in DOMAIN lines : lines[i].entry \in CloseEntries(g)
  BY DEF Queued
<1>2. i \in 1..Len(lines) /\ lines[i].entry.ev = "close" /\ lines[i].entry.seg = g
  BY <1>1, CloseEntry, LineProperties
<1>3. CASE UNCHANGED lines
  BY <1>1, <1>3 DEF Queued, CloseEntries
<1>4. ASSUME NEW w \in writing, WriteLands(w) PROVE Queued(g)'
  <2> DEFINE l == [entry |-> w.entry, late |-> w.told]
  <2>1. l \in Line
    BY DEF TypeOK, RecorderType, Write, Line
  <2>2. lines' = lines \/ lines' = Append(lines, l)
    BY <1>4 DEF WriteLands
  <2>3. i \in DOMAIN lines' /\ lines'[i] = lines[i]
    BY <1>1, <2>1, <2>2, AppendKeeps
  <2>4. QED
    BY <1>1, <2>3 DEF Queued, CloseEntries
<1>5. CASE ClearQueue
  <2>1. CASE i <= taken
    <3>1. i \in 1..(taken - Len(batch))
      BY <1>2, <1>5, <2>1, EmptySeq DEF ClearQueue
    <3>2. Delivered(g)
      BY <1>2, <1>5, <3>1 DEF ClearQueue, SentLinesDelivered
    <3>3. QED
      BY <3>2, DeliveredStays
  <2>2. CASE ~(i <= taken)
    <3> DEFINE E == {lines[j].entry : j \in (taken + 1)..Len(lines)}
    <3>1. lines[i].entry \in E
      BY <1>2, <2>2, LineProperties
    <3>2. lost' = lost \cup Missed(E, "overtaken")
      BY <1>5 DEF ClearQueue
    <3> HIDE DEF E
    <3>3. \E l \in Missed(E, "overtaken") : l.seg = g
      BY <1>2, <3>1, MissedMember
    <3>4. QED
      BY <3>2, <3>3 DEF CopyLost, Delivered
  <2>3. QED
    BY <2>1, <2>2
<1>6. QED
  BY <1>3, <1>4, <1>5, Frames

LEMMA AccountStep ==
  ASSUME TypeOK, AccountInv, [Next]_vars
  PROVE  EverySegmentAccounted'
<1> DEFINE Accounted(g) == \/ Watched(g) \/ InRecorder(g) \/ BeingWritten(g)
                          \/ Queued(g) \/ Delivered(g)
<1>1. ASSUME NEW g \in Segments, file'[g] = "closed" PROVE Accounted(g)'
  <2>1. CASE file[g] = "closed"
    <3>1. Accounted(g)
      BY <2>1 DEF AccountInv, EverySegmentAccounted
    <3>2. CopyLost(g)' => Delivered(g)'
      BY DEF Delivered
    <3>3. QED
      BY <3>1, <3>2, WatchedStep, RecorderStep, WritingStep, QueuedStep,
         DeliveredStays DEF AccountInv
  <2>2. CASE file[g] # "closed"
    <3>1. CloseFile(g)
      BY <1>1, <2>2, Frames
         DEF CreateFile, CloseFile, FileEvent, TypeOK, FilesType,
             ReceiveEvent, CrashNode
    <3>2. CASE nodeUp
      <4> DEFINE ev == [seg |-> g, ev |-> "close"]
      <4>1. ev \in Event /\ events \in Seq(Event) /\ events' = Append(events, ev)
        BY <3>1, <3>2 DEF CloseFile, FileEvent, Event, TypeOK, FilesType
      <4>2. ev \in Range(events')
        BY <4>1, AppendKeeps DEF Range
      <4>3. QED
        BY <4>2 DEF Watched
    <3>3. CASE ~nodeUp
      <4> DEFINE ev == [seg |-> g, ev |-> "close"]
      <4>1. \E l \in Missed({ev}, "unwatched") : l.seg = ev.seg
        <5>1. ev \in {ev} /\ ev.ev = "close"
          OBVIOUS
        <5> HIDE DEF ev
        <5>2. QED
          BY <5>1, MissedMember
      <4>2. QED
        BY <3>1, <3>3, <4>1 DEF CloseFile, FileEvent, CopyLost, Delivered
    <3>4. QED
      BY <3>2, <3>3
  <2>3. QED
    BY <2>1, <2>2
<1>2. QED
  BY <1>1 DEF EverySegmentAccounted, Watched, InRecorder, BeingWritten, Queued,
              Delivered, OnWire, Indexed, CopyLost, CloseEntries

(* A finished segment is on its way, has its row, or is lost in one of the *)
(* named ways, for any number of segments, connections and faults: no      *)
(* interleaving of recorder, flush, retries and crashes loses it otherwise.*)
THEOREM NothingLostUnaccounted == Spec => []EverySegmentAccounted
<1>1. Init => AccountInv
  BY DEF Init, AccountInv, SessionBound, BatchIsPrefix, SentLinesDelivered,
         EverySegmentAccounted
<1>2. TypeOK /\ AccountInv /\ [Next]_vars => AccountInv'
  BY SessionStep, BatchStep, SentLinesStep, AccountStep DEF AccountInv
<1>3. AccountInv => EverySegmentAccounted
  BY DEF AccountInv
<1>4. QED
  BY <1>1, <1>2, <1>3, TypeCorrect, PTL DEF Spec

-----------------------------------------------------------------------------
(* The abstract index is implemented                                       *)

(* Truthful entries speak of a file that exists, and state the final size  *)
(* only of a closed one.                                                   *)
Started == {e \in Event : file[e.seg] # "absent"}
Truthful == {e \in Entry : /\ file[e.seg] # "absent"
                           /\ e.size = "whole" => file[e.seg] = "closed"}
TruthfulLine == {l \in Line : l.entry \in Truthful}

(* Only truthful entries travel.                                           *)
EntriesTruthful ==
  /\ events \in Seq(Started)
  /\ recPc # "wait" => recEntry \in Truthful
  /\ \A w \in writing : w.entry \in Truthful
  /\ lines \in Seq(TruthfulLine)
  /\ batch \in Seq(Truthful)
  /\ wire \in [Sessions -> Seq(Truthful)]

LEMMA FilesOnlyProgress ==
  ASSUME TypeOK, [Next]_vars
  PROVE  \A g \in Segments : /\ file[g] # "absent" => file'[g] # "absent"
                             /\ file[g] = "closed" => file'[g] = "closed"
BY Frames DEF CreateFile, CloseFile, FileEvent, ReceiveEvent, CrashNode, TypeOK,
              FilesType

LEMMA TruthfulGrows ==
  ASSUME TypeOK, [Next]_vars
  PROVE  /\ Truthful \subseteq Truthful'
         /\ \A s \in Seq(Started) : s \in Seq(Started')
         /\ \A s \in Seq(Truthful) : s \in Seq(Truthful')
         /\ \A s \in Seq(TruthfulLine) : s \in Seq(TruthfulLine')
<1>1. Truthful \subseteq Truthful' /\ Started \subseteq Started'
  BY FilesOnlyProgress DEF Truthful, Started, Entry, Event
<1>2. TruthfulLine \subseteq TruthfulLine'
  BY <1>1 DEF TruthfulLine
<1>3. QED
  BY <1>1, <1>2, SeqMonotonic

LEMMA TruthStep ==
  ASSUME TypeOK, EntriesTruthful, [Next]_vars
  PROVE  EntriesTruthful'
<1> /\ events \in Seq(Started) /\ lines \in Seq(TruthfulLine)
    /\ batch \in Seq(Truthful) /\ wire \in [Sessions -> Seq(Truthful)]
  BY DEF EntriesTruthful
<1>1. events' \in Seq(Started')
  <2>1. CASE UNCHANGED events
    BY <2>1, TruthfulGrows
  <2>2. ASSUME NEW g \in Segments, CreateFile(g) \/ CloseFile(g)
        PROVE  events' \in Seq(Started')
    <3>1. PICK e \in Started' : events' = Append(events, e) \/ events' = events
      BY <2>2 DEF CreateFile, CloseFile, FileEvent, Started, Event, TypeOK,
                  FilesType
    <3>2. events \in Seq(Started')
      BY TruthfulGrows
    <3>3. QED
      BY <3>1, <3>2, AppendProperties, SMTT(30)
  <2>3. CASE ReceiveEvent
    <3>1. Tail(events) \in Seq(Started)
      BY <2>3, HeadTailProperties DEF ReceiveEvent
    <3>2. QED
      BY <2>3, <3>1, TruthfulGrows DEF ReceiveEvent
  <2>4. CASE CrashNode
    BY <2>4, EmptySeq DEF CrashNode
  <2>5. QED
    BY <2>1, <2>2, <2>3, <2>4, Frames
<1>2. recPc' # "wait" => recEntry' \in Truthful'
  <2>1. CASE UNCHANGED <<recPc, recEntry>>
    BY <2>1, TruthfulGrows DEF EntriesTruthful
  <2>2. CASE ReceiveEvent
    <3>1. Head(events) \in Started
      BY <2>2, HeadTailProperties DEF ReceiveEvent
    <3>2. recEntry' \in Truthful
      BY <2>2, <3>1 DEF ReceiveEvent, Truthful, Started, Entry, Event
    <3>3. QED
      BY <3>2, TruthfulGrows
  <2>3. CASE LookUpCamera \/ QueuePush
    BY <2>3, TruthfulGrows DEF LookUpCamera, QueuePush, EntriesTruthful
  <2>4. CASE QueuePushFails \/ SignalFlush \/ CrashNode
    BY <2>4 DEF QueuePushFails, SignalFlush, CrashNode
  <2>5. QED
    BY <2>1, <2>2, <2>3, <2>4, Frames
<1>3. \A w \in writing' : w.entry \in Truthful'
  <2>1. \A w \in writing : /\ w.entry \in Truthful'
                           /\ [w EXCEPT !.told = TRUE].entry = w.entry
                           /\ [w EXCEPT !.linked = FALSE].entry = w.entry
    BY TruthfulGrows DEF EntriesTruthful, TypeOK, RecorderType, Write
  <2>2. CASE QueuePush
    BY <2>1, <2>2, TruthfulGrows DEF QueuePush, EntriesTruthful
  <2>3. CASE SignalFlush
    BY <2>1, <2>3 DEF SignalFlush
  <2>4. CASE ClearQueue
    BY <2>1, <2>4 DEF ClearQueue
  <2>5. CASE UNCHANGED writing \/ CrashNode
             \/ \E w \in writing : WriteLands(w) \/ WriteFails(w)
    BY <2>1, <2>5 DEF CrashNode, WriteLands, WriteFails
  <2>6. QED
    BY <2>2, <2>3, <2>4, <2>5, Frames
<1>4. lines' \in Seq(TruthfulLine')
  <2>1. lines \in Seq(TruthfulLine')
    BY TruthfulGrows
  <2>2. ASSUME NEW w \in writing, WriteLands(w)
        PROVE  lines' \in Seq(TruthfulLine')
    <3> DEFINE l == [entry |-> w.entry, late |-> w.told]
    <3>1. l \in TruthfulLine'
      BY TruthfulGrows
         DEF EntriesTruthful, TruthfulLine, Line, TypeOK, RecorderType, Write
    <3>2. lines' = lines \/ lines' = Append(lines, l)
      BY <2>2 DEF WriteLands
    <3>3. Append(lines, l) \in Seq(TruthfulLine')
      <4> HIDE DEF l
      <4>1. QED
        BY <2>1, <3>1, AppendProperties
    <3>4. QED
      BY <2>1, <3>2, <3>3
  <2>3. CASE ClearQueue
    BY <2>3, EmptySeq DEF ClearQueue
  <2>4. QED
    BY <2>1, <2>2, <2>3, Frames
<1>5. batch' \in Seq(Truthful')
  <2>1. batch \in Seq(Truthful')
    BY TruthfulGrows
  <2>2. CASE ReadAll
    <3>1. /\ Len(lines) \in Nat
          /\ \A i \in 1..Len(lines) : lines[i].entry \in Truthful'
      BY ElementOfSeq, LineProperties, TruthfulGrows DEF TruthfulLine
    <3>2. [i \in 1..Len(lines) |-> lines[i].entry] \in [1..Len(lines) -> Truthful']
      BY <3>1
    <3>3. [i \in 1..Len(lines) |-> lines[i].entry] \in Seq(Truthful')
      BY <3>1, <3>2, SMT
    <3>4. QED
      BY <2>2, <3>3 DEF ReadAll
  <2>3. CASE SendSegment
    BY <2>1, <2>3, HeadTailProperties DEF SendSegment
  <2>4. CASE SendFails \/ CrashNode
    BY <2>4, EmptySeq DEF SendFails, CrashNode
  <2>5. CASE ClearQueue \/ Disconnect \/ UNCHANGED batch
    BY <2>1, <2>5 DEF ClearQueue, Disconnect
  <2>6. QED
    BY <2>2, <2>3, <2>4, <2>5, Frames
<1>6. wire' \in [Sessions -> Seq(Truthful')]
  <2>1. wire \in [Sessions -> Seq(Truthful')]
    BY TruthfulGrows
  <2>2. CASE SendSegment
    <3>1. Head(batch) \in Truthful'
      BY <2>2, HeadTailProperties, TruthfulGrows DEF SendSegment
    <3>2. \A s \in Sessions : Append(wire[s], Head(batch)) \in Seq(Truthful')
      BY <2>1, <3>1, AppendProperties
    <3>3. QED
      BY <2>1, <2>2, <3>2 DEF SendSegment
  <2>3. ASSUME NEW s \in Sessions,
               IndexSegment(s) \/ IndexFails(s) \/ LoseWire(s)
        PROVE  wire' \in [Sessions -> Seq(Truthful')]
    <3>1. wire[s] # <<>>
      BY <2>3 DEF IndexSegment, IndexFails, LoseWire
    <3>2. Tail(wire[s]) \in Seq(Truthful') /\ <<>> \in Seq(Truthful')
      BY <2>1, <3>1, HeadTailProperties, EmptySeq
    <3>3. QED
      BY <2>1, <2>3, <3>2 DEF IndexSegment, IndexFails, LoseWire
  <2>4. QED
    BY <2>1, <2>2, <2>3, Frames
<1>7. QED
  BY <1>1, <1>2, <1>3, <1>4, <1>5, <1>6 DEF EntriesTruthful

LEMMA IndexInit == Init => Index!Init
BY DEF Init, Index!Init

(* Every step is a step of the abstract index, or leaves it alone.         *)
LEMMA IndexStep ==
  ASSUME TypeOK, EntriesTruthful, [Next]_vars
  PROVE  [Index!Next]_Index!vars
<1>1. ASSUME NEW g \in Segments, CreateFile(g) \/ CloseFile(g)
      PROVE  Index!Record(g) \/ Index!Complete(g)
  BY <1>1 DEF CreateFile, CloseFile, FileEvent, Index!Record, Index!Complete
<1>2. ASSUME NEW s \in Sessions, IndexSegment(s)
      PROVE  UNCHANGED <<file, recordings>> \/ \E g \in Segments : Index!Index(g)
  <2> DEFINE e == Head(wire[s])
  <2>1. e \in Truthful /\ e \in Entry
    <3>1. wire[s] \in Seq(Truthful) /\ wire[s] # <<>>
      BY <1>2 DEF EntriesTruthful, IndexSegment
    <3>2. QED
      BY <3>1, HeadTailProperties DEF Truthful
  <2>2. UNCHANGED file /\ recordings' = [recordings EXCEPT
          ![e.seg] = IF recordings[e.seg] = "none" THEN e.size
                     ELSE recordings[e.seg]]
    BY <1>2 DEF IndexSegment
  <2> HIDE DEF e
  <2>3. CASE recordings[e.seg] = "none"
    <3>1. e.seg \in Segments /\ e.size \in {"part", "whole"}
      BY <2>1 DEF Entry
    <3>2. recordings' = [recordings EXCEPT ![e.seg] = e.size]
      BY <2>2, <2>3
    <3>3. Index!Index(e.seg)
      BY <2>1, <2>2, <2>3, <3>1, <3>2 DEF Index!Index, Truthful
    <3>4. QED
      BY <3>1, <3>3
  <2>4. CASE recordings[e.seg] # "none"
    BY <2>1, <2>2, <2>4 DEF TypeOK, CoordinatorType, Entry
  <2>5. QED
    BY <2>3, <2>4
<1>3. \/ UNCHANGED <<file, recordings>>
      \/ \E g \in Segments : CreateFile(g) \/ CloseFile(g)
      \/ \E s \in Sessions : IndexSegment(s)
  BY DEF Next, Recorder, Client, vars, ReceiveEvent, LookUpCamera, QueuePush,
     QueuePushFails, SignalFlush, WriteLands, Connect, DrainStale, WakeFlush,
     ReadAll, SendSegment, SendFails, ClearQueue, ClearFails, HandleCameras,
     Disconnect, IndexFails, LoseWire, BreakLink, CrashNode, RestartNode,
     WriteFails, ReadFails
<1>4. QED
  BY <1>1, <1>2, <1>3 DEF Index!Next, Index!vars

(* The system implements the abstract index: one row per segment, which no *)
(* repeated delivery changes and which never claims the final size of an   *)
(* unfinished file, for any number of segments, connections and faults.    *)
THEOREM Implementation == Spec => ImplementsRecordingIndex
<1>1. Init => EntriesTruthful
  BY EmptySeq DEF Init, EntriesTruthful
<1>2. TypeOK /\ EntriesTruthful /\ [Next]_vars => EntriesTruthful'
  BY TruthStep
<1>3. TypeOK /\ EntriesTruthful /\ [Next]_vars => [Index!Next]_Index!vars
  BY IndexStep
<1>4. QED
  BY <1>1, <1>2, <1>3, IndexInit, TypeCorrect, PTL
     DEF Spec, ImplementsRecordingIndex, Index!Spec
=============================================================================

------------------------- MODULE NodeFollows_proofs ------------------------
(***************************************************************************)
(* A served node follows the database: the proof of ServedNodeFollows.     *)
(*                                                                         *)
(* Everything sent to a node passes through one stream: the messages on    *)
(* the wire, the list its connection task has fetched and not sent, the    *)
(* messages pushed to the connection's queue.  The invariant says of every *)
(* camera that is not excused what the last message of the stream about it *)
(* states, and that an update in it finds the camera at the node.  Steps   *)
(* append to the stream, move a message within it, or take the first.      *)
(***************************************************************************)
EXTENDS NodeSession_proofs

USE DEF dbVars, sessionVars, nodeVars,
        DatabaseType, SocketType, NodeType, CountType

-----------------------------------------------------------------------------
(* What a sequence of messages does to one camera                          *)

(* The version of c a message states, and the one a node has of it after   *)
(* it, if it had v before.                                                 *)
States(m, c) == IF m.kind = "sync" THEN m.list[c]
                ELSE IF m.kind = "removed" THEN 0 ELSE m.ver
After(m, c, v) == IF ~Concerns(m, c) THEN v
                  ELSE IF m.kind = "updated" /\ v = 0 THEN 0 ELSE States(m, c)

(* The messages of q about c, and the version the i-th of q states; the    *)
(* 0-th is the version v the node has before q.                            *)
About(q, c) == {i \in 1..Len(q) : Concerns(q[i], c)}
StatedAt(q, v, c, i) == IF i = 0 THEN v ELSE States(q[i], c)

(* The last version stated is in W.                                        *)
EndsIn(q, v, c, W) ==
  \E i \in About(q, c) \cup {0} :
    /\ \A k \in About(q, c) : k <= i
    /\ StatedAt(q, v, c, i) \in W

(* An update finds the camera at the node: what is stated last before it   *)
(* is not its absence.                                                     *)
UpdatesApply(q, v, c) ==
  \A j \in About(q, c), i \in About(q, c) \cup {0} :
    q[j].kind = "updated" /\ i < j /\ StatedAt(q, v, c, i) = 0 =>
      \E k \in About(q, c) : i < k /\ k < j /\ StatedAt(q, v, c, k) # 0

LEMMA AboutAppend ==
  ASSUME NEW q \in Seq(Message), NEW m \in Message, NEW c
  PROVE  /\ Len(q) \in Nat
         /\ About(Append(q, m), c) =
              About(q, c) \cup (IF Concerns(m, c) THEN {Len(q) + 1} ELSE {})
         /\ \A i \in 1..Len(q) : Append(q, m)[i] = q[i]
         /\ Append(q, m)[Len(q) + 1] = m
<1>1. Len(q) \in Nat
  BY LenProperties
<1>2. PICK r : r = Append(q, m)
  OBVIOUS
<1>3. /\ Len(r) = Len(q) + 1
      /\ \A i \in 1..Len(q) : r[i] = q[i]
      /\ r[Len(q) + 1] = m
  BY <1>2, AppendProperties
<1>4. 1..Len(r) = 1..Len(q) \cup {Len(q) + 1}
  BY <1>1, <1>3
<1>5. About(r, c) =
        About(q, c) \cup (IF Concerns(m, c) THEN {Len(q) + 1} ELSE {})
  BY <1>1, <1>3, <1>4 DEF About
<1>6. QED
  BY <1>1, <1>2, <1>3, <1>5

(* A message appended about another camera changes nothing, one about c    *)
(* states the last version.                                                *)
LEMMA EndsAppend ==
  ASSUME NEW q \in Seq(Message), NEW m \in Message, NEW c, NEW v, NEW W,
         IF Concerns(m, c) THEN States(m, c) \in W ELSE EndsIn(q, v, c, W)
  PROVE  EndsIn(Append(q, m), v, c, W)
<1>1. PICK r : r = Append(q, m)
  OBVIOUS
<1>2. /\ Len(q) \in Nat
      /\ About(r, c) =
           About(q, c) \cup (IF Concerns(m, c) THEN {Len(q) + 1} ELSE {})
      /\ \A i \in 1..Len(q) : r[i] = q[i]
      /\ r[Len(q) + 1] = m
  BY <1>1, AboutAppend
<1>3. About(q, c) \subseteq 1..Len(q)
  BY DEF About
<1>4. CASE Concerns(m, c)
  <2>1. \A k \in About(r, c) : k <= Len(q) + 1
    BY <1>2, <1>3, <1>4
  <2>2. StatedAt(r, v, c, Len(q) + 1) \in W
    BY <1>2, <1>4 DEF StatedAt
  <2>3. EndsIn(r, v, c, W)
    BY <1>2, <1>4, <2>1, <2>2 DEF EndsIn
  <2>4. QED
    BY <1>1, <2>3
<1>5. CASE ~Concerns(m, c)
  <2>1. \A i \in About(q, c) \cup {0} :
          StatedAt(r, v, c, i) = StatedAt(q, v, c, i)
    BY <1>2, <1>3 DEF StatedAt
  <2>2. EndsIn(r, v, c, W)
    BY <1>2, <1>5, <2>1 DEF EndsIn
  <2>3. QED
    BY <1>1, <2>2
<1>6. QED
  BY <1>4, <1>5

(* An update may be appended when the last version stated is not 0.        *)
LEMMA ApplyAppend ==
  ASSUME NEW q \in Seq(Message), NEW m \in Message, NEW c, NEW v, NEW W,
         UpdatesApply(q, v, c), 0 \notin W,
         Concerns(m, c) /\ m.kind = "updated" => EndsIn(q, v, c, W)
  PROVE  UpdatesApply(Append(q, m), v, c)
<1>1. PICK r : r = Append(q, m)
  OBVIOUS
<1>2. /\ Len(q) \in Nat
      /\ About(r, c) =
           About(q, c) \cup (IF Concerns(m, c) THEN {Len(q) + 1} ELSE {})
      /\ \A i \in 1..Len(q) : r[i] = q[i]
      /\ r[Len(q) + 1] = m
  BY <1>1, AboutAppend
<1>3. About(q, c) \subseteq 1..Len(q)
  BY DEF About
<1>4. \A i \in About(q, c) \cup {0} :
        StatedAt(r, v, c, i) = StatedAt(q, v, c, i)
  BY <1>2, <1>3 DEF StatedAt
<1> SUFFICES ASSUME NEW j \in About(r, c), NEW i \in About(r, c) \cup {0},
                    r[j].kind = "updated", i < j, StatedAt(r, v, c, i) = 0
             PROVE  \E k \in About(r, c) :
                      i < k /\ k < j /\ StatedAt(r, v, c, k) # 0
  BY <1>1 DEF UpdatesApply
<1>5. i \in About(q, c) \cup {0}
  BY <1>2, <1>3
<1>6. CASE j \in About(q, c)
  <2>1. q[j].kind = "updated" /\ StatedAt(q, v, c, i) = 0
    BY <1>2, <1>3, <1>4, <1>5, <1>6
  <2>2. QED
    BY <1>2, <1>4, <1>5, <1>6, <2>1 DEF UpdatesApply
<1>7. CASE j \notin About(q, c)
  <2>1. Concerns(m, c) /\ j = Len(q) + 1 /\ m.kind = "updated"
    BY <1>2, <1>7
  <2>2. PICK k \in About(q, c) \cup {0} :
          /\ \A l \in About(q, c) : l <= k
          /\ StatedAt(q, v, c, k) \in W
    BY <2>1 DEF EndsIn
  <2>3. StatedAt(q, v, c, k) # 0 /\ k # i
    BY <1>4, <1>5, <2>2
  <2>4. k \in About(q, c) /\ i < k
    BY <1>3, <1>5, <2>2, <2>3
  <2>5. QED
    BY <1>2, <1>3, <1>4, <2>1, <2>3, <2>4
<1>8. QED
  BY <1>6, <1>7

(* r has the messages of q about c one place earlier.                      *)
Shifted(q, r, c) ==
  /\ \A i \in Nat : i \in About(r, c) <=> i # 0 /\ i + 1 \in About(q, c)
  /\ \A i \in About(r, c) : r[i] = q[i + 1]

LEMMA AboutTail ==
  ASSUME NEW q \in Seq(Message), q # <<>>, NEW c,
         NEW m, m = Head(q), NEW r, r = Tail(q)
  PROVE  /\ Len(q) \in Nat \ {0}
         /\ m = q[1]
         /\ Shifted(q, r, c)
<1>1. Len(q) \in Nat \ {0}
  BY EmptySeq, Zenon
<1>2. m = q[1]
  OBVIOUS
<1>3. /\ Len(r) = Len(q) - 1
        /\ \A i \in 1..Len(r) : r[i] = q[i + 1]
  BY HeadTailProperties, Zenon
<1>4. \A i \in Nat : i \in About(r, c) <=> i # 0 /\ i + 1 \in About(q, c)
  BY <1>1, <1>3 DEF About
<1>5. \A i \in About(r, c) : r[i] = q[i + 1]
  BY <1>3 DEF About
<1>6. QED
  BY <1>1, <1>2, <1>4, <1>5 DEF Shifted

(* An update that comes first finds the camera at the node.                *)
LEMMA FirstApplies ==
  ASSUME NEW q \in Seq(Message), NEW c, NEW v,
         UpdatesApply(q, v, c), 1 \in About(q, c), q[1].kind = "updated"
  PROVE  v # 0
<1>1. About(q, c) \subseteq Nat \ {0}
  BY DEF About
<1>2. QED
  BY <1>1 DEF UpdatesApply, StatedAt

(* The node has received the first message.                                *)
LEMMA EndsTail ==
  ASSUME NEW q \in Seq(Message), q # <<>>, NEW c, NEW v, NEW W,
         EndsIn(q, v, c, W),
         UpdatesApply(q, v, c) \/ W = {0}
  PROVE  EndsIn(Tail(q), After(Head(q), c, v), c, W)
<1>1. PICK r : r = Tail(q)
  OBVIOUS
<1>2. PICK m : m = Head(q)
  OBVIOUS
<1>3. /\ Len(q) \in Nat \ {0}
      /\ m = q[1]
      /\ \A i \in Nat : i \in About(r, c) <=> i # 0 /\ i + 1 \in About(q, c)
      /\ \A i \in About(r, c) : r[i] = q[i + 1]
  <2>1. Len(q) \in Nat \ {0} /\ m = q[1] /\ Shifted(q, r, c)
    BY <1>1, <1>2, AboutTail, Zenon
  <2>2. QED
    BY <2>1 DEF Shifted
<1>4. About(q, c) \subseteq Nat \ {0} /\ About(r, c) \subseteq Nat \ {0}
  BY DEF About
<1>5. PICK i \in About(q, c) \cup {0} :
        /\ \A k \in About(q, c) : k <= i
        /\ StatedAt(q, v, c, i) \in W
  BY DEF EndsIn
<1>6. CASE i \in Nat /\ i > 1
  <2>1. i - 1 \in About(r, c)
    BY <1>3, <1>4, <1>5, <1>6
  <2>2. \A k \in About(r, c) : k <= i - 1
    BY <1>3, <1>4, <1>5, <1>6
  <2>3. StatedAt(r, After(m, c, v), c, i - 1) \in W
    <3>1. r[i - 1] = q[i]
      BY <1>3, <1>6, <2>1
    <3>2. QED
      BY <1>5, <1>6, <3>1 DEF StatedAt
  <2>4. QED
    BY <1>1, <1>2, <2>1, <2>2, <2>3 DEF EndsIn
<1>7. CASE i \in {0, 1}
  <2>1. About(r, c) = {}
    BY <1>3, <1>4, <1>5, <1>7
  <2>2. After(m, c, v) \in W
    <3>1. CASE i = 0
      <4>1. ~Concerns(m, c)
        BY <1>3, <1>5, <3>1 DEF About
      <4>2. QED
        BY <1>5, <3>1, <4>1 DEF After, StatedAt
    <3>2. CASE i = 1
      <4>1. 1 \in About(q, c) /\ Concerns(m, c) /\ States(m, c) \in W
        BY <1>3, <1>5, <3>2 DEF About, StatedAt
      <4>2. CASE m.kind = "updated" /\ v = 0
        <5>1. ~UpdatesApply(q, v, c)
          BY <1>3, <4>1, <4>2, FirstApplies, Zenon
        <5>2. QED
          BY <4>2, <5>1 DEF After
      <4>3. CASE ~(m.kind = "updated" /\ v = 0)
        BY <4>1, <4>3 DEF After
      <4>4. QED
        BY <4>2, <4>3
    <3>3. QED
      BY <1>7, <3>1, <3>2
  <2>3. QED
    BY <1>1, <1>2, <2>1, <2>2 DEF EndsIn, StatedAt
<1>8. QED
  BY <1>4, <1>5, <1>6, <1>7

LEMMA ApplyTail ==
  ASSUME NEW q \in Seq(Message), q # <<>>, NEW c, NEW v,
         UpdatesApply(q, v, c)
  PROVE  UpdatesApply(Tail(q), After(Head(q), c, v), c)
<1>1. PICK r : r = Tail(q)
  OBVIOUS
<1>2. PICK m : m = Head(q)
  OBVIOUS
<1>3. /\ Len(q) \in Nat \ {0}
      /\ m = q[1]
      /\ \A i \in Nat : i \in About(r, c) <=> i # 0 /\ i + 1 \in About(q, c)
      /\ \A i \in About(r, c) : r[i] = q[i + 1]
  <2>1. Len(q) \in Nat \ {0} /\ m = q[1] /\ Shifted(q, r, c)
    BY <1>1, <1>2, AboutTail, Zenon
  <2>2. QED
    BY <2>1 DEF Shifted
<1>4. About(q, c) \subseteq Nat \ {0} /\ About(r, c) \subseteq Nat \ {0}
  BY DEF About
<1> DEFINE w == After(m, c, v)
<1> SUFFICES ASSUME NEW j \in About(r, c), NEW i \in About(r, c) \cup {0},
                    r[j].kind = "updated", i < j, StatedAt(r, w, c, i) = 0
             PROVE  \E k \in About(r, c) :
                      i < k /\ k < j /\ StatedAt(r, w, c, k) # 0
  BY <1>1, <1>2 DEF UpdatesApply
<1>5. /\ j + 1 \in About(q, c) /\ q[j + 1].kind = "updated"
      /\ i \in Nat /\ j \in Nat
  BY <1>3, <1>4
(* Something before the update in q states the absence that i states.      *)
<1>6. \E l \in About(q, c) \cup {0} :
        /\ StatedAt(q, v, c, l) = 0
        /\ l < j + 1
        /\ \A k \in About(q, c) : l < k /\ StatedAt(q, v, c, k) # 0 => i + 1 < k
  <2>1. CASE i # 0
    <3>1. i + 1 \in About(q, c) /\ r[i] = q[i + 1]
      BY <1>3, <1>5, <2>1
    <3>2. StatedAt(q, v, c, i + 1) = 0
      BY <1>5, <2>1, <3>1 DEF StatedAt
    <3>3. QED
      BY <1>4, <1>5, <3>1, <3>2
  <2>2. CASE i = 0
    <3>1. w = 0
      BY <2>2 DEF StatedAt
    <3>2. CASE ~Concerns(m, c)
      <4>1. 1 \notin About(q, c) /\ v = 0
        BY <1>3, <3>1, <3>2 DEF About, After
      <4>2. QED
        BY <1>4, <1>5, <2>2, <4>1 DEF StatedAt
    <3>3. CASE Concerns(m, c) /\ States(m, c) = 0
      <4>1. 1 \in About(q, c) /\ StatedAt(q, v, c, 1) = 0
        BY <1>3, <3>3 DEF About, StatedAt
      <4>2. QED
        BY <1>4, <1>5, <2>2, <4>1
    <3>4. CASE Concerns(m, c) /\ States(m, c) # 0
      <4>1. 1 \in About(q, c) /\ q[1].kind = "updated" /\ v = 0
        BY <1>3, <3>1, <3>4 DEF About, After
      <4>2. FALSE
        BY <4>1, FirstApplies, Zenon
      <4>3. QED
        BY <4>2
    <3>5. QED
      BY <3>2, <3>3, <3>4
  <2>3. QED
    BY <2>1, <2>2
<1>7. PICK k \in About(q, c) :
        i + 1 < k /\ k < j + 1 /\ StatedAt(q, v, c, k) # 0
  <2>1. PICK l \in About(q, c) \cup {0} :
          /\ StatedAt(q, v, c, l) = 0
          /\ l < j + 1
          /\ \A k \in About(q, c) :
               l < k /\ StatedAt(q, v, c, k) # 0 => i + 1 < k
    BY <1>6
  <2>2. PICK k \in About(q, c) :
          l < k /\ k < j + 1 /\ StatedAt(q, v, c, k) # 0
    BY <1>5, <2>1 DEF UpdatesApply
  <2>3. QED
    BY <2>1, <2>2
<1>8. k - 1 \in About(r, c) /\ r[k - 1] = q[k]
  <2>1. k - 1 \in Nat \ {0} /\ (k - 1) + 1 = k
    BY <1>4, <1>5, <1>7
  <2>2. QED
    BY <1>3, <1>7, <2>1
<1>9. StatedAt(r, w, c, k - 1) # 0
  BY <1>4, <1>5, <1>7, <1>8 DEF StatedAt
<1>10. QED
  BY <1>4, <1>5, <1>7, <1>8, <1>9

(* A list is put in front of q, and c is at the node as q found it.        *)
LEMMA ConsShifts ==
  ASSUME NEW q \in Seq(Message), NEW m \in Message, NEW c,
         NEW p, p = <<m>> \o q
  PROVE  p[1] = m /\ Shifted(p, q, c) /\ 1 \in 1..Len(p)
<1>1. <<m>> \in Seq(Message) /\ Len(<<m>>) = 1 /\ <<m>>[1] = m
  OBVIOUS
<1>2. Len(q) \in Nat
  BY LenProperties
<1>3. PICK l : l = <<m>>
  OBVIOUS
<1>4. /\ Len(p) = 1 + Len(q)
      /\ \A i \in 1..(1 + Len(q)) :
           p[i] = IF i <= 1 THEN l[i] ELSE q[i - 1]
  BY <1>1, <1>3, ConcatProperties
<1>5. p[1] = m
  BY <1>1, <1>2, <1>3, <1>4
<1>6. \A i \in 1..Len(q) : p[i + 1] = q[i]
  <2> TAKE i \in 1..Len(q)
  <2>1. i + 1 \in 1..(1 + Len(q)) /\ ~(i + 1 <= 1) /\ (i + 1) - 1 = i
    BY <1>2
  <2>2. QED
    BY <1>4, <2>1
<1>7. \A i \in Nat : i \in About(q, c) <=> i # 0 /\ i + 1 \in About(p, c)
  <2> TAKE i \in Nat
  <2>1. i \in 1..Len(q) <=> i # 0 /\ i + 1 \in 1..Len(p)
    BY <1>2, <1>4
  <2>2. i \in 1..Len(q) => (Concerns(q[i], c) <=> Concerns(p[i + 1], c))
    BY <1>6
  <2>3. /\ i \in About(q, c) <=> i \in 1..Len(q) /\ Concerns(q[i], c)
        /\ i + 1 \in About(p, c) <=>
             i + 1 \in 1..Len(p) /\ Concerns(p[i + 1], c)
    BY Zenon DEF About
  <2>4. QED
    BY <2>1, <2>2, <2>3
<1>8. \A i \in About(q, c) : q[i] = p[i + 1]
  BY <1>6 DEF About
<1>9. 1 \in 1..Len(p)
  BY <1>2, <1>4
<1>10. Shifted(p, q, c)
  BY <1>7, <1>8, Zenon DEF Shifted
<1>11. QED
  BY <1>5, <1>9, <1>10

LEMMA EndsCons ==
  ASSUME NEW q \in Seq(Message), NEW m \in Message, NEW c, NEW v, NEW w, NEW W,
         m.kind = "sync", States(m, c) = w,
         EndsIn(q, w, c, W)
  PROVE  EndsIn(<<m>> \o q, v, c, W)
<1>1. PICK p : p = <<m>> \o q
  OBVIOUS
<1>2. p[1] = m /\ Shifted(p, q, c) /\ 1 \in 1..Len(p)
  BY <1>1, ConsShifts, Zenon
<1>3. About(p, c) \subseteq Nat \ {0} /\ About(q, c) \subseteq Nat \ {0}
  BY DEF About
<1>4. 1 \in About(p, c) /\ StatedAt(p, v, c, 1) = w
  BY <1>2 DEF About, Concerns, StatedAt
<1>5. PICK i \in About(q, c) \cup {0} :
        /\ \A k \in About(q, c) : k <= i
        /\ StatedAt(q, w, c, i) \in W
  BY DEF EndsIn
<1>6. i + 1 \in About(p, c) /\ StatedAt(p, v, c, i + 1) = StatedAt(q, w, c, i)
  BY <1>2, <1>3, <1>4, <1>5 DEF Shifted, StatedAt
<1>7. ASSUME NEW k \in About(p, c) PROVE k <= i + 1
  <2>1. CASE k = 1
    BY <1>3, <1>5, <2>1
  <2>2. CASE k # 1
    <3>1. k - 1 \in Nat \ {0} /\ (k - 1) + 1 = k
      BY <1>3, <2>2
    <3>2. k - 1 \in About(q, c)
      BY <1>2, <3>1 DEF Shifted
    <3>3. QED
      BY <1>3, <1>5, <3>1, <3>2
  <2>3. QED
    BY <2>1, <2>2
<1>8. EndsIn(p, v, c, W)
  BY <1>5, <1>6, <1>7 DEF EndsIn
<1>9. QED
  BY <1>1, <1>8

LEMMA ApplyCons ==
  ASSUME NEW q \in Seq(Message), NEW m \in Message, NEW c, NEW v, NEW w,
         m.kind = "sync", States(m, c) = w, w # 0,
         UpdatesApply(q, w, c)
  PROVE  UpdatesApply(<<m>> \o q, v, c)
<1>1. PICK p : p = <<m>> \o q
  OBVIOUS
<1>2. p[1] = m /\ Shifted(p, q, c) /\ 1 \in 1..Len(p)
  BY <1>1, ConsShifts, Zenon
<1>3. About(p, c) \subseteq Nat \ {0} /\ About(q, c) \subseteq Nat \ {0}
  BY DEF About
<1>4. 1 \in About(p, c) /\ StatedAt(p, v, c, 1) = w
  BY <1>2 DEF About, Concerns, StatedAt
<1> SUFFICES ASSUME NEW j \in About(p, c), NEW i \in About(p, c) \cup {0},
                    p[j].kind = "updated", i < j, StatedAt(p, v, c, i) = 0
             PROVE  \E k \in About(p, c) :
                      i < k /\ k < j /\ StatedAt(p, v, c, k) # 0
  BY <1>1 DEF UpdatesApply
<1>5. j # 1 /\ i # 1
  BY <1>2, <1>4
<1>6. j \in Nat /\ j > 1 /\ i \in Nat
  BY <1>3, <1>5
<1>7. CASE i = 0
  BY <1>4, <1>6, <1>7
<1>8. CASE i # 0
  <2>1. /\ j - 1 \in Nat \ {0} /\ (j - 1) + 1 = j
        /\ i - 1 \in Nat \ {0} /\ (i - 1) + 1 = i
    BY <1>5, <1>6, <1>8
  <2>2. /\ j - 1 \in About(q, c) /\ q[j - 1] = p[j]
        /\ i - 1 \in About(q, c) /\ q[i - 1] = p[i]
    BY <1>2, <1>8, <2>1 DEF Shifted
  <2>3. StatedAt(q, w, c, i - 1) = 0
    BY <1>8, <2>1, <2>2 DEF StatedAt
  <2>4. PICK k \in About(q, c) :
          i - 1 < k /\ k < j - 1 /\ StatedAt(q, w, c, k) # 0
    BY <1>6, <2>2, <2>3 DEF UpdatesApply
  <2>5. k + 1 \in About(p, c) /\ q[k] = p[k + 1]
    BY <1>2, <1>3, <2>4 DEF Shifted
  <2>6. StatedAt(p, v, c, k + 1) # 0
    BY <1>3, <2>4, <2>5 DEF StatedAt
  <2>7. QED
    BY <1>3, <1>6, <2>4, <2>5, <2>6
<1>9. QED
  BY <1>7, <1>8

(* The version the node has before q is another one, but not 0.            *)
LEMMA Rebase ==
  ASSUME NEW q, NEW c, NEW v, NEW w, NEW W, v \in W, w \in W, 0 \notin W
  PROVE  /\ EndsIn(q, v, c, {v}) => EndsIn(q, w, c, W)
         /\ UpdatesApply(q, v, c) => UpdatesApply(q, w, c)
<1>1. \A i : StatedAt(q, w, c, i) = IF i = 0 THEN w ELSE StatedAt(q, v, c, i)
  BY DEF StatedAt
<1>2. ASSUME EndsIn(q, v, c, {v}) PROVE EndsIn(q, w, c, W)
  BY <1>1, <1>2 DEF EndsIn
<1>3. ASSUME UpdatesApply(q, v, c) PROVE UpdatesApply(q, w, c)
  <2> SUFFICES ASSUME NEW j \in About(q, c), NEW i \in About(q, c) \cup {0},
                      q[j].kind = "updated", i < j, StatedAt(q, w, c, i) = 0
               PROVE  \E k \in About(q, c) :
                        i < k /\ k < j /\ StatedAt(q, w, c, k) # 0
    BY DEF UpdatesApply
  <2>1. i # 0 /\ StatedAt(q, v, c, i) = 0
    BY <1>1
  <2>2. PICK k \in About(q, c) : i < k /\ k < j /\ StatedAt(q, v, c, k) # 0
    BY <1>3, <2>1 DEF UpdatesApply
  <2>3. StatedAt(q, w, c, k) # 0
    BY <1>1, <2>2
  <2>4. QED
    BY <2>2, <2>3
<1>4. QED
  BY <1>2, <1>3

(* No message is about c.                                                  *)
LEMMA NothingAbout ==
  ASSUME NEW q, NEW c, NEW v, NEW W, About(q, c) = {}
  PROVE  /\ EndsIn(q, v, c, W) <=> v \in W
         /\ UpdatesApply(q, v, c)
BY DEF EndsIn, UpdatesApply, StatedAt

-----------------------------------------------------------------------------
(* What is on its way to the node                                          *)

(* The node's connection is registered, and not only accepted.             *)
Attached == /\ nodeConn # 0
            /\ alive[nodeConn]
            /\ registry = nodeConn
            /\ phase[nodeConn] \in {"registered", "fetched", "open"}

(* On the wire, then the list fetched, then what was pushed.               *)
Fetched == IF phase[nodeConn] = "fetched"
           THEN <<[kind |-> "sync", list |-> snap[nodeConn]]>> ELSE <<>>
Stream == (net[nodeConn] \o Fetched) \o rx[nodeConn]

(* What the stream finds: the list still to be fetched, or the node's.     *)
Base == IF phase[nodeConn] = "registered" THEN db ELSE list

(* The kinds of the changes of c that handlers have to push.               *)
Pushes(t, c) == t.step = "push" /\ t.msg.kind # "sync" /\ t.msg.cam = c
Pending(ts, c) == {ts[h].msg.kind : h \in {g \in Handlers : Pushes(ts[g], c)}}

Versions == 1..MaxVersion

(* A camera that is not excused will be at the node as it is in the        *)
(* database, if no change of it is still to be pushed; an update to be     *)
(* pushed will find it there, and so do the updates on their way.          *)
Ends(c, W) == EndsIn(Stream, Base[c], c, W)
WillFollow(c) ==
  /\ Pending(task, c) = {} => Ends(c, {db[c]})
  /\ "updated" \in Pending(task, c) => Ends(c, Versions)
  /\ db[c] # 0 => UpdatesApply(Stream, Base[c], c)
Delivers == Attached => \A c \in Cameras \ excused : WillFollow(c)

(* What a handler has to push is what the database says.                   *)
Current(t, c, v) == t.step = "push" /\ Concerns(t.msg, c) =>
                      /\ States(t.msg, c) = v
                      /\ t.msg.kind = "updated" => v # 0
PushesCurrent ==
  \A h \in Handlers, c \in Cameras \ excused : Current(task[h], c, db[c])

(* A connection that is only accepted has got nothing, one without its     *)
(* list has sent nothing.                                                  *)
SocketsInv ==
  /\ nodeConn <= session
  /\ \A s \in Sessions :
       /\ s > session => phase[s] = "none"
       /\ phase[s] \in {"none", "accepted"} => rx[s] = <<>> /\ registry # s
       /\ phase[s] \in {"none", "accepted", "registered", "fetched"} =>
            net[s] = <<>>

(* Identifiers are not used again.                                         *)
Names(m, b) == m.kind = "sync" \/ m.cam \in b
AllName(q, b) == \A i \in 1..Len(q) : Names(q[i], b)
BornInv ==
  /\ \A c \in Cameras : db[c] # 0 => c \in born
  /\ \A h \in Handlers : task[h].step = "push" => Names(task[h].msg, born)
  /\ \A s \in Sessions : AllName(rx[s], born) /\ AllName(net[s], born)

FollowsInv == SocketsInv /\ BornInv /\ PushesCurrent /\ Delivers

LEMMA ConnType == TypeOK /\ nodeConn # 0 => nodeConn \in Sessions
BY SessionAssumption DEF TypeOK, Sessions

LEMMA StreamType ==
  ASSUME TypeOK, nodeConn # 0
  PROVE  /\ Fetched \in Seq(Message)
         /\ net[nodeConn] \in Seq(Message) /\ rx[nodeConn] \in Seq(Message)
         /\ net[nodeConn] \o Fetched \in Seq(Message)
         /\ Stream \in Seq(Message)
<1>1. net[nodeConn] \in Seq(Message) /\ rx[nodeConn] \in Seq(Message)
  BY ConnType DEF TypeOK
<1>2. snap[nodeConn] \in CameraList
  BY ConnType DEF TypeOK
<1>3. [kind |-> "sync", list |-> snap[nodeConn]] \in Message
  BY <1>2, SyncType
<1>4. Fetched \in Seq(Message)
  BY <1>3, EmptySeq DEF Fetched
<1>5. QED
  BY <1>1, <1>4, ConcatProperties, Zenon DEF Stream

LEMMA AppendNames ==
  ASSUME NEW b, NEW q \in Seq(Message), NEW m \in Message,
         AllName(q, b), Names(m, b), NEW r, r = Append(q, m)
  PROVE  AllName(r, b)
<1>1. /\ Len(r) = Len(q) + 1 /\ Len(q) \in Nat
      /\ \A i \in 1..Len(q) : r[i] = q[i]
      /\ r[Len(q) + 1] = m
  BY AppendProperties, LenProperties
<1>2. QED
  BY <1>1 DEF AllName

LEMMA TailNames ==
  ASSUME NEW b, NEW q \in Seq(Message), q # <<>>, AllName(q, b),
         NEW r, r = Tail(q)
  PROVE  AllName(r, b) /\ Names(Head(q), b)
<1>1. /\ Len(r) = Len(q) - 1
      /\ \A i \in 1..Len(r) : r[i] = q[i + 1]
  BY HeadTailProperties, Zenon
<1>2. Len(q) \in Nat \ {0}
  BY EmptySeq, Zenon
<1>3. AllName(r, b)
  <2> SUFFICES ASSUME NEW i \in 1..Len(r) PROVE Names(r[i], b)
    BY DEF AllName
  <2>1. i + 1 \in 1..Len(q)
    BY <1>1, <1>2
  <2>2. QED
    BY <1>1, <2>1 DEF AllName
<1>4. Head(q) = q[1] /\ 1 \in 1..Len(q)
  BY <1>2
<1>5. QED
  BY <1>3, <1>4 DEF AllName

LEMMA MoreNames ==
  ASSUME NEW b, NEW e, b \subseteq e, NEW q, AllName(q, b)
  PROVE  AllName(q, e)
BY DEF AllName, Names

-----------------------------------------------------------------------------
(* Connections                                                             *)

LEMMA SocketsStep == TypeOK /\ SocketsInv /\ [Next]_vars => SocketsInv'
<1> SUFFICES ASSUME TypeOK, SocketsInv, [Next]_vars PROVE SocketsInv'
  OBVIOUS
<1>1. ASSUME NEW h \in Handlers, PushToNode(h) PROVE SocketsInv'
  <2>1. \A s \in Sessions : phase[s] \in {"none", "accepted"} => rx'[s] = rx[s]
    BY <1>1 DEF PushToNode, SocketsInv, TypeOK
  <2>2. QED
    BY <1>1, <2>1 DEF PushToNode, SocketsInv
<1>2. ASSUME NEW s \in Sessions, RegisterNode(s) \/ FetchNodeCameras(s)
      PROVE  SocketsInv'
  BY <1>2 DEF RegisterNode, FetchNodeCameras, SocketsInv, TypeOK
<1>3. ASSUME NEW s \in Sessions, SendConfigSync(s) PROVE SocketsInv'
  BY <1>3 DEF SendConfigSync, Transmit, SocketsInv, TypeOK
<1>4. ASSUME NEW s \in Sessions, Forward(s) PROVE SocketsInv'
  <2>1. phase'[s] \in {"open", "closing"} /\ phase[s] = "open"
    BY <1>4 DEF Forward, TypeOK
  <2>2. \A t \in Sessions \ {s} : /\ phase'[t] = phase[t]
                                  /\ rx'[t] = rx[t] /\ net'[t] = net[t]
    BY <1>4 DEF Forward, Transmit, TypeOK
  <2>3. QED
    BY <1>4, <2>1, <2>2 DEF Forward, SocketsInv
<1>5. ASSUME NEW s \in Sessions, EndStream(s) \/ Teardown(s)
      PROVE  SocketsInv'
  <2>1. 0 \notin Sessions
    BY DEF Sessions
  <2>2. QED
    BY <1>5, <2>1 DEF EndStream, Teardown, SocketsInv, TypeOK
<1>6. CASE Connect
  <2>1. session \in Nat /\ Sessions \subseteq Nat
    BY SessionAssumption DEF Sessions, TypeOK
  <2>2. phase[session + 1] = "none"
    BY <1>6, <2>1 DEF Connect, SocketsInv
  <2>3. /\ phase'[session + 1] = "accepted"
        /\ \A s \in Sessions \ {session + 1} : phase'[s] = phase[s]
    BY <1>6 DEF Connect, TypeOK
  <2>4. nodeConn' <= session'
    BY <1>6, <2>1 DEF Connect
  <2>5. session + 1 \in Sessions /\ session' = session + 1
    BY <1>6 DEF Connect
  <2>6. \A s \in Sessions : s > session' => s > session /\ s # session + 1
    BY <2>1, <2>5
  <2>7. UNCHANGED <<rx, net, registry>>
    BY <1>6 DEF Connect
  <2>8. ASSUME NEW s \in Sessions
        PROVE  /\ s > session' => phase'[s] = "none"
               /\ phase'[s] \in {"none", "accepted"} =>
                    phase[s] \in {"none", "accepted"}
               /\ phase'[s] \in {"none", "accepted", "registered", "fetched"} =>
                    phase[s] \in {"none", "accepted", "registered", "fetched"}
    BY <2>2, <2>3, <2>6 DEF SocketsInv
  <2>9. QED
    BY <2>4, <2>7, <2>8 DEF SocketsInv
<1>7. CASE Receive
  <2>1. nodeConn \in Sessions
    BY <1>7, ConnType DEF Receive
  <2>2. \A s \in Sessions \ {nodeConn} : net'[s] = net[s]
    BY <1>7 DEF Receive, TypeOK
  <2>3. phase[nodeConn] \notin {"none", "accepted", "registered", "fetched"}
    BY <1>7, <2>1 DEF Receive, SocketsInv
  <2>4. QED
    BY <1>7, <2>2, <2>3 DEF Receive, SocketsInv
<1>8. CASE Disconnect \/ CrashNode
  <2>1. \A s \in Sessions : net'[s] = net[s] \/ net'[s] = <<>>
    BY <1>8 DEF Disconnect, CrashNode, TypeOK
  <2>2. nodeConn' <= session'
    BY <1>8, SessionAssumption DEF Disconnect, CrashNode, SocketsInv, TypeOK
  <2>3. QED
    BY <1>8, <2>1, <2>2 DEF Disconnect, CrashNode, SocketsInv
<1>9. CASE CrashCoordinator
  <2>1. 0 \notin Sessions
    BY DEF Sessions
  <2>2. QED
    BY <1>9, <2>1 DEF CrashCoordinator, SocketsInv
<1>10. CASE UNCHANGED <<registry, phase, rx, net, nodeConn, session>>
  BY <1>10 DEF SocketsInv
<1>11. QED
  BY <1>1, <1>2, <1>3, <1>4, <1>5, <1>6, <1>7, <1>8, <1>9, <1>10
     DEF Next, Request, Handler, Socket, ResolveNode, CheckCapacity,
         InsertCamera, UpdateCamera, DeleteCamera, UpdateNodeStatus,
         FetchForSync, DeleteNode, CancelHandler, BreakLink, vars

-----------------------------------------------------------------------------
(* Identifiers                                                             *)

LEMMA BornHandlerStep ==
  ASSUME TypeOK, BornInv, NEW h \in Handlers,
         Request(h) \/ Handler(h) \/ CancelHandler(h)
  PROVE  BornInv'
<1>1. born \subseteq born'
  BY DEF Request, Handler, ResolveNode, CheckCapacity, InsertCamera,
         UpdateCamera, DeleteCamera, UpdateNodeStatus, FetchForSync,
         DeleteNode, PushToNode, CancelHandler
<1>2. \A c \in Cameras : db'[c] # 0 => c \in born'
  BY <1>1 DEF Request, Handler, ResolveNode, CheckCapacity, InsertCamera,
         UpdateCamera, DeleteCamera, UpdateNodeStatus, FetchForSync,
         DeleteNode, PushToNode, CancelHandler, NoCameras, BornInv, TypeOK,
         CameraList
<1>3. task'[h].step = "push" => Names(task'[h].msg, born')
  <2>1. CASE InsertCamera(h)
    BY <2>1, IdleType DEF InsertCamera, Names, TypeOK
  <2>2. ASSUME NEW c \in Cameras, UpdateCamera(h, c) \/ DeleteCamera(h, c)
        PROVE  task'[h].step = "push" => Names(task'[h].msg, born')
    BY <2>2 DEF UpdateCamera, DeleteCamera, Names, BornInv, TypeOK
  <2>3. CASE FetchForSync(h)
    BY <2>3 DEF FetchForSync, Names, TypeOK
  <2>4. CASE DeleteNode(h)
    BY <2>4 DEF DeleteNode, BornInv
  <2>5. CASE \/ ResolveNode(h) \/ CheckCapacity(h) \/ PushToNode(h)
             \/ CancelHandler(h)
    BY <2>5, IdleType
       DEF ResolveNode, CheckCapacity, PushToNode, CancelHandler, TypeOK
  <2>6. ASSUME NEW st, UpdateNodeStatus(h, st)
        PROVE  task'[h].step = "push" => Names(task'[h].msg, born')
    BY <2>6, IdleType DEF UpdateNodeStatus, TypeOK
  <2>7. QED
    BY <2>1, <2>2, <2>3, <2>4, <2>5, <2>6 DEF Request, Handler
<1>4. \A i \in Handlers \ {h} : task'[i] = task[i]
  BY DEF Request, Handler, ResolveNode, CheckCapacity, InsertCamera,
         UpdateCamera, DeleteCamera, UpdateNodeStatus, FetchForSync,
         DeleteNode, PushToNode, CancelHandler, TypeOK
<1>5. \A i \in Handlers : task'[i].step = "push" => Names(task'[i].msg, born')
  BY <1>1, <1>3, <1>4 DEF BornInv, Names
<1>6. ASSUME NEW s \in Sessions PROVE AllName(rx'[s], born')
  <2>1. rx[s] \in Seq(Message)
    BY DEF TypeOK
  <2>2. CASE PushToNode(h)
    <3>1. rx'[s] = rx[s] \/ rx'[s] = Append(rx[s], task[h].msg)
      BY <2>2 DEF PushToNode, TypeOK
    <3>2. task[h].msg \in Message /\ Names(task[h].msg, born)
      BY <2>2, TaskMessage DEF PushToNode, BornInv
    <3>3. AllName(rx'[s], born)
      <4>1. AllName(rx[s], born)
        BY DEF BornInv
      <4>2. QED
        BY <2>1, <3>1, <3>2, <4>1, AppendNames, Zenon
    <3>4. QED
      BY <2>2, <3>3 DEF PushToNode
  <2>3. CASE rx' = rx
    BY <1>1, <2>1, <2>3, MoreNames DEF BornInv
  <2>4. QED
    BY <2>2, <2>3
       DEF Request, Handler, ResolveNode, CheckCapacity, InsertCamera,
           UpdateCamera, DeleteCamera, UpdateNodeStatus, FetchForSync,
           DeleteNode, CancelHandler
<1>7. ASSUME NEW s \in Sessions PROVE AllName(net'[s], born')
  <2>1. net' = net /\ net[s] \in Seq(Message)
    BY DEF Request, Handler, ResolveNode, CheckCapacity, InsertCamera,
           UpdateCamera, DeleteCamera, UpdateNodeStatus, FetchForSync,
           DeleteNode, PushToNode, CancelHandler, TypeOK
  <2>2. QED
    BY <1>1, <2>1, MoreNames DEF BornInv
<1>8. QED
  BY <1>2, <1>5, <1>6, <1>7 DEF BornInv

LEMMA BornStep == TypeOK /\ BornInv /\ [Next]_vars => BornInv'
<1> SUFFICES ASSUME TypeOK, BornInv, [Next]_vars PROVE BornInv'
  OBVIOUS
<1>1. ASSUME NEW s \in Sessions, SendConfigSync(s) PROVE BornInv'
  <2>1. [kind |-> "sync", list |-> snap[s]] \in Message
    BY SyncType DEF TypeOK
  <2>2. Names([kind |-> "sync", list |-> snap[s]], born)
    BY DEF Names
  <2>3. \A t \in Sessions :
          \/ net'[t] = net[t]
          \/ net'[t] = Append(net[t], [kind |-> "sync", list |-> snap[s]])
    BY <1>1 DEF SendConfigSync, Transmit, TypeOK
  <2>4. ASSUME NEW t \in Sessions PROVE AllName(net'[t], born)
    <3>1. net[t] \in Seq(Message) /\ AllName(net[t], born)
      BY DEF BornInv, TypeOK
    <3>2. QED
      BY <2>1, <2>2, <2>3, <3>1, AppendNames, Zenon
  <2>5. QED
    BY <1>1, <2>4 DEF SendConfigSync, BornInv
<1>2. ASSUME NEW s \in Sessions, Forward(s) PROVE BornInv'
  <2>1. rx[s] \in Seq(Message) /\ rx[s] # <<>>
    BY <1>2 DEF Forward, TypeOK
  <2>2. /\ Head(rx[s]) \in Message /\ Names(Head(rx[s]), born)
        /\ AllName(Tail(rx[s]), born)
    BY <2>1, TailNames, HeadTailProperties DEF BornInv
  <2>3. \A t \in Sessions :
          /\ net'[t] = net[t] \/ net'[t] = Append(net[t], Head(rx[s]))
          /\ rx'[t] = rx[t] \/ rx'[t] = Tail(rx[s])
    BY <1>2 DEF Forward, Transmit, TypeOK
  <2>4. ASSUME NEW t \in Sessions
        PROVE  AllName(net'[t], born) /\ AllName(rx'[t], born)
    <3>1. net[t] \in Seq(Message) /\ AllName(net[t], born)
      BY DEF BornInv, TypeOK
    <3>2. AllName(net'[t], born)
      BY <2>2, <2>3, <3>1, AppendNames, Zenon
    <3>3. AllName(rx'[t], born)
      BY <2>2, <2>3 DEF BornInv
    <3>4. QED
      BY <3>2, <3>3
  <2>5. QED
    BY <1>2, <2>4 DEF Forward, BornInv
<1>3. CASE Receive
  <2>1. nodeConn \in Sessions /\ net[nodeConn] \in Seq(Message)
    BY <1>3, ConnType DEF Receive, TypeOK
  <2>2. AllName(Tail(net[nodeConn]), born)
    BY <1>3, <2>1, TailNames DEF Receive, BornInv
  <2>3. \A t \in Sessions : net'[t] = net[t] \/ net'[t] = Tail(net[nodeConn])
    BY <1>3 DEF Receive, TypeOK
  <2>4. QED
    BY <1>3, <2>2, <2>3 DEF Receive, BornInv
<1>4. CASE \/ Disconnect \/ CrashNode
           \/ \E s \in Sessions : Teardown(s)
  <2>1. \A t \in Sessions : /\ net'[t] = net[t] \/ net'[t] = <<>>
                            /\ rx'[t] = rx[t] \/ rx'[t] = <<>>
    BY <1>4 DEF Disconnect, CrashNode, Teardown, TypeOK
  <2>2. AllName(<<>>, born)
    BY DEF AllName
  <2>3. QED
    BY <1>4, <2>1, <2>2 DEF Disconnect, CrashNode, Teardown, BornInv
<1>5. CASE CrashCoordinator
  <2>1. AllName(<<>>, born)
    BY DEF AllName
  <2>2. QED
    BY <1>5, <2>1, IdleType DEF CrashCoordinator, BornInv
<1>6. CASE UNCHANGED <<db, born, task, rx, net>>
  BY <1>6 DEF BornInv
<1>7. QED
  BY <1>1, <1>2, <1>3, <1>4, <1>5, <1>6, BornHandlerStep
     DEF Next, Socket, RegisterNode, FetchNodeCameras, EndStream, Connect,
         BreakLink, vars

-----------------------------------------------------------------------------
(* Messages to be pushed                                                   *)

(* A handler commits a change of c and goes on to push it: unless another  *)
(* one has something about c still to push, c is not excused, and this is  *)
(* the only change of it to be pushed.                                     *)
Commits(h, c, k, v) ==
  /\ k \in {"added", "updated", "removed"}
  /\ k = "removed" <=> v = 0
  /\ task[h].step # "push"
  /\ db' = [db EXCEPT ![c] = v]
  /\ task' = [task EXCEPT ![h] =
       [step |-> "push", msg |-> [kind |-> k, cam |-> c, ver |-> v]]]
  /\ ExcuseRace(c, h)

Committed(h, c, k, v) ==
  /\ \A i \in Handlers \ {h} :
       /\ task'[i] = task[i]
       /\ c \notin excused' /\ task[i].step = "push" =>
            ~Concerns(task[i].msg, c)
  /\ task'[h].step = "push"
  /\ task'[h].msg = [kind |-> k, cam |-> c, ver |-> v]
  /\ db'[c] = v /\ \A d \in Cameras \ {c} : db'[d] = db[d]
  /\ excused \subseteq excused'

LEMMA CommitEffect ==
  ASSUME TypeOK, NEW h \in Handlers, NEW c \in Cameras, NEW k, NEW v,
         Commits(h, c, k, v)
  PROVE  Committed(h, c, k, v)
<1>1. /\ \A i \in Handlers \ {h} : task'[i] = task[i]
      /\ task'[h] =
           [step |-> "push", msg |-> [kind |-> k, cam |-> c, ver |-> v]]
  BY DEF Commits, TypeOK
<1>2. \A i \in Handlers \ {h} :
        c \notin excused' /\ task[i].step = "push" =>
          ~Concerns(task[i].msg, c)
  BY DEF Commits, ExcuseRace, Unpushed
<1>3. db'[c] = v /\ \A d \in Cameras \ {c} : db'[d] = db[d]
  BY DEF Commits, TypeOK, CameraList
<1>4. excused \subseteq excused'
  BY DEF Commits, ExcuseRace
<1>5. QED
  BY <1>1, <1>2, <1>3, <1>4 DEF Committed, Commits

LEMMA CommitCurrent ==
  ASSUME TypeOK, PushesCurrent, NEW h \in Handlers, NEW c \in Cameras,
         NEW k, NEW v, Commits(h, c, k, v)
  PROVE  PushesCurrent'
<1> SUFFICES ASSUME NEW i \in Handlers, NEW d \in Cameras \ excused'
             PROVE  Current(task'[i], d, db'[d])
  BY DEF PushesCurrent
<1> Committed(h, c, k, v)
  BY CommitEffect
<1> USE DEF Committed
<1>1. CASE d # c
  <2>1. CASE i = h
    BY <1>1, <2>1 DEF Current, Concerns, Commits
  <2>2. CASE i # h
    BY <1>1, <2>2 DEF PushesCurrent
  <2>3. QED
    BY <2>1, <2>2
<1>2. CASE d = c
  <2>1. CASE i = h
    BY <1>2, <2>1 DEF Current, States, Commits
  <2>2. CASE i # h
    BY <1>2, <2>2 DEF Current
  <2>3. QED
    BY <2>1, <2>2
<1>3. QED
  BY <1>1, <1>2

(* The three handlers that change a camera commit so.                      *)
LEMMA ChangesCommit ==
  ASSUME TypeOK, NEW h \in Handlers
  PROVE  /\ InsertCamera(h) /\ status # "deleted" =>
              \E c \in Cameras \ born : Commits(h, c, "added", 1)
         /\ \A c \in Cameras :
              /\ UpdateCamera(h, c) => Commits(h, c, "updated", db[c] + 1)
              /\ DeleteCamera(h, c) => Commits(h, c, "removed", 0)
<1>1. InsertCamera(h) /\ status # "deleted" =>
        \E c \in Cameras \ born : Commits(h, c, "added", 1)
  BY DEF InsertCamera, Commits
<1>2. ASSUME NEW c \in Cameras, UpdateCamera(h, c)
      PROVE  Commits(h, c, "updated", db[c] + 1)
  <2>1. db[c] + 1 # 0
    BY <1>2, SessionAssumption DEF UpdateCamera
  <2>2. QED
    BY <1>2, <2>1, IdleType DEF UpdateCamera, Commits
<1>3. ASSUME NEW c \in Cameras, DeleteCamera(h, c)
      PROVE  Commits(h, c, "removed", 0)
  BY <1>3, IdleType DEF DeleteCamera, Commits
<1>4. QED
  BY <1>1, <1>2, <1>3

(* Steps of a handler that commit no change of a camera and push nothing.  *)
Minor(h) ==
  \/ ResolveNode(h) \/ CheckCapacity(h)
  \/ \E st \in {"pending", "approved", "rejected"} : UpdateNodeStatus(h, st)
  \/ FetchForSync(h) \/ CancelHandler(h)
  \/ InsertCamera(h) /\ status = "deleted"

LEMMA MinorEffect ==
  ASSUME TypeOK, NEW h \in Handlers, Minor(h)
  PROVE  /\ \A i \in Handlers \ {h} : task'[i] = task[i]
         /\ task'[h].step = "push" => task'[h].msg.kind = "sync"
         /\ \A c \in Cameras \ excused' :
              /\ ~Pushes(task[h], c)
              /\ task'[h].step = "push" => task'[h].msg.list[c] = db[c]
         /\ excused \subseteq excused'
         /\ UNCHANGED <<db, born, registry, phase, snap, rx, net, alive,
                        nodeConn, session, list>>
<1>1. CASE ResolveNode(h)
  BY <1>1, IdleType DEF ResolveNode, TypeOK, Pushes
<1>2. CASE CheckCapacity(h)
  BY <1>2, IdleType DEF CheckCapacity, TypeOK, Pushes
<1>3. ASSUME NEW st \in {"pending", "approved", "rejected"},
             UpdateNodeStatus(h, st)
      PROVE  /\ task[h].step # "push" /\ task'[h].step # "push"
             /\ \A i \in Handlers \ {h} : task'[i] = task[i]
             /\ UNCHANGED <<db, born, registry, phase, snap, rx, net, alive,
                            nodeConn, session, list, excused>>
  BY <1>3, IdleType DEF UpdateNodeStatus, TypeOK
<1>4. CASE FetchForSync(h)
  <2>1. PICK l \in {db, NoCameras} :
          /\ task' = [task EXCEPT ![h] =
               [step |-> "push", msg |-> [kind |-> "sync", list |-> l]]]
          /\ (l = db /\ excused' = excused) \/ excused' = Cameras
    BY <1>4 DEF FetchForSync
  <2>2. /\ task'[h] =
             [step |-> "push", msg |-> [kind |-> "sync", list |-> l]]
        /\ \A i \in Handlers \ {h} : task'[i] = task[i]
    BY <2>1 DEF TypeOK
  <2>3. excused \subseteq excused'
    BY <2>1 DEF TypeOK
  <2>4. QED
    BY <1>4, <2>1, <2>2, <2>3 DEF FetchForSync, Pushes
<1>5. CASE CancelHandler(h)
  BY <1>5, IdleType DEF CancelHandler, TypeOK, Pushes
<1>6. CASE InsertCamera(h) /\ status = "deleted"
  BY <1>6, IdleType DEF InsertCamera, TypeOK, Pushes
<1>7. QED
  BY <1>1, <1>2, <1>3, <1>4, <1>5, <1>6 DEF Minor, Pushes

LEMMA HandlerSteps ==
  ASSUME NEW h \in Handlers, Request(h) \/ Handler(h) \/ CancelHandler(h)
  PROVE  \/ Minor(h) \/ PushToNode(h) \/ DeleteNode(h)
         \/ InsertCamera(h) /\ status # "deleted"
         \/ \E c \in Cameras : UpdateCamera(h, c) \/ DeleteCamera(h, c)
BY DEF Request, Handler, Minor

LEMMA CurrentStep ==
  TypeOK /\ PushesCurrent /\ [Next]_vars => PushesCurrent'
<1> SUFFICES ASSUME TypeOK, PushesCurrent, [Next]_vars PROVE PushesCurrent'
  OBVIOUS
<1>1. ASSUME NEW h \in Handlers, Minor(h) PROVE PushesCurrent'
  <2> SUFFICES ASSUME NEW i \in Handlers, NEW c \in Cameras \ excused'
               PROVE  Current(task'[i], c, db[c])
    BY <1>1, MinorEffect DEF PushesCurrent
  <2>1. CASE i = h
    BY <1>1, <2>1, MinorEffect DEF Current, States
  <2>2. CASE i # h
    BY <1>1, <2>2, MinorEffect DEF PushesCurrent
  <2>3. QED
    BY <2>1, <2>2
<1>2. ASSUME NEW h \in Handlers, InsertCamera(h), status # "deleted"
      PROVE  PushesCurrent'
  <2>1. PICK c \in Cameras : Commits(h, c, "added", 1)
    BY <1>2, ChangesCommit
  <2>2. QED
    BY <2>1, CommitCurrent, Zenon
<1>3. ASSUME NEW h \in Handlers, NEW c \in Cameras, UpdateCamera(h, c)
      PROVE  PushesCurrent'
  BY <1>3, ChangesCommit, CommitCurrent, Zenon
<1>4. ASSUME NEW h \in Handlers, NEW c \in Cameras, DeleteCamera(h, c)
      PROVE  PushesCurrent'
  BY <1>4, ChangesCommit, CommitCurrent, Zenon
<1>5. ASSUME NEW h \in Handlers, DeleteNode(h) PROVE PushesCurrent'
  BY <1>5 DEF DeleteNode, PushesCurrent
<1>6. ASSUME NEW h \in Handlers, PushToNode(h) PROVE PushesCurrent'
  BY <1>6, IdleType DEF PushToNode, PushesCurrent, Current, TypeOK
<1>7. ASSUME NEW s \in Sessions, FetchNodeCameras(s) PROVE PushesCurrent'
  <2>1. UNCHANGED <<task, db>>
    BY <1>7 DEF FetchNodeCameras
  <2>2. ASSUME NEW h \in Handlers, NEW c \in Cameras \ excused'
        PROVE  Current(task[h], c, db[c])
    <3>1. CASE c \notin excused
      BY <3>1 DEF PushesCurrent
    <3>2. CASE c \in excused
      BY <1>7, <3>2 DEF FetchNodeCameras, StillWrong, Current
    <3>3. QED
      BY <3>1, <3>2
  <2>3. QED
    BY <2>1, <2>2 DEF PushesCurrent
<1>8. CASE CrashCoordinator
  BY <1>8, IdleType DEF CrashCoordinator, PushesCurrent, Current
<1>9. CASE UNCHANGED <<db, task, excused>>
  BY <1>9 DEF PushesCurrent
<1>10. QED
  BY <1>1, <1>2, <1>3, <1>4, <1>5, <1>6, <1>7, <1>8, <1>9, HandlerSteps
     DEF Next, Socket, RegisterNode, SendConfigSync, Forward, EndStream,
         Teardown, Connect, Receive, Disconnect, BreakLink, CrashNode, vars

-----------------------------------------------------------------------------
(* What reaches the node                                                   *)

LEMMA PendingKept ==
  ASSUME NEW h \in Handlers, NEW c,
         \A i \in Handlers \ {h} : task'[i] = task[i],
         ~Pushes(task[h], c), ~Pushes(task'[h], c)
  PROVE  Pending(task', c) = Pending(task, c)
<1>1. {g \in Handlers : Pushes(task'[g], c)} = {g \in Handlers : Pushes(task[g], c)}
  OBVIOUS
<1>2. \A g \in Handlers : Pushes(task[g], c) => task'[g] = task[g]
  OBVIOUS
<1>3. QED
  BY <1>1, <1>2 DEF Pending

LEMMA FollowFrame ==
  ASSUME Delivers, NEW c \in Cameras \ excused,
         Attached' => /\ Attached
                      /\ Stream' = Stream
                      /\ Base'[c] = Base[c]
                      /\ db'[c] = db[c]
                      /\ Pending(task', c) = Pending(task, c)
  PROVE  Attached' => WillFollow(c)'
BY DEF Delivers, WillFollow, Ends

(* Steps that touch nothing of the connection or the node.                 *)
LEMMA SameStream ==
  ASSUME UNCHANGED <<registry, phase, snap, rx, net, alive, nodeConn, list>>
  PROVE  /\ Attached' <=> Attached
         /\ Stream' = Stream
         /\ \A c : db'[c] = db[c] => Base'[c] = Base[c]
         /\ phase[nodeConn] # "registered" => Base' = Base
BY DEF Attached, Stream, Fetched, Base

LEMMA MinorDelivers ==
  ASSUME TypeOK, Delivers, NEW h \in Handlers, Minor(h)
  PROVE  Delivers'
<1> SUFFICES ASSUME Attached', NEW c \in Cameras \ excused'
             PROVE  WillFollow(c)'
  BY DEF Delivers
<1>1. /\ UNCHANGED <<db, registry, phase, snap, rx, net, alive, nodeConn, list>>
      /\ c \notin excused
      /\ ~Pushes(task[h], c) /\ ~Pushes(task'[h], c)
      /\ \A i \in Handlers \ {h} : task'[i] = task[i]
  BY MinorEffect DEF Pushes
<1>2. Pending(task', c) = Pending(task, c)
  BY <1>1, PendingKept
<1>3. QED
  BY <1>1, <1>2, SameStream, FollowFrame

(* All the messages of the stream name identifiers in use.                 *)
LEMMA StreamNames ==
  ASSUME TypeOK, BornInv, nodeConn # 0
  PROVE  AllName(Stream, born)
<1>1. /\ AllName(net[nodeConn], born) /\ AllName(rx[nodeConn], born)
  BY ConnType DEF BornInv
<1>2. AllName(Fetched, born)
  BY DEF Fetched, AllName, Names
<1> DEFINE p == net[nodeConn]
           f == Fetched
           r == rx[nodeConn]
<1>3. p \in Seq(Message) /\ f \in Seq(Message) /\ r \in Seq(Message)
      /\ p \o f \in Seq(Message)
  BY StreamType
<1>4. AllName(p, born) /\ AllName(f, born) /\ AllName(r, born)
  BY <1>1, <1>2
<1> HIDE DEF p, f, r
<1>5. ASSUME NEW a \in Seq(Message), NEW b \in Seq(Message),
             AllName(a, born), AllName(b, born)
      PROVE  AllName(a \o b, born)
  <2>1. PICK d : d = a \o b
    OBVIOUS
  <2>2. /\ Len(d) = Len(a) + Len(b)
        /\ \A i \in 1..(Len(a) + Len(b)) :
             d[i] = IF i <= Len(a) THEN a[i] ELSE b[i - Len(a)]
    BY <2>1, ConcatProperties
  <2>3. Len(a) \in Nat /\ Len(b) \in Nat
    BY LenProperties
  <2>4. ASSUME NEW i \in 1..Len(d) PROVE Names(d[i], born)
    <3>1. CASE i <= Len(a)
      <4>1. i \in 1..Len(a)
        BY <2>2, <2>3, <3>1
      <4>2. QED
        BY <1>5, <2>2, <3>1, <4>1 DEF AllName
    <3>2. CASE ~(i <= Len(a))
      <4>1. i - Len(a) \in 1..Len(b)
        BY <2>2, <2>3, <3>2
      <4>2. QED
        BY <1>5, <2>2, <3>2, <4>1 DEF AllName
    <3>3. QED
      BY <3>1, <3>2
  <2>5. QED
    BY <2>1, <2>4 DEF AllName
<1>6. AllName((p \o f) \o r, born)
  BY <1>3, <1>4, <1>5
<1>7. QED
  BY <1>6 DEF Stream, p, f, r

(* A change of c that is committed now is the only one to be pushed.       *)
LEMMA CommitPending ==
  ASSUME TypeOK, NEW h \in Handlers, NEW c \in Cameras \ excused', NEW k, NEW v,
         Commits(h, c, k, v)
  PROVE  Pending(task, c) = {} /\ Pending(task', c) = {k}
<1>1. Committed(h, c, k, v)
  BY CommitEffect
<1>2. /\ \A i \in Handlers : ~Pushes(task[i], c)
      /\ \A i \in Handlers \ {h} : ~Pushes(task'[i], c)
  BY <1>1 DEF Committed, Commits, Pushes, Concerns
<1>3. Pushes(task'[h], c) /\ task'[h].msg.kind = k
  BY <1>1 DEF Committed, Commits, Pushes
<1>4. QED
  BY <1>2, <1>3 DEF Pending

LEMMA CommitDelivers ==
  ASSUME TypeOK, BornInv, Delivers, NEW h \in Handlers, NEW c \in Cameras,
         NEW k, NEW v, Commits(h, c, k, v),
         k = "added" => c \notin born,
         k = "updated" => db[c] \in Versions /\ v \in Versions,
         UNCHANGED <<registry, phase, snap, rx, net, alive, nodeConn, list>>
  PROVE  Delivers'
<1> SUFFICES ASSUME Attached', NEW d \in Cameras \ excused'
             PROVE  WillFollow(d)'
  BY DEF Delivers
<1>1. /\ Attached /\ Stream' = Stream
      /\ db'[d] = db[d] => Base'[d] = Base[d]
      /\ phase[nodeConn] # "registered" => Base' = Base
  BY SameStream
<1>2. Committed(h, c, k, v) /\ d \notin excused
  BY CommitEffect DEF Committed
<1>3. CASE d # c
  <2>1. /\ ~Pushes(task[h], d) /\ ~Pushes(task'[h], d)
        /\ \A i \in Handlers \ {h} : task'[i] = task[i]
        /\ db'[d] = db[d]
    BY <1>2, <1>3 DEF Committed, Commits, Pushes
  <2>2. Pending(task', d) = Pending(task, d)
    BY <2>1, PendingKept
  <2>3. QED
    BY <1>1, <1>2, <2>1, <2>2, FollowFrame
<1>4. CASE d = c
  <2>1. Pending(task, c) = {} /\ Pending(task', c) = {k} /\ db'[c] = v
    BY <1>2, <1>4, CommitPending DEF Committed
  <2>2. EndsIn(Stream, Base[c], c, {db[c]})
    BY <1>1, <1>2, <1>4, <2>1 DEF Delivers, WillFollow, Ends
  <2>3. db[c] # 0 => UpdatesApply(Stream, Base[c], c)
    BY <1>1, <1>2, <1>4 DEF Delivers, WillFollow
  <2>4. CASE k = "added"
    <3>1. AllName(Stream, born) /\ c \notin born
      BY <1>1, <2>4, StreamNames DEF Attached
    <3>2. UpdatesApply(Stream, Base'[c], c)
      BY <3>1 DEF UpdatesApply, About, AllName, Names, Concerns
    <3>3. QED
      BY <1>1, <1>4, <2>1, <2>4, <3>2 DEF WillFollow, Ends
  <2>5. CASE k = "updated"
    <3>1. db[c] \in Versions /\ v \in Versions /\ 0 \notin Versions /\ db[c] # 0
      BY <2>5 DEF Versions
    <3>2. /\ EndsIn(Stream, Base'[c], c, Versions)
          /\ UpdatesApply(Stream, Base'[c], c)
      <4>1. CASE phase[nodeConn] = "registered"
        <5>1. Base[c] = db[c] /\ Base'[c] = v
          BY <2>1, <4>1 DEF Base
        <5>2. QED
          BY <2>2, <2>3, <3>1, <5>1, Rebase
      <4>2. CASE phase[nodeConn] # "registered"
        <5>1. Base'[c] = Base[c]
          BY <1>1, <4>2
        <5>2. EndsIn(Stream, Base[c], c, Versions)
          BY <2>2, <3>1 DEF EndsIn
        <5>3. QED
          BY <2>3, <3>1, <5>1, <5>2
      <4>3. QED
        BY <4>1, <4>2
    <3>3. QED
      BY <1>1, <1>4, <2>1, <2>5, <3>2 DEF WillFollow, Ends
  <2>6. CASE k = "removed"
    <3>1. v = 0
      BY <2>6 DEF Commits
    <3>2. QED
      BY <1>4, <2>1, <2>6, <3>1 DEF WillFollow
  <2>7. QED
    BY <2>4, <2>5, <2>6 DEF Commits
<1>5. QED
  BY <1>3, <1>4

-----------------------------------------------------------------------------
(* Messages move along the stream                                          *)

LEMMA AppendMoves ==
  ASSUME NEW a \in Seq(Message), NEW b \in Seq(Message), NEW m \in Message,
         NEW r, r = Append(b, m)
  PROVE  a \o r = Append(a \o b, m)
<1>1. <<m>> \in Seq(Message)
  OBVIOUS
<1>2. PICK l : l = <<m>>
  OBVIOUS
<1>3. l \in Seq(Message)
  BY <1>1, <1>2
<1>4. r = b \o l /\ a \o b \in Seq(Message)
  BY <1>2, AppendIsConcat, ConcatProperties, Zenon
<1>5. Append(a \o b, m) = (a \o b) \o l
  BY <1>2, <1>4, AppendIsConcat, Zenon
<1>6. (a \o b) \o l = a \o (b \o l)
  BY <1>3, ConcatAssociative
<1>7. QED
  BY <1>4, <1>5, <1>6, Zenon

LEMMA HeadIsFirst ==
  ASSUME NEW q \in Seq(Message), q # <<>>
  PROVE  Head(q) = q[1]
OBVIOUS

LEMMA ForwardMoves ==
  ASSUME NEW a \in Seq(Message), NEW b \in Seq(Message), b # <<>>
  PROVE  /\ Append(a, Head(b)) \o Tail(b) = a \o b
         /\ Append(a, Head(b)) \in Seq(Message)
<1>1. Head(b) \in Message /\ Tail(b) \in Seq(Message)
  BY HeadTailProperties, Zenon
<1>2. PICK l : l = <<Head(b)>>
  OBVIOUS
<1>3. l[1] = Head(b)
  BY <1>1, <1>2
<1>4. l \in Seq(Message) /\ Len(l) = 1
  BY <1>1, <1>2
<1>5. PICK t \in Seq(Message) : t = Tail(b)
  BY <1>1
<1>6. /\ Len(t) = Len(b) - 1 /\ \A i \in 1..Len(t) : t[i] = b[i + 1]
      /\ Len(b) \in Nat \ {0}
  BY <1>5, HeadTailProperties, EmptySeq, Zenon
<1>7. PICK d : d = l \o t
  OBVIOUS
<1>8. /\ d \in Seq(Message) /\ Len(d) = 1 + Len(t)
      /\ \A i \in 1..(1 + Len(t)) : d[i] = IF i <= 1 THEN l[i] ELSE t[i - 1]
  <2>1. /\ d \in Seq(Message) /\ Len(d) = Len(l) + Len(t)
        /\ \A i \in 1..(Len(l) + Len(t)) :
             d[i] = IF i <= Len(l) THEN l[i] ELSE t[i - Len(l)]
    BY <1>4, <1>7, ConcatProperties, Zenon
  <2>2. QED
    BY <1>4, <2>1
<1>9. l[1] = b[1]
  BY <1>3, HeadIsFirst, Zenon
<1>10. \A i \in 1..Len(d) : d[i] = b[i]
  <2> TAKE i \in 1..Len(d)
  <2>1. CASE i = 1
    BY <1>3, <1>6, <1>8, <1>9, <2>1
  <2>2. CASE i # 1
    <3>1. /\ i - 1 \in 1..Len(t) /\ (i - 1) + 1 = i
          /\ ~(i <= 1) /\ i \in 1..(1 + Len(t))
      BY <1>6, <1>8, <2>2
    <3>2. d[i] = t[i - 1]
      BY <1>8, <3>1
    <3>3. QED
      BY <1>6, <3>1, <3>2
  <2>3. QED
    BY <2>1, <2>2
<1>11. Len(d) = Len(b)
  BY <1>6, <1>8
<1>12. d = b
  BY <1>8, <1>10, <1>11, SeqEqual
<1>13. Append(a, Head(b)) = a \o l
  BY <1>1, <1>2, AppendIsConcat, Zenon
<1>14. (a \o l) \o t = a \o (l \o t)
  BY <1>4, <1>5, ConcatAssociative, SMTT(60)
<1>15. Append(a, Head(b)) \in Seq(Message)
  BY <1>1, AppendProperties, Zenon
<1>16. QED
  BY <1>5, <1>7, <1>12, <1>13, <1>14, <1>15, Zenon

LEMMA TailMoves ==
  ASSUME NEW a \in Seq(Message), NEW b \in Seq(Message), a # <<>>
  PROVE  /\ a \o b # <<>> /\ Head(a \o b) = Head(a)
         /\ Tail(a \o b) = Tail(a) \o b
<1>1. PICK d : d = a \o b
  OBVIOUS
<1>2. /\ d \in Seq(Message) /\ Len(d) = Len(a) + Len(b)
      /\ \A i \in 1..(Len(a) + Len(b)) :
           d[i] = IF i <= Len(a) THEN a[i] ELSE b[i - Len(a)]
  BY <1>1, ConcatProperties
<1>3. Len(a) \in Nat \ {0} /\ Len(b) \in Nat
  BY EmptySeq, LenProperties, Zenon
<1>4. d # <<>>
  BY <1>2, <1>3, EmptySeq
<1>5. Head(d) = Head(a)
  <2>1. Head(d) = d[1] /\ Head(a) = a[1]
    OBVIOUS
  <2>2. d[1] = a[1]
    BY <1>2, <1>3
  <2>3. QED
    BY <2>1, <2>2
<1>6. PICK t : t = Tail(a)
  OBVIOUS
<1>7. PICK u : u = Tail(d)
  OBVIOUS
<1>8. /\ t \in Seq(Message) /\ Len(t) = Len(a) - 1
      /\ \A i \in 1..Len(t) : t[i] = a[i + 1]
  BY <1>6, HeadTailProperties, Zenon
<1>9. /\ u \in Seq(Message) /\ Len(u) = Len(d) - 1
      /\ \A i \in 1..Len(u) : u[i] = d[i + 1]
  BY <1>2, <1>4, <1>7, HeadTailProperties, Zenon
<1>10. PICK e : e = t \o b
  OBVIOUS
<1>11. /\ e \in Seq(Message) /\ Len(e) = Len(t) + Len(b)
       /\ \A i \in 1..(Len(t) + Len(b)) :
            e[i] = IF i <= Len(t) THEN t[i] ELSE b[i - Len(t)]
  BY <1>8, <1>10, ConcatProperties
<1>12. Len(u) = Len(e)
  BY <1>2, <1>3, <1>8, <1>9, <1>11
<1>13. ASSUME NEW i \in 1..Len(u) PROVE u[i] = e[i]
  <2>1. Len(u) = Len(t) + Len(b) /\ Len(t) = Len(a) - 1
    BY <1>8, <1>11, <1>12
  <2>2. u[i] = d[i + 1]
    BY <1>9
  <2>3. /\ i \in 1..(Len(t) + Len(b)) /\ i + 1 \in 1..(Len(a) + Len(b))
        /\ u[i] = d[i + 1]
    BY <1>3, <2>1, <2>2
  <2>4. CASE i <= Len(t)
    <3>1. i + 1 <= Len(a) /\ i \in 1..Len(t)
      BY <1>3, <1>8, <2>4
    <3>2. QED
      BY <1>2, <1>8, <1>11, <2>3, <2>4, <3>1
  <2>5. CASE ~(i <= Len(t))
    <3>1. ~(i + 1 <= Len(a)) /\ (i + 1) - Len(a) = i - Len(t)
      BY <1>3, <1>8, <2>5
    <3>2. d[i + 1] = b[(i + 1) - Len(a)] /\ e[i] = b[i - Len(t)]
      BY <1>2, <1>11, <2>3, <2>5, <3>1
    <3>3. QED
      BY <2>3, <3>1, <3>2
  <2>6. QED
    BY <2>4, <2>5
<1>14. u = e
  BY <1>9, <1>11, <1>12, <1>13, SeqEqual
<1>15. QED
  BY <1>1, <1>4, <1>5, <1>6, <1>7, <1>10, <1>14, Zenon

-----------------------------------------------------------------------------
(* The connection's steps                                                  *)

(* A pushed message ends the stream.                                       *)
LEMMA PushStream ==
  ASSUME TypeOK, NEW h \in Handlers, PushToNode(h), Attached'
  PROVE  /\ Attached /\ Base' = Base
         /\ Stream' = Append(Stream, task[h].msg)
         /\ task[h].msg \in Message
<1>1. /\ Attached /\ nodeConn # 0 /\ nodeConn \in Sessions
      /\ UNCHANGED <<db, list, phase, nodeConn, net, snap>>
      /\ registry = nodeConn /\ task[h].step = "push"
  BY ConnType DEF PushToNode, Attached
<1>2. task[h].msg \in Message
  BY <1>1, TaskMessage
<1>3. rx'[nodeConn] = Append(rx[nodeConn], task[h].msg)
  BY <1>1 DEF PushToNode, TypeOK
<1>4. Fetched' = Fetched
  BY <1>1 DEF Fetched
<1>5. net[nodeConn] \o Fetched \in Seq(Message) /\ rx[nodeConn] \in Seq(Message)
  BY <1>1, StreamType
<1>6. Stream' = (net[nodeConn] \o Fetched) \o rx'[nodeConn]
  BY <1>1, <1>4, Zenon DEF Stream
<1>7. Stream' = Append(Stream, task[h].msg)
  BY <1>2, <1>3, <1>5, <1>6, AppendMoves, Zenon DEF Stream
<1>8. Base' = Base
  BY <1>1 DEF Base
<1>9. QED
  BY <1>1, <1>2, <1>7, <1>8

LEMMA PushDelivers ==
  ASSUME TypeOK, PushesCurrent, Delivers, NEW h \in Handlers, PushToNode(h)
  PROVE  Delivers'
<1> SUFFICES ASSUME Attached', NEW c \in Cameras \ excused'
             PROVE  WillFollow(c)'
  BY DEF Delivers
<1>1. PICK m \in Message : m = task[h].msg
  BY PushStream
<1>2. PICK q \in Seq(Message) : q = Stream
  BY PushStream, StreamType DEF Attached
<1>3. /\ Stream' = Append(q, m) /\ Base' = Base /\ db' = db
      /\ c \notin excused /\ WillFollow(c)
  BY <1>1, <1>2, PushStream DEF PushToNode, Delivers
<1>4. /\ task[h].step = "push" /\ task'[h] = Idle
      /\ \A i \in Handlers \ {h} : task'[i] = task[i]
  BY DEF PushToNode, TypeOK
<1>5. ~Pushes(task'[h], c)
  BY <1>4, IdleType DEF Pushes
<1>6. PICK v : v = Base[c]
  OBVIOUS
<1>7. 0 \notin Versions /\ db[c] \in Versions \cup {0}
  BY DEF Versions, TypeOK, CameraList
<1>8. CASE Concerns(m, c)
  <2>1. States(m, c) = db[c] /\ (m.kind = "updated" => db[c] # 0)
    BY <1>1, <1>3, <1>4, <1>8 DEF PushesCurrent, Current
  <2>2. EndsIn(Append(q, m), v, c, {db[c]})
    BY <1>8, <2>1, EndsAppend
  <2>3. "updated" \in Pending(task', c) => EndsIn(Append(q, m), v, c, Versions)
    <3>1. ASSUME "updated" \in Pending(task', c) PROVE db[c] # 0
      <4>1. PICK i \in Handlers : /\ Pushes(task'[i], c)
                                  /\ task'[i].msg.kind = "updated"
        BY <3>1 DEF Pending
      <4>2. i # h /\ task'[i] = task[i]
        BY <1>4, <1>5, <4>1
      <4>3. QED
        BY <1>3, <4>1, <4>2 DEF PushesCurrent, Current, Pushes, Concerns
    <3>2. QED
      BY <1>7, <1>8, <2>1, <3>1, EndsAppend
  <2>4. ASSUME db[c] # 0 PROVE UpdatesApply(Append(q, m), v, c)
    <3>1. UpdatesApply(q, v, c)
      BY <1>2, <1>3, <1>6, <2>4 DEF WillFollow
    <3>2. m.kind = "updated" => "updated" \in Pending(task, c)
      BY <1>1, <1>4, <1>8 DEF Pending, Pushes, Concerns
    <3>3. m.kind = "updated" => EndsIn(q, v, c, Versions)
      BY <1>2, <1>3, <1>6, <3>2 DEF WillFollow, Ends
    <3>4. QED
      BY <1>7, <3>1, <3>3, ApplyAppend
  <2>5. QED
    BY <1>3, <1>6, <2>2, <2>3, <2>4 DEF WillFollow, Ends
<1>9. CASE ~Concerns(m, c)
  <2>1. ~Pushes(task[h], c)
    BY <1>1, <1>9 DEF Pushes, Concerns
  <2>2. Pending(task', c) = Pending(task, c)
    BY <1>4, <1>5, <2>1, PendingKept
  <2>3. \A W : EndsIn(q, v, c, W) => EndsIn(Append(q, m), v, c, W)
    BY <1>9, EndsAppend
  <2>4. UpdatesApply(q, v, c) => UpdatesApply(Append(q, m), v, c)
    BY <1>7, <1>9, ApplyAppend
  <2>5. QED
    BY <1>2, <1>3, <1>6, <2>2, <2>3, <2>4 DEF WillFollow, Ends
<1>10. QED
  BY <1>8, <1>9

(* A connection registered now has an empty stream, and finds what will be *)
(* fetched.                                                                *)
LEMMA RegisterDelivers ==
  ASSUME TypeOK, SocketsInv, PushesCurrent, NEW s \in Sessions, RegisterNode(s)
  PROVE  Delivers'
<1> SUFFICES ASSUME Attached', NEW c \in Cameras \ excused'
             PROVE  WillFollow(c)'
  BY DEF Delivers
<1>1. /\ nodeConn = s /\ rx[s] = <<>> /\ net[s] = <<>>
      /\ phase'[s] = "registered"
      /\ UNCHANGED <<db, task, net, rx, nodeConn, excused>>
  BY DEF RegisterNode, Attached, SocketsInv, TypeOK
<1>2. Stream' = (<<>> \o <<>>) \o <<>> /\ Base' = db
  BY <1>1 DEF Stream, Fetched, Base
<1>3. Stream' = <<>>
  BY <1>2
<1>4. Len(<<>>) = 0
  OBVIOUS
<1>5. About(Stream', c) = {}
  BY <1>3, <1>4 DEF About
<1>6. \A W : EndsIn(Stream', db[c], c, W) <=> db[c] \in W
  BY <1>5, NothingAbout
<1>7. UpdatesApply(Stream', db[c], c)
  BY <1>5, NothingAbout
<1>8. ASSUME "updated" \in Pending(task, c) PROVE db[c] \in Versions
  <2>1. PICK i \in Handlers : Pushes(task[i], c) /\ task[i].msg.kind = "updated"
    BY <1>8 DEF Pending
  <2>2. db[c] # 0
    BY <1>1, <2>1 DEF PushesCurrent, Current, Pushes, Concerns
  <2>3. QED
    BY <2>2 DEF Versions, TypeOK, CameraList
<1>9. QED
  BY <1>1, <1>2, <1>6, <1>7, <1>8 DEF WillFollow, Ends

(* A step of another connection changes nothing for the node's.            *)
LEMMA OtherDelivers ==
  ASSUME Delivers, NEW s \in Sessions, s # nodeConn, nodeConn \in Sessions,
         \A t \in Sessions \ {s} : /\ phase'[t] = phase[t] /\ snap'[t] = snap[t]
                                   /\ rx'[t] = rx[t] /\ net'[t] = net[t],
         UNCHANGED <<db, task, registry, alive, nodeConn, list>>,
         excused \subseteq excused'
  PROVE  Delivers'
<1>1. /\ phase'[nodeConn] = phase[nodeConn] /\ snap'[nodeConn] = snap[nodeConn]
      /\ rx'[nodeConn] = rx[nodeConn] /\ net'[nodeConn] = net[nodeConn]
  OBVIOUS
<1>2. /\ Attached' <=> Attached
      /\ Stream' = Stream
      /\ Base' = Base
  BY <1>1 DEF Attached, Stream, Fetched, Base
<1>3. ASSUME NEW c \in Cameras \ excused' PROVE Attached' => WillFollow(c)'
  <2>1. Pending(task', c) = Pending(task, c) /\ c \notin excused
    OBVIOUS
  <2>2. QED
    BY <1>2, <2>1, FollowFrame
<1>4. QED
  BY <1>3 DEF Delivers

(* The list fetched comes before what was pushed, and says what the        *)
(* database said before it.                                                *)
LEMMA FetchDelivers ==
  ASSUME TypeOK, SocketsInv, PushesCurrent, Delivers,
         NEW s \in Sessions, FetchNodeCameras(s)
  PROVE  Delivers'
<1>1. CASE s # nodeConn
  <2>1. /\ \A t \in Sessions \ {s} : /\ phase'[t] = phase[t]
                                     /\ snap'[t] = snap[t]
        /\ UNCHANGED <<db, task, registry, alive, nodeConn, list, rx, net>>
        /\ excused \subseteq excused'
    BY <1>1 DEF FetchNodeCameras, TypeOK
  <2>2. CASE nodeConn \in Sessions
    BY <1>1, <2>1, <2>2, OtherDelivers
  <2>3. CASE nodeConn \notin Sessions
    BY <2>1, <2>3, ConnType DEF Delivers, Attached
  <2>4. QED
    BY <2>2, <2>3
<1>2. CASE s = nodeConn /\ excused' = Cameras
  BY <1>2 DEF Delivers
<1>3. CASE s = nodeConn /\ excused' # Cameras
  <2> SUFFICES ASSUME Attached', NEW c \in Cameras \ excused'
               PROVE  WillFollow(c)'
    BY DEF Delivers
  <2>1. /\ phase[s] = "registered" /\ phase'[s] = "fetched" /\ snap'[s] = db
        /\ excused' = StillWrong(s) /\ nodeConn' = s /\ net[s] = <<>>
        /\ UNCHANGED <<db, task, registry, alive, nodeConn, list, rx, net>>
    BY <1>3 DEF FetchNodeCameras, TypeOK, SocketsInv
  <2>2. Attached /\ Base = db /\ Base' = list
    BY <1>3, <2>1 DEF Attached, Base
  <2>3. PICK m : m = [kind |-> "sync", list |-> db]
    OBVIOUS
  <2>4. m \in Message /\ m.kind = "sync" /\ States(m, c) = db[c]
    BY <2>3, SyncType DEF TypeOK, States
  <2>5. PICK q \in Seq(Message) : q = rx[s]
    BY DEF TypeOK
  <2>6. Stream = q
    <3>1. Fetched = <<>>
      BY <1>3, <2>1 DEF Fetched
    <3>2. Stream = (<<>> \o <<>>) \o q
      BY <1>3, <2>1, <2>5, <3>1, Zenon DEF Stream
    <3>3. QED
      BY <3>2, ConcatEmptySeq, EmptySeq
  <2>7. Stream' = <<m>> \o q
    <3>1. Fetched' = <<m>>
      BY <1>3, <2>1, <2>3 DEF Fetched
    <3>2. <<m>> \in Seq(Message)
      BY <2>4
    <3>3. Stream' = (<<>> \o <<m>>) \o q
      BY <1>3, <2>1, <2>5, <3>1, Zenon DEF Stream
    <3>4. <<>> \o <<m>> = <<m>>
      BY <3>2, ConcatEmptySeq, Zenon
    <3>5. QED
      BY <3>3, <3>4, Zenon
  <2>8. /\ Pending(task, c) = {} => EndsIn(q, db[c], c, {db[c]})
        /\ "updated" \in Pending(task, c) => EndsIn(q, db[c], c, Versions)
        /\ db[c] # 0 => UpdatesApply(q, db[c], c)
    <3>1. CASE c \notin excused
      BY <2>2, <2>6, <3>1 DEF Delivers, WillFollow, Ends
    <3>2. CASE c \in excused
      <4>1. /\ \A h \in Handlers :
                 task[h].step = "push" => ~Concerns(task[h].msg, c)
            /\ \A i \in DOMAIN rx[s] : ~Concerns(rx[s][i], c)
        BY <2>1, <3>2 DEF StillWrong
      <4>2. Pending(task, c) = {}
        BY <4>1 DEF Pending, Pushes, Concerns
      <4>3. About(q, c) = {}
        BY <2>5, <4>1, LenProperties DEF About
      <4>4. /\ EndsIn(q, db[c], c, {db[c]})
            /\ UpdatesApply(q, db[c], c)
        BY <4>3, NothingAbout
      <4>5. QED
        BY <4>2, <4>4
    <3>3. QED
      BY <3>1, <3>2
  <2>9. \A W : EndsIn(q, db[c], c, W) => EndsIn(<<m>> \o q, list[c], c, W)
    BY <2>4, EndsCons
  <2>10. db[c] # 0 /\ UpdatesApply(q, db[c], c) =>
           UpdatesApply(<<m>> \o q, list[c], c)
    BY <2>4, ApplyCons
  <2>11. PICK p : p = <<m>> \o q
    OBVIOUS
  <2>12. /\ Pending(task', c) = {} => EndsIn(p, list[c], c, {db[c]})
         /\ "updated" \in Pending(task', c) => EndsIn(p, list[c], c, Versions)
         /\ db[c] # 0 => UpdatesApply(p, list[c], c)
    BY <2>1, <2>8, <2>9, <2>10, <2>11, Zenon
  <2>13. Stream' = p /\ Base' = list /\ db' = db
    BY <2>1, <2>2, <2>7, <2>11
  <2>14. QED
    BY <2>12, <2>13, Zenon DEF WillFollow, Ends
<1>4. QED
  BY <1>1, <1>2, <1>3

(* The stream stays the same.                                              *)
LEMMA SendDelivers ==
  ASSUME TypeOK, Delivers, NEW s \in Sessions, SendConfigSync(s)
  PROVE  Delivers'
<1>1. UNCHANGED <<db, task, registry, alive, nodeConn, list, rx, excused>>
  BY DEF SendConfigSync
<1>2. CASE s # nodeConn
  <2>1. \A t \in Sessions \ {s} : /\ phase'[t] = phase[t]
                                  /\ snap'[t] = snap[t]
                                  /\ net'[t] = net[t]
    BY DEF SendConfigSync, Transmit, TypeOK
  <2>2. CASE nodeConn \in Sessions
    BY <1>1, <1>2, <2>1, <2>2, OtherDelivers
  <2>3. CASE nodeConn \notin Sessions
    BY <1>1, <2>3, ConnType DEF Delivers, Attached
  <2>4. QED
    BY <2>2, <2>3
<1>3. CASE s = nodeConn
  <2> SUFFICES ASSUME Attached', NEW c \in Cameras \ excused'
               PROVE  WillFollow(c)'
    BY DEF Delivers
  <2>1. /\ phase[s] = "fetched" /\ phase'[s] = "open"
        /\ alive[s] /\ Attached /\ nodeConn # 0
    BY <1>1, <1>3 DEF SendConfigSync, Attached, TypeOK
  <2>2. PICK m : m = [kind |-> "sync", list |-> snap[s]]
    OBVIOUS
  <2>3. m \in Message
    BY <2>2, SyncType DEF TypeOK
  <2>4. net'[s] = Append(net[s], m)
    BY <2>1, <2>2 DEF SendConfigSync, Transmit, TypeOK
  <2>5. net[s] \in Seq(Message) /\ Append(net[s], m) \in Seq(Message)
    BY <2>3, AppendProperties DEF TypeOK
  <2>6. Fetched = <<m>> /\ Fetched' = <<>>
    BY <1>1, <1>3, <2>1, <2>2 DEF Fetched
  <2>7. Stream' = (Append(net[s], m) \o <<>>) \o rx[s]
    BY <1>1, <1>3, <2>4, <2>6, Zenon DEF Stream
  <2>8. Stream = (net[s] \o <<m>>) \o rx[s]
    BY <1>3, <2>6, Zenon DEF Stream
  <2>9. Append(net[s], m) \o <<>> = net[s] \o <<m>>
    BY <2>3, <2>5, ConcatEmptySeq, AppendIsConcat, Zenon
  <2>10. Stream' = Stream
    BY <2>7, <2>8, <2>9, Zenon
  <2>11. Base' = Base
    BY <1>1, <1>3, <2>1 DEF Base
  <2>12. Pending(task', c) = Pending(task, c)
    BY <1>1
  <2>13. QED
    BY <1>1, <2>1, <2>10, <2>11, <2>12, FollowFrame
<1>4. QED
  BY <1>2, <1>3

LEMMA ForwardDelivers ==
  ASSUME TypeOK, Delivers, NEW s \in Sessions, Forward(s)
  PROVE  Delivers'
<1>1. UNCHANGED <<db, task, registry, alive, nodeConn, list, snap, excused>>
  BY DEF Forward
<1>2. CASE s # nodeConn
  <2>1. \A t \in Sessions \ {s} : /\ phase'[t] = phase[t]
                                  /\ rx'[t] = rx[t]
                                  /\ net'[t] = net[t]
    BY DEF Forward, Transmit, TypeOK
  <2>2. CASE nodeConn \in Sessions
    BY <1>1, <1>2, <2>1, <2>2, OtherDelivers
  <2>3. CASE nodeConn \notin Sessions
    BY <1>1, <2>3, ConnType DEF Delivers, Attached
  <2>4. QED
    BY <2>2, <2>3
<1>3. CASE s = nodeConn
  <2> SUFFICES ASSUME Attached', NEW c \in Cameras \ excused'
               PROVE  WillFollow(c)'
    BY DEF Delivers
  <2>1. /\ phase[s] = "open" /\ phase'[s] = "open"
        /\ alive[s] /\ Attached /\ nodeConn # 0
    BY <1>1, <1>3 DEF Forward, Attached, TypeOK
  <2>2. PICK a \in Seq(Message) : a = net[s]
    BY DEF TypeOK
  <2>3. PICK b \in Seq(Message) : b = rx[s]
    BY DEF TypeOK
  <2>4. /\ b # <<>> /\ net'[s] = Append(a, Head(b)) /\ rx'[s] = Tail(b)
    BY <2>1, <2>2, <2>3 DEF Forward, Transmit, TypeOK
  <2>5. Fetched = <<>> /\ Fetched' = <<>>
    BY <1>1, <1>3, <2>1 DEF Fetched
  <2>6. Stream' = (Append(a, Head(b)) \o <<>>) \o Tail(b)
    BY <1>1, <1>3, <2>4, <2>5, Zenon DEF Stream
  <2>7. Stream = (a \o <<>>) \o b
    BY <1>3, <2>2, <2>3, <2>5, Zenon DEF Stream
  <2>8. Append(a, Head(b)) \in Seq(Message)
    BY <2>4, ForwardMoves
  <2>9. Append(a, Head(b)) \o <<>> = Append(a, Head(b)) /\ a \o <<>> = a
    BY <2>8, ConcatEmptySeq, Zenon
  <2>10. Stream' = Stream
    BY <2>4, <2>6, <2>7, <2>9, ForwardMoves, Zenon
  <2>11. Base' = Base
    BY <1>1, <1>3, <2>1 DEF Base
  <2>12. Pending(task', c) = Pending(task, c)
    BY <1>1
  <2>13. QED
    BY <1>1, <2>1, <2>10, <2>11, <2>12, FollowFrame
<1>4. QED
  BY <1>2, <1>3

(* The node takes the first message.                                       *)
LEMMA IncomingIsAfter ==
  ASSUME TypeOK, NEW m \in Message, NEW c \in Cameras
  PROVE  HandleIncoming(m)[c] = After(m, c, list[c])
<1>1. m \in CameraChange \/ m \in ConfigSync
  BY DEF Message
<1>2. CASE m \in ConfigSync
  <2>1. m.kind = "sync"
    BY <1>2 DEF ConfigSync
  <2>2. QED
    BY <2>1 DEF HandleIncoming, After, States, Concerns
<1>3. CASE m \in CameraChange
  <2>1. m.kind \in {"added", "updated", "removed"} /\ m.cam \in Cameras
    BY <1>3 DEF CameraChange
  <2>2. list \in [Cameras -> 0..MaxVersion]
    BY DEF TypeOK, CameraList
  <2>3. m.kind = "added" => HandleIncoming(m) = [list EXCEPT ![m.cam] = m.ver]
    BY DEF HandleIncoming
  <2>4. m.kind = "updated" =>
          HandleIncoming(m) = [list EXCEPT ![m.cam] = IF @ = 0 THEN 0 ELSE m.ver]
    BY DEF HandleIncoming
  <2>5. m.kind = "removed" => HandleIncoming(m) = [list EXCEPT ![m.cam] = 0]
    BY DEF HandleIncoming
  <2>6. QED
    BY <2>1, <2>2, <2>3, <2>4, <2>5 DEF After, States, Concerns
<1>4. QED
  BY <1>1, <1>2, <1>3

LEMMA ReceiveDelivers ==
  ASSUME TypeOK, SocketsInv, PushesCurrent, Delivers, Receive
  PROVE  Delivers'
<1> SUFFICES ASSUME Attached', NEW c \in Cameras \ excused'
             PROVE  WillFollow(c)'
  BY DEF Delivers
<1>1. /\ nodeConn # 0 /\ nodeConn \in Sessions
      /\ UNCHANGED <<db, task, registry, phase, snap, rx, alive, nodeConn,
                     excused>>
  BY ConnType DEF Receive
<1>2. Attached /\ c \notin excused
  BY <1>1 DEF Attached
<1>3. PICK a \in Seq(Message) : a = net[nodeConn]
  BY <1>1 DEF TypeOK
<1>4. PICK b \in Seq(Message) : b = rx[nodeConn]
  BY <1>1 DEF TypeOK
<1>5. /\ a # <<>> /\ net'[nodeConn] = Tail(a)
      /\ list' = HandleIncoming(Head(a))
  BY <1>1, <1>3 DEF Receive, TypeOK
<1>6. phase[nodeConn] = "open"
  BY <1>1, <1>2, <1>3, <1>5 DEF Attached, SocketsInv
<1>7. Fetched = <<>> /\ Fetched' = <<>> /\ Base = list /\ Base' = list'
  BY <1>1, <1>6 DEF Fetched, Base
<1>8. Head(a) \in Message /\ Tail(a) \in Seq(Message)
  BY <1>5, HeadTailProperties, Zenon
<1>9. a \o <<>> = a /\ Tail(a) \o <<>> = Tail(a)
  BY <1>8, ConcatEmptySeq, Zenon
<1>10. Stream = a \o b /\ Stream' = Tail(a) \o b
  BY <1>1, <1>3, <1>4, <1>5, <1>7, <1>9, Zenon DEF Stream
<1>11. PICK q \in Seq(Message) : q = Stream
  BY <1>1, StreamType
<1>12. q # <<>> /\ Head(q) = Head(a) /\ Stream' = Tail(q)
  BY <1>5, <1>10, <1>11, TailMoves, Zenon
<1>13. list'[c] = After(Head(q), c, list[c])
  BY <1>5, <1>8, <1>12, IncomingIsAfter, Zenon
<1>14. WillFollow(c)
  BY <1>2 DEF Delivers
<1>15. PICK v : v = list[c]
  OBVIOUS
<1>16. PICK w : w = After(Head(q), c, v)
  OBVIOUS
<1>17. PICK r : r = Tail(q)
  OBVIOUS
<1>18. \A W : EndsIn(q, v, c, W) /\ (UpdatesApply(q, v, c) \/ W = {0}) =>
                EndsIn(r, w, c, W)
  BY <1>12, <1>16, <1>17, EndsTail, Zenon
<1>19. UpdatesApply(q, v, c) => UpdatesApply(r, w, c)
  BY <1>12, <1>16, <1>17, ApplyTail, Zenon
<1>20. /\ Pending(task, c) = {} => EndsIn(q, v, c, {db[c]})
       /\ "updated" \in Pending(task, c) => EndsIn(q, v, c, Versions)
       /\ db[c] # 0 => UpdatesApply(q, v, c)
  BY <1>7, <1>11, <1>14, <1>15 DEF WillFollow, Ends
<1>21. "updated" \in Pending(task, c) => db[c] # 0
  BY <1>2 DEF Pending, PushesCurrent, Current, Pushes, Concerns
<1>22. /\ Pending(task, c) = {} => EndsIn(r, w, c, {db[c]})
       /\ "updated" \in Pending(task, c) => EndsIn(r, w, c, Versions)
       /\ db[c] # 0 => UpdatesApply(r, w, c)
  BY <1>18, <1>19, <1>20, <1>21
<1>23. Stream' = r /\ Base'[c] = w /\ Pending(task', c) = Pending(task, c)
       /\ db'[c] = db[c]
  BY <1>1, <1>7, <1>12, <1>13, <1>15, <1>16, <1>17
<1>24. QED
  BY <1>22, <1>23, Zenon DEF WillFollow, Ends

LEMMA ChangeDelivers ==
  ASSUME TypeOK, BornInv, Delivers, NEW h \in Handlers,
         Request(h) \/ Handler(h) \/ CancelHandler(h), ~PushToNode(h)
  PROVE  Delivers'
<1>1. CASE Minor(h)
  BY <1>1, MinorDelivers
<1>2. CASE DeleteNode(h)
  BY <1>2 DEF DeleteNode, Delivers
<1>3. CASE InsertCamera(h) /\ status # "deleted"
  <2>1. PICK c \in Cameras \ born : Commits(h, c, "added", 1)
    BY <1>3, ChangesCommit
  <2>2. UNCHANGED <<registry, phase, snap, rx, net, alive, nodeConn, list>>
    BY <1>3 DEF InsertCamera
  <2>3. c \notin born
    OBVIOUS
  <2>4. QED
    BY <2>1, <2>2, <2>3, CommitDelivers
<1>4. ASSUME NEW c \in Cameras, UpdateCamera(h, c) PROVE Delivers'
  <2>1. Commits(h, c, "updated", db[c] + 1)
    BY <1>4, ChangesCommit
  <2>2. /\ db[c] \in Versions /\ db[c] + 1 \in Versions
        /\ UNCHANGED <<registry, phase, snap, rx, net, alive, nodeConn, list>>
    BY <1>4, SessionAssumption DEF UpdateCamera, Versions
  <2>3. QED
    BY <2>1, <2>2, CommitDelivers
<1>5. ASSUME NEW c \in Cameras, DeleteCamera(h, c) PROVE Delivers'
  <2>1. Commits(h, c, "removed", 0)
    BY <1>5, ChangesCommit
  <2>2. UNCHANGED <<registry, phase, snap, rx, net, alive, nodeConn, list>>
    BY <1>5 DEF DeleteCamera
  <2>3. QED
    BY <2>1, <2>2, CommitDelivers
<1>6. QED
  BY <1>1, <1>2, <1>3, <1>4, <1>5, HandlerSteps

(* A connection that is not attached after the step delivers nothing.      *)
LEMMA DetachedDelivers ==
  ASSUME TypeOK, SocketsInv, Delivers,
         \/ \E s \in Sessions : Teardown(s) \/ EndStream(s)
         \/ Connect \/ Disconnect \/ BreakLink \/ CrashNode \/ CrashCoordinator
  PROVE  Delivers'
<1>1. ASSUME NEW s \in Sessions, Teardown(s) PROVE ~Attached'
  BY <1>1 DEF Teardown, Attached
<1>2. ASSUME NEW s \in Sessions, EndStream(s) PROVE Delivers'
  <2>1. CASE s = nodeConn
    BY <1>2, <2>1 DEF EndStream, Delivers, Attached
  <2>2. CASE s # nodeConn
    <3>1. /\ \A t \in Sessions \ {s} : phase'[t] = phase[t]
          /\ UNCHANGED <<db, task, registry, alive, nodeConn, list, snap, rx,
                         net, excused>>
      BY <1>2 DEF EndStream, TypeOK
    <3>2. CASE nodeConn \in Sessions
      BY <2>2, <3>1, <3>2, OtherDelivers
    <3>3. CASE nodeConn \notin Sessions
      BY <3>1, <3>3, ConnType DEF Delivers, Attached
    <3>4. QED
      BY <3>2, <3>3
  <2>3. QED
    BY <2>1, <2>2
<1>3. CASE Connect
  BY <1>3 DEF Connect, Attached, Delivers, TypeOK
<1>4. CASE Disconnect \/ CrashNode
  BY <1>4 DEF Disconnect, CrashNode, Attached, Delivers
<1>5. CASE BreakLink
  <2>1. nodeConn \in Sessions
    BY <1>5, ConnType DEF BreakLink
  <2>2. QED
    BY <1>5, <2>1 DEF BreakLink, Attached, Delivers, TypeOK
<1>6. CASE CrashCoordinator
  BY <1>6 DEF CrashCoordinator, Attached, Delivers
<1>7. QED
  BY <1>1, <1>2, <1>3, <1>4, <1>5, <1>6 DEF Delivers

LEMMA DeliversStep ==
  TypeOK /\ FollowsInv /\ [Next]_vars => Delivers'
<1> SUFFICES ASSUME TypeOK, SocketsInv, BornInv, PushesCurrent, Delivers,
                    [Next]_vars
             PROVE  Delivers'
  BY DEF FollowsInv
<1>1. ASSUME NEW h \in Handlers, Request(h) \/ Handler(h) \/ CancelHandler(h)
      PROVE  Delivers'
  <2>1. CASE PushToNode(h)
    BY <2>1, PushDelivers
  <2>2. CASE ~PushToNode(h)
    BY <1>1, <2>2, ChangeDelivers
  <2>3. QED
    BY <2>1, <2>2
<1>2. ASSUME NEW s \in Sessions, Socket(s) \/ EndStream(s) PROVE Delivers'
  <2>1. CASE RegisterNode(s)
    BY <2>1, RegisterDelivers
  <2>2. CASE FetchNodeCameras(s)
    BY <2>2, FetchDelivers
  <2>3. CASE SendConfigSync(s)
    BY <2>3, SendDelivers
  <2>4. CASE Forward(s)
    BY <2>4, ForwardDelivers
  <2>5. CASE Teardown(s) \/ EndStream(s)
    BY <2>5, DetachedDelivers
  <2>6. QED
    BY <1>2, <2>1, <2>2, <2>3, <2>4, <2>5 DEF Socket
<1>3. CASE Receive
  BY <1>3, ReceiveDelivers
<1>4. CASE Connect \/ Disconnect \/ BreakLink \/ CrashNode \/ CrashCoordinator
  BY <1>4, DetachedDelivers
<1>5. CASE UNCHANGED vars
  <2>1. UNCHANGED <<db, task, registry, phase, snap, rx, net, alive, nodeConn,
                    list, excused>>
    BY <1>5 DEF vars
  <2>2. /\ Attached' <=> Attached
        /\ Stream' = Stream
        /\ \A c : Base'[c] = Base[c]
    BY <2>1, SameStream
  <2>3. \A c : Pending(task', c) = Pending(task, c)
    BY <2>1
  <2>4. QED
    BY <2>1, <2>2, <2>3, FollowFrame DEF Delivers
<1>6. QED
  BY <1>1, <1>2, <1>3, <1>4, <1>5 DEF Next

LEMMA FollowsInit == Init => FollowsInv
<1> SUFFICES ASSUME Init PROVE FollowsInv
  OBVIOUS
<1>1. SocketsInv
  BY DEF Init, SocketsInv, Sessions
<1>2. BornInv
  BY IdleType DEF Init, BornInv, AllName, NoCameras
<1>3. PushesCurrent
  BY IdleType DEF Init, PushesCurrent, Current
<1>4. Delivers
  BY DEF Init, Delivers, Attached
<1>5. QED
  BY <1>1, <1>2, <1>3, <1>4 DEF FollowsInv

(* To a served node, when nothing about a camera is under way, the whole   *)
(* stream is about other cameras.                                          *)
LEMMA QuietFollows ==
  ASSUME TypeOK, Delivers
  PROVE  ServedNodeFollows
<1> SUFFICES ASSUME Served, NEW c \in Cameras \ excused, Quiet(c)
             PROVE  list[c] = db[c]
  BY DEF ServedNodeFollows
<1>1. Attached /\ nodeConn \in Sessions
  BY ConnType DEF Served, Attached
<1>2. Fetched = <<>> /\ Base = list
  BY DEF Served, Fetched, Base
<1>3. PICK a \in Seq(Message) : a = net[nodeConn]
  BY <1>1 DEF TypeOK
<1>4. PICK b \in Seq(Message) : b = rx[nodeConn]
  BY <1>1 DEF TypeOK
<1>5. Stream = a \o b
  <2>1. Stream = (a \o <<>>) \o b
    BY <1>2, <1>3, <1>4, Zenon DEF Stream
  <2>2. a \o <<>> = a
    BY ConcatEmptySeq, Zenon
  <2>3. QED
    BY <2>1, <2>2
<1>6. /\ \A i \in 1..Len(a) : ~Concerns(a[i], c)
      /\ \A i \in 1..Len(b) : ~Concerns(b[i], c)
  BY <1>3, <1>4, LenProperties DEF Quiet
<1>7. PICK d : d = a \o b
  OBVIOUS
<1>8. /\ Len(d) = Len(a) + Len(b) /\ Len(a) \in Nat /\ Len(b) \in Nat
      /\ \A i \in 1..(Len(a) + Len(b)) :
           d[i] = IF i <= Len(a) THEN a[i] ELSE b[i - Len(a)]
  BY <1>7, ConcatProperties, LenProperties
<1>9. About(d, c) = {}
  <2> SUFFICES ASSUME NEW i \in 1..Len(d) PROVE ~Concerns(d[i], c)
    BY DEF About
  <2>1. CASE i <= Len(a)
    BY <1>6, <1>8, <2>1
  <2>2. CASE ~(i <= Len(a))
    <3>1. i - Len(a) \in 1..Len(b)
      BY <1>8, <2>2
    <3>2. QED
      BY <1>6, <1>8, <2>2, <3>1
  <2>3. QED
    BY <2>1, <2>2
<1>10. Pending(task, c) = {}
  BY DEF Quiet, Pending, Pushes, Concerns
<1>11. EndsIn(d, list[c], c, {db[c]})
  BY <1>1, <1>2, <1>5, <1>7, <1>10 DEF Delivers, WillFollow, Ends
<1>12. QED
  BY <1>9, <1>11, NothingAbout

(* A served node has, of every camera about which nothing is under way and *)
(* that no named race or failure has left behind, what the database says   *)
(* (node_ws.rs registers before it fetches, and sends the list first).     *)
THEOREM NodeFollows == Spec => []ServedNodeFollows
<1>1. Init => FollowsInv
  BY FollowsInit
<1>2. TypeOK /\ FollowsInv /\ [Next]_vars => FollowsInv'
  BY SocketsStep, BornStep, CurrentStep, DeliversStep DEF FollowsInv
<1>3. TypeOK /\ FollowsInv => ServedNodeFollows
  BY QuietFollows DEF FollowsInv
<1>4. Spec => []TypeOK
  BY TypeCorrect
<1>5. QED
  BY <1>1, <1>2, <1>3, <1>4, PTL DEF Spec
=============================================================================

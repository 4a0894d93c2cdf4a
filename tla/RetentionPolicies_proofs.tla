---------------------- MODULE RetentionPolicies_proofs ----------------------
(***************************************************************************)
(* Proofs about RetentionPolicies, for any policies, requests and          *)
(* recordings, any batch size and any bounds.                              *)
(***************************************************************************)
EXTENDS RetentionPolicies, TLAPS

(* The conjuncts of the type invariant by the parts they speak of.         *)
TableType == /\ keep \in [Policies -> 0..MaxDays]
             /\ known \in SUBSET Policies
             /\ dflt \in SUBSET Policies
             /\ dropped \in SUBSET Policies
TxType == tx \in [Admins -> Tx \cup {NoTx}]
RecordingType ==
  /\ row \in [Recordings -> Row \cup {NoRow}]
  /\ age \in [Recordings -> 0..(MaxDays + 1)]
  /\ lookup \in Lookup \cup {NoLookup}
  /\ lost \in SUBSET [rec: Recordings, policy: Policies \cup {NoPolicy}]
PassType == batch \in SUBSET Recordings /\ edited \in BOOLEAN
BoundType == requests \in 0..MaxRequests /\ errors \in 0..MaxErrors

LEMMA PolicyTypeParts ==
  /\ PoliciesTypeOK <=> TableType /\ TxType /\ RecordingType /\ PassType
                          /\ BoundType
  /\ PoliciesTypeOK' <=> TableType' /\ TxType' /\ RecordingType' /\ PassType'
                           /\ BoundType'
BY DEF PoliciesTypeOK, TableType, TxType, RecordingType, PassType, BoundType

LEMMA CountedStep ==
  ASSUME BoundType
  PROVE  /\ RequestComes /\ UNCHANGED errors => BoundType'
         /\ DbError /\ UNCHANGED requests => BoundType'
BY PoliciesAssumption DEF BoundType, RequestComes, DbError

(* What a transaction at each step is.                                     *)
Steps == {"clear", "write", "index", "commit"}
LEMMA TxShape ==
  ASSUME TxType, NEW h \in Admins
  PROVE  /\ tx[h] = NoTx <=> tx[h].step = "none"
         /\ tx[h] # NoTx => tx[h].step \in Steps
         /\ tx[h].step \in Steps => tx[h] # NoTx /\ tx[h].want \in Want
         /\ tx[h].step \in {"clear", "write", "index"}
              => tx[h].op \in {"create", "update"}
         /\ tx[h].step = "clear" => tx[h].seen \in SUBSET Policies
         /\ tx[h].step \in {"write", "index", "commit"}
              => tx[h].cleared \in SUBSET Policies
<1>1. tx[h] = NoTx \/ tx[h] \in [step: {"clear"}, op: {"create", "update"},
                                  want: Want, seen: SUBSET Policies]
        \/ tx[h] \in [step: {"write", "index"}, op: {"create", "update"},
                      want: Want, cleared: SUBSET Policies]
        \/ tx[h] \in [step: {"commit"}, want: Want, cleared: SUBSET Policies]
  BY DEF TxType, Tx
<1>2. NoTx.step = "none"
  BY DEF NoTx
<1>3. QED
  BY <1>1, <1>2 DEF Steps

LEMMA WantShape ==
  ASSUME NEW w \in Want
  PROVE  /\ w.id \in Policies /\ w.keep \in 0..MaxDays
         /\ w.default \in {"set", "clear", "leave"}
BY DEF Want

(* What each kind of step does to the transactions: it opens one, takes    *)
(* one further, or ends one.                                               *)
LEMMA BeginType ==
  ASSUME PoliciesTypeOK, NEW h \in Admins, NEW op \in {"create", "update"},
         NEW want \in Want, Begin(h, op, want)
  PROVE  PoliciesTypeOK'
<1>1. TxType'
  <2>1. dflt \in SUBSET Policies /\ dflt \ {want.id} \in SUBSET Policies
    BY DEF PoliciesTypeOK
  <2>2. [step |-> "clear", op |-> op, want |-> want,
         seen |-> IF op = "update" THEN dflt \ {want.id} ELSE dflt] \in Tx
    BY <2>1 DEF Tx
  <2>3. [step |-> "write", op |-> op, want |-> want, cleared |-> {}] \in Tx
    BY DEF Tx
  <2>4. QED
    BY <2>2, <2>3, PolicyTypeParts DEF Begin, TxType
<1>2. BoundType'
  BY PolicyTypeParts, CountedStep DEF Begin
<1>3. QED
  BY <1>1, <1>2, PolicyTypeParts
     DEF Begin, policyTable, recordingVars, passVars, TableType, RecordingType,
         PassType

LEMMA ClearType ==
  ASSUME PoliciesTypeOK, NEW h \in Admins, ClearDefaults(h)
  PROVE  PoliciesTypeOK'
<1>1. /\ tx[h].op \in {"create", "update"} /\ tx[h].want \in Want
      /\ tx[h].seen \cap dflt \in SUBSET Policies
  BY PolicyTypeParts, TxShape DEF ClearDefaults, Steps
<1>2. [step |-> "write", op |-> tx[h].op, want |-> tx[h].want,
       cleared |-> tx[h].seen \cap dflt] \in Tx
  BY <1>1 DEF Tx
<1>3. TxType'
  BY <1>2, PolicyTypeParts DEF ClearDefaults, TxType
<1>4. QED
  BY <1>3, PolicyTypeParts
     DEF ClearDefaults, policyTable, recordingVars, passVars, TableType,
         RecordingType, PassType, BoundType

LEMMA WriteType ==
  ASSUME PoliciesTypeOK, NEW h \in Admins, WritePolicy(h) \/ EnterDefault(h)
  PROVE  PoliciesTypeOK'
<1>1. /\ tx[h].op \in {"create", "update"} /\ tx[h].want \in Want
      /\ tx[h].cleared \in SUBSET Policies
  BY PolicyTypeParts, TxShape DEF WritePolicy, EnterDefault, Steps
<1>2. /\ [step |-> "commit", want |-> tx[h].want, cleared |-> tx[h].cleared] \in Tx
      /\ [step |-> "index", op |-> tx[h].op, want |-> tx[h].want,
          cleared |-> tx[h].cleared] \in Tx
  BY <1>1 DEF Tx
<1>3. \E t \in Tx \cup {NoTx} : tx' = [tx EXCEPT ![h] = t]
  <2>1. CASE WritePolicy(h)
    BY <1>2, <2>1 DEF WritePolicy, Rollback
  <2>2. CASE EnterDefault(h)
    BY <1>2, <2>2 DEF EnterDefault, Rollback
  <2>3. QED
    BY <2>1, <2>2
<1>4. TxType'
  BY <1>3, PolicyTypeParts DEF TxType
<1>5. QED
  BY <1>4, PolicyTypeParts
     DEF WritePolicy, EnterDefault, policyTable, recordingVars, passVars,
         TableType, RecordingType, PassType, BoundType

LEMMA CommitType ==
  ASSUME PoliciesTypeOK, NEW h \in Admins, CommitPolicy(h)
  PROVE  PoliciesTypeOK'
<1> DEFINE w == tx[h].want
<1>1. w \in Want
  BY PolicyTypeParts, TxShape DEF CommitPolicy, Steps
<1>2. w.id \in Policies /\ w.keep \in 0..MaxDays
  BY <1>1, WantShape
<1>3. /\ keep' = [keep EXCEPT ![w.id] = IF w.keep = 0 THEN @ ELSE w.keep]
      /\ known' = known \cup {w.id}
      /\ dflt' \subseteq dflt \cup {w.id}
      /\ tx' = [tx EXCEPT ![h] = NoTx]
      /\ edited' = (batch # {})
      /\ UNCHANGED <<recordingVars, batch, requests, errors, dropped>>
  BY DEF CommitPolicy
<1> HIDE DEF w
<1>4. keep' \in [Policies -> 0..MaxDays]
  BY <1>2, <1>3, PolicyTypeParts DEF TableType
<1>5. TableType'
  BY <1>2, <1>3, <1>4, PolicyTypeParts DEF TableType
<1>6. TxType' /\ PassType'
  BY <1>3, PolicyTypeParts DEF TxType, PassType
<1>7. QED
  BY <1>3, <1>5, <1>6, PolicyTypeParts
     DEF recordingVars, RecordingType, BoundType

LEMMA AbortType ==
  ASSUME PoliciesTypeOK, NEW h \in Admins, AbortPolicy(h) \/ BreakDeadlock(h)
  PROVE  PoliciesTypeOK'
<1>1. TxType'
  BY PolicyTypeParts DEF AbortPolicy, BreakDeadlock, Rollback, TxType
<1>2. BoundType'
  BY PolicyTypeParts, CountedStep DEF AbortPolicy, BreakDeadlock, BoundType
<1>3. QED
  BY <1>1, <1>2, PolicyTypeParts
     DEF AbortPolicy, BreakDeadlock, policyTable, recordingVars, passVars,
         TableType, RecordingType, PassType

LEMMA DeletePolicyType ==
  ASSUME PoliciesTypeOK, NEW h \in Admins, NEW p \in Policies,
         DeletePolicy(h, p)
  PROVE  PoliciesTypeOK'
<1>1. BoundType'
  BY PolicyTypeParts, CountedStep DEF DeletePolicy
<1>2. keep' \in [Policies -> 0..MaxDays]
  <2>1. 0 \in 0..MaxDays
    BY PoliciesAssumption
  <2>2. QED
    BY <2>1, PolicyTypeParts DEF DeletePolicy, TableType
<1>3. TableType'
  BY <1>2, PolicyTypeParts DEF DeletePolicy, TableType
<1>4. PassType'
  BY PolicyTypeParts DEF DeletePolicy, PassType
<1>5. QED
  BY <1>1, <1>3, <1>4, PolicyTypeParts
     DEF DeletePolicy, recordingVars, RecordingType, TxType

LEMMA LookUpType ==
  ASSUME PoliciesTypeOK, NEW r \in Recordings, LookUpPolicy(r)
  PROVE  PoliciesTypeOK'
<1>1. lookup' \in Lookup
  <2>1. PICK p \in Policies \cup {NoPolicy} :
          lookup' = [doing |-> "insert", rec |-> r, policy |-> p]
    BY DEF LookUpPolicy, PoliciesTypeOK
  <2>2. QED
    BY <2>1 DEF Lookup
<1>2. BoundType'
  BY PolicyTypeParts, CountedStep DEF LookUpPolicy, BoundType
<1>3. QED
  BY <1>1, <1>2, PolicyTypeParts
     DEF LookUpPolicy, policyTable, passVars, TableType, TxType, PassType,
         RecordingType

LEMMA InsertType ==
  ASSUME PoliciesTypeOK, InsertRecording
  PROVE  PoliciesTypeOK'
<1>1. lookup.rec \in Recordings /\ lookup.policy \in Policies \cup {NoPolicy}
  BY DEF InsertRecording, PoliciesTypeOK, Lookup
<1>2. [kept |-> "yes", policy |-> lookup.policy] \in Row
  BY <1>1 DEF Row
<1>3. row' \in [Recordings -> Row \cup {NoRow}]
  BY <1>1, <1>2, PolicyTypeParts DEF InsertRecording, RecordingType
<1>4. lost' \in SUBSET [rec: Recordings, policy: Policies \cup {NoPolicy}]
  BY <1>1, PolicyTypeParts DEF InsertRecording, RecordingType
<1>5. QED
  BY <1>3, <1>4, PolicyTypeParts
     DEF InsertRecording, policyTable, passVars, TableType, TxType, PassType,
         BoundType, RecordingType

LEMMA EnforcerType ==
  ASSUME PoliciesTypeOK,
         DayPasses \/ QueryExpired \/ \E r \in Recordings : DeleteExpired(r)
  PROVE  PoliciesTypeOK'
<1>1. CASE DayPasses
  <2>1. \A r \in Recordings :
          age[r] \in 0..(MaxDays + 1) /\
            (age[r] <= MaxDays => age[r] + 1 \in 0..(MaxDays + 1))
    BY PoliciesAssumption, PolicyTypeParts DEF RecordingType
  <2>2. age' \in [Recordings -> 0..(MaxDays + 1)]
    BY <1>1, <2>1 DEF DayPasses
  <2>3. QED
    BY <1>1, <2>2, PolicyTypeParts
       DEF DayPasses, policyTable, passVars, TableType, TxType, PassType,
           BoundType, RecordingType
<1>2. CASE QueryExpired
  <2>1. PassType'
    BY <1>2, PolicyTypeParts DEF QueryExpired, PassType
  <2>2. QED
    BY <1>2, <2>1, PolicyTypeParts
       DEF QueryExpired, policyTable, recordingVars, TableType, TxType,
           BoundType, RecordingType
<1>3. ASSUME NEW r \in Recordings, DeleteExpired(r) PROVE PoliciesTypeOK'
  <2>1. BoundType'
    BY <1>3, PolicyTypeParts, CountedStep DEF DeleteExpired, BoundType
  <2>2. RecordingType' /\ PassType'
    BY <1>3, PolicyTypeParts DEF DeleteExpired, RecordingType, PassType
  <2>3. QED
    BY <1>3, <2>1, <2>2, PolicyTypeParts
       DEF DeleteExpired, policyTable, TableType, TxType
<1>4. QED
  BY <1>1, <1>2, <1>3

(* Requests to change policies, as they come.                              *)
LEMMA RequestKinds ==
  ASSUME NEW h \in Admins, NEW p \in Policies, NEW k \in 0..MaxDays,
         NEW d \in {"set", "clear", "leave"},
         CreatePolicy(h, p, k, d) \/ UpdatePolicy(h, p, k, d)
  PROVE  \E op \in {"create", "update"}, want \in Want : Begin(h, op, want)
<1>1. [id |-> p, keep |-> k, default |-> d] \in Want
  BY DEF Want
<1>2. QED
  BY <1>1 DEF CreatePolicy, UpdatePolicy

(* Every variable of the policies and recordings keeps its shape.          *)
THEOREM PoliciesTypeCorrect == PoliciesSpec => []PoliciesTypeOK
<1>1. PoliciesInit => PoliciesTypeOK
  <2> SUFFICES ASSUME PoliciesInit PROVE PoliciesTypeOK
    OBVIOUS
  <2>1. 0 \in 0..MaxDays /\ 1 \in 0..MaxDays /\ MaxDays \in 0..MaxDays
    BY PoliciesAssumption
  <2>2. TableType
    BY <2>1, PoliciesAssumption DEF PoliciesInit, TableType
  <2>3. TxType /\ PassType
    BY DEF PoliciesInit, TxType, PassType
  <2>4. RecordingType
    BY PoliciesAssumption DEF PoliciesInit, RecordingType
  <2>5. BoundType
    BY PoliciesAssumption DEF PoliciesInit, BoundType
  <2>6. QED
    BY <2>2, <2>3, <2>4, <2>5, PolicyTypeParts
<1>2. PoliciesTypeOK /\ [PoliciesNext]_policyVars => PoliciesTypeOK'
  <2> SUFFICES ASSUME PoliciesTypeOK, [PoliciesNext]_policyVars
               PROVE  PoliciesTypeOK'
    OBVIOUS
  <2>1. CASE UNCHANGED policyVars
    BY <2>1 DEF policyVars, policyTable, recordingVars, passVars,
                PoliciesTypeOK
  <2>2. CASE PoliciesNext
    BY <2>2, RequestKinds, BeginType, ClearType, WriteType, CommitType,
       AbortType, DeletePolicyType, LookUpType, InsertType, EnforcerType
       DEF PoliciesNext, Transaction
  <2>3. QED
    BY <2>1, <2>2
<1>3. QED
  BY <1>1, <1>2, PTL DEF PoliciesSpec

-----------------------------------------------------------------------------
(* Why the default stays one.  A policy under creation has an id of its    *)
(* own, which no other request can name ...                                *)
Open(h) == tx[h].step \in Steps
Creating(h) ==
  \/ tx[h].step \in {"clear", "write"} /\ tx[h].op = "create"
  \/ tx[h].step \in {"index", "commit"} /\ keep[tx[h].want.id] = 0
CreatesNew ==
  \A h \in Admins : Creating(h) =>
    /\ tx[h].want.keep # 0
    /\ tx[h].want.id \notin known
    /\ \A g \in Admins \ {h} : Open(g) => tx[g].want.id # tx[h].want.id

(* ... a policy with a row is known and not deleted ...                    *)
RowsAreKnown ==
  /\ \A p \in Policies : keep[p] # 0 => p \in known /\ p \notin dropped
  /\ dropped \subseteq known

(* ... and a request that is about to commit a default is the only one,    *)
(* and takes the flag of whichever policy has it.                          *)
SetsDefault(h) == tx[h].step = "commit" /\ tx[h].want.default = "set"
OneSetter ==
  /\ \A g, h \in Admins : SetsDefault(g) /\ SetsDefault(h) => g = h
  /\ \A h \in Admins : SetsDefault(h) =>
       \A p \in dflt : p \in tx[h].cleared \/ p = tx[h].want.id

(* What index_segment has looked up exists, or has been deleted since.     *)
LookupKnown ==
  lookup # NoLookup => /\ row[lookup.rec] = NoRow
                       /\ \/ lookup.policy = NoPolicy
                          \/ keep[lookup.policy] # 0
                          \/ lookup.policy \in dropped

(* What the enforcer is about to delete.                                   *)
BatchExpired ==
  \A r \in batch : row[r] # NoRow /\ (edited \/ PastItsPolicy(r))

TxInv == CreatesNew /\ RowsAreKnown /\ OneSetter
PoliciesInv == TxInv /\ LookupKnown /\ PoliciesConsistent

LEMMA OneTx ==
  ASSUME PoliciesTypeOK, NEW h \in Admins, NEW v,
         tx' = [tx EXCEPT ![h] = v]
  PROVE  tx'[h] = v /\ \A g \in Admins \ {h} : tx'[g] = tx[g]
BY DEF PoliciesTypeOK

LEMMA NoTxClosed ==
  ASSUME NEW h, tx'[h] = NoTx
  PROVE  ~Open(h)' /\ ~Creating(h)' /\ ~SetsDefault(h)'
BY DEF NoTx, Open, Creating, SetsDefault, Steps

(* Nothing of a transaction depends on recordings.                         *)
LEMMA TxFrame ==
  ASSUME TxInv, UNCHANGED <<keep, known, dflt, tx, dropped>>
  PROVE  TxInv'
BY DEF TxInv, CreatesNew, RowsAreKnown, OneSetter, Creating, Open, SetsDefault

(* One transaction moves, or ends, and the tables stay as they are.        *)
LEMMA TxMoves ==
  ASSUME PoliciesTypeOK, TxInv, NEW h \in Admins,
         UNCHANGED <<keep, known, dflt, dropped>>,
         \A g \in Admins \ {h} : tx'[g] = tx[g],
         Open(h)' => Open(h) /\ tx'[h].want = tx[h].want,
         Creating(h)' => Creating(h),
         SetsDefault(h)' =>
           /\ \A g \in Admins \ {h} : ~SetsDefault(g)
           /\ \A p \in dflt : p \in tx'[h].cleared \/ p = tx'[h].want.id
  PROVE  TxInv'
<1>1. \A g \in Admins : /\ Creating(g)' => Creating(g)
                        /\ Creating(g) => Open(g)
  BY DEF Creating, Open, Steps
<1>2. \A g \in Admins \ {h} : SetsDefault(g)' = SetsDefault(g) /\ Open(g)' = Open(g)
  BY DEF SetsDefault, Open
<1>3. \A g \in Admins : Open(g)' => Open(g) /\ tx'[g].want = tx[g].want
  BY <1>2
<1>4. \A g \in Admins : Creating(g)' => Open(g)'
  BY DEF Creating, Open, Steps
<1>5. CreatesNew'
  <2> SUFFICES ASSUME NEW g \in Admins, Creating(g)'
               PROVE  /\ tx'[g].want.keep # 0
                      /\ tx'[g].want.id \notin known'
                      /\ \A f \in Admins \ {g} :
                           Open(f)' => tx'[f].want.id # tx'[g].want.id
    BY DEF CreatesNew
  <2>1. Creating(g) /\ tx'[g].want = tx[g].want
    BY <1>1, <1>3, <1>4
  <2>2. QED
    BY <1>3, <2>1 DEF TxInv, CreatesNew
<1>6. RowsAreKnown'
  BY DEF TxInv, RowsAreKnown
<1>7. OneSetter'
  BY <1>2 DEF TxInv, OneSetter, SetsDefault
<1>8. QED
  BY <1>5, <1>6, <1>7 DEF TxInv

LEMMA TxBegins ==
  ASSUME PoliciesTypeOK, TxInv, NEW h \in Admins, NEW op \in {"create", "update"},
         NEW w \in Want, Begin(h, op, w),
         op = "create" =>
           /\ w.keep # 0
           /\ w.id \notin known
           /\ \A g \in Admins : tx[g] # NoTx => tx[g].want.id # w.id,
         op = "update" => w.id \in known
  PROVE  TxInv'
<1>1. /\ tx'[h].step \in {"clear", "write"} /\ tx'[h].op = op /\ tx'[h].want = w
      /\ \A g \in Admins \ {h} : tx'[g] = tx[g]
  <2> DEFINE opened ==
        IF w.default = "set"
        THEN [step |-> "clear", op |-> op, want |-> w,
              seen |-> IF op = "update" THEN dflt \ {w.id} ELSE dflt]
        ELSE [step |-> "write", op |-> op, want |-> w, cleared |-> {}]
  <2>1. tx' = [tx EXCEPT ![h] = opened]
    BY DEF Begin
  <2> HIDE DEF opened
  <2>2. tx'[h] = opened /\ \A g \in Admins \ {h} : tx'[g] = tx[g]
    BY <2>1, OneTx
  <2>3. /\ tx'[h] = IF w.default = "set"
                    THEN [step |-> "clear", op |-> op, want |-> w,
                          seen |-> IF op = "update" THEN dflt \ {w.id} ELSE dflt]
                    ELSE [step |-> "write", op |-> op, want |-> w, cleared |-> {}]
        /\ \A g \in Admins \ {h} : tx'[g] = tx[g]
    BY <2>2 DEF opened
  <2>4. QED
    BY <2>3
<1>2. UNCHANGED <<keep, known, dflt, dropped>>
  BY DEF Begin, policyTable
<1>3. /\ ~SetsDefault(h)' /\ (Creating(h)' <=> op = "create")
      /\ \A g \in Admins \ {h} : /\ SetsDefault(g)' = SetsDefault(g)
                                 /\ Creating(g)' = Creating(g)
                                 /\ Open(g)' = Open(g)
  BY <1>1, <1>2 DEF SetsDefault, Creating, Open
<1>4. \A g \in Admins : Open(g) => tx[g] # NoTx
  BY DEF Open, Steps, NoTx
<1>5. CreatesNew'
  <2> SUFFICES ASSUME NEW g \in Admins, Creating(g)'
               PROVE  /\ tx'[g].want.keep # 0
                      /\ tx'[g].want.id \notin known
                      /\ \A f \in Admins \ {g} :
                           Open(f)' => tx'[f].want.id # tx'[g].want.id
    BY <1>2 DEF CreatesNew
  <2>1. CASE g = h
    BY <1>1, <1>3, <1>4, <2>1
  <2>2. CASE g # h
    <3>1. Creating(g) /\ tx'[g] = tx[g] /\ tx[g] # NoTx
      BY <1>1, <1>3, <1>4, <2>2 DEF Creating, Open, Steps
    <3>2. tx[g].want.id # w.id
      BY <3>1 DEF TxInv, CreatesNew
    <3>3. QED
      BY <1>1, <1>3, <3>1, <3>2 DEF TxInv, CreatesNew
  <2>3. QED
    BY <2>1, <2>2
<1>6. RowsAreKnown' /\ OneSetter'
  BY <1>1, <1>2, <1>3 DEF TxInv, RowsAreKnown, OneSetter
<1>7. QED
  BY <1>5, <1>6 DEF TxInv

LEMMA TxClears ==
  ASSUME PoliciesTypeOK, TxInv, NEW h \in Admins, ClearDefaults(h)
  PROVE  TxInv'
<1>1. /\ tx'[h] = [step |-> "write", op |-> tx[h].op, want |-> tx[h].want,
                   cleared |-> tx[h].seen \cap dflt]
      /\ \A g \in Admins \ {h} : tx'[g] = tx[g]
  BY OneTx DEF ClearDefaults
<1>2. /\ tx'[h].step = "write" /\ tx'[h].op = tx[h].op
      /\ tx'[h].want = tx[h].want /\ tx[h].step = "clear"
  BY <1>1 DEF ClearDefaults
<1>3. UNCHANGED <<keep, known, dflt, dropped>>
  BY DEF ClearDefaults, policyTable
<1>4. /\ Open(h)' => Open(h) /\ tx'[h].want = tx[h].want
      /\ Creating(h)' => Creating(h)
      /\ ~SetsDefault(h)'
  BY <1>2 DEF Open, Creating, SetsDefault, Steps
<1>5. QED
  BY <1>1, <1>3, <1>4, TxMoves

(* A request that ends without a commit.                                   *)
LEMMA TxEnds ==
  ASSUME PoliciesTypeOK, TxInv, NEW h \in Admins, Rollback(h),
         UNCHANGED <<keep, known, dflt, dropped>>
  PROVE  TxInv'
<1>1. tx'[h] = NoTx /\ \A g \in Admins \ {h} : tx'[g] = tx[g]
  BY OneTx DEF Rollback
<1>2. QED
  BY <1>1, NoTxClosed, TxMoves

LEMMA TxWrites ==
  ASSUME PoliciesTypeOK, TxInv, NEW h \in Admins, WritePolicy(h)
  PROVE  TxInv'
<1>1. UNCHANGED <<keep, known, dflt, dropped>> /\ tx[h].step = "write"
  BY DEF WritePolicy, policyTable
<1>2. CASE ~Rollback(h)
  <2> DEFINE index == [step |-> "index", op |-> tx[h].op, want |-> tx[h].want,
                       cleared |-> tx[h].cleared]
             commit == [step |-> "commit", want |-> tx[h].want,
                        cleared |-> tx[h].cleared]
  <2>1. /\ tx' = [tx EXCEPT ![h] = IF tx[h].want.default = "set" THEN index
                                   ELSE commit]
        /\ tx[h].op = "update" => keep[tx[h].want.id] # 0
    BY <1>2 DEF WritePolicy
  <2>2. /\ index.step = "index" /\ index.op = tx[h].op /\ index.want = tx[h].want
        /\ commit.step = "commit" /\ commit.want = tx[h].want
    OBVIOUS
  <2> HIDE DEF index, commit
  <2>3. /\ tx'[h] = IF tx[h].want.default = "set" THEN index ELSE commit
        /\ \A g \in Admins \ {h} : tx'[g] = tx[g]
    BY <2>1, OneTx
  <2>4. tx[h].op \in {"create", "update"}
    BY <1>1, PolicyTypeParts, TxShape
  <2>5. CASE tx[h].want.default = "set"
    <3>1. tx'[h].step = "index" /\ tx'[h].op = tx[h].op /\ tx'[h].want = tx[h].want
      BY <2>2, <2>3, <2>5
    <3>2. Open(h) /\ (Creating(h)' => Creating(h)) /\ ~SetsDefault(h)'
      BY <1>1, <2>1, <2>4, <3>1 DEF Open, Creating, SetsDefault, Steps
    <3>3. QED
      BY <1>1, <2>3, <3>1, <3>2, TxMoves
  <2>6. CASE tx[h].want.default # "set"
    <3>1. tx'[h].step = "commit" /\ tx'[h].want = tx[h].want
      BY <2>2, <2>3, <2>6
    <3>2. Open(h) /\ (Creating(h)' => Creating(h)) /\ ~SetsDefault(h)'
      BY <1>1, <2>1, <2>4, <2>6, <3>1 DEF Open, Creating, SetsDefault, Steps
    <3>3. QED
      BY <1>1, <2>3, <3>1, <3>2, TxMoves
  <2>7. QED
    BY <2>5, <2>6
<1>3. QED
  BY <1>1, <1>2, TxEnds

LEMMA TxEnters ==
  ASSUME PoliciesTypeOK, TxInv, NEW h \in Admins, EnterDefault(h)
  PROVE  TxInv'
<1>1. UNCHANGED <<keep, known, dflt, dropped>> /\ tx[h].step = "index"
  BY DEF EnterDefault, policyTable
<1>2. CASE ~Rollback(h)
  <2>1. /\ tx' = [tx EXCEPT ![h] = [step |-> "commit", want |-> tx[h].want,
                                    cleared |-> tx[h].cleared]]
        /\ ~DefaultHeldByOthers(h) /\ OnlyDefault(h)
    BY <1>2 DEF EnterDefault, IndexIsFree
  <2>2. /\ tx'[h] = [step |-> "commit", want |-> tx[h].want,
                     cleared |-> tx[h].cleared]
        /\ \A g \in Admins \ {h} : tx'[g] = tx[g]
    BY <2>1, OneTx
  <2>3. /\ tx'[h].step = "commit" /\ tx'[h].want = tx[h].want
        /\ tx'[h].cleared = tx[h].cleared
    BY <2>2
  <2>5. Open(h) /\ (Creating(h)' => Creating(h))
    BY <1>1, <2>3 DEF Open, Creating, Steps
  <2>6. /\ \A g \in Admins \ {h} : ~SetsDefault(g)
        /\ \A p \in dflt : p \in tx'[h].cleared \/ p = tx'[h].want.id
    BY <2>1, <2>3
       DEF DefaultHeldByOthers, HoldsDefault, SetsDefault, OnlyDefault
  <2>7. QED
    BY <1>1, <2>2, <2>3, <2>5, <2>6, TxMoves
<1>3. QED
  BY <1>1, <1>2, TxEnds

(* A commit: what it does to the tables.                                   *)
LEMMA CommitEffect ==
  ASSUME PoliciesTypeOK, TxInv, NEW h \in Admins, CommitPolicy(h)
  PROVE  /\ tx'[h] = NoTx /\ \A g \in Admins \ {h} : tx'[g] = tx[g]
         /\ tx[h].step = "commit" /\ tx[h].want.id \in Policies
         /\ \A p \in Policies \ {tx[h].want.id} : keep'[p] = keep[p]
         /\ keep'[tx[h].want.id] # 0
         /\ known' = known \cup {tx[h].want.id}
         /\ UNCHANGED dropped
         /\ \/ SetsDefault(h) /\ dflt' \subseteq {tx[h].want.id}
               /\ tx[h].want.id \in dflt'
            \/ /\ tx[h].want.default = "clear"
               /\ dflt' = dflt \ {tx[h].want.id}
            \/ dflt' = dflt
<1> DEFINE w == tx[h].want
<1>1. tx[h].step = "commit" /\ w \in Want /\ tx[h].cleared \in SUBSET Policies
  BY PolicyTypeParts, TxShape DEF CommitPolicy, Steps
<1>2. w.id \in Policies /\ w.keep \in 0..MaxDays
      /\ w.default \in {"set", "clear", "leave"}
  BY <1>1, WantShape
<1>3. tx'[h] = NoTx /\ \A g \in Admins \ {h} : tx'[g] = tx[g]
  BY OneTx DEF CommitPolicy
<1>4. /\ keep' = [keep EXCEPT ![w.id] = IF w.keep = 0 THEN @ ELSE w.keep]
      /\ known' = known \cup {w.id} /\ UNCHANGED dropped
      /\ dflt' = CASE w.default = "set" -> (dflt \ tx[h].cleared) \cup {w.id}
                   [] w.default = "clear" -> dflt \ {w.id}
                   [] OTHER -> dflt
  BY DEF CommitPolicy
<1>5. keep[w.id] # 0 \/ w.keep # 0
  BY <1>1 DEF TxInv, CreatesNew, Creating
<1>6. /\ keep'[w.id] = IF w.keep = 0 THEN keep[w.id] ELSE w.keep
      /\ \A p \in Policies \ {w.id} : keep'[p] = keep[p]
  BY <1>2, <1>4, PolicyTypeParts DEF TableType
<1>7. CASE w.default = "set"
  <2>1. SetsDefault(h)
    BY <1>1, <1>7 DEF SetsDefault
  <2>2. dflt' = (dflt \ tx[h].cleared) \cup {w.id}
    BY <1>4, <1>7
  <2>3. dflt' \subseteq {w.id} /\ w.id \in dflt'
    BY <2>1, <2>2 DEF TxInv, OneSetter
  <2>4. QED
    BY <1>1, <1>2, <1>3, <1>4, <1>5, <1>6, <2>1, <2>3
<1>8. CASE w.default # "set"
  <2>1. \/ w.default = "clear" /\ dflt' = dflt \ {w.id}
        \/ dflt' = dflt
    BY <1>2, <1>4, <1>8
  <2>2. QED
    BY <1>1, <1>2, <1>3, <1>4, <1>5, <1>6, <2>1
<1>9. QED
  BY <1>7, <1>8

LEMMA TxCommits ==
  ASSUME PoliciesTypeOK, TxInv, NEW h \in Admins, CommitPolicy(h)
  PROVE  TxInv'
<1> DEFINE id == tx[h].want.id
<1>1. /\ tx'[h] = NoTx /\ \A g \in Admins \ {h} : tx'[g] = tx[g]
      /\ tx[h].step = "commit" /\ id \in Policies
      /\ \A p \in Policies \ {id} : keep'[p] = keep[p]
      /\ keep'[id] # 0
      /\ known' = known \cup {id}
      /\ UNCHANGED dropped
      /\ SetsDefault(h) \/ dflt' \subseteq dflt
  BY CommitEffect
<1>2. ~Open(h)' /\ ~Creating(h)' /\ ~SetsDefault(h)'
  BY <1>1, NoTxClosed
<1>3. Open(h)
  BY <1>1 DEF Open, Steps
<1>4. \A g \in Admins : Creating(g) => Open(g)
  BY DEF Creating, Open, Steps
<1> HIDE DEF id
<1>5. CreatesNew'
  <2> SUFFICES ASSUME NEW g \in Admins, Creating(g)'
               PROVE  /\ tx'[g].want.keep # 0
                      /\ tx'[g].want.id \notin known'
                      /\ \A f \in Admins \ {g} :
                           Open(f)' => tx'[f].want.id # tx'[g].want.id
    BY DEF CreatesNew
  <2>1. g # h /\ tx'[g] = tx[g]
    BY <1>1, <1>2
  <2>2. Creating(g)
    <3>1. CASE tx[g].step \in {"index", "commit"}
      <4>1. tx[g].want.id \in Policies
        BY <3>1, PolicyTypeParts, TxShape, WantShape DEF Steps
      <4>2. tx[g].want.id # id /\ keep[tx[g].want.id] = 0
        BY <1>1, <2>1, <3>1, <4>1 DEF Creating
      <4>3. QED
        BY <3>1, <4>2 DEF Creating
    <3>2. CASE tx[g].step \notin {"index", "commit"}
      BY <2>1, <3>2 DEF Creating
    <3>3. QED
      BY <3>1, <3>2
  <2>3. /\ tx[g].want.keep # 0 /\ tx[g].want.id \notin known
        /\ \A f \in Admins \ {g} : Open(f) => tx[f].want.id # tx[g].want.id
    BY <2>2 DEF TxInv, CreatesNew
  <2>4. tx[g].want.id # id
    BY <1>3, <2>1, <2>3 DEF id
  <2>5. \A f \in Admins : Open(f)' => Open(f) /\ tx'[f] = tx[f]
    BY <1>1, <1>2 DEF Open
  <2>6. QED
    BY <1>1, <2>1, <2>3, <2>4, <2>5
<1>6. RowsAreKnown'
  <2>1. keep[id] # 0 \/ id \notin known
    BY <1>1 DEF TxInv, CreatesNew, Creating, id
  <2>2. id \notin dropped
    BY <1>1, <2>1 DEF TxInv, RowsAreKnown
  <2>3. QED
    BY <1>1, <2>2 DEF TxInv, RowsAreKnown
<1>7. OneSetter'
  <2>1. \A g \in Admins : SetsDefault(g)' => SetsDefault(g) /\ g # h /\ tx'[g] = tx[g]
    BY <1>1, <1>2 DEF SetsDefault
  <2>2. \A g \in Admins : SetsDefault(g)' => dflt' \subseteq dflt
    BY <1>1, <2>1 DEF TxInv, OneSetter
  <2>3. QED
    BY <2>1, <2>2 DEF TxInv, OneSetter
<1>8. QED
  BY <1>5, <1>6, <1>7 DEF TxInv

LEMMA DeleteEffect ==
  ASSUME PoliciesTypeOK, NEW h \in Admins, NEW p \in Policies,
         DeletePolicy(h, p)
  PROVE  /\ keep[p] # 0 /\ keep'[p] = 0
         /\ \A q \in Policies \ {p} : keep'[q] = keep[q]
         /\ dflt' = dflt \ {p} /\ dropped' = dropped \cup {p}
         /\ \A g \in Admins :
              tx[g].step \in {"index", "commit"} => tx[g].want.id # p
         /\ UNCHANGED <<known, tx>>
<1>1. \A g \in Admins : tx[g].step \in {"index", "commit"}
                           => tx[g].want.id \in Holds(g)
  BY DEF Holds
<1>2. QED
  BY <1>1, PolicyTypeParts DEF DeletePolicy, TableType

LEMMA TxDeletes ==
  ASSUME PoliciesTypeOK, TxInv, NEW h \in Admins, NEW p \in Policies,
         DeletePolicy(h, p)
  PROVE  TxInv'
<1>1. /\ keep[p] # 0 /\ keep'[p] = 0
      /\ \A q \in Policies \ {p} : keep'[q] = keep[q]
      /\ dflt' = dflt \ {p} /\ dropped' = dropped \cup {p}
      /\ \A g \in Admins :
              tx[g].step \in {"index", "commit"} => tx[g].want.id # p
      /\ UNCHANGED <<known, tx>>
  BY DeleteEffect
<1>2. \A g \in Admins : tx[g].step \in {"index", "commit"}
                           => tx[g].want.id \in Policies
  BY PolicyTypeParts, TxShape, WantShape DEF Steps
<1>3. \A g \in Admins : Creating(g)' => Creating(g)
  BY <1>1, <1>2 DEF Creating
<1>4. QED
  BY <1>1, <1>3
     DEF TxInv, CreatesNew, RowsAreKnown, OneSetter, Open, SetsDefault

LEMMA TxStep ==
  ASSUME PoliciesTypeOK, TxInv, [PoliciesNext]_policyVars
  PROVE  TxInv'
<1>1. CASE UNCHANGED <<keep, known, dflt, tx, dropped>>
  BY <1>1, TxFrame
<1>2. ASSUME NEW h \in Admins, AbortPolicy(h) \/ BreakDeadlock(h)
      PROVE  TxInv'
  BY <1>2, TxEnds DEF AbortPolicy, BreakDeadlock, policyTable
<1>3. ASSUME NEW h \in Admins, NEW p \in Policies, NEW k \in 0..MaxDays,
             NEW d \in {"set", "clear", "leave"},
             CreatePolicy(h, p, k, d) \/ UpdatePolicy(h, p, k, d)
      PROVE  TxInv'
  <2> DEFINE w == [id |-> p, keep |-> k, default |-> d]
  <2>1. w \in Want /\ w.id = p /\ w.keep = k
    BY DEF Want
  <2>2. CASE CreatePolicy(h, p, k, d)
    <3>1. /\ Begin(h, "create", w) /\ p \notin known /\ k \in KeepDays
          /\ \A g \in Admins : tx[g] # NoTx => tx[g].want.id # p
      BY <2>2 DEF CreatePolicy
    <3>2. k # 0
      BY <3>1, PoliciesAssumption DEF KeepDays
    <3>3. QED
      BY <2>1, <3>1, <3>2, TxBegins
  <2>3. CASE UpdatePolicy(h, p, k, d)
    <3>1. Begin(h, "update", w) /\ p \in known
      BY <2>3 DEF UpdatePolicy
    <3>2. QED
      BY <2>1, <3>1, TxBegins
  <2>4. QED
    BY <1>3, <2>2, <2>3
<1>4. QED
  BY <1>1, <1>2, <1>3, TxClears, TxWrites, TxEnters, TxCommits, TxDeletes
     DEF PoliciesNext, Transaction, policyVars, LookUpPolicy, InsertRecording,
         DayPasses, QueryExpired, DeleteExpired, policyTable, recordingVars

-----------------------------------------------------------------------------
(* The tables agree: one step of each kind.                                *)
LEMMA TablesChange ==
  ASSUME PoliciesTypeOK, PoliciesInv,
         UNCHANGED <<row, lost, lookup>>,
         dropped \subseteq dropped',
         \A p \in Policies : keep[p] # 0 /\ keep'[p] = 0 =>
           /\ p \in dropped'
           /\ \A r \in Recordings : row[r] # NoRow => row[r].policy # p,
         \A p, q \in dflt' : p = q,
         \A p \in dflt' : keep'[p] # 0
  PROVE  LookupKnown' /\ PoliciesConsistent'
<1>1. /\ lookup # NoLookup => lookup.policy \in Policies \cup {NoPolicy}
      /\ \A r \in Recordings : row[r] # NoRow =>
           row[r].policy \in Policies \cup {NoPolicy}
  BY DEF PoliciesTypeOK, Lookup, Row
<1>2. LookupKnown'
  BY <1>1 DEF PoliciesInv, LookupKnown
<1>3. \A r \in Recordings : row'[r] # NoRow /\ row'[r].policy # NoPolicy
                              => keep'[row'[r].policy] # 0
  BY <1>1 DEF PoliciesInv, PoliciesConsistent
<1>4. PoliciesConsistent'
  BY <1>3 DEF PoliciesInv, PoliciesConsistent
<1>5. QED
  BY <1>2, <1>4

LEMMA RecordingsChange ==
  ASSUME PoliciesTypeOK, PoliciesInv, UNCHANGED <<keep, dflt, dropped>>,
         LookupKnown',
         \A r \in Recordings : row'[r] # NoRow =>
           \/ row'[r] = row[r]
           \/ row'[r].policy = NoPolicy \/ keep[row'[r].policy] # 0,
         \A l \in lost' : l \in lost \/ l.policy \in dropped
  PROVE  LookupKnown' /\ PoliciesConsistent'
BY DEF PoliciesInv, PoliciesConsistent

LEMMA InsertConsistent ==
  ASSUME PoliciesTypeOK, PoliciesInv, InsertRecording
  PROVE  LookupKnown' /\ PoliciesConsistent'
<1>1. lookup.rec \in Recordings /\ lookup.policy \in Policies \cup {NoPolicy}
  BY DEF InsertRecording, PoliciesTypeOK, Lookup
<1>2. lookup' = NoLookup /\ UNCHANGED <<keep, dflt, dropped>>
  BY DEF InsertRecording, policyTable
<1>3. LookupKnown'
  BY <1>2 DEF LookupKnown
<1>4. CASE lookup.policy = NoPolicy \/ keep[lookup.policy] # 0
  <2>1. /\ row' = [row EXCEPT ![lookup.rec] =
                     [kept |-> "yes", policy |-> lookup.policy]]
        /\ lost' = lost
    BY <1>4 DEF InsertRecording
  <2>2. \A r \in Recordings :
          \/ row'[r] = row[r]
          \/ row'[r].policy = lookup.policy
    BY <1>1, <2>1, PolicyTypeParts DEF RecordingType
  <2>3. QED
    BY <1>2, <1>3, <1>4, <2>1, <2>2, RecordingsChange
<1>5. CASE ~(lookup.policy = NoPolicy \/ keep[lookup.policy] # 0)
  <2>1. /\ lost' = lost \cup {[rec |-> lookup.rec, policy |-> lookup.policy]}
        /\ row' = row
    BY <1>5 DEF InsertRecording
  <2>2. lookup.policy \in dropped
    BY <1>5 DEF InsertRecording, PoliciesInv, LookupKnown
  <2>3. QED
    BY <1>2, <1>3, <2>1, <2>2, RecordingsChange
<1>6. QED
  BY <1>4, <1>5

LEMMA ConsistentStep ==
  ASSUME PoliciesTypeOK, PoliciesInv, [PoliciesNext]_policyVars
  PROVE  PoliciesInv'
<1>1. TxInv'
  BY TxStep DEF PoliciesInv
<1>2. CASE UNCHANGED <<keep, dflt, dropped, row, lost, lookup>>
  BY <1>1, <1>2 DEF PoliciesInv, LookupKnown, PoliciesConsistent
<1>3. ASSUME NEW h \in Admins, CommitPolicy(h)
      PROVE  LookupKnown' /\ PoliciesConsistent'
  <2>1. /\ \A p \in Policies \ {tx[h].want.id} : keep'[p] = keep[p]
        /\ keep'[tx[h].want.id] # 0 /\ UNCHANGED dropped
        /\ dflt' \subseteq {tx[h].want.id} \/ dflt' \subseteq dflt
    BY <1>3, CommitEffect DEF PoliciesInv
  <2>2. UNCHANGED <<row, lost, lookup>>
    BY <1>3 DEF CommitPolicy, recordingVars
  <2>3. dflt \subseteq Policies
    BY PolicyTypeParts DEF TableType
  <2>4. (\A p, q \in dflt' : p = q) /\ \A p \in dflt' : keep'[p] # 0
    BY <2>1, <2>3 DEF PoliciesInv, PoliciesConsistent
  <2>5. QED
    BY <2>1, <2>2, <2>4, TablesChange
<1>4. ASSUME NEW h \in Admins, NEW p \in Policies, DeletePolicy(h, p)
      PROVE  LookupKnown' /\ PoliciesConsistent'
  <2>1. /\ \A q \in Policies \ {p} : keep'[q] = keep[q]
        /\ dflt' = dflt \ {p} /\ dropped' = dropped \cup {p}
    BY <1>4, DeleteEffect
  <2>2. /\ UNCHANGED <<row, lost, lookup>>
        /\ \A r \in Recordings : row[r] # NoRow => row[r].policy # p
    BY <1>4 DEF DeletePolicy, recordingVars
  <2>3. dflt \subseteq Policies
    BY PolicyTypeParts DEF TableType
  <2>4. (\A q, u \in dflt' : q = u) /\ \A q \in dflt' : keep'[q] # 0
    BY <2>1, <2>3 DEF PoliciesInv, PoliciesConsistent
  <2>5. QED
    BY <2>1, <2>2, <2>4, TablesChange
<1>5. ASSUME NEW r \in Recordings, LookUpPolicy(r)
      PROVE  LookupKnown' /\ PoliciesConsistent'
  <2>1. UNCHANGED <<keep, dflt, dropped, row, lost>>
    BY <1>5 DEF LookUpPolicy, policyTable
  <2>2. PICK p \in dflt \cup {NoPolicy} :
          lookup' = [doing |-> "insert", rec |-> r, policy |-> p]
    BY <1>5 DEF LookUpPolicy
  <2>3. row[r] = NoRow
    BY <1>5 DEF LookUpPolicy
  <2>4. LookupKnown'
    BY <2>1, <2>2, <2>3 DEF LookupKnown, PoliciesInv, PoliciesConsistent
  <2>5. QED
    BY <2>1, <2>4, RecordingsChange
<1>6. ASSUME NEW r \in Recordings, DeleteExpired(r)
      PROVE  LookupKnown' /\ PoliciesConsistent'
  <2>1. UNCHANGED <<keep, dflt, dropped, lost, lookup>>
    BY <1>6 DEF DeleteExpired, policyTable
  <2>2. \A s \in Recordings : row'[s] = row[s] \/ row'[s] = NoRow
    BY <1>6, PolicyTypeParts DEF DeleteExpired, RecordingType
  <2>3. lookup # NoLookup => lookup.rec \in Recordings
    BY DEF PoliciesTypeOK, Lookup
  <2>4. LookupKnown'
    BY <2>1, <2>2, <2>3 DEF PoliciesInv, LookupKnown
  <2>5. QED
    BY <2>1, <2>2, <2>4, RecordingsChange
<1>7. QED
  BY <1>1, <1>2, <1>3, <1>4, <1>5, <1>6, InsertConsistent
     DEF PoliciesNext, PoliciesInv, Transaction, CreatePolicy, UpdatePolicy,
         Begin, ClearDefaults, WritePolicy, EnterDefault, AbortPolicy,
         BreakDeadlock, DayPasses, QueryExpired, policyVars, policyTable,
         recordingVars

LEMMA PoliciesStart ==
  ASSUME PoliciesInit PROVE PoliciesInv
<1>1. \A h \in Admins : ~Open(h) /\ ~Creating(h) /\ ~SetsDefault(h)
  BY DEF PoliciesInit, NoTx, Open, Creating, SetsDefault, Steps
<1>2. keep[FirstDefault] # 0 /\ \A p \in Policies : keep[p] # 0 => p \in known
  BY PoliciesAssumption DEF PoliciesInit
<1>3. TxInv
  BY <1>1, <1>2 DEF PoliciesInit, TxInv, CreatesNew, RowsAreKnown, OneSetter
<1>4. LookupKnown /\ PoliciesConsistent
  BY <1>2 DEF PoliciesInit, LookupKnown, PoliciesConsistent
<1>5. QED
  BY <1>3, <1>4 DEF PoliciesInv

LEMMA PoliciesInvariant == PoliciesSpec => []PoliciesInv
BY PoliciesStart, ConsistentStep, PoliciesTypeCorrect, PTL DEF PoliciesSpec

(* However requests interleave: at most one policy is the default, and it  *)
(* exists; the policy of a recording exists; and a recording is missing    *)
(* only because its policy was deleted in between.                         *)
THEOREM PoliciesStayConsistent == PoliciesSpec => []PoliciesConsistent
<1>1. PoliciesInv => PoliciesConsistent
  BY DEF PoliciesInv
<1>2. QED
  BY <1>1, PoliciesInvariant, PTL

(* A default policy gives way to none only when a request clears its flag  *)
(* or deletes it.                                                          *)
THEOREM PoliciesDefaultKept == PoliciesSpec => DefaultKept
<1>1. PoliciesTypeOK /\ PoliciesInv /\ [PoliciesNext]_policyVars
        => [dflt # {} /\ dflt' = {} =>
              \/ dropped' # dropped
              \/ \E h \in Admins : /\ tx[h].step = "commit" /\ tx'[h] = NoTx
                                   /\ tx[h].want.default = "clear"
                                   /\ tx[h].want.id \in dflt]_policyVars
  <2> SUFFICES ASSUME PoliciesTypeOK, PoliciesInv, [PoliciesNext]_policyVars,
                      dflt # {}, dflt' = {}
               PROVE  \/ dropped' # dropped
                      \/ \E h \in Admins :
                           /\ tx[h].step = "commit" /\ tx'[h] = NoTx
                           /\ tx[h].want.default = "clear"
                           /\ tx[h].want.id \in dflt
    OBVIOUS
  <2>1. \/ \E h \in Admins : CommitPolicy(h)
        \/ \E h \in Admins, p \in Policies : DeletePolicy(h, p)
    BY DEF PoliciesNext, Transaction, CreatePolicy, UpdatePolicy, Begin,
           ClearDefaults, WritePolicy, EnterDefault, AbortPolicy,
           BreakDeadlock, DayPasses, QueryExpired, LookUpPolicy,
           InsertRecording, DeleteExpired, policyVars, policyTable
  <2>2. ASSUME NEW h \in Admins, CommitPolicy(h)
        PROVE  /\ tx[h].step = "commit" /\ tx'[h] = NoTx
               /\ tx[h].want.default = "clear"
               /\ tx[h].want.id \in dflt
    BY <2>2, CommitEffect DEF PoliciesInv
  <2>3. ASSUME NEW h \in Admins, NEW p \in Policies, DeletePolicy(h, p)
        PROVE  dropped' # dropped
    <3>1. keep[p] # 0 /\ dropped' = dropped \cup {p}
      BY <2>3, DeleteEffect
    <3>2. p \notin dropped
      BY <3>1 DEF PoliciesInv, TxInv, RowsAreKnown
    <3>3. QED
      BY <3>1, <3>2
  <2>4. QED
    BY <2>1, <2>2, <2>3
<1>2. QED
  BY <1>1, PoliciesTypeCorrect, PoliciesInvariant, PTL
     DEF PoliciesSpec, DefaultKept

-----------------------------------------------------------------------------
(* What the enforcer selects is past its policy, and stays so until the    *)
(* policies change.                                                        *)
LEMMA ExpiredIsPast ==
  ASSUME PoliciesTypeOK, PoliciesInv, NEW r \in Recordings, Expired(r)
  PROVE  row[r] # NoRow /\ PastItsPolicy(r)
<1>1. row[r] # NoRow /\ row[r].policy \in Policies \cup {NoPolicy}
  BY DEF Expired, PoliciesTypeOK, Row
<1>2. CASE row[r].policy = NoPolicy
  <2>1. row[r].policy \notin Policies
    BY <1>2, PoliciesAssumption
  <2>2. \E p \in dflt : age[r] > keep[p]
    BY <2>1 DEF Expired, Limit
  <2>3. QED
    BY <1>1, <1>2, <2>2 DEF PastItsPolicy
<1>3. CASE row[r].policy # NoPolicy
  <2>1. row[r].policy \in Policies /\ keep[row[r].policy] # 0
    BY <1>1, <1>3 DEF PoliciesInv, PoliciesConsistent
  <2>2. age[r] > keep[row[r].policy]
    BY <2>1 DEF Expired, Limit
  <2>3. QED
    BY <1>1, <1>3, <2>2 DEF PastItsPolicy
<1>4. QED
  BY <1>2, <1>3

LEMMA PastFrame ==
  ASSUME PoliciesTypeOK, BatchExpired, NEW r \in Recordings,
         r \in batch, row'[r] = row[r], age'[r] >= age[r],
         age'[r] \in Nat, UNCHANGED <<keep, dflt, edited>>
  PROVE  row'[r] # NoRow /\ (edited' \/ PastItsPolicy(r)')
<1>1. age[r] \in Nat
  BY PoliciesAssumption DEF PoliciesTypeOK
<1>2. \A p \in Policies : keep[p] \in Nat
  BY PoliciesAssumption DEF PoliciesTypeOK
<1>3. \A p \in Policies : age[r] > keep[p] => age'[r] > keep[p]
  BY <1>1, <1>2
<1>4. dflt \subseteq Policies
  BY DEF PoliciesTypeOK
<1>5. row[r] # NoRow /\ (edited \/ PastItsPolicy(r))
  BY DEF BatchExpired
<1>6. row[r].policy \in Policies \cup {NoPolicy}
  BY <1>5 DEF PoliciesTypeOK, Row
<1>7. PastItsPolicy(r) => PastItsPolicy(r)'
  BY <1>3, <1>4, <1>6 DEF PastItsPolicy
<1>8. QED
  BY <1>5, <1>7

LEMMA BatchStep ==
  ASSUME PoliciesTypeOK, PoliciesInv, BatchExpired,
         [PoliciesNext]_policyVars
  PROVE  BatchExpired'
<1>1. batch \subseteq Recordings
        /\ \A r \in Recordings : age[r] \in Nat /\ age[r] >= age[r]
  BY PoliciesAssumption DEF PoliciesTypeOK
<1>2. CASE UNCHANGED <<keep, dflt, row, age, batch, edited>>
  BY <1>2 DEF BatchExpired, PastItsPolicy
<1>3. CASE /\ UNCHANGED <<row, batch>>
           /\ edited' = (batch # {})
  BY <1>3 DEF BatchExpired
<1>4. CASE InsertRecording
  <2>1. UNCHANGED <<keep, dflt, age, batch, edited>>
    BY <1>4 DEF InsertRecording, policyTable, passVars
  <2>2. lookup.rec \notin batch
    BY <1>4 DEF InsertRecording, PoliciesInv, LookupKnown, BatchExpired
  <2>3. \A r \in batch : row'[r] = row[r]
    BY <1>1, <1>4, <2>2 DEF InsertRecording, PoliciesTypeOK
  <2>4. QED
    BY <1>1, <2>1, <2>3, PastFrame DEF BatchExpired
<1>5. CASE DayPasses
  <2>1. UNCHANGED <<keep, dflt, row, batch, edited>>
    BY <1>5 DEF DayPasses, policyTable, passVars
  <2>2. \A r \in Recordings : age'[r] = age[r] \/ age'[r] = age[r] + 1
    BY <1>5 DEF DayPasses
  <2>3. \A r \in Recordings : age'[r] \in Nat /\ age'[r] >= age[r]
    BY <1>1, <2>2
  <2>4. QED
    BY <1>1, <2>1, <2>3, PastFrame DEF BatchExpired
<1>6. CASE QueryExpired
  <2>1. \A r \in batch' : r \in Recordings /\ Expired(r)
    BY <1>6 DEF QueryExpired
  <2>2. \A r \in batch' : row[r] # NoRow /\ PastItsPolicy(r)
    BY <2>1, ExpiredIsPast
  <2>3. UNCHANGED <<keep, dflt, row, age>>
    BY <1>6 DEF QueryExpired, policyTable, recordingVars
  <2>4. QED
    BY <2>2, <2>3 DEF BatchExpired, PastItsPolicy
<1>7. ASSUME NEW r \in Recordings, DeleteExpired(r) PROVE BatchExpired'
  <2>1. UNCHANGED <<keep, dflt, age, edited>> /\ batch' = batch \ {r}
    BY <1>7 DEF DeleteExpired, policyTable
  <2>2. \A s \in Recordings \ {r} : row'[s] = row[s]
    BY <1>7 DEF DeleteExpired, PoliciesTypeOK
  <2>3. QED
    BY <2>1, <2>2, <1>1 DEF BatchExpired, PastItsPolicy
<1>8. QED
  BY <1>2, <1>3, <1>4, <1>5, <1>6, <1>7
     DEF PoliciesNext, Transaction, CreatePolicy, UpdatePolicy, Begin,
         ClearDefaults, WritePolicy, EnterDefault, CommitPolicy, AbortPolicy,
         BreakDeadlock, DeletePolicy, LookUpPolicy, policyVars, policyTable,
         recordingVars, passVars

(* The enforcer deletes a recording only when it is older than its own     *)
(* policy says, or than the default if it has none, unless a policy has    *)
(* changed since the pass selected its rows.                               *)
THEOREM PoliciesOnlyExpiredGo == PoliciesSpec => OnlyExpiredGo
<1>1. PoliciesInit => BatchExpired
  BY DEF PoliciesInit, BatchExpired
<1>2. PoliciesSpec => []BatchExpired
  BY <1>1, BatchStep, PoliciesTypeCorrect, PoliciesInvariant, PTL
     DEF PoliciesSpec
<1>3. PoliciesTypeOK /\ BatchExpired /\ [PoliciesNext]_policyVars
        => [\A r \in Recordings : row[r] # NoRow /\ row'[r] = NoRow =>
              PastItsPolicy(r) \/ edited]_policyVars
  <2> SUFFICES ASSUME PoliciesTypeOK, BatchExpired, [PoliciesNext]_policyVars,
                      NEW r \in Recordings, row[r] # NoRow, row'[r] = NoRow
               PROVE  PastItsPolicy(r) \/ edited
    OBVIOUS
  <2>1. InsertRecording => row'[r] = row[r] \/ row'[r] # NoRow
    <3>1. \A p : [kept |-> "yes", policy |-> p] # NoRow
      BY DEF NoRow
    <3>2. QED
      BY <3>1 DEF InsertRecording, PoliciesTypeOK
  <2>2. \E s \in Recordings : DeleteExpired(s)
    BY <2>1
       DEF PoliciesNext, Transaction, CreatePolicy, UpdatePolicy, Begin,
           ClearDefaults, WritePolicy, EnterDefault, CommitPolicy,
           AbortPolicy, BreakDeadlock, DeletePolicy, LookUpPolicy, DayPasses,
           QueryExpired, policyVars, recordingVars
  <2>3. r \in batch
    BY <2>2 DEF DeleteExpired, PoliciesTypeOK
  <2>4. QED
    BY <2>3 DEF BatchExpired
<1>4. QED
  BY <1>2, <1>3, PoliciesTypeCorrect, PTL DEF PoliciesSpec, OnlyExpiredGo

-----------------------------------------------------------------------------
(* Why requests do not wait in a circle.  What a request holds is its own, *)
(* and what it has cleared is still the default for everyone else.         *)
Cleared(h) == IF tx[h].step \in {"write", "index", "commit"} THEN tx[h].cleared
              ELSE {}
HoldsApart == \A g, h \in Admins : g # h => Holds(g) \cap Holds(h) = {}
ClearedIsDefault == \A h \in Admins : Cleared(h) \subseteq dflt
LocksInv == HoldsApart /\ ClearedIsDefault

LEMMA HeldRows ==
  ASSUME NEW h \in Admins
  PROVE  /\ Cleared(h) \subseteq Holds(h)
         /\ Holds(h) = {} \/ tx[h].step \in {"write", "index", "commit"}
         /\ tx[h].step = "write" => Holds(h) = Cleared(h)
         /\ tx[h].step \in {"index", "commit"}
              => Holds(h) = Cleared(h) \cup {tx[h].want.id}
BY DEF Holds, Cleared

LEMMA HeldFrame ==
  ASSUME NEW h \in Admins, tx'[h] = tx[h]
  PROVE  Holds(h)' = Holds(h) /\ Cleared(h)' = Cleared(h)
BY DEF Holds, Cleared

LEMMA NothingHeld ==
  ASSUME NEW h \in Admins, tx'[h].step \in {"none", "clear"}
  PROVE  Holds(h)' = {} /\ Cleared(h)' = {}
BY DEF Holds, Cleared

(* One request takes free rows, or gives up its own.                       *)
LEMMA LocksMove ==
  ASSUME LocksInv, NEW h \in Admins,
         \A g \in Admins \ {h} : tx'[g] = tx[g],
         (Holds(h)' \ Holds(h)) \cap HeldByOthers(h) = {},
         Cleared(h)' \subseteq dflt',
         \A p \in dflt \ dflt' : p \in Holds(h)
  PROVE  LocksInv'
<1>1. \A g \in Admins \ {h} : Holds(g)' = Holds(g) /\ Cleared(g)' = Cleared(g)
  BY HeldFrame
<1>2. \A g \in Admins \ {h} : Holds(g) \cap Holds(h)' = {}
  <2>1. \A g \in Admins \ {h} : Holds(g) \subseteq HeldByOthers(h)
    BY DEF HeldByOthers
  <2>2. QED
    BY <2>1 DEF LocksInv, HoldsApart
<1>3. HoldsApart'
  <2> SUFFICES ASSUME NEW f \in Admins, NEW g \in Admins, f # g
               PROVE  Holds(f)' \cap Holds(g)' = {}
    BY DEF HoldsApart
  <2>1. CASE f # h /\ g # h
    BY <1>1, <2>1 DEF LocksInv, HoldsApart
  <2>2. CASE f = h \/ g = h
    BY <1>1, <1>2, <2>2
  <2>3. QED
    BY <2>1, <2>2
<1>4. ClearedIsDefault'
  <2> SUFFICES ASSUME NEW g \in Admins PROVE Cleared(g)' \subseteq dflt'
    BY DEF ClearedIsDefault
  <2>1. CASE g = h
    BY <2>1
  <2>2. CASE g # h
    <3>1. Cleared(g)' = Cleared(g) /\ Cleared(g) \subseteq dflt
      BY <1>1, <2>2 DEF LocksInv, ClearedIsDefault
    <3>2. Cleared(g) \cap Holds(h) = {}
      BY <2>2, HeldRows DEF LocksInv, HoldsApart
    <3>3. QED
      BY <3>1, <3>2
  <2>3. QED
    BY <2>1, <2>2
<1>5. QED
  BY <1>3, <1>4 DEF LocksInv

LEMMA LocksEnd ==
  ASSUME PoliciesTypeOK, LocksInv, NEW h \in Admins, Rollback(h),
         \A p \in dflt \ dflt' : p \in Holds(h)
  PROVE  LocksInv'
<1>1. tx'[h] = NoTx /\ \A g \in Admins \ {h} : tx'[g] = tx[g]
  BY OneTx DEF Rollback
<1>2. Holds(h)' = {} /\ Cleared(h)' = {}
  BY <1>1, NothingHeld DEF NoTx
<1>3. QED
  BY <1>1, <1>2, LocksMove

LEMMA LocksBegin ==
  ASSUME PoliciesTypeOK, LocksInv, NEW h \in Admins,
         NEW op \in {"create", "update"}, NEW w \in Want, Begin(h, op, w)
  PROVE  LocksInv'
<1> DEFINE first == [step |-> "clear", op |-> op, want |-> w,
                     seen |-> IF op = "update" THEN dflt \ {w.id} ELSE dflt]
           second == [step |-> "write", op |-> op, want |-> w, cleared |-> {}]
<1>1. tx' = [tx EXCEPT ![h] = IF w.default = "set" THEN first ELSE second]
  BY DEF Begin
<1>2. first.step = "clear" /\ second.step = "write" /\ second.cleared = {}
  OBVIOUS
<1> HIDE DEF first, second
<1>3. /\ tx'[h] = IF w.default = "set" THEN first ELSE second
      /\ \A g \in Admins \ {h} : tx'[g] = tx[g]
  BY <1>1, OneTx
<1>4. Holds(h)' = {} /\ Cleared(h)' = {}
  BY <1>2, <1>3 DEF Holds, Cleared
<1>5. dflt' = dflt
  BY DEF Begin, policyTable
<1>6. QED
  BY <1>3, <1>4, <1>5, LocksMove

LEMMA LocksClear ==
  ASSUME PoliciesTypeOK, LocksInv, NEW h \in Admins, ClearDefaults(h)
  PROVE  LocksInv'
<1>1. /\ tx'[h] = [step |-> "write", op |-> tx[h].op, want |-> tx[h].want,
                   cleared |-> tx[h].seen \cap dflt]
      /\ \A g \in Admins \ {h} : tx'[g] = tx[g]
  BY OneTx DEF ClearDefaults
<1>2. tx'[h].step = "write" /\ tx'[h].cleared = tx[h].seen \cap dflt
  BY <1>1
<1>3. Holds(h)' = tx[h].seen \cap dflt /\ Cleared(h)' = tx[h].seen \cap dflt
  BY <1>2 DEF Holds, Cleared
<1>4. tx[h].seen \cap HeldByOthers(h) = {} /\ dflt' = dflt
  BY DEF ClearDefaults, RowsAreFree, policyTable
<1>5. QED
  BY <1>1, <1>3, <1>4, LocksMove

LEMMA LocksWrite ==
  ASSUME PoliciesTypeOK, LocksInv, NEW h \in Admins,
         WritePolicy(h) \/ EnterDefault(h)
  PROVE  LocksInv'
<1>1. dflt' = dflt /\ tx[h].step \in {"write", "index"}
  BY DEF WritePolicy, EnterDefault, policyTable
<1>2. CASE ~Rollback(h)
  <2> DEFINE index == [step |-> "index", op |-> tx[h].op, want |-> tx[h].want,
                       cleared |-> tx[h].cleared]
             commit == [step |-> "commit", want |-> tx[h].want,
                        cleared |-> tx[h].cleared]
  <2>1. \A t \in {index, commit} :
          /\ t.step \in {"index", "commit"} /\ t.want = tx[h].want
          /\ t.cleared = tx[h].cleared
    OBVIOUS
  <2>2. \E t \in {index, commit} : tx' = [tx EXCEPT ![h] = t]
    BY <1>2 DEF WritePolicy, EnterDefault
  <2> HIDE DEF index, commit
  <2>3. PICK t \in {index, commit} : tx' = [tx EXCEPT ![h] = t]
    BY <2>2
  <2>4. tx'[h] = t /\ \A g \in Admins \ {h} : tx'[g] = tx[g]
    BY <2>3, OneTx
  <2>5. /\ tx'[h].step \in {"index", "commit"} /\ tx'[h].want = tx[h].want
        /\ tx'[h].cleared = tx[h].cleared
    BY <2>1, <2>4
  <2>6. /\ Cleared(h)' = Cleared(h) /\ Cleared(h) \subseteq dflt
        /\ Holds(h)' = Cleared(h) \cup {tx[h].want.id}
    BY <1>1, <2>5 DEF Holds, Cleared, LocksInv, ClearedIsDefault
  <2>7. tx[h].want.id \notin HeldByOthers(h) \/ tx[h].want.id \in Holds(h)
    BY DEF WritePolicy, EnterDefault, RowIsFree, Holds
  <2>8. QED
    BY <1>1, <2>4, <2>6, <2>7, HeldRows, LocksMove
<1>3. QED
  BY <1>1, <1>2, LocksEnd

LEMMA LocksCommit ==
  ASSUME PoliciesTypeOK, LocksInv, NEW h \in Admins, CommitPolicy(h)
  PROVE  LocksInv'
<1>1. Rollback(h) /\ tx[h].step = "commit"
  BY DEF CommitPolicy, Rollback
<1>2. \A p \in dflt \ dflt' : p \in tx[h].cleared \/ p = tx[h].want.id
  BY DEF CommitPolicy
<1>3. QED
  BY <1>1, <1>2, LocksEnd DEF Holds

LEMMA LocksStep ==
  ASSUME PoliciesTypeOK, LocksInv, [PoliciesNext]_policyVars
  PROVE  LocksInv'
<1>1. CASE UNCHANGED <<tx, dflt>>
  BY <1>1 DEF LocksInv, HoldsApart, ClearedIsDefault, Holds, Cleared
<1>2. ASSUME NEW h \in Admins, AbortPolicy(h) \/ BreakDeadlock(h)
      PROVE  LocksInv'
  BY <1>2, LocksEnd DEF AbortPolicy, BreakDeadlock, policyTable
<1>3. ASSUME NEW h \in Admins, NEW p \in Policies, DeletePolicy(h, p)
      PROVE  LocksInv'
  <2>1. UNCHANGED tx /\ dflt' = dflt \ {p} /\ \A g \in Admins : p \notin Holds(g)
    BY <1>3 DEF DeletePolicy
  <2>2. \A g \in Admins : Holds(g)' = Holds(g) /\ Cleared(g)' = Cleared(g)
    BY <2>1, HeldFrame
  <2>3. QED
    BY <2>1, <2>2, HeldRows DEF LocksInv, HoldsApart, ClearedIsDefault
<1>4. QED
  BY <1>1, <1>2, <1>3, RequestKinds, LocksBegin, LocksClear, LocksWrite,
     LocksCommit
     DEF PoliciesNext, Transaction, policyVars, LookUpPolicy, InsertRecording,
         DayPasses, QueryExpired, DeleteExpired, policyTable, recordingVars

LEMMA LocksInvariant == PoliciesSpec => []LocksInv
<1>1. PoliciesInit => LocksInv
  BY DEF PoliciesInit, LocksInv, HoldsApart, ClearedIsDefault, Holds, Cleared,
         NoTx
<1>2. QED
  BY <1>1, LocksStep, PoliciesTypeCorrect, PTL DEF PoliciesSpec

(* There is one default row, so one request at most holds it.              *)
LEMMA OneHoldsDefault ==
  ASSUME PoliciesConsistent, LocksInv, NEW g \in Admins, NEW h \in Admins,
         Holds(g) \cap dflt # {}, Holds(h) \cap dflt # {}
  PROVE  g = h
BY DEF PoliciesConsistent, LocksInv, HoldsApart

(* If every request under way waits, two are crossed: the one that waits   *)
(* for the index entry waits for the one that cleared the default, and     *)
(* that one can wait only for a row somebody has written before entering.  *)
LEMMA AllWaitCrossed ==
  ASSUME PoliciesTypeOK, PoliciesConsistent, LocksInv,
         NEW o \in Admins, tx[o] # NoTx,
         \A h \in Admins : ~CanProceed(h)
  PROVE  \E g, h \in Admins : Crossed(g, h)
<1>1. \A h \in Admins :
        /\ tx[h].step # "commit"
        /\ tx[h].step = "clear" => ~RowsAreFree(h)
        /\ tx[h].step = "write" => ~RowIsFree(h)
        /\ tx[h].step = "index" => ~IndexIsFree(h)
  BY DEF CanProceed
<1>2. \A h \in Admins : HoldsDefault(h) <=> Holds(h) \cap dflt # {}
  BY <1>1 DEF HoldsDefault
<1>3. \A h \in Admins : Cleared(h) \subseteq dflt
  BY DEF LocksInv, ClearedIsDefault
<1>4. \A h \in Admins : /\ tx[h].step = "write" => Holds(h) = Cleared(h)
                        /\ Holds(h) # {} => tx[h].step \in {"write", "index"}
                        /\ tx[h].step = "index"
                             => Holds(h) = Cleared(h) \cup {tx[h].want.id}
  BY <1>1, HeldRows
<1>5. ASSUME NEW k \in Admins, tx[k].step = "write", Holds(k) # {}
      PROVE  \E g, h \in Admins : Crossed(g, h)
  <2>1. PICK f \in Admins \ {k} : tx[k].want.id \in Holds(f)
    BY <1>1, <1>5 DEF RowIsFree, HeldByOthers
  <2>2. Holds(k) \cap dflt # {} /\ tx[k].cleared # {}
    BY <1>3, <1>4, <1>5 DEF Cleared
  <2>3. Holds(f) \cap dflt = {}
    BY <2>2, OneHoldsDefault
  <2>4. tx[f].step = "index"
    BY <1>3, <1>4, <2>1, <2>3
  <2>5. tx[k].want.id = tx[f].want.id
    BY <1>3, <1>4, <2>1, <2>3, <2>4
  <2>6. Crossed(f, k)
    BY <1>5, <2>2, <2>4, <2>5 DEF Crossed
  <2>7. QED
    BY <2>6
<1>6. ASSUME NEW g \in Admins, tx[g].step = "index"
      PROVE  \E k \in Admins : tx[k].step = "write" /\ Holds(k) # {}
  <2>1. \A h \in Admins : tx[h].step = "index" =>
          \E k \in Admins \ {h} : Holds(k) \cap dflt # {}
    BY <1>1, <1>2 DEF IndexIsFree, DefaultHeldByOthers
  <2>2. PICK k \in Admins \ {g} : Holds(k) \cap dflt # {}
    BY <1>6, <2>1
  <2>3. tx[k].step # "index"
    BY <2>1, <2>2, OneHoldsDefault
  <2>4. QED
    BY <1>4, <2>2, <2>3
<1>7. \E f \in Admins : Holds(f) # {}
  <2>1. tx[o].step \in {"clear", "write", "index"}
    BY <1>1, PolicyTypeParts, TxShape DEF Steps
  <2>2. CASE tx[o].step \in {"clear", "write"}
    BY <1>1, <2>2 DEF RowsAreFree, RowIsFree, HeldByOthers
  <2>3. CASE tx[o].step = "index"
    BY <1>6, <2>3
  <2>4. QED
    BY <2>1, <2>2, <2>3
<1>8. QED
  BY <1>4, <1>5, <1>6, <1>7

(* Requests never all wait for one another, but for two that set the same  *)
(* policy and are crossed.                                                 *)
THEOREM PoliciesSomeoneProceeds == PoliciesSpec => []SomeoneProceeds
<1>1. PoliciesTypeOK /\ PoliciesConsistent /\ LocksInv => SomeoneProceeds
  BY AllWaitCrossed DEF SomeoneProceeds
<1>2. QED
  BY <1>1, PoliciesTypeCorrect, PoliciesStayConsistent, LocksInvariant, PTL

-----------------------------------------------------------------------------
(* Each request takes effect at one moment.                                *)
Asked(h) == IF tx[h] = NoTx THEN NoTx ELSE tx[h].want

LEMMA AskedShape ==
  ASSUME PoliciesTypeOK, NEW h \in Admins
  PROVE  /\ tx[h] # NoTx => Asked(h) = tx[h].want /\ Asked(h) \in Want
         /\ tx[h] = NoTx => Asked(h) = NoTx
         /\ NoTx \notin Want
<1>1. NoTx \notin Want
  <2>1. ASSUME NEW w \in Want PROVE w # NoTx
    <3>1. "id" \in DOMAIN w
      BY DEF Want
    <3>2. "id" \notin DOMAIN NoTx
      BY DEF NoTx
    <3>3. QED
      BY <3>1, <3>2
  <2>2. QED
    BY <2>1
<1>2. QED
  BY <1>1, PolicyTypeParts, TxShape DEF Asked

LEMMA TableInit == PoliciesInit => Table!Init
<1> SUFFICES ASSUME PoliciesInit PROVE Table!Init
  OBVIOUS
<1>1. 1 \in 0..MaxDays /\ MaxDays \in 0..MaxDays /\ 0 \in 0..MaxDays
      /\ MaxDays # 0
  BY PoliciesAssumption
<1>2. /\ keep \in [Policies -> 0..MaxDays]
      /\ \A p \in Policies : keep[p] # 0 <=> p \in Seeded
  BY <1>1, PoliciesAssumption DEF PoliciesInit
<1>3. known = Seeded /\ dflt = {FirstDefault} /\ tx = [h \in Admins |-> NoTx]
  BY DEF PoliciesInit
<1>4. [h \in Admins |-> IF tx[h] = NoTx THEN NoTx ELSE tx[h].want]
        = [h \in Admins |-> NoTx]
  BY <1>3
<1>5. QED
  BY <1>2, <1>3, <1>4 DEF Table!Init

(* One transaction opens, goes on or ends, and the table stays as it is.   *)
LEMMA TableStays ==
  ASSUME PoliciesTypeOK, PoliciesTypeOK', NEW h \in Admins,
         UNCHANGED <<keep, known, dflt>>,
         \A g \in Admins \ {h} : tx'[g] = tx[g],
         \/ tx[h] = NoTx
         \/ tx'[h] = NoTx
         \/ tx'[h] # NoTx /\ tx'[h].want = tx[h].want
  PROVE  [Table!Next]_Table!vars
<1> DEFINE pending == [g \in Admins |-> IF tx[g] = NoTx THEN NoTx ELSE tx[g].want]
<1>1. \A g \in Admins : pending[g] = Asked(g) /\ pending'[g] = Asked(g)'
  BY DEF Asked
<1>2. \A g \in Admins \ {h} : pending'[g] = pending[g]
  BY DEF Asked
<1>3. /\ tx[h] # NoTx => pending[h] = tx[h].want /\ pending[h] # NoTx
      /\ tx[h] = NoTx => pending[h] = NoTx
  BY <1>1, AskedShape
<1>4. /\ tx'[h] # NoTx => pending'[h] = tx'[h].want /\ pending'[h] \in Want
      /\ tx'[h] = NoTx => pending'[h] = NoTx
  <2>1. /\ tx'[h] # NoTx => Asked(h)' = tx'[h].want /\ Asked(h)' \in Want
        /\ tx'[h] = NoTx => Asked(h)' = NoTx
    BY PolicyTypeParts, TxShape DEF Asked, TxType, Tx
  <2>2. QED
    BY <1>1, <2>1
<1>5. pending' = [pending EXCEPT ![h] = pending'[h]]
  BY <1>2
<1> HIDE DEF pending
<1>6. CASE pending'[h] = pending[h]
  <2>1. pending' = pending
    BY <1>2, <1>6 DEF pending
  <2>2. QED
    BY <2>1 DEF Table!vars, pending
<1>7. CASE pending'[h] # pending[h]
  <2>1. CASE tx[h] = NoTx /\ tx'[h] # NoTx
    <3>1. /\ pending[h] = NoTx /\ pending'[h] \in Table!Request
      BY <1>3, <1>4, <2>1 DEF Want, Table!Request
    <3>2. Table!Ask(h)
      BY <1>5, <3>1 DEF Table!Ask, pending
    <3>3. QED
      BY <3>2 DEF Table!Next
  <2>2. CASE tx[h] # NoTx /\ tx'[h] = NoTx
    <3>1. pending[h] # NoTx /\ pending'[h] = NoTx
      BY <1>3, <1>4, <2>2
    <3>2. Table!Fail(h)
      BY <1>5, <3>1 DEF Table!Fail, pending
    <3>3. QED
      BY <3>2 DEF Table!Next
  <2>3. QED
    BY <1>3, <1>4, <1>7, <2>1, <2>2
<1>8. QED
  BY <1>6, <1>7

LEMMA TableCommits ==
  ASSUME PoliciesTypeOK, TxInv, NEW h \in Admins, CommitPolicy(h)
  PROVE  Table!Apply(h)
<1> DEFINE pending == [g \in Admins |-> IF tx[g] = NoTx THEN NoTx ELSE tx[g].want]
           w == tx[h].want
<1>1. tx[h].step = "commit" /\ tx[h] # NoTx /\ w \in Want
  BY PolicyTypeParts, TxShape DEF CommitPolicy, Steps
<1>2. w.default \in {"set", "clear", "leave"}
  BY <1>1, WantShape
<1>3. tx'[h] = NoTx /\ \A g \in Admins \ {h} : tx'[g] = tx[g]
  BY OneTx DEF CommitPolicy
<1>4. pending[h] = w /\ pending[h] # NoTx /\ pending' = [pending EXCEPT ![h] = NoTx]
  BY <1>1, <1>3, AskedShape
<1>5. keep[w.id] # 0 \/ (w.id \notin known /\ w.keep # 0)
  BY <1>1 DEF TxInv, CreatesNew, Creating
<1>6. /\ keep' = [keep EXCEPT ![w.id] = IF w.keep = 0 THEN @ ELSE w.keep]
      /\ known' = known \cup {w.id}
      /\ dflt' = CASE w.default = "set" -> (dflt \ tx[h].cleared) \cup {w.id}
                   [] w.default = "clear" -> dflt \ {w.id}
                   [] OTHER -> dflt
  BY DEF CommitPolicy
<1>7. dflt' = CASE w.default = "set" -> {w.id}
                [] w.default = "clear" -> dflt \ {w.id}
                [] w.default = "leave" -> dflt
  <2>1. CASE w.default = "set"
    <3>1. SetsDefault(h)
      BY <1>1, <2>1 DEF SetsDefault
    <3>2. \A p \in dflt : p \in tx[h].cleared \/ p = w.id
      BY <3>1 DEF TxInv, OneSetter
    <3>3. dflt' = {w.id}
      BY <1>6, <2>1, <3>2
    <3>4. QED
      BY <2>1, <3>3
  <2>2. CASE w.default = "clear"
    BY <1>6, <2>2
  <2>3. CASE w.default = "leave"
    BY <1>6, <2>3
  <2>4. QED
    BY <1>2, <2>1, <2>2, <2>3
<1> HIDE DEF w
<1>8. /\ keep[pending[h].id] # 0
           \/ (pending[h].id \notin known /\ pending[h].keep # 0)
      /\ keep' = [keep EXCEPT ![pending[h].id] =
                    IF pending[h].keep = 0 THEN @ ELSE pending[h].keep]
      /\ known' = known \cup {pending[h].id}
      /\ dflt' = CASE pending[h].default = "set" -> {pending[h].id}
                   [] pending[h].default = "clear" -> dflt \ {pending[h].id}
                   [] pending[h].default = "leave" -> dflt
  BY <1>4, <1>5, <1>6, <1>7
<1> HIDE DEF pending
<1>9. QED
  BY <1>4, <1>8 DEF Table!Apply, pending

LEMMA TableDeletes ==
  ASSUME NEW h \in Admins, NEW p \in Policies, DeletePolicy(h, p)
  PROVE  Table!Delete(p)
BY DEF DeletePolicy, Table!Delete

LEMMA TableStep ==
  ASSUME PoliciesTypeOK, PoliciesTypeOK', TxInv, [PoliciesNext]_policyVars
  PROVE  [Table!Next]_Table!vars
<1>1. CASE UNCHANGED <<keep, known, dflt, tx>>
  BY <1>1 DEF Table!vars
<1>2. ASSUME NEW h \in Admins, NEW op \in {"create", "update"}, NEW w \in Want,
             Begin(h, op, w)
      PROVE  [Table!Next]_Table!vars
  <2>1. tx[h] = NoTx /\ UNCHANGED <<keep, known, dflt>>
    BY <1>2 DEF Begin, policyTable
  <2>2. \A g \in Admins \ {h} : tx'[g] = tx[g]
    BY <1>2, OneTx DEF Begin
  <2>3. QED
    BY <2>1, <2>2, TableStays
<1>3. ASSUME NEW h \in Admins, ClearDefaults(h) \/ WritePolicy(h) \/ EnterDefault(h)
      PROVE  [Table!Next]_Table!vars
  <2>1. UNCHANGED <<keep, known, dflt>>
    BY <1>3 DEF ClearDefaults, WritePolicy, EnterDefault, policyTable
  <2>2. \E t : /\ tx' = [tx EXCEPT ![h] = t]
               /\ t = NoTx \/ t.want = tx[h].want
    BY <1>3 DEF ClearDefaults, WritePolicy, EnterDefault, Rollback
  <2>3. PICK t : /\ tx' = [tx EXCEPT ![h] = t]
                 /\ t = NoTx \/ t.want = tx[h].want
    BY <2>2
  <2>4. tx'[h] = t /\ \A g \in Admins \ {h} : tx'[g] = tx[g]
    BY <2>3, OneTx
  <2>5. QED
    BY <2>1, <2>3, <2>4, TableStays
<1>4. ASSUME NEW h \in Admins, AbortPolicy(h) \/ BreakDeadlock(h)
      PROVE  [Table!Next]_Table!vars
  <2>1. UNCHANGED <<keep, known, dflt>>
    BY <1>4 DEF AbortPolicy, BreakDeadlock, policyTable
  <2>2. tx'[h] = NoTx /\ \A g \in Admins \ {h} : tx'[g] = tx[g]
    BY <1>4, OneTx DEF AbortPolicy, BreakDeadlock, Rollback
  <2>3. QED
    BY <2>1, <2>2, TableStays
<1>5. QED
  BY <1>1, <1>2, <1>3, <1>4, RequestKinds, TableCommits, TableDeletes
     DEF Table!Next, PoliciesNext, Transaction, policyVars, LookUpPolicy,
         InsertRecording, DayPasses, QueryExpired, DeleteExpired, policyTable,
         recordingVars

(* Creating, changing and deleting policies implements the abstract table: *)
(* each request takes effect at one moment and as a whole, or not at all,  *)
(* for any number of administrators at the same time.                      *)
THEOREM PoliciesImplementTable == PoliciesSpec => ImplementsPolicyTable
<1>1. PoliciesTypeOK /\ PoliciesTypeOK' /\ PoliciesInv /\ [PoliciesNext]_policyVars
        => [Table!Next]_Table!vars
  BY TableStep DEF PoliciesInv
<1>2. QED
  BY <1>1, TableInit, PoliciesTypeCorrect, PoliciesInvariant, PTL
     DEF PoliciesSpec, ImplementsPolicyTable, Table!Spec
=============================================================================

------------------------- MODULE RetentionPolicies --------------------------
(***************************************************************************)
(* Which recordings are kept how long: the retention_policies table and    *)
(* the handlers that change it (coordinator/src/routes/retention.rs), the  *)
(* look-up of a policy for a new recording (index_segment in               *)
(* routes/node_ws.rs) and the enforcer that deletes what has expired       *)
(* (coordinator/src/retention.rs).                                         *)
(*                                                                         *)
(* Creating and updating are transactions of two statements under READ     *)
(* COMMITTED: a statement sees what was committed when it started, waits   *)
(* for the rows and index entries other transactions hold, then looks at   *)
(* them again.  `lost`, `dropped` and `edited` are history variables.      *)
(***************************************************************************)
EXTENDS Naturals, FiniteSets

CONSTANTS Policies,      \* policy ids the database may assign
          NoPolicy,      \* NULL
          Seeded,        \* policies the migration inserts ...
          FirstDefault,  \* ... and the default among them
          Admins,        \* requests that change policies at the same time
          Recordings,    \* segments a node sends
          MaxDays,       \* bound: days recordings are followed, and keep_days
          BatchSize,     \* 500: rows one pass of the enforcer selects
          MaxRequests,   \* bound: requests
          MaxErrors      \* bound: database errors and broken requests

ASSUME PoliciesAssumption ==
  /\ Seeded \subseteq Policies
  /\ FirstDefault \in Seeded
  /\ NoPolicy \notin Policies
  /\ MaxDays \in Nat \ {0}
  /\ BatchSize \in Nat \ {0}
  /\ MaxRequests \in Nat
  /\ MaxErrors \in Nat

KeepDays == 1..MaxDays     \* CHECK (keep_days > 0)

(* A request names the policy, the new keep_days or 0 to leave it, and     *)
(* whether is_default is to be set, cleared or left.                       *)
Want == [id: Policies, keep: 0..MaxDays, default: {"set", "clear", "leave"}]
NoTx == [step |-> "none"]
Tx == [step: {"clear"}, op: {"create", "update"}, want: Want,
       seen: SUBSET Policies]
        \cup [step: {"write", "index"}, op: {"create", "update"}, want: Want,
              cleared: SUBSET Policies]
        \cup [step: {"commit"}, want: Want, cleared: SUBSET Policies]

NoRow == [kept |-> "no"]
Row == [kept: {"yes"}, policy: Policies \cup {NoPolicy}]
NoLookup == [doing |-> "nothing"]
Lookup == [doing: {"insert"}, rec: Recordings,
           policy: Policies \cup {NoPolicy}]

VARIABLES
  keep,       \* keep_days of each policy, 0 if it has no row
  known,       \* ids assigned so far
  dflt,       \* committed rows with is_default
  tx,         \* the transaction of each request
  row,        \* the recordings table
  age,        \* days since each recording started
  lookup,     \* index_segment between its two statements
  batch,      \* rows the enforcer has selected and not deleted yet
  requests,   \* number of requests so far
  errors,     \* number of errors so far
  lost,       \* history: recordings whose insert failed, with the policy
  dropped,    \* history: policies deleted
  edited      \* history: policies committed since the enforcer selected

policyTable == <<keep, known, dflt>>
recordingVars == <<row, age, lookup, lost>>
passVars == <<batch, edited>>
policyVars == <<policyTable, tx, recordingVars, passVars, requests, errors,
                dropped>>

RequestComes == requests < MaxRequests /\ requests' = requests + 1
DbError == errors < MaxErrors /\ errors' = errors + 1

PoliciesInit ==
  /\ keep = [p \in Policies |-> IF p = FirstDefault THEN 1
                                ELSE IF p \in Seeded THEN MaxDays ELSE 0]
  /\ known = Seeded
  /\ dflt = {FirstDefault}
  /\ tx = [h \in Admins |-> NoTx]
  /\ row = [r \in Recordings |-> NoRow]
  /\ age = [r \in Recordings |-> 0]
  /\ lookup = NoLookup
  /\ batch = {}
  /\ requests = 0
  /\ errors = 0
  /\ lost = {}
  /\ dropped = {}
  /\ edited = FALSE

-----------------------------------------------------------------------------
(* What an open transaction holds until it ends: rows it has cleared, the  *)
(* row it has written, and the entry of the unique index over the default: *)
(* the new one, or the old one of a row it has changed.  One that is still *)
(* waiting for that entry holds its row already.                           *)
Holds(h) ==
  CASE tx[h].step = "write" -> tx[h].cleared
    [] tx[h].step \in {"index", "commit"} -> tx[h].cleared \cup {tx[h].want.id}
    [] OTHER -> {}
HoldsDefault(h) ==
  \/ Holds(h) \cap dflt # {}
  \/ tx[h].step = "commit" /\ tx[h].want.default = "set"

HeldByOthers(h) == UNION {Holds(g) : g \in Admins \ {h}}
DefaultHeldByOthers(h) == \E g \in Admins \ {h} : HoldsDefault(g)

(* Mutant: the second statement goes to the pool, and waits for its own    *)
(* transaction.                                                            *)
WaitsForItself(h) == \A g \in Admins : ~HoldsDefault(g)

(* What each statement waits for.                                          *)
RowsAreFree(h) == tx[h].seen \cap HeldByOthers(h) = {}
RowIsFree(h) == tx[h].want.id \notin HeldByOthers(h)
IndexIsFree(h) == ~DefaultHeldByOthers(h)

(* Begin: the first statement, sent only to set a default, starts with the *)
(* default rows it sees; an update leaves its own row out (id != $1).      *)
Begin(h, op, want) ==
  /\ tx[h] = NoTx
  /\ RequestComes
  /\ tx' = [tx EXCEPT ![h] =
       IF want.default = "set"
       THEN [step |-> "clear", op |-> op, want |-> want,
             seen |-> IF op = "update" THEN dflt \ {want.id} ELSE dflt]
       ELSE [step |-> "write", op |-> op, want |-> want, cleared |-> {}]]
  /\ UNCHANGED <<policyTable, recordingVars, passVars, errors, dropped>>

(* create_retention_policy: keep_days <= 0 is refused.                     *)
CreatePolicy(h, p, k, d) ==
  /\ p \notin known
  /\ \A g \in Admins : tx[g] # NoTx => tx[g].want.id # p
  /\ k \in KeepDays
  /\ d # "clear"
  /\ Begin(h, "create", [id |-> p, keep |-> k, default |-> d])

UpdatePolicy(h, p, k, d) ==
  /\ p \in known
  /\ Begin(h, "update", [id |-> p, keep |-> k, default |-> d])

(* Mutant: the first statement goes to the pool, not to the transaction.   *)
ClearsAtOnce(h) ==
  /\ tx[h].step = "clear"
  /\ RowsAreFree(h)
  /\ dflt' = dflt \ tx[h].seen
  /\ tx' = [tx EXCEPT ![h] = [step |-> "write", op |-> tx[h].op,
                              want |-> tx[h].want, cleared |-> {}]]
  /\ UNCHANGED <<keep, known, recordingVars, passVars, requests, errors,
                 dropped>>

(* SET is_default = false: waits for the rows it saw, clears those that    *)
(* are still the default.                                                  *)
ClearDefaults(h) ==
  /\ tx[h].step = "clear"
  /\ RowsAreFree(h)
  /\ tx' = [tx EXCEPT ![h] = [step |-> "write", op |-> tx[h].op,
                              want |-> tx[h].want,
                              cleared |-> tx[h].seen \cap dflt]]
  /\ UNCHANGED <<policyTable, recordingVars, passVars, requests, errors,
                 dropped>>

(* An error or an early return drops the transaction: rolled back.         *)
Rollback(h) == tx' = [tx EXCEPT ![h] = NoTx]

(* idx_retention_policies_single_default.                                  *)
OnlyDefault(h) ==
  dflt \ (tx[h].cleared \cup {tx[h].want.id}) = {}

(* INSERT, or UPDATE of the row by its id: waits for the row; one that is  *)
(* not there ends the request (404).                                       *)
WritePolicy(h) ==
  /\ tx[h].step = "write"
  /\ RowIsFree(h)
  /\ IF tx[h].op = "update" /\ keep[tx[h].want.id] = 0
     THEN Rollback(h)
     ELSE tx' = [tx EXCEPT ![h] =
            IF tx[h].want.default = "set"
            THEN [step |-> "index", op |-> tx[h].op, want |-> tx[h].want,
                  cleared |-> tx[h].cleared]
            ELSE [step |-> "commit", want |-> tx[h].want,
                  cleared |-> tx[h].cleared]]
  /\ UNCHANGED <<policyTable, recordingVars, passVars, requests, errors,
                 dropped>>

(* The same statement, with its row written, enters the row in the index   *)
(* of the default: it waits for whoever is changing the default; another   *)
(* default that is there then ends the request (500).                      *)
EnterDefault(h) ==
  /\ tx[h].step = "index"
  /\ IndexIsFree(h)
  /\ IF OnlyDefault(h)
     THEN tx' = [tx EXCEPT ![h] = [step |-> "commit", want |-> tx[h].want,
                                   cleared |-> tx[h].cleared]]
     ELSE Rollback(h)
  /\ UNCHANGED <<policyTable, recordingVars, passVars, requests, errors,
                 dropped>>

CommitPolicy(h) ==
  /\ tx[h].step = "commit"
  /\ LET w == tx[h].want
     IN /\ keep' = [keep EXCEPT ![w.id] = IF w.keep = 0 THEN @ ELSE w.keep]
        /\ known' = known \cup {w.id}
        /\ dflt' = CASE w.default = "set" -> (dflt \ tx[h].cleared) \cup {w.id}
                     [] w.default = "clear" -> dflt \ {w.id}
                     [] OTHER -> dflt
  /\ tx' = [tx EXCEPT ![h] = NoTx]
  /\ edited' = (batch # {})
  /\ UNCHANGED <<recordingVars, batch, requests, errors, dropped>>

(* A name already taken, a database error, or the client gone.             *)
AbortPolicy(h) ==
  /\ tx[h] # NoTx
  /\ DbError
  /\ Rollback(h)
  /\ UNCHANGED <<policyTable, recordingVars, passVars, requests, dropped>>

(* Two requests that set the same policy: g has written its row and waits  *)
(* to enter the default; h has cleared the default and waits for the row.  *)
Crossed(g, h) ==
  /\ g # h
  /\ tx[g].step = "index" /\ tx[h].step = "write"
  /\ tx[g].want.id = tx[h].want.id
  /\ tx[h].cleared # {}

(* The database finds two transactions that wait for each other and ends   *)
(* one of them (500).                                                      *)
BreakDeadlock(h) ==
  /\ \E g \in Admins : Crossed(g, h) \/ Crossed(h, g)
  /\ Rollback(h)
  /\ UNCHANGED <<policyTable, recordingVars, passVars, requests, errors,
                 dropped>>

(* delete_retention_policy, one statement: recordings that refer to the    *)
(* policy forbid it.                                                       *)
DeletePolicy(h, p) ==
  /\ tx[h] = NoTx
  /\ RequestComes
  /\ keep[p] # 0
  /\ \A g \in Admins : p \notin Holds(g)
  /\ \A r \in Recordings : row[r] # NoRow => row[r].policy # p
  /\ keep' = [keep EXCEPT ![p] = 0]
  /\ dflt' = dflt \ {p}
  /\ dropped' = dropped \cup {p}
  /\ edited' = (batch # {})
  /\ UNCHANGED <<known, tx, recordingVars, batch, errors>>

-----------------------------------------------------------------------------
(* index_segment: SELECT the policy.  Nothing in the program gives a       *)
(* camera a policy of its own, so it is the default, or NULL when there is *)
(* none, the query fails or the camera has no row any more ...             *)
LookUpPolicy(r) ==
  /\ lookup = NoLookup
  /\ row[r] = NoRow /\ age[r] = 0
  /\ \A l \in lost : l.rec # r
  /\ \/ /\ \E p \in IF dflt = {} THEN {NoPolicy} ELSE dflt :
             lookup' = [doing |-> "insert", rec |-> r, policy |-> p]
        /\ UNCHANGED errors
     \/ /\ DbError
        /\ lookup' = [doing |-> "insert", rec |-> r, policy |-> NoPolicy]
  /\ UNCHANGED <<policyTable, tx, row, age, lost, passVars, requests,
                 dropped>>

(* Mutant: recordings.retention_policy_id has no foreign key.              *)
InsertUnchecked ==
  /\ lookup # NoLookup
  /\ row' = [row EXCEPT ![lookup.rec] =
               [kept |-> "yes", policy |-> lookup.policy]]
  /\ lookup' = NoLookup
  /\ UNCHANGED <<policyTable, tx, age, lost, passVars, requests, errors,
                 dropped>>

(* ... and INSERT the row.  The foreign key refuses a policy deleted since *)
(* and the error is only logged.                                           *)
InsertRecording ==
  /\ lookup # NoLookup
  /\ IF lookup.policy = NoPolicy \/ keep[lookup.policy] # 0
     THEN /\ row' = [row EXCEPT ![lookup.rec] =
                       [kept |-> "yes", policy |-> lookup.policy]]
          /\ UNCHANGED lost
     ELSE /\ lost' = lost \cup {[rec |-> lookup.rec, policy |-> lookup.policy]}
          /\ UNCHANGED row
  /\ lookup' = NoLookup
  /\ UNCHANGED <<policyTable, tx, age, passVars, requests, errors, dropped>>

DayPasses ==
  /\ \E r \in Recordings : age[r] < MaxDays + 1
  /\ age' = [r \in Recordings |->
               IF row[r] # NoRow /\ age[r] <= MaxDays THEN age[r] + 1
               ELSE age[r]]
  /\ age' # age
  /\ UNCHANGED <<policyTable, tx, row, lookup, lost, passVars, requests,
                 errors, dropped>>

-----------------------------------------------------------------------------
(* Mutant: the default policy goes before the policy of the row.           *)
DefaultFirst(r) ==
  UNION {{keep[p]} : p \in IF dflt # {} THEN dflt
                           ELSE {row[r].policy} \cap Policies} \ {0}

(* COALESCE(rp.keep_days, def.keep_days), as a set without NULL.           *)
Limit(r) ==
  UNION {{keep[p]} : p \in IF row[r].policy \in Policies
                              /\ keep[row[r].policy] # 0
                           THEN {row[r].policy} ELSE dflt} \ {0}

Expired(r) == row[r] # NoRow /\ \E k \in Limit(r) : age[r] > k

(* query_expired: the oldest rows first, BatchSize at most.                *)
QueryExpired ==
  /\ batch = {}
  /\ batch' \in SUBSET {r \in Recordings : Expired(r)} \ {{}}
  /\ Cardinality(batch') <= BatchSize
  /\ \A r \in batch' : \A s \in Recordings \ batch' :
       Expired(s) => age[s] <= age[r] /\ Cardinality(batch') = BatchSize
  /\ edited' = FALSE
  /\ UNCHANGED <<policyTable, tx, recordingVars, requests, errors, dropped>>

(* delete_and_notify, one row at a time; a failed DELETE is ignored, and a *)
(* later pass selects the row again.                                       *)
DeleteExpired(r) ==
  /\ r \in batch
  /\ batch' = batch \ {r}
  /\ \/ row' = [row EXCEPT ![r] = NoRow] /\ UNCHANGED errors
     \/ DbError /\ UNCHANGED row
  /\ UNCHANGED <<policyTable, tx, age, lookup, lost, edited, requests, dropped>>

-----------------------------------------------------------------------------
Transaction(h) ==
  ClearDefaults(h) \/ WritePolicy(h) \/ EnterDefault(h) \/ CommitPolicy(h)

PoliciesNext ==
  \/ \E h \in Admins :
       \/ Transaction(h) \/ AbortPolicy(h) \/ BreakDeadlock(h)
       \/ \E p \in Policies :
            \/ DeletePolicy(h, p)
            \/ \E k \in 0..MaxDays, d \in {"set", "clear", "leave"} :
                 CreatePolicy(h, p, k, d) \/ UpdatePolicy(h, p, k, d)
  \/ \E r \in Recordings : LookUpPolicy(r) \/ DeleteExpired(r)
  \/ InsertRecording \/ DayPasses \/ QueryExpired

PoliciesSpec == PoliciesInit /\ [][PoliciesNext]_policyVars

-----------------------------------------------------------------------------
PoliciesTypeOK ==
  /\ keep \in [Policies -> 0..MaxDays]
  /\ known \in SUBSET Policies
  /\ dflt \in SUBSET Policies
  /\ tx \in [Admins -> Tx \cup {NoTx}]
  /\ row \in [Recordings -> Row \cup {NoRow}]
  /\ age \in [Recordings -> 0..(MaxDays + 1)]
  /\ lookup \in Lookup \cup {NoLookup}
  /\ batch \in SUBSET Recordings
  /\ requests \in 0..MaxRequests
  /\ errors \in 0..MaxErrors
  /\ lost \in SUBSET [rec: Recordings, policy: Policies \cup {NoPolicy}]
  /\ dropped \in SUBSET Policies
  /\ edited \in BOOLEAN

(* However requests interleave: at most one policy is the default, and it  *)
(* exists; the policy of a recording exists; and a recording is missing    *)
(* only because its policy was deleted between the two statements of       *)
(* index_segment.                                                          *)
PoliciesConsistent ==
  /\ \A p, q \in dflt : p = q
  /\ \A p \in dflt : keep[p] # 0
  /\ \A r \in Recordings : row[r] # NoRow /\ row[r].policy # NoPolicy
                             => keep[row[r].policy] # 0
  /\ \A l \in lost : l.policy \in dropped

(* Moving the default fails or succeeds as a whole: a default policy gives *)
(* way to none only when a request clears its flag or deletes it.          *)
DefaultKept ==
  [][dflt # {} /\ dflt' = {} =>
       \/ dropped' # dropped
       \/ \E h \in Admins : /\ tx[h].step = "commit" /\ tx'[h] = NoTx
                            /\ tx[h].want.default = "clear"
                            /\ tx[h].want.id \in dflt]_policyVars

PastItsPolicy(r) ==
  IF row[r].policy # NoPolicy THEN age[r] > keep[row[r].policy]
  ELSE \E p \in dflt : age[r] > keep[p]

(* The enforcer deletes a recording only when it is older than its own     *)
(* policy says, or than the default if it has none; a policy changed since *)
(* the pass selected its rows is the one excuse.                           *)
OnlyExpiredGo ==
  [][\A r \in Recordings : row[r] # NoRow /\ row'[r] = NoRow =>
       PastItsPolicy(r) \/ edited]_policyVars

(* A request that is not held up by the rows and index entries others      *)
(* hold, or by its own.                                                    *)
CanProceed(h) ==
  \/ tx[h].step = "clear" /\ RowsAreFree(h)
  \/ tx[h].step = "write" /\ RowIsFree(h)
  \/ tx[h].step = "index" /\ IndexIsFree(h)
  \/ tx[h].step = "commit"

(* Requests never all wait for one another, with one exception, which the  *)
(* database resolves at the cost of one of them: two that set the same     *)
(* policy as the default, the first of which found no other to clear.      *)
SomeoneProceeds ==
  (\E h \in Admins : tx[h] # NoTx) =>
    \/ \E h \in Admins : CanProceed(h)
    \/ \E g, h \in Admins : Crossed(g, h)

(* However the two statements of the requests interleave, each request     *)
(* changes the table at one moment, as a whole, or fails and leaves        *)
(* nothing behind, as if it had been alone.                                *)
Table == INSTANCE PolicyTable
  WITH NoRequest <- NoTx,
       pending <- [h \in Admins |-> IF tx[h] = NoTx THEN NoTx ELSE tx[h].want]
ImplementsPolicyTable == Table!Spec
=============================================================================

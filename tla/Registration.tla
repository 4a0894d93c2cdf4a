---------------------------- MODULE Registration ----------------------------
(***************************************************************************)
(* How a node comes to its identity: the start of the node (node/src/      *)
(* main.rs, identity.rs, registration.rs), the handlers that create, judge *)
(* and delete its row (coordinator/src/routes/nodes.rs) and the check of   *)
(* its key when it connects (authenticate in routes/node_ws.rs).           *)
(*                                                                         *)
(* A row and its key are made together and the key never changes, so one   *)
(* number stands for both.  The node may die at any step, and the answer   *)
(* to its registration may be lost.  `used` and `early` are history        *)
(* variables: no action reads them.                                        *)
(***************************************************************************)
EXTENDS Naturals, FiniteSets

CONSTANTS MaxNodes,     \* bound: rows of the nodes table
          MaxJudged,    \* bound: changes an administrator makes
          MaxCrashes    \* bound: crashes and lost answers

ASSUME RegistrationAssumption == MaxNodes \in Nat /\ MaxCrashes \in Nat
                                 /\ MaxJudged \in Nat

NodeIds == 1..MaxNodes

VARIABLES
  nodeRow,    \* nodes.status of each row, "none" before and after
  rows,       \* number of rows inserted so far
  created,    \* rows an administrator created
  env,        \* NODE_ID and NODE_API_KEY of the node, 0 if not set
  file,       \* state.json, 0 if there is none or it cannot be read
  boot,       \* how far the node process is
  identity,   \* its NodeIdentity, 0 if it has none yet
  joined,     \* the row its connection is authenticated as, 0 if none
  judged,     \* number of administrator's changes so far
  crashes,    \* number of crashes so far
  used,       \* history: rows that ever connected
  early       \* history: crashes before an identity was at hand on disk

rowVars == <<nodeRow, rows, created>>
identityVars == <<env, file, boot, identity, joined>>
registrationVars == <<rowVars, identityVars, judged, crashes, used, early>>

Judge == judged < MaxJudged /\ judged' = judged + 1

RegistrationInit ==
  /\ nodeRow = [k \in NodeIds |-> "none"]
  /\ rows = 0
  /\ created = {}
  /\ env = 0
  /\ file = 0
  /\ boot = "down"
  /\ identity = 0
  /\ joined = 0
  /\ judged = 0
  /\ crashes = 0
  /\ used = {}
  /\ early = 0

-----------------------------------------------------------------------------
(* The coordinator                                                         *)

InsertNode(st) ==
  /\ rows + 1 \in NodeIds
  /\ rows' = rows + 1
  /\ nodeRow' = [nodeRow EXCEPT ![rows + 1] = st]

CreateNode ==
  /\ Judge
  /\ InsertNode("approved")
  /\ created' = created \cup {rows + 1}
  /\ UNCHANGED <<identityVars, crashes, used, early>>

UpdateNodeStatus(k, st) ==
  /\ Judge
  /\ nodeRow[k] \notin {"none", st}
  /\ nodeRow' = [nodeRow EXCEPT ![k] = st]
  /\ UNCHANGED <<rows, created, identityVars, crashes, used, early>>

(* An open connection of the node is left open.                            *)
DeleteNode(k) ==
  /\ Judge
  /\ nodeRow[k] # "none"
  /\ nodeRow' = [nodeRow EXCEPT ![k] = "none"]
  /\ UNCHANGED <<rows, created, identityVars, crashes, used, early>>

(* self_register: a new pending row for every request, whatever its name.  *)
SelfRegister ==
  /\ boot = "registering"
  /\ InsertNode("pending")
  /\ boot' = "answered"
  /\ identity' = rows + 1
  /\ UNCHANGED <<created, env, file, joined, judged, crashes, used, early>>

-----------------------------------------------------------------------------
(* The node                                                                *)

(* The operator gives the node the identity of a row made for it.          *)
Provision(k) ==
  /\ boot = "down" /\ env = 0
  /\ k \in created
  /\ env' = k
  /\ UNCHANGED <<rowVars, file, boot, identity, joined, judged, crashes,
                 used, early>>

(* Mutant: the saved identity counts only with the environment's.          *)
LoadsEnvironmentOnly ==
  /\ boot = "down"
  /\ identity' = env
  /\ boot' = IF identity' = 0 THEN "registering" ELSE "running"
  /\ UNCHANGED <<rowVars, env, file, joined, judged, crashes, used, early>>

(* Mutant: a node that finds no identity goes to work and registers later. *)
StartsNameless ==
  /\ boot = "down"
  /\ identity' = IF env # 0 THEN env ELSE file
  /\ boot' = "running"
  /\ UNCHANGED <<rowVars, env, file, joined, judged, crashes, used, early>>

(* NodeIdentity::load: the environment first, then the file.               *)
Start ==
  /\ boot = "down"
  /\ identity' = IF env # 0 THEN env ELSE file
  /\ boot' = IF identity' = 0 THEN "registering" ELSE "running"
  /\ UNCHANGED <<rowVars, env, file, joined, judged, crashes, used, early>>

(* Mutant: the node goes to work and saves its identity later.             *)
RunsUnsaved ==
  /\ boot = "answered"
  /\ boot' = "running"
  /\ UNCHANGED <<rowVars, env, file, identity, joined, judged, crashes,
                 used, early>>

(* NodeIdentity::save.  Dying halfway leaves a file that cannot be read,   *)
(* as if there were none.                                                  *)
SaveIdentity ==
  /\ boot = "answered"
  /\ file' = identity
  /\ boot' = "running"
  /\ UNCHANGED <<rowVars, env, identity, joined, judged, crashes, used,
                 early>>

(* authenticate refuses a key without a row, and a rejected node.  The     *)
(* client keeps trying.                                                    *)
Join ==
  /\ boot = "running" /\ joined = 0
  /\ nodeRow[identity] \in {"pending", "approved"}
  /\ joined' = identity
  /\ used' = used \cup {identity}
  /\ UNCHANGED <<rowVars, env, file, boot, identity, judged, crashes, early>>

(* The process ends and is started again: a crash, an answer that does not *)
(* arrive or a file that cannot be written, all of which end main.         *)
Crash ==
  /\ boot # "down"
  /\ crashes < MaxCrashes
  /\ crashes' = crashes + 1
  /\ boot' = "down"
  /\ identity' = 0
  /\ joined' = 0
  /\ early' = IF boot = "answered" THEN early + 1 ELSE early
  /\ UNCHANGED <<rowVars, env, file, judged, used>>

LoseConnection ==
  /\ joined # 0
  /\ crashes < MaxCrashes
  /\ crashes' = crashes + 1
  /\ joined' = 0
  /\ UNCHANGED <<rowVars, env, file, boot, identity, judged, used, early>>

-----------------------------------------------------------------------------
RegistrationNext ==
  \/ CreateNode \/ SelfRegister
  \/ \E k \in NodeIds :
       \/ \E st \in {"pending", "approved", "rejected"} : UpdateNodeStatus(k, st)
       \/ DeleteNode(k) \/ Provision(k)
  \/ Start \/ SaveIdentity \/ Join \/ Crash \/ LoseConnection

RegistrationSpec == RegistrationInit /\ [][RegistrationNext]_registrationVars

-----------------------------------------------------------------------------
RegistrationTypeOK ==
  /\ nodeRow \in [NodeIds -> {"none", "pending", "approved", "rejected"}]
  /\ rows \in 0..MaxNodes
  /\ created \in SUBSET NodeIds
  /\ env \in 0..MaxNodes
  /\ file \in 0..MaxNodes
  /\ boot \in {"down", "registering", "answered", "running"}
  /\ identity \in 0..MaxNodes
  /\ boot = "running" => identity # 0
  /\ joined \in 0..MaxNodes
  /\ judged \in 0..MaxJudged
  /\ crashes \in 0..MaxCrashes
  /\ used \in SUBSET NodeIds
  /\ early \in 0..MaxCrashes

SelfRegistered == 1..rows \ created

(* A node that registers itself works under one row for good: recordings   *)
(* never get a row it will not come back to, since an identity is on disk  *)
(* before it is used.  Every other row it has made is left over from a     *)
(* crash between the INSERT and the save, one for each.                    *)
IdentityIsStable ==
  /\ used \ created \subseteq {file}
  /\ Cardinality(SelfRegistered \ {file, identity}) <= early
=============================================================================

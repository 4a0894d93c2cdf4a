---------------------------- MODULE PolicyTable -----------------------------
(***************************************************************************)
(* What the retention policies promise the administrators: a request to    *)
(* create, change or delete a policy takes effect at one moment and as a   *)
(* whole, or not at all, whatever other requests are under way; a policy   *)
(* that sets the default takes the flag of the one that had it; a policy   *)
(* that was deleted does not come back.  How long a request takes, and     *)
(* whether it succeeds, is not promised.                                   *)
(***************************************************************************)
EXTENDS Naturals

CONSTANTS Policies, Admins, MaxDays,
          Seeded, FirstDefault, NoRequest

VARIABLES keep,      \* keep_days of each policy, 0 if there is no such policy
          known,     \* ids in use now or in the past
          dflt,      \* the default policy: one, or none
          pending    \* the request each administrator has under way

vars == <<keep, known, dflt, pending>>

(* A request: the policy, its keep_days or 0 to leave them, and whether it *)
(* is to be the default, to be the default no more, or neither.            *)
Request == [id: Policies, keep: 0..MaxDays, default: {"set", "clear", "leave"}]

Init ==
  /\ keep \in [Policies -> 0..MaxDays]
  /\ \A p \in Policies : keep[p] # 0 <=> p \in Seeded
  /\ known = Seeded
  /\ dflt = {FirstDefault}
  /\ pending = [h \in Admins |-> NoRequest]

Ask(h) ==
  /\ pending[h] = NoRequest
  /\ pending'[h] \in Request
  /\ pending' = [pending EXCEPT ![h] = pending'[h]]
  /\ UNCHANGED <<keep, known, dflt>>

(* Nothing of a request that fails remains.                                *)
Fail(h) ==
  /\ pending[h] # NoRequest
  /\ pending' = [pending EXCEPT ![h] = NoRequest]
  /\ UNCHANGED <<keep, known, dflt>>

(* The policy exists, or is new and has its keep_days.                     *)
Apply(h) ==
  /\ pending[h] # NoRequest
  /\ LET w == pending[h]
     IN /\ keep[w.id] # 0 \/ (w.id \notin known /\ w.keep # 0)
        /\ keep' = [keep EXCEPT ![w.id] = IF w.keep = 0 THEN @ ELSE w.keep]
        /\ known' = known \cup {w.id}
        /\ dflt' = CASE w.default = "set" -> {w.id}
                     [] w.default = "clear" -> dflt \ {w.id}
                     [] w.default = "leave" -> dflt
  /\ pending' = [pending EXCEPT ![h] = NoRequest]

(* Deleted by a request that needs no time.                                *)
Delete(p) ==
  /\ keep[p] # 0
  /\ keep' = [keep EXCEPT ![p] = 0]
  /\ dflt' = dflt \ {p}
  /\ UNCHANGED <<known, pending>>

Next ==
  \/ \E h \in Admins : Ask(h) \/ Fail(h) \/ Apply(h)
  \/ \E p \in Policies : Delete(p)

Spec == Init /\ [][Next]_vars
=============================================================================

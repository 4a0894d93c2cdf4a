--------------------------- MODULE MCCoordinator ----------------------------
(* Six parts of the system that share no variable, in one state space: the *)
(* initial state picks the part that takes the steps of a behaviour.       *)
(* A property of one part holds in the product of all six if and only if   *)
(* it holds when the others stand still, so the product is not explored.   *)
EXTENDS Accounts, RetentionPolicies, Registration, NodePresence, Playback,
        MotionWatch, TLC

CONSTANTS user1, user2, client1, client2, login1, login2, keep30, keep365,
          keepNew, admin1, admin2, rec1, rec2, host1, host2, nodeHost,
          browser1,
          MaxMixedRequests, \* bound: requests that meet recordings
          MaxMixedTime      \* bound: time followed with events reported

VARIABLE focus

vars == <<accountsVars, policyVars, registrationVars, presenceVars,
          playbackVars, motionVars, focus>>

(* The longest sequences of requests are explored without recordings.      *)
NoRecordings ==
  lookup = NoLookup /\ lost = {} /\ \A r \in Recordings : row[r] = NoRow /\ age[r] = 0

MCInit ==
  /\ focus \in {"accounts", "policies", "registration", "presence", "playback",
                "motion"}
  /\ AccountsInit /\ PoliciesInit /\ RegistrationInit /\ PresenceInit
  /\ PlaybackInit /\ MotionInit

MCNext ==
  \/ /\ focus = "accounts"
     /\ AccountsNext
     /\ UNCHANGED <<policyVars, registrationVars, presenceVars,
                    playbackVars, motionVars, focus>>
  \/ /\ focus = "policies"
     /\ PoliciesNext
     /\ requests' > MaxMixedRequests => NoRecordings'
     /\ UNCHANGED <<accountsVars, registrationVars, presenceVars,
                    playbackVars, motionVars, focus>>
  \/ /\ focus = "registration"
     /\ RegistrationNext
     /\ UNCHANGED <<accountsVars, policyVars, presenceVars,
                    playbackVars, motionVars, focus>>
  \/ /\ focus = "presence"
     /\ PresenceNext
     /\ UNCHANGED <<accountsVars, policyVars, registrationVars,
                    playbackVars, motionVars, focus>>
  \/ /\ focus = "playback"
     /\ PlaybackNext
     /\ UNCHANGED <<accountsVars, policyVars, registrationVars,
                    presenceVars, motionVars, focus>>
  \/ /\ focus = "motion"
     /\ MotionNext
     /\ clock' > MaxMixedTime => reports' = 0
     /\ UNCHANGED <<accountsVars, policyVars, registrationVars,
                    presenceVars, playbackVars, focus>>

MCSpec == MCInit /\ [][MCNext]_vars

(* The type invariants of the six modules.                                 *)
CoordinatorTypeOK ==
  /\ AccountsTypeOK /\ PoliciesTypeOK /\ RegistrationTypeOK /\ PresenceTypeOK
  /\ PlaybackTypeOK /\ MotionTypeOK

MCSymmetry == Permutations({client1, client2}) \cup Permutations({login1, login2})
                \cup Permutations({admin1, admin2}) \cup Permutations({rec1, rec2})
                \cup Permutations({host1, host2})
=============================================================================

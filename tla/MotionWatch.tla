---------------------------- MODULE MotionWatch -----------------------------
(***************************************************************************)
(* The motion of one camera: its detection task on the node (node/src/     *)
(* events/onvif.rs, which polls an event subscription at the camera, and   *)
(* diff.rs, which compares frames of ffmpeg), the channel to the WebSocket *)
(* client (node/src/ws_client.rs) and the coordinator, which stores an     *)
(* event and tells the browsers (index_event in coordinator/src/routes/    *)
(* node_ws.rs).  Which cameras have a task is CameraFollowers' subject.    *)
(*                                                                         *)
(* An event goes by the number of its report.  A step of a polling task    *)
(* ends in time, since every request has a timeout; a request is handled   *)
(* and answered at one moment of its step.  Time is counted in any unit.   *)
(* `unanswered`, `disowned`, `anew` and `gone` are history variables.      *)
(***************************************************************************)
EXTENDS Integers, FiniteSets

CONSTANTS StepTime,        \* 11 seconds: an 8 s timeout and a 3 s pause
          RenewInterval,   \* 480 seconds
          Expiry,          \* 600 seconds, what a subscription is asked for
          Cooldown,        \* 10 seconds between two events
          Retry,           \* 15 seconds after an error
          MaxClock,        \* bound: time followed
          MaxReports,      \* bound: events reported
          MaxMishaps       \* bound: crashes, panics, errors, changed cameras

ASSUME MotionAssumption ==
  /\ StepTime \in Nat /\ RenewInterval \in Nat \ {0} /\ Expiry \in Nat
  /\ RenewInterval + 2 * StepTime <= Expiry
  /\ Cooldown \in Nat /\ Retry \in Nat
  /\ Cooldown <= Retry
  /\ MaxClock \in Nat /\ MaxReports \in Nat /\ MaxMishaps \in Nat

Reports == 1..MaxReports

VARIABLES
  clock,        \* the time
  watch,        \* the detection task: what it is about to do
  due,          \* when its step is over at the latest, or its pause at least
  lastMotion,   \* last_motion, last_event: of this subscription or ffmpeg
  lastRenew,    \* last_renew
  until,        \* when the camera drops the subscription, 0 if it has none
  reports,      \* number of events reported
  when,         \* occurred_at of each
  channel,      \* events in event_rx
  link,         \* the client's connection: "down", "up" or broken unnoticed
  sent,         \* events sent and not handled
  stored,       \* rows of the events table
  announcing,   \* events stored and not broadcast yet
  motionEvents, \* events the browser shows
  mishaps,      \* number of mishaps so far
  unanswered,   \* history: when renewals were asked for and not answered
  disowned,     \* history: the camera restarted, or answered with a refusal
  anew,         \* history: first reports of a new task, the coming one too
  gone          \* history: events lost on their way

subscriptionVars == <<lastRenew, until, unanswered, disowned>>
watchVars == <<watch, due, lastMotion, subscriptionVars>>
reportVars == <<reports, when, anew>>
deliveryVars == <<channel, link, sent, gone>>
eventVars == <<stored, announcing, motionEvents>>
motionVars == <<clock, watchVars, reportVars, deliveryVars, eventVars, mishaps>>

Mishap == mishaps < MaxMishaps /\ mishaps' = mishaps + 1

MotionInit ==
  /\ clock = 0
  /\ watch = "none" /\ due = 0
  /\ lastMotion = 0 /\ lastRenew = 0 /\ until = 0
  /\ reports = 0 /\ when = [n \in Reports |-> 0]
  /\ channel = {} /\ link = "down" /\ sent = {}
  /\ stored = {} /\ announcing = {} /\ motionEvents = {}
  /\ mishaps = 0
  /\ unanswered = {} /\ disowned = FALSE /\ anew = {1} /\ gone = {}

-----------------------------------------------------------------------------
(* The detection task                                                      *)

TimePasses ==
  /\ clock < MaxClock
  /\ watch \in {"renew", "pull"} => clock < due
  /\ clock' = clock + 1
  /\ UNCHANGED <<watchVars, reportVars, deliveryVars, eventVars, mishaps>>

(* A new subscription, or a renewal that the camera has confirmed.         *)
Renewed == unanswered' = {} /\ disowned' = FALSE

(* What a task or a function knows goes with it, and nobody asks for the   *)
(* subscription any more.                                                  *)
Forget == /\ lastMotion' = 0 /\ lastRenew' = 0
          /\ until' = 0 /\ Renewed
EndTask(end) == watch' = end /\ due' = 0 /\ Forget

(* The function returns an error: run logs it and pauses.                  *)
Fails == watch' = "pause" /\ due' = clock + Retry /\ Forget

Go(step) == watch' = step /\ due' = clock + StepTime

(* events::run starts a task for the camera ...                            *)
StartTask ==
  /\ watch = "none"
  /\ watch' \in {"subscribe", "spawn"}
  /\ UNCHANGED <<clock, due, lastMotion, subscriptionVars, reportVars,
                 deliveryVars, eventVars, mishaps>>

(* ... and aborts it when the camera has changed or is not wanted.         *)
AbortTask ==
  /\ watch # "none"
  /\ Mishap
  /\ EndTask("none")
  /\ anew' = anew \cup {reports + 1}
  /\ UNCHANGED <<clock, reports, when, deliveryVars, eventVars>>

WakeUp ==
  /\ watch = "pause"
  /\ clock >= due
  /\ watch' \in {"subscribe", "spawn"}
  /\ due' = 0
  /\ UNCHANGED <<clock, lastMotion, subscriptionVars, reportVars,
                 deliveryVars, eventVars, mishaps>>

(* subscribe_and_poll up to its loop.                                      *)
Subscribe ==
  /\ watch = "subscribe"
  /\ \/ /\ Go("renew")
        /\ lastMotion' = clock - 2 * Cooldown
        /\ lastRenew' = clock
        /\ until' = clock + Expiry
        /\ Renewed
     \/ Fails
  /\ UNCHANGED <<clock, reportVars, deliveryVars, eventVars, mishaps>>

RenewNotDue == clock - lastRenew < RenewInterval /\ UNCHANGED subscriptionVars

(* The camera renews the subscription, and the answer arrives.             *)
RenewConfirmed ==
  /\ clock < until
  /\ lastRenew' = clock
  /\ until' = clock + Expiry
  /\ Renewed

(* Any answer sets last_renew, a refusal too.                              *)
RenewRefused ==
  /\ lastRenew' = clock
  /\ unanswered' = {}
  /\ disowned' = TRUE
  /\ UNCHANGED until

(* Mutant: last_renew is set whether there is an answer or not.            *)
RenewUnansweredCounts ==
  /\ unanswered' = unanswered \cup {clock}
  /\ \/ UNCHANGED until
     \/ clock < until /\ until' = clock + Expiry
  /\ lastRenew' = clock
  /\ UNCHANGED disowned

(* No answer in time; the camera may have got the request all the same.    *)
RenewUnanswered ==
  /\ unanswered' = unanswered \cup {clock}
  /\ \/ UNCHANGED until
     \/ clock < until /\ until' = clock + Expiry
  /\ UNCHANGED <<lastRenew, disowned>>

(* The top of the loop: a renewal that is not answered is asked for again  *)
(* in the next turn.                                                       *)
Renew ==
  /\ watch = "renew"
  /\ Go("pull")
  /\ \/ RenewNotDue
     \/ /\ clock - lastRenew >= RenewInterval
        /\ RenewConfirmed \/ RenewRefused \/ RenewUnanswered
  /\ UNCHANGED <<clock, lastMotion, reportVars, deliveryVars, eventVars,
                 mishaps>>

(* tx.send of an event that occurs now.                                    *)
Report ==
  /\ clock - lastMotion >= Cooldown
  /\ reports < MaxReports
  /\ lastMotion' = clock
  /\ reports' = reports + 1
  /\ when' = [when EXCEPT ![reports + 1] = clock]
  /\ channel' = channel \cup {reports + 1}

NoReport == UNCHANGED <<reports, when, channel>>

(* PullMessages: only a camera that has the subscription tells of motion;  *)
(* a refusal is an answer without motion, not an error.  has_motion may    *)
(* cut a character in two, which ends the task for good.                   *)
PullMessages ==
  /\ watch = "pull"
  /\ \/ /\ Go("renew")
        /\ \/ NoReport /\ UNCHANGED lastMotion
           \/ clock < until /\ Report
        /\ UNCHANGED <<subscriptionVars, mishaps>>
     \/ Fails /\ NoReport /\ UNCHANGED mishaps
     \/ Mishap /\ EndTask("dead") /\ NoReport
  /\ UNCHANGED <<clock, anew, link, sent, gone, eventVars>>

(* diff_loop up to its loop.                                               *)
SpawnFfmpeg ==
  /\ watch = "spawn"
  /\ \/ /\ watch' = "first"
        /\ lastMotion' = clock - 2 * Cooldown
        /\ UNCHANGED <<due, subscriptionVars>>
     \/ Fails
  /\ UNCHANGED <<clock, reportVars, deliveryVars, eventVars, mishaps>>

(* A frame is compared with the one before it; or the stream ends.         *)
ReadFrame ==
  /\ watch \in {"first", "compare"}
  /\ \/ /\ watch' = "compare"
        /\ \/ NoReport /\ UNCHANGED lastMotion
           \/ watch = "compare" /\ Report
        /\ UNCHANGED <<due, subscriptionVars>>
     \/ Fails /\ NoReport
  /\ UNCHANGED <<clock, anew, link, sent, gone, eventVars, mishaps>>

(* The camera restarts: its subscriptions are forgotten.                   *)
RestartCamera ==
  /\ watch \in {"renew", "pull"}
  /\ Mishap
  /\ until' = 0
  /\ disowned' = TRUE
  /\ UNCHANGED <<clock, watch, due, lastMotion, lastRenew, unanswered,
                 reportVars, deliveryVars, eventVars>>

-----------------------------------------------------------------------------
(* The client                                                              *)

(* Mutant: on connection the events are drained, like the flush channel.   *)
ConnectDrains ==
  /\ link = "down"
  /\ link' = "up"
  /\ channel' = {}
  /\ UNCHANGED <<clock, watchVars, reportVars, sent, gone, eventVars, mishaps>>

(* Events stay in their channel while there is no connection.              *)
Reconnect ==
  /\ link = "down"
  /\ link' = "up"
  /\ UNCHANGED <<clock, watchVars, reportVars, channel, sent, gone, eventVars,
                 mishaps>>

(* An event that cannot be sent is gone.                                   *)
SendEvent ==
  /\ link # "down"
  /\ \E n \in channel :
       /\ \A m \in channel : n <= m
       /\ channel' = channel \ {n}
       /\ \/ link = "up" /\ sent' = sent \cup {n} /\ UNCHANGED gone
          \/ link = "broken" /\ gone' = gone \cup {n} /\ UNCHANGED sent
  /\ UNCHANGED <<clock, watchVars, reportVars, link, eventVars, mishaps>>

(* The connection breaks, with what the coordinator has not read.          *)
BreakConnection ==
  /\ link = "up"
  /\ Mishap
  /\ link' = "broken"
  /\ \E S \in SUBSET sent : sent' = sent \ S /\ gone' = gone \cup S
  /\ UNCHANGED <<clock, watchVars, reportVars, channel, eventVars>>

NoticeBreak ==
  /\ link = "broken"
  /\ link' = "down"
  /\ UNCHANGED <<clock, watchVars, reportVars, channel, sent, gone, eventVars,
                 mishaps>>

(* The node dies with its channel; it starts with an empty camera list.    *)
CrashWatch ==
  /\ Mishap
  /\ EndTask("none")
  /\ anew' = anew \cup {reports + 1}
  /\ link' = "down"
  /\ channel' = {}
  /\ gone' = gone \cup channel
  /\ UNCHANGED <<clock, reports, when, sent, eventVars>>

-----------------------------------------------------------------------------
(* The coordinator and a browser                                           *)

(* index_event: INSERT.  Each connection has a task of its own, so events  *)
(* of two connections are handled in any order.                            *)
IndexEvent(n) ==
  /\ n \in sent
  /\ sent' = sent \ {n}
  /\ \/ /\ stored' = stored \cup {n}
        /\ announcing' = announcing \cup {n}
        /\ UNCHANGED <<gone, mishaps>>
     \/ /\ Mishap
        /\ gone' = gone \cup {n}
        /\ UNCHANGED <<stored, announcing>>
  /\ UNCHANGED <<clock, watchVars, reportVars, channel, link, motionEvents>>

(* ... and broadcast_dashboard, if that succeeded, to a browser that may   *)
(* be there or not (and shows no more than 100 events).                    *)
BroadcastEvent(n) ==
  /\ n \in announcing
  /\ announcing' = announcing \ {n}
  /\ motionEvents' \in {motionEvents, motionEvents \cup {n}}
  /\ UNCHANGED <<clock, watchVars, reportVars, deliveryVars, stored, mishaps>>

(* The coordinator dies with its connections and their tasks.              *)
RestartServer ==
  /\ Mishap
  /\ link' = IF link = "up" THEN "broken" ELSE link
  /\ sent' = {}
  /\ gone' = gone \cup sent
  /\ announcing' = {}
  /\ UNCHANGED <<clock, watchVars, reportVars, channel, stored, motionEvents>>

-----------------------------------------------------------------------------
MotionNext ==
  \/ TimePasses \/ StartTask \/ AbortTask \/ WakeUp
  \/ Subscribe \/ Renew \/ PullMessages
  \/ SpawnFfmpeg \/ ReadFrame
  \/ RestartCamera
  \/ Reconnect \/ SendEvent \/ BreakConnection \/ NoticeBreak \/ CrashWatch
  \/ \E n \in Reports : IndexEvent(n) \/ BroadcastEvent(n)
  \/ RestartServer

MotionSpec == MotionInit /\ [][MotionNext]_motionVars

-----------------------------------------------------------------------------
Moments == 0..MaxClock

MotionTypeOK ==
  /\ clock \in Moments
  /\ watch \in {"none", "subscribe", "renew", "pull", "spawn", "first",
                "compare", "pause", "dead"}
  /\ due \in Nat
  /\ lastMotion \in Int
  /\ lastRenew \in Moments
  /\ until \in Nat
  /\ reports \in 0..MaxReports
  /\ when \in [Reports -> Moments]
  /\ channel \in SUBSET Reports
  /\ link \in {"down", "up", "broken"}
  /\ sent \in SUBSET Reports
  /\ stored \in SUBSET Reports
  /\ announcing \in SUBSET Reports
  /\ motionEvents \in SUBSET Reports
  /\ mishaps \in 0..MaxMishaps
  /\ unanswered \in SUBSET Moments
  /\ disowned \in BOOLEAN
  /\ anew \in SUBSET (1..(MaxReports + 1))
  /\ gone \in SUBSET Reports

(* A polling task does not let its subscription run out: when it has run   *)
(* out, then no renewal was answered since it was due, and the task asked  *)
(* for one within any two steps of that time; or the camera has restarted  *)
(* or answered with a refusal, after which the task polls on in vain.      *)
AskedWithin(first, last) == \E asked \in unanswered : asked \in first..last
WatcherHears ==
  watch \in {"renew", "pull"} /\ ~disowned /\ clock >= until =>
    \A t \in (until - Expiry + RenewInterval)..(until - 2 * StepTime - 1) :
      AskedWithin(t, t + 2 * StepTime)

(* Two events in a row are Cooldown apart, through errors and new          *)
(* subscriptions; only a new task starts afresh.                           *)
ReportsSpaced ==
  \A n \in 2..reports : n \in anew \/ when[n] - when[n - 1] >= Cooldown

(* Every event reported is on its way, or stored, or was lost with a       *)
(* connection, a process or a failed INSERT; none is lost while the node   *)
(* is merely offline, and without a mishap none is lost at all.            *)
ReportsAccounted ==
  /\ 1..reports = channel \cup sent \cup stored \cup gone
  /\ stored \cap gone = {}
  /\ gone # {} => mishaps # 0

(* The motion of a camera is followed from the camera to the browsers: the *)
(* task hears it, reports it once, and what is reported comes to be stored *)
(* before any browser shows it.                                            *)
MotionFollowed ==
  /\ WatcherHears
  /\ ReportsSpaced
  /\ ReportsAccounted
  /\ motionEvents \subseteq stored
=============================================================================

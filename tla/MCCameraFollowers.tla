------------------------- MODULE MCCameraFollowers -------------------------
(* CameraFollowers on small sets: a camera as added, with its login        *)
(* changed, moved to another URL and frame comparison, with motion         *)
(* detection off, and disabled.                                            *)
EXTENDS CameraFollowers

CONSTANTS cam1, cam2

Watched == [enabled |-> TRUE, motion |-> TRUE, rtsp |-> "url1",
            onvif |-> "url1", login |-> "login1"]
MCConfigs == {Watched,
              [Watched EXCEPT !.login = "login2"],
              [Watched EXCEPT !.rtsp = "url2", !.onvif = NoOnvif],
              [Watched EXCEPT !.motion = FALSE],
              [Watched EXCEPT !.enabled = FALSE]}
=============================================================================

---------------------------- MODULE MCEventDaemon ----------------------------
(* Instances of EventDaemon for TLC: two pages of one channel and one of      *)
(* another; the browser of one of the first has no web sockets.               *)
EXTENDS EventDaemon
CONSTANTS p1, p2, p3, c1, c2

MCPages == {p1, p2, p3}
MCChannels == {c1, c2}
MCChannelOf == p1 :> c1 @@ p2 :> c1 @@ p3 :> c2
MCHasWebSocket == {p1, p3}
MCPollers == {}
TwoPages == {p1, p2}
TwoChannelOf == p1 :> c1 @@ p2 :> c1
TwoHaveWebSocket == {p1}
=============================================================================

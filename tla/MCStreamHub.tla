---------------------------- MODULE MCStreamHub ----------------------------
(* Instances of StreamHub for TLC: three connections of two devices, the      *)
(* first of which reconnects.                                                *)
EXTENDS StreamHub, TLC

CONSTANTS ua, ub, uc, alpha, bravo

\* The first two connections are the same device's.
Reconnecting == 1 :> ua @@ 2 :> ua @@ 3 :> ub

\* The third connection is only heard by the second, and only hears the first.
Channels == {<<1, 1>>, <<2, 2>>, <<1, 2>>, <<2, 1>>, <<1, 3>>, <<3, 2>>}

\* One callsign alone, one uid alone, and both.
EachWay == {<<alpha, NoUid>>, <<NoName, ua>>, <<bravo, ua>>}
=============================================================================

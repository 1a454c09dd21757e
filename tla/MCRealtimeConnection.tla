----------------------- MODULE MCRealtimeConnection -----------------------
(***************************************************************************)
(* RealtimeConnection for TLC: three connections, two of them served by    *)
(* one process and one by another.                                         *)
(***************************************************************************)
EXTENDS RealtimeConnection, TLC

CONSTANTS c1, c2, c3, p1, p2

TwoHomes == c1 :> p1 @@ c2 :> p1 @@ c3 :> p2
=============================================================================

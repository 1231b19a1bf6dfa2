---------------------------- MODULE MCSyncPoints ----------------------------
(* Instances of SyncPoints: every event is for timestamp 16, at which the  *)
(* registers wrap.                                                         *)
EXTENDS SyncPoints

StampThenFence == <<"p1", "f1">>

Scene(u, r, s, q, w) == [userTs |-> u, retired |-> r, sent |-> s, queued |-> q,
                         who |-> w]
SafeScenes ==
    {Scene(FALSE, 14, 15, 16, {"w1", "w2", "detach", "invalidate"}),
     Scene(FALSE, 15, 15, 15, {"ioctl", "detach", "invalidate"}),
     Scene(FALSE, 15, 15, 16, {"w1", "ioctl"}),
     Scene(FALSE, 15, 15, 15, {"w1", "detach"}),
     Scene(TRUE, 14, 15, 15, {"w1", "detach"})}
LiveScenes ==
    {Scene(FALSE, 15, 16, 16, {"w1", "w2", "invalidate"}),
     Scene(FALSE, 14, 15, 16, {"w1", "detach"}),
     Scene(FALSE, 15, 16, 16, {"ioctl", "detach"}),
     Scene(FALSE, 15, 16, 16, {"ioctl", "invalidate"})}
=============================================================================

----------------------- MODULE MCResourceLoadScheduler -----------------------
(* Small instances of ResourceLoadScheduler for TLC.                         *)
EXTENDS ResourceLoadScheduler, TLC

CONSTANTS l1, l2, l3, a, b, file

\* LoadStarts for one load: the loads are alike, so it stands for them all
\* (ResourceLoadScheduler::servePendingRequests).
OneStarts == LoadStarts(l1)

=============================================================================

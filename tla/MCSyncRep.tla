----------------------------- MODULE MCSyncRep -----------------------------
(* Instances of SyncRep for TLC.                                           *)
EXTENDS SyncRep, TLC
CONSTANTS b1, b2, b3, s1, s2

FlushOnly == {SYNC_REP_WAIT_FLUSH}
BothModes == Mode
FlushOrNone == {SYNC_REP_WAIT_FLUSH, SYNC_REP_NO_WAIT}
OneStandby == {<<>>, <<s1>>}
FixedStandby == {<<s1>>}
Priorities == {<<s1, s2>>, <<"*">>}
BackendSymmetry == Permutations(Backend)
=============================================================================

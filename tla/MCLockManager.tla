--------------------------- MODULE MCLockManager ---------------------------
(* Instances of LockManager for TLC.                                       *)
EXTENDS LockManager

\* A mode for the fast path, one that only excludes itself and stronger ones, and
\* the strongest.
WeakMiddleStrong == {AccessShareLock, ShareUpdateExclusiveLock, AccessExclusiveLock}

\* Lock 1 is a relation, lock 2 is something else that is locked exclusively.  The
\* third backend can wait with a lock of its fast path, and the first can move that
\* to the table meanwhile.
All == {<<1, AccessShareLock>>, <<1, ShareUpdateExclusiveLock>>, <<1, AccessExclusiveLock>>,
        <<2, AccessExclusiveLock>>}
Mixed == <<All, {<<1, AccessExclusiveLock>>}, All \ {<<1, AccessExclusiveLock>>}>>
OnePartition == [l \in Lock |-> 0]
Calls212 == <<2, 1, 2>>
=============================================================================

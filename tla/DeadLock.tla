----------------------------- MODULE DeadLock ------------------------------
(***************************************************************************)
(* The deadlock detector (storage/lmgr/deadlock.c), run by a waiting       *)
(* backend that holds all partition locks.                                 *)
(*                                                                         *)
(* An edge of the waits-for graph is hard if the blocker holds a           *)
(* conflicting lock, and soft if it only waits for one earlier in the      *)
(* queue.  A soft edge can be reversed by moving the waiter before the     *)
(* blocker; a list of edges to be reversed is a list of constraints.       *)
(* waitOrders stands for the queues as they would be then.                 *)
(***************************************************************************)
EXTENDS LockTable

Edge == [waiter : Proc, blocker : Proc]
maxCurConstraints == NProcs
maxPossibleConstraints == 4 * NProcs

\* r comes before q in the queue.
IsBefore(r, q, queue) == \E i, j \in DOMAIN queue : i < j /\ queue[i] = r /\ queue[j] = q

\* Mutant: only the locks that are held count.
WaitsForHardOnly(q, r, soft, waitOrders) ==
  /\ ~soft
  /\ r # q /\ lock[proc[q].waitLock].holdMask[r] \cap conflictTab(proc[q].waitLockMode) # {}

\* There is an edge from q to r: hard if r holds a lock that q waits for, soft
\* if r is before q in the queue and its request conflicts with q's.
WaitsFor(q, r, soft, waitOrders) ==
  LET l == proc[q].waitLock
      conflictMask == conflictTab(proc[q].waitLockMode)
  IN IF soft THEN IsBefore(r, q, waitOrders[l]) /\ proc[r].waitLockMode \in conflictMask
     ELSE r # q /\ lock[l].holdMask[r] \cap conflictMask # {}

\* Those that q may wait for in the order in which they are tried.
Tries(q, waitOrders) ==
  LET l == proc[q].waitLock IN
  IF l = NULL THEN <<>>
  ELSE [i \in DOMAIN lock[l].procLocks |-> <<lock[l].procLocks[i], FALSE>>]
       \o [i \in DOMAIN waitOrders[l] |-> <<waitOrders[l][i], TRUE>>]

Answer == [found : BOOLEAN, visitedProcs : Seq(Proc), softEdges : Seq(Edge)]

\* FindLockCycleRecurse, one turn of its loops: whoever q waits for is visited.
Follow(visit, seen, q, r, soft, waitOrders) ==
  IF seen.found \/ ~WaitsFor(q, r, soft, waitOrders) THEN seen
  ELSE LET v == visit[<<r, seen.visitedProcs>>] IN
       IF v.found /\ soft
       THEN [v EXCEPT !.softEdges = Append(@, [waiter |-> q, blocker |-> r])]
       ELSE v

FollowAll(visit, q, visitedProcs, waitOrders) ==
  LET tries == Tries(q, waitOrders)
      followed[i \in 0..Len(tries)] ==
        IF i = 0 THEN [found |-> FALSE, visitedProcs |-> Append(visitedProcs, q), softEdges |-> <<>>]
        ELSE Follow(visit, followed[i - 1], q, tries[i][1], tries[i][2], waitOrders)
  IN followed[Len(tries)]

\* FindLockCycleRecurse from q; visit: what it answers one level deeper.
FindLockCycleRecurse(visit, waitOrders) ==
  [x \in Proc \X Seq(Proc) |->
     LET q == x[1]
         visitedProcs == x[2]
     IN IF Contains(visitedProcs, q)
        THEN [found |-> q = visitedProcs[1], visitedProcs |-> visitedProcs, softEdges |-> <<>>]
        ELSE FollowAll(visit, q, visitedProcs, waitOrders)]

\* FindLockCycle: depth first from p until it is back at p.  The answer has the
\* soft edges of the cycle, the last one first.  No level is deeper than NProcs,
\* where everybody has been visited.
FindLockCycle(p, waitOrders) ==
  LET visit[n \in 0..(NProcs + 1)] ==
        IF n = 0
        THEN [x \in Proc \X Seq(Proc) |-> [found |-> FALSE, visitedProcs |-> x[2], softEdges |-> <<>>]]
        ELSE FindLockCycleRecurse(visit[n - 1], waitOrders)
  IN visit[NProcs + 1][<<p, <<>>>>]

\* TopoSort, one place: the last one that need not come before anybody still left.
PlaceLast(sorted, queue, constraints) ==
  LET candidates == {i \in DOMAIN queue :
        /\ queue[i] \in sorted.left
        /\ \A e \in ToSet(constraints) : e.waiter = queue[i] => e.blocker \notin sorted.left}
      p == queue[Max(candidates)]
  IN IF candidates = {} THEN sorted
     ELSE [ordering |-> <<p>> \o sorted.ordering, left |-> sorted.left \ {p}]

\* TopoSort, from the back.  The result is too short if the constraints contradict
\* each other.
TopoSort(l, constraints) ==
  LET queue == lock[l].waitProcs
      sorted[n \in 0..Len(queue)] ==
        IF n = 0 THEN [ordering |-> <<>>, left |-> ToSet(queue)]
        ELSE PlaceLast(sorted[n - 1], queue, constraints)
  IN sorted[Len(queue)].ordering

\* ExpandConstraints; the queues of the other locks are as they are.
ExpandConstraints(constraints) == [l \in Lock |-> TopoSort(l, constraints)]
SelfConsistent(waitOrders) == \A l \in Lock : Len(waitOrders[l]) = Len(lock[l].waitProcs)

\* The processes from which TestConfiguration looks for cycles, in this order.
ToCheck(p, constraints) ==
  [i \in 1..(2 * Len(constraints) + 1) |->
     IF i > 2 * Len(constraints) THEN p
     ELSE IF i % 2 = 1 THEN constraints[(i + 1) \div 2].waiter ELSE constraints[i \div 2].blocker]

\* What TestConfiguration concludes: a hard cycle, a contradiction or lack of room is
\* "hard"; else the soft edges of the cycle that was found last, none if there was none.
Tested(cycles, waitOrders, nPossible) ==
  LET found == {i \in DOMAIN cycles : cycles[i].found}
  IN [hard |-> \/ nPossible + NProcs > maxPossibleConstraints
               \/ ~SelfConsistent(waitOrders)
               \/ \E i \in found : cycles[i].softEdges = <<>>,
      softEdges |-> IF found = {} THEN <<>> ELSE cycles[Max(found)].softEdges]

\* The cycles found from each of the processes.
CyclesFrom(check, waitOrders) == [i \in DOMAIN check |-> FindLockCycle(check[i], waitOrders)]

TestConfiguration(p, constraints, nPossible) ==
  LET waitOrders == ExpandConstraints(constraints)
  IN Tested(CyclesFrom(ToCheck(p, constraints), waitOrders), waitOrders, nPossible)

\* The verdicts with one more of the soft edges to be reversed.
Deeper(check, softEdges, curConstraints, nPossible) ==
  LET saved == nPossible + Len(softEdges)
      room == IF saved + NProcs <= maxPossibleConstraints THEN saved ELSE nPossible
  IN [i \in DOMAIN softEdges |-> check[<<Append(curConstraints, softEdges[i]), room>>]]

\* The verdict, from a test and the verdicts with one more constraint.
Verdict(test, with, full, curConstraints) ==
  LET good == {i \in DOMAIN with : ~with[i].deadlock}
  IN IF test.hard THEN [deadlock |-> TRUE, constraints |-> <<>>]
     ELSE IF test.softEdges = <<>> THEN [deadlock |-> FALSE, constraints |-> curConstraints]
     ELSE IF full \/ good = {} THEN [deadlock |-> TRUE, constraints |-> <<>>]
     ELSE with[Min(good)]

\* DeadLockCheckRecurse with curConstraints: reverse one soft edge after the other
\* of the cycle found until no cycle is left.  check: what it answers with one more;
\* full: there is no room for one more.
DeadLockCheckWith(check, full, p, curConstraints, nPossible) ==
  LET test == TestConfiguration(p, curConstraints, nPossible)
  IN Verdict(test, Deeper(check, test.softEdges, curConstraints, nPossible), full, curConstraints)

\* By the room for constraints that is left.
DeadLockCheckRecurse(p) ==
  LET check[n \in 0..maxCurConstraints] ==
        [x \in Seq(Edge) \X Nat |->
           DeadLockCheckWith(IF n = 0 THEN <<>> ELSE check[n - 1], n = 0, p, x[1], x[2])]
  IN check[maxCurConstraints][<<<<>>, 0>>]

\* The LOCKs after DeadLockCheck has rearranged the queues with constraints.
Rearranged(constraints) ==
  [l \in Lock |->
     IF \E e \in ToSet(constraints) : proc[e.waiter].waitLock = l
     THEN ProcLockWakeup([lock[l] EXCEPT !.waitProcs = TopoSort(l, constraints)])
     ELSE lock[l]]
-----------------------------------------------------------------------------
(* The reference: circles in the waits-for graph.                          *)

\* Those q waits for if the queues were in the order given.
BlockersIn(q, orders) ==
  {r \in Proc :
     /\ proc[q].waitLock # NULL /\ r # q
     /\ LET l == proc[q].waitLock
            conflicts == conflictTab(proc[q].waitLockMode)
        IN \/ lock[l].holdMask[r] \cap conflicts # {}
           \/ \E i, j \in DOMAIN orders[l] : /\ i < j /\ orders[l][i] = r /\ orders[l][j] = q
                                             /\ proc[r].waitLockMode \in conflicts}

Queues == [l \in Lock |-> lock[l].waitProcs]
Blockers(q) == BlockersIn(q, Queues)

\* S is a set of processes each of which waits for one in S.
StuckIn(S, orders) == S # {} /\ \A q \in S : BlockersIn(q, orders) \cap S # {}
Stuck(S) == StuckIn(S, Queues)

InCycle(p, orders) ==
  LET reach[n \in 0..NProcs] ==
        IF n = 0 THEN BlockersIn(p, orders)
        ELSE reach[n - 1] \cup UNION {BlockersIn(q, orders) : q \in reach[n - 1]}
  IN p \in reach[NProcs]

\* All ways to order the queues.
Reorderings ==
  {orders \in [Lock -> UNION {SetToSeqs(ToSet(Queues[l])) : l \in Lock}] :
     \A l \in Lock : ToSet(orders[l]) = ToSet(Queues[l])}
=============================================================================

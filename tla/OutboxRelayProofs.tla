------------------------- MODULE OutboxRelayProofs -------------------------
(***************************************************************************)
(* Theorems about OutboxRelay, for any rows, replicas, size of the batch   *)
(* and fault budget.                                                       *)
(***************************************************************************)
EXTENDS OutboxRelay, FiniteSetTheorems, TLAPS

\* A session is lost as a whole: a relay holds every row of its batch or none.
HoldsBatch(w) == \A r \in todo[w] \cup done[w] \cup failed[w] : Holds(w, r)
HoldsNothing(w) == \A r \in Rows : ~Holds(w, r)

\* The batch of a relay, and what the row locks say of it.
BatchInv ==
    /\ \A w \in Relays :
          /\ pc[w] \in {"poll", "stopped"} => todo[w] = {} /\ done[w] = {} /\ failed[w] = {}
          /\ todo[w] \cap done[w] = {}
          /\ HoldsBatch(w) \/ HoldsNothing(w)
    /\ \A w \in Relays, r \in Rows :
          Holds(w, r) => pc[w] \in {"publish", "commit"} /\ ~published[r]

IInv == TypeOK /\ BatchInv

LEMMA InitIInv == Init => IInv
<1> SUFFICES ASSUME Init PROVE IInv
  OBVIOUS
<1>1. TypeOK
  BY RowsAssumption, AttemptsAssumption, BudgetAssumption DEF Init, TypeOK
<1>2. BatchInv
  BY NoneAssumption DEF Init, BatchInv, HoldsBatch, HoldsNothing, Holds
<1> QED
  BY <1>1, <1>2 DEF IInv

(* Case analysis over the next-state relation, stated once for the lemmas *)
(* below.                                                                 *)
LEMMA NextCases ==
    ASSUME [Next]_vars
    PROVE  \/ \E r \in Rows : Insert(r) \/ BackoffElapses(r)
           \/ \E w \in Relays : \/ Fetch(w) \/ Commit(w) \/ CommitFails(w) \/ Stop(w)
                                \/ RequestStop(w) \/ SessionLost(w) \/ Crash(w)
                                \/ \E r \in Rows : \/ PublishOk(w, r) \/ PublishRejected(w, r)
                                                   \/ BrokerDown(w, r) \/ BackoffOverflows(w, r)
           \/ UNCHANGED vars
BY DEF Next, Step, Fault, Polling

LEMMA TypeStep == TypeOK /\ [Next]_vars => TypeOK'
<1> SUFFICES ASSUME TypeOK, [Next]_vars PROVE TypeOK'
  OBVIOUS
<1> USE DEF TypeOK, table, batch, count, Spend, Goto, Release, Forget, Waste, Continue, Faults
<1>1. ASSUME NEW r \in Rows, Insert(r) \/ BackoffElapses(r) PROVE TypeOK'
  BY <1>1 DEF Insert, BackoffElapses
<1>2. ASSUME NEW w \in Relays, Fetch(w) PROVE TypeOK'
  BY <1>2 DEF Fetch, Oldest, Due
<1>3. ASSUME NEW w \in Relays, NEW r \in Rows, PublishOk(w, r) PROVE TypeOK'
  BY <1>3 DEF PublishOk
<1>4. ASSUME NEW w \in Relays, NEW r \in Rows, PublishRejected(w, r) PROVE TypeOK'
  BY <1>4 DEF PublishRejected, Refused
<1>5. ASSUME NEW w \in Relays, NEW r \in Rows, BrokerDown(w, r) PROVE TypeOK'
  BY <1>5 DEF BrokerDown
<1>6. ASSUME NEW w \in Relays, NEW r \in Rows, BackoffOverflows(w, r) PROVE TypeOK'
  BY <1>6 DEF BackoffOverflows, Refused
<1>7. ASSUME NEW w \in Relays, Record(w)
      PROVE  /\ stored' \in [Rows -> BOOLEAN]
             /\ published' \in [Rows -> BOOLEAN]
             /\ attempts' \in [Rows -> Nat]
             /\ backoff' \in [Rows -> BOOLEAN]
  <2>1. stored' \in [Rows -> BOOLEAN]
    BY <1>7 DEF Record
  <2>2. published' \in [Rows -> BOOLEAN]
    BY <1>7, Zenon DEF Record
  <2>3. attempts' \in [Rows -> Nat]
    BY <1>7 DEF Record, Counted
  <2>4. backoff' \in [Rows -> BOOLEAN]
    BY <1>7, Zenon DEF Record
  <2> QED
    BY <2>1, <2>2, <2>3, <2>4
<1>8. ASSUME NEW w \in Relays, Commit(w) PROVE TypeOK'
  BY <1>7, <1>8 DEF Commit
<1>9. ASSUME NEW w \in Relays, CommitFails(w) PROVE TypeOK'
  BY <1>7, <1>9 DEF CommitFails
<1>10. ASSUME NEW w \in Relays, Stop(w) \/ RequestStop(w) \/ SessionLost(w) \/ Crash(w)
       PROVE TypeOK'
  <2>1. CASE Stop(w)
    BY <2>1 DEF Stop
  <2>2. CASE RequestStop(w)
    BY <2>2 DEF RequestStop
  <2>3. CASE SessionLost(w)
    BY <2>3 DEF SessionLost
  <2>4. CASE Crash(w)
    BY <2>4 DEF Crash
  <2> QED
    BY <1>10, <2>1, <2>2, <2>3, <2>4
<1>11. CASE UNCHANGED vars
  BY <1>11 DEF vars
<1> QED
  BY <1>1, <1>2, <1>3, <1>4, <1>5, <1>6, <1>8, <1>9, <1>10, <1>11, NextCases

\* Whatever a batch ends with, its rows are free and the other batches untouched.
LEMMA BatchEnds ==
    ASSUME IInv, NEW w \in Relays, Release(w), Forget(w), Goto(w, "poll"),
           \A r \in Rows : published'[r] => published[r] \/ Holds(w, r)
    PROVE  BatchInv'
<1> USE DEF IInv, TypeOK
<1>1. /\ pc'[w] = "poll" /\ todo'[w] = {} /\ done'[w] = {} /\ failed'[w] = {}
      /\ \A r \in Rows : lock'[r] # w
  BY NoneAssumption DEF Release, Forget, Goto
<1>2. ASSUME NEW v \in Relays, v # w
      PROVE  /\ pc'[v] = pc[v] /\ todo'[v] = todo[v] /\ done'[v] = done[v] /\ failed'[v] = failed[v]
             /\ \A r \in Rows : lock'[r] = v <=> lock[r] = v
  BY <1>2, NoneAssumption DEF Release, Forget, Goto
<1>3. ASSUME NEW v \in Relays
      PROVE  /\ pc'[v] \in {"poll", "stopped"} => todo'[v] = {} /\ done'[v] = {} /\ failed'[v] = {}
             /\ todo'[v] \cap done'[v] = {}
             /\ HoldsBatch(v)' \/ HoldsNothing(v)'
  <2>1. CASE v = w
    BY <2>1, <1>1 DEF HoldsNothing, Holds
  <2>2. CASE v # w
    <3>1. /\ todo[v] \cup done[v] \cup failed[v] \subseteq Rows
          /\ HoldsBatch(v) \/ HoldsNothing(v)
      BY DEF BatchInv
    <3>2. HoldsBatch(v)' \/ HoldsNothing(v)'
      BY <1>2, <2>2, <3>1 DEF HoldsBatch, HoldsNothing, Holds
    <3> QED
      BY <1>2, <2>2, <3>2 DEF BatchInv
  <2> QED
    BY <2>1, <2>2
<1>4. ASSUME NEW v \in Relays, NEW r \in Rows, Holds(v, r)'
      PROVE  pc'[v] \in {"publish", "commit"} /\ ~published'[r]
  <2>1. v # w /\ Holds(v, r)
    BY <1>1, <1>2, <1>4 DEF Holds
  <2> QED
    BY <1>2, <2>1 DEF BatchInv, Holds
<1> QED
  BY <1>3, <1>4 DEF BatchInv

LEMMA BatchStep == IInv /\ [Next]_vars => BatchInv'
<1> SUFFICES ASSUME IInv, [Next]_vars PROVE BatchInv'
  OBVIOUS
<1> USE DEF IInv, TypeOK, BatchInv, HoldsBatch, HoldsNothing, Holds, table, batch, count,
            Goto, Release, Forget, Continue
<1>1. ASSUME NEW r \in Rows, Insert(r) \/ BackoffElapses(r) PROVE BatchInv'
  BY <1>1 DEF Insert, BackoffElapses
<1>2. ASSUME NEW w \in Relays, Fetch(w) PROVE BatchInv'
  <2>1. Oldest(Due) \subseteq Due /\ Due \subseteq Rows
    BY DEF Oldest, Due
  <2>2. \A r \in Due : lock[r] = None /\ ~published[r]
    BY DEF Due
  <2> QED
    BY <1>2, <2>1, <2>2, NoneAssumption DEF Fetch
<1>3. ASSUME NEW w \in Relays, NEW r \in Rows, PublishOk(w, r) PROVE BatchInv'
  <2>1. /\ pc[w] = "publish" /\ pc'[w] \in {"publish", "commit"}
        /\ \A v \in Relays \ {w} : pc'[v] = pc[v]
    BY <1>3 DEF PublishOk
  <2>2. /\ todo' = [todo EXCEPT ![w] = todo[w] \ {r}]
        /\ done' = [done EXCEPT ![w] = done[w] \cup {r}]
        /\ UNCHANGED <<published, lock, failed>>
        /\ r \in todo[w]
    BY <1>3 DEF PublishOk, Current
  <2> QED
    BY <2>1, <2>2
<1>4. ASSUME NEW w \in Relays, NEW r \in Rows, PublishRejected(w, r) PROVE BatchInv'
  BY <1>4 DEF PublishRejected, Current, Refused
<1>5. ASSUME NEW w \in Relays, NEW r \in Rows, BrokerDown(w, r) PROVE BatchInv'
  BY <1>5 DEF BrokerDown, Current
<1>6. ASSUME NEW w \in Relays, NEW r \in Rows, BackoffOverflows(w, r) PROVE BatchInv'
  <2>1. Release(w) /\ Forget(w) /\ Goto(w, "poll") /\ published' = published
    BY <1>6 DEF BackoffOverflows
  <2> QED
    BY <2>1, BatchEnds
<1>7. ASSUME NEW w \in Relays, Commit(w) PROVE BatchInv'
  <2>1. \A r \in Rows : published'[r] => published[r] \/ Holds(w, r)
    BY <1>7 DEF Commit, Record, SessionAlive
  <2> QED
    BY <1>7, <2>1, BatchEnds DEF Commit
<1>8. ASSUME NEW w \in Relays, CommitFails(w) PROVE BatchInv'
  <2>1. \A r \in Rows : published'[r] => published[r] \/ Holds(w, r)
    BY <1>8 DEF CommitFails, Record, SessionAlive
  <2> QED
    BY <1>8, <2>1, BatchEnds DEF CommitFails
<1>9. ASSUME NEW w \in Relays, Stop(w) \/ RequestStop(w) PROVE BatchInv'
  BY <1>9 DEF Stop, RequestStop
<1>10. ASSUME NEW w \in Relays, SessionLost(w) PROVE BatchInv'
  BY <1>10, NoneAssumption DEF SessionLost
<1>11. ASSUME NEW w \in Relays, Crash(w) PROVE BatchInv'
  BY <1>11, BatchEnds DEF Crash
<1>12. CASE UNCHANGED vars
  BY <1>12 DEF vars
<1> QED
  BY <1>1, <1>2, <1>3, <1>4, <1>5, <1>6, <1>7, <1>8, <1>9, <1>10, <1>11, <1>12, NextCases

LEMMA Invariance == Spec => []IInv
<1>1. IInv /\ [Next]_vars => IInv'
  BY TypeStep, BatchStep DEF IInv
<1> QED
  BY <1>1, InitIInv, PTL DEF Spec

\* relay.py: the table, the locks and the batches keep their types.
THEOREM TypeCorrect == Spec => []TypeOK
<1>1. IInv => TypeOK
  BY DEF IInv
<1> QED
  BY <1>1, Invariance, PTL

-----------------------------------------------------------------------------
(* A second copy needs a fault. *)

\* What a commit does to published_at, row by row.
LEMMA RecordMarks ==
    ASSUME NEW w \in Relays, Record(w)
    PROVE  \A r \in Rows : published'[r] <=> (published[r] \/ r \in done[w])
BY Zenon DEF Record

LEMMA CopyStep == IInv /\ CopyAccounting /\ [Next]_vars => CopyAccounting'
<1> SUFFICES ASSUME IInv, CopyAccounting, [Next]_vars PROVE CopyAccounting'
  OBVIOUS
<1> USE NoneAssumption DEF IInv, TypeOK, BatchInv, HoldsBatch, HoldsNothing, Holds, CopyAccounting,
            MarkAwaitsCommit, table, batch, count, Goto, Release, Forget, Waste, Continue
<1>1. ASSUME NEW r \in Rows, Insert(r) \/ BackoffElapses(r) PROVE CopyAccounting'
  BY <1>1 DEF Insert, BackoffElapses
<1>2. ASSUME NEW w \in Relays, Fetch(w) PROVE CopyAccounting'
  <2>1. \A r \in Oldest(Due) : r \in Rows /\ lock[r] = None
    BY DEF Oldest, Due
  <2>2. done[w] = {}
    BY <1>2 DEF Fetch
  <2> QED
    BY <1>2, <2>1, <2>2 DEF Fetch
<1>3. ASSUME NEW w \in Relays, NEW r \in Rows, PublishOk(w, r) PROVE CopyAccounting'
  BY <1>3 DEF PublishOk, Current
<1>4. ASSUME NEW w \in Relays, NEW r \in Rows, PublishRejected(w, r) PROVE CopyAccounting'
  BY <1>4 DEF PublishRejected, Refused
<1>5. ASSUME NEW w \in Relays, NEW r \in Rows, BrokerDown(w, r) PROVE CopyAccounting'
  BY <1>5 DEF BrokerDown
<1>6. ASSUME NEW w \in Relays, NEW r \in Rows, BackoffOverflows(w, r) PROVE CopyAccounting'
  <2>1. /\ lock' = [s \in Rows |-> IF lock[s] = w THEN None ELSE lock[s]]
        /\ done' = [done EXCEPT ![w] = {}]
        /\ published' = published
        /\ r \notin done[w]
    BY <1>6 DEF BackoffOverflows, Current
  <2>2. CASE UNCHANGED copies /\ Waste(w)
    BY <2>1, <2>2
  <2>3. CASE /\ copies' = [copies EXCEPT ![r] = @ + 1]
             /\ wasted' = [s \in Rows |-> IF s = r \/ (s \in done[w] /\ Holds(w, s))
                                          THEN wasted[s] + 1 ELSE wasted[s]]
    <3>1. ASSUME NEW s \in Rows
          PROVE  /\ copies'[s] = IF s = r THEN copies[s] + 1 ELSE copies[s]
                 /\ wasted'[s] = IF s = r \/ (s \in done[w] /\ lock[s] = w)
                                 THEN wasted[s] + 1 ELSE wasted[s]
                 /\ copies[s] \in Nat /\ wasted[s] \in Nat
      BY <2>3
    <3>2. ASSUME NEW s \in Rows
          PROVE  MarkAwaitsCommit(s)' <=> MarkAwaitsCommit(s) /\ lock[s] # w
      BY <2>1
    <3>3. ASSUME NEW s \in Rows, MarkAwaitsCommit(s), lock[s] = w
          PROVE  s \in done[w] /\ s # r /\ ~published[s]
      BY <2>1, <3>3
    <3> QED
      BY <2>1, <3>1, <3>2, <3>3
  <2> QED
    BY <1>6, <2>2, <2>3 DEF BackoffOverflows
<1>7. ASSUME NEW w \in Relays, Commit(w) PROVE CopyAccounting'
  <2>1. /\ lock' = [r \in Rows |-> IF lock[r] = w THEN None ELSE lock[r]]
        /\ done' = [done EXCEPT ![w] = {}]
        /\ UNCHANGED <<copies, wasted>>
        /\ \A r \in done[w] : lock[r] = w
    BY <1>7 DEF Commit, SessionAlive
  <2>2. Record(w)
    BY <1>7 DEF Commit
  <2> QED
    BY <2>1, <2>2, RecordMarks
<1>8. ASSUME NEW w \in Relays, CommitFails(w) PROVE CopyAccounting'
  <2>1. /\ lock' = [r \in Rows |-> IF lock[r] = w THEN None ELSE lock[r]]
        /\ done' = [done EXCEPT ![w] = {}]
        /\ UNCHANGED copies
    BY <1>8 DEF CommitFails
  <2>2. CASE Record(w) /\ SessionAlive(w) /\ UNCHANGED wasted
    <3>1. \A r \in done[w] : lock[r] = w
      BY <2>2 DEF SessionAlive
    <3> QED
      BY <2>1, <2>2, <3>1, RecordMarks
  <2>3. CASE Waste(w) /\ UNCHANGED published
    BY <2>1, <2>3
  <2>4. CASE HoldsNothing(w) /\ UNCHANGED <<published, wasted>>
    BY <2>1, <2>4
  <2> QED
    BY <1>8, <2>2, <2>3, <2>4 DEF CommitFails, SessionAlive
<1>9. ASSUME NEW w \in Relays, Stop(w) \/ RequestStop(w) PROVE CopyAccounting'
  BY <1>9 DEF Stop, RequestStop
<1>10. ASSUME NEW w \in Relays, SessionLost(w) PROVE CopyAccounting'
  BY <1>10 DEF SessionLost
<1>11. ASSUME NEW w \in Relays, Crash(w) PROVE CopyAccounting'
  BY <1>11 DEF Crash
<1>12. CASE UNCHANGED vars
  BY <1>12 DEF vars
<1> QED
  BY <1>1, <1>2, <1>3, <1>4, <1>5, <1>6, <1>7, <1>8, <1>9, <1>10, <1>11, <1>12, NextCases

\* design.md:103-107: at least once, and a second copy of an event exists only
\* where a fault took away the mark of the first.
THEOREM CopiesAccounted == Spec => []CopyAccounting
<1>1. Init => CopyAccounting
  BY DEF Init, CopyAccounting, MarkAwaitsCommit
<1> QED
  BY <1>1, CopyStep, Invariance, PTL DEF Spec

\* relay.py:123-125: a row is marked published only if the broker has the event.
THEOREM MarkedIsConfirmed == Spec => []MarkedMeansConfirmed
<1>1. TypeOK /\ CopyAccounting => MarkedMeansConfirmed
  BY DEF TypeOK, CopyAccounting, MarkedMeansConfirmed
<1> QED
  BY <1>1, TypeCorrect, CopiesAccounted, PTL

-----------------------------------------------------------------------------
(* Before the first fault there is no second copy. *)

\* Every relay keeps the rows of its batch, and no mark is lost.
Steady ==
    /\ \A r \in Rows : attempts[r] + 1 < OverflowAt /\ wasted[r] = 0
    /\ \A w \in Relays : HoldsBatch(w)

\* Faults are spent, never regained.
Spending == \A fault \in Faults : budget[fault] <= Budget[fault]

LEMMA SpendingStep ==
    ASSUME TypeOK, [Next]_vars
    PROVE  \A fault \in Faults : budget'[fault] \in Nat /\ budget'[fault] <= budget[fault]
<1> USE DEF TypeOK, Faults, Spend, table, batch, count
<1>1. ASSUME NEW fault \in Faults, Spend(fault)
      PROVE  \A f \in Faults : budget'[f] \in Nat /\ budget'[f] <= budget[f]
  BY <1>1
<1>2. \/ UNCHANGED budget
      \/ \E fault \in Faults : Spend(fault)
  BY NextCases
     DEF Insert, BackoffElapses, Fetch, Commit, CommitFails, Stop, RequestStop, SessionLost, Crash,
         PublishOk, PublishRejected, BrokerDown, BackoffOverflows, Refused, vars
<1> QED
  BY <1>1, <1>2

\* What a fault has disturbed stays so; an undisturbed step spends none of them.
LEMMA StaysDisturbed ==
    ASSUME TypeOK, Spending, [Next]_vars, Undisturbed'
    PROVE  /\ Undisturbed
           /\ \A fault \in {"crash", "db", "outage"} : budget'[fault] = budget[fault]
<1>1. \A fault \in Faults : /\ budget'[fault] \in Nat /\ budget[fault] \in Nat /\ Budget[fault] \in Nat
                             /\ budget'[fault] <= budget[fault] /\ budget[fault] <= Budget[fault]
  BY SpendingStep, BudgetAssumption DEF TypeOK, Spending
<1>2. \A fault \in {"crash", "db", "outage"} : fault \in Faults /\ budget'[fault] = Budget[fault]
  BY DEF Undisturbed, Faults
<1>3. \A fault \in {"crash", "db", "outage"} : budget[fault] = Budget[fault]
  BY <1>1, <1>2
<1> QED
  BY <1>2, <1>3 DEF Undisturbed

LEMMA SteadyStep ==
    ASSUME IInv, Spending, Undisturbed => Steady, [Next]_vars, Undisturbed'
    PROVE  Steady'
<1>0. /\ Undisturbed /\ Steady
      /\ \A fault \in {"crash", "db", "outage"} : budget'[fault] = budget[fault] /\ ~Spend(fault)
  BY StaysDisturbed DEF IInv, TypeOK, Faults, Spend
<1> USE <1>0, AttemptsAssumption DEF IInv, TypeOK, Steady, HoldsBatch, Holds,
        table, batch, count, Goto, Forget, Continue
<1>1. ASSUME NEW r \in Rows, Insert(r) \/ BackoffElapses(r) PROVE Steady'
  BY <1>1 DEF Insert, BackoffElapses
<1>2. ASSUME NEW w \in Relays, Fetch(w) PROVE Steady'
  <2>1. \A r \in Oldest(Due) : r \in Rows /\ lock[r] = None
    BY DEF Oldest, Due
  <2>2. done[w] = {} /\ failed[w] = {}
    BY <1>2 DEF Fetch, BatchInv
  <2> QED
    BY <1>2, <2>1, <2>2, NoneAssumption DEF Fetch
<1>3. ASSUME NEW w \in Relays, NEW r \in Rows, PublishOk(w, r) PROVE Steady'
  <2>1. Holds(w, r) /\ r \in todo[w]
    BY <1>3 DEF PublishOk, Current
  <2>2. HoldsBatch(w)' /\ \A v \in Relays \ {w} : HoldsBatch(v)'
    BY <1>3, <2>1 DEF PublishOk
  <2> QED
    BY <1>3, <2>1, <2>2 DEF PublishOk
<1>4. ASSUME NEW w \in Relays, NEW r \in Rows, PublishRejected(w, r) PROVE Steady'
  BY <1>4 DEF PublishRejected, Current, Refused
<1>5. ASSUME NEW w \in Relays, NEW r \in Rows, BrokerDown(w, r) PROVE Steady'
  BY <1>5 DEF BrokerDown
<1>6. ASSUME NEW w \in Relays, NEW r \in Rows, BackoffOverflows(w, r) PROVE Steady'
  BY <1>6 DEF BackoffOverflows, Refused
<1>7. ASSUME NEW w \in Relays, Commit(w) PROVE Steady'
  <2>1. \A r \in Rows : attempts'[r] + 1 < OverflowAt
    BY <1>7 DEF Commit, Record, Counted, Undisturbed
  <2>2. \A v \in Relays : HoldsBatch(v)'
    BY <1>7 DEF Commit, Release
  <2> QED
    BY <1>7, <2>1, <2>2 DEF Commit
<1>8. ASSUME NEW w \in Relays, CommitFails(w) PROVE Steady'
  BY <1>8 DEF CommitFails, SessionAlive
<1>9. ASSUME NEW w \in Relays, Stop(w) \/ RequestStop(w) PROVE Steady'
  BY <1>9 DEF Stop, RequestStop
<1>10. ASSUME NEW w \in Relays, SessionLost(w) \/ Crash(w) PROVE Steady'
  BY <1>10 DEF SessionLost, Crash
<1>11. CASE UNCHANGED vars
  BY <1>11 DEF vars
<1> QED
  BY <1>1, <1>2, <1>3, <1>4, <1>5, <1>6, <1>7, <1>8, <1>9, <1>10, <1>11, NextCases

\* design.md:100-101, relay.py:91-92: any number of replicas, polling at any
\* time, publish no event twice until a fault has happened.
THEOREM OnceUntilDisturbed == Spec => []PublishedOnce
<1>1. Init => Spending /\ (Undisturbed => Steady)
  BY AttemptsAssumption, BudgetAssumption DEF Init, Spending, Steady, HoldsBatch, Undisturbed
<1>2. ASSUME IInv, Spending, Undisturbed => Steady, [Next]_vars
      PROVE  Spending' /\ (Undisturbed => Steady)'
  <2>1. Spending'
    BY <1>2, SpendingStep, BudgetAssumption DEF Spending, IInv, TypeOK
  <2>2. (Undisturbed => Steady)'
    BY <1>2, SteadyStep
  <2> QED
    BY <2>1, <2>2
<1>3. IInv /\ (Undisturbed => Steady) /\ CopyAccounting => PublishedOnce
  BY DEF IInv, TypeOK, Steady, CopyAccounting, PublishedOnce
<1> QED
  BY <1>1, <1>2, <1>3, Invariance, CopiesAccounted, PTL DEF Spec

-----------------------------------------------------------------------------
(* A fault costs at most one copy of each event.  A session that is lost    *)
(* with a batch leaves its relay publishing rows others may take: that copy *)
(* is paid for when the session goes, and made later.                       *)

\* Relays that will publish a row they no longer hold.
Unprotected(r) == {w \in Relays : r \in todo[w] /\ ~Holds(w, r)}

PaidFor(r) ==
    /\ IsFiniteSet(Unprotected(r))
    /\ wasted[r] + Cardinality(Unprotected(r)) <= FaultsSoFar

FaultInv ==
    /\ \A r \in Poison : attempts[r] + 1 < OverflowAt
    /\ \A r \in Rows : PaidFor(r)

LEMMA FaultsAreCounted ==
    ASSUME TypeOK, [Next]_vars
    PROVE  /\ FaultsSoFar \in Int /\ FaultsSoFar' \in Int
           /\ FaultsSoFar' >= FaultsSoFar
           /\ \A fault \in {"crash", "db", "outage", "reject"} :
                 Spend(fault) => FaultsSoFar' >= FaultsSoFar + 1
<1>1. \A fault \in Faults : /\ budget[fault] \in Nat /\ Budget[fault] \in Nat
                            /\ budget'[fault] \in Nat /\ budget'[fault] <= budget[fault]
  BY SpendingStep, BudgetAssumption DEF TypeOK
<1>2. \A fault \in Faults : Spend(fault) => budget'[fault] = budget[fault] - 1
  BY DEF Spend, TypeOK
<1> QED
  BY <1>1, <1>2 DEF FaultsSoFar, Spent, Faults

\* The relays that may still publish the row do not become more.
LEMMA PaidWithoutFault ==
    ASSUME TypeOK, [Next]_vars, NEW r \in Rows, PaidFor(r),
           Unprotected(r)' \subseteq Unprotected(r), wasted'[r] \in Nat,
           \/ wasted'[r] = wasted[r]
           \/ \E w \in Unprotected(r) : w \notin Unprotected(r)' /\ wasted'[r] = wasted[r] + 1
    PROVE  PaidFor(r)'
<1>1. /\ IsFiniteSet(Unprotected(r)')
      /\ Cardinality(Unprotected(r)') \in Nat /\ Cardinality(Unprotected(r)) \in Nat
      /\ Cardinality(Unprotected(r)') <= Cardinality(Unprotected(r))
  BY FS_Subset, FS_CardinalityType DEF PaidFor
<1>2. FaultsSoFar \in Int /\ FaultsSoFar' \in Int /\ FaultsSoFar' >= FaultsSoFar
  BY FaultsAreCounted
<1>3. CASE wasted'[r] = wasted[r]
  BY <1>1, <1>2, <1>3 DEF PaidFor, TypeOK
<1>4. ASSUME NEW w \in Unprotected(r), w \notin Unprotected(r)', wasted'[r] = wasted[r] + 1
      PROVE  PaidFor(r)'
  <2>1. Unprotected(r)' # Unprotected(r)
    BY <1>4
  <2>2. Cardinality(Unprotected(r)') # Cardinality(Unprotected(r))
    BY <2>1, FS_Subset DEF PaidFor
  <2> QED
    BY <1>1, <1>2, <1>4, <2>2 DEF PaidFor, TypeOK
<1> QED
  BY <1>3, <1>4

\* A fault pays for a copy that is lost, or for one relay more that may publish.
LEMMA PaidByFault ==
    ASSUME TypeOK, [Next]_vars, NEW r \in Rows, PaidFor(r), wasted'[r] \in Nat,
           NEW fault \in {"crash", "db", "outage", "reject"}, Spend(fault),
           \/ Unprotected(r)' \subseteq Unprotected(r) /\ wasted'[r] <= wasted[r] + 1
           \/ \E w : /\ Unprotected(r)' \subseteq Unprotected(r) \cup {w}
                     /\ wasted'[r] = wasted[r]
    PROVE  PaidFor(r)'
<1>1. FaultsSoFar \in Int /\ FaultsSoFar' \in Int /\ FaultsSoFar' >= FaultsSoFar + 1
  BY FaultsAreCounted
<1>2. Cardinality(Unprotected(r)) \in Nat
  BY FS_CardinalityType DEF PaidFor
<1>3. CASE Unprotected(r)' \subseteq Unprotected(r) /\ wasted'[r] <= wasted[r] + 1
  <2>1. /\ IsFiniteSet(Unprotected(r)') /\ Cardinality(Unprotected(r)') \in Nat
        /\ Cardinality(Unprotected(r)') <= Cardinality(Unprotected(r))
    BY <1>3, FS_Subset, FS_CardinalityType DEF PaidFor
  <2> QED
    BY <1>1, <1>2, <1>3, <2>1 DEF PaidFor, TypeOK
<1>4. ASSUME NEW w, Unprotected(r)' \subseteq Unprotected(r) \cup {w}, wasted'[r] = wasted[r]
      PROVE  PaidFor(r)'
  <2> DEFINE More == Unprotected(r) \cup {w}
  <2>1. /\ IsFiniteSet(More) /\ Cardinality(More) \in Nat
        /\ Cardinality(More) <= Cardinality(Unprotected(r)) + 1
    <3>1. IsFiniteSet(Unprotected(r))
      BY DEF PaidFor
    <3>2. /\ IsFiniteSet(More)
          /\ Cardinality(More) = IF w \in Unprotected(r) THEN Cardinality(Unprotected(r))
                                 ELSE Cardinality(Unprotected(r)) + 1
      BY <3>1, FS_AddElement
    <3> HIDE DEF More
    <3> QED
      BY <1>2, <3>2, FS_CardinalityType
  <2>2. /\ IsFiniteSet(Unprotected(r)') /\ Cardinality(Unprotected(r)') \in Nat
        /\ Cardinality(Unprotected(r)') <= Cardinality(More)
    BY <1>4, <2>1, FS_Subset, FS_CardinalityType
  <2> QED
    BY <1>1, <1>2, <1>4, <2>1, <2>2 DEF PaidFor, TypeOK
<1> QED
  BY <1>3, <1>4

\* The end of a batch adds nothing to what relays may still publish.
LEMMA NoMoreUnprotected ==
    ASSUME TypeOK, NEW w \in Relays, Forget(w), Release(w)
    PROVE  \A r \in Rows : Unprotected(r)' \subseteq Unprotected(r)
BY NoneAssumption DEF TypeOK, Forget, Release, Unprotected, Holds

LEMMA FaultStep ==
    ASSUME IInv, FaultInv, PoisonIsPutOff, [Next]_vars
    PROVE  FaultInv'
<1> USE DEF FaultInv, table, batch, count, Goto, Continue
<1>0. /\ TypeOK /\ TypeOK'
      /\ \A r \in Rows : wasted[r] \in Nat /\ wasted'[r] \in Nat
  BY TypeStep DEF IInv, TypeOK
<1>1. ASSUME NEW r \in Rows, Insert(r) \/ BackoffElapses(r) PROVE FaultInv'
  <2>1. UNCHANGED <<attempts, todo, lock, wasted>>
    BY <1>1 DEF Insert, BackoffElapses
  <2> QED
    BY <1>0, <2>1, PaidWithoutFault DEF Unprotected, Holds
<1>2. ASSUME NEW w \in Relays, Fetch(w) PROVE FaultInv'
  <2>1. \A r \in Oldest(Due) : r \in Rows /\ lock[r] = None
    BY DEF Oldest, Due
  <2>2. \A r \in Rows : Unprotected(r)' \subseteq Unprotected(r)
    BY <1>0, <1>2, <2>1, NoneAssumption DEF Fetch, Unprotected, Holds, TypeOK
  <2>3. UNCHANGED <<attempts, wasted>>
    BY <1>2 DEF Fetch
  <2> QED
    BY <1>0, <2>2, <2>3, PaidWithoutFault
<1>3. ASSUME NEW w \in Relays, NEW r \in Rows, PublishOk(w, r) PROVE FaultInv'
  <2>1. /\ UNCHANGED <<attempts, lock>>
        /\ todo' = [todo EXCEPT ![w] = todo[w] \ {r}]
        /\ wasted' = IF Holds(w, r) THEN wasted ELSE [wasted EXCEPT ![r] = @ + 1]
        /\ r \in todo[w]
    BY <1>3 DEF PublishOk, Current
  <2>2. \A q \in Rows : Unprotected(q)' \subseteq Unprotected(q)
    BY <1>0, <2>1 DEF Unprotected, Holds, TypeOK
  <2>3. w \notin Unprotected(r)'
    BY <1>0, <2>1 DEF Unprotected, TypeOK
  <2>4. ~Holds(w, r) => w \in Unprotected(r)
    BY <2>1 DEF Unprotected
  <2>5. \A q \in Rows : \/ wasted'[q] = wasted[q]
                        \/ q = r /\ ~Holds(w, r) /\ wasted'[q] = wasted[q] + 1
    BY <1>0, <2>1 DEF TypeOK
  <2>6. ASSUME NEW q \in Rows PROVE PaidFor(q)'
    BY <1>0, <2>2, <2>3, <2>4, <2>5, PaidWithoutFault
  <2> QED
    BY <2>1, <2>6
<1>4. ASSUME NEW w \in Relays, NEW r \in Rows, PublishRejected(w, r) PROVE FaultInv'
  <2>1. /\ UNCHANGED <<attempts, lock, wasted>>
        /\ todo' = [todo EXCEPT ![w] = todo[w] \ {r}]
    BY <1>4 DEF PublishRejected
  <2>2. \A q \in Rows : Unprotected(q)' \subseteq Unprotected(q)
    BY <1>0, <2>1 DEF Unprotected, Holds, TypeOK
  <2> QED
    BY <1>0, <2>1, <2>2, PaidWithoutFault
<1>5. ASSUME NEW w \in Relays, NEW r \in Rows, BrokerDown(w, r) PROVE FaultInv'
  <2>1. /\ UNCHANGED <<attempts, lock>> /\ Spend("outage")
        /\ todo' = [todo EXCEPT ![w] = {}]
        /\ wasted' = wasted \/ wasted' = [wasted EXCEPT ![r] = @ + 1]
    BY <1>5 DEF BrokerDown
  <2>2. \A q \in Rows : Unprotected(q)' \subseteq Unprotected(q)
    BY <1>0, <2>1 DEF Unprotected, Holds, TypeOK
  <2>3. \A q \in Rows : wasted'[q] <= wasted[q] + 1
    BY <1>0, <2>1 DEF TypeOK
  <2> QED
    BY <1>0, <2>1, <2>2, <2>3, PaidByFault
<1>6. ASSUME NEW w \in Relays, Forget(w), Release(w), UNCHANGED attempts,
             \A q \in Rows : wasted'[q] <= wasted[q] + 1,
             NEW fault \in {"crash", "db", "outage", "reject"}, Spend(fault)
      PROVE  FaultInv'
  BY <1>0, <1>6, NoMoreUnprotected, PaidByFault
<1>7. ASSUME NEW w \in Relays, NEW r \in Rows, BackoffOverflows(w, r) PROVE FaultInv'
  <2>1. r \notin Poison
    BY <1>0, <1>7, AttemptsAssumption DEF BackoffOverflows, TypeOK
  <2>2. Spend("reject") \/ Spend("outage")
    BY <1>7, <2>1 DEF BackoffOverflows, Refused
  <2>3. Forget(w) /\ Release(w) /\ UNCHANGED attempts
    BY <1>7 DEF BackoffOverflows
  <2>4. \A q \in Rows : wasted'[q] <= wasted[q] + 1
    <3>1. \/ Waste(w)
          \/ wasted' = [s \in Rows |-> IF s = r \/ (s \in done[w] /\ Holds(w, s))
                                       THEN wasted[s] + 1 ELSE wasted[s]]
      BY <1>7 DEF BackoffOverflows
    <3> QED
      BY <1>0, <3>1 DEF Waste
  <2> QED
    BY <1>6, <2>2, <2>3, <2>4
<1>8. ASSUME NEW w \in Relays, Record(w) PROVE \A r \in Poison : attempts'[r] + 1 < OverflowAt
  BY <1>0, <1>8, AttemptsAssumption, RowsAssumption DEF Record, Counted, PoisonIsPutOff, TypeOK
<1>9. ASSUME NEW w \in Relays, Forget(w), Release(w), UNCHANGED wasted,
             Record(w) \/ UNCHANGED attempts
      PROVE  FaultInv'
  <2>1. \A r \in Poison : attempts'[r] + 1 < OverflowAt
    BY <1>8, <1>9
  <2> QED
    BY <1>0, <1>9, <2>1, NoMoreUnprotected, PaidWithoutFault
<1>10. ASSUME NEW w \in Relays, Commit(w) PROVE FaultInv'
  BY <1>9, <1>10 DEF Commit
<1>11. ASSUME NEW w \in Relays, CommitFails(w) PROVE FaultInv'
  <2>1. Forget(w) /\ Release(w)
    BY <1>11 DEF CommitFails
  <2>2. CASE UNCHANGED wasted /\ (Record(w) \/ UNCHANGED attempts)
    BY <1>9, <2>1, <2>2
  <2>3. CASE Waste(w) /\ UNCHANGED attempts /\ Spend("db")
    BY <1>0, <1>6, <2>1, <2>3 DEF Waste
  <2> QED
    BY <1>11, <2>2, <2>3 DEF CommitFails
<1>12. ASSUME NEW w \in Relays, Stop(w) \/ RequestStop(w) PROVE FaultInv'
  <2>1. UNCHANGED <<attempts, todo, lock, wasted>>
    BY <1>12 DEF Stop, RequestStop
  <2> QED
    BY <1>0, <2>1, PaidWithoutFault DEF Unprotected, Holds
<1>13. ASSUME NEW w \in Relays, SessionLost(w) PROVE FaultInv'
  <2>1. Release(w) /\ Waste(w) /\ Spend("db") /\ UNCHANGED <<attempts, todo>>
    BY <1>13 DEF SessionLost
  <2>2. ASSUME NEW r \in Rows
        PROVE  \/ Unprotected(r)' \subseteq Unprotected(r) /\ wasted'[r] <= wasted[r] + 1
               \/ /\ Unprotected(r)' \subseteq Unprotected(r) \cup {w}
                  /\ wasted'[r] = wasted[r]
    <3>1. Unprotected(r)' \subseteq Unprotected(r) \cup {w}
      BY <2>1, NoneAssumption DEF Release, Unprotected, Holds
    <3>2. CASE r \in todo[w]
      <4>1. r \notin done[w]
        BY <3>2 DEF IInv, BatchInv
      <4> QED
        BY <2>1, <3>1, <4>1 DEF Waste
    <3>3. CASE r \notin todo[w]
      <4>1. w \notin Unprotected(r)'
        BY <2>1, <3>3 DEF Unprotected
      <4>2. wasted'[r] <= wasted[r] + 1
        BY <1>0, <2>1 DEF Waste
      <4> QED
        BY <3>1, <4>1, <4>2
    <3> QED
      BY <3>2, <3>3
  <2>3. ASSUME NEW r \in Rows PROVE PaidFor(r)'
    BY <1>0, <2>1, <2>2, PaidByFault
  <2> QED
    BY <2>1, <2>3
<1>14. ASSUME NEW w \in Relays, Crash(w) PROVE FaultInv'
  BY <1>0, <1>6, <1>14 DEF Crash, Waste
<1>15. CASE UNCHANGED vars
  BY <1>0, <1>15, PaidWithoutFault DEF vars, Unprotected, Holds
<1> QED
  BY <1>1, <1>2, <1>3, <1>4, <1>5, <1>7, <1>10, <1>11, <1>12, <1>13, <1>14, <1>15, NextCases

\* design.md:103-107: at least once, but not without end: however the replicas'
\* batches overlap, each fault adds at most one copy of an event.
THEOREM CopiesPaidFor == Spec => []CopiesBounded
<1>1. Init /\ PoisonIsPutOff => FaultInv
  <2> SUFFICES ASSUME Init, PoisonIsPutOff PROVE FaultInv
    OBVIOUS
  <2>1. \A r \in Rows : Unprotected(r) = {} /\ wasted[r] = 0
    BY DEF Init, Unprotected
  <2>2. FaultsSoFar = 0
    BY BudgetAssumption DEF Init, FaultsSoFar, Spent, Faults
  <2>3. \A r \in Poison : attempts[r] + 1 < OverflowAt
    BY DEF Init, PoisonIsPutOff
  <2> QED
    BY <2>1, <2>2, <2>3, FS_EmptySet DEF FaultInv, PaidFor
<1>2. IInv /\ (PoisonIsPutOff => FaultInv) /\ [Next]_vars => (PoisonIsPutOff => FaultInv)'
  BY FaultStep DEF PoisonIsPutOff
<1>3. TypeOK /\ CopyAccounting /\ (PoisonIsPutOff => FaultInv) => CopiesBounded
  <2> SUFFICES ASSUME TypeOK, CopyAccounting, PoisonIsPutOff, FaultInv, NEW r \in Rows
               PROVE  copies[r] <= 1 + FaultsSoFar
    BY DEF CopiesBounded
  <2>1. Cardinality(Unprotected(r)) \in Nat /\ wasted[r] \in Nat /\ copies[r] \in Nat
    BY FS_CardinalityType DEF FaultInv, PaidFor, TypeOK
  <2>2. copies[r] <= wasted[r] + 1
    BY <2>1 DEF CopyAccounting
  <2>3. FaultsSoFar \in Int
    BY BudgetAssumption DEF FaultsSoFar, Spent, Faults, TypeOK
  <2> QED
    BY <2>1, <2>2, <2>3 DEF FaultInv, PaidFor
<1> QED
  BY <1>1, <1>2, <1>3, TypeCorrect, Invariance, CopiesAccounted, PTL DEF Spec

-----------------------------------------------------------------------------
(* What is published comes from the table. *)

\* Rows are never taken away again: a batch, and what the broker has, is stored.
FromTable ==
    /\ \A w \in Relays : \A r \in todo[w] : stored[r]
    /\ \A r \in Rows : copies[r] > 0 => stored[r]

LEMMA FromTableStep == TypeOK /\ FromTable /\ [Next]_vars => FromTable'
<1> SUFFICES ASSUME TypeOK, FromTable, [Next]_vars PROVE FromTable'
  OBVIOUS
<1> USE DEF TypeOK, FromTable, table, batch, count, Continue, Forget, Current
<1>1. ASSUME NEW r \in Rows, Insert(r) \/ BackoffElapses(r) PROVE FromTable'
  BY <1>1 DEF Insert, BackoffElapses
<1>2. ASSUME NEW w \in Relays, Fetch(w) PROVE FromTable'
  BY <1>2 DEF Fetch, Oldest, Due
<1>3. ASSUME NEW w \in Relays, NEW r \in Rows,
             PublishOk(w, r) \/ PublishRejected(w, r) \/ BrokerDown(w, r)
      PROVE  FromTable'
  <2>1. /\ r \in todo[w] /\ stored' = stored
        /\ \A v \in Relays : todo'[v] \subseteq todo[v]
    BY <1>3 DEF PublishOk, PublishRejected, BrokerDown
  <2>2. copies' = copies \/ copies' = [copies EXCEPT ![r] = @ + 1]
    BY <1>3 DEF PublishOk, PublishRejected, BrokerDown
  <2> QED
    BY <2>1, <2>2
<1>4. ASSUME NEW w \in Relays, NEW r \in Rows, BackoffOverflows(w, r) PROVE FromTable'
  BY <1>4 DEF BackoffOverflows
<1>5. ASSUME NEW w \in Relays, Commit(w) \/ CommitFails(w) PROVE FromTable'
  BY <1>5 DEF Commit, CommitFails, Record
<1>6. ASSUME NEW w \in Relays, Stop(w) \/ RequestStop(w) \/ SessionLost(w) \/ Crash(w)
      PROVE  FromTable'
  BY <1>6 DEF Stop, RequestStop, SessionLost, Crash
<1>7. CASE UNCHANGED vars
  BY <1>7 DEF vars
<1> QED
  BY <1>1, <1>2, <1>3, <1>4, <1>5, <1>6, <1>7, NextCases

CopiesStored == \A r \in Rows : copies[r] > 0 => stored[r]

\* relay.py:94-106: the broker gets no event whose row is not committed.
THEOREM PublishedIsStored == Spec => []CopiesStored
<1>1. Init => FromTable
  BY DEF Init, FromTable
<1>2. FromTable => CopiesStored
  BY DEF FromTable, CopiesStored
<1> QED
  BY <1>1, <1>2, FromTableStep, TypeCorrect, PTL DEF Spec

=============================================================================

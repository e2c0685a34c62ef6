---------------------------- MODULE OutboxRelay ----------------------------
(***************************************************************************)
(* The relay of outbox/relay.py: replicas that publish the rows of         *)
(* outbox_messages, a batch per transaction, under FOR UPDATE SKIP LOCKED. *)
(*                                                                         *)
(* Between the SELECT and the COMMIT a relay does not touch the database   *)
(* (autoflush is off): what it did to the rows of its batch is local until *)
(* the commit.  A relay whose session is lost does not know and goes on    *)
(* publishing rows another replica can take meanwhile.                     *)
(*                                                                         *)
(* Rows are numbered by created_at.  Time is abstract: a row whose         *)
(* next_retry_at lies ahead is `backoff` until BackoffElapses.             *)
(***************************************************************************)
EXTENDS Naturals, FiniteSets

CONSTANTS
    NumRows,         \* rows the API may write
    Relays,          \* replicas of the relay process
    None,            \* nobody holds the row
    BatchSize,       \* settings.outbox_batch_size
    Poison,          \* rows the broker refuses whenever they are published
    InitialAttempts, \* failed publications of a row before the model starts
    AttemptsBound,   \* bound: failures beyond it are not counted
    OverflowAt,      \* least n for which 2.0**n raises OverflowError
    Budget           \* how often each fault may happen

Rows == 1..NumRows
Faults == {"crash", "db", "reject", "outage", "stop"}

ASSUME RowsAssumption == NumRows \in Nat /\ Poison \subseteq Rows
ASSUME BatchAssumption == BatchSize \in Nat \ {0}
ASSUME NoneAssumption == None \notin Relays
ASSUME AttemptsAssumption ==
    /\ InitialAttempts \in [Rows -> Nat]
    /\ AttemptsBound \in Nat
    /\ OverflowAt \in Nat
ASSUME BudgetAssumption == Budget \in [Faults -> Nat]

VARIABLES
    \* the table outbox_messages
    stored,      \* the API has committed the row
    published,   \* published_at IS NOT NULL
    attempts,
    backoff,     \* next_retry_at > now
    lock,        \* holder of the row lock
    \* the relays
    pc,
    todo,        \* rows of the batch still to publish
    done,        \* rows marked published, not committed
    failed,      \* rows marked for another try, not committed
    stopping,    \* request_stop() was called
    budget,
    \* history
    copies,      \* copies of the event the broker took
    wasted       \* of these, those no commit can account for any more

table == <<stored, published, attempts, backoff>>
batch == <<todo, done, failed>>
count == <<copies, wasted>>
vars  == <<table, lock, pc, batch, stopping, budget, count>>

TypeOK ==
    /\ stored \in [Rows -> BOOLEAN]
    /\ published \in [Rows -> BOOLEAN]
    /\ attempts \in [Rows -> Nat]
    /\ backoff \in [Rows -> BOOLEAN]
    /\ lock \in [Rows -> Relays \cup {None}]
    /\ pc \in [Relays -> {"poll", "publish", "commit", "stopped"}]
    /\ todo \in [Relays -> SUBSET Rows]
    /\ done \in [Relays -> SUBSET Rows]
    /\ failed \in [Relays -> SUBSET Rows]
    /\ stopping \in [Relays -> BOOLEAN]
    /\ budget \in [Faults -> Nat]
    /\ copies \in [Rows -> Nat]
    /\ wasted \in [Rows -> Nat]

Init ==
    /\ stored = [r \in Rows |-> InitialAttempts[r] > 0]
    /\ published = [r \in Rows |-> FALSE]
    /\ attempts = InitialAttempts
    /\ backoff = [r \in Rows |-> FALSE]
    /\ lock = [r \in Rows |-> None]
    /\ pc = [w \in Relays |-> "poll"]
    /\ todo = [w \in Relays |-> {}]
    /\ done = [w \in Relays |-> {}]
    /\ failed = [w \in Relays |-> {}]
    /\ stopping = [w \in Relays |-> FALSE]
    /\ budget = Budget
    /\ copies = [r \in Rows |-> 0]
    /\ wasted = [r \in Rows |-> 0]

-----------------------------------------------------------------------------
(* Helpers *)

Spend(fault) ==
    /\ budget[fault] > 0
    /\ budget' = [budget EXCEPT ![fault] = @ - 1]

Goto(w, label) == pc' = [pc EXCEPT ![w] = label]

\* Mutant: SELECT without FOR UPDATE SKIP LOCKED.
DueIgnoringLocks == {r \in Rows : stored[r] /\ ~published[r] /\ ~backoff[r]}

\* published_at IS NULL AND next_retry_at <= now, locked rows skipped.
Due == {r \in Rows : stored[r] /\ ~published[r] /\ ~backoff[r] /\ lock[r] = None}

\* ORDER BY created_at LIMIT batch_size
Oldest(rows) == {r \in rows : Cardinality({s \in rows : s < r}) < BatchSize}

Holds(w, r) == lock[r] = w

\* The session is closed: its row locks are free.
Release(w) == lock' = [r \in Rows |-> IF lock[r] = w THEN None ELSE lock[r]]

Forget(w) ==
    /\ todo' = [todo EXCEPT ![w] = {}]
    /\ done' = [done EXCEPT ![w] = {}]
    /\ failed' = [failed EXCEPT ![w] = {}]

\* The marks of this batch are lost: what was published will be again.
Waste(w) == wasted' = [r \in Rows |-> IF r \in done[w] /\ Holds(w, r)
                                      THEN wasted[r] + 1 ELSE wasted[r]]

Current(w, r) == r \in todo[w] /\ \A s \in todo[w] : r <= s

\* The rows that are left after r, and where that leads.
Continue(w, rest) ==
    /\ todo' = [todo EXCEPT ![w] = rest]
    /\ Goto(w, IF rest = {} THEN "commit" ELSE "publish")

\* The broker refuses the message: always, or this once.
Refused(r) ==
    \/ r \in Poison /\ UNCHANGED budget
    \/ r \notin Poison /\ Spend("reject")

Counted(n) == IF n < AttemptsBound THEN n + 1 ELSE n

-----------------------------------------------------------------------------
(* The API commits a payment together with its outbox row. *)
Insert(r) ==
    /\ ~stored[r]
    /\ stored' = [stored EXCEPT ![r] = TRUE]
    /\ UNCHANGED <<published, attempts, backoff, lock, pc, batch, stopping, budget, count>>

(* The clock reaches next_retry_at. *)
BackoffElapses(r) ==
    /\ backoff[r]
    /\ backoff' = [backoff EXCEPT ![r] = FALSE]
    /\ UNCHANGED <<stored, published, attempts, lock, pc, batch, stopping, budget, count>>

(* Mutant: while True. *)
FetchForever(w) ==
    /\ pc[w] = "poll"
    /\ Due # {}
    /\ todo' = [todo EXCEPT ![w] = Oldest(Due)]
    /\ lock' = [r \in Rows |-> IF r \in Oldest(Due) THEN w ELSE lock[r]]
    /\ Goto(w, "publish")
    /\ UNCHANGED <<table, done, failed, stopping, budget, count>>

(* fetch_batch_for_publishing, with something to publish.  An empty result *)
(* changes nothing: the loop waits and polls again.                        *)
Fetch(w) ==
    /\ pc[w] = "poll"
    /\ ~stopping[w]
    /\ Due # {}
    /\ todo' = [todo EXCEPT ![w] = Oldest(Due)]
    /\ lock' = [r \in Rows |-> IF r \in Oldest(Due) THEN w ELSE lock[r]]
    /\ Goto(w, "publish")
    /\ UNCHANGED <<table, done, failed, stopping, budget, count>>

(* The broker confirms: the row is marked published in the session. *)
PublishOk(w, r) ==
    /\ pc[w] = "publish"
    /\ Current(w, r)
    /\ r \notin Poison
    /\ copies' = [copies EXCEPT ![r] = @ + 1]
    /\ wasted' = IF Holds(w, r) THEN wasted ELSE [wasted EXCEPT ![r] = @ + 1]
    /\ done' = [done EXCEPT ![w] = @ \cup {r}]
    /\ Continue(w, todo[w] \ {r})
    /\ UNCHANGED <<table, lock, failed, stopping, budget>>

(* Mutant: the error of one message leaves _publish_one. *)
RejectionEscapes(w, r) ==
    /\ pc[w] = "publish"
    /\ Current(w, r)
    /\ attempts[r] + 1 < OverflowAt
    /\ Refused(r)
    /\ Waste(w)
    /\ Release(w)
    /\ Forget(w)
    /\ Goto(w, "poll")
    /\ UNCHANGED <<table, stopping, copies>>

(* A failure of this one message: it is marked for another try, the batch *)
(* goes on.                                                               *)
PublishRejected(w, r) ==
    /\ pc[w] = "publish"
    /\ Current(w, r)
    /\ attempts[r] + 1 < OverflowAt
    /\ Refused(r)
    /\ failed' = [failed EXCEPT ![w] = @ \cup {r}]
    /\ Continue(w, todo[w] \ {r})
    /\ UNCHANGED <<table, lock, done, stopping, count>>

(* A connection error or a timeout of the confirmation: the broker may have *)
(* the message; the rest of the batch is left for later.                    *)
BrokerDown(w, r) ==
    /\ pc[w] = "publish"
    /\ Current(w, r)
    /\ attempts[r] + 1 < OverflowAt
    /\ Spend("outage")
    /\ \/ UNCHANGED count
       \/ /\ r \notin Poison
          /\ copies' = [copies EXCEPT ![r] = @ + 1]
          /\ wasted' = [wasted EXCEPT ![r] = @ + 1]
    /\ failed' = [failed EXCEPT ![w] = @ \cup {r}]
    /\ Continue(w, {})
    /\ UNCHANGED <<table, lock, done, stopping>>

(* The publication fails and computing the delay of the next try raises     *)
(* OverflowError in the except block: it leaves _publish_one, the session   *)
(* is closed without commit, run_forever logs it and polls again.  If it    *)
(* was the confirmation that did not come, the broker may have the message. *)
BackoffOverflows(w, r) ==
    /\ pc[w] = "publish"
    /\ Current(w, r)
    /\ attempts[r] + 1 >= OverflowAt
    /\ \/ /\ Refused(r) \/ (r \notin Poison /\ Spend("outage"))
          /\ Waste(w)
          /\ UNCHANGED copies
       \/ /\ r \notin Poison
          /\ Spend("outage")
          /\ copies' = [copies EXCEPT ![r] = @ + 1]
          /\ wasted' = [s \in Rows |-> IF s = r \/ (s \in done[w] /\ Holds(w, s))
                                       THEN wasted[s] + 1 ELSE wasted[s]]
    /\ Release(w)
    /\ Forget(w)
    /\ Goto(w, "poll")
    /\ UNCHANGED <<table, stopping>>

\* Mutant: the batch is not committed.
RecordNothing(w) == UNCHANGED table

\* Mutant: rows whose publication failed are marked published too.
RecordAll(w) ==
    /\ published' = [r \in Rows |-> published[r] \/ r \in done[w] \cup failed[w]]
    /\ UNCHANGED <<stored, attempts, backoff>>

\* What the batch writes: published_at, or attempts and next_retry_at.
Record(w) ==
    /\ published' = [r \in Rows |-> published[r] \/ r \in done[w]]
    /\ attempts' = [r \in Rows |-> IF r \in failed[w] THEN Counted(attempts[r]) ELSE attempts[r]]
    /\ backoff' = [r \in Rows |-> backoff[r] \/ r \in failed[w]]
    /\ UNCHANGED stored

\* Every row of the batch is still locked by this session.
SessionAlive(w) == \A r \in done[w] \cup failed[w] : Holds(w, r)

Commit(w) ==
    /\ pc[w] = "commit"
    /\ SessionAlive(w)
    /\ Record(w)
    /\ Release(w)
    /\ Forget(w)
    /\ Goto(w, "poll")
    /\ UNCHANGED <<stopping, budget, count>>

(* COMMIT raises: by a fault, with the batch applied or not; on a lost *)
(* session always, and nothing is applied.                             *)
CommitFails(w) ==
    /\ pc[w] = "commit"
    /\ \/ /\ SessionAlive(w)
          /\ Spend("db")
          /\ \/ Record(w) /\ UNCHANGED wasted
             \/ UNCHANGED table /\ Waste(w)
       \/ ~SessionAlive(w) /\ UNCHANGED <<table, budget, wasted>>
    /\ Release(w)
    /\ Forget(w)
    /\ Goto(w, "poll")
    /\ UNCHANGED <<stopping, copies>>

(* SIGTERM: the current iteration is finished first. *)
RequestStop(w) ==
    /\ pc[w] # "stopped"
    /\ ~stopping[w]
    /\ Spend("stop")
    /\ stopping' = [stopping EXCEPT ![w] = TRUE]
    /\ UNCHANGED <<table, lock, pc, batch, count>>

Stop(w) ==
    /\ pc[w] = "poll"
    /\ stopping[w]
    /\ Goto(w, "stopped")
    /\ UNCHANGED <<table, lock, batch, stopping, budget, count>>

(* PostgreSQL ends the session of a relay that is publishing. *)
SessionLost(w) ==
    /\ \E r \in Rows : Holds(w, r)
    /\ Spend("db")
    /\ Waste(w)
    /\ Release(w)
    /\ UNCHANGED <<table, pc, batch, stopping, copies>>

(* The process dies and is started anew. *)
Crash(w) ==
    /\ pc[w] \in {"publish", "commit"}
    /\ Spend("crash")
    /\ Waste(w)
    /\ Release(w)
    /\ Forget(w)
    /\ Goto(w, "poll")
    /\ stopping' = [stopping EXCEPT ![w] = FALSE]
    /\ UNCHANGED <<table, copies>>

-----------------------------------------------------------------------------
Step(w) ==
    \/ Fetch(w) \/ Commit(w) \/ CommitFails(w) \/ Stop(w)
    \/ \E r \in Rows : PublishOk(w, r) \/ PublishRejected(w, r)
                          \/ BrokerDown(w, r) \/ BackoffOverflows(w, r)

Fault(w) == RequestStop(w) \/ SessionLost(w) \/ Crash(w)

\* The loops that have not ended poll and find nothing.
Polling ==
    /\ \A w \in Relays : pc[w] = "stopped" \/ (pc[w] = "poll" /\ ~stopping[w] /\ Due = {})
    /\ UNCHANGED vars

Next ==
    \/ \E r \in Rows : Insert(r) \/ BackoffElapses(r)
    \/ \E w \in Relays : Step(w) \/ Fault(w)
    \/ Polling

\* The event loop of every relay runs and the clock advances.
Fairness ==
    /\ \A w \in Relays : WF_vars(Step(w))
    /\ \A r \in Rows : WF_vars(BackoffElapses(r))

Spec == Init /\ [][Next]_vars
FairSpec == Spec /\ Fairness

-----------------------------------------------------------------------------
(* Properties *)

\* relay.py:123-125: a row is marked published only if the broker has the event,
\* whatever replica marks it and whatever happened to other replicas meanwhile.
MarkedMeansConfirmed == \A r \in Rows : published[r] => copies[r] > 0

\* A relay that holds the row has a confirmation to commit.
MarkAwaitsCommit(r) == lock[r] # None /\ r \in done[lock[r]]

\* design.md:103-107: at least once, and no more often than that: a second copy
\* exists only where a fault took away the mark of the first.
CopyAccounting ==
    \A r \in Rows :
        copies[r] = wasted[r] + (IF published[r] \/ MarkAwaitsCommit(r) THEN 1 ELSE 0)

\* No process, session, commit or confirmation has been lost so far, and no row
\* fails until its backoff overflows.
Undisturbed ==
    /\ \A fault \in {"crash", "db", "outage"} : budget[fault] = Budget[fault]
    /\ \A r \in Rows : InitialAttempts[r] + 1 < OverflowAt
    /\ AttemptsBound + 1 < OverflowAt

\* design.md:100-101, relay.py:91-92: until something of that kind happens the
\* replicas publish no event twice, however their batches overlap.
PublishedOnce == Undisturbed => \A r \in Rows : copies[r] <= 1

\* Faults that can cost a copy and have happened so far.
Spent(fault) == Budget[fault] - budget[fault]
FaultsSoFar == Spent("crash") + Spent("db") + Spent("outage") + Spent("reject")

\* No row the broker always refuses is tried so often that its backoff overflows.
PoisonIsPutOff ==
    \A r \in Poison : InitialAttempts[r] + 1 < OverflowAt /\ AttemptsBound + 1 < OverflowAt

\* design.md:103-107: at least once, but not without end: however the replicas'
\* batches overlap, each fault adds at most one copy of an event, also a fault that
\* takes away a session with a whole batch, or the rows a relay goes on to publish.
CopiesBounded == PoisonIsPutOff => \A r \in Rows : copies[r] <= 1 + FaultsSoFar

\* relay.py:85-87, 159-161: a message the broker keeps refusing is put off and
\* does not keep the others from being published.
EventuallyPublished == \A r \in Rows \ Poison : stored[r] ~> published[r]

\* relay.py:58-63: a stop request ends the loop however much work is left.
StopHonoured == \A w \in Relays : stopping[w] ~> (pc[w] = "stopped" \/ ~stopping[w])

=============================================================================

----------------------------- MODULE Migrations -----------------------------
(***************************************************************************)
(* `alembic upgrade head` and `alembic downgrade base`, started by several *)
(* containers at once (docker/entrypoint.sh): do_run_migrations in         *)
(* db/migrations/env.py, and the one revision, 6077c87387ca.               *)
(*                                                                         *)
(* PostgreSQL runs DDL in transactions: a statement on an object that      *)
(* another open transaction has created or dropped waits for its end; only *)
(* committed objects are visible to others.  The lock is                   *)
(* pg_advisory_xact_lock, given back at the end of the transaction.        *)
(***************************************************************************)
EXTENDS Naturals, Sequences

CONSTANTS
    Migrators,
    CommandOf,   \* "upgrade" or "downgrade"
    None,
    MaxCrashes

ASSUME MigratorsAssumption == CommandOf \in [Migrators -> {"upgrade", "downgrade"}]
ASSUME NoneAssumption == None \notin Migrators
ASSUME CrashesAssumption == MaxCrashes \in Nat

\* The row of alembic_version, and the table.
Revision == "6077c87387ca"
VersionTable == "alembic_version"

Objects == {"outbox_messages", "ix_outbox_unpublished", "currency", "payment_status", "payments",
            "ix_payments_status_created_at"}

\* upgrade(); op.create_table("payments") creates the types of its columns.
Upgrade ==
    <<[op |-> "create", on |-> "outbox_messages"],
      [op |-> "create", on |-> "ix_outbox_unpublished"],
      [op |-> "create", on |-> "currency"],
      [op |-> "create", on |-> "payment_status"],
      [op |-> "create", on |-> "payments"],
      [op |-> "create", on |-> "ix_payments_status_created_at"],
      [op |-> "create", on |-> Revision]>>

\* downgrade(); the types with checkfirst=True.
Downgrade ==
    <<[op |-> "drop", on |-> "ix_payments_status_created_at"],
      [op |-> "drop", on |-> "payments"],
      [op |-> "drop", on |-> "ix_outbox_unpublished"],
      [op |-> "drop", on |-> "outbox_messages"],
      [op |-> "dropIfExists", on |-> "payment_status"],
      [op |-> "dropIfExists", on |-> "currency"],
      [op |-> "drop", on |-> Revision]>>

Script(m) == IF CommandOf[m] = "upgrade" THEN Upgrade ELSE Downgrade

VARIABLES
    schema,   \* committed objects
    lock,     \* holder of the advisory lock
    pc,
    line,     \* statement of its script a migrator is at
    created,  \* by its open transaction
    dropped,
    crashes   \* how many more there may be

tx == <<created, dropped>>
vars == <<schema, lock, pc, line, tx, crashes>>

Names == Objects \cup {Revision, VersionTable}

TypeOK ==
    /\ schema \subseteq Names
    /\ lock \in Migrators \cup {None}
    /\ pc \in [Migrators -> {"begun", "locked", "statements", "commit", "done", "dead"}]
    /\ line \in [Migrators -> 1..8]
    /\ created \in [Migrators -> SUBSET Names]
    /\ dropped \in [Migrators -> SUBSET Names]
    /\ crashes \in Nat

\* The database is new, or was migrated by an earlier deployment.
Init ==
    /\ schema \in {{}, Names}
    /\ lock = None
    /\ pc = [m \in Migrators |-> "begun"]
    /\ line = [m \in Migrators |-> 1]
    /\ created = [m \in Migrators |-> {}]
    /\ dropped = [m \in Migrators |-> {}]
    /\ crashes = MaxCrashes

-----------------------------------------------------------------------------
(* Helpers *)

Goto(m, label) == pc' = [pc EXCEPT ![m] = label]

\* What the statements of a migrator see.
Visible(m) == (schema \ dropped[m]) \cup created[m]

Waits(m, object) == \E other \in Migrators \ {m} : object \in created[other] \cup dropped[other]

\* Mutant: pg_advisory_lock, of a session that goes back to a pool.
KeepLock(m) ==
    /\ created' = [created EXCEPT ![m] = {}]
    /\ dropped' = [dropped EXCEPT ![m] = {}]
    /\ UNCHANGED lock

\* The transaction ends, and the lock with it.
EndTransaction(m) ==
    /\ created' = [created EXCEPT ![m] = {}]
    /\ dropped' = [dropped EXCEPT ![m] = {}]
    /\ lock' = IF lock = m THEN None ELSE lock

-----------------------------------------------------------------------------
(* Mutant: no lock. *)
Unlocked(m) ==
    /\ pc[m] = "begun"
    /\ lock' = m
    /\ Goto(m, "locked")
    /\ UNCHANGED <<schema, line, tx, crashes>>

(* Mutant: pg_try_advisory_xact_lock; who does not get it leaves it to the other. *)
TryLock(m) ==
    /\ pc[m] = "begun"
    /\ \/ lock = None /\ lock' = m /\ Goto(m, "locked")
       \/ lock # None /\ UNCHANGED lock /\ Goto(m, "done")
    /\ UNCHANGED <<schema, line, tx, crashes>>

(* begin_transaction and pg_advisory_xact_lock. *)
Lock(m) ==
    /\ pc[m] = "begun"
    /\ lock = None
    /\ lock' = m
    /\ Goto(m, "locked")
    /\ UNCHANGED <<schema, line, tx, crashes>>

(* run_migrations: reads the revision; without one it creates the table     *)
(* alembic_version.  There is nothing to do if the database is there.       *)
ReadRevision(m) ==
    /\ pc[m] = "locked"
    /\ \/ /\ Revision \in Visible(m)
          /\ Goto(m, IF CommandOf[m] = "upgrade" THEN "commit" ELSE "statements")
          /\ UNCHANGED created
       \/ /\ Revision \notin Visible(m)
          /\ ~Waits(m, VersionTable)
          /\ created' = [created EXCEPT ![m] = @ \cup ({VersionTable} \ Visible(m))]
          /\ Goto(m, IF CommandOf[m] = "upgrade" THEN "statements" ELSE "commit")
    /\ line' = [line EXCEPT ![m] = 1]
    /\ UNCHANGED <<schema, lock, dropped, crashes>>

(* Mutant: every statement commits (transactional_ddl=False). *)
ExecuteAndCommit(m) ==
    LET statement == Script(m)[line[m]] IN
    /\ pc[m] = "statements"
    /\ schema' = IF statement.op = "create" THEN schema \cup {statement.on}
                                            ELSE schema \ {statement.on}
    /\ line' = [line EXCEPT ![m] = @ + 1]
    /\ Goto(m, IF line[m] = Len(Script(m)) THEN "commit" ELSE "statements")
    /\ UNCHANGED <<lock, tx, crashes>>

Execute(m) ==
    LET statement == Script(m)[line[m]] IN
    /\ pc[m] = "statements"
    /\ ~Waits(m, statement.on)
    /\ \/ /\ statement.op = "create" /\ statement.on \notin Visible(m)
          /\ created' = [created EXCEPT ![m] = @ \cup {statement.on}]
          /\ UNCHANGED dropped
       \/ /\ statement.op # "create"
          /\ statement.op = "drop" => statement.on \in Visible(m)
          /\ dropped' = [dropped EXCEPT ![m] = @ \cup {statement.on}]
          /\ UNCHANGED created
    /\ line' = [line EXCEPT ![m] = @ + 1]
    /\ Goto(m, IF line[m] = Len(Script(m)) THEN "commit" ELSE "statements")
    /\ UNCHANGED <<schema, lock, crashes>>

\* "already exists" or "does not exist": PostgreSQL refuses the statement, alembic
\* exits with an error and the services do not start.
Clashes(m) ==
    LET statement == Script(m)[line[m]] IN
    /\ pc[m] = "statements"
    /\ ~Waits(m, statement.on)
    /\ \/ statement.op = "create" /\ statement.on \in Visible(m)
       \/ statement.op = "drop" /\ statement.on \notin Visible(m)

Commit(m) ==
    /\ pc[m] = "commit"
    /\ schema' = Visible(m)
    /\ EndTransaction(m)
    /\ Goto(m, "done")
    /\ UNCHANGED <<line, crashes>>

(* The container dies or the connection is lost: rollback. *)
Crash(m) ==
    /\ pc[m] \in {"begun", "locked", "statements", "commit"}
    /\ crashes > 0
    /\ crashes' = crashes - 1
    /\ EndTransaction(m)
    /\ Goto(m, "dead")
    /\ UNCHANGED <<schema, line>>

(* restart: "no": the next `docker compose up` starts it again. *)
Again(m) ==
    /\ pc[m] = "dead"
    /\ Goto(m, "begun")
    /\ UNCHANGED <<schema, lock, line, tx, crashes>>

-----------------------------------------------------------------------------
Step(m) == Lock(m) \/ ReadRevision(m) \/ Execute(m) \/ Commit(m)

\* No transaction is at work; that nobody waits in vain is EveryMigratorEnds.
Idle ==
    /\ \A m \in Migrators : pc[m] \notin {"locked", "statements", "commit"}
    /\ UNCHANGED vars

Next ==
    \/ \E m \in Migrators : Step(m) \/ Crash(m) \/ Again(m)
    \/ Idle

\* A connection gets its answers; a lock that is free is granted.
Fairness == \A m \in Migrators : WF_vars(Step(m))

Spec == Init /\ [][Next]_vars
FairSpec == Spec /\ Fairness

-----------------------------------------------------------------------------
(* Properties *)

\* The revision 6077c87387ca is all there or not at all, at every moment and
\* after every crash: what the services find is never a part of a schema.
SchemaWhole ==
    \/ Revision \in schema /\ Objects \subseteq schema
    \/ Revision \notin schema /\ Objects \cap schema = {}

\* docker/entrypoint.sh:9-10, env.py:53-55: containers that migrate at once do
\* not fight; nobody fails on an object the other has made or left behind.
NoMigratorFails == \A m \in Migrators : ~Clashes(m)

\* docker-compose.yml, service_completed_successfully: a migrator ends with
\* success only when the database is at the revision it was told to reach.
SuccessMeansThere ==
    [][\A m \in Migrators :
          pc[m] # "done" /\ pc'[m] = "done" => (Revision \in schema' <=> CommandOf[m] = "upgrade")]_vars

\* env.py:55: the lock always comes back; every migrator ends.
EveryMigratorEnds == \A m \in Migrators : pc[m] = "begun" ~> pc[m] \in {"done", "dead"}

=============================================================================

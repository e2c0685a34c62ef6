-------------------------- MODULE MigrationsProofs --------------------------
(***************************************************************************)
(* Theorems about Migrations, for any number of migrators and crashes.     *)
(***************************************************************************)
EXTENDS Migrations, TLAPS

Working == {"locked", "statements", "commit"}

\* The lock is held by the one transaction at work; nobody else has changes.
LockInv ==
    \A m \in Migrators :
        /\ pc[m] \in Working => lock = m
        /\ pc[m] \notin Working => created[m] = {} /\ dropped[m] = {} /\ lock # m
        /\ pc[m] = "locked" => created[m] = {} /\ dropped[m] = {}

\* The objects of the first n - 1 statements of a script.
Through(script, n) == {script[i].on : i \in 1..(n - 1)}

\* How far the transaction at work is.
ProgressInv ==
    \A m \in Migrators :
        /\ pc[m] = "statements" /\ CommandOf[m] = "upgrade" =>
              /\ line[m] \in 1..7
              /\ Revision \notin schema
              /\ dropped[m] = {}
              /\ created[m] \ {VersionTable} = Through(Upgrade, line[m])
        /\ pc[m] = "statements" /\ CommandOf[m] = "downgrade" =>
              /\ line[m] \in 1..7
              /\ Revision \in schema
              /\ created[m] = {}
              /\ dropped[m] = Through(Downgrade, line[m])
        /\ pc[m] = "commit" =>
              /\ Revision \in Visible(m) <=> CommandOf[m] = "upgrade"
              /\ \/ Revision \in Visible(m) /\ Objects \subseteq Visible(m)
                 \/ Revision \notin Visible(m) /\ Objects \cap Visible(m) = {}

IInv == TypeOK /\ LockInv /\ ProgressInv /\ SchemaWhole

-----------------------------------------------------------------------------
(* Lemmas about the scripts *)

LEMMA UpgradeLines ==
    ASSUME NEW n \in 1..7
    PROVE  /\ Len(Upgrade) = 7
           /\ Upgrade[n].op = "create"
           /\ Upgrade[n].on \in Objects \cup {Revision}
           /\ Upgrade[n].on \notin Through(Upgrade, n)
           /\ Through(Upgrade, n + 1) = Through(Upgrade, n) \cup {Upgrade[n].on}
<1> DEFINE names == <<"outbox_messages", "ix_outbox_unpublished", "currency", "payment_status",
                      "payments", "ix_payments_status_created_at", Revision>>
<1>1. \A i \in 1..7 : Upgrade[i].on = names[i] /\ Upgrade[i].op = "create"
  BY DEF Upgrade
<1>2. \A i, j \in 1..7 : names[i] = names[j] => i = j
  BY DEF Revision
<1>3. Len(Upgrade) = 7
  BY DEF Upgrade
<1>4. \A i \in 1..7 : names[i] \in Objects \cup {Revision}
  BY DEF Objects
<1> QED
  BY <1>1, <1>2, <1>3, <1>4 DEF Through

LEMMA UpgradeAll == Through(Upgrade, 8) = Objects \cup {Revision}
BY DEF Through, Upgrade, Objects

LEMMA DowngradeLines ==
    ASSUME NEW n \in 1..7
    PROVE  /\ Len(Downgrade) = 7
           /\ Downgrade[n].op \in {"drop", "dropIfExists"}
           /\ Downgrade[n].on \in Objects \cup {Revision}
           /\ Downgrade[n].on \notin Through(Downgrade, n)
           /\ Through(Downgrade, n + 1) = Through(Downgrade, n) \cup {Downgrade[n].on}
<1> DEFINE names == <<"ix_payments_status_created_at", "payments", "ix_outbox_unpublished",
                      "outbox_messages", "payment_status", "currency", Revision>>
<1>1. \A i \in 1..7 : Downgrade[i].on = names[i] /\ Downgrade[i].op \in {"drop", "dropIfExists"}
  BY DEF Downgrade
<1>2. \A i, j \in 1..7 : names[i] = names[j] => i = j
  BY DEF Revision
<1>3. Len(Downgrade) = 7
  BY DEF Downgrade
<1>4. \A i \in 1..7 : names[i] \in Objects \cup {Revision}
  BY DEF Objects
<1> QED
  BY <1>1, <1>2, <1>3, <1>4 DEF Through

LEMMA DowngradeAll == Through(Downgrade, 8) = Objects \cup {Revision}
BY DEF Through, Downgrade, Objects

LEMMA ScriptNames == Revision \notin Objects /\ VersionTable \notin Objects \cup {Revision}
BY DEF Revision, VersionTable, Objects

-----------------------------------------------------------------------------
LEMMA InitIInv == Init => IInv
<1> SUFFICES ASSUME Init PROVE IInv
  OBVIOUS
<1>1. TypeOK
  BY CrashesAssumption DEF Init, TypeOK
<1>2. LockInv
  BY NoneAssumption DEF Init, LockInv, Working
<1>3. ProgressInv
  BY DEF Init, ProgressInv
<1>4. SchemaWhole
  BY DEF Init, SchemaWhole, Names
<1> QED
  BY <1>1, <1>2, <1>3, <1>4 DEF IInv

LEMMA NextCases ==
    ASSUME [Next]_vars
    PROVE  \/ \E m \in Migrators : \/ Lock(m) \/ ReadRevision(m) \/ Execute(m)
                                   \/ Commit(m) \/ Crash(m) \/ Again(m)
           \/ UNCHANGED vars
BY DEF Next, Step, Idle

\* The lock keeps everybody else out, so that no statement waits or fails.
LEMMA OnlyOneWorks ==
    ASSUME IInv, NEW m \in Migrators, NEW other \in Migrators, other # m, pc[m] \in Working
    PROVE  pc[other] \notin Working
BY DEF IInv, LockInv

LEMMA StatementsSucceed ==
    ASSUME IInv, NEW m \in Migrators
    PROVE  ~Clashes(m)
<1> SUFFICES ASSUME Clashes(m) PROVE FALSE
  OBVIOUS
<1>1. pc[m] = "statements"
  BY DEF Clashes
<1>2. CommandOf[m] \in {"upgrade", "downgrade"}
  BY MigratorsAssumption
<1>3. CASE CommandOf[m] = "upgrade"
  <2>1. /\ line[m] \in 1..7 /\ Revision \notin schema /\ dropped[m] = {}
        /\ created[m] \ {VersionTable} = Through(Upgrade, line[m])
    BY <1>1, <1>3 DEF IInv, ProgressInv
  <2>2. Objects \cap schema = {}
    BY <2>1 DEF IInv, SchemaWhole
  <2>3. Upgrade[line[m]].on \notin Visible(m) /\ Upgrade[line[m]].op = "create"
    BY <2>1, <2>2, UpgradeLines, ScriptNames DEF Visible
  <2> QED
    BY <1>3, <2>3 DEF Clashes, Script
<1>4. CASE CommandOf[m] = "downgrade"
  <2>1. /\ line[m] \in 1..7 /\ Revision \in schema /\ created[m] = {}
        /\ dropped[m] = Through(Downgrade, line[m])
    BY <1>1, <1>4 DEF IInv, ProgressInv
  <2>2. Objects \subseteq schema
    BY <2>1 DEF IInv, SchemaWhole
  <2>3. Downgrade[line[m]].on \in Visible(m) /\ Downgrade[line[m]].op # "create"
    BY <2>1, <2>2, DowngradeLines DEF Visible
  <2>4. CommandOf[m] # "upgrade"
    BY <1>4
  <2> QED
    BY <2>3, <2>4 DEF Clashes, Script
<1> QED
  BY <1>2, <1>3, <1>4

LEMMA LineStep ==
    ASSUME IInv, NEW m \in Migrators, Execute(m)
    PROVE  /\ line[m] \in 1..7
           /\ Len(Script(m)) = 7
           /\ Script(m)[line[m]].on \in Objects \cup {Revision}
           /\ CommandOf[m] = "upgrade" => Script(m) = Upgrade
           /\ CommandOf[m] # "upgrade" => CommandOf[m] = "downgrade" /\ Script(m) = Downgrade
<1>1. line[m] \in 1..7
  BY MigratorsAssumption DEF IInv, ProgressInv, Execute
<1> QED
  BY <1>1, MigratorsAssumption, UpgradeLines, DowngradeLines DEF Script

LEMMA TypeStep == IInv /\ [Next]_vars => TypeOK'
<1> SUFFICES ASSUME IInv, [Next]_vars PROVE TypeOK'
  OBVIOUS
<1> USE DEF IInv, TypeOK, Goto, tx
<1>1. ASSUME NEW m \in Migrators, Lock(m) PROVE TypeOK'
  BY <1>1 DEF Lock
<1>2. ASSUME NEW m \in Migrators, ReadRevision(m) PROVE TypeOK'
  BY <1>2 DEF ReadRevision, Names
<1>3. ASSUME NEW m \in Migrators, Execute(m) PROVE TypeOK'
  <2>1. line[m] + 1 \in 1..8 /\ Script(m)[line[m]].on \in Names
    BY <1>3, LineStep DEF Names
  <2> QED
    BY <1>3, <2>1 DEF Execute
<1>4. ASSUME NEW m \in Migrators, Commit(m) PROVE TypeOK'
  BY <1>4 DEF Commit, EndTransaction, Visible
<1>5. ASSUME NEW m \in Migrators, Crash(m) PROVE TypeOK'
  BY <1>5 DEF Crash, EndTransaction
<1>6. ASSUME NEW m \in Migrators, Again(m) PROVE TypeOK'
  BY <1>6 DEF Again
<1>7. CASE UNCHANGED vars
  BY <1>7 DEF vars
<1> QED
  BY <1>1, <1>2, <1>3, <1>4, <1>5, <1>6, <1>7, NextCases

LEMMA LockStep == IInv /\ [Next]_vars => LockInv'
<1> SUFFICES ASSUME IInv, [Next]_vars PROVE LockInv'
  OBVIOUS
<1> USE NoneAssumption DEF IInv, TypeOK, LockInv, Working, Goto, tx
<1>1. ASSUME NEW m \in Migrators, Lock(m) PROVE LockInv'
  BY <1>1 DEF Lock
<1>2. ASSUME NEW m \in Migrators, ReadRevision(m) PROVE LockInv'
  BY <1>2 DEF ReadRevision
<1>3. ASSUME NEW m \in Migrators, Execute(m) PROVE LockInv'
  BY <1>3 DEF Execute
<1>4. ASSUME NEW m \in Migrators, Commit(m) PROVE LockInv'
  BY <1>4 DEF Commit, EndTransaction
<1>5. ASSUME NEW m \in Migrators, Crash(m) PROVE LockInv'
  BY <1>5 DEF Crash, EndTransaction
<1>6. ASSUME NEW m \in Migrators, Again(m) PROVE LockInv'
  BY <1>6 DEF Again
<1>7. CASE UNCHANGED vars
  BY <1>7 DEF vars
<1> QED
  BY <1>1, <1>2, <1>3, <1>4, <1>5, <1>6, <1>7, NextCases

\* What a commit installs.
LEMMA SchemaStep == IInv /\ [Next]_vars => SchemaWhole'
<1> SUFFICES ASSUME IInv, [Next]_vars PROVE SchemaWhole'
  OBVIOUS
<1>1. ASSUME NEW m \in Migrators, Commit(m) PROVE SchemaWhole'
  BY <1>1 DEF IInv, TypeOK, ProgressInv, SchemaWhole, Commit, Goto
<1>2. ASSUME NEW m \in Migrators,
             Lock(m) \/ ReadRevision(m) \/ Execute(m) \/ Crash(m) \/ Again(m)
      PROVE  SchemaWhole'
  BY <1>2 DEF IInv, TypeOK, SchemaWhole, Lock, ReadRevision, Execute, Crash, Again, Goto
<1>3. CASE UNCHANGED vars
  BY <1>3 DEF IInv, SchemaWhole, vars
<1> QED
  BY <1>1, <1>2, <1>3, NextCases

LEMMA ProgressStep == IInv /\ [Next]_vars => ProgressInv'
<1> SUFFICES ASSUME IInv, [Next]_vars PROVE ProgressInv'
  OBVIOUS
<1> DEFINE
      P(m) == /\ pc[m] = "statements" /\ CommandOf[m] = "upgrade" =>
                   /\ line[m] \in 1..7
                   /\ Revision \notin schema
                   /\ dropped[m] = {}
                   /\ created[m] \ {VersionTable} = Through(Upgrade, line[m])
              /\ pc[m] = "statements" /\ CommandOf[m] = "downgrade" =>
                   /\ line[m] \in 1..7
                   /\ Revision \in schema
                   /\ created[m] = {}
                   /\ dropped[m] = Through(Downgrade, line[m])
              /\ pc[m] = "commit" =>
                   /\ Revision \in Visible(m) <=> CommandOf[m] = "upgrade"
                   /\ \/ Revision \in Visible(m) /\ Objects \subseteq Visible(m)
                      \/ Revision \notin Visible(m) /\ Objects \cap Visible(m) = {}
<1>0. TypeOK /\ ProgressInv /\ SchemaWhole /\ LockInv
  BY DEF IInv
\* A migrator that does not work is not concerned.
<1>1. ASSUME NEW m \in Migrators, pc'[m] \notin {"statements", "commit"} PROVE P(m)'
  BY <1>1
<1>2. ASSUME NEW m \in Migrators, pc'[m] = pc[m], line'[m] = line[m], created'[m] = created[m],
             dropped'[m] = dropped[m], schema' = schema
      PROVE  P(m)'
  BY <1>0, <1>2 DEF ProgressInv, Visible
<1>3. ASSUME NEW m \in Migrators, ReadRevision(m) PROVE P(m)'
  <2>1. /\ created[m] = {} /\ dropped[m] = {} /\ Visible(m) = schema
        /\ line'[m] = 1 /\ dropped'[m] = {} /\ schema' = schema
        /\ CommandOf[m] \in {"upgrade", "downgrade"}
    BY <1>0, <1>3, MigratorsAssumption DEF ReadRevision, LockInv, Visible, TypeOK
  <2>2. Through(Upgrade, 1) = {} /\ Through(Downgrade, 1) = {}
    BY DEF Through
  <2>3. CASE Revision \in schema
    <3>1. created'[m] = {} /\ pc'[m] = IF CommandOf[m] = "upgrade" THEN "commit" ELSE "statements"
      BY <1>0, <1>3, <2>1, <2>3 DEF ReadRevision, Goto, TypeOK
    <3>2. Visible(m)' = schema /\ Objects \subseteq schema
      BY <1>0, <2>1, <2>3, <3>1 DEF Visible, SchemaWhole
    <3> QED
      BY <2>1, <2>2, <2>3, <3>1, <3>2
  <2>4. CASE Revision \notin schema
    <3>1. /\ created'[m] \subseteq {VersionTable}
          /\ pc'[m] = IF CommandOf[m] = "upgrade" THEN "statements" ELSE "commit"
      BY <1>0, <1>3, <2>1, <2>4 DEF ReadRevision, Goto, TypeOK
    <3>2. Visible(m)' \subseteq schema \cup {VersionTable} /\ Objects \cap schema = {}
      BY <1>0, <2>1, <2>4, <3>1 DEF Visible, SchemaWhole
    <3>3. Revision \notin Visible(m)' /\ Objects \cap Visible(m)' = {}
      BY <2>4, <3>2, ScriptNames
    <3>4. created'[m] \ {VersionTable} = {}
      BY <3>1
    <3> QED
      BY <2>1, <2>2, <2>4, <3>1, <3>3, <3>4
  <2> QED
    BY <2>3, <2>4
<1>4. ASSUME NEW m \in Migrators, Execute(m), CommandOf[m] = "upgrade" PROVE P(m)'
  <2>1. /\ pc[m] = "statements" /\ line[m] \in 1..7 /\ Revision \notin schema /\ dropped[m] = {}
        /\ created[m] \ {VersionTable} = Through(Upgrade, line[m])
    BY <1>0, <1>4 DEF Execute, ProgressInv
  <2>2. Script(m) = Upgrade /\ Len(Upgrade) = 7 /\ Upgrade[line[m]].op = "create"
        /\ Upgrade[line[m]].on \in Objects \cup {Revision}
        /\ Through(Upgrade, line[m] + 1) = Through(Upgrade, line[m]) \cup {Upgrade[line[m]].on}
    BY <1>4, <2>1, UpgradeLines DEF Script
  <2>3. /\ created'[m] = created[m] \cup {Upgrade[line[m]].on} /\ dropped'[m] = {}
        /\ line'[m] = line[m] + 1 /\ schema' = schema
        /\ pc'[m] = IF line[m] = 7 THEN "commit" ELSE "statements"
    BY <1>0, <1>4, <2>1, <2>2 DEF Execute, Goto, TypeOK
  <2>4. created'[m] \ {VersionTable} = Through(Upgrade, line'[m])
    BY <2>1, <2>2, <2>3, ScriptNames
  <2>5. CASE line[m] = 7
    <3>1. created'[m] \ {VersionTable} = Objects \cup {Revision}
      BY <2>3, <2>4, <2>5, UpgradeAll
    <3>2. Objects \subseteq Visible(m)' /\ Revision \in Visible(m)'
      BY <3>1 DEF Visible
    <3> QED
      BY <1>4, <2>3, <2>5, <3>2
  <2>6. CASE line[m] # 7
    BY <1>4, <2>1, <2>3, <2>4, <2>6
  <2> QED
    BY <2>5, <2>6
<1>5. ASSUME NEW m \in Migrators, Execute(m), CommandOf[m] = "downgrade" PROVE P(m)'
  <2>0. CommandOf[m] # "upgrade"
    BY <1>5
  <2>1. /\ pc[m] = "statements" /\ line[m] \in 1..7 /\ Revision \in schema /\ created[m] = {}
        /\ dropped[m] = Through(Downgrade, line[m])
    BY <1>0, <1>5 DEF Execute, ProgressInv
  <2>2. Script(m) = Downgrade /\ Len(Downgrade) = 7 /\ Downgrade[line[m]].op # "create"
        /\ Through(Downgrade, line[m] + 1) = Through(Downgrade, line[m]) \cup {Downgrade[line[m]].on}
    BY <2>0, <2>1, DowngradeLines DEF Script
  <2>3. /\ dropped'[m] = dropped[m] \cup {Downgrade[line[m]].on} /\ created'[m] = {}
        /\ line'[m] = line[m] + 1 /\ schema' = schema
        /\ pc'[m] = IF line[m] = 7 THEN "commit" ELSE "statements"
    BY <1>0, <1>5, <2>1, <2>2 DEF Execute, Goto, TypeOK
  <2>4. dropped'[m] = Through(Downgrade, line'[m])
    BY <2>1, <2>2, <2>3
  <2>5. CASE line[m] = 7
    <3>1. dropped'[m] = Objects \cup {Revision}
      BY <2>3, <2>4, <2>5, DowngradeAll
    <3>2. Objects \cap Visible(m)' = {} /\ Revision \notin Visible(m)'
      BY <2>3, <3>1 DEF Visible
    <3> QED
      BY <2>0, <2>3, <2>5, <3>2
  <2>6. CASE line[m] # 7
    BY <2>0, <2>1, <2>3, <2>4, <2>6
  <2> QED
    BY <2>5, <2>6
<1>6. ASSUME NEW m \in Migrators, NEW other \in Migrators, other # m,
             ReadRevision(m) \/ Execute(m) \/ Commit(m)
      PROVE  P(other)'
  <2>1. pc[other] \notin Working /\ pc'[other] = pc[other]
    BY <1>0, <1>6, OnlyOneWorks DEF ReadRevision, Execute, Commit, Goto, Working, TypeOK
  <2> QED
    BY <1>1, <2>1 DEF Working
<1>7. ASSUME NEW m \in Migrators, Lock(m) \/ Commit(m) \/ Crash(m) \/ Again(m) PROVE P(m)'
  BY <1>0, <1>1, <1>7 DEF Lock, Commit, Crash, Again, Goto, TypeOK
<1>8. ASSUME NEW m \in Migrators, NEW other \in Migrators, other # m, Lock(m) \/ Crash(m) \/ Again(m)
      PROVE  P(other)'
  BY <1>0, <1>2, <1>8 DEF Lock, Crash, Again, EndTransaction, Goto, TypeOK, tx
<1>9. CASE UNCHANGED vars
  BY <1>0, <1>9 DEF ProgressInv, vars, tx, Visible
<1>10. ASSUME NEW m \in Migrators,
              Lock(m) \/ ReadRevision(m) \/ Execute(m) \/ Commit(m) \/ Crash(m) \/ Again(m),
              NEW other \in Migrators
       PROVE  P(other)'
  BY <1>3, <1>4, <1>5, <1>6, <1>7, <1>8, <1>10, MigratorsAssumption
<1> QED
  BY <1>9, <1>10, NextCases DEF ProgressInv

LEMMA Invariance == Spec => []IInv
<1>1. IInv /\ [Next]_vars => IInv'
  BY TypeStep, LockStep, ProgressStep, SchemaStep DEF IInv
<1> QED
  BY <1>1, InitIInv, PTL DEF Spec

-----------------------------------------------------------------------------
\* Schema, lock and transactions keep their types.
THEOREM TypeCorrect == Spec => []TypeOK
<1>1. IInv => TypeOK
  BY DEF IInv
<1> QED
  BY <1>1, Invariance, PTL

\* env.py:52-59: the schema is whole at every moment, whatever crashes.
THEOREM SchemaIsWhole == Spec => []SchemaWhole
<1>1. IInv => SchemaWhole
  BY DEF IInv
<1> QED
  BY <1>1, Invariance, PTL

\* docker/entrypoint.sh:9-10: any number of containers may migrate at once.
THEOREM ConcurrentMigrationIsSafe == Spec => []NoMigratorFails
<1>1. IInv => NoMigratorFails
  BY StatementsSucceed DEF NoMigratorFails
<1> QED
  BY <1>1, Invariance, PTL

\* docker-compose.yml, service_completed_successfully: success means that the
\* database is at the revision asked for.
THEOREM SuccessIsTrue == Spec => SuccessMeansThere
<1>1. IInv /\ [Next]_vars =>
        [\A m \in Migrators :
           pc[m] # "done" /\ pc'[m] = "done" => (Revision \in schema' <=> CommandOf[m] = "upgrade")]_vars
  <2> SUFFICES ASSUME IInv, [Next]_vars, NEW m \in Migrators, pc[m] # "done", pc'[m] = "done"
               PROVE  Revision \in schema' <=> CommandOf[m] = "upgrade"
    OBVIOUS
  <2>1. Commit(m)
    BY NextCases DEF Lock, ReadRevision, Execute, Commit, Crash, Again, Goto, vars, IInv, TypeOK
  <2> QED
    BY <2>1 DEF Commit, IInv, ProgressInv
<1> QED
  BY <1>1, Invariance, PTL DEF Spec, SuccessMeansThere

=============================================================================

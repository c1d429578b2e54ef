------------------------- MODULE ImmichRestore_proofs ------------------------
(***************************************************************************)
(* Proofs about the restore of Immich, for any originals and any places,   *)
(* any sample, any majors of PostgreSQL and any number of changes.         *)
(***************************************************************************)
EXTENDS ImmichRestore, TLAPS

(* A fresh directory holds nothing, and nothing works on it.                 *)
FreshIsOff ==
  Fresh => database.tables = "none" /\ data = "stopped" /\ dumping = NoBackup

(* A database that was found fresh beside originals and has no tables yet is *)
(* one whose application is stopped and whose restore is marked as failed,   *)
(* unless the operator cleared the marker over it.                           *)
NoTablesNoServer ==
  database.beside /\ ~database.cleared /\ database.tables = "none" /\ ~Fresh =>
    server = "stopped" /\ marker

(* What was moved aside and kept has tables.                                 *)
AsideHasTables == aside.major # 0 => aside.tables # "none"

(* The steps of a restore, and of a converge that does not restore.          *)
RoleStands ==
  /\ converge.at \in {"stop", "mark", "load", "verify", "started"} => converge.restore
  /\ converge.restore /\ converge.at \in {"stop", "mark", "data"} => Fresh
  /\ converge.restore /\ converge.at \in {"mark", "data", "load", "verify", "probe"}
       => server = "stopped"
  /\ converge.restore /\ converge.at \in {"data", "load", "verify", "probe", "started"}
       => marker
  /\ converge.restore /\ converge.at \in {"stop", "mark", "data", "load", "verify", "probe"}
       => dumping = NoBackup
  /\ converge.at = "load" => ~Fresh /\ database.tables = "none"
  /\ converge.restore /\ converge.at \in {"verify", "probe", "started"}
       => ~Fresh /\ database.tables # "none"
  /\ ~converge.restore /\ converge.at # "idle" => ~marker
  /\ ~converge.restore /\ converge.at = "data" /\ Fresh => ~database.beside

(* What is said to be right about a backup is, while nothing moved.          *)
RightIsRight ==
  backup # NoBackup /\ ~backup.stale => backup.right = Right(backup.rows)

(* The backup that is being restored names originals at their place, but for *)
(* those moved since and those it never had right.                           *)
BackupStands ==
  converge.restore /\ converge.at # "idle" =>
    /\ backup # NoBackup
    /\ converge.at # "started" => \A a \in backup.right \ touched : backup.rows[a] = disk[a]
    /\ converge.at \in {"verify", "probe"} => database.rows = backup.rows

(* A row that is wrong after the verification is one the backup never had    *)
(* right, and no later backup gets it right either.                          *)
RowsStand ==
  converge.restore /\ converge.at \in {"probe", "started"} =>
    \A a \in Asset \ touched :
      database.rows[a] \notin {Nowhere, disk[a]} =>
        /\ a \notin Sampled /\ a \notin backup.right /\ backup.rows[a] # disk[a]
        /\ dumping # NoBackup => dumping[a] # disk[a]

RestoreInv ==
  /\ RestoreTypeOK /\ FreshIsOff /\ NoTablesNoServer /\ AsideHasTables /\ RoleStands
  /\ RightIsRight /\ BackupStands /\ RowsStand

-----------------------------------------------------------------------------
(* A fresh directory, and what the steps make of one that is there.          *)
LEMMA NothingIsCluster ==
  /\ Nothing \in Clusters /\ Nothing.major = 0 /\ Nothing.tables = "none"
  /\ ~Nothing.beside /\ ~Nothing.cleared
  BY DEF Nothing, Cluster, Clusters, NoRows, Rows

LEMMA ClusterNoted ==
  ASSUME NEW c \in Clusters, NEW value \in BOOLEAN, NEW m \in Major
  PROVE  /\ [c EXCEPT !.beside = value] \in Clusters /\ [c EXCEPT !.cleared = value] \in Clusters
         /\ [c EXCEPT !.major = m] \in Clusters
         /\ [c EXCEPT !.tables = "immich"] \in Clusters
  BY DEF Clusters

LEMMA RestoreInvInit ==
  ASSUME RestoreConstants, RestoreInit
  PROVE  RestoreInv
<1>1. pin \in Major /\ pin # 0 /\ 0 \in 0 .. MaxChanges /\ disk \in Rows
  BY DEF RestoreConstants, RestoreInit, Rows
<1>2. /\ database \in Clusters /\ aside \in Clusters
      /\ database.major # 0 /\ database.tables = "immich"
  BY <1>1, NothingIsCluster DEF RestoreInit, Cluster, Clusters
<1>3. converge \in [at : {"idle", "stop", "mark", "data", "load", "verify", "probe",
                         "started"}, restore : BOOLEAN]
      /\ converge.at = "idle" /\ ~converge.restore
  BY DEF RestoreInit
<1>4. RestoreTypeOK
  BY <1>1, <1>2, <1>3 DEF RestoreInit, RestoreTypeOK
<1>5. RightIsRight /\ BackupStands /\ RowsStand
  BY <1>3 DEF RestoreInit, RightIsRight, BackupStands, RowsStand
<1>6. FreshIsOff /\ NoTablesNoServer /\ AsideHasTables /\ RoleStands
  BY <1>2, <1>3 DEF RestoreInit, FreshIsOff, Fresh, NoTablesNoServer, AsideHasTables, Nothing,
     Cluster, RoleStands
<1> QED BY <1>4, <1>5, <1>6 DEF RestoreInv

(* A backup stays one, whatever is noted about it.                           *)
LEMMA BackupNoted ==
  ASSUME RestoreConstants, NEW b \in Backups, NEW value \in BOOLEAN
  PROVE  /\ [b EXCEPT !.stale = value] \in Backups /\ [b EXCEPT !.version = value] \in Backups
         /\ [b EXCEPT !.stale = value] # NoBackup /\ [b EXCEPT !.version = value] # NoBackup
  BY DEF RestoreConstants, Backups

LEMMA StaleOf ==
  ASSUME RestoreConstants, NEW b \in Backups \cup {NoBackup}
  PROVE  /\ Stale(b) \in Backups \cup {NoBackup}
         /\ b = NoBackup <=> Stale(b) = NoBackup
         /\ b # NoBackup => /\ Stale(b).stale /\ Stale(b).rows = b.rows
                            /\ Stale(b).right = b.right
  BY DEF RestoreConstants, Backups, Stale

-----------------------------------------------------------------------------
(* Originals move.                                                           *)
LEMMA MoveKeeps ==
  ASSUME RestoreConstants, RestoreInv, NEW a \in Asset, NEW p \in Place \cup {Nowhere},
         MoveByImmich(a, p) \/ MovePastImmich(a, p)
  PROVE  RestoreInv'
<1> USE DEF RestoreInv, RestoreTypeOK, AsideHasTables
<1>1. /\ backup' = Stale(backup) /\ disk' = [disk EXCEPT ![a] = p] /\ disk' \in Rows
      /\ UNCHANGED <<pin, readable, server, data, dumping, marker, converge, aside>>
      /\ changes' \in 0 .. MaxChanges /\ touched' \subseteq Asset
  BY DEF MoveByImmich, MovePastImmich, Changes, Rows, RestoreConstants
<1>2. /\ backup' \in Backups \cup {NoBackup} /\ (backup = NoBackup <=> backup' = NoBackup)
      /\ backup # NoBackup => /\ backup'.stale /\ backup'.rows = backup.rows
                              /\ backup'.right = backup.right
  BY <1>1, StaleOf
<1>3. RightIsRight'
  BY <1>2 DEF RightIsRight
<1>4. CASE MovePastImmich(a, p)
  <2>1. touched' = touched \cup {a} /\ UNCHANGED database
    BY <1>4 DEF MovePastImmich
  <2>2. \A b \in Asset \ touched' : disk'[b] = disk[b]
    BY <1>1, <2>1 DEF Rows
  <2>3. BackupStands'
    BY <1>1, <1>2, <2>1, <2>2 DEF BackupStands, Backups
  <2>4. RowsStand'
    BY <1>1, <1>2, <2>1, <2>2 DEF RowsStand, BackupStands
  <2> QED BY <1>1, <1>2, <1>3, <2>1, <2>3, <2>4 DEF FreshIsOff, Fresh, NoTablesNoServer,
       RoleStands
<1>5. CASE MoveByImmich(a, p)
  <2>1. /\ Serves /\ database' = [database EXCEPT !.rows[a] = p] /\ UNCHANGED touched
    BY <1>5 DEF MoveByImmich
  <2>2. /\ database'.major = database.major /\ database'.tables = database.tables
        /\ database'.rows = [database.rows EXCEPT ![a] = p]
        /\ database' \in Clusters
    BY <2>1 DEF Rows, Clusters
  <2>3. /\ disk'[a] = p /\ database'.rows[a] = p
        /\ \A b \in Asset \ {a} : disk'[b] = disk[b] /\ database'.rows[b] = database.rows[b]
    BY <1>1, <2>2 DEF Rows, Clusters
  <2>4. ~Fresh /\ database.tables # "none" /\ server = "up"
    BY <2>1 DEF Serves, FreshIsOff
  <2>5. converge.restore => converge.at \in {"idle", "started"}
    BY <2>4 DEF RoleStands, Fresh
  <2>6. BackupStands'
    BY <1>1, <1>2, <2>5 DEF BackupStands
  <2>7. RowsStand'
    BY <1>1, <1>2, <2>1, <2>3, <2>5 DEF RowsStand, BackupStands
  <2> QED BY <1>1, <1>2, <1>3, <2>1, <2>2, <2>4, <2>6, <2>7 DEF FreshIsOff, Fresh,
       NoTablesNoServer, RoleStands
<1> QED BY <1>4, <1>5

-----------------------------------------------------------------------------
(* Backups are written, touched and made useless by another pin.             *)
LEMMA StartDumpKeeps ==
  ASSUME RestoreConstants, RestoreInv, StartDump
  PROVE  RestoreInv'
<1> USE DEF RestoreInv, RestoreTypeOK, AsideHasTables
<1>1. /\ Serves /\ dumping' = database.rows /\ changes' \in 0 .. MaxChanges
      /\ UNCHANGED <<disk, database, pin, readable, server, data, backup, marker,
                     converge, aside, touched>>
  BY DEF StartDump, Changes, RestoreConstants
<1>2. ~Fresh /\ database.tables # "none" /\ server = "up" /\ dumping' \in Rows
  BY <1>1 DEF Serves, FreshIsOff, Clusters
<1>3. converge.restore => converge.at \in {"idle", "started"}
  BY <1>2 DEF RoleStands, Fresh
<1>4. RowsStand'
  BY <1>1 DEF RowsStand
<1>5. RightIsRight' /\ BackupStands'
  BY <1>1 DEF RightIsRight, BackupStands, Right
<1> QED BY <1>1, <1>2, <1>3, <1>4, <1>5 DEF FreshIsOff, Fresh, NoTablesNoServer, RoleStands

LEMMA FinishDumpKeeps ==
  ASSUME RestoreConstants, RestoreInv, NEW usable \in BOOLEAN, FinishDump(usable)
  PROVE  RestoreInv'
<1> USE DEF RestoreInv, RestoreTypeOK, AsideHasTables
<1>1. /\ dumping # NoBackup /\ dumping \in Rows /\ dumping' = NoBackup
      /\ backup' = [rows |-> dumping, major |-> database.major, version |-> TRUE,
                    usable |-> usable, stale |-> FALSE, right |-> Right(dumping)]
      /\ UNCHANGED <<disk, database, pin, readable, server, data, marker, converge,
                     aside, touched, changes>>
  BY DEF FinishDump
<1>2. ~Fresh /\ database.major \in Major
  BY <1>1 DEF FreshIsOff, Fresh, Clusters
<1>3. backup' \in Backups
  <2>1. Right(dumping) \subseteq Asset
    BY DEF Right
  <2> QED BY <1>1, <1>2, <2>1 DEF Backups
<1>9. backup' # NoBackup
  BY <1>3 DEF RestoreConstants
<1>4. converge.restore => converge.at \in {"idle", "started"}
  BY <1>1 DEF RoleStands
<1>5. RightIsRight'
  BY <1>1 DEF RightIsRight, Right
<1>6. BackupStands'
  BY <1>1, <1>4, <1>9 DEF BackupStands
<1>7. RowsStand'
  BY <1>1 DEF RowsStand, Right
<1> QED BY <1>1, <1>2, <1>3, <1>5, <1>6, <1>7 DEF FreshIsOff, Fresh, NoTablesNoServer,
     RoleStands

LEMMA TouchBackupKeeps ==
  ASSUME RestoreConstants, RestoreInv, TouchBackup
  PROVE  RestoreInv'
<1> USE DEF RestoreInv, RestoreTypeOK, AsideHasTables
<1>1. /\ backup \in Backups /\ backup # NoBackup /\ changes' \in 0 .. MaxChanges
      /\ backup' = [backup EXCEPT !.stale = FALSE, !.right = Right(backup.rows)]
      /\ UNCHANGED <<disk, database, pin, readable, server, data, dumping, marker,
                     converge, aside, touched>>
  BY DEF TouchBackup, Changes, RestoreConstants
<1>2. /\ backup' \in Backups /\ backup' # NoBackup /\ backup'.rows = backup.rows
      /\ backup'.right = Right(backup.rows)
  <2> DEFINE noted == [backup EXCEPT !.stale = FALSE]
  <2>1. noted \in Backups /\ noted.rows = backup.rows
    BY <1>1, BackupNoted DEF Backups
  <2>2. backup' = [noted EXCEPT !.right = Right(backup.rows)]
    BY <1>1 DEF Backups
  <2>3. Right(backup.rows) \subseteq Asset
    BY DEF Right
  <2> HIDE DEF noted
  <2>4. backup' \in Backups /\ backup'.rows = backup.rows /\ backup'.right = Right(backup.rows)
    BY <2>1, <2>2, <2>3 DEF Backups
  <2> QED BY <2>4 DEF RestoreConstants
<1>3. RightIsRight'
  BY <1>1, <1>2 DEF RightIsRight, Right
<1>4. BackupStands'
  BY <1>1, <1>2 DEF BackupStands, Right
<1>5. RowsStand'
  BY <1>1, <1>2 DEF RowsStand, Right
<1> QED BY <1>1, <1>2, <1>3, <1>4, <1>5 DEF FreshIsOff, Fresh, NoTablesNoServer, RoleStands

LEMMA RepinKeeps ==
  ASSUME RestoreConstants, RestoreInv, NEW m \in Major, Repin(m)
  PROVE  RestoreInv'
<1> USE DEF RestoreInv, RestoreTypeOK, AsideHasTables
<1>1. /\ converge.at = "idle" /\ pin' = m /\ changes' \in 0 .. MaxChanges
      /\ UNCHANGED <<disk, database, readable, server, data, dumping, marker, converge,
                     aside, touched>>
  BY DEF Repin, Changes, RestoreConstants
<1>2. \/ backup' = backup
      \/ backup # NoBackup /\ backup' = [backup EXCEPT !.version = FALSE]
  BY DEF Repin
<1>3. /\ backup' \in Backups \cup {NoBackup} /\ (backup = NoBackup <=> backup' = NoBackup)
      /\ backup # NoBackup => /\ backup'.rows = backup.rows /\ backup'.right = backup.right
                              /\ backup'.stale = backup.stale
  <2>1. CASE backup' = backup
    BY <2>1
  <2>2. CASE backup # NoBackup /\ backup' = [backup EXCEPT !.version = FALSE]
    <3>1. backup \in Backups
      BY <2>2
    <3>2. backup' \in Backups /\ backup' # NoBackup
      BY <2>2, <3>1, BackupNoted
    <3>3. /\ backup'.rows = backup.rows /\ backup'.right = backup.right
          /\ backup'.stale = backup.stale
      BY <2>2, <3>1 DEF Backups
    <3> QED BY <2>2, <3>2, <3>3
  <2> QED BY <1>2, <2>1, <2>2
<1>4. RightIsRight'
  BY <1>1, <1>3 DEF RightIsRight, Right
<1> QED BY <1>1, <1>3, <1>4 DEF FreshIsOff, Fresh, NoTablesNoServer, RoleStands, BackupStands,
     RowsStand

-----------------------------------------------------------------------------
(* The operator, and Immich's own tables.                                    *)
(* No converge is at work, and the directory in use is one that is fresh, or *)
(* one that has tables.                                                      *)
LEMMA DirectoryMoved ==
  ASSUME RestoreConstants, RestoreInv, converge.at = "idle",
         database' \in Clusters, aside' \in Clusters,
         database'.major = 0 => database'.tables = "none",
         database'.major # 0 => database'.tables # "none",
         aside'.major # 0 => aside'.tables # "none",
         server' \in {"up", "stopped"}, data' = "stopped", dumping' = NoBackup,
         changes' \in 0 .. MaxChanges,
         UNCHANGED <<disk, pin, readable, backup, marker, converge, touched>>
  PROVE  RestoreInv'
<1> USE DEF RestoreInv
<1>1. RestoreTypeOK'
  BY DEF RestoreTypeOK
<1>2. FreshIsOff' /\ NoTablesNoServer' /\ AsideHasTables' /\ RoleStands'
  BY DEF RestoreTypeOK, FreshIsOff, Fresh, NoTablesNoServer, AsideHasTables, RoleStands
<1>3. RightIsRight' /\ BackupStands' /\ RowsStand'
  BY DEF RightIsRight, BackupStands, RowsStand, Right
<1> QED BY <1>1, <1>2, <1>3

LEMMA LoseDatabaseKeeps ==
  ASSUME RestoreConstants, RestoreInv, NEW left \in {"up", "stopped"}, LoseDatabase(left)
  PROVE  RestoreInv'
<1>1. changes' \in 0 .. MaxChanges /\ aside \in Clusters /\ AsideHasTables
  BY DEF LoseDatabase, Changes, RestoreConstants, RestoreInv, RestoreTypeOK
<1> QED BY <1>1, NothingIsCluster, DirectoryMoved DEF LoseDatabase, AsideHasTables

LEMMA MoveAsideKeeps ==
  ASSUME RestoreConstants, RestoreInv, MoveAside
  PROVE  RestoreInv'
<1>1. changes' \in 0 .. MaxChanges
  BY DEF MoveAside, Changes, RestoreConstants, RestoreInv, RestoreTypeOK
<1>2. aside' \in Clusters /\ (aside'.major # 0 => aside'.tables # "none")
  BY DEF MoveAside, RestoreInv, RestoreTypeOK, AsideHasTables
<1> QED BY <1>1, <1>2, NothingIsCluster, DirectoryMoved DEF MoveAside, StopStack

LEMMA SwapBackKeeps ==
  ASSUME RestoreConstants, RestoreInv, SwapBack
  PROVE  RestoreInv'
<1>1. changes' \in 0 .. MaxChanges
  BY DEF SwapBack, Changes, RestoreConstants, RestoreInv, RestoreTypeOK
<1>2. database' \in Clusters /\ database'.major # 0 /\ database'.tables # "none"
  BY DEF SwapBack, RestoreInv, RestoreTypeOK, AsideHasTables
<1> QED BY <1>1, <1>2, NothingIsCluster, DirectoryMoved DEF SwapBack, StopStack

(* The operator may clear the marker over any directory: the directory says  *)
(* so from then on.                                                          *)
LEMMA ClearMarkerKeeps ==
  ASSUME RestoreConstants, RestoreInv, ClearMarker
  PROVE  RestoreInv'
<1> USE DEF RestoreInv, RestoreTypeOK, AsideHasTables
<1>1. /\ converge.at = "idle" /\ marker' = FALSE
      /\ database' = [database EXCEPT !.cleared = ~Fresh]
      /\ UNCHANGED <<disk, pin, readable, server, data, dumping, backup, converge, aside,
                     touched, changes>>
  BY DEF ClearMarker
<1>2. /\ database' \in Clusters
      /\ database'.major = database.major /\ database'.tables = database.tables
      /\ database'.cleared = ~Fresh
  BY <1>1, ClusterNoted DEF Fresh, Clusters
<1>3. FreshIsOff' /\ NoTablesNoServer' /\ AsideHasTables' /\ RoleStands'
  BY <1>1, <1>2 DEF FreshIsOff, Fresh, NoTablesNoServer, AsideHasTables, RoleStands
<1>4. RightIsRight' /\ BackupStands' /\ RowsStand'
  BY <1>1 DEF RightIsRight, BackupStands, RowsStand, Right
<1> QED BY <1>1, <1>2, <1>3, <1>4

LEMMA MigrateKeeps ==
  ASSUME RestoreConstants, RestoreInv, Migrate
  PROVE  RestoreInv' /\ (~database.beside \/ database.cleared)
<1> USE DEF RestoreInv, RestoreTypeOK, AsideHasTables
<1>1. /\ server = "up" /\ data = "up" /\ database.tables = "none"
      /\ database' = [database EXCEPT !.tables = "immich"]
      /\ UNCHANGED <<disk, pin, readable, server, data, dumping, backup, marker,
                     converge, aside, touched, changes>>
  BY DEF Migrate
<1>2. /\ database' \in Clusters
      /\ database'.major = database.major /\ database'.tables = "immich"
      /\ database'.rows = database.rows
  BY <1>1 DEF Clusters
<1>3. ~Fresh /\ (~database.beside \/ database.cleared)
  BY <1>1 DEF FreshIsOff, NoTablesNoServer
<1>4. ~(converge.restore /\ converge.at \in {"stop", "mark", "data", "load", "verify",
                                             "probe", "started"})
  BY <1>1, <1>3 DEF RoleStands
<1>5. RightIsRight' /\ BackupStands' /\ RowsStand'
  BY <1>1, <1>2, <1>4 DEF RightIsRight, BackupStands, RowsStand, Right
<1>6. FreshIsOff' /\ NoTablesNoServer' /\ AsideHasTables' /\ RoleStands'
  BY <1>1, <1>2, <1>3, <1>4 DEF FreshIsOff, Fresh, NoTablesNoServer, RoleStands
<1> QED BY <1>1, <1>2, <1>3, <1>5, <1>6

-----------------------------------------------------------------------------
(* The classification.                                                       *)
LEMMA ClassifyKeeps ==
  ASSUME RestoreConstants, RestoreInv, Classify
  PROVE  RestoreInv'
<1> USE DEF RestoreInv, RestoreTypeOK, AsideHasTables
<1>1. /\ converge.at = "idle" /\ Accepted /\ touched' = {}
      /\ converge' = [at |-> IF RestoreRequired THEN "stop" ELSE "data",
                      restore |-> RestoreRequired]
      /\ database' = (IF Fresh THEN [database EXCEPT !.beside = Present] ELSE database)
      /\ UNCHANGED <<disk, pin, readable, server, data, dumping, backup, marker, aside,
                     changes>>
  BY DEF Classify
<1>2. RestoreRequired \in BOOLEAN /\ Present \in BOOLEAN /\ (RestoreRequired <=> Fresh /\ Present)
  BY DEF RestoreRequired, Present, Fresh
<1>6. /\ database' \in Clusters /\ database'.major = database.major
      /\ database'.tables = database.tables /\ database'.rows = database.rows
      /\ Fresh => (database'.beside <=> Present)
      /\ ~Fresh => database' = database
  BY <1>1, <1>2 DEF Clusters
<1>3. RestoreTypeOK'
  BY <1>1, <1>2, <1>6
<1>4. CASE RestoreRequired
  <2>1. converge'.at = "stop" /\ converge'.restore /\ Fresh
    BY <1>1, <1>2, <1>4
  <2>2. backup # NoBackup /\ ~backup.stale
    BY <1>1, <1>4 DEF Accepted, Selected, ChangedSince
  <2>3. BackupStands'
    BY <1>1, <2>1, <2>2 DEF BackupStands, RightIsRight, Right
  <2>4. RoleStands'
    BY <1>1, <1>6, <2>1 DEF RoleStands, FreshIsOff, Fresh
  <2> QED BY <1>1, <1>3, <1>6, <2>1, <2>3, <2>4 DEF FreshIsOff, Fresh, NoTablesNoServer,
       RightIsRight, RowsStand, Right
<1>5. CASE ~RestoreRequired
  <2>1. converge'.at = "data" /\ ~converge'.restore /\ ~marker
    BY <1>1, <1>2, <1>5 DEF Accepted
  <2>2. Fresh => ~database'.beside
    BY <1>2, <1>5, <1>6
  <2>3. RoleStands'
    BY <1>1, <1>6, <2>1, <2>2 DEF RoleStands, Fresh
  <2> QED BY <1>1, <1>3, <1>6, <2>1, <2>3 DEF FreshIsOff, Fresh, NoTablesNoServer, RightIsRight,
       RowsStand, BackupStands, Right
<1> QED BY <1>4, <1>5

(* What a step of the role changes of where it stands.                       *)
LEMMA FromTo ==
  ASSUME RestoreTypeOK, NEW at,
         NEW to \in {"idle", "stop", "mark", "data", "load", "verify", "probe", "started"},
         From(at, to)
  PROVE  /\ converge.at = at /\ converge'.at = to /\ converge'.restore = converge.restore
         /\ converge' \in [at : {"idle", "stop", "mark", "data", "load", "verify", "probe",
                                 "started"}, restore : BOOLEAN]
  BY DEF RestoreTypeOK, From

LEMMA StopServerKeeps ==
  ASSUME RestoreConstants, RestoreInv, StopServer
  PROVE  RestoreInv'
<1> USE DEF RestoreInv, RestoreTypeOK, AsideHasTables
<1>1. /\ server' = "stopped"
      /\ UNCHANGED <<disk, database, pin, readable, data, dumping, backup, marker, aside,
                     touched, changes>>
  BY DEF StopServer
<1>2. /\ converge.at = "stop" /\ converge'.at = "mark" /\ converge'.restore = converge.restore
      /\ converge' \in [at : {"idle", "stop", "mark", "data", "load", "verify", "probe",
                              "started"}, restore : BOOLEAN]
  BY FromTo DEF StopServer
<1>3. RoleStands'
  BY <1>1, <1>2 DEF RoleStands, Fresh
<1> QED BY <1>1, <1>2, <1>3 DEF FreshIsOff, Fresh, NoTablesNoServer, RightIsRight,
     RowsStand, BackupStands, Right

LEMMA WriteMarkerKeeps ==
  ASSUME RestoreConstants, RestoreInv, WriteMarker
  PROVE  RestoreInv'
<1> USE DEF RestoreInv, RestoreTypeOK, AsideHasTables
<1>1. /\ marker' = TRUE
      /\ UNCHANGED <<disk, database, pin, readable, server, data, dumping, backup, aside,
                     touched, changes>>
  BY DEF WriteMarker
<1>2. /\ converge.at = "mark" /\ converge'.at = "data" /\ converge'.restore = converge.restore
      /\ converge' \in [at : {"idle", "stop", "mark", "data", "load", "verify", "probe",
                              "started"}, restore : BOOLEAN]
  BY FromTo DEF WriteMarker
<1>3. RoleStands'
  BY <1>1, <1>2 DEF RoleStands, Fresh
<1> QED BY <1>1, <1>2, <1>3 DEF FreshIsOff, Fresh, NoTablesNoServer, RightIsRight,
     RowsStand, BackupStands, Right

LEMMA StartDataKeeps ==
  ASSUME RestoreConstants, RestoreInv, StartData
  PROVE  RestoreInv'
<1> USE DEF RestoreInv, RestoreTypeOK, AsideHasTables
<1>1. /\ Fresh \/ database.major = pin
      /\ database' = (IF Fresh THEN [database EXCEPT !.major = pin] ELSE database)
      /\ data' = "up"
      /\ UNCHANGED <<disk, pin, readable, server, dumping, backup, marker, aside, touched,
                     changes>>
  BY DEF StartData
<1>2. /\ converge.at = "data" /\ converge'.at = (IF converge.restore THEN "load" ELSE "probe")
      /\ converge'.restore = converge.restore
      /\ converge' \in [at : {"idle", "stop", "mark", "data", "load", "verify", "probe",
                              "started"}, restore : BOOLEAN]
  BY FromTo DEF StartData
<1>3. pin # 0
  BY DEF RestoreConstants
<1>4. /\ database' \in Clusters
      /\ database'.major # 0
      /\ Fresh => database'.tables = "none" /\ database'.beside = database.beside
      /\ ~Fresh => database' = database
  BY <1>1, <1>3, ClusterNoted DEF Clusters, Fresh, FreshIsOff
<1>5. RoleStands'
  BY <1>1, <1>2, <1>4 DEF RoleStands, Fresh
<1>6. NoTablesNoServer'
  BY <1>1, <1>2, <1>4 DEF NoTablesNoServer, RoleStands, Fresh
<1>7. RightIsRight' /\ BackupStands'
  BY <1>1, <1>2 DEF RightIsRight, Right, BackupStands
<1>8. RowsStand'
  BY <1>2 DEF RowsStand
<1>9. FreshIsOff'
  BY <1>4 DEF FreshIsOff, Fresh
<1> QED BY <1>1, <1>2, <1>4, <1>5, <1>6, <1>7, <1>8, <1>9

LEMMA DataLoopsKeeps ==
  ASSUME RestoreConstants, RestoreInv, DataLoops
  PROVE  RestoreInv'
<1> USE DEF RestoreInv, RestoreTypeOK, AsideHasTables
<1>1. /\ ~Fresh /\ data' = "looping" /\ converge' = [at |-> "idle", restore |-> FALSE]
      /\ dumping' = NoBackup
      /\ UNCHANGED <<disk, database, pin, readable, server, backup, marker, aside, touched,
                     changes>>
  BY DEF DataLoops
<1> QED BY <1>1 DEF FreshIsOff, Fresh, NoTablesNoServer, RoleStands, RightIsRight,
     RowsStand, BackupStands, Right

(* Before the load no tables are there, and after it the backup's rows are.  *)
LEMMA LoadBackupKeeps ==
  ASSUME RestoreConstants, RestoreInv, LoadBackup
  PROVE  RestoreInv'
<1> USE DEF RestoreInv, RestoreTypeOK, AsideHasTables
<1>1. /\ database' = [database EXCEPT !.tables = "dump", !.rows = backup.rows]
      /\ UNCHANGED <<disk, pin, readable, server, data, dumping, backup, marker, aside,
                     touched, changes>>
  BY DEF LoadBackup
<1>2. /\ converge.at = "load" /\ converge'.at = "verify"
      /\ converge'.restore = converge.restore
      /\ converge' \in [at : {"idle", "stop", "mark", "data", "load", "verify", "probe",
                              "started"}, restore : BOOLEAN]
  BY FromTo DEF LoadBackup
<1>3. converge.restore /\ backup # NoBackup /\ ~Fresh
  BY <1>2 DEF RoleStands, BackupStands
<1>4. /\ database' \in Clusters
      /\ database'.major = database.major /\ database'.tables = "dump"
      /\ database'.rows = backup.rows
  BY <1>1, <1>3 DEF Backups, Clusters
<1>5. BackupStands'
  BY <1>1, <1>2, <1>3, <1>4 DEF BackupStands
<1>6. RoleStands'
  BY <1>1, <1>2, <1>3, <1>4 DEF RoleStands, Fresh
<1> QED BY <1>1, <1>2, <1>3, <1>4, <1>5, <1>6 DEF FreshIsOff, Fresh, NoTablesNoServer,
     RightIsRight, RowsStand, Right

(* What the sample does not show to be wrong is right in the backup, was     *)
(* moved since, or lies beyond the sample.                                   *)
LEMMA VerifyAssetsKeeps ==
  ASSUME RestoreConstants, RestoreInv, VerifyAssets
  PROVE  RestoreInv'
<1> USE DEF RestoreInv, RestoreTypeOK, AsideHasTables
<1>1. /\ Verified
      /\ UNCHANGED <<disk, database, pin, readable, server, data, dumping, backup, marker,
                     aside, touched, changes>>
  BY DEF VerifyAssets
<1>2. /\ converge.at = "verify" /\ converge'.at = "probe"
      /\ converge'.restore = converge.restore
      /\ converge' \in [at : {"idle", "stop", "mark", "data", "load", "verify", "probe",
                              "started"}, restore : BOOLEAN]
  BY FromTo DEF VerifyAssets
<1>3. converge.restore
  BY <1>2 DEF RoleStands
<1>4. /\ database.rows = backup.rows
      /\ \A a \in backup.right \ touched : backup.rows[a] = disk[a]
      /\ dumping = NoBackup
  BY <1>2, <1>3 DEF BackupStands, RoleStands
<1>5. RowsStand'
  BY <1>1, <1>4 DEF RowsStand, Verified
<1>6. RoleStands' /\ BackupStands'
  BY <1>1, <1>2, <1>3 DEF RoleStands, BackupStands, Fresh
<1> QED BY <1>1, <1>2, <1>5, <1>6 DEF FreshIsOff, Fresh, NoTablesNoServer, RightIsRight, Right

LEMMA StartServerKeeps ==
  ASSUME RestoreConstants, RestoreInv, StartServer
  PROVE  RestoreInv'
<1> USE DEF RestoreInv, RestoreTypeOK, AsideHasTables
<1>1. /\ data = "up" /\ server' = "up"
      /\ UNCHANGED <<disk, database, pin, readable, data, dumping, backup, marker, aside,
                     touched, changes>>
  BY DEF StartServer
<1>2. /\ converge.at = "probe"
      /\ converge'.at = (IF converge.restore THEN "started" ELSE "idle")
      /\ converge'.restore = converge.restore
      /\ converge' \in [at : {"idle", "stop", "mark", "data", "load", "verify", "probe",
                              "started"}, restore : BOOLEAN]
  BY FromTo DEF StartServer
<1>3. NoTablesNoServer'
  BY <1>1, <1>2 DEF NoTablesNoServer, RoleStands, Fresh
<1>4. RoleStands'
  BY <1>1, <1>2 DEF RoleStands, Fresh
<1>5. BackupStands' /\ RowsStand'
  BY <1>1, <1>2 DEF BackupStands, RowsStand
<1> QED BY <1>1, <1>2, <1>3, <1>4, <1>5 DEF FreshIsOff, Fresh, RightIsRight, Right

LEMMA RemoveMarkerKeeps ==
  ASSUME RestoreConstants, RestoreInv, RemoveMarker
  PROVE  RestoreInv'
<1> USE DEF RestoreInv, RestoreTypeOK, AsideHasTables
<1>1. /\ marker' = FALSE
      /\ UNCHANGED <<disk, database, pin, readable, server, data, dumping, backup, aside,
                     touched, changes>>
  BY DEF RemoveMarker
<1>2. /\ converge.at = "started" /\ converge'.at = "idle"
      /\ converge'.restore = converge.restore
      /\ converge' \in [at : {"idle", "stop", "mark", "data", "load", "verify", "probe",
                              "started"}, restore : BOOLEAN]
  BY FromTo DEF RemoveMarker
<1>3. ~Fresh /\ database.tables # "none"
  BY <1>2 DEF RoleStands
<1> QED BY <1>1, <1>2, <1>3 DEF FreshIsOff, Fresh, NoTablesNoServer, RoleStands,
     BackupStands, RowsStand, RightIsRight, Right

LEMMA FailKeeps ==
  ASSUME RestoreConstants, RestoreInv, Fail
  PROVE  RestoreInv'
<1> USE DEF RestoreInv, RestoreTypeOK, AsideHasTables
<1>1. /\ converge' = [at |-> "idle", restore |-> FALSE]
      /\ UNCHANGED <<disk, database, pin, readable, server, data, dumping, backup, marker,
                     aside, touched, changes>>
  BY DEF Fail
<1> QED BY <1>1 DEF FreshIsOff, Fresh, NoTablesNoServer, RoleStands, BackupStands,
     RowsStand, RightIsRight, Right

-----------------------------------------------------------------------------
LEMMA RestoreInvStep ==
  ASSUME RestoreConstants, RestoreInv, [RestoreNext]_restoreVars
  PROVE  RestoreInv'
<1>1. CASE Converges
  BY <1>1, ClassifyKeeps, StopServerKeeps, WriteMarkerKeeps, StartDataKeeps, DataLoopsKeeps,
     LoadBackupKeeps, VerifyAssetsKeeps, StartServerKeeps, RemoveMarkerKeeps, FailKeeps
     DEF Converges
<1>2. CASE Around
  BY <1>2, MoveKeeps, StartDumpKeeps, FinishDumpKeeps, TouchBackupKeeps, RepinKeeps,
     LoseDatabaseKeeps, MoveAsideKeeps, SwapBackKeeps, ClearMarkerKeeps, MigrateKeeps
     DEF Around
<1>3. CASE UNCHANGED restoreVars
  BY <1>3 DEF restoreVars, RestoreInv, RestoreTypeOK, FreshIsOff, Fresh, NoTablesNoServer,
     AsideHasTables, RoleStands, RightIsRight, Right, BackupStands, RowsStand
<1> QED BY <1>1, <1>2, <1>3 DEF RestoreNext

(* However users, Immich, the operator and killed converges interleave, the  *)
(* invariant holds; its types are those of RestoreTypeOK.                    *)
THEOREM RestoreInvariant == RestoreConstants => (RestoreSpec => []RestoreInv)
<1> SUFFICES ASSUME RestoreConstants PROVE RestoreSpec => []RestoreInv
  OBVIOUS
<1>1. RestoreInit => RestoreInv
  BY RestoreInvInit
<1>2. RestoreInv /\ [RestoreNext]_restoreVars => RestoreInv'
  BY RestoreInvStep
<1> QED BY <1>1, <1>2, PTL DEF RestoreSpec

-----------------------------------------------------------------------------
(* Only Immich's own migration turns a directory without tables into one     *)
(* with Immich's, and not where it was found fresh beside originals, unless  *)
(* the operator cleared the marker over it.                                  *)
NoEmptyInstance ==
  database.tables = "none" /\ database'.tables = "immich" /\ UNCHANGED aside
    => ~database.beside \/ database.cleared

LEMMA OnlyMigrateMakesTables ==
  ASSUME RestoreConstants, RestoreInv, RestoreNext
  PROVE  NoEmptyInstance
<1> USE DEF RestoreInv, RestoreTypeOK
<1> SUFFICES ASSUME database.tables = "none", database'.tables = "immich", aside' = aside
             PROVE  ~database.beside \/ database.cleared
  BY DEF NoEmptyInstance
<1>1. CASE Converges
  <2>1. CASE StartData \/ Classify
    <3>1. database'.tables = "none"
      BY <2>1 DEF StartData, Classify, Clusters
    <3> QED BY <3>1
  <2>2. CASE LoadBackup
    <3>1. database'.tables = "dump"
      BY <2>2 DEF LoadBackup, Clusters
    <3> QED BY <3>1
  <2>3. CASE ~StartData /\ ~Classify /\ ~LoadBackup
    <3>1. UNCHANGED database
      BY <1>1, <2>3 DEF Converges, StopServer, WriteMarker, DataLoops,
         VerifyAssets, StartServer, RemoveMarker, Fail
    <3> QED BY <3>1
  <2> QED BY <2>1, <2>2, <2>3
<1>2. CASE Around
  <2>1. CASE Migrate
    BY <2>1, MigrateKeeps
  <2>2. CASE SwapBack
    BY <2>2, NothingIsCluster DEF SwapBack
  <2>3. CASE ~Migrate /\ ~SwapBack
    <3>1. database'.tables \in {database.tables, "none"}
      BY <1>2, <2>3, NothingIsCluster DEF Around, MoveByImmich, MovePastImmich, StartDump,
         FinishDump, TouchBackup, Repin, LoseDatabase, MoveAside, ClearMarker, Clusters
    <3> QED BY <3>1
  <2> QED BY <2>1, <2>2, <2>3
<1> QED BY <1>1, <1>2 DEF RestoreNext

(* An empty Immich never comes up in a directory that was found fresh beside *)
(* originals, wherever a restore failed and whatever was moved aside or      *)
(* swapped back, if the operator never cleared the marker over it.           *)
THEOREM NoInstanceStartsAfresh == RestoreConstants => (RestoreSpec => NeverStartsAfresh)
<1> SUFFICES ASSUME RestoreConstants PROVE RestoreSpec => NeverStartsAfresh
  OBVIOUS
<1>1. RestoreInv /\ [RestoreNext]_restoreVars => [NoEmptyInstance]_restoreVars
  BY OnlyMigrateMakesTables
<1> QED BY <1>1, RestoreInvariant, PTL DEF RestoreSpec, NeverStartsAfresh, NoEmptyInstance

(* A restore loads into a database without tables, and the rows it leaves    *)
(* name originals at their place, but for what moved and for what lies       *)
(* beyond the sample.                                                        *)
LEMMA InvariantSuffices == RestoreInv => LoadMeetsNoTables /\ RestoredRowsExist
<1> SUFFICES ASSUME RestoreInv PROVE LoadMeetsNoTables /\ RestoredRowsExist
  OBVIOUS
<1>1. LoadMeetsNoTables
  BY DEF RestoreInv, RoleStands, LoadMeetsNoTables
<1>2. RestoredRowsExist
  BY DEF RestoreInv, RoleStands, RowsStand, RestoredRowsExist
<1> QED BY <1>1, <1>2
=============================================================================

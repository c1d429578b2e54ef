---------------------------- MODULE ImmichRestore ----------------------------
(***************************************************************************)
(* The restore of Immich's database: services/immich/classify_restore.py   *)
(* and the tasks of roles/immich that act on its answer.  A converge finds *)
(* the database directory, the originals and the newest backup as they     *)
(* are, decides, and takes its steps; Immich, its users and the operator   *)
(* go on beside it, and it may fail or be killed after any step.           *)
(*                                                                         *)
(* A refusal changes nothing, so a refused converge is no step.  What makes*)
(* a backup unusable (owner, mode, type, gzip, a second one with the same  *)
(* timestamp) is one flag; whether its Immich version is the pinned one is *)
(* another.  The code never falls back, so only the newest is kept.        *)
(***************************************************************************)
EXTENDS Naturals, FiniteSets

CONSTANTS
  Asset, Place, Nowhere,
  Sampled,       \* the assets that immich_restore_verify_limit rows reach
  Major,         \* majors of PostgreSQL, numbers from 1
  MaxChanges,    \* bound: what users and operator do
  NoBackup

VARIABLES
  disk,          \* where each original is
  database,      \* the directory: its major (0: fresh), whose tables, the rows, and the
                 \* history of it: were there originals when it was found fresh, and did
                 \* the operator clear the marker over it when it was no longer fresh
  aside,         \* the directory that was moved aside, if its major is not 0
  pin,           \* the major of the pinned image
  readable,      \* may this account read PG_VERSION
  server, data,  \* the containers: stopped, up or, for data, looping
  dumping,       \* the rows of the dump Immich is writing, or NoBackup
  backup,        \* the newest one, or NoBackup
  marker,        \* .restore-failed
  converge,      \* where the role stands, and whether it restores
  touched,       \* history: assets moved past Immich since the classification
  changes

restoreVars == <<disk, database, pin, readable, server, data, dumping, backup,
                 marker, converge, aside, touched, changes>>

Rows    == [Asset -> Place \cup {Nowhere}]
Backups == [rows : Rows, major : Major, version : BOOLEAN, usable : BOOLEAN,
            stale : BOOLEAN, right : SUBSET Asset]

RestoreConstants == Major \subseteq Nat \ {0} /\ MaxChanges \in Nat /\ NoBackup \notin Backups

Fresh   == database.major = 0
NoRows  == [a \in Asset |-> Nowhere]
Cluster(major, tables, rows) ==
  [major |-> major, tables |-> tables, rows |-> rows, beside |-> FALSE, cleared |-> FALSE]
Nothing == Cluster(0, "none", NoRows)

RestoreInit ==
  /\ pin \in Major /\ readable \in BOOLEAN
  /\ disk \in [Asset -> Place \cup {Nowhere}]
  /\ database = Cluster(pin, "immich", disk)
  /\ server = "up" /\ data = "up" /\ dumping = NoBackup /\ backup = NoBackup
  /\ marker = FALSE /\ converge = [at |-> "idle", restore |-> FALSE]
  /\ aside = Nothing /\ touched = {} /\ changes = 0

-----------------------------------------------------------------------------
(* Users, Immich and the operator. *)
Serves == server = "up" /\ data = "up" /\ database.tables # "none"
Changes == changes < MaxChanges /\ changes' = changes + 1
Stale(b) == IF b = NoBackup THEN b ELSE [b EXCEPT !.stale = TRUE]
Right(rows) == {a \in Asset : rows[a] = disk[a]}

(* An upload, or a move by Immich's storage template. *)
MoveByImmich(a, p) ==
  /\ Serves /\ Changes /\ disk[a] # p /\ p # Nowhere
  /\ disk' = [disk EXCEPT ![a] = p] /\ database' = [database EXCEPT !.rows[a] = p]
  /\ backup' = Stale(backup)
  /\ UNCHANGED <<pin, readable, server, data, dumping, marker, converge, aside, touched>>

(* A move or a removal on the file system. *)
MovePastImmich(a, p) ==
  /\ Changes /\ disk[a] # p
  /\ disk' = [disk EXCEPT ![a] = p] /\ touched' = touched \cup {a}
  /\ backup' = Stale(backup)
  /\ UNCHANGED <<database, pin, readable, server, data, dumping, marker, converge, aside>>

StartDump ==
  /\ Serves /\ Changes /\ dumping = NoBackup /\ dumping' = database.rows
  /\ UNCHANGED <<disk, database, pin, readable, server, data, backup, marker,
                 converge, aside, touched>>

(* The file's mtime is of its end; its rows are of its start. *)
FinishDump(usable) ==
  /\ dumping # NoBackup /\ dumping' = NoBackup
  /\ backup' = [rows |-> dumping, major |-> database.major, version |-> TRUE,
                usable |-> usable, stale |-> FALSE, right |-> Right(dumping)]
  /\ UNCHANGED <<disk, database, pin, readable, server, data, marker, converge,
                 aside, touched, changes>>

(* "Only when that database is lost, touch the newest backup file." *)
TouchBackup ==
  /\ Changes /\ backup # NoBackup /\ backup.stale
  /\ backup' = [backup EXCEPT !.stale = FALSE, !.right = Right(backup.rows)]
  /\ UNCHANGED <<disk, database, pin, readable, server, data, dumping, marker,
                 converge, aside, touched>>

(* Another pin of the database, or of Immich itself. *)
Repin(m) ==
  /\ converge.at = "idle" /\ Changes /\ pin' = m
  /\ backup' = IF m # pin \/ backup = NoBackup THEN backup
               ELSE [backup EXCEPT !.version = FALSE]
  /\ UNCHANGED <<disk, database, readable, server, data, dumping, marker, converge,
                 aside, touched>>

(* The directory is lost, with its containers running or not. *)
LoseDatabase(left) ==
  /\ converge.at = "idle" /\ Changes /\ ~Fresh /\ database' = Nothing
  /\ server' = left /\ data' = "stopped" /\ dumping' = NoBackup
  /\ UNCHANGED <<disk, pin, readable, backup, marker, converge, aside, touched>>

(* The cutover and its rollback stop the stack, then move directories: the   *)
(* one in use aside, kept while there is something in it, or the one that    *)
(* was kept back in the place of the failed one.                             *)
StopStack == server' = "stopped" /\ data' = "stopped" /\ dumping' = NoBackup

MoveAside ==
  /\ converge.at = "idle" /\ Changes /\ ~Fresh /\ StopStack
  /\ aside' = (IF database.tables = "none" THEN aside ELSE database) /\ database' = Nothing
  /\ UNCHANGED <<disk, pin, readable, backup, marker, converge, touched>>

SwapBack ==
  /\ converge.at = "idle" /\ Changes /\ aside.major # 0 /\ StopStack
  /\ database' = aside /\ aside' = Nothing
  /\ UNCHANGED <<disk, pin, readable, backup, marker, converge, touched>>

(* The operator clears the marker: over the directory that was swapped back, *)
(* over a fresh one, or over the one in which the restore failed.            *)
ClearMarker ==
  /\ converge.at = "idle" /\ marker /\ marker' = FALSE
  /\ database' = [database EXCEPT !.cleared = ~Fresh]
  /\ UNCHANGED <<disk, pin, readable, server, data, dumping, backup, converge, aside,
                 touched, changes>>

(* Immich makes its tables in a database that has none. *)
Migrate ==
  /\ server = "up" /\ data = "up" /\ database.tables = "none"
  /\ database' = [database EXCEPT !.tables = "immich"]
  /\ UNCHANGED <<disk, pin, readable, server, data, dumping, backup, marker,
                 converge, aside, touched, changes>>

-----------------------------------------------------------------------------
(* classify() *)
Mismatch == ~Fresh /\ readable /\ database.major # pin
Present  == \E a \in Asset : disk[a] # Nowhere
RestoreRequired == Fresh /\ Present

(* select_backup() *)
Selected == backup # NoBackup /\ backup.usable /\ backup.version /\ backup.major <= pin

(* Mutant: a backup of any age will do. *)
MutantChangedSince == FALSE

(* originals_changed_since() *)
ChangedSince == backup.stale

Accepted ==
  /\ ~marker /\ ~Mismatch
  /\ RestoreRequired => Selected /\ ~ChangedSince

Classify ==
  /\ converge.at = "idle" /\ Accepted
  /\ converge' = [at |-> IF RestoreRequired THEN "stop" ELSE "data", restore |-> RestoreRequired]
  /\ database' = (IF Fresh THEN [database EXCEPT !.beside = Present] ELSE database)
  /\ touched' = {}
  /\ UNCHANGED <<disk, pin, readable, server, data, dumping, backup, marker, aside,
                 changes>>

From(at, to) == converge.at = at /\ converge' = [converge EXCEPT !.at = to]

(* The tasks of roles/immich/tasks/main.yml and restore.yml, in their order. *)
(* Mutant: the application keeps running. *)
MutantStopServer ==
  /\ From("stop", "mark")
  /\ UNCHANGED <<disk, database, pin, readable, server, data, dumping, backup,
                 marker, aside, touched, changes>>

StopServer ==
  /\ From("stop", "mark") /\ server' = "stopped"
  /\ UNCHANGED <<disk, database, pin, readable, data, dumping, backup, marker,
                 aside, touched, changes>>

(* Mutant: only the rescue writes the marker. *)
MutantWriteMarker ==
  /\ From("mark", "data")
  /\ UNCHANGED <<disk, database, pin, readable, server, data, dumping, backup,
                 marker, aside, touched, changes>>

WriteMarker ==
  /\ From("mark", "data") /\ marker' = TRUE
  /\ UNCHANGED <<disk, database, pin, readable, server, data, dumping, backup,
                 aside, touched, changes>>

(* initdb runs in an empty directory. *)
StartData ==
  /\ From("data", IF converge.restore THEN "load" ELSE "probe")
  /\ Fresh \/ database.major = pin
  /\ database' = (IF Fresh THEN [database EXCEPT !.major = pin] ELSE database) /\ data' = "up"
  /\ UNCHANGED <<disk, pin, readable, server, dumping, backup, marker, aside,
                 touched, changes>>

(* The pinned image cannot open a cluster of another major. *)
DataLoops ==
  /\ converge.at = "data" /\ ~Fresh /\ database.major # pin
  /\ data' = "looping" /\ converge' = [at |-> "idle", restore |-> FALSE]
  /\ dumping' = NoBackup
  /\ UNCHANGED <<disk, database, pin, readable, server, backup, marker, aside,
                 touched, changes>>

(* The load is one transaction, after redis was flushed: all of it, or none  *)
(* when there are tables in the way.                                         *)
LoadBackup ==
  /\ From("load", "verify") /\ database.tables = "none"
  /\ database' = [database EXCEPT !.tables = "dump", !.rows = backup.rows]
  /\ UNCHANGED <<disk, pin, readable, server, data, dumping, backup, marker, aside,
                 touched, changes>>

(* verify_assets(), and the assertions on the evidence. *)
Verified ==
  /\ database.rows # NoRows
  /\ \A a \in Sampled : database.rows[a] = Nowhere \/ database.rows[a] = disk[a]

VerifyAssets ==
  /\ From("verify", "probe") /\ Verified
  /\ UNCHANGED <<disk, database, pin, readable, server, data, dumping, backup,
                 marker, aside, touched, changes>>

(* The credential probe, then the whole stack. *)
StartServer ==
  /\ From("probe", IF converge.restore THEN "started" ELSE "idle")
  /\ data = "up" /\ server' = "up"
  /\ UNCHANGED <<disk, database, pin, readable, data, dumping, backup, marker,
                 aside, touched, changes>>

RemoveMarker ==
  /\ From("started", "idle") /\ marker' = FALSE
  /\ UNCHANGED <<disk, database, pin, readable, server, data, dumping, backup,
                 aside, touched, changes>>

(* A task fails, with or without the rescue that names the stage in the      *)
(* marker, or the play is killed.                                            *)
Fail ==
  /\ converge.at # "idle" /\ converge' = [at |-> "idle", restore |-> FALSE]
  /\ UNCHANGED <<disk, database, pin, readable, server, data, dumping, backup,
                 marker, aside, touched, changes>>

-----------------------------------------------------------------------------
Converges ==
  \/ Classify \/ StopServer \/ WriteMarker \/ StartData \/ DataLoops \/ LoadBackup
  \/ VerifyAssets \/ StartServer \/ RemoveMarker \/ Fail

Around ==
  \/ \E a \in Asset, p \in Place \cup {Nowhere} : MoveByImmich(a, p) \/ MovePastImmich(a, p)
  \/ StartDump \/ \E usable \in BOOLEAN : FinishDump(usable)
  \/ TouchBackup \/ \E m \in Major : Repin(m)
  \/ \E left \in {"up", "stopped"} : LoseDatabase(left)
  \/ MoveAside \/ SwapBack \/ ClearMarker \/ Migrate

RestoreNext == Converges \/ Around
RestoreSpec == RestoreInit /\ [][RestoreNext]_restoreVars

-----------------------------------------------------------------------------
Clusters == [major : Major \cup {0}, tables : {"none", "immich", "dump"}, rows : Rows,
             beside : BOOLEAN, cleared : BOOLEAN]

RestoreTypeOK ==
  /\ disk \in Rows /\ pin \in Major /\ readable \in BOOLEAN
  /\ database \in Clusters /\ aside \in Clusters
  /\ server \in {"stopped", "up"} /\ data \in {"stopped", "up", "looping"}
  /\ dumping \in Rows \cup {NoBackup}
  /\ backup \in {NoBackup} \cup Backups
  /\ marker \in BOOLEAN /\ touched \subseteq Asset
  /\ converge \in [at : {"idle", "stop", "mark", "data", "load", "verify", "probe",
                         "started"}, restore : BOOLEAN]
  /\ changes \in 0 .. MaxChanges

(* "Deployment stops instead of initializing an empty Immich instance", and  *)
(* a failed restore is not taken for an existing installation: Immich makes  *)
(* no tables of its own in a directory that was found fresh beside originals.*)
(* It rests on the operator: nothing in the code ties the marker to the      *)
(* directory, and where they clear it over the one in which the restore      *)
(* failed, the next converge takes that one for an existing installation.    *)
(* A directory that is swapped back (aside changes) has had its tables.      *)
NeverStartsAfresh ==
  [][database.tables = "none" /\ database'.tables = "immich" /\ UNCHANGED aside
       => ~database.beside \/ database.cleared]_restoreVars

(* A restore meets no tables: nothing else wrote to the database between the *)
(* classification and the load.                                              *)
LoadMeetsNoTables == converge.at = "load" => database.tables = "none"

(* The rows Immich starts with after a restore name originals at their place.*)
(* What is left are assets that somebody moved since the classification, and *)
(* assets beyond the sample whose row was wrong when the dump ended.         *)
RestoredRowsExist ==
  converge.at = "started" =>
    \A a \in Asset :
      \/ database.rows[a] \in {Nowhere, disk[a]}
      \/ a \in touched
      \/ a \notin Sampled /\ a \notin backup.right
=============================================================================

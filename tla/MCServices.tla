----------------------------- MODULE MCServices ------------------------------
(* Small instances of the components of Services.                            *)
EXTENDS Services

CONSTANTS
  v, r1, services, backup_tag, app, db, cache, v1, v1_repinned, v2, f1, f2, t1, t2,
  i1, i2, i3, a1, a2, upload, library

(* Three tasks, two of one volume around the hourly update. *)
Actions == <<"auto_search", "update_all", "mass_rename">>
Volumes == <<v, NoVolume, v>>

(* The services' verification, and one hourly-only tag. *)
Verifications == <<services, backup_tag>>

(* Of two releases: one image is updated, one repinned and one added; where  *)
(* an operator's converge went ahead, it is removed.                         *)
Manifests ==
  <<[c \in {app, db, cache} |-> IF c = db THEN Absent ELSE v1],
    [c \in {app, db, cache} |-> IF c = cache THEN v1_repinned ELSE v2]>>
Versions == [i \in {v1, v1_repinned, v2} |-> IF i = v2 THEN v2 ELSE v1]

(* Two trees, of which the second lacks a file of the first. *)
Contents == [t \in {t1, t2} |-> IF t = t1 THEN {f1, f2} ELSE {f1}]

(* One image between the two retention windows and two beyond both. *)
Ages == [i \in {i1, i2, i3} |-> IF i = i1 THEN 30 ELSE 60]

(* Fewer behaviours: a third task is added, or remove() is called; polls or   *)
(* verifications have told something; one revision has leftovers.  And of    *)
(* Immich's originals the one beyond the sample starts at its place.         *)
FewerTasks   == pc[<<"add", 3>>] = "appending" \/ \A r \in Remover : removal[r].at = "idle"
FewerNotices == \/ heard["blind"] = None /\ heard["ci"] = None
                \/ \A c \in DOMAIN verdicts : heard[c] = None
FewerStages  == \E r \in Revision : staging[r] = Absent
SmallSpec ==
  /\ Init /\ (awake = "immich" => disk[a2] = library)
  /\ [][Next /\ (FewerTasks /\ FewerNotices /\ FewerStages)']_vars
  /\ Fairness
=============================================================================

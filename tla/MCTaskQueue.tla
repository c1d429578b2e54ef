---------------------------- MODULE MCTaskQueue -----------------------------
(* Three tasks for TaskQueue: two of one volume around the hourly update.    *)
EXTENDS TaskQueue

CONSTANT v

Actions == <<"auto_search", "update_all", "mass_rename">>
Volumes == <<v, NoVolume, v>>
=============================================================================

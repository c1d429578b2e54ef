----------------------------- MODULE ClamavGate -----------------------------
(***************************************************************************)
(* The gate of SABnzbd's completed jobs, services/downloaders/             *)
(* clamav_gate.py, beside a clamd that is recreated, restarts or hangs.    *)
(* SABnzbd runs the script for one job at a time; exit 1 fails the job,    *)
(* and a failed job is one whose release is never asked for again.         *)
(*                                                                         *)
(* Time is the bound Pings: so many PINGs fit in READY_TIMEOUT.  A timeout *)
(* of a command is one of the ways it may fail.                            *)
(***************************************************************************)
EXTENDS Naturals, FiniteSets

CONSTANTS
  Job,
  Unprintable,  \* the jobs with a name, of theirs or of a file in them, that the
                \* script's output cannot encode
  Pings,        \* how many PINGs await_clamd() sends before its deadline
  None

VARIABLES
  clamd,      \* up, down, or stuck: it takes connections and answers nothing
  job,        \* the job SABnzbd post-processes, or None
  gate,       \* where the script stands
  pings,      \* how many PINGs it has sent
  lines,      \* the kinds of line in the reply to SCAN, or None
  exits,      \* the exit status of each job that was post-processed
  said,       \* history: the kinds of line clamd answered for each job
  alerted     \* history: the jobs for which alert() was called

gateVars == <<clamd, job, gate, pings, lines, exits, said, alerted>>

ClamavInit ==
  /\ clamd \in {"up", "down"} /\ job = None /\ gate = "idle"
  /\ pings = 0 /\ lines = None
  /\ exits = [j \in Job |-> None] /\ said = [j \in Job |-> {}]
  /\ alerted = {}

(* A container recreation during a converge, a database reload, a hang. *)
ClamdChanges(state) ==
  /\ clamd # state /\ clamd' = state
  /\ UNCHANGED <<job, gate, pings, lines, exits, said, alerted>>

GoesTo(to) == gate' = to

-----------------------------------------------------------------------------
(* main(): SAB_COMPLETE_DIR is set and is a directory, or it is not. *)
PostProcess(j) ==
  /\ gate = "idle" /\ exits[j] = None /\ job' = j
  /\ gate' \in {"ping", "unavailable"} /\ pings' = 0 /\ lines' = None
  /\ UNCHANGED <<clamd, exits, said, alerted>>

(* await_clamd() *)
Pong ==
  /\ gate = "ping" /\ clamd = "up" /\ GoesTo("scan")
  /\ UNCHANGED <<clamd, job, pings, lines, exits, said, alerted>>

(* Mutant: one PING too many. *)
MutantDeadline == pings = Pings

Deadline == pings + 1 = Pings

(* No connection, no answer in time, or another answer. *)
PingFails ==
  /\ gate = "ping"
  /\ pings' = pings + 1 /\ GoesTo(IF Deadline THEN "unavailable" ELSE "ping")
  /\ UNCHANGED <<clamd, job, lines, exits, said, alerted>>

(* verdict(): the kinds of line in clamd's reply, by what they end in.  A    *)
(* reply may be empty, and OTHER is every line that says neither: an unknown *)
(* command, a command that clamd gave up reading, a path it excludes, a line *)
(* that was cut off.                                                         *)
LineKinds == {"OK", "FOUND", "ERROR", "OTHER"}
Reply     == SUBSET LineKinds

Scanned(kinds) ==
  /\ gate = "scan" /\ clamd = "up" /\ kinds \in Reply
  /\ lines' = kinds /\ said' = [said EXCEPT ![job] = kinds] /\ GoesTo("reply")
  /\ UNCHANGED <<clamd, job, pings, exits, alerted>>

(* No connection, a broken one, SCAN_TIMEOUT, or a path that is no UTF-8. *)
ScanFails ==
  /\ gate = "scan" /\ GoesTo("unavailable")
  /\ UNCHANGED <<clamd, job, pings, lines, exits, said, alerted>>

Exits(status) ==
  /\ exits' = [exits EXCEPT ![job] = status]
  /\ gate' = "idle" /\ job' = None /\ pings' = 0 /\ lines' = None
  /\ UNCHANGED <<clamd, said>>

(* Mutant: whatever is not a clean result refuses the job. *)
MutantRefuses == lines # {"OK"}

Refuses == "FOUND" \in lines

(* Mutant: a reply without a line is a clean one. *)
MutantNoVerdict == "ERROR" \in lines

NoVerdict == "ERROR" \in lines \/ lines = {}

RefuseJob ==
  /\ gate = "reply" /\ Refuses /\ Exits(1) /\ UNCHANGED alerted

NotScanned ==
  /\ gate = "reply" /\ ~Refuses /\ NoVerdict /\ GoesTo("unavailable")
  /\ UNCHANGED <<clamd, job, pings, lines, exits, said, alerted>>

(* Whatever is left counts as clean, a line of the kind OTHER too. *)
Clean ==
  /\ gate = "reply" /\ ~Refuses /\ ~NoVerdict /\ Exits(0) /\ UNCHANGED alerted

(* unavailable(): alert() never raises, whatever becomes of its message. *)
Unavailable ==
  /\ gate = "unavailable" /\ Exits(0) /\ alerted' = alerted \cup {job}

(* The last net.  Each way out prints the name, and two of them clamd's      *)
(* lines, before anything else: where that raises the job is imported, and   *)
(* nobody is told.                                                           *)
LastNet ==
  /\ job \in Unprintable
  /\ \/ gate = "unavailable"
     \/ gate = "reply" /\ (Refuses \/ ~NoVerdict)
  /\ Exits(0) /\ UNCHANGED alerted

-----------------------------------------------------------------------------
Gate ==
  \/ Pong \/ PingFails \/ ScanFails \/ \E kinds \in Reply : Scanned(kinds)
  \/ RefuseJob \/ NotScanned \/ Clean \/ Unavailable \/ LastNet

ClamavNext ==
  \/ Gate \/ \E j \in Job : PostProcess(j)
  \/ \E state \in {"up", "down", "stuck"} : ClamdChanges(state)

ClamavSpec == ClamavInit /\ [][ClamavNext]_gateVars

-----------------------------------------------------------------------------
ClamavTypeOK ==
  /\ clamd \in {"up", "down", "stuck"} /\ job \in Job \cup {None}
  /\ gate \in {"idle", "ping", "scan", "reply", "unavailable"}
  /\ pings \in 0 .. Pings /\ alerted \subseteq Job
  /\ lines \in {None} \cup SUBSET LineKinds
  /\ exits \in [Job -> {None, 0, 1}]
  /\ said \in [Job -> SUBSET LineKinds]

(* Exit 1 means one thing, a signature: no outage of clamd blocklists a      *)
(* release, and no job clamd named one for is imported, whatever else its    *)
(* reply holds.  Except for a job with a name that cannot be printed: the    *)
(* refusal may raise, and the last net imports it.                           *)
RefusedIsInfected ==
  \A j \in Job :
    /\ exits[j] = 1 => "FOUND" \in said[j]
    /\ exits[j] = 0 => "FOUND" \notin said[j] \/ j \in Unprintable

(* A job that was imported although clamd could not be reached, gave no      *)
(* answer or could not read some of its files is told of, but for a job with *)
(* a name that cannot be printed.                                            *)
FailedScanIsTold ==
  \A j \in Job : exits[j] = 0 /\ j \notin Unprintable =>
    j \in alerted \/ (said[j] # {} /\ "ERROR" \notin said[j])

-----------------------------------------------------------------------------
(* What the script says of itself and does not deliver: "Anything that is    *)
(* not a verdict imports the job and pages the operator instead."  A job     *)
(* that is imported without a clean result of clamd's is told of.            *)
UnscannedIsTold ==
  \A j \in Job : exits[j] = 0 => said[j] = {"OK"} \/ j \in alerted
=============================================================================

----------------------------- MODULE SerialWork ------------------------------
(***************************************************************************)
(* What Kapowarr's queue amounts to for who adds tasks to it, with no      *)
(* threads and no calls in it: a line in which only the first works.  Each *)
(* task enters once, begins once, when it is the first and no other works, *)
(* and leaves from the front after it began, or is withdrawn from wherever *)
(* it stands.  A task that was withdrawn may still begin or go on by       *)
(* itself, outside of the line.                                            *)
(***************************************************************************)
EXTENDS Sequences, SequencesExt

CONSTANT Task

VARIABLES
  line,       \* the tasks that stand in line
  entered,    \* those that ever entered it
  begun,      \* those that ever began
  working,    \* those that work and were not withdrawn
  withdrawn   \* those taken out of the line

lineVars == <<line, entered, begun, working, withdrawn>>

LineInit ==
  /\ line = <<>> /\ entered = {} /\ begun = {} /\ working = {} /\ withdrawn = {}

Enter(t) ==
  /\ t \notin entered
  /\ line' = Append(line, t) /\ entered' = entered \cup {t}
  /\ UNCHANGED <<begun, working, withdrawn>>

Begin(t) ==
  /\ line # <<>> /\ Head(line) = t /\ working = {} /\ t \notin begun
  /\ begun' = begun \cup {t} /\ working' = {t}
  /\ UNCHANGED <<line, entered, withdrawn>>

BeginOutside(t) ==
  /\ t \in withdrawn \ begun
  /\ begun' = begun \cup {t}
  /\ UNCHANGED <<line, entered, working, withdrawn>>

(* The first ends its work and leaves, or was told to stop and stays.        *)
Leave ==
  /\ line # <<>> /\ working = {Head(line)}
  /\ line' = Tail(line) /\ working' = {}
  /\ UNCHANGED <<entered, begun, withdrawn>>

Rest == working' = {} /\ UNCHANGED <<line, entered, begun, withdrawn>>

Withdraw(t) ==
  \E i \in DOMAIN line :
    /\ line[i] = t /\ line' = RemoveAt(line, i)
    /\ withdrawn' = withdrawn \cup {t} /\ working' = working \ {t}
    /\ UNCHANGED <<entered, begun>>

LineNext ==
  \/ \E t \in Task : Enter(t) \/ Begin(t) \/ BeginOutside(t) \/ Withdraw(t)
  \/ Leave \/ Rest

LineSpec == LineInit /\ [][LineNext]_lineVars
=============================================================================

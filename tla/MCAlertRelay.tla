---------------------------- MODULE MCAlertRelay ----------------------------
(* Small instances of AlertRelay: two containers, of which the second was    *)
(* recorded under the former name of its host, as identity 3.                *)
EXTENDS AlertRelay, TLC

Event(rule, id, at) == [rule |-> rule, id |-> id, at |-> at]
Renaming == {<<3, 2>>}

Mixed == {Event("beszel", NoOne, 1), Event("OOM", 1, 1),
          Event("Unhealthy", 1, 2), Event("Recovery", 1, 1),
          Event("Unhealthy", 2, 1), Event("Recovery", 2, 1)}
Crash == {Event("Unexpected exit", 1, 1)}

Alike == Permutations(Thread)

(* Of four requests, the last is an alert of Beszel that comes once the      *)
(* global notice is out.                                                     *)
LastIsSilent ==
  requests' = 4 /\ requests = 3 =>
    /\ Budget(clock).notified
    /\ \A t \in Thread : req'[t] # req[t] => req'[t].event.id = NoOne

SmallSpec == Init /\ [][Next /\ LastIsSilent]_vars
=============================================================================

----------------------------- MODULE AlertRelay -----------------------------
(***************************************************************************)
(* services/dozzle/alert_relay.py: a threaded HTTP server that turns the   *)
(* container events of Dozzle and the host alerts of Beszel into Pushover  *)
(* messages, under a daily ceiling, and keeps the health of containers and *)
(* the budget of the day in one file.                                      *)
(*                                                                         *)
(* A request stamps itself (utc_now()), waits for the flock of the file,   *)
(* and then, all under the flock: drops what it published before, reads    *)
(* the file, decides, publishes, raises the floor in memory, and replaces  *)
(* the file.  The container may stop at any point: the file stays, the     *)
(* floor and the memory of what was published go.                          *)
(***************************************************************************)
EXTENDS Integers, Sequences, FiniteSets, Functions

CONSTANTS
  Thread,           \* concurrent requests
  Identity,         \* host and containerId, numbered in the order of their names
  NoOne,            \* no identity: an alert of Beszel
  Former,           \* <<old, new>>: new recorded under Golem's one former name
  Events,           \* what Dozzle and Beszel may post
  Legacy,           \* identities a file of schema 1 may hold as unhealthy
  Unset,            \* no budget, no day
  ContainerCeiling, OomCeiling, GlobalCeiling,
  MaxEntries,       \* MAX_STATE_ENTRIES
  MaxCounters,      \* MAX_BUDGET_ENTRIES
  MaxSize,          \* MAX_STATE_BYTES, in records of either sort
  Retention,        \* HEALTHY_RETENTION, in ticks
  Window,           \* DUPLICATE_WINDOW, in ticks
  Capacity,         \* MAX_DUPLICATE_ENTRIES
  TicksPerDay,
  MaxClock, MaxRequests, MaxRestarts  \* bounds: ticks, requests, restarts

Rules   == {"OOM", "Unexpected exit", "Unhealthy", "Recovery", "beszel"}
Counter == [count : Nat, notified : BOOLEAN]
Budgets == [day : Nat, count : Nat, notified : BOOLEAN,
            containers : UNION {[D -> Counter] : D \in SUBSET Identity}]

ASSUME RelayAssumption ==
  /\ Identity \subseteq Nat /\ IsFiniteSet(Identity) /\ NoOne \notin Identity
  /\ Former \subseteq Identity \X Identity /\ Legacy \subseteq Identity
  /\ \A p, q \in Former : p[2] # q[1] /\ (p[1] = q[1] <=> p[2] = q[2])
  /\ Events \subseteq [rule : Rules, id : Identity \cup {NoOne}, at : Nat \ {0}]
  /\ \A e \in Events : e.id = NoOne <=> e.rule = "beszel"
  /\ Unset \notin Nat \cup Budgets
  /\ {ContainerCeiling, OomCeiling, GlobalCeiling} \subseteq Nat \ {0}
  /\ {MaxEntries, MaxCounters, MaxSize, Capacity, TicksPerDay} \subseteq Nat \ {0}
  /\ {Retention, Window, MaxClock, MaxRequests, MaxRestarts} \subseteq Nat

VARIABLES
  clock,      \* the wall clock, in ticks
  store,      \* the file: health entries, the budget, and whether its schema is old
  floor,      \* BudgetFloor: the budget this process has authorised
  delivered,  \* DeliveredEvents: <<event, stamp>>, oldest first
  req,        \* the request each thread serves
  requests, restarts,  \* how many there were
  sent,       \* history: alerts published, by the day of their stamp
  announced,  \* history: <<day, scope>> of the ceiling notices published
  hushed,     \* history: <<day, scope>> of the alerts a ceiling kept back
  told,       \* history: <<identity, timestamp>> of Unhealthy events decided on
  log,        \* history: the last Capacity events this process published, with their stamps
  order       \* history: the latest stamp under the flock, how often the next was of a day
              \* before, whether it ever was earlier, whether a replacement failed

service == <<store, floor, delivered, req>>
past    == <<sent, announced, hushed, told, log, order>>
vars    == <<clock, service, requests, restarts, past>>

Day(tick) == tick \div TicksPerDay
EmptyBudget(day) == [day |-> day, count |-> 0, notified |-> FALSE,
                     containers |-> [i \in {} |-> [count |-> 0, notified |-> FALSE]]]
NoEntries == [i \in {} |-> [state |-> "healthy", at |-> 0]]
Free  == [pc |-> "free"]
Locked == {t \in Thread : req[t].pc \in {"publishing", "persisting"}}

Put(f, key, value) == [x \in DOMAIN f \cup {key} |-> IF x = key THEN value ELSE f[x]]
Larger(a, b) == IF a >= b THEN a ELSE b

-----------------------------------------------------------------------------
(* The budget. *)

Rolled(budget, day) ==
  IF budget = Unset THEN EmptyBudget(day)
  ELSE IF budget.day # day THEN EmptyBudget(day) ELSE budget

Count(budget, i) ==
  IF i \in DOMAIN budget.containers THEN budget.containers[i]
  ELSE [count |-> 0, notified |-> FALSE]

(* Mutant: the store alone is believed. *)
MutantRaised(budget) == budget

Raised(budget) ==
  IF floor = Unset THEN budget
  ELSE IF floor.day # budget.day THEN budget
  ELSE [day |-> budget.day,
        count |-> Larger(budget.count, floor.count),
        notified |-> budget.notified \/ floor.notified,
        containers |-> [i \in DOMAIN budget.containers \cup DOMAIN floor.containers |->
          [count |-> Larger(Count(budget, i).count, Count(floor, i).count),
           notified |-> Count(budget, i).notified \/ Count(floor, i).notified]]]

CeilingOf(rule) == IF rule = "OOM" THEN OomCeiling ELSE ContainerCeiling

(* charge_budget(): what becomes of the alert, whose ceiling (NoOne: the      *)
(* global one) stopped it, and the budget that leaves.                       *)
Decision(kind, scope, budget) == [kind |-> kind, scope |-> scope, budget |-> budget]

Charge(budget, e) ==
  LET used    == Count(budget, e.id)
      Spent   == [budget EXCEPT !.count = @ + 1]
      With(u) == Put(budget.containers, e.id, u)
  IN CASE budget.count >= GlobalCeiling /\ budget.notified -> Decision("silent", NoOne, budget)
       [] budget.count >= GlobalCeiling /\ ~budget.notified ->
            Decision("notice", NoOne, [budget EXCEPT !.notified = TRUE])
       [] budget.count < GlobalCeiling /\ e.id = NoOne -> Decision("publish", NoOne, Spent)
       [] OTHER ->
            IF used.count < CeilingOf(e.rule)
            THEN Decision("publish", NoOne,
                   [Spent EXCEPT !.containers = With([used EXCEPT !.count = @ + 1])])
            ELSE IF used.notified THEN Decision("silent", e.id, budget)
            ELSE Decision("notice", e.id,
                   [budget EXCEPT !.containers = With([used EXCEPT !.notified = TRUE])])

-----------------------------------------------------------------------------
(* The health of containers. *)

(* What was recorded under Golem's former name becomes the container's.      *)
Renames(entries, i) == {o \in DOMAIN entries : <<o, i>> \in Former /\ i \notin DOMAIN entries}
Renamed(entries, i) ==
  [x \in (DOMAIN entries \ Renames(entries, i)) \cup (IF Renames(entries, i) = {} THEN {} ELSE {i}) |->
     IF x \in DOMAIN entries THEN entries[x] ELSE entries[CHOOSE o \in Renames(entries, i) : TRUE]]

IsHealth(e) == e.rule \in {"Unhealthy", "Recovery"}

(* Mutant: the order of the stamps is not looked at. *)
MutantOutdated(entries, e) ==
  IsHealth(e) /\ e.id \in DOMAIN entries /\ entries[e.id].state = "healthy" /\ e.rule = "Recovery"

(* health_transition(): an event older than what is recorded, or as old as a *)
(* recovery, is dropped.                                                     *)
Outdated(entries, e) ==
  /\ IsHealth(e) /\ e.id \in DOMAIN entries
  /\ \/ e.at < entries[e.id].at
     \/ e.at = entries[e.id].at /\ entries[e.id].state = "healthy"

Transition(entries, e) ==
  IF ~IsHealth(e) THEN entries
  ELSE Put(entries, e.id, [state |-> IF e.rule = "Unhealthy" THEN "unhealthy" ELSE "healthy",
                           at |-> e.at])

Publishes(entries, e) ==
  e.rule = "Recovery" => e.id \in DOMAIN entries /\ entries[e.id].state = "unhealthy"

-----------------------------------------------------------------------------
(* bounded_state(): healthy entries past their retention go; then counters,  *)
(* the smallest first; then healthy entries, the oldest first.               *)

Fits(entries, counters) ==
  entries <= MaxEntries /\ counters <= MaxCounters /\ entries + counters <= MaxSize

Unhealthy(entries) == {i \in DOMAIN entries : entries[i].state = "unhealthy"}
Retained(entries, now) ==
  Restrict(entries, {i \in DOMAIN entries :
    entries[i].state = "unhealthy" \/ entries[i].at >= now - Retention})

(* The k members of S that come last by a measure and then by name.          *)
LastOf(S, k, measure) ==
  {i \in S : Cardinality({o \in S : \/ measure[o] > measure[i]
                                    \/ measure[o] = measure[i] /\ o > i}) < k}

(* As many as fit, none when none do.                                        *)
Most(fitting) == IF fitting = {} THEN 0 ELSE CHOOSE n \in fitting : \A o \in fitting : o <= n

BoundedCounters(entries, containers) ==
  LET kept == Most({n \in 0..Cardinality(DOMAIN containers) : Fits(Cardinality(DOMAIN entries), n)})
  IN  Restrict(containers, LastOf(DOMAIN containers, kept, [i \in DOMAIN containers |-> containers[i].count]))

BoundedEntries(entries) ==
  LET healthy == DOMAIN entries \ Unhealthy(entries)
      kept == Most({n \in 0..Cardinality(healthy) : Fits(Cardinality(Unhealthy(entries)) + n, 0)})
  IN  Restrict(entries, Unhealthy(entries) \cup
                        LastOf(healthy, kept, [i \in healthy |-> entries[i].at]))

TooLarge(entries) == ~Fits(Cardinality(Unhealthy(entries)), 0)

-----------------------------------------------------------------------------
(* process_event() and process_beszel(), from the read to the replacement.   *)

(* Mutant: what was published this instant is not of the window. *)
MutantRecent(d, now) == 0 < now - d.at /\ now - d.at < Window

(* DeliveredEvents.seen() forgets, oldest first, what is not of the window   *)
(* before `now`, up to the first that is.                                    *)
Recent(d, now) == 0 <= now - d.at /\ now - d.at < Window
Recalled(now) ==
  LET kept == {k \in DOMAIN delivered : \E j \in 1..k : Recent(delivered[j], now)}
  IN  SubSeq(delivered, Len(delivered) - Cardinality(kept) + 1, Len(delivered))

Delivers(seq, e) == \E k \in DOMAIN seq : seq[k].event = e

(* DeliveredEvents.record() *)
Remember(seq, e, now) ==
  LET k      == CHOOSE k \in DOMAIN seq : seq[k].event = e
      others == IF Delivers(seq, e) THEN SubSeq(seq, 1, k - 1) \o SubSeq(seq, k + 1, Len(seq))
                ELSE seq
      all    == Append(others, [event |-> e, at |-> now])
  IN  IF Len(all) > Capacity THEN Tail(all) ELSE all

Read(e) == Renamed(store.entries, e.id)
Budget(now) == Raised(Rolled(store.budget, Day(now)))
Verdict(e, now) ==
  IF Publishes(Read(e), e) THEN Charge(Budget(now), e)
  ELSE Decision("nothing", NoOne, Budget(now))

(* What the request is going to publish and to write.                        *)
Plan(e, now) ==
  LET verdict == Verdict(e, now)
      health  == Retained(Transition(Read(e), e), now)
      entries == BoundedEntries(health)
      budget  == [verdict.budget EXCEPT !.containers = BoundedCounters(health, @)]
  IN  [kind |-> verdict.kind, scope |-> verdict.scope, entries |-> entries, budget |-> budget,
       write |-> store.legacy \/ entries # store.entries \/ budget # store.budget]

Init ==
  /\ clock = 0 /\ requests = 0 /\ restarts = 0
  /\ \E old \in SUBSET Legacy :
       store = [entries |-> [i \in old |-> [state |-> "unhealthy", at |-> 0]],
                budget |-> Unset, legacy |-> old # {}]
  /\ floor = Unset /\ delivered = <<>> /\ req = [t \in Thread |-> Free]
  /\ sent = [d \in 0..Day(MaxClock) |-> 0] /\ announced = {} /\ hushed = {} /\ told = {}
  /\ log = <<>>
  /\ order = [latest |-> 0, daysBack |-> 0, back |-> FALSE, failed |-> FALSE]

Become(t, r) == req' = [req EXCEPT ![t] = r]
Done(t) == Become(t, Free)

Tick ==
  /\ clock < MaxClock /\ clock' = clock + 1
  /\ UNCHANGED <<service, requests, restarts, past>>

(* The stamp comes before the lock. *)
Receive(t, e) ==
  /\ req[t] = Free /\ requests < MaxRequests /\ requests' = requests + 1
  /\ Become(t, [pc |-> "waiting", event |-> e, now |-> clock])
  /\ UNCHANGED <<clock, store, floor, delivered, restarts, past>>

(* Mutant: the flock is given up before the publish. *)
MutantEnters(t) == req[t].pc = "waiting"

Enters(t) == req[t].pc = "waiting" /\ Locked = {}
Forgets(t) ==
  /\ delivered' = IF req[t].event.id = NoOne THEN delivered ELSE Recalled(req[t].now)
  /\ order' = [order EXCEPT !.latest = Larger(@, req[t].now), !.back = @ \/ req[t].now < order.latest,
                 !.daysBack = IF Day(req[t].now) < Day(order.latest) THEN @ + 1 ELSE @]
Seen(t) == req[t].event.id # NoOne /\ Delivers(Recalled(req[t].now), req[t].event)

(* The lock, or then the file, is unavailable: 500. *)
Unavailable(t) ==
  /\ Enters(t) /\ Done(t)
  /\ UNCHANGED <<delivered, order>> \/ (~Seen(t) /\ Forgets(t))
  /\ UNCHANGED <<clock, store, floor, requests, restarts, sent, announced, hushed, told, log>>

(* Acknowledged and dropped, as a repeat or as out of date. *)
Drop(t) ==
  /\ Enters(t) /\ Done(t) /\ Forgets(t)
  /\ Seen(t) \/ Outdated(Read(req[t].event), req[t].event)
  /\ UNCHANGED <<clock, store, floor, requests, restarts, sent, announced, hushed, told, log>>

Proceeds(t) == Enters(t) /\ ~Seen(t) /\ ~Outdated(Read(req[t].event), req[t].event)
Health(t) == Transition(Read(req[t].event), req[t].event)

(* "unhealthy state exceeds bounds": 500, before anything is published. *)
Overflow(t) ==
  /\ Proceeds(t) /\ TooLarge(Health(t))
  /\ Done(t) /\ Forgets(t)
  /\ UNCHANGED <<clock, store, floor, requests, restarts, sent, announced, hushed, told, log>>

(* A request under the flock, with what it decided. *)
Under(pc, e, now, plan) == [pc |-> pc, event |-> e, now |-> now, plan |-> plan]

IsTold(e) == IF e.rule = "Unhealthy" THEN {<<e.id, e.at>>} ELSE {}

Decide(t) ==
  LET e    == req[t].event
      now  == req[t].now
      plan == Plan(e, now)
  IN /\ Proceeds(t) /\ ~TooLarge(Health(t)) /\ Forgets(t)
     /\ IF plan.kind \in {"publish", "notice"}
        THEN Become(t, Under("publishing", e, now, plan)) /\ UNCHANGED floor
        ELSE /\ floor' = plan.budget
             /\ IF plan.write THEN Become(t, Under("persisting", e, now, plan)) ELSE Done(t)
     /\ hushed' = hushed \cup (IF plan.kind = "silent" THEN {<<Day(now), plan.scope>>} ELSE {})
     /\ told' = told \cup (IF plan.kind = "silent" THEN IsTold(e) ELSE {})
     /\ UNCHANGED <<clock, store, requests, restarts, sent, announced, log>>

(* Mutants: what was refused is spent; what was refused is recorded. *)
MutantSpentRefused(t) ==
  /\ req[t].pc = "publishing" /\ Done(t) /\ floor' = req[t].plan.budget
  /\ UNCHANGED <<clock, store, delivered, requests, restarts, past>>
MutantRecordedRefused(t) ==
  /\ req[t].pc = "publishing" /\ req' = [req EXCEPT ![t].pc = "persisting"]
  /\ UNCHANGED <<clock, store, floor, delivered, requests, restarts, past>>

(* Pushover refuses or does not answer: 502, and nothing is spent. *)
PublishRefused(t) ==
  /\ req[t].pc = "publishing" /\ Done(t)
  /\ UNCHANGED <<clock, store, floor, delivered, requests, restarts, past>>

PublishAccepted(t) ==
  LET e    == req[t].event
      now  == req[t].now
      plan == req[t].plan
  IN /\ req[t].pc = "publishing"
     /\ IF plan.write THEN Become(t, Under("persisting", e, now, plan)) ELSE Done(t)
     /\ delivered' = IF e.id = NoOne THEN delivered ELSE Remember(delivered, e, now)
     /\ floor' = plan.budget
     /\ sent' = IF plan.kind = "publish" THEN [sent EXCEPT ![Day(now)] = @ + 1] ELSE sent
     /\ announced' = announced \cup
                     (IF plan.kind = "notice" THEN {<<Day(now), plan.scope>>} ELSE {})
     /\ told' = told \cup IsTold(e)
     /\ log' = IF e.id = NoOne THEN log
               ELSE LET all == Append(log, [event |-> e, at |-> now])
                    IN  IF Len(all) > Capacity THEN Tail(all) ELSE all
     /\ UNCHANGED <<clock, store, requests, restarts, hushed, order>>

Replaced(t) == [entries |-> req[t].plan.entries, budget |-> req[t].plan.budget, legacy |-> FALSE]

Persist(t) ==
  /\ req[t].pc = "persisting" /\ Done(t) /\ store' = Replaced(t)
  /\ UNCHANGED <<clock, floor, delivered, requests, restarts, past>>

(* The replacement failed, before or after the rename: 500. *)
PersistFails(t) ==
  /\ req[t].pc = "persisting" /\ Done(t) /\ store' \in {store, Replaced(t)}
  /\ order' = [order EXCEPT !.failed = TRUE]
  /\ UNCHANGED <<clock, floor, delivered, requests, restarts, sent, announced, hushed, told, log>>

(* The process ends, with its requests, its floor and its memory. *)
Restart ==
  /\ restarts < MaxRestarts /\ restarts' = restarts + 1
  /\ req' = [t \in Thread |-> Free] /\ floor' = Unset /\ delivered' = <<>> /\ log' = <<>>
  /\ UNCHANGED <<clock, store, requests, sent, announced, hushed, told, order>>

Serve(t) ==
  \/ \E e \in Events : Receive(t, e)
  \/ Unavailable(t) \/ Drop(t) \/ Overflow(t) \/ Decide(t)
  \/ PublishRefused(t) \/ PublishAccepted(t)
  \/ Persist(t) \/ PersistFails(t)

Next == Tick \/ Restart \/ \E t \in Thread : Serve(t)

Spec == Init /\ [][Next]_vars

-----------------------------------------------------------------------------
Entry   == [state : {"healthy", "unhealthy"}, at : Nat]
Scopes  == Identity \cup {NoOne}

IsEntries(f) == DOMAIN f \subseteq Identity /\ f \in [DOMAIN f -> Entry]
IsBudget(b) ==
  /\ DOMAIN b = {"day", "count", "notified", "containers"}
  /\ b.day \in Nat /\ b.count \in Nat /\ b.notified \in BOOLEAN
  /\ DOMAIN b.containers \subseteq Identity
  /\ b.containers \in [DOMAIN b.containers -> Counter]

RequestType(r) ==
  \/ r = Free
  \/ r.pc = "waiting" /\ r.event \in Events /\ r.now \in Nat
  \/ /\ r.pc \in {"publishing", "persisting"} /\ r.event \in Events /\ r.now \in Nat
     /\ IsEntries(r.plan.entries) /\ IsBudget(r.plan.budget)
     /\ Fits(Cardinality(DOMAIN r.plan.entries), Cardinality(DOMAIN r.plan.budget.containers))

(* Types, and the bounds of the file: what is written fits, and none but the *)
(* holder of the flock is past its decision.                                 *)
TypeOK ==
  /\ IsEntries(store.entries) /\ store.legacy \in BOOLEAN
  /\ store.budget = Unset \/ IsBudget(store.budget)
  /\ floor = Unset \/ IsBudget(floor)
  /\ \A k \in DOMAIN delivered : delivered[k].event \in Events /\ delivered[k].at \in Nat
  /\ Len(delivered) <= Capacity
  /\ \A t \in Thread : RequestType(req[t])
  /\ Cardinality(Locked) <= 1
  /\ announced \cup hushed \subseteq Nat \X Scopes

(* The ceiling holds for a day whatever the threads interleave, through the  *)
(* refusals of Pushover, failing writes and restarts: a restart lets at most *)
(* the one alert through that it interrupted, and a whole allowance only if  *)
(* a write had failed; so does a request that was stamped the day before one *)
(* that had the flock.                                                        *)
WithinAllowance ==
  \A d \in DOMAIN sent :
    sent[d] <= GlobalCeiling * (1 + order.daysBack + (IF order.failed THEN restarts ELSE 0))
               + restarts

(* No alert is kept back by a ceiling of which no notice went out that day:  *)
(* a refused notice, a failed write or a restart never makes it forgotten.   *)
SilenceIsAnnounced == hushed \subseteq announced

(* What the file calls unhealthy was published, or stood for by a notice: no *)
(* refusal, drop or failed write records what nobody was told, which would   *)
(* then be taken for old news.                                               *)
UnhealthyIsTold ==
  \A i \in Unhealthy(store.entries) : \E j \in Identity :
    /\ j = i \/ <<j, i>> \in Former
    /\ store.entries[i].at = 0 \/ <<j, store.entries[i].at>> \in told

(* The recorded health of a container never goes back to an older event, and *)
(* an unhealthy entry goes only with its recovery (at once where that is past *)
(* its retention): no late request, restart or shedding of a full file drops *)
(* one, though it may take a new name.                                       *)
EntriesGoForward ==
  \A i \in DOMAIN store.entries :
    LET was == store.entries[i] IN
    /\ i \in DOMAIN store'.entries =>
         \/ store'.entries[i].at > was.at
         \/ store'.entries[i].at = was.at /\ (was.state = "unhealthy" \/ store'.entries[i] = was)
    /\ i \notin DOMAIN store'.entries =>
         \/ was.state = "healthy"
         \/ \E j \in DOMAIN store'.entries : <<i, j>> \in Former /\ store'.entries[j].at >= was.at
         \/ \E t \in Locked : /\ req[t].event.rule = "Recovery" /\ req[t].event.at >= was.at
                              /\ (req[t].event.id = i \/ <<i, req[t].event.id>> \in Former)

HealthMovesForward == [][EntriesGoForward]_vars

(* An event is published again within the window only if Capacity others     *)
(* were since, or a restart forgot it, as long as requests get the flock in  *)
(* the order of their stamps.                                                *)
Repeats(seq) ==
  \E j, k \in DOMAIN seq :
    j < k /\ seq[j].event = seq[k].event /\ seq[k].at - seq[j].at < Window

RepeatsDroppedInOrder == order.back \/ ~Repeats(log)

-----------------------------------------------------------------------------
(* What the repository says of the relay and the code does not deliver.      *)

(* alert_relay.py at DUPLICATE_WINDOW: an envelope "identical to one already *)
(* published within this window is acknowledged and dropped".                *)
RepeatsDropped == ~Repeats(log)
=============================================================================

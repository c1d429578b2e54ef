-------------------------- MODULE AlertRelay_proofs --------------------------
(***************************************************************************)
(* Proofs about the alert relay, for any number of threads, any containers,*)
(* any ceilings and bounds, and any number of requests and restarts.       *)
(***************************************************************************)
EXTENDS AlertRelay, FiniteSetTheorems, TLAPS

-----------------------------------------------------------------------------
(* What the state consists of. *)
EntryMaps   == UNION {[D -> Entry] : D \in SUBSET Identity}
CounterMaps == UNION {[D -> Counter] : D \in SUBSET Identity}
Plans       == [kind : {"publish", "notice", "silent", "nothing"}, scope : Scopes,
                entries : EntryMaps, budget : Budgets, write : BOOLEAN]
Stamp       == 0 .. MaxClock
Waiting     == [pc : {"waiting"}, event : Events, now : Stamp]
Deciding    == [pc : {"publishing", "persisting"}, event : Events, now : Stamp, plan : Plans]
Publication == [event : Events, at : Stamp]

LEMMA MapsAreTyped ==
  /\ \A f : f \in EntryMaps <=> IsEntries(f)
  /\ \A f : f \in CounterMaps <=> DOMAIN f \subseteq Identity /\ f \in [DOMAIN f -> Counter]
  BY DEF EntryMaps, CounterMaps, IsEntries, Counter

LEMMA BudgetsAre ==
  Budgets = [day : Nat, count : Nat, notified : BOOLEAN, containers : CounterMaps]
  BY DEF Budgets, CounterMaps

LEMMA BudgetsAreTyped == \A b \in Budgets : IsBudget(b)
  BY MapsAreTyped DEF Budgets, CounterMaps, IsBudget

LEMMA DaysGoOn ==
  ASSUME NEW a \in Nat, NEW b \in Nat
  PROVE  Day(a) \in Nat /\ (a <= b => Day(a) <= Day(b))
  BY RelayAssumption DEF Day

LEMMA EventIsOf ==
  ASSUME NEW e \in Events
  PROVE  /\ e.rule \in Rules /\ e.id \in Scopes /\ e.at \in Nat \ {0}
         /\ e.id = NoOne <=> e.rule = "beszel"
         /\ IsHealth(e) => e.id \in Identity
         /\ e.id \in Identity <=> e.id # NoOne
  BY RelayAssumption DEF Scopes, IsHealth, Rules

-----------------------------------------------------------------------------
(* The budget: rolling and raising it. *)
LEMMA CountIsOf ==
  ASSUME NEW b \in Budgets, NEW i
  PROVE  Count(b, i) \in Counter
<1>1. CASE i \in DOMAIN b.containers
  BY <1>1, MapsAreTyped DEF Count, Budgets, CounterMaps
<1>2. CASE i \notin DOMAIN b.containers
  BY <1>2 DEF Count, Counter
<1> QED BY <1>1, <1>2

LEMMA RolledIsOf ==
  ASSUME NEW b \in Budgets \cup {Unset}, NEW day \in Nat
  PROVE  /\ Rolled(b, day) \in Budgets /\ Rolled(b, day).day = day
         /\ Rolled(b, day) = b \/ Rolled(b, day) = EmptyBudget(day)
         /\ b # Unset /\ b.day = day => Rolled(b, day) = b
<1>1. EmptyBudget(day) \in Budgets /\ EmptyBudget(day).day = day
  <2>1. [i \in {} |-> [count |-> 0, notified |-> FALSE]] \in CounterMaps
    BY MapsAreTyped
  <2> QED BY <2>1 DEF EmptyBudget, Budgets, CounterMaps
<1> QED BY <1>1 DEF Rolled

LEMMA RaisedIsOf ==
  ASSUME NEW b \in Budgets, floor \in Budgets \cup {Unset}
  PROVE  /\ Raised(b) \in Budgets /\ Raised(b).day = b.day
         /\ Raised(b).count >= b.count
         /\ floor = Unset \/ floor.day # b.day => Raised(b) = b
         /\ floor # Unset /\ floor.day = b.day =>
              /\ Raised(b).count = Larger(b.count, floor.count)
              /\ Raised(b).notified = (b.notified \/ floor.notified)
              /\ DOMAIN Raised(b).containers = DOMAIN b.containers \cup DOMAIN floor.containers
              /\ \A i \in DOMAIN Raised(b).containers :
                   Raised(b).containers[i].notified
                     = (Count(b, i).notified \/ Count(floor, i).notified)
<1>1. CASE floor = Unset \/ floor.day # b.day
  <2>1. Raised(b) = b
    BY <1>1 DEF Raised
  <2> QED BY <1>1, <2>1 DEF Budgets, CounterMaps
<1>2. CASE floor # Unset /\ floor.day = b.day
  <2> DEFINE D == DOMAIN b.containers \cup DOMAIN floor.containers
             all == [i \in D |-> [count |-> Larger(Count(b, i).count, Count(floor, i).count),
                                  notified |-> Count(b, i).notified \/ Count(floor, i).notified]]
  <2>1. Raised(b) = [day |-> b.day, count |-> Larger(b.count, floor.count),
                     notified |-> b.notified \/ floor.notified, containers |-> all]
    BY <1>2 DEF Raised
  <2>2. floor \in Budgets
    BY <1>2
  <2>3. \A i \in D : all[i] \in Counter
    BY <2>2, CountIsOf DEF Counter, Larger
  <2>4. D \subseteq Identity
    BY <2>2, MapsAreTyped DEF Budgets, CounterMaps
  <2>5. all \in CounterMaps
    <3>1. DOMAIN all = D /\ all \in [D -> Counter]
      BY <2>3
    <3> HIDE DEF all
    <3> QED BY <2>4, <3>1, MapsAreTyped
  <2> HIDE DEF all
  <2>6. Raised(b) \in Budgets
    BY <2>1, <2>2, <2>5 DEF Budgets, CounterMaps, Larger
  <2>7. Raised(b).count >= b.count /\ Raised(b).day = b.day
    BY <2>1, <2>2 DEF Budgets, CounterMaps, Larger
  <2> USE DEF all
  <2> QED BY <1>2, <2>1, <2>6, <2>7
<1> QED BY <1>1, <1>2

(* The ceiling notices a budget says were given.                             *)
Noticed(b) ==
  {<<b.day, s>> : s \in {x \in Scopes : \/ x = NoOne /\ b.notified
                                        \/ x \in DOMAIN b.containers /\ b.containers[x].notified}}
NoticesOf(b) == IF b = Unset THEN {} ELSE Noticed(b)

LEMMA NoticedIsOf ==
  ASSUME NEW b \in Budgets
  PROVE  /\ Noticed(b) \subseteq Nat \X Scopes
         /\ b # Unset
         /\ \A p \in Noticed(b) : p[1] = b.day
         /\ \A d, s : <<d, s>> \in Noticed(b) <=>
              d = b.day /\ s \in Scopes /\ \/ s = NoOne /\ b.notified
                                           \/ s \in DOMAIN b.containers /\ b.containers[s].notified
<1>1. b # Unset
  BY RelayAssumption DEF Budgets, CounterMaps
<1> QED BY <1>1 DEF Noticed, Budgets, CounterMaps

(* Rolling and raising a budget takes no notice back, and none is made up.   *)
LEMMA RaisedKeepsNotices ==
  ASSUME floor \in Budgets \cup {Unset}, NEW b \in Budgets \cup {Unset}, NEW day \in Nat
  PROVE  Noticed(Raised(Rolled(b, day))) \subseteq NoticesOf(b) \cup NoticesOf(floor)
<1> DEFINE r == Rolled(b, day)
           R == Raised(r)
<1>1. /\ r \in Budgets /\ r.day = day /\ (r = b \/ r = EmptyBudget(day))
  BY RolledIsOf
<1>2. R \in Budgets /\ R.day = day
  BY <1>1, RaisedIsOf
<1>3. Noticed(r) \subseteq NoticesOf(b)
  <2>1. CASE r = b
    BY <1>1, <2>1, NoticedIsOf DEF NoticesOf
  <2>2. CASE r = EmptyBudget(day)
    <3>1. r.notified = FALSE /\ DOMAIN r.containers = {}
      BY <2>2 DEF EmptyBudget
    <3> HIDE DEF r
    <3> QED BY <3>1 DEF Noticed
  <2> QED BY <1>1, <2>1, <2>2
<1>4. CASE floor = Unset \/ floor.day # r.day
  BY <1>1, <1>3, <1>4, RaisedIsOf
<1>5. CASE floor # Unset /\ floor.day = r.day
  <2> HIDE DEF r, R
  <2>1. /\ R.notified = (r.notified \/ floor.notified)
        /\ DOMAIN R.containers = DOMAIN r.containers \cup DOMAIN floor.containers
        /\ \A i \in DOMAIN R.containers :
             R.containers[i].notified = (Count(r, i).notified \/ Count(floor, i).notified)
    BY <1>1, <1>5, RaisedIsOf DEF R
  <2>2. floor \in Budgets
    BY <1>5
  <2> SUFFICES ASSUME NEW s \in Scopes, <<day, s>> \in Noticed(R)
               PROVE  <<day, s>> \in Noticed(r) \cup Noticed(floor)
    <3>1. \A q \in Noticed(R) : q = <<day, q[2]>> /\ q[2] \in Scopes
      BY <1>2 DEF Noticed
    <3>2. \A q \in Noticed(R) : q[1] = day
      BY <1>2, NoticedIsOf DEF R
    <3>3. Noticed(R) \subseteq Noticed(r) \cup Noticed(floor)
      BY <3>1
    <3>4. NoticesOf(floor) = Noticed(floor)
      BY <1>5 DEF NoticesOf
    <3> QED BY <1>3, <3>3, <3>4 DEF R, r
  <2>3. CASE s = NoOne /\ R.notified
    BY <1>1, <1>5, <2>1, <2>2, <2>3, NoticedIsOf
  <2>4. CASE s \in DOMAIN R.containers /\ R.containers[s].notified
    <3>1. Count(r, s).notified \/ Count(floor, s).notified
      BY <2>1, <2>4
    <3>2. CASE Count(r, s).notified
      <4>1. s \in DOMAIN r.containers /\ r.containers[s].notified
        BY <3>2 DEF Count
      <4> QED BY <1>1, <4>1, NoticedIsOf
    <3>3. CASE Count(floor, s).notified
      <4>1. s \in DOMAIN floor.containers /\ floor.containers[s].notified
        BY <3>3 DEF Count
      <4> QED BY <1>1, <1>5, <2>2, <4>1, NoticedIsOf
    <3> QED BY <3>1, <3>2, <3>3
  <2> QED BY <1>2, <2>3, <2>4, NoticedIsOf DEF R
<1> QED BY <1>4, <1>5

(* What charge_budget() does of a budget: one alert is counted if and only   *)
(* if it is published, and never beyond the ceiling; a notice is noted; and  *)
(* only a ceiling whose notice was given keeps an alert back.                *)
LEMMA PutIsOf ==
  ASSUME NEW g \in CounterMaps, NEW i \in Identity, NEW c \in Counter
  PROVE  Put(g, i, c) \in CounterMaps
<1> DEFINE f == Put(g, i, c)
<1>2. /\ DOMAIN f = DOMAIN g \cup {i}
      /\ \A x \in DOMAIN f : f[x] = IF x = i THEN c ELSE g[x]
  BY DEF Put
<1>3. f \in [DOMAIN f -> Counter]
  BY MapsAreTyped DEF Put
<1> HIDE DEF f
<1>4. f \in CounterMaps
  BY <1>2, <1>3, MapsAreTyped
<1> QED BY <1>2, <1>4 DEF f

LEMMA ChargeIsOf ==
  ASSUME NEW b \in Budgets, NEW e \in Events
  PROVE  LET c == Charge(b, e) IN
         /\ c.kind \in {"publish", "notice", "silent"} /\ c.scope \in Scopes
         /\ c.budget \in Budgets /\ c.budget.day = b.day
         /\ c.kind = "publish" => b.count < GlobalCeiling /\ c.budget.count = b.count + 1
         /\ c.kind # "publish" => c.budget.count = b.count
         /\ Noticed(c.budget) \subseteq
              Noticed(b) \cup (IF c.kind = "notice" THEN {<<b.day, c.scope>>} ELSE {})
         /\ c.kind = "silent" => <<b.day, c.scope>> \in Noticed(b)
<1> DEFINE c == Charge(b, e)
           used == Count(b, e.id)
           Spent == [b EXCEPT !.count = @ + 1]
           With(u) == Put(b.containers, e.id, u)
<1> USE RelayAssumption
<1>0. /\ b.day \in Nat /\ b.count \in Nat /\ b.notified \in BOOLEAN
      /\ b.containers \in CounterMaps /\ NoOne \in Scopes /\ GlobalCeiling \in Nat
  BY BudgetsAre DEF Scopes
<1>9. /\ Spent \in Budgets /\ Spent.day = b.day /\ Spent.count = b.count + 1
      /\ Spent.containers = b.containers /\ Spent.notified = b.notified
  <2>1. b.count + 1 \in Nat
    BY <1>0
  <2> QED BY <1>0, <2>1, BudgetsAre
<1> HIDE DEF Spent
<1>1. CASE b.count >= GlobalCeiling /\ b.notified
  <2>1. c = Decision("silent", NoOne, b)
    BY <1>0, <1>1 DEF Charge
  <2>2. c.kind = "silent" /\ c.scope = NoOne /\ c.budget = b
    BY <2>1 DEF Decision
  <2> QED BY <1>0, <1>1, <2>2, NoticedIsOf
<1>2. CASE b.count >= GlobalCeiling /\ ~b.notified
  <2>1. c = Decision("notice", NoOne, [b EXCEPT !.notified = TRUE])
    BY <1>0, <1>2 DEF Charge
  <2>2. /\ c.kind = "notice" /\ c.scope = NoOne /\ c.budget = [b EXCEPT !.notified = TRUE]
    BY <2>1 DEF Decision
  <2>3. /\ c.budget \in Budgets /\ c.budget.day = b.day /\ c.budget.count = b.count
        /\ c.budget.containers = b.containers
    BY <2>2, BudgetsAre
  <2>4. Noticed(c.budget) \subseteq Noticed(b) \cup {<<b.day, NoOne>>}
    BY <2>3 DEF Noticed
  <2> QED BY <1>0, <2>2, <2>3, <2>4
<1>3. CASE b.count < GlobalCeiling /\ e.id = NoOne
  <2>1. c = Decision("publish", NoOne, Spent)
    BY <1>0, <1>3 DEF Charge, Spent
  <2>2. c.kind = "publish" /\ c.scope = NoOne /\ c.budget = Spent
    BY <2>1 DEF Decision
  <2>3. /\ c.budget \in Budgets /\ c.budget.day = b.day /\ c.budget.count = b.count + 1
        /\ c.budget.containers = b.containers /\ c.budget.notified = b.notified
    BY <1>0, <2>2, <1>9
  <2>4. Noticed(c.budget) = Noticed(b)
    BY <2>3 DEF Noticed
  <2> QED BY <1>0, <1>3, <2>2, <2>3, <2>4
<1>4. CASE b.count < GlobalCeiling /\ e.id # NoOne
  <2>0. e.id \in Identity /\ used \in Counter /\ e.id \in Scopes
    BY <1>4, EventIsOf, CountIsOf
  <2>9. c = IF used.count < CeilingOf(e.rule)
            THEN Decision("publish", NoOne,
                   [Spent EXCEPT !.containers = With([used EXCEPT !.count = @ + 1])])
            ELSE IF used.notified THEN Decision("silent", e.id, b)
            ELSE Decision("notice", e.id,
                   [b EXCEPT !.containers = With([used EXCEPT !.notified = TRUE])])
    BY <1>0, <1>4 DEF Charge, Spent
  <2>1. CASE used.count < CeilingOf(e.rule)
    <3> DEFINE more == [used EXCEPT !.count = @ + 1]
    <3>1. /\ c.kind = "publish" /\ c.scope = NoOne
          /\ c.budget = [Spent EXCEPT !.containers = With(more)]
      BY <2>1, <2>9 DEF Decision
    <3>2. more \in Counter /\ more.notified = used.notified
      BY <2>0 DEF Counter
    <3>3. /\ With(more) \in CounterMaps /\ DOMAIN With(more) = DOMAIN b.containers \cup {e.id}
          /\ \A x \in DOMAIN With(more) :
               With(more)[x] = IF x = e.id THEN more ELSE b.containers[x]
      <4>1. /\ e.id \in Identity /\ more \in Counter
        BY <2>0, <3>2
      <4> HIDE DEF more
      <4> DEFINE f == Put(b.containers, e.id, more)
      <4>2. f \in CounterMaps
        BY <1>0, <4>1, PutIsOf
      <4>3. /\ DOMAIN f = DOMAIN b.containers \cup {e.id}
            /\ \A x \in DOMAIN f : f[x] = IF x = e.id THEN more ELSE b.containers[x]
        BY DEF Put
      <4> QED BY <4>2, <4>3
    <3> HIDE DEF more, With
    <3>4. /\ c.budget \in Budgets /\ c.budget.day = b.day /\ c.budget.count = b.count + 1
          /\ c.budget.containers = With(more) /\ c.budget.notified = b.notified
      BY <1>0, <1>9, <3>1, <3>3, BudgetsAre
    <3>5. used.notified => e.id \in DOMAIN b.containers /\ b.containers[e.id].notified
      BY DEF Count
    <3>6. Noticed(c.budget) \subseteq Noticed(b)
      BY <3>2, <3>3, <3>4, <3>5 DEF Noticed
    <3> QED BY <1>0, <1>4, <3>1, <3>4, <3>6
  <2>2. CASE used.count >= CeilingOf(e.rule) /\ used.notified
    <3>1. c.kind = "silent" /\ c.scope = e.id /\ c.budget = b
      BY <2>0, <2>2, <2>9 DEF Decision, CeilingOf, Counter
    <3>2. e.id \in DOMAIN b.containers /\ b.containers[e.id].notified
      BY <2>2 DEF Count
    <3> QED BY <1>0, <2>0, <3>1, <3>2, NoticedIsOf
  <2>3. CASE used.count >= CeilingOf(e.rule) /\ ~used.notified
    <3> DEFINE told1 == [used EXCEPT !.notified = TRUE]
    <3>1. /\ c.kind = "notice" /\ c.scope = e.id
          /\ c.budget = [b EXCEPT !.containers = With(told1)]
      BY <2>0, <2>3, <2>9 DEF Decision, CeilingOf, Counter
    <3>2. told1 \in Counter
      BY <2>0 DEF Counter
    <3>3. /\ With(told1) \in CounterMaps /\ DOMAIN With(told1) = DOMAIN b.containers \cup {e.id}
          /\ \A x \in DOMAIN With(told1) :
               With(told1)[x] = IF x = e.id THEN told1 ELSE b.containers[x]
      <4>1. /\ e.id \in Identity /\ told1 \in Counter
        BY <2>0, <3>2
      <4> HIDE DEF told1
      <4> DEFINE f == Put(b.containers, e.id, told1)
      <4>2. f \in CounterMaps
        BY <1>0, <4>1, PutIsOf
      <4>3. /\ DOMAIN f = DOMAIN b.containers \cup {e.id}
            /\ \A x \in DOMAIN f : f[x] = IF x = e.id THEN told1 ELSE b.containers[x]
        BY DEF Put
      <4> QED BY <4>2, <4>3
    <3> HIDE DEF told1, With
    <3>4. /\ c.budget \in Budgets /\ c.budget.day = b.day /\ c.budget.count = b.count
          /\ c.budget.containers = With(told1) /\ c.budget.notified = b.notified
      BY <1>0, <3>1, <3>3, BudgetsAre
    <3>5. Noticed(c.budget) \subseteq Noticed(b) \cup {<<b.day, e.id>>}
      BY <3>3, <3>4 DEF Noticed
    <3> QED BY <1>0, <2>0, <3>1, <3>4, <3>5
  <2>4. used.count < CeilingOf(e.rule) \/ used.count >= CeilingOf(e.rule)
    BY <2>0 DEF Counter, CeilingOf
  <2> QED BY <2>0, <2>1, <2>2, <2>3, <2>4 DEF Counter
<1> QED BY <1>0, <1>1, <1>2, <1>3, <1>4

-----------------------------------------------------------------------------
(* The bounds of the file.                                                   *)
LEMMA FitsLess ==
  ASSUME NEW m \in Nat, NEW n \in Nat, NEW m1 \in 0 .. m, NEW n1 \in 0 .. n, Fits(m, n)
  PROVE  Fits(m1, n1)
  BY RelayAssumption DEF Fits

LEMMA LessFromEnd ==
  ASSUME NEW N \in Nat, NEW n \in Nat, NEW o \in Nat, ~(N - o < N - n)
  PROVE  o <= n
  OBVIOUS

(* As many as fit do fit.                                                    *)
LEMMA MostIsOne ==
  ASSUME NEW N \in Nat, NEW some \in SUBSET (0 .. N)
  PROVE  /\ Most(some) \in Nat
         /\ some # {} => Most(some) \in some
         /\ some = {} => Most(some) = 0
<1>1. CASE some = {}
  BY <1>1 DEF Most
<1>2. CASE some # {}
  <2> DEFINE left == {N - n : n \in some}
  <2>1. left \subseteq Nat /\ left # {}
    <3>1. PICK n \in some : TRUE
      BY <1>2
    <3>2. N - n \in left
      BY <3>1
    <3>3. left \subseteq Nat
      OBVIOUS
    <3> QED BY <3>2, <3>3
  <2>2. PICK x \in left : \A y \in left : ~(<<y, x>> \in OpToRel(<, Nat))
    BY <2>1, NatLessThanWellFounded, WFMin
  <2>3. PICK n \in some : x = N - n
    BY <2>2
  <2>4. \A o \in some : o <= n
    <3> SUFFICES ASSUME NEW o \in some PROVE o <= n
      OBVIOUS
    <3>1. n \in 0 .. N /\ o \in 0 .. N
      OBVIOUS
    <3>2. N - o \in left
      OBVIOUS
    <3> HIDE DEF left
    <3>3. N - o \in Nat /\ N - n \in Nat
      BY <3>1
    <3>4. ~(N - o < N - n)
      BY <2>2, <2>3, <3>2, <3>3 DEF OpToRel
    <3>5. n \in Nat /\ o \in Nat
      BY <3>1
    <3> QED BY <3>4, <3>5, LessFromEnd
  <2>5. Most(some) = CHOOSE m \in some : \A o \in some : o <= m
    BY <1>2 DEF Most
  <2>6. Most(some) \in some
    BY <2>4, <2>5
  <2> HIDE DEF left
  <2>7. Most(some) \in 0 .. N
    BY <2>6
  <2> QED BY <1>2, <2>6, <2>7
<1> QED BY <1>1, <1>2

(* Of any set at most k members come last.                                   *)
LEMMA LastAreFew ==
  ASSUME NEW S \in SUBSET Nat, IsFiniteSet(S), NEW measure \in [S -> Nat], NEW k \in Nat
  PROVE  /\ LastOf(S, k, measure) \subseteq S
         /\ IsFiniteSet(LastOf(S, k, measure))
         /\ Cardinality(LastOf(S, k, measure)) <= k
<1> DEFINE After(i) == {o \in S : \/ measure[o] > measure[i]
                                  \/ measure[o] = measure[i] /\ o > i}
           T == LastOf(S, k, measure)
           rank == [i \in T |-> Cardinality(After(i))]
<1>1. T \subseteq S /\ \A i \in T : Cardinality(After(i)) < k
  BY DEF LastOf
<1>2. \A i \in S : IsFiniteSet(After(i)) /\ Cardinality(After(i)) \in Nat
  BY FS_Subset, FS_CardinalityType
<1>3. \A i, j \in S : j \in After(i) => Cardinality(After(j)) < Cardinality(After(i))
  <2> SUFFICES ASSUME NEW i \in S, NEW j \in S, j \in After(i)
               PROVE  Cardinality(After(j)) < Cardinality(After(i))
    OBVIOUS
  <2>0. \A x \in S : measure[x] \in Nat /\ x \in Nat
    OBVIOUS
  <2>4. After(j) \subseteq After(i)
    <3> SUFFICES ASSUME NEW o \in After(j) PROVE o \in After(i)
      OBVIOUS
    <3> QED BY <2>0
  <2>5. j \notin After(j)
    BY <2>0
  <2>1. After(j) \subseteq After(i) /\ j \notin After(j)
    BY <2>4, <2>5
  <2>2. After(j) # After(i)
    BY <2>1
  <2> HIDE DEF After
  <2>3. /\ Cardinality(After(j)) <= Cardinality(After(i))
        /\ Cardinality(After(i)) = Cardinality(After(j)) => After(i) = After(j)
    BY <1>2, <2>1, FS_Subset
  <2> QED BY <1>2, <2>2, <2>3
<1>4. \A i, j \in S : i # j => j \in After(i) \/ i \in After(j)
  OBVIOUS
<1> HIDE DEF After, T
<1>5. rank \in Injection(T, 0 .. k - 1)
  <2>1. rank \in [T -> 0 .. k - 1]
    BY <1>1, <1>2
  <2>2. \A i, j \in T : rank[i] = rank[j] => i = j
    BY <1>1, <1>2, <1>3, <1>4
  <2> QED BY <2>1, <2>2 DEF Injection, IsInjective
<1>6. IsFiniteSet(0 .. k - 1) /\ Cardinality(0 .. k - 1) = k
  BY FS_Interval
<1>7. IsFiniteSet(T) /\ Cardinality(T) <= Cardinality(0 .. k - 1)
  BY <1>5, <1>6, FS_Injection
<1> QED BY <1>1, <1>6, <1>7 DEF T

LEMMA MapsAreFinite ==
  ASSUME NEW f, DOMAIN f \subseteq Identity
  PROVE  /\ IsFiniteSet(DOMAIN f) /\ Cardinality(DOMAIN f) \in Nat
         /\ \A D \in SUBSET DOMAIN f : /\ IsFiniteSet(D) /\ Cardinality(D) \in Nat
                                       /\ Cardinality(D) <= Cardinality(DOMAIN f)
<1>1. IsFiniteSet(DOMAIN f)
  BY RelayAssumption, FS_Subset
<1> QED BY <1>1, FS_Subset, FS_CardinalityType

LEMMA RestrictedIsOf ==
  ASSUME NEW f, NEW D \in SUBSET DOMAIN f
  PROVE  /\ DOMAIN Restrict(f, D) = D /\ \A i \in D : Restrict(f, D)[i] = f[i]
         /\ f \in EntryMaps => Restrict(f, D) \in EntryMaps
         /\ f \in CounterMaps => Restrict(f, D) \in CounterMaps
<1>1. DOMAIN Restrict(f, D) = D /\ \A i \in D : Restrict(f, D)[i] = f[i]
  BY DEF Restrict
<1>2. ASSUME f \in EntryMaps PROVE Restrict(f, D) \in EntryMaps
  <2>1. Restrict(f, D) \in [D -> Entry] /\ D \subseteq Identity
    BY <1>2, MapsAreTyped DEF Restrict, IsEntries
  <2> QED BY <1>1, <2>1, MapsAreTyped DEF IsEntries
<1>3. ASSUME f \in CounterMaps PROVE Restrict(f, D) \in CounterMaps
  <2>1. Restrict(f, D) \in [D -> Counter] /\ D \subseteq Identity
    BY <1>3, MapsAreTyped DEF Restrict
  <2> QED BY <1>1, <2>1, MapsAreTyped
<1> QED BY <1>1, <1>2, <1>3

LEMMA RetainedIsOf ==
  ASSUME NEW h \in EntryMaps, NEW now
  PROVE  LET r == Retained(h, now) IN
         /\ r \in EntryMaps /\ DOMAIN r \subseteq DOMAIN h
         /\ \A i \in DOMAIN r : r[i] = h[i]
         /\ \A i \in DOMAIN h \ DOMAIN r : h[i].state # "unhealthy"
         /\ Unhealthy(r) = Unhealthy(h)
<1> DEFINE D == {i \in DOMAIN h : h[i].state = "unhealthy" \/ h[i].at >= now - Retention}
           r == Retained(h, now)
<1>1. r = Restrict(h, D) /\ D \subseteq DOMAIN h
  BY DEF Retained
<1>2. /\ r \in EntryMaps /\ DOMAIN r = D /\ \A i \in D : r[i] = h[i]
  <2> HIDE DEF D
  <2> QED BY <1>1, RestrictedIsOf
<1>3. Unhealthy(r) = Unhealthy(h)
  <2> HIDE DEF r
  <2> QED BY <1>2 DEF Unhealthy
<1> QED BY <1>2, <1>3

(* bounded_state(): what fits is kept, of the entries that are unhealthy all,*)
(* and the file stays within its bounds unless those alone break them.       *)
LEMMA BoundedIsOf ==
  ASSUME NEW h \in EntryMaps, NEW c \in CounterMaps, ~TooLarge(h)
  PROVE  LET entries == BoundedEntries(h)
             counters == BoundedCounters(h, c) IN
         /\ entries \in EntryMaps /\ DOMAIN entries \subseteq DOMAIN h
         /\ \A i \in DOMAIN entries : entries[i] = h[i]
         /\ Unhealthy(h) \subseteq DOMAIN entries
         /\ counters \in CounterMaps /\ DOMAIN counters \subseteq DOMAIN c
         /\ \A i \in DOMAIN counters : counters[i] = c[i]
         /\ Fits(Cardinality(DOMAIN entries), Cardinality(DOMAIN counters))
<1> DEFINE U == Unhealthy(h)
           healthy == DOMAIN h \ U
           all == Cardinality(DOMAIN h)
           fit1 == {n \in 0 .. Cardinality(DOMAIN c) : Fits(all, n)}
           fit2 == {n \in 0 .. Cardinality(healthy) : Fits(Cardinality(U) + n, 0)}
           last1 == LastOf(DOMAIN c, Most(fit1), [i \in DOMAIN c |-> c[i].count])
           last2 == LastOf(healthy, Most(fit2), [i \in healthy |-> h[i].at])
           entries == BoundedEntries(h)
           counters == BoundedCounters(h, c)
<1>1. U \subseteq DOMAIN h /\ DOMAIN h \subseteq Identity /\ DOMAIN c \subseteq Identity
  BY MapsAreTyped DEF Unhealthy, IsEntries
<1>2. /\ IsFiniteSet(healthy) /\ IsFiniteSet(U) /\ IsFiniteSet(DOMAIN c) /\ all \in Nat
      /\ Cardinality(healthy) \in Nat /\ Cardinality(U) \in Nat /\ Cardinality(DOMAIN c) \in Nat
  BY <1>1, MapsAreFinite
<1>3. /\ Most(fit1) \in Nat /\ (fit1 # {} => Most(fit1) \in fit1) /\ (fit1 = {} => Most(fit1) = 0)
  BY <1>2, MostIsOne
<1>4. /\ Most(fit2) \in Nat /\ (fit2 # {} => Most(fit2) \in fit2) /\ (fit2 = {} => Most(fit2) = 0)
  BY <1>2, MostIsOne
<1>5. 0 \in fit2
  BY <1>2 DEF TooLarge
<1> HIDE DEF fit1, fit2
<1>6. last1 \subseteq DOMAIN c /\ IsFiniteSet(last1) /\ Cardinality(last1) <= Most(fit1)
  <2>1. [i \in DOMAIN c |-> c[i].count] \in [DOMAIN c -> Nat]
    BY MapsAreTyped DEF Counter
  <2>2. DOMAIN c \in SUBSET Nat
    BY <1>1, RelayAssumption
  <2> QED BY <1>2, <1>3, <2>1, <2>2, LastAreFew
<1>7. last2 \subseteq healthy /\ IsFiniteSet(last2) /\ Cardinality(last2) <= Most(fit2)
  <2>1. [i \in healthy |-> h[i].at] \in [healthy -> Nat]
    BY MapsAreTyped DEF IsEntries, Entry
  <2>2. healthy \in SUBSET Nat
    BY <1>1, RelayAssumption
  <2> QED BY <1>2, <1>4, <2>1, <2>2, LastAreFew
<1>8. entries = Restrict(h, U \cup last2) /\ counters = Restrict(c, last1)
  BY DEF BoundedEntries, BoundedCounters, fit1, fit2
<1> HIDE DEF last1, last2, entries, counters
<1>9. /\ entries \in EntryMaps /\ DOMAIN entries = U \cup last2
      /\ \A i \in DOMAIN entries : entries[i] = h[i]
  BY <1>1, <1>7, <1>8, RestrictedIsOf
<1>10. /\ counters \in CounterMaps /\ DOMAIN counters = last1
       /\ \A i \in DOMAIN counters : counters[i] = c[i]
  BY <1>6, <1>8, RestrictedIsOf
<1>11. Cardinality(last1) \in Nat /\ Cardinality(last2) \in Nat
  BY <1>6, <1>7, FS_CardinalityType
<1>12. /\ Cardinality(U \cup last2) \in Nat /\ Cardinality(U \cup last2) <= all
       /\ Cardinality(U \cup last2) <= Cardinality(U) + Cardinality(last2)
  <2>1. U \cup last2 \in SUBSET DOMAIN h
    BY <1>1, <1>7
  <2>2. /\ Cardinality(U \cup last2) \in Nat /\ Cardinality(U \cup last2) <= all
    BY <1>1, <2>1, MapsAreFinite
  <2>3. /\ Cardinality(U \cup last2)
             = Cardinality(U) + Cardinality(last2) - Cardinality(U \cap last2)
    BY <1>2, <1>7, FS_Union
  <2>4. Cardinality(U \cap last2) \in Nat
    BY <1>2, FS_Intersection, FS_CardinalityType
  <2> QED BY <1>2, <1>11, <2>2, <2>3, <2>4
<1>13. Fits(Cardinality(DOMAIN entries), Cardinality(DOMAIN counters))
  <2> HIDE DEF U, all
  <2>1. CASE fit1 # {}
    <3>1. Fits(all, Most(fit1))
      BY <1>3, <2>1 DEF fit1
    <3>2. /\ Cardinality(DOMAIN entries) \in 0 .. all
          /\ Cardinality(DOMAIN counters) \in 0 .. Most(fit1)
      BY <1>2, <1>3, <1>6, <1>9, <1>10, <1>11, <1>12
    <3> QED BY <1>2, <1>3, <3>1, <3>2, FitsLess
  <2>2. CASE fit1 = {}
    <3>1. Cardinality(DOMAIN counters) = 0
      BY <1>3, <1>6, <1>10, <1>11, <2>2
    <3>2. Most(fit2) \in fit2
      BY <1>4, <1>5
    <3>3. Fits(Cardinality(U) + Most(fit2), 0)
      BY <3>2 DEF fit2
    <3>4. Cardinality(DOMAIN entries) \in 0 .. Cardinality(U) + Most(fit2)
      BY <1>2, <1>4, <1>7, <1>9, <1>11, <1>12
    <3>5. Cardinality(U) + Most(fit2) \in Nat
      BY <1>2, <1>4
    <3> QED BY <3>1, <3>3, <3>4, <3>5, FitsLess
  <2> QED BY <2>1, <2>2
<1>14. DOMAIN entries \subseteq DOMAIN h /\ U \subseteq DOMAIN entries
  BY <1>1, <1>7, <1>9
<1>15. DOMAIN counters \subseteq DOMAIN c
  BY <1>6, <1>10
<1> HIDE DEF U
<1> QED BY <1>9, <1>10, <1>13, <1>14, <1>15 DEF entries, counters, U

-----------------------------------------------------------------------------
(* The health of containers.  A container has one former name, and a former  *)
(* name is none of a container's own.                                        *)
IsRenaming(h, i, r) ==
  \/ DOMAIN r = DOMAIN h /\ \A x \in DOMAIN h : r[x] = h[x]
  \/ \E o \in DOMAIN h :
       /\ <<o, i>> \in Former /\ i \in Identity \ DOMAIN h
       /\ DOMAIN r = (DOMAIN h \ {o}) \cup {i}
       /\ \A x \in DOMAIN h \ {o} : r[x] = h[x]
       /\ r[i] = h[o]

LEMMA RenamedIsOf ==
  ASSUME NEW h \in EntryMaps, NEW i \in Scopes
  PROVE  Renamed(h, i) \in EntryMaps /\ IsRenaming(h, i, Renamed(h, i))
<1> DEFINE O == Renames(h, i)
           r == Renamed(h, i)
<1>0. DOMAIN h \subseteq Identity /\ \A x \in DOMAIN h : h[x] \in Entry
  BY MapsAreTyped DEF IsEntries
<1>1. CASE O = {}
  <2>1. DOMAIN r = DOMAIN h /\ \A x \in DOMAIN h : r[x] = h[x]
    BY <1>1 DEF Renamed
  <2>2. r \in [DOMAIN r -> Entry]
    BY <1>0, <1>1 DEF Renamed
  <2> HIDE DEF r
  <2>3. r \in EntryMaps
    BY <1>0, <2>1, <2>2, MapsAreTyped DEF IsEntries
  <2> QED BY <2>1, <2>3 DEF r, IsRenaming
<1>2. CASE O # {}
  <2>1. PICK o \in O : TRUE
    BY <1>2
  <2>2. o \in DOMAIN h /\ <<o, i>> \in Former /\ i \notin DOMAIN h
    BY <2>1 DEF Renames
  <2>3. O = {o}
    <3> SUFFICES ASSUME NEW x \in O PROVE x = o
      BY <2>1
    <3>1. <<x, i>> \in Former
      BY DEF Renames
    <3> QED BY <2>2, <3>1, RelayAssumption
  <2>4. i \in Identity /\ i # o
    BY <2>2, RelayAssumption
  <2> HIDE DEF O
  <2>5. r = [x \in (DOMAIN h \ {o}) \cup {i} |-> IF x \in DOMAIN h THEN h[x] ELSE h[o]]
    <3>1. (CHOOSE x \in O : TRUE) = o
      BY <2>3
    <3>2. (IF O = {} THEN {} ELSE {i}) = {i}
      BY <2>1
    <3> QED BY <2>3, <3>1, <3>2 DEF Renamed, O
  <2> HIDE DEF r
  <2>6. /\ DOMAIN r = (DOMAIN h \ {o}) \cup {i}
        /\ \A x \in DOMAIN h \ {o} : r[x] = h[x]
        /\ r[i] = h[o]
    BY <2>2, <2>5
  <2>7. r \in [DOMAIN r -> Entry]
    BY <1>0, <2>2, <2>5
  <2>8. r \in EntryMaps
    BY <1>0, <2>4, <2>6, <2>7, MapsAreTyped DEF IsEntries
  <2> QED BY <2>2, <2>4, <2>6, <2>8 DEF r, IsRenaming
<1> QED BY <1>1, <1>2

LEMMA TransitionIsOf ==
  ASSUME NEW r \in EntryMaps, NEW e \in Events
  PROVE  LET t == Transition(r, e) IN
         /\ t \in EntryMaps
         /\ ~IsHealth(e) => t = r
         /\ IsHealth(e) =>
              /\ DOMAIN t = DOMAIN r \cup {e.id}
              /\ \A x \in DOMAIN r \ {e.id} : t[x] = r[x]
              /\ t[e.id].at = e.at
              /\ t[e.id].state = IF e.rule = "Unhealthy" THEN "unhealthy" ELSE "healthy"
<1>1. CASE ~IsHealth(e)
  BY <1>1 DEF Transition
<1>2. CASE IsHealth(e)
  <2> DEFINE new == [state |-> IF e.rule = "Unhealthy" THEN "unhealthy" ELSE "healthy",
                     at |-> e.at]
             t == Transition(r, e)
  <2>1. t = Put(r, e.id, new)
    BY <1>2 DEF Transition
  <2>2. new \in Entry /\ e.id \in Identity
    BY <1>2, EventIsOf DEF Entry
  <2>3. new.at = e.at /\ new.state = IF e.rule = "Unhealthy" THEN "unhealthy" ELSE "healthy"
    OBVIOUS
  <2>4. DOMAIN r \subseteq Identity /\ \A x \in DOMAIN r : r[x] \in Entry
    BY MapsAreTyped DEF IsEntries
  <2> HIDE DEF new, t
  <2>5. /\ DOMAIN t = DOMAIN r \cup {e.id} /\ t[e.id] = new
        /\ \A x \in DOMAIN r \ {e.id} : t[x] = r[x]
        /\ t \in [DOMAIN t -> Entry]
    BY <2>1, <2>2, <2>4 DEF Put
  <2>6. t \in EntryMaps
    BY <2>2, <2>4, <2>5, MapsAreTyped DEF IsEntries
  <2> QED BY <1>2, <2>3, <2>5, <2>6 DEF t
<1> QED BY <1>1, <1>2

(* What the action property says of two files, for the event between them.   *)
Forward(was, is, e) ==
  \A i \in DOMAIN was :
    /\ i \in DOMAIN is => \/ is[i].at > was[i].at
                          \/ is[i].at = was[i].at
                               /\ (was[i].state = "unhealthy" \/ is[i] = was[i])
    /\ i \notin DOMAIN is =>
         \/ was[i].state = "healthy"
         \/ \E j \in DOMAIN is : <<i, j>> \in Former /\ is[j].at >= was[i].at
         \/ e.rule = "Recovery" /\ e.at >= was[i].at /\ (e.id = i \/ <<i, e.id>> \in Former)

(* What is unhealthy was told of, as `past' has it.                          *)
ToldOf(f, past1) ==
  \A i \in Unhealthy(f) : \E j \in Identity :
    /\ j = i \/ <<j, i>> \in Former
    /\ f[i].at = 0 \/ <<j, f[i].at>> \in past1

(* What a decision records, before and after the file is bounded.            *)
LEMMA DecidedIsForward ==
  ASSUME NEW h \in EntryMaps, NEW e \in Events, NEW f,
         ~Outdated(Renamed(h, e.id), e),
         DOMAIN f \subseteq DOMAIN Transition(Renamed(h, e.id), e),
         Unhealthy(Transition(Renamed(h, e.id), e)) \subseteq DOMAIN f,
         \A x \in DOMAIN f : f[x] = Transition(Renamed(h, e.id), e)[x]
  PROVE  /\ Forward(h, f, e)
         /\ \A past1 : ToldOf(h, past1) => ToldOf(f, past1 \cup IsTold(e))
<1> DEFINE r == Renamed(h, e.id)
           t == Transition(r, e)
<1>1. /\ r \in EntryMaps
      /\ \/ DOMAIN r = DOMAIN h /\ \A x \in DOMAIN h : r[x] = h[x]
         \/ \E o \in DOMAIN h :
              /\ <<o, e.id>> \in Former /\ e.id \in Identity \ DOMAIN h
              /\ DOMAIN r = (DOMAIN h \ {o}) \cup {e.id}
              /\ \A x \in DOMAIN h \ {o} : r[x] = h[x]
              /\ r[e.id] = h[o]
  <2>1. e.id \in Scopes
    BY EventIsOf
  <2>2. r \in EntryMaps /\ IsRenaming(h, e.id, r)
    BY <2>1, RenamedIsOf
  <2> HIDE DEF r
  <2> QED BY <2>2 DEF IsRenaming
<1>2. /\ t \in EntryMaps
      /\ ~IsHealth(e) => t = r
      /\ IsHealth(e) =>
              /\ DOMAIN t = DOMAIN r \cup {e.id}
              /\ \A x \in DOMAIN r \ {e.id} : t[x] = r[x]
              /\ t[e.id].at = e.at
              /\ t[e.id].state = IF e.rule = "Unhealthy" THEN "unhealthy" ELSE "healthy"
  BY <1>1, TransitionIsOf
<1>3. /\ DOMAIN f \subseteq DOMAIN t /\ \A x \in DOMAIN f : f[x] = t[x]
      /\ \A x \in DOMAIN t : t[x].state = "unhealthy" => x \in DOMAIN f
  BY DEF Unhealthy
<1>4. IsHealth(e) /\ e.id \in DOMAIN r =>
        e.at > r[e.id].at \/ (e.at = r[e.id].at /\ r[e.id].state # "healthy")
  <2>1. e.at \in Nat
    BY EventIsOf
  <2>2. e.id \in DOMAIN r => r[e.id].at \in Nat
    BY <1>1, MapsAreTyped DEF IsEntries, Entry
  <2>3. IsHealth(e) /\ e.id \in DOMAIN r =>
          ~(e.at < r[e.id].at) /\ ~(e.at = r[e.id].at /\ r[e.id].state = "healthy")
    BY DEF Outdated
  <2> HIDE DEF r
  <2> QED BY <2>1, <2>2, <2>3
<1>5. /\ \A x \in DOMAIN h : h[x].state \in {"healthy", "unhealthy"} /\ h[x].at \in Nat
      /\ \A x \in DOMAIN r : r[x].state \in {"healthy", "unhealthy"} /\ r[x].at \in Nat
      /\ \A x \in DOMAIN t : t[x].state \in {"healthy", "unhealthy"} /\ t[x].at \in Nat
      /\ DOMAIN h \subseteq Identity
  BY <1>1, <1>2, MapsAreTyped DEF IsEntries, Entry
<1>6. IsHealth(e) <=> e.rule = "Unhealthy" \/ e.rule = "Recovery"
  BY DEF IsHealth
<1> HIDE DEF r, t
<1>7. CASE DOMAIN r = DOMAIN h /\ \A x \in DOMAIN h : r[x] = h[x]
  <2>1. Forward(h, f, e)
    <3> SUFFICES ASSUME NEW i \in DOMAIN h
                 PROVE  /\ i \in DOMAIN f => \/ f[i].at > h[i].at
                                             \/ f[i].at = h[i].at
                                                  /\ (h[i].state = "unhealthy" \/ f[i] = h[i])
                        /\ i \notin DOMAIN f =>
                             \/ h[i].state = "healthy"
                             \/ e.rule = "Recovery" /\ e.at >= h[i].at /\ e.id = i
      BY DEF Forward
    <3>1. CASE IsHealth(e) /\ i = e.id
      BY <1>2, <1>3, <1>4, <1>5, <1>6, <1>7, <3>1
    <3>2. CASE ~IsHealth(e) \/ i # e.id
      <4>1. i \in DOMAIN t /\ t[i] = h[i]
        BY <1>2, <1>7, <3>2
      <4> QED BY <1>3, <1>5, <4>1
    <3> QED BY <3>1, <3>2
  <2>2. ASSUME NEW past1, ToldOf(h, past1) PROVE ToldOf(f, past1 \cup IsTold(e))
    <3> SUFFICES ASSUME NEW i \in DOMAIN f, f[i].state = "unhealthy"
                 PROVE  \E j \in Identity : /\ j = i \/ <<j, i>> \in Former
                                            /\ f[i].at = 0 \/ <<j, f[i].at>> \in past1 \cup IsTold(e)
      BY DEF ToldOf, Unhealthy
    <3>1. CASE IsHealth(e) /\ i = e.id
      <4>1. e.rule = "Unhealthy" /\ f[i].at = e.at /\ e.id \in Identity
        BY <1>2, <1>3, <3>1, EventIsOf
      <4> QED BY <3>1, <4>1 DEF IsTold
    <3>2. CASE ~IsHealth(e) \/ i # e.id
      <4>1. i \in DOMAIN h /\ f[i] = h[i]
        BY <1>2, <1>3, <1>7, <3>2
      <4>2. i \in Unhealthy(h)
        BY <4>1 DEF Unhealthy
      <4> QED BY <2>2, <4>1, <4>2 DEF ToldOf
    <3> QED BY <3>1, <3>2
  <2> QED BY <2>1, <2>2
<1>8. ASSUME NEW o \in DOMAIN h, <<o, e.id>> \in Former, e.id \in Identity \ DOMAIN h,
             DOMAIN r = (DOMAIN h \ {o}) \cup {e.id},
             \A x \in DOMAIN h \ {o} : r[x] = h[x], r[e.id] = h[o]
      PROVE  /\ Forward(h, f, e)
             /\ \A past1 : ToldOf(h, past1) => ToldOf(f, past1 \cup IsTold(e))
  <2>1. Forward(h, f, e)
    <3> SUFFICES ASSUME NEW i \in DOMAIN h
                 PROVE  /\ i \in DOMAIN f => \/ f[i].at > h[i].at
                                             \/ f[i].at = h[i].at
                                                  /\ (h[i].state = "unhealthy" \/ f[i] = h[i])
                        /\ i \notin DOMAIN f =>
                             \/ h[i].state = "healthy"
                             \/ \E j \in DOMAIN f : <<i, j>> \in Former /\ f[j].at >= h[i].at
                             \/ e.rule = "Recovery" /\ e.at >= h[i].at
                                  /\ (e.id = i \/ <<i, e.id>> \in Former)
      BY DEF Forward
    <3>1. CASE i = o
      <4>1. i \notin DOMAIN f
        BY <1>2, <1>3, <1>8, <3>1
      <4>2. e.id \in DOMAIN t /\ (t[e.id].at >= h[i].at)
        BY <1>2, <1>4, <1>5, <1>8, <3>1, EventIsOf
      <4>3. CASE e.id \in DOMAIN f
        BY <1>3, <1>8, <3>1, <4>1, <4>2, <4>3
      <4>4. CASE e.id \notin DOMAIN f
        <5>1. t[e.id].state = "healthy"
          BY <1>3, <1>5, <4>2, <4>4
        <5>2. CASE IsHealth(e)
          BY <1>2, <1>6, <1>8, <3>1, <4>1, <4>2, <5>1, <5>2
        <5>3. CASE ~IsHealth(e)
          BY <1>2, <1>8, <3>1, <4>1, <5>1, <5>3
        <5> QED BY <5>2, <5>3
      <4> QED BY <4>3, <4>4
    <3>2. CASE i # o
      <4>1. i \in DOMAIN t /\ t[i] = h[i]
        BY <1>2, <1>8, <3>2
      <4> QED BY <1>3, <1>5, <4>1
    <3> QED BY <3>1, <3>2
  <2>2. ASSUME NEW past1, ToldOf(h, past1) PROVE ToldOf(f, past1 \cup IsTold(e))
    <3> SUFFICES ASSUME NEW i \in DOMAIN f, f[i].state = "unhealthy"
                 PROVE  \E j \in Identity : /\ j = i \/ <<j, i>> \in Former
                                            /\ f[i].at = 0 \/ <<j, f[i].at>> \in past1 \cup IsTold(e)
      BY DEF ToldOf, Unhealthy
    <3>1. CASE IsHealth(e) /\ i = e.id
      <4>1. e.rule = "Unhealthy" /\ f[i].at = e.at /\ e.id \in Identity
        BY <1>2, <1>3, <3>1, EventIsOf
      <4> QED BY <3>1, <4>1 DEF IsTold
    <3>2. CASE ~IsHealth(e) /\ i = e.id
      <4>1. f[i] = h[o] /\ o \in Unhealthy(h)
        BY <1>2, <1>3, <1>8, <3>2 DEF Unhealthy
      <4>2. PICK j \in Identity : /\ j = o \/ <<j, o>> \in Former
                                  /\ h[o].at = 0 \/ <<j, h[o].at>> \in past1
        BY <2>2, <4>1 DEF ToldOf
      <4>3. <<j, o>> \notin Former
        BY <1>8, RelayAssumption
      <4> QED BY <1>8, <3>2, <4>1, <4>2, <4>3
    <3>3. CASE i # e.id
      <4>1. i \in DOMAIN h /\ f[i] = h[i]
        BY <1>2, <1>3, <1>8, <3>3
      <4>2. i \in Unhealthy(h)
        BY <4>1 DEF Unhealthy
      <4> QED BY <2>2, <4>1, <4>2 DEF ToldOf
    <3> QED BY <3>1, <3>2, <3>3
  <2> QED BY <2>1, <2>2
<1> QED BY <1>1, <1>7, <1>8
-----------------------------------------------------------------------------
(* What a request decides.                                                   *)
FileTyped ==
  /\ store.entries \in EntryMaps /\ store.legacy \in BOOLEAN
  /\ store.budget \in Budgets \cup {Unset} /\ floor \in Budgets \cup {Unset}

LEMMA VerdictIsOf ==
  ASSUME FileTyped, NEW e \in Events, NEW now \in Nat
  PROVE  LET b == Budget(now)
             v == Verdict(e, now) IN
         /\ b \in Budgets /\ b.day = Day(now)
         /\ Noticed(b) \subseteq NoticesOf(store.budget) \cup NoticesOf(floor)
         /\ v.kind \in {"publish", "notice", "silent", "nothing"} /\ v.scope \in Scopes
         /\ v.budget \in Budgets /\ v.budget.day = Day(now)
         /\ v.kind = "publish" => b.count < GlobalCeiling /\ v.budget.count = b.count + 1
         /\ v.kind # "publish" => v.budget.count = b.count
         /\ Noticed(v.budget) \subseteq
              Noticed(b) \cup (IF v.kind = "notice" THEN {<<Day(now), v.scope>>} ELSE {})
         /\ v.kind = "silent" => <<Day(now), v.scope>> \in Noticed(b)
         /\ v.kind = "nothing" => e.rule = "Recovery"
<1> DEFINE b == Budget(now)
           v == Verdict(e, now)
           rolled == Rolled(store.budget, Day(now))
<1>1. Day(now) \in Nat
  BY DaysGoOn
<1>2. rolled \in Budgets /\ rolled.day = Day(now)
  BY <1>1, RolledIsOf DEF FileTyped
<1>3. b \in Budgets /\ b.day = Day(now)
  BY <1>2, RaisedIsOf DEF FileTyped, Budget
<1>4. Noticed(b) \subseteq NoticesOf(store.budget) \cup NoticesOf(floor)
  BY <1>1, RaisedKeepsNotices DEF FileTyped, Budget
<1>5. CASE Publishes(Read(e), e)
  <2>1. v = Charge(b, e)
    BY <1>5 DEF Verdict
  <2> HIDE DEF v, b
  <2> QED BY <1>3, <1>4, <2>1, ChargeIsOf DEF v, b
<1>6. CASE ~Publishes(Read(e), e)
  <2>1. v.kind = "nothing" /\ v.scope = NoOne /\ v.budget = b
    BY <1>6 DEF Verdict, Decision
  <2>2. e.rule = "Recovery" /\ NoOne \in Scopes
    BY <1>6 DEF Publishes, Scopes
  <2> HIDE DEF v, b
  <2> QED BY <1>3, <1>4, <2>1, <2>2 DEF v, b
<1> QED BY <1>5, <1>6

(* The plan: what it writes is typed, fits, follows from what was recorded,  *)
(* and holds what was told and noticed.                                      *)
LEMMA PlanIsOf ==
  ASSUME FileTyped, NEW e \in Events, NEW now \in Nat,
         ~TooLarge(Transition(Read(e), e)), ~Outdated(Read(e), e)
  PROVE  LET p == Plan(e, now)
             v == Verdict(e, now) IN
         /\ p \in Plans
         /\ p.kind = v.kind /\ p.scope = v.scope
         /\ p.budget.day = v.budget.day /\ p.budget.count = v.budget.count
         /\ Noticed(p.budget) \subseteq Noticed(v.budget)
         /\ Fits(Cardinality(DOMAIN p.entries), Cardinality(DOMAIN p.budget.containers))
         /\ ~p.write => p.entries = store.entries /\ p.budget = store.budget
         /\ Forward(store.entries, p.entries, e)
         /\ \A past1 : ToldOf(store.entries, past1) => ToldOf(p.entries, past1 \cup IsTold(e))
<1> DEFINE p == Plan(e, now)
           v == Verdict(e, now)
           r == Read(e)
           t == Transition(r, e)
           health == Retained(t, now)
           entries == BoundedEntries(health)
           counters == BoundedCounters(health, v.budget.containers)
           budget == [v.budget EXCEPT !.containers = counters]
<1>1. /\ v.kind \in {"publish", "notice", "silent", "nothing"} /\ v.scope \in Scopes
      /\ v.budget \in Budgets
  BY VerdictIsOf
<1>2. v.budget.containers \in CounterMaps
  BY <1>1, BudgetsAre
<1>3. r \in EntryMaps
  <2>1. e.id \in Scopes
    BY EventIsOf
  <2> QED BY <2>1, RenamedIsOf DEF FileTyped, Read
<1>4. t \in EntryMaps
  <2> HIDE DEF r
  <2> QED BY <1>3, TransitionIsOf
<1> HIDE DEF v
<1>5. /\ health \in EntryMaps /\ DOMAIN health \subseteq DOMAIN t
      /\ \A i \in DOMAIN health : health[i] = t[i]
      /\ Unhealthy(health) = Unhealthy(t)
  <2> HIDE DEF t
  <2> QED BY <1>4, RetainedIsOf
<1>6. ~TooLarge(health)
  BY <1>5 DEF TooLarge
<1>7. /\ entries \in EntryMaps /\ DOMAIN entries \subseteq DOMAIN health
      /\ \A i \in DOMAIN entries : entries[i] = health[i]
      /\ Unhealthy(health) \subseteq DOMAIN entries
      /\ counters \in CounterMaps /\ DOMAIN counters \subseteq DOMAIN v.budget.containers
      /\ \A i \in DOMAIN counters : counters[i] = v.budget.containers[i]
      /\ Fits(Cardinality(DOMAIN entries), Cardinality(DOMAIN counters))
  <2> HIDE DEF health
  <2> QED BY <1>2, <1>5, <1>6, BoundedIsOf
<1>8. p = [kind |-> v.kind, scope |-> v.scope, entries |-> entries, budget |-> budget,
           write |-> store.legacy \/ entries # store.entries \/ budget # store.budget]
  BY DEF Plan, v
<1>9. Forward(store.entries, entries, e)
      /\ \A past1 : ToldOf(store.entries, past1) => ToldOf(entries, past1 \cup IsTold(e))
  <2>1. /\ DOMAIN entries \subseteq DOMAIN t /\ Unhealthy(t) \subseteq DOMAIN entries
        /\ \A i \in DOMAIN entries : entries[i] = t[i]
    <3> HIDE DEF entries, health, t
    <3> QED BY <1>5, <1>7
  <2> DEFINE f == entries
  <2> HIDE DEF entries, health
  <2> QED BY <2>1, DecidedIsForward DEF FileTyped, Read
<1> HIDE DEF entries, counters, health, t, r, p
<1>10. /\ budget \in Budgets /\ budget.day = v.budget.day /\ budget.count = v.budget.count
       /\ budget.notified = v.budget.notified /\ budget.containers = counters
  BY <1>1, <1>7, BudgetsAre
<1> HIDE DEF budget
<1>11. Noticed(budget) \subseteq Noticed(v.budget)
  BY <1>7, <1>10 DEF Noticed
<1>12. p \in Plans
  BY <1>1, <1>7, <1>8, <1>10 DEF Plans, FileTyped
<1>13. /\ p.kind = v.kind /\ p.scope = v.scope /\ p.entries = entries /\ p.budget = budget
       /\ ~p.write => entries = store.entries /\ budget = store.budget
  BY <1>8
<1> QED BY <1>7, <1>9, <1>10, <1>11, <1>12, <1>13 DEF p, v
-----------------------------------------------------------------------------
(* The memory of what was published.                                         *)

(* What is forgotten is a beginning of it, without anything of the window.   *)
LEMMA RecalledIsOf ==
  ASSUME delivered \in Seq(Publication), NEW now \in Nat
  PROVE  \E a \in 1 .. Len(delivered) + 1 :
           /\ Recalled(now) = SubSeq(delivered, a, Len(delivered))
           /\ \A k \in DOMAIN delivered : Recent(delivered[k], now) => k >= a
<1> DEFINE n == Len(delivered)
           recent == {k \in 1 .. n : Recent(delivered[k], now)}
           kept == {k \in DOMAIN delivered : \E j \in 1..k : Recent(delivered[j], now)}
<1>1. n \in Nat /\ DOMAIN delivered = 1 .. n
  OBVIOUS
<1>2. Recalled(now) = SubSeq(delivered, n - Cardinality(kept) + 1, n)
  BY DEF Recalled
<1>3. CASE recent = {}
  <2>1. kept = {}
    BY <1>1, <1>3
  <2>2. n - Cardinality(kept) + 1 = n + 1
    <3> HIDE DEF kept
    <3>1. Cardinality(kept) = 0
      BY <2>1, FS_EmptySet
    <3> QED BY <1>1, <3>1
  <2>3. \A k \in DOMAIN delivered : ~Recent(delivered[k], now)
    BY <1>1, <1>3
  <2>4. n + 1 \in 1 .. n + 1 /\ Recalled(now) = SubSeq(delivered, n + 1, n)
    <3> DEFINE from == n - Cardinality(kept) + 1
    <3>1. Recalled(now) = SubSeq(delivered, from, n) /\ from = n + 1
      BY <1>2, <2>2
    <3> HIDE DEF from, kept
    <3> QED BY <1>1, <3>1
  <2> HIDE DEF recent, kept
  <2> QED BY <2>3, <2>4
<1>4. CASE recent # {}
  <2>1. recent \subseteq Nat
    OBVIOUS
  <2>2. PICK a \in recent : \A y \in recent : ~(<<y, a>> \in OpToRel(<, Nat))
    BY <1>4, <2>1, NatLessThanWellFounded, WFMin
  <2>3. \A y \in recent : a <= y
    <3> SUFFICES ASSUME NEW y \in recent PROVE a <= y
      OBVIOUS
    <3>1. y \in Nat /\ a \in Nat
      BY <2>1
    <3>2. ~(y < a)
      BY <2>2, <3>1 DEF OpToRel
    <3> QED BY <3>1, <3>2
  <2>4. a \in 1 .. n /\ Recent(delivered[a], now)
    OBVIOUS
  <2>5. kept = a .. n
    <3>1. ASSUME NEW k \in a .. n PROVE k \in kept
      BY <1>1, <2>4
    <3>2. ASSUME NEW k \in kept PROVE k \in a .. n
      <4>1. k \in 1 .. n
        BY <1>1
      <4>2. PICK j \in 1 .. k : Recent(delivered[j], now)
        OBVIOUS
      <4>3. j \in recent
        BY <1>1, <4>1, <4>2
      <4> QED BY <2>3, <2>4, <4>1, <4>3
    <3> QED BY <3>1, <3>2
  <2>6. Cardinality(kept) = n - a + 1
    <3> HIDE DEF kept
    <3>1. Cardinality(a .. n) = IF a > n THEN 0 ELSE n - a + 1
      BY <1>1, <2>4, FS_Interval
    <3> QED BY <1>1, <2>4, <2>5, <3>1
  <2>7. n - Cardinality(kept) + 1 = a
    BY <1>1, <2>4, <2>6
  <2>8. \A k \in DOMAIN delivered : Recent(delivered[k], now) => k >= a
    BY <1>1, <2>3, <2>4
  <2>9. a \in 1 .. n + 1 /\ Recalled(now) = SubSeq(delivered, a, n)
    <3> DEFINE from == n - Cardinality(kept) + 1
    <3>1. Recalled(now) = SubSeq(delivered, from, n) /\ from = a
      BY <1>2, <2>7
    <3> HIDE DEF from, kept, recent
    <3> QED BY <1>1, <2>4, <3>1
  <2> HIDE DEF recent, kept
  <2> QED BY <2>8, <2>9
<1> QED BY <1>3, <1>4

LEMMA RecalledIsTyped ==
  ASSUME delivered \in Seq(Publication), NEW now \in Nat
  PROVE  Recalled(now) \in Seq(Publication) /\ Len(Recalled(now)) <= Len(delivered)
<1>1. PICK a \in 1 .. Len(delivered) + 1 : Recalled(now) = SubSeq(delivered, a, Len(delivered))
  BY RecalledIsOf
<1> QED BY <1>1

(* At most as many are kept as there is room for.                            *)
LEMMA RememberIsTyped ==
  ASSUME NEW S, NEW seq \in Seq(S), Len(seq) <= Capacity,
         NEW e, NEW now, [event |-> e, at |-> now] \in S
  PROVE  /\ Remember(seq, e, now) \in Seq(S)
         /\ Len(Remember(seq, e, now)) <= Capacity
<1> DEFINE k == CHOOSE j \in DOMAIN seq : seq[j].event = e
           others == IF Delivers(seq, e) THEN SubSeq(seq, 1, k - 1) \o SubSeq(seq, k + 1, Len(seq))
                     ELSE seq
           all == Append(others, [event |-> e, at |-> now])
<1>1. others \in Seq(S) /\ Len(others) <= Capacity
  <2>1. CASE Delivers(seq, e)
    <3>1. k \in DOMAIN seq
      BY <2>1 DEF Delivers
    <3> HIDE DEF k
    <3>2. /\ SubSeq(seq, 1, k - 1) \in Seq(S) /\ Len(SubSeq(seq, 1, k - 1)) = k - 1
      BY <3>1
    <3>3. /\ SubSeq(seq, k + 1, Len(seq)) \in Seq(S)
          /\ Len(SubSeq(seq, k + 1, Len(seq))) = Len(seq) - k
      BY <3>1
    <3> DEFINE before == SubSeq(seq, 1, k - 1)
               after == SubSeq(seq, k + 1, Len(seq))
    <3> HIDE DEF before, after
    <3>4. before \o after \in Seq(S) /\ Len(before \o after) = Len(before) + Len(after)
      BY <3>2, <3>3 DEF before, after
    <3>5. others = before \o after
      BY <2>1 DEF before, after, k
    <3>6. Len(before) = k - 1 /\ Len(after) = Len(seq) - k /\ k \in Nat /\ Len(seq) \in Nat
      BY <3>1, <3>2, <3>3 DEF before, after
    <3> HIDE DEF others
    <3> HIDE DEF k
    <3>7. Len(others) = Len(seq) - 1 /\ Capacity \in Nat
      <4>1. Len(others) = Len(before) + Len(after)
        BY <3>4, <3>5
      <4>2. Capacity \in Nat
        BY RelayAssumption
      <4> QED BY <3>6, <4>1, <4>2
    <3>8. others \in Seq(S)
      BY <3>4, <3>5
    <3> QED BY <3>6, <3>7, <3>8
  <2>2. CASE ~Delivers(seq, e)
    BY <2>2
  <2> QED BY <2>1, <2>2
<1> HIDE DEF others
<1>3. all \in Seq(S) /\ Len(all) = Len(others) + 1
  BY <1>1
<1>4. Remember(seq, e, now) = IF Len(all) > Capacity THEN Tail(all) ELSE all
  BY DEF Remember, others
<1> HIDE DEF all
<1>5. Len(all) > 0 /\ Capacity \in Nat
  BY <1>1, <1>3, RelayAssumption
<1>6. Tail(all) \in Seq(S) /\ Len(Tail(all)) = Len(all) - 1
  BY <1>3, <1>5
<1> QED BY <1>1, <1>3, <1>4, <1>5, <1>6
-----------------------------------------------------------------------------
(* The types.  None but the holder of the flock is past its decision, and    *)
(* what it is going to write fits.                                           *)
Orders == [latest : Stamp, daysBack : Nat, back : BOOLEAN, failed : BOOLEAN]

MemoryTyped ==
  /\ delivered \in Seq(Publication) /\ Len(delivered) <= Capacity
  /\ log \in Seq(Publication) /\ Len(log) <= Capacity

PlanFits(p) == Fits(Cardinality(DOMAIN p.entries), Cardinality(DOMAIN p.budget.containers))

RequestsTyped ==
  /\ req \in [Thread -> {Free} \cup Waiting \cup Deciding]
  /\ \A t \in Locked : PlanFits(req[t].plan)
  /\ \A t, u \in Locked : t = u

PastTyped ==
  /\ clock \in Stamp /\ requests \in Nat /\ restarts \in Nat
  /\ sent \in [0 .. Day(MaxClock) -> Nat]
  /\ announced \subseteq Nat \X Scopes /\ hushed \subseteq Nat \X Scopes
  /\ order \in Orders

TypeInv == FileTyped /\ MemoryTyped /\ RequestsTyped /\ PastTyped

LEMMA LockedAre ==
  ASSUME RequestsTyped, NEW t \in Thread
  PROVE  /\ t \in Locked <=> req[t] \in Deciding
         /\ t \in Locked => /\ req[t].event \in Events /\ req[t].now \in Stamp
                            /\ req[t].plan \in Plans
                            /\ req[t].pc \in {"publishing", "persisting"}
         /\ req[t].pc = "waiting" => req[t].event \in Events /\ req[t].now \in Stamp
         /\ req[t].pc \in {"publishing", "persisting"} => t \in Locked
  BY DEF RequestsTyped, Locked, Free, Waiting, Deciding

LEMMA StampsAre == Stamp \subseteq Nat
  BY RelayAssumption DEF Stamp

(* A request that lets go of the flock, or comes to hold it.                 *)
LEMMA BecomeIsOf ==
  ASSUME RequestsTyped, NEW t \in Thread, NEW r, Become(t, r),
         \/ r \in {Free} \cup Waiting
         \/ r \in Deciding /\ PlanFits(r.plan) /\ Locked \subseteq {t}
  PROVE  /\ RequestsTyped' /\ req'[t] = r
         /\ \A u \in Thread \ {t} : req'[u] = req[u]
         /\ r \in Deciding => Locked' = {t}
         /\ r \notin Deciding => Locked' = Locked \ {t}
<1>1. /\ req' \in [Thread -> {Free} \cup Waiting \cup Deciding]
      /\ req'[t] = r /\ \A u \in Thread \ {t} : req'[u] = req[u]
  BY DEF RequestsTyped, Become
<1>2. \A u \in Thread : u \in Locked <=> req[u].pc \in {"publishing", "persisting"}
  BY DEF Locked
<1>3. \A u \in Thread : u \in Locked' <=> req'[u].pc \in {"publishing", "persisting"}
  BY DEF Locked
<1>4. Locked \subseteq Thread /\ Locked' \subseteq Thread
  BY DEF Locked
<1>5. CASE r \in Deciding
  <2>1. Locked' = {t}
    BY <1>1, <1>2, <1>3, <1>4, <1>5 DEF Deciding, Free, Waiting
  <2>2. PlanFits(req'[t].plan)
    BY <1>1, <1>5 DEF Deciding, Free, Waiting
  <2> QED BY <1>1, <1>5, <2>1, <2>2 DEF RequestsTyped, PlanFits
<1>6. CASE r \notin Deciding
  <2>1. Locked' = Locked \ {t}
    BY <1>1, <1>2, <1>3, <1>4, <1>6 DEF Free, Waiting
  <2>2. \A u \in Locked' : u \in Locked /\ u # t /\ req'[u] = req[u]
    BY <1>1, <1>4, <2>1
  <2> QED BY <1>1, <1>6, <2>1, <2>2 DEF RequestsTyped, PlanFits
<1> QED BY <1>5, <1>6

LEMMA TypeInit == Init => TypeInv
<1> SUFFICES ASSUME Init PROVE TypeInv
  OBVIOUS
<1>1. PICK old \in SUBSET Legacy :
        store = [entries |-> [i \in old |-> [state |-> "unhealthy", at |-> 0]],
                 budget |-> Unset, legacy |-> old # {}]
  BY DEF Init
<1>2. FileTyped
  <2> DEFINE f == [i \in old |-> [state |-> "unhealthy", at |-> 0]]
  <2>1. DOMAIN f \subseteq Identity /\ f \in [DOMAIN f -> Entry]
    BY RelayAssumption DEF Entry
  <2> HIDE DEF f
  <2>2. f \in EntryMaps
    BY <2>1, MapsAreTyped DEF IsEntries
  <2> QED BY <1>1, <2>2 DEF Init, FileTyped, f
<1>3. MemoryTyped
  BY RelayAssumption DEF Init, MemoryTyped
<1>4. RequestsTyped
  BY DEF Init, RequestsTyped, Locked, Free
<1>5. PastTyped
  BY RelayAssumption, StampsAre DEF Init, PastTyped, Orders, Stamp
<1> QED BY <1>2, <1>3, <1>4, <1>5 DEF TypeInv

(* What every request does on entry.                                         *)
LEMMA ForgetsIsTyped ==
  ASSUME TypeInv, NEW t \in Thread, req[t].pc = "waiting", Forgets(t)
  PROVE  /\ delivered' \in Seq(Publication) /\ Len(delivered') <= Capacity
         /\ order' \in Orders /\ order'.latest = Larger(order.latest, req[t].now)
         /\ order'.failed = order.failed
         /\ order'.back = (order.back \/ req[t].now < order.latest)
         /\ order'.daysBack = IF Day(req[t].now) < Day(order.latest) THEN order.daysBack + 1
                              ELSE order.daysBack
<1>1. req[t].now \in Stamp
  BY LockedAre DEF TypeInv
<1>2. req[t].now \in Nat
  BY <1>1, StampsAre
<1>3. delivered' \in Seq(Publication) /\ Len(delivered') <= Capacity
  <2>1. /\ Recalled(req[t].now) \in Seq(Publication)
        /\ Len(Recalled(req[t].now)) <= Len(delivered)
    BY <1>2, RecalledIsTyped DEF TypeInv, MemoryTyped
  <2>2. Len(delivered) \in Nat /\ Len(Recalled(req[t].now)) \in Nat /\ Capacity \in Nat
    BY <2>1, RelayAssumption DEF TypeInv, MemoryTyped
  <2> QED BY <2>1, <2>2 DEF TypeInv, MemoryTyped, Forgets
<1>4. order \in Orders
  BY DEF TypeInv, PastTyped
<1>5. Larger(order.latest, req[t].now) \in Stamp
  BY <1>1, <1>4 DEF Larger, Orders
<1> DEFINE latest == Larger(order.latest, req[t].now)
           back == order.back \/ req[t].now < order.latest
           daysBack == IF Day(req[t].now) < Day(order.latest) THEN order.daysBack + 1
                       ELSE order.daysBack
<1>6. back \in BOOLEAN /\ daysBack \in Nat
  BY <1>4 DEF Orders
<1>7. order' = [order EXCEPT !.latest = latest, !.back = back, !.daysBack = daysBack]
  BY DEF Forgets
<1>8. latest \in Stamp
  BY <1>5
<1> HIDE DEF latest, back, daysBack
<1>9. /\ order' \in Orders /\ order'.latest = latest /\ order'.back = back
      /\ order'.daysBack = daysBack /\ order'.failed = order.failed
  BY <1>4, <1>6, <1>7, <1>8 DEF Orders
<1> QED BY <1>3, <1>9 DEF latest, back, daysBack
(* What Decide() does, with the types of what it leaves.                     *)
LEMMA DecideIsTyped ==
  ASSUME TypeInv, NEW t \in Thread, Decide(t)
  PROVE  LET e == req[t].event
             now == req[t].now
             p == Plan(e, now) IN
         /\ e \in Events /\ now \in Stamp /\ p \in Plans /\ Locked = {} /\ Forgets(t)
         /\ ~Outdated(Read(e), e) /\ ~TooLarge(Transition(Read(e), e)) /\ ~Seen(t)
         /\ RequestsTyped'
         /\ p.kind \in {"publish", "notice"} =>
              floor' = floor /\ Locked' = {t} /\ req'[t] = Under("publishing", e, now, p)
         /\ p.kind \notin {"publish", "notice"} =>
              /\ floor' = p.budget
              /\ p.write => Locked' = {t} /\ req'[t] = Under("persisting", e, now, p)
              /\ ~p.write => Locked' = {}
<1> DEFINE e == req[t].event
           now == req[t].now
           p == Plan(e, now)
<1>1. e \in Events /\ now \in Stamp /\ Locked = {} /\ req[t].pc = "waiting"
  BY LockedAre DEF TypeInv, Decide, Proceeds, Enters
<1>2. /\ ~Outdated(Read(e), e) /\ ~TooLarge(Transition(Read(e), e)) /\ ~Seen(t) /\ Forgets(t)
  BY DEF Decide, Proceeds, Health
<1>3. p \in Plans /\ PlanFits(p)
  <2>1. now \in Nat
    BY <1>1, StampsAre
  <2> HIDE DEF e, now
  <2> QED BY <1>1, <1>2, <2>1, PlanIsOf DEF TypeInv, PlanFits
<1>4. /\ IF p.kind \in {"publish", "notice"}
         THEN Become(t, Under("publishing", e, now, p)) /\ UNCHANGED floor
         ELSE /\ floor' = p.budget
              /\ IF p.write THEN Become(t, Under("persisting", e, now, p)) ELSE Done(t)
  BY DEF Decide
<1> HIDE DEF p, e, now
<1>5. /\ Under("publishing", e, now, p) \in Deciding /\ Under("persisting", e, now, p) \in Deciding
      /\ PlanFits(Under("publishing", e, now, p).plan)
      /\ PlanFits(Under("persisting", e, now, p).plan)
  BY <1>1, <1>3 DEF Under, Deciding
<1>6. Free \notin Deciding
  BY DEF Free, Deciding
<1>7. Locked = {} /\ RequestsTyped
  BY <1>1 DEF TypeInv
<1>8. CASE p.kind \in {"publish", "notice"}
  <2>1. Become(t, Under("publishing", e, now, p)) /\ floor' = floor
    BY <1>4, <1>8
  <2>2. /\ RequestsTyped' /\ req'[t] = Under("publishing", e, now, p) /\ Locked' = {t}
    BY <1>5, <1>7, <2>1, BecomeIsOf
  <2> QED BY <1>1, <1>2, <1>3, <1>8, <2>1, <2>2 DEF p, e, now
<1>9. CASE p.kind \notin {"publish", "notice"} /\ p.write
  <2>1. Become(t, Under("persisting", e, now, p)) /\ floor' = p.budget
    BY <1>4, <1>9
  <2>2. /\ RequestsTyped' /\ req'[t] = Under("persisting", e, now, p) /\ Locked' = {t}
    BY <1>5, <1>7, <2>1, BecomeIsOf
  <2> QED BY <1>1, <1>2, <1>3, <1>9, <2>1, <2>2 DEF p, e, now
<1>10. CASE p.kind \notin {"publish", "notice"} /\ ~p.write
  <2>1. Become(t, Free) /\ floor' = p.budget
    BY <1>4, <1>10 DEF Done
  <2>2. /\ RequestsTyped' /\ Locked' = {}
    BY <1>6, <1>7, <2>1, BecomeIsOf
  <2> QED BY <1>1, <1>2, <1>3, <1>10, <2>1, <2>2 DEF p, e, now
<1> QED BY <1>8, <1>9, <1>10

(* What a request under the flock does to the requests.                      *)
LEMMA DoneIsTyped ==
  ASSUME RequestsTyped, NEW t \in Thread, Done(t)
  PROVE  RequestsTyped' /\ Locked' = Locked \ {t} /\ \A u \in Thread \ {t} : req'[u] = req[u]
<1>1. Free \notin Deciding /\ Become(t, Free)
  BY DEF Free, Deciding, Done
<1> QED BY <1>1, BecomeIsOf

LEMMA PublishIsTyped ==
  ASSUME TypeInv, NEW t \in Thread, PublishAccepted(t)
  PROVE  LET e == req[t].event
             now == req[t].now
             p == req[t].plan IN
         /\ e \in Events /\ now \in Stamp /\ p \in Plans /\ Locked = {t}
         /\ req[t].pc = "publishing" /\ floor' = p.budget
         /\ RequestsTyped'
         /\ p.write => Locked' = {t} /\ req'[t] = Under("persisting", e, now, p)
         /\ ~p.write => Locked' = {}
<1> DEFINE e == req[t].event
           now == req[t].now
           p == req[t].plan
<1>1. t \in Locked /\ e \in Events /\ now \in Stamp /\ p \in Plans /\ req[t].pc = "publishing"
  BY LockedAre DEF TypeInv, PublishAccepted
<1>2. Locked = {t} /\ PlanFits(p) /\ RequestsTyped
  BY <1>1 DEF TypeInv, RequestsTyped
<1>3. /\ floor' = p.budget
      /\ IF p.write THEN Become(t, Under("persisting", e, now, p)) ELSE Done(t)
  BY DEF PublishAccepted
<1> HIDE DEF p, e, now
<1>4. CASE p.write
  <2>1. Become(t, Under("persisting", e, now, p))
    BY <1>3, <1>4
  <2>2. /\ Under("persisting", e, now, p) \in Deciding
        /\ PlanFits(Under("persisting", e, now, p).plan)
    BY <1>1, <1>2 DEF Under, Deciding
  <2>3. RequestsTyped' /\ Locked' = {t} /\ req'[t] = Under("persisting", e, now, p)
    BY <1>2, <2>1, <2>2, BecomeIsOf
  <2> QED BY <1>1, <1>2, <1>3, <1>4, <2>3 DEF e, now, p
<1>5. CASE ~p.write
  <2>1. RequestsTyped' /\ Locked' = {}
    BY <1>2, <1>3, <1>5, DoneIsTyped
  <2> QED BY <1>1, <1>2, <1>3, <1>5, <2>1 DEF e, now, p
<1> QED BY <1>4, <1>5
LEMMA LogIsTyped ==
  ASSUME MemoryTyped, NEW e \in Events, NEW now \in Stamp
  PROVE  LET all == Append(log, [event |-> e, at |-> now])
             kept == IF Len(all) > Capacity THEN Tail(all) ELSE all
         IN  kept \in Seq(Publication) /\ Len(kept) <= Capacity
<1> DEFINE all == Append(log, [event |-> e, at |-> now])
<1>1. [event |-> e, at |-> now] \in Publication
  BY DEF Publication
<1>2. all \in Seq(Publication) /\ Len(all) = Len(log) + 1 /\ Len(log) <= Capacity
  BY <1>1 DEF MemoryTyped
<1>3. Len(log) \in Nat /\ Capacity \in Nat
  BY RelayAssumption DEF MemoryTyped
<1> DEFINE kept == IF Len(all) > Capacity THEN Tail(all) ELSE all
<1>4. kept \in Seq(Publication) /\ Len(kept) <= Capacity
  <2> HIDE DEF all
  <2>1. CASE Len(all) > Capacity
    <3>1. Tail(all) \in Seq(Publication) /\ Len(Tail(all)) = Len(all) - 1
      BY <1>2, <1>3, <2>1
    <3> QED BY <1>2, <1>3, <2>1, <3>1
  <2>2. CASE ~(Len(all) > Capacity)
    BY <1>2, <1>3, <2>2
  <2> QED BY <2>1, <2>2
<1> HIDE DEF kept
<1> QED BY <1>4 DEF kept, all

LEMMA TypeStep == TypeInv /\ [Next]_vars => TypeInv'
<1> SUFFICES ASSUME TypeInv, [Next]_vars PROVE TypeInv'
  OBVIOUS
<1>0. FileTyped /\ MemoryTyped /\ RequestsTyped /\ PastTyped
  BY DEF TypeInv
<1>1. ASSUME UNCHANGED vars PROVE TypeInv'
  BY <1>1 DEF TypeInv, FileTyped, MemoryTyped, RequestsTyped, PastTyped, Locked, PlanFits,
              vars, service, past
<1>2. CASE Tick
  <2>1. clock' \in Stamp
    BY <1>0, <1>2, RelayAssumption DEF Tick, Stamp, PastTyped
  <2>2. UNCHANGED <<service, requests, restarts, past>>
    BY <1>2 DEF Tick
  <2>3. FileTyped' /\ MemoryTyped'
    BY <1>0, <2>2 DEF FileTyped, MemoryTyped, service, past
  <2>4. RequestsTyped'
    BY <1>0, <2>2 DEF RequestsTyped, Locked, PlanFits, service
  <2>5. PastTyped'
    BY <1>0, <2>1, <2>2 DEF PastTyped, past
  <2> QED BY <2>3, <2>4, <2>5 DEF TypeInv
<1>3. CASE Restart
  <2>1. RequestsTyped'
    BY <1>3 DEF Restart, RequestsTyped, Locked, Free
  <2>2. MemoryTyped'
    BY <1>3, RelayAssumption DEF Restart, MemoryTyped
  <2> QED BY <1>0, <1>3, <2>1, <2>2 DEF Restart, TypeInv, FileTyped, PastTyped
<1>4. ASSUME NEW t \in Thread, NEW e \in Events, Receive(t, e) PROVE TypeInv'
  <2> DEFINE r == [pc |-> "waiting", event |-> e, now |-> clock]
  <2>1. r \in Waiting /\ Become(t, r)
    BY <1>0, <1>4 DEF Waiting, PastTyped, Receive
  <2> HIDE DEF r
  <2>2. RequestsTyped'
    BY <1>0, <2>1, BecomeIsOf DEF Waiting, Deciding
  <2>3. FileTyped' /\ MemoryTyped' /\ PastTyped'
    BY <1>0, <1>4 DEF Receive, FileTyped, MemoryTyped, PastTyped, past
  <2> QED BY <2>2, <2>3 DEF TypeInv
<1>5. ASSUME NEW t \in Thread, Unavailable(t) \/ Drop(t) \/ Overflow(t) PROVE TypeInv'
  <2>1. RequestsTyped'
    BY <1>0, <1>5, DoneIsTyped DEF Unavailable, Drop, Overflow
  <2>2. FileTyped'
    BY <1>0, <1>5 DEF FileTyped, Unavailable, Drop, Overflow
  <2>3. UNCHANGED <<clock, requests, restarts, sent, announced, hushed, log>>
    BY <1>5 DEF Unavailable, Drop, Overflow
  <2>4. UNCHANGED <<delivered, order>> \/ (req[t].pc = "waiting" /\ Forgets(t))
    BY <1>5 DEF Unavailable, Drop, Overflow, Enters, Proceeds
  <2>5. MemoryTyped' /\ order' \in Orders
    BY <1>0, <2>3, <2>4, ForgetsIsTyped DEF MemoryTyped, PastTyped
  <2> QED BY <1>0, <2>1, <2>2, <2>3, <2>5 DEF TypeInv, PastTyped
<1>6. ASSUME NEW t \in Thread, Decide(t) PROVE TypeInv'
  <2> DEFINE p == Plan(req[t].event, req[t].now)
             d == {<<Day(req[t].now), p.scope>>}
  <2>1. /\ RequestsTyped' /\ req[t].now \in Stamp /\ p \in Plans /\ Forgets(t)
        /\ floor' \in {floor, p.budget}
    BY <1>6, DecideIsTyped
  <2>2. /\ req[t].pc = "waiting" /\ UNCHANGED <<clock, store, requests, restarts, sent, announced, log>>
        /\ hushed' = hushed \cup (IF p.kind = "silent" THEN d ELSE {})
    BY <1>6 DEF Decide, Proceeds, Enters
  <2> HIDE DEF p
  <2>3. p.budget \in Budgets /\ d \subseteq Nat \X Scopes
    <3>1. p.scope \in Scopes /\ p.budget \in Budgets
      BY <2>1 DEF Plans
    <3>2. Day(req[t].now) \in Nat
      BY <2>1, StampsAre, DaysGoOn
    <3> QED BY <3>1, <3>2
  <2>4. FileTyped'
    BY <1>0, <2>1, <2>2, <2>3 DEF FileTyped
  <2>5. MemoryTyped' /\ order' \in Orders
    BY <1>0, <2>1, <2>2, ForgetsIsTyped DEF MemoryTyped
  <2> HIDE DEF d
  <2>6. hushed' \subseteq Nat \X Scopes
    BY <1>0, <2>2, <2>3 DEF PastTyped
  <2>7. PastTyped'
    BY <1>0, <2>2, <2>5, <2>6 DEF PastTyped
  <2> QED BY <2>1, <2>4, <2>5, <2>7 DEF TypeInv
<1>7. ASSUME NEW t \in Thread, PublishRefused(t) PROVE TypeInv'
  <2>1. RequestsTyped'
    BY <1>0, <1>7, DoneIsTyped DEF PublishRefused
  <2> QED BY <1>0, <1>7, <2>1 DEF PublishRefused, TypeInv, FileTyped, MemoryTyped, PastTyped, past
<1>8. ASSUME NEW t \in Thread, PublishAccepted(t) PROVE TypeInv'
  <2> DEFINE e == req[t].event
             now == req[t].now
             p == req[t].plan
             all == Append(log, [event |-> e, at |-> now])
             kept == IF Len(all) > Capacity THEN Tail(all) ELSE all
             note == {<<Day(now), p.scope>>}
  <2>1. /\ e \in Events /\ now \in Stamp /\ p \in Plans /\ RequestsTyped' /\ floor' = p.budget
    BY <1>8, PublishIsTyped
  <2>2. /\ UNCHANGED <<clock, store, requests, restarts, hushed, order>>
        /\ delivered' = IF e.id = NoOne THEN delivered ELSE Remember(delivered, e, now)
        /\ log' = IF e.id = NoOne THEN log ELSE kept
        /\ sent' = IF p.kind = "publish" THEN [sent EXCEPT ![Day(now)] = @ + 1] ELSE sent
        /\ announced' = announced \cup (IF p.kind = "notice" THEN note ELSE {})
    BY <1>8 DEF PublishAccepted
  <2>3. Day(now) \in 0 .. Day(MaxClock) /\ Day(now) \in Nat
    BY <2>1, StampsAre, DaysGoOn, RelayAssumption DEF Stamp
  <2>4. p.scope \in Scopes /\ p.budget \in Budgets
    BY <2>1 DEF Plans
  <2>5. note \subseteq Nat \X Scopes
    BY <2>3, <2>4
  <2>6. kept \in Seq(Publication) /\ Len(kept) <= Capacity
    <3> HIDE DEF e, now
    <3> QED BY <1>0, <2>1, LogIsTyped
  <2> HIDE DEF e, now, p, note, kept
  <2>7. MemoryTyped'
    <3>1. [event |-> e, at |-> now] \in Publication
      BY <2>1 DEF Publication
    <3> QED BY <1>0, <2>2, <2>6, <3>1, RememberIsTyped DEF MemoryTyped
  <2>8. FileTyped'
    BY <1>0, <2>1, <2>2, <2>4 DEF FileTyped
  <2>9. sent' \in [0 .. Day(MaxClock) -> Nat]
    BY <1>0, <2>2, <2>3 DEF PastTyped
  <2>10. announced' \subseteq Nat \X Scopes
    BY <1>0, <2>2, <2>5 DEF PastTyped
  <2>11. PastTyped'
    BY <1>0, <2>2, <2>9, <2>10 DEF PastTyped
  <2> QED BY <2>1, <2>7, <2>8, <2>11 DEF TypeInv
<1>9. ASSUME NEW t \in Thread, Persist(t) \/ PersistFails(t) PROVE TypeInv'
  <2>1. RequestsTyped'
    BY <1>0, <1>9, DoneIsTyped DEF Persist, PersistFails
  <2>2. req[t].plan \in Plans /\ store' \in {store, Replaced(t)} /\ floor' = floor
    BY <1>0, <1>9, LockedAre DEF Persist, PersistFails
  <2>3. FileTyped'
    <3>1. req[t].plan.entries \in EntryMaps /\ req[t].plan.budget \in Budgets
      BY <2>2 DEF Plans
    <3>2. CASE store' = Replaced(t)
      <4>1. /\ store'.entries = req[t].plan.entries /\ store'.budget = req[t].plan.budget
            /\ store'.legacy = FALSE
        BY <3>2 DEF Replaced
      <4> QED BY <1>0, <2>2, <3>1, <4>1 DEF FileTyped
    <3>3. CASE store' = store
      BY <1>0, <2>2, <3>3 DEF FileTyped
    <3> QED BY <2>2, <3>2, <3>3
  <2>4. UNCHANGED <<clock, delivered, requests, restarts, sent, announced, hushed, log>>
    BY <1>9 DEF Persist, PersistFails, past
  <2>5. order' = order \/ order' = [order EXCEPT !.failed = TRUE]
    BY <1>9 DEF Persist, PersistFails, past
  <2>6. order' \in Orders
    BY <1>0, <2>5 DEF PastTyped, Orders
  <2> QED BY <1>0, <2>1, <2>3, <2>4, <2>6 DEF TypeInv, MemoryTyped, PastTyped
<1> QED BY <1>1, <1>2, <1>3, <1>4, <1>5, <1>6, <1>7, <1>8, <1>9 DEF Next, Serve

(* The shapes, the bounds of the file and of the memory, and one holder of   *)
(* the flock (process_event(), bounded_state(), DeliveredEvents).            *)
THEOREM RelayTypes == Spec => []TypeOK
<1>1. TypeInv => TypeOK
  <2> SUFFICES ASSUME TypeInv PROVE TypeOK
    OBVIOUS
  <2>0. FileTyped /\ MemoryTyped /\ RequestsTyped /\ PastTyped
    BY DEF TypeInv
  <2>1. /\ IsEntries(store.entries) /\ store.legacy \in BOOLEAN
        /\ store.budget = Unset \/ IsBudget(store.budget)
        /\ floor = Unset \/ IsBudget(floor)
    BY <2>0, MapsAreTyped, BudgetsAreTyped DEF FileTyped
  <2>2. /\ \A k \in DOMAIN delivered : delivered[k].event \in Events /\ delivered[k].at \in Nat
        /\ Len(delivered) <= Capacity
    <3>1. \A k \in DOMAIN delivered : delivered[k] \in Publication
      BY <2>0 DEF MemoryTyped
    <3> QED BY <2>0, <3>1, StampsAre DEF Publication, MemoryTyped
  <2>3. ASSUME NEW t \in Thread PROVE RequestType(req[t])
    <3>1. CASE req[t] \in {Free} \cup Waiting
      BY <3>1, StampsAre DEF RequestType, Waiting
    <3>2. CASE req[t] \in Deciding
      <4>1. t \in Locked /\ PlanFits(req[t].plan) /\ req[t].plan \in Plans
        BY <2>0, <3>2, LockedAre DEF RequestsTyped
      <4>2. req[t].plan.entries \in EntryMaps /\ req[t].plan.budget \in Budgets
        BY <4>1 DEF Plans
      <4>3. req[t].event \in Events /\ req[t].now \in Nat /\ req[t].pc \in {"publishing", "persisting"}
        BY <3>2, StampsAre DEF Deciding
      <4> QED BY <4>1, <4>2, <4>3, MapsAreTyped, BudgetsAreTyped DEF RequestType, PlanFits
    <3> QED BY <2>0, <3>1, <3>2 DEF RequestsTyped
  <2>4. Cardinality(Locked) <= 1
    <3>1. CASE Locked = {}
      BY <3>1, FS_EmptySet
    <3>2. CASE Locked # {}
      <4>1. PICK t \in Locked : Locked = {t}
        BY <2>0, <3>2 DEF RequestsTyped
      <4> QED BY <4>1, FS_Singleton
    <3> QED BY <3>1, <3>2
  <2> QED BY <2>0, <2>1, <2>2, <2>3, <2>4 DEF TypeOK, PastTyped
<1>2. Spec => []TypeInv
  BY TypeInit, TypeStep, PTL DEF Spec
<1> QED BY <1>1, <1>2, PTL
-----------------------------------------------------------------------------
(* Steps by what they may disturb: those that leave the file, the floor and  *)
(* every decision alone, those that enter, and those that end a decision.    *)
Quiet ==
  \/ UNCHANGED vars \/ Tick
  \/ \E t \in Thread : \/ \E e \in Events : Receive(t, e)
                       \/ Unavailable(t) \/ Drop(t) \/ Overflow(t) \/ PublishRefused(t)
Settles(t) == Persist(t) \/ PersistFails(t)

LEMMA StepsAre ==
  [Next]_vars <=>
    \/ Quiet \/ Restart
    \/ \E t \in Thread : Decide(t) \/ PublishAccepted(t) \/ Settles(t)
  BY DEF Next, Serve, Quiet, Settles

LEMMA QuietIsQuiet ==
  ASSUME TypeInv, Quiet
  PROVE  /\ UNCHANGED <<store, floor, restarts, sent, announced, hushed, told, log>>
         /\ \A u \in Locked' : u \in Locked /\ req'[u] = req[u]
<1>0. RequestsTyped
  BY DEF TypeInv
<1>1. CASE UNCHANGED vars \/ Tick
  BY <1>1 DEF vars, Tick, service, past, Locked
<1>2. ASSUME NEW t \in Thread, NEW e \in Events, Receive(t, e)
      PROVE  /\ UNCHANGED <<store, floor, restarts, sent, announced, hushed, told, log>>
             /\ \A u \in Locked' : u \in Locked /\ req'[u] = req[u]
  <2> DEFINE r == [pc |-> "waiting", event |-> e, now |-> clock]
  <2>1. r \in Waiting /\ Become(t, r)
    BY <1>2 DEF Waiting, TypeInv, PastTyped, Receive
  <2>2. r \notin Deciding
    BY DEF Deciding
  <2> HIDE DEF r
  <2>3. Locked' = Locked \ {t} /\ \A u \in Thread \ {t} : req'[u] = req[u]
    BY <1>0, <2>1, <2>2, BecomeIsOf
  <2> QED BY <1>2, <2>3 DEF Receive, past, Locked
<1>3. ASSUME NEW t \in Thread, Unavailable(t) \/ Drop(t) \/ Overflow(t) \/ PublishRefused(t)
      PROVE  /\ UNCHANGED <<store, floor, restarts, sent, announced, hushed, told, log>>
             /\ \A u \in Locked' : u \in Locked /\ req'[u] = req[u]
  <2>1. Done(t)
    BY <1>3 DEF Unavailable, Drop, Overflow, PublishRefused
  <2>2. Locked' = Locked \ {t} /\ \A u \in Thread \ {t} : req'[u] = req[u]
    BY <1>0, <2>1, DoneIsTyped
  <2>3. \A u \in Locked : u \in Thread
    BY DEF Locked
  <2>4. UNCHANGED <<store, floor, restarts, sent, announced, hushed, told, log>>
    BY <1>3 DEF Unavailable, Drop, Overflow, PublishRefused, past
  <2> QED BY <2>2, <2>3, <2>4
<1> QED BY <1>1, <1>2, <1>3 DEF Quiet

LEMMA SettlesIsTyped ==
  ASSUME TypeInv, NEW t \in Thread, Settles(t)
  PROVE  /\ t \in Locked /\ req[t].pc = "persisting" /\ Locked = {t} /\ Locked' = {}
         /\ req[t].event \in Events /\ req[t].now \in Stamp /\ req[t].plan \in Plans
         /\ \/ UNCHANGED <<store>>
            \/ /\ store'.entries = req[t].plan.entries /\ store'.budget = req[t].plan.budget
         /\ UNCHANGED <<clock, floor, delivered, restarts, sent, announced, hushed, told, log>>
<1>0. RequestsTyped
  BY DEF TypeInv
<1>1. req[t].pc = "persisting" /\ Done(t)
  BY DEF Settles, Persist, PersistFails
<1>2. /\ t \in Locked
      /\ req[t].event \in Events /\ req[t].now \in Stamp /\ req[t].plan \in Plans
  BY <1>0, <1>1, LockedAre
<1>3. Locked = {t}
  BY <1>0, <1>2 DEF RequestsTyped
<1>4. Locked' = {}
  BY <1>0, <1>1, <1>3, DoneIsTyped
<1>5. \/ UNCHANGED <<store>>
      \/ /\ store'.entries = req[t].plan.entries /\ store'.budget = req[t].plan.budget
  <2>1. store' \in {store, Replaced(t)}
    BY DEF Settles, Persist, PersistFails
  <2> QED BY <2>1 DEF Replaced
<1>6. UNCHANGED <<clock, floor, delivered, restarts, sent, announced, hushed, told, log>>
  BY DEF Settles, Persist, PersistFails, past
<1> QED BY <1>1, <1>2, <1>3, <1>4, <1>5, <1>6

LEMMA RestartIsTyped ==
  ASSUME Restart
  PROVE  /\ Locked' = {} /\ floor' = Unset /\ delivered' = <<>> /\ log' = <<>>
         /\ restarts' = restarts + 1
         /\ UNCHANGED <<clock, store, sent, announced, hushed, told, order>>
  BY DEF Restart, Locked, Free

-----------------------------------------------------------------------------
(* Notices.  What the file, the floor and the decision being written say was *)
(* noticed was; the decision being published says so of its own as well.     *)
NoticeOf(t) ==
  IF req[t].pc = "publishing" /\ req[t].plan.kind = "notice"
  THEN {<<Day(req[t].now), req[t].plan.scope>>} ELSE {}

SilenceInv ==
  /\ NoticesOf(store.budget) \subseteq announced /\ NoticesOf(floor) \subseteq announced
  /\ hushed \subseteq announced
  /\ \A t \in Locked : Noticed(req[t].plan.budget) \subseteq announced \cup NoticeOf(t)

LEMMA SilenceStep == TypeInv /\ SilenceInv /\ [Next]_vars => SilenceInv'
<1> SUFFICES ASSUME TypeInv, SilenceInv, [Next]_vars PROVE SilenceInv'
  OBVIOUS
<1>1. CASE Quiet
  <2>1. /\ UNCHANGED <<store, floor, announced, hushed>>
        /\ \A u \in Locked' : u \in Locked /\ req'[u] = req[u]
    BY <1>1, QuietIsQuiet
  <2>2. \A u \in Locked' : Noticed(req'[u].plan.budget) \subseteq announced' \cup NoticeOf(u)'
    BY <2>1 DEF SilenceInv, NoticeOf
  <2> QED BY <2>1, <2>2 DEF SilenceInv, NoticesOf
<1>2. CASE Restart
  <2>1. /\ Locked' = {} /\ UNCHANGED <<store, announced, hushed>> /\ NoticesOf(floor') = {}
    BY <1>2, RestartIsTyped DEF NoticesOf
  <2> QED BY <2>1 DEF SilenceInv, NoticesOf
<1>3. ASSUME NEW t \in Thread, Decide(t) PROVE SilenceInv'
  <2> DEFINE e == req[t].event
             now == req[t].now
             p == Plan(e, now)
             v == Verdict(e, now)
  <2>1. /\ e \in Events /\ now \in Nat /\ FileTyped /\ p \in Plans
        /\ ~Outdated(Read(e), e) /\ ~TooLarge(Transition(Read(e), e))
    BY <1>3, DecideIsTyped, StampsAre DEF TypeInv
  <2>2. /\ p.kind \in {"publish", "notice"} =>
              floor' = floor /\ Locked' = {t} /\ req'[t] = Under("publishing", e, now, p)
        /\ p.kind \notin {"publish", "notice"} =>
              /\ floor' = p.budget
              /\ p.write => Locked' = {t} /\ req'[t] = Under("persisting", e, now, p)
              /\ ~p.write => Locked' = {}
    BY <1>3, DecideIsTyped
  <2>3. /\ UNCHANGED <<store, announced>>
        /\ hushed' = hushed \cup (IF p.kind = "silent" THEN {<<Day(now), p.scope>>} ELSE {})
    BY <1>3 DEF Decide
  <2> HIDE DEF e, now, p, v
  <2>4. /\ p.kind = v.kind /\ p.scope = v.scope /\ Noticed(p.budget) \subseteq Noticed(v.budget)
    BY <2>1, PlanIsOf DEF p, v
  <2>5. /\ Noticed(Budget(now)) \subseteq NoticesOf(store.budget) \cup NoticesOf(floor)
        /\ Noticed(v.budget) \subseteq
             Noticed(Budget(now)) \cup (IF v.kind = "notice" THEN {<<Day(now), v.scope>>} ELSE {})
        /\ v.kind = "silent" => <<Day(now), v.scope>> \in Noticed(Budget(now))
    BY <2>1, VerdictIsOf DEF v
  <2>6. /\ Noticed(p.budget) \subseteq
             announced \cup (IF p.kind = "notice" THEN {<<Day(now), p.scope>>} ELSE {})
        /\ p.kind = "silent" => <<Day(now), p.scope>> \in announced
    BY <2>4, <2>5 DEF SilenceInv
  <2>7. hushed' \subseteq announced'
    BY <2>3, <2>6 DEF SilenceInv
  <2>8. NoticesOf(floor') \subseteq announced'
    BY <2>2, <2>3, <2>6 DEF SilenceInv, NoticesOf
  <2>9. NoticesOf(store'.budget) \subseteq announced'
    BY <2>3 DEF SilenceInv
  <2>10. ASSUME NEW u \in Locked'
         PROVE  Noticed(req'[u].plan.budget) \subseteq announced' \cup NoticeOf(u)'
    <3>1. CASE p.kind \in {"publish", "notice"}
      <4>1. /\ u = t /\ req'[u].pc = "publishing" /\ req'[u].plan = p /\ req'[u].now = now
        BY <2>2, <3>1 DEF Under
      <4> QED BY <2>3, <2>6, <4>1 DEF NoticeOf
    <3>2. CASE p.kind \notin {"publish", "notice"}
      <4>1. u = t /\ req'[u].plan = p
        BY <2>2, <3>2 DEF Under
      <4> QED BY <2>3, <2>6, <3>2, <4>1
    <3> QED BY <3>1, <3>2
  <2>11. (NoticesOf(store.budget) \subseteq announced /\ NoticesOf(floor) \subseteq announced)'
    BY <2>8, <2>9 DEF NoticesOf, Noticed
  <2> QED BY <2>7, <2>10, <2>11 DEF SilenceInv, Noticed
<1>4. ASSUME NEW t \in Thread, PublishAccepted(t) PROVE SilenceInv'
  <2> DEFINE now == req[t].now
             p == req[t].plan
  <2>1. /\ p \in Plans /\ Locked = {t} /\ floor' = p.budget /\ req[t].pc = "publishing"
        /\ p.write => Locked' = {t} /\ req'[t] = Under("persisting", req[t].event, now, p)
        /\ ~p.write => Locked' = {}
    BY <1>4, PublishIsTyped
  <2>2. /\ UNCHANGED <<store, hushed>>
        /\ announced' = announced \cup (IF p.kind = "notice" THEN {<<Day(now), p.scope>>} ELSE {})
    BY <1>4 DEF PublishAccepted
  <2>3. Noticed(p.budget) \subseteq announced'
    BY <2>1, <2>2 DEF SilenceInv, NoticeOf
  <2> HIDE DEF p, now
  <2>4. \A u \in Locked' : req'[u].plan = p
    BY <2>1 DEF Under
  <2>5. NoticesOf(floor') \subseteq announced'
    BY <2>1, <2>3 DEF NoticesOf
  <2>6. NoticesOf(store'.budget) \subseteq announced' /\ hushed' \subseteq announced'
    BY <2>2 DEF SilenceInv
  <2> QED BY <2>3, <2>4, <2>5, <2>6 DEF SilenceInv, NoticesOf, Noticed
<1>5. ASSUME NEW t \in Thread, Settles(t) PROVE SilenceInv'
  <2>1. NoticeOf(t) = {} /\ req[t].plan.budget \in Budgets
    BY <1>5, SettlesIsTyped DEF NoticeOf, Plans
  <2>2. Noticed(req[t].plan.budget) \subseteq announced
    BY <1>5, <2>1, SettlesIsTyped DEF SilenceInv
  <2> QED BY <1>5, <2>2, SettlesIsTyped DEF SilenceInv, NoticesOf, Noticed
<1> QED BY <1>1, <1>2, <1>3, <1>4, <1>5, StepsAre

(* No alert is kept back by a ceiling of which no notice went out that day,  *)
(* through refusals, failing writes and restarts (charge_budget()).          *)
THEOREM SilencesAreAnnounced == Spec => []SilenceIsAnnounced
<1>1. Init => SilenceInv
  BY DEF Init, SilenceInv, NoticesOf, Locked, Free
<1>2. SilenceInv => SilenceIsAnnounced
  BY DEF SilenceInv, SilenceIsAnnounced
<1> QED BY <1>1, <1>2, TypeInit, TypeStep, SilenceStep, PTL DEF Spec

-----------------------------------------------------------------------------
(* What is recorded of health follows from the file and was told of.         *)
TellingOf(t) == IF req[t].pc = "publishing" THEN IsTold(req[t].event) ELSE {}

HealthInv ==
  /\ ToldOf(store.entries, told)
  /\ \A t \in Locked :
       /\ ToldOf(req[t].plan.entries, told \cup TellingOf(t))
       /\ Forward(store.entries, req[t].plan.entries, req[t].event)

LEMMA HealthStep == TypeInv /\ HealthInv /\ [Next]_vars => HealthInv'
<1> SUFFICES ASSUME TypeInv, HealthInv, [Next]_vars PROVE HealthInv'
  OBVIOUS
<1>0. \A f, A, B : A \subseteq B /\ ToldOf(f, A) => ToldOf(f, B)
  BY DEF ToldOf
<1>1. CASE Quiet
  <2>1. UNCHANGED <<store, told>> /\ \A u \in Locked' : u \in Locked /\ req'[u] = req[u]
    BY <1>1, QuietIsQuiet
  <2>2. ToldOf(store'.entries, told')
    BY <2>1 DEF HealthInv
  <2>3. ASSUME NEW u \in Locked'
        PROVE  /\ ToldOf(req'[u].plan.entries, told' \cup TellingOf(u)')
               /\ Forward(store'.entries, req'[u].plan.entries, req'[u].event)
    <3>1. u \in Locked /\ req'[u] = req[u] /\ TellingOf(u)' = TellingOf(u)
      BY <2>1 DEF TellingOf, IsTold
    <3> QED BY <2>1, <3>1 DEF HealthInv
  <2> QED BY <2>2, <2>3 DEF HealthInv, ToldOf, Unhealthy, Forward, TellingOf, IsTold
<1>2. CASE Restart
  BY <1>2, RestartIsTyped DEF HealthInv, ToldOf, Unhealthy
<1>3. ASSUME NEW t \in Thread, Decide(t) PROVE HealthInv'
  <2> DEFINE e == req[t].event
             now == req[t].now
             p == Plan(e, now)
             v == Verdict(e, now)
  <2>1. /\ e \in Events /\ now \in Nat /\ FileTyped /\ p \in Plans
        /\ ~Outdated(Read(e), e) /\ ~TooLarge(Transition(Read(e), e))
    BY <1>3, DecideIsTyped, StampsAre DEF TypeInv
  <2>2. /\ p.kind \in {"publish", "notice"} =>
              Locked' = {t} /\ req'[t] = Under("publishing", e, now, p)
        /\ p.kind \notin {"publish", "notice"} =>
              /\ p.write => Locked' = {t} /\ req'[t] = Under("persisting", e, now, p)
              /\ ~p.write => Locked' = {}
    BY <1>3, DecideIsTyped
  <2>3. /\ UNCHANGED store
        /\ told' = told \cup (IF p.kind = "silent" THEN IsTold(e) ELSE {})
    BY <1>3 DEF Decide
  <2> HIDE DEF e, now, p, v
  <2>4. /\ p.kind = v.kind /\ Forward(store.entries, p.entries, e)
        /\ ToldOf(store.entries, told) => ToldOf(p.entries, told \cup IsTold(e))
    BY <2>1, PlanIsOf DEF p, v
  <2>5. v.kind \in {"publish", "notice", "silent", "nothing"} /\ (v.kind = "nothing" => e.rule = "Recovery")
    BY <2>1, VerdictIsOf DEF v
  <2>6. ToldOf(p.entries, told \cup IsTold(e)) /\ ToldOf(store.entries, told)
    BY <2>4 DEF HealthInv
  <2>7. ToldOf(store.entries, told')
    BY <1>0, <2>3, <2>6
  <2>8. ASSUME NEW u \in Locked'
        PROVE  /\ ToldOf(req'[u].plan.entries, told' \cup TellingOf(u)')
               /\ Forward(store'.entries, req'[u].plan.entries, req'[u].event)
    <3>1. u = t /\ req'[u].plan = p /\ req'[u].event = e
      BY <2>2 DEF Under
    <3>2. told \cup IsTold(e) \subseteq told' \cup TellingOf(u)'
      <4>1. CASE p.kind \in {"publish", "notice"}
        <5>1. req'[u].pc = "publishing"
          BY <2>2, <3>1, <4>1 DEF Under
        <5>2. TellingOf(u)' = IsTold(e)
          BY <3>1, <5>1 DEF TellingOf, IsTold
        <5> QED BY <2>3, <5>2
      <4>2. CASE p.kind = "silent"
        BY <2>3, <4>2
      <4>3. CASE p.kind = "nothing"
        BY <2>3, <2>4, <2>5, <4>3 DEF IsTold
      <4> QED BY <2>4, <2>5, <4>1, <4>2, <4>3
    <3> QED BY <1>0, <2>3, <2>4, <2>6, <3>1, <3>2
  <2>9. ToldOf(store'.entries, told')
    BY <2>3, <2>7
  <2> QED BY <2>8, <2>9 DEF HealthInv, ToldOf, Unhealthy, Forward, TellingOf, IsTold
<1>4. ASSUME NEW t \in Thread, PublishAccepted(t) PROVE HealthInv'
  <2> DEFINE e == req[t].event
             p == req[t].plan
  <2>1. /\ Locked = {t} /\ req[t].pc = "publishing"
        /\ p.write => Locked' = {t} /\ req'[t] = Under("persisting", e, req[t].now, p)
        /\ ~p.write => Locked' = {}
    BY <1>4, PublishIsTyped
  <2>2. UNCHANGED store /\ told' = told \cup IsTold(e)
    BY <1>4 DEF PublishAccepted
  <2>3. ToldOf(p.entries, told') /\ Forward(store.entries, p.entries, e)
    BY <2>1, <2>2 DEF HealthInv, TellingOf
  <2>4. ToldOf(store.entries, told')
    BY <1>0, <2>2 DEF HealthInv
  <2> HIDE DEF p, e
  <2>5. \A u \in Locked' : req'[u].plan = p /\ req'[u].event = e
    BY <2>1 DEF Under
  <2>6. \A u \in Locked' : ToldOf(p.entries, told' \cup TellingOf(u)')
    BY <1>0, <2>3
  <2>7. ToldOf(store'.entries, told')
    BY <2>2, <2>4
  <2>8. ASSUME NEW u \in Locked'
        PROVE  /\ ToldOf(req'[u].plan.entries, told' \cup TellingOf(u)')
               /\ Forward(store'.entries, req'[u].plan.entries, req'[u].event)
    BY <2>2, <2>3, <2>5, <2>6
  <2> QED BY <2>7, <2>8 DEF HealthInv, ToldOf, Unhealthy, Forward, TellingOf, IsTold
<1>5. ASSUME NEW t \in Thread, Settles(t) PROVE HealthInv'
  <2>1. /\ t \in Locked /\ req[t].pc = "persisting" /\ Locked' = {} /\ told' = told
        /\ UNCHANGED <<store>> \/ store'.entries = req[t].plan.entries
    BY <1>5, SettlesIsTyped
  <2>2. ToldOf(req[t].plan.entries, told \cup {}) /\ ToldOf(store.entries, told)
    BY <2>1 DEF HealthInv, TellingOf
  <2>3. ToldOf(req[t].plan.entries, told)
    BY <2>2
  <2>4. ToldOf(store'.entries, told')
    BY <2>1, <2>2, <2>3
  <2> QED BY <2>1, <2>4 DEF HealthInv, ToldOf, Unhealthy
<1> QED BY <1>1, <1>2, <1>3, <1>4, <1>5, StepsAre

LEMMA HealthInit == Init => HealthInv
<1> SUFFICES ASSUME Init PROVE HealthInv
  OBVIOUS
<1>1. PICK old \in SUBSET Legacy :
        store = [entries |-> [i \in old |-> [state |-> "unhealthy", at |-> 0]],
                 budget |-> Unset, legacy |-> old # {}]
  BY DEF Init
<1>2. DOMAIN store.entries = old /\ \A i \in old : store.entries[i].at = 0
  BY <1>1
<1>3. old \subseteq Identity /\ Locked = {}
  BY RelayAssumption DEF Init, Locked, Free
<1> QED BY <1>2, <1>3 DEF HealthInv, ToldOf, Unhealthy

(* What the file calls unhealthy was published or stood for by a notice      *)
(* (process_event(): the file is written after the publish).                 *)
THEOREM UnhealthyIsPublished == Spec => []UnhealthyIsTold
<1>1. HealthInv => UnhealthyIsTold
  BY DEF HealthInv, ToldOf, UnhealthyIsTold
<1> QED BY <1>1, HealthInit, TypeInit, TypeStep, HealthStep, PTL DEF Spec

(* The recorded health of a container never goes back, and an unhealthy      *)
(* entry goes only with its recovery (health_transition(), bounded_state()). *)
THEOREM HealthGoesForward == Spec => HealthMovesForward
<1>1. ASSUME TypeInv, HealthInv, [Next]_vars PROVE EntriesGoForward
  <2>1. CASE UNCHANGED store
    BY <2>1 DEF EntriesGoForward
  <2>2. ASSUME NEW t \in Thread, Settles(t) PROVE EntriesGoForward
    <3>1. /\ t \in Locked /\ (UNCHANGED <<store>> \/ store'.entries = req[t].plan.entries)
      BY <1>1, <2>2, SettlesIsTyped
    <3>2. Forward(store.entries, req[t].plan.entries, req[t].event)
      BY <1>1, <3>1 DEF HealthInv
    <3> QED BY <3>1, <3>2 DEF Forward, EntriesGoForward
  <2>3. CASE Quiet \/ Restart
    BY <1>1, <2>1, <2>3, QuietIsQuiet, RestartIsTyped
  <2>4. ASSUME NEW t \in Thread, Decide(t) \/ PublishAccepted(t) PROVE EntriesGoForward
    <3>1. UNCHANGED store
      BY <2>4 DEF Decide, PublishAccepted
    <3> QED BY <3>1, <2>1
  <2>5. \/ Quiet \/ Restart
        \/ \E t \in Thread : Decide(t) \/ PublishAccepted(t) \/ Settles(t)
    BY <1>1, StepsAre
  <2> QED BY <2>2, <2>3, <2>4, <2>5
<1>2. TypeInv /\ HealthInv /\ [Next]_vars => [EntriesGoForward]_vars
  BY <1>1
<1> QED BY <1>2, HealthInit, TypeInit, TypeStep, HealthStep, PTL
   DEF Spec, HealthMovesForward
-----------------------------------------------------------------------------
(* Repeats.  As long as stamps come in order, whatever of the log is of the  *)
(* window is remembered, no further from the end than it is in the log.      *)
IsRemembered(k) ==
  \E m \in DOMAIN delivered :
    /\ delivered[m].event = log[k].event /\ delivered[m].at >= log[k].at
    /\ Len(delivered) - m <= Len(log) - k

MemoryInv ==
  /\ \A k \in DOMAIN log : log[k].at <= order.latest
  /\ \A m \in DOMAIN delivered : delivered[m].at <= order.latest
  /\ ~order.back =>
       /\ ~Repeats(log)
       /\ \A k \in DOMAIN log : order.latest - log[k].at < Window => IsRemembered(k)

RepeatInv ==
  /\ MemoryInv
  /\ \A t \in Locked :
       /\ req[t].now <= order.latest
       /\ ~order.back /\ req[t].pc = "publishing" /\ req[t].event.id # NoOne =>
            ~Delivers(delivered, req[t].event) /\ req[t].now = order.latest

LEMMA PublicationsAre ==
  ASSUME NEW seq \in Seq(Publication)
  PROVE  /\ Len(seq) \in Nat /\ DOMAIN seq = 1 .. Len(seq)
         /\ \A k \in DOMAIN seq : seq[k].event \in Events /\ seq[k].at \in Nat /\ seq[k].at \in Stamp
<1>1. Len(seq) \in Nat /\ DOMAIN seq = 1 .. Len(seq)
  OBVIOUS
<1>2. ASSUME NEW k \in DOMAIN seq
      PROVE  seq[k].event \in Events /\ seq[k].at \in Nat /\ seq[k].at \in Stamp
  <2>1. seq[k] \in Publication
    OBVIOUS
  <2> QED BY <2>1, StampsAre DEF Publication
<1> QED BY <1>1, <1>2

(* Forgetting keeps what is of the window.                                   *)
LEMMA ForgetsKeeps ==
  ASSUME TypeInv, MemoryInv, NEW t \in Thread, req[t].pc = "waiting", Forgets(t), UNCHANGED log
  PROVE  /\ MemoryInv' /\ req[t].now <= order'.latest
         /\ ~order'.back => ~order.back /\ req[t].now = order'.latest
<1> DEFINE now == req[t].now
           n == Len(delivered)
<1>1. now \in Nat /\ order.latest \in Nat /\ RelayAssumption
  BY LockedAre, StampsAre, RelayAssumption DEF TypeInv, PastTyped, Orders
<1>2. /\ delivered \in Seq(Publication) /\ log \in Seq(Publication) /\ delivered' \in Seq(Publication)
  BY ForgetsIsTyped DEF TypeInv, MemoryTyped
<1>3. /\ order'.latest = Larger(order.latest, now)
      /\ order'.back = (order.back \/ now < order.latest)
  BY ForgetsIsTyped
<1>4. PICK a \in 1 .. n + 1 :
        /\ delivered' = SubSeq(delivered, a, n)
        /\ \A k \in DOMAIN delivered : Recent(delivered[k], now) => k >= a
  <2>1. CASE req[t].event.id = NoOne
    <3>1. delivered' = SubSeq(delivered, 1, n) /\ 1 \in 1 .. n + 1
      BY <1>2, <2>1 DEF Forgets
    <3>2. \A k \in DOMAIN delivered : k >= 1
      BY <1>2
    <3> QED BY <3>1, <3>2
  <2>2. CASE req[t].event.id # NoOne
    BY <1>1, <1>2, <2>2, RecalledIsOf DEF Forgets
  <2> QED BY <2>1, <2>2
<1>5. n \in Nat /\ DOMAIN delivered = 1 .. n
  BY <1>2
<1>6. /\ Len(delivered') = n - a + 1 /\ DOMAIN delivered' = 1 .. n - a + 1
      /\ \A i \in 1 .. n - a + 1 : delivered'[i] = delivered[a + i - 1]
  BY <1>2, <1>4, <1>5
<1> HIDE DEF now, n
<1>7. order'.latest \in Nat /\ order'.latest >= order.latest /\ order'.latest >= now
  BY <1>1, <1>3 DEF Larger
<1>8. /\ \A k \in DOMAIN log : log[k].at \in Nat /\ log[k].at <= order.latest
      /\ \A m \in DOMAIN delivered : delivered[m].at \in Nat /\ delivered[m].at <= order.latest
  BY <1>2, PublicationsAre DEF MemoryInv
<1>9. \A m \in DOMAIN delivered' : delivered'[m].at <= order'.latest
  <2> SUFFICES ASSUME NEW m \in DOMAIN delivered' PROVE delivered'[m].at <= order'.latest
    OBVIOUS
  <2>1. a + m - 1 \in DOMAIN delivered /\ delivered'[m] = delivered[a + m - 1]
    BY <1>4, <1>5, <1>6
  <2> QED BY <1>1, <1>7, <1>8, <2>1
<1>10. ~order'.back => ~order.back /\ now = order'.latest
  <2> SUFFICES ASSUME ~order'.back PROVE ~order.back /\ now = order'.latest
    OBVIOUS
  <2>1. ~order.back /\ ~(now < order.latest)
    BY <1>3
  <2> QED BY <1>1, <1>3, <2>1 DEF Larger
<1>11. ASSUME ~order'.back, NEW k \in DOMAIN log, order'.latest - log[k].at < Window
       PROVE  IsRemembered(k)'
  <2>1. order.latest - log[k].at < Window /\ ~order.back /\ now = order'.latest
    BY <1>1, <1>7, <1>8, <1>10, <1>11
  <2>2. PICK m \in DOMAIN delivered :
          /\ delivered[m].event = log[k].event /\ delivered[m].at >= log[k].at
          /\ n - m <= Len(log) - k
    BY <2>1 DEF MemoryInv, IsRemembered, n
  <2>3. Recent(delivered[m], now)
    <3>1. Window \in Nat
      BY RelayAssumption
    <3>2. /\ log[k].at \in Nat /\ delivered[m].at \in Nat /\ delivered[m].at <= now
          /\ now - log[k].at < Window
      BY <1>1, <1>7, <1>8, <1>11, <2>1
    <3>3. delivered[m].at >= log[k].at
      BY <2>2
    <3>4. 0 <= now - delivered[m].at /\ now - delivered[m].at < Window
      BY <1>1, <3>1, <3>2, <3>3
    <3> QED BY <3>4 DEF Recent
  <2>4. m >= a
    BY <1>4, <2>3
  <2> DEFINE i == m - a + 1
  <2>5. i \in DOMAIN delivered' /\ a + i - 1 = m /\ Len(delivered') - i = n - m
    BY <1>4, <1>5, <1>6, <2>4
  <2>6. delivered'[i] = delivered[m]
    BY <1>6, <2>5
  <2> HIDE DEF i
  <2> QED BY <2>2, <2>5, <2>6 DEF IsRemembered
<1>12. \A k \in DOMAIN log : log[k].at <= order'.latest
  BY <1>1, <1>7, <1>8
<1>13. ~order'.back => ~Repeats(log)
  BY <1>10 DEF MemoryInv
<1>14. MemoryInv'
  BY <1>9, <1>11, <1>12, <1>13 DEF MemoryInv, Repeats
<1> QED BY <1>7, <1>10, <1>14 DEF now
(* One more at the end, and the first gone when there is no room.            *)
Capped(all) == IF Len(all) > Capacity THEN Tail(all) ELSE all
IsOneMore(kept, seq, p, gone) ==
  /\ Len(kept) = Len(seq) + 1 - gone /\ Len(kept) >= 1 /\ DOMAIN kept = 1 .. Len(kept)
  /\ gone = 1 <=> Len(seq) = Capacity
  /\ kept[Len(kept)] = p
  /\ \A i \in DOMAIN kept : i # Len(kept) =>
       i + gone \in DOMAIN seq /\ kept[i] = seq[i + gone]

LEMMA OneMoreIsOf ==
  ASSUME NEW seq \in Seq(Publication), Len(seq) <= Capacity, NEW p \in Publication
  PROVE  \E gone \in {0, 1} : IsOneMore(Capped(Append(seq, p)), seq, p, gone)
<1> DEFINE all == Append(seq, p)
           n == Len(seq)
           kept == Capped(all)
<1>1. /\ all \in Seq(Publication) /\ DOMAIN seq = 1 .. n
      /\ \A i \in 1 .. n : all[i] = seq[i]
  OBVIOUS
<1>2. Len(all) = n + 1 /\ all[n + 1] = p
  OBVIOUS
<1>3. n \in Nat /\ Capacity \in Nat \ {0} /\ n <= Capacity
  BY RelayAssumption
<1> HIDE DEF all, n
<1>4. CASE n = Capacity
  <2>1. Len(all) > Capacity
    BY <1>2, <1>3, <1>4
  <2>2. Len(all) > 0
    BY <1>3, <2>1
  <2>3. kept = Tail(all)
    BY <2>1 DEF Capped
  <2>4. Len(Tail(all)) = Len(all) - 1 /\ Tail(all) \in Seq(Publication)
    BY <1>1, <2>2
  <2>5. \A i \in 1 .. Len(all) - 1 : Tail(all)[i] = all[i + 1]
    BY <1>1, <2>2
  <2> HIDE DEF kept
  <2>6. Len(kept) = n /\ DOMAIN kept = 1 .. n
    BY <1>2, <1>3, <2>3, <2>4
  <2>7. \A i \in 1 .. n : kept[i] = all[i + 1]
    BY <1>2, <1>3, <2>3, <2>5
  <2>8. kept[n] = p /\ n >= 1
    BY <1>2, <1>3, <1>4, <2>7
  <2>9. \A i \in 1 .. n : i # n => i + 1 \in 1 .. n /\ kept[i] = seq[i + 1]
    BY <1>1, <1>3, <2>7
  <2>10. IsOneMore(kept, seq, p, 1)
    BY <1>1, <1>3, <1>4, <2>6, <2>8, <2>9 DEF IsOneMore, n
  <2> QED BY <2>10 DEF kept, all
<1>5. CASE n # Capacity
  <2>1. ~(Len(all) > Capacity)
    BY <1>2, <1>3, <1>5
  <2>2. kept = all
    BY <2>1 DEF Capped
  <2>3. Len(all) = n + 1 /\ DOMAIN all = 1 .. n + 1 /\ n + 1 >= 1
    BY <1>1, <1>2, <1>3
  <2>4. \A i \in 1 .. n + 1 : i # n + 1 => i + 0 \in 1 .. n /\ all[i] = seq[i + 0]
    BY <1>1, <1>3
  <2>5. IsOneMore(all, seq, p, 0)
    <3>1. /\ Len(all) = n + 1 - 0 /\ Len(all) >= 1 /\ DOMAIN all = 1 .. Len(all)
          /\ all[Len(all)] = p
      BY <1>2, <1>3, <2>3
    <3>2. \A i \in DOMAIN all : i # Len(all) => i + 0 \in DOMAIN seq /\ all[i] = seq[i + 0]
      BY <1>1, <2>3, <2>4
    <3>3. ~(0 = 1) /\ ~(n = Capacity)
      BY <1>5
    <3> QED BY <3>1, <3>2, <3>3 DEF IsOneMore, n
  <2> QED BY <2>2, <2>5 DEF all
<1> QED BY <1>4, <1>5

(* Publishing what is not remembered repeats nothing of the window.          *)
LEMMA PublishKeeps ==
  ASSUME TypeInv, RepeatInv, NEW t \in Thread, PublishAccepted(t)
  PROVE  MemoryInv'
<1> DEFINE e == req[t].event
           now == req[t].now
           p == [event |-> e, at |-> now]
<1>1. /\ t \in Locked /\ e \in Events /\ now \in Stamp /\ now \in Nat
      /\ req[t].pc = "publishing" /\ p \in Publication
  BY PublishIsTyped, StampsAre DEF Publication
<1>2. now <= order.latest /\ order.latest \in Nat /\ order' = order
  BY <1>1, StampsAre DEF RepeatInv, TypeInv, PastTyped, Orders, PublishAccepted
<1>3. /\ delivered' = IF e.id = NoOne THEN delivered ELSE Remember(delivered, e, now)
      /\ log' = IF e.id = NoOne THEN log
                ELSE Capped(Append(log, p))
  BY DEF PublishAccepted, Capped
<1>4. /\ delivered \in Seq(Publication) /\ log \in Seq(Publication)
      /\ Len(delivered) <= Capacity /\ Len(log) <= Capacity
  BY DEF TypeInv, MemoryTyped
<1>5. CASE e.id = NoOne
  BY <1>2, <1>3, <1>5 DEF RepeatInv, MemoryInv, IsRemembered, Repeats
<1>6. CASE e.id # NoOne
  <2>1. /\ Len(log) \in Nat /\ DOMAIN log = 1 .. Len(log)
        /\ \A k \in DOMAIN log : log[k].at \in Nat /\ log[k].at <= order.latest
    BY <1>4, PublicationsAre DEF RepeatInv, MemoryInv
  <2>2. /\ Len(delivered) \in Nat /\ DOMAIN delivered = 1 .. Len(delivered)
        /\ \A k \in DOMAIN delivered : delivered[k].at \in Nat /\ delivered[k].at <= order.latest
    BY <1>4, PublicationsAre DEF RepeatInv, MemoryInv
  <2>3. p.event = e /\ p.at = now
    OBVIOUS
  <2>4. log' = Capped(Append(log, p))
    BY <1>3, <1>6
  <2>5. delivered' = Remember(delivered, e, now)
    BY <1>3, <1>6
  <2>6. ~order.back =>
          /\ ~Delivers(delivered, e) /\ now = order.latest /\ ~Repeats(log)
          /\ \A k \in DOMAIN log : order.latest - log[k].at < Window => IsRemembered(k)
    BY <1>1, <1>6 DEF RepeatInv, MemoryInv
  <2>7. ~Delivers(delivered, e) =>
          delivered' = Capped(Append(delivered, p))
    BY <2>5 DEF Remember, Capped
  <2> HIDE DEF p, e, now
  <2>8. PICK gone \in {0, 1} :
           /\ Len(log') = Len(log) + 1 - gone /\ Len(log') >= 1 /\ DOMAIN log' = 1 .. Len(log')
           /\ gone = 1 <=> Len(log) = Capacity
           /\ log'[Len(log')] = p
           /\ \A i \in DOMAIN log' : i # Len(log') => i + gone \in DOMAIN log /\ log'[i] = log[i + gone]
    <3>1. \E gone \in {0, 1} : IsOneMore(log', log, p, gone)
      BY <1>1, <1>4, <2>4, OneMoreIsOf
    <3> QED BY <3>1 DEF IsOneMore
  <2>9. Len(log') \in Nat
    BY <2>1, <2>8
  <2>10. \A k \in DOMAIN log' : log'[k].at \in Nat /\ log'[k].at <= order.latest
    BY <1>1, <1>2, <2>1, <2>3, <2>8
  <2>11. \A m \in DOMAIN delivered' : delivered'[m].at <= order.latest
    <3> DEFINE S == {x \in Publication : x.at <= order.latest}
    <3>1. delivered \in Seq(S)
      <4>1. \A k \in 1 .. Len(delivered) : delivered[k] \in S
        BY <1>4, <2>2
      <4> HIDE DEF S
      <4> QED BY <1>4, <2>2, <4>1
    <3>2. p \in S
      BY <1>1, <1>2, <2>3
    <3> HIDE DEF S
    <3>3. delivered' \in Seq(S)
      BY <1>4, <2>5, <3>1, <3>2, RememberIsTyped DEF p
    <3>4. \A m \in DOMAIN delivered' : delivered'[m] \in S
      BY <3>3
    <3> QED BY <3>4 DEF S
  <2>12. ASSUME ~order.back PROVE ~Repeats(log')
    <3> SUFFICES ASSUME NEW j \in DOMAIN log', NEW k \in DOMAIN log', j < k,
                        log'[j].event = log'[k].event, log'[k].at - log'[j].at < Window
                 PROVE  FALSE
      BY DEF Repeats
    <3>1. j # Len(log') /\ j + gone \in DOMAIN log /\ log'[j] = log[j + gone]
      BY <2>8, <2>9
    <3>2. CASE k = Len(log')
      <4>1. log[j + gone].event = e /\ order.latest - log[j + gone].at < Window
        BY <2>3, <2>6, <2>8, <2>12, <3>1, <3>2
      <4>2. IsRemembered(j + gone)
        BY <2>6, <2>12, <3>1, <4>1
      <4> QED BY <2>6, <2>12, <4>1, <4>2 DEF IsRemembered, Delivers
    <3>3. CASE k # Len(log')
      <4>1. k + gone \in DOMAIN log /\ log'[k] = log[k + gone] /\ j + gone < k + gone
        BY <2>8, <2>9, <3>3
      <4>2. Repeats(log)
        BY <3>1, <4>1 DEF Repeats
      <4> QED BY <2>6, <2>12, <4>2
    <3> QED BY <3>2, <3>3
  <2>13. ASSUME ~order.back, NEW k \in DOMAIN log', order.latest - log'[k].at < Window
         PROVE  IsRemembered(k)'
    <3>1. PICK lost \in {0, 1} :
           /\ Len(delivered') = Len(delivered) + 1 - lost /\ Len(delivered') >= 1
           /\ DOMAIN delivered' = 1 .. Len(delivered')
           /\ lost = 1 <=> Len(delivered) = Capacity
           /\ delivered'[Len(delivered')] = p
           /\ \A i \in DOMAIN delivered' : i # Len(delivered') =>
                i + lost \in DOMAIN delivered /\ delivered'[i] = delivered[i + lost]
      <4>1. \E lost \in {0, 1} : IsOneMore(delivered', delivered, p, lost)
        BY <1>1, <1>4, <2>6, <2>7, <2>13, OneMoreIsOf
      <4> QED BY <4>1 DEF IsOneMore
    <3>2. Len(delivered') \in Nat
      BY <2>2, <3>1
    <3>3. CASE k = Len(log')
      <4> DEFINE m == Len(delivered')
      <4>1. m \in DOMAIN delivered' /\ delivered'[m] = p /\ log'[k] = p
        BY <2>8, <3>1, <3>2, <3>3
      <4>2. Len(delivered') - m <= Len(log') - k
        BY <2>9, <3>2, <3>3
      <4> HIDE DEF m
      <4>3. delivered'[m].at >= log'[k].at
        BY <1>1, <2>3, <4>1
      <4> QED BY <4>1, <4>2, <4>3 DEF IsRemembered
    <3>4. CASE k # Len(log')
      <4>1. k + gone \in DOMAIN log /\ log'[k] = log[k + gone]
        BY <2>8, <3>4
      <4>2. PICK x \in DOMAIN delivered :
              /\ delivered[x].event = log[k + gone].event /\ delivered[x].at >= log[k + gone].at
              /\ Len(delivered) - x <= Len(log) - (k + gone)
        BY <2>6, <2>13, <4>1 DEF IsRemembered
      <4> DEFINE m == x - lost
      <4>3. k \in 1 .. Len(log') /\ k \in Nat /\ x \in Nat /\ x >= 1
        BY <2>2, <2>8
      <4>4. lost = 1 => x # 1
        <5> SUFFICES ASSUME lost = 1, x = 1 PROVE FALSE
          OBVIOUS
        <5>1. Len(delivered) = Capacity
          BY <3>1
        <5>2. Capacity - 1 <= Len(log) - (k + gone) /\ Len(log) <= Capacity /\ Capacity \in Nat
          BY <1>4, <2>2, <4>2, <5>1
        <5>3. k + gone <= 1 /\ Len(log) = Capacity
          BY <2>1, <4>3, <5>2
        <5> QED BY <2>8, <4>3, <5>3
      <4>5. m \in DOMAIN delivered' /\ m # Len(delivered') /\ m + lost = x
        BY <2>2, <3>1, <3>2, <4>3, <4>4
      <4>6. delivered'[m] = delivered[x]
        BY <3>1, <4>5
      <4>7. Len(delivered') - m <= Len(log') - k
        BY <2>1, <2>2, <2>8, <3>1, <4>2, <4>3
      <4> HIDE DEF m
      <4> QED BY <4>1, <4>2, <4>5, <4>6, <4>7 DEF IsRemembered
    <3> QED BY <3>3, <3>4
  <2> QED BY <1>2, <2>10, <2>11, <2>12, <2>13 DEF MemoryInv
<1> QED BY <1>5, <1>6
LEMMA QuietForgets ==
  ASSUME TypeInv, Quiet
  PROVE  \/ UNCHANGED <<delivered, order>>
         \/ Locked' = {} /\ \E t \in Thread : req[t].pc = "waiting" /\ Forgets(t)
<1>1. CASE UNCHANGED vars \/ Tick
  BY <1>1 DEF vars, Tick, service, past
<1>2. ASSUME NEW t \in Thread, NEW e \in Events, Receive(t, e)
      PROVE  UNCHANGED <<delivered, order>>
  BY <1>2 DEF Receive, past
<1>3. ASSUME NEW t \in Thread, PublishRefused(t) PROVE UNCHANGED <<delivered, order>>
  BY <1>3 DEF PublishRefused, past
<1>4. ASSUME NEW t \in Thread, Unavailable(t) \/ Drop(t) \/ Overflow(t)
      PROVE  \/ UNCHANGED <<delivered, order>>
             \/ Locked' = {} /\ req[t].pc = "waiting" /\ Forgets(t)
  <2>1. Enters(t) /\ Done(t)
    BY <1>4 DEF Unavailable, Drop, Overflow, Proceeds
  <2>2. Locked' = Locked \ {t} /\ Locked = {} /\ req[t].pc = "waiting"
    BY <2>1, DoneIsTyped DEF TypeInv, Enters
  <2>3. UNCHANGED <<delivered, order>> \/ Forgets(t)
    BY <1>4 DEF Unavailable, Drop, Overflow
  <2> QED BY <2>2, <2>3
<1> QED BY <1>1, <1>2, <1>3, <1>4 DEF Quiet

LEMMA RepeatStep == TypeInv /\ RepeatInv /\ [Next]_vars => RepeatInv'
<1> SUFFICES ASSUME TypeInv, RepeatInv, [Next]_vars PROVE RepeatInv'
  OBVIOUS
<1>0. MemoryInv
  BY DEF RepeatInv
<1>1. CASE Quiet
  <2>1. UNCHANGED log /\ \A u \in Locked' : u \in Locked /\ req'[u] = req[u]
    BY <1>1, QuietIsQuiet
  <2>2. CASE UNCHANGED <<delivered, order>>
    <3>1. MemoryInv'
      BY <1>0, <2>1, <2>2 DEF MemoryInv, IsRemembered, Repeats
    <3>2. ASSUME NEW u \in Locked'
          PROVE  /\ req'[u].now <= order'.latest
                 /\ ~order'.back /\ req'[u].pc = "publishing" /\ req'[u].event.id # NoOne =>
                      ~Delivers(delivered', req'[u].event) /\ req'[u].now = order'.latest
      BY <2>1, <2>2 DEF RepeatInv
    <3> QED BY <3>1, <3>2 DEF RepeatInv, Delivers
  <2>3. ASSUME Locked' = {}, NEW t \in Thread, req[t].pc = "waiting", Forgets(t) PROVE RepeatInv'
    BY <1>0, <2>1, <2>3, ForgetsKeeps DEF RepeatInv
  <2> QED BY <1>1, <2>2, <2>3, QuietForgets
<1>2. CASE Restart
  BY <1>2, RestartIsTyped DEF RepeatInv, MemoryInv, Repeats
<1>3. ASSUME NEW t \in Thread, Decide(t) PROVE RepeatInv'
  <2> DEFINE e == req[t].event
             now == req[t].now
             p == Plan(e, now)
  <2>1. /\ req[t].pc = "waiting" /\ UNCHANGED log
    BY <1>3 DEF Decide, Proceeds, Enters
  <2>2. /\ ~Seen(t) /\ Forgets(t)
        /\ p.kind \in {"publish", "notice"} =>
              Locked' = {t} /\ req'[t] = Under("publishing", e, now, p)
        /\ p.kind \notin {"publish", "notice"} =>
              /\ p.write => Locked' = {t} /\ req'[t] = Under("persisting", e, now, p)
              /\ ~p.write => Locked' = {}
    BY <1>3, DecideIsTyped
  <2>3. /\ MemoryInv' /\ now <= order'.latest /\ (~order'.back => now = order'.latest)
    BY <1>0, <2>1, <2>2, ForgetsKeeps
  <2>4. e.id # NoOne => ~Delivers(delivered', e)
    BY <2>2 DEF Seen, Forgets
  <2> HIDE DEF p, e, now
  <2>5. ASSUME NEW u \in Locked' PROVE req'[u].now = now /\ req'[u].event = e
    BY <2>2 DEF Under
  <2> QED BY <2>3, <2>4, <2>5 DEF RepeatInv, Delivers
<1>4. ASSUME NEW t \in Thread, PublishAccepted(t) PROVE RepeatInv'
  <2>1. /\ Locked = {t}
        /\ req[t].plan.write => Locked' = {t}
             /\ req'[t] = Under("persisting", req[t].event, req[t].now, req[t].plan)
        /\ ~req[t].plan.write => Locked' = {}
    BY <1>4, PublishIsTyped
  <2>2. MemoryInv' /\ order' = order
    BY <1>4, PublishKeeps DEF PublishAccepted
  <2>3. ASSUME NEW u \in Locked' PROVE req'[u].now = req[t].now /\ req'[u].pc = "persisting"
    BY <2>1 DEF Under
  <2>4. req[t].now <= order.latest
    BY <2>1 DEF RepeatInv
  <2> QED BY <2>2, <2>3, <2>4 DEF RepeatInv
<1>5. ASSUME NEW t \in Thread, Settles(t) PROVE RepeatInv'
  <2>1. Locked' = {} /\ UNCHANGED <<delivered, log>>
    BY <1>5, SettlesIsTyped
  <2>2. order'.latest = order.latest /\ order'.back = order.back
    <3>1. order \in Orders
      BY DEF TypeInv, PastTyped
    <3> QED BY <1>5, <3>1 DEF Settles, Persist, PersistFails, past, Orders
  <2> QED BY <1>0, <2>1, <2>2 DEF RepeatInv, MemoryInv, IsRemembered, Repeats
<1> QED BY <1>1, <1>2, <1>3, <1>4, <1>5, StepsAre

(* Nothing is published again within the window that is remembered, as long  *)
(* as requests come to the flock in the order of their stamps                *)
(* (DeliveredEvents).                                                        *)
THEOREM RepeatsAreDropped == Spec => []RepeatsDroppedInOrder
<1>1. Init => RepeatInv
  BY DEF Init, RepeatInv, MemoryInv, Repeats, Locked, Free
<1>2. RepeatInv => RepeatsDroppedInOrder
  BY DEF RepeatInv, MemoryInv, RepeatsDroppedInOrder
<1> QED BY <1>1, <1>2, TypeInit, TypeStep, RepeatStep, PTL DEF Spec
-----------------------------------------------------------------------------
(* The allowance of a day.  What a budget accounts for: on its own day as    *)
(* many alerts as it counts, on the latest day none, on an earlier one a     *)
(* whole ceiling, and `credit' beyond that.                                  *)
Accounts(b, credit, by, today) ==
  \A d \in DOMAIN by :
    /\ d > today => by[d] = 0
    /\ d = today /\ (b = Unset \/ b.day # d) => by[d] <= credit
    /\ d < today => by[d] <= credit + GlobalCeiling
    /\ b # Unset /\ d = b.day => by[d] <= credit + b.count

InHand(b, today) == b = Unset \/ (b.count <= GlobalCeiling /\ b.day <= today)

Sents == [0 .. Day(MaxClock) -> Nat]

LEMMA SentsAre ==
  ASSUME NEW s \in Sents
  PROVE  /\ DOMAIN s = 0 .. Day(MaxClock)
         /\ \A d \in DOMAIN s : d \in Nat /\ s[d] \in Nat
         /\ GlobalCeiling \in Nat \ {0}
  BY RelayAssumption DEF Sents

LEMMA BudgetFields ==
  ASSUME NEW b \in Budgets \cup {Unset}
  PROVE  b # Unset => b.day \in Nat /\ b.count \in Nat
  BY BudgetsAre

LEMMA AccountsGrow ==
  ASSUME NEW b \in Budgets \cup {Unset}, NEW k \in Nat, NEW k2 \in Nat, k <= k2,
         NEW s \in Sents, NEW today \in Nat, Accounts(b, k, s, today)
  PROVE  Accounts(b, k2, s, today)
<1> SUFFICES ASSUME NEW d \in DOMAIN s
             PROVE  /\ d > today => s[d] = 0
                    /\ d = today /\ (b = Unset \/ b.day # d) => s[d] <= k2
                    /\ d < today => s[d] <= k2 + GlobalCeiling
                    /\ b # Unset /\ d = b.day => s[d] <= k2 + b.count
  BY DEF Accounts
<1>1. s[d] \in Nat /\ GlobalCeiling \in Nat
  BY SentsAre
<1> QED BY <1>1, BudgetFields DEF Accounts

LEMMA AccountsAtMost ==
  ASSUME NEW b \in Budgets \cup {Unset}, NEW k \in Nat, NEW s \in Sents, NEW today \in Nat,
         Accounts(b, k, s, today), InHand(b, today)
  PROVE  \A d \in DOMAIN s : s[d] <= k + GlobalCeiling /\ (d > today => s[d] = 0)
<1> SUFFICES ASSUME NEW d \in DOMAIN s
             PROVE  s[d] <= k + GlobalCeiling /\ (d > today => s[d] = 0)
  OBVIOUS
<1>1. s[d] \in Nat /\ GlobalCeiling \in Nat /\ d \in Nat
  BY SentsAre
<1>2. /\ d > today => s[d] = 0
      /\ d = today /\ (b = Unset \/ b.day # d) => s[d] <= k
      /\ d < today => s[d] <= k + GlobalCeiling
      /\ b # Unset /\ d = b.day => s[d] <= k + b.count
  BY DEF Accounts
<1>3. b # Unset => b.count \in Nat /\ b.count <= GlobalCeiling
  BY BudgetFields DEF InHand
<1> QED BY <1>1, <1>2, <1>3

LEMMA AccountsAll ==
  ASSUME NEW b \in Budgets \cup {Unset}, NEW k \in Nat, NEW s \in Sents, NEW today \in Nat,
         \A d \in DOMAIN s : s[d] <= k /\ (d > today => s[d] = 0)
  PROVE  Accounts(b, k, s, today)
<1> SUFFICES ASSUME NEW d \in DOMAIN s
             PROVE  /\ d > today => s[d] = 0
                    /\ d = today /\ (b = Unset \/ b.day # d) => s[d] <= k
                    /\ d < today => s[d] <= k + GlobalCeiling
                    /\ b # Unset /\ d = b.day => s[d] <= k + b.count
  BY DEF Accounts
<1>1. s[d] \in Nat /\ GlobalCeiling \in Nat
  BY SentsAre
<1>2. b # Unset => b.count \in Nat
  BY BudgetFields
<1> QED BY <1>1, <1>2

(* A day that is begun, or gone back to at the price of a ceiling.           *)
LEMMA AccountsTurn ==
  ASSUME NEW b \in Budgets \cup {Unset}, NEW k \in Nat, NEW s \in Sents, NEW today \in Nat,
         NEW day \in Nat, Accounts(b, k, s, today), InHand(b, today),
         NEW k2, k2 = IF day < today THEN k + GlobalCeiling ELSE k,
         NEW c \in Budgets \cup {Unset},
         c = b \/ (c # Unset /\ c.day = day /\ (b # Unset /\ b.day = day => c.count >= b.count))
  PROVE  k2 \in Nat /\ k2 >= k /\ Accounts(c, k2, s, Larger(today, day))
<1>1. k2 \in Nat /\ k2 >= k
  BY SentsAre
<1>2. (c # Unset => c.day \in Nat /\ c.count \in Nat) /\ (b # Unset => b.day \in Nat /\ b.count \in Nat)
  BY BudgetFields
<1>3. CASE day < today
  <2>1. Larger(today, day) = today /\ k2 = k + GlobalCeiling
    BY <1>3 DEF Larger
  <2>2. \A d \in DOMAIN s : s[d] <= k2 /\ (d > today => s[d] = 0)
    BY <2>1, AccountsAtMost
  <2> QED BY <1>1, <2>1, <2>2, AccountsAll
<1>4. CASE day >= today
  <2> SUFFICES ASSUME NEW d \in DOMAIN s
               PROVE  /\ d > day => s[d] = 0
                      /\ d = day /\ (c = Unset \/ c.day # d) => s[d] <= k
                      /\ d < day => s[d] <= k + GlobalCeiling
                      /\ c # Unset /\ d = c.day => s[d] <= k + c.count
    <3>1. Larger(today, day) = day /\ k2 = k
      BY <1>4 DEF Larger
    <3> QED BY <1>1, <3>1 DEF Accounts
  <2>1. s[d] \in Nat /\ d \in Nat /\ GlobalCeiling \in Nat
    BY SentsAre
  <2>2. /\ d > today => s[d] = 0
        /\ d = today /\ (b = Unset \/ b.day # d) => s[d] <= k
        /\ d < today => s[d] <= k + GlobalCeiling
        /\ b # Unset /\ d = b.day => s[d] <= k + b.count
        /\ b # Unset => b.count <= GlobalCeiling /\ b.day <= today
    BY DEF Accounts, InHand
  <2>3. s[d] <= k + GlobalCeiling
    BY AccountsAtMost
  <2>4. d > day => s[d] = 0
    BY <1>4, <2>1, <2>2
  <2>5. d = day /\ (c = Unset \/ c.day # d) => s[d] <= k
    BY <1>2, <1>4, <2>1, <2>2
  <2>6. c # Unset /\ d = c.day => s[d] <= k + c.count
    BY <1>2, <1>4, <2>1, <2>2
  <2> QED BY <2>3, <2>4, <2>5, <2>6
<1> QED BY <1>3, <1>4

(* One alert more.                                                           *)
LEMMA AccountsSpend ==
  ASSUME NEW k \in Nat, NEW s \in Sents, NEW today \in Nat, NEW day \in DOMAIN s, day <= today,
         NEW b \in Budgets \cup {Unset}, Accounts(b, k, s, today)
  PROVE  LET more == [s EXCEPT ![day] = @ + 1] IN
         /\ more \in Sents
         /\ Accounts(b, k + 1, more, today)
         /\ \A c \in Budgets : b # Unset /\ b.day = day /\ c.day = day /\ c.count = b.count + 1 /\ InHand(c, today) =>
              Accounts(c, k, more, today)
<1> DEFINE more == [s EXCEPT ![day] = @ + 1]
<1>1. /\ more \in Sents /\ DOMAIN more = DOMAIN s
      /\ \A d \in DOMAIN s : more[d] = IF d = day THEN s[d] + 1 ELSE s[d]
  BY SentsAre DEF Sents
<1> HIDE DEF more
<1>2. b # Unset => b.day \in Nat /\ b.count \in Nat
  BY BudgetFields
<1>3. ASSUME NEW d \in DOMAIN s
      PROVE  /\ s[d] \in Nat /\ d \in Nat /\ GlobalCeiling \in Nat
             /\ d > today => s[d] = 0
             /\ d = today /\ (b = Unset \/ b.day # d) => s[d] <= k
             /\ d < today => s[d] <= k + GlobalCeiling
             /\ b # Unset /\ d = b.day => s[d] <= k + b.count
  BY SentsAre DEF Accounts
<1>4. ASSUME NEW d \in DOMAIN s
      PROVE  /\ d > today => more[d] = 0
             /\ d = today /\ (b = Unset \/ b.day # d) => more[d] <= k + 1
             /\ d < today => more[d] <= k + 1 + GlobalCeiling
             /\ b # Unset /\ d = b.day => more[d] <= k + 1 + b.count
  BY <1>1, <1>2, <1>3
<1>5. ASSUME NEW c \in Budgets, b # Unset, b.day = day, c.day = day, c.count = b.count + 1,
             InHand(c, today), NEW d \in DOMAIN s
      PROVE  /\ d > today => more[d] = 0
             /\ d = today /\ (c = Unset \/ c.day # d) => more[d] <= k
             /\ d < today => more[d] <= k + GlobalCeiling
             /\ c # Unset /\ d = c.day => more[d] <= k + c.count
  <2>1. /\ s[d] \in Nat /\ d \in Nat /\ day \in Nat /\ GlobalCeiling \in Nat
        /\ more[d] = IF d = day THEN s[d] + 1 ELSE s[d]
    BY <1>1, <1>3
  <2>2. c # Unset
    BY BudgetsAre, RelayAssumption DEF Budgets, CounterMaps
  <2>3. b.count \in Nat /\ c.count = b.count + 1 /\ c.count <= GlobalCeiling
    BY <1>2, <1>5, <2>2 DEF InHand
  <2>4. CASE d = day
    <3>1. s[d] <= k + b.count
      BY <1>3, <1>5, <2>4
    <3>2. more[d] <= k + c.count /\ more[d] <= k + GlobalCeiling
      BY <2>1, <2>3, <2>4, <3>1
    <3>3. ~(d > today) /\ c.day = d
      BY <1>5, <2>1, <2>4
    <3> QED BY <2>2, <3>2, <3>3
  <2>5. CASE d # day
    BY <1>3, <1>5, <2>1, <2>5
  <2> QED BY <2>4, <2>5
<1> QED BY <1>1, <1>4, <1>5 DEF Accounts, more
(* What days gone back to and restarts after a failed write may have cost.   *)
Credit ==
  GlobalCeiling * (order.daysBack + (IF order.failed THEN restarts ELSE 0)) + restarts
Today == Day(order.latest)

(* The budget the next request is going to be held to.                       *)
Known == IF floor = Unset THEN store.budget ELSE floor

(* What will have been sent when the request is through.                     *)
SentBy(t) ==
  IF req[t].pc = "publishing" /\ req[t].plan.kind = "publish"
  THEN [sent EXCEPT ![Day(req[t].now)] = @ + 1] ELSE sent

AllowanceInv ==
  /\ InHand(store.budget, Today) /\ InHand(floor, Today)
  /\ Accounts(Known, Credit, sent, Today)
  /\ ~order.failed => Accounts(store.budget, Credit + 1, sent, Today)
  /\ ~order.failed /\ (\A t \in Locked : req[t].pc # "persisting") =>
       floor \in {Unset, store.budget}
  /\ \A t \in Locked :
       /\ InHand(req[t].plan.budget, Today) /\ req[t].plan.budget.day = Day(req[t].now)
       /\ Accounts(req[t].plan.budget, Credit, SentBy(t), Today)
       /\ req[t].pc = "persisting" => floor = req[t].plan.budget
       /\ ~req[t].plan.write => req[t].plan.budget = store.budget

LEMMA CreditIsOf ==
  ASSUME TypeInv
  PROVE  /\ Credit \in Nat /\ Today \in Nat /\ sent \in Sents
         /\ Known \in Budgets \cup {Unset} /\ store.budget \in Budgets \cup {Unset}
         /\ order.daysBack \in Nat /\ restarts \in Nat /\ order.failed \in BOOLEAN
         /\ GlobalCeiling \in Nat \ {0} /\ order.latest \in Nat
<1>1. /\ order.daysBack \in Nat /\ restarts \in Nat /\ order.failed \in BOOLEAN
      /\ order.latest \in Nat /\ sent \in Sents
  BY StampsAre DEF TypeInv, PastTyped, Orders, Sents
<1>2. GlobalCeiling \in Nat \ {0}
  BY RelayAssumption
<1>3. Today \in Nat
  BY <1>1, DaysGoOn DEF Today
<1> DEFINE n == order.daysBack + (IF order.failed THEN restarts ELSE 0)
<1>4. n \in Nat
  BY <1>1
<1> HIDE DEF n
<1>5. GlobalCeiling * n \in Nat
  BY <1>2, <1>4
<1>6. Credit = GlobalCeiling * n + restarts
  BY DEF Credit, n
<1> QED BY <1>1, <1>2, <1>3, <1>5, <1>6 DEF TypeInv, FileTyped, Known

(* On entry a day gone back to costs a ceiling.                              *)
LEMMA CreditTurns ==
  ASSUME TypeInv, NEW t \in Thread, req[t].pc = "waiting", Forgets(t), UNCHANGED restarts
  PROVE  /\ Day(req[t].now) \in Nat
         /\ Credit' = IF Day(req[t].now) < Today THEN Credit + GlobalCeiling ELSE Credit
         /\ Today' = Larger(Today, Day(req[t].now)) /\ Today' >= Today
         /\ Today' >= Day(req[t].now)
         /\ order'.failed = order.failed
<1> DEFINE now == req[t].now
           n == IF order.failed THEN restarts ELSE 0
<1>1. now \in Nat /\ order.latest \in Nat
  BY LockedAre, StampsAre, CreditIsOf DEF TypeInv
<1>2. /\ order'.latest = Larger(order.latest, now) /\ order'.failed = order.failed
      /\ order'.daysBack = IF Day(now) < Today THEN order.daysBack + 1 ELSE order.daysBack
  BY ForgetsIsTyped DEF Today
<1>3. Day(now) \in Nat /\ Today \in Nat
  BY <1>1, DaysGoOn DEF Today
<1> HIDE DEF now
<1>4. Today' = Larger(Today, Day(now)) /\ Today' >= Today /\ Today' >= Day(now)
  <2>1. Today' = Day(Larger(order.latest, now))
    BY <1>2 DEF Today, Day
  <2>2. CASE order.latest >= now
    <3>1. Larger(order.latest, now) = order.latest /\ Today >= Day(now)
      BY <1>1, <1>3, <2>2, DaysGoOn DEF Larger, Today
    <3> QED BY <1>3, <2>1, <3>1 DEF Larger, Today
  <2>3. CASE order.latest < now
    <3>1. Larger(order.latest, now) = now /\ Today <= Day(now)
      BY <1>1, <1>3, <2>3, DaysGoOn DEF Larger, Today
    <3> QED BY <1>3, <2>1, <3>1 DEF Larger
  <2> QED BY <1>1, <2>2, <2>3
<1>5. Credit' = IF Day(now) < Today THEN Credit + GlobalCeiling ELSE Credit
  <2>1. order.daysBack \in Nat /\ n \in Nat /\ restarts \in Nat /\ GlobalCeiling \in Nat
    BY CreditIsOf
  <2>2. /\ Credit = GlobalCeiling * (order.daysBack + n) + restarts
        /\ Credit' = GlobalCeiling * (order'.daysBack + n) + restarts
    BY <1>2 DEF Credit
  <2> HIDE DEF n
  <2>3. GlobalCeiling * (order.daysBack + 1 + n) = GlobalCeiling * (order.daysBack + n) + GlobalCeiling
    BY <2>1
  <2> QED BY <1>2, <2>1, <2>2, <2>3
<1> QED BY <1>2, <1>3, <1>4, <1>5 DEF now

(* A restart costs the alert it interrupted, and a ceiling if a write had    *)
(* failed; a failing write nothing until then.                               *)
LEMMA CreditRestarts ==
  ASSUME TypeInv, Restart
  PROVE  Credit' = IF order.failed THEN Credit + GlobalCeiling + 1 ELSE Credit + 1
<1>1. restarts' = restarts + 1 /\ order' = order
  BY RestartIsTyped
<1>2. order.daysBack \in Nat /\ restarts \in Nat /\ GlobalCeiling \in Nat
  BY CreditIsOf
<1>3. CASE order.failed
  <2>1. /\ Credit = GlobalCeiling * (order.daysBack + restarts) + restarts
        /\ Credit' = GlobalCeiling * (order.daysBack + (restarts + 1)) + (restarts + 1)
    BY <1>1, <1>3 DEF Credit
  <2>2. GlobalCeiling * (order.daysBack + (restarts + 1))
          = GlobalCeiling * (order.daysBack + restarts) + GlobalCeiling
    <3> DEFINE n == order.daysBack + restarts
    <3>1. n \in Nat /\ order.daysBack + (restarts + 1) = n + 1
      BY <1>2
    <3> HIDE DEF n
    <3>2. GlobalCeiling * (n + 1) = GlobalCeiling * n + GlobalCeiling
      BY <1>2, <3>1
    <3> QED BY <3>1, <3>2 DEF n
  <2>3. GlobalCeiling * (order.daysBack + restarts) \in Nat
    BY <1>2
  <2> QED BY <1>2, <1>3, <2>1, <2>2, <2>3
<1>4. CASE ~order.failed
  <2>1. /\ Credit = GlobalCeiling * (order.daysBack + 0) + restarts
        /\ Credit' = GlobalCeiling * (order.daysBack + 0) + (restarts + 1)
    BY <1>1, <1>4 DEF Credit
  <2>2. GlobalCeiling * (order.daysBack + 0) \in Nat
    BY <1>2
  <2> QED BY <1>2, <1>4, <2>1, <2>2
<1> QED BY <1>3, <1>4

LEMMA CreditFails ==
  ASSUME TypeInv, UNCHANGED restarts, order' = [order EXCEPT !.failed = TRUE]
  PROVE  Credit' \in Nat /\ Credit' >= Credit /\ Today' = Today
<1>1. order.daysBack \in Nat /\ restarts \in Nat /\ GlobalCeiling \in Nat /\ order.failed \in BOOLEAN
  BY CreditIsOf
<1>2. order'.daysBack = order.daysBack /\ order'.failed /\ order'.latest = order.latest
  BY DEF TypeInv, PastTyped, Orders
<1>3. Credit' = GlobalCeiling * (order.daysBack + restarts) + restarts
  BY <1>2 DEF Credit
<1>4. GlobalCeiling * (order.daysBack + restarts)
        = GlobalCeiling * order.daysBack + GlobalCeiling * restarts
  BY <1>1
<1>5. GlobalCeiling * order.daysBack \in Nat /\ GlobalCeiling * restarts \in Nat
  BY <1>1
<1>6. \/ Credit = GlobalCeiling * (order.daysBack + restarts) + restarts
      \/ Credit = GlobalCeiling * order.daysBack + restarts
  BY <1>1 DEF Credit
<1> QED BY <1>1, <1>2, <1>3, <1>4, <1>5, <1>6 DEF Today, Day

(* The budget a request is held to counts no less than the one known.        *)
LEMMA BudgetCounts ==
  ASSUME TypeInv, InHand(store.budget, Today), InHand(floor, Today), NEW now \in Nat
  PROVE  LET b == Budget(now) IN
         /\ b \in Budgets /\ b.day = Day(now) /\ b.count \in Nat /\ b.count <= GlobalCeiling
         /\ Known # Unset /\ Known.day = Day(now) => b.count >= Known.count
<1> DEFINE D == Day(now)
           r == Rolled(store.budget, D)
           b == Raised(r)
<1>0. /\ FileTyped /\ GlobalCeiling \in Nat /\ D \in Nat
  BY CreditIsOf, DaysGoOn DEF TypeInv
<1>1. /\ r \in Budgets /\ r.day = D
      /\ r = store.budget \/ r = EmptyBudget(D)
      /\ store.budget # Unset /\ store.budget.day = D => r = store.budget
  BY <1>0, RolledIsOf DEF FileTyped
<1>2. r \in Budgets \cup {Unset} /\ r # Unset
  BY <1>1, NoticedIsOf
<1>3. r.count \in Nat /\ r.count <= GlobalCeiling
  <2>1. CASE r = store.budget
    BY <1>0, <1>2, <2>1, BudgetFields DEF InHand
  <2>2. CASE r = EmptyBudget(D)
    BY <1>0, <2>2 DEF EmptyBudget
  <2> QED BY <1>1, <2>1, <2>2
<1> HIDE DEF r, D
<1>4. /\ b \in Budgets /\ b.day = D /\ b.count >= r.count
      /\ floor = Unset \/ floor.day # D => b = r
      /\ floor # Unset /\ floor.day = D => b.count = Larger(r.count, floor.count)
  BY <1>0, <1>1, RaisedIsOf DEF FileTyped
<1>5. floor # Unset => floor.count \in Nat /\ floor.count <= GlobalCeiling
  BY <1>0, BudgetFields DEF FileTyped, InHand
<1>6. Budget(now) = b
  BY DEF Budget, r, D
<1> HIDE DEF b
<1>7. CASE floor # Unset /\ floor.day = D
  BY <1>0, <1>3, <1>4, <1>5, <1>6, <1>7 DEF Larger, Known, D
<1>8. CASE floor = Unset \/ floor.day # D
  <2>1. b = r
    BY <1>4, <1>8
  <2>2. Known # Unset /\ Known.day = D => r = Known
    BY <1>1, <1>8 DEF Known
  <2> QED BY <1>3, <1>4, <1>6, <2>1, <2>2 DEF D
<1> QED BY <1>7, <1>8
LEMMA QuietPersists ==
  ASSUME TypeInv, Quiet, NEW u \in Locked, req[u].pc = "persisting"
  PROVE  u \in Locked' /\ req'[u] = req[u]
<1>0. RequestsTyped /\ u \in Thread
  BY DEF TypeInv, Locked
<1>1. CASE UNCHANGED vars \/ Tick
  BY <1>1 DEF vars, Tick, service, past, Locked
<1>2. ASSUME NEW t \in Thread, NEW e \in Events, Receive(t, e)
      PROVE  u \in Locked' /\ req'[u] = req[u]
  BY <1>0, <1>2 DEF Receive, Become, RequestsTyped, Locked, Free
<1>3. ASSUME NEW t \in Thread, PublishRefused(t) PROVE u \in Locked' /\ req'[u] = req[u]
  BY <1>0, <1>3 DEF PublishRefused, Done, Become, RequestsTyped, Locked
<1>4. ASSUME NEW t \in Thread, Unavailable(t) \/ Drop(t) \/ Overflow(t) PROVE FALSE
  BY <1>4 DEF Unavailable, Drop, Overflow, Proceeds, Enters
<1> QED BY <1>1, <1>2, <1>3, <1>4 DEF Quiet

LEMMA AllowanceQuiet ==
  ASSUME TypeInv, AllowanceInv, Quiet
  PROVE  AllowanceInv'
<1>1. /\ UNCHANGED <<store, floor, restarts, sent>>
      /\ \A u \in Locked' : u \in Locked /\ req'[u] = req[u]
  BY QuietIsQuiet
<1>2. CASE UNCHANGED order
  <2>1. UNCHANGED <<Credit, Today, Known>>
    BY <1>1, <1>2 DEF Credit, Today, Day, Known
  <2>2. (\A u \in Locked' : req'[u].pc # "persisting") => (\A u \in Locked : req[u].pc # "persisting")
    BY QuietPersists
  <2>3. ASSUME NEW u \in Locked'
        PROVE  /\ InHand(req'[u].plan.budget, Today') /\ req'[u].plan.budget.day = Day(req'[u].now)
               /\ Accounts(req'[u].plan.budget, Credit', SentBy(u)', Today')
               /\ req'[u].pc = "persisting" => floor' = req'[u].plan.budget
               /\ ~req'[u].plan.write => req'[u].plan.budget = store'.budget
    <3>1. u \in Locked /\ req'[u] = req[u] /\ SentBy(u)' = SentBy(u)
      BY <1>1 DEF SentBy, Day
    <3> QED BY <1>1, <2>1, <3>1 DEF AllowanceInv
  <2>4. /\ InHand(store'.budget, Today') /\ InHand(floor', Today')
        /\ Accounts(Known', Credit', sent', Today')
        /\ ~order'.failed => Accounts(store'.budget, Credit' + 1, sent', Today')
        /\ ~order'.failed /\ (\A u \in Locked' : req'[u].pc # "persisting") =>
             floor' \in {Unset, store'.budget}
    BY <1>1, <1>2, <2>1, <2>2 DEF AllowanceInv
  <2> QED BY <2>3, <2>4 DEF AllowanceInv, InHand, Accounts, Day
<1>3. ASSUME Locked' = {}, NEW t \in Thread, req[t].pc = "waiting", Forgets(t), Locked = {}
      PROVE  AllowanceInv'
  <2> DEFINE D == Day(req[t].now)
             add == IF D < Today THEN GlobalCeiling ELSE 0
  <2>1. /\ D \in Nat /\ Today' = Larger(Today, D) /\ Today' >= Today /\ order'.failed = order.failed
        /\ Credit' = IF D < Today THEN Credit + GlobalCeiling ELSE Credit
    BY <1>1, <1>3, CreditTurns
  <2> HIDE DEF D
  <2>2. /\ Credit \in Nat /\ Today \in Nat /\ sent \in Sents /\ Credit + 1 \in Nat
        /\ Known \in Budgets \cup {Unset} /\ store.budget \in Budgets \cup {Unset}
        /\ GlobalCeiling \in Nat
    BY CreditIsOf
  <2>3. InHand(Known, Today) /\ InHand(store.budget, Today) /\ InHand(floor, Today)
    BY DEF AllowanceInv, Known
  <2>4. Accounts(Known, Credit', sent, Today')
    <3>1. Accounts(Known, Credit, sent, Today)
      BY DEF AllowanceInv
    <3> QED BY <2>1, <2>2, <2>3, <3>1, AccountsTurn
  <2>5. ASSUME ~order.failed PROVE Accounts(store.budget, Credit' + 1, sent, Today')
    <3>1. Accounts(store.budget, Credit + 1, sent, Today)
      BY <2>5 DEF AllowanceInv
    <3>2. Credit' + 1 = IF D < Today THEN (Credit + 1) + GlobalCeiling ELSE Credit + 1
      BY <2>1, <2>2
    <3> QED BY <2>1, <2>2, <2>3, <3>1, <3>2, AccountsTurn
  <2>6. InHand(store.budget, Today') /\ InHand(floor, Today')
    <3>1. floor \in Budgets \cup {Unset}
      BY DEF TypeInv, FileTyped
    <3>2. Today' \in Nat
      BY <2>1, <2>2 DEF Larger
    <3> QED BY <2>1, <2>2, <2>3, <3>1, <3>2, BudgetFields DEF InHand
  <2>7. ~order.failed => floor \in {Unset, store.budget}
    BY <1>3 DEF AllowanceInv
  <2>8. Known' = Known
    BY <1>1 DEF Known
  <2>9. /\ InHand(store'.budget, Today') /\ InHand(floor', Today')
        /\ Accounts(Known', Credit', sent', Today')
        /\ ~order'.failed => Accounts(store'.budget, Credit' + 1, sent', Today')
        /\ ~order'.failed => floor' \in {Unset, store'.budget}
    BY <1>1, <2>1, <2>4, <2>5, <2>6, <2>7, <2>8
  <2> QED BY <1>3, <2>9 DEF AllowanceInv, InHand, Accounts
<1>4. \/ UNCHANGED order
      \/ Locked' = {} /\ \E t \in Thread : req[t].pc = "waiting" /\ Forgets(t) /\ Locked = {}
  <2>1. CASE UNCHANGED vars \/ Tick
    BY <2>1 DEF vars, Tick, past
  <2>2. CASE \E t \in Thread : (\E e \in Events : Receive(t, e)) \/ PublishRefused(t)
    BY <2>2 DEF Receive, PublishRefused, past
  <2>3. CASE \E t \in Thread : Unavailable(t) \/ Drop(t) \/ Overflow(t)
    <3>1. Locked = {}
      BY <2>3 DEF Unavailable, Drop, Overflow, Proceeds, Enters
    <3> QED BY <3>1, QuietForgets
  <2> QED BY <2>1, <2>2, <2>3 DEF Quiet
<1> QED BY <1>2, <1>3, <1>4

LEMMA AllowanceRestart ==
  ASSUME TypeInv, AllowanceInv, Restart
  PROVE  AllowanceInv'
<1>1. /\ Locked' = {} /\ floor' = Unset /\ UNCHANGED <<store, sent, order>>
  BY RestartIsTyped
<1>2. Today' = Today /\ Known' = store.budget
  BY <1>1 DEF Today, Day, Known
<1>3. /\ Credit \in Nat /\ Today \in Nat /\ sent \in Sents /\ Known \in Budgets \cup {Unset}
      /\ store.budget \in Budgets \cup {Unset} /\ GlobalCeiling \in Nat /\ order.failed \in BOOLEAN
  BY CreditIsOf
<1>4. Credit' = IF order.failed THEN Credit + GlobalCeiling + 1 ELSE Credit + 1
  BY CreditRestarts
<1>5. InHand(Known, Today) /\ InHand(store.budget, Today)
  BY DEF AllowanceInv, Known
<1>6. Accounts(store.budget, Credit', sent, Today)
  <2>1. CASE order.failed
    <3>1. Accounts(Known, Credit, sent, Today)
      BY DEF AllowanceInv
    <3>2. \A d \in DOMAIN sent : sent[d] <= Credit + GlobalCeiling /\ (d > Today => sent[d] = 0)
      BY <1>3, <1>5, <3>1, AccountsAtMost
    <3>3. \A d \in DOMAIN sent : sent[d] <= Credit'
      BY <1>3, <1>4, <2>1, <3>2, SentsAre
    <3>4. Credit' \in Nat
      BY <1>3, <1>4
    <3> QED BY <1>3, <3>2, <3>3, <3>4, AccountsAll
  <2>2. CASE ~order.failed
    BY <1>4, <2>2 DEF AllowanceInv
  <2> QED BY <2>1, <2>2
<1>7. Accounts(store.budget, Credit' + 1, sent, Today)
  <2>1. Credit' \in Nat /\ Credit' + 1 \in Nat /\ Credit' <= Credit' + 1
    BY <1>3, <1>4
  <2> QED BY <1>3, <1>6, <2>1, AccountsGrow
<1>8. /\ InHand(store'.budget, Today') /\ InHand(floor', Today')
      /\ Accounts(Known', Credit', sent', Today')
      /\ Accounts(store'.budget, Credit' + 1, sent', Today')
      /\ floor' \in {Unset, store'.budget}
  BY <1>1, <1>2, <1>5, <1>6, <1>7 DEF InHand
<1> QED BY <1>1, <1>8 DEF AllowanceInv, InHand, Accounts

LEMMA DayOfStamp ==
  ASSUME NEW now \in Stamp
  PROVE  Day(now) \in Nat /\ Day(now) \in 0 .. Day(MaxClock)
<1>1. now \in Nat /\ MaxClock \in Nat /\ now <= MaxClock
  BY RelayAssumption DEF Stamp
<1> QED BY <1>1, DaysGoOn

LEMMA AllowanceSettles ==
  ASSUME TypeInv, AllowanceInv, NEW t \in Thread, Settles(t)
  PROVE  AllowanceInv'
<1>1. /\ t \in Locked /\ req[t].pc = "persisting" /\ Locked' = {}
      /\ req[t].plan \in Plans
      /\ store' = store \/ store'.budget = req[t].plan.budget
      /\ UNCHANGED <<floor, restarts, sent>>
  BY SettlesIsTyped
<1>2. /\ floor = req[t].plan.budget /\ InHand(floor, Today) /\ InHand(store.budget, Today)
      /\ Accounts(Known, Credit, sent, Today)
  BY <1>1 DEF AllowanceInv
<1>3. floor \in Budgets /\ floor # Unset
  BY <1>1, <1>2, NoticedIsOf DEF Plans
<1>4. Known = floor /\ Known' = floor
  BY <1>1, <1>3 DEF Known
<1>5. /\ Credit \in Nat /\ Today \in Nat /\ sent \in Sents /\ Known \in Budgets \cup {Unset}
  BY CreditIsOf
<1>6. CASE Persist(t)
  <2>1. store'.budget = floor /\ UNCHANGED order
    BY <1>2, <1>6 DEF Persist, Replaced, past
  <2>2. Credit' = Credit /\ Today' = Today
    BY <1>1, <2>1 DEF Credit, Today, Day
  <2>3. Accounts(floor, Credit + 1, sent, Today)
    <3>1. Credit + 1 \in Nat /\ Credit <= Credit + 1
      BY <1>5
    <3> QED BY <1>2, <1>4, <1>5, <3>1, AccountsGrow
  <2>4. /\ InHand(store'.budget, Today') /\ InHand(floor', Today')
        /\ Accounts(Known', Credit', sent', Today')
        /\ Accounts(store'.budget, Credit' + 1, sent', Today')
        /\ floor' \in {Unset, store'.budget}
    BY <1>1, <1>2, <1>4, <2>1, <2>2, <2>3
  <2> QED BY <1>1, <2>4 DEF AllowanceInv, InHand, Accounts
<1>7. CASE PersistFails(t)
  <2>1. order' = [order EXCEPT !.failed = TRUE]
    BY <1>7 DEF PersistFails
  <2>2. Credit' \in Nat /\ Credit' >= Credit /\ Today' = Today /\ order'.failed
    <3>1. order'.failed
      BY <2>1 DEF TypeInv, PastTyped, Orders
    <3> QED BY <1>1, <2>1, <3>1, CreditFails
  <2>3. Accounts(Known, Credit', sent, Today)
    BY <1>2, <1>5, <2>2, AccountsGrow
  <2>4. /\ InHand(store'.budget, Today') /\ InHand(floor', Today')
        /\ Accounts(Known', Credit', sent', Today')
    BY <1>1, <1>2, <1>4, <2>2, <2>3
  <2> QED BY <1>1, <2>2, <2>4 DEF AllowanceInv, InHand, Accounts
<1> QED BY <1>6, <1>7 DEF Settles
LEMMA AllowanceDecide ==
  ASSUME TypeInv, AllowanceInv, NEW t \in Thread, Decide(t)
  PROVE  AllowanceInv'
<1> DEFINE e == req[t].event
           now == req[t].now
           p == Plan(e, now)
           v == Verdict(e, now)
           D == Day(now)
           b == Budget(now)
           more == IF p.kind = "publish" THEN [sent EXCEPT ![D] = @ + 1] ELSE sent
<1>1. /\ e \in Events /\ now \in Stamp /\ p \in Plans /\ Locked = {} /\ Forgets(t)
      /\ ~Outdated(Read(e), e) /\ ~TooLarge(Transition(Read(e), e))
      /\ p.kind \in {"publish", "notice"} =>
              floor' = floor /\ Locked' = {t} /\ req'[t] = Under("publishing", e, now, p)
      /\ p.kind \notin {"publish", "notice"} =>
              /\ floor' = p.budget
              /\ p.write => Locked' = {t} /\ req'[t] = Under("persisting", e, now, p)
              /\ ~p.write => Locked' = {}
  BY DecideIsTyped
<1>2. UNCHANGED <<store, restarts, sent>> /\ req[t].pc = "waiting"
  BY DEF Decide, Proceeds, Enters
<1>3. /\ D \in Nat /\ Today' = Larger(Today, D) /\ Today' >= Today /\ Today' >= D
      /\ order'.failed = order.failed
      /\ Credit' = IF D < Today THEN Credit + GlobalCeiling ELSE Credit
  BY <1>1, <1>2, CreditTurns
<1>4. now \in Nat /\ D \in 0 .. Day(MaxClock)
  BY <1>1, StampsAre, DayOfStamp
<1>5. /\ Credit \in Nat /\ Today \in Nat /\ sent \in Sents /\ Credit + 1 \in Nat
      /\ Known \in Budgets \cup {Unset} /\ store.budget \in Budgets \cup {Unset}
      /\ floor \in Budgets \cup {Unset} /\ GlobalCeiling \in Nat
  BY CreditIsOf DEF TypeInv, FileTyped
<1>6. InHand(Known, Today) /\ InHand(store.budget, Today) /\ InHand(floor, Today)
  BY DEF AllowanceInv, Known
<1>7. /\ b \in Budgets /\ b.day = D /\ b.count \in Nat /\ b.count <= GlobalCeiling
      /\ Known # Unset /\ Known.day = D => b.count >= Known.count
  BY <1>4, <1>6, BudgetCounts
<1>8. /\ p.kind = v.kind /\ p.budget.day = v.budget.day /\ p.budget.count = v.budget.count
      /\ ~p.write => p.budget = store.budget
  <2> HIDE DEF e, now
  <2> QED BY <1>1, <1>4, PlanIsOf DEF TypeInv
<1>9. /\ v.kind \in {"publish", "notice", "silent", "nothing"} /\ v.budget.day = D
      /\ v.kind = "publish" => b.count < GlobalCeiling /\ v.budget.count = b.count + 1
      /\ v.kind # "publish" => v.budget.count = b.count
  <2> HIDE DEF e, now
  <2> QED BY <1>1, <1>4, VerdictIsOf DEF TypeInv, D
<1> HIDE DEF e, now, p, v, D, b, more
<1>10. p.budget \in Budgets /\ p.budget # Unset /\ b # Unset
  <2>1. p.budget \in Budgets
    BY <1>1 DEF Plans
  <2> QED BY <1>7, <2>1, NoticedIsOf
<1>11. Today' \in Nat /\ Credit' \in Nat
  BY <1>3, <1>5 DEF Larger
<1>12. InHand(p.budget, Today') /\ p.budget.day = D
  <2>1. p.budget.count <= GlobalCeiling
    BY <1>5, <1>7, <1>8, <1>9
  <2> QED BY <1>3, <1>8, <1>9, <2>1 DEF InHand
<1>13. Accounts(Known, Credit, sent, Today)
  BY DEF AllowanceInv
<1>14. Accounts(Known, Credit', sent, Today')
  BY <1>3, <1>5, <1>6, <1>13, AccountsTurn
<1>15. Accounts(b, Credit', sent, Today')
  BY <1>3, <1>5, <1>6, <1>7, <1>10, <1>13, AccountsTurn
<1>16. Accounts(p.budget, Credit', more, Today')
  <2>1. CASE p.kind = "publish"
    <3>1. p.budget.count = b.count + 1
      BY <1>8, <1>9, <2>1
    <3>2. D \in DOMAIN sent /\ D <= Today'
      BY <1>3, <1>4, <1>5, SentsAre
    <3>3. b \in Budgets \cup {Unset} /\ b # Unset /\ b.day = D
      BY <1>7, <1>10
    <3>4. Accounts(p.budget, Credit', [sent EXCEPT ![D] = @ + 1], Today')
      BY <1>5, <1>10, <1>11, <1>12, <1>15, <3>1, <3>2, <3>3, AccountsSpend
    <3> QED BY <2>1, <3>4 DEF more
  <2>2. CASE p.kind # "publish"
    <3>1. p.budget.count = b.count /\ p.budget.day = D /\ b.day = D
      BY <1>7, <1>8, <1>9, <2>2
    <3>2. Accounts(p.budget, Credit', sent, Today')
      BY <1>10, <1>15, <3>1 DEF Accounts
    <3> QED BY <2>2, <3>2 DEF more
  <2> QED BY <2>1, <2>2
<1>17. ASSUME ~order.failed PROVE Accounts(store.budget, Credit' + 1, sent, Today')
  <2>1. Accounts(store.budget, Credit + 1, sent, Today)
    BY <1>17 DEF AllowanceInv
  <2>2. Credit' + 1 = IF D < Today THEN (Credit + 1) + GlobalCeiling ELSE Credit + 1
    BY <1>3, <1>5
  <2> QED BY <1>3, <1>5, <1>6, <2>1, <2>2, AccountsTurn
<1>18. InHand(store.budget, Today') /\ InHand(floor, Today')
  BY <1>3, <1>5, <1>6, <1>11, BudgetFields DEF InHand
<1>19. ~order.failed => floor \in {Unset, store.budget}
  BY <1>1 DEF AllowanceInv
<1>20. CASE p.kind \in {"publish", "notice"}
  <2>1. /\ floor' = floor /\ Locked' = {t} /\ req'[t].pc = "publishing" /\ req'[t].plan = p
        /\ req'[t].now = now
    BY <1>1, <1>20 DEF Under
  <2>2. Known' = Known
    BY <1>2, <2>1 DEF Known
  <2>3. SentBy(t)' = more
    BY <1>2, <2>1 DEF SentBy, more, D, Day
  <2>4. /\ InHand(store'.budget, Today') /\ InHand(floor', Today')
        /\ Accounts(Known', Credit', sent', Today')
        /\ ~order'.failed => Accounts(store'.budget, Credit' + 1, sent', Today')
        /\ ~order'.failed => floor' \in {Unset, store'.budget}
    BY <1>2, <1>3, <1>14, <1>17, <1>18, <1>19, <2>1, <2>2
  <2>5. ASSUME NEW u \in Locked'
        PROVE  /\ InHand(req'[u].plan.budget, Today') /\ req'[u].plan.budget.day = Day(req'[u].now)
               /\ Accounts(req'[u].plan.budget, Credit', SentBy(u)', Today')
               /\ req'[u].pc = "persisting" => floor' = req'[u].plan.budget
               /\ ~req'[u].plan.write => req'[u].plan.budget = store'.budget
    <3>1. u = t
      BY <2>1
    <3> QED BY <1>2, <1>8, <1>12, <1>16, <2>1, <2>3, <3>1 DEF D
  <2> QED BY <2>4, <2>5 DEF AllowanceInv, InHand, Accounts, Day
<1>21. CASE p.kind \notin {"publish", "notice"}
  <2>1. floor' = p.budget /\ Known' = p.budget /\ more = sent
    BY <1>1, <1>10, <1>21 DEF Known, more
  <2>2. /\ InHand(store'.budget, Today') /\ InHand(floor', Today')
        /\ Accounts(Known', Credit', sent', Today')
        /\ ~order'.failed => Accounts(store'.budget, Credit' + 1, sent', Today')
    BY <1>2, <1>3, <1>12, <1>16, <1>17, <1>18, <2>1
  <2>3. CASE p.write
    <3>1. /\ Locked' = {t} /\ req'[t].pc = "persisting" /\ req'[t].plan = p /\ req'[t].now = now
      BY <1>1, <1>21, <2>3 DEF Under
    <3>2. SentBy(t)' = sent
      BY <1>2, <3>1 DEF SentBy
    <3>3. ASSUME NEW u \in Locked'
          PROVE  /\ InHand(req'[u].plan.budget, Today') /\ req'[u].plan.budget.day = Day(req'[u].now)
                 /\ Accounts(req'[u].plan.budget, Credit', SentBy(u)', Today')
                 /\ req'[u].pc = "persisting" => floor' = req'[u].plan.budget
                 /\ ~req'[u].plan.write => req'[u].plan.budget = store'.budget
      <4>1. u = t
        BY <3>1
      <4> QED BY <1>2, <1>12, <1>16, <2>1, <2>3, <3>1, <3>2, <4>1 DEF D
    <3> QED BY <2>2, <3>1, <3>3 DEF AllowanceInv, InHand, Accounts, Day
  <2>4. CASE ~p.write
    <3>1. Locked' = {} /\ floor' \in {Unset, store'.budget}
      BY <1>1, <1>2, <1>8, <1>21, <2>1, <2>4
    <3> QED BY <2>2, <3>1 DEF AllowanceInv, InHand, Accounts
  <2> QED BY <2>3, <2>4
<1> QED BY <1>20, <1>21

LEMMA AllowancePublish ==
  ASSUME TypeInv, AllowanceInv, NEW t \in Thread, PublishAccepted(t)
  PROVE  AllowanceInv'
<1> DEFINE now == req[t].now
           p == req[t].plan
           D == Day(now)
<1>1. /\ now \in Stamp /\ p \in Plans /\ Locked = {t} /\ req[t].pc = "publishing"
      /\ floor' = p.budget
      /\ p.write => Locked' = {t} /\ req'[t] = Under("persisting", req[t].event, now, p)
      /\ ~p.write => Locked' = {}
  BY PublishIsTyped
<1>2. /\ UNCHANGED <<store, restarts, order>>
      /\ sent' = IF p.kind = "publish" THEN [sent EXCEPT ![D] = @ + 1] ELSE sent
  BY DEF PublishAccepted
<1>3. /\ InHand(p.budget, Today) /\ p.budget.day = D
      /\ Accounts(p.budget, Credit, SentBy(t), Today)
      /\ ~p.write => p.budget = store.budget
      /\ InHand(store.budget, Today) /\ Accounts(Known, Credit, sent, Today)
      /\ ~order.failed => floor \in {Unset, store.budget}
  BY <1>1 DEF AllowanceInv
<1>4. SentBy(t) = sent'
  BY <1>1, <1>2 DEF SentBy
<1> HIDE DEF now, p, D
<1>5. p.budget \in Budgets /\ p.budget # Unset
  <2>1. p.budget \in Budgets
    BY <1>1 DEF Plans
  <2> QED BY <2>1, NoticedIsOf
<1>6. Credit' = Credit /\ Today' = Today /\ Known' = p.budget
  BY <1>1, <1>2, <1>5 DEF Credit, Today, Day, Known
<1>7. /\ Credit \in Nat /\ Today \in Nat /\ sent \in Sents /\ Credit + 1 \in Nat
      /\ Credit <= Credit + 1 /\ store.budget \in Budgets \cup {Unset}
  BY CreditIsOf
<1>8. ASSUME ~order.failed PROVE Accounts(store.budget, Credit + 1, sent', Today)
  <2>1. Known = store.budget
    BY <1>3, <1>8 DEF Known
  <2>2. Accounts(store.budget, Credit, sent, Today)
    BY <1>3, <2>1
  <2>3. CASE p.kind = "publish"
    <3>1. D \in DOMAIN sent /\ D <= Today
      <4>1. D \in 0 .. Day(MaxClock)
        BY <1>1, DayOfStamp DEF D
      <4>2. D <= Today
        BY <1>3, <1>5 DEF InHand
      <4> QED BY <1>7, <4>1, <4>2, SentsAre
    <3>2. Accounts(store.budget, Credit + 1, [sent EXCEPT ![D] = @ + 1], Today)
      BY <1>7, <2>2, <3>1, AccountsSpend
    <3> QED BY <1>2, <2>3, <3>2
  <2>4. CASE p.kind # "publish"
    BY <1>2, <1>7, <2>2, <2>4, AccountsGrow
  <2> QED BY <2>3, <2>4
<1>9. /\ InHand(store'.budget, Today') /\ InHand(floor', Today')
      /\ Accounts(Known', Credit', sent', Today')
      /\ ~order'.failed => Accounts(store'.budget, Credit' + 1, sent', Today')
  BY <1>1, <1>2, <1>3, <1>4, <1>6, <1>8
<1>10. CASE p.write
  <2>1. /\ Locked' = {t} /\ req'[t].pc = "persisting" /\ req'[t].plan = p /\ req'[t].now = now
    BY <1>1, <1>10 DEF Under
  <2>2. SentBy(t)' = sent'
    BY <2>1 DEF SentBy
  <2>3. ASSUME NEW u \in Locked'
        PROVE  /\ InHand(req'[u].plan.budget, Today') /\ req'[u].plan.budget.day = Day(req'[u].now)
               /\ Accounts(req'[u].plan.budget, Credit', SentBy(u)', Today')
               /\ req'[u].pc = "persisting" => floor' = req'[u].plan.budget
               /\ ~req'[u].plan.write => req'[u].plan.budget = store'.budget
    <3>1. u = t
      BY <2>1
    <3> QED BY <1>1, <1>3, <1>4, <1>6, <1>10, <2>1, <2>2, <3>1 DEF D
  <2> QED BY <1>9, <2>1, <2>3 DEF AllowanceInv, InHand, Accounts, Day
<1>11. CASE ~p.write
  <2>1. Locked' = {} /\ floor' \in {Unset, store'.budget}
    BY <1>1, <1>2, <1>3, <1>11
  <2> QED BY <1>9, <2>1 DEF AllowanceInv, InHand, Accounts
<1> QED BY <1>10, <1>11

LEMMA AllowanceInit == Init => AllowanceInv
<1> SUFFICES ASSUME Init PROVE AllowanceInv
  OBVIOUS
<1>1. /\ store.budget = Unset /\ floor = Unset /\ Locked = {}
      /\ DOMAIN sent = 0 .. Day(MaxClock) /\ \A d \in DOMAIN sent : sent[d] = 0
  BY DEF Init, Locked, Free
<1>2. Credit \in Nat /\ GlobalCeiling \in Nat
  BY TypeInit, CreditIsOf
<1>3. \A k \in Nat : Accounts(Unset, k, sent, Today)
  BY <1>1, <1>2 DEF Accounts
<1>4. Known = Unset /\ Credit + 1 \in Nat
  BY <1>1, <1>2 DEF Known
<1> QED BY <1>1, <1>2, <1>3, <1>4 DEF AllowanceInv, InHand

(* The ceiling of a day is not passed, but for the alerts that restarts      *)
(* interrupted and a ceiling for each day gone back to and each restart once *)
(* a write had failed (charge_budget(), BudgetFloor).                        *)
THEOREM AllowanceHolds == Spec => []WithinAllowance
<1>1. TypeInv /\ AllowanceInv /\ [Next]_vars => AllowanceInv'
  BY AllowanceQuiet, AllowanceRestart, AllowanceDecide, AllowancePublish, AllowanceSettles, StepsAre
<1>2. ASSUME TypeInv, AllowanceInv PROVE WithinAllowance
  <2>1. /\ Credit \in Nat /\ Today \in Nat /\ sent \in Sents
        /\ Known \in Budgets \cup {Unset}
        /\ order.daysBack \in Nat /\ restarts \in Nat /\ order.failed \in BOOLEAN
        /\ GlobalCeiling \in Nat \ {0}
    BY <1>2, CreditIsOf
  <2>2. \A d \in DOMAIN sent : sent[d] <= Credit + GlobalCeiling
    <3>1. InHand(Known, Today) /\ Accounts(Known, Credit, sent, Today)
      BY <1>2 DEF AllowanceInv, Known
    <3> QED BY <2>1, <3>1, AccountsAtMost
  <2> DEFINE n == IF order.failed THEN restarts ELSE 0
  <2>3. n \in Nat
    BY <2>1
  <2>4. Credit = GlobalCeiling * (order.daysBack + n) + restarts
    BY DEF Credit
  <2> HIDE DEF n
  <2>5. GlobalCeiling * (1 + order.daysBack + n) = GlobalCeiling + GlobalCeiling * (order.daysBack + n)
    <3> DEFINE m == order.daysBack + n
    <3>1. m \in Nat /\ 1 + order.daysBack + n = m + 1
      BY <2>1, <2>3
    <3> HIDE DEF m
    <3>2. GlobalCeiling * (m + 1) = GlobalCeiling + GlobalCeiling * m
      BY <2>1, <3>1
    <3> QED BY <3>1, <3>2 DEF m
  <2>6. GlobalCeiling * (order.daysBack + n) \in Nat
    BY <2>1, <2>3
  <2>7. \A d \in DOMAIN sent : sent[d] <= GlobalCeiling * (1 + order.daysBack + n) + restarts
    <3> DEFINE x == GlobalCeiling * (order.daysBack + n)
    <3>1. Credit + GlobalCeiling = (GlobalCeiling + x) + restarts
      BY <2>1, <2>4, <2>6
    <3> HIDE DEF x
    <3> QED BY <2>2, <2>5, <3>1 DEF x
  <2> QED BY <2>7 DEF WithinAllowance, n
<1> QED BY <1>1, <1>2, TypeInit, TypeStep, AllowanceInit, PTL DEF Spec
=============================================================================

---------------------------- MODULE BudgetLedger ----------------------------
(***************************************************************************)
(* The discretionary budget of one family and the roadmap items it pays    *)
(* for: services/budget.py, routers/budgets.py, routers/roadmap.py and the *)
(* decisions of the decision-system API.                                   *)
(*                                                                         *)
(* A decision whose score does not meet the policy's threshold costs one   *)
(* point of its budget person when it is scheduled, and gives it back when *)
(* it is unscheduled before it is done. Points are rows of an append-only  *)
(* ledger per period and person; periods are made by the first request     *)
(* that finds none active.                                                 *)
(*                                                                         *)
(* A request is one transaction without row locks: Begin... is what it     *)
(* reads and computes, Commit what it writes. Sessions overlap freely. A   *)
(* request that writes no period and no ledger row is one step: what it    *)
(* reads only lets it through or refuses it.                               *)
(* Rows a session has added and not flushed are not seen by its own        *)
(* queries (autoflush=False), only what it flushed is.                     *)
(*                                                                         *)
(* Abstractions: the SELECTs of one request see one state of the tables; a *)
(* ledger is kept as counters; the policy row exists, and one PUT replaces *)
(* the settings of another; a person once active stays so. Decisions may   *)
(* be patched, scored anew or deleted at any time: whoever pays for one    *)
(* and whether it meets the threshold is open at every request, and any    *)
(* request may be refused because of what its decision is.                 *)
(***************************************************************************)
EXTENDS Integers, FiniteSets

CONSTANTS
  Persons,
  Decisions,
  Sessions,
  Allowances,  \* points a policy may grant a person
  PeriodDays,
  NULL,
  Days,        \* bound: the days on which something happens
  MaxPeriods,  \* bound: periods
  MaxItems,    \* bound: roadmap items
  MaxPolicies  \* bound: changes of the policy

ASSUME BudgetAssumption ==
  /\ IsFiniteSet(Sessions) /\ Sessions # {}
  /\ Allowances \subseteq Nat
  /\ PeriodDays \in Nat \ {0}
  /\ Days \subseteq Nat /\ 0 \in Days
  /\ MaxPeriods \in Nat /\ MaxItems \in Nat /\ MaxPolicies \in Nat

PeriodIds == 1..MaxPeriods
Slots     == PeriodIds \X Persons

VARIABLES
  day,        \* date.today()
  members,    \* persons of the family
  policy,     \* person -> allowance
  periods,    \* id -> row of periods, or NULL
  nextPeriod, \* the id sequence of periods
  ledger,     \* slot -> its rows of discretionary_budget_ledger, counted
  spends,     \* decision -> its debits and refunds in the ledger
  items,      \* id -> row of roadmap_items, or NULL
  nextItem,   \* the id sequence of roadmap_items
  session,    \* per session NULL or what its request will commit
  policies,   \* changes of the policy so far (bound)
  rivals      \* the most other requests that were in progress when one began (history)

vars == <<day, members, policy, periods, nextPeriod, ledger, spends, items, nextItem,
          session, policies, rivals>>

---------------------------------------------------------------------------
(* Rows                                                                    *)

\* A reset ends a period the day before, even one that starts today.
Period == {r \in [start : Days, end : Int] : r.end - r.start \in -1..(PeriodDays - 1)}

\* The ledger rows of one period and person: period_allocation rows, the sum
\* of allocations and adjustments, what adjustments took away, debits, refunds.
Row == [allocs : Nat, allowance : Int, cut : Nat, debits : Nat, refunds : Nat]

Zero == [allocs |-> 0, allowance |-> 0, cut |-> 0, debits |-> 0, refunds |-> 0]

\* An allocation and an adjustment of n points, and a refund.
Allotted(n) == [allocs |-> 1, allowance |-> n, cut |-> 0, debits |-> 0, refunds |-> 0]

Adjusted(n) == [allocs |-> 0, allowance |-> n, cut |-> IF n < 0 THEN -n ELSE 0,
                debits |-> 0, refunds |-> 0]

Returned == [allocs |-> 0, allowance |-> 0, cut |-> 0, debits |-> 0, refunds |-> 1]

Debited(r) == [r EXCEPT !.debits = @ + 1]

Plus(a, b) == [f \in DOMAIN Zero |-> a[f] + b[f]]

NoRows == [slot \in Slots |-> Zero]

\* The decision's rows of the ledger; slots are those of its debits.
Spend == [debits : Nat, refunds : Nat, slots : SUBSET Slots]

Item == [decision : Decisions, done : BOOLEAN]

\* What a request may be about to insert: a period, a debit or a refund.
NewPeriod == [id : PeriodIds, row : Period]
Spending  == [op : {"debit", "refund"}, decision : Decisions, slot : Slots]

\* A row is not the absence of one.
ASSUME NullAssumption == NULL \notin Period \cup Item \cup NewPeriod \cup Spending

\* person_remaining_in_period
Remaining(r) ==
  r.allowance - (IF r.debits > r.refunds THEN r.debits - r.refunds ELSE 0)

\* What a request writes: a period made, ends of periods moved, ledger rows,
\* the period it answers with after a reset, a roadmap item, and the policy.
NoWrites == [new |-> NULL, ends |-> <<>>, rows |-> NoRows, spend |-> NULL,
             item |-> NULL, policy |-> NULL, reset |-> NULL]

---------------------------------------------------------------------------
(* Periods and allocations                                                 *)

\* Mutant: The last day of a period does not belong to it.
ActiveButLast == {q \in PeriodIds : /\ periods[q] # NULL
                                    /\ periods[q].start <= day
                                    /\ day < periods[q].end}

\* The periods that ensure_active_period finds.
Active == {q \in PeriodIds : /\ periods[q] # NULL
                             /\ periods[q].start <= day
                             /\ day <= periods[q].end}

\* The one it returns: the latest start, then the largest id.
Chosen == CHOOSE q \in Active : \A o \in Active :
            \/ periods[o].start < periods[q].start
            \/ periods[o].start = periods[q].start /\ o <= q

Earlier(a, b) == IF a < b THEN a ELSE b

\* _next_period_window
Window == [start |-> day, end |-> day + PeriodDays - 1]

(* ensure_active_period: the period to use, the stale ones that overlap it
   cut off, or a new one with an allocation for every member.              *)
Ensured(allowance) ==
  IF Active # {}
  THEN [period |-> Chosen, new |-> NULL, rows |-> NoRows,
        ends |-> [q \in Active \ {Chosen} |->
                    Earlier(periods[q].end, periods[Chosen].start - 1)]]
  ELSE [period |-> nextPeriod, new |-> [id |-> nextPeriod, row |-> Window],
        rows |-> [slot \in Slots |->
                    IF slot[1] = nextPeriod /\ slot[2] \in members
                    THEN Allotted(allowance[slot[2]])
                    ELSE Zero],
        ends |-> <<>>]

CanEnsure == Active # {} \/ nextPeriod <= MaxPeriods

\* The id of a new period is drawn when it is flushed.
DrawPeriod(e) == nextPeriod' = IF e.new = NULL THEN nextPeriod ELSE nextPeriod + 1

EnsureWrites(e) == [NoWrites EXCEPT !.new = e.new, !.ends = e.ends, !.rows = e.rows]

\* ensure_person_allocation_in_period: the row it adds and does not flush.
Allocation(seen, amount) ==
  IF seen.allocs = 0 THEN Allotted(amount) ELSE Zero

\* scalar_one_or_none raises when there are two allocations.
Readable(seen) == seen.allocs <= 1

---------------------------------------------------------------------------
Init ==
  /\ day = 0
  /\ members \in SUBSET Persons \ {{}}
  /\ policy \in [Persons -> Allowances]
  /\ periods = [q \in PeriodIds |-> NULL]
  /\ nextPeriod = 1
  /\ ledger = NoRows
  /\ spends = [d \in Decisions |-> [debits |-> 0, refunds |-> 0, slots |-> {}]]
  /\ items = [i \in 1..MaxItems |-> NULL]
  /\ nextItem = 1
  /\ session = [s \in Sessions |-> NULL]
  /\ policies = 0 /\ rivals = 0

Begin(s, writes) ==
  /\ session[s] = NULL
  /\ session' = [session EXCEPT ![s] = writes]
  /\ LET others == Cardinality({t \in Sessions : session[t] # NULL})
     IN  rivals' = IF others > rivals THEN others ELSE rivals
  /\ UNCHANGED <<day, members, policy, periods, ledger, spends, items, nextItem>>

\* What a session sees of the ledger after ensure_active_period flushed.
Visible(e, slot) == Plus(ledger[slot], e.rows[slot])

\* Mutant: A person with nothing left may still spend.
BeginOverrideEmpty(s, d, p) ==
  /\ nextItem <= MaxItems
  /\ CanEnsure
  /\ LET e    == Ensured(policy)
         slot == <<e.period, p>>
         seen == Visible(e, slot)
     IN /\ Readable(seen)
        /\ Remaining(seen) >= 0
        /\ Begin(s, [EnsureWrites(e) EXCEPT
             !.rows[slot] = Debited(Plus(@, Allocation(seen, policy[p]))),
             !.spend = [op |-> "debit", decision |-> d, slot |-> slot],
             !.item = [op |-> "add", decision |-> d]])
        /\ DrawPeriod(e)
  /\ UNCHANGED policies

(* POST /v1/roadmap with use_discretionary_budget of a decision below the
   threshold, whose owner, target or creator is p: the point is checked
   against the rows flushed so far, not against the allocation added a line
   before. A refused request rolls everything back.                        *)
BeginOverride(s, d, p) ==
  /\ nextItem <= MaxItems
  /\ CanEnsure
  /\ LET e    == Ensured(policy)
         slot == <<e.period, p>>
         seen == Visible(e, slot)
     IN /\ Readable(seen)
        /\ Remaining(seen) >= 1
        /\ Begin(s, [EnsureWrites(e) EXCEPT
             !.rows[slot] = Debited(Plus(@, Allocation(seen, policy[p]))),
             !.spend = [op |-> "debit", decision |-> d, slot |-> slot],
             !.item = [op |-> "add", decision |-> d]])
        /\ DrawPeriod(e)
  /\ UNCHANGED policies

\* Mutant: A refund is due as long as there are no more refunds than debits.
RefundDueAgain(i) ==
  LET x == spends[items[i].decision]
  IN ~items[i].done /\ x.debits > 0 /\ x.refunds <= x.debits

RefundDue(i) ==
  LET x == spends[items[i].decision]
  IN ~items[i].done /\ x.refunds < x.debits

(* DELETE /v1/roadmap/{id}: an item that is not done gives back the "latest"
   debit of its decision, which without ORDER BY is any of them.           *)
BeginDeleteItem(s, i) ==
  /\ items[i] # NULL
  /\ LET d == items[i].decision
         w == [NoWrites EXCEPT !.item = [op |-> "delete", id |-> i]]
     IN \/ /\ RefundDue(i)
           /\ \E slot \in spends[d].slots :
                Begin(s, [w EXCEPT
                  !.rows[slot] = Returned,
                  !.spend = [op |-> "refund", decision |-> d, slot |-> slot]])
        \/ ~RefundDue(i) /\ Begin(s, w)
  /\ UNCHANGED <<nextPeriod, policies>>

---------------------------------------------------------------------------
(* Budgets                                                                 *)

\* GET /v1/budgets/families/{id}; the allocations its answer adds are dropped.
BeginSummary(s) ==
  /\ CanEnsure
  /\ LET e == Ensured(policy)
     IN /\ e.new # NULL \/ DOMAIN e.ends # {}
        /\ Begin(s, EnsureWrites(e))
        /\ DrawPeriod(e)
  /\ UNCHANGED policies

(* PUT .../policy: everybody's allowance is adjusted to the new one. The sum
   it adjusts does not have the allocation added a line before.            *)
BeginPolicy(s, next) ==
  /\ policies < MaxPolicies
  /\ CanEnsure
  /\ LET e == Ensured(next)
         seen(p) == Visible(e, <<e.period, p>>)
         delta(p) == next[p] - seen(p).allowance
     IN /\ \A p \in members : Readable(seen(p))
        /\ Begin(s, [EnsureWrites(e) EXCEPT
             !.policy = next,
             !.rows = [slot \in Slots |->
               IF slot[1] = e.period /\ slot[2] \in members
               THEN LET p == slot[2]
                    IN Plus(Plus(e.rows[slot], Allocation(seen(p), next[p])),
                            Adjusted(delta(p)))
               ELSE e.rows[slot]]])
        /\ DrawPeriod(e)
  /\ policies' = policies + 1

(* POST .../period/reset: the period ends yesterday, and the second
   ensure_active_period finds it again, because that is not flushed.       *)
BeginReset(s) ==
  /\ CanEnsure
  /\ LET e == Ensured(policy)
         w == [EnsureWrites(e) EXCEPT !.reset = e.period]
     IN /\ Begin(s, IF e.new # NULL THEN [w EXCEPT !.new.row.end = day - 1]
                    ELSE [w EXCEPT !.ends = [q \in Active |->
                            IF q = e.period THEN day - 1 ELSE e.ends[q]]])
        /\ DrawPeriod(e)
  /\ UNCHANGED policies

---------------------------------------------------------------------------
(* Requests that touch neither periods nor the ledger, whole               *)

AddItem(d) ==
  /\ items' = [items EXCEPT ![nextItem] = [decision |-> d, done |-> FALSE]]
  /\ nextItem' = nextItem + 1

(* POST /v1/roadmap of a decision that meets the threshold *)
Schedule(d) ==
  /\ nextItem <= MaxItems
  /\ AddItem(d)
  /\ UNCHANGED <<day, members, policy, periods, nextPeriod, ledger, spends, session,
                 policies, rivals>>

\* PATCH /v1/roadmap/{id}: the status may become Done, or any other.
UpdateItem(i, done) ==
  /\ items[i] # NULL
  /\ items' = [items EXCEPT ![i].done = done]
  /\ UNCHANGED <<day, members, policy, periods, nextPeriod, ledger, spends, nextItem,
                 session, policies, rivals>>

\* A person joins the family.
Join(person) ==
  /\ person \notin members
  /\ members' = members \cup {person}
  /\ UNCHANGED <<day, policy, periods, nextPeriod, ledger, spends, items, nextItem,
                 session, policies, rivals>>

---------------------------------------------------------------------------
(* COMMIT                                                                  *)

CommitPeriods(w) ==
  periods' = [q \in PeriodIds |->
    IF w.new # NULL /\ w.new.id = q THEN w.new.row
    ELSE IF q \in DOMAIN w.ends THEN [periods[q] EXCEPT !.end = w.ends[q]]
    ELSE periods[q]]

\* The decision's rows after a debit or a refund.
Spent(x, spend) ==
  IF spend.op = "debit"
  THEN [debits |-> x.debits + 1, refunds |-> x.refunds, slots |-> x.slots \cup {spend.slot}]
  ELSE [debits |-> x.debits, refunds |-> x.refunds + 1, slots |-> x.slots]

CommitLedger(w) ==
  /\ ledger' = [slot \in Slots |-> Plus(ledger[slot], w.rows[slot])]
  /\ spends' =
       IF w.spend = NULL THEN spends
       ELSE [spends EXCEPT ![w.spend.decision] = Spent(@, w.spend)]

\* The DELETE of a row that is gone is no error.
CommitItem(w) ==
  \/ w.item = NULL /\ UNCHANGED <<items, nextItem>>
  \/ /\ w.item # NULL /\ w.item.op = "add"
     /\ nextItem <= MaxItems /\ AddItem(w.item.decision)
  \/ /\ w.item # NULL /\ w.item.op = "delete"
     /\ items' = [items EXCEPT ![w.item.id] = NULL]
     /\ UNCHANGED nextItem

Commit(s) ==
  /\ session[s] # NULL
  /\ LET w == session[s]
     IN /\ CommitPeriods(w)
        /\ CommitLedger(w)
        /\ CommitItem(w)
        /\ policy' = IF w.policy = NULL THEN policy ELSE w.policy
  /\ session' = [session EXCEPT ![s] = NULL]
  /\ UNCHANGED <<day, members, nextPeriod, policies, rivals>>

\* The COMMIT fails, or the process or its connection is lost before it.
Rollback(s) ==
  /\ session[s] # NULL
  /\ session' = [session EXCEPT ![s] = NULL]
  /\ UNCHANGED <<day, members, policy, periods, nextPeriod, ledger, spends, items, nextItem,
                 policies, rivals>>

NextDay ==
  /\ day' \in Days
  /\ day < day'
  /\ UNCHANGED <<members, policy, periods, nextPeriod, ledger, spends, items, nextItem,
                 session, policies, rivals>>

Request(s) ==
  \/ \E d \in Decisions, p \in members : BeginOverride(s, d, p)
  \/ \E i \in 1..MaxItems : BeginDeleteItem(s, i)
  \/ BeginSummary(s)
  \/ \E next \in [Persons -> Allowances] : BeginPolicy(s, next)
  \/ BeginReset(s)

Next ==
  \/ \E s \in Sessions : Request(s) \/ Commit(s) \/ Rollback(s)
  \/ \E d \in Decisions : Schedule(d)
  \/ \E i \in 1..MaxItems, done \in BOOLEAN : UpdateItem(i, done)
  \/ \E p \in Persons : Join(p)
  \/ NextDay

Spec == Init /\ [][Next]_vars

---------------------------------------------------------------------------
(* Properties                                                              *)

TypeOK ==
  /\ day \in Days
  /\ members \subseteq Persons
  /\ policy \in [Persons -> Allowances]
  /\ periods \in [PeriodIds -> Period \cup {NULL}]
  /\ nextPeriod \in 1..(MaxPeriods + 1)
  /\ ledger \in [Slots -> Row]
  /\ spends \in [Decisions -> Spend]
  /\ items \in [1..MaxItems -> Item \cup {NULL}]
  /\ nextItem \in 1..(MaxItems + 1)
  /\ policies \in 0..MaxPolicies /\ rivals \in Nat

\* What a person has left falls below zero by no more than the requests that were in
\* progress beside another, and by what a policy took away: with requests one after
\* another nobody ever overdraws (person_remaining_in_period and the check before the
\* debit in create_roadmap_item).
OverdraftBounded ==
  \A slot \in Slots : Remaining(ledger[slot]) + ledger[slot].cut >= -rivals

\* A decision is given back no more than it cost, but for overlapping requests.
RefundsBounded ==
  \A d \in Decisions : spends[d].refunds <= spends[d].debits + rivals

\* A person has one allocation per period at most, with the same exception;
\* with two of them every further request for that person fails.
AllocsBounded == \A slot \in Slots : ledger[slot].allocs <= rivals + 1

\* What overlapping requests can do to the ledger is bounded by how many overlapped: the
\* refunds of a decision, and the allocations of a person (the reads before the inserts in
\* delete_roadmap_item and ensure_person_allocation_in_period).
LedgerBounded == TypeOK /\ RefundsBounded /\ AllocsBounded

\* On any day a family has one period, and one more at most for each request that was in
\* progress beside another, whatever was reset, cut off or made anew and however long a
\* request took (ensure_active_period, reset_budget_period).
ActiveBounded ==
  Cardinality({q \in PeriodIds : /\ periods[q] # NULL
                                 /\ day \in periods[q].start..periods[q].end}) <= rivals + 1

\* tests/test_budget.py, test_budget_reset_period_reallocates_allowance: the
\* period a reset answers with has nothing used.
ResetReallocates ==
  [][\A s \in Sessions : Commit(s) /\ session[s].reset # NULL =>
       \A p \in Persons :
         LET r == ledger'[<<session[s].reset, p>>]
         IN Remaining(r) = r.allowance]_vars

=============================================================================

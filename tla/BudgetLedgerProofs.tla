-------------------------- MODULE BudgetLedgerProofs --------------------------
(***************************************************************************)
(* Proofs about BudgetLedger, for every family, policy, set of sessions    *)
(* and calendar: the type invariant, how far requests that overlapped can  *)
(* have overdrawn a person, and how often they can have given back,        *)
(* allocated, or made a period, twice; and about the decisions and goals   *)
(* beside it, for any number of them.                                      *)
(***************************************************************************)
EXTENDS MCBudgetLedger, FiniteSetTheorems, TLAPS

---------------------------------------------------------------------------
(* The inductive invariant. What bounds the ledger is not in the ledger:   *)
(* a request that has passed its check and not committed yet counts        *)
(* already. So the rows still to be written are counted with the rows that *)
(* are there, and a session that adds to a ledger is one in progress, of   *)
(* which there never were more than Overlap.                               *)

\* The most requests that have been in progress at once.
Overlap == rivals + 1

Pending(s) == session[s] # NULL
InProgress == {s \in Sessions : Pending(s)}

\* Session s is about to debit slot, of a period that it found.
Debits(s, slot) ==
  /\ Pending(s) /\ session[s].new = NULL
  /\ session[s].spend # NULL
  /\ session[s].spend.op = "debit" /\ session[s].spend.slot = slot

\* Session s is about to refund a debit of decision d.
Refunds(s, d) ==
  /\ Pending(s) /\ session[s].spend # NULL
  /\ session[s].spend.op = "refund" /\ session[s].spend.decision = d

\* Session s is about to allocate slot, of a period that it found.
Allocates(s, slot) ==
  Pending(s) /\ session[s].new = NULL /\ session[s].rows[slot].allocs # 0

Debtors(slot)    == {s \in Sessions : Debits(s, slot)}
Refunders(d)     == {s \in Sessions : Refunds(s, d)}
Allocators(slot) == {s \in Sessions : Allocates(s, slot)}

\* What the person of slot may still spend, not counting what a policy took.
Margin(r) == Remaining(r) + r.cut

ItemChange == [op : {"add"}, decision : Decisions] \cup [op : {"delete"}, id : 1..MaxItems]

\* An end that a period with this start may get.
EndOf(start, end) == end \in Int /\ end - start \in -1..(PeriodDays - 1)

WritesOK(w) ==
  /\ w.new \in NewPeriod \cup {NULL}
  /\ w.rows \in [Slots -> Row]
  /\ w.spend \in Spending \cup {NULL}
  /\ w.item \in ItemChange \cup {NULL}
  /\ w.policy \in [Persons -> Allowances] \cup {NULL}

\* What a request does to a period and its ledger when it found the period.
FoundOK(w) ==
  \A slot \in Slots :
    /\ w.rows[slot] # Zero => periods[slot[1]] # NULL
    /\ w.rows[slot].debits =
         IF w.spend # NULL /\ w.spend.op = "debit" /\ w.spend.slot = slot THEN 1 ELSE 0
    /\ w.rows[slot].allowance + w.rows[slot].cut >= 0
    /\ w.rows[slot].allocs <= 1

\* The same when it makes the period: nobody else knows it.
MadeOK(w) ==
  /\ w.new.id < nextPeriod
  /\ periods[w.new.id] = NULL
  /\ \A slot \in Slots :
       /\ w.rows[slot] # Zero => slot[1] = w.new.id
       /\ Margin(w.rows[slot]) >= 0
       /\ w.rows[slot].allocs <= 1

SpendOK(w) ==
  w.spend # NULL =>
    IF w.new = NULL THEN periods[w.spend.slot[1]] # NULL
    ELSE w.spend.slot[1] = w.new.id

EndsOK(w) ==
  \A q \in DOMAIN w.ends :
    q \in PeriodIds /\ periods[q] # NULL /\ EndOf(periods[q].start, w.ends[q])

SessionOK(w) ==
  /\ WritesOK(w) /\ EndsOK(w) /\ SpendOK(w)
  /\ IF w.new = NULL THEN FoundOK(w) ELSE MadeOK(w)

SessionsOK ==
  /\ session = [s \in Sessions |-> session[s]]
  /\ \A s \in Sessions : Pending(s) => SessionOK(session[s])

\* No two sessions make the same period.
MadeApart ==
  \A s, t \in Sessions :
    /\ s # t /\ Pending(s) /\ Pending(t)
    /\ session[s].new # NULL /\ session[t].new # NULL
    => session[s].new.id # session[t].new.id

\* A period that is not there has no rows anywhere.
UnmadeUnused ==
  \A q \in PeriodIds :
    /\ q >= nextPeriod => periods[q] = NULL
    /\ periods[q] = NULL =>
         \A p \in Persons : /\ ledger[<<q, p>>] = Zero
                            /\ \A d \in Decisions : <<q, p>> \notin spends[d].slots

OverdraftInv ==
  \A slot \in Slots :
    Margin(ledger[slot]) - Cardinality(Debtors(slot)) >= 1 - Overlap

RefundInv ==
  \A d \in Decisions :
    spends[d].refunds - spends[d].debits + Cardinality(Refunders(d)) <= Overlap - 1

AllocInv ==
  \A slot \in Slots :
    ledger[slot].allocs + Cardinality(Allocators(slot)) <= Overlap

CrowdInv == Cardinality(InProgress) <= Overlap

Structure == TypeOK /\ SessionsOK /\ MadeApart /\ UnmadeUnused
IInv == Structure /\ CrowdInv /\ OverdraftInv /\ RefundInv /\ AllocInv

---------------------------------------------------------------------------
(* Ledger rows                                                             *)

LEMMA ZeroRow == Zero \in Row /\ Margin(Zero) = 0
  BY DEF Zero, Row, Margin, Remaining

\* Rows are added field by field.
LEMMA PlusRow ==
  ASSUME NEW a \in Row, NEW b \in Row
  PROVE  /\ Plus(a, b) \in Row
         /\ Plus(a, b).allocs = a.allocs + b.allocs
         /\ Plus(a, b).allowance = a.allowance + b.allowance
         /\ Plus(a, b).cut = a.cut + b.cut
         /\ Plus(a, b).debits = a.debits + b.debits
         /\ Plus(a, b).refunds = a.refunds + b.refunds
<1>1. Plus(a, b) = [allocs |-> a.allocs + b.allocs, allowance |-> a.allowance + b.allowance,
                    cut |-> a.cut + b.cut, debits |-> a.debits + b.debits,
                    refunds |-> a.refunds + b.refunds]
  BY DEF Plus, Zero, Row
<1> QED
  BY <1>1 DEF Row

LEMMA AllottedRow ==
  ASSUME NEW n \in Nat
  PROVE  /\ Allotted(n) \in Row /\ Allotted(n).allocs = 1 /\ Allotted(n).allowance = n
         /\ Allotted(n).cut = 0 /\ Allotted(n).debits = 0 /\ Allotted(n).refunds = 0
  BY DEF Allotted, Row

\* An adjustment takes from the allowance no more than it says it cut.
LEMMA AdjustedRow ==
  ASSUME NEW n \in Int
  PROVE  /\ Adjusted(n) \in Row /\ Adjusted(n).allocs = 0 /\ Adjusted(n).allowance = n
         /\ Adjusted(n).debits = 0 /\ Adjusted(n).refunds = 0
         /\ Adjusted(n).allowance + Adjusted(n).cut >= 0
         /\ n = 0 => Adjusted(n) = Zero
  BY DEF Adjusted, Zero, Row

\* Adding a row moves the margin by no less than what the row grants and debits.
LEMMA MarginPlus ==
  ASSUME NEW a \in Row, NEW b \in Row
  PROVE  /\ Margin(a) \in Int
         /\ Margin(Plus(a, b)) >= Margin(a) + b.allowance + b.cut - b.debits
  BY PlusRow DEF Margin, Remaining, Row

LEMMA PlusZero ==
  ASSUME NEW a \in Row
  PROVE  Plus(a, Zero) = a /\ Plus(Zero, a) = a
<1>1. a = [allocs |-> a.allocs, allowance |-> a.allowance, cut |-> a.cut,
           debits |-> a.debits, refunds |-> a.refunds]
  BY DEF Row
<1> QED
  BY <1>1 DEF Plus, Zero, Row
---------------------------------------------------------------------------
(* Sets of sessions                                                        *)

LEMMA OverlapNat == TypeOK => Overlap \in Nat \ {0}
  BY DEF TypeOK, Overlap

LEMMA SessionSets ==
  ASSUME NEW S, S \subseteq Sessions
  PROVE  IsFiniteSet(S) /\ Cardinality(S) \in Nat
  BY BudgetAssumption, FS_Subset, FS_CardinalityType

\* No set of the sessions among no more than n has more than n members, one without
\* one of them has fewer.
LEMMA FewSessions ==
  ASSUME NEW O, O \subseteq Sessions, NEW n \in Nat, Cardinality(O) <= n, NEW S, S \subseteq O
  PROVE  /\ Cardinality(S) \in Nat /\ Cardinality(S) <= n
         /\ \A s \in O : s \notin S => Cardinality(S) <= n - 1
<1>1. IsFiniteSet(O) /\ Cardinality(O) \in Nat
  BY SessionSets
<1>2. \A T : T \subseteq O =>
        IsFiniteSet(T) /\ Cardinality(T) \in Nat /\ Cardinality(T) <= Cardinality(O)
  BY <1>1, FS_Subset, FS_CardinalityType
<1>3. ASSUME NEW s \in O, s \notin S
      PROVE  Cardinality(S) <= n - 1
  <2>1. Cardinality(S \cup {s}) = Cardinality(S) + 1
    BY <1>2, <1>3, FS_AddElement
  <2>2. Cardinality(S \cup {s}) <= Cardinality(O) /\ Cardinality(S) \in Nat
    BY <1>2
  <2> QED
    BY <1>1, <2>1, <2>2
<1>4. Cardinality(S) \in Nat /\ Cardinality(S) <= n
  <2>1. Cardinality(S) \in Nat /\ Cardinality(S) <= Cardinality(O)
    BY <1>2
  <2> QED
    BY <2>1, <1>1
<1> QED
  BY <1>3, <1>4

\* What a step that concerns session s alone does to a set of sessions.
LEMMA OneSession ==
  ASSUME NEW S, NEW T, S \subseteq Sessions, T \subseteq Sessions, NEW s \in Sessions,
         \A t \in Sessions \ {s} : t \in T <=> t \in S
  PROVE  /\ s \in S /\ s \notin T => Cardinality(T) = Cardinality(S) - 1
         /\ s \notin S /\ s \in T => Cardinality(T) = Cardinality(S) + 1
         /\ (s \in S <=> s \in T) => Cardinality(T) = Cardinality(S)
<1>1. CASE s \in S /\ s \notin T
  <2>1. T = S \ {s}
    BY <1>1
  <2> QED
    BY <1>1, <2>1, SessionSets, FS_RemoveElement
<1>2. CASE s \notin S /\ s \in T
  <2>1. T = S \cup {s}
    BY <1>2
  <2> QED
    BY <1>2, <2>1, SessionSets, FS_AddElement
<1>3. CASE s \in S <=> s \in T
  <2>1. T = S
    BY <1>3
  <2> QED
    BY <1>3, <2>1
<1> QED
  BY <1>1, <1>2, <1>3

---------------------------------------------------------------------------
(* Periods                                                                 *)

\* A set of natural numbers has a least member: of the intervals 0..n that its
\* members span, one is strictly inside no other.
LEMMA LeastNatural ==
  ASSUME NEW T, T \subseteq Nat, T # {}
  PROVE  \E n \in T : \A m \in T : n <= m
<1> DEFINE spans == {0..n : n \in T}
<1>1. spans \subseteq FiniteSubsetsOf(Nat) /\ spans # {}
  <2>1. ASSUME NEW n \in T
        PROVE  0..n \in FiniteSubsetsOf(Nat)
    <3>1. n \in Int /\ 0..n \in SUBSET Nat
      OBVIOUS
    <3>2. IsFiniteSet(0..n)
      BY <3>1, FS_Interval
    <3> QED
      BY <3>1, <3>2 DEF FiniteSubsetsOf
  <2> QED
    BY <2>1
<1>2. PICK span \in spans : \A x \in spans : ~ (<<x, span>> \in StrictSubsetOrdering(Nat))
  <2> HIDE DEF spans
  <2> QED
    BY <1>1, WFMin, FS_StrictSubsetOrderingWellFounded
<1>3. PICK n \in T : span = 0..n
  OBVIOUS
<1>4. ASSUME NEW m \in T, m < n
      PROVE  FALSE
  <2>1. 0..m \in SUBSET Nat /\ 0..n \in SUBSET Nat /\ 0..m \subseteq 0..n
    BY <1>4
  <2>2. n \in 0..n /\ n \notin 0..m
    BY <1>4
  <2>3. <<0..m, 0..n>> \in StrictSubsetOrdering(Nat)
    BY <2>1, <2>2, Zenon DEF StrictSubsetOrdering
  <2> QED
    BY <1>2, <1>3, <2>3
<1> QED
  BY <1>4

LEMMA PeriodFields ==
  ASSUME NEW r \in Period
  PROVE  r.start \in Days /\ r.end \in Int /\ EndOf(r.start, r.end)
  BY DEF Period, EndOf

\* ensure_active_period answers with a period that is active, and the others
\* it found do not start later.
LEMMA ChosenActive ==
  ASSUME TypeOK, Active # {}
  PROVE  /\ Chosen \in Active
         /\ \A q \in Active : periods[q].start <= periods[Chosen].start
<1> DEFINE ages == {day - periods[q].start : q \in Active}
<1>1. \A q \in Active : periods[q].start \in Nat /\ q \in Nat /\ q <= MaxPeriods
  <2> SUFFICES ASSUME NEW q \in Active
               PROVE  periods[q].start \in Nat /\ q \in Nat /\ q <= MaxPeriods
    OBVIOUS
  <2>1. q \in PeriodIds /\ periods[q] \in Period
    BY DEF TypeOK, Active
  <2>2. periods[q].start \in Days
    BY <2>1, PeriodFields
  <2>3. periods[q].start \in Nat
    BY <2>2, BudgetAssumption
  <2>4. q \in Nat /\ q <= MaxPeriods
    BY <2>1, BudgetAssumption DEF PeriodIds
  <2> QED
    BY <2>3, <2>4
<1>2. day \in Nat /\ \A q \in Active : periods[q].start <= day
  BY BudgetAssumption DEF TypeOK, Active
<1>3. ages \subseteq Nat /\ ages # {}
  BY <1>1, <1>2
<1>4. PICK age \in ages : \A other \in ages : age <= other
  <2> HIDE DEF ages
  <2> QED
    BY <1>3, LeastNatural
<1> DEFINE latest == {q \in Active : day - periods[q].start = age}
           ranks == {MaxPeriods - q : q \in latest}
<1>5. latest # {} /\ ranks \subseteq Nat /\ ranks # {}
  BY <1>1, <1>4, BudgetAssumption
<1>6. PICK rank \in ranks : \A other \in ranks : rank <= other
  <2> HIDE DEF ranks
  <2> QED
    BY <1>5, LeastNatural
<1>7. PICK q \in latest : rank = MaxPeriods - q
  OBVIOUS
<1>8. \A o \in Active : \/ periods[o].start < periods[q].start
                        \/ periods[o].start = periods[q].start /\ o <= q
  <2> SUFFICES ASSUME NEW o \in Active
               PROVE  \/ periods[o].start < periods[q].start
                      \/ periods[o].start = periods[q].start /\ o <= q
    OBVIOUS
  <2>1. q \in Active /\ day - periods[q].start = age
    OBVIOUS
  <2>2. age <= day - periods[o].start
    BY <1>4
  <2>3. o \in latest => rank <= MaxPeriods - o
    BY <1>6
  <2>4. o \in latest <=> day - periods[o].start = age
    OBVIOUS
  <2> HIDE DEF latest, ranks, ages
  <2> QED
    BY <1>1, <1>2, <1>7, <2>1, <2>2, <2>3, <2>4, BudgetAssumption
<1>9. Chosen \in Active /\ \A o \in Active :
        \/ periods[o].start < periods[Chosen].start
        \/ periods[o].start = periods[Chosen].start /\ o <= Chosen
  BY <1>7, <1>8 DEF Chosen
<1> QED
  BY <1>1, <1>9
---------------------------------------------------------------------------
(* ensure_active_period                                                    *)

\* It found a period, and writes ends that keep every period one.
LEMMA EnsuredFound ==
  ASSUME TypeOK, Active # {}, NEW allowance, NEW e, e = Ensured(allowance)
  PROVE  /\ e.new = NULL /\ e.rows = NoRows
         /\ e.period \in PeriodIds /\ e.period \in Active
         /\ DOMAIN e.ends = Active \ {e.period}
         /\ EndsOK(e)
<1>1. e = [period |-> Chosen, new |-> NULL, rows |-> NoRows,
           ends |-> [q \in Active \ {Chosen} |->
                       Earlier(periods[q].end, periods[Chosen].start - 1)]]
  BY DEF Ensured
<1>2. Chosen \in Active /\ \A q \in Active : periods[q].start <= periods[Chosen].start
  BY ChosenActive
<1>3. ASSUME NEW q \in Active \ {Chosen}
      PROVE  EndOf(periods[q].start, e.ends[q])
  <2>1. periods[q] \in Period /\ periods[Chosen] \in Period
    BY <1>2 DEF TypeOK, Active
  <2>2. /\ periods[q].start \in Days /\ periods[q].end \in Int
        /\ EndOf(periods[q].start, periods[q].end)
        /\ periods[Chosen].start \in Days
    BY <2>1, PeriodFields
  <2>3. periods[q].start \in Nat /\ periods[Chosen].start \in Nat
    BY <2>2, BudgetAssumption
  <2>4. e.ends[q] = Earlier(periods[q].end, periods[Chosen].start - 1)
    BY <1>1
  <2>5. periods[q].start <= periods[Chosen].start
    BY <1>2
  <2>6. PeriodDays \in Nat \ {0}
    BY BudgetAssumption
  <2> QED
    BY <2>2, <2>3, <2>4, <2>5, <2>6 DEF Earlier, EndOf
<1>4. \A q \in Active : q \in PeriodIds /\ periods[q] # NULL
  BY DEF Active
<1> QED
  BY <1>1, <1>2, <1>3, <1>4 DEF EndsOK

\* The rows of a new period: an allocation for each member.
NewRows(allowance) ==
  [slot \in Slots |-> IF slot[1] = nextPeriod /\ slot[2] \in members
                      THEN Allotted(allowance[slot[2]])
                      ELSE Zero]

LEMMA NewRowsOK ==
  ASSUME NEW allowance \in [Persons -> Allowances]
  PROVE  /\ NewRows(allowance) \in [Slots -> Row]
         /\ \A slot \in Slots :
              LET r == NewRows(allowance)[slot]
              IN  /\ r # Zero => slot[1] = nextPeriod
                  /\ r.allowance \in Nat /\ r.debits = 0 /\ r.refunds = 0 /\ r.cut = 0
                  /\ r.allocs <= 1
                  /\ slot[1] = nextPeriod /\ slot[2] \in members =>
                       r.allocs = 1 /\ r.allowance = allowance[slot[2]]
<1>1. ASSUME NEW slot \in Slots
      PROVE  allowance[slot[2]] \in Nat
  BY BudgetAssumption DEF Slots
<1>3. /\ Zero \in Row /\ Zero.allowance = 0 /\ Zero.debits = 0 /\ Zero.refunds = 0
      /\ Zero.cut = 0 /\ Zero.allocs = 0
  BY DEF Zero, Row
<1>4. ASSUME NEW slot \in Slots
      PROVE  LET r == NewRows(allowance)[slot]
             IN  /\ r \in Row
                 /\ r # Zero => slot[1] = nextPeriod
                 /\ r.allowance \in Nat /\ r.debits = 0 /\ r.refunds = 0 /\ r.cut = 0
                 /\ r.allocs <= 1
                 /\ slot[1] = nextPeriod /\ slot[2] \in members =>
                      r.allocs = 1 /\ r.allowance = allowance[slot[2]]
  <2>1. CASE slot[1] = nextPeriod /\ slot[2] \in members
    <3>1. NewRows(allowance)[slot] = Allotted(allowance[slot[2]])
      BY <2>1 DEF NewRows
    <3>2. allowance[slot[2]] \in Nat
      BY <1>1
    <3> QED
      BY <2>1, <3>1, <3>2, AllottedRow
  <2>2. CASE ~ (slot[1] = nextPeriod /\ slot[2] \in members)
    <3>1. NewRows(allowance)[slot] = Zero
      BY <2>2 DEF NewRows
    <3> QED
      BY <1>3, <2>2, <3>1
  <2> QED
    BY <2>1, <2>2
<1> QED
  BY <1>4 DEF NewRows

\* It found none, and makes one.
LEMMA EnsuredMade ==
  ASSUME TypeOK, Active = {}, CanEnsure, NEW allowance, NEW e, e = Ensured(allowance)
  PROVE  /\ e.new # NULL /\ e.new \in NewPeriod
         /\ e.new.id = nextPeriod /\ nextPeriod <= MaxPeriods
         /\ e.new.row = Window
         /\ e.period = nextPeriod /\ e.period \in PeriodIds
         /\ e.rows = NewRows(allowance)
         /\ DOMAIN e.ends = {}
<1>1. e = [period |-> nextPeriod, new |-> [id |-> nextPeriod, row |-> Window],
           rows |-> NewRows(allowance), ends |-> <<>>]
  BY DEF Ensured, NewRows
<1>2. nextPeriod \in PeriodIds /\ nextPeriod <= MaxPeriods
  <2>1. nextPeriod <= MaxPeriods /\ nextPeriod \in 1..(MaxPeriods + 1)
    BY DEF CanEnsure, TypeOK
  <2>2. MaxPeriods \in Nat
    BY BudgetAssumption
  <2> QED
    BY <2>1, <2>2 DEF PeriodIds
<1>3. Window \in Period
  <2>1. day \in Days /\ day \in Nat /\ PeriodDays \in Nat \ {0}
    BY BudgetAssumption DEF TypeOK
  <2> QED
    BY <2>1 DEF Window, Period
<1>4. [id |-> nextPeriod, row |-> Window] \in NewPeriod
  BY <1>2, <1>3 DEF NewPeriod
<1>5. NULL \notin NewPeriod
  BY NullAssumption
<1> QED
  BY <1>1, <1>2, <1>4, <1>5
---------------------------------------------------------------------------
(* A request begins                                                        *)

\* What the request was let through for: a debit for a point that is left, a
\* refund for a debit not refunded yet, an allocation for a person without one.
LetThrough(w) ==
  /\ \A slot \in Slots :
       /\ w.new = NULL /\ w.spend # NULL /\ w.spend.op = "debit" /\ w.spend.slot = slot =>
            Margin(ledger[slot]) >= 1
       /\ w.new = NULL /\ w.rows[slot].allocs # 0 => ledger[slot].allocs = 0
  /\ \A d \in Decisions :
       w.spend # NULL /\ w.spend.op = "refund" /\ w.spend.decision = d =>
         spends[d].refunds < spends[d].debits

\* What a request that makes its period may write.
Making(w) ==
  /\ nextPeriod <= MaxPeriods /\ w.new.id = nextPeriod
  /\ \A slot \in Slots :
       /\ w.rows[slot] # Zero => slot[1] = w.new.id
       /\ Margin(w.rows[slot]) >= 0
       /\ w.rows[slot].allocs <= 1

BeginOK(s, w) ==
  /\ Begin(s, w) /\ policies' \in 0..MaxPolicies
  /\ WritesOK(w) /\ EndsOK(w) /\ SpendOK(w)
  /\ IF w.new = NULL THEN nextPeriod' = nextPeriod /\ FoundOK(w)
     ELSE nextPeriod' = nextPeriod + 1 /\ Making(w)

LEMMA BeginTyped ==
  ASSUME TypeOK, NEW s, NEW w, BeginOK(s, w)
  PROVE  TypeOK'
<1>1. nextPeriod' \in 1..(MaxPeriods + 1)
  BY BudgetAssumption DEF TypeOK, BeginOK, Making
<1>2. rivals' \in Nat
  BY SessionSets DEF TypeOK, BeginOK, Begin
<1> QED
  BY <1>1, <1>2 DEF TypeOK, BeginOK, Begin

\* One request more is in progress, and the most there were is counted anew.
LEMMA BeginCrowd ==
  ASSUME TypeOK, SessionsOK, CrowdInv, NEW s \in Sessions, NEW w, BeginOK(s, w)
  PROVE  /\ CrowdInv' /\ Overlap \in Nat /\ Overlap' \in Nat /\ Overlap' >= Overlap
         /\ InProgress' \subseteq Sessions
         /\ \A S : S \subseteq InProgress' =>
              Cardinality(S) \in Nat /\ Cardinality(S) <= Overlap'
<1> DEFINE crowd == InProgress \cup {s}
<1>1. /\ session[s] = NULL /\ session' = [session EXCEPT ![s] = w]
      /\ rivals' = IF Cardinality(InProgress) > rivals THEN Cardinality(InProgress) ELSE rivals
  BY DEF BeginOK, Begin, InProgress, Pending
<1>2. \A t \in Sessions \ {s} : session'[t] = session[t]
  BY <1>1 DEF SessionsOK
<1>3. InProgress' \subseteq crowd /\ s \notin InProgress /\ InProgress \subseteq Sessions
  BY <1>1, <1>2 DEF InProgress, Pending
<1>4. IsFiniteSet(InProgress) /\ Cardinality(InProgress) \in Nat
  BY <1>3, SessionSets
<1>5. crowd \subseteq Sessions /\ Cardinality(crowd) = Cardinality(InProgress) + 1
  BY <1>3, <1>4, FS_AddElement
<1>6. rivals \in Nat
  BY DEF TypeOK
<1>7. rivals' \in Nat /\ rivals' >= rivals /\ rivals' >= Cardinality(InProgress)
  BY <1>1, <1>4, <1>6
<1>8. /\ Overlap \in Nat /\ Overlap' \in Nat /\ Overlap' >= Overlap
      /\ Cardinality(crowd) <= Overlap'
  <2> HIDE DEF crowd
  <2>1. Overlap = rivals + 1 /\ Overlap' = rivals' + 1
    BY DEF Overlap
  <2>2. PICK now \in Nat, then \in Nat, others \in Nat :
          now = rivals /\ then = rivals' /\ others = Cardinality(InProgress)
    BY <1>4, <1>6, <1>7
  <2>3. then >= now /\ then >= others
    BY <1>7, <2>2
  <2>4. /\ now + 1 \in Nat /\ then + 1 \in Nat
        /\ then + 1 >= now + 1 /\ others + 1 <= then + 1
    BY <2>3
  <2>5. Overlap = now + 1
    BY <2>1, <2>2
  <2>6. Overlap' = then + 1
    BY <2>1, <2>2
  <2>7. Cardinality(crowd) = others + 1
    BY <1>5, <2>2
  <2> QED
    BY <2>4, <2>5, <2>6, <2>7
<1>10. \A S : S \subseteq crowd => Cardinality(S) \in Nat /\ Cardinality(S) <= Overlap'
  <2> HIDE DEF crowd
  <2> QED
    BY <1>5, <1>8, FewSessions
<1>11. Cardinality(InProgress') <= Overlap'
  BY <1>3, <1>10
<1>12. CrowdInv'
  <2>1. Cardinality(InProgress)' = Cardinality(InProgress')
    BY DEF InProgress, Pending
  <2> QED
    BY <1>11, <2>1 DEF CrowdInv
<1> QED
  BY <1>3, <1>5, <1>8, <1>10, <1>12

\* What one request is about to write stays right while others add periods and
\* move their ends.
LEMMA SessionStays ==
  ASSUME TypeOK, NEW w, SessionOK(w), nextPeriod' \in {nextPeriod, nextPeriod + 1},
         \A q \in PeriodIds :
           periods[q] # NULL => periods'[q] # NULL /\ periods'[q].start = periods[q].start,
         w.new # NULL => periods'[w.new.id] = NULL
  PROVE  SessionOK(w)'
<1>1. WritesOK(w)'
  BY DEF SessionOK, WritesOK
<1>2. EndsOK(w)'
  BY DEF SessionOK, EndsOK
<1>3. w.spend # NULL => w.spend.slot[1] \in PeriodIds
  BY DEF SessionOK, WritesOK, Spending, Slots
<1>4. SpendOK(w)'
  BY <1>3 DEF SessionOK, SpendOK
<1>5. CASE w.new = NULL
  <2>1. FoundOK(w)'
    BY <1>5 DEF SessionOK, FoundOK, Slots
  <2> QED
    BY <1>1, <1>2, <1>4, <1>5, <2>1 DEF SessionOK
<1>6. CASE w.new # NULL
  <2>1. nextPeriod \in Nat /\ w.new.id \in Nat
    BY <1>6, BudgetAssumption DEF TypeOK, SessionOK, WritesOK, NewPeriod, PeriodIds
  <2>2. MadeOK(w)'
    BY <1>6, <2>1 DEF SessionOK, MadeOK
  <2> QED
    BY <1>1, <1>2, <1>4, <1>6, <2>2 DEF SessionOK
<1> QED
  BY <1>5, <1>6

LEMMA BeginSessions ==
  ASSUME TypeOK, SessionsOK, UnmadeUnused, NEW s \in Sessions, NEW w, BeginOK(s, w)
  PROVE  SessionsOK'
<1>1. /\ session[s] = NULL /\ session' = [session EXCEPT ![s] = w]
      /\ periods' = periods
  BY DEF BeginOK, Begin
<1>2. nextPeriod \in Nat /\ nextPeriod' \in {nextPeriod, nextPeriod + 1}
  BY BudgetAssumption DEF TypeOK, BeginOK
<1>3. session' = [t \in Sessions |-> session'[t]]
  BY <1>1 DEF SessionsOK
<1>4. SessionOK(w)'
  <2>1. WritesOK(w)' /\ EndsOK(w)' /\ SpendOK(w)'
    BY <1>1 DEF BeginOK, WritesOK, EndsOK, SpendOK
  <2>2. CASE w.new = NULL
    BY <1>1, <2>1, <2>2 DEF BeginOK, FoundOK, SessionOK
  <2>3. CASE w.new # NULL
    <3>1. Making(w) /\ nextPeriod' = nextPeriod + 1
      BY <2>3 DEF BeginOK
    <3>2. nextPeriod \in PeriodIds
      BY <3>1, BudgetAssumption DEF Making, TypeOK, PeriodIds
    <3>3. periods[nextPeriod] = NULL
      BY <1>2, <3>2 DEF UnmadeUnused
    <3>4. w.new.id < nextPeriod' /\ periods'[w.new.id] = NULL
      BY <1>1, <1>2, <3>1, <3>3 DEF Making
    <3>5. MadeOK(w)'
      BY <3>1, <3>4 DEF MadeOK, Making
    <3> QED
      BY <2>1, <2>3, <3>5 DEF SessionOK
  <2> QED
    BY <2>2, <2>3
<1>5. ASSUME NEW v, NEW t \in Sessions \ {s}, v = session[t], v # NULL
      PROVE  SessionOK(v)'
  <2>1. SessionOK(v)
    BY <1>5 DEF SessionsOK, Pending
  <2>2. v.new # NULL => periods'[v.new.id] = NULL
    BY <1>1, <2>1 DEF SessionOK, MadeOK
  <2> QED
    BY <1>1, <1>2, <2>1, <2>2, SessionStays
<1>6. ASSUME NEW t \in Sessions, session'[t] # NULL
      PROVE  SessionOK(session[t])'
  <2>1. CASE t = s
    <3>1. session'[t] = w
      BY <1>1, <2>1 DEF SessionsOK
    <3> QED
      BY <1>4, <3>1
  <2>2. CASE t # s
    <3>1. session'[t] = session[t]
      BY <1>1, <2>2 DEF SessionsOK
    <3> QED
      BY <1>5, <1>6, <2>2, <3>1
  <2> QED
    BY <2>1, <2>2
<1> QED
  BY <1>3, <1>6 DEF SessionsOK, Pending

LEMMA BeginApart ==
  ASSUME TypeOK, SessionsOK, MadeApart, UnmadeUnused, NEW s \in Sessions, NEW w,
         BeginOK(s, w)
  PROVE  MadeApart' /\ UnmadeUnused'
<1>1. /\ session[s] = NULL /\ session' = [session EXCEPT ![s] = w]
      /\ periods' = periods /\ ledger' = ledger /\ spends' = spends
  BY DEF BeginOK, Begin
<1>2. nextPeriod \in Nat /\ nextPeriod' \in {nextPeriod, nextPeriod + 1}
  BY BudgetAssumption DEF TypeOK, BeginOK
<1>3. \A t \in Sessions \ {s} : session'[t] = session[t]
  BY <1>1 DEF SessionsOK
<1>4. session'[s] = w
  BY <1>1 DEF SessionsOK
<1>5. w.new # NULL => w.new.id = nextPeriod
  BY DEF BeginOK, Making
<1>6. ASSUME NEW t \in Sessions, Pending(t), session[t].new # NULL
      PROVE  session[t].new.id < nextPeriod
  BY <1>6 DEF SessionsOK, SessionOK, MadeOK
<1>7. MadeApart'
  <2> SUFFICES ASSUME NEW t \in Sessions, NEW u \in Sessions, t # u,
                      session'[t] # NULL, session'[u] # NULL,
                      session'[t].new # NULL, session'[u].new # NULL
               PROVE  session'[t].new.id # session'[u].new.id
    BY DEF MadeApart, Pending
  <2>1. CASE t # s /\ u # s
    BY <1>3, <2>1 DEF MadeApart, Pending
  <2>2. CASE t = s
    <3>1. session'[t].new.id = nextPeriod /\ session'[u].new.id < nextPeriod
      BY <1>3, <1>4, <1>5, <1>6, <2>2 DEF Pending
    <3> QED
      BY <1>2, <3>1
  <2>3. CASE u = s
    <3>1. session'[u].new.id = nextPeriod /\ session'[t].new.id < nextPeriod
      BY <1>3, <1>4, <1>5, <1>6, <2>3 DEF Pending
    <3> QED
      BY <1>2, <3>1
  <2> QED
    BY <2>1, <2>2, <2>3
<1>8. UnmadeUnused'
  <2>1. ASSUME NEW q \in PeriodIds, q >= nextPeriod'
        PROVE  q >= nextPeriod
    BY <1>2, <2>1, BudgetAssumption DEF PeriodIds
  <2> QED
    BY <1>1, <2>1 DEF UnmadeUnused
<1> QED
  BY <1>7, <1>8
\* Only a request that was let through joins those that are about to write.
LEMMA BeginCounts ==
  ASSUME Structure, CrowdInv, OverdraftInv, RefundInv, AllocInv, NEW s \in Sessions, NEW w,
         BeginOK(s, w), LetThrough(w)
  PROVE  OverdraftInv' /\ RefundInv' /\ AllocInv'
<1>1. /\ session[s] = NULL /\ session' = [session EXCEPT ![s] = w]
      /\ ledger' = ledger /\ spends' = spends
  BY DEF BeginOK, Begin
<1>2. /\ session'[s] = w
      /\ \A t \in Sessions \ {s} : session'[t] = session[t]
  BY <1>1 DEF Structure, SessionsOK
<1>0. /\ Overlap \in Nat /\ Overlap' \in Nat /\ Overlap' >= Overlap
      /\ \A S : S \subseteq InProgress' =>
           Cardinality(S) \in Nat /\ Cardinality(S) <= Overlap'
  BY BeginCrowd DEF Structure
<1>3. ASSUME NEW slot \in Slots
      PROVE  (Margin(ledger[slot]) - Cardinality(Debtors(slot)) >= 1 - Overlap)'
  <2>1. ledger[slot] \in Row /\ Margin(ledger[slot]) \in Int /\ ledger'[slot] = ledger[slot]
    BY <1>1, MarginPlus DEF Structure, TypeOK
  <2>2. /\ Debtors(slot)' \subseteq InProgress'
        /\ Cardinality(Debtors(slot)') \in Nat /\ Cardinality(Debtors(slot)') <= Overlap'
    <3>1. Debtors(slot)' \subseteq InProgress'
      BY DEF Debtors, Debits, InProgress
    <3> QED
      BY <1>0, <3>1
  <2>3. CASE s \in Debtors(slot)'
    <3>1. Margin(ledger[slot]) >= 1
      BY <1>2, <2>3 DEF Debtors, Debits, Pending, LetThrough
    <3>2. Cardinality(Debtors(slot)') \in Nat /\ Cardinality(Debtors(slot)') <= Overlap'
      BY <2>2
    <3>3. Margin(ledger'[slot]) - Cardinality(Debtors(slot)') >= 1 - Overlap'
      BY <1>0, <2>1, <3>1, <3>2
    <3> QED
      BY <3>3 DEF Margin, Remaining
  <2>4. CASE s \notin Debtors(slot)'
    <3>1. Debtors(slot)' = Debtors(slot)
      BY <1>1, <1>2, <2>4 DEF Debtors, Debits, Pending
    <3> QED
      BY <1>0, <2>1, <2>2, <3>1 DEF OverdraftInv, Margin, Remaining
  <2> QED
    BY <2>3, <2>4
<1>4. ASSUME NEW d \in Decisions
      PROVE  (spends[d].refunds - spends[d].debits + Cardinality(Refunders(d)) <= Overlap - 1)'
  <2>1. spends[d].refunds \in Nat /\ spends[d].debits \in Nat /\ spends'[d] = spends[d]
    BY <1>1 DEF Structure, TypeOK, Spend
  <2>2. /\ Refunders(d)' \subseteq InProgress'
        /\ Cardinality(Refunders(d)') \in Nat /\ Cardinality(Refunders(d)') <= Overlap'
    <3>1. Refunders(d)' \subseteq InProgress'
      BY DEF Refunders, Refunds, InProgress
    <3> QED
      BY <1>0, <3>1
  <2>3. CASE s \in Refunders(d)'
    <3>1. spends[d].refunds < spends[d].debits
      BY <1>2, <2>3 DEF Refunders, Refunds, Pending, LetThrough
    <3>2. Cardinality(Refunders(d)') \in Nat /\ Cardinality(Refunders(d)') <= Overlap'
      BY <2>2
    <3> QED
      BY <1>0, <2>1, <3>1, <3>2
  <2>4. CASE s \notin Refunders(d)'
    <3>1. Refunders(d)' = Refunders(d)
      BY <1>1, <1>2, <2>4 DEF Refunders, Refunds, Pending
    <3> QED
      BY <1>0, <2>1, <2>2, <3>1 DEF RefundInv
  <2> QED
    BY <2>3, <2>4
<1>5. ASSUME NEW slot \in Slots
      PROVE  (ledger[slot].allocs + Cardinality(Allocators(slot)) <= Overlap)'
  <2>1. ledger[slot].allocs \in Nat /\ ledger'[slot] = ledger[slot]
    BY <1>1 DEF Structure, TypeOK, Row
  <2>2. /\ Allocators(slot)' \subseteq InProgress'
        /\ Cardinality(Allocators(slot)') \in Nat /\ Cardinality(Allocators(slot)') <= Overlap'
    <3>1. Allocators(slot)' \subseteq InProgress'
      BY DEF Allocators, Allocates, InProgress
    <3> QED
      BY <1>0, <3>1
  <2>3. CASE s \in Allocators(slot)'
    <3>1. ledger[slot].allocs = 0
      BY <1>2, <2>3 DEF Allocators, Allocates, Pending, LetThrough
    <3>2. Cardinality(Allocators(slot)') \in Nat /\ Cardinality(Allocators(slot)') <= Overlap'
      BY <2>2
    <3> QED
      BY <1>0, <2>1, <3>1, <3>2
  <2>4. CASE s \notin Allocators(slot)'
    <3>1. Allocators(slot)' = Allocators(slot)
      BY <1>1, <1>2, <2>4 DEF Allocators, Allocates, Pending
    <3> QED
      BY <1>0, <2>1, <2>2, <3>1 DEF AllocInv
  <2> QED
    BY <2>3, <2>4
<1> QED
  BY <1>3, <1>4, <1>5 DEF OverdraftInv, RefundInv, AllocInv

LEMMA BeginStep ==
  ASSUME IInv, NEW s \in Sessions, NEW w, BeginOK(s, w), LetThrough(w)
  PROVE  IInv'
  BY BeginTyped, BeginSessions, BeginApart, BeginCrowd, BeginCounts DEF IInv, Structure
---------------------------------------------------------------------------
(* A request commits                                                       *)

\* What COMMIT does to periods: one is made, ends move, none goes.
LEMMA CommitPeriodsOK ==
  ASSUME TypeOK, NEW w, SessionOK(w), CommitPeriods(w)
  PROVE  /\ periods' \in [PeriodIds -> Period \cup {NULL}]
         /\ \A q \in PeriodIds :
              /\ periods[q] # NULL => periods'[q] # NULL /\ periods'[q].start = periods[q].start
              /\ periods[q] = NULL /\ ~(w.new # NULL /\ w.new.id = q) => periods'[q] = NULL
              /\ w.new # NULL /\ w.new.id = q => periods'[q] # NULL
<1>1. ASSUME NEW q \in PeriodIds
      PROVE  /\ periods'[q] \in Period \cup {NULL}
             /\ periods[q] # NULL => periods'[q] # NULL /\ periods'[q].start = periods[q].start
             /\ periods[q] = NULL /\ ~(w.new # NULL /\ w.new.id = q) => periods'[q] = NULL
             /\ w.new # NULL /\ w.new.id = q => periods'[q] # NULL
  <2>1. NULL \notin Period
    BY NullAssumption
  <2>2. CASE w.new # NULL /\ w.new.id = q
    <3>1. periods'[q] = w.new.row /\ w.new.row \in Period
      BY <2>2 DEF CommitPeriods, SessionOK, WritesOK, NewPeriod
    <3>2. periods[q] = NULL
      BY <2>2 DEF SessionOK, MadeOK
    <3> QED
      BY <2>1, <2>2, <3>1, <3>2
  <2>3. CASE ~(w.new # NULL /\ w.new.id = q) /\ q \in DOMAIN w.ends
    <3> DEFINE end == w.ends[q]
    <3>1. periods'[q] = [periods[q] EXCEPT !.end = end]
      BY <2>3 DEF CommitPeriods
    <3>2. periods[q] # NULL /\ periods[q] \in Period /\ EndOf(periods[q].start, end)
      BY <2>3 DEF SessionOK, EndsOK, TypeOK
    <3> HIDE DEF end
    <3>3. periods[q].start \in Days /\ end \in Int
          /\ end - periods[q].start \in -1..(PeriodDays - 1)
      BY <3>2 DEF EndOf, Period
    <3>4. periods'[q] = [start |-> periods[q].start, end |-> end]
      BY <3>1, <3>2 DEF Period
    <3>5. periods'[q] \in Period
      BY <3>3, <3>4 DEF Period
    <3> QED
      BY <2>1, <2>3, <3>2, <3>4, <3>5
  <2>4. CASE ~(w.new # NULL /\ w.new.id = q) /\ q \notin DOMAIN w.ends
    <3>1. periods'[q] = periods[q] /\ periods[q] \in Period \cup {NULL}
      BY <2>4 DEF CommitPeriods, TypeOK
    <3> QED
      BY <2>4, <3>1
  <2> QED
    BY <2>2, <2>3, <2>4
<1> QED
  BY <1>1 DEF CommitPeriods

LEMMA SpentFields ==
  ASSUME NEW x \in Spend, NEW w, w.slot \in Slots
  PROVE  /\ Spent(x, w) \in Spend
         /\ w.op = "debit" => /\ Spent(x, w).debits = x.debits + 1
                              /\ Spent(x, w).refunds = x.refunds
         /\ w.op # "debit" => /\ Spent(x, w).debits = x.debits
                              /\ Spent(x, w).refunds = x.refunds + 1
         /\ \A slot \in Spent(x, w).slots : slot \in x.slots \/ slot = w.slot
<1>1. CASE w.op = "debit"
  <2>1. Spent(x, w) = [debits |-> x.debits + 1, refunds |-> x.refunds,
                       slots |-> x.slots \cup {w.slot}]
    BY <1>1 DEF Spent
  <2> QED
    BY <1>1, <2>1 DEF Spend
<1>2. CASE w.op # "debit"
  <2>1. Spent(x, w) = [debits |-> x.debits, refunds |-> x.refunds + 1, slots |-> x.slots]
    BY <1>2 DEF Spent
  <2> QED
    BY <1>2, <2>1 DEF Spend
<1> QED
  BY <1>1, <1>2

LEMMA CommitTyped ==
  ASSUME Structure, NEW s \in Sessions, Commit(s)
  PROVE  TypeOK'
<1> DEFINE w == session[s]
<1>1. /\ SessionOK(w) /\ CommitPeriods(w) /\ CommitLedger(w) /\ CommitItem(w)
      /\ policy' = IF w.policy = NULL THEN policy ELSE w.policy
      /\ UNCHANGED <<day, members, nextPeriod, policies, rivals>>
  BY DEF Commit, Structure, SessionsOK, Pending
<1> HIDE DEF w
<1>2. TypeOK /\ WritesOK(w)
  BY <1>1 DEF Structure, SessionOK
<1>3. periods' \in [PeriodIds -> Period \cup {NULL}]
  BY <1>1, <1>2, CommitPeriodsOK
<1>4. ledger' \in [Slots -> Row]
  <2>1. \A slot \in Slots : Plus(ledger[slot], w.rows[slot]) \in Row
    BY <1>2, PlusRow DEF TypeOK, WritesOK
  <2> QED
    BY <1>1, <2>1 DEF CommitLedger
<1>5. spends' \in [Decisions -> Spend]
  <2>1. CASE w.spend = NULL
    BY <1>1, <1>2, <2>1 DEF CommitLedger, TypeOK
  <2>2. CASE w.spend # NULL
    <3> DEFINE d == w.spend.decision
               y == Spent(spends[d], w.spend)
    <3>1. d \in Decisions /\ w.spend.slot \in Slots
      BY <1>2, <2>2 DEF WritesOK, Spending
    <3>2. spends' = [spends EXCEPT ![d] = y]
      BY <1>1, <2>2 DEF CommitLedger
    <3>3. spends[d] \in Spend
      BY <1>2, <3>1 DEF TypeOK
    <3>4. y \in Spend
      BY <3>1, <3>3, SpentFields
    <3> HIDE DEF y
    <3> QED
      BY <1>2, <3>1, <3>2, <3>4 DEF TypeOK
  <2> QED
    BY <2>1, <2>2
<1>6. items' \in [1..MaxItems -> Item \cup {NULL}] /\ nextItem' \in 1..(MaxItems + 1)
  <2>1. CASE w.item = NULL /\ UNCHANGED <<items, nextItem>>
    BY <1>2, <2>1 DEF TypeOK
  <2>2. CASE w.item # NULL /\ w.item.op = "add" /\ nextItem <= MaxItems
             /\ AddItem(w.item.decision)
    <3>1. w.item.decision \in Decisions
      BY <1>2, <2>2 DEF WritesOK, ItemChange
    <3>2. [decision |-> w.item.decision, done |-> FALSE] \in Item
      BY <3>1 DEF Item
    <3> QED
      BY <1>2, <2>2, <3>2, BudgetAssumption DEF AddItem, TypeOK
  <2>3. CASE items' = [items EXCEPT ![w.item.id] = NULL] /\ UNCHANGED nextItem
    BY <1>2, <2>3 DEF TypeOK
  <2> QED
    BY <1>1, <2>1, <2>2, <2>3 DEF CommitItem
<1>7. policy' \in [Persons -> Allowances]
  BY <1>1, <1>2 DEF WritesOK, TypeOK
<1> QED
  BY <1>1, <1>2, <1>3, <1>4, <1>5, <1>6, <1>7 DEF TypeOK

LEMMA CommitSessions ==
  ASSUME Structure, NEW s \in Sessions, Commit(s)
  PROVE  SessionsOK' /\ MadeApart'
<1> DEFINE w == session[s]
<1>1. /\ w # NULL /\ SessionOK(w) /\ CommitPeriods(w)
      /\ session' = [session EXCEPT ![s] = NULL]
      /\ nextPeriod' = nextPeriod
  BY DEF Commit, Structure, SessionsOK, Pending
<1>2. /\ session' = [t \in Sessions |-> session'[t]]
      /\ session'[s] = NULL
      /\ \A t \in Sessions \ {s} : session'[t] = session[t]
  BY <1>1 DEF Structure, SessionsOK
<1>3. ASSUME NEW v, NEW t \in Sessions \ {s}, v = session[t], v # NULL
      PROVE  SessionOK(v)'
  <2>1. SessionOK(v)
    BY <1>3 DEF Structure, SessionsOK, Pending
  <2>2. v.new # NULL => periods'[v.new.id] = NULL
    <3> SUFFICES ASSUME v.new # NULL
                 PROVE  periods'[v.new.id] = NULL
      OBVIOUS
    <3>1. periods[v.new.id] = NULL /\ v.new.id \in PeriodIds
      BY <2>1 DEF SessionOK, WritesOK, MadeOK, NewPeriod
    <3>2. ~(w.new # NULL /\ w.new.id = v.new.id)
      BY <1>1, <1>3 DEF Structure, MadeApart, Pending
    <3> QED
      BY <1>1, <3>1, <3>2, CommitPeriodsOK DEF Structure
  <2> QED
    BY <1>1, <2>1, <2>2, CommitPeriodsOK, SessionStays DEF Structure
<1>4. ASSUME NEW t \in Sessions, session'[t] # NULL
      PROVE  SessionOK(session[t])'
  <2>1. t # s
    BY <1>2, <1>4
  <2>2. session'[t] = session[t]
    BY <1>2, <2>1
  <2> QED
    BY <1>3, <1>4, <2>1, <2>2
<1>5. MadeApart'
  BY <1>2 DEF Structure, MadeApart, Pending
<1> QED
  BY <1>2, <1>4, <1>5 DEF SessionsOK, Pending

\* What a commit writes to the ledger is in periods that are there afterwards.
LEMMA CommitUnmade ==
  ASSUME Structure, NEW s \in Sessions, Commit(s)
  PROVE  UnmadeUnused'
<1> DEFINE w == session[s]
<1>1. /\ w # NULL /\ SessionOK(w) /\ CommitPeriods(w) /\ CommitLedger(w)
      /\ nextPeriod' = nextPeriod
  BY DEF Commit, Structure, SessionsOK, Pending
<1> HIDE DEF w
<1>2. TypeOK /\ UnmadeUnused
  BY DEF Structure
<1>3. ASSUME NEW q \in PeriodIds, q >= nextPeriod
      PROVE  periods'[q] = NULL
  <2>1. periods[q] = NULL
    BY <1>2, <1>3 DEF UnmadeUnused
  <2>2. ~(w.new # NULL /\ w.new.id = q)
    BY <1>1, <1>2, <1>3, BudgetAssumption DEF SessionOK, MadeOK, TypeOK, PeriodIds
  <2> QED
    BY <1>1, <1>2, <2>1, <2>2, CommitPeriodsOK
<1>4. ASSUME NEW q \in PeriodIds, periods'[q] = NULL, NEW p \in Persons
      PROVE  /\ ledger'[<<q, p>>] = Zero
             /\ \A d \in Decisions : <<q, p>> \notin spends'[d].slots
  <2> DEFINE slot == <<q, p>>
  <2>1. periods[q] = NULL /\ ~(w.new # NULL /\ w.new.id = q)
    BY <1>1, <1>2, <1>4, CommitPeriodsOK
  <2>2. slot \in Slots /\ slot[1] = q
    BY DEF Slots
  <2>3. w.rows[slot] = Zero
    BY <1>1, <2>1, <2>2 DEF SessionOK, FoundOK, MadeOK
  <2>4. ledger[slot] = Zero /\ \A d \in Decisions : slot \notin spends[d].slots
    BY <1>2, <2>1 DEF UnmadeUnused
  <2>5. ledger'[slot] = Plus(Zero, Zero)
    BY <1>1, <2>2, <2>3, <2>4 DEF CommitLedger
  <2>6. w.spend # NULL => w.spend.slot # slot
    BY <1>1, <2>1, <2>2 DEF SessionOK, SpendOK
  <2>7. \A d \in Decisions : slot \notin spends'[d].slots
    <3> SUFFICES ASSUME NEW d \in Decisions
                 PROVE  slot \notin spends'[d].slots
      OBVIOUS
    <3>1. spends[d] \in Spend /\ slot \notin spends[d].slots
      BY <1>2, <2>4 DEF TypeOK
    <3> HIDE DEF slot
    <3>2. CASE w.spend # NULL /\ w.spend.decision = d
      <4>1. spends'[d] = Spent(spends[d], w.spend) /\ w.spend.slot \in Slots
        BY <1>1, <1>2, <3>2 DEF CommitLedger, TypeOK, SessionOK, WritesOK, Spending
      <4> QED
        BY <2>6, <3>1, <3>2, <4>1, SpentFields
    <3>3. CASE ~(w.spend # NULL /\ w.spend.decision = d)
      <4>1. spends'[d] = spends[d]
        BY <1>1, <1>2, <3>3 DEF CommitLedger, TypeOK
      <4> QED
        BY <3>1, <4>1
    <3> QED
      BY <3>2, <3>3
  <2> QED
    BY <2>5, <2>7, PlusZero, ZeroRow
<1> QED
  BY <1>1, <1>3, <1>4 DEF UnmadeUnused
\* A request that ends leaves room for another.
LEMMA CrowdLeaves ==
  ASSUME TypeOK, CrowdInv, NEW s \in Sessions, UNCHANGED rivals, session'[s] = NULL,
         \A t \in Sessions \ {s} : session'[t] = session[t]
  PROVE  /\ CrowdInv' /\ Overlap \in Nat \ {0} /\ Overlap' = Overlap
         /\ \A S : S \subseteq InProgress => Cardinality(S) \in Nat /\ Cardinality(S) <= Overlap
         /\ Pending(s) => \A S : S \subseteq InProgress \ {s} => Cardinality(S) <= Overlap - 1
<1>1. Overlap \in Nat \ {0} /\ Overlap' = Overlap
  BY OverlapNat DEF Overlap
<1>2. InProgress \subseteq Sessions /\ InProgress' \subseteq InProgress \ {s}
  BY DEF InProgress, Pending
<1>3. \A S : S \subseteq InProgress => Cardinality(S) \in Nat /\ Cardinality(S) <= Overlap
  BY <1>1, <1>2, FewSessions DEF CrowdInv
<1>4. ASSUME Pending(s), NEW S, S \subseteq InProgress \ {s}
      PROVE  Cardinality(S) <= Overlap - 1
  <2>1. s \in InProgress
    BY <1>4 DEF InProgress
  <2> QED
    BY <1>1, <1>2, <1>4, <2>1, FewSessions DEF CrowdInv
<1>5. CrowdInv'
  <2>1. Cardinality(InProgress') <= Overlap
    BY <1>2, <1>3
  <2>2. Cardinality(InProgress)' = Cardinality(InProgress')
    BY DEF InProgress, Pending
  <2> QED
    BY <1>1, <2>1, <2>2 DEF CrowdInv
<1> QED
  BY <1>1, <1>3, <1>4, <1>5

\* What a session was counted for it now has written.
LEMMA CommitCounts ==
  ASSUME IInv, NEW s \in Sessions, Commit(s)
  PROVE  CrowdInv' /\ OverdraftInv' /\ RefundInv' /\ AllocInv'
<1> DEFINE w == session[s]
<1>1. /\ w # NULL /\ SessionOK(w) /\ CommitLedger(w)
      /\ session' = [session EXCEPT ![s] = NULL] /\ rivals' = rivals
  BY DEF Commit, IInv, Structure, SessionsOK, Pending
<1>2. /\ TypeOK /\ UnmadeUnused /\ WritesOK(w)
      /\ session'[s] = NULL
      /\ \A t \in Sessions \ {s} : session'[t] = session[t]
  BY <1>1 DEF IInv, Structure, SessionsOK, SessionOK
<1>0. /\ CrowdInv' /\ Overlap \in Nat \ {0} /\ Overlap' = Overlap
      /\ \A S : S \subseteq InProgress \ {s} => Cardinality(S) <= Overlap - 1
  BY <1>1, <1>2, CrowdLeaves DEF IInv, Pending
<1>3. ASSUME NEW slot \in Slots
      PROVE  /\ ledger[slot] \in Row /\ w.rows[slot] \in Row
             /\ ledger'[slot] = Plus(ledger[slot], w.rows[slot])
             /\ Debtors(slot) \subseteq Sessions /\ Debtors(slot)' \subseteq Sessions
             /\ s \notin Debtors(slot)'
             /\ \A t \in Sessions \ {s} : t \in Debtors(slot)' <=> t \in Debtors(slot)
             /\ Allocators(slot) \subseteq Sessions /\ Allocators(slot)' \subseteq Sessions
             /\ s \notin Allocators(slot)'
             /\ \A t \in Sessions \ {s} : t \in Allocators(slot)' <=> t \in Allocators(slot)
  BY <1>1, <1>2 DEF CommitLedger, TypeOK, WritesOK, Debtors, Allocators, Debits, Allocates,
                    Pending
<1>4. ASSUME NEW slot \in Slots, w.new # NULL, slot[1] = w.new.id
      PROVE  ledger[slot] = Zero
  <2>1. periods[slot[1]] = NULL /\ slot[1] \in PeriodIds /\ slot = <<slot[1], slot[2]>>
        /\ slot[2] \in Persons
    BY <1>1, <1>4 DEF SessionOK, MadeOK, Slots
  <2> QED
    BY <1>2, <2>1 DEF UnmadeUnused
<1>5. ASSUME NEW slot \in Slots
      PROVE  (Margin(ledger[slot]) - Cardinality(Debtors(slot)) >= 1 - Overlap)'
  <2> DEFINE new == ledger'[slot]
             old == ledger[slot]
             row == w.rows[slot]
             before == Cardinality(Debtors(slot))
             after == Cardinality(Debtors(slot)')
  <2> SUFFICES Margin(new) - after >= 1 - Overlap
    BY <1>0 DEF Margin, Remaining
  <2>1. /\ old \in Row /\ row \in Row /\ new = Plus(old, row)
        /\ Margin(old) - before >= 1 - Overlap
    BY <1>3 DEF IInv, OverdraftInv
  <2>2. after \in Nat /\ before \in Nat /\ after <= Overlap - 1 /\ Overlap \in Nat
    <3>1. Debtors(slot)' \subseteq InProgress \ {s}
      BY <1>2, <1>3 DEF Debtors, Debits, InProgress, Pending
    <3> QED
      BY <1>0, <1>3, <3>1, SessionSets
  <2>3. /\ s \in Debtors(slot) => after = before - 1
        /\ s \notin Debtors(slot) => after = before
    BY <1>3, OneSession
  <2>4. /\ Margin(old) \in Int /\ Margin(row) \in Int
        /\ Margin(new) >= Margin(old) + row.allowance + row.cut - row.debits
        /\ row.allowance \in Int /\ row.cut \in Int /\ row.debits \in Int /\ Margin(new) \in Int
    <3> HIDE DEF new, old, row, before, after
    <3>1. new \in Row
      BY <2>1, PlusRow
    <3>2. Margin(old) \in Int /\ Margin(row) \in Int /\ Margin(new) \in Int
      BY <2>1, <3>1, MarginPlus
    <3>3. Margin(new) >= Margin(old) + row.allowance + row.cut - row.debits
      BY <2>1, MarginPlus
    <3>4. row.allowance \in Int /\ row.cut \in Int /\ row.debits \in Int
      BY <2>1 DEF Row
    <3> QED
      BY <3>2, <3>3, <3>4
  <2>5. CASE w.new = NULL /\ s \in Debtors(slot)
    <3>1. row.debits = 1 /\ row.allowance + row.cut >= 0
      BY <1>1, <2>5 DEF SessionOK, FoundOK, Debtors, Debits
    <3> HIDE DEF new, old, row, before, after
    <3> QED
      BY <2>1, <2>2, <2>3, <2>4, <2>5, <3>1
  <2>6. CASE w.new = NULL /\ s \notin Debtors(slot)
    <3>1. row.debits = 0 /\ row.allowance + row.cut >= 0
      BY <1>1, <2>6 DEF SessionOK, FoundOK, Debtors, Debits, Pending
    <3> HIDE DEF new, old, row, before, after
    <3> QED
      BY <2>1, <2>2, <2>3, <2>4, <2>6, <3>1
  <2>7. CASE w.new # NULL /\ slot[1] = w.new.id
    <3>1. old = Zero /\ Margin(row) >= 0
      BY <1>1, <1>4, <2>7 DEF SessionOK, MadeOK
    <3>2. new = row
      BY <2>1, <3>1, PlusZero
    <3> HIDE DEF new, old, row, before, after
    <3> QED
      BY <2>2, <2>4, <3>1, <3>2
  <2>8. CASE w.new # NULL /\ slot[1] # w.new.id
    <3>1. row = Zero
      BY <1>1, <2>8 DEF SessionOK, MadeOK
    <3>2. new = old
      BY <2>1, <3>1, PlusZero
    <3>3. s \notin Debtors(slot)
      BY <2>8 DEF Debtors, Debits
    <3> HIDE DEF new, old, row, before, after
    <3> QED
      BY <2>1, <2>2, <2>3, <3>2, <3>3
  <2> QED
    BY <2>5, <2>6, <2>7, <2>8
<1>6. ASSUME NEW d \in Decisions
      PROVE  (spends[d].refunds - spends[d].debits + Cardinality(Refunders(d)) <= Overlap - 1)'
  <2> DEFINE before == Cardinality(Refunders(d))
             after == Cardinality(Refunders(d)')
  <2> SUFFICES spends'[d].refunds - spends'[d].debits + after <= Overlap - 1
    BY <1>0
  <2>1. /\ spends[d] \in Spend /\ spends[d].refunds \in Nat /\ spends[d].debits \in Nat
        /\ spends[d].refunds - spends[d].debits + before <= Overlap - 1
    BY <1>2 DEF TypeOK, Spend, IInv, RefundInv
  <2>2. /\ Refunders(d) \subseteq Sessions /\ Refunders(d)' \subseteq Sessions
        /\ s \notin Refunders(d)'
        /\ \A t \in Sessions \ {s} : t \in Refunders(d)' <=> t \in Refunders(d)
    BY <1>2 DEF Refunders, Refunds, Pending
  <2>3. after \in Nat /\ before \in Nat /\ Overlap \in Nat
    BY <1>0, <2>2, SessionSets
  <2>4. /\ s \in Refunders(d) => after = before - 1
        /\ s \notin Refunders(d) => after = before
    BY <2>2, OneSession
  <2>5. CASE w.spend # NULL /\ w.spend.decision = d
    <3>1. spends'[d] = Spent(spends[d], w.spend) /\ w.spend.slot \in Slots
      BY <1>1, <1>2, <2>5 DEF CommitLedger, TypeOK, WritesOK, Spending
    <3>2. s \in Refunders(d) <=> w.spend.op # "debit"
      BY <1>1, <1>2, <2>5 DEF Refunders, Refunds, Pending, WritesOK, Spending
    <3> HIDE DEF before, after, w
    <3>3. CASE w.spend.op = "debit"
      BY <2>1, <2>3, <2>4, <3>1, <3>2, <3>3, SpentFields
    <3>4. CASE w.spend.op # "debit"
      BY <2>1, <2>3, <2>4, <3>1, <3>2, <3>4, SpentFields
    <3> QED
      BY <3>3, <3>4
  <2>6. CASE ~(w.spend # NULL /\ w.spend.decision = d)
    <3>1. spends'[d] = spends[d]
      BY <1>1, <1>2, <2>6 DEF CommitLedger, TypeOK
    <3>2. s \notin Refunders(d)
      BY <2>6 DEF Refunders, Refunds
    <3> QED
      BY <2>1, <2>3, <2>4, <3>1, <3>2
  <2> QED
    BY <2>5, <2>6
<1>7. ASSUME NEW slot \in Slots
      PROVE  (ledger[slot].allocs + Cardinality(Allocators(slot)) <= Overlap)'
  <2> DEFINE row == w.rows[slot]
             before == Cardinality(Allocators(slot))
             after == Cardinality(Allocators(slot)')
  <2> SUFFICES ledger'[slot].allocs + after <= Overlap
    BY <1>0
  <2>1. /\ ledger[slot] \in Row /\ row \in Row
        /\ ledger'[slot].allocs = ledger[slot].allocs + row.allocs
        /\ ledger[slot].allocs + before <= Overlap
    BY <1>3, PlusRow DEF IInv, AllocInv
  <2>2. after \in Nat /\ before \in Nat /\ after <= Overlap - 1 /\ Overlap \in Nat
    <3>1. Allocators(slot)' \subseteq InProgress \ {s}
      BY <1>2, <1>3 DEF Allocators, Allocates, InProgress, Pending
    <3> QED
      BY <1>0, <1>3, <3>1, SessionSets
  <2>3. /\ s \in Allocators(slot) => after = before - 1
        /\ s \notin Allocators(slot) => after = before
    BY <1>3, OneSession
  <2>4. ledger[slot].allocs \in Nat /\ row.allocs \in Nat /\ row.allocs <= 1
    BY <1>1, <2>1 DEF Row, SessionOK, FoundOK, MadeOK
  <2>5. CASE w.new = NULL
    <3>1. s \in Allocators(slot) <=> row.allocs # 0
      BY <1>1, <2>5 DEF Allocators, Allocates, Pending
    <3> HIDE DEF row, before, after, w
    <3> QED
      BY <2>1, <2>2, <2>3, <2>4, <3>1
  <2>6. CASE w.new # NULL /\ slot[1] = w.new.id
    <3>1. ledger[slot].allocs = 0
      BY <1>4, <2>6 DEF Zero
    <3> HIDE DEF row, before, after, w
    <3> QED
      BY <2>1, <2>2, <2>4, <3>1
  <2>7. CASE w.new # NULL /\ slot[1] # w.new.id
    <3>1. row.allocs = 0
      BY <1>1, <2>7 DEF SessionOK, MadeOK, Zero
    <3>2. s \notin Allocators(slot)
      BY <2>7 DEF Allocators, Allocates
    <3> HIDE DEF row, before, after, w
    <3> QED
      BY <2>1, <2>2, <2>3, <2>4, <3>1, <3>2
  <2> QED
    BY <2>5, <2>6, <2>7
<1> QED
  BY <1>0, <1>5, <1>6, <1>7 DEF OverdraftInv, RefundInv, AllocInv

LEMMA CommitStep ==
  ASSUME IInv, NEW s \in Sessions, Commit(s)
  PROVE  IInv'
  BY CommitTyped, CommitSessions, CommitUnmade, CommitCounts DEF IInv, Structure
---------------------------------------------------------------------------
(* The requests                                                            *)

LEMMA DebitedRow ==
  ASSUME NEW r \in Row
  PROVE  /\ Debited(r) \in Row /\ Debited(r).debits = r.debits + 1
         /\ Debited(r).allowance = r.allowance /\ Debited(r).cut = r.cut
         /\ Debited(r).refunds = r.refunds /\ Debited(r).allocs = r.allocs
<1>1. Debited(r) = [allocs |-> r.allocs, allowance |-> r.allowance, cut |-> r.cut,
                    debits |-> r.debits + 1, refunds |-> r.refunds]
  BY DEF Debited, Row
<1> QED
  BY <1>1 DEF Row

LEMMA EnsureFields ==
  ASSUME NEW e
  PROVE  EnsureWrites(e) = [new |-> e.new, ends |-> e.ends, rows |-> e.rows, spend |-> NULL,
                            item |-> NULL, policy |-> NULL, reset |-> NULL]
<1> DEFINE Writes(new, ends, rows) ==
             [new |-> new, ends |-> ends, rows |-> rows, spend |-> NULL, item |-> NULL,
              policy |-> NULL, reset |-> NULL]
<1>1. [Writes(NULL, <<>>, NoRows) EXCEPT !.new = e.new] = Writes(e.new, <<>>, NoRows)
  OBVIOUS
<1>2. [Writes(e.new, <<>>, NoRows) EXCEPT !.ends = e.ends] = Writes(e.new, e.ends, NoRows)
  OBVIOUS
<1>3. [Writes(e.new, e.ends, NoRows) EXCEPT !.rows = e.rows] = Writes(e.new, e.ends, e.rows)
  OBVIOUS
<1>4. EnsureWrites(e) = [[[Writes(NULL, <<>>, NoRows) EXCEPT !.new = e.new]
                            EXCEPT !.ends = e.ends] EXCEPT !.rows = e.rows]
  BY DEF EnsureWrites, NoWrites
<1> HIDE DEF Writes
<1>5. EnsureWrites(e) = Writes(e.new, e.ends, e.rows)
  BY <1>1, <1>2, <1>3, <1>4
<1> QED
  BY <1>5 DEF Writes

\* The rows of a request that found its period are zero, those of one that made
\* it are the allocations of the members; nobody else has written to that one.
LEMMA EnsuredRows ==
  ASSUME TypeOK, UnmadeUnused, CanEnsure, NEW allowance \in [Persons -> Allowances],
         NEW e, e = Ensured(allowance)
  PROVE  /\ e.period \in PeriodIds /\ e.rows \in [Slots -> Row] /\ EndsOK(e)
         /\ e.new = NULL =>
              /\ periods[e.period] # NULL
              /\ \A slot \in Slots : e.rows[slot] = Zero /\ Visible(e, slot) = ledger[slot]
         /\ e.new # NULL =>
              /\ e.new \in NewPeriod /\ e.new.id = nextPeriod /\ e.period = nextPeriod
              /\ nextPeriod <= MaxPeriods
              /\ \A slot \in Slots :
                   /\ slot[1] = nextPeriod => Visible(e, slot) = e.rows[slot]
                   /\ LET r == e.rows[slot]
                      IN  /\ r # Zero => slot[1] = nextPeriod
                          /\ r.allowance \in Nat /\ r.debits = 0 /\ r.refunds = 0
                          /\ r.cut = 0 /\ r.allocs <= 1
                          /\ slot[1] = nextPeriod /\ slot[2] \in members =>
                               r.allocs = 1 /\ r.allowance = allowance[slot[2]]
<1>1. CASE Active # {}
  <2>1. /\ e.new = NULL /\ e.rows = NoRows /\ e.period \in PeriodIds /\ e.period \in Active
        /\ EndsOK(e)
    BY <1>1, EnsuredFound
  <2>2. \A slot \in Slots : e.rows[slot] = Zero
    BY <2>1 DEF NoRows
  <2>3. \A slot \in Slots : Visible(e, slot) = ledger[slot]
    BY <2>2, PlusZero DEF Visible, TypeOK
  <2>4. e.rows \in [Slots -> Row]
    BY <2>1, ZeroRow DEF NoRows
  <2> QED
    BY <2>1, <2>2, <2>3, <2>4 DEF Active
<1>2. CASE Active = {}
  <2>1. /\ e.new # NULL /\ e.new \in NewPeriod /\ e.new.id = nextPeriod
        /\ nextPeriod <= MaxPeriods /\ e.period = nextPeriod /\ e.period \in PeriodIds
        /\ e.rows = NewRows(allowance) /\ DOMAIN e.ends = {}
    BY <1>2, EnsuredMade
  <2>2. EndsOK(e)
    BY <2>1 DEF EndsOK
  <2>3. e.rows \in [Slots -> Row]
    BY <2>1, NewRowsOK
  <2>4. ASSUME NEW slot \in Slots, slot[1] = nextPeriod
        PROVE  Visible(e, slot) = e.rows[slot]
    <3>1. slot = <<slot[1], slot[2]>> /\ slot[2] \in Persons /\ slot[1] \in PeriodIds
      BY DEF Slots
    <3>2. nextPeriod >= nextPeriod
      BY BudgetAssumption DEF TypeOK
    <3>3. ledger[slot] = Zero
      BY <2>4, <3>1, <3>2 DEF UnmadeUnused
    <3> QED
      BY <2>3, <3>3, PlusZero DEF Visible
  <2>5. \A slot \in Slots :
          LET r == e.rows[slot]
          IN  /\ r # Zero => slot[1] = nextPeriod
              /\ r.allowance \in Nat /\ r.debits = 0 /\ r.refunds = 0 /\ r.cut = 0
              /\ r.allocs <= 1
              /\ slot[1] = nextPeriod /\ slot[2] \in members =>
                   r.allocs = 1 /\ r.allowance = allowance[slot[2]]
    BY <2>1, NewRowsOK
  <2> QED
    BY <2>1, <2>2, <2>3, <2>4, <2>5
<1> QED
  BY <1>1, <1>2

LEMMA BeginSummaryStep ==
  ASSUME IInv, NEW s \in Sessions, BeginSummary(s)
  PROVE  IInv'
<1> DEFINE e == Ensured(policy)
           w == EnsureWrites(e)
<1>1. TypeOK /\ UnmadeUnused /\ CanEnsure /\ policy \in [Persons -> Allowances]
  BY DEF BeginSummary, IInv, Structure, TypeOK
<1>2. Begin(s, w) /\ DrawPeriod(e) /\ policies' \in 0..MaxPolicies
  BY <1>1 DEF BeginSummary, TypeOK
<1>3. /\ w.new = e.new /\ w.ends = e.ends /\ w.rows = e.rows
      /\ w.spend = NULL /\ w.item = NULL /\ w.policy = NULL
  BY EnsureFields
<1> HIDE DEF e, w
<1>4. /\ e.period \in PeriodIds /\ e.rows \in [Slots -> Row] /\ EndsOK(e)
      /\ e.new # NULL => e.new \in NewPeriod
  BY <1>1, EnsuredRows DEF e
<1>5. WritesOK(w) /\ EndsOK(w) /\ SpendOK(w)
  BY <1>3, <1>4 DEF WritesOK, EndsOK, SpendOK
<1>6. CASE e.new = NULL
  <2>1. \A slot \in Slots : w.rows[slot] = Zero
    BY <1>1, <1>3, <1>6, EnsuredRows DEF e
  <2>2. FoundOK(w) /\ LetThrough(w)
    BY <1>3, <2>1, ZeroRow DEF FoundOK, LetThrough, Zero
  <2>3. BeginOK(s, w)
    BY <1>2, <1>3, <1>5, <1>6, <2>2 DEF BeginOK, DrawPeriod
  <2> QED
    BY <2>2, <2>3, BeginStep
<1>7. CASE e.new # NULL
  <2>1. Making(w)
    <3>1. ASSUME NEW r \in Row, r.allowance \in Nat, r.debits = 0, r.refunds = 0
          PROVE  Margin(r) >= 0
      BY <3>1 DEF Row, Margin, Remaining
    <3> QED
      BY <1>1, <1>3, <1>4, <1>7, <3>1, EnsuredRows DEF e, Making
  <2>2. BeginOK(s, w) /\ LetThrough(w)
    BY <1>2, <1>3, <1>5, <1>7, <2>1 DEF BeginOK, DrawPeriod, LetThrough
  <2> QED
    BY <2>2, BeginStep
<1> QED
  BY <1>6, <1>7
LEMMA AllocationRow ==
  ASSUME NEW seen, NEW n \in Nat
  PROVE  LET r == Allocation(seen, n)
         IN  /\ r \in Row /\ r.allowance \in Nat
             /\ r.cut = 0 /\ r.debits = 0 /\ r.refunds = 0
             /\ seen.allocs = 0 => r.allocs = 1
             /\ seen.allocs # 0 => r = Zero /\ r.allocs = 0 /\ r.allowance = 0
<1>1. CASE seen.allocs = 0
  <2>1. Allocation(seen, n) = Allotted(n)
    BY <1>1 DEF Allocation
  <2> QED
    BY <1>1, <2>1, AllottedRow
<1>2. CASE seen.allocs # 0
  <2>1. Allocation(seen, n) = Zero
    BY <1>2 DEF Allocation
  <2> QED
    BY <1>2, <2>1, ZeroRow DEF Zero
<1> QED
  BY <1>1, <1>2

\* The point is there when it is debited: in a period that was found it is left
\* in the ledger, in a new one the allocation grants it.
LEMMA BeginOverrideStep ==
  ASSUME IInv, NEW s \in Sessions, NEW d \in Decisions, NEW p \in members,
         BeginOverride(s, d, p)
  PROVE  IInv'
<1> DEFINE e == Ensured(policy)
           slot == <<e.period, p>>
           seen == Visible(e, slot)
           alloc == Allocation(seen, policy[p])
           row == Debited(Plus(e.rows[slot], alloc))
           spend == [op |-> "debit", decision |-> d, slot |-> slot]
           entry == [op |-> "add", decision |-> d]
           w == [EnsureWrites(e) EXCEPT
                   !.rows[slot] = Debited(Plus(@, Allocation(seen, policy[p]))),
                   !.spend = spend, !.item = entry]
<1>1. /\ TypeOK /\ UnmadeUnused /\ CanEnsure /\ policy \in [Persons -> Allowances]
      /\ p \in Persons
  BY DEF BeginOverride, IInv, Structure, TypeOK
<1>2. /\ Begin(s, w) /\ DrawPeriod(e) /\ policies' \in 0..MaxPolicies
      /\ Readable(seen) /\ Remaining(seen) >= 1
  BY <1>1 DEF BeginOverride, TypeOK
<1>3. /\ w.new = e.new /\ w.ends = e.ends /\ w.rows = [e.rows EXCEPT ![slot] = row]
      /\ w.spend = spend /\ w.item = entry /\ w.policy = NULL
  <2> HIDE DEF spend, entry, seen, slot, e
  <2>1. [EnsureWrites(e) EXCEPT !.rows[slot] = Debited(Plus(@, Allocation(seen, policy[p])))]
          = [new |-> e.new, ends |-> e.ends, rows |-> [e.rows EXCEPT ![slot] = row],
             spend |-> NULL, item |-> NULL, policy |-> NULL, reset |-> NULL]
    BY EnsureFields
  <2> QED
    BY <2>1
<1>4. /\ e.period \in PeriodIds /\ e.rows \in [Slots -> Row] /\ EndsOK(e)
      /\ e.new # NULL => e.new \in NewPeriod
  <2> HIDE DEF e
  <2> QED
    BY <1>1, EnsuredRows DEF e
<1>5. slot \in Slots /\ slot[1] = e.period /\ slot[2] \in members
  BY <1>1, <1>4 DEF Slots
<1>6. spend \in Spending /\ spend # NULL /\ entry \in ItemChange
  BY <1>5, NullAssumption DEF Spending, ItemChange
<1>7. /\ spend.slot = slot /\ spend.op = "debit"
  OBVIOUS
<1> HIDE DEF e, slot, spend, entry, w
<1>8. policy[p] \in Nat
  BY <1>1, BudgetAssumption
<1>9. /\ row \in Row /\ e.rows[slot] \in Row /\ alloc \in Row
      /\ row.debits = e.rows[slot].debits + 1
      /\ row.allowance = e.rows[slot].allowance + alloc.allowance
      /\ row.cut = e.rows[slot].cut
      /\ row.refunds = e.rows[slot].refunds
      /\ row.allocs = e.rows[slot].allocs + alloc.allocs
  <2>1. /\ alloc \in Row /\ alloc.cut = 0 /\ alloc.debits = 0 /\ alloc.refunds = 0
    BY <1>8, AllocationRow
  <2> HIDE DEF alloc
  <2>2. e.rows[slot] \in Row
    BY <1>4, <1>5
  <2> DEFINE sum == Plus(e.rows[slot], alloc)
  <2>3. /\ sum \in Row /\ sum.debits = e.rows[slot].debits + 0
        /\ sum.allowance = e.rows[slot].allowance + alloc.allowance
        /\ sum.cut = e.rows[slot].cut + 0
        /\ sum.refunds = e.rows[slot].refunds + 0
        /\ sum.allocs = e.rows[slot].allocs + alloc.allocs
    BY <2>1, <2>2, PlusRow
  <2>4. row = Debited(sum)
    OBVIOUS
  <2> HIDE DEF sum, row
  <2>5. /\ row \in Row /\ row.debits = sum.debits + 1 /\ row.allowance = sum.allowance
        /\ row.cut = sum.cut /\ row.refunds = sum.refunds /\ row.allocs = sum.allocs
    BY <2>3, <2>4, DebitedRow
  <2>6. e.rows[slot].debits \in Nat /\ e.rows[slot].cut \in Nat /\ e.rows[slot].refunds \in Nat
    BY <2>2 DEF Row
  <2> QED
    BY <2>1, <2>2, <2>3, <2>5, <2>6
<1>10. /\ seen.allocs = 0 \/ alloc.allocs = 0
       /\ alloc.allocs <= 1 /\ alloc.allowance \in Nat
       /\ seen.allocs # 0 => alloc = Zero /\ alloc.allocs = 0 /\ alloc.allowance = 0
  BY <1>8, AllocationRow
<1> HIDE DEF alloc, row
<1>11. /\ w.rows \in [Slots -> Row] /\ w.rows[slot] = row
       /\ \A o \in Slots : o # slot => w.rows[o] = e.rows[o]
  BY <1>3, <1>4, <1>5, <1>9
<1>12. WritesOK(w) /\ EndsOK(w)
  BY <1>3, <1>4, <1>6, <1>11 DEF WritesOK, EndsOK
<1>13. CASE e.new = NULL
  <2>1. /\ periods[e.period] # NULL
        /\ \A o \in Slots : e.rows[o] = Zero /\ Visible(e, o) = ledger[o]
    BY <1>1, <1>13, EnsuredRows DEF e
  <2>2. seen = ledger[slot] /\ ledger[slot] \in Row
    BY <1>1, <1>5, <2>1 DEF TypeOK
  <2>3. /\ row.debits = 1 /\ row.allowance = alloc.allowance /\ row.cut = 0
        /\ row.allocs = alloc.allocs
    BY <1>5, <1>9, <2>1 DEF Zero, Row
  <2>4. SpendOK(w)
    BY <1>3, <1>5, <1>7, <1>13, <2>1 DEF SpendOK
  <2>5. FoundOK(w)
    <3> SUFFICES ASSUME NEW o \in Slots
                 PROVE  /\ w.rows[o] # Zero => periods[o[1]] # NULL
                        /\ w.rows[o].debits =
                             IF w.spend # NULL /\ w.spend.op = "debit" /\ w.spend.slot = o
                             THEN 1 ELSE 0
                        /\ w.rows[o].allowance + w.rows[o].cut >= 0
                        /\ w.rows[o].allocs <= 1
      BY DEF FoundOK
    <3>1. CASE o = slot
      BY <1>3, <1>5, <1>6, <1>7, <1>10, <1>11, <2>1, <2>3, <3>1
    <3>2. CASE o # slot
      <4>1. w.rows[o] = Zero
        BY <1>11, <2>1, <3>2
      <4> QED
        BY <1>3, <1>7, <3>2, <4>1 DEF Zero
    <3> QED
      BY <3>1, <3>2
  <2>6. Margin(ledger[slot]) >= 1
    <3>1. Remaining(ledger[slot]) >= 1
      BY <1>2, <2>2
    <3> QED
      BY <2>2, <3>1 DEF Margin, Remaining, Row
  <2>7. \A o \in Slots : w.rows[o].allocs # 0 => ledger[o].allocs = 0
    BY <1>10, <1>11, <2>1, <2>2, <2>3 DEF Zero
  <2>8. LetThrough(w)
    BY <1>3, <1>6, <1>7, <2>6, <2>7 DEF LetThrough
  <2>9. BeginOK(s, w)
    BY <1>2, <1>3, <1>12, <1>13, <2>4, <2>5 DEF BeginOK, DrawPeriod
  <2> QED
    BY <2>8, <2>9, BeginStep
<1>14. CASE e.new # NULL
  <2>1. /\ e.new.id = nextPeriod /\ e.period = nextPeriod /\ nextPeriod <= MaxPeriods
        /\ \A o \in Slots :
             /\ o[1] = nextPeriod => Visible(e, o) = e.rows[o]
             /\ LET r == e.rows[o]
                IN  /\ r # Zero => o[1] = nextPeriod
                    /\ r.allowance \in Nat /\ r.debits = 0 /\ r.refunds = 0
                    /\ r.cut = 0 /\ r.allocs <= 1
                    /\ o[1] = nextPeriod /\ o[2] \in members =>
                         r.allocs = 1 /\ r.allowance = policy[o[2]]
    BY <1>1, <1>14, EnsuredRows DEF e
  <2>2. seen = e.rows[slot] /\ e.rows[slot].allocs = 1
    BY <1>5, <2>1
  <2>3. /\ row.debits = 1 /\ row.allowance = e.rows[slot].allowance /\ row.cut = 0
        /\ row.allocs = 1 /\ row.refunds = 0 /\ row.allowance \in Nat
    BY <1>5, <1>9, <1>10, <2>1, <2>2
  <2>4. Margin(row) >= 0
    <3>1. Remaining(seen) = e.rows[slot].allowance
      BY <1>5, <2>1, <2>2 DEF Remaining
    <3>2. row.allowance >= 1
      BY <1>2, <2>3, <3>1
    <3> QED
      BY <2>3, <3>2 DEF Margin, Remaining
  <2>5. Making(w)
    <3> SUFFICES ASSUME NEW o \in Slots
                 PROVE  /\ w.rows[o] # Zero => o[1] = w.new.id
                        /\ Margin(w.rows[o]) >= 0
                        /\ w.rows[o].allocs <= 1
      BY <1>3, <2>1 DEF Making
    <3>1. CASE o = slot
      BY <1>3, <1>5, <1>11, <2>1, <2>3, <2>4, <3>1
    <3>2. CASE o # slot
      <4>1. w.rows[o] = e.rows[o]
        BY <1>11, <3>2
      <4>2. ASSUME NEW r, r.allowance \in Nat, r.debits = 0, r.refunds = 0, r.cut = 0
            PROVE  Margin(r) >= 0
        BY <4>2 DEF Margin, Remaining
      <4> QED
        BY <1>3, <2>1, <4>1, <4>2
    <3> QED
      BY <3>1, <3>2
  <2>6. LetThrough(w)
    BY <1>3, <1>7, <1>14 DEF LetThrough
  <2>7. SpendOK(w)
    BY <1>3, <1>5, <1>7, <1>14, <2>1 DEF SpendOK
  <2>8. BeginOK(s, w)
    BY <1>2, <1>3, <1>12, <1>14, <2>5, <2>7 DEF BeginOK, DrawPeriod
  <2> QED
    BY <2>6, <2>8, BeginStep
<1> QED
  BY <1>13, <1>14
\* An item is deleted: its debit is given back, if it has one that was not.
LEMMA BeginDeleteItemStep ==
  ASSUME IInv, NEW s \in Sessions, NEW i \in 1..MaxItems, BeginDeleteItem(s, i)
  PROVE  IInv'
<1> DEFINE d == items[i].decision
           entry == [op |-> "delete", id |-> i]
           w == [NoWrites EXCEPT !.item = entry]
           refund(slot) == [op |-> "refund", decision |-> d, slot |-> slot]
<1>1. /\ TypeOK /\ UnmadeUnused
      /\ items[i] \in Item /\ d \in Decisions /\ entry \in ItemChange
      /\ nextPeriod' = nextPeriod /\ policies' \in 0..MaxPolicies
  <2>1. /\ TypeOK /\ UnmadeUnused /\ items[i] # NULL
        /\ nextPeriod' = nextPeriod /\ policies' = policies
    BY Zenon DEF BeginDeleteItem, IInv, Structure
  <2>2. items[i] \in Item
    BY <2>1 DEF TypeOK
  <2> QED
    BY <2>1, <2>2 DEF TypeOK, Item, ItemChange
<1>2. /\ NoRows \in [Slots -> Row]
      /\ \A slot \in Slots : NoRows[slot] = Zero
  BY ZeroRow DEF NoRows
<1>3. CASE Begin(s, w)
  <2>1. /\ w.new = NULL /\ w.ends = <<>> /\ w.rows = NoRows /\ w.spend = NULL
        /\ w.item = entry /\ w.policy = NULL
    BY DEF NoWrites
  <2> HIDE DEF w, entry
  <2>2. WritesOK(w) /\ EndsOK(w) /\ SpendOK(w) /\ FoundOK(w) /\ LetThrough(w)
    BY <1>1, <1>2, <2>1 DEF WritesOK, EndsOK, SpendOK, FoundOK, LetThrough, Zero
  <2>3. BeginOK(s, w)
    BY <1>1, <1>3, <2>1, <2>2 DEF BeginOK
  <2> QED
    BY <2>2, <2>3, BeginStep
<1>4. ASSUME RefundDue(i), NEW slot \in spends[d].slots,
             Begin(s, [w EXCEPT !.rows[slot] = Returned, !.spend = refund(slot)])
      PROVE  IInv'
  <2> DEFINE u == [w EXCEPT !.rows[slot] = Returned, !.spend = refund(slot)]
  <2>1. spends[d] \in Spend /\ slot \in Slots /\ spends[d].refunds < spends[d].debits
    BY <1>1, <1>4 DEF RefundDue, TypeOK, Spend
  <2>2. refund(slot) \in Spending /\ refund(slot) # NULL
    BY <1>1, <2>1, NullAssumption DEF Spending
  <2>3. /\ u.new = NULL /\ u.ends = <<>> /\ u.rows = [NoRows EXCEPT ![slot] = Returned]
        /\ u.spend = refund(slot) /\ u.item = entry /\ u.policy = NULL
    BY DEF NoWrites
  <2>4. /\ Returned \in Row /\ Returned.debits = 0 /\ Returned.allowance = 0
        /\ Returned.cut = 0 /\ Returned.allocs = 0
    BY DEF Returned, Row
  <2>5. u.rows \in [Slots -> Row] /\ u.rows[slot] = Returned
        /\ \A o \in Slots : o # slot => u.rows[o] = Zero
    <3> HIDE DEF u
    <3> QED
      BY <1>2, <2>1, <2>3, <2>4
  <2>6. periods[slot[1]] # NULL
    <3>1. slot[1] \in PeriodIds /\ slot[2] \in Persons /\ slot = <<slot[1], slot[2]>>
      BY <2>1 DEF Slots
    <3> QED
      BY <1>1, <1>4, <3>1 DEF UnmadeUnused
  <2>7. refund(slot).op = "refund" /\ refund(slot).decision = d /\ refund(slot).slot = slot
    OBVIOUS
  <2> HIDE DEF u, entry, refund
  <2>8. WritesOK(u) /\ EndsOK(u) /\ SpendOK(u)
    BY <1>1, <2>2, <2>3, <2>5, <2>6, <2>7 DEF WritesOK, EndsOK, SpendOK
  <2>9. \A o \in Slots : /\ u.rows[o].debits = 0 /\ u.rows[o].allowance = 0
                         /\ u.rows[o].cut = 0 /\ u.rows[o].allocs = 0
    BY <2>4, <2>5 DEF Zero
  <2>10. FoundOK(u)
    BY <2>3, <2>5, <2>6, <2>7, <2>9 DEF FoundOK
  <2>11. LetThrough(u)
    BY <2>1, <2>3, <2>7, <2>9 DEF LetThrough
  <2>12. BeginOK(s, u)
    BY <1>1, <1>4, <2>3, <2>8, <2>10 DEF BeginOK, u
  <2> QED
    BY <2>11, <2>12, BeginStep
<1> QED
  BY <1>3, <1>4, Zenon DEF BeginDeleteItem

\* A reset moves the end of its period to yesterday, and writes no rows but those
\* of a period it made.
LEMMA BeginResetStep ==
  ASSUME IInv, NEW s \in Sessions, BeginReset(s)
  PROVE  IInv'
<1> DEFINE e == Ensured(policy)
           w == [EnsureWrites(e) EXCEPT !.reset = e.period]
           u == IF e.new # NULL THEN [w EXCEPT !.new.row.end = day - 1]
                ELSE [w EXCEPT !.ends = [q \in Active |->
                        IF q = e.period THEN day - 1 ELSE e.ends[q]]]
<1>1. TypeOK /\ UnmadeUnused /\ CanEnsure /\ policy \in [Persons -> Allowances]
      /\ day \in Nat /\ PeriodDays \in Nat \ {0}
  BY BudgetAssumption DEF BeginReset, IInv, Structure, TypeOK
<1>2. Begin(s, u) /\ DrawPeriod(e) /\ policies' \in 0..MaxPolicies
  BY <1>1 DEF BeginReset, TypeOK
<1>3. w = [new |-> e.new, ends |-> e.ends, rows |-> e.rows, spend |-> NULL,
           item |-> NULL, policy |-> NULL, reset |-> e.period]
  <2> HIDE DEF e
  <2> QED
    BY EnsureFields
<1>4. /\ e.period \in PeriodIds /\ e.rows \in [Slots -> Row] /\ EndsOK(e)
      /\ e.new # NULL => e.new \in NewPeriod
  <2> HIDE DEF e
  <2> QED
    BY <1>1, EnsuredRows DEF e
<1>5. CASE Active # {}
  <2>1. /\ e.new = NULL /\ e.rows = NoRows /\ e.period \in Active
        /\ DOMAIN e.ends = Active \ {e.period}
    <3> HIDE DEF e
    <3> QED
      BY <1>1, <1>5, EnsuredFound DEF e
  <2> DEFINE ends == [q \in Active |-> IF q = e.period THEN day - 1 ELSE e.ends[q]]
  <2>2. ASSUME NEW q \in Active
        PROVE  q \in PeriodIds /\ periods[q] # NULL /\ EndOf(periods[q].start, ends[q])
    <3>1. q \in PeriodIds /\ periods[q] # NULL /\ periods[q] \in Period
          /\ periods[q].start <= day /\ day <= periods[q].end
      BY <1>1 DEF Active, TypeOK
    <3>2. CASE q = e.period
      <4>1. ends[q] = day - 1
        BY <3>2
      <4>2. /\ periods[q].start \in Days /\ periods[q].end \in Int
            /\ periods[q].end - periods[q].start \in -1..(PeriodDays - 1)
        BY <3>1 DEF Period
      <4>3. periods[q].start \in Nat
        BY <4>2, BudgetAssumption
      <4> HIDE DEF ends
      <4> QED
        BY <1>1, <3>1, <4>1, <4>2, <4>3 DEF EndOf
    <3>3. CASE q # e.period
      <4>1. ends[q] = e.ends[q] /\ q \in DOMAIN e.ends
        BY <2>1, <3>3
      <4> HIDE DEF ends, e
      <4>2. EndOf(periods[q].start, e.ends[q])
        BY <1>4, <4>1 DEF EndsOK
      <4> QED
        BY <3>1, <4>1, <4>2
    <3> QED
      BY <3>2, <3>3
  <2>3. u = [w EXCEPT !.ends = ends]
    BY <2>1
  <2> HIDE DEF ends, u, w, e
  <2>4. /\ u.new = NULL /\ u.ends = ends /\ u.rows = NoRows /\ u.spend = NULL
        /\ u.item = NULL /\ u.policy = NULL
    BY <1>3, <2>1, <2>3
  <2>5. EndsOK(u)
    BY <2>2, <2>4 DEF EndsOK, ends
  <2>6. \A slot \in Slots : u.rows[slot] = Zero
    BY <2>4 DEF NoRows
  <2>7. WritesOK(u) /\ SpendOK(u) /\ FoundOK(u) /\ LetThrough(u)
    <3>1. WritesOK(u)
      BY <1>4, <2>1, <2>4 DEF WritesOK
    <3>2. SpendOK(u)
      BY <2>4 DEF SpendOK
    <3>3. FoundOK(u)
      BY <2>4, <2>6 DEF FoundOK, Zero
    <3>4. LetThrough(u)
      BY <2>4, <2>6 DEF LetThrough, Zero
    <3> QED
      BY <3>1, <3>2, <3>3, <3>4
  <2>8. BeginOK(s, u)
    BY <1>2, <2>1, <2>4, <2>5, <2>7 DEF BeginOK, DrawPeriod
  <2> QED
    BY <2>7, <2>8, BeginStep
<1>6. CASE Active = {}
  <2>1. /\ e.new # NULL /\ e.new \in NewPeriod /\ e.new.id = nextPeriod
        /\ e.new.row = Window /\ DOMAIN e.ends = {} /\ nextPeriod <= MaxPeriods
    <3> HIDE DEF e
    <3> QED
      BY <1>1, <1>6, EnsuredMade DEF e
  <2> DEFINE row == [start |-> day, end |-> day - 1]
             new == [id |-> nextPeriod, row |-> row]
  <2>2. row \in Period
    BY <1>1 DEF Period, TypeOK
  <2>3. e.new = [id |-> nextPeriod, row |-> Window]
    BY <2>1 DEF NewPeriod
  <2>4. u = [w EXCEPT !.new.row.end = day - 1]
    BY <2>1
  <2>5. new \in NewPeriod /\ new # NULL
    BY <2>1, <2>2, NullAssumption DEF NewPeriod
  <2> HIDE DEF u, w, e
  <2>6. /\ u.new = new /\ u.ends = e.ends /\ u.rows = e.rows /\ u.spend = NULL
        /\ u.item = NULL /\ u.policy = NULL
    BY <1>3, <2>3, <2>4 DEF Window
  <2>7. EndsOK(u)
    BY <2>1, <2>6 DEF EndsOK
  <2>8. WritesOK(u) /\ SpendOK(u) /\ LetThrough(u)
    <3> HIDE DEF new
    <3>1. WritesOK(u)
      BY <1>4, <2>5, <2>6 DEF WritesOK
    <3>2. SpendOK(u)
      BY <2>6 DEF SpendOK
    <3>3. LetThrough(u)
      BY <2>5, <2>6 DEF LetThrough
    <3> QED
      BY <3>1, <3>2, <3>3
  <2>9. Making(u)
    <3>1. ASSUME NEW r, r.allowance \in Nat, r.debits = 0, r.refunds = 0, r.cut = 0
          PROVE  Margin(r) >= 0
      BY <3>1 DEF Margin, Remaining
    <3> QED
      BY <1>1, <2>1, <2>6, <3>1, EnsuredRows DEF e, Making
  <2>10. BeginOK(s, u)
    BY <1>2, <2>1, <2>5, <2>6, <2>7, <2>8, <2>9 DEF BeginOK, DrawPeriod
  <2> QED
    BY <2>8, <2>10, BeginStep
<1> QED
  BY <1>5, <1>6
\* A policy adds an allocation where there is none, and takes from nobody more
\* than it says it cut.
LEMMA BeginPolicyStep ==
  ASSUME IInv, NEW s \in Sessions, NEW next \in [Persons -> Allowances],
         BeginPolicy(s, next)
  PROVE  IInv'
<1> DEFINE e == Ensured(next)
           seen(p) == Visible(e, <<e.period, p>>)
           delta(p) == next[p] - seen(p).allowance
           row(slot) ==
             IF slot[1] = e.period /\ slot[2] \in members
             THEN LET p == slot[2]
                  IN Plus(Plus(e.rows[slot], Allocation(seen(p), next[p])), Adjusted(delta(p)))
             ELSE e.rows[slot]
           rows == [slot \in Slots |-> row(slot)]
           w == [EnsureWrites(e) EXCEPT !.policy = next, !.rows = rows]
<1>1. TypeOK /\ UnmadeUnused /\ CanEnsure /\ next \in [Persons -> Allowances]
  BY DEF BeginPolicy, IInv, Structure
<1>2. /\ Begin(s, w) /\ DrawPeriod(e) /\ policies' = policies + 1 /\ policies < MaxPolicies
  BY DEF BeginPolicy
<1>3. policies' \in 0..MaxPolicies
  BY <1>1, <1>2, BudgetAssumption DEF TypeOK
<1>4. /\ w.new = e.new /\ w.ends = e.ends /\ w.rows = rows
      /\ w.spend = NULL /\ w.item = NULL /\ w.policy = next
  <2> HIDE DEF e, rows
  <2> QED
    BY EnsureFields
<1>5. /\ e.period \in PeriodIds /\ e.rows \in [Slots -> Row] /\ EndsOK(e)
      /\ e.new = NULL =>
           /\ periods[e.period] # NULL
           /\ \A slot \in Slots : e.rows[slot] = Zero /\ Visible(e, slot) = ledger[slot]
      /\ e.new # NULL =>
           /\ e.new \in NewPeriod /\ e.new.id = nextPeriod /\ e.period = nextPeriod
           /\ nextPeriod <= MaxPeriods
           /\ \A slot \in Slots :
                /\ slot[1] = nextPeriod => Visible(e, slot) = e.rows[slot]
                /\ LET r == e.rows[slot]
                   IN  /\ r # Zero => slot[1] = nextPeriod
                       /\ r.allowance \in Nat /\ r.debits = 0 /\ r.refunds = 0
                       /\ r.cut = 0 /\ r.allocs <= 1
                       /\ slot[1] = nextPeriod /\ slot[2] \in members =>
                            r.allocs = 1 /\ r.allowance = next[slot[2]]
  <2> HIDE DEF e
  <2> QED
    BY <1>1, EnsuredRows DEF e
<1> HIDE DEF e
\* The rows of one member.
<1>6. ASSUME NEW slot \in Slots, slot[1] = e.period, slot[2] \in members
      PROVE  LET r == rows[slot]
                 alloc == Allocation(Visible(e, slot), next[slot[2]])
             IN  /\ r \in Row
                 /\ r.debits = e.rows[slot].debits /\ r.refunds = e.rows[slot].refunds
                 /\ r.allocs = e.rows[slot].allocs + alloc.allocs
                 /\ r.allowance + r.cut >=
                      e.rows[slot].allowance + e.rows[slot].cut + alloc.allowance
  <2> DEFINE p == slot[2]
             alloc == Allocation(Visible(e, slot), next[p])
             n == delta(p)
             a == Plus(e.rows[slot], alloc)
             b == Adjusted(n)
  <2>1. slot = <<e.period, p>> /\ p \in Persons
    BY <1>6 DEF Slots
  <2>2. rows[slot] = Plus(a, b)
    BY <1>6, <2>1
  <2>3. Visible(e, slot) \in Row /\ e.rows[slot] \in Row
    BY <1>1, <1>5, PlusRow DEF Visible, TypeOK
  <2>4. next[p] \in Nat
    BY <1>1, <2>1, BudgetAssumption
  <2>5. n \in Int
    BY <2>1, <2>3, <2>4 DEF Row
  <2>6. /\ alloc \in Row /\ alloc.allowance \in Nat
        /\ alloc.cut = 0 /\ alloc.debits = 0 /\ alloc.refunds = 0
    BY <2>4, AllocationRow
  <2>7. /\ b \in Row /\ b.allocs = 0 /\ b.debits = 0 /\ b.refunds = 0
        /\ b.allowance + b.cut >= 0
    BY <2>5, AdjustedRow
  <2> HIDE DEF alloc, n, b
  <2>8. /\ a \in Row /\ a.allocs = e.rows[slot].allocs + alloc.allocs
        /\ a.allowance = e.rows[slot].allowance + alloc.allowance
        /\ a.cut = e.rows[slot].cut + alloc.cut
        /\ a.debits = e.rows[slot].debits + alloc.debits
        /\ a.refunds = e.rows[slot].refunds + alloc.refunds
    BY <2>3, <2>6, PlusRow
  <2> HIDE DEF a
  <2>9. LET r == Plus(a, b)
        IN  /\ r \in Row /\ r.allocs = a.allocs + b.allocs
            /\ r.allowance = a.allowance + b.allowance /\ r.cut = a.cut + b.cut
            /\ r.debits = a.debits + b.debits /\ r.refunds = a.refunds + b.refunds
    BY <2>7, <2>8, PlusRow
  <2>10. /\ e.rows[slot].allocs \in Nat /\ e.rows[slot].allowance \in Int
         /\ e.rows[slot].cut \in Nat /\ e.rows[slot].debits \in Nat
         /\ e.rows[slot].refunds \in Nat /\ alloc.allocs \in Nat
         /\ b.allowance \in Int /\ b.cut \in Nat
    BY <2>3, <2>6, <2>7 DEF Row
  <2> HIDE DEF rows
  <2> QED
    BY <2>2, <2>6, <2>7, <2>8, <2>9, <2>10 DEF alloc
<1>7. ASSUME NEW slot \in Slots, ~(slot[1] = e.period /\ slot[2] \in members)
      PROVE  rows[slot] = e.rows[slot]
  BY <1>7
<1>8. rows \in [Slots -> Row]
  <2>1. \A slot \in Slots : rows[slot] \in Row
    <3> HIDE DEF rows
    <3> QED
      BY <1>5, <1>6, <1>7
  <2> QED
    BY <2>1
<1> HIDE DEF rows, w
<1>9. WritesOK(w) /\ EndsOK(w) /\ SpendOK(w)
  BY <1>1, <1>4, <1>5, <1>8 DEF WritesOK, EndsOK, SpendOK
\* An allocation is added only where none is seen, and a member has one in a new period.
<1>10. ASSUME NEW slot \in Slots
       PROVE  LET alloc == Allocation(Visible(e, slot), next[slot[2]])
              IN  /\ alloc.allocs \in {0, 1} /\ alloc.allowance \in Nat
                  /\ Visible(e, slot).allocs # 0 => alloc.allocs = 0 /\ alloc.allowance = 0
  <2>1. next[slot[2]] \in Nat
    BY <1>1, BudgetAssumption DEF Slots
  <2> QED
    BY <2>1, AllocationRow
<1>11. CASE e.new = NULL
  <2>1. ASSUME NEW slot \in Slots
        PROVE  /\ w.rows[slot] # Zero => periods[slot[1]] # NULL
               /\ w.rows[slot].debits = 0
               /\ w.rows[slot].allowance + w.rows[slot].cut >= 0
               /\ w.rows[slot].allocs <= 1
               /\ w.rows[slot].allocs # 0 => ledger[slot].allocs = 0
    <3>1. e.rows[slot] = Zero /\ Visible(e, slot) = ledger[slot]
      BY <1>5, <1>11
    <3>2. CASE slot[1] = e.period /\ slot[2] \in members
      BY <1>4, <1>5, <1>6, <1>10, <1>11, <3>1, <3>2 DEF Zero, Row
    <3>3. CASE ~(slot[1] = e.period /\ slot[2] \in members)
      BY <1>4, <1>7, <3>1, <3>3 DEF Zero
    <3> QED
      BY <3>2, <3>3
  <2>2. FoundOK(w) /\ LetThrough(w)
    BY <1>4, <2>1 DEF FoundOK, LetThrough
  <2>3. BeginOK(s, w)
    BY <1>2, <1>3, <1>4, <1>9, <1>11, <2>2 DEF BeginOK, DrawPeriod
  <2> QED
    BY <2>2, <2>3, BeginStep
<1>12. CASE e.new # NULL
  <2>1. ASSUME NEW slot \in Slots
        PROVE  /\ w.rows[slot] # Zero => slot[1] = w.new.id
               /\ Margin(w.rows[slot]) >= 0
               /\ w.rows[slot].allocs <= 1
    <3>1. /\ slot[1] = nextPeriod => Visible(e, slot) = e.rows[slot]
          /\ e.rows[slot] # Zero => slot[1] = nextPeriod
          /\ e.rows[slot].allowance \in Nat /\ e.rows[slot].debits = 0
          /\ e.rows[slot].refunds = 0 /\ e.rows[slot].cut = 0 /\ e.rows[slot].allocs <= 1
          /\ slot[1] = nextPeriod /\ slot[2] \in members => e.rows[slot].allocs = 1
          /\ w.new.id = nextPeriod /\ e.period = nextPeriod
      BY <1>4, <1>5, <1>12
    <3>2. CASE slot[1] = e.period /\ slot[2] \in members
      <4>1. /\ w.rows[slot] \in Row /\ w.rows[slot].debits = 0 /\ w.rows[slot].refunds = 0
            /\ w.rows[slot].allocs = 1 /\ w.rows[slot].allowance + w.rows[slot].cut >= 0
        <5> DEFINE r == rows[slot]
                   alloc == Allocation(Visible(e, slot), next[slot[2]])
        <5>1. Visible(e, slot) = e.rows[slot] /\ e.rows[slot].allocs = 1
          BY <3>1, <3>2
        <5>2. alloc.allocs = 0 /\ alloc.allowance = 0
          BY <1>10, <5>1
        <5>3. /\ r \in Row
              /\ r.debits = e.rows[slot].debits /\ r.refunds = e.rows[slot].refunds
              /\ r.allocs = e.rows[slot].allocs + alloc.allocs
              /\ r.allowance + r.cut >=
                   e.rows[slot].allowance + e.rows[slot].cut + alloc.allowance
          BY <1>6, <3>2
        <5> HIDE DEF alloc
        <5> QED
          BY <1>4, <3>1, <5>1, <5>2, <5>3 DEF Row
      <4>2. ASSUME NEW r \in Row, r.debits = 0, r.refunds = 0, r.allowance + r.cut >= 0
            PROVE  Margin(r) >= 0
        BY <4>2 DEF Margin, Remaining, Row
      <4> QED
        BY <3>1, <3>2, <4>1, <4>2
    <3>3. CASE ~(slot[1] = e.period /\ slot[2] \in members)
      <4>1. w.rows[slot] = e.rows[slot]
        BY <1>4, <1>7, <3>3
      <4>2. ASSUME NEW r, r.allowance \in Nat, r.debits = 0, r.refunds = 0, r.cut = 0
            PROVE  Margin(r) >= 0
        BY <4>2 DEF Margin, Remaining
      <4> QED
        BY <3>1, <4>1, <4>2
    <3> QED
      BY <3>2, <3>3
  <2>2. Making(w)
    BY <1>4, <1>5, <1>12, <2>1 DEF Making
  <2>3. LetThrough(w)
    BY <1>4, <1>12 DEF LetThrough
  <2>4. BeginOK(s, w)
    BY <1>2, <1>3, <1>4, <1>9, <1>12, <2>2 DEF BeginOK, DrawPeriod
  <2> QED
    BY <2>3, <2>4, BeginStep
<1> QED
  BY <1>11, <1>12
---------------------------------------------------------------------------
(* The other steps                                                         *)

LEMMA RollbackStep ==
  ASSUME IInv, NEW s \in Sessions, Rollback(s)
  PROVE  IInv'
<1>1. /\ session' = [session EXCEPT ![s] = NULL]
      /\ UNCHANGED <<day, members, policy, periods, nextPeriod, ledger, spends, items,
                     nextItem, policies, rivals>>
  BY DEF Rollback
<1>2. /\ session' = [t \in Sessions |-> session'[t]] /\ session'[s] = NULL
      /\ \A t \in Sessions \ {s} : session'[t] = session[t]
      /\ TypeOK /\ UnmadeUnused
  BY <1>1 DEF IInv, Structure, SessionsOK
<1>3. TypeOK' /\ UnmadeUnused'
  BY <1>1, <1>2 DEF TypeOK, UnmadeUnused
<1>4. nextPeriod' \in {nextPeriod, nextPeriod + 1} /\ periods' = periods
  BY <1>1
<1>5. ASSUME NEW v, NEW t \in Sessions \ {s}, v = session[t], v # NULL
      PROVE  SessionOK(v)'
  <2>1. SessionOK(v)
    BY <1>5 DEF IInv, Structure, SessionsOK, Pending
  <2>2. v.new # NULL => periods'[v.new.id] = NULL
    BY <1>4, <2>1 DEF SessionOK, MadeOK
  <2> QED
    BY <1>2, <1>4, <2>1, <2>2, SessionStays
<1>6. ASSUME NEW t \in Sessions, session'[t] # NULL
      PROVE  SessionOK(session[t])'
  <2>1. t # s
    BY <1>2, <1>6
  <2>2. session'[t] = session[t]
    BY <1>2, <2>1
  <2> QED
    BY <1>5, <1>6, <2>1, <2>2
<1>7. SessionsOK' /\ MadeApart'
  BY <1>2, <1>6 DEF SessionsOK, MadeApart, Pending, IInv, Structure
<1>13. CrowdInv' /\ Overlap \in Nat \ {0} /\ Overlap' = Overlap
  BY <1>1, <1>2, CrowdLeaves DEF IInv
\* A session that leaves is counted nowhere.
<1>8. ASSUME NEW S, NEW T, S \subseteq Sessions, T = S \ {s}
      PROVE  Cardinality(T) \in Nat /\ Cardinality(S) \in Nat
             /\ Cardinality(T) <= Cardinality(S)
  <2>1. CASE s \in S
    BY <1>8, <2>1, SessionSets, FS_RemoveElement
  <2>2. CASE s \notin S
    <3>1. T = S
      BY <1>8, <2>2
    <3> QED
      BY <1>8, <3>1, SessionSets
  <2> QED
    BY <2>1, <2>2
<1>9. /\ \A slot : /\ Debtors(slot) \subseteq Sessions
                   /\ Debtors(slot)' = Debtors(slot) \ {s}
                   /\ Allocators(slot) \subseteq Sessions
                   /\ Allocators(slot)' = Allocators(slot) \ {s}
      /\ \A d : /\ Refunders(d) \subseteq Sessions
                /\ Refunders(d)' = Refunders(d) \ {s}
  BY <1>2 DEF Debtors, Debits, Refunders, Refunds, Allocators, Allocates, Pending
<1>10. ASSUME NEW slot \in Slots
       PROVE  (Margin(ledger[slot]) - Cardinality(Debtors(slot)) >= 1 - Overlap)'
  <2>1. /\ Margin(ledger[slot]) \in Int /\ ledger'[slot] = ledger[slot]
        /\ Margin(ledger[slot]) - Cardinality(Debtors(slot)) >= 1 - Overlap
    BY <1>1, <1>2, MarginPlus DEF TypeOK, IInv, OverdraftInv
  <2>2. /\ Cardinality(Debtors(slot)') \in Nat /\ Cardinality(Debtors(slot)) \in Nat
        /\ Cardinality(Debtors(slot)') <= Cardinality(Debtors(slot))
    BY <1>8, <1>9
  <2>3. Margin(ledger'[slot]) - Cardinality(Debtors(slot)') >= 1 - Overlap
    BY <1>13, <2>1, <2>2
  <2> QED
    BY <1>13, <2>3 DEF Margin, Remaining
<1>11. ASSUME NEW d \in Decisions
       PROVE  (spends[d].refunds - spends[d].debits + Cardinality(Refunders(d))
                 <= Overlap - 1)'
  <2>1. /\ spends[d].refunds \in Nat /\ spends[d].debits \in Nat /\ spends'[d] = spends[d]
        /\ spends[d].refunds - spends[d].debits + Cardinality(Refunders(d)) <= Overlap - 1
    BY <1>1, <1>2 DEF TypeOK, Spend, IInv, RefundInv
  <2>2. /\ Cardinality(Refunders(d)') \in Nat /\ Cardinality(Refunders(d)) \in Nat
        /\ Cardinality(Refunders(d)') <= Cardinality(Refunders(d))
    BY <1>8, <1>9
  <2> QED
    BY <1>13, <2>1, <2>2
<1>12. ASSUME NEW slot \in Slots
       PROVE  (ledger[slot].allocs + Cardinality(Allocators(slot)) <= Overlap)'
  <2>1. /\ ledger[slot].allocs \in Nat /\ ledger'[slot] = ledger[slot]
        /\ ledger[slot].allocs + Cardinality(Allocators(slot)) <= Overlap
    BY <1>1, <1>2 DEF TypeOK, Row, IInv, AllocInv
  <2>2. /\ Cardinality(Allocators(slot)') \in Nat /\ Cardinality(Allocators(slot)) \in Nat
        /\ Cardinality(Allocators(slot)') <= Cardinality(Allocators(slot))
    BY <1>8, <1>9
  <2> QED
    BY <1>13, <2>1, <2>2
<1> QED
  BY <1>3, <1>7, <1>10, <1>11, <1>12, <1>13 DEF IInv, Structure, OverdraftInv, RefundInv, AllocInv

\* What touches neither periods, nor the ledger, nor a session in progress.
LEMMA AsideStep ==
  ASSUME IInv, TypeOK', UNCHANGED <<periods, nextPeriod, ledger, spends, session, rivals>>
  PROVE  IInv'
<1>1. \A v : SessionOK(v) <=> SessionOK(v)'
  BY DEF SessionOK, WritesOK, EndsOK, SpendOK, FoundOK, MadeOK
<1>2. SessionsOK' /\ MadeApart' /\ UnmadeUnused'
  BY <1>1 DEF IInv, Structure, SessionsOK, MadeApart, UnmadeUnused, Pending
<1>3. /\ \A slot : Debtors(slot)' = Debtors(slot) /\ Allocators(slot)' = Allocators(slot)
      /\ \A d : Refunders(d)' = Refunders(d)
      /\ InProgress' = InProgress
  BY DEF InProgress, Debtors, Debits, Refunders, Refunds, Allocators, Allocates, Pending
<1>4. CrowdInv' /\ OverdraftInv' /\ RefundInv' /\ AllocInv'
  BY <1>3 DEF IInv, CrowdInv, OverdraftInv, RefundInv, AllocInv, Overlap, Margin, Remaining
<1> QED
  BY <1>2, <1>4 DEF IInv, Structure

LEMMA InitOK == Init => IInv
<1> SUFFICES ASSUME Init PROVE IInv
  OBVIOUS
<1>1. /\ ledger = NoRows /\ periods = [q \in PeriodIds |-> NULL] /\ nextPeriod = 1
      /\ session = [s \in Sessions |-> NULL] /\ rivals = 0
      /\ spends = [d \in Decisions |-> [debits |-> 0, refunds |-> 0, slots |-> {}]]
  BY DEF Init
<1>2. TypeOK
  <2>1. ledger \in [Slots -> Row]
    BY <1>1, ZeroRow DEF NoRows
  <2>2. [debits |-> 0, refunds |-> 0, slots |-> {}] \in Spend
    BY DEF Spend
  <2>3. spends \in [Decisions -> Spend]
    BY <1>1, <2>2
  <2>4. /\ day \in Days /\ members \subseteq Persons /\ policy \in [Persons -> Allowances]
        /\ periods \in [PeriodIds -> Period \cup {NULL}]
        /\ nextPeriod \in 1..(MaxPeriods + 1)
        /\ items \in [1..MaxItems -> Item \cup {NULL}]
        /\ nextItem \in 1..(MaxItems + 1) /\ policies \in 0..MaxPolicies /\ rivals \in Nat
    BY BudgetAssumption DEF Init
  <2> QED
    BY <2>1, <2>3, <2>4 DEF TypeOK
<1>3. SessionsOK /\ MadeApart
  BY <1>1 DEF SessionsOK, MadeApart, Pending
<1>4. UnmadeUnused
  <2> SUFFICES ASSUME NEW q \in PeriodIds
               PROVE  /\ periods[q] = NULL
                      /\ \A p \in Persons : /\ ledger[<<q, p>>] = Zero
                                            /\ \A d \in Decisions : <<q, p>> \notin spends[d].slots
    BY DEF UnmadeUnused
  <2>1. \A p \in Persons : <<q, p>> \in Slots
    BY DEF Slots
  <2> QED
    BY <1>1, <2>1 DEF NoRows
<1>5. /\ \A slot : Debtors(slot) = {} /\ Allocators(slot) = {}
      /\ \A d : Refunders(d) = {} /\ InProgress = {}
  BY <1>1 DEF InProgress, Debtors, Debits, Refunders, Refunds, Allocators, Allocates, Pending
<1>6. Cardinality({}) = 0 /\ Overlap = 1
  BY <1>1, FS_EmptySet DEF Overlap
<1>9. CrowdInv
  BY <1>5, <1>6 DEF CrowdInv
<1>7. OverdraftInv
  <2>1. \A slot \in Slots : Margin(ledger[slot]) = 0
    BY <1>1, ZeroRow DEF NoRows
  <2> QED
    BY <1>5, <1>6, <2>1 DEF OverdraftInv
<1>8. RefundInv /\ AllocInv
  <2>1. \A slot \in Slots : ledger[slot].allocs = 0
    BY <1>1 DEF NoRows, Zero
  <2>2. \A d \in Decisions : spends[d].refunds = 0 /\ spends[d].debits = 0
    BY <1>1
  <2>3. RefundInv
    BY <1>5, <1>6, <2>2 DEF RefundInv
  <2>4. AllocInv
    BY <1>5, <1>6, <2>1 DEF AllocInv
  <2> QED
    BY <2>3, <2>4
<1> QED
  BY <1>2, <1>3, <1>4, <1>7, <1>8, <1>9 DEF IInv, Structure

LEMMA NextStep == IInv /\ [Next]_vars => IInv'
<1> SUFFICES ASSUME IInv, [Next]_vars PROVE IInv'
  OBVIOUS
<1>1. TypeOK
  BY DEF IInv, Structure
<1>2. ASSUME NEW s \in Sessions, Request(s) PROVE IInv'
  BY <1>2, BeginOverrideStep, BeginDeleteItemStep, BeginSummaryStep, BeginPolicyStep,
     BeginResetStep DEF Request
<1>3. ASSUME NEW s \in Sessions, Commit(s) PROVE IInv'
  BY <1>3, CommitStep
<1>4. ASSUME NEW s \in Sessions, Rollback(s) PROVE IInv'
  BY <1>4, RollbackStep
<1>5. ASSUME NEW d \in Decisions, Schedule(d) PROVE IInv'
  <2>1. [decision |-> d, done |-> FALSE] \in Item
    BY DEF Item
  <2>2. TypeOK'
    BY <1>1, <1>5, <2>1, BudgetAssumption DEF Schedule, AddItem, TypeOK
  <2> QED
    BY <1>5, <2>2, AsideStep DEF Schedule
<1>6. ASSUME NEW i \in 1..MaxItems, NEW done \in BOOLEAN, UpdateItem(i, done) PROVE IInv'
  <2>1. items[i] \in Item
    BY <1>1, <1>6 DEF UpdateItem, TypeOK
  <2>2. [items[i] EXCEPT !.done = done] \in Item
    BY <2>1 DEF Item
  <2>3. TypeOK'
    BY <1>1, <1>6, <2>2 DEF UpdateItem, TypeOK
  <2> QED
    BY <1>6, <2>3, AsideStep DEF UpdateItem
<1>7. ASSUME NEW p \in Persons, Join(p) PROVE IInv'
  <2>1. TypeOK'
    BY <1>1, <1>7 DEF Join, TypeOK
  <2> QED
    BY <1>7, <2>1, AsideStep DEF Join
<1>8. ASSUME NextDay PROVE IInv'
  <2>1. TypeOK'
    BY <1>1, <1>8 DEF NextDay, TypeOK
  <2> QED
    BY <1>8, <2>1, AsideStep DEF NextDay
<1>9. ASSUME UNCHANGED vars PROVE IInv'
  <2>1. TypeOK'
    BY <1>1, <1>9 DEF vars, TypeOK
  <2> QED
    BY <1>9, <2>1, AsideStep DEF vars
<1> QED
  BY <1>2, <1>3, <1>4, <1>5, <1>6, <1>7, <1>8, <1>9 DEF Next

LEMMA Inductive == Spec => []IInv
  BY InitOK, NextStep, PTL DEF Spec

\* Every request keeps the tables in their types, whatever overlaps.
THEOREM LedgerTyped == Spec => []TypeOK
<1>1. IInv => TypeOK
  BY DEF IInv, Structure
<1> QED
  BY <1>1, Inductive, PTL

\* Nobody overdraws a budget by more than the most requests that were in
\* progress when another began, and by what a policy took away (the check
\* before the debit in create_roadmap_item). As long as requests come one after
\* another, nobody overdraws it.
THEOREM OverdraftLimited == Spec => []OverdraftBounded
<1>1. IInv => OverdraftBounded
  <2> SUFFICES ASSUME IInv, NEW slot \in Slots
               PROVE  Remaining(ledger[slot]) + ledger[slot].cut >= -rivals
    BY DEF OverdraftBounded
  <2>1. /\ ledger[slot] \in Row /\ Margin(ledger[slot]) \in Int
        /\ Margin(ledger[slot]) - Cardinality(Debtors(slot)) >= 1 - Overlap
    BY MarginPlus DEF IInv, Structure, TypeOK, OverdraftInv
  <2>4. Overlap \in Nat /\ rivals = Overlap - 1
    BY DEF IInv, Structure, TypeOK, Overlap
  <2>2. Cardinality(Debtors(slot)) \in Nat
    BY SessionSets DEF Debtors
  <2>3. Margin(ledger[slot]) >= -(Overlap - 1)
    BY <2>1, <2>2, <2>4
  <2> QED
    BY <2>3, <2>4 DEF Margin
<1> QED
  BY <1>1, Inductive, PTL

\* A decision is given back, and a person granted, no more often than the
\* requests that overlapped explain (delete_roadmap_item,
\* ensure_person_allocation_in_period).
THEOREM LedgerLimited == Spec => []LedgerBounded
<1>1. IInv => RefundsBounded
  <2> SUFFICES ASSUME IInv, NEW d \in Decisions
               PROVE  spends[d].refunds <= spends[d].debits + rivals
    BY DEF RefundsBounded
  <2>1. /\ spends[d].refunds \in Nat /\ spends[d].debits \in Nat
        /\ spends[d].refunds - spends[d].debits + Cardinality(Refunders(d)) <= Overlap - 1
    BY DEF IInv, Structure, TypeOK, Spend, RefundInv
  <2>3. Overlap \in Nat /\ rivals = Overlap - 1
    BY DEF IInv, Structure, TypeOK, Overlap
  <2>2. Cardinality(Refunders(d)) \in Nat
    BY SessionSets DEF Refunders
  <2> QED
    BY <2>1, <2>2, <2>3
<1>2. IInv => AllocsBounded
  <2> SUFFICES ASSUME IInv, NEW slot \in Slots
               PROVE  ledger[slot].allocs <= rivals + 1
    BY DEF AllocsBounded
  <2>1. /\ ledger[slot].allocs \in Nat
        /\ ledger[slot].allocs + Cardinality(Allocators(slot)) <= Overlap
    BY DEF IInv, Structure, TypeOK, Row, AllocInv
  <2>3. Overlap \in Nat /\ rivals = Overlap - 1
    BY DEF IInv, Structure, TypeOK, Overlap
  <2>2. Cardinality(Allocators(slot)) \in Nat
    BY SessionSets DEF Allocators
  <2> QED
    BY <2>1, <2>2, <2>3
<1>3. IInv => LedgerBounded
  BY <1>1, <1>2 DEF LedgerBounded, IInv, Structure
<1> QED
  BY <1>3, Inductive, PTL

---------------------------------------------------------------------------
(* How many periods a day has. A request makes one only when it finds none *)
(* active; then the periods to come are those of the requests in progress, *)
(* and whoever commits later finds its period counted already. An end is   *)
(* only ever moved to a day that is past.                                  *)

\* The periods that requests are about to make.
Coming == {q \in PeriodIds : \E s \in Sessions : /\ Pending(s)
                                                 /\ session[s].new # NULL
                                                 /\ session[s].new.id = q}

Timely(w) ==
  /\ \A q \in DOMAIN w.ends : w.ends[q] < day
  /\ w.new # NULL => w.new.row.start <= day

\* What a request that begins today is about to write.
TimelyRequest(w) == Timely(w) /\ (w.new # NULL => Active = {})

TimelyInv ==
  /\ \A q \in PeriodIds : periods[q] # NULL => periods[q].start <= day
  /\ \A s \in Sessions : Pending(s) => Timely(session[s])

PeriodsInv == TimelyInv /\ Cardinality(Active \cup Coming) <= Overlap

LEMMA FewPeriods ==
  ASSUME NEW S, NEW T, S \subseteq T, T \subseteq PeriodIds
  PROVE  Cardinality(S) \in Nat /\ Cardinality(T) \in Nat /\ Cardinality(S) <= Cardinality(T)
<1>1. IsFiniteSet(PeriodIds)
  BY BudgetAssumption, FS_Interval DEF PeriodIds
<1>2. IsFiniteSet(T) /\ IsFiniteSet(S)
  BY <1>1, FS_Subset
<1> QED
  BY <1>2, FS_Subset, FS_CardinalityType

LEMMA EnsureTimely ==
  ASSUME TypeOK, CanEnsure, NEW allowance, NEW e, e = Ensured(allowance),
         NEW w, w.new = e.new, w.ends = e.ends
  PROVE  TimelyRequest(w)
<1>1. day \in Nat
  BY BudgetAssumption DEF TypeOK
<1>2. CASE Active # {}
  <2>1. /\ e.new = NULL
        /\ e.ends = [q \in Active \ {Chosen} |->
                       Earlier(periods[q].end, periods[Chosen].start - 1)]
    BY <1>2 DEF Ensured
  <2>2. Chosen \in Active
    BY <1>2, ChosenActive
  <2>3. ASSUME NEW q \in Active \ {Chosen}
        PROVE  e.ends[q] < day
    <3>1. periods[q] \in Period /\ periods[Chosen] \in Period /\ periods[Chosen].start <= day
      BY <2>2 DEF TypeOK, Active
    <3>2. periods[q].end \in Int /\ periods[Chosen].start \in Nat
      BY <3>1, BudgetAssumption DEF Period
    <3>3. e.ends[q] = Earlier(periods[q].end, periods[Chosen].start - 1)
      BY <2>1
    <3> QED
      BY <1>1, <3>1, <3>2, <3>3 DEF Earlier
  <2> QED
    BY <2>1, <2>3 DEF TimelyRequest, Timely
<1>3. CASE Active = {}
  <2>1. e.new.row = Window /\ DOMAIN e.ends = {}
    BY <1>3, EnsuredMade
  <2>2. e.new.row.start <= day
    BY <1>1, <2>1 DEF Window
  <2> QED
    BY <1>3, <2>1, <2>2 DEF TimelyRequest, Timely
<1> QED
  BY <1>2, <1>3

\* Every request is timely when it begins.
LEMMA RequestTimely ==
  ASSUME TypeOK, NEW s \in Sessions, Request(s)
  PROVE  \E w : Begin(s, w) /\ TimelyRequest(w)
<1>1. ASSUME NEW d \in Decisions, NEW p \in members, BeginOverride(s, d, p)
      PROVE  \E w : Begin(s, w) /\ TimelyRequest(w)
  <2> DEFINE e == Ensured(policy)
             slot == <<e.period, p>>
             seen == Visible(e, slot)
             w == [EnsureWrites(e) EXCEPT
                     !.rows[slot] = Debited(Plus(@, Allocation(seen, policy[p]))),
                     !.spend = [op |-> "debit", decision |-> d, slot |-> slot],
                     !.item = [op |-> "add", decision |-> d]]
  <2>1. Begin(s, w) /\ CanEnsure
    BY <1>1 DEF BeginOverride
  <2>2. w.new = e.new /\ w.ends = e.ends
    <3> HIDE DEF e, slot, seen
    <3> QED
      BY EnsureFields
  <2>3. TimelyRequest(w)
    <3> HIDE DEF w
    <3> QED
      BY <2>1, <2>2, EnsureTimely
  <2> QED
    BY <2>1, <2>3
<1>2. ASSUME NEW i \in 1..MaxItems, BeginDeleteItem(s, i)
      PROVE  \E w : Begin(s, w) /\ TimelyRequest(w)
  <2>1. \A w : w.new = NULL /\ w.ends = <<>> => TimelyRequest(w)
    BY DEF TimelyRequest, Timely
  <2> DEFINE d == items[i].decision
             w == [NoWrites EXCEPT !.item = [op |-> "delete", id |-> i]]
             u(slot) == [w EXCEPT !.rows[slot] = Returned,
                           !.spend = [op |-> "refund", decision |-> d, slot |-> slot]]
  <2>2. /\ w.new = NULL /\ w.ends = <<>>
        /\ \A slot : u(slot).new = NULL /\ u(slot).ends = <<>>
    BY DEF NoWrites
  <2>3. Begin(s, w) \/ \E slot \in spends[d].slots : Begin(s, u(slot))
    BY <1>2, Zenon DEF BeginDeleteItem
  <2> HIDE DEF w, u
  <2> QED
    BY <2>1, <2>2, <2>3
<1>3. ASSUME BeginSummary(s)
      PROVE  \E w : Begin(s, w) /\ TimelyRequest(w)
  <2> DEFINE e == Ensured(policy)
             w == EnsureWrites(e)
  <2>1. Begin(s, w) /\ CanEnsure
    BY <1>3 DEF BeginSummary
  <2>2. w.new = e.new /\ w.ends = e.ends
    <3> HIDE DEF e
    <3> QED
      BY EnsureFields
  <2>3. TimelyRequest(w)
    <3> HIDE DEF w
    <3> QED
      BY <2>1, <2>2, EnsureTimely
  <2> QED
    BY <2>1, <2>3
<1>4. ASSUME NEW next \in [Persons -> Allowances], BeginPolicy(s, next)
      PROVE  \E w : Begin(s, w) /\ TimelyRequest(w)
  <2> DEFINE e == Ensured(next)
             seen(p) == Visible(e, <<e.period, p>>)
             delta(p) == next[p] - seen(p).allowance
             rows == [slot \in Slots |->
                        IF slot[1] = e.period /\ slot[2] \in members
                        THEN LET p == slot[2]
                             IN Plus(Plus(e.rows[slot], Allocation(seen(p), next[p])),
                                     Adjusted(delta(p)))
                        ELSE e.rows[slot]]
             w == [EnsureWrites(e) EXCEPT !.policy = next, !.rows = rows]
  <2>1. Begin(s, w) /\ CanEnsure
    BY <1>4 DEF BeginPolicy
  <2>2. w.new = e.new /\ w.ends = e.ends
    <3> HIDE DEF e, rows
    <3> QED
      BY EnsureFields
  <2>3. TimelyRequest(w)
    <3> HIDE DEF w
    <3> QED
      BY <2>1, <2>2, EnsureTimely
  <2> QED
    BY <2>1, <2>3
<1>5. ASSUME BeginReset(s)
      PROVE  \E w : Begin(s, w) /\ TimelyRequest(w)
  <2> DEFINE e == Ensured(policy)
             w == [EnsureWrites(e) EXCEPT !.reset = e.period]
             made == [w EXCEPT !.new.row.end = day - 1]
             ends == [q \in Active |-> IF q = e.period THEN day - 1 ELSE e.ends[q]]
             found == [w EXCEPT !.ends = ends]
  <2>1. CanEnsure /\ Begin(s, IF e.new # NULL THEN made ELSE found)
    BY <1>5 DEF BeginReset
  <2>2. w = [new |-> e.new, ends |-> e.ends, rows |-> e.rows, spend |-> NULL,
             item |-> NULL, policy |-> NULL, reset |-> e.period]
    <3> HIDE DEF e
    <3> QED
      BY EnsureFields
  <2>3. day \in Nat
    BY BudgetAssumption DEF TypeOK
  <2>4. CASE Active = {}
    <3>1. e = [period |-> nextPeriod, new |-> [id |-> nextPeriod, row |-> Window],
               rows |-> NewRows(policy), ends |-> <<>>]
      BY <2>4 DEF Ensured, NewRows
    <3>2. e.new # NULL
      <4> HIDE DEF e
      <4> QED
        BY <2>1, <2>4, EnsuredMade DEF e
    <3> HIDE DEF e
    <3>3. /\ made.new = [e.new EXCEPT !.row.end = day - 1] /\ made.ends = e.ends
      BY <2>2
    <3>4. made.new.row.start = day /\ DOMAIN made.ends = {}
      BY <3>1, <3>3 DEF Window
    <3> HIDE DEF made
    <3>5. TimelyRequest(made)
      BY <2>3, <2>4, <3>4 DEF TimelyRequest, Timely
    <3> QED
      BY <2>1, <3>2, <3>5
  <2>5. CASE Active # {}
    <3>1. e.new = NULL /\ DOMAIN e.ends = Active \ {e.period}
      <4> HIDE DEF e
      <4> QED
        BY <2>5, EnsuredFound DEF e
    <3>2. \A q \in DOMAIN e.ends : e.ends[q] < day
      <4> HIDE DEF e
      <4> QED
        BY <2>1, EnsureTimely DEF TimelyRequest, Timely, e
    <3> HIDE DEF e
    <3>3. found.new = e.new /\ found.ends = ends
      BY <2>2
    <3>4. \A q \in Active : ends[q] < day
      BY <2>3, <3>1, <3>2
    <3>5. DOMAIN ends = Active
      OBVIOUS
    <3> HIDE DEF found, ends
    <3>6. TimelyRequest(found)
      BY <3>1, <3>3, <3>4, <3>5 DEF TimelyRequest, Timely
    <3> QED
      BY <2>1, <3>1, <3>6
  <2> QED
    BY <2>4, <2>5
<1> QED
  BY <1>1, <1>2, <1>3, <1>4, <1>5 DEF Request

\* A request that begins adds to the periods to come only when there are none.
LEMMA BeginPeriods ==
  ASSUME IInv, IInv', PeriodsInv, NEW s \in Sessions, NEW w, Begin(s, w), TimelyRequest(w)
  PROVE  PeriodsInv'
<1>1. /\ session[s] = NULL /\ session' = [session EXCEPT ![s] = w]
      /\ day' = day /\ periods' = periods
      /\ rivals' = IF Cardinality(InProgress) > rivals THEN Cardinality(InProgress) ELSE rivals
  BY DEF Begin, InProgress, Pending
<1>2. /\ session'[s] = w
      /\ \A t \in Sessions \ {s} : session'[t] = session[t]
  BY <1>1 DEF IInv, Structure, SessionsOK
<1>3. TimelyInv'
  BY <1>1, <1>2 DEF PeriodsInv, TimelyInv, TimelyRequest, Timely, Pending
<1>4. Active' = Active
  BY <1>1 DEF Active
<1>5. Active' \subseteq PeriodIds /\ Coming' \subseteq PeriodIds
  BY DEF Active, Coming
<1>6. Cardinality(Active' \cup Coming') <= Overlap'
  <2>1. CASE w.new = NULL
    <3>1. Coming' = Coming
      BY <1>1, <1>2, <2>1 DEF Coming, Pending
    <3>2. Cardinality(Active' \cup Coming') <= Overlap
      BY <1>4, <3>1 DEF PeriodsInv
    <3>3. Cardinality(Active' \cup Coming') \in Nat
      BY <1>5, FewPeriods
    <3>4. Overlap <= Overlap' /\ Overlap \in Nat /\ Overlap' \in Nat
      <4>1. InProgress \subseteq Sessions
        BY DEF InProgress
      <4>2. Cardinality(InProgress) \in Nat /\ rivals \in Nat /\ rivals' \in Nat
        BY <4>1, SessionSets DEF IInv, Structure, TypeOK
      <4>3. rivals <= rivals'
        BY <1>1, <4>2
      <4>4. PICK now \in Nat, then \in Nat : now = rivals /\ then = rivals'
        BY <4>2
      <4>8. now <= then
        BY <4>3, <4>4
      <4>5. now + 1 <= then + 1 /\ now + 1 \in Nat /\ then + 1 \in Nat
        BY <4>8
      <4>6. Overlap = now + 1
        BY <4>4 DEF Overlap
      <4>7. Overlap' = then + 1
        BY <4>4 DEF Overlap
      <4> QED
        BY <4>5, <4>6, <4>7
    <3> QED
      BY <3>2, <3>3, <3>4
  <2>2. CASE w.new # NULL
    <3> DEFINE makers == {t \in Sessions : /\ session'[t] # NULL /\ session'[t].new # NULL
                                           /\ session'[t].new.id \in PeriodIds}
               made == [t \in makers |-> session'[t].new.id]
    <3>1. Active' = {}
      BY <1>4, <2>2 DEF TimelyRequest
    <3>2. Coming' = {q \in PeriodIds : \E t \in makers : session'[t].new.id = q}
      BY DEF Coming, Pending
    <3>3. made \in Surjection(makers, Coming')
      BY <3>2 DEF Surjection
    <3>4. makers \subseteq InProgress' /\ InProgress' \subseteq Sessions
      BY DEF InProgress, Pending
    <3> HIDE DEF makers, made
    <3>5. IsFiniteSet(InProgress') /\ IsFiniteSet(makers)
          /\ Cardinality(makers) <= Cardinality(InProgress')
      BY <3>4, SessionSets, FS_Subset
    <3>6. Cardinality(Coming') <= Cardinality(makers)
      BY <3>3, <3>5, FS_Surjection
    <3>7. Cardinality(InProgress') <= Overlap'
      <4>1. Cardinality(InProgress)' = Cardinality(InProgress')
        BY DEF InProgress, Pending
      <4> QED
        BY <4>1 DEF IInv, CrowdInv
    <3>8. Overlap' \in Nat
      <4>1. rivals' \in Nat
        BY DEF IInv, Structure, TypeOK
      <4>2. PICK n \in Nat : n = rivals'
        BY <4>1
      <4>3. Overlap' = n + 1
        BY <4>2 DEF Overlap
      <4> QED
        BY <4>3
    <3>9. /\ Cardinality(Coming') \in Nat /\ Cardinality(makers) \in Nat
          /\ Cardinality(InProgress') \in Nat
      BY <1>5, <3>4, <3>5, FewPeriods, FS_CardinalityType
    <3>10. Cardinality(Coming') <= Overlap'
      BY <3>5, <3>6, <3>7, <3>8, <3>9
    <3>11. Active' \cup Coming' = Coming'
      BY <3>1
    <3> QED
      BY <3>10, <3>11
  <2> QED
    BY <2>1, <2>2
<1>7. Cardinality(Active \cup Coming)' = Cardinality(Active' \cup Coming')
  BY DEF Active, Coming, Pending
<1> QED
  BY <1>3, <1>6, <1>7 DEF PeriodsInv

\* Every other step makes no period active that was not, or not to come.
LEMMA FewerPeriods ==
  ASSUME IInv, PeriodsInv, TimelyInv', UNCHANGED rivals,
         Active' \cup Coming' \subseteq Active \cup Coming
  PROVE  PeriodsInv'
<1>1. Active \cup Coming \subseteq PeriodIds
  BY DEF Active, Coming
<1>2. /\ Cardinality(Active' \cup Coming') \in Nat /\ Cardinality(Active \cup Coming) \in Nat
      /\ Cardinality(Active' \cup Coming') <= Cardinality(Active \cup Coming)
  BY <1>1, FewPeriods
<1>3. Overlap' = Overlap /\ Overlap \in Nat
  BY DEF Overlap, IInv, Structure, TypeOK
<1>4. Cardinality(Active' \cup Coming') <= Overlap'
  BY <1>2, <1>3 DEF PeriodsInv
<1>5. Cardinality(Active \cup Coming)' = Cardinality(Active' \cup Coming')
  BY DEF Active, Coming, Pending
<1> QED
  BY <1>4, <1>5 DEF PeriodsInv

LEMMA CommitPeriodsStep ==
  ASSUME IInv, PeriodsInv, NEW s \in Sessions, Commit(s)
  PROVE  PeriodsInv'
<1> DEFINE w == session[s]
<1>1. /\ w # NULL /\ SessionOK(w) /\ CommitPeriods(w) /\ Timely(w) /\ TypeOK
      /\ session' = [session EXCEPT ![s] = NULL] /\ day' = day /\ rivals' = rivals
  BY DEF Commit, IInv, Structure, SessionsOK, PeriodsInv, TimelyInv, Pending
<1>2. /\ session'[s] = NULL
      /\ \A t \in Sessions \ {s} : session'[t] = session[t]
  BY <1>1 DEF IInv, Structure, SessionsOK
<1>3. Coming' \subseteq Coming
  BY <1>2 DEF Coming, Pending
<1>4. ASSUME NEW q \in PeriodIds, periods'[q] # NULL
      PROVE  /\ periods'[q].start <= day
             /\ q \in Active' => q \in Active \cup Coming
  <2>1. CASE w.new # NULL /\ w.new.id = q
    <3>1. periods'[q] = w.new.row
      BY <1>1, <2>1 DEF CommitPeriods
    <3>2. q \in Coming
      BY <1>1, <2>1 DEF Coming, Pending
    <3> QED
      BY <1>1, <2>1, <3>1, <3>2 DEF Timely
  <2>2. CASE ~(w.new # NULL /\ w.new.id = q) /\ q \in DOMAIN w.ends
    <3> DEFINE end == w.ends[q]
    <3>1. periods'[q] = [periods[q] EXCEPT !.end = end]
      BY <1>1, <2>2 DEF CommitPeriods
    <3>2. periods[q] # NULL /\ periods[q] \in Period /\ end \in Int /\ end < day
      BY <1>1, <2>2 DEF SessionOK, EndsOK, EndOf, TypeOK, Timely
    <3> HIDE DEF end
    <3>3. periods'[q].start = periods[q].start /\ periods'[q].end = end
      BY <3>1, <3>2 DEF Period
    <3>4. periods[q].start <= day
      BY <3>2 DEF PeriodsInv, TimelyInv
    <3>5. day \in Nat
      BY <1>1, BudgetAssumption DEF TypeOK
    <3>6. q \notin Active'
      BY <1>1, <3>2, <3>3, <3>5 DEF Active
    <3> QED
      BY <3>3, <3>4, <3>6
  <2>3. CASE ~(w.new # NULL /\ w.new.id = q) /\ q \notin DOMAIN w.ends
    <3>1. periods'[q] = periods[q]
      BY <1>1, <2>3 DEF CommitPeriods
    <3>2. periods[q].start <= day
      BY <1>4, <3>1 DEF PeriodsInv, TimelyInv
    <3>3. q \in Active' => q \in Active
      BY <1>1, <3>1 DEF Active
    <3> QED
      BY <3>1, <3>2, <3>3
  <2> QED
    BY <2>1, <2>2, <2>3
<1>5. TimelyInv'
  BY <1>1, <1>2, <1>4 DEF PeriodsInv, TimelyInv, Timely, Pending
<1>6. Active' \cup Coming' \subseteq Active \cup Coming
  BY <1>3, <1>4 DEF Active
<1> QED
  BY <1>1, <1>5, <1>6, FewerPeriods

\* Days only pass.
LEMMA NextDayPeriods ==
  ASSUME IInv, PeriodsInv, NextDay
  PROVE  PeriodsInv'
<1>1. /\ day < day' /\ day \in Nat /\ day' \in Nat /\ TypeOK
      /\ periods' = periods /\ session' = session /\ rivals' = rivals
  BY BudgetAssumption DEF NextDay, IInv, Structure, TypeOK
<1>2. PICK today \in Nat, later \in Nat : today = day /\ later = day' /\ today < later
  BY <1>1
<1>3. \A n \in Int : n <= today => n <= later
  BY <1>2
<1>4. \A n \in Int : n < today => n < later
  BY <1>2
<1>5. ASSUME NEW q \in PeriodIds, periods[q] # NULL
      PROVE  /\ periods[q].start <= later
             /\ periods[q].start <= today
             /\ later <= periods[q].end => today <= periods[q].end
  <2>1. periods[q] \in Period
    BY <1>1, <1>5 DEF TypeOK
  <2>2. periods[q].start \in Nat /\ periods[q].end \in Int
    BY <2>1, BudgetAssumption DEF Period
  <2>3. periods[q].start <= today
    BY <1>2, <1>5 DEF PeriodsInv, TimelyInv
  <2> QED
    BY <1>2, <1>3, <2>2, <2>3
<1>6. ASSUME NEW s \in Sessions, Pending(s)
      PROVE  /\ \A q \in DOMAIN session[s].ends : session[s].ends[q] < later
             /\ session[s].new # NULL => session[s].new.row.start <= later
  <2>1. SessionOK(session[s]) /\ Timely(session[s])
    BY <1>6 DEF IInv, Structure, SessionsOK, PeriodsInv, TimelyInv
  <2>2. \A q \in DOMAIN session[s].ends : session[s].ends[q] \in Int
    BY <2>1 DEF SessionOK, EndsOK, EndOf
  <2>3. session[s].new # NULL => session[s].new.row.start \in Nat
    BY <2>1, BudgetAssumption DEF SessionOK, WritesOK, NewPeriod, Period
  <2> QED
    BY <1>2, <1>3, <1>4, <2>1, <2>2, <2>3 DEF Timely
<1>7. TimelyInv'
  BY <1>1, <1>2, <1>5, <1>6 DEF TimelyInv, Timely, Pending
<1>8. Coming' = Coming /\ Active' \subseteq Active
  BY <1>1, <1>2, <1>5 DEF Coming, Pending, Active
<1> QED
  BY <1>1, <1>7, <1>8, FewerPeriods

LEMMA PeriodsStep ==
  ASSUME IInv, IInv', PeriodsInv, [Next]_vars
  PROVE  PeriodsInv'
<1>1. TypeOK
  BY DEF IInv, Structure
<1>2. ASSUME NEW s \in Sessions, Request(s)
      PROVE  PeriodsInv'
  BY <1>1, <1>2, RequestTimely, BeginPeriods
<1>3. ASSUME NEW s \in Sessions, Commit(s)
      PROVE  PeriodsInv'
  BY <1>3, CommitPeriodsStep
<1>4. ASSUME NEW s \in Sessions, Rollback(s)
      PROVE  PeriodsInv'
  <2>1. /\ session'[s] = NULL
        /\ \A t \in Sessions \ {s} : session'[t] = session[t]
        /\ UNCHANGED <<day, periods, rivals>>
    BY <1>4 DEF Rollback, IInv, Structure, SessionsOK
  <2>2. TimelyInv'
    BY <2>1 DEF PeriodsInv, TimelyInv, Timely, Pending
  <2>3. Active' \cup Coming' \subseteq Active \cup Coming
    BY <2>1 DEF Active, Coming, Pending
  <2> QED
    BY <2>1, <2>2, <2>3, FewerPeriods
<1>5. ASSUME UNCHANGED <<day, periods, session, rivals>>
      PROVE  PeriodsInv'
  <2>1. TimelyInv'
    BY <1>5 DEF PeriodsInv, TimelyInv, Timely, Pending
  <2>2. Active' \cup Coming' \subseteq Active \cup Coming
    BY <1>5 DEF Active, Coming, Pending
  <2> QED
    BY <1>5, <2>1, <2>2, FewerPeriods
<1>6. ASSUME NextDay
      PROVE  PeriodsInv'
  BY <1>6, NextDayPeriods
<1>7. ASSUME NEW d \in Decisions, Schedule(d)
      PROVE  PeriodsInv'
  BY <1>5, <1>7 DEF Schedule
<1>8. ASSUME NEW i \in 1..MaxItems, NEW done \in BOOLEAN, UpdateItem(i, done)
      PROVE  PeriodsInv'
  BY <1>5, <1>8 DEF UpdateItem
<1>9. ASSUME NEW p \in Persons, Join(p)
      PROVE  PeriodsInv'
  BY <1>5, <1>9 DEF Join
<1>10. ASSUME UNCHANGED vars
       PROVE  PeriodsInv'
  BY <1>5, <1>10 DEF vars
<1> QED
  BY <1>2, <1>3, <1>4, <1>6, <1>7, <1>8, <1>9, <1>10 DEF Next

LEMMA InitPeriods == Init => PeriodsInv
<1> SUFFICES ASSUME Init PROVE PeriodsInv
  OBVIOUS
<1>1. TimelyInv /\ Active = {} /\ Coming = {} /\ Overlap = 1
  BY DEF Init, TimelyInv, Active, Coming, Pending, Overlap
<1>2. Cardinality(Active \cup Coming) = 0
  <2>1. Active \cup Coming = {}
    BY <1>1
  <2> QED
    BY <2>1, FS_EmptySet
<1> QED
  BY <1>1, <1>2 DEF PeriodsInv

\* A day has one period, and at most one more for each of the most requests that were in
\* progress when another began, for every calendar and every order of resets, requests and
\* commits (ensure_active_period, reset_budget_period). As long as requests come one after
\* another, a day has one period.
THEOREM PeriodsLimited == Spec => []ActiveBounded
<1>1. IInv /\ PeriodsInv => ActiveBounded
  <2> SUFFICES ASSUME IInv, PeriodsInv PROVE ActiveBounded
    OBVIOUS
  <2> DEFINE today == {q \in PeriodIds : /\ periods[q] # NULL
                                         /\ day \in periods[q].start..periods[q].end}
  <2>1. today \subseteq Active
    BY BudgetAssumption DEF Active, IInv, Structure, TypeOK, Period
  <2>2. today \subseteq Active \cup Coming /\ Active \cup Coming \subseteq PeriodIds
    BY <2>1 DEF Active, Coming
  <2> HIDE DEF today
  <2>3. /\ Cardinality(today) \in Nat /\ Cardinality(Active \cup Coming) \in Nat
        /\ Cardinality(today) <= Cardinality(Active \cup Coming)
    BY <2>2, FewPeriods
  <2>4. Cardinality(Active \cup Coming) <= rivals + 1 /\ rivals \in Nat
    BY DEF PeriodsInv, Overlap, IInv, Structure, TypeOK
  <2>5. Cardinality(today) <= rivals + 1
    BY <2>3, <2>4
  <2> QED
    BY <2>5 DEF ActiveBounded, today
<1>2. Init => IInv /\ PeriodsInv
  BY InitOK, InitPeriods
<1>3. (IInv /\ PeriodsInv) /\ [Next]_vars => (IInv /\ PeriodsInv)'
  BY NextStep, PeriodsStep
<1> QED
  BY <1>1, <1>2, <1>3, PTL DEF Spec

---------------------------------------------------------------------------
(* A decision and the goals it is scored against (MCBudgetLedger)          *)

\* Goals as they were read, and a run with its components.
ScoredGoals == UNION {[G -> Choices!Goal] : G \in SUBSET Goals}
ScoreRun == [version : Choices!Revisions, policy : Choices!Policies, scored : ScoredGoals]

\* A goal counts for a decision of this policy.
Counts(goal, pol) ==
  /\ goal.status = "active" /\ ~goal.deleted
  /\ goal.scope = "family" \/ pol = "family_plus_person"

\* A goal that was read is as it was read, or has a later revision, or is raced.
Pinned(read, gs, rc) ==
  \A g \in DOMAIN read :
    /\ gs[g] # NULL
    /\ g \notin rc => /\ read[g].revision <= gs[g].revision
                      /\ read[g].revision = gs[g].revision => gs[g] = read[g]

ReadOK(read, pol, gs, rc) ==
  /\ read \in ScoredGoals
  /\ \A g \in DOMAIN read : Counts(read[g], pol)
  /\ Pinned(read, gs, rc)

RunOK(run, gs, dec, rc) ==
  /\ ReadOK(run.scored, run.policy, gs, rc)
  /\ dec # NULL
  /\ "decision" \notin rc => /\ run.version <= dec.version
                             /\ run.version = dec.version => dec.policy = run.policy

GoalRequestOK(r, gs) ==
  /\ DOMAIN r = {"op", "goal", "was", "next", "overtaken"}
  /\ r.goal \in Goals /\ gs[r.goal] # NULL
  /\ {r.was, r.next} \subseteq Choices!Goal /\ r.next.revision = r.was.revision + 1
  /\ r.overtaken \in BOOLEAN /\ (~r.overtaken => gs[r.goal] = r.was)

\* Whether the decision is in the queue after a commit.
QueueAfter(queue, it) == IF queue = "none" THEN it ELSE queue = "insert"

\* What a request is to make of the decision it has read, which is as it was
\* read unless it was overtaken.
DecisionRequestOK(r, gs, dec, it, rc) ==
  /\ DOMAIN r = {"op", "was", "next", "queue", "sets", "answers", "run", "overtaken"}
  /\ dec # NULL /\ {r.was, r.next} \subseteq Choices!Decision
  /\ r.was.version <= r.next.version
  /\ r.was.version = r.next.version => r.next.policy = r.was.policy
  /\ r.overtaken \in BOOLEAN /\ (~r.overtaken => dec = r.was)
  /\ r.sets \in {"both", "status", "nothing"}
  /\ r.sets = "nothing" => r.queue = "none" /\ r.next.status = r.was.status
  /\ r.sets = "both" /\ ~r.overtaken =>
       (QueueAfter(r.queue, it) <=> r.next.status = "Queued")
  /\ r.run # NULL => /\ r.run \in ScoreRun
                     /\ ReadOK(r.run.scored, r.run.policy, gs, rc)
                     /\ r.run.version = r.next.version /\ r.run.policy = r.next.policy

\* The family's goals that count.
FamilyGoals(gs) == {g \in Goals : gs[g] # NULL /\ Counts(gs[g], "family_only")}

ScoreRequestOK(r, gs, dec, rc) ==
  /\ DOMAIN r = {"op", "was", "moved", "overtaken", "read"}
  /\ dec # NULL /\ r.was \in Choices!Decision
  /\ r.overtaken \in BOOLEAN /\ (~r.overtaken => dec = r.was)
  /\ ReadOK(r.read, "family_only", gs, rc)
  /\ DOMAIN r.read \ r.moved = FamilyGoals(gs) \ r.moved

ChoiceOK(r, gs, dec, it, rc) ==
  \/ r.op = "goal"     /\ GoalRequestOK(r, gs)
  \/ r.op = "decision" /\ DecisionRequestOK(r, gs, dec, it, rc)
  \/ r.op = "score"    /\ ScoreRequestOK(r, gs, dec, rc)
  \/ r.op \in {"answer", "failed"}

ChoicesOK(rs, gs, dec, it, rc) ==
  /\ DOMAIN rs = Sessions
  /\ \A s \in Sessions : rs[s] # NULL => ChoiceOK(rs[s], gs, dec, it, rc)

RunsOK(rn, gs, dec, rc) ==
  /\ rn \in Seq(ScoreRun)
  /\ \A i \in 1..Len(rn) : RunOK(rn[i], gs, dec, rc)

GoalsOK(gs) == DOMAIN gs = Goals /\ \A g \in Goals : gs[g] = NULL \/ gs[g] \in Choices!Goal

DecisionOK(dec, it, ls) ==
  /\ it \in BOOLEAN /\ ls \in BOOLEAN
  /\ dec = NULL => it = FALSE
  /\ dec # NULL => /\ dec \in Choices!Decision
                   /\ ~ls => (it <=> dec.status = "Queued")

ChoicesInv ==
  /\ GoalsOK(goals) /\ DecisionOK(decision, item, loose)
  /\ RunsOK(runs, goals, decision, raced)
  /\ ChoicesOK(request, goals, decision, item, raced)

\* What the assumption says of the values that occur.
LEMMA ChoicesFacts ==
  /\ Posted \subseteq Choices!DecisionStatus /\ GoalStates \subseteq Choices!GoalStatus
  /\ MaxRevision \in Nat /\ MaxRuns \in Nat
  /\ NULL \notin Choices!Goal /\ NULL \notin Choices!Decision
BY ChoicesAssumption DEF Choices!DecisionsAssumption

\* What is read stays pinned when a goal gets a later revision, or is raced.
Moves(gs, gs2, g, rc, rc2) ==
  /\ GoalsOK(gs) /\ GoalsOK(gs2) /\ rc \subseteq rc2
  /\ gs2[g] # NULL /\ \A h \in Goals \ {g} : gs2[h] = gs[h]
  /\ g \notin rc2 /\ gs[g] # NULL => gs[g].revision < gs2[g].revision

LEMMA ReadKept ==
  ASSUME NEW read, NEW pol, NEW gs, NEW gs2, NEW g \in Goals, NEW rc, NEW rc2,
         ReadOK(read, pol, gs, rc), Moves(gs, gs2, g, rc, rc2)
  PROVE  ReadOK(read, pol, gs2, rc2)
<1>1. ASSUME NEW h \in DOMAIN read
      PROVE  /\ gs2[h] # NULL
             /\ h \notin rc2 => /\ read[h].revision <= gs2[h].revision
                                /\ read[h].revision = gs2[h].revision => gs2[h] = read[h]
  <2>1. h \in Goals /\ read[h] \in Choices!Goal
    BY DEF ReadOK, ScoredGoals
  <2>2. CASE h # g
    BY <2>1, <2>2 DEF ReadOK, Pinned, Moves
  <2>3. CASE h = g
    <3>1. gs[g] # NULL /\ gs[g] \in Choices!Goal /\ gs2[g] \in Choices!Goal
      BY <2>1, <2>3 DEF ReadOK, Pinned, Moves, GoalsOK
    <3>2. read[h].revision \in Int /\ gs[g].revision \in Int /\ gs2[g].revision \in Int
      BY <2>1, <3>1, ChoicesFacts DEF Choices!Goal, Choices!Revisions
    <3> QED
      BY <2>3, <3>1, <3>2 DEF ReadOK, Pinned, Moves
  <2> QED
    BY <2>2, <2>3
<1> QED
  BY <1>1 DEF ReadOK, Pinned

\* What is read stays pinned when more is raced.
LEMMA ReadRaced ==
  ASSUME NEW read, NEW pol, NEW gs, NEW rc, NEW rc2, ReadOK(read, pol, gs, rc), rc \subseteq rc2
  PROVE  ReadOK(read, pol, gs, rc2)
BY DEF ReadOK, Pinned

\* A request that a commit on x overtakes.
OvertakenBy(r, x) ==
  IF (r.op = "goal" /\ r.goal = x) \/ (r.op = "decision" /\ x = "decision")
  THEN [r EXCEPT !.overtaken = TRUE]
  ELSE IF r.op = "score"
  THEN [r EXCEPT !.overtaken = @ \/ x = "decision", !.moved = @ \cup {x}]
  ELSE r

\* Overtake treats each other request by itself.
LEMMA OvertakeEach ==
  ASSUME NEW s, NEW x, NEW t \in Sessions
  PROVE  Choices!Overtake(s, x)[t] = IF t = s \/ request[t] = NULL THEN NULL
                                     ELSE OvertakenBy(request[t], x)
<1>1. Choices!Overtake(s, x)[t] =
     IF t = s THEN NULL
     ELSE IF request[t] = NULL THEN NULL
     ELSE IF request[t].op = "goal" /\ request[t].goal = x
          THEN [request[t] EXCEPT !.overtaken = TRUE]
     ELSE IF request[t].op = "decision" /\ x = "decision"
          THEN [request[t] EXCEPT !.overtaken = TRUE]
     ELSE IF request[t].op = "score"
          THEN [request[t] EXCEPT !.overtaken = @ \/ x = "decision", !.moved = @ \cup {x}]
     ELSE request[t]
  BY DEF Choices!Overtake
<1> QED
  BY <1>1, Zenon DEF OvertakenBy

\* A request that a commit of a goal overtakes is still one that may be open.
LEMMA OvertakenByGoal ==
  ASSUME NEW r, NEW gs, NEW gs2, NEW g \in Goals, NEW dec, NEW it, NEW rc, NEW rc2,
         ChoiceOK(r, gs, dec, it, rc), Moves(gs, gs2, g, rc, rc2)
  PROVE  ChoiceOK(OvertakenBy(r, g), gs2, dec, it, rc2)
<1>1. CASE r.op = "goal" /\ GoalRequestOK(r, gs)
  <2>1. CASE r.goal = g
    <3> DEFINE q == [r EXCEPT !.overtaken = TRUE]
    <3>1. OvertakenBy(r, g) = q
      BY <1>1, <2>1, Zenon DEF OvertakenBy
    <3>2. q.op = "goal" /\ GoalRequestOK(q, gs2)
      BY <1>1, <2>1 DEF GoalRequestOK, Moves
    <3> QED
      BY <3>1, <3>2 DEF ChoiceOK
  <2>2. CASE r.goal # g
    <3>1. OvertakenBy(r, g) = r
      BY <1>1, <2>2 DEF OvertakenBy
    <3> QED
      BY <1>1, <2>2, <3>1 DEF ChoiceOK, GoalRequestOK, Moves
  <2> QED
    BY <2>1, <2>2
<1>2. CASE r.op = "decision" /\ DecisionRequestOK(r, gs, dec, it, rc)
  <2>1. r.run # NULL => ReadOK(r.run.scored, r.run.policy, gs2, rc2)
    BY <1>2, ReadKept DEF DecisionRequestOK
  <2>2. DecisionRequestOK(r, gs2, dec, it, rc2)
    BY <1>2, <2>1 DEF DecisionRequestOK
  <2>3. CASE g = "decision"
    <3> DEFINE q == [r EXCEPT !.overtaken = TRUE]
    <3>1. OvertakenBy(r, g) = q
      BY <1>2, <2>3, Zenon DEF OvertakenBy
    <3>2. q.op = "decision" /\ DecisionRequestOK(q, gs2, dec, it, rc2)
      BY <1>2, <2>2 DEF DecisionRequestOK
    <3> QED
      BY <3>1, <3>2 DEF ChoiceOK
  <2>4. CASE g # "decision"
    BY <1>2, <2>2, <2>4 DEF OvertakenBy, ChoiceOK
  <2> QED
    BY <2>3, <2>4
<1>3. CASE r.op = "score" /\ ScoreRequestOK(r, gs, dec, rc)
  <2> DEFINE q == [r EXCEPT !.overtaken = @ \/ g = "decision", !.moved = @ \cup {g}]
  <2>1. OvertakenBy(r, g) = q
    BY <1>3 DEF OvertakenBy
  <2>2. /\ q.op = "score" /\ q.was = r.was /\ q.read = r.read /\ q.moved = r.moved \cup {g}
        /\ DOMAIN q = DOMAIN r
        /\ q.overtaken = (r.overtaken \/ g = "decision")
    BY <1>3 DEF ScoreRequestOK
  <2>3. ReadOK(r.read, "family_only", gs2, rc2)
    BY <1>3, ReadKept DEF ScoreRequestOK
  <2>4. DOMAIN r.read \ (r.moved \cup {g}) = FamilyGoals(gs2) \ (r.moved \cup {g})
    BY <1>3 DEF ScoreRequestOK, FamilyGoals, Moves
  <2> HIDE DEF q
  <2>5. ScoreRequestOK(q, gs2, dec, rc2)
    BY <1>3, <2>2, <2>3, <2>4 DEF ScoreRequestOK
  <2> QED
    BY <2>1, <2>2, <2>5 DEF ChoiceOK
<1>4. CASE r.op \in {"answer", "failed"}
  BY <1>4 DEF ChoiceOK, OvertakenBy
<1> QED
  BY <1>1, <1>2, <1>3, <1>4 DEF ChoiceOK

\* So is one that a commit of the decision overtakes.
LEMMA OvertakenByDecision ==
  ASSUME NEW r, NEW gs, NEW dec, NEW dec2, NEW it, NEW it2, NEW rc, NEW rc2,
         ChoiceOK(r, gs, dec, it, rc), dec2 # NULL, rc \subseteq rc2
  PROVE  ChoiceOK(OvertakenBy(r, "decision"), gs, dec2, it2, rc2)
<1>1. CASE r.op = "goal" /\ GoalRequestOK(r, gs)
  <2> DEFINE q == [r EXCEPT !.overtaken = TRUE]
  <2>1. OvertakenBy(r, "decision") = q \/ OvertakenBy(r, "decision") = r
    BY <1>1 DEF OvertakenBy
  <2>2. q.op = "goal" /\ GoalRequestOK(q, gs)
    BY <1>1 DEF GoalRequestOK
  <2> QED
    BY <1>1, <2>1, <2>2 DEF ChoiceOK
<1>2. CASE r.op = "decision" /\ DecisionRequestOK(r, gs, dec, it, rc)
  <2> DEFINE q == [r EXCEPT !.overtaken = TRUE]
  <2>1. r.run # NULL => ReadOK(r.run.scored, r.run.policy, gs, rc2)
    BY <1>2, ReadRaced DEF DecisionRequestOK
  <2>2. OvertakenBy(r, "decision") = q
    BY <1>2, Zenon DEF OvertakenBy
  <2>3. q.op = "decision" /\ DecisionRequestOK(q, gs, dec2, it2, rc2)
    BY <1>2, <2>1 DEF DecisionRequestOK
  <2> QED
    BY <2>2, <2>3 DEF ChoiceOK
<1>3. CASE r.op = "score" /\ ScoreRequestOK(r, gs, dec, rc)
  <2> DEFINE q == [r EXCEPT !.overtaken = @ \/ "decision" = "decision",
                            !.moved = @ \cup {"decision"}]
  <2>1. OvertakenBy(r, "decision") = q
    BY <1>3 DEF OvertakenBy
  <2>2. /\ q.op = "score" /\ q.was = r.was /\ q.read = r.read /\ DOMAIN q = DOMAIN r
        /\ q.moved = r.moved \cup {"decision"} /\ q.overtaken = TRUE
    BY <1>3 DEF ScoreRequestOK
  <2>3. ReadOK(r.read, "family_only", gs, rc2)
    BY <1>3, ReadRaced DEF ScoreRequestOK
  <2> HIDE DEF q
  <2>4. ScoreRequestOK(q, gs, dec2, rc2)
    BY <1>3, <2>2, <2>3 DEF ScoreRequestOK
  <2> QED
    BY <2>1, <2>2, <2>4 DEF ChoiceOK
<1>4. CASE r.op \in {"answer", "failed"}
  BY <1>4 DEF ChoiceOK, OvertakenBy
<1> QED
  BY <1>1, <1>2, <1>3, <1>4 DEF ChoiceOK

\* The score runs still agree when a goal gets a later revision.
LEMMA RunsKept ==
  ASSUME NEW rn, NEW gs, NEW gs2, NEW g \in Goals, NEW dec, NEW rc, NEW rc2,
         RunsOK(rn, gs, dec, rc), Moves(gs, gs2, g, rc, rc2)
  PROVE  RunsOK(rn, gs2, dec, rc2)
<1>1. ASSUME NEW i \in 1..Len(rn)
      PROVE  RunOK(rn[i], gs2, dec, rc2)
  <2>1. RunOK(rn[i], gs, dec, rc)
    BY DEF RunsOK
  <2>2. ReadOK(rn[i].scored, rn[i].policy, gs2, rc2)
    BY <2>1, ReadKept DEF RunOK
  <2>3. rc \subseteq rc2
    BY DEF Moves
  <2> QED
    BY <2>1, <2>2, <2>3 DEF RunOK
<1> QED
  BY <1>1 DEF RunsOK

\* A goal that is made or changed.
LEMMA GoalMoved ==
  ASSUME ChoicesInv, NEW s, NEW g \in Goals, Moves(goals, goals', g, raced, raced'),
         request' = Choices!Overtake(s, g), UNCHANGED <<decision, item, runs, loose>>
  PROVE  ChoicesInv'
<1>1. GoalsOK(goals')
  BY DEF Moves
<1>2. RunsOK(runs, goals', decision, raced')
  BY RunsKept DEF ChoicesInv
<1>3. ASSUME NEW t \in Sessions, request'[t] # NULL
      PROVE  ChoiceOK(request'[t], goals', decision, item, raced')
  <2>1. request[t] # NULL /\ request'[t] = OvertakenBy(request[t], g)
    BY <1>3, OvertakeEach
  <2>2. ChoiceOK(request[t], goals, decision, item, raced)
    BY <2>1 DEF ChoicesInv, ChoicesOK
  <2> QED
    BY <2>1, <2>2, OvertakenByGoal
<1>4. ChoicesOK(request', goals', decision, item, raced')
  <2>1. DOMAIN request' = Sessions
    BY DEF Choices!Overtake
  <2> QED
    BY <1>3, <2>1 DEF ChoicesOK
<1> QED
  BY <1>1, <1>2, <1>4 DEF ChoicesInv

\* A goal is made.
LEMMA CreateGoalStep ==
  ASSUME ChoicesInv, Choices!CreateGoal
  PROVE  ChoicesInv'
<1>1. PICK g \in Goals, scope \in Choices!Scopes, status \in GoalStates :
        /\ goals[g] = NULL
        /\ goals' = [goals EXCEPT ![g] = [scope |-> scope, status |-> status,
                                          deleted |-> FALSE, revision |-> 1]]
        /\ request' = Choices!Overtake(NULL, g)
        /\ UNCHANGED <<decision, item, runs, raced, loose>>
  BY DEF Choices!CreateGoal
<1> DEFINE new == [scope |-> scope, status |-> status, deleted |-> FALSE, revision |-> 1]
<1>2. new \in Choices!Goal
  BY ChoicesFacts DEF Choices!Goal, Choices!Revisions
<1> HIDE DEF new
<1>3. goals' = [goals EXCEPT ![g] = new]
  BY <1>1 DEF new
<1>4. Moves(goals, goals', g, raced, raced')
  BY <1>1, <1>2, <1>3, ChoicesFacts DEF Moves, ChoicesInv, GoalsOK
<1> QED
  BY <1>1, <1>4, GoalMoved

\* A request that begins, goes on or ends.
LEMMA RequestSet ==
  ASSUME ChoicesInv, NEW s \in Sessions, NEW r,
         r = NULL \/ ChoiceOK(r, goals, decision, item, raced),
         request' = [request EXCEPT ![s] = r],
         UNCHANGED <<goals, decision, item, runs, raced, loose>>
  PROVE  ChoicesInv'
<1>1. ChoicesOK(request', goals, decision, item, raced)
  BY DEF ChoicesInv, ChoicesOK
<1> QED
  BY <1>1 DEF ChoicesInv

\* A change of a goal begins, with a revision more.
LEMMA BeginGoalStep ==
  ASSUME ChoicesInv, NEW s \in Sessions, Choices!UpdateGoal(s) \/ Choices!DeleteGoal(s)
  PROVE  ChoicesInv'
<1>1. PICK g \in Goals : \E next \in Choices!Goal :
        /\ goals[g] # NULL /\ next.revision = goals[g].revision + 1
        /\ Choices!BeginGoal(s, g, next)
  <2>1. CASE Choices!UpdateGoal(s)
    <3>1. PICK g \in Goals, scope \in Choices!Scopes, status \in GoalStates :
            goals[g] # NULL /\ Choices!BeginGoal(s, g, Choices!Revised(goals[g], scope, status))
      BY <2>1 DEF Choices!UpdateGoal
    <3> DEFINE next == Choices!Revised(goals[g], scope, status)
    <3>2. goals[g] \in Choices!Goal /\ goals[g].revision <= MaxRevision
      BY <3>1 DEF ChoicesInv, GoalsOK, Choices!BeginGoal
    <3>4. goals[g].revision \in Nat /\ goals[g].revision + 1 \in Choices!Revisions
      BY <3>2, ChoicesFacts DEF Choices!Goal, Choices!Revisions
    <3>3. next \in Choices!Goal /\ next.revision = goals[g].revision + 1
      BY <3>2, <3>4, ChoicesFacts DEF Choices!Goal, Choices!Revised
    <3> QED
      BY <3>1, <3>3
  <2>2. CASE Choices!DeleteGoal(s)
    <3>1. PICK g \in Goals :
            goals[g] # NULL /\ Choices!BeginGoal(s, g,
              [goals[g] EXCEPT !.deleted = TRUE, !.status = "archived", !.revision = @ + 1])
      BY <2>2 DEF Choices!DeleteGoal
    <3> DEFINE next == [goals[g] EXCEPT !.deleted = TRUE, !.status = "archived",
                                        !.revision = @ + 1]
    <3>2. goals[g] \in Choices!Goal /\ goals[g].revision <= MaxRevision
      BY <3>1 DEF ChoicesInv, GoalsOK, Choices!BeginGoal
    <3>4. goals[g].revision \in Nat /\ goals[g].revision + 1 \in Choices!Revisions
      BY <3>2, ChoicesFacts DEF Choices!Goal, Choices!Revisions
    <3>3. next \in Choices!Goal /\ next.revision = goals[g].revision + 1
      BY <3>2, <3>4, ChoicesFacts DEF Choices!Goal, Choices!GoalStatus
    <3> QED
      BY <3>1, <3>3
  <2> QED
    BY <2>1, <2>2
<1>2. PICK next \in Choices!Goal :
        /\ goals[g] # NULL /\ next.revision = goals[g].revision + 1
        /\ Choices!BeginGoal(s, g, next)
  BY <1>1
<1> DEFINE r == [op |-> "goal", goal |-> g, was |-> goals[g], next |-> next,
                 overtaken |-> FALSE]
<1>3. goals[g] \in Choices!Goal
  BY <1>2 DEF ChoicesInv, GoalsOK
<1>4. r.op = "goal" /\ GoalRequestOK(r, goals)
  BY <1>2, <1>3 DEF GoalRequestOK
<1>5. request' = [request EXCEPT ![s] = r] /\ UNCHANGED <<goals, decision, item, runs, raced, loose>>
  BY <1>2 DEF Choices!BeginGoal
<1> HIDE DEF r
<1>6. ChoiceOK(r, goals, decision, item, raced)
  BY <1>4 DEF ChoiceOK
<1> QED
  BY <1>5, <1>6, RequestSet

\* A commit over the row that was read leaves what was to be.
LEMMA MergedGoal ==
  ASSUME NEW was \in Choices!Goal, NEW next \in Choices!Goal, NEW is \in Choices!Goal
  PROVE  /\ Choices!Merged(was, next, is) \in Choices!Goal
         /\ is = was => Choices!Merged(was, next, is) = next
BY DEF Choices!Goal, Choices!Merged

LEMMA MergedDecision ==
  ASSUME NEW was \in Choices!Decision, NEW next \in Choices!Decision, NEW is \in Choices!Decision
  PROVE  /\ Choices!Merged(was, next, is) \in Choices!Decision
         /\ is = was => Choices!Merged(was, next, is) = next
         /\ next.status = was.status => Choices!Merged(was, next, is).status = is.status
BY DEF Choices!Decision, Choices!Merged

\* A change of a goal commits.
LEMMA CommitGoalStep ==
  ASSUME ChoicesInv, NEW s \in Sessions, Choices!CommitGoal(s)
  PROVE  ChoicesInv'
<1> DEFINE r == request[s]
           g == r.goal
           new == Choices!Merged(r.was, r.next, goals[g])
<1>1. /\ r # NULL /\ r.op = "goal"
      /\ goals' = [goals EXCEPT ![g] = new]
      /\ raced' = IF r.overtaken THEN raced \cup {g} ELSE raced
      /\ request' = Choices!Overtake(s, g)
      /\ UNCHANGED <<decision, item, runs, loose>>
  BY DEF Choices!CommitGoal
<1>2. GoalRequestOK(r, goals)
  BY <1>1 DEF ChoicesInv, ChoicesOK, ChoiceOK
<1>3. /\ g \in Goals /\ r.was \in Choices!Goal /\ r.next \in Choices!Goal
      /\ goals[g] # NULL /\ goals[g] \in Choices!Goal
      /\ r.overtaken \in BOOLEAN /\ r.next.revision = r.was.revision + 1
      /\ ~r.overtaken => goals[g] = r.was
  BY <1>2 DEF GoalRequestOK, ChoicesInv, GoalsOK
<1>4. new \in Choices!Goal /\ (~r.overtaken => new = r.next)
  BY <1>3, MergedGoal
<1>5. r.was.revision \in Int
  BY <1>3, ChoicesFacts DEF Choices!Goal, Choices!Revisions
<1> HIDE DEF new, g, r
<1>6. Moves(goals, goals', g, raced, raced')
  BY <1>1, <1>3, <1>4, <1>5, ChoicesFacts DEF Moves, ChoicesInv, GoalsOK
<1> QED
  BY <1>1, <1>3, <1>6, GoalMoved

\* A request that has read the decision and is to change it as its route does.
LEMMA BeginDecisionStep ==
  ASSUME ChoicesInv, NEW s \in Sessions, NEW next \in Choices!Decision, NEW queue, NEW sets,
         NEW answers, Choices!BeginDecision(s, next, queue, sets, answers),
         decision # NULL, decision.version <= next.version,
         decision.version = next.version => next.policy = decision.policy,
         sets \in {"both", "status", "nothing"},
         sets = "nothing" => queue = "none" /\ next.status = decision.status,
         sets = "both" => (QueueAfter(queue, item) <=> next.status = "Queued")
  PROVE  ChoicesInv'
<1> DEFINE r == [op |-> "decision", was |-> decision, next |-> next, queue |-> queue,
                 sets |-> sets, answers |-> answers, run |-> NULL, overtaken |-> FALSE]
<1>1. request' = [request EXCEPT ![s] = r] /\ UNCHANGED <<goals, decision, item, runs, raced, loose>>
  BY DEF Choices!BeginDecision
<1>2. decision \in Choices!Decision
  BY DEF ChoicesInv, DecisionOK
<1>3. r.op = "decision" /\ DecisionRequestOK(r, goals, decision, item, raced)
  BY <1>2 DEF DecisionRequestOK
<1> HIDE DEF r
<1>4. ChoiceOK(r, goals, decision, item, raced)
  BY <1>3 DEF ChoiceOK
<1> QED
  BY <1>1, <1>4, RequestSet

\* The routes that change the decision begin.
LEMMA BeginDecisionSteps ==
  ASSUME ChoicesInv, NEW s \in Sessions,
         \/ Choices!UpdateDecision(s) \/ Choices!DeleteDecision(s)
         \/ Choices!QueueDecision(s) \/ Choices!UpdateStatus(s)
  PROVE  ChoicesInv'
<1>1. /\ decision # NULL /\ decision.version <= MaxRevision
      /\ decision \in Choices!Decision /\ item \in BOOLEAN
  BY DEF Choices!UpdateDecision, Choices!DeleteDecision, Choices!QueueDecision,
         Choices!UpdateStatus, Choices!Editable, ChoicesInv, DecisionOK
<1>2. decision.version \in Nat /\ decision.version + 1 \in Choices!Revisions
  BY <1>1, ChoicesFacts DEF Choices!Decision, Choices!Revisions
<1>3. CASE Choices!UpdateDecision(s)
  <2>1. PICK pol \in Choices!Policies :
          Choices!BeginDecision(s, [decision EXCEPT !.policy = pol, !.version = @ + 1],
                                "none", "nothing", TRUE)
    BY <1>3 DEF Choices!UpdateDecision
  <2> DEFINE next == [decision EXCEPT !.policy = pol, !.version = @ + 1]
  <2>2. /\ next \in Choices!Decision /\ next.version = decision.version + 1
        /\ next.status = decision.status
    BY <1>1, <1>2 DEF Choices!Decision
  <2> HIDE DEF next
  <2>3. decision.version <= next.version /\ decision.version # next.version
    BY <1>2, <2>2
  <2>4. Choices!BeginDecision(s, next, "none", "nothing", TRUE)
    BY <2>1 DEF next
  <2> QED
    BY <1>1, <2>2, <2>3, <2>4, BeginDecisionStep
<1>4. CASE Choices!DeleteDecision(s)
  <2> DEFINE next == [decision EXCEPT !.deleted = TRUE, !.status = "Archived"]
  <2>1. Choices!BeginDecision(s, next, Choices!Remove, "both", FALSE)
    BY <1>4 DEF Choices!DeleteDecision
  <2>2. /\ next \in Choices!Decision /\ next.version = decision.version
        /\ next.policy = decision.policy /\ next.status = "Archived"
    BY <1>1 DEF Choices!Decision, Choices!DecisionStatus
  <2> HIDE DEF next
  <2>3. QueueAfter(Choices!Remove, item) <=> next.status = "Queued"
    BY <1>1, <2>2 DEF QueueAfter, Choices!Remove
  <2>4. decision.version <= next.version
    BY <1>2, <2>2
  <2> QED
    BY <1>1, <2>1, <2>2, <2>3, <2>4, BeginDecisionStep
<1>5. CASE Choices!QueueDecision(s)
  <2> DEFINE next == [decision EXCEPT !.status = "Queued"]
  <2>1. Choices!BeginDecision(s, next, Choices!Upsert, "both", FALSE)
    BY <1>5 DEF Choices!QueueDecision
  <2>2. /\ next \in Choices!Decision /\ next.version = decision.version
        /\ next.policy = decision.policy /\ next.status = "Queued"
    BY <1>1 DEF Choices!Decision, Choices!DecisionStatus
  <2> HIDE DEF next
  <2>3. QueueAfter(Choices!Upsert, item) <=> next.status = "Queued"
    BY <1>1, <2>2 DEF QueueAfter, Choices!Upsert
  <2>4. decision.version <= next.version
    BY <1>2, <2>2
  <2> QED
    BY <1>1, <2>1, <2>2, <2>3, <2>4, BeginDecisionStep
<1>6. CASE Choices!UpdateStatus(s)
  <2>1. PICK status \in Posted :
          Choices!BeginDecision(s, [decision EXCEPT !.status = status], "none", "status", FALSE)
    BY <1>6 DEF Choices!UpdateStatus
  <2> DEFINE next == [decision EXCEPT !.status = status]
  <2>2. /\ next \in Choices!Decision /\ next.version = decision.version
        /\ next.policy = decision.policy
    BY <1>1, ChoicesFacts DEF Choices!Decision
  <2> HIDE DEF next
  <2>3. Choices!BeginDecision(s, next, "none", "status", FALSE)
    BY <2>1 DEF next
  <2>4. decision.version <= next.version
    BY <1>2, <2>2
  <2> QED
    BY <1>1, <2>2, <2>3, <2>4, BeginDecisionStep
<1> QED
  BY <1>3, <1>4, <1>5, <1>6

\* Nothing works on a decision that is not there.
LEMMA CreateDecisionStep ==
  ASSUME ChoicesInv, NEW s \in Sessions, Choices!CreateDecision(s)
  PROVE  ChoicesInv'
<1>1. PICK pol \in Choices!Policies :
        /\ decision = NULL
        /\ decision' = [policy |-> pol, status |-> "Draft", deleted |-> FALSE, version |-> 1]
        /\ request' = [request EXCEPT ![s] = [op |-> "answer"]]
        /\ UNCHANGED <<goals, item, runs, raced, loose>>
  BY DEF Choices!CreateDecision
<1>2. decision' \in Choices!Decision /\ decision'.status = "Draft"
  BY <1>1, ChoicesFacts DEF Choices!Decision, Choices!DecisionStatus, Choices!Revisions
<1>3. DecisionOK(decision', item, loose)
  BY <1>1, <1>2, ChoicesFacts DEF ChoicesInv, DecisionOK
<1>4. RunsOK(runs, goals, decision', raced)
  BY <1>1 DEF ChoicesInv, RunsOK, RunOK
<1>5. ASSUME NEW t \in Sessions, request'[t] # NULL
      PROVE  ChoiceOK(request'[t], goals, decision', item, raced)
  <2>1. CASE t = s
    <3>1. request'[t].op = "answer"
      BY <1>1, <2>1 DEF ChoicesInv, ChoicesOK
    <3> QED
      BY <3>1 DEF ChoiceOK
  <2>2. CASE t # s
    <3>1. request'[t] = request[t]
      BY <1>1, <2>2 DEF ChoicesInv, ChoicesOK
    <3>2. ChoiceOK(request[t], goals, NULL, item, raced)
      BY <1>1, <1>5, <3>1 DEF ChoicesInv, ChoicesOK
    <3> QED
      BY <3>1, <3>2 DEF ChoiceOK, DecisionRequestOK, ScoreRequestOK
  <2> QED
    BY <2>1, <2>2
<1>6. DOMAIN request' = Sessions
  BY <1>1 DEF ChoicesInv, ChoicesOK
<1> QED
  BY <1>1, <1>3, <1>4, <1>5, <1>6 DEF ChoicesInv, ChoicesOK

\* A goal that is read now is what it is.
LEMMA ActiveGoals ==
  ASSUME ChoicesInv, NEW scope \in Choices!Scopes
  PROVE  /\ Choices!ActiveOf(scope) \subseteq Goals
         /\ \A g \in Choices!ActiveOf(scope) :
              /\ goals[g] # NULL /\ goals[g] \in Choices!Goal
              /\ goals[g].status = "active" /\ ~goals[g].deleted /\ goals[g].scope = scope
BY DEF Choices!ActiveOf, Choices!ActiveGoal, ChoicesInv, GoalsOK

\* The goals of the family that a score begins with.
LEMMA FamilyActive ==
  Choices!ActiveOf("family") = FamilyGoals(goals)
BY DEF Choices!ActiveOf, Choices!ActiveGoal, FamilyGoals, Counts

\* A score begins.
LEMMA BeginScoreStep ==
  ASSUME ChoicesInv, NEW s \in Sessions, Choices!BeginScore(s)
  PROVE  ChoicesInv'
<1> DEFINE read == [g \in Choices!ActiveOf("family") |-> goals[g]]
           r == [op |-> "score", was |-> decision, moved |-> {}, overtaken |-> FALSE,
                 read |-> read]
<1>1. /\ decision # NULL /\ request' = [request EXCEPT ![s] = r]
      /\ UNCHANGED <<goals, decision, item, runs, raced, loose>>
  BY DEF Choices!BeginScore, Choices!Editable
<1>2. \A g \in Choices!ActiveOf("family") :
        /\ g \in Goals /\ goals[g] # NULL /\ goals[g] \in Choices!Goal
        /\ Counts(goals[g], "family_only")
  BY ActiveGoals DEF Counts, Choices!Scopes
<1>3. read \in ScoredGoals
  <2>1. read \in [Choices!ActiveOf("family") -> Choices!Goal]
    BY <1>2
  <2> QED
    BY <1>2, <2>1 DEF ScoredGoals
<1>4. Pinned(read, goals, raced)
  <2>1. ASSUME NEW g \in DOMAIN read
        PROVE  goals[g] # NULL /\ read[g] = goals[g] /\ goals[g].revision \in Int
    BY <1>2, ChoicesFacts DEF Choices!Goal, Choices!Revisions
  <2> HIDE DEF read
  <2> QED
    BY <2>1 DEF Pinned
<1>5. ReadOK(read, "family_only", goals, raced)
  BY <1>2, <1>3, <1>4 DEF ReadOK
<1>6. DOMAIN read = FamilyGoals(goals)
  BY FamilyActive
<1> HIDE DEF read
<1>7. decision \in Choices!Decision
  BY <1>1 DEF ChoicesInv, DecisionOK
<1>8. r.op = "score" /\ ScoreRequestOK(r, goals, decision, raced)
  BY <1>1, <1>5, <1>6, <1>7 DEF ScoreRequestOK
<1> HIDE DEF r
<1>9. ChoiceOK(r, goals, decision, item, raced)
  BY <1>8 DEF ChoiceOK
<1> QED
  BY <1>1, <1>9, RequestSet

\* What a request that scores has read, with the person's goals if they count.
Scored(r) ==
  LET mine == IF r.was.policy = "family_plus_person" THEN Choices!ActiveOf("person") ELSE {}
  IN  [g \in DOMAIN r.read \cup mine |-> IF g \in DOMAIN r.read THEN r.read[g] ELSE goals[g]]

\* What is scored counts for the policy that was read, and is pinned.
LEMMA ScoredOK ==
  ASSUME ChoicesInv, NEW r, ScoreRequestOK(r, goals, decision, raced)
  PROVE  ReadOK(Scored(r), r.was.policy, goals, raced)
<1> DEFINE mine == IF r.was.policy = "family_plus_person" THEN Choices!ActiveOf("person") ELSE {}
           both == DOMAIN r.read \cup mine
           sc == Scored(r)
<1>1. sc = [g \in both |-> IF g \in DOMAIN r.read THEN r.read[g] ELSE goals[g]]
  BY DEF Scored
<1>2. /\ r.read \in ScoredGoals /\ Pinned(r.read, goals, raced)
      /\ \A g \in DOMAIN r.read : Counts(r.read[g], "family_only")
  BY DEF ScoreRequestOK, ReadOK
<1>3. \A g \in DOMAIN r.read : g \in Goals /\ r.read[g] \in Choices!Goal
  BY <1>2 DEF ScoredGoals
<1>4. ASSUME NEW g \in mine
      PROVE  /\ g \in Goals /\ goals[g] # NULL /\ goals[g] \in Choices!Goal
             /\ Counts(goals[g], r.was.policy) /\ goals[g].revision \in Int
  <2>1. r.was.policy = "family_plus_person" /\ g \in Choices!ActiveOf("person")
    OBVIOUS
  <2>2. "person" \in Choices!Scopes
    BY DEF Choices!Scopes
  <2>3. /\ g \in Goals /\ goals[g] # NULL /\ goals[g] \in Choices!Goal
        /\ goals[g].status = "active" /\ ~goals[g].deleted
    BY <2>1, <2>2, ActiveGoals
  <2> QED
    BY <2>1, <2>3, ChoicesFacts DEF Counts, Choices!Goal, Choices!Revisions
<1> HIDE DEF sc, mine
<1>5. sc \in ScoredGoals
  <2>1. sc \in [both -> Choices!Goal] /\ both \subseteq Goals
    BY <1>1, <1>3, <1>4
  <2> QED
    BY <2>1 DEF ScoredGoals
<1>6. \A g \in DOMAIN sc : Counts(sc[g], r.was.policy)
  BY <1>1, <1>2, <1>4 DEF Counts
<1>7. Pinned(sc, goals, raced)
  BY <1>1, <1>2, <1>4 DEF Pinned
<1> QED
  BY <1>5, <1>6, <1>7 DEF ReadOK, sc

\* The second read of a score; its run and its routing are decided.
LEMMA ScoreStep ==
  ASSUME ChoicesInv, NEW s \in Sessions, Choices!Score(s)
  PROVE  ChoicesInv'
<1> DEFINE r == request[s]
<1>1. PICK routed \in {"queue", "needs_work"} :
        /\ r # NULL /\ r.op = "score"
        /\ request' = [request EXCEPT ![s] =
             [op |-> "decision", was |-> r.was,
              next |-> [r.was EXCEPT !.status = IF routed = "queue" THEN "Queued"
                                                ELSE "Needs-Work"],
              queue |-> IF routed = "queue" THEN Choices!Upsert ELSE Choices!Remove,
              sets |-> "both", answers |-> FALSE, overtaken |-> r.overtaken,
              run |-> [version |-> r.was.version, policy |-> r.was.policy,
                       scored |-> Scored(r)]]]
        /\ UNCHANGED <<goals, decision, item, runs, raced, loose>>
  BY DEF Choices!Score, Scored
<1>2. ScoreRequestOK(r, goals, decision, raced)
  BY <1>1 DEF ChoicesInv, ChoicesOK, ChoiceOK
<1> DEFINE st == IF routed = "queue" THEN "Queued" ELSE "Needs-Work"
           next == [r.was EXCEPT !.status = st]
           queue == IF routed = "queue" THEN Choices!Upsert ELSE Choices!Remove
           run == [version |-> r.was.version, policy |-> r.was.policy, scored |-> Scored(r)]
           q == [op |-> "decision", was |-> r.was, next |-> next, queue |-> queue,
                 sets |-> "both", answers |-> FALSE, overtaken |-> r.overtaken, run |-> run]
<1>3. request' = [request EXCEPT ![s] = q]
  BY <1>1
<1>4. /\ decision # NULL /\ r.was \in Choices!Decision
      /\ r.overtaken \in BOOLEAN /\ (~r.overtaken => decision = r.was)
  BY <1>2 DEF ScoreRequestOK
<1>5. /\ next \in Choices!Decision /\ next.version = r.was.version
      /\ next.policy = r.was.policy /\ next.status = st
  BY <1>4 DEF Choices!Decision, Choices!DecisionStatus
<1>6. r.was.version \in Choices!Revisions /\ r.was.version \in Int /\ r.was.policy \in Choices!Policies
  BY <1>4, ChoicesFacts DEF Choices!Decision, Choices!Revisions
<1>7. ReadOK(Scored(r), r.was.policy, goals, raced)
  BY <1>2, ScoredOK
<1>8. QueueAfter(queue, item) <=> st = "Queued"
  <2>1. item \in BOOLEAN
    BY DEF ChoicesInv, DecisionOK
  <2> QED
    BY <2>1 DEF QueueAfter, Choices!Upsert, Choices!Remove
<1> HIDE DEF st, next, queue, r
<1>9. /\ run \in ScoreRun /\ run.scored = Scored(r)
      /\ run.policy = r.was.policy /\ run.version = r.was.version
  BY <1>6, <1>7 DEF ScoreRun, ReadOK
<1> HIDE DEF run
<1>10. q.op = "decision" /\ DecisionRequestOK(q, goals, decision, item, raced)
  BY <1>4, <1>5, <1>6, <1>7, <1>8, <1>9 DEF DecisionRequestOK
<1> HIDE DEF q
<1>11. ChoiceOK(q, goals, decision, item, raced)
  BY <1>10 DEF ChoiceOK
<1> QED
  BY <1>1, <1>3, <1>11, RequestSet

\* The commit of a change that nothing overtook leaves what was to be; the
\* queue agrees with the status unless it is loose.
LEMMA DecisionCommitted ==
  ASSUME NEW r, NEW gs, NEW dec, NEW it \in BOOLEAN, NEW rc, NEW ls \in BOOLEAN, NEW new,
         DecisionRequestOK(r, gs, dec, it, rc), DecisionOK(dec, it, ls),
         new = Choices!Merged(r.was, r.next, dec)
  PROVE  /\ new \in Choices!Decision /\ (~r.overtaken => dec = r.was /\ new = r.next)
         /\ DecisionOK(new, QueueAfter(r.queue, it),
                       IF r.sets = "both" THEN r.overtaken ELSE ls \/ r.sets = "status")
<1>1. /\ dec # NULL /\ dec \in Choices!Decision
      /\ r.was \in Choices!Decision /\ r.next \in Choices!Decision
      /\ r.overtaken \in BOOLEAN /\ (~r.overtaken => dec = r.was)
      /\ r.sets \in {"both", "status", "nothing"}
  BY DEF DecisionRequestOK, DecisionOK
<1>2. /\ new \in Choices!Decision /\ (~r.overtaken => new = r.next)
      /\ r.next.status = r.was.status => new.status = dec.status
  BY <1>1, MergedDecision
<1>3. new # NULL
  BY <1>2, ChoicesFacts
<1>4. QueueAfter(r.queue, it) \in BOOLEAN
  <2>1. (r.queue = "insert") \in BOOLEAN
    OBVIOUS
  <2> QED
    BY <2>1, Zenon DEF QueueAfter
<1>5. CASE r.sets = "both"
  <2>1. ~r.overtaken => (QueueAfter(r.queue, it) <=> new.status = "Queued")
    BY <1>2, <1>5 DEF DecisionRequestOK
  <2> QED
    BY <1>1, <1>2, <1>3, <1>4, <1>5, <2>1 DEF DecisionOK
<1>6. CASE r.sets = "status"
  BY <1>1, <1>2, <1>3, <1>4, <1>6 DEF DecisionOK
<1>7. CASE r.sets = "nothing"
  <2>1. new.status = dec.status /\ QueueAfter(r.queue, it) = it
    BY <1>2, <1>7 DEF DecisionRequestOK, QueueAfter
  <2>2. (IF r.sets = "both" THEN r.overtaken ELSE ls \/ r.sets = "status") = ls
    BY <1>7
  <2>3. DecisionOK(new, it, ls)
    BY <1>1, <1>2, <1>3, <2>1 DEF DecisionOK
  <2> QED
    BY <1>1, <1>2, <2>1, <2>2, <2>3
<1> QED
  BY <1>1, <1>5, <1>6, <1>7

\* A score run names the version and the policy of the decision it is of; a
\* change that nothing overtook leaves both or makes a new version.
LEMMA RunsCommitted ==
  ASSUME ChoicesInv, NEW r, DecisionRequestOK(r, goals, decision, item, raced),
         NEW new \in Choices!Decision, NEW rc, NEW rn,
         ~r.overtaken => decision = r.was /\ new = r.next,
         rc = IF r.overtaken THEN raced \cup {"decision"} ELSE raced,
         rn = IF r.run = NULL THEN runs ELSE Append(runs, r.run)
  PROVE  RunsOK(rn, goals, new, rc)
<1>1. raced \subseteq rc /\ ("decision" \notin rc => ~r.overtaken /\ "decision" \notin raced)
  <2>1. r.overtaken \in BOOLEAN
    BY DEF DecisionRequestOK
  <2> QED
    BY <2>1
<1>2. new # NULL
  BY ChoicesFacts
<1>3. /\ r.was \in Choices!Decision /\ r.was.version \in Int /\ r.next.version \in Int
      /\ r.was.version <= r.next.version
      /\ r.was.version = r.next.version => r.next.policy = r.was.policy
  BY ChoicesFacts DEF DecisionRequestOK, Choices!Decision, Choices!Revisions
<1>4. runs \in Seq(ScoreRun) /\ \A i \in 1..Len(runs) : RunOK(runs[i], goals, decision, raced)
  BY DEF ChoicesInv, RunsOK
<1>5. ASSUME NEW run \in ScoreRun, RunOK(run, goals, decision, raced)
      PROVE  RunOK(run, goals, new, rc)
  <2>1. ReadOK(run.scored, run.policy, goals, rc)
    BY <1>1, <1>5, ReadRaced DEF RunOK
  <2>2. run.version \in Int
    BY ChoicesFacts DEF ScoreRun, Choices!Revisions
  <2>3. "decision" \notin rc => /\ run.version <= new.version
                                /\ run.version = new.version => new.policy = run.policy
    BY <1>1, <1>3, <1>5, <2>2 DEF RunOK
  <2> QED
    BY <1>2, <2>1, <2>3 DEF RunOK
<1>6. CASE r.run = NULL
  <2>1. rn = runs
    BY <1>6
  <2>2. ASSUME NEW i \in 1..Len(runs)
        PROVE  RunOK(runs[i], goals, new, rc)
    <3>1. runs[i] \in ScoreRun
      BY <1>4
    <3> QED
      BY <1>4, <1>5, <3>1
  <2> QED
    BY <1>4, <2>1, <2>2 DEF RunsOK
<1>7. CASE r.run # NULL
  <2>1. /\ r.run \in ScoreRun /\ ReadOK(r.run.scored, r.run.policy, goals, raced)
        /\ r.run.version = r.next.version /\ r.run.policy = r.next.policy
    BY <1>7 DEF DecisionRequestOK
  <2>2. rn = Append(runs, r.run)
    BY <1>7
  <2>3. RunOK(r.run, goals, new, rc)
    <3>1. ReadOK(r.run.scored, r.run.policy, goals, rc)
      BY <1>1, <2>1, ReadRaced
    <3>2. "decision" \notin rc => r.run.version = new.version /\ r.run.policy = new.policy
      BY <1>1, <2>1
    <3>3. new.version \in Int
      BY ChoicesFacts DEF Choices!Decision, Choices!Revisions
    <3> QED
      BY <1>2, <3>1, <3>2, <3>3 DEF RunOK
  <2>4. /\ rn \in Seq(ScoreRun) /\ Len(rn) = Len(runs) + 1 /\ Len(runs) \in Nat
        /\ \A i \in 1..Len(runs) : rn[i] = runs[i] /\ runs[i] \in ScoreRun
        /\ rn[Len(runs) + 1] = r.run
    BY <1>4, <2>1, <2>2
  <2>5. ASSUME NEW i \in 1..Len(rn)
        PROVE  RunOK(rn[i], goals, new, rc)
    <3>1. CASE i \in 1..Len(runs)
      BY <1>4, <1>5, <2>4, <3>1
    <3>2. CASE i = Len(runs) + 1
      BY <2>3, <2>4, <3>2
    <3> QED
      BY <2>4, <3>1, <3>2
  <2> QED
    BY <2>4, <2>5 DEF RunsOK
<1> QED
  BY <1>6, <1>7

\* A change of the decision commits.
LEMMA CommitDecisionStep ==
  ASSUME ChoicesInv, NEW s \in Sessions, Choices!CommitDecision(s)
  PROVE  ChoicesInv'
<1> DEFINE r == request[s]
           new == Choices!Merged(r.was, r.next, decision)
           end == IF r.answers THEN [op |-> "answer"] ELSE NULL
<1>1. /\ r # NULL /\ r.op = "decision"
      /\ decision' = new
      /\ item' = QueueAfter(r.queue, item)
      /\ runs' = IF r.run = NULL THEN runs ELSE Append(runs, r.run)
      /\ raced' = IF r.overtaken THEN raced \cup {"decision"} ELSE raced
      /\ loose' = IF r.sets = "both" THEN r.overtaken ELSE loose \/ r.sets = "status"
      /\ request' = [Choices!Overtake(s, "decision") EXCEPT ![s] = end]
      /\ UNCHANGED goals
  BY DEF Choices!CommitDecision, QueueAfter
<1>2. DecisionRequestOK(r, goals, decision, item, raced)
  BY <1>1 DEF ChoicesInv, ChoicesOK, ChoiceOK
<1>3. item \in BOOLEAN /\ loose \in BOOLEAN /\ DecisionOK(decision, item, loose)
  BY DEF ChoicesInv, DecisionOK
<1> HIDE DEF r, new
<1>4. /\ new \in Choices!Decision /\ (~r.overtaken => decision = r.was /\ new = r.next)
      /\ DecisionOK(new, item', loose')
  <2>1. new = Choices!Merged(r.was, r.next, decision)
    BY DEF new
  <2> HIDE DEF new
  <2>2. /\ new \in Choices!Decision /\ (~r.overtaken => decision = r.was /\ new = r.next)
        /\ DecisionOK(new, QueueAfter(r.queue, item),
                      IF r.sets = "both" THEN r.overtaken ELSE loose \/ r.sets = "status")
    BY <1>2, <1>3, <2>1, DecisionCommitted
  <2> QED
    BY <1>1, <2>2, Zenon
<1>5. RunsOK(runs', goals, new, raced')
  BY <1>1, <1>2, <1>4, RunsCommitted
<1>6. raced \subseteq raced'
  BY <1>1
<1>7. DOMAIN Choices!Overtake(s, "decision") = Sessions
  BY DEF Choices!Overtake
<1>8. ASSUME NEW t \in Sessions, request'[t] # NULL
      PROVE  ChoiceOK(request'[t], goals, new, item', raced')
  <2>1. CASE t = s
    <3>1. request'[t] = end
      BY <1>1, <1>7, <2>1
    <3>2. request'[t].op = "answer"
      BY <1>8, <3>1
    <3> QED
      BY <3>2 DEF ChoiceOK
  <2>2. CASE t # s
    <3>1. request'[t] = Choices!Overtake(s, "decision")[t]
      BY <1>1, <1>7, <2>2
    <3>2. request[t] # NULL /\ request'[t] = OvertakenBy(request[t], "decision")
      BY <1>8, <2>2, <3>1, OvertakeEach
    <3>3. ChoiceOK(request[t], goals, decision, item, raced)
      BY <3>2 DEF ChoicesInv, ChoicesOK
    <3>4. new # NULL
      BY <1>4, ChoicesFacts
    <3> QED
      BY <1>6, <3>2, <3>3, <3>4, OvertakenByDecision
  <2> QED
    BY <2>1, <2>2
<1>9. DOMAIN request' = Sessions
  BY <1>1, <1>7
<1>10. ChoicesOK(request', goals, new, item', raced')
  BY <1>8, <1>9 DEF ChoicesOK
<1> QED
  BY <1>1, <1>4, <1>5, <1>10 DEF ChoicesInv

\* A request that reads, or ends.
LEMMA ReadingStep ==
  ASSUME ChoicesInv, NEW s \in Sessions,
         Choices!GetDecision(s) \/ Choices!Answer(s) \/ Choices!Rollback(s)
  PROVE  ChoicesInv'
<1>1. UNCHANGED <<goals, decision, item, runs, raced, loose>>
  BY DEF Choices!GetDecision, Choices!Answer, Choices!Rollback
<1>2. \/ UNCHANGED request \/ request' = [request EXCEPT ![s] = NULL]
      \/ request' = [request EXCEPT ![s] = [op |-> "failed"]]
  BY DEF Choices!GetDecision, Choices!Answer, Choices!Rollback, Choices!Reading
<1>3. ChoiceOK([op |-> "failed"], goals, decision, item, raced)
  BY DEF ChoiceOK
<1>4. CASE UNCHANGED request
  BY <1>1, <1>4 DEF ChoicesInv
<1> QED
  BY <1>1, <1>2, <1>3, <1>4, RequestSet

\* Nothing is there at first.
LEMMA ChoicesInit == Choices!Init => ChoicesInv
<1> SUFFICES ASSUME Choices!Init PROVE ChoicesInv
  OBVIOUS
<1>1. /\ goals = [g \in Goals |-> NULL] /\ decision = NULL /\ item = FALSE /\ runs = <<>>
      /\ request = [s \in Sessions |-> NULL] /\ loose = FALSE
  BY DEF Choices!Init
<1>2. RunsOK(runs, goals, decision, raced)
  BY <1>1 DEF RunsOK
<1> QED
  BY <1>1, <1>2 DEF ChoicesInv, GoalsOK, DecisionOK, ChoicesOK

\* Every step of a request keeps the invariant.
LEMMA ChoicesStep ==
  ASSUME ChoicesInv, Choices!Next
  PROVE  ChoicesInv'
<1>1. CASE Choices!CreateGoal
  BY <1>1, CreateGoalStep
<1>2. ASSUME NEW s \in Sessions,
             \/ Choices!UpdateGoal(s) \/ Choices!DeleteGoal(s) \/ Choices!CommitGoal(s)
             \/ Choices!CreateDecision(s) \/ Choices!UpdateDecision(s) \/ Choices!DeleteDecision(s)
             \/ Choices!QueueDecision(s) \/ Choices!UpdateStatus(s) \/ Choices!BeginScore(s)
             \/ Choices!Score(s) \/ Choices!CommitDecision(s)
             \/ Choices!GetDecision(s) \/ Choices!Answer(s) \/ Choices!Rollback(s)
      PROVE  ChoicesInv'
  BY <1>2, BeginGoalStep, CommitGoalStep, CreateDecisionStep, BeginDecisionSteps,
     BeginScoreStep, ScoreStep, CommitDecisionStep, ReadingStep
<1> QED
  BY <1>1, <1>2 DEF Choices!Next

\* Steps about the budget leave goals and decision as they are.
LEMMA ChoicesKept ==
  (MCInit => ChoicesInv) /\ (ChoicesInv /\ [MCNext]_<<part, vars, decisionVars>> => ChoicesInv')
<1>1. MCInit => ChoicesInv
  BY ChoicesInit DEF MCInit
<1>2. ASSUME ChoicesInv, UNCHANGED decisionVars
      PROVE  ChoicesInv'
  BY <1>2 DEF decisionVars, ChoicesInv
<1>3. ASSUME ChoicesInv, MCNext
      PROVE  ChoicesInv'
  BY <1>2, <1>3, ChoicesStep DEF MCNext
<1> QED
  BY <1>1, <1>2, <1>3

\* However requests about goals and the decision overlap: a goal or a decision that has
\* the revision a score run names is as it was scored, unless one revision was given to
\* two changes, and the decision is in the queue exactly while its status says so, unless
\* the status was set by hand or by overlapping transactions (goal_revision, version,
\* _upsert_queue_item).
THEOREM ChoicesAgree == MCSpec => []DecisionsAgree
<1>1. ChoicesInv => Choices!TypeOK
  <2> SUFFICES ASSUME ChoicesInv PROVE Choices!TypeOK
    OBVIOUS
  <2>1. ASSUME NEW i \in 1..Len(runs), NEW g \in DOMAIN runs[i].scored
        PROVE  /\ runs[i].scored[g] \in Choices!Goal
               /\ Counts(runs[i].scored[g], runs[i].policy)
    <3>1. ReadOK(runs[i].scored, runs[i].policy, goals, raced)
      BY DEF ChoicesInv, RunsOK, RunOK
    <3> QED
      BY <3>1 DEF ReadOK, ScoredGoals
  <2> QED
    BY <2>1 DEF Choices!TypeOK, ChoicesInv, GoalsOK, DecisionOK, Counts
<1>2. ChoicesInv => Choices!RunsPinRevisions
  <2> SUFFICES ASSUME ChoicesInv PROVE Choices!RunsPinRevisions
    OBVIOUS
  <2>1. ASSUME NEW i \in 1..Len(runs)
        PROVE  RunOK(runs[i], goals, decision, raced)
    BY DEF ChoicesInv, RunsOK
  <2> QED
    BY <2>1 DEF Choices!RunsPinRevisions, RunOK, ReadOK, Pinned
<1>3. ChoicesInv => Choices!QueueAgrees
  BY DEF ChoicesInv, DecisionOK, Choices!QueueAgrees
<1>4. ChoicesInv => DecisionsAgree
  BY <1>1, <1>2, <1>3 DEF DecisionsAgree
<1> QED
  BY <1>4, ChoicesKept, PTL DEF MCSpec

\* A request that scored may only be overtaken by the steps of others.
LEMMA OnlyScores ==
  ASSUME ChoicesInv, Choices!Next, NEW s \in Sessions,
         request[s] # NULL, request[s].op = "score",
         request'[s] # NULL, request'[s].op = "decision"
  PROVE  Choices!Score(s)
<1> DEFINE r == request[s]
<1>1. ScoreRequestOK(r, goals, decision, raced) /\ DOMAIN request = Sessions
  BY DEF ChoicesInv, ChoicesOK, ChoiceOK
<1>2. \A x : OvertakenBy(r, x).op = "score"
  BY <1>1 DEF OvertakenBy, ScoreRequestOK
<1>3. r # [op |-> "answer"]
  BY <1>1 DEF ScoreRequestOK
<1>4. CASE Choices!CreateGoal
  <2>1. PICK g \in Goals : request' = Choices!Overtake(NULL, g)
    BY <1>4 DEF Choices!CreateGoal
  <2> QED
    BY <1>2, <2>1, OvertakeEach
<1>5. ASSUME NEW t \in Sessions, Choices!CommitGoal(t)
      PROVE  FALSE
  <2>1. request' = Choices!Overtake(t, request[t].goal)
    BY <1>5 DEF Choices!CommitGoal
  <2> QED
    BY <1>2, <2>1, OvertakeEach
<1>6. ASSUME NEW t \in Sessions, Choices!CommitDecision(t)
      PROVE  FALSE
  <2>1. request[t].op = "decision"
        /\ \E e : request' = [Choices!Overtake(t, "decision") EXCEPT ![t] = e]
    BY <1>6 DEF Choices!CommitDecision
  <2>2. t # s /\ request'[s] = Choices!Overtake(t, "decision")[s]
    BY <2>1 DEF Choices!Overtake
  <2> QED
    BY <1>2, <2>2, OvertakeEach
<1>7. ASSUME NEW t \in Sessions, NEW e, request[t] = NULL \/ request[t] = [op |-> "answer"]
                                        \/ e = NULL \/ t # s,
             request' = [request EXCEPT ![t] = e]
      PROVE  FALSE
  BY <1>1, <1>3, <1>7
<1>8. ASSUME NEW t \in Sessions, Choices!UpdateGoal(t) \/ Choices!DeleteGoal(t)
      PROVE  FALSE
  BY <1>7, <1>8 DEF Choices!UpdateGoal, Choices!DeleteGoal, Choices!BeginGoal
<1>9. ASSUME NEW t \in Sessions, \/ Choices!UpdateDecision(t) \/ Choices!DeleteDecision(t)
                                 \/ Choices!QueueDecision(t) \/ Choices!UpdateStatus(t)
      PROVE  FALSE
  BY <1>7, <1>9 DEF Choices!UpdateDecision, Choices!DeleteDecision, Choices!QueueDecision,
                    Choices!UpdateStatus, Choices!BeginDecision
<1>10. ASSUME NEW t \in Sessions, Choices!CreateDecision(t) \/ Choices!BeginScore(t)
       PROVE  FALSE
  BY <1>7, <1>10 DEF Choices!CreateDecision, Choices!BeginScore
<1>11. ASSUME NEW t \in Sessions, Choices!GetDecision(t) \/ Choices!Answer(t)
                                  \/ Choices!Rollback(t)
       PROVE  FALSE
  <2>1. CASE UNCHANGED request
    BY <2>1
  <2> QED
    BY <1>7, <1>11, <2>1 DEF Choices!GetDecision, Choices!Answer, Choices!Rollback,
                             Choices!Reading
<1>12. ASSUME NEW t \in Sessions, Choices!Score(t), t # s
       PROVE  FALSE
  BY <1>7, <1>12 DEF Choices!Score
<1> QED
  BY <1>4, <1>5, <1>6, <1>8, <1>9, <1>10, <1>11, <1>12 DEF Choices!Next

\* A score is of the goals that apply when it reads the second time, but for those that moved.
LEMMA ScoreCovers ==
  ASSUME ChoicesInv, NEW s \in Sessions, Choices!Score(s)
  PROVE  LET r == request[s]
         IN  DOMAIN request'[s].run.scored \ r.moved = Choices!Applicable(r.was.policy) \ r.moved
<1> DEFINE r == request[s]
           mine == IF r.was.policy = "family_plus_person" THEN Choices!ActiveOf("person") ELSE {}
<1>1. r # NULL /\ r.op = "score" /\ DOMAIN request = Sessions
      /\ request'[s].run.scored = Scored(r)
  BY DEF Choices!Score, Scored, ChoicesInv, ChoicesOK
<1>2. DOMAIN Scored(r) = DOMAIN r.read \cup mine
  BY DEF Scored
<1>3. ScoreRequestOK(r, goals, decision, raced)
  BY <1>1 DEF ChoicesInv, ChoicesOK, ChoiceOK
<1>4. DOMAIN r.read \ r.moved = FamilyGoals(goals) \ r.moved
  BY <1>3 DEF ScoreRequestOK
<1>5. Choices!Applicable(r.was.policy) = FamilyGoals(goals) \cup mine
  <2>1. \A g \in Goals : goals[g] # NULL => goals[g].scope \in {"family", "person"}
    BY DEF ChoicesInv, GoalsOK, Choices!Goal, Choices!Scopes
  <2> QED
    BY <2>1 DEF Choices!Applicable, FamilyGoals, Counts, Choices!ActiveOf, Choices!ActiveGoal
<1> HIDE DEF r, mine
<1>6. DOMAIN request'[s].run.scored \ r.moved = Choices!Applicable(r.was.policy) \ r.moved
  BY <1>1, <1>2, <1>4, <1>5
<1> QED
  BY <1>6 DEF r

\* A score run has a component for exactly the goals that apply, but for those that
\* changed between the two reads, for any number of goals and requests
\* (_applicable_goals).
THEOREM RunsCover == MCSpec => RunsCoverGoals
<1>1. ASSUME ChoicesInv, [MCNext]_<<part, vars, decisionVars>>, NEW s \in Sessions,
             request[s] # NULL, request[s].op = "score",
             request'[s] # NULL, request'[s].op = "decision"
      PROVE  DOMAIN request'[s].run.scored \ request[s].moved
             = Choices!Applicable(request[s].was.policy) \ request[s].moved
  <2>1. request' # request
    BY <1>1
  <2>2. Choices!Next
    BY <1>1, <2>1 DEF MCNext, decisionVars
  <2>3. Choices!Score(s)
    BY <1>1, <2>2, OnlyScores
  <2> QED
    BY <1>1, <2>3, ScoreCovers
<1> DEFINE Covers ==
      \A s \in Sessions :
        LET r == request[s]
        IN  r # NULL /\ r.op = "score" /\ request'[s] # NULL /\ request'[s].op = "decision"
              => DOMAIN request'[s].run.scored \ r.moved
                 = Choices!Applicable(r.was.policy) \ r.moved
<1>2. ChoicesInv /\ [MCNext]_<<part, vars, decisionVars>> => [Covers]_Choices!vars
  BY <1>1
<1> QED
  BY <1>2, ChoicesKept, PTL DEF MCSpec, RunsCoverGoals, Choices!RunsCoverGoals
=============================================================================

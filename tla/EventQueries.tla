----------------------------- MODULE EventQueries -----------------------------
(***************************************************************************)
(* family-event-service: what readers are told about the event log. The    *)
(* routes list and search it page by page, offer the values its filters    *)
(* may take, and compute metrics in three ways: as totals, as a time       *)
(* series and as a comparison of periods.                                  *)
(*                                                                         *)
(* Every request runs its query anew, so a reader that turns pages meets a *)
(* log that has grown meanwhile, also by events that occurred long ago.    *)
(* Rows of one time come in any order: the query orders by occurred_at     *)
(* alone.                                                                  *)
(*                                                                         *)
(* Abstractions: the text query and the actor are left out, they filter as *)
(* the subject does; a bucket of the series is a span of time; the values  *)
(* of a score are numbers, or UNREADABLE.                                  *)
(***************************************************************************)
EXTENDS Integers, FiniteSets, Sequences, SequencesExt, FiniteSetsExt, TLC

CONSTANTS
  Rows,        \* rows that may be recorded, see RowsAssumption
  Limit,       \* rows of a page
  CountLimit,  \* rows totals and series look at (5000)
  WideLimit,   \* rows the other reports look at (10000)
  Bucket,      \* times in a bucket of a series
  UNREADABLE, NULL

RowsAssumption ==
  \A r \in Rows :
    /\ r.at \in Nat /\ r.recorded \in Nat /\ IsFiniteSet(r.tags)
    /\ r.type = "decision.score_calculated" => r.score \in Nat \cup {UNREADABLE}

VARIABLES
  log,    \* rows recorded
  reader  \* NULL, or a reader turning pages: what it asks for, had, and what was there first

vars == <<log, reader>>

Domains  == {r.domain : r \in Rows}
EvTypes  == {r.type : r \in Rows}
Tags     == UNION {r.tags : r \in Rows}
Subjects == {r.subject : r \in Rows}
Persons  == UNION {r.persons : r \in Rows}
Times    == {r.at : r \in Rows}

\* Filters of a request: NULL or {} is no filter.
Filter == [domain : Domains \cup {NULL}, type : EvTypes \cup {NULL}, tag : Tags \cup {NULL},
           subject : Subjects \cup {NULL}, scope : {{}} \cup {{p} : p \in Persons}]

Open == [domain |-> NULL, type |-> NULL, tag |-> NULL, subject |-> NULL, scope |-> {}]

---------------------------------------------------------------------------
(* Lists and pages                                                         *)

\* _resolve_person_scope_tokens: whose rows a member of the family may ask for, {} for all.
Scopes(me, admin) ==
  {{me}} \cup IF admin THEN {{}} \cup {{p} : p \in Persons} ELSE {}

\* _query_family_event_rows
Selected(q, from, to) ==
  {r \in log : /\ q.domain \in {NULL, r.domain} /\ q.type \in {NULL, r.type}
               /\ q.subject \in {NULL, r.subject} /\ q.tag \in {NULL} \cup r.tags
               /\ from <= r.at /\ r.at <= to}

\* _filter_rows_for_search, _record_scope_tokens: the filter of one field may be left out.
Found(q, without) ==
  {r \in log : /\ q.scope = {} \/ q.scope \cap r.persons # {}
               /\ without = "domain" \/ q.domain \in {NULL, r.domain}
               /\ without = "type" \/ q.type \in {NULL, r.type}
               /\ without = "subject" \/ q.subject \in {NULL, r.subject}
               /\ without = "tag" \/ q.tag \in {NULL} \cup r.tags}

\* The orders a query may return rows in: newest first.
NewestFirst(S) ==
  {s \in SetToSeqs(S) : \A i, j \in DOMAIN s : i < j => s[i].at >= s[j].at}

\* Mutant: a page begins a row too late.
PageAfter(s, offset, n) == SubSeq(s, offset + 2, Min({offset + n, Len(s)}))

\* list_family_events, search_family_events
Page(s, offset, n) == SubSeq(s, offset + 1, Min({offset + n, Len(s)}))

\* list_event_filter_options: per field the values left by the filters of the others.
Options(q) ==
  [domain  |-> {r.domain : r \in Found(q, "domain")},
   type    |-> {r.type : r \in Found(q, "type")},
   tag     |-> UNION {r.tags : r \in Found(q, "tag")},
   subject |-> {r.subject : r \in Found(q, "subject")}]

---------------------------------------------------------------------------
(* Metrics                                                                 *)

Metrics == {"events.count", "notes.created.count", "church.notes.count",
            "family.members.changed.count", "decision.goal_alignment.avg"}

MemberChanges == {"family_member.created", "family_member.updated", "family_member.deleted"}

IsChurchNote(r) == r.type = "note.created" /\ (r.church \/ "church" \in r.tags)

\* Rows a report looks at: the newest of those selected.
Newest(S, n) == {Range(Page(s, 0, n)) : s \in NewestFirst(S)}

TotalScore(S) == MapThenSumSet(LAMBDA r : r.score, S)

\* An average as its sum and its number of values: 0 over 0 is told as 0.
Average(S) == <<TotalScore(S), Cardinality(S)>>

\* query_counts: a row counts by its type alone, a church note twice.
Counts(S) ==
  LET Of(types) == Cardinality({r \in S : r.type \in types})
      Scored    == {r \in S : r.type = "decision.score_calculated" /\ r.score # UNREADABLE}
  IN  ("events.count" :> Cardinality(S))
      @@ ("notes.created.count" :> Of({"note.created"}))
      @@ ("church.notes.count" :> Cardinality({r \in S : IsChurchNote(r)}))
      @@ ("family.members.changed.count" :> Of(MemberChanges))
      @@ ("decision.goal_alignment.avg" :> Average(Scored))

\* _filter_event_dicts
Metered(S, metric) ==
  {r \in S : \/ metric = "events.count"
             \/ metric = "notes.created.count" /\ r.type = "note.created"
             \/ metric = "church.notes.count" /\ IsChurchNote(r)
             \/ metric = "family.members.changed.count" /\ r.type \in MemberChanges
             \/ metric = "decision.goal_alignment.avg" /\ r.type = "decision.score_calculated"}

\* _metric_value, compare_periods: the value of one period.
PeriodValue(S, metric) ==
  IF metric = "decision.goal_alignment.avg"
  THEN Average({r \in Metered(S, metric) : r.score # UNREADABLE})
  ELSE Cardinality(Metered(S, metric))

\* query_time_series: the points of the buckets with a row the metric counts; a score that
\* cannot be read counts as a value of 0.
Series(S, metric) ==
  LET In(b) == {r \in S : r.at \div Bucket = b /\ r \in Metered(S, metric)}
      Read(T) == {r \in T : r.score # UNREADABLE}
  IN  [b \in {r.at \div Bucket : r \in Metered(S, metric)} |->
        IF metric = "decision.goal_alignment.avg"
        THEN <<TotalScore(Read(In(b))), Cardinality(In(b))>> ELSE Cardinality(In(b))]

\* get_domain_activity_summary
Summary(S) ==
  [d \in Domains |-> [total    |-> Cardinality({r \in S : r.domain = d}),
                      subjects |-> Cardinality({r.subject : r \in {q \in S : q.domain = d}})]]

\* get_top_tags_or_topics
TagCounts(S) == [t \in UNION {r.tags : r \in S} |-> Cardinality({r \in S : t \in r.tags})]

\* get_data_quality_summary
Quality(S) ==
  [total   |-> Cardinality(S),
   covered |-> {r.domain : r \in S}, missing |-> Domains \ {r.domain : r \in S},
   sparse  |-> {d \in Domains : Cardinality({r \in S : r.domain = d}) \in 1..2},
   delayed |-> Cardinality({r \in S : r.recorded - r.at >= 24})]

\* get_event_sequences: rows newest first, an anchor, and the rows before and after it,
\* nearest first.
Around(rows, anchor, before, after) ==
  LET s == Reverse(rows)
      i == CHOOSE k \in DOMAIN s : s[k] = anchor
  IN  [before |-> Reverse(SubSeq(s, Max({1, i - before}), i - 1)),
       after  |-> SubSeq(s, i + 1, Min({i + after, Len(s)}))]

---------------------------------------------------------------------------
(* The log and a reader                                                    *)

\* ingest_family_event records an event, which may have occurred at any time before.
Record ==
  /\ \E r \in Rows \ log : log' = log \cup {r}
  /\ UNCHANGED reader

BeginReading ==
  /\ reader = NULL
  /\ \E q \in Filter, me \in Persons, admin \in BOOLEAN :
       /\ q.scope \in Scopes(me, admin)
       /\ reader' = [filter |-> q, offset |-> 0, had |-> {}, first |-> Found(q, "none"),
                     last |-> FALSE]
  /\ UNCHANGED log

\* paginate: the next page, as long as the total says there is one.
TurnPage ==
  /\ reader # NULL /\ ~reader.last
  /\ \E s \in NewestFirst(Found(reader.filter, "none")) :
       LET page == Page(s, reader.offset, Limit)
       IN  reader' = [reader EXCEPT !.had = @ \cup Range(page), !.offset = @ + Limit,
                                    !.last = reader.offset + Len(page) >= Len(s)]
  /\ UNCHANGED log

StopReading == reader # NULL /\ reader' = NULL /\ UNCHANGED log

Init == log = {} /\ reader = NULL

Next == Record \/ BeginReading \/ TurnPage \/ StopReading

Spec == Init /\ [][Next]_vars

---------------------------------------------------------------------------
(* Properties                                                              *)

\* A reader that turns to the last page has had every row that was there when it began,
\* however many were recorded meanwhile and however long ago they occurred, as long as no
\* two of the rows it asked for occurred at one time (search_family_events, paginate).
PagesComplete ==
  reader # NULL /\ reader.last
  /\ (\A r, q \in Found(reader.filter, "none") : r # q => r.at # q.at)
    => reader.first \subseteq reader.had

\* A value that is offered for a filter, set beside the filters there are, finds something
\* (list_event_filter_options against search_family_events). Readers do not matter to it.
OptionsFind ==
  reader = NULL => \A q \in Filter :
    LET o == Options(q)
    IN  /\ \A d \in o.domain : Found([q EXCEPT !.domain = d], "none") # {}
        /\ \A t \in o.type : Found([q EXCEPT !.type = t], "none") # {}
        /\ \A t \in o.tag : Found([q EXCEPT !.tag = t], "none") # {}
        /\ \A s \in o.subject : Found([q EXCEPT !.subject = s], "none") # {}

Sum(f) == MapThenSumSet(LAMBDA b : f[b], DOMAIN f)

\* The three ways to compute a metric agree, on rows narrow that totals and series look at
\* and rows wide that comparisons look at.
MetricsAgree(narrow, wide) ==
  \A m \in Metrics :
    /\ Counts(narrow)[m] = PeriodValue(wide, m)
    /\ m # "decision.goal_alignment.avg" => Counts(narrow)[m] = Sum(Series(narrow, m))

\* A row is among those after another exactly when that one is among those before it.
NeighboursAgree(rows) ==
  \A p, q \in Range(rows), n \in 1..Limit :
    q \in Range(Around(rows, p, n, n).after) <=> p \in Range(Around(rows, q, n, n).before)

\* What the reports say of one window agrees while the window holds no more rows than the
\* narrowest of them looks at: totals, series and comparisons of a metric, the summaries by
\* domain with the number of events, tags with a search for them, and the neighbours in a
\* sequence (query_counts, query_time_series, compare_periods, get_domain_activity_summary,
\* get_top_tags_or_topics, get_event_sequences). Readers do not matter to it.
ReportsAgree ==
  reader = NULL => \A from, to \in Times :
    LET all == Selected(Open, from, to)
    IN  Cardinality(all) <= CountLimit =>
          /\ \A narrow \in Newest(all, CountLimit), wide \in Newest(all, WideLimit) :
               /\ MetricsAgree(narrow, wide)
               /\ Sum([d \in Domains |-> Summary(wide)[d].total]) = Quality(wide).total
               /\ \A t \in DOMAIN TagCounts(wide) :
                    TagCounts(wide)[t] = Cardinality(Selected([Open EXCEPT !.tag = t], from, to))
          /\ \A rows \in NewestFirst(all) : NeighboursAgree(rows)
=============================================================================

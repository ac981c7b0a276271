----------------------------- MODULE AnnualSeries -----------------------------
(***************************************************************************)
(* The annual series that services/edgar_annual_series_client.py extracts  *)
(* from a companyfacts document.  The calendar has years of 365 days       *)
(* without leap days; a date is a day number.                              *)
(*                                                                         *)
(* facts[tag][unit] is the sequence of the entries of a tag: records       *)
(* [form, start, end, filed, val].                                         *)
(***************************************************************************)
EXTENDS SourceValues, Integers, FiniteSets, Sequences

CONSTANT Concepts      \* CONCEPTS: the candidate tags of a concept, first choice first

YEAR == 365
ANNUAL_FORMS == {"10-K", "10-K/A"}
DURATION == 340..400
GAP == 300..430
ANNIVERSARY_TOLERANCE_DAYS == 45

\* A year that ends before June belongs to the year before.
FiscalLabel(end) == IF end % YEAR >= 151 THEN end \div YEAR ELSE end \div YEAR - 1

IsAnnualEntry(e) == /\ e.form \in ANNUAL_FORMS
                    /\ e.end # None
                    /\ e.start = None \/ e.end - e.start \in DURATION

EntriesOf(facts, tag) ==
  IF tag \notin DOMAIN facts THEN <<>>
  ELSE IF DOMAIN facts[tag] = {} THEN <<>>
  ELSE facts[tag][IF "USD" \in DOMAIN facts[tag] THEN "USD" ELSE CHOOSE u \in DOMAIN facts[tag] : TRUE]

\* The annual entries of all candidates, each with the rank of its tag and its place in
\* the document.
Pooled(facts, tags) ==
  UNION {{[entry |-> EntriesOf(facts, tags[p])[k], priority |-> p, place |-> k] :
            k \in {k \in DOMAIN EntriesOf(facts, tags[p]) :
                     IsAnnualEntry(EntriesOf(facts, tags[p])[k])}} : p \in DOMAIN tags}

SamePeriod(pool, i) ==
  {j \in pool : j.entry.start = i.entry.start /\ j.entry.end = i.entry.end}

\* The first candidate, in it the latest filing, among equals the first in the document.
IsWinner(pool, i) ==
  \A j \in SamePeriod(pool, i) :
    \/ i.priority < j.priority
    \/ /\ i.priority = j.priority
       /\ \/ i.entry.filed > j.entry.filed
          \/ i.entry.filed = j.entry.filed /\ i.place <= j.place

Chosen(pool) == {i \in pool : IsWinner(pool, i) /\ i.entry.val # None}

\* Days from the nearest anniversary of the anchor.
AnniversaryDistance(end, anchor) ==
  LET d == (end - anchor) % YEAR IN IF d <= YEAR - d THEN d ELSE YEAR - d

\* The length of the chain of adjacent years that ends at the newest.
ContiguousRun(ends) ==
  LET Before(e) == {x \in ends : x < e}
      Latest(S) == CHOOSE x \in S : \A y \in S : y <= x
      run[e \in ends] == IF Before(e) = {} THEN 1
                         ELSE IF e - Latest(Before(e)) \in GAP THEN 1 + run[Latest(Before(e))] ELSE 1
  IN IF ends = {} THEN 0 ELSE run[Latest(ends)]

NoCoverage == [values |-> [y \in {} |-> 0], contiguous |-> 0, restatements |-> 0]

Anchor(S) == CHOOSE e \in {i.entry.end : i \in S} : \A i \in S : i.entry.end <= e
Offset(i, S) == AnniversaryDistance(i.entry.end, Anchor(S))
Near(S) == {i \in S : Offset(i, S) <= ANNIVERSARY_TOLERANCE_DAYS}

\* A period comes where the first of its entries under the winning tag comes.
FirstPlace(pool, i) ==
  CHOOSE n \in {j.place : j \in SamePeriod(pool, i)} :
    /\ \E j \in SamePeriod(pool, i) : j.priority = i.priority /\ j.place = n
    /\ \A j \in SamePeriod(pool, i) : j.priority = i.priority => n <= j.place

\* The nearest to the anniversary, then the later, then the earlier candidate.
Rank(pool, i) ==
  <<Offset(i, Chosen(pool)), 0 - i.entry.end, i.priority, FirstPlace(pool, i)>>

IsLess(r, s) == \E n \in 1..4 : r[n] < s[n] /\ \A m \in 1..(n - 1) : r[m] = s[m]

\* One period for each fiscal year, whatever the document calls it.
Held(pool) ==
  LET near == Near(Chosen(pool))
  IN {i \in near : \A j \in near :
        FiscalLabel(j.entry.end) = FiscalLabel(i.entry.end) =>
          i = j \/ IsLess(Rank(pool, i), Rank(pool, j))}

IsRestated(pool, i) ==
  Cardinality({j.entry.val : j \in {j \in SamePeriod(pool, i) : j.priority = i.priority}}) > 1

CoverageFor(pool) ==
  IF Chosen(pool) = {} THEN NoCoverage
  ELSE [values |-> [y \in {FiscalLabel(i.entry.end) : i \in Held(pool)} |->
                      (CHOOSE i \in Held(pool) : FiscalLabel(i.entry.end) = y).entry.val],
        contiguous |-> ContiguousRun({i.entry.end : i \in Held(pool)}),
        restatements |-> Cardinality({i \in Held(pool) : IsRestated(pool, i)})]

ExtractConcept(facts, tags) ==
  IF Pooled(facts, tags) = {} THEN NoCoverage ELSE CoverageFor(Pooled(facts, tags))

Record(concepts, reason) == [concepts |-> concepts, reason |-> reason]

BuildAnnualSeries(facts) ==
  LET concepts == [c \in DOMAIN Concepts |-> ExtractConcept(facts, Concepts[c])]
  IN Record(concepts, IF \E c \in DOMAIN concepts : concepts[c] = NoCoverage
                      THEN "no_concept" ELSE None)

Usable(record) == record.reason = None
===============================================================================

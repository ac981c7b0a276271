-------------------------- MODULE SourceCaches_proofs --------------------------
(***************************************************************************)
(* Proofs about SourceCaches, for every set of callers, every content and  *)
(* legacy entry of the assumed shapes, any days, offsets, page sizes and   *)
(* numbers of attempts and faults.                                         *)
(*                                                                         *)
(* First what the passes over a payload make of it is what the payload     *)
(* says: the info in its right unit, the annual series, the margins and    *)
(* closes, the coverage of the Form 4 filings, the signals.  Then that a   *)
(* call never carries anything else to the cache or to its caller, in      *)
(* whatever order calls, failures and days follow one another.             *)
(***************************************************************************)
EXTENDS SourceCaches, FiniteOrders
-------------------------------------------------------------------------------
(***************************************************************************)
(* Yahoo's info.                                                           *)
(***************************************************************************)
\* Pounds times a hundred are the pence they were made from.
LEMMA ExactHundredths ==
  ASSUME NEW x \in Int, x % 100 = 0
  PROVE  /\ x \div 100 \in Int /\ 100 * (x \div 100) = x
         /\ (x \div 100 = 0 <=> x = 0) /\ (x \div 100 > 0 <=> x > 0)
  OBVIOUS

\* Yahoo's info (yfinance_client.py:127): whatever unit a payload is in, its price and its
\* market cap after normalisation are those that the payload states.
LEMMA InfoIsRight ==
  ASSUME NEW i \in Contents.info \ {None}
  PROVE  InfoAgrees(NormalizeMinorUnit(i), TrueInfo(i))
<1> DEFINE n == NormalizeMinorUnit(i)
<1>0. None \notin Int /\ TrueInfo(i) # None
  BY NoneIsNoValue
<1>1. i \in [named : BOOLEAN, currency : STRING \cup {None}, cap : Figures, current : Figures,
             regular : Figures, shares : Figures]
  BY InfoContents
<1>2. i.cap \in Figures /\ i.current \in Figures /\ i.regular \in Figures /\ i.shares \in Figures
  BY <1>1
<1>3. DOMAIN MINOR_UNIT = {"GBp"} /\ MINOR_UNIT["GBp"].iso = "GBP" /\ MINOR_UNIT["GBp"].divisor = 100
  BY DEF MINOR_UNIT
<1>4. CASE i.currency = "GBp"
  <2>1. /\ n.currency = "GBP" /\ n.cap = i.cap /\ n.shares = i.shares
        /\ n.current = Rescaled(i.current, 100) /\ n.regular = Rescaled(i.regular, 100)
    BY <1>1, <1>3, <1>4 DEF NormalizeMinorUnit, IsUnnormalised
  <2>2. ~IsUnnormalised(n) /\ n.currency \notin UNRULED_MINOR_UNIT_CODES
    BY <1>3, <2>1 DEF IsUnnormalised, UNRULED_MINOR_UNIT_CODES
  <2>3. \A x \in {i.current, i.regular} :
          \/ x = None /\ Rescaled(x, 100) = None
          \/ /\ x \in Int /\ Rescaled(x, 100) \in Int /\ 100 * Rescaled(x, 100) = x
             /\ Rescaled(x, 100) = 0 <=> x = 0
             /\ Rescaled(x, 100) > 0 <=> x > 0
    <3> TAKE x \in {i.current, i.regular}
    <3>1. CASE x = None
      BY <3>1 DEF Rescaled
    <3>2. CASE x # None
      <4>1. x \in Int /\ x % 100 = 0
        BY <1>2, <1>4, <3>2, InfoContents DEF Figures
      <4> QED
        BY <3>2, <4>1, ExactHundredths DEF Rescaled
    <3> QED
      BY <3>1, <3>2
  <2> DEFINE price == IF Truthy(i.current) THEN i.current ELSE IF Truthy(i.regular) THEN i.regular ELSE 0
  <2>4. /\ price \in Int
        /\ \/ QuotedPrice(n) = None /\ price = 0
           \/ /\ QuotedPrice(n) \in Int /\ 100 * QuotedPrice(n) = price
              /\ QuotedPrice(n) > 0 <=> price > 0
    BY <1>0, <2>1, <2>3 DEF QuotedPrice, Truthy
  <2>5. /\ TrueInfo(i).price = price
        /\ TrueInfo(i).cap = IF Truthy(i.cap) THEN 100 * i.cap
                             ELSE IF ~Positive(i.shares) \/ price <= 0 THEN 0 ELSE i.shares * price
    BY <1>4 DEF TrueInfo, UNRULED_MINOR_UNIT_CODES
  <2> HIDE DEF n, price
  <2>6. ResolveMarketCap(n).cap =
          IF Truthy(i.cap) THEN i.cap
          ELSE IF Positive(i.shares) /\ Positive(QuotedPrice(n)) THEN i.shares * QuotedPrice(n)
               ELSE None
    BY <2>1, <2>2 DEF ResolveMarketCap, MarketCap
  <2>7. TrueInfo(i).price = (IF QuotedPrice(n) = None THEN 0 ELSE QuotedPrice(n)) * 100
    BY <1>0, <2>4, <2>5
  <2>8. TrueInfo(i).cap = 100 * (IF HasUsableMarketCap(n) THEN ResolveMarketCap(n).cap ELSE 0)
    <3>1. CASE Truthy(i.cap)
      BY <3>1, <1>2, <2>5, <2>6 DEF HasUsableMarketCap, Truthy
    <3>2. CASE ~Truthy(i.cap) /\ Positive(i.shares) /\ Positive(QuotedPrice(n))
      <4>1. i.shares \in Int /\ QuotedPrice(n) \in Int /\ 100 * QuotedPrice(n) = price /\ price > 0
        BY <3>2, <1>2, <2>4 DEF Positive, Figures
      <4>2. ResolveMarketCap(n).cap = i.shares * QuotedPrice(n) /\ i.shares * QuotedPrice(n) \in Int
        BY <3>2, <4>1, <2>6
      <4>3. TrueInfo(i).cap = i.shares * price
        BY <3>2, <4>1, <2>5
      <4>4. i.shares * (100 * QuotedPrice(n)) = 100 * (i.shares * QuotedPrice(n))
        BY <4>1
      <4> QED
        BY <1>0, <4>1, <4>2, <4>3, <4>4 DEF HasUsableMarketCap
    <3>3. CASE ~Truthy(i.cap) /\ ~(Positive(i.shares) /\ Positive(QuotedPrice(n)))
      <4>1. ResolveMarketCap(n).cap = None
        BY <3>3, <2>6
      <4>2. ~Positive(i.shares) \/ price <= 0
        BY <3>3, <2>4, <1>0 DEF Positive
      <4>3. TrueInfo(i).cap = 0
        BY <3>3, <4>2, <2>5
      <4> QED
        BY <4>1, <4>3 DEF HasUsableMarketCap
    <3> QED
      BY <3>1, <3>2, <3>3
  <2> QED
    BY <1>0, <2>2, <2>7, <2>8 DEF InfoAgrees, n
<1>5. CASE i.currency # "GBp"
  <2>1. n = i /\ ~IsUnnormalised(n)
    BY <1>3, <1>5 DEF NormalizeMinorUnit, IsUnnormalised
  <2> DEFINE price == IF Truthy(i.current) THEN i.current ELSE IF Truthy(i.regular) THEN i.regular ELSE 0
             unruled == i.currency \in UNRULED_MINOR_UNIT_CODES
  <2>2. /\ price \in Int
        /\ \/ QuotedPrice(i) = None /\ price = 0
           \/ QuotedPrice(i) \in Int /\ QuotedPrice(i) = price
    BY <1>0, <1>2 DEF QuotedPrice, Truthy, Figures
  <2>3. /\ TrueInfo(i).price = IF unruled THEN price ELSE 100 * price
        /\ TrueInfo(i).cap = IF Truthy(i.cap) THEN 100 * i.cap
                             ELSE IF unruled \/ ~Positive(i.shares) \/ price <= 0 THEN 0
                             ELSE i.shares * (IF unruled THEN price ELSE 100 * price)
    BY <1>5 DEF TrueInfo
  <2> HIDE DEF n, price, unruled
  <2>4. ResolveMarketCap(i).cap =
          IF Truthy(i.cap) THEN i.cap
          ELSE IF ~unruled /\ Positive(i.shares) /\ Positive(QuotedPrice(i))
               THEN i.shares * QuotedPrice(i) ELSE None
    BY <2>1 DEF ResolveMarketCap, MarketCap, unruled
  <2>5. TrueInfo(i).price = (IF QuotedPrice(i) = None THEN 0 ELSE QuotedPrice(i))
                              * (IF unruled THEN 1 ELSE 100)
    BY <1>0, <2>2, <2>3
  <2>6. TrueInfo(i).cap = 100 * (IF HasUsableMarketCap(i) THEN ResolveMarketCap(i).cap ELSE 0)
    <3>1. CASE Truthy(i.cap)
      BY <3>1, <1>2, <2>3, <2>4 DEF HasUsableMarketCap, Truthy
    <3>2. CASE ~Truthy(i.cap) /\ ~unruled /\ Positive(i.shares) /\ Positive(QuotedPrice(i))
      <4>1. i.shares \in Int /\ QuotedPrice(i) \in Int /\ QuotedPrice(i) = price /\ price > 0
        BY <3>2, <1>2, <2>2 DEF Positive, Figures
      <4>2. ResolveMarketCap(i).cap = i.shares * price /\ i.shares * price \in Int
        BY <3>2, <4>1, <2>4
      <4>3. TrueInfo(i).cap = i.shares * (100 * price)
        BY <3>2, <4>1, <2>3
      <4>4. i.shares * (100 * price) = 100 * (i.shares * price)
        BY <4>1
      <4> QED
        BY <1>0, <4>2, <4>3, <4>4 DEF HasUsableMarketCap
    <3>3. CASE ~Truthy(i.cap) /\ ~(~unruled /\ Positive(i.shares) /\ Positive(QuotedPrice(i)))
      <4>1. ResolveMarketCap(i).cap = None
        BY <3>3, <2>4
      <4>2. unruled \/ ~Positive(i.shares) \/ price <= 0
        BY <3>3, <2>2, <1>0 DEF Positive
      <4>3. TrueInfo(i).cap = 0
        BY <3>3, <4>2, <2>3
      <4> QED
        BY <4>1, <4>3 DEF HasUsableMarketCap
    <3> QED
      BY <3>1, <3>2, <3>3
  <2> QED
    BY <1>0, <2>1, <2>5, <2>6 DEF InfoAgrees, n, unruled
<1> QED
  BY <1>4, <1>5

-------------------------------------------------------------------------------
(***************************************************************************)
(* The annual series.  A pool holds every annual entry of a concept once;  *)
(* entries of one end are of one period, and of one tag and filing have    *)
(* one value.                                                              *)
(***************************************************************************)
IsPool(pool) ==
  /\ IsFiniteSet(pool)
  /\ \A i \in pool : /\ i.priority \in Nat /\ i.place \in Nat
                     /\ i.entry.end \in Int /\ i.entry.filed \in Int /\ i.entry.val # None
  /\ \A i, j \in pool : i.entry.end = j.entry.end => i.entry.start = j.entry.start
  /\ \A i, j \in pool : i.priority = j.priority /\ i.place = j.place => i = j
  /\ \A i, j \in pool : /\ i.priority = j.priority /\ i.entry.end = j.entry.end
                        /\ i.entry.filed = j.entry.filed
                        => i.entry.val = j.entry.val

Mirrors(pool, facts, tags) ==
  /\ \A i \in pool : i.priority \in DOMAIN tags /\ i.entry \in Reported(facts, tags[i.priority])
  /\ \A p \in DOMAIN tags : \A x \in Reported(facts, tags[p]) :
       \E i \in pool : i.priority = p /\ i.entry = x

EndsOf(S) == {i.entry.end : i \in S}

\* extract_concept (edgar_annual_series_client.py:354): the pool of a concept is made of the
\* annual entries of its tags.
LEMMA PoolOfConcept ==
  ASSUME NEW facts \in Contents.annual \ {None}, NEW c \in DOMAIN Concepts
  PROVE  /\ IsPool(Pooled(facts, Concepts[c]))
         /\ Mirrors(Pooled(facts, Concepts[c]), facts, Concepts[c])
<1> DEFINE tags == Concepts[c]
           pool == Pooled(facts, tags)
           places(p) == {k \in DOMAIN EntriesOf(facts, tags[p]) :
                           IsAnnualEntry(EntriesOf(facts, tags[p])[k])}
           of(p) == {[entry |-> EntriesOf(facts, tags[p])[k], priority |-> p, place |-> k] :
                       k \in places(p)}
<1>1. Len(tags) \in Nat /\ DOMAIN tags = 1..Len(tags)
  BY AnnualContents
<1>2. \A p \in DOMAIN tags : /\ Len(EntriesOf(facts, tags[p])) \in Nat
                             /\ DOMAIN EntriesOf(facts, tags[p]) = 1..Len(EntriesOf(facts, tags[p]))
  BY AnnualContents
<1>3. \A p \in DOMAIN tags, x \in UNION {Reported(facts, tags[q]) : q \in DOMAIN tags} :
        x \in Reported(facts, tags[p]) =>
          /\ x.end \in Int /\ x.filed \in Int /\ x.val # None
          /\ \A q \in DOMAIN tags : \A y \in Reported(facts, tags[q]) :
               x.end = y.end => x.start = y.start
          /\ \A y \in Reported(facts, tags[p]) :
               x.end = y.end /\ x.filed = y.filed => x.val = y.val
  BY AnnualContents
<1>4. \A p, x : x \in Reported(facts, tags[p])
                    <=> \E k \in places(p) : x = EntriesOf(facts, tags[p])[k]
  BY DEF Reported
<1>5. pool = UNION {of(p) : p \in DOMAIN tags}
  BY DEF Pooled
<1>6. \A p \in DOMAIN tags : IsFiniteSet(of(p)) /\ places(p) \subseteq Nat
  <2> TAKE p \in DOMAIN tags
  <2>1. IsFiniteSet(1..Len(EntriesOf(facts, tags[p])))
    BY <1>2, FS_Interval
  <2>2. places(p) \subseteq 1..Len(EntriesOf(facts, tags[p]))
    BY <1>2
  <2>3. IsFiniteSet(places(p))
    BY <2>1, <2>2, FS_Subset
  <2> DEFINE f == [k \in places(p) |->
                     [entry |-> EntriesOf(facts, tags[p])[k], priority |-> p, place |-> k]]
  <2>4. of(p) = {f[k] : k \in places(p)}
    OBVIOUS
  <2> HIDE DEF f, of, places
  <2>5. IsFiniteSet({f[k] : k \in places(p)})
    BY <2>3, FinitelyManyValues
  <2> QED
    BY <1>2, <2>2, <2>4, <2>5
<1>7. IsFiniteSet(pool)
  <2>1. IsFiniteSet(DOMAIN tags)
    BY <1>1, FS_Interval
  <2> DEFINE g == [p \in DOMAIN tags |-> of(p)]
  <2>2. {of(p) : p \in DOMAIN tags} = {g[p] : p \in DOMAIN tags}
    OBVIOUS
  <2> HIDE DEF g, of, pool
  <2>3. IsFiniteSet({g[p] : p \in DOMAIN tags})
    BY <2>1, FinitelyManyValues
  <2>4. \A T \in {of(p) : p \in DOMAIN tags} : IsFiniteSet(T)
    BY <1>6
  <2>5. IsFiniteSet(UNION {of(p) : p \in DOMAIN tags})
    BY <2>2, <2>3, <2>4, FS_UNION
  <2> QED
    BY <1>5, <2>5
<1>8. \A i \in pool : /\ i.priority \in DOMAIN tags /\ i.place \in places(i.priority)
                      /\ i = [entry |-> EntriesOf(facts, tags[i.priority])[i.place],
                              priority |-> i.priority, place |-> i.place]
                      /\ i.entry = EntriesOf(facts, tags[i.priority])[i.place]
  <2> TAKE i \in pool
  <2> HIDE DEF pool
  <2>1. PICK p \in DOMAIN tags : i \in of(p)
    BY <1>5
  <2>2. PICK k \in places(p) :
          i = [entry |-> EntriesOf(facts, tags[p])[k], priority |-> p, place |-> k]
    BY <2>1
  <2> HIDE DEF of, places, tags
  <2>3. i.priority = p /\ i.place = k /\ i.entry = EntriesOf(facts, tags[p])[k]
    BY <2>2
  <2> QED
    BY <2>1, <2>2, <2>3
<1>9. Mirrors(pool, facts, tags)
  <2>1. ASSUME NEW i \in pool
        PROVE  i.priority \in DOMAIN tags /\ i.entry \in Reported(facts, tags[i.priority])
    <3> HIDE DEF pool, places, tags, of
    <3>1. /\ i.priority \in DOMAIN tags /\ i.place \in places(i.priority)
          /\ i.entry = EntriesOf(facts, tags[i.priority])[i.place]
      BY <1>8
    <3> QED
      BY <1>4, <3>1
  <2>2. ASSUME NEW p \in DOMAIN tags, NEW x \in Reported(facts, tags[p])
        PROVE  \E i \in pool : i.priority = p /\ i.entry = x
    <3> HIDE DEF places, pool, tags
    <3>1. PICK k \in places(p) : x = EntriesOf(facts, tags[p])[k]
      BY <1>4
    <3> DEFINE i == [entry |-> EntriesOf(facts, tags[p])[k], priority |-> p, place |-> k]
    <3>2. i \in of(p)
      BY <3>1
    <3>3. i \in pool
      <4> HIDE DEF i, of
      <4> QED
        BY <1>5, <3>2
    <3>4. i.priority = p /\ i.entry = x
      BY <3>1
    <3> QED
      BY <3>3, <3>4
  <2> QED
    BY <2>1, <2>2 DEF Mirrors
<1>10. \A i \in pool : i.priority \in Nat /\ i.place \in Nat
  <2> TAKE i \in pool
  <2> HIDE DEF pool, places, of, tags
  <2>1. i.priority \in DOMAIN tags /\ i.place \in places(i.priority)
    BY <1>8
  <2>2. places(i.priority) \subseteq Nat
    BY <1>6, <2>1
  <2>3. i.priority \in Nat
    BY <1>1, <2>1
  <2> QED
    BY <2>1, <2>2, <2>3
<1>11. \A i, j \in pool : i.priority = j.priority /\ i.place = j.place => i = j
  <2> HIDE DEF pool, places, tags
  <2> QED
    BY <1>8
<1> HIDE DEF pool, of, places, tags
<1>12. \A i \in pool : /\ i.priority \in DOMAIN tags /\ i.entry \in Reported(facts, tags[i.priority])
                       /\ i.entry \in UNION {Reported(facts, tags[q]) : q \in DOMAIN tags}
  BY <1>9 DEF Mirrors
<1>13. IsPool(pool)
  <2>1. \A i \in pool : i.entry.end \in Int /\ i.entry.filed \in Int /\ i.entry.val # None
    BY <1>3, <1>12
  <2>2. \A i, j \in pool : i.entry.end = j.entry.end => i.entry.start = j.entry.start
    BY <1>3, <1>12
  <2>3. ASSUME NEW i \in pool, NEW j \in pool, i.priority = j.priority,
               i.entry.end = j.entry.end, i.entry.filed = j.entry.filed
        PROVE  i.entry.val = j.entry.val
    BY <1>3, <1>12, <2>3
  <2> QED
    BY <1>7, <1>10, <1>11, <2>1, <2>2, <2>3 DEF IsPool
<1> QED
  BY <1>9, <1>13 DEF pool, tags

\* In a pool a period is told by its end.
LEMMA PeriodIsEnd ==
  ASSUME NEW pool, IsPool(pool), NEW i \in pool
  PROVE  SamePeriod(pool, i) = {j \in pool : j.entry.end = i.entry.end}
BY DEF IsPool, SamePeriod

\* A winner (edgar_annual_series_client.py:290) is of the first tag that has the period, and
\* the latest of that tag; an end has one winner.
LEMMA WinnerOfEnd ==
  ASSUME NEW pool, IsPool(pool)
  PROVE  /\ \A w \in Chosen(pool) : \A j \in pool : j.entry.end = w.entry.end =>
              /\ w.priority <= j.priority
              /\ w.priority = j.priority => j.entry.filed <= w.entry.filed
         /\ \A w, v \in Chosen(pool) : w.entry.end = v.entry.end => w = v
         /\ EndsOf(Chosen(pool)) = EndsOf(pool)
<1>1. \A i \in pool : /\ i.priority \in Nat /\ i.place \in Nat
                      /\ i.entry.end \in Int /\ i.entry.filed \in Int /\ i.entry.val # None
  BY DEF IsPool
<1>2. \A w \in Chosen(pool) : w \in pool /\ \A j \in pool : j.entry.end = w.entry.end =>
        \/ w.priority < j.priority
        \/ /\ w.priority = j.priority
           /\ \/ w.entry.filed > j.entry.filed
              \/ w.entry.filed = j.entry.filed /\ w.place <= j.place
  <2> TAKE w \in Chosen(pool)
  <2>1. w \in pool /\ IsWinner(pool, w)
    BY DEF Chosen
  <2>2. SamePeriod(pool, w) = {j \in pool : j.entry.end = w.entry.end}
    BY <2>1, PeriodIsEnd
  <2> QED
    BY <2>1, <2>2 DEF IsWinner
<1>3. ASSUME NEW w \in Chosen(pool), NEW j \in pool, j.entry.end = w.entry.end
      PROVE  /\ w.priority <= j.priority
             /\ w.priority = j.priority => j.entry.filed <= w.entry.filed
  BY <1>1, <1>2, <1>3
<1>4. ASSUME NEW w \in Chosen(pool), NEW v \in Chosen(pool), w.entry.end = v.entry.end
      PROVE  w = v
  <2>1. w \in pool /\ v \in pool
    BY <1>2
  <2>2. w.priority = v.priority
    BY <1>1, <1>3, <1>4, <2>1
  <2>3. w.place = v.place
    BY <1>1, <1>2, <1>4, <2>1, <2>2
  <2> QED
    BY <2>1, <2>2, <2>3 DEF IsPool
<1>5. ASSUME NEW i \in pool
      PROVE  \E w \in Chosen(pool) : w.entry.end = i.entry.end
  <2> DEFINE S == {j \in pool : j.entry.end = i.entry.end}
             ranks == {j.priority : j \in S}
  <2>1. i \in S /\ ranks \in SUBSET Nat /\ ranks # {}
    BY <1>1
  <2>2. PICK p \in ranks : \A q \in ranks : p <= q
    BY <2>1, LeastNumber
  <2> DEFINE S1 == {j \in S : j.priority = p}
             days == {j.entry.filed : j \in S1}
  <2>3. S1 # {}
    BY <2>2
  <2>4. IsFiniteSet(S1)
    <3>1. S1 \subseteq pool /\ IsFiniteSet(pool)
      BY DEF IsPool
    <3> QED
      BY <3>1, FS_Subset
  <2>5. IsFiniteSet(days) /\ days # {} /\ days \in SUBSET Int
    <3> DEFINE f == [j \in S1 |-> j.entry.filed]
    <3>1. days = {f[j] : j \in S1}
      OBVIOUS
    <3>2. days # {} /\ days \in SUBSET Int
      BY <1>1, <2>3
    <3> HIDE DEF f, days, S1
    <3>3. IsFiniteSet({f[j] : j \in S1})
      BY <2>4, FinitelyManyValues
    <3> QED
      BY <3>1, <3>2, <3>3
  <2>6. PICK d \in days : \A e \in days : e <= d
    BY <2>5, ExtremesExist
  <2> DEFINE S2 == {j \in S1 : j.entry.filed = d}
             places == {j.place : j \in S2}
  <2>7. places \in SUBSET Nat /\ places # {}
    BY <1>1, <2>6
  <2>8. PICK n \in places : \A m \in places : n <= m
    BY <2>7, LeastNumber
  <2>9. PICK w \in S2 : w.place = n
    BY <2>8
  <2>10. /\ w \in pool /\ w.entry.end = i.entry.end /\ w.priority = p /\ w.entry.filed = d
    BY <2>9
  <2>11. ASSUME NEW j \in pool, j.entry.end = w.entry.end
         PROVE  \/ w.priority < j.priority
                \/ /\ w.priority = j.priority
                   /\ \/ w.entry.filed > j.entry.filed
                      \/ w.entry.filed = j.entry.filed /\ w.place <= j.place
    <3>1. j \in S
      BY <2>10, <2>11
    <3>2. p <= j.priority
      BY <2>2, <3>1
    <3>3. CASE j.priority # p
      BY <1>1, <2>10, <3>2, <3>3
    <3>4. CASE j.priority = p
      <4>1. j \in S1
        BY <3>1, <3>4
      <4>2. j.entry.filed <= d
        BY <2>6, <4>1
      <4>3. j.entry.filed = d => w.place <= j.place
        BY <2>8, <2>9, <4>1
      <4> HIDE DEF S, S1, S2, ranks, days, places
      <4>4. j.entry.filed \in Int /\ w.entry.filed \in Int
        BY <1>1, <2>10
      <4>5. w.priority = j.priority
        BY <2>10, <3>4
      <4>6. CASE j.entry.filed = d
        BY <2>10, <4>3, <4>5, <4>6
      <4>7. CASE j.entry.filed # d
        BY <2>10, <4>2, <4>4, <4>5, <4>7
      <4> QED
        BY <4>6, <4>7
    <3> QED
      BY <3>3, <3>4
  <2> HIDE DEF S, S1, S2, ranks, days, places
  <2>12. SamePeriod(pool, w) = {j \in pool : j.entry.end = w.entry.end}
    BY <2>10, PeriodIsEnd
  <2>13. IsWinner(pool, w)
    BY <2>11, <2>12 DEF IsWinner
  <2>14. w \in Chosen(pool)
    BY <1>1, <2>10, <2>13 DEF Chosen
  <2> QED
    BY <2>10, <2>14
<1>6. EndsOf(Chosen(pool)) = EndsOf(pool)
  <2>1. ASSUME NEW e \in EndsOf(Chosen(pool)) PROVE e \in EndsOf(pool)
    BY <1>2 DEF EndsOf
  <2>2. ASSUME NEW e \in EndsOf(pool) PROVE e \in EndsOf(Chosen(pool))
    <3>1. PICK i \in pool : e = i.entry.end
      BY DEF EndsOf
    <3>2. PICK w \in Chosen(pool) : w.entry.end = i.entry.end
      BY <1>5
    <3> QED
      BY <3>1, <3>2 DEF EndsOf
  <2> QED
    BY <2>1, <2>2
<1> QED
  BY <1>3, <1>4, <1>6

\* The anniversary that the code counts from is where the fiscal year ends.
LEMMA OffsetIsDaysOff ==
  ASSUME NEW S, IsFiniteSet(EndsOf(S)), EndsOf(S) \in SUBSET Int, NEW i \in S
  PROVE  /\ Offset(i, S) = DaysOff(i.entry.end, EndsOf(S))
         /\ DaysOff(i.entry.end, EndsOf(S)) \in Nat
         /\ \E e \in EndsOf(S) : DaysOff(e, EndsOf(S)) = 0
<1> DEFINE E == EndsOf(S)
           n == CHOOSE n \in E : \A f \in E : f <= n
<1>1. i.entry.end \in E /\ E # {}
  BY DEF EndsOf
<1>2. \E m \in E : \A x \in E : x <= m
  BY <1>1, ExtremesExist
<1>3. n \in E /\ (\A f \in E : f <= n) /\ n \in Int
  <2>1. n \in E /\ \A f \in E : f <= n
    <3> HIDE DEF E
    <3> QED
      BY <1>2
  <2> HIDE DEF n
  <2> QED
    BY <2>1
<1>4. Anchor(S) = n
  <2>1. Anchor(S) = CHOOSE e \in E : \A j \in S : j.entry.end <= e
    BY DEF Anchor, EndsOf
  <2>2. n \in E /\ \A j \in S : j.entry.end <= n
    BY <1>3 DEF EndsOf
  <2>3. Anchor(S) \in E /\ \A j \in S : j.entry.end <= Anchor(S)
    <3> HIDE DEF E, n
    <3> QED
      BY <2>1, <2>2
  <2>4. n <= Anchor(S) /\ Anchor(S) <= n
    <3>1. PICK j \in S : n = j.entry.end
      BY <1>3 DEF EndsOf
    <3> HIDE DEF n, E
    <3> QED
      BY <1>3, <2>3, <3>1
  <2>5. Anchor(S) \in Int
    BY <2>3
  <2> HIDE DEF n, E
  <2> QED
    BY <1>3, <2>4, <2>5
<1>5. \A e \in Int : (e - n) % YEAR = (e - (n % YEAR)) % YEAR /\ (e - n) % YEAR \in 0..(YEAR - 1)
  <2> HIDE DEF n
  <2> QED
    BY <1>3 DEF YEAR
<1>6. \A e \in E : DaysOff(e, E) = AnniversaryDistance(e, n)
  <2> TAKE e \in E
  <2>1. DaysOff(e, E) = LET d == (e - (n % YEAR)) % YEAR IN IF d <= YEAR - d THEN d ELSE YEAR - d
    BY DEF DaysOff
  <2>2. AnniversaryDistance(e, n) = LET d == (e - n) % YEAR IN IF d <= YEAR - d THEN d ELSE YEAR - d
    BY DEF AnniversaryDistance
  <2>3. (e - n) % YEAR = (e - (n % YEAR)) % YEAR
    <3>1. e \in Int
      OBVIOUS
    <3> HIDE DEF E, n
    <3> QED
      BY <1>5, <3>1
  <2> HIDE DEF E, n
  <2> QED
    BY <2>1, <2>2, <2>3
<1>7. \A e \in E : AnniversaryDistance(e, n) \in Nat
  <2> TAKE e \in E
  <2>1. e \in Int
    OBVIOUS
  <2> HIDE DEF E, n
  <2> QED
    BY <1>5, <2>1 DEF AnniversaryDistance, YEAR
<1>8. AnniversaryDistance(n, n) = 0
  <2> HIDE DEF n
  <2>1. (n - n) % 365 = 0
    BY <1>3
  <2> QED
    BY <2>1 DEF AnniversaryDistance, YEAR
<1> HIDE DEF n
<1> QED
  BY <1>1, <1>3, <1>4, <1>6, <1>7, <1>8 DEF Offset

\* Of two periods with different ends the distance from the anniversary and the end decide.
LEMMA FirstTwoDecide ==
  ASSUME NEW a \in Int, NEW b \in Int, NEW x \in Int, NEW y \in Int, b # y,
         NEW c, NEW d, NEW z, NEW w
  PROVE  IsLess(<<a, b, c, d>>, <<x, y, z, w>>) <=> a < x \/ (a = x /\ b < y)
<1> DEFINE r == <<a, b, c, d>>
           s == <<x, y, z, w>>
<1>1. r[1] = a /\ r[2] = b /\ s[1] = x /\ s[2] = y
  OBVIOUS
<1> HIDE DEF r, s
<1>2. ASSUME NEW n \in 1..4, r[n] < s[n], \A m \in 1..(n - 1) : r[m] = s[m]
      PROVE  a < x \/ (a = x /\ b < y)
  <2>1. n > 1 => r[1] = s[1]
    BY <1>2
  <2>2. n > 2 => r[2] = s[2]
    BY <1>2
  <2>3. n = 1 \/ n = 2
    BY <1>1, <2>2
  <2> QED
    BY <1>1, <1>2, <2>1, <2>3
<1>3. ASSUME a < x
      PROVE  \E n \in 1..4 : r[n] < s[n] /\ \A m \in 1..(n - 1) : r[m] = s[m]
  <2>1. r[1] < s[1] /\ \A m \in 1..(1 - 1) : r[m] = s[m]
    BY <1>1, <1>3
  <2> QED
    BY <2>1
<1>4. ASSUME a = x, b < y
      PROVE  \E n \in 1..4 : r[n] < s[n] /\ \A m \in 1..(n - 1) : r[m] = s[m]
  <2>1. r[2] < s[2] /\ \A m \in 1..(2 - 1) : r[m] = s[m]
    BY <1>1, <1>4
  <2> QED
    BY <2>1
<1>5. IsLess(r, s) <=> a < x \/ (a = x /\ b < y)
  BY <1>2, <1>3, <1>4 DEF IsLess
<1> QED
  BY <1>5 DEF r, s

\* The end that a fiscal year is given, among a set of days.
IsEndOf(e, y, ends) ==
  /\ e \in YearEnds(ends) /\ FiscalLabel(e) = y
  /\ \A f \in YearEnds(ends) : FiscalLabel(f) = y =>
       \/ DaysOff(e, ends) < DaysOff(f, ends)
       \/ DaysOff(e, ends) = DaysOff(f, ends) /\ f <= e

\* A fiscal year that any end is near to has one end.
LEMMA EndOfYear ==
  ASSUME NEW E \in SUBSET Int, IsFiniteSet(E), \A e \in E : DaysOff(e, E) \in Nat,
         NEW g \in YearEnds(E)
  PROVE  /\ IsEndOf(EndOf(FiscalLabel(g), E), FiscalLabel(g), E)
         /\ \A e : IsEndOf(e, FiscalLabel(g), E) => e = EndOf(FiscalLabel(g), E)
<1> DEFINE y == FiscalLabel(g)
           T == {e \in YearEnds(E) : FiscalLabel(e) = y}
           offs == {DaysOff(e, E) : e \in T}
<1>1. T \subseteq E /\ g \in T
  BY DEF YearEnds
<1>2. offs \in SUBSET Nat /\ offs # {}
  BY <1>1
<1>3. PICK k \in offs : \A n \in offs : k <= n
  BY <1>2, LeastNumber
<1> DEFINE U == {e \in T : DaysOff(e, E) = k}
<1>4. U \in SUBSET Int /\ U # {} /\ IsFiniteSet(U)
  <2>1. U \subseteq E /\ U # {}
    BY <1>1, <1>3
  <2>2. IsFiniteSet(U)
    BY <2>1, FS_Subset
  <2> QED
    BY <2>1, <2>2
<1>5. PICK m \in U : \A e \in U : e <= m
  BY <1>4, ExtremesExist
<1>6. IsEndOf(m, y, E)
  <2>1. m \in YearEnds(E) /\ FiscalLabel(m) = y /\ DaysOff(m, E) = k
    BY <1>5
  <2>2. ASSUME NEW f \in YearEnds(E), FiscalLabel(f) = y
        PROVE  DaysOff(m, E) < DaysOff(f, E) \/ (DaysOff(m, E) = DaysOff(f, E) /\ f <= m)
    <3>1. f \in T /\ DaysOff(f, E) \in offs
      BY <2>2
    <3>2. k <= DaysOff(f, E) /\ DaysOff(f, E) \in Nat /\ k \in Nat
      BY <1>2, <1>3, <3>1
    <3>3. DaysOff(f, E) = k => f <= m
      BY <1>5, <3>1
    <3> HIDE DEF T, U, offs, y
    <3> QED
      BY <2>1, <3>2, <3>3
  <2> QED
    BY <2>1, <2>2 DEF IsEndOf
<1>7. ASSUME NEW e, IsEndOf(e, y, E), NEW f, IsEndOf(f, y, E)
      PROVE  e = f
  <2>1. /\ e \in YearEnds(E) /\ f \in YearEnds(E)
        /\ FiscalLabel(e) = y /\ FiscalLabel(f) = y
    BY <1>7 DEF IsEndOf
  <2>2. e \in E /\ f \in E
    BY <2>1 DEF YearEnds
  <2>3. /\ DaysOff(e, E) < DaysOff(f, E) \/ (DaysOff(e, E) = DaysOff(f, E) /\ f <= e)
        /\ DaysOff(f, E) < DaysOff(e, E) \/ (DaysOff(f, E) = DaysOff(e, E) /\ e <= f)
    BY <1>7, <2>1 DEF IsEndOf
  <2>4. e \in Int /\ f \in Int /\ DaysOff(e, E) \in Nat /\ DaysOff(f, E) \in Nat
    BY <2>2
  <2> QED
    BY <2>3, <2>4
<1>8. EndOf(y, E) = CHOOSE e \in YearEnds(E) : IsEndOf(e, y, E)
  <2>1. EndOf(y, E) = CHOOSE e \in YearEnds(E) :
          /\ FiscalLabel(e) = y
          /\ \A f \in YearEnds(E) : FiscalLabel(f) = y =>
               \/ DaysOff(e, E) < DaysOff(f, E)
               \/ DaysOff(e, E) = DaysOff(f, E) /\ f <= e
    BY DEF EndOf
  <2>2. \A e \in YearEnds(E) : IsEndOf(e, y, E) <=>
          /\ FiscalLabel(e) = y
          /\ \A f \in YearEnds(E) : FiscalLabel(f) = y =>
               \/ DaysOff(e, E) < DaysOff(f, E)
               \/ DaysOff(e, E) = DaysOff(f, E) /\ f <= e
    BY DEF IsEndOf
  <2> QED
    BY <2>1, <2>2
<1> HIDE DEF y, T, offs, U
<1>9. IsEndOf(EndOf(y, E), y, E)
  <2>1. m \in YearEnds(E)
    BY <1>6 DEF IsEndOf
  <2> QED
    BY <1>6, <1>8, <2>1
<1>10. \A e : IsEndOf(e, y, E) => e = EndOf(y, E)
  BY <1>7, <1>9
<1> QED
  BY <1>9, <1>10 DEF y

\* _coverage_for (edgar_annual_series_client.py:322): the periods held are those that end
\* where a fiscal year ends, one for each year.
LEMMA HeldIsEndOfYear ==
  ASSUME NEW pool, IsPool(pool), NEW E, E = EndsOf(pool), E # {}
  PROVE  /\ \A i \in Held(pool) : i \in Chosen(pool) /\ i.entry.end \in YearEnds(E)
                                  /\ i.entry.end = EndOf(FiscalLabel(i.entry.end), E)
         /\ \A g \in YearEnds(E) : \E i \in Held(pool) : FiscalLabel(i.entry.end) = FiscalLabel(g)
         /\ YearEnds(E) # {}
<1> DEFINE S == Chosen(pool)
<1>1. \A i \in pool : i.entry.end \in Int
  BY DEF IsPool
<1>2. E \in SUBSET Int /\ IsFiniteSet(E)
  <2>1. E \in SUBSET Int
    BY <1>1 DEF EndsOf
  <2> DEFINE f == [i \in pool |-> i.entry.end]
  <2>2. E = {f[i] : i \in pool} /\ IsFiniteSet(pool)
    BY DEF EndsOf, IsPool
  <2> HIDE DEF f
  <2>3. IsFiniteSet({f[i] : i \in pool})
    BY <2>2, FinitelyManyValues
  <2> QED
    BY <2>1, <2>2, <2>3
<1>3. S \subseteq pool /\ EndsOf(S) = E /\ \A w, v \in S : w.entry.end = v.entry.end => w = v
  BY WinnerOfEnd DEF Chosen
<1>4. S # {} /\ \A i \in S : i.entry.end \in E
  BY <1>3 DEF EndsOf
<1>5. \A i \in S : Offset(i, S) = DaysOff(i.entry.end, E) /\ DaysOff(i.entry.end, E) \in Nat
  BY <1>2, <1>3, OffsetIsDaysOff
<1>6. \A e \in E : DaysOff(e, E) \in Nat
  <2> TAKE e \in E
  <2>1. PICK i \in S : i.entry.end = e
    BY <1>3 DEF EndsOf
  <2> QED
    BY <1>5, <2>1
<1>7. YearEnds(E) # {}
  <2>1. \E e \in E : DaysOff(e, E) = 0
    BY <1>2, <1>3, <1>4, OffsetIsDaysOff
  <2> QED
    BY <2>1 DEF YearEnds
<1>8. \A i \in S : i \in Near(S) <=> i.entry.end \in YearEnds(E)
  BY <1>4, <1>5 DEF Near, YearEnds, ANNIVERSARY_TOLERANCE_DAYS
<1>9. ASSUME NEW i \in S, NEW j \in S, i # j
      PROVE  IsLess(Rank(pool, i), Rank(pool, j)) <=>
               \/ DaysOff(i.entry.end, E) < DaysOff(j.entry.end, E)
               \/ DaysOff(i.entry.end, E) = DaysOff(j.entry.end, E) /\ j.entry.end < i.entry.end
  <2>1. i.entry.end # j.entry.end /\ i.entry.end \in Int /\ j.entry.end \in Int
    BY <1>1, <1>3, <1>9
  <2>2. 0 - i.entry.end # 0 - j.entry.end /\ 0 - i.entry.end \in Int /\ 0 - j.entry.end \in Int
        /\ (0 - i.entry.end < 0 - j.entry.end <=> j.entry.end < i.entry.end)
    BY <2>1
  <2>3. Offset(i, S) \in Int /\ Offset(j, S) \in Int
    BY <1>5
  <2>4. IsLess(Rank(pool, i), Rank(pool, j)) <=>
          \/ Offset(i, S) < Offset(j, S)
          \/ Offset(i, S) = Offset(j, S) /\ 0 - i.entry.end < 0 - j.entry.end
    BY <2>2, <2>3, FirstTwoDecide DEF Rank
  <2> HIDE DEF S
  <2> QED
    BY <1>5, <2>2, <2>4
<1>10. \A i : i \in Held(pool) <=>
         /\ i \in S /\ i \in Near(S)
         /\ \A j \in Near(S) : FiscalLabel(j.entry.end) = FiscalLabel(i.entry.end) =>
              i = j \/ IsLess(Rank(pool, i), Rank(pool, j))
  BY DEF Held, Near
<1>11. Near(S) \subseteq S
  BY DEF Near
<1> HIDE DEF S
<1>12. \A i \in S : i \in Held(pool) <=> IsEndOf(i.entry.end, FiscalLabel(i.entry.end), E)
  <2> TAKE i \in S
  <2>1. ASSUME i \in Held(pool)
        PROVE  IsEndOf(i.entry.end, FiscalLabel(i.entry.end), E)
    <3>1. i.entry.end \in YearEnds(E)
      BY <1>8, <1>10, <2>1
    <3>2. ASSUME NEW f \in YearEnds(E), FiscalLabel(f) = FiscalLabel(i.entry.end)
          PROVE  \/ DaysOff(i.entry.end, E) < DaysOff(f, E)
                 \/ DaysOff(i.entry.end, E) = DaysOff(f, E) /\ f <= i.entry.end
      <4>1. f \in E
        BY DEF YearEnds
      <4>2. PICK j \in S : f = j.entry.end
        BY <1>3, <4>1 DEF EndsOf
      <4>3. j \in Near(S)
        BY <1>8, <4>2
      <4>4. i = j \/ IsLess(Rank(pool, i), Rank(pool, j))
        BY <1>10, <2>1, <3>2, <4>2, <4>3
      <4>5. f \in Int /\ i.entry.end \in Int
        BY <1>2, <1>4, <4>1
      <4> QED
        BY <1>9, <4>2, <4>4, <4>5
    <3> QED
      BY <3>1, <3>2 DEF IsEndOf
  <2>2. ASSUME IsEndOf(i.entry.end, FiscalLabel(i.entry.end), E)
        PROVE  i \in Held(pool)
    <3>1. i \in Near(S)
      BY <1>8, <2>2 DEF IsEndOf
    <3>2. ASSUME NEW j \in Near(S), FiscalLabel(j.entry.end) = FiscalLabel(i.entry.end), i # j
          PROVE  IsLess(Rank(pool, i), Rank(pool, j))
      <4>1. j \in S /\ j.entry.end \in YearEnds(E)
        BY <1>8, <1>11
      <4>2. \/ DaysOff(i.entry.end, E) < DaysOff(j.entry.end, E)
            \/ DaysOff(i.entry.end, E) = DaysOff(j.entry.end, E) /\ j.entry.end <= i.entry.end
        BY <2>2, <3>2, <4>1 DEF IsEndOf
      <4>3. i.entry.end # j.entry.end /\ i.entry.end \in Int /\ j.entry.end \in Int
        BY <1>2, <1>3, <1>4, <3>2, <4>1
      <4> QED
        BY <1>9, <3>2, <4>1, <4>2, <4>3
    <3> QED
      BY <1>10, <3>1, <3>2
  <2> QED
    BY <2>1, <2>2
<1>13. ASSUME NEW i \in Held(pool)
       PROVE  i \in S /\ i.entry.end \in YearEnds(E)
              /\ i.entry.end = EndOf(FiscalLabel(i.entry.end), E)
  <2>1. i \in S /\ IsEndOf(i.entry.end, FiscalLabel(i.entry.end), E)
    BY <1>10, <1>12
  <2>2. i.entry.end \in YearEnds(E)
    BY <2>1 DEF IsEndOf
  <2> QED
    BY <1>2, <1>6, <2>1, <2>2, EndOfYear
<1>14. ASSUME NEW g \in YearEnds(E)
       PROVE  \E i \in Held(pool) : FiscalLabel(i.entry.end) = FiscalLabel(g)
  <2> DEFINE e == EndOf(FiscalLabel(g), E)
  <2>1. IsEndOf(e, FiscalLabel(g), E)
    BY <1>2, <1>6, EndOfYear
  <2> HIDE DEF e
  <2>2. e \in E /\ FiscalLabel(e) = FiscalLabel(g)
    BY <2>1 DEF IsEndOf, YearEnds
  <2>3. PICK i \in S : i.entry.end = e
    BY <1>3, <2>2 DEF EndsOf
  <2>4. i \in Held(pool)
    BY <1>12, <2>1, <2>2, <2>3
  <2> QED
    BY <2>2, <2>3, <2>4
<1> QED
  BY <1>7, <1>13, <1>14 DEF S

\* The value of a winner is that of the latest report of the first tag on its period.
LEMMA WinnerSaysTruth ==
  ASSUME NEW facts \in Contents.annual \ {None}, NEW c \in DOMAIN Concepts,
         NEW w \in Chosen(Pooled(facts, Concepts[c]))
  PROVE  w.entry.val = LatestReport(facts, Concepts[c][FirstTag(facts, Concepts[c], w.entry.end)],
                                    w.entry.end).val
<1> DEFINE tags == Concepts[c]
           pool == Pooled(facts, tags)
           e == w.entry.end
           p == FirstTag(facts, tags, e)
           x == LatestReport(facts, tags[p], e)
<1>1. IsPool(pool) /\ Mirrors(pool, facts, tags)
  BY PoolOfConcept
<1>2. Len(tags) \in Nat /\ DOMAIN tags = 1..Len(tags)
  BY AnnualContents
<1>3. w \in pool /\ w.priority \in DOMAIN tags /\ w.entry \in Reported(facts, tags[w.priority])
  BY <1>1 DEF Chosen, Mirrors
<1>4. \A j \in pool : j.entry.end = e =>
        /\ w.priority <= j.priority
        /\ w.priority = j.priority => j.entry.filed <= w.entry.filed
  BY <1>1, WinnerOfEnd
<1>5. \A q \in DOMAIN tags : \A z \in Reported(facts, tags[q]) : z.end = e =>
        /\ w.priority <= q
        /\ w.priority = q => z.filed <= w.entry.filed
  <2> TAKE q \in DOMAIN tags
  <2> TAKE z \in Reported(facts, tags[q])
  <2>1. PICK j \in pool : j.priority = q /\ j.entry = z
    BY <1>1 DEF Mirrors
  <2> HIDE DEF pool, tags, e
  <2> QED
    BY <1>4, <2>1
<1> DEFINE First(n) == /\ \E z \in Reported(facts, tags[n]) : z.end = e
                       /\ \A q \in 1..(n - 1) : \A z \in Reported(facts, tags[q]) : z.end # e
<1>6. First(w.priority)
  <2>1. \E z \in Reported(facts, tags[w.priority]) : z.end = e
    BY <1>3
  <2>2. ASSUME NEW q \in 1..(w.priority - 1), NEW z \in Reported(facts, tags[q]), z.end = e
        PROVE  FALSE
    <3>1. q \in DOMAIN tags /\ q < w.priority /\ w.priority \in Int /\ q \in Int
      <4> HIDE DEF tags
      <4> QED
        BY <1>2, <1>3
    <3> HIDE DEF tags, e
    <3> QED
      BY <1>5, <2>2, <3>1
  <2> QED
    BY <2>1, <2>2
<1>7. p \in DOMAIN tags /\ First(p)
  <2>1. p = CHOOSE n \in DOMAIN tags : First(n)
    BY DEF FirstTag
  <2> HIDE DEF p, First, tags
  <2> QED
    BY <1>3, <1>6, <2>1
<1>8. p = w.priority
  <2>1. w.priority <= p
    <3>1. \E z \in Reported(facts, tags[p]) : z.end = e
      BY <1>7
    <3> HIDE DEF p, tags, e
    <3> QED
      BY <1>5, <1>7, <3>1
  <2>2. ~(w.priority \in 1..(p - 1))
    <3>1. \A q \in 1..(p - 1) : \A z \in Reported(facts, tags[q]) : z.end # e
      BY <1>7
    <3> HIDE DEF p, tags
    <3> QED
      BY <1>3, <3>1
  <2>3. p \in Int /\ w.priority \in Int /\ w.priority >= 1
    <3> HIDE DEF p, tags
    <3> QED
      BY <1>2, <1>3, <1>7
  <2> HIDE DEF p
  <2> QED
    BY <2>1, <2>2, <2>3
<1> DEFINE Latest(z) == /\ z.end = e
                        /\ \A y \in Reported(facts, tags[p]) : y.end = e => y.filed <= z.filed
<1>9. w.entry \in Reported(facts, tags[p]) /\ Latest(w.entry)
  <2> HIDE DEF p, tags
  <2> QED
    BY <1>3, <1>5, <1>7, <1>8
<1>10. x \in Reported(facts, tags[p]) /\ Latest(x)
  <2>1. x = CHOOSE z \in Reported(facts, tags[p]) : Latest(z)
    BY DEF LatestReport
  <2> HIDE DEF x, p, tags, Latest
  <2> QED
    BY <1>9, <2>1
<1>11. \A z, y \in Reported(facts, tags[p]) : /\ z.filed \in Int
                                              /\ z.end = y.end /\ z.filed = y.filed => z.val = y.val
  <2> HIDE DEF p
  <2> QED
    BY <1>7, AnnualContents
<1>12. x.end = w.entry.end /\ x.filed = w.entry.filed
  <2>1. x.end = e /\ x.filed <= w.entry.filed /\ w.entry.filed <= x.filed
    <3>1. w.entry.end = e
      OBVIOUS
    <3> HIDE DEF x, p, tags, e
    <3> QED
      BY <1>9, <1>10, <3>1
  <2>2. x.filed \in Int /\ w.entry.filed \in Int
    <3> HIDE DEF x, p, tags
    <3> QED
      BY <1>9, <1>10, <1>11
  <2> HIDE DEF x
  <2> QED
    BY <2>1, <2>2
<1>13. x.val = w.entry.val
  <2> HIDE DEF x, p, tags, Latest
  <2> QED
    BY <1>9, <1>10, <1>11, <1>12
<1> QED
  BY <1>13

\* extract_concept (edgar_annual_series_client.py:354): the series of a concept is what the
\* annual reports say of its fiscal years, and there is one if they say anything.
LEMMA SeriesIsRight ==
  ASSUME NEW facts \in Contents.annual \ {None}, NEW c \in DOMAIN Concepts
  PROVE  /\ ExtractConcept(facts, Concepts[c]).values = TrueSeries(facts, Concepts[c])
         /\ ExtractConcept(facts, Concepts[c]) = NoCoverage
              <=> DOMAIN TrueSeries(facts, Concepts[c]) = {}
<1> DEFINE tags == Concepts[c]
           pool == Pooled(facts, tags)
           E == Ends(facts, tags)
<1>1. IsPool(pool) /\ Mirrors(pool, facts, tags)
  BY PoolOfConcept
<1>2. EndsOf(pool) = E
  <2>1. ASSUME NEW e \in EndsOf(pool) PROVE e \in E
    <3>1. PICK i \in pool : e = i.entry.end
      BY DEF EndsOf
    <3>2. i.priority \in DOMAIN tags /\ i.entry \in Reported(facts, tags[i.priority])
      BY <1>1 DEF Mirrors
    <3> HIDE DEF pool, tags
    <3> QED
      BY <3>1, <3>2 DEF Ends
  <2>2. ASSUME NEW e \in E PROVE e \in EndsOf(pool)
    <3>1. PICK p \in DOMAIN tags : \E x \in Reported(facts, tags[p]) : e = x.end
      BY DEF Ends
    <3>2. PICK x \in Reported(facts, tags[p]) : e = x.end
      BY <3>1
    <3>3. PICK i \in pool : i.priority = p /\ i.entry = x
      BY <1>1 DEF Mirrors
    <3> QED
      BY <3>2, <3>3 DEF EndsOf
  <2> HIDE DEF pool, E
  <2> QED
    BY <2>1, <2>2
<1> DEFINE Value(y) == LatestReport(facts, tags[FirstTag(facts, tags, EndOf(y, E))], EndOf(y, E)).val
           labels == {FiscalLabel(e) : e \in YearEnds(E)}
<1>3. TrueSeries(facts, tags) = [y \in labels |-> Value(y)]
  BY DEF TrueSeries
<1>4. CASE pool = {}
  <2>1. E = {}
    BY <1>2, <1>4 DEF EndsOf
  <2>2. labels = {}
    <3> HIDE DEF E
    <3> QED
      BY <2>1 DEF YearEnds
  <2>3. ExtractConcept(facts, tags) = NoCoverage
    BY <1>4 DEF ExtractConcept
  <2>4. NoCoverage.values = [y \in {} |-> 0]
    BY DEF NoCoverage
  <2> HIDE DEF labels, Value
  <2> QED
    BY <1>3, <2>2, <2>3, <2>4
<1>5. CASE pool # {}
  <2>1. E # {}
    BY <1>2, <1>5 DEF EndsOf
  <2>2. /\ \A i \in Held(pool) : i \in Chosen(pool) /\ i.entry.end \in YearEnds(E)
                                 /\ i.entry.end = EndOf(FiscalLabel(i.entry.end), E)
        /\ \A g \in YearEnds(E) : \E i \in Held(pool) : FiscalLabel(i.entry.end) = FiscalLabel(g)
        /\ YearEnds(E) # {}
    <3> HIDE DEF pool, E
    <3> QED
      BY <1>1, <1>2, <2>1, HeldIsEndOfYear
  <2>3. Chosen(pool) # {}
    BY <2>2
  <2> DEFINE held == {FiscalLabel(i.entry.end) : i \in Held(pool)}
             pick(y) == CHOOSE i \in Held(pool) : FiscalLabel(i.entry.end) = y
             values == [y \in held |-> pick(y).entry.val]
  <2>4. ExtractConcept(facts, tags) =
          [values |-> values,
           contiguous |-> ContiguousRun({i.entry.end : i \in Held(pool)}),
           restatements |-> Cardinality({i \in Held(pool) : IsRestated(pool, i)})]
    BY <1>5, <2>3 DEF ExtractConcept, CoverageFor
  <2>5. held = labels /\ labels # {}
    <3> HIDE DEF pool, E
    <3>1. held \subseteq labels
      BY <2>2
    <3>2. labels \subseteq held
      BY <2>2
    <3> QED
      BY <2>2, <3>1, <3>2
  <2>6. \A y \in held : pick(y).entry.val = Value(y)
    <3> TAKE y \in held
    <3>1. pick(y) \in Held(pool) /\ FiscalLabel(pick(y).entry.end) = y
      <4> HIDE DEF pool
      <4> QED
        OBVIOUS
    <3> DEFINE w == pick(y)
    <3>2. w \in Chosen(pool) /\ w.entry.end = EndOf(y, E)
      <4> HIDE DEF pool, E, pick
      <4> QED
        BY <2>2, <3>1
    <3>3. w.entry.val = LatestReport(facts, tags[FirstTag(facts, tags, w.entry.end)], w.entry.end).val
      <4> HIDE DEF w
      <4> QED
        BY <3>2, WinnerSaysTruth
    <3> HIDE DEF pick, E, pool, tags
    <3> QED
      BY <3>2, <3>3
  <2>7. values = TrueSeries(facts, tags)
    <3> HIDE DEF held, pick, labels, Value, tags
    <3> QED
      BY <1>3, <2>5, <2>6
  <2>8. NoCoverage.values = [y \in {} |-> 0] /\ DOMAIN NoCoverage.values = {}
    BY DEF NoCoverage
  <2>9. DOMAIN values # {}
    <3> HIDE DEF held, labels, pick
    <3> QED
      BY <2>5
  <2>10. ExtractConcept(facts, tags).values = values
    <3> HIDE DEF values, pool, tags
    <3> QED
      BY <2>4
  <2> HIDE DEF values, pool, E, labels, Value
  <2> QED
    BY <2>7, <2>8, <2>9, <2>10
<1> QED
  BY <1>4, <1>5

\* The annual series (cached_edgar_annual_series.py:122): the record of a document is usable
\* if each concept has a series, and holds what the reports say.
LEMMA AnnualIsRight ==
  ASSUME NEW facts \in Contents.annual \ {None}
  PROVE  AnnualAgrees(BuildAnnualSeries(facts), TrueAnnual(facts))
<1> DEFINE concepts == [c \in DOMAIN Concepts |-> ExtractConcept(facts, Concepts[c])]
           val == BuildAnnualSeries(facts)
           truth == TrueAnnual(facts)
<1>1. /\ val.concepts = concepts
      /\ val.reason = IF \E c \in DOMAIN Concepts : concepts[c] = NoCoverage
                      THEN "no_concept" ELSE None
  BY DEF BuildAnnualSeries, Record
<1>2. \A c \in DOMAIN Concepts :
        /\ truth[c] = TrueSeries(facts, Concepts[c])
        /\ concepts[c].values = truth[c]
        /\ concepts[c] = NoCoverage <=> DOMAIN truth[c] = {}
  BY SeriesIsRight DEF TrueAnnual
<1>3. Usable(val) <=> \A c \in DOMAIN Concepts : concepts[c] # NoCoverage
  <2> HIDE DEF concepts, val
  <2> QED
    BY <1>1, NoneIsNoValue DEF Usable
<1>4. truth = [c \in DOMAIN Concepts |-> truth[c]]
  BY DEF TrueAnnual
<1>5. truth = [c \in DOMAIN Concepts |-> val.concepts[c].values]
  <2> HIDE DEF concepts, val, truth
  <2> QED
    BY <1>1, <1>2, <1>4
<1> HIDE DEF concepts, val, truth
<1>6. AnnualAgrees(val, truth)
  BY <1>2, <1>3, <1>5 DEF AnnualAgrees
<1> QED
  BY <1>6 DEF val, truth

\* A negative entry is not usable, and agrees with an issuer that has no facts.
LEMMA NegativeIsRight == ~Usable(NoFacts) /\ AnnualAgrees(NoFacts, NoSeries)
<1>1. ~Usable(NoFacts)
  BY NoneIsNoValue DEF NoFacts, Record, Usable
<1>2. \A c \in DOMAIN Concepts : DOMAIN NoSeries[c] = {}
  BY DEF NoSeries
<1>3. DOMAIN Concepts # {}
  BY CachesConstants
<1> QED
  BY <1>1, <1>2, <1>3 DEF AnnualAgrees

-------------------------------------------------------------------------------
(***************************************************************************)
(* The historical series, Form 4 and the signals.                          *)
(***************************************************************************)
\* The weekly closes of a frame with a known currency are those of the source in the major
\* unit (yfinance_client.py:261).
LEMMA ClosesAreRight ==
  ASSUME NEW src \in Contents.historical, NEW closes, closes = WeeklyClose(src.prices), closes # None
  PROVE  /\ DOMAIN closes = {k \in DOMAIN src.prices.closes : src.prices.closes[k] # None}
         /\ \A k \in DOMAIN closes :
              (IF src.prices.currency = "GBp" THEN 100 ELSE 1) * closes[k] = src.prices.closes[k]
<1> DEFINE frame == src.prices
           weeks == {k \in DOMAIN frame.closes : frame.closes[k] # None}
           divisor == QuoteDivisor(frame.currency)
<1>1. CASE frame.closes = <<>>
  <2>1. closes = <<>> /\ DOMAIN frame.closes = {} /\ DOMAIN <<>> = {}
    BY <1>1 DEF WeeklyClose
  <2> QED
    BY <2>1
<1>2. CASE frame.closes # <<>>
  <2>1. divisor # None /\ closes = [k \in weeks |-> frame.closes[k] \div divisor]
    BY <1>2 DEF WeeklyClose
  <2>2. divisor = IF frame.currency = "GBp" THEN 100 ELSE 1
    <3>1. DOMAIN MINOR_UNIT = {"GBp"} /\ MINOR_UNIT["GBp"].divisor = 100
      BY DEF MINOR_UNIT
    <3> QED
      BY <2>1, <3>1 DEF QuoteDivisor
  <2>3. \A k \in weeks : /\ frame.closes[k] \in Int
                         /\ frame.currency = "GBp" => frame.closes[k] % 100 = 0
    BY HistoricalContents
  <2>4. \A k \in weeks : divisor * (frame.closes[k] \div divisor) = frame.closes[k]
    <3> TAKE k \in weeks
    <3> DEFINE x == frame.closes[k]
    <3>1. x \in Int /\ (frame.currency = "GBp" => x % 100 = 0)
      BY <2>3
    <3> HIDE DEF x, divisor
    <3>2. 100 * (x \div 100) = x \/ frame.currency # "GBp"
      BY <3>1, ExactHundredths
    <3>3. 1 * (x \div 1) = x
      BY <3>1
    <3>4. divisor * (x \div divisor) = x
      BY <2>2, <3>2, <3>3
    <3> QED
      BY <3>4 DEF x
  <2> HIDE DEF divisor
  <2>5. DOMAIN closes = weeks /\ \A k \in weeks : closes[k] = frame.closes[k] \div divisor
    BY <2>1
  <2> QED
    BY <2>2, <2>4, <2>5
<1> QED
  BY <1>1, <1>2

\* The historical series (historical_data_service.py:47): a margin is that of its year, and a
\* series is complete if the statements are; without prices there are no closes.
LEMMA HistoricalIsRight ==
  ASSUME NEW src \in Contents.historical,
         NEW closes \in {WeeklyClose(src.prices), None}
  PROVE  /\ MarginsAgree(HistoricalSeries(src.columns, closes), src)
         /\ closes # None => HistoricalAgrees(HistoricalSeries(src.columns, closes), src)
<1> DEFINE val == HistoricalSeries(src.columns, closes)
           years == IF Len(src.columns) < MAX_YEARS THEN Len(src.columns) ELSE MAX_YEARS
           margins == [k \in 1..years |->
                         IF ~Truthy(src.columns[k].revenue) \/ src.columns[k].income = None THEN None
                         ELSE (100 * src.columns[k].income) \div src.columns[k].revenue]
<1>1. val = [margins |-> margins, complete |-> years >= MIN_COMPLETE_YEARS, closes |-> closes]
  BY DEF HistoricalSeries
<1>2. val.margins = margins /\ val.closes = closes
  <2> HIDE DEF margins, years, val
  <2> QED
    BY <1>1
<1>3. val.complete = (years >= MIN_COMPLETE_YEARS)
  <2> HIDE DEF margins, years, val
  <2> QED
    BY <1>1
<1>4. Len(src.columns) \in Nat /\ DOMAIN src.columns = 1..Len(src.columns)
  BY HistoricalContents
<1>5. years \in Nat /\ years <= Len(src.columns) /\ 1..years \subseteq DOMAIN src.columns
  BY <1>4 DEF MAX_YEARS
<1>6. val.complete <=> Len(src.columns) >= MIN_COMPLETE_YEARS
  <2>1. years >= MIN_COMPLETE_YEARS <=> Len(src.columns) >= MIN_COMPLETE_YEARS
    BY <1>4 DEF MAX_YEARS, MIN_COMPLETE_YEARS
  <2> HIDE DEF val, years
  <2> QED
    BY <1>3, <2>1
<1>7. DOMAIN margins = 1..years /\ \A k \in 1..years : margins[k] # None =>
        margins[k] * src.columns[k].revenue = 100 * src.columns[k].income
  <2>1. DOMAIN margins = 1..years
    OBVIOUS
  <2>2. ASSUME NEW k \in 1..years, margins[k] # None
        PROVE  margins[k] * src.columns[k].revenue = 100 * src.columns[k].income
    <3> DEFINE r == src.columns[k].revenue
               n == src.columns[k].income
    <3>1. Truthy(r) /\ n # None /\ margins[k] = (100 * n) \div r
      BY <2>2
    <3>2. ((100 * n) \div r) * r = 100 * n
      <4>1. k \in DOMAIN src.columns
        BY <1>5
      <4> QED
        BY <3>1, <4>1, HistoricalContents
    <3> HIDE DEF margins
    <3> QED
      BY <3>1, <3>2
  <2> QED
    BY <2>1, <2>2
<1>8. closes # None =>
        /\ DOMAIN closes = {k \in DOMAIN src.prices.closes : src.prices.closes[k] # None}
        /\ \A k \in DOMAIN closes :
             (IF src.prices.currency = "GBp" THEN 100 ELSE 1) * closes[k] = src.prices.closes[k]
  BY ClosesAreRight
<1> HIDE DEF val, margins, years
<1>9. MarginsAgree(val, src)
  BY <1>2, <1>5, <1>6, <1>7 DEF MarginsAgree
<1>10. closes # None => HistoricalAgrees(val, src)
  BY <1>2, <1>8, <1>9 DEF HistoricalAgrees, ClosesAgree
<1> QED
  BY <1>9, <1>10 DEF val

\* Form 4 (insider_cache.py:45): the coverage is complete exactly if every filing of the
\* window was read, and empty exactly if there is none.
LEMMA CoverageIsRight ==
  ASSUME NEW src \in Contents.insider, NEW parsed \in SUBSET FiledIds(src)
  PROVE  InsiderAgrees(Coverage(parsed, Cardinality(Form4Index(src.submissions, src.since))), src)
<1> DEFINE index == Form4Index(src.submissions, src.since)
           ids == FiledIds(src)
           id == [k \in index |-> src.submissions[k].id]
           total == Cardinality(index)
           val == Coverage(parsed, total)
<1>1. /\ Len(src.submissions) \in Nat /\ DOMAIN src.submissions = 1..Len(src.submissions)
      /\ src.since \in Int
      /\ \A k \in DOMAIN src.submissions : src.submissions[k].date \in Figures
      /\ \A j, k \in DOMAIN src.submissions :
           src.submissions[j].id = src.submissions[k].id => j = k
  BY InsiderContents
<1>2. index \subseteq DOMAIN src.submissions
  BY DEF Form4Index
<1>3. \A k \in DOMAIN src.submissions : k \in index <=>
        LET f == src.submissions[k]
        IN IF f.date = None THEN FALSE ELSE f.form = "4" /\ src.since <= f.date
  BY <1>1 DEF Form4Index, Figures
<1>4. \A x : x \in ids <=> \E k \in index : x = src.submissions[k].id
  <2> HIDE DEF index
  <2> QED
    BY <1>2, <1>3 DEF FiledIds
<1>5. IsFiniteSet(index)
  <2>1. IsFiniteSet(DOMAIN src.submissions)
    BY <1>1, FS_Interval
  <2> HIDE DEF index
  <2> QED
    BY <1>2, <2>1, FS_Subset
<1>6. IsFiniteSet(ids) /\ Cardinality(ids) = total
  <2> HIDE DEF index, ids
  <2>1. id \in [index -> ids] /\ \A x \in ids : \E k \in index : id[k] = x
    BY <1>4
  <2>2. \A j, k \in index : id[j] = id[k] => j = k
    BY <1>1, <1>2
  <2> HIDE DEF id
  <2>3. id \in Bijection(index, ids)
    BY <2>1, <2>2 DEF Bijection, Injection, Surjection, IsInjective
  <2> QED
    BY <1>5, <2>3, FS_Bijection DEF ExistsBijection
<1> HIDE DEF index, id, ids
<1>7. total \in Nat /\ (total = 0 <=> ids = {})
  BY <1>5, <1>6, FS_CardinalityType, FS_EmptySet
<1>8. parsed \subseteq ids /\ (Cardinality(parsed) = total <=> parsed = ids)
  <2>1. parsed \subseteq ids
    BY DEF ids
  <2> QED
    BY <1>6, <2>1, FS_Subset
<1>9. /\ val.filings = parsed
      /\ val.state = IF total = 0 THEN "empty" ELSE IF parsed = {} THEN "fetch_failed"
                     ELSE IF Cardinality(parsed) = total THEN "ok" ELSE "partial"
  BY DEF Coverage
<1> HIDE DEF val, total
<1>10. val.state = "empty" <=> ids = {}
  BY <1>7, <1>9
<1>11. val.state = "ok" <=> (ids # {} /\ val.filings = ids)
  BY <1>7, <1>8, <1>9
<1>12. InsiderAgrees(val, src)
  BY <1>8, <1>9, <1>10, <1>11 DEF InsiderAgrees, ids
<1> QED
  BY <1>12 DEF val, total, index

\* The document of a hit is a primary one of the window and affirms doubt.
Affirms(src, k, today) ==
  IsCandidate(src.hits[k], today) /\ HasAffirmativeGoingConcern(src.hits[k].doc)

\* The signals (edgar_client.py:198): the window and the forms of the code are those of the
\* statement.
LEMMA SignalsAreRight ==
  ASSUME NEW src \in Contents.signals, NEW today \in Int, NEW concern \in BOOLEAN,
         concern <=> \E k \in DOMAIN src.hits : Affirms(src, k, today)
  PROVE  Signals(HasRestatement(src.submissions, today), concern) = TrueSignals(src, today)
<1> DEFINE restates == \E k \in DOMAIN src.submissions :
                         /\ src.submissions[k].form = "8-K" /\ src.submissions[k].restates
                         /\ today - src.submissions[k].date <= RESTATEMENT_DAYS
           doubts == \E k \in DOMAIN src.hits :
                       /\ src.hits[k].type \in {"10-K", "10-Q"} /\ src.hits[k].finding
                       /\ today - src.hits[k].date <= GOING_CONCERN_DAYS
<1>1. \A k \in DOMAIN src.submissions : src.submissions[k].date \in Int
  BY SignalsContents
<1>2. \A k \in DOMAIN src.hits :
        /\ src.hits[k].date \in Int
        /\ src.hits[k].type \in GC_PRIMARY_FORMS =>
             (src.hits[k].finding <=> IF src.hits[k].doc = None THEN FALSE
                                      ELSE HasAffirmativeGoingConcern(src.hits[k].doc))
  BY SignalsContents
<1>3. HasRestatement(src.submissions, today) <=> restates
  <2>1. \A k \in DOMAIN src.submissions :
          src.submissions[k].date >= today - RESTATEMENT_DAYS
            <=> today - src.submissions[k].date <= RESTATEMENT_DAYS
    BY <1>1 DEF RESTATEMENT_DAYS
  <2> QED
    BY <2>1 DEF HasRestatement
<1>4. concern <=> doubts
  <2>1. \A k \in DOMAIN src.hits :
          src.hits[k].date >= today - GOING_CONCERN_DAYS
            <=> today - src.hits[k].date <= GOING_CONCERN_DAYS
    BY <1>2 DEF GOING_CONCERN_DAYS
  <2>2. \A k \in DOMAIN src.hits : Affirms(src, k, today) <=>
          /\ src.hits[k].type \in {"10-K", "10-Q"} /\ src.hits[k].finding
          /\ today - src.hits[k].date <= GOING_CONCERN_DAYS
    BY <1>2, <2>1 DEF Affirms, IsCandidate, GC_PRIMARY_FORMS
  <2> QED
    BY <2>2
<1>5. HasRestatement(src.submissions, today) \in BOOLEAN /\ restates \in BOOLEAN
      /\ doubts \in BOOLEAN
  BY DEF HasRestatement
<1>6. TrueSignals(src, today) = Signals(restates, doubts)
  BY DEF TrueSignals
<1> HIDE DEF restates, doubts
<1>7. HasRestatement(src.submissions, today) = restates /\ concern = doubts
  BY <1>3, <1>4, <1>5, Zenon
<1> QED
  BY <1>6, <1>7

-------------------------------------------------------------------------------
(***************************************************************************)
(* The inductive invariant.  A call holds what the source says today, as   *)
(* far as it has read; an entry holds what the source said on the day it   *)
(* was written or later, or was left by an earlier version.                *)
(***************************************************************************)
Now == Truth(kind, content, clock)

WorldOK ==
  /\ kind \in Kinds /\ content \in Contents[kind] /\ clock \in Nat /\ offset \in (-30)..29
  /\ DOMAIN call = Callers
  /\ Now \in DOMAIN said /\ said[Now] = clock
  /\ \A truth \in DOMAIN said : said[truth] \in Nat /\ said[truth] <= clock

Told(val, at) == \E truth \in DOMAIN said : StatedOrMistaken(val, truth) /\ at <= said[truth]

KeptRight(doc) ==
  /\ doc.at \in Nat /\ Told(doc.val, doc.at)
  /\ kind = "annual" => doc.until \in Int /\ doc.until - doc.at <= MaxAge(doc.val)

StoreOK == kind # "insider" /\ store # None => store \in Legacy[kind] \/ KeptRight(store)

\* No affirmative document is among the hits that a search has passed.
SearchOK(s) ==
  /\ s.restated = HasRestatement(content.submissions, clock) /\ s.from \in Nat
  /\ \A k \in DOMAIN content.hits : k <= s.from => ~Affirms(content, k, clock)

DocumentOK(s) ==
  /\ s.restated = HasRestatement(content.submissions, clock) /\ s.from \in Nat
  /\ s.left \in SUBSET Candidates(s.from) /\ s.left # {}
  /\ \A k \in DOMAIN content.hits :
       k <= LastOfPage(s.from) /\ Affirms(content, k, clock) => k \in s.left

FilingsOK(s) ==
  /\ s.left \subseteq Form4Index(content.submissions, content.since)
  /\ s.parsed \subseteq FiledIds(content)
  /\ s.total = Cardinality(Form4Index(content.submissions, content.since))
  /\ s.left = {} => s.parsed = {} /\ s.total = 0

StandsRight(s) ==
  s # None =>
    /\ kind # "insider" /\ s.at = "save" => StatedOrMistaken(s.val, Now)
    /\ kind = "signals" /\ s.at = "search" => SearchOK(s)
    /\ kind = "signals" /\ s.at = "document" => DocumentOK(s)
    /\ kind = "insider" => FilingsOK(s)

Recent(how, val) ==
  how \in {"value", "stale"} =>
    \E truth \in DOMAIN said :
      /\ StatedOrMistaken(val, truth)
      /\ how = "value" => clock - said[truth] < MaxAge(val)

AnswerOK == answer # None => Recent(answer.how, answer.val)

CachesInv == WorldOK /\ StoreOK /\ AnswerOK /\ \A c \in Callers : StandsRight(call[c])

\* What agrees, and for how long, does not change while the title and its cache stay.
LEMMA RigidAgreement ==
  ASSUME UNCHANGED <<kind, cik404>>
  PROVE  \A val, truth : /\ StatedOrMistaken(val, truth)' <=> StatedOrMistaken(val, truth)
                         /\ MaxAge(val)' = MaxAge(val)
<1> TAKE val, truth
<1>1. Agrees(val, truth)' <=> Agrees(val, truth)
  BY DEF Agrees
<1>2. StatedOrMistaken(val, truth)' <=> StatedOrMistaken(val, truth)
  BY <1>1 DEF StatedOrMistaken, Mistaken
<1>3. MaxAge(val)' = MaxAge(val)
  BY DEF MaxAge
<1> QED
  BY <1>2, <1>3

\* Nothing of what a call, an entry or an answer is judged by changes during the calls.
LEMMA RigidJudgement ==
  ASSUME UNCHANGED fixed
  PROVE  /\ Now' = Now
         /\ \A s : StandsRight(s)' <=> StandsRight(s)
         /\ \A doc : KeptRight(doc)' <=> KeptRight(doc)
         /\ \A how, val : Recent(how, val)' <=> Recent(how, val)
<1>1. UNCHANGED <<kind, clock, content, said, cik404, offset>>
  BY DEF fixed
<1>2. \A val, truth : (StatedOrMistaken(val, truth)' <=> StatedOrMistaken(val, truth)) /\ MaxAge(val)' = MaxAge(val)
  BY <1>1, RigidAgreement
<1>3. Now' = Now
  BY <1>1 DEF Now
<1>4. \A s : StandsRight(s)' <=> StandsRight(s)
  <2> TAKE s
  <2>1. SearchOK(s)' <=> SearchOK(s)
    BY <1>1 DEF SearchOK
  <2>2. DocumentOK(s)' <=> DocumentOK(s)
    BY <1>1 DEF DocumentOK, Candidates, LastOfPage
  <2>3. FilingsOK(s)' <=> FilingsOK(s)
    BY <1>1 DEF FilingsOK
  <2>4. StatedOrMistaken(s.val, Now)' <=> StatedOrMistaken(s.val, Now)
    BY <1>2, <1>3
  <2> QED
    BY <1>1, <2>1, <2>2, <2>3, <2>4 DEF StandsRight
<1>5. \A doc : KeptRight(doc)' <=> KeptRight(doc)
  BY <1>1, <1>2 DEF KeptRight, Told
<1>6. \A how, val : Recent(how, val)' <=> Recent(how, val)
  BY <1>1, <1>2 DEF Recent
<1> QED
  BY <1>3, <1>4, <1>5, <1>6

\* A call that goes on to a step that is right keeps the invariant.
LEMMA GoesOn ==
  ASSUME CachesInv, NEW c \in Callers, NEW s, Goes(c, s), StandsRight(s),
         UNCHANGED <<answer, fixed>>, store' = store \/ kind = "insider"
  PROVE  CachesInv'
<1>1. UNCHANGED fixed /\ answer' = answer
      /\ UNCHANGED <<kind, clock, content, said, offset>>
  BY DEF fixed
<1>2. /\ Now' = Now
      /\ \A r : StandsRight(r)' <=> StandsRight(r)
      /\ \A doc : KeptRight(doc)' <=> KeptRight(doc)
      /\ \A how, val : Recent(how, val)' <=> Recent(how, val)
  BY <1>1, RigidJudgement
<1>3. DOMAIN call = Callers /\ call' = [call EXCEPT ![c] = s]
  BY DEF CachesInv, WorldOK, Goes
<1>4. WorldOK'
  BY <1>1, <1>2, <1>3 DEF CachesInv, WorldOK
<1>5. StoreOK' /\ AnswerOK'
  <2>1. AnswerOK'
    BY <1>1, <1>2 DEF CachesInv, AnswerOK
  <2>2. CASE store' = store
    BY <1>1, <1>2, <2>1, <2>2 DEF CachesInv, StoreOK
  <2>3. CASE kind = "insider"
    BY <1>1, <2>1, <2>3 DEF StoreOK
  <2> QED
    BY <2>2, <2>3
<1>6. \A d \in Callers : call'[d] = IF d = c THEN s ELSE call[d]
  BY <1>3
<1>7. ASSUME NEW d \in Callers PROVE StandsRight(call[d])'
  <2>1. StandsRight(call'[d])
    BY <1>6 DEF CachesInv
  <2>2. \A r : r = call'[d] => (StandsRight(call[d])' <=> StandsRight(r)')
    OBVIOUS
  <2> QED
    BY <1>2, <2>1, <2>2
<1> QED
  BY <1>4, <1>5, <1>7 DEF CachesInv

\* A call that ends with a right answer keeps the invariant, if the entry is none of its
\* business or right as well.
LEMMA EndsWell ==
  ASSUME CachesInv, NEW c \in Callers, NEW how, NEW val, Answers(c, how, val), Recent(how, val),
         UNCHANGED fixed, store' = store \/ kind = "insider" \/ KeptRight(store')
  PROVE  CachesInv'
<1>1. UNCHANGED <<kind, clock, content, said, offset>>
  BY DEF fixed
<1>2. /\ Now' = Now
      /\ \A r : StandsRight(r)' <=> StandsRight(r)
      /\ \A doc : KeptRight(doc)' <=> KeptRight(doc)
      /\ \A h, v : Recent(h, v)' <=> Recent(h, v)
  BY RigidJudgement
<1>3. /\ DOMAIN call = Callers /\ call' = [call EXCEPT ![c] = None]
      /\ answer' = [how |-> how, val |-> val, by |-> c]
  BY DEF CachesInv, WorldOK, Answers, Goes
<1>4. WorldOK'
  BY <1>1, <1>2, <1>3 DEF CachesInv, WorldOK
<1>5. StoreOK'
  <2>1. kind' = kind
    BY <1>1
  <2>2. CASE store' = store
    BY <1>2, <2>1, <2>2 DEF CachesInv, StoreOK
  <2>3. CASE kind = "insider"
    BY <2>1, <2>3 DEF StoreOK
  <2>4. CASE KeptRight(store')
    <3>1. \A doc : doc = store' => (KeptRight(store)' <=> KeptRight(doc)')
      OBVIOUS
    <3>2. KeptRight(store)'
      BY <1>2, <2>4, <3>1
    <3> QED
      BY <3>2 DEF StoreOK
  <2> QED
    BY <2>2, <2>3, <2>4
<1>6. AnswerOK'
  <2>1. answer'.how = how /\ answer'.val = val
    BY <1>3
  <2>2. \A h, v : h = answer'.how /\ v = answer'.val
                    => (Recent(answer.how, answer.val)' <=> Recent(h, v)')
    OBVIOUS
  <2>3. Recent(answer.how, answer.val)'
    BY <1>2, <2>1, <2>2
  <2> QED
    BY <2>3 DEF AnswerOK
<1>7. \A d \in Callers : call'[d] = IF d = c THEN None ELSE call[d]
  BY <1>3
<1>8. ASSUME NEW d \in Callers PROVE StandsRight(call[d])'
  <2>1. StandsRight(call'[d])
    BY <1>7 DEF CachesInv, StandsRight
  <2>2. \A r : r = call'[d] => (StandsRight(call[d])' <=> StandsRight(r)')
    OBVIOUS
  <2> QED
    BY <1>2, <2>1, <2>2
<1> QED
  BY <1>4, <1>5, <1>6, <1>8 DEF CachesInv

\* A call that raises or has nothing to say claims nothing.
LEMMA EndsSilently ==
  ASSUME CachesInv, NEW c \in Callers, NEW how, NEW val, how \notin {"value", "stale"},
         Answers(c, how, val), UNCHANGED <<store, fixed>>
  PROVE  CachesInv'
<1>1. Recent(how, val)
  BY DEF Recent
<1> QED
  BY <1>1, EndsWell

\* What the source says now may be handed out.
LEMMA NowIsRecent ==
  ASSUME WorldOK, NEW val, StatedOrMistaken(val, Now)
  PROVE  Recent("value", val) /\ Told(val, clock)
<1>1. Now \in DOMAIN said /\ said[Now] = clock /\ clock \in Nat /\ kind \in AllKinds
  BY CachesConstants DEF WorldOK
<1>2. MaxAge(val) \in Nat /\ MaxAge(val) > 0
  BY <1>1 DEF MaxAge, AllKinds
<1> QED
  BY <1>1, <1>2 DEF Recent, Told

\* An entry that was told and is not too old may be handed out, and any as stale.
LEMMA EntryIsRecent ==
  ASSUME WorldOK, NEW doc, KeptRight(doc)
  PROVE  /\ clock - doc.at < MaxAge(doc.val) => Recent("value", doc.val)
         /\ Recent("stale", doc.val)
<1>1. PICK truth \in DOMAIN said : StatedOrMistaken(doc.val, truth) /\ doc.at <= said[truth]
  BY DEF KeptRight, Told
<1>2. doc.at \in Nat /\ clock \in Nat /\ said[truth] \in Nat /\ kind \in AllKinds
  BY CachesConstants DEF KeptRight, WorldOK
<1>3. MaxAge(doc.val) \in Nat
  BY <1>2 DEF MaxAge, AllKinds
<1>4. clock - doc.at < MaxAge(doc.val) => clock - said[truth] < MaxAge(doc.val)
  BY <1>1, <1>2, <1>3
<1> QED
  BY <1>1, <1>4 DEF Recent

\* Asking a cache: what is fresh is handed out, and is recent; else the call begins.
LEMMA HitOrMissIsRight ==
  ASSUME CachesInv, NEW c \in Callers, NEW fresh \in BOOLEAN, NEW first,
         HitOrMiss(c, fresh, first), StandsRight(first), kind # "insider",
         fresh => /\ store # None /\ store \notin Legacy[kind]
                  /\ KeptRight(store) => clock - store.at < MaxAge(store.val)
  PROVE  CachesInv'
<1>1. CASE fresh
  <2>1. KeptRight(store) /\ WorldOK
    BY <1>1 DEF CachesInv, StoreOK
  <2>2. Recent("value", store.val)
    BY <1>1, <2>1, EntryIsRecent
  <2>3. Answers(c, "value", store.val) /\ UNCHANGED fixed /\ store' = store
    BY <1>1 DEF HitOrMiss
  <2> QED
    BY <2>2, <2>3, EndsWell
<1>2. CASE ~fresh
  <2>1. Goes(c, first) /\ UNCHANGED <<store, answer, fixed>>
    BY <1>2 DEF HitOrMiss
  <2> QED
    BY <2>1, GoesOn
<1> QED
  BY <1>1, <1>2

\* A call that has fetched writes what it was told today.
LEMMA SavedIsRight ==
  ASSUME CachesInv, NEW c \in Callers, NEW until, NEW schema,
         IsAt(c, kind, "save"), kind # "insider", Saved(c, until, schema),
         kind = "annual" => until \in Int /\ until - clock <= MaxAge(call[c].val)
  PROVE  /\ CachesInv'
         /\ store'.at = clock /\ StatedOrMistaken(store'.val, Now)
<1> DEFINE val == call[c].val
<1>1. StandsRight(call[c]) /\ WorldOK
  BY DEF CachesInv
<1>2. StatedOrMistaken(val, Now)
  BY <1>1 DEF StandsRight, IsAt
<1>3. /\ store' = Doc(clock, until, schema, val)
      /\ Answers(c, "value", val) /\ UNCHANGED fixed
  BY DEF Saved
<1> HIDE DEF val
<1>4. store'.at = clock /\ store'.val = val /\ store'.until = until
  BY <1>3 DEF Doc
<1>5. Recent("value", val) /\ Told(val, clock)
  BY <1>1, <1>2, NowIsRecent
<1>6. KeptRight(store')
  BY <1>1, <1>4, <1>5 DEF KeptRight, WorldOK, val
<1>7. CachesInv'
  BY <1>3, <1>5, <1>6, EndsWell
<1> QED
  BY <1>2, <1>4, <1>7

-------------------------------------------------------------------------------
(***************************************************************************)
(* The steps of each cache.                                                *)
(***************************************************************************)
\* An entry that changes holds what the source says today.
EntryIsToldToday ==
  store' # store =>
    \/ kind = "insider" /\ \A f \in DOMAIN store : store'[f] # store[f] => f \notin content.broken
    \/ kind # "insider" /\ store'.at = clock /\ StatedOrMistaken(store'.val, Now)

Kept == CachesInv' /\ EntryIsToldToday

\* A call that goes on leaves the entry as it is.
LEMMA GoesOnKept ==
  ASSUME CachesInv, NEW c \in Callers, NEW s, Goes(c, s), StandsRight(s),
         UNCHANGED <<store, answer, fixed>>
  PROVE  Kept
BY GoesOn DEF Kept, EntryIsToldToday

\* So does one that ends without a value.
LEMMA EndsSilentlyKept ==
  ASSUME CachesInv, NEW c \in Callers, NEW how, NEW val, how \notin {"value", "stale"},
         Answers(c, how, val), UNCHANGED <<store, fixed>>
  PROVE  Kept
BY EndsSilently DEF Kept, EntryIsToldToday

\* And one that raises, whichever request failed.
LEMMA RaisesKept ==
  ASSUME CachesInv, NEW c \in Callers, Raises(c)
  PROVE  Kept
<1>1. Answers(c, "raised", None) /\ UNCHANGED <<store, fixed>>
  BY DEF Raises
<1>2. "raised" \notin {"value", "stale"}
  OBVIOUS
<1> QED
  BY <1>1, <1>2, EndsSilentlyKept

\* Asking the cache changes no entry, and what it hands out is young enough.
LEMMA HitOrMissKept ==
  ASSUME CachesInv, NEW c \in Callers, NEW fresh \in BOOLEAN, NEW first,
         HitOrMiss(c, fresh, first), StandsRight(first), kind # "insider",
         fresh => /\ store # None /\ store \notin Legacy[kind]
                  /\ KeptRight(store) => clock - store.at < MaxAge(store.val)
  PROVE  Kept
<1>1. store' = store
  BY DEF HitOrMiss
<1>2. CachesInv'
  BY HitOrMissIsRight
<1> QED
  BY <1>1, <1>2 DEF Kept, EntryIsToldToday

\* Writing the entry: it holds what the source says today.
LEMMA SavedKept ==
  ASSUME CachesInv, NEW c \in Callers, NEW until, NEW schema,
         IsAt(c, kind, "save"), kind # "insider", Saved(c, until, schema),
         kind = "annual" => until \in Int /\ until - clock <= MaxAge(call[c].val)
  PROVE  Kept
BY SavedIsRight DEF Kept, EntryIsToldToday

\* The step of a call that will write a right value.
LEMMA SaveStandsRight ==
  ASSUME NEW val, kind # "insider", StatedOrMistaken(val, Now)
  PROVE  StandsRight(Save(val)) /\ Save(val).at = "save"
<1>1. Save(val).at = "save" /\ Save(val).val = val
  BY DEF Save
<1> QED
  BY <1>1 DEF StandsRight

\* A step that is neither a save nor one of the search carries nothing to be wrong.
LEMMA FetchStandsRight ==
  ASSUME kind # "insider"
  PROVE  StandsRight(Fetch) /\ StandsRight([at |-> "submissions"])
<1>1. Fetch.at = "fetch" /\ [at |-> "submissions"].at = "submissions"
  BY DEF Fetch
<1> QED
  BY <1>1 DEF StandsRight

InfoStep(c) == GetTickerInfo(c) \/ FetchTickerInfo(c) \/ SaveTickerInfo(c)

\* Yahoo's info (cached_yfinance_client.py): an entry without a market cap, or with a price
\* in a minor unit, is fetched anew; what is kept is normalised.
LEMMA InfoKept ==
  ASSUME CachesInv, NEW c \in Callers, InfoStep(c)
  PROVE  Kept
<1>0. kind = "info"
  BY DEF InfoStep, GetTickerInfo, FetchTickerInfo, SaveTickerInfo, Asks, IsAt
<1>1. CASE GetTickerInfo(c)
  <2>1. HitOrMiss(c, InfoIsFresh(store), Fetch) /\ InfoIsFresh(store) \in BOOLEAN
    BY <1>1 DEF GetTickerInfo, InfoIsFresh
  <2>2. ASSUME InfoIsFresh(store)
        PROVE  /\ store # None /\ store \notin Legacy[kind]
               /\ KeptRight(store) => clock - store.at < MaxAge(store.val)
    <3>1. store # None /\ clock - store.at < 1 /\ ~IsUnnormalised(store.val)
          /\ HasUsableMarketCap(store.val)
      BY <2>2 DEF InfoIsFresh
    <3>2. MaxAge(store.val) = 1
      BY <1>0 DEF MaxAge
    <3> QED
      BY <1>0, <3>1, <3>2, LegacyIsRefused
  <2> HIDE DEF Kept
  <2> QED
    BY <1>0, <2>1, <2>2, FetchStandsRight, HitOrMissKept
<1>2. CASE FetchTickerInfo(c)
  <2>1. CASE Raises(c)
    BY <2>1, RaisesKept
  <2>2. CASE ~Raises(c)
    <3>1. /\ content # None /\ ~Degraded(content)
          /\ Goes(c, Save(NormalizeMinorUnit(content))) /\ UNCHANGED <<store, answer, fixed>>
      BY <1>2, <2>2 DEF FetchTickerInfo
    <3>2. content \in Contents.info \ {None}
      BY <1>0, <3>1 DEF CachesInv, WorldOK
    <3>3. Now = TrueInfo(content)
      BY <1>0, <3>1 DEF Now, Truth
    <3>4. StatedOrMistaken(NormalizeMinorUnit(content), Now)
      BY <1>0, <3>2, <3>3, InfoIsRight DEF StatedOrMistaken, Agrees
    <3>5. StandsRight(Save(NormalizeMinorUnit(content)))
      BY <1>0, <3>4, SaveStandsRight
    <3> QED
      BY <3>1, <3>5, GoesOnKept
  <2> QED
    BY <2>1, <2>2
<1>3. CASE SaveTickerInfo(c)
  <2>1. IsAt(c, kind, "save") /\ Saved(c, None, None)
    BY <1>0, <1>3 DEF SaveTickerInfo
  <2> QED
    BY <1>0, <2>1, SavedKept
<1> QED
  BY <1>1, <1>2, <1>3 DEF InfoStep

RevenueStep(c) ==
  GetRevenueSeries(c) \/ FetchRevenues(c) \/ FetchRevenuesFails(c) \/ SaveRevenues(c)

\* The revenue series (revenue_series_cache.py): an empty one is handed out and never kept.
LEMMA RevenueKept ==
  ASSUME CachesInv, NEW c \in Callers, RevenueStep(c)
  PROVE  Kept
<1>0. kind = "revenue"
  BY DEF RevenueStep, GetRevenueSeries, FetchRevenues, FetchRevenuesFails, SaveRevenues, Asks, IsAt
<1>1. CASE GetRevenueSeries(c)
  <2>1. HitOrMiss(c, RevenueIsFresh(store), Fetch) /\ RevenueIsFresh(store) \in BOOLEAN
    BY <1>1 DEF GetRevenueSeries, RevenueIsFresh
  <2>2. ASSUME RevenueIsFresh(store)
        PROVE  /\ store # None /\ store \notin Legacy[kind]
               /\ KeptRight(store) => clock - store.at < MaxAge(store.val)
    <3>1. store # None /\ clock - store.at < 120 + offset
      BY <2>2 DEF RevenueIsFresh
    <3>2. MaxAge(store.val) = 150
      BY <1>0 DEF MaxAge
    <3>3. offset \in (-30)..29 /\ clock \in Nat
      BY DEF CachesInv, WorldOK
    <3>4. KeptRight(store) => clock - store.at < 150
      BY <3>1, <3>3 DEF KeptRight
    <3> QED
      BY <1>0, <3>1, <3>2, <3>4, LegacyIsRefused
  <2> QED
    BY <1>0, <2>1, <2>2, FetchStandsRight, HitOrMissKept
<1>2. ASSUME NoRevenues(c)
      PROVE  Kept
  <2>1. Answers(c, "nothing", None) /\ UNCHANGED <<store, fixed>>
    BY <1>2 DEF NoRevenues
  <2>2. "nothing" \notin {"value", "stale"}
    OBVIOUS
  <2> QED
    BY <2>1, <2>2, EndsSilentlyKept
<1>3. CASE FetchRevenues(c)
  <2>1. CASE content = <<>>
    <3>1. NoRevenues(c)
      BY <1>3, <2>1 DEF FetchRevenues
    <3> QED
      BY <1>2, <3>1
  <2>2. CASE content # <<>>
    <3>1. Goes(c, Save(content)) /\ UNCHANGED <<store, answer, fixed>>
      BY <1>3, <2>2 DEF FetchRevenues
    <3>2. StatedOrMistaken(content, Now)
      BY <1>0 DEF StatedOrMistaken, Agrees, Now, Truth
    <3>3. StandsRight(Save(content))
      BY <1>0, <3>2, SaveStandsRight
    <3> QED
      BY <3>1, <3>3, GoesOnKept
  <2> QED
    BY <2>1, <2>2
<1>4. CASE FetchRevenuesFails(c)
  <2>1. NoRevenues(c)
    BY <1>4 DEF FetchRevenuesFails
  <2> QED
    BY <1>2, <2>1
<1>5. CASE SaveRevenues(c)
  <2>1. IsAt(c, kind, "save") /\ Saved(c, None, None)
    BY <1>0, <1>5 DEF SaveRevenues
  <2> QED
    BY <1>0, <2>1, SavedKept
<1> QED
  BY <1>1, <1>3, <1>4, <1>5 DEF RevenueStep

AnnualStep(c) ==
  \/ ReadAnnualSeries(c) \/ GetAnnualSeries(c) \/ FetchFacts(c) \/ FetchFactsFails(c)
  \/ SaveAnnualSeries(c)

\* The annual series (cached_edgar_annual_series.py): a negative entry is written for an
\* issuer without facts or without one of the series, or for a message that holds "404".
LEMMA AnnualKept ==
  ASSUME CachesInv, NEW c \in Callers, AnnualStep(c)
  PROVE  Kept
<1>0. kind = "annual" /\ MaxAge(store.val) \in {460, 60}
  BY DEF AnnualStep, ReadAnnualSeries, GetAnnualSeries, FetchFacts, FetchFactsFails,
         SaveAnnualSeries, Asks, IsAt, MaxAge
<1>1. ASSUME store # None, store.schema = EXTRACTION_SCHEMA
      PROVE  /\ store \notin Legacy[kind] /\ KeptRight(store)
             /\ AnnualIsFresh(store) => clock - store.at < MaxAge(store.val)
  <2>1. store \notin Legacy[kind]
    BY <1>0, <1>1, LegacyIsRefused
  <2>2. KeptRight(store) /\ clock \in Nat
    BY <1>0, <1>1, <2>1 DEF CachesInv, StoreOK, WorldOK
  <2>3. AnnualIsFresh(store) => clock - store.at < MaxAge(store.val)
    BY <1>0, <2>2 DEF KeptRight, AnnualIsFresh
  <2> QED
    BY <2>1, <2>2, <2>3
<1>2. CASE ReadAnnualSeries(c)
  <2>1. UNCHANGED <<store, fixed>>
    BY <1>2 DEF ReadAnnualSeries
  <2>2. CASE store = None \/ store.schema # EXTRACTION_SCHEMA
    <3>1. Answers(c, "missing", None)
      BY <1>2, <2>2 DEF ReadAnnualSeries
    <3>2. "missing" \notin {"value", "stale"}
      OBVIOUS
    <3> QED
      BY <2>1, <3>1, <3>2, EndsSilentlyKept
  <2>3. CASE store # None /\ store.schema = EXTRACTION_SCHEMA
    <3> DEFINE how == IF AnnualIsFresh(store) THEN "value" ELSE "stale"
    <3>1. Answers(c, how, store.val)
      BY <1>2, <2>3 DEF ReadAnnualSeries
    <3>2. WorldOK
      BY DEF CachesInv
    <3>3. Recent(how, store.val)
      BY <1>1, <2>3, <3>2, EntryIsRecent
    <3> HIDE DEF how
    <3>4. CachesInv'
      BY <2>1, <3>1, <3>3, EndsWell
    <3> QED
      BY <2>1, <3>4 DEF Kept, EntryIsToldToday
  <2> QED
    BY <2>2, <2>3
<1>3. CASE GetAnnualSeries(c)
  <2>1. HitOrMiss(c, AnnualIsUsable(store), Fetch) /\ AnnualIsUsable(store) \in BOOLEAN
    BY <1>3 DEF GetAnnualSeries, AnnualIsUsable
  <2>2. ASSUME AnnualIsUsable(store)
        PROVE  /\ store # None /\ store \notin Legacy[kind]
               /\ KeptRight(store) => clock - store.at < MaxAge(store.val)
    BY <1>1, <2>2 DEF AnnualIsUsable
  <2> QED
    BY <1>0, <2>1, <2>2, FetchStandsRight, HitOrMissKept
<1>4. ASSUME NEW val, Goes(c, Save(val)), UNCHANGED <<store, answer, fixed>>, 
             AnnualAgrees(val, Now) \/ (cik404 /\ ~Usable(val))
      PROVE  Kept
  <2>1. StatedOrMistaken(val, Now)
    BY <1>0, <1>4 DEF StatedOrMistaken, Agrees, Mistaken
  <2>2. StandsRight(Save(val))
    BY <1>0, <2>1, SaveStandsRight
  <2> QED
    BY <1>4, <2>2, GoesOnKept
<1>5. CASE FetchFacts(c)
  <2>1. UNCHANGED <<store, answer, fixed>>
    BY <1>5 DEF FetchFacts
  <2>2. CASE content = None
    <3>1. Goes(c, Save(NoFacts))
      BY <1>5, <2>2 DEF FetchFacts
    <3>2. Now = NoSeries
      BY <1>0, <2>2 DEF Now, Truth
    <3> QED
      BY <1>4, <2>1, <3>1, <3>2, NegativeIsRight
  <2>3. CASE content # None
    <3>1. content \in Contents.annual \ {None}
      BY <1>0, <2>3 DEF CachesInv, WorldOK
    <3>2. Goes(c, Save(BuildAnnualSeries(content)))
      BY <1>5, <2>3, <3>1 DEF FetchFacts, Extracted
    <3>3. Now = TrueAnnual(content)
      BY <1>0, <2>3, <3>1 DEF Now, Truth, TrueExtract
    <3> QED
      BY <1>4, <2>1, <3>1, <3>2, <3>3, AnnualIsRight
  <2> QED
    BY <2>2, <2>3
<1>6. CASE FetchFactsFails(c)
  <2>1. CASE Raises(c)
    BY <2>1, RaisesKept
  <2>2. CASE ~Raises(c)
    <3>1. cik404 /\ Goes(c, Save(NoFacts)) /\ UNCHANGED <<store, answer, fixed>>
      BY <1>6, <2>2 DEF FetchFactsFails
    <3> QED
      BY <1>4, <3>1, NegativeIsRight
  <2> QED
    BY <2>1, <2>2
<1>7. CASE SaveAnnualSeries(c)
  <2>1. PICK drawn \in DrawnOffsets :
          Saved(c, Expiry(call[c].val, drawn), EXTRACTION_SCHEMA) /\ IsAt(c, kind, "save")
    BY <1>0, <1>7 DEF SaveAnnualSeries
  <2>2. drawn \in (-60)..60 /\ clock \in Nat
    BY CachesConstants DEF CachesInv, WorldOK
  <2>3. MaxAge(call[c].val) = IF Usable(call[c].val) THEN 460 ELSE 60
    BY <1>0 DEF MaxAge
  <2>4. /\ Expiry(call[c].val, drawn) \in Int
        /\ Expiry(call[c].val, drawn) - clock <= MaxAge(call[c].val)
    BY <2>2, <2>3 DEF Expiry
  <2> QED
    BY <1>0, <2>1, <2>4, SavedKept
<1> QED
  BY <1>2, <1>3, <1>5, <1>6, <1>7 DEF AnnualStep

HistoricalStep(c) ==
  \/ GetHistorical(c) \/ FetchHistorical(c) \/ FetchHistoricalFails(c) \/ SaveHistorical(c)

\* The historical series (historical_cache.py), with or without its closes.
LEMMA HistoricalKept ==
  ASSUME CachesInv, NEW c \in Callers, HistoricalStep(c)
  PROVE  Kept
<1>0. kind = "historical"
  BY DEF HistoricalStep, GetHistorical, FetchHistorical, FetchHistoricalFails, SaveHistorical,
         Asks, IsAt
<1>1. CASE GetHistorical(c)
  <2>1. HitOrMiss(c, HistoricalIsFresh(store), Fetch) /\ HistoricalIsFresh(store) \in BOOLEAN
    BY <1>1 DEF GetHistorical, HistoricalIsFresh
  <2>2. ASSUME HistoricalIsFresh(store)
        PROVE  /\ store # None /\ store \notin Legacy[kind]
               /\ KeptRight(store) => clock - store.at < MaxAge(store.val)
    <3>1. store # None /\ store.schema = CACHE_SCHEMA_VERSION /\ clock - store.at < 90
      BY <2>2 DEF HistoricalIsFresh
    <3>2. MaxAge(store.val) = 90
      BY <1>0 DEF MaxAge
    <3> QED
      BY <1>0, <3>1, <3>2, LegacyIsRefused
  <2> QED
    BY <1>0, <2>1, <2>2, FetchStandsRight, HitOrMissKept
<1>2. ASSUME NEW closes \in {WeeklyClose(content.prices), None},
             Goes(c, Save(HistoricalSeries(content.columns, closes))),
             UNCHANGED <<store, answer, fixed>>
      PROVE  Kept
  <2>1. content \in Contents.historical /\ Now = content
    BY <1>0 DEF CachesInv, WorldOK, Now, Truth
  <2>h. LET val == HistoricalSeries(content.columns, closes)
        IN /\ val.closes = closes /\ MarginsAgree(val, content)
           /\ closes # None => HistoricalAgrees(val, content)
    BY <2>1, HistoricalIsRight DEF HistoricalSeries
  <2>2. StatedOrMistaken(HistoricalSeries(content.columns, closes), Now)
    BY <1>0, <2>1, <2>h DEF StatedOrMistaken, Agrees, Mistaken
  <2>3. StandsRight(Save(HistoricalSeries(content.columns, closes)))
    BY <1>0, <2>2, SaveStandsRight
  <2> QED
    BY <1>2, <2>3, GoesOnKept
<1>3. CASE FetchHistorical(c)
  <2>1. Goes(c, Save(HistoricalSeries(content.columns, WeeklyClose(content.prices))))
        /\ UNCHANGED <<store, answer, fixed>>
    BY <1>3 DEF FetchHistorical
  <2> QED
    BY <1>2, <2>1
<1>4. CASE FetchHistoricalFails(c)
  <2>1. Raises(c) \/ (/\ Goes(c, Save(HistoricalSeries(content.columns, None)))
                      /\ UNCHANGED <<store, answer, fixed>>)
    BY <1>4 DEF FetchHistoricalFails
  <2> QED
    BY <1>2, <2>1, RaisesKept
<1>5. CASE SaveHistorical(c)
  <2>1. IsAt(c, kind, "save") /\ Saved(c, None, CACHE_SCHEMA_VERSION)
    BY <1>0, <1>5 DEF SaveHistorical
  <2> QED
    BY <1>0, <2>1, SavedKept
<1> QED
  BY <1>1, <1>3, <1>4, <1>5 DEF HistoricalStep


SignalsStep(c) ==
  \/ FetchAndCache(c) \/ GetSubmissions(c) \/ SearchPage(c) \/ SearchFails(c)
  \/ ReadDocument(c) \/ SaveSignals(c)

\* The end of a page from some hit on, and the places of its candidates.
LEMMA PageIsPart ==
  ASSUME kind = "signals", WorldOK, NEW from \in Nat
  PROVE  /\ Len(content.hits) \in Nat /\ DOMAIN content.hits = 1..Len(content.hits)
         /\ LastOfPage(from) \in Nat /\ LastOfPage(from) <= Len(content.hits)
         /\ Candidates(from) \subseteq 1..Len(content.hits)
         /\ \A k \in Candidates(from) : Affirms(content, k, clock) <=>
              HasAffirmativeGoingConcern(content.hits[k].doc)
<1>1. content \in Contents.signals /\ PageSize \in Nat
  BY CachesConstants DEF WorldOK
<1>2. Len(content.hits) \in Nat /\ DOMAIN content.hits = 1..Len(content.hits)
  BY <1>1, SignalsContents
<1>3. LastOfPage(from) \in Nat /\ LastOfPage(from) <= Len(content.hits)
  BY <1>1, <1>2 DEF LastOfPage
<1>4. Candidates(from) \subseteq 1..Len(content.hits)
  BY <1>2, <1>3 DEF Candidates
<1>5. \A k \in Candidates(from) : IsCandidate(content.hits[k], clock)
  BY DEF Candidates
<1>6. \A k \in Candidates(from) : Affirms(content, k, clock) <=>
        HasAffirmativeGoingConcern(content.hits[k].doc)
  BY <1>5 DEF Affirms
<1> QED
  BY <1>2, <1>3, <1>4, <1>6

\* Whoever has the answer to both questions writes what the source says.
LEMMA SignalsAreNow ==
  ASSUME kind = "signals", WorldOK, NEW restated, NEW concern \in BOOLEAN,
         restated = HasRestatement(content.submissions, clock),
         concern <=> \E k \in DOMAIN content.hits : Affirms(content, k, clock)
  PROVE  StandsRight(Save(Signals(restated, concern)))
<1>1. content \in Contents.signals /\ clock \in Int
  BY DEF WorldOK
<1>2. Now = TrueSignals(content, clock)
  BY DEF Now, Truth
<1>3. Signals(restated, concern) = Now
  BY <1>1, <1>2, SignalsAreRight
<1>4. StatedOrMistaken(Signals(restated, concern), Now)
  BY <1>3 DEF StatedOrMistaken, Agrees
<1> QED
  BY <1>4, SaveStandsRight

\* Passing a page that held no affirmative document.
LEMMA PassingIsRight ==
  ASSUME kind = "signals", WorldOK, NEW s,
         s.restated = HasRestatement(content.submissions, clock), s.from \in Nat,
         \A k \in DOMAIN content.hits : k <= LastOfPage(s.from) => ~Affirms(content, k, clock)
  PROVE  StandsRight(AfterPage(s))
<1> DEFINE last == LastOfPage(s.from)
<1>1. Len(content.hits) \in Nat /\ DOMAIN content.hits = 1..Len(content.hits) /\ last \in Nat
  BY PageIsPart
<1>2. \A k \in DOMAIN content.hits : k <= last => ~Affirms(content, k, clock)
  OBVIOUS
<1>3. AfterPage(s) = IF last >= Len(content.hits) THEN Save(Signals(s.restated, FALSE))
                     ELSE Searching(s.restated, last, 1)
  BY DEF AfterPage
<1> HIDE DEF last
<1>4. CASE last >= Len(content.hits)
  <2>1. FALSE <=> \E k \in DOMAIN content.hits : Affirms(content, k, clock)
    BY <1>1, <1>2, <1>4
  <2>2. StandsRight(Save(Signals(s.restated, FALSE)))
    BY <2>1, SignalsAreNow
  <2> QED
    BY <1>3, <1>4, <2>2
<1>5. CASE ~(last >= Len(content.hits))
  <2> DEFINE next == Searching(s.restated, last, 1)
  <2>1. next.at = "search" /\ next.restated = s.restated /\ next.from = last
    BY DEF Searching
  <2>2. AfterPage(s) = next
    BY <1>3, <1>5
  <2> HIDE DEF next
  <2>3. SearchOK(next)
    BY <1>1, <1>2, <2>1 DEF SearchOK
  <2> QED
    BY <2>1, <2>2, <2>3 DEF StandsRight
<1> QED
  BY <1>4, <1>5

\* Going on with the candidates that are left, all others being no affirmative ones.
LEMMA ReadingIsRight ==
  ASSUME kind = "signals", WorldOK, NEW s, NEW candidates \in SUBSET Candidates(s.from),
         s.restated = HasRestatement(content.submissions, clock), s.from \in Nat,
         \A k \in DOMAIN content.hits :
           k <= LastOfPage(s.from) /\ Affirms(content, k, clock) => k \in candidates
  PROVE  StandsRight(Reading(s, candidates))
<1>1. CASE candidates = {}
  <2>1. Reading(s, candidates) = AfterPage(s)
    BY <1>1 DEF Reading
  <2>2. \A k \in DOMAIN content.hits : k <= LastOfPage(s.from) => ~Affirms(content, k, clock)
    BY <1>1
  <2> QED
    BY <2>1, <2>2, PassingIsRight
<1>2. CASE candidates # {}
  <2> DEFINE next == [at |-> "document", restated |-> s.restated, from |-> s.from,
                      left |-> candidates]
  <2>1. Reading(s, candidates) = next
    BY <1>2 DEF Reading
  <2>2. /\ next.at = "document" /\ next.restated = s.restated /\ next.from = s.from
        /\ next.left = candidates
    OBVIOUS
  <2> HIDE DEF next
  <2>3. DocumentOK(next)
    BY <1>2, <2>2 DEF DocumentOK
  <2> QED
    BY <2>1, <2>2, <2>3 DEF StandsRight
<1> QED
  BY <1>1, <1>2

\* The signals (cached_edgar_client.py): a search that ends has looked at every hit or found
\* an affirmative document, through all pages, candidates and retries.
LEMMA SignalsKept ==
  ASSUME CachesInv, NEW c \in Callers, SignalsStep(c)
  PROVE  Kept
<1>0. kind = "signals" /\ WorldOK /\ StandsRight(call[c])
  BY DEF CachesInv, SignalsStep, FetchAndCache, GetSubmissions, SearchPage, SearchFails,
         ReadDocument, SaveSignals, Asks, IsAt
<1>1. CASE FetchAndCache(c)
  <2>1. HitOrMiss(c, SignalsAreFresh(store), [at |-> "submissions"])
        /\ SignalsAreFresh(store) \in BOOLEAN
    BY <1>1 DEF FetchAndCache, SignalsAreFresh
  <2>2. ASSUME SignalsAreFresh(store)
        PROVE  /\ store # None /\ store \notin Legacy[kind]
               /\ KeptRight(store) => clock - store.at < MaxAge(store.val)
    <3>1. store # None /\ clock - store.at < 7
      BY <2>2 DEF SignalsAreFresh
    <3>2. MaxAge(store.val) = 7
      BY <1>0 DEF MaxAge
    <3> QED
      BY <1>0, <3>1, <3>2, LegacyIsRefused
  <2> QED
    BY <1>0, <2>1, <2>2, FetchStandsRight, HitOrMissKept
<1>2. CASE GetSubmissions(c)
  <2> DEFINE next == Searching(HasRestatement(content.submissions, clock), 0, 1)
  <2>1. Goes(c, next) /\ UNCHANGED <<store, answer, fixed>>
    BY <1>2 DEF GetSubmissions
  <2>2. /\ next.at = "search" /\ next.from = 0
        /\ next.restated = HasRestatement(content.submissions, clock)
    BY DEF Searching
  <2>3. DOMAIN content.hits = 1..Len(content.hits) /\ Len(content.hits) \in Nat
    BY <1>0, SignalsContents DEF WorldOK
  <2> HIDE DEF next
  <2>4. SearchOK(next)
    BY <2>2, <2>3 DEF SearchOK
  <2>5. StandsRight(next)
    BY <1>0, <2>2, <2>4 DEF StandsRight
  <2> QED
    BY <2>1, <2>5, GoesOnKept
<1>3. CASE SearchPage(c)
  <2>1. CASE content.overBroad
    BY <1>3, <2>1, RaisesKept DEF SearchPage
  <2>2. CASE ~content.overBroad
    <3> DEFINE s == call[c]
    <3>1. Goes(c, Reading(s, Candidates(s.from))) /\ UNCHANGED <<store, answer, fixed>>
      BY <1>3, <2>2 DEF SearchPage
    <3>2. SearchOK(s)
      BY <1>0, <1>3 DEF StandsRight, SearchPage, IsAt
    <3> HIDE DEF s
    <3>3. s.restated = HasRestatement(content.submissions, clock) /\ s.from \in Nat
      BY <3>2 DEF SearchOK
    <3>4. Len(content.hits) \in Nat /\ DOMAIN content.hits = 1..Len(content.hits)
          /\ LastOfPage(s.from) \in Nat
      BY <1>0, <3>3, PageIsPart
    <3>5. ASSUME NEW k \in DOMAIN content.hits,
                 k <= LastOfPage(s.from), Affirms(content, k, clock)
          PROVE  k \in Candidates(s.from)
      <4>1. k \in Nat /\ ~(k <= s.from)
        BY <3>2, <3>4, <3>5 DEF SearchOK
      <4>2. k \in (s.from + 1)..LastOfPage(s.from)
        BY <3>3, <3>4, <3>5, <4>1
      <4> QED
        BY <3>5, <4>2 DEF Candidates, Affirms
    <3>6. StandsRight(Reading(s, Candidates(s.from)))
      BY <1>0, <3>3, <3>5, ReadingIsRight
    <3> QED
      BY <3>1, <3>6, GoesOnKept
  <2> QED
    BY <2>1, <2>2
<1>4. CASE SearchFails(c)
  <2>1. CASE Raises(c)
    BY <2>1, RaisesKept
  <2>2. CASE ~Raises(c)
    <3> DEFINE s == call[c]
               next == [s EXCEPT !.attempt = @ + 1]
    <3>1. Goes(c, next) /\ UNCHANGED <<store, answer, fixed>> /\ s.at = "search" /\ s # None
      BY <1>4, <2>2 DEF SearchFails, IsAt
    <3>2. SearchOK(s)
      BY <1>0, <3>1 DEF StandsRight
    <3>3. next.at = "search" /\ next.restated = s.restated /\ next.from = s.from
      BY <3>1
    <3> HIDE DEF s, next
    <3>4. SearchOK(next)
      BY <3>2, <3>3 DEF SearchOK
    <3>5. StandsRight(next)
      BY <1>0, <3>3, <3>4 DEF StandsRight
    <3> QED
      BY <3>1, <3>5, GoesOnKept
  <2> QED
    BY <2>1, <2>2
<1>5. CASE ReadDocument(c)
  <2> DEFINE s == call[c]
             k == FirstLeft(s.left)
  <2>1. /\ UNCHANGED <<store, answer, fixed>>
        /\ Goes(c, IF HasAffirmativeGoingConcern(content.hits[k].doc)
                   THEN Save(Signals(s.restated, TRUE)) ELSE Reading(s, s.left \ {k}))
    BY <1>5 DEF ReadDocument
  <2>2. DocumentOK(s)
    BY <1>0, <1>5 DEF StandsRight, ReadDocument, IsAt
  <2> HIDE DEF s
  <2>3. /\ s.restated = HasRestatement(content.submissions, clock) /\ s.from \in Nat
        /\ s.left \in SUBSET Candidates(s.from) /\ s.left # {}
    BY <2>2 DEF DocumentOK
  <2>4. /\ DOMAIN content.hits = 1..Len(content.hits) /\ Len(content.hits) \in Nat
        /\ Candidates(s.from) \subseteq 1..Len(content.hits)
        /\ \A n \in Candidates(s.from) : Affirms(content, n, clock) <=>
             HasAffirmativeGoingConcern(content.hits[n].doc)
    BY <1>0, <2>3, PageIsPart
  <2>5. k \in s.left
    <3>1. s.left \in SUBSET Nat
      BY <2>3, <2>4
    <3>2. \E n \in s.left : \A m \in s.left : n <= m
      BY <2>3, <3>1, LeastNumber
    <3> QED
      BY <3>2 DEF FirstLeft
  <2> HIDE DEF k
  <2>6. k \in DOMAIN content.hits
        /\ (Affirms(content, k, clock) <=> HasAffirmativeGoingConcern(content.hits[k].doc))
    BY <2>3, <2>4, <2>5
  <2>7. CASE HasAffirmativeGoingConcern(content.hits[k].doc)
    <3>1. TRUE <=> \E n \in DOMAIN content.hits : Affirms(content, n, clock)
      BY <2>6, <2>7
    <3>2. StandsRight(Save(Signals(s.restated, TRUE)))
      BY <1>0, <2>3, <3>1, SignalsAreNow
    <3> QED
      BY <2>1, <2>7, <3>2, GoesOnKept
  <2>8. CASE ~HasAffirmativeGoingConcern(content.hits[k].doc)
    <3>1. \A n \in DOMAIN content.hits :
            n <= LastOfPage(s.from) /\ Affirms(content, n, clock) => n \in s.left \ {k}
      BY <2>2, <2>6, <2>8 DEF DocumentOK
    <3>2. StandsRight(Reading(s, s.left \ {k}))
      BY <1>0, <2>3, <3>1, ReadingIsRight
    <3> QED
      BY <2>1, <2>8, <3>2, GoesOnKept
  <2> QED
    BY <2>7, <2>8
<1>6. CASE SaveSignals(c)
  <2>1. IsAt(c, kind, "save") /\ Saved(c, None, None)
    BY <1>0, <1>6 DEF SaveSignals
  <2> QED
    BY <1>0, <2>1, SavedKept
<1> QED
  BY <1>1, <1>2, <1>3, <1>4, <1>5, <1>6 DEF SignalsStep

InsiderStep(c) ==
  GetForm4Index(c) \/ GetForm4IndexFails(c) \/ LoadOrFetch(c) \/ SkipFiling(c)

\* The next filing is one of the window.
LEMMA NextIsFiled ==
  ASSUME WorldOK, kind = "insider", NEW c \in Callers, FilingsOK(call[c]), call[c].left # {}
  PROVE  NextId(c) \in FiledIds(content)
<1> DEFINE left == call[c].left
           k == FirstLeft(left)
<1>1. left \subseteq Form4Index(content.submissions, content.since) /\ left # {}
  BY DEF FilingsOK
<1>2. content \in Contents.insider
  BY DEF WorldOK
<1>3. DOMAIN content.submissions = 1..Len(content.submissions)
      /\ Len(content.submissions) \in Nat /\ content.since \in Int
      /\ \A j \in DOMAIN content.submissions : content.submissions[j].date \in Figures
  BY <1>2, InsiderContents
<1> HIDE DEF left
<1>4. left \in SUBSET Nat
  BY <1>1, <1>3 DEF Form4Index
<1>5. k \in left
  <2>1. \E n \in left : \A m \in left : n <= m
    BY <1>1, <1>4, LeastNumber
  <2> QED
    BY <2>1 DEF FirstLeft
<1> HIDE DEF k
<1>6. /\ k \in DOMAIN content.submissions /\ content.submissions[k].form = "4"
      /\ content.submissions[k].date # None /\ content.submissions[k].date >= content.since
  BY <1>1, <1>5 DEF Form4Index
<1>7. content.since <= content.submissions[k].date
  BY <1>3, <1>6 DEF Figures
<1>8. content.submissions[k].id \in FiledIds(content)
  BY <1>6, <1>7 DEF FiledIds
<1> QED
  BY <1>8 DEF NextId, k, left

\* After a filing, read or skipped, the call goes on or answers.
LEMMA NextFilingIsRight ==
  ASSUME CachesInv, kind = "insider", NEW c \in Callers, IsAt(c, "insider", "filings"),
         NEW parsed \in SUBSET FiledIds(content), NextFiling(c, parsed), UNCHANGED fixed
  PROVE  CachesInv'
<1> DEFINE left == call[c].left \ {FirstLeft(call[c].left)}
           total == call[c].total
<1>1. WorldOK /\ FilingsOK(call[c]) /\ content \in Contents.insider
  BY DEF CachesInv, StandsRight, IsAt, WorldOK
<1>2. /\ left \subseteq Form4Index(content.submissions, content.since)
      /\ total = Cardinality(Form4Index(content.submissions, content.since))
  BY <1>1 DEF FilingsOK
<1>3. IF left = {} THEN Answers(c, "value", Coverage(parsed, total))
      ELSE Goes(c, Insider(left, parsed, total)) /\ UNCHANGED answer
  BY DEF NextFiling
<1> HIDE DEF left, total
<1>4. CASE left = {}
  <2>1. InsiderAgrees(Coverage(parsed, total), content)
    BY <1>1, <1>2, CoverageIsRight
  <2>2. StatedOrMistaken(Coverage(parsed, total), Now)
    BY <2>1 DEF StatedOrMistaken, Agrees, Now, Truth
  <2>3. Recent("value", Coverage(parsed, total))
    BY <1>1, <2>2, NowIsRecent
  <2> QED
    BY <1>3, <1>4, <2>3, EndsWell
<1>5. CASE left # {}
  <2> DEFINE next == Insider(left, parsed, total)
  <2>1. next.left = left /\ next.parsed = parsed /\ next.total = total
    BY DEF Insider
  <2>2. Goes(c, next) /\ UNCHANGED answer
    BY <1>3, <1>5
  <2> HIDE DEF next
  <2>3. FilingsOK(next)
    BY <1>2, <1>5, <2>1 DEF FilingsOK
  <2>4. StandsRight(next)
    BY <2>3 DEF StandsRight
  <2> QED
    BY <2>2, <2>4, GoesOn
<1> QED
  BY <1>4, <1>5

\* The files of the Form 4 filings: a file is written by one document that parses, for
\* itself (deepdive/insider_cache.py), and the coverage counts what was parsed.
LEMMA InsiderKept ==
  ASSUME CachesInv, NEW c \in Callers, InsiderStep(c)
  PROVE  Kept
<1>0. kind = "insider" /\ WorldOK /\ content \in Contents.insider /\ StandsRight(call[c])
  BY DEF CachesInv, WorldOK, InsiderStep, GetForm4Index, GetForm4IndexFails, LoadOrFetch,
         SkipFiling, Asks, IsAt
<1>1. CASE GetForm4Index(c)
  <2> DEFINE refs == Form4Index(content.submissions, content.since)
             next == Insider(refs, {}, Cardinality(refs))
  <2>1. Goes(c, next) /\ UNCHANGED <<store, answer, fixed>>
    BY <1>1 DEF GetForm4Index
  <2>2. next.left = refs /\ next.parsed = {} /\ next.total = Cardinality(refs)
    BY DEF Insider
  <2>3. refs = {} => Cardinality(refs) = 0
    BY FS_EmptySet
  <2> HIDE DEF next
  <2>4. FilingsOK(next)
    BY <2>2, <2>3 DEF FilingsOK
  <2>5. StandsRight(next)
    BY <1>0, <2>4 DEF StandsRight
  <2> QED
    BY <2>1, <2>5, GoesOnKept
<1>2. CASE GetForm4IndexFails(c)
  BY <1>2, RaisesKept DEF GetForm4IndexFails
<1>3. ASSUME IsAt(c, "insider", "filings")
      PROVE  FilingsOK(call[c]) /\ call[c].parsed \in SUBSET FiledIds(content)
  <2>1. FilingsOK(call[c])
    BY <1>0, <1>3 DEF StandsRight, IsAt
  <2> QED
    BY <2>1 DEF FilingsOK
<1>4. CASE LoadOrFetch(c)
  <2>1. IsAt(c, "insider", "filings") /\ UNCHANGED fixed
    BY <1>4 DEF LoadOrFetch
  <2>2. CASE call[c].left = {}
    <3>1. Answers(c, "value", Coverage({}, 0)) /\ UNCHANGED store
      BY <1>4, <2>2 DEF LoadOrFetch
    <3>2. Cardinality(Form4Index(content.submissions, content.since)) = 0
      BY <1>3, <2>1, <2>2 DEF FilingsOK
    <3>3. InsiderAgrees(Coverage({}, 0), content)
      BY <1>0, <3>2, CoverageIsRight
    <3>4. StatedOrMistaken(Coverage({}, 0), Now)
      BY <1>0, <3>3 DEF StatedOrMistaken, Agrees, Now, Truth
    <3>5. Recent("value", Coverage({}, 0))
      BY <1>0, <3>4, NowIsRecent
    <3>6. CachesInv'
      BY <2>1, <3>1, <3>5, EndsWell
    <3> QED
      BY <3>1, <3>6 DEF Kept, EntryIsToldToday
  <2>3. CASE call[c].left # {}
    <3> DEFINE f == NextId(c)
               known == store[f] = INSIDER_CACHE_SCHEMA_VERSION
               parses == f \notin content.broken
               parsed == IF known \/ parses THEN call[c].parsed \cup {f} ELSE call[c].parsed
    <3>1. /\ NextFiling(c, parsed)
          /\ store' = IF known \/ ~parses THEN store
                      ELSE [store EXCEPT ![f] = INSIDER_CACHE_SCHEMA_VERSION]
      BY <1>4, <2>3 DEF LoadOrFetch
    <3>2. f \in FiledIds(content)
      BY <1>0, <1>3, <2>1, <2>3, NextIsFiled
    <3>3. parsed \in SUBSET FiledIds(content)
      BY <1>3, <2>1, <3>2
    <3>4. EntryIsToldToday
      BY <1>0, <3>1 DEF EntryIsToldToday
    <3> HIDE DEF parsed
    <3>5. CachesInv'
      BY <1>0, <2>1, <3>1, <3>3, NextFilingIsRight
    <3> QED
      BY <3>4, <3>5 DEF Kept
  <2> QED
    BY <2>2, <2>3
<1>5. CASE SkipFiling(c)
  <2>1. /\ IsAt(c, "insider", "filings") /\ NextFiling(c, call[c].parsed)
        /\ UNCHANGED fixed /\ store' = store
    BY <1>5 DEF SkipFiling
  <2>2. CachesInv'
    BY <1>0, <1>3, <2>1, NextFilingIsRight
  <2> QED
    BY <2>1, <2>2 DEF Kept, EntryIsToldToday
<1> QED
  BY <1>1, <1>2, <1>4, <1>5 DEF InsiderStep

-------------------------------------------------------------------------------
(***************************************************************************)
(* The specification.                                                      *)
(***************************************************************************)
\* On the first day nothing is told but what the source says, and nothing kept but what an
\* earlier version left.
LEMMA CachesStartRight == Init => CachesInv
<1> SUFFICES ASSUME Init PROVE CachesInv
  OBVIOUS
<1>1. /\ kind \in Kinds /\ clock = 0 /\ content \in Contents[kind] /\ store \in Legacy[kind]
      /\ call = [c \in Callers |-> None] /\ answer = None
      /\ said = [x \in {Truth(kind, content, 0)} |-> 0]
  BY DEF Init
<1>2. offset \in (-30)..29
  BY CachesConstants DEF Init
<1>3. Now = Truth(kind, content, 0)
  BY <1>1 DEF Now
<1>4. DOMAIN said = {Now} /\ \A x \in {Now} : said[x] = 0
  BY <1>1, <1>3
<1>5. WorldOK
  BY <1>1, <1>2, <1>4 DEF WorldOK
<1>6. StoreOK /\ AnswerOK
  BY <1>1 DEF StoreOK, AnswerOK
<1>7. \A c \in Callers : StandsRight(call[c])
  BY <1>1 DEF StandsRight
<1> QED
  BY <1>5, <1>6, <1>7 DEF CachesInv

\* A new day: what was told before stays told, and what the source says now is told now.
LEMMA TickKeeps ==
  ASSUME CachesInv, Tick
  PROVE  Kept
<1>1. PICK t \in {t \in Instants[kind] : t > clock}, src \in Contents[kind] :
        /\ clock' = t /\ content' = src
        /\ said' = [x \in DOMAIN said \cup {Truth(kind, src, t)} |->
                      IF x = Truth(kind, src, t) THEN t ELSE said[x]]
  BY DEF Tick
<1>2. answer' = None /\ UNCHANGED <<kind, store, call, cik404, offset>> /\ Quiet
  BY DEF Tick
<1>3. /\ kind \in Kinds /\ clock \in Nat /\ offset \in (-30)..29 /\ DOMAIN call = Callers
      /\ \A truth \in DOMAIN said : said[truth] \in Nat /\ said[truth] <= clock
  BY DEF CachesInv, WorldOK
<1>4. t \in Nat /\ t > clock
  BY <1>1, <1>3, CachesConstants
<1>5. Now' = Truth(kind, src, t)
  BY <1>1, <1>2 DEF Now
<1>6. /\ DOMAIN said' = DOMAIN said \cup {Now'} /\ said'[Now'] = t
      /\ \A truth \in DOMAIN said : said'[truth] \in Nat /\ said[truth] <= said'[truth]
      /\ \A truth \in DOMAIN said' : said'[truth] \in Nat /\ said'[truth] <= t
  <2> DEFINE new == Truth(kind, src, t)
  <2>1. said' = [x \in DOMAIN said \cup {new} |-> IF x = new THEN t ELSE said[x]]
    BY <1>1
  <2> HIDE DEF new
  <2>2. /\ DOMAIN said' = DOMAIN said \cup {new} /\ said'[new] = t
        /\ \A truth \in DOMAIN said : said'[truth] \in Nat /\ said[truth] <= said'[truth]
        /\ \A truth \in DOMAIN said' : said'[truth] \in Nat /\ said'[truth] <= t
    BY <1>3, <1>4, <2>1
  <2> QED
    BY <1>5, <2>2 DEF new
<1>7. WorldOK'
  BY <1>1, <1>2, <1>3, <1>4, <1>6 DEF WorldOK
<1>8. \A val, truth : (StatedOrMistaken(val, truth)' <=> StatedOrMistaken(val, truth)) /\ MaxAge(val)' = MaxAge(val)
  BY <1>2, RigidAgreement
<1>9. StoreOK'
  <2>1. CASE kind = "insider" \/ store = None \/ store \in Legacy[kind]
    BY <1>2, <2>1 DEF StoreOK
  <2>2. CASE KeptRight(store)
    <3>1. PICK truth \in DOMAIN said : StatedOrMistaken(store.val, truth) /\ store.at <= said[truth]
      BY <2>2 DEF KeptRight, Told
    <3>2. store.at \in Nat /\ said[truth] \in Nat /\ said'[truth] \in Nat
          /\ said[truth] <= said'[truth] /\ truth \in DOMAIN said'
      BY <1>3, <1>6, <2>2 DEF KeptRight
    <3>3. store.at <= said'[truth]
      BY <3>1, <3>2
    <3>4. Told(store.val, store.at)'
      BY <1>2, <1>8, <3>1, <3>2, <3>3 DEF Told
    <3>5. KeptRight(store)'
      BY <1>2, <1>8, <2>2, <3>4 DEF KeptRight
    <3> QED
      BY <3>5 DEF StoreOK
  <2> QED
    BY <2>1, <2>2 DEF CachesInv, StoreOK
<1>10. AnswerOK'
  BY <1>2 DEF AnswerOK
<1>11. \A c \in Callers : StandsRight(call[c])'
  BY <1>2 DEF Quiet, StandsRight
<1> QED
  BY <1>2, <1>7, <1>9, <1>10, <1>11 DEF Kept, CachesInv, EntryIsToldToday

\* Every step keeps the invariant and the entries told.
LEMMA EveryStepKeeps ==
  ASSUME CachesInv, [Next]_vars
  PROVE  Kept
<1>1. CASE Tick
  BY <1>1, TickKeeps
<1>2. ASSUME NEW c \in Callers, Step(c)
      PROVE  Kept
  <2>1. \/ InfoStep(c) \/ SignalsStep(c) \/ RevenueStep(c) \/ AnnualStep(c)
        \/ HistoricalStep(c) \/ InsiderStep(c) \/ SourceFails(c) \/ FirestoreFails(c)
    BY <1>2 DEF Step, InfoStep, SignalsStep, RevenueStep, AnnualStep, HistoricalStep,
                InsiderStep
  <2>2. CASE SourceFails(c) \/ FirestoreFails(c)
    BY <2>2, RaisesKept DEF SourceFails, FirestoreFails
  <2> QED
    BY <2>1, <2>2, InfoKept, SignalsKept, RevenueKept, AnnualKept, HistoricalKept, InsiderKept
<1>3. CASE UNCHANGED vars
  <2>1. /\ UNCHANGED fixed /\ UNCHANGED <<kind, clock, content, said, offset>>
        /\ UNCHANGED <<store, call, answer>>
    BY <1>3 DEF vars, fixed
  <2>2. /\ Now' = Now
        /\ \A s : StandsRight(s)' <=> StandsRight(s)
        /\ \A doc : KeptRight(doc)' <=> KeptRight(doc)
        /\ \A how, val : Recent(how, val)' <=> Recent(how, val)
    BY <2>1, RigidJudgement
  <2>3. WorldOK'
    BY <2>1, <2>2 DEF CachesInv, WorldOK
  <2>4. StoreOK' /\ AnswerOK'
    BY <2>1, <2>2 DEF CachesInv, StoreOK, AnswerOK
  <2>5. \A c \in Callers : StandsRight(call[c])'
    BY <2>1, <2>2 DEF CachesInv
  <2> QED
    BY <2>1, <2>3, <2>4, <2>5 DEF Kept, CachesInv, EntryIsToldToday
<1> QED
  BY <1>1, <1>2, <1>3 DEF Next

\* In every state of every behaviour: a call under way carries what the source says today,
\* and an entry what it said since it was written.
THEOREM CachesStayRight == Spec => []CachesInv
<1>1. CachesInv /\ [Next]_vars => CachesInv'
  BY EveryStepKeeps DEF Kept
<1> QED
  BY <1>1, CachesStartRight, PTL DEF Spec

\* AnswerIsRecent, for every set of callers, contents, days, offsets, page sizes and numbers
\* of attempts and faults: whatever the clients answer as current, from a cache or not, is
\* what the source said within the cache's time to live, in the right unit; what they
\* answer as stale it did say.
THEOREM AnswersAreRecent == Spec => []AnswerIsRecent
<1>1. CachesInv => AnswerIsRecent
  <2> SUFFICES ASSUME CachesInv, answer # None, answer.how \in {"value", "stale"}
               PROVE  \E truth \in DOMAIN said :
                        /\ StatedOrMistaken(answer.val, truth)
                        /\ answer.how = "value" => clock - said[truth] < MaxAge(answer.val)
    BY DEF AnswerIsRecent
  <2>1. Recent(answer.how, answer.val)
    BY DEF CachesInv, AnswerOK
  <2> QED
    BY <2>1 DEF Recent
<1> QED
  BY <1>1, CachesStayRight, PTL

\* FailureIsNoStatement: an entry changes only to what the source says that day, whichever
\* request failed before; of the Form 4 files only that of a document that parses.
THEOREM FailuresAreNoStatements == Spec => FailureIsNoStatement
<1>1. CachesInv /\ [Next]_vars =>
        [store' # store =>
           \/ kind = "insider" /\ \A f \in DOMAIN store : store'[f] # store[f] => f \notin content.broken
           \/ kind # "insider" /\ store'.at = clock
              /\ StatedOrMistaken(store'.val, Truth(kind, content, clock))]_vars
  BY EveryStepKeeps DEF Kept, EntryIsToldToday, Now
<1> QED
  BY <1>1, CachesStayRight, PTL DEF Spec, FailureIsNoStatement
===============================================================================

----------------------------- MODULE SourceCaches -----------------------------
(***************************************************************************)
(* The caches before the data sources: Yahoo's info (24 hours), the EDGAR  *)
(* signals (7 days), revenue series (120 days and an offset that depends   *)
(* on the ticker) and annual series (400 days and a drawn offset, 60 days  *)
(* for a negative entry) in Firestore, the historical series (90 days) and *)
(* the Form 4 filings (for ever) in files.                                 *)
(*                                                                         *)
(* One title in one of these caches, asked for by several callers (the     *)
(* monthly run, the backfill, a deep dive).  The clock counts days.  A     *)
(* call takes less than a day: the clock and the source stand still while  *)
(* it runs, and only then.                                                 *)
(***************************************************************************)
EXTENDS YFinanceClient, EdgarSearch, AnnualSeries

CONSTANTS
  Callers,
  Kinds,          \* the caches to look at
  Contents,       \* what the source of a cache can hold
  Legacy,         \* entries written by earlier versions, or torn
  Instants,       \* days to look at, for each cache
  RevenueOffsets, \* values of ttl_jitter_offset_days
  DrawnOffsets,   \* values of the offset drawn for an annual series
  PageSize,       \* hits on a page of the full-text search
  MaxAttempts,    \* _EFTS_MAX_ATTEMPTS
  MaxFaults       \* failing calls

AllKinds == {"info", "signals", "revenue", "annual", "historical", "insider"}

ASSUME CachesConstants ==
  /\ Kinds \subseteq AllKinds /\ DOMAIN Concepts # {}
  /\ \A k \in Kinds : Instants[k] \subseteq Nat
  /\ RevenueOffsets \subseteq (-30)..29 /\ DrawnOffsets \subseteq (-60)..60
  /\ PageSize \in Nat \ {0} /\ MaxAttempts \in Nat \ {0} /\ MaxFaults \in Nat

VARIABLES
  kind,      \* the cache of this behaviour
  clock,
  content,   \* what the source holds
  store,     \* the cached document, or None; for Form 4 a file for each filing
  call,      \* where a caller stands between the cache and the source
  answer,    \* the last answer of this day
  said,      \* the last day on which the source said a thing
  faults,
  cik404,    \* the digits 404 occur in the CIK
  offset     \* ttl_jitter_offset_days of the ticker

vars == <<kind, clock, content, store, call, answer, said, faults, cik404, offset>>
fixed == <<kind, clock, content, said, cik404, offset>>

EXTRACTION_SCHEMA == 2
CACHE_SCHEMA_VERSION == 4
INSIDER_CACHE_SCHEMA_VERSION == 1

Doc(at, until, schema, val) == [at |-> at, until |-> until, schema |-> schema, val |-> val]
InFirestore == {"info", "signals", "revenue", "annual"}

(***************************************************************************)
(* Freshness.                                                              *)
(***************************************************************************)
\* Mutant: an entry without a market cap counts like any other.
InfoIsFresh_AnyPayload(doc) == doc # None /\ clock - doc.at < 1

InfoIsFresh(doc) ==
  /\ doc # None
  /\ clock - doc.at < 1
  /\ ~IsUnnormalised(doc.val)
  /\ HasUsableMarketCap(doc.val)

SignalsAreFresh(doc) == doc # None /\ clock - doc.at < 7

RevenueIsFresh(doc) == doc # None /\ clock - doc.at < 120 + offset

AnnualIsFresh(doc) == clock < doc.until

AnnualIsUsable(doc) == doc # None /\ doc.schema = EXTRACTION_SCHEMA /\ AnnualIsFresh(doc)

HistoricalIsFresh(doc) ==
  doc # None /\ doc.schema = CACHE_SCHEMA_VERSION /\ clock - doc.at < 90

Expiry(record, drawn) == clock + IF Usable(record) THEN 400 + drawn ELSE 60

(***************************************************************************)
(* The steps of a call.                                                    *)
(***************************************************************************)
Asks(c, k) == kind = k /\ call[c] = None
IsAt(c, k, step) == kind = k /\ call[c] # None /\ call[c].at = step

Goes(c, step) == call' = [call EXCEPT ![c] = step]
Answers(c, how, val) ==
  /\ Goes(c, None)
  /\ answer' = [how |-> how, val |-> val, by |-> c]

Fetch == [at |-> "fetch"]
Save(val) == [at |-> "save", val |-> val]

Fails == faults < MaxFaults /\ faults' = faults + 1

HitOrMiss(c, fresh, first) ==
  /\ IF fresh THEN Answers(c, "value", store.val)
     ELSE Goes(c, first) /\ UNCHANGED answer
  /\ UNCHANGED <<store, faults, fixed>>

\* A call that raises leaves the cache as it is.
Raises(c) == Answers(c, "raised", None) /\ UNCHANGED <<store, fixed>>

\* Firestore is asked first and told last; the caches do not catch its errors.
FirestoreFails(c) ==
  /\ kind \in InFirestore
  /\ call[c] = None \/ IsAt(c, kind, "save")
  /\ Fails
  /\ Raises(c)

Saved(c, until, schema) ==
  /\ store' = Doc(clock, until, schema, call[c].val)
  /\ Answers(c, "value", call[c].val)
  /\ UNCHANGED <<faults, fixed>>

(***************************************************************************)
(* Yahoo's info.                                                           *)
(***************************************************************************)
GetTickerInfo(c) == Asks(c, "info") /\ HitOrMiss(c, InfoIsFresh(store), Fetch)

FetchTickerInfo(c) ==
  /\ IsAt(c, "info", "fetch")
  /\ IF (IF content = None THEN TRUE ELSE Degraded(content)) THEN Raises(c)
     ELSE Goes(c, Save(NormalizeMinorUnit(content))) /\ UNCHANGED <<store, answer, fixed>>
  /\ UNCHANGED faults

SaveTickerInfo(c) == IsAt(c, "info", "save") /\ Saved(c, None, None)

(***************************************************************************)
(* The EDGAR signals: the restatement first, then page after page of the   *)
(* search, and the document of each candidate until one affirms.           *)
(***************************************************************************)
FetchAndCache(c) ==
  Asks(c, "signals") /\ HitOrMiss(c, SignalsAreFresh(store), [at |-> "submissions"])

Searching(restated, from, attempt) ==
  [at |-> "search", restated |-> restated, from |-> from, attempt |-> attempt]
Signals(restated, concern) == [restatement |-> restated, goingConcern |-> concern]

GetSubmissions(c) ==
  /\ IsAt(c, "signals", "submissions")
  /\ Goes(c, Searching(HasRestatement(content.submissions, clock), 0, 1))
  /\ UNCHANGED <<store, answer, faults, fixed>>

LastOfPage(from) ==
  IF from + PageSize <= Len(content.hits) THEN from + PageSize ELSE Len(content.hits)

\* Mutant: the offset of the next page is not moved by the hits of this one.
AfterPage_SameOffset(s) ==
  IF LastOfPage(s.from) >= Len(content.hits)
  THEN Save(Signals(s.restated, FALSE)) ELSE Searching(s.restated, s.from, 1)

\* The page held no affirmative document.
AfterPage(s) ==
  LET from == LastOfPage(s.from)
  IN IF from >= Len(content.hits) THEN Save(Signals(s.restated, FALSE))
     ELSE Searching(s.restated, from, 1)

\* The places of the candidates that are left of the page, read from the first.
Reading(s, candidates) ==
  IF candidates = {} THEN AfterPage(s)
  ELSE [at |-> "document", restated |-> s.restated, from |-> s.from, left |-> candidates]

Candidates(from) == {k \in (from + 1)..LastOfPage(from) : IsCandidate(content.hits[k], clock)}

FirstLeft(left) == CHOOSE k \in left : \A j \in left : k <= j

SearchPage(c) ==
  /\ IsAt(c, "signals", "search")
  /\ IF content.overBroad THEN Raises(c)
     ELSE /\ Goes(c, Reading(call[c], Candidates(call[c].from)))
          /\ UNCHANGED <<store, answer, fixed>>
  /\ UNCHANGED faults

\* A 5xx is tried again, at most MaxAttempts times in all.
SearchFails(c) ==
  /\ IsAt(c, "signals", "search")
  /\ Fails
  /\ IF call[c].attempt = MaxAttempts THEN Raises(c)
     ELSE /\ Goes(c, [call[c] EXCEPT !.attempt = @ + 1])
          /\ UNCHANGED <<store, answer, fixed>>

ReadDocument(c) ==
  /\ IsAt(c, "signals", "document")
  /\ LET k == FirstLeft(call[c].left)
     IN Goes(c, IF HasAffirmativeGoingConcern(content.hits[k].doc)
                THEN Save(Signals(call[c].restated, TRUE))
                ELSE Reading(call[c], call[c].left \ {k}))
  /\ UNCHANGED <<store, answer, faults, fixed>>

SaveSignals(c) == IsAt(c, "signals", "save") /\ Saved(c, None, None)

(***************************************************************************)
(* The revenue series: a failed fetch is an empty series, and not kept.    *)
(***************************************************************************)
GetRevenueSeries(c) == Asks(c, "revenue") /\ HitOrMiss(c, RevenueIsFresh(store), Fetch)

NoRevenues(c) == Answers(c, "nothing", None) /\ UNCHANGED <<store, fixed>>

FetchRevenues(c) ==
  /\ IsAt(c, "revenue", "fetch")
  /\ IF content = <<>> THEN NoRevenues(c)
     ELSE Goes(c, Save(content)) /\ UNCHANGED <<store, answer, fixed>>
  /\ UNCHANGED faults

FetchRevenuesFails(c) == IsAt(c, "revenue", "fetch") /\ Fails /\ NoRevenues(c)

SaveRevenues(c) == IsAt(c, "revenue", "save") /\ Saved(c, None, None)

(***************************************************************************)
(* The annual series: the monthly run only reads, the backfill fetches.    *)
(***************************************************************************)
\* An expired entry is used and counted; one of another extraction is not there.
ReadAnnualSeries(c) ==
  /\ Asks(c, "annual")
  /\ IF store = None THEN Answers(c, "missing", None)
     ELSE IF store.schema # EXTRACTION_SCHEMA THEN Answers(c, "missing", None)
     ELSE Answers(c, IF AnnualIsFresh(store) THEN "value" ELSE "stale", store.val)
  /\ UNCHANGED <<store, faults, fixed>>

GetAnnualSeries(c) == Asks(c, "annual") /\ HitOrMiss(c, AnnualIsUsable(store), Fetch)

NoFacts == Record([k \in {} |-> NoCoverage], "no_concept")

\* The extraction of each document, evaluated once.
Extracted == [facts \in Contents.annual \ {None} |-> BuildAnnualSeries(facts)]

FetchFacts(c) ==
  /\ IsAt(c, "annual", "fetch")
  /\ Goes(c, Save(IF content = None THEN NoFacts ELSE Extracted[content]))
  /\ UNCHANGED <<store, answer, faults, fixed>>

\* Mutant: any failure is a statement about the issuer.
FetchFactsFails_Negative(c) ==
  /\ IsAt(c, "annual", "fetch")
  /\ Fails
  /\ Goes(c, Save(NoFacts))
  /\ UNCHANGED <<store, answer, fixed>>

\* The status is looked for in the message, which holds the URL and so the CIK.
FetchFactsFails(c) ==
  /\ IsAt(c, "annual", "fetch")
  /\ Fails
  /\ IF cik404 THEN Goes(c, Save(NoFacts)) /\ UNCHANGED <<store, answer, fixed>>
     ELSE Raises(c)

SaveAnnualSeries(c) ==
  /\ IsAt(c, "annual", "save")
  /\ \E drawn \in DrawnOffsets : Saved(c, Expiry(call[c].val, drawn), EXTRACTION_SCHEMA)

(***************************************************************************)
(* The historical series of a deep dive.                                   *)
(***************************************************************************)
MAX_YEARS == 5
MIN_COMPLETE_YEARS == 3

\* The newest years first; a margin needs both figures and a revenue that is not 0.
HistoricalSeries(columns, closes) ==
  LET years == IF Len(columns) < MAX_YEARS THEN Len(columns) ELSE MAX_YEARS
  IN [margins |-> [k \in 1..years |->
                     IF ~Truthy(columns[k].revenue) \/ columns[k].income = None THEN None
                     ELSE (100 * columns[k].income) \div columns[k].revenue],
      complete |-> years >= MIN_COMPLETE_YEARS,
      closes |-> closes]

GetHistorical(c) == Asks(c, "historical") /\ HitOrMiss(c, HistoricalIsFresh(store), Fetch)

FetchHistorical(c) ==
  /\ IsAt(c, "historical", "fetch")
  /\ Goes(c, Save(HistoricalSeries(content.columns, WeeklyClose(content.prices))))
  /\ UNCHANGED <<store, answer, faults, fixed>>

\* The statements or the info: the call raises.  The prices or the splits: a series
\* without valuation history, kept like any other.
FetchHistoricalFails(c) ==
  /\ IsAt(c, "historical", "fetch")
  /\ Fails
  /\ \/ Raises(c)
     \/ /\ Goes(c, Save(HistoricalSeries(content.columns, None)))
        /\ UNCHANGED <<store, answer, fixed>>

SaveHistorical(c) == IsAt(c, "historical", "save") /\ Saved(c, None, CACHE_SCHEMA_VERSION)

(***************************************************************************)
(* Form 4: the index anew in every call, each filing once.                 *)
(***************************************************************************)
Insider(left, parsed, total) ==
  [at |-> "filings", left |-> left, parsed |-> parsed, total |-> total]

Coverage(parsed, total) ==
  [state |-> IF total = 0 THEN "empty" ELSE IF parsed = {} THEN "fetch_failed"
             ELSE IF Cardinality(parsed) = total THEN "ok" ELSE "partial",
   filings |-> parsed]

GetForm4Index(c) ==
  /\ Asks(c, "insider")
  /\ LET refs == Form4Index(content.submissions, content.since)
     IN Goes(c, Insider(refs, {}, Cardinality(refs)))
  /\ UNCHANGED <<store, answer, faults, fixed>>

GetForm4IndexFails(c) == Asks(c, "insider") /\ Fails /\ Raises(c)

\* The filing that is next, and what comes after it, read or skipped.
NextId(c) == content.submissions[FirstLeft(call[c].left)].id

NextFiling(c, parsed) ==
  LET left == call[c].left \ {FirstLeft(call[c].left)}
  IN IF left = {} THEN Answers(c, "value", Coverage(parsed, call[c].total))
     ELSE Goes(c, Insider(left, parsed, call[c].total)) /\ UNCHANGED answer

\* An empty index, a file of this version, a document that parses, one that does not.
LoadOrFetch(c) ==
  /\ IsAt(c, "insider", "filings")
  /\ IF call[c].left = {}
     THEN Answers(c, "value", Coverage({}, 0)) /\ UNCHANGED store
     ELSE LET f == NextId(c)
              known == store[f] = INSIDER_CACHE_SCHEMA_VERSION
              parses == f \notin content.broken
          IN /\ NextFiling(c, IF known \/ parses THEN call[c].parsed \cup {f} ELSE call[c].parsed)
             /\ store' = IF known \/ ~parses THEN store
                         ELSE [store EXCEPT ![f] = INSIDER_CACHE_SCHEMA_VERSION]
  /\ UNCHANGED <<faults, fixed>>

SkipFiling(c) ==
  /\ IsAt(c, "insider", "filings")
  /\ call[c].left # {}
  /\ store[NextId(c)] # INSIDER_CACHE_SCHEMA_VERSION
  /\ Fails
  /\ NextFiling(c, call[c].parsed)
  /\ UNCHANGED <<store, fixed>>

(***************************************************************************)
(* The source itself fails.                                                *)
(***************************************************************************)
SourceFails(c) ==
  /\ \/ IsAt(c, "info", "fetch")
     \/ IsAt(c, "signals", "submissions")
     \/ IsAt(c, "signals", "search")
     \/ IsAt(c, "signals", "document")
  /\ Fails
  /\ Raises(c)

-------------------------------------------------------------------------------
(***************************************************************************)
(* What the source says, in terms of its content alone.                    *)
(***************************************************************************)
\* In hundredths of the major unit, of pounds in pence; a label of a minor unit without a
\* rule derives nothing.
TrueInfo(i) ==
  LET minor == i.currency = "GBp" \/ i.currency \in UNRULED_MINOR_UNIT_CODES
      price == IF Truthy(i.current) THEN i.current ELSE IF Truthy(i.regular) THEN i.regular ELSE 0
      hundredths == IF minor THEN price ELSE 100 * price
  IN [price |-> hundredths,
      cap |-> IF Truthy(i.cap) THEN 100 * i.cap
              ELSE IF i.currency \in UNRULED_MINOR_UNIT_CODES \/ ~Positive(i.shares) \/ price <= 0
                   THEN 0
              ELSE i.shares * hundredths]

\* What the annual reports of an issuer say under one tag, and the days on which the years
\* of a figure end.
Reported(facts, tag) ==
  {EntriesOf(facts, tag)[k] :
     k \in {k \in DOMAIN EntriesOf(facts, tag) : IsAnnualEntry(EntriesOf(facts, tag)[k])}}
Ends(facts, tags) == UNION {{x.end : x \in Reported(facts, tags[p])} : p \in DOMAIN tags}

\* How far a day is from where the fiscal year ends: where the newest one ended.
DaysOff(e, ends) ==
  LET yearEnd == (CHOOSE n \in ends : \A f \in ends : f <= n) % YEAR
      d == (e - yearEnd) % YEAR
  IN IF d <= YEAR - d THEN d ELSE YEAR - d

YearEnds(ends) == {e \in ends : DaysOff(e, ends) <= 45}

\* The end of fiscal year y: the nearest, of two the later.
EndOf(y, ends) ==
  CHOOSE e \in YearEnds(ends) :
    /\ FiscalLabel(e) = y
    /\ \A f \in YearEnds(ends) : FiscalLabel(f) = y =>
         \/ DaysOff(e, ends) < DaysOff(f, ends)
         \/ DaysOff(e, ends) = DaysOff(f, ends) /\ f <= e

FirstTag(facts, tags, e) ==
  CHOOSE p \in DOMAIN tags :
    /\ \E x \in Reported(facts, tags[p]) : x.end = e
    /\ \A q \in 1..(p - 1) : \A x \in Reported(facts, tags[q]) : x.end # e

LatestReport(facts, tag, e) ==
  CHOOSE x \in Reported(facts, tag) :
    /\ x.end = e
    /\ \A z \in Reported(facts, tag) : z.end = e => z.filed <= x.filed

\* The value of a fiscal year: of the annual reports, the latest on this period, of the
\* first of the tags that has it; the period that ends where the fiscal year ends.
TrueSeries(facts, tags) ==
  LET ends == Ends(facts, tags)
  IN [y \in {FiscalLabel(e) : e \in YearEnds(ends)} |->
        LatestReport(facts, tags[FirstTag(facts, tags, EndOf(y, ends))], EndOf(y, ends)).val]

TrueAnnual(facts) == [c \in DOMAIN Concepts |-> TrueSeries(facts, Concepts[c])]

TrueExtract == [facts \in Contents.annual \ {None} |-> TrueAnnual(facts)]

NoSeries == [c \in DOMAIN Concepts |-> [y \in {} |-> 0]]

TrueSignals(src, today) ==
  Signals(\E k \in DOMAIN src.submissions :
            /\ src.submissions[k].form = "8-K" /\ src.submissions[k].restates
            /\ today - src.submissions[k].date <= RESTATEMENT_DAYS,
          \E k \in DOMAIN src.hits :
            /\ src.hits[k].type \in {"10-K", "10-Q"} /\ src.hits[k].finding
            /\ today - src.hits[k].date <= GOING_CONCERN_DAYS)

\* A title without payload or with a degraded one says nothing.
Truth(k, src, today) ==
  CASE k = "info" -> IF src = None THEN None ELSE IF Degraded(src) THEN None ELSE TrueInfo(src)
    [] k = "signals" -> TrueSignals(src, today)
    [] k = "annual" -> IF src = None THEN NoSeries ELSE TrueExtract[src]
    [] OTHER -> src

(***************************************************************************)
(* What the contents are like.  Figures are written in a unit in which the *)
(* divisions of the code, which are those of floats, leave no rest.        *)
(***************************************************************************)
Figures == Int \cup {None}

ASSUME NoneIsNoValue ==
  None \notin Int /\ None # "no_concept" /\ \A i \in Contents.info \ {None} : TrueInfo(i) # None

ASSUME InfoContents ==
  \A i \in Contents.info \ {None} :
    /\ i \in [named : BOOLEAN, currency : STRING \cup {None}, cap : Figures, current : Figures,
              regular : Figures, shares : Figures]
    /\ i.currency = "GBp" => \A x \in {i.current, i.regular} \ {None} : x % 100 = 0

\* A submission and a hit have a date; the rule of the clause reads the primary documents
\* as their author means them.
ASSUME SignalsContents ==
  \A src \in Contents.signals :
    /\ \A k \in DOMAIN src.submissions : src.submissions[k].date \in Int
    /\ Len(src.hits) \in Nat /\ DOMAIN src.hits = 1..Len(src.hits)
    /\ \A k \in DOMAIN src.hits :
         /\ src.hits[k].date \in Int
         /\ src.hits[k].type \in GC_PRIMARY_FORMS =>
              (src.hits[k].finding <=> IF src.hits[k].doc = None THEN FALSE
                                       ELSE HasAffirmativeGoingConcern(src.hits[k].doc))

\* Under the tags of a concept the annual periods that end on one day are one period, and
\* a filing has one value for it.
ASSUME AnnualContents ==
  \A facts \in Contents.annual \ {None}, c \in DOMAIN Concepts :
    LET tags == Concepts[c]
    IN /\ Len(tags) \in Nat /\ DOMAIN tags = 1..Len(tags)
       /\ \A p \in DOMAIN tags :
            /\ Len(EntriesOf(facts, tags[p])) \in Nat
            /\ DOMAIN EntriesOf(facts, tags[p]) = 1..Len(EntriesOf(facts, tags[p]))
            /\ \A x \in Reported(facts, tags[p]) :
                 /\ x.end \in Int /\ x.filed \in Int /\ x.val # None
                 /\ \A q \in DOMAIN tags : \A y \in Reported(facts, tags[q]) :
                      x.end = y.end => x.start = y.start
                 /\ \A y \in Reported(facts, tags[p]) :
                      x.end = y.end /\ x.filed = y.filed => x.val = y.val

ASSUME HistoricalContents ==
  \A src \in Contents.historical :
    /\ Len(src.columns) \in Nat /\ DOMAIN src.columns = 1..Len(src.columns)
    /\ \A k \in DOMAIN src.columns :
         LET r == src.columns[k].revenue  n == src.columns[k].income
         IN Truthy(r) /\ n # None =>
              /\ r \in Int /\ n \in Int /\ ((100 * n) \div r) * r = 100 * n
    /\ \A k \in DOMAIN src.prices.closes :
         LET x == src.prices.closes[k]
         IN x # None => x \in Int /\ (src.prices.currency = "GBp" => x % 100 = 0)

\* An accession number names one filing.
ASSUME InsiderContents ==
  \A src \in Contents.insider :
    /\ src.since \in Int
    /\ Len(src.submissions) \in Nat /\ DOMAIN src.submissions = 1..Len(src.submissions)
    /\ \A k \in DOMAIN src.submissions :
         /\ src.submissions[k].date \in Figures
         /\ \A j \in DOMAIN src.submissions :
              src.submissions[j].id = src.submissions[k].id => j = k

\* What an earlier version left behind is refused by the version that is written into it,
\* or by what it lacks.
ASSUME LegacyIsRefused ==
  /\ \A doc \in Legacy.info \ {None} : IsUnnormalised(doc.val) \/ ~HasUsableMarketCap(doc.val)
  /\ Legacy.signals \subseteq {None} /\ Legacy.revenue \subseteq {None}
  /\ \A doc \in Legacy.annual \ {None} : doc.schema # EXTRACTION_SCHEMA
  /\ \A doc \in Legacy.historical \ {None} : doc.schema # CACHE_SCHEMA_VERSION

(***************************************************************************)
(* Time and the world.                                                     *)
(***************************************************************************)
Quiet == \A c \in Callers : call[c] = None

\* The source says something else from this day on, or only the day passes.
Tick ==
  /\ Quiet
  /\ \E t \in {t \in Instants[kind] : t > clock}, src \in Contents[kind] :
       /\ clock' = t
       /\ content' = src
       /\ said' = [x \in DOMAIN said \cup {Truth(kind, src, t)} |->
                     IF x = Truth(kind, src, t) THEN t ELSE said[x]]
  /\ answer' = None
  /\ UNCHANGED <<kind, store, call, faults, cik404, offset>>

Init ==
  /\ kind \in Kinds
  /\ clock = 0
  /\ content \in Contents[kind]
  /\ store \in Legacy[kind]
  /\ call = [c \in Callers |-> None]
  /\ answer = None
  /\ said = [x \in {Truth(kind, content, 0)} |-> 0]
  /\ faults = 0
  /\ cik404 \in IF kind = "annual" THEN BOOLEAN ELSE {FALSE}
  /\ offset \in IF kind = "revenue" THEN RevenueOffsets ELSE {0}

Step(c) ==
  \/ GetTickerInfo(c) \/ FetchTickerInfo(c) \/ SaveTickerInfo(c)
  \/ FetchAndCache(c) \/ GetSubmissions(c) \/ SearchPage(c) \/ SearchFails(c)
  \/ ReadDocument(c) \/ SaveSignals(c)
  \/ GetRevenueSeries(c) \/ FetchRevenues(c) \/ FetchRevenuesFails(c) \/ SaveRevenues(c)
  \/ ReadAnnualSeries(c) \/ GetAnnualSeries(c) \/ FetchFacts(c) \/ FetchFactsFails(c)
  \/ SaveAnnualSeries(c)
  \/ GetHistorical(c) \/ FetchHistorical(c) \/ FetchHistoricalFails(c) \/ SaveHistorical(c)
  \/ GetForm4Index(c) \/ GetForm4IndexFails(c) \/ LoadOrFetch(c) \/ SkipFiling(c)
  \/ SourceFails(c) \/ FirestoreFails(c)

Next == Tick \/ \E c \in Callers : Step(c)

Spec == Init /\ [][Next]_vars

\* A call that has begun goes on; every request has a timeout.
FairSpec == Spec /\ \A c \in Callers : WF_vars(call[c] # None /\ Step(c))

-------------------------------------------------------------------------------
InfoAgrees(val, truth) ==
  /\ truth # None /\ ~IsUnnormalised(val)
  /\ truth.price = (IF QuotedPrice(val) = None THEN 0 ELSE QuotedPrice(val))
                     * (IF val.currency \in UNRULED_MINOR_UNIT_CODES THEN 1 ELSE 100)
  /\ truth.cap = 100 * (IF HasUsableMarketCap(val) THEN ResolveMarketCap(val).cap ELSE 0)

AnnualAgrees(val, truth) ==
  IF Usable(val)
  THEN /\ truth = [c \in DOMAIN Concepts |-> val.concepts[c].values]
       /\ \A c \in DOMAIN Concepts : DOMAIN truth[c] # {}
  ELSE \E c \in DOMAIN Concepts : DOMAIN truth[c] = {}

MarginsAgree(val, truth) ==
  /\ DOMAIN val.margins \subseteq DOMAIN truth.columns
  /\ val.complete <=> Len(truth.columns) >= MIN_COMPLETE_YEARS
  /\ \A k \in DOMAIN val.margins :
       val.margins[k] # None =>
         val.margins[k] * truth.columns[k].revenue = 100 * truth.columns[k].income

\* A frame with closes has no usable ones if its currency is not known.
ClosesAgree(closes, frame) ==
  IF closes = None THEN frame.closes # <<>> /\ frame.currency = None
  ELSE /\ DOMAIN closes = {k \in DOMAIN frame.closes : frame.closes[k] # None}
       /\ \A k \in DOMAIN closes :
            (IF frame.currency = "GBp" THEN 100 ELSE 1) * closes[k] = frame.closes[k]

HistoricalAgrees(val, truth) == MarginsAgree(val, truth) /\ ClosesAgree(val.closes, truth.prices)

\* The ids of the Form 4 filings in the window.
FiledIds(src) ==
  {src.submissions[k].id :
     k \in {k \in DOMAIN src.submissions :
              LET f == src.submissions[k]
              IN IF f.date = None THEN FALSE ELSE f.form = "4" /\ src.since <= f.date}}

InsiderAgrees(val, truth) ==
  /\ val.filings \subseteq FiledIds(truth)
  /\ val.state = "empty" <=> FiledIds(truth) = {}
  /\ val.state = "ok" <=> FiledIds(truth) # {} /\ val.filings = FiledIds(truth)

\* A value the client hands out or keeps says what the source says.
Agrees(val, truth) ==
  CASE kind = "info" -> InfoAgrees(val, truth)
    [] kind = "annual" -> AnnualAgrees(val, truth)
    [] kind = "historical" -> HistoricalAgrees(val, truth)
    [] kind = "insider" -> InsiderAgrees(val, truth)
    [] OTHER -> val = truth

\* Two failures are taken for a statement and kept like one: a failed request whose message
\* holds "404" because the CIK does (cached_edgar_annual_series.py:134), for 60 days, and
\* a failed pull of prices or splits (historical_data_service.py:131), for 90 days.
Mistaken(val, truth) ==
  \/ kind = "annual" /\ cik404 /\ ~Usable(val)
  \/ kind = "historical" /\ val.closes = None /\ MarginsAgree(val, truth)

StatedOrMistaken(val, truth) == Agrees(val, truth) \/ Mistaken(val, truth)

\* The bound of a cache; a negative annual series lives shorter.
MaxAge(val) ==
  CASE kind = "info" -> 1 [] kind = "signals" -> 7 [] kind = "revenue" -> 150
    [] kind = "annual" -> IF Usable(val) THEN 460 ELSE 60
    [] kind = "historical" -> 90 [] kind = "insider" -> 1

\* Whoever asked and whatever was stored or expired before: a value that is handed out as
\* current is, in the right unit, what the source said less than a time to live ago, and
\* one handed out as stale is something it did say; but for the two failures that are
\* taken for a statement, which live as long.
AnswerIsRecent ==
  (IF answer = None THEN FALSE ELSE answer.how \in {"value", "stale"}) =>
    \E truth \in DOMAIN said :
      /\ StatedOrMistaken(answer.val, truth)
      /\ answer.how = "value" => clock - said[truth] < MaxAge(answer.val)

\* A failing call of the source or of Firestore leaves no entry behind that the source did
\* not say that very day, and what another caller has stored stands; but for the two
\* failures that are taken for a statement, and for nothing else.
FailureIsNoStatement ==
  [][store' # store =>
       \/ kind = "insider" /\ \A f \in DOMAIN store : store'[f] # store[f] => f \notin content.broken
       \/ /\ kind # "insider" /\ store'.at = clock
          /\ StatedOrMistaken(store'.val, Truth(kind, content, clock))]_vars

\* "Ein transienter Fehler wird nicht gecacht [...]: er ist eine Aussage ueber die API, nicht
\* ueber den Titel" (cached_edgar_annual_series.py:29): an annual series that is kept is
\* what the source says.
TransientFailureIsNotCached ==
  [][kind = "annual" /\ store' # store =>
       AnnualAgrees(store'.val, Truth(kind, content, clock))]_vars

\* A call that has begun ends, through all pages, candidates and retries.
CallsEnd == \A c \in Callers : call[c] # None ~> call[c] = None
===============================================================================

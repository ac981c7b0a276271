# FisherScreen: a verification project

FisherScreen looks for companies in the sense of Philip Fisher. It has two halves: a
monthly screener that runs as a Cloud Run job and pushes Markdown files to the
repository, and a deep dive on one ticker, a command line with a local start page, that
reads the company's SEC filing and pays Gemini for fifteen answers. A universe builder
feeds the first, a static viewer shows what the second has written. This directory
models them with TLA+ modules, TLC runs and TLAPS proofs. Paths below are relative to
`src/`.

## 1. Inventory

| Component | State | Operations | What makes it correct |
|---|---|---|---|
| Start page (`app/deepdive_ui/`) | slot `_current` and its lock, `<run_id>.json` files, record objects, watcher threads, tokens in memory | `POST /api/preflight`, `POST /api/runs`, `RunManager.start`, `_wait`, `_mark_orphans_failed` | one run at a time; what the history shows as running has somebody who will settle it, unless a write has failed; an outcome that is shown is that of the process; nothing starts that was not checked |
| Monthly run (`app/screener/monthly.py`, `run_tracker.py`, `prior_run.py`, `app/services/github_client.py`) | run documents in Firestore, files on `main` | check of the previous run, `start`, screening, `finish`, rendering, push, correction | "success" stands for a published set; the next run is silent only for a reason |
| Ticker resolution (`app/deepdive/adr_resolver.py`, `eu_adr_resolution.py`, `app/services/openfigi_client.py`) | `cache/adr_resolved.json` and its temporary file, ticker map per process | `resolve`, `resolve_eu_adr`, `_cache_get`, `_cache_put` | a verdict is about the issuer, never about a failed call |
| Pre-flight (`app/deepdive/preflight.py`) | none of its own | `run_preflight`, `_classify`, checks of peers | "none" blames the symbol only if the symbol is wrong |
| Command line (`app/deepdive/__main__.py`, `pipeline.py`) | filing cache, dossier file, published file, stored default peers | the six stages, publication, exit code, the peer prompt | no half filing is read; every check comes before Gemini is paid; exit code 0 means a dossier in place |
| Peers (`app/deepdive/peer_suggest.py`, `peer_preflight.py`) | Firestore's cache of titles, the stored default | suggestions, validation, prompt | no dead or wrong symbol, no nearer title left out, no peer nobody answered for |
| EDGAR client (`app/services/edgar_client.py`, `rate_limiter.py`) | ticker map, `_next_allowed` | map, annual form, filing, signals | a failure is not an empty answer |
| Screener funnel (`app/screener/runner.py`, `filters.py`, `funnel.py`, ...) | lists of records, FX memo | resolution, basis gates, EDGAR gate, funnel | every symbol is counted once; a failure is not a verdict |
| Scoring (`app/screener/deterministic_scorer.py`, `percentiles.py`, ...) | none | passes over the cohort | a missing input never pays; caps, floors and bands keep the order |
| Caches (`cached_*`, `revenue_series_cache.py`, `historical_cache.py`, `insider_cache.py`) | documents and files with a time stamp | get or fetch | nothing stale is fresh, no failure is kept as data |
| Outputs (`app/output/`) | files of the month | Dimensions, CrossHits, Changes | every title that reaches the bar stands in one place |
| Quant, valuation, insider, parser, synthesis (`app/deepdive/*`) | none | extraction and arithmetic, the rules on the fifteen points | what is green is grounded |
| Viewer (`app/viewer/`) | the site | Markdown to HTML | a page tells what the deep dive knew; no file disappears |
| Universe builder (`scripts/build_universe.py`, `apply_corrections_to_universe.py`) | `universe.json` and its provenance | sources with fall-back, symbols, corrections, both files | a whole universe is a verified one |
| Legacy scorer, stubs | none | not reached | - |

How they interact. The browser calls the start page, which asks the pre-flight in a
worker thread and issues a token; a start checks the token, awaits `RunManager.start`,
which spawns the command line, and consumes the token. A watcher thread waits for the
process. Pre-flights (in the service) and the command line (in its own process) both
resolve tickers and share nothing but the resolver's cache file. The command line turns
the exceptions of its stages into exit codes, which the start page translates into
text. The monthly run shares Firestore with itself (the document of the last run is what
the next one reads) and, through the cache of titles, with the peer suggestions, which
also read the file the universe builder writes. Deep dives put dossiers into a directory
that the viewer reads without knowing of them.

What is hard: threads that interleave with an event loop and with processes; processes
that end between two writes; a service that restarts while its child lives; pushes whose
answer is lost; failures that look like empty answers; files that are opened, which
empties them, and then written while somebody reads; and, in the half without
concurrency, a dozen lists filled on different paths that one report must account for,
and scores in which a missing figure must never be an advantage. The `hazards` of
`PROJECT.json` list them at their lines, each with the properties that are about it or
with a note why none is.

## 2. Modules

| Module | Models | |
|---|---|---|
| `RunLedger` | the run history as a reader sees it | abstract specification |
| `DeepDiveRuns` | the start page | implements `RunLedger` |
| `MonthlyRun` | the monthly run from the first read of Firestore to the last push | |
| `TickerResolution` | the resolver and its cache, many processes | |
| `IssuerNames` | the comparison of the names two sources give an issuer | EXTENDS `TickerResolution` |
| `DeepDiveCli` | pre-flights and CLI runs over the resolver | EXTENDS and implements `TickerResolution` |
| `FunnelVerdicts` | one basket per title, never changed | abstract specification |
| `ScreenerFunnel` | the screening of one month | implements `FunnelVerdicts` |
| `Scoring` | the scores of a cohort and the lists of both reports | |
| `SourceValues` | values that are absent, and what Python takes for true | shared |
| `YFinanceClient`, `EdgarSearch`, `AnnualSeries` | what the clients make of a payload | operators |
| `SourceCaches` | six caches between callers, stores and sources | EXTENDS these three |
| `AnnualForm`, `FilingSections`, `Insider`, `Quant`, `Synthesis` | what a deep dive makes of filings, Form 4, figures and the model's answer | operators |
| `DossierFile`, `ViewerPages` | what is written into a dossier, what is read back and shown | operators |
| `DossierRuns` | deep dives and builds of the site over one directory | composes the seven above |
| `UniverseFile` | the builder and its two files | |
| `PeerChoice` | pre-flights and choices of peers beside builds of the universe | EXTENDS `UniverseFile` |
| `MC*` | constants and symmetry for TLC; `MCIssuerNames` holds the names that two of them share | |
| `FiniteOrders` | sorted lists, extremes and running maxima exist | lemmas the proofs share |
| `*_proofs` | theorems and their proofs | |

### DeepDiveRuns

One handler per concurrent `POST /api/runs`; its `pc` follows the handler and, inside
it, `RunManager.start` in a worker thread (`Enter` takes the lock, `Spawn` is everything
up to and including `Popen`, `WriteRunning` the first record, `Launch` slot, watcher
and return). What the event loop does with the result takes as many steps as others can
see: `Respond` consumes the token and copies the exit code, `CopyStatus` the status
(`asdict` goes field by field, without the lock), `ReadText` makes the text of the live
record, `Send` leaves; until then the loop does nothing else (`LoopIsFree`). A watcher
sets the same record meanwhile: `WatchExit`, `WatchText`, `WatchStatus`, one field after the
other without the lock, then `WatchPersist`. So an answer may show no exit code beside an
outcome, as the code's can. Records are indexed by the process they
belong to. `Crash` loses threads, slot and tokens; `ChildrenDieWithService` says whether
the children go too (systemd) or live on (a closed console); `MarkOrphan` and `Serve` are
the sweep at the next start. Every call that can raise has its `...Fails` action.

### MonthlyRun

Runs are numbered in the order of their ids. `CheckPrior` reads the newest document,
`Start` and `Finish` write it, `Render` makes the files, `PushGet` and `PushPut` are one
attempt at one file, `PushLost` is an attempt that ends in an error that is retried, its
PUT applied or not, `Correct` is `mark_failed_after_finish`. `Kill` may come anywhere.
`Overlap` says whether a run may begin beside another; what is screened is one step here
and `ScreenerFunnel` there.

### TickerResolution

A process is one pre-flight or one CLI run: it has its own ticker map and resolves one
ticker. `Truth[t]` is what is true of a symbol; the sources answer with the truth, fail,
or answer without the data (`Blank`). `Identify` stands for the whole matching of names:
a real issuer is verified or not, never mistaken for another; `IssuerNames` checks
that of the comparison itself. There a name is its sequence of tokens, each with the
hyphen before it, and the operators are the passes of `issuer_tokens` in their order
(`WithoutForm` is one turn of the loop in `_drop_legal_forms`). What the code cannot know,
which words are the name and which were put around it, is the assumption `NameShapes`:
legal forms stand before a name; legal forms, then descriptors and classes of the listing,
then nominal values stand behind it; and a name itself neither begins nor ends with a word
of a legal form, nor ends like a listing. The cache is a function from tickers to verdicts; `CacheLoad`, `CacheWrite` and `CacheReplace` are the three
steps of `_cache_put`, and processes interleave between them. Abstracted: an entry older
than its time to live is not there (`Expire`); a temporary file is written in one step.

### DeepDiveCli

Adds to the resolver the verdict of a pre-flight (`Kind` is `_classify`) and the stages
of a run, one action for each success and one for each way out, in the order of
`run_deep_dive`. `ended` is the way a run ends, `ExitCode` the number that the start page
sees: 1 for a refused ticker or peers, and 1 as well for an exception that `main` does not
catch. The files that are written in place (filing text, dossier) have an
`Open` and a `Close` with a torn file in between. Runs follow one another, as the start
page has it; pre-flights are concurrent with them. A day is not left: a ticker has one
dossier file. The quant-only pipeline is the full one without filing and synthesis.

### ScreenerFunnel

`stage` follows `run_screener`, or `run_filter_preview` by way of `BuildPreviewFunnel`.
The first loop takes one step per title and call (`InLoop`, `Fetch`, `FetchFails`,
`FetchAgain`, `RetryFails`), since only it keeps state from title to title: the memo of
rates. The later loops treat their titles independently and are one step each: the looks
at the income statement (`AssessDefinednessBasket`, `AssessRevenueTrajectory`), the basis
gates in the order of `_get_fail_reason`, the signals (`EvaluateEdgar`) and the EDGAR
gate, the scores and the funnel. `missed` is a history variable: the calls that failed.
The scores enter as the set of titles that clear the bar, every set in turn; `Scoring`
has them in detail.

### Scoring

`pass` walks through `run_deterministic_scoring`: revenues, return on capital,
percentiles of the whole cohort, steadiness, score records; then both reports. A title's
percentile is in twenty-fourths of a percent, exact with halves for up to six values.
`ComputeSteadiness` follows the passes of the code (`Adjacent` is the window that grows
year by year, `Peak` the running maximum of the drawdown); `SteadinessByDefinition` is
written from the definition of the axis and compared with it.

### SourceCaches

One title in one of six caches; `kind` chooses which. A caller reads, fetches page by
page or filing by filing and saves, and others do the same in between; the source or
Firestore fails at each call. The clock counts days and a call takes less than a day:
`Tick` comes only when nobody is in a call, and with it the source may come to say
something else. `said` is a history variable: on which day the source last said a thing.
`Contents` are payloads with the traps the clients are written for (prices in pence, a
market cap of 0, a change of tags, restated years, years that end in January, negated
doubts); `Truth` says what a payload means without the code's passes. Each kind has its own
`...Agrees` of a value with the truth; what the code keeps of two failing calls agrees with
nothing and has a name of its own, `Mistaken`. The calendar of the
annual series has 365 days a year. What the code walks as a list and leaves early is here a
set with its least member: the candidates left of a page, the Form 4 filings left of an
index, the entries of a concept, of which each has its tag's priority and its place in the
document (`Chosen`, `Held`). Weekly closes are a function on the weeks that have one.

### DossierRuns

A deep dive resolves its issuer once, with the day it starts on, gathers, asks, takes the
answer, opens its file and writes it, whole or torn
after some chunks; an `Input` is what one run meets, and `IsInput` says which shapes that
can have. The viewer reads the directory twice,
file by file (`ReadFile`, then `CheckFile` over a second listing), and generates the site.
Beside each file the model keeps the record its run held in memory, which no reader sees:
the properties compare a page with it. Text is reduced to what rules read: a point is
number, rating, confidence, citations and whether it was cut; a section is its item,
whether it was cut and whether it begins with its heading. The transactions of the Form 4
are a function of form and row, since the summary asks for no order.

### UniverseFile and PeerChoice

A script goes through `Fetch`, `OpenUniverse`, `WriteUniverse`, `OpenProvenance` and
`WriteProvenance`, and can stop in between; the correction script shares the writes. A
symbol is base, class and venue, so that normalisation is what it does to these three.
In `PeerChoice` one session at a time, a pre-flight or a choice of peers, reads the
universe, the titles by industry and by sector in separate steps, while the files and the
cache of titles change beneath it. `answered` and `stated` are history variables: what
Yahoo has confirmed and what the user has stated.

## 3. Runs

| Run | Expects | Question |
|---|---|---|
| `deepdive` | pass | two requests, two processes, a failing write or thread start, a restart that the children outlive: who holds the slot, who settles a run, what is the user shown |
| `deepdive_token_race` | violation | is a token single-use when two requests carry it |
| `monthly` | pass | three runs over two months, three failing calls, kills: what do "success" and silence stand for |
| `monthly_overlap` | violation | does a document left at "running" prove that its run died, with a second run beside it |
| `resolution_poisoned` | violation | is a verdict never about a failed call |
| `cli` | pass | a pre-flight and two runs over four kinds of symbol, a failing call in the resolution and one after it, kills, expiring entries, races for the cache of verdicts: what do verdicts, files, dossier and exit code say; fourteen names of issuers in thirty-nine dressings |
| `funnel` | pass | two titles over every payload, statement, failing call and rate: is each decided once, and accounted for once |
| `scoring` | pass | every cohort of three out of fifteen profiles: does a missing or worse figure ever pay, and where does a title stand in the report |
| `sources` | pass | six caches, two callers, two failing calls: is an answer what the source said within its bound, and does every call end |
| `sources_404` | violation | is a transient failure never cached, for an issuer with 404 in its CIK |
| `dossier` | pass | two deep dives and a build of the site: is green grounded, does a page tell the record, is every file accounted for |
| `peers` | pass | a build of the universe beside pre-flights and choices of peers: whom can they end with |

The violations are disagreements between the code and what its comments promise; the
`findings` of `PROJECT.json` quote both. Beside each, a passing run or a theorem holds what
the code does keep: `TokensAreSingleUseInTurn` (requests that do not overlap),
`SilentOnlyAfterSuccess`, `WrongOnlyIfBlind` beside `VerdictIsAboutIssuer`,
`FailureIsNoStatement` beside `TransientFailureIsNotCached`. Some properties of passing
runs carry an exception by name, because the code has it:

* `TrackedProcessHoldsSlot` speaks of tracked processes: a first record that cannot be
  written leaves an untracked one beside the next.
* `RunningFileIsWatched` and `RunsAreSettled` name the dead slot: when the watcher's last
  write or the start of its thread fails, the slot stays taken, every start is refused and
  the file says "running" until the service is started again. The first says that only
  such a failure leads there and that a restart leaves no such file, the second that every
  other run is settled.
* `SilentOnlyAfterSuccess` names the three ways in which a run fails and the next one does
  not say so: killed or uncorrected after `finish()`, where "success" stays behind; or ended
  before it had a document, for which the next run looks at an older one or at none.
* `PaidRunIsNotRefused` names the exception that `main` does not catch: it exits with 1, and
  the start page calls that "Ticker/Peers nicht auflösbar".
* `AnswerIsRecent` and `FailureIsNoStatement` name the two failures of `Mistaken`.
* `OutageIsNoVerdict` speaks of the calls in `missed`. A failed FX call is not one of them:
  it diverts its title before any gate. A title whose trajectory was lost and whom the EDGAR
  gate then drops has the verdict of that gate, which the property leaves to it.
* `UniverseIsVerified` speaks of a universe file that can be read back; of a torn one
  nobody gets a list (`LoadTornUniverse`).

`ScreenerFunnel` checks the income statement of each title on
its own; that a failed load of the ticker map blinds all titles at once is in
`TickerResolution` alone. There the line of a US issuer is taken to be in the SEC's map if
it files at all, and the window of filings that `app/services/edgar_client.py:489` reads is
taken to reach its last annual form. `OneSectionPerTitle` is about the table and the
sections of near misses; the list in the front matter is not modelled.

Bounds. Every bound is a constant named `Max...` and appears in a guard.

* Two handlers and two processes are what the slot, the lock and the token need to be
  fought over; a third waits like the second. Both tokens ask for an acknowledgement, so
  that a request can carry it or not. One restart is enough for an orphan and a
  successor; one fault shows each failing write in every state.
* Three monthly runs give one run with a predecessor and a successor; three faults let
  both attempts at a file fail and the correction after them.
* In `cli` the pre-flight and a run race for the cache of verdicts and a second run reads
  what they left; the four symbols are an EU issuer that files, two US symbols with other
  answers and one of the override table. `resolution_poisoned` has one process and six
  symbols. The names are those
  the comments of the matcher quote, with neighbours that differ in one word or letter; a
  class word never stands directly behind a single letter of a name, where it makes the
  letter a class by design. Two runs are also one that
  leaves torn files and one that finds them. `MaxFaults` counts failing calls, never
  kills, which are unbounded.
* Two titles in `funnel` share the memo of rates and fill a sector of two, which can be
  flagged; thirteen payloads reach each gate, on and beside its threshold. What concerns
  one title alone needs no second, and the proofs are for every universe.
* A cohort of three in `scoring` has a sector pool above and below `MinSectorN` = 2, a
  median, ties, and a report cut at one title.
* In `sources` two callers and two faults meet in each cache; the days are those around
  its bounds, with the offset at both ends.
* In `dossier` the first run meets each kind of input once, the second is plain and may
  replace or stand beside it; a file is torn within its figures or before its coverage, and
  two dossiers of one ticker have no page.
* In `peers` the universe is built once, then corrected or torn, the titles are refreshed
  once, and six requests use filled, empty, repeated and dead slots.

Deadlock is checked in `peers` and switched off elsewhere, because those systems may
stop: when the bounds are used up, when the month is reported, or when nobody asks.

Fairness. `deepdive`, for `RunsAreSettled`: the thread that holds or waits for the lock,
a watcher whose process has ended and the sweep at start are threads that the operating
system runs; that a CLI process ends is an assumption about the services it calls (EDGAR,
OpenFIGI and GitHub calls have timeouts and bounded retries, the Gemini client sets
none). No request ever has to come, nothing forces a crash. `sources`, for `CallsEnd`: a
call that has begun goes on, since it is one thread and each request has a timeout;
nothing says that a call begins or that time passes.

## 4. Proofs

The theorems hold for all values of the constants under the named assumptions
(`ConstantsOK`, `MonthlyConstants`, `ResolutionConstants`, `CliConstants`,
`FunnelConstants`, `ScoringConstants`, `ProfileFigures`, `UniverseConstants`,
`SourceLists`, `PeerConstants`, `FactsOfTitles`, `FirstPeersWereChosen`, `RunsConstants`,
`NoneIsNoValue`, `SourcesOfInputs`, `EarlierDossiers`, `CachesConstants`, `InfoContents`,
`SignalsContents`, `AnnualContents`, `HistoricalContents`, `InsiderContents`,
`LegacyIsRefused`, `NameShapes`): any number of
requests, processes, tokens, months, files, attempts, faults, restarts, titles, deep dives;
any figures, statements, filings, sources and answers. From `ProfileFigures` on they say
which shapes a payload, a list, a symbol or an input of a deep dive can have, and that what
lies there at first (the peers of the day before, the earlier dossiers) was made like what
follows. `SourcesOfInputs` has two clauses that are more than
shapes: a fetch of insiders that says "ok" or "partial" has parsed a form, which the code
before it sees to (`app/deepdive/insider_cache.py:64`); and the stored and the live answer
name the same currency of a listing, so that a price history in another currency than the
statements has no multiples. The second is a fact about Yahoo, not about the code: if the
two named different ones, the code could compare figures with past multiples of another
currency. Of the sources of the caches the assumptions say, beyond shapes: figures are
written in a unit in which the code's divisions, which are those of floats, leave no rest; a
primary document is worded as the rule of the clause reads it (the rule is a heuristic,
`app/services/edgar_client.py:261`, and whether a filing is worded so is not a matter of the
code); the annual periods that end on one day under the tags of a concept are one period,
and one filing has one value for it; an accession number names one filing.
`NameShapes` says which words of a title are the name and which were put around it, and that
a bare name ends in no legal form. `LegacyIsRefused` says that what an earlier version left
lacks what the version check of its cache asks for, which is why those checks were written;
the caches without a check hold nothing of an earlier version. TLC evaluates each assumption
on the instance of its run.

* `DeepDiveRuns_proofs`. The inductive invariant `IInv` adds to the types what the lock
  protects (`HandlerInv`: between `Enter` and `Launch` a handler holds the lock and the
  slot is empty), what a watcher has done to its record (`WatchInv`, `RecordInv`), who
  owns a "running" file (`SlotInv`, `FilesInv`). From it: `TypeCorrect`,
  `OneTrackedRun`, `RunningFilesAreWatched`, `OutcomesAreTrue`, `NothingStartsUnchecked`, the
  step properties `TokenOutlivesFailures` and `FilesImplementLedger` (the refinement of
  `RunLedger`), and, without faults and with children that die with the service,
  `OneRunWithoutFaults`. The invariant is needed because none of these is inductive: a
  "running" file has its watcher only because nobody else can be between `Spawn` and
  `Launch`, and what an answer holds halfway (`AnswerInv`) is true of its process only
  because a watcher sets exit code, text and status in this order.
  `TokensAreSingleUseInTurn` has an invariant of its own (`TokenInv`: a token that has
  started a run is gone, or its one handler is about to consume it): with requests that do
  not overlap a token starts one run, faults and restarts included, so the second request
  is all the token race needs.
* `MonthlyJob_proofs`, the job that runs once a month: its run and the scores it computes.
  Of the run, types and `RetryIsIdempotent` hold for overlapping runs too;
  `SuccessMeansPublished` and `SilenceIsEarned` need `Overlap = FALSE` and an invariant that says that the working run is the newest one, that documents
  agree with `pc`, and that files before `next` are on main. Of the
  scores: `CohortInv` says that each pass has written what it computes of the statements
  and that no later one changed it, so that a comparison of two titles becomes one of their
  figures. `WithholdingNeverPays` then is monotonicity, axis by axis: of a percentile in
  the figure (`PercentileIsMonotone`: the titles below and the ties of a better figure
  include those of a worse one, by cardinalities of subsets, division with halves
  included), of the points in the percentiles, of the cap in the dips and of the band in
  the leverage. `SteadinessInv` with `SteadinessIsDefined` gives `SentinelIsNoMeasurement`
  for any series: the window that the code walks back is the longest run of years up to
  ten (`WindowIsWindow`), the drawdown it accumulates is the largest fall from an earlier
  peak (`DrawdownIsLargestFall`). `ReportInv` gives `OneSectionPerTitle`: the sort key is
  a strict order (`RankIsOrder`), so a list of a section has each of its titles once, best
  first, and the sections are disjoint by their conditions.
* `DeepDiveCli_proofs`. First of the comparison of names: `IssuersAreUnmistakable`, for
  any issuers and additions of the assumed shapes. What tells the listing goes up to the
  last word in front of it (`NominalTailGoes`, `ListingGoes`). Then a pass over the legal
  forms takes the first form of the list that stands at an end, and must not take a part
  of the name or leave one of a form. Call a cut a place where one of the forms around the
  name begins or ends; every pass moves an end from one cut to another (`EndIsAForm`,
  `StartIsAForm`, `OneFormLess`). In front that follows from the order of the list, longest
  first, and from no form beginning with another (`FormsAreTold`). Behind it does not quite:
  PUBLIC LIMITED COMPANY ends with COMPANY, and the words PUBLIC LIMITED in front of a
  COMPANY must not be a name and a form; they are not, since a name ends with no word of a
  form and no form ends with PUBLIC. As many passes as there are words then leave the name
  alone (`OnlyFormsGo`, by induction over the passes). `OnlyTheIssuerIsTaken` joins that with
  `AskedInv`: a process goes on only for a dotted symbol, whose names are of issuers.
  Then of the resolution: `VerdictsAreTrue` needs more than the
  property, since every place
  a verdict can be on its way (`verdict`, `copy`, the temporary file, the cache) holds
  only what may be said of its ticker (`SaidInv`), and what may be said never shrinks
  (`SayableStays`). That is why the races for the cache file, real as they are, cannot
  make a verdict false. `AskedInv` ties the stage of a process to the truth it has seen.
  At last of the command line: every step of it is a step of the resolution or
  leaves it alone (`CliImplementsResolution`), so `CliVerdictsAreTrue` follows, and with it
  an answer, once given, never changes (`AnswerStays`). On that rests `CliInv`: how far a
  run is says what it holds and what it has left in the files (`RunOK`: the entry of the
  filing cache is gone before the text is touched, a paid run is past the peers), one run
  is active, a fresh entry names a whole text, a dossier is that of a run that got as far
  (`DossierOK`). From it: `CliTypeCorrect`, `PreflightBlamesRightly`, `FilesAreWhole`,
  `PaidRunsAreNotRefused`, `ExitsTellTheDossier` and, together with the truth of the
  verdicts, `DossierKindsAreTrue`.
* `ScreenerFunnel_proofs`. `FunnelInv`: the lists of the resolution and what the loop has
  not reached divide the universe (`Divided`), a resolved record carries what the gates
  read and its rate stays known (`Priced`), only who passed one gate has a verdict of the
  next (`Gated`), who was not skipped was answered twice (`Answered`). From it
  `NoTitleIsLost`, `TableAddsUp` (with the cardinalities of the lists as disjoint unions),
  `PassThroughsAreListed`, `VolumeGateComputes` and `CohortIsExact`. `OutageInv` adds that
  a failed call leaves its mark in the record, which no later step takes away, and that a
  reason to drop is what the fields of the record give: `FailureIsNoVerdict`.
  `FunnelDecidesOnce` is the refinement of `FunnelVerdicts`: every step maps to a step
  that touches undecided titles only, or to a stutter.
* `PeerChoice_proofs`. `UniverseInv`: what the script holds between two writes is a clean
  and complete list, and a file is that, empty or torn. From it `UniverseIsVerified`.
  `ChoiceInv`: what is remembered of an attempt (list, reason, the default beside it) is
  of symbols that were answered for; from it `PeersAreEstablished`. `CacheInv` and
  `PreflightInv`: a pre-flight holds the beginning of the sorted candidates of its query
  (`PickedFrom`), first by industry and then by sector; that no nearer title is left out
  is then a fact about such beginnings, whatever became of the files in between:
  `SuggestionsAreHonest`.
* `DossierRuns_proofs`. `NothingDisappears` rests on `ReadInv`: it says of each file that
  was there when the build began and that nobody touched where the build has got with it
  (still to be read, no dossier, or behind one of its ticker that is as new), and that a
  dossier that was found says what its file said. A deep dive's step changes one file and
  marks it as touched (`OtherFilesStay`); the last step of the build then accounts for
  each (`SiteAccounts`). The two properties of pages are about data that goes a long way,
  and `IInv` says of each station what the next needs: a run holds what its input gives
  (`RunInv`), a record that is finished is `WellMade`, every file is empty or an excerpt of
  the dossier of such a record (`FilesInv`; torn files are excerpts), every dossier found
  and every page already is right (`FoundInv`, `SiteInv`). Two lemmas carry it: a record
  made of any input is well made (`RecordOfFiler`, `RecordOfNoFiler`), which is where the
  rules of the synthesis (`GreenPoint`), the flags of sections (`FlagsOfFiling`), the
  baskets of transactions (`EveryTransactionCounts`) and the currencies are; and a page of
  an excerpt of a dossier tells the record (`PageOfDossier`), which is the round trip of
  writing, tearing, parsing and rendering.
* `SourceCaches_proofs`. `CachesInv`: the source's word of today is among what it said
  (`WorldOK`); an entry is one of an earlier version or agrees with something said since it
  was written, and an annual one does not outlive its kind (`KeptRight`); a call that is
  about to save holds what the source says today, one that searches has passed no
  affirmative document and still has every one of its page before it (`SearchOK`,
  `DocumentOK`), one that reads Form 4 filings has parsed filings of the window only
  (`FilingsOK`). The last part is what the properties lack to be inductive: an answer is
  right because the save was, and the save because the source does not change while a call
  runs. It is kept by each cache's steps (`InfoKept` to `InsiderKept`), whose one hard fact
  each is about the payload: `InfoIsRight`, `SignalsAreRight`, `AnnualIsRight`,
  `HistoricalIsRight`, `CoverageIsRight`. The annual series needs most: the entry that
  survives the merge of the tags is the latest report under the first tag that has the
  period (`WinnerSaysTruth`), and of the periods with one label the two comparisons with
  the anchor leave the one that ends where the fiscal year does (`FirstTwoDecide`,
  `HeldIsEndOfYear`). From the invariant: `AnswersAreRecent` and, step by step,
  `FailuresAreNoStatements`.
* `FiniteOrders`. A finite set with a strict order has a sorted list (`SortedListExists`),
  a finite set of numbers has extremes, a running maximum is the greatest value so far.
  Where the model CHOOSEs a list, these say that there is one.

Two forms recur. Induction is over a set: the numbers for which a statement holds contain
0 and with each number the next one, hence all (`NumbersInduction`), since an induction
theorem with an operator as its parameter cannot be instantiated. And what a recursive
function computes is found by showing a function that satisfies its equation
(`BackSteps`, `RunningExists`), so that CHOOSE, which it stands for, has a witness.

Each inductive invariant was checked with TLC on the instance of its run; for that of
`DossierRuns` the places of an excerpt were tried in the order they stand in, since TLC
cannot look through all of them.

Model-checked only:

* Liveness (`RunsAreSettled`, `CallsEnd`), which needs fairness and ENABLED, out of the
  prover's reach.
* Whether the names two sources really give have the shapes of `NameShapes`: TLC evaluates
  it for the names of the run. For all names `OnlyTheIssuerCounts` is not true, since two
  issuers may differ in a legal form only, or one may be called after a share class.

No module here has a RECURSIVE operator.

## 5. What the checks show

* The start page keeps its promises about records and history under every fault that was
  modelled; "one run at a time" holds for the processes it tracks. It can lose track of
  one when the first record cannot be written, two requests can start two runs with
  one token, and a last write that fails blocks the slot until a restart. The answer to a
  start may lack the exit code of an outcome it shows, and its text never.
* The document of a monthly run can be believed unless the run dies between `finish()`
  and its last push. Retrying a push is safe. A run that ends before it has a document is
  not seen by the next one. When runs overlap, the next one may say of a run that lives that
  it has died, against what the comments promise.
* A wrong verdict on an issuer needs one of two things: a ticker map that could not be
  loaded, or an answer with status 200 that lacks its data. Neither a crash nor a race
  for the cache file can make one, though the race can end a run (`_cache_put` may raise).
  Nor can the comparison of names: legal forms, classes and listing words are forgiven at
  the ends of a name, and nothing is forgiven inside it.
* Every check of a deep dive comes before its paid call, and a published or cached file is
  whole. An answer of another shape or a write that fails after the payment ends the run by
  an exception, whose exit code 1 the start page shows as "Ticker/Peers nicht auflösbar".
* The funnel loses no title and counts none twice, whatever fails; a failed call diverts a
  title or lets it pass as unchecked, and never drops it on its figures. A title whose one
  signal was found before the other one failed passes as unchecked and is listed as such.
* No missing input lifts a title above neutral or above one that is as good in every input
  of the axis; the sentinel of the steadiness and a measured 3.0 are kept apart.
* What a cache hands out is what the source said within the bound, but for two failures that
  are kept as data: a missing price series, and a failed request for an issuer with 404 in
  its CIK, which a comment excludes.
* A green light rests on a section that was sent and begins with its heading, and on
  filings that were read; the exceptions (numbers given as a text, markers that close the
  reasoning) are named in the property.
* The viewer loses no file that lay there when a build began and that nobody touched. One
  that is finished while the build is between its two listings waits for the next build.
* A whole universe holds no symbol known to be wrong and none that no source lists; a
  suggestion may be of a universe or a cached title that has just been replaced, but of
  one that existed.

## 6. Plan

Done, in this order: `RunLedger`, `DeepDiveRuns`, `MonthlyRun`, `TickerResolution`,
`DeepDiveCli`, `ScreenerFunnel`, `Scoring`, `SourceCaches`, `DossierRuns`, `UniverseFile`
and `PeerChoice` with the modules they use; a theorem for every safety and action property
that a run checks. Next:

1. Start page and command line composed, with concurrent runs and the acknowledgement of a
   quant-only dossier.
2. The ladder of symbols and exchanges that `find_home_identity` asks in turn, and the
   choice of the US line, as operators.
3. The EDGAR client inside the funnel, so that one failed ticker map is one failure for
   all titles.

## 7. Not modelled

Layout, wording, HTML, styles and charts; the text of filings beyond items, headings and
links; float arithmetic (ratios are rounded down to hundredths or basis points); the GET
routes of the start page, which read only; the legacy Gemini scorer, which no run
reaches; the stubs; the dry run; two command lines at once; the time between calls that
the rate limiter keeps; the Changes file, since the container holds no earlier month to
compare with; the scraping of web tables and the HTTP and pandas plumbing of the clients.
`PROJECT.json` gives the reason for each component, and a note for each hazard that no
property covers.

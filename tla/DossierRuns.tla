------------------------------ MODULE DossierRuns ------------------------------
(***************************************************************************)
(* Deep dives write dossiers into a directory, and the viewer builds its   *)
(* site from what it finds there, without knowing of each other: a file    *)
(* can be opened, written, torn or replaced between any two reads.         *)
(*                                                                         *)
(* A deep dive takes the steps of deepdive/pipeline.py.  The viewer reads  *)
(* the directory twice, once for the dossiers and once for what became     *)
(* none, and then writes the site, which nobody else reads or writes.      *)
(***************************************************************************)
EXTENDS ViewerPages, AnnualForm

CONSTANTS
  InitialFiles,   \* what lies in the directory: name -> [file, record]
  Inputs,         \* Inputs[n]: what the n-th deep dive can meet
  Cuts,           \* after how many chunks a file can be torn
  Unwritable,     \* tickers that are no file name of the site
  LastDay,        \* bound of the clock
  MaxBuilds       \* bound of the builds

ASSUME RunsConstants == LastDay \in Nat /\ MaxBuilds \in Nat /\ Cuts \subseteq Nat

\* What is not there is no figure and no section.
ASSUME NoneIsNoValue ==
  /\ None \notin Int
  /\ None \notin [blocks : SUBSET Nat, opening : SUBSET (Nat \X STRING), truncated : BOOLEAN]

(***************************************************************************)
(* What the sources can give a deep dive.                                  *)
(***************************************************************************)
Items == (Nat \X STRING) \cup {None}
FilingBlock == [heading : Items, dotted : BOOLEAN, mention : Items, anchor : {"id", "name", None},
                linked : BOOLEAN, empty : BOOLEAN, long : BOOLEAN]
SourceMarker == [kind : STRING, form : STRING \cup {None}, item : Items]
RawPoint == [number : Int, text : BOOLEAN, rating : Int, confidence : STRING,
             sources : Seq(SourceMarker), words : {"short", "sentences", "endless"},
             tail : Seq(SourceMarker)]
TableRow == [derivative : BOOLEAN, code : STRING, shares : Int \cup {None},
                price : Int \cup {None}, side : STRING, after : Int \cup {None}, holding : STRING]

\* A form that was parsed was fetched (insider_cache.py:64), and a history is of the currency
\* of the listing, which does not depend on who asks for it.
IsInput(input) ==
  /\ IF input.submissions = None THEN input.unidentified \in DOMAIN INSIDER_STATE_BY_REASON
     ELSE input.submissions \in Seq([form : STRING, date : Int \cup {None}])
  /\ input.doc \in Seq(FilingBlock)
  /\ input.answer \in Seq(RawPoint)
  /\ input.fetched # None =>
       /\ \A k \in DOMAIN input.fetched.forms : input.fetched.forms[k].rows \in Seq(TableRow)
       /\ DOMAIN input.fetched.forms = 1..Len(input.fetched.forms)
       /\ Len(input.fetched.forms) \in Nat
       /\ input.fetched.state \in {"ok", "partial", "fetch_failed", "empty"}
       /\ input.fetched.state \in {"ok", "partial"} => Len(input.fetched.forms) > 0
  /\ LET listing == BuildQuantSnapshot(input.cached, input.live, input.raw, input.forward).pit.currency
     IN listing # None /\ input.raw.currency # None /\ listing # input.raw.currency =>
          \A m \in {"pe", "evEbit", "fcfYield"} :
             input.raw.history[m].status \in {"skipped_fx", "na_data"}

ASSUME SourcesOfInputs ==
  Len(Inputs) \in Nat /\ \A n \in 1..Len(Inputs) : \A input \in Inputs[n] : IsInput(input)

VARIABLES
  today,
  run,      \* the deep dive: [at, input, ...], or None
  runs,     \* deep dives begun
  files,    \* the directory; the record beside a file is what its deep dive knew
  build,    \* the viewer's build: [at, todo, found, ...], or Idle
  builds,   \* builds begun
  site      \* pages by ticker, and the rows and notices of the overview

vars == <<today, run, runs, files, build, builds, site>>
viewer == <<build, builds, site>>

Name(ticker, day) == <<ticker, day>>
Idle == [at |-> "idle"]
NoSite == [pages |-> <<>>, rows |-> {}, notices |-> {}]

Init ==
  /\ today = 0
  /\ run = None /\ runs = 0
  /\ files = InitialFiles
  /\ build = Idle /\ builds = 0
  /\ site = NoSite

(***************************************************************************)
(* A deep dive.                                                            *)
(***************************************************************************)
\* What a ticker resolves to: an annual form of the issuer and the day its filing has,
\* or the reason that there is none.  The submissions of an unknown issuer are None.
Issuer(input) ==
  LET form == IF input.submissions = None THEN None ELSE DetectAnnualForm(input.submissions, today)
  IN [form |-> form,
      reason |-> IF form # None THEN None
                 ELSE IF input.submissions = None THEN input.unidentified ELSE "no_annual_form",
      filed |-> IF form = None THEN None
                ELSE input.submissions[LatestAnnualFiling(input.submissions, form)].date]

StartRun(input) ==
  /\ run = None /\ runs < Len(Inputs)
  /\ input \in Inputs[runs + 1]
  /\ run' = [at |-> "sources", input |-> input, issuer |-> Issuer(input)]
  /\ runs' = runs + 1
  /\ UNCHANGED <<today, files, viewer>>

Peers(input) ==
  IF input.peers = None THEN None
  ELSE [k \in DOMAIN input.peers |-> PeerFromInfo(input.peers[k].ticker, input.peers[k].info)]

QuantOf(input) ==
  [BuildQuantSnapshot(input.cached, input.live, input.raw, input.forward) EXCEPT !.peers = Peers(input)]

Record(input, issuer, parsed, points, summary, sent) ==
  [ticker |-> input.ticker, form |-> issuer.form, reason |-> issuer.reason,
   filingDate |-> issuer.filed, quantDate |-> today,
   flags |-> [item \in DOMAIN parsed |-> parsed[item].flag], quant |-> QuantOf(input),
   insider |-> summary, points |-> points, sent |-> sent, answer |-> input.answer,
   currencies |-> {input.raw.currency, QuantOf(input).pit.currency}]

\* Without a filing there is no synthesis; the reason decides what is said of insiders.
QuantOnlyDossier ==
  /\ run # None /\ run.at = "sources" /\ run.issuer.form = None
  /\ run' = [at |-> "record",
             record |-> Record(run.input, run.issuer, <<>>, <<>>,
                               InsiderSummary(INSIDER_STATE_BY_REASON[run.issuer.reason]), <<>>)]
  /\ UNCHANGED <<today, runs, files, viewer>>

DaysSince(filed) == IF filed = None THEN None ELSE today - filed

\* The filing, the insiders, the sections, the figures and the prompt.
GatherAndAsk ==
  /\ run # None /\ run.at = "sources" /\ run.issuer.form # None
  /\ LET parsed == ParseFiling(run.input.doc, run.issuer.form)
         summary == BuildInsiderSummary(run.issuer.form, run.input.skip, run.input.fetched)
     IN run' = [at |-> "answer", input |-> run.input, issuer |-> run.issuer,
                parsed |-> parsed, summary |-> summary,
                prompt |-> BuildUserPrompt(SectionsOf(parsed), DaysSince(run.issuer.filed), summary)]
  /\ UNCHANGED <<today, runs, files, viewer>>

\* A source, a stop from outside or, later, the contract of the answer ends the deep dive.
RunEnds ==
  /\ run # None /\ run.at \in {"sources", "answer", "record"}
  /\ run' = None
  /\ UNCHANGED <<today, runs, files, viewer>>

\* The age of the filing is counted again, after the call.
TakeAnswer ==
  /\ run # None /\ run.at = "answer"
  /\ LET sections == SectionsOf(run.parsed)
         points == RunSynthesis(run.input.answer, sections, DaysSince(run.issuer.filed), run.summary)
         record == Record(run.input, run.issuer, run.parsed, points, run.summary, sections)
     IN /\ points # None
        /\ NoSecSourceBiconditional(record)
        /\ run' = [at |-> "record", record |-> record]
  /\ UNCHANGED <<today, runs, files, viewer>>

Touch(name) == build' = IF build.at = "idle" THEN build
                        ELSE [build EXCEPT !.touched = @ \cup {name}]

\* The file is named by ticker and day; what another run of the day wrote is gone.
OpenFile ==
  /\ run # None /\ run.at = "record"
  /\ LET name == Name(run.record.ticker, today)
         new == [file |-> EmptyFile, record |-> run.record]
     IN /\ files' = [f \in DOMAIN files \cup {name} |-> IF f = name THEN new ELSE files[f]]
        /\ run' = [at |-> "open", name |-> name, record |-> run.record,
                   file |-> GenerateDossier(run.record, today)]
        /\ Touch(name)
  /\ UNCHANGED <<today, runs, builds, site>>

Write(file) ==
  /\ files' = [files EXCEPT ![run.name] = [file |-> file, record |-> run.record]]
  /\ Touch(run.name)
  /\ run' = None
  /\ UNCHANGED <<today, runs, builds, site>>

WriteFile == run # None /\ run.at = "open" /\ Write(run.file)

\* A stop or a full disk: nothing is there, or the front matter and some of the body.
WriteTorn ==
  /\ run # None /\ run.at = "open"
  /\ \/ Write(EmptyFile)
     \/ \E k \in Cuts : k < Len(run.file.body) /\ Write(TornAt(run.file, k))

Tick ==
  /\ today < LastDay
  /\ today' = today + 1
  /\ UNCHANGED <<run, runs, files, viewer>>

(***************************************************************************)
(* A build of the viewer.                                                  *)
(***************************************************************************)
StartBuild ==
  /\ build.at = "idle" /\ builds < MaxBuilds
  /\ build' = [at |-> "read", todo |-> DOMAIN files, found |-> {}, skipped |-> {},
               before |-> files, touched |-> {}]
  /\ builds' = builds + 1
  /\ UNCHANGED <<today, run, runs, files, site>>

Parsed(name) == ParseDossier(files[name].file)
Found(name) == [name |-> name, dossier |-> Parsed(name), record |-> files[name].record]

\* Of two dossiers of a ticker the newer; the first that was read when both are as new.
Newest(found, new) ==
  LET same == {d \in found : d.dossier.front.ticker = new.dossier.front.ticker}
  IN IF \A d \in same : new.dossier.front.at > d.dossier.front.at
     THEN (found \ same) \cup {new} ELSE found

ReadFile ==
  /\ build.at = "read" /\ build.todo # {}
  /\ LET name == CHOOSE f \in build.todo : TRUE
     IN build' = [build EXCEPT !.todo = @ \ {name},
                               !.found = IF Parsed(name) = None THEN @ ELSE Newest(@, Found(name))]
  /\ UNCHANGED <<today, run, runs, files, builds, site>>

\* The directory is listed again.
ListAgain ==
  /\ build.at = "read" /\ build.todo = {}
  /\ build' = [build EXCEPT !.at = "check", !.todo = DOMAIN files \ {d.name : d \in build.found}]
  /\ UNCHANGED <<today, run, runs, files, builds, site>>

\* What is no page is read once more; only what is no dossier counts as skipped.
CheckFile ==
  /\ build.at = "check" /\ build.todo # {}
  /\ LET name == CHOOSE f \in build.todo : TRUE
     IN build' = [build EXCEPT !.todo = @ \ {name},
                               !.skipped = IF Parsed(name) = None THEN @ \cup {name} ELSE @]
  /\ UNCHANGED <<today, run, runs, files, builds, site>>

IsWritable(d) == d.dossier.front.ticker \notin Unwritable

\* Mutant: a dossier without a page is left out without a word.
UnwritableNotices_None(found) == {}

UnwritableNotices(found) == {d.name : d \in {e \in found : ~IsWritable(e)}}

\* A page, and beside it what the deep dive knew and whether its file is whole.
Page(d) == [page |-> RenderDetail(d.dossier), record |-> d.record,
            whole |-> d.dossier.coverage # None]

\* Pages of earlier builds stay.
GenerateSite ==
  /\ build.at = "check" /\ build.todo = {}
  /\ LET renderable == {d \in build.found : IsWritable(d)}
         twins == DuplicateNames({d.dossier : d \in renderable})
         Of(ticker) == CHOOSE d \in renderable : d.dossier.front.ticker = ticker
         tickers == {d.dossier.front.ticker : d \in renderable}
     IN site' = [pages |-> [t \in DOMAIN site.pages \cup tickers |->
                   IF t \in tickers THEN Page(Of(t)) ELSE site.pages[t]],
                 rows |-> {[name |-> d.name, at |-> d.dossier.front.at,
                            row |-> BuildOverviewRow(d.dossier, twins)] : d \in renderable},
                 notices |-> build.skipped \cup UnwritableNotices(build.found)]
  /\ build' = Idle
  /\ UNCHANGED <<today, run, runs, files, builds>>

Next ==
  \/ (runs < Len(Inputs) /\ \E input \in Inputs[runs + 1] : StartRun(input))
  \/ QuantOnlyDossier \/ GatherAndAsk \/ TakeAnswer \/ RunEnds
  \/ OpenFile \/ WriteFile \/ WriteTorn \/ Tick
  \/ StartBuild \/ ReadFile \/ ListAgain \/ CheckFile \/ GenerateSite

Spec == Init /\ [][Next]_vars

(***************************************************************************)
(* Properties.                                                             *)
(***************************************************************************)
\* The points of the record with a number, and whether a card shows one of them: behind the
\* markers its reasoning ends with stand its sources.
Numbered(record, n) == {k \in DOMAIN record.points : record.points[k].number = n}
IsCardOf(card, p) ==
  card.stars = p.rating /\ card.dot = p.confidence /\ card.sources = p.tail \o p.sources

\* The model gave this number as a text, which the rules for numbers do not see.
AsText(record, n) == \E k \in DOMAIN record.answer : record.answer[k].number = n /\ record.answer[k].text

\* A cite that was checked names a section that was sent, or its paragraph, and that
\* section begins with its heading.
IsGrounded(source, sent) ==
  source.kind = "section" =>
    \E key \in {source.item, Item(source.item[1])} : key \in DOMAIN sent /\ key \in sent[key].opening

\* What a point needs to be green.
CodeGrounds(record, p) ==
  /\ \E i \in DOMAIN p.sources : p.sources[i].kind # "inference"
  /\ \A i \in DOMAIN p.sources : IsGrounded(p.sources[i], record.sent)
  /\ \/ AsText(record, p.number)
     \/ /\ p.number # 14
        /\ p.number = 15 => record.insider.state = "ok" /\ record.insider.parsed > 0
        /\ p.number \in VINTAGE_SENSITIVE_POINTS /\ record.filingDate # None
             => record.quantDate - record.filingDate <= VINTAGE_THRESHOLD_DAYS

\* A green card shows a point of its number that the code could ground.
IsGroundedPage(shown) ==
  \A n \in FISHER_POINTS :
    LET card == shown.page.points[n]
    IN (IF card.absent THEN FALSE ELSE card.dot = "green") =>
         \E k \in Numbered(shown.record, n) :
           /\ IsCardOf(card, shown.record.points[k])
           /\ CodeGrounds(shown.record, shown.record.points[k])

(* Green is only what the code could ground.  Wherever a page shows a point*)
(* in green, in whatever order the rules for cites, numbers and the age of *)
(* the filing met: it has a source besides inference, the sections it cites*)
(* were sent and begin with their heading, it is not point 14, as point 15 *)
(* all Form 4 were read, as a point on margins or profit the filing is at  *)
(* most 180 days old.  Left out: numbers given as a text, and the markers  *)
(* that the reasoning itself ends with.                                    *)
GreenIsGrounded == \A t \in DOMAIN site.pages : IsGroundedPage(site.pages[t])

InsiderClaimHolds(sentence, record) ==
  /\ sentence = "no_sec_source" => record.reason \in {"no_us_line", "not_sec_registrant", "no_annual_form"}
  /\ sentence = "issuer_unidentified" => record.reason = "unverifiable_identity"
  /\ sentence = "fpi_exempt" => record.form = "20-F"
  /\ sentence \in {"fetch_failed", "empty", "counted"} => record.form = "10-K"
  /\ sentence = "counted" => record.insider.parsed > 0

Figure(page, block, label) ==
  {tile \in UNION {Range(page.quant.blocks[k].tiles) :
                     k \in {j \in DOMAIN page.quant.blocks : page.quant.blocks[j].block = block}} :
     tile.label = label /\ tile.val # None}

\* Listing and statements in two known currencies: a ratio of both never stands on a page
\* without the note, nor beside multiples of past years.
MixedCurrenciesAreNoted(page, record) ==
  page.coverage # None /\ None \notin record.currencies /\ Cardinality(record.currencies) = 2 =>
    /\ Figure(page, "Bewertung", "EV/EBIT") \cup Figure(page, "Bewertung", "EV/Sales") # {}
         => page.coverage.currencyNote
    /\ \A line \in page.quant.ranges : \A k \in DOMAIN line.segments : line.segments[k].val = None

\* Nothing is said of insiders that was not established, and every transaction is in one basket.
InsidersHold(insider, record) ==
  /\ InsiderClaimHolds(insider.sentence, record)
  /\ insider.counts # None =>
       insider.counts.total = insider.counts.buys + insider.counts.sells
                                + insider.counts.immaterial + insider.counts.routine

\* A card shows a point of its number, the last one unless the file is torn.
CardTells(card, n, record, whole) ==
  IF card.absent THEN whole => Numbered(record, n) = {}
  ELSE \E k \in Numbered(record, n) :
         IsCardOf(card, record.points[k]) /\ (whole => \A l \in Numbered(record, n) : l <= k)

\* The section of an item was sent, uncut.
WasSentUncut(item, record) == item \in DOMAIN record.sent /\ ~record.sent[item].truncated

TellsTheRecord(shown) ==
  /\ shown.page.insider # None => InsidersHold(shown.page.insider, shown.record)
  /\ \A n \in FISHER_POINTS : CardTells(shown.page.points[n], n, shown.record, shown.whole)
  /\ \A item \in DOMAIN shown.page.pills :
       shown.page.pills[item] = "green" => WasSentUncut(item, shown.record)
  /\ MixedCurrenciesAreNoted(shown.page, shown.record)

(* A page tells what the deep dive knew.  What it says of insiders is what *)
(* was established of this issuer, and every transaction is in one basket; *)
(* a card shows a point of its number with its rating, confidence and      *)
(* sources, the last one unless the file is torn, or is empty because the  *)
(* deep dive has none or its file is torn; a green pill is a section that  *)
(* was sent uncut; figures of a whole file that mix two currencies carry   *)
(* the note, and no comparison with past multiples.                        *)
PageTellsTheRecord == \A t \in DOMAIN site.pages : TellsTheRecord(site.pages[t])

\* What the rules above make of a record, whoever was asked for it.
PillsTell(record) ==
  \A item \in DOMAIN record.flags :
    FlagClass(FlagStr(record.flags[item])) = "green" => WasSentUncut(item, record)

CurrenciesAreApart(record) ==
  None \notin record.currencies /\ Cardinality(record.currencies) = 2 =>
    /\ record.quant.currencyNote
    /\ LET segments == RenderValuationRange(record.quant).segments
       IN \A k \in DOMAIN segments : segments[k].val = None

WellMade(record) ==
  /\ DOMAIN record.points = 1..Len(record.points) /\ Len(record.points) \in Nat
  /\ \A k \in DOMAIN record.points :
       record.points[k].confidence = "green" => CodeGrounds(record, record.points[k])
  /\ InsidersHold(RenderInsiderBlock(record.insider), record)
  /\ PillsTell(record)
  /\ CurrenciesAreApart(record)

\* Some chunks of a body, in their order, and the last section not without the points before it.
IsExcerptOf(q, body) ==
  /\ DOMAIN q = 1..Len(q) /\ Len(q) \in Nat
  /\ \E place \in [DOMAIN q -> DOMAIN body] :
       /\ \A k, l \in DOMAIN q : k < l => place[k] < place[l]
       /\ \A k \in DOMAIN q : q[k] = body[place[k]]
       /\ (\E k \in DOMAIN q : q[k].section = "coverage") =>
            \A j \in DOMAIN body : body[j].section = "points" => \E k \in DOMAIN q : place[k] = j

\* What is left of the dossier of a record.
IsExcerpt(file, record) ==
  /\ file.front.at \in Int /\ file.front = GenerateDossier(record, file.front.at).front
  /\ IsExcerptOf(file.body, GenerateDossier(record, file.front.at).body)

\* The dossiers that lie there were written by deep dives like these.
IsDossierOf(file, record) == file.front # None => IsExcerpt(file, record) /\ WellMade(record)

ASSUME EarlierDossiers ==
  \A f \in DOMAIN InitialFiles : IsDossierOf(InitialFiles[f].file, InitialFiles[f].record)

\* A file that a finished build shows, behind whose ticker it shows a newer one, or that it
\* names: as skipped, or by a newer one of a ticker that gets no page.
Accounted(name) ==
  \/ name \in site'.notices
  \/ \E d \in build.found : /\ d.name \in site'.notices /\ Parsed(name) # None
                            /\ d.dossier.front.ticker = Parsed(name).front.ticker
                            /\ d.dossier.front.at >= Parsed(name).front.at
  \/ \E r \in site'.rows : \/ r.name = name
                          \/ /\ Parsed(name) # None
                             /\ r.row.ticker = Parsed(name).front.ticker
                             /\ r.at >= Parsed(name).front.at

(* Nothing disappears between the directory and the site: each file that   *)
(* lay there when a build began and that no deep dive opened meanwhile is  *)
(* on the overview by the end of the build, as a row, behind a newer       *)
(* dossier of its ticker, or among the skipped, although the directory is  *)
(* read twice while files come and change.                                 *)
NothingDisappears ==
  [][build.at # "idle" /\ build'.at = "idle" =>
       \A name \in DOMAIN build.before \ build.touched : Accounted(name)]_vars
===============================================================================

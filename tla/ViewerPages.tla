------------------------------ MODULE ViewerPages ------------------------------
(***************************************************************************)
(* What viewer/render_detail.py and render_overview.py show of a parsed    *)
(* dossier.  Wording and layout are left out: a page is what it claims.    *)
(***************************************************************************)
EXTENDS DossierFile

CONSTANTS FixedAfter,   \* the day after which the dividend yield is right
          ArgxTicker    \* the ticker whose enterprise value is wrong

(***************************************************************************)
(* Known defects of the data: a mark on a figure, never its absence.       *)
(***************************************************************************)
Defect(block, label, tickers, until) ==
  [block |-> block, label |-> label, tickers |-> tickers, until |-> until]
KNOWN_DATA_DEFECTS ==
  {Defect("Bewertung", "Div-Yield", None, FixedAfter),
   Defect("Kapitalstruktur", "Total Shareholder Yield", None, FixedAfter),
   Defect("Kapitalstruktur", "D/E", None, None),
   Defect("Bewertung", "EV/EBIT", {ArgxTicker}, None),
   Defect("Bewertung", "EV/Sales", {ArgxTicker}, None),
   Defect("Bewertungs-Range", "Bewertungs-Range", None, None)}

\* A rule with a last day needs the day of the figures.
Applies(defect, ticker, quantDate) ==
  /\ IF defect.tickers = None THEN TRUE ELSE ticker \in defect.tickers
  /\ IF defect.until = None THEN TRUE
     ELSE IF quantDate = None THEN FALSE ELSE quantDate <= defect.until

DefectsFor(ticker, quantDate) == {d \in KNOWN_DATA_DEFECTS : Applies(d, ticker, quantDate)}

HasDisplayValue(segment) == segment.val # None

\* A figure is marked when it is there and a defect is known of it.
Take(dossier, block, label, there) ==
  /\ there
  /\ \E d \in DefectsFor(dossier.front.ticker, dossier.front.quantDate) :
        d.block = block /\ d.label = label

METRIC_BLOCKS == {"Bewertung", "Kapitalstruktur", "Analyst Consensus", "Forward-Konsens"}

Tile(dossier, block, segment) ==
  [label |-> segment.label, val |-> segment.val,
   marked |-> Take(dossier, block, segment.label, HasDisplayValue(segment))]

MetricBlock(dossier, m) ==
  [block |-> m.block,
   tiles |-> [k \in DOMAIN m.values.known |-> Tile(dossier, m.block, m.values.known[k])],
   extras |-> Cardinality(DOMAIN m.values.extras)]

\* The range is one line with one mark; a line that only says why it is absent has none.
RangeLine(dossier, m) ==
  [block |-> m.block, segments |-> m.raw,
   marked |-> Take(dossier, m.block, m.block,
                   ~(Len(m.raw) = 1 /\ m.raw[1].label = None) /\ m.raw # <<>>)]

QuantSection(dossier) ==
  LET metrics == dossier.valuation.metrics
  IN [headline |-> dossier.headline,
      blocks |-> [k \in {j \in DOMAIN metrics : metrics[j].block \in METRIC_BLOCKS} |->
                    MetricBlock(dossier, metrics[k])],
      ranges |-> {RangeLine(dossier, metrics[k]) :
                    k \in {j \in DOMAIN metrics : metrics[j].block = "Bewertungs-Range"}}]

(***************************************************************************)
(* The cards of the points, and the rest of a page.                        *)
(***************************************************************************)
PointCard(p) == IF p.placeholder THEN [absent |-> TRUE]
                ELSE [absent |-> FALSE, dot |-> p.confidence, stars |-> p.rating,
                      sources |-> p.sources, muted |-> p.confidence = "red"]

\* Green only for what is known to be whole.
FlagClass(words) == IF "missing" \in words THEN "red"
                    ELSE IF words \cap {"ambiguous", "fallback_used", "truncated"} # {} THEN "yellow"
                    ELSE IF words = {"ok"} THEN "green" ELSE "na"

FRESHNESS_YELLOW_DAYS == 120
FRESHNESS_RED_DAYS == 365
FreshnessFlag(days) == IF days = None THEN None
                       ELSE IF days > FRESHNESS_RED_DAYS THEN "age-red"
                       ELSE IF days >= FRESHNESS_YELLOW_DAYS THEN "age-yellow" ELSE None

RenderDetail(dossier) ==
  [ticker |-> dossier.front.ticker, name |-> dossier.name, form |-> dossier.front.form,
   filingDate |-> dossier.front.filingDate, quantDate |-> dossier.front.quantDate,
   age |-> dossier.front.days, flag |-> FreshnessFlag(dossier.front.days),
   summaryPending |-> dossier.summary = None, quant |-> QuantSection(dossier),
   peers |-> dossier.valuation.peers,
   points |-> [n \in FISHER_POINTS |-> PointCard(dossier.points[n])],
   insider |-> dossier.insider,
   pills |-> [item \in DOMAIN dossier.front.flags |-> FlagClass(dossier.front.flags[item])],
   coverage |-> dossier.coverage, notesPending |-> dossier.notes = None]

(***************************************************************************)
(* A row of the overview.                                                  *)
(***************************************************************************)
ValueOf(dossier, block, label) ==
  LET metrics == dossier.valuation.metrics
      found == {s \in UNION {Range(metrics[k].values.known) :
                               k \in {j \in DOMAIN metrics : metrics[j].block = block}} :
                  s.label = label}
  IN IF found = {} THEN None ELSE (CHOOSE s \in found : TRUE).val

Rated(dossier) == {n \in FISHER_POINTS : ~dossier.points[n].placeholder}

StarSummary(dossier) ==
  [stars \in {dossier.points[n].rating : n \in Rated(dossier)} |->
    Cardinality({n \in Rated(dossier) : dossier.points[n].rating = stars})]

BuildOverviewRow(dossier, duplicates) ==
  [ticker |-> dossier.front.ticker, form |-> dossier.front.form,
   stars |-> StarSummary(dossier),
   red |-> Cardinality({n \in Rated(dossier) : dossier.points[n].confidence = "red"}),
   fcfYield |-> ValueOf(dossier, "Bewertung", "FCF-Yield"),
   age |-> dossier.front.days, flag |-> FreshnessFlag(dossier.front.days),
   twin |-> dossier.name # None /\ dossier.name \in duplicates]

\* The names that more than one dossier carries.
DuplicateNames(dossiers) ==
  {name \in {d.name : d \in dossiers} \ {None} :
     Cardinality({d \in dossiers : d.name = name}) > 1}
===============================================================================

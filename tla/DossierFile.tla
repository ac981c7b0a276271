------------------------------ MODULE DossierFile ------------------------------
(***************************************************************************)
(* What deepdive/dossier_generator.py writes and viewer/dossier_parser.py  *)
(* reads.  A file is its front matter (None when the closing mark is       *)
(* missing) and a sequence of chunks, each in a section of the body: one   *)
(* for each of Fisher's points, one for any other section.  A torn file    *)
(* has lost its end.                                                       *)
(***************************************************************************)
EXTENDS Synthesis, Quant

FORM_TYPE_NO_SEC_SOURCE == "kein SEC-Filing"

Chunk(section, content) == [section |-> section, content |-> content]
Placeholder == [text |-> FALSE]

FlagStr(flag) == {flag.extraction} \cup (IF flag.missing THEN {"missing"} ELSE {})
                                   \cup (IF flag.truncated THEN {"truncated"} ELSE {})

\* A record has a filing, or the reason why it has none.
NoSecSourceBiconditional(record) == (record.reason = None) <=> (record.form # None)

\* None for a record without the date of its filing.
DaysSinceFiling(record) ==
  IF record.filingDate = None THEN None ELSE record.quantDate - record.filingDate

Headline(q) == [cap |-> q.pit.cap, currency |-> q.pit.currency]

SourceCoverage(record) ==
  [edgar |-> IF record.form = None THEN record.reason ELSE record.form,
   quant |-> record.quant.source, historical |-> record.quant.historical,
   currencyNote |-> record.quant.currencyNote, insider |-> InsiderCoverageLabel(record.insider)]

\* A point as it stands in the file: its sources are bracketed markers behind its reasoning.
PointChunk(p) ==
  Chunk("points", [number |-> p.number, rating |-> p.rating, confidence |-> p.confidence,
                   markers |-> p.tail \o p.sources])

GenerateDossier(record, at) ==
  [front |-> [ticker |-> record.ticker,
              form |-> IF record.form = None THEN FORM_TYPE_NO_SEC_SOURCE ELSE record.form,
              at |-> at, quantDate |-> record.quantDate, filingDate |-> record.filingDate,
              days |-> DaysSinceFiling(record),
              flags |-> [item \in DOMAIN record.flags |-> FlagStr(record.flags[item])],
              insider |-> record.insider.state],
   body |->
     <<Chunk("title", record.quant.pit.name),
       Chunk("summary", IF record.reason # None THEN [text |-> TRUE] ELSE Placeholder),
       Chunk("headline", Headline(record.quant)),
       Chunk("valuation", RenderValuationBlock(record.quant)),
       Chunk("insider", RenderInsiderBlock(record.insider))>>
     \o [k \in DOMAIN record.points |-> PointChunk(record.points[k])]
     \o <<Chunk("coverage", SourceCoverage(record)), Chunk("notes", Placeholder)>>]

EmptyFile == [front |-> None, body |-> <<>>]
TornAt(file, k) == [file EXCEPT !.body = SubSeq(file.body, 1, k)]

(***************************************************************************)
(* The reader.                                                             *)
(***************************************************************************)
\* The last chunk of a section counts; None when there is none.
InSection(body, section) ==
  LET found == {k \in DOMAIN body : body[k].section = section}
  IN IF found = {} THEN None ELSE body[CHOOSE k \in found : \A l \in found : l <= k].content

LABELS_BY_LINE ==
  [line \in {"Bewertung", "Bewertungs-Range", "Kapitalstruktur", "Analyst Consensus",
             "Forward-Konsens"} |->
     CASE line = "Bewertung" -> {"P/E trail.", "P/E fwd", "EV/EBIT", "EV/Sales", "FCF-Yield",
                                 "Div-Yield", "Payout"}
       [] line = "Bewertungs-Range" -> {"P/E", "EV/EBIT", "FCF-Yield"}
       [] line = "Kapitalstruktur" -> {"Total Debt", "Cash", "D/E", "Current Ratio",
                                       "Interest Coverage", "Total Shareholder Yield"}
       [] line = "Analyst Consensus" -> {"Target", "Upside"}
       [] line = "Forward-Konsens" -> {"Revenue", "EPS"}]

\* The segments of a line whose labels are known; the others are extras.
ParseMetricLine(line) ==
  LET known == {k \in DOMAIN line.segments : line.segments[k].label \in LABELS_BY_LINE[line.label]}
  IN [known |-> Restrict(line.segments, known),
      extras |-> Restrict(line.segments, DOMAIN line.segments \ known)]

ParseValuationSection(block) ==
  IF block = None THEN [metrics |-> <<>>, peers |-> <<>>]
  ELSE [metrics |-> [k \in DOMAIN block.lines |->
          [block |-> block.lines[k].label, values |-> ParseMetricLine(block.lines[k]),
           raw |-> block.lines[k].segments]],
        peers |-> block.peers]

\* The markers at the end of a point are its sources; the last of two points with one
\* number counts, and a number that is not there gets an empty card.
ParsePoints(body) ==
  [n \in FISHER_POINTS |->
    LET found == {k \in DOMAIN body : /\ body[k].section = "points"
                                      /\ body[k].content.number = n}
    IN IF found = {} THEN [placeholder |-> TRUE]
       ELSE LET p == body[CHOOSE k \in found : \A l \in found : l <= k].content
            IN [placeholder |-> FALSE, rating |-> p.rating, confidence |-> p.confidence,
                sources |-> p.markers]]

ParseProse(content) == IF content = None THEN None ELSE IF content.text THEN content ELSE None

\* None for what is no dossier: without front matter, without a ticker or a form.
ParseDossier(file) ==
  IF file.front = None THEN None
  ELSE [front |-> file.front,
        name |-> InSection(file.body, "title"),
        summary |-> ParseProse(InSection(file.body, "summary")),
        headline |-> InSection(file.body, "headline"),
        valuation |-> ParseValuationSection(InSection(file.body, "valuation")),
        insider |-> InSection(file.body, "insider"),
        points |-> ParsePoints(file.body),
        coverage |-> InSection(file.body, "coverage"),
        notes |-> ParseProse(InSection(file.body, "notes"))]
===============================================================================

---------------------------- MODULE MCDossierRuns ----------------------------
(* Filings, answers, insiders and figures of each kind the code tells      *)
(* apart, each with plain ones of the others; then a plain second run.     *)
EXTENDS DossierRuns

\* Filings.
Block(heading, anchor) ==
  [heading |-> heading, dotted |-> FALSE, mention |-> None, anchor |-> anchor,
   linked |-> anchor # None, empty |-> FALSE, long |-> FALSE]
Text == Block(None, None)
AnnualItems == <<Item(1), <<1, "A">>, Item(5), Item(7), <<7, "A">>, Item(8)>>
PlainDoc == [k \in 1..6 |-> Block(AnnualItems[k], "id")]
Docs10K ==
  {PlainDoc,
   \* Items 7 and 7A are found by a name.
   [k \in 1..6 |-> Block(AnnualItems[k], IF k \in {4, 5} THEN "name" ELSE "id")],
   \* No links: rows of the contents, a cross-reference, headings.
   <<[Block(Item(7), None) EXCEPT !.dotted = TRUE], [Text EXCEPT !.mention = Item(8)],
     Block(Item(1), None), [Block(Item(7), None) EXCEPT !.long = TRUE]>>,
   \* Only some items have links; one leads to an empty mark before a cross-reference.
   <<Block(Item(1), "id"), [Block(None, "id") EXCEPT !.empty = TRUE],
     [Text EXCEPT !.mention = Item(7)], [Block(Item(7), "id") EXCEPT !.long = TRUE]>>,
   <<>>}
Doc20F == <<Block(Item(4), "id"), Block(Item(5), "id"), Block(Item(6), "id"), Block(Item(18), "id")>>

\* Answers.
Raw(n, confidence, sources) ==
  [number |-> n, text |-> FALSE, rating |-> 1 + (n % 5), confidence |-> confidence,
   sources |-> sources, words |-> "short", tail |-> <<>>]
Answer(sources) == [n \in 1..15 |-> Raw(n, "green", sources)]
Quants == Marker("quant")
Seven == Cite("10-K", Item(7))
PlainAnswer == [Answer(<<Seven, Quants>>) EXCEPT ![3].confidence = "red", ![4].confidence = "yellow"]
\* Paragraphs, other forms, items that were not sent, markers nobody knows.
ParagraphAnswer ==
   [n \in 1..15 |-> Raw(n, "green",
      CASE n % 5 = 0 -> <<Cite("10-K", <<7, "B">>)>>
        [] n % 5 = 1 -> <<Cite("20-F", Item(7)), Marker("market")>>
        [] n % 5 = 2 -> <<Cite("10-K", Item(9)), Quants>>
        [] n % 5 = 3 -> <<Marker("form"), Marker("unknown")>>
        [] OTHER -> <<Cite("10-K", <<7, "A">>), Marker("insider")>>)]
Answers ==
  {PlainAnswer, ParagraphAnswer,
   \* Numbers as texts.
   [n \in 1..15 |-> [Raw(n, "green", <<Quants>>) EXCEPT !.text = n \in {14, 5}]],
   \* Twice 13, never 15; reasonings at and over the limit that end with a cite.
   [n \in 1..15 |-> [Raw(IF n = 15 THEN 13 ELSE n, "green", <<Marker("inference")>>)
                       EXCEPT !.tail = <<Seven>>,
                              !.words = IF n % 3 = 0 THEN "short"
                                        ELSE IF n % 3 = 1 THEN "sentences" ELSE "endless"]],
   SubSeq(PlainAnswer, 1, 14),
   [PlainAnswer EXCEPT ![2].rating = 6]}

\* Insiders.
Row(derivative, code, shares, price, side, after) ==
  [derivative |-> derivative, code |-> code, shares |-> shares, price |-> price, side |-> side,
   after |-> after, holding |-> "direct"]
Form4(owner, title, aff, rows) ==
  [owner |-> owner, title |-> title, director |-> title = None, officer |-> title # None,
   tenPct |-> FALSE, aff |-> aff, noaff |-> None, rows |-> rows]
Filings ==
  <<Form4("x", "other", "1", <<Row(FALSE, "S", 6, 100, "D", 4), Row(TRUE, "M", 9, None, "A", None),
                               Row(FALSE, "S", 5, 100, "D", 0)>>),
    Form4("y", "ceo", None, <<Row(FALSE, "S", 1, 1, "D", 0), Row(FALSE, "P", 2, 3, "A", 2)>>),
    Form4("z", None, "0", <<Row(FALSE, "S", 1, 10, "D", 3), Row(FALSE, "J", 1, 1, "A", 1)>>)>>
Fetched(state, filings, forms) == [state |-> state, filings |-> filings, forms |-> forms]
AllFetched == Fetched("ok", 3, Filings)
Fetches == {AllFetched, Fetched("partial", 4, SubSeq(Filings, 2, 2)), Fetched("fetch_failed", 2, <<>>),
            Fetched("empty", 0, <<>>), None}

\* Figures.
PlainInfo ==
  [name |-> "a", currency |-> "USD", cap |-> 1000, current |-> 50, regular |-> 49, shares |-> 20,
   pe |-> 20, payout |-> 4000, dividend |-> 23000, ev |-> 1200, fcf |-> 60, target |-> 60,
   named |-> TRUE]
Infos ==
  {PlainInfo,
   [PlainInfo EXCEPT !.dividend = 2300, !.cap = 0, !.current = None],
   [PlainInfo EXCEPT !.dividend = 8100, !.payout = None, !.fcf = None, !.target = None, !.name = None],
   [PlainInfo EXCEPT !.ev = None, !.pe = None, !.dividend = 0, !.current = 0, !.regular = None]}
Year(end, eps) == [end |-> end, eps |-> eps, income |-> 40, ebit |-> 60, fcf |-> 30, debt |-> 300, cash |-> 100]
Closes(n) == [k \in 1..n |-> [week |-> 7 * k - 1200, price |-> 40 + (k % 9)]]
YearsOf == <<Year(-300, 3), Year(-665, 2), [Year(-1030, -1) EXCEPT !.ebit = None], Year(-1395, 1)>>
Splits == <<[ex |-> -500, ratio |-> 2]>>
Histories == [n \in {10, 60, 160} |-> ComputeValuationHistory(Closes(n), YearsOf, Splits, "USD", "USD")]
ForeignHistory == ComputeValuationHistory(Closes(60), YearsOf, Splits, "USD", "DKK")
UnknownHistory == ComputeValuationHistory(Closes(60), YearsOf, Splits, "USD", None)
PlainRaw ==
  [currency |-> "USD", revenue |-> <<500, 450, 400, 380>>, margins |-> <<20, 18, 19, 15>>,
   shares |-> <<20, 21, 22, 22>>, buybacks |-> <<-20, -10, -5, -5>>, ebit |-> <<60, 55, None>>,
   interest |-> <<-6>>, complete |-> FALSE, history |-> Histories[160]]
Raws ==
  {PlainRaw, [PlainRaw EXCEPT !.history = Histories[60], !.buybacks = <<-20, None>>],
   [PlainRaw EXCEPT !.currency = "DKK", !.history = ForeignHistory],
   [PlainRaw EXCEPT !.currency = None, !.history = UnknownHistory, !.revenue = <<>>, !.margins = <<>>,
                    !.ebit = <<None, 0>>],
   [PlainRaw EXCEPT !.history = Histories[10], !.interest = <<>>, !.shares = <<0, 3>>]}
Forwards == {None, [revenue |-> None, eps |-> None], [revenue |-> 900, eps |-> None]}

Annual(form, date) == <<[form |-> "8-K", date |-> 0], [form |-> form, date |-> date]>>
PlainInput ==
  [ticker |-> "A", submissions |-> Annual("10-K", -10), unidentified |-> None, doc |-> PlainDoc,
   skip |-> FALSE, fetched |-> AllFetched, cached |-> PlainInfo, live |-> PlainInfo, raw |-> PlainRaw,
   forward |-> None, peers |-> None, answer |-> PlainAnswer]
Quantless(reason) ==
  [PlainInput EXCEPT !.submissions = IF reason = "no_annual_form" THEN Annual("20-F", -541) ELSE None,
                     !.unidentified = reason, !.ticker = "B"]
\* An undated report before a dated one, a change of the form, none of the two forms.
OtherSubmissions ==
  {<<[form |-> "10-K", date |-> None]>> \o Annual("10-K", -200),
   Annual("20-F", -540) \o Annual("10-K", -700), Annual("10-Q", -10)}

MCInputs ==
  <<{[PlainInput EXCEPT !.doc = d, !.answer = a] : d \in Docs10K, a \in {PlainAnswer, ParagraphAnswer}}
    \cup {[PlainInput EXCEPT !.answer = a, !.submissions = Annual("10-K", -181)] : a \in Answers}
    \cup {[PlainInput EXCEPT !.submissions = Annual("10-K", -180)]}
    \cup {[PlainInput EXCEPT !.submissions = s] : s \in OtherSubmissions}
    \cup {[PlainInput EXCEPT !.fetched = i] : i \in Fetches}
    \cup {[PlainInput EXCEPT !.skip = TRUE, !.submissions = Annual(f, -10)] : f \in {"10-K", "20-F"}}
    \cup {[PlainInput EXCEPT !.submissions = Annual("20-F", -10), !.doc = Doc20F,
                             !.answer = ParagraphAnswer]}
    \cup {Quantless(r) : r \in DOMAIN INSIDER_STATE_BY_REASON}
    \cup {[PlainInput EXCEPT !.live = i, !.cached = None] : i \in Infos}
    \cup {[PlainInput EXCEPT !.raw = r] : r \in Raws}
    \cup {[PlainInput EXCEPT !.forward = f, !.cached.currency = "GBp"] : f \in Forwards}
    \cup {[PlainInput EXCEPT !.cached.currency = None]}
    \cup {[PlainInput EXCEPT !.peers = <<[ticker |-> "P", info |-> PlainInfo], [ticker |-> "Q", info |-> None]>>]},
    {Quantless("no_us_line")}>>

\* A dossier of an earlier generation, two under a symbol with a separator, a note.
OldRecord(ticker, day) ==
  [ticker |-> ticker, form |-> "10-K", reason |-> None, filingDate |-> None, quantDate |-> day,
   flags |-> <<>>, quant |-> QuantOf(PlainInput), insider |-> InsiderSummary("skipped"),
   points |-> <<>>, sent |-> <<>>, answer |-> <<>>, currencies |-> {"USD"}]
OldFile(ticker, day) ==
  LET new == GenerateDossier(OldRecord(ticker, day), day)
  IN [file |-> [new EXCEPT !.body = SelectSeq(@, LAMBDA c : c.section # "insider")],
      record |-> OldRecord(ticker, day)]
MCInitialFiles ==
  [f \in {<<"A", -1>>, <<"S/", -2>>, <<"S/", -1>>, <<"note", -1>>} |->
    IF f[1] = "note" THEN [file |-> EmptyFile, record |-> None] ELSE OldFile(f[1], f[2])]

MCCuts == {4, 19}
=============================================================================

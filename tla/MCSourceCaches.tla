---------------------------- MODULE MCSourceCaches ----------------------------
(* For each cache a few contents of its source, the entries that earlier   *)
(* versions left, and the days around its bounds.                          *)
EXTENDS SourceCaches, TLC

\* London in pence with a cap, without one, without a current price; an unruled minor
\* unit; a degraded page; no payload.
London == [named |-> TRUE, cap |-> 70, currency |-> "GBp", current |-> 200, regular |-> 200,
           shares |-> 30]
MCInfos ==
  {London, [London EXCEPT !.cap = 0], [London EXCEPT !.cap = None, !.current = None],
   [London EXCEPT !.cap = 0, !.currency = "GBX"], [London EXCEPT !.cap = 0, !.shares = None],
   [London EXCEPT !.currency = "GBP", !.current = 2],
   [London EXCEPT !.named = FALSE, !.cap = None], None}
OldInfos ==
  {None, Doc(0, None, None, London),
   Doc(0, None, None, [London EXCEPT !.cap = 0, !.currency = "EUR", !.shares = None])}

Filing(form, date, restates) == [form |-> form, date |-> date, restates |-> restates]
Hit(date, type, doc, finding) == [date |-> date, type |-> type, doc |-> doc, finding |-> finding]
Duty == <<"whether", "doubt">>
Negated == <<"not", "doubt", "stop", "may", "doubt">>
Real == <<"not", "doubt", "stop", "doubt">>
MCSources ==
  {[submissions |-> <<Filing("8-K", -1090, TRUE)>>, overBroad |-> FALSE,
    hits |-> <<Hit(-10, "10-K", Duty, FALSE), Hit(-10, "EX-13", Real, FALSE),
               Hit(-715, "10-Q", Real, TRUE)>>],
   [submissions |-> <<Filing("8-K", -20, FALSE), Filing("10-K", -10, FALSE)>>, overBroad |-> FALSE,
    hits |-> <<Hit(-10, "10-K", Negated, FALSE), Hit(-10, "10-K", None, FALSE)>>],
   [submissions |-> <<>>, overBroad |-> FALSE, hits |-> <<>>],
   [submissions |-> <<>>, overBroad |-> TRUE, hits |-> <<>>]}

Year(y) == 365 * y + 364
Entry(form, end, filed, val) ==
  [form |-> form, start |-> end - 364, end |-> end, filed |-> filed, val |-> val]
OneTag(tag, q) == tag :> ("USD" :> q)
Plain(tag) == OneTag(tag, <<Entry("10-K", Year(8), 9, 5), Entry("10-K", Year(9), 10, 6)>>)
\* A change of tag, a correction, a quarter, a half-year and a date at the end of a quarter.
Traps ==
  "r1" :> ("USD" :> <<Entry("10-K", Year(6), 7, 60), Entry("10-K", Year(7), 8, 70),
                      Entry("10-K/A", Year(7), 9, 71), Entry("10-Q", Year(8), 8, 1)>>)
  @@ "r2" :> ("EUR" :> <<>> @@ "USD" :>
       <<Entry("10-K", Year(7), 9, 99), Entry("10-K", Year(8), 9, 80), Entry("10-K", Year(8), 10, 80),
         Entry("10-K", Year(9), 10, 90), Entry("10-K", Year(8) + 90, 10, 33),
         [Entry("10-K", Year(9), 10, 45) EXCEPT !.start = Year(9) - 182]>>)
\* A fiscal year that ends in January, with a date moved by some days.
Retail ==
  OneTag("r1", <<Entry("10-K", Year(8) + 31, 9, 20), Entry("10-K", Year(9) + 29, 10, 22),
                 Entry("10-K", Year(10) + 200, 11, 7), Entry("10-K", Year(10) + 30, 11, 24)>>)
MCConcepts == [revenue |-> <<"r1", "r2">>, net_income |-> <<"n">>]
MCFacts == {Traps @@ Plain("n"), Retail @@ Plain("n"), Plain("r1"), None}
OldFacts == {None, Doc(0, 300, 1, Record([k \in DOMAIN MCConcepts |-> NoCoverage], None))}

Column(revenue, income) == [revenue |-> revenue, income |-> income]
MCColumns ==
  {[columns |-> <<Column(100, 20), Column(0, 5), Column(50, None), Column(50, 10), Column(10, 1),
                  Column(10, 2)>>, prices |-> [currency |-> "GBp", closes |-> <<300, None, 500>>]],
   [columns |-> <<Column(100, 25)>>, prices |-> [currency |-> None, closes |-> <<300>>]],
   [columns |-> <<>>, prices |-> [currency |-> "USD", closes |-> <<>>]]}

Form4(id, date) == [form |-> "4", id |-> id, date |-> date]
Insiders(submissions, broken) == [submissions |-> submissions, since |-> -365, broken |-> broken]
MCFilings ==
  {Insiders(<<Form4("f1", -366), Form4("f2", None), [Form4("f3", -10) EXCEPT !.form = "8-K"]>>, {}),
   Insiders(<<Form4("f1", -10), Form4("f2", -365)>>, {}),
   Insiders(<<Form4("f2", -10), Form4("f3", -20), Form4("f1", -400)>>, {"f3"}),
   Insiders(<<Form4("f3", -10)>>, {"f3"})}

MCRevenueOffsets == {-30, 29}
MCDrawnOffsets == {-60, 60}
MCKinds == AllKinds
MCAnnual == {"annual"}
MCContents ==
  [info |-> MCInfos, signals |-> MCSources, revenue |-> {<<1, 2>>, <<1, 2, 3>>, <<>>},
   annual |-> MCFacts, historical |-> MCColumns, insider |-> MCFilings]
MCLegacy ==
  [info |-> OldInfos, signals |-> {None}, revenue |-> {None}, annual |-> OldFacts,
   historical |-> {None, Doc(0, None, 3, HistoricalSeries(<<>>, None))},
   insider |-> [{"f1", "f2", "f3"} -> {0}] \cup {[f \in {"f1", "f2", "f3"} |-> IF f = "f2" THEN 1 ELSE 0]}]
MCInstants ==
  [info |-> {0, 1}, signals |-> {0, 4, 6, 7, 11}, revenue |-> {0, 89, 90, 149},
   annual |-> {0, 60, 340, 460}, historical |-> {0, 89, 90}, insider |-> {0, 1}]
===============================================================================

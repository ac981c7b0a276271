------------------------------ MODULE MCScoring -------------------------------
(* Cohorts of three titles: a good one, its variants with one input worse, *)
(* missing or on a threshold, and annual series for every window.          *)
EXTENDS Scoring

Years(n) == (2025 - n)..2024
Flat(n) == [revenue |-> [y \in Years(n) |-> 100], operating |-> [y \in Years(n) |-> 20],
            net |-> [y \in Years(n) |-> 10]]

Steady == Flat(10)
Short == Flat(6)
Eight == Flat(8)
\* A loss year eleven years ago does not count; a gap six years ago ends the window.
Old == [Flat(11) EXCEPT !.net[2014] = -90]
Gap == [Flat(10) EXCEPT !.net = [y \in Years(10) \ {2017} |-> IF y = 2015 THEN -30 ELSE 10]]
\* A slump from a high in the middle: the fall counts from the earlier peak, and the score
\* is 3.0, that of the sentinel.
Slump == [Flat(10) EXCEPT !.operating[2018] = 40, !.operating[2020] = 10,
                          !.operating[2021] = 30, !.net[2020] = -4, !.revenue[2020] = 90]

Good == [sector |-> "Technology", industry |-> "Software", margin |-> 30, revenue |-> 100,
         debt |-> 10, de |-> 50, cash |-> 10, book |-> None, sameCurrency |-> TRUE,
         ebitda |-> 40, gross |-> 60, yoy |-> 9, revenues |-> <<100, 110, 121, 133>>,
         cik |-> TRUE, series |-> Steady]

MCProfiles ==
  {Good,
   [Good EXCEPT !.revenues = <<100, 105, 103, 110>>, !.series = Slump, !.gross = 30],
   [Good EXCEPT !.revenues = <<>>, !.yoy = 30, !.cik = FALSE, !.margin = 20],
   [Good EXCEPT !.yoy = None, !.revenues = <<50, 60>>, !.series = Eight],
   [Good EXCEPT !.debt = 200, !.de = 400, !.margin = 50, !.series = Short],
   [Good EXCEPT !.margin = 40, !.gross = 70, !.industry = "Oil"],
   [Good EXCEPT !.margin = 40, !.gross = 65, !.series = Slump],
   [Good EXCEPT !.debt = 200, !.de = 400, !.sector = "Utilities", !.industry = "Oil"],
   [Good EXCEPT !.debt = 100, !.de = -50, !.margin = 40],
   [Good EXCEPT !.debt = 80, !.ebitda = None, !.gross = 70, !.industry = "Oil"],
   [Good EXCEPT !.ebitda = -5, !.gross = None, !.series = None],
   [Good EXCEPT !.cash = 90, !.margin = 35, !.series = Gap],
   [Good EXCEPT !.cash = 90, !.sector = "Financial Services", !.margin = 35],
   [Good EXCEPT !.debt = None, !.book = 50, !.cash = None, !.series = Old],
   [Good EXCEPT !.margin = -3, !.sector = None, !.de = 0, !.sameCurrency = FALSE]}

MCTitles == 1..3
MCTakers == {"Oil"}
===============================================================================

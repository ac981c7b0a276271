-------------------------- MODULE MCScreenerFunnel ---------------------------
(* Two titles and a payload for every branch of the gates, some of them on *)
(* the threshold; a sector of two can be flagged.                          *)
EXTENDS ScreenerFunnel

CONSTANTS a, b

Good == [cap |-> 5, currency |-> "EUR", volume |-> 2, price |-> 5, sector |-> "Technology",
         industry |-> "Software", reit |-> FALSE, margin |-> 40, growth |-> 0, cik |-> TRUE]

MCInfos ==
  {Good,
   [Good EXCEPT !.cap = None],
   [Good EXCEPT !.currency = None],
   [Good EXCEPT !.volume = None],
   [Good EXCEPT !.price = None],
   [Good EXCEPT !.currency = "USD", !.cap = 1, !.growth = -1, !.cik = FALSE],
   [Good EXCEPT !.currency = "USD", !.volume = 2, !.price = 2],
   [Good EXCEPT !.cap = 1],
   [Good EXCEPT !.sector = "Financial Services", !.growth = -1],
   [Good EXCEPT !.sector = "Real Estate", !.reit = TRUE],
   [Good EXCEPT !.margin = 25, !.cik = FALSE],
   [Good EXCEPT !.margin = 24],
   [Good EXCEPT !.margin = None]}

S(years, cost, gross) == [years |-> years, cost |-> cost, gross |-> gross]

MCStatements ==
  {S(<<4, 3, 2, 1>>, 2, 2),          \* rising, real cost of revenue
   S(<<2, 3, 4, 5>>, 3, -1),         \* falling, negative gross profit
   S(<<2, 3, 4>>, 1, 1),             \* too short
   S(<<4, 3, 2, 5, None>>, None, 4), \* no cost of revenue, one good year
   S(<<None>>, 1, 1),
   S(<<>>, None, None)}

MCRate == [c \in {"EUR", "USD"} |-> IF c = "EUR" THEN 1 ELSE 2]
MCBucket == [i \in {"Software"} |-> <<"Thin", "Group">>]
MCMedian == [n \in {"Group"} |-> 50]
MCUniverse == {a, b}
=============================================================================

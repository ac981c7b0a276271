----------------------------- MODULE MCPeerChoice -----------------------------
(* The index with a symbol to correct and one to drop, its holdings, its   *)
(* table and its last resort; four titles of one industry in three         *)
(* currencies, one of the sector, one outside of the universe.             *)
EXTENDS PeerChoice, TLC

T == <<"T", "", "">>
A == <<"A", "", "L">>
B == <<"B", "", "">>
C == <<"C", "B", "ST">>
F == <<"F", "", "">>
S == <<"S", "", "L">>
Z == <<"Z", "", "">>
Gone == <<"X", "", "">>
WrongC == <<"C", "", "ST">>

MCVenues == [UK |-> "L", LSE |-> "L", Stockholm |-> "ST"]
MCCorrections == WrongC :> C
MCDropped == {Gone}
MCFallback == <<A, S>>
MCFirstUniverse == {T, A, B, C, F, S}
Raw(base, class, mark) == [base |-> base, class |-> class, mark |-> mark]
Row(raw, exchange) == [raw |-> raw, asset |-> "Equity", shares |-> "some", exchange |-> exchange]
US == <<Raw("T", "", "none"), Raw("B", "", "none"), Raw("F", "", "none"), Raw("X", "", "none")>>
Holdings ==
  <<Row(Raw("A", "", "trailing"), "LSE"), Row(Raw("C", "", "none"), "Stockholm"),
    Row(Raw("S", "", "none"), "LSE"), [Row(Raw("Q", "", "none"), "LSE") EXCEPT !.shares = "zero"],
    Row(Raw("R", "", "none"), "Xetra"), [Row(None, "LSE") EXCEPT !.asset = "Cash"]>>
Table == <<[raw |-> Raw("A", "", "trailing"), country |-> "UK"],
           [raw |-> Raw("C", "B", "letter"), country |-> "Bermuda"],
           [raw |-> Raw("S", "A", "dot"), country |-> "UK"],
           [raw |-> None, country |-> "UK"], [raw |-> Raw("R", "", "none"), country |-> "Mars"]>>
MCSources ==
  {[us |-> US, urls |-> <<SubSeq(Holdings, 5, 6), Holdings>>, wikipedia |-> None],
   [us |-> US, urls |-> <<None, None>>, wikipedia |-> Table],
   [us |-> SubSeq(US, 1, 2), urls |-> <<SubSeq(Holdings, 1, 2), None>>, wikipedia |-> None],
   [us |-> None, urls |-> <<Holdings, None>>, wikipedia |-> Table]}

Facts(industry, sector, cap, currency) ==
  [industry |-> industry, sector |-> sector, cap |-> cap, currency |-> currency]
MCLive ==
  T :> Facts("i", "s", 6, "EUR") @@ A :> Facts("i", "s", 4, "GBP") @@ B :> Facts("i", "s", 6, "USD")
  @@ C :> Facts("i", "s", 8, "EUR") @@ F :> Facts("i", "s", 18, "USD")
  @@ S :> Facts(None, None, None, None) @@ Z :> None
MCCached ==
  A :> <<Facts("i", "s", 4, "GBp")>>
  @@ B :> <<Facts("i", "s", 6, "USD")>>
  @@ C :> <<Facts("i", "s", 8, "EUR")>>
  @@ F :> <<Facts("i", "s", 18, "USD"), Facts("i", "s", None, "USD")>>
  @@ S :> <<Facts("k", "s", 12, "EUR")>>
  @@ Z :> <<Facts("i", "s", 6, "EUR")>>
MCSymbolOrder == <<A, B, C, F, S, T, Z>>
MCRates == [EUR |-> 2, GBP |-> 3, USD |-> 1]
MCOutages == {{}, {T, B}}
MCRateOutages == {{}, {"USD"}}
MCChecks ==
  {[ticker |-> T, slots |-> <<A, None>>], [ticker |-> T, slots |-> <<None, T, F>>],
   [ticker |-> T, slots |-> <<>>], [ticker |-> S, slots |-> <<A>>],
   [ticker |-> T, slots |-> <<A, A, Z, B>>], [ticker |-> T, slots |-> <<A, B, C>>]}
MCEntries == {<<A, A, T>>, <<A, B>>}
MCRationales == {"r0", None}
MCFirstPeers == [tickers |-> <<B, C, F>>, rationale |-> "r0"]
===============================================================================

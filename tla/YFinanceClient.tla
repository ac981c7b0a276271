---------------------------- MODULE YFinanceClient ----------------------------
(***************************************************************************)
(* What services/yfinance_client.py makes of the payloads of Yahoo.        *)
(*                                                                         *)
(* A payload is a record [named, cap, currency, current, regular, shares]. *)
(* Prices of London are quoted in pence under the label "GBp", while the   *)
(* market cap is in pounds.                                                *)
(***************************************************************************)
EXTENDS SourceValues, Integers, Sequences

MINOR_UNIT == [GBp |-> [iso |-> "GBP", divisor |-> 100]]

\* Minor units without a rule: their prices are never multiplied into a market cap.
UNRULED_MINOR_UNIT_CODES == {"GBX", "ILA", "ZAc"}

IsUnnormalised(i) == i.currency \in DOMAIN MINOR_UNIT

QuotedPrice(i) == IF Truthy(i.current) THEN i.current
                  ELSE IF Truthy(i.regular) THEN i.regular ELSE None

Positive(x) == IF x = None THEN FALSE ELSE x > 0

MarketCap(cap, source) == [cap |-> cap, source |-> source]

\* The reported one, else shares times price, unless the price may be in a minor unit.
ResolveMarketCap(i) ==
  IF Truthy(i.cap) THEN MarketCap(i.cap, "REPORTED")
  ELSE IF /\ ~IsUnnormalised(i) /\ i.currency \notin UNRULED_MINOR_UNIT_CODES
          /\ Positive(i.shares) /\ Positive(QuotedPrice(i))
       THEN MarketCap(i.shares * QuotedPrice(i), "DERIVED")
       ELSE MarketCap(None, None)

HasUsableMarketCap(i) == ResolveMarketCap(i).cap # None

Rescaled(x, divisor) == IF x = None THEN None ELSE x \div divisor

NormalizeMinorUnit(i) ==
  IF ~IsUnnormalised(i) THEN i
  ELSE [i EXCEPT !.currency = MINOR_UNIT[i.currency].iso,
                 !.current = Rescaled(@, MINOR_UNIT[i.currency].divisor),
                 !.regular = Rescaled(@, MINOR_UNIT[i.currency].divisor)]

\* A payload without name and market cap is a page that does not exist.
Degraded(i) == ~i.named /\ ~Truthy(i.cap)

\* None stands for the error of a frame whose currency is not known.
QuoteDivisor(currency) ==
  IF currency = None THEN None
  ELSE IF currency \in DOMAIN MINOR_UNIT THEN MINOR_UNIT[currency].divisor ELSE 1

\* The closes of a frame [currency, closes], each with its week; a week without a value has
\* none, and an empty frame asks for no currency.
WeeklyClose(frame) ==
  LET divisor == QuoteDivisor(frame.currency)
  IN IF frame.closes = <<>> THEN <<>>
     ELSE IF divisor = None THEN None
     ELSE [k \in {k \in DOMAIN frame.closes : frame.closes[k] # None} |->
             frame.closes[k] \div divisor]
===============================================================================

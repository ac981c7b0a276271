----------------------------- MODULE UniverseFile -----------------------------
(***************************************************************************)
(* scripts/build_universe.py and apply_corrections_to_universe.py write    *)
(* the list of symbols that the screener runs over and that peers are      *)
(* suggested from.                                                         *)
(*                                                                         *)
(* A symbol is <<base, class, venue>>, both "" for a plain American one.   *)
(* A raw ticker is [base, class, mark], where mark is how the source       *)
(* writes the class: "none", "space", "letter" (ERICb), "dot" (BT.A), or   *)
(* "trailing" for a dot behind a ticker without one; None is a blank cell. *)
(***************************************************************************)
EXTENDS SourceValues, Integers, FiniteSets, Sequences, Functions

CONSTANTS
  Venues,             \* the exchanges and countries with a suffix: name -> suffix
  Corrections,        \* SYMBOL_CORRECTIONS: a symbol known to be wrong -> the right one
  Dropped,            \* SYMBOL_DROP: symbols without a company behind them
  Fallback,           \* STOXX_FALLBACK, a sequence
  StoxxMinComplete,   \* entries of a whole index
  ISharesMinRows,     \* rows of what can be the holdings at all
  Sources,            \* what the sources can answer: see Fetch
  FirstUniverse,      \* the file in the repository
  MaxBuilds           \* bound of the runs of a script

IsList(rows) == rows \in Seq(Range(rows))

\* No right symbol is wrong or dropped, neither is one of the file in the repository,
\* and the last resort alone is no whole index.
ASSUME UniverseConstants ==
  /\ \A s \in DOMAIN Corrections : Corrections[s] \notin DOMAIN Corrections \cup Dropped
  /\ FirstUniverse \cap (DOMAIN Corrections \cup Dropped) = {}
  /\ ISharesMinRows \in Nat /\ StoxxMinComplete \in Nat
  /\ ISharesMinRows <= StoxxMinComplete
  /\ IsList(Fallback) /\ Len(Fallback) < StoxxMinComplete
  /\ MaxBuilds \in Nat

\* Every source answers with a list, if it answers.
ASSUME SourceLists ==
  \A s \in Sources :
    /\ IsList(s.urls) /\ \A u \in DOMAIN s.urls : s.urls[u] = None \/ IsList(s.urls[u])
    /\ s.wikipedia = None \/ IsList(s.wikipedia)

VARIABLES
  universe,     \* data/universe.json: [whole, symbols, stated], stated: what it was made from
  provenance,   \* data/universe_provenance.json: [tier, total], or None while it is torn
  script,       \* the script that runs, or None
  builds        \* runs of a script so far

universeVars == <<universe, provenance, script, builds>>

(***************************************************************************)
(* Symbols.                                                                *)
(***************************************************************************)
\* American lists: the dot of a class becomes a hyphen.
NormaliseUsTicker(raw) == <<raw.base, raw.class, "">>

\* The holdings: a class in any of its spellings, a trailing dot is no part of a ticker.
NormaliseISharesTicker(raw, venue) == <<raw.base, raw.class, venue>>

\* The table of Wikipedia: a dot inside a ticker stays, and Yahoo knows no such symbol.
CountryTicker(raw, venue) ==
  <<raw.base, IF raw.mark = "dot" THEN "." \o raw.class ELSE raw.class, venue>>

\* None for a blank cell and for a country without a suffix.
ApplyCountrySuffix(raw, country) ==
  IF raw = None THEN None
  ELSE IF country = "Bermuda" THEN CountryTicker(raw, "L")
  ELSE IF country = "Israel" THEN CountryTicker(raw, "")
  ELSE IF country \in DOMAIN Venues THEN CountryTicker(raw, Venues[country]) ELSE None

\* A row of the holdings is [raw, asset, shares, exchange]; shares that cannot be read
\* count as held.
IsHolding(row) ==
  /\ row.asset = "Equity" /\ row.raw # None
  /\ row.shares # "zero"
  /\ row.exchange \in DOMAIN Venues

\* What is read of a list: the symbols by the place of their rows in it.
ParseISharesCsv(rows) ==
  [k \in {k \in DOMAIN rows : IsHolding(rows[k])} |->
     NormaliseISharesTicker(rows[k].raw, Venues[rows[k].exchange])]

ParseWikipedia(rows) ==
  LET symbol(k) == ApplyCountrySuffix(rows[k].raw, rows[k].country)
  IN [k \in {k \in DOMAIN rows : symbol(k) # None} |-> symbol(k)]

\* Doubles count: a list is measured before it becomes a set.
Size(tickers) == Cardinality(DOMAIN tickers)

(***************************************************************************)
(* The sources: [us, urls, wikipedia].  us is None when one of the two     *)
(* American lists fails, which nothing catches; urls are the answers of    *)
(* the holdings' addresses in order, None for a failure.                   *)
(***************************************************************************)
Stoxx(tickers, tier) == [tickers |-> tickers, tier |-> tier]

IsRealCsv(rows) == IF rows = None THEN FALSE ELSE Size(ParseISharesCsv(rows)) >= ISharesMinRows

FetchISharesFrom(urls) ==
  LET good == {k \in DOMAIN urls : IsRealCsv(urls[k])}
  IN IF good = {} THEN None
     ELSE LET k == CHOOSE k \in good : \A l \in good : k <= l
          IN Stoxx(ParseISharesCsv(urls[k]), <<"ishares", k>>)

FetchStoxx600(s) ==
  LET wiki == IF s.wikipedia = None THEN <<>> ELSE ParseWikipedia(s.wikipedia)
  IN IF FetchISharesFrom(s.urls) # None THEN FetchISharesFrom(s.urls)
     ELSE IF DOMAIN wiki # {} THEN Stoxx(wiki, <<"wikipedia">>)
     ELSE Stoxx(Fallback, <<"hardcoded-fallback">>)

IsComplete(stoxx) == Size(stoxx.tickers) >= StoxxMinComplete

\* Mutant: the symbols are corrected, and none is dropped.
ApplySymbolCorrections_KeepDropped(symbols) ==
  {IF s \in DOMAIN Corrections THEN Corrections[s] ELSE s : s \in symbols}

ApplySymbolCorrections(symbols) ==
  {IF s \in DOMAIN Corrections THEN Corrections[s] ELSE s : s \in symbols \ Dropped}

Combined(us, stoxx) ==
  ApplySymbolCorrections({NormaliseUsTicker(us[k]) : k \in DOMAIN us} \cup Range(stoxx.tickers))

Surviving(symbols) == DOMAIN Corrections \cap symbols

(***************************************************************************)
(* The script.  Each of its two files is opened, which empties it, and     *)
(* then written; the script can be stopped in between.                     *)
(***************************************************************************)
Whole(symbols, stated) == [whole |-> TRUE, symbols |-> symbols, stated |-> stated]
Torn == [whole |-> FALSE, symbols |-> {}, stated |-> None]

UniverseInit ==
  /\ universe = Whole(FirstUniverse, None)
  /\ provenance = [tier |-> <<"ishares", 1>>, total |-> Cardinality(FirstUniverse)]
  /\ script = None
  /\ builds = 0

StartScript(s) ==
  /\ script = None /\ builds < MaxBuilds
  /\ script' = s
  /\ builds' = builds + 1
  /\ UNCHANGED <<universe, provenance>>

\* A failing American list, an index that is not whole without the option, and a symbol
\* that the corrections left end the script before it writes.
Fetch(s, allowPartial) ==
  /\ s.us # None
  /\ LET stoxx == FetchStoxx600(s)
         symbols == Combined(s.us, stoxx)
     IN /\ IsComplete(stoxx) \/ allowPartial
        /\ Surviving(symbols) = {}
        /\ StartScript([at |-> "universe",
                        new |-> Whole(symbols, [sources |-> s, allowed |-> allowPartial]),
                        provenance |-> [tier |-> stoxx.tier, total |-> Cardinality(symbols)]])

\* The other script reads the file and writes it corrected; it leaves the provenance.
LoadToCorrect ==
  /\ universe.whole
  /\ StartScript([at |-> "universe", new |-> [universe EXCEPT !.symbols = ApplySymbolCorrections(@)],
                  provenance |-> None])

OpenUniverse ==
  /\ script # None /\ script.at = "universe"
  /\ universe' = Torn
  /\ script' = [script EXCEPT !.at = "write"]
  /\ UNCHANGED <<provenance, builds>>

WriteUniverse ==
  /\ script # None /\ script.at = "write"
  /\ universe' = script.new
  /\ script' = IF script.provenance = None THEN None ELSE [script EXCEPT !.at = "provenance"]
  /\ UNCHANGED <<provenance, builds>>

OpenProvenance ==
  /\ script # None /\ script.at = "provenance"
  /\ provenance' = None
  /\ script' = [script EXCEPT !.at = "last"]
  /\ UNCHANGED <<universe, builds>>

WriteProvenance ==
  /\ script # None /\ script.at = "last"
  /\ provenance' = script.provenance
  /\ script' = None
  /\ UNCHANGED <<universe, builds>>

StopScript ==
  /\ script # None
  /\ script' = None
  /\ UNCHANGED <<universe, provenance, builds>>

UniverseNext ==
  \/ \E s \in Sources, allow \in BOOLEAN : Fetch(s, allow)
  \/ LoadToCorrect \/ OpenUniverse \/ WriteUniverse
  \/ OpenProvenance \/ WriteProvenance \/ StopScript

(***************************************************************************)
(* Properties.                                                             *)
(***************************************************************************)
\* A row of the holdings that is a company whose shares are held.
IsHeld(row) ==
  /\ row.raw # None /\ row.asset = "Equity" /\ row.shares # "zero"
  /\ row.exchange \in DOMAIN Venues

UsSymbols(s) == {<<s.us[k].base, s.us[k].class, "">> : k \in DOMAIN s.us}
HeldRows(rows) == IF rows = None THEN {} ELSE {k \in DOMAIN rows : IsHeld(rows[k])}
NamedRows(rows) == IF rows = None THEN {} ELSE {k \in DOMAIN rows : rows[k].raw # None}

\* A symbol that a source of the build really lists.
IsListed(symbol, s) ==
  \/ symbol \in UsSymbols(s) \cup Range(Fallback)
  \/ \E u \in DOMAIN s.urls : \E k \in HeldRows(s.urls[u]) :
       LET row == s.urls[u][k] IN symbol = <<row.raw.base, row.raw.class, Venues[row.exchange]>>
  \/ \E k \in NamedRows(s.wikipedia) : symbol[1] = s.wikipedia[k].raw.base

\* The index was large enough, or the option was given.
IsBackedUp(stated) ==
  \/ stated.allowed
  \/ \E u \in DOMAIN stated.sources.urls :
       Cardinality(HeldRows(stated.sources.urls[u])) >= StoxxMinComplete
  \/ Cardinality(NamedRows(stated.sources.wikipedia)) >= StoxxMinComplete

IsVerified(file) ==
  /\ file.symbols \cap (DOMAIN Corrections \cup Dropped) = {}
  /\ file.stated # None =>
       LET s == file.stated.sources IN
       /\ \A symbol \in file.symbols :
            \/ IsListed(symbol, s)
            \/ \E wrong \in DOMAIN Corrections :
                 Corrections[wrong] = symbol /\ IsListed(wrong, s)
       /\ UsSymbols(s) \ (DOMAIN Corrections \cup Dropped) \subseteq file.symbols
       /\ IsBackedUp(file.stated)

(* A whole universe is a verified one.  It has no symbol that is known to  *)
(* be wrong or dead; each of its symbols is one that a source of this      *)
(* build lists, or the correction of such a one; no symbol of the American *)
(* lists is missing; and without the option it is never made when no       *)
(* source of the index listed enough rows, whatever else failed.           *)
UniverseIsVerified == universe.whole => IsVerified(universe)
===============================================================================

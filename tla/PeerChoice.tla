------------------------------ MODULE PeerChoice ------------------------------
(***************************************************************************)
(* The peers of a deep dive: the check of the given ones and the           *)
(* suggestions for empty slots (deepdive/preflight.py, peer_suggest.py),   *)
(* and the choice that a deep dive stores (peer_preflight.py).             *)
(*                                                                         *)
(* A pre-flight reads the universe, then the screener's cache of titles by *)
(* industry and, when that gives too few, by sector; the universe is       *)
(* written and the cache refreshed between any two of these reads.         *)
(* What Yahoo knows of a symbol is [industry, sector, cap, currency], or   *)
(* None; the same of a cached title.                                       *)
(***************************************************************************)
EXTENDS UniverseFile, YFinanceClient

CONSTANTS
  Outages,         \* sets of symbols that Yahoo fails to answer for at a time
  RateOutages,     \* sets of currencies without a rate at a time
  Live,            \* what Yahoo knows: symbol -> facts or None
  Cached,          \* Cached[symbol]: the versions of its cached document, a sequence
  SymbolOrder,     \* the symbols in alphabetical order, a sequence
  Rates,           \* euros for a unit of each currency
  QueryLimit,      \* documents that a query gives at most
  SuggestLimit,    \* suggestions at most
  Checks,          \* pre-flights that can be asked for: [ticker, slots]
  Entries,         \* lists of peers that can be entered
  Rationales,      \* reasons that can be entered, with None for an empty one
  FirstPeers,      \* the peers stored of the ticker, [tickers, rationale], or None
  MaxAttempts,     \* wrong lists until the prompt gives up
  MaxRefreshes     \* bound of the refreshes of the cache

ASSUME PeerConstants ==
  /\ QueryLimit \in Nat \ {0} /\ SuggestLimit \in Nat \ {0}
  /\ MaxAttempts \in Nat \ {0} /\ MaxRefreshes \in Nat
  /\ \A c \in DOMAIN Rates : Rates[c] \in Nat \ {0}
  /\ IsList(SymbolOrder) /\ DOMAIN Cached \subseteq Range(SymbolOrder)
  /\ None \notin Int /\ None \notin DOMAIN Rates \cup {"GBp", "empty"}

\* A market cap is a number and a currency one that has a rate, where they are known.
HasFigures(facts) ==
  /\ facts.cap # None => facts.cap \in Int
  /\ facts.currency # None =>
       \/ facts.currency \in DOMAIN Rates \ DOMAIN MINOR_UNIT
       \/ facts.currency \in DOMAIN MINOR_UNIT /\ MINOR_UNIT[facts.currency].iso \in DOMAIN Rates

\* Every title has a cached document to begin with, or None, and Yahoo's facts are figures too.
ASSUME FactsOfTitles ==
  /\ \A s \in DOMAIN Cached :
       /\ IsList(Cached[s]) /\ Cached[s] # <<>>
       /\ \A facts \in Range(Cached[s]) : facts = None \/ HasFigures(facts)
  /\ \A s \in DOMAIN Live : Live[s] = None \/ HasFigures(Live[s])
  /\ \A c \in Checks : c.ticker \in DOMAIN Live

\* The peers stored in the beginning were chosen by an earlier run.
ASSUME FirstPeersWereChosen ==
  /\ \A entry \in Entries : IsList(entry)
  /\ FirstPeers # None =>
       /\ FirstPeers = [tickers |-> FirstPeers.tickers, rationale |-> FirstPeers.rationale]
       /\ IsList(FirstPeers.tickers) /\ Len(FirstPeers.tickers) = 3

VARIABLES
  docs,        \* the cache of titles in Firestore
  refreshes,
  session,     \* the pre-flight or the choice of peers that runs, or None
  stored,      \* the peers stored of the ticker
  answered,    \* history: the symbols Yahoo has answered for
  stated       \* history: the pairs of peers and reason that somebody stated

cacheVars == <<docs, refreshes>>
choiceVars == <<stored, answered, stated>>
vars == <<universeVars, cacheVars, session, choiceVars>>

PEER_COUNT == 3
MIN_INDUSTRY_HITS == 3

(***************************************************************************)
(* The check of the given peers: by slot, None for an empty one.           *)
(***************************************************************************)
IsResolvable(symbol, down) == symbol \notin down /\ Live[symbol] # None

\* Doubles and the ticker itself are refused before anybody is asked.
PeerRow(slots, k, ticker, down) ==
  [symbol |-> slots[k],
   ok |-> /\ k <= PEER_COUNT
          /\ \A l \in 1..(k - 1) : slots[l] # slots[k]
          /\ slots[k] # ticker
          /\ IsResolvable(slots[k], down)]

\* The rows by their slot.
CheckPeers(slots, ticker, down) ==
  [rows |-> [k \in {k \in DOMAIN slots : slots[k] # None} |-> PeerRow(slots, k, ticker, down)],
   missing |-> {k \in 1..PEER_COUNT : IF k \in DOMAIN slots THEN slots[k] = None ELSE TRUE}]

(***************************************************************************)
(* The order of the suggestions.                                           *)
(***************************************************************************)
IsoCurrency(currency) ==
  IF currency \in DOMAIN MINOR_UNIT THEN MINOR_UNIT[currency].iso ELSE currency

\* Mutant: the market caps are compared as they are, whatever their currency.
ToEur_Raw(cap, currency, noRate) == cap

\* None when cap, currency or rate is not known.
ToEur(cap, currency, noRate) ==
  IF ~Positive(cap) \/ currency = None THEN None
  ELSE IF IsoCurrency(currency) \in noRate THEN None
  ELSE cap * Rates[IsoCurrency(currency)]

EurOf(facts, noRate) == ToEur(facts.cap, facts.currency, noRate)

Larger(x, y) == IF x > y THEN x ELSE y
Smaller(x, y) == IF x > y THEN y ELSE x
Rank(symbol) == CHOOSE k \in DOMAIN SymbolOrder : SymbolOrder[k] = symbol

\* |log(a / target)| < |log(b / target)|.
IsNearer(a, b, target) ==
  Larger(a, target) * Smaller(b, target) < Larger(b, target) * Smaller(a, target)

\* _sort_key: the known caps by their distance, then the others; by name where equal.
SortsBefore(x, y, target) ==
  CASE x.eur = None /\ y.eur = None -> Rank(x.symbol) < Rank(y.symbol)
    [] x.eur # None /\ y.eur = None -> TRUE
    [] x.eur = None /\ y.eur # None -> FALSE
    [] OTHER ->
         IF target = None THEN Rank(x.symbol) < Rank(y.symbol)
         ELSE \/ IsNearer(x.eur, y.eur, target)
              \/ ~IsNearer(y.eur, x.eur, target) /\ Rank(x.symbol) < Rank(y.symbol)

\* found are the symbols that a query gave.
Candidates(found, by, titles, excluded, target, noRate) ==
  LET of == {[symbol |-> s, by |-> by, eur |-> EurOf(docs[s], noRate)] :
               s \in (found \cap titles) \ excluded}
  IN CHOOSE q \in [1..Cardinality(of) -> of] :
       \A i, j \in DOMAIN q : i < j => SortsBefore(q[i], q[j], target)

FirstOf(q, n) == SubSeq(q, 1, Smaller(Len(q), n))

(***************************************************************************)
(* A pre-flight.                                                           *)
(***************************************************************************)
Found(field, value) ==
  {s \in DOMAIN docs : IF docs[s] = None THEN FALSE ELSE docs[s][field] = value}

\* A query gives any documents of the value, as many as it may.
QueryEqual(field, value) ==
  {q \in SUBSET Found(field, value) :
     Cardinality(q) = Smaller(QueryLimit, Cardinality(Found(field, value)))}

Done(base, suggestions, note, asked) ==
  [at |-> "done", base |-> base, suggestions |-> suggestions, note |-> note, asked |-> asked]

\* asked has what was read for the suggestions, if all of it was.
Suggested(asked) ==
  Done(asked.base, asked.picked, IF asked.picked = <<>> THEN "empty" ELSE None, {asked})

At(step) == IF session = None THEN FALSE ELSE session.at = step

\* The ticker and the given peers; suggestions only for empty slots of a known ticker.
StartPreflight(c, down) ==
  /\ session = None
  /\ LET facts == IF c.ticker \in down THEN None ELSE Live[c.ticker]
         base == [ticker |-> c.ticker, facts |-> facts, checked |-> CheckPeers(c.slots, c.ticker, down)]
     IN session' =
          IF base.checked.missing = {} \/ facts = None THEN Done(base, <<>>, None, {})
          ELSE IF facts.industry = None THEN Done(base, <<>>, "no_industry", {})
          ELSE [at |-> "universe", base |-> base]
  /\ UNCHANGED <<universeVars, cacheVars, choiceVars>>

Excluded(base) ==
  {base.ticker} \cup {base.checked.rows[k].symbol : k \in DOMAIN base.checked.rows}

\* Rates that fail once stay unknown for this pre-flight.
LoadUniverse(noRate) ==
  /\ At("universe") /\ universe.whole
  /\ session' = [at |-> "industry", base |-> session.base, noRate |-> noRate,
                 titles |-> universe.symbols, target |-> EurOf(session.base.facts, noRate),
                 seen |-> {}, picked |-> <<>>]
  /\ UNCHANGED <<universeVars, cacheVars, choiceVars>>

\* A torn file is no JSON; nobody catches that error, and the pre-flight has no result.
LoadTornUniverse ==
  /\ At("universe") /\ ~universe.whole
  /\ session' = None
  /\ UNCHANGED <<universeVars, cacheVars, choiceVars>>

Seen(found, by) ==
  session.seen \cup {[symbol |-> s, by |-> by, facts |-> docs[s]] : s \in found}

QueryIndustry(found) ==
  /\ At("industry")
  /\ found \in QueryEqual("industry", session.base.facts.industry)
  /\ LET of == Candidates(found, "industry", session.titles, Excluded(session.base),
                          session.target, session.noRate)
         picked == FirstOf(of, SuggestLimit)
         next == [session EXCEPT !.seen = Seen(found, "industry"), !.picked = picked]
     IN session' = IF Len(picked) < MIN_INDUSTRY_HITS /\ session.base.facts.sector # None
                   THEN [next EXCEPT !.at = "sector"]
                   ELSE Suggested(next)
  /\ UNCHANGED <<universeVars, cacheVars, choiceVars>>

SectorExclusions(base, picked) == Excluded(base) \cup {picked[k].symbol : k \in DOMAIN picked}

QuerySector(found) ==
  /\ At("sector")
  /\ found \in QueryEqual("sector", session.base.facts.sector)
  /\ LET of == Candidates(found, "sector", session.titles, SectorExclusions(session.base, session.picked),
                          session.target, session.noRate)
     IN session' = Suggested([session EXCEPT !.seen = Seen(found, "sector"),
                                             !.picked = @ \o FirstOf(of, SuggestLimit - Len(@))])
  /\ UNCHANGED <<universeVars, cacheVars, choiceVars>>

\* Firestore fails, when it is built or in a query.
SuggestFails ==
  /\ At("universe") \/ At("industry") \/ At("sector")
  /\ session' = Done(session.base, <<>>, "unavailable", {})
  /\ UNCHANGED <<universeVars, cacheVars, choiceVars>>

ForgetPreflight ==
  /\ At("done")
  /\ session' = None
  /\ UNCHANGED <<universeVars, cacheVars, choiceVars>>

\* A run of the screener writes a document anew.
Refresh(symbol) ==
  /\ refreshes < MaxRefreshes
  /\ \E facts \in Range(Cached[symbol]) \ {docs[symbol]} : docs' = [docs EXCEPT ![symbol] = facts]
  /\ refreshes' = refreshes + 1
  /\ UNCHANGED <<universeVars, session, choiceVars>>


(***************************************************************************)
(* The peers of a deep dive: from its argument, or asked for, with what is *)
(* stored as the default.                                                  *)
(***************************************************************************)
Peers(tickers, rationale) == [tickers |-> tickers, rationale |-> rationale]

\* Any three; that they differ, from each other and from the ticker, nobody asks here.
IsTriplet(entry) == Len(entry) = PEER_COUNT

\* Mutant: the deep dive trusts what is entered.
ValidateResolvable_Trusting(entry, down) == TRUE

ValidateResolvable(entry, down) == \A k \in DOMAIN entry : IsResolvable(entry[k], down)

IsValid(entry, down) == IsTriplet(entry) /\ ValidateResolvable(entry, down)

\* Those of the entry that Yahoo answered for, up to the first it did not.
Answers(entry, down) ==
  IF ~IsTriplet(entry) THEN {}
  ELSE {entry[k] : k \in {k \in DOMAIN entry : \A l \in 1..k : IsResolvable(entry[l], down)}}

\* With --peers nobody is asked: a list that is not valid ends the run.
ResolveByArgument(entry, rationale, down) ==
  /\ session = None
  /\ answered' = answered \cup Answers(entry, down)
  /\ IF IsValid(entry, down)
     THEN /\ session' = [at |-> "persist", peers |-> Peers(entry, rationale)]
          /\ stated' = stated \cup {Peers(entry, rationale)}
     ELSE session' = [at |-> "error"] /\ UNCHANGED stated
  /\ UNCHANGED <<universeVars, cacheVars, stored>>

\* Without it and without a terminal the run ends; else the default is read.
StartPrompt(isTty) ==
  /\ session = None
  /\ session' = IF isTty THEN [at |-> "prompt", default |-> stored, attempts |-> 0]
                ELSE [at |-> "error"]
  /\ UNCHANGED <<universeVars, cacheVars, choiceVars>>

\* Enter takes the default with its reason, and nobody validates it again.
ConfirmDefault ==
  /\ At("prompt") /\ session.default # None
  /\ session' = [at |-> "persist", peers |-> session.default]
  /\ UNCHANGED <<universeVars, cacheVars, choiceVars>>

EnterPeers(entry, down) ==
  /\ At("prompt")
  /\ answered' = answered \cup Answers(entry, down)
  /\ session' = IF IsValid(entry, down)
                  THEN [at |-> "reason", default |-> session.default, tickers |-> entry]
                ELSE IF session.attempts + 1 < MaxAttempts
                  THEN [session EXCEPT !.attempts = @ + 1]
                ELSE [at |-> "error"]
  /\ UNCHANGED <<universeVars, cacheVars, stored, stated>>

\* Enter keeps the old reason, also for a new list; the prompt says so.
KeptReason(default, entered) ==
  IF entered = None /\ default # None THEN default.rationale ELSE entered

EnterReason(entered) ==
  /\ At("reason")
  /\ LET peers == Peers(session.tickers, KeptReason(session.default, entered))
     IN /\ session' = [at |-> "persist", peers |-> peers]
        /\ stated' = stated \cup {peers}
  /\ UNCHANGED <<universeVars, cacheVars, stored, answered>>

\* The choice is stored before anything else of the run is done.
Persist ==
  /\ At("persist")
  /\ stored' = session.peers
  /\ session' = [session EXCEPT !.at = "build"]
  /\ UNCHANGED <<universeVars, cacheVars, answered, stated>>

\* Firestore fails at the default or at storing the choice.
ChoiceFails ==
  /\ \/ At("prompt") /\ session.attempts = 0
     \/ At("persist")
  /\ session' = [at |-> "error"]
  /\ UNCHANGED <<universeVars, cacheVars, choiceVars>>

\* Each peer is asked for again; one without an answer is a row without figures.
BuildPeers(down) ==
  /\ At("build")
  /\ session' = [at |-> "built", peers |-> session.peers,
                 rows |-> [k \in DOMAIN session.peers.tickers |->
                             IsResolvable(session.peers.tickers[k], down)]]
  /\ UNCHANGED <<universeVars, cacheVars, choiceVars>>

EndChoice ==
  /\ At("built") \/ At("error")
  /\ session' = None
  /\ UNCHANGED <<universeVars, cacheVars, choiceVars>>

(***************************************************************************)
(* The specification.                                                      *)
(***************************************************************************)
Init ==
  /\ UniverseInit
  /\ docs = [s \in DOMAIN Cached |-> Cached[s][1]]
  /\ refreshes = 0
  /\ session = None
  /\ stored = FirstPeers
  /\ stated = IF FirstPeers = None THEN {} ELSE {FirstPeers}
  /\ answered = IF FirstPeers = None THEN {} ELSE Range(FirstPeers.tickers)

Next ==
  \/ UniverseNext /\ UNCHANGED <<cacheVars, session, choiceVars>>
  \/ \E s \in DOMAIN Cached : Refresh(s)
  \/ \E c \in Checks, down \in Outages : StartPreflight(c, down)
  \/ \E noRate \in RateOutages : LoadUniverse(noRate)
  \/ LoadTornUniverse
  \/ \E found \in SUBSET DOMAIN docs : QueryIndustry(found) \/ QuerySector(found)
  \/ SuggestFails \/ ForgetPreflight
  \/ \E entry \in Entries, r \in Rationales, down \in Outages : ResolveByArgument(entry, r, down)
  \/ \E isTty \in BOOLEAN : StartPrompt(isTty)
  \/ ConfirmDefault
  \/ \E entry \in Entries, down \in Outages : EnterPeers(entry, down)
  \/ \E r \in Rationales : EnterReason(r)
  \/ Persist \/ ChoiceFails
  \/ \E down \in Outages : BuildPeers(down)
  \/ EndChoice

Spec == Init /\ [][Next]_vars

(***************************************************************************)
(* Properties.                                                             *)
(***************************************************************************)
\* The market cap in euros, None when it or the rate is not known.
EurosOf(facts, noRate) ==
  LET iso == IF facts.currency = "GBp" THEN "GBP" ELSE facts.currency
  IN IF ~Positive(facts.cap) \/ iso = None \/ iso \in noRate THEN None ELSE facts.cap * Rates[iso]

\* a is nearer to x than b: the ratio counts, in either direction.
IsCloserTo(x, a, b) ==
  LET distance(n) == IF n > x THEN <<n, x>> ELSE <<x, n>>
  IN distance(a)[1] * distance(b)[2] < distance(b)[1] * distance(a)[2]

IsHonest(q, note, asked) ==
  LET taken == {q[k].symbol : k \in DOMAIN q}
      byIndustry == {k \in DOMAIN q : q[k].by = "industry"}
      Fits(o) == o.symbol \in asked.titles \ Excluded(asked.base)
      Euros(o) == EurosOf(o.facts, asked.noRate)
      target == EurosOf(asked.base.facts, asked.noRate)
      suggested == {o \in asked.seen : o.by = "industry" /\ o.symbol \in taken}
      leftOut == {o \in asked.seen : o.by = "industry" /\ Fits(o) /\ o.symbol \notin taken}
  IN /\ Cardinality(taken) = Len(q) /\ Len(q) <= SuggestLimit
     /\ note = "empty" <=> ~\E o \in asked.seen : Fits(o)
     /\ taken \subseteq asked.titles \ Excluded(asked.base)
     /\ \A k \in byIndustry, l \in DOMAIN q \ byIndustry : k < l
     /\ Cardinality(byIndustry) >= 3 => byIndustry = DOMAIN q
     /\ leftOut # {} => Cardinality(byIndustry) = SuggestLimit
     /\ \A out \in leftOut, in \in suggested :
          Euros(out) # None =>
            /\ Euros(in) # None
            /\ target # None => ~IsCloserTo(target, Euros(out), Euros(in))

(* The suggestions of a pre-flight are what the user takes them for.  They *)
(* are different symbols of the universe as it was read, never the ticker  *)
(* or a peer that is already given; those of the industry come first, and  *)
(* the sector is asked only when the industry gave fewer than three; no    *)
(* title of the industry that the query gave is left out while it is       *)
(* nearer in euros than one that is suggested, whatever currency each is   *)
(* cached in; and "nothing fitted" is never said of a source that failed.  *)
SuggestionsAreHonest ==
  At("done") =>
    /\ session.asked = {} => session.suggestions = <<>> /\ session.note # "empty"
    /\ \A asked \in session.asked : IsHonest(session.suggestions, session.note, asked)

(* What a deep dive compares with is established.  The stored peers and    *)
(* those that a run goes on with are three symbols, each of which Yahoo    *)
(* has answered for; and list and reason are a pair that somebody stated:  *)
(* neither a failed attempt, nor a default that is confirmed, nor a run    *)
(* that ends early makes a new one of them.                                *)
PeersAreEstablished ==
  LET inUse == (IF stored = None THEN {} ELSE {stored})
               \cup (IF At("persist") \/ At("build") \/ At("built") THEN {session.peers} ELSE {})
  IN \A p \in inUse :
       /\ Len(p.tickers) = PEER_COUNT
       /\ Range(p.tickers) \subseteq answered
       /\ p \in stated
===============================================================================

--------------------------- MODULE PeerChoice_proofs ---------------------------
(***************************************************************************)
(* Proofs about PeerChoice and UniverseFile for every list of the sources, *)
(* every table of corrections, every cache of titles and whatever Yahoo,   *)
(* the FX feed and Firestore answer.                                       *)
(*                                                                         *)
(* The three theorems have an inductive invariant each.  UniverseInv: the  *)
(* file that the script is going to write is verified before it is opened. *)
(* ChoiceInv: wherever a run stands, the peers it will go on with have     *)
(* been answered for and stated.  PreflightInv: what has been picked so    *)
(* far is the best of what has been read; it rests on the sort being a     *)
(* strict order, so that the sorted list exists and is whole.              *)
(***************************************************************************)
EXTENDS PeerChoice, FiniteOrders, SequenceTheorems

IsFile(file) == file = [whole |-> file.whole, symbols |-> file.symbols, stated |-> file.stated]

\* The file that the script is going to write is as good as one that is written.
ScriptInv ==
  script # None =>
    /\ script = [at |-> script.at, new |-> script.new, provenance |-> script.provenance]
    /\ IsFile(script.new)
    /\ script.at \in {"universe", "write"} /\ script.new.whole => IsVerified(script.new)

UniverseInv == IsFile(universe) /\ UniverseIsVerified /\ ScriptInv

\* Three symbols, each of them answered for, and a reason that was stated with them.
IsListOfThree(tickers, ofAll) ==
  /\ DOMAIN tickers = 1..PEER_COUNT /\ Len(tickers) = PEER_COUNT
  /\ \A k \in 1..PEER_COUNT : tickers[k] \in ofAll

Established(p, ofAll, said) ==
  /\ p = Peers(p.tickers, p.rationale)
  /\ IsListOfThree(p.tickers, ofAll)
  /\ p \in said

\* Wherever the run stands, the peers it will go on with are established already.
ChoiceInv ==
  /\ stored # None => Established(stored, answered, stated)
  /\ At("persist") \/ At("build") \/ At("built") => Established(session.peers, answered, stated)
  /\ At("persist") => session = [at |-> "persist", peers |-> session.peers]
  /\ At("prompt") =>
       /\ session = [at |-> "prompt", default |-> session.default, attempts |-> session.attempts]
       /\ session.default # None => Established(session.default, answered, stated)
  /\ At("reason") => IsListOfThree(session.tickers, answered)
-----------------------------------------------------------------------------
(***************************************************************************)
(* The universe.                                                           *)
(***************************************************************************)
\* Correcting a file takes away every symbol that is known to be wrong or dead.
LEMMA CorrectedIsClean ==
  ASSUME NEW symbols, symbols \cap (DOMAIN Corrections \cup Dropped) = {}
  PROVE  /\ ApplySymbolCorrections(symbols) = symbols
         /\ ApplySymbolCorrections(symbols) \cap (DOMAIN Corrections \cup Dropped) = {}
  BY DEF ApplySymbolCorrections

\* What the script reads of the holdings are symbols of rows of companies held.
LEMMA HoldingsAreListed ==
  ASSUME NEW rows, rows # None, IsList(rows)
  PROVE  /\ DOMAIN ParseISharesCsv(rows) = HeldRows(rows)
         /\ \A k \in HeldRows(rows) :
              ParseISharesCsv(rows)[k] = <<rows[k].raw.base, rows[k].raw.class, Venues[rows[k].exchange]>>
<1>1. \A k \in DOMAIN rows : IsHolding(rows[k]) <=> IsHeld(rows[k])
  BY DEF IsHolding, IsHeld
<1>2. QED
  BY <1>1 DEF ParseISharesCsv, HeldRows, NormaliseISharesTicker

\* What it reads of the table are symbols of rows with a ticker, the base of each unchanged.
LEMMA TableIsListed ==
  ASSUME NEW rows, rows # None, IsList(rows)
  PROVE  /\ DOMAIN ParseWikipedia(rows) \subseteq NamedRows(rows)
         /\ \A k \in DOMAIN ParseWikipedia(rows) : ParseWikipedia(rows)[k][1] = rows[k].raw.base
<1>1. ASSUME NEW raw, NEW country, ApplyCountrySuffix(raw, country) # None
      PROVE  raw # None /\ ApplyCountrySuffix(raw, country)[1] = raw.base
  BY <1>1 DEF ApplyCountrySuffix, CountryTicker
<1>2. QED
  BY <1>1 DEF ParseWikipedia, NamedRows

\* The rows of a list are finitely many.
LEMMA RowsAreFinite ==
  ASSUME NEW rows, IsList(rows)
  PROVE  /\ DOMAIN rows = 1..Len(rows) /\ Len(rows) \in Nat
         /\ IsFiniteSet(DOMAIN rows) /\ Cardinality(DOMAIN rows) = Len(rows)
<1>1. rows \in Seq(Range(rows))
  BY DEF IsList
<1>2. DOMAIN rows = 1..Len(rows) /\ Len(rows) \in Nat
  BY <1>1, LenProperties
<1>3. \A n \in Nat : IsFiniteSet(1..n) /\ Cardinality(1..n) = n
  BY FS_Interval
<1>4. QED
  BY <1>2, <1>3

\* Whatever the sources answered, each ticker of the index is listed by one of them, and
\* the index counts as complete only when the holdings or the table were large enough.
LEMMA IndexIsListed ==
  ASSUME NEW s \in Sources
  PROVE  /\ \A t \in Range(FetchStoxx600(s).tickers) : IsListed(t, s)
         /\ IsComplete(FetchStoxx600(s)) =>
              \/ \E u \in DOMAIN s.urls : Cardinality(HeldRows(s.urls[u])) >= StoxxMinComplete
              \/ Cardinality(NamedRows(s.wikipedia)) >= StoxxMinComplete
<1> DEFINE good == {k \in DOMAIN s.urls : IsRealCsv(s.urls[k])}
           wiki == IF s.wikipedia = None THEN <<>> ELSE ParseWikipedia(s.wikipedia)
<1> USE DEF Stoxx
<1>1. CASE FetchISharesFrom(s.urls) # None
  <2>1. good # {}
    BY <1>1 DEF FetchISharesFrom
  <2>2. good \in SUBSET Nat
    BY SourceLists, RowsAreFinite
  <2>3. \E k \in good : \A l \in good : k <= l
    BY <2>1, <2>2, LeastNumber
  <2>4. PICK u \in good : FetchISharesFrom(s.urls) = Stoxx(ParseISharesCsv(s.urls[u]), <<"ishares", u>>)
    BY <1>1, <2>3 DEF FetchISharesFrom
  <2>5. s.urls[u] # None /\ IsList(s.urls[u])
    BY SourceLists DEF IsRealCsv
  <2>6. FetchStoxx600(s).tickers = ParseISharesCsv(s.urls[u])
    BY <1>1, <2>4 DEF FetchStoxx600
  <2>7. \A t \in Range(ParseISharesCsv(s.urls[u])) : IsListed(t, s)
    <3>1. \A k \in HeldRows(s.urls[u]) : IsListed(ParseISharesCsv(s.urls[u])[k], s)
      BY <2>5, HoldingsAreListed DEF IsListed
    <3>2. QED
      BY <2>5, <3>1, HoldingsAreListed DEF Range
  <2>8. Cardinality(DOMAIN ParseISharesCsv(s.urls[u])) = Cardinality(HeldRows(s.urls[u]))
    BY <2>5, HoldingsAreListed
  <2>9. QED
    BY <2>6, <2>7, <2>8 DEF IsComplete, Size
<1>2. CASE FetchISharesFrom(s.urls) = None /\ DOMAIN wiki # {}
  <2>1. s.wikipedia # None /\ IsList(s.wikipedia)
    BY <1>2, SourceLists
  <2>2. FetchStoxx600(s).tickers = ParseWikipedia(s.wikipedia)
    BY <1>2, <2>1 DEF FetchStoxx600
  <2>3. \A t \in Range(ParseWikipedia(s.wikipedia)) : IsListed(t, s)
    BY <2>1, TableIsListed DEF Range, IsListed
  <2>4. IsFiniteSet(NamedRows(s.wikipedia))
    BY <2>1, RowsAreFinite, FS_Subset DEF NamedRows
  <2>5. Cardinality(DOMAIN ParseWikipedia(s.wikipedia)) <= Cardinality(NamedRows(s.wikipedia))
    BY <2>1, <2>4, TableIsListed, FS_Subset
  <2>6. /\ Cardinality(DOMAIN ParseWikipedia(s.wikipedia)) \in Nat
        /\ Cardinality(NamedRows(s.wikipedia)) \in Nat
    BY <2>1, <2>4, TableIsListed, FS_Subset, FS_CardinalityType
  <2>7. QED
    BY <2>2, <2>3, <2>5, <2>6, UniverseConstants DEF IsComplete, Size
<1>3. CASE FetchISharesFrom(s.urls) = None /\ DOMAIN wiki = {}
  <2>1. FetchStoxx600(s).tickers = Fallback
    BY <1>3 DEF FetchStoxx600
  <2>2. ~IsComplete(FetchStoxx600(s))
    BY <2>1, UniverseConstants, RowsAreFinite DEF IsComplete, Size
  <2>3. QED
    BY <2>1, <2>2 DEF IsListed
<1>4. QED
  BY <1>1, <1>2, <1>3

\* A new file that the script goes on to write is verified.
LEMMA FetchedIsVerified ==
  ASSUME NEW s \in Sources, NEW allow \in BOOLEAN,
         NEW symbols, symbols = Combined(s.us, FetchStoxx600(s)),
         IsComplete(FetchStoxx600(s)) \/ allow, Surviving(symbols) = {}
  PROVE  IsVerified(Whole(symbols, [sources |-> s, allowed |-> allow]))
<1> DEFINE raw == UsSymbols(s) \cup Range(FetchStoxx600(s).tickers)
           new == Whole(symbols, [sources |-> s, allowed |-> allow])
<1>1. /\ new.symbols = symbols /\ new.stated.sources = s /\ new.stated.allowed = allow
  BY DEF Whole
<1>2. {NormaliseUsTicker(s.us[k]) : k \in DOMAIN s.us} = UsSymbols(s)
  BY DEF NormaliseUsTicker, UsSymbols
<1>3. symbols = {IF t \in DOMAIN Corrections THEN Corrections[t] ELSE t : t \in raw \ Dropped}
  BY <1>2 DEF Combined, ApplySymbolCorrections
<1>4. symbols \cap (DOMAIN Corrections \cup Dropped) = {}
  BY <1>3, UniverseConstants DEF Surviving
<1>5. \A t \in raw : IsListed(t, s)
  BY IndexIsListed DEF IsListed
<1>6. \A symbol \in symbols :
        \/ IsListed(symbol, s)
        \/ \E wrong \in DOMAIN Corrections : Corrections[wrong] = symbol /\ IsListed(wrong, s)
  <2> HIDE DEF raw
  <2> QED BY <1>3, <1>5
<1>7. UsSymbols(s) \ (DOMAIN Corrections \cup Dropped) \subseteq symbols
  BY <1>3
<1>8. IsBackedUp(new.stated)
  BY <1>1, IndexIsListed DEF IsBackedUp
<1>9. IsVerified(new)
  <2> HIDE DEF new, raw
  <2> QED BY <1>1, <1>4, <1>6, <1>7, <1>8 DEF IsVerified
<1>10. QED
  BY <1>9

\* Before the first build there is no file.
LEMMA UniverseInit_Inv ==
  ASSUME UniverseInit
  PROVE  UniverseInv
<1>1. IsVerified(universe)
  BY UniverseConstants DEF UniverseInit, Whole, IsVerified
<1>2. QED
  BY <1>1 DEF UniverseInit, Whole, IsFile, UniverseInv, UniverseIsVerified, ScriptInv

\* What the script has read is verified before it opens the file, and each step either
\* leaves the file, tears it or writes what was verified.
LEMMA UniverseStep ==
  ASSUME UniverseInv, UniverseNext
  PROVE  UniverseInv'
<1> USE DEF UniverseInv, UniverseIsVerified, ScriptInv
<1>1. ASSUME NEW s \in Sources, NEW allow \in BOOLEAN, Fetch(s, allow)
      PROVE  UniverseInv'
  <2> DEFINE symbols == Combined(s.us, FetchStoxx600(s))
             new == Whole(symbols, [sources |-> s, allowed |-> allow])
  <2>1. IsVerified(new)
    BY <1>1, FetchedIsVerified DEF Fetch
  <2>2. /\ universe' = universe
        /\ script' = [at |-> "universe", new |-> new,
                      provenance |-> [tier |-> FetchStoxx600(s).tier, total |-> Cardinality(symbols)]]
    BY <1>1 DEF Fetch, StartScript
  <2> HIDE DEF new, symbols
  <2>3. IsFile(new)
    BY DEF new, IsFile, Whole
  <2>4. QED
    <3> HIDE DEF new
    <3> QED BY <2>1, <2>2, <2>3
<1>2. CASE LoadToCorrect
  <2> DEFINE new == [universe EXCEPT !.symbols = ApplySymbolCorrections(@)]
  <2>1. IsVerified(universe)
    BY <1>2 DEF LoadToCorrect
  <2>2. ApplySymbolCorrections(universe.symbols) = universe.symbols
    BY <2>1, CorrectedIsClean DEF IsVerified
  <2>3. new = universe
    BY <2>2 DEF IsFile
  <2>4. /\ universe' = universe
        /\ script' = [at |-> "universe", new |-> universe, provenance |-> None]
    BY <1>2, <2>3 DEF LoadToCorrect, StartScript
  <2>5. QED
    BY <2>1, <2>4
<1>3. CASE OpenUniverse
  <2>1. ~universe'.whole /\ IsFile(universe')
    BY <1>3 DEF OpenUniverse, Torn, IsFile
  <2>2. /\ script' = [at |-> "write", new |-> script.new, provenance |-> script.provenance]
        /\ IsFile(script.new) /\ (script.new.whole => IsVerified(script.new))
    BY <1>3 DEF OpenUniverse
  <2>3. QED
    BY <2>1, <2>2
<1>4. CASE WriteUniverse
  <2>1. IsFile(universe') /\ (universe'.whole => IsVerified(universe'))
    BY <1>4 DEF WriteUniverse
  <2>2. /\ IsFile(script.new)
        /\ \/ script' = None
           \/ script' = [at |-> "provenance", new |-> script.new, provenance |-> script.provenance]
    BY <1>4 DEF WriteUniverse
  <2>3. QED
    BY <2>1, <2>2
<1>5. CASE OpenProvenance
  <2>1. universe' = universe
    BY <1>5 DEF OpenProvenance
  <2>2. /\ script' = [at |-> "last", new |-> script.new, provenance |-> script.provenance]
        /\ IsFile(script.new)
    BY <1>5 DEF OpenProvenance
  <2>3. QED
    BY <2>1, <2>2
<1>6. CASE WriteProvenance
  BY <1>6 DEF WriteProvenance
<1>7. CASE StopScript
  BY <1>7 DEF StopScript
<1>8. QED
  BY <1>1, <1>2, <1>3, <1>4, <1>5, <1>6, <1>7 DEF UniverseNext
-----------------------------------------------------------------------------
(***************************************************************************)
(* The peers of a deep dive.                                               *)
(***************************************************************************)
\* What is established stays so: the histories only grow.
LEMMA EstablishedStays ==
  ASSUME NEW p, NEW ofAll, NEW said, NEW more, NEW saidMore,
         Established(p, ofAll, said), ofAll \subseteq more, said \subseteq saidMore
  PROVE  Established(p, more, saidMore)
  BY DEF Established, IsListOfThree

\* A list that passed the check has three symbols, and Yahoo answered for each.
LEMMA ValidIsAnswered ==
  ASSUME NEW entry \in Entries, NEW down, IsValid(entry, down)
  PROVE  IsListOfThree(entry, Answers(entry, down))
<1>1. Len(entry) = 3 /\ DOMAIN entry = 1..3
  BY FirstPeersWereChosen, RowsAreFinite DEF IsValid, IsTriplet, PEER_COUNT
<1>2. \A k \in 1..3 : IsResolvable(entry[k], down)
  BY <1>1 DEF IsValid, ValidateResolvable
<1>3. \A k \in 1..3 : entry[k] \in Answers(entry, down)
  BY <1>1, <1>2 DEF Answers, IsTriplet, PEER_COUNT
<1>4. QED
  BY <1>1, <1>3 DEF IsListOfThree, PEER_COUNT

\* Before the first choice nothing is stored and nothing is in use.
LEMMA ChoiceInit ==
  ASSUME Init
  PROVE  ChoiceInv
<1>1. stored # None => Established(stored, answered, stated)
  <2>1. SUFFICES ASSUME FirstPeers # None
                 PROVE  Established(FirstPeers, Range(FirstPeers.tickers), {FirstPeers})
    BY DEF Init
  <2>2. Len(FirstPeers.tickers) = 3 /\ DOMAIN FirstPeers.tickers = 1..3
    BY <2>1, FirstPeersWereChosen, RowsAreFinite
  <2>3. FirstPeers = Peers(FirstPeers.tickers, FirstPeers.rationale)
    BY <2>1, FirstPeersWereChosen DEF Peers
  <2>4. QED
    BY <2>2, <2>3 DEF Established, IsListOfThree, PEER_COUNT, Range
<1>2. QED
  BY <1>1 DEF Init, ChoiceInv, At

\* A step without a choice, and without one going on or beginning.
LEMMA NoChoiceStep ==
  ASSUME ChoiceInv, UNCHANGED choiceVars,
         \/ session' = session
         \/ session' = None
         \/ session'.at \notin {"persist", "build", "built", "prompt", "reason"}
  PROVE  ChoiceInv'
<1>1. stored' = stored /\ answered' = answered /\ stated' = stated
  BY DEF choiceVars
<1>2. QED
  BY <1>1 DEF ChoiceInv, At

\* Every step of a choice keeps what is stored a list that was answered for and stated.
LEMMA ChoiceStep ==
  ASSUME ChoiceInv, [Next]_vars
  PROVE  ChoiceInv'
<1>1. ASSUME UniverseNext, UNCHANGED <<cacheVars, session, choiceVars>>
      PROVE  ChoiceInv'
  BY <1>1, NoChoiceStep
<1>2. ASSUME NEW s \in DOMAIN Cached, Refresh(s)
      PROVE  ChoiceInv'
  BY <1>2, NoChoiceStep DEF Refresh
<1>3. ASSUME NEW c \in Checks, NEW down \in Outages, StartPreflight(c, down)
      PROVE  ChoiceInv'
  <2>1. session'.at \in {"universe", "done"}
    BY <1>3 DEF StartPreflight, Done
  <2>2. QED
    BY <1>3, <2>1, NoChoiceStep DEF StartPreflight
<1>4. ASSUME NEW noRate \in RateOutages, LoadUniverse(noRate)
      PROVE  ChoiceInv'
  <2>1. session'.at = "industry"
    BY <1>4 DEF LoadUniverse
  <2>2. QED
    BY <1>4, <2>1, NoChoiceStep DEF LoadUniverse
<1>5. CASE LoadTornUniverse \/ ForgetPreflight \/ EndChoice
  BY <1>5, NoChoiceStep DEF LoadTornUniverse, ForgetPreflight, EndChoice
<1>6. ASSUME NEW found \in SUBSET DOMAIN docs, QueryIndustry(found)
      PROVE  ChoiceInv'
  BY <1>6, NoChoiceStep DEF QueryIndustry, Suggested, Done
<1>7. ASSUME NEW found \in SUBSET DOMAIN docs, QuerySector(found)
      PROVE  ChoiceInv'
  BY <1>7, NoChoiceStep DEF QuerySector, Suggested, Done
<1>8. CASE SuggestFails \/ ChoiceFails
  BY <1>8, NoChoiceStep DEF SuggestFails, ChoiceFails, Done
<1>9. ASSUME NEW entry \in Entries, NEW r \in Rationales, NEW down \in Outages,
             ResolveByArgument(entry, r, down)
      PROVE  ChoiceInv'
  <2>1. answered \subseteq answered' /\ stated \subseteq stated' /\ stored' = stored
    BY <1>9 DEF ResolveByArgument
  <2>2. stored' # None => Established(stored', answered', stated')
    BY <2>1, EstablishedStays DEF ChoiceInv
  <2>3. CASE IsValid(entry, down)
    <3>1. /\ session' = [at |-> "persist", peers |-> Peers(entry, r)]
          /\ Peers(entry, r) \in stated' /\ Answers(entry, down) \subseteq answered'
      BY <1>9, <2>3 DEF ResolveByArgument
    <3>2. IsListOfThree(entry, answered')
      BY <2>3, <3>1, ValidIsAnswered DEF IsListOfThree
    <3>3. Established(Peers(entry, r), answered', stated')
      BY <3>1, <3>2 DEF Established, Peers
    <3>4. QED
      BY <2>2, <3>1, <3>3 DEF ChoiceInv, At
  <2>4. CASE ~IsValid(entry, down)
    <3>1. session' = [at |-> "error"]
      BY <1>9, <2>4 DEF ResolveByArgument
    <3>2. QED
      BY <2>2, <3>1 DEF ChoiceInv, At
  <2>5. QED
    BY <2>3, <2>4
<1>10. ASSUME NEW isTty \in BOOLEAN, StartPrompt(isTty)
       PROVE  ChoiceInv'
  BY <1>10 DEF StartPrompt, ChoiceInv, At, choiceVars
<1>11. CASE ConfirmDefault
  BY <1>11 DEF ConfirmDefault, ChoiceInv, At, choiceVars
<1>12. ASSUME NEW entry \in Entries, NEW down \in Outages, EnterPeers(entry, down)
       PROVE  ChoiceInv'
  <2>1. answered \subseteq answered' /\ stated' = stated /\ stored' = stored
    BY <1>12 DEF EnterPeers
  <2>2. stored' # None => Established(stored', answered', stated')
    BY <2>1, EstablishedStays DEF ChoiceInv
  <2>3. session.default # None => Established(session.default, answered', stated')
    BY <1>12, <2>1, EstablishedStays DEF ChoiceInv, EnterPeers
  <2>4. CASE IsValid(entry, down)
    <3>1. /\ session' = [at |-> "reason", default |-> session.default, tickers |-> entry]
          /\ Answers(entry, down) \subseteq answered'
      BY <1>12, <2>4 DEF EnterPeers
    <3>2. IsListOfThree(entry, answered')
      BY <2>4, <3>1, ValidIsAnswered DEF IsListOfThree
    <3>3. QED
      BY <2>2, <3>1, <3>2 DEF ChoiceInv, At
  <2>5. CASE ~IsValid(entry, down)
    <3>1. session = [at |-> "prompt", default |-> session.default, attempts |-> session.attempts]
      BY <1>12 DEF ChoiceInv, EnterPeers
    <3>2. \/ session' = [at |-> "error"]
          \/ session' = [at |-> "prompt", default |-> session.default, attempts |-> session.attempts + 1]
      BY <1>12, <2>5, <3>1 DEF EnterPeers
    <3>3. QED
      BY <2>2, <2>3, <3>2 DEF ChoiceInv, At
  <2>6. QED
    BY <2>4, <2>5
<1>13. ASSUME NEW r \in Rationales, EnterReason(r)
       PROVE  ChoiceInv'
  <2> DEFINE p == Peers(session.tickers, KeptReason(session.default, r))
  <2>1. /\ session' = [at |-> "persist", peers |-> p] /\ p \in stated'
        /\ stated \subseteq stated' /\ answered' = answered /\ stored' = stored
    BY <1>13 DEF EnterReason
  <2>2. stored' # None => Established(stored', answered', stated')
    BY <2>1, EstablishedStays DEF ChoiceInv
  <2>3. Established(p, answered', stated')
    BY <1>13, <2>1 DEF EnterReason, ChoiceInv, Established, Peers
  <2>4. QED
    <3> HIDE DEF p
    <3> QED BY <2>1, <2>2, <2>3 DEF ChoiceInv, At
<1>14. CASE Persist
  <2>1. session = [at |-> "persist", peers |-> session.peers] /\ Established(session.peers, answered, stated)
    BY <1>14 DEF Persist, ChoiceInv
  <2>2. /\ session' = [at |-> "build", peers |-> session.peers] /\ stored' = session.peers
        /\ answered' = answered /\ stated' = stated
    BY <1>14, <2>1 DEF Persist
  <2>3. QED
    BY <2>1, <2>2 DEF ChoiceInv, At
<1>15. ASSUME NEW down \in Outages, BuildPeers(down)
       PROVE  ChoiceInv'
  <2>1. /\ session'.at = "built" /\ session'.peers = session.peers /\ stored' = stored
        /\ answered' = answered /\ stated' = stated
    BY <1>15 DEF BuildPeers, choiceVars
  <2>2. QED
    BY <1>15, <2>1 DEF ChoiceInv, At, BuildPeers
<1>16. CASE UNCHANGED vars
  BY <1>16, NoChoiceStep DEF vars
<1>17. QED
  BY <1>1, <1>2, <1>3, <1>4, <1>5, <1>6, <1>7, <1>8, <1>9, <1>10, <1>11, <1>12, <1>13, <1>14,
     <1>15, <1>16 DEF Next
-----------------------------------------------------------------------------
(***************************************************************************)
(* The order of the suggestions.                                           *)
(***************************************************************************)
Positives == Nat \ {0}
Euros == Positives \cup {None}

\* A market cap in euros is a positive number or not known, and it is what the property
\* takes for it.
LEMMA EurosType ==
  ASSUME NEW facts, HasFigures(facts), NEW noRate
  PROVE  EurOf(facts, noRate) \in Euros /\ EurosOf(facts, noRate) = EurOf(facts, noRate)
<1>1. MINOR_UNIT = [GBp |-> [iso |-> "GBP", divisor |-> 100]] /\ DOMAIN MINOR_UNIT = {"GBp"}
      /\ MINOR_UNIT["GBp"].iso = "GBP"
  BY DEF MINOR_UNIT
<1>2. CASE ~Positive(facts.cap) \/ facts.currency = None
  <2>1. facts.currency = None => EurosOf(facts, noRate) = None
    BY PeerConstants DEF EurosOf
  <2>2. QED
    BY <1>2, <2>1 DEF EurOf, ToEur, EurosOf, Euros
<1>3. CASE Positive(facts.cap) /\ facts.currency # None
  <2> DEFINE iso == IF facts.currency = "GBp" THEN "GBP" ELSE facts.currency
  <2>1. IsoCurrency(facts.currency) = iso
    BY <1>1 DEF IsoCurrency
  <2>2. iso \in DOMAIN Rates
    BY <1>1, <1>3 DEF HasFigures
  <2>3. facts.cap \in Positives /\ Rates[iso] \in Positives
    BY <1>3, <2>2, PeerConstants DEF HasFigures, Positive, Positives
  <2>4. facts.cap * Rates[iso] \in Positives
    <3>1. \A m, n \in Positives : m * n \in Positives
      BY DEF Positives
    <3>2. QED
      BY <2>3, <3>1
  <2>5. iso # None
    BY <1>1, <1>3, <2>2, PeerConstants
  <2>6. QED
    BY <1>3, <2>1, <2>4, <2>5 DEF EurOf, ToEur, EurosOf, Euros
<1>4. QED
  BY <1>2, <1>3

\* Ratios of positive numbers compare transitively.
LEMMA RatiosTransitive ==
  ASSUME NEW a \in Positives, NEW b \in Positives, NEW c \in Positives,
         NEW p \in Positives, NEW q \in Positives, NEW r \in Positives,
         a * q <= b * p, b * r <= c * q
  PROVE  /\ a * r <= c * p
         /\ a * q < b * p \/ b * r < c * q => a * r < c * p
<1> USE DEF Positives
<1>1. (a * r) * q <= (c * p) * q
  <2>1. (a * q) * r <= (b * p) * r
    OBVIOUS
  <2>2. (b * r) * p <= (c * q) * p
    OBVIOUS
  <2>3. QED
    BY <2>1, <2>2
<1>2. ASSUME a * q < b * p \/ b * r < c * q
      PROVE  (a * r) * q < (c * p) * q
  <2>1. CASE a * q < b * p
    <3>1. (a * q) * r < (b * p) * r
      BY <2>1
    <3>2. (b * r) * p <= (c * q) * p
      OBVIOUS
    <3>3. QED
      BY <3>1, <3>2
  <2>2. CASE b * r < c * q
    <3>1. (a * q) * r <= (b * p) * r
      OBVIOUS
    <3>2. (b * r) * p < (c * q) * p
      BY <2>2
    <3>3. QED
      BY <3>1, <3>2
  <2>3. QED
    BY <1>2, <2>1, <2>2
<1>3. \A x, y \in Nat : x * q <= y * q => x <= y
  OBVIOUS
<1>4. \A x, y \in Nat : x * q < y * q => x < y
  OBVIOUS
<1>5. a * r \in Nat /\ c * p \in Nat
  OBVIOUS
<1>6. QED
  BY <1>1, <1>2, <1>3, <1>4, <1>5

\* What the sort compares of two caps: positive, and the larger never below the smaller.
LEMMA RatioType ==
  ASSUME NEW a \in Positives, NEW x \in Positives
  PROVE  Larger(a, x) \in Positives /\ Smaller(a, x) \in Positives
  BY DEF Larger, Smaller, Positives

\* The distance in the sort is the one of the property.
LEMMA NearerIsCloser ==
  ASSUME NEW a \in Positives, NEW b \in Positives, NEW x \in Positives
  PROVE  IsNearer(a, b, x) <=> IsCloserTo(x, a, b)
  BY DEF IsNearer, IsCloserTo, Larger, Smaller, Positives

\* Nearer is a strict weak order of the caps.
LEMMA NearerTransitive ==
  ASSUME NEW a \in Positives, NEW b \in Positives, NEW c \in Positives, NEW x \in Positives,
         ~IsNearer(b, a, x), ~IsNearer(c, b, x)
  PROVE  /\ ~IsNearer(c, a, x)
         /\ IsNearer(a, b, x) \/ IsNearer(b, c, x) => IsNearer(a, c, x)
<1> DEFINE L(n) == Larger(n, x)
           S(n) == Smaller(n, x)
<1>1. /\ L(a) \in Positives /\ L(b) \in Positives /\ L(c) \in Positives
      /\ S(a) \in Positives /\ S(b) \in Positives /\ S(c) \in Positives
  BY RatioType
<1>2. \A m, n \in Positives : m * n \in Nat
  BY DEF Positives
<1>3. \A m, n \in {a, b, c} : IsNearer(m, n, x) <=> L(m) * S(n) < L(n) * S(m)
  BY DEF IsNearer
<1>4. L(a) * S(b) <= L(b) * S(a) /\ L(b) * S(c) <= L(c) * S(b)
  <2> HIDE DEF L, S
  <2> QED BY <1>1, <1>2, <1>3
<1>5. /\ L(a) * S(c) <= L(c) * S(a)
      /\ L(a) * S(b) < L(b) * S(a) \/ L(b) * S(c) < L(c) * S(b) => L(a) * S(c) < L(c) * S(a)
  <2> HIDE DEF L, S
  <2> QED BY <1>1, <1>4, RatiosTransitive
<1>6. QED
  <2> HIDE DEF L, S
  <2> QED BY <1>1, <1>2, <1>3, <1>5

\* Every cached symbol has its own place in the alphabet.
LEMMA RankType ==
  ASSUME NEW s \in DOMAIN Cached
  PROVE  Rank(s) \in Nat /\ SymbolOrder[Rank(s)] = s
<1>1. \E k \in DOMAIN SymbolOrder : SymbolOrder[k] = s
  BY PeerConstants DEF Range
<1>2. Rank(s) \in DOMAIN SymbolOrder /\ SymbolOrder[Rank(s)] = s
  BY <1>1 DEF Rank
<1>3. QED
  BY <1>2, PeerConstants, RowsAreFinite

\* The titles of the cache are finitely many, for the alphabet lists them.
LEMMA TitlesAreFinite ==
  IsFiniteSet(DOMAIN Cached)
<1> DEFINE q == [k \in DOMAIN SymbolOrder |-> SymbolOrder[k]]
<1>1. IsFiniteSet(DOMAIN SymbolOrder)
  BY PeerConstants, RowsAreFinite
<1>2. q \in Surjection(DOMAIN SymbolOrder, Range(SymbolOrder))
  BY DEF Surjection, Range
<1>3. IsFiniteSet(Range(SymbolOrder))
  BY <1>1, <1>2, FS_Surjection
<1>4. QED
  BY <1>3, PeerConstants, FS_Subset

Picks == [symbol : DOMAIN Cached, by : {"industry", "sector"}, eur : Euros]

Earlier(of, target) == {p \in of \X of : SortsBefore(p[1], p[2], target)}

\* The sort puts suggestions of different symbols into one order.
LEMMA SortIsOrder ==
  ASSUME NEW of \in SUBSET Picks, NEW target \in Euros,
         \A x, y \in of : x.symbol = y.symbol => x = y
  PROVE  IsStrictOrder(Earlier(of, target), of)
<1>1. \A x \in of : /\ Rank(x.symbol) \in Nat /\ x.eur \in Euros
                    /\ \A y \in of : Rank(x.symbol) = Rank(y.symbol) => x = y
  BY RankType DEF Picks
<1>2. \A x, y \in of : <<x, y>> \in Earlier(of, target) <=> SortsBefore(x, y, target)
  BY DEF Earlier
<1>3. None \notin Positives
  BY PeerConstants DEF Positives
<1>4. \A x, y \in of :
        SortsBefore(x, y, target) <=>
          \/ x.eur = None /\ y.eur = None /\ Rank(x.symbol) < Rank(y.symbol)
          \/ x.eur # None /\ y.eur = None
          \/ /\ x.eur # None /\ y.eur # None
             /\ IF target = None THEN Rank(x.symbol) < Rank(y.symbol)
                ELSE \/ IsNearer(x.eur, y.eur, target)
                     \/ ~IsNearer(y.eur, x.eur, target) /\ Rank(x.symbol) < Rank(y.symbol)
  BY DEF SortsBefore
<1>5. \A a, x \in Positives : ~IsNearer(a, a, x)
  <2>1. \A m, n \in Positives : m * n \in Nat
    BY DEF Positives
  <2>2. QED
    BY <2>1, RatioType DEF IsNearer
<1>6. \A a, b, x \in Positives : ~(IsNearer(a, b, x) /\ IsNearer(b, a, x))
  <2>1. \A m, n \in Positives : m * n \in Nat
    BY DEF Positives
  <2>2. QED
    BY <2>1, RatioType DEF IsNearer
<1>7. \A x \in of : ~SortsBefore(x, x, target)
  BY <1>1, <1>4, <1>5 DEF Euros
<1>8. ASSUME NEW x \in of, NEW y \in of, NEW z \in of,
             SortsBefore(x, y, target), SortsBefore(y, z, target)
      PROVE  SortsBefore(x, z, target)
  <2>1. CASE target = None \/ z.eur = None
    BY <1>1, <1>4, <1>8, <2>1
  <2>2. CASE target # None /\ z.eur # None
    <3>1. /\ x.eur \in Positives /\ y.eur \in Positives /\ z.eur \in Positives /\ target \in Positives
      BY <1>1, <1>4, <1>8, <2>2 DEF Euros
    <3>2. /\ ~IsNearer(y.eur, x.eur, target) /\ ~IsNearer(z.eur, y.eur, target)
          /\ IsNearer(x.eur, y.eur, target) \/ Rank(x.symbol) < Rank(y.symbol)
          /\ IsNearer(y.eur, z.eur, target) \/ Rank(y.symbol) < Rank(z.symbol)
      BY <1>3, <1>4, <1>6, <1>8, <2>2, <3>1
    <3>3. /\ ~IsNearer(z.eur, x.eur, target)
          /\ IsNearer(x.eur, y.eur, target) \/ IsNearer(y.eur, z.eur, target)
               => IsNearer(x.eur, z.eur, target)
      BY <3>1, <3>2, NearerTransitive
    <3>4. IsNearer(x.eur, z.eur, target) \/ Rank(x.symbol) < Rank(z.symbol)
      BY <1>1, <3>2, <3>3
    <3>5. QED
      BY <1>3, <1>4, <2>2, <3>1, <3>3, <3>4
  <2>3. QED
    BY <2>1, <2>2
<1>9. ASSUME NEW x \in of, NEW y \in of, x # y
      PROVE  SortsBefore(x, y, target) \/ SortsBefore(y, x, target)
  <2>1. Rank(x.symbol) < Rank(y.symbol) \/ Rank(y.symbol) < Rank(x.symbol)
    BY <1>1, <1>9
  <2>2. QED
    BY <1>4, <2>1
<1>10. QED
  BY <1>2, <1>7, <1>8, <1>9 DEF IsStrictOrder
-----------------------------------------------------------------------------
(***************************************************************************)
(* The answer of a query and what is picked from it.                       *)
(***************************************************************************)
\* The titles that a query gave, as they are remembered, and one of them as a suggestion.
Answer(found, by) == {[symbol |-> s, by |-> by, facts |-> docs[s]] : s \in found}
AsPick(o, noRate) == [symbol |-> o.symbol, by |-> o.by, eur |-> EurOf(o.facts, noRate)]

CacheInv ==
  /\ DOMAIN docs = DOMAIN Cached
  /\ \A s \in DOMAIN Cached : docs[s] = None \/ HasFigures(docs[s])

\* q lists the suggestions of, those that the titles new give, in their order, each once.
ListsAll(q, of, new, may, target, noRate) ==
  /\ \A x \in of : \E o \in new : o.symbol \in may /\ x = AsPick(o, noRate)
  /\ \A o \in new : o.symbol \in may => AsPick(o, noRate) \in of
  /\ q \in Seq(of)
  /\ \A x, y \in of : x.symbol = y.symbol => x = y
  /\ \A i, j \in 1..Len(q) : i < j => SortsBefore(q[i], q[j], target)
  /\ \A i, j \in 1..Len(q) : q[i] = q[j] => i = j
  /\ \A x \in of : \E i \in 1..Len(q) : q[i] = x

\* The candidates of a query are all its titles that may be suggested, in their order.
LEMMA CandidatesAreSorted ==
  ASSUME CacheInv, NEW found \in SUBSET DOMAIN docs, \A s \in found : docs[s] # None,
         NEW by \in {"industry", "sector"}, NEW titles, NEW excluded, NEW target \in Euros, NEW noRate
  PROVE  \E of \in SUBSET Picks :
           ListsAll(Candidates(found, by, titles, excluded, target, noRate), of,
                    Answer(found, by), titles \ excluded, target, noRate)
<1> DEFINE symbols == (found \cap titles) \ excluded
           pick(s) == [symbol |-> s, by |-> by, eur |-> EurOf(docs[s], noRate)]
           of == {pick(s) : s \in symbols}
           n == Cardinality(of)
           q == Candidates(found, by, titles, excluded, target, noRate)
<1>1. /\ \A x \in of : \E o \in Answer(found, by) :
           o.symbol \in titles \ excluded /\ x = AsPick(o, noRate)
      /\ \A o \in Answer(found, by) : o.symbol \in titles \ excluded => AsPick(o, noRate) \in of
  <2>1. \A s \in found : LET o == [symbol |-> s, by |-> by, facts |-> docs[s]]
                        IN o.symbol = s /\ AsPick(o, noRate) = pick(s)
    BY DEF AsPick
  <2> HIDE DEF pick
  <2>2. QED
    BY <2>1 DEF Answer
<1>2. symbols \subseteq DOMAIN Cached
  BY DEF CacheInv
<1>3. of \subseteq Picks
  BY <1>2, EurosType DEF CacheInv, Picks
<1>4. \A x, y \in of : x.symbol = y.symbol => x = y
  OBVIOUS
<1>5. IsFiniteSet(of) /\ n \in Nat
  <2> DEFINE f == [s \in symbols |-> pick(s)]
  <2>1. f \in Surjection(symbols, of)
    BY DEF Surjection
  <2>2. IsFiniteSet(symbols)
    BY <1>2, TitlesAreFinite, FS_Subset
  <2>3. IsFiniteSet(of)
    <3> HIDE DEF f, of
    <3> QED BY <2>1, <2>2, FS_Surjection
  <2>4. QED
    <3> HIDE DEF of
    <3> QED BY <2>3, FS_CardinalityType
<1> HIDE DEF of
<1>6. IsStrictOrder(Earlier(of, target), of)
  BY <1>3, <1>4, SortIsOrder
<1>7. \E l \in [1..n -> of] : IsInOrder(l, Earlier(of, target))
  BY <1>5, <1>6, SortedListExists
<1>8. \A l \in [1..n -> of] :
        IsInOrder(l, Earlier(of, target)) <=>
          \A i, j \in DOMAIN l : i < j => SortsBefore(l[i], l[j], target)
  BY DEF IsInOrder, Earlier
<1>9. q = CHOOSE l \in [1..Cardinality(of) -> of] :
            \A i, j \in DOMAIN l : i < j => SortsBefore(l[i], l[j], target)
  BY DEF Candidates, of
<1>10. q \in [1..n -> of] /\ \A i, j \in DOMAIN q : i < j => SortsBefore(q[i], q[j], target)
  BY <1>7, <1>8, <1>9
<1> HIDE DEF q, n
<1>11. IsInOrder(q, Earlier(of, target))
  BY <1>8, <1>10
<1>12. /\ \A i, j \in 1..n : q[i] = q[j] => i = j
       /\ \A x \in of : \E i \in 1..n : q[i] = x
  BY <1>5, <1>6, <1>10, <1>11, SortedListIsWhole DEF n
<1>13. QED
  <2>1. DOMAIN q = 1..n /\ q \in Seq(of)
    BY <1>5, <1>10
  <2>3. Len(q) = n
    BY <1>5, <2>1, LenProperties
  <2>2. QED
    BY <1>1, <1>3, <1>4, <1>5, <1>10, <1>12, <2>1, <2>3 DEF q, ListsAll

\* The first few of a list.
LEMMA FirstOfList ==
  ASSUME NEW S, NEW q \in Seq(S), NEW m \in Nat
  PROVE  /\ FirstOf(q, m) \in Seq(S)
         /\ Len(FirstOf(q, m)) = Smaller(Len(q), m)
         /\ \A k \in 1..Smaller(Len(q), m) : FirstOf(q, m)[k] = q[k]
<1> DEFINE n == Smaller(Len(q), m)
<1>1. n \in Nat /\ n <= Len(q) /\ Len(q) \in Nat
  BY LenProperties DEF Smaller
<1> HIDE DEF n
<1>2. \A i \in 1..n : q[i] \in S
  BY <1>1, ElementOfSeq
<1>3. /\ SubSeq(q, 1, n) \in Seq(S)
      /\ Len(SubSeq(q, 1, n)) = IF 1 <= n THEN n - 1 + 1 ELSE 0
      /\ \A i \in 1..(n - 1 + 1) : SubSeq(q, 1, n)[i] = q[1 + i - 1]
  BY <1>1, <1>2, SubSeqProperties
<1>4. FirstOf(q, m) = SubSeq(q, 1, n)
  BY DEF FirstOf, n
<1>5. QED
  BY <1>1, <1>3, <1>4 DEF n

\* What is picked of a query: titles that may be suggested, each once; and while there is
\* room for more, none is left that may be, nor ever one that sorts before a picked one.
PickedFrom(p, new, may, target, noRate, limit) ==
  /\ p \in Seq(Picks) /\ Len(p) <= limit
  /\ \A k \in 1..Len(p) : \E o \in new : o.symbol \in may /\ p[k] = AsPick(o, noRate)
  /\ \A i, j \in 1..Len(p) : p[i].symbol = p[j].symbol => i = j
  /\ \A o \in new :
       o.symbol \in may =>
         \/ \E k \in 1..Len(p) : p[k] = AsPick(o, noRate)
         \/ /\ Len(p) = limit
            /\ \A k \in 1..Len(p) : SortsBefore(p[k], AsPick(o, noRate), target)

\* The beginning of the sorted candidates of a query leaves nobody out who is nearer.
LEMMA PicksOfQuery ==
  ASSUME CacheInv, NEW found \in SUBSET DOMAIN docs, \A s \in found : docs[s] # None,
         NEW by \in {"industry", "sector"}, NEW titles, NEW excluded, NEW target \in Euros,
         NEW noRate, NEW limit \in Nat
  PROVE  PickedFrom(FirstOf(Candidates(found, by, titles, excluded, target, noRate), limit),
                    Answer(found, by), titles \ excluded, target, noRate, limit)
<1> DEFINE q == Candidates(found, by, titles, excluded, target, noRate)
           new == Answer(found, by)
           p == FirstOf(q, limit)
<1>1. PICK of \in SUBSET Picks : ListsAll(q, of, new, titles \ excluded, target, noRate)
  BY CandidatesAreSorted
<1> HIDE DEF q, new
<1> DEFINE n == Len(q)
<1>2. n \in Nat /\ q \in Seq(of) /\ \A k \in 1..n : q[k] \in of
  BY <1>1, LenProperties, ElementOfSeq DEF ListsAll
<1>4. /\ p \in Seq(of) /\ Len(p) = Smaller(n, limit)
      /\ \A k \in 1..Smaller(n, limit) : p[k] = q[k]
  BY <1>2, FirstOfList
<1> HIDE DEF p
<1>5. /\ Len(p) \in Nat /\ Len(p) <= limit /\ Len(p) <= n /\ (Len(p) = limit \/ Len(p) = n)
      /\ \A k \in 1..Len(p) : p[k] = q[k] /\ q[k] \in of
  BY <1>2, <1>4 DEF Smaller
<1>6. p \in Seq(Picks)
  BY <1>1, <1>4, SeqMonotonic
<1>7. \A k \in 1..Len(p) : \E o \in new : o.symbol \in titles \ excluded /\ p[k] = AsPick(o, noRate)
  BY <1>1, <1>5 DEF ListsAll
<1>8. \A i, j \in 1..Len(p) : p[i].symbol = p[j].symbol => i = j
  <2>1. SUFFICES ASSUME NEW i \in 1..Len(p), NEW j \in 1..Len(p), p[i].symbol = p[j].symbol
                 PROVE  i = j
    OBVIOUS
  <2>2. i \in 1..n /\ j \in 1..n /\ q[i] \in of /\ q[j] \in of /\ q[i].symbol = q[j].symbol
    BY <1>2, <1>5, <2>1
  <2>3. q[i] = q[j]
    BY <1>1, <2>2 DEF ListsAll
  <2>4. QED
    BY <1>1, <2>2, <2>3 DEF ListsAll
<1>9. ASSUME NEW o \in new, o.symbol \in titles \ excluded
      PROVE  \/ \E k \in 1..Len(p) : p[k] = AsPick(o, noRate)
             \/ /\ Len(p) = limit
                /\ \A k \in 1..Len(p) : SortsBefore(p[k], AsPick(o, noRate), target)
  <2>1. PICK i \in 1..n : q[i] = AsPick(o, noRate)
    BY <1>1, <1>9 DEF ListsAll
  <2>2. CASE i \in 1..Len(p)
    BY <1>5, <2>1, <2>2
  <2>3. CASE i \notin 1..Len(p)
    <3>1. Len(p) = limit /\ i > Len(p)
      BY <1>2, <1>5, <2>3
    <3>2. \A k \in 1..Len(p) : k \in 1..n /\ k < i /\ p[k] = q[k]
      BY <1>2, <1>5, <3>1
    <3>3. \A k \in 1..Len(p) : SortsBefore(q[k], q[i], target)
      BY <1>1, <3>2 DEF ListsAll
    <3>4. QED
      BY <2>1, <3>1, <3>2, <3>3
  <2>4. QED
    BY <2>2, <2>3
<1>10. QED
  BY <1>5, <1>6, <1>7, <1>8, <1>9 DEF PickedFrom, p, q, new
-----------------------------------------------------------------------------
(***************************************************************************)
(* What a pre-flight suggests.                                             *)
(***************************************************************************)
FitsIn(o, a) == o.symbol \in a.titles \ Excluded(a.base)

\* The first n suggestions of q come from the industry, the others from the sector.
IsChoice(q, n, a) ==
  /\ q \in Seq(Picks) /\ Len(q) <= SuggestLimit
  /\ n \in Nat /\ n <= Len(q) /\ (n >= 3 => n = Len(q))
  /\ \A k \in 1..n : \E o \in a.seen : o.by = "industry" /\ q[k] = AsPick(o, a.noRate)
  /\ \A k \in (n + 1)..Len(q) : q[k].by = "sector"
  /\ \A k \in 1..Len(q) : \E o \in a.seen : FitsIn(o, a) /\ q[k].symbol = o.symbol
  /\ \A i, j \in 1..Len(q) : q[i].symbol = q[j].symbol => i = j

\* The industry's titles that q leaves out come after all that q took.
LeavesNoNearer(q, n, a) ==
  \A o \in a.seen :
    o.by = "industry" /\ FitsIn(o, a) =>
      \/ \E k \in 1..n : q[k] = AsPick(o, a.noRate)
      \/ n = SuggestLimit /\ \A k \in 1..n : SortsBefore(q[k], AsPick(o, a.noRate), a.target)

\* What a pre-flight has remembered: figures of different titles, and its own.
Remembers(a) ==
  /\ HasFigures(a.base.facts) /\ a.target = EurOf(a.base.facts, a.noRate)
  /\ \A o \in a.seen :
       HasFigures(o.facts) /\ o.symbol \in DOMAIN Cached /\ o.by \in {"industry", "sector"}
  /\ \A o, p \in a.seen : o.by = p.by /\ o.symbol = p.symbol => o = p

\* The sort never puts a title before one that is nearer.
LEMMA SortedIsNotFarther ==
  ASSUME NEW x \in Picks, NEW y \in Picks, NEW target \in Euros, SortsBefore(x, y, target),
         y.eur # None
  PROVE  /\ x.eur # None
         /\ target # None => ~IsCloserTo(target, y.eur, x.eur)
<1>1. x.eur # None
  BY DEF SortsBefore
<1>2. ASSUME target # None
      PROVE  ~IsNearer(y.eur, x.eur, target)
  <2>1. x.eur \in Positives /\ y.eur \in Positives /\ target \in Positives
    BY <1>1, <1>2 DEF Picks, Euros
  <2>2. \A m, n \in Positives : m * n \in Nat
    BY DEF Positives
  <2>3. ~(IsNearer(x.eur, y.eur, target) /\ IsNearer(y.eur, x.eur, target))
    BY <2>1, <2>2, RatioType DEF IsNearer
  <2>4. QED
    BY <1>1, <1>2, <2>3 DEF SortsBefore
<1>3. QED
  BY <1>1, <1>2, NearerIsCloser DEF Picks, Euros

\* Two such beginnings, that of the industry first, are an honest list.
LEMMA ChoiceIsHonest ==
  ASSUME NEW a, NEW q, NEW n, Remembers(a), IsChoice(q, n, a), LeavesNoNearer(q, n, a),
         (\E o \in a.seen : FitsIn(o, a)) => Len(q) # 0
  PROVE  IsHonest(q, IF q = <<>> THEN "empty" ELSE None, a)
<1> DEFINE note == IF q = <<>> THEN "empty" ELSE None
           taken == {q[k].symbol : k \in DOMAIN q}
           byIndustry == {k \in DOMAIN q : q[k].by = "industry"}
           Fits(o) == o.symbol \in a.titles \ Excluded(a.base)
           target == EurosOf(a.base.facts, a.noRate)
           suggested == {o \in a.seen : o.by = "industry" /\ o.symbol \in taken}
           leftOut == {o \in a.seen : o.by = "industry" /\ Fits(o) /\ o.symbol \notin taken}
<1>1. /\ DOMAIN q = 1..Len(q) /\ Len(q) \in Nat /\ n \in 0..Len(q)
      /\ q = <<>> <=> Len(q) = 0
  BY LenProperties, EmptySeq DEF IsChoice
<1>2. \A k \in 1..Len(q) : q[k] \in Picks /\ Fits(q[k])
  BY ElementOfSeq DEF IsChoice, FitsIn
<1>3. byIndustry = 1..n
  <2>1. \A o : o.by = "industry" => AsPick(o, a.noRate).by = "industry"
    BY DEF AsPick
  <2>2. \A k \in 1..n : q[k].by = "industry"
    BY <2>1 DEF IsChoice
  <2>3. \A k \in 1..Len(q) : k \in 1..n \/ k \in (n + 1)..Len(q)
    BY <1>1
  <2>4. \A k \in 1..Len(q) : k \in (n + 1)..Len(q) => q[k].by = "sector"
    BY DEF IsChoice
  <2>5. \A k \in 1..n : k \in 1..Len(q)
    BY <1>1
  <2>6. \A k : k \in byIndustry <=> k \in 1..n
    BY <1>1, <2>2, <2>3, <2>4, <2>5
  <2>7. QED
    BY <2>6
<1>4. Cardinality(byIndustry) = n
  <2>1. \A m \in Nat : Cardinality(1..m) = m
    BY FS_Interval
  <2> HIDE DEF byIndustry
  <2>2. QED
    BY <1>1, <1>3, <2>1
<1>5. Cardinality(taken) = Len(q)
  <2> DEFINE f == [k \in 1..Len(q) |-> q[k].symbol]
  <2>1. f \in [1..Len(q) -> taken] /\ \A t \in taken : \E k \in 1..Len(q) : f[k] = t
    BY <1>1
  <2>2. \A i, j \in 1..Len(q) : f[i] = f[j] => i = j
    BY DEF IsChoice
  <2> HIDE DEF f, taken
  <2>3. \A m \in Nat : m = Len(q) => Cardinality(taken) = m
    BY <2>1, <2>2, CardinalityOfListed
  <2>4. QED
    BY <1>1, <2>3
<1>6. taken \subseteq a.titles \ Excluded(a.base)
  BY <1>1, <1>2
<1>7. note = "empty" <=> ~\E o \in a.seen : Fits(o)
  <2>1. note = "empty" <=> Len(q) = 0
    BY <1>1, PeerConstants
  <2>2. Len(q) # 0 => \E o \in a.seen : Fits(o)
    <3>1. Len(q) # 0 => 1 \in 1..Len(q)
      BY <1>1
    <3>2. QED
      BY <3>1 DEF IsChoice, FitsIn
  <2>3. QED
    BY <2>1, <2>2 DEF FitsIn
<1>8. ASSUME NEW out \in leftOut
      PROVE  /\ n = SuggestLimit /\ n = Len(q)
             /\ \A k \in 1..n : SortsBefore(q[k], AsPick(out, a.noRate), a.target)
  <2>1. \A k \in 1..n : q[k] # AsPick(out, a.noRate)
    BY <1>1 DEF AsPick
  <2>2. n = SuggestLimit /\ \A k \in 1..n : SortsBefore(q[k], AsPick(out, a.noRate), a.target)
    BY <2>1 DEF LeavesNoNearer, FitsIn
  <2>3. n <= Len(q) /\ Len(q) <= SuggestLimit
    BY DEF IsChoice
  <2>4. n = SuggestLimit /\ n = Len(q)
    <3>1. n = SuggestLimit
      BY <2>2
    <3>2. n \in Nat /\ Len(q) \in Nat
      BY <1>1
    <3>3. QED
      BY <2>3, <3>1, <3>2
  <2>5. QED
    BY <2>2, <2>4
<1>9. ASSUME NEW out \in leftOut, NEW in \in suggested, EurosOf(out.facts, a.noRate) # None
      PROVE  /\ EurosOf(in.facts, a.noRate) # None
             /\ target # None =>
                  ~IsCloserTo(target, EurosOf(out.facts, a.noRate), EurosOf(in.facts, a.noRate))
  <2>1. PICK k \in 1..n : q[k].symbol = in.symbol
    BY <1>1, <1>8
  <2>2. PICK o \in a.seen : o.by = "industry" /\ q[k] = AsPick(o, a.noRate)
    BY DEF IsChoice
  <2>3. o = in
    BY <2>1, <2>2 DEF AsPick, Remembers
  <2>4. q[k].eur = EurOf(in.facts, a.noRate) /\ AsPick(out, a.noRate).eur = EurOf(out.facts, a.noRate)
    BY <2>2, <2>3 DEF AsPick
  <2>5. /\ EurosOf(out.facts, a.noRate) = EurOf(out.facts, a.noRate)
        /\ EurosOf(in.facts, a.noRate) = EurOf(in.facts, a.noRate)
        /\ target = a.target /\ a.target \in Euros /\ EurOf(out.facts, a.noRate) \in Euros
    BY EurosType DEF Remembers
  <2>6. q[k] \in Picks
    BY <1>1, <1>2
  <2>7. SortsBefore(q[k], AsPick(out, a.noRate), a.target)
    BY <1>8
  <2>8. AsPick(out, a.noRate) \in Picks
    BY <2>5 DEF AsPick, Picks, Remembers
  <2>9. AsPick(out, a.noRate).eur # None
    BY <1>9, <2>4, <2>5
  <2>10. /\ q[k].eur # None
         /\ a.target # None => ~IsCloserTo(a.target, AsPick(out, a.noRate).eur, q[k].eur)
    BY <2>5, <2>6, <2>7, <2>8, <2>9, SortedIsNotFarther
  <2>11. QED
    BY <2>4, <2>5, <2>10
<1>10. Cardinality(byIndustry) >= 3 => byIndustry = DOMAIN q
  BY <1>1, <1>3, <1>4 DEF IsChoice
<1>11. \A k \in byIndustry, l \in DOMAIN q \ byIndustry : k < l
  BY <1>1, <1>3
<1>12. leftOut # {} => Cardinality(byIndustry) = SuggestLimit
  BY <1>4, <1>8
<1>13. QED
  <2>1. Len(q) <= SuggestLimit
    BY DEF IsChoice
  <2>2. QED
    BY <1>5, <1>6, <1>7, <1>9, <1>10, <1>11, <1>12, <2>1, Zenon DEF IsHonest

\* The industry alone: its first SuggestLimit candidates.
LEMMA IndustryIsHonest ==
  ASSUME NEW a, Remembers(a), \A o \in a.seen : o.by = "industry",
         PickedFrom(a.picked, a.seen, a.titles \ Excluded(a.base), a.target, a.noRate, SuggestLimit)
  PROVE  /\ IsHonest(a.picked, IF a.picked = <<>> THEN "empty" ELSE None, a)
         /\ IsChoice(a.picked, Len(a.picked), a)
         /\ LeavesNoNearer(a.picked, Len(a.picked), a)
<1> DEFINE q == a.picked
           n == Len(q)
<1>1. n \in Nat /\ q \in Seq(Picks) /\ n <= SuggestLimit
  BY LenProperties DEF PickedFrom
<1>2. \A k \in 1..n : \E o \in a.seen : FitsIn(o, a) /\ o.by = "industry" /\ q[k] = AsPick(o, a.noRate)
  BY DEF PickedFrom, FitsIn
<1>3. \A o : AsPick(o, a.noRate).symbol = o.symbol
  BY DEF AsPick
<1>4. IsChoice(q, n, a)
  <2>1. (n + 1)..n = {}
    BY <1>1
  <2>2. \A i, j \in 1..n : q[i].symbol = q[j].symbol => i = j
    BY DEF PickedFrom
  <2>3. \A k \in 1..n : \E o \in a.seen : FitsIn(o, a) /\ q[k].symbol = o.symbol
    BY <1>2, <1>3
  <2> HIDE DEF n, q
  <2>4. QED
    BY <1>1, <1>2, <2>1, <2>2, <2>3 DEF IsChoice, n
<1>5. LeavesNoNearer(q, n, a)
  BY DEF PickedFrom, LeavesNoNearer, FitsIn
<1>6. (\E o \in a.seen : FitsIn(o, a)) => n # 0
  <2>1. SUFFICES ASSUME NEW o \in a.seen, FitsIn(o, a), n = 0
                 PROVE  FALSE
    OBVIOUS
  <2>2. n # SuggestLimit
    BY <2>1, PeerConstants
  <2>3. \E k \in 1..n : q[k] = AsPick(o, a.noRate)
    BY <2>1, <2>2 DEF LeavesNoNearer, PickedFrom, FitsIn
  <2>4. QED
    BY <2>1, <2>3
<1>7. QED
  BY <1>4, <1>5, <1>6, ChoiceIsHonest

\* Fewer than three of the industry, and the sector's first candidates behind them.
LEMMA WithSectorIsHonest ==
  ASSUME NEW a, Remembers(a), \A o \in a.seen : o.by = "industry",
         PickedFrom(a.picked, a.seen, a.titles \ Excluded(a.base), a.target, a.noRate, SuggestLimit),
         Len(a.picked) < MIN_INDUSTRY_HITS,
         NEW new, \A o \in new : HasFigures(o.facts) /\ o.symbol \in DOMAIN Cached /\ o.by = "sector",
         \A o, p \in new : o.symbol = p.symbol => o = p,
         NEW rest,
         PickedFrom(rest, new, a.titles \ SectorExclusions(a.base, a.picked), a.target, a.noRate,
                    SuggestLimit - Len(a.picked)),
         NEW b, b.base = a.base, b.titles = a.titles, b.target = a.target, b.noRate = a.noRate,
         b.seen = a.seen \cup new, b.picked = a.picked \o rest
  PROVE  IsHonest(b.picked, IF b.picked = <<>> THEN "empty" ELSE None, b)
<1> DEFINE p == a.picked
           n == Len(p)
           m == Len(rest)
           q == p \o rest
<1>1. IsChoice(p, n, a) /\ LeavesNoNearer(p, n, a)
  BY IndustryIsHonest
<1>2. p \in Seq(Picks) /\ rest \in Seq(Picks) /\ n \in Nat /\ m \in Nat /\ n < 3
  BY LenProperties DEF PickedFrom, MIN_INDUSTRY_HITS
<1>3. n <= SuggestLimit /\ m <= SuggestLimit - n
  BY DEF PickedFrom
<1>4. /\ q \in Seq(Picks) /\ Len(q) = n + m
      /\ \A k \in 1..n : q[k] = p[k]
      /\ \A k \in (n + 1)..(n + m) : k - n \in 1..m /\ q[k] = rest[k - n]
  <2>1. /\ q \in Seq(Picks) /\ Len(q) = n + m
        /\ \A i \in 1..(n + m) : q[i] = IF i <= n THEN p[i] ELSE rest[i - n]
    BY <1>2, ConcatProperties
  <2> HIDE DEF n, m, q, p
  <2>2. QED
    BY <1>2, <2>1
<1> HIDE DEF q
<1>5. \A o : AsPick(o, a.noRate).symbol = o.symbol /\ AsPick(o, a.noRate).by = o.by
  BY DEF AsPick
<1>6. \A o : FitsIn(o, b) <=> FitsIn(o, a)
  BY DEF FitsIn
<1>7. \A k \in 1..n : \E o \in a.seen : o.by = "industry" /\ FitsIn(o, a) /\ p[k] = AsPick(o, a.noRate)
  BY DEF PickedFrom, FitsIn
<1>8. \A k \in 1..m : \E o \in new : /\ o.by = "sector" /\ FitsIn(o, a) /\ rest[k] = AsPick(o, a.noRate)
                                   /\ \A i \in 1..n : p[i].symbol # o.symbol
  <2>1. DOMAIN p = 1..n
    BY <1>2, LenProperties
  <2>2. \A o : o.symbol \in a.titles \ SectorExclusions(a.base, p)
               => FitsIn(o, a) /\ \A i \in 1..n : p[i].symbol # o.symbol
    BY <2>1 DEF SectorExclusions, FitsIn
  <2>3. \A k \in 1..m : \E o \in new : /\ o.symbol \in a.titles \ SectorExclusions(a.base, p)
                                     /\ rest[k] = AsPick(o, a.noRate)
    BY DEF PickedFrom
  <2>4. QED
    BY <2>2, <2>3
<1>9. IsChoice(q, n, b)
  <2>1. /\ Len(q) <= SuggestLimit /\ n <= Len(q) /\ ~(n >= 3)
    BY <1>2, <1>3, <1>4, PeerConstants
  <2>2. \A k \in 1..n : \E o \in b.seen : o.by = "industry" /\ q[k] = AsPick(o, b.noRate)
    BY <1>4, <1>7
  <2>3. \A k \in (n + 1)..Len(q) : q[k].by = "sector"
    BY <1>4, <1>5, <1>8
  <2>4. \A k \in 1..n : \E o \in b.seen : FitsIn(o, b) /\ q[k].symbol = o.symbol
    BY <1>4, <1>5, <1>6, <1>7
  <2>5. ASSUME NEW k \in (n + 1)..(n + m)
        PROVE  \E o \in b.seen : FitsIn(o, b) /\ q[k].symbol = o.symbol
    <3>1. k - n \in 1..m /\ q[k] = rest[k - n]
      BY <1>4
    <3>2. PICK o \in new : FitsIn(o, a) /\ rest[k - n] = AsPick(o, a.noRate)
      BY <1>8, <3>1
    <3>3. FitsIn(o, b) /\ q[k].symbol = o.symbol
      BY <1>5, <1>6, <3>1, <3>2
    <3>4. QED
      BY <3>3
  <2>6. \A k \in 1..Len(q) : k \in 1..n \/ k \in (n + 1)..(n + m)
    BY <1>2, <1>4
  <2>7. \A i, j \in 1..n : q[i].symbol = q[j].symbol => i = j
    BY <1>4 DEF PickedFrom
  <2>8. ASSUME NEW i \in (n + 1)..(n + m), NEW j \in (n + 1)..(n + m), q[i].symbol = q[j].symbol
        PROVE  i = j
    <3>1. i - n \in 1..m /\ j - n \in 1..m /\ rest[i - n].symbol = rest[j - n].symbol
      BY <1>4, <2>8
    <3>2. i - n = j - n
      BY <3>1 DEF PickedFrom
    <3>3. QED
      BY <1>2, <3>2
  <2>9. ASSUME NEW i \in 1..n, NEW j \in (n + 1)..(n + m)
        PROVE  q[i].symbol # q[j].symbol
    <3>1. j - n \in 1..m /\ q[j] = rest[j - n] /\ q[i] = p[i]
      BY <1>4
    <3>2. PICK o \in new : rest[j - n] = AsPick(o, a.noRate) /\ \A l \in 1..n : p[l].symbol # o.symbol
      BY <1>8, <3>1
    <3>3. q[j].symbol = o.symbol
      BY <1>5, <3>1, <3>2
    <3>4. QED
      BY <3>1, <3>2, <3>3
  <2>10. \A i, j \in 1..Len(q) : q[i].symbol = q[j].symbol => i = j
    BY <2>6, <2>7, <2>8, <2>9
  <2>11. \A k \in 1..Len(q) : \E o \in b.seen : FitsIn(o, b) /\ q[k].symbol = o.symbol
    BY <2>4, <2>5, <2>6
  <2> HIDE DEF n, m, p
  <2>12. QED
    BY <1>2, <1>4, <2>1, <2>2, <2>3, <2>10, <2>11 DEF IsChoice
<1>10. LeavesNoNearer(q, n, b)
  <2>1. SUFFICES ASSUME NEW o \in b.seen, o.by = "industry", FitsIn(o, b)
                 PROVE  \/ \E k \in 1..n : q[k] = AsPick(o, b.noRate)
                        \/ n = SuggestLimit /\ \A k \in 1..n : SortsBefore(q[k], AsPick(o, b.noRate), b.target)
    BY DEF LeavesNoNearer
  <2>2. o \in a.seen
    BY <2>1
  <2>3. QED
    BY <1>1, <1>4, <1>6, <2>1, <2>2 DEF LeavesNoNearer
<1>11. ASSUME NEW o \in b.seen, FitsIn(o, b), Len(q) = 0
       PROVE  FALSE
  <2>1. n = 0 /\ m = 0
    BY <1>2, <1>4, <1>11
  <2>2. SuggestLimit # 0
    BY PeerConstants
  <2>3. CASE o \in a.seen
    <3>1. \E k \in 1..n : p[k] = AsPick(o, a.noRate)
      BY <1>1, <1>6, <1>11, <2>1, <2>2, <2>3 DEF LeavesNoNearer
    <3>2. QED
      BY <2>1, <3>1
  <2>4. CASE o \in new
    <3>1. DOMAIN p = {}
      BY <1>2, <2>1, LenProperties
    <3>2. SectorExclusions(a.base, p) = Excluded(a.base)
      BY <3>1 DEF SectorExclusions
    <3>3. o.symbol \in a.titles \ SectorExclusions(a.base, p)
      BY <1>6, <1>11, <3>2 DEF FitsIn
    <3>4. SuggestLimit - Len(p) # 0
      BY <2>1, <2>2, PeerConstants
    <3>5. \E k \in 1..m : rest[k] = AsPick(o, a.noRate)
      BY <2>1, <2>4, <3>3, <3>4 DEF PickedFrom
    <3>6. QED
      BY <2>1, <3>5
  <2>5. QED
    BY <2>3, <2>4
<1>12. Remembers(b)
  BY DEF Remembers
<1>13. IsHonest(q, IF q = <<>> THEN "empty" ELSE None, b)
  BY <1>9, <1>10, <1>11, <1>12, ChoiceIsHonest
<1>14. QED
  BY <1>13 DEF q
-----------------------------------------------------------------------------
(***************************************************************************)
(* A pre-flight, step by step.                                             *)
(***************************************************************************)
\* A pre-flight that looks for suggestions, and what it has remembered.
IsSearch(a, step) ==
  /\ a = [at |-> step, base |-> a.base, noRate |-> a.noRate, titles |-> a.titles,
          target |-> a.target, seen |-> a.seen, picked |-> a.picked]
  /\ Remembers(a)

\* It has asked for the industry.
HasIndustry(a) ==
  /\ \A o \in a.seen : o.by = "industry"
  /\ PickedFrom(a.picked, a.seen, a.titles \ Excluded(a.base), a.target, a.noRate, SuggestLimit)

PreflightInv ==
  /\ At("universe") => /\ session = [at |-> "universe", base |-> session.base]
                       /\ HasFigures(session.base.facts)
  /\ At("industry") => IsSearch(session, "industry") /\ session.seen = {}
  /\ At("sector") => /\ IsSearch(session, "sector") /\ HasIndustry(session)
                     /\ Len(session.picked) < MIN_INDUSTRY_HITS
  /\ SuggestionsAreHonest

\* A step without a search, and without one that begins or is done.
LEMMA NoSearchStep ==
  ASSUME PreflightInv,
         \/ session' = session
         \/ session' = None
         \/ session'.at \notin {"universe", "industry", "sector", "done"}
  PROVE  PreflightInv'
  BY DEF PreflightInv, SuggestionsAreHonest, At

\* A pre-flight without suggestions says why, and never that nothing fitted.
LEMMA NothingSuggested ==
  ASSUME NEW base, NEW note, note # "empty", session' = Done(base, <<>>, note, {})
  PROVE  PreflightInv'
  BY DEF Done, PreflightInv, SuggestionsAreHonest, At

\* What is suggested is honest if what was read for it makes it so.
LEMMA SuggestedIsHonest ==
  ASSUME NEW a, IsHonest(a.picked, IF a.picked = <<>> THEN "empty" ELSE None, a),
         session' = Suggested(a)
  PROVE  PreflightInv'
<1>1. /\ session'.at = "done" /\ session'.asked = {a} /\ session'.suggestions = a.picked
      /\ session'.note = (IF a.picked = <<>> THEN "empty" ELSE None)
  BY DEF Suggested, Done
<1>2. QED
  BY <1>1 DEF PreflightInv, SuggestionsAreHonest, At

\* A query gives documents, each with figures, and a title at most once.
LEMMA AnswersOfQuery ==
  ASSUME CacheInv, NEW by, NEW value, NEW found \in QueryEqual(by, value),
         by \in {"industry", "sector"}
  PROVE  /\ found \in SUBSET DOMAIN docs /\ \A s \in found : docs[s] # None
         /\ \A o \in Answer(found, by) :
              HasFigures(o.facts) /\ o.symbol \in DOMAIN Cached /\ o.by = by
         /\ \A o, p \in Answer(found, by) : o.symbol = p.symbol => o = p
<1>1. found \in SUBSET DOMAIN docs /\ \A s \in found : docs[s] # None
  BY DEF QueryEqual, Found
<1>2. \A s \in found : HasFigures(docs[s]) /\ s \in DOMAIN Cached
  BY <1>1 DEF CacheInv
<1>3. QED
  BY <1>1, <1>2 DEF Answer

\* What a search has read and picked is all that a query changes of it.
LEMMA QueriedSearch ==
  ASSUME NEW a, NEW step, NEW seen, NEW picked, IsSearch(a, step)
  PROVE  [a EXCEPT !.seen = seen, !.picked = picked] =
           [at |-> step, base |-> a.base, noRate |-> a.noRate, titles |-> a.titles,
            target |-> a.target, seen |-> seen, picked |-> picked]
<1>1. ASSUME NEW base, NEW noRate, NEW titles, NEW target, NEW s, NEW q,
             a = [at |-> step, base |-> base, noRate |-> noRate, titles |-> titles,
                  target |-> target, seen |-> s, picked |-> q]
      PROVE  [a EXCEPT !.seen = seen, !.picked = picked] =
               [at |-> step, base |-> base, noRate |-> noRate, titles |-> titles,
                target |-> target, seen |-> seen, picked |-> picked]
  <2> DEFINE read == [a EXCEPT !.seen = seen]
  <2>1. read = [at |-> step, base |-> base, noRate |-> noRate, titles |-> titles,
                target |-> target, seen |-> seen, picked |-> q]
    BY <1>1
  <2>2. [a EXCEPT !.seen = seen, !.picked = picked] = [read EXCEPT !.picked = picked]
    BY Zenon DEF read
  <2> HIDE DEF read
  <2>3. [read EXCEPT !.picked = picked] =
          [at |-> step, base |-> base, noRate |-> noRate, titles |-> titles,
           target |-> target, seen |-> seen, picked |-> picked]
    BY <2>1
  <2>4. QED
    BY <2>2, <2>3, Zenon
<1>2. QED
  BY <1>1 DEF IsSearch

\* The query for the industry: what it gives is suggested, or the sector is next.
LEMMA IndustryStep ==
  ASSUME CacheInv, PreflightInv, NEW found \in SUBSET DOMAIN docs, QueryIndustry(found)
  PROVE  PreflightInv'
<1> DEFINE new == Answer(found, "industry")
           picked == FirstOf(Candidates(found, "industry", session.titles, Excluded(session.base),
                                        session.target, session.noRate), SuggestLimit)
           next(step) == [at |-> step, base |-> session.base, noRate |-> session.noRate,
                          titles |-> session.titles, target |-> session.target,
                          seen |-> new, picked |-> picked]
<1>1. IsSearch(session, "industry") /\ session.seen = {}
  BY DEF QueryIndustry, PreflightInv
<1>2. \/ session' = Suggested(next("industry"))
      \/ session' = next("sector") /\ Len(picked) < MIN_INDUSTRY_HITS
  <2>1. Seen(found, "industry") = new
    BY <1>1 DEF Seen, Answer
  <2>2. [session EXCEPT !.seen = Seen(found, "industry"), !.picked = picked] = next("industry")
    BY <1>1, <2>1, QueriedSearch
  <2>3. [next("industry") EXCEPT !.at = "sector"] = next("sector")
    OBVIOUS
  <2> HIDE DEF next
  <2>4. QED
    BY <2>2, <2>3 DEF QueryIndustry
<1>3. /\ \A s \in found : docs[s] # None
      /\ \A o \in new : HasFigures(o.facts) /\ o.symbol \in DOMAIN Cached /\ o.by = "industry"
      /\ \A o, p \in new : o.symbol = p.symbol => o = p
  BY AnswersOfQuery DEF QueryIndustry
<1>4. session.target \in Euros
  BY <1>1, EurosType DEF IsSearch, Remembers
<1>5. PickedFrom(picked, new, session.titles \ Excluded(session.base), session.target,
                 session.noRate, SuggestLimit)
  BY <1>3, <1>4, PicksOfQuery, PeerConstants
<1>6. ASSUME NEW step
      PROVE  IsSearch(next(step), step) /\ HasIndustry(next(step))
  <2> HIDE DEF new, picked
  <2>1. Remembers(next(step))
    BY <1>1, <1>3 DEF IsSearch, Remembers
  <2>2. QED
    BY <1>3, <1>5, <2>1 DEF IsSearch, HasIndustry
<1>7. CASE session' = Suggested(next("industry"))
  <2> DEFINE a == next("industry")
  <2>1. Remembers(a) /\ HasIndustry(a)
    BY <1>6 DEF IsSearch
  <2> HIDE DEF a
  <2>2. IsHonest(a.picked, IF a.picked = <<>> THEN "empty" ELSE None, a)
    BY <2>1, IndustryIsHonest DEF HasIndustry
  <2>3. QED
    BY <1>7, <2>2, SuggestedIsHonest DEF a
<1>8. CASE session' = next("sector") /\ Len(picked) < MIN_INDUSTRY_HITS
  <2>1. IsSearch(session', "sector") /\ HasIndustry(session')
    BY <1>6, <1>8
  <2>2. session'.at = "sector" /\ session'.picked = picked
    BY <1>8
  <2>3. QED
    BY <1>8, <2>1, <2>2 DEF PreflightInv, SuggestionsAreHonest, At
<1>9. QED
  BY <1>2, <1>7, <1>8

\* The query for the sector adds what is not suggested yet, and that is all.
LEMMA SectorStep ==
  ASSUME CacheInv, PreflightInv, NEW found \in SUBSET DOMAIN docs, QuerySector(found)
  PROVE  PreflightInv'
<1> DEFINE new == Answer(found, "sector")
           limit == SuggestLimit - Len(session.picked)
           rest == FirstOf(Candidates(found, "sector", session.titles,
                                      SectorExclusions(session.base, session.picked),
                                      session.target, session.noRate), limit)
           b == [at |-> "sector", base |-> session.base, noRate |-> session.noRate,
                 titles |-> session.titles, target |-> session.target,
                 seen |-> session.seen \cup new, picked |-> session.picked \o rest]
<1>1. /\ IsSearch(session, "sector") /\ HasIndustry(session)
      /\ Len(session.picked) < MIN_INDUSTRY_HITS
  BY DEF QuerySector, PreflightInv
<1>2. session' = Suggested(b)
  <2>1. Seen(found, "sector") = session.seen \cup new
    BY DEF Seen, Answer
  <2>2. [session EXCEPT !.seen = Seen(found, "sector"), !.picked = @ \o rest] = b
    BY <1>1, <2>1, QueriedSearch
  <2> HIDE DEF b
  <2>3. QED
    BY <2>2 DEF QuerySector
<1>3. /\ \A s \in found : docs[s] # None
      /\ \A o \in new : HasFigures(o.facts) /\ o.symbol \in DOMAIN Cached /\ o.by = "sector"
      /\ \A o, p \in new : o.symbol = p.symbol => o = p
  BY AnswersOfQuery DEF QuerySector
<1>4. session.target \in Euros
  BY <1>1, EurosType DEF IsSearch, Remembers
<1>5. limit \in Nat
  <2>1. session.picked \in Seq(Picks) /\ Len(session.picked) <= SuggestLimit
    BY <1>1 DEF HasIndustry, PickedFrom
  <2>2. Len(session.picked) \in Nat
    BY <2>1, LenProperties
  <2>3. QED
    BY <2>1, <2>2, PeerConstants
<1>6. PickedFrom(rest, new, session.titles \ SectorExclusions(session.base, session.picked),
                 session.target, session.noRate, limit)
  BY <1>3, <1>4, <1>5, PicksOfQuery
<1>7. /\ b.base = session.base /\ b.titles = session.titles /\ b.target = session.target
      /\ b.noRate = session.noRate /\ b.seen = session.seen \cup new
      /\ b.picked = session.picked \o rest
  OBVIOUS
<1> HIDE DEF b, rest, new
<1>8. IsHonest(b.picked, IF b.picked = <<>> THEN "empty" ELSE None, b)
  BY <1>1, <1>3, <1>6, <1>7, WithSectorIsHonest DEF IsSearch, HasIndustry
<1>9. QED
  BY <1>2, <1>8, SuggestedIsHonest

\* Before the first pre-flight nothing is suggested.
LEMMA PreflightInit ==
  ASSUME Init
  PROVE  CacheInv /\ PreflightInv
<1>1. \A s \in DOMAIN Cached : Cached[s][1] \in Range(Cached[s])
  <2>1. ASSUME NEW s \in DOMAIN Cached
        PROVE  1 \in DOMAIN Cached[s]
    BY FactsOfTitles, EmptySeq, LenProperties DEF IsList
  <2>2. QED
    BY <2>1 DEF Range
<1>2. CacheInv
  BY <1>1, FactsOfTitles DEF Init, CacheInv
<1>3. PreflightInv
  BY DEF Init, PreflightInv, SuggestionsAreHonest, At
<1>4. QED
  BY <1>2, <1>3

\* A refresh writes a version of the document, and nothing else touches the cache.
LEMMA CacheStep ==
  ASSUME CacheInv, [Next]_vars
  PROVE  CacheInv'
<1>1. ASSUME NEW s \in DOMAIN Cached, Refresh(s)
      PROVE  CacheInv'
  <2>1. PICK facts \in Range(Cached[s]) : docs' = [docs EXCEPT ![s] = facts]
    BY <1>1 DEF Refresh
  <2>2. facts = None \/ HasFigures(facts)
    BY FactsOfTitles
  <2>3. QED
    BY <2>1, <2>2 DEF CacheInv
<1>2. ASSUME UNCHANGED docs
      PROVE  CacheInv'
  BY <1>2 DEF CacheInv
<1>3. QED
  BY <1>1, <1>2 DEF Next, vars, cacheVars, StartPreflight, LoadUniverse, LoadTornUniverse,
     QueryIndustry, QuerySector, SuggestFails, ForgetPreflight, ResolveByArgument, StartPrompt,
     ConfirmDefault, EnterPeers, EnterReason, Persist, ChoiceFails, BuildPeers, EndChoice

\* What a pre-flight remembers of its query is enough for the list it suggests.
LEMMA PreflightStep ==
  ASSUME CacheInv, PreflightInv, [Next]_vars
  PROVE  PreflightInv'
<1>1. ASSUME NEW c \in Checks, NEW down \in Outages, StartPreflight(c, down)
      PROVE  PreflightInv'
  <2> DEFINE facts == IF c.ticker \in down THEN None ELSE Live[c.ticker]
             base == [ticker |-> c.ticker, facts |-> facts,
                      checked |-> CheckPeers(c.slots, c.ticker, down)]
  <2>1. \/ session' = Done(base, <<>>, None, {})
        \/ session' = Done(base, <<>>, "no_industry", {})
        \/ session' = [at |-> "universe", base |-> base] /\ facts # None
    BY <1>1 DEF StartPreflight
  <2>2. facts # None => HasFigures(facts)
    BY FactsOfTitles
  <2>3. base.facts = facts
    OBVIOUS
  <2> HIDE DEF base, facts
  <2>4. CASE session' = [at |-> "universe", base |-> base] /\ facts # None
    BY <2>2, <2>3, <2>4 DEF PreflightInv, SuggestionsAreHonest, At
  <2>5. QED
    BY <2>1, <2>4, NothingSuggested, PeerConstants
<1>2. ASSUME NEW noRate \in RateOutages, LoadUniverse(noRate)
      PROVE  PreflightInv'
  <2> DEFINE next == [at |-> "industry", base |-> session.base, noRate |-> noRate,
                      titles |-> universe.symbols, target |-> EurOf(session.base.facts, noRate),
                      seen |-> {}, picked |-> <<>>]
  <2>1. session' = next /\ HasFigures(session.base.facts)
    BY <1>2 DEF LoadUniverse, PreflightInv
  <2>2. IsSearch(next, "industry") /\ next.at = "industry" /\ next.seen = {}
    BY <2>1 DEF IsSearch, Remembers
  <2> HIDE DEF next
  <2>3. QED
    BY <2>1, <2>2 DEF PreflightInv, SuggestionsAreHonest, At
<1>3. ASSUME NEW found \in SUBSET DOMAIN docs, QueryIndustry(found) \/ QuerySector(found)
      PROVE  PreflightInv'
  BY <1>3, IndustryStep, SectorStep
<1>4. CASE SuggestFails
  BY <1>4, NothingSuggested DEF SuggestFails
<1>5. CASE LoadTornUniverse \/ ForgetPreflight \/ EndChoice
  BY <1>5, NoSearchStep DEF LoadTornUniverse, ForgetPreflight, EndChoice
<1>6. CASE UniverseNext /\ UNCHANGED <<cacheVars, session, choiceVars>>
  BY <1>6, NoSearchStep
<1>7. ASSUME NEW s \in DOMAIN Cached, Refresh(s)
      PROVE  PreflightInv'
  BY <1>7, NoSearchStep DEF Refresh
<1>8. ASSUME NEW entry \in Entries, NEW r \in Rationales, NEW down \in Outages,
             ResolveByArgument(entry, r, down)
      PROVE  PreflightInv'
  BY <1>8, NoSearchStep DEF ResolveByArgument
<1>9. ASSUME NEW isTty \in BOOLEAN, StartPrompt(isTty)
      PROVE  PreflightInv'
  BY <1>9, NoSearchStep DEF StartPrompt
<1>10. ASSUME NEW entry \in Entries, NEW down \in Outages, EnterPeers(entry, down)
       PROVE  PreflightInv'
  <2>1. session'.at \in {"reason", "prompt", "error"}
    BY <1>10 DEF EnterPeers, At
  <2>2. QED
    BY <2>1, NoSearchStep
<1>11. ASSUME NEW r \in Rationales, EnterReason(r)
       PROVE  PreflightInv'
  BY <1>11, NoSearchStep DEF EnterReason
<1>12. CASE ConfirmDefault \/ ChoiceFails
  BY <1>12, NoSearchStep DEF ConfirmDefault, ChoiceFails
<1>13. ASSUME NEW down \in Outages, BuildPeers(down)
       PROVE  PreflightInv'
  BY <1>13, NoSearchStep DEF BuildPeers
<1>14. CASE Persist
  BY <1>14, NoSearchStep DEF Persist
<1>15. CASE UNCHANGED vars
  BY <1>15, NoSearchStep DEF vars
<1>16. QED
  BY <1>1, <1>2, <1>3, <1>4, <1>5, <1>6, <1>7, <1>8, <1>9, <1>10, <1>11, <1>12, <1>13, <1>14,
     <1>15 DEF Next
-----------------------------------------------------------------------------
(***************************************************************************)
(* The theorems.                                                           *)
(***************************************************************************)
\* Whatever the sources answer and wherever the script is stopped, a universe that can be
\* read back was verified: it is clean, and a whole index or one that was allowed.
THEOREM UniverseAlwaysVerified == Spec => []UniverseIsVerified
<1>1. Init => UniverseInv
  BY UniverseInit_Inv DEF Init
<1>2. UniverseInv /\ [Next]_vars => UniverseInv'
  <2>1. UniverseInv /\ UNCHANGED universeVars => UniverseInv'
    BY DEF UniverseInv, UniverseIsVerified, ScriptInv, universeVars
  <2>2. [Next]_vars => UniverseNext \/ UNCHANGED universeVars
    BY DEF Next, vars, Refresh, StartPreflight, LoadUniverse, LoadTornUniverse,
       QueryIndustry, QuerySector, SuggestFails, ForgetPreflight, ResolveByArgument, StartPrompt,
       ConfirmDefault, EnterPeers, EnterReason, Persist, ChoiceFails, BuildPeers, EndChoice
  <2>3. QED
    BY <2>1, <2>2, UniverseStep
<1>3. UniverseInv => UniverseIsVerified
  BY DEF UniverseInv
<1>4. QED
  BY <1>1, <1>2, <1>3, PTL DEF Spec

\* The stored peers and those that a run goes on with are three symbols that Yahoo has
\* answered for, with a reason that was stated with them.
THEOREM PeersAlwaysEstablished == Spec => []PeersAreEstablished
<1>1. Init => ChoiceInv
  BY ChoiceInit
<1>2. ChoiceInv /\ [Next]_vars => ChoiceInv'
  BY ChoiceStep
<1>3. ChoiceInv => PeersAreEstablished
  <2>1. SUFFICES ASSUME ChoiceInv, NEW p, Established(p, answered, stated)
                 PROVE  /\ Len(p.tickers) = PEER_COUNT
                        /\ Range(p.tickers) \subseteq answered
                        /\ p \in stated
    BY DEF ChoiceInv, PeersAreEstablished
  <2>2. QED
    BY <2>1 DEF Established, IsListOfThree, Range
<1>4. QED
  BY <1>1, <1>2, <1>3, PTL DEF Spec

\* The suggestions are the best that the queries gave: different titles of the universe that
\* was read, the industry's first, and none of it left out that is nearer in euros.
THEOREM SuggestionsAlwaysHonest == Spec => []SuggestionsAreHonest
<1>1. Init => CacheInv /\ PreflightInv
  BY PreflightInit
<1>2. CacheInv /\ PreflightInv /\ [Next]_vars => (CacheInv /\ PreflightInv)'
  BY CacheStep, PreflightStep
<1>3. PreflightInv => SuggestionsAreHonest
  BY DEF PreflightInv
<1>4. QED
  BY <1>1, <1>2, <1>3, PTL DEF Spec
===============================================================================

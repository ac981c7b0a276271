--------------------------- MODULE TickerResolution ---------------------------
(***************************************************************************)
(* From a ticker to its SEC filing source (app/deepdive/adr_resolver.py,   *)
(* eu_adr_resolution.py): the override table, the US path over the SEC     *)
(* ticker map, the EU path over yfinance, OpenFIGI and EDGAR, and the      *)
(* cache file cache/adr_resolved.json that every resolving process shares. *)
(*                                                                         *)
(* A process is one preflight or one CLI run: it builds its own clients    *)
(* (compose.py), so a ticker map belongs to it, and resolves one ticker.   *)
(* Only the cache file and its temporary file are shared.  A cache entry   *)
(* past its time to live is one that is not there.                         *)
(***************************************************************************)
EXTENDS Naturals, FiniteSets

CONSTANTS
  Procs,        \* resolving processes
  UsTickers,    \* symbols without a dot
  EuTickers,    \* symbols with a dot
  Table,        \* override table: Table[t] is a verdict or None
  Truth,        \* what is true of a symbol: its verdict, or "no_such_symbol"
  None,
  MaxFaults     \* bound: failing calls and file operations

Tickers == UsTickers \cup EuTickers

\* "filing": a CIK and an annual form; the others: NoSecSourceReason.
Verdicts == {"filing", "no_us_line", "not_sec_registrant", "no_annual_form",
             "unverifiable_identity"}

\* Verdicts about the issuer, the ones the EU path caches.
IssuerVerdicts == Verdicts \ {"unverifiable_identity"}

\* DataSourceError, DeepDiveError, an exception nobody catches, and no answer at all.
Errors == {"source_error", "symbol_error", "crash", "killed"}

ASSUME ResolutionConstants ==
  /\ UsTickers \cap EuTickers = {}
  /\ Table \in [Tickers -> Verdicts \cup {None}]
  /\ Truth \in [Tickers -> IssuerVerdicts \cup {"no_such_symbol"}]
  /\ \A t \in UsTickers : Truth[t] \in {"filing", "no_annual_form", "no_such_symbol"}
  /\ \A t \in Tickers : Table[t] \in {None, Truth[t]}
  /\ None \notin Tickers \cup Verdicts \cup Errors
  /\ MaxFaults \in Nat

VARIABLES
  stage,    \* where a process is
  ticker,   \* the ticker it resolves
  map,      \* EdgarClientImpl._ticker_map of the process
  verdict,  \* the verdict it is about to cache
  copy,     \* the cache content _cache_put has loaded and changed
  answer,   \* what resolve() returned or raised
  cache,    \* the cache file
  tmp,      \* its temporary file, None when there is none
  blank,    \* history: an answer without its data has been taken for an empty one
  faults

resVars == <<stage, ticker, map, verdict, copy, answer, cache, tmp, blank, faults>>

Entries == [EuTickers -> IssuerVerdicts \cup {None}]

Stages == {"idle", "lookup", "identify", "lines", "cik", "form", "load", "write",
           "replace", "answered"}

TypeOK ==
  /\ stage \in [Procs -> Stages]
  /\ ticker \in [Procs -> Tickers \cup {None}]
  /\ map \in [Procs -> {"unloaded", "loaded", "failed"}]
  /\ verdict \in [Procs -> IssuerVerdicts \cup {None}]
  /\ copy \in [Procs -> Entries \cup {None}]
  /\ answer \in [Procs -> Verdicts \cup Errors \cup {None}]
  /\ cache \in Entries
  /\ tmp \in Entries \cup {None}
  /\ blank \in BOOLEAN
  /\ faults \in 0..MaxFaults

Init ==
  /\ stage = [p \in Procs |-> "idle"]
  /\ ticker = [p \in Procs |-> None]
  /\ map = [p \in Procs |-> "unloaded"]
  /\ verdict = [p \in Procs |-> None]
  /\ copy = [p \in Procs |-> None]
  /\ answer = [p \in Procs |-> None]
  /\ cache = [t \in EuTickers |-> None]
  /\ tmp = None
  /\ blank = FALSE
  /\ faults = 0

Fault == faults < MaxFaults /\ faults' = faults + 1

Goto(p, from, to) == stage[p] = from /\ stage' = [stage EXCEPT ![p] = to]

\* resolve() is over: it returns a verdict or raises.
Answer(p, a) ==
  /\ stage' = [stage EXCEPT ![p] = "answered"]
  /\ answer' = [answer EXCEPT ![p] = a]

\* The EU path caches the verdict before it returns it, the US path returns it.
Conclude(p, v) ==
  IF ticker[p] \in EuTickers
  THEN /\ stage' = [stage EXCEPT ![p] = "load"]
       /\ verdict' = [verdict EXCEPT ![p] = v]
       /\ UNCHANGED answer
  ELSE Answer(p, v) /\ UNCHANGED verdict
-----------------------------------------------------------------------------
\* ADRResolver.resolve: the table first, then the path the dot selects.
Ask(p, t) ==
  /\ stage[p] = "idle"
  /\ ticker' = [ticker EXCEPT ![p] = t]
  /\ \/ /\ Table[t] # None
        /\ Answer(p, Table[t])
     \/ /\ Table[t] = None
        /\ stage' = [stage EXCEPT ![p] = IF t \in EuTickers THEN "lookup" ELSE "cik"]
        /\ UNCHANGED answer
  /\ UNCHANGED <<map, verdict, copy, cache, tmp, blank, faults>>

\* _cache_get.
Lookup(p) ==
  /\ stage[p] = "lookup"
  /\ \/ /\ cache[ticker[p]] # None
        /\ Answer(p, cache[ticker[p]])
     \/ /\ cache[ticker[p]] = None
        /\ Goto(p, "lookup", "identify")
        /\ UNCHANGED answer
  /\ UNCHANGED <<ticker, map, verdict, copy, cache, tmp, blank, faults>>

\* The reference name of yfinance against the ladder of OpenFIGI candidates: a
\* real issuer is verified or not, a symbol nobody has is not.
Identify(p) ==
  /\ stage[p] = "identify"
  /\ \/ /\ Truth[ticker[p]] # "no_such_symbol"
        /\ Goto(p, "identify", "lines")
        /\ UNCHANGED answer
     \/ Answer(p, "unverifiable_identity")
  /\ UNCHANGED <<ticker, map, verdict, copy, cache, tmp, blank, faults>>

\* _classify_us_line: the issuer's US lines, by share class.
Lines(p) ==
  /\ stage[p] = "lines"
  /\ IF Truth[ticker[p]] = "no_us_line"
     THEN Conclude(p, "no_us_line")
     ELSE Goto(p, "lines", "cik") /\ UNCHANGED <<verdict, answer>>
  /\ UNCHANGED <<ticker, map, copy, cache, tmp, blank, faults>>

\* The verified identity has no shareClassFIGI: DeepDiveError.
NoAnchor(p) ==
  /\ stage[p] = "lines"
  /\ Fault
  /\ Answer(p, "symbol_error")
  /\ UNCHANGED <<ticker, map, verdict, copy, cache, tmp, blank>>

\* _ensure_ticker_map: loaded on first use; a failure is remembered as a map
\* without entries.
LoadMap(p) ==
  /\ stage[p] = "cik"
  /\ map[p] = "unloaded"
  /\ \/ map' = [map EXCEPT ![p] = "loaded"] /\ UNCHANGED faults
     \/ map' = [map EXCEPT ![p] = "failed"] /\ Fault
  /\ UNCHANGED <<stage, ticker, verdict, copy, answer, cache, tmp, blank>>

\* get_cik is not None.
HasCik(p) == map[p] = "loaded" /\ Truth[ticker[p]] \in {"filing", "no_annual_form"}

\* get_cik.  Without a CIK the EU path has a verdict, the US path an error.
FindCik(p) ==
  /\ stage[p] = "cik"
  /\ map[p] # "unloaded"
  /\ \/ /\ HasCik(p)
        /\ Goto(p, "cik", "form")
        /\ UNCHANGED <<verdict, answer>>
     \/ /\ ~HasCik(p)
        /\ ticker[p] \in EuTickers
        /\ Conclude(p, "not_sec_registrant")
     \/ /\ ~HasCik(p)
        /\ ticker[p] \in UsTickers
        /\ Answer(p, "symbol_error")
        /\ UNCHANGED verdict
  /\ UNCHANGED <<ticker, map, copy, cache, tmp, blank, faults>>

\* detect_annual_form.
DetectForm(p) ==
  /\ stage[p] = "form"
  /\ Conclude(p, IF Truth[ticker[p]] = "filing" THEN "filing" ELSE "no_annual_form")
  /\ UNCHANGED <<ticker, map, copy, cache, tmp, blank, faults>>

\* Mutant: a failed call counts as an empty answer.
SourceFails_IsEmpty(p) ==
  /\ stage[p] \in {"identify", "lines", "form"}
  /\ Fault
  /\ Conclude(p, IF stage[p] = "form" THEN "no_annual_form" ELSE "no_us_line")
  /\ UNCHANGED <<ticker, map, copy, cache, tmp, blank>>

\* A call to yfinance, OpenFIGI or EDGAR fails: DataSourceError; or its body is not
\* what it should be, which nobody catches.  Of the ticker map only the second.
SourceFails(p) ==
  /\ Fault
  /\ \/ /\ stage[p] \in {"identify", "lines", "form"}
        /\ \E a \in {"source_error", "crash"} : Answer(p, a)
     \/ /\ stage[p] = "cik"
        /\ map[p] = "unloaded"
        /\ Answer(p, "crash")
  /\ UNCHANGED <<ticker, map, verdict, copy, cache, tmp, blank>>

\* OpenFIGI or EDGAR answers with 200, but without the part that is looked for (an
\* OpenFIGI job with an "error" has no "data"): no lines, no forms.
Blank(p) ==
  /\ stage[p] \in {"lines", "form"}
  /\ Fault
  /\ blank' = TRUE
  /\ Conclude(p, IF stage[p] = "form" THEN "no_annual_form" ELSE "no_us_line")
  /\ UNCHANGED <<ticker, map, copy, cache, tmp>>

-----------------------------------------------------------------------------
(* _cache_put: load, change, write the temporary file, put it in place.    *)

CacheLoad(p) ==
  /\ Goto(p, "load", "write")
  /\ copy' = [copy EXCEPT ![p] = [cache EXCEPT ![ticker[p]] = verdict[p]]]
  /\ UNCHANGED <<ticker, map, verdict, answer, cache, tmp, blank, faults>>

\* Writing the temporary file is one step: that another process moves a half-written one,
\* which reads as no entries at all, is left out.
CacheWrite(p) ==
  /\ Goto(p, "write", "replace")
  /\ tmp' = copy[p]
  /\ UNCHANGED <<ticker, map, verdict, copy, answer, cache, blank, faults>>

\* Every process has the same temporary file: another one may have moved it.
CacheReplace(p) ==
  /\ stage[p] = "replace"
  /\ IF tmp = None
     THEN Answer(p, "crash") /\ UNCHANGED <<cache, tmp>>
     ELSE Answer(p, verdict[p]) /\ cache' = tmp /\ tmp' = None
  /\ UNCHANGED <<ticker, map, verdict, copy, blank, faults>>

\* The file system refuses: OSError.
CacheFails(p) ==
  /\ stage[p] \in {"write", "replace"}
  /\ Fault
  /\ Answer(p, "crash")
  /\ UNCHANGED <<ticker, map, verdict, copy, cache, tmp, blank>>

\* The time to live of the entry for t runs out, wherever the entry is.
Expire(t) ==
  LET without(e) == IF e = None THEN None ELSE [e EXCEPT ![t] = None]
  IN  /\ cache[t] # None
      /\ cache' = [cache EXCEPT ![t] = None]
      /\ tmp' = without(tmp)
      /\ copy' = [p \in Procs |-> without(copy[p])]
      /\ UNCHANGED <<stage, ticker, map, verdict, answer, blank, faults>>

\* The process ends with its question unanswered.
Kill(p) ==
  /\ stage[p] \notin {"idle", "answered"}
  /\ Answer(p, "killed")
  /\ UNCHANGED <<ticker, map, verdict, copy, cache, tmp, blank, faults>>

-----------------------------------------------------------------------------
ResolveStep(p) ==
  \/ Lookup(p)
  \/ Identify(p)
  \/ Lines(p) \/ NoAnchor(p)
  \/ LoadMap(p) \/ FindCik(p)
  \/ DetectForm(p)
  \/ SourceFails(p) \/ Blank(p)
  \/ CacheLoad(p) \/ CacheWrite(p) \/ CacheReplace(p) \/ CacheFails(p)

Next ==
  \/ \E p \in Procs, t \in Tickers : Ask(p, t)
  \/ \E p \in Procs : ResolveStep(p) \/ Kill(p)
  \/ \E t \in EuTickers : Expire(t)

Spec == Init /\ [][Next]_resVars

-----------------------------------------------------------------------------
(* Properties.                                                             *)

\* What may be said of the issuer of t: the truth; once a process has not got the ticker
\* map, that the issuer of a dotted symbol is no SEC registrant; once an answer has come
\* without its data, that there is no US line or no annual form.
Sayable(t, v) ==
  \/ v = Truth[t]
  \/ v = "not_sec_registrant" /\ t \in EuTickers /\ \E q \in Procs : map[q] = "failed"
  \/ v \in {"no_us_line", "no_annual_form"} /\ blank

\* "Failure != empty" (resolve_eu_adr): whatever fails, expires, is killed or races
\* for the cache file, a verdict about the issuer, returned or cached, is true, but
\* for the two failures that look like an empty answer: a ticker map that could not be
\* loaded, which get_cik reports as "not found", and an answer without its data.
WrongOnlyIfBlind ==
  /\ \A p \in Procs : answer[p] \in IssuerVerdicts => Sayable(ticker[p], answer[p])
  /\ \A t \in EuTickers : cache[t] # None => Sayable(t, cache[t])

\* "Every VERDICT here is a statement about the issuer's SEC registration status, never
\* about a failed call" (_classify_us_line): an issuer cached as no registrant is none.
VerdictIsAboutIssuer ==
  \A t \in EuTickers : cache[t] = "not_sec_registrant" => Truth[t] = "not_sec_registrant"
=============================================================================

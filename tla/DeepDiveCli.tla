----------------------------- MODULE DeepDiveCli -----------------------------
(***************************************************************************)
(* The deep-dive command line (app/deepdive/__main__.py, pipeline.py) and  *)
(* the pre-flight check (preflight.py) over the ticker resolution they     *)
(* share: from the answer of the resolver through the filing cache, the    *)
(* quant data, the peers, the paid synthesis, the dossier file and its     *)
(* publication to an exit code.                                            *)
(*                                                                         *)
(* Pre-flights run beside each other and beside a run; runs follow one     *)
(* another (DeepDiveRuns), all on one day, so a ticker has one dossier     *)
(* file.  A filing cache entry past its time to live is one that is not    *)
(* there; the newest filing of an issuer stays the same.                   *)
(***************************************************************************)
EXTENDS TickerResolution

CONSTANTS
  Preflights, Runs,  \* the processes, by what they do
  MaxRunFaults       \* bound: failing calls and file operations after resolve()

Kinds == {"full", "quant_only", "none", "unknown", "failed"}

\* The dossier is in place, or the exception that left the pipeline, or a kill.
Endings == {"ok", "DeepDiveError", "DataSourceError", "GeminiError", "uncaught", "killed"}

\* The exit code main returns, or Python does for an exception main does not catch.
ExitCode(ending) ==
  CASE ending = "ok" -> "0"
    [] ending \in {"DeepDiveError", "uncaught"} -> "1"
    [] ending = "DataSourceError" -> "2"
    [] ending = "GeminiError" -> "3"
    [] ending = "killed" -> "signal"

Texts == {"whole", "torn"}

Dossiers == [by : Runs, full : BOOLEAN, whole : BOOLEAN]

ASSUME CliConstants ==
  /\ Procs = Preflights \cup Runs
  /\ Preflights \cap Runs = {}
  /\ None \notin Procs \cup Kinds \cup Endings \cup Texts \cup Dossiers
  /\ MaxRunFaults \in Nat

VARIABLES
  kind,       \* dossier_kind of a pre-flight, "failed" if it raised
  step,       \* where a run is
  ended,      \* how it has ended
  text,       \* the filing a run works with
  paid,       \* Gemini has answered the run
  doc,        \* filing cache: the text of the filing
  meta,       \* filing cache: a fresh entry of _meta.json names it
  dossier,    \* output/Watchlist/<ticker>_<today>.md
  published,  \* the same file in the dossier repository
  runFaults

cliVars == <<kind, step, ended, text, paid, doc, meta, dossier, published, runFaults>>
allVars == <<resVars, cliVars>>

Steps == {"idle", "resolving", "filing", "doc", "doc_open", "meta", "quant", "peers",
          "gemini", "contract", "dossier", "dossier_open", "publish", "done"}

CliTypeOK ==
  /\ TypeOK
  /\ kind \in [Preflights -> Kinds \cup {None}]
  /\ step \in [Runs -> Steps]
  /\ ended \in [Runs -> Endings \cup {None}]
  /\ text \in [Runs -> Texts \cup {None}]
  /\ paid \in [Runs -> BOOLEAN]
  /\ doc \in [Tickers -> {"absent", "torn", "whole"}]
  /\ meta \in [Tickers -> BOOLEAN]
  /\ dossier \in [Tickers -> Dossiers \cup {None}]
  /\ published \in [Tickers -> Dossiers \cup {None}]
  /\ runFaults \in 0..MaxRunFaults

CliInit ==
  /\ Init
  /\ kind = [p \in Preflights |-> None]
  /\ step = [p \in Runs |-> "idle"]
  /\ ended = [p \in Runs |-> None]
  /\ text = [p \in Runs |-> None]
  /\ paid = [p \in Runs |-> FALSE]
  /\ doc = [t \in Tickers |-> "absent"]
  /\ meta = [t \in Tickers |-> FALSE]
  /\ dossier = [t \in Tickers |-> None]
  /\ published = [t \in Tickers |-> None]
  /\ runFaults = 0

RunFault == runFaults < MaxRunFaults /\ runFaults' = runFaults + 1

Move(p, from, to) == step[p] = from /\ step' = [step EXCEPT ![p] = to]

\* The pipeline has done its work, an exception has left it, or the process is killed.
End(p, ending) ==
  /\ step' = [step EXCEPT ![p] = "done"]
  /\ ended' = [ended EXCEPT ![p] = ending]
-----------------------------------------------------------------------------
(* The pre-flight check of one ticker.  Its peers are checked alike and    *)
(* are left out, as are the suggestions.                                   *)

\* yfinance knows the symbol, and the resolver is asked.
CheckTicker(p, t) ==
  /\ kind[p] = None
  /\ Ask(p, t)
  /\ UNCHANGED cliVars

\* yfinance does not know it, or cannot be reached: the resolver is not asked.
RejectTicker(p) ==
  /\ kind[p] = None
  /\ stage[p] = "idle"
  /\ kind' = [kind EXCEPT ![p] = "none"]
  /\ UNCHANGED <<resVars, step, ended, text, paid, doc, meta, dossier, published,
                 runFaults>>

\* Mutant: the check asks a client of its own, whose map is another one.
MapAvailable_OwnClient(p) == map[p] \in {"loaded", "failed"}

\* ticker_map_available of the client the resolver has used.
MapAvailable(p) == map[p] = "loaded"

\* _classify.
Kind(p) ==
  CASE answer[p] = "filing" -> "full"
    [] answer[p] \in Verdicts \ {"filing"} -> "quant_only"
    [] answer[p] = "source_error" -> "unknown"
    [] answer[p] = "symbol_error" ->
         IF ticker[p] \in UsTickers /\ ~MapAvailable(p) THEN "unknown" ELSE "none"
    [] OTHER -> "failed"

Classify(p) ==
  /\ kind[p] = None
  /\ stage[p] = "answered"
  /\ kind' = [kind EXCEPT ![p] = Kind(p)]
  /\ UNCHANGED <<resVars, step, ended, text, paid, doc, meta, dossier, published,
                 runFaults>>

-----------------------------------------------------------------------------
(* The pipeline of a run: [1] resolution and [2] the filing.               *)

Active(p) == step[p] \notin {"idle", "done"}

StartRun(p, t) ==
  /\ \A q \in Runs : ~Active(q)
  /\ Move(p, "idle", "resolving")
  /\ Ask(p, t)
  /\ UNCHANGED <<kind, ended, text, paid, doc, meta, dossier, published, runFaults>>

\* The exception of a resolver that does not answer.
Raised(error) ==
  CASE error = "symbol_error" -> "DeepDiveError"
    [] error = "source_error" -> "DataSourceError"
    [] error = "crash" -> "uncaught"
    [] error = "killed" -> "killed"

\* Mutant: a source that fails counts as no filing source.
Resolved_FailureIsEmpty(p) ==
  /\ step[p] = "resolving"
  /\ stage[p] = "answered"
  /\ \/ answer[p] = "filing" /\ Move(p, "resolving", "filing") /\ UNCHANGED ended
     \/ /\ answer[p] \in Verdicts \cup {"source_error"}
        /\ answer[p] # "filing"
        /\ Move(p, "resolving", "quant")
        /\ UNCHANGED ended
     \/ /\ answer[p] \in Errors \ {"source_error"}
        /\ End(p, Raised(answer[p]))
  /\ UNCHANGED <<resVars, kind, text, paid, doc, meta, dossier, published, runFaults>>

\* With a filing source the full pipeline, without one the quant-only one, which
\* starts at the quant data.
Resolved(p) ==
  /\ step[p] = "resolving"
  /\ stage[p] = "answered"
  /\ \/ answer[p] = "filing" /\ Move(p, "resolving", "filing") /\ UNCHANGED ended
     \/ /\ answer[p] \in Verdicts \ {"filing"}
        /\ Move(p, "resolving", "quant")
        /\ UNCHANGED ended
     \/ answer[p] \in Errors /\ End(p, Raised(answer[p]))
  /\ UNCHANGED <<resVars, kind, text, paid, doc, meta, dossier, published, runFaults>>

Cached(t) == meta[t] /\ doc[t] # "absent"

\* CachedFilingFetcher.get: a hit.
FilingHit(p) ==
  /\ Move(p, "filing", "quant")
  /\ Cached(ticker[p])
  /\ text' = [text EXCEPT ![p] = doc[ticker[p]]]
  /\ UNCHANGED <<resVars, kind, ended, paid, doc, meta, dossier, published, runFaults>>

\* A miss; or --no-cache, which neither reads nor writes the cache.
FilingFetch(p) ==
  /\ \/ Move(p, "filing", "doc") /\ ~Cached(ticker[p])
     \/ Move(p, "filing", "quant")
  /\ text' = [text EXCEPT ![p] = "whole"]
  /\ UNCHANGED <<resVars, kind, ended, paid, doc, meta, dossier, published, runFaults>>

FilingFails(p) ==
  /\ step[p] = "filing"
  /\ RunFault
  /\ End(p, "DataSourceError")
  /\ UNCHANGED <<resVars, kind, text, paid, doc, meta, dossier, published>>

\* Mutant: the entry is written before the text.
DocOpen_MetaFirst(p) ==
  /\ Move(p, "doc", "doc_open")
  /\ doc' = [doc EXCEPT ![ticker[p]] = "torn"]
  /\ meta' = [meta EXCEPT ![ticker[p]] = TRUE]
  /\ UNCHANGED <<resVars, kind, ended, text, paid, dossier, published, runFaults>>

\* write_text truncates the file and fills it again.
DocOpen(p) ==
  /\ Move(p, "doc", "doc_open")
  /\ doc' = [doc EXCEPT ![ticker[p]] = "torn"]
  /\ UNCHANGED <<resVars, kind, ended, text, paid, meta, dossier, published, runFaults>>

DocClose(p) ==
  /\ Move(p, "doc_open", "meta")
  /\ doc' = [doc EXCEPT ![ticker[p]] = "whole"]
  /\ UNCHANGED <<resVars, kind, ended, text, paid, meta, dossier, published, runFaults>>

\* _write_meta_atomic.
MetaWrite(p) ==
  /\ Move(p, "meta", "quant")
  /\ meta' = [meta EXCEPT ![ticker[p]] = TRUE]
  /\ UNCHANGED <<resVars, kind, ended, text, paid, doc, dossier, published, runFaults>>

\* filing_cache_ttl_days are over.
MetaExpires(t) ==
  /\ meta[t]
  /\ meta' = [meta EXCEPT ![t] = FALSE]
  /\ UNCHANGED <<resVars, kind, step, ended, text, paid, doc, dossier, published,
                 runFaults>>

-----------------------------------------------------------------------------
(* [4] quant data, [4b] peers, [5] synthesis.  The insider stage [2b] only *)
(* degrades, and the parser [3] always has a fallback.                     *)

Quant(p) ==
  /\ Move(p, "quant", "peers")
  /\ UNCHANGED <<resVars, kind, ended, text, paid, doc, meta, dossier, published,
                 runFaults>>

QuantFails(p) ==
  /\ step[p] = "quant"
  /\ RunFault
  /\ End(p, "DataSourceError")
  /\ UNCHANGED <<resVars, kind, text, paid, doc, meta, dossier, published>>

\* resolve_peers validates the peers and stores them as the default of the next prompt,
\* which is not modelled; without a filing there is no synthesis.
Peers(p) ==
  /\ Move(p, "peers", IF text[p] = None THEN "dossier" ELSE "gemini")
  /\ UNCHANGED <<resVars, kind, ended, text, paid, doc, meta, dossier, published, runFaults>>

\* yfinance does not know a peer, or does not answer: DeepDiveError either way.
PeersRejected(p) ==
  /\ step[p] = "peers"
  /\ End(p, "DeepDiveError")
  /\ UNCHANGED <<resVars, kind, text, paid, doc, meta, dossier, published, runFaults>>

\* The write to Firestore fails.
PeersFail(p) ==
  /\ step[p] = "peers"
  /\ RunFault
  /\ End(p, "DataSourceError")
  /\ UNCHANGED <<resVars, kind, text, paid, doc, meta, dossier, published>>

\* Mutant: the synthesis comes before the peers.
Gemini_BeforePeers(p) ==
  /\ step[p] \in {"quant", "gemini"}
  /\ text[p] # None
  /\ step' = [step EXCEPT ![p] = IF step[p] = "quant" THEN "peers" ELSE "contract"]
  /\ paid' = [paid EXCEPT ![p] = TRUE]
  /\ UNCHANGED <<resVars, kind, ended, text, doc, meta, dossier, published, runFaults>>

\* GeminiDeepDiveClient.synthesize has an answer.
Gemini(p) ==
  /\ Move(p, "gemini", "contract")
  /\ paid' = [paid EXCEPT ![p] = TRUE]
  /\ UNCHANGED <<resVars, kind, ended, text, doc, meta, dossier, published, runFaults>>

\* Too many tokens, no answer, or one that is lost: GeminiError.
GeminiFails(p) ==
  /\ step[p] = "gemini"
  /\ RunFault
  /\ End(p, "GeminiError")
  /\ UNCHANGED paid \/ paid' = [paid EXCEPT ![p] = TRUE]
  /\ UNCHANGED <<resVars, kind, text, doc, meta, dossier, published>>

\* run_synthesis: fifteen points that keep the contract.
Contract(p) ==
  /\ Move(p, "contract", "dossier")
  /\ UNCHANGED <<resVars, kind, ended, text, paid, doc, meta, dossier, published,
                 runFaults>>

\* They do not: GeminiError; or the answer has another shape altogether, and the
\* exception (AttributeError) is not caught.
ContractFails(p) ==
  /\ step[p] = "contract"
  /\ RunFault
  /\ End(p, "GeminiError") \/ End(p, "uncaught")
  /\ UNCHANGED <<resVars, kind, text, paid, doc, meta, dossier, published>>

-----------------------------------------------------------------------------
(* [6] the dossier, its publication, the exit.                             *)

Own(p, whole) == [by |-> p, full |-> text[p] # None, whole |-> whole]

\* generate_dossier: write_text truncates the file of this ticker and day.
DossierOpen(p) ==
  /\ Move(p, "dossier", "dossier_open")
  /\ dossier' = [dossier EXCEPT ![ticker[p]] = Own(p, FALSE)]
  /\ UNCHANGED <<resVars, kind, ended, text, paid, doc, meta, published, runFaults>>

DossierClose(p) ==
  /\ Move(p, "dossier_open", "publish")
  /\ dossier' = [dossier EXCEPT ![ticker[p]] = Own(p, TRUE)]
  /\ UNCHANGED <<resVars, kind, ended, text, paid, doc, meta, published, runFaults>>

\* The file system refuses a write: OSError, which is not caught either.
WriteFails(p) ==
  /\ step[p] \in {"doc", "doc_open", "meta", "dossier", "dossier_open"}
  /\ RunFault
  /\ End(p, "uncaught")
  /\ UNCHANGED <<resVars, kind, text, paid, doc, meta, dossier, published>>

\* publish_dossier reads the file again; or nothing is to be published.  The site
\* is refreshed after that, without effect on the exit code.
Publish(p) ==
  /\ step[p] = "publish"
  /\ End(p, "ok")
  /\ \/ published' = [published EXCEPT ![ticker[p]] = dossier[ticker[p]]]
     \/ UNCHANGED published
  /\ UNCHANGED <<resVars, kind, text, paid, doc, meta, dossier, runFaults>>

\* Mutant: the failure of the push leaves _publish.
PublishFails_Raises(p) ==
  /\ step[p] = "publish"
  /\ RunFault
  /\ End(p, "DataSourceError")
  /\ UNCHANGED <<resVars, kind, text, paid, doc, meta, dossier, published>>

\* The push fails, applied or not: a warning.
PublishFails(p) ==
  /\ step[p] = "publish"
  /\ RunFault
  /\ End(p, "ok")
  /\ \/ published' = [published EXCEPT ![ticker[p]] = dossier[ticker[p]]]
     \/ UNCHANGED published
  /\ UNCHANGED <<resVars, kind, text, paid, doc, meta, dossier>>

\* The process of a run ends between two steps.
KillRun(p) ==
  /\ step[p] \notin {"idle", "resolving", "done"}
  /\ End(p, "killed")
  /\ UNCHANGED <<resVars, kind, text, paid, doc, meta, dossier, published, runFaults>>

RunStep(p) ==
  \/ Resolved(p)
  \/ FilingHit(p) \/ FilingFetch(p) \/ FilingFails(p)
  \/ DocOpen(p) \/ DocClose(p) \/ MetaWrite(p)
  \/ Quant(p) \/ QuantFails(p)
  \/ Peers(p) \/ PeersRejected(p) \/ PeersFail(p)
  \/ Gemini(p) \/ GeminiFails(p)
  \/ Contract(p) \/ ContractFails(p)
  \/ DossierOpen(p) \/ DossierClose(p) \/ WriteFails(p)
  \/ Publish(p) \/ PublishFails(p)
  \/ KillRun(p)

CliNext ==
  \/ \E p \in Preflights : (\E t \in Tickers : CheckTicker(p, t)) \/ RejectTicker(p) \/ Classify(p)
  \/ \E p \in Runs : (\E t \in Tickers : StartRun(p, t)) \/ RunStep(p)
  \/ \E p \in Procs : (ResolveStep(p) \/ Kill(p)) /\ UNCHANGED cliVars
  \/ \E t \in EuTickers : Expire(t) /\ UNCHANGED cliVars
  \/ \E t \in Tickers : MetaExpires(t)

CliSpec == CliInit /\ [][CliNext]_allVars

-----------------------------------------------------------------------------
(* Properties.                                                             *)

\* "Failure != empty" (_classify): a pre-flight blames a symbol the resolver was asked
\* about only if it is wrong: a US symbol the SEC list lacks, never one whose list
\* could not be loaded.
NoneMeansNoSymbol ==
  \A p \in Preflights : kind[p] = "none" /\ ticker[p] \in UsTickers =>
    Truth[ticker[p]] = "no_such_symbol"

\* "By the time this runs, the dossier is on disk and a paid Gemini run has already
\* happened; a publish problem must not make that run look failed" (_publish): the
\* run whose dossier is in place exits with 0 unless it is killed, and one that exits
\* with 0 has put its dossier in place.
ExitTellsTheDossier ==
  /\ \A t \in Tickers : dossier[t] # None /\ dossier[t].whole =>
       LET p == dossier[t].by IN
       ended[p] # None => ExitCode(ended[p]) \in {"0", "signal"}
  /\ \A p \in Runs : ended[p] # None /\ ExitCode(ended[p]) = "0" =>
       /\ dossier[ticker[p]] # None
       /\ dossier[ticker[p]].by = p => dossier[ticker[p]].whole

\* Every check that can refuse the input or miss a source comes before the paid call: a
\* run that has paid never exits with 2 ("Datenquelle nicht erreichbar"), and never with 1
\* ("Ticker/Peers nicht aufloesbar") because a check refused its input.  An exception that
\* main does not catch (an answer of another shape, a write the file system refuses) exits
\* with 1 all the same, and the start page then blames the ticker or the peers.
PaidRunIsNotRefused ==
  \A p \in Runs : paid[p] /\ ended[p] # None =>
    /\ ExitCode(ended[p]) # "2"
    /\ ExitCode(ended[p]) = "1" => ended[p] = "uncaught"

\* What a dossier says of its source is true: a full one is about an issuer that files, a
\* quant-only one about an issuer that does not, or whose identity was not verified, or
\* that was looked up without the ticker map or with an answer without data.
DossierKindIsTrue ==
  \A t \in Tickers : dossier[t] # None =>
    IF dossier[t].full
    THEN Truth[t] = "filing"
    ELSE \/ Truth[t] # "filing"
         \/ answer[dossier[t].by] = "unverifiable_identity"
         \/ answer[dossier[t].by] \in IssuerVerdicts /\ Sayable(t, answer[dossier[t].by])

\* A run never works with half a filing, although the text is written in place and the
\* process may end in the middle: the entry that makes it a hit comes after it.
HitIsWhole == \A p \in Runs : text[p] # "torn"

\* What is published is whole, also where an earlier dossier of the day is overwritten or
\* a run ends while it writes.
PublishedIsWhole == \A t \in Tickers : published[t] # None => published[t].whole

\* Both files are written in place, and a torn one is seen by nobody: neither by a later
\* run as a hit of the filing cache nor by the reader of the published dossiers.
TornFilesStayUnseen == HitIsWhole /\ PublishedIsWhole
=============================================================================

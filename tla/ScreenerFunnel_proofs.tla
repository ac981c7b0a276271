------------------------- MODULE ScreenerFunnel_proofs -------------------------
(***************************************************************************)
(* Proofs about ScreenerFunnel for every universe, whatever Yahoo, the FX  *)
(* feed and the SEC answer.  The argument: the lists of the resolution     *)
(* divide the universe, only a resolved title gets a verdict of the basis  *)
(* gates, only one that passed them a verdict of the EDGAR gate, and a     *)
(* rate that was had once stays.  For outages (OutageInv): a call that     *)
(* failed leaves its mark in the record, which nothing takes away, and a   *)
(* reason to drop a title is what the fields of its record give.           *)
(***************************************************************************)
EXTENDS ScreenerFunnel, FiniteSetTheorems, TLAPS

\* The lists of the resolution and what the loop has not reached divide the universe.
Divided ==
  /\ todo \cup unresolved \cup noSymbolData \cup fxUnavailable \cup resolved = Universe
  /\ todo \cap (unresolved \cup noSymbolData \cup fxUnavailable \cup resolved) = {}
  /\ unresolved \cap (noSymbolData \cup fxUnavailable \cup resolved) = {}
  /\ noSymbolData \cap (fxUnavailable \cup resolved) = {}
  /\ fxUnavailable \cap resolved = {}
  /\ degraded \subseteq unresolved
  /\ stage # "resolve" => todo = {}

\* A resolved record carries what the gates read; its rate stays known.
Priced ==
  \A t \in resolved :
    /\ info[t] \in Infos
    /\ info[t].volume # None /\ info[t].price # None /\ info[t].cap # None
    /\ info[t].currency # None /\ fx[info[t].currency] = "rate"

\* The verdicts of the gates, and the reasons that go with them.
Gated ==
  /\ \A t \in Universe : basisGate[t] # None => t \in resolved
  /\ IF stage \in {"resolve", "definedness", "trajectory", "basis"}
     THEN \A t \in Universe : basisGate[t] = None
     ELSE \A t \in resolved : basisGate[t] # None
  /\ \A t \in Universe : basisGate[t] = "failed" => failReason[t] \in DOMAIN BasisReason
  /\ \A t \in Universe : edgarGate[t] # None => basisGate[t] = "passed"
  /\ \A t \in Universe : edgarGate[t] = "failed" => failReason[t] \in DOMAIN EdgarReason
  /\ stage \notin {"funnel", "done"} => \A t \in Universe : edgarGate[t] = None

\* Who is not skipped was answered twice.
Answered ==
  stage = "edgar_gate" =>
    \A t \in Passed : skipped[t] = None =>
      signals[t].restatement \in {"yes", "no"} /\ signals[t].goingConcern \in {"yes", "no"}

FunnelInv ==
  /\ TypeOK /\ Divided /\ Priced /\ Gated /\ Answered
  /\ EveryTitleInOneBasket /\ StagesAddUp /\ UncheckedIsReported
-----------------------------------------------------------------------------
\* A dropout is a dropout of its title, at its stage, for its code.
LEMMA DropoutFields ==
  ASSUME NEW t, NEW where, NEW code
  PROVE  /\ MakeDropout(t, where, code).ticker = t
         /\ MakeDropout(t, where, code).stage = where
         /\ MakeDropout(t, where, code).code = code
         /\ MakeDropout(t, where, code).severity \in {"REVIEW", "BENIGN"}
         /\ \A s : Dropout(t, where, code, s).ticker = t
<1>1. \A cap, wide : Severity(code, cap, wide) \in {"REVIEW", "BENIGN"}
  BY DEF Severity
<1>2. QED
  BY <1>1 DEF MakeDropout, Dropout

\* No code is missing and none is blank.
LEMMA CodeTypes ==
  /\ \A r \in DOMAIN BasisReason : BasisReason[r] \in ReasonCodes
  /\ \A r \in DOMAIN EdgarReason : EdgarReason[r] \in ReasonCodes
  /\ AlwaysReview \subseteq ReasonCodes
  /\ {"RESOLUTION_UNRESOLVED", "SCORE_BELOW_THRESHOLD", "PRICE_TAKER_EXCLUDED",
      "RESOLUTION_DEGRADED_DICT", "RESOLUTION_NO_SYMBOL_DATA", "RESOLUTION_FX_UNAVAILABLE"}
       \subseteq ReasonCodes
  /\ None \notin ReasonCodes
<1>1. \A f : \A x \in DOMAIN f : f[x] \in Values(f)
  BY DEF Values
<1>2. Values(BasisReason) \subseteq ReasonCodes /\ Values(EdgarReason) \subseteq ReasonCodes
      /\ AlwaysReview \subseteq ReasonCodes
  BY DEF ReasonCodes
<1>3. {"RESOLUTION_UNRESOLVED", "SCORE_BELOW_THRESHOLD", "PRICE_TAKER_EXCLUDED"}
        \subseteq ReasonCodes
  BY DEF ReasonCodes
<1>4. {"RESOLUTION_DEGRADED_DICT", "RESOLUTION_NO_SYMBOL_DATA", "RESOLUTION_FX_UNAVAILABLE"}
        \subseteq AlwaysReview
  BY DEF AlwaysReview
<1>5. None \notin ReasonCodes
  BY FunnelConstants
<1>6. QED
  BY <1>1, <1>2, <1>3, <1>4, <1>5

\* The reasons of the two gates.
LEMMA ReasonDomains ==
  /\ DOMAIN BasisReason = {"avg_volume", "market_cap", "metric_na", "statement_unavailable",
                           "gross_margin", "revenue_growth"}
  /\ DOMAIN EdgarReason = {"restatement", "going_concern", "enforcement"}
BY DEF BasisReason, EdgarReason

\* A gate has a reason or none.
LEMMA FailReasons ==
  ASSUME NEW t
  PROVE  /\ GetFailReason(t) \in DOMAIN BasisReason \cup {None}
         /\ EdgarReasonOf(t) \in DOMAIN EdgarReason \cup {None}
<1>1. GetFailReason(t) \in {"avg_volume", "market_cap", "metric_na", "statement_unavailable",
                            "gross_margin", "revenue_growth"} \cup {None}
  <2>1. CASE ~PassesVolume(t)
    BY <2>1, Zenon DEF GetFailReason
  <2>2. CASE PassesVolume(t) /\ ~PassesMarketCap(t)
    BY <2>2, Zenon DEF GetFailReason
  <2>3. CASE PassesVolume(t) /\ PassesMarketCap(t)
    BY <2>3, Zenon DEF GetFailReason
  <2>4. QED
    BY <2>1, <2>2, <2>3
<1>2. EdgarReasonOf(t) \in {"restatement", "going_concern", "enforcement"} \cup {None}
  BY DEF EdgarReasonOf
<1>3. QED
  BY <1>1, <1>2, ReasonDomains

\* The statement of a title leads to one of three verdicts.
LEMMA Assessments ==
  ASSUME NEW t, NEW s, NEW r
  PROVE  /\ AssessDefinedness(t, s) \in {"DEFINED", "METRIK_NA", "UNASSESSABLE"}
         /\ ClassifyRevenueTrajectory(r) \in {"RESCUE", "DECLINE", "UNASSESSABLE"}
BY Zenon DEF AssessDefinedness, ClassifyRevenueTrajectory

\* What the FX memo can be after a title, and that a rate once had stays.
LEMMA AskedTypes ==
  ASSUME NEW memo \in [Currencies -> {"unasked", "rate", "none"}], NEW i \in Infos,
         NEW new \in Asked(i, memo)
  PROVE  /\ new \in [Currencies -> {"unasked", "rate", "none"}]
         /\ \A c \in Currencies : memo[c] = "rate" => new[c] = "rate"
         /\ i.cap # None /\ i.currency # None => new[i.currency] # "unasked"
<1>1. i.currency \in Currencies \cup {None}
  BY FunnelConstants
<1>2. CASE i.cap = None \/ i.currency = None
  BY <1>2 DEF Asked
<1>3. CASE ~(i.cap = None \/ i.currency = None) /\ memo[i.currency] # "unasked"
  BY <1>3 DEF Asked
<1>4. CASE ~(i.cap = None \/ i.currency = None) /\ memo[i.currency] = "unasked"
  <2>1. PICK a \in {"rate", "none"} : new = [memo EXCEPT ![i.currency] = a]
    BY <1>4 DEF Asked
  <2>2. QED
    BY <1>1, <1>4, <2>1
<1>5. QED
  BY <1>2, <1>3, <1>4

\* What Put makes of the lists.
LEMMA PutStep ==
  ASSUME TypeOK, Divided, Priced, NEW t \in Universe, NEW i \in Infos,
         NEW memo \in Asked(i, fx), InLoop(t), Put(t, i, memo)
  PROVE  /\ {todo, unresolved, degraded, noSymbolData, fxUnavailable, resolved}'
              \subseteq SUBSET Universe
         /\ info' \in [Universe -> Infos \cup {None}]
         /\ fx' \in [Currencies -> {"unasked", "rate", "none"}]
         /\ Divided' /\ Priced'
<1>1. /\ memo \in [Currencies -> {"unasked", "rate", "none"}]
      /\ \A c \in Currencies : fx[c] = "rate" => memo[c] = "rate"
      /\ i.cap # None /\ i.currency # None => memo[i.currency] # "unasked"
  BY AskedTypes DEF TypeOK
<1>2. /\ todo' = todo \ {t} /\ t \in todo /\ stage' = stage /\ stage = "resolve"
      /\ unresolved' = unresolved /\ degraded' = degraded
      /\ info' = [info EXCEPT ![t] = i] /\ fx' = memo
  BY DEF InLoop, Put
<1>3. Destination(i, memo) \in {"no_symbol_data", "fx_unavailable", "resolved"}
  BY DEF Destination
<1>4. t \notin resolved
  BY <1>2 DEF Divided
<1>5. /\ noSymbolData' = IF Destination(i, memo) = "no_symbol_data" THEN noSymbolData \cup {t}
                         ELSE noSymbolData
      /\ fxUnavailable' = IF Destination(i, memo) = "fx_unavailable" THEN fxUnavailable \cup {t}
                          ELSE fxUnavailable
      /\ resolved' = IF Destination(i, memo) = "resolved" THEN resolved \cup {t} ELSE resolved
  BY DEF Put
<1>6. Divided'
  BY <1>2, <1>3, <1>5 DEF Divided
<1>7. Destination(i, memo) = "resolved" =>
        /\ i.volume # None /\ i.price # None /\ i.cap # None
        /\ i.currency # None /\ memo[i.currency] = "rate"
  <2>1. i.currency \in Currencies \cup {None}
    BY FunnelConstants
  <2>2. QED
    BY <1>1, <2>1 DEF Destination, Reason
<1>8. Priced'
  <2>1. ASSUME NEW x \in resolved'
        PROVE  /\ info'[x] \in Infos
               /\ info'[x].volume # None /\ info'[x].price # None /\ info'[x].cap # None
               /\ info'[x].currency # None /\ fx'[info'[x].currency] = "rate"
    <3>1. CASE x = t
      <4>1. info'[x] = i
        BY <1>2, <3>1 DEF TypeOK
      <4>2. Destination(i, memo) = "resolved"
        BY <1>4, <1>5, <3>1
      <4>3. QED
        BY <1>2, <1>7, <4>1, <4>2
    <3>2. CASE x # t
      <4>1. x \in resolved /\ x \in Universe
        BY <1>5, <3>2 DEF TypeOK
      <4>2. info'[x] = info[x]
        BY <1>2, <3>2, <4>1 DEF TypeOK
      <4>3. info[x].currency \in Currencies
        BY <4>1, FunnelConstants DEF Priced
      <4>4. QED
        BY <1>1, <1>2, <4>1, <4>2, <4>3 DEF Priced
    <3>3. QED
      BY <3>1, <3>2
  <2>2. QED
    BY <2>1 DEF Priced
<1>9. QED
  BY <1>1, <1>2, <1>5, <1>6, <1>8 DEF TypeOK

\* A title of the fetch loop.
LEMMA ResolveStep ==
  ASSUME FunnelInv, NEW t \in Universe, Resolve(t)
  PROVE  FunnelInv'
<1> USE DEF FunnelInv
<1>1. InLoop(t)
  BY DEF Resolve, FetchFails, Fetch, FetchAgain, RetryFails
<1>2. /\ stage = "resolve" /\ t \in todo /\ todo' = todo \ {t}
      /\ UNCHANGED <<stage, definedness, trajectory, gates, edgarVars, funnelVars>>
  BY <1>1 DEF InLoop
<1>3. /\ {todo, unresolved, degraded, noSymbolData, fxUnavailable, resolved}'
           \subseteq SUBSET Universe
      /\ info' \in [Universe -> Infos \cup {None}]
      /\ fx' \in [Currencies -> {"unasked", "rate", "none"}]
      /\ Divided' /\ Priced'
      /\ missed' \subseteq
           Universe \X {"info", "retry", "definedness", "trajectory", "edgar"}
  <2>1. ASSUME NEW d \in BOOLEAN, FetchFails(t, d)
        PROVE  <1>3!:
    <3>1. /\ unresolved' = unresolved \cup {t} /\ degraded' \subseteq degraded \cup {t}
          /\ degraded' \subseteq unresolved'
          /\ missed' = missed \cup {<<t, "info">>}
          /\ UNCHANGED <<info, fx, noSymbolData, fxUnavailable, resolved>>
      BY <2>1 DEF FetchFails, Divided
    <3>2. Divided'
      BY <1>2, <3>1 DEF Divided
    <3>3. Priced'
      BY <3>1 DEF Priced
    <3>4. QED
      BY <1>2, <3>1, <3>2, <3>3 DEF TypeOK
  <2>2. ASSUME NEW i \in Infos, Fetch(t, i) \/ FetchAgain(t, i)
        PROVE  <1>3!:
    <3>1. PICK memo \in Asked(i, fx) : Put(t, i, memo)
      BY <2>2 DEF Fetch, FetchAgain
    <3>2. missed' = missed
      BY <2>2 DEF Fetch, FetchAgain
    <3>3. QED
      BY <1>1, <3>1, <3>2, PutStep DEF TypeOK
  <2>3. ASSUME NEW i \in Infos, RetryFails(t, i)
        PROVE  <1>3!:
    <3>1. fx \in Asked(i, fx) /\ Put(t, i, fx)
      BY <2>3 DEF RetryFails, Asked
    <3>2. missed' = missed \cup {<<t, "retry">>}
      BY <2>3 DEF RetryFails
    <3>3. QED
      BY <1>1, <3>1, <3>2, PutStep DEF TypeOK
  <2>4. QED
    BY <2>1, <2>2, <2>3 DEF Resolve
<1>4. TypeOK'
  BY <1>2, <1>3 DEF TypeOK, gates, edgarVars, funnelVars
<1>5. Gated'
  BY <1>2, <1>3 DEF Gated, gates, TypeOK
<1>6. Answered' /\ EveryTitleInOneBasket' /\ StagesAddUp' /\ UncheckedIsReported'
  BY <1>2 DEF Answered, EveryTitleInOneBasket, StagesAddUp, UncheckedIsReported
<1>7. QED
  BY <1>3, <1>4, <1>5, <1>6

\* The end of the loop and the two looks at the statements.
LEMMA PrepassStep ==
  ASSUME FunnelInv, EndFetch \/ AssessDefinednessBasket \/ AssessRevenueTrajectory
  PROVE  FunnelInv'
<1> USE DEF FunnelInv
<1>1. UNCHANGED <<todo, info, fx, lists, gates, edgarVars, funnelVars>>
  BY DEF EndFetch, AssessDefinednessBasket, AssessRevenueTrajectory
<1>2. /\ stage \in {"resolve", "definedness", "trajectory"}
      /\ stage' \in {"definedness", "trajectory", "basis"}
      /\ todo = {}
  BY DEF EndFetch, AssessDefinednessBasket, AssessRevenueTrajectory, Divided
<1>3. /\ definedness' \in [Universe -> {"DEFINED", "METRIK_NA", "UNASSESSABLE", None}]
      /\ trajectory' \in [Universe -> {"RESCUE", "DECLINE", "UNASSESSABLE", None}]
      /\ missed' \subseteq Universe \X {"info", "retry", "definedness", "trajectory", "edgar"}
  <2>1. CASE EndFetch
    BY <2>1 DEF EndFetch, TypeOK
  <2>2. CASE AssessDefinednessBasket
    <3> DEFINE basket == {t \in resolved : PassesVolume(t) /\ PassesMarketCap(t) /\ Suspect(t)}
               asked == {t \in basket : ~info[t].reit}
    <3>1. PICK answer \in [asked -> Statements \cup {None}] :
            /\ definedness' =
                 [t \in Universe |->
                    IF t \in asked THEN AssessDefinedness(t, answer[t])
                    ELSE IF t \in basket THEN "METRIK_NA" ELSE None]
            /\ missed' = missed \cup
                 {<<t, "definedness">> : t \in {x \in asked : answer[x] = None}}
      BY <2>2, Zenon DEF AssessDefinednessBasket
    <3>2. trajectory' = trajectory
      BY <2>2 DEF AssessDefinednessBasket
    <3>3. asked \subseteq Universe
      BY DEF TypeOK
    <3> HIDE DEF asked, basket
    <3>4. \A t \in Universe : t \in asked =>
            AssessDefinedness(t, answer[t]) \in {"DEFINED", "METRIK_NA", "UNASSESSABLE"}
      BY Assessments
    <3>5. definedness' \in [Universe -> {"DEFINED", "METRIK_NA", "UNASSESSABLE", None}]
      BY <3>1, <3>4
    <3>6. QED
      BY <3>1, <3>2, <3>3, <3>5 DEF TypeOK
  <2>3. CASE AssessRevenueTrajectory
    <3> DEFINE cohort == {t \in resolved :
                            /\ PassesVolume(t) /\ PassesMarketCap(t)
                            /\ definedness[t] \notin {"UNASSESSABLE", "METRIK_NA"}
                            /\ GrossMarginPassReason(t) # None
                            /\ ~TtmPass(t)}
    <3>1. PICK answer \in [cohort -> Statements \cup {None}] :
            /\ trajectory' =
                 [t \in Universe |->
                    IF t \notin cohort THEN None
                    ELSE IF answer[t] = None THEN "UNASSESSABLE"
                    ELSE ClassifyRevenueTrajectory(RevenueSeries(answer[t]))]
            /\ missed' = missed \cup
                 {<<t, "trajectory">> : t \in {x \in cohort : answer[x] = None}}
      BY <2>3, Zenon DEF AssessRevenueTrajectory
    <3>2. definedness' = definedness
      BY <2>3 DEF AssessRevenueTrajectory
    <3>3. cohort \subseteq Universe
      BY DEF TypeOK
    <3> HIDE DEF cohort
    <3>4. \A t \in Universe : ClassifyRevenueTrajectory(RevenueSeries(answer[t]))
                                \in {"RESCUE", "DECLINE", "UNASSESSABLE"}
      BY Assessments
    <3>5. trajectory' \in [Universe -> {"RESCUE", "DECLINE", "UNASSESSABLE", None}]
      BY <3>1, <3>4
    <3>6. QED
      BY <3>1, <3>2, <3>3, <3>5 DEF TypeOK
  <2>4. QED
    BY <2>1, <2>2, <2>3
<1>4. TypeOK'
  BY <1>1, <1>2, <1>3 DEF TypeOK, lists, gates, edgarVars, funnelVars
<1>5. Divided' /\ Priced'
  BY <1>1, <1>2 DEF Divided, Priced, lists
<1>6. Gated'
  BY <1>1, <1>2 DEF Gated, gates, lists
<1>7. Answered' /\ EveryTitleInOneBasket' /\ StagesAddUp' /\ UncheckedIsReported'
  BY <1>2 DEF Answered, EveryTitleInOneBasket, StagesAddUp, UncheckedIsReported
<1>8. QED
  BY <1>4, <1>5, <1>6, <1>7

\* The basis gates.
LEMMA BasisStep ==
  ASSUME FunnelInv, ApplyBasisFilters
  PROVE  FunnelInv'
<1> USE DEF FunnelInv
<1>1. /\ UNCHANGED <<todo, info, fx, lists, definedness, trajectory, edgarGate, edgarVars,
                     funnelVars, missed>>
      /\ stage = "basis" /\ stage' = "edgar"
      /\ failReason' = [t \in Universe |-> IF t \in resolved THEN GetFailReason(t) ELSE None]
      /\ basisGate' = [t \in Universe |->
                         IF t \notin resolved THEN None
                         ELSE IF GetFailReason(t) = None THEN "passed" ELSE "failed"]
  BY DEF ApplyBasisFilters
<1>2. \A t : GetFailReason(t) \in DOMAIN BasisReason \cup {None}
  BY FailReasons
<1>3. TypeOK'
  BY <1>1, <1>2 DEF TypeOK, lists, edgarVars, funnelVars
<1>4. Divided' /\ Priced'
  BY <1>1 DEF Divided, Priced, lists
<1>5. Gated'
  <2>1. resolved' = resolved /\ \A t \in Universe : edgarGate'[t] = None
    BY <1>1 DEF lists, Gated
  <2>2. \A t \in Universe : t \in resolved <=> basisGate'[t] # None
    BY <1>1, FunnelConstants
  <2>3. \A t \in Universe : basisGate'[t] = "failed" => failReason'[t] \in DOMAIN BasisReason
    BY <1>1, <1>2, FunnelConstants
  <2>4. resolved \subseteq Universe
    BY DEF TypeOK
  <2>5. QED
    BY <1>1, <2>1, <2>2, <2>3, <2>4, FunnelConstants DEF Gated
<1>6. Answered' /\ EveryTitleInOneBasket' /\ StagesAddUp' /\ UncheckedIsReported'
  BY <1>1 DEF Answered, EveryTitleInOneBasket, StagesAddUp, UncheckedIsReported
<1>7. QED
  BY <1>3, <1>4, <1>5, <1>6

\* The calls to the SEC.
LEMMA EvaluateStep ==
  ASSUME FunnelInv, EvaluateEdgar
  PROVE  FunnelInv'
<1> USE DEF FunnelInv
<1> DEFINE asks == {t \in Passed : ~info[t].cik}
           Answers == {"yes", "no", "lost"}
<1>1. /\ UNCHANGED <<todo, info, fx, lists, definedness, trajectory, gates, report, funnelVars>>
      /\ stage = "edgar" /\ stage' = "edgar_gate"
      /\ map' \in {"unloaded", "loaded", "failed"}
  BY DEF EvaluateEdgar, TypeOK
<1>2. PICK known \in SUBSET asks :
        LET found == IF map' = "failed" THEN {} ELSE known
            called == (Passed \ asks) \cup found
        IN \E restated \in [called -> Answers], doubt \in [called -> Answers] :
             LET lost == {t \in called : Lost(restated[t], doubt[t])}
             IN /\ signals' =
                     [t \in Universe |->
                        IF t \notin called \/ restated[t] = "lost" THEN NoSignals
                        ELSE [restatement |-> restated[t],
                              goingConcern |-> IF doubt[t] = "lost" THEN None ELSE doubt[t]]]
                /\ skipped' =
                     [t \in Universe |-> IF t \in lost THEN "data_source_error"
                                         ELSE IF t \in Passed \ called THEN "no_cik" ELSE None]
                /\ missed' = missed \cup {<<t, "edgar">> : t \in lost}
  BY Zenon DEF EvaluateEdgar
<1> DEFINE found == IF map' = "failed" THEN {} ELSE known
           called == (Passed \ asks) \cup found
<1>3. PICK restated \in [called -> Answers], doubt \in [called -> Answers] :
        LET lost == {t \in called : Lost(restated[t], doubt[t])}
        IN /\ signals' =
                [t \in Universe |->
                   IF t \notin called \/ restated[t] = "lost" THEN NoSignals
                   ELSE [restatement |-> restated[t],
                         goingConcern |-> IF doubt[t] = "lost" THEN None ELSE doubt[t]]]
           /\ skipped' =
                [t \in Universe |-> IF t \in lost THEN "data_source_error"
                                    ELSE IF t \in Passed \ called THEN "no_cik" ELSE None]
           /\ missed' = missed \cup {<<t, "edgar">> : t \in lost}
  BY <1>2
<1> DEFINE lost == {t \in called : Lost(restated[t], doubt[t])}
<1>4. called \subseteq Passed /\ Passed \subseteq Universe /\ lost \subseteq called
  BY DEF Passed, TypeOK
<1> HIDE DEF asks, found, called, lost
<1>5. \A t \in called : /\ restated[t] \in {"yes", "no", "lost"}
                        /\ doubt[t] \in {"yes", "no", "lost"}
                        /\ t \notin lost => restated[t] # "lost" /\ doubt[t] # "lost"
  BY DEF lost, Lost
<1>6. signals' = [t \in Universe |->
                    IF t \notin called \/ restated[t] = "lost" THEN NoSignals
                    ELSE [restatement |-> restated[t],
                          goingConcern |-> IF doubt[t] = "lost" THEN None ELSE doubt[t]]]
  BY <1>3 DEF lost
<1>7. /\ skipped' = [t \in Universe |-> IF t \in lost THEN "data_source_error"
                                        ELSE IF t \in Passed \ called THEN "no_cik" ELSE None]
      /\ missed' = missed \cup {<<t, "edgar">> : t \in lost}
  BY <1>3 DEF lost
<1>8. signals' \in [Universe -> [restatement : {"yes", "no", None},
                                 goingConcern : {"yes", "no", None}]]
  BY <1>5, <1>6 DEF NoSignals
<1>9. TypeOK'
  BY <1>1, <1>4, <1>7, <1>8 DEF TypeOK, lists, gates, funnelVars
<1>10. Divided' /\ Priced'
  BY <1>1 DEF Divided, Priced, lists
<1>11. Gated'
  BY <1>1 DEF Gated, gates, lists
<1>12. Answered'
  <2>1. ASSUME NEW t \in Passed', skipped'[t] = None
        PROVE  signals'[t].restatement \in {"yes", "no"} /\ signals'[t].goingConcern \in {"yes", "no"}
    <3>1. t \in Passed
      BY <1>1 DEF Passed, gates, lists
    <3>2. t \in Universe
      BY <1>4, <3>1
    <3>3. t \in called /\ t \notin lost
      BY <1>7, <2>1, <3>1, <3>2, FunnelConstants
    <3>4. QED
      BY <1>5, <1>6, <3>2, <3>3
  <2>2. QED
    BY <2>1 DEF Answered
<1>13. EveryTitleInOneBasket' /\ StagesAddUp' /\ UncheckedIsReported'
  BY <1>1 DEF EveryTitleInOneBasket, StagesAddUp, UncheckedIsReported
<1>14. QED
  BY <1>9, <1>10, <1>11, <1>12, <1>13

\* The EDGAR gate and the report.
LEMMA EdgarGateStep ==
  ASSUME FunnelInv, ApplyEdgarFilters
  PROVE  FunnelInv'
<1> USE DEF FunnelInv
<1>1. /\ UNCHANGED <<todo, info, fx, lists, definedness, trajectory, basisGate, signals,
                     skipped, map, funnelVars, missed>>
      /\ stage = "edgar_gate" /\ stage' = "funnel"
      /\ edgarGate' = [t \in Universe |->
                         IF t \notin Passed \/ skipped[t] # None THEN None
                         ELSE IF EdgarReasonOf(t) = None THEN "passed" ELSE "failed"]
      /\ failReason' = [t \in Universe |->
                          IF t \in Passed /\ EdgarReasonOf(t) # None
                          THEN EdgarReasonOf(t) ELSE failReason[t]]
      /\ report' = [goingConcern |-> {t \in Passed : EdgarReasonOf(t) = "going_concern"},
                    noCik |-> {t \in Passed : skipped[t] = "no_cik"},
                    sourceError |-> {t \in Passed : skipped[t] = "data_source_error"}]
  BY DEF ApplyEdgarFilters
<1>2. \A t : EdgarReasonOf(t) \in DOMAIN EdgarReason \cup {None}
  BY FailReasons
<1>3. /\ Passed \subseteq Universe /\ Passed' = Passed
      /\ \A t \in Universe : t \in Passed <=> t \in resolved /\ basisGate[t] = "passed"
  BY <1>1 DEF Passed, TypeOK, lists
<1>4. TypeOK'
  <2>1. edgarGate' \in [Universe -> {"passed", "failed", None}]
    BY <1>1
  <2>2. failReason' \in [Universe -> DOMAIN BasisReason \cup DOMAIN EdgarReason \cup {None}]
    BY <1>1, <1>2 DEF TypeOK
  <2>3. report' \in [DOMAIN NoReport -> SUBSET Universe]
    BY <1>1, <1>3 DEF NoReport
  <2>4. QED
    BY <1>1, <2>1, <2>2, <2>3 DEF TypeOK, lists, funnelVars
<1>5. Divided' /\ Priced'
  BY <1>1 DEF Divided, Priced, lists
<1>6. Gated'
  <2>1. \A t \in Universe : edgarGate'[t] # None => basisGate'[t] = "passed"
    BY <1>1, <1>3
  <2>2. \A t \in Universe : edgarGate'[t] = "failed" => failReason'[t] \in DOMAIN EdgarReason
    BY <1>1, <1>2, FunnelConstants
  <2>3. \A t \in Universe : basisGate'[t] = "failed" => failReason'[t] = failReason[t]
    BY <1>1, <1>3
  <2>4. QED
    BY <1>1, <2>1, <2>2, <2>3 DEF Gated, lists
<1>7. Answered' /\ EveryTitleInOneBasket' /\ StagesAddUp'
  BY <1>1 DEF Answered, EveryTitleInOneBasket, StagesAddUp
<1>8. UncheckedIsReported'
  <2> DEFINE both == [restatement |-> "no", goingConcern |-> "no"]
  <2>1. ASSUME NEW t \in EdgarPassed', signals'[t] # both
        PROVE  t \in (report.noCik \cup report.sourceError)'
    <3>1. t \in Passed /\ t \in Universe /\ edgarGate'[t] # "failed"
      BY <1>3 DEF EdgarPassed
    <3>2. skipped[t] \in {"no_cik", "data_source_error", None}
      BY <3>1 DEF TypeOK
    <3>3. CASE skipped[t] = None
      <4>1. EdgarReasonOf(t) = None
        BY <1>1, <3>1, <3>3
      <4>2. signals[t].restatement \in {"yes", "no"} /\ signals[t].goingConcern \in {"yes", "no"}
        BY <1>1, <3>1, <3>3 DEF Answered
      <4>3. signals[t].restatement # "yes" /\ signals[t].goingConcern # "yes"
        BY <3>3, <4>1, FunnelConstants, ReasonDomains DEF EdgarReasonOf
      <4>4. signals[t] \in [restatement : {"yes", "no", None}, goingConcern : {"yes", "no", None}]
        BY <3>1 DEF TypeOK
      <4>5. QED
        BY <1>1, <2>1, <4>2, <4>3, <4>4
    <3>4. CASE skipped[t] # None
      BY <1>1, <3>1, <3>2, <3>4
    <3>5. QED
      BY <3>3, <3>4
  <2>2. (report.noCik \cap report.sourceError)' = {}
    BY <1>1
  <2>3. (report.noCik \cup report.sourceError)' = {t \in Passed' : skipped'[t] # None}
    <3>1. \A t \in Passed : skipped[t] \in {"no_cik", "data_source_error", None}
      BY <1>3 DEF TypeOK
    <3>2. QED
      BY <1>1, <1>3, <3>1, FunnelConstants
  <2>4. ((report.noCik \cup report.sourceError) \cap report.goingConcern)' = {}
    <3>1. \A t : EdgarReasonOf(t) = "going_concern" => skipped[t] = None
      BY FunnelConstants, ReasonDomains DEF EdgarReasonOf
    <3>2. QED
      BY <1>1, <3>1, FunnelConstants
  <2>5. QED
    BY <2>1, <2>2, <2>3, <2>4 DEF UncheckedIsReported
<1>9. QED
  BY <1>4, <1>5, <1>6, <1>7, <1>8

\* The line of the dropouts CSV for a title that some gate has stopped.
GateLine ==
  [t \in Universe |->
     IF t \in degraded THEN Dropout(t, "resolution", "RESOLUTION_DEGRADED_DICT", "REVIEW")
     ELSE IF t \in unresolved
     THEN Dropout(t, "resolution", "RESOLUTION_UNRESOLVED", "BENIGN")
     ELSE IF t \in noSymbolData
     THEN MakeDropout(t, "resolution", "RESOLUTION_NO_SYMBOL_DATA")
     ELSE IF t \in fxUnavailable
     THEN MakeDropout(t, "resolution", "RESOLUTION_FX_UNAVAILABLE")
     ELSE IF t \in BasisDrops
     THEN MakeDropout(t, "basis_gates", BasisReason[failReason[t]])
     ELSE MakeDropout(t, "edgar_gates", EdgarReason[failReason[t]])]

\* The reason on that line.
CodeOf(t) ==
  IF t \in degraded THEN "RESOLUTION_DEGRADED_DICT"
  ELSE IF t \in unresolved THEN "RESOLUTION_UNRESOLVED"
  ELSE IF t \in noSymbolData THEN "RESOLUTION_NO_SYMBOL_DATA"
  ELSE IF t \in fxUnavailable THEN "RESOLUTION_FX_UNAVAILABLE"
  ELSE IF t \in BasisDrops THEN BasisReason[failReason[t]] ELSE EdgarReason[failReason[t]]

\* The titles some gate has stopped are the universe without those that passed the EDGAR
\* gate, and the sets of the four lists and the two gates are disjoint.
LEMMA Partition ==
  ASSUME TypeOK, Divided, Gated, stage = "funnel"
  PROVE  /\ BasisDrops \subseteq resolved /\ Passed \subseteq resolved
         /\ BasisDrops \cup Passed = resolved /\ BasisDrops \cap Passed = {}
         /\ EdgarDrops \cup EdgarPassed = Passed /\ EdgarDrops \cap EdgarPassed = {}
         /\ unresolved \cup noSymbolData \cup fxUnavailable \cup resolved = Universe
<1>1. resolved \subseteq Universe /\ todo = {}
  BY DEF TypeOK, Divided
<1>2. \A t \in resolved : basisGate[t] \in {"passed", "failed"}
  BY <1>1 DEF TypeOK, Gated
<1>3. BasisDrops \cup Passed = resolved /\ BasisDrops \cap Passed = {}
  BY <1>2 DEF BasisDrops, Passed
<1>4. EdgarDrops \cup EdgarPassed = Passed /\ EdgarDrops \cap EdgarPassed = {}
  BY DEF EdgarDrops, EdgarPassed
<1>5. QED
  BY <1>1, <1>3, <1>4 DEF Divided

\* The dropouts of the gates are the lines of the titles that were stopped.
LEMMA GateLines ==
  ASSUME TypeOK, Divided, Gated, stage = "funnel"
  PROVE  /\ GateDropouts = {GateLine[t] : t \in Universe \ EdgarPassed}
         /\ \A t \in Universe : GateLine[t].ticker = t
         /\ \A t \in Universe \ EdgarPassed :
              /\ GateLine[t].code \in ReasonCodes
              /\ GateLine[t].severity \in {"REVIEW", "BENIGN"}
              /\ GateLine[t].code = CodeOf(t)
              /\ GateLine[t].stage = IF t \in unresolved \cup noSymbolData \cup fxUnavailable
                                     THEN "resolution"
                                     ELSE IF t \in BasisDrops THEN "basis_gates" ELSE "edgar_gates"
<1> DEFINE A(t) == Dropout(t, "resolution", "RESOLUTION_DEGRADED_DICT", "REVIEW")
           B(t) == Dropout(t, "resolution", "RESOLUTION_UNRESOLVED", "BENIGN")
           C(t) == MakeDropout(t, "resolution", "RESOLUTION_NO_SYMBOL_DATA")
           D(t) == MakeDropout(t, "resolution", "RESOLUTION_FX_UNAVAILABLE")
           E(t) == MakeDropout(t, "basis_gates", BasisReason[failReason[t]])
           F(t) == MakeDropout(t, "edgar_gates", EdgarReason[failReason[t]])
           Line(t) == IF t \in degraded THEN A(t) ELSE IF t \in unresolved THEN B(t)
                      ELSE IF t \in noSymbolData THEN C(t) ELSE IF t \in fxUnavailable THEN D(t)
                      ELSE IF t \in BasisDrops THEN E(t) ELSE F(t)
<1>1. \A t \in Universe : GateLine[t] = Line(t)
  BY Zenon DEF GateLine
<1>2. GateDropouts = {A(t) : t \in degraded} \cup {B(t) : t \in unresolved \ degraded}
                       \cup {C(t) : t \in noSymbolData} \cup {D(t) : t \in fxUnavailable}
                       \cup {E(t) : t \in BasisDrops} \cup {F(t) : t \in EdgarDrops}
  BY Zenon DEF GateDropouts
<1>3. \A t : /\ A(t).ticker = t /\ A(t).stage = "resolution"
             /\ A(t).code = "RESOLUTION_DEGRADED_DICT" /\ A(t).severity = "REVIEW"
             /\ B(t).ticker = t /\ B(t).stage = "resolution"
             /\ B(t).code = "RESOLUTION_UNRESOLVED" /\ B(t).severity = "BENIGN"
  BY DEF Dropout
<1>4. \A t : /\ C(t).ticker = t /\ C(t).stage = "resolution"
             /\ C(t).code = "RESOLUTION_NO_SYMBOL_DATA"
             /\ C(t).severity \in {"REVIEW", "BENIGN"}
             /\ D(t).ticker = t /\ D(t).stage = "resolution"
             /\ D(t).code = "RESOLUTION_FX_UNAVAILABLE"
             /\ D(t).severity \in {"REVIEW", "BENIGN"}
  BY DropoutFields
<1>5. \A t : /\ E(t).ticker = t /\ E(t).stage = "basis_gates"
             /\ E(t).code = BasisReason[failReason[t]]
             /\ E(t).severity \in {"REVIEW", "BENIGN"}
             /\ F(t).ticker = t /\ F(t).stage = "edgar_gates"
             /\ F(t).code = EdgarReason[failReason[t]]
             /\ F(t).severity \in {"REVIEW", "BENIGN"}
  BY DropoutFields
<1> HIDE DEF A, B, C, D, E, F
<1>6. /\ BasisDrops \cup Passed = resolved /\ BasisDrops \cap Passed = {}
      /\ EdgarDrops \cup EdgarPassed = Passed /\ EdgarDrops \cap EdgarPassed = {}
      /\ unresolved \cup noSymbolData \cup fxUnavailable \cup resolved = Universe
  BY Partition
<1>7. GateDropouts = {GateLine[t] : t \in Universe \ EdgarPassed}
  <2>1. \A t \in degraded : t \in Universe \ EdgarPassed /\ GateLine[t] = A(t)
    BY <1>1, <1>6 DEF Divided
  <2>2. \A t \in unresolved \ degraded : t \in Universe \ EdgarPassed /\ GateLine[t] = B(t)
    BY <1>1, <1>6 DEF Divided
  <2>3. \A t \in noSymbolData : t \in Universe \ EdgarPassed /\ GateLine[t] = C(t)
    BY <1>1, <1>6 DEF Divided
  <2>4. \A t \in fxUnavailable : t \in Universe \ EdgarPassed /\ GateLine[t] = D(t)
    BY <1>1, <1>6 DEF Divided
  <2>5. \A t \in BasisDrops : t \in Universe \ EdgarPassed /\ GateLine[t] = E(t)
    BY <1>1, <1>6 DEF Divided
  <2>6. \A t \in EdgarDrops : t \in Universe \ EdgarPassed /\ GateLine[t] = F(t)
    BY <1>1, <1>6 DEF Divided
  <2>7. \A t \in Universe \ EdgarPassed :
          \/ t \in degraded \/ t \in unresolved \ degraded \/ t \in noSymbolData
          \/ t \in fxUnavailable \/ t \in BasisDrops \/ t \in EdgarDrops
    BY <1>6
  <2> HIDE DEF Line
  <2>8. \A d \in GateDropouts : \E t \in Universe \ EdgarPassed : d = GateLine[t]
    BY <1>2, <2>1, <2>2, <2>3, <2>4, <2>5, <2>6
  <2>9. \A t \in Universe \ EdgarPassed : GateLine[t] \in GateDropouts
    BY <1>2, <2>1, <2>2, <2>3, <2>4, <2>5, <2>6, <2>7
  <2>10. QED
    BY <2>8, <2>9
<1>8. \A t \in Universe : GateLine[t].ticker = t
  BY <1>1, <1>3, <1>4, <1>5
<1>9. ASSUME NEW t \in Universe \ EdgarPassed
      PROVE  /\ GateLine[t].code \in ReasonCodes
             /\ GateLine[t].severity \in {"REVIEW", "BENIGN"}
             /\ GateLine[t].code = CodeOf(t)
             /\ GateLine[t].stage = IF t \in unresolved \cup noSymbolData \cup fxUnavailable
                                    THEN "resolution"
                                    ELSE IF t \in BasisDrops THEN "basis_gates" ELSE "edgar_gates"
  <2>1. GateLine[t] = Line(t) /\ t \in Universe
    BY <1>1
  <2>2. degraded \subseteq unresolved
    BY DEF Divided
  <2>3. t \in BasisDrops => BasisReason[failReason[t]] \in ReasonCodes
    BY <2>1, CodeTypes DEF Gated, BasisDrops
  <2>4. t \in EdgarDrops => EdgarReason[failReason[t]] \in ReasonCodes
    BY <2>1, CodeTypes DEF Gated, EdgarDrops
  <2>5. \/ t \in unresolved \/ t \in noSymbolData
        \/ t \in fxUnavailable \/ t \in BasisDrops \/ t \in EdgarDrops
    BY <1>6
  <2>6. {"RESOLUTION_UNRESOLVED", "RESOLUTION_DEGRADED_DICT", "RESOLUTION_NO_SYMBOL_DATA",
         "RESOLUTION_FX_UNAVAILABLE"} \subseteq ReasonCodes
    BY CodeTypes
  <2>7. QED
    BY <1>3, <1>4, <1>5, <2>1, <2>2, <2>3, <2>4, <2>5, <2>6 DEF CodeOf
<1>10. QED
  BY <1>7, <1>8, <1>9

\* As many lines of a stage as titles that were stopped there.
LEMMA CountedLines ==
  ASSUME NEW S, IsFiniteSet(S), NEW T, NEW line,
         \A t \in S : line[t].ticker = t,
         \A t \in S : line[t] \in T,
         \A d \in T : \E t \in S : line[t] = d
  PROVE  Cardinality(T) = Cardinality(S)
<1> DEFINE f == [t \in S |-> line[t]]
<1>1. f \in [S -> T]
  OBVIOUS
<1>2. \A t, u \in S : f[t] = f[u] => t = u
  <2>1. \A t \in S : f[t].ticker = t
    OBVIOUS
  <2> HIDE DEF f
  <2>2. QED
    BY <2>1
<1>3. \A d \in T : \E t \in S : f[t] = d
  OBVIOUS
<1>4. f \in Bijection(S, T)
  BY <1>1, <1>2, <1>3, Zenon DEF Bijection, Injection, Surjection, IsInjective
<1>5. ExistsBijection(S, T)
  BY <1>4 DEF ExistsBijection
<1>6. QED
  BY <1>5, FS_Bijection

\* What the counts of the gates are of.
LEMMA GateCounts ==
  ASSUME TypeOK, Divided, Gated, stage = "funnel", NEW hits \in SUBSET EdgarPassed
  PROVE  /\ GateStages.resolution.entered = Cardinality(Universe)
         /\ GateStages.resolution.dropped
              = Cardinality(unresolved \cup noSymbolData \cup fxUnavailable)
         /\ GateStages.resolution.remaining = Cardinality(resolved)
         /\ GateStages.basis_gates.entered = Cardinality(resolved)
         /\ GateStages.basis_gates.dropped = Cardinality(BasisDrops)
         /\ GateStages.basis_gates.remaining = Cardinality(Passed)
         /\ GateStages.edgar_gates.entered = Cardinality(Passed)
         /\ GateStages.edgar_gates.dropped = Cardinality(EdgarDrops)
         /\ GateStages.edgar_gates.remaining = Cardinality(EdgarPassed)
         /\ Cardinality(Universe) = Cardinality(unresolved \cup noSymbolData \cup fxUnavailable)
                                      + Cardinality(resolved)
         /\ Cardinality(resolved) = Cardinality(BasisDrops) + Cardinality(Passed)
         /\ Cardinality(Passed) = Cardinality(EdgarDrops) + Cardinality(EdgarPassed)
         /\ Cardinality(EdgarPassed) = Cardinality(EdgarPassed \ hits) + Cardinality(hits)
         /\ Cardinality(EdgarPassed) \in Nat
<1>1. /\ BasisDrops \cup Passed = resolved /\ BasisDrops \cap Passed = {}
      /\ EdgarDrops \cup EdgarPassed = Passed /\ EdgarDrops \cap EdgarPassed = {}
      /\ unresolved \cup noSymbolData \cup fxUnavailable \cup resolved = Universe
  BY Partition
<1>2. \A S \in SUBSET Universe : IsFiniteSet(S) /\ Cardinality(S) \in Nat
  BY FS_Subset, FS_CardinalityType, FunnelConstants
<1>3. \A S, T \in SUBSET Universe :
        S \cap T = {} => Cardinality(S \cup T) = Cardinality(S) + Cardinality(T)
  <2>1. ASSUME NEW S \in SUBSET Universe, NEW T \in SUBSET Universe, S \cap T = {}
        PROVE  Cardinality(S \cup T) = Cardinality(S) + Cardinality(T)
    <3>1. Cardinality(S \cup T) = Cardinality(S) + Cardinality(T) - Cardinality(S \cap T)
      BY <1>2, FS_Union
    <3>2. Cardinality(S \cap T) = 0
      BY <2>1, FS_EmptySet
    <3>3. QED
      BY <1>2, <3>1, <3>2
  <2>2. QED
    BY <2>1
<1>4. /\ unresolved \subseteq Universe /\ noSymbolData \subseteq Universe
      /\ fxUnavailable \subseteq Universe /\ resolved \subseteq Universe
      /\ BasisDrops \subseteq Universe /\ Passed \subseteq Universe
      /\ EdgarDrops \subseteq Universe /\ EdgarPassed \subseteq Universe
  BY <1>1 DEF TypeOK
<1>5. Cardinality(unresolved \cup noSymbolData) = Cardinality(unresolved) + Cardinality(noSymbolData)
  BY <1>3, <1>4 DEF Divided
<1>6. Cardinality(unresolved \cup noSymbolData \cup fxUnavailable)
        = Cardinality(unresolved \cup noSymbolData) + Cardinality(fxUnavailable)
  <2>1. (unresolved \cup noSymbolData) \cap fxUnavailable = {}
    BY DEF Divided
  <2>2. unresolved \cup noSymbolData \in SUBSET Universe
    BY <1>4
  <2>3. QED
    BY <1>3, <1>4, <2>1, <2>2
<1>7. Cardinality(Universe) = Cardinality(unresolved \cup noSymbolData \cup fxUnavailable)
                                + Cardinality(resolved)
  <2>1. (unresolved \cup noSymbolData \cup fxUnavailable) \cap resolved = {}
    BY DEF Divided
  <2>2. unresolved \cup noSymbolData \cup fxUnavailable \in SUBSET Universe
    BY <1>4
  <2>3. QED
    BY <1>1, <1>3, <1>4, <2>1, <2>2
<1>8. /\ Cardinality(resolved) = Cardinality(BasisDrops) + Cardinality(Passed)
      /\ Cardinality(Passed) = Cardinality(EdgarDrops) + Cardinality(EdgarPassed)
  BY <1>1, <1>3, <1>4
<1>9. Cardinality(EdgarPassed) = Cardinality(EdgarPassed \ hits) + Cardinality(hits)
  <2>1. (EdgarPassed \ hits) \cup hits = EdgarPassed /\ (EdgarPassed \ hits) \cap hits = {}
    OBVIOUS
  <2>2. EdgarPassed \ hits \in SUBSET Universe /\ hits \in SUBSET Universe
    BY <1>4
  <2>3. QED
    BY <1>3, <2>1, <2>2
<1>10. \A a, b, c : Stage(a, b, c).entered = a /\ Stage(a, b, c).dropped = b
                    /\ Stage(a, b, c).remaining = c
  BY DEF Stage
<1>11. /\ GateStages.resolution
            = Stage(Cardinality(Universe), Cardinality(unresolved) + Cardinality(noSymbolData)
                      + Cardinality(fxUnavailable), Cardinality(resolved))
       /\ GateStages.basis_gates
            = Stage(Cardinality(resolved), Cardinality(BasisDrops), Cardinality(Passed))
       /\ GateStages.edgar_gates
            = Stage(Cardinality(Passed), Cardinality(EdgarDrops),
                    Cardinality(Passed) - Cardinality(EdgarDrops))
  BY DEF GateStages
<1>12. Cardinality(Passed) - Cardinality(EdgarDrops) = Cardinality(EdgarPassed)
  <2>1. /\ Cardinality(Passed) \in Nat /\ Cardinality(EdgarDrops) \in Nat
        /\ Cardinality(EdgarPassed) \in Nat
    BY <1>2, <1>4
  <2>2. QED
    BY <1>8, <2>1
<1>13. Cardinality(EdgarPassed) \in Nat
  BY <1>2, <1>4
<1>14. QED
  BY <1>5, <1>6, <1>7, <1>8, <1>9, <1>10, <1>11, <1>12, <1>13

\* Lines are those of the gates and one for each title below the bar.
LinesOf(hits, line, lines) ==
  /\ \A t \in Universe \ EdgarPassed : line[t] = GateLine[t]
  /\ \A t \in EdgarPassed \ hits :
       /\ line[t].ticker = t /\ line[t].stage = "crosshits"
       /\ line[t].code \in {"PRICE_TAKER_EXCLUDED", "SCORE_BELOW_THRESHOLD"}
       /\ line[t].severity \in {"REVIEW", "BENIGN"}
  /\ lines = {line[t] : t \in Universe \ hits}

\* What such lines tell.
Told(hits, lines) ==
  /\ \A d \in lines : /\ d.ticker \in Universe /\ d.code \in ReasonCodes
                      /\ d.stage \in StageNames /\ d.severity \in {"REVIEW", "BENIGN"}
  /\ \A t \in Universe : t \in hits <=> \A d \in lines : d.ticker # t
  /\ \A d, e \in lines : d.ticker = e.ticker => d = e
  /\ \A d \in lines : \/ d.ticker \in Universe \ EdgarPassed /\ d.code = CodeOf(d.ticker)
                      \/ d.code \in {"PRICE_TAKER_EXCLUDED", "SCORE_BELOW_THRESHOLD"}
  /\ Cardinality({d \in lines : d.stage = "resolution"})
       = Cardinality(unresolved \cup noSymbolData \cup fxUnavailable)
  /\ Cardinality({d \in lines : d.stage = "basis_gates"}) = Cardinality(BasisDrops)
  /\ Cardinality({d \in lines : d.stage = "edgar_gates"}) = Cardinality(EdgarDrops)
  /\ Cardinality({d \in lines : d.stage = "scoring"}) = 0
  /\ Cardinality({d \in lines : d.stage = "crosshits"}) = Cardinality(EdgarPassed \ hits)

\* What the report says when the titles that are no crosshits have one line each.
LEMMA LinesReport ==
  ASSUME TypeOK, Divided, Gated, stage = "funnel", NEW hits \in SUBSET EdgarPassed,
         NEW line, NEW lines, LinesOf(hits, line, lines)
  PROVE  Told(hits, lines)
<1> DEFINE D == Universe \ hits
           early == unresolved \cup noSymbolData \cup fxUnavailable
           At(where) == {d \in lines : d.stage = where}
<1>1. /\ BasisDrops \cup Passed = resolved /\ BasisDrops \cap Passed = {}
      /\ EdgarDrops \cup EdgarPassed = Passed /\ EdgarDrops \cap EdgarPassed = {}
      /\ early \cup resolved = Universe /\ early \cap resolved = {}
  BY Partition DEF Divided
<1>0. lines = {line[t] : t \in D}
  BY DEF LinesOf
<1>2. \A t \in Universe \ EdgarPassed :
        /\ line[t].ticker = t /\ line[t].code \in ReasonCodes /\ line[t].code = CodeOf(t)
        /\ line[t].severity \in {"REVIEW", "BENIGN"}
        /\ line[t].stage = IF t \in early THEN "resolution"
                           ELSE IF t \in BasisDrops THEN "basis_gates" ELSE "edgar_gates"
  BY GateLines DEF LinesOf
<1>3. \A t \in D : t \in Universe /\ (t \in Universe \ EdgarPassed \/ t \in EdgarPassed \ hits)
  BY <1>1
<1>4. \A t \in D : line[t].ticker = t
  BY <1>2, <1>3 DEF LinesOf
<1> HIDE DEF early
<1>5. /\ \A t \in D : line[t].stage = "resolution" <=> t \in early
      /\ \A t \in D : line[t].stage = "basis_gates" <=> t \in BasisDrops
      /\ \A t \in D : line[t].stage = "edgar_gates" <=> t \in EdgarDrops
      /\ \A t \in D : line[t].stage = "scoring" <=> t \in {}
      /\ \A t \in D : line[t].stage = "crosshits" <=> t \in EdgarPassed \ hits
  BY <1>1, <1>2, <1>3 DEF LinesOf
<1>6. /\ early \subseteq D /\ BasisDrops \subseteq D /\ EdgarDrops \subseteq D
      /\ EdgarPassed \ hits \subseteq D
  BY <1>1
<1>7. IsFiniteSet(D)
  BY FS_Subset, FunnelConstants
<1> HIDE DEF D
<1>8. ASSUME NEW where, NEW S \in SUBSET D, \A t \in D : line[t].stage = where <=> t \in S
      PROVE  Cardinality(At(where)) = Cardinality(S)
  <2> DEFINE T == At(where)
  <2>1. IsFiniteSet(S) /\ \A t \in S : line[t].ticker = t
    BY <1>4, <1>7, FS_Subset
  <2>2. (\A t \in S : line[t] \in T) /\ (\A d \in T : \E t \in S : line[t] = d)
    BY <1>0, <1>8
  <2> HIDE DEF T
  <2>3. Cardinality(T) = Cardinality(S)
    BY <2>1, <2>2, CountedLines
  <2>4. QED
    BY <2>3 DEF T
<1>9. \A d \in lines :
        /\ d.ticker \in Universe /\ d.code \in ReasonCodes
        /\ d.stage \in StageNames /\ d.severity \in {"REVIEW", "BENIGN"}
        /\ \/ d.ticker \in Universe \ EdgarPassed /\ d.code = CodeOf(d.ticker)
           \/ d.code \in {"PRICE_TAKER_EXCLUDED", "SCORE_BELOW_THRESHOLD"}
  <2>1. {"PRICE_TAKER_EXCLUDED", "SCORE_BELOW_THRESHOLD"} \subseteq ReasonCodes
    BY CodeTypes
  <2>2. QED
    BY <1>0, <1>2, <1>3, <1>4, <2>1 DEF StageNames, LinesOf
<1>10. \A t \in Universe : t \in hits <=> \A d \in lines : d.ticker # t
  <2>1. \A t \in Universe : t \in D <=> t \notin hits
    BY DEF D
  <2>2. \A t \in Universe : t \notin hits => \E d \in lines : d.ticker = t
    BY <1>0, <1>4, <2>1
  <2>3. \A d \in lines : d.ticker \notin hits
    BY <1>0, <1>4, <2>1 DEF D
  <2>4. QED
    BY <2>2, <2>3
<1>11. \A d, e \in lines : d.ticker = e.ticker => d = e
  BY <1>0, <1>4
<1>12. Cardinality({}) = 0
  BY FS_EmptySet
<1>13. /\ Cardinality(At("resolution")) = Cardinality(early)
       /\ Cardinality(At("basis_gates")) = Cardinality(BasisDrops)
       /\ Cardinality(At("edgar_gates")) = Cardinality(EdgarDrops)
       /\ Cardinality(At("scoring")) = 0
       /\ Cardinality(At("crosshits")) = Cardinality(EdgarPassed \ hits)
  <2> HIDE DEF At
  <2>1. Cardinality(At("resolution")) = Cardinality(early)
    BY <1>5, <1>6, <1>8
  <2>2. Cardinality(At("basis_gates")) = Cardinality(BasisDrops)
    BY <1>5, <1>6, <1>8
  <2>3. Cardinality(At("edgar_gates")) = Cardinality(EdgarDrops)
    BY <1>5, <1>6, <1>8
  <2>4. Cardinality(At("scoring")) = Cardinality({})
    BY <1>5, <1>8
  <2>5. Cardinality(At("crosshits")) = Cardinality(EdgarPassed \ hits)
    BY <1>5, <1>6, <1>8
  <2>6. QED
    BY <1>12, <2>1, <2>2, <2>3, <2>4, <2>5
<1>14. QED
  BY <1>9, <1>10, <1>11, <1>13 DEF D, early, Told

\* The report of a run whose crosshits are hits, with one line for any other title.
ReportOf(hits, line) ==
  /\ crosshits' = hits
  /\ LinesOf(hits, line, dropouts')
  /\ \A s \in DOMAIN GateStages : stages'[s] = GateStages[s]
  /\ LET passed == Cardinality(EdgarPassed)
     IN /\ stages'["scoring"] = Stage(passed, 0, passed)
        /\ stages'["crosshits"] = Stage(passed, Cardinality(EdgarPassed \ hits),
                                        Cardinality(hits))

\* Both ends of a run write such a report: the preview and the scored funnel.
LEMMA BuildReport ==
  ASSUME FunnelInv, \/ BuildPreviewFunnel
                    \/ \E clears, takers \in SUBSET Universe : BuildFunnel(clears, takers)
  PROVE  \E hits \in SUBSET EdgarPassed :
           Told(hits, dropouts') /\ \E line : ReportOf(hits, line)
<1> USE DEF FunnelInv
<1>1. /\ UNCHANGED <<todo, info, fx, lists, definedness, trajectory, gates, edgarVars, missed>>
      /\ stage = "funnel" /\ stage' = "done"
  BY DEF BuildPreviewFunnel, BuildFunnel, FunnelReads
<1>2. \E hits \in SUBSET EdgarPassed : \E line : ReportOf(hits, line)
  <2>1. /\ GateDropouts = {GateLine[t] : t \in Universe \ EdgarPassed}
        /\ GateStages.edgar_gates.remaining = Cardinality(EdgarPassed)
        /\ DOMAIN GateStages = {"resolution", "basis_gates", "edgar_gates"}
        /\ EdgarPassed \subseteq Universe
    <3>1. EdgarPassed \subseteq Universe
      BY <1>1, Partition DEF TypeOK
    <3>2. DOMAIN GateStages = {"resolution", "basis_gates", "edgar_gates"}
      BY DEF GateStages
    <3>3. QED
      BY <1>1, <3>1, <3>2, GateLines, GateCounts
  <2>2. CASE BuildPreviewFunnel
    <3>1. EdgarPassed \ EdgarPassed = {} /\ Cardinality({}) = 0
      BY FS_EmptySet
    <3>2. /\ crosshits' = EdgarPassed
          /\ dropouts' = GateDropouts
          /\ \A s \in StageNames :
               stages'[s] = IF s \in DOMAIN GateStages THEN GateStages[s]
                            ELSE Stage(Cardinality(EdgarPassed), 0, Cardinality(EdgarPassed))
      BY <2>1, <2>2 DEF BuildPreviewFunnel
    <3>3. /\ \A s \in DOMAIN GateStages : stages'[s] = GateStages[s]
          /\ LET passed == Cardinality(EdgarPassed)
             IN /\ stages'["scoring"] = Stage(passed, 0, passed)
                /\ stages'["crosshits"] = Stage(passed, Cardinality(EdgarPassed \ EdgarPassed),
                                                Cardinality(EdgarPassed))
      BY <2>1, <3>1, <3>2 DEF StageNames
    <3>4. ReportOf(EdgarPassed, GateLine)
      BY <2>1, <3>2, <3>3 DEF ReportOf, LinesOf
    <3>5. QED
      BY <3>4
  <2>3. CASE \E clears, takers \in SUBSET Universe : BuildFunnel(clears, takers)
    <3>1. PICK clears \in SUBSET Universe, takers \in SUBSET Universe : BuildFunnel(clears, takers)
      BY <2>3
    <3> DEFINE hits == clears \ takers
               Code(t) == IF t \in takers \cap clears THEN "PRICE_TAKER_EXCLUDED"
                                                      ELSE "SCORE_BELOW_THRESHOLD"
               Below(t) == MakeDropout(t, "crosshits", Code(t))
               line == [t \in Universe |-> IF t \in EdgarPassed THEN Below(t) ELSE GateLine[t]]
    <3>2. /\ hits \subseteq EdgarPassed
          /\ crosshits' = hits
          /\ dropouts' = GateDropouts \cup {Below(t) : t \in EdgarPassed \ hits}
      BY <3>1 DEF BuildFunnel
    <3>3. /\ \A s \in DOMAIN GateStages : stages'[s] = GateStages[s]
          /\ LET passed == Cardinality(EdgarPassed)
             IN /\ stages'["scoring"] = Stage(passed, 0, passed)
                /\ stages'["crosshits"] = Stage(passed, Cardinality(EdgarPassed \ hits),
                                                Cardinality(hits))
      <4>1. stages' = [s \in StageNames |->
                        CASE s = "scoring" -> Stage(GateStages.edgar_gates.remaining, 0,
                                                    Cardinality(EdgarPassed))
                          [] s = "crosshits" -> Stage(Cardinality(EdgarPassed),
                                                      Cardinality(EdgarPassed \ hits),
                                                      Cardinality(hits))
                          [] OTHER -> GateStages[s]]
        BY <3>1, Zenon DEF BuildFunnel
      <4>2. \A s \in StageNames :
               stages'[s] = IF s = "scoring" THEN Stage(GateStages.edgar_gates.remaining, 0,
                                                        Cardinality(EdgarPassed))
                            ELSE IF s = "crosshits" THEN Stage(Cardinality(EdgarPassed),
                                                               Cardinality(EdgarPassed \ hits),
                                                               Cardinality(hits))
                            ELSE GateStages[s]
        BY <4>1, Zenon
      <4> HIDE DEF hits
      <4>3. QED
        BY <2>1, <4>2 DEF StageNames
    <3>4. \A t : /\ Below(t).ticker = t /\ Below(t).stage = "crosshits"
                 /\ Below(t).code \in {"PRICE_TAKER_EXCLUDED", "SCORE_BELOW_THRESHOLD"}
                 /\ Below(t).severity \in {"REVIEW", "BENIGN"}
      BY DropoutFields
    <3>5. \A t \in Universe : line[t] = IF t \in EdgarPassed THEN Below(t) ELSE GateLine[t]
      OBVIOUS
    <3> HIDE DEF hits, Below, line
    <3>6. dropouts' = {line[t] : t \in Universe \ hits}
      <4>1. \A d \in dropouts' : \E t \in Universe \ hits : d = line[t]
        BY <2>1, <3>2, <3>5
      <4>2. \A t \in Universe \ hits : line[t] \in dropouts'
        BY <2>1, <3>2, <3>5
      <4>3. QED
        BY <4>1, <4>2
    <3>7. /\ \A t \in Universe \ EdgarPassed : line[t] = GateLine[t]
          /\ \A t \in EdgarPassed \ hits :
               /\ line[t].ticker = t /\ line[t].stage = "crosshits"
               /\ line[t].code \in {"PRICE_TAKER_EXCLUDED", "SCORE_BELOW_THRESHOLD"}
               /\ line[t].severity \in {"REVIEW", "BENIGN"}
      BY <2>1, <3>4, <3>5
    <3>8. ReportOf(hits, line)
      BY <3>2, <3>3, <3>6, <3>7 DEF ReportOf, LinesOf
    <3>9. QED
      BY <3>2, <3>8
  <2>4. QED
    BY <2>2, <2>3
<1>3. PICK hits \in SUBSET EdgarPassed : \E line : ReportOf(hits, line)
  BY <1>2
<1>4. PICK line : ReportOf(hits, line)
  BY <1>3
<1>5. Told(hits, dropouts')
  BY <1>1, <1>4, LinesReport DEF ReportOf
<1>6. QED
  BY <1>4, <1>5

\* The funnel report changes no list it counts.
LEMMA FunnelStep ==
  ASSUME FunnelInv, \/ BuildPreviewFunnel
                    \/ \E clears, takers \in SUBSET Universe : BuildFunnel(clears, takers)
  PROVE  FunnelInv'
<1> USE DEF FunnelInv
<1>1. /\ UNCHANGED <<todo, info, fx, lists, definedness, trajectory, gates, edgarVars, missed>>
      /\ stage = "funnel" /\ stage' = "done"
  BY DEF BuildPreviewFunnel, BuildFunnel, FunnelReads
<1>2. PICK hits \in SUBSET EdgarPassed :
        Told(hits, dropouts') /\ \E line : ReportOf(hits, line)
  BY BuildReport
<1>3. PICK line : ReportOf(hits, line)
  BY <1>2
<1>4. Told(hits, dropouts')
  BY <1>2
<1>5. TypeOK'
  <2>1. hits \subseteq Universe
    BY <1>1, Partition DEF TypeOK
  <2>2. QED
    BY <1>1, <1>3, <1>4, <2>1 DEF ReportOf, Told, TypeOK, lists, gates, edgarVars
<1>6. Divided' /\ Priced' /\ Gated' /\ Answered'
  <2>1. Divided' /\ Priced'
    BY <1>1 DEF Divided, Priced, lists
  <2>2. Gated' /\ Answered'
    BY <1>1 DEF Gated, Answered, gates, lists
  <2>3. QED
    BY <2>1, <2>2
<1>7. EveryTitleInOneBasket'
  BY <1>3, <1>4 DEF ReportOf, Told, EveryTitleInOneBasket
<1>8. StagesAddUp'
  <2>1. \A x, y, z : Stage(x, y, z).entered = x /\ Stage(x, y, z).dropped = y
                     /\ Stage(x, y, z).remaining = z
    BY DEF Stage
  <2>2. DOMAIN GateStages = {"resolution", "basis_gates", "edgar_gates"}
    BY DEF GateStages
  <2>3. /\ stages'.resolution = GateStages.resolution
        /\ stages'.basis_gates = GateStages.basis_gates
        /\ stages'.edgar_gates = GateStages.edgar_gates
    BY <1>3, <2>2 DEF ReportOf
  <2>4. /\ stages'.scoring.entered = Cardinality(EdgarPassed)
        /\ stages'.scoring.dropped = 0
        /\ stages'.scoring.remaining = Cardinality(EdgarPassed)
        /\ stages'.crosshits.entered = Cardinality(EdgarPassed)
        /\ stages'.crosshits.dropped = Cardinality(EdgarPassed \ hits)
        /\ stages'.crosshits.remaining = Cardinality(hits)
    BY <1>3, <2>1 DEF ReportOf
  <2>5. /\ GateStages.resolution.entered = Cardinality(Universe)
        /\ GateStages.resolution.dropped
             = Cardinality(unresolved \cup noSymbolData \cup fxUnavailable)
        /\ GateStages.resolution.remaining = Cardinality(resolved)
        /\ GateStages.basis_gates.entered = Cardinality(resolved)
        /\ GateStages.basis_gates.dropped = Cardinality(BasisDrops)
        /\ GateStages.basis_gates.remaining = Cardinality(Passed)
        /\ GateStages.edgar_gates.entered = Cardinality(Passed)
        /\ GateStages.edgar_gates.dropped = Cardinality(EdgarDrops)
        /\ GateStages.edgar_gates.remaining = Cardinality(EdgarPassed)
        /\ Cardinality(Universe) = Cardinality(unresolved \cup noSymbolData \cup fxUnavailable)
                                     + Cardinality(resolved)
        /\ Cardinality(resolved) = Cardinality(BasisDrops) + Cardinality(Passed)
        /\ Cardinality(Passed) = Cardinality(EdgarDrops) + Cardinality(EdgarPassed)
        /\ Cardinality(EdgarPassed) = Cardinality(EdgarPassed \ hits) + Cardinality(hits)
        /\ Cardinality(EdgarPassed) \in Nat
    BY <1>1, GateCounts
  <2>6. /\ stages'.crosshits.remaining = Cardinality(crosshits')
        /\ stages'.crosshits.entered = stages'.scoring.remaining
        /\ stages'.scoring.entered = stages'.edgar_gates.remaining
        /\ stages'.edgar_gates.entered = stages'.basis_gates.remaining
        /\ stages'.basis_gates.entered = stages'.resolution.remaining
        /\ stages'.resolution.entered = Cardinality(Universe)
    BY <1>3, <2>3, <2>4, <2>5 DEF ReportOf
  <2> DEFINE Adds(s) == /\ stages'[s].entered = stages'[s].dropped + stages'[s].remaining
                        /\ stages'[s].dropped = Cardinality({d \in dropouts' : d.stage = s})
  <2>7. Adds("resolution")
    BY <1>4, <2>3, <2>5 DEF Told
  <2>8. Adds("basis_gates")
    BY <1>4, <2>3, <2>5 DEF Told
  <2>9. Adds("edgar_gates")
    BY <1>4, <2>3, <2>5 DEF Told
  <2>10. Adds("scoring")
    BY <1>4, <2>4, <2>5 DEF Told
  <2>11. Adds("crosshits")
    BY <1>4, <2>4, <2>5 DEF Told
  <2> HIDE DEF Adds
  <2>12. \A s \in StageNames : Adds(s)
    BY <2>7, <2>8, <2>9, <2>10, <2>11 DEF StageNames
  <2>13. QED
    BY <2>6, <2>12 DEF StagesAddUp, Adds
<1>9. UncheckedIsReported'
  BY <1>1 DEF UncheckedIsReported, EdgarPassed, Passed, lists, gates, edgarVars
<1>10. QED
  BY <1>5, <1>6, <1>7, <1>8, <1>9

\* The first state has nobody decided and the whole universe to do.
LEMMA FunnelInit == Init => FunnelInv
<1> SUFFICES ASSUME Init PROVE FunnelInv
  OBVIOUS
<1>1. signals \in [Universe -> [restatement : {"yes", "no", None},
                                goingConcern : {"yes", "no", None}]]
  BY DEF Init, NoSignals
<1>2. report \in [DOMAIN NoReport -> SUBSET Universe]
  BY DEF Init, NoReport
<1>3. TypeOK
  BY <1>1, <1>2 DEF Init, TypeOK
<1>4. Divided /\ Priced
  BY DEF Init, Divided, Priced
<1>5. Gated
  BY FunnelConstants DEF Init, Gated
<1>6. Answered /\ EveryTitleInOneBasket /\ StagesAddUp /\ UncheckedIsReported
  BY DEF Init, Answered, EveryTitleInOneBasket, StagesAddUp, UncheckedIsReported
<1>7. QED
  BY <1>3, <1>4, <1>5, <1>6 DEF FunnelInv

\* Every step of the screening keeps the invariant.
LEMMA FunnelNext == FunnelInv /\ [Next]_vars => FunnelInv'
<1> SUFFICES ASSUME FunnelInv, [Next]_vars PROVE FunnelInv'
  OBVIOUS
<1>1. ASSUME NEW t \in Universe, Resolve(t) PROVE FunnelInv'
  BY <1>1, ResolveStep
<1>2. CASE EndFetch \/ AssessDefinednessBasket \/ AssessRevenueTrajectory
  BY <1>2, PrepassStep
<1>3. CASE ApplyBasisFilters
  BY <1>3, BasisStep
<1>4. CASE EvaluateEdgar
  BY <1>4, EvaluateStep
<1>5. CASE ApplyEdgarFilters
  BY <1>5, EdgarGateStep
<1>6. CASE \/ BuildPreviewFunnel
           \/ \E clears, takers \in SUBSET Universe : BuildFunnel(clears, takers)
  BY <1>6, FunnelStep
<1>7. CASE UNCHANGED vars
  <2>1. TypeOK' /\ Divided' /\ Priced'
    BY <1>7 DEF FunnelInv, TypeOK, Divided, Priced, vars, lists, gates, edgarVars, funnelVars
  <2>2. Gated' /\ Answered'
    BY <1>7 DEF FunnelInv, Gated, Answered, Passed, vars, lists, gates, edgarVars
  <2>3. EveryTitleInOneBasket' /\ StagesAddUp' /\ UncheckedIsReported'
    BY <1>7 DEF FunnelInv, EveryTitleInOneBasket, StagesAddUp, UncheckedIsReported, EdgarPassed,
                Passed, vars, lists, gates, edgarVars, funnelVars
  <2>4. QED
    BY <2>1, <2>2, <2>3 DEF FunnelInv
<1>8. QED
  BY <1>1, <1>2, <1>3, <1>4, <1>5, <1>6, <1>7 DEF Next

\* The strengthening of the properties below holds in every reachable state.
THEOREM FunnelInvariant == Spec => []FunnelInv
BY FunnelInit, FunnelNext, PTL DEF Spec

\* Every variable of the run keeps to its domain.
THEOREM FunnelTypes == Spec => []TypeOK
<1>1. FunnelInv => TypeOK
  BY DEF FunnelInv
<1>2. QED
  BY <1>1, FunnelInvariant, PTL

\* No title of the universe is lost on the way or reported twice, whichever calls fail.
THEOREM NoTitleIsLost == Spec => []EveryTitleInOneBasket
<1>1. FunnelInv => EveryTitleInOneBasket
  BY DEF FunnelInv
<1>2. QED
  BY <1>1, FunnelInvariant, PTL

\* The table of the report adds up for a universe of any size.
THEOREM TableAddsUp == Spec => []StagesAddUp
<1>1. FunnelInv => StagesAddUp
  BY DEF FunnelInv
<1>2. QED
  BY <1>1, FunnelInvariant, PTL

\* A title the SEC was not asked about, or did not answer for, is reported as such.
THEOREM PassThroughsAreListed == Spec => []UncheckedIsReported
<1>1. FunnelInv => UncheckedIsReported
  BY DEF FunnelInv
<1>2. QED
  BY <1>1, FunnelInvariant, PTL

\* Whatever Yahoo and the FX feed answer, the volume gate has all it computes with.
THEOREM VolumeGateComputes == Spec => []GateNeverThrows
<1>1. FunnelInv => GateNeverThrows
  <2>1. ASSUME FunnelInv, NEW t \in resolved
        PROVE  Computable(t)
    <3>1. /\ info[t] \in Infos /\ info[t].volume # None /\ info[t].price # None
          /\ info[t].cap # None /\ info[t].currency # None /\ fx[info[t].currency] = "rate"
      BY <2>1 DEF FunnelInv, Priced
    <3>2. info[t].cap \in Int /\ Rate[info[t].currency] \in Int
      BY <3>1, FunnelConstants
    <3>3. info[t].cap * Rate[info[t].currency] \in Int
      BY <3>2
    <3>4. MarketCapEur(info[t]) = info[t].cap * Rate[info[t].currency]
      BY <3>1 DEF MarketCapEur
    <3>5. QED
      BY <3>1, <3>3, <3>4, FunnelConstants DEF Computable
  <2>2. QED
    BY <2>1 DEF GateNeverThrows
<1>2. QED
  BY <1>1, FunnelInvariant, PTL
-----------------------------------------------------------------------------
\* A verdict is a reason, "CROSSHIT", or not there yet.
LEMMA VerdictTypes ==
  FunnelInv => \A t \in Universe : Verdict(t) \in ReasonCodes \cup {"CROSSHIT", None}
<1> SUFFICES ASSUME FunnelInv, NEW t \in Universe
             PROVE  Verdict(t) \in ReasonCodes \cup {"CROSSHIT", None}
  OBVIOUS
<1> USE DEF FunnelInv
<1>1. {"RESOLUTION_DEGRADED_DICT", "RESOLUTION_UNRESOLVED", "RESOLUTION_NO_SYMBOL_DATA",
       "RESOLUTION_FX_UNAVAILABLE"} \subseteq ReasonCodes
  BY CodeTypes
<1>2. basisGate[t] = "failed" => BasisReason[failReason[t]] \in ReasonCodes
  BY CodeTypes DEF Gated
<1>3. edgarGate[t] = "failed" => EdgarReason[failReason[t]] \in ReasonCodes
  BY CodeTypes DEF Gated
<1>4. stage = "done" /\ t \notin crosshits =>
        (CHOOSE d \in dropouts : d.ticker = t).code \in ReasonCodes
  <2>1. ASSUME stage = "done", t \notin crosshits PROVE \E d \in dropouts : d.ticker = t
    BY <2>1 DEF EveryTitleInOneBasket
  <2>2. \A d \in dropouts : d.code \in ReasonCodes
    BY DEF TypeOK
  <2>3. QED
    BY <2>1, <2>2
<1>5. QED
  BY <1>1, <1>2, <1>3, <1>4 DEF Verdict

\* No step touches a title that has its verdict.
LEMMA VerdictStays ==
  ASSUME FunnelInv, [Next]_vars, NEW t \in Universe, Verdict(t) # None
  PROVE  Verdict(t)' = Verdict(t)
<1> USE DEF FunnelInv
<1> DEFINE Early == t \in unresolved \cup noSymbolData \cup fxUnavailable
<1>1. degraded \subseteq unresolved
  BY DEF Divided
<1>2. ASSUME NEW x \in Universe, Resolve(x) PROVE Verdict(t)' = Verdict(t)
  <2>1. /\ InLoop(x) /\ stage = "resolve" /\ x \in todo
        /\ UNCHANGED <<stage, gates, funnelVars>>
    BY <1>2 DEF Resolve, FetchFails, Fetch, FetchAgain, RetryFails, InLoop
  <2>2. basisGate[t] = None /\ edgarGate[t] = None
    BY <2>1 DEF Gated
  <2>3. Early
    BY <1>1, <2>1, <2>2, FunnelConstants DEF Verdict
  <2>4. t # x
    BY <2>1, <2>3 DEF Divided
  <2>5. /\ t \in degraded' <=> t \in degraded
        /\ t \in unresolved' <=> t \in unresolved
        /\ t \in noSymbolData' <=> t \in noSymbolData
        /\ t \in fxUnavailable' <=> t \in fxUnavailable
    BY <1>2, <2>4 DEF Resolve, FetchFails, Fetch, FetchAgain, RetryFails, Put
  <2>6. QED
    BY <1>1, <2>3, <2>5 DEF Verdict
<1>3. CASE EndFetch \/ AssessDefinednessBasket \/ AssessRevenueTrajectory \/ EvaluateEdgar
  <2>1. UNCHANGED <<lists, gates, dropouts, crosshits>> /\ stage # "done" /\ stage' # "done"
    BY <1>3 DEF EndFetch, AssessDefinednessBasket, AssessRevenueTrajectory, EvaluateEdgar,
                funnelVars
  <2>2. QED
    BY <2>1 DEF Verdict, lists, gates
<1>4. CASE ApplyBasisFilters
  <2>1. UNCHANGED lists /\ stage = "basis" /\ stage' = "edgar"
    BY <1>4 DEF ApplyBasisFilters
  <2>2. basisGate[t] = None /\ edgarGate[t] = None
    BY <2>1 DEF Gated
  <2>3. Early
    BY <1>1, <2>1, <2>2, FunnelConstants DEF Verdict
  <2>4. QED
    BY <1>1, <2>1, <2>3 DEF Verdict, lists
<1>5. CASE ApplyEdgarFilters
  <2>1. /\ UNCHANGED <<lists, basisGate>> /\ stage = "edgar_gate" /\ stage' = "funnel"
        /\ t \notin Passed => failReason'[t] = failReason[t]
    BY <1>5 DEF ApplyEdgarFilters
  <2>2. edgarGate[t] = None
    BY <2>1 DEF Gated
  <2>3. Early \/ basisGate[t] = "failed"
    BY <1>1, <2>1, <2>2, FunnelConstants DEF Verdict
  <2>4. basisGate[t] = "failed" => failReason'[t] = failReason[t]
    BY <2>1 DEF Passed
  <2>5. QED
    BY <1>1, <2>1, <2>3, <2>4 DEF Verdict, lists
<1>6. CASE \/ BuildPreviewFunnel
           \/ \E clears, takers \in SUBSET Universe : BuildFunnel(clears, takers)
  <2>1. UNCHANGED <<lists, gates>> /\ stage = "funnel"
    BY <1>6 DEF BuildPreviewFunnel, BuildFunnel, FunnelReads
  <2>2. Early \/ basisGate[t] = "failed" \/ edgarGate[t] = "failed"
    BY <1>1, <2>1, FunnelConstants DEF Verdict
  <2>3. QED
    BY <1>1, <2>1, <2>2 DEF Verdict, lists, gates
<1>7. CASE UNCHANGED vars
  BY <1>7 DEF Verdict, vars, lists, gates, funnelVars
<1>8. QED
  BY <1>2, <1>3, <1>4, <1>5, <1>6, <1>7 DEF Next

\* Before the screening nobody has a verdict.
LEMMA VerdictsInit == Init => Verdicts!Init
<1>1. ASSUME Init, NEW t \in Universe PROVE Verdict(t) = None
  BY <1>1, FunnelConstants DEF Init, Verdict
<1>2. QED
  BY <1>1 DEF Verdicts!Init

\* Every step of the screening decides undecided titles only, or nobody.
LEMMA VerdictsStep ==
  ASSUME FunnelInv, FunnelInv', [Next]_vars
  PROVE  [Verdicts!Decide]_[t \in Universe |-> Verdict(t)]
<1> DEFINE v == [t \in Universe |-> Verdict(t)]
           new == [t \in Verdicts!Undecided |-> Verdict(t)']
<1>1. Verdicts!Undecided = {t \in Universe : Verdict(t) = None}
  BY DEF Verdicts!Undecided
<1>2. \A t \in Universe : Verdict(t)' \in ReasonCodes \cup {"CROSSHIT"} \cup {None}
  <2>1. FunnelInv' => (\A t \in Universe : Verdict(t) \in ReasonCodes \cup {"CROSSHIT", None})'
    BY VerdictTypes, PTL
  <2>2. QED
    BY <2>1
<1>3. new \in [Verdicts!Undecided -> ReasonCodes \cup {"CROSSHIT"} \cup {None}]
  BY <1>1, <1>2
<1>4. v' = [t \in Universe |-> IF t \in Verdicts!Undecided THEN new[t] ELSE v[t]]
  <2>1. \A t \in Universe : Verdict(t) # None => Verdict(t)' = Verdict(t)
    BY VerdictStays
  <2>2. QED
    BY <1>1, <2>1
<1>5. QED
  BY <1>3, <1>4 DEF Verdicts!Decide

\* The pipeline implements the promise of FunnelVerdicts: a title gets one verdict, and no
\* later stage of the run takes it back or changes it.
THEOREM FunnelDecidesOnce == Spec => DecidesOnce
<1>1. QED
  BY FunnelInvariant, VerdictsInit, VerdictsStep, PTL DEF Spec, DecidesOnce, Verdicts!Spec
-----------------------------------------------------------------------------
\* No pre-pass or lookup has failed that has not run yet, and nothing is reported.
NotYet ==
  /\ stage # "done" => dropouts = {}
  /\ \A t \in Universe :
       /\ stage \in {"resolve", "definedness"} => <<t, "definedness">> \notin missed
       /\ stage \in {"resolve", "definedness", "trajectory"} => <<t, "trajectory">> \notin missed
       /\ stage \in {"resolve", "definedness", "trajectory", "basis", "edgar"}
            => <<t, "edgar">> \notin missed

\* What a failed call has left behind about its title.
Excused ==
  \A t \in Universe :
    /\ <<t, "info">> \in missed => t \in unresolved
    /\ <<t, "retry">> \in missed => t \in noSymbolData
    /\ <<t, "definedness">> \in missed => t \in resolved /\ definedness[t] = "UNASSESSABLE"
    /\ <<t, "trajectory">> \in missed =>
         /\ t \in resolved /\ trajectory[t] = "UNASSESSABLE"
         /\ PassesVolume(t) /\ PassesMarketCap(t)
         /\ definedness[t] \notin {"UNASSESSABLE", "METRIK_NA"}
         /\ GrossMarginPassReason(t) # None
    /\ <<t, "edgar">> \in missed => t \in resolved /\ basisGate[t] = "passed" /\ skipped[t] # None

\* The verdict of the basis gates is the one the fields of the record give.
Reasoned ==
  stage \notin {"resolve", "definedness", "trajectory", "basis"} =>
    \A t \in resolved : /\ basisGate[t] = "passed" <=> GetFailReason(t) = None
                        /\ basisGate[t] = "failed" => failReason[t] = GetFailReason(t)

\* Nobody is dropped at the EDGAR gate without its answers.
Unskipped == \A t \in Universe : edgarGate[t] = "failed" => skipped[t] = None

OutageInv == FunnelInv /\ NotYet /\ Excused /\ Reasoned /\ Unskipped /\ OutageIsNoVerdict

\* The reason depends on the record and the two pre-passes only.
LEMMA SameFigures ==
  ASSUME UNCHANGED <<info, fx>>, NEW t
  PROVE  /\ PassesVolume(t)' = PassesVolume(t)
         /\ PassesMarketCap(t)' = PassesMarketCap(t)
         /\ GrossMarginPassReason(t)' = GrossMarginPassReason(t)
<1>1. PassesVolume(t)' = PassesVolume(t)
  BY DEF PassesVolume
<1>2. PassesMarketCap(t)' = PassesMarketCap(t)
  BY DEF PassesMarketCap, MarketCapEur
<1>3. GrossMarginPassReason(t)' = GrossMarginPassReason(t)
  BY DEF GrossMarginPassReason, BucketMedian
<1>4. QED
  BY <1>1, <1>2, <1>3

\* Who leaves the record alone leaves its reason alone.
LEMMA SameReason ==
  ASSUME UNCHANGED <<info, fx, definedness, trajectory>>, NEW t
  PROVE  GetFailReason(t)' = GetFailReason(t)
<1>1. /\ PassesVolume(t)' = PassesVolume(t)
      /\ PassesMarketCap(t)' = PassesMarketCap(t)
      /\ GrossMarginPassReason(t)' = GrossMarginPassReason(t)
  BY SameFigures
<1>4. RevenueGrowthOutcome(t)' = RevenueGrowthOutcome(t)
  BY DEF RevenueGrowthOutcome, TtmPass
<1>5. definedness' = definedness
  OBVIOUS
<1>6. GetFailReason(t)' = GetFailReason(t)
  BY <1>1, <1>4, <1>5, Zenon DEF GetFailReason
<1>7. QED
  BY <1>6

\* The codes of the basis gates that judge nothing but size, trade and availability.
LEMMA CodeMeans ==
  /\ \A r \in {"avg_volume", "market_cap", "statement_unavailable"} :
       BasisReason[r] \notin QualityCodes
  /\ \A r \in DOMAIN EdgarReason : EdgarReason[r] \in Values(EdgarReason)
  /\ {"RESOLUTION_DEGRADED_DICT", "RESOLUTION_UNRESOLVED", "RESOLUTION_NO_SYMBOL_DATA",
      "PRICE_TAKER_EXCLUDED", "SCORE_BELOW_THRESHOLD"} \cap QualityCodes = {}
<1>1. /\ BasisReason["avg_volume"] = "GATE_VOLUME"
      /\ BasisReason["market_cap"] = "GATE_MARKET_CAP"
      /\ BasisReason["statement_unavailable"] = "RESOLUTION_STATEMENT_UNAVAILABLE"
  BY Zenon DEF BasisReason
<1>2. \A r \in DOMAIN EdgarReason : EdgarReason[r] \in Values(EdgarReason)
  BY DEF Values
<1>3. QED
  BY <1>1, <1>2 DEF QualityCodes

\* Which titles are judged on their metric, their margin or their growth.
LEMMA ReasonMeans ==
  ASSUME NEW t
  PROVE  /\ GetFailReason(t) \in {"gross_margin", "revenue_growth", None}
              => /\ PassesVolume(t) /\ PassesMarketCap(t)
                 /\ definedness[t] \notin {"UNASSESSABLE", "METRIK_NA"}
         /\ PassesVolume(t) /\ PassesMarketCap(t)
              /\ definedness[t] \notin {"UNASSESSABLE", "METRIK_NA"}
              => GetFailReason(t) \in {"gross_margin", "revenue_growth", None}
         /\ definedness[t] = "UNASSESSABLE"
              => GetFailReason(t) \in {"avg_volume", "market_cap", "statement_unavailable"}
         /\ PassesVolume(t) /\ PassesMarketCap(t)
              /\ definedness[t] \notin {"UNASSESSABLE", "METRIK_NA"}
              /\ GrossMarginPassReason(t) # None /\ trajectory[t] = "UNASSESSABLE"
              => GetFailReason(t) = None
<1>1. CASE ~PassesVolume(t)
  <2>1. GetFailReason(t) = "avg_volume"
    BY <1>1, Zenon DEF GetFailReason
  <2>2. QED
    BY <1>1, <2>1, FunnelConstants, ReasonDomains
<1>2. CASE PassesVolume(t) /\ ~PassesMarketCap(t)
  <2>1. GetFailReason(t) = "market_cap"
    BY <1>2, Zenon DEF GetFailReason
  <2>2. QED
    BY <1>2, <2>1, FunnelConstants, ReasonDomains
<1>3. CASE PassesVolume(t) /\ PassesMarketCap(t)
  <2>1. GetFailReason(t) = IF definedness[t] = "UNASSESSABLE" THEN "statement_unavailable"
                           ELSE IF definedness[t] = "METRIK_NA" THEN "metric_na"
                           ELSE IF GrossMarginPassReason(t) = None THEN "gross_margin"
                           ELSE IF RevenueGrowthOutcome(t) = "DECLINE_DROP"
                           THEN "revenue_growth" ELSE None
    BY <1>3, Zenon DEF GetFailReason
  <2>2. trajectory[t] = "UNASSESSABLE" => RevenueGrowthOutcome(t) # "DECLINE_DROP"
    BY DEF RevenueGrowthOutcome
  <2>3. QED
    BY <1>3, <2>1, <2>2, FunnelConstants, ReasonDomains
<1>4. QED
  BY <1>1, <1>2, <1>3

\* Before the first call none has failed.
LEMMA OutageInit == Init => OutageInv
<1> SUFFICES ASSUME Init PROVE OutageInv
  OBVIOUS
<1>1. NotYet /\ Excused
  BY DEF Init, NotYet, Excused
<1>2. Reasoned /\ Unskipped /\ OutageIsNoVerdict
  BY FunnelConstants DEF Init, Reasoned, Unskipped, OutageIsNoVerdict
<1>3. QED
  BY <1>1, <1>2, FunnelInit DEF OutageInv

\* Every step keeps the mark that a failed call has left.
LEMMA OutageNext == OutageInv /\ [Next]_vars => OutageInv'
<1> SUFFICES ASSUME OutageInv, [Next]_vars PROVE OutageInv'
  OBVIOUS
<1> DEFINE Rest == NotYet /\ Excused /\ Reasoned /\ Unskipped /\ OutageIsNoVerdict
<1>0. FunnelInv /\ FunnelInv' /\ Rest /\ TypeOK /\ Divided /\ Gated
  BY FunnelNext DEF OutageInv, FunnelInv
<1> SUFFICES Rest'
  BY <1>0 DEF OutageInv
<1>1. ASSUME NEW x \in Universe, Resolve(x) PROVE Rest'
  <2>1. /\ InLoop(x) /\ stage = "resolve" /\ stage' = "resolve" /\ x \in todo
        /\ UNCHANGED <<definedness, trajectory, gates, edgarVars, funnelVars>>
    BY <1>1 DEF Resolve, FetchFails, Fetch, FetchAgain, RetryFails, InLoop
  <2>2. /\ unresolved \subseteq unresolved' /\ noSymbolData \subseteq noSymbolData'
        /\ missed' \subseteq missed \cup {<<x, "info">>, <<x, "retry">>}
        /\ <<x, "info">> \in missed' => <<x, "info">> \in missed \/ x \in unresolved'
        /\ <<x, "retry">> \in missed' => <<x, "retry">> \in missed \/ x \in noSymbolData'
    <3>1. ASSUME NEW d \in BOOLEAN, FetchFails(x, d) PROVE <2>2!:
      BY <3>1 DEF FetchFails
    <3>2. ASSUME NEW i \in Infos, Fetch(x, i) \/ FetchAgain(x, i) PROVE <2>2!:
      BY <3>2 DEF Fetch, FetchAgain, Put
    <3>3. ASSUME NEW i \in Infos, RetryFails(x, i) PROVE <2>2!:
      BY <3>3 DEF RetryFails, Put, Destination, Reason
    <3>4. QED
      BY <1>1, <3>1, <3>2, <3>3 DEF Resolve
  <2>3. \A t \in Universe :
          /\ <<t, "definedness">> \notin missed' /\ <<t, "trajectory">> \notin missed'
          /\ <<t, "edgar">> \notin missed'
    BY <1>0, <2>1, <2>2 DEF NotYet
  <2>4. NotYet' /\ Excused'
    BY <1>0, <2>1, <2>2, <2>3 DEF NotYet, Excused, funnelVars
  <2>5. Reasoned' /\ Unskipped'
    BY <1>0, <2>1 DEF Reasoned, Unskipped, gates, edgarVars
  <2>6. OutageIsNoVerdict'
    <3>1. dropouts' = dropouts /\ \A d \in dropouts : d.ticker \in Universe
      BY <1>0, <2>1 DEF funnelVars, TypeOK
    <3>2. dropouts = {}
      BY <1>0, <2>1 DEF NotYet
    <3>3. QED
      BY <2>1, <3>1, <3>2 DEF OutageIsNoVerdict
  <2>7. QED
    BY <2>4, <2>5, <2>6
<1>2. CASE EndFetch
  <2>1. /\ stage = "resolve" /\ stage' = "definedness"
        /\ UNCHANGED <<info, fx, lists, definedness, trajectory, gates, edgarVars, funnelVars,
                       missed>>
    BY <1>2 DEF EndFetch
  <2>2. NotYet' /\ Excused'
    BY <1>0, <2>1 DEF NotYet, Excused, lists, funnelVars
  <2>3. Reasoned' /\ Unskipped' /\ OutageIsNoVerdict'
    BY <1>0, <2>1 DEF Reasoned, Unskipped, OutageIsNoVerdict, gates, edgarVars, funnelVars
  <2>4. QED
    BY <2>2, <2>3
<1>3. CASE AssessDefinednessBasket
  <2> DEFINE basket == {t \in resolved : PassesVolume(t) /\ PassesMarketCap(t) /\ Suspect(t)}
             asked == {t \in basket : ~info[t].reit}
  <2>1. /\ stage = "definedness" /\ stage' = "trajectory"
        /\ UNCHANGED <<info, fx, lists, trajectory, gates, edgarVars, funnelVars>>
    BY <1>3 DEF AssessDefinednessBasket
  <2>2. PICK answer \in [asked -> Statements \cup {None}] :
          /\ definedness' =
               [t \in Universe |->
                  IF t \in asked THEN AssessDefinedness(t, answer[t])
                  ELSE IF t \in basket THEN "METRIK_NA" ELSE None]
          /\ missed' = missed \cup
               {<<t, "definedness">> : t \in {x \in asked : answer[x] = None}}
    BY <1>3, Zenon DEF AssessDefinednessBasket
  <2>3. asked \subseteq resolved /\ resolved \subseteq Universe /\ \A t \in asked : ~info[t].reit
    BY <1>0 DEF TypeOK
  <2> HIDE DEF asked, basket
  <2>4. \A t \in asked : ~info[t].reit => AssessDefinedness(t, None) = "UNASSESSABLE"
    BY DEF AssessDefinedness
  <2>5. \A t \in Universe :
          /\ <<t, "definedness">> \in missed' => t \in resolved /\ definedness'[t] = "UNASSESSABLE"
          /\ \A call \in {"info", "retry", "trajectory", "edgar"} :
               <<t, call>> \in missed' => <<t, call>> \in missed
    BY <1>0, <2>1, <2>2, <2>3, <2>4 DEF NotYet
  <2>6. NotYet' /\ Excused'
    BY <1>0, <2>1, <2>5 DEF NotYet, Excused, lists, funnelVars
  <2>7. Reasoned' /\ Unskipped' /\ OutageIsNoVerdict'
    BY <1>0, <2>1 DEF NotYet, Reasoned, Unskipped, OutageIsNoVerdict, gates, edgarVars, funnelVars
  <2>8. QED
    BY <2>6, <2>7
<1>4. CASE AssessRevenueTrajectory
  <2> DEFINE cohort == {t \in resolved :
                          /\ PassesVolume(t) /\ PassesMarketCap(t)
                          /\ definedness[t] \notin {"UNASSESSABLE", "METRIK_NA"}
                          /\ GrossMarginPassReason(t) # None
                          /\ ~TtmPass(t)}
  <2>1. /\ stage = "trajectory" /\ stage' = "basis"
        /\ UNCHANGED <<info, fx, lists, definedness, gates, edgarVars, funnelVars>>
    BY <1>4 DEF AssessRevenueTrajectory
  <2>2. PICK answer \in [cohort -> Statements \cup {None}] :
          /\ trajectory' =
               [t \in Universe |->
                  IF t \notin cohort THEN None
                  ELSE IF answer[t] = None THEN "UNASSESSABLE"
                  ELSE ClassifyRevenueTrajectory(RevenueSeries(answer[t]))]
          /\ missed' = missed \cup
               {<<t, "trajectory">> : t \in {x \in cohort : answer[x] = None}}
    BY <1>4, Zenon DEF AssessRevenueTrajectory
  <2>3. /\ cohort \subseteq resolved /\ resolved \subseteq Universe
        /\ \A t \in cohort : /\ PassesVolume(t) /\ PassesMarketCap(t)
                             /\ definedness[t] \notin {"UNASSESSABLE", "METRIK_NA"}
                             /\ GrossMarginPassReason(t) # None
    BY <1>0 DEF TypeOK
  <2> HIDE DEF cohort
  <2>4. \A t : /\ PassesVolume(t)' = PassesVolume(t)
               /\ PassesMarketCap(t)' = PassesMarketCap(t)
               /\ GrossMarginPassReason(t)' = GrossMarginPassReason(t)
    BY <2>1, SameFigures
  <2>5. \A t \in Universe :
          /\ <<t, "trajectory">> \in missed' => t \in cohort /\ trajectory'[t] = "UNASSESSABLE"
          /\ \A call \in {"info", "retry", "definedness", "edgar"} :
               <<t, call>> \in missed' => <<t, call>> \in missed
    BY <1>0, <2>1, <2>2, <2>3 DEF NotYet
  <2>6. NotYet' /\ Excused'
    BY <1>0, <2>1, <2>3, <2>4, <2>5 DEF NotYet, Excused, lists, funnelVars
  <2>7. Reasoned' /\ Unskipped' /\ OutageIsNoVerdict'
    BY <1>0, <2>1 DEF NotYet, Reasoned, Unskipped, OutageIsNoVerdict, gates, edgarVars, funnelVars
  <2>8. QED
    BY <2>6, <2>7
<1>5. CASE ApplyBasisFilters
  <2>1. /\ stage = "basis" /\ stage' = "edgar"
        /\ UNCHANGED <<info, fx, lists, definedness, trajectory, edgarGate, edgarVars, funnelVars,
                       missed>>
        /\ failReason' = [t \in Universe |-> IF t \in resolved THEN GetFailReason(t) ELSE None]
        /\ basisGate' = [t \in Universe |->
                           IF t \notin resolved THEN None
                           ELSE IF GetFailReason(t) = None THEN "passed" ELSE "failed"]
    BY <1>5 DEF ApplyBasisFilters
  <2>2. \A t : /\ PassesVolume(t)' = PassesVolume(t)
               /\ PassesMarketCap(t)' = PassesMarketCap(t)
               /\ GrossMarginPassReason(t)' = GrossMarginPassReason(t)
               /\ GetFailReason(t)' = GetFailReason(t)
    BY <2>1, SameFigures, SameReason
  <2>3. NotYet' /\ Excused'
    BY <1>0, <2>1, <2>2 DEF NotYet, Excused, lists, funnelVars
  <2>4. Reasoned'
    BY <1>0, <2>1, <2>2 DEF Reasoned, TypeOK, lists
  <2>5. Unskipped' /\ OutageIsNoVerdict'
    BY <1>0, <2>1 DEF NotYet, Unskipped, OutageIsNoVerdict, edgarVars, funnelVars
  <2>6. QED
    BY <2>3, <2>4, <2>5
<1>6. CASE EvaluateEdgar
  <2>1. /\ stage = "edgar" /\ stage' = "edgar_gate"
        /\ UNCHANGED <<info, fx, lists, definedness, trajectory, gates, funnelVars>>
    BY <1>6 DEF EvaluateEdgar
  <2>2. \A t \in Universe :
          /\ <<t, "edgar">> \in missed' => t \in Passed /\ skipped'[t] # None
          /\ \A call \in {"info", "retry", "definedness", "trajectory"} :
               <<t, call>> \in missed' => <<t, call>> \in missed
    <3> DEFINE asks == {t \in Passed : ~info[t].cik}
               Answers == {"yes", "no", "lost"}
    <3>1. PICK known \in SUBSET asks :
            LET found == IF map' = "failed" THEN {} ELSE known
                called == (Passed \ asks) \cup found
            IN \E restated \in [called -> Answers], doubt \in [called -> Answers] :
                 LET lost == {t \in called : Lost(restated[t], doubt[t])}
                 IN /\ signals' =
                         [t \in Universe |->
                            IF t \notin called \/ restated[t] = "lost" THEN NoSignals
                            ELSE [restatement |-> restated[t],
                                  goingConcern |-> IF doubt[t] = "lost" THEN None ELSE doubt[t]]]
                    /\ skipped' =
                         [t \in Universe |-> IF t \in lost THEN "data_source_error"
                                             ELSE IF t \in Passed \ called THEN "no_cik" ELSE None]
                    /\ missed' = missed \cup {<<t, "edgar">> : t \in lost}
      BY <1>6, Zenon DEF EvaluateEdgar
    <3> DEFINE called == (Passed \ asks) \cup (IF map' = "failed" THEN {} ELSE known)
    <3>2. \E lost \in SUBSET called :
            /\ skipped' = [t \in Universe |-> IF t \in lost THEN "data_source_error"
                                              ELSE IF t \in Passed \ called THEN "no_cik" ELSE None]
            /\ missed' = missed \cup {<<t, "edgar">> : t \in lost}
      BY <3>1
    <3>3. called \subseteq Passed
      OBVIOUS
    <3> HIDE DEF called, asks
    <3>4. QED
      BY <1>0, <2>1, <3>2, <3>3, FunnelConstants DEF NotYet
  <2>3. \A t : /\ PassesVolume(t)' = PassesVolume(t)
               /\ PassesMarketCap(t)' = PassesMarketCap(t)
               /\ GrossMarginPassReason(t)' = GrossMarginPassReason(t)
               /\ GetFailReason(t)' = GetFailReason(t)
    BY <2>1, SameFigures, SameReason
  <2>4. NotYet' /\ Excused'
    BY <1>0, <2>1, <2>2, <2>3 DEF NotYet, Excused, Passed, lists, gates, funnelVars
  <2>5. Reasoned'
    BY <1>0, <2>1, <2>3 DEF Reasoned, lists, gates
  <2>6. Unskipped' /\ OutageIsNoVerdict'
    BY <1>0, <2>1, FunnelConstants DEF NotYet, Gated, Unskipped, OutageIsNoVerdict, gates, funnelVars
  <2>7. QED
    BY <2>4, <2>5, <2>6
<1>7. CASE ApplyEdgarFilters
  <2>1. /\ stage = "edgar_gate" /\ stage' = "funnel"
        /\ UNCHANGED <<info, fx, lists, definedness, trajectory, basisGate, skipped, funnelVars,
                       missed>>
        /\ \A t \in Universe : edgarGate'[t] = "failed" => skipped[t] = None
        /\ \A t \in Universe : t \notin Passed => failReason'[t] = failReason[t]
    BY <1>7, FunnelConstants DEF ApplyEdgarFilters
  <2>2. \A t : /\ PassesVolume(t)' = PassesVolume(t)
               /\ PassesMarketCap(t)' = PassesMarketCap(t)
               /\ GrossMarginPassReason(t)' = GrossMarginPassReason(t)
               /\ GetFailReason(t)' = GetFailReason(t)
    BY <2>1, SameFigures, SameReason
  <2>3. NotYet' /\ Excused'
    BY <1>0, <2>1, <2>2 DEF NotYet, Excused, lists, funnelVars
  <2>4. Reasoned'
    BY <1>0, <2>1, <2>2 DEF Reasoned, Passed, TypeOK, lists
  <2>5. Unskipped' /\ OutageIsNoVerdict'
    BY <1>0, <2>1 DEF NotYet, Unskipped, OutageIsNoVerdict, funnelVars
  <2>6. QED
    BY <2>3, <2>4, <2>5
<1>8. CASE \/ BuildPreviewFunnel
           \/ \E clears, takers \in SUBSET Universe : BuildFunnel(clears, takers)
  <2>1. /\ stage = "funnel" /\ stage' = "done"
        /\ UNCHANGED <<info, fx, lists, definedness, trajectory, gates, edgarVars, missed>>
    BY <1>8 DEF BuildPreviewFunnel, BuildFunnel, FunnelReads
  <2>2. \A t : /\ PassesVolume(t)' = PassesVolume(t)
               /\ PassesMarketCap(t)' = PassesMarketCap(t)
               /\ GrossMarginPassReason(t)' = GrossMarginPassReason(t)
               /\ GetFailReason(t)' = GetFailReason(t)
    BY <2>1, SameFigures, SameReason
  <2>3. NotYet' /\ Excused'
    BY <1>0, <2>1, <2>2 DEF NotYet, Excused, lists, gates, edgarVars
  <2>4. Reasoned' /\ Unskipped'
    BY <1>0, <2>1, <2>2 DEF Reasoned, Unskipped, lists, gates, edgarVars
  <2>5. OutageIsNoVerdict'
    <3>1. PICK hits \in SUBSET EdgarPassed : Told(hits, dropouts')
      BY <1>0, <1>8, BuildReport
    <3>2. SUFFICES ASSUME NEW d \in dropouts',
                          NEW call \in {"info", "retry", "definedness", "trajectory", "edgar"},
                          <<d.ticker, call>> \in missed
                   PROVE  \/ d.code \notin QualityCodes
                          \/ call = "trajectory" /\ d.code \in Values(EdgarReason)
      BY <2>1 DEF OutageIsNoVerdict
    <3> DEFINE t == d.ticker
    <3>3. CASE d.code \in {"PRICE_TAKER_EXCLUDED", "SCORE_BELOW_THRESHOLD"}
      BY <3>3, CodeMeans
    <3>4. CASE t \in Universe \ EdgarPassed /\ d.code = CodeOf(t)
      <4> HIDE DEF t
      <4>1. t \in Universe /\ t \notin EdgarPassed /\ <<t, call>> \in missed
        BY <3>2, <3>4 DEF t
      <4>2. t \in unresolved \cup noSymbolData \cup fxUnavailable \cup BasisDrops \cup EdgarDrops
        BY <1>0, <2>1, <4>1, Partition
      <4>3. /\ t \in resolved => t \notin unresolved \cup noSymbolData \cup fxUnavailable
            /\ t \in noSymbolData => t \notin unresolved
            /\ degraded \subseteq unresolved
        BY <1>0 DEF Divided
      <4>4. CASE call = "info"
        BY <1>0, <3>4, <4>1, <4>3, <4>4, CodeMeans DEF Excused, CodeOf
      <4>5. CASE call = "retry"
        BY <1>0, <3>4, <4>1, <4>3, <4>5, CodeMeans DEF Excused, CodeOf
      <4>6. CASE call = "definedness"
        <5>1. t \in resolved /\ definedness[t] = "UNASSESSABLE"
          BY <1>0, <4>1, <4>6 DEF Excused
        <5>2. GetFailReason(t) \in {"avg_volume", "market_cap", "statement_unavailable"}
          BY <5>1, ReasonMeans
        <5>3. basisGate[t] = "failed" /\ failReason[t] = GetFailReason(t)
          <6>1. basisGate[t] # "passed" /\ basisGate[t] # None
            BY <1>0, <2>1, <5>1, <5>2, FunnelConstants, ReasonDomains DEF Reasoned, Gated
          <6>2. basisGate[t] = "failed"
            BY <1>0, <4>1, <6>1 DEF TypeOK
          <6>3. QED
            BY <1>0, <2>1, <5>1, <6>2 DEF Reasoned
        <5>4. CodeOf(t) = BasisReason[failReason[t]]
          BY <4>3, <5>1, <5>3 DEF CodeOf, BasisDrops
        <5>5. QED
          BY <3>4, <5>2, <5>3, <5>4, CodeMeans
      <4>7. CASE call = "trajectory"
        <5>1. /\ t \in resolved /\ trajectory[t] = "UNASSESSABLE"
              /\ PassesVolume(t) /\ PassesMarketCap(t)
              /\ definedness[t] \notin {"UNASSESSABLE", "METRIK_NA"}
              /\ GrossMarginPassReason(t) # None
          BY <1>0, <4>1, <4>7 DEF Excused
        <5>2. basisGate[t] = "passed"
          BY <1>0, <2>1, <5>1, ReasonMeans DEF Reasoned
        <5>3. t \in EdgarDrops /\ t \notin BasisDrops
          BY <4>2, <4>3, <5>1, <5>2 DEF BasisDrops
        <5>4. d.code = EdgarReason[failReason[t]] /\ failReason[t] \in DOMAIN EdgarReason
          BY <1>0, <3>4, <4>1, <4>3, <5>1, <5>3 DEF CodeOf, EdgarDrops, Gated
        <5>5. QED
          BY <4>7, <5>4, CodeMeans
      <4>8. CASE call = "edgar"
        <5>1. t \in resolved /\ basisGate[t] = "passed" /\ skipped[t] # None
          BY <1>0, <4>1, <4>8 DEF Excused
        <5>2. edgarGate[t] # "failed"
          BY <1>0, <4>1, <5>1 DEF Unskipped
        <5>3. QED
          BY <4>1, <5>1, <5>2 DEF EdgarPassed, Passed
      <4>9. QED
        BY <4>4, <4>5, <4>6, <4>7, <4>8
    <3>5. QED
      BY <3>1, <3>3, <3>4 DEF Told
  <2>6. QED
    BY <2>3, <2>4, <2>5
<1>9. CASE UNCHANGED vars
  <2>1. \A t : /\ PassesVolume(t)' = PassesVolume(t)
               /\ PassesMarketCap(t)' = PassesMarketCap(t)
               /\ GrossMarginPassReason(t)' = GrossMarginPassReason(t)
               /\ GetFailReason(t)' = GetFailReason(t)
    BY <1>9, SameFigures, SameReason DEF vars
  <2>2. NotYet' /\ Excused'
    BY <1>0, <1>9, <2>1 DEF NotYet, Excused, vars, lists, gates, edgarVars, funnelVars
  <2>3. Reasoned' /\ Unskipped' /\ OutageIsNoVerdict'
    BY <1>0, <1>9, <2>1 DEF Reasoned, Unskipped, OutageIsNoVerdict, vars, lists, gates, edgarVars,
                            funnelVars
  <2>4. QED
    BY <2>2, <2>3
<1>10. QED
  BY <1>1, <1>2, <1>3, <1>4, <1>5, <1>6, <1>7, <1>8, <1>9 DEF Next

\* What is behind the two theorems below: a failed call leaves its mark on the title, and
\* the verdict of the basis gates stays the one the fields of the record give.
THEOREM OutageInvariant == Spec => []OutageInv
BY OutageInit, OutageNext, PTL DEF Spec

\* Failure is not an empty result: no title is dropped on its figures or its filings after
\* a call for them has failed, whichever calls fail and for how many titles.
THEOREM FailureIsNoVerdict == Spec => []OutageIsNoVerdict
<1>1. OutageInv => OutageIsNoVerdict
  BY DEF OutageInv
<1>2. QED
  BY <1>1, OutageInvariant, PTL

\* The cohort of the sector flag is the set of titles that reached the margin gate.
THEOREM CohortIsExact == Spec => []MarginCohortReachedTheGate
<1>1. OutageInv => MarginCohortReachedTheGate
  <2>1. ASSUME OutageInv, stage \in {"funnel", "done"}, NEW t \in resolved
        PROVE  (basisGate[t] = "passed" \/ failReason[t] \in {"gross_margin", "revenue_growth"})
                 <=> /\ PassesVolume(t) /\ PassesMarketCap(t)
                     /\ definedness[t] \notin {"UNASSESSABLE", "METRIK_NA"}
    <3>1. /\ basisGate[t] = "passed" <=> GetFailReason(t) = None
          /\ basisGate[t] = "failed" => failReason[t] = GetFailReason(t)
          /\ basisGate[t] \in {"passed", "failed"}
      BY <2>1 DEF OutageInv, FunnelInv, Reasoned, Gated, TypeOK
    <3>2. QED
      BY <3>1, ReasonMeans, FunnelConstants, ReasonDomains
  <2>2. QED
    BY <2>1 DEF MarginCohortReachedTheGate
<1>2. QED
  BY <1>1, OutageInvariant, PTL
=============================================================================

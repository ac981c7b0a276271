------------------------------- MODULE Synthesis -------------------------------
(***************************************************************************)
(* What deepdive/synthesis.py makes of the model's answer: the rules of    *)
(* the code for the confidence and the sources of each point.              *)
(*                                                                         *)
(* A raw point is [number, text, rating, confidence, sources, words, tail]:*)
(* text says that the number was given as a text, words whether the        *)
(* reasoning is "short", or over the limit of 70 words with a sentence     *)
(* that ends before it ("sentences") or without ("endless"), and tail are  *)
(* the bracketed markers at its end.  A marker is [kind, form, item]; the  *)
(* spellings of a kind are one.                                            *)
(***************************************************************************)
EXTENDS FilingSections, Insider

FISHER_POINTS == 1..15

Marker(kind) == [kind |-> kind, form |-> None, item |-> None]
Cite(form, item) == [kind |-> "section", form |-> form, item |-> item]
Inferenz == Marker("inference")
Ellipsis == Marker("ellipsis")

VINTAGE_THRESHOLD_DAYS == 180
VINTAGE_SENSITIVE_POINTS == {5, 6, 12}

\* The spellings in the vocabulary keep their kind; a form without a section, and what the
\* vocabulary does not know, is inference.
Canonical(source) ==
  IF source.kind \in {"section", "quant", "market", "insider"} THEN source ELSE Inferenz

\* Each marker once, where it stands first.
NormalizeSources(sources) ==
  LET first[k \in 0..Len(sources)] ==
        IF k = 0 THEN <<>>
        ELSE IF Contains(first[k - 1], Canonical(sources[k])) THEN first[k - 1]
        ELSE Append(first[k - 1], Canonical(sources[k]))
  IN first[Len(sources)]

\* The section a cite stands for: the item itself, or the item its paragraph belongs to.
\* The form of the cite is not looked at.
SectionOfCite(cite, sections) ==
  IF cite.item \in DOMAIN sections THEN cite.item
  ELSE IF Item(cite.item[1]) \in DOMAIN sections THEN Item(cite.item[1])
  ELSE None

IsValid(cite, sections) ==
  LET key == SectionOfCite(cite, sections)
  IN IF key = None THEN FALSE ELSE key \in sections[key].opening

\* Mutant: that a section was sent is enough, whatever its text begins with.
ValidateSources_AnyBody(sources, sections) ==
  IF \A k \in DOMAIN sources : \/ sources[k].kind # "section"
                               \/ SectionOfCite(sources[k], sections) # None
  THEN sources ELSE <<Inferenz>>

\* One cite of a section that was not sent, or does not begin with its heading, takes all
\* the sources of its point.
ValidateSources(sources, sections) ==
  IF \A k \in DOMAIN sources : sources[k].kind = "section" => IsValid(sources[k], sections)
  THEN sources ELSE <<Inferenz>>

IsStale(days) == IF days = None THEN FALSE ELSE days > VINTAGE_THRESHOLD_DAYS

P15Floor(summary) ==
  IF summary.state = "ok" /\ summary.parsed > 0 THEN None
  ELSE IF summary.state = "partial" THEN "yellow" ELSE "red"

AtMostYellow(confidence) == IF confidence = "green" THEN "yellow" ELSE confidence

(***************************************************************************)
(* The confidence of a point: after a cite that fell, after the rules for  *)
(* the points 14 and 15, after the rule for the age of the filing, and     *)
(* after that for points without any source.  The rules for numbers        *)
(* compare with what the answer says, where a text is no number.           *)
(***************************************************************************)
Number(rp) == IF rp.text THEN None ELSE rp.number

AfterValidation(rp, normalized, validated) ==
  IF validated # normalized THEN AtMostYellow(rp.confidence) ELSE rp.confidence

AfterIntegrity(rp, confidence, summary) ==
  CASE Number(rp) = 14 -> "red"
    [] Number(rp) = 15 /\ P15Floor(summary) = "red" -> "red"
    [] Number(rp) = 15 /\ P15Floor(summary) = "yellow" -> AtMostYellow(confidence)
    [] OTHER -> confidence

AfterVintage(rp, confidence, days) ==
  IF IsStale(days) /\ Number(rp) \in VINTAGE_SENSITIVE_POINTS THEN AtMostYellow(confidence)
  ELSE confidence

\* The reasoning over the limit loses its end; without a sentence to end at, it gets "[...]".
CappedTail(rp) == CASE rp.words = "short" -> rp.tail
                    [] rp.words = "sentences" -> <<>>
                    [] rp.words = "endless" -> <<Ellipsis>>

FisherPoint(rp, confidence, sources) ==
  [number |-> rp.number, rating |-> rp.rating,
   confidence |-> IF sources = <<Inferenz>> THEN AtMostYellow(confidence) ELSE confidence,
   sources |-> sources, tail |-> CappedTail(rp)]

PointOf(rp, sections, days, summary) ==
  LET normalized == NormalizeSources(rp.sources)
      validated == ValidateSources(normalized, sections)
  IN FisherPoint(rp,
       AfterVintage(rp, AfterIntegrity(rp, AfterValidation(rp, normalized, validated), summary), days),
       validated)

\* The contract of a point.
IsLegal(rp) == /\ rp.number \in FISHER_POINTS /\ rp.rating \in 1..5
               /\ rp.confidence \in {"green", "yellow", "red"} /\ rp.sources # <<>>

\* Only the number of the points is checked, not that each is there once.
RunSynthesis(answer, sections, days, summary) ==
  IF Len(answer) # 15 THEN None
  ELSE IF \E k \in DOMAIN answer : ~IsLegal(answer[k]) THEN None
  ELSE [k \in DOMAIN answer |-> PointOf(answer[k], sections, days, summary)]

\* What the model is given of the filing and of its age.
BuildUserPrompt(sections, days, summary) ==
  [items |-> DOMAIN sections, hint |-> IsStale(days), insider |-> RenderInsiderBlock(summary)]
===============================================================================

------------------------------ MODULE EdgarSearch ------------------------------
(***************************************************************************)
(* What services/edgar_client.py reads from the submissions of an issuer   *)
(* and from the hits of the full-text search.  Dates are day numbers.      *)
(*                                                                         *)
(* A submission is a record [form, date, restates]; a hit is a record      *)
(* [date, type, doc], whose doc is None if its id names no file, else the  *)
(* sequence of the words that matter for "substantial doubt".              *)
(***************************************************************************)
EXTENDS SourceValues, Integers, Sequences

CONSTANT ClauseMax      \* _GC_CLAUSE_MAX_CHARS, in words

RESTATEMENT_DAYS == 3 * 365
GOING_CONCERN_DAYS == 24 * 30
GC_PRIMARY_FORMS == {"10-K", "10-Q"}
Rejections == {"whether", "not", "may"}

HasRestatement(submissions, today) ==
  \E k \in DOMAIN submissions :
    /\ submissions[k].form = "8-K"
    /\ submissions[k].date >= today - RESTATEMENT_DAYS
    /\ submissions[k].restates

\* The words between the last end of a sentence and the phrase at position i.
GoverningClause(doc, i) ==
  {doc[j] : j \in {j \in 1..(i - 1) : i - j <= ClauseMax
                                      /\ \A k \in j..(i - 1) : doc[k] # "stop"}}

HasAffirmativeGoingConcern(doc) ==
  \E i \in DOMAIN doc : doc[i] = "doubt" /\ GoverningClause(doc, i) \cap Rejections = {}

\* The search ignores its date range, so that the window is checked here.
IsCandidate(hit, today) ==
  /\ hit.date >= today - GOING_CONCERN_DAYS
  /\ hit.type \in GC_PRIMARY_FORMS
  /\ hit.doc # None

\* The places of the filings in the document; one without a date is not in the window.
Form4Index(submissions, since) ==
  {k \in DOMAIN submissions : /\ submissions[k].form = "4"
                              /\ submissions[k].date # None
                              /\ submissions[k].date >= since}
===============================================================================

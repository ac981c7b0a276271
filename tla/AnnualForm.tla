------------------------------ MODULE AnnualForm ------------------------------
(***************************************************************************)
(* The annual report of an issuer among its submissions, a sequence of     *)
(* [form, date] with the newest first (services/edgar_client.py).          *)
(***************************************************************************)
EXTENDS SourceValues, Integers, Sequences

ANNUAL_FORM_MAX_AGE_DAYS == 540

\* The newest annual form, by date, unless it is too old.
DetectAnnualForm(submissions, today) ==
  LET annual == {k \in DOMAIN submissions :
                   submissions[k].form \in {"10-K", "20-F"} /\ submissions[k].date # None}
      newest == CHOOSE k \in annual : \A j \in annual :
                  \/ submissions[k].date > submissions[j].date
                  \/ submissions[k].date = submissions[j].date /\ k <= j
  IN IF annual = {} THEN None
     ELSE IF submissions[newest].date < today - ANNUAL_FORM_MAX_AGE_DAYS THEN None
     ELSE submissions[newest].form

\* The position of the first filing of this form, 0 if there is none.
LatestAnnualFiling(submissions, form) ==
  IF \A k \in DOMAIN submissions : submissions[k].form # form THEN 0
  ELSE CHOOSE k \in DOMAIN submissions :
         submissions[k].form = form /\ \A j \in 1..(k - 1) : submissions[j].form # form
===============================================================================

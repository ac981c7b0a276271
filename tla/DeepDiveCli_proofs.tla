-------------------------- MODULE DeepDiveCli_proofs --------------------------
(***************************************************************************)
(* Proofs about the ticker resolution and the deep-dive command line, for  *)
(* any number of pre-flights, runs, tickers and failures.                  *)
(*                                                                         *)
(* First the comparison of names, for all names of the shapes NameShapes   *)
(* assumes: what stands around a name goes in pieces that begin and end    *)
(* where a form does, since the longer form is taken first and no form     *)
(* begins with another; PUBLIC LIMITED COMPANY, the one that ends with     *)
(* another, is told by the words before it.                                *)
(*                                                                         *)
(* Then the resolution, whoever runs it: types, and that a verdict about   *)
(* an issuer is true unless the ticker map was missing.  What is said of   *)
(* an issuer lives in five places: the verdict a process is about to       *)
(* cache, its copy of the cache, the temporary file, the cache and the     *)
(* answer.  SaidInv says that everything in all five is sayable; AskedInv  *)
(* says what the process has already found out where it stands, which is   *)
(* what makes the next verdict sayable.  Sayable formulas stay sayable     *)
(* since a process never gets a map it has failed to load.                 *)
(*                                                                         *)
(* At last the command line.  Its processes take no step of the resolution *)
(* but the resolution's own, so what is proved of it holds of every        *)
(* composed behaviour.  CliInv: what a run has done so far says what it    *)
(* holds and what it has left in the files (RunOK), one run is active, a   *)
(* fresh entry of the filing cache names a whole text (CacheInv), and      *)
(* every dossier is that of a run that got as far (DossierInv).            *)
(***************************************************************************)
EXTENDS DeepDiveCli, IssuerNames, FiniteOrders, SequenceTheorems, TLAPS

-------------------------------------------------------------------------------
(***************************************************************************)
(* The names of an issuer: DropListingDescriptors and DropLegalForms take  *)
(* off what stands around a name and nothing of the name.                  *)
(***************************************************************************)

SingleWords ==
  {"AG", "AKTIENGESELLSCHAFT", "SA", "NV", "PLC", "SE", "SPA", "ASA", "AB",
   "TELEFONAKTIEBOLAGET", "OYJ", "AS", "SGPS", "PUBL", "HOLDING", "HOLDINGS", "GROUP", "INC",
   "LTD", "LIMITED", "COMPANY", "CORPORATION", "CORP", "HLDG", "HLDGS"}

\* The list of the legal forms, place by place (LEGAL_FORMS): five of several words, then
\* those of one.
LEMMA FormTable ==
  /\ DOMAIN LEGAL_FORMS = 1..30
  /\ LEGAL_FORMS[1] = <<"SOCIETE", "EN", "COMMANDITE", "PAR", "ACTIONS">>
  /\ LEGAL_FORMS[2] = <<"PUBLIC", "LIMITED", "COMPANY">>
  /\ LEGAL_FORMS[3] = <<"SOCIETA", "PER", "AZIONI">>
  /\ LEGAL_FORMS[4] = <<"SOCIETE", "ANONYME">>
  /\ LEGAL_FORMS[5] = <<"NAAMLOZE", "VENNOOTSCHAP">>
  /\ \A k \in 6..30 : \E w \in SingleWords : LEGAL_FORMS[k] = <<w>>
<1>1. DOMAIN LEGAL_FORMS = 1..30
  BY DEF LEGAL_FORMS
<1>2. /\ LEGAL_FORMS[1] = <<"SOCIETE", "EN", "COMMANDITE", "PAR", "ACTIONS">>
      /\ LEGAL_FORMS[2] = <<"PUBLIC", "LIMITED", "COMPANY">>
      /\ LEGAL_FORMS[3] = <<"SOCIETA", "PER", "AZIONI">>
      /\ LEGAL_FORMS[4] = <<"SOCIETE", "ANONYME">>
      /\ LEGAL_FORMS[5] = <<"NAAMLOZE", "VENNOOTSCHAP">>
  BY DEF LEGAL_FORMS
<1>3. /\ LEGAL_FORMS[6] = <<"AG">> /\ LEGAL_FORMS[7] = <<"AKTIENGESELLSCHAFT">>
      /\ LEGAL_FORMS[8] = <<"SA">> /\ LEGAL_FORMS[9] = <<"NV">> /\ LEGAL_FORMS[10] = <<"PLC">>
      /\ LEGAL_FORMS[11] = <<"SE">> /\ LEGAL_FORMS[12] = <<"SPA">> /\ LEGAL_FORMS[13] = <<"ASA">>
      /\ LEGAL_FORMS[14] = <<"AB">> /\ LEGAL_FORMS[15] = <<"TELEFONAKTIEBOLAGET">>
      /\ LEGAL_FORMS[16] = <<"OYJ">> /\ LEGAL_FORMS[17] = <<"AS">> /\ LEGAL_FORMS[18] = <<"SGPS">>
      /\ LEGAL_FORMS[19] = <<"PUBL">> /\ LEGAL_FORMS[20] = <<"HOLDING">>
      /\ LEGAL_FORMS[21] = <<"HOLDINGS">> /\ LEGAL_FORMS[22] = <<"GROUP">>
      /\ LEGAL_FORMS[23] = <<"INC">> /\ LEGAL_FORMS[24] = <<"LTD">>
      /\ LEGAL_FORMS[25] = <<"LIMITED">>
      /\ LEGAL_FORMS[26] = <<"COMPANY">> /\ LEGAL_FORMS[27] = <<"CORPORATION">>
      /\ LEGAL_FORMS[28] = <<"CORP">> /\ LEGAL_FORMS[29] = <<"HLDG">>
      /\ LEGAL_FORMS[30] = <<"HLDGS">>
  BY DEF LEGAL_FORMS
<1>4. \A k \in 6..30 : \E w \in SingleWords : LEGAL_FORMS[k] = <<w>>
  <2> TAKE k \in 6..30
  <2>1. \/ k \in 6..10 \/ k \in 11..15 \/ k \in 16..20 \/ k \in 21..25 \/ k \in 26..30
    OBVIOUS
  <2>2. CASE k \in 6..10
    BY <1>3, <2>2 DEF SingleWords
  <2>3. CASE k \in 11..15
    BY <1>3, <2>3 DEF SingleWords
  <2>4. CASE k \in 16..20
    BY <1>3, <2>4 DEF SingleWords
  <2>5. CASE k \in 21..25
    BY <1>3, <2>5 DEF SingleWords
  <2>6. CASE k \in 26..30
    BY <1>3, <2>6 DEF SingleWords
  <2> QED
    BY <2>1, <2>2, <2>3, <2>4, <2>5, <2>6
<1> QED
  BY <1>1, <1>2, <1>4

\* What one form is: its place among the forms, its length, its first and its last word.
IsShape(k, n, first, last) ==
  Len(LEGAL_FORMS[k]) = n /\ LEGAL_FORMS[k][1] = first /\ LEGAL_FORMS[k][n] = last

\* Which form stands where, told by its length, its first and its last word.
LEMMA FormShapes ==
  ASSUME NEW k \in DOMAIN LEGAL_FORMS
  PROVE  \/ k = 1 /\ IsShape(k, 5, "SOCIETE", "ACTIONS")
         \/ k = 2 /\ IsShape(k, 3, "PUBLIC", "COMPANY")
         \/ k = 3 /\ IsShape(k, 3, "SOCIETA", "AZIONI")
         \/ k = 4 /\ IsShape(k, 2, "SOCIETE", "ANONYME")
         \/ k = 5 /\ IsShape(k, 2, "NAAMLOZE", "VENNOOTSCHAP")
         \/ k \in 6..30 /\ \E w \in SingleWords : LEGAL_FORMS[k] = <<w>> /\ IsShape(k, 1, w, w)
<1>1. k \in 1..30
  BY FormTable
<1>2. k = 1 \/ k = 2 \/ k = 3 \/ k = 4 \/ k = 5 \/ k \in 6..30
  BY <1>1
<1>3. CASE k = 1
  BY <1>3, FormTable DEF IsShape
<1>4. CASE k = 2
  BY <1>4, FormTable DEF IsShape
<1>5. CASE k = 3
  BY <1>5, FormTable DEF IsShape
<1>6. CASE k = 4
  BY <1>6, FormTable DEF IsShape
<1>7. CASE k = 5
  BY <1>7, FormTable DEF IsShape
<1>8. CASE k \in 6..30
  <2>1. PICK w \in SingleWords : LEGAL_FORMS[k] = <<w>>
    BY <1>8, FormTable
  <2>2. IsShape(k, 1, w, w)
    BY <2>1 DEF IsShape
  <2> QED
    BY <1>8, <2>1, <2>2
<1> QED
  BY <1>2, <1>3, <1>4, <1>5, <1>6, <1>7, <1>8

\* The longer forms come first; none begins with another, and of those that end with another
\* there is one.
LEMMA FormsAreTold ==
  ASSUME NEW j \in DOMAIN LEGAL_FORMS, NEW k \in DOMAIN LEGAL_FORMS
  PROVE  /\ Len(LEGAL_FORMS[k]) \in Nat \ {0}
         /\ j <= k => Len(LEGAL_FORMS[k]) <= Len(LEGAL_FORMS[j])
         /\ Len(LEGAL_FORMS[k]) < Len(LEGAL_FORMS[j]) =>
              /\ \E x \in 1..Len(LEGAL_FORMS[k]) : LEGAL_FORMS[j][x] # LEGAL_FORMS[k][x]
              /\ \/ LEGAL_FORMS[j][Len(LEGAL_FORMS[j])] # LEGAL_FORMS[k][Len(LEGAL_FORMS[k])]
                 \/ /\ LEGAL_FORMS[j] = <<"PUBLIC", "LIMITED", "COMPANY">>
                    /\ LEGAL_FORMS[k] = <<"COMPANY">>
         /\ LEGAL_FORMS[k][Len(LEGAL_FORMS[k])] = "LIMITED" => LEGAL_FORMS[k] = <<"LIMITED">>
         /\ LEGAL_FORMS[k][Len(LEGAL_FORMS[k])] # "PUBLIC"
<1> DEFINE F == LEGAL_FORMS
<1>1. \A w \in SingleWords :
        w \notin {"SOCIETE", "ACTIONS", "PUBLIC", "SOCIETA", "AZIONI", "ANONYME", "NAAMLOZE",
                  "VENNOOTSCHAP"}
  BY DEF SingleWords
<1>2. \/ k = 1 /\ Len(F[k]) = 5 /\ F[k][1] = "SOCIETE" /\ F[k][5] = "ACTIONS"
      \/ k = 2 /\ Len(F[k]) = 3 /\ F[k][1] = "PUBLIC" /\ F[k][3] = "COMPANY"
      \/ k = 3 /\ Len(F[k]) = 3 /\ F[k][1] = "SOCIETA" /\ F[k][3] = "AZIONI"
      \/ k = 4 /\ Len(F[k]) = 2 /\ F[k][1] = "SOCIETE" /\ F[k][2] = "ANONYME"
      \/ k = 5 /\ Len(F[k]) = 2 /\ F[k][1] = "NAAMLOZE" /\ F[k][2] = "VENNOOTSCHAP"
      \/ k \in 6..30 /\ Len(F[k]) = 1 /\ F[k][1] \in SingleWords
  BY FormShapes DEF IsShape
<1>3. \/ j = 1 /\ Len(F[j]) = 5 /\ F[j][1] = "SOCIETE" /\ F[j][5] = "ACTIONS"
      \/ j = 2 /\ Len(F[j]) = 3 /\ F[j][1] = "PUBLIC" /\ F[j][3] = "COMPANY"
      \/ j = 3 /\ Len(F[j]) = 3 /\ F[j][1] = "SOCIETA" /\ F[j][3] = "AZIONI"
      \/ j = 4 /\ Len(F[j]) = 2 /\ F[j][1] = "SOCIETE" /\ F[j][2] = "ANONYME"
      \/ j = 5 /\ Len(F[j]) = 2 /\ F[j][1] = "NAAMLOZE" /\ F[j][2] = "VENNOOTSCHAP"
      \/ j \in 6..30 /\ Len(F[j]) = 1 /\ F[j][1] \in SingleWords
  BY FormShapes DEF IsShape
<1>4. ASSUME Len(F[k]) = 1
      PROVE  F[k] = <<F[k][1]>>
  <2>1. k \in 6..30
    BY <1>2, <1>4
  <2>2. PICK w \in SingleWords : F[k] = <<w>>
    BY <2>1, FormTable
  <2> QED
    BY <2>2
<1>5. F[1][2] = "EN" /\ F[2] = <<"PUBLIC", "LIMITED", "COMPANY">>
  BY FormTable
<1> HIDE DEF F
<1>6. Len(F[k]) \in Nat \ {0} /\ Len(F[j]) \in Nat \ {0}
  BY <1>2, <1>3
<1>7. j <= k => Len(F[k]) <= Len(F[j])
  <2> DEFINE m == Len(F[j])
             n == Len(F[k])
  <2>1. \/ (j = 1 /\ m = 5) \/ (j = 2 /\ m = 3) \/ (j = 3 /\ m = 3) \/ (j = 4 /\ m = 2)
        \/ (j = 5 /\ m = 2) \/ (j \in 6..30 /\ m = 1)
    BY <1>3
  <2>2. \/ (k = 1 /\ n = 5) \/ (k = 2 /\ n = 3) \/ (k = 3 /\ n = 3) \/ (k = 4 /\ n = 2)
        \/ (k = 5 /\ n = 2) \/ (k \in 6..30 /\ n = 1)
    BY <1>2
  <2> HIDE DEF m, n
  <2>3. j <= k => n <= m
    BY <2>1, <2>2
  <2> QED
    BY <2>3 DEF m, n
<1>8. ASSUME Len(F[k]) < Len(F[j])
      PROVE  \E x \in 1..Len(F[k]) : F[j][x] # F[k][x]
  <2>1. CASE j = 1 /\ k = 4
    <3>1. F[j][2] # F[k][2] /\ Len(F[k]) = 2
      BY <1>2, <1>5, <2>1
    <3> QED
      BY <3>1
  <2>2. CASE ~(j = 1 /\ k = 4)
    <3>1. F[j][1] # F[k][1]
      BY <1>1, <1>2, <1>3, <1>8, <2>2
    <3> QED
      BY <1>6, <3>1
  <2> QED
    BY <2>1, <2>2
<1>9. ASSUME Len(F[k]) < Len(F[j]), F[j][Len(F[j])] = F[k][Len(F[k])]
      PROVE  F[j] = <<"PUBLIC", "LIMITED", "COMPANY">> /\ F[k] = <<"COMPANY">>
  <2>1. j = 2 /\ F[j][Len(F[j])] = "COMPANY"
    BY <1>1, <1>2, <1>3, <1>9
  <2>2. Len(F[k]) = 1
    BY <1>2, <1>3, <1>9, <2>1
  <2>3. F[k] = <<F[k][1]>> /\ F[k][1] = "COMPANY"
    BY <1>4, <1>9, <2>1, <2>2
  <2> QED
    BY <1>5, <2>1, <2>3
<1>10. F[k][Len(F[k])] = "LIMITED" => F[k] = <<"LIMITED">>
  <2> SUFFICES ASSUME F[k][Len(F[k])] = "LIMITED" PROVE F[k] = <<"LIMITED">>
    OBVIOUS
  <2>1. Len(F[k]) = 1
    BY <1>2
  <2>2. F[k] = <<F[k][1]>> /\ F[k][1] = "LIMITED"
    BY <1>4, <2>1
  <2> QED
    BY <2>2
<1>11. F[k][Len(F[k])] # "PUBLIC"
  BY <1>1, <1>2
<1> QED
  BY <1>6, <1>7, <1>8, <1>9, <1>10, <1>11 DEF F

\* A piece of a piece.
LEMMA PieceOfPiece ==
  ASSUME NEW S, NEW w \in Seq(S), NEW a \in Nat, NEW b \in Nat, b <= Len(w),
         NEW x \in Nat \ {0}, NEW y \in Nat, a + y <= b
  PROVE  SubSeq(SubSeq(w, a + 1, b), x, y) = SubSeq(w, a + x, a + y)
<1> DEFINE s == SubSeq(w, a + 1, b)
           t == SubSeq(s, x, y)
           u == SubSeq(w, a + x, a + y)
<1>1. Len(w) \in Nat /\ \A k \in 1..Len(w) : w[k] \in S
  BY LenProperties, ElementOfSeq
<1>2. /\ s \in Seq(S) /\ Len(s) = IF a + 1 <= b THEN b - a ELSE 0
      /\ \A k \in 1..(b - a) : s[k] = w[a + k]
  <2>1. \A k \in (a + 1)..b : w[k] \in S
    BY <1>1
  <2>2. /\ s \in Seq(S) /\ Len(s) = IF a + 1 <= b THEN b - (a + 1) + 1 ELSE 0
        /\ \A k \in 1..(b - (a + 1) + 1) : s[k] = w[(a + 1) + k - 1]
    BY <2>1, SubSeqProperties
  <2> QED
    BY <2>2
<1>3. \A k \in x..y : s[k] \in S /\ s[k] = w[a + k]
  BY <1>1, <1>2
<1>4. /\ t \in Seq(S) /\ Len(t) = IF x <= y THEN y - x + 1 ELSE 0
      /\ \A k \in 1..(y - x + 1) : t[k] = s[x + k - 1]
  BY <1>3, SubSeqProperties
<1>5. /\ u \in Seq(S) /\ Len(u) = IF a + x <= a + y THEN a + y - (a + x) + 1 ELSE 0
      /\ \A k \in 1..(a + y - (a + x) + 1) : u[k] = w[(a + x) + k - 1]
  <2>1. \A k \in (a + x)..(a + y) : w[k] \in S
    BY <1>1
  <2> QED
    BY <2>1, SubSeqProperties
<1> HIDE DEF s, t, u
<1>6. Len(t) = Len(u)
  BY <1>4, <1>5
<1>7. \A k \in 1..Len(t) : t[k] = u[k]
  <2> TAKE k \in 1..Len(t)
  <2>1. k \in 1..(y - x + 1) /\ x + k - 1 \in x..y
    BY <1>4
  <2>2. t[k] = s[x + k - 1] /\ s[x + k - 1] = w[a + (x + k - 1)]
    BY <1>3, <1>4, <2>1
  <2>3. k \in 1..(a + y - (a + x) + 1)
    BY <2>1
  <2>4. u[k] = w[(a + x) + k - 1]
    BY <1>5, <2>3
  <2>5. a + (x + k - 1) = (a + x) + k - 1
    BY <2>1
  <2> QED
    BY <2>2, <2>4, <2>5
<1>8. t = u
  BY <1>4, <1>5, <1>6, <1>7, SeqEqual
<1> QED
  BY <1>8 DEF s, t, u

\* A form at a place of a text, word by word.
LEMMA FormAtPlace ==
  ASSUME NEW S, NEW w \in Seq(S), NEW a \in Nat, NEW b \in Nat, a <= b, b <= Len(w),
         NEW k \in DOMAIN LEGAL_FORMS, SubSeq(w, a + 1, b) = LEGAL_FORMS[k]
  PROVE  /\ b - a = Len(LEGAL_FORMS[k])
         /\ \A x \in 1..Len(LEGAL_FORMS[k]) : w[a + x] = LEGAL_FORMS[k][x]
<1> DEFINE s == SubSeq(w, a + 1, b)
<1>1. Len(w) \in Nat /\ \A n \in 1..Len(w) : w[n] \in S
  BY LenProperties, ElementOfSeq
<1>2. /\ Len(s) = IF a + 1 <= b THEN b - (a + 1) + 1 ELSE 0
      /\ \A n \in 1..(b - (a + 1) + 1) : s[n] = w[(a + 1) + n - 1]
  <2>1. \A n \in (a + 1)..b : w[n] \in S
    BY <1>1
  <2> QED
    BY <2>1, SubSeqProperties
<1>3. s = LEGAL_FORMS[k]
  OBVIOUS
<1> HIDE DEF s
<1>4. b - a = Len(s)
  BY <1>2
<1>5. \A x \in 1..Len(s) : w[a + x] = s[x]
  <2> TAKE x \in 1..Len(s)
  <2>1. x \in 1..(b - (a + 1) + 1) /\ (a + 1) + x - 1 = a + x
    BY <1>4
  <2> QED
    BY <1>2, <2>1
<1> QED
  BY <1>3, <1>4, <1>5

\* A form that stands at an end of a piece is a piece of the whole.
LEMMA FormAtEnds ==
  ASSUME NEW S, NEW w \in Seq(S), NEW a \in Nat, NEW b \in Nat, a <= b, b <= Len(w),
         NEW k \in DOMAIN LEGAL_FORMS
  PROVE  /\ AtEnd(LEGAL_FORMS[k], SubSeq(w, a + 1, b)) <=>
              /\ b - a > Len(LEGAL_FORMS[k])
              /\ SubSeq(w, (b - Len(LEGAL_FORMS[k])) + 1, b) = LEGAL_FORMS[k]
         /\ AtStart(LEGAL_FORMS[k], SubSeq(w, a + 1, b)) <=>
              /\ b - a > Len(LEGAL_FORMS[k])
              /\ SubSeq(w, a + 1, a + Len(LEGAL_FORMS[k])) = LEGAL_FORMS[k]
         /\ b - a > Len(LEGAL_FORMS[k]) =>
              LET s == SubSeq(w, a + 1, b)
                  n == Len(LEGAL_FORMS[k])
              IN /\ SubSeq(s, 1, Len(s) - n) = SubSeq(w, a + 1, b - n)
                 /\ SubSeq(s, n + 1, Len(s)) = SubSeq(w, (a + n) + 1, b)
<1> DEFINE s == SubSeq(w, a + 1, b)
           form == LEGAL_FORMS[k]
           n == Len(form)
<1>1. n \in Nat \ {0} /\ Len(w) \in Nat
  BY FormsAreTold, LenProperties
<1>2. Len(s) = b - a
  <2>1. \A m \in (a + 1)..b : w[m] \in S
    BY <1>1, ElementOfSeq
  <2>2. Len(s) = IF a + 1 <= b THEN b - (a + 1) + 1 ELSE 0
    BY <2>1, SubSeqProperties
  <2> QED
    BY <2>2
<1>3. ASSUME NEW x \in Nat \ {0}, NEW y \in Nat, a + y <= b
      PROVE  SubSeq(s, x, y) = SubSeq(w, a + x, a + y)
  BY <1>3, PieceOfPiece
<1>4. AtEnd(form, s) <=> Len(s) > n /\ SubSeq(s, Len(s) - n + 1, Len(s)) = form
  BY DEF AtEnd
<1>5. AtStart(form, s) <=> Len(s) > n /\ SubSeq(s, 1, n) = form
  BY DEF AtStart
<1> HIDE DEF s, form, n
<1>6. ASSUME b - a > n
      PROVE  /\ SubSeq(s, Len(s) - n + 1, Len(s)) = SubSeq(w, (b - n) + 1, b)
             /\ SubSeq(s, 1, n) = SubSeq(w, a + 1, a + n)
             /\ SubSeq(s, 1, Len(s) - n) = SubSeq(w, a + 1, b - n)
             /\ SubSeq(s, n + 1, Len(s)) = SubSeq(w, (a + n) + 1, b)
  <2>1. /\ Len(s) - n + 1 \in Nat \ {0} /\ Len(s) \in Nat /\ n + 1 \in Nat \ {0}
        /\ Len(s) - n \in Nat /\ 1 \in Nat \ {0} /\ n \in Nat
        /\ a + Len(s) <= b /\ a + n <= b /\ a + (Len(s) - n) <= b
    BY <1>1, <1>2, <1>6
  <2>2. /\ a + (Len(s) - n + 1) = (b - n) + 1 /\ a + Len(s) = b /\ a + (Len(s) - n) = b - n
        /\ a + (n + 1) = (a + n) + 1
    BY <1>1, <1>2
  <2>3. SubSeq(s, Len(s) - n + 1, Len(s)) = SubSeq(w, a + (Len(s) - n + 1), a + Len(s))
    BY <1>3, <2>1
  <2>4. SubSeq(s, 1, n) = SubSeq(w, a + 1, a + n)
    BY <1>3, <2>1
  <2>5. SubSeq(s, 1, Len(s) - n) = SubSeq(w, a + 1, a + (Len(s) - n))
    BY <1>3, <2>1
  <2>6. SubSeq(s, n + 1, Len(s)) = SubSeq(w, a + (n + 1), a + Len(s))
    BY <1>3, <2>1
  <2> QED
    BY <2>2, <2>3, <2>4, <2>5, <2>6
<1>7. AtEnd(form, s) <=> (b - a > n /\ SubSeq(w, (b - n) + 1, b) = form)
  BY <1>2, <1>4, <1>6
<1>8. AtStart(form, s) <=> (b - a > n /\ SubSeq(w, a + 1, a + n) = form)
  BY <1>2, <1>5, <1>6
<1> QED
  BY <1>6, <1>7, <1>8 DEF s, form, n

\* The cut before a place, and the one behind it.
LEMMA NeighbouringCuts ==
  ASSUME NEW C \in SUBSET Nat, NEW b \in C, NEW d \in C
  PROVE  /\ d < b => \E a \in C : a < b /\ \A c \in C : c <= a \/ b <= c
         /\ b < d => \E a \in C : b < a /\ \A c \in C : c <= b \/ a <= c
<1>1. ASSUME d < b
      PROVE  \E a \in C : a < b /\ \A c \in C : c <= a \/ b <= c
  <2> DEFINE T == {n \in Nat : n > 0 /\ b - n \in C}
  <2>1. T \in SUBSET Nat /\ b - d \in T
    BY <1>1
  <2> HIDE DEF T
  <2>2. PICK n \in T : \A m \in T : n <= m
    BY <2>1, LeastNumber
  <2>3. n \in Nat /\ n > 0 /\ b - n \in C
    BY <2>2 DEF T
  <2>4. ASSUME NEW c \in C, c < b
        PROVE  c <= b - n
    <3>1. b - c \in T
      <4>1. b - c \in Nat /\ b - c > 0 /\ b - (b - c) = c
        BY <2>4
      <4> QED
        BY <2>4, <4>1 DEF T
    <3>2. n <= b - c
      BY <2>2, <3>1
    <3> QED
      BY <2>3, <3>2
  <2>5. \A c \in C : c <= b - n \/ b <= c
    BY <2>4
  <2> QED
    BY <2>3, <2>5
<1>2. ASSUME b < d
      PROVE  \E a \in C : b < a /\ \A c \in C : c <= b \/ a <= c
  <2> DEFINE T == {c \in C : b < c}
  <2>1. T \in SUBSET Nat /\ d \in T
    BY <1>2
  <2>2. PICK a \in T : \A m \in T : a <= m
    BY <2>1, LeastNumber
  <2>3. a \in C /\ b < a /\ \A c \in C : b < c => a <= c
    BY <2>2
  <2>4. \A c \in C : c <= b \/ a <= c
    BY <2>3
  <2> QED
    BY <2>3, <2>4
<1> QED
  BY <1>1, <1>2

\* A name dressed in legal forms: w from p + 1 to q is the name itself, no form begins or
\* ends in it, B and E cut what stands before and behind it into forms.
Dressed(S, w, p, q, B, E) ==
  /\ w \in Seq(S)
  /\ p \in Nat /\ q \in Nat /\ p < q /\ q <= Len(w)
  /\ w[p + 1] \notin FormTexts /\ w[q] \notin FormTexts
  /\ B \in SUBSET (0..p) /\ 0 \in B /\ p \in B
  /\ E \in SUBSET (q..Len(w)) /\ q \in E /\ Len(w) \in E
  /\ FormsBetween(w, B) /\ FormsBetween(w, E)

\* Every word of a form is a word of forms.
LEMMA WordsOfForms ==
  ASSUME NEW k \in DOMAIN LEGAL_FORMS, NEW x \in 1..Len(LEGAL_FORMS[k])
  PROVE  LEGAL_FORMS[k][x] \in FormTexts
<1>1. DOMAIN LEGAL_FORMS[k] = 1..Len(LEGAL_FORMS[k])
  <2>1. \A j \in 6..30 : \E w \in SingleWords : LEGAL_FORMS[j] = <<w>>
    BY FormTable
  <2>2. k = 1 \/ k = 2 \/ k = 3 \/ k = 4 \/ k = 5 \/ k \in 6..30
    BY FormTable
  <2>3. CASE k \in 6..30
    BY <2>1, <2>3
  <2>4. CASE k = 1
    BY <2>4, FormTable
  <2>5. CASE k = 2
    BY <2>5, FormTable
  <2>6. CASE k = 3
    BY <2>6, FormTable
  <2>7. CASE k = 4
    BY <2>7, FormTable
  <2>8. CASE k = 5
    BY <2>8, FormTable
  <2> QED
    BY <2>2, <2>3, <2>4, <2>5, <2>6, <2>7, <2>8
<1>2. LEGAL_FORMS[k][x] \in Range(LEGAL_FORMS[k])
  BY <1>1 DEF Range
<1> QED
  BY <1>2 DEF FormTexts

\* Between two cuts stands a form, word by word.
FormStands(w, a, b, k) ==
  /\ a \in Nat /\ b \in Nat /\ a < b /\ b <= Len(w)
  /\ SubSeq(w, a + 1, b) = LEGAL_FORMS[k]
  /\ b - a = Len(LEGAL_FORMS[k])
  /\ \A x \in 1..Len(LEGAL_FORMS[k]) : w[a + x] = LEGAL_FORMS[k][x]

CutBefore(w, q, E, b) == \E e \in E, k \in DOMAIN LEGAL_FORMS : e >= q /\ FormStands(w, e, b, k)
CutBehind(w, p, B, a) == \E c \in B, k \in DOMAIN LEGAL_FORMS : c <= p /\ FormStands(w, a, c, k)

\* The form before a cut behind the name.
LEMMA FormBefore ==
  ASSUME NEW S, NEW w, NEW p, NEW q, NEW B, NEW E, Dressed(S, w, p, q, B, E),
         NEW b \in E, b > q
  PROVE  CutBefore(w, q, E, b)
<1>1. /\ w \in Seq(S) /\ q \in Nat /\ E \in SUBSET (q..Len(w)) /\ q \in E /\ FormsBetween(w, E)
      /\ Len(w) \in Nat
  BY LenProperties DEF Dressed
<1>2. E \in SUBSET Nat /\ b \in Nat /\ b <= Len(w)
  BY <1>1
<1>3. PICK e \in E : e < b /\ \A c \in E : c <= e \/ b <= c
  BY <1>1, <1>2, NeighbouringCuts
<1>4. e \in Nat /\ e >= q
  BY <1>1
<1>5. PICK k \in DOMAIN LEGAL_FORMS : SubSeq(w, e + 1, b) = LEGAL_FORMS[k]
  BY <1>1, <1>3 DEF FormsBetween
<1>6. /\ b - e = Len(LEGAL_FORMS[k])
      /\ \A x \in 1..Len(LEGAL_FORMS[k]) : w[e + x] = LEGAL_FORMS[k][x]
  <2>1. e <= b
    BY <1>2, <1>3, <1>4
  <2> QED
    BY <1>1, <1>2, <1>4, <1>5, <2>1, FormAtPlace
<1> QED
  BY <1>2, <1>3, <1>4, <1>5, <1>6 DEF CutBefore, FormStands

\* The form behind a cut before the name.
LEMMA FormBehind ==
  ASSUME NEW S, NEW w, NEW p, NEW q, NEW B, NEW E, Dressed(S, w, p, q, B, E),
         NEW a \in B, a < p
  PROVE  CutBehind(w, p, B, a)
<1>1. /\ w \in Seq(S) /\ p \in Nat /\ q \in Nat /\ p < q /\ q <= Len(w)
      /\ B \in SUBSET (0..p) /\ p \in B /\ FormsBetween(w, B)
      /\ Len(w) \in Nat
  BY LenProperties DEF Dressed
<1>2. B \in SUBSET Nat /\ a \in Nat
  BY <1>1
<1>3. PICK c \in B : a < c /\ \A d \in B : d <= a \/ c <= d
  BY <1>1, <1>2, NeighbouringCuts
<1>4. c \in Nat /\ c <= p /\ c <= Len(w)
  BY <1>1
<1>5. PICK k \in DOMAIN LEGAL_FORMS : SubSeq(w, a + 1, c) = LEGAL_FORMS[k]
  BY <1>1, <1>3 DEF FormsBetween
<1>6. /\ c - a = Len(LEGAL_FORMS[k])
      /\ \A x \in 1..Len(LEGAL_FORMS[k]) : w[a + x] = LEGAL_FORMS[k][x]
  <2>1. a <= c
    BY <1>2, <1>3, <1>4
  <2> QED
    BY <1>1, <1>2, <1>4, <1>5, <2>1, FormAtPlace
<1> QED
  BY <1>2, <1>3, <1>4, <1>5, <1>6 DEF CutBehind, FormStands

\* The forms WithoutForm finds in a piece.
Found(texts) ==
  {k \in DOMAIN LEGAL_FORMS : AtEnd(LEGAL_FORMS[k], texts) \/ AtStart(LEGAL_FORMS[k], texts)}

\* The first form of the list that stands at the end of a piece is one between two cuts.
LEMMA EndIsAForm ==
  ASSUME NEW S, NEW w, NEW p, NEW q, NEW B, NEW E, Dressed(S, w, p, q, B, E),
         NEW a \in B, NEW b \in E, NEW k \in Found(SubSeq(w, a + 1, b)),
         \A m \in Found(SubSeq(w, a + 1, b)) : k <= m,
         AtEnd(LEGAL_FORMS[k], SubSeq(w, a + 1, b))
  PROVE  b - Len(LEGAL_FORMS[k]) \in E
<1> DEFINE n == Len(LEGAL_FORMS[k])
<1> USE DEF FormStands
<1>1. /\ w \in Seq(S) /\ p \in Nat /\ q \in Nat /\ p < q /\ q <= Len(w)
      /\ B \in SUBSET (0..p) /\ E \in SUBSET (q..Len(w)) /\ w[q] \notin FormTexts
      /\ Len(w) \in Nat
  BY LenProperties DEF Dressed
<1>2. a \in Nat /\ b \in Nat /\ a <= p /\ q <= b /\ b <= Len(w) /\ a <= b
  BY <1>1
<1>3. k \in DOMAIN LEGAL_FORMS
  BY DEF Found
<1>4. b - a > n /\ SubSeq(w, (b - n) + 1, b) = LEGAL_FORMS[k] /\ n \in Nat \ {0}
  BY <1>1, <1>2, <1>3, FormAtEnds, FormsAreTold
<1>5. \A x \in 1..n : w[(b - n) + x] = LEGAL_FORMS[k][x]
  <2> DEFINE e == b - n
  <2>1. e \in Nat /\ e <= b
    BY <1>2, <1>4
  <2>2. SubSeq(w, e + 1, b) = LEGAL_FORMS[k]
    BY <1>4
  <2> HIDE DEF e
  <2>3. \A x \in 1..Len(LEGAL_FORMS[k]) : w[e + x] = LEGAL_FORMS[k][x]
    BY <1>1, <1>2, <1>3, <2>1, <2>2, FormAtPlace
  <2> QED
    BY <2>3 DEF e
<1>6. w[b] = LEGAL_FORMS[k][n] /\ w[b] \in FormTexts
  <2>1. n \in 1..n /\ (b - n) + n = b
    BY <1>2, <1>4
  <2>2. w[b] = LEGAL_FORMS[k][n]
    BY <1>5, <2>1
  <2> QED
    BY <1>3, <2>1, <2>2, WordsOfForms
<1>7. b > q
  <2>1. b # q
    BY <1>1, <1>6
  <2> QED
    BY <1>1, <1>2, <2>1
<1>8. PICK e \in E, m \in DOMAIN LEGAL_FORMS : e >= q /\ FormStands(w, e, b, m)
  <2>1. CutBefore(w, q, E, b)
    BY <1>7, FormBefore
  <2> QED
    BY <2>1 DEF CutBefore
<1>9. k <= m
  <2>1. b - a > Len(LEGAL_FORMS[m]) /\ b - Len(LEGAL_FORMS[m]) = e
    BY <1>1, <1>2, <1>8
  <2>2. AtEnd(LEGAL_FORMS[m], SubSeq(w, a + 1, b))
    BY <1>1, <1>2, <1>8, <2>1, FormAtEnds
  <2> QED
    BY <2>2 DEF Found
<1>10. Len(LEGAL_FORMS[m]) \in Nat \ {0} /\ Len(LEGAL_FORMS[m]) <= n
  BY <1>3, <1>9, FormsAreTold
<1>11. CASE Len(LEGAL_FORMS[m]) = n
  <2>1. e \in Nat /\ b - e = n
    BY <1>8, <1>11
  <2> HIDE DEF n
  <2>2. b - n = e
    BY <1>2, <2>1
  <2> QED
    BY <2>2 DEF n
<1>12. CASE Len(LEGAL_FORMS[m]) < n
  <2>1. w[b] = LEGAL_FORMS[m][Len(LEGAL_FORMS[m])]
    <3>1. e + Len(LEGAL_FORMS[m]) = b /\ Len(LEGAL_FORMS[m]) \in 1..Len(LEGAL_FORMS[m])
      BY <1>2, <1>8, <1>10
    <3> QED
      BY <1>8, <3>1
  <2>2. LEGAL_FORMS[k] = <<"PUBLIC", "LIMITED", "COMPANY">> /\ LEGAL_FORMS[m] = <<"COMPANY">>
    BY <1>3, <1>6, <1>12, <2>1, FormsAreTold
  <2>3. n = 3 /\ LEGAL_FORMS[k][1] = "PUBLIC" /\ LEGAL_FORMS[k][2] = "LIMITED"
        /\ Len(LEGAL_FORMS[m]) = 1
    BY <2>2
  <2>4. e = b - 1
    BY <1>2, <1>8, <2>3
  <2>5. w[b - 1] = "LIMITED" /\ w[b - 2] = "PUBLIC"
    <3>1. (b - n) + 1 = b - 2 /\ (b - n) + 2 = b - 1 /\ 1 \in 1..n /\ 2 \in 1..n
      BY <1>2, <2>3
    <3> QED
      BY <1>5, <2>3, <3>1
  <2>6. "LIMITED" \in FormTexts /\ "PUBLIC" \in FormTexts
    <3>1. 1 \in 1..n /\ 2 \in 1..n
      BY <2>3
    <3> QED
      BY <1>3, <2>3, <3>1, WordsOfForms
  <2>7. e > q
    <3>1. e # q
      BY <1>1, <2>4, <2>5, <2>6
    <3> QED
      BY <1>1, <1>8, <3>1
  <2>8. PICK f \in E, l \in DOMAIN LEGAL_FORMS : f >= q /\ FormStands(w, f, e, l)
    <3>1. CutBefore(w, q, E, e)
      BY <2>7, FormBefore
    <3> QED
      BY <3>1 DEF CutBefore
  <2>9. LEGAL_FORMS[l] = <<"LIMITED">>
    <3>1. f + Len(LEGAL_FORMS[l]) = e /\ Len(LEGAL_FORMS[l]) \in 1..Len(LEGAL_FORMS[l])
      BY <1>8, <2>8, FormsAreTold
    <3>2. w[e] = LEGAL_FORMS[l][Len(LEGAL_FORMS[l])]
      BY <2>8, <3>1
    <3> QED
      BY <2>4, <2>5, <3>2, FormsAreTold
  <2>10. f = b - 2
    <3>1. Len(LEGAL_FORMS[l]) = 1
      BY <2>9
    <3> QED
      BY <1>2, <2>4, <2>8, <3>1
  <2>11. f > q
    <3>1. f # q
      BY <1>1, <2>5, <2>6, <2>10
    <3> QED
      BY <1>1, <2>8, <3>1
  <2>12. PICK g \in E, h \in DOMAIN LEGAL_FORMS : g >= q /\ FormStands(w, g, f, h)
    <3>1. CutBefore(w, q, E, f)
      BY <2>11, FormBefore
    <3> QED
      BY <3>1 DEF CutBefore
  <2>13. w[f] = LEGAL_FORMS[h][Len(LEGAL_FORMS[h])]
    <3>1. g + Len(LEGAL_FORMS[h]) = f /\ Len(LEGAL_FORMS[h]) \in 1..Len(LEGAL_FORMS[h])
      BY <2>8, <2>12, FormsAreTold
    <3> QED
      BY <2>12, <3>1
  <2> QED
    BY <2>5, <2>10, <2>13, FormsAreTold
<1> QED
  BY <1>4, <1>10, <1>11, <1>12

\* So is the first one of the list at the start of a piece.
LEMMA StartIsAForm ==
  ASSUME NEW S, NEW w, NEW p, NEW q, NEW B, NEW E, Dressed(S, w, p, q, B, E),
         NEW a \in B, NEW b \in E, NEW k \in Found(SubSeq(w, a + 1, b)),
         \A m \in Found(SubSeq(w, a + 1, b)) : k <= m,
         AtStart(LEGAL_FORMS[k], SubSeq(w, a + 1, b))
  PROVE  a + Len(LEGAL_FORMS[k]) \in B
<1> DEFINE n == Len(LEGAL_FORMS[k])
<1> USE DEF FormStands
<1>1. /\ w \in Seq(S) /\ p \in Nat /\ q \in Nat /\ p < q /\ q <= Len(w)
      /\ B \in SUBSET (0..p) /\ E \in SUBSET (q..Len(w)) /\ w[p + 1] \notin FormTexts
      /\ Len(w) \in Nat
  BY LenProperties DEF Dressed
<1>2. a \in Nat /\ b \in Nat /\ a <= p /\ q <= b /\ b <= Len(w) /\ a <= b
  BY <1>1
<1>3. k \in DOMAIN LEGAL_FORMS
  BY DEF Found
<1>4. b - a > n /\ SubSeq(w, a + 1, a + n) = LEGAL_FORMS[k] /\ n \in Nat \ {0}
  BY <1>1, <1>2, <1>3, FormAtEnds, FormsAreTold
<1>5. \A x \in 1..n : w[a + x] = LEGAL_FORMS[k][x]
  <2>1. a + n \in Nat /\ a <= a + n /\ a + n <= Len(w)
    BY <1>1, <1>2, <1>4
  <2> QED
    BY <1>1, <1>2, <1>3, <1>4, <2>1, FormAtPlace
<1>6. w[a + 1] \in FormTexts
  <2>1. 1 \in 1..n
    BY <1>4
  <2> QED
    BY <1>3, <1>5, <2>1, WordsOfForms
<1>7. a < p
  <2>1. a # p
    BY <1>1, <1>6
  <2> QED
    BY <1>1, <1>2, <2>1
<1>8. PICK c \in B, m \in DOMAIN LEGAL_FORMS : c <= p /\ FormStands(w, a, c, m)
  <2>1. CutBehind(w, p, B, a)
    BY <1>7, FormBehind
  <2> QED
    BY <2>1 DEF CutBehind
<1>9. k <= m
  <2>1. b - a > Len(LEGAL_FORMS[m]) /\ a + Len(LEGAL_FORMS[m]) = c
    BY <1>1, <1>2, <1>8
  <2>2. AtStart(LEGAL_FORMS[m], SubSeq(w, a + 1, b))
    BY <1>1, <1>2, <1>8, <2>1, FormAtEnds
  <2> QED
    BY <2>2 DEF Found
<1>10. Len(LEGAL_FORMS[m]) \in Nat \ {0} /\ Len(LEGAL_FORMS[m]) <= n
  BY <1>3, <1>9, FormsAreTold
<1>11. Len(LEGAL_FORMS[m]) = n
  <2> SUFFICES ASSUME Len(LEGAL_FORMS[m]) < n PROVE FALSE
    BY <1>4, <1>10
  <2>1. PICK x \in 1..Len(LEGAL_FORMS[m]) : LEGAL_FORMS[k][x] # LEGAL_FORMS[m][x]
    BY <1>3, FormsAreTold
  <2>2. x \in 1..n
    BY <1>4, <1>10
  <2> QED
    BY <1>5, <1>8, <2>1, <2>2
<1>12. a + n = c
  BY <1>2, <1>8, <1>11
<1> QED
  BY <1>12

\* A piece loses a form and keeps its ends on cuts, or is the name itself.
ShorterOrCore(w, p, q, B, E, a, b) ==
  \E c \in B, d \in E :
    /\ WithoutForm(SubSeq(w, a + 1, b)) = SubSeq(w, c + 1, d)
    /\ (d - c < b - a) \/ (c = p /\ d = q)

\* One step of WithoutForm.
LEMMA OneFormLess ==
  ASSUME NEW S, NEW w, NEW p, NEW q, NEW B, NEW E, Dressed(S, w, p, q, B, E),
         NEW a \in B, NEW b \in E
  PROVE  ShorterOrCore(w, p, q, B, E, a, b)
<1> DEFINE s == SubSeq(w, a + 1, b)
           form == LEGAL_FORMS[SmallestOf(Found(s))]
<1> USE DEF FormStands
<1>1. /\ w \in Seq(S) /\ p \in Nat /\ q \in Nat /\ p < q /\ q <= Len(w)
      /\ B \in SUBSET (0..p) /\ E \in SUBSET (q..Len(w))
      /\ Len(w) \in Nat
  BY LenProperties DEF Dressed
<1>2. a \in Nat /\ b \in Nat /\ a <= p /\ q <= b /\ b <= Len(w) /\ a <= b
  BY <1>1
<1>3. WithoutForm(s) = IF Found(s) = {} THEN s
                       ELSE IF AtEnd(form, s) THEN SubSeq(s, 1, Len(s) - Len(form))
                       ELSE SubSeq(s, Len(form) + 1, Len(s))
  BY DEF WithoutForm, Found
<1>4. CASE Found(s) = {}
  <2>1. a = p
    <3> SUFFICES ASSUME a < p PROVE FALSE
      BY <1>1, <1>2
    <3>1. PICK c \in B, m \in DOMAIN LEGAL_FORMS : c <= p /\ FormStands(w, a, c, m)
      <4>1. CutBehind(w, p, B, a)
        BY FormBehind
      <4> QED
        BY <4>1 DEF CutBehind
    <3>2. b - a > Len(LEGAL_FORMS[m]) /\ a + Len(LEGAL_FORMS[m]) = c
      BY <1>1, <1>2, <3>1
    <3>3. AtStart(LEGAL_FORMS[m], s)
      BY <1>1, <1>2, <3>1, <3>2, FormAtEnds
    <3> QED
      BY <1>4, <3>3 DEF Found
  <2>2. b = q
    <3> SUFFICES ASSUME b > q PROVE FALSE
      BY <1>1, <1>2
    <3>1. PICK e \in E, m \in DOMAIN LEGAL_FORMS : e >= q /\ FormStands(w, e, b, m)
      <4>1. CutBefore(w, q, E, b)
        BY FormBefore
      <4> QED
        BY <4>1 DEF CutBefore
    <3>2. b - a > Len(LEGAL_FORMS[m]) /\ b - Len(LEGAL_FORMS[m]) = e
      BY <1>1, <1>2, <3>1
    <3>3. AtEnd(LEGAL_FORMS[m], s)
      BY <1>1, <1>2, <3>1, <3>2, FormAtEnds
    <3> QED
      BY <1>4, <3>3 DEF Found
  <2> QED
    BY <1>3, <1>4, <2>1, <2>2 DEF ShorterOrCore
<1>5. CASE Found(s) # {}
  <2> DEFINE k == SmallestOf(Found(s))
  <2>1. k \in Found(s) /\ \A m \in Found(s) : k <= m
    <3>1. Found(s) \in SUBSET Nat
      <4>1. DOMAIN LEGAL_FORMS = 1..30
        BY FormTable
      <4> QED
        BY <4>1 DEF Found
    <3>2. \E n \in Found(s) : \A m \in Found(s) : n <= m
      BY <1>5, <3>1, LeastNumber
    <3> QED
      BY <3>2 DEF SmallestOf
  <2> HIDE DEF k
  <2>2. k \in DOMAIN LEGAL_FORMS /\ (AtEnd(LEGAL_FORMS[k], s) \/ AtStart(LEGAL_FORMS[k], s))
    BY <2>1 DEF Found
  <2>3. /\ b - a > Len(LEGAL_FORMS[k]) /\ Len(LEGAL_FORMS[k]) \in Nat \ {0}
        /\ SubSeq(s, 1, Len(s) - Len(LEGAL_FORMS[k])) = SubSeq(w, a + 1, b - Len(LEGAL_FORMS[k]))
        /\ SubSeq(s, Len(LEGAL_FORMS[k]) + 1, Len(s)) =
             SubSeq(w, (a + Len(LEGAL_FORMS[k])) + 1, b)
    BY <1>1, <1>2, <2>2, FormAtEnds, FormsAreTold
  <2>4. WithoutForm(s) = IF AtEnd(LEGAL_FORMS[k], s)
                         THEN SubSeq(s, 1, Len(s) - Len(LEGAL_FORMS[k]))
                         ELSE SubSeq(s, Len(LEGAL_FORMS[k]) + 1, Len(s))
    BY <1>3, <1>5 DEF k
  <2>5. CASE AtEnd(LEGAL_FORMS[k], s)
    <3>1. b - Len(LEGAL_FORMS[k]) \in E
      BY <2>1, <2>5, EndIsAForm
    <3>2. WithoutForm(s) = SubSeq(w, a + 1, b - Len(LEGAL_FORMS[k]))
      BY <2>3, <2>4, <2>5
    <3>3. (b - Len(LEGAL_FORMS[k])) - a < b - a
      BY <1>2, <2>3
    <3> QED
      BY <3>1, <3>2, <3>3 DEF ShorterOrCore
  <2>6. CASE ~AtEnd(LEGAL_FORMS[k], s)
    <3>1. a + Len(LEGAL_FORMS[k]) \in B
      BY <2>1, <2>2, <2>6, StartIsAForm
    <3>2. WithoutForm(s) = SubSeq(w, (a + Len(LEGAL_FORMS[k])) + 1, b)
      BY <2>3, <2>4, <2>6
    <3>3. b - (a + Len(LEGAL_FORMS[k])) < b - a
      <4> DEFINE n == Len(LEGAL_FORMS[k])
      <4>1. n \in Nat \ {0}
        BY <2>3
      <4> HIDE DEF n
      <4>2. b - (a + n) < b - a
        BY <1>2, <4>1
      <4> QED
        BY <4>2 DEF n
    <3> QED
      BY <3>1, <3>2, <3>3 DEF ShorterOrCore
  <2> QED
    BY <2>5, <2>6
<1> QED
  BY <1>4, <1>5

\* The function DropLegalForms is made of.
IsRest(f, texts, m) ==
  f = [n \in 0..m |-> IF n = 0 THEN texts ELSE WithoutForm(f[n - 1])]

\* The passes of _drop_legal_forms are a function: the recursion is well defined.
LEMMA RestExists ==
  ASSUME NEW texts, NEW N \in Nat
  PROVE  \E f : IsRest(f, texts, N)
<1> DEFINE T == {m \in Nat : \E f : IsRest(f, texts, m)}
<1>1. 0 \in T
  <2> DEFINE f == [n \in 0..0 |-> texts]
  <2>1. IsRest(f, texts, 0)
    BY DEF IsRest
  <2> QED
    BY <2>1
<1>2. ASSUME NEW m \in T
      PROVE  m + 1 \in T
  <2>1. m \in Nat /\ m + 1 \in Nat
    OBVIOUS
  <2>2. PICK f : IsRest(f, texts, m)
    OBVIOUS
  <2> DEFINE g == [n \in 0..(m + 1) |-> IF n <= m THEN f[n] ELSE WithoutForm(f[m])]
  <2>3. ASSUME NEW n \in 0..(m + 1)
        PROVE  g[n] = IF n = 0 THEN texts ELSE WithoutForm(g[n - 1])
    <3>1. CASE n = 0
      <4>1. 0 \in 0..m /\ g[n] = f[0]
        BY <2>1, <3>1
      <4>2. f[0] = texts
        BY <2>2, <4>1 DEF IsRest
      <4> QED
        BY <3>1, <4>1, <4>2
    <3>2. CASE n \in 1..m
      <4>1. n \in 0..m /\ n # 0 /\ n <= m /\ n - 1 \in 0..(m + 1) /\ n - 1 <= m
        BY <2>1, <3>2
      <4>2. g[n] = f[n] /\ g[n - 1] = f[n - 1]
        BY <4>1
      <4> HIDE DEF g
      <4>3. f[n] = WithoutForm(f[n - 1])
        BY <2>2, <4>1 DEF IsRest
      <4> QED
        BY <4>1, <4>2, <4>3
    <3>3. CASE n = m + 1
      <4>1. ~(n <= m) /\ n # 0 /\ n - 1 = m /\ m \in 0..(m + 1) /\ m <= m
        BY <2>1, <3>3
      <4>2. g[n] = WithoutForm(f[m]) /\ g[m] = f[m]
        BY <4>1
      <4> HIDE DEF g
      <4> QED
        BY <4>1, <4>2
    <3> QED
      BY <2>1, <3>1, <3>2, <3>3
  <2>4. g = [n \in 0..(m + 1) |-> g[n]]
    OBVIOUS
  <2> HIDE DEF g
  <2>5. g = [n \in 0..(m + 1) |-> IF n = 0 THEN texts ELSE WithoutForm(g[n - 1])]
    BY <2>3, <2>4
  <2>6. IsRest(g, texts, m + 1)
    BY <2>5 DEF IsRest
  <2> QED
    BY <2>1, <2>6
<1>3. T \in SUBSET Nat
  OBVIOUS
<1> HIDE DEF T
<1>4. T = Nat
  BY <1>1, <1>2, <1>3, NumbersInduction
<1> QED
  BY <1>4 DEF T

\* A piece that still has forms around it, or has lost them all.
PieceOrCore(w, p, q, B, E, t, n) ==
  \E a \in B, b \in E :
    t = SubSeq(w, a + 1, b) /\ (b - a <= n \/ (a = p /\ b = q))

\* All forms go, and nothing but them.
LEMMA OnlyFormsGo ==
  ASSUME NEW S, NEW w, NEW p, NEW q, NEW B, NEW E, Dressed(S, w, p, q, B, E)
  PROVE  DropLegalForms(w) = SubSeq(w, p + 1, q)
<1> DEFINE N == Len(w)
           f == CHOOSE f : IsRest(f, w, N)
<1>1. /\ w \in Seq(S) /\ p \in Nat /\ q \in Nat /\ p < q /\ q <= N
      /\ B \in SUBSET (0..p) /\ 0 \in B /\ E \in SUBSET (q..N) /\ N \in E
      /\ N \in Nat
  BY LenProperties DEF Dressed
<1>2. IsRest(f, w, N)
  BY <1>1, RestExists
<1>3. DropLegalForms(w) = f[N]
  BY DEF DropLegalForms, IsRest
<1> HIDE DEF f
<1>4. f[0] = w /\ \A n \in 1..N : f[n] = WithoutForm(f[n - 1])
  BY <1>1, <1>2 DEF IsRest
<1> DEFINE T == {n \in Nat : n <= N => PieceOrCore(w, p, q, B, E, f[n], N - n)}
<1>5. 0 \in T
  <2>1. SubSeq(w, 0 + 1, N) = w
    BY <1>1, SubSeqFull
  <2>2. N - 0 <= N - 0
    BY <1>1
  <2>3. PieceOrCore(w, p, q, B, E, f[0], N - 0)
    BY <1>1, <1>4, <2>1, <2>2 DEF PieceOrCore
  <2> QED
    BY <2>3
<1>6. ASSUME NEW n \in T
      PROVE  n + 1 \in T
  <2>1. n \in Nat /\ n + 1 \in Nat
    OBVIOUS
  <2> SUFFICES ASSUME n + 1 <= N PROVE PieceOrCore(w, p, q, B, E, f[n + 1], N - (n + 1))
    BY <2>1
  <2>2. n <= N /\ n + 1 \in 1..N /\ (n + 1) - 1 = n
    BY <1>1, <2>1
  <2>3. PieceOrCore(w, p, q, B, E, f[n], N - n)
    BY <2>2
  <2>4. f[n + 1] = WithoutForm(f[n])
    BY <1>4, <2>2
  <2> HIDE DEF T
  <2>5. PICK a \in B, b \in E :
          f[n] = SubSeq(w, a + 1, b) /\ (b - a <= N - n \/ (a = p /\ b = q))
    BY <2>3 DEF PieceOrCore
  <2>6. PICK c \in B, d \in E :
          /\ WithoutForm(SubSeq(w, a + 1, b)) = SubSeq(w, c + 1, d)
          /\ (d - c < b - a) \/ (c = p /\ d = q)
    <3>1. ShorterOrCore(w, p, q, B, E, a, b)
      BY OneFormLess
    <3> QED
      BY <3>1 DEF ShorterOrCore
  <2>7. /\ a \in 0..p /\ c \in 0..p /\ b \in q..N /\ d \in q..N
    BY <1>1
  <2>8. d - c <= N - (n + 1) \/ (c = p /\ d = q)
    <3> HIDE DEF N
    <3>1. CASE c = p /\ d = q
      BY <3>1
    <3>2. CASE d - c < b - a /\ b - a <= N - n
      BY <1>1, <2>1, <2>7, <3>2
    <3>3. CASE d - c < b - a /\ a = p /\ b = q
      BY <1>1, <2>7, <3>3
    <3> QED
      BY <2>5, <2>6, <3>1, <3>2, <3>3
  <2> QED
    BY <2>4, <2>5, <2>6, <2>8 DEF PieceOrCore
<1>7. T \in SUBSET Nat
  OBVIOUS
<1>8. N \in T
  <2> HIDE DEF T
  <2>1. T = Nat
    BY <1>5, <1>6, <1>7, NumbersInduction
  <2> QED
    BY <1>1, <2>1
<1>9. PieceOrCore(w, p, q, B, E, f[N], N - N)
  BY <1>1, <1>8
<1>10. PICK a \in B, b \in E : f[N] = SubSeq(w, a + 1, b) /\ (b - a <= N - N \/ (a = p /\ b = q))
  BY <1>9 DEF PieceOrCore
<1>11. a = p /\ b = q
  <2>1. a \in 0..p /\ b \in q..N
    BY <1>1
  <2> HIDE DEF N
  <2>2. ~(b - a <= N - N)
    BY <1>1, <2>1
  <2> QED
    BY <1>10, <2>2
<1> QED
  BY <1>3, <1>10, <1>11

Token == [text : STRING, hyphenated : BOOLEAN]

\* Two sequences agree on a piece of each.
Agree(s, a, b, t, c, d) ==
  /\ a \in Nat /\ b \in Nat /\ a <= b /\ b <= Len(s)
  /\ c \in Nat /\ d \in Nat /\ d <= Len(t) /\ d - c = b - a
  /\ \A x \in 1..(b - a) : s[a + x] = t[c + x]

SamePieces(s, a, b, t, c, d) == SubSeq(s, a + 1, b) = SubSeq(t, c + 1, d)

\* Equal pieces of two sequences.
LEMMA SamePiece ==
  ASSUME NEW S, NEW s \in Seq(S), NEW t \in Seq(S), NEW a, NEW b, NEW c, NEW d,
         Agree(s, a, b, t, c, d)
  PROVE  SamePieces(s, a, b, t, c, d)
<1> USE DEF Agree
<1> DEFINE u == SubSeq(s, a + 1, b)
           v == SubSeq(t, c + 1, d)
<1>1. /\ Len(s) \in Nat /\ Len(t) \in Nat
      /\ (\A x \in 1..Len(s) : s[x] \in S) /\ \A x \in 1..Len(t) : t[x] \in S
  BY LenProperties, ElementOfSeq
<1>2. /\ u \in Seq(S) /\ Len(u) = IF a + 1 <= b THEN b - (a + 1) + 1 ELSE 0
      /\ \A x \in 1..(b - (a + 1) + 1) : u[x] = s[(a + 1) + x - 1]
  <2>1. \A x \in (a + 1)..b : s[x] \in S
    BY <1>1
  <2> QED
    BY <2>1, SubSeqProperties
<1>3. /\ v \in Seq(S) /\ Len(v) = IF c + 1 <= d THEN d - (c + 1) + 1 ELSE 0
      /\ \A x \in 1..(d - (c + 1) + 1) : v[x] = t[(c + 1) + x - 1]
  <2>1. \A x \in (c + 1)..d : t[x] \in S
    BY <1>1
  <2> QED
    BY <2>1, SubSeqProperties
<1> HIDE DEF u, v
<1>4. Len(u) = b - a /\ Len(v) = b - a
  BY <1>2, <1>3
<1>5. ASSUME NEW x \in 1..Len(u)
      PROVE  u[x] = v[x]
  <2>1. /\ x \in 1..(b - a) /\ x \in 1..(b - (a + 1) + 1) /\ x \in 1..(d - (c + 1) + 1)
        /\ (a + 1) + x - 1 = a + x /\ (c + 1) + x - 1 = c + x
    BY <1>4
  <2> QED
    BY <1>2, <1>3, <2>1
<1>6. u = v
  BY <1>2, <1>3, <1>4, <1>5, SeqEqual
<1> QED
  BY <1>6 DEF u, v, SamePieces

\* A piece, token by token.
LEMMA PieceOf ==
  ASSUME NEW S, NEW s \in Seq(S), NEW a \in Nat, NEW b \in Nat, a <= b, b <= Len(s)
  PROVE  /\ SubSeq(s, a + 1, b) \in Seq(S)
         /\ Len(SubSeq(s, a + 1, b)) = b - a
         /\ \A x \in 1..(b - a) : SubSeq(s, a + 1, b)[x] = s[a + x]
<1>1. Len(s) \in Nat /\ \A x \in 1..Len(s) : s[x] \in S
  BY LenProperties, ElementOfSeq
<1>2. \A x \in (a + 1)..b : s[x] \in S
  BY <1>1
<1>3. /\ SubSeq(s, a + 1, b) \in Seq(S)
      /\ Len(SubSeq(s, a + 1, b)) = IF a + 1 <= b THEN b - (a + 1) + 1 ELSE 0
      /\ \A x \in 1..(b - (a + 1) + 1) : SubSeq(s, a + 1, b)[x] = s[(a + 1) + x - 1]
  BY <1>2, SubSeqProperties
<1>4. Len(SubSeq(s, a + 1, b)) = b - a
  BY <1>3
<1>5. ASSUME NEW x \in 1..(b - a)
      PROVE  SubSeq(s, a + 1, b)[x] = s[a + x]
  <2>1. x \in 1..(b - (a + 1) + 1) /\ (a + 1) + x - 1 = a + x
    OBVIOUS
  <2> QED
    BY <1>3, <2>1
<1> QED
  BY <1>3, <1>4, <1>5

\* The words of the forms, the descriptors and the words among them.
LEMMA KindsOfWords ==
  /\ FormTexts \cap LISTING_DESCRIPTORS = {}
  /\ CLASS_WORDS \subseteq LISTING_DESCRIPTORS
  /\ NOMINAL_INTRODUCERS \subseteq LISTING_DESCRIPTORS
  /\ "" \notin CLASS_WORDS
<1> DEFINE W == SingleWords \cup {"SOCIETE", "EN", "COMMANDITE", "PAR", "ACTIONS", "PUBLIC",
                  "LIMITED", "COMPANY", "SOCIETA", "PER", "AZIONI", "ANONYME", "NAAMLOZE",
                  "VENNOOTSCHAP"}
<1>1. ASSUME NEW k \in DOMAIN LEGAL_FORMS
      PROVE  Range(LEGAL_FORMS[k]) \subseteq W
  <2>1. k = 1 \/ k = 2 \/ k = 3 \/ k = 4 \/ k = 5 \/ k \in 6..30
    BY FormTable
  <2>2. CASE k = 1
    BY <2>2, FormTable DEF Range
  <2>3. CASE k = 2
    BY <2>3, FormTable DEF Range
  <2>4. CASE k = 3
    BY <2>4, FormTable DEF Range
  <2>5. CASE k = 4
    BY <2>5, FormTable DEF Range
  <2>6. CASE k = 5
    BY <2>6, FormTable DEF Range
  <2>7. CASE k \in 6..30
    <3>1. PICK w \in SingleWords : LEGAL_FORMS[k] = <<w>>
      BY <2>7, FormTable
    <3> QED
      BY <3>1 DEF Range
  <2> QED
    BY <2>1, <2>2, <2>3, <2>4, <2>5, <2>6, <2>7
<1>2. FormTexts \subseteq W
  BY <1>1 DEF FormTexts
<1>3. W \cap LISTING_DESCRIPTORS = {}
  BY DEF SingleWords, LISTING_DESCRIPTORS
<1>4. /\ CLASS_WORDS \subseteq LISTING_DESCRIPTORS
      /\ NOMINAL_INTRODUCERS \subseteq LISTING_DESCRIPTORS
      /\ "" \notin CLASS_WORDS
  BY DEF CLASS_WORDS, NOMINAL_INTRODUCERS, LISTING_DESCRIPTORS
<1> QED
  BY <1>2, <1>3, <1>4

\* A name is kept up to the place behind which all is dropped, if what stands there is not.
LEMMA KeptUpTo ==
  ASSUME NEW S, NEW name \in Seq(S), NEW dropped, NEW n \in 1..Len(name),
         (n + 1)..Len(name) \subseteq dropped, n = 1 \/ n \notin dropped
  PROVE  Kept(name, dropped) = SubSeq(name, 1, n)
<1> DEFINE T == {m \in DOMAIN name : (m + 1)..Len(name) \subseteq dropped}
<1>1. Len(name) \in Nat /\ DOMAIN name = 1..Len(name)
  BY LenProperties
<1>2. name # <<>>
  BY <1>1, EmptySeq
<1>3. n \in T
  BY <1>1
<1>4. ASSUME NEW m \in T
      PROVE  n <= m
  <2>1. m \in 1..Len(name) /\ (m + 1)..Len(name) \subseteq dropped
    BY <1>1
  <2>2. CASE n = 1
    BY <1>1, <2>1, <2>2
  <2>3. CASE n \notin dropped
    <3> SUFFICES ASSUME m < n PROVE FALSE
      BY <1>1, <2>1
    <3>1. n \in (m + 1)..Len(name)
      BY <1>1, <2>1
    <3> QED
      BY <2>1, <2>3, <3>1
  <2> QED
    BY <2>2, <2>3
<1>5. T \subseteq 1..Len(name)
  BY <1>1
<1>6. Kept(name, dropped) = SubSeq(name, 1, SmallestOf(T))
  BY <1>2 DEF Kept
<1> HIDE DEF T
<1>7. SmallestOf(T) = n
  <2>1. \A m \in T : m \in Nat
    BY <1>1, <1>5
  <2>2. \A m \in T : (\A l \in T : m <= l) => m = n
    BY <1>3, <1>4, <2>1
  <2>3. SmallestOf(T) \in T /\ \A l \in T : SmallestOf(T) <= l
    BY <1>3, <1>4, Zenon DEF SmallestOf
  <2> QED
    BY <2>2, <2>3
<1> QED
  BY <1>6, <1>7

\* A whole name, token by token: up to p the forms before it, up to q the name itself, up to r
\* the forms behind it, up to c what tells the listing, and then nominal values.
Around(w, p, q, r, c) ==
  /\ w \in Names
  /\ p \in Nat /\ q \in Nat /\ r \in Nat /\ c \in Nat
  /\ p < q /\ q <= r /\ r <= c /\ c <= Len(w)
  /\ \A k \in (c + 1)..Len(w) : w[k].text \in NominalValues
  /\ c < Len(w) => w[c].text \in NOMINAL_INTRODUCERS
  /\ \A k \in (r + 1)..c :
       \/ w[k].text \in LISTING_DESCRIPTORS
       \/ /\ w[k].text \in Letters
          /\ \/ w[k].hyphenated
             \/ w[k - 1].text \in CLASS_WORDS
             \/ k < c /\ w[k + 1].text \in CLASS_WORDS
  /\ w[r].text \notin LISTING_DESCRIPTORS
  /\ w[r].text \in Letters =>
       /\ ~w[r].hyphenated
       /\ r > 1 => w[r - 1].text \notin CLASS_WORDS
       /\ r < Len(w) => w[r + 1].text \notin CLASS_WORDS
  /\ \A k \in 1..(r - 1) :
       w[k].text \in NOMINAL_INTRODUCERS => w[k + 1].text \notin NominalValues

\* _drop_nominal_value_tail drops the nominal values behind their word, and nothing of the name.
LEMMA NominalTailGoes ==
  ASSUME NEW w, NEW p, NEW q, NEW r, NEW c, Around(w, p, q, r, c)
  PROVE  DropNominalValueTail(w) = SubSeq(w, 1, c)
<1> DEFINE N == {k \in DOMAIN w : w[k].text \in NominalValues}
<1>1. /\ w \in Seq(Token) /\ p \in Nat /\ q \in Nat /\ r \in Nat /\ c \in Nat
      /\ p < q /\ q <= r /\ r <= c /\ c <= Len(w)
  BY DEF Around, Names, Token
<1>2. Len(w) \in Nat /\ DOMAIN w = 1..Len(w) /\ Len(w) > 0
  BY <1>1, LenProperties
<1>3. w # <<>>
  BY <1>1, <1>2, EmptySeq
<1>4. SubSeq(w, 1, Len(w)) = w
  BY <1>1, SubSeqFull
<1>5. /\ \A t \in NominalValues :
           t \notin LISTING_DESCRIPTORS /\ t \notin FormTexts /\ t \notin Letters
      /\ \A t \in NOMINAL_INTRODUCERS : t \in LISTING_DESCRIPTORS
  BY KindsOfWords, NameShapes
<1>6. DropNominalValueTail(w) =
        IF Kept(w, N)[Len(Kept(w, N))].text \in NOMINAL_INTRODUCERS THEN Kept(w, N) ELSE w
  BY <1>3 DEF DropNominalValueTail
<1>7. ASSUME NEW n \in 1..Len(w)
      PROVE  Len(SubSeq(w, 1, n)) = n /\ SubSeq(w, 1, n)[n] = w[n]
  <2>1. n \in Nat /\ 0 \in Nat /\ 0 <= n /\ n <= Len(w) /\ n - 0 = n /\ 0 + 1 = 1 /\ 0 + n = n
        /\ n \in 1..n
    BY <1>2
  <2>2. Len(SubSeq(w, 0 + 1, n)) = n - 0 /\ \A x \in 1..(n - 0) : SubSeq(w, 0 + 1, n)[x] = w[0 + x]
    BY <1>1, <2>1, PieceOf
  <2> QED
    BY <2>1, <2>2
<1>8. CASE c < Len(w)
  <2>1. w[c].text \in NOMINAL_INTRODUCERS
    BY <1>8 DEF Around
  <2>2. c \in 1..Len(w) /\ c \notin N
    BY <1>1, <1>2, <1>5, <2>1
  <2>3. (c + 1)..Len(w) \subseteq N
    <3>1. \A k \in (c + 1)..Len(w) : w[k].text \in NominalValues
      BY DEF Around
    <3>2. \A k \in (c + 1)..Len(w) : k \in 1..Len(w)
      BY <1>1, <1>2
    <3> QED
      BY <1>2, <3>1, <3>2
  <2>4. Kept(w, N) = SubSeq(w, 1, c)
    <3> HIDE DEF N
    <3> QED
      BY <1>1, <2>2, <2>3, KeptUpTo
  <2>5. Kept(w, N)[Len(Kept(w, N))].text \in NOMINAL_INTRODUCERS
    BY <1>7, <2>1, <2>2, <2>4
  <2> QED
    BY <1>6, <2>4, <2>5
<1>9. CASE c = Len(w)
  <2> SUFFICES DropNominalValueTail(w) = w
    BY <1>4, <1>9
  <2> DEFINE T == {n \in 1..Len(w) : (n + 1)..Len(w) \subseteq N}
  <2>1. T \in SUBSET Nat
    BY <1>2
  <2>2. Len(w) \in T
    BY <1>2
  <2>3. PICK n \in T : \A m \in T : n <= m
    <3> HIDE DEF T
    <3> QED
      BY <2>1, <2>2, LeastNumber
  <2>4. Kept(w, N) = SubSeq(w, 1, n)
    <3>1. n = 1 \/ n \notin N
      <4> SUFFICES ASSUME n # 1, n \in N PROVE FALSE
        OBVIOUS
      <4>1. n - 1 \in 1..Len(w) /\ n \in Nat /\ (n - 1) + 1 = n
        BY <1>2
      <4>2. n..Len(w) \subseteq N
        <5>1. \A k \in n..Len(w) : k = n \/ k \in (n + 1)..Len(w)
          BY <1>2, <4>1
        <5> HIDE DEF N
        <5> QED
          BY <5>1
      <4>3. n - 1 \in T
        <5> HIDE DEF N
        <5> QED
          BY <4>1, <4>2
      <4>4. n <= n - 1
        BY <2>3, <4>3
      <4> HIDE DEF N, T
      <4> QED
        BY ONLY <4>1, <4>4
    <3>2. n \in 1..Len(w) /\ (n + 1)..Len(w) \subseteq N
      OBVIOUS
    <3> HIDE DEF N, T
    <3> QED
      BY <1>1, <3>1, <3>2, KeptUpTo
  <2>5. CASE n = Len(w)
    BY <1>4, <1>6, <2>4, <2>5
  <2>6. CASE n < Len(w)
    <3>1. n \in 1..Len(w) /\ n + 1 \in 1..Len(w) /\ n + 1 \in (n + 1)..Len(w)
      BY <1>2, <2>6
    <3>2. (n + 1)..Len(w) \subseteq N
      OBVIOUS
    <3>3. w[n + 1].text \in NominalValues /\ w[Len(w)].text \in NominalValues
      <4>1. n + 1 \in N /\ Len(w) \in N
        <5>1. Len(w) \in (n + 1)..Len(w)
          BY <1>2, <2>6
        <5> HIDE DEF N
        <5> QED
          BY <3>1, <3>2, <5>1
      <4> QED
        BY <4>1
    <3>4. r = c
      <4> SUFFICES ASSUME r < c PROVE FALSE
        BY <1>1
      <4>1. c \in (r + 1)..c
        BY <1>1
      <4>2. w[c].text \in LISTING_DESCRIPTORS \/ w[c].text \in Letters
        BY <4>1 DEF Around
      <4> QED
        BY <1>5, <1>9, <3>3, <4>2
    <3>5. w[n].text \notin NOMINAL_INTRODUCERS
      <4>1. n \in 1..(r - 1)
        BY <1>1, <1>2, <1>9, <2>6, <3>1, <3>4
      <4> QED
        BY <3>3, <4>1 DEF Around
    <3>6. Kept(w, N)[Len(Kept(w, N))].text = w[n].text
      BY <1>7, <2>4, <3>1
    <3> QED
      BY <1>6, <3>5, <3>6
  <2>7. n = Len(w) \/ n < Len(w)
    <3>1. n \in 1..Len(w)
      OBVIOUS
    <3> HIDE DEF T, N
    <3>2. n \in Nat /\ n <= Len(w)
      BY <1>2, <3>1
    <3>3. Len(w) \in Nat
      BY <1>2
    <3> QED
      BY ONLY <3>2, <3>3
  <2> HIDE DEF T, N
  <2> QED
    BY <2>5, <2>6, <2>7
<1>10. c < Len(w) \/ c = Len(w)
  <2>1. c \in Nat /\ c <= Len(w)
    BY <1>1
  <2>2. Len(w) \in Nat
    BY <1>2
  <2> HIDE DEF N
  <2> QED
    BY <2>1, <2>2
<1> QED
  BY <1>8, <1>9, <1>10

\* What tells the listing goes, and nothing but that.
LEMMA ListingGoes ==
  ASSUME NEW w, NEW p, NEW q, NEW r, NEW c, Around(w, p, q, r, c)
  PROVE  DropListingDescriptors(w) = SubSeq(w, 1, r)
<1> DEFINE all == SubSeq(w, 1, c)
           right(k) == IF k = Len(all) THEN "" ELSE all[k + 1].text
           dropped(k) == \/ all[k].text \in LISTING_DESCRIPTORS
                         \/ IsShareClassLetter(all[k], all[k - 1].text, right(k))
           D == {k \in 2..Len(all) : dropped(k)}
<1>1. /\ w \in Seq(Token) /\ p \in Nat /\ q \in Nat /\ r \in Nat /\ c \in Nat
      /\ p < q /\ q <= r /\ r <= c /\ c <= Len(w)
  BY DEF Around, Names, Token
<1>2. Len(w) \in Nat
  BY <1>1, LenProperties
<1>3. all \in Seq(Token) /\ Len(all) = c /\ \A k \in 1..c : all[k] = w[k]
  <2>1. 0 \in Nat /\ 0 <= c /\ c - 0 = c /\ 0 + 1 = 1 /\ \A k \in 1..c : 0 + k = k
    BY <1>1
  <2>2. /\ SubSeq(w, 0 + 1, c) \in Seq(Token) /\ Len(SubSeq(w, 0 + 1, c)) = c - 0
        /\ \A x \in 1..(c - 0) : SubSeq(w, 0 + 1, c)[x] = w[0 + x]
    BY <1>1, <2>1, PieceOf
  <2> QED
    BY <2>1, <2>2
<1>4. DropListingDescriptors(w) = Kept(all, D)
  <2>1. DropNominalValueTail(w) = all
    BY NominalTailGoes
  <2> HIDE DEF all
  <2> QED
    BY <2>1 DEF DropListingDescriptors
<1> HIDE DEF all
<1>5. \A k \in 2..c : all[k] = w[k] /\ all[k - 1] = w[k - 1] /\ (k < c => all[k + 1] = w[k + 1])
  BY <1>1, <1>3
<1>6. ASSUME NEW k \in (r + 1)..c
      PROVE  k \in D
  <2>1. k \in 2..c /\ k \in Nat
    BY <1>1
  <2>2. \/ w[k].text \in LISTING_DESCRIPTORS
        \/ /\ w[k].text \in Letters
           /\ \/ w[k].hyphenated
              \/ w[k - 1].text \in CLASS_WORDS
              \/ k < c /\ w[k + 1].text \in CLASS_WORDS
    BY DEF Around
  <2>3. k < c => right(k) = w[k + 1].text
    <3> SUFFICES ASSUME k < c PROVE right(k) = w[k + 1].text
      OBVIOUS
    <3>1. k # Len(all) /\ all[k + 1] = w[k + 1]
      BY <1>3, <1>5, <2>1
    <3> QED
      BY <3>1
  <2> HIDE DEF right
  <2>4. dropped(k)
    BY <1>5, <2>1, <2>2, <2>3 DEF IsShareClassLetter
  <2> QED
    BY <1>3, <2>1, <2>4
<1>7. r = 1 \/ r \notin D
  <2> SUFFICES ASSUME r # 1, r \in D PROVE FALSE
    OBVIOUS
  <2>1. r \in 2..c /\ r > 1
    <3>1. r # 1
      OBVIOUS
    <3> HIDE DEF D, dropped
    <3> QED
      BY <1>1, <3>1
  <2>2. dropped(r)
    OBVIOUS
  <2>3. w[r].text \notin LISTING_DESCRIPTORS
    BY DEF Around
  <2>4. right(r) \notin CLASS_WORDS \/ w[r].text \notin Letters
    <3>1. CASE r = c
      BY <1>3, <3>1, KindsOfWords
    <3>2. CASE r < c
      <4>1. r < Len(w) /\ r # Len(all)
        <5>1. r \in Nat /\ c \in Nat /\ c <= Len(w) /\ Len(all) = c
          BY <1>1, <1>3
        <5> HIDE DEF D, dropped, right
        <5>2. Len(w) \in Nat
          BY <1>2
        <5>3. r < c
          BY <3>2
        <5>4. r # c /\ r < Len(w)
          BY ONLY <5>1, <5>2, <5>3
        <5> QED
          BY <5>1, <5>4
      <4>2. all[r + 1] = w[r + 1]
        BY <1>5, <2>1, <3>2
      <4>3. right(r) = w[r + 1].text
        BY <4>1, <4>2
      <4> HIDE DEF right
      <4> QED
        BY <4>1, <4>3 DEF Around
    <3> HIDE DEF D, dropped, right
    <3>3. r = c \/ r < c
      <4>1. r \in Nat /\ c \in Nat /\ r <= c
        BY <1>1
      <4> QED
        BY ONLY <4>1
    <3> QED
      BY <3>1, <3>2, <3>3
  <2> HIDE DEF right
  <2>5. IsShareClassLetter(w[r], w[r - 1].text, right(r))
    BY <1>5, <2>1, <2>2, <2>3
  <2> QED
    BY <2>1, <2>4, <2>5 DEF Around, IsShareClassLetter
<1>8. Kept(all, D) = SubSeq(all, 1, r)
  <2> HIDE DEF D
  <2>1. r \in 1..Len(all) /\ (r + 1)..Len(all) \subseteq D
    BY <1>1, <1>3, <1>6
  <2> QED
    BY <1>3, <1>7, <2>1, KeptUpTo
<1>9. SubSeq(all, 1, r) = SubSeq(w, 1, r)
  <2>1. 0 \in Nat /\ 0 <= r /\ r <= Len(all) /\ r <= Len(w) /\ r - 0 = r - 0 /\ 0 + 1 = 1
    BY <1>1, <1>2, <1>3
  <2>2. \A x \in 1..(r - 0) : all[0 + x] = w[0 + x]
    BY <1>1, <1>3
  <2>3. Agree(all, 0, r, w, 0, r)
    BY <1>1, <2>1, <2>2 DEF Agree
  <2>4. SamePieces(all, 0, r, w, 0, r)
    BY <1>1, <1>3, <2>3, SamePiece
  <2> QED
    BY <2>1, <2>4 DEF SamePieces
<1> QED
  BY <1>4, <1>8, <1>9

\* The texts of a name, one by one.
LEMMA TextsOfName ==
  ASSUME NEW name \in Names
  PROVE  /\ TextsOf(name) \in Seq(STRING)
         /\ Len(TextsOf(name)) = Len(name)
         /\ \A k \in 1..Len(name) : TextsOf(name)[k] = name[k].text /\ name[k] \in Token
<1>1. name \in Seq(Token)
  BY DEF Names, Token
<1>2. Len(name) \in Nat /\ DOMAIN name = 1..Len(name)
  BY <1>1, LenProperties
<1>3. \A k \in 1..Len(name) : name[k] \in Token /\ name[k].text \in STRING
  <2>1. \A k \in 1..Len(name) : name[k] \in Token
    BY <1>1, ElementOfSeq
  <2>2. \A t \in Token : t.text \in STRING
    BY DEF Token
  <2> QED
    BY <2>1, <2>2
<1>4. TextsOf(name) = [k \in 1..Len(name) |-> name[k].text]
  BY <1>2 DEF TextsOf
<1>5. TextsOf(name) \in Seq(STRING) /\ Len(TextsOf(name)) = Len(name)
  BY <1>2, <1>3, <1>4
<1> QED
  BY <1>3, <1>4, <1>5

\* Forms are made of the words of forms.
LEMMA FormsAreFormTexts ==
  ASSUME NEW t \in Seq(STRING), IsForms(t), NEW x \in 1..Len(t)
  PROVE  t[x] \in FormTexts
<1>1. Len(t) \in Nat /\ x \in Nat /\ 1 <= x /\ x <= Len(t)
  BY LenProperties
<1>2. PICK C \in SUBSET (0..Len(t)) : 0 \in C /\ Len(t) \in C /\ FormsBetween(t, C)
  BY DEF IsForms
<1> DEFINE T == {c \in C : c >= x}
<1>3. C \in SUBSET Nat /\ T \in SUBSET Nat /\ Len(t) \in T
  <2>1. C \in SUBSET Nat
    BY <1>1, <1>2
  <2>2. Len(t) \in C /\ Len(t) >= x
    BY <1>1, <1>2
  <2> QED
    BY <2>1, <2>2
<1>4. PICK b \in T : \A m \in T : b <= m
  <2> HIDE DEF T
  <2> QED
    BY <1>3, LeastNumber
<1>5. b \in C /\ b >= x /\ b \in Nat /\ b <= Len(t)
  BY <1>1, <1>2
<1>6. PICK a \in C : a < b /\ \A c \in C : c <= a \/ b <= c
  <2>1. 0 \in C /\ 0 < b
    BY <1>1, <1>2, <1>5
  <2> QED
    BY <1>3, <1>5, <2>1, NeighbouringCuts
<1>7. a \in Nat /\ a < x
  <2>1. a \in Nat
    BY <1>3
  <2>2. a >= x => b <= a
    BY <1>4
  <2> HIDE DEF T
  <2> QED
    BY <1>1, <1>5, <1>6, <2>1, <2>2
<1> HIDE DEF T
<1>8. PICK k \in DOMAIN LEGAL_FORMS : SubSeq(t, a + 1, b) = LEGAL_FORMS[k]
  BY <1>2, <1>5, <1>6 DEF FormsBetween
<1>9. /\ b - a = Len(LEGAL_FORMS[k])
      /\ \A y \in 1..Len(LEGAL_FORMS[k]) : t[a + y] = LEGAL_FORMS[k][y]
  <2>1. a <= b
    BY <1>5, <1>6, <1>7
  <2> QED
    BY <1>5, <1>7, <1>8, <2>1, FormAtPlace
<1>10. x - a \in 1..Len(LEGAL_FORMS[k]) /\ a + (x - a) = x
  BY <1>1, <1>5, <1>7, <1>9
<1> QED
  BY <1>9, <1>10, WordsOfForms

\* The parts of a whole name, token by token: up to p what stands before it, up to q the
\* name, up to r the forms behind it.
Parts(w, before, i, after, n, p, q, r) ==
  /\ w \in Names
  /\ p = Len(before) /\ q = p + Len(i) /\ r = q + n /\ Len(w) = q + Len(after)
  /\ p \in Nat /\ Len(i) \in Nat \ {0} /\ n \in Nat /\ Len(after) \in Nat /\ n <= Len(after)
  /\ \A k \in 1..p : w[k] = before[k]
  /\ \A k \in (p + 1)..q : w[k] = i[k - p]
  /\ \A k \in (q + 1)..r : w[k] = SubSeq(after, 1, n)[k - q]
  /\ \A k \in (r + 1)..Len(w) : w[k] = SubSeq(after, n + 1, Len(after))[k - r]
  /\ \A k \in (q + 1)..Len(w) : w[k] = after[k - q]
  /\ \A k \in 1..p : w[k].text \in FormTexts
  /\ \A k \in (q + 1)..r : w[k].text \in FormTexts

\* A name with forms before it and an addition behind it has these parts.
LEMMA NameHasParts ==
  ASSUME NEW before \in Names, NEW i \in Names, NEW after \in Names, i # <<>>,
         NEW n \in 0..Len(after), IsForms(TextsOf(before)), IsForms(TextsOf(SubSeq(after, 1, n)))
  PROVE  Parts(before \o i \o after, before, i, after, n,
               Len(before), Len(before) + Len(i), Len(before) + Len(i) + n)
<1> DEFINE bi == before \o i
           w == bi \o after
           p == Len(before)
           q == p + Len(i)
           r == q + n
           f == SubSeq(after, 1, n)
           l == SubSeq(after, n + 1, Len(after))
<1>1. before \in Seq(Token) /\ i \in Seq(Token) /\ after \in Seq(Token)
  BY DEF Names, Token
<1>2. /\ p \in Nat /\ Len(i) \in Nat \ {0} /\ Len(after) \in Nat /\ n \in Nat /\ n <= Len(after)
  BY <1>1, LenProperties, EmptySeq
<1>3. /\ bi \in Seq(Token) /\ Len(bi) = q
      /\ \A k \in 1..q : bi[k] = IF k <= p THEN before[k] ELSE i[k - p]
  BY <1>1, ConcatProperties
<1> HIDE DEF bi
<1>4. /\ w \in Seq(Token) /\ Len(w) = q + Len(after)
      /\ \A k \in 1..(q + Len(after)) : w[k] = IF k <= q THEN bi[k] ELSE after[k - q]
  <2>1. bi \in Seq(Token) /\ Len(bi) = q
    BY <1>3
  <2> HIDE DEF q
  <2>2. /\ w \in Seq(Token) /\ Len(w) = Len(bi) + Len(after)
        /\ \A k \in 1..(Len(bi) + Len(after)) :
             w[k] = IF k <= Len(bi) THEN bi[k] ELSE after[k - Len(bi)]
    BY <1>1, <2>1, ConcatProperties
  <2> HIDE DEF w
  <2> QED
    BY <2>1, <2>2
<1> HIDE DEF w
<1>5. /\ f \in Seq(Token) /\ Len(f) = n /\ \A x \in 1..n : f[x] = after[x]
      /\ l \in Seq(Token) /\ \A x \in 1..(Len(after) - n) : l[x] = after[n + x]
  <2>1. 0 \in Nat /\ 0 <= n /\ n - 0 = n /\ 0 + 1 = 1 /\ \A x \in 1..n : 0 + x = x
    BY <1>2
  <2>2. /\ SubSeq(after, 0 + 1, n) \in Seq(Token) /\ Len(SubSeq(after, 0 + 1, n)) = n - 0
        /\ \A x \in 1..(n - 0) : SubSeq(after, 0 + 1, n)[x] = after[0 + x]
    BY <1>1, <1>2, <2>1, PieceOf
  <2>3. /\ l \in Seq(Token) /\ \A x \in 1..(Len(after) - n) : l[x] = after[n + x]
    <3>1. Len(after) <= Len(after)
      BY <1>2
    <3> QED
      BY <1>1, <1>2, <3>1, PieceOf
  <2> QED
    BY <2>1, <2>2, <2>3
<1> HIDE DEF f, l
<1>6. q \in Nat /\ r \in Nat /\ q <= r /\ r <= q + Len(after) /\ p < q
  BY <1>2
<1>7. ASSUME NEW k \in 1..p
      PROVE  w[k] = before[k] /\ w[k].text \in FormTexts
  <2>1. k \in 1..q /\ k \in 1..(q + Len(after)) /\ k <= q /\ k <= p
    BY <1>2, <1>6
  <2>2. w[k] = before[k]
    BY <1>3, <1>4, <2>1
  <2>3. /\ TextsOf(before) \in Seq(STRING) /\ Len(TextsOf(before)) = p
        /\ TextsOf(before)[k] = before[k].text
    BY TextsOfName
  <2>4. TextsOf(before)[k] \in FormTexts
    BY <2>3, FormsAreFormTexts
  <2> QED
    BY <2>2, <2>3, <2>4
<1>8. ASSUME NEW k \in (p + 1)..q
      PROVE  w[k] = i[k - p]
  <2>1. k \in 1..q /\ k \in 1..(q + Len(after)) /\ k <= q /\ ~(k <= p)
    BY <1>2, <1>6
  <2> QED
    BY <1>3, <1>4, <2>1
<1>9. ASSUME NEW k \in (q + 1)..Len(w)
      PROVE  w[k] = after[k - q]
  <2>1. k \in 1..(q + Len(after)) /\ ~(k <= q)
    BY <1>4, <1>6
  <2> HIDE DEF q
  <2> QED
    BY <1>4, <2>1
<1>10. ASSUME NEW k \in (q + 1)..r
       PROVE  w[k] = f[k - q] /\ w[k].text \in FormTexts
  <2>1. k \in (q + 1)..Len(w) /\ k - q \in 1..n
    BY <1>2, <1>4, <1>6
  <2>2. w[k] = f[k - q]
    BY <1>5, <1>9, <2>1
  <2>3. f \in Names
    BY <1>5 DEF Names, Token
  <2>4. TextsOf(f) \in Seq(STRING) /\ Len(TextsOf(f)) = n /\ TextsOf(f)[k - q] = f[k - q].text
    BY <1>5, <2>1, <2>3, TextsOfName
  <2>5. IsForms(TextsOf(f))
    BY DEF f
  <2>6. TextsOf(f)[k - q] \in FormTexts
    BY <2>1, <2>4, <2>5, FormsAreFormTexts
  <2> QED
    BY <2>2, <2>4, <2>6
<1>11. ASSUME NEW k \in (r + 1)..Len(w)
       PROVE  w[k] = l[k - r]
  <2>1. k \in (q + 1)..Len(w) /\ k - r \in 1..(Len(after) - n) /\ n + (k - r) = k - q
    BY <1>2, <1>4, <1>6
  <2> QED
    BY <1>5, <1>9, <2>1
<1>12. w \in Names
  BY <1>4 DEF Names, Token
<1> HIDE DEF p, q, r
<1>13. p = Len(before) /\ q = p + Len(i) /\ r = q + n
  BY DEF p, q, r
<1>14. Parts(w, before, i, after, n, p, q, r)
  BY <1>2, <1>4, <1>7, <1>8, <1>9, <1>10, <1>11, <1>12, <1>13 DEF Parts, f, l
<1> QED
  BY <1>14 DEF p, q, r, w, bi

\* What the shapes say of the places of a whole name.
LEMMA PartsAreAround ==
  ASSUME NEW before, NEW i \in Issuers, NEW after, NEW n, NEW w, NEW p, NEW q, NEW r,
         Parts(w, before, i, after, n, p, q, r),
         after \in Names, IsListing(SubSeq(after, n + 1, Len(after))),
         i[Len(i)].text \in Letters /\ after # <<>> => after[1].text \notin CLASS_WORDS
  PROVE  \E c : Around(w, p, q, r, c)
<1> DEFINE l == SubSeq(after, n + 1, Len(after))
<1>1. /\ p \in Nat /\ q \in Nat /\ r \in Nat /\ n \in Nat /\ Len(w) \in Nat /\ Len(after) \in Nat
      /\ Len(i) \in Nat \ {0}
      /\ q = p + Len(i) /\ p < q /\ q <= r /\ r <= Len(w) /\ r = q + n /\ n <= Len(after)
      /\ Len(w) - r = Len(after) - n /\ Len(w) = q + Len(after)
  BY DEF Parts
<1>2. /\ w \in Names
      /\ \A k \in (p + 1)..q : w[k] = i[k - p]
      /\ \A k \in (r + 1)..Len(w) : w[k] = l[k - r]
      /\ \A k \in (q + 1)..Len(w) : w[k] = after[k - q]
      /\ \A k \in 1..p : w[k].text \in FormTexts
      /\ \A k \in (q + 1)..r : w[k].text \in FormTexts
  BY DEF Parts
<1>3. Len(l) = Len(w) - r
  <2>1. after \in Seq(Token) /\ Len(after) <= Len(after)
    BY <1>1 DEF Names, Token
  <2>2. Len(SubSeq(after, n + 1, Len(after))) = Len(after) - n
    <3> DEFINE m == Len(after)
    <3>1. m \in Nat /\ n \in Nat /\ n <= m /\ m <= Len(after)
      BY <1>1
    <3> HIDE DEF m
    <3>2. Len(SubSeq(after, n + 1, m)) = m - n
      BY <2>1, <3>1, PieceOf
    <3> QED
      BY <3>2 DEF m
  <2> QED
    BY <1>1, <2>2
<1>4. PICK cut \in 0..Len(l) :
        /\ cut < Len(l) => cut > 0 /\ l[cut].text \in NOMINAL_INTRODUCERS
        /\ \A k \in (cut + 1)..Len(l) : l[k].text \in NominalValues
        /\ \A k \in 1..cut :
             \/ l[k].text \in LISTING_DESCRIPTORS
             \/ /\ l[k].text \in Letters
                /\ \/ l[k].hyphenated
                   \/ k > 1 /\ l[k - 1].text \in CLASS_WORDS
                   \/ k < cut /\ l[k + 1].text \in CLASS_WORDS
  BY DEF IsListing
<1> HIDE DEF l
<1> DEFINE c == r + cut
<1>5. cut \in Nat /\ cut <= Len(l) /\ c \in Nat /\ r <= c /\ c <= Len(w) /\ c - r = cut
  BY <1>1, <1>3, <1>4
<1>6. /\ IsBare(i)
      /\ \A t \in NominalValues : t \notin LISTING_DESCRIPTORS \cup FormTexts
      /\ \A t \in Letters : t \notin LISTING_DESCRIPTORS \cup FormTexts
  BY NameShapes
<1>7. /\ \A t \in FormTexts : t \notin LISTING_DESCRIPTORS /\ t \notin CLASS_WORDS
                               /\ t \notin NOMINAL_INTRODUCERS /\ t \notin Letters
                               /\ t \notin NominalValues
  BY <1>6, KindsOfWords
<1>8. /\ i[Len(i)].text \notin FormTexts \cup LISTING_DESCRIPTORS
      /\ i[Len(i)].text \in Letters =>
           ~i[Len(i)].hyphenated /\ (Len(i) > 1 => i[Len(i) - 1].text \notin CLASS_WORDS)
      /\ \A k \in 1..(Len(i) - 1) :
           i[k].text \in NOMINAL_INTRODUCERS => i[k + 1].text \notin NominalValues
  BY <1>6 DEF IsBare
<1>9. w[q] = i[Len(i)]
  <2>1. q \in (p + 1)..q /\ q - p = Len(i)
    BY <1>1
  <2> QED
    BY <1>2, <2>1
<1>10. \A k \in (c + 1)..Len(w) : w[k].text \in NominalValues
  <2> TAKE k \in (c + 1)..Len(w)
  <2>1. k \in (r + 1)..Len(w) /\ k - r \in (cut + 1)..Len(l)
    <3>1. k \in Nat /\ c + 1 <= k /\ k <= Len(w) /\ c = r + cut
      BY <1>1, <1>5
    <3> HIDE DEF c
    <3> QED
      BY <1>1, <1>3, <1>5, <3>1
  <2> QED
    BY <1>2, <1>4, <2>1
<1>11. ASSUME c < Len(w)
       PROVE  w[c].text \in NOMINAL_INTRODUCERS
  <2>1. cut < Len(l)
    BY <1>1, <1>3, <1>5, <1>11
  <2>2. cut > 0 /\ l[cut].text \in NOMINAL_INTRODUCERS
    BY <1>4, <2>1
  <2>3. c \in (r + 1)..Len(w)
    BY <1>1, <1>5, <2>2
  <2> QED
    BY <1>2, <1>5, <2>2, <2>3
<1>12. ASSUME NEW k \in (r + 1)..c
       PROVE  \/ w[k].text \in LISTING_DESCRIPTORS
              \/ /\ w[k].text \in Letters
                 /\ \/ w[k].hyphenated
                    \/ w[k - 1].text \in CLASS_WORDS
                    \/ k < c /\ w[k + 1].text \in CLASS_WORDS
  <2> DEFINE x == k - r
  <2>1. k \in (r + 1)..Len(w) /\ x \in 1..cut /\ k \in Nat
    BY <1>1, <1>5
  <2>2. w[k] = l[x]
    BY <1>2, <2>1
  <2>3. x > 1 => w[k - 1] = l[x - 1]
    <3> SUFFICES ASSUME x > 1 PROVE w[k - 1] = l[x - 1]
      OBVIOUS
    <3>1. k - 1 \in (r + 1)..Len(w) /\ (k - 1) - r = x - 1
      BY <1>1, <2>1
    <3> QED
      BY <1>2, <3>1
  <2>4. x < cut => k < c /\ w[k + 1] = l[x + 1]
    <3> SUFFICES ASSUME x < cut PROVE k < c /\ w[k + 1] = l[x + 1]
      OBVIOUS
    <3>1. k < c /\ k + 1 \in (r + 1)..Len(w) /\ (k + 1) - r = x + 1
      BY <1>1, <1>5, <2>1
    <3> QED
      BY <1>2, <3>1
  <2> HIDE DEF x, c
  <2>5. \/ l[x].text \in LISTING_DESCRIPTORS
        \/ /\ l[x].text \in Letters
           /\ \/ l[x].hyphenated
              \/ x > 1 /\ l[x - 1].text \in CLASS_WORDS
              \/ x < cut /\ l[x + 1].text \in CLASS_WORDS
    BY <1>4, <2>1
  <2> QED
    BY <2>2, <2>3, <2>4, <2>5
<1>13. w[r].text \notin LISTING_DESCRIPTORS
  <2>1. CASE r = q
    BY <1>8, <1>9, <2>1
  <2>2. CASE q < r
    <3>1. r \in (q + 1)..r
      BY <1>1, <2>2
    <3> QED
      BY <1>2, <1>7, <3>1
  <2> QED
    BY <1>1, <2>1, <2>2
<1>14. ASSUME w[r].text \in Letters
       PROVE  /\ ~w[r].hyphenated
              /\ r > 1 => w[r - 1].text \notin CLASS_WORDS
              /\ r < Len(w) => w[r + 1].text \notin CLASS_WORDS
  <2>1. r = q
    <3> SUFFICES ASSUME q < r PROVE FALSE
      BY <1>1
    <3>1. r \in (q + 1)..r
      BY <1>1
    <3> QED
      BY <1>2, <1>7, <1>14, <3>1
  <2>2. ~w[r].hyphenated /\ i[Len(i)].text \in Letters
    BY <1>8, <1>9, <1>14, <2>1
  <2>3. ASSUME r > 1
        PROVE  w[r - 1].text \notin CLASS_WORDS
    <3>1. CASE Len(i) > 1
      <4>1. q - 1 \in (p + 1)..q /\ (q - 1) - p = Len(i) - 1
        BY <1>1, <3>1
      <4> QED
        BY <1>2, <1>8, <2>1, <2>2, <3>1, <4>1
    <3>2. CASE Len(i) = 1
      <4>1. r - 1 \in 1..p
        BY <1>1, <2>1, <2>3, <3>2
      <4> QED
        BY <1>2, <1>7, <4>1
    <3>3. Len(i) > 1 \/ Len(i) = 1
      <4>1. Len(i) \in Nat \ {0}
        BY <1>1
      <4> QED
        BY ONLY <4>1
    <3> QED
      BY <3>1, <3>2, <3>3
  <2>4. ASSUME r < Len(w)
        PROVE  w[r + 1].text \notin CLASS_WORDS
    <3>1. q + 1 \in (q + 1)..Len(w) /\ (q + 1) - q = 1 /\ Len(after) > 0
      BY <1>1, <2>1, <2>4
    <3>2. after # <<>>
      BY <3>1, EmptySeq
    <3>3. after[1].text \notin CLASS_WORDS
      BY <2>2, <3>2
    <3> QED
      BY <1>2, <2>1, <3>1, <3>3
  <2> QED
    BY <2>2, <2>3, <2>4
<1>15. ASSUME NEW k \in 1..(r - 1), w[k].text \in NOMINAL_INTRODUCERS
       PROVE  w[k + 1].text \notin NominalValues
  <2>1. k \in Nat /\ k > 0 /\ k < r
    BY <1>1
  <2>2. CASE k <= p
    <3>1. k \in 1..p
      BY <1>1, <2>1, <2>2
    <3> QED
      BY <1>2, <1>7, <1>15, <3>1
  <2>3. CASE p < k /\ k < q
    <3>1. /\ k \in (p + 1)..q /\ k + 1 \in (p + 1)..q /\ (k + 1) - p = (k - p) + 1
          /\ k - p \in 1..(Len(i) - 1)
      BY <1>1, <2>1, <2>3
    <3>2. w[k] = i[k - p] /\ w[k + 1] = i[(k - p) + 1]
      BY <1>2, <3>1
    <3> QED
      BY <1>8, <1>15, <3>1, <3>2
  <2>4. CASE q <= k
    <3>1. k + 1 \in (q + 1)..r
      BY <1>1, <2>1, <2>4
    <3> QED
      BY <1>2, <1>7, <3>1
  <2>5. k <= p \/ (p < k /\ k < q) \/ q <= k
    BY <1>1, <2>1
  <2> QED
    BY <2>2, <2>3, <2>4, <2>5
<1> HIDE DEF c
<1>16. Around(w, p, q, r, c)
  BY <1>1, <1>2, <1>5, <1>10, <1>11, <1>12, <1>13, <1>14, <1>15 DEF Around
<1> QED
  BY <1>16

\* What is left of a whole name without its listing is dressed in forms.
LEMMA PartsAreDressed ==
  ASSUME NEW before \in Names, NEW i \in Names, NEW after \in Names, NEW n \in 0..Len(after),
         NEW w, NEW p, NEW q, NEW r,
         Parts(w, before, i, after, n, p, q, r),
         IsForms(TextsOf(before)), IsForms(TextsOf(SubSeq(after, 1, n))),
         i[1].text \notin FormTexts, i[Len(i)].text \notin FormTexts
  PROVE  DropLegalForms(TextsOf(SubSeq(w, 1, r))) = TextsOf(i)
<1> DEFINE f == SubSeq(after, 1, n)
           v == SubSeq(w, 1, r)
           t == TextsOf(v)
<1>1. /\ p \in Nat /\ q \in Nat /\ r \in Nat /\ n \in Nat /\ Len(w) \in Nat /\ Len(i) \in Nat \ {0}
      /\ p = Len(before) /\ q = p + Len(i) /\ p < q /\ q <= r /\ r <= Len(w) /\ r = q + n
  BY DEF Parts
<1>2. /\ w \in Names
      /\ \A k \in 1..p : w[k] = before[k]
      /\ \A k \in (p + 1)..q : w[k] = i[k - p]
      /\ \A k \in (q + 1)..r : w[k] = f[k - q]
  BY DEF Parts
<1>3. v \in Names /\ Len(v) = r /\ \A k \in 1..r : v[k] = w[k]
  <2>1. 0 \in Nat /\ 0 <= r /\ r - 0 = r /\ 0 + 1 = 1 /\ \A k \in 1..r : 0 + k = k
    BY <1>1
  <2>2. w \in Seq(Token)
    BY <1>2 DEF Names, Token
  <2>3. /\ SubSeq(w, 0 + 1, r) \in Seq(Token) /\ Len(SubSeq(w, 0 + 1, r)) = r - 0
        /\ \A x \in 1..(r - 0) : SubSeq(w, 0 + 1, r)[x] = w[0 + x]
    BY <1>1, <2>1, <2>2, PieceOf
  <2>4. v \in Seq(Token)
    BY <2>1, <2>3
  <2> QED
    BY <2>1, <2>3, <2>4 DEF Names, Token
<1>4. f \in Names /\ Len(f) = n
  <2>1. 0 \in Nat /\ 0 <= n /\ n - 0 = n /\ 0 + 1 = 1 /\ n <= Len(after) /\ after \in Seq(Token)
    BY <1>1 DEF Parts, Names, Token
  <2>2. SubSeq(after, 0 + 1, n) \in Seq(Token) /\ Len(SubSeq(after, 0 + 1, n)) = n - 0
    BY <1>1, <2>1, PieceOf
  <2> QED
    BY <2>1, <2>2 DEF Names, Token
<1>5. t \in Seq(STRING) /\ Len(t) = r /\ \A k \in 1..r : t[k] = w[k].text
  <2> HIDE DEF v
  <2>1. /\ t \in Seq(STRING) /\ Len(t) = Len(v)
        /\ \A k \in 1..Len(v) : t[k] = v[k].text
    BY <1>3, TextsOfName
  <2> QED
    BY <1>3, <2>1
<1> HIDE DEF t, v
<1> DEFINE tb == TextsOf(before)
           tf == TextsOf(f)
           ti == TextsOf(i)
<1>6. /\ tb \in Seq(STRING) /\ Len(tb) = p /\ \A k \in 1..p : t[k] = tb[k]
  <2>1. /\ tb \in Seq(STRING) /\ Len(tb) = p /\ \A k \in 1..p : tb[k] = before[k].text
    BY <1>1, TextsOfName
  <2>2. \A k \in 1..p : k \in 1..r
    BY <1>1
  <2> HIDE DEF tb
  <2> QED
    BY <1>2, <1>5, <2>1, <2>2
<1>7. /\ tf \in Seq(STRING) /\ Len(tf) = n /\ \A x \in 1..n : t[q + x] = tf[x]
  <2> HIDE DEF f
  <2>1. /\ tf \in Seq(STRING) /\ Len(tf) = n /\ \A x \in 1..n : tf[x] = f[x].text
    BY <1>4, TextsOfName
  <2>2. \A x \in 1..n : q + x \in 1..r /\ q + x \in (q + 1)..r /\ (q + x) - q = x
    BY <1>1
  <2> HIDE DEF tf
  <2>3. ASSUME NEW x \in 1..n
        PROVE  t[q + x] = tf[x]
    <3>1. t[q + x] = w[q + x].text
      BY <1>5, <2>2
    <3>2. w[q + x] = f[x]
      BY <1>2, <2>2
    <3> QED
      BY <2>1, <3>1, <3>2
  <2> QED
    BY <2>1, <2>3
<1>8. /\ ti \in Seq(STRING) /\ Len(ti) = q - p /\ \A x \in 1..(q - p) : t[p + x] = ti[x]
  <2>1. q - p = Len(i)
    BY <1>1
  <2>2. /\ ti \in Seq(STRING) /\ Len(ti) = q - p /\ \A x \in 1..(q - p) : ti[x] = i[x].text
    BY <2>1, TextsOfName
  <2>3. \A x \in 1..(q - p) : p + x \in 1..r /\ p + x \in (p + 1)..q /\ (p + x) - p = x
    BY <1>1
  <2> HIDE DEF ti
  <2> QED
    BY <1>2, <1>5, <2>2, <2>3
<1>9. IsForms(tb) /\ IsForms(tf)
  OBVIOUS
<1> HIDE DEF f, tb, tf, ti
<1>10. PICK B \in SUBSET (0..p) : 0 \in B /\ p \in B /\ FormsBetween(tb, B)
  BY <1>6, <1>9 DEF IsForms
<1>11. PICK C \in SUBSET (0..n) : 0 \in C /\ n \in C /\ FormsBetween(tf, C)
  BY <1>7, <1>9 DEF IsForms
<1> DEFINE E == {q + e : e \in C}
<1>12. FormsBetween(t, B)
  <2> SUFFICES ASSUME NEW a \in B, NEW b \in B, a < b, \A c \in B : c <= a \/ b <= c
               PROVE  \E k \in DOMAIN LEGAL_FORMS : SubSeq(t, a + 1, b) = LEGAL_FORMS[k]
    BY DEF FormsBetween
  <2>1. \E k \in DOMAIN LEGAL_FORMS : SubSeq(tb, a + 1, b) = LEGAL_FORMS[k]
    BY <1>10 DEF FormsBetween
  <2>2. a \in Nat /\ b \in Nat /\ a <= b /\ b <= Len(t) /\ b <= Len(tb) /\ b - a = b - a
    BY <1>1, <1>5, <1>6, <1>10
  <2>3. \A x \in 1..(b - a) : t[a + x] = tb[a + x]
    <3> TAKE x \in 1..(b - a)
    <3>1. a + x \in 1..p
      BY <1>1, <1>6, <2>2
    <3> QED
      BY <1>6, <3>1
  <2>4. SubSeq(t, a + 1, b) = SubSeq(tb, a + 1, b)
    <3>1. Agree(t, a, b, tb, a, b)
      BY <2>2, <2>3 DEF Agree
    <3>2. SamePieces(t, a, b, tb, a, b)
      BY <1>5, <1>6, <3>1, SamePiece
    <3> QED
      BY <3>2 DEF SamePieces
  <2> QED
    BY <2>1, <2>4
<1>13. FormsBetween(t, E)
  <2> SUFFICES ASSUME NEW a \in E, NEW b \in E, a < b, \A c \in E : c <= a \/ b <= c
               PROVE  \E k \in DOMAIN LEGAL_FORMS : SubSeq(t, a + 1, b) = LEGAL_FORMS[k]
    BY DEF FormsBetween
  <2>1. PICK d \in C : a = q + d
    OBVIOUS
  <2>2. PICK e \in C : b = q + e
    OBVIOUS
  <2>3. d \in Nat /\ e \in Nat /\ e <= n /\ d < e
    BY <1>1, <1>11, <2>1, <2>2
  <2>4. \A c \in C : c <= d \/ e <= c
    <3> TAKE c \in C
    <3>1. q + c \in E /\ c \in Nat
      BY <1>1, <1>11
    <3>2. q + c <= q + d \/ q + e <= q + c
      BY <2>1, <2>2, <3>1
    <3> QED
      BY <1>1, <2>3, <3>1, <3>2
  <2> HIDE DEF E
  <2>5. \E k \in DOMAIN LEGAL_FORMS : SubSeq(tf, d + 1, e) = LEGAL_FORMS[k]
    BY <1>11, <2>3, <2>4 DEF FormsBetween
  <2>6. /\ a \in Nat /\ b \in Nat /\ a <= b /\ b <= Len(t) /\ e <= Len(tf) /\ e - d = b - a
    BY <1>1, <1>5, <1>7, <2>1, <2>2, <2>3
  <2>7. \A x \in 1..(b - a) : t[a + x] = tf[d + x]
    <3> TAKE x \in 1..(b - a)
    <3>1. d + x \in 1..n /\ q + (d + x) = a + x
      BY <1>1, <2>1, <2>2, <2>3
    <3> QED
      BY <1>7, <3>1
  <2>8. SubSeq(t, a + 1, b) = SubSeq(tf, d + 1, e)
    <3>1. t \in Seq(STRING) /\ tf \in Seq(STRING)
      BY <1>5, <1>7
    <3>2. d \in Nat /\ e \in Nat
      BY <2>3
    <3>3. Agree(t, a, b, tf, d, e)
      BY <2>6, <2>7, <3>2 DEF Agree
    <3>4. SamePieces(t, a, b, tf, d, e)
      BY <3>1, <3>3, SamePiece
    <3> QED
      BY <3>4 DEF SamePieces
  <2> QED
    BY <2>5, <2>8
<1>14. t[p + 1] \notin FormTexts /\ t[q] \notin FormTexts
  <2>1. /\ p + 1 \in 1..r /\ q \in 1..r /\ p + 1 \in (p + 1)..q /\ q \in (p + 1)..q
        /\ (p + 1) - p = 1 /\ q - p = Len(i)
    BY <1>1
  <2> QED
    BY <1>2, <1>5, <2>1
<1>15. E \in SUBSET (q..Len(t)) /\ q \in E /\ Len(t) \in E
  <2>1. \A e \in C : q + e \in q..Len(t)
    BY <1>1, <1>5, <1>11
  <2>2. q + 0 = q /\ q + n = Len(t)
    BY <1>1, <1>5
  <2> QED
    BY <1>11, <2>1, <2>2
<1> HIDE DEF E
<1>16. Dressed(STRING, t, p, q, B, E)
  BY <1>1, <1>5, <1>10, <1>12, <1>13, <1>14, <1>15 DEF Dressed
<1>17. DropLegalForms(t) = SubSeq(t, p + 1, q)
  BY <1>16, OnlyFormsGo
<1>18. SubSeq(t, p + 1, q) = SubSeq(ti, 0 + 1, q - p)
  <2>1. /\ 0 \in Nat /\ q - p \in Nat /\ (q - p) - 0 = q - p /\ q - p <= Len(ti) /\ p <= q
        /\ q <= Len(t)
        /\ \A x \in 1..(q - p) : 0 + x = x
    BY <1>1, <1>5, <1>8
  <2>2. \A x \in 1..(q - p) : t[p + x] = ti[0 + x]
    BY <1>8, <2>1
  <2>3. Agree(t, p, q, ti, 0, q - p)
    BY <1>1, <2>1, <2>2 DEF Agree
  <2>4. SamePieces(t, p, q, ti, 0, q - p)
    BY <1>5, <1>8, <2>3, SamePiece
  <2> QED
    BY <2>4 DEF SamePieces
<1>19. SubSeq(ti, 0 + 1, q - p) = ti
  <2>1. 0 + 1 = 1 /\ SubSeq(ti, 1, Len(ti)) = ti
    BY <1>8, SubSeqFull
  <2> QED
    BY <1>8, <2>1
<1> QED
  BY <1>17, <1>18, <1>19 DEF t, v, ti

\* Whatever is put around a name, the comparison is left with its words.
LEMMA TokensOfName ==
  ASSUME NEW i \in Issuers, NEW before \in Names, IsForms(TextsOf(before)),
         NEW after \in Names, NEW n \in 0..Len(after),
         IsForms(TextsOf(SubSeq(after, 1, n))), IsListing(SubSeq(after, n + 1, Len(after))),
         i[Len(i)].text \in Letters /\ after # <<>> => after[1].text \notin CLASS_WORDS
  PROVE  IssuerTokens(before \o i \o after) = TextsOf(i)
<1> DEFINE w == before \o i \o after
           p == Len(before)
           q == Len(before) + Len(i)
           r == Len(before) + Len(i) + n
<1>1. i \in Names /\ IsBare(i)
  BY NameShapes
<1>2. i[1].text \notin FormTexts /\ i[Len(i)].text \notin FormTexts
  BY <1>1 DEF IsBare
<1>3. i # <<>>
  <2>1. Len(i) > 0
    BY <1>1 DEF IsBare
  <2> QED
    BY <2>1, EmptySeq
<1>4. Parts(w, before, i, after, n, p, q, r)
  BY <1>1, <1>3, NameHasParts
<1> HIDE DEF w, p, q, r
<1>5. PICK c : Around(w, p, q, r, c)
  BY <1>4, PartsAreAround
<1>6. DropListingDescriptors(w) = SubSeq(w, 1, r)
  BY <1>5, ListingGoes
<1>7. DropLegalForms(TextsOf(SubSeq(w, 1, r))) = TextsOf(i)
  BY <1>1, <1>2, <1>4, PartsAreDressed
<1>8. IssuerTokens(w) = TextsOf(i)
  BY <1>6, <1>7 DEF IssuerTokens
<1> QED
  BY <1>8 DEF w

\* Nothing is an addition, too.
LEMMA NothingAround ==
  /\ <<>> \in Names
  /\ Len(<<>>) = 0
  /\ SubSeq(<<>>, 1, 0) = <<>>
  /\ IsForms(TextsOf(<<>>))
  /\ IsListing(<<>>)
<1>1. <<>> \in Names /\ Len(<<>>) = 0 /\ SubSeq(<<>>, 1, 0) = <<>>
  BY EmptySeq, SubSeqEmpty DEF Names
<1>2. Len(TextsOf(<<>>)) = 0
  BY <1>1, TextsOfName
<1>3. IsForms(TextsOf(<<>>))
  <2> DEFINE C == {0}
  <2>1. C \in SUBSET (0..0) /\ 0 \in C
    OBVIOUS
  <2>2. FormsBetween(TextsOf(<<>>), C)
    BY DEF FormsBetween
  <2> HIDE DEF C
  <2> QED
    BY <1>2, <2>1, <2>2 DEF IsForms
<1>4. IsListing(<<>>)
  BY <1>1 DEF IsListing
<1> QED
  BY <1>1, <1>3, <1>4

\* A name that stands alone is compared by its words.
LEMMA TokensOfIssuer ==
  ASSUME NEW i \in Issuers
  PROVE  IssuerTokens(i) = TextsOf(i)
<1>1. i \in Seq(Token)
  BY NameShapes DEF Names, Token
<1>2. <<>> \o i \o <<>> = i
  BY <1>1, ConcatEmptySeq
<1>3. SubSeq(<<>>, 1, 0) = <<>> /\ SubSeq(<<>>, 0 + 1, Len(<<>>)) = <<>> /\ 0 \in 0..Len(<<>>)
  BY NothingAround
<1>4. IssuerTokens(<<>> \o i \o <<>>) = TextsOf(i)
  BY <1>3, NothingAround, TokensOfName
<1> QED
  BY <1>2, <1>4

\* No name is taken for another, whatever is put around it.
LEMMA IssuersAreUnmistakable == Unmistakable = Issuers
<1> SUFFICES ASSUME NEW i \in Issuers, NEW j \in Issuers, NEW before \in Before,
                    NEW after \in After
             PROVE  SameIssuerIdentity(before \o i \o after, j)
                      <=> SameWords(TextsOf(i), TextsOf(j))
  BY DEF Unmistakable
<1>1. before \in Names /\ IsForms(TextsOf(before)) /\ after \in Names
  BY NameShapes
<1>2. PICK n \in 0..Len(after) :
        IsForms(TextsOf(SubSeq(after, 1, n))) /\ IsListing(SubSeq(after, n + 1, Len(after)))
  BY NameShapes
<1>3. i[Len(i)].text \in Letters /\ after # <<>> => after[1].text \notin CLASS_WORDS
  BY NameShapes
<1>4. IssuerTokens(before \o i \o after) = TextsOf(i)
  BY <1>1, <1>2, <1>3, TokensOfName
<1>5. IssuerTokens(j) = TextsOf(j)
  BY TokensOfIssuer
<1>6. ASSUME NEW k \in Issuers
      PROVE  TextsOf(k) # <<>>
  <2>1. k \in Names /\ Len(k) > 0
    BY NameShapes DEF IsBare
  <2>2. Len(TextsOf(k)) > 0
    BY <2>1, TextsOfName
  <2> QED
    BY <2>2, EmptySeq
<1>7. TextsOf(i) # <<>> /\ TextsOf(j) # <<>>
  BY <1>6
<1> QED
  BY <1>4, <1>5, <1>7 DEF SameIssuerIdentity

-------------------------------------------------------------------------------
(***************************************************************************)
(* The resolution.                                                         *)
(***************************************************************************)

\* Which tickers get how far.
AskedInv ==
  \A p \in Procs :
    /\ stage[p] = "idle" => ticker[p] = None
    /\ stage[p] # "idle" => ticker[p] \in Tickers
    /\ stage[p] \in {"lookup", "identify", "lines", "load", "write", "replace"} =>
         ticker[p] \in EuTickers
    /\ stage[p] = "lines" => Truth[ticker[p]] # "no_such_symbol"
    /\ stage[p] = "cik" /\ ticker[p] \in EuTickers =>
         Truth[ticker[p]] \notin {"no_such_symbol", "no_us_line"}
    /\ stage[p] = "form" => Truth[ticker[p]] \in {"filing", "no_annual_form"}
    /\ stage[p] # "answered" => answer[p] = None

\* Every entry is sayable.
AllSayable(entries) == \A t \in EuTickers : entries[t] # None => Sayable(t, entries[t])

SaidInv ==
  /\ \A p \in Procs : stage[p] \in {"load", "write", "replace"} => Sayable(ticker[p], verdict[p])
  /\ \A p \in Procs : copy[p] # None => AllSayable(copy[p])
  /\ tmp # None => AllSayable(tmp)
  /\ AllSayable(cache)
  /\ \A p \in Procs : answer[p] \in IssuerVerdicts => Sayable(ticker[p], answer[p])

ResInv == TypeOK /\ AskedInv /\ SaidInv

USE ResolutionConstants

-----------------------------------------------------------------------------
\* What was sayable stays sayable: a failed map is never replaced.
LEMMA SayableStays ==
  ASSUME TypeOK, Next, NEW t, NEW v, Sayable(t, v)
  PROVE  Sayable(t, v)'
<1>1. \A q \in Procs : map[q] = "failed" => map'[q] = "failed"
  BY DEF TypeOK, Next, ResolveStep, Ask, Lookup, Identify, Lines, NoAnchor, LoadMap, FindCik,
         DetectForm, SourceFails, Blank, CacheLoad, CacheWrite, CacheReplace, CacheFails, Kill,
         Expire
<1>2. blank => blank'
  BY DEF TypeOK, Next, ResolveStep, Ask, Lookup, Identify, Lines, NoAnchor, LoadMap, FindCik,
         DetectForm, SourceFails, Blank, CacheLoad, CacheWrite, CacheReplace, CacheFails, Kill,
         Expire
<1> QED BY <1>1, <1>2 DEF Sayable

\* Types.
LEMMA TypeStep ==
  ASSUME TypeOK, AskedInv, Next
  PROVE  TypeOK'
<1> USE DEF TypeOK, Fault, Goto, Answer, Conclude, Stages, Errors
<1>1. ASSUME NEW p \in Procs, NEW t \in Tickers, Ask(p, t) PROVE TypeOK'
  BY <1>1 DEF Ask, Verdicts, IssuerVerdicts, Tickers
<1>2. ASSUME NEW p \in Procs, Lookup(p) PROVE TypeOK'
  BY <1>2 DEF Lookup, AskedInv, Entries, IssuerVerdicts
<1>3. ASSUME NEW p \in Procs, Identify(p) PROVE TypeOK'
  BY <1>3 DEF Identify, Verdicts
<1>4. ASSUME NEW p \in Procs, Lines(p) PROVE TypeOK'
  BY <1>4 DEF Lines, IssuerVerdicts, Verdicts
<1>5. ASSUME NEW p \in Procs, NoAnchor(p) PROVE TypeOK'
  BY <1>5 DEF NoAnchor
<1>6. ASSUME NEW p \in Procs, LoadMap(p) PROVE TypeOK'
  BY <1>6 DEF LoadMap
<1>7. ASSUME NEW p \in Procs, FindCik(p) PROVE TypeOK'
  BY <1>7 DEF FindCik, IssuerVerdicts, Verdicts, Tickers
<1>8. ASSUME NEW p \in Procs, DetectForm(p) PROVE TypeOK'
  BY <1>8 DEF DetectForm, IssuerVerdicts, Verdicts
<1>9. ASSUME NEW p \in Procs, SourceFails(p) PROVE TypeOK'
  BY <1>9 DEF SourceFails
<1>10. ASSUME NEW p \in Procs, CacheLoad(p) PROVE TypeOK'
  <2>1. [cache EXCEPT ![ticker[p]] = verdict[p]] \in Entries
    BY <1>10 DEF CacheLoad, AskedInv, Entries
  <2> QED BY <1>10, <2>1 DEF CacheLoad
<1>11. ASSUME NEW p \in Procs, CacheWrite(p) PROVE TypeOK'
  BY <1>11 DEF CacheWrite
<1>12. ASSUME NEW p \in Procs, CacheReplace(p) PROVE TypeOK'
  BY <1>12 DEF CacheReplace, IssuerVerdicts
<1>13. ASSUME NEW p \in Procs, CacheFails(p) PROVE TypeOK'
  BY <1>13 DEF CacheFails
<1>14. ASSUME NEW p \in Procs, Kill(p) PROVE TypeOK'
  BY <1>14 DEF Kill
<1>15. ASSUME NEW t \in EuTickers, Expire(t) PROVE TypeOK'
  <2> DEFINE without(e) == IF e = None THEN None ELSE [e EXCEPT ![t] = None]
  <2>1. ASSUME NEW e \in Entries \cup {None} PROVE without(e) \in Entries \cup {None}
    BY <2>1 DEF Entries
  <2>2. [cache EXCEPT ![t] = None] \in Entries
    BY DEF Entries
  <2>3. copy' = [q \in Procs |-> without(copy[q])]
    BY <1>15 DEF Expire
  <2>4. cache' = [cache EXCEPT ![t] = None] /\ tmp' = without(tmp)
    BY <1>15 DEF Expire
  <2>5. copy' \in [Procs -> Entries \cup {None}]
    BY <2>1, <2>3
  <2>6. tmp' \in Entries \cup {None}
    BY <2>1, <2>4
  <2>7. UNCHANGED <<stage, ticker, map, verdict, answer, blank, faults>>
    BY <1>15 DEF Expire
  <2> QED BY <2>2, <2>4, <2>5, <2>6, <2>7
<1>16. ASSUME NEW p \in Procs, Blank(p) PROVE TypeOK'
  BY <1>16 DEF Blank, IssuerVerdicts, Verdicts
<1> QED
  BY <1>1, <1>2, <1>3, <1>4, <1>5, <1>6, <1>7, <1>8, <1>9, <1>10, <1>11, <1>12, <1>13, <1>14,
     <1>15, <1>16 DEF Next, ResolveStep

\* Where the tickers are.
LEMMA AskedStep ==
  ASSUME TypeOK, AskedInv, SaidInv, Next
  PROVE  AskedInv'
<1> USE DEF TypeOK, AskedInv, Fault, Goto, Answer, Conclude, Stages, Tickers
<1>1. ASSUME NEW p \in Procs, NEW t \in Tickers, Ask(p, t) PROVE AskedInv'
  <2>1. t \notin EuTickers => Truth[t] \in {"filing", "no_annual_form", "no_such_symbol"}
    OBVIOUS
  <2> QED BY <1>1, <2>1 DEF Ask
<1>2. ASSUME NEW p \in Procs, Lookup(p) PROVE AskedInv'
  BY <1>2 DEF Lookup
<1>3. ASSUME NEW p \in Procs, Identify(p) PROVE AskedInv'
  BY <1>3 DEF Identify
<1>4. ASSUME NEW p \in Procs, Lines(p) PROVE AskedInv'
  BY <1>4 DEF Lines
<1>5. ASSUME NEW p \in Procs, NoAnchor(p) PROVE AskedInv'
  BY <1>5 DEF NoAnchor
<1>6. ASSUME NEW p \in Procs, LoadMap(p) PROVE AskedInv'
  BY <1>6 DEF LoadMap
<1>7. ASSUME NEW p \in Procs, FindCik(p) PROVE AskedInv'
  BY <1>7 DEF FindCik, HasCik
<1>8. ASSUME NEW p \in Procs, DetectForm(p) PROVE AskedInv'
  BY <1>8 DEF DetectForm
<1>9. ASSUME NEW p \in Procs, SourceFails(p) PROVE AskedInv'
  BY <1>9 DEF SourceFails
<1>10. ASSUME NEW p \in Procs, CacheLoad(p) PROVE AskedInv'
  BY <1>10 DEF CacheLoad
<1>11. ASSUME NEW p \in Procs, CacheWrite(p) PROVE AskedInv'
  BY <1>11 DEF CacheWrite
<1>12. ASSUME NEW p \in Procs, CacheReplace(p) PROVE AskedInv'
  BY <1>12 DEF CacheReplace
<1>13. ASSUME NEW p \in Procs, CacheFails(p) PROVE AskedInv'
  BY <1>13 DEF CacheFails
<1>14. ASSUME NEW p \in Procs, Kill(p) PROVE AskedInv'
  BY <1>14 DEF Kill
<1>15. ASSUME NEW t \in EuTickers, Expire(t) PROVE AskedInv'
  BY <1>15 DEF Expire
<1>16. ASSUME NEW p \in Procs, Blank(p) PROVE AskedInv'
  BY <1>16 DEF Blank
<1> QED
  BY <1>1, <1>2, <1>3, <1>4, <1>5, <1>6, <1>7, <1>8, <1>9, <1>10, <1>11, <1>12, <1>13, <1>14,
     <1>15, <1>16 DEF Next, ResolveStep

-----------------------------------------------------------------------------
\* A process that has just found v out may cache it or answer it.
LEMMA ConcludeSaid ==
  ASSUME TypeOK, AskedInv, SaidInv, Next,
         NEW p \in Procs, NEW v, stage[p] \in {"lines", "cik", "form"},
         Sayable(ticker[p], v) \/ Sayable(ticker[p], v)', Conclude(p, v),
         UNCHANGED <<ticker, map, copy, cache, tmp>>
  PROVE  SaidInv'
<1>1. \A t, w : Sayable(t, w) => Sayable(t, w)'
  BY SayableStays
<1>2. AllSayable(cache)' /\ (\A q \in Procs : copy'[q] # None => AllSayable(copy[q])')
  BY <1>1 DEF SaidInv, AllSayable
<1>3. tmp' # None => AllSayable(tmp)'
  BY <1>1 DEF SaidInv, AllSayable
<1>4. \A q \in Procs : stage'[q] \in {"load", "write", "replace"} => Sayable(ticker[q], verdict[q])'
  BY <1>1 DEF SaidInv, Conclude, Answer, TypeOK
<1>5. \A q \in Procs : answer'[q] \in IssuerVerdicts => Sayable(ticker[q], answer[q])'
  BY <1>1 DEF SaidInv, Conclude, Answer, TypeOK
<1> QED BY <1>2, <1>3, <1>4, <1>5 DEF SaidInv

\* A process that leaves what is said alone, and answers nothing about an issuer or what
\* may be said of it.
LEMMA OtherSaid ==
  ASSUME TypeOK, AskedInv, SaidInv, Next,
         UNCHANGED <<verdict, copy, cache, tmp>>,
         \A q \in Procs : stage'[q] \in {"load", "write", "replace"} =>
           stage[q] \in {"load", "write", "replace"} /\ ticker'[q] = ticker[q],
         \A q \in Procs : answer'[q] \in IssuerVerdicts =>
           \/ Sayable(ticker'[q], answer'[q])
           \/ answer'[q] = answer[q] /\ ticker'[q] = ticker[q]
  PROVE  SaidInv'
<1>1. \A t, w : Sayable(t, w) => Sayable(t, w)'
  BY SayableStays
<1>2. AllSayable(cache)' /\ (\A q \in Procs : copy'[q] # None => AllSayable(copy[q])')
  BY <1>1 DEF SaidInv, AllSayable
<1>3. tmp' # None => AllSayable(tmp)'
  BY <1>1 DEF SaidInv, AllSayable
<1>4. \A q \in Procs : stage'[q] \in {"load", "write", "replace"} => Sayable(ticker[q], verdict[q])'
  BY <1>1 DEF SaidInv
<1>5. \A q \in Procs : answer'[q] \in IssuerVerdicts => Sayable(ticker[q], answer[q])'
  <2> TAKE q \in Procs
  <2> HAVE answer'[q] \in IssuerVerdicts
  <2>1. CASE Sayable(ticker'[q], answer'[q])
    BY <2>1, <1>1
  <2>2. CASE answer'[q] = answer[q] /\ ticker'[q] = ticker[q]
    BY <2>2, <1>1 DEF SaidInv
  <2> QED BY <2>1, <2>2
<1> QED BY <1>2, <1>3, <1>4, <1>5 DEF SaidInv

\* Wherever a step carries a verdict, it may be said of its ticker.
LEMMA SaidStep ==
  ASSUME TypeOK, AskedInv, SaidInv, Next
  PROVE  SaidInv'
<1>1. \A t, w : Sayable(t, w) => Sayable(t, w)'
  BY SayableStays
<1>2. ASSUME NEW p \in Procs, NEW t \in Tickers, Ask(p, t) PROVE SaidInv'
  <2>1. Table[t] # None => Sayable(t, Table[t])
    BY DEF Sayable
  <2>2. answer[p] = None /\ None \notin IssuerVerdicts
    BY <1>2 DEF Ask, AskedInv, IssuerVerdicts
  <2>3. ticker' = [ticker EXCEPT ![p] = t] /\ UNCHANGED <<map, verdict, copy, cache, tmp>>
    BY <1>2 DEF Ask
  <2>4. \A q \in Procs : stage'[q] \in {"load", "write", "replace"} =>
          stage[q] \in {"load", "write", "replace"} /\ ticker'[q] = ticker[q]
    BY <1>2 DEF Ask, Answer, TypeOK
  <2>5. \A q \in Procs : answer'[q] \in IssuerVerdicts =>
          \/ Sayable(ticker'[q], answer'[q])
          \/ answer'[q] = answer[q] /\ ticker'[q] = ticker[q]
    BY <1>2, <2>1, <2>2 DEF Ask, Answer, TypeOK
  <2> QED BY <2>3, <2>4, <2>5, OtherSaid
<1>3. ASSUME NEW p \in Procs, Lookup(p) PROVE SaidInv'
  <2>1. ticker[p] \in EuTickers
    BY <1>3 DEF Lookup, AskedInv
  <2>2. cache[ticker[p]] # None => Sayable(ticker[p], cache[ticker[p]])
    BY <2>1 DEF SaidInv, AllSayable
  <2> QED BY <1>3, <2>2, OtherSaid DEF Lookup, Answer, Goto, TypeOK
<1>4. ASSUME NEW p \in Procs, Identify(p) PROVE SaidInv'
  BY <1>4, OtherSaid DEF Identify, Answer, Goto, TypeOK, IssuerVerdicts
<1>5. ASSUME NEW p \in Procs, Lines(p) PROVE SaidInv'
  <2>1. CASE Truth[ticker[p]] = "no_us_line"
    BY <1>5, <2>1, ConcludeSaid DEF Lines, Sayable
  <2>2. CASE Truth[ticker[p]] # "no_us_line"
    BY <1>5, <2>2, OtherSaid DEF Lines, Goto, TypeOK
  <2> QED BY <2>1, <2>2
<1>6. ASSUME NEW p \in Procs, NoAnchor(p) PROVE SaidInv'
  BY <1>6, OtherSaid DEF NoAnchor, Answer, TypeOK, IssuerVerdicts, Verdicts
<1>7. ASSUME NEW p \in Procs, LoadMap(p) PROVE SaidInv'
  BY <1>7, OtherSaid DEF LoadMap
<1>8. ASSUME NEW p \in Procs, FindCik(p) PROVE SaidInv'
  <2>1. CASE HasCik(p) /\ Goto(p, "cik", "form") /\ UNCHANGED <<verdict, answer>>
    BY <1>8, <2>1, OtherSaid DEF FindCik, Goto, TypeOK
  <2>2. CASE ~HasCik(p) /\ ticker[p] \in EuTickers /\ Conclude(p, "not_sec_registrant")
    <3>1. Sayable(ticker[p], "not_sec_registrant")
      <4>1. map[p] \in {"loaded", "failed"}
        BY <1>8 DEF FindCik, TypeOK
      <4>2. CASE map[p] = "failed"
        BY <2>2, <4>2 DEF Sayable
      <4>3. CASE map[p] = "loaded"
        <5>1. Truth[ticker[p]] \notin {"filing", "no_annual_form"}
          BY <2>2, <4>3 DEF HasCik
        <5>2. Truth[ticker[p]] \notin {"no_such_symbol", "no_us_line"}
          BY <1>8, <2>2 DEF FindCik, AskedInv
        <5>3. Truth[ticker[p]] \in IssuerVerdicts \cup {"no_such_symbol"}
          BY <2>2 DEF Tickers
        <5> QED BY <5>1, <5>2, <5>3 DEF Sayable, IssuerVerdicts, Verdicts
      <4> QED BY <4>1, <4>2, <4>3
    <3> QED BY <1>8, <2>2, <3>1, ConcludeSaid DEF FindCik
  <2>3. CASE ~HasCik(p) /\ ticker[p] \in UsTickers /\ Answer(p, "symbol_error") /\ UNCHANGED verdict
    BY <1>8, <2>3, OtherSaid DEF FindCik, Answer, TypeOK, IssuerVerdicts, Verdicts
  <2> QED BY <1>8, <2>1, <2>2, <2>3 DEF FindCik
<1>9. ASSUME NEW p \in Procs, DetectForm(p) PROVE SaidInv'
  <2>1. Sayable(ticker[p], IF Truth[ticker[p]] = "filing" THEN "filing" ELSE "no_annual_form")
    BY <1>9 DEF DetectForm, AskedInv, Sayable
  <2> QED BY <1>9, <2>1, ConcludeSaid DEF DetectForm
<1>10. ASSUME NEW p \in Procs, SourceFails(p) PROVE SaidInv'
  BY <1>10, OtherSaid DEF SourceFails, Answer, TypeOK, IssuerVerdicts, Verdicts
<1>11. ASSUME NEW p \in Procs, CacheLoad(p) PROVE SaidInv'
  <2> DEFINE new == [cache EXCEPT ![ticker[p]] = verdict[p]]
  <2>1. AllSayable(new)
    BY <1>11 DEF CacheLoad, Goto, SaidInv, AllSayable, TypeOK, Entries
  <2>2. copy' = [copy EXCEPT ![p] = new] /\ UNCHANGED <<ticker, map, verdict, answer, cache, tmp>>
    BY <1>11 DEF CacheLoad
  <2>3. \A q \in Procs : copy'[q] # None => AllSayable(copy[q])'
    BY <2>1, <2>2, <1>1 DEF SaidInv, AllSayable, TypeOK
  <2>4. AllSayable(cache)' /\ (tmp' # None => AllSayable(tmp)')
    BY <2>2, <1>1 DEF SaidInv, AllSayable
  <2>5. \A q \in Procs : stage'[q] \in {"load", "write", "replace"} => Sayable(ticker[q], verdict[q])'
    BY <1>11, <2>2, <1>1 DEF CacheLoad, Goto, SaidInv, TypeOK
  <2>6. \A q \in Procs : answer'[q] \in IssuerVerdicts => Sayable(ticker[q], answer[q])'
    BY <2>2, <1>1 DEF SaidInv
  <2> QED BY <2>3, <2>4, <2>5, <2>6 DEF SaidInv
<1>12. ASSUME NEW p \in Procs, CacheWrite(p) PROVE SaidInv'
  <2>1. tmp' = copy[p] /\ UNCHANGED <<ticker, map, verdict, copy, answer, cache>>
    BY <1>12 DEF CacheWrite
  <2>2. AllSayable(cache)' /\ (\A q \in Procs : copy'[q] # None => AllSayable(copy[q])')
    BY <2>1, <1>1 DEF SaidInv, AllSayable
  <2>3. tmp' # None => AllSayable(tmp)'
    BY <2>1, <1>1 DEF SaidInv, AllSayable
  <2>4. \A q \in Procs : stage'[q] \in {"load", "write", "replace"} => Sayable(ticker[q], verdict[q])'
    BY <1>12, <2>1, <1>1 DEF CacheWrite, Goto, SaidInv, TypeOK
  <2>5. \A q \in Procs : answer'[q] \in IssuerVerdicts => Sayable(ticker[q], answer[q])'
    BY <2>1, <1>1 DEF SaidInv
  <2> QED BY <2>2, <2>3, <2>4, <2>5 DEF SaidInv
<1>13. ASSUME NEW p \in Procs, CacheReplace(p) PROVE SaidInv'
  <2>1. UNCHANGED <<ticker, map, verdict, copy>>
    BY <1>13 DEF CacheReplace
  <2>2. AllSayable(cache)' /\ (tmp' # None => AllSayable(tmp)')
    BY <1>13, <1>1 DEF CacheReplace, SaidInv, AllSayable
  <2>3. \A q \in Procs : copy'[q] # None => AllSayable(copy[q])'
    BY <2>1, <1>1 DEF SaidInv, AllSayable
  <2>4. \A q \in Procs : stage'[q] \in {"load", "write", "replace"} => Sayable(ticker[q], verdict[q])'
    BY <1>13, <2>1, <1>1 DEF CacheReplace, Answer, SaidInv, TypeOK
  <2>5. \A q \in Procs : answer'[q] \in IssuerVerdicts => Sayable(ticker[q], answer[q])'
    BY <1>13, <2>1, <1>1 DEF CacheReplace, Answer, SaidInv, TypeOK, IssuerVerdicts, Verdicts
  <2> QED BY <2>2, <2>3, <2>4, <2>5 DEF SaidInv
<1>14. ASSUME NEW p \in Procs, CacheFails(p) PROVE SaidInv'
  BY <1>14, OtherSaid DEF CacheFails, Answer, TypeOK, IssuerVerdicts, Verdicts
<1>15. ASSUME NEW p \in Procs, Kill(p) PROVE SaidInv'
  BY <1>15, OtherSaid DEF Kill, Answer, TypeOK, IssuerVerdicts, Verdicts
<1>16. ASSUME NEW t \in EuTickers, Expire(t) PROVE SaidInv'
  <2> DEFINE without(e) == IF e = None THEN None ELSE [e EXCEPT ![t] = None]
  <2>1. ASSUME NEW e \in Entries \cup {None}, e # None => AllSayable(e), without(e) # None
        PROVE  AllSayable(without(e))
    BY <2>1 DEF AllSayable, Entries
  <2>2. /\ cache' = [cache EXCEPT ![t] = None]
        /\ tmp' = without(tmp)
        /\ copy' = [q \in Procs |-> without(copy[q])]
        /\ UNCHANGED <<stage, ticker, map, verdict, answer>>
    BY <1>16 DEF Expire
  <2> HIDE DEF without
  <2>3. \A e : AllSayable(e) => (\A u \in EuTickers : e[u] # None => Sayable(u, e[u])')
    BY <1>1 DEF AllSayable
  <2>4. \A q \in Procs : copy'[q] # None => AllSayable(copy[q])'
    <3> TAKE q \in Procs
    <3> HAVE copy'[q] # None
    <3>1. copy'[q] = without(copy[q])
      BY <2>2
    <3>2. AllSayable(without(copy[q]))
      BY <2>1, <3>1 DEF SaidInv, TypeOK
    <3> QED BY <3>1, <3>2, <2>3 DEF AllSayable
  <2>5. tmp' # None => AllSayable(tmp)'
    <3> HAVE tmp' # None
    <3>1. AllSayable(without(tmp))
      BY <2>1, <2>2 DEF SaidInv, TypeOK
    <3> QED BY <3>1, <2>2, <2>3 DEF AllSayable
  <2>6. AllSayable(cache)'
    BY <2>2, <1>1 DEF SaidInv, AllSayable, TypeOK, Entries
  <2>7. \A q \in Procs : stage'[q] \in {"load", "write", "replace"} => Sayable(ticker[q], verdict[q])'
    BY <2>2, <1>1 DEF SaidInv
  <2>8. \A q \in Procs : answer'[q] \in IssuerVerdicts => Sayable(ticker[q], answer[q])'
    BY <2>2, <1>1 DEF SaidInv
  <2> QED BY <2>4, <2>5, <2>6, <2>7, <2>8 DEF SaidInv
<1>17. ASSUME NEW p \in Procs, Blank(p) PROVE SaidInv'
  <2>1. blank' = TRUE /\ UNCHANGED <<ticker, map, copy, cache, tmp>>
    BY <1>17 DEF Blank
  <2>2. Sayable(ticker[p], "no_annual_form")' /\ Sayable(ticker[p], "no_us_line")'
    BY <2>1 DEF Sayable
  <2>3. CASE stage[p] = "form"
    <3>1. Conclude(p, "no_annual_form")
      BY <1>17, <2>3 DEF Blank
    <3> QED BY <2>1, <2>2, <2>3, <3>1, ConcludeSaid
  <2>4. CASE stage[p] = "lines"
    <3>1. Conclude(p, "no_us_line")
      BY <1>17, <2>4 DEF Blank
    <3> QED BY <2>1, <2>2, <2>4, <3>1, ConcludeSaid
  <2> QED BY <1>17, <2>3, <2>4 DEF Blank
<1> QED
  BY <1>2, <1>3, <1>4, <1>5, <1>6, <1>7, <1>8, <1>9, <1>10, <1>11, <1>12, <1>13, <1>14, <1>15,
     <1>16, <1>17 DEF Next, ResolveStep

-----------------------------------------------------------------------------
\* What holds before anything has been asked.
LEMMA ResInvInit == Init => ResInv
<1> SUFFICES ASSUME Init PROVE ResInv
  OBVIOUS
<1>1. TypeOK
  <2>1. cache \in Entries
    BY DEF Init, Entries
  <2>2. stage \in [Procs -> Stages] /\ faults \in 0..MaxFaults
    BY ResolutionConstants DEF ResolutionConstants, Init, Stages
  <2>3. /\ ticker \in [Procs -> Tickers \cup {None}]
        /\ verdict \in [Procs -> IssuerVerdicts \cup {None}]
        /\ copy \in [Procs -> Entries \cup {None}]
        /\ answer \in [Procs -> Verdicts \cup Errors \cup {None}]
        /\ tmp \in Entries \cup {None}
    BY DEF Init
  <2>4. map \in [Procs -> {"unloaded", "loaded", "failed"}] /\ blank \in BOOLEAN
    BY DEF Init
  <2> QED BY <2>1, <2>2, <2>3, <2>4 DEF TypeOK
<1>2. AskedInv
  BY DEF Init, AskedInv
<1>3. SaidInv
  <2>1. AllSayable(cache)
    BY DEF Init, AllSayable
  <2>2. None \notin IssuerVerdicts
    BY ResolutionConstants DEF ResolutionConstants, IssuerVerdicts
  <2> QED BY <2>1, <2>2 DEF Init, SaidInv
<1> QED BY <1>1, <1>2, <1>3 DEF ResInv

\* The inductive invariant of the resolution.
THEOREM ResolutionInvariantHolds == Spec => []ResInv
<1>1. Init => ResInv
  BY ResInvInit
<1>2. ResInv /\ [Next]_resVars => ResInv'
  <2> SUFFICES ASSUME ResInv, [Next]_resVars PROVE ResInv'
    OBVIOUS
  <2>1. CASE Next
    BY <2>1, TypeStep, AskedStep, SaidStep DEF ResInv
  <2>2. CASE UNCHANGED resVars
    BY <2>2 DEF resVars, ResInv, TypeOK, AskedInv, SaidInv, AllSayable, Sayable
  <2> QED BY <2>1, <2>2
<1> QED BY <1>1, <1>2, PTL DEF Spec

\* Every variable of the resolution keeps its type, a cached verdict being one about an
\* issuer.
THEOREM ResolutionTypeCorrect == Spec => []TypeOK
<1>1. ResInv => TypeOK
  BY DEF ResInv
<1> QED BY <1>1, ResolutionInvariantHolds, PTL

\* Whatever fails, is killed, expires or races for the cache file, a verdict about an
\* issuer is true, unless it says "no registrant" and some process lacked the ticker map, or
\* an answer without its data was taken for an empty one.
THEOREM VerdictsAreTrue == Spec => []WrongOnlyIfBlind
<1>1. ResInv => WrongOnlyIfBlind
  BY DEF ResInv, SaidInv, AllSayable, WrongOnlyIfBlind
<1> QED BY <1>1, ResolutionInvariantHolds, PTL

\* A process that goes on with a verified identity has that of its symbol: whatever the two
\* sources put around the name, it is taken for this issuer and for no other. The process
\* has asked for a dotted symbol (AskedInv), whose names are among the issuers, and of these
\* none is mistaken.
THEOREM OnlyTheIssuerIsTaken == Spec => []OnlyTheIssuerCounts
<1>1. ResInv => OnlyTheIssuerCounts
  <2> SUFFICES ASSUME ResInv, NEW p \in Procs, stage[p] = "lines"
               PROVE  NamesOf[ticker[p]] \subseteq Unmistakable
    BY DEF OnlyTheIssuerCounts
  <2>1. ticker[p] \in EuTickers
    BY DEF ResInv, AskedInv
  <2>2. \A t \in EuTickers : NamesOf[t] \subseteq Issuers
    BY NameShapes
  <2> QED
    BY <2>1, <2>2, IssuersAreUnmistakable
<1> QED BY <1>1, ResolutionInvariantHolds, PTL

-------------------------------------------------------------------------------
(***************************************************************************)
(* The command line.                                                       *)
(***************************************************************************)

\* Steps between the filing and the end of a run.
Working == {"quant", "peers", "gemini", "contract", "dossier", "dossier_open", "publish"}

\* What a run holds and has left behind, by how far it is.
RunOK(p) ==
  /\ step[p] # "idle" => stage[p] # "idle"
  /\ step[p] \notin {"idle", "resolving"} => stage[p] = "answered"
  /\ step[p] \in {"filing", "doc", "doc_open", "meta"} => answer[p] = "filing"
  /\ step[p] \in Working => answer[p] \in Verdicts
  /\ step[p] \in Working /\ text[p] = None => answer[p] # "filing"
  /\ step[p] \in {"idle", "resolving", "filing"} => text[p] = None
  /\ step[p] \in {"doc", "doc_open", "meta"} => text[p] # None
  /\ text[p] # None => answer[p] = "filing"
  /\ ended[p] # None => step[p] = "done"
  /\ paid[p] => /\ step[p] \in {"contract", "dossier", "dossier_open", "publish", "done"}
                /\ ended[p] \notin {"DeepDiveError", "DataSourceError"}
  /\ step[p] \in {"doc", "doc_open"} => ~meta[ticker[p]]
  /\ step[p] = "meta" => doc[ticker[p]] = "whole"
  /\ step[p] = "dossier_open" => dossier[ticker[p]] = Own(p, FALSE)
  /\ step[p] = "publish" => dossier[ticker[p]] = Own(p, TRUE)

RunInv == \A p \in Runs : RunOK(p)

OneActive == \A p, q \in Runs : Active(p) /\ Active(q) => p = q

CacheInv == \A t \in Tickers : meta[t] => doc[t] = "whole"

\* The dossier d for t is one its run can have written.
DossierOK(t, d) ==
  /\ ticker[d.by] = t
  /\ step[d.by] \in {"dossier_open", "publish", "done"}
  /\ d.full <=> text[d.by] # None
  /\ d.full <=> answer[d.by] = "filing"
  /\ answer[d.by] \in Verdicts
  /\ d.whole => step[d.by] # "dossier_open" /\ ended[d.by] \in {"ok", "killed", None}

DossierInv == \A t \in Tickers : dossier[t] # None => DossierOK(t, dossier[t])

\* A run that exits with 0 has put its dossier in place.
ExitInv ==
  \A p \in Runs : ended[p] = "ok" =>
    /\ dossier[ticker[p]] # None
    /\ dossier[ticker[p]].by = p => dossier[ticker[p]].whole

\* The resolver says of a US symbol that it does not exist only if it does not, or the
\* ticker map is missing.
RefusalInv ==
  \A p \in Procs :
    answer[p] = "symbol_error" /\ ticker[p] \in UsTickers /\ map[p] = "loaded" =>
      Truth[ticker[p]] = "no_such_symbol"

\* A pre-flight decides after the answer, or without having asked.
PreflightInv ==
  \A p \in Preflights : kind[p] # None => stage[p] \in {"idle", "answered"}

CliInv ==
  /\ CliTypeOK /\ RunInv /\ OneActive /\ CacheInv /\ HitIsWhole
  /\ DossierInv /\ ExitInv /\ PublishedIsWhole
  /\ RefusalInv /\ PreflightInv /\ NoneMeansNoSymbol

USE ResolutionConstants, CliConstants

\* Every step of the command line is a step of the resolution or leaves it alone.
LEMMA CliStepIsResolutionStep ==
  ASSUME [CliNext]_allVars
  PROVE  [Next]_resVars
<1>1. ASSUME NEW p \in Preflights,
             (\E t \in Tickers : CheckTicker(p, t)) \/ RejectTicker(p) \/ Classify(p)
      PROVE  [Next]_resVars
  <2>1. p \in Procs
    OBVIOUS
  <2>2. ASSUME NEW t \in Tickers, CheckTicker(p, t) PROVE Next
    BY <2>1, <2>2 DEF CheckTicker, Next
  <2>3. ASSUME RejectTicker(p) \/ Classify(p) PROVE UNCHANGED resVars
    BY <2>3 DEF RejectTicker, Classify
  <2> QED BY <1>1, <2>2, <2>3
<1>2. ASSUME NEW p \in Runs, (\E t \in Tickers : StartRun(p, t)) \/ RunStep(p)
      PROVE  [Next]_resVars
  <2>1. p \in Procs
    OBVIOUS
  <2>2. ASSUME NEW t \in Tickers, StartRun(p, t) PROVE Next
    BY <2>1, <2>2 DEF StartRun, Next
  <2>3. ASSUME RunStep(p) PROVE UNCHANGED resVars
    BY <2>3 DEF RunStep, Resolved, FilingHit, FilingFetch, FilingFails, DocOpen, DocClose,
       MetaWrite, Quant, QuantFails, Peers, PeersRejected, PeersFail, Gemini, GeminiFails,
       Contract, ContractFails, DossierOpen, DossierClose, WriteFails, Publish, PublishFails,
       KillRun
  <2> QED BY <1>2, <2>2, <2>3
<1>3. ASSUME NEW p \in Procs, (ResolveStep(p) \/ Kill(p)) /\ UNCHANGED cliVars
      PROVE  [Next]_resVars
  BY <1>3 DEF Next
<1>4. ASSUME NEW t \in EuTickers, Expire(t) /\ UNCHANGED cliVars
      PROVE  [Next]_resVars
  BY <1>4 DEF Next
<1>5. ASSUME NEW t \in Tickers, MetaExpires(t) PROVE UNCHANGED resVars
  BY <1>5 DEF MetaExpires
<1>6. ASSUME UNCHANGED allVars PROVE UNCHANGED resVars
  BY <1>6 DEF allVars
<1> QED BY <1>1, <1>2, <1>3, <1>4, <1>5, <1>6 DEF CliNext

\* The command line implements the resolution.
THEOREM CliImplementsResolution == CliSpec => Spec
<1>1. CliInit => Init
  BY DEF CliInit
<1>2. [CliNext]_allVars => [Next]_resVars
  BY CliStepIsResolutionStep
<1> QED BY <1>1, <1>2, PTL DEF CliSpec, Spec

\* Verdicts are true in the composition as well: pre-flights beside a run, dossiers,
\* files and exits change nothing about it.
THEOREM CliVerdictsAreTrue == CliSpec => []WrongOnlyIfBlind
BY CliImplementsResolution, VerdictsAreTrue, PTL

-----------------------------------------------------------------------------
\* What a process was answered, and which ticker it was asked about, stays.
LEMMA AnswerStays ==
  ASSUME TypeOK, AskedInv, [Next]_resVars, NEW q \in Procs
  PROVE  /\ stage[q] = "answered" => /\ stage'[q] = "answered"
                                     /\ answer'[q] = answer[q]
                                     /\ map'[q] = map[q]
         /\ stage[q] # "idle" => stage'[q] # "idle" /\ ticker'[q] = ticker[q]
<1> DEFINE Stays ==
      /\ stage[q] = "answered" => /\ stage'[q] = "answered"
                                  /\ answer'[q] = answer[q]
                                  /\ map'[q] = map[q]
      /\ stage[q] # "idle" => stage'[q] # "idle" /\ ticker'[q] = ticker[q]
<1> SUFFICES Stays
  OBVIOUS
<1> USE DEF TypeOK, Goto, Answer, Conclude
<1>1. ASSUME NEW p \in Procs, NEW t \in Tickers, Ask(p, t) PROVE Stays
  BY <1>1 DEF Ask
<1>2. ASSUME NEW p \in Procs, Lookup(p) \/ Identify(p) \/ Lines(p) \/ NoAnchor(p) PROVE Stays
  BY <1>2 DEF Lookup, Identify, Lines, NoAnchor
<1>3. ASSUME NEW p \in Procs, LoadMap(p) \/ FindCik(p) \/ DetectForm(p) PROVE Stays
  BY <1>3 DEF LoadMap, FindCik, DetectForm
<1>4. ASSUME NEW p \in Procs, SourceFails(p) \/ Blank(p) \/ Kill(p) PROVE Stays
  BY <1>4 DEF SourceFails, Blank, Kill
<1>5. ASSUME NEW p \in Procs, CacheLoad(p) \/ CacheWrite(p) \/ CacheReplace(p) \/ CacheFails(p)
      PROVE  Stays
  BY <1>5 DEF CacheLoad, CacheWrite, CacheReplace, CacheFails
<1>6. ASSUME NEW t \in EuTickers, Expire(t) PROVE Stays
  BY <1>6 DEF Expire
<1>7. ASSUME UNCHANGED resVars PROVE Stays
  BY <1>7 DEF resVars
<1> QED BY <1>1, <1>2, <1>3, <1>4, <1>5, <1>6, <1>7 DEF Next, ResolveStep

\* The resolver refuses a US symbol for the SEC list's reason only.
LEMMA RefusalStep ==
  ASSUME TypeOK, AskedInv, RefusalInv, [Next]_resVars
  PROVE  RefusalInv'
<1> USE DEF TypeOK, AskedInv, RefusalInv, Goto, Answer, Conclude, Tickers, Verdicts, IssuerVerdicts, Errors
<1>1. ASSUME NEW p \in Procs, NEW t \in Tickers, Ask(p, t) PROVE RefusalInv'
  <2>1. Table[t] # "symbol_error" /\ answer[p] # "symbol_error"
    BY <1>1 DEF Ask, Verdicts
  <2> QED BY <1>1, <2>1 DEF Ask
<1>2. ASSUME NEW p \in Procs, Lookup(p) PROVE RefusalInv'
  <2>1. cache[ticker[p]] # None => cache[ticker[p]] # "symbol_error"
    BY <1>2 DEF Lookup, Entries, IssuerVerdicts, Verdicts
  <2> QED BY <1>2, <2>1 DEF Lookup
<1>3. ASSUME NEW p \in Procs, Identify(p) \/ Lines(p) \/ NoAnchor(p) PROVE RefusalInv'
  BY <1>3 DEF Identify, Lines, NoAnchor
<1>4. ASSUME NEW p \in Procs, LoadMap(p) PROVE RefusalInv'
  BY <1>4 DEF LoadMap
<1>5. ASSUME NEW p \in Procs, FindCik(p) PROVE RefusalInv'
  <2>1. ticker[p] \in UsTickers /\ ~HasCik(p) /\ map[p] = "loaded" =>
          Truth[ticker[p]] = "no_such_symbol"
    BY DEF HasCik
  <2> QED BY <1>5, <2>1 DEF FindCik
<1>6. ASSUME NEW p \in Procs, DetectForm(p) PROVE RefusalInv'
  BY <1>6 DEF DetectForm
<1>7. ASSUME NEW p \in Procs, SourceFails(p) \/ Blank(p) \/ Kill(p) PROVE RefusalInv'
  BY <1>7 DEF SourceFails, Blank, Kill
<1>8. ASSUME NEW p \in Procs, CacheLoad(p) \/ CacheWrite(p) \/ CacheFails(p) PROVE RefusalInv'
  BY <1>8 DEF CacheLoad, CacheWrite, CacheFails
<1>9. ASSUME NEW p \in Procs, CacheReplace(p) PROVE RefusalInv'
  <2>1. verdict[p] # "symbol_error"
    BY <1>9 DEF IssuerVerdicts, Verdicts
  <2> QED BY <1>9, <2>1 DEF CacheReplace
<1>10. ASSUME NEW t \in EuTickers, Expire(t) PROVE RefusalInv'
  BY <1>10 DEF Expire
<1>11. ASSUME UNCHANGED resVars PROVE RefusalInv'
  BY <1>11 DEF resVars
<1> QED
  BY <1>1, <1>2, <1>3, <1>4, <1>5, <1>6, <1>7, <1>8, <1>9, <1>10, <1>11 DEF Next, ResolveStep

-----------------------------------------------------------------------------
(* Steps of the resolution: nothing a run or a pre-flight relies on moves. *)

\* No step of the resolution moves what a run or a pre-flight relies on.
LEMMA ResolutionKeeps ==
  ASSUME CliInv, ResInv, ResInv', [Next]_resVars, UNCHANGED cliVars,
         \A p \in Preflights : kind[p] # None /\ stage[p] = "idle" => stage'[p] = "idle"
  PROVE  CliInv'
<1>1. \A q \in Procs :
        /\ stage[q] = "answered" => /\ stage'[q] = "answered"
                                    /\ answer'[q] = answer[q]
                                    /\ map'[q] = map[q]
        /\ stage[q] # "idle" => stage'[q] # "idle" /\ ticker'[q] = ticker[q]
  BY AnswerStays DEF ResInv
<1>2. UNCHANGED <<kind, step, ended, text, paid, doc, meta, dossier, published, runFaults>>
  BY DEF cliVars
<1>3. CliTypeOK'
  BY <1>2 DEF CliInv, CliTypeOK, ResInv
<1>4. RunInv'
  BY <1>1, <1>2 DEF CliInv, CliTypeOK, RunInv, RunOK, Own, Working
<1>5. OneActive' /\ CacheInv' /\ HitIsWhole' /\ PublishedIsWhole'
  BY <1>2 DEF CliInv, OneActive, Active, CacheInv, HitIsWhole, PublishedIsWhole
<1>6. DossierInv'
  <2> SUFFICES ASSUME NEW t \in Tickers, dossier[t] # None
               PROVE  DossierOK(t, dossier[t])'
    BY <1>2 DEF DossierInv
  <2>1. dossier[t].by \in Runs
    BY DEF CliInv, CliTypeOK, Dossiers
  <2>2. DossierOK(t, dossier[t]) /\ RunOK(dossier[t].by)
    BY <2>1 DEF CliInv, DossierInv, RunInv
  <2>3. stage[dossier[t].by] = "answered"
    BY <2>2 DEF DossierOK, RunOK
  <2> QED BY <1>1, <1>2, <2>1, <2>2, <2>3 DEF DossierOK
<1>7. ExitInv'
  <2> SUFFICES ASSUME NEW p \in Runs, ended[p] = "ok"
               PROVE  ticker'[p] = ticker[p]
    BY <1>2 DEF CliInv, ExitInv
  <2>1. step[p] = "done"
    BY DEF CliInv, RunInv, RunOK, Endings
  <2> QED BY <1>1, <2>1 DEF CliInv, RunInv, RunOK
<1>8. RefusalInv'
  BY RefusalStep DEF CliInv, ResInv
<1>9. PreflightInv'
  BY <1>1, <1>2 DEF CliInv, PreflightInv
<1>10. NoneMeansNoSymbol'
  <2> SUFFICES ASSUME NEW p \in Preflights, kind'[p] = "none", ticker'[p] \in UsTickers
               PROVE  Truth[ticker'[p]] = "no_such_symbol"
    BY DEF NoneMeansNoSymbol
  <2>1. ticker'[p] # None /\ stage'[p] # "idle"
    BY DEF ResInv, AskedInv, Tickers
  <2>2. kind[p] = "none" /\ kind[p] # None
    BY <1>2 DEF Kinds
  <2>3. stage[p] # "idle"
    BY <2>1, <2>2
  <2>4. ticker[p] = ticker'[p]
    BY <1>1, <2>3
  <2> QED BY <2>2, <2>4 DEF CliInv, NoneMeansNoSymbol
<1> QED BY <1>3, <1>4, <1>5, <1>6, <1>7, <1>8, <1>9, <1>10 DEF CliInv

-----------------------------------------------------------------------------
(* Steps of a run.                                                         *)

\* A step of the run p moves nothing but what belongs to p and to its ticker.
LEMMA RunStepFrame ==
  ASSUME CliInv, ResInv, NEW p \in Runs, RunStep(p)
  PROVE  /\ Active(p) /\ stage[p] # "idle" /\ ticker[p] \in Tickers
         /\ UNCHANGED <<resVars, kind>>
         /\ \A q \in Runs : q # p => /\ ~Active(q) /\ step'[q] = step[q]
                                    /\ ended'[q] = ended[q]
                                    /\ text'[q] = text[q]
                                    /\ paid'[q] = paid[q]
         /\ \A t \in Tickers : t # ticker[p] => /\ doc'[t] = doc[t]
                                                /\ meta'[t] = meta[t]
                                                /\ dossier'[t] = dossier[t]
                                                /\ published'[t] = published[t]
<1> USE DEF CliInv, CliTypeOK, Move, End
<1>1. Active(p) /\ UNCHANGED <<resVars, kind>>
  BY DEF Active, RunStep, Resolved, FilingHit, FilingFetch, FilingFails, DocOpen, DocClose,
     MetaWrite, Quant, QuantFails, Peers, PeersRejected, PeersFail, Gemini, GeminiFails,
     Contract, ContractFails, DossierOpen, DossierClose, WriteFails, Publish, PublishFails,
     KillRun
<1>2. stage[p] # "idle" /\ ticker[p] \in Tickers
  BY <1>1 DEF Active, RunInv, RunOK, ResInv, AskedInv
<1>3. \A q \in Runs : q # p => ~Active(q)
  BY <1>1 DEF OneActive
<1>4. \A q \in Runs : q # p => /\ step'[q] = step[q] /\ ended'[q] = ended[q]
                              /\ text'[q] = text[q] /\ paid'[q] = paid[q]
  BY DEF RunStep, Resolved, FilingHit, FilingFetch, FilingFails, DocOpen, DocClose,
     MetaWrite, Quant, QuantFails, Peers, PeersRejected, PeersFail, Gemini, GeminiFails,
     Contract, ContractFails, DossierOpen, DossierClose, WriteFails, Publish, PublishFails,
     KillRun
<1>5. \A t \in Tickers : t # ticker[p] => /\ doc'[t] = doc[t] /\ meta'[t] = meta[t]
                                         /\ dossier'[t] = dossier[t]
                                         /\ published'[t] = published[t]
  BY DEF RunStep, Resolved, FilingHit, FilingFetch, FilingFails, DocOpen, DocClose,
     MetaWrite, Quant, QuantFails, Peers, PeersRejected, PeersFail, Gemini, GeminiFails,
     Contract, ContractFails, DossierOpen, DossierClose, WriteFails, Publish, PublishFails,
     KillRun
<1> QED BY <1>1, <1>2, <1>3, <1>4, <1>5
\* No step of a run leaves the types.
LEMMA RunStepType ==
  ASSUME CliInv, ResInv, NEW p \in Runs, RunStep(p)
  PROVE  CliTypeOK'
<1>1. ticker[p] \in Tickers /\ UNCHANGED <<resVars, kind>>
  BY RunStepFrame
<1>2. TypeOK' /\ kind' \in [Preflights -> Kinds \cup {None}]
  BY <1>1 DEF resVars, CliInv, CliTypeOK, TypeOK
<1> USE DEF CliInv, CliTypeOK, Move, End
<1>3. step' \in [Runs -> Steps]
  BY DEF Steps, RunStep, Resolved, FilingHit, FilingFetch, FilingFails, DocOpen, DocClose,
     MetaWrite, Quant, QuantFails, Peers, PeersRejected, PeersFail, Gemini, GeminiFails,
     Contract, ContractFails, DossierOpen, DossierClose, WriteFails, Publish, PublishFails,
     KillRun
<1>4. ended' \in [Runs -> Endings \cup {None}]
  <2>1. answer[p] \in Errors => Raised(answer[p]) \in Endings
    BY DEF Errors, Raised, Endings
  <2> QED
    BY <2>1 DEF Endings, RunStep, Resolved, FilingHit, FilingFetch, FilingFails, DocOpen, DocClose,
       MetaWrite, Quant, QuantFails, Peers, PeersRejected, PeersFail, Gemini, GeminiFails,
       Contract, ContractFails, DossierOpen, DossierClose, WriteFails, Publish, PublishFails,
       KillRun
<1>5. text' \in [Runs -> Texts \cup {None}]
  <2>1. FilingHit(p) => doc[ticker[p]] \in Texts
    BY <1>1 DEF FilingHit, Cached, Texts
  <2> QED
    BY <2>1 DEF Texts, RunStep, Resolved, FilingHit, FilingFetch, FilingFails, DocOpen, DocClose,
       MetaWrite, Quant, QuantFails, Peers, PeersRejected, PeersFail, Gemini, GeminiFails,
       Contract, ContractFails, DossierOpen, DossierClose, WriteFails, Publish, PublishFails,
       KillRun
<1>6. /\ paid' \in [Runs -> BOOLEAN]
      /\ doc' \in [Tickers -> {"absent", "torn", "whole"}]
      /\ meta' \in [Tickers -> BOOLEAN]
  BY <1>1 DEF RunStep, Resolved, FilingHit, FilingFetch, FilingFails, DocOpen, DocClose,
     MetaWrite, Quant, QuantFails, Peers, PeersRejected, PeersFail, Gemini, GeminiFails,
     Contract, ContractFails, DossierOpen, DossierClose, WriteFails, Publish, PublishFails,
     KillRun
<1>7. /\ dossier' \in [Tickers -> Dossiers \cup {None}]
      /\ published' \in [Tickers -> Dossiers \cup {None}]
  <2>1. Own(p, FALSE) \in Dossiers /\ Own(p, TRUE) \in Dossiers
    BY DEF Own, Dossiers
  <2>2. CASE DossierOpen(p) \/ DossierClose(p)
    <3>1. PICK d \in Dossiers : dossier' = [dossier EXCEPT ![ticker[p]] = d]
      BY <2>1, <2>2 DEF DossierOpen, DossierClose
    <3>2. UNCHANGED published
      BY <2>2 DEF DossierOpen, DossierClose
    <3> QED BY <1>1, <3>1, <3>2
  <2>3. CASE Publish(p) \/ PublishFails(p)
    BY <2>3 DEF Publish, PublishFails
  <2>4. CASE UNCHANGED <<dossier, published>>
    BY <2>4
  <2> QED
    BY <2>2, <2>3, <2>4 DEF RunStep, Resolved, FilingHit, FilingFetch, FilingFails, DocOpen, DocClose,
       MetaWrite, Quant, QuantFails, Peers, PeersRejected, PeersFail, Gemini, GeminiFails,
       Contract, ContractFails, DossierOpen, DossierClose, WriteFails, Publish, PublishFails,
       KillRun
<1>8. runFaults' \in 0..MaxRunFaults
  <2>1. RunFault => runFaults' \in 0..MaxRunFaults
    BY DEF RunFault
  <2> QED
    BY <2>1 DEF RunStep, Resolved, FilingHit, FilingFetch, FilingFails, DocOpen, DocClose,
     MetaWrite, Quant, QuantFails, Peers, PeersRejected, PeersFail, Gemini, GeminiFails,
     Contract, ContractFails, DossierOpen, DossierClose, WriteFails, Publish, PublishFails,
     KillRun
<1> QED BY <1>2, <1>3, <1>4, <1>5, <1>6, <1>7, <1>8

\* How far the run p is says what it holds, also after a step of it.
LEMMA RunStepRun ==
  ASSUME CliInv, ResInv, NEW p \in Runs, RunStep(p)
  PROVE  RunInv'
<1>1. /\ Active(p) /\ stage[p] # "idle" /\ ticker[p] \in Tickers
      /\ UNCHANGED <<stage, ticker, answer>>
      /\ \A q \in Runs : q # p => /\ ~Active(q) /\ step'[q] = step[q]
                                 /\ ended'[q] = ended[q] /\ text'[q] = text[q]
                                 /\ paid'[q] = paid[q]
  BY RunStepFrame DEF resVars
<1>2. ASSUME NEW q \in Runs, q # p PROVE RunOK(q)'
  <2>1. RunOK(q) /\ step[q] \in {"idle", "done"}
    BY <1>1, <1>2 DEF Active, CliInv, RunInv
  <2> QED BY <1>1, <1>2, <2>1 DEF RunOK, Working
<1>3. RunOK(p)'
  <2>1. RunOK(p) /\ ended[p] = None
    BY <1>1 DEF Active, CliInv, RunInv, RunOK
  <2>2. ended[p] \notin {"DeepDiveError", "DataSourceError"}
    BY <2>1 DEF Endings
  <2>t. /\ step \in [Runs -> Steps] /\ ended \in [Runs -> Endings \cup {None}]
        /\ text \in [Runs -> Texts \cup {None}] /\ paid \in [Runs -> BOOLEAN]
        /\ doc \in [Tickers -> {"absent", "torn", "whole"}] /\ meta \in [Tickers -> BOOLEAN]
        /\ dossier \in [Tickers -> Dossiers \cup {None}]
    BY DEF CliInv, CliTypeOK
  <2>c. meta[ticker[p]] => doc[ticker[p]] = "whole"
    BY <1>1 DEF CliInv, CacheInv
  <2> USE <1>1, <2>1, <2>2, <2>t DEF RunOK, Working, Move, End
  <2>3. CASE Resolved(p)
    <3>1. answer[p] \in Errors => Raised(answer[p]) \in Endings
      BY DEF Errors, Raised, Endings
    <3> QED BY <2>3, <3>1 DEF Resolved, Verdicts, Errors
  <2>4. CASE FilingHit(p) \/ FilingFetch(p) \/ FilingFails(p)
    <3>1. FilingHit(p) => doc[ticker[p]] \in Texts /\ doc[ticker[p]] # None
      BY DEF FilingHit, Cached, Texts
    <3>2. FilingFetch(p) /\ step'[p] = "doc" => ~meta[ticker[p]]
      BY <2>c DEF FilingFetch, Cached
    <3>3. "whole" # None /\ "filing" \in Verdicts
      BY DEF Texts, Verdicts
    <3>4. CASE FilingHit(p)
      BY <3>1, <3>3, <3>4 DEF FilingHit
    <3>5. CASE FilingFetch(p)
      BY <3>2, <3>3, <3>5 DEF FilingFetch
    <3>6. CASE FilingFails(p)
      BY <3>6 DEF FilingFails
    <3> QED BY <2>4, <3>4, <3>5, <3>6
  <2>5. CASE DocOpen(p) \/ DocClose(p) \/ MetaWrite(p)
    BY <2>5 DEF DocOpen, DocClose, MetaWrite, Verdicts
  <2>6. CASE Quant(p) \/ Peers(p)
    BY <2>6 DEF Quant, Peers
  <2>7. CASE QuantFails(p) \/ PeersRejected(p) \/ PeersFail(p)
    BY <2>7 DEF QuantFails, PeersRejected, PeersFail
  <2>10. CASE Gemini(p) \/ Contract(p)
    BY <2>10 DEF Gemini, Contract
  <2>11. CASE GeminiFails(p) \/ ContractFails(p)
    BY <2>11 DEF GeminiFails, ContractFails
  <2>8. CASE DossierOpen(p) \/ DossierClose(p)
    <3>1. Own(p, TRUE)' = Own(p, TRUE) /\ Own(p, FALSE)' = Own(p, FALSE)
      BY <2>8 DEF DossierOpen, DossierClose, Own
    <3> QED BY <2>8, <3>1 DEF DossierOpen, DossierClose
  <2>9. CASE WriteFails(p) \/ Publish(p) \/ PublishFails(p) \/ KillRun(p)
    BY <2>9 DEF WriteFails, Publish, PublishFails, KillRun
  <2> QED BY <2>3, <2>4, <2>5, <2>6, <2>7, <2>8, <2>9, <2>10, <2>11 DEF RunStep
<1> QED BY <1>2, <1>3 DEF RunInv
\* The entry of the filing cache follows its text, so a hit is whole.
LEMMA RunStepCache ==
  ASSUME CliInv, ResInv, NEW p \in Runs, RunStep(p)
  PROVE  CacheInv' /\ HitIsWhole'
<1>1. /\ ticker[p] \in Tickers
      /\ \A q \in Runs : q # p => text'[q] = text[q]
      /\ \A t \in Tickers : t # ticker[p] => doc'[t] = doc[t] /\ meta'[t] = meta[t]
  BY RunStepFrame
<1>2. RunOK(p) /\ text[p] # "torn" /\ (meta[ticker[p]] => doc[ticker[p]] = "whole")
  BY <1>1 DEF CliInv, RunInv, HitIsWhole, CacheInv
<1>3. /\ step \in [Runs -> Steps] /\ text \in [Runs -> Texts \cup {None}]
      /\ doc \in [Tickers -> {"absent", "torn", "whole"}] /\ meta \in [Tickers -> BOOLEAN]
  BY DEF CliInv, CliTypeOK
<1>4. (meta'[ticker[p]] => doc'[ticker[p]] = "whole") /\ text'[p] # "torn"
  <2> USE <1>1, <1>2, <1>3 DEF RunOK, Move, End
  <2>1. CASE FilingHit(p)
    BY <2>1 DEF FilingHit, Cached
  <2>2. CASE FilingFetch(p)
    BY <2>2 DEF FilingFetch
  <2>3. CASE DocOpen(p) \/ DocClose(p) \/ MetaWrite(p)
    BY <2>3 DEF DocOpen, DocClose, MetaWrite
  <2>4. CASE UNCHANGED <<text, doc, meta>>
    BY <2>4
  <2> HIDE DEF RunOK
  <2> QED
    BY <2>1, <2>2, <2>3, <2>4 DEF RunStep, Resolved, FilingFails, Quant, QuantFails, Peers,
       PeersRejected, PeersFail, Gemini, GeminiFails, Contract, ContractFails, DossierOpen,
       DossierClose, WriteFails, Publish, PublishFails, KillRun
<1>5. CacheInv'
  BY <1>1, <1>4 DEF CliInv, CacheInv
<1>6. HitIsWhole'
  BY <1>1, <1>4 DEF CliInv, HitIsWhole
<1> QED BY <1>5, <1>6

\* What a run does to the dossier of its ticker.
LEMMA DossierMoves ==
  ASSUME CliInv, ResInv, NEW p \in Runs, RunStep(p)
  PROVE  \/ /\ step[p] = "dossier" /\ step'[p] = "dossier_open"
            /\ dossier' = [dossier EXCEPT ![ticker[p]] = Own(p, FALSE)]
            /\ UNCHANGED <<ended, text, published>>
         \/ /\ step[p] = "dossier_open" /\ step'[p] = "publish"
            /\ dossier' = [dossier EXCEPT ![ticker[p]] = Own(p, TRUE)]
            /\ UNCHANGED <<ended, text, published>>
         \/ /\ step[p] = "publish" /\ step'[p] = "done"
            /\ ended' = [ended EXCEPT ![p] = "ok"]
            /\ UNCHANGED <<dossier, text>>
            /\ \/ published' = [published EXCEPT ![ticker[p]] = dossier[ticker[p]]]
               \/ UNCHANGED published
         \/ /\ step[p] \in {"dossier_open", "publish"} /\ step'[p] = "done"
            /\ ended' = [ended EXCEPT ![p] = "killed"]
            /\ UNCHANGED <<dossier, text, published>>
         \/ /\ step[p] = "dossier_open" /\ step'[p] = "done"
            /\ ended' = [ended EXCEPT ![p] = "uncaught"]
            /\ UNCHANGED <<dossier, text, published>>
         \/ /\ step[p] \notin {"dossier_open", "publish", "done"} /\ ended'[p] # "ok"
            /\ UNCHANGED <<dossier, published>>
<1>1. step \in [Runs -> Steps] /\ ended \in [Runs -> Endings \cup {None}]
  BY DEF CliInv, CliTypeOK
<1>2. ended[p] = None
  BY RunStepFrame DEF Active, CliInv, RunInv, RunOK
<1>3. ended[p] # "ok"
  BY <1>2 DEF Endings
<1> USE <1>1, <1>3 DEF Move, End
<1>4. CASE Resolved(p)
  <2>1. answer[p] \in Errors => Raised(answer[p]) # "ok"
    BY DEF Errors, Raised
  <2> QED BY <1>4, <2>1 DEF Resolved
<1>5. CASE FilingHit(p) \/ FilingFetch(p) \/ FilingFails(p)
  BY <1>5 DEF FilingHit, FilingFetch, FilingFails
<1>6. CASE DocOpen(p) \/ DocClose(p) \/ MetaWrite(p)
  BY <1>6 DEF DocOpen, DocClose, MetaWrite
<1>7. CASE Quant(p) \/ QuantFails(p) \/ Peers(p) \/ PeersRejected(p) \/ PeersFail(p)
  BY <1>7 DEF Quant, QuantFails, Peers, PeersRejected, PeersFail
<1>8. CASE Gemini(p) \/ GeminiFails(p) \/ Contract(p) \/ ContractFails(p)
  BY <1>8 DEF Gemini, GeminiFails, Contract, ContractFails
<1>9. CASE DossierOpen(p)
  BY <1>9 DEF DossierOpen
<1>10. CASE DossierClose(p)
  BY <1>10 DEF DossierClose
<1>11. CASE WriteFails(p)
  BY <1>11 DEF WriteFails
<1>12. CASE Publish(p) \/ PublishFails(p)
  BY <1>12 DEF Publish, PublishFails
<1>13. CASE KillRun(p)
  BY <1>13 DEF KillRun
<1> QED
  BY <1>4, <1>5, <1>6, <1>7, <1>8, <1>9, <1>10, <1>11, <1>12, <1>13 DEF RunStep
\* Every dossier stays one that its run can have written.
LEMMA RunStepDossier ==
  ASSUME CliInv, ResInv, NEW p \in Runs, RunStep(p)
  PROVE  DossierInv'
<1> SUFFICES ASSUME NEW t \in Tickers, dossier'[t] # None
             PROVE  DossierOK(t, dossier[t])'
  BY DEF DossierInv
<1>1. /\ ticker[p] \in Tickers /\ UNCHANGED <<stage, ticker, answer>> /\ Active(p)
      /\ \A q \in Runs : q # p => /\ step'[q] = step[q] /\ ended'[q] = ended[q]
                                 /\ text'[q] = text[q]
  BY RunStepFrame DEF resVars
<1>2. /\ step \in [Runs -> Steps] /\ ended \in [Runs -> Endings \cup {None}]
      /\ dossier \in [Tickers -> Dossiers \cup {None}]
  BY DEF CliInv, CliTypeOK
<1>3. RunOK(p) /\ ended[p] = None
  BY <1>1 DEF CliInv, RunInv, RunOK, Active
<1>4. CASE dossier'[t] = dossier[t]
  <2>1. DossierOK(t, dossier[t]) /\ dossier[t].by \in Runs
    BY <1>2, <1>4 DEF CliInv, DossierInv, Dossiers
  <2>2. CASE dossier[t].by # p
    BY <1>1, <1>4, <2>1, <2>2 DEF DossierOK
  <2>3. CASE dossier[t].by = p
    <3>1. ticker[p] = t /\ step[p] \in {"dossier_open", "publish"}
      BY <1>1, <2>1, <2>3 DEF DossierOK, Active
    <3>2. step[p] = "dossier_open" => ~dossier[t].whole
      BY <1>3, <3>1 DEF RunOK, Own
    <3>3. \/ /\ step'[p] = "publish" /\ step[p] = "dossier_open"
             /\ dossier'[t] = Own(p, TRUE)
          \/ /\ step'[p] = "done" /\ step[p] = "publish" /\ text'[p] = text[p]
             /\ ended'[p] = "ok"
          \/ /\ step'[p] = "done" /\ text'[p] = text[p] /\ ended'[p] = "killed"
          \/ /\ step'[p] = "done" /\ step[p] = "dossier_open" /\ text'[p] = text[p]
      BY <1>2, <3>1, DossierMoves
    <3>4. dossier'[t] # Own(p, TRUE) \/ step[p] # "dossier_open"
      BY <1>4, <3>2 DEF Own
    <3>5. /\ step'[p] = "done" /\ text'[p] = text[p]
          /\ dossier[t].whole => ended'[p] \in {"ok", "killed"}
      BY <3>2, <3>3, <3>4
    <3>6. /\ ticker'[p] = ticker[p] /\ answer'[p] = answer[p]
          /\ dossier'[t] = dossier[t] /\ dossier[t].by = p
      BY <1>1, <1>4, <2>3
    <3> QED BY <2>1, <3>5, <3>6 DEF DossierOK
  <2> QED BY <2>2, <2>3
<1>5. CASE dossier'[t] # dossier[t]
  <2>1. /\ t = ticker[p] /\ UNCHANGED <<ended, text>>
        /\ \/ step[p] = "dossier" /\ step'[p] = "dossier_open" /\ dossier'[t] = Own(p, FALSE)
           \/ step[p] = "dossier_open" /\ step'[p] = "publish" /\ dossier'[t] = Own(p, TRUE)
    BY <1>1, <1>2, <1>5, DossierMoves
  <2>2. answer[p] \in Verdicts /\ (text[p] # None <=> answer[p] = "filing")
    BY <1>3, <2>1 DEF RunOK, Working
  <2>3. /\ dossier'[t].by = p /\ (dossier'[t].full <=> text[p] # None)
        /\ dossier'[t].whole => step'[p] # "dossier_open"
        /\ step'[p] \in {"dossier_open", "publish"}
    <3>1. ASSUME NEW w \in BOOLEAN
          PROVE  /\ Own(p, w).by = p
                 /\ Own(p, w).full <=> text[p] # None
                 /\ Own(p, w).whole <=> w
      BY DEF Own
    <3> QED BY <2>1, <3>1
  <2>4. ticker'[p] = t /\ answer'[p] = answer[p] /\ text'[p] = text[p] /\ ended'[p] = None
    BY <1>1, <1>3, <2>1
  <2> QED BY <2>2, <2>3, <2>4 DEF DossierOK
<1> QED BY <1>4, <1>5

\* An exit with 0 comes after a dossier of its own, and only what is whole is published.
LEMMA RunStepExit ==
  ASSUME CliInv, ResInv, NEW p \in Runs, RunStep(p)
  PROVE  ExitInv' /\ PublishedIsWhole'
<1>1. /\ ticker[p] \in Tickers /\ UNCHANGED <<stage, ticker>> /\ Active(p)
      /\ \A q \in Runs : q # p => ended'[q] = ended[q]
  BY RunStepFrame DEF resVars
<1>2. /\ step \in [Runs -> Steps] /\ ended \in [Runs -> Endings \cup {None}]
      /\ dossier \in [Tickers -> Dossiers \cup {None}]
      /\ published \in [Tickers -> Dossiers \cup {None}]
  BY DEF CliInv, CliTypeOK
<1>3. RunOK(p) /\ ended[p] # "ok"
  BY <1>1 DEF CliInv, RunInv, RunOK, Active, Endings
<1>4. /\ Own(p, TRUE) # None /\ Own(p, FALSE) # None
      /\ Own(p, TRUE).whole /\ Own(p, TRUE).by = p /\ Own(p, FALSE).by = p
  <2>1. Own(p, TRUE) \in Dossiers /\ Own(p, FALSE) \in Dossiers
    BY DEF Own, Dossiers
  <2>2. None \notin Dossiers
    OBVIOUS
  <2> QED BY <2>1, <2>2 DEF Own
<1>5. step[p] = "publish" => dossier[ticker[p]] = Own(p, TRUE)
  BY <1>3 DEF RunOK
<1>6. ASSUME NEW q \in Runs, ended'[q] = "ok"
      PROVE  /\ dossier'[ticker[q]] # None
             /\ dossier'[ticker[q]].by = q => dossier'[ticker[q]].whole
  <2>1. CASE q = p
    <3>1. step[p] = "publish" /\ UNCHANGED dossier
      BY <1>2, <1>3, <1>6, <2>1, DossierMoves
    <3> QED BY <1>4, <1>5, <2>1, <3>1
  <2>2. CASE q # p
    <3>1. ended[q] = "ok" /\ step[q] = "done"
      BY <1>1, <1>6, <2>2 DEF CliInv, RunInv, RunOK, Endings
    <3>2. /\ dossier[ticker[q]] # None
          /\ dossier[ticker[q]].by = q => dossier[ticker[q]].whole
      BY <3>1 DEF CliInv, ExitInv
    <3>3. ticker[q] \in Tickers
      BY <3>1 DEF CliInv, RunInv, RunOK, ResInv, AskedInv
    <3>4. dossier'[ticker[q]] \in {dossier[ticker[q]], Own(p, TRUE), Own(p, FALSE)}
      BY <1>1, <1>2, <3>3, DossierMoves
    <3> QED BY <1>4, <2>2, <3>2, <3>4
  <2> QED BY <2>1, <2>2
<1>7. ExitInv'
  BY <1>1, <1>6 DEF ExitInv
<1>8. PublishedIsWhole'
  BY <1>2, <1>4, <1>5, DossierMoves DEF CliInv, PublishedIsWhole
<1> QED BY <1>7, <1>8

\* A step of a run keeps the invariant.
LEMMA RunStepKeeps ==
  ASSUME CliInv, ResInv, NEW p \in Runs, RunStep(p)
  PROVE  CliInv'
<1>1. /\ UNCHANGED <<resVars, kind>> /\ Active(p)
      /\ \A q \in Runs : q # p => ~Active(q) /\ step'[q] = step[q]
  BY RunStepFrame
<1>2. OneActive'
  BY <1>1 DEF OneActive, Active
<1>3. RefusalInv' /\ PreflightInv' /\ NoneMeansNoSymbol'
  BY <1>1 DEF resVars, CliInv, RefusalInv, PreflightInv, NoneMeansNoSymbol
<1> QED
  BY <1>2, <1>3, RunStepType, RunStepRun, RunStepCache, RunStepDossier, RunStepExit DEF CliInv
-----------------------------------------------------------------------------
(* The other steps.                                                        *)

\* A run that starts finds no other active, and has answered nothing yet.
LEMMA StartRunKeeps ==
  ASSUME CliInv, ResInv, ResInv', NEW p \in Runs, NEW t \in Tickers, StartRun(p, t)
  PROVE  CliInv'
<1>1. /\ UNCHANGED <<kind, ended, text, paid, doc, meta, dossier, published, runFaults>>
      /\ step[p] = "idle" /\ step' = [step EXCEPT ![p] = "resolving"]
      /\ Ask(p, t) /\ (\A q \in Runs : ~Active(q))
  BY DEF StartRun, Move
<1>2. step \in [Runs -> Steps] /\ p \in Procs /\ p \notin Preflights
  BY DEF CliInv, CliTypeOK
<1>3. /\ \A q \in Procs : q # p => /\ stage'[q] = stage[q] /\ answer'[q] = answer[q]
                                 /\ ticker'[q] = ticker[q] /\ map'[q] = map[q]
      /\ stage'[p] # "idle"
  <2>1. TypeOK
    BY DEF ResInv
  <2>2. /\ stage \in [Procs -> Stages] /\ ticker \in [Procs -> Tickers \cup {None}]
        /\ answer \in [Procs -> Verdicts \cup Errors \cup {None}]
    BY <2>1 DEF TypeOK
  <2> QED BY <1>1, <1>2, <2>2 DEF Ask, Answer
<1>4. CliTypeOK'
  <2>1. step' \in [Runs -> Steps]
    BY <1>1, <1>2 DEF Steps
  <2> QED BY <1>1, <2>1 DEF CliInv, CliTypeOK, ResInv
<1>5. RunInv'
  <2>1. \A q \in Runs : q # p => step'[q] = step[q] /\ step[q] \in {"idle", "done"}
    BY <1>1, <1>2 DEF Active
  <2>2. ASSUME NEW q \in Runs, q # p PROVE RunOK(q)'
    <3>1. RunOK(q) /\ step[q] \in {"idle", "done"} /\ q \in Procs
      BY <2>1, <2>2 DEF CliInv, RunInv
    <3>2. /\ step'[q] = step[q] /\ stage'[q] = stage[q] /\ answer'[q] = answer[q]
          /\ ended'[q] = ended[q] /\ text'[q] = text[q] /\ paid'[q] = paid[q]
      BY <1>1, <1>3, <2>1, <2>2, <3>1
    <3> QED BY <3>1, <3>2 DEF RunOK, Working
  <2>3. RunOK(p) /\ step'[p] = "resolving"
    BY <1>1, <1>2 DEF CliInv, RunInv
  <2>4. RunOK(p)'
    BY <1>1, <1>3, <2>3 DEF RunOK, Working
  <2> QED BY <2>2, <2>4 DEF RunInv
<1>6. OneActive'
  BY <1>1, <1>2 DEF OneActive, Active
<1>7. CacheInv' /\ HitIsWhole' /\ PublishedIsWhole'
  BY <1>1 DEF CliInv, CacheInv, HitIsWhole, PublishedIsWhole
<1>8. DossierInv'
  <2> SUFFICES ASSUME NEW u \in Tickers, dossier[u] # None
               PROVE  DossierOK(u, dossier[u])'
    BY <1>1 DEF DossierInv
  <2>1. DossierOK(u, dossier[u]) /\ dossier[u].by \in Runs
    BY DEF CliInv, DossierInv, CliTypeOK, Dossiers
  <2>2. dossier[u].by # p
    BY <1>1, <2>1 DEF DossierOK
  <2> QED BY <1>1, <1>2, <1>3, <2>1, <2>2 DEF DossierOK
<1>9. ExitInv'
  <2>1. ended[p] # "ok"
    BY <1>1 DEF CliInv, RunInv, RunOK, Endings
  <2> QED BY <1>1, <1>3, <2>1 DEF CliInv, ExitInv
<1>10. RefusalInv'
  <2>1. Next
    BY <1>1, <1>2 DEF Next
  <2> QED BY <2>1, RefusalStep DEF CliInv, ResInv
<1>11. PreflightInv' /\ NoneMeansNoSymbol'
  BY <1>1, <1>2, <1>3 DEF CliInv, PreflightInv, NoneMeansNoSymbol
<1> QED BY <1>4, <1>5, <1>6, <1>7, <1>8, <1>9, <1>10, <1>11 DEF CliInv

\* A pre-flight decides: a symbol the resolver was asked about is blamed only if the
\* resolver refused it with its ticker map loaded.
LEMMA PreflightKeeps ==
  ASSUME CliInv, ResInv, NEW p \in Preflights, RejectTicker(p) \/ Classify(p)
  PROVE  CliInv'
<1>1. /\ UNCHANGED <<resVars, step, ended, text, paid, doc, meta, dossier, published, runFaults>>
      /\ stage[p] \in {"idle", "answered"}
      /\ \/ stage[p] = "idle" /\ kind' = [kind EXCEPT ![p] = "none"]
         \/ stage[p] = "answered" /\ kind' = [kind EXCEPT ![p] = Kind(p)]
  BY DEF RejectTicker, Classify
<1>2. UNCHANGED <<stage, ticker, map, verdict, copy, answer, cache, tmp, blank, faults>>
  BY <1>1 DEF resVars
<1>3. kind \in [Preflights -> Kinds \cup {None}] /\ p \in Procs
  BY DEF CliInv, CliTypeOK
<1>4. Kind(p) \in Kinds
  BY DEF Kind, Kinds, Verdicts
<1>5. CliTypeOK'
  <2>1. kind' \in [Preflights -> Kinds \cup {None}]
    BY <1>1, <1>3, <1>4 DEF Kinds
  <2> QED BY <1>1, <1>2, <2>1 DEF CliInv, CliTypeOK, TypeOK
<1>6. RunInv' /\ OneActive' /\ CacheInv' /\ HitIsWhole'
  BY <1>1, <1>2 DEF CliInv, RunInv, RunOK, Own, OneActive, Active, CacheInv, HitIsWhole
<1>7. DossierInv' /\ ExitInv' /\ PublishedIsWhole' /\ RefusalInv'
  BY <1>1, <1>2
     DEF CliInv, DossierInv, DossierOK, ExitInv, PublishedIsWhole, RefusalInv
<1>8. PreflightInv'
  BY <1>1, <1>2, <1>3 DEF CliInv, PreflightInv
<1>9. NoneMeansNoSymbol'
  <2>1. stage[p] = "idle" => ticker[p] \notin UsTickers
    BY <1>3 DEF ResInv, AskedInv, Tickers
  <2>2. stage[p] = "answered" /\ Kind(p) = "none" /\ ticker[p] \in UsTickers =>
          Truth[ticker[p]] = "no_such_symbol"
    <3>1. answer[p] \in Verdicts \cup Errors \cup {None} /\ p \in Procs
      BY <1>3 DEF ResInv, TypeOK
    <3>2. Kind(p) = "none" /\ ticker[p] \in UsTickers =>
            answer[p] = "symbol_error" /\ map[p] = "loaded"
      BY DEF Kind, MapAvailable, Verdicts
    <3> QED BY <3>1, <3>2 DEF CliInv, RefusalInv
  <2> QED BY <1>1, <1>2, <1>3, <2>1, <2>2 DEF CliInv, NoneMeansNoSymbol
<1> QED BY <1>5, <1>6, <1>7, <1>8, <1>9 DEF CliInv

\* An entry of the filing cache that expires takes no text with it.
LEMMA MetaExpiresKeeps ==
  ASSUME CliInv, ResInv, NEW t \in Tickers, MetaExpires(t)
  PROVE  CliInv'
<1>1. /\ UNCHANGED <<resVars, kind, step, ended, text, paid, doc, dossier, published, runFaults>>
      /\ meta' = [meta EXCEPT ![t] = FALSE]
  BY DEF MetaExpires
<1>2. UNCHANGED <<stage, ticker, map, verdict, copy, answer, cache, tmp, blank, faults>>
  BY <1>1 DEF resVars
<1>3. meta \in [Tickers -> BOOLEAN]
  BY DEF CliInv, CliTypeOK
<1>4. CliTypeOK'
  BY <1>1, <1>2, <1>3 DEF CliInv, CliTypeOK, TypeOK
<1>5. \A u \in Tickers : meta'[u] => meta[u]
  BY <1>1, <1>3
<1>6. RunInv'
  <2>1. ASSUME NEW q \in Runs PROVE RunOK(q)'
    <3>0. step[q] # "idle" => ticker[q] \in Tickers
      BY DEF CliInv, RunInv, RunOK, ResInv, AskedInv
    <3>1. step[q] \in {"doc", "doc_open"} => ~meta'[ticker[q]]
      BY <1>5, <3>0 DEF CliInv, RunInv, RunOK
    <3> QED BY <1>1, <1>2, <3>1 DEF CliInv, RunInv, RunOK, Own
  <2> QED BY <2>1 DEF RunInv
<1>7. OneActive' /\ CacheInv' /\ HitIsWhole'
  BY <1>1, <1>3 DEF CliInv, OneActive, Active, CacheInv, HitIsWhole
<1>8. DossierInv' /\ ExitInv' /\ PublishedIsWhole' /\ RefusalInv'
  BY <1>1, <1>2
     DEF CliInv, DossierInv, DossierOK, ExitInv, PublishedIsWhole, RefusalInv
<1>9. PreflightInv' /\ NoneMeansNoSymbol'
  BY <1>1, <1>2 DEF CliInv, PreflightInv, NoneMeansNoSymbol
<1> QED BY <1>4, <1>6, <1>7, <1>8, <1>9 DEF CliInv
-----------------------------------------------------------------------------
\* The inductive invariant of the command line.
THEOREM CliInvariantHolds == CliSpec => []CliInv
<1>1. CliInit => CliInv
  <2> SUFFICES ASSUME CliInit PROVE CliInv
    OBVIOUS
  <2>1. TypeOK
    BY ResInvInit DEF CliInit, ResInv
  <2>2. CliTypeOK
    BY <2>1 DEF CliInit, CliTypeOK, Steps
  <2>3. RunInv /\ OneActive /\ CacheInv
    BY DEF CliInit, RunInv, RunOK, Working, OneActive, Active, CacheInv
  <2>4. HitIsWhole /\ DossierInv /\ PublishedIsWhole
    BY DEF CliInit, HitIsWhole, DossierInv, PublishedIsWhole, Texts
  <2>5. ExitInv
    BY DEF CliInit, ExitInv, Endings
  <2>6. RefusalInv
    BY DEF CliInit, Init, RefusalInv, Errors
  <2>7. PreflightInv /\ NoneMeansNoSymbol
    BY DEF CliInit, PreflightInv, NoneMeansNoSymbol, Kinds
  <2> QED BY <2>2, <2>3, <2>4, <2>5, <2>6, <2>7 DEF CliInv
<1>2. CliInv /\ ResInv /\ ResInv' /\ [CliNext]_allVars => CliInv'
  <2> SUFFICES ASSUME CliInv, ResInv, ResInv', [CliNext]_allVars PROVE CliInv'
    OBVIOUS
  <2>1. [Next]_resVars
    BY CliStepIsResolutionStep
  <2>2. ASSUME NEW p \in Preflights, NEW t \in Tickers, CheckTicker(p, t) PROVE CliInv'
    <3>1. \A q \in Preflights : q # p => stage'[q] = stage[q]
      BY <2>2 DEF CheckTicker, Ask, Answer, ResInv, TypeOK
    <3> QED BY <2>1, <2>2, <3>1, ResolutionKeeps DEF CheckTicker
  <2>3. ASSUME NEW p \in Preflights, RejectTicker(p) \/ Classify(p) PROVE CliInv'
    BY <2>3, PreflightKeeps
  <2>4. ASSUME NEW p \in Runs, NEW t \in Tickers, StartRun(p, t) PROVE CliInv'
    BY <2>4, StartRunKeeps
  <2>5. ASSUME NEW p \in Runs, RunStep(p) PROVE CliInv'
    BY <2>5, RunStepKeeps
  <2>6. ASSUME NEW p \in Procs, ResolveStep(p) \/ Kill(p), UNCHANGED cliVars PROVE CliInv'
    <3>1. \A q \in Procs : stage[q] = "idle" => stage'[q] = "idle"
      BY <2>6 DEF ResolveStep, Lookup, Identify, Lines, NoAnchor, LoadMap, FindCik, DetectForm,
         SourceFails, Blank, CacheLoad, CacheWrite, CacheReplace, CacheFails, Kill, Goto,
         Answer, Conclude, ResInv, TypeOK
    <3> QED BY <2>1, <2>6, <3>1, ResolutionKeeps
  <2>7. ASSUME NEW t \in EuTickers, Expire(t), UNCHANGED cliVars PROVE CliInv'
    BY <2>1, <2>7, ResolutionKeeps DEF Expire
  <2>8. ASSUME NEW t \in Tickers, MetaExpires(t) PROVE CliInv'
    BY <2>8, MetaExpiresKeeps
  <2>9. CASE UNCHANGED allVars
    BY <2>1, <2>9, ResolutionKeeps DEF allVars, resVars
  <2> QED BY <2>2, <2>3, <2>4, <2>5, <2>6, <2>7, <2>8, <2>9 DEF CliNext
<1>3. CliSpec => []ResInv
  BY CliImplementsResolution, ResolutionInvariantHolds, PTL
<1> QED BY <1>1, <1>2, <1>3, PTL DEF CliSpec

\* Every variable of the command line keeps its type.
THEOREM CliTypeCorrect == CliSpec => []CliTypeOK
<1>1. CliInv => CliTypeOK
  BY DEF CliInv
<1> QED BY <1>1, CliInvariantHolds, PTL

\* A pre-flight that asked the resolver blames a US symbol only if the SEC has no such
\* symbol (_classify).
THEOREM PreflightBlamesRightly == CliSpec => []NoneMeansNoSymbol
<1>1. CliInv => NoneMeansNoSymbol
  BY DEF CliInv
<1> QED BY <1>1, CliInvariantHolds, PTL

\* A run never works with half a filing, and nothing half-written is published.
THEOREM FilesAreWhole == CliSpec => []TornFilesStayUnseen
<1>1. CliInv => TornFilesStayUnseen
  BY DEF CliInv, TornFilesStayUnseen
<1> QED BY <1>1, CliInvariantHolds, PTL

\* A run that has paid never exits for a missing source, and as a refusal only by an
\* exception that main does not catch.
THEOREM PaidRunsAreNotRefused == CliSpec => []PaidRunIsNotRefused
<1>1. CliInv => PaidRunIsNotRefused
  <2> SUFFICES ASSUME CliInv, NEW p \in Runs, paid[p], ended[p] # None
               PROVE  /\ ExitCode(ended[p]) # "2"
                      /\ ExitCode(ended[p]) = "1" => ended[p] = "uncaught"
    BY DEF PaidRunIsNotRefused
  <2>1. ended[p] \in Endings
    BY DEF CliInv, CliTypeOK
  <2>2. ended[p] \notin {"DeepDiveError", "DataSourceError"}
    BY DEF CliInv, RunInv, RunOK
  <2> QED BY <2>1, <2>2 DEF Endings, ExitCode
<1> QED BY <1>1, CliInvariantHolds, PTL

\* The exit code of a run tells whether its dossier is in place (_publish).
THEOREM ExitsTellTheDossier == CliSpec => []ExitTellsTheDossier
<1>1. CliInv => ExitTellsTheDossier
  <2>1. ASSUME CliInv, NEW t \in Tickers, dossier[t] # None, dossier[t].whole,
               ended[dossier[t].by] # None
        PROVE  ExitCode(ended[dossier[t].by]) \in {"0", "signal"}
    <3>1. ended[dossier[t].by] \in {"ok", "killed"}
      BY <2>1 DEF CliInv, DossierInv, DossierOK
    <3> QED BY <3>1 DEF ExitCode
  <2>2. ASSUME CliInv, NEW p \in Runs, ended[p] # None, ExitCode(ended[p]) = "0"
        PROVE  ended[p] = "ok"
    <3>1. ended[p] \in Endings
      BY <2>2 DEF CliInv, CliTypeOK
    <3> QED BY <2>2, <3>1 DEF Endings, ExitCode
  <2> QED BY <2>1, <2>2 DEF CliInv, ExitInv, ExitTellsTheDossier
<1> QED BY <1>1, CliInvariantHolds, PTL

\* What a dossier says of its source is true but for the failures that look like an
\* empty answer: what a run did with the verdict, and that verdicts are true.
THEOREM DossierKindsAreTrue == CliSpec => []DossierKindIsTrue
<1>1. CliInv /\ WrongOnlyIfBlind => DossierKindIsTrue
  <2> SUFFICES ASSUME CliInv, WrongOnlyIfBlind, NEW t \in Tickers, dossier[t] # None
               PROVE  IF dossier[t].full
                      THEN Truth[t] = "filing"
                      ELSE \/ Truth[t] # "filing"
                           \/ answer[dossier[t].by] = "unverifiable_identity"
                           \/ /\ answer[dossier[t].by] \in IssuerVerdicts
                              /\ Sayable(t, answer[dossier[t].by])
    BY DEF DossierKindIsTrue
  <2>1. DossierOK(t, dossier[t]) /\ dossier[t].by \in Procs
    BY DEF CliInv, DossierInv, CliTypeOK, Dossiers
  <2>2. /\ ticker[dossier[t].by] = t /\ answer[dossier[t].by] \in Verdicts
        /\ dossier[t].full <=> answer[dossier[t].by] = "filing"
    BY <2>1 DEF DossierOK
  <2>3. answer[dossier[t].by] \in IssuerVerdicts => Sayable(t, answer[dossier[t].by])
    BY <2>1, <2>2 DEF WrongOnlyIfBlind
  <2>4. CASE answer[dossier[t].by] = "filing"
    BY <2>2, <2>3, <2>4 DEF Sayable, IssuerVerdicts, Verdicts
  <2>5. CASE answer[dossier[t].by] # "filing"
    BY <2>2, <2>3, <2>5 DEF IssuerVerdicts
  <2> QED BY <2>4, <2>5
<1> QED BY <1>1, CliInvariantHolds, CliVerdictsAreTrue, PTL
=============================================================================

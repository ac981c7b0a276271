------------------------------ MODULE IssuerNames ------------------------------
(***************************************************************************)
(* Whether two names are of one issuer (app/deepdive/eu_adr_resolution.py):*)
(* yfinance and OpenFIGI spell it differently, and the comparison has to   *)
(* forgive their spelling and nothing else.  On it rests what Identify in  *)
(* TickerResolution takes for granted, that no issuer is mistaken for      *)
(* another.                                                                *)
(*                                                                         *)
(* A name is the sequence of the tokens that _tokenise makes of it:        *)
(* records [text, hyphenated], where hyphenated says that a hyphen stands  *)
(* before the token.                                                       *)
(***************************************************************************)
EXTENDS TickerResolution, Sequences, Functions

CONSTANTS
  Letters,        \* texts of one letter
  NominalValues,  \* texts that _NOMINAL_VALUE_RE matches
  Issuers,        \* names without additions
  Before, After,  \* what the two sources put before and behind a name
  NamesOf         \* NamesOf[t]: those of Issuers that the one behind t may be called

LISTING_DESCRIPTORS ==
  {"SHS", "SHARES", "CLS", "CL", "CLASS", "REG", "BR", "NY", "ADR", "SPONSORED", "UNSPON",
   "UNSPONSORED", "ORD"}
CLASS_WORDS == {"CLS", "CL", "CLASS", "SHS", "SHARES"}
NOMINAL_INTRODUCERS == {"ORD", "SHS", "SHARES"}

\* Longest first.
LEGAL_FORMS ==
  <<<<"SOCIETE", "EN", "COMMANDITE", "PAR", "ACTIONS">>, <<"PUBLIC", "LIMITED", "COMPANY">>,
    <<"SOCIETA", "PER", "AZIONI">>, <<"SOCIETE", "ANONYME">>, <<"NAAMLOZE", "VENNOOTSCHAP">>,
    <<"AG">>, <<"AKTIENGESELLSCHAFT">>, <<"SA">>, <<"NV">>, <<"PLC">>, <<"SE">>, <<"SPA">>,
    <<"ASA">>, <<"AB">>, <<"TELEFONAKTIEBOLAGET">>, <<"OYJ">>, <<"AS">>, <<"SGPS">>,
    <<"PUBL">>, <<"HOLDING">>, <<"HOLDINGS">>, <<"GROUP">>, <<"INC">>, <<"LTD">>,
    <<"LIMITED">>, <<"COMPANY">>, <<"CORPORATION">>, <<"CORP">>, <<"HLDG">>, <<"HLDGS">>>>

SmallestOf(S) == CHOOSE n \in S : \A m \in S : n <= m

\* The name up to the first token behind which all are dropped, but never nothing.
Kept(name, dropped) ==
  IF name = <<>> THEN name
  ELSE SubSeq(name, 1, SmallestOf({n \in DOMAIN name :
                                     (n + 1)..Len(name) \subseteq dropped}))

DropNominalValueTail(name) ==
  LET kept == Kept(name, {k \in DOMAIN name : name[k].text \in NominalValues})
  IN IF name # <<>> /\ kept[Len(kept)].text \in NOMINAL_INTRODUCERS THEN kept ELSE name

IsShareClassLetter(token, left, right) ==
  /\ token.text \in Letters
  /\ token.hyphenated \/ left \in CLASS_WORDS \/ right \in CLASS_WORDS

\* From the end; the right neighbour of a token is the one that was just dropped.
DropListingDescriptors(name) ==
  LET all == DropNominalValueTail(name)
      right(k) == IF k = Len(all) THEN "" ELSE all[k + 1].text
      dropped(k) == \/ all[k].text \in LISTING_DESCRIPTORS
                    \/ IsShareClassLetter(all[k], all[k - 1].text, right(k))
  IN Kept(all, {k \in 2..Len(all) : dropped(k)})

\* Mutant: a legal form is dropped wherever it stands.
DropLegalForms_Anywhere(texts) == SelectSeq(texts, LAMBDA t : <<t>> \notin Range(LEGAL_FORMS))

AtEnd(form, texts) ==
  /\ Len(texts) > Len(form)
  /\ SubSeq(texts, Len(texts) - Len(form) + 1, Len(texts)) = form
AtStart(form, texts) ==
  Len(texts) > Len(form) /\ SubSeq(texts, 1, Len(form)) = form

\* The first form of the list that stands at an end goes, but never the whole name.
WithoutForm(texts) ==
  LET found == {k \in DOMAIN LEGAL_FORMS :
                  AtEnd(LEGAL_FORMS[k], texts) \/ AtStart(LEGAL_FORMS[k], texts)}
      form == LEGAL_FORMS[SmallestOf(found)]
  IN IF found = {} THEN texts
     ELSE IF AtEnd(form, texts) THEN SubSeq(texts, 1, Len(texts) - Len(form))
     ELSE SubSeq(texts, Len(form) + 1, Len(texts))

\* From both ends until no form is left there.
DropLegalForms(texts) ==
  LET rest[n \in 0..Len(texts)] == IF n = 0 THEN texts ELSE WithoutForm(rest[n - 1])
  IN rest[Len(texts)]

TextsOf(name) == [k \in DOMAIN name |-> name[k].text]

IssuerTokens(name) ==
  DropLegalForms(TextsOf(DropListingDescriptors(name)))

SameWords(s, t) ==
  \A w \in Range(s) \cup Range(t) :
    Cardinality({k \in DOMAIN s : s[k] = w}) = Cardinality({k \in DOMAIN t : t[k] = w})

\* In the same order or in another one.
SameIssuerIdentity(left, right) ==
  LET l == IssuerTokens(left)
      r == IssuerTokens(right)
  IN l # <<>> /\ r # <<>> /\ SameWords(l, r)

-------------------------------------------------------------------------------
(***************************************************************************)
(* What the names are like.                                                *)
(***************************************************************************)
FormTexts == UNION {Range(LEGAL_FORMS[k]) : k \in DOMAIN LEGAL_FORMS}

\* From each of the cuts to the next one stands a legal form.
FormsBetween(texts, cuts) ==
  \A a, b \in cuts : a < b /\ (\A c \in cuts : c <= a \/ b <= c) =>
    \E k \in DOMAIN LEGAL_FORMS : SubSeq(texts, a + 1, b) = LEGAL_FORMS[k]

IsForms(texts) ==
  \E cuts \in SUBSET (0..Len(texts)) :
    0 \in cuts /\ Len(texts) \in cuts /\ FormsBetween(texts, cuts)

\* Descriptors and classes of a listing, and nominal values behind the word that
\* introduces them.
IsListing(name) ==
  \E cut \in 0..Len(name) :
    /\ cut < Len(name) => cut > 0 /\ name[cut].text \in NOMINAL_INTRODUCERS
    /\ \A k \in (cut + 1)..Len(name) : name[k].text \in NominalValues
    /\ \A k \in 1..cut :
         \/ name[k].text \in LISTING_DESCRIPTORS
         \/ /\ name[k].text \in Letters
            /\ \/ name[k].hyphenated
               \/ k > 1 /\ name[k - 1].text \in CLASS_WORDS
               \/ k < cut /\ name[k + 1].text \in CLASS_WORDS

\* A name that has lost its additions: no form at its ends, nothing behind it that tells a
\* listing, no nominal value behind its word.
IsBare(name) ==
  LET n == Len(name)
  IN /\ n > 0
     /\ name[1].text \notin FormTexts /\ name[n].text \notin FormTexts \cup LISTING_DESCRIPTORS
     /\ name[n].text \in Letters =>
          ~name[n].hyphenated /\ (n > 1 => name[n - 1].text \notin CLASS_WORDS)
     /\ \A k \in 1..(n - 1) :
          name[k].text \in NOMINAL_INTRODUCERS => name[k + 1].text \notin NominalValues

Names == Seq([text : STRING, hyphenated : BOOLEAN])

\* Forms stand before a name; forms and then what tells the listing behind it. A class word
\* never stands directly behind a single letter, where it makes the letter a class.
ASSUME NameShapes ==
  /\ Letters \cap (LISTING_DESCRIPTORS \cup FormTexts) = {}
  /\ NominalValues \cap (LISTING_DESCRIPTORS \cup FormTexts \cup Letters) = {}
  /\ \A i \in Issuers : i \in Names /\ IsBare(i)
  /\ \A before \in Before : before \in Names /\ IsForms(TextsOf(before))
  /\ \A after \in After :
       /\ after \in Names
       /\ \E n \in 0..Len(after) :
            IsForms(TextsOf(SubSeq(after, 1, n))) /\ IsListing(SubSeq(after, n + 1, Len(after)))
       /\ \A i \in Issuers :
            i[Len(i)].text \in Letters /\ after # <<>> => after[1].text \notin CLASS_WORDS
  /\ \A t \in EuTickers : NamesOf[t] \subseteq Issuers

\* The issuers that, with anything put around them, are compared as themselves.
Unmistakable ==
  {i \in Issuers :
     \A j \in Issuers, before \in Before, after \in After :
       SameIssuerIdentity(before \o i \o after, j) <=> SameWords(TextsOf(i), TextsOf(j))}

\* "No prefix, no substring, no fuzzy distance" (eu_adr_resolution.py:355): a process that
\* goes on with a verified identity has that of its symbol. Whatever the sources put around
\* the name, legal forms on either side, classes of shares, nominal values, descriptors of a
\* listing, it was taken for this issuer and for no other: neither one whose name begins
\* with it nor one that differs in a letter, or in a word that elsewhere is an addition.
OnlyTheIssuerCounts ==
  \A p \in Procs : stage[p] = "lines" => NamesOf[ticker[p]] \subseteq Unmistakable
===============================================================================

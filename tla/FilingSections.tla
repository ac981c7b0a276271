---------------------------- MODULE FilingSections ----------------------------
(***************************************************************************)
(* The sections that deepdive/filing_parser.py cuts out of an annual       *)
(* filing: by the targets of the links in its table of contents, else by   *)
(* the words "ITEM n" in its text.                                         *)
(*                                                                         *)
(* A filing is a sequence of blocks [heading, dotted, mention, anchor,     *)
(* linked, empty, long]: heading is the item whose heading starts the      *)
(* block, dotted says that a dotted leader and a page number follow it (a  *)
(* row of the table of contents), mention an item named near its start     *)
(* inside a line, anchor the attribute that makes it a target ("id",       *)
(* "name" or None), linked that a link with a text leads to it, empty that *)
(* it has no text, long that it exceeds the cap.  An item is a pair of a   *)
(* number and a letter.                                                    *)
(***************************************************************************)
EXTENDS SourceValues, Integers, FiniteSets, Sequences, SequencesExt

Item(n) == <<n, "">>
FORM_ITEMS == [f \in {"10-K", "20-F"} |->
  IF f = "10-K" THEN {Item(1), <<1, "A">>, Item(7), <<7, "A">>, Item(8)}
  ELSE {Item(4), Item(5), Item(18)}]

Blocks(doc, from, to) == {i \in DOMAIN doc : from <= i /\ i < to}
Least(S) == CHOOSE x \in S : \A y \in S : x <= y

\* The text that follows a place: the first block with text, from there on.
ReadNextText(doc, i) ==
  LET with == {j \in DOMAIN doc : j >= i /\ ~doc[j].empty}
  IN IF with = {} THEN None ELSE doc[Least(with)]

\* The item a block names first.
Names(block) == IF block = None THEN None
                ELSE IF block.heading # None THEN block.heading ELSE block.mention

\* The targets whose text begins with an item, in the order of the document.
ResolveAnchors(doc) ==
  LET hits == {i \in DOMAIN doc : /\ doc[i].anchor # None /\ doc[i].linked
                                  /\ Names(ReadNextText(doc, i)) # None}
  IN [k \in 1..Cardinality(hits) |->
        LET i == SetToSortSeq(hits, <)[k]
        IN [item |-> Names(ReadNextText(doc, i)), at |-> i, attr |-> doc[i].anchor]]

(***************************************************************************)
(* A section: the blocks from up to to, whether it was cut at the cap, and *)
(* the items named in its opening.                                         *)
(***************************************************************************)
Section(doc, from, to, opening) ==
  [blocks |-> Blocks(doc, from, to), opening |-> opening,
   truncated |-> \E i \in Blocks(doc, from, to) : doc[i].long]

Flag(extraction, missing, truncated) ==
  [extraction |-> extraction, missing |-> missing, truncated |-> truncated]

Opening(doc, from, to) ==
  LET texts == {i \in Blocks(doc, from, to) : ~doc[i].empty}
  IN IF texts = {} THEN {} ELSE {Names(doc[Least(texts)])} \ {None}

\* Positions are looked up by id only: a target with a name gives an empty slice, and as
\* the next target it ends nothing.
SliceAligned(doc, a, next) ==
  IF a.attr # "id" THEN Section(doc, 1, 1, {})
  ELSE LET to == IF next = None THEN Len(doc) + 1
                 ELSE IF next.attr # "id" THEN Len(doc) + 1 ELSE next.at
       IN Section(doc, a.at, to, Opening(doc, a.at, to))

\* For each item its last target; what follows ends at the next target of any item.
ExtractViaAnchors(doc, items, anchors) ==
  [item \in items |->
    LET hits == {k \in DOMAIN anchors : anchors[k].item = item}
        a == anchors[CHOOSE k \in hits : \A l \in hits : l <= k]
        later == {k \in DOMAIN anchors : anchors[k].at > a.at}
    IN IF hits = {} THEN [body |-> None, flag |-> Flag("fallback_used", TRUE, FALSE)]
       ELSE LET body == SliceAligned(doc, a, IF later = {} THEN None ELSE anchors[Least(later)])
            IN [body |-> body, flag |-> Flag("ok", FALSE, body.truncated)]]

(***************************************************************************)
(* Without a target of an expected item: the first heading of the item, or *)
(* else its first mention; rows of the table of contents count for         *)
(* neither.  A mention lies behind the heading of its block.               *)
(***************************************************************************)
Linestarts(doc, item) == {2 * i : i \in {j \in DOMAIN doc : doc[j].heading = item /\ ~doc[j].dotted}}
Anypos(doc, item) == {2 * i + 1 : i \in {j \in DOMAIN doc : doc[j].mention = item}}
Tier(doc, item) == IF Linestarts(doc, item) # {} THEN Linestarts(doc, item) ELSE Anypos(doc, item)

ExtractViaPatternFallback(doc, items) ==
  LET chosen == [item \in {x \in items : Tier(doc, x) # {}} |-> Least(Tier(doc, item))]
      later(item) == {chosen[x] : x \in {y \in DOMAIN chosen : chosen[y] > chosen[item]}}
  IN [item \in items |->
       IF item \notin DOMAIN chosen
       THEN [body |-> None, flag |-> Flag("fallback_used", TRUE, FALSE)]
       ELSE LET to == IF later(item) = {} THEN Len(doc) + 1 ELSE (Least(later(item)) + 1) \div 2
                body == Section(doc, chosen[item] \div 2, to, {item})
            IN [body |-> body, flag |-> Flag("fallback_used", FALSE, body.truncated)]]

\* For each item of the form its body, or None, and its flag.
ParseFiling(doc, form) ==
  LET anchors == ResolveAnchors(doc)
      items == FORM_ITEMS[form]
  IN IF \E k \in DOMAIN anchors : anchors[k].item \in items
     THEN ExtractViaAnchors(doc, items, anchors)
     ELSE ExtractViaPatternFallback(doc, items)

\* What goes into the prompt and the record: the sections with a body.
SectionsOf(parsed) == [item \in {x \in DOMAIN parsed : parsed[x].body # None} |-> parsed[item].body]
===============================================================================

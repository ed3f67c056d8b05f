---------------------------- MODULE BoolMeaning ----------------------------
(***************************************************************************)
(* What a query means: the query read as a formula over the text of a      *)
(* document, from its last operator inwards.  It is the reference for what *)
(* module BoolQuery computes; the code has nothing like it.                *)
(***************************************************************************)
EXTENDS BoolQuery

(* The brackets that are open behind item i.                               *)
Depth(q, i) ==
  LET upTo(cmd) == {k \in 1..i : q[k].cmd = cmd}
  IN  Cardinality(upTo("LEFT")) - Cardinality(upTo("RIGHT"))

(* Item k of the part of q that begins with item i stands outside of the   *)
(* phrases and the brackets of that part.                                  *)
Outside(q, i, k) == ~InPhrase(q, k) /\ Depth(q, k) = Depth(q, i - 1)

(* The operators of the part from item i to item j.                        *)
Splits(q, i, j, cmd) == {k \in i..j : q[k].cmd = cmd /\ Outside(q, i, k)}

(* Where the second of two operands begins that have no operator between   *)
(* them.                                                                   *)
Gaps(q, i, j) ==
  {k \in (i + 1)..j : /\ q[k - 1].cmd \in EndsOperand
                      /\ q[k].cmd \in StartsOperand
                      /\ ~InPhrase(q, k)
                      /\ Depth(q, k - 1) = Depth(q, i - 1)}

(* A phrase stands in the text at a place behind off.  Where the phrase    *)
(* has a stop word the text has no word of the query; stop words at the    *)
(* ends of a phrase stand for nothing.                                     *)
PhraseIn(phrase, t) ==
  \E off \in -Len(phrase)..Len(t) :
    \A k \in DOMAIN phrase :
      IF phrase[k].cmd = "WORD"
      THEN off + k \in DOMAIN t /\ t[off + k] = words[phrase[k].arg].word
      ELSE \/ off + k \notin DOMAIN t
           \/ \A j \in 1..(k - 1) : phrase[j].cmd = "STOP"
           \/ \A j \in (k + 1)..Len(phrase) : phrase[j].cmd = "STOP"
           \/ \A o \in DOMAIN words : words[o].word # t[off + k]

(* The meaning of the part of q from item i to item j, where value has the *)
(* meanings of the parts that are shorter: the last | outside of brackets  *)
(* and phrases splits it, then the last &; two operands without an         *)
(* operator between them are split as the search mode says.                *)
PartMeans(q, t, value, i, j) ==
  LET Or(k, l) == value[<<i, k>>] \/ value[<<l, j>>]
      And(k, l) == value[<<i, k>>] /\ value[<<l, j>>]
      ors == Splits(q, i, j, "OR")
      ands == Splits(q, i, j, "AND")
      orGaps == IF mode = "any" THEN Gaps(q, i, j) ELSE {}
      andGaps == IF mode = "any" THEN {} ELSE Gaps(q, i, j)
  IN  IF ors # {} THEN Or(Max(ors) - 1, Max(ors) + 1)
      ELSE IF orGaps # {} THEN Or(Max(orGaps) - 1, Max(orGaps))
      ELSE IF ands # {} THEN And(Max(ands) - 1, Max(ands) + 1)
      ELSE IF andGaps # {} THEN And(Max(andGaps) - 1, Max(andGaps))
      ELSE CASE q[i].cmd = "NOT"    -> ~value[<<i + 1, j>>]
             [] q[i].cmd = "LEFT"   -> value[<<i + 1, j - 1>>]
             [] q[i].cmd = "PHRASE" -> PhraseIn(SubSeq(q, i + 1, j - 1), t)
             [] q[i].cmd = "STOP"   -> TRUE
             [] q[i].cmd = "WORD"   -> Has(t, q[i].arg)

(* upTo[n] has the meanings of the parts of n items and less.              *)
Means(q, t) ==
  LET upTo[n \in 0..Len(q)] ==
        [part \in (DOMAIN q) \X (DOMAIN q) |->
           n > 0 /\ PartMeans(q, t, upTo[n - 1], part[1], part[2])]
  IN  upTo[Len(q)][<<1, Len(q)>>]

(* Mode any forgets the ANDs of a list that has nothing else: see README.  *)
AndForgotten == mode = "any" /\ items = <<>> /\ Count(query, "AND") > 0

(* A document is kept exactly when the query, read as a formula, holds of  *)
(* its text: completion, dropping of the list, the AND and MinMaxPos2      *)
(* short cuts, count[] and the stack machine together (boolean.c:152-250,  *)
(* 282-384, score.c:1676-1850).  A query of one word keeps every document  *)
(* that has the word, as doc/search.xml:898-905 says.                      *)
MatchesMeaning ==
  answer # "typing" /\ nuniq > 1 /\ ~AndForgotten =>
    (answer = "kept" <=> Means(query, text))
=============================================================================

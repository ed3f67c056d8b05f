-------------------------- MODULE BoolQueryProofs --------------------------
(***************************************************************************)
(* Proofs about module BoolQuery, for queries and texts of every length:   *)
(*   BoolType            the items of a query and its words keep their     *)
(*                       types, and closed phrases have their lengths      *)
(*   BoolStackBalanced   the stack machine never takes a value from an     *)
(*                       empty stack and ends with one value, no command   *)
(*   BoolMatchesMeaning  a document is kept exactly when the query, read   *)
(*                       as a formula, holds of its text                   *)
(*                                                                         *)
(* The last one is put together, from the bottom up, from                  *)
(*   MachineMeans    the stack machine gives a query the value of the      *)
(*                   formula, when count[] has what the text has           *)
(*   CompletedTrace  it does the same on the completed list                *)
(*   PhraseChecked, PhraseStands                                           *)
(*                   CheckOnePhrase finds a phrase where it stands         *)
(*   CountedTruth    count[] has the words and phrases that the text has   *)
(*   PlainMeans      what a query of ANDs only, or of ORs only, comes to   *)
(*   NextShape       orders, lengths and brackets of a query that is typed *)
(*   PreparedMatches the completion, the dropped list and the short cuts   *)
(***************************************************************************)
EXTENDS BoolMeaning, Induction, SequenceTheorems, FiniteSetTheorems, TLAPS

-----------------------------------------------------------------------------
(* Stacks.                                                                 *)

Stacks == [cmds : Seq(DOMAIN Code), args : Seq(BOOLEAN), short : BOOLEAN]

\* The commands of two operands on a stack.
Binary(cmds) == {i \in DOMAIN cmds : cmds[i] \in {"OR", "AND"}}

\* Each of them has a left operand that waits; n values are there besides.
Balanced(s, n) == /\ s \in Stacks /\ s.short = FALSE
                  /\ Len(s.args) = Cardinality(Binary(s.cmds)) + n

LEMMA Codes == /\ DOMAIN Code = {"LEFT", "RIGHT", "BOT", "OR", "AND", "NOT"}
               /\ \A c \in DOMAIN Code : Code[c] \in Nat
               /\ Code["BOT"] \in Nat
<1>1. DOMAIN Code = {"LEFT", "RIGHT", "BOT", "OR", "AND", "NOT"}
  BY DEF Code
<1>2. /\ Code["LEFT"] = 0 /\ Code["RIGHT"] = 1 /\ Code["BOT"] = 2
      /\ Code["OR"] = 3 /\ Code["AND"] = 4 /\ Code["NOT"] = 5
  BY DEF Code
<1> QED BY <1>1, <1>2

LEMMA FrontLast ==
    ASSUME NEW X, NEW s \in Seq(X), s # <<>>
    PROVE  /\ Front(s) \in Seq(X) /\ Len(Front(s)) = Len(s) - 1 /\ Last(s) \in X
           /\ \A i \in 1..Len(s) - 1 : Front(s)[i] = s[i]
           /\ Len(s) \in Nat \ {0}
<1>1. Len(s) \in Nat /\ Len(s) # 0
  OBVIOUS
<1>2. Last(s) \in X
  BY <1>1 DEF Last
<1>3. Front(s) = SubSeq(s, 1, Len(s) - 1)
  BY DEF Front
<1>4. /\ Front(s) \in Seq(X) /\ Len(Front(s)) = Len(s) - 1
      /\ \A i \in 1..Len(s) - 1 : Front(s)[i] = s[i]
  <2> DEFINE n == Len(s) - 1
  <2>1. n \in Int /\ n >= 0 /\ \A i \in 1..n : s[i] \in X
    BY <1>1
  <2> HIDE DEF n
  <2>2. /\ SubSeq(s, 1, n) \in Seq(X)
        /\ Len(SubSeq(s, 1, n)) = IF 1 <= n THEN n - 1 + 1 ELSE 0
        /\ \A i \in 1..(n - 1 + 1) : SubSeq(s, 1, n)[i] = s[1 + i - 1]
    BY <2>1, SubSeqProperties
  <2>3. Len(SubSeq(s, 1, n)) = n /\ \A i \in 1..n : SubSeq(s, 1, n)[i] = s[i]
    BY <2>1, <2>2
  <2> QED BY <1>3, <2>2, <2>3 DEF n
<1> QED BY <1>1, <1>2, <1>4

LEMMA BinaryFinite ==
    ASSUME NEW cmds \in Seq(DOMAIN Code)
    PROVE  IsFiniteSet(Binary(cmds)) /\ Cardinality(Binary(cmds)) \in Nat
<1>1. Len(cmds) \in Nat /\ DOMAIN cmds = 1..Len(cmds)
  OBVIOUS
<1>2. IsFiniteSet(1..Len(cmds))
  BY <1>1, FS_Interval
<1>3. Binary(cmds) \in SUBSET (1..Len(cmds))
  BY <1>1 DEF Binary
<1>4. IsFiniteSet(Binary(cmds))
  BY <1>2, <1>3, FS_Subset
<1> QED BY <1>4, FS_CardinalityType

LEMMA BinaryFront ==
    ASSUME NEW cmds \in Seq(DOMAIN Code), cmds # <<>>
    PROVE  Cardinality(Binary(cmds)) =
               Cardinality(Binary(Front(cmds))) + IF Last(cmds) \in {"OR", "AND"} THEN 1 ELSE 0
<1>1. /\ Front(cmds) \in Seq(DOMAIN Code) /\ Len(Front(cmds)) = Len(cmds) - 1
      /\ \A i \in 1..Len(cmds) - 1 : Front(cmds)[i] = cmds[i]
      /\ Len(cmds) \in Nat \ {0}
  BY FrontLast
<1>2. /\ DOMAIN cmds = 1..Len(cmds) /\ DOMAIN Front(cmds) = 1..(Len(cmds) - 1)
      /\ Last(cmds) = cmds[Len(cmds)]
  BY <1>1 DEF Last
<1>3. Len(cmds) \notin Binary(Front(cmds))
  BY <1>1, <1>2 DEF Binary
<1>4. CASE Last(cmds) \in {"OR", "AND"}
  <2>1. Binary(cmds) = Binary(Front(cmds)) \cup {Len(cmds)}
    BY <1>1, <1>2, <1>4 DEF Binary
  <2>2. IsFiniteSet(Binary(Front(cmds)))
    BY <1>1, BinaryFinite
  <2>3. Cardinality(Binary(cmds)) = Cardinality(Binary(Front(cmds))) + 1
    BY <1>3, <2>1, <2>2, FS_AddElement
  <2> QED BY <1>4, <2>3
<1>5. CASE Last(cmds) \notin {"OR", "AND"}
  <2>1. Binary(cmds) = Binary(Front(cmds))
    BY <1>1, <1>2, <1>5 DEF Binary
  <2>2. Cardinality(Binary(Front(cmds))) \in Nat
    BY <1>1, BinaryFinite
  <2> QED BY <1>5, <2>1, <2>2
<1> QED BY <1>4, <1>5

LEMMA BinaryAppend ==
    ASSUME NEW cmds \in Seq(DOMAIN Code), NEW c \in DOMAIN Code
    PROVE  /\ Append(cmds, c) \in Seq(DOMAIN Code)
           /\ Cardinality(Binary(Append(cmds, c))) =
                 Cardinality(Binary(cmds)) + IF c \in {"OR", "AND"} THEN 1 ELSE 0
<1> DEFINE more == Append(cmds, c)
<1>1. /\ more \in Seq(DOMAIN Code) /\ more # <<>> /\ Len(more) = Len(cmds) + 1
      /\ \A i \in 1..Len(cmds) : more[i] = cmds[i]
      /\ more[Len(cmds) + 1] = c /\ Len(cmds) \in Nat
  OBVIOUS
<1> HIDE DEF more
<1>2. Last(more) = c
  BY <1>1 DEF Last
<1>3. Front(more) = cmds
  BY <1>1 DEF Front
<1>4. Cardinality(Binary(more)) =
          Cardinality(Binary(cmds)) + IF c \in {"OR", "AND"} THEN 1 ELSE 0
  BY <1>1, <1>2, <1>3, BinaryFront
<1> QED BY <1>1, <1>4 DEF more

LEMMA StackParts ==
    ASSUME NEW s \in Stacks
    PROVE  /\ s.cmds \in Seq(DOMAIN Code) /\ s.args \in Seq(BOOLEAN) /\ s.short \in BOOLEAN
           /\ Len(s.cmds) \in Nat /\ Len(s.args) \in Nat
<1>1. s.cmds \in Seq(DOMAIN Code) /\ s.args \in Seq(BOOLEAN) /\ s.short \in BOOLEAN
  BY DEF Stacks
<1> QED BY <1>1

LEMMA WithCmds ==
    ASSUME NEW s \in Stacks, NEW c \in Seq(DOMAIN Code)
    PROVE  /\ [s EXCEPT !.cmds = c] \in Stacks
           /\ [s EXCEPT !.cmds = c].cmds = c
           /\ [s EXCEPT !.cmds = c].args = s.args
           /\ [s EXCEPT !.cmds = c].short = s.short
BY DEF Stacks

LEMMA WithArgs ==
    ASSUME NEW s \in Stacks, NEW a \in Seq(BOOLEAN)
    PROVE  /\ [s EXCEPT !.args = a] \in Stacks
           /\ [s EXCEPT !.args = a].args = a
           /\ [s EXCEPT !.args = a].cmds = s.cmds
           /\ [s EXCEPT !.args = a].short = s.short
BY DEF Stacks

LEMMA WithShort ==
    ASSUME NEW s \in Stacks
    PROVE  /\ [s EXCEPT !.short = TRUE] \in Stacks
           /\ [s EXCEPT !.short = TRUE].cmds = s.cmds
           /\ [s EXCEPT !.short = TRUE].args = s.args
BY DEF Stacks

LEMMA PopArgFacts ==
    ASSUME NEW s \in Stacks
    PROVE  /\ PopArg(s) \in Stacks /\ PopArg(s).cmds = s.cmds
           /\ s.args # <<>> => /\ PopArg(s).short = s.short
                               /\ Len(PopArg(s).args) = Len(s.args) - 1
<1>1. s.args \in Seq(BOOLEAN)
  BY StackParts
<1>2. CASE s.args = <<>>
  <2>1. PopArg(s) = [s EXCEPT !.short = TRUE]
    BY <1>2 DEF PopArg
  <2> QED BY <1>2, <2>1, WithShort
<1>3. CASE s.args # <<>>
  <2>1. PopArg(s) = [s EXCEPT !.args = Front(s.args)]
    BY <1>3 DEF PopArg
  <2>2. Front(s.args) \in Seq(BOOLEAN) /\ Len(Front(s.args)) = Len(s.args) - 1
    BY <1>1, <1>3, FrontLast
  <2> QED BY <1>3, <2>1, <2>2, WithArgs
<1> QED BY <1>2, <1>3

LEMMA TopArgFacts ==
    ASSUME NEW s \in Stacks
    PROVE  TopArg(s) \in BOOLEAN
<1>1. s.args \in Seq(BOOLEAN)
  BY StackParts
<1>2. s.args # <<>> => Last(s.args) \in BOOLEAN
  BY <1>1, FrontLast
<1> QED BY <1>2 DEF TopArg

LEMMA PushArgFacts ==
    ASSUME NEW s \in Stacks, NEW x \in BOOLEAN
    PROVE  /\ PushArg(s, x) \in Stacks /\ PushArg(s, x).cmds = s.cmds
           /\ PushArg(s, x).short = s.short
           /\ Len(PushArg(s, x).args) = Len(s.args) + 1
<1> DEFINE more == Append(s.args, x)
<1>1. PushArg(s, x) = [s EXCEPT !.args = more]
  BY DEF PushArg
<1>2. more \in Seq(BOOLEAN) /\ Len(more) = Len(s.args) + 1
  BY StackParts
<1> HIDE DEF more
<1> QED BY <1>1, <1>2, WithArgs

LEMMA PushCmdFacts ==
    ASSUME NEW s \in Stacks, NEW c \in DOMAIN Code
    PROVE  /\ PushCmd(s, c) \in Stacks /\ PushCmd(s, c).args = s.args
           /\ PushCmd(s, c).short = s.short
           /\ Cardinality(Binary(PushCmd(s, c).cmds)) =
                 Cardinality(Binary(s.cmds)) + IF c \in {"OR", "AND"} THEN 1 ELSE 0
<1> DEFINE more == Append(s.cmds, c)
<1>1. PushCmd(s, c) = [s EXCEPT !.cmds = more]
  BY DEF PushCmd
<1>2. s.cmds \in Seq(DOMAIN Code)
  BY StackParts
<1>3. /\ more \in Seq(DOMAIN Code)
      /\ Cardinality(Binary(more)) =
            Cardinality(Binary(s.cmds)) + IF c \in {"OR", "AND"} THEN 1 ELSE 0
  BY <1>2, BinaryAppend
<1> HIDE DEF more
<1> QED BY <1>1, <1>3, WithCmds

LEMMA PopCmdFacts ==
    ASSUME NEW s \in Stacks, s.cmds # <<>>
    PROVE  /\ PopCmd(s) \in Stacks /\ PopCmd(s).args = s.args /\ PopCmd(s).short = s.short
           /\ TopCmd(s) \in DOMAIN Code
           /\ Len(PopCmd(s).cmds) = Len(s.cmds) - 1
           /\ Cardinality(Binary(s.cmds)) =
                 Cardinality(Binary(PopCmd(s).cmds))
                     + IF TopCmd(s) \in {"OR", "AND"} THEN 1 ELSE 0
<1>1. PopCmd(s) = [s EXCEPT !.cmds = Front(s.cmds)] /\ TopCmd(s) = Last(s.cmds)
  BY DEF PopCmd, TopCmd
<1>2. s.cmds \in Seq(DOMAIN Code)
  BY StackParts
<1>3. /\ Front(s.cmds) \in Seq(DOMAIN Code) /\ Len(Front(s.cmds)) = Len(s.cmds) - 1
      /\ Last(s.cmds) \in DOMAIN Code
  BY <1>2, FrontLast
<1>4. Cardinality(Binary(s.cmds)) =
          Cardinality(Binary(Front(s.cmds))) + IF Last(s.cmds) \in {"OR", "AND"} THEN 1 ELSE 0
  BY <1>2, BinaryFront
<1> QED BY <1>1, <1>3, <1>4, WithCmds

\* A command takes the values of its operands and leaves one.
LEMMA PerformFacts ==
    ASSUME NEW s \in Stacks, NEW c \in DOMAIN Code
    PROVE  /\ perform(s, c) \in Stacks /\ perform(s, c).cmds = s.cmds
           /\ c \in {"OR", "AND"} /\ Len(s.args) >= 2 =>
                 perform(s, c).short = s.short /\ Len(perform(s, c).args) = Len(s.args) - 1
           /\ c \notin {"OR", "AND"} /\ Len(s.args) >= 1 =>
                 perform(s, c).short = s.short /\ Len(perform(s, c).args) = Len(s.args)
<1> DEFINE one == PopArg(s)
           two == PopArg(one)
           x1 == TopArg(s)
           x2 == TopArg(one)
<1>1. /\ s.args \in Seq(BOOLEAN) /\ Len(s.args) \in Nat
  BY StackParts
<1>2. /\ one \in Stacks /\ one.cmds = s.cmds
      /\ Len(s.args) >= 1 => one.short = s.short /\ Len(one.args) = Len(s.args) - 1
  <2>1. Len(s.args) >= 1 => s.args # <<>>
    BY <1>1
  <2> QED BY <2>1, PopArgFacts
<1>3. /\ x1 \in BOOLEAN /\ x2 \in BOOLEAN
  BY <1>2, TopArgFacts
<1>4. /\ two \in Stacks /\ two.cmds = s.cmds
      /\ Len(s.args) >= 2 => two.short = s.short /\ Len(two.args) = Len(s.args) - 2
  <2> HIDE DEF one
  <2>1. one.args \in Seq(BOOLEAN)
    BY <1>2, StackParts
  <2>2. Len(s.args) >= 2 => one.args # <<>>
    BY <1>1, <1>2, <2>1
  <2>3. /\ two \in Stacks /\ two.cmds = one.cmds
        /\ one.args # <<>> => two.short = one.short /\ Len(two.args) = Len(one.args) - 1
    BY <1>2, PopArgFacts
  <2> HIDE DEF two
  <2> QED BY <1>1, <1>2, <2>2, <2>3
<1>5. /\ perform(s, "OR") = PushArg(two, x1 \/ x2)
      /\ perform(s, "AND") = PushArg(two, x1 /\ x2)
      /\ perform(s, "NOT") = PushArg(one, ~x1)
      /\ c \notin {"OR", "AND", "NOT"} => perform(s, c) = s
  BY DEF perform
<1> HIDE DEF one, two, x1, x2
<1>6. CASE c \in {"OR", "AND"}
  <2>1. \E x \in BOOLEAN : perform(s, c) = PushArg(two, x)
    <3>1. (x1 \/ x2) \in BOOLEAN /\ (x1 /\ x2) \in BOOLEAN
      BY <1>3, Zenon
    <3>2. CASE c = "OR"
      BY <1>5, <3>1, <3>2, Zenon
    <3>3. CASE c = "AND"
      BY <1>5, <3>1, <3>3, Zenon
    <3> QED BY <1>6, <3>2, <3>3
  <2>2. PICK x \in BOOLEAN : perform(s, c) = PushArg(two, x)
    BY <2>1
  <2>3. /\ PushArg(two, x) \in Stacks /\ PushArg(two, x).cmds = two.cmds
        /\ PushArg(two, x).short = two.short
        /\ Len(PushArg(two, x).args) = Len(two.args) + 1
    BY <1>4, PushArgFacts
  <2> QED BY <1>1, <1>4, <1>6, <2>2, <2>3
<1>7. CASE c = "NOT"
  <2>1. \E x \in BOOLEAN : perform(s, c) = PushArg(one, x)
    BY <1>3, <1>5, <1>7, Zenon
  <2>2. PICK x \in BOOLEAN : perform(s, c) = PushArg(one, x)
    BY <2>1
  <2>3. /\ PushArg(one, x) \in Stacks /\ PushArg(one, x).cmds = one.cmds
        /\ PushArg(one, x).short = one.short
        /\ Len(PushArg(one, x).args) = Len(one.args) + 1
    BY <1>2, PushArgFacts
  <2> QED BY <1>1, <1>2, <1>7, <2>2, <2>3
<1>8. CASE c \notin {"OR", "AND", "NOT"}
  BY <1>5, <1>8
<1> QED BY <1>6, <1>7, <1>8

-----------------------------------------------------------------------------
(* The commands on top of a stack are performed.                           *)

\* While at least one value is there besides, a turn keeps the balance.
LEMMA TurnBalanced ==
    ASSUME NEW s, Balanced(s, 1), NEW code \in Nat
    PROVE  /\ Balanced(Turn(s, code), 1)
           /\ code = 0 /\ s.cmds # <<>> => Len(Turn(s, code).cmds) = Len(s.cmds) - 1
<1>1. /\ s \in Stacks /\ s.short = FALSE
      /\ Len(s.args) = Cardinality(Binary(s.cmds)) + 1
  BY DEF Balanced
<1>2. CASE s.cmds # <<>> /\ code <= Code[TopCmd(s)]
  <2> DEFINE p == PopCmd(s)
             c == TopCmd(s)
             t == perform(p, c)
  <2>1. Turn(s, code) = t
    BY <1>2 DEF Turn
  <2>2. /\ p \in Stacks /\ p.args = s.args /\ p.short = s.short /\ c \in DOMAIN Code
        /\ Len(p.cmds) = Len(s.cmds) - 1
        /\ Cardinality(Binary(s.cmds)) =
              Cardinality(Binary(p.cmds)) + IF c \in {"OR", "AND"} THEN 1 ELSE 0
    BY <1>1, <1>2, PopCmdFacts
  <2> HIDE DEF p, c
  <2>3. Cardinality(Binary(p.cmds)) \in Nat
    BY <2>2, StackParts, BinaryFinite
  <2>4. /\ c \in {"OR", "AND"} => Len(p.args) >= 2
        /\ c \notin {"OR", "AND"} => Len(p.args) >= 1
    BY <1>1, <2>2, <2>3
  <2>5. /\ t \in Stacks /\ t.cmds = p.cmds
        /\ c \in {"OR", "AND"} => t.short = p.short /\ Len(t.args) = Len(p.args) - 1
        /\ c \notin {"OR", "AND"} => t.short = p.short /\ Len(t.args) = Len(p.args)
    BY <2>2, <2>4, PerformFacts
  <2> HIDE DEF t
  <2>6. Len(t.args) = Cardinality(Binary(t.cmds)) + 1 /\ t.short = FALSE
    BY <1>1, <2>2, <2>3, <2>5
  <2> QED BY <2>1, <2>2, <2>5, <2>6 DEF Balanced
<1>3. CASE ~(s.cmds # <<>> /\ code <= Code[TopCmd(s)])
  <2>1. Turn(s, code) = s
    BY <1>3 DEF Turn
  <2>2. s.cmds # <<>> => TopCmd(s) \in DOMAIN Code
    BY <1>1, PopCmdFacts
  <2>3. code = 0 => s.cmds = <<>>
    BY <1>3, <2>2, Codes
  <2> QED BY <2>1, <2>3
<1> QED BY <1>2, <1>3

LEMMA UnwindBalanced ==
    ASSUME NEW s, Balanced(s, 1), NEW code \in Nat
    PROVE  /\ Balanced(Unwind(s, code), 1)
           /\ code = 0 => Unwind(s, code).cmds = <<>>
<1> DEFINE N == Len(s.cmds)
           S == {t \in Stacks : Balanced(t, 1)}
           Rec(h) == h = [n \in 0..N |-> IF n = 0 THEN s ELSE Turn(h[n - 1], code)]
           after == CHOOSE h : Rec(h)
<1>1. s \in S /\ s.cmds \in Seq(DOMAIN Code) /\ N \in Nat
  BY StackParts DEF Balanced
<1>2. \A t \in S : Turn(t, code) \in S
  BY TurnBalanced DEF Balanced
<1>3. Unwind(s, code) = after[N]
  BY DEF Unwind
<1>4. \E h : Rec(h)
  <2> DEFINE F == [p \in S \X Nat |-> Turn(p[1], code)]
  <2>1. F \in Steps(S)
    <3> HIDE DEF S
    <3> QED BY <1>2 DEF Steps
  <2> HIDE DEF S, N, F
  <2>2. PICK f : Follows(f, S, s, F, N)
    BY <1>1, <2>1, BoundedRecursion
  <2>5. /\ f \in [0..N -> S] /\ f[0] = s
        /\ \A n \in 1..N : f[n] = F[<<f[n - 1], n - 1>>]
    BY <2>2 DEF Follows
  <2>3. ASSUME NEW n \in 1..N PROVE f[n] = Turn(f[n - 1], code)
    <3>1. n - 1 \in Nat /\ n - 1 \in 0..N
      BY <1>1
    <3>2. <<f[n - 1], n - 1>> \in S \X Nat
      BY <2>5, <3>1
    <3>3. F[<<f[n - 1], n - 1>>] = Turn(f[n - 1], code)
      BY <3>2 DEF F
    <3> QED BY <2>5, <3>3
  <2>4. Rec(f)
    BY <1>1, <2>5, <2>3
  <2> QED BY <2>4
<1>5. Rec(after)
  <2> HIDE DEF Rec
  <2> QED BY <1>4
<1>6. /\ after[0] = s
      /\ \A n \in 1..N : after[n] = Turn(after[n - 1], code)
  <2> HIDE DEF after, N
  <2> QED BY <1>1, <1>5
<1> HIDE DEF after, Rec, N
<1> DEFINE P(n) == /\ Balanced(after[n], 1)
                   /\ code = 0 => Len(after[n].cmds) = N - n
           Good == {n \in 0..N : P(n)}
<1>7. 0 \in Good
  <2>1. Balanced(s, 1) /\ N = Len(s.cmds) /\ 0 \in 0..N
    BY <1>1 DEF N
  <2>2. P(0)
    BY <1>1, <1>6, <2>1
  <2> QED BY <2>1, <2>2
<1>8. ASSUME NEW n \in 1..N, n - 1 \in Good PROVE n \in Good
  <2>0. P(n - 1)
    <3> HIDE DEF P
    <3> QED BY <1>8
  <2>1. after[n] = Turn(after[n - 1], code)
    BY <1>6
  <2>2. /\ Balanced(after[n], 1)
        /\ code = 0 /\ after[n - 1].cmds # <<>> => Len(after[n].cmds) = Len(after[n - 1].cmds) - 1
    BY <2>0, <2>1, TurnBalanced
  <2>3. code = 0 => after[n - 1].cmds # <<>>
    BY <1>1, <2>0
  <2>4. P(n)
    <3>1. ASSUME code = 0 PROVE Len(after[n].cmds) = N - n
      <4>1. Len(after[n].cmds) = Len(after[n - 1].cmds) - 1
        BY <2>2, <2>3, <3>1
      <4>2. Len(after[n - 1].cmds) = N - (n - 1)
        BY <2>0, <3>1
      <4> HIDE DEF P
      <4> QED BY <1>1, <4>1, <4>2
    <3> QED BY <2>2, <3>1
  <2>5. n \in 0..N
    BY <1>1
  <2> HIDE DEF P
  <2> QED BY <2>4, <2>5
<1>9. N \in Good
  <2>1. N \in 0..N
    BY <1>1
  <2> HIDE DEF Good
  <2>2. 0..N \subseteq Good
    BY <1>1, <1>7, <1>8, BoundedInduction, Zenon
  <2> QED BY <2>1, <2>2
<1>10. Balanced(after[N], 1) /\ (code = 0 => Len(after[N].cmds) = 0)
  <2>1. P(N)
    <3> HIDE DEF P
    <3> QED BY <1>9
  <2> QED BY <1>1, <2>1
<1>11. code = 0 => after[N].cmds = <<>>
  BY <1>10, StackParts DEF Balanced
<1> QED BY <1>3, <1>10, <1>11

-----------------------------------------------------------------------------
(* Phrases in a list.                                                      *)

LEMMA InPhraseStep ==
    ASSUME NEW list, NEW i \in Nat \ {0}
    PROVE  /\ ~InPhrase(list, 1)
           /\ InPhrase(list, i + 1) <=> (InPhrase(list, i) <=> list[i].cmd # "PHRASE")
<1> DEFINE Quotes(n) == {j \in 1..(n - 1) : list[j].cmd = "PHRASE"}
<1>1. \A n \in Nat : InPhrase(list, n) <=> Cardinality(Quotes(n)) % 2 = 1
  BY DEF InPhrase
<1>2. Quotes(1) = {}
  OBVIOUS
<1>3. IsFiniteSet(Quotes(i)) /\ Cardinality(Quotes(i)) \in Nat
  <2>1. IsFiniteSet(1..(i - 1)) /\ Quotes(i) \subseteq 1..(i - 1)
    BY FS_Interval
  <2> QED BY <2>1, FS_Subset, FS_CardinalityType
<1>6. ~InPhrase(list, 1)
  <2>1. InPhrase(list, 1) <=> Cardinality(Quotes(1)) % 2 = 1
    BY <1>1
  <2> HIDE DEF Quotes
  <2>2. Cardinality(Quotes(1)) = 0
    BY <1>2, FS_EmptySet
  <2> QED BY <2>1, <2>2
<1>7. /\ InPhrase(list, i) <=> Cardinality(Quotes(i)) % 2 = 1
      /\ InPhrase(list, i + 1) <=> Cardinality(Quotes(i + 1)) % 2 = 1
  <2>1. i \in Nat /\ i + 1 \in Nat
    OBVIOUS
  <2> HIDE DEF Quotes
  <2> QED BY <1>1, <2>1
<1>4. CASE list[i].cmd = "PHRASE"
  <2>1. Quotes(i + 1) = Quotes(i) \cup {i} /\ i \notin Quotes(i)
    BY <1>4
  <2> HIDE DEF Quotes
  <2>2. Cardinality(Quotes(i + 1)) = Cardinality(Quotes(i)) + 1
    BY <1>3, <2>1, FS_AddElement
  <2> DEFINE c == Cardinality(Quotes(i))
  <2>3. (c + 1) % 2 = 1 <=> ~(c % 2 = 1)
    <3>1. c \in Nat
      BY <1>3
    <3> HIDE DEF c
    <3> QED BY <3>1
  <2>4. InPhrase(list, i + 1) <=> ~InPhrase(list, i)
    BY <1>7, <2>2, <2>3
  <2> QED BY <1>4, <1>6, <2>4, Zenon
<1>5. CASE list[i].cmd # "PHRASE"
  <2>1. Quotes(i + 1) = Quotes(i)
    BY <1>5
  <2> HIDE DEF Quotes
  <2>2. InPhrase(list, i + 1) <=> InPhrase(list, i)
    BY <1>7, <2>1
  <2> QED BY <1>5, <1>6, <2>2, Zenon
<1> QED BY <1>4, <1>5

\* What stands behind an item does not matter to it.
LEMMA InPhraseSame ==
    ASSUME NEW list, NEW more, NEW i \in Nat \ {0}, \A j \in 1..(i - 1) : more[j] = list[j]
    PROVE  InPhrase(more, i) <=> InPhrase(list, i)
<1>1. {j \in 1..(i - 1) : more[j].cmd = "PHRASE"} = {j \in 1..(i - 1) : list[j].cmd = "PHRASE"}
  OBVIOUS
<1> QED BY <1>1 DEF InPhrase

-----------------------------------------------------------------------------
(* Lists whose operators stand between operands.                           *)

Cmds == {"OR", "AND", "NOT", "LEFT", "RIGHT", "WORD", "STOP", "PHRASE"}

\* Items of a query of n words.
ItemSet(n) == {it \in [cmd : Cmds, arg : Nat] :
                 it.arg \in IF it.cmd = "WORD" THEN 1..n ELSE 0..(n + 1)}

InOrder(list, i) ==
  /\ list[i].cmd \in Cmds
  /\ InPhrase(list, i) => list[i].cmd \in {"WORD", "STOP", "PHRASE"}

\* A query that was typed: an operator of two operands and a right bracket
\* follow an operand.
Typed(list) ==
  \A i \in DOMAIN list :
     /\ InOrder(list, i)
     /\ ~InPhrase(list, i) /\ list[i].cmd \notin StartsOperand =>
           i > 1 /\ list[i - 1].cmd \in EndsOperand

\* A list that is computed: besides, no operand follows another one.
Alternates(list) ==
  \A i \in DOMAIN list :
     /\ InOrder(list, i)
     /\ ~InPhrase(list, i) =>
           (list[i].cmd \notin StartsOperand <=> i > 1 /\ list[i - 1].cmd \in EndsOperand)

\* What stands before an item of a phrase ends an operand.
LEMMA BeforeInPhrase ==
    ASSUME NEW list, \A i \in DOMAIN list : InOrder(list, i),
           NEW i \in DOMAIN list, DOMAIN list = 1..Len(list), Len(list) \in Nat, InPhrase(list, i)
    PROVE  i - 1 \in DOMAIN list /\ list[i - 1].cmd \in EndsOperand
<1>1. i # 1 /\ i - 1 \in DOMAIN list /\ i - 1 \in Nat \ {0} /\ (i - 1) + 1 = i
  <2>1. i # 1
    BY InPhraseStep
  <2> QED BY <2>1
<1>2. list[i - 1].cmd = "PHRASE" \/ InPhrase(list, i - 1)
  <2> DEFINE k == i - 1
  <2>1. k \in Nat \ {0} /\ InPhrase(list, k + 1)
    BY <1>1
  <2> HIDE DEF k
  <2>2. InPhrase(list, k) \/ list[k].cmd = "PHRASE"
    BY <2>1, InPhraseStep
  <2> QED BY <2>2 DEF k
<1>3. InOrder(list, i - 1)
  BY <1>1
<1> QED BY <1>1, <1>2, <1>3 DEF InOrder, EndsOperand

\* The values on the stack after item i that no command waits for.
Values(list, i) == IF i > 0 /\ list[i].cmd \in EndsOperand THEN 1 ELSE 0

LEMMA CloseBalanced ==
    ASSUME NEW s, Balanced(s, 1)
    PROVE  Balanced(CloseBracket(s), 1)
<1> DEFINE inner == Unwind(s, Code["BOT"] + 1)
<1>1. Balanced(inner, 1)
  <2>1. Code["BOT"] + 1 \in Nat
    BY Codes
  <2> QED BY <2>1, UnwindBalanced
<1>2. CloseBracket(s) = IF TopCmd(inner) = "LEFT" THEN PopCmd(inner) ELSE inner
  BY DEF CloseBracket
<1> HIDE DEF inner
<1>3. CASE TopCmd(inner) = "LEFT"
  <2>1. inner.cmds # <<>>
    BY <1>3 DEF TopCmd
  <2>2. /\ PopCmd(inner) \in Stacks /\ PopCmd(inner).args = inner.args
        /\ PopCmd(inner).short = inner.short
        /\ Cardinality(Binary(inner.cmds)) =
              Cardinality(Binary(PopCmd(inner).cmds))
                 + IF TopCmd(inner) \in {"OR", "AND"} THEN 1 ELSE 0
    BY <1>1, <2>1, PopCmdFacts DEF Balanced
  <2>3. PopCmd(inner).cmds \in Seq(DOMAIN Code)
    BY <2>2, StackParts
  <2>4. Cardinality(Binary(PopCmd(inner).cmds)) \in Nat
    BY <2>3, BinaryFinite
  <2>5. Balanced(PopCmd(inner), 1)
    BY <1>1, <1>3, <2>2, <2>4 DEF Balanced
  <2> QED BY <1>2, <1>3, <2>5
<1>4. CASE TopCmd(inner) # "LEFT"
  BY <1>1, <1>2, <1>4
<1> QED BY <1>3, <1>4

\* One turn of the loop over the items.
LEMMA CalcBalanced ==
    ASSUME NEW list, Alternates(list), DOMAIN list = 1..Len(list), Len(list) \in Nat,
           NEW count, NEW i \in 1..Len(list), NEW s, Balanced(s, Values(list, i - 1))
    PROVE  Balanced(Calc(list, count, s, i), Values(list, i))
<1> DEFINE cmd == list[i].cmd
<1>1. /\ cmd \in Cmds
      /\ InPhrase(list, i) => cmd \in {"WORD", "STOP", "PHRASE"}
      /\ ~InPhrase(list, i) =>
            (cmd \notin StartsOperand <=> i > 1 /\ list[i - 1].cmd \in EndsOperand)
  BY DEF Alternates, InOrder
<1>2. Values(list, i) = IF cmd \in EndsOperand THEN 1 ELSE 0
  BY DEF Values
<1>3. /\ i > 1 /\ list[i - 1].cmd \in EndsOperand => Values(list, i - 1) = 1
      /\ ~(i > 1 /\ list[i - 1].cmd \in EndsOperand) => Values(list, i - 1) = 0
  BY DEF Values
<1>4. /\ s \in Stacks /\ s.short = FALSE /\ s.cmds \in Seq(DOMAIN Code)
      /\ Len(s.args) = Cardinality(Binary(s.cmds)) + Values(list, i - 1)
      /\ Cardinality(Binary(s.cmds)) \in Nat
  BY StackParts, BinaryFinite DEF Balanced
<1>5. CASE InPhrase(list, i)
  <2>1. Calc(list, count, s, i) = s
    BY <1>5 DEF Calc
  <2>2. i > 1 /\ list[i - 1].cmd \in EndsOperand
    <3>1. \A j \in DOMAIN list : InOrder(list, j)
      BY DEF Alternates
    <3>2. i - 1 \in DOMAIN list /\ list[i - 1].cmd \in EndsOperand
      BY <1>5, <3>1, BeforeInPhrase
    <3> QED BY <3>2
  <2>3. Values(list, i - 1) = 1 /\ Values(list, i) = 1
    BY <1>1, <1>2, <1>3, <1>5, <2>2 DEF EndsOperand
  <2> QED BY <2>1, <2>3
<1> DEFINE c == Calc(list, count, s, i)
<1>6. ASSUME ~InPhrase(list, i)
      PROVE  /\ cmd = "RIGHT" => c = CloseBracket(s)
             /\ cmd = "OR" => c = PushCmd(Unwind(s, Code["OR"]), "OR")
             /\ cmd = "AND" => c = PushCmd(Unwind(s, Code["AND"]), "AND")
             /\ cmd \in {"LEFT", "NOT"} => c = PushCmd(s, cmd)
             /\ cmd \in {"PHRASE", "STOP", "WORD"} => \E x \in BOOLEAN : c = PushArg(s, x)
  <2>1. cmd = "RIGHT" => c = CloseBracket(s)
    BY <1>6 DEF Calc
  <2>2. /\ cmd = "OR" => c = PushCmd(Unwind(s, Code["OR"]), "OR")
        /\ cmd = "AND" => c = PushCmd(Unwind(s, Code["AND"]), "AND")
    BY <1>6 DEF Calc
  <2>3. cmd \in {"LEFT", "NOT"} => c = PushCmd(s, cmd)
    BY <1>6 DEF Calc
  <2>4. cmd = "PHRASE" => c = PushArg(s, list[i + 1].arg \in count)
    BY <1>6 DEF Calc
  <2>5. cmd = "STOP" => c = PushArg(s, TRUE)
    BY <1>6 DEF Calc
  <2>6. cmd = "WORD" => c = PushArg(s, list[i].arg \in count)
    BY <1>6 DEF Calc
  <2>7. TRUE \in BOOLEAN /\ \A x : (x \in count) \in BOOLEAN
    OBVIOUS
  <2> HIDE DEF c, cmd
  <2>8. cmd \in {"PHRASE", "STOP", "WORD"} => \E x \in BOOLEAN : c = PushArg(s, x)
    <3>1. CASE cmd = "PHRASE"
      BY <2>4, <2>7, <3>1, Zenon
    <3>2. CASE cmd = "STOP"
      BY <2>5, <2>7, <3>2, Zenon
    <3>3. CASE cmd = "WORD"
      BY <2>6, <2>7, <3>3, Zenon
    <3> QED BY <3>1, <3>2, <3>3
  <2> QED BY <2>1, <2>2, <2>3, <2>8
<1> HIDE DEF c, cmd
<1>7. CASE ~InPhrase(list, i) /\ cmd \in {"PHRASE", "STOP", "WORD"}
  <2>1. PICK x \in BOOLEAN : c = PushArg(s, x)
    BY <1>6, <1>7
  <2>2. c \in Stacks /\ c.cmds = s.cmds /\ c.short = s.short /\ Len(c.args) = Len(s.args) + 1
    BY <1>4, <2>1, PushArgFacts
  <2>3. Values(list, i - 1) = 0 /\ Values(list, i) = 1
    BY <1>1, <1>2, <1>3, <1>7 DEF EndsOperand, StartsOperand
  <2>4. Balanced(c, Values(list, i))
    BY <1>4, <2>2, <2>3 DEF Balanced
  <2> QED BY <2>4 DEF c
<1>8. CASE ~InPhrase(list, i) /\ cmd \in {"LEFT", "NOT"}
  <2>1. c = PushCmd(s, cmd) /\ cmd \in DOMAIN Code /\ cmd \notin {"OR", "AND"}
    BY <1>6, <1>8, Codes
  <2>2. /\ c \in Stacks /\ c.args = s.args /\ c.short = s.short
        /\ Cardinality(Binary(c.cmds)) = Cardinality(Binary(s.cmds)) + 0
    BY <1>4, <2>1, PushCmdFacts
  <2>3. Values(list, i - 1) = 0 /\ Values(list, i) = 0
    BY <1>1, <1>2, <1>3, <1>8 DEF EndsOperand, StartsOperand
  <2>4. Balanced(c, Values(list, i))
    BY <1>4, <2>2, <2>3 DEF Balanced
  <2> QED BY <2>4 DEF c
<1>9. CASE ~InPhrase(list, i) /\ cmd = "RIGHT"
  <2>1. Values(list, i - 1) = 1 /\ Values(list, i) = 1
    BY <1>1, <1>2, <1>3, <1>9 DEF EndsOperand, StartsOperand
  <2>2. Balanced(CloseBracket(s), 1)
    BY <2>1, CloseBalanced
  <2>3. c = CloseBracket(s)
    BY <1>6, <1>9
  <2> QED BY <2>1, <2>2, <2>3 DEF c
<1>10. CASE ~InPhrase(list, i) /\ cmd \in {"OR", "AND"}
  <2> DEFINE t == Unwind(s, Code[cmd])
  <2>1. c = PushCmd(t, cmd) /\ cmd \in DOMAIN Code
    BY <1>6, <1>10, Codes
  <2>2. Values(list, i - 1) = 1 /\ Values(list, i) = 0
    BY <1>1, <1>2, <1>3, <1>10 DEF EndsOperand, StartsOperand
  <2>3. Code[cmd] \in Nat
    BY <2>1, Codes
  <2>4. Balanced(t, 1)
    BY <2>2, <2>3, UnwindBalanced
  <2> HIDE DEF t
  <2>5. /\ t \in Stacks /\ t.short = FALSE /\ t.cmds \in Seq(DOMAIN Code)
        /\ Len(t.args) = Cardinality(Binary(t.cmds)) + 1
        /\ Cardinality(Binary(t.cmds)) \in Nat
    BY <2>4, StackParts, BinaryFinite DEF Balanced
  <2>6. /\ c \in Stacks /\ c.args = t.args /\ c.short = t.short
        /\ Cardinality(Binary(c.cmds)) = Cardinality(Binary(t.cmds)) + 1
    BY <1>10, <2>1, <2>5, PushCmdFacts
  <2>7. Balanced(c, Values(list, i))
    BY <2>2, <2>5, <2>6 DEF Balanced
  <2> QED BY <2>7 DEF c
<1> QED BY <1>1, <1>5, <1>7, <1>8, <1>9, <1>10 DEF Cmds

\* The machine takes no value from an empty stack, and ends with one value
\* and no command.
\* stack[i] is the stack behind item i of a list that is computed.
Stacked(list, count, stack) ==
  /\ stack[0] = EmptyStack
  /\ \A i \in 1..Len(list) : stack[i] = Calc(list, count, stack[i - 1], i)
  /\ \A i \in 0..Len(list) : Balanced(stack[i], Values(list, i))

LEMMA CalcStacks ==
    ASSUME NEW list, Alternates(list), DOMAIN list = 1..Len(list), Len(list) \in Nat, NEW count
    PROVE  \E stack : /\ Stacked(list, count, stack)
                      /\ CalcBoolItems(list, count) = Unwind(stack[Len(list)], 0)
<1> DEFINE N == Len(list)
           Rec(h) == h = [i \in 0..N |-> IF i = 0 THEN EmptyStack
                                         ELSE Calc(list, count, h[i - 1], i)]
           stack == CHOOSE h : Rec(h)
<1>1. CalcBoolItems(list, count) = Unwind(stack[N], 0)
  BY DEF CalcBoolItems
<1>2. EmptyStack \in Stacks /\ Balanced(EmptyStack, Values(list, 0))
  <2>1. EmptyStack \in Stacks
    BY DEF EmptyStack, Stacks
  <2>2. Binary(EmptyStack.cmds) = {} /\ Len(EmptyStack.args) = 0 /\ EmptyStack.short = FALSE
    BY DEF EmptyStack, Binary
  <2>3. Values(list, 0) = 0
    BY DEF Values
  <2> QED BY <2>1, <2>2, <2>3, FS_EmptySet DEF Balanced
\* Whatever turns a balanced stack as Calc does keeps it balanced.
<1>3. ASSUME NEW h, h[0] = EmptyStack,
             \A i \in 1..N : Balanced(h[i - 1], Values(list, i - 1)) =>
                                h[i] = Calc(list, count, h[i - 1], i)
      PROVE  \A i \in 0..N : Balanced(h[i], Values(list, i))
  <2> DEFINE Good == {i \in 0..N : Balanced(h[i], Values(list, i))}
  <2>1. 0 \in Good
    BY <1>2, <1>3
  <2>2. ASSUME NEW i \in 1..N, i - 1 \in Good PROVE i \in Good
    <3>1. Balanced(h[i - 1], Values(list, i - 1))
      BY <2>2
    <3>2. h[i] = Calc(list, count, h[i - 1], i)
      BY <1>3, <3>1
    <3>3. Balanced(h[i], Values(list, i))
      BY <3>1, <3>2, CalcBalanced
    <3> QED BY <3>3
  <2>3. 0..N \subseteq Good
    <3>1. N \in Nat
      OBVIOUS
    <3> HIDE DEF Good, N
    <3> QED BY <2>1, <2>2, <3>1, BoundedInduction, Zenon
  <2> QED BY <2>3
<1>4. \E h : Rec(h)
  <2> DEFINE Try(s, i) == Calc(list, count, s, i)
             F == [p \in Stacks \X Nat |->
                     IF Try(p[1], p[2] + 1) \in Stacks THEN Try(p[1], p[2] + 1) ELSE p[1]]
  <2> HIDE DEF Try
  <2>1. F \in Steps(Stacks)
    BY DEF Steps
  <2> HIDE DEF F
  <2>2. PICK f : Follows(f, Stacks, EmptyStack, F, N)
    <3>1. N \in Nat
      OBVIOUS
    <3> HIDE DEF N
    <3> QED BY <1>2, <2>1, <3>1, BoundedRecursion
  <2>3. /\ f \in [0..N -> Stacks] /\ f[0] = EmptyStack
        /\ \A n \in 1..N : f[n] = F[<<f[n - 1], n - 1>>]
    BY <2>2 DEF Follows
  <2>4. ASSUME NEW n \in 1..N, Try(f[n - 1], n) \in Stacks
        PROVE  f[n] = Try(f[n - 1], n)
    <3>1. n - 1 \in Nat /\ n - 1 \in 0..N /\ (n - 1) + 1 = n
      OBVIOUS
    <3>2. f[n - 1] \in Stacks
      BY <2>3, <3>1
    <3>3. <<f[n - 1], n - 1>> \in Stacks \X Nat
      BY <3>1, <3>2
    <3>4. F[<<f[n - 1], n - 1>>] = Try(f[n - 1], n)
      BY <2>4, <3>1, <3>3 DEF F
    <3> QED BY <2>3, <3>4
  <2>5. ASSUME NEW n \in 1..N, Balanced(f[n - 1], Values(list, n - 1))
        PROVE  f[n] = Try(f[n - 1], n)
    <3>1. Balanced(Try(f[n - 1], n), Values(list, n))
      BY <2>5, CalcBalanced DEF Try
    <3> QED BY <2>4, <3>1 DEF Balanced
  <2>6. \A n \in 0..N : Balanced(f[n], Values(list, n))
    BY <1>3, <2>3, <2>5 DEF Try
  <2>7. ASSUME NEW n \in 1..N PROVE f[n] = Calc(list, count, f[n - 1], n)
    <3>1. n - 1 \in 0..N
      OBVIOUS
    <3> QED BY <2>5, <2>6, <3>1 DEF Try
  <2>8. Rec(f)
    <3>1. N \in Nat
      OBVIOUS
    <3> HIDE DEF N
    <3> QED BY <2>3, <2>7, <3>1
  <2> QED BY <2>8
<1>5. Rec(stack)
  <2> HIDE DEF Rec
  <2> QED BY <1>4
<1>6. /\ stack[0] = EmptyStack
      /\ \A i \in 1..N : stack[i] = Calc(list, count, stack[i - 1], i)
  <2>1. N \in Nat
    OBVIOUS
  <2> HIDE DEF stack, N
  <2> QED BY <1>5, <2>1
<1> HIDE DEF stack, Rec
<1>7. \A i \in 0..N : Balanced(stack[i], Values(list, i))
  BY <1>3, <1>6
<1>8. Stacked(list, count, stack)
  BY <1>6, <1>7 DEF Stacked
<1> QED BY <1>1, <1>8

LEMMA CalcBoolItemsBalanced ==
    ASSUME NEW list, Alternates(list), DOMAIN list = 1..Len(list), Len(list) \in Nat \ {0},
           list[Len(list)].cmd \in EndsOperand, NEW count
    PROVE  LET s == CalcBoolItems(list, count)
           IN  ~s.short /\ s.cmds = <<>> /\ Len(s.args) = 1
<1> DEFINE N == Len(list)
<1>1. PICK stack : /\ Stacked(list, count, stack)
                   /\ CalcBoolItems(list, count) = Unwind(stack[N], 0)
  BY CalcStacks
<1>7. Balanced(stack[N], Values(list, N))
  BY <1>1 DEF Stacked
<1>8. Values(list, N) = 1
  BY DEF Values
<1> DEFINE s == Unwind(stack[N], 0)
<1>9. Balanced(s, 1) /\ s.cmds = <<>>
  BY <1>7, <1>8, UnwindBalanced
<1> HIDE DEF s
<1>10. Cardinality(Binary(s.cmds)) = 0
  <2>1. Binary(<<>>) = {}
    BY DEF Binary
  <2> QED BY <1>9, <2>1, FS_EmptySet
<1>11. ~s.short /\ s.cmds = <<>> /\ Len(s.args) = 1
  BY <1>9, <1>10 DEF Balanced
<1> QED BY <1>1, <1>11 DEF s

-----------------------------------------------------------------------------
(* Lists that grow by one item.                                            *)

\* more is list with x behind it.
Grown(S, list, x, more) ==
  /\ more \in Seq(S) /\ more # <<>> /\ Len(more) = Len(list) + 1 /\ Last(more) = x
  /\ DOMAIN more = 1..(Len(list) + 1) /\ DOMAIN list = 1..Len(list)
  /\ Len(list) \in Nat
  /\ \A i \in 1..Len(list) :
        more[i] = list[i] /\ (InPhrase(more, i) <=> InPhrase(list, i))
  /\ more[Len(list) + 1] = x
  /\ InPhrase(more, Len(list) + 1) <=> InPhrase(list, Len(list) + 1)
  /\ InPhrase(more, Len(more) + 1) <=>
        (InPhrase(list, Len(list) + 1) <=> x.cmd # "PHRASE")

LEMMA OneMore ==
    ASSUME NEW S, NEW list \in Seq(S), NEW x \in S
    PROVE  Grown(S, list, x, Append(list, x))
<1> DEFINE more == Append(list, x)
<1> DEFINE N == Len(list)
<1>1. /\ more \in Seq(S) /\ more # <<>> /\ Len(more) = N + 1
      /\ \A i \in 1..N : more[i] = list[i]
      /\ more[N + 1] = x
  BY AppendProperties
<1>2. N \in Nat /\ DOMAIN list = 1..N
  OBVIOUS
<1>3. DOMAIN more = 1..(N + 1) /\ Last(more) = x
  BY <1>1 DEF Last
<1> HIDE DEF N, more
<1>4. ASSUME NEW i \in 1..(N + 1) PROVE InPhrase(more, i) <=> InPhrase(list, i)
  <2>1. i \in Nat \ {0} /\ \A j \in 1..(i - 1) : more[j] = list[j]
    BY <1>1, <1>2
  <2> QED BY <2>1, InPhraseSame
<1>5. N + 1 \in 1..(N + 1) /\ N + 1 \in Nat \ {0} /\ \A i \in 1..N : i \in 1..(N + 1)
  BY <1>2
<1>6. InPhrase(more, N + 1) <=> InPhrase(list, N + 1)
  BY <1>4, <1>5
<1>7. InPhrase(more, (N + 1) + 1) <=> (InPhrase(more, N + 1) <=> more[N + 1].cmd # "PHRASE")
  BY <1>5, InPhraseStep
<1>8. InPhrase(more, Len(more) + 1) <=> (InPhrase(list, N + 1) <=> x.cmd # "PHRASE")
  BY <1>1, <1>6, <1>7
<1> QED BY <1>1, <1>2, <1>3, <1>4, <1>5, <1>6, <1>8 DEF N, Grown, more

LEMMA TypedMore ==
    ASSUME NEW S, NEW list \in Seq(S), Typed(list), NEW x \in S, x.cmd \in Cmds,
           InPhrase(list, Len(list) + 1) => x.cmd \in {"WORD", "STOP", "PHRASE"},
           ~InPhrase(list, Len(list) + 1) /\ x.cmd \notin StartsOperand =>
              list # <<>> /\ Last(list).cmd \in EndsOperand
    PROVE  Typed(Append(list, x))
<1> DEFINE more == Append(list, x)
           N == Len(list)
<1>1. /\ DOMAIN more = 1..(N + 1) /\ N \in Nat /\ DOMAIN list = 1..N
      /\ \A i \in 1..N : more[i] = list[i] /\ (InPhrase(more, i) <=> InPhrase(list, i))
      /\ more[N + 1] = x
      /\ InPhrase(more, N + 1) <=> InPhrase(list, N + 1)
  <2>1. Grown(S, list, x, more)
    BY OneMore
  <2> HIDE DEF more
  <2> QED BY <2>1 DEF Grown
<1>2. list # <<>> => N + 1 > 1 /\ more[(N + 1) - 1] = Last(list)
  <2>1. list # <<>> => N # 0 /\ Last(list) = list[N]
    BY DEF Last
  <2> HIDE DEF more, N
  <2> QED BY <1>1, <2>1
<1> HIDE DEF more, N
<1>3. ASSUME NEW i \in 1..N
      PROVE  /\ InOrder(more, i)
             /\ ~InPhrase(more, i) /\ more[i].cmd \notin StartsOperand =>
                   i > 1 /\ more[i - 1].cmd \in EndsOperand
  <2>1. i > 1 => more[i - 1] = list[i - 1]
    BY <1>1
  <2>2. /\ InOrder(list, i)
        /\ ~InPhrase(list, i) /\ list[i].cmd \notin StartsOperand =>
              i > 1 /\ list[i - 1].cmd \in EndsOperand
    BY <1>1 DEF Typed
  <2>3. more[i] = list[i] /\ (InPhrase(more, i) <=> InPhrase(list, i))
    BY <1>1
  <2> QED BY <2>1, <2>2, <2>3 DEF InOrder
<1>4. /\ InOrder(more, N + 1)
      /\ ~InPhrase(more, N + 1) /\ more[N + 1].cmd \notin StartsOperand =>
            N + 1 > 1 /\ more[(N + 1) - 1].cmd \in EndsOperand
  BY <1>1, <1>2 DEF InOrder, N
<1>5. \A i \in DOMAIN more : i \in 1..N \/ i = N + 1
  BY <1>1
<1> QED BY <1>3, <1>4, <1>5 DEF Typed, more

LEMMA AlternatesMore ==
    ASSUME NEW S, NEW list \in Seq(S), Alternates(list), NEW x \in S, x.cmd \in Cmds,
           InPhrase(list, Len(list) + 1) => x.cmd \in {"WORD", "STOP", "PHRASE"},
           ~InPhrase(list, Len(list) + 1) =>
              (x.cmd \notin StartsOperand <=> list # <<>> /\ Last(list).cmd \in EndsOperand)
    PROVE  Alternates(Append(list, x))
<1> DEFINE more == Append(list, x)
           N == Len(list)
<1>1. /\ DOMAIN more = 1..(N + 1) /\ N \in Nat /\ DOMAIN list = 1..N
      /\ \A i \in 1..N : more[i] = list[i] /\ (InPhrase(more, i) <=> InPhrase(list, i))
      /\ more[N + 1] = x
      /\ InPhrase(more, N + 1) <=> InPhrase(list, N + 1)
  <2>1. Grown(S, list, x, more)
    BY OneMore
  <2> HIDE DEF more
  <2> QED BY <2>1 DEF Grown
<1>2. /\ list # <<>> <=> N + 1 > 1
      /\ list # <<>> => more[(N + 1) - 1] = Last(list)
  <2>1. /\ list # <<>> <=> N # 0
        /\ Last(list) = list[N]
    BY DEF Last
  <2> HIDE DEF more, N
  <2> QED BY <1>1, <2>1
<1> HIDE DEF more, N
<1>3. ASSUME NEW i \in 1..N
      PROVE  /\ InOrder(more, i)
             /\ ~InPhrase(more, i) =>
                  (more[i].cmd \notin StartsOperand <=> i > 1 /\ more[i - 1].cmd \in EndsOperand)
  <2>1. i > 1 => more[i - 1] = list[i - 1]
    BY <1>1
  <2>2. /\ InOrder(list, i)
        /\ ~InPhrase(list, i) =>
             (list[i].cmd \notin StartsOperand <=> i > 1 /\ list[i - 1].cmd \in EndsOperand)
    BY <1>1 DEF Alternates
  <2>3. more[i] = list[i] /\ (InPhrase(more, i) <=> InPhrase(list, i))
    BY <1>1
  <2> QED BY <2>1, <2>2, <2>3 DEF InOrder
<1>4. /\ InOrder(more, N + 1)
      /\ ~InPhrase(more, N + 1) =>
           (more[N + 1].cmd \notin StartsOperand <=>
               N + 1 > 1 /\ more[(N + 1) - 1].cmd \in EndsOperand)
  BY <1>1, <1>2 DEF InOrder, N
<1>5. \A i \in DOMAIN more : i \in 1..N \/ i = N + 1
  BY <1>1
<1> QED BY <1>3, <1>4, <1>5 DEF Alternates, more

-----------------------------------------------------------------------------
(* The completed list.                                                     *)

LEMMA ItemFacts ==
    ASSUME NEW n \in Nat
    PROVE  /\ \A it \in ItemSet(n) : it.cmd \in Cmds /\ it.arg \in Nat
           /\ \A cmd \in Cmds \ {"WORD"} : Item(cmd, 0) \in ItemSet(n) /\ Item(cmd, 0).cmd = cmd
<1>1. \A it \in ItemSet(n) : it.cmd \in Cmds /\ it.arg \in Nat
  BY DEF ItemSet
<1>2. ASSUME NEW cmd \in Cmds \ {"WORD"}
      PROVE  Item(cmd, 0) \in ItemSet(n) /\ Item(cmd, 0).cmd = cmd
  BY DEF ItemSet, Item
<1> QED BY <1>1, <1>2

\* What is copied of the first i items of list.
Part(S, list, l, i) ==
  /\ l \in Seq(S) /\ Alternates(l)
  /\ l = <<>> <=> i = 0
  /\ i > 0 => Last(l) = list[i]
  /\ InPhrase(l, Len(l) + 1) <=> InPhrase(list, i + 1)

LEMMA CopiedPart ==
    ASSUME NEW n \in Nat, NEW list \in Seq(ItemSet(n)), Typed(list), NEW m,
           NEW i \in 1..Len(list), NEW l, Part(ItemSet(n), list, l, i - 1)
    PROVE  Part(ItemSet(n), list, l \o Copied(list, m, i), i)
<1> DEFINE S == ItemSet(n)
           x == list[i]
           op == Item(AddedCmd(m), 0)
           more == Append(l, x)
           with == Append(l, op)
           both == Append(with, x)
<1>1. /\ x \in S /\ x.cmd \in Cmds /\ op \in S /\ op.cmd \in {"OR", "AND"} /\ op.cmd \in Cmds
  <2>1. x \in S
    OBVIOUS
  <2>2. AddedCmd(m) \in {"OR", "AND"} /\ AddedCmd(m) \in Cmds \ {"WORD"}
    BY DEF AddedCmd, Cmds
  <2>3. op.cmd = AddedCmd(m)
    BY <2>2, ItemFacts
  <2>4. op \in S
    BY <2>2, ItemFacts
  <2>5. x.cmd \in Cmds
    BY <2>1, ItemFacts
  <2> QED BY <2>1, <2>2, <2>3, <2>4, <2>5
<1>2. /\ l \in Seq(S) /\ Alternates(l)
      /\ l # <<>> <=> i > 1
      /\ i > 1 => Last(l) = list[i - 1]
      /\ InPhrase(l, Len(l) + 1) <=> InPhrase(list, i)
  BY DEF Part
<1>3. /\ InPhrase(list, i) => x.cmd \in {"WORD", "STOP", "PHRASE"}
      /\ ~InPhrase(list, i) /\ x.cmd \notin StartsOperand =>
            i > 1 /\ list[i - 1].cmd \in EndsOperand
  BY DEF Typed, InOrder
<1>4. InPhrase(list, i + 1) <=> (InPhrase(list, i) <=> x.cmd # "PHRASE")
  BY InPhraseStep
<1>5. Copied(list, m, i) = IF NeedsCmd(list, i) THEN <<op, x>> ELSE <<x>>
  BY DEF Copied
<1>6. NeedsCmd(list, i) <=> /\ i > 1 /\ list[i - 1].cmd \in EndsOperand
                            /\ x.cmd \in StartsOperand /\ ~InPhrase(list, i)
  BY DEF NeedsCmd
<1>7. /\ l \o <<x>> = more /\ l \o <<op, x>> = both
  <2>1. l \o <<x>> = more
    BY <1>1, <1>2, AppendIsConcat
  <2>2. with = l \o <<op>> /\ with \in Seq(S)
    BY <1>1, <1>2, AppendIsConcat, AppendProperties
  <2> HIDE DEF with, op, x, S
  <2>3. both = with \o <<x>>
    BY <1>1, <2>2, AppendIsConcat
  <2>4. <<op>> \in Seq(S) /\ <<x>> \in Seq(S)
    BY <1>1
  <2>5. (l \o <<op>>) \o <<x>> = l \o (<<op>> \o <<x>>)
    BY <1>2, <2>4, ConcatAssociative
  <2>6. <<op>> \o <<x>> = <<op, x>>
    <3>1. Append(<<op>>, x) = <<op>> \o <<x>>
      BY <1>1, <2>4, AppendIsConcat
    <3>2. Append(<<op>>, x) = <<op, x>>
      <4>1. /\ Append(<<op>>, x) \in Seq(S) /\ Len(Append(<<op>>, x)) = 2
            /\ Append(<<op>>, x)[1] = op /\ Append(<<op>>, x)[2] = x
        BY <1>1, <2>4
      <4>2. /\ <<op, x>> \in Seq(S) /\ Len(<<op, x>>) = 2
            /\ <<op, x>>[1] = op /\ <<op, x>>[2] = x
        BY <1>1
      <4>3. ASSUME NEW u \in Seq(S), NEW v \in Seq(S), Len(u) = 2, Len(v) = 2,
                   u[1] = v[1], u[2] = v[2]
            PROVE  u = v
        <5>1. \A k \in 1..Len(u) : u[k] = v[k]
          BY <4>3
        <5> QED BY <4>3, <5>1, SeqEqual
      <4> QED BY <4>1, <4>2, <4>3
    <3> QED BY <3>1, <3>2
  <2> QED BY <2>1, <2>2, <2>3, <2>5, <2>6
<1> HIDE DEF S, x, op
<1>8. CASE NeedsCmd(list, i)
  <2>1. Grown(S, l, op, with) /\ with \in Seq(S)
    BY <1>1, <1>2, OneMore DEF Grown
  <2>2. Alternates(with)
    <3>1. l # <<>> /\ Last(l).cmd \in EndsOperand /\ ~InPhrase(l, Len(l) + 1)
      BY <1>2, <1>6, <1>8
    <3>2. op.cmd \notin StartsOperand
      BY <1>1 DEF StartsOperand
    <3> QED BY <1>1, <1>2, <3>1, <3>2, AlternatesMore
  <2> HIDE DEF with
  <2>3. Grown(S, with, x, both)
    BY <1>1, <2>1, OneMore
  <2>4. /\ ~InPhrase(with, Len(with) + 1) /\ Last(with) = op
    BY <1>1, <1>2, <1>6, <1>8, <2>1 DEF Grown
  <2>5. Alternates(both)
    <3>1. Last(with).cmd \notin EndsOperand
      BY <1>1, <2>4 DEF EndsOperand
    <3>2. x.cmd \in StartsOperand
      BY <1>6, <1>8
    <3> QED BY <1>1, <2>1, <2>2, <2>4, <3>1, <3>2, AlternatesMore
  <2> HIDE DEF both
  <2>6. Part(S, list, both, i)
    BY <1>4, <1>6, <1>8, <2>3, <2>4, <2>5 DEF Grown, Part, x
  <2> QED BY <1>5, <1>7, <1>8, <2>6 DEF S
<1>9. CASE ~NeedsCmd(list, i)
  <2>1. Grown(S, l, x, more)
    BY <1>1, <1>2, OneMore
  <2>2. InPhrase(l, Len(l) + 1) => x.cmd \in {"WORD", "STOP", "PHRASE"}
    BY <1>2, <1>3
  <2>3. ~InPhrase(l, Len(l) + 1) =>
           (x.cmd \notin StartsOperand <=> l # <<>> /\ Last(l).cmd \in EndsOperand)
    BY <1>2, <1>3, <1>6, <1>9
  <2>4. Alternates(more)
    BY <1>1, <1>2, <2>2, <2>3, AlternatesMore
  <2> HIDE DEF more
  <2>5. Part(S, list, more, i)
    BY <1>2, <1>4, <2>1, <2>4 DEF Grown, Part, x
  <2> QED BY <1>5, <1>7, <1>9, <2>5 DEF S
<1> QED BY <1>8, <1>9

\* upTo[i] is the copy of the first i items.
CopiedUpTo(S, list, m, upTo) ==
  /\ upTo[0] = <<>>
  /\ \A i \in 1..Len(list) : upTo[i] = upTo[i - 1] \o Copied(list, m, i)
  /\ \A i \in 0..Len(list) : Part(S, list, upTo[i], i)

LEMMA CompletedParts ==
    ASSUME NEW n \in Nat, NEW list \in Seq(ItemSet(n)), list # <<>>, Typed(list), NEW m
    PROVE  \E upTo : /\ CopiedUpTo(ItemSet(n), list, m, upTo)
                     /\ Completed(list, m) = upTo[Len(list)]
<1> DEFINE N == Len(list)
           S == ItemSet(n)
           Rec(h) == h = [i \in 0..N |-> IF i = 0 THEN <<>> ELSE h[i - 1] \o Copied(list, m, i)]
           upTo == CHOOSE h : Rec(h)
<1>1. Completed(list, m) = upTo[N]
  BY DEF Completed
<1>2. N \in Nat \ {0}
  OBVIOUS
<1>3. Part(S, list, <<>>, 0)
  <2>1. <<>> \in Seq(S) /\ Len(<<>>) = 0 /\ DOMAIN <<>> = {}
    OBVIOUS
  <2>2. ~InPhrase(<<>>, 1) /\ ~InPhrase(list, 1)
    <3>1. 1 \in Nat \ {0}
      OBVIOUS
    <3> QED BY <3>1, InPhraseStep
  <2>3. Alternates(<<>>)
    BY <2>1 DEF Alternates
  <2> HIDE DEF S
  <2> QED BY <2>1, <2>2, <2>3 DEF Part
<1>4. ASSUME NEW h, h[0] = <<>>,
             \A i \in 1..N : Part(S, list, h[i - 1], i - 1) => h[i] = h[i - 1] \o Copied(list, m, i)
      PROVE  \A i \in 0..N : Part(S, list, h[i], i)
  <2> DEFINE Good == {i \in 0..N : Part(S, list, h[i], i)}
  <2>1. 0 \in Good
    BY <1>3, <1>4
  <2>2. ASSUME NEW i \in 1..N, i - 1 \in Good PROVE i \in Good
    <3>1. Part(S, list, h[i - 1], i - 1)
      BY <2>2
    <3>2. h[i] = h[i - 1] \o Copied(list, m, i)
      BY <1>4, <3>1
    <3>3. Part(S, list, h[i], i)
      BY <3>1, <3>2, CopiedPart
    <3> QED BY <3>3
  <2>3. 0..N \subseteq Good
    <3>1. N \in Nat
      OBVIOUS
    <3> HIDE DEF Good, N
    <3> QED BY <2>1, <2>2, <3>1, BoundedInduction, Zenon
  <2> QED BY <2>3
<1>5. \E h : Rec(h)
  <2> DEFINE Try(l, i) == l \o Copied(list, m, i)
             F == [p \in Seq(S) \X Nat |->
                     IF Try(p[1], p[2] + 1) \in Seq(S) THEN Try(p[1], p[2] + 1) ELSE p[1]]
             L == Seq(S)
  <2> HIDE DEF Try, S
  <2>0. <<>> \in L
    OBVIOUS
  <2>1. F \in Steps(L)
    <3> HIDE DEF S
    <3>1. F = [p \in L \X Nat |-> IF Try(p[1], p[2] + 1) \in L THEN Try(p[1], p[2] + 1) ELSE p[1]]
      OBVIOUS
    <3> HIDE DEF F, L
    <3> QED BY <3>1 DEF Steps
  <2> HIDE DEF F
  <2>2. PICK f : Follows(f, L, <<>>, F, N)
    <3>1. N \in Nat
      OBVIOUS
    <3> HIDE DEF N, L
    <3> QED BY <2>0, <2>1, <3>1, BoundedRecursion
  <2>3. /\ f \in [0..N -> L] /\ f[0] = <<>>
        /\ \A i \in 1..N : f[i] = F[<<f[i - 1], i - 1>>]
    BY <2>2 DEF Follows
  <2> HIDE DEF L
  <2>4. ASSUME NEW i \in 1..N, Try(f[i - 1], i) \in L
        PROVE  f[i] = Try(f[i - 1], i)
    <3>1. i - 1 \in Nat /\ i - 1 \in 0..N /\ (i - 1) + 1 = i
      OBVIOUS
    <3>2. f[i - 1] \in L
      BY <2>3, <3>1
    <3>3. <<f[i - 1], i - 1>> \in L \X Nat
      BY <3>1, <3>2
    <3>4. F[<<f[i - 1], i - 1>>] = Try(f[i - 1], i)
      BY <2>4, <3>1, <3>3 DEF F, L
    <3> QED BY <2>3, <3>4
  <2>5. ASSUME NEW i \in 1..N, Part(S, list, f[i - 1], i - 1)
        PROVE  f[i] = Try(f[i - 1], i)
    <3>1. Part(S, list, Try(f[i - 1], i), i)
      BY <2>5, CopiedPart DEF Try, S
    <3> QED BY <2>4, <3>1 DEF Part, L
  <2>6. \A i \in 0..N : Part(S, list, f[i], i)
    BY <1>4, <2>3, <2>5 DEF Try
  <2>7. ASSUME NEW i \in 1..N PROVE f[i] = f[i - 1] \o Copied(list, m, i)
    <3>1. i - 1 \in 0..N
      OBVIOUS
    <3> QED BY <2>5, <2>6, <3>1 DEF Try
  <2> DEFINE next(l, i) == l \o Copied(list, m, i)
  <2>8. Rec(f)
    <3>1. N \in Nat /\ f[0] = <<>> /\ f \in [0..N -> L]
          /\ \A i \in 1..N : f[i] = next(f[i - 1], i)
      BY <2>3, <2>7
    <3> HIDE DEF N, next
    <3>2. f = [i \in 0..N |-> IF i = 0 THEN <<>> ELSE next(f[i - 1], i)]
      BY <3>1
    <3> QED BY <3>2 DEF next
  <2> QED BY <2>8
<1>6. Rec(upTo)
  <2> HIDE DEF Rec
  <2> QED BY <1>5
<1>7. /\ upTo[0] = <<>>
      /\ \A i \in 1..N : upTo[i] = upTo[i - 1] \o Copied(list, m, i)
  <2> DEFINE next(l, i) == l \o Copied(list, m, i)
  <2>1. upTo = [i \in 0..N |-> IF i = 0 THEN <<>> ELSE next(upTo[i - 1], i)]
    BY <1>6
  <2> HIDE DEF upTo, N, next
  <2>2. /\ upTo[0] = <<>>
        /\ \A i \in 1..N : upTo[i] = next(upTo[i - 1], i)
    BY <1>2, <2>1
  <2> QED BY <2>2 DEF next
<1> HIDE DEF upTo, Rec, S
<1>8. \A i \in 0..N : Part(S, list, upTo[i], i)
  BY <1>4, <1>7
<1>9. CopiedUpTo(S, list, m, upTo)
  BY <1>7, <1>8 DEF CopiedUpTo
<1> QED BY <1>1, <1>9 DEF S

LEMMA CompletedAlternates ==
    ASSUME NEW n \in Nat, NEW list \in Seq(ItemSet(n)), list # <<>>, Typed(list), NEW m
    PROVE  /\ Completed(list, m) \in Seq(ItemSet(n)) /\ Completed(list, m) # <<>>
           /\ Alternates(Completed(list, m))
           /\ Last(Completed(list, m)) = Last(list)
<1> DEFINE N == Len(list)
           S == ItemSet(n)
<1>1. PICK upTo : CopiedUpTo(S, list, m, upTo) /\ Completed(list, m) = upTo[N]
  BY CompletedParts
<1>2. N \in Nat \ {0}
  OBVIOUS
<1> HIDE DEF S
<1>8. Part(S, list, upTo[N], N)
  BY <1>1, <1>2 DEF CopiedUpTo
<1>9. Last(list) = list[N]
  BY DEF Last
<1> QED BY <1>1, <1>2, <1>8, <1>9 DEF Part, S

-----------------------------------------------------------------------------
(* The inductive invariant.                                                *)

WordSet == [word : Words, phrlen : Nat]

DataInv ==
  /\ mode \in Modes
  /\ words \in Seq(WordSet)
  /\ query \in Seq(ItemSet(nuniq))
  /\ items \in Seq(ItemSet(nuniq))
  /\ quoted \in BOOLEAN
  /\ \A p \in DOMAIN text : text[p] \in Words \cup {Other}
  /\ answer \in {"typing", "kept", "skipped"}

\* The query is well formed up to its end, and its open phrase is the one
\* whose words have no length yet.
QueryInv ==
  /\ Typed(query)
  /\ quoted <=> InPhrase(query, Len(query) + 1)
  /\ \A o \in DOMAIN words : words[o].phrlen = 0 => quoted

\* A list that is computed has its operators between operands.
ItemsInv ==
  /\ answer = "typing" => items = <<>>
  /\ items # <<>> => Alternates(items) /\ Last(items).cmd \in EndsOperand

BoolInv == DataInv /\ QueryInv /\ ItemsInv

LEMMA ItemSetGrows ==
    ASSUME NEW n \in Nat, NEW list \in Seq(ItemSet(n))
    PROVE  list \in Seq(ItemSet(n + 1))
<1>1. ItemSet(n) \subseteq ItemSet(n + 1)
  BY DEF ItemSet
<1> QED BY <1>1, SeqMonotonic

LEMMA LastIsMax ==
    ASSUME NEW N \in Nat, NEW Q, Q \subseteq 1..N, Q # {}
    PROVE  Max(Q) \in Q
<1> DEFINE T == {N - i : i \in Q}
<1>1. T \subseteq Nat /\ T # {}
  <2>1. \A i \in Q : N - i \in Nat
    OBVIOUS
  <2>2. PICK i \in Q : TRUE
    OBVIOUS
  <2>3. N - i \in T
    BY <2>2
  <2> QED BY <2>1, <2>3
<1>2. PICK t \in T : \A u \in T : t <= u
  <2> HIDE DEF T
  <2> QED BY <1>1, LeastElement
<1>3. PICK x \in Q : t = N - x
  OBVIOUS
<1>4. \A y \in Q : x >= y
  <2> SUFFICES ASSUME NEW y \in Q PROVE x >= y
    OBVIOUS
  <2>1. N - y \in T
    OBVIOUS
  <2> HIDE DEF T
  <2> QED BY <1>2, <1>3, <2>1
<1> QED BY <1>3, <1>4 DEF Max

\* The phrase that a quote closes is not empty.
LEMMA PhraseItemsLen ==
    ASSUME NEW S, query \in Seq(S), InPhrase(query, Len(query) + 1),
           Count(PhraseItems, "WORD") # 0
    PROVE  Len(PhraseItems) \in Nat \ {0}
<1> DEFINE Q == {i \in DOMAIN query : query[i].cmd = "PHRASE"}
           N == Len(query)
           from == Max(Q)
<1>1. PhraseItems = SubSeq(query, from + 1, N)
  BY DEF PhraseItems
<1>2. N \in Nat /\ DOMAIN query = 1..N /\ Q \subseteq 1..N
  OBVIOUS
<1>3. Q # {}
  <2>1. InPhrase(query, N + 1) <=> Cardinality({j \in 1..((N + 1) - 1) : query[j].cmd = "PHRASE"}) % 2 = 1
    BY DEF InPhrase
  <2>2. {j \in 1..((N + 1) - 1) : query[j].cmd = "PHRASE"} = Q
    BY <1>2
  <2>3. Cardinality(Q) % 2 = 1
    BY <2>1, <2>2
  <2> HIDE DEF Q
  <2>4. ASSUME Q = {} PROVE FALSE
    <3>1. Cardinality(Q) = 0
      BY <2>4, FS_EmptySet
    <3> QED BY <2>3, <3>1
  <2> QED BY <2>4
<1>4. from \in 1..N
  <2> HIDE DEF Q, N
  <2> QED BY <1>2, <1>3, LastIsMax
<1> HIDE DEF Q, N, from
<1>5. \A i \in (from + 1)..N : query[i] \in S
  BY <1>2, <1>4 DEF N
<1>6. from + 1 \in Nat /\ (from + 1) \in Int
  BY <1>2, <1>4
<1> DEFINE k == from + 1
<1>7. k \in Int /\ N \in Int /\ \A i \in k..N : query[i] \in S
  BY <1>2, <1>5, <1>6
<1>8. k \in Nat /\ k <= N + 1
  BY <1>2, <1>4
<1> HIDE DEF k
<1>9. /\ SubSeq(query, k, N) \in Seq(S)
      /\ Len(SubSeq(query, k, N)) = IF k <= N THEN N - k + 1 ELSE 0
  BY ONLY <1>7, SubSeqProperties
<1>10. PhraseItems \in Seq(S) /\ Len(PhraseItems) \in Nat
  BY <1>1, <1>2, <1>8, <1>9 DEF k
<1>11. PhraseItems # <<>>
  <2>1. {i \in DOMAIN <<>> : <<>>[i].cmd = "WORD"} = {}
    OBVIOUS
  <2>2. Count(<<>>, "WORD") = 0
    BY <2>1, FS_EmptySet DEF Count
  <2> QED BY <2>2
<1> QED BY <1>10, <1>11

-----------------------------------------------------------------------------
(* The steps.                                                              *)

LEMMA InitInv == Init => BoolInv
<1> SUFFICES ASSUME Init PROVE BoolInv
  OBVIOUS
<1> USE DEF Init
<1>1. nuniq = 0 /\ DOMAIN query = {} /\ DOMAIN words = {} /\ DOMAIN text = {} /\ Len(query) = 0
  BY DEF nuniq
<1>2. DataInv
  <2>1. words \in Seq(WordSet) /\ query \in Seq(ItemSet(nuniq)) /\ items \in Seq(ItemSet(nuniq))
    BY EmptySeq
  <2>2. \A p \in DOMAIN text : text[p] \in Words \cup {Other}
    BY <1>1
  <2>3. mode \in Modes /\ quoted \in BOOLEAN /\ answer \in {"typing", "kept", "skipped"}
    OBVIOUS
  <2> QED BY <2>1, <2>2, <2>3 DEF DataInv
<1>3. QueryInv
  <2>1. ~InPhrase(query, 1)
    <3>1. 1 \in Nat \ {0}
      OBVIOUS
    <3> QED BY <3>1, InPhraseStep
  <2> QED BY <1>1, <2>1 DEF QueryInv, Typed
<1>4. ItemsInv
  BY DEF ItemsInv
<1> QED BY <1>2, <1>3, <1>4 DEF BoolInv

\* One item is added to the query, and words is at most extended by a word.
LEMMA ItemAdded ==
    ASSUME BoolInv, NEW x \in ItemSet(nuniq + 1),
           InPhrase(query, Len(query) + 1) => x.cmd \in {"WORD", "STOP", "PHRASE"},
           ~InPhrase(query, Len(query) + 1) /\ x.cmd \notin StartsOperand =>
              query # <<>> /\ Last(query).cmd \in EndsOperand,
           query' = Append(query, x)
    PROVE  /\ Typed(query')
           /\ query' \in Seq(ItemSet(nuniq + 1)) /\ items \in Seq(ItemSet(nuniq + 1))
           /\ x \in ItemSet(nuniq) => query' \in Seq(ItemSet(nuniq))
           /\ InPhrase(query', Len(query') + 1) <=> (quoted <=> x.cmd # "PHRASE")
<1>1. nuniq \in Nat /\ nuniq + 1 \in Nat
  BY DEF BoolInv, DataInv, nuniq
<1>2. query \in Seq(ItemSet(nuniq + 1)) /\ items \in Seq(ItemSet(nuniq + 1))
  BY <1>1, ItemSetGrows DEF BoolInv, DataInv
<1>3. Grown(ItemSet(nuniq + 1), query, x, query')
  BY <1>2, OneMore
<1>4. Typed(query')
  <2>1. x.cmd \in Cmds
    BY <1>1, ItemFacts
  <2>2. Typed(query)
    BY DEF BoolInv, QueryInv
  <2> QED BY <1>2, <2>1, <2>2, TypedMore
<1>5. x \in ItemSet(nuniq) => query' \in Seq(ItemSet(nuniq))
  BY OneMore DEF BoolInv, DataInv, Grown
<1>6. query' \in Seq(ItemSet(nuniq + 1))
  BY <1>3 DEF Grown
<1>7. InPhrase(query', Len(query') + 1) <=> (quoted <=> x.cmd # "PHRASE")
  BY <1>3 DEF Grown, BoolInv, QueryInv
<1> QED BY <1>2, <1>4, <1>5, <1>6, <1>7

\* Of ItemsInv nothing is left to show while a query is typed.
LEMMA KeepItems ==
    ASSUME ItemsInv, Keep
    PROVE  ItemsInv'
BY DEF ItemsInv, Keep

LEMMA AddCmdKeeps ==
    ASSUME BoolInv, NEW cmd \in {"OR", "AND", "NOT", "LEFT", "RIGHT"}, AddCmd(cmd)
    PROVE  BoolInv'
<1> DEFINE x == Item(cmd, 0)
<1>1. nuniq \in Nat /\ nuniq' = nuniq
  BY DEF BoolInv, DataInv, nuniq, AddCmd
<1>2. x \in ItemSet(nuniq) /\ x \in ItemSet(nuniq + 1) /\ x.cmd = cmd
  <2>1. cmd \in Cmds \ {"WORD"}
    BY DEF Cmds
  <2> QED BY <1>1, <2>1, ItemFacts
<1>3. /\ ~quoted /\ query' = Append(query, x) /\ UNCHANGED <<words, quoted>> /\ Keep
      /\ cmd \in {"OR", "AND"} => ~Expecting
      /\ cmd = "RIGHT" => ~Expecting
  BY DEF AddCmd
<1>4. ~InPhrase(query, Len(query) + 1)
  BY <1>3 DEF BoolInv, QueryInv
<1>5. cmd \notin StartsOperand => query # <<>> /\ Last(query).cmd \in EndsOperand
  <2>1. cmd \notin StartsOperand => ~Expecting
    BY <1>3 DEF StartsOperand
  <2>2. query # <<>> => Last(query).cmd \in Cmds
    <3>1. query # <<>> => Last(query) \in ItemSet(nuniq)
      BY FrontLast DEF BoolInv, DataInv
    <3> QED BY <1>1, <3>1, ItemFacts
  <2> QED BY <2>1, <2>2 DEF Expecting, EndsOperand, Cmds
<1> HIDE DEF x
<1>6. /\ Typed(query') /\ query' \in Seq(ItemSet(nuniq))
      /\ InPhrase(query', Len(query') + 1) <=> (quoted <=> x.cmd # "PHRASE")
  BY <1>2, <1>3, <1>4, <1>5, ItemAdded
<1>7. DataInv'
  BY <1>1, <1>3, <1>6 DEF BoolInv, DataInv, Keep
<1>8. QueryInv'
  <2>1. quoted' <=> InPhrase(query', Len(query') + 1)
    BY <1>2, <1>3, <1>6
  <2> QED BY <1>3, <1>6, <2>1 DEF BoolInv, QueryInv
<1>9. ItemsInv'
  BY <1>3, KeepItems DEF BoolInv
<1> QED BY <1>7, <1>8, <1>9 DEF BoolInv

LEMMA AddWordKeeps ==
    ASSUME BoolInv, NEW w \in Words, AddWord(w)
    PROVE  BoolInv'
<1> DEFINE x == Item("WORD", nuniq + 1)
           y == [word |-> w, phrlen |-> IF quoted THEN 0 ELSE 1]
<1>1. /\ query' = Append(query, x) /\ words' = Append(words, y) /\ quoted' = quoted /\ Keep
  BY DEF AddWord
<1>2. /\ y \in WordSet /\ (y.phrlen = 0 => quoted)
  BY DEF WordSet
<1>3. words \in Seq(WordSet) /\ nuniq = Len(words) /\ nuniq \in Nat
  BY DEF BoolInv, DataInv, nuniq
<1> HIDE DEF y
<1>4. /\ words' \in Seq(WordSet) /\ nuniq' = nuniq + 1
      /\ \A o \in DOMAIN words' : words'[o].phrlen = 0 => quoted
  <2> DEFINE more == Append(words, y)
  <2>1. /\ more \in Seq(WordSet) /\ Len(more) = Len(words) + 1
        /\ \A o \in 1..Len(words) : more[o] = words[o]
        /\ more[Len(words) + 1] = y
    BY <1>2, <1>3, AppendProperties
  <2> HIDE DEF more
  <2>2. DOMAIN more = 1..(Len(words) + 1) /\ DOMAIN words = 1..Len(words)
    BY <1>3, <2>1
  <2>3. \A o \in DOMAIN more : more[o].phrlen = 0 => quoted
    <3> SUFFICES ASSUME NEW o \in DOMAIN more, more[o].phrlen = 0 PROVE quoted
      OBVIOUS
    <3>1. CASE o = Len(words) + 1
      BY <1>2, <2>1, <3>1
    <3>2. CASE o # Len(words) + 1
      <4>1. o \in DOMAIN words
        BY <1>3, <2>2, <3>2
      <4> QED BY <2>1, <2>2, <4>1 DEF BoolInv, QueryInv
    <3> QED BY <3>1, <3>2
  <2>4. words' = more
    BY <1>1 DEF more
  <2> QED BY <1>3, <2>1, <2>3, <2>4 DEF nuniq
<1>5. x \in ItemSet(nuniq + 1) /\ x.cmd = "WORD"
  BY <1>3 DEF ItemSet, Item, Cmds
<1> HIDE DEF x
<1>6. x.cmd \in StartsOperand
  BY <1>5 DEF StartsOperand
<1>7. /\ Typed(query') /\ query' \in Seq(ItemSet(nuniq + 1)) /\ items \in Seq(ItemSet(nuniq + 1))
      /\ InPhrase(query', Len(query') + 1) <=> (quoted <=> x.cmd # "PHRASE")
  BY <1>1, <1>5, <1>6, ItemAdded
<1>8. DataInv'
  BY <1>1, <1>4, <1>7 DEF BoolInv, DataInv, Keep
<1>9. QueryInv'
  <2>1. quoted' <=> InPhrase(query', Len(query') + 1)
    BY <1>1, <1>5, <1>7
  <2>2. \A o \in DOMAIN words' : words'[o].phrlen = 0 => quoted'
    BY <1>1, <1>4
  <2> QED BY <1>7, <2>1, <2>2 DEF QueryInv
<1>10. ItemsInv'
  BY <1>1, KeepItems DEF BoolInv
<1> QED BY <1>8, <1>9, <1>10 DEF BoolInv

LEMMA AddStopKeeps ==
    ASSUME BoolInv, AddStop
    PROVE  BoolInv'
<1> DEFINE x == Item("STOP", nuniq + 1)
<1>1. /\ query' = Append(query, x) /\ words' = words /\ quoted' = quoted /\ Keep
  BY DEF AddStop
<1>2. nuniq \in Nat /\ nuniq' = nuniq
  BY <1>1 DEF BoolInv, DataInv, nuniq
<1>3. x \in ItemSet(nuniq) /\ x \in ItemSet(nuniq + 1) /\ x.cmd = "STOP"
  BY <1>2 DEF ItemSet, Item, Cmds
<1> HIDE DEF x
<1>4. x.cmd \in StartsOperand
  BY <1>3 DEF StartsOperand
<1>5. /\ Typed(query') /\ query' \in Seq(ItemSet(nuniq))
      /\ InPhrase(query', Len(query') + 1) <=> (quoted <=> x.cmd # "PHRASE")
  BY <1>1, <1>3, <1>4, ItemAdded
<1>6. DataInv'
  BY <1>1, <1>2, <1>5 DEF BoolInv, DataInv, Keep
<1>7. QueryInv'
  <2>1. quoted' <=> InPhrase(query', Len(query') + 1)
    BY <1>1, <1>3, <1>5
  <2> QED BY <1>1, <1>5, <2>1 DEF BoolInv, QueryInv
<1>8. ItemsInv'
  BY <1>1, KeepItems DEF BoolInv
<1> QED BY <1>6, <1>7, <1>8 DEF BoolInv

\* The phrase mark x opens or closes a phrase; old quoted tells which.
LEMMA PhraseMarkAdded ==
    ASSUME BoolInv, query' = Append(query, Item("PHRASE", 0))
    PROVE  /\ Typed(query') /\ query' \in Seq(ItemSet(nuniq))
           /\ InPhrase(query', Len(query') + 1) <=> ~quoted
<1> DEFINE x == Item("PHRASE", 0)
<1>1. nuniq \in Nat /\ nuniq + 1 \in Nat /\ quoted \in BOOLEAN
  BY DEF BoolInv, DataInv, nuniq
<1>2. x \in ItemSet(nuniq) /\ x \in ItemSet(nuniq + 1) /\ x.cmd = "PHRASE"
  <2>1. "PHRASE" \in Cmds \ {"WORD"}
    BY DEF Cmds
  <2> QED BY <1>1, <2>1, ItemFacts
<1>3. query' = Append(query, x)
  OBVIOUS
<1> HIDE DEF x
<1>4. x.cmd \in StartsOperand
  BY <1>2 DEF StartsOperand
<1>5. /\ Typed(query') /\ query' \in Seq(ItemSet(nuniq))
      /\ InPhrase(query', Len(query') + 1) <=> (quoted <=> x.cmd # "PHRASE")
  BY <1>2, <1>3, <1>4, ItemAdded
<1> QED BY <1>1, <1>2, <1>5

LEMMA OpenPhraseKeeps ==
    ASSUME BoolInv, OpenPhrase
    PROVE  BoolInv'
<1>1. /\ ~quoted /\ query' = Append(query, Item("PHRASE", 0)) /\ words' = words
      /\ quoted' = TRUE /\ Keep
  BY DEF OpenPhrase
<1>2. nuniq' = nuniq
  BY <1>1 DEF nuniq
<1>3. /\ Typed(query') /\ query' \in Seq(ItemSet(nuniq))
      /\ InPhrase(query', Len(query') + 1) <=> ~quoted
  BY <1>1, PhraseMarkAdded
<1>4. DataInv'
  BY <1>1, <1>2, <1>3 DEF BoolInv, DataInv, Keep
<1>5. QueryInv'
  BY <1>1, <1>3 DEF QueryInv
<1>6. ItemsInv'
  BY <1>1, KeepItems DEF BoolInv
<1> QED BY <1>4, <1>5, <1>6 DEF BoolInv

LEMMA ClosePhraseKeeps ==
    ASSUME BoolInv, ClosePhrase
    PROVE  BoolInv'
<1> DEFINE len == Len(PhraseItems)
           set == [o \in DOMAIN words |-> IF words[o].phrlen = 0
                                          THEN [words[o] EXCEPT !.phrlen = len]
                                          ELSE words[o]]
<1>1. /\ quoted /\ query' = Append(query, Item("PHRASE", 0)) /\ words' = set
      /\ quoted' = FALSE /\ Keep /\ Count(PhraseItems, "WORD") # 0
  BY DEF ClosePhrase
<1>2. len \in Nat \ {0}
  BY <1>1, PhraseItemsLen DEF BoolInv, DataInv, QueryInv
<1> HIDE DEF len
<1>3. /\ words' \in Seq(WordSet) /\ nuniq' = nuniq
      /\ \A o \in DOMAIN words' : words'[o].phrlen # 0
  <2>1. /\ DOMAIN words = 1..Len(words) /\ Len(words) \in Nat
        /\ \A o \in 1..Len(words) : words[o] \in WordSet
    BY DEF BoolInv, DataInv
  <2>2. ASSUME NEW o \in 1..Len(words)
        PROVE  set[o] \in WordSet /\ set[o].phrlen # 0
    <3>1. PICK r \in WordSet : r = words[o]
      BY <2>1
    <3>2. set[o] = IF r.phrlen = 0 THEN [r EXCEPT !.phrlen = len] ELSE r
      BY <2>1, <3>1
    <3>3. [r EXCEPT !.phrlen = len] \in WordSet /\ [r EXCEPT !.phrlen = len].phrlen = len
      BY <1>2 DEF WordSet
    <3> HIDE DEF set
    <3> QED BY <1>2, <3>2, <3>3
  <2>3. DOMAIN set = 1..Len(words) /\ set = [o \in 1..Len(words) |-> set[o]]
    BY <2>1
  <2> HIDE DEF set
  <2>4. set \in [1..Len(words) -> WordSet]
    BY <2>2, <2>3
  <2>5. set \in Seq(WordSet)
    BY <2>1, <2>4, SeqDef
  <2>6. Len(set) = Len(words)
    BY <2>1, <2>3, <2>5
  <2> QED BY <1>1, <2>2, <2>3, <2>5, <2>6 DEF nuniq
<1> HIDE DEF set
<1>4. /\ Typed(query') /\ query' \in Seq(ItemSet(nuniq))
      /\ InPhrase(query', Len(query') + 1) <=> ~quoted
  BY <1>1, PhraseMarkAdded
<1>5. DataInv'
  BY <1>1, <1>3, <1>4 DEF BoolInv, DataInv, Keep
<1>6. QueryInv'
  BY <1>1, <1>3, <1>4 DEF QueryInv
<1>7. ItemsInv'
  BY <1>1, KeepItems DEF BoolInv
<1> QED BY <1>5, <1>6, <1>7 DEF BoolInv

LEMMA SearchKeeps ==
    ASSUME BoolInv, Search
    PROVE  BoolInv'
<1>1. /\ ~Expecting /\ UNCHANGED <<mode, query, words, quoted>>
      /\ items' = Prepared(query, mode) /\ answer' \in {"kept", "skipped"}
      /\ \A p \in DOMAIN text' : text'[p] \in Words \cup {Other}
  <2>1. PICK n \in 1..TextMax : \E t \in [1..n -> Words \cup {Other}] :
          /\ text' = t
          /\ items' = Prepared(query, mode)
          /\ answer' = IF Matches(items', SearchMode(items', mode), t)
                       THEN "kept" ELSE "skipped"
    BY DEF Search
  <2>2. /\ \A p \in DOMAIN text' : text'[p] \in Words \cup {Other}
        /\ items' = Prepared(query, mode) /\ answer' \in {"kept", "skipped"}
    BY <2>1
  <2>3. ~Expecting /\ UNCHANGED <<mode, query, words, quoted>>
    BY DEF Search
  <2> QED BY <2>2, <2>3
<1>2. /\ nuniq \in Nat /\ query \in Seq(ItemSet(nuniq)) /\ Typed(query)
  BY DEF BoolInv, DataInv, QueryInv, nuniq
<1>3. query # <<>> /\ Last(query).cmd \in EndsOperand
  <2>1. query # <<>> /\ Last(query).cmd \notin {"LEFT", "OR", "AND", "NOT"}
    BY <1>1 DEF Expecting
  <2>2. Last(query) \in ItemSet(nuniq)
    BY <1>2, <2>1, FrontLast
  <2>3. Last(query).cmd \in Cmds
    BY <1>2, <2>2, ItemFacts
  <2> QED BY <2>1, <2>3 DEF EndsOperand, Cmds
<1> DEFINE full == Completed(query, mode)
<1>4. full \in Seq(ItemSet(nuniq)) /\ Alternates(full) /\ Last(full) = Last(query)
  BY <1>2, <1>3, CompletedAlternates
<1>5. Prepared(query, mode) = <<>> \/ Prepared(query, mode) = full
  BY DEF Prepared, ItemListCopy
<1> HIDE DEF full
<1>6. items' \in Seq(ItemSet(nuniq))
  BY <1>1, <1>4, <1>5, EmptySeq
<1>7. nuniq' = nuniq
  BY <1>1 DEF nuniq
<1>8. DataInv'
  BY <1>1, <1>6, <1>7 DEF BoolInv, DataInv
<1>9. QueryInv'
  BY <1>1 DEF BoolInv, QueryInv, Typed, InOrder, InPhrase
<1>10. ItemsInv'
  BY <1>1, <1>3, <1>4, <1>5 DEF ItemsInv
<1> QED BY <1>8, <1>9, <1>10 DEF BoolInv

LEMMA NextInv == BoolInv /\ [Next]_vars => BoolInv'
<1> SUFFICES ASSUME BoolInv, [Next]_vars PROVE BoolInv'
  OBVIOUS
<1>1. ASSUME NEW cmd \in {"OR", "AND", "NOT", "LEFT", "RIGHT"}, AddCmd(cmd) PROVE BoolInv'
  BY <1>1, AddCmdKeeps
<1>2. ASSUME NEW w \in Words, AddWord(w) PROVE BoolInv'
  BY <1>2, AddWordKeeps
<1>3. CASE AddStop
  BY <1>3, AddStopKeeps
<1>4. CASE OpenPhrase
  BY <1>4, OpenPhraseKeeps
<1>5. CASE ClosePhrase
  BY <1>5, ClosePhraseKeeps
<1>6. CASE Search
  BY <1>6, SearchKeeps
<1>7. CASE UNCHANGED vars
  BY <1>7 DEF vars, BoolInv, DataInv, QueryInv, ItemsInv, nuniq
<1> QED BY <1>1, <1>2, <1>3, <1>4, <1>5, <1>6, <1>7 DEF Next

LEMMA Invariance == Spec => []BoolInv
BY InitInv, NextInv, PTL DEF Spec

-----------------------------------------------------------------------------
(* What performing the commands on top of a stack comes to.                *)

\* The command on top binds as code does, or tighter.
Tight(s, code) == s.cmds # <<>> /\ code <= Code[TopCmd(s)]

LEMMA TurnFacts ==
    ASSUME NEW s \in Stacks, NEW code \in Nat
    PROVE  /\ Turn(s, code) \in Stacks
           /\ ~Tight(s, code) => Turn(s, code) = s
           /\ Tight(s, code) => /\ Turn(s, code) = perform(PopCmd(s), TopCmd(s))
                                /\ Turn(s, code).cmds = PopCmd(s).cmds
                                /\ Len(Turn(s, code).cmds) = Len(s.cmds) - 1
<1>1. CASE ~Tight(s, code)
  BY <1>1 DEF Turn, Tight
<1>2. CASE Tight(s, code)
  <2>1. Turn(s, code) = perform(PopCmd(s), TopCmd(s)) /\ s.cmds # <<>>
    BY <1>2 DEF Turn, Tight
  <2>2. /\ PopCmd(s) \in Stacks /\ TopCmd(s) \in DOMAIN Code
        /\ Len(PopCmd(s).cmds) = Len(s.cmds) - 1
    BY <2>1, PopCmdFacts
  <2>3. /\ perform(PopCmd(s), TopCmd(s)) \in Stacks
        /\ perform(PopCmd(s), TopCmd(s)).cmds = PopCmd(s).cmds
    BY <2>2, PerformFacts
  <2> QED BY <1>2, <2>1, <2>2, <2>3
<1> QED BY <1>1, <1>2

\* Unwind as a sequence of turns.
Turns(a, s, code, n) ==
  /\ a \in [0..n -> Stacks] /\ a[0] = s
  /\ \A k \in 1..n : a[k] = Turn(a[k - 1], code)

LEMMA UnwindTurns ==
    ASSUME NEW s \in Stacks, NEW code \in Nat
    PROVE  \E a : Turns(a, s, code, Len(s.cmds)) /\ Unwind(s, code) = a[Len(s.cmds)]
<1> DEFINE N == Len(s.cmds)
           Rec(h) == h = [n \in 0..N |-> IF n = 0 THEN s ELSE Turn(h[n - 1], code)]
           after == CHOOSE h : Rec(h)
<1>1. N \in Nat
  BY StackParts
<1>2. Unwind(s, code) = after[N]
  BY DEF Unwind
<1>3. PICK f : Turns(f, s, code, N)
  <2> DEFINE F == [p \in Stacks \X Nat |-> Turn(p[1], code)]
  <2>1. F \in Steps(Stacks)
    BY TurnFacts DEF Steps
  <2> HIDE DEF N, F
  <2>2. PICK f : Follows(f, Stacks, s, F, N)
    BY <1>1, <2>1, BoundedRecursion
  <2>3. /\ f \in [0..N -> Stacks] /\ f[0] = s
        /\ \A n \in 1..N : f[n] = F[<<f[n - 1], n - 1>>]
    BY <2>2 DEF Follows
  <2>4. ASSUME NEW n \in 1..N PROVE f[n] = Turn(f[n - 1], code)
    <3>1. n - 1 \in Nat /\ n - 1 \in 0..N
      BY <1>1
    <3>2. <<f[n - 1], n - 1>> \in Stacks \X Nat
      BY <2>3, <3>1
    <3>3. F[<<f[n - 1], n - 1>>] = Turn(f[n - 1], code)
      BY <3>2 DEF F
    <3> QED BY <2>3, <3>3
  <2> QED BY <2>3, <2>4 DEF Turns
<1>4. Rec(f)
  <2> HIDE DEF N
  <2>1. /\ f \in [0..N -> Stacks] /\ f[0] = s
        /\ \A n \in 1..N : f[n] = Turn(f[n - 1], code)
    BY <1>3 DEF Turns
  <2> QED BY <1>1, <2>1
<1>5. Rec(after)
  <2> HIDE DEF Rec
  <2> QED BY <1>4
<1>6. after = f
  <2> HIDE DEF after, N
  <2>1. /\ f \in [0..N -> Stacks] /\ f[0] = s
        /\ \A n \in 1..N : f[n] = Turn(f[n - 1], code)
    BY <1>3 DEF Turns
  <2>2. /\ after = [n \in 0..N |-> after[n]] /\ after[0] = s
        /\ \A n \in 1..N : after[n] = Turn(after[n - 1], code)
    BY <1>1, <1>5
  <2> DEFINE Same == {n \in 0..N : after[n] = f[n]}
  <2>3. 0 \in Same
    BY <1>1, <2>1, <2>2
  <2>4. ASSUME NEW n \in 1..N, n - 1 \in Same PROVE n \in Same
    <3>1. n \in 0..N /\ after[n - 1] = f[n - 1]
      BY <1>1, <2>4
    <3>2. after[n] = Turn(after[n - 1], code) /\ f[n] = Turn(f[n - 1], code)
      BY <2>1, <2>2
    <3>3. after[n] = f[n]
      BY <3>1, <3>2, Zenon
    <3> QED BY <3>1, <3>3
  <2>5. 0..N \subseteq Same
    <3> HIDE DEF Same
    <3> QED BY <1>1, <2>3, <2>4, BoundedInduction
  <2> QED BY <2>1, <2>2, <2>5
<1> QED BY <1>2, <1>3, <1>6

LEMMA UnwindStop ==
    ASSUME NEW s \in Stacks, NEW code \in Nat, ~Tight(s, code)
    PROVE  Unwind(s, code) = s
<1> DEFINE N == Len(s.cmds)
<1>1. N \in Nat
  BY StackParts
<1>2. PICK a : Turns(a, s, code, N) /\ Unwind(s, code) = a[N]
  BY UnwindTurns
<1> DEFINE Same == {n \in 0..N : a[n] = s}
<1> HIDE DEF N
<1>3. 0 \in Same
  BY <1>1, <1>2 DEF Turns
<1>4. \A n \in 1..N : n - 1 \in Same => n \in Same
  BY <1>1, <1>2, TurnFacts DEF Turns
<1>5. 0..N \subseteq Same
  <2> HIDE DEF Same
  <2> QED BY <1>1, <1>3, <1>4, BoundedInduction
<1> QED BY <1>1, <1>2, <1>5

LEMMA UnwindTurn ==
    ASSUME NEW s \in Stacks, NEW code \in Nat, Tight(s, code)
    PROVE  Unwind(s, code) = Unwind(perform(PopCmd(s), TopCmd(s)), code)
<1> DEFINE N == Len(s.cmds)
           t == Turn(s, code)
<1>1. N \in Nat
  BY StackParts
<1>2. /\ t \in Stacks /\ t = perform(PopCmd(s), TopCmd(s)) /\ Len(t.cmds) = N - 1
  BY TurnFacts
<1>3. N - 1 \in Nat
  <2> HIDE DEF t, N
  <2>1. Len(t.cmds) \in Nat
    BY <1>2, StackParts
  <2> QED BY <1>2, <2>1
<1>4. PICK a : Turns(a, s, code, N) /\ Unwind(s, code) = a[N]
  BY UnwindTurns
<1>5. PICK b : Turns(b, t, code, N - 1) /\ Unwind(t, code) = b[N - 1]
  <2> HIDE DEF t, N
  <2> QED BY <1>2, UnwindTurns
<1>6. a[1] = t
  <2>1. 1 \in 1..N /\ a[0] = s /\ a[1] = Turn(a[1 - 1], code)
    BY <1>1, <1>3, <1>4 DEF Turns
  <2> QED BY <2>1
<1> DEFINE Same == {n \in 0..N - 1 : b[n] = a[n + 1]}
<1> HIDE DEF t, N
<1>7. 0 \in Same
  BY <1>3, <1>5, <1>6 DEF Turns
<1>8. ASSUME NEW n \in 1..N - 1, n - 1 \in Same PROVE n \in Same
  <2>1. n + 1 \in 1..N /\ (n + 1) - 1 = n /\ (n - 1) + 1 = n /\ n \in 0..N - 1
    BY <1>1, <1>3
  <2>2. b[n] = Turn(b[n - 1], code) /\ a[n + 1] = Turn(a[(n + 1) - 1], code)
    BY <1>4, <1>5, <2>1 DEF Turns
  <2>3. b[n - 1] = a[(n - 1) + 1]
    BY <1>8
  <2> QED BY <2>1, <2>2, <2>3
<1>9. 0..N - 1 \subseteq Same
  <2> HIDE DEF Same
  <2> QED BY <1>3, <1>7, <1>8, BoundedInduction
<1>10. b[N - 1] = a[N]
  <2>1. N - 1 \in Same /\ (N - 1) + 1 = N
    BY <1>1, <1>3, <1>9
  <2> QED BY <2>1
<1> QED BY <1>2, <1>4, <1>5, <1>10

\* Performing the commands that bind as code does or tighter leaves none of
\* them; to perform the tighter ones before the others changes nothing.
LEMMA Unwound ==
    ASSUME NEW s \in Stacks, NEW code \in Nat
    PROVE  Unwind(s, code) \in Stacks /\ ~Tight(Unwind(s, code), code)
<1> DEFINE S == {n \in Nat : \A t \in Stacks : Len(t.cmds) = n =>
                    Unwind(t, code) \in Stacks /\ ~Tight(Unwind(t, code), code)}
<1>1. ASSUME NEW t \in Stacks, ~Tight(t, code)
      PROVE  Unwind(t, code) \in Stacks /\ ~Tight(Unwind(t, code), code)
  BY <1>1, UnwindStop
<1>2. 0 \in S
  <2>1. ASSUME NEW t \in Stacks, Len(t.cmds) = 0 PROVE ~Tight(t, code)
    <3>1. t.cmds = <<>>
      BY <2>1, StackParts
    <3> QED BY <3>1 DEF Tight
  <2> QED BY <1>1, <2>1
<1>3. ASSUME NEW n \in Nat, n \in S PROVE n + 1 \in S
  <2>1. ASSUME NEW t \in Stacks, Len(t.cmds) = n + 1
        PROVE  Unwind(t, code) \in Stacks /\ ~Tight(Unwind(t, code), code)
    <3>1. CASE Tight(t, code)
      <4> DEFINE u == perform(PopCmd(t), TopCmd(t))
      <4>1. u \in Stacks /\ Len(u.cmds) = n
        <5>1. /\ Turn(t, code) \in Stacks /\ Turn(t, code) = u
              /\ Len(Turn(t, code).cmds) = Len(t.cmds) - 1
          BY <3>1, TurnFacts
        <5> HIDE DEF u
        <5>2. u \in Stacks /\ Len(u.cmds) = Len(t.cmds) - 1
          BY <5>1
        <5> QED BY <2>1, <5>2
      <4>2. Unwind(t, code) = Unwind(u, code)
        BY <3>1, UnwindTurn
      <4> HIDE DEF u
      <4> QED BY <1>3, <4>1, <4>2
    <3> QED BY <1>1, <3>1
  <2> QED BY <2>1
<1>4. Nat \subseteq S
  <2> HIDE DEF S
  <2> QED BY <1>2, <1>3, SetInduction
<1>5. Len(s.cmds) \in S
  BY <1>4, StackParts
<1> QED BY <1>5

LEMMA TightLower ==
    ASSUME NEW s \in Stacks, NEW c \in Nat, NEW d \in Nat, c <= d, Tight(s, d)
    PROVE  Tight(s, c)
<1>1. s.cmds # <<>> /\ d <= Code[TopCmd(s)]
  BY DEF Tight
<1>2. Code[TopCmd(s)] \in Nat
  BY <1>1, PopCmdFacts, Codes
<1>3. c <= Code[TopCmd(s)]
  BY <1>1, <1>2
<1> QED BY <1>1, <1>3 DEF Tight

LEMMA UnwindTwice ==
    ASSUME NEW s \in Stacks, NEW c \in Nat, NEW d \in Nat, c <= d
    PROVE  Unwind(Unwind(s, d), c) = Unwind(s, c)
<1> DEFINE S == {n \in Nat : \A t \in Stacks : Len(t.cmds) = n =>
                    Unwind(Unwind(t, d), c) = Unwind(t, c)}
<1>1. ASSUME NEW t \in Stacks, ~Tight(t, d)
      PROVE  Unwind(Unwind(t, d), c) = Unwind(t, c)
  BY <1>1, UnwindStop
<1>2. 0 \in S
  <2>1. ASSUME NEW t \in Stacks, Len(t.cmds) = 0 PROVE ~Tight(t, d)
    <3>1. t.cmds = <<>>
      BY <2>1, StackParts
    <3> QED BY <3>1 DEF Tight
  <2> QED BY <1>1, <2>1
<1>3. ASSUME NEW n \in Nat, n \in S PROVE n + 1 \in S
  <2>1. ASSUME NEW t \in Stacks, Len(t.cmds) = n + 1
        PROVE  Unwind(Unwind(t, d), c) = Unwind(t, c)
    <3>1. CASE Tight(t, d)
      <4> DEFINE u == perform(PopCmd(t), TopCmd(t))
      <4>1. u \in Stacks /\ Len(u.cmds) = n
        <5>1. /\ Turn(t, d) \in Stacks /\ Turn(t, d) = u
              /\ Len(Turn(t, d).cmds) = Len(t.cmds) - 1
          BY <3>1, TurnFacts
        <5> HIDE DEF u
        <5>2. u \in Stacks /\ Len(u.cmds) = Len(t.cmds) - 1
          BY <5>1
        <5> QED BY <2>1, <5>2
      <4>2. Unwind(t, d) = Unwind(u, d)
        BY <3>1, UnwindTurn
      <4>3. Unwind(t, c) = Unwind(u, c)
        BY <3>1, TightLower, UnwindTurn
      <4> HIDE DEF u
      <4> QED BY <1>3, <4>1, <4>2, <4>3
    <3> QED BY <1>1, <3>1
  <2> QED BY <2>1
<1>4. Nat \subseteq S
  <2> HIDE DEF S
  <2> QED BY <1>2, <1>3, SetInduction
<1>5. Len(s.cmds) \in S
  BY <1>4, StackParts
<1> QED BY <1>5

\* What is pushed is what is popped.
LEMMA StackEqual ==
    ASSUME NEW s \in Stacks, NEW t \in Stacks,
           s.cmds = t.cmds, s.args = t.args, s.short = t.short
    PROVE  s = t
BY DEF Stacks

LEMMA FrontOfAppend ==
    ASSUME NEW S, NEW list \in Seq(S), NEW x \in S
    PROVE  /\ Append(list, x) \in Seq(S) /\ Append(list, x) # <<>>
           /\ Last(Append(list, x)) = x /\ Front(Append(list, x)) = list
<1> DEFINE more == Append(list, x)
<1>1. /\ more \in Seq(S) /\ more # <<>> /\ Len(more) = Len(list) + 1
      /\ \A i \in 1..Len(list) : more[i] = list[i]
      /\ more[Len(list) + 1] = x /\ Len(list) \in Nat
  OBVIOUS
<1> HIDE DEF more
<1>2. Last(more) = x
  BY <1>1 DEF Last
<1>3. Front(more) = list
  BY <1>1 DEF Front
<1> QED BY <1>1, <1>2, <1>3 DEF more

LEMMA PushPopArg ==
    ASSUME NEW s \in Stacks, NEW x \in BOOLEAN
    PROVE  /\ PushArg(s, x) \in Stacks
           /\ TopArg(PushArg(s, x)) = x /\ PopArg(PushArg(s, x)) = s
           /\ \A code : Tight(PushArg(s, x), code) <=> Tight(s, code)
<1> DEFINE t == PushArg(s, x)
           more == Append(s.args, x)
<1>1. s.args \in Seq(BOOLEAN)
  BY StackParts
<1>2. t = [s EXCEPT !.args = more]
  BY DEF PushArg
<1>3. /\ more \in Seq(BOOLEAN) /\ more # <<>>
      /\ Last(more) = x /\ Front(more) = s.args
  BY <1>1, FrontOfAppend
<1> HIDE DEF more
<1>4. /\ t \in Stacks /\ t.args = more /\ t.cmds = s.cmds /\ t.short = s.short
  BY <1>2, <1>3, WithArgs
<1> HIDE DEF t
<1>5. TopArg(t) = x
  BY <1>3, <1>4 DEF TopArg
<1>6. PopArg(t) = [t EXCEPT !.args = s.args]
  BY <1>3, <1>4 DEF PopArg
<1>7. PopArg(t) = s
  <2>1. /\ PopArg(t) \in Stacks /\ PopArg(t).args = s.args
        /\ PopArg(t).cmds = t.cmds /\ PopArg(t).short = t.short
    BY <1>1, <1>4, <1>6, WithArgs
  <2> QED BY <1>4, <2>1, StackEqual
<1>8. TopCmd(t) = TopCmd(s)
  BY <1>4 DEF TopCmd
<1> QED BY <1>4, <1>5, <1>7, <1>8 DEF Tight, t

LEMMA PushPopCmd ==
    ASSUME NEW s \in Stacks, NEW c \in DOMAIN Code
    PROVE  /\ PushCmd(s, c) \in Stacks
           /\ TopCmd(PushCmd(s, c)) = c /\ PopCmd(PushCmd(s, c)) = s
           /\ \A code : Tight(PushCmd(s, c), code) <=> code <= Code[c]
<1> DEFINE t == PushCmd(s, c)
           more == Append(s.cmds, c)
<1>1. s.cmds \in Seq(DOMAIN Code)
  BY StackParts
<1>2. t = [s EXCEPT !.cmds = more]
  BY DEF PushCmd
<1>3. /\ more \in Seq(DOMAIN Code) /\ more # <<>>
      /\ Last(more) = c /\ Front(more) = s.cmds
  BY <1>1, FrontOfAppend
<1> HIDE DEF more
<1>4. /\ t \in Stacks /\ t.cmds = more /\ t.args = s.args /\ t.short = s.short
  BY <1>2, <1>3, WithCmds
<1> HIDE DEF t
<1>5. TopCmd(t) = c
  BY <1>3, <1>4 DEF TopCmd
<1>6. PopCmd(t) = [t EXCEPT !.cmds = s.cmds]
  BY <1>3, <1>4 DEF PopCmd
<1>7. PopCmd(t) = s
  <2>1. /\ PopCmd(t) \in Stacks /\ PopCmd(t).cmds = s.cmds
        /\ PopCmd(t).args = t.args /\ PopCmd(t).short = t.short
    BY <1>1, <1>4, <1>6, WithCmds
  <2> QED BY <1>4, <2>1, StackEqual
<1> QED BY <1>3, <1>4, <1>5, <1>7 DEF Tight, t

\* A value on a command on a stack: the command is performed on the value.
LEMMA PushBoth ==
    ASSUME NEW s \in Stacks, NEW c \in DOMAIN Code, NEW x \in BOOLEAN
    PROVE  /\ PushArg(PushCmd(s, c), x) \in Stacks
           /\ TopCmd(PushArg(PushCmd(s, c), x)) = c
           /\ PopCmd(PushArg(PushCmd(s, c), x)) = PushArg(s, x)
           /\ \A code : Tight(PushArg(PushCmd(s, c), x), code) <=> code <= Code[c]
<1> DEFINE t == PushCmd(s, c)
           u == PushArg(t, x)
<1>1. /\ t \in Stacks /\ TopCmd(t) = c /\ PopCmd(t) = s
      /\ \A code : Tight(t, code) <=> code <= Code[c]
  BY PushPopCmd
<1>2. t.cmds = Append(s.cmds, c) /\ t.args = s.args /\ t.short = s.short
  <2>1. Append(s.cmds, c) \in Seq(DOMAIN Code)
    BY StackParts
  <2> QED BY <2>1, WithCmds DEF PushCmd
<1>3. Append(s.cmds, c) # <<>> /\ Front(Append(s.cmds, c)) = s.cmds
  BY StackParts, FrontOfAppend
<1> HIDE DEF t
<1>4. /\ u \in Stacks /\ \A code : Tight(u, code) <=> Tight(t, code)
  BY <1>1, PushPopArg
<1>5. u.cmds = t.cmds /\ u.args = Append(s.args, x) /\ u.short = s.short
  <2>1. Append(t.args, x) \in Seq(BOOLEAN)
    BY <1>1, StackParts
  <2> QED BY <1>1, <1>2, <2>1, WithArgs DEF PushArg
<1>6. TopCmd(u) = c
  BY <1>1, <1>5 DEF TopCmd
<1> HIDE DEF u
<1>7. PopCmd(u) = PushArg(s, x)
  <2>1. PopCmd(u) = [u EXCEPT !.cmds = s.cmds]
    BY <1>2, <1>3, <1>5 DEF PopCmd
  <2>2. /\ PopCmd(u) \in Stacks /\ PopCmd(u).cmds = s.cmds
        /\ PopCmd(u).args = u.args /\ PopCmd(u).short = u.short
    BY <1>4, <2>1, StackParts, WithCmds
  <2>3. /\ PushArg(s, x) \in Stacks /\ PushArg(s, x).cmds = s.cmds
        /\ PushArg(s, x).args = Append(s.args, x) /\ PushArg(s, x).short = s.short
    <3>1. Append(s.args, x) \in Seq(BOOLEAN)
      BY StackParts
    <3> QED BY <3>1, WithArgs DEF PushArg
  <2> QED BY <1>5, <2>2, <2>3, StackEqual
<1> QED BY <1>1, <1>4, <1>6, <1>7 DEF t, u

\* The operator of two operands with that code, and what it makes of the
\* value x on the left and y on the right.
Operator(code) == IF code = 3 THEN "OR" ELSE "AND"
Joined(code, x, y) == IF code = 3 THEN y \/ x ELSE y /\ x

\* The stack ends with a left operand that waits behind an operator of that
\* code, and with nothing below that binds as tight.
Waits(s, code) ==
  \E s0 \in Stacks, x \in BOOLEAN :
     s = PushCmd(PushArg(s0, x), Operator(code)) /\ ~Tight(s0, code)

\* A part of a query without operators looser than code may be computed on s.
Ready(s, code) == s \in Stacks /\ (code = 5 \/ ~Tight(s, code) \/ Waits(s, code))

LEMMA JoinedBoolean ==
    ASSUME NEW code, NEW x \in BOOLEAN, NEW y \in BOOLEAN
    PROVE  Joined(code, x, y) \in BOOLEAN
<1>1. (y \/ x) \in BOOLEAN /\ (y /\ x) \in BOOLEAN
  BY Zenon
<1>2. CASE code = 3
  BY <1>1, <1>2, Zenon DEF Joined
<1>3. CASE code # 3
  BY <1>1, <1>3, Zenon DEF Joined
<1> QED BY <1>2, <1>3

LEMMA JoinedAssociates ==
    ASSUME NEW code, NEW x \in BOOLEAN, NEW y \in BOOLEAN, NEW z \in BOOLEAN
    PROVE  Joined(code, Joined(code, x, y), z) = Joined(code, x, Joined(code, y, z))
<1>1. (z \/ (y \/ x)) = ((z \/ y) \/ x)
  OBVIOUS
<1>2. (z /\ (y /\ x)) = ((z /\ y) /\ x)
  OBVIOUS
<1>3. CASE code = 3
  BY <1>1, <1>3, Zenon DEF Joined
<1>4. CASE code # 3
  BY <1>2, <1>4, Zenon DEF Joined
<1> QED BY <1>3, <1>4

\* Two values under an operator become one.
LEMMA UnwindJoin ==
    ASSUME NEW s0 \in Stacks, NEW code \in {3, 4}, NEW x \in BOOLEAN, NEW y \in BOOLEAN,
           NEW c \in Nat, c <= code
    PROVE  LET s == PushArg(PushCmd(PushArg(s0, x), Operator(code)), y)
           IN  Unwind(s, c) = Unwind(PushArg(s0, Joined(code, x, y)), c)
<1> DEFINE op == Operator(code)
           t == PushArg(s0, x)
           s == PushArg(PushCmd(t, op), y)
           u == PushArg(t, y)
<1>1. op \in DOMAIN Code /\ op \in {"OR", "AND"} /\ Code[op] = code
  <2>1. CASE code = 3
    BY <2>1, Codes DEF Operator, Code
  <2>2. CASE code = 4
    BY <2>2, Codes DEF Operator, Code
  <2> QED BY <2>1, <2>2
<1>2. t \in Stacks /\ TopArg(t) = x /\ PopArg(t) = s0
  BY PushPopArg
<1> HIDE DEF op, t
<1>3. s \in Stacks /\ TopCmd(s) = op /\ PopCmd(s) = u /\ Tight(s, c)
  BY <1>1, <1>2, PushBoth
<1>4. u \in Stacks /\ TopArg(u) = y /\ PopArg(u) = t
  BY <1>2, PushPopArg
<1> HIDE DEF s, u
<1>5. Unwind(s, c) = Unwind(perform(u, op), c)
  BY <1>3, UnwindTurn
<1>6. perform(u, op) = PushArg(s0, Joined(code, x, y))
  <2>1. /\ perform(u, "OR") = PushArg(s0, y \/ x)
        /\ perform(u, "AND") = PushArg(s0, y /\ x)
    BY <1>2, <1>4 DEF perform
  <2>2. CASE code = 3
    BY <2>1, <2>2, Zenon DEF Joined, op, Operator
  <2>3. CASE code = 4
    <3>1. code # 3
      BY <2>3
    <3> QED BY <2>1, <3>1, Zenon DEF Joined, op, Operator
  <2> QED BY <2>2, <2>3
<1> QED BY <1>5, <1>6 DEF s, t, op

\* An operator between a part with the value x and one with the value y.
LEMMA Join ==
    ASSUME NEW code \in {3, 4}, NEW s, Ready(s, code), NEW x \in BOOLEAN, NEW y \in BOOLEAN
    PROVE  LET s2 == PushCmd(Unwind(PushArg(s, x), code), Operator(code))
           IN  /\ Ready(s2, code)
               /\ Unwind(PushArg(s2, y), code)
                     = Unwind(PushArg(s, Joined(code, x, y)), code)
<1> DEFINE op == Operator(code)
           s1 == Unwind(PushArg(s, x), code)
           s2 == PushCmd(s1, op)
<1>1. /\ s \in Stacks /\ code \in Nat /\ code # 5
      /\ op \in DOMAIN Code /\ Code[op] = code
  <2>1. CASE code = 3
    BY <2>1, Codes DEF Operator, Code, Ready
  <2>2. CASE code = 4
    BY <2>2, Codes DEF Operator, Code, Ready
  <2> QED BY <2>1, <2>2
<1>2. CASE ~Tight(s, code)
  <2>1. s1 = PushArg(s, x)
    BY <1>1, <1>2, PushPopArg, UnwindStop
  <2>2. s2 = PushCmd(PushArg(s, x), Operator(code))
    BY <2>1
  <2>3. s2 \in Stacks
    BY <1>1, <2>2, PushPopArg, PushPopCmd
  <2>4. Waits(s2, code)
    BY <1>1, <1>2, <2>2 DEF Waits
  <2>5. Unwind(PushArg(s2, y), code) = Unwind(PushArg(s, Joined(code, x, y)), code)
    BY <1>1, <2>2, UnwindJoin
  <2> QED BY <2>3, <2>4, <2>5 DEF Ready
<1>3. CASE Tight(s, code)
  <2>1. PICK s0 \in Stacks, w \in BOOLEAN :
            s = PushCmd(PushArg(s0, w), Operator(code)) /\ ~Tight(s0, code)
    BY <1>1, <1>3 DEF Ready, Waits
  <2>2. ASSUME NEW z \in BOOLEAN
        PROVE  Unwind(PushArg(s, z), code) = PushArg(s0, Joined(code, w, z))
    <3>1. Unwind(PushArg(s, z), code) = Unwind(PushArg(s0, Joined(code, w, z)), code)
      BY <1>1, <2>1, UnwindJoin
    <3>2. Joined(code, w, z) \in BOOLEAN
      BY JoinedBoolean
    <3>3. PushArg(s0, Joined(code, w, z)) \in Stacks /\ ~Tight(PushArg(s0, Joined(code, w, z)), code)
      BY <2>1, <3>2, PushPopArg
    <3> QED BY <1>1, <3>1, <3>3, UnwindStop
  <2> DEFINE v == Joined(code, w, x)
  <2>3. v \in BOOLEAN /\ s1 = PushArg(s0, v)
    BY <2>2, JoinedBoolean
  <2>4. s2 = PushCmd(PushArg(s0, v), Operator(code))
    BY <2>3
  <2>5. s2 \in Stacks
    BY <1>1, <2>3, <2>4, PushPopArg, PushPopCmd
  <2>6. Waits(s2, code)
    <3> HIDE DEF v
    <3> QED BY <2>1, <2>3, <2>4 DEF Waits
  <2>7. Unwind(PushArg(s2, y), code) = PushArg(s0, Joined(code, v, y))
    <3> HIDE DEF v
    <3>1. Unwind(PushArg(s2, y), code) = Unwind(PushArg(s0, Joined(code, v, y)), code)
      BY <1>1, <2>3, <2>4, UnwindJoin
    <3>2. Joined(code, v, y) \in BOOLEAN
      BY <2>3, JoinedBoolean
    <3>3. PushArg(s0, Joined(code, v, y)) \in Stacks /\ ~Tight(PushArg(s0, Joined(code, v, y)), code)
      BY <2>1, <3>2, PushPopArg
    <3> QED BY <1>1, <3>1, <3>3, UnwindStop
  <2>8. /\ Joined(code, x, y) \in BOOLEAN
        /\ Joined(code, v, y) = Joined(code, w, Joined(code, x, y))
    BY JoinedBoolean, JoinedAssociates
  <2>9. Unwind(PushArg(s, Joined(code, x, y)), code) = PushArg(s0, Joined(code, w, Joined(code, x, y)))
    BY <2>2, <2>8
  <2> QED BY <2>5, <2>6, <2>7, <2>8, <2>9 DEF Ready
<1> QED BY <1>2, <1>3

LEMMA UnwindNot ==
    ASSUME NEW s \in Stacks, NEW x \in BOOLEAN
    PROVE  Unwind(PushArg(PushCmd(s, "NOT"), x), 5) = Unwind(PushArg(s, ~x), 5)
<1> DEFINE t == PushArg(PushCmd(s, "NOT"), x)
           u == PushArg(s, x)
<1>1. "NOT" \in DOMAIN Code /\ Code["NOT"] = 5
  BY DEF Code
<1>2. t \in Stacks /\ TopCmd(t) = "NOT" /\ PopCmd(t) = u /\ Tight(t, 5)
  BY <1>1, PushBoth
<1>3. TopArg(u) = x /\ PopArg(u) = s
  BY PushPopArg
<1> HIDE DEF t, u
<1>4. Unwind(t, 5) = Unwind(perform(u, "NOT"), 5)
  BY <1>2, UnwindTurn
<1>5. perform(u, "NOT") = PushArg(s, ~x)
  BY <1>3 DEF perform
<1> QED BY <1>4, <1>5 DEF t

\* What holds of the tight commands holds of the looser ones.
LEMMA UnwindLower ==
    ASSUME NEW s \in Stacks, NEW t \in Stacks, NEW c \in Nat, NEW d \in Nat, c <= d,
           Unwind(s, d) = Unwind(t, d)
    PROVE  Unwind(s, c) = Unwind(t, c)
BY UnwindTwice

LEMMA ReadyHigher ==
    ASSUME NEW s, NEW c \in 3..5, NEW d \in 3..5, c <= d, Ready(s, c)
    PROVE  Ready(s, d)
<1>1. s \in Stacks
  BY DEF Ready
<1>2. CASE d = 5 \/ c = d
  BY <1>1, <1>2 DEF Ready
<1>3. CASE c = 3 /\ d = 4
  <2>1. CASE ~Tight(s, 3)
    BY <1>1, <1>3, <2>1, TightLower DEF Ready
  <2>2. CASE Waits(s, 3)
    <3>1. PICK s0 \in Stacks, x \in BOOLEAN : s = PushCmd(PushArg(s0, x), Operator(3))
      BY <2>2 DEF Waits
    <3>2. Operator(3) = "OR" /\ "OR" \in DOMAIN Code /\ Code["OR"] = 3
      BY DEF Operator, Code
    <3>3. ~Tight(s, 4)
      BY <3>1, <3>2, PushPopArg, PushPopCmd
    <3> QED BY <1>1, <1>3, <3>3 DEF Ready
  <2> QED BY <1>3, <2>1, <2>2 DEF Ready
<1> QED BY <1>2, <1>3

-----------------------------------------------------------------------------
(* The parts of a query.                                                   *)

LEMMA DepthStep ==
    ASSUME NEW list, NEW i \in Nat \ {0}
    PROVE  /\ Depth(list, 0) = 0 /\ Depth(list, i) \in Int /\ Depth(list, i - 1) \in Int
           /\ Depth(list, i) = CASE list[i].cmd = "LEFT"  -> Depth(list, i - 1) + 1
                                 [] list[i].cmd = "RIGHT" -> Depth(list, i - 1) - 1
                                 [] OTHER                 -> Depth(list, i - 1)
<1> DEFINE UpTo(cmd, n) == {k \in 1..n : list[k].cmd = cmd}
<1>1. \A n : Depth(list, n) = Cardinality(UpTo("LEFT", n)) - Cardinality(UpTo("RIGHT", n))
  BY DEF Depth
<1>2. ASSUME NEW cmd
      PROVE  /\ Cardinality(UpTo(cmd, 0)) = 0
             /\ Cardinality(UpTo(cmd, i)) \in Nat /\ Cardinality(UpTo(cmd, i - 1)) \in Nat
             /\ Cardinality(UpTo(cmd, i)) =
                   Cardinality(UpTo(cmd, i - 1)) + IF list[i].cmd = cmd THEN 1 ELSE 0
  <2>1. UpTo(cmd, 0) = {}
    OBVIOUS
  <2>2. IsFiniteSet(UpTo(cmd, i - 1)) /\ i \notin UpTo(cmd, i - 1)
    <3>1. IsFiniteSet(1..(i - 1)) /\ UpTo(cmd, i - 1) \subseteq 1..(i - 1)
      BY FS_Interval
    <3> QED BY <3>1, FS_Subset
  <2>3. UpTo(cmd, i) = IF list[i].cmd = cmd THEN UpTo(cmd, i - 1) \cup {i} ELSE UpTo(cmd, i - 1)
    OBVIOUS
  <2> HIDE DEF UpTo
  <2>4. Cardinality(UpTo(cmd, i - 1)) \in Nat
    BY <2>2, FS_CardinalityType
  <2>5. Cardinality(UpTo(cmd, i - 1) \cup {i}) = Cardinality(UpTo(cmd, i - 1)) + 1
    BY <2>2, FS_AddElement
  <2>6. Cardinality(UpTo(cmd, 0)) = 0
    BY <2>1, FS_EmptySet
  <2>7. CASE list[i].cmd = cmd
    <3>1. UpTo(cmd, i) = UpTo(cmd, i - 1) \cup {i}
      BY <2>3, <2>7
    <3> QED BY <2>4, <2>5, <2>6, <2>7, <3>1
  <2>8. CASE list[i].cmd # cmd
    <3>1. UpTo(cmd, i) = UpTo(cmd, i - 1)
      BY <2>3, <2>8
    <3> QED BY <2>4, <2>6, <2>8, <3>1
  <2> QED BY <2>7, <2>8
<1> HIDE DEF UpTo
<1>3. /\ Cardinality(UpTo("LEFT", 0)) = 0 /\ Cardinality(UpTo("RIGHT", 0)) = 0
      /\ Cardinality(UpTo("LEFT", i)) \in Nat /\ Cardinality(UpTo("LEFT", i - 1)) \in Nat
      /\ Cardinality(UpTo("RIGHT", i)) \in Nat /\ Cardinality(UpTo("RIGHT", i - 1)) \in Nat
      /\ Cardinality(UpTo("LEFT", i)) =
            Cardinality(UpTo("LEFT", i - 1)) + IF list[i].cmd = "LEFT" THEN 1 ELSE 0
      /\ Cardinality(UpTo("RIGHT", i)) =
            Cardinality(UpTo("RIGHT", i - 1)) + IF list[i].cmd = "RIGHT" THEN 1 ELSE 0
  BY <1>2
<1>4. /\ Depth(list, 0) = Cardinality(UpTo("LEFT", 0)) - Cardinality(UpTo("RIGHT", 0))
      /\ Depth(list, i) = Cardinality(UpTo("LEFT", i)) - Cardinality(UpTo("RIGHT", i))
      /\ Depth(list, i - 1) = Cardinality(UpTo("LEFT", i - 1)) - Cardinality(UpTo("RIGHT", i - 1))
  BY <1>1
<1>5. CASE list[i].cmd = "LEFT"
  BY <1>3, <1>4, <1>5
<1>6. CASE list[i].cmd = "RIGHT"
  BY <1>3, <1>4, <1>6
<1>7. CASE list[i].cmd \notin {"LEFT", "RIGHT"}
  BY <1>3, <1>4, <1>7
<1> QED BY <1>5, <1>6, <1>7

LEMMA DepthSame ==
    ASSUME NEW list, NEW more, NEW i \in Nat, \A j \in 1..i : more[j] = list[j]
    PROVE  Depth(more, i) = Depth(list, i)
<1>1. /\ {k \in 1..i : more[k].cmd = "LEFT"} = {k \in 1..i : list[k].cmd = "LEFT"}
      /\ {k \in 1..i : more[k].cmd = "RIGHT"} = {k \in 1..i : list[k].cmd = "RIGHT"}
  OBVIOUS
<1> QED BY <1>1 DEF Depth

\* A query that is searched: its last operand is there, its brackets and
\* quotes are closed.
Complete(list) ==
  /\ Typed(list)
  /\ DOMAIN list = 1..Len(list) /\ Len(list) \in Nat \ {0}
  /\ list[Len(list)].cmd \in EndsOperand
  /\ ~InPhrase(list, Len(list) + 1)
  /\ Depth(list, Len(list)) = 0
  /\ \A k \in 1..Len(list) : Depth(list, k) >= 0

\* A part of a query that has a value.
IsPart(list, i, j) ==
  /\ i \in 1..Len(list) /\ j \in i..Len(list)
  /\ ~InPhrase(list, i) /\ list[i].cmd \in StartsOperand
  /\ ~InPhrase(list, j + 1) /\ list[j].cmd \in EndsOperand
  /\ Depth(list, j) = Depth(list, i - 1)
  /\ \A k \in i..j : Depth(list, k) >= Depth(list, i - 1)

LEMMA WholePart ==
    ASSUME NEW list, Complete(list)
    PROVE  IsPart(list, 1, Len(list))
<1>1. ~InPhrase(list, 1) /\ Depth(list, 0) = 0 /\ 1 - 1 = 0
  <2>1. 1 \in Nat \ {0} /\ 1 - 1 = 0
    OBVIOUS
  <2>2. ~InPhrase(list, 1)
    BY <2>1, InPhraseStep
  <2>3. Depth(list, 0) = 0
    BY <2>1, DepthStep
  <2> QED BY <2>1, <2>2, <2>3
<1>2. list[1].cmd \in StartsOperand
  BY <1>1 DEF Complete, Typed
<1> QED BY <1>1, <1>2 DEF Complete, IsPart

\* What follows an item outside of phrases.
LEMMA NextItem ==
    ASSUME NEW list, Complete(list), NEW i \in 1..Len(list), ~InPhrase(list, i + 1)
    PROVE  /\ list[i].cmd \notin EndsOperand => i < Len(list) /\ list[i + 1].cmd \in StartsOperand
           /\ i < Len(list) /\ list[i + 1].cmd \notin StartsOperand =>
                 list[i].cmd \in EndsOperand /\ list[i + 1].cmd \in {"OR", "AND", "RIGHT"}
<1>1. /\ DOMAIN list = 1..Len(list) /\ Len(list) \in Nat \ {0}
      /\ list[Len(list)].cmd \in EndsOperand
  BY DEF Complete
<1>2. ASSUME i < Len(list) PROVE i + 1 \in DOMAIN list /\ (i + 1) - 1 = i
  BY <1>1, <1>2
<1>3. ASSUME i < Len(list), list[i + 1].cmd \notin StartsOperand
      PROVE  list[i].cmd \in EndsOperand /\ list[i + 1].cmd \in {"OR", "AND", "RIGHT"}
  <2>1. /\ InOrder(list, i + 1)
        /\ ~InPhrase(list, i + 1) /\ list[i + 1].cmd \notin StartsOperand =>
              i + 1 > 1 /\ list[(i + 1) - 1].cmd \in EndsOperand
    BY <1>2, <1>3 DEF Complete, Typed
  <2> QED BY <1>2, <1>3, <2>1 DEF InOrder, Cmds, StartsOperand
<1>4. list[i].cmd \notin EndsOperand => i < Len(list)
  BY <1>1
<1> QED BY <1>3, <1>4

\* An operator splits a part into two.
LEMMA SplitParts ==
    ASSUME NEW list, Complete(list), NEW i, NEW j, IsPart(list, i, j),
           NEW cmd \in {"OR", "AND"}, NEW k \in Splits(list, i, j, cmd)
    PROVE  /\ k \in (i + 1)..(j - 1)
           /\ IsPart(list, i, k - 1) /\ IsPart(list, k + 1, j)
           /\ Depth(list, k) = Depth(list, i - 1)
           /\ list[k].cmd = cmd /\ ~InPhrase(list, k)
<1>1. /\ k \in i..j /\ list[k].cmd = cmd /\ ~InPhrase(list, k)
      /\ Depth(list, k) = Depth(list, i - 1)
  BY DEF Splits, Outside
<1>2. /\ i \in 1..Len(list) /\ j \in i..Len(list) /\ Len(list) \in Nat
      /\ ~InPhrase(list, i) /\ list[i].cmd \in StartsOperand
      /\ ~InPhrase(list, j + 1) /\ list[j].cmd \in EndsOperand
      /\ Depth(list, j) = Depth(list, i - 1)
      /\ \A l \in i..j : Depth(list, l) >= Depth(list, i - 1)
      /\ DOMAIN list = 1..Len(list)
  BY DEF IsPart, Complete
<1>3. k # i /\ k # j
  BY <1>1, <1>2 DEF StartsOperand, EndsOperand
<1>4. k \in (i + 1)..(j - 1) /\ k - 1 \in i..j /\ k - 1 \in 1..Len(list) /\ (k - 1) + 1 = k
      /\ k \in 1..Len(list) /\ k \in Nat \ {0} /\ k + 1 \in 1..Len(list) /\ (k + 1) - 1 = k
      /\ j \in (k + 1)..Len(list) /\ k - 1 \in i..Len(list)
  BY <1>1, <1>2, <1>3
<1>5. Depth(list, k - 1) = Depth(list, i - 1)
  <2>1. list[k].cmd \notin {"LEFT", "RIGHT"}
    BY <1>1
  <2> QED BY <1>1, <1>4, <2>1, DepthStep
<1>6. ~InPhrase(list, k + 1)
  BY <1>1, <1>4, InPhraseStep
<1>7. list[k + 1].cmd \in StartsOperand
  <2>1. list[k].cmd \notin EndsOperand
    BY <1>1 DEF EndsOperand
  <2> QED BY <1>4, <1>6, <2>1, NextItem
<1>8. list[k - 1].cmd \in EndsOperand
  <2> DEFINE p == k - 1
  <2>1. p \in 1..Len(list) /\ p < Len(list) /\ p + 1 = k
    BY <1>4
  <2> HIDE DEF p
  <2>2. list[p + 1].cmd \notin StartsOperand
    BY <1>1, <2>1 DEF StartsOperand
  <2>3. list[p].cmd \in EndsOperand
    BY <1>1, <2>1, <2>2, NextItem
  <2> QED BY <2>3 DEF p
<1>9. IsPart(list, i, k - 1)
  <2>1. \A l \in i..(k - 1) : l \in i..j
    BY <1>2, <1>4
  <2> QED BY <1>1, <1>2, <1>4, <1>5, <1>8, <2>1 DEF IsPart
<1>10. IsPart(list, k + 1, j)
  <2>1. \A l \in (k + 1)..j : l \in i..j
    BY <1>2, <1>4
  <2>2. \A l \in (k + 1)..j : Depth(list, l) >= Depth(list, k)
    BY <1>1, <1>2, <2>1
  <2> QED BY <1>1, <1>2, <1>4, <1>6, <1>7, <2>2 DEF IsPart
<1> QED BY <1>1, <1>4, <1>9, <1>10

LEMMA GapParts ==
    ASSUME NEW list, Complete(list), NEW i, NEW j, IsPart(list, i, j),
           NEW k \in Gaps(list, i, j)
    PROVE  /\ k \in (i + 1)..j
           /\ IsPart(list, i, k - 1) /\ IsPart(list, k, j)
           /\ Depth(list, k - 1) = Depth(list, i - 1)
           /\ NeedsCmd(list, k)
<1>1. /\ k \in (i + 1)..j /\ list[k - 1].cmd \in EndsOperand /\ list[k].cmd \in StartsOperand
      /\ ~InPhrase(list, k) /\ Depth(list, k - 1) = Depth(list, i - 1)
  BY DEF Gaps
<1>2. /\ i \in 1..Len(list) /\ j \in i..Len(list) /\ Len(list) \in Nat
      /\ ~InPhrase(list, i) /\ list[i].cmd \in StartsOperand
      /\ ~InPhrase(list, j + 1) /\ list[j].cmd \in EndsOperand
      /\ Depth(list, j) = Depth(list, i - 1)
      /\ \A l \in i..j : Depth(list, l) >= Depth(list, i - 1)
  BY DEF IsPart, Complete
<1>3. /\ k > 1 /\ k \in 1..Len(list) /\ j \in k..Len(list) /\ k - 1 \in i..Len(list)
      /\ (k - 1) + 1 = k
      /\ \A l \in i..(k - 1) : l \in i..j
      /\ \A l \in k..j : l \in i..j
  BY <1>1, <1>2
<1>4. IsPart(list, i, k - 1)
  BY <1>1, <1>2, <1>3 DEF IsPart
<1>5. IsPart(list, k, j)
  <2>1. \A l \in k..j : Depth(list, l) >= Depth(list, k - 1)
    BY <1>1, <1>2, <1>3
  <2> QED BY <1>1, <1>2, <1>3, <2>1 DEF IsPart
<1>6. NeedsCmd(list, k)
  BY <1>1, <1>3 DEF NeedsCmd
<1> QED BY <1>1, <1>4, <1>5, <1>6

\* A part without operators and gaps is one operand.
Single(list, i, j) ==
  Splits(list, i, j, "OR") = {} /\ Splits(list, i, j, "AND") = {} /\ Gaps(list, i, j) = {}

LEMMA SingleEnds ==
    ASSUME NEW list, Complete(list), NEW i, NEW j, IsPart(list, i, j), Single(list, i, j),
           NEW k \in i..j, list[k].cmd \in EndsOperand, ~InPhrase(list, k + 1),
           Depth(list, k) = Depth(list, i - 1)
    PROVE  k = j
<1> SUFFICES ASSUME k # j PROVE FALSE
  OBVIOUS
<1>1. /\ i \in 1..Len(list) /\ j \in i..Len(list) /\ Len(list) \in Nat
      /\ \A l \in i..j : Depth(list, l) >= Depth(list, i - 1)
  BY DEF IsPart, Complete
<1>2. /\ k < Len(list) /\ k + 1 \in (i + 1)..j /\ k + 1 \in i..j /\ (k + 1) - 1 = k
      /\ k + 1 \in Nat \ {0} /\ k \in 1..Len(list)
  BY <1>1
<1>3. CASE list[k + 1].cmd \in StartsOperand
  <2>1. k + 1 \in Gaps(list, i, j)
    BY <1>2, <1>3 DEF Gaps
  <2> QED BY <2>1 DEF Single
<1>4. CASE list[k + 1].cmd \notin StartsOperand
  <2>1. list[k + 1].cmd \in {"OR", "AND", "RIGHT"}
    BY <1>2, <1>4, NextItem
  <2>2. CASE list[k + 1].cmd = "RIGHT"
    <3>1. Depth(list, k + 1) = Depth(list, k) - 1 /\ Depth(list, k) \in Int
      BY <1>2, <2>2, DepthStep
    <3>2. Depth(list, k + 1) >= Depth(list, i - 1)
      BY <1>1, <1>2
    <3> QED BY <3>1, <3>2
  <2>3. CASE list[k + 1].cmd # "RIGHT"
    <3>1. list[k + 1].cmd \notin {"LEFT", "RIGHT"}
      BY <2>1, <2>3
    <3>2. Depth(list, k + 1) = Depth(list, k)
      BY <1>2, <3>1, DepthStep
    <3>3. k + 1 \in Splits(list, i, j, list[k + 1].cmd)
      BY <1>2, <3>2 DEF Splits, Outside
    <3> QED BY <2>1, <2>3, <3>3 DEF Single
  <2> QED BY <2>2, <2>3
<1> QED BY <1>3, <1>4

-----------------------------------------------------------------------------
(* The meaning of a query, part by part.                                   *)

PartsOf(list) == (DOMAIN list) \X (DOMAIN list)

\* v[n] has the meanings of the parts of n items and less.
Meanings(v, list, t) ==
  /\ v \in [0..Len(list) -> [PartsOf(list) -> BOOLEAN]]
  /\ \A n \in 1..Len(list) : \A part \in PartsOf(list) :
        v[n][part] <=> PartMeans(list, t, v[n - 1], part[1], part[2])

LEMMA MeansParts ==
    ASSUME NEW list, Len(list) \in Nat, NEW t
    PROVE  \E v : Meanings(v, list, t) /\ Means(list, t) = v[Len(list)][<<1, Len(list)>>]
<1> DEFINE N == Len(list)
           P == (DOMAIN list) \X (DOMAIN list)
           S == [P -> BOOLEAN]
           Deeper(w, n) == [part \in P |-> n > 0 /\ PartMeans(list, t, w, part[1], part[2])]
           Rec(h) == h = [n \in 0..N |-> [part \in P |->
                            n > 0 /\ PartMeans(list, t, h[n - 1], part[1], part[2])]]
           upTo == CHOOSE h : Rec(h)
<1>1. Means(list, t) = upTo[N][<<1, N>>]
  BY DEF Means
<1>2. PICK f : /\ f \in [0..N -> S]
               /\ f[0] = [part \in P |-> FALSE]
               /\ \A n \in 1..N : f[n] = Deeper(f[n - 1], n)
  <2> DEFINE F == [p \in S \X Nat |-> Deeper(p[1], p[2] + 1)]
             first == [part \in P |-> FALSE]
  <2>1. \A w, n : Deeper(w, n) \in S
    <3> HIDE DEF P
    <3> QED OBVIOUS
  <2>2. first \in S
    <3> HIDE DEF P
    <3> QED OBVIOUS
  <2> HIDE DEF Deeper, N, S, first
  <2>3. F \in Steps(S)
    BY <2>1 DEF Steps
  <2> HIDE DEF F
  <2>4. PICK f : Follows(f, S, first, F, N)
    BY <2>2, <2>3, BoundedRecursion DEF N
  <2>5. /\ f \in [0..N -> S] /\ f[0] = first
        /\ \A n \in 1..N : f[n] = F[<<f[n - 1], n - 1>>]
    BY <2>4 DEF Follows
  <2>6. ASSUME NEW n \in 1..N PROVE f[n] = Deeper(f[n - 1], n)
    <3>1. n - 1 \in Nat /\ n - 1 \in 0..N /\ (n - 1) + 1 = n
      BY DEF N
    <3>2. <<f[n - 1], n - 1>> \in S \X Nat
      BY <2>5, <3>1
    <3>3. F[<<f[n - 1], n - 1>>] = Deeper(f[n - 1], n)
      BY <3>1, <3>2 DEF F
    <3> QED BY <2>5, <3>3
  <2> QED BY <2>5, <2>6 DEF first
<1>3. Rec(f)
  <2> DEFINE G(h, n) == [part \in P |-> n > 0 /\ PartMeans(list, t, h[n - 1], part[1], part[2])]
  <2>1. f[0] = G(f, 0)
    <3>1. \A part \in P : ~(0 > 0 /\ PartMeans(list, t, f[0 - 1], part[1], part[2]))
      OBVIOUS
    <3>2. G(f, 0) = [part \in P |-> FALSE]
      BY <3>1, Zenon
    <3> QED BY <1>2, <3>2
  <2>2. \A n \in 1..N : f[n] = G(f, n)
    BY <1>2
  <2> HIDE DEF G
  <2>3. f = [n \in 0..N |-> f[n]]
    BY <1>2
  <2>4. \A n \in 0..N : n = 0 \/ n \in 1..N
    OBVIOUS
  <2>5. \A n \in 0..N : f[n] = G(f, n)
    BY <2>1, <2>2, <2>4
  <2>6. f = [n \in 0..N |-> G(f, n)]
    BY <2>3, <2>5
  <2> QED BY <2>6 DEF G
<1>4. Rec(upTo)
  <2> HIDE DEF Rec
  <2> QED BY <1>3
<1> HIDE DEF upTo
<1> DEFINE G(h, n) == [part \in P |-> n > 0 /\ PartMeans(list, t, h[n - 1], part[1], part[2])]
<1>5. upTo = [n \in 0..N |-> G(upTo, n)]
  BY <1>4
<1>6. upTo \in [0..N -> S]
  <2>1. \A h, n : G(h, n) \in S
    <3> HIDE DEF P
    <3> QED OBVIOUS
  <2> HIDE DEF G, S, N, Rec
  <2> QED BY <1>5, <2>1
<1>7. ASSUME NEW n \in 1..N, NEW part \in P
      PROVE  upTo[n][part] <=> PartMeans(list, t, upTo[n - 1], part[1], part[2])
  <2>1. upTo[n] = G(upTo, n)
    <3>1. n \in 0..N
      OBVIOUS
    <3> HIDE DEF G, N, Rec
    <3> QED BY <1>5, <3>1
  <2>2. n > 0
    OBVIOUS
  <2> HIDE DEF P
  <2> QED BY <2>1, <2>2
<1>8. Meanings(upTo, list, t)
  <2> HIDE DEF Rec, G
  <2> QED BY <1>6, <1>7 DEF Meanings, PartsOf
<1> QED BY <1>1, <1>8

-----------------------------------------------------------------------------
(* The stack machine on a query: as on its completed list, where the       *)
(* operator of the search mode is computed with the operand behind it.     *)

Loaded(list, s, i) ==
  IF NeedsCmd(list, i)
  THEN PushCmd(Unwind(s, Code[AddedCmd(mode)]), AddedCmd(mode))
  ELSE s

\* stack[i] is the stack behind item i.
Trace(stack, list, count) ==
  /\ stack \in [0..Len(list) -> Stacks]
  /\ stack[0] = EmptyStack
  /\ \A i \in 1..Len(list) : stack[i] = Calc(list, count, Loaded(list, stack[i - 1], i), i)

Before(list, stack, i) == Loaded(list, stack[i - 1], i)

\* The quotes at i and j are those of one phrase.
Quotes(list, i, j) ==
  /\ i \in DOMAIN list /\ j \in DOMAIN list /\ i < j
  /\ list[i].cmd = "PHRASE" /\ list[j].cmd = "PHRASE" /\ ~InPhrase(list, i)
  /\ \A k \in (i + 1)..(j - 1) : list[k].cmd # "PHRASE"

\* The words and phrases that count are those the text has.
Truth(list, count, t) ==
  /\ \A i \in DOMAIN list : list[i].cmd = "WORD" /\ ~InPhrase(list, i) =>
        (list[i].arg \in count <=> Has(t, list[i].arg))
  /\ \A i, j \in DOMAIN list : Quotes(list, i, j) =>
        (list[i + 1].arg \in count <=> PhraseIn(SubSeq(list, i + 1, j - 1), t))

\* A part of the query comes to one value.
Comes(list, stack, i, j, x, code) ==
  Unwind(stack[j], code) = Unwind(PushArg(Before(list, stack, i), x), code)

\* No operator of a part is looser than code.
Level(list, i, j, code) ==
  /\ code > 3 => /\ Splits(list, i, j, "OR") = {}
                 /\ mode = "any" => Gaps(list, i, j) = {}
  /\ code > 4 => /\ Splits(list, i, j, "AND") = {}
                 /\ mode # "any" => Gaps(list, i, j) = {}

\* The parts of n items and less come to their meanings.
Claim(list, stack, v, n) ==
  \A i, j \in 1..Len(list), code \in 3..5 :
     IsPart(list, i, j) /\ j - i + 1 <= n /\ Level(list, i, j, code)
        /\ Ready(Before(list, stack, i), code)
     => Comes(list, stack, i, j, v[n][<<i, j>>], code)

LEMMA MeaningBoolean ==
    ASSUME NEW list, NEW v, NEW t, Meanings(v, list, t), DOMAIN list = 1..Len(list),
           NEW n \in 0..Len(list), NEW i \in 1..Len(list), NEW j \in 1..Len(list)
    PROVE  v[n][<<i, j>>] \in BOOLEAN
<1>1. v[n] \in [PartsOf(list) -> BOOLEAN]
  BY DEF Meanings
<1>2. <<i, j>> \in PartsOf(list)
  BY DEF PartsOf
<1> QED BY <1>1, <1>2

LEMMA LevelPart ==
    ASSUME NEW list, NEW i \in Int, NEW j \in Int, NEW code, Level(list, i, j, code),
           NEW k \in Int, NEW l \in Int, i <= k, l <= j, Depth(list, k - 1) = Depth(list, i - 1)
    PROVE  Level(list, k, l, code)
<1>1. /\ \A cmd : Splits(list, k, l, cmd) \subseteq Splits(list, i, j, cmd)
  BY DEF Splits, Outside
<1>2. Gaps(list, k, l) \subseteq Gaps(list, i, j)
  BY DEF Gaps
<1> QED BY <1>1, <1>2 DEF Level

LEMMA OperatorCode ==
    ASSUME NEW code \in {3, 4}
    PROVE  /\ Operator(code) \in {"OR", "AND"} /\ Operator(code) \in DOMAIN Code
           /\ Code[Operator(code)] = code
<1>1. CASE code = 3
  BY <1>1, Codes DEF Operator, Code
<1>2. CASE code = 4
  BY <1>2, Codes DEF Operator, Code
<1> QED BY <1>1, <1>2

LEMMA JoinParts ==
    ASSUME NEW list, NEW stack, NEW code \in {3, 4}, NEW x \in BOOLEAN, NEW y \in BOOLEAN,
           NEW i, NEW k, NEW l, NEW j, Ready(Before(list, stack, i), code),
           Comes(list, stack, i, k, x, code),
           Before(list, stack, l) = PushCmd(Unwind(stack[k], code), Operator(code)),
           Ready(Before(list, stack, l), code) => Comes(list, stack, l, j, y, code)
    PROVE  Comes(list, stack, i, j, Joined(code, x, y), code)
<1> DEFINE s == Before(list, stack, i)
           s2 == PushCmd(Unwind(PushArg(s, x), code), Operator(code))
<1>1. s2 = Before(list, stack, l)
  BY DEF Comes
<1>2. /\ Ready(s2, code)
      /\ Unwind(PushArg(s2, y), code) = Unwind(PushArg(s, Joined(code, x, y)), code)
  BY Join
<1> HIDE DEF s, s2
<1>3. Unwind(stack[j], code) = Unwind(PushArg(s2, y), code)
  BY <1>1, <1>2 DEF Comes
<1> QED BY <1>2, <1>3 DEF Comes, s

\* Behind an operator nothing is added.
LEMMA AfterOperator ==
    ASSUME NEW list, NEW stack, NEW count, Trace(stack, list, count), Len(list) \in Nat,
           NEW k \in 1..(Len(list) - 1), list[k].cmd \in {"OR", "AND"}, ~InPhrase(list, k)
    PROVE  Before(list, stack, k + 1)
              = PushCmd(Unwind(stack[k - 1], Code[list[k].cmd]), list[k].cmd)
<1>1. (k + 1) - 1 = k /\ k \in 1..Len(list)
  OBVIOUS
<1>2. ~NeedsCmd(list, k)
  BY DEF NeedsCmd, StartsOperand
<1>3. ~NeedsCmd(list, k + 1)
  BY <1>1 DEF NeedsCmd, EndsOperand
<1>4. Before(list, stack, k + 1) = stack[k]
  BY <1>1, <1>3 DEF Before, Loaded
<1>5. stack[k] = Calc(list, count, stack[k - 1], k)
  BY <1>1, <1>2 DEF Trace, Loaded
<1>6. Calc(list, count, stack[k - 1], k)
         = PushCmd(Unwind(stack[k - 1], Code[list[k].cmd]), list[k].cmd)
  BY DEF Calc
<1> QED BY <1>4, <1>5, <1>6

LEMMA SplitComes ==
    ASSUME NEW list, Complete(list), NEW stack, NEW count, Trace(stack, list, count),
           NEW t, NEW v, Meanings(v, list, t),
           NEW n \in 1..Len(list), Claim(list, stack, v, n - 1),
           NEW i, NEW j, IsPart(list, i, j), j - i + 1 <= n,
           NEW code \in {3, 4}, Level(list, i, j, code), Ready(Before(list, stack, i), code),
           NEW k \in Splits(list, i, j, Operator(code))
    PROVE  /\ v[n - 1][<<i, k - 1>>] \in BOOLEAN /\ v[n - 1][<<k + 1, j>>] \in BOOLEAN
           /\ Comes(list, stack, i, j,
                    Joined(code, v[n - 1][<<i, k - 1>>], v[n - 1][<<k + 1, j>>]), code)
<1> DEFINE x == v[n - 1][<<i, k - 1>>]
           y == v[n - 1][<<k + 1, j>>]
<1>1. /\ k \in (i + 1)..(j - 1)
      /\ IsPart(list, i, k - 1) /\ IsPart(list, k + 1, j)
      /\ Depth(list, k) = Depth(list, i - 1)
      /\ list[k].cmd = Operator(code) /\ ~InPhrase(list, k)
  BY OperatorCode, SplitParts
<1>2. /\ i \in 1..Len(list) /\ j \in i..Len(list) /\ Len(list) \in Nat
      /\ DOMAIN list = 1..Len(list)
  BY DEF IsPart, Complete
<1>3. /\ k - 1 \in 1..Len(list) /\ k + 1 \in 1..Len(list) /\ k \in 1..(Len(list) - 1)
      /\ i \in 1..Len(list) /\ j \in 1..Len(list)
      /\ (k - 1) - i + 1 <= n - 1 /\ j - (k + 1) + 1 <= n - 1
      /\ (k + 1) - 1 = k /\ n - 1 \in 0..Len(list) /\ code \in 3..5
  BY <1>1, <1>2
<1>4. x \in BOOLEAN /\ y \in BOOLEAN
  BY <1>2, <1>3, MeaningBoolean
<1>5. Level(list, i, k - 1, code) /\ Level(list, k + 1, j, code)
  BY <1>1, <1>2, <1>3, LevelPart
<1>6. Comes(list, stack, i, k - 1, x, code)
  BY <1>1, <1>3, <1>5 DEF Claim
<1>7. Ready(Before(list, stack, k + 1), code) => Comes(list, stack, k + 1, j, y, code)
  BY <1>1, <1>3, <1>5 DEF Claim
<1>8. Before(list, stack, k + 1) = PushCmd(Unwind(stack[k - 1], code), Operator(code))
  BY <1>1, <1>2, <1>3, OperatorCode, AfterOperator
<1> HIDE DEF x, y
<1>9. Comes(list, stack, i, j, Joined(code, x, y), code)
  BY <1>4, <1>6, <1>7, <1>8, JoinParts
<1> QED BY <1>4, <1>9 DEF x, y

LEMMA GapComes ==
    ASSUME NEW list, Complete(list), NEW stack, NEW count, Trace(stack, list, count),
           NEW t, NEW v, Meanings(v, list, t),
           NEW n \in 1..Len(list), Claim(list, stack, v, n - 1),
           NEW i, NEW j, IsPart(list, i, j), j - i + 1 <= n,
           NEW code \in {3, 4}, Level(list, i, j, code), Ready(Before(list, stack, i), code),
           AddedCmd(mode) = Operator(code), NEW k \in Gaps(list, i, j)
    PROVE  /\ v[n - 1][<<i, k - 1>>] \in BOOLEAN /\ v[n - 1][<<k, j>>] \in BOOLEAN
           /\ Comes(list, stack, i, j,
                    Joined(code, v[n - 1][<<i, k - 1>>], v[n - 1][<<k, j>>]), code)
<1> DEFINE x == v[n - 1][<<i, k - 1>>]
           y == v[n - 1][<<k, j>>]
<1>1. /\ k \in (i + 1)..j
      /\ IsPart(list, i, k - 1) /\ IsPart(list, k, j)
      /\ Depth(list, k - 1) = Depth(list, i - 1)
      /\ NeedsCmd(list, k)
  BY GapParts
<1>2. /\ i \in 1..Len(list) /\ j \in i..Len(list) /\ Len(list) \in Nat
      /\ DOMAIN list = 1..Len(list)
  BY DEF IsPart, Complete
<1>3. /\ k - 1 \in 1..Len(list) /\ k \in 1..Len(list)
      /\ i \in 1..Len(list) /\ j \in 1..Len(list)
      /\ (k - 1) - i + 1 <= n - 1 /\ j - k + 1 <= n - 1
      /\ n - 1 \in 0..Len(list) /\ code \in 3..5
  BY <1>1, <1>2
<1>4. x \in BOOLEAN /\ y \in BOOLEAN
  BY <1>2, <1>3, MeaningBoolean
<1>5. Level(list, i, k - 1, code) /\ Level(list, k, j, code)
  BY <1>1, <1>2, <1>3, LevelPart
<1>6. Comes(list, stack, i, k - 1, x, code)
  BY <1>1, <1>3, <1>5 DEF Claim
<1>7. Ready(Before(list, stack, k), code) => Comes(list, stack, k, j, y, code)
  BY <1>1, <1>3, <1>5 DEF Claim
<1>8. Before(list, stack, k) = PushCmd(Unwind(stack[k - 1], code), Operator(code))
  BY <1>1, OperatorCode DEF Before, Loaded
<1> HIDE DEF x, y
<1>9. Comes(list, stack, i, j, Joined(code, x, y), code)
  BY <1>4, <1>6, <1>7, <1>8, JoinParts
<1> QED BY <1>4, <1>9 DEF x, y

\* A phrase ends before the part ends that it begins.
LEMMA PhraseEnd ==
    ASSUME NEW list, Complete(list), NEW i \in 1..Len(list), NEW j \in i..Len(list),
           list[i].cmd = "PHRASE", ~InPhrase(list, i), ~InPhrase(list, j + 1)
    PROVE  \E k \in (i + 1)..j : /\ Quotes(list, i, k) /\ ~InPhrase(list, k + 1)
                                 /\ \A l \in (i + 1)..k : InPhrase(list, l)
                                 /\ Depth(list, k) = Depth(list, i - 1)
<1>1. /\ DOMAIN list = 1..Len(list) /\ Len(list) \in Nat \ {0}
      /\ \A l \in DOMAIN list : InOrder(list, l)
  BY DEF Complete, Typed
<1>2. InPhrase(list, i + 1) /\ i \in Nat \ {0}
  <2>1. i \in Nat \ {0}
    BY <1>1
  <2> QED BY <2>1, InPhraseStep
<1> DEFINE T == {k \in (i + 1)..j : ~InPhrase(list, k + 1)}
<1>3. j \in T /\ T \subseteq Nat
  <2>1. j # i
    BY <1>2
  <2> QED BY <1>1, <2>1
<1>4. PICK k \in T : \A l \in T : k <= l
  <2> HIDE DEF T
  <2> QED BY <1>3, LeastElement
<1>5. k \in (i + 1)..j /\ ~InPhrase(list, k + 1)
  OBVIOUS
<1>6. ASSUME NEW l \in (i + 1)..k PROVE InPhrase(list, l)
  <2>1. CASE l = i + 1
    BY <1>2, <2>1
  <2>2. CASE l # i + 1
    <3>1. l - 1 \in (i + 1)..j /\ ~(k <= l - 1) /\ (l - 1) + 1 = l
      BY <1>5, <2>2
    <3> QED BY <1>4, <3>1
  <2> QED BY <2>1, <2>2
<1> HIDE DEF T
<1>7. ASSUME NEW l \in (i + 1)..k
      PROVE  /\ list[l].cmd \in {"WORD", "STOP", "PHRASE"}
             /\ l # k => list[l].cmd # "PHRASE"
  <2>1. l \in DOMAIN list /\ l \in Nat \ {0} /\ (l # k => l + 1 \in (i + 1)..k)
    BY <1>1, <1>5
  <2>2. InPhrase(list, l) /\ (l # k => InPhrase(list, l + 1))
    BY <1>6, <2>1
  <2>3. list[l].cmd \in {"WORD", "STOP", "PHRASE"}
    BY <1>1, <2>1, <2>2 DEF InOrder
  <2>4. l # k => list[l].cmd # "PHRASE"
    BY <2>1, <2>2, InPhraseStep
  <2> QED BY <2>3, <2>4
<1>8. list[k].cmd = "PHRASE"
  <2>1. k \in (i + 1)..k /\ k \in Nat \ {0}
    BY <1>5
  <2> QED BY <1>5, <1>6, <2>1, InPhraseStep
<1>9. Quotes(list, i, k)
  <2>1. k \in DOMAIN list /\ i \in DOMAIN list /\ i < k
    BY <1>1, <1>5
  <2>2. \A l \in (i + 1)..(k - 1) : l \in (i + 1)..k /\ l # k
    BY <1>5
  <2> QED BY <1>7, <1>8, <2>1, <2>2 DEF Quotes
<1>10. Depth(list, k) = Depth(list, i - 1)
  <2> DEFINE S == {n \in 0..(k - i) : Depth(list, i + n) = Depth(list, i - 1)}
  <2>1. 0 \in S
    <3>1. Depth(list, i) = Depth(list, i - 1)
      BY <1>2, DepthStep
    <3> QED BY <1>5, <3>1
  <2>2. ASSUME NEW n \in 1..(k - i), n - 1 \in S PROVE n \in S
    <3>1. i + n \in (i + 1)..k /\ i + n \in Nat \ {0} /\ (i + n) - 1 = i + (n - 1)
      BY <1>5
    <3>2. list[i + n].cmd \notin {"LEFT", "RIGHT"}
      BY <1>7, <3>1
    <3>3. Depth(list, i + n) = Depth(list, (i + n) - 1)
      <4> DEFINE l == i + n
      <4>1. l \in Nat \ {0} /\ list[l].cmd \notin {"LEFT", "RIGHT"}
        BY <3>1, <3>2
      <4> HIDE DEF l
      <4>2. Depth(list, l) = Depth(list, l - 1)
        BY <4>1, DepthStep
      <4> QED BY <4>2 DEF l
    <3> QED BY <2>2, <3>1, <3>3
  <2>3. k - i \in Nat
    BY <1>5
  <2>4. 0..(k - i) \subseteq S
    <3> HIDE DEF S
    <3> QED BY <2>1, <2>2, <2>3, BoundedInduction
  <2> DEFINE d == k - i
  <2>5. d \in 0..(k - i) /\ i + d = k
    BY <1>5, <2>3
  <2> HIDE DEF d
  <2>6. Depth(list, i + d) = Depth(list, i - 1)
    BY <2>4, <2>5, Zenon
  <2> QED BY <2>5, <2>6
<1> QED BY <1>5, <1>6, <1>9, <1>10

\* What is in a phrase is skipped.
LEMMA PhraseSkipped ==
    ASSUME NEW list, Len(list) \in Nat, NEW stack, NEW count, Trace(stack, list, count),
           NEW i \in 1..Len(list), NEW k \in i..Len(list),
           \A l \in (i + 1)..k : InPhrase(list, l)
    PROVE  stack[k] = stack[i]
<1> DEFINE S == {n \in 0..(k - i) : stack[i + n] = stack[i]}
<1>1. 0 \in S
  OBVIOUS
<1>2. ASSUME NEW n \in 1..(k - i), n - 1 \in S PROVE n \in S
  <2> DEFINE l == i + n
  <2>1. l \in (i + 1)..k /\ l \in 1..Len(list) /\ l - 1 = i + (n - 1)
    OBVIOUS
  <2> HIDE DEF l
  <2>2. InPhrase(list, l)
    BY <2>1
  <2>3. ~NeedsCmd(list, l)
    BY <2>2 DEF NeedsCmd
  <2>4. stack[l] = stack[l - 1]
    BY <2>1, <2>2, <2>3 DEF Trace, Loaded, Calc
  <2>5. stack[i + (n - 1)] = stack[i]
    BY <1>2
  <2>6. n \in 0..(k - i)
    OBVIOUS
  <2> QED BY <2>1, <2>4, <2>5, <2>6 DEF l
<1>3. k - i \in Nat
  OBVIOUS
<1>4. 0..(k - i) \subseteq S
  <2> HIDE DEF S
  <2> QED BY <1>1, <1>2, <1>3, BoundedInduction
<1>5. k - i \in S /\ i + (k - i) = k
  BY <1>3, <1>4
<1> QED BY <1>5

\* The bracket that begins an operand closes at its end.
LEMMA BracketEnd ==
    ASSUME NEW list, Complete(list), NEW i, NEW j, IsPart(list, i, j), Single(list, i, j),
           list[i].cmd = "LEFT"
    PROVE  list[j].cmd = "RIGHT" /\ ~InPhrase(list, j) /\ IsPart(list, i + 1, j - 1)
<1>1. /\ DOMAIN list = 1..Len(list) /\ Len(list) \in Nat \ {0}
      /\ \A l \in DOMAIN list : InOrder(list, l)
  BY DEF Complete, Typed
<1>2. /\ i \in 1..Len(list) /\ j \in i..Len(list)
      /\ ~InPhrase(list, i) /\ list[i].cmd \in StartsOperand
      /\ ~InPhrase(list, j + 1) /\ list[j].cmd \in EndsOperand
      /\ Depth(list, j) = Depth(list, i - 1)
      /\ \A k \in i..j : Depth(list, k) >= Depth(list, i - 1)
  BY DEF IsPart
<1>3. j # i
  BY <1>2 DEF EndsOperand
<1> DEFINE T == {k \in (i + 1)..j : Depth(list, k) = Depth(list, i - 1)}
<1>4. j \in T /\ T \subseteq Nat
  BY <1>2, <1>3
<1>5. PICK k \in T : \A l \in T : k <= l
  <2> HIDE DEF T
  <2> QED BY <1>4, LeastElement
<1>6. k \in (i + 1)..j /\ Depth(list, k) = Depth(list, i - 1) /\ i \in Nat \ {0} /\ k \in Nat \ {0}
  BY <1>2
<1>7. Depth(list, i) = Depth(list, i - 1) + 1 /\ Depth(list, i - 1) \in Int
  BY <1>6, DepthStep
<1>8. ASSUME NEW l \in i..(k - 1) PROVE Depth(list, l) >= Depth(list, i - 1) + 1
  <2>1. CASE l = i
    BY <1>7, <2>1
  <2>2. CASE l # i
    <3>1. l \in (i + 1)..j /\ ~(k <= l) /\ l \in i..j /\ l \in Nat \ {0}
      BY <1>2, <1>6, <2>2
    <3>2. Depth(list, l) # Depth(list, i - 1)
      BY <1>5, <3>1
    <3>3. Depth(list, l) >= Depth(list, i - 1) /\ Depth(list, l) \in Int
      BY <1>2, <3>1, DepthStep
    <3> QED BY <1>7, <3>2, <3>3
  <2> QED BY <2>1, <2>2
<1> HIDE DEF T
<1>9. list[k].cmd = "RIGHT" /\ Depth(list, k - 1) = Depth(list, i - 1) + 1
  <2>1. Depth(list, k - 1) >= Depth(list, i - 1) + 1
    <3>1. k - 1 \in i..(k - 1)
      BY <1>2, <1>6
    <3> QED BY <1>8, <3>1
  <2>2. Depth(list, k) = CASE list[k].cmd = "LEFT"  -> Depth(list, k - 1) + 1
                           [] list[k].cmd = "RIGHT" -> Depth(list, k - 1) - 1
                           [] OTHER                 -> Depth(list, k - 1)
    BY <1>6, DepthStep
  <2>3. Depth(list, k - 1) \in Int
    BY <1>6, DepthStep
  <2> QED BY <1>6, <1>7, <2>1, <2>2, <2>3
<1>10. ~InPhrase(list, k) /\ ~InPhrase(list, k + 1)
  <2>1. InOrder(list, k)
    BY <1>1, <1>2, <1>6
  <2>2. ~InPhrase(list, k)
    BY <1>9, <2>1 DEF InOrder
  <2> QED BY <1>6, <1>9, <2>2, InPhraseStep
<1>11. k = j
  <2>1. k \in i..j /\ list[k].cmd \in EndsOperand
    BY <1>2, <1>6, <1>9 DEF EndsOperand
  <2> QED BY <1>6, <1>10, <2>1, SingleEnds
<1>12. ~InPhrase(list, i + 1)
  BY <1>2, <1>6, InPhraseStep
<1>13. list[i + 1].cmd \in StartsOperand
  <2>1. list[i].cmd \notin EndsOperand
    BY DEF EndsOperand
  <2> QED BY <1>2, <1>12, <2>1, NextItem
<1>14. i + 1 <= j - 1
  <2>1. i + 1 # j
    BY <1>9, <1>11, <1>13 DEF StartsOperand
  <2> QED BY <1>2, <1>3, <2>1
<1>15. list[j - 1].cmd \in EndsOperand
  <2> DEFINE p == j - 1
  <2>1. p \in 1..Len(list) /\ p < Len(list) /\ p + 1 = j
    BY <1>2, <1>14
  <2> HIDE DEF p
  <2>2. list[p + 1].cmd \notin StartsOperand /\ ~InPhrase(list, p + 1)
    BY <1>9, <1>10, <1>11, <2>1 DEF StartsOperand
  <2>3. list[p].cmd \in EndsOperand
    BY <2>1, <2>2, NextItem
  <2> QED BY <2>3 DEF p
<1>16. IsPart(list, i + 1, j - 1)
  <2>1. /\ i + 1 \in 1..Len(list) /\ j - 1 \in (i + 1)..Len(list)
        /\ (i + 1) - 1 = i /\ (j - 1) + 1 = j
    BY <1>2, <1>14
  <2>2. \A l \in (i + 1)..(j - 1) : l \in i..(k - 1)
    BY <1>2, <1>11
  <2>3. \A l \in (i + 1)..(j - 1) : Depth(list, l) >= Depth(list, i)
    BY <1>7, <1>8, <2>2
  <2>4. Depth(list, j - 1) = Depth(list, i)
    BY <1>7, <1>9, <1>11
  <2> QED BY <1>10, <1>11, <1>12, <1>13, <1>15, <2>1, <2>3, <2>4 DEF IsPart
<1> QED BY <1>9, <1>10, <1>11, <1>16

\* What PartMeans is in each of its cases.
LEMMA MeansSplit ==
    ASSUME NEW list, NEW t, NEW w, NEW i, NEW j
    PROVE  /\ Splits(list, i, j, "OR") # {} =>
                LET k == Max(Splits(list, i, j, "OR"))
                IN  PartMeans(list, t, w, i, j) <=> w[<<i, k - 1>>] \/ w[<<k + 1, j>>]
           /\ Splits(list, i, j, "OR") = {} /\ mode = "any" /\ Gaps(list, i, j) # {} =>
                LET k == Max(Gaps(list, i, j))
                IN  PartMeans(list, t, w, i, j) <=> w[<<i, k - 1>>] \/ w[<<k, j>>]
           /\ Splits(list, i, j, "OR") = {} /\ Splits(list, i, j, "AND") # {}
              /\ ~(mode = "any" /\ Gaps(list, i, j) # {}) =>
                LET k == Max(Splits(list, i, j, "AND"))
                IN  PartMeans(list, t, w, i, j) <=> w[<<i, k - 1>>] /\ w[<<k + 1, j>>]
           /\ Splits(list, i, j, "OR") = {} /\ Splits(list, i, j, "AND") = {}
              /\ mode # "any" /\ Gaps(list, i, j) # {} =>
                LET k == Max(Gaps(list, i, j))
                IN  PartMeans(list, t, w, i, j) <=> w[<<i, k - 1>>] /\ w[<<k, j>>]
<1>1. CASE Splits(list, i, j, "OR") # {}
  BY <1>1 DEF PartMeans
<1>2. CASE Splits(list, i, j, "OR") = {} /\ mode = "any" /\ Gaps(list, i, j) # {}
  BY <1>2 DEF PartMeans
<1>3. CASE /\ Splits(list, i, j, "OR") = {} /\ Splits(list, i, j, "AND") # {}
           /\ ~(mode = "any" /\ Gaps(list, i, j) # {})
  BY <1>3 DEF PartMeans
<1>4. CASE /\ Splits(list, i, j, "OR") = {} /\ Splits(list, i, j, "AND") = {}
           /\ ~(mode = "any" /\ Gaps(list, i, j) # {})
  BY <1>4 DEF PartMeans
<1> QED BY <1>1, <1>2, <1>3, <1>4

LEMMA MeansSingle ==
    ASSUME NEW list, NEW t, NEW w, NEW i, NEW j, Single(list, i, j)
    PROVE  /\ list[i].cmd = "NOT" => (PartMeans(list, t, w, i, j) <=> ~w[<<i + 1, j>>])
           /\ list[i].cmd = "LEFT" => (PartMeans(list, t, w, i, j) <=> w[<<i + 1, j - 1>>])
           /\ list[i].cmd = "PHRASE" =>
                 (PartMeans(list, t, w, i, j) <=> PhraseIn(SubSeq(list, i + 1, j - 1), t))
           /\ list[i].cmd = "STOP" => PartMeans(list, t, w, i, j)
           /\ list[i].cmd = "WORD" => (PartMeans(list, t, w, i, j) <=> Has(t, list[i].arg))
<1>1. PartMeans(list, t, w, i, j) <=>
        CASE list[i].cmd = "NOT"    -> ~w[<<i + 1, j>>]
          [] list[i].cmd = "LEFT"   -> w[<<i + 1, j - 1>>]
          [] list[i].cmd = "PHRASE" -> PhraseIn(SubSeq(list, i + 1, j - 1), t)
          [] list[i].cmd = "STOP"   -> TRUE
          [] list[i].cmd = "WORD"   -> Has(t, list[i].arg)
  BY DEF PartMeans, Single
<1>2. CASE list[i].cmd = "NOT"
  BY <1>1, <1>2
<1>3. CASE list[i].cmd = "LEFT"
  BY <1>1, <1>3
<1>4. CASE list[i].cmd = "PHRASE"
  BY <1>1, <1>4
<1>5. CASE list[i].cmd = "STOP"
  BY <1>1, <1>5
<1>6. CASE list[i].cmd = "WORD"
  BY <1>1, <1>6
<1> QED BY <1>2, <1>3, <1>4, <1>5, <1>6

\* Everything the induction over the parts of a query is about.
Setting(list, t, count, stack, v) ==
  /\ Complete(list) /\ Trace(stack, list, count)
  /\ Truth(list, count, t) /\ Meanings(v, list, t)

\* An operand that is pushed as it is comes to its value.
LEMMA PushedComes ==
    ASSUME NEW list, NEW stack, NEW i, NEW j, NEW x, NEW code \in Nat,
           stack[j] = PushArg(Before(list, stack, i), x)
    PROVE  Comes(list, stack, i, j, x, code)
BY DEF Comes

LEMMA NotComes ==
    ASSUME NEW list, NEW t, NEW count, NEW stack, NEW v, Setting(list, t, count, stack, v),
           NEW n \in 1..Len(list), Claim(list, stack, v, n - 1),
           NEW i, NEW j, IsPart(list, i, j), j - i + 1 <= n, Single(list, i, j),
           Before(list, stack, i) \in Stacks, list[i].cmd = "NOT"
    PROVE  Comes(list, stack, i, j, v[n][<<i, j>>], 5)
<1> DEFINE s == Before(list, stack, i)
           x == v[n - 1][<<i + 1, j>>]
<1>1. /\ Complete(list) /\ Trace(stack, list, count) /\ Meanings(v, list, t)
  BY DEF Setting
<1>2. /\ i \in 1..Len(list) /\ j \in i..Len(list) /\ Len(list) \in Nat
      /\ DOMAIN list = 1..Len(list)
      /\ ~InPhrase(list, i) /\ ~InPhrase(list, j + 1) /\ list[j].cmd \in EndsOperand
      /\ Depth(list, j) = Depth(list, i - 1)
      /\ \A l \in i..j : Depth(list, l) >= Depth(list, i - 1)
  BY <1>1 DEF IsPart, Complete
<1>3. i # j /\ i + 1 \in 1..Len(list) /\ j \in (i + 1)..Len(list) /\ (i + 1) - 1 = i
      /\ j - (i + 1) + 1 <= n - 1 /\ n - 1 \in 0..Len(list) /\ j \in 1..Len(list)
      /\ i \in Nat \ {0} /\ n \in 0..Len(list)
  <2>1. i # j
    BY <1>2 DEF EndsOperand
  <2> DEFINE L == Len(list)
  <2>2. i \in 1..L /\ j \in i..L /\ L \in Nat /\ n \in 1..L /\ j - i + 1 <= n
    BY <1>2
  <2> HIDE DEF L
  <2>3. /\ i + 1 \in 1..L /\ j \in (i + 1)..L /\ (i + 1) - 1 = i
        /\ j - (i + 1) + 1 <= n - 1 /\ n - 1 \in 0..L /\ j \in 1..L
        /\ i \in Nat \ {0} /\ n \in 0..L
    BY <2>1, <2>2
  <2> QED BY <2>1, <2>3 DEF L
<1>4. ~InPhrase(list, i + 1) /\ Depth(list, i) = Depth(list, i - 1)
  <2>1. list[i].cmd \notin {"LEFT", "RIGHT", "PHRASE"}
    OBVIOUS
  <2>2. ~InPhrase(list, i + 1)
    BY <1>2, <1>3, InPhraseStep
  <2>3. Depth(list, i) = Depth(list, i - 1)
    BY <1>3, <2>1, DepthStep
  <2> QED BY <2>2, <2>3
<1>5. IsPart(list, i + 1, j)
  <2>1. list[i + 1].cmd \in StartsOperand
    <3>1. list[i].cmd \notin EndsOperand
      BY DEF EndsOperand
    <3> QED BY <1>1, <1>2, <1>4, <3>1, NextItem
  <2>2. \A l \in (i + 1)..j : l \in i..j
    BY <1>2
  <2>3. \A l \in (i + 1)..j : Depth(list, l) >= Depth(list, i)
    BY <1>2, <1>4, <2>2
  <2> QED BY <1>2, <1>3, <1>4, <2>1, <2>3 DEF IsPart
<1>6. Before(list, stack, i + 1) = PushCmd(s, "NOT")
  <2>1. ~NeedsCmd(list, i + 1)
    BY <1>3 DEF NeedsCmd, EndsOperand
  <2>2. Before(list, stack, i + 1) = stack[i]
    BY <1>3, <2>1 DEF Before, Loaded
  <2>3. stack[i] = Calc(list, count, s, i)
    BY <1>1, <1>2 DEF Trace, Before
  <2>4. Calc(list, count, s, i) = PushCmd(s, "NOT")
    BY <1>2 DEF Calc
  <2> QED BY <2>2, <2>3, <2>4
<1>7. Level(list, i + 1, j, 5)
  <2>1. Level(list, i, j, 5)
    BY DEF Single, Level
  <2> QED BY <1>2, <1>3, <1>4, <2>1, LevelPart
<1>8. "NOT" \in DOMAIN Code
  BY DEF Code
<1>9. Ready(PushCmd(s, "NOT"), 5)
  BY <1>8, PushPopCmd DEF Ready
<1>10. Comes(list, stack, i + 1, j, x, 5)
  <2>1. 5 \in 3..5
    OBVIOUS
  <2>2. Ready(Before(list, stack, i + 1), 5)
    BY <1>6, <1>9
  <2> QED BY <1>3, <1>5, <1>7, <2>1, <2>2 DEF Claim
<1>11. x \in BOOLEAN /\ v[n][<<i, j>>] \in BOOLEAN
  BY <1>1, <1>2, <1>3, MeaningBoolean
<1>12. v[n][<<i, j>>] <=> ~x
  <2>1. <<i, j>> \in PartsOf(list)
    BY <1>2, <1>3 DEF PartsOf
  <2>2. v[n][<<i, j>>] <=> PartMeans(list, t, v[n - 1], <<i, j>>[1], <<i, j>>[2])
    BY <1>1, <2>1 DEF Meanings
  <2>3. v[n][<<i, j>>] <=> PartMeans(list, t, v[n - 1], i, j)
    BY <2>2
  <2> DEFINE w == v[n - 1]
  <2>4. PartMeans(list, t, w, i, j) <=> ~w[<<i + 1, j>>]
    <3> HIDE DEF w
    <3> QED BY MeansSingle
  <2> QED BY <2>3, <2>4, Zenon
<1> HIDE DEF s, x
<1>13. Unwind(stack[j], 5) = Unwind(PushArg(s, ~x), 5)
  BY <1>6, <1>10, <1>11, UnwindNot DEF Comes, s
<1>14. v[n][<<i, j>>] = ~x
  BY <1>11, <1>12
<1> QED BY <1>13, <1>14 DEF Comes, s

LEMMA BracketComes ==
    ASSUME NEW list, NEW t, NEW count, NEW stack, NEW v, Setting(list, t, count, stack, v),
           NEW n \in 1..Len(list), Claim(list, stack, v, n - 1),
           NEW i, NEW j, IsPart(list, i, j), j - i + 1 <= n, Single(list, i, j),
           Before(list, stack, i) \in Stacks, list[i].cmd = "LEFT"
    PROVE  Comes(list, stack, i, j, v[n][<<i, j>>], 5)
<1> DEFINE s == Before(list, stack, i)
           x == v[n - 1][<<i + 1, j - 1>>]
           inner == PushArg(PushCmd(s, "LEFT"), x)
<1>1. /\ Complete(list) /\ Trace(stack, list, count) /\ Meanings(v, list, t)
  BY DEF Setting
<1>2. /\ i \in 1..Len(list) /\ j \in i..Len(list) /\ Len(list) \in Nat
      /\ DOMAIN list = 1..Len(list)
      /\ ~InPhrase(list, i)
  BY <1>1 DEF IsPart, Complete
<1>3. list[j].cmd = "RIGHT" /\ ~InPhrase(list, j) /\ IsPart(list, i + 1, j - 1)
  BY <1>1, BracketEnd
<1>4. /\ i + 1 \in 1..Len(list) /\ j - 1 \in 1..Len(list) /\ i + 1 <= j - 1
      /\ (i + 1) - 1 = i /\ (j - 1) - (i + 1) + 1 <= n - 1 /\ j \in 1..Len(list)
      /\ n - 1 \in 0..Len(list) /\ n \in 0..Len(list)
  <2>1. i + 1 \in 1..Len(list) /\ j - 1 \in (i + 1)..Len(list)
    BY <1>3 DEF IsPart
  <2> QED BY <1>2, <2>1
<1>5. "LEFT" \in DOMAIN Code /\ Code["LEFT"] = 0 /\ Code["BOT"] + 1 = 3
  BY DEF Code
<1>6. Before(list, stack, i + 1) = PushCmd(s, "LEFT")
  <2>1. ~NeedsCmd(list, i + 1)
    BY <1>4 DEF NeedsCmd, EndsOperand
  <2>2. Before(list, stack, i + 1) = stack[i]
    BY <1>4, <2>1 DEF Before, Loaded
  <2>3. stack[i] = Calc(list, count, s, i)
    BY <1>1, <1>2 DEF Trace, Before
  <2>4. Calc(list, count, s, i) = PushCmd(s, "LEFT")
    BY <1>2 DEF Calc
  <2> QED BY <2>2, <2>3, <2>4
<1>7. x \in BOOLEAN /\ v[n][<<i, j>>] \in BOOLEAN
  BY <1>1, <1>2, <1>4, MeaningBoolean
<1>8. v[n][<<i, j>>] <=> x
  <2>1. <<i, j>> \in PartsOf(list)
    BY <1>2, <1>4 DEF PartsOf
  <2>2. v[n][<<i, j>>] <=> PartMeans(list, t, v[n - 1], <<i, j>>[1], <<i, j>>[2])
    BY <1>1, <2>1 DEF Meanings
  <2>3. v[n][<<i, j>>] <=> PartMeans(list, t, v[n - 1], i, j)
    BY <2>2
  <2> DEFINE w == v[n - 1]
  <2>4. PartMeans(list, t, w, i, j) <=> w[<<i + 1, j - 1>>]
    <3> HIDE DEF w
    <3> QED BY MeansSingle
  <2> QED BY <2>3, <2>4, Zenon
<1>9. v[n][<<i, j>>] = x
  BY <1>7, <1>8
<1>10. Ready(PushCmd(s, "LEFT"), 3)
  <2>1. ~(3 <= Code["LEFT"])
    BY <1>5
  <2>2. PushCmd(s, "LEFT") \in Stacks /\ ~Tight(PushCmd(s, "LEFT"), 3)
    BY <1>5, <2>1, PushPopCmd
  <2> QED BY <2>2 DEF Ready
<1>11. Comes(list, stack, i + 1, j - 1, x, 3)
  <2>1. 3 \in 3..5 /\ Level(list, i + 1, j - 1, 3)
    BY DEF Level
  <2>2. Ready(Before(list, stack, i + 1), 3)
    BY <1>6, <1>10
  <2> QED BY <1>3, <1>4, <2>1, <2>2 DEF Claim
<1>12. /\ inner \in Stacks /\ TopCmd(inner) = "LEFT" /\ PopCmd(inner) = PushArg(s, x)
       /\ ~Tight(inner, 3)
  <2>1. ~(3 <= Code["LEFT"])
    BY <1>5
  <2> HIDE DEF x, s
  <2> QED BY <1>5, <1>7, <2>1, PushBoth DEF s
<1>13. Unwind(stack[j - 1], 3) = inner
  <2>1. Unwind(stack[j - 1], 3) = Unwind(inner, 3)
    BY <1>6, <1>11 DEF Comes
  <2>2. 3 \in Nat
    OBVIOUS
  <2> HIDE DEF inner
  <2> QED BY <1>12, <2>1, <2>2, UnwindStop
<1>14. stack[j] = CloseBracket(stack[j - 1])
  <2>1. ~NeedsCmd(list, j)
    BY <1>3 DEF NeedsCmd, StartsOperand
  <2>2. stack[j] = Calc(list, count, stack[j - 1], j)
    BY <1>1, <1>4, <2>1 DEF Trace, Loaded
  <2>3. Calc(list, count, stack[j - 1], j) = CloseBracket(stack[j - 1])
    BY <1>3 DEF Calc
  <2> QED BY <2>2, <2>3
<1> HIDE DEF s, x, inner
<1>15. CloseBracket(stack[j - 1]) = PushArg(s, x)
  BY <1>5, <1>12, <1>13 DEF CloseBracket
<1>16. stack[j] = PushArg(Before(list, stack, i), v[n][<<i, j>>])
  BY <1>9, <1>14, <1>15 DEF s
<1> QED BY <1>16, PushedComes

LEMMA WordComes ==
    ASSUME NEW list, NEW t, NEW count, NEW stack, NEW v, Setting(list, t, count, stack, v),
           NEW n \in 1..Len(list), NEW i, NEW j, IsPart(list, i, j), Single(list, i, j),
           Before(list, stack, i) \in Stacks, list[i].cmd \in {"WORD", "STOP", "PHRASE"}
    PROVE  Comes(list, stack, i, j, v[n][<<i, j>>], 5)
<1> DEFINE s == Before(list, stack, i)
<1>1. /\ Complete(list) /\ Trace(stack, list, count) /\ Meanings(v, list, t)
      /\ Truth(list, count, t)
  BY DEF Setting
<1>2. /\ i \in 1..Len(list) /\ j \in i..Len(list) /\ Len(list) \in Nat
      /\ DOMAIN list = 1..Len(list)
      /\ ~InPhrase(list, i) /\ ~InPhrase(list, j + 1)
  BY <1>1 DEF IsPart, Complete
<1>3. i \in Nat \ {0} /\ j \in 1..Len(list) /\ n \in 0..Len(list)
  BY <1>2
<1>4. v[n][<<i, j>>] \in BOOLEAN
  BY <1>1, <1>2, <1>3, MeaningBoolean
<1> DEFINE w == v[n - 1]
<1>5. v[n][<<i, j>>] <=> PartMeans(list, t, w, i, j)
  <2>1. <<i, j>> \in PartsOf(list)
    BY <1>2, <1>3 DEF PartsOf
  <2>2. v[n][<<i, j>>] <=> PartMeans(list, t, v[n - 1], <<i, j>>[1], <<i, j>>[2])
    BY <1>1, <2>1 DEF Meanings
  <2> QED BY <2>2
<1>6. stack[i] = Calc(list, count, s, i)
  BY <1>1, <1>2 DEF Trace, Before
<1> HIDE DEF w
<1>7. CASE list[i].cmd \in {"WORD", "STOP"}
  <2>1. i = j
    <3>1. list[i].cmd \notin {"LEFT", "RIGHT", "PHRASE"} /\ list[i].cmd \in EndsOperand
      BY <1>7 DEF EndsOperand
    <3>2. ~InPhrase(list, i + 1)
      BY <1>2, <1>3, <3>1, InPhraseStep
    <3>3. Depth(list, i) = Depth(list, i - 1)
      BY <1>3, <3>1, DepthStep
    <3>4. i \in i..j
      BY <1>2
    <3> QED BY <1>1, <3>1, <3>2, <3>3, <3>4, SingleEnds
  <2>2. CASE list[i].cmd = "STOP"
    <3>1. stack[i] = PushArg(s, TRUE)
      BY <1>2, <1>6, <2>2 DEF Calc
    <3>2. v[n][<<i, j>>] = TRUE
      <4>1. PartMeans(list, t, w, i, j)
        BY <2>2, MeansSingle
      <4> QED BY <1>4, <1>5, <4>1
    <3>3. stack[j] = PushArg(Before(list, stack, i), v[n][<<i, j>>])
      BY <2>1, <3>1, <3>2
    <3> QED BY <3>3, PushedComes
  <2>3. CASE list[i].cmd = "WORD"
    <3>1. stack[i] = PushArg(s, list[i].arg \in count)
      BY <1>2, <1>6, <2>3 DEF Calc
    <3>2. v[n][<<i, j>>] <=> Has(t, list[i].arg)
      <4>1. PartMeans(list, t, w, i, j) <=> Has(t, list[i].arg)
        BY <2>3, MeansSingle
      <4> QED BY <1>5, <4>1
    <3>3. list[i].arg \in count <=> Has(t, list[i].arg)
      BY <1>1, <1>2, <2>3 DEF Truth
    <3>4. v[n][<<i, j>>] = (list[i].arg \in count)
      BY <1>4, <3>2, <3>3
    <3>5. stack[j] = PushArg(Before(list, stack, i), v[n][<<i, j>>])
      BY <2>1, <3>1, <3>4
    <3> QED BY <3>5, PushedComes
  <2> QED BY <1>7, <2>2, <2>3
<1>8. CASE list[i].cmd = "PHRASE"
  <2>1. PICK k \in (i + 1)..j : /\ Quotes(list, i, k) /\ ~InPhrase(list, k + 1)
                                /\ \A l \in (i + 1)..k : InPhrase(list, l)
                                /\ Depth(list, k) = Depth(list, i - 1)
    BY <1>1, <1>2, <1>8, PhraseEnd
  <2>2. k = j
    <3>1. k \in i..j /\ list[k].cmd \in EndsOperand
      BY <1>2, <2>1 DEF Quotes, EndsOperand
    <3> QED BY <1>1, <2>1, <3>1, SingleEnds
  <2>3. stack[j] = stack[i]
    <3>1. \A l \in (i + 1)..j : InPhrase(list, l)
      BY <2>1, <2>2
    <3> QED BY <1>1, <1>2, <3>1, PhraseSkipped
  <2>4. stack[i] = PushArg(s, list[i + 1].arg \in count)
    BY <1>2, <1>6, <1>8 DEF Calc
  <2>5. v[n][<<i, j>>] <=> PhraseIn(SubSeq(list, i + 1, j - 1), t)
    <3>1. PartMeans(list, t, w, i, j) <=> PhraseIn(SubSeq(list, i + 1, j - 1), t)
      BY <1>8, MeansSingle
    <3> QED BY <1>5, <3>1
  <2>6. list[i + 1].arg \in count <=> PhraseIn(SubSeq(list, i + 1, j - 1), t)
    BY <1>1, <1>2, <1>3, <2>1, <2>2 DEF Truth
  <2>7. v[n][<<i, j>>] = (list[i + 1].arg \in count)
    BY <1>4, <2>5, <2>6
  <2>8. stack[j] = PushArg(Before(list, stack, i), v[n][<<i, j>>])
    BY <2>3, <2>4, <2>7
  <2> QED BY <2>8, PushedComes
<1> QED BY <1>7, <1>8

\* A part that is Ready when it begins comes to a stack.
LEMMA BeforeStack ==
    ASSUME NEW list, NEW stack, NEW i, NEW code, Ready(Before(list, stack, i), code)
    PROVE  Before(list, stack, i) \in Stacks
BY DEF Ready

LEMMA ComesLower ==
    ASSUME NEW list, NEW stack, NEW i, NEW j, NEW x \in BOOLEAN, NEW c \in Nat, NEW d \in Nat,
           c <= d, Before(list, stack, i) \in Stacks, stack[j] \in Stacks,
           Comes(list, stack, i, j, x, d)
    PROVE  Comes(list, stack, i, j, x, c)
<1> DEFINE s == Before(list, stack, i)
           u == PushArg(s, x)
<1>1. u \in Stacks
  BY PushPopArg
<1>2. Unwind(stack[j], d) = Unwind(u, d)
  BY DEF Comes
<1> HIDE DEF u
<1>3. Unwind(stack[j], c) = Unwind(u, c)
  BY <1>1, <1>2, UnwindLower
<1> QED BY <1>3 DEF Comes, u

\* The operands: their meaning, computed.
LEMMA SingleComes ==
    ASSUME NEW list, NEW t, NEW count, NEW stack, NEW v, Setting(list, t, count, stack, v),
           NEW n \in 1..Len(list), Claim(list, stack, v, n - 1),
           NEW i, NEW j, IsPart(list, i, j), j - i + 1 <= n, Single(list, i, j),
           Before(list, stack, i) \in Stacks
    PROVE  Comes(list, stack, i, j, v[n][<<i, j>>], 5)
<1>1. list[i].cmd \in StartsOperand
  BY DEF IsPart
<1>2. CASE list[i].cmd = "NOT"
  BY <1>2, NotComes
<1>3. CASE list[i].cmd = "LEFT"
  BY <1>3, BracketComes
<1>4. CASE list[i].cmd \in {"WORD", "STOP", "PHRASE"}
  BY <1>4, WordComes
<1> QED BY <1>1, <1>2, <1>3, <1>4 DEF StartsOperand

\* Two parts with an operator, or a gap, between them.
LEMMA PairComes ==
    ASSUME NEW list, NEW t, NEW count, NEW stack, NEW v, Setting(list, t, count, stack, v),
           NEW n \in 1..Len(list), Claim(list, stack, v, n - 1),
           NEW i, NEW j, IsPart(list, i, j), j - i + 1 <= n, ~Single(list, i, j)
    PROVE  \E code \in {3, 4} :
              /\ Level(list, i, j, code)
              /\ \A c \in 3..5 : Level(list, i, j, c) => c <= code
              /\ Ready(Before(list, stack, i), code) =>
                    Comes(list, stack, i, j, v[n][<<i, j>>], code)
<1> DEFINE ors == Splits(list, i, j, "OR")
           ands == Splits(list, i, j, "AND")
           gaps == Gaps(list, i, j)
           w == v[n - 1]
<1>1. /\ Complete(list) /\ Trace(stack, list, count) /\ Meanings(v, list, t)
  BY DEF Setting
<1>2. /\ i \in 1..Len(list) /\ j \in i..Len(list) /\ Len(list) \in Nat
      /\ DOMAIN list = 1..Len(list) /\ j \in 1..Len(list) /\ n \in 0..Len(list)
  BY <1>1 DEF IsPart, Complete
<1>3. v[n][<<i, j>>] \in BOOLEAN
  BY <1>1, <1>2, MeaningBoolean
<1>4. v[n][<<i, j>>] <=> PartMeans(list, t, w, i, j)
  <2>1. <<i, j>> \in PartsOf(list)
    BY <1>2 DEF PartsOf
  <2>2. v[n][<<i, j>>] <=> PartMeans(list, t, v[n - 1], <<i, j>>[1], <<i, j>>[2])
    BY <1>1, <2>1 DEF Meanings
  <2> QED BY <2>2
<1>5. /\ ors # {} => Max(ors) \in ors
      /\ ands # {} => Max(ands) \in ands
      /\ gaps # {} => Max(gaps) \in gaps
  <2>1. ors \subseteq 1..Len(list) /\ ands \subseteq 1..Len(list) /\ gaps \subseteq 1..Len(list)
    BY <1>2 DEF Splits, Gaps
  <2> HIDE DEF ors, ands, gaps
  <2> QED BY <1>2, <2>1, LastIsMax
<1>6. Level(list, i, j, 3)
  BY DEF Level
<1>7. ASSUME ors # {} \/ (mode = "any" /\ gaps # {})
      PROVE  \A c \in 3..5 : Level(list, i, j, c) => c <= 3
  BY <1>7 DEF Level
<1>8. \A c \in 3..5 : Level(list, i, j, c) => c <= 4
  <2>1. ~Level(list, i, j, 5)
    BY DEF Level, Single
  <2> QED BY <2>1
<1>9. Operator(3) = "OR" /\ Operator(4) = "AND"
  BY DEF Operator
<1> HIDE DEF ors, ands, gaps, w
<1>10. CASE ors # {}
  <2> DEFINE k == Max(ors)
             x == w[<<i, k - 1>>]
             y == w[<<k + 1, j>>]
  <2>1. PartMeans(list, t, w, i, j) <=> x \/ y
    BY <1>10, MeansSplit DEF ors
  <2>2. ASSUME Ready(Before(list, stack, i), 3)
        PROVE  Comes(list, stack, i, j, v[n][<<i, j>>], 3)
    <3>1. x \in BOOLEAN /\ y \in BOOLEAN /\ Comes(list, stack, i, j, Joined(3, x, y), 3)
      <4>1. k \in Splits(list, i, j, Operator(3))
        BY <1>5, <1>9, <1>10 DEF ors
      <4> HIDE DEF k
      <4> QED BY <1>1, <1>6, <2>2, <4>1, SplitComes DEF w
    <3> HIDE DEF x, y
    <3>2. Joined(3, x, y) \in BOOLEAN /\ (Joined(3, x, y) <=> x \/ y)
      BY <3>1, JoinedBoolean DEF Joined
    <3>3. Joined(3, x, y) = v[n][<<i, j>>]
      BY <1>3, <1>4, <2>1, <3>2
    <3> QED BY <3>1, <3>3
  <2>3. \A c \in 3..5 : Level(list, i, j, c) => c <= 3
    BY <1>7, <1>10
  <2> HIDE DEF k, x, y
  <2> QED BY <1>6, <2>2, <2>3
<1>11. CASE ors = {} /\ mode = "any" /\ gaps # {}
  <2> DEFINE k == Max(gaps)
             x == w[<<i, k - 1>>]
             y == w[<<k, j>>]
  <2>1. PartMeans(list, t, w, i, j) <=> x \/ y
    BY <1>11, MeansSplit DEF ors, gaps
  <2>2. ASSUME Ready(Before(list, stack, i), 3)
        PROVE  Comes(list, stack, i, j, v[n][<<i, j>>], 3)
    <3>1. x \in BOOLEAN /\ y \in BOOLEAN /\ Comes(list, stack, i, j, Joined(3, x, y), 3)
      <4>1. k \in Gaps(list, i, j) /\ AddedCmd(mode) = Operator(3)
        BY <1>5, <1>9, <1>11 DEF gaps, AddedCmd
      <4> HIDE DEF k
      <4> QED BY <1>1, <1>6, <2>2, <4>1, GapComes DEF w
    <3> HIDE DEF x, y
    <3>2. Joined(3, x, y) \in BOOLEAN /\ (Joined(3, x, y) <=> x \/ y)
      BY <3>1, JoinedBoolean DEF Joined
    <3>3. Joined(3, x, y) = v[n][<<i, j>>]
      BY <1>3, <1>4, <2>1, <3>2
    <3> QED BY <3>1, <3>3
  <2> QED BY <1>6, <1>7, <1>11, <2>2
<1>12. CASE ors = {} /\ ands # {} /\ ~(mode = "any" /\ gaps # {})
  <2> DEFINE k == Max(ands)
             x == w[<<i, k - 1>>]
             y == w[<<k + 1, j>>]
  <2>1. PartMeans(list, t, w, i, j) <=> x /\ y
    BY <1>12, MeansSplit DEF ors, gaps, ands
  <2>0. Level(list, i, j, 4)
    BY <1>12 DEF Level, ors, gaps
  <2>2. ASSUME Ready(Before(list, stack, i), 4)
        PROVE  Comes(list, stack, i, j, v[n][<<i, j>>], 4)
    <3>1. x \in BOOLEAN /\ y \in BOOLEAN /\ Comes(list, stack, i, j, Joined(4, x, y), 4)
      <4>1. k \in Splits(list, i, j, Operator(4))
        BY <1>5, <1>9, <1>12 DEF ands
      <4> HIDE DEF k
      <4> QED BY <1>1, <2>0, <2>2, <4>1, SplitComes DEF w
    <3> HIDE DEF x, y
    <3>2. Joined(4, x, y) \in BOOLEAN /\ (Joined(4, x, y) <=> x /\ y)
      BY <3>1, JoinedBoolean DEF Joined
    <3>3. Joined(4, x, y) = v[n][<<i, j>>]
      BY <1>3, <1>4, <2>1, <3>2
    <3> QED BY <3>1, <3>3
  <2> QED BY <1>8, <1>12, <2>0, <2>2
<1>13. CASE ors = {} /\ ands = {} /\ mode # "any" /\ gaps # {}
  <2> DEFINE k == Max(gaps)
             x == w[<<i, k - 1>>]
             y == w[<<k, j>>]
  <2>1. PartMeans(list, t, w, i, j) <=> x /\ y
    BY <1>13, MeansSplit DEF ors, gaps, ands
  <2>0. Level(list, i, j, 4)
    BY <1>13 DEF Level, ors, gaps
  <2>2. ASSUME Ready(Before(list, stack, i), 4)
        PROVE  Comes(list, stack, i, j, v[n][<<i, j>>], 4)
    <3>1. x \in BOOLEAN /\ y \in BOOLEAN /\ Comes(list, stack, i, j, Joined(4, x, y), 4)
      <4>1. k \in Gaps(list, i, j) /\ AddedCmd(mode) = Operator(4)
        BY <1>5, <1>9, <1>13 DEF gaps, AddedCmd
      <4> HIDE DEF k
      <4> QED BY <1>1, <2>0, <2>2, <4>1, GapComes DEF w
    <3> HIDE DEF x, y
    <3>2. Joined(4, x, y) \in BOOLEAN /\ (Joined(4, x, y) <=> x /\ y)
      BY <3>1, JoinedBoolean DEF Joined
    <3>3. Joined(4, x, y) = v[n][<<i, j>>]
      BY <1>3, <1>4, <2>1, <3>2
    <3> QED BY <3>1, <3>3
  <2> QED BY <1>8, <1>13, <2>0, <2>2
<1>14. CASE ors = {} /\ ands = {} /\ gaps = {}
  BY <1>14 DEF Single, ors, ands, gaps
<1> QED BY <1>10, <1>11, <1>12, <1>13, <1>14

LEMMA ClaimStep ==
    ASSUME NEW list, NEW t, NEW count, NEW stack, NEW v, Setting(list, t, count, stack, v),
           NEW n \in 1..Len(list), Claim(list, stack, v, n - 1)
    PROVE  Claim(list, stack, v, n)
<1> SUFFICES ASSUME NEW i \in 1..Len(list), NEW j \in 1..Len(list), NEW c \in 3..5,
                    IsPart(list, i, j), j - i + 1 <= n, Level(list, i, j, c),
                    Ready(Before(list, stack, i), c)
             PROVE  Comes(list, stack, i, j, v[n][<<i, j>>], c)
  BY DEF Claim
<1>1. /\ Complete(list) /\ Trace(stack, list, count) /\ Meanings(v, list, t)
      /\ Len(list) \in Nat /\ DOMAIN list = 1..Len(list)
  BY DEF Setting, Complete
<1>2. /\ stack[j] \in Stacks /\ Before(list, stack, i) \in Stacks
      /\ v[n][<<i, j>>] \in BOOLEAN /\ c \in Nat
  <2>1. n \in 0..Len(list) /\ j \in 0..Len(list) /\ c \in Nat
    BY <1>1
  <2>2. stack[j] \in Stacks
    BY <1>1, <2>1 DEF Trace
  <2> QED BY <1>1, <2>1, <2>2, MeaningBoolean, BeforeStack
<1>3. CASE Single(list, i, j)
  <2>1. Comes(list, stack, i, j, v[n][<<i, j>>], 5)
    BY <1>2, <1>3, SingleComes
  <2>2. c <= 5 /\ 5 \in Nat
    OBVIOUS
  <2> QED BY <1>2, <2>1, <2>2, ComesLower
<1>4. CASE ~Single(list, i, j)
  <2>1. PICK code \in {3, 4} :
              /\ \A d \in 3..5 : Level(list, i, j, d) => d <= code
              /\ Ready(Before(list, stack, i), code) =>
                    Comes(list, stack, i, j, v[n][<<i, j>>], code)
    BY <1>4, PairComes
  <2>2. c <= code /\ code \in 3..5 /\ code \in Nat
    BY <2>1
  <2>3. Ready(Before(list, stack, i), code)
    BY <2>2, ReadyHigher
  <2> QED BY <1>2, <2>1, <2>2, <2>3, ComesLower
<1> QED BY <1>3, <1>4

\* The stack machine computes the meaning of the query.
LEMMA MachineMeans ==
    ASSUME NEW list, NEW t, NEW count, NEW stack,
           Complete(list), Trace(stack, list, count), Truth(list, count, t)
    PROVE  /\ TopArg(Unwind(stack[Len(list)], 0)) \in BOOLEAN
           /\ TopArg(Unwind(stack[Len(list)], 0)) <=> Means(list, t)
<1>1. Len(list) \in Nat \ {0} /\ DOMAIN list = 1..Len(list)
  BY DEF Complete
<1>2. PICK v : Meanings(v, list, t) /\ Means(list, t) = v[Len(list)][<<1, Len(list)>>]
  BY <1>1, MeansParts
<1>3. Setting(list, t, count, stack, v)
  BY <1>2 DEF Setting
<1> DEFINE N == Len(list)
           S == {n \in 0..N : Claim(list, stack, v, n)}
<1>4. 0 \in S
  <2>1. ASSUME NEW i \in 1..N, NEW j \in 1..N, IsPart(list, i, j), j - i + 1 <= 0
        PROVE  FALSE
    BY <1>1, <2>1 DEF IsPart
  <2>2. Claim(list, stack, v, 0)
    BY <2>1 DEF Claim
  <2> QED BY <1>1, <2>2
<1>5. \A n \in 1..N : n - 1 \in S => n \in S
  <2> TAKE n \in 1..N
  <2>1. ASSUME Claim(list, stack, v, n - 1) PROVE Claim(list, stack, v, n)
    BY <1>3, <2>1, ClaimStep
  <2> QED BY <1>1, <2>1
<1>6. N \in S
  <2>1. 0..N \subseteq S
    <3> HIDE DEF S
    <3> QED BY <1>1, <1>4, <1>5, BoundedInduction
  <2> QED BY <1>1, <2>1
<1>7. EmptyStack \in Stacks /\ EmptyStack.cmds = <<>>
  BY DEF EmptyStack, Stacks
<1>8. Before(list, stack, 1) = EmptyStack
  <2>1. ~NeedsCmd(list, 1)
    BY DEF NeedsCmd
  <2>2. 1 - 1 = 0
    OBVIOUS
  <2> QED BY <2>1, <2>2 DEF Before, Loaded, Trace
<1> DEFINE x == v[N][<<1, N>>]
           u == PushArg(EmptyStack, x)
<1>9. Comes(list, stack, 1, N, x, 3)
  <2>1. Ready(EmptyStack, 3)
    BY <1>7 DEF Ready, Tight
  <2>2. IsPart(list, 1, N) /\ Level(list, 1, N, 3)
    BY WholePart DEF Level
  <2>3. 1 \in 1..N /\ N \in 1..N /\ 3 \in 3..5 /\ N - 1 + 1 <= N
    BY <1>1
  <2> QED BY <1>6, <1>8, <2>1, <2>2, <2>3 DEF Claim
<1>10. x \in BOOLEAN
  <2>1. 1 \in 1..N /\ N \in 1..N /\ N \in 0..N
    BY <1>1
  <2> QED BY <1>1, <1>2, <2>1, MeaningBoolean
<1>11. u \in Stacks /\ TopArg(u) = x /\ ~Tight(u, 0)
  <2> HIDE DEF x
  <2> QED BY <1>7, <1>10, PushPopArg DEF Tight
<1>12. stack[N] \in Stacks
  BY <1>1 DEF Trace
<1>13. Unwind(stack[N], 3) = Unwind(u, 3)
  BY <1>8, <1>9 DEF Comes
<1>14. Unwind(stack[N], 0) = u
  <2> HIDE DEF u, N
  <2>1. Unwind(stack[N], 0) = Unwind(u, 0)
    <3>1. 0 \in Nat /\ 3 \in Nat /\ 0 <= 3
      OBVIOUS
    <3> QED BY <1>11, <1>12, <1>13, <3>1, UnwindLower
  <2>2. 0 \in Nat
    OBVIOUS
  <2> QED BY <1>11, <2>1, <2>2, UnwindStop
<1>15. TopArg(Unwind(stack[N], 0)) = x
  BY <1>11, <1>14
<1> QED BY <1>2, <1>10, <1>15

-----------------------------------------------------------------------------
(* Where the items of a query stand in its completed list.                 *)

\* The copy l of the first i items has item h at place[h], and what else it
\* has are the operators that were missing.
Spread(list, m, l, place, i) ==
  /\ place[0] = 0 /\ Len(l) = place[i] /\ DOMAIN l = 1..Len(l)
  /\ \A h \in 1..i :
        /\ place[h] \in Nat /\ place[h] <= place[i]
        /\ place[h] = place[h - 1] + IF NeedsCmd(list, h) THEN 2 ELSE 1
        /\ l[place[h]] = list[h]
        /\ InPhrase(l, place[h]) <=> InPhrase(list, h)
        /\ NeedsCmd(list, h) => /\ l[place[h] - 1] = Item(AddedCmd(m), 0)
                                /\ ~InPhrase(l, place[h] - 1)
  /\ \A k \in 1..Len(l) :
        \E h \in 1..i : k = place[h] \/ (NeedsCmd(list, h) /\ k = place[h] - 1)

LEMMA PlacePositive ==
    ASSUME NEW list, NEW m, NEW l, NEW place, NEW i \in Nat, Spread(list, m, l, place, i),
           NEW h \in 1..i
    PROVE  /\ place[h] \in 1..Len(l) /\ place[h - 1] \in 0..Len(l) /\ place[h - 1] < place[h]
           /\ NeedsCmd(list, h) => place[h] - 1 \in 1..Len(l)
<1>1. h - 1 \in 1..i \/ h - 1 = 0
  OBVIOUS
<1>2. place[h] \in Nat /\ place[h] <= Len(l)
      /\ place[h] = place[h - 1] + IF NeedsCmd(list, h) THEN 2 ELSE 1
  BY DEF Spread
<1>3. place[h - 1] \in Nat
  BY <1>1 DEF Spread
<1>4. Len(l) \in Nat
  <2>1. i \in 1..i
    OBVIOUS
  <2> QED BY <2>1 DEF Spread
<1> QED BY <1>2, <1>3, <1>4

LEMMA SpreadMore ==
    ASSUME NEW S, NEW list, NEW m, NEW l \in Seq(S), NEW place, NEW i \in Nat \ {0},
           Spread(list, m, l, place, i - 1),
           InPhrase(l, Len(l) + 1) <=> InPhrase(list, i),
           list[i] \in S, Item(AddedCmd(m), 0) \in S, Item(AddedCmd(m), 0).cmd # "PHRASE",
           place[i] = Len(l \o Copied(list, m, i))
    PROVE  Spread(list, m, l \o Copied(list, m, i), place, i)
<1> DEFINE x == list[i]
           op == Item(AddedCmd(m), 0)
           c == Copied(list, m, i)
           more == l \o c
           N == Len(l)
<1>1. c \in Seq(S) /\ c = IF NeedsCmd(list, i) THEN <<op, x>> ELSE <<x>>
  BY DEF Copied
<1>2. /\ NeedsCmd(list, i) => Len(c) = 2 /\ c[1] = op /\ c[2] = x
      /\ ~NeedsCmd(list, i) => Len(c) = 1 /\ c[1] = x
  BY <1>1
<1>3. NeedsCmd(list, i) => ~InPhrase(list, i)
  BY DEF NeedsCmd
<1> HIDE DEF x, op, c
<1>4. /\ more \in Seq(S) /\ Len(more) = N + Len(c) /\ N \in Nat /\ Len(c) \in Nat
      /\ \A k \in 1..N : more[k] = l[k]
      /\ \A k \in 1..Len(c) : more[N + k] = c[k]
  <2>1. /\ more \in Seq(S) /\ Len(more) = N + Len(c)
        /\ \A k \in 1..(N + Len(c)) : more[k] = IF k <= N THEN l[k] ELSE c[k - N]
    BY <1>1, ConcatProperties
  <2>2. N \in Nat /\ Len(c) \in Nat
    BY <1>1
  <2> HIDE DEF more, N
  <2>3. \A k \in 1..N : more[k] = l[k]
    BY <2>1, <2>2
  <2>4. ASSUME NEW k \in 1..Len(c) PROVE more[N + k] = c[k]
    <3>1. N + k \in 1..(N + Len(c)) /\ ~(N + k <= N) /\ (N + k) - N = k
      BY <2>2
    <3> QED BY <2>1, <3>1
  <2> QED BY <2>1, <2>2, <2>3, <2>4
<1>5. DOMAIN more = 1..Len(more) /\ place[i] = Len(more)
  BY <1>4 DEF c
<1>6. /\ place[0] = 0 /\ N = place[i - 1]
      /\ \A h \in 1..(i - 1) :
            /\ place[h] \in Nat /\ place[h] <= N
            /\ place[h] = place[h - 1] + IF NeedsCmd(list, h) THEN 2 ELSE 1
            /\ l[place[h]] = list[h]
            /\ InPhrase(l, place[h]) <=> InPhrase(list, h)
            /\ NeedsCmd(list, h) => /\ l[place[h] - 1] = op
                                    /\ ~InPhrase(l, place[h] - 1)
      /\ \A k \in 1..N :
            \E h \in 1..(i - 1) : k = place[h] \/ (NeedsCmd(list, h) /\ k = place[h] - 1)
  BY DEF Spread, op
<1> HIDE DEF more
<1>7. ASSUME NEW k \in 1..(N + 1) PROVE InPhrase(more, k) <=> InPhrase(l, k)
  <2>1. k \in Nat \ {0} /\ \A j \in 1..(k - 1) : more[j] = l[j]
    BY <1>4
  <2> QED BY <2>1, InPhraseSame
<1>8. ASSUME NEW h \in 1..(i - 1)
      PROVE  /\ place[h] \in Nat /\ place[h] <= place[i]
             /\ place[h] = place[h - 1] + IF NeedsCmd(list, h) THEN 2 ELSE 1
             /\ more[place[h]] = list[h]
             /\ InPhrase(more, place[h]) <=> InPhrase(list, h)
             /\ NeedsCmd(list, h) => /\ more[place[h] - 1] = op
                                     /\ ~InPhrase(more, place[h] - 1)
  <2>1. place[h] \in 1..N /\ (NeedsCmd(list, h) => place[h] - 1 \in 1..N)
    <3>1. i - 1 \in Nat
      OBVIOUS
    <3> QED BY <3>1, PlacePositive
  <2>2. \A k \in 1..N : k \in 1..(N + 1)
    BY <1>4
  <2>3. place[h] <= place[i]
    BY <1>4, <1>5, <2>1
  <2> QED BY <1>4, <1>6, <1>7, <2>1, <2>2, <2>3
<1>9. /\ place[i] \in Nat
      /\ place[i] = place[i - 1] + IF NeedsCmd(list, i) THEN 2 ELSE 1
      /\ more[place[i]] = list[i]
      /\ InPhrase(more, place[i]) <=> InPhrase(list, i)
      /\ NeedsCmd(list, i) => more[place[i] - 1] = op /\ ~InPhrase(more, place[i] - 1)
      /\ \A k \in (N + 1)..Len(more) : k = place[i] \/ (NeedsCmd(list, i) /\ k = place[i] - 1)
  <2>1. N + 1 \in 1..(N + 1) /\ N + 1 \in Nat \ {0}
    BY <1>4
  <2>2. InPhrase(more, N + 1) <=> InPhrase(list, i)
    BY <1>7, <2>1
  <2>3. CASE NeedsCmd(list, i)
    <3>0. Len(c) = 2 /\ c[1] = op /\ c[2] = x
      BY <1>2, <2>3
    <3>1. Len(more) = N + 2 /\ more[N + 1] = op /\ more[N + 2] = x
      <4>1. 1 \in 1..Len(c) /\ 2 \in 1..Len(c)
        BY <3>0
      <4> QED BY <1>4, <3>0, <4>1
    <3>2. InPhrase(more, (N + 1) + 1) <=> InPhrase(more, N + 1)
      <4>1. more[N + 1].cmd # "PHRASE"
        BY <3>1 DEF op
      <4> QED BY <2>1, <4>1, InPhraseStep
    <3>3. (N + 1) + 1 = place[i] /\ place[i] - 1 = N + 1 /\ place[i] = N + 2
      BY <1>4, <1>5, <3>1
    <3>4. /\ place[i] \in Nat
          /\ place[i] = place[i - 1] + IF NeedsCmd(list, i) THEN 2 ELSE 1
      BY <1>4, <1>6, <2>3, <3>3
    <3>5. more[place[i]] = list[i] /\ more[place[i] - 1] = op
      BY <3>1, <3>3 DEF x
    <3>6. (InPhrase(more, place[i]) <=> InPhrase(list, i)) /\ ~InPhrase(more, place[i] - 1)
      BY <1>3, <2>2, <2>3, <3>2, <3>3
    <3>7. \A k \in (N + 1)..Len(more) : k = place[i] \/ k = place[i] - 1
      BY <1>4, <3>1, <3>3
    <3> HIDE DEF N
    <3> QED BY <2>3, <3>4, <3>5, <3>6, <3>7, Zenon
  <2>4. CASE ~NeedsCmd(list, i)
    <3>0. Len(c) = 1 /\ c[1] = x
      BY <1>2, <2>4
    <3>1. Len(more) = N + 1 /\ more[N + 1] = x
      <4>1. 1 \in 1..Len(c)
        BY <3>0
      <4> QED BY <1>4, <3>0, <4>1
    <3>2. place[i] = N + 1
      BY <1>5, <3>1
    <3>3. /\ place[i] \in Nat
          /\ place[i] = place[i - 1] + IF NeedsCmd(list, i) THEN 2 ELSE 1
      BY <1>4, <1>6, <2>4, <3>2
    <3>4. more[place[i]] = list[i] /\ (InPhrase(more, place[i]) <=> InPhrase(list, i))
      BY <2>2, <3>1, <3>2 DEF x
    <3>5. \A k \in (N + 1)..Len(more) : k = place[i]
      BY <1>4, <3>1, <3>2
    <3> HIDE DEF N
    <3> QED BY <2>4, <3>3, <3>4, <3>5, Zenon
  <2> QED BY <2>3, <2>4
<1>10. ASSUME NEW k \in 1..Len(more)
       PROVE  \E h \in 1..i : k = place[h] \/ (NeedsCmd(list, h) /\ k = place[h] - 1)
  <2>1. CASE k \in 1..N
    <3>1. PICK h \in 1..(i - 1) : k = place[h] \/ (NeedsCmd(list, h) /\ k = place[h] - 1)
      BY <1>6, <2>1
    <3>2. h \in 1..i
      OBVIOUS
    <3> QED BY <3>1, <3>2
  <2>2. CASE k \in (N + 1)..Len(more)
    <3>1. i \in 1..i
      OBVIOUS
    <3> QED BY <1>9, <2>2, <3>1
  <2> QED BY <1>4, <2>1, <2>2
<1>11. \A h \in 1..i : h \in 1..(i - 1) \/ h = i
  OBVIOUS
<1>12. place[i] <= place[i]
  BY <1>9
<1>13. Spread(list, m, more, place, i)
  BY <1>5, <1>6, <1>8, <1>9, <1>10, <1>11, <1>12 DEF Spread, op
<1> QED BY <1>13 DEF more, c

LEMMA CompletedSpread ==
    ASSUME NEW n \in Nat, NEW list \in Seq(ItemSet(n)), list # <<>>, Typed(list), NEW m
    PROVE  \E place : Spread(list, m, Completed(list, m), place, Len(list))
<1> DEFINE N == Len(list)
           S == ItemSet(n)
<1>1. PICK upTo : CopiedUpTo(S, list, m, upTo) /\ Completed(list, m) = upTo[N]
  BY CompletedParts
<1>2. N \in Nat \ {0} /\ \A i \in 1..N : list[i] \in S
  OBVIOUS
<1>3. Item(AddedCmd(m), 0) \in S /\ Item(AddedCmd(m), 0).cmd # "PHRASE"
  <2>1. AddedCmd(m) \in {"OR", "AND"} /\ AddedCmd(m) \in Cmds \ {"WORD"}
    BY DEF AddedCmd, Cmds
  <2>2. Item(AddedCmd(m), 0) \in S /\ Item(AddedCmd(m), 0).cmd = AddedCmd(m)
    BY <2>1, ItemFacts
  <2> QED BY <2>1, <2>2
<1> HIDE DEF S
<1>4. /\ upTo[0] = <<>>
      /\ \A i \in 1..N : upTo[i] = upTo[i - 1] \o Copied(list, m, i)
      /\ \A i \in 0..N : upTo[i] \in Seq(S)
                         /\ (InPhrase(upTo[i], Len(upTo[i]) + 1) <=> InPhrase(list, i + 1))
  BY <1>1 DEF CopiedUpTo, Part
<1> DEFINE place == [i \in 0..N |-> Len(upTo[i])]
           Good == {i \in 0..N : Spread(list, m, upTo[i], place, i)}
<1>5. 0 \in Good
  <2>1. place[0] = 0 /\ Len(upTo[0]) = 0 /\ DOMAIN upTo[0] = 1..0
    BY <1>2, <1>4
  <2>2. Spread(list, m, upTo[0], place, 0)
    <3> HIDE DEF place
    <3> QED BY <2>1 DEF Spread
  <2> QED BY <1>2, <2>2
<1>6. ASSUME NEW i \in 1..N, i - 1 \in Good PROVE i \in Good
  <2>1. i - 1 \in 0..N /\ i \in Nat \ {0} /\ i \in 0..N /\ (i - 1) + 1 = i
    BY <1>2
  <2>2. place[i] = Len(upTo[i - 1] \o Copied(list, m, i))
    BY <1>4, <2>1
  <2>3. Spread(list, m, upTo[i - 1], place, i - 1)
    BY <1>6
  <2> HIDE DEF place
  <2>4. upTo[i - 1] \in Seq(S)
        /\ (InPhrase(upTo[i - 1], Len(upTo[i - 1]) + 1) <=> InPhrase(list, i))
    BY <1>4, <2>1
  <2>5. Spread(list, m, upTo[i - 1] \o Copied(list, m, i), place, i)
    BY <1>2, <1>3, <2>1, <2>2, <2>3, <2>4, SpreadMore
  <2> QED BY <1>4, <2>1, <2>5
<1>7. N \in Good
  <2>1. N \in Nat
    BY <1>2
  <2> HIDE DEF Good, N
  <2>2. 0..N \subseteq Good
    BY <1>5, <1>6, <2>1, BoundedInduction, Zenon
  <2> QED BY <2>1, <2>2
<1> HIDE DEF place
<1> QED BY <1>1, <1>7

\* The stack behind each item of a query, on its completed list.
LEMMA CompletedTrace ==
    ASSUME NEW n \in Nat, NEW list \in Seq(ItemSet(n)), list # <<>>, Typed(list),
           ~InPhrase(list, Len(list) + 1), NEW count
    PROVE  \E stack : /\ Trace(stack, list, count)
                      /\ CalcBoolItems(Completed(list, mode), count)
                            = Unwind(stack[Len(list)], 0)
<1> DEFINE N == Len(list)
           full == Completed(list, mode)
<1>1. N \in Nat /\ DOMAIN list = 1..N
  OBVIOUS
<1>2. PICK place : Spread(list, mode, full, place, N)
  BY CompletedSpread
<1>3. Alternates(full) /\ DOMAIN full = 1..Len(full) /\ Len(full) \in Nat
  <2>1. full \in Seq(ItemSet(n)) /\ Alternates(full)
    BY CompletedAlternates
  <2> HIDE DEF full
  <2> QED BY <2>1
<1> HIDE DEF full, N
<1>4. PICK fs : Stacked(full, count, fs) /\ CalcBoolItems(full, count) = Unwind(fs[Len(full)], 0)
  BY <1>3, CalcStacks
<1>5. /\ fs[0] = EmptyStack
      /\ \A k \in 1..Len(full) : fs[k] = Calc(full, count, fs[k - 1], k)
      /\ \A k \in 0..Len(full) : fs[k] \in Stacks
  BY <1>4 DEF Stacked, Balanced
<1>6. /\ place[0] = 0 /\ Len(full) = place[N]
      /\ \A h \in 1..N :
            /\ place[h] \in 1..Len(full) /\ place[h - 1] \in 0..Len(full)
            /\ place[h] = place[h - 1] + IF NeedsCmd(list, h) THEN 2 ELSE 1
            /\ full[place[h]] = list[h]
            /\ InPhrase(full, place[h]) <=> InPhrase(list, h)
            /\ NeedsCmd(list, h) => /\ place[h] - 1 \in 1..Len(full)
                                    /\ full[place[h] - 1] = Item(AddedCmd(mode), 0)
                                    /\ ~InPhrase(full, place[h] - 1)
  <2>1. place[0] = 0 /\ Len(full) = place[N]
    BY <1>1, <1>2 DEF Spread
  <2>2. ASSUME NEW h \in 1..N
        PROVE  /\ place[h] \in 1..Len(full) /\ place[h - 1] \in 0..Len(full)
               /\ place[h] = place[h - 1] + IF NeedsCmd(list, h) THEN 2 ELSE 1
               /\ full[place[h]] = list[h]
               /\ InPhrase(full, place[h]) <=> InPhrase(list, h)
               /\ NeedsCmd(list, h) => /\ place[h] - 1 \in 1..Len(full)
                                       /\ full[place[h] - 1] = Item(AddedCmd(mode), 0)
                                       /\ ~InPhrase(full, place[h] - 1)
    BY <1>1, <1>2, PlacePositive DEF Spread
  <2> QED BY <2>1, <2>2
<1>7. ASSUME NEW h \in 1..N
      PROVE  fs[place[h]] = Calc(list, count, Loaded(list, fs[place[h - 1]], h), h)
  <2> DEFINE p == place[h]
             s0 == fs[place[h - 1]]
             s == fs[p - 1]
  <2>1. /\ p \in 1..Len(full) /\ place[h - 1] \in 0..Len(full)
        /\ p = place[h - 1] + IF NeedsCmd(list, h) THEN 2 ELSE 1
        /\ full[p] = list[h]
        /\ InPhrase(full, p) <=> InPhrase(list, h)
        /\ NeedsCmd(list, h) => /\ p - 1 \in 1..Len(full)
                                /\ full[p - 1] = Item(AddedCmd(mode), 0)
                                /\ ~InPhrase(full, p - 1)
    BY <1>6
  <2> HIDE DEF p
  <2>0. p \in Int /\ place[h - 1] \in Int
    BY <1>3, <2>1
  <2>2. s = Loaded(list, s0, h)
    <3>1. CASE NeedsCmd(list, h)
      <4>1. (p - 1) - 1 = place[h - 1]
        <5> DEFINE b == place[h - 1]
        <5>1. p \in Int /\ b \in Int /\ p = b + 2
          BY <2>0, <2>1, <3>1
        <5> HIDE DEF b
        <5>2. (p - 1) - 1 = b
          BY <5>1
        <5> QED BY <5>2 DEF b
      <4>2. s = Calc(full, count, s0, p - 1)
        <5> DEFINE l == p - 1
        <5>1. l \in 1..Len(full)
          BY <2>1, <3>1
        <5>2. fs[l] = Calc(full, count, fs[l - 1], l)
          <6> HIDE DEF l
          <6> QED BY <1>5, <5>1
        <5>3. l - 1 = place[h - 1]
          BY <4>1
        <5> HIDE DEF full
        <5> QED BY <5>2, <5>3, Zenon
      <4>3. full[p - 1].cmd = AddedCmd(mode) /\ AddedCmd(mode) \in {"OR", "AND"}
        <5>1. full[p - 1] = Item(AddedCmd(mode), 0)
          BY <2>1, <3>1, Zenon
        <5>2. Item(AddedCmd(mode), 0).cmd = AddedCmd(mode)
          BY DEF Item
        <5>3. AddedCmd(mode) \in {"OR", "AND"}
          BY DEF AddedCmd
        <5> QED BY <5>1, <5>2, <5>3, Zenon
      <4>4. ~InPhrase(full, p - 1)
        BY <2>1, <3>1, Zenon
      <4> HIDE DEF s0, s
      <4>5. Calc(full, count, s0, p - 1)
               = PushCmd(Unwind(s0, Code[AddedCmd(mode)]), AddedCmd(mode))
        BY <4>3, <4>4 DEF Calc
      <4> QED BY <3>1, <4>2, <4>5 DEF Loaded
    <3>2. CASE ~NeedsCmd(list, h)
      <4>1. p - 1 = place[h - 1]
        <5> DEFINE b == place[h - 1]
        <5>1. p \in Int /\ b \in Int /\ p = b + 1
          BY <2>0, <2>1, <3>2
        <5> HIDE DEF b
        <5>2. p - 1 = b
          BY <5>1
        <5> QED BY <5>2 DEF b
      <4> QED BY <3>2, <4>1 DEF Loaded
    <3> QED BY <3>1, <3>2
  <2>3. fs[p] = Calc(full, count, s, p)
    BY <1>5, <2>1
  <2>4. Calc(full, count, s, p) = Calc(list, count, s, h)
    <3> HIDE DEF s, s0
    <3>1. CASE InPhrase(list, h)
      BY <2>1, <3>1 DEF Calc
    <3>2. CASE ~InPhrase(list, h) /\ list[h].cmd # "PHRASE"
      <4>1. list[h].cmd \in {"OR", "AND", "NOT", "LEFT", "RIGHT", "WORD", "STOP"}
        BY <1>1, <3>2 DEF Typed, InOrder, Cmds
      <4>2. CASE list[h].cmd = "RIGHT"
        BY <2>1, <3>2, <4>2 DEF Calc
      <4>3. CASE list[h].cmd \in {"OR", "AND"}
        BY <2>1, <3>2, <4>3 DEF Calc
      <4>4. CASE list[h].cmd \in {"LEFT", "NOT"}
        BY <2>1, <3>2, <4>4 DEF Calc
      <4>5. CASE list[h].cmd = "STOP"
        BY <2>1, <3>2, <4>5 DEF Calc
      <4>6. CASE list[h].cmd = "WORD"
        BY <2>1, <3>2, <4>6 DEF Calc
      <4> QED BY <4>1, <4>2, <4>3, <4>4, <4>5, <4>6
    <3>3. CASE ~InPhrase(list, h) /\ list[h].cmd = "PHRASE"
      <4>1. h \in Nat \ {0} /\ h \in 1..N
        BY <1>1
      <4>2. InPhrase(list, h + 1)
        BY <3>3, <4>1, InPhraseStep
      <4>3. h + 1 \in 1..N /\ (h + 1) - 1 = h
        <5>1. h # N
          BY <4>2 DEF N
        <5> QED BY <1>1, <5>1
      <4>4. ~NeedsCmd(list, h + 1)
        BY <4>2 DEF NeedsCmd
      <4>5. place[h + 1] = p + 1 /\ full[p + 1] = list[h + 1]
        BY <1>6, <4>3, <4>4 DEF p
      <4> QED BY <2>1, <3>3, <4>5 DEF Calc
    <3> QED BY <3>1, <3>2, <3>3
  <2> QED BY <2>2, <2>3, <2>4 DEF p
<1> DEFINE stack == [h \in 0..N |-> fs[place[h]]]
<1>8. Trace(stack, list, count)
  <2>1. stack \in [0..N -> Stacks]
    <3>1. ASSUME NEW h \in 0..N PROVE fs[place[h]] \in Stacks
      <4>1. CASE h = 0
        BY <1>1, <1>3, <1>5, <1>6, <4>1
      <4>2. CASE h # 0
        <5>1. h \in 1..N
          BY <1>1, <4>2
        <5>2. place[h] \in 0..Len(full)
          BY <1>3, <1>6, <5>1
        <5> QED BY <1>5, <5>2
      <4> QED BY <4>1, <4>2
    <3> QED BY <3>1
  <2>2. stack[0] = EmptyStack
    BY <1>1, <1>5, <1>6
  <2>3. ASSUME NEW h \in 1..N
        PROVE  stack[h] = Calc(list, count, Loaded(list, stack[h - 1], h), h)
    <3>1. h \in 0..N /\ h - 1 \in 0..N
      BY <1>1
    <3>2. stack[h] = fs[place[h]] /\ stack[h - 1] = fs[place[h - 1]]
      BY <3>1
    <3> HIDE DEF stack
    <3> QED BY <1>7, <3>2
  <2> HIDE DEF stack
  <2> QED BY <2>1, <2>2, <2>3 DEF Trace, N
<1>9. stack[N] = fs[Len(full)]
  BY <1>1, <1>6
<1> HIDE DEF stack
<1> QED BY <1>4, <1>8, <1>9 DEF full, N

-----------------------------------------------------------------------------
(* The coordinates of a text.                                              *)

CrdSet == [pos : Nat, order : Nat]

\* crd has the coordinates of the first n words of the query at position p.
AtUpTo(crd, t, p, n) ==
  /\ crd \in Seq(CrdSet)
  /\ \A k \in 1..Len(crd) : crd[k].pos = p
  /\ \A o : (\E k \in 1..Len(crd) : crd[k].order = o) <=> o \in 1..n /\ words[o].word = t[p]

LEMMA AtStep ==
    ASSUME NEW t, NEW p \in Nat, NEW n \in Nat \ {0}, NEW crd, AtUpTo(crd, t, p, n - 1)
    PROVE  AtUpTo(IF words[n].word = t[p] THEN Append(crd, [pos |-> p, order |-> n]) ELSE crd,
                  t, p, n)
<1> DEFINE x == [pos |-> p, order |-> n]
           more == Append(crd, x)
<1>1. /\ crd \in Seq(CrdSet) /\ Len(crd) \in Nat
      /\ \A k \in 1..Len(crd) : crd[k].pos = p
      /\ \A o : (\E k \in 1..Len(crd) : crd[k].order = o)
                   <=> o \in 1..(n - 1) /\ words[o].word = t[p]
  BY DEF AtUpTo
<1>2. x \in CrdSet /\ x.pos = p /\ x.order = n
  BY DEF CrdSet
<1> HIDE DEF x
<1>3. /\ more \in Seq(CrdSet) /\ Len(more) = Len(crd) + 1
      /\ \A k \in 1..Len(crd) : more[k] = crd[k]
      /\ more[Len(crd) + 1] = x
  BY <1>1, <1>2, AppendProperties
<1> HIDE DEF more
<1>4. \A o : o \in 1..n <=> o \in 1..(n - 1) \/ o = n
  OBVIOUS
<1>5. CASE words[n].word = t[p]
  <2>1. \A k \in 1..Len(more) : more[k].pos = p
    BY <1>1, <1>2, <1>3
  <2>2. ASSUME NEW o
        PROVE  (\E k \in 1..Len(more) : more[k].order = o) <=> o \in 1..n /\ words[o].word = t[p]
    <3>1. (\E k \in 1..Len(more) : more[k].order = o)
             <=> o = n \/ \E k \in 1..Len(crd) : crd[k].order = o
      <4>1. \A k : k \in 1..Len(more) <=> k \in 1..Len(crd) \/ k = Len(crd) + 1
        BY <1>1, <1>3
      <4> QED BY <1>2, <1>3, <4>1
    <3> QED BY <1>1, <1>4, <1>5, <3>1
  <2>3. AtUpTo(more, t, p, n)
    BY <1>3, <2>1, <2>2 DEF AtUpTo
  <2> QED BY <1>5, <2>3 DEF more, x
<1>6. CASE words[n].word # t[p]
  <2>1. ASSUME NEW o
        PROVE  (\E k \in 1..Len(crd) : crd[k].order = o) <=> o \in 1..n /\ words[o].word = t[p]
    BY <1>1, <1>4, <1>6
  <2>2. AtUpTo(crd, t, p, n)
    BY <1>1, <2>1 DEF AtUpTo
  <2> QED BY <1>6, <2>2
<1> QED BY <1>5, <1>6

LEMMA AtFacts ==
    ASSUME NEW t, NEW p \in Nat, nuniq \in Nat
    PROVE  AtUpTo(At(t, p), t, p, nuniq)
<1> DEFINE N == nuniq
           S == Seq(CrdSet)
           Try(crd, o) == IF words[o].word = t[p] THEN Append(crd, [pos |-> p, order |-> o])
                          ELSE crd
           Rec(h) == h = [o \in 0..N |-> IF o = 0 THEN <<>> ELSE Try(h[o - 1], o)]
           upTo == CHOOSE h : Rec(h)
<1>1. At(t, p) = upTo[N]
  BY DEF At
<1>2. N \in Nat /\ <<>> \in S
  OBVIOUS
<1>3. \E h : Rec(h)
  <2> DEFINE F == [q \in S \X Nat |-> Try(q[1], q[2] + 1)]
  <2>1. ASSUME NEW crd \in S, NEW o \in Nat PROVE Try(crd, o) \in S
    <3>1. [pos |-> p, order |-> o] \in CrdSet
      BY DEF CrdSet
    <3> DEFINE x == [pos |-> p, order |-> o]
    <3> HIDE DEF x
    <3>2. Append(crd, x) \in S
      BY <3>1, AppendProperties DEF x
    <3> QED BY <3>2 DEF x
  <2> HIDE DEF Try, S
  <2>2. F \in Steps(S)
    <3>1. \A q \in S \X Nat : Try(q[1], q[2] + 1) \in S
      BY <2>1
    <3> QED BY <3>1 DEF Steps
  <2> HIDE DEF F
  <2>3. PICK f : Follows(f, S, <<>>, F, N)
    <3> HIDE DEF N
    <3> QED BY <1>2, <2>2, BoundedRecursion
  <2>4. /\ f \in [0..N -> S] /\ f[0] = <<>>
        /\ \A o \in 1..N : f[o] = F[<<f[o - 1], o - 1>>]
    BY <2>3 DEF Follows
  <2>5. ASSUME NEW o \in 1..N PROVE f[o] = Try(f[o - 1], o)
    <3>1. o - 1 \in Nat /\ o - 1 \in 0..N /\ (o - 1) + 1 = o
      BY <1>2
    <3>2. <<f[o - 1], o - 1>> \in S \X Nat
      BY <2>4, <3>1
    <3>3. F[<<f[o - 1], o - 1>>] = Try(f[o - 1], o)
      BY <3>1, <3>2 DEF F
    <3> QED BY <2>4, <3>3
  <2>6. f = [o \in 0..N |-> IF o = 0 THEN <<>> ELSE Try(f[o - 1], o)]
    <3> HIDE DEF N
    <3> QED BY <1>2, <2>4, <2>5
  <2> QED BY <2>6
<1>4. Rec(upTo)
  <2> HIDE DEF Rec
  <2> QED BY <1>3
<1>5. /\ upTo[0] = <<>>
      /\ \A o \in 1..N : upTo[o] = Try(upTo[o - 1], o)
  <2> HIDE DEF upTo, N, Try
  <2> QED BY <1>2, <1>4
<1> HIDE DEF upTo, Rec
<1> DEFINE Good == {o \in 0..N : AtUpTo(upTo[o], t, p, o)}
<1>6. 0 \in Good
  <2>1. AtUpTo(<<>>, t, p, 0)
    BY DEF AtUpTo
  <2> QED BY <1>2, <1>5, <2>1
<1>7. ASSUME NEW o \in 1..N, o - 1 \in Good PROVE o \in Good
  <2>1. AtUpTo(upTo[o - 1], t, p, o - 1) /\ o \in Nat \ {0} /\ o \in 0..N
    BY <1>2, <1>7
  <2>2. AtUpTo(Try(upTo[o - 1], o), t, p, o)
    BY <2>1, AtStep
  <2> QED BY <1>5, <2>1, <2>2
<1>8. N \in Good
  <2> HIDE DEF Good, N
  <2>1. 0..N \subseteq Good
    BY <1>2, <1>6, <1>7, BoundedInduction, Zenon
  <2> QED BY <1>2, <2>1
<1> QED BY <1>1, <1>8

\* crd has the coordinates of the first n places of the text.
CoordsUpTo(crd, t, n) ==
  /\ crd \in Seq(CrdSet)
  /\ \A k \in 1..Len(crd) : crd[k].pos \in 1..n
  /\ \A k, l \in 1..Len(crd) : k <= l => crd[k].pos <= crd[l].pos
  /\ \A p, o : (\E k \in 1..Len(crd) : crd[k].pos = p /\ crd[k].order = o)
                  <=> p \in 1..n /\ o \in 1..nuniq /\ words[o].word = t[p]

LEMMA CoordsStep ==
    ASSUME NEW t, NEW n \in Nat \ {0}, NEW crd, CoordsUpTo(crd, t, n - 1),
           NEW at, AtUpTo(at, t, n, nuniq)
    PROVE  CoordsUpTo(crd \o at, t, n)
<1> DEFINE both == crd \o at
           N == Len(crd)
<1>1. /\ crd \in Seq(CrdSet) /\ N \in Nat
      /\ \A k \in 1..N : crd[k].pos \in 1..(n - 1)
      /\ \A k, l \in 1..N : k <= l => crd[k].pos <= crd[l].pos
      /\ \A p, o : (\E k \in 1..N : crd[k].pos = p /\ crd[k].order = o)
                      <=> p \in 1..(n - 1) /\ o \in 1..nuniq /\ words[o].word = t[p]
  BY DEF CoordsUpTo
<1>2. /\ at \in Seq(CrdSet) /\ Len(at) \in Nat
      /\ \A k \in 1..Len(at) : at[k].pos = n
      /\ \A o : (\E k \in 1..Len(at) : at[k].order = o)
                   <=> o \in 1..nuniq /\ words[o].word = t[n]
  BY DEF AtUpTo
<1>3. /\ both \in Seq(CrdSet) /\ Len(both) = N + Len(at)
      /\ \A k \in 1..(N + Len(at)) : both[k] = IF k <= N THEN crd[k] ELSE at[k - N]
  BY <1>1, <1>2, ConcatProperties
<1> HIDE DEF both, N
<1>4. \A k \in 1..N : k \in 1..Len(both) /\ both[k] = crd[k]
  BY <1>1, <1>2, <1>3
<1>5. \A k \in 1..Len(at) : N + k \in 1..Len(both) /\ both[N + k] = at[k]
  <2> TAKE k \in 1..Len(at)
  <2>1. N + k \in 1..(N + Len(at)) /\ ~(N + k <= N) /\ (N + k) - N = k
    BY <1>1, <1>2
  <2> QED BY <1>3, <2>1
<1>6. \A k \in 1..Len(both) : k \in 1..N \/ (k > N /\ k - N \in 1..Len(at) /\ both[k] = at[k - N])
  BY <1>1, <1>2, <1>3
<1>7. \A k \in 1..Len(both) : /\ both[k].pos \in 1..n
                              /\ k \in 1..N => both[k].pos < n
                              /\ k \notin 1..N => both[k].pos = n
  BY <1>1, <1>2, <1>4, <1>6
<1>8. ASSUME NEW k \in 1..Len(both), NEW l \in 1..Len(both), k <= l
      PROVE  both[k].pos <= both[l].pos
  <2>1. CASE l \in 1..N
    <3>1. k \in 1..N
      BY <1>1, <1>8, <2>1
    <3> QED BY <1>1, <1>4, <1>8, <2>1, <3>1
  <2>2. CASE l \notin 1..N
    BY <1>7, <2>2
  <2> QED BY <2>1, <2>2
<1>9. ASSUME NEW p, NEW o
      PROVE  (\E k \in 1..Len(both) : both[k].pos = p /\ both[k].order = o)
                <=> p \in 1..n /\ o \in 1..nuniq /\ words[o].word = t[p]
  <2>0. (\E k \in 1..N : crd[k].pos = p /\ crd[k].order = o)
           <=> p \in 1..(n - 1) /\ o \in 1..nuniq /\ words[o].word = t[p]
    BY <1>1, Zenon
  <2>1. ASSUME NEW k \in 1..Len(both), both[k].pos = p, both[k].order = o
        PROVE  p \in 1..n /\ o \in 1..nuniq /\ words[o].word = t[p]
    <3>1. CASE k \in 1..N
      <4>1. crd[k].pos = p /\ crd[k].order = o
        BY <1>4, <2>1, <3>1
      <4>2. p \in 1..(n - 1) /\ o \in 1..nuniq /\ words[o].word = t[p]
        BY <2>0, <3>1, <4>1
      <4> QED BY <4>2
    <3>2. CASE k \notin 1..N
      <4>1. k - N \in 1..Len(at) /\ at[k - N].order = o /\ p = n
        BY <1>6, <1>7, <2>1, <3>2
      <4>2. o \in 1..nuniq /\ words[o].word = t[n]
        BY <1>2, <4>1
      <4> QED BY <4>1, <4>2
    <3> QED BY <3>1, <3>2
  <2>2. ASSUME p \in 1..n, o \in 1..nuniq, words[o].word = t[p]
        PROVE  \E k \in 1..Len(both) : both[k].pos = p /\ both[k].order = o
    <3>1. CASE p = n
      <4>1. PICK k \in 1..Len(at) : at[k].order = o
        BY <1>2, <2>2, <3>1
      <4> QED BY <1>2, <1>5, <3>1, <4>1
    <3>2. CASE p # n
      <4>1. p \in 1..(n - 1)
        BY <2>2, <3>2
      <4>2. PICK k \in 1..N : crd[k].pos = p /\ crd[k].order = o
        BY <2>0, <2>2, <4>1
      <4> QED BY <1>4, <4>2
    <3> QED BY <3>1, <3>2
  <2> QED BY <2>1, <2>2
<1>10. CoordsUpTo(both, t, n)
  BY <1>3, <1>7, <1>8, <1>9 DEF CoordsUpTo
<1> QED BY <1>10 DEF both

LEMMA CoordsFacts ==
    ASSUME NEW t, Len(t) \in Nat, nuniq \in Nat
    PROVE  CoordsUpTo(Coords(t), t, Len(t))
<1> DEFINE N == Len(t)
           S == Seq(CrdSet)
           Try(crd, p) == crd \o At(t, p)
           Rec(h) == h = [p \in 0..N |-> IF p = 0 THEN <<>> ELSE Try(h[p - 1], p)]
           upTo == CHOOSE h : Rec(h)
<1>1. Coords(t) = upTo[N]
  BY DEF Coords
<1>2. N \in Nat /\ <<>> \in S
  OBVIOUS
<1>3. \E h : Rec(h)
  <2> DEFINE F == [q \in S \X Nat |-> Try(q[1], q[2] + 1)]
  <2>1. ASSUME NEW crd \in S, NEW p \in Nat PROVE Try(crd, p) \in S
    <3>1. At(t, p) \in S
      BY AtFacts DEF AtUpTo
    <3> QED BY <3>1, ConcatProperties
  <2> HIDE DEF Try, S
  <2>2. F \in Steps(S)
    <3>1. \A q \in S \X Nat : Try(q[1], q[2] + 1) \in S
      BY <2>1
    <3> QED BY <3>1 DEF Steps
  <2> HIDE DEF F
  <2>3. PICK f : Follows(f, S, <<>>, F, N)
    <3> HIDE DEF N
    <3> QED BY <1>2, <2>2, BoundedRecursion
  <2>4. /\ f \in [0..N -> S] /\ f[0] = <<>>
        /\ \A o \in 1..N : f[o] = F[<<f[o - 1], o - 1>>]
    BY <2>3 DEF Follows
  <2>5. ASSUME NEW o \in 1..N PROVE f[o] = Try(f[o - 1], o)
    <3>1. o - 1 \in Nat /\ o - 1 \in 0..N /\ (o - 1) + 1 = o
      BY <1>2
    <3>2. <<f[o - 1], o - 1>> \in S \X Nat
      BY <2>4, <3>1
    <3>3. F[<<f[o - 1], o - 1>>] = Try(f[o - 1], o)
      BY <3>1, <3>2 DEF F
    <3> QED BY <2>4, <3>3
  <2>6. f = [o \in 0..N |-> IF o = 0 THEN <<>> ELSE Try(f[o - 1], o)]
    <3> HIDE DEF N
    <3> QED BY <1>2, <2>4, <2>5
  <2> QED BY <2>6
<1>4. Rec(upTo)
  <2> HIDE DEF Rec
  <2> QED BY <1>3
<1>5. /\ upTo[0] = <<>>
      /\ \A o \in 1..N : upTo[o] = Try(upTo[o - 1], o)
  <2> HIDE DEF upTo, N, Try
  <2> QED BY <1>2, <1>4
<1> HIDE DEF upTo, Rec
<1> DEFINE Good == {o \in 0..N : CoordsUpTo(upTo[o], t, o)}
<1>6. 0 \in Good
  <2>1. CoordsUpTo(<<>>, t, 0)
    BY DEF CoordsUpTo
  <2> QED BY <1>2, <1>5, <2>1
<1>7. ASSUME NEW o \in 1..N, o - 1 \in Good PROVE o \in Good
  <2>1. CoordsUpTo(upTo[o - 1], t, o - 1) /\ o \in Nat \ {0} /\ o \in 0..N /\ o \in Nat
    BY <1>2, <1>7
  <2>2. AtUpTo(At(t, o), t, o, nuniq)
    BY <2>1, AtFacts
  <2>3. CoordsUpTo(Try(upTo[o - 1], o), t, o)
    BY <2>1, <2>2, CoordsStep
  <2> QED BY <1>5, <2>1, <2>3
<1>8. N \in Good
  <2> HIDE DEF Good, N
  <2>1. 0..N \subseteq Good
    BY <1>2, <1>6, <1>7, BoundedInduction, Zenon
  <2> QED BY <1>2, <2>1
<1> QED BY <1>1, <1>8

-----------------------------------------------------------------------------
(* CheckOnePhrase finds a phrase exactly where it stands in the text.      *)

LEMMA MinIsLeast ==
    ASSUME NEW Q, Q \subseteq Nat, Q # {}
    PROVE  Min(Q) \in Q /\ \A y \in Q : Min(Q) <= y
<1>1. PICK x \in Q : \A y \in Q : x <= y
  BY LeastElement
<1>2. Min(Q) = CHOOSE z \in Q : \A y \in Q : z <= y
  BY DEF Min
<1> QED BY <1>1, <1>2

LEMMA MaxIsGreatest ==
    ASSUME NEW N \in Nat, NEW Q, Q \subseteq 1..N, Q # {}
    PROVE  Max(Q) \in Q /\ \A y \in Q : y <= Max(Q)
<1>1. Max(Q) \in Q
  BY LastIsMax
<1> DEFINE T == {N - i : i \in Q}
<1>2. T \subseteq Nat /\ T # {}
  <2>1. \A i \in Q : N - i \in Nat
    OBVIOUS
  <2>2. N - Max(Q) \in T
    BY <1>1
  <2> QED BY <2>1, <2>2
<1>3. PICK u \in T : \A w \in T : u <= w
  <2> HIDE DEF T
  <2> QED BY <1>2, LeastElement
<1>4. PICK x \in Q : u = N - x
  OBVIOUS
<1>5. \A y \in Q : x >= y
  <2> SUFFICES ASSUME NEW y \in Q PROVE x >= y
    OBVIOUS
  <2>1. N - y \in T
    OBVIOUS
  <2> HIDE DEF T
  <2> QED BY <1>3, <1>4, <2>1
<1>6. Max(Q) = CHOOSE z \in Q : \A y \in Q : z >= y
  BY DEF Max
<1>7. \A y \in Q : Max(Q) >= y
  BY <1>5, <1>6
<1> QED BY <1>1, <1>7

\* b is a word delta places behind the coordinate prev, and no word of the
\* query stands between.
Finds(crd, prev, delta, order, b) ==
  /\ b \in 0..Len(crd)
  /\ b # 0 <=> /\ \E k \in 1..Len(crd) :
                     crd[k].pos = crd[prev].pos + delta /\ crd[k].order = order
               /\ \A k \in 1..Len(crd) :
                     ~(crd[prev].pos < crd[k].pos /\ crd[k].pos < crd[prev].pos + delta)
  /\ b # 0 => crd[b].pos = crd[prev].pos + delta

LEMMA BehindFinds ==
    ASSUME NEW t, NEW n \in Nat, NEW crd, CoordsUpTo(crd, t, n), NEW prev \in 1..Len(crd),
           NEW delta \in Nat \ {0}, NEW order
    PROVE  Finds(crd, prev, delta, order, Behind(crd, prev, delta, order))
<1> DEFINE at == crd[prev].pos
           N == Len(crd)
           b == Behind(crd, prev, delta, order)
           Skip(k) == \/ crd[k].pos = at
                      \/ crd[k].pos = at + delta /\ crd[k].order # order
           Q == {k \in (prev + 1)..N : ~Skip(k)} \cup {N + 1}
           stop == Min(Q)
           Hit(k) == crd[k].pos = at + delta /\ crd[k].order = order
<1>1. b = IF stop <= N /\ crd[stop].pos = at + delta /\ crd[stop].order = order
          THEN stop ELSE 0
  BY DEF Behind
<1>2. /\ N \in Nat /\ \A k \in 1..N : crd[k].pos \in Nat
      /\ \A k, l \in 1..N : k <= l => crd[k].pos <= crd[l].pos
  BY DEF CoordsUpTo
<1>3. at \in Nat /\ prev \in 1..N
  BY <1>2
<1> HIDE DEF b, at, N
<1>4. stop \in Q /\ \A k \in Q : stop <= k
  <2>1. Q \subseteq Nat /\ Q # {}
    BY <1>2, <1>3
  <2> HIDE DEF Q
  <2> QED BY <2>1, MinIsLeast
<1>5. /\ stop \in (prev + 1)..(N + 1)
      /\ stop <= N => ~Skip(stop)
      /\ \A k \in (prev + 1)..(stop - 1) : Skip(k)
  <2>1. stop \in (prev + 1)..(N + 1)
    BY <1>2, <1>3, <1>4
  <2>2. stop <= N => ~Skip(stop)
    <3>1. stop \in {k \in (prev + 1)..N : ~Skip(k)} \/ stop = N + 1
      BY <1>4
    <3> HIDE DEF stop, Skip
    <3>2. stop <= N => stop # N + 1
      BY <1>2
    <3> QED BY <3>1, <3>2
  <2> HIDE DEF stop
  <2>3. ASSUME NEW k \in (prev + 1)..(stop - 1), ~Skip(k) PROVE FALSE
    <3>1. k \in Q
      BY <1>2, <1>3, <2>1, <2>3
    <3> QED BY <1>2, <1>3, <1>4, <2>1, <3>1
  <2> QED BY <2>1, <2>2, <2>3
<1> HIDE DEF stop, Q
<1>6. ASSUME b # 0
      PROVE  /\ b \in 1..N /\ Hit(b)
             /\ \A k \in 1..N : ~(at < crd[k].pos /\ crd[k].pos < at + delta)
  <2>1. b = stop /\ stop <= N /\ Hit(stop)
    BY <1>1, <1>6
  <2>2. stop \in 1..N
    BY <1>2, <1>3, <1>5, <2>1
  <2>3. ASSUME NEW k \in 1..N PROVE ~(at < crd[k].pos /\ crd[k].pos < at + delta)
    <3>1. CASE k <= prev
      <4>1. crd[k].pos <= at
        BY <1>2, <1>3, <3>1 DEF at
      <4> QED BY <1>2, <1>3, <4>1
    <3>2. CASE k >= stop
      <4>1. crd[stop].pos <= crd[k].pos
        BY <1>2, <2>2, <3>2
      <4> QED BY <1>2, <1>3, <2>1, <4>1
    <3>3. CASE ~(k <= prev) /\ ~(k >= stop)
      <4>1. k \in (prev + 1)..(stop - 1)
        BY <1>2, <1>3, <2>2, <3>3
      <4>2. Skip(k)
        BY <1>5, <4>1
      <4> QED BY <1>2, <1>3, <4>2
    <3> QED BY <3>1, <3>2, <3>3
  <2> QED BY <2>1, <2>2, <2>3
<1>7. ASSUME NEW k \in 1..N, Hit(k),
             \A l \in 1..N : ~(at < crd[l].pos /\ crd[l].pos < at + delta)
      PROVE  b # 0
  <2>1. k > prev
    <3>1. ASSUME k <= prev PROVE FALSE
      <4>1. crd[k].pos <= at
        BY <1>2, <1>3, <3>1 DEF at
      <4> QED BY <1>2, <1>3, <1>7, <4>1
    <3> QED BY <1>2, <1>3, <3>1
  <2>2. ~Skip(k)
    BY <1>2, <1>3, <1>7
  <2>3. stop <= k
    <3>1. k \in (prev + 1)..N
      BY <1>2, <1>3, <2>1
    <3>2. k \in Q
      BY <2>2, <3>1 DEF Q
    <3> QED BY <1>4, <3>2
  <2>4. stop \in 1..N /\ prev <= stop
    BY <1>2, <1>3, <1>5, <2>3
  <2>5. at <= crd[stop].pos /\ crd[stop].pos <= at + delta
    <3>1. crd[stop].pos <= crd[k].pos
      BY <1>2, <2>3, <2>4
    <3>2. at <= crd[stop].pos
      BY <1>2, <1>3, <2>4 DEF at
    <3> QED BY <1>7, <3>1, <3>2
  <2>6. crd[stop].pos = at \/ crd[stop].pos = at + delta
    <3>1. \A l \in 1..N : ~(at < crd[l].pos /\ crd[l].pos < at + delta)
      BY <1>7
    <3>2. ~(at < crd[stop].pos /\ crd[stop].pos < at + delta)
      BY <2>4, <3>1
    <3>3. crd[stop].pos \in Nat
      BY <1>2, <2>4
    <3> QED BY <1>3, <2>5, <3>2, <3>3
  <2>7. Hit(stop)
    BY <1>2, <1>3, <1>5, <2>4, <2>6
  <2> QED BY <1>1, <1>2, <2>4, <2>7
<1>8. b \in 0..N
  <2>1. CASE b = 0
    BY <1>2, <2>1
  <2>2. CASE b # 0
    BY <1>2, <1>6, <2>2
  <2> QED BY <2>1, <2>2
<1>9. Finds(crd, prev, delta, order, b)
  BY <1>6, <1>7, <1>8 DEF Finds, at, N
<1> QED BY <1>9 DEF b

\* The contents of a phrase from its first word on.
Pattern(p) ==
  /\ Len(p) \in Nat \ {0} /\ DOMAIN p = 1..Len(p)
  /\ p[1].cmd = "WORD"
  /\ \A k \in 1..Len(p) : /\ p[k].cmd \in {"WORD", "STOP"}
                          /\ p[k].cmd = "WORD" => p[k].arg \in 1..nuniq

LastWord(p, k) == Max({j \in 1..k : p[j].cmd = "WORD"})

\* The first k items of p stand in the text from place q on.
Stands(p, t, q, k) ==
  /\ \A h \in 1..k : p[h].cmd = "WORD" =>
        q + h - 1 \in 1..Len(t) /\ words[p[h].arg].word = t[q + h - 1]
  /\ \A h \in 1..k : \A g \in (h + 1)..k : p[h].cmd = "STOP" /\ p[g].cmd = "WORD" =>
        \A o \in 1..nuniq : words[o].word # t[q + h - 1]

LEMMA LastWordFacts ==
    ASSUME NEW p, Pattern(p), NEW k \in 1..Len(p)
    PROVE  /\ LastWord(p, k) \in 1..k /\ p[LastWord(p, k)].cmd = "WORD"
           /\ \A j \in (LastWord(p, k) + 1)..k : p[j].cmd = "STOP"
           /\ p[k].cmd = "WORD" => LastWord(p, k) = k
           /\ p[k].cmd = "STOP" /\ k > 1 => LastWord(p, k) = LastWord(p, k - 1)
           /\ k > 1 => Delta(p, k) = k - LastWord(p, k - 1)
<1> DEFINE Q(l) == {j \in 1..l : p[j].cmd = "WORD"}
<1>1. Len(p) \in Nat \ {0} /\ p[1].cmd = "WORD" /\ \A j \in 1..Len(p) : p[j].cmd \in {"WORD", "STOP"}
  BY DEF Pattern
<1>2. ASSUME NEW l \in 1..Len(p)
      PROVE  Max(Q(l)) \in Q(l) /\ \A j \in Q(l) : j <= Max(Q(l))
  <2>1. l \in Nat /\ Q(l) \subseteq 1..l /\ 1 \in Q(l)
    BY <1>1
  <2>2. Q(l) # {}
    BY <2>1
  <2> HIDE DEF Q
  <2> QED BY <2>1, <2>2, MaxIsGreatest
<1>3. \A l : LastWord(p, l) = Max(Q(l))
  BY DEF LastWord
<1> DEFINE m == Max(Q(k))
<1>4. m \in 1..k /\ p[m].cmd = "WORD" /\ \A j \in 1..k : p[j].cmd = "WORD" => j <= m
  <2>1. m \in Q(k) /\ \A j \in Q(k) : j <= m
    BY <1>2
  <2> HIDE DEF m
  <2> QED BY <2>1
<1>5. k > 1 => Delta(p, k) = k - LastWord(p, k - 1)
  BY <1>3 DEF Delta
<1>6. ASSUME p[k].cmd = "STOP", k > 1 PROVE LastWord(p, k) = LastWord(p, k - 1)
  <2>1. Q(k) = Q(k - 1)
    BY <1>1, <1>6
  <2> QED BY <1>3, <2>1
<1> HIDE DEF m
<1>7. LastWord(p, k) = m
  BY <1>3 DEF m
<1>8. \A j \in (m + 1)..k : p[j].cmd = "STOP"
  <2> SUFFICES ASSUME NEW j \in (m + 1)..k PROVE p[j].cmd = "STOP"
    OBVIOUS
  <2>1. j \in 1..k /\ j \in 1..Len(p) /\ ~(j <= m)
    BY <1>1, <1>4
  <2> QED BY <1>1, <1>4, <2>1
<1>9. p[k].cmd = "WORD" => m = k
  BY <1>1, <1>4
<1> QED BY <1>4, <1>5, <1>6, <1>7, <1>8, <1>9

\* One turn of CheckOnePhrase.
NextPlace(crd, p, x, k) ==
  IF p[k].cmd = "STOP" \/ x = 0 THEN x ELSE Behind(crd, x, Delta(p, k), p[k].arg)

Placed(crd, t, p, q, x, k) ==
  /\ x \in 0..Len(crd)
  /\ x # 0 <=> Stands(p, t, q, k)
  /\ x # 0 => crd[x].pos = q + LastWord(p, k) - 1

LEMMA PlacedStep ==
    ASSUME NEW p, Pattern(p), NEW t, Len(t) \in Nat, nuniq \in Nat,
           NEW crd, CoordsUpTo(crd, t, Len(t)),
           NEW q \in 1..Len(t), NEW k \in 2..Len(p), NEW x, Placed(crd, t, p, q, x, k - 1)
    PROVE  Placed(crd, t, p, q, NextPlace(crd, p, x, k), k)
<1> DEFINE y == NextPlace(crd, p, x, k)
           m == LastWord(p, k - 1)
<1>1. /\ Len(p) \in Nat \ {0} /\ k \in 1..Len(p) /\ k - 1 \in 1..Len(p) /\ k > 1
      /\ \A j \in 1..Len(p) : p[j].cmd \in {"WORD", "STOP"}
      /\ p[k].cmd = "WORD" => p[k].arg \in 1..nuniq
      /\ \A h \in 1..k : h \in 1..(k - 1) \/ h = k
      /\ \A h \in 1..(k - 1) : h \in 1..k
      /\ Len(crd) \in Nat
  BY DEF Pattern, CoordsUpTo
<1>2. /\ m \in 1..(k - 1) /\ \A j \in (m + 1)..(k - 1) : p[j].cmd = "STOP"
      /\ p[m].cmd = "WORD"
  BY <1>1, LastWordFacts
<1>3. x \in 0..Len(crd) /\ (x # 0 <=> Stands(p, t, q, k - 1)) /\ (x # 0 => crd[x].pos = q + m - 1)
  BY DEF Placed
<1>4. ASSUME Stands(p, t, q, k) PROVE Stands(p, t, q, k - 1)
  <2>1. \A h \in 1..(k - 1) : \A g \in (h + 1)..(k - 1) : g \in (h + 1)..k
    BY <1>1
  <2> QED BY <1>1, <1>4, <2>1 DEF Stands
<1>0. \A pp, oo : (\E l \in 1..Len(crd) : crd[l].pos = pp /\ crd[l].order = oo)
                    <=> pp \in 1..Len(t) /\ oo \in 1..nuniq /\ words[oo].word = t[pp]
  BY Zenon DEF CoordsUpTo
<1>5. CASE p[k].cmd = "STOP"
  <2>1. y = x /\ LastWord(p, k) = m
    BY <1>1, <1>5, LastWordFacts DEF NextPlace
  <2>2. Stands(p, t, q, k - 1) => Stands(p, t, q, k)
    <3> SUFFICES ASSUME Stands(p, t, q, k - 1) PROVE Stands(p, t, q, k)
      OBVIOUS
    <3>1. ASSUME NEW h \in 1..k, p[h].cmd = "WORD"
          PROVE  q + h - 1 \in 1..Len(t) /\ words[p[h].arg].word = t[q + h - 1]
      <4>1. h \in 1..(k - 1)
        BY <1>1, <1>5, <3>1
      <4> QED BY <3>1, <4>1 DEF Stands
    <3>2. ASSUME NEW h \in 1..k, NEW g \in (h + 1)..k, p[h].cmd = "STOP", p[g].cmd = "WORD",
                 NEW o \in 1..nuniq
          PROVE  words[o].word # t[q + h - 1]
      <4>1. g # k
        BY <1>5, <3>2
      <4>2. h \in 1..(k - 1) /\ g \in (h + 1)..(k - 1)
        BY <1>1, <4>1
      <4> QED BY <3>2, <4>2 DEF Stands
    <3> QED BY <3>1, <3>2 DEF Stands
  <2> HIDE DEF y, m
  <2>3. y \in 0..Len(crd) /\ (y # 0 <=> Stands(p, t, q, k))
    BY <1>3, <1>4, <2>1, <2>2, Zenon
  <2>4. y # 0 => crd[y].pos = q + LastWord(p, k) - 1
    BY <1>3, <2>1, Zenon
  <2>5. Placed(crd, t, p, q, y, k)
    BY <2>3, <2>4, Zenon DEF Placed
  <2> QED BY <2>5 DEF y
<1>6. CASE p[k].cmd = "WORD"
  <2>1. LastWord(p, k) = k /\ Delta(p, k) = k - m /\ Delta(p, k) \in Nat \ {0}
    <3>1. LastWord(p, k) = k /\ Delta(p, k) = k - m
      BY <1>1, <1>6, LastWordFacts
    <3> HIDE DEF m
    <3>2. k - m \in Nat \ {0}
      BY <1>2
    <3> QED BY <3>1, <3>2
  <2>2. CASE x = 0
    <3>1. y = 0
      BY <2>2 DEF NextPlace
    <3>2. ~Stands(p, t, q, k)
      BY <1>3, <1>4, <2>2
    <3> HIDE DEF y
    <3>3. Placed(crd, t, p, q, y, k)
      BY <1>1, <3>1, <3>2 DEF Placed
    <3> QED BY <3>3 DEF y
  <2>3. CASE x # 0
    <3> DEFINE at == crd[x].pos
               d == Delta(p, k)
               o == p[k].arg
    <3>1. y = Behind(crd, x, d, o)
      BY <1>6, <2>3 DEF NextPlace
    <3>2. x \in 1..Len(crd) /\ at = q + m - 1
      BY <1>1, <1>3, <2>3
    <3>3. at + d = q + k - 1 /\ d \in Nat \ {0}
      BY <1>2, <2>1, <3>2
    <3> HIDE DEF y, d, o, m
    <3>4. /\ y \in 0..Len(crd)
          /\ y # 0 <=> /\ \E l \in 1..Len(crd) : crd[l].pos = at + d /\ crd[l].order = o
                       /\ \A l \in 1..Len(crd) : ~(at < crd[l].pos /\ crd[l].pos < at + d)
          /\ y # 0 => crd[y].pos = at + d
      <4>1. CoordsUpTo(crd, t, Len(t)) /\ Len(t) \in Nat /\ x \in 1..Len(crd) /\ d \in Nat \ {0}
        BY <3>2, <3>3
      <4>2. Finds(crd, x, d, o, y)
        BY <3>1, <4>1, BehindFinds
      <4> QED BY <4>2 DEF Finds
    <3> HIDE DEF at
    <3>5. (\E l \in 1..Len(crd) : crd[l].pos = at + d /\ crd[l].order = o)
             <=> q + k - 1 \in 1..Len(t) /\ words[o].word = t[q + k - 1]
      <4>1. (\E l \in 1..Len(crd) : crd[l].pos = q + k - 1 /\ crd[l].order = o)
               <=> q + k - 1 \in 1..Len(t) /\ o \in 1..nuniq /\ words[o].word = t[q + k - 1]
        BY <1>0
      <4>2. o \in 1..nuniq
        BY <1>1, <1>6 DEF o
      <4> QED BY <3>3, <4>1, <4>2
    <3>6. ASSUME q + k - 1 \in 1..Len(t)
          PROVE  (\A l \in 1..Len(crd) : ~(at < crd[l].pos /\ crd[l].pos < at + d))
                    <=> \A h \in (m + 1)..(k - 1) : \A r \in 1..nuniq :
                           words[r].word # t[q + h - 1]
      <4>1. ASSUME NEW h \in (m + 1)..(k - 1), NEW r \in 1..nuniq, words[r].word = t[q + h - 1]
            PROVE  \E l \in 1..Len(crd) : at < crd[l].pos /\ crd[l].pos < at + d
        <5>1. q + h - 1 \in 1..Len(t)
          BY <1>1, <1>2, <3>6 DEF m
        <5> DEFINE pp == q + h - 1
        <5>2. pp \in 1..Len(t) /\ words[r].word = t[pp]
          BY <4>1, <5>1
        <5> HIDE DEF pp
        <5>3. \E l \in 1..Len(crd) : crd[l].pos = pp /\ crd[l].order = r
          <6>1. (\E l \in 1..Len(crd) : crd[l].pos = pp /\ crd[l].order = r)
                   <=> pp \in 1..Len(t) /\ r \in 1..nuniq /\ words[r].word = t[pp]
            BY <1>0
          <6> QED BY <5>2, <6>1
        <5>4. at < pp /\ pp < at + d
          BY <1>1, <1>2, <3>2, <3>3 DEF pp
        <5> QED BY <5>3, <5>4
      <4>2. ASSUME NEW l \in 1..Len(crd), at < crd[l].pos, crd[l].pos < at + d
            PROVE  \E h \in (m + 1)..(k - 1) : \E r \in 1..nuniq : words[r].word = t[q + h - 1]
        <5> DEFINE h == crd[l].pos - q + 1
        <5>1. crd[l].pos \in 1..Len(t)
          BY DEF CoordsUpTo
        <5>2. h \in (m + 1)..(k - 1) /\ q + h - 1 = crd[l].pos
          <6> DEFINE pos == crd[l].pos
          <6>1. pos \in Nat /\ at < pos /\ pos < at + d
            BY <4>2, <5>1
          <6> HIDE DEF pos
          <6>2. q + m - 1 < pos /\ pos < q + k - 1 /\ m \in Int /\ k \in Int /\ q \in Int
            BY <1>1, <1>2, <3>2, <3>3, <6>1
          <6>3. pos - q + 1 \in (m + 1)..(k - 1) /\ q + (pos - q + 1) - 1 = pos
            BY <6>1, <6>2
          <6> QED BY <6>3 DEF pos
        <5>3. crd[l].order \in 1..nuniq /\ words[crd[l].order].word = t[crd[l].pos]
          <6>1. \A pp, oo : (\E c \in 1..Len(crd) : crd[c].pos = pp /\ crd[c].order = oo)
                              => oo \in 1..nuniq /\ words[oo].word = t[pp]
            BY <1>0
          <6> QED BY <6>1
        <5> HIDE DEF h
        <5> QED BY <5>2, <5>3
      <4> QED BY <4>1, <4>2
    <3>7. Stands(p, t, q, k) <=>
             /\ q + k - 1 \in 1..Len(t) /\ words[o].word = t[q + k - 1]
             /\ \A h \in (m + 1)..(k - 1) : \A r \in 1..nuniq : words[r].word # t[q + h - 1]
      <4>0. Stands(p, t, q, k - 1)
        BY <1>3, <2>3
      <4>1. ASSUME Stands(p, t, q, k)
            PROVE  /\ q + k - 1 \in 1..Len(t) /\ words[o].word = t[q + k - 1]
                   /\ \A h \in (m + 1)..(k - 1) : \A r \in 1..nuniq :
                         words[r].word # t[q + h - 1]
        <5>1. k \in 1..k
          BY <1>1
        <5>2. q + k - 1 \in 1..Len(t) /\ words[o].word = t[q + k - 1]
          BY <1>6, <4>1, <5>1 DEF Stands, o
        <5>3. ASSUME NEW h \in (m + 1)..(k - 1), NEW r \in 1..nuniq
              PROVE  words[r].word # t[q + h - 1]
          <6>1. p[h].cmd = "STOP" /\ h \in 1..k /\ k \in (h + 1)..k
            BY <1>1, <1>2 DEF m
          <6> QED BY <1>6, <4>1, <6>1 DEF Stands
        <5> QED BY <5>2, <5>3
      <4>2. ASSUME q + k - 1 \in 1..Len(t), words[o].word = t[q + k - 1],
                   \A h \in (m + 1)..(k - 1) : \A r \in 1..nuniq : words[r].word # t[q + h - 1]
            PROVE  Stands(p, t, q, k)
        <5>1. ASSUME NEW h \in 1..k, p[h].cmd = "WORD"
              PROVE  q + h - 1 \in 1..Len(t) /\ words[p[h].arg].word = t[q + h - 1]
          <6>1. CASE h = k
            BY <4>2, <6>1 DEF o
          <6>2. CASE h # k
            <7>1. h \in 1..(k - 1)
              BY <1>1, <6>2
            <7> QED BY <4>0, <5>1, <7>1 DEF Stands
          <6> QED BY <6>1, <6>2
        <5>2. ASSUME NEW h \in 1..k, NEW g \in (h + 1)..k, p[h].cmd = "STOP", p[g].cmd = "WORD",
                     NEW r \in 1..nuniq
              PROVE  words[r].word # t[q + h - 1]
          <6>1. h \in 1..(k - 1)
            BY <1>1
          <6>2. CASE h > m
            <7>1. h \in (m + 1)..(k - 1)
              BY <1>1, <1>2, <6>1, <6>2 DEF m
            <7> QED BY <4>2, <7>1
          <6>3. CASE ~(h > m)
            <7>1. h # m
              BY <1>2, <5>2 DEF m
            <7>2. m \in (h + 1)..(k - 1) /\ p[m].cmd = "WORD"
              BY <1>1, <1>2, <6>1, <6>3, <7>1 DEF m
            <7> QED BY <4>0, <5>2, <6>1, <7>2 DEF Stands
          <6> QED BY <6>2, <6>3
        <5> QED BY <5>1, <5>2 DEF Stands
      <4> QED BY <4>1, <4>2
    <3>8. y # 0 <=> Stands(p, t, q, k)
      BY <3>4, <3>5, <3>6, <3>7
    <3>9. Placed(crd, t, p, q, y, k)
      BY <2>1, <3>3, <3>4, <3>8 DEF Placed
    <3> QED BY <3>9 DEF y
  <2> QED BY <2>2, <2>3
<1> QED BY <1>1, <1>5, <1>6

\* Tried from one coordinate, a phrase is found when it stands there.
LEMMA PhraseTried ==
    ASSUME NEW p, Pattern(p), NEW t, Len(t) \in Nat, nuniq \in Nat,
           NEW crd, CoordsUpTo(crd, t, Len(t)), NEW first \in 1..Len(crd),
           crd[first].order = p[1].arg
    PROVE  LET place[k \in DOMAIN p] ==
                 IF k = 1 THEN first
                 ELSE IF p[k].cmd = "STOP" \/ place[k - 1] = 0 THEN place[k - 1]
                 ELSE Behind(crd, place[k - 1], Delta(p, k), p[k].arg)
           IN  place[Len(p)] # 0 <=> Stands(p, t, crd[first].pos, Len(p))
<1> DEFINE N == Len(p)
           q == crd[first].pos
           Rec(h) == h = [k \in DOMAIN p |->
                            IF k = 1 THEN first
                            ELSE IF p[k].cmd = "STOP" \/ h[k - 1] = 0 THEN h[k - 1]
                            ELSE Behind(crd, h[k - 1], Delta(p, k), p[k].arg)]
           place == CHOOSE h : Rec(h)
           Try(x, k) == NextPlace(crd, p, x, k)
<1>1. N \in Nat \ {0} /\ DOMAIN p = 1..N /\ p[1].cmd = "WORD" /\ 1 \in 1..N
  BY DEF Pattern
<1>2. /\ q \in 1..Len(t) /\ Len(crd) \in Nat
      /\ p[1].arg \in 1..nuniq /\ words[p[1].arg].word = t[q]
  <2>1. \A pp, oo : (\E l \in 1..Len(crd) : crd[l].pos = pp /\ crd[l].order = oo)
                      <=> pp \in 1..Len(t) /\ oo \in 1..nuniq /\ words[oo].word = t[pp]
    BY Zenon DEF CoordsUpTo
  <2>2. (\E l \in 1..Len(crd) : crd[l].pos = q /\ crd[l].order = p[1].arg)
           <=> q \in 1..Len(t) /\ p[1].arg \in 1..nuniq /\ words[p[1].arg].word = t[q]
    <3> DEFINE o == p[1].arg
    <3> HIDE DEF q, o
    <3>1. (\E l \in 1..Len(crd) : crd[l].pos = q /\ crd[l].order = o)
             <=> q \in 1..Len(t) /\ o \in 1..nuniq /\ words[o].word = t[q]
      BY <2>1
    <3> QED BY <3>1 DEF o
  <2>3. crd \in Seq(CrdSet)
    BY DEF CoordsUpTo
  <2> QED BY <2>2, <2>3
<1> HIDE DEF q
<1>3. Placed(crd, t, p, q, first, 1)
  <2>1. LastWord(p, 1) = 1
    BY <1>1, LastWordFacts
  <2>2. Stands(p, t, q, 1)
    <3>1. \A h \in 1..1 : h = 1
      OBVIOUS
    <3>2. q + 1 - 1 = q
      BY <1>2
    <3>3. \A h \in 1..1 : \A g \in (h + 1)..1 : FALSE
      OBVIOUS
    <3> QED BY <1>2, <3>1, <3>2, <3>3 DEF Stands
  <2>3. q = q + 1 - 1 /\ first # 0 /\ first \in 0..Len(crd)
    BY <1>2
  <2> QED BY <2>1, <2>2, <2>3 DEF Placed, q
<1> HIDE DEF N
<1>4. ASSUME NEW k \in 2..N, NEW x, Placed(crd, t, p, q, x, k - 1)
      PROVE  Placed(crd, t, p, q, Try(x, k), k)
  BY <1>2, <1>4, PlacedStep DEF N
<1>5. \E f : f[1] = first /\ f = [k \in 1..N |-> f[k]] /\ \A k \in 2..N : f[k] = Try(f[k - 1], k)
  <2> DEFINE S == 0..Len(crd)
             F == [z \in S \X Nat |-> IF Try(z[1], z[2] + 2) \in S THEN Try(z[1], z[2] + 2) ELSE 0]
             M == N - 1
  <2>1. F \in Steps(S) /\ first \in S /\ M \in Nat
    <3>1. 0 \in S /\ first \in S /\ M \in Nat
      BY <1>1, <1>2
    <3> HIDE DEF S
    <3> QED BY <3>1 DEF Steps
  <2> HIDE DEF F, S, M, Try
  <2>2. PICK g : Follows(g, S, first, F, M)
    BY <2>1, BoundedRecursion
  <2>3. /\ g \in [0..M -> S] /\ g[0] = first
        /\ \A k \in 1..M : g[k] = F[<<g[k - 1], k - 1>>]
    BY <2>2 DEF Follows
  <2> DEFINE f == [k \in 1..N |-> g[k - 1]]
  <2>4. f[1] = first /\ f = [k \in 1..N |-> f[k]] /\ \A k \in 1..N : f[k] \in S
    BY <1>1, <2>3 DEF M
  <2>5. ASSUME NEW k \in 2..N, Try(f[k - 1], k) \in S
        PROVE  f[k] = Try(f[k - 1], k)
    <3>1. /\ k - 1 \in 1..M /\ k \in 1..N /\ k - 1 \in 1..N /\ (k - 1) - 1 \in Nat
          /\ ((k - 1) - 1) + 2 = k
      BY <1>1 DEF M
    <3>2. f[k] = g[k - 1] /\ f[k - 1] = g[(k - 1) - 1]
      BY <3>1
    <3>3. g[k - 1] = F[<<g[(k - 1) - 1], (k - 1) - 1>>]
      BY <2>3, <3>1
    <3>4. f[k - 1] \in S
      BY <2>4, <3>1
    <3>5. <<f[k - 1], (k - 1) - 1>> \in S \X Nat
      BY <3>1, <3>4
    <3> HIDE DEF f
    <3>6. F[<<f[k - 1], (k - 1) - 1>>] = Try(f[k - 1], k)
      BY <2>5, <3>1, <3>5 DEF F
    <3> QED BY <3>2, <3>3, <3>6
  <2> HIDE DEF f
  <2> DEFINE Good == {k \in 0..M : Placed(crd, t, p, q, f[k + 1], k + 1)}
  <2>6. 0 \in Good
    BY <1>3, <2>1, <2>4
  <2>7. ASSUME NEW k \in 1..M, k - 1 \in Good PROVE k \in Good
    <3>1. k + 1 \in 2..N /\ (k + 1) - 1 = k /\ (k - 1) + 1 = k /\ k \in 0..M
      BY <1>1 DEF M
    <3>2. Placed(crd, t, p, q, f[k], k)
      BY <2>7, <3>1
    <3>3. Placed(crd, t, p, q, Try(f[k], k + 1), k + 1)
      BY <1>4, <3>1, <3>2
    <3>4. Try(f[k], k + 1) \in S
      BY <3>3 DEF Placed, S
    <3>5. f[k + 1] = Try(f[k], k + 1)
      BY <2>5, <3>1, <3>4
    <3> QED BY <3>1, <3>3, <3>5
  <2>8. 0..M \subseteq Good
    <3> HIDE DEF Good
    <3> QED BY <2>1, <2>6, <2>7, BoundedInduction, Zenon
  <2>9. ASSUME NEW k \in 2..N PROVE f[k] = Try(f[k - 1], k)
    <3>1. k - 2 \in 0..M /\ (k - 2) + 1 = k - 1
      BY <1>1 DEF M
    <3>2. Placed(crd, t, p, q, f[k - 1], k - 1)
      BY <2>8, <3>1
    <3>3. Placed(crd, t, p, q, Try(f[k - 1], k), k)
      BY <1>4, <3>2
    <3> QED BY <2>5, <3>3 DEF Placed, S
  <2> QED BY <2>4, <2>9
<1>6. PICK f : f[1] = first /\ f = [k \in 1..N |-> f[k]] /\ \A k \in 2..N : f[k] = Try(f[k - 1], k)
  BY <1>5
<1> DEFINE Body(h, k) == IF k = 1 THEN first ELSE Try(h[k - 1], k)
<1>7. \A h : Rec(h) <=> h = [k \in 1..N |-> Body(h, k)]
  BY <1>1 DEF NextPlace
<1>8. Rec(f)
  <2>1. \A k \in 1..N : f[k] = Body(f, k)
    <3> SUFFICES ASSUME NEW k \in 1..N PROVE f[k] = Body(f, k)
      OBVIOUS
    <3>1. k = 1 \/ k \in 2..N
      BY <1>1
    <3>2. CASE k = 1
      BY <1>6, <3>2
    <3>3. CASE k # 1
      BY <1>6, <3>1, <3>3
    <3> QED BY <3>2, <3>3
  <2> HIDE DEF Body, Rec
  <2> QED BY <1>6, <1>7, <2>1
<1>9. Rec(place)
  <2> HIDE DEF Rec
  <2> QED BY <1>8
<1> HIDE DEF Rec, place
<1>10. place = [k \in 1..N |-> Body(place, k)]
  BY <1>7, <1>9
<1>11. place[1] = first /\ \A k \in 2..N : place[k] = Try(place[k - 1], k)
  <2>1. \A k \in 1..N : place[k] = Body(place, k)
    <3> HIDE DEF Body
    <3> QED BY <1>10
  <2> HIDE DEF Try
  <2> QED BY <1>1, <2>1
<1>12. Placed(crd, t, p, q, place[N], N)
  <2> DEFINE M == N - 1
             Good == {k \in 0..M : Placed(crd, t, p, q, place[k + 1], k + 1)}
  <2>1. 0 \in Good /\ M \in Nat
    BY <1>1, <1>3, <1>11
  <2>2. ASSUME NEW k \in 1..M, k - 1 \in Good PROVE k \in Good
    <3>1. k + 1 \in 2..N /\ (k + 1) - 1 = k /\ (k - 1) + 1 = k /\ k \in 0..M
      BY <1>1
    <3>2. Placed(crd, t, p, q, place[k], k)
      BY <2>2, <3>1
    <3> HIDE DEF Try
    <3>3. Placed(crd, t, p, q, Try(place[k], k + 1), k + 1)
      BY <1>4, <3>1, <3>2
    <3> QED BY <1>11, <3>1, <3>3
  <2>3. 0..M \subseteq Good
    <3> HIDE DEF Good, M
    <3> QED BY <2>1, <2>2, BoundedInduction, Zenon
  <2>4. M \in 0..M /\ M + 1 = N
    BY <1>1
  <2> QED BY <2>3, <2>4
<1>13. place[N] # 0 <=> Stands(p, t, q, N)
  BY <1>12 DEF Placed
<1> QED BY <1>13 DEF place, Rec, q, N

LEMMA PhraseChecked ==
    ASSUME NEW p, Pattern(p), NEW t, Len(t) \in Nat, nuniq \in Nat
    PROVE  CheckOnePhrase(Coords(t), p) <=> \E q \in 1..Len(t) : Stands(p, t, q, Len(p))
<1> DEFINE crd == Coords(t)
<1>1. CoordsUpTo(crd, t, Len(t))
  BY CoordsFacts
<1> HIDE DEF crd
<1>2. DOMAIN crd = 1..Len(crd) /\ \A k \in 1..Len(crd) : crd[k].pos \in 1..Len(t)
  <2>1. crd \in Seq(CrdSet)
    BY <1>1 DEF CoordsUpTo
  <2> QED BY <1>1, <2>1 DEF CoordsUpTo
<1>3. CheckOnePhrase(crd, p) <=>
        \E first \in 1..Len(crd) : crd[first].order = p[1].arg /\ Stands(p, t, crd[first].pos, Len(p))
  <2> DEFINE Found1(first) ==
               LET place[k \in DOMAIN p] ==
                     IF k = 1 THEN first
                     ELSE IF p[k].cmd = "STOP" \/ place[k - 1] = 0 THEN place[k - 1]
                     ELSE Behind(crd, place[k - 1], Delta(p, k), p[k].arg)
               IN  place[Len(p)] # 0
  <2>1. CheckOnePhrase(crd, p) <=>
          \E first \in 1..Len(crd) : crd[first].order = p[1].arg /\ Found1(first)
    BY <1>2 DEF CheckOnePhrase
  <2>2. ASSUME NEW first \in 1..Len(crd), crd[first].order = p[1].arg
        PROVE  Found1(first) <=> Stands(p, t, crd[first].pos, Len(p))
    BY <1>1, <2>2, PhraseTried
  <2> HIDE DEF Found1
  <2> QED BY <2>1, <2>2
<1>4. ASSUME NEW q \in 1..Len(t), Stands(p, t, q, Len(p))
      PROVE  \E first \in 1..Len(crd) : crd[first].order = p[1].arg /\ Stands(p, t, crd[first].pos, Len(p))
  <2>1. p[1].cmd = "WORD" /\ 1 \in 1..Len(p) /\ p[1].arg \in 1..nuniq /\ q + 1 - 1 = q
    BY DEF Pattern
  <2>2. words[p[1].arg].word = t[q]
    BY <1>4, <2>1 DEF Stands
  <2>3. \A pp, oo : (\E l \in 1..Len(crd) : crd[l].pos = pp /\ crd[l].order = oo)
                      <=> pp \in 1..Len(t) /\ oo \in 1..nuniq /\ words[oo].word = t[pp]
    BY <1>1, Zenon DEF CoordsUpTo
  <2>4. (\E l \in 1..Len(crd) : crd[l].pos = q /\ crd[l].order = p[1].arg)
           <=> q \in 1..Len(t) /\ p[1].arg \in 1..nuniq /\ words[p[1].arg].word = t[q]
    BY <2>3
  <2> QED BY <1>4, <2>1, <2>2, <2>4
<1>5. CheckOnePhrase(crd, p) <=> \E q \in 1..Len(t) : Stands(p, t, q, Len(p))
  BY <1>2, <1>3, <1>4
<1> QED BY <1>5 DEF crd

\* The stop words at the front of a phrase stand for nothing.
LEMMA PhraseStands ==
    ASSUME NEW c, Len(c) \in Nat \ {0}, DOMAIN c = 1..Len(c),
           \A j \in 1..Len(c) : c[j].cmd \in {"WORD", "STOP"},
           NEW k \in 1..Len(c), c[k].cmd = "WORD", \A j \in 1..(k - 1) : c[j].cmd = "STOP",
           NEW p, Pattern(p), Len(p) = Len(c) - k + 1,
           \A h \in 1..Len(p) : p[h] = c[h + k - 1],
           NEW t, Len(t) \in Nat, DOMAIN t = 1..Len(t), nuniq \in Nat, DOMAIN words = 1..nuniq
    PROVE  PhraseIn(c, t) <=> \E q \in 1..Len(t) : Stands(p, t, q, Len(p))
<1> DEFINE L == Len(c)
           Fits(off, j) ==
             IF c[j].cmd = "WORD"
             THEN off + j \in DOMAIN t /\ t[off + j] = words[c[j].arg].word
             ELSE \/ off + j \notin DOMAIN t
                  \/ \A i \in 1..(j - 1) : c[i].cmd = "STOP"
                  \/ \A i \in (j + 1)..L : c[i].cmd = "STOP"
                  \/ \A o \in DOMAIN words : words[o].word # t[off + j]
<1>1. PhraseIn(c, t) <=> \E off \in -L..Len(t) : \A j \in 1..L : Fits(off, j)
  BY DEF PhraseIn
<1>2. L \in Nat \ {0} /\ k \in 1..L /\ Len(p) = L - k + 1
  OBVIOUS
<1> HIDE DEF L
<1>3. ASSUME NEW off \in -L..Len(t), \A j \in 1..L : Fits(off, j)
      PROVE  \E q \in 1..Len(t) : Stands(p, t, q, Len(p))
  <2> DEFINE q == off + k
  <2>1. q \in 1..Len(t)
    <3>1. Fits(off, k)
      BY <1>2, <1>3
    <3> QED BY <3>1
  <2>2. ASSUME NEW h \in 1..Len(p), p[h].cmd = "WORD"
        PROVE  q + h - 1 \in 1..Len(t) /\ words[p[h].arg].word = t[q + h - 1]
    <3> DEFINE j == h + k - 1
    <3>1. j \in 1..L /\ off + j = q + h - 1
      BY <1>2
    <3>2. p[h] = c[j]
      OBVIOUS
    <3> HIDE DEF j, q
    <3>3. Fits(off, j)
      BY <1>3, <3>1
    <3> QED BY <2>2, <3>1, <3>2, <3>3
  <2>3. ASSUME NEW h \in 1..Len(p), NEW g \in (h + 1)..Len(p), p[h].cmd = "STOP",
               p[g].cmd = "WORD", NEW o \in 1..nuniq
        PROVE  words[o].word # t[q + h - 1]
    <3> DEFINE j == h + k - 1
               i == g + k - 1
    <3>1. /\ j \in 1..L /\ p[h] = c[j] /\ off + j = q + h - 1
          /\ i \in (j + 1)..L /\ p[g] = c[i] /\ off + i = q + g - 1
      BY <1>2
    <3>2. h # 1
      BY <2>3 DEF Pattern
    <3>3. k \in 1..(j - 1)
      BY <1>2, <3>2
    <3>4. q + g - 1 \in 1..Len(t)
      <4>1. g \in 1..Len(p)
        BY <1>2
      <4> HIDE DEF q, i, j
      <4> QED BY <4>1, <2>2, <2>3
    <3>5. q + h - 1 \in 1..Len(t)
      <4>1. h \in Nat \ {0} /\ g \in Nat /\ h < g
        BY <1>2
      <4> HIDE DEF q, i, j
      <4> QED BY <4>1, <2>1, <3>4
    <3> HIDE DEF i, j, q
    <3>6. Fits(off, j)
      <4> HIDE DEF Fits
      <4> QED BY <1>3, <3>1
    <3>7. c[j].cmd = "STOP" /\ c[i].cmd = "WORD"
      BY <2>3, <3>1
    <3>8. /\ off + j \in DOMAIN t
          /\ k \in 1..(j - 1) /\ c[k].cmd # "STOP"
          /\ i \in (j + 1)..L /\ c[i].cmd # "STOP"
          /\ c[j].cmd # "WORD"
      BY <3>1, <3>3, <3>5, <3>7
    <3>9. \A r \in DOMAIN words : words[r].word # t[off + j]
      BY <3>6, <3>8
    <3> QED BY <3>1, <3>9
  <2>4. Stands(p, t, q, Len(p))
    <3> HIDE DEF q
    <3> QED BY <2>2, <2>3 DEF Stands
  <2> QED BY <2>1, <2>4
<1>4. ASSUME NEW q \in 1..Len(t), Stands(p, t, q, Len(p))
      PROVE  \E off \in -L..Len(t) : \A j \in 1..L : Fits(off, j)
  <2> DEFINE off == q - k
  <2>1. off \in -L..Len(t)
    BY <1>2
  <2>2. ASSUME NEW j \in 1..L PROVE Fits(off, j)
    <3>1. c[j].cmd \in {"WORD", "STOP"}
      BY DEF L
    <3>2. CASE j < k
      <4>1. c[j].cmd = "STOP" /\ \A i \in 1..(j - 1) : c[i].cmd = "STOP"
        BY <1>2, <3>2
      <4> QED BY <4>1
    <3>3. CASE j >= k
      <4> DEFINE h == j - k + 1
      <4>1. h \in 1..Len(p) /\ p[h] = c[j] /\ off + j = q + h - 1
        <5>1. h \in 1..Len(p) /\ h + k - 1 = j /\ off + j = q + h - 1
          BY <1>2, <3>3
        <5> QED BY <5>1
      <4> HIDE DEF h, off
      <4>2. CASE c[j].cmd = "WORD"
        <5>1. q + h - 1 \in 1..Len(t) /\ words[p[h].arg].word = t[q + h - 1]
          BY <1>4, <4>1, <4>2 DEF Stands
        <5> QED BY <4>1, <4>2, <5>1
      <4>3. CASE c[j].cmd = "STOP" /\ \A i \in (j + 1)..L : c[i].cmd = "STOP"
        BY <4>3
      <4>4. CASE c[j].cmd = "STOP" /\ ~\A i \in (j + 1)..L : c[i].cmd = "STOP"
        <5>1. PICK i \in (j + 1)..L : c[i].cmd # "STOP"
          BY <4>4
        <5>2. c[i].cmd = "WORD"
          <6>1. i \in 1..Len(c)
            BY <1>2 DEF L
          <6> QED BY <5>1, <6>1
        <5> DEFINE g == i - k + 1
        <5>3. g \in (h + 1)..Len(p) /\ p[g] = c[i]
          <6>1. g \in (h + 1)..Len(p) /\ g \in 1..Len(p) /\ g + k - 1 = i
            BY <1>2, <3>3 DEF h
          <6> QED BY <6>1
        <5> HIDE DEF g
        <5>4. \A o \in 1..nuniq : words[o].word # t[q + h - 1]
          BY <1>4, <4>1, <4>4, <5>2, <5>3 DEF Stands
        <5> QED BY <4>1, <4>4, <5>4
      <4> QED BY <3>1, <4>2, <4>3, <4>4
    <3> QED BY <1>2, <3>2, <3>3
  <2> HIDE DEF off, Fits
  <2> QED BY <2>1, <2>2
<1> HIDE DEF Fits
<1> QED BY <1>1, <1>3, <1>4

\* A word outside of phrases, a stop word outside of phrases, or a phrase.
Operand(list, k) == ~InPhrase(list, k) /\ list[k].cmd \in {"WORD", "STOP", "PHRASE"}

Holds(list, t, k) ==
  /\ list[k].cmd = "WORD" => Has(t, list[k].arg)
  /\ list[k].cmd = "PHRASE" => \A l \in DOMAIN list :
        Quotes(list, k, l) => PhraseIn(SubSeq(list, k + 1, l - 1), t)

\* A list whose operators are all ANDs, and a list of words and ORs only.
Conjunctive(list) ==
  \A k \in 1..Len(list) : list[k].cmd \notin {"OR", "NOT"} /\ (mode = "any" => ~NeedsCmd(list, k))
Disjunctive(list) ==
  mode = "any" /\ \A k \in 1..Len(list) : list[k].cmd \notin {"AND", "NOT"}

\* What the operands from item i to item j come to.
Summed(list, t, i, j) ==
  IF Conjunctive(list)
  THEN \A k \in i..j : Operand(list, k) => Holds(list, t, k)
  ELSE \E k \in i..j : Operand(list, k) /\ Holds(list, t, k)

LEMMA SummedParts ==
    ASSUME NEW list, NEW t, NEW i \in Int, NEW j \in Int, NEW a \in Int, NEW b \in Int,
           i <= a, a < b, b <= j, \A k \in (a + 1)..(b - 1) : ~Operand(list, k)
    PROVE  Summed(list, t, i, j)
              <=> IF Conjunctive(list) THEN Summed(list, t, i, a) /\ Summed(list, t, b, j)
                  ELSE Summed(list, t, i, a) \/ Summed(list, t, b, j)
<1>1. /\ \A k \in i..a : k \in i..j
      /\ \A k \in b..j : k \in i..j
      /\ \A k \in i..j : k \in i..a \/ k \in b..j \/ k \in (a + 1)..(b - 1)
  OBVIOUS
<1>2. CASE Conjunctive(list)
  BY <1>1, <1>2 DEF Summed
<1>3. CASE ~Conjunctive(list)
  BY <1>1, <1>3 DEF Summed
<1> QED BY <1>2, <1>3

LEMMA SummedInner ==
    ASSUME NEW list, NEW t, NEW i \in Int, NEW j \in Int, NEW a \in Int, NEW b \in Int,
           i <= a, b <= j, \A k \in i..j : k \in a..b \/ ~Operand(list, k)
    PROVE  Summed(list, t, i, j) <=> Summed(list, t, a, b)
<1>1. \A k \in a..b : k \in i..j
  OBVIOUS
<1>2. CASE Conjunctive(list)
  BY <1>1, <1>2 DEF Summed
<1>3. CASE ~Conjunctive(list)
  BY <1>1, <1>3 DEF Summed
<1> QED BY <1>2, <1>3

LEMMA SummedOne ==
    ASSUME NEW list, NEW t, NEW i \in Int, Operand(list, i)
    PROVE  Summed(list, t, i, i) <=> Holds(list, t, i)
<1>1. i \in i..i /\ \A k \in i..i : k = i
  OBVIOUS
<1> QED BY <1>1 DEF Summed

\* A part that begins with an operand is that operand.
LEMMA OperandPart ==
    ASSUME NEW list, Complete(list), NEW t, NEW w, NEW i, NEW j, IsPart(list, i, j),
           Single(list, i, j), list[i].cmd \in {"WORD", "STOP", "PHRASE"}
    PROVE  /\ Operand(list, i) /\ \A k \in i..j : k \in i..i \/ ~Operand(list, k)
           /\ PartMeans(list, t, w, i, j) <=> Holds(list, t, i)
<1>1. /\ i \in 1..Len(list) /\ j \in i..Len(list) /\ Len(list) \in Nat
      /\ DOMAIN list = 1..Len(list)
      /\ ~InPhrase(list, i) /\ ~InPhrase(list, j + 1)
  BY DEF IsPart, Complete
<1>2. Operand(list, i) /\ i \in Nat \ {0}
  BY <1>1 DEF Operand
<1>3. CASE list[i].cmd \in {"WORD", "STOP"}
  <2>1. i = j
    <3>1. list[i].cmd \notin {"LEFT", "RIGHT", "PHRASE"} /\ list[i].cmd \in EndsOperand
      BY <1>3 DEF EndsOperand
    <3>2. ~InPhrase(list, i + 1)
      BY <1>1, <1>2, <3>1, InPhraseStep
    <3>3. Depth(list, i) = Depth(list, i - 1)
      BY <1>2, <3>1, DepthStep
    <3>4. i \in i..j
      BY <1>1
    <3> QED BY <3>1, <3>2, <3>3, <3>4, SingleEnds
  <2>2. PartMeans(list, t, w, i, j) <=> Holds(list, t, i)
    <3>1. CASE list[i].cmd = "STOP"
      BY <3>1, MeansSingle DEF Holds
    <3>2. CASE list[i].cmd = "WORD"
      BY <3>2, MeansSingle DEF Holds
    <3> QED BY <1>3, <3>1, <3>2
  <2>3. \A k \in i..j : k \in i..i
    BY <2>1
  <2> QED BY <1>2, <2>2, <2>3
<1>4. CASE list[i].cmd = "PHRASE"
  <2>1. PICK k \in (i + 1)..j : /\ Quotes(list, i, k) /\ ~InPhrase(list, k + 1)
                                /\ \A l \in (i + 1)..k : InPhrase(list, l)
                                /\ Depth(list, k) = Depth(list, i - 1)
    BY <1>1, <1>4, PhraseEnd
  <2>2. k = j
    <3>1. k \in i..j /\ list[k].cmd \in EndsOperand
      BY <1>1, <2>1 DEF Quotes, EndsOperand
    <3> QED BY <2>1, <3>1, SingleEnds
  <2>3. \A h \in i..j : h \in i..i \/ ~Operand(list, h)
    <3>1. \A h \in i..j : h \in i..i \/ h \in (i + 1)..k
      BY <1>1, <2>2
    <3> QED BY <2>1, <3>1 DEF Operand
  <2>4. \A l \in DOMAIN list : Quotes(list, i, l) => l = j
    <3> SUFFICES ASSUME NEW l \in DOMAIN list, Quotes(list, i, l), l # k PROVE FALSE
      BY <2>2
    <3>1. l \in (i + 1)..(k - 1) \/ k \in (i + 1)..(l - 1)
      BY <1>1, <2>1 DEF Quotes
    <3> QED BY <2>1, <3>1 DEF Quotes
  <2>5. PartMeans(list, t, w, i, j) <=> PhraseIn(SubSeq(list, i + 1, j - 1), t)
    BY <1>4, MeansSingle
  <2>6. Holds(list, t, i) <=> PhraseIn(SubSeq(list, i + 1, j - 1), t)
    <3>1. j \in DOMAIN list /\ Quotes(list, i, j)
      BY <2>1, <2>2 DEF Quotes
    <3> QED BY <1>4, <2>4, <3>1 DEF Holds
  <2> QED BY <1>2, <2>3, <2>5, <2>6
<1> QED BY <1>3, <1>4

\* The parts of n items and less mean what their operands come to.
Sums(list, t, v, n) ==
  \A i, j \in 1..Len(list) :
     IsPart(list, i, j) /\ j - i + 1 <= n => (v[n][<<i, j>>] <=> Summed(list, t, i, j))

LEMMA SumsJoin ==
    ASSUME NEW list, Complete(list), NEW t, NEW v, NEW n \in 1..Len(list), Sums(list, t, v, n - 1),
           NEW i, NEW j, IsPart(list, i, j), j - i + 1 <= n,
           NEW a, NEW b, IsPart(list, i, a), IsPart(list, b, j), a < b, i <= b - 1, a + 1 <= j,
           \A k \in (a + 1)..(b - 1) : ~Operand(list, k)
    PROVE  /\ v[n - 1][<<i, a>>] <=> Summed(list, t, i, a)
           /\ v[n - 1][<<b, j>>] <=> Summed(list, t, b, j)
           /\ Summed(list, t, i, j)
                <=> IF Conjunctive(list) THEN Summed(list, t, i, a) /\ Summed(list, t, b, j)
                    ELSE Summed(list, t, i, a) \/ Summed(list, t, b, j)
<1>1. /\ i \in 1..Len(list) /\ j \in i..Len(list) /\ a \in i..Len(list) /\ b \in 1..Len(list)
      /\ j \in b..Len(list) /\ Len(list) \in Nat
  BY DEF IsPart, Complete
<1>2. /\ i \in Int /\ j \in Int /\ a \in Int /\ b \in Int /\ i <= a /\ b <= j
      /\ a \in 1..Len(list) /\ j \in 1..Len(list) /\ a - i + 1 <= n - 1 /\ j - b + 1 <= n - 1
  BY <1>1
<1> QED BY <1>1, <1>2, SummedParts DEF Sums

LEMMA SumsPair ==
    ASSUME NEW list, Complete(list), Conjunctive(list) \/ Disjunctive(list),
           NEW t, NEW v, NEW n \in 1..Len(list), Sums(list, t, v, n - 1),
           NEW i, NEW j, IsPart(list, i, j), j - i + 1 <= n, ~Single(list, i, j)
    PROVE  PartMeans(list, t, v[n - 1], i, j) <=> Summed(list, t, i, j)
<1> DEFINE w == v[n - 1]
           ors == Splits(list, i, j, "OR")
           ands == Splits(list, i, j, "AND")
           gaps == Gaps(list, i, j)
<1>1. /\ i \in 1..Len(list) /\ j \in i..Len(list) /\ Len(list) \in Nat
      /\ DOMAIN list = 1..Len(list)
  BY DEF IsPart, Complete
<1>2. /\ ors # {} => Max(ors) \in ors
      /\ ands # {} => Max(ands) \in ands
      /\ gaps # {} => Max(gaps) \in gaps
  <2>1. ors \subseteq 1..Len(list) /\ ands \subseteq 1..Len(list) /\ gaps \subseteq 1..Len(list)
    BY <1>1 DEF Splits, Gaps
  <2> HIDE DEF ors, ands, gaps
  <2> QED BY <1>1, <2>1, LastIsMax
<1>3. ASSUME NEW cmd \in {"OR", "AND"}, NEW k \in Splits(list, i, j, cmd)
      PROVE  /\ w[<<i, k - 1>>] <=> Summed(list, t, i, k - 1)
             /\ w[<<k + 1, j>>] <=> Summed(list, t, k + 1, j)
             /\ Summed(list, t, i, j)
                  <=> IF Conjunctive(list)
                      THEN Summed(list, t, i, k - 1) /\ Summed(list, t, k + 1, j)
                      ELSE Summed(list, t, i, k - 1) \/ Summed(list, t, k + 1, j)
             /\ k \in 1..Len(list) /\ list[k].cmd = cmd
  <2>1. /\ k \in (i + 1)..(j - 1)
        /\ IsPart(list, i, k - 1) /\ IsPart(list, k + 1, j)
        /\ list[k].cmd = cmd
    BY SplitParts
  <2> DEFINE a == k - 1
             b == k + 1
  <2>2. /\ a < b /\ i <= b - 1 /\ a + 1 <= j /\ k \in 1..Len(list)
        /\ \A h \in (a + 1)..(b - 1) : h = k
    BY <1>1, <2>1
  <2>3. ~Operand(list, k)
    BY <2>1 DEF Operand
  <2>4. \A h \in (a + 1)..(b - 1) : ~Operand(list, h)
    BY <2>2, <2>3
  <2>5. IsPart(list, i, a) /\ IsPart(list, b, j)
    BY <2>1
  <2> HIDE DEF a, b, w
  <2>6. /\ w[<<i, a>>] <=> Summed(list, t, i, a)
        /\ w[<<b, j>>] <=> Summed(list, t, b, j)
        /\ Summed(list, t, i, j)
             <=> IF Conjunctive(list) THEN Summed(list, t, i, a) /\ Summed(list, t, b, j)
                 ELSE Summed(list, t, i, a) \/ Summed(list, t, b, j)
    BY <2>2, <2>4, <2>5, SumsJoin DEF w
  <2> QED BY <2>1, <2>2, <2>6 DEF a, b
<1>4. ASSUME NEW k \in gaps
      PROVE  /\ w[<<i, k - 1>>] <=> Summed(list, t, i, k - 1)
             /\ w[<<k, j>>] <=> Summed(list, t, k, j)
             /\ Summed(list, t, i, j)
                  <=> IF Conjunctive(list)
                      THEN Summed(list, t, i, k - 1) /\ Summed(list, t, k, j)
                      ELSE Summed(list, t, i, k - 1) \/ Summed(list, t, k, j)
             /\ k \in 1..Len(list) /\ NeedsCmd(list, k)
  <2>1. /\ k \in (i + 1)..j
        /\ IsPart(list, i, k - 1) /\ IsPart(list, k, j)
        /\ NeedsCmd(list, k)
    BY GapParts
  <2> DEFINE a == k - 1
  <2>2. /\ a < k /\ i <= k - 1 /\ a + 1 <= j /\ k \in 1..Len(list)
        /\ \A h \in (a + 1)..(k - 1) : FALSE
    BY <1>1, <2>1
  <2>3. IsPart(list, i, a)
    BY <2>1
  <2> HIDE DEF a, w
  <2>4. /\ w[<<i, a>>] <=> Summed(list, t, i, a)
        /\ w[<<k, j>>] <=> Summed(list, t, k, j)
        /\ Summed(list, t, i, j)
             <=> IF Conjunctive(list) THEN Summed(list, t, i, a) /\ Summed(list, t, k, j)
                 ELSE Summed(list, t, i, a) \/ Summed(list, t, k, j)
    BY <2>1, <2>2, <2>3, SumsJoin DEF w
  <2> QED BY <2>1, <2>2, <2>4 DEF a
<1> HIDE DEF w
<1>5. CASE ors # {}
  <2> DEFINE k == Max(ors)
  <2>1. PartMeans(list, t, w, i, j) <=> w[<<i, k - 1>>] \/ w[<<k + 1, j>>]
    BY <1>5, MeansSplit
  <2>2. k \in Splits(list, i, j, "OR")
    BY <1>2, <1>5
  <2> HIDE DEF k
  <2>3. /\ w[<<i, k - 1>>] <=> Summed(list, t, i, k - 1)
        /\ w[<<k + 1, j>>] <=> Summed(list, t, k + 1, j)
        /\ Summed(list, t, i, j)
             <=> IF Conjunctive(list)
                 THEN Summed(list, t, i, k - 1) /\ Summed(list, t, k + 1, j)
                 ELSE Summed(list, t, i, k - 1) \/ Summed(list, t, k + 1, j)
        /\ k \in 1..Len(list) /\ list[k].cmd = "OR"
    BY <1>3, <2>2
  <2>4. ~Conjunctive(list)
    BY <2>3 DEF Conjunctive
  <2> QED BY <2>1, <2>3, <2>4, Zenon DEF w
<1>6. CASE ors = {} /\ mode = "any" /\ gaps # {}
  <2> DEFINE k == Max(gaps)
  <2>1. PartMeans(list, t, w, i, j) <=> w[<<i, k - 1>>] \/ w[<<k, j>>]
    BY <1>6, MeansSplit
  <2>2. k \in gaps
    BY <1>2, <1>6
  <2> HIDE DEF k
  <2>3. /\ w[<<i, k - 1>>] <=> Summed(list, t, i, k - 1)
        /\ w[<<k, j>>] <=> Summed(list, t, k, j)
        /\ Summed(list, t, i, j)
             <=> IF Conjunctive(list)
                 THEN Summed(list, t, i, k - 1) /\ Summed(list, t, k, j)
                 ELSE Summed(list, t, i, k - 1) \/ Summed(list, t, k, j)
        /\ k \in 1..Len(list) /\ NeedsCmd(list, k)
    BY <1>4, <2>2
  <2>4. ~Conjunctive(list)
    BY <1>6, <2>3 DEF Conjunctive
  <2> QED BY <2>1, <2>3, <2>4, Zenon DEF w
<1>7. CASE ors = {} /\ ands # {} /\ ~(mode = "any" /\ gaps # {})
  <2> DEFINE k == Max(ands)
  <2>1. PartMeans(list, t, w, i, j) <=> w[<<i, k - 1>>] /\ w[<<k + 1, j>>]
    BY <1>7, MeansSplit
  <2>2. k \in Splits(list, i, j, "AND")
    BY <1>2, <1>7
  <2> HIDE DEF k
  <2>3. /\ w[<<i, k - 1>>] <=> Summed(list, t, i, k - 1)
        /\ w[<<k + 1, j>>] <=> Summed(list, t, k + 1, j)
        /\ Summed(list, t, i, j)
             <=> IF Conjunctive(list)
                 THEN Summed(list, t, i, k - 1) /\ Summed(list, t, k + 1, j)
                 ELSE Summed(list, t, i, k - 1) \/ Summed(list, t, k + 1, j)
        /\ k \in 1..Len(list) /\ list[k].cmd = "AND"
    BY <1>3, <2>2
  <2>4. Conjunctive(list)
    BY <2>3 DEF Disjunctive
  <2> QED BY <2>1, <2>3, <2>4, Zenon DEF w
<1>8. CASE ors = {} /\ ands = {} /\ mode # "any" /\ gaps # {}
  <2> DEFINE k == Max(gaps)
  <2>1. PartMeans(list, t, w, i, j) <=> w[<<i, k - 1>>] /\ w[<<k, j>>]
    BY <1>8, MeansSplit
  <2>2. k \in gaps
    BY <1>2, <1>8
  <2> HIDE DEF k
  <2>3. /\ w[<<i, k - 1>>] <=> Summed(list, t, i, k - 1)
        /\ w[<<k, j>>] <=> Summed(list, t, k, j)
        /\ Summed(list, t, i, j)
             <=> IF Conjunctive(list)
                 THEN Summed(list, t, i, k - 1) /\ Summed(list, t, k, j)
                 ELSE Summed(list, t, i, k - 1) \/ Summed(list, t, k, j)
    BY <1>4, <2>2
  <2>4. Conjunctive(list)
    BY <1>8 DEF Disjunctive
  <2> QED BY <2>1, <2>3, <2>4, Zenon DEF w
<1>9. CASE ors = {} /\ ands = {} /\ gaps = {}
  BY <1>9 DEF Single
<1> QED BY <1>5, <1>6, <1>7, <1>8, <1>9

LEMMA SumsSingle ==
    ASSUME NEW list, Complete(list), Conjunctive(list) \/ Disjunctive(list),
           NEW t, NEW v, NEW n \in 1..Len(list), Sums(list, t, v, n - 1),
           NEW i, NEW j, IsPart(list, i, j), j - i + 1 <= n, Single(list, i, j)
    PROVE  PartMeans(list, t, v[n - 1], i, j) <=> Summed(list, t, i, j)
<1> DEFINE w == v[n - 1]
<1>1. /\ i \in 1..Len(list) /\ j \in i..Len(list) /\ Len(list) \in Nat
      /\ DOMAIN list = 1..Len(list) /\ i \in Int /\ j \in Int /\ i <= j
      /\ list[i].cmd \in StartsOperand
  BY DEF IsPart, Complete
<1>2. list[i].cmd # "NOT"
  BY <1>1 DEF Conjunctive, Disjunctive
<1>3. CASE list[i].cmd \in {"WORD", "STOP", "PHRASE"}
  <2>1. /\ Operand(list, i) /\ \A k \in i..j : k \in i..i \/ ~Operand(list, k)
        /\ PartMeans(list, t, w, i, j) <=> Holds(list, t, i)
    <3> HIDE DEF w
    <3> QED BY <1>3, OperandPart
  <2>2. Summed(list, t, i, j) <=> Summed(list, t, i, i)
    BY <1>1, <2>1, SummedInner
  <2>3. Summed(list, t, i, i) <=> Holds(list, t, i)
    BY <1>1, <2>1, SummedOne
  <2> HIDE DEF w
  <2> QED BY <2>1, <2>2, <2>3 DEF w
<1>4. CASE list[i].cmd = "LEFT"
  <2> DEFINE a == i + 1
             b == j - 1
  <2>1. list[j].cmd = "RIGHT" /\ IsPart(list, a, b)
    BY <1>4, BracketEnd
  <2>2. /\ a \in 1..Len(list) /\ b \in 1..Len(list) /\ b - a + 1 <= n - 1
        /\ a \in Int /\ b \in Int /\ i <= a /\ b <= j
        /\ \A k \in i..j : k \in a..b \/ k = i \/ k = j
    BY <1>1, <2>1 DEF IsPart
  <2>3. PartMeans(list, t, w, i, j) <=> w[<<a, b>>]
    <3> HIDE DEF w
    <3> QED BY <1>4, MeansSingle
  <2> HIDE DEF a, b
  <2>4. w[<<a, b>>] <=> Summed(list, t, a, b)
    BY <2>1, <2>2 DEF Sums
  <2>5. \A k \in i..j : k \in a..b \/ ~Operand(list, k)
    BY <1>4, <2>1, <2>2 DEF Operand
  <2>6. Summed(list, t, i, j) <=> Summed(list, t, a, b)
    BY <1>1, <2>2, <2>5, SummedInner
  <2> HIDE DEF w
  <2> QED BY <2>3, <2>4, <2>6 DEF w
<1> QED BY <1>1, <1>2, <1>3, <1>4 DEF StartsOperand

\* A query of ANDs only holds where all its operands hold, a query of ORs only
\* where one of them does.
LEMMA PlainMeans ==
    ASSUME NEW list, Complete(list), Conjunctive(list) \/ Disjunctive(list), NEW t
    PROVE  Means(list, t) <=> Summed(list, t, 1, Len(list))
<1>1. Len(list) \in Nat \ {0} /\ DOMAIN list = 1..Len(list)
  BY DEF Complete
<1>2. PICK v : Meanings(v, list, t) /\ Means(list, t) = v[Len(list)][<<1, Len(list)>>]
  BY <1>1, MeansParts
<1> DEFINE N == Len(list)
           S == {n \in 0..N : Sums(list, t, v, n)}
<1>3. 0 \in S
  <2>1. ASSUME NEW i \in 1..N, NEW j \in 1..N, IsPart(list, i, j), j - i + 1 <= 0
        PROVE  FALSE
    BY <1>1, <2>1 DEF IsPart
  <2>2. Sums(list, t, v, 0)
    BY <2>1 DEF Sums
  <2> QED BY <1>1, <2>2
<1>4. \A n \in 1..N : n - 1 \in S => n \in S
  <2> TAKE n \in 1..N
  <2>1. ASSUME Sums(list, t, v, n - 1) PROVE Sums(list, t, v, n)
    <3> SUFFICES ASSUME NEW i \in 1..N, NEW j \in 1..N, IsPart(list, i, j), j - i + 1 <= n
                 PROVE  v[n][<<i, j>>] <=> Summed(list, t, i, j)
      BY DEF Sums
    <3>1. v[n][<<i, j>>] <=> PartMeans(list, t, v[n - 1], i, j)
      <4>1. <<i, j>> \in PartsOf(list)
        BY <1>1 DEF PartsOf
      <4>2. v[n][<<i, j>>] <=> PartMeans(list, t, v[n - 1], <<i, j>>[1], <<i, j>>[2])
        BY <1>2, <4>1 DEF Meanings
      <4> QED BY <4>2
    <3>2. PartMeans(list, t, v[n - 1], i, j) <=> Summed(list, t, i, j)
      <4>1. CASE Single(list, i, j)
        BY <2>1, <4>1, SumsSingle
      <4>2. CASE ~Single(list, i, j)
        BY <2>1, <4>2, SumsPair
      <4> QED BY <4>1, <4>2
    <3> QED BY <3>1, <3>2
  <2> QED BY <1>1, <2>1
<1>5. N \in S
  <2>1. 0..N \subseteq S
    <3> HIDE DEF S
    <3> QED BY <1>1, <1>3, <1>4, BoundedInduction
  <2> QED BY <1>1, <2>1
<1>6. v[N][<<1, N>>] <=> Summed(list, t, 1, N)
  <2>1. IsPart(list, 1, N) /\ 1 \in 1..N /\ N \in 1..N /\ N - 1 + 1 <= N
    BY <1>1, WholePart
  <2> QED BY <1>5, <2>1 DEF Sums
<1> QED BY <1>2, <1>6

\* Between the quotes of a phrase are words only.
LEMMA QuotesInside ==
    ASSUME NEW list, Complete(list), NEW i, NEW j, Quotes(list, i, j)
    PROVE  /\ i \in 1..Len(list) /\ j \in 1..Len(list) /\ i < j
           /\ \A l \in (i + 1)..j : InPhrase(list, l)
           /\ \A l \in (i + 1)..(j - 1) : list[l].cmd \in {"WORD", "STOP"}
<1>1. /\ i \in 1..Len(list) /\ j \in 1..Len(list) /\ i < j /\ Len(list) \in Nat
      /\ DOMAIN list = 1..Len(list)
      /\ list[i].cmd = "PHRASE" /\ list[j].cmd = "PHRASE" /\ ~InPhrase(list, i)
      /\ \A l \in (i + 1)..(j - 1) : list[l].cmd # "PHRASE"
  BY DEF Quotes, Complete
<1>2. ~InPhrase(list, Len(list) + 1)
  BY DEF Complete
<1>3. PICK k \in (i + 1)..Len(list) : /\ Quotes(list, i, k) /\ ~InPhrase(list, k + 1)
                                      /\ \A l \in (i + 1)..k : InPhrase(list, l)
  <2>1. Len(list) \in i..Len(list)
    BY <1>1
  <2> QED BY <1>1, <1>2, <2>1, PhraseEnd
<1>4. k = j
  <2>1. k \notin (i + 1)..(j - 1) /\ j \notin (i + 1)..(k - 1)
    BY <1>1, <1>3 DEF Quotes
  <2> QED BY <1>1, <1>3, <2>1
<1>5. ASSUME NEW l \in (i + 1)..(j - 1) PROVE list[l].cmd \in {"WORD", "STOP"}
  <2>1. l \in DOMAIN list /\ l \in (i + 1)..k
    BY <1>1, <1>4
  <2>2. InOrder(list, l)
    BY <2>1 DEF Complete, Typed
  <2> QED BY <1>1, <1>3, <2>1, <2>2 DEF InOrder
<1> QED BY <1>1, <1>3, <1>4, <1>5

LEMMA QuotesUnique ==
    ASSUME NEW list, DOMAIN list = 1..Len(list), NEW i, NEW j, Quotes(list, i, j),
           NEW a, NEW b, Quotes(list, a, b), NEW l \in Int,
           i < l, l < j, a < l, l < b
    PROVE  i = a /\ j = b
<1>1. i \in Int /\ j \in Int /\ a \in Int /\ b \in Int
  BY DEF Quotes
<1>2. a \notin (i + 1)..(j - 1) /\ i \notin (a + 1)..(b - 1)
  BY DEF Quotes
<1>3. b \notin (i + 1)..(j - 1) /\ j \notin (a + 1)..(b - 1)
  BY DEF Quotes
<1> QED BY <1>1, <1>2, <1>3

\* Every item of a phrase is between two quotes.
LEMMA QuotesAround ==
    ASSUME NEW list, Complete(list), NEW l \in 1..Len(list), InPhrase(list, l),
           list[l].cmd # "PHRASE"
    PROVE  \E i, j : Quotes(list, i, j) /\ i < l /\ l < j
<1>1. DOMAIN list = 1..Len(list) /\ Len(list) \in Nat /\ ~InPhrase(list, Len(list) + 1)
  BY DEF Complete
<1> DEFINE T == {k \in 0..(l - 1) : \A h \in (k + 1)..l : InPhrase(list, h)}
<1>2. l - 1 \in T
  <2>1. \A h \in ((l - 1) + 1)..l : h = l
    BY <1>1
  <2> QED BY <1>1, <2>1
<1>4. PICK k \in T : \A h \in T : k <= h
  <2>1. T \subseteq Nat
    OBVIOUS
  <2> HIDE DEF T
  <2> QED BY <1>2, <2>1, LeastElement
<1>6. k \in 0..(l - 1) /\ \A h \in (k + 1)..l : InPhrase(list, h)
  OBVIOUS
<1>7. k # 0 /\ ~InPhrase(list, k)
  <2>1. k # 0
    <3>1. ~InPhrase(list, 1)
      BY InPhraseStep, 1 \in Nat \ {0}
    <3>2. k = 0 => 1 \in (k + 1)..l
      BY <1>1
    <3> QED BY <1>6, <3>1, <3>2
  <2>2. ASSUME InPhrase(list, k) PROVE FALSE
    <3>1. \A h \in ((k - 1) + 1)..l : h = k \/ h \in (k + 1)..l
      BY <1>6
    <3>2. k - 1 \in T
      BY <1>6, <2>1, <2>2, <3>1
    <3> HIDE DEF T
    <3> QED BY <1>4, <1>6, <3>2
  <2> QED BY <2>1, <2>2
<1> HIDE DEF T
<1>8. k \in 1..Len(list) /\ k \in Nat \ {0} /\ k + 1 \in (k + 1)..l /\ Len(list) \in k..Len(list)
  BY <1>1, <1>6, <1>7
<1>9. list[k].cmd = "PHRASE"
  <2>1. InPhrase(list, k + 1)
    BY <1>6, <1>8
  <2> QED BY <1>7, <1>8, <2>1, InPhraseStep
<1>10. PICK j \in (k + 1)..Len(list) : /\ Quotes(list, k, j) /\ ~InPhrase(list, j + 1)
                                       /\ \A h \in (k + 1)..j : InPhrase(list, h)
  BY <1>1, <1>7, <1>8, <1>9, PhraseEnd
<1>11. l < j
  <2>1. j # l
    BY <1>10 DEF Quotes
  <2>2. j + 1 \notin (k + 1)..l
    BY <1>6, <1>10
  <2> QED BY <1>6, <1>8, <1>10, <2>1, <2>2
<1> QED BY <1>6, <1>10, <1>11

\* A phrase is copied as it is.
LEMMA SpreadPhrase ==
    ASSUME NEW list, Complete(list), NEW m, NEW l, NEW place,
           Spread(list, m, l, place, Len(list)), NEW i, NEW j, Quotes(list, i, j)
    PROVE  /\ \A h \in i..j : /\ place[h] = place[i] + (h - i)
                              /\ place[h] \in 1..Len(l) /\ l[place[h]] = list[h]
           /\ Len(l) \in Nat /\ DOMAIN l = 1..Len(l)
<1>1. /\ i \in 1..Len(list) /\ j \in 1..Len(list) /\ i < j /\ Len(list) \in Nat
      /\ \A h \in (i + 1)..j : InPhrase(list, h)
  <2>1. Len(list) \in Nat
    BY DEF Complete
  <2> QED BY <2>1, QuotesInside
<1>2. \A h \in 1..Len(list) : place[h] \in 1..Len(l) /\ l[place[h]] = list[h]
  <2>1. \A h \in 1..Len(list) : place[h] \in 1..Len(l)
    BY <1>1, PlacePositive
  <2> QED BY <2>1 DEF Spread
<1>3. \A h \in (i + 1)..j : place[h] = place[h - 1] + 1
  <2> TAKE h \in (i + 1)..j
  <2>1. ~NeedsCmd(list, h) /\ h \in 1..Len(list)
    BY <1>1 DEF NeedsCmd
  <2>2. place[h] = place[h - 1] + IF NeedsCmd(list, h) THEN 2 ELSE 1
    BY <2>1 DEF Spread
  <2> QED BY <2>1, <2>2
<1>4. Len(l) \in Nat /\ DOMAIN l = 1..Len(l)
  BY <1>1 DEF Spread, Complete
<1> DEFINE S == {n \in 0..(j - i) : place[i + n] = place[i] + n}
<1>5. place[i] \in Int
  BY <1>1, <1>2, <1>4
<1>6. 0 \in S
  BY <1>1, <1>5
<1>7. ASSUME NEW n \in 1..(j - i), n - 1 \in S PROVE n \in S
  <2> DEFINE h == i + n
  <2>1. h \in (i + 1)..j /\ h - 1 = i + (n - 1) /\ n \in 0..(j - i)
    BY <1>1
  <2> HIDE DEF h
  <2>2. place[h] = place[h - 1] + 1
    BY <1>3, <2>1
  <2>3. place[h - 1] = place[i] + (n - 1)
    BY <1>7, <2>1
  <2>4. place[h] = place[i] + n
    BY <1>5, <2>1, <2>2, <2>3
  <2> QED BY <2>1, <2>4 DEF h
<1>8. 0..(j - i) \subseteq S
  <2>1. j - i \in Nat
    BY <1>1
  <2> HIDE DEF S
  <2> QED BY <1>6, <1>7, <2>1, BoundedInduction
<1>9. ASSUME NEW h \in i..j PROVE place[h] = place[i] + (h - i)
  <2>1. h - i \in 0..(j - i) /\ i + (h - i) = h
    BY <1>1
  <2>2. h - i \in S
    BY <1>8, <2>1
  <2> QED BY <2>1, <2>2
<1>10. \A h \in i..j : h \in 1..Len(list)
  BY <1>1
<1> QED BY <1>2, <1>4, <1>9, <1>10

\* Item k is the first word of the phrase between the quotes i and j.
FirstWord(list, i, j, k) ==
  /\ Quotes(list, i, j) /\ k \in (i + 1)..(j - 1) /\ list[k].cmd = "WORD"
  /\ \A h \in (i + 1)..(k - 1) : list[h].cmd # "WORD"

\* The phrase that begins with the quote q, as Phrases takes it from the list.
After(l, q, cmd) == Min({i \in (q + 1)..Len(l) : l[i].cmd = cmd})
PhraseFrom(l, q) == SubSeq(l, After(l, q, "WORD"), After(l, q, "PHRASE") - 1)

\* The items from i to k stand one behind the other in l, from at on.
Straight(list, l, place, at, i, k) ==
  /\ \A h \in i..k : place[h] = at + (h - i) /\ l[place[h]] = list[h]
  /\ place[k] \in 1..Len(l) /\ Len(l) \in Nat

\* Item k is the first of its kind behind item i.
FirstOf(list, i, k, cmd) ==
  list[k].cmd = cmd /\ \A h \in (i + 1)..(k - 1) : list[h].cmd # cmd

LEMMA FirstCopied ==
    ASSUME NEW list, NEW l, NEW i \in Int, NEW k \in Int, i < k, NEW at \in Nat,
           NEW place, Straight(list, l, place, at, i, k), NEW cmd, FirstOf(list, i, k, cmd)
    PROVE  After(l, at, cmd) = place[k]
<1> DEFINE Q == {x \in (at + 1)..Len(l) : l[x].cmd = cmd}
<1> USE DEF Straight, FirstOf
<1>1. place[k] = at + (k - i) /\ l[place[k]] = list[k]
  BY k \in i..k
<1>2. place[k] \in Q /\ Q \subseteq Nat
  BY <1>1
<1>3. Min(Q) \in Q /\ \A y \in Q : Min(Q) <= y
  <2> HIDE DEF Q
  <2> QED BY <1>2, MinIsLeast
<1>4. ASSUME Min(Q) < place[k] PROVE FALSE
  <2> DEFINE x == Min(Q)
             h == x - at + i
  <2>1. x \in (at + 1)..Len(l) /\ l[x].cmd = cmd
    BY <1>3
  <2>2. x < place[k]
    BY <1>4
  <2> HIDE DEF x
  <2>3. x \in Int /\ at < x /\ x < at + (k - i)
    BY <1>1, <2>1, <2>2
  <2>4. h \in (i + 1)..(k - 1) /\ h \in i..k /\ at + (h - i) = x
    BY <2>3
  <2> HIDE DEF h
  <2>5. place[h] = x /\ l[place[h]] = list[h] /\ list[h].cmd # cmd
    BY <2>4
  <2> QED BY <2>1, <2>5
<1>5. Min(Q) <= place[k] /\ Min(Q) \in Int /\ place[k] \in Int
  BY <1>2, <1>3
<1> HIDE DEF Q
<1>6. Min(Q) = place[k]
  BY <1>4, <1>5
<1> QED BY <1>6 DEF Q, After

LEMMA PhraseCopied ==
    ASSUME NEW S, NEW list \in Seq(S), Complete(list), NEW m, NEW l \in Seq(S), NEW place,
           Spread(list, m, l, place, Len(list)), NEW i, NEW j, NEW k, FirstWord(list, i, j, k)
    PROVE  PhraseFrom(l, place[i]) = SubSeq(list, k, j - 1)
<1>1. /\ Quotes(list, i, j) /\ k \in (i + 1)..(j - 1) /\ list[k].cmd = "WORD"
      /\ \A h \in (i + 1)..(k - 1) : list[h].cmd # "WORD"
  BY DEF FirstWord
<1>2. /\ i \in 1..Len(list) /\ j \in 1..Len(list) /\ i < j
      /\ \A x \in (i + 1)..(j - 1) : list[x].cmd \in {"WORD", "STOP"}
      /\ list[j].cmd = "PHRASE"
  BY <1>1, QuotesInside DEF Quotes
<1>3. /\ \A h \in i..j : /\ place[h] = place[i] + (h - i)
                         /\ place[h] \in 1..Len(l) /\ l[place[h]] = list[h]
      /\ Len(l) \in Nat /\ DOMAIN l = 1..Len(l)
  BY <1>1, SpreadPhrase
<1> DEFINE at == place[i]
<1>4. at \in Nat /\ i \in Int /\ j \in Int /\ k \in Int /\ i < k /\ k < j
  <2>1. i \in i..j /\ i \in Int /\ j \in Int
    BY <1>2
  <2>2. place[i] \in 1..Len(l)
    BY <1>3, <2>1
  <2>3. k \in Int /\ i < k /\ k < j
    BY <1>1, <2>1
  <2> QED BY <2>1, <2>2, <2>3
<1>5. After(l, at, "WORD") = place[k]
  <2>1. Straight(list, l, place, at, i, k)
    BY <1>3, <1>4 DEF Straight
  <2>2. FirstOf(list, i, k, "WORD")
    BY <1>1 DEF FirstOf
  <2> HIDE DEF at
  <2> QED BY <1>4, <2>1, <2>2, FirstCopied
<1>6. After(l, at, "PHRASE") = place[j]
  <2>1. Straight(list, l, place, at, i, j) /\ i < j
    BY <1>3, <1>4 DEF Straight
  <2>2. FirstOf(list, i, j, "PHRASE")
    BY <1>2 DEF FirstOf
  <2> HIDE DEF at
  <2> QED BY <1>4, <2>1, <2>2, FirstCopied
<1> DEFINE u == place[k]
           w == place[j] - 1
<1>7. /\ u = at + (k - i) /\ w = at + (j - i) - 1
      /\ u \in 1..Len(l) /\ w + 1 \in 1..Len(l) /\ u \in Int /\ w \in Int
  <2>1. k \in i..j /\ j \in i..j
    BY <1>4
  <2>2. /\ place[k] = at + (k - i) /\ place[j] = at + (j - i)
        /\ place[k] \in 1..Len(l) /\ place[j] \in 1..Len(l)
    BY <1>3, <2>1
  <2> HIDE DEF at
  <2> QED BY <1>3, <1>4, <2>2
<1>8. PhraseFrom(l, at) = SubSeq(l, u, w)
  BY <1>5, <1>6 DEF PhraseFrom
<1>9. \A x \in u..w : l[x] = list[x - at + i] /\ x - at + i \in k..(j - 1)
  <2> TAKE x \in u..w
  <2> DEFINE h == x - at + i
  <2>1. h \in i..j /\ at + (h - i) = x /\ h \in k..(j - 1)
    <3> HIDE DEF u, w, at
    <3> QED BY <1>4, <1>7
  <2> HIDE DEF h, u, w, at
  <2>2. place[h] = x /\ l[place[h]] = list[h]
    BY <1>3, <2>1 DEF at
  <2> QED BY <2>1, <2>2 DEF h
<1> HIDE DEF u, w, at
<1>10. Len(list) \in Nat /\ \A x \in k..(j - 1) : list[x] \in S
  BY <1>1, <1>2, <1>4
<1>11. /\ SubSeq(list, k, j - 1) \in Seq(S)
       /\ Len(SubSeq(list, k, j - 1)) = IF k <= j - 1 THEN j - 1 - k + 1 ELSE 0
       /\ \A x \in 1..(j - 1) - k + 1 : SubSeq(list, k, j - 1)[x] = list[k + x - 1]
  <2> DEFINE e == j - 1
  <2>1. e \in Int /\ \A x \in k..e : list[x] \in S
    BY <1>4, <1>10
  <2> HIDE DEF e
  <2>2. /\ SubSeq(list, k, e) \in Seq(S)
        /\ Len(SubSeq(list, k, e)) = IF k <= e THEN e - k + 1 ELSE 0
        /\ \A x \in 1..e - k + 1 : SubSeq(list, k, e)[x] = list[k + x - 1]
    BY <1>4, <2>1, SubSeqProperties
  <2> QED BY <2>2 DEF e
<1>12. /\ SubSeq(l, u, w) \in Seq(S)
       /\ Len(SubSeq(l, u, w)) = IF u <= w THEN w - u + 1 ELSE 0
       /\ \A x \in 1..w - u + 1 : SubSeq(l, u, w)[x] = l[u + x - 1]
  <2>1. \A x \in u..w : l[x] \in S
    BY <1>9, <1>10
  <2> QED BY <1>7, <2>1, SubSeqProperties
<1>13. SubSeq(l, u, w) = SubSeq(list, k, j - 1)
  <2>1. Len(SubSeq(l, u, w)) = j - k /\ Len(SubSeq(list, k, j - 1)) = j - k
    BY <1>4, <1>7, <1>11, <1>12
  <2>2. ASSUME NEW x \in 1..(j - k)
        PROVE  SubSeq(l, u, w)[x] = SubSeq(list, k, j - 1)[x]
    <3>1. x \in 1..(w - u + 1) /\ x \in 1..((j - 1) - k + 1)
      BY <1>4, <1>7
    <3>2. u + x - 1 \in u..w /\ (u + x - 1) - at + i = k + x - 1
      BY <1>4, <1>7
    <3>3. l[u + x - 1] = list[(u + x - 1) - at + i]
      BY <1>9, <3>2
    <3> QED BY <1>11, <1>12, <3>1, <3>2, <3>3
  <2> DEFINE a == SubSeq(l, u, w)
             b == SubSeq(list, k, j - 1)
  <2>3. a \in Seq(S) /\ b \in Seq(S) /\ Len(a) = j - k /\ Len(b) = j - k
    BY <1>11, <1>12, <2>1
  <2>4. \A x \in 1..(j - k) : a[x] = b[x]
    BY <2>2
  <2> HIDE DEF a, b
  <2>5. a = b
    BY <2>3, <2>4, SeqEqual
  <2> QED BY <2>5 DEF a, b
<1> QED BY <1>8, <1>13 DEF at

\* Every phrase has a word.
Worded(list) ==
  \A i, j \in DOMAIN list : Quotes(list, i, j) => \E k : FirstWord(list, i, j, k)

\* p is a phrase of the query, from its first word on.
PhraseOf(list, p) ==
  \E i, j, k : FirstWord(list, i, j, k) /\ p = SubSeq(list, k, j - 1)

\* The phrases of the completed list are those of the query.
LEMMA PhrasesCopied ==
    ASSUME NEW S, NEW list \in Seq(S), Complete(list), NEW m, NEW l \in Seq(S), NEW place,
           Spread(list, m, l, place, Len(list)),
           Worded(list), NEW p
    PROVE  p \in Phrases(l) <=> PhraseOf(list, p)
<1>1. p \in Phrases(l) <=> \E q \in {x \in DOMAIN l : l[x].cmd = "PHRASE" /\ ~InPhrase(l, x)} :
                              p = PhraseFrom(l, q)
  BY DEF Phrases, PhraseFrom, After
<1>2. Len(list) \in Nat /\ DOMAIN list = 1..Len(list)
  BY DEF Complete
<1>3. ASSUME NEW q \in DOMAIN l, l[q].cmd = "PHRASE", ~InPhrase(l, q), p = PhraseFrom(l, q)
      PROVE  \E i, j, k : FirstWord(list, i, j, k) /\ p = SubSeq(list, k, j - 1)
  <2>1. q \in 1..Len(l)
    BY <1>3
  <2>2. PICK h \in 1..Len(list) : q = place[h] \/ (NeedsCmd(list, h) /\ q = place[h] - 1)
    BY <2>1 DEF Spread
  <2>3. q = place[h]
    <3>1. Item(AddedCmd(m), 0).cmd # "PHRASE"
      BY DEF Item, AddedCmd
    <3>2. NeedsCmd(list, h) => l[place[h] - 1] = Item(AddedCmd(m), 0)
      BY DEF Spread
    <3> QED BY <1>3, <2>2, <3>1, <3>2
  <2>4. list[h].cmd = "PHRASE" /\ ~InPhrase(list, h)
    <3>1. l[place[h]] = list[h] /\ (InPhrase(l, place[h]) <=> InPhrase(list, h))
      BY DEF Spread
    <3> QED BY <1>3, <2>3, <3>1
  <2>5. PICK j \in (h + 1)..Len(list) : Quotes(list, h, j)
    <3>1. Len(list) \in h..Len(list) /\ ~InPhrase(list, Len(list) + 1)
      BY <1>2 DEF Complete
    <3> QED BY <2>4, <3>1, PhraseEnd
  <2>6. PICK k : FirstWord(list, h, j, k)
    <3>1. h \in DOMAIN list /\ j \in DOMAIN list
      BY <2>5 DEF Quotes
    <3> QED BY <2>5, <3>1 DEF Worded
  <2>7. PhraseFrom(l, place[h]) = SubSeq(list, k, j - 1)
    BY <2>6, PhraseCopied
  <2> QED BY <1>3, <2>3, <2>6, <2>7
<1>4. ASSUME NEW i, NEW j, NEW k, FirstWord(list, i, j, k), p = SubSeq(list, k, j - 1)
      PROVE  \E q \in {x \in DOMAIN l : l[x].cmd = "PHRASE" /\ ~InPhrase(l, x)} :
                p = PhraseFrom(l, q)
  <2>1. i \in 1..Len(list) /\ list[i].cmd = "PHRASE" /\ ~InPhrase(list, i)
    BY <1>2, <1>4 DEF FirstWord, Quotes
  <2>2. l[place[i]] = list[i] /\ (InPhrase(l, place[i]) <=> InPhrase(list, i))
    BY <2>1 DEF Spread
  <2>3. place[i] \in DOMAIN l
    BY <1>2, <2>1, PlacePositive
  <2>4. PhraseFrom(l, place[i]) = SubSeq(list, k, j - 1)
    BY <1>4, PhraseCopied
  <2> QED BY <1>4, <2>1, <2>2, <2>3, <2>4
<1> QED BY <1>1, <1>3, <1>4 DEF PhraseOf

\* A list is inside a phrase until the next quote.
LEMMA SamePhrase ==
    ASSUME NEW list, NEW i \in Nat \ {0}, NEW k \in Nat, i <= k,
           \A h \in i..(k - 1) : list[h].cmd # "PHRASE"
    PROVE  InPhrase(list, k) <=> InPhrase(list, i)
<1> DEFINE S == {n \in 0..(k - i) : InPhrase(list, i + n) <=> InPhrase(list, i)}
<1>1. 0 \in S
  OBVIOUS
<1>2. ASSUME NEW n \in 1..(k - i), n - 1 \in S PROVE n \in S
  <2> DEFINE h == i + (n - 1)
  <2>1. h \in i..(k - 1) /\ h \in Nat \ {0} /\ h + 1 = i + n /\ n \in 0..(k - i)
    OBVIOUS
  <2>2. InPhrase(list, h) <=> InPhrase(list, i)
    BY <1>2
  <2> HIDE DEF h
  <2>3. InPhrase(list, h + 1) <=> InPhrase(list, h)
    BY <2>1, InPhraseStep
  <2>4. InPhrase(list, i + n) <=> InPhrase(list, i)
    BY <2>1, <2>2, <2>3
  <2> QED BY <2>1, <2>4
<1>3. k - i \in Nat
  OBVIOUS
<1>4. 0..(k - i) \subseteq S
  <2> HIDE DEF S
  <2> QED BY <1>1, <1>2, <1>3, BoundedInduction
<1>5. k - i \in S /\ i + (k - i) = k
  BY <1>3, <1>4
<1> QED BY <1>5

-----------------------------------------------------------------------------
(* The shape of a query, and how it is kept when an item is added.         *)

\* The words have increasing orders, every order up to n is that of a word, and
\* a stop word has the order of the next word.
Orders(list, n) ==
  /\ \A k \in 1..Len(list) : list[k].cmd = "WORD" => list[k].arg \in 1..n
  /\ \A i, k \in 1..Len(list) :
        i < k /\ list[i].cmd = "WORD" /\ list[k].cmd = "WORD" => list[i].arg < list[k].arg
  /\ \A o \in 1..n : \E k \in 1..Len(list) : list[k].cmd = "WORD" /\ list[k].arg = o
  /\ \A i \in 1..Len(list) :
        list[i].cmd = "STOP" /\ (\A h \in (i + 1)..Len(list) : list[h].cmd # "WORD") =>
           list[i].arg = n + 1
  /\ \A i, k \in 1..Len(list) :
        i < k /\ list[i].cmd = "STOP" /\ FirstOf(list, i, k, "WORD") =>
           list[i].arg = list[k].arg

\* No bracket closes that is not open.
Nested(list) == \A k \in 1..Len(list) : Depth(list, k) >= 0

\* A word outside of phrases has phrlen 1, a word of a closed phrase the length
\* of that phrase, a word of the open phrase 0.
Lengths(list, ws) ==
  \A k \in 1..Len(list) : list[k].cmd = "WORD" =>
     /\ ~InPhrase(list, k) => ws[list[k].arg].phrlen = 1
     /\ InPhrase(list, k) /\ (\A h \in (k + 1)..Len(list) : list[h].cmd # "PHRASE") =>
           ws[list[k].arg].phrlen = 0
     /\ \A i, j \in 1..Len(list) : Quotes(list, i, j) /\ i < k /\ k < j =>
           ws[list[k].arg].phrlen = j - i - 1

\* A closed phrase has two words, or is one word.
Filled(list) ==
  \A i, j \in 1..Len(list) : Quotes(list, i, j) =>
     \/ \E a, b \in (i + 1)..(j - 1) : a < b /\ list[a].cmd = "WORD" /\ list[b].cmd = "WORD"
     \/ j = i + 2 /\ list[i + 1].cmd = "WORD"

Shaped(list, n, ws) ==
  Orders(list, n) /\ Nested(list) /\ Lengths(list, ws) /\ Filled(list)

LEMMA OrdersMore ==
    ASSUME NEW S, NEW list, NEW x, NEW more, Grown(S, list, x, more), NEW n \in Nat, Orders(list, n)
    PROVE  /\ x.cmd = "WORD" /\ x.arg = n + 1 => Orders(more, n + 1)
           /\ x.cmd = "STOP" /\ x.arg = n + 1 => Orders(more, n)
           /\ x.cmd \notin {"WORD", "STOP"} => Orders(more, n)
<1> DEFINE N == Len(list)
<1>1. /\ N \in Nat /\ Len(more) = N + 1 /\ \A i \in 1..N : more[i] = list[i]
      /\ more[N + 1] = x
  BY DEF Grown
<1>2. /\ \A k \in 1..N : list[k].cmd = "WORD" => list[k].arg \in 1..n
      /\ \A i, k \in 1..N :
            i < k /\ list[i].cmd = "WORD" /\ list[k].cmd = "WORD" => list[i].arg < list[k].arg
      /\ \A o \in 1..n : \E k \in 1..N : list[k].cmd = "WORD" /\ list[k].arg = o
      /\ \A i \in 1..N :
            list[i].cmd = "STOP" /\ (\A h \in (i + 1)..N : list[h].cmd # "WORD") =>
               list[i].arg = n + 1
      /\ \A i, k \in 1..N :
            i < k /\ list[i].cmd = "STOP" /\ FirstOf(list, i, k, "WORD") =>
               list[i].arg = list[k].arg
  BY DEF Orders
<1> HIDE DEF N
<1>3. ASSUME NEW n2 \in n..(n + 1), x.cmd = "WORD" => n2 = n + 1 /\ x.arg = n + 1,
             x.cmd # "WORD" => n2 = n, x.cmd = "STOP" => x.arg = n + 1
      PROVE  Orders(more, n2)
  <2>1. \A k \in 1..(N + 1) : k \in 1..N \/ k = N + 1
    BY <1>1
  <2>2. \A k \in 1..(N + 1) : more[k].cmd = "WORD" => more[k].arg \in 1..n2
    BY <1>1, <1>2, <1>3, <2>1
  <2>3. \A i, k \in 1..(N + 1) :
           i < k /\ more[i].cmd = "WORD" /\ more[k].cmd = "WORD" => more[i].arg < more[k].arg
    <3> SUFFICES ASSUME NEW i \in 1..(N + 1), NEW k \in 1..(N + 1), i < k,
                        more[i].cmd = "WORD", more[k].cmd = "WORD"
                 PROVE  more[i].arg < more[k].arg
      OBVIOUS
    <3>1. i \in 1..N
      BY <1>1
    <3>2. CASE k \in 1..N
      BY <1>1, <1>2, <3>1, <3>2
    <3>3. CASE k = N + 1
      <4>1. more[i] = list[i] /\ more[k] = x
        BY <1>1, <3>1, <3>3
      <4>2. list[i].arg \in 1..n /\ x.arg = n + 1
        BY <1>2, <1>3, <3>1, <4>1
      <4> QED BY <4>1, <4>2
    <3> QED BY <2>1, <3>2, <3>3
  <2>4. \A o \in 1..n2 : \E k \in 1..(N + 1) : more[k].cmd = "WORD" /\ more[k].arg = o
    <3> TAKE o \in 1..n2
    <3>1. CASE o \in 1..n
      <4>1. PICK k \in 1..N : list[k].cmd = "WORD" /\ list[k].arg = o
        BY <1>2, <3>1
      <4>2. k \in 1..(N + 1) /\ more[k] = list[k]
        BY <1>1
      <4> QED BY <4>1, <4>2
    <3>2. CASE o \notin 1..n
      <4>1. o = n + 1 /\ x.cmd = "WORD" /\ x.arg = n + 1
        BY <1>3, <3>2
      <4>2. N + 1 \in 1..(N + 1)
        BY <1>1
      <4> QED BY <1>1, <4>1, <4>2
    <3> QED BY <3>1, <3>2
  <2>5. ASSUME NEW i \in 1..(N + 1), more[i].cmd = "STOP",
               \A h \in (i + 1)..(N + 1) : more[h].cmd # "WORD"
        PROVE  more[i].arg = n2 + 1
    <3>1. CASE i \in 1..N
      <4>1. \A h \in (i + 1)..N : h \in (i + 1)..(N + 1) /\ more[h] = list[h]
        BY <1>1, <3>1
      <4>2. x.cmd # "WORD"
        <5>1. N + 1 \in (i + 1)..(N + 1)
          BY <1>1, <3>1
        <5> QED BY <1>1, <2>5, <5>1
      <4>3. \A h \in (i + 1)..N : list[h].cmd # "WORD"
        BY <2>5, <4>1
      <4>4. list[i].cmd = "STOP" /\ more[i] = list[i]
        BY <1>1, <2>5, <3>1
      <4>5. list[i].arg = n + 1
        BY <1>2, <3>1, <4>3, <4>4
      <4> QED BY <1>3, <4>2, <4>4, <4>5
    <3>2. CASE i = N + 1
      <4>1. x.cmd = "STOP" /\ x.arg = n + 1 /\ n2 = n
        BY <1>1, <1>3, <2>5, <3>2
      <4> QED BY <1>1, <3>2, <4>1
    <3> QED BY <2>1, <3>1, <3>2
  <2>6. ASSUME NEW i \in 1..(N + 1), NEW k \in 1..(N + 1), i < k, more[i].cmd = "STOP",
               FirstOf(more, i, k, "WORD")
        PROVE  more[i].arg = more[k].arg
    <3>1. i \in 1..N /\ more[i] = list[i]
      BY <1>1, <2>6
    <3>2. more[k].cmd = "WORD" /\ \A h \in (i + 1)..(k - 1) : more[h].cmd # "WORD"
      BY <2>6 DEF FirstOf
    <3>3. \A h \in (i + 1)..(k - 1) : more[h] = list[h]
      BY <1>1
    <3>4. CASE k \in 1..N
      <4>1. more[k] = list[k] /\ FirstOf(list, i, k, "WORD")
        BY <1>1, <3>2, <3>3, <3>4 DEF FirstOf
      <4> QED BY <1>2, <2>6, <3>1, <3>4, <4>1
    <3>5. CASE k = N + 1
      <4>1. \A h \in (i + 1)..N : list[h].cmd # "WORD"
        BY <1>1, <3>2, <3>3, <3>5
      <4>2. list[i].arg = n + 1
        BY <1>2, <2>6, <3>1, <4>1
      <4>3. x.cmd = "WORD" /\ more[k] = x
        BY <1>1, <3>2, <3>5
      <4> QED BY <1>3, <3>1, <4>2, <4>3
    <3> QED BY <2>1, <3>4, <3>5
  <2> QED BY <1>1, <2>2, <2>3, <2>4, <2>5, <2>6 DEF Orders
<1>4. n \in n..(n + 1) /\ n + 1 \in n..(n + 1)
  OBVIOUS
<1> QED BY <1>3, <1>4

LEMMA NestedMore ==
    ASSUME NEW S, NEW list, NEW x, NEW more, Grown(S, list, x, more), Nested(list),
           x.cmd = "RIGHT" => Depth(list, Len(list)) > 0
    PROVE  Nested(more)
<1> DEFINE N == Len(list)
<1>1. /\ N \in Nat /\ Len(more) = N + 1 /\ \A i \in 1..N : more[i] = list[i]
      /\ more[N + 1] = x
  BY DEF Grown
<1> HIDE DEF N
<1>2. \A k \in 0..N : Depth(more, k) = Depth(list, k)
  <2> TAKE k \in 0..N
  <2>1. \A j \in 1..k : more[j] = list[j]
    BY <1>1
  <2> QED BY <2>1, DepthSame
<1>3. \A k \in 1..N : Depth(more, k) >= 0
  BY <1>1, <1>2 DEF Nested, N
<1>4. Depth(list, N) >= 0 /\ Depth(list, N) \in Int
  <2>1. N + 1 \in Nat \ {0} /\ (N + 1) - 1 = N
    BY <1>1
  <2>2. Depth(list, N) \in Int /\ Depth(list, 0) = 0
    BY <2>1, DepthStep
  <2>3. N = 0 \/ N \in 1..N
    BY <1>1
  <2> QED BY <2>2, <2>3 DEF Nested, N
<1>5. Depth(more, N + 1) >= 0
  <2>1. N + 1 \in Nat \ {0} /\ (N + 1) - 1 = N /\ N \in 0..N
    BY <1>1
  <2>2. Depth(more, N + 1) = CASE x.cmd = "LEFT"  -> Depth(more, N) + 1
                               [] x.cmd = "RIGHT" -> Depth(more, N) - 1
                               [] OTHER           -> Depth(more, N)
    BY <1>1, <2>1, DepthStep
  <2>3. Depth(more, N) = Depth(list, N)
    BY <1>2, <2>1
  <2>4. CASE x.cmd = "LEFT"
    BY <1>4, <2>2, <2>3, <2>4
  <2>5. CASE x.cmd = "RIGHT"
    BY <1>4, <2>2, <2>3, <2>5 DEF N
  <2>6. CASE x.cmd \notin {"LEFT", "RIGHT"}
    BY <1>4, <2>2, <2>3, <2>6
  <2> QED BY <2>4, <2>5, <2>6
<1> QED BY <1>1, <1>3, <1>5 DEF Nested

LEMMA QuotesMore ==
    ASSUME NEW S, NEW list, NEW x, NEW more, Grown(S, list, x, more)
    PROVE  /\ \A i, j \in 1..Len(list) : Quotes(more, i, j) <=> Quotes(list, i, j)
           /\ \A i \in 1..Len(more) : Quotes(more, i, Len(more)) =>
                 /\ i \in 1..Len(list) /\ x.cmd = "PHRASE" /\ InPhrase(list, Len(list) + 1)
                 /\ list[i].cmd = "PHRASE"
                 /\ \A h \in (i + 1)..Len(list) : list[h].cmd # "PHRASE" /\ InPhrase(list, h)
           /\ \A i, j \in 1..Len(more) : Quotes(more, i, j) =>
                 j = Len(more) \/ (i \in 1..Len(list) /\ j \in 1..Len(list))
<1> DEFINE N == Len(list)
<1>1. /\ N \in Nat /\ Len(more) = N + 1 /\ more[N + 1] = x
      /\ DOMAIN more = 1..(N + 1) /\ DOMAIN list = 1..N
      /\ \A i \in 1..N : more[i] = list[i] /\ (InPhrase(more, i) <=> InPhrase(list, i))
  BY DEF Grown
<1> HIDE DEF N
<1>2. ASSUME NEW i \in 1..N, NEW j \in 1..N PROVE Quotes(more, i, j) <=> Quotes(list, i, j)
  <2>1. /\ i \in DOMAIN more /\ j \in DOMAIN more /\ i \in DOMAIN list /\ j \in DOMAIN list
        /\ \A k \in (i + 1)..(j - 1) : k \in 1..N
    BY <1>1
  <2>2. /\ more[i] = list[i] /\ more[j] = list[j] /\ (InPhrase(more, i) <=> InPhrase(list, i))
        /\ \A k \in (i + 1)..(j - 1) : more[k] = list[k]
    BY <1>1, <2>1
  <2> QED BY <2>1, <2>2 DEF Quotes
<1>3. ASSUME NEW i \in 1..(N + 1), Quotes(more, i, N + 1)
      PROVE  /\ i \in 1..N /\ x.cmd = "PHRASE" /\ InPhrase(list, N + 1)
             /\ list[i].cmd = "PHRASE"
             /\ \A h \in (i + 1)..N : list[h].cmd # "PHRASE" /\ InPhrase(list, h)
  <2>1. /\ i < N + 1 /\ more[i].cmd = "PHRASE" /\ more[N + 1].cmd = "PHRASE"
        /\ ~InPhrase(more, i)
        /\ \A h \in (i + 1)..((N + 1) - 1) : more[h].cmd # "PHRASE"
    BY <1>3 DEF Quotes
  <2>2. i \in 1..N /\ i \in Nat \ {0}
    BY <1>1, <2>1
  <2>3. \A h \in (i + 1)..N : list[h].cmd # "PHRASE"
    BY <1>1, <2>1, <2>2
  <2>4. list[i].cmd = "PHRASE" /\ ~InPhrase(list, i)
    BY <1>1, <2>1, <2>2
  <2>5. InPhrase(list, i + 1)
    BY <2>2, <2>4, InPhraseStep
  <2>6. ASSUME NEW h \in (i + 1)..(N + 1) PROVE InPhrase(list, h)
    <3> DEFINE a == i + 1
    <3>1. /\ a \in Nat \ {0} /\ h \in Nat /\ a <= h /\ InPhrase(list, a)
          /\ \A g \in a..(h - 1) : list[g].cmd # "PHRASE"
      BY <1>1, <2>2, <2>3, <2>5
    <3> HIDE DEF a
    <3> QED BY <3>1, SamePhrase
  <2>7. N + 1 \in (i + 1)..(N + 1) /\ \A h \in (i + 1)..N : h \in (i + 1)..(N + 1)
    BY <1>1, <2>2
  <2> QED BY <1>1, <2>1, <2>2, <2>3, <2>4, <2>6, <2>7
<1>4. ASSUME NEW i \in 1..(N + 1), NEW j \in 1..(N + 1), Quotes(more, i, j)
      PROVE  j = N + 1 \/ (i \in 1..N /\ j \in 1..N)
  BY <1>1, <1>4 DEF Quotes
<1> QED BY <1>1, <1>2, <1>3, <1>4 DEF N

LengthsKept(list, ws, ws2) ==
  \A k \in 1..Len(list) : list[k].cmd = "WORD" =>
     ws2[list[k].arg].phrlen = ws[list[k].arg].phrlen

\* An item that ends no phrase.
LEMMA LengthsMore ==
    ASSUME NEW S, NEW list, NEW x, NEW more, Grown(S, list, x, more),
           NEW ws, NEW ws2, Lengths(list, ws),
           LengthsKept(list, ws, ws2),
           x.cmd = "WORD" =>
              ws2[x.arg].phrlen = IF InPhrase(list, Len(list) + 1) THEN 0 ELSE 1,
           x.cmd = "PHRASE" => ~InPhrase(list, Len(list) + 1)
    PROVE  Lengths(more, ws2)
<1> DEFINE N == Len(list)
<1>1. /\ N \in Nat /\ Len(more) = N + 1 /\ more[N + 1] = x
      /\ \A i \in 1..N : more[i] = list[i] /\ (InPhrase(more, i) <=> InPhrase(list, i))
      /\ InPhrase(more, N + 1) <=> InPhrase(list, N + 1)
  BY DEF Grown
<1>2. \A i, j \in 1..(N + 1) : Quotes(more, i, j) =>
         i \in 1..N /\ j \in 1..N /\ Quotes(list, i, j)
  BY <1>1, QuotesMore
<1>3. ASSUME NEW k \in 1..(N + 1), more[k].cmd = "WORD"
      PROVE  /\ ~InPhrase(more, k) => ws2[more[k].arg].phrlen = 1
             /\ InPhrase(more, k) /\ (\A h \in (k + 1)..(N + 1) : more[h].cmd # "PHRASE") =>
                   ws2[more[k].arg].phrlen = 0
             /\ \A i, j \in 1..(N + 1) : Quotes(more, i, j) /\ i < k /\ k < j =>
                   ws2[more[k].arg].phrlen = j - i - 1
  <2>1. CASE k \in 1..N
    <3>1. /\ more[k] = list[k] /\ (InPhrase(more, k) <=> InPhrase(list, k))
          /\ ws2[more[k].arg].phrlen = ws[list[k].arg].phrlen
      BY <1>1, <1>3, <2>1 DEF LengthsKept
    <3>2. /\ ~InPhrase(list, k) => ws[list[k].arg].phrlen = 1
          /\ InPhrase(list, k) /\ (\A h \in (k + 1)..N : list[h].cmd # "PHRASE") =>
                ws[list[k].arg].phrlen = 0
          /\ \A i, j \in 1..N : Quotes(list, i, j) /\ i < k /\ k < j =>
                ws[list[k].arg].phrlen = j - i - 1
      BY <1>3, <2>1, <3>1 DEF Lengths
    <3>3. (\A h \in (k + 1)..(N + 1) : more[h].cmd # "PHRASE") =>
             (\A h \in (k + 1)..N : list[h].cmd # "PHRASE")
      BY <1>1, <2>1
    <3> HIDE DEF N
    <3> QED BY <1>2, <3>1, <3>2, <3>3
  <2>2. CASE k = N + 1
    <3>1. more[k] = x /\ x.cmd = "WORD"
      BY <1>1, <1>3, <2>2
    <3>2. \A i, j \in 1..(N + 1) : Quotes(more, i, j) => ~(k < j)
      BY <1>1, <2>2
    <3> QED BY <1>1, <2>2, <3>1, <3>2
  <2> QED BY <1>1, <2>1, <2>2
<1> QED BY <1>1, <1>3 DEF Lengths

LEMMA FilledMore ==
    ASSUME NEW S, NEW list, NEW x, NEW more, Grown(S, list, x, more), Filled(list),
           x.cmd = "PHRASE" /\ InPhrase(list, Len(list) + 1) =>
             \A i \in 1..Len(list) :
                list[i].cmd = "PHRASE" /\ (\A h \in (i + 1)..Len(list) : list[h].cmd # "PHRASE") =>
                  \/ \E a, b \in (i + 1)..Len(list) :
                        a < b /\ list[a].cmd = "WORD" /\ list[b].cmd = "WORD"
                  \/ Len(list) = i + 1 /\ list[i + 1].cmd = "WORD"
    PROVE  Filled(more)
<1> DEFINE N == Len(list)
<1>1. /\ N \in Nat /\ Len(more) = N + 1 /\ more[N + 1] = x
      /\ \A i \in 1..N : more[i] = list[i]
  BY DEF Grown
<1> SUFFICES ASSUME NEW i \in 1..(N + 1), NEW j \in 1..(N + 1), Quotes(more, i, j)
             PROVE  \/ \E a, b \in (i + 1)..(j - 1) :
                          a < b /\ more[a].cmd = "WORD" /\ more[b].cmd = "WORD"
                    \/ j = i + 2 /\ more[i + 1].cmd = "WORD"
  BY <1>1 DEF Filled
<1>2. CASE i \in 1..N /\ j \in 1..N
  <2>1. Quotes(list, i, j)
    BY <1>2, QuotesMore
  <2>2. \/ \E a, b \in (i + 1)..(j - 1) : a < b /\ list[a].cmd = "WORD" /\ list[b].cmd = "WORD"
        \/ j = i + 2 /\ list[i + 1].cmd = "WORD"
    BY <1>2, <2>1 DEF Filled
  <2>3. (\A a \in (i + 1)..(j - 1) : more[a] = list[a]) /\ (j = i + 2 => more[i + 1] = list[i + 1])
    BY <1>1, <1>2
  <2> QED BY <2>2, <2>3
<1>3. CASE j = N + 1
  <2>1. /\ i \in 1..N /\ x.cmd = "PHRASE" /\ InPhrase(list, N + 1)
        /\ list[i].cmd = "PHRASE"
        /\ \A h \in (i + 1)..N : list[h].cmd # "PHRASE"
    BY <1>1, <1>3, QuotesMore
  <2>2. \/ \E a, b \in (i + 1)..N : a < b /\ list[a].cmd = "WORD" /\ list[b].cmd = "WORD"
        \/ N = i + 1 /\ list[i + 1].cmd = "WORD"
    BY <2>1
  <2>3. /\ j - 1 = N /\ (\A a \in (i + 1)..N : more[a] = list[a])
        /\ N = i + 1 => j = i + 2 /\ more[i + 1] = list[i + 1]
    BY <1>1, <1>3, <2>1
  <2> QED BY <2>2, <2>3
<1> QED BY <1>1, <1>2, <1>3, QuotesMore

LEMMA CountFacts ==
    ASSUME NEW list, NEW N \in Nat, DOMAIN list = 1..N, NEW cmd
    PROVE  /\ Count(list, cmd) \in Nat
           /\ Count(list, cmd) = 0 => \A h \in 1..N : list[h].cmd # cmd
           /\ Count(list, cmd) >= 2 => \E a, b \in 1..N :
                 a < b /\ list[a].cmd = cmd /\ list[b].cmd = cmd
           /\ (\A h \in 1..N : list[h].cmd = cmd) => Count(list, cmd) = N
<1> DEFINE W == {h \in 1..N : list[h].cmd = cmd}
<1>1. Count(list, cmd) = Cardinality(W)
  BY DEF Count
<1>2. IsFiniteSet(W) /\ Cardinality(W) \in Nat
  <2>1. IsFiniteSet(1..N) /\ W \subseteq 1..N
    BY FS_Interval
  <2> HIDE DEF W
  <2> QED BY <2>1, FS_Subset, FS_CardinalityType
<1>3. ASSUME Cardinality(W) = 0 PROVE \A h \in 1..N : list[h].cmd # cmd
  <2>1. W = {}
    <3> HIDE DEF W
    <3> QED BY <1>2, <1>3, FS_EmptySet
  <2> QED BY <2>1
<1>4. ASSUME Cardinality(W) >= 2
      PROVE  \E a, b \in 1..N : a < b /\ list[a].cmd = cmd /\ list[b].cmd = cmd
  <2>1. W # {}
    <3> HIDE DEF W
    <3> QED BY <1>4, FS_EmptySet
  <2>2. PICK a \in W : TRUE
    BY <2>1
  <2>3. W # {a}
    <3> HIDE DEF W
    <3> SUFFICES ASSUME W = {a} PROVE FALSE
      OBVIOUS
    <3>1. Cardinality(W) = 1
      BY FS_Singleton
    <3> QED BY <1>4, <3>1
  <2>4. PICK b \in W : b # a
    <3> HIDE DEF W
    <3> QED BY <2>2, <2>3
  <2>5. a < b \/ b < a
    BY <2>4
  <2> QED BY <2>5
<1>5. ASSUME \A h \in 1..N : list[h].cmd = cmd PROVE Cardinality(W) = N
  <2>1. W = 1..N
    BY <1>5
  <2> HIDE DEF W
  <2>2. Cardinality(1..N) = N
    BY FS_Interval
  <2> QED BY <2>1, <2>2
<1> HIDE DEF W
<1> QED BY <1>1, <1>2, <1>3, <1>4, <1>5

\* What is behind the quote that opened the phrase.
LEMMA PhraseItemsFacts ==
    ASSUME BoolInv, quoted, NEW i \in 1..Len(query), query[i].cmd = "PHRASE",
           \A h \in (i + 1)..Len(query) : query[h].cmd # "PHRASE"
    PROVE  /\ Len(PhraseItems) = Len(query) - i /\ DOMAIN PhraseItems = 1..(Len(query) - i)
           /\ \A h \in 1..(Len(query) - i) : PhraseItems[h] = query[i + h]
<1> DEFINE Q == {h \in DOMAIN query : query[h].cmd = "PHRASE"}
           N == Len(query)
           S == ItemSet(nuniq)
<1>1. query \in Seq(S) /\ N \in Nat /\ DOMAIN query = 1..N
  BY DEF BoolInv, DataInv
<1>2. Max(Q) = i
  <2>1. i \in Q /\ Q \subseteq 1..N
    BY <1>1
  <2>2. Max(Q) \in Q /\ \A y \in Q : y <= Max(Q)
    <3> HIDE DEF Q
    <3> QED BY <1>1, <2>1, MaxIsGreatest
  <2>3. \A h \in Q : h <= i
    BY <1>1
  <2>4. Max(Q) \in Int
    BY <2>1, <2>2
  <2> HIDE DEF Q
  <2> QED BY <2>1, <2>2, <2>3, <2>4
<1> DEFINE k == i + 1
<1>3. PhraseItems = SubSeq(query, k, N)
  BY <1>2 DEF PhraseItems
<1>4. k \in Int /\ N \in Int /\ \A h \in k..N : query[h] \in S
  <2> HIDE DEF S
  <2> QED BY <1>1
<1>5. /\ SubSeq(query, k, N) \in Seq(S)
      /\ Len(SubSeq(query, k, N)) = IF k <= N THEN N - k + 1 ELSE 0
      /\ \A h \in 1..N - k + 1 : SubSeq(query, k, N)[h] = query[k + h - 1]
  <2> HIDE DEF k, N, S
  <2> QED BY <1>4, SubSeqProperties
<1>6. PhraseItems \in Seq(S) /\ Len(PhraseItems) = N - i
  <2>1. i \in 1..N
    OBVIOUS
  <2>2. N - i = IF k <= N THEN N - k + 1 ELSE 0
    <3> HIDE DEF N, S
    <3> QED BY <1>1, <2>1
  <2> HIDE DEF S, N, k
  <2> QED BY <1>3, <1>5, <2>2
<1>7. DOMAIN PhraseItems = 1..(N - i)
  <2> HIDE DEF S, N
  <2> QED BY <1>6
<1>8. ASSUME NEW h \in 1..(N - i) PROVE PhraseItems[h] = query[i + h]
  <2>1. h \in 1..(N - k + 1) /\ k + h - 1 = i + h
    BY <1>1
  <2> HIDE DEF k, N, S
  <2> QED BY <1>3, <1>5, <2>1
<1> QED BY <1>6, <1>7, <1>8

LEMMA FilledClose ==
    ASSUME BoolInv, quoted,
           \/ Count(PhraseItems, "WORD") >= 2
           \/ Count(PhraseItems, "WORD") = 1 /\ Count(PhraseItems, "STOP") = 0,
           NEW i \in 1..Len(query), query[i].cmd = "PHRASE",
           \A h \in (i + 1)..Len(query) : query[h].cmd # "PHRASE" /\ InPhrase(query, h)
    PROVE  \/ \E a, b \in (i + 1)..Len(query) :
                 a < b /\ query[a].cmd = "WORD" /\ query[b].cmd = "WORD"
           \/ Len(query) = i + 1 /\ query[i + 1].cmd = "WORD"
<1> DEFINE N == Len(query)
           L == N - i
<1>1. query \in Seq(ItemSet(nuniq)) /\ N \in Nat /\ DOMAIN query = 1..N /\ Typed(query) /\ L \in Nat
  BY DEF BoolInv, DataInv, QueryInv
<1>2. /\ DOMAIN PhraseItems = 1..L
      /\ \A h \in 1..L : PhraseItems[h] = query[i + h]
  BY PhraseItemsFacts
<1>3. \A h \in (i + 1)..N : query[h].cmd \in {"WORD", "STOP"}
  <2> TAKE h \in (i + 1)..N
  <2>1. h \in DOMAIN query
    BY <1>1
  <2>2. InOrder(query, h)
    BY <1>1, <2>1 DEF Typed
  <2> QED BY <2>2 DEF InOrder
<1>4. \A h \in 1..L : i + h \in (i + 1)..N
  BY <1>1
<1>5. CASE Count(PhraseItems, "WORD") >= 2
  <2>1. PICK a \in 1..L, b \in 1..L :
           a < b /\ PhraseItems[a].cmd = "WORD" /\ PhraseItems[b].cmd = "WORD"
    <3> HIDE DEF L
    <3> QED BY <1>1, <1>2, <1>5, CountFacts
  <2>2. i + a \in (i + 1)..N /\ i + b \in (i + 1)..N /\ i + a < i + b
    BY <1>4, <2>1
  <2> HIDE DEF L
  <2> QED BY <1>2, <2>1, <2>2
<1>6. CASE Count(PhraseItems, "WORD") = 1 /\ Count(PhraseItems, "STOP") = 0
  <2>1. \A h \in 1..L : PhraseItems[h].cmd # "STOP"
    <3> HIDE DEF L
    <3> QED BY <1>1, <1>2, <1>6, CountFacts
  <2>2. \A h \in 1..L : PhraseItems[h].cmd = "WORD"
    <3> HIDE DEF L
    <3> QED BY <1>2, <1>3, <1>4, <2>1
  <2>3. L = 1
    <3> HIDE DEF L
    <3> QED BY <1>1, <1>2, <1>6, <2>2, CountFacts
  <2>4. 1 \in 1..L /\ i + 1 = N
    <3>1. i \in Int /\ N \in Int
      BY <1>1
    <3> HIDE DEF N
    <3> QED BY <2>3, <3>1
  <2> HIDE DEF L
  <2> QED BY <1>2, <2>2, <2>4
<1> QED BY <1>5, <1>6

\* The words without a length get one: that of the items behind the last quote.
LengthsSet(list, ws, ws2, len) ==
  \A k \in 1..Len(list) : list[k].cmd = "WORD" =>
     ws2[list[k].arg].phrlen =
        IF ws[list[k].arg].phrlen = 0 THEN len ELSE ws[list[k].arg].phrlen
LastPhraseLen(list, len) ==
  \A i \in 1..Len(list) :
     list[i].cmd = "PHRASE" /\ (\A h \in (i + 1)..Len(list) : list[h].cmd # "PHRASE") =>
        len = Len(list) - i

\* The closing quote.
LEMMA LengthsClose ==
    ASSUME NEW S, NEW list, NEW x, NEW more, Grown(S, list, x, more), x.cmd = "PHRASE",
           NEW ws, NEW ws2, Lengths(list, ws), NEW len,
           LengthsSet(list, ws, ws2, len), LastPhraseLen(list, len)
    PROVE  Lengths(more, ws2)
<1> DEFINE N == Len(list)
<1>1. /\ N \in Nat /\ Len(more) = N + 1 /\ more[N + 1] = x
      /\ \A i \in 1..N : more[i] = list[i] /\ (InPhrase(more, i) <=> InPhrase(list, i))
  BY DEF Grown
<1>2. ASSUME NEW k \in 1..(N + 1), more[k].cmd = "WORD"
      PROVE  /\ ~InPhrase(more, k) => ws2[more[k].arg].phrlen = 1
             /\ InPhrase(more, k) /\ (\A h \in (k + 1)..(N + 1) : more[h].cmd # "PHRASE") =>
                   ws2[more[k].arg].phrlen = 0
             /\ \A i, j \in 1..(N + 1) : Quotes(more, i, j) /\ i < k /\ k < j =>
                   ws2[more[k].arg].phrlen = j - i - 1
  <2>1. k \in 1..N
    BY <1>1, <1>2
  <2>2. /\ more[k] = list[k] /\ (InPhrase(more, k) <=> InPhrase(list, k))
        /\ ws2[more[k].arg].phrlen =
              IF ws[list[k].arg].phrlen = 0 THEN len ELSE ws[list[k].arg].phrlen
    BY <1>1, <1>2, <2>1 DEF LengthsSet
  <2>3. /\ ~InPhrase(list, k) => ws[list[k].arg].phrlen = 1
        /\ InPhrase(list, k) /\ (\A h \in (k + 1)..N : list[h].cmd # "PHRASE") =>
              ws[list[k].arg].phrlen = 0
        /\ \A i, j \in 1..N : Quotes(list, i, j) /\ i < k /\ k < j =>
              ws[list[k].arg].phrlen = j - i - 1
    BY <1>2, <2>1, <2>2 DEF Lengths
  <2>4. N + 1 \in (k + 1)..(N + 1) /\ more[N + 1].cmd = "PHRASE"
    BY <1>1, <2>1
  <2>5. ASSUME NEW i \in 1..(N + 1), NEW j \in 1..(N + 1), Quotes(more, i, j), i < k, k < j
        PROVE  ws2[more[k].arg].phrlen = j - i - 1
    <3>1. CASE i \in 1..N /\ j \in 1..N
      <4>1. Quotes(list, i, j)
        BY <2>5, <3>1, QuotesMore
      <4>2. ws[list[k].arg].phrlen = j - i - 1
        BY <2>3, <2>5, <3>1, <4>1
      <4>3. j - i - 1 # 0
        BY <2>1, <2>5
      <4> HIDE DEF N
      <4> QED BY <2>2, <4>2, <4>3
    <3>2. CASE j = N + 1
      <4>1. /\ i \in 1..N /\ list[i].cmd = "PHRASE"
            /\ \A h \in (i + 1)..N : list[h].cmd # "PHRASE" /\ InPhrase(list, h)
        BY <1>1, <2>5, <3>2, QuotesMore
      <4>2. len = N - i
        BY <4>1 DEF LastPhraseLen
      <4>3. InPhrase(list, k) /\ \A h \in (k + 1)..N : list[h].cmd # "PHRASE"
        BY <2>1, <2>5, <4>1
      <4>4. ws[list[k].arg].phrlen = 0
        BY <2>3, <4>3
      <4>5. N - i = j - i - 1
        BY <1>1, <3>2, <4>1
      <4> HIDE DEF N
      <4> QED BY <2>2, <4>2, <4>4, <4>5
    <3>3. j = N + 1 \/ (i \in 1..N /\ j \in 1..N)
      <4>1. i \in 1..Len(more) /\ j \in 1..Len(more)
        BY <1>1
      <4>2. j = Len(more) \/ (i \in 1..Len(list) /\ j \in 1..Len(list))
        BY <2>5, <4>1, QuotesMore
      <4> QED BY <1>1, <4>2
    <3> QED BY <3>1, <3>2, <3>3
  <2> HIDE DEF N
  <2> QED BY <2>2, <2>3, <2>4, <2>5
<1> QED BY <1>1, <1>2 DEF Lengths

ShapeInv == Shaped(query, nuniq, words)

LEMMA OpenIsDepth ==
    ASSUME Len(query) \in Nat, DOMAIN query = 1..Len(query)
    PROVE  Open = Depth(query, Len(query))
BY DEF Open, Depth, Count

LEMMA ItemGrown ==
    ASSUME BoolInv, NEW x \in ItemSet(nuniq + 1), query' = Append(query, x)
    PROVE  Grown(ItemSet(nuniq + 1), query, x, query')
<1>1. nuniq \in Nat
  BY DEF BoolInv, DataInv, nuniq
<1>2. query \in Seq(ItemSet(nuniq + 1))
  BY <1>1, ItemSetGrows DEF BoolInv, DataInv
<1>3. Grown(ItemSet(nuniq + 1), query, x, Append(query, x))
  BY <1>2, OneMore
<1> QED BY <1>3

LEMMA InitShape == Init => ShapeInv
<1> SUFFICES ASSUME Init PROVE ShapeInv
  OBVIOUS
<1>1. nuniq = 0 /\ Len(query) = 0
  BY DEF nuniq, Init
<1>2. \A k \in 1..Len(query) : FALSE
  BY <1>1
<1>3. \A o \in 1..nuniq : FALSE
  BY <1>1
<1>4. Orders(query, nuniq)
  BY <1>2, <1>3 DEF Orders
<1>5. Nested(query) /\ Lengths(query, words) /\ Filled(query)
  BY <1>2 DEF Nested, Lengths, Filled
<1> QED BY <1>4, <1>5 DEF ShapeInv, Shaped

LEMMA AddCmdShape ==
    ASSUME BoolInv, ShapeInv, NEW cmd \in {"OR", "AND", "NOT", "LEFT", "RIGHT"}, AddCmd(cmd)
    PROVE  ShapeInv'
<1> DEFINE x == Item(cmd, 0)
<1>1. /\ nuniq \in Nat /\ nuniq' = nuniq /\ words' = words /\ query' = Append(query, x)
      /\ cmd = "RIGHT" => Open > 0
  BY DEF BoolInv, DataInv, nuniq, AddCmd
<1>2. x \in ItemSet(nuniq + 1) /\ x.cmd = cmd
  <2>1. cmd \in Cmds \ {"WORD"} /\ nuniq + 1 \in Nat
    BY <1>1 DEF Cmds
  <2> QED BY <2>1, ItemFacts
<1> HIDE DEF x
<1>3. Grown(ItemSet(nuniq + 1), query, x, query')
  BY <1>1, <1>2, ItemGrown
<1>4. Orders(query', nuniq)
  <2>1. x.cmd \notin {"WORD", "STOP"}
    BY <1>2
  <2> QED BY <1>1, <1>3, <2>1, OrdersMore DEF ShapeInv, Shaped
<1>5. Nested(query')
  <2>1. Len(query) \in Nat /\ DOMAIN query = 1..Len(query)
    BY <1>3 DEF Grown
  <2>2. x.cmd = "RIGHT" => Depth(query, Len(query)) > 0
    BY <1>1, <1>2, <2>1, OpenIsDepth
  <2> QED BY <1>3, <2>2, NestedMore DEF ShapeInv, Shaped
<1>6. Lengths(query', words)
  <2>1. x.cmd # "WORD" /\ x.cmd # "PHRASE" /\ LengthsKept(query, words, words)
    BY <1>2 DEF LengthsKept
  <2> QED BY <1>3, <2>1, LengthsMore DEF ShapeInv, Shaped
<1>7. Filled(query')
  <2>1. x.cmd # "PHRASE"
    BY <1>2
  <2> QED BY <1>3, <2>1, FilledMore DEF ShapeInv, Shaped
<1>8. Shaped(query', nuniq', words')
  BY <1>1, <1>4, <1>5, <1>6, <1>7 DEF Shaped
<1> QED BY <1>8 DEF ShapeInv

LEMMA AddWordShape ==
    ASSUME BoolInv, ShapeInv, NEW w \in Words, AddWord(w)
    PROVE  ShapeInv'
<1> DEFINE x == Item("WORD", nuniq + 1)
           y == [word |-> w, phrlen |-> IF quoted THEN 0 ELSE 1]
<1>1. /\ query' = Append(query, x) /\ words' = Append(words, y)
      /\ words \in Seq(WordSet) /\ nuniq = Len(words) /\ nuniq \in Nat
      /\ quoted <=> InPhrase(query, Len(query) + 1)
  BY DEF AddWord, BoolInv, DataInv, QueryInv, nuniq
<1>2. y \in WordSet /\ y.phrlen = IF quoted THEN 0 ELSE 1
  BY DEF WordSet
<1> HIDE DEF y
<1>3. /\ nuniq' = nuniq + 1 /\ words'[nuniq + 1] = y
      /\ \A o \in 1..nuniq : words'[o] = words[o]
  <2>1. /\ Len(Append(words, y)) = Len(words) + 1
        /\ \A o \in 1..Len(words) : Append(words, y)[o] = words[o]
        /\ Append(words, y)[Len(words) + 1] = y
    BY <1>1, <1>2, AppendProperties
  <2> QED BY <1>1, <2>1 DEF nuniq
<1>4. x \in ItemSet(nuniq + 1) /\ x.cmd = "WORD" /\ x.arg = nuniq + 1
  BY <1>1 DEF ItemSet, Item, Cmds
<1> HIDE DEF x
<1>5. Grown(ItemSet(nuniq + 1), query, x, query')
  BY <1>1, <1>4, ItemGrown
<1>6. Orders(query', nuniq + 1)
  BY <1>1, <1>4, <1>5, OrdersMore DEF ShapeInv, Shaped
<1>7. Nested(query')
  BY <1>4, <1>5, NestedMore DEF ShapeInv, Shaped
<1>8. Lengths(query', words')
  <2>1. \A k \in 1..Len(query) : query[k].cmd = "WORD" =>
           words'[query[k].arg].phrlen = words[query[k].arg].phrlen
    BY <1>3 DEF ShapeInv, Shaped, Orders
  <2>2. words'[x.arg].phrlen = IF InPhrase(query, Len(query) + 1) THEN 0 ELSE 1
    BY <1>1, <1>2, <1>3, <1>4
  <2>3. x.cmd # "PHRASE"
    BY <1>4
  <2>4. Lengths(query, words)
    BY DEF ShapeInv, Shaped
  <2> DEFINE ws2 == words'
             more == query'
  <2>5. /\ LengthsKept(query, words, ws2)
        /\ ws2[x.arg].phrlen = IF InPhrase(query, Len(query) + 1) THEN 0 ELSE 1
        /\ Grown(ItemSet(nuniq + 1), query, x, more)
    BY <1>5, <2>1, <2>2 DEF LengthsKept
  <2> HIDE DEF ws2, more
  <2>6. Lengths(more, ws2)
    BY <2>3, <2>4, <2>5, LengthsMore
  <2> QED BY <2>6 DEF ws2, more
<1>9. Filled(query')
  <2>1. x.cmd # "PHRASE"
    BY <1>4
  <2> QED BY <1>5, <2>1, FilledMore DEF ShapeInv, Shaped
<1>10. Shaped(query', nuniq', words')
  BY <1>3, <1>6, <1>7, <1>8, <1>9 DEF Shaped
<1> QED BY <1>10 DEF ShapeInv

LEMMA AddStopShape ==
    ASSUME BoolInv, ShapeInv, AddStop
    PROVE  ShapeInv'
<1> DEFINE x == Item("STOP", nuniq + 1)
<1>1. /\ nuniq \in Nat /\ nuniq' = nuniq /\ words' = words /\ query' = Append(query, x)
  BY DEF BoolInv, DataInv, nuniq, AddStop
<1>2. x \in ItemSet(nuniq + 1) /\ x.cmd = "STOP" /\ x.arg = nuniq + 1
  BY <1>1 DEF ItemSet, Item, Cmds
<1> HIDE DEF x
<1>3. Grown(ItemSet(nuniq + 1), query, x, query')
  BY <1>1, <1>2, ItemGrown
<1>4. Orders(query', nuniq)
  BY <1>1, <1>2, <1>3, OrdersMore DEF ShapeInv, Shaped
<1>5. Nested(query')
  BY <1>2, <1>3, NestedMore DEF ShapeInv, Shaped
<1>6. Lengths(query', words)
  <2>1. x.cmd # "WORD" /\ x.cmd # "PHRASE" /\ LengthsKept(query, words, words)
    BY <1>2 DEF LengthsKept
  <2> QED BY <1>3, <2>1, LengthsMore DEF ShapeInv, Shaped
<1>7. Filled(query')
  <2>1. x.cmd # "PHRASE"
    BY <1>2
  <2> QED BY <1>3, <2>1, FilledMore DEF ShapeInv, Shaped
<1>8. Shaped(query', nuniq', words')
  BY <1>1, <1>4, <1>5, <1>6, <1>7 DEF Shaped
<1> QED BY <1>8 DEF ShapeInv

\* A quote that is added.
LEMMA QuoteGrown ==
    ASSUME BoolInv, query' = Append(query, Item("PHRASE", 0))
    PROVE  /\ Grown(ItemSet(nuniq + 1), query, Item("PHRASE", 0), query')
           /\ Item("PHRASE", 0).cmd = "PHRASE" /\ nuniq \in Nat
<1>1. nuniq \in Nat /\ nuniq + 1 \in Nat
  BY DEF BoolInv, DataInv, nuniq
<1>2. Item("PHRASE", 0) \in ItemSet(nuniq + 1) /\ Item("PHRASE", 0).cmd = "PHRASE"
  <2>1. "PHRASE" \in Cmds \ {"WORD"}
    BY DEF Cmds
  <2> QED BY <1>1, <2>1, ItemFacts
<1> QED BY <1>1, <1>2, ItemGrown

LEMMA OpenPhraseShape ==
    ASSUME BoolInv, ShapeInv, OpenPhrase
    PROVE  ShapeInv'
<1> DEFINE x == Item("PHRASE", 0)
<1>1. /\ nuniq' = nuniq /\ words' = words /\ query' = Append(query, x)
      /\ ~InPhrase(query, Len(query) + 1)
  BY DEF BoolInv, QueryInv, nuniq, OpenPhrase
<1>2. Grown(ItemSet(nuniq + 1), query, x, query') /\ x.cmd = "PHRASE" /\ nuniq \in Nat
  BY <1>1, QuoteGrown
<1> HIDE DEF x
<1>3. Orders(query', nuniq)
  BY <1>2, OrdersMore DEF ShapeInv, Shaped
<1>4. Nested(query')
  BY <1>2, NestedMore DEF ShapeInv, Shaped
<1>5. Lengths(query', words)
  BY <1>1, <1>2, LengthsMore DEF ShapeInv, Shaped, LengthsKept
<1>6. Filled(query')
  BY <1>1, <1>2, FilledMore DEF ShapeInv, Shaped
<1>7. Shaped(query', nuniq', words')
  BY <1>1, <1>3, <1>4, <1>5, <1>6 DEF Shaped
<1> QED BY <1>7 DEF ShapeInv

LEMMA ClosePhraseShape ==
    ASSUME BoolInv, ShapeInv, ClosePhrase
    PROVE  ShapeInv'
<1> DEFINE x == Item("PHRASE", 0)
           len == Len(PhraseItems)
           set == [o \in DOMAIN words |-> IF words[o].phrlen = 0
                                          THEN [words[o] EXCEPT !.phrlen = len]
                                          ELSE words[o]]
<1>1. /\ quoted /\ query' = Append(query, x) /\ words' = set
      /\ \/ Count(PhraseItems, "WORD") >= 2
         \/ Count(PhraseItems, "WORD") = 1 /\ Count(PhraseItems, "STOP") = 0
  BY DEF ClosePhrase
<1>2. /\ words \in Seq(WordSet) /\ nuniq = Len(words) /\ DOMAIN words = 1..nuniq
      /\ quoted <=> InPhrase(query, Len(query) + 1)
      /\ query \in Seq(ItemSet(nuniq))
  BY DEF BoolInv, DataInv, QueryInv, nuniq
<1>3. Grown(ItemSet(nuniq + 1), query, x, query') /\ x.cmd = "PHRASE" /\ nuniq \in Nat
  BY <1>1, QuoteGrown
<1> HIDE DEF x
<1>4. nuniq' = nuniq
  <2>1. \A o \in 1..nuniq : words[o] \in WordSet
    BY <1>2
  <2>2. len \in Nat \ {0}
    <3>1. Count(PhraseItems, "WORD") # 0
      BY <1>1
    <3> QED BY <1>1, <1>2, <3>1, PhraseItemsLen
  <2> HIDE DEF len
  <2>3. \A o \in 1..nuniq : [words[o] EXCEPT !.phrlen = len] \in WordSet
    BY <2>1, <2>2 DEF WordSet
  <2>4. set \in [1..nuniq -> WordSet]
    BY <1>2, <2>1, <2>3
  <2> HIDE DEF set
  <2>5. Len(set) = nuniq
    BY <1>3, <2>4
  <2> QED BY <1>1, <2>5 DEF nuniq
<1>5. \A k \in 1..Len(query) : query[k].cmd = "WORD" =>
         words'[query[k].arg].phrlen =
            IF words[query[k].arg].phrlen = 0 THEN len ELSE words[query[k].arg].phrlen
  <2> SUFFICES ASSUME NEW k \in 1..Len(query), query[k].cmd = "WORD"
               PROVE  words'[query[k].arg].phrlen =
                         IF words[query[k].arg].phrlen = 0 THEN len ELSE words[query[k].arg].phrlen
    OBVIOUS
  <2> DEFINE o == query[k].arg
  <2>1. o \in DOMAIN words
    BY <1>2 DEF ShapeInv, Shaped, Orders
  <2> HIDE DEF o, len
  <2>2. words[o] \in WordSet
    BY <1>2, <2>1
  <2>3. [words[o] EXCEPT !.phrlen = len].phrlen = len
    BY <2>2 DEF WordSet
  <2>4. words'[o] = IF words[o].phrlen = 0 THEN [words[o] EXCEPT !.phrlen = len] ELSE words[o]
    BY <1>1, <2>1
  <2>5. words'[o].phrlen = IF words[o].phrlen = 0 THEN len ELSE words[o].phrlen
    BY <2>3, <2>4
  <2> QED BY <2>5 DEF o
<1>6. \A i \in 1..Len(query) :
         query[i].cmd = "PHRASE" /\ (\A h \in (i + 1)..Len(query) : query[h].cmd # "PHRASE") =>
            len = Len(query) - i
  BY <1>1, PhraseItemsFacts
<1>7. \A i \in 1..Len(query) :
         query[i].cmd = "PHRASE" /\ (\A h \in (i + 1)..Len(query) : query[h].cmd # "PHRASE") =>
           \/ \E a, b \in (i + 1)..Len(query) :
                 a < b /\ query[a].cmd = "WORD" /\ query[b].cmd = "WORD"
           \/ Len(query) = i + 1 /\ query[i + 1].cmd = "WORD"
  <2> SUFFICES ASSUME NEW i \in 1..Len(query), query[i].cmd = "PHRASE",
                      \A h \in (i + 1)..Len(query) : query[h].cmd # "PHRASE"
               PROVE  \/ \E a, b \in (i + 1)..Len(query) :
                            a < b /\ query[a].cmd = "WORD" /\ query[b].cmd = "WORD"
                      \/ Len(query) = i + 1 /\ query[i + 1].cmd = "WORD"
    OBVIOUS
  <2>1. \A h \in (i + 1)..Len(query) : InPhrase(query, h)
    <3> TAKE h \in (i + 1)..Len(query)
    <3>1. /\ h \in Nat \ {0} /\ Len(query) + 1 \in Nat /\ h <= Len(query) + 1
          /\ \A g \in h..((Len(query) + 1) - 1) : g \in (i + 1)..Len(query)
      BY <1>2
    <3> DEFINE M == Len(query) + 1
    <3>2. M \in Nat /\ h <= M /\ InPhrase(query, M) /\ \A g \in h..(M - 1) : query[g].cmd # "PHRASE"
      BY <1>1, <1>2, <3>1
    <3> HIDE DEF M
    <3> QED BY <3>1, <3>2, SamePhrase
  <2> QED BY <1>1, <2>1, FilledClose
<1> HIDE DEF len, set
<1>8. Orders(query', nuniq) /\ Nested(query')
  BY <1>3, OrdersMore, NestedMore DEF ShapeInv, Shaped
<1>9. Lengths(query', words')
  <2>1. Lengths(query, words)
    BY DEF ShapeInv, Shaped
  <2> DEFINE ws2 == words'
             more == query'
  <2>2. LengthsSet(query, words, ws2, len) /\ LastPhraseLen(query, len)
    BY <1>5, <1>6 DEF LengthsSet, LastPhraseLen
  <2>3. Grown(ItemSet(nuniq + 1), query, x, more)
    BY <1>3
  <2> HIDE DEF ws2, more
  <2>4. Lengths(more, ws2)
    BY <1>3, <2>1, <2>2, <2>3, LengthsClose
  <2> QED BY <2>4 DEF ws2, more
<1>10. Filled(query')
  BY <1>3, <1>7, FilledMore DEF ShapeInv, Shaped
<1>11. Shaped(query', nuniq', words')
  BY <1>4, <1>8, <1>9, <1>10 DEF Shaped
<1> QED BY <1>11 DEF ShapeInv

LEMMA NextShape == BoolInv /\ ShapeInv /\ [Next]_vars => ShapeInv'
<1> SUFFICES ASSUME BoolInv, ShapeInv, [Next]_vars PROVE ShapeInv'
  OBVIOUS
<1>1. ASSUME NEW cmd \in {"OR", "AND", "NOT", "LEFT", "RIGHT"}, AddCmd(cmd) PROVE ShapeInv'
  BY <1>1, AddCmdShape
<1>2. ASSUME NEW w \in Words, AddWord(w) PROVE ShapeInv'
  BY <1>2, AddWordShape
<1>3. CASE AddStop
  BY <1>3, AddStopShape
<1>4. CASE OpenPhrase
  BY <1>4, OpenPhraseShape
<1>5. CASE ClosePhrase
  BY <1>5, ClosePhraseShape
<1>6. ASSUME query' = query, words' = words PROVE ShapeInv'
  <2>1. Shaped(query', nuniq', words')
    BY <1>6 DEF ShapeInv, nuniq
  <2> QED BY <2>1 DEF ShapeInv
<1>7. CASE Search \/ UNCHANGED vars
  BY <1>6, <1>7 DEF Search, vars
<1> QED BY <1>1, <1>2, <1>3, <1>4, <1>5, <1>7 DEF Next

-----------------------------------------------------------------------------
(* The words and phrases that count[] has are those the text has.          *)

\* A complete query, whose words are those of WWList.
Asked(list) ==
  /\ Complete(list) /\ list \in Seq(ItemSet(nuniq)) /\ Shaped(list, nuniq, words)
  /\ nuniq \in Nat /\ DOMAIN words = 1..nuniq

Text(t) == Len(t) \in Nat /\ DOMAIN t = 1..Len(t)

\* The items between the quotes of a phrase.
Inner(list, i, j) == SubSeq(list, i + 1, j - 1)

LEMMA SubItems ==
    ASSUME NEW list, Asked(list), NEW a \in 1..Len(list), NEW b \in a..Len(list)
    PROVE  /\ Len(SubSeq(list, a, b)) = b - a + 1
           /\ DOMAIN SubSeq(list, a, b) = 1..(b - a + 1)
           /\ \A x \in 1..(b - a + 1) : SubSeq(list, a, b)[x] = list[a + x - 1]
<1> DEFINE S == ItemSet(nuniq)
           c == SubSeq(list, a, b)
<1>1. DOMAIN list = 1..Len(list) /\ Len(list) \in Nat
  BY DEF Asked, Complete
<1>2. \A x \in a..b : list[x] \in S
  <2> HIDE DEF S
  <2>1. list \in Seq(S)
    BY DEF Asked, S
  <2> QED BY <1>1, <2>1
<1>3. /\ c \in Seq(S)
      /\ Len(c) = IF a <= b THEN b - a + 1 ELSE 0
      /\ \A x \in 1..b - a + 1 : c[x] = list[a + x - 1]
  <2> HIDE DEF S
  <2>1. a \in Int /\ b \in Int
    BY <1>1
  <2> QED BY <1>2, <2>1, SubSeqProperties DEF c
<1> HIDE DEF c, S
<1>4. Len(c) = b - a + 1 /\ DOMAIN c = 1..Len(c)
  BY <1>1, <1>3
<1> QED BY <1>3, <1>4 DEF c

LEMMA InnerItems ==
    ASSUME NEW list, Asked(list), NEW i, NEW j, Quotes(list, i, j), i + 1 <= j - 1
    PROVE  /\ Len(Inner(list, i, j)) = j - i - 1 /\ DOMAIN Inner(list, i, j) = 1..(j - i - 1)
           /\ \A x \in 1..(j - i - 1) : Inner(list, i, j)[x] = list[i + x]
<1> DEFINE c == SubSeq(list, i + 1, j - 1)
<1>1. i \in 1..Len(list) /\ j \in 1..Len(list) /\ i < j /\ Len(list) \in Nat
  BY QuotesInside DEF Asked, Complete
<1>2. /\ i + 1 \in 1..Len(list) /\ j - 1 \in (i + 1)..Len(list)
      /\ (j - 1) - (i + 1) + 1 = j - i - 1
  BY <1>1
<1>3. /\ Len(c) = (j - 1) - (i + 1) + 1 /\ DOMAIN c = 1..((j - 1) - (i + 1) + 1)
      /\ \A x \in 1..((j - 1) - (i + 1) + 1) : c[x] = list[(i + 1) + x - 1]
  BY <1>2, SubItems
<1> HIDE DEF c
<1>4. ASSUME NEW x \in 1..(j - i - 1) PROVE c[x] = list[i + x]
  <2>1. (i + 1) + x - 1 = i + x
    BY <1>1
  <2> QED BY <1>2, <1>3, <2>1
<1> QED BY <1>2, <1>3, <1>4 DEF c, Inner

\* A phrase has a first word, whose order its first item has.
LEMMA PhraseStarts ==
    ASSUME NEW list, Asked(list), NEW i, NEW j, Quotes(list, i, j)
    PROVE  \E k : /\ FirstWord(list, i, j, k) /\ list[i + 1].arg = list[k].arg
                  /\ k \in 1..Len(list) /\ list[k].arg \in 1..nuniq
<1> DEFINE W == {h \in (i + 1)..(j - 1) : list[h].cmd = "WORD"}
           k == Min(W)
<1>1. /\ i \in 1..Len(list) /\ j \in 1..Len(list) /\ i < j /\ Len(list) \in Nat
      /\ \A l \in (i + 1)..(j - 1) : list[l].cmd \in {"WORD", "STOP"}
  BY QuotesInside DEF Asked, Complete
<1>2. W # {} /\ W \subseteq Nat
  BY <1>1 DEF Asked, Shaped, Filled
<1>3. k \in W /\ \A y \in W : k <= y
  <2> HIDE DEF W
  <2> QED BY <1>2, MinIsLeast
<1> HIDE DEF k
<1>4. FirstWord(list, i, j, k)
  BY <1>1, <1>3 DEF FirstWord
<1>5. k \in 1..Len(list) /\ list[k].arg \in 1..nuniq
  BY <1>1, <1>3 DEF Asked, Shaped, Orders
<1>6. CASE k = i + 1
  BY <1>4, <1>5, <1>6
<1>7. CASE k # i + 1
  <2>1. i + 1 \in 1..Len(list) /\ i + 1 < k /\ list[i + 1].cmd = "STOP"
    BY <1>1, <1>3, <1>7
  <2>2. FirstOf(list, i + 1, k, "WORD")
    BY <1>1, <1>3, <2>1 DEF FirstOf
  <2> QED BY <1>4, <1>5, <2>1, <2>2 DEF Asked, Shaped, Orders
<1> QED BY <1>6, <1>7

\* CheckOnePhrase finds a phrase that stands in the text.
LEMMA PhraseFound ==
    ASSUME NEW list, Asked(list), NEW t, Text(t), NEW i, NEW j, NEW k,
           FirstWord(list, i, j, k)
    PROVE  CheckOnePhrase(Coords(t), SubSeq(list, k, j - 1)) <=> PhraseIn(Inner(list, i, j), t)
<1> DEFINE c == Inner(list, i, j)
           p == SubSeq(list, k, j - 1)
           h == k - i
<1>1. /\ i \in 1..Len(list) /\ j \in 1..Len(list) /\ i < j /\ Len(list) \in Nat
      /\ \A l \in (i + 1)..(j - 1) : list[l].cmd \in {"WORD", "STOP"}
      /\ k \in (i + 1)..(j - 1) /\ list[k].cmd = "WORD"
      /\ \A g \in (i + 1)..(k - 1) : list[g].cmd = "STOP"
  <2>1. Quotes(list, i, j) /\ Complete(list) /\ Len(list) \in Nat
    BY DEF FirstWord, Asked, Complete
  <2>2. /\ i \in 1..Len(list) /\ j \in 1..Len(list) /\ i < j
        /\ \A l \in (i + 1)..(j - 1) : list[l].cmd \in {"WORD", "STOP"}
    BY <2>1, QuotesInside
  <2> QED BY <2>1, <2>2 DEF FirstWord
<1>2. /\ Len(c) = j - i - 1 /\ DOMAIN c = 1..(j - i - 1)
      /\ \A x \in 1..(j - i - 1) : c[x] = list[i + x]
  <2>1. i + 1 <= j - 1 /\ Quotes(list, i, j)
    BY <1>1 DEF FirstWord
  <2> QED BY <2>1, InnerItems
<1>3. /\ Len(p) = j - k /\ DOMAIN p = 1..(j - k)
      /\ \A x \in 1..(j - k) : p[x] = list[k + x - 1]
  <2>1. k \in 1..Len(list) /\ j - 1 \in k..Len(list) /\ (j - 1) - k + 1 = j - k
    BY <1>1
  <2>2. /\ Len(p) = (j - 1) - k + 1 /\ DOMAIN p = 1..((j - 1) - k + 1)
        /\ \A x \in 1..((j - 1) - k + 1) : p[x] = list[k + x - 1]
    BY <2>1, SubItems
  <2> QED BY <2>1, <2>2
<1>4. \A l \in 1..Len(list) : list[l].cmd = "WORD" => list[l].arg \in 1..nuniq
  BY DEF Asked, Shaped, Orders
<1>5. nuniq \in Nat /\ DOMAIN words = 1..nuniq /\ Len(t) \in Nat /\ DOMAIN t = 1..Len(t)
  BY DEF Asked, Text
<1> HIDE DEF c, p
<1>6. Pattern(p)
  <2>1. \A x \in 1..(j - k) : p[x] = list[k + x - 1] /\ k + x - 1 \in (i + 1)..(j - 1)
                              /\ k + x - 1 \in 1..Len(list)
    BY <1>1, <1>3
  <2>2. 1 \in 1..(j - k) /\ k + 1 - 1 = k /\ j - k \in Nat \ {0}
    BY <1>1
  <2> QED BY <1>1, <1>3, <1>4, <2>1, <2>2 DEF Pattern
<1>7. /\ h \in 1..Len(c) /\ c[h] = list[k] /\ Len(p) = Len(c) - h + 1
      /\ Len(c) \in Nat \ {0} /\ DOMAIN c = 1..Len(c)
  <2>1. h \in 1..(j - i - 1) /\ i + h = k
    BY <1>1
  <2> QED BY <1>1, <1>2, <1>3, <2>1
<1>8. \A l \in 1..Len(c) : c[l].cmd \in {"WORD", "STOP"}
  <2> TAKE l \in 1..Len(c)
  <2>1. l \in 1..(j - i - 1) /\ i + l \in (i + 1)..(j - 1)
    BY <1>1, <1>2
  <2> QED BY <1>1, <1>2, <2>1
<1>9. \A l \in 1..(h - 1) : c[l].cmd = "STOP"
  <2> TAKE l \in 1..(h - 1)
  <2>1. l \in 1..(j - i - 1) /\ i + l \in (i + 1)..(k - 1)
    BY <1>1
  <2> QED BY <1>1, <1>2, <2>1
<1>10. \A x \in 1..Len(p) : p[x] = c[x + h - 1]
  <2> TAKE x \in 1..Len(p)
  <2>1. x \in 1..(j - k) /\ x + h - 1 \in 1..(j - i - 1) /\ i + (x + h - 1) = k + x - 1
    BY <1>1, <1>3
  <2> HIDE DEF h
  <2> QED BY <1>2, <1>3, <2>1
<1> HIDE DEF h
<1>11. PhraseIn(c, t) <=> \E q \in 1..Len(t) : Stands(p, t, q, Len(p))
  BY <1>1, <1>5, <1>6, <1>7, <1>8, <1>9, <1>10, PhraseStands
<1>12. CheckOnePhrase(Coords(t), p) <=> \E q \in 1..Len(t) : Stands(p, t, q, Len(p))
  BY <1>5, <1>6, PhraseChecked
<1> QED BY <1>11, <1>12 DEF c, p

\* A text that has a phrase has its words; a phrase of one word is that word.
LEMMA PhraseHas ==
    ASSUME NEW list, Asked(list), NEW t, Text(t), NEW i, NEW j, Quotes(list, i, j),
           NEW l \in (i + 1)..(j - 1), list[l].cmd = "WORD"
    PROVE  /\ PhraseIn(Inner(list, i, j), t) => Has(t, list[l].arg)
           /\ j = i + 2 /\ Has(t, list[l].arg) => PhraseIn(Inner(list, i, j), t)
<1> DEFINE c == Inner(list, i, j)
<1>1. i \in 1..Len(list) /\ j \in 1..Len(list) /\ i < j /\ Len(list) \in Nat
  BY QuotesInside DEF Asked, Complete
<1>2. /\ Len(c) = j - i - 1 /\ DOMAIN c = 1..(j - i - 1)
      /\ \A x \in 1..(j - i - 1) : c[x] = list[i + x]
  <2>1. i + 1 <= j - 1
    BY <1>1
  <2> QED BY <2>1, InnerItems
<1> HIDE DEF c
<1>3. l - i \in 1..(j - i - 1) /\ i + (l - i) = l
  BY <1>1
<1>4. l - i \in DOMAIN c /\ c[l - i] = list[l]
  BY <1>2, <1>3
<1>5. ASSUME PhraseIn(c, t) PROVE Has(t, list[l].arg)
  BY <1>4, <1>5 DEF PhraseIn, Has
<1>6. ASSUME j = i + 2, Has(t, list[l].arg) PROVE PhraseIn(c, t)
  <2>1. PICK p \in DOMAIN t : t[p] = words[list[l].arg].word
    BY <1>6 DEF Has
  <2> DEFINE off == p - 1
  <2>2. /\ Len(c) = 1 /\ DOMAIN c = 1..1 /\ c[1] = list[l] /\ off + 1 = p
        /\ off \in -Len(c)..Len(t)
    BY <1>1, <1>2, <1>4, <1>6, <2>1 DEF Text
  <2>3. \A k \in DOMAIN c : k = 1
    BY <2>2
  <2> HIDE DEF off
  <2>4. \A k \in DOMAIN c : c[k].cmd = "WORD" /\ off + k \in DOMAIN t
                            /\ t[off + k] = words[c[k].arg].word
    BY <2>1, <2>2, <2>3
  <2> QED BY <2>2, <2>4 DEF PhraseIn
<1> QED BY <1>5, <1>6 DEF c

\* Two words of the query that the text has give it two sections and two
\* coordinates.
LEMMA BothFound ==
    ASSUME NEW t, Text(t), nuniq \in Nat, DOMAIN words = 1..nuniq,
           NEW a \in 1..nuniq, NEW b \in 1..nuniq, a # b, Has(t, a), Has(t, b)
    PROVE  Cardinality(Found(t)) >= 2 /\ Len(Coords(t)) > 1
<1>1. Found(t) \subseteq 1..nuniq /\ ({a} \cup {b}) \subseteq Found(t)
  BY DEF Found
<1>2. Cardinality({a} \cup {b}) = 2
  <2>1. Cardinality({a}) = 1 /\ IsFiniteSet({a})
    BY FS_Singleton
  <2>2. Cardinality({a} \cup {b}) = Cardinality({a}) + 1
    BY <2>1, FS_AddElement
  <2> DEFINE one == Cardinality({a})
             two == Cardinality({a} \cup {b})
  <2>3. one = 1 /\ two = one + 1
    BY <2>1, <2>2
  <2> HIDE DEF one, two
  <2>4. two = 2
    BY <2>3
  <2> QED BY <2>4 DEF two
<1>3. IsFiniteSet(Found(t))
  <2>1. IsFiniteSet(1..nuniq) /\ Found(t) \in SUBSET (1..nuniq)
    BY <1>1, FS_Interval
  <2> QED BY <2>1, FS_Subset
<1>4. Cardinality({a} \cup {b}) <= Cardinality(Found(t))
  BY <1>1, <1>3, FS_Subset
<1>5. CoordsUpTo(Coords(t), t, Len(t))
  BY CoordsFacts DEF Text
<1>6. /\ \E p \in 1..Len(t) : t[p] = words[a].word
      /\ \E p \in 1..Len(t) : t[p] = words[b].word
  BY DEF Has, Text
<1> DEFINE crd == Coords(t)
<1> HIDE DEF crd
<1>7. CoordsUpTo(crd, t, Len(t))
  BY <1>5 DEF crd
<1>8. /\ \E x \in 1..Len(crd) : crd[x].order = a
      /\ \E x \in 1..Len(crd) : crd[x].order = b
  <2>1. \A p, o : (\E x \in 1..Len(crd) : crd[x].pos = p /\ crd[x].order = o)
                     <=> p \in 1..Len(t) /\ o \in 1..nuniq /\ words[o].word = t[p]
    BY <1>7 DEF CoordsUpTo
  <2>2. PICK p \in 1..Len(t) : t[p] = words[a].word
    BY <1>6
  <2>3. PICK q \in 1..Len(t) : t[q] = words[b].word
    BY <1>6
  <2>4. \E x \in 1..Len(crd) : crd[x].pos = p /\ crd[x].order = a
    <3>1. (\E x \in 1..Len(crd) : crd[x].pos = p /\ crd[x].order = a)
             <=> p \in 1..Len(t) /\ a \in 1..nuniq /\ words[a].word = t[p]
      BY <2>1, Zenon
    <3> QED BY <2>2, <3>1
  <2>5. \E x \in 1..Len(crd) : crd[x].pos = q /\ crd[x].order = b
    <3>1. (\E x \in 1..Len(crd) : crd[x].pos = q /\ crd[x].order = b)
             <=> q \in 1..Len(t) /\ b \in 1..nuniq /\ words[b].word = t[q]
      BY <2>1, Zenon
    <3> QED BY <2>3, <3>1
  <2> QED BY <2>4, <2>5
<1>9. Len(crd) \in Nat
  BY <1>7 DEF CoordsUpTo
<1>10. Len(crd) > 1
  BY <1>8, <1>9
<1>11. Cardinality(Found(t)) \in Nat
  BY <1>3, FS_CardinalityType
<1> QED BY <1>2, <1>4, <1>10, <1>11 DEF crd

LEMMA CountedBool ==
    ASSUME NEW full, NEW t, NEW o
    PROVE  o \in Counted(full, "bool", t) <=>
             \/ o \in Found(t) /\ words[o].phrlen < 2
             \/ /\ Cardinality(Found(t)) >= 2 /\ Len(Coords(t)) > 1
                /\ \E p \in Phrases(full) :
                      /\ CheckOnePhrase(Coords(t), p)
                      /\ \E h \in DOMAIN p : p[h].cmd = "WORD" /\ p[h].arg = o
<1> DEFINE Set(p) == {p[h].arg : h \in {j \in DOMAIN p : p[j].cmd = "WORD"}}
           In == UNION {Set(p) : p \in {q \in Phrases(full) : CheckOnePhrase(Coords(t), q)}}
           Two == Cardinality(Found(t)) >= 2 /\ Len(Coords(t)) > 1
<1>1. Counted(full, "bool", t) = {x \in Found(t) : words[x].phrlen < 2} \cup IF Two THEN In ELSE {}
  BY DEF Counted
<1>2. o \in In <=> \E p \in Phrases(full) :
                      /\ CheckOnePhrase(Coords(t), p)
                      /\ \E h \in DOMAIN p : p[h].cmd = "WORD" /\ p[h].arg = o
  OBVIOUS
<1> HIDE DEF In, Two
<1>3. o \in Counted(full, "bool", t) <=>
        (o \in Found(t) /\ words[o].phrlen < 2) \/ (Two /\ o \in In)
  BY <1>1
<1> QED BY <1>2, <1>3 DEF Two

\* full is the completed list of list.
Copy(list, full) ==
  /\ full \in Seq(ItemSet(nuniq))
  /\ \E m, place : Spread(list, m, full, place, Len(list))

LEMMA CopyPhrases ==
    ASSUME NEW list, Asked(list), NEW full, Copy(list, full), NEW p
    PROVE  p \in Phrases(full) <=> PhraseOf(list, p)
<1> DEFINE S == ItemSet(nuniq)
<1>1. PICK m, place : Spread(list, m, full, place, Len(list))
  BY DEF Copy
<1>2. Worded(list)
  BY PhraseStarts DEF Worded
<1>3. full \in Seq(S) /\ list \in Seq(S) /\ Complete(list)
  BY DEF Copy, Asked
<1> HIDE DEF S
<1> QED BY <1>1, <1>2, <1>3, PhrasesCopied

\* A word of the query that counts is in the text, alone or with its phrase.
LEMMA CountedWord ==
    ASSUME NEW list, Asked(list), NEW full, Copy(list, full), NEW t, Text(t),
           NEW l \in 1..Len(list), list[l].cmd = "WORD", list[l].arg \in Counted(full, "bool", t)
    PROVE  /\ Has(t, list[l].arg)
           /\ \/ words[list[l].arg].phrlen < 2
              \/ \E i, j : /\ Quotes(list, i, j) /\ i < l /\ l < j
                           /\ PhraseIn(Inner(list, i, j), t)
<1> DEFINE o == list[l].arg
<1>1. CASE o \in Found(t) /\ words[o].phrlen < 2
  BY <1>1 DEF Found
<1>2. CASE \E p \in Phrases(full) :
             /\ CheckOnePhrase(Coords(t), p)
             /\ \E h \in DOMAIN p : p[h].cmd = "WORD" /\ p[h].arg = o
  <2>1. PICK p \in Phrases(full) :
             /\ CheckOnePhrase(Coords(t), p)
             /\ \E h \in DOMAIN p : p[h].cmd = "WORD" /\ p[h].arg = o
    BY <1>2
  <2>2. PICK h \in DOMAIN p : p[h].cmd = "WORD" /\ p[h].arg = o
    BY <2>1
  <2>3. PICK i, j, k : FirstWord(list, i, j, k) /\ p = SubSeq(list, k, j - 1)
    BY <2>1, CopyPhrases DEF PhraseOf
  <2>4. /\ Quotes(list, i, j) /\ k \in (i + 1)..(j - 1)
        /\ i \in 1..Len(list) /\ j \in 1..Len(list) /\ Len(list) \in Nat
    <3>1. Quotes(list, i, j) /\ k \in (i + 1)..(j - 1) /\ Complete(list) /\ Len(list) \in Nat
      BY <2>3 DEF FirstWord, Asked, Complete
    <3> QED BY <3>1, QuotesInside
  <2>5. PhraseIn(Inner(list, i, j), t)
    BY <2>1, <2>3, PhraseFound
  <2>6. /\ DOMAIN p = 1..((j - 1) - k + 1)
        /\ \A x \in 1..((j - 1) - k + 1) : p[x] = list[k + x - 1]
    <3>1. k \in 1..Len(list) /\ j - 1 \in k..Len(list)
      BY <2>4
    <3> QED BY <2>3, <3>1, SubItems
  <2> DEFINE g == k + h - 1
  <2>7. h \in 1..((j - 1) - k + 1) /\ g \in (i + 1)..(j - 1) /\ g \in 1..Len(list)
    BY <2>2, <2>4, <2>6
  <2>8. list[g].cmd = "WORD" /\ list[g].arg = list[l].arg
    BY <2>2, <2>6, <2>7
  <2> HIDE DEF g
  <2>9. g = l
    <3>1. \A x, y \in 1..Len(list) :
             x < y /\ list[x].cmd = "WORD" /\ list[y].cmd = "WORD" => list[x].arg < list[y].arg
      BY DEF Asked, Shaped, Orders
    <3>2. list[l].arg \in 1..nuniq /\ nuniq \in Nat
      BY DEF Asked, Shaped, Orders
    <3>3. ~(list[g].arg < list[l].arg) /\ ~(list[l].arg < list[g].arg)
      BY <2>8, <3>2
    <3>4. ~(g < l) /\ ~(l < g)
      BY <2>7, <2>8, <3>1, <3>3
    <3> QED BY <2>4, <2>7, <3>4
  <2>10. Has(t, list[l].arg)
    BY <2>4, <2>5, <2>7, <2>9, PhraseHas
  <2>11. i < l /\ l < j
    BY <2>4, <2>7, <2>9
  <2> QED BY <2>4, <2>5, <2>10, <2>11
<1> QED BY <1>1, <1>2, CountedBool

LEMMA PhraseCounts ==
    ASSUME NEW list, Asked(list), NEW full, Copy(list, full), NEW t, Text(t),
           NEW i, NEW j, Quotes(list, i, j)
    PROVE  list[i + 1].arg \in Counted(full, "bool", t) <=> PhraseIn(Inner(list, i, j), t)
<1> DEFINE C == Counted(full, "bool", t)
<1>1. /\ i \in 1..Len(list) /\ j \in 1..Len(list) /\ i < j /\ Len(list) \in Nat
      /\ DOMAIN list = 1..Len(list)
  BY QuotesInside DEF Asked, Complete
<1>2. PICK k : /\ FirstWord(list, i, j, k) /\ list[i + 1].arg = list[k].arg
               /\ k \in 1..Len(list) /\ list[k].arg \in 1..nuniq
  BY PhraseStarts
<1>3. k \in (i + 1)..(j - 1) /\ list[k].cmd = "WORD" /\ i < k /\ k < j
  BY <1>1, <1>2 DEF FirstWord
<1>4. words[list[k].arg].phrlen = j - i - 1
  BY <1>1, <1>2, <1>3 DEF Asked, Shaped, Lengths
<1>5. ASSUME list[k].arg \in C PROVE PhraseIn(Inner(list, i, j), t)
  <2>1. /\ Has(t, list[k].arg)
        /\ \/ words[list[k].arg].phrlen < 2
           \/ \E x, y : /\ Quotes(list, x, y) /\ x < k /\ k < y
                        /\ PhraseIn(Inner(list, x, y), t)
    BY <1>2, <1>3, <1>5, CountedWord
  <2>2. CASE words[list[k].arg].phrlen < 2
    <3>1. j = i + 2
      BY <1>1, <1>3, <1>4, <2>2
    <3> QED BY <1>3, <2>1, <3>1, PhraseHas
  <2>3. CASE \E x, y : /\ Quotes(list, x, y) /\ x < k /\ k < y
                       /\ PhraseIn(Inner(list, x, y), t)
    <3>1. PICK x, y : /\ Quotes(list, x, y) /\ x < k /\ k < y
                      /\ PhraseIn(Inner(list, x, y), t)
      BY <2>3
    <3>2. x = i /\ y = j
      BY <1>1, <1>2, <1>3, <3>1, QuotesUnique
    <3> QED BY <3>1, <3>2
  <2> QED BY <2>1, <2>2, <2>3
<1>6. ASSUME PhraseIn(Inner(list, i, j), t) PROVE list[k].arg \in C
  <2>1. \A l \in (i + 1)..(j - 1) : list[l].cmd = "WORD" => Has(t, list[l].arg)
    BY <1>6, PhraseHas
  <2>2. list[k].arg \in Found(t)
    BY <1>2, <1>3, <2>1 DEF Found, Asked
  <2>3. CASE j = i + 2
    <3>1. words[list[k].arg].phrlen < 2
      BY <1>1, <1>4, <2>3
    <3> QED BY <2>2, <3>1, CountedBool
  <2>4. CASE \E a, b \in (i + 1)..(j - 1) : a < b /\ list[a].cmd = "WORD" /\ list[b].cmd = "WORD"
    <3>1. PICK a, b \in (i + 1)..(j - 1) : a < b /\ list[a].cmd = "WORD" /\ list[b].cmd = "WORD"
      BY <2>4
    <3>2. a \in 1..Len(list) /\ b \in 1..Len(list)
      BY <1>1
    <3>3. /\ list[a].arg \in 1..nuniq /\ list[b].arg \in 1..nuniq /\ list[a].arg < list[b].arg
          /\ nuniq \in Nat /\ DOMAIN words = 1..nuniq
      BY <3>1, <3>2 DEF Asked, Shaped, Orders
    <3>4. Has(t, list[a].arg) /\ Has(t, list[b].arg)
      BY <2>1, <3>1
    <3>5. list[a].arg # list[b].arg
      BY <3>3
    <3>6. Cardinality(Found(t)) >= 2 /\ Len(Coords(t)) > 1
      BY <3>3, <3>4, <3>5, BothFound
    <3> DEFINE p == SubSeq(list, k, j - 1)
    <3>7. p \in Phrases(full)
      BY <1>2, CopyPhrases DEF PhraseOf
    <3>8. CheckOnePhrase(Coords(t), p)
      BY <1>2, <1>6, PhraseFound
    <3>9. 1 \in DOMAIN p /\ p[1] = list[k]
      <4>1. k \in 1..Len(list) /\ j - 1 \in k..Len(list) /\ 1 \in 1..((j - 1) - k + 1)
            /\ k + 1 - 1 = k
        BY <1>1, <1>3
      <4> QED BY <4>1, SubItems
    <3> HIDE DEF p
    <3>10. \E h \in DOMAIN p : p[h].cmd = "WORD" /\ p[h].arg = list[k].arg
      BY <1>3, <3>9
    <3> QED BY <3>6, <3>7, <3>8, <3>10, CountedBool
  <2> QED BY <1>1, <2>3, <2>4 DEF Asked, Shaped, Filled
<1> QED BY <1>2, <1>5, <1>6

LEMMA CountedTruth ==
    ASSUME NEW list, Asked(list), NEW full, Copy(list, full), NEW t, Text(t)
    PROVE  Truth(list, Counted(full, "bool", t), t)
<1> DEFINE C == Counted(full, "bool", t)
<1>1. DOMAIN list = 1..Len(list)
  BY DEF Asked, Complete
<1>2. ASSUME NEW l \in 1..Len(list), list[l].cmd = "WORD", ~InPhrase(list, l)
      PROVE  list[l].arg \in C <=> Has(t, list[l].arg)
  <2>1. /\ words[list[l].arg].phrlen < 2
        /\ list[l].arg \in DOMAIN words
    BY <1>2 DEF Asked, Shaped, Lengths, Orders
  <2>2. ASSUME Has(t, list[l].arg) PROVE list[l].arg \in C
    <3>1. list[l].arg \in Found(t)
      BY <2>1, <2>2 DEF Found
    <3> QED BY <2>1, <3>1, CountedBool
  <2> QED BY <1>2, <2>2, CountedWord
<1>3. ASSUME NEW i, NEW j, Quotes(list, i, j)
      PROVE  list[i + 1].arg \in C <=> PhraseIn(SubSeq(list, i + 1, j - 1), t)
  BY <1>3, PhraseCounts DEF Inner
<1> QED BY <1>1, <1>2, <1>3 DEF Truth

-----------------------------------------------------------------------------
(* A search.                                                               *)

LEMMA SearchAsked ==
    ASSUME BoolInv, ShapeInv, ~Expecting, ~quoted, Open = 0
    PROVE  Asked(query) /\ query # <<>> /\ Last(query).cmd \in EndsOperand
<1>1. /\ nuniq \in Nat /\ query \in Seq(ItemSet(nuniq)) /\ Typed(query)
      /\ DOMAIN words = 1..nuniq /\ ~InPhrase(query, Len(query) + 1)
  BY DEF BoolInv, DataInv, QueryInv, nuniq
<1>2. query # <<>> /\ Last(query).cmd \in EndsOperand
  <2>1. query # <<>> /\ Last(query).cmd \notin {"LEFT", "OR", "AND", "NOT"}
    BY DEF Expecting
  <2>2. Last(query) \in ItemSet(nuniq)
    BY <1>1, <2>1, FrontLast
  <2>3. Last(query).cmd \in Cmds
    BY <1>1, <2>2, ItemFacts
  <2> QED BY <2>1, <2>3 DEF EndsOperand, Cmds
<1>3. DOMAIN query = 1..Len(query) /\ Len(query) \in Nat \ {0} /\ Last(query) = query[Len(query)]
  <2> DEFINE S == ItemSet(nuniq)
  <2>1. query \in Seq(S)
    BY <1>1
  <2> HIDE DEF S
  <2> QED BY <1>2, <2>1 DEF Last
<1>4. Depth(query, Len(query)) = 0
  BY <1>3, OpenIsDepth
<1>5. Complete(query)
  BY <1>1, <1>2, <1>3, <1>4 DEF ShapeInv, Shaped, Nested, Complete
<1> QED BY <1>1, <1>2, <1>5 DEF Asked, ShapeInv

\* The cmds of the items of a query.
LEMMA AskedItems ==
    ASSUME NEW list, Asked(list)
    PROVE  /\ Len(list) \in Nat \ {0} /\ DOMAIN list = 1..Len(list) /\ list # <<>>
           /\ Typed(list) /\ ~InPhrase(list, Len(list) + 1)
           /\ \A k \in 1..Len(list) : list[k].cmd \in Cmds
<1>1. /\ Len(list) \in Nat \ {0} /\ DOMAIN list = 1..Len(list) /\ Typed(list)
      /\ ~InPhrase(list, Len(list) + 1)
  BY DEF Asked, Complete
<1>2. \A k \in 1..Len(list) : list[k].cmd \in Cmds
  BY <1>1 DEF Typed, InOrder
<1>3. list # <<>>
  BY <1>1
<1> QED BY <1>1, <1>2, <1>3

LEMMA AskedCopy ==
    ASSUME NEW list, Asked(list)
    PROVE  /\ Copy(list, Completed(list, mode)) /\ Completed(list, mode) # <<>>
           /\ \E place : Spread(list, mode, Completed(list, mode), place, Len(list))
<1>1. nuniq \in Nat /\ list \in Seq(ItemSet(nuniq)) /\ list # <<>> /\ Typed(list)
  BY AskedItems DEF Asked
<1>2. Completed(list, mode) \in Seq(ItemSet(nuniq)) /\ Completed(list, mode) # <<>>
  BY <1>1, CompletedAlternates
<1>3. \E place : Spread(list, mode, Completed(list, mode), place, Len(list))
  BY <1>1, CompletedSpread
<1> QED BY <1>2, <1>3 DEF Copy

\* The stack machine computes what the query means.
LEMMA EvaluatedMeans ==
    ASSUME NEW list, Asked(list), NEW t, Text(t)
    PROVE  TopArg(Evaluated(Completed(list, mode), "bool", t)) <=> Means(list, t)
<1> DEFINE full == Completed(list, mode)
           count == Counted(full, "bool", t)
<1>1. nuniq \in Nat /\ list \in Seq(ItemSet(nuniq)) /\ Complete(list)
  BY DEF Asked
<1>2. list # <<>> /\ Typed(list) /\ ~InPhrase(list, Len(list) + 1)
  BY AskedItems
<1>3. PICK stack : /\ Trace(stack, list, count)
                   /\ CalcBoolItems(full, count) = Unwind(stack[Len(list)], 0)
  BY <1>1, <1>2, CompletedTrace
<1>4. Truth(list, count, t)
  BY AskedCopy, CountedTruth
<1>5. Evaluated(full, "bool", t) = Unwind(stack[Len(list)], 0)
  BY <1>3 DEF Evaluated
<1> HIDE DEF count, full
<1>6. TopArg(Unwind(stack[Len(list)], 0)) <=> Means(list, t)
  BY <1>1, <1>3, <1>4, MachineMeans
<1> QED BY <1>5, <1>6 DEF full

\* A word of a query stands alone or in a phrase.
LEMMA WordStands ==
    ASSUME NEW list, Asked(list), NEW o \in 1..nuniq
    PROVE  \E l \in 1..Len(list) : /\ list[l].cmd = "WORD" /\ list[l].arg = o
                                   /\ \/ ~InPhrase(list, l)
                                      \/ \E i, j : Quotes(list, i, j) /\ i < l /\ l < j
<1>1. PICK l \in 1..Len(list) : list[l].cmd = "WORD" /\ list[l].arg = o
  BY DEF Asked, Shaped, Orders
<1>2. CASE ~InPhrase(list, l)
  BY <1>1, <1>2
<1>3. CASE InPhrase(list, l)
  <2>1. list[l].cmd # "PHRASE" /\ Complete(list)
    BY <1>1 DEF Asked
  <2>2. \E i, j : Quotes(list, i, j) /\ i < l /\ l < j
    BY <1>3, <2>1, QuotesAround
  <2> QED BY <1>1, <2>2
<1> QED BY <1>2, <1>3

\* A query of ANDs holds only of texts that have all of its words.
LEMMA ConjunctiveFinds ==
    ASSUME NEW list, Asked(list), Conjunctive(list), NEW t, Text(t), Means(list, t)
    PROVE  /\ Found(t) = DOMAIN words
           /\ \A i, j : Quotes(list, i, j) => PhraseIn(Inner(list, i, j), t)
<1>1. Len(list) \in Nat \ {0} /\ DOMAIN list = 1..Len(list) /\ Complete(list)
  BY DEF Asked, Complete
<1>2. Summed(list, t, 1, Len(list))
  BY <1>1, PlainMeans
<1>3. \A k \in 1..Len(list) : Operand(list, k) => Holds(list, t, k)
  BY <1>2 DEF Summed
<1>4. ASSUME NEW i, NEW j, Quotes(list, i, j) PROVE PhraseIn(Inner(list, i, j), t)
  <2>1. i \in 1..Len(list) /\ j \in DOMAIN list /\ list[i].cmd = "PHRASE" /\ Operand(list, i)
    BY <1>1, <1>4 DEF Quotes, Operand
  <2>2. Holds(list, t, i)
    BY <1>3, <2>1
  <2> QED BY <1>4, <2>1, <2>2 DEF Holds, Inner
<1>5. ASSUME NEW o \in 1..nuniq PROVE Has(t, o)
  <2>1. PICK l \in 1..Len(list) : /\ list[l].cmd = "WORD" /\ list[l].arg = o
                                  /\ \/ ~InPhrase(list, l)
                                     \/ \E i, j : Quotes(list, i, j) /\ i < l /\ l < j
    BY WordStands
  <2>2. CASE ~InPhrase(list, l)
    <3>1. Operand(list, l)
      BY <2>1, <2>2 DEF Operand
    <3>2. Holds(list, t, l)
      BY <1>3, <3>1
    <3> QED BY <2>1, <3>2 DEF Holds
  <2>3. CASE \E i, j : Quotes(list, i, j) /\ i < l /\ l < j
    <3>1. PICK i, j : Quotes(list, i, j) /\ i < l /\ l < j
      BY <2>3
    <3>2. PhraseIn(Inner(list, i, j), t)
      BY <1>4, <3>1
    <3>3. l \in (i + 1)..(j - 1)
      <4>1. i \in 1..Len(list) /\ j \in 1..Len(list)
        BY <1>1, <3>1 DEF Quotes
      <4> QED BY <1>1, <3>1, <4>1
    <3> QED BY <2>1, <3>1, <3>2, <3>3, PhraseHas
  <2> QED BY <2>1, <2>2, <2>3
<1>6. DOMAIN words = 1..nuniq
  BY DEF Asked
<1> QED BY <1>4, <1>5, <1>6 DEF Found

\* A list that is computed with 'all words' is one of ANDs.
LEMMA OptimizedConjunctive ==
    ASSUME NEW list, Asked(list), OptimizeUsingAND(Completed(list, mode), "bool")
    PROVE  /\ Conjunctive(list)
           /\ \A k \in 1..Len(list) : list[k].cmd \in {"PHRASE", "AND", "WORD"}
<1> DEFINE full == Completed(list, mode)
<1>1. PICK place : Spread(list, mode, full, place, Len(list))
  BY AskedCopy
<1>2. Len(list) \in Nat
  BY AskedItems
<1>3. \A i \in DOMAIN full : full[i].cmd \in {"PHRASE", "AND", "WORD"}
  BY DEF OptimizeUsingAND
<1> HIDE DEF full
<1>4. DOMAIN full = 1..Len(full)
  BY <1>1 DEF Spread
<1>5. ASSUME NEW k \in 1..Len(list)
      PROVE  /\ list[k].cmd \in {"PHRASE", "AND", "WORD"}
             /\ mode = "any" => ~NeedsCmd(list, k)
  <2>1. /\ place[k] \in 1..Len(full)
        /\ NeedsCmd(list, k) => place[k] - 1 \in 1..Len(full)
    BY <1>1, <1>2, PlacePositive
  <2>2. /\ full[place[k]] = list[k]
        /\ NeedsCmd(list, k) => full[place[k] - 1] = Item(AddedCmd(mode), 0)
    BY <1>1 DEF Spread
  <2>3. list[k].cmd \in {"PHRASE", "AND", "WORD"}
    BY <1>3, <1>4, <2>1, <2>2
  <2>4. ASSUME mode = "any", NeedsCmd(list, k) PROVE FALSE
    <3>1. Item(AddedCmd(mode), 0).cmd = "OR"
      BY <2>4 DEF AddedCmd, Item
    <3> QED BY <1>3, <1>4, <2>1, <2>2, <2>4, <3>1
  <2> QED BY <2>3, <2>4
<1> QED BY <1>5 DEF Conjunctive

\* Two words are one phrase that the text has: they are not too far.
LEMMA PlacesNear ==
    ASSUME NEW t, Text(t), NEW p \in 1..Len(t), p + 1 \in 1..Len(t),
           t[p] = words[1].word, t[p + 1] = words[2].word
    PROVE  /\ ~(Min(Places(t, 1)) > Max(Places(t, 2)) + 1)
           /\ ~(Min(Places(t, 2)) > Max(Places(t, 1)) + 1)
<1> DEFINE P == Places(t, 1)
           Q == Places(t, 2)
<1>1. Len(t) \in Nat /\ P \subseteq 1..Len(t) /\ Q \subseteq 1..Len(t) /\ p \in P /\ p + 1 \in Q
  BY DEF Places, Text
<1> HIDE DEF P, Q
<1>2. P \subseteq Nat /\ Q \subseteq Nat /\ P # {} /\ Q # {}
  BY <1>1
<1>3. Min(P) \in P /\ Min(P) <= p
  BY <1>1, <1>2, MinIsLeast
<1>4. Min(Q) \in Q /\ Min(Q) <= p + 1
  BY <1>1, <1>2, MinIsLeast
<1>5. Max(P) \in P /\ p <= Max(P)
  BY <1>1, <1>2, MaxIsGreatest
<1>6. Max(Q) \in Q /\ p + 1 <= Max(Q)
  BY <1>1, <1>2, MaxIsGreatest
<1>7. Min(P) \in Nat /\ Min(Q) \in Nat /\ Max(P) \in Nat /\ Max(Q) \in Nat
  BY <1>2, <1>3, <1>4, <1>5, <1>6
<1>8. ~(Min(P) > Max(Q) + 1) /\ ~(Min(Q) > Max(P) + 1)
  BY <1>3, <1>4, <1>5, <1>6, <1>7
<1> QED BY <1>8 DEF P, Q

\* 'MinMaxPos2' skips no text that has the phrase.
LEMMA NearEnough ==
    ASSUME NEW list, Asked(list),
           \A k \in 1..Len(list) : list[k].cmd \in {"PHRASE", "AND", "WORD"},
           NEW t, Text(t),
           \A i, j : Quotes(list, i, j) => PhraseIn(Inner(list, i, j), t),
           nuniq = 2, words[1].phrlen = 2
    PROVE  /\ ~(Min(Places(t, 1)) > Max(Places(t, 2)) + 1)
           /\ ~(Min(Places(t, 2)) > Max(Places(t, 1)) + 1)
<1>1. PICK l \in 1..Len(list) : /\ list[l].cmd = "WORD" /\ list[l].arg = 1
                                /\ \/ ~InPhrase(list, l)
                                   \/ \E i, j : Quotes(list, i, j) /\ i < l /\ l < j
  <2>1. 1 \in 1..nuniq
    OBVIOUS
  <2> QED BY <2>1, WordStands
<1>2. InPhrase(list, l)
  BY <1>1 DEF Asked, Shaped, Lengths
<1>3. PICK i, j : Quotes(list, i, j) /\ i < l /\ l < j
  BY <1>1, <1>2
<1>4. i \in 1..Len(list) /\ j \in 1..Len(list) /\ Len(list) \in Nat
      /\ \A x \in (i + 1)..(j - 1) : list[x].cmd \in {"WORD", "STOP"}
  BY <1>3, QuotesInside DEF Asked, Complete
<1>5. j = i + 3
  <2>1. words[list[l].arg].phrlen = j - i - 1
    BY <1>1, <1>3, <1>4 DEF Asked, Shaped, Lengths
  <2> QED BY <1>1, <1>4, <2>1
<1>6. /\ i + 1 \in 1..Len(list) /\ i + 2 \in 1..Len(list)
      /\ list[i + 1].cmd = "WORD" /\ list[i + 2].cmd = "WORD"
  <2>1. i + 1 \in 1..Len(list) /\ i + 2 \in 1..Len(list)
        /\ i + 1 \in (i + 1)..(j - 1) /\ i + 2 \in (i + 1)..(j - 1)
    BY <1>4, <1>5
  <2>2. list[i + 1].cmd \in {"WORD", "STOP"} /\ list[i + 1].cmd \in {"PHRASE", "AND", "WORD"}
    BY <1>4, <2>1
  <2>3. list[i + 2].cmd \in {"WORD", "STOP"} /\ list[i + 2].cmd \in {"PHRASE", "AND", "WORD"}
    BY <1>4, <2>1
  <2> QED BY <2>1, <2>2, <2>3
<1>7. list[i + 1].arg = 1 /\ list[i + 2].arg = 2
  <2>1. /\ list[i + 1].arg \in 1..2 /\ list[i + 2].arg \in 1..2
        /\ list[i + 1].arg < list[i + 2].arg
    <3>1. i + 1 < i + 2
      BY <1>4
    <3> QED BY <1>6, <3>1 DEF Asked, Shaped, Orders
  <2> QED BY <2>1
<1> DEFINE c == Inner(list, i, j)
<1>8. Len(c) = 2 /\ DOMAIN c = 1..2 /\ c[1] = list[i + 1] /\ c[2] = list[i + 2]
  <2>1. i + 1 <= j - 1 /\ j - i - 1 = 2 /\ 1 \in 1..2 /\ 2 \in 1..2
    BY <1>4, <1>5
  <2>2. /\ Len(c) = j - i - 1 /\ DOMAIN c = 1..(j - i - 1)
        /\ \A x \in 1..(j - i - 1) : c[x] = list[i + x]
    BY <1>3, <2>1, InnerItems
  <2> HIDE DEF c
  <2> QED BY <2>1, <2>2
<1>9. PhraseIn(c, t)
  BY <1>3
<1> HIDE DEF c
<1>10. PICK off \in -2..Len(t) :
          \A k \in DOMAIN c : c[k].cmd = "WORD" =>
             off + k \in DOMAIN t /\ t[off + k] = words[c[k].arg].word
  BY <1>8, <1>9 DEF PhraseIn
<1>11. /\ off + 1 \in DOMAIN t /\ t[off + 1] = words[1].word
       /\ off + 2 \in DOMAIN t /\ t[off + 2] = words[2].word
  <2>1. 1 \in DOMAIN c /\ 2 \in DOMAIN c
    BY <1>8
  <2> QED BY <1>6, <1>7, <1>8, <1>10, <2>1
<1> DEFINE p == off + 1
<1>12. p + 1 = off + 2 /\ p \in 1..Len(t) /\ p + 1 \in 1..Len(t)
  BY <1>11 DEF Text
<1>13. t[p] = words[1].word /\ t[p + 1] = words[2].word
  BY <1>11, <1>12
<1> HIDE DEF p
<1> QED BY <1>12, <1>13, PlacesNear

\* A document of a search with a list is kept when the query holds of it.
LEMMA ListMatches ==
    ASSUME NEW list, Asked(list), nuniq # 1, NEW t, Text(t)
    PROVE  Matches(Completed(list, mode), "bool", t) <=> Means(list, t)
<1> DEFINE full == Completed(list, mode)
<1>1. TopArg(Evaluated(full, "bool", t)) <=> Means(list, t)
  BY EvaluatedMeans
<1>2. ASSUME Means(list, t), OptimizeUsingAND(full, "bool")
      PROVE  Found(t) = DOMAIN words /\ ~TooFar(full, "bool", t)
  <2>1. /\ Conjunctive(list)
        /\ \A k \in 1..Len(list) : list[k].cmd \in {"PHRASE", "AND", "WORD"}
    BY <1>2, OptimizedConjunctive
  <2>2. /\ Found(t) = DOMAIN words
        /\ \A i, j : Quotes(list, i, j) => PhraseIn(Inner(list, i, j), t)
    BY <1>2, <2>1, ConjunctiveFinds
  <2>3. ASSUME nuniq = 2, words[1].phrlen = 2
        PROVE  /\ ~(Min(Places(t, 1)) > Max(Places(t, 2)) + 1)
               /\ ~(Min(Places(t, 2)) > Max(Places(t, 1)) + 1)
    BY <2>1, <2>2, <2>3, NearEnough
  <2> QED BY <2>2, <2>3 DEF TooFar
<1> HIDE DEF full
<1>3. ~OptimizeUsingAND(full, "bool") => ~TooFar(full, "bool", t)
  BY DEF TooFar
<1>4. Matches(full, "bool", t) <=>
        /\ OptimizeUsingAND(full, "bool") => Found(t) = DOMAIN words
        /\ ~TooFar(full, "bool", t)
        /\ TopArg(Evaluated(full, "bool", t))
  BY DEF Matches
<1> QED BY <1>1, <1>2, <1>3, <1>4 DEF full

\* What a query has whose list is not computed: words, ANDs and brackets, and
\* in mode any no two operands without an operator unless it has words only.
LEMMA EmptyPrepared ==
    ASSUME NEW list, Asked(list), Prepared(list, mode) = <<>>, NEW k \in 1..Len(list)
    PROVE  list[k].cmd \in {"WORD", "STOP", "AND", "LEFT", "RIGHT"}
<1> DEFINE full == Completed(list, mode)
<1>1. /\ Len(list) \in Nat \ {0} /\ DOMAIN list = 1..Len(list)
      /\ list[k].cmd \in Cmds /\ full # <<>>
  BY AskedItems, AskedCopy
<1>2. PICK place : Spread(list, mode, full, place, Len(list))
  BY AskedCopy
<1>3. CASE ncmds(list) > 0 \/ mode = "bool"
  <2>1. \A i \in DOMAIN full : full[i].cmd \notin {"PHRASE", "OR", "NOT"}
    BY <1>1, <1>3 DEF Prepared, ItemListCopy
  <2> HIDE DEF full
  <2>2. place[k] \in DOMAIN full /\ full[place[k]] = list[k]
    <3>1. DOMAIN full = 1..Len(full) /\ full[place[k]] = list[k]
      BY <1>2 DEF Spread
    <3>2. place[k] \in 1..Len(full)
      BY <1>1, <1>2, PlacePositive
    <3> QED BY <3>1, <3>2
  <2> QED BY <1>1, <2>1, <2>2 DEF Cmds
<1>4. CASE ~(ncmds(list) > 0)
  <2> DEFINE W == {i \in DOMAIN list : list[i].cmd \notin {"WORD", "STOP"}}
  <2>1. IsFiniteSet(W)
    <3>1. IsFiniteSet(1..Len(list)) /\ W \in SUBSET (1..Len(list))
      BY <1>1, FS_Interval
    <3> HIDE DEF W
    <3> QED BY <3>1, FS_Subset
  <2>2. Cardinality(W) = 0
    <3>1. ~(Cardinality(W) > 0)
      BY <1>4 DEF ncmds
    <3> HIDE DEF W
    <3>2. Cardinality(W) \in Nat
      BY <2>1, FS_CardinalityType
    <3> QED BY <3>1, <3>2
  <2>3. W = {}
    <3> HIDE DEF W
    <3> QED BY <2>1, <2>2, FS_EmptySet
  <2> QED BY <1>1, <2>3
<1> QED BY <1>3, <1>4

\* A list without quotes has no phrases.
LEMMA NoPhrases ==
    ASSUME NEW list, Asked(list), \A k \in 1..Len(list) : list[k].cmd # "PHRASE"
    PROVE  /\ \A k \in 1..Len(list) : ~InPhrase(list, k)
           /\ \A o \in 1..nuniq : words[o].phrlen = 1
<1>1. Len(list) \in Nat
  BY AskedItems
<1>2. ASSUME NEW k \in 1..Len(list) PROVE ~InPhrase(list, k)
  <2>1. /\ k \in Nat \ {0} /\ 1 \in Nat \ {0} /\ 1 <= k
        /\ \A h \in 1..(k - 1) : list[h].cmd # "PHRASE"
    BY <1>1
  <2>2. InPhrase(list, k) <=> InPhrase(list, 1)
    BY <2>1, SamePhrase
  <2> QED BY <2>1, <2>2, InPhraseStep
<1>3. ASSUME NEW o \in 1..nuniq PROVE words[o].phrlen = 1
  <2>1. PICK l \in 1..Len(list) : list[l].cmd = "WORD" /\ list[l].arg = o
    BY WordStands
  <2> QED BY <1>2, <2>1 DEF Asked, Shaped, Lengths
<1> QED BY <1>2, <1>3

\* A query of words, ANDs and brackets holds of a text that has its words.
LEMMA ConjunctiveHolds ==
    ASSUME NEW list, Asked(list), Conjunctive(list),
           \A k \in 1..Len(list) : list[k].cmd # "PHRASE",
           NEW t, Found(t) = DOMAIN words
    PROVE  Means(list, t)
<1>1. Complete(list)
  BY DEF Asked
<1>2. ASSUME NEW k \in 1..Len(list), list[k].cmd = "WORD" PROVE Has(t, list[k].arg)
  <2>1. list[k].arg \in Found(t)
    BY <1>2 DEF Asked, Shaped, Orders
  <2> QED BY <2>1 DEF Found
<1>3. \A k \in 1..Len(list) : Holds(list, t, k)
  BY <1>2 DEF Holds
<1>4. Summed(list, t, 1, Len(list))
  BY <1>3 DEF Summed
<1> QED BY <1>1, <1>4, PlainMeans

\* In mode any, a query of two words and no AND is not one of ANDs.
LEMMA NotBoth ==
    ASSUME NEW list, Asked(list), nuniq > 1, mode = "any",
           \A k \in 1..Len(list) : list[k].cmd \in {"WORD", "STOP", "LEFT", "RIGHT"}
    PROVE  ~Conjunctive(list)
<1> SUFFICES ASSUME Conjunctive(list) PROVE FALSE
  OBVIOUS
<1>1. Len(list) \in Nat /\ \A k \in 1..Len(list) : ~InPhrase(list, k)
  BY AskedItems, NoPhrases
<1>2. \A k \in 1..Len(list) : ~NeedsCmd(list, k)
  BY DEF Conjunctive
<1>3. /\ 1 \in 1..nuniq /\ 2 \in 1..nuniq
  BY DEF Asked
<1>4. PICK a \in 1..Len(list) : list[a].cmd = "WORD" /\ list[a].arg = 1
  BY <1>3, WordStands
<1>5. PICK b \in 1..Len(list) : list[b].cmd = "WORD" /\ list[b].arg = 2
  BY <1>3, WordStands
<1>6. a < b
  <2>1. ~(b < a)
    BY <1>4, <1>5 DEF Asked, Shaped, Orders
  <2>2. a # b
    BY <1>4, <1>5
  <2> QED BY <1>1, <2>1, <2>2
<1> DEFINE W == {k \in (a + 1)..b : list[k].cmd # "RIGHT"}
           n == Min(W)
<1>7. W # {} /\ W \subseteq Nat
  BY <1>1, <1>5, <1>6
<1>8. n \in W /\ \A y \in W : n <= y
  <2> HIDE DEF W
  <2> QED BY <1>7, MinIsLeast
<1> HIDE DEF n
<1>9. list[n - 1].cmd \in {"WORD", "RIGHT"}
  <2>1. CASE n = a + 1
    BY <1>1, <1>4, <2>1
  <2>2. CASE n # a + 1
    <3>1. n - 1 \in (a + 1)..b /\ n - 1 \notin W
      BY <1>1, <1>8, <2>2
    <3> QED BY <3>1
  <2> QED BY <2>1, <2>2
<1>10. n \in 1..Len(list) /\ n > 1 /\ list[n].cmd \in {"WORD", "STOP", "LEFT"}
  <2>1. n \in 1..Len(list) /\ n > 1 /\ list[n].cmd # "RIGHT"
    BY <1>1, <1>8
  <2> QED BY <2>1
<1>11. NeedsCmd(list, n)
  BY <1>1, <1>9, <1>10 DEF NeedsCmd, EndsOperand, StartsOperand
<1> QED BY <1>2, <1>10, <1>11

\* In mode any a query of words and brackets holds of a text with one of them.
LEMMA DisjunctiveHolds ==
    ASSUME NEW list, Asked(list), nuniq > 1, mode = "any",
           \A k \in 1..Len(list) : list[k].cmd \in {"WORD", "STOP", "LEFT", "RIGHT"},
           NEW t, Found(t) # {}
    PROVE  Means(list, t)
<1>1. Complete(list) /\ \A k \in 1..Len(list) : ~InPhrase(list, k)
  BY NoPhrases DEF Asked
<1>2. Disjunctive(list) /\ ~Conjunctive(list)
  <2>1. Disjunctive(list)
    BY DEF Disjunctive
  <2> QED BY <2>1, NotBoth
<1>3. PICK o \in 1..nuniq : Has(t, o)
  BY DEF Found, Asked
<1>4. PICK l \in 1..Len(list) : list[l].cmd = "WORD" /\ list[l].arg = o
  BY WordStands
<1>5. Operand(list, l) /\ Holds(list, t, l)
  BY <1>1, <1>3, <1>4 DEF Operand, Holds
<1>6. Summed(list, t, 1, Len(list))
  BY <1>2, <1>5 DEF Summed
<1> QED BY <1>1, <1>2, <1>6, PlainMeans

\* A list that is empty has the value true.
LEMMA EmptyTrue ==
    ASSUME NEW t
    PROVE  TopArg(Evaluated(<<>>, "bool", t)) = TRUE
<1> DEFINE count == Counted(<<>>, "bool", t)
           list == <<>>
<1>1. Len(list) = 0 /\ Len(list) \in Nat /\ DOMAIN list = 1..Len(list) /\ Alternates(list)
  BY DEF Alternates
<1> HIDE DEF count, list
<1>2. PICK stack : /\ Stacked(list, count, stack)
                   /\ CalcBoolItems(list, count) = Unwind(stack[Len(list)], 0)
  BY <1>1, CalcStacks
<1>3. stack[Len(list)] = EmptyStack
  BY <1>1, <1>2 DEF Stacked
<1>4. EmptyStack \in Stacks /\ ~Tight(EmptyStack, 0)
  BY DEF EmptyStack, Stacks, Tight
<1>5. Unwind(EmptyStack, 0) = EmptyStack
  BY <1>4, UnwindStop
<1>6. TopArg(EmptyStack) = TRUE
  BY DEF TopArg, EmptyStack
<1> QED BY <1>2, <1>3, <1>5, <1>6 DEF Evaluated, count, list

\* A document of a search without a list is kept when the query holds of it.
LEMMA EmptyMatches ==
    ASSUME NEW list, Asked(list), Prepared(list, mode) = <<>>, nuniq > 1,
           mode \in {"all", "any", "bool"}, NEW t, Text(t), Found(t) # {},
           mode = "any" => Count(list, "AND") = 0
    PROVE  Matches(<<>>, mode, t) <=> Means(list, t)
<1>1. Len(list) \in Nat /\ DOMAIN list = 1..Len(list)
  BY AskedItems
<1>2. \A k \in 1..Len(list) : list[k].cmd \in {"WORD", "STOP", "AND", "LEFT", "RIGHT"}
  BY EmptyPrepared
<1>3. ~TooFar(<<>>, mode, t)
  <2>1. \A k \in 1..Len(list) : list[k].cmd # "PHRASE"
    BY <1>2
  <2>2. \A o \in 1..nuniq : words[o].phrlen = 1
    BY <2>1, NoPhrases
  <2>3. nuniq = 2 => words[1].phrlen = 1
    BY <2>2
  <2> QED BY <2>3 DEF TooFar
<1>4. Matches(<<>>, mode, t) <=>
        /\ OptimizeUsingAND(<<>>, mode) => Found(t) = DOMAIN words
        /\ mode = "bool" => TopArg(Evaluated(<<>>, mode, t))
  BY <1>3 DEF Matches
<1>5. CASE mode = "any"
  <2>1. \A k \in 1..Len(list) : list[k].cmd \in {"WORD", "STOP", "LEFT", "RIGHT"}
    <3>1. \A k \in 1..Len(list) : list[k].cmd # "AND"
      BY <1>1, <1>5, CountFacts
    <3> QED BY <1>2, <3>1
  <2>2. Means(list, t)
    BY <1>5, <2>1, DisjunctiveHolds
  <2>3. ~OptimizeUsingAND(<<>>, mode)
    BY <1>5 DEF OptimizeUsingAND
  <2> QED BY <1>4, <1>5, <2>2, <2>3
<1>6. CASE mode \in {"all", "bool"}
  <2>1. Conjunctive(list)
    BY <1>2, <1>6 DEF Conjunctive
  <2>2. OptimizeUsingAND(<<>>, mode)
    BY <1>6 DEF OptimizeUsingAND
  <2>3. mode = "bool" => TopArg(Evaluated(<<>>, mode, t))
    BY EmptyTrue
  <2>4. Means(list, t) => Found(t) = DOMAIN words
    BY <2>1, ConjunctiveFinds
  <2>5. Found(t) = DOMAIN words => Means(list, t)
    <3>1. \A k \in 1..Len(list) : list[k].cmd # "PHRASE"
      BY <1>2
    <3> QED BY <2>1, <3>1, ConjunctiveHolds
  <2> QED BY <1>4, <2>2, <2>3, <2>4, <2>5
<1> QED BY <1>5, <1>6

LEMMA PreparedMatches ==
    ASSUME NEW list, Asked(list), nuniq > 1,
           mode \in {"all", "any", "bool"}, NEW t, Text(t), Found(t) # {},
           mode = "any" /\ Prepared(list, mode) = <<>> => Count(list, "AND") = 0
    PROVE  Matches(Prepared(list, mode), SearchMode(Prepared(list, mode), mode), t)
              <=> Means(list, t)
<1>1. CASE Prepared(list, mode) = <<>>
  BY <1>1, EmptyMatches DEF SearchMode
<1>2. CASE Prepared(list, mode) # <<>>
  <2>1. Prepared(list, mode) = Completed(list, mode)
    BY <1>2 DEF Prepared, ItemListCopy
  <2>2. SearchMode(Prepared(list, mode), mode) = "bool"
    BY <1>2 DEF SearchMode
  <2> QED BY <2>1, <2>2, ListMatches
<1> QED BY <1>1, <1>2

\* Means is a matter of the mode and the words, which a search leaves alone.
LEMMA MeansKept ==
    ASSUME UNCHANGED <<mode, query, words>>, NEW t, text' = t
    PROVE  Means(query, text)' <=> Means(query, t)
BY DEF Means, PartMeans, Gaps, Splits, Outside, PhraseIn, Has

LEMMA SearchMatches ==
    ASSUME BoolInv, ShapeInv, Search
    PROVE  MatchesMeaning'
<1>1. PICK n \in 1..TextMax : \E t \in [1..n -> Words \cup {Other}] :
        /\ Found(t) # {} /\ text' = t /\ items' = Prepared(query, mode)
        /\ answer' = IF Matches(items', SearchMode(items', mode), t)
                     THEN "kept" ELSE "skipped"
  BY DEF Search
<1>2. PICK t \in [1..n -> Words \cup {Other}] :
        /\ Found(t) # {} /\ text' = t /\ items' = Prepared(query, mode)
        /\ answer' = IF Matches(items', SearchMode(items', mode), t)
                     THEN "kept" ELSE "skipped"
  BY <1>1
<1>3. ~Expecting /\ ~quoted /\ Open = 0 /\ UNCHANGED <<mode, query, words>>
  BY DEF Search
<1>4. Asked(query) /\ mode \in {"all", "any", "bool"}
  BY <1>3, SearchAsked, ModesAssumption DEF BoolInv, DataInv
<1>5. Text(t)
  <2>1. n \in Nat
    BY BoundsAssumption
  <2> QED BY <2>1 DEF Text
<1>6. Means(query, text)' <=> Means(query, t)
  BY <1>2, <1>3, MeansKept
<1> SUFFICES ASSUME nuniq' > 1, ~AndForgotten'
             PROVE  answer' = "kept" <=> Means(query, text)'
  BY DEF MatchesMeaning
<1>7. nuniq > 1
  BY <1>3 DEF nuniq
<1>8. mode = "any" /\ Prepared(query, mode) = <<>> => Count(query, "AND") = 0
  <2>1. Count(query, "AND") \in Nat
    BY <1>4, AskedItems, CountFacts
  <2>2. mode = "any" /\ items' = <<>> => ~(Count(query, "AND") > 0)
    BY <1>3 DEF AndForgotten, Count
  <2> QED BY <1>2, <2>1, <2>2
<1>9. Matches(Prepared(query, mode), SearchMode(Prepared(query, mode), mode), t)
         <=> Means(query, t)
  BY <1>2, <1>4, <1>5, <1>7, <1>8, PreparedMatches
<1>10. answer' = "kept" <=> Matches(Prepared(query, mode),
                                    SearchMode(Prepared(query, mode), mode), t)
  BY <1>2
<1> QED BY <1>6, <1>9, <1>10

LEMMA NextMatches == BoolInv /\ ShapeInv /\ MatchesMeaning /\ [Next]_vars => MatchesMeaning'
<1> SUFFICES ASSUME BoolInv, ShapeInv, MatchesMeaning, [Next]_vars PROVE MatchesMeaning'
  OBVIOUS
<1>1. CASE \/ \E cmd \in {"OR", "AND", "NOT", "LEFT", "RIGHT"} : AddCmd(cmd)
           \/ \E w \in Words : AddWord(w)
           \/ AddStop \/ OpenPhrase \/ ClosePhrase
  <2>1. answer = "typing" /\ answer' = answer
    BY <1>1 DEF AddCmd, AddWord, AddStop, OpenPhrase, ClosePhrase, Typing, Keep
  <2> QED BY <2>1 DEF MatchesMeaning
<1>2. CASE Search
  BY <1>2, SearchMatches
<1>3. CASE UNCHANGED vars
  <2>1. UNCHANGED <<mode, query, words, text, items, answer>>
    BY <1>3 DEF vars
  <2>2. Means(query, text)' <=> Means(query, text)
    BY <2>1, MeansKept
  <2>3. nuniq' = nuniq /\ (AndForgotten' <=> AndForgotten)
    BY <2>1 DEF nuniq, AndForgotten, Count
  <2> QED BY <2>1, <2>2, <2>3 DEF MatchesMeaning
<1> QED BY <1>1, <1>2, <1>3 DEF Next

-----------------------------------------------------------------------------
(* The theorems.                                                           *)

\* Items and words keep their types, and the words of a phrase that is closed
\* have its length (searchtool.c:111-115, 298, 375).
THEOREM BoolType == Spec => []TypeOK
<1>1. BoolInv => TypeOK
  <2> SUFFICES ASSUME BoolInv PROVE TypeOK
    OBVIOUS
  <2>1. nuniq \in Nat
    BY DEF BoolInv, DataInv, nuniq
  <2>2. ASSUME NEW list \in Seq(ItemSet(nuniq)), NEW i \in DOMAIN list
        PROVE  /\ list[i].cmd \in Commands
               /\ list[i].arg \in IF list[i].cmd = "WORD" THEN 1..nuniq ELSE 0..(nuniq + 1)
    <3>1. list[i] \in ItemSet(nuniq)
      OBVIOUS
    <3>2. Cmds \subseteq Commands
      BY Codes DEF Cmds, Commands
    <3> QED BY <3>1, <3>2 DEF ItemSet
  <2>3. ASSUME NEW o \in DOMAIN words
        PROVE  words[o].word \in Words /\ words[o].phrlen \in Nat /\ (words[o].phrlen = 0 => quoted)
    <3>1. words[o] \in WordSet
      BY DEF BoolInv, DataInv
    <3> QED BY <3>1 DEF WordSet, BoolInv, QueryInv
  <2> QED BY <2>2, <2>3 DEF TypeOK, BoolInv, DataInv
<1> QED BY <1>1, Invariance, PTL

\* UdmCalcBoolItems never takes a value from an empty stack for a list that is
\* not empty, and leaves one value and no command (boolean.c:152-233).
THEOREM BoolStackBalanced == Spec => []StackBalanced
<1>1. BoolInv => StackBalanced
  <2> SUFFICES ASSUME BoolInv, items # <<>>
               PROVE  LET s == Evaluated(items, "bool", text)
                      IN  ~s.short /\ s.cmds = <<>> /\ Len(s.args) = 1
    BY DEF StackBalanced
  <2>1. /\ Alternates(items) /\ DOMAIN items = 1..Len(items) /\ Len(items) \in Nat \ {0}
        /\ items[Len(items)].cmd \in EndsOperand
    <3>1. items \in Seq(ItemSet(nuniq)) /\ Alternates(items) /\ Last(items).cmd \in EndsOperand
      BY DEF BoolInv, DataInv, ItemsInv
    <3> QED BY <3>1 DEF Last
  <2> QED BY <2>1, CalcBoolItemsBalanced DEF Evaluated
<1> QED BY <1>1, Invariance, PTL

\* A document is kept exactly when the query, read as a formula, holds of its
\* text (boolean.c:152-250, 282-384, score.c:1676-1850).
THEOREM BoolMatchesMeaning == Spec => []MatchesMeaning
<1>1. Init => BoolInv /\ ShapeInv /\ MatchesMeaning
  BY InitInv, InitShape DEF Init, MatchesMeaning
<1>2. BoolInv /\ ShapeInv /\ MatchesMeaning /\ [Next]_vars
         => (BoolInv /\ ShapeInv /\ MatchesMeaning)'
  BY NextInv, NextShape, NextMatches
<1> QED BY <1>1, <1>2, PTL DEF Spec

=============================================================================

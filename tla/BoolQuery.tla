----------------------------- MODULE BoolQuery -----------------------------
(***************************************************************************)
(* The Boolean query language of mnoGoSearch: how the tokens of a query    *)
(* become UDM_RESULT.ItemList and WWList (searchtool.c), how a search      *)
(* completes or drops that list (boolean.c), and how one document that     *)
(* has some of the words is kept or skipped (score.c, boolean.c).          *)
(*                                                                         *)
(* A query is typed token by token; every query up to TokensMax tokens     *)
(* whose operators, brackets and quotes are complete is reached, and each  *)
(* is matched with every text up to TextMax words.  What a query means is  *)
(* in module BoolMeaning.                                                  *)
(*                                                                         *)
(* A word form (synonym, stemming), a numeric range, a section limit and   *)
(* the loose modes "all minus" are left out; a document is one section.    *)
(***************************************************************************)
EXTENDS Integers, Sequences, FiniteSets, SequencesExt, FiniteSetsExt

CONSTANTS Modes,      \* the values of m that are tried: all, any, bool
          Words,      \* the words that a query and a text may hold
          Other,      \* what a text holds where no word of a query stands
          TokensMax,  \* bound on the tokens of a query
          TextMax     \* bound on the words of a text

ASSUME ModesAssumption == Modes \subseteq {"all", "any", "bool"}
ASSUME WordsAssumption == Other \notin Words /\ IsFiniteSet(Words)
ASSUME BoundsAssumption == TokensMax \in Nat /\ TextMax \in Nat

VARIABLES mode,    \* the search mode of the request
          query,   \* Res->ItemList: the items of the query
          words,   \* Res->WWList by order: the word and its phrlen
          quoted,  \* state.nphrasecmd % 2: a phrase is open
          text,    \* the document, one section
          items,   \* score_param->ItemList: the completed list
          answer   \* "typing", then the outcome for the document

vars == <<mode, query, words, quoted, text, items, answer>>

(* UDM_STACK_LEFT to UDM_STACK_NOT; the order of these numbers is the      *)
(* precedence of the operators.                                            *)
Code == [LEFT |-> 0, RIGHT |-> 1, BOT |-> 2, OR |-> 3, AND |-> 4, NOT |-> 5]

Commands == DOMAIN Code \cup {"PHRASE", "WORD", "STOP"}

Item(cmd, arg) == [cmd |-> cmd, arg |-> arg]

EndsOperand == {"WORD", "STOP", "PHRASE", "RIGHT"}
StartsOperand == {"WORD", "STOP", "PHRASE", "LEFT", "NOT"}

nuniq == Len(words)

Count(list, cmd) == Cardinality({i \in DOMAIN list : list[i].cmd = cmd})

(* Item i of list stands inside a phrase, or is its closing quote.         *)
InPhrase(list, i) ==
  Cardinality({j \in 1..(i - 1) : list[j].cmd = "PHRASE"}) % 2 = 1

-----------------------------------------------------------------------------
(* The tokens.  A query is typed so that every operator has its operands.  *)

Expecting == \/ query = <<>>
             \/ Last(query).cmd \in {"LEFT", "OR", "AND", "NOT"}

Open == Count(query, "LEFT") - Count(query, "RIGHT")

Typing == answer = "typing" /\ Len(query) < TokensMax

Keep == UNCHANGED <<mode, text, items, answer>>

(* UdmStackItemListAddCmd for & | ~ and the brackets, which are ignored    *)
(* inside a phrase.                                                        *)
AddCmd(cmd) ==
  /\ Typing /\ ~quoted
  /\ CASE cmd \in {"OR", "AND"} -> ~Expecting
       [] cmd = "RIGHT"         -> ~Expecting /\ Open > 0
       [] OTHER                 -> TRUE
  /\ query' = Append(query, Item(cmd, 0))
  /\ UNCHANGED <<words, quoted>>
  /\ Keep

(* UdmStackItemListAddWord: the word gets the next order.  A word outside  *)
(* of a phrase is a phrase of its own, of length 1; in a phrase the length *)
(* is not known before its end.                                            *)
AddWord(w) ==
  /\ Typing
  /\ query' = Append(query, Item("WORD", nuniq + 1))
  /\ words' = Append(words, [word |-> w, phrlen |-> IF quoted THEN 0 ELSE 1])
  /\ UNCHANGED quoted
  /\ Keep

(* A stop word takes no order of its own: nuniq stays.                     *)
AddStop ==
  /\ Typing
  /\ query' = Append(query, Item("STOP", nuniq + 1))
  /\ UNCHANGED <<words, quoted>>
  /\ Keep

OpenPhrase ==
  /\ Typing /\ ~quoted
  /\ query' = Append(query, Item("PHRASE", 0))
  /\ quoted' = TRUE
  /\ UNCHANGED words
  /\ Keep

(* The items after the last quote.                                         *)
PhraseItems ==
  LET from == Max({i \in DOMAIN query : query[i].cmd = "PHRASE"})
  IN  SubSeq(query, from + 1, Len(query))

(* A slip: the words of a closed phrase keep phrlen 0.                     *)
ClosePhraseMutant ==
  /\ Typing /\ quoted
  /\ \/ Count(PhraseItems, "WORD") >= 2
     \/ Count(PhraseItems, "WORD") = 1 /\ Count(PhraseItems, "STOP") = 0
  /\ query' = Append(query, Item("PHRASE", 0))
  /\ quoted' = FALSE
  /\ UNCHANGED words
  /\ Keep

(* The closing quote sets phrlen of the words of its phrase to phrpos, the *)
(* number of their places (UdmWWListSetPhrlen).  Phrases of nothing but    *)
(* stop words, and of one word beside stop words, are not typed: see the   *)
(* README for what the code does with them.                                *)
ClosePhrase ==
  /\ Typing /\ quoted
  /\ \/ Count(PhraseItems, "WORD") >= 2
     \/ Count(PhraseItems, "WORD") = 1 /\ Count(PhraseItems, "STOP") = 0
  /\ query' = Append(query, Item("PHRASE", 0))
  /\ words' = [o \in DOMAIN words |->
                 IF words[o].phrlen = 0
                 THEN [words[o] EXCEPT !.phrlen = Len(PhraseItems)]
                 ELSE words[o]]
  /\ quoted' = FALSE
  /\ Keep

-----------------------------------------------------------------------------
(* The list that is computed: UdmStackItemListCopy.                        *)

AddedCmd(m) == IF m = "any" THEN "OR" ELSE "AND"

(* A slip: no operator before a NOT.                                       *)
NeedsCmdMutant(list, i) ==
  /\ i > 1
  /\ list[i - 1].cmd \in EndsOperand
  /\ list[i].cmd \in StartsOperand \ {"NOT"}
  /\ ~InPhrase(list, i)

(* An operator of the search mode stands between two operands that have    *)
(* none between them.                                                      *)
NeedsCmd(list, i) ==
  /\ i > 1
  /\ list[i - 1].cmd \in EndsOperand
  /\ list[i].cmd \in StartsOperand
  /\ ~InPhrase(list, i)

Copied(list, m, i) ==
  IF NeedsCmd(list, i) THEN <<Item(AddedCmd(m), 0), list[i]>> ELSE <<list[i]>>

Completed(list, m) ==
  LET upTo[i \in 0..Len(list)] ==
        IF i = 0 THEN <<>> ELSE upTo[i - 1] \o Copied(list, m, i)
  IN  upTo[Len(list)]

(* A list of words, ANDs and brackets only is not computed.                *)
ItemListCopy(list, m) ==
  LET full == Completed(list, m)
  IN  IF \A i \in DOMAIN full : full[i].cmd \notin {"PHRASE", "OR", "NOT"}
      THEN <<>>
      ELSE full

(* UdmScoreParamInitStep2: the list of a query with commands, and of every *)
(* query in mode bool.  Res->ItemList.ncmds counts the typed commands.     *)
ncmds(list) == Cardinality({i \in DOMAIN list :
                              list[i].cmd \notin {"WORD", "STOP"}})

Prepared(list, m) ==
  IF ncmds(list) > 0 \/ m = "bool" THEN ItemListCopy(list, m) ELSE <<>>

SearchMode(list, m) == IF list # <<>> THEN "bool" ELSE m

-----------------------------------------------------------------------------
(* The sections of the document: one per order whose word is in the text.  *)

Has(t, o) == \E p \in DOMAIN t : t[p] = words[o].word

Found(t) == {o \in DOMAIN words : Has(t, o)}

(* The coordinates of one place: every order that has its word.  The code  *)
(* merges the sections; in which order it leaves those of one place is of  *)
(* no matter, CheckOnePhrase skips them.                                   *)
At(t, p) ==
  LET upTo[o \in 0..nuniq] ==
        IF o = 0 THEN <<>>
        ELSE IF words[o].word = t[p] THEN Append(upTo[o - 1], [pos |-> p, order |-> o])
        ELSE upTo[o - 1]
  IN  upTo[nuniq]

(* The coordinates of the document, sorted by position.                    *)
Coords(t) ==
  LET upTo[p \in 0..Len(t)] == IF p = 0 THEN <<>> ELSE upTo[p - 1] \o At(t, p)
  IN  upTo[Len(t)]

(* CheckOnePhrase.  Behind looks for the next word of a phrase behind the *)
(* coordinate prev, delta places further: it skips what stands at the same *)
(* place, and what stands at the right place with another order.  0 is no. *)
Behind(crd, prev, delta, order) ==
  LET at == crd[prev].pos
      Skip(k) == \/ crd[k].pos = at
                 \/ crd[k].pos = at + delta /\ crd[k].order # order
      stop == Min({k \in (prev + 1)..Len(crd) : ~Skip(k)} \cup {Len(crd) + 1})
  IN  IF /\ stop <= Len(crd)
         /\ crd[stop].pos = at + delta
         /\ crd[stop].order = order
      THEN stop ELSE 0

(* The distance from the word before item k of a phrase, stop words        *)
(* counted.                                                                *)
Delta(phrase, k) == k - Max({j \in 1..(k - 1) : phrase[j].cmd = "WORD"})

CheckOnePhrase(crd, phrase) ==
  \E first \in DOMAIN crd :
    LET place[k \in DOMAIN phrase] ==
          IF k = 1 THEN first
          ELSE IF phrase[k].cmd = "STOP" \/ place[k - 1] = 0 THEN place[k - 1]
          ELSE Behind(crd, place[k - 1], Delta(phrase, k), phrase[k].arg)
    IN  crd[first].order = phrase[1].arg /\ place[Len(phrase)] # 0

(* The phrases of a list, without the stop words at their front.           *)
Phrases(list) ==
  { LET from == Min({i \in (q + 1)..Len(list) : list[i].cmd = "WORD"})
        to == Min({i \in (q + 1)..Len(list) : list[i].cmd = "PHRASE"})
    IN  SubSeq(list, from, to - 1) :
    q \in {i \in DOMAIN list : list[i].cmd = "PHRASE" /\ ~InPhrase(list, i)} }

(* count[]: UdmCalcUniqSection sets it for the words outside of phrases    *)
(* (UpdateCount), CheckPhrase for the words of a phrase that is found.     *)
(* CheckPhrase is not called for a section with one word of the query.     *)
Counted(list, m, t) ==
  LET limit == IF m = "bool" THEN 2 ELSE 512
      inPhrase ==
        IF m = "bool" /\ Cardinality(Found(t)) >= 2 /\ Len(Coords(t)) > 1
        THEN UNION {{phrase[i].arg : i \in {j \in DOMAIN phrase :
                                             phrase[j].cmd = "WORD"}} :
                    phrase \in {p \in Phrases(list) :
                                  CheckOnePhrase(Coords(t), p)}}
        ELSE {}
  IN  {o \in Found(t) : words[o].phrlen < limit} \cup inPhrase

-----------------------------------------------------------------------------
(* UdmCalcBoolItems: a stack of commands and a stack of values.  An empty  *)
(* stack gives UDM_STACK_BOT, which as a value is true; short records that *)
(* a value was taken from an empty stack.                                  *)

EmptyStack == [cmds |-> <<>>, args |-> <<>>, short |-> FALSE]

TopCmd(s) == IF s.cmds = <<>> THEN "BOT" ELSE Last(s.cmds)
PopCmd(s) == [s EXCEPT !.cmds = Front(@)]
TopArg(s) == IF s.args = <<>> THEN TRUE ELSE Last(s.args)
PopArg(s) == IF s.args = <<>>
             THEN [s EXCEPT !.short = TRUE]
             ELSE [s EXCEPT !.args = Front(@)]
PushArg(s, x) == [s EXCEPT !.args = Append(@, x)]
PushCmd(s, c) == [s EXCEPT !.cmds = Append(@, c)]

perform(s, c) ==
  LET one == PopArg(s)
      two == PopArg(one)
      x1 == TopArg(s)
      x2 == TopArg(one)
  IN  CASE c = "OR"  -> PushArg(two, x1 \/ x2)
        [] c = "AND" -> PushArg(two, x1 /\ x2)
        [] c = "NOT" -> PushArg(one, ~x1)
        [] OTHER     -> s

(* Perform the commands on top of the stack while they bind as code does,  *)
(* or tighter: as many turns as there are commands, at most.               *)
Turn(s, code) ==
  IF s.cmds # <<>> /\ code <= Code[TopCmd(s)]
  THEN perform(PopCmd(s), TopCmd(s))
  ELSE s

Unwind(s, code) ==
  LET after[n \in 0..Len(s.cmds)] == IF n = 0 THEN s ELSE Turn(after[n - 1], code)
  IN  after[Len(s.cmds)]

(* A right bracket performs until the left one, and takes it away.         *)
CloseBracket(s) ==
  LET inner == Unwind(s, Code["BOT"] + 1)
  IN  IF TopCmd(inner) = "LEFT" THEN PopCmd(inner) ELSE inner

(* One turn of the loop over the items.  A phrase has the value of its     *)
(* first word; what is in it is skipped, with its closing quote.           *)
Calc(list, count, s, i) ==
  LET cmd == list[i].cmd
  IN  IF InPhrase(list, i) THEN s
      ELSE CASE cmd = "RIGHT"           -> CloseBracket(s)
             [] cmd \in {"OR", "AND"}   -> PushCmd(Unwind(s, Code[cmd]), cmd)
             [] cmd \in {"LEFT", "NOT"} -> PushCmd(s, cmd)
             [] cmd = "PHRASE"          -> PushArg(s, list[i + 1].arg \in count)
             [] cmd = "STOP"            -> PushArg(s, TRUE)
             [] cmd = "WORD"            -> PushArg(s, list[i].arg \in count)

CalcBoolItems(list, count) ==
  LET stack[i \in 0..Len(list)] ==
        IF i = 0 THEN EmptyStack ELSE Calc(list, count, stack[i - 1], i)
  IN  Unwind(stack[Len(list)], 0)

-----------------------------------------------------------------------------
(* The document: UdmGroupByURLLoop2, and UdmGroupByURLLoop_OneWord_All2    *)
(* for a query of one word, which keeps every document that has it.        *)

(* A slip: NOT taken for a command that needs all words.                  *)
OptimizeUsingANDMutant(list, m) ==
  \/ m = "all"
  \/ m = "bool" /\ \A i \in DOMAIN list :
                      list[i].cmd \in {"PHRASE", "AND", "WORD", "NOT"}

OptimizeUsingAND(list, m) ==
  \/ m = "all"
  \/ m = "bool" /\ \A i \in DOMAIN list :
                      list[i].cmd \in {"PHRASE", "AND", "WORD"}

Places(t, o) == {p \in DOMAIN t : t[p] = words[o].word}

(* 'MinMaxPos2': two words of one phrase that are too far from each other. *)
TooFar(list, m, t) ==
  /\ OptimizeUsingAND(list, m)
  /\ nuniq = 2 /\ words[1].phrlen = 2
  /\ Found(t) = {1, 2}
  /\ \/ Min(Places(t, 1)) > Max(Places(t, 2)) + 1
     \/ Min(Places(t, 2)) > Max(Places(t, 1)) + 1

Evaluated(list, m, t) == CalcBoolItems(list, Counted(list, m, t))

Matches(list, m, t) ==
  \/ nuniq = 1
  \/ /\ OptimizeUsingAND(list, m) => Found(t) = DOMAIN words
     /\ ~TooFar(list, m, t)
     /\ m = "bool" => TopArg(Evaluated(list, m, t))

(* The query is complete and one of the documents found by its words is    *)
(* judged.                                                                 *)
Search ==
  /\ answer = "typing"
  /\ ~Expecting /\ ~quoted /\ Open = 0 /\ nuniq > 0
  /\ \E n \in 1..TextMax : \E t \in [1..n -> Words \cup {Other}] :
       /\ Found(t) # {}
       /\ text' = t
       /\ items' = Prepared(query, mode)
       /\ answer' = IF Matches(items', SearchMode(items', mode), t)
                    THEN "kept" ELSE "skipped"
  /\ UNCHANGED <<mode, query, words, quoted>>

Init ==
  /\ mode \in Modes
  /\ query = <<>> /\ words = <<>> /\ quoted = FALSE
  /\ text = <<>> /\ items = <<>> /\ answer = "typing"

Next == \/ \E cmd \in {"OR", "AND", "NOT", "LEFT", "RIGHT"} : AddCmd(cmd)
        \/ \E w \in Words : AddWord(w)
        \/ AddStop
        \/ OpenPhrase
        \/ ClosePhrase
        \/ Search

Spec == Init /\ [][Next]_vars

-----------------------------------------------------------------------------
(* Properties *)

(* Every variable keeps its type: the items are known commands, a word     *)
(* item has an order of WWList, and a word whose phrase is closed has the  *)
(* length of that phrase (searchtool.c:111-115, 298, 375).                 *)
TypeOK ==
  /\ mode \in Modes
  /\ \A list \in {query, items} : \A i \in DOMAIN list :
       /\ list[i].cmd \in Commands
       /\ list[i].arg \in IF list[i].cmd = "WORD" THEN 1..nuniq ELSE 0..(nuniq + 1)
  /\ \A o \in DOMAIN words :
       /\ words[o].word \in Words
       /\ words[o].phrlen \in Nat
       /\ words[o].phrlen = 0 => quoted
  /\ quoted \in BOOLEAN
  /\ \A p \in DOMAIN text : text[p] \in Words \cup {Other}
  /\ answer \in {"typing", "kept", "skipped"}

(* UdmCalcBoolItems never takes a value from an empty stack for a list     *)
(* that is not empty, and leaves one value and no command.                 *)
StackBalanced ==
  answer # "typing" /\ items # <<>> =>
    LET s == Evaluated(items, "bool", text)
    IN  ~s.short /\ s.cmds = <<>> /\ Len(s.args) = 1

=============================================================================

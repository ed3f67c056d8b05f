--------------------------- MODULE HrefCacheProofs ---------------------------
(***************************************************************************)
(* Proofs about module HrefCache, for every set of URLs, every documents'  *)
(* links and every size of the list:                                       *)
(*   HrefCacheList     the list is a set and the bisection finds its links *)
(*   HrefCacheSaved    what counts as saved has a row                      *)
(*   HrefCacheLinkSet  the cache implements module LinkSet                 *)
(*   HrefCacheLinksKept  no link of a document in work is lost             *)
(***************************************************************************)
EXTENDS HrefCache, FiniteSetTheorems, TLAPS

ListOK == TypeOK /\ ListInv /\ BisectInv

\* The first state.
LEMMA ListInit == Init => ListOK
<1> SUFFICES ASSUME Init PROVE ListOK
    OBVIOUS
<1> USE UrlAssumption, ListAssumption, SiteAssumption, SizeAssumption, FlagAssumption
    DEF Init, Entries, Entry
<1>1. Href \in Seq(Entries) /\ Len(Href) = Len(StartHrefs)
  OBVIOUS
<1>2. \A k \in 1..Len(Href) : Href[k].url = StartHrefs[k]
  OBVIOUS
<1>3. TypeOK
  BY <1>1 DEF TypeOK
<1>4. ListInv
  BY <1>1, <1>2 DEF ListInv
<1> QED BY <1>3, <1>4 DEF ListOK, BisectInv

\* The loops of UdmStoreHrefs change flags of entries, never their URLs.
LEMMA SameUrls ==
    ASSUME ListOK, Href' \in Seq(Entries), Len(Href') = Len(Href),
           \A k \in 1..Len(Href) : Href'[k].url = Href[k].url,
           UNCHANGED shrefs
    PROVE  ListInv'
BY DEF ListOK, TypeOK, ListInv

\* A number of documents is a number.
LEMMA DocPerSiteNat ==
    ASSUME ListOK, NEW s
    PROVE  DocPerSite(s) \in Nat
<1>0. Len(Href) \in Nat
  BY DEF ListOK, TypeOK
<1>1. IsFiniteSet({k \in 1..Len(Href) : /\ Href[k].stored /\ ~Href[k].disallow
                                        /\ SiteOf[Href[k].url] = s})
  <2>1. IsFiniteSet(1..Len(Href))
    BY <1>0, FS_Interval
  <2> QED BY <2>1, FS_Subset
<1>2. IsFiniteSet({u \in url : SiteOf[u] = s})
  BY UrlAssumption, FS_Subset DEF ListOK, TypeOK
<1>3. Cached(s) \in Nat
  BY <1>1, FS_CardinalityType DEF Cached
<1>4. Cardinality({u \in url : SiteOf[u] = s}) \in Nat
  BY <1>2, FS_CardinalityType
<1> QED BY <1>3, <1>4 DEF DocPerSite

\* A sorted list has the entries of the unsorted one.
LEMMA SortedFacts ==
    ASSUME NEW H \in Seq(Entries), NEW S \in Sorted(H),
           \A j, k \in 1..Len(H) : H[j].url = H[k].url => j = k
    PROVE  /\ S \in Seq(Entries) /\ Len(S) = Len(H)
           /\ \A j, k \in 1..Len(S) : S[j].url = S[k].url => j = k
           /\ \A j, k \in 1..Len(S) : j < k => S[j].url < S[k].url
           /\ \A j \in 1..Len(S) : \E k \in 1..Len(H) : S[j] = H[k]
           /\ \A k \in 1..Len(H) : \E j \in 1..Len(S) : S[j] = H[k]
<1> DEFINE n == Len(H)
<1>1. PICK p \in Reorderings(n) :
         /\ \A j, k \in 1..n : j < k => H[p[j]].url <= H[p[k]].url
         /\ S = [k \in 1..n |-> H[p[k]]]
  BY DEF Sorted
<1>2. /\ p \in [1..n -> 1..n]
      /\ \A j, k \in 1..n : p[j] = p[k] => j = k
      /\ \A j \in 1..n : \E k \in 1..n : p[k] = j
  BY DEF Reorderings
<1>3. n \in Nat /\ \A k \in 1..n : H[k] \in Entries
  OBVIOUS
<1>4. S \in [1..n -> Entries] /\ \A k \in 1..n : S[k] = H[p[k]]
  BY <1>1, <1>2, <1>3
<1>5. S \in Seq(Entries) /\ Len(S) = n
  BY <1>3, <1>4
<1>6. \A j, k \in 1..n : H[j].url = H[k].url => j = k
  OBVIOUS
<1> HIDE DEF n
<1>7. ASSUME NEW j \in 1..n, NEW k \in 1..n, S[j].url = S[k].url PROVE j = k
  <2>1. p[j] \in 1..n /\ p[k] \in 1..n
    BY <1>2
  <2>2. H[p[j]].url = H[p[k]].url
    BY <1>4, <1>7
  <2>3. p[j] = p[k]
    BY <1>6, <2>1, <2>2
  <2> QED BY <1>2, <2>3
<1>8. \A k \in 1..n : S[k].url \in Int
  BY <1>4, UrlAssumption DEF Entries
<1>9. ASSUME NEW j \in 1..n, NEW k \in 1..n, j < k PROVE S[j].url < S[k].url
  <2>1. S[j].url <= S[k].url
    BY <1>1, <1>4, <1>9
  <2>2. S[j].url # S[k].url
    BY <1>3, <1>7, <1>9
  <2> QED BY <1>8, <2>1, <2>2
<1>10. /\ \A j \in 1..n : \E k \in 1..n : S[j] = H[k]
       /\ \A k \in 1..n : \E j \in 1..n : S[j] = H[k]
  <2>1. ASSUME NEW j \in 1..n PROVE \E k \in 1..n : S[j] = H[k]
    <3>1. p[j] \in 1..n
      BY <1>2
    <3> QED BY <1>4, <3>1
  <2>2. ASSUME NEW k \in 1..n PROVE \E j \in 1..n : S[j] = H[k]
    <3>1. PICK j \in 1..n : p[j] = k
      BY <1>2
    <3> QED BY <1>4, <3>1
  <2> QED BY <2>1, <2>2
<1> QED BY <1>5, <1>7, <1>9, <1>10 DEF n

\* The bounds a bisection starts with leave nothing out.
LEMMA FullRange ==
    ASSUME NEW n \in Nat
    PROVE  1 \in 1..n + 1 /\ n \in 0..n /\ \A k \in 1..n : 1 <= k /\ k <= n
OBVIOUS

\* An entry is changed but for its URL.
LEMMA ChangeEntry ==
    ASSUME NEW H \in Seq(Entries), NEW j \in 1..Len(H), NEW e \in Entries, e.url = H[j].url
    PROVE  /\ [H EXCEPT ![j] = e] \in Seq(Entries)
           /\ Len([H EXCEPT ![j] = e]) = Len(H)
           /\ \A k \in 1..Len(H) : [H EXCEPT ![j] = e][k].url = H[k].url
OBVIOUS

\* The flags of an entry are changed.
LEMMA ChangeFlags ==
    ASSUME NEW e \in Entries
    PROVE  /\ [e EXCEPT !.stored = TRUE, !.disallow = TRUE] \in Entries
           /\ [e EXCEPT !.stored = TRUE] \in Entries
           /\ [e EXCEPT !.stored = TRUE, !.disallow = TRUE].url = e.url
           /\ [e EXCEPT !.stored = TRUE].url = e.url
BY DEF Entries

\* The bisection only leaves out entries that are not the link it looks for.
LEMMA BisectStep == ASSUME ListOK, Bisect PROVE ListOK'
<1> DEFINE c == (l + r) \div 2
<1> USE DEF ListOK
<1>1. /\ l \in 1..shrefs + 1 /\ r \in 0..shrefs /\ l <= r /\ pc = "find"
      /\ \A k \in 1..shrefs : Href[k].url = Head(todo) => l <= k /\ k <= r
  BY DEF Bisect, BisectInv
<1>2. shrefs \in Nat /\ shrefs <= Len(Href) /\ Len(Href) \in Nat
  BY DEF TypeOK
<1>3. c \in 1..shrefs /\ l <= c /\ c <= r
  BY <1>1, <1>2
<1>4. Href[c].url \in Int /\ Head(todo) \in Int /\ \A k \in 1..shrefs : Href[k].url \in Int
  <2>1. \A k \in 1..shrefs : Href[k] \in Entries
    BY <1>2 DEF TypeOK
  <2>2. Head(todo) \in Urls
    BY <1>1 DEF TypeOK
  <2> QED BY <1>3, <2>1, <2>2, UrlAssumption DEF Entries
<1>5. UNCHANGED <<listVars, tableVars, parsed, found, pc, doc, todo, loopVars>>
  BY DEF Bisect
<1>6. ListInv'
  BY <1>5 DEF ListInv, listVars
<1>7. \A k \in 1..shrefs : /\ k < c => Href[k].url < Href[c].url
                           /\ c < k => Href[c].url < Href[k].url
  BY <1>3 DEF ListInv
<1>8. CASE Href[c].url < Head(todo)
  <2>1. l' = c + 1 /\ r' = r
    BY <1>8 DEF Bisect
  <2>2. \A k \in 1..shrefs : Href[k].url = Head(todo) => c < k
    BY <1>2, <1>3, <1>4, <1>7, <1>8
  <2> HIDE DEF c
  <2>3. BisectInv'
    BY <1>1, <1>2, <1>3, <1>5, <2>1, <2>2 DEF BisectInv, listVars
  <2>4. TypeOK'
    BY <1>3, <1>5, <2>1 DEF TypeOK, listVars, tableVars, loopVars
  <2> QED BY <1>6, <2>3, <2>4
<1>9. CASE ~(Href[c].url < Head(todo))
  <2>1. r' = c - 1 /\ l' = l
    BY <1>9 DEF Bisect
  <2>2. Href[c].url > Head(todo)
    BY <1>4, <1>9 DEF Bisect
  <2>3. \A k \in 1..shrefs : Href[k].url = Head(todo) => k < c
    BY <1>2, <1>3, <1>4, <1>7, <2>2
  <2> HIDE DEF c
  <2>4. BisectInv'
    BY <1>1, <1>2, <1>3, <1>5, <2>1, <2>3 DEF BisectInv, listVars
  <2>5. TypeOK'
    BY <1>3, <1>5, <2>1 DEF TypeOK, listVars, tableVars, loopVars
  <2> QED BY <1>6, <2>4, <2>5
<1> QED BY <1>8, <1>9

\* NextLink with a good list: the bisection starts over, or the lock is free.
LEMMA NextLinkStep ==
    ASSUME ListOK, pc = "find", NextLink,
           Href' \in Seq(Entries), shrefs' \in 0..Len(Href'), dhrefs' \in 0..Len(Href'),
           ListInv'
    PROVE  ListOK'
<1>1. todo \in Seq(Urls) /\ todo # <<>> /\ doc \in Docs
  BY DEF ListOK, TypeOK
<1>2. Head(todo) \in Urls /\ Tail(todo) \in Seq(Urls)
  BY <1>1
<1>3. found' \subseteq Docs \X Urls
  BY <1>1, <1>2 DEF NextLink, ListOK, TypeOK
<1>4. UNCHANGED <<tableVars, parsed>>
  BY DEF NextLink
<1>5. shrefs' \in Nat
  OBVIOUS
<1>6. CASE Release
  BY <1>3, <1>4, <1>6 DEF Release, ListOK, TypeOK, BisectInv, tableVars
<1>7. CASE /\ Tail(todo) # <<>> /\ todo' = Tail(todo) /\ l' = 1 /\ r' = shrefs'
           /\ UNCHANGED <<pc, doc, loopVars>>
  <2>1. BisectInv'
    <3>1. l' = 1 /\ r' = shrefs'
      BY <1>7
    <3>2. l' \in 1..shrefs' + 1 /\ r' \in 0..shrefs' /\ \A k \in 1..shrefs' : l' <= k /\ k <= r'
      BY <1>5, <3>1, FullRange
    <3> QED BY <3>2 DEF BisectInv
  <2>2. TypeOK'
    BY <1>2, <1>3, <1>4, <1>5, <1>7 DEF ListOK, TypeOK, tableVars, loopVars
  <2> QED BY <2>1, <2>2 DEF ListOK
<1> QED BY <1>6, <1>7 DEF NextLink

\* An entry that is overwritten keeps its URL.
LEMMA ReplaceStep ==
    ASSUME ListOK, pc = "find", NEW c \in 1..Len(Href), ReplaceHref(c)
    PROVE  ListOK'
<1>1. Entry(Head(todo), doc) \in Entries
  BY UrlAssumption DEF Entry, Entries, ListOK, TypeOK
<1>2. Href \in Seq(Entries) /\ Href' = [Href EXCEPT ![c] = Entry(Head(todo), doc)]
  BY DEF ReplaceHref, ListOK, TypeOK
<1>3. Href' \in Seq(Entries) /\ Len(Href') = Len(Href)
  BY <1>1, <1>2
<1>4. \A k \in 1..Len(Href) : Href'[k].url = Href[k].url
  BY <1>2 DEF ReplaceHref, Entry
<1>5. UNCHANGED <<shrefs, dhrefs>> /\ NextLink
  BY DEF ReplaceHref
<1>6. ListInv'
  BY <1>3, <1>4, <1>5, SameUrls
<1>7. shrefs' \in 0..Len(Href') /\ dhrefs' \in 0..Len(Href')
  BY <1>3, <1>5 DEF ListOK, TypeOK
<1> QED BY <1>3, <1>5, <1>6, <1>7, NextLinkStep

\* A link that is appended is not in the list yet: the bisection has found it
\* nowhere in the sorted part and the search nowhere in the tail.
LEMMA AppendStep == ASSUME ListOK, AppendHref PROVE ListOK'
<1> DEFINE e == Entry(Head(todo), doc)
           H == Append(Href, e)
           n == Len(Href)
<1>1. e \in Entries /\ e.url = Head(todo)
  BY UrlAssumption DEF AppendHref, Entry, Entries, ListOK, TypeOK
<1>2. Href \in Seq(Entries) /\ n \in Nat /\ shrefs \in 0..n /\ dhrefs \in 0..n /\ pc = "find"
  BY DEF AppendHref, ListOK, TypeOK
<1>3. \A k \in 1..n : Href[k].url # e.url
  <2>1. \A k \in 1..shrefs : Href[k].url # Head(todo)
    BY <1>2 DEF AppendHref, ListOK, BisectInv
  <2>2. \A k \in shrefs + 1..n : Href[k].url # Head(todo)
    BY DEF AppendHref
  <2>3. \A k \in 1..n : k \in 1..shrefs \/ k \in shrefs + 1..n
    BY <1>2
  <2> QED BY <1>1, <2>1, <2>2, <2>3
<1>4. /\ H \in Seq(Entries) /\ Len(H) = n + 1 /\ H[n + 1] = e
      /\ \A k \in 1..n : H[k] = Href[k]
  BY <1>1, <1>2
<1> HIDE DEF e, H, n
<1>5. \A j, k \in 1..n : Href[j].url = Href[k].url => j = k
  BY DEF n, ListOK, ListInv
<1>6. ASSUME NEW j \in 1..n + 1, NEW k \in 1..n + 1, H[j].url = H[k].url PROVE j = k
  <2>1. /\ j \in 1..n \/ j = n + 1
        /\ k \in 1..n \/ k = n + 1
    BY <1>2
  <2> QED BY <1>3, <1>4, <1>5, <1>6, <2>1
<1>7. CASE Href' \in Sorted(H) /\ shrefs' = Len(H) /\ dhrefs' = 0
  <2>1. /\ Href' \in Seq(Entries) /\ Len(Href') = Len(H)
        /\ \A j, k \in 1..Len(Href') : Href'[j].url = Href'[k].url => j = k
        /\ \A j, k \in 1..Len(Href') : j < k => Href'[j].url < Href'[k].url
    BY <1>4, <1>6, <1>7, SortedFacts
  <2>2. ListInv'
    BY <1>7, <2>1 DEF ListInv
  <2>3. shrefs' \in 0..Len(Href') /\ dhrefs' \in 0..Len(Href')
    BY <1>2, <1>4, <1>7, <2>1
  <2> QED BY <1>2, <2>1, <2>2, <2>3, NextLinkStep DEF AppendHref
<1>8. CASE Href' = H /\ UNCHANGED <<shrefs, dhrefs>>
  <2>1. \A k \in 1..shrefs : k \in 1..n
    BY <1>2
  <2>2. ListInv'
    <3>1. \A j, k \in 1..shrefs' : j < k => Href'[j].url < Href'[k].url
      BY <1>4, <1>8, <2>1 DEF ListOK, ListInv
    <3> QED BY <1>4, <1>6, <1>8, <3>1 DEF ListInv
  <2>3. shrefs' \in 0..Len(Href') /\ dhrefs' \in 0..Len(Href')
    BY <1>2, <1>4, <1>8
  <2> QED BY <1>2, <1>4, <1>8, <2>2, <2>3, NextLinkStep DEF AppendHref
<1> QED BY <1>7, <1>8 DEF AppendHref, H, e

\* The two loops of UdmStoreHrefs.
LEMMA LoopStep == ASSUME ListOK, CheckHref \/ StoreHref PROVE ListOK'
<1>1. /\ pc \in {"check", "store"} /\ pc' = pc /\ i \in Nat \ {0} /\ i <= Len(Href) /\ i' = i + 1
      /\ UNCHANGED <<shrefs, dhrefs, parsed, found, doc, addVars>>
  BY DEF CheckHref, StoreHref, ListOK, TypeOK
<1>2. /\ Href \in Seq(Entries) /\ i \in 1..Len(Href) /\ Href[i] \in Entries
  BY <1>1 DEF ListOK, TypeOK
<1>3. \/ Href' = Href
      \/ Href' = [Href EXCEPT ![i].stored = TRUE, ![i].disallow = TRUE]
      \/ Href' = [Href EXCEPT ![i].stored = TRUE]
  BY DEF CheckHref, StoreHref
<1>4. /\ Href' \in Seq(Entries) /\ Len(Href') = Len(Href)
      /\ \A k \in 1..Len(Href) : Href'[k].url = Href[k].url
  <2>1. CASE Href' = Href
    BY <1>2, <2>1
  <2>2. CASE Href' = [Href EXCEPT ![i].stored = TRUE, ![i].disallow = TRUE]
    <3> DEFINE e == [Href[i] EXCEPT !.stored = TRUE, !.disallow = TRUE]
    <3>1. Href' = [Href EXCEPT ![i] = e]
      BY <1>2, <2>2
    <3>2. e \in Entries /\ e.url = Href[i].url
      BY <1>2, ChangeFlags
    <3> HIDE DEF e
    <3> QED BY <1>2, <3>1, <3>2, ChangeEntry
  <2>3. CASE Href' = [Href EXCEPT ![i].stored = TRUE]
    <3> DEFINE e == [Href[i] EXCEPT !.stored = TRUE]
    <3>1. Href' = [Href EXCEPT ![i] = e]
      BY <1>2, <2>3
    <3>2. e \in Entries /\ e.url = Href[i].url
      BY <1>2, ChangeFlags
    <3> HIDE DEF e
    <3> QED BY <1>2, <3>1, <3>2, ChangeEntry
  <2> QED BY <1>3, <2>1, <2>2, <2>3
<1>5. ListInv'
  BY <1>1, <1>4, SameUrls
<1>6. hostinfo' \in Sites \cup {NoSite} /\ doc_per_site' \in Nat /\ url' \subseteq Urls /\ links' \subseteq Docs \X Urls
  <2>1. CASE CheckHref
    <3>1. SiteOf[Href[i].url] \in Sites /\ DocPerSite(SiteOf[Href[i].url]) \in Nat
      BY <1>2, SiteAssumption, DocPerSiteNat DEF Entries
    <3> QED BY <2>1, <3>1 DEF CheckHref, ListOK, TypeOK, tableVars
  <2>2. CASE StoreHref
    <3>1. url' \subseteq Urls /\ UNCHANGED <<hostinfo, doc_per_site>>
      BY <1>2, <2>2 DEF StoreHref, ListOK, TypeOK, tableVars, Entries
    <3>2. links' = links \/ AddLink(url')
      BY <2>2 DEF StoreHref, tableVars
    <3>3. links' = links \/ (Href[i].referrer # NoUrl /\ links' = links \cup {<<Href[i].referrer, Href[i].url>>})
      BY <3>2 DEF AddLink, NeedAddLink
    <3>4. links' \subseteq Docs \X Urls
      BY <1>2, <3>3 DEF ListOK, TypeOK, Entries
    <3> QED BY <3>1, <3>4 DEF ListOK, TypeOK
  <2> QED BY <2>1, <2>2
<1>7. tnx_started' \in {0, 1}
  <2>1. CASE CheckHref
    BY <2>1 DEF CheckHref, ListOK, TypeOK
  <2>2. CASE StoreHref
    BY <2>2 DEF StoreHref, ListOK, TypeOK
  <2> QED BY <2>1, <2>2
<1>8. TypeOK'
  BY <1>1, <1>4, <1>6, <1>7 DEF ListOK, TypeOK, addVars
<1> QED BY <1>1, <1>5, <1>8 DEF ListOK, BisectInv

\* The end of UdmStoreHrefs, with the list as it is or with one more flag set.
LEMMA EndStep ==
    ASSUME ListOK, NEW H \in Seq(Entries), StoreEnd(H), Len(H) = Len(Href),
           \A k \in 1..Len(Href) : H[k].url = Href[k].url
    PROVE  ListOK'
<1>1. Release /\ parsed' \subseteq Docs /\ UNCHANGED <<tableVars, found>>
  BY DEF StoreEnd, ListOK, TypeOK
<1>2. CASE Href' = <<>> /\ shrefs' = 0 /\ dhrefs' = 0
  BY <1>1, <1>2 DEF ListOK, TypeOK, ListInv, BisectInv, Release, tableVars
<1>3. CASE Href' = H /\ dhrefs' = Len(H) /\ UNCHANGED shrefs
  <2>1. ListInv'
    BY <1>3, SameUrls
  <2>2. shrefs' \in 0..Len(Href') /\ dhrefs' \in 0..Len(Href')
    BY <1>3 DEF ListOK, TypeOK
  <2>3. Href' \in Seq(Entries)
    BY <1>3
  <2> QED BY <1>1, <2>1, <2>2, <2>3 DEF ListOK, TypeOK, BisectInv, Release, tableVars
<1> QED BY <1>2, <1>3 DEF StoreEnd

\* Every action keeps ListOK.
LEMMA ListNext == ListOK /\ [Next]_vars => ListOK'
<1> SUFFICES ASSUME ListOK, [Next]_vars PROVE ListOK'
    OBVIOUS
<1>1. ASSUME NEW d \in Docs, DocStoreHrefs(d) PROVE ListOK'
  <2>1. /\ todo' \in Seq(Urls) /\ todo' # <<>> /\ pc' = "find" /\ doc' = d
        /\ l' = 1 /\ r' = shrefs /\ parsed' = parsed \cup {d}
        /\ UNCHANGED <<listVars, tableVars, found, loopVars>>
    BY <1>1, ListAssumption DEF DocStoreHrefs
  <2>2. shrefs \in Nat
    BY DEF ListOK, TypeOK
  <2>5. ListInv'
    BY <2>1 DEF ListOK, ListInv, listVars
  <2>3. TypeOK' /\ ListInv'
    BY <2>1, <2>2, <2>5 DEF ListOK, TypeOK, listVars, tableVars, loopVars
  <2>4. l' \in 1..shrefs + 1 /\ r' \in 0..shrefs /\ \A k \in 1..shrefs : l' <= k /\ k <= r'
    BY <2>1, <2>2, FullRange
  <2> QED BY <2>1, <2>3, <2>4 DEF ListOK, BisectInv, listVars
<1>2. CASE Bisect
  BY <1>2, BisectStep
<1>3. CASE FindSorted
  <2>1. (l + r) \div 2 \in 1..Len(Href)
    BY <1>3 DEF FindSorted, ListOK, TypeOK, BisectInv
  <2> QED BY <1>3, <2>1, ReplaceStep DEF FindSorted
<1>4. CASE FindUnsorted
  <2>1. PICK c \in shrefs + 1..Len(Href) : ReplaceHref(c)
    BY <1>4 DEF FindUnsorted
  <2>2. c \in 1..Len(Href)
    BY DEF ListOK, TypeOK
  <2> QED BY <1>4, <2>1, <2>2, ReplaceStep DEF FindUnsorted
<1>5. CASE AppendHref
  BY <1>5, AppendStep
<1>6. ASSUME NEW d \in Docs \cup {NoUrl}, StoreHrefs(d) PROVE ListOK'
  BY <1>6 DEF StoreHrefs, ListOK, TypeOK, ListInv, BisectInv, listVars, tableVars, addVars, loopVars
<1>7. CASE CheckHref \/ StoreHref
  BY <1>7, LoopStep
<1>8. CASE CheckError
  BY <1>8 DEF CheckError, Release, ListOK, TypeOK, ListInv, BisectInv, listVars, tableVars
<1>9. CASE CheckEnd
  BY <1>9 DEF CheckEnd, ListOK, TypeOK, ListInv, BisectInv, listVars, tableVars, addVars
<1>10. CASE StoreDone
  <2>1. Href \in Seq(Entries)
    BY DEF ListOK, TypeOK
  <2> QED BY <1>10, <2>1, EndStep DEF StoreDone
<1>11. CASE StoreError
  <2> DEFINE H == [Href EXCEPT ![i].stored = TRUE]
  <2>1. i \in 1..Len(Href) /\ Href \in Seq(Entries) /\ Href[i] \in Entries
    BY <1>11 DEF StoreError, ListOK, TypeOK
  <2>2. /\ H \in Seq(Entries) /\ Len(H) = Len(Href)
        /\ \A k \in 1..Len(Href) : H[k].url = Href[k].url
    <3> DEFINE e == [Href[i] EXCEPT !.stored = TRUE]
    <3>1. H = [Href EXCEPT ![i] = e]
      BY <2>1
    <3>2. e \in Entries /\ e.url = Href[i].url
      BY <2>1, ChangeFlags
    <3> HIDE DEF e, H
    <3> QED BY <2>1, <3>1, <3>2, ChangeEntry
  <2>3. StoreEnd(H)
    BY <1>11 DEF StoreError
  <2> HIDE DEF H
  <2> QED BY <2>2, <2>3, EndStep
<1>12. ASSUME NEW u \in Urls, DeleteRow(u) PROVE ListOK'
  BY <1>12 DEF DeleteRow, ListOK, TypeOK, ListInv, BisectInv, listVars, addVars, loopVars
<1>13. CASE Restart
  <2>1. /\ Href' \in Seq(Entries) /\ Len(Href') = Len(StartHrefs)
        /\ \A k \in 1..Len(StartHrefs) : Href'[k].url = StartHrefs[k]
    BY <1>13, ListAssumption DEF Restart, Entries, Entry
  <2>2. ListInv'
    BY <1>13, <2>1, ListAssumption DEF Restart, ListInv
  <2>3. TypeOK'
    BY <1>13, <2>1 DEF Restart, Release, ListOK, TypeOK, tableVars
  <2> QED BY <1>13, <2>2, <2>3 DEF Restart, Release, ListOK, BisectInv
<1>14. ASSUME NEW d \in Docs, LinksDelete(d) PROVE ListOK'
  BY <1>14 DEF LinksDelete, ListOK, TypeOK, ListInv, BisectInv, listVars, addVars, loopVars
<1>15. CASE UNCHANGED vars
  BY <1>15 DEF vars, ListOK, TypeOK, ListInv, BisectInv, listVars, tableVars, addVars, loopVars
<1> QED BY <1>1, <1>2, <1>3, <1>4, <1>5, <1>6, <1>7, <1>8, <1>9, <1>10, <1>11, <1>12,
           <1>13, <1>14, <1>15 DEF Next

\* The link cache is a set with a sorted part, whatever links come in which
\* order and whatever fails, and the bisection never misses a link it has.
THEOREM HrefCacheList == Spec => [](TypeOK /\ ListInv /\ BisectInv)
<1>1. ListOK => TypeOK /\ ListInv /\ BisectInv
  BY DEF ListOK
<1> QED BY <1>1, ListInit, ListNext, PTL DEF Spec

-----------------------------------------------------------------------------
(* What counts as saved has a row, and the cache implements LinkSet.       *)

\* The conditions: the database works, no row is deleted, no limit on the
\* documents of a site; for LinkSet also that the process is not restarted.
RowsStay == {"dbError", "deleteRow"} \cap Events = {} /\ MaxDocPerSite = 0

\* Entries that are stored have rows, and the loop of UdmStoreHrefsSQL leaves
\* only stored entries behind.
SavedInv ==
    /\ SavedHaveRows
    /\ \A k \in 1..Len(Href) : Href[k].stored => Href[k].url \in url
    /\ pc = "store" => \A k \in 1..Len(Href) : k < i => Href[k].stored

\* Nothing is stored in the first state.
LEMMA SavedInit == Init => SavedInv
<1> SUFFICES ASSUME Init PROVE SavedInv
    OBVIOUS
<1>1. \A k \in 1..Len(Href) : ~Href[k].stored
  BY ListAssumption DEF Init, Entry
<1>2. dhrefs = 0 /\ pc = "free"
  BY DEF Init
<1>3. SavedHaveRows
  BY <1>2 DEF SavedHaveRows
<1> QED BY <1>1, <1>2, <1>3 DEF SavedInv

\* What FindSorted, FindUnsorted and AppendHref do to the list: one entry more
\* waits for a row, and the stored entries are those of before.
LEMMA FindSaved ==
    ASSUME ListOK, SavedInv, RowsStay, FindSorted \/ FindUnsorted \/ AppendHref
    PROVE  SavedInv' /\ Unsaved' = Unsaved \cup {Head(todo)} /\ url' = url /\ Head(todo) \in Urls
<1>1. /\ Href \in Seq(Entries) /\ Len(Href) \in Nat /\ pc = "find" /\ shrefs \in 0..Len(Href)
      /\ dhrefs \in 0..Len(Href) /\ Head(todo) \in Urls
  BY DEF FindSorted, FindUnsorted, AppendHref, ListOK, TypeOK
<1>2. url' = url /\ pc' # "store"
  BY <1>1 DEF FindSorted, FindUnsorted, AppendHref, ReplaceHref, NextLink, Release, tableVars
<1>3. ASSUME NEW c \in 1..Len(Href), ReplaceHref(c)
      PROVE  SavedInv' /\ Unsaved' = Unsaved \cup {Head(todo)}
  <2> DEFINE e == Entry(Head(todo), doc)
  <2>1. e.url = Href[c].url /\ e.url = Head(todo) /\ ~e.stored
    BY <1>3 DEF ReplaceHref, Entry
  <2>2. Href' = [Href EXCEPT ![c] = e] /\ dhrefs' = dhrefs
    BY <1>3 DEF ReplaceHref
  <2> HIDE DEF e
  <2>3. /\ Len(Href') = Len(Href) /\ Href'[c] = e
        /\ \A k \in 1..Len(Href) : k # c => Href'[k] = Href[k]
    BY <1>1, <2>2
  <2>4. SavedInv'
    <3>1. \A k \in 1..Len(Href) : Href'[k].url = Href[k].url
      BY <2>1, <2>3
    <3>2. SavedHaveRows'
      <4>1. \A k \in 1..dhrefs : k \in 1..Len(Href) /\ Href[k].url \in url
        BY <1>1 DEF SavedInv, SavedHaveRows
      <4> QED BY <1>2, <2>2, <3>1, <4>1 DEF SavedHaveRows
    <3>3. \A k \in 1..Len(Href') : Href'[k].stored => Href'[k].url \in url'
      BY <1>2, <2>1, <2>3 DEF SavedInv
    <3> QED BY <1>2, <3>2, <3>3 DEF SavedInv
  <2>5. \A k \in 1..Len(Href) : Href[k].url = Head(todo) => k = c
    BY <2>1 DEF ListOK, ListInv
  <2>6. Unsaved' = Unsaved \cup {Head(todo)}
    BY <2>1, <2>3, <2>5 DEF Unsaved
  <2> QED BY <2>4, <2>6
<1>4. CASE FindSorted
  <2>1. (l + r) \div 2 \in 1..Len(Href)
    BY <1>4 DEF FindSorted, ListOK, TypeOK, BisectInv
  <2> QED BY <1>1, <1>2, <1>3, <1>4, <2>1 DEF FindSorted
<1>5. CASE FindUnsorted
  <2>1. PICK c \in shrefs + 1..Len(Href) : ReplaceHref(c)
    BY <1>5 DEF FindUnsorted
  <2>2. c \in 1..Len(Href)
    BY <1>1
  <2> QED BY <1>1, <1>2, <1>3, <2>1, <2>2
<1>6. CASE AppendHref
  <2> DEFINE e == Entry(Head(todo), doc)
             H == Append(Href, e)
             n == Len(Href)
  <2>1. e \in Entries /\ e.url = Head(todo) /\ ~e.stored
    BY UrlAssumption, <1>1 DEF Entry, Entries, ListOK, TypeOK
  <2>2. /\ H \in Seq(Entries) /\ Len(H) = n + 1 /\ H[n + 1] = e /\ n \in Nat
        /\ \A k \in 1..n : H[k] = Href[k]
    BY <1>1, <2>1
  <2>3. \/ Href' \in Sorted(H) /\ dhrefs' = 0
        \/ Href' = H /\ dhrefs' = dhrefs
    BY <1>6 DEF AppendHref
  <2> HIDE DEF e, H, n
  <2>4. \A k \in 1..n + 1 : k \in 1..n \/ k = n + 1
    BY <2>2
  <2>5. \A k \in 1..n : Href[k].url # e.url
    <3>1. \A k \in 1..shrefs : Href[k].url # Head(todo)
      BY <1>1, <1>6 DEF AppendHref, ListOK, BisectInv
    <3>2. \A k \in shrefs + 1..n : Href[k].url # Head(todo)
      BY <1>6 DEF AppendHref, n
    <3>3. \A k \in 1..n : k \in 1..shrefs \/ k \in shrefs + 1..n
      BY <1>1 DEF n
    <3> QED BY <2>1, <3>1, <3>2, <3>3
  <2>6. \A j, k \in 1..n + 1 : H[j].url = H[k].url => j = k
    <3>1. \A j, k \in 1..n : Href[j].url = Href[k].url => j = k
      BY DEF ListOK, ListInv, n
    <3> QED BY <2>2, <2>4, <2>5, <3>1
  <2>7. /\ Len(Href') = n + 1
        /\ \A j \in 1..n + 1 : \E k \in 1..n + 1 : Href'[j] = H[k]
        /\ \A k \in 1..n + 1 : \E j \in 1..n + 1 : Href'[j] = H[k]
    <3>1. CASE Href' \in Sorted(H)
      <4>1. /\ Len(Href') = Len(H)
            /\ \A j \in 1..Len(H) : \E k \in 1..Len(H) : Href'[j] = H[k]
            /\ \A k \in 1..Len(H) : \E j \in 1..Len(H) : Href'[j] = H[k]
        <5>1. \A j, k \in 1..Len(H) : H[j].url = H[k].url => j = k
          BY <2>2, <2>6
        <5>2. H \in Seq(Entries)
          BY <2>2
        <5>3. Len(Href') = Len(H)
          BY <3>1, <5>1, <5>2, SortedFacts
        <5>4. /\ \A j \in 1..Len(Href') : \E k \in 1..Len(H) : Href'[j] = H[k]
              /\ \A k \in 1..Len(H) : \E j \in 1..Len(Href') : Href'[j] = H[k]
          BY <3>1, <5>1, <5>2, SortedFacts
        <5> QED BY <5>3, <5>4
      <4>2. Len(H) = n + 1
        BY <2>2
      <4> QED BY <4>1, <4>2
    <3>2. CASE Href' = H
      BY <2>2, <3>2
    <3> QED BY <2>3, <3>1, <3>2
  <2>8. \A k \in 1..n + 1 : H[k].stored => H[k].url \in url
    BY <2>1, <2>2, <2>4 DEF SavedInv, n
  <2>9. \A k \in 1..Len(Href') : Href'[k].stored => Href'[k].url \in url'
    BY <1>2, <2>7, <2>8
  <2>10. SavedHaveRows'
    <3>1. CASE dhrefs' = 0
      BY <3>1 DEF SavedHaveRows
    <3>2. CASE Href' = H /\ dhrefs' = dhrefs
      <4>1. \A k \in 1..dhrefs : k \in 1..n
        BY <1>1 DEF n
      <4> QED BY <1>2, <2>2, <3>2, <4>1 DEF SavedInv, SavedHaveRows
    <3> QED BY <2>3, <3>1, <3>2
  <2>11. Unsaved' = Unsaved \cup {Head(todo)}
    <3>1. Unsaved' = {H[k].url : k \in {m \in 1..n + 1 : ~H[m].stored}}
      <4> DEFINE U == {H[k].url : k \in {m \in 1..n + 1 : ~H[m].stored}}
      <4>1. ASSUME NEW u \in Unsaved' PROVE u \in U
        <5>1. PICK j \in 1..n + 1 : ~Href'[j].stored /\ u = Href'[j].url
          BY <2>7, <4>1 DEF Unsaved
        <5>2. PICK k \in 1..n + 1 : Href'[j] = H[k]
          BY <2>7
        <5> QED BY <5>1, <5>2
      <4>2. ASSUME NEW u \in U PROVE u \in Unsaved'
        <5>1. PICK k \in 1..n + 1 : ~H[k].stored /\ u = H[k].url
          BY <4>2
        <5>2. PICK j \in 1..n + 1 : Href'[j] = H[k]
          BY <2>7
        <5> QED BY <2>7, <5>1, <5>2 DEF Unsaved
      <4> QED BY <4>1, <4>2
    <3>2. {H[k].url : k \in {m \in 1..n + 1 : ~H[m].stored}} = Unsaved \cup {e.url}
      BY <2>1, <2>2, <2>4 DEF Unsaved, n
    <3> QED BY <2>1, <3>1, <3>2
  <2> QED BY <1>1, <1>2, <2>9, <2>10, <2>11 DEF SavedInv
<1> QED BY <1>4, <1>5, <1>6

\* The loop of UdmStoreHrefsSQL: an entry that waits gets its row, also if it
\* is among the dhrefs that count as saved and none is written.
LEMMA StoreSaved ==
    ASSUME ListOK, SavedInv, StoreHref
    PROVE  /\ SavedInv'
           /\ \/ UNCHANGED <<Unsaved, url>>
              \/ \E u \in Urls : LinkSet!Save(u)
<1>1. /\ Href \in Seq(Entries) /\ Len(Href) \in Nat /\ dhrefs \in 0..Len(Href)
      /\ i \in 1..Len(Href) /\ pc = "store" /\ pc' = "store" /\ i' = i + 1 /\ dhrefs' = dhrefs
  BY DEF StoreHref, ListOK, TypeOK
<1>2. CASE Href[i].stored
  <2>1. Href' = Href /\ url' = url
    BY <1>2 DEF StoreHref, tableVars
  <2>2. \A k \in 1..Len(Href) : k < i' => k < i \/ k = i
    BY <1>1
  <2> QED BY <1>1, <1>2, <2>1, <2>2 DEF SavedInv, SavedHaveRows, Unsaved
<1>3. CASE ~Href[i].stored
  <2> DEFINE u == Href[i].url
             e == [Href[i] EXCEPT !.stored = TRUE]
  <2>1. Href' = [Href EXCEPT ![i] = e]
    BY <1>1, <1>3 DEF StoreHref
  <2>2. u \in Urls /\ e.url = u /\ e.stored
    <3>1. Href[i] \in Entries
      BY <1>1
    <3>2. e.url = Href[i].url /\ e.stored
      BY <3>1 DEF Entries
    <3> QED BY <3>1, <3>2 DEF Entries
  <2>3. url' = url \cup {u}
    <3>1. CASE i > dhrefs
      BY <1>3, <3>1 DEF StoreHref, NeedAddUrl
    <3>2. CASE ~(i > dhrefs)
      <4>1. i \in 1..dhrefs
        BY <1>1, <3>2
      <4>2. u \in url
        BY <4>1 DEF SavedInv, SavedHaveRows
      <4>3. url' = url
        BY <1>3, <3>2 DEF StoreHref, NeedAddUrl
      <4> QED BY <4>2, <4>3
    <3> QED BY <3>1, <3>2
  <2>4. \A k \in 1..Len(Href) : Href[k].url = u => k = i
    BY <1>1 DEF ListOK, ListInv
  <2> HIDE DEF e, u
  <2>5. /\ Len(Href') = Len(Href) /\ Href'[i] = e
        /\ \A k \in 1..Len(Href) : k # i => Href'[k] = Href[k]
    BY <1>1, <2>1
  <2>6. Href[i].url = u
    BY DEF u
  <2>7. \A k \in 1..Len(Href) : Href'[k].url = Href[k].url
    BY <2>2, <2>5, <2>6
  <2>8. SavedHaveRows'
    <3>1. \A k \in 1..dhrefs : k \in 1..Len(Href) /\ Href[k].url \in url
      BY <1>1 DEF SavedInv, SavedHaveRows
    <3> QED BY <1>1, <2>3, <2>7, <3>1 DEF SavedHaveRows
  <2>9. \A k \in 1..Len(Href') : Href'[k].stored => Href'[k].url \in url'
    BY <1>1, <2>2, <2>3, <2>5 DEF SavedInv
  <2>10. \A k \in 1..Len(Href') : k < i' => Href'[k].stored
    <3>1. \A k \in 1..Len(Href) : k < i' => k < i \/ k = i
      BY <1>1
    <3> QED BY <1>1, <2>2, <2>5, <3>1 DEF SavedInv
  <2>11. u \in Unsaved
    BY <1>1, <1>3, <2>6 DEF Unsaved
  <2>12. Unsaved' = Unsaved \ {u}
    BY <1>1, <2>2, <2>4, <2>5, <2>6 DEF Unsaved
  <2>13. LinkSet!Save(u)
    BY <2>3, <2>11, <2>12 DEF LinkSet!Save
  <2> QED BY <2>2, <2>8, <2>9, <2>10, <2>13 DEF SavedInv
<1> QED BY <1>2, <1>3

\* The end of UdmStoreHrefs: all entries are stored, so that the list may be
\* freed and dhrefs may be set to its length.
LEMMA EndSaved ==
    ASSUME ListOK, SavedInv, StoreDone
    PROVE  SavedInv' /\ UNCHANGED <<Unsaved, url>>
<1>1. /\ Len(Href) \in Nat /\ pc = "store" /\ i > Len(Href) /\ i \in Nat /\ pc' = "free"
      /\ url' = url
  BY DEF StoreDone, StoreEnd, Release, tableVars, ListOK, TypeOK
<1>2. \A k \in 1..Len(Href) : Href[k].stored /\ Href[k].url \in url
  BY <1>1 DEF SavedInv
<1>3. Unsaved = {}
  BY <1>2 DEF Unsaved
<1>4. CASE Href' = <<>> /\ dhrefs' = 0
  BY <1>1, <1>3, <1>4 DEF SavedInv, SavedHaveRows, Unsaved
<1>5. CASE Href' = Href /\ dhrefs' = Len(Href)
  BY <1>1, <1>2, <1>3, <1>5 DEF SavedInv, SavedHaveRows, Unsaved
<1> QED BY <1>4, <1>5 DEF StoreDone, StoreEnd

\* One step for each action of HrefCache.
LEMMA SavedNext ==
    ASSUME ListOK, SavedInv, RowsStay, [Next]_vars
    PROVE  /\ SavedInv'
           /\ "restart" \notin Events => [LinkSet!Next]_<<Unsaved, url>>
<1> DEFINE Stutter == UNCHANGED <<Unsaved, url>>
<1> USE DEF RowsStay
<1>1. ASSUME UNCHANGED <<Href, dhrefs, url>>, pc' # "store" \/ UNCHANGED <<pc, i>>
      PROVE  SavedInv' /\ Stutter
  BY <1>1 DEF SavedInv, SavedHaveRows, Unsaved
<1>2. ASSUME NEW d \in Docs, DocStoreHrefs(d) PROVE SavedInv' /\ Stutter
  BY <1>1, <1>2 DEF DocStoreHrefs, listVars, tableVars
<1>3. CASE Bisect
  BY <1>1, <1>3 DEF Bisect, listVars, tableVars
<1>4. CASE FindSorted \/ FindUnsorted \/ AppendHref
  BY <1>4, FindSaved DEF LinkSet!Next, LinkSet!Find
<1>5. ASSUME NEW d \in Docs \cup {NoUrl}, StoreHrefs(d) PROVE SavedInv' /\ Stutter
  BY <1>1, <1>5 DEF StoreHrefs, listVars, tableVars
<1>6. CASE CheckHref
  <2>1. UNCHANGED <<Href, dhrefs, url>> /\ pc = "check" /\ pc' = "check"
    BY <1>6 DEF CheckHref, tableVars
  <2> QED BY <1>1, <2>1
<1>7. CASE CheckError
  BY <1>7 DEF CheckError
<1>8. CASE CheckEnd
  <2>1. UNCHANGED <<Href, dhrefs, url>> /\ i' = 1
    BY <1>8 DEF CheckEnd, listVars, tableVars
  <2>2. \A k \in 1..Len(Href) : ~(k < 1)
    OBVIOUS
  <2> QED BY <2>1, <2>2 DEF SavedInv, SavedHaveRows, Unsaved
<1>9. CASE StoreHref
  BY <1>9, StoreSaved DEF LinkSet!Next
<1>10. CASE StoreDone
  BY <1>10, EndSaved
<1>11. CASE StoreError
  BY <1>11 DEF StoreError
<1>12. ASSUME NEW u \in Urls, DeleteRow(u) PROVE FALSE
  BY <1>12 DEF DeleteRow
<1>13. CASE Restart
  <2>1. /\ Len(Href') = Len(StartHrefs) /\ dhrefs' = 0 /\ pc' = "free" /\ "restart" \in Events
        /\ \A k \in 1..Len(StartHrefs) : ~Href'[k].stored
    BY <1>13, ListAssumption DEF Restart, Release, Entry
  <2>2. SavedHaveRows'
    BY <2>1 DEF SavedHaveRows
  <2> QED BY <2>1, <2>2 DEF SavedInv
<1>14. ASSUME NEW d \in Docs, LinksDelete(d) PROVE SavedInv' /\ Stutter
  BY <1>1, <1>14 DEF LinksDelete, listVars
<1>15. CASE UNCHANGED vars
  BY <1>1, <1>15 DEF vars, listVars, tableVars, loopVars
<1> HIDE DEF RowsStay
<1> QED BY <1>2, <1>3, <1>4, <1>5, <1>6, <1>7, <1>8, <1>9, <1>10, <1>11, <1>12, <1>13, <1>14, <1>15
        DEF Next

\* What counts as saved has a row: the sort sets dhrefs back, and the freed
\* list takes its counters with it.
THEOREM HrefCacheSaved ==
    ASSUME RowsStay
    PROVE  Spec => []SavedHaveRows
<1>1. Init => ListOK /\ SavedInv
  BY ListInit, SavedInit
<1>2. ListOK /\ SavedInv /\ [Next]_vars => (ListOK /\ SavedInv)'
  BY RowsStay, ListNext, SavedNext
<1>3. SavedInv => SavedHaveRows
  BY DEF SavedInv
<1> QED BY <1>1, <1>2, <1>3, PTL DEF Spec

\* The cache is a set of URLs to be saved: no link is dropped before it has
\* its row, however the entries are searched, sorted, flagged and freed.
THEOREM HrefCacheLinkSet ==
    ASSUME RowsStay, "restart" \notin Events
    PROVE  Spec => ImplementsLinkSet
<1>1. Init => ListOK /\ SavedInv
  BY ListInit, SavedInit
<1>2. ListOK /\ SavedInv /\ [Next]_vars => (ListOK /\ SavedInv)'
  BY RowsStay, ListNext, SavedNext
<1>3. Init => LinkSet!Init
  <2> SUFFICES ASSUME Init PROVE LinkSet!Init
    OBVIOUS
  <2>1. /\ Len(Href) = Len(StartHrefs) /\ url = {}
        /\ \A k \in 1..Len(StartHrefs) : ~Href[k].stored /\ Href[k].url = StartHrefs[k]
    BY ListAssumption DEF Init, Entry
  <2> QED BY <2>1 DEF LinkSet!Init, Unsaved, StartUrls
<1>4. ListOK /\ SavedInv /\ [Next]_vars => [LinkSet!Next]_<<Unsaved, url>>
  BY RowsStay, SavedNext
<1> QED BY <1>1, <1>2, <1>3, <1>4, PTL DEF Spec, ImplementsLinkSet, LinkSet!Spec

-----------------------------------------------------------------------------
(* Links are kept.                                                         *)

\* The conditions: one document at a time, and no INSERT INTO links fails.
LinksStay == RowsStay /\ "linkError" \notin Events /\ Threads <= 1

\* The entry by which link u of document d waits for its row in "links".
Waits(u, d) == \E k \in 1..Len(Href) : Href[k] = Entry(u, d)

\* An entry that waits has the document in work as its referrer, so that no
\* other document can overwrite it.
Owned == \A k \in 1..Len(Href) :
             ~Href[k].stored /\ Href[k].referrer # NoUrl => Href[k].referrer \in parsed

LinkInv ==
    /\ LinksKept
    /\ Owned
    /\ pc = "find" => doc \in parsed
    /\ \A d, e \in parsed : d = e

\* Nobody has handed a link in.
LEMMA LinkInit == Init => LinkInv
<1> SUFFICES ASSUME Init PROVE LinkInv
    OBVIOUS
<1>1. \A k \in 1..Len(Href) : Href[k].referrer = NoUrl
  BY ListAssumption DEF Init, Entry
<1>2. found = {} /\ parsed = {} /\ pc = "free"
  BY DEF Init
<1> QED BY <1>1, <1>2 DEF LinkInv, LinksKept, Owned

\* What becomes of the entries when a link is found or appended: its own is
\* there, and the entries of other URLs are those of before.
LEMMA FindEntries ==
    ASSUME ListOK, FindSorted \/ FindUnsorted \/ AppendHref
    PROVE  LET e == Entry(Head(todo), doc) IN
           /\ \E j \in 1..Len(Href') : Href'[j] = e
           /\ \A j \in 1..Len(Href') : Href'[j] = e \/ \E k \in 1..Len(Href) : Href'[j] = Href[k]
           /\ \A k \in 1..Len(Href) : Href[k].url = e.url \/ \E j \in 1..Len(Href') : Href'[j] = Href[k]
<1> DEFINE e == Entry(Head(todo), doc)
           n == Len(Href)
<1>1. /\ Href \in Seq(Entries) /\ n \in Nat /\ pc = "find" /\ shrefs \in 0..n
      /\ Head(todo) \in Urls /\ doc \in Docs
  BY DEF FindSorted, FindUnsorted, AppendHref, ListOK, TypeOK
<1>2. e \in Entries /\ e.url = Head(todo)
  BY UrlAssumption, <1>1 DEF Entry, Entries
<1>3. ASSUME NEW c \in 1..n, ReplaceHref(c)
      PROVE  /\ \E j \in 1..Len(Href') : Href'[j] = e
             /\ \A j \in 1..Len(Href') : Href'[j] = e \/ \E k \in 1..n : Href'[j] = Href[k]
             /\ \A k \in 1..n : Href[k].url = e.url \/ \E j \in 1..Len(Href') : Href'[j] = Href[k]
  <2>1. Href[c].url = e.url /\ Href' = [Href EXCEPT ![c] = e]
    BY <1>2, <1>3 DEF ReplaceHref
  <2> HIDE DEF e
  <2>2. /\ Len(Href') = n /\ Href'[c] = e
        /\ \A k \in 1..n : k # c => Href'[k] = Href[k]
    BY <1>1, <2>1
  <2> QED BY <2>1, <2>2
<1>4. CASE FindSorted
  <2>1. (l + r) \div 2 \in 1..n
    BY <1>4 DEF FindSorted, ListOK, TypeOK, BisectInv
  <2>2. ReplaceHref((l + r) \div 2)
    BY <1>4 DEF FindSorted
  <2> HIDE DEF e, n
  <2> QED BY <1>3, <2>1, <2>2 DEF e, n
<1>5. CASE FindUnsorted
  <2>1. PICK c \in shrefs + 1..n : ReplaceHref(c)
    BY <1>5 DEF FindUnsorted
  <2>2. c \in 1..n
    BY <1>1
  <2> HIDE DEF e, n
  <2> QED BY <1>3, <2>1, <2>2 DEF e, n
<1>6. CASE AppendHref
  <2> DEFINE H == Append(Href, e)
  <2>1. /\ H \in Seq(Entries) /\ Len(H) = n + 1 /\ H[n + 1] = e
        /\ \A k \in 1..n : H[k] = Href[k]
    BY <1>1, <1>2
  <2>2. Href' \in Sorted(H) \/ Href' = H
    BY <1>6 DEF AppendHref
  <2> HIDE DEF e, H, n
  <2>3. \A k \in 1..n + 1 : k \in 1..n \/ k = n + 1
    BY <1>1 DEF n
  <2>4. \A k \in 1..n : Href[k].url # e.url
    <3>1. \A k \in 1..shrefs : Href[k].url # Head(todo)
      BY <1>1, <1>6 DEF AppendHref, ListOK, BisectInv, n
    <3>2. \A k \in shrefs + 1..n : Href[k].url # Head(todo)
      BY <1>6 DEF AppendHref, n
    <3>3. \A k \in 1..n : k \in 1..shrefs \/ k \in shrefs + 1..n
      BY <1>1 DEF n
    <3> QED BY <1>2, <3>1, <3>2, <3>3
  <2>5. \A j, k \in 1..Len(H) : H[j].url = H[k].url => j = k
    <3>1. \A j, k \in 1..n : Href[j].url = Href[k].url => j = k
      BY DEF ListOK, ListInv, n
    <3> QED BY <2>1, <2>3, <2>4, <3>1
  <2>6. /\ \A j \in 1..Len(Href') : \E k \in 1..Len(H) : Href'[j] = H[k]
        /\ \A k \in 1..Len(H) : \E j \in 1..Len(Href') : Href'[j] = H[k]
    BY <2>1, <2>2, <2>5, SortedFacts
  <2>7. n + 1 \in 1..Len(H) /\ \A k \in 1..n : k \in 1..Len(H)
    BY <1>1, <2>1 DEF n
  <2>8. \E j \in 1..Len(Href') : Href'[j] = e
    BY <2>1, <2>6, <2>7
  <2>9. \A j \in 1..Len(Href') : Href'[j] = e \/ \E k \in 1..n : Href'[j] = Href[k]
    <3>1. ASSUME NEW j \in 1..Len(Href'), Href'[j] # e
          PROVE  \E k \in 1..n : Href'[j] = Href[k]
      <4>1. PICK k \in 1..Len(H) : Href'[j] = H[k]
        BY <2>6
      <4>2. k \in 1..n
        BY <2>1, <2>3, <3>1, <4>1
      <4> QED BY <2>1, <4>1, <4>2
    <3> QED BY <3>1
  <2>10. \A k \in 1..n : \E j \in 1..Len(Href') : Href'[j] = Href[k]
    BY <2>1, <2>6, <2>7
  <2> QED BY <2>8, <2>9, <2>10 DEF e, n
<1> QED BY <1>4, <1>5, <1>6

\* A link that is handed in waits; if its entry waited already, it waited for
\* the same document.
LEMMA FindLink ==
    ASSUME ListOK, LinkInv, FindSorted \/ FindUnsorted \/ AppendHref
    PROVE  LinkInv'
<1> DEFINE u == Head(todo)
           e == Entry(u, doc)
<1>1. u \in Urls /\ doc \in Docs /\ doc \in parsed /\ pc = "find"
  BY DEF FindSorted, FindUnsorted, AppendHref, ListOK, TypeOK, LinkInv
<1>2. /\ UNCHANGED <<links, parsed>> /\ pc' \in {"find", "free"} /\ (pc' = "find" => doc' = doc)
      /\ CollectLinks => found' = found \cup {<<doc, u>>}
  BY <1>1 DEF FindSorted, FindUnsorted, AppendHref, ReplaceHref, NextLink, Release, tableVars
<1>3. e.url = u /\ (e.referrer = doc \/ e.referrer = NoUrl)
  BY DEF Entry
<1>4. /\ \E j \in 1..Len(Href') : Href'[j] = e
      /\ \A j \in 1..Len(Href') : Href'[j] = e \/ \E k \in 1..Len(Href) : Href'[j] = Href[k]
      /\ \A k \in 1..Len(Href) : Href[k].url = u \/ \E j \in 1..Len(Href') : Href'[j] = Href[k]
  BY <1>3, FindEntries
<1>5. Owned'
  <2> HIDE DEF e
  <2> QED BY <1>1, <1>2, <1>3, <1>4 DEF Owned, LinkInv
<1>6. ASSUME CollectLinks, NEW d \in Docs, NEW v \in Urls, <<d, v>> \in found', d # v, <<d, v>> \notin links
      PROVE  Waits(v, d)'
  <2>1. CASE d = doc /\ v = u
    BY <1>4, <2>1 DEF Waits, Entry
  <2>2. CASE <<d, v>> \in found
    <3>1. PICK k \in 1..Len(Href) : Href[k] = Entry(v, d)
      BY <1>6, <2>2 DEF LinkInv, LinksKept
    <3>2. Href[k].url = v /\ ~Href[k].stored /\ Href[k].referrer = d
      BY <1>6, <3>1 DEF Entry
    <3>3. CASE v # u
      <4>1. PICK j \in 1..Len(Href') : Href'[j] = Href[k]
        BY <1>4, <3>2, <3>3
      <4> QED BY <3>1, <4>1 DEF Waits, Entry
    <3>4. CASE v = u
      <4>1. d # NoUrl
        BY ListAssumption, UrlAssumption
      <4>2. d \in parsed
        BY <3>2, <4>1 DEF LinkInv, Owned
      <4>3. d = doc
        BY <1>1, <4>2 DEF LinkInv
      <4> QED BY <2>1, <3>4, <4>3
    <3> QED BY <3>3, <3>4
  <2> QED BY <1>2, <1>6, <2>1, <2>2
<1>7. LinksKept'
  BY <1>2, <1>6 DEF LinksKept, Waits
<1> QED BY <1>1, <1>2, <1>5, <1>7 DEF LinkInv

\* An entry of the loop of UdmStoreHrefsSQL: its URL has a row by now, so that
\* the link is written, and only then the entry is stored.
LEMMA StoreLink ==
    ASSUME ListOK, SavedInv, LinksStay, LinkInv, StoreHref
    PROVE  LinkInv'
<1>1. /\ Href \in Seq(Entries) /\ Len(Href) \in Nat /\ dhrefs \in 0..Len(Href)
      /\ i \in 1..Len(Href) /\ pc' = "store" /\ UNCHANGED <<parsed, found>>
  BY DEF StoreHref, ListOK, TypeOK
<1>2. CASE Href[i].stored
  <2>1. Href' = Href /\ links' = links
    BY <1>2 DEF StoreHref, tableVars
  <2> QED BY <1>1, <2>1 DEF LinkInv, LinksKept, Owned, Entry
<1>3. CASE ~Href[i].stored
  <2>1. Href' = [Href EXCEPT ![i].stored = TRUE]
    BY <1>3 DEF StoreHref
  <2>2. /\ Len(Href') = Len(Href) /\ Href'[i].stored
        /\ \A k \in 1..Len(Href) : k # i => Href'[k] = Href[k]
    <3>1. Href[i] \in Entries
      BY <1>1
    <3> QED BY <1>1, <2>1, <3>1 DEF Entries
  <2>3. Href[i].url \in url'
    <3>1. CASE i > dhrefs
      BY <1>3, <3>1 DEF StoreHref, NeedAddUrl
    <3>2. CASE ~(i > dhrefs)
      <4>1. i \in 1..dhrefs
        BY <1>1, <3>2
      <4>2. Href[i].url \in url /\ url' = url
        BY <1>3, <3>2, <4>1 DEF SavedInv, SavedHaveRows, StoreHref, NeedAddUrl
      <4> QED BY <4>2
    <3> QED BY <3>1, <3>2
  <2>4. AddLink(url')
    BY <1>3 DEF StoreHref
  <2>5. /\ links \subseteq links'
        /\ Href[i].referrer # NoUrl /\ Href[i].url # Href[i].referrer
           => <<Href[i].referrer, Href[i].url>> \in links'
    BY <2>3, <2>4 DEF AddLink, NeedAddLink, LinksStay
  <2>6. Owned'
    BY <1>1, <2>2 DEF LinkInv, Owned
  <2>7. ASSUME CollectLinks, NEW d \in Docs, NEW v \in Urls, <<d, v>> \in found', d # v, <<d, v>> \notin links'
        PROVE  \E k \in 1..Len(Href') : Href'[k] = Entry(v, d)
    <3>1. PICK k \in 1..Len(Href) : Href[k] = Entry(v, d)
      BY <1>1, <2>5, <2>7 DEF LinkInv, LinksKept
    <3>2. CASE k = i
      <4>1. Href[i].url = v /\ Href[i].referrer = d
        BY <2>7, <3>1, <3>2 DEF Entry
      <4>2. d # NoUrl
        BY ListAssumption, UrlAssumption
      <4> QED BY <2>5, <2>7, <4>1, <4>2
    <3>3. CASE k # i
      BY <2>2, <3>1, <3>3
    <3> QED BY <3>2, <3>3
  <2>8. LinksKept'
    BY <2>7 DEF LinksKept, Entry
  <2> QED BY <1>1, <2>6, <2>8 DEF LinkInv
<1> QED BY <1>2, <1>3

\* UdmStoreHrefs ends when no entry waits: the list may be freed, and another
\* document may hand in its links.
LEMMA EndLink ==
    ASSUME ListOK, SavedInv, LinkInv, StoreDone
    PROVE  LinkInv'
<1>1. /\ Len(Href) \in Nat /\ pc = "store" /\ i > Len(Href) /\ i \in Nat /\ pc' = "free"
      /\ UNCHANGED <<links, found>> /\ parsed' \subseteq parsed /\ Href' \in {<<>>, Href}
  BY DEF StoreDone, StoreEnd, Release, tableVars, ListOK, TypeOK
<1>2. \A k \in 1..Len(Href) : Href[k].stored
  BY <1>1 DEF SavedInv
<1>3. \A k \in 1..Len(Href') : Href'[k].stored
  BY <1>1, <1>2
<1>4. \A u, d : ~Waits(u, d)
  BY <1>2 DEF Waits, Entry
<1>5. LinksKept'
  BY <1>1, <1>4 DEF LinkInv, LinksKept, Waits
<1> QED BY <1>1, <1>3, <1>5 DEF LinkInv, Owned

\* One step for each action.
LEMMA LinkNext ==
    ASSUME ListOK, SavedInv, LinksStay, LinkInv, [Next]_vars
    PROVE  LinkInv'
<1> USE DEF LinksStay, RowsStay
<1>1. ASSUME UNCHANGED <<Href, links, found, parsed>>, pc' = "find" => pc = "find" /\ doc' = doc
      PROVE  LinkInv'
  BY <1>1 DEF LinkInv, LinksKept, Owned, Entry
<1>2. ASSUME NEW d \in Docs, DocStoreHrefs(d) PROVE LinkInv'
  <2>1. /\ UNCHANGED <<Href, links, found>> /\ pc' = "find" /\ doc' = d
        /\ parsed' = parsed \cup {d} /\ Cardinality(parsed') <= Threads
    BY <1>2 DEF DocStoreHrefs, listVars, tableVars
  <2>2. \A a, b \in parsed' : a = b
    <3>1. IsFiniteSet(parsed')
      <4>1. parsed' \subseteq Urls
        BY <2>1, ListAssumption DEF ListOK, TypeOK
      <4> QED BY <4>1, UrlAssumption, FS_Subset
    <3>2. ASSUME NEW a \in parsed', NEW b \in parsed', a # b PROVE FALSE
      <4>1. Cardinality({a} \cup {b}) = 2
        <5>1. IsFiniteSet({a}) /\ Cardinality({a}) = 1 /\ b \notin {a}
          BY <3>2, FS_Singleton
        <5> QED BY <5>1, FS_AddElement
      <4>2. Cardinality({a} \cup {b}) <= Cardinality(parsed') /\ Cardinality(parsed') \in Nat
        BY <3>1, FS_Subset, FS_CardinalityType
      <4> QED BY <2>1, <4>1, <4>2, SizeAssumption
    <3> QED BY <3>2
  <2>3. LinksKept'
    BY <2>1 DEF LinkInv, LinksKept, Entry
  <2> QED BY <2>1, <2>2, <2>3 DEF LinkInv, Owned
<1>3. CASE Bisect
  BY <1>1, <1>3 DEF Bisect, listVars, tableVars
<1>4. CASE FindSorted \/ FindUnsorted \/ AppendHref
  BY <1>4, FindLink
<1>5. ASSUME NEW d \in Docs \cup {NoUrl}, StoreHrefs(d) PROVE LinkInv'
  BY <1>1, <1>5 DEF StoreHrefs, listVars, tableVars
<1>6. CASE CheckHref
  <2>1. UNCHANGED <<Href, links, found, parsed>> /\ pc' = "check"
    BY <1>6 DEF CheckHref, tableVars
  <2> QED BY <1>1, <2>1
<1>7. CASE CheckError
  BY <1>7 DEF CheckError
<1>8. CASE CheckEnd
  BY <1>1, <1>8 DEF CheckEnd, listVars, tableVars
<1>9. CASE StoreHref
  BY <1>9, StoreLink
<1>10. CASE StoreDone
  BY <1>10, EndLink
<1>11. CASE StoreError
  BY <1>11 DEF StoreError
<1>12. ASSUME NEW u \in Urls, DeleteRow(u) PROVE FALSE
  BY <1>12 DEF DeleteRow
<1>13. CASE Restart
  <2>1. /\ pc' = "free" /\ parsed' = {} /\ found' = links /\ links' = links
        /\ \A k \in 1..Len(Href') : Href'[k].referrer = NoUrl
    BY <1>13, ListAssumption DEF Restart, Release, Entry, tableVars
  <2> QED BY <2>1 DEF LinkInv, LinksKept, Owned
<1>14. ASSUME NEW d \in Docs, LinksDelete(d) PROVE LinkInv'
  <2>1. /\ UNCHANGED <<Href, parsed, pc, doc>>
        /\ links' = {e \in links : e[1] # d} /\ found' = {e \in found : e[1] # d}
    BY <1>14 DEF LinksDelete, listVars
  <2>2. LinksKept'
    BY <2>1 DEF LinkInv, LinksKept, Entry
  <2> QED BY <2>1, <2>2 DEF LinkInv, Owned
<1>15. CASE UNCHANGED vars
  BY <1>1, <1>15 DEF vars, listVars, tableVars
<1> HIDE DEF LinksStay, RowsStay
<1> QED BY <1>2, <1>3, <1>4, <1>5, <1>6, <1>7, <1>8, <1>9, <1>10, <1>11, <1>12, <1>13, <1>14, <1>15
        DEF Next

\* With one document at a time, every link a document has handed in is in
\* table links or waits for it, although a link found again overwrites its
\* entry and a URL that counts as saved gets no INSERT.
THEOREM HrefCacheLinksKept ==
    ASSUME LinksStay
    PROVE  Spec => []LinksKept
<1>0. RowsStay
  BY LinksStay DEF LinksStay
<1>1. Init => ListOK /\ SavedInv /\ LinkInv
  BY ListInit, SavedInit, LinkInit
<1>2. ListOK /\ SavedInv /\ LinkInv /\ [Next]_vars => (ListOK /\ SavedInv /\ LinkInv)'
  BY <1>0, LinksStay, ListNext, SavedNext, LinkNext
<1>3. LinkInv => LinksKept
  BY DEF LinkInv
<1> QED BY <1>1, <1>2, <1>3, PTL DEF Spec
=============================================================================

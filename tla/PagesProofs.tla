------------------------------ MODULE PagesProofs ------------------------------
(***************************************************************************)
(* Proofs about Pages, for any connections, folders, page sizes, changes   *)
(* and faults: that a walk through a listing is complete, and that a poll  *)
(* announces what is new.                                                  *)
(***************************************************************************)
EXTENDS Pages, FiniteSetTheorems, WellFoundedInduction, TLAPS

-----------------------------------------------------------------------------
(* The newest and the oldest of a set of numbers *)

LEMMA LeastExists ==
  ASSUME NEW S \in SUBSET Nat, S # {} PROVE \E x \in S : \A y \in S : x <= y
<1> DEFINE R == OpToRel(<, Nat)
<1>1. IsWellFoundedOn(R, Nat)
  BY NatLessThanWellFounded
<1>2. \A x, y \in Nat : x < y => <<x, y>> \in R
  BY DEF OpToRel
<1> HIDE DEF R
<1>3. PICK x \in S : \A y \in S : ~(<<y, x>> \in R)
  BY <1>1, WFMin
<1>4. \A y \in S : ~(y < x)
  BY <1>2, <1>3
<1> QED BY <1>4

LEMMA GreatestExists ==
  ASSUME NEW n \in Nat, NEW S \in SUBSET (0..n), S # {} PROVE \E x \in S : \A y \in S : x >= y
<1> DEFINE T == {n - x : x \in S}
<1>1. T \in SUBSET Nat /\ T # {}
  <2>1. \A x \in S : n - x \in Nat
    OBVIOUS
  <2> QED BY <2>1
<1>2. PICK t \in T : \A u \in T : t <= u
  <2> HIDE DEF T
  <2> QED BY <1>1, LeastExists
<1>3. PICK x \in S : t = n - x
  OBVIOUS
<1>4. ASSUME NEW y \in S PROVE x >= y
  <2>1. n - x <= n - y
    BY <1>2, <1>3
  <2> QED BY <2>1
<1> QED BY <1>4

LEMMA Uids == /\ IsFiniteSet(Uid) /\ Uid \subseteq Nat /\ 0 \notin Uid /\ MaxUid \in Nat
              /\ \A u \in Uid : u <= MaxUid
  BY FS_Interval, PagesAssumption DEF Uid

LEMMA UidsUpTo == Uid \subseteq 0..MaxUid
<1>1. \A u \in Uid : u \in 0..MaxUid
  BY Uids
<1> QED BY <1>1

LEMMA MaxIsMax ==
  ASSUME NEW S \in SUBSET Uid, S # {} PROVE Max(S) \in S /\ \A y \in S : y <= Max(S)
<1>1. S \in SUBSET (0..MaxUid)
  BY Uids
<1>2. \E x \in S : \A y \in S : x >= y
  BY <1>1, Uids, GreatestExists
<1>3. Max(S) \in S /\ \A y \in S : Max(S) >= y
  BY <1>2 DEF Max
<1> QED BY <1>3, Uids

LEMMA MinIsMin ==
  ASSUME NEW S \in SUBSET Uid, S # {} PROVE Min(S) \in S /\ \A y \in S : Min(S) <= y
<1>1. S \in SUBSET Nat
  BY Uids
<1>2. \E x \in S : \A y \in S : x <= y
  BY <1>1, LeastExists
<1> QED BY <1>2 DEF Min

\* Newest(n, s) is the upper part of s, is all of s if there are no more than n
\* of them, and is not empty if s is not.
LEMMA NewestIsUpper ==
  ASSUME NEW n \in Nat, NEW S \in SUBSET Uid
  PROVE  /\ Newest(n, S) \subseteq S
         /\ \A u \in S, v \in Newest(n, S) : u >= v => u \in Newest(n, S)
         /\ (n > 0 /\ S # {} => Newest(n, S) # {})
         /\ (Cardinality(S) <= n => Newest(n, S) = S)
<1> DEFINE Above(u) == {v \in S : v > u}
<1>0. \A u \in S : u \in Nat
  BY Uids
<1>1. ASSUME NEW u \in S
      PROVE  IsFiniteSet(Above(u)) /\ Cardinality(Above(u)) \in Nat
    BY Uids, FS_Subset, FS_CardinalityType
<1>2. ASSUME NEW u \in S, NEW v \in Newest(n, S), u >= v PROVE u \in Newest(n, S)
  <2>1. v \in S /\ Cardinality(Above(v)) < n
    BY DEF Newest
  <2>2. Above(u) \subseteq Above(v)
    <3>1. ASSUME NEW w \in S, w > u PROVE w > v
      BY <1>0, <1>2, <2>1, <3>1
    <3> QED BY <3>1
  <2>3. Cardinality(Above(u)) <= Cardinality(Above(v))
    BY <1>1, <2>1, <2>2, FS_Subset
  <2>a. Cardinality(Above(u)) \in Nat /\ Cardinality(Above(v)) \in Nat
    BY <1>1, <2>1
  <2> HIDE DEF Above
  <2>4. Cardinality(Above(u)) < n
    BY <2>1, <2>3, <2>a
  <2> USE DEF Above
  <2> QED BY <2>4 DEF Newest
<1>3. ASSUME n > 0, S # {} PROVE Newest(n, S) # {}
  <2>1. Max(S) \in S /\ \A y \in S : y <= Max(S)
    BY <1>3, MaxIsMax
  <2>2. Above(Max(S)) = {}
    BY <1>0, <2>1
  <2>3. Cardinality(Above(Max(S))) < n
    BY <1>3, <2>2, FS_EmptySet
  <2> QED BY <2>1, <2>3 DEF Newest
<1>4. ASSUME Cardinality(S) <= n, NEW u \in S PROVE u \in Newest(n, S)
  <2>1. IsFiniteSet(S) /\ Cardinality(S) \in Nat
    BY Uids, FS_Subset, FS_CardinalityType
  <2>2. Above(u) \in SUBSET S /\ u \notin Above(u)
    BY Uids
  <2>3. Cardinality(Above(u)) <= Cardinality(S) /\ Cardinality(Above(u)) # Cardinality(S)
    BY <2>1, <2>2, FS_Subset
  <2>4. Cardinality(Above(u)) < n
    BY <1>1, <1>4, <2>1, <2>3
  <2> QED BY <2>4 DEF Newest
<1> QED BY <1>2, <1>3, <1>4 DEF Newest

\* Oldest(n, s) is the lower part of s, and is all of s if they are fewer than n.
LEMMA OldestIsLower ==
  ASSUME NEW n \in Nat, NEW S \in SUBSET Uid
  PROVE  /\ Oldest(n, S) \subseteq S
         /\ \A u \in S, v \in Oldest(n, S) : u <= v => u \in Oldest(n, S)
         /\ (Cardinality(Oldest(n, S)) < n => Oldest(n, S) = S)
<1> DEFINE Below(u) == {v \in S : v < u}
<1>0. \A u \in S : u \in Nat
  BY Uids
<1>1. ASSUME NEW u \in S
      PROVE  IsFiniteSet(Below(u)) /\ Cardinality(Below(u)) \in Nat
    BY Uids, FS_Subset, FS_CardinalityType
<1>2. ASSUME NEW u \in S, NEW v \in Oldest(n, S), u <= v PROVE u \in Oldest(n, S)
  <2>1. v \in S /\ Cardinality(Below(v)) < n
    BY DEF Oldest
  <2>2. Below(u) \subseteq Below(v)
    <3>1. ASSUME NEW w \in S, w < u PROVE w < v
      BY <1>0, <1>2, <2>1, <3>1
    <3> QED BY <3>1
  <2>3. Cardinality(Below(u)) <= Cardinality(Below(v))
    BY <1>1, <2>1, <2>2, FS_Subset
  <2>a. Cardinality(Below(u)) \in Nat /\ Cardinality(Below(v)) \in Nat
    BY <1>1, <2>1
  <2> HIDE DEF Below
  <2>4. Cardinality(Below(u)) < n
    BY <2>1, <2>3, <2>a
  <2> USE DEF Below
  <2> QED BY <2>4 DEF Oldest
<1>3. ASSUME Cardinality(Oldest(n, S)) < n, Oldest(n, S) # S PROVE FALSE
  <2> DEFINE Rest == S \ Oldest(n, S)
  <2>1. Rest \in SUBSET Uid /\ Rest # {}
    BY <1>3 DEF Oldest
  <2>2. Min(Rest) \in Rest /\ \A y \in Rest : Min(Rest) <= y
    <3> HIDE DEF Rest
    <3> QED BY <2>1, MinIsMin
  <2>3. PICK u \in S : u \notin Oldest(n, S) /\ \A y \in S : y \notin Oldest(n, S) => u <= y
    BY <2>2
  <2>4. ~(Cardinality(Below(u)) < n)
    BY <2>3 DEF Oldest
  <2>5. Below(u) \subseteq Oldest(n, S)
    <3>1. ASSUME NEW w \in S, w < u PROVE w \in Oldest(n, S)
      BY <1>0, <2>3, <3>1
    <3> QED BY <3>1
  <2>6. IsFiniteSet(Oldest(n, S)) /\ Cardinality(Oldest(n, S)) \in Nat
    <3>1. Oldest(n, S) \in SUBSET Uid
      BY DEF Oldest
    <3> QED BY <3>1, Uids, FS_Subset, FS_CardinalityType
  <2>7. Cardinality(Below(u)) <= Cardinality(Oldest(n, S))
    BY <2>5, <2>6, FS_Subset
  <2> QED BY <1>1, <1>3, <2>4, <2>6, <2>7
<1> QED BY <1>2, <1>3 DEF Oldest

-----------------------------------------------------------------------------
(* A folder: the thread of each message, by its number *)

In(f) == {u \in Uid : f[u] # None}
MessagesOf(f, t) == {u \in In(f) : f[u] = t}
LastOf(f, t) == Max(MessagesOf(f, t))
Threads(f) == {f[u] : u \in In(f)}
Folder == [Uid -> 0..MaxUid]

LEMMA FolderOf ==
  ASSUME NEW c
  PROVE  /\ Here(c) = In(msgs[c]) /\ Present(c) = Threads(msgs[c])
         /\ \A t : Latest(c, t, Here(c)) = LastOf(msgs[c], t)
         /\ Tops(c, Here(c)) = {LastOf(msgs[c], t) : t \in Threads(msgs[c])}
  BY DEF Here, In, Present, ThreadsOf, Threads, Latest, LastOf, MessagesOf, Tops

LEMMA LastIsIn ==
  ASSUME NEW f \in Folder, NEW t \in Threads(f)
  PROVE  /\ LastOf(f, t) \in In(f) /\ f[LastOf(f, t)] = t /\ t \in Uid
         /\ \A u \in In(f) : f[u] = t => u <= LastOf(f, t)
<1>1. MessagesOf(f, t) \in SUBSET Uid /\ MessagesOf(f, t) # {}
  BY DEF MessagesOf, In, Threads
<1>2. LastOf(f, t) \in MessagesOf(f, t) /\ \A y \in MessagesOf(f, t) : y <= LastOf(f, t)
  BY <1>1, MaxIsMax DEF LastOf
<1>3. t \in Uid
  BY PagesAssumption DEF Threads, In, Folder, Uid, None
<1> QED BY <1>2, <1>3 DEF MessagesOf

\* A message comes into thread t: the other threads are as they were.
LEMMA ArrivalMoves ==
  ASSUME NEW f \in Folder, NEW m \in Uid, m \notin In(f), NEW t \in Uid,
         NEW g \in Folder, g[m] = t, \A u \in Uid : u # m => g[u] = f[u]
  PROVE  /\ In(g) = In(f) \union {m} /\ \A u \in In(f) : g[u] = f[u]
         /\ Threads(g) = Threads(f) \union {t}
         /\ \A x : x # t => MessagesOf(g, x) = MessagesOf(f, x) /\ LastOf(g, x) = LastOf(f, x)
<1>1. t # None
  BY Uids DEF None
<1>3. In(g) = In(f) \union {m} /\ \A u \in In(f) : g[u] = f[u]
  BY <1>1 DEF In
<1>4. Threads(g) = Threads(f) \union {t}
  BY <1>1, <1>3 DEF Threads
<1>5. ASSUME NEW x, x # t PROVE MessagesOf(g, x) = MessagesOf(f, x)
  BY <1>1, <1>3, <1>5 DEF MessagesOf
<1> QED BY <1>1, <1>3, <1>4, <1>5 DEF LastOf

\* A folder that messages of thread t have left.
Without(f, gone) == [u \in Uid |-> IF u \in gone THEN None ELSE f[u]]

\* The other threads are as they were, and t, if it keeps a message, is listed
\* where it was or below.
LEMMA DepartureMoves ==
  ASSUME NEW f \in Folder, NEW t \in Threads(f), NEW gone \in SUBSET MessagesOf(f, t),
         NEW g, g = Without(f, gone)
  PROVE  /\ g \in Folder /\ In(g) \subseteq In(f) /\ \A u \in In(g) : g[u] = f[u]
         /\ Threads(g) \subseteq Threads(f) /\ Threads(f) \ {t} \subseteq Threads(g)
         /\ t \in Threads(g) <=> \E u \in In(f) \ gone : f[u] = t
         /\ \A x \in Threads(g) : LastOf(g, x) <= LastOf(f, x)
<1>1. g \in Folder
  BY PagesAssumption DEF Folder, None, Without
<1>2. In(g) = In(f) \ gone /\ \A u \in In(g) : g[u] = f[u]
  BY DEF In, Folder, Without
<1>3. /\ Threads(g) \subseteq Threads(f) /\ Threads(f) \ {t} \subseteq Threads(g)
      /\ t \in Threads(g) <=> \E u \in In(f) \ gone : f[u] = t
  BY <1>2 DEF Threads, MessagesOf
<1>4. ASSUME NEW x \in Threads(g) PROVE LastOf(g, x) <= LastOf(f, x)
  <2>1. LastOf(g, x) \in In(g) /\ g[LastOf(g, x)] = x
    BY <1>1, LastIsIn
  <2> QED BY <1>2, <1>3, <2>1, LastIsIn
<1> QED BY <1>1, <1>2, <1>3, <1>4

-----------------------------------------------------------------------------
(* What a token stands for *)

\* What a walk has passed when it holds token tok: the threads of o that the pages
\* before it listed are in s.  A token of Gmail's or the store's is passed by what
\* is at it or above, Graph's counts messages, that of IMAP's drafts is the next.
Passed(f, tok, o, s) ==
  /\ tok.by \in {"gmail", "store"} => \A t \in o : LastOf(f, t) >= tok.at => t \in s
  /\ tok.by = "graph" => \A u \in Newest(tok.at, In(f)) : f[u] \in o => f[u] \in s
  /\ tok.by = "imapDrafts" => \A u \in In(f) : u < tok.at /\ f[u] \in o => f[u] \in s

LEMMA ArrivalPassed ==
  ASSUME NEW f \in Folder, NEW m \in Uid, m \notin In(f), NEW t \in Uid,
         NEW g \in Folder, g[m] = t, \A u \in Uid : u # m => g[u] = f[u], NEW tok, tok.at \in Nat, NEW o, NEW s, Passed(f, tok, o, s)
  PROVE  Passed(g, tok, o \ {t}, s)
<1>1. /\ In(g) = In(f) \union {m} /\ g[m] = t /\ \A u \in In(f) : g[u] = f[u]
      /\ \A x : x # t => LastOf(g, x) = LastOf(f, x)
  <2>2. /\ In(g) = In(f) \union {m} /\ \A u \in In(f) : g[u] = f[u]
        /\ \A x : x # t => MessagesOf(g, x) = MessagesOf(f, x) /\ LastOf(g, x) = LastOf(f, x)
    BY ArrivalMoves
  <2> QED BY <2>2
<1>2. tok.by \in {"gmail", "store"} => \A x \in o \ {t} : LastOf(g, x) >= tok.at => x \in s
  BY <1>1 DEF Passed
<1>3. ASSUME tok.by = "graph", NEW u \in Newest(tok.at, In(g)), g[u] \in o \ {t} PROVE g[u] \in s
  <2>1. u \in In(f) /\ g[u] = f[u]
    BY <1>1, <1>3 DEF Newest
  <2>2. Cardinality({v \in In(f) : v > u}) <= Cardinality({v \in In(g) : v > u})
    <3>1. IsFiniteSet({v \in In(g) : v > u})
      BY Uids, FS_Subset DEF In
    <3>2. {v \in In(f) : v > u} \in SUBSET {v \in In(g) : v > u}
      BY <1>1
    <3> QED BY <3>1, <3>2, FS_Subset
  <2>3. Cardinality({v \in In(g) : v > u}) < tok.at
    BY DEF Newest
  <2>4. /\ Cardinality({v \in In(f) : v > u}) \in Nat /\ Cardinality({v \in In(g) : v > u}) \in Nat
    BY Uids, FS_Subset, FS_CardinalityType DEF In
  <2>5. u \in Newest(tok.at, In(f))
    BY <2>1, <2>2, <2>3, <2>4 DEF Newest
  <2> QED BY <1>3, <2>1, <2>5 DEF Passed
<1>4. tok.by = "imapDrafts" => \A u \in In(g) : u < tok.at /\ g[u] \in o \ {t} => g[u] \in s
  BY <1>1 DEF Passed
<1> QED BY <1>2, <1>3, <1>4 DEF Passed

LEMMA DeparturePassed ==
  ASSUME NEW f \in Folder, NEW t \in Threads(f), NEW gone \in SUBSET MessagesOf(f, t),
         NEW tok, tok.by # "graph", tok.at \in Nat, NEW o, NEW s, Passed(f, tok, o, s),
         NEW q \in SUBSET o, q \subseteq Threads(Without(f, gone))
  PROVE  Passed(Without(f, gone), tok, q, s)
<1> DEFINE g == Without(f, gone)
<1>1. /\ g \in Folder /\ In(g) \subseteq In(f) /\ \A u \in In(g) : g[u] = f[u]
      /\ Threads(g) \subseteq Threads(f)
      /\ \A x \in Threads(g) : LastOf(g, x) <= LastOf(f, x)
  <2> HIDE DEF g
  <2>1. g = Without(f, gone)
    BY DEF g
  <2> QED BY <2>1, DepartureMoves
<1> HIDE DEF g
<1>2. ASSUME tok.by \in {"gmail", "store"}, NEW x \in q, LastOf(g, x) >= tok.at PROVE x \in s
  <2>1. x \in Threads(g) /\ x \in Threads(f)
    BY <1>1 DEF g
  <2>2. LastOf(g, x) \in Nat /\ LastOf(f, x) \in Nat
    BY <1>1, <2>1, LastIsIn, Uids DEF In
  <2>3. LastOf(f, x) >= tok.at
    BY <1>1, <1>2, <2>1, <2>2
  <2> QED BY <1>2, <2>3 DEF Passed
<1>3. tok.by = "imapDrafts" => \A u \in In(g) : u < tok.at /\ g[u] \in q => g[u] \in s
  BY <1>1 DEF Passed
<1> QED BY <1>2, <1>3 DEF Passed, g

LEMMA NothingOwed == ASSUME NEW f, NEW tok, NEW s PROVE Passed(f, tok, {}, s)
  BY DEF Passed

LEMMA PassedLess ==
  ASSUME NEW f, NEW tok, NEW o, NEW s, Passed(f, tok, o, s), NEW p, p \subseteq o, NEW r, s \subseteq r
  PROVE  Passed(f, tok, p, r)
  BY DEF Passed

\* A page takes the walk to its next token, or to the end.
Leads(f, page, o, s) ==
  /\ page.threads \subseteq Threads(f) /\ page.next.at \in Nat
  /\ page.next.at = Nowhere => o \subseteq s \union page.threads
  /\ page.next.at # Nowhere => Passed(f, page.next, o, s \union page.threads)

\* Gmail's pages and the store's.
AbovePage(f, by, n, at) ==
  LET older == {u \in {LastOf(f, t) : t \in Threads(f)} : u < at}
      page == Newest(n, older)
  IN Page({f[u] : u \in page}, by, IF page # older THEN Min(page) ELSE Nowhere)

LEMMA AbovePageLeads ==
  ASSUME NEW f \in Folder, NEW n \in Nat \ {0}, NEW at \in Nat, NEW by \in {"gmail", "store"},
         NEW o \in SUBSET Threads(f), NEW s, \A t \in o : LastOf(f, t) >= at => t \in s
  PROVE  LET p == AbovePage(f, by, n, at)
         IN Leads(f, p, o, s) /\ p.next.by = by /\ p.next.at <= MaxUid
<1> DEFINE older == {u \in {LastOf(f, t) : t \in Threads(f)} : u < at}
           page == Newest(n, older)
           p == AbovePage(f, by, n, at)
<1>1. older \in SUBSET Uid /\ \A u \in older : u \in In(f)
  BY LastIsIn DEF In
<1>2. /\ page \subseteq older /\ (\A u \in older, v \in page : u >= v => u \in page)
      /\ (older # {} => page # {})
  <2> HIDE DEF older
  <2> QED BY <1>1, NewestIsUpper
<1>3. /\ p.threads = {f[u] : u \in page} /\ p.next.by = by
      /\ p.next.at = IF page # older THEN Min(page) ELSE Nowhere
  BY DEF AbovePage, Page, Token
<1>4. page # older => Min(page) \in page /\ Min(page) \in Uid /\ \A u \in page : Min(page) <= u
  <2>1. page # older => page # {} /\ page \in SUBSET Uid
    BY <1>1, <1>2
  <2> HIDE DEF page
  <2> QED BY <2>1, MinIsMin
<1>5. ASSUME NEW t \in o, t \notin s PROVE LastOf(f, t) \in older /\ f[LastOf(f, t)] = t
  <2>1. t \in Threads(f) /\ LastOf(f, t) \in Nat /\ f[LastOf(f, t)] = t
    BY LastIsIn, Uids DEF In
  <2>2. LastOf(f, t) < at
    BY <1>5, <2>1
  <2> QED BY <2>1, <2>2
<1>6. p.threads \subseteq Threads(f) /\ p.next.at \in Nat /\ p.next.at <= MaxUid
  <2>1. p.threads \subseteq Threads(f)
    BY <1>1, <1>2, <1>3 DEF Threads
  <2>2. p.next.at \in Uid \union {0}
    BY <1>3, <1>4 DEF Nowhere
  <2>3. \A x \in Uid \union {0} : x \in Nat /\ x <= MaxUid
    BY Uids
  <2> HIDE DEF p
  <2> QED BY <2>1, <2>2, <2>3
<1>7. ASSUME p.next.at = Nowhere PROVE o \subseteq s \union p.threads
  <2>1. page = older
    BY <1>3, <1>4, <1>7, Uids DEF Nowhere
  <2> QED BY <1>3, <1>5, <2>1
<1>8. ASSUME p.next.at # Nowhere PROVE Passed(f, p.next, o, s \union p.threads)
  <2>1. page # older /\ p.next.at = Min(page)
    BY <1>3, <1>8
  <2>2. ASSUME NEW t \in o, LastOf(f, t) >= Min(page), t \notin s PROVE t \in p.threads
    BY <1>2, <1>3, <1>4, <1>5, <2>1, <2>2
  <2> QED BY <1>3, <2>1, <2>2 DEF Passed
<1> QED BY <1>3, <1>6, <1>7, <1>8 DEF Leads

\* Graph's: a token counts the messages gone by.
BelowPage(f, n, skip) ==
  Page({f[u] : u \in Newest(skip + n, In(f)) \ Newest(skip, In(f))}, "graph",
       IF Cardinality(In(f)) > skip + n THEN skip + n ELSE Nowhere)

LEMMA BelowPageLeads ==
  ASSUME NEW f \in Folder, NEW n \in Nat \ {0}, NEW skip \in Nat, NEW o \in SUBSET Threads(f),
         NEW s, \A u \in Newest(skip, In(f)) : f[u] \in o => f[u] \in s
  PROVE  LET p == BelowPage(f, n, skip)
         IN Leads(f, p, o, s) /\ p.next.by = "graph" /\ p.next.at <= MaxUid
<1> DEFINE p == BelowPage(f, n, skip)
<1>1. /\ p.threads = {f[u] : u \in Newest(skip + n, In(f)) \ Newest(skip, In(f))}
      /\ p.next.by = "graph"
      /\ p.next.at = IF Cardinality(In(f)) > skip + n THEN skip + n ELSE Nowhere
  BY DEF BelowPage, Page, Token
<1> HIDE DEF p
<1>2. /\ In(f) \in SUBSET Uid /\ skip + n \in Nat /\ skip + n # 0
      /\ Cardinality(In(f)) \in Nat /\ Cardinality(In(f)) <= MaxUid
  <2>1. In(f) \in SUBSET Uid
    BY DEF In
  <2>2. Cardinality(Uid) = MaxUid
    BY FS_Interval, PagesAssumption DEF Uid
  <2> QED BY <2>1, <2>2, Uids, FS_Subset, FS_CardinalityType
<1>3. p.threads \subseteq Threads(f) /\ p.next.at \in Nat /\ p.next.at <= MaxUid
  <2>1. p.threads \subseteq Threads(f)
    BY <1>1 DEF Newest, Threads
  <2> QED BY <1>1, <1>2, <2>1, Uids DEF Nowhere
<1>4. \A u \in Newest(skip + n, In(f)) : f[u] \in o => f[u] \in s \union p.threads
  BY <1>1
<1>5. ASSUME p.next.at = Nowhere PROVE o \subseteq s \union p.threads
  <2>1. Cardinality(In(f)) <= skip + n
    BY <1>1, <1>2, <1>5 DEF Nowhere
  <2>2. Newest(skip + n, In(f)) = In(f)
    BY <1>2, <2>1, NewestIsUpper
  <2> QED BY <1>4, <2>2 DEF Threads
<1>6. ASSUME p.next.at # Nowhere PROVE Passed(f, p.next, o, s \union p.threads)
  <2>1. p.next.at = skip + n
    BY <1>1, <1>6
  <2> QED BY <1>1, <1>4, <2>1 DEF Passed
<1> QED BY <1>1, <1>3, <1>5, <1>6 DEF Leads, p

\* Those of IMAP's drafts: upwards from the token.
UpPage(f, n, from) ==
  LET page == Oldest(n, {u \in In(f) : u >= from})
  IN Page({f[u] : u \in page}, "imapDrafts", IF Cardinality(page) >= n THEN Max(page) + 1 ELSE Nowhere)

LEMMA UpPageLeads ==
  ASSUME NEW f \in Folder, NEW n \in Nat \ {0}, NEW from \in Nat, NEW o \in SUBSET Threads(f),
         NEW s, \A u \in In(f) : u < from /\ f[u] \in o => f[u] \in s
  PROVE  LET p == UpPage(f, n, from)
         IN Leads(f, p, o, s) /\ p.next.by = "imapDrafts" /\ p.next.at <= MaxUid + 1
<1> DEFINE rest == {u \in In(f) : u >= from}
           page == Oldest(n, rest)
           p == UpPage(f, n, from)
<1>1. rest \in SUBSET Uid /\ \A u \in In(f) : u \in Nat /\ (u < from \/ u \in rest)
  BY Uids DEF In
<1>2. /\ page \subseteq rest /\ (\A u \in rest, v \in page : u <= v => u \in page)
      /\ (Cardinality(page) < n => page = rest)
  <2> HIDE DEF rest
  <2> QED BY <1>1, OldestIsLower
<1>3. /\ p.threads = {f[u] : u \in page} /\ p.next.by = "imapDrafts"
      /\ p.next.at = IF Cardinality(page) >= n THEN Max(page) + 1 ELSE Nowhere
  BY DEF UpPage, Page, Token
<1>4. Cardinality(page) \in Nat /\ page \in SUBSET Uid
  <2>1. page \in SUBSET Uid
    BY <1>1, <1>2
  <2> HIDE DEF page
  <2> QED BY <2>1, Uids, FS_Subset, FS_CardinalityType
<1>5. Cardinality(page) >= n => Max(page) \in page /\ Max(page) \in Uid /\ \A u \in page : u <= Max(page)
  <2> HIDE DEF page
  <2>1. Cardinality(page) >= n => page # {}
    BY FS_EmptySet
  <2> QED BY <1>4, <2>1, MaxIsMax
<1> HIDE DEF page, p
<1>6. p.threads \subseteq Threads(f) /\ p.next.at \in Nat /\ p.next.at <= MaxUid + 1
  <2>1. p.threads \subseteq Threads(f)
    BY <1>2, <1>3 DEF Threads
  <2>2. Cardinality(page) >= n => Max(page) \in Nat /\ Max(page) <= MaxUid
    BY <1>5, Uids
  <2> QED BY <1>3, <2>1, <2>2, Uids DEF Nowhere
<1>7. ASSUME p.next.at = Nowhere PROVE o \subseteq s \union p.threads
  <2>1. ~(Cardinality(page) >= n)
    <3>1. Cardinality(page) >= n => Max(page) \in Nat
      BY <1>5, Uids
    <3> QED BY <1>3, <1>7, <3>1 DEF Nowhere
  <2>2. page = rest
    BY <1>2, <1>4, <2>1
  <2> QED BY <1>1, <1>3, <2>2 DEF Threads
<1>8. ASSUME p.next.at # Nowhere PROVE Passed(f, p.next, o, s \union p.threads)
  <2>1. Cardinality(page) >= n /\ p.next.at = Max(page) + 1
    BY <1>3, <1>8
  <2>2. ASSUME NEW u \in In(f), u < Max(page) + 1, f[u] \in o PROVE f[u] \in s \union p.threads
    <3>a. u \in Nat /\ Max(page) \in Nat
      BY <1>1, <1>5, <2>1, Uids
    <3>1. u \in Nat /\ Max(page) \in Nat /\ u <= Max(page)
      BY <2>2, <3>a
    <3> QED BY <1>1, <1>2, <1>3, <1>5, <2>1, <2>2, <3>1
  <2> QED BY <1>3, <2>1, <2>2 DEF Passed
<1> QED BY <1>3, <1>6, <1>7, <1>8 DEF Leads, p

\* Those of imap.ts, of which no walk is complete, list what is in the folder too.
LEMMA OtherPages ==
  ASSUME TypeOK, NEW c \in Conn, NEW n \in Nat \ {0}, NEW at \in Nat,
         NEW p \in {ImapPage(c, n, at), SearchPage(c, n, at)}
  PROVE  /\ p.threads \subseteq Present(c) /\ p.next.at \in Nat /\ p.next.by \in {"imap", "search"}
<1>1. Here(c) \in SUBSET Uid /\ msgs[c] \in Folder
  BY DEF Here, TypeOK, Folder
<1>2. ASSUME NEW us \in SUBSET Here(c)
      PROVE  /\ Tops(c, us) \subseteq us /\ ThreadsOf(c, us) \subseteq Present(c)
             /\ Cardinality(us) \in Nat
  <2>1. ASSUME NEW t \in ThreadsOf(c, us) PROVE Latest(c, t, us) \in us
    <3>1. {u \in us : msgs[c][u] = t} \in SUBSET Uid /\ {u \in us : msgs[c][u] = t} # {}
      BY <1>1 DEF ThreadsOf
    <3>2. Latest(c, t, us) \in {u \in us : msgs[c][u] = t}
      BY <3>1, MaxIsMax DEF Latest
    <3> QED BY <3>2
  <2>2. Cardinality(us) \in Nat
    BY <1>1, Uids, FS_Subset, FS_CardinalityType
  <2> QED BY <2>1, <2>2 DEF Tops, ThreadsOf, Present
<1>3. CASE p = ImapPage(c, n, at)
  <2> DEFINE older == {u \in Here(c) : u < at}
             read == Newest(Window(n), older)
             page == Newest(n, Tops(c, read))
  <2>1. read \in SUBSET Here(c) /\ page \in SUBSET Tops(c, read)
    BY DEF Newest
  <2>2. page \in SUBSET Here(c) /\ Cardinality(page) \in Nat
    BY <1>2, <2>1
  <2>3. ASSUME Cardinality(page) >= n PROVE Min(read) \in Nat
    <3>1. page # {}
      BY <2>3, FS_EmptySet
    <3>2. read # {}
      BY <1>2, <2>1, <3>1
    <3> HIDE DEF read
    <3> QED BY <1>1, <2>1, <3>2, MinIsMin, Uids
  <2>4. /\ p.threads = ThreadsOf(c, page) /\ p.next.by = "imap"
        /\ p.next.at = IF read # older /\ Cardinality(page) >= n THEN Min(read) ELSE Nowhere
    BY <1>3 DEF ImapPage, Page, Token
  <2> HIDE DEF page, read
  <2> QED BY <1>2, <2>2, <2>3, <2>4 DEF Nowhere
<1>4. CASE p = SearchPage(c, n, at)
  <2> DEFINE skip == IF at = Start.at THEN 0 ELSE at
             read == Newest(skip + Window(n), Here(c)) \ Newest(skip, Here(c))
             page == Newest(n, Tops(c, read))
             past == skip + Cardinality(read)
  <2>1. read \in SUBSET Here(c) /\ page \in SUBSET Tops(c, read)
    BY DEF Newest
  <2>2. page \in SUBSET Here(c) /\ past \in Nat
    <3>1. skip \in Nat
      OBVIOUS
    <3> HIDE DEF skip, read, page
    <3> QED BY <1>2, <2>1, <3>1
  <2>3. /\ p.threads = ThreadsOf(c, page) /\ p.next.by = "search"
        /\ p.next.at = IF past < Cardinality(Here(c)) /\ Cardinality(page) >= n THEN past ELSE Nowhere
    BY <1>4 DEF SearchPage, Page, Token
  <2> HIDE DEF page, past
  <2> QED BY <1>2, <2>2, <2>3 DEF Nowhere
<1> QED BY <1>3, <1>4

-----------------------------------------------------------------------------
(* The invariant of a walk *)

Seen(c) == {t \in 0..MaxUid : <<c, t>> \in shown}

\* Whose token a reader holds: none, the listing's, or the store's once it has
\* taken over.
TokenOfKind(c) ==
  /\ token[c].by = "none" => token[c].at = Start.at
  /\ token[c].by # "none" => token[c].at <= MaxUid + 1
  /\ kind[c] \in {"gmail", "gmailDrafts"} => token[c].by \in {"none", "gmail", "store"}
  /\ kind[c] \in {"graph", "graphDrafts"} => token[c].by \in {"none", "graph", "store"}
  /\ kind[c] = "imapDrafts" => token[c].by \in {"none", "imapDrafts"}
  /\ token[c].by = "store" => view = "folder" /\ c \in ready /\ kind[c] \in {"gmail", "graph"}

Arrived == \A c \in Conn : \A u \in Here(c) : u <= top[c]
OwedIsHere == \A c \in Conn : owed[c] \subseteq Present(c)
Walked ==
  \A c \in Mine : Whole(c) =>
    /\ TokenOfKind(c)
    /\ state = "on" => Passed(msgs[c], token[c], owed[c], Seen(c))
    /\ state = "done" => owed[c] \subseteq Seen(c)
WalkInv == TypeOK /\ Arrived /\ OwedIsHere /\ Walked

LEMMA WholeKinds ==
  ASSUME TypeOK, NEW c \in Conn
  PROVE  Whole(c) <=> kind[c] \in {"gmail", "gmailDrafts", "graph", "graphDrafts", "imapDrafts"}
  BY DEF TypeOK, Whole, ListingKinds, DraftKinds

\* The driver's page leads on from any token but the store's.
LEMMA DriverPageLeads ==
  ASSUME TypeOK, NEW c \in Conn, Whole(c), TokenOfKind(c), token[c].by # "store",
         NEW o \in SUBSET Present(c), NEW s, Passed(msgs[c], token[c], o, s), NEW n \in Nat \ {0}
  PROVE  LET p == DriverPage(c, n, token[c].at)
         IN /\ Leads(msgs[c], p, o, s) /\ p.next.at <= MaxUid + 1
            /\ kind[c] \in {"gmail", "gmailDrafts"} => p.next.by = "gmail"
            /\ kind[c] \in {"graph", "graphDrafts"} => p.next.by = "graph"
            /\ kind[c] = "imapDrafts" => p.next.by = "imapDrafts"
<1> DEFINE f == msgs[c]
           at == token[c].at
           p == DriverPage(c, n, at)
<1>1. f \in Folder /\ at \in Nat /\ o \in SUBSET Threads(f) /\ Start.at = MaxUid + 2 /\ MaxUid \in Nat
  BY FolderOf, Uids DEF TypeOK, Folder, Start
<1>2. \A t \in o : LastOf(f, t) \in Nat /\ LastOf(f, t) <= MaxUid
  BY <1>1, LastIsIn, Uids DEF In
<1>3. CASE kind[c] \in {"gmail", "gmailDrafts"}
  <2>1. \A t \in o : LastOf(f, t) >= at => t \in s
    BY <1>1, <1>2, <1>3 DEF TokenOfKind, Passed
  <2>2. p = AbovePage(f, "gmail", n, at)
    BY <1>3, FolderOf DEF DriverPage, GmailDraftsPage, GmailPage, AbovePage, ThreadsOf
  <2>3. Leads(f, p, o, s) /\ p.next.by = "gmail" /\ p.next.at <= MaxUid
    BY <1>1, <2>1, <2>2, AbovePageLeads
  <2>4. p.next.at <= MaxUid + 1
    <3>1. p.next.at \in Nat
      BY <2>3 DEF Leads
    <3>2. p.next.at <= MaxUid /\ MaxUid \in Nat
      BY <1>1, <2>3
    <3> HIDE DEF p
    <3> QED BY <3>1, <3>2
  <2> QED BY <1>3, <2>3, <2>4
<1>4. CASE kind[c] \in {"graph", "graphDrafts"}
  <2> DEFINE skip == IF at = Start.at THEN 0 ELSE at
  <2>1. skip \in Nat /\ \A u \in Newest(skip, In(f)) : f[u] \in o => f[u] \in s
    <3>1. CASE token[c].by = "none"
      <4>1. skip = 0
        BY <3>1 DEF TokenOfKind
      <4>2. Newest(0, In(f)) = {}
        <5>1. \A u \in In(f) : Cardinality({v \in In(f) : v > u}) \in Nat
          BY Uids, FS_Subset, FS_CardinalityType DEF In
        <5> QED BY <5>1 DEF Newest
      <4> QED BY <4>1, <4>2
    <3>2. CASE token[c].by = "graph"
      <4>1. skip = at
        BY <1>1, <3>2 DEF TokenOfKind
      <4> QED BY <1>1, <3>2, <4>1 DEF Passed
    <3> QED BY <1>4, <3>1, <3>2 DEF TokenOfKind
  <2>2. p = BelowPage(f, n, skip)
    BY <1>4, FolderOf DEF DriverPage, GraphDraftsPage, GraphPage, BelowPage, ThreadsOf
  <2>3. Leads(f, p, o, s) /\ p.next.by = "graph" /\ p.next.at <= MaxUid
    <3> HIDE DEF skip, p
    <3> QED BY <1>1, <2>1, <2>2, BelowPageLeads
  <2>4. p.next.at \in Nat
    BY <2>3 DEF Leads
  <2> QED BY <1>1, <1>4, <2>3, <2>4
<1>5. CASE kind[c] = "imapDrafts"
  <2> DEFINE from == IF at = Start.at THEN 1 ELSE at
  <2>1. from \in Nat /\ \A u \in In(f) : u < from /\ f[u] \in o => f[u] \in s
    <3>1. \A u \in In(f) : u \in Nat /\ ~(u < 1)
      BY Uids DEF In, Uid
    <3>2. CASE token[c].by = "none"
      BY <3>1, <3>2 DEF TokenOfKind
    <3>3. CASE token[c].by = "imapDrafts"
      <4>1. from = at
        BY <1>1, <3>3 DEF TokenOfKind
      <4> QED BY <1>1, <3>3, <4>1 DEF Passed
    <3> QED BY <1>5, <3>2, <3>3 DEF TokenOfKind
  <2>2. p = UpPage(f, n, from)
    BY <1>5, FolderOf DEF DriverPage, DraftsPage, UpPage, ThreadsOf
  <2>3. Leads(f, p, o, s) /\ p.next.by = "imapDrafts" /\ p.next.at <= MaxUid + 1
    <3> HIDE DEF from, p
    <3> QED BY <1>1, <2>1, <2>2, UpPageLeads
  <2> QED BY <1>5, <2>3
<1> QED BY <1>3, <1>4, <1>5, WholeKinds

\* So does a page of the folder, which may be the store's.
LEMMA FolderPageLeads ==
  ASSUME TypeOK, NEW c \in Conn, Whole(c), TokenOfKind(c), view = "folder",
         NEW o \in SUBSET Present(c), NEW s, Passed(msgs[c], token[c], o, s),
         NEW p \in FolderPages(c)
  PROVE  /\ Leads(msgs[c], p, o, s) /\ p.next.at <= MaxUid + 1
         /\ kind[c] \in {"gmail", "gmailDrafts"} => p.next.by \in {"gmail", "store"}
         /\ kind[c] \in {"graph", "graphDrafts"} => p.next.by \in {"graph", "store"}
         /\ kind[c] = "imapDrafts" => p.next.by = "imapDrafts"
         /\ p.next.by = "store" => c \in ready /\ kind[c] \in {"gmail", "graph"}
<1>0. PageSize \in Nat \ {0}
  BY PagesAssumption
<1>1. CASE c \in ready /\ kind[c] \in {"gmail", "graph", "imap"}
  <2> DEFINE f == msgs[c]
  <2>1. PICK at \in CursorDates(token[c]) : p = StorePage(c, PageSize, at)
    BY <1>1 DEF FolderPages
  <2>2. kind[c] \in {"gmail", "graph"}
    BY <1>1, WholeKinds
  <2>3. f \in Folder /\ o \in SUBSET Threads(f) /\ Start.at = MaxUid + 2 /\ MaxUid \in Nat
    BY FolderOf, Uids DEF TypeOK, Folder, Start
  <2>4. at \in Nat /\ ((token[c].by = "store" /\ at = token[c].at) \/ at = MaxUid + 2)
    BY <2>1, <2>2, <2>3 DEF CursorDates, TokenOfKind, TypeOK
  <2>5. \A t \in o : LastOf(f, t) >= at => t \in s
    <3>1. \A t \in o : LastOf(f, t) \in Nat /\ LastOf(f, t) <= MaxUid
      BY <2>3, LastIsIn, Uids DEF In
    <3> QED BY <2>3, <2>4, <3>1 DEF Passed
  <2>6. p = AbovePage(f, "store", PageSize, at)
    BY <2>1, FolderOf DEF StorePage, AbovePage, ThreadsOf
  <2>7. Leads(f, p, o, s) /\ p.next.by = "store" /\ p.next.at <= MaxUid
    BY <1>0, <2>3, <2>4, <2>5, <2>6, AbovePageLeads
  <2>8. p.next.at \in Nat
    BY <2>7 DEF Leads
  <2> QED BY <1>1, <2>2, <2>3, <2>7, <2>8
<1>2. CASE ~(c \in ready /\ kind[c] \in {"gmail", "graph", "imap"})
  <2>1. p = DriverPage(c, PageSize, token[c].at)
    BY <1>2 DEF FolderPages
  <2>2. token[c].by # "store"
    BY <1>2 DEF TokenOfKind
  <2> QED BY <1>0, <2>1, <2>2, WholeKinds, DriverPageLeads
<1> QED BY <1>1, <1>2

\* The pages of any listing, whole or not.
LEMMA PagesOK ==
  ASSUME TypeOK, NEW c \in Conn, NEW n \in Nat \ {0}, NEW at \in Nat
  PROVE  /\ DriverPage(c, n, at).threads \subseteq Present(c)
         /\ DriverPage(c, n, at).next \in [by : ListingKinds \union {"none", "store"}, at : Nat]
         /\ StorePage(c, n, at).threads \subseteq Present(c)
         /\ StorePage(c, n, at).next \in [by : ListingKinds \union {"none", "store"}, at : Nat]
<1> DEFINE f == msgs[c]
           Good(p) == p.threads \subseteq Present(c)
                      /\ p.next \in [by : ListingKinds \union {"none", "store"}, at : Nat]
<1>1. f \in Folder /\ {} \in SUBSET Threads(f) /\ Present(c) = Threads(f)
  BY FolderOf DEF TypeOK, Folder
<1>2. ASSUME NEW by \in ListingKinds \union {"none", "store"}, NEW at1 \in Nat
      PROVE  Token(by, at1) \in [by : ListingKinds \union {"none", "store"}, at : Nat]
  BY DEF Token
<1>3. ASSUME NEW p, Leads(f, p, {}, {}), NEW by \in ListingKinds \union {"none", "store"},
             p.next = Token(by, p.next.at)
      PROVE  Good(p)
  BY <1>1, <1>2, <1>3 DEF Leads
<1>4. ASSUME NEW by \in {"gmail", "store"} PROVE Good(AbovePage(f, by, n, at))
  <2>1. Leads(f, AbovePage(f, by, n, at), {}, {})
    BY <1>1, AbovePageLeads
  <2>2. AbovePage(f, by, n, at).next = Token(by, AbovePage(f, by, n, at).next.at)
    BY DEF AbovePage, Page, Token
  <2>3. by \in ListingKinds \union {"none", "store"}
    BY DEF ListingKinds
  <2> HIDE DEF Good
  <2> QED BY <1>3, <2>1, <2>2, <2>3
<1>5. ASSUME NEW skip \in Nat PROVE Good(BelowPage(f, n, skip))
  <2>1. Leads(f, BelowPage(f, n, skip), {}, {})
    BY <1>1, BelowPageLeads
  <2>2. BelowPage(f, n, skip).next = Token("graph", BelowPage(f, n, skip).next.at)
    BY DEF BelowPage, Page, Token
  <2>3. "graph" \in ListingKinds \union {"none", "store"}
    BY DEF ListingKinds
  <2> HIDE DEF Good
  <2> QED BY <1>3, <2>1, <2>2, <2>3
<1>6. ASSUME NEW from \in Nat PROVE Good(UpPage(f, n, from))
  <2>1. Leads(f, UpPage(f, n, from), {}, {})
    BY <1>1, UpPageLeads
  <2>2. UpPage(f, n, from).next = Token("imapDrafts", UpPage(f, n, from).next.at)
    BY DEF UpPage, Page, Token
  <2>3. "imapDrafts" \in ListingKinds \union {"none", "store"}
    BY DEF ListingKinds, DraftKinds
  <2> HIDE DEF Good
  <2> QED BY <1>3, <2>1, <2>2, <2>3
<1>7. Good(ImapPage(c, n, at)) /\ Good(SearchPage(c, n, at))
  <2>1. ASSUME NEW p \in {ImapPage(c, n, at), SearchPage(c, n, at)} PROVE Good(p)
    <3>1. p.next = Token(p.next.by, p.next.at)
      BY DEF ImapPage, SearchPage, Page, Token
    <3>2. /\ p.threads \subseteq Present(c) /\ p.next.at \in Nat
          /\ p.next.by \in ListingKinds \union {"none", "store"}
      BY OtherPages DEF ListingKinds
    <3>3. Token(p.next.by, p.next.at) \in [by : ListingKinds \union {"none", "store"}, at : Nat]
      BY <1>2, <3>2
    <3> QED BY <3>1, <3>2, <3>3
  <2> HIDE DEF Good
  <2> QED BY <2>1
<1>8. GmailPage(c, n, at) = AbovePage(f, "gmail", n, at)
  BY FolderOf DEF GmailPage, AbovePage, ThreadsOf
<1>9. StorePage(c, n, at) = AbovePage(f, "store", n, at)
  BY FolderOf DEF StorePage, AbovePage, ThreadsOf
<1>10. PICK skip \in Nat : GraphPage(c, n, at) = BelowPage(f, n, skip)
  <2> DEFINE skip == IF at = Start.at THEN 0 ELSE at
  <2>1. GraphPage(c, n, at) = BelowPage(f, n, skip)
    BY FolderOf DEF GraphPage, BelowPage, ThreadsOf
  <2>2. skip \in Nat
    OBVIOUS
  <2> QED BY <2>1, <2>2
<1>11. PICK from \in Nat : DraftsPage(c, n, at) = UpPage(f, n, from)
  <2> DEFINE from == IF at = Start.at THEN 1 ELSE at
  <2>1. DraftsPage(c, n, at) = UpPage(f, n, from)
    <3>1. Here(c) = In(f)
      BY FolderOf
    <3> QED BY <3>1, SMTT(30) DEF DraftsPage, UpPage, ThreadsOf
  <2>2. from \in Nat
    OBVIOUS
  <2> QED BY <2>1, <2>2
<1>12. \A p \in {GmailPage(c, n, at), StorePage(c, n, at), GraphPage(c, n, at), DraftsPage(c, n, at),
                 ImapPage(c, n, at), SearchPage(c, n, at)} : Good(p)
  <2> HIDE DEF Good
  <2> QED BY <1>4, <1>5, <1>6, <1>7, <1>8, <1>9, <1>10, <1>11
<1>13. DriverPage(c, n, at) \in {GmailPage(c, n, at), GraphPage(c, n, at), DraftsPage(c, n, at),
                                 ImapPage(c, n, at), SearchPage(c, n, at)}
  BY DEF DriverPage, ListingKinds, DraftKinds, GmailDraftsPage, GraphDraftsPage, TypeOK
<1> QED BY <1>12, <1>13

LEMMA InitWalk == Init => WalkInv
<1> SUFFICES ASSUME Init PROVE WalkInv
  OBVIOUS
<1>1. view \in {"folder", "all", "poll"} /\ kind \in [Conn -> ListingKinds]
  BY PagesAssumption DEF Init, ListingKinds
<1>2. msgs \in [Conn -> Folder]
  <2>1. ASSUME NEW g \in Folders(FALSE) PROVE g \in Folder
    <3>1. PICK n \in 0..MaxStart : g \in [Uid -> 0..n]
      BY DEF Folders
    <3>2. 0..n \subseteq 0..MaxUid
      BY PagesAssumption
    <3> QED BY <3>1, <3>2 DEF Folder
  <2> QED BY <2>1 DEF Init
<1>3. ASSUME NEW c \in Conn PROVE top[c] \in 0..MaxUid /\ \A u \in Here(c) : u <= top[c]
  <2> DEFINE S == Here(c) \union {0}
  <2>1. S \in SUBSET (0..MaxUid) /\ S # {}
    <3>1. \A u \in Uid \union {0} : u \in 0..MaxUid
      BY Uids
    <3>2. S \subseteq Uid \union {0}
      BY DEF Here
    <3> QED BY <3>1, <3>2
  <2>2. \E x \in S : \A y \in S : x >= y
    BY <2>1, Uids, GreatestExists
  <2>3. Max(S) \in S /\ \A y \in S : Max(S) >= y
    BY <2>2 DEF Max
  <2>4. top[c] = Max(S)
    BY DEF Init
  <2>5. \A x \in S, y \in S : x >= y => y <= x
    BY <2>1
  <2> HIDE DEF S
  <2>6. top[c] \in S /\ \A y \in S : y <= top[c]
    BY <2>3, <2>4, <2>5
  <2> QED BY <2>1, <2>6 DEF S
<1>4. top \in [Conn -> 0..MaxUid]
  BY <1>3 DEF Init
<1>5. token \in [Conn -> [by : ListingKinds \union {"none", "store"}, at : Nat]]
  BY Uids DEF Init, Start
<1>6. \A c \in Conn : owed[c] = Present(c)
  BY DEF Init
<1>7. owed \in [Conn -> SUBSET Uid]
  <2>1. ASSUME NEW c \in Conn PROVE Present(c) \subseteq Uid
    <3>1. msgs[c] \in Folder
      BY <1>2
    <3> QED BY <3>1, FolderOf, LastIsIn
  <2> QED BY <2>1 DEF Init
<1>8. TypeOK
  <2>1. /\ ready \subseteq Conn /\ state \in {"on", "done"} /\ shown = {} /\ cursor = 0 /\ news = {} /\ mark = 0
        /\ moved \in [Conn -> SUBSET Uid] /\ changes = 0 /\ faults = 0
    BY PagesAssumption DEF Init, None
  <2>2. cursor \in 0..MaxUid /\ mark \in 0..MaxUid /\ changes \in 0..MaxChanges /\ faults \in 0..MaxFaults
    BY <2>1, PagesAssumption
  <2>3. shown \subseteq Conn \X (0..MaxUid) /\ news \subseteq 0..MaxUid
    BY <2>1
  <2>4. msgs \in [Conn -> [Uid -> 0..MaxUid]]
    BY <1>2 DEF Folder
  <2> QED BY <1>1, <1>4, <1>5, <1>7, <2>1, <2>2, <2>3, <2>4 DEF TypeOK
<1>9. Walked
  <2>1. Mine \subseteq Conn /\ \A c \in Conn : token[c] = Start /\ state = "on"
    BY PagesAssumption DEF Init, Mine
  <2>2. Start.by = "none"
    BY DEF Start
  <2> QED BY <2>1, <2>2 DEF Walked, TokenOfKind, Passed
<1> QED BY <1>3, <1>6, <1>8, <1>9 DEF WalkInv, Arrived, OwedIsHere

LEMMA MineIsConn == Mine \subseteq Conn /\ Active \in Conn
  BY PagesAssumption DEF Mine

LEMMA FolderOfNext ==
  ASSUME NEW c
  PROVE  /\ Here(c)' = In(msgs'[c]) /\ Present(c)' = Threads(msgs'[c])
  BY DEF Here, In, Present, ThreadsOf, Threads

LEMMA ArriveDoes ==
  ASSUME TypeOK, Arrived, NEW c \in Conn, Arrive(c)
  PROVE  \E t \in Uid, m \in Uid :
           /\ m \notin In(msgs[c])
           /\ msgs' \in [Conn -> Folder] /\ msgs'[c][m] = t
           /\ \A u \in Uid : u # m => msgs'[c][u] = msgs[c][u]
           /\ top' \in [Conn -> 0..MaxUid] /\ top[c] <= top'[c] /\ m <= top'[c]
           /\ owed' \in [Conn -> SUBSET Uid] /\ owed'[c] = owed[c] \ {t}
           /\ moved' \in [Conn -> SUBSET Uid] /\ moved'[c] = moved[c] \union {t}
           /\ \A d \in Conn : d # c => /\ msgs'[d] = msgs[d] /\ top'[d] = top[d]
                                       /\ owed'[d] = owed[d] /\ moved'[d] = moved[d]
<1>1. PICK m \in Places(c) : \E t \in {m} \union {x \in Present(c) : x < m /\ ~SingleMessages(c)} :
        /\ msgs' = [msgs EXCEPT ![c][m] = t] /\ top' = [top EXCEPT ![c] = IF m > @ THEN m ELSE @]
        /\ owed' = [owed EXCEPT ![c] = @ \ {t}] /\ moved' = [moved EXCEPT ![c] = @ \union {t}]
  BY DEF Arrive
<1>a. PICK t \in {m} \union Present(c) :
        /\ msgs' = [msgs EXCEPT ![c][m] = t]
        /\ top' = [top EXCEPT ![c] = IF m > top[c] THEN m ELSE top[c]]
        /\ owed' = [owed EXCEPT ![c] = owed[c] \ {t}]
        /\ moved' = [moved EXCEPT ![c] = moved[c] \union {t}]
  BY <1>1
<1>2. m \in Uid /\ m \notin In(msgs[c])
  <2>1. top[c] \in Nat /\ m \in Uid /\ m \in Nat
    BY Uids DEF TypeOK, Places
  <2>2. \A u \in In(msgs[c]) : u <= top[c] /\ u \in Nat
    BY FolderOf, Uids DEF Arrived, In
  <2>3. m = top[c] + 1 \/ m \notin In(msgs[c])
    BY FolderOf DEF Places
  <2> QED BY <2>1, <2>2, <2>3
<1>3. msgs[c] \in Folder
  BY DEF TypeOK, Folder
<1>4. t \in Uid
  BY <1>2, <1>3, <1>a, FolderOf, LastIsIn
<1>5. t \in 0..MaxUid
  BY <1>4, Uids
<1>6. /\ msgs' \in [Conn -> Folder] /\ msgs'[c][m] = t
      /\ \A u \in Uid : u # m => msgs'[c][u] = msgs[c][u]
      /\ \A d \in Conn : d # c => msgs'[d] = msgs[d]
  <2> DEFINE g == [msgs[c] EXCEPT ![m] = t]
  <2>1. msgs' = [msgs EXCEPT ![c] = g]
    BY <1>a
  <2>2. g \in Folder /\ g[m] = t /\ \A u \in Uid : u # m => g[u] = msgs[c][u]
    BY <1>2, <1>3, <1>5 DEF Folder
  <2>3. msgs \in [Conn -> Folder]
    BY DEF TypeOK, Folder
  <2> HIDE DEF g
  <2> QED BY <2>1, <2>2, <2>3
<1>7. top[c] \in 0..MaxUid /\ m \in 0..MaxUid /\ top[c] \in Nat /\ m \in Nat
  BY <1>2, Uids DEF TypeOK
<1>8. /\ top' \in [Conn -> 0..MaxUid] /\ top[c] <= top'[c] /\ m <= top'[c]
      /\ \A d \in Conn : d # c => top'[d] = top[d]
  BY <1>7, <1>a DEF TypeOK
<1>9. /\ owed' \in [Conn -> SUBSET Uid] /\ owed'[c] = owed[c] \ {t}
      /\ moved' \in [Conn -> SUBSET Uid] /\ moved'[c] = moved[c] \union {t}
      /\ \A d \in Conn : d # c => owed'[d] = owed[d] /\ moved'[d] = moved[d]
  BY <1>4, <1>a DEF TypeOK
<1> QED BY <1>2, <1>4, <1>6, <1>8, <1>9

LEMMA LeaveDoes ==
  ASSUME TypeOK, NEW c \in Conn, Leave(c)
  PROVE  \E t \in Present(c), gone \in SUBSET Uid :
           /\ gone \subseteq MessagesOf(msgs[c], t)
           /\ msgs' \in [Conn -> Folder] /\ msgs'[c] = Without(msgs[c], gone)
           /\ owed' \in [Conn -> SUBSET Uid] /\ owed'[c] = StillOwed(c, t, gone)
           /\ owed'[c] \subseteq owed[c]
           /\ \A d \in Conn : d # c => msgs'[d] = msgs[d] /\ owed'[d] = owed[d]
<1>1. PICK t \in Present(c), gone \in SUBSET Uid :
        /\ gone \subseteq {u \in Here(c) : msgs[c][u] = t}
        /\ msgs' = [msgs EXCEPT ![c] = [u \in Uid |-> IF u \in gone THEN None ELSE msgs[c][u]]]
        /\ owed' = [owed EXCEPT ![c] = StillOwed(c, t, gone)]
  <2>1. \A t : {u \in Here(c) : msgs[c][u] = t} \subseteq Uid
    BY DEF Here
  <2> QED BY <2>1 DEF Leave
<1> DEFINE g == Without(msgs[c], gone)
<1>2. g \in Folder
  BY PagesAssumption DEF TypeOK, Folder, None, Without
<1>3. msgs' = [msgs EXCEPT ![c] = g]
  BY <1>1 DEF Without
<1>4. msgs \in [Conn -> Folder]
  BY DEF TypeOK, Folder
<1> HIDE DEF g
<1>5. msgs' \in [Conn -> Folder] /\ msgs'[c] = g /\ \A d \in Conn : d # c => msgs'[d] = msgs[d]
  BY <1>2, <1>3, <1>4
<1>6. StillOwed(c, t, gone) \subseteq owed[c]
  BY DEF StillOwed
<1>7. /\ owed' \in [Conn -> SUBSET Uid] /\ owed'[c] = StillOwed(c, t, gone)
      /\ \A d \in Conn : d # c => owed'[d] = owed[d]
  BY <1>1, <1>6 DEF TypeOK
<1>8. gone \subseteq MessagesOf(msgs[c], t)
  BY <1>1, FolderOf DEF MessagesOf
<1> QED BY <1>5, <1>6, <1>7, <1>8 DEF g

LEMMA ArriveWalk ==
  ASSUME WalkInv, NEW c \in Mine, Arrive(c) PROVE WalkInv'
<1> USE DEF WalkInv
<1>0. c \in Conn /\ Mine \subseteq Conn
  BY MineIsConn
<1>1. PICK t \in Uid, m \in Uid :
        /\ m \notin In(msgs[c])
        /\ msgs' \in [Conn -> Folder] /\ msgs'[c][m] = t
        /\ \A u \in Uid : u # m => msgs'[c][u] = msgs[c][u]
        /\ top' \in [Conn -> 0..MaxUid] /\ top[c] <= top'[c] /\ m <= top'[c]
        /\ owed' \in [Conn -> SUBSET Uid] /\ owed'[c] = owed[c] \ {t}
        /\ moved' \in [Conn -> SUBSET Uid] /\ moved'[c] = moved[c] \union {t}
        /\ \A d \in Conn : d # c => /\ msgs'[d] = msgs[d] /\ top'[d] = top[d]
                                    /\ owed'[d] = owed[d] /\ moved'[d] = moved[d]
  BY <1>0, ArriveDoes
<1>2. UNCHANGED <<view, kind, ready, token, state, shown, cursor, news, mark, faults>> /\ state = "on"
      /\ changes' = changes + 1 /\ changes < MaxChanges
  BY DEF Arrive, Change, walkVars, pollVars
<1>3. msgs[c] \in Folder /\ msgs'[c] \in Folder
  BY <1>0, <1>1 DEF TypeOK, Folder
<1>4. In(msgs'[c]) = In(msgs[c]) \union {m} /\ Threads(msgs'[c]) = Threads(msgs[c]) \union {t}
  BY <1>1, <1>3, ArrivalMoves
<1>5. TypeOK'
  <2>1. changes' \in 0..MaxChanges
    BY <1>2, PagesAssumption DEF TypeOK
  <2> QED BY <1>1, <1>2, <2>1 DEF TypeOK, Folder
<1>6. Arrived'
  <2>1. ASSUME NEW d \in Conn, NEW u \in In(msgs'[d]) PROVE u <= top'[d]
    <3>1. CASE d = c
      <4>1. u = m \/ u <= top[c]
        BY <1>0, <1>4, <2>1, <3>1, FolderOf DEF Arrived
      <4>2. u \in Nat /\ top[c] \in Nat /\ top'[c] \in Nat
        BY <1>0, <1>1, <2>1, <3>1, <1>4, Uids DEF In, TypeOK
      <4> QED BY <1>1, <3>1, <4>1, <4>2
    <3>2. CASE d # c
      BY <1>1, <2>1, <3>2, FolderOf DEF Arrived
    <3> QED BY <3>1, <3>2
  <2> QED BY <2>1, FolderOfNext DEF Arrived
<1>7. OwedIsHere'
  <2>1. ASSUME NEW d \in Conn PROVE owed'[d] \subseteq Threads(msgs'[d])
    <3>1. owed[d] \subseteq Threads(msgs[d])
      BY FolderOf DEF OwedIsHere
    <3> QED BY <1>1, <1>4, <3>1
  <2> QED BY <2>1, FolderOfNext DEF OwedIsHere
<1>8. ASSUME NEW d \in Conn, Passed(msgs[d], token[d], owed[d], Seen(d))
      PROVE  Passed(msgs'[d], token'[d], owed'[d], Seen(d)')
  <2>1. Seen(d)' = Seen(d) /\ token'[d] = token[d] /\ token[d].at \in Nat
    BY <1>2 DEF Seen, TypeOK
  <2>2. CASE d = c
    <3>1. Passed(msgs'[c], token[c], owed[c] \ {t}, Seen(c))
      BY <1>1, <1>3, <1>8, <2>1, <2>2, ArrivalPassed
    <3> QED BY <1>1, <2>1, <2>2, <3>1
  <2>3. CASE d # c
    BY <1>1, <1>8, <2>1, <2>3
  <2> QED BY <2>2, <2>3
<1>9. Walked'
  <2>1. Mine' = Mine /\ \A d : TokenOfKind(d)' <=> TokenOfKind(d)
    BY <1>2 DEF Mine, TokenOfKind
  <2>2. \A d : Whole(d)' <=> Whole(d)
    BY <1>2 DEF Whole
  <2>3. state' = "on"
    BY <1>2
  <2> QED BY <1>0, <1>2, <1>8, <2>1, <2>2, <2>3 DEF Walked
<1> QED BY <1>5, <1>6, <1>7, <1>9

LEMMA LeaveWalk ==
  ASSUME WalkInv, NEW c \in Mine, Leave(c) PROVE WalkInv'
<1> USE DEF WalkInv
<1>0. c \in Conn /\ Mine \subseteq Conn
  BY MineIsConn
<1>1. PICK t \in Present(c), gone \in SUBSET Uid :
        /\ gone \subseteq MessagesOf(msgs[c], t)
        /\ msgs' \in [Conn -> Folder] /\ msgs'[c] = Without(msgs[c], gone)
        /\ owed' \in [Conn -> SUBSET Uid] /\ owed'[c] = StillOwed(c, t, gone)
        /\ owed'[c] \subseteq owed[c]
        /\ \A d \in Conn : d # c => msgs'[d] = msgs[d] /\ owed'[d] = owed[d]
  BY <1>0, LeaveDoes
<1>2. UNCHANGED <<view, kind, top, ready, token, state, shown, cursor, news, moved, mark, faults>>
      /\ state = "on" /\ changes' = changes + 1 /\ changes < MaxChanges
  BY DEF Leave, Change, walkVars, pollVars
<1>3. msgs[c] \in Folder /\ t \in Threads(msgs[c])
  BY <1>0, FolderOf DEF TypeOK, Folder
<1> DEFINE g == Without(msgs[c], gone)
<1>4. /\ In(g) \subseteq In(msgs[c]) /\ Threads(msgs[c]) \ {t} \subseteq Threads(g)
      /\ t \in Threads(g) <=> \E u \in In(msgs[c]) \ gone : msgs[c][u] = t
  <2>1. g = Without(msgs[c], gone)
    OBVIOUS
  <2> HIDE DEF g
  <2>2. gone \in SUBSET MessagesOf(msgs[c], t)
    BY <1>1
  <2> QED BY <1>3, <2>1, <2>2, DepartureMoves
<1>a. owed'[c] \subseteq Threads(g)
  <2>1. owed[c] \subseteq Threads(msgs[c])
    BY <1>0, FolderOf DEF OwedIsHere
  <2>2. Here(c) = In(msgs[c])
    BY FolderOf
  <2> HIDE DEF g
  <2> QED BY <1>1, <1>4, <2>1, <2>2 DEF StillOwed
<1> HIDE DEF g
<1>b. msgs'[c] = g
  BY <1>1 DEF g
<1>5. TypeOK'
  <2>1. changes' \in 0..MaxChanges
    BY <1>2, PagesAssumption DEF TypeOK
  <2> QED BY <1>1, <1>2, <2>1 DEF TypeOK, Folder
<1>6. Arrived'
  <2>1. ASSUME NEW d \in Conn, NEW u \in In(msgs'[d]) PROVE u <= top'[d]
    BY <1>1, <1>2, <1>4, <1>b, <2>1, FolderOf DEF Arrived
  <2> QED BY <2>1, FolderOfNext DEF Arrived
<1>7. OwedIsHere'
  <2>1. ASSUME NEW d \in Conn PROVE owed'[d] \subseteq Threads(msgs'[d])
    <3>1. owed[d] \subseteq Threads(msgs[d])
      BY FolderOf DEF OwedIsHere
    <3> QED BY <1>1, <1>a, <1>b, <3>1
  <2> QED BY <2>1, FolderOfNext DEF OwedIsHere
<1>8. ASSUME NEW d \in Mine, Whole(d) PROVE Passed(msgs'[d], token'[d], owed'[d], Seen(d)')
  <2>1. Seen(d)' = Seen(d) /\ token'[d] = token[d] /\ d \in Conn
    BY <1>0, <1>2 DEF Seen
  <2>2. Passed(msgs[d], token[d], owed[d], Seen(d)) /\ TokenOfKind(d)
    BY <1>2, <1>8 DEF Walked
  <2>3. CASE d = c /\ kind[c] \in {"graph", "graphDrafts", "search"}
    BY <1>1, <2>3, NothingOwed DEF StillOwed
  <2>4. CASE d = c /\ kind[c] \notin {"graph", "graphDrafts", "search"}
    <3>1. token[c].by # "graph"
      BY <1>0, <1>8, <2>2, <2>4, WholeKinds DEF TokenOfKind
    <3>2. token[c].at \in Nat
      BY <1>0 DEF TypeOK
    <3>3. Passed(g, token[c], owed'[c], Seen(c))
      BY <1>1, <1>3, <1>a, <2>2, <2>4, <3>1, <3>2, DeparturePassed DEF g
    <3> QED BY <1>b, <2>1, <2>4, <3>3
  <2>5. CASE d # c
    BY <1>1, <2>1, <2>2, <2>5
  <2> QED BY <2>3, <2>4, <2>5
<1>9. Walked'
  <2>1. Mine' = Mine /\ \A d : TokenOfKind(d)' <=> TokenOfKind(d)
    BY <1>2 DEF Mine, TokenOfKind
  <2>2. \A d : Whole(d)' <=> Whole(d)
    BY <1>2 DEF Whole
  <2>3. state' = "on"
    BY <1>2
  <2> QED BY <1>0, <1>2, <1>8, <2>1, <2>2, <2>3 DEF Walked
<1> QED BY <1>5, <1>6, <1>7, <1>9

\* A step that leaves the folders and the walk alone.
LEMMA WalkAlone ==
  ASSUME WalkInv, TypeOK', UNCHANGED <<view, kind, msgs, top, token, state, shown, owed>>,
         ready \subseteq ready'
  PROVE  WalkInv'
<1>1. Arrived' /\ OwedIsHere'
  BY DEF WalkInv, Arrived, OwedIsHere, Here, Present, ThreadsOf
<1>2. \A d : TokenOfKind(d) => TokenOfKind(d)'
  BY DEF TokenOfKind
<1>3. Mine' = Mine /\ \A d : (Whole(d)' <=> Whole(d)) /\ Seen(d)' = Seen(d)
  BY DEF Mine, Whole, Seen
<1>4. Walked'
  BY <1>2, <1>3 DEF WalkInv, Walked
<1> QED BY <1>1, <1>4 DEF WalkInv

LEMMA PagesLemma ==
  ASSUME TypeOK, NEW c \in Conn, NEW p \in FolderPages(c) \union {DriverPage(c, PageSize, token[c].at)}
  PROVE  /\ p.threads \subseteq Present(c) /\ p.threads \subseteq Uid
         /\ p.next \in [by : ListingKinds \union {"none", "store"}, at : Nat]
<1>1. PageSize \in Nat \ {0} /\ token[c].at \in Nat
  BY PagesAssumption DEF TypeOK
<1>2. \A at \in CursorDates(token[c]) : at \in Nat
  BY <1>1, Uids DEF CursorDates, Start
<1>3. /\ p.threads \subseteq Present(c)
      /\ p.next \in [by : ListingKinds \union {"none", "store"}, at : Nat]
  <2>1. \/ p = DriverPage(c, PageSize, token[c].at)
        \/ \E at \in Nat : p = StorePage(c, PageSize, at)
    BY <1>2 DEF FolderPages
  <2> QED BY <1>1, <2>1, PagesOK
<1>4. Present(c) \subseteq Uid
  <2>1. msgs[c] \in Folder
    BY DEF TypeOK, Folder
  <2> QED BY <2>1, FolderOf, LastIsIn
<1> QED BY <1>3, <1>4

LEMMA ShowIn ==
  ASSUME NEW c \in Conn, NEW N, NEW T \in SUBSET N PROVE Show(c, T) \subseteq Conn \X N
<1>1. \A t \in T : <<c, t>> \in Conn \X N
  OBVIOUS
<1> QED BY <1>1 DEF Show

LEMMA NextPageWalk == ASSUME WalkInv, NextPage PROVE WalkInv'
<1> USE DEF WalkInv
<1> DEFINE c == Active
<1>0. c \in Conn
  BY PagesAssumption
<1>a. PICK page \in FolderPages(c) : \E lost \in SUBSET page.threads :
        /\ view = "folder" /\ state = "on"
        /\ lost = {} \/ faults < MaxFaults
        /\ shown' = shown \union Show(c, page.threads \ lost)
        /\ owed' = [owed EXCEPT ![c] = @ \ lost]
        /\ faults' = IF lost = {} THEN faults ELSE faults + 1
        /\ token' = [token EXCEPT ![c] = page.next]
        /\ state' = IF page.next.at = Nowhere THEN "done" ELSE "on"
        /\ UNCHANGED <<view, kind, msgs, top, ready, cursor, news, mark, moved, changes>>
  BY DEF NextPage, mailVars, pollVars
<1>1. PICK lost \in SUBSET page.threads :
        /\ view = "folder" /\ state = "on"
        /\ lost = {} \/ faults < MaxFaults
        /\ shown' = shown \union Show(c, page.threads \ lost)
        /\ owed' = [owed EXCEPT ![c] = @ \ lost]
        /\ faults' = IF lost = {} THEN faults ELSE faults + 1
        /\ token' = [token EXCEPT ![c] = page.next]
        /\ state' = IF page.next.at = Nowhere THEN "done" ELSE "on"
        /\ UNCHANGED <<view, kind, msgs, top, ready, cursor, news, mark, moved, changes>>
  BY <1>a
<1> HIDE DEF c
<1>2. /\ page.threads \subseteq Present(c) /\ page.threads \subseteq Uid
      /\ page.next \in [by : ListingKinds \union {"none", "store"}, at : Nat]
  BY <1>0, PagesLemma
<1>3. TypeOK'
  <2>1. faults' \in 0..MaxFaults
    BY <1>1, PagesAssumption DEF TypeOK
  <2>2. shown' \subseteq Conn \X (0..MaxUid)
    <3>1. Show(c, page.threads \ lost) \subseteq Conn \X (0..MaxUid)
      <4>1. page.threads \ lost \in SUBSET (0..MaxUid)
        BY <1>2, UidsUpTo
      <4> QED BY <1>0, <4>1, ShowIn
    <3> QED BY <1>1, <3>1 DEF TypeOK
  <2>3. owed' \in [Conn -> SUBSET Uid]
    BY <1>0, <1>1 DEF TypeOK
  <2>4. token' \in [Conn -> [by : ListingKinds \union {"none", "store"}, at : Nat]]
    BY <1>0, <1>1, <1>2 DEF TypeOK
  <2> QED BY <1>1, <2>1, <2>2, <2>3, <2>4 DEF TypeOK
<1>4. owed'[c] = owed[c] \ lost /\ token'[c] = page.next /\ \A d \in Conn : owed'[d] \subseteq owed[d]
  BY <1>0, <1>1 DEF TypeOK
<1>5. Arrived' /\ OwedIsHere'
  BY <1>1, <1>4 DEF Arrived, OwedIsHere, Here, Present, ThreadsOf
<1>6. Seen(c)' = Seen(c) \union (page.threads \ lost)
  <2>1. page.threads \subseteq 0..MaxUid
    BY <1>2, UidsUpTo
  <2> QED BY <1>1, <2>1 DEF Seen, Show
<1>7. ASSUME Whole(c)
      PROVE  /\ TokenOfKind(c)'
             /\ state' = "on" => Passed(msgs'[c], token'[c], owed'[c], Seen(c)')
             /\ state' = "done" => owed'[c] \subseteq Seen(c)'
  <2>1. c \in Mine
    BY <1>1 DEF Mine, c
  <2>2. TokenOfKind(c) /\ Passed(msgs[c], token[c], owed[c], Seen(c)) /\ owed[c] \in SUBSET Present(c)
    BY <1>0, <1>1, <1>7, <2>1 DEF Walked, OwedIsHere
  <2>3. /\ Leads(msgs[c], page, owed[c], Seen(c)) /\ page.next.at <= MaxUid + 1
        /\ kind[c] \in {"gmail", "gmailDrafts"} => page.next.by \in {"gmail", "store"}
        /\ kind[c] \in {"graph", "graphDrafts"} => page.next.by \in {"graph", "store"}
        /\ kind[c] = "imapDrafts" => page.next.by = "imapDrafts"
        /\ page.next.by = "store" => c \in ready /\ kind[c] \in {"gmail", "graph"}
    BY <1>0, <1>1, <1>7, <2>2, FolderPageLeads
  <2>4. TokenOfKind(c)'
    <3>1. page.next.by # "none"
      BY <1>0, <1>7, <2>3, WholeKinds
    <3> QED BY <1>1, <1>4, <2>3, <3>1 DEF TokenOfKind
  <2>5. owed'[c] \subseteq owed[c] /\ (Seen(c) \union page.threads) \ lost \subseteq Seen(c)'
    BY <1>4, <1>6
  <2>6. ASSUME state' = "on" PROVE Passed(msgs'[c], token'[c], owed'[c], Seen(c)')
    <3>1. Passed(msgs[c], page.next, owed[c], Seen(c) \union page.threads)
      BY <1>1, <2>3, <2>6 DEF Leads
    <3>2. \A x \in owed'[c] : x \in owed[c] /\ (x \in Seen(c) \union page.threads => x \in Seen(c)')
      BY <1>4, <2>5
    <3>3. Passed(msgs[c], page.next, owed'[c], Seen(c)')
      BY <3>1, <3>2 DEF Passed
    <3> QED BY <1>1, <1>4, <3>3
  <2>7. ASSUME state' = "done" PROVE owed'[c] \subseteq Seen(c)'
    <3>1. owed[c] \subseteq Seen(c) \union page.threads
      BY <1>1, <2>3, <2>7 DEF Leads
    <3> QED BY <1>4, <2>5, <3>1
  <2> QED BY <2>4, <2>6, <2>7
<1>8. Walked'
  <2>1. Mine' = {c} /\ (Whole(c)' <=> Whole(c))
    BY <1>1 DEF Mine, Whole, c
  <2> QED BY <1>7, <2>1 DEF Walked
<1> QED BY <1>3, <1>5, <1>8

LEMMA NextPageOfAllWalk == ASSUME WalkInv, NextPageOfAll PROVE WalkInv'
<1> USE DEF WalkInv
<1> DEFINE page == [c \in Conn |-> DriverPage(c, PageSize, token[c].at)]
<1>1. PICK failed \in SUBSET Conn :
        /\ view = "all" /\ state = "on" /\ faults + Cardinality(failed) <= MaxFaults
        /\ faults' = faults + Cardinality(failed)
        /\ shown' = shown \union UNION {Show(c, page[c].threads) : c \in Conn \ failed}
        /\ owed' = [c \in Conn |-> IF c \in failed THEN {} ELSE owed[c]]
        /\ token' = NextCursor(page, failed)
        /\ state' = IF \A c \in Conn : token'[c] = Start THEN "done" ELSE "on"
        /\ UNCHANGED <<view, kind, msgs, top, ready, cursor, news, mark, moved, changes>>
  BY DEF NextPageOfAll, mailVars, pollVars
<1>2. ASSUME NEW c \in Conn
      PROVE  /\ page[c] = DriverPage(c, PageSize, token[c].at)
             /\ page[c].threads \subseteq Present(c) /\ page[c].threads \subseteq Uid
             /\ page[c].next \in [by : ListingKinds \union {"none", "store"}, at : Nat]
  BY PagesLemma
<1> HIDE DEF page
<1>3. \A c \in Conn :
        token'[c] = IF c \in failed \/ page[c].next.at = Nowhere THEN Start ELSE page[c].next
  BY <1>1 DEF NextCursor
<1>4. Start \in [by : ListingKinds \union {"none", "store"}, at : Nat]
  BY Uids DEF Start
<1>5. TypeOK'
  <2>1. faults' \in 0..MaxFaults
    <3>1. Cardinality(failed) \in Nat
      BY PagesAssumption, FS_Subset, FS_CardinalityType
    <3> QED BY <1>1, <3>1 DEF TypeOK
  <2>2. shown' \subseteq Conn \X (0..MaxUid)
    <3>1. \A c \in Conn \ failed : Show(c, page[c].threads) \subseteq Conn \X (0..MaxUid)
      <4>1. \A c \in Conn : page[c].threads \in SUBSET (0..MaxUid)
        BY <1>2, UidsUpTo
      <4> QED BY <4>1, ShowIn
    <3> QED BY <1>1, <3>1 DEF TypeOK
  <2>3. owed' \in [Conn -> SUBSET Uid]
    BY <1>1 DEF TypeOK
  <2>4. token' \in [Conn -> [by : ListingKinds \union {"none", "store"}, at : Nat]]
    BY <1>1, <1>2, <1>4 DEF NextCursor
  <2> QED BY <1>1, <2>1, <2>2, <2>3, <2>4 DEF TypeOK
<1>6. \A d \in Conn : owed'[d] = IF d \in failed THEN {} ELSE owed[d]
  BY <1>1
<1>7. Arrived' /\ OwedIsHere'
  BY <1>1, <1>6 DEF Arrived, OwedIsHere, Here, Present, ThreadsOf
<1>8. ASSUME NEW c \in Conn, Whole(c)
      PROVE  /\ TokenOfKind(c)'
             /\ Passed(msgs'[c], token'[c], owed'[c], Seen(c)')
             /\ token'[c] = Start => owed'[c] \subseteq Seen(c)'
  <2>1. Start.by = "none" /\ Start.at = MaxUid + 2
    BY DEF Start
  <2>2. CASE c \in failed
    <3>1. token'[c] = Start /\ owed'[c] = {}
      BY <1>3, <1>6, <2>2
    <3>2. Passed(msgs'[c], token'[c], owed'[c], Seen(c)')
      BY <3>1, NothingOwed
    <3>3. TokenOfKind(c)'
      BY <2>1, <3>1 DEF TokenOfKind
    <3> QED BY <3>1, <3>2, <3>3
  <2>3. CASE c \notin failed
    <3>1. TokenOfKind(c) /\ Passed(msgs[c], token[c], owed[c], Seen(c)) /\ owed[c] \in SUBSET Present(c)
      BY <1>1, <1>8 DEF Walked, OwedIsHere, Mine
    <3>2. token[c].by # "store" /\ PageSize \in Nat \ {0}
      BY <1>1, <3>1, PagesAssumption DEF TokenOfKind
    <3>3. /\ Leads(msgs[c], page[c], owed[c], Seen(c)) /\ page[c].next.at <= MaxUid + 1
          /\ kind[c] \in {"gmail", "gmailDrafts"} => page[c].next.by = "gmail"
          /\ kind[c] \in {"graph", "graphDrafts"} => page[c].next.by = "graph"
          /\ kind[c] = "imapDrafts" => page[c].next.by = "imapDrafts"
      <4> DEFINE p == DriverPage(c, PageSize, token[c].at)
      <4>1. /\ Leads(msgs[c], p, owed[c], Seen(c)) /\ p.next.at <= MaxUid + 1
            /\ kind[c] \in {"gmail", "gmailDrafts"} => p.next.by = "gmail"
            /\ kind[c] \in {"graph", "graphDrafts"} => p.next.by = "graph"
            /\ kind[c] = "imapDrafts" => p.next.by = "imapDrafts"
        BY <1>8, <3>1, <3>2, DriverPageLeads
      <4>2. page[c] = p
        BY <1>2
      <4> HIDE DEF p
      <4> QED BY <4>1, <4>2
    <3>4. Seen(c) \union page[c].threads \subseteq Seen(c)'
      <4>1. page[c].threads \subseteq 0..MaxUid
        BY <1>2, UidsUpTo
      <4>2. Show(c, page[c].threads) \subseteq shown' /\ shown \subseteq shown'
        BY <1>1, <2>3
      <4> QED BY <4>1, <4>2 DEF Seen, Show
    <3>5. owed'[c] = owed[c]
      BY <1>6, <2>3
    <3>6. CASE page[c].next.at = Nowhere
      <4>1. token'[c] = Start
        BY <1>3, <3>6
      <4>2. owed'[c] \subseteq Seen(c)'
        BY <3>3, <3>4, <3>5, <3>6 DEF Leads
      <4> QED BY <1>1, <2>1, <4>1, <4>2 DEF TokenOfKind, Passed
    <3>7. CASE page[c].next.at # Nowhere
      <4>1. token'[c] = page[c].next
        BY <1>3, <2>3, <3>7
      <4>2. page[c].next.by \notin {"none", "store"}
        BY <1>8, <3>3, WholeKinds
      <4>3. TokenOfKind(c)'
        BY <1>1, <3>3, <4>1, <4>2 DEF TokenOfKind
      <4>4. Passed(msgs[c], page[c].next, owed[c], Seen(c)')
        BY <3>3, <3>4, <3>7, PassedLess DEF Leads
      <4>5. token'[c] # Start
        BY <2>1, <4>1, <4>2
      <4> QED BY <1>1, <3>5, <4>1, <4>3, <4>4, <4>5
    <3> QED BY <3>6, <3>7
  <2> QED BY <2>2, <2>3
<1>9. Walked'
  <2>1. Mine' = Conn /\ \A c : Whole(c)' <=> Whole(c)
    BY <1>1 DEF Mine, Whole
  <2> QED BY <1>1, <1>8, <2>1 DEF Walked
<1> QED BY <1>5, <1>7, <1>9

\* Of threads there is one whose last message is the newest.
LEMMA HasNewest ==
  ASSUME TypeOK, NEW T \in SUBSET Present(Active), T # {}
  PROVE  \E t \in T : \A o \in T : Latest(Active, o, Here(Active)) <= Latest(Active, t, Here(Active))
<1> DEFINE f == msgs[Active]
           L == {LastOf(f, t) : t \in T}
<1>1. f \in Folder /\ T \in SUBSET Threads(f)
  BY PagesAssumption, FolderOf DEF TypeOK, Folder
<1>2. L \in SUBSET (0..MaxUid) /\ L # {}
  <2>1. \A t \in T : LastOf(f, t) \in Uid
    BY <1>1, LastIsIn DEF In
  <2> QED BY <2>1, UidsUpTo
<1>3. \E x \in L : \A y \in L : x >= y
  <2> HIDE DEF L
  <2> QED BY <1>2, Uids, GreatestExists
<1>4. PICK t \in T : \A y \in L : LastOf(f, t) >= y
  BY <1>3
<1>5. \A o \in T : LastOf(f, o) <= LastOf(f, t)
  <2>1. \A o \in T : LastOf(f, o) \in Nat /\ LastOf(f, t) >= LastOf(f, o)
    BY <1>1, <1>4, LastIsIn, Uids DEF In
  <2> HIDE DEF L
  <2> QED BY <2>1
<1> QED BY <1>5, FolderOf

LEMMA PollWalk == ASSUME WalkInv, Poll PROVE WalkInv'
<1>1. UNCHANGED <<view, kind, msgs, top, ready, token, state, shown, owed, changes, faults>>
  BY DEF Poll, mailVars, walkVars
<1> DEFINE threads == DriverPage(Active, PollSize, Start.at).threads
<1>2. Active \in Conn /\ threads \subseteq Uid /\ threads \subseteq Present(Active)
  <2>1. PollSize \in Nat \ {0} /\ Start.at \in Nat /\ Active \in Conn
    BY PagesAssumption, Uids DEF Start
  <2>2. threads \subseteq Present(Active) /\ msgs[Active] \in Folder
    BY <2>1, PagesOK DEF WalkInv, TypeOK, Folder
  <2> QED BY <2>1, <2>2, FolderOf, LastIsIn
<1>3. cursor' \in 0..MaxUid /\ mark' \in 0..MaxUid /\ news' \subseteq 0..MaxUid
  <2>1. CASE threads = {}
    BY <2>1 DEF Poll, WalkInv, TypeOK
  <2>2. CASE threads # {}
    <3> DEFINE Last(t) == Latest(Active, t, Here(Active))
    <3>1. \E t \in threads : \A o \in threads : Last(o) <= Last(t)
      BY <1>2, <2>2, HasNewest DEF WalkInv
    <3>2. cursor' \in threads /\ mark' = Last(cursor')
      BY <2>2, <3>1 DEF Poll
    <3>3. news' \subseteq threads
      BY <2>2 DEF Poll, Fresh
    <3>4. mark' \in Uid
      <4>1. Last(cursor') = LastOf(msgs[Active], cursor') /\ cursor' \in Threads(msgs[Active])
        BY <1>2, <3>2, FolderOf
      <4>2. msgs[Active] \in Folder
        BY <1>2 DEF WalkInv, TypeOK, Folder
      <4>3. LastOf(msgs[Active], cursor') \in In(msgs[Active])
        BY <4>1, <4>2, LastIsIn
      <4> QED BY <3>2, <4>1, <4>3 DEF In
    <3> QED BY <1>2, <3>2, <3>3, <3>4, UidsUpTo
  <2> QED BY <2>1, <2>2
<1>4. moved' \in [Conn -> SUBSET Uid]
  BY DEF Poll, WalkInv, TypeOK
<1>5. TypeOK'
  BY <1>1, <1>3, <1>4 DEF WalkInv, TypeOK
<1> QED BY <1>1, <1>5, WalkAlone

LEMMA MailboxWalk == ASSUME WalkInv, NEW c \in Mine, Arrive(c) \/ Leave(c) \/ BecomeReady(c) PROVE WalkInv'
<1>1. ASSUME BecomeReady(c) PROVE WalkInv'
  <2>1. /\ UNCHANGED <<view, kind, msgs, top, token, state, shown, cursor, news, mark, owed, moved, changes, faults>>
        /\ ready' = ready \union {c} /\ c \in Conn
    BY <1>1, MineIsConn DEF BecomeReady, walkVars, pollVars
  <2>2. TypeOK'
    BY <2>1 DEF WalkInv, TypeOK
  <2> QED BY <2>1, <2>2, WalkAlone
<1> QED BY <1>1, ArriveWalk, LeaveWalk

LEMMA NextWalk == WalkInv /\ [Next]_vars => WalkInv'
<1> SUFFICES ASSUME WalkInv, [Next]_vars PROVE WalkInv'
  OBVIOUS
<1>1. ASSUME UNCHANGED vars PROVE WalkInv'
  <2>1. UNCHANGED <<view, kind, msgs, top, ready, token, state, shown, cursor, news, mark, owed, moved,
                    changes, faults>>
    BY <1>1 DEF vars, mailVars, walkVars, pollVars
  <2>2. TypeOK'
    BY <2>1 DEF WalkInv, TypeOK
  <2> QED BY <2>1, <2>2, WalkAlone
<1> QED BY <1>1, MailboxWalk, NextPageWalk, NextPageOfAllWalk, PollWalk DEF Next, Mailbox

\* The drivers' lists, the store's and their cursors (driver/google.ts,
\* driver/microsoft.ts, transport/smtp.ts, lib/email-store.ts, actions/mail.ts), of
\* any size and read in pages of any size.
THEOREM TypeCorrect == Spec => []TypeOK
<1>1. WalkInv => TypeOK
  BY DEF WalkInv
<1> QED BY <1>1, InitWalk, NextWalk, PTL DEF Spec

\* However mail comes and goes between the pages, the store takes over from the
\* provider and connections fail: the last page reached, nothing has been passed
\* over.
THEOREM WalkIsComplete == Spec => []WalkComplete
<1>1. WalkInv => WalkComplete
  <2> SUFFICES ASSUME WalkInv, state = "done", NEW c \in Mine, Whole(c)
               PROVE  Show(c, owed[c]) \subseteq shown
    BY DEF WalkComplete
  <2>1. owed[c] \subseteq Seen(c)
    BY DEF WalkInv, Walked
  <2> QED BY <2>1 DEF Seen, Show
<1> QED BY <1>1, InitWalk, NextWalk, PTL DEF Spec

-----------------------------------------------------------------------------
(* What the poll remembers *)

\* Above the place of the thread the poll remembers are only threads that mail
\* has come into since.
Remembered ==
  view = "poll" =>
    /\ kind[Active] \in {"gmail", "graph", "imap"}
    /\ cursor # None => \A t \in Present(Active) : LastOf(msgs[Active], t) > mark => t \in moved[Active]

\* The first page has the thread of the newest message.
LEMMA FirstPage ==
  ASSUME TypeOK, NEW c \in Conn, kind[c] \in {"gmail", "graph", "imap"}, NEW n \in Nat \ {0},
         Here(c) # {}
  PROVE  \E t \in DriverPage(c, n, Start.at).threads : \A u \in Here(c) : u <= LastOf(msgs[c], t)
<1> DEFINE f == msgs[c]
           m == Max(In(f))
           p == DriverPage(c, n, Start.at)
<1>1. f \in Folder /\ In(f) \in SUBSET Uid /\ In(f) # {} /\ Here(c) = In(f)
  BY FolderOf DEF TypeOK, Folder, In
<1>2. m \in In(f) /\ \A u \in In(f) : u <= m
  BY <1>1, MaxIsMax
<1> HIDE DEF m
<1>a. (\A u \in In(f) : u \in Nat /\ u <= MaxUid) /\ Start.at = MaxUid + 2 /\ MaxUid \in Nat
  BY <1>1, Uids DEF Start
<1>b. \A l \in In(f) : m <= l => l = m
  <2>1. ASSUME NEW l \in In(f), m <= l PROVE l = m
    BY <1>2, <1>a, <2>1
  <2> QED BY <2>1
<1>3. f[m] \in Threads(f) /\ m <= LastOf(f, f[m]) /\ LastOf(f, f[m]) \in In(f)
  <2>1. f[m] \in Threads(f)
    BY <1>2 DEF Threads
  <2> QED BY <1>1, <1>2, <2>1, LastIsIn
<1>4. LastOf(f, f[m]) = m
  BY <1>3, <1>b
<1>5. ASSUME NEW S \in SUBSET Uid, m \in S, \A u \in S : u <= m PROVE m \in Newest(n, S)
  <2>1. Newest(n, S) # {} /\ Newest(n, S) \subseteq S
    BY <1>5, NewestIsUpper
  <2>2. PICK v \in Newest(n, S) : v \in S
    BY <2>1
  <2>3. m >= v
    BY <1>5, <2>2, Uids
  <2> QED BY <1>5, <2>2, <2>3, NewestIsUpper
<1>6. m < Start.at
  BY <1>2, <1>a
<1>7. f[m] \in p.threads
  <2>1. CASE kind[c] = "gmail"
    <3> DEFINE older == {u \in {LastOf(f, t) : t \in Threads(f)} : u < Start.at}
    <3>1. older \in SUBSET Uid /\ m \in older /\ \A u \in older : u <= m
      <4>1. \A t \in Threads(f) : LastOf(f, t) \in In(f)
        BY <1>1, LastIsIn
      <4> QED BY <1>1, <1>2, <1>3, <1>4, <1>6, <4>1
    <3>2. p = AbovePage(f, "gmail", n, Start.at)
      BY <2>1, FolderOf DEF DriverPage, GmailPage, AbovePage, ThreadsOf
    <3>3. p.threads = {f[u] : u \in Newest(n, older)}
      BY <3>2 DEF AbovePage, Page
    <3>4. m \in Newest(n, older)
      <4> HIDE DEF older
      <4> QED BY <1>5, <3>1
    <3> QED BY <3>3, <3>4
  <2>2. CASE kind[c] = "graph"
    <3>a. p = GraphPage(c, n, Start.at)
      BY <2>2 DEF DriverPage
    <3>1. p = BelowPage(f, n, 0)
      BY <1>1, <3>a DEF GraphPage, BelowPage, ThreadsOf
    <3>2. p.threads = {f[u] : u \in Newest(0 + n, In(f)) \ Newest(0, In(f))}
      BY <3>1 DEF BelowPage, Page
    <3>3. m \in Newest(n, In(f)) /\ 0 + n = n
      BY <1>1, <1>2, <1>5
    <3>4. m \notin Newest(0, In(f))
      <4>1. Cardinality({v \in In(f) : v > m}) \in Nat
        BY <1>1, Uids, FS_Subset, FS_CardinalityType
      <4> QED BY <4>1 DEF Newest
    <3> QED BY <3>2, <3>3, <3>4
  <2>3. CASE kind[c] = "imap"
    <3> DEFINE older == {u \in Here(c) : u < Start.at}
               read == Newest(Window(n), older)
    <3>1. older = In(f)
      <4>1. \A u \in In(f) : u < Start.at
        BY <1>a
      <4> QED BY <1>1, <4>1
    <3>2. read \in SUBSET In(f) /\ m \in read
      <4>1. Window(n) \in Nat \ {0}
        BY DEF Window
      <4>2. /\ Newest(Window(n), In(f)) \subseteq In(f) /\ Newest(Window(n), In(f)) # {}
            /\ \A u \in In(f), v \in Newest(Window(n), In(f)) : u >= v => u \in Newest(Window(n), In(f))
        BY <1>1, <4>1, NewestIsUpper
      <4>3. \A v \in In(f) : m >= v
        BY <1>1, <1>2, Uids
      <4> QED BY <1>2, <3>1, <4>2, <4>3
    <3> HIDE DEF read
    <3>3. ASSUME NEW t \in ThreadsOf(c, read)
          PROVE  Latest(c, t, read) \in read /\ (t = f[m] => Latest(c, t, read) = m)
      <4> DEFINE S == {u \in read : msgs[c][u] = t}
      <4>1. S \in SUBSET Uid /\ S # {}
        BY <1>1, <3>2 DEF ThreadsOf
      <4> HIDE DEF S
      <4>2. Max(S) \in S /\ \A y \in S : y <= Max(S)
        BY <4>1, MaxIsMax
      <4>3. ASSUME t = f[m] PROVE Max(S) = m
        <5>1. m \in S /\ m <= Max(S)
          BY <3>2, <4>2, <4>3 DEF S
        <5>2. \A l \in S : l \in In(f)
          BY <3>2 DEF S
        <5> QED BY <1>b, <4>2, <5>1, <5>2
      <4> QED BY <4>2, <4>3 DEF S, Latest
    <3>4. /\ Tops(c, read) \in SUBSET Uid /\ m \in Tops(c, read) /\ \A u \in Tops(c, read) : u <= m
      <4>1. f[m] \in ThreadsOf(c, read)
        BY <3>2 DEF ThreadsOf
      <4>2. Latest(c, f[m], read) = m
        BY <3>3, <4>1
      <4>3. m \in Tops(c, read)
        BY <4>1, <4>2 DEF Tops
      <4>4. Tops(c, read) \subseteq read
        BY <3>3 DEF Tops
      <4> QED BY <1>1, <1>2, <3>2, <4>3, <4>4
    <3>5. m \in Newest(n, Tops(c, read))
      BY <1>5, <3>4
    <3>6. p.threads = ThreadsOf(c, Newest(n, Tops(c, read)))
      BY <2>3 DEF DriverPage, ImapPage, Page, read
    <3> QED BY <3>5, <3>6 DEF ThreadsOf
  <2> QED BY <2>1, <2>2, <2>3
<1> QED BY <1>1, <1>2, <1>4, <1>7

PollInv == WalkInv /\ Remembered

LEMMA InitPoll == Init => PollInv
<1> SUFFICES ASSUME Init PROVE PollInv
  OBVIOUS
<1>1. WalkInv
  BY InitWalk
<1>2. view = "poll" => kind[Active] \in {"gmail", "graph", "imap"}
  BY PagesAssumption DEF Init, ListingKinds
<1> QED BY <1>1, <1>2 DEF PollInv, Remembered, Init

LEMMA ArrivePoll == ASSUME PollInv, NEW c \in Mine, Arrive(c) PROVE Remembered'
<1>0. c \in Conn /\ (view = "poll" => c = Active) /\ TypeOK /\ Arrived
  BY MineIsConn DEF Mine, PollInv, WalkInv
<1>1. PICK t \in Uid, m \in Uid :
        /\ m \notin In(msgs[c])
        /\ msgs' \in [Conn -> Folder] /\ msgs'[c][m] = t
        /\ \A u \in Uid : u # m => msgs'[c][u] = msgs[c][u]
        /\ top' \in [Conn -> 0..MaxUid] /\ top[c] <= top'[c] /\ m <= top'[c]
        /\ owed' \in [Conn -> SUBSET Uid] /\ owed'[c] = owed[c] \ {t}
        /\ moved' \in [Conn -> SUBSET Uid] /\ moved'[c] = moved[c] \union {t}
        /\ \A d \in Conn : d # c => /\ msgs'[d] = msgs[d] /\ top'[d] = top[d]
                                    /\ owed'[d] = owed[d] /\ moved'[d] = moved[d]
  BY <1>0, ArriveDoes
<1> DEFINE f == msgs[c]
           g == msgs'[c]
<1>2. f \in Folder /\ g \in Folder
  BY <1>0, <1>1 DEF TypeOK, Folder
<1>3. Threads(g) = Threads(f) \union {t} /\ \A x : x # t => LastOf(g, x) = LastOf(f, x)
  <2>1. g[m] = t /\ m \notin In(f) /\ \A u \in Uid : u # m => g[u] = f[u]
    BY <1>1
  <2> HIDE DEF f, g
  <2>2. /\ Threads(g) = Threads(f) \union {t}
        /\ \A x : x # t => MessagesOf(g, x) = MessagesOf(f, x) /\ LastOf(g, x) = LastOf(f, x)
    BY <1>2, <2>1, ArrivalMoves
  <2> QED BY <2>2
<1>4. UNCHANGED <<view, kind, cursor, mark>> /\ Present(Active)' = Threads(msgs'[Active])
  BY FolderOfNext DEF Arrive, pollVars
<1>5. ASSUME view = "poll", cursor # None, NEW x \in Threads(g), LastOf(g, x) > mark
      PROVE  x \in moved'[c]
  <2>1. CASE x = t
    BY <1>1, <2>1
  <2>2. CASE x # t
    <3>1. x \in Threads(f) /\ LastOf(f, x) > mark
      BY <1>3, <1>5, <2>2
    <3>2. x \in moved[c]
      BY <1>0, <1>5, <3>1, FolderOf DEF PollInv, Remembered
    <3> QED BY <1>1, <3>2
  <2> QED BY <2>1, <2>2
<1> QED BY <1>0, <1>4, <1>5 DEF PollInv, Remembered

LEMMA LeavePoll == ASSUME PollInv, NEW c \in Mine, Leave(c) PROVE Remembered'
<1>0. c \in Conn /\ (view = "poll" => c = Active) /\ TypeOK
  BY MineIsConn DEF Mine, PollInv, WalkInv
<1>1. PICK t \in Present(c), gone \in SUBSET Uid :
        /\ gone \subseteq MessagesOf(msgs[c], t)
        /\ msgs' \in [Conn -> Folder] /\ msgs'[c] = Without(msgs[c], gone)
        /\ owed' \in [Conn -> SUBSET Uid] /\ owed'[c] = StillOwed(c, t, gone)
        /\ owed'[c] \subseteq owed[c]
        /\ \A d \in Conn : d # c => msgs'[d] = msgs[d] /\ owed'[d] = owed[d]
  BY <1>0, LeaveDoes
<1>2. UNCHANGED <<view, kind, cursor, mark, moved>> /\ Present(Active)' = Threads(msgs'[Active])
  BY FolderOfNext DEF Leave, pollVars
<1> DEFINE f == msgs[c]
           g == msgs'[c]
<1>3. f \in Folder /\ g \in Folder /\ t \in Threads(f) /\ g = Without(f, gone)
  BY <1>0, <1>1, FolderOf DEF TypeOK, Folder
<1>4. Threads(g) \subseteq Threads(f) /\ \A x \in Threads(g) : LastOf(g, x) <= LastOf(f, x)
  <2>1. gone \in SUBSET MessagesOf(f, t)
    BY <1>1
  <2> HIDE DEF f, g
  <2> QED BY <1>3, <2>1, DepartureMoves
<1>5. ASSUME view = "poll", cursor # None, NEW x \in Threads(g), LastOf(g, x) > mark
      PROVE  x \in moved[c]
  <2>1. LastOf(g, x) \in Nat /\ LastOf(f, x) \in Nat /\ mark \in Nat
    <3>1. LastOf(g, x) \in In(g) /\ LastOf(f, x) \in In(f) /\ mark \in Nat
      BY <1>0, <1>3, <1>4, LastIsIn DEF TypeOK
    <3> QED BY <3>1, Uids DEF In
  <2>2. x \in Threads(f) /\ LastOf(f, x) > mark
    BY <1>4, <1>5, <2>1
  <2> QED BY <1>0, <1>5, <2>2, FolderOf DEF PollInv, Remembered
<1> QED BY <1>0, <1>2, <1>5 DEF PollInv, Remembered

LEMMA PollPoll == ASSUME PollInv, Poll PROVE Remembered'
<1> DEFINE c == Active
           f == msgs[c]
           threads == DriverPage(c, PollSize, Start.at).threads
<1>0. c \in Conn /\ TypeOK /\ f \in Folder /\ PollSize \in Nat \ {0}
  BY PagesAssumption DEF PollInv, WalkInv, TypeOK, Folder
<1>1. UNCHANGED <<view, kind, msgs, top>> /\ view = "poll"
  BY DEF Poll, mailVars
<1>3. kind[c] \in {"gmail", "graph", "imap"}
  BY <1>1 DEF PollInv, Remembered
<1>4. threads \subseteq Threads(f)
  <2>1. Start.at \in Nat
    BY Uids DEF Start
  <2> QED BY <1>0, <2>1, PagesOK, FolderOf
<1>5. In(f) # {} => \E t \in threads : \A u \in In(f) : u <= LastOf(f, t)
  BY <1>0, <1>3, FirstPage, FolderOf
<1>6. Present(c)' = Threads(f) /\ msgs'[c] = f
  BY <1>1, FolderOfNext
<1>7. CASE threads = {}
  <2>1. Threads(f) = {}
    BY <1>5, <1>7 DEF Threads
  <2> QED BY <1>1, <1>3, <1>6, <2>1 DEF Remembered
<1>8. CASE threads # {}
  <2> DEFINE Last(t) == Latest(c, t, Here(c))
  <2>1. \E t \in threads : \A o \in threads : Last(o) <= Last(t)
    BY <1>0, <1>4, <1>8, HasNewest, FolderOf
  <2>2. /\ cursor' \in threads /\ \A o \in threads : Last(o) <= Last(cursor')
        /\ mark' = Last(cursor')
    BY <1>8, <2>1 DEF Poll
  <2>3. \A t : Last(t) = LastOf(f, t)
    BY FolderOf
  <2> HIDE DEF Last
  <2>4. /\ cursor' \in Threads(f) /\ \A o \in threads : LastOf(f, o) <= LastOf(f, cursor')
        /\ mark' = LastOf(f, cursor')
    BY <1>4, <2>2, <2>3
  <2>6. ASSUME NEW x \in Threads(f) PROVE ~(LastOf(f, x) > mark')
    <3>1. LastOf(f, x) \in In(f) /\ LastOf(f, cursor') \in In(f)
      BY <1>0, <2>4, LastIsIn
    <3>2. PICK t \in threads : \A u \in In(f) : u <= LastOf(f, t)
      BY <1>5, <3>1
    <3>3. LastOf(f, t) \in In(f)
      BY <1>0, <1>4, LastIsIn
    <3>4. LastOf(f, x) <= LastOf(f, t) /\ LastOf(f, t) <= mark' /\ mark' \in In(f)
      BY <2>4, <3>1, <3>2
    <3>5. \A a, b, d \in In(f) : a <= b /\ b <= d => ~(a > d)
      BY Uids DEF In
    <3> QED BY <3>1, <3>3, <3>4, <3>5
  <2> QED BY <1>1, <1>3, <1>6, <2>6 DEF Remembered
<1> QED BY <1>7, <1>8

LEMMA NextPoll == PollInv /\ [Next]_vars => PollInv'
<1> SUFFICES ASSUME PollInv, [Next]_vars PROVE Remembered'
  BY NextWalk DEF PollInv
<1>1. ASSUME UNCHANGED <<view, kind, msgs, cursor, mark, moved>> \/
             (view # "poll" /\ UNCHANGED <<view, kind, msgs>>)
      PROVE  Remembered'
  BY <1>1 DEF PollInv, Remembered, Present, ThreadsOf, Here
<1>2. ASSUME UNCHANGED vars PROVE Remembered'
  BY <1>1, <1>2 DEF vars, mailVars, pollVars
<1>3. ASSUME NEW c \in Mine, BecomeReady(c) PROVE Remembered'
  BY <1>1, <1>3 DEF BecomeReady, pollVars
<1>4. ASSUME NextPage \/ NextPageOfAll PROVE Remembered'
  BY <1>1, <1>4 DEF NextPage, NextPageOfAll, mailVars, pollVars
<1> QED BY <1>2, <1>3, <1>4, ArrivePoll, LeavePoll, PollPoll DEF Next, Mailbox

\* pollNewMessages of actions/mail.ts with the cursor of use-new-mail-notifier.ts:
\* whatever the folder, the provider's page and the mail that leaves, what is
\* announced while the remembered thread is listed where it was or higher are
\* threads that mail has come into since.
THEOREM OnlyNewsIsNews == Spec => NewsIsNews
<1> DEFINE threads == DriverPage(Active, PollSize, Start.at).threads
           Told == (Poll /\ cursor \in threads /\ Latest(Active, cursor, Here(Active)) >= mark)
                     => news' \subseteq moved[Active]
<1>1. PollInv /\ [Next]_vars => Told
  <2> SUFFICES ASSUME PollInv, Poll, cursor \in threads,
                      Latest(Active, cursor, Here(Active)) >= mark
               PROVE  news' \subseteq moved[Active]
    OBVIOUS
  <2>1. /\ TypeOK /\ Active \in Conn /\ PollSize \in Nat \ {0} /\ Start.at \in Nat
        /\ msgs[Active] \in Folder
    BY PagesAssumption, Uids DEF PollInv, WalkInv, Start, TypeOK, Folder
  <2>2. threads \subseteq Threads(msgs[Active])
    BY <2>1, PagesOK, FolderOf
  <2>3. view = "poll" /\ mark \in Nat
    BY <2>1 DEF Poll, TypeOK
  <2>4. news' \subseteq {t \in threads : LastOf(msgs[Active], t) > LastOf(msgs[Active], cursor)}
    <3>1. news' = {} \/ news' = Fresh(Active, threads)
      BY DEF Poll
    <3> HIDE DEF threads
    <3> QED BY <3>1, FolderOf DEF Fresh
  <2>5. LastOf(msgs[Active], cursor) >= mark
    BY FolderOf
  <2>6. ASSUME NEW t \in threads, LastOf(msgs[Active], t) > LastOf(msgs[Active], cursor)
        PROVE  LastOf(msgs[Active], t) > mark
    <3>1. LastOf(msgs[Active], t) \in In(msgs[Active]) /\ LastOf(msgs[Active], cursor) \in In(msgs[Active])
      BY <2>1, <2>2, LastIsIn
    <3>2. LastOf(msgs[Active], t) \in Nat /\ LastOf(msgs[Active], cursor) \in Nat
      BY <3>1, Uids DEF In
    <3> QED BY <2>3, <2>5, <2>6, <3>2
  <2>7. cursor # None
    <3>1. cursor \in Uid
      BY <2>1, <2>2, LastIsIn
    <3> QED BY <3>1, Uids DEF None
  <2> HIDE DEF threads
  <2> QED BY <2>2, <2>3, <2>4, <2>6, <2>7, FolderOf DEF PollInv, Remembered
<1>2. PollInv /\ [Next]_vars => [Told]_vars
  BY <1>1
<1> QED BY <1>2, InitPoll, NextPoll, PTL DEF Spec, NewsIsNews

=============================================================================

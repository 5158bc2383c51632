------------------------------ MODULE FeedProof ------------------------------
(***************************************************************************)
(* Proofs about Feed: with one page at a time, each answered as the server *)
(* answers, no post is listed twice; and the list has no hole, for any     *)
(* size of a page, any number of posts and any number of pages.            *)
(*                                                                         *)
(* As long as no page was answered from an incomplete cache, every set of  *)
(* documents a listener hears is a window: PageSize consecutive posts, or  *)
(* all there are.  The first page ends with the newest post of the cache,  *)
(* t, and an older page ends just before the post it starts after, which   *)
(* is on the list.  The list therefore grows by whole windows at both      *)
(* ends, and the invariant says what that makes of it.                     *)
(*                                                                         *)
(* The last part is about the likes of a row of that list: Likes, for any  *)
(* users, devices, taps and deaths.                                        *)
(***************************************************************************)
EXTENDS Feed, Likes, FiniteSetTheorems, SequenceTheorems, WellFoundedInduction, TLAPS

(* The PageSize newest of the posts 1..t.                                  *)
Window(t) == {p \in 1..t : p > t - PageSize}

Records == [on : BOOLEAN, after : 0..FirstPage, docs : SUBSET Posts, synced : BOOLEAN]

(* A page whose first answer is under way.                                 *)
Asked(l) == l \in Loads /\ listener[l].on /\ ~listener[l].synced /\ listener[l].docs = {}

(* What the cache holds: at its end, a whole first page.                   *)
CacheOK(t) == cached \subseteq 1..t /\ Window(t) \subseteq cached

(* An older page: its query starts after a post of the list, and what it   *)
(* has heard is what the server says.                                      *)
PagesOK ==
    \A l \in Loads : listener[l].on =>
        /\ listener[l].after \in ToSet(list)
        /\ listener[l].docs \in {{}, Window(listener[l].after - 1)}
        /\ listener[l].synced => listener[l].docs = Window(listener[l].after - 1)

Unloaded ==
    /\ list = <<>> /\ listener[0].docs = {}
    /\ \A l \in Loads : ~listener[l].on

Loaded(t) ==
    /\ t # 0 /\ listener[0].docs = Window(t)
    /\ list \in Seq(1..t) /\ t \in ToSet(list) /\ lastVisible \in ToSet(list)
    /\ PagesOK

(* Without a skipped post the list is an interval.                         *)
Convex == \A p, q \in ToSet(list) : p..q \subseteq ToSet(list)

(* With one page at a time, pages are added below the last of the list.    *)
Orderly ==
    /\ IsInjective(list)
    /\ \A p \in ToSet(list) : p >= lastVisible
    /\ \A l \in Loads : Asked(l) => listener[l].after = lastVisible
    /\ \A k, l \in Loads : Asked(k) /\ Asked(l) => k = l

(* When nothing went wrong it counts down from the newest post.            *)
Countdown(t) ==
    /\ Len(list) = t + 1 - lastVisible
    /\ \A i \in DOMAIN list : list[i] = t + 1 - i

Shape(t) ==
    /\ CacheOK(t)
    /\ isFirstPageFirstLoad => Unloaded
    /\ ~isFirstPageFirstLoad =>
          /\ Loaded(t)
          /\ "skipped" \notin cause => Convex
          /\ "overlap" \notin cause => Orderly
          /\ cause = {} => Countdown(t)

Types ==
    /\ newest \in 0..MaxPosts /\ cached \subseteq 1..newest
    /\ lastVisible \in 0..newest
    /\ listener \in [Listeners -> Records] /\ listener[0].after = FirstPage
    /\ isFirstPageFirstLoad \in BOOLEAN

IInv ==
    /\ Types
    /\ "partial" \notin cause => \E t \in 0..newest : Shape(t)

-----------------------------------------------------------------------------
(* Sets of posts.                                                          *)

(* The first post of a window.                                             *)
Low(t) == IF t > PageSize THEN t - PageSize + 1 ELSE 1

(* The newest page of 1..t is an interval that ends with t.                *)
LEMMA WindowInterval ==
    ASSUME NEW t \in Nat
    PROVE  /\ Window(t) = Low(t)..t
           /\ Low(t) \in Nat \ {0} /\ Low(t) <= t + 1
           /\ t # 0 => Low(t) \in 1..t /\ t \in Window(t)
           /\ Window(t) = {} <=> t = 0
  <1>1. PageSize \in Nat /\ PageSize # 0  BY FeedAssumption
  <1>2. /\ Low(t) \in Nat \ {0} /\ Low(t) <= t + 1
        /\ t # 0 => Low(t) \in 1..t
    BY <1>1 DEF Low
  <1>3. ASSUME NEW p  PROVE p \in Window(t) <=> p \in Low(t)..t
    BY <1>1 DEF Low, Window
  <1>4. Window(t) = Low(t)..t  BY <1>3
  <1>5. t # 0 => t \in Low(t)..t  BY <1>2
  <1>6. t = 0 => Low(t)..t = {}  BY <1>1 DEF Low
  <1> QED  BY <1>2, <1>4, <1>5, <1>6

(* Every set of posts that is not empty has an oldest one.                 *)
LEMMA Least ==
    ASSUME NEW T, T \subseteq Nat, T # {}
    PROVE  \E m \in T : \A n \in T : m <= n
  <1>1. PICK m \in T : \A n \in T : ~(<<n, m>> \in OpToRel(<, Nat))
    BY NatLessThanWellFounded, WFMin
  <1>2. ASSUME NEW n \in T  PROVE m <= n
    <2>1. n \in Nat /\ m \in Nat  OBVIOUS
    <2>2. ~(n < m)
      <3>1. <<n, m>> \notin {ss \in Nat \X Nat : ss[1] < ss[2]}  BY <1>1 DEF OpToRel
      <3> QED  BY <2>1, <3>1
    <2> HIDE DEF OpToRel
    <2> QED  BY <2>1, <2>2
  <1> QED  BY <1>2

(* A set of posts that is not empty has an oldest one.                     *)
LEMMA OldestIn ==
    ASSUME NEW T, T \subseteq Nat, T # {}
    PROVE  Oldest(T) \in T /\ \A n \in T : Oldest(T) <= n
  BY Least DEF Oldest

(* The oldest post of an interval is its first.                            *)
LEMMA OldestOfInterval ==
    ASSUME NEW a \in Nat, NEW b \in Nat, a <= b
    PROVE  Oldest(a..b) = a
  <1>1. a..b \subseteq Nat /\ a \in a..b  OBVIOUS
  <1>2. Oldest(a..b) \in a..b /\ \A n \in a..b : Oldest(a..b) <= n
    BY <1>1, OldestIn
  <1> QED  BY <1>1, <1>2

(* How many posts an interval has.                                         *)
LEMMA IntervalSize ==
    ASSUME NEW a \in Int, NEW b \in Int, a <= b + 1
    PROVE  IsFiniteSet(a..b) /\ Cardinality(a..b) = b + 1 - a
  <1>1. IsFiniteSet(a..b) /\ Cardinality(a..b) = IF a > b THEN 0 ELSE b - a + 1
    BY FS_Interval
  <1>2. a > b => b + 1 - a = 0  OBVIOUS
  <1>3. b - a + 1 = b + 1 - a  OBVIOUS
  <1> QED  BY <1>1, <1>2, <1>3

(* What the queries answer from the posts on the server.                   *)
LEMMA QueryWindow ==
    ASSUME NEW after, NEW n \in Nat, NEW m \in Nat, {p \in 1..n : p < after} = 1..m
    PROVE  Query(after, 1..n) = Window(m)
  <1>1. Query(after, 1..n) = {p \in 1..m : Cardinality({q \in 1..m : q > p}) < PageSize}
    BY DEF Query
  <1>2. ASSUME NEW p \in 1..m
        PROVE  Cardinality({q \in 1..m : q > p}) < PageSize <=> p > m - PageSize
    <2>1. {q \in 1..m : q > p} = (p + 1)..m  OBVIOUS
    <2>2. Cardinality((p + 1)..m) = m - p
      <3>1. p + 1 \in Int /\ m \in Int /\ p + 1 <= m + 1 /\ m + 1 - (p + 1) = m - p
        OBVIOUS
      <3> QED  BY <3>1, IntervalSize
    <2>3. m - p < PageSize <=> p > m - PageSize  BY FeedAssumption
    <2> QED  BY <2>1, <2>2, <2>3
  <1> QED  BY <1>1, <1>2 DEF Window

(* The first page of all posts is their newest page.                       *)
LEMMA FirstPageQuery ==
    ASSUME NEW n \in 0..MaxPosts
    PROVE  Query(FirstPage, 1..n) = Window(n)
  <1>1. {p \in 1..n : p < FirstPage} = 1..n  BY FeedAssumption DEF FirstPage
  <1> QED  BY <1>1, QueryWindow, FeedAssumption

(* A further page of all posts is the page of those older than its anchor. *)
LEMMA PageQuery ==
    ASSUME NEW n \in Nat, NEW after \in 1..n
    PROVE  Query(after, 1..n) = Window(after - 1)
  <1>1. {p \in 1..n : p < after} = 1..(after - 1) /\ after - 1 \in Nat  OBVIOUS
  <1> QED  BY <1>1, QueryWindow

(* The first page from a cache that ends with a whole page is that page.   *)
LEMMA CacheQuery ==
    ASSUME NEW t \in 0..MaxPosts, NEW C, C \subseteq 1..t, Window(t) \subseteq C
    PROVE  Query(FirstPage, C) = Window(t)
  <1>1. t \in Nat /\ MaxPosts \in Nat /\ PageSize \in Nat \ {0}  BY FeedAssumption
  <1>2. {p \in C : p < FirstPage} = C
    <2>1. ASSUME NEW p \in C  PROVE p < FirstPage
      <3>1. p \in 1..t  OBVIOUS
      <3> QED  BY <1>1, <3>1 DEF FirstPage
    <2> QED  BY <2>1
  <1>3. Query(FirstPage, C) = {p \in C : Cardinality({q \in C : q > p}) < PageSize}
    BY <1>2 DEF Query
  <1>4. ASSUME NEW p \in C
        PROVE  Cardinality({q \in C : q > p}) < PageSize <=> p > t - PageSize
    <2>1. p \in 1..t  OBVIOUS
    <2>2. CASE p > t - PageSize
      <3>1. {q \in C : q > p} = (p + 1)..t
        <4>1. ASSUME NEW q \in C, q > p  PROVE q \in (p + 1)..t
          <5>1. q \in 1..t  OBVIOUS
          <5> QED  BY <1>1, <2>1, <4>1, <5>1
        <4>2. ASSUME NEW q \in (p + 1)..t  PROVE q \in C /\ q > p
          <5>1. q \in 1..t /\ q > t - PageSize /\ q > p  BY <1>1, <2>1, <2>2
          <5> QED  BY <5>1 DEF Window
        <4> QED  BY <4>1, <4>2
      <3>2. Cardinality((p + 1)..t) = t - p
        <4>1. p + 1 \in Int /\ t \in Int /\ p + 1 <= t + 1 /\ t + 1 - (p + 1) = t - p
          BY <1>1, <2>1
        <4> QED  BY <4>1, IntervalSize
      <3>3. t - p < PageSize  BY <1>1, <2>1, <2>2
      <3> QED  BY <2>2, <3>1, <3>2, <3>3
    <2>3. CASE ~(p > t - PageSize)
      <3> DEFINE S == {q \in C : q > p}
      <3>1. ((t - PageSize) + 1)..t \subseteq S  BY <1>1, <2>1, <2>3 DEF Window
      <3>2. Cardinality(((t - PageSize) + 1)..t) = PageSize
        <4>1. /\ (t - PageSize) + 1 \in Int /\ t \in Int /\ (t - PageSize) + 1 <= t + 1
              /\ t + 1 - ((t - PageSize) + 1) = PageSize
          BY <1>1
        <4> QED  BY <4>1, IntervalSize
      <3>3. S \subseteq 1..t /\ IsFiniteSet(1..t)
        <4>1. S \subseteq C  OBVIOUS
        <4>2. IsFiniteSet(1..t)  BY <1>1, FS_Interval
        <4> HIDE DEF S
        <4> QED  BY <4>1, <4>2
      <3>4. IsFiniteSet(S)  BY <3>3, FS_Subset
      <3>5. PageSize <= Cardinality(S)
        <4> HIDE DEF S
        <4> QED  BY <3>1, <3>2, <3>4, FS_Subset
      <3>6. Cardinality(S) \in Nat  BY <3>4, FS_CardinalityType
      <3>7. ~(Cardinality(S) < PageSize)  BY <1>1, <3>5, <3>6
      <3> QED  BY <2>3, <3>7
    <2> QED  BY <2>2, <2>3
  <1>5. Window(t) = {p \in C : p > t - PageSize}  BY DEF Window
  <1> QED  BY <1>3, <1>4, <1>5

(* An interval of posts, from the newest to the oldest and back.           *)
LEMMA IntervalNewestFirst ==
    ASSUME NEW a \in Nat, NEW b \in Nat, a <= b + 1
    PROVE  NewestFirst(a..b) = [i \in 1..(b + 1 - a) |-> b + 1 - i]
  <1> DEFINE n == b + 1 - a
             P(s) == \A i \in DOMAIN s : Cardinality({q \in a..b : q > s[i]}) = i - 1
             f == [i \in 1..n |-> b + 1 - i]
  <1>1. n \in Nat /\ Cardinality(a..b) = n  BY FS_Interval
  <1>2. ASSUME NEW p \in a..b  PROVE Cardinality({q \in a..b : q > p}) = b - p
    <2>1. {q \in a..b : q > p} = (p + 1)..b  OBVIOUS
    <2>2. Cardinality((p + 1)..b) = b - p
      <3>1. p + 1 \in Int /\ b \in Int /\ p + 1 <= b + 1 /\ b + 1 - (p + 1) = b - p
        OBVIOUS
      <3> QED  BY <3>1, IntervalSize
    <2> QED  BY <2>1, <2>2
  <1>3. f \in [1..n -> a..b]  BY <1>1
  <1>4. P(f)
    <2>1. ASSUME NEW i \in 1..n  PROVE Cardinality({q \in a..b : q > f[i]}) = i - 1
      <3>1. f[i] = b + 1 - i /\ f[i] \in a..b  BY <1>3
      <3>2. b - (b + 1 - i) = i - 1  OBVIOUS
      <3> QED  BY <1>2, <3>1, <3>2
    <2> QED  BY <2>1
  <1>5. ASSUME NEW s \in [1..n -> a..b], P(s)  PROVE s = f
    <2>1. ASSUME NEW i \in 1..n  PROVE s[i] = f[i]
      <3>1. s[i] \in a..b /\ b - s[i] = i - 1  BY <1>2, <1>5
      <3> QED  BY <3>1
    <2> QED  BY <1>5, <2>1
  <1>6. NewestFirst(a..b) = CHOOSE s \in [1..n -> a..b] : P(s)  BY <1>1 DEF NewestFirst
  <1> HIDE DEF n, P, f
  <1>7. NewestFirst(a..b) = f  BY <1>3, <1>4, <1>5, <1>6
  <1> QED  BY <1>7 DEF f, n

(* Posts without a hole, oldest first, are the numbers in order.           *)
LEMMA IntervalOldestFirst ==
    ASSUME NEW a \in Nat, NEW b \in Nat, a <= b + 1
    PROVE  OldestFirst(a..b) = [i \in 1..(b + 1 - a) |-> a - 1 + i]
  <1> DEFINE n == b + 1 - a
             P(s) == \A i \in DOMAIN s : Cardinality({q \in a..b : q < s[i]}) = i - 1
             f == [i \in 1..n |-> a - 1 + i]
  <1>1. n \in Nat /\ Cardinality(a..b) = n  BY FS_Interval
  <1>2. ASSUME NEW p \in a..b  PROVE Cardinality({q \in a..b : q < p}) = p - a
    <2>1. {q \in a..b : q < p} = a..(p - 1)  OBVIOUS
    <2>2. Cardinality(a..(p - 1)) = p - a
      <3>1. /\ p - 1 \in Int /\ a \in Int /\ a <= (p - 1) + 1
            /\ (p - 1) + 1 - a = p - a
        OBVIOUS
      <3> QED  BY <3>1, IntervalSize
    <2> QED  BY <2>1, <2>2
  <1>3. f \in [1..n -> a..b]  BY <1>1
  <1>4. P(f)
    <2>1. ASSUME NEW i \in 1..n  PROVE Cardinality({q \in a..b : q < f[i]}) = i - 1
      <3>1. f[i] = a - 1 + i /\ f[i] \in a..b  BY <1>3
      <3>2. (a - 1 + i) - a = i - 1  OBVIOUS
      <3> QED  BY <1>2, <3>1, <3>2
    <2> QED  BY <2>1
  <1>5. ASSUME NEW s \in [1..n -> a..b], P(s)  PROVE s = f
    <2>1. ASSUME NEW i \in 1..n  PROVE s[i] = f[i]
      <3>1. s[i] \in a..b /\ s[i] - a = i - 1  BY <1>2, <1>5
      <3> QED  BY <3>1
    <2> QED  BY <1>5, <2>1
  <1>6. OldestFirst(a..b) = CHOOSE s \in [1..n -> a..b] : P(s)  BY <1>1 DEF OldestFirst
  <1> HIDE DEF n, P, f
  <1>7. OldestFirst(a..b) = f  BY <1>3, <1>4, <1>5, <1>6
  <1> QED  BY <1>7 DEF f, n

-----------------------------------------------------------------------------
(* Lists of posts.                                                         *)

(* The members of a list are what stands at its places.                    *)
LEMMA ToSetMembers ==
    ASSUME NEW S, NEW s \in Seq(S)
    PROVE  /\ Len(s) \in Nat /\ DOMAIN s = 1..Len(s) /\ ToSet(s) \subseteq S
           /\ \A i \in 1..Len(s) : s[i] \in ToSet(s)
           /\ \A x \in ToSet(s) : \E i \in 1..Len(s) : s[i] = x
  <1>1. Len(s) \in Nat /\ DOMAIN s = 1..Len(s)  BY LenProperties
  <1>2. \A i \in 1..Len(s) : s[i] \in S  BY ElementOfSeq
  <1> QED  BY <1>1, <1>2 DEF ToSet

(* What stands where after two lists are joined.                           *)
LEMMA ConcatLists ==
    ASSUME NEW S, NEW s \in Seq(S), NEW r \in Seq(S)
    PROVE  /\ s \o r \in Seq(S) /\ Len(s \o r) = Len(s) + Len(r)
           /\ \A i \in 1..Len(s) : (s \o r)[i] = s[i]
           /\ \A i \in 1..Len(r) : (s \o r)[Len(s) + i] = r[i]
           /\ \A i \in 1..(Len(s) + Len(r)) :
                 i \in 1..Len(s) \/ (i - Len(s) \in 1..Len(r) /\ (s \o r)[i] = r[i - Len(s)])
           /\ ToSet(s \o r) = ToSet(s) \cup ToSet(r)
  <1>1. /\ s \o r \in Seq(S) /\ Len(s \o r) = Len(s) + Len(r)
        /\ \A i \in 1..(Len(s) + Len(r)) :
              (s \o r)[i] = IF i <= Len(s) THEN s[i] ELSE r[i - Len(s)]
    BY ConcatProperties
  <1>2. Len(s) \in Nat /\ Len(r) \in Nat  BY LenProperties
  <1>3. ASSUME NEW i \in 1..Len(s)  PROVE (s \o r)[i] = s[i] /\ i \in 1..(Len(s) + Len(r))
    <2>1. i \in 1..(Len(s) + Len(r)) /\ i <= Len(s)  BY <1>2
    <2> QED  BY <1>1, <2>1
  <1>4. ASSUME NEW i \in 1..Len(r)
        PROVE  (s \o r)[Len(s) + i] = r[i] /\ Len(s) + i \in 1..(Len(s) + Len(r))
    <2>1. /\ Len(s) + i \in 1..(Len(s) + Len(r)) /\ ~(Len(s) + i <= Len(s))
          /\ (Len(s) + i) - Len(s) = i
      BY <1>2
    <2> QED  BY <1>1, <2>1
  <1>5. ASSUME NEW i \in 1..(Len(s) + Len(r)), i \notin 1..Len(s)
        PROVE  i - Len(s) \in 1..Len(r) /\ (s \o r)[i] = r[i - Len(s)]
    <2>1. i - Len(s) \in 1..Len(r) /\ ~(i <= Len(s))  BY <1>2, <1>5
    <2> QED  BY <1>1, <2>1
  <1>6. ToSet(s \o r) = ToSet(s) \cup ToSet(r)
    <2>1. /\ DOMAIN (s \o r) = 1..(Len(s) + Len(r)) /\ DOMAIN s = 1..Len(s)
          /\ DOMAIN r = 1..Len(r)
      BY <1>1, LenProperties
    <2>2. ASSUME NEW x \in ToSet(s \o r)  PROVE x \in ToSet(s) \cup ToSet(r)
      <3>1. PICK i \in 1..(Len(s) + Len(r)) : x = (s \o r)[i]  BY <2>1 DEF ToSet
      <3> QED  BY <1>3, <1>5, <2>1, <3>1 DEF ToSet
    <2>3. ASSUME NEW x \in ToSet(s)  PROVE x \in ToSet(s \o r)
      <3>1. PICK i \in 1..Len(s) : x = s[i]  BY <2>1 DEF ToSet
      <3> QED  BY <1>3, <2>1, <3>1 DEF ToSet
    <2>4. ASSUME NEW x \in ToSet(r)  PROVE x \in ToSet(s \o r)
      <3>1. PICK i \in 1..Len(r) : x = r[i]  BY <2>1 DEF ToSet
      <3> QED  BY <1>4, <2>1, <3>1 DEF ToSet
    <2> QED  BY <2>2, <2>3, <2>4
  <1> QED  BY <1>1, <1>3, <1>4, <1>5, <1>6

(* Two lists without a common post, neither with a post twice.             *)
LEMMA ConcatInjective ==
    ASSUME NEW S, NEW s \in Seq(S), NEW r \in Seq(S), IsInjective(s), IsInjective(r),
           ToSet(s) \cap ToSet(r) = {}
    PROVE  IsInjective(s \o r)
  <1>1. /\ DOMAIN s = 1..Len(s) /\ DOMAIN r = 1..Len(r) /\ Len(s) \in Nat /\ Len(r) \in Nat
        /\ DOMAIN (s \o r) = 1..(Len(s) + Len(r))
        /\ \A i \in 1..Len(s) : s[i] \in ToSet(s)
        /\ \A i \in 1..Len(r) : r[i] \in ToSet(r)
    BY ConcatLists, ToSetMembers, LenProperties
  <1>2. ASSUME NEW i \in 1..(Len(s) + Len(r)), NEW j \in 1..(Len(s) + Len(r)),
               (s \o r)[i] = (s \o r)[j]
        PROVE  i = j
    <2>1. i \in 1..Len(s) => (s \o r)[i] = s[i] /\ (s \o r)[i] \in ToSet(s)
      BY <1>1, ConcatLists
    <2>2. j \in 1..Len(s) => (s \o r)[j] = s[j] /\ (s \o r)[j] \in ToSet(s)
      BY <1>1, ConcatLists
    <2>3. i \notin 1..Len(s) =>
             /\ i - Len(s) \in 1..Len(r) /\ (s \o r)[i] = r[i - Len(s)]
             /\ (s \o r)[i] \in ToSet(r)
      BY <1>1, ConcatLists
    <2>4. j \notin 1..Len(s) =>
             /\ j - Len(s) \in 1..Len(r) /\ (s \o r)[j] = r[j - Len(s)]
             /\ (s \o r)[j] \in ToSet(r)
      BY <1>1, ConcatLists
    <2>5. CASE i \in 1..Len(s) /\ j \in 1..Len(s)
      BY <1>1, <1>2, <2>1, <2>2, <2>5 DEF IsInjective
    <2>6. CASE i \notin 1..Len(s) /\ j \notin 1..Len(s)
      <3>1. i - Len(s) = j - Len(s)  BY <1>1, <1>2, <2>3, <2>4, <2>6 DEF IsInjective
      <3> QED  BY <1>1, <3>1
    <2> QED  BY <1>2, <2>1, <2>2, <2>3, <2>4, <2>5, <2>6
  <1> QED  BY <1>1, <1>2 DEF IsInjective

(* The list of an interval of posts, in either direction.                  *)
LEMMA NewestFirstList ==
    ASSUME NEW a \in Nat \ {0}, NEW b \in Nat, a <= b + 1
    PROVE  /\ NewestFirst(a..b) \in Seq(1..b) /\ Len(NewestFirst(a..b)) = b + 1 - a
           /\ \A i \in 1..(b + 1 - a) : NewestFirst(a..b)[i] = b + 1 - i
           /\ ToSet(NewestFirst(a..b)) = a..b /\ IsInjective(NewestFirst(a..b))
  <1> DEFINE n == b + 1 - a
             f == [i \in 1..n |-> b + 1 - i]
  <1>1. NewestFirst(a..b) = f  BY IntervalNewestFirst
  <1>2. n \in Nat /\ \A i \in 1..n : b + 1 - i \in 1..b /\ b + 1 - i \in a..b  OBVIOUS
  <1>3. f \in [1..n -> 1..b] /\ DOMAIN f = 1..n /\ \A i \in 1..n : f[i] = b + 1 - i
    BY <1>2
  <1>4. \A x \in a..b : b + 1 - x \in 1..n /\ b + 1 - (b + 1 - x) = x  OBVIOUS
  <1>5. \A i, j \in 1..n : b + 1 - i = b + 1 - j => i = j  BY <1>2
  <1> HIDE DEF f, n
  <1>6. f \in Seq(1..b) /\ Len(f) = n  BY <1>2, <1>3, IsASeq, LenProperties
  <1>7. ToSet(f) = a..b
    <2>1. \A x \in a..b : f[b + 1 - x] = x /\ b + 1 - x \in DOMAIN f  BY <1>3, <1>4
    <2>2. \A x \in ToSet(f) : x \in a..b  BY <1>2, <1>3 DEF ToSet
    <2> QED  BY <2>1, <2>2 DEF ToSet
  <1>8. IsInjective(f)  BY <1>3, <1>5 DEF IsInjective
  <1> QED  BY <1>1, <1>3, <1>6, <1>7, <1>8 DEF n

(* Oldest first, an interval is a list of just its posts, each once.       *)
LEMMA OldestFirstList ==
    ASSUME NEW a \in Nat \ {0}, NEW b \in Nat, a <= b + 1
    PROVE  /\ OldestFirst(a..b) \in Seq(1..b) /\ Len(OldestFirst(a..b)) = b + 1 - a
           /\ \A i \in 1..(b + 1 - a) : OldestFirst(a..b)[i] = a - 1 + i
           /\ ToSet(OldestFirst(a..b)) = a..b /\ IsInjective(OldestFirst(a..b))
  <1> DEFINE n == b + 1 - a
             f == [i \in 1..n |-> a - 1 + i]
  <1>1. OldestFirst(a..b) = f  BY IntervalOldestFirst
  <1>2. n \in Nat /\ \A i \in 1..n : a - 1 + i \in 1..b /\ a - 1 + i \in a..b  OBVIOUS
  <1>3. f \in [1..n -> 1..b] /\ DOMAIN f = 1..n /\ \A i \in 1..n : f[i] = a - 1 + i
    BY <1>2
  <1>4. \A x \in a..b : x - (a - 1) \in 1..n /\ a - 1 + (x - (a - 1)) = x  OBVIOUS
  <1>5. \A i, j \in 1..n : a - 1 + i = a - 1 + j => i = j  BY <1>2
  <1> HIDE DEF f, n
  <1>6. f \in Seq(1..b) /\ Len(f) = n  BY <1>2, <1>3, IsASeq, LenProperties
  <1>7. ToSet(f) = a..b
    <2>1. \A x \in a..b : f[x - (a - 1)] = x /\ x - (a - 1) \in DOMAIN f  BY <1>3, <1>4
    <2>2. \A x \in ToSet(f) : x \in a..b  BY <1>2, <1>3 DEF ToSet
    <2> QED  BY <2>1, <2>2 DEF ToSet
  <1>8. IsInjective(f)  BY <1>3, <1>5 DEF IsInjective
  <1> QED  BY <1>1, <1>3, <1>6, <1>7, <1>8 DEF n

-----------------------------------------------------------------------------
(* What an event does to the list.                                         *)

(* Listener l hears docs, and the others nothing.                          *)
Hears(l, docs) ==
    /\ \A k \in Listeners \ {l} : listener'[k] = listener[k]
    /\ listener'[l].on = listener[l].on /\ listener'[l].after = listener[l].after
    /\ listener'[l].docs = docs
    /\ listener'[l].synced = TRUE \/ listener'[l].synced = listener[l].synced

(* An older page arrives: the list grows by a window at its end.           *)
LEMMA PageArrives ==
    ASSUME Types, NEW t \in 0..newest, Shape(t), CacheOK(t)', cause \subseteq cause',
           NEW l \in Loads, listener[l].on, listener[l].docs = {}, NEW docs,
           docs = Window(listener[l].after - 1), docs # {}, Hears(l, docs),
           list' = list \o NewestFirst(docs), lastVisible' = Oldest(docs),
           isFirstPageFirstLoad' = isFirstPageFirstLoad
    PROVE  Shape(t)'
  <1> DEFINE a == listener[l].after
             lo == Low(a - 1)
             page == NewestFirst(docs)
  <1>1. /\ ~isFirstPageFirstLoad /\ Loaded(t) /\ l # 0 /\ 0 \notin Loads
        /\ "skipped" \notin cause' => Convex
        /\ "overlap" \notin cause' => Orderly
        /\ cause' = {} => Countdown(t) /\ Orderly
    BY DEF Shape, Types, Unloaded, Loads
  <1>2. /\ a \in ToSet(list) /\ (listener[l].synced => docs = {})
        /\ listener[0].docs = Window(t) /\ t # 0
        /\ list \in Seq(1..t) /\ t \in ToSet(list) /\ lastVisible \in ToSet(list)
    BY <1>1 DEF Loaded, PagesOK
  <1>3. /\ ToSet(list) \subseteq 1..t /\ Len(list) \in Nat
        /\ DOMAIN list = 1..Len(list)
    BY <1>2, ToSetMembers
  <1>4. a \in 1..t /\ a - 1 \in Nat  BY <1>2, <1>3
  <1>5. /\ docs = lo..(a - 1) /\ a - 1 # 0
        /\ lo \in 1..(a - 1) /\ lo \in Nat \ {0}
    BY <1>4, WindowInterval
  <1> HIDE DEF lo, a
  <1>6. lastVisible' = lo  BY <1>4, <1>5, OldestOfInterval
  <1>7. lo <= (a - 1) + 1 /\ (a - 1) + 1 - lo = a - lo /\ a - lo \in Nat
    BY <1>4, <1>5
  <1>8. /\ page \in Seq(1..(a - 1)) /\ Len(page) = a - lo
        /\ \A i \in 1..(a - lo) : page[i] = a - i
        /\ ToSet(page) = docs /\ IsInjective(page)
    <2>1. /\ page \in Seq(1..(a - 1)) /\ Len(page) = (a - 1) + 1 - lo
          /\ \A i \in 1..((a - 1) + 1 - lo) : page[i] = (a - 1) + 1 - i
          /\ ToSet(page) = docs /\ IsInjective(page)
      BY <1>4, <1>5, <1>7, NewestFirstList
    <2>2. \A i \in 1..(a - lo) : (a - 1) + 1 - i = a - i  BY <1>4, <1>5
    <2> QED  BY <1>7, <2>1, <2>2
  <1>9. page \in Seq(1..t)
    <2>1. 1..(a - 1) \subseteq 1..t  BY <1>4
    <2> QED  BY <1>8, <2>1, SeqMonotonic
  <1> HIDE DEF page
  <1>10. /\ list' \in Seq(1..t) /\ Len(list') = Len(list) + Len(page)
         /\ DOMAIN list' = 1..(Len(list) + Len(page))
         /\ ToSet(list') = ToSet(list) \cup docs
    BY <1>2, <1>8, <1>9, ConcatLists, LenProperties DEF page
  <1>11. PagesOK'
    <2>1. ASSUME NEW k \in Loads, listener'[k].on
          PROVE  /\ listener'[k].after \in ToSet(list')
                 /\ listener'[k].docs \in {{}, Window(listener'[k].after - 1)}
                 /\ listener'[k].synced => listener'[k].docs = Window(listener'[k].after - 1)
      <3>1. CASE k = l
        BY <1>2, <1>10, <3>1 DEF Hears, a
      <3>2. CASE k # l
        <4>1. listener'[k] = listener[k]  BY <3>2 DEF Hears, Listeners
        <4> QED  BY <1>1, <1>10, <2>1, <4>1 DEF Loaded, PagesOK
      <3> QED  BY <3>1, <3>2
    <2> QED  BY <2>1 DEF PagesOK
  <1>12. Loaded(t)'
    <2>1. listener'[0] = listener[0]  BY <1>1 DEF Hears, Listeners
    <2>2. lastVisible' \in ToSet(list')
      <3>1. lo \in docs  BY <1>4, <1>5
      <3> QED  BY <1>6, <1>10, <3>1
    <2> QED  BY <1>2, <1>10, <1>11, <2>1, <2>2 DEF Loaded
  <1>13. ASSUME "skipped" \notin cause'  PROVE Convex'
    <2>1. ASSUME NEW p \in ToSet(list'), NEW q \in ToSet(list'), NEW r \in p..q
          PROVE  r \in ToSet(list')
      <3>1. p \in 1..t /\ q \in 1..t /\ r \in 1..t  BY <1>3, <1>4, <1>5, <1>10
      <3>2. CASE r < a
        <4>1. p \in docs => r \in docs  BY <1>4, <1>5, <3>1, <3>2
        <4>2. p \in ToSet(list) => r \in ToSet(list)
          <5>1. r \in p..a  BY <1>4, <3>1, <3>2
          <5> QED  BY <1>1, <1>2, <1>13, <5>1 DEF Convex
        <4> QED  BY <1>10, <4>1, <4>2
      <3>3. CASE ~(r < a)
        <4>1. q \notin docs  BY <1>4, <1>5, <3>1, <3>3
        <4>2. r \in a..q  BY <1>4, <3>1, <3>3
        <4> QED  BY <1>1, <1>2, <1>10, <1>13, <4>1, <4>2 DEF Convex
      <3> QED  BY <3>2, <3>3
    <2> QED  BY <2>1 DEF Convex
  <1>14. ASSUME "overlap" \notin cause'
         PROVE  a = lastVisible /\ \A k \in Loads : Asked(k) => k = l
    <2>1. Asked(l)  BY <1>2 DEF Asked, Types, Records, Listeners
    <2> QED  BY <1>1, <1>14, <2>1 DEF Orderly, a
  <1>15. ASSUME "overlap" \notin cause'  PROVE Orderly'
    <2>1. \A p \in ToSet(list) : p >= a  BY <1>1, <1>14, <1>15 DEF Orderly
    <2>2. ToSet(list) \cap docs = {}
      <3>1. \A p \in docs : ~(p >= a)  BY <1>4, <1>5
      <3> QED  BY <2>1, <3>1
    <2>3. IsInjective(list')
      BY <1>1, <1>2, <1>8, <1>9, <1>15, <2>2, ConcatInjective DEF Orderly, page
    <2>4. \A p \in ToSet(list') : p >= lastVisible'
      <3>1. ASSUME NEW p \in ToSet(list)  PROVE p >= lo
        BY <1>3, <1>4, <1>5, <2>1
      <3>2. \A p \in docs : p >= lo  BY <1>4, <1>5
      <3> QED  BY <1>6, <1>10, <3>1, <3>2
    <2>5. ASSUME NEW k \in Loads  PROVE ~(Asked(k)')
      <3>1. CASE k = l  BY <3>1 DEF Hears, Asked
      <3>2. CASE k # l
        <4>1. listener'[k] = listener[k]  BY <3>2 DEF Hears, Listeners
        <4> QED  BY <1>14, <1>15, <3>2, <4>1 DEF Asked
      <3> QED  BY <3>1, <3>2
    <2> QED  BY <2>3, <2>4, <2>5 DEF Orderly
  <1>16. ASSUME cause' = {}  PROVE Countdown(t)'
    <2>1. a = lastVisible  BY <1>14, <1>16
    <2>2. Len(list) = t + 1 - a /\ \A i \in 1..Len(list) : list[i] = t + 1 - i
      BY <1>1, <1>3, <1>16, <2>1 DEF Countdown
    <2>3. Len(list') = t + 1 - lo  BY <1>4, <1>5, <1>8, <1>10, <2>2
    <2>4. ASSUME NEW i \in 1..(Len(list) + Len(page))  PROVE list'[i] = t + 1 - i
      <3>1. CASE i \in 1..Len(list)
        BY <1>2, <1>9, <2>2, <3>1, ConcatLists DEF page
      <3>2. CASE i \notin 1..Len(list)
        <4>1. i - Len(list) \in 1..Len(page) /\ list'[i] = page[i - Len(list)]
          BY <1>2, <1>9, <3>2, ConcatLists DEF page
        <4>2. list'[i] = a - (i - Len(list))  BY <1>8, <4>1
        <4>3. \A n, m, b, k \in Int : n = m + 1 - b => b - (k - n) = m + 1 - k  OBVIOUS
        <4>4. Len(list) \in Int /\ t \in Int /\ a \in Int /\ i \in Int /\ Len(page) \in Nat
          BY <1>3, <1>4, <1>7, <1>8
        <4>5. a - (i - Len(list)) = t + 1 - i  BY <2>2, <4>3, <4>4
        <4> QED  BY <4>2, <4>5
      <3> QED  BY <3>1, <3>2
    <2> QED  BY <1>6, <1>10, <2>3, <2>4 DEF Countdown
  <1> QED  BY <1>1, <1>12, <1>13, <1>15, <1>16 DEF Shape

(* A listener hears what changes nothing in the list.                      *)
LEMMA NothingNew ==
    ASSUME Types, NEW t \in 0..newest, Shape(t), CacheOK(t)', cause \subseteq cause',
           NEW l \in Listeners, NEW docs, Hears(l, docs),
           l # 0 => docs = Window(listener[l].after - 1),
           l = 0 => docs = listener[0].docs,
           listener[l].docs = docs, l \in Loads => listener[l].on,
           list' = list, lastVisible' = lastVisible,
           isFirstPageFirstLoad' = isFirstPageFirstLoad
    PROVE  Shape(t)'
  <1>1. 0 \notin Loads /\ 0 \in Listeners  BY DEF Loads, Listeners
  <1>2. listener'[0].docs = listener[0].docs  BY <1>1 DEF Hears
  <1>3. \A k \in Loads :
           /\ listener'[k].on = listener[k].on /\ listener'[k].after = listener[k].after
           /\ listener'[k].docs = listener[k].docs
           /\ k # l => listener'[k] = listener[k]
           /\ listener'[k].synced = listener[k].synced \/ listener'[k].synced = TRUE
    BY DEF Hears, Listeners
  <1>4. \A k \in Loads : Asked(k)' => Asked(k)  BY <1>3 DEF Asked
  <1>5. isFirstPageFirstLoad' => Unloaded'  BY <1>1, <1>2, <1>3 DEF Shape, Unloaded
  <1>6. ASSUME ~isFirstPageFirstLoad'
        PROVE  /\ Loaded(t)'
               /\ "skipped" \notin cause' => Convex'
               /\ "overlap" \notin cause' => Orderly'
               /\ cause' = {} => Countdown(t)'
    <2>1. /\ Loaded(t) /\ ("skipped" \notin cause' => Convex)
          /\ "overlap" \notin cause' => Orderly
          /\ cause' = {} => Countdown(t)
      BY <1>6 DEF Shape
    <2>2. PagesOK'
      <3>1. ASSUME NEW k \in Loads, listener'[k].on
            PROVE  /\ listener'[k].after \in ToSet(list')
                   /\ listener'[k].docs \in {{}, Window(listener'[k].after - 1)}
                   /\ listener'[k].synced => listener'[k].docs = Window(listener'[k].after - 1)
        <4>1. /\ listener[k].after \in ToSet(list)
              /\ listener[k].docs \in {{}, Window(listener[k].after - 1)}
              /\ listener[k].synced => listener[k].docs = Window(listener[k].after - 1)
          BY <1>3, <2>1, <3>1 DEF Loaded, PagesOK
        <4>2. k = l => listener[k].docs = Window(listener[k].after - 1)  BY <1>1
        <4> QED  BY <1>3, <4>1, <4>2
      <3> QED  BY <3>1 DEF PagesOK
    <2>3. Loaded(t)'  BY <1>2, <2>1, <2>2 DEF Loaded
    <2>4. Convex => Convex'  BY DEF Convex
    <2>5. Orderly => Orderly'  BY <1>3, <1>4 DEF Orderly
    <2>6. Countdown(t) => Countdown(t)'  BY DEF Countdown
    <2> QED  BY <2>1, <2>3, <2>4, <2>5, <2>6
  <1> QED  BY <1>5, <1>6 DEF Shape

(* The first posts arrive.                                                 *)
LEMMA FirstPostsArrive ==
    ASSUME NEW u \in Nat \ {0}, Unloaded, CacheOK(u)', NEW docs, docs = Window(u),
           Hears(0, docs), list' = NewestFirst(docs), lastVisible' = Oldest(docs),
           isFirstPageFirstLoad' = FALSE
    PROVE  Shape(u)'
  <1> DEFINE lo == Low(u)
  <1>1. docs = lo..u /\ lo \in 1..u /\ lo \in Nat \ {0} /\ lo <= u + 1
    BY WindowInterval
  <1>2. listener'[0].docs = docs /\ \A k \in Loads : ~listener'[k].on
    BY DEF Hears, Unloaded, Loads, Listeners
  <1> HIDE DEF lo
  <1>3. lastVisible' = lo  BY <1>1, OldestOfInterval
  <1>4. /\ list' \in Seq(1..u) /\ Len(list') = u + 1 - lo
        /\ \A i \in 1..(u + 1 - lo) : list'[i] = u + 1 - i
        /\ ToSet(list') = docs /\ IsInjective(list')
    <2> DEFINE page == NewestFirst(lo..u)
    <2>1. /\ page \in Seq(1..u) /\ Len(page) = u + 1 - lo
          /\ \A i \in 1..(u + 1 - lo) : page[i] = u + 1 - i
          /\ ToSet(page) = lo..u /\ IsInjective(page)
      BY <1>1, NewestFirstList
    <2>2. list' = page  BY <1>1
    <2> HIDE DEF page
    <2> QED  BY <1>1, <2>1, <2>2
  <1>5. lo \in docs /\ u \in docs /\ \A p \in docs : p >= lo  BY <1>1
  <1>6. DOMAIN list' = 1..(u + 1 - lo)  BY <1>4, LenProperties
  <1>7. Loaded(u)'  BY <1>2, <1>3, <1>4, <1>5 DEF Loaded, PagesOK
  <1>8. Convex'
    <2>1. \A p, q \in lo..u : p..q \subseteq lo..u  BY <1>1
    <2> QED  BY <1>1, <1>4, <2>1 DEF Convex
  <1>9. Orderly'  BY <1>2, <1>3, <1>4, <1>5 DEF Orderly, Asked
  <1>10. Countdown(u)'  BY <1>3, <1>4, <1>6 DEF Countdown
  <1> QED  BY <1>7, <1>8, <1>9, <1>10 DEF Shape

(* New posts arrive: the list grows by a window at its front.              *)
LEMMA NewPostsArrive ==
    ASSUME Types, NEW t \in 0..newest, NEW u \in Nat, t < u, Shape(t), CacheOK(u)',
           ~isFirstPageFirstLoad, NEW docs, docs = Window(u), Hears(0, docs),
           list' = OldestFirst(docs \ listener[0].docs) \o list,
           lastVisible' = lastVisible, isFirstPageFirstLoad' = FALSE,
           cause' = cause \cup EventCause(0, docs)
    PROVE  Shape(u)'
  <1> DEFINE lo == Low(u)
             a == IF lo > t + 1 THEN lo ELSE t + 1
             added == a..u
             new == OldestFirst(added)
  <1>1. /\ Loaded(t) /\ 0 \notin Loads
        /\ "skipped" \notin cause' => Convex
        /\ "overlap" \notin cause' => Orderly
        /\ cause' = {} => Countdown(t) /\ Orderly
    BY DEF Shape, Loads
  <1>2. /\ listener[0].docs = Window(t) /\ t # 0 /\ t \in Nat
        /\ list \in Seq(1..t) /\ t \in ToSet(list) /\ lastVisible \in ToSet(list)
    BY <1>1 DEF Loaded, Types
  <1>3. /\ ToSet(list) \subseteq 1..t /\ Len(list) \in Nat
        /\ DOMAIN list = 1..Len(list)
    BY <1>2, ToSetMembers
  <1>4. docs = lo..u /\ lo \in 1..u /\ lo \in Nat \ {0}  BY <1>2, WindowInterval
  <1>5. Window(t) = Low(t)..t /\ Low(t) \in 1..t /\ Low(t) <= lo
    <2>1. Low(t) <= Low(u)  BY <1>2, FeedAssumption DEF Low
    <2> QED  BY <1>2, <2>1, WindowInterval
  <1> HIDE DEF lo
  <1>6. docs \ listener[0].docs = added
    <2>1. ASSUME NEW p  PROVE p \in lo..u /\ p \notin Low(t)..t <=> p \in a..u
      BY <1>2, <1>4, <1>5
    <2> QED  BY <1>2, <1>4, <1>5, <2>1
  <1>7. a \in Nat \ {0} /\ a <= u /\ a > t /\ a <= u + 1  BY <1>2, <1>4
  <1> HIDE DEF a
  <1>8. /\ new \in Seq(1..u) /\ Len(new) = u + 1 - a
        /\ \A i \in 1..(u + 1 - a) : new[i] = a - 1 + i
        /\ ToSet(new) = added /\ IsInjective(new)
    BY <1>7, OldestFirstList
  <1>9. list \in Seq(1..u)
    <2>1. 1..t \subseteq 1..u  BY <1>2
    <2> QED  BY <1>2, <2>1, SeqMonotonic
  <1>10. list' = new \o list  BY <1>6
  <1>11. u \in added /\ \A p \in added : p > t  BY <1>2, <1>7
  <1> HIDE DEF new, added
  <1>12. /\ list' \in Seq(1..u) /\ Len(list') = Len(new) + Len(list)
         /\ DOMAIN list' = 1..(Len(new) + Len(list))
         /\ ToSet(list') = added \cup ToSet(list)
    <2>1. /\ new \o list \in Seq(1..u) /\ Len(new \o list) = Len(new) + Len(list)
          /\ ToSet(new \o list) = ToSet(new) \cup ToSet(list)
      BY <1>8, <1>9, ConcatLists
    <2>2. DOMAIN (new \o list) = 1..(Len(new) + Len(list))  BY <2>1, LenProperties
    <2> QED  BY <1>8, <1>10, <2>1, <2>2
  <1>20. /\ \A i \in 1..Len(new) : list'[i] = new[i]
         /\ \A i \in 1..(Len(new) + Len(list)) :
               \/ i \in 1..Len(new)
               \/ i - Len(new) \in 1..Len(list) /\ list'[i] = list[i - Len(new)]
    <2> DEFINE both == new \o list
    <2>1. /\ \A i \in 1..Len(new) : both[i] = new[i]
          /\ \A i \in 1..(Len(new) + Len(list)) :
                \/ i \in 1..Len(new)
                \/ i - Len(new) \in 1..Len(list) /\ both[i] = list[i - Len(new)]
      BY <1>8, <1>9, ConcatLists
    <2>2. list' = both  BY <1>10
    <2> HIDE DEF both
    <2> QED  BY <2>1, <2>2
  <1>21. u # 0 /\ u \in ToSet(list') /\ lastVisible \in ToSet(list')
    <2>1. u # 0  BY <1>2
    <2> QED  BY <1>2, <1>11, <1>12, <2>1
  <1>22. ToSet(list') \subseteq 1..u  BY <1>12, ToSetMembers
  <1>13. listener'[0].docs = docs /\ \A k \in Loads : listener'[k] = listener[k]
    BY <1>1 DEF Hears, Loads, Listeners
  <1>14. PagesOK'
    <2>1. PagesOK  BY <1>1 DEF Loaded
    <2> QED  BY <1>12, <1>13, <2>1 DEF PagesOK
  <1>15. Loaded(u)'  BY <1>12, <1>13, <1>14, <1>21 DEF Loaded
  <1>16. ASSUME "skipped" \notin cause'  PROVE a = t + 1
    <2>1. ~(\E p \in 1..(Oldest(docs) - 1) : \A q \in listener[0].docs : p > q)
      BY <1>16 DEF EventCause
    <2>2. Oldest(docs) = lo  BY <1>2, <1>4, OldestOfInterval
    <2>3. ASSUME lo > t + 1  PROVE FALSE
      <3>1. t + 1 \in 1..(lo - 1)  BY <1>2, <1>4, <2>3
      <3>2. \A q \in Low(t)..t : t + 1 > q  BY <1>2, <1>5
      <3> QED  BY <1>2, <1>5, <2>1, <2>2, <3>1, <3>2
    <2> QED  BY <2>3 DEF a
  <1>17. ASSUME "skipped" \notin cause'  PROVE Convex'
    <2>1. ASSUME NEW p \in ToSet(list'), NEW q \in ToSet(list'), NEW r \in p..q
          PROVE  r \in ToSet(list')
      <3>1. p \in 1..u /\ q \in 1..u /\ r \in 1..u
        <4>1. p \in 1..u /\ q \in 1..u  BY <1>22
        <4> QED  BY <4>1
      <3>2. CASE r > t
        <4>1. r \in a..u  BY <1>2, <1>16, <1>17, <3>1, <3>2
        <4> QED  BY <1>12, <4>1 DEF added
      <3>3. CASE ~(r > t)
        <4>1. p \in ToSet(list)
          <5>1. ~(p > t)  BY <1>2, <3>1, <3>3
          <5> QED  BY <1>11, <1>12, <5>1
        <4>2. r \in p..t  BY <1>2, <3>1, <3>3
        <4> QED  BY <1>1, <1>2, <1>12, <1>17, <4>1, <4>2 DEF Convex
      <3> QED  BY <3>2, <3>3
    <2> QED  BY <2>1 DEF Convex
  <1>18. ASSUME "overlap" \notin cause'  PROVE Orderly'
    <2>1. Orderly  BY <1>1, <1>18
    <2>2. ToSet(new) \cap ToSet(list) = {}
      <3>1. \A p \in ToSet(list) : ~(p > t)  BY <1>2, <1>3
      <3> QED  BY <1>8, <1>11, <3>1
    <2>3. IsInjective(list')
      BY <1>8, <1>9, <1>10, <2>1, <2>2, ConcatInjective DEF Orderly
    <2>4. \A p \in ToSet(list') : p >= lastVisible'
      <3>1. lastVisible \in 1..t  BY <1>2, <1>3
      <3>2. ASSUME NEW p \in added  PROVE p >= lastVisible
        <4>1. p \in Nat /\ p > t  BY <1>7, <1>11 DEF added
        <4> QED  BY <1>2, <3>1, <4>1
      <3> QED  BY <1>12, <2>1, <3>2 DEF Orderly
    <2> QED  BY <1>13, <2>1, <2>3, <2>4 DEF Orderly, Asked
  <1>19. ASSUME cause' = {}  PROVE Countdown(u)'
    <2>1. a = t + 1  BY <1>16, <1>19
    <2>2. ~(Cardinality(docs \ listener[0].docs) > 1)  BY <1>19 DEF EventCause
    <2>3. Cardinality(added) = u + 1 - a
      BY <1>7, IntervalSize DEF added
    <2>4. u = t + 1 /\ u = a
      <3>1. ~(u + 1 - a > 1)  BY <1>6, <2>2, <2>3
      <3> QED  BY <1>2, <1>7, <2>1, <3>1
    <2>5. Len(new) = 1 /\ new[1] = u  BY <1>2, <1>7, <1>8, <2>4
    <2>6. /\ Len(list) = t + 1 - lastVisible
          /\ \A i \in 1..Len(list) : list[i] = t + 1 - i
      BY <1>1, <1>3, <1>19 DEF Countdown
    <2>7. lastVisible \in 1..t  BY <1>2, <1>3
    <2>8. Len(list') = u + 1 - lastVisible  BY <1>2, <1>12, <2>4, <2>5, <2>6, <2>7
    <2>9. ASSUME NEW i \in 1..(Len(new) + Len(list))  PROVE list'[i] = u + 1 - i
      <3>1. CASE i = 1
        <4>1. list'[1] = new[1]  
          <5>1. 1 \in 1..Len(new)  BY <2>5
          <5> QED  BY <1>20, <5>1
        <4>2. u + 1 - 1 = u  OBVIOUS
        <4> QED  BY <2>5, <3>1, <4>1, <4>2
      <3>2. CASE i # 1
        <4>1. i \notin 1..Len(new)  BY <2>5, <3>2
        <4>2. i - 1 \in 1..Len(list) /\ list'[i] = list[i - 1]
          BY <1>20, <2>5, <4>1
        <4>3. list'[i] = t + 1 - (i - 1)  BY <2>6, <4>2
        <4>4. t + 1 - (i - 1) = u + 1 - i  BY <1>2, <1>3, <2>4, <2>5
        <4> QED  BY <4>3, <4>4
      <3> QED  BY <3>1, <3>2
    <2> QED  BY <1>12, <2>8, <2>9 DEF Countdown
  <1> QED  BY <1>15, <1>17, <1>18, <1>19 DEF Shape

-----------------------------------------------------------------------------
(* The actions.                                                            *)

(* What an event leaves in the anchor.                                     *)
LEMMA EventTypes ==
    ASSUME Types, NEW l \in Listeners, NEW docs, docs \subseteq 1..newest, Event(l, docs)
    PROVE  lastVisible' \in 0..newest /\ isFirstPageFirstLoad' \in BOOLEAN
  <1>1. docs # {} => Oldest(docs) \in 0..newest
    <2>1. docs \subseteq Nat
      <3>1. 1..newest \subseteq Nat  OBVIOUS
      <3> QED  BY <3>1
    <2>2. docs # {} => Oldest(docs) \in docs  BY <2>1, OldestIn
    <2>3. 1..newest \subseteq 0..newest  OBVIOUS
    <2> QED  BY <2>2, <2>3
  <1> HIDE DEF Oldest
  <1>2. lastVisible' \in {lastVisible, Oldest(docs)} /\ (docs = {} => lastVisible' = lastVisible)
    BY DEF Event, FirstPageEvent, PageEvent
  <1>3. isFirstPageFirstLoad' \in {isFirstPageFirstLoad, FALSE}
    BY DEF Event, FirstPageEvent, PageEvent
  <1> QED  BY <1>1, <1>2, <1>3 DEF Types

(* What a listener that hears docs becomes.                                *)
LEMMA ListenerHears ==
    ASSUME Types, NEW l \in Listeners, NEW docs, docs \subseteq Posts,
           \/ listener' = [listener EXCEPT ![l].docs = docs]
           \/ listener' = [listener EXCEPT ![l].docs = docs, ![l].synced = TRUE]
    PROVE  /\ Hears(l, docs)
           /\ listener' \in [Listeners -> Records] /\ listener'[0].after = FirstPage
  <1>1. listener[l] \in Records /\ 0 \in Listeners  BY DEF Types, Listeners
  <1>2. PICK r : /\ listener' = [listener EXCEPT ![l] = r]
                 /\ \/ r = [listener[l] EXCEPT !.docs = docs]
                    \/ r = [listener[l] EXCEPT !.docs = docs, !.synced = TRUE]
    <2>1. CASE listener' = [listener EXCEPT ![l].docs = docs]
      <3>1. listener' = [listener EXCEPT ![l] = [listener[l] EXCEPT !.docs = docs]]
        BY <2>1
      <3> QED  BY <3>1
    <2>2. CASE listener' = [listener EXCEPT ![l].docs = docs, ![l].synced = TRUE]
      <3>1. listener' = [listener EXCEPT ![l] = [listener[l] EXCEPT !.docs = docs, !.synced = TRUE]]
        BY <2>2, <1>1 DEF Types
      <3> QED  BY <3>1
    <2> QED  BY <2>1, <2>2
  <1>3. /\ r \in Records /\ r.on = listener[l].on /\ r.after = listener[l].after
        /\ r.docs = docs /\ (r.synced = TRUE \/ r.synced = listener[l].synced)
    BY <1>1, <1>2 DEF Records
  <1>4. /\ listener' \in [Listeners -> Records] /\ listener'[l] = r
        /\ \A k \in Listeners \ {l} : listener'[k] = listener[k]
    BY <1>2, <1>3 DEF Types
  <1>5. listener'[0].after = FirstPage  BY <1>1, <1>3, <1>4 DEF Types
  <1> QED  BY <1>3, <1>4, <1>5 DEF Hears

(* A page's query, when nothing is partial.                                *)
LEMMA PageHeard ==
    ASSUME Types, NEW t \in 0..newest, Shape(t), NEW l \in Loads, listener[l].on
    PROVE  /\ ~isFirstPageFirstLoad /\ l # 0 /\ l \in Listeners
           /\ listener[l].after \in 1..t /\ t \in Nat /\ newest \in Nat
           /\ Query(listener[l].after, 1..newest) = Window(listener[l].after - 1)
           /\ Window(listener[l].after - 1) \subseteq 1..t
           /\ listener[l].docs \in {{}, Window(listener[l].after - 1)}
  <1>1. ~isFirstPageFirstLoad /\ l # 0 /\ l \in Listeners
    BY DEF Shape, Unloaded, Loads, Listeners
  <1>2. /\ listener[l].after \in ToSet(list) /\ list \in Seq(1..t)
        /\ listener[l].docs \in {{}, Window(listener[l].after - 1)}
    BY <1>1 DEF Shape, Loaded, PagesOK
  <1> DEFINE a == listener[l].after
  <1>3. a \in 1..t  BY <1>2, ToSetMembers
  <1>4. t \in Nat /\ newest \in Nat /\ t <= newest  BY FeedAssumption DEF Types
  <1> HIDE DEF a
  <1>5. a \in 1..newest /\ a - 1 \in Nat  BY <1>3, <1>4
  <1>6. Query(a, 1..newest) = Window(a - 1)  BY <1>4, <1>5, PageQuery
  <1>7. Window(a - 1) \subseteq 1..t
    <2>1. 1..(a - 1) \subseteq 1..t  BY <1>3, <1>4
    <2> QED  BY <2>1 DEF Window
  <1> QED  BY <1>1, <1>2, <1>3, <1>4, <1>6, <1>7 DEF a

(* A snapshot from the cache, of the first page or of a further one.       *)
LEMMA CacheSnapshotHolds ==
    ASSUME IInv, NEW l \in Listeners, CacheSnapshot(l)
    PROVE  IInv'
  <1> DEFINE docs == Query(listener[l].after, cached)
  <1>1. /\ listener[l].on /\ docs # {} /\ docs # listener[l].docs /\ Event(l, docs)
        /\ listener' = [listener EXCEPT ![l].docs = docs]
        /\ newest' = newest /\ cached' = cached
    BY DEF CacheSnapshot
  <1>2. docs \subseteq 1..newest /\ docs \subseteq Posts
    <2>1. docs \subseteq cached  BY DEF Query
    <2>2. 1..newest \subseteq Posts  BY FeedAssumption DEF IInv, Types, Posts
    <2> QED  BY <2>1, <2>2 DEF IInv, Types
  <1> HIDE DEF docs
  <1>3. /\ Hears(l, docs)
        /\ listener' \in [Listeners -> Records] /\ listener'[0].after = FirstPage
    BY <1>1, <1>2, ListenerHears DEF IInv
  <1>4. Types'  BY <1>1, <1>2, <1>3, EventTypes DEF IInv, Types
  <1>5. cause' = cause \cup EventCause(l, docs)  BY <1>1 DEF Event
  <1>6. ASSUME "partial" \notin cause'  PROVE \E t \in 0..newest : Shape(t)'
    <2>1. PICK t \in 0..newest : Shape(t)  BY <1>5, <1>6 DEF IInv
    <2>2. CacheOK(t)'  BY <1>1, <2>1 DEF Shape, CacheOK
    <2>3. CASE l = 0
      <3>1. docs = Window(t)
        <4>1. t \in 0..MaxPosts  BY <2>1, FeedAssumption DEF IInv, Types
        <4> QED  BY <2>1, <2>3, <4>1, CacheQuery DEF docs, IInv, Types, Shape, CacheOK
      <3>2. isFirstPageFirstLoad /\ Unloaded
        BY <1>1, <2>1, <2>3, <3>1 DEF Shape, Loaded
      <3>3. docs \ listener[l].docs = docs  BY <2>3, <3>2 DEF Unloaded
      <3>4. /\ list' = NewestFirst(docs) /\ lastVisible' = Oldest(docs)
            /\ isFirstPageFirstLoad' = FALSE
        BY <1>1, <2>3, <3>2, <3>3 DEF Event, FirstPageEvent
      <3>5. t \in Nat \ {0}
        <4>1. t \in Nat  BY <2>1 DEF IInv, Types
        <4> QED  BY <1>1, <3>1, <4>1, WindowInterval
      <3> QED  BY <1>3, <2>1, <2>2, <2>3, <3>1, <3>2, <3>4, <3>5, FirstPostsArrive
    <2>4. CASE l # 0
      <3>1. l \in Loads  BY <2>4 DEF Listeners
      <3>2. /\ docs = Query(listener[l].after, 1..newest)
        BY <1>5, <1>6, <2>4 DEF EventCause
      <3>3. docs = Window(listener[l].after - 1) /\ listener[l].docs = {}
        BY <1>1, <2>1, <3>1, <3>2, PageHeard DEF IInv
      <3>4. docs \ listener[l].docs = docs  BY <3>3
      <3>5. /\ list' = list \o NewestFirst(docs) /\ lastVisible' = Oldest(docs)
            /\ isFirstPageFirstLoad' = isFirstPageFirstLoad
        BY <1>1, <2>4, <3>4 DEF Event, PageEvent
      <3> QED
        BY <1>1, <1>3, <1>5, <2>1, <2>2, <3>1, <3>3, <3>5, PageArrives DEF IInv
    <2> QED  BY <2>3, <2>4
  <1> QED  BY <1>1, <1>4, <1>6 DEF IInv

(* A snapshot from the server, which also completes the cache.             *)
LEMMA ServerSnapshotHolds ==
    ASSUME IInv, NEW l \in Listeners, ServerSnapshot(l)
    PROVE  IInv'
  <1> DEFINE docs == Query(listener[l].after, 1..newest)
  <1>1. /\ listener[l].on
        /\ IF docs = listener[l].docs /\ docs # {}
           THEN UNCHANGED <<list, lastVisible, isFirstPageFirstLoad, cause>>
           ELSE Event(l, docs)
        /\ listener' = [listener EXCEPT ![l].docs = docs, ![l].synced = TRUE]
        /\ newest' = newest /\ cached' = cached \cup docs
    BY DEF ServerSnapshot
  <1>2. docs \subseteq 1..newest /\ docs \subseteq Posts
    <2>1. docs \subseteq 1..newest  BY DEF Query
    <2>2. 1..newest \subseteq Posts  BY FeedAssumption DEF IInv, Types, Posts
    <2> QED  BY <2>1, <2>2
  <1> HIDE DEF docs
  <1>3. /\ Hears(l, docs)
        /\ listener' \in [Listeners -> Records] /\ listener'[0].after = FirstPage
    BY <1>1, <1>2, ListenerHears DEF IInv
  <1>4. Types'
    <2>1. lastVisible' \in 0..newest /\ isFirstPageFirstLoad' \in BOOLEAN
      BY <1>1, <1>2, EventTypes DEF IInv, Types
    <2> QED  BY <1>1, <1>2, <1>3, <2>1 DEF IInv, Types
  <1>5. cause \subseteq cause'  BY <1>1 DEF Event
  <1>6. ASSUME "partial" \notin cause'  PROVE \E t \in 0..newest : Shape(t)'
    <2>1. PICK t \in 0..newest : Shape(t)  BY <1>5, <1>6 DEF IInv
    <2>2. newest \in Nat /\ newest \in 0..newest /\ t \in Nat /\ t <= newest
      BY <2>1, FeedAssumption DEF IInv, Types
    <2>3. CASE l = 0
      <3>1. docs = Window(newest)
        BY <2>3, FirstPageQuery DEF docs, IInv, Types
      <3>6. PICK u \in 0..newest : u = newest /\ u \in Nat  BY <2>2
      <3>2. CacheOK(u)'
        <4>1. cached' \subseteq 1..u /\ Window(u) \subseteq cached'
          BY <1>1, <1>2, <3>1, <3>6 DEF IInv, Types
        <4> QED  BY <4>1 DEF CacheOK
      <3>3. CASE isFirstPageFirstLoad /\ docs = {}
        <4>1. /\ Unloaded /\ list' = list
              /\ isFirstPageFirstLoad' = isFirstPageFirstLoad
          BY <1>1, <2>1, <2>3, <3>3 DEF Shape, Event, FirstPageEvent
        <4>2. listener'[0].docs = {} /\ \A k \in Loads : listener'[k] = listener[k]
          BY <1>3, <2>3, <3>3 DEF Hears, Loads, Listeners
        <4>3. Unloaded'  BY <4>1, <4>2 DEF Unloaded
        <4>4. Shape(u)'  BY <3>2, <3>3, <4>1, <4>3 DEF Shape
        <4> QED  BY <4>4
      <3>4. CASE isFirstPageFirstLoad /\ docs # {}
        <4>1. Unloaded /\ listener[l].docs = {}  BY <2>1, <2>3, <3>4 DEF Shape, Unloaded
        <4>2. docs \ listener[l].docs = docs  BY <4>1
        <4>3. /\ list' = NewestFirst(docs) /\ lastVisible' = Oldest(docs)
              /\ isFirstPageFirstLoad' = FALSE
          BY <1>1, <2>3, <3>4, <4>1, <4>2 DEF Event, FirstPageEvent
        <4>4. u \in Nat \ {0}  BY <3>1, <3>4, <3>6, WindowInterval
        <4>5. Shape(u)'
          BY <1>3, <2>3, <3>1, <3>2, <3>6, <4>1, <4>3, <4>4, FirstPostsArrive
        <4> QED  BY <4>5
      <3>5. CASE ~isFirstPageFirstLoad
        <4>1. Loaded(t) /\ listener[l].docs = Window(t) /\ t # 0
          BY <2>1, <2>3, <3>5 DEF Shape, Loaded
        <4>2. CASE newest = t
          <5>1. docs = listener[l].docs /\ docs # {}
            BY <2>2, <3>1, <4>1, <4>2, WindowInterval
          <5>2. /\ list' = list /\ lastVisible' = lastVisible
                /\ isFirstPageFirstLoad' = isFirstPageFirstLoad
            BY <1>1, <5>1
          <5>3. CacheOK(t)'  BY <3>2, <3>6, <4>2
          <5>4. l \notin Loads  BY <2>3 DEF Loads
          <5>5. Shape(t)'
            BY <1>3, <1>5, <2>1, <2>3, <5>1, <5>2, <5>3, <5>4, NothingNew DEF IInv
          <5> QED  BY <2>1, <5>5
        <4>3. CASE newest # t
          <5>2. t < u /\ u # 0  BY <2>2, <3>6, <4>1, <4>3
          <5>3. docs = Window(u) /\ docs # {} /\ docs # listener[l].docs
            <6>1. u \in Window(u)  BY <3>6, <5>2, WindowInterval
            <6>2. u \notin Window(t)  BY <2>2, <3>6, <5>2 DEF Window
            <6> QED  BY <3>1, <3>6, <4>1, <6>1, <6>2
          <5>4. /\ list' = OldestFirst(docs \ listener[0].docs) \o list
                /\ lastVisible' = lastVisible /\ isFirstPageFirstLoad' = FALSE
                /\ cause' = cause \cup EventCause(0, docs)
            BY <1>1, <2>3, <3>5, <5>3 DEF Event, FirstPageEvent
          <5>5. Shape(u)'
            BY <1>3, <2>1, <2>3, <3>2, <3>5, <3>6, <5>2, <5>3, <5>4, NewPostsArrive DEF IInv
          <5> QED  BY <5>5
        <4> QED  BY <4>2, <4>3
      <3> QED  BY <3>3, <3>4, <3>5
    <2>4. CASE l # 0
      <3>1. l \in Loads  BY <2>4 DEF Listeners
      <3>2. /\ docs = Window(listener[l].after - 1) /\ docs \subseteq 1..t
            /\ listener[l].docs \in {{}, docs}
        BY <1>1, <2>1, <3>1, PageHeard DEF IInv, docs
      <3>3. CacheOK(t)'  BY <1>1, <2>1, <3>2 DEF Shape, CacheOK
      <3>4. CASE docs = listener[l].docs
        <4>1. /\ list' = list /\ lastVisible' = lastVisible
              /\ isFirstPageFirstLoad' = isFirstPageFirstLoad
          BY <1>1, <2>4, <3>4 DEF Event, PageEvent
        <4>2. Shape(t)'
          BY <1>1, <1>3, <1>5, <2>1, <2>4, <3>2, <3>3, <3>4, <4>1, NothingNew DEF IInv
        <4> QED  BY <2>1, <4>2
      <3>5. CASE docs # listener[l].docs
        <4>1. listener[l].docs = {} /\ docs # {} /\ docs \ listener[l].docs = docs
          BY <3>2, <3>5
        <4>2. /\ list' = list \o NewestFirst(docs) /\ lastVisible' = Oldest(docs)
              /\ isFirstPageFirstLoad' = isFirstPageFirstLoad
          BY <1>1, <2>4, <3>5, <4>1 DEF Event, PageEvent
        <4>3. Shape(t)'
          BY <1>1, <1>3, <1>5, <2>1, <3>1, <3>2, <3>3, <4>1, <4>2, PageArrives DEF IInv
        <4> QED  BY <2>1, <4>3
      <3> QED  BY <3>4, <3>5
    <2> QED  BY <2>3, <2>4
  <1> QED  BY <1>1, <1>4, <1>6 DEF IInv

(* All listeners are removed, and nothing else changes.                    *)
LEMMA Silenced ==
    ASSUME IInv, listener' = [k \in Listeners |-> [listener[k] EXCEPT !.on = FALSE]],
           UNCHANGED <<newest, cached, list, lastVisible, isFirstPageFirstLoad, cause>>
    PROVE  IInv'
  <1>1. \A k \in Listeners :
           /\ listener'[k] \in Records /\ listener'[k].on = FALSE
           /\ listener'[k].after = listener[k].after /\ listener'[k].docs = listener[k].docs
    <2>1. \A k \in Listeners : listener[k] \in Records  BY DEF IInv, Types
    <2> QED  BY <2>1 DEF Records
  <1>2. 0 \in Listeners /\ Loads \subseteq Listeners  BY DEF Listeners
  <1>3. Types'  BY <1>1, <1>2 DEF IInv, Types
  <1>4. ASSUME NEW t \in 0..newest, Shape(t)  PROVE Shape(t)'
    <2>1. CacheOK(t)'  BY <1>4 DEF Shape, CacheOK
    <2>2. isFirstPageFirstLoad' => Unloaded'
      BY <1>1, <1>2, <1>4 DEF Shape, Unloaded
    <2>3. Loaded(t) => Loaded(t)'  BY <1>1, <1>2 DEF Loaded, PagesOK
    <2>4. Convex => Convex'  BY DEF Convex
    <2>5. Orderly => Orderly'  BY <1>1, <1>2 DEF Orderly, Asked
    <2>6. Countdown(t) => Countdown(t)'  BY DEF Countdown
    <2> QED  BY <1>4, <2>1, <2>2, <2>3, <2>4, <2>5, <2>6 DEF Shape
  <1> QED  BY <1>3, <1>4 DEF IInv

(* The list is scrolled to its end: a page after lastVisible is asked for. *)
LEMMA ScrollHolds ==
    ASSUME IInv, NEW l \in Loads, Scroll(l)
    PROVE  IInv'
  <1> DEFINE r == Registered(lastVisible)
  <1>1. /\ list # <<>> /\ listener' = [listener EXCEPT ![l] = r]
        /\ cause' = cause \cup
             (IF \E k \in Loads : /\ listener[k].on /\ ~listener[k].synced
                                 /\ listener[k].docs = {}
              THEN {"overlap"} ELSE {})
        /\ UNCHANGED <<newest, cached, list, lastVisible, isFirstPageFirstLoad>>
    BY DEF Scroll
  <1>2. /\ r \in Records /\ r.on = TRUE /\ r.after = lastVisible /\ r.docs = {}
        /\ r.synced = FALSE
    <2>1. lastVisible \in 0..FirstPage  BY FeedAssumption DEF IInv, Types, FirstPage
    <2> QED  BY <2>1 DEF Registered, Records, Posts
  <1> HIDE DEF r
  <1>3. l \in Listeners /\ l # 0 /\ 0 \in Listeners /\ Loads \subseteq Listeners /\ 0 \notin Loads
    BY DEF Listeners, Loads
  <1>4. /\ listener'[l] = r /\ listener' \in [Listeners -> Records]
        /\ \A k \in Listeners \ {l} : listener'[k] = listener[k]
    BY <1>1, <1>2, <1>3 DEF IInv, Types
  <1>5. Types'  BY <1>1, <1>3, <1>4 DEF IInv, Types
  <1>6. ASSUME "partial" \notin cause'  PROVE \E t \in 0..newest : Shape(t)'
    <2>1. PICK t \in 0..newest : Shape(t)  BY <1>1, <1>6 DEF IInv
    <2>2. ~isFirstPageFirstLoad /\ Loaded(t)
      BY <1>1, <2>1 DEF Shape, Unloaded
    <2>3. CacheOK(t)'  BY <1>1, <2>1 DEF Shape, CacheOK
    <2>4. PagesOK'
      <3>1. ASSUME NEW k \in Loads, listener'[k].on
            PROVE  /\ listener'[k].after \in ToSet(list')
                   /\ listener'[k].docs \in {{}, Window(listener'[k].after - 1)}
                   /\ listener'[k].synced => listener'[k].docs = Window(listener'[k].after - 1)
        <4>1. CASE k = l  BY <1>1, <1>2, <1>4, <2>2, <4>1 DEF Loaded
        <4>2. CASE k # l
          <5>1. listener'[k] = listener[k]  BY <1>3, <1>4, <4>2
          <5> QED  BY <1>1, <2>2, <3>1, <5>1 DEF Loaded, PagesOK
        <4> QED  BY <4>1, <4>2
      <3> QED  BY <3>1 DEF PagesOK
    <2>5. Loaded(t)'
      <3>1. listener'[0] = listener[0]  BY <1>3, <1>4
      <3> QED  BY <1>1, <2>2, <2>4, <3>1 DEF Loaded
    <2>6. Convex => Convex'  BY <1>1 DEF Convex
    <2>7. "overlap" \notin cause' /\ Orderly => Orderly'
      <3>1. SUFFICES ASSUME "overlap" \notin cause', Orderly  PROVE Orderly'
        OBVIOUS
      <3>2. \A k \in Loads : ~Asked(k)  BY <1>1, <3>1 DEF Asked
      <3>3. \A k \in Loads : Asked(k)' => k = l
        <4>1. ASSUME NEW k \in Loads, k # l  PROVE ~(Asked(k)')
          <5>1. listener'[k] = listener[k]  BY <1>3, <1>4, <4>1
          <5> QED  BY <3>2, <5>1 DEF Asked
        <4> QED  BY <4>1
      <3>4. listener'[l].after = lastVisible'  BY <1>1, <1>2, <1>4
      <3> QED  BY <1>1, <3>1, <3>3, <3>4 DEF Orderly
    <2>8. Countdown(t) => Countdown(t)'  BY <1>1 DEF Countdown
    <2>9. Shape(t)'
      BY <1>1, <2>1, <2>2, <2>3, <2>5, <2>6, <2>7, <2>8 DEF Shape
    <2> QED  BY <2>9
  <1> QED  BY <1>1, <1>5, <1>6 DEF IInv

(* A post of anyone: newer than all that was heard of.                     *)
LEMMA PublishHolds == IInv /\ Publish => IInv'
  <1> SUFFICES ASSUME IInv, Publish  PROVE IInv'
    OBVIOUS
  <1>1. /\ newest < MaxPosts /\ newest' = newest + 1
        /\ UNCHANGED <<cached, listener, list, lastVisible, isFirstPageFirstLoad, cause>>
    BY DEF Publish
  <1>2. /\ newest' \in 0..MaxPosts /\ 0..newest \subseteq 0..newest'
        /\ 1..newest \subseteq 1..newest'
    BY <1>1, FeedAssumption DEF IInv, Types
  <1>3. Types'  BY <1>1, <1>2 DEF IInv, Types
  <1>4. ASSUME NEW t, Shape(t)  PROVE Shape(t)'
    BY <1>1, <1>4 DEF Shape, CacheOK, Unloaded, Loaded, PagesOK, Convex, Orderly,
                      Countdown, Asked
  <1> QED  BY <1>1, <1>2, <1>3, <1>4 DEF IInv

(* What earlier visits left in the cache ends with a whole first page.     *)
LEMMA InitHolds == Init => IInv
  <1> SUFFICES ASSUME Init  PROVE IInv
    OBVIOUS
  <1>1. /\ newest \in 0..MaxPosts /\ list = <<>> /\ lastVisible = 0
        /\ listener = [l \in Listeners |-> IF l = 0 THEN Registered(FirstPage) ELSE Unused]
        /\ isFirstPageFirstLoad = TRUE
    BY DEF Init
  <1>2. PICK visits \in SUBSET (1..newest) :
           cached = UNION {Query(FirstPage, 1..t) : t \in visits}
    BY DEF Init
  <1>3. newest \in Nat /\ MaxPosts \in Nat  BY <1>1, FeedAssumption
  <1>4. \A t \in visits : t \in 0..newest /\ Query(FirstPage, 1..t) = Window(t)
    <2>1. \A t \in visits : t \in 0..newest /\ t \in 0..MaxPosts  BY <1>1, <1>3
    <2> QED  BY <2>1, FirstPageQuery
  <1>5. \A p \in cached : \E t \in visits : p \in Window(t)  BY <1>2, <1>4
  <1>6. \A t \in visits : Window(t) \subseteq cached  BY <1>2, <1>4
  <1>7. PICK u \in 0..newest : /\ \A t \in visits : t <= u
                               /\ u \in visits \/ u = 0
    <2> DEFINE T == {n \in Nat : \A t \in visits : t <= n}
    <2>1. T \subseteq Nat /\ newest \in T  BY <1>3
    <2>2. PICK u \in T : \A n \in T : u <= n  BY <2>1, Least
    <2>3. u \in Nat /\ u <= newest /\ \A t \in visits : t <= u  BY <1>3, <2>1, <2>2
    <2>4. ASSUME u \notin visits, u # 0  PROVE FALSE
      <3>1. \A t \in visits : t \in Nat /\ t # u /\ t <= u  BY <1>3, <2>3, <2>4
      <3>2. u - 1 \in Nat /\ \A t \in visits : t <= u - 1  BY <2>3, <2>4, <3>1
      <3>3. u - 1 \in T  BY <3>2
      <3>4. u <= u - 1  BY <2>2, <3>3
      <3> HIDE DEF T
      <3> QED  BY <2>3, <3>4
    <2> QED  BY <1>3, <2>3, <2>4
  <1>8. CacheOK(u)
    <2>1. ASSUME NEW p \in cached  PROVE p \in 1..u
      <3>1. PICK t \in visits : p \in Window(t)  BY <1>5
      <3>2. p \in 1..t /\ t <= u  BY <1>7, <3>1 DEF Window
      <3> QED  BY <1>3, <1>4, <3>2
    <2>2. Window(u) \subseteq cached
      <3>1. Window(0) = {}  BY WindowInterval
      <3> QED  BY <1>6, <1>7, <3>1
    <2> QED  BY <2>1, <2>2 DEF CacheOK
  <1>9. cached \subseteq 1..newest
    <2>1. 1..u \subseteq 1..newest  BY <1>3
    <2> QED  BY <1>8, <2>1 DEF CacheOK
  <1>10. /\ Registered(FirstPage) \in Records /\ Registered(FirstPage).docs = {}
         /\ Registered(FirstPage).after = FirstPage
         /\ Unused \in Records /\ Unused.on = FALSE
    <2>1. 0 \in 0..FirstPage /\ FirstPage \in 0..FirstPage  BY <1>3 DEF FirstPage
    <2> QED  BY <2>1 DEF Registered, Unused, Records, Posts
  <1>11. 0 \in Listeners /\ 0 \notin Loads /\ Loads \subseteq Listeners
    BY DEF Listeners, Loads
  <1>12. Unloaded
    <2>1. listener[0] = Registered(FirstPage)  BY <1>1, <1>11
    <2>2. \A l \in Loads : listener[l] = Unused  BY <1>1, <1>11
    <2> QED  BY <1>1, <1>10, <2>1, <2>2 DEF Unloaded
  <1>13. Types
    <2>1. listener \in [Listeners -> Records] /\ listener[0] = Registered(FirstPage)
      BY <1>1, <1>10, <1>11
    <2>2. 0 \in 0..newest  BY <1>3
    <2> QED  BY <1>1, <1>9, <1>10, <2>1, <2>2 DEF Types
  <1>14. Shape(u)  BY <1>1, <1>8, <1>12 DEF Shape
  <1> QED  BY <1>13, <1>14 DEF IInv

(* Every step, by the lemma of its action.                                 *)
LEMMA NextHolds == IInv /\ [Next]_vars => IInv'
  <1> SUFFICES ASSUME IInv, [Next]_vars  PROVE IInv'
    OBVIOUS
  <1>1. ASSUME UNCHANGED <<newest, cached, listener, list, lastVisible,
                           isFirstPageFirstLoad, cause>>
        PROVE  IInv'
    <2>1. ASSUME NEW t, Shape(t)  PROVE Shape(t)'
      BY <1>1, <2>1 DEF Shape, CacheOK, Unloaded, Loaded, PagesOK, Convex, Orderly,
                        Countdown, Asked
    <2> QED  BY <1>1, <2>1 DEF IInv, Types
  <1>2. CASE UNCHANGED vars  BY <1>1, <1>2 DEF vars
  <1>3. ASSUME NEW l \in Listeners, CacheSnapshot(l)  PROVE IInv'
    BY <1>3, CacheSnapshotHolds
  <1>4. ASSUME NEW l \in Listeners, ServerSnapshot(l)  PROVE IInv'
    BY <1>4, ServerSnapshotHolds
  <1>5. ASSUME NEW l \in Listeners, ListenerFails(l)  PROVE IInv'
    BY <1>5, Silenced DEF ListenerFails
  <1>6. ASSUME NEW l \in Loads, Scroll(l)  PROVE IInv'
    BY <1>6, ScrollHolds
  <1>7. CASE Publish  BY <1>7, PublishHolds
  <1>8. CASE Stop  BY <1>8, Silenced DEF Stop
  <1>9. CASE Start  BY <1>1, <1>9 DEF Start
  <1> QED
    BY <1>2, <1>3, <1>4, <1>5, <1>6, <1>7, <1>8, <1>9 DEF Next

(* In every state, unless a page came from an incomplete cache: the first  *)
(* page listener has heard a window that ends with the newest post it can  *)
(* have heard of, every older page starts after a post of the list and has *)
(* heard the window before it, and the list is what those windows make.    *)
THEOREM Invariance == Spec => []IInv
  BY InitHolds, NextHolds, PTL DEF Spec

(* With one page at a time, each answered as the server answers, no post   *)
(* is listed twice.                                                        *)
THEOREM ListedOnce == Spec => []NoDuplicates
  <1>1. IInv => NoDuplicates
    <2> SUFFICES ASSUME IInv, cause \cap {"overlap", "partial"} = {}  PROVE IsInjective(list)
      BY DEF NoDuplicates
    <2>1. PICK t \in 0..newest : Shape(t)  BY DEF IInv
    <2>2. CASE isFirstPageFirstLoad
      <3>1. DOMAIN list = {}  BY <2>1, <2>2 DEF Shape, Unloaded
      <3> QED  BY <3>1 DEF IsInjective
    <2>3. CASE ~isFirstPageFirstLoad  BY <2>1, <2>3 DEF Shape, Orderly
    <2> QED  BY <2>2, <2>3
  <1> QED  BY <1>1, Invariance, PTL

(* Between the newest and the oldest post of the list none is missing,     *)
(* also when pages overlap and when posts come in bursts that fit a page;  *)
(* and when nothing went wrong the list counts down, each post once.       *)
THEOREM NothingMissing == Spec => []NoHole
  <1>1. IInv => NoHole
    <2> SUFFICES ASSUME IInv
                 PROVE  /\ cause \cap {"skipped", "partial"} = {} =>
                              \A p, q \in ToSet(list) : p..q \subseteq ToSet(list)
                        /\ cause = {} =>
                              \A i \in DOMAIN list : list[i] = lastVisible + Len(list) - i
      BY DEF NoHole
    <2>1. ASSUME "partial" \notin cause, isFirstPageFirstLoad  PROVE list = <<>>
      BY <2>1 DEF IInv, Shape, Unloaded
    <2>2. list = <<>> => DOMAIN list = {} /\ ToSet(list) = {}  BY DEF ToSet
    <2>3. ASSUME cause \cap {"skipped", "partial"} = {}
          PROVE  \A p, q \in ToSet(list) : p..q \subseteq ToSet(list)
      <3>1. CASE isFirstPageFirstLoad  BY <2>1, <2>2, <2>3, <3>1
      <3>2. CASE ~isFirstPageFirstLoad  BY <2>3, <3>2 DEF IInv, Shape, Convex
      <3> QED  BY <3>1, <3>2
    <2>4. ASSUME cause = {}, NEW i \in DOMAIN list
          PROVE  list[i] = lastVisible + Len(list) - i
      <3>1. ~isFirstPageFirstLoad  BY <2>1, <2>2, <2>4
      <3>2. PICK t \in 0..newest : Loaded(t) /\ Countdown(t)
        BY <2>4, <3>1 DEF IInv, Shape
      <3>3. /\ list \in Seq(1..t) /\ t \in Nat /\ lastVisible \in Nat
        BY <3>2 DEF Loaded, IInv, Types
      <3>4. i \in 1..Len(list) /\ Len(list) \in Nat  BY <3>3, LenProperties
      <3>5. Len(list) = t + 1 - lastVisible /\ list[i] = t + 1 - i  BY <3>2 DEF Countdown
      <3> QED  BY <3>3, <3>4, <3>5
    <2> QED  BY <2>3, <2>4
  <1> QED  BY <1>1, Invariance, PTL


-----------------------------------------------------------------------------
(* The likes of a row of the feed: Likes, whose hearts and taps share no   *)
(* state with the list.                                                    *)


(* The values of everything but the counts.                                *)
Typed ==
    /\ MaxTaps \in Nat
    /\ account \in [Devices -> Users]
    /\ server \subseteq Users
    /\ known \in [Devices -> SUBSET Users]
    /\ queue \in [Devices -> Seq({"set", "delete"})]
    /\ tap \in [Taps -> [device : Devices \cup {NoDevice},
                         phase : Pending \cup {"none", "done", "lost"}]]
    /\ \A i \in Taps : tap[i].phase # "none" => tap[i].device \in Devices

Mine(d, u) == account[d] = u
Waiting(u) == \E d \in Devices : Mine(d, u) /\ queue[d] # <<>>
Asking(i, u) == tap[i].phase \in Pending /\ Mine(tap[i].device, u)

(* The write that turns the like of u.                                     *)
Turn(u) == IF u \in server THEN "delete" ELSE "set"

(* A user has one tap under way or one write, not both.                    *)
OneAtATime(u) ==
    /\ \A i, j \in Taps : Asking(i, u) /\ Asking(j, u) => i = j
    /\ \A d, e \in Devices :
          Mine(d, u) /\ Mine(e, u) /\ queue[d] # <<>> /\ queue[e] # <<>> => d = e
    /\ Deciding(u) => ~Waiting(u)

(* What the tap has read is still what the server has.                     *)
ReadIsCurrent(u) ==
    /\ Deciding(u) => \A d \in Devices : Mine(d, u) => (u \in known[d] <=> u \in server)
    /\ \A i \in Taps : Asking(i, u) =>
          /\ tap[i].phase = "liked" => u \in server
          /\ tap[i].phase = "notLiked" => u \notin server

(* What waits turns the like once.                                         *)
WriteTurns(u) ==
    \A d \in Devices : Mine(d, u) /\ queue[d] # <<>> => queue[d] = <<Turn(u)>>

Done(u) == {i \in Taps : tap[i].phase = "done" /\ account[tap[i].device] = u}
Even(u) == Toggles(u) % 2 = 0

(* The taps done say what the server has, or what it will have.            *)
Parity(u) == (u \in server <=> (u \in before <=> Even(u))) <=> ~Waiting(u)

Sound(u) == OneAtATime(u) /\ ReadIsCurrent(u) /\ WriteTurns(u) /\ Parity(u)

RowInv == Typed /\ \A u \in Users \ disturbed : Sound(u)

-----------------------------------------------------------------------------
(* Sequences.                                                              *)
LEMMA SeqFacts ==
    ASSUME NEW x \in {"set", "delete"}
    PROVE  /\ Append(<<>>, x) = <<x>> /\ <<x>> # <<>>
           /\ Head(<<x>>) = x /\ Tail(<<x>>) = <<>>
           /\ <<x>> \in Seq({"set", "delete"})
OBVIOUS

(* Taking from and adding to the queue of writes.                          *)
LEMMA QueueFacts ==
    ASSUME NEW q \in Seq({"set", "delete"})
    PROVE  /\ q # <<>> => Tail(q) \in Seq({"set", "delete"})
           /\ \A x \in {"set", "delete"} : Append(q, x) \in Seq({"set", "delete"})
OBVIOUS

(* One more makes an even number odd, and an odd one even.                 *)
LEMMA OneMore ==
    ASSUME NEW S, IsFiniteSet(S), NEW i, i \notin S
    PROVE  Cardinality(S \cup {i}) % 2 = 0 <=> ~(Cardinality(S) % 2 = 0)
<1>1. Cardinality(S) \in Nat /\ Cardinality(S \cup {i}) = Cardinality(S) + 1
    BY FS_CardinalityType, FS_AddElement
<1> QED
    BY <1>1

(* The toggles of a user are its taps that are done, now and after a step. *)
LEMMA TogglesCounts ==
    \A u : /\ Toggles(u) = Cardinality(Done(u))
           /\ Toggles(u)' = Cardinality(Done(u)')
BY DEF Toggles, Done, Cardinality, Cardinality

(* A user of whom nothing has changed is as sound as before.               *)
LEMMA Undisturbed ==
    ASSUME NEW u, Sound(u), UNCHANGED <<account, before>>,
           u \in server' <=> u \in server,
           \A d \in Devices : Mine(d, u) => queue'[d] = queue[d],
           \A d \in Devices : Mine(d, u) /\ Deciding(u) =>
               (u \in known'[d] <=> u \in known[d]) \/ (u \in known'[d] <=> u \in server'),
           \A i \in Taps : tap'[i] = tap[i]
    PROVE  Sound(u)'
<1>1. /\ \A d : Mine(d, u)' <=> Mine(d, u)
      /\ \A i \in Taps : Asking(i, u)' <=> Asking(i, u)
      /\ Deciding(u)' <=> Deciding(u)
      /\ Turn(u)' = Turn(u)
    BY DEF Mine, Asking, Deciding, Turn
<1>2. Waiting(u)' <=> Waiting(u)
    BY <1>1 DEF Waiting
<1>3. Done(u)' = Done(u) /\ Toggles(u)' = Toggles(u) /\ (Even(u)' <=> Even(u))
    BY DEF Done, Toggles, Even
<1>4. OneAtATime(u)'
    BY <1>1, <1>2 DEF Sound, OneAtATime
<1>5. ReadIsCurrent(u)'
    BY <1>1 DEF Sound, ReadIsCurrent
<1>6. WriteTurns(u)'
    BY <1>1 DEF Sound, WriteTurns
<1>7. Parity(u)'
    BY <1>2, <1>3 DEF Sound, Parity
<1> QED
    BY <1>4, <1>5, <1>6, <1>7 DEF Sound

(* At first no tap and no write is under way.                              *)
LEMMA InitInv == RowInit => RowInv
<1> SUFFICES ASSUME RowInit PROVE RowInv
    OBVIOUS
<1>1. Typed
    BY LikesAssumption DEF RowInit, Typed, NoTap, Pending
<1>2. ASSUME NEW u \in Users PROVE Sound(u)
    <2>1. \A i \in Taps : ~Asking(i, u) /\ tap[i].phase # "done"
        BY DEF RowInit, Asking, NoTap, Pending
    <2>2. ~Deciding(u) /\ ~Waiting(u) /\ \A d \in Devices : queue[d] = <<>>
        BY <2>1 DEF RowInit, Deciding, Asking, Waiting, Mine
    <2>3. Toggles(u) = 0
        <3>1. {i \in Taps : tap[i].phase = "done" /\ account[tap[i].device] = u} = {}
            BY <2>1
        <3> QED
            BY <3>1, TogglesCounts, FS_EmptySet DEF Done
    <2>4. Parity(u)
        BY <2>2, <2>3 DEF RowInit, Parity, Even
    <2> QED
        BY <2>1, <2>2, <2>4 DEF Sound, OneAtATime, ReadIsCurrent, WriteTurns
<1> QED
    BY <1>1, <1>2 DEF RowInv

-----------------------------------------------------------------------------
(* The listeners of the row touch nothing of this.                         *)
LEMMA EventStep ==
    ASSUME RowInv, UNCHANGED <<external, tap, before, disturbed>>
    PROVE  RowInv'
<1>1. Typed'
    BY DEF RowInv, Typed, external
<1>2. ASSUME NEW u \in Users \ disturbed PROVE Sound(u)'
    BY Undisturbed DEF RowInv, external
<1> QED
    BY <1>1, <1>2 DEF RowInv

(* A tap that comes in order is the only one, and nothing waits.           *)
LEMMA TapStep ==
    ASSUME RowInv, NEW i \in Taps, NEW d \in Devices, Tap(i, d)
    PROVE  RowInv'
<1>1. /\ tap[i].phase = "none"
      /\ tap' = [tap EXCEPT ![i] = [device |-> d, phase |-> "asked"]]
      /\ UNCHANGED <<account, server, known, queue, before>>
      /\ disturbed' = IF Settled(account[d]) THEN disturbed ELSE disturbed \cup {account[d]}
    BY DEF Tap, NoTap, external
<1>2. Typed'
    BY <1>1 DEF RowInv, Typed, Pending
<1>3. /\ \A j \in Taps \ {i} : tap'[j] = tap[j]
      /\ tap'[i] = [device |-> d, phase |-> "asked"]
    BY <1>1 DEF RowInv, Typed
<1>4. ASSUME NEW u \in Users \ disturbed' PROVE Sound(u)'
    <2>1. Sound(u) /\ u \notin disturbed
        BY <1>1, <1>4 DEF RowInv
    <2>2. /\ \A e : Mine(e, u)' <=> Mine(e, u)
          /\ \A j \in Taps \ {i} : Asking(j, u)' <=> Asking(j, u)
          /\ (Waiting(u)' <=> Waiting(u)) /\ Turn(u)' = Turn(u)
        BY <1>1, <1>3 DEF Mine, Asking, Waiting, Turn
    <2>3. Parity(u)'
        <3>1. Done(u)' = Done(u)
            BY <1>1, <1>3 DEF Done
        <3> QED
            BY <1>1, <2>1, <2>2, <3>1 DEF Sound, Parity, Even, Toggles, Done
    <2>4. WriteTurns(u)'
        BY <1>1, <2>1, <2>2 DEF Sound, WriteTurns
    <2>5. CASE account[d] # u
        <3>1. ~Asking(i, u)' /\ ~Asking(i, u)
            BY <1>1, <1>3, <2>5 DEF Asking, Mine, Pending
        <3>2. Deciding(u)' <=> Deciding(u)
            BY <2>2, <3>1 DEF Deciding, Asking, Mine
        <3> QED
            BY <1>1, <1>3, <2>1, <2>2, <2>3, <2>4, <3>1, <3>2
               DEF Sound, OneAtATime, ReadIsCurrent
    <2>6. CASE account[d] = u
        <3>1. Settled(u)
            BY <1>1, <1>4, <2>6
        <3>2. /\ \A j \in Taps \ {i} : ~Asking(j, u)'
              /\ ~Waiting(u)
              /\ \A e \in Devices : Mine(e, u) => (u \in known[e] <=> u \in server)
            BY <2>2, <3>1 DEF Settled, Deciding, Asking, Mine, Waiting
        <3>3. OneAtATime(u)'
            BY <1>1, <2>1, <2>2, <3>2 DEF Sound, OneAtATime
        <3>4. ReadIsCurrent(u)'
            BY <1>1, <1>3, <2>2, <3>2 DEF ReadIsCurrent
        <3> QED
            BY <2>3, <2>4, <3>3, <3>4 DEF Sound
    <2> QED
        BY <2>5, <2>6
<1> QED
    BY <1>2, <1>4 DEF RowInv

(* The answer says what the server has of the user, since nothing of his   *)
(* waits and his devices know it.                                          *)
LEMMA AnswerStep ==
    ASSUME RowInv, NEW i \in Taps, NEW fromServer \in BOOLEAN, GetAnswered(i, fromServer)
    PROVE  RowInv'
<1> DEFINE d == tap[i].device
           base == IF fromServer THEN server ELSE known[d]
           answer == IF Sees(d, base) THEN "liked" ELSE "notLiked"
<1>1. /\ tap[i].phase = "asked"
      /\ tap' = [tap EXCEPT ![i].phase = answer]
      /\ known' = [known EXCEPT ![d] = IF account[d] \in base THEN @ \cup {account[d]}
                                       ELSE @ \ {account[d]}]
      /\ UNCHANGED <<account, server, queue, before, disturbed>>
    BY DEF GetAnswered
<1>2. d \in Devices /\ account[d] \in Users /\ answer \in {"liked", "notLiked"}
    BY <1>1 DEF RowInv, Typed
<1>3. Typed'
    BY <1>1, <1>2 DEF RowInv, Typed, Pending
<1>4. /\ \A j \in Taps \ {i} : tap'[j] = tap[j]
      /\ tap'[i].device = d /\ tap'[i].phase = answer
      /\ \A e \in Devices \ {d} : known'[e] = known[e]
      /\ account[d] \in known'[d] <=> account[d] \in base
    BY <1>1, <1>2 DEF RowInv, Typed
<1> HIDE DEF answer
<1>5. ASSUME NEW u \in Users \ disturbed PROVE Sound(u)'
    <2>1. Sound(u)
        BY DEF RowInv
    <2>2. /\ \A e : Mine(e, u)' <=> Mine(e, u)
          /\ \A j \in Taps : Asking(j, u)' <=> Asking(j, u)
          /\ (Waiting(u)' <=> Waiting(u)) /\ Turn(u)' = Turn(u)
        BY <1>1, <1>2, <1>4 DEF Mine, Asking, Waiting, Turn, Pending
    <2>3. Deciding(u)' <=> Deciding(u)
        BY <2>2 DEF Deciding, Asking, Mine
    <2>4. Parity(u)'
        <3>1. Done(u)' = Done(u)
            BY <1>1, <1>2, <1>4 DEF Done
        <3> QED
            BY <1>1, <2>1, <2>2, <3>1 DEF Sound, Parity, Even, Toggles, Done
    <2>5. WriteTurns(u)' /\ OneAtATime(u)'
        BY <1>1, <2>1, <2>2, <2>3 DEF Sound, WriteTurns, OneAtATime
    <2>6. ReadIsCurrent(u)'
        <3>1. CASE account[d] # u
            BY <1>1, <1>4, <2>1, <2>2, <2>3, <3>1 DEF Sound, ReadIsCurrent, Asking, Mine
        <3>2. CASE account[d] = u
            <4>1. Asking(i, u) /\ Deciding(u)
                BY <1>1, <3>2 DEF Asking, Mine, Deciding, Pending
            <4>2. /\ queue[d] = <<>>
                  /\ \A e \in Devices : Mine(e, u) => (u \in known[e] <=> u \in server)
                BY <1>2, <2>1, <3>2, <4>1
                   DEF Sound, OneAtATime, ReadIsCurrent, Waiting, Mine
            <4>3. u \in base <=> u \in server
                BY <1>2, <3>2, <4>2 DEF Mine
            <4>4. answer = IF u \in server THEN "liked" ELSE "notLiked"
                BY <3>2, <4>2, <4>3 DEF answer, Sees
            <4>5. \A e \in Devices : Mine(e, u) => (u \in known'[e] <=> u \in server')
                BY <1>1, <1>4, <3>2, <4>2, <4>3 DEF Mine
            <4>6. \A j \in Taps : Asking(j, u) => j = i
                BY <2>1, <4>1 DEF Sound, OneAtATime
            <4> QED
                BY <1>1, <1>4, <2>2, <4>4, <4>5, <4>6 DEF ReadIsCurrent
        <3> QED
            BY <3>1, <3>2
    <2> QED
        BY <2>4, <2>5, <2>6 DEF Sound
<1> QED
    BY <1>1, <1>3, <1>5 DEF RowInv

(* The tap is done and its write waits: it turns what the server has.      *)
LEMMA WriteStep ==
    ASSUME RowInv, NEW i \in Taps, OnGet(i)
    PROVE  RowInv'
<1> DEFINE d == tap[i].device
           write == IF tap[i].phase = "notLiked" THEN "set" ELSE "delete"
<1>1. /\ tap[i].phase \in {"liked", "notLiked"}
      /\ queue' = [queue EXCEPT ![d] = Append(@, write)]
      /\ tap' = [tap EXCEPT ![i].phase = "done"]
      /\ UNCHANGED <<account, server, known, before, disturbed>>
    BY DEF OnGet
<1>2. d \in Devices /\ write \in {"set", "delete"}
    BY <1>1 DEF RowInv, Typed
<1>3. Typed'
    BY <1>1, <1>2, QueueFacts DEF RowInv, Typed
<1>4. /\ \A j \in Taps \ {i} : tap'[j] = tap[j]
      /\ tap'[i].device = d /\ tap'[i].phase = "done"
      /\ \A e \in Devices \ {d} : queue'[e] = queue[e]
      /\ queue'[d] = Append(queue[d], write)
    BY <1>1, <1>2 DEF RowInv, Typed
<1>5. ASSUME NEW u \in Users \ disturbed PROVE Sound(u)'
    <2>1. Sound(u)
        BY DEF RowInv
    <2>2. /\ \A e : Mine(e, u)' <=> Mine(e, u)
          /\ \A j \in Taps \ {i} : Asking(j, u)' <=> Asking(j, u)
          /\ ~Asking(i, u)' /\ Turn(u)' = Turn(u)
        BY <1>1, <1>4 DEF Mine, Asking, Turn, Pending
    <2>3. CASE account[d] # u
        <3>1. ~Asking(i, u)
            BY <2>3 DEF Asking, Mine
        <3>2. (Deciding(u)' <=> Deciding(u)) /\ (Waiting(u)' <=> Waiting(u))
            BY <1>4, <2>2, <2>3, <3>1 DEF Deciding, Waiting, Asking, Mine
        <3>3. Done(u)' = Done(u)
            BY <1>1, <1>4, <2>3 DEF Done
        <3>4. Parity(u)'
            BY <1>1, <2>1, <3>2, <3>3 DEF Sound, Parity, Even, Toggles, Done
        <3>5. WriteTurns(u)' /\ OneAtATime(u)' /\ ReadIsCurrent(u)'
            BY <1>1, <1>4, <2>1, <2>2, <2>3, <3>1, <3>2
               DEF Sound, WriteTurns, OneAtATime, ReadIsCurrent, Mine
        <3> QED
            BY <3>4, <3>5 DEF Sound
    <2>4. CASE account[d] = u
        <3>1. Asking(i, u) /\ Deciding(u)
            BY <1>1, <2>4 DEF Asking, Mine, Deciding, Pending
        <3>2. ~Waiting(u) /\ \A e \in Devices : Mine(e, u) => queue[e] = <<>>
            BY <2>1, <3>1 DEF Sound, OneAtATime, Waiting
        <3>3. \A j \in Taps : ~Asking(j, u)'
            BY <2>1, <2>2, <3>1 DEF Sound, OneAtATime
        <3>4. write = Turn(u)
            BY <1>1, <2>1, <3>1 DEF Sound, ReadIsCurrent, Turn
        <3>5. queue'[d] = <<Turn(u)>> /\ queue'[d] # <<>>
            BY <1>2, <1>4, <2>4, <3>2, <3>4, SeqFacts DEF Mine
        <3>6. WriteTurns(u)' /\ OneAtATime(u)' /\ Waiting(u)' /\ ~Deciding(u)'
            <4>1. ~Deciding(u)'
                BY <3>3 DEF Deciding, Asking, Mine
            <4>2. \A e \in Devices : Mine(e, u) /\ queue'[e] # <<>> => e = d
                BY <1>4, <3>2
            <4>3. Waiting(u)'
                BY <1>2, <2>2, <2>4, <3>5 DEF Waiting, Mine
            <4> QED
                BY <2>2, <3>3, <3>5, <4>1, <4>2, <4>3 DEF WriteTurns, OneAtATime
        <3>7. ReadIsCurrent(u)'
            BY <3>3, <3>6 DEF ReadIsCurrent
        <3>8. Done(u)' = Done(u) \cup {i} /\ i \notin Done(u)
            BY <1>1, <1>4, <2>4 DEF Done
        <3>9. Even(u)' <=> ~Even(u)
            <4>1. IsFiniteSet(Done(u))
                BY FS_Interval, FS_Subset DEF RowInv, Typed, Done, Taps
            <4> QED
                BY <3>8, <4>1, OneMore, TogglesCounts DEF Even
        <3>10. Parity(u)'
            BY <1>1, <2>1, <3>2, <3>6, <3>9 DEF Sound, Parity
        <3> QED
            BY <3>6, <3>7, <3>10 DEF Sound
    <2> QED
        BY <2>3, <2>4
<1> QED
    BY <1>1, <1>3, <1>5 DEF RowInv

-----------------------------------------------------------------------------
(* The only write of a user who is in order turns his like and is gone.    *)
LEMMA CommitStep ==
    ASSUME RowInv, NEW d \in Devices, Commit(d)
    PROVE  RowInv'
<1>1. /\ queue[d] # <<>>
      /\ server' = After(d, server)
      /\ known' = [known EXCEPT ![d] = After(d, @)]
      /\ queue' = [queue EXCEPT ![d] = Tail(@)]
      /\ UNCHANGED <<account, tap, before, disturbed>>
    BY DEF Commit
<1>2. account[d] \in Users
    BY DEF RowInv, Typed
<1>3. Typed'
    BY <1>1, <1>2, QueueFacts DEF RowInv, Typed, After
<1>4. /\ \A e \in Devices \ {d} : queue'[e] = queue[e] /\ known'[e] = known[e]
      /\ queue'[d] = Tail(queue[d])
    BY <1>1 DEF RowInv, Typed
<1>5. ASSUME NEW u \in Users \ disturbed PROVE Sound(u)'
    <2>1. Sound(u)
        BY DEF RowInv
    <2>2. CASE account[d] # u
        <3>1. u \in server' <=> u \in server
            BY <1>1, <2>2 DEF After
        <3> QED
            BY <1>1, <1>4, <2>1, <2>2, <3>1, Undisturbed DEF Mine
    <2>3. CASE account[d] = u
        <3>1. queue[d] = <<Turn(u)>> /\ Turn(u) \in {"set", "delete"}
            BY <1>1, <2>1, <2>3 DEF Sound, WriteTurns, Mine, Turn
        <3>2. queue'[d] = <<>> /\ (u \in server' <=> u \notin server)
            BY <1>1, <1>4, <2>3, <3>1, SeqFacts DEF After, Turn
        <3>3. Waiting(u) /\ ~Deciding(u)
            BY <1>1, <2>1, <2>3 DEF Sound, OneAtATime, Waiting, Mine
        <3>4. \A e \in Devices : Mine(e, u) => queue'[e] = <<>>
            BY <1>1, <1>4, <2>1, <2>3, <3>2 DEF Sound, OneAtATime, Mine
        <3>5. ~Waiting(u)' /\ ~Deciding(u)' /\ \A i \in Taps : ~Asking(i, u)'
            BY <1>1, <3>3, <3>4 DEF Waiting, Deciding, Asking, Mine
        <3>6. Even(u)' <=> Even(u)
            BY <1>1 DEF Even, Toggles
        <3>7. Parity(u)'
            BY <1>1, <2>1, <3>2, <3>3, <3>5, <3>6 DEF Sound, Parity
        <3> QED
            BY <1>1, <3>4, <3>5, <3>7
               DEF Sound, OneAtATime, ReadIsCurrent, WriteTurns, Mine
    <2> QED
        BY <2>2, <2>3
<1> QED
    BY <1>1, <1>3, <1>5 DEF RowInv

(* A refused write disturbs its user and nobody else.                      *)
LEMMA RefuseStep ==
    ASSUME RowInv, NEW d \in Devices, Refuse(d)
    PROVE  RowInv'
<1>1. /\ queue[d] # <<>>
      /\ queue' = [queue EXCEPT ![d] = Tail(@)]
      /\ disturbed' = disturbed \cup {account[d]}
      /\ UNCHANGED <<account, server, known, tap, before>>
    BY DEF Refuse
<1>2. Typed'
    BY <1>1, QueueFacts DEF RowInv, Typed
<1>3. \A e \in Devices \ {d} : queue'[e] = queue[e]
    BY <1>1 DEF RowInv, Typed
<1>4. ASSUME NEW u \in Users \ disturbed' PROVE Sound(u)'
    <2>1. Sound(u) /\ account[d] # u
        BY <1>1, <1>4 DEF RowInv
    <2> QED
        BY <1>1, <1>3, <2>1, Undisturbed DEF Mine
<1> QED
    BY <1>2, <1>4 DEF RowInv

(* A device hears what the server has.                                     *)
LEMMA SyncStep ==
    ASSUME RowInv, NEW d \in Devices, Sync(d)
    PROVE  RowInv'
<1>1. /\ known' = [known EXCEPT ![d] = server]
      /\ UNCHANGED <<account, server, queue, tap, before, disturbed>>
    BY DEF Sync
<1>2. Typed' /\ known'[d] = server /\ \A e \in Devices \ {d} : known'[e] = known[e]
    BY <1>1 DEF RowInv, Typed
<1>3. ASSUME NEW u \in Users \ disturbed PROVE Sound(u)'
    <2>1. Sound(u)
        BY DEF RowInv
    <2> QED
        BY <1>1, <1>2, <2>1, Undisturbed
<1> QED
    BY <1>1, <1>2, <1>3 DEF RowInv

(* Taps are lost before they are done, the queue is not.                   *)
LEMMA DieStep ==
    ASSUME RowInv, NEW d \in Devices, Die(d)
    PROVE  RowInv'
<1> DEFINE hit(i) == tap[i].phase \in Pending /\ tap[i].device = d
<1>1. /\ tap' = [i \in Taps |-> IF hit(i) THEN [tap[i] EXCEPT !.phase = "lost"] ELSE tap[i]]
      /\ UNCHANGED <<account, server, known, queue, before, disturbed>>
    BY DEF Die, external
<1>2. \A i \in Taps :
          /\ tap[i] \in [device : Devices \cup {NoDevice},
                         phase : Pending \cup {"none", "done", "lost"}]
          /\ ~hit(i) => tap'[i] = tap[i]
          /\ hit(i) => tap'[i] = [tap[i] EXCEPT !.phase = "lost"]
    BY <1>1 DEF RowInv, Typed
<1>3. \A i \in Taps :
          /\ tap'[i].device = tap[i].device
          /\ tap'[i].phase = IF hit(i) THEN "lost" ELSE tap[i].phase
    BY <1>2
<1>4. Typed'
    <2>1. \A i \in Taps : tap'[i] \in [device : Devices \cup {NoDevice},
                                       phase : Pending \cup {"none", "done", "lost"}]
        BY <1>2
    <2>2. \A i \in Taps : tap'[i].phase # "none" => tap'[i].device \in Devices
        BY <1>3 DEF RowInv, Typed, Pending
    <2> QED
        BY <1>1, <2>1, <2>2 DEF RowInv, Typed
<1>5. ASSUME NEW u \in Users \ disturbed PROVE Sound(u)'
    <2>1. Sound(u)
        BY DEF RowInv
    <2>2. /\ \A e : Mine(e, u)' <=> Mine(e, u)
          /\ \A i \in Taps : Asking(i, u)' => Asking(i, u) /\ tap'[i].phase = tap[i].phase
          /\ (Waiting(u)' <=> Waiting(u)) /\ Turn(u)' = Turn(u)
        BY <1>1, <1>3 DEF Mine, Asking, Waiting, Turn, Pending
    <2>3. Deciding(u)' => Deciding(u)
        BY <2>2 DEF Deciding, Asking, Mine
    <2>4. Done(u)' = Done(u)
        <3>1. \A i \in Taps : tap'[i].phase = "done" <=> tap[i].phase = "done"
            BY <1>3 DEF Pending
        <3> QED
            BY <1>1, <1>3, <3>1 DEF Done
    <2>5. Parity(u)'
        BY <1>1, <2>1, <2>2, <2>4 DEF Sound, Parity, Even, Toggles, Done
    <2> QED
        BY <1>1, <2>1, <2>2, <2>3, <2>5
           DEF Sound, OneAtATime, ReadIsCurrent, WriteTurns
<1> QED
    BY <1>1, <1>4, <1>5 DEF RowInv

(* Every step preserves the invariant.                                     *)
LEMMA NextInv == RowInv /\ [RowNext]_(rowVars) => RowInv'
<1> SUFFICES ASSUME RowInv, [RowNext]_(rowVars) PROVE RowInv'
    OBVIOUS
<1>1. CASE \E d \in Devices : HeartEvent(d) \/ CountEvent(d)
    BY <1>1, EventStep DEF HeartEvent, CountEvent
<1>2. CASE \E d \in Devices : Commit(d)
    BY <1>2, CommitStep
<1>3. CASE \E d \in Devices : Refuse(d)
    BY <1>3, RefuseStep
<1>4. CASE \E d \in Devices : Sync(d)
    BY <1>4, SyncStep
<1>5. CASE \E d \in Devices : Die(d)
    BY <1>5, DieStep
<1>6. CASE \E i \in Taps, d \in Devices : Tap(i, d)
    BY <1>6, TapStep
<1>7. CASE \E i \in Taps, fromServer \in BOOLEAN : GetAnswered(i, fromServer)
    BY <1>7, AnswerStep
<1>8. CASE \E i \in Taps : OnGet(i)
    BY <1>8, WriteStep
<1>9. CASE \E i \in Taps : GetFails(i)
    <2>1. PICK i \in Taps : tap[i].phase = "asked" /\ Die(tap[i].device)
        BY <1>9 DEF GetFails
    <2>2. tap[i].device \in Devices
        BY <2>1 DEF RowInv, Typed
    <2> QED
        BY <2>1, <2>2, DieStep
<1>10. CASE UNCHANGED rowVars
    BY <1>10, EventStep DEF rowVars
<1> QED
    BY <1>1, <1>2, <1>3, <1>4, <1>5, <1>6, <1>7, <1>8, <1>9, <1>10 DEF RowNext

-----------------------------------------------------------------------------
(* The invariant holds in every behaviour of the hearts and the store      *)
(* (BlogRecyclerAdapter.java, the toggle and its listeners).               *)
THEOREM RowInvariance == RowSpec => []RowInv
BY InitInv, NextInv, PTL DEF RowSpec

(* Each tap that is not lost turns the like: when nothing of a user is     *)
(* under way the taps say what the server has, whichever devices they were *)
(* made on and whatever died, for any number of users, devices and taps    *)
(* (onClick and onComplete of blogLikeBtn).                                *)
THEOREM TapsTurn == RowSpec => []TogglesAddUp
<1>1. RowInv => TogglesAddUp
    <2> SUFFICES ASSUME RowInv, NEW u \in Users \ disturbed, Quiet(u)
                 PROVE  u \in server <=> (u \in before <=> Toggles(u) % 2 = 0)
        BY DEF TogglesAddUp
    <2>1. Parity(u) /\ ~Waiting(u)
        BY DEF RowInv, Sound, Quiet, Waiting, Mine
    <2> QED
        BY <2>1 DEF Parity, Even
<1> QED
    BY <1>1, RowInvariance, PTL
=============================================================================

-------------------------------- MODULE Feed --------------------------------
(***************************************************************************)
(* HomeCommunity: the list of posts, newest first, fed by Firestore        *)
(* snapshot listeners.  One listener follows the newest PageSize posts;    *)
(* each time the list is scrolled to its bottom one more listener asks for *)
(* the PageSize posts older than lastVisible.  All listeners belong to the *)
(* activity: they are removed when it stops, and only onCreate registers   *)
(* the first one.                                                          *)
(*                                                                         *)
(* Posts are the numbers 1, 2, ..., newest in the order of their server    *)
(* timestamps.  A listener first hears what the local cache knows, then    *)
(* what the server says, and then only what changes.  One instance of the  *)
(* activity is modelled, from onCreate to its end.                         *)
(***************************************************************************)
EXTENDS Integers, FiniteSets, Sequences, SequencesExt

CONSTANTS PageSize,   \* the limit of both queries (3 in the code)
          MaxPosts,   \* bound: posts written
          MaxLoads    \* bound: calls of loadMorePost

ASSUME FeedAssumption ==
    /\ PageSize \in Nat \ {0} /\ MaxPosts \in Nat /\ MaxLoads \in Nat

VARIABLES newest,                 \* the posts on the server are 1..newest
          cached,                 \* the posts in Firestore's local cache
          listener,               \* 0: the first page; others: older pages
          list,                   \* blog_list
          lastVisible,            \* 0 is null
          isFirstPageFirstLoad,
          activity,
          cause                   \* history: what went wrong so far

vars == <<newest, cached, listener, list, lastVisible, isFirstPageFirstLoad,
          activity, cause>>

Posts == 1..MaxPosts
Loads == 1..MaxLoads
Listeners == {0} \cup Loads

(* The two queries: the PageSize newest of the posts older than after.     *)
Query(after, posts) ==
    LET older == {p \in posts : p < after} IN
    {p \in older : Cardinality({q \in older : q > p}) < PageSize}

(* The posts in the order of the query, and in the opposite order.         *)
NewestFirst(posts) ==
    CHOOSE s \in [1..Cardinality(posts) -> posts] :
        \A i \in DOMAIN s : Cardinality({q \in posts : q > s[i]}) = i - 1
OldestFirst(posts) ==
    CHOOSE s \in [1..Cardinality(posts) -> posts] :
        \A i \in DOMAIN s : Cardinality({q \in posts : q < s[i]}) = i - 1

Oldest(posts) == CHOOSE p \in posts : \A q \in posts : p <= q

FirstPage == MaxPosts + 1    \* older than anything that may come

Unused == [on |-> FALSE, after |-> 0, docs |-> {}, synced |-> FALSE]
Registered(after) == [on |-> TRUE, after |-> after, docs |-> {}, synced |-> FALSE]

(* The activity is created with what earlier visits left in the cache: the *)
(* first page as it was at each visit.                                     *)
Init ==
    /\ newest \in 0..MaxPosts
    /\ \E visits \in SUBSET (1..newest) :
          cached = UNION {Query(FirstPage, 1..t) : t \in visits}
    /\ listener = [l \in Listeners |-> IF l = 0 THEN Registered(FirstPage) ELSE Unused]
    /\ list = <<>>
    /\ lastVisible = 0
    /\ isFirstPageFirstLoad = TRUE
    /\ activity = "started"
    /\ cause = {}

-----------------------------------------------------------------------------
(* The handlers of the listeners.                                          *)

(* Fault: of several new posts only the newest is put in front.            *)
FirstPageNewestOnly(docs, added) ==
    IF docs = {}
    THEN UNCHANGED <<list, lastVisible, isFirstPageFirstLoad>>
    ELSE /\ lastVisible' = IF isFirstPageFirstLoad THEN Oldest(docs) ELSE lastVisible
         /\ list' = IF isFirstPageFirstLoad
                    THEN NewestFirst(added)
                    ELSE IF added = {} THEN list
                    ELSE <<Head(NewestFirst(added))>> \o list
         /\ isFirstPageFirstLoad' = FALSE

(* Fault: the first page is read once and its updates are ignored.         *)
FirstPageOnce(docs, added) ==
    IF docs = {} \/ ~isFirstPageFirstLoad
    THEN UNCHANGED <<list, lastVisible, isFirstPageFirstLoad>>
    ELSE /\ lastVisible' = Oldest(docs)
         /\ list' = NewestFirst(added)
         /\ isFirstPageFirstLoad' = FALSE

(* First page: the first load fills the list; later every added post, in   *)
(* the order of the query, is put in front of it, so the last comes first. *)
FirstPageEvent(docs, added) ==
    IF docs = {}
    THEN UNCHANGED <<list, lastVisible, isFirstPageFirstLoad>>
    ELSE /\ lastVisible' = IF isFirstPageFirstLoad THEN Oldest(docs) ELSE lastVisible
         /\ list' = IF isFirstPageFirstLoad
                    THEN NewestFirst(added)
                    ELSE OldestFirst(added) \o list
         /\ isFirstPageFirstLoad' = FALSE

(* An older page is appended, and the next one starts after it.            *)
PageEvent(docs, added) ==
    /\ IF docs = {}
       THEN UNCHANGED <<list, lastVisible>>
       ELSE /\ lastVisible' = Oldest(docs)
            /\ list' = list \o NewestFirst(added)
    /\ UNCHANGED isFirstPageFirstLoad

(* What is wrong with an event: several new posts at once are reversed; if *)
(* they fill the page others may have been skipped; a page from the cache  *)
(* need not be the page of the server.                                     *)
EventCause(l, docs) ==
    LET before == listener[l].docs
        later == l = 0 /\ ~isFirstPageFirstLoad
    IN  (IF later /\ Cardinality(docs \ before) > 1 THEN {"burst"} ELSE {})
        \cup (IF later /\ \E p \in 1..(Oldest(docs) - 1) : \A q \in before : p > q
              THEN {"skipped"} ELSE {})
        \cup (IF l # 0 /\ docs # Query(listener[l].after, 1..newest)
              THEN {"partial"} ELSE {})

Event(l, docs) ==
    LET added == docs \ listener[l].docs IN
    /\ IF l = 0 THEN FirstPageEvent(docs, added) ELSE PageEvent(docs, added)
    /\ cause' = cause \cup EventCause(l, docs)

(* The cache answers before the server, if it has anything to say.         *)
CacheSnapshot(l) ==
    LET docs == Query(listener[l].after, cached) IN
    /\ listener[l].on /\ ~listener[l].synced
    /\ docs # {} /\ docs # listener[l].docs
    /\ Event(l, docs)
    /\ listener' = [listener EXCEPT ![l].docs = docs]
    /\ UNCHANGED <<newest, cached, activity>>

(* The server's answer, and later its updates, which may cover any number  *)
(* of new posts.  The handler is called when the result changes, and once  *)
(* if there is no post at all.                                             *)
ServerSnapshot(l) ==
    LET docs == Query(listener[l].after, 1..newest) IN
    /\ listener[l].on
    /\ ~listener[l].synced \/ docs # listener[l].docs
    /\ IF docs = listener[l].docs /\ docs # {}
       THEN UNCHANGED <<list, lastVisible, isFirstPageFirstLoad, cause>>
       ELSE Event(l, docs)
    /\ listener' = [listener EXCEPT ![l].docs = docs, ![l].synced = TRUE]
    /\ cached' = cached \cup docs
    /\ UNCHANGED <<newest, activity>>

(* A listener that fails is called without documents and dereferences null.*)
ListenerFails(l) ==
    /\ listener[l].on
    /\ activity' = "crashed"
    /\ listener' = [k \in Listeners |-> [listener[k] EXCEPT !.on = FALSE]]
    /\ UNCHANGED <<newest, cached, list, lastVisible, isFirstPageFirstLoad, cause>>

-----------------------------------------------------------------------------
(* The user, the system and the other users.                               *)

(* Fault: the anchor of a new page is the last post of the list.           *)
ScrollFromEnd(l) ==
    /\ activity \in {"started", "restarted"}
    /\ list # <<>>
    /\ listener[l] = Unused /\ \A k \in 1..(l - 1) : listener[k] # Unused
    /\ listener' = [listener EXCEPT ![l] = Registered(list[1])]
    /\ cause' = cause
    /\ UNCHANGED <<newest, cached, list, lastVisible, isFirstPageFirstLoad, activity>>

(* onScrolled at the bottom of the list: loadMorePost, whether or not the  *)
(* previous page has arrived.  (An empty list does not scroll.)            *)
Scroll(l) ==
    /\ activity \in {"started", "restarted"}
    /\ list # <<>>
    /\ listener[l] = Unused /\ \A k \in 1..(l - 1) : listener[k] # Unused
    /\ listener' = [listener EXCEPT ![l] = Registered(lastVisible)]
    /\ cause' = cause \cup
          (IF \E k \in Loads : /\ listener[k].on /\ ~listener[k].synced
                              /\ listener[k].docs = {}
           THEN {"overlap"} ELSE {})
    /\ UNCHANGED <<newest, cached, list, lastVisible, isFirstPageFirstLoad, activity>>

(* Another user publishes.                                                 *)
Publish ==
    /\ newest < MaxPosts
    /\ newest' = newest + 1
    /\ UNCHANGED <<cached, listener, list, lastVisible, isFirstPageFirstLoad,
                   activity, cause>>

(* The activity is covered, left or sent away by onStart: Firestore        *)
(* removes every listener that was registered with it.                     *)
Stop ==
    /\ activity \in {"started", "restarted"}
    /\ activity' = "stopped"
    /\ listener' = [l \in Listeners |-> [listener[l] EXCEPT !.on = FALSE]]
    /\ UNCHANGED <<newest, cached, list, lastVisible, isFirstPageFirstLoad, cause>>

(* The user comes back: onStart registers nothing.                         *)
Start ==
    /\ activity = "stopped"
    /\ activity' = "restarted"
    /\ UNCHANGED <<newest, cached, listener, list, lastVisible,
                   isFirstPageFirstLoad, cause>>

Next ==
    \/ \E l \in Listeners : CacheSnapshot(l) \/ ServerSnapshot(l) \/ ListenerFails(l)
    \/ \E l \in Loads : Scroll(l)
    \/ Publish \/ Stop \/ Start

Spec == Init /\ [][Next]_vars

(* A listener that stays registered hears from the server.                 *)
Fairness == \A l \in Listeners : WF_vars(ServerSnapshot(l))

FairSpec == Spec /\ Fairness

-----------------------------------------------------------------------------
(* Properties.                                                             *)

(* The values every variable can take.                                     *)
TypeOK ==
    /\ newest \in 0..MaxPosts
    /\ cached \subseteq 1..newest
    /\ listener \in [Listeners -> [on : BOOLEAN, after : 0..FirstPage,
                                   docs : SUBSET Posts, synced : BOOLEAN]]
    /\ list \in Seq(1..newest)
    /\ lastVisible \in 0..newest
    /\ isFirstPageFirstLoad \in BOOLEAN
    /\ activity \in {"started", "stopped", "restarted", "crashed"}
    /\ cause \subseteq {"burst", "skipped", "partial", "overlap"}

(* With one page at a time, each answered as the server answers, no post   *)
(* is listed twice.                                                        *)
NoDuplicates == cause \cap {"overlap", "partial"} = {} => IsInjective(list)

(* Between the newest and the oldest post of the list none is missing,     *)
(* even when pages overlap or new posts come in bursts that fit a page; if *)
(* nothing at all went wrong the list runs from the newest post seen down  *)
(* to the anchor, each post once.                                          *)
NoHole ==
    /\ cause \cap {"skipped", "partial"} = {} =>
          \A p, q \in ToSet(list) : p..q \subseteq ToSet(list)
    /\ cause = {} => \A i \in DOMAIN list : list[i] = lastVisible + Len(list) - i

(* A feed that stays on screen shows the newest post in the end.           *)
NewestShown ==
    <>[](listener[0].on) => <>[](newest # 0 => newest \in ToSet(list))
=============================================================================
